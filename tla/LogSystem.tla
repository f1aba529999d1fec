------------------------------ MODULE LogSystem ------------------------------
(***************************************************************************)
(* The logging system (lib/src/logsystem.cc, logger.cc) shared             *)
(* by the threads of the modules and by the client, which changes its      *)
(* settings while they log.                                                *)
(*                                                                         *)
(* LOG(level, args) is out(), which takes outMutex, looks at the settings  *)
(* one after the other and chooses a stream, the output of the arguments,  *)
(* and endl(), which gives outMutex back and calls the error handler for a *)
(* message of level 0.  Nobody takes outMutex to change a setting.         *)
(*                                                                         *)
(* A verbosity is a shared cell: every logger brings one along, and        *)
(* updateLoggerLevels makes one for a name nobody has announced.           *)
(***************************************************************************)
EXTENDS Integers, FiniteSets

CONSTANTS
    Threads, Client,   \* the client is the thread that changes settings
    Loggers,
    NameOf,            \* the lowercase name of a logger
    Target,            \* its LogTarget, as a set of "cli" and "file"
    OwnLevel,          \* the verbosity its constructor is called with
    Handler,           \* its errorHandler: "exit" or "client"
    Options,           \* names with an option Logger.<name>
    OptionLevel,       \* and the level it gives
    MaxLevel,
    Nobody, NoCell, NoLogger

Names == {NameOf[g] : g \in Loggers} \union Options
Cells == Loggers \union Names
Levels == 0 .. MaxLevel

ASSUME LogAssumption ==
    /\ Client \in Threads /\ Nobody \notin Threads
    /\ Target \in [Loggers -> SUBSET {"cli", "file"}]
    /\ MaxLevel \in Nat \ {0}
    /\ OwnLevel \in [Loggers -> Levels]
    /\ Handler \in [Loggers -> {"exit", "client"}]
    /\ OptionLevel \in [Options -> Levels]
    /\ Loggers \intersect Names = {}
    /\ NoCell \notin Cells /\ NoLogger \notin Loggers

VARIABLES
    announced,       \* loggers that exist
    verbosity,       \* Logger::verbosity: a cell
    loggerLevels,    \* name -> cell
    level,           \* contents of the cells
    systemVerbosity,
    console,         \* outCLI has the buffer of a stream
    file,            \* outFile is open
    outMutex,        \* its owner
    at,              \* what each thread is doing
    logger, msgLevel,\* in its call of LOG
    stream,          \* the stream out() has returned
    todo, found,     \* updateLoggerLevels: options left, the answer of find()
    ended,           \* exit() was called
    wasOn, wasOff    \* history: what has let the message of the thread that is
                     \* logging through since out() began, and what has not

levelVars == <<announced, verbosity, loggerLevels, level, todo, found>>
sinkVars == <<systemVerbosity, console, file>>
callVars == <<outMutex, at, logger, msgLevel, stream, ended>>
seen == <<wasOn, wasOff>>
vars == <<levelVars, sinkVars, callVars, seen>>

Init ==
    /\ announced = {}
    /\ verbosity = [g \in Loggers |-> g]
    /\ loggerLevels = [n \in Names |-> NoCell]
    /\ level = [c \in Cells |-> IF c \in Loggers THEN OwnLevel[c] ELSE 0]
    /\ systemVerbosity = MaxLevel
    /\ console = TRUE /\ file = FALSE
    /\ outMutex = Nobody
    /\ at = [t \in Threads |-> "idle"]
    /\ logger = [t \in Threads |-> NoLogger]
    /\ msgLevel = [t \in Threads |-> 0]
    /\ stream = [t \in Threads |-> "null"]
    /\ todo = {} /\ found = FALSE
    /\ ended = FALSE
    /\ wasOn = {} /\ wasOff = {}

(* Fault: the logger keeps the verbosity it was constructed with.            *)
AnnounceOwn(g) ==
    /\ loggerLevels' = [loggerLevels EXCEPT ![NameOf[g]] = g]
    /\ UNCHANGED verbosity

(* Fault: the entry of the map is taken without looking whether it exists.   *)
AnnounceUnchecked(g) ==
    /\ verbosity' = [verbosity EXCEPT ![g] = loggerLevels[NameOf[g]]]
    /\ UNCHANGED loggerLevels

(* LogSystem::announce: the first logger of a name brings the verbosity for  *)
(* all of them.                                                              *)
AnnounceCell(g) ==
    IF loggerLevels[NameOf[g]] = NoCell
    THEN loggerLevels' = [loggerLevels EXCEPT ![NameOf[g]] = g] /\ UNCHANGED verbosity
    ELSE verbosity' = [verbosity EXCEPT ![g] = loggerLevels[NameOf[g]]] /\ UNCHANGED loggerLevels

(* The constructor of a logger announces it, with outMutex locked.           *)
Construct(t, g) ==
    /\ at[t] = "idle" /\ outMutex = Nobody /\ g \notin announced
    /\ announced' = announced \union {g}
    /\ AnnounceCell(g)
    /\ UNCHANGED <<level, todo, found, sinkVars, callVars>>

(* A statement LOG(l, ...) of a thread, outside the error handler or in it.  *)
Call(t, g, l) ==
    /\ at' = [at EXCEPT ![t] = "out"]
    /\ logger' = [logger EXCEPT ![t] = g]
    /\ msgLevel' = [msgLevel EXCEPT ![t] = l]
    /\ UNCHANGED <<outMutex, stream, ended, levelVars, sinkVars>>

Log(t, g, l) == at[t] = "idle" /\ g \in announced /\ Call(t, g, l)

(* Fault: a message that is not shown takes no mutex.                        *)
LocksWhenLogged(t) == msgLevel[t] <= systemVerbosity

(* outMutex is taken before anything else, for every message.                *)
Locks(t) == TRUE

(* LogSystem::out looks at something else next, or has chosen a stream.      *)
Ask(t, label) == at' = [at EXCEPT ![t] = label] /\ UNCHANGED stream
Choose(t, s) == /\ at' = [at EXCEPT ![t] = "args"]
                /\ stream' = [stream EXCEPT ![t] = s]

(* LogSystem::out takes the mutex and looks at the system's verbosity,       *)
Out(t) ==
    /\ at[t] = "out"
    /\ IF Locks(t) THEN outMutex = Nobody /\ outMutex' = t ELSE UNCHANGED outMutex
    /\ IF msgLevel[t] > systemVerbosity THEN Choose(t, "null") ELSE Ask(t, "level")
    /\ UNCHANGED <<logger, msgLevel, ended, levelVars, sinkVars>>

(* then at the logger's; the rest depends on its target,                     *)
AskLevel(t) ==
    LET g == logger[t]
        wanted == IF msgLevel[t] > level[verbosity[g]] THEN {} ELSE Target[g]
    IN /\ at[t] = "level"
       /\ \/ wanted = {} /\ Choose(t, "null")
          \/ wanted = {"cli"} /\ Ask(t, "askCli")
          \/ wanted = {"file"} /\ Ask(t, "askFile")
          \/ wanted = {"cli", "file"} /\ Ask(t, "askBoth")

(* for both at the file, and if that is open at the console,                 *)
AskBoth(t) == at[t] = "askBoth" /\ Ask(t, IF file THEN "askBothCli" ELSE "askFile")

(* Fault: the console is not asked for when the file is open.                *)
AskBothOnlyFile(t) == at[t] = "askBothCli" /\ Choose(t, "both")

AskBothCli(t) ==
    /\ at[t] = "askBothCli"
    /\ IF console THEN Choose(t, "both") ELSE Ask(t, "askFile")

(* if one of them was missing, at the file once more,                        *)
AskFile(t) ==
    /\ at[t] = "askFile"
    /\ \/ file /\ Choose(t, "file")
       \/ ~file /\ "cli" \in Target[logger[t]] /\ Ask(t, "askCli")
       \/ ~file /\ "cli" \notin Target[logger[t]] /\ Choose(t, "null")

(* and at the console.                                                       *)
AskCli(t) == at[t] = "askCli" /\ Choose(t, IF console THEN "cli" ELSE "null")

Asks(t) == /\ AskLevel(t) \/ AskBoth(t) \/ AskBothCli(t) \/ AskFile(t) \/ AskCli(t)
           /\ UNCHANGED <<outMutex, logger, msgLevel, ended, levelVars, sinkVars>>

Asking == {"level", "askBoth", "askBothCli", "askFile", "askCli"}

(* The arguments of LOG call LOG, or a signal handler of the daemon does     *)
(* (bvsd.cc:90, 105) in a thread that is logging: it waits for itself.       *)
Nested(t) ==
    /\ at[t] \in Asking \union {"args"} /\ outMutex = t
    /\ at' = [at EXCEPT ![t] = "stuck"]
    /\ UNCHANGED <<outMutex, logger, msgLevel, stream, ended, levelVars, sinkVars>>

Return(t) == /\ at' = [at EXCEPT ![t] = "idle"]
             /\ logger' = [logger EXCEPT ![t] = NoLogger]
             /\ msgLevel' = [msgLevel EXCEPT ![t] = 0]

(* Fault: the error handler is called first.                                 *)
UnlocksUnlessError(t) == msgLevel[t] # 0

(* outMutex.unlock() comes before the error handler.                         *)
Unlocks(t) == TRUE

(* The characters of the line have gone to the stream, and LogSystem::endl.  *)
Endl(t) ==
    /\ at[t] = "args"
    /\ stream' = [stream EXCEPT ![t] = "null"]
    /\ outMutex' = IF Unlocks(t) THEN Nobody ELSE outMutex
    /\ IF msgLevel[t] = 0
       THEN at' = [at EXCEPT ![t] = "handler"] /\ UNCHANGED <<logger, msgLevel>>
       ELSE Return(t)
    /\ UNCHANGED <<ended, levelVars, sinkVars>>

(* exit(1), or the client's function: the daemon's logs and returns          *)
(* (bvsd.cc:124).                                                            *)
Handle(t) ==
    /\ at[t] = "handler"
    /\ \/ /\ Handler[logger[t]] = "exit"
          /\ ended' = TRUE
          /\ UNCHANGED <<outMutex, at, logger, msgLevel, stream, levelVars, sinkVars>>
       \/ /\ Handler[logger[t]] = "client"
          /\ \E g \in announced : Call(t, g, 1)
------------------------------------------------------------------------------
(* A step of the client in a function that changes settings.                 *)
Client1(from, to) == /\ at[Client] = from /\ at' = [at EXCEPT ![Client] = to]
                     /\ UNCHANGED <<outMutex, logger, msgLevel, stream, ended>>
Setting(from, to) == Client1(from, to) /\ UNCHANGED levelVars

PutVerbosity(v) == systemVerbosity' = v /\ UNCHANGED <<console, file>>
PutConsole(on) == console' = on /\ UNCHANGED <<systemVerbosity, file>>
PutFile(open) == file' = open /\ UNCHANGED <<systemVerbosity, console>>

SetSystemVerbosity(v) == Setting("idle", "idle") /\ PutVerbosity(v)

(* enableLogFile closes the file there is and opens another one, which may   *)
(* not be possible.                                                          *)
EnableLogFile == \/ Setting("idle", "open") /\ PutFile(FALSE)
                 \/ Setting("open", "idle") /\ \E open \in BOOLEAN : PutFile(open)
DisableLogFile == Setting("idle", "idle") /\ PutFile(FALSE)
EnableLogConsole == Setting("idle", "idle") /\ PutConsole(TRUE)
DisableLogConsole == Setting("idle", "idle") /\ PutConsole(FALSE)

(* updateSettings, followed by updateLoggerLevels (bvs.cc:175-176).  The     *)
(* values of BVS.logSystem, BVS.logConsole, BVS.logFile and BVS.logVerbosity *)
(* are any.                                                                  *)
SwitchOff ==
    \/ Setting("idle", "offConsole") /\ PutVerbosity(0)
    \/ Setting("offConsole", "offFile") /\ PutConsole(FALSE)
    \/ Setting("offFile", "levels") /\ PutFile(FALSE)
UpdateSettings ==
    \/ SwitchOff
    \/ Setting("idle", "logFile") /\ \E on \in {console, FALSE} : PutConsole(on)
    \/ Setting("logFile", "logVerbosity") /\ UNCHANGED sinkVars
    \/ Setting("logFile", "logOpen") /\ PutFile(FALSE)
    \/ Setting("logOpen", "logVerbosity") /\ \E open \in BOOLEAN : PutFile(open)
    \/ Setting("logVerbosity", "levels") /\ \E v \in Levels : PutVerbosity(v)

UpdateLoggerLevels ==
    /\ Client1("levels", "find")
    /\ todo' = Options
    /\ UNCHANGED <<announced, verbosity, loggerLevels, level, found, sinkVars>>

(* updateLoggerLevels: look for the name of the next option ...              *)
Current == CHOOSE n \in todo : TRUE
Find ==
    /\ at[Client] = "find"
    /\ IF todo = {}
       THEN at' = [at EXCEPT ![Client] = "idle"] /\ UNCHANGED found
       ELSE /\ found' = (loggerLevels[Current] # NoCell)
            /\ at' = [at EXCEPT ![Client] = "store"]
    /\ UNCHANGED <<announced, verbosity, loggerLevels, level, todo, sinkVars,
                   outMutex, logger, msgLevel, stream, ended>>

(* ... and set its level, or make an entry for it.                           *)
Store ==
    /\ at[Client] = "store"
    /\ LET cell == IF found THEN loggerLevels[Current] ELSE Current
       IN /\ loggerLevels' = [loggerLevels EXCEPT ![Current] = cell]
          /\ level' = [c \in Cells |-> IF c = cell THEN OptionLevel[Current] ELSE level[c]]
    /\ todo' = todo \ {Current}
    /\ at' = [at EXCEPT ![Client] = "find"]
    /\ UNCHANGED <<announced, verbosity, found, sinkVars,
                   outMutex, logger, msgLevel, stream, ended>>

(* What lets the message of thread t through now.                            *)
Lets(t, x) == CASE x = "system" -> msgLevel[t] <= systemVerbosity
                [] x = "level" -> msgLevel[t] <= level[verbosity[logger[t]]]
                [] x = "file" -> file
                [] x = "cli" -> console
Gates == {"system", "level", "file", "cli"}
Open(t) == {x \in Gates : Lets(t, x)}
Shut(t) == {x \in Gates : ~Lets(t, x)}

(* The history of a message begins with out() and ends with its line.        *)
Looking == {t \in Threads : at[t] \in Asking \union {"args"}}
Remember ==
    /\ wasOn' = IF Looking' = {} THEN {} ELSE wasOn \union UNION {Open(t)' : t \in Looking'}
    /\ wasOff' = IF Looking' = {} THEN {} ELSE wasOff \union UNION {Shut(t)' : t \in Looking'}

Step ==
    \/ \E t \in Threads, g \in Loggers : Construct(t, g)
    \/ \E t \in Threads, g \in Loggers, l \in Levels : Log(t, g, l)
    \/ \E t \in Threads : Out(t) \/ Asks(t) \/ Nested(t) \/ Endl(t) \/ Handle(t)
    \/ \E v \in Levels : SetSystemVerbosity(v)
    \/ EnableLogFile \/ DisableLogFile \/ EnableLogConsole \/ DisableLogConsole
    \/ UpdateSettings \/ UpdateLoggerLevels \/ Find \/ Store

Next == ~ended /\ Step /\ Remember

Spec == Init /\ [][Next]_vars

(* A thread finishes what it has begun, and gets the mutex.                  *)
Finishes(t) == Asks(t) \/ Endl(t) \/ Handle(t)
Fairness == \A t \in Threads : /\ SF_vars(~ended /\ Out(t) /\ Remember)
                               /\ WF_vars(~ended /\ Finishes(t) /\ Remember)
FairSpec == Spec /\ Fairness
------------------------------------------------------------------------------
TypeLevels ==
    /\ announced \subseteq Loggers
    /\ verbosity \in [Loggers -> Cells]
    /\ loggerLevels \in [Names -> Cells \union {NoCell}]
    /\ level \in [Cells -> Levels]
    /\ todo \subseteq Options /\ systemVerbosity \in Levels
TypeCalls ==
    /\ outMutex \in Threads \union {Nobody}
    /\ at \in [Threads -> {"idle", "out", "args", "handler", "stuck"} \union Asking
                  \union {"open", "offConsole", "offFile", "logFile", "logOpen", "logVerbosity",
                          "levels", "find", "store"}]
    /\ logger \in [Threads -> Loggers \union {NoLogger}]
    /\ msgLevel \in [Threads -> Levels]
    /\ stream \in [Threads -> {"null", "cli", "file", "both"}]
TypeBool == found \in BOOLEAN /\ file \in BOOLEAN /\ console \in BOOLEAN /\ ended \in BOOLEAN
TypeSeen == wasOn \subseteq Gates /\ wasOff \subseteq Gates

TypeOK == TypeLevels /\ TypeCalls /\ TypeBool /\ TypeSeen

(* Between out() and endl() a thread is alone with the streams: lines of two *)
(* threads do not mix, and nobody unlocks a mutex that another one holds     *)
(* (logsystem.cc:48-103).                                                    *)
OneLineAtATime == \A t \in Threads :
    at[t] \in Asking \union {"args", "stuck"} => outMutex = t

(* The sinks a stream stands for, by the description of the targets          *)
(* (logger.h:45).                                                            *)
Sinks(s) == CASE s = "null" -> {}
              [] s = "both" -> {"cli", "file"}
              [] OTHER -> {s}

(* While out() is looking at the settings one after the other, the client    *)
(* changes them.  A line still goes to no sink that has not been enabled,    *)
(* for this level, at some moment of the call, and misses none that has been *)
(* enabled all the time - but for the console, if the file is opened and was *)
(* not open at the first look (logsystem.cc:57-81).                          *)
SinksOf(t) ==
    LET chosen == Sinks(stream[t])
        target == Target[logger[t]]
    IN /\ chosen \subseteq target
       /\ \A s \in chosen : {"system", "level", s} \subseteq wasOn
       /\ \A s \in target \ chosen :
              \/ {"system", "level", s} \intersect wasOff # {}
              \/ s = "cli" /\ "file" \in wasOn \intersect wasOff
RightSinks == \A t \in Threads : at[t] = "args" => SinksOf(t)

(* What else always holds: the client has an option to store, and a cell it  *)
(* has found stays; a logger keeps its own cell until it is announced; a     *)
(* thread that logs has a logger;                                            *)
StoresFound == at[Client] = "store" =>
    todo # {} /\ (found => loggerLevels[Current] # NoCell)
OwnAtFirst == \A g \in Loggers \ announced : verbosity[g] = g
HasLogger == \A t \in Threads :
    at[t] \in Asking \union {"out", "args", "handler"} => logger[t] \in Loggers

(* and out() has noticed what it looked at before.                           *)
Noticed(t) ==
    LET target == Target[logger[t]]
    IN /\ at[t] \in Asking => "system" \in wasOn
       /\ at[t] \in Asking \ {"level"} => "level" \in wasOn
       /\ at[t] \in {"askBoth", "askBothCli"} => target = {"cli", "file"}
       /\ at[t] = "askBothCli" => "file" \in wasOn
       /\ at[t] = "askFile" => "file" \in target
                               /\ ("cli" \in target => wasOff \intersect {"cli", "file"} # {})
       /\ at[t] = "askCli" => "cli" \in target /\ ("file" \in target => "file" \in wasOff)
SeenSoFar == \A t \in Threads : Noticed(t)

LogInv == /\ TypeOK /\ OneLineAtATime /\ StoresFound /\ OwnAtFirst /\ HasLogger
          /\ SeenSoFar /\ RightSinks

(* A logger that exists shares its verbosity with everything of its name,    *)
(* and loses that only when updateLoggerLevels, which looks a name up and    *)
(* stores it without the mutex, has missed an announcement in between        *)
(* (logsystem.cc:226-229).                                                   *)
Shares(g) == g \in announced => verbosity[g] = loggerLevels[NameOf[g]]
KeepsSharing == \A g \in Loggers : Shares(g) =>
    Shares(g)' \/ (at[Client] = "store" /\ ~found /\ loggerLevels[Current] # NoCell)
LevelLostOnlyByRace == [][KeepsSharing]_vars

(* A message of level 0 ends the process or runs the client's handler, which *)
(* may log itself: LOG returns, unless a thread waits for itself             *)
(* (logsystem.cc:101-102).                                                   *)
LogReturns == \A t \in Threads :
    at[t] \in Asking \union {"out", "args", "handler"}
        ~> at[t] = "idle" \/ ended \/ \E u \in Threads : at[u] = "stuck"
==============================================================================
