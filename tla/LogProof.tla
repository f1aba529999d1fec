------------------------------ MODULE LogProof -------------------------------
(***************************************************************************)
(* The safety properties of LogSystem, for any threads, loggers, names and *)
(* options.  The invariant is LogInv; its parts are proved one by one,     *)
(* with one step per action.                                               *)
(***************************************************************************)
EXTENDS LogSystem, TLAPS

(* The next option is one of those that are left (logsystem.cc:221).       *)
LEMMA CurrentLeft == todo # {} => Current \in todo
  BY DEF Current

(* The parts that hold in the initial state.                               *)
LEMMA LogInit == Init => LogInv
<1> SUFFICES ASSUME Init PROVE LogInv
  OBVIOUS
<1> USE LogAssumption DEF Init
<1>1. TypeLevels
  BY DEF TypeLevels, Cells, Levels, Names
<1>3. TypeCalls
  BY DEF TypeCalls, Levels
<1>4. TypeBool
  BY Zenon DEF TypeBool
<1>5. OneLineAtATime /\ StoresFound /\ OwnAtFirst /\ HasLogger
  BY DEF OneLineAtATime, StoresFound, OwnAtFirst, HasLogger, Asking
<1>6. TypeSeen
  BY DEF TypeSeen
<1>7. SeenSoFar /\ RightSinks
  BY DEF SeenSoFar, Noticed, RightSinks, Asking
<1> QED
  BY <1>1, <1>3, <1>4, <1>5, <1>6, <1>7 DEF LogInv, TypeOK

(* What the client does to the settings, in one word, and where it is then. *)
Settings == \/ \E v \in Levels : SetSystemVerbosity(v)
            \/ EnableLogFile \/ DisableLogFile
            \/ EnableLogConsole \/ DisableLogConsole \/ UpdateSettings
Setters == {"idle", "open", "offConsole", "offFile", "logFile", "logOpen", "logVerbosity", "levels"}

(* It leaves loggers and calls alone (logsystem.cc:107-207).               *)
LEMMA SettingsFrame ==
    Settings => /\ UNCHANGED <<levelVars, outMutex, logger, msgLevel, stream, ended>>
                /\ \E to \in Setters : at' = [at EXCEPT ![Client] = to]
<1> USE DEF Setting, Client1, Setters
<1>1. ASSUME NEW v \in Levels, SetSystemVerbosity(v)
      PROVE  /\ UNCHANGED <<levelVars, outMutex, logger, msgLevel, stream, ended>>
             /\ \E to \in Setters : at' = [at EXCEPT ![Client] = to]
  BY <1>1 DEF SetSystemVerbosity
<1>2. ASSUME EnableLogFile \/ DisableLogFile
      PROVE  /\ UNCHANGED <<levelVars, outMutex, logger, msgLevel, stream, ended>>
             /\ \E to \in Setters : at' = [at EXCEPT ![Client] = to]
  BY <1>2 DEF EnableLogFile, DisableLogFile
<1>3. ASSUME EnableLogConsole \/ DisableLogConsole
      PROVE  /\ UNCHANGED <<levelVars, outMutex, logger, msgLevel, stream, ended>>
             /\ \E to \in Setters : at' = [at EXCEPT ![Client] = to]
  BY <1>3 DEF EnableLogConsole, DisableLogConsole
<1>4. ASSUME UpdateSettings
      PROVE  /\ UNCHANGED <<levelVars, outMutex, logger, msgLevel, stream, ended>>
             /\ \E to \in Setters : at' = [at EXCEPT ![Client] = to]
  BY <1>4 DEF UpdateSettings, SwitchOff
<1> QED
  BY <1>1, <1>2, <1>3, <1>4 DEF Settings

(* A step of a thread in LOG, and what it leaves alone (logsystem.cc:48-103). *)
InLog(t) == \/ \E g \in Loggers, l \in Levels : Log(t, g, l)
            \/ Out(t) \/ Asks(t) \/ Nested(t) \/ Endl(t) \/ Handle(t)

LEMMA InLogFrame ==
    ASSUME NEW t, InLog(t) PROVE UNCHANGED <<levelVars, systemVerbosity, console, file>>
  BY DEF InLog, Log, Call, Out, Asks, Nested, Endl, Return, Handle, sinkVars

(* Every step is one of these.                                             *)
LEMMA StepKinds ==
    [Next]_vars <=> \/ /\ ~ended /\ Remember
                       /\ \/ \E t \in Threads, g \in Loggers : Construct(t, g)
                          \/ \E t \in Threads : InLog(t)
                          \/ Settings \/ UpdateLoggerLevels \/ Find \/ Store
                    \/ vars' = vars
  BY Zenon DEF Next, Step, InLog, Settings

------------------------------------------------------------------------------
(* The cells and the map of verbosities keep their types.                  *)
LEMMA LevelsStep == TypeLevels /\ TypeCalls /\ StoresFound /\ [Next]_vars => TypeLevels'
<1> SUFFICES ASSUME TypeLevels, TypeCalls, StoresFound, [Next]_vars PROVE TypeLevels'
  OBVIOUS
<1> USE LogAssumption DEF TypeLevels
<1>1. ASSUME NEW t \in Threads, NEW g \in Loggers, Construct(t, g) PROVE TypeLevels'
  <2>1. NameOf[g] \in Names /\ g \in Cells
    BY DEF Names, Cells
  <2>2. loggerLevels[NameOf[g]] # NoCell => loggerLevels[NameOf[g]] \in Cells
    BY <2>1
  <2> QED
    BY <1>1, <2>1, <2>2 DEF Construct, AnnounceCell, sinkVars
<1>2. ASSUME UNCHANGED levelVars, systemVerbosity' \in Levels PROVE TypeLevels'
  BY <1>2 DEF levelVars
<1>3. ASSUME UpdateLoggerLevels PROVE TypeLevels'
  BY <1>3 DEF UpdateLoggerLevels, sinkVars
<1>4. ASSUME Find PROVE TypeLevels'
  BY <1>4 DEF Find, sinkVars
<1>5. ASSUME Store PROVE TypeLevels'
  <2>1. Current \in Options
    BY <1>5, CurrentLeft DEF Store, StoresFound
  <2>2. Current \in Names /\ Current \in Cells
    BY <2>1 DEF Names, Cells
  <2> DEFINE cell == IF found THEN loggerLevels[Current] ELSE Current
  <2>3. cell \in Cells
    BY <1>5, <2>2 DEF Store, StoresFound
  <2>4. OptionLevel[Current] \in Levels
    BY <2>1
  <2>5. /\ loggerLevels' = [loggerLevels EXCEPT ![Current] = cell]
        /\ level' = [c \in Cells |-> IF c = cell THEN OptionLevel[Current] ELSE level[c]]
        /\ todo' = todo \ {Current}
        /\ UNCHANGED <<announced, verbosity, systemVerbosity>>
    BY <1>5 DEF Store, sinkVars
  <2> HIDE DEF cell
  <2> QED
    BY <2>2, <2>3, <2>4, <2>5
<1>6. ASSUME Settings PROVE TypeLevels'
  <2>1. 0 \in Levels
    BY DEF Levels
  <2>2. systemVerbosity' \in Levels
    BY <1>6, <2>1 DEF Settings, SetSystemVerbosity, EnableLogFile, DisableLogFile,
       EnableLogConsole, DisableLogConsole, UpdateSettings, SwitchOff,
       PutVerbosity, PutConsole, PutFile, sinkVars
  <2> QED
    BY <1>2, <1>6, <2>2, SettingsFrame
<1>7. ASSUME NEW t \in Threads, InLog(t) PROVE TypeLevels'
  BY <1>7, <1>2, InLogFrame
<1>8. ASSUME vars' = vars PROVE TypeLevels'
  BY <1>2, <1>8 DEF vars, sinkVars
<1> QED
  BY <1>1, <1>3, <1>4, <1>5, <1>6, <1>7, <1>8, StepKinds

(* The Boolean variables stay Boolean.                                     *)
LEMMA BoolStep == TypeBool /\ [Next]_vars => TypeBool'
<1> SUFFICES ASSUME TypeBool, [Next]_vars PROVE TypeBool'
  BY Zenon
<1> USE DEF TypeBool
<1>1. ASSUME UNCHANGED <<found, file, console, ended>> PROVE TypeBool'
  BY <1>1, Zenon
<1>2. ASSUME NEW t \in Threads, InLog(t) PROVE TypeBool'
  <2>1. UNCHANGED found /\ UNCHANGED file /\ UNCHANGED console
    BY <1>2, InLogFrame DEF levelVars
  <2>2. ended' = ended \/ ended' = TRUE
    BY <1>2, Zenon DEF InLog, Log, Call, Out, Asks, Nested, Endl, Return, Handle
  <2> QED
    BY <2>1, <2>2, Zenon
<1>3. ASSUME Settings PROVE TypeBool'
  <2>1. UNCHANGED found /\ UNCHANGED ended
    BY <1>3, SettingsFrame DEF levelVars
  <2>2. UNCHANGED console \/ \E on \in {console, TRUE, FALSE} : console' = on
    BY <1>3, Zenon DEF Settings, SetSystemVerbosity, EnableLogFile, DisableLogFile,
       EnableLogConsole, DisableLogConsole, UpdateSettings, SwitchOff,
       PutVerbosity, PutConsole, PutFile, sinkVars
  <2>3. UNCHANGED file \/ \E open \in BOOLEAN : file' = open
    BY <1>3, Zenon DEF Settings, SetSystemVerbosity, EnableLogFile, DisableLogFile,
       EnableLogConsole, DisableLogConsole, UpdateSettings, SwitchOff,
       PutVerbosity, PutConsole, PutFile, sinkVars
  <2> QED
    BY <2>1, <2>2, <2>3, Zenon
<1>4. ASSUME NEW t \in Threads, NEW g \in Loggers, Construct(t, g) PROVE TypeBool'
  BY <1>1, <1>4 DEF Construct, sinkVars, callVars
<1>5. ASSUME UpdateLoggerLevels PROVE TypeBool'
  BY <1>1, <1>5 DEF UpdateLoggerLevels, Client1, sinkVars
<1>6. ASSUME Find PROVE TypeBool'
  BY <1>6, Zenon DEF Find, sinkVars
<1>7. ASSUME Store PROVE TypeBool'
  BY <1>1, <1>7 DEF Store, sinkVars
<1>8. ASSUME vars' = vars PROVE TypeBool'
  BY <1>1, <1>8 DEF vars, levelVars, sinkVars, callVars
<1> HIDE DEF TypeBool
<1> QED
  BY <1>2, <1>3, <1>4, <1>5, <1>6, <1>7, <1>8, StepKinds, Zenon

(* The calls of LOG keep their types.                                      *)
LEMMA CallsStep == TypeLevels /\ TypeCalls /\ [Next]_vars => TypeCalls'
<1> SUFFICES ASSUME TypeLevels, TypeCalls, [Next]_vars PROVE TypeCalls'
  OBVIOUS
<1> USE LogAssumption DEF TypeCalls, callVars, Asking
<1>1. ASSUME UNCHANGED callVars PROVE TypeCalls'
  BY <1>1
<1>2. ASSUME NEW t \in Threads, NEW g \in Loggers, Construct(t, g) PROVE TypeCalls'
  BY <1>2 DEF Construct
<1>3. ASSUME NEW t \in Threads, NEW g \in Loggers, NEW l \in Levels, Call(t, g, l)
      PROVE  TypeCalls'
  BY <1>3 DEF Call
<1>4. ASSUME NEW t \in Threads, Out(t) PROVE TypeCalls'
  BY <1>4 DEF Out, Choose, Ask
<1>5. ASSUME NEW t \in Threads, Asks(t) PROVE TypeCalls'
  <2>1. UNCHANGED <<outMutex, logger, msgLevel>>
    BY <1>5 DEF Asks
  <2>2. ASSUME NEW label \in Asking, Ask(t, label) PROVE TypeCalls'
    BY <2>1, <2>2 DEF Ask
  <2>3. ASSUME NEW s \in {"null", "cli", "file", "both"}, Choose(t, s) PROVE TypeCalls'
    BY <2>1, <2>3 DEF Choose
  <2> QED
    BY <1>5, <2>2, <2>3 DEF Asks, AskLevel, AskBoth, AskBothCli, AskFile, AskCli
<1>6. ASSUME NEW t \in Threads, Nested(t) PROVE TypeCalls'
  BY <1>6 DEF Nested
<1>7. ASSUME NEW t \in Threads, Endl(t) PROVE TypeCalls'
  BY <1>7 DEF Endl, Return, Levels
<1>8. ASSUME NEW t \in Threads, Handle(t) PROVE TypeCalls'
  <2>1. CASE UNCHANGED <<outMutex, at, logger, msgLevel, stream>>
    BY <2>1
  <2>2. CASE \E g \in announced : Call(t, g, 1)
    <3>1. 1 \in Levels /\ announced \subseteq Loggers
      BY DEF Levels, TypeLevels
    <3> QED
      BY <1>3, <2>2, <3>1
  <2> QED
    BY <1>8, <2>1, <2>2 DEF Handle
<1>9. ASSUME UpdateLoggerLevels \/ Find \/ Store PROVE TypeCalls'
  BY <1>9 DEF UpdateLoggerLevels, Client1, Find, Store
<1>10. ASSUME Settings PROVE TypeCalls'
  <2>1. PICK to \in Setters : at' = [at EXCEPT ![Client] = to]
    BY <1>10, SettingsFrame
  <2>2. UNCHANGED <<outMutex, logger, msgLevel, stream>>
    BY <1>10, SettingsFrame
  <2> QED
    BY <2>1, <2>2 DEF Setters
<1>11. ASSUME vars' = vars PROVE TypeCalls'
  BY <1>1, <1>11 DEF vars
<1>12. ASSUME NEW t \in Threads, InLog(t) PROVE TypeCalls'
  BY <1>3, <1>4, <1>5, <1>6, <1>7, <1>8, <1>12 DEF InLog, Log
<1> QED
  BY <1>2, <1>9, <1>10, <1>11, <1>12, StepKinds

(* So does the history.                                                    *)
LEMMA SeenStep == TypeSeen /\ [Next]_vars => TypeSeen'
<1> SUFFICES ASSUME TypeSeen, [Next]_vars PROVE TypeSeen'
  OBVIOUS
<1>1. ASSUME Remember PROVE TypeSeen'
  <2>1. \A t \in Looking' : Open(t)' \subseteq Gates /\ Shut(t)' \subseteq Gates
    BY DEF Open, Shut
  <2> QED
    BY <1>1, <2>1 DEF Remember, TypeSeen
<1>2. ASSUME vars' = vars PROVE TypeSeen'
  BY <1>2 DEF vars, seen, TypeSeen
<1> QED
  BY <1>1, <1>2, StepKinds

------------------------------------------------------------------------------
(* A thread that is between out() and endl() owns the mutex                *)
(* (logsystem.cc:50, 101).                                                 *)
LEMMA LinesStep == TypeCalls /\ OneLineAtATime /\ [Next]_vars => OneLineAtATime'
<1> SUFFICES ASSUME TypeCalls, OneLineAtATime, [Next]_vars PROVE OneLineAtATime'
  OBVIOUS
<1> USE LogAssumption DEF TypeCalls, OneLineAtATime, Asking
<1>1. ASSUME UNCHANGED <<outMutex, at>> PROVE OneLineAtATime'
  BY <1>1
<1>2. ASSUME NEW t \in Threads, NEW g, NEW l, Call(t, g, l) PROVE OneLineAtATime'
  BY <1>2 DEF Call
<1>3. ASSUME NEW t \in Threads, Out(t) PROVE OneLineAtATime'
  BY <1>3 DEF Out, Locks, Choose, Ask
<1>4. ASSUME NEW t \in Threads, Asks(t) PROVE OneLineAtATime'
  <2>1. UNCHANGED outMutex /\ at[t] \in Asking
    BY <1>4 DEF Asks, AskLevel, AskBoth, AskBothCli, AskFile, AskCli
  <2>2. \E label : at' = [at EXCEPT ![t] = label]
    BY <1>4 DEF Asks, AskLevel, AskBoth, AskBothCli, AskFile, AskCli, Ask, Choose
  <2> QED
    BY <2>1, <2>2
<1>5. ASSUME NEW t \in Threads, Nested(t) PROVE OneLineAtATime'
  BY <1>5 DEF Nested
<1>6. ASSUME NEW t \in Threads, Endl(t) PROVE OneLineAtATime'
  BY <1>6 DEF Endl, Return, Unlocks
<1>7. ASSUME NEW t \in Threads, Handle(t) PROVE OneLineAtATime'
  BY <1>1, <1>2, <1>7 DEF Handle
<1>8. ASSUME UpdateLoggerLevels \/ Find \/ Store PROVE OneLineAtATime'
  BY <1>8 DEF UpdateLoggerLevels, Client1, Find, Store
<1>9. ASSUME Settings PROVE OneLineAtATime'
  <2>1. PICK to \in Setters : at' = [at EXCEPT ![Client] = to]
    BY <1>9, SettingsFrame
  <2>2. UNCHANGED outMutex
    BY <1>9, SettingsFrame
  <2> QED
    BY <2>1, <2>2 DEF Setters
<1>10. ASSUME NEW t \in Threads, NEW g \in Loggers, Construct(t, g) PROVE OneLineAtATime'
  BY <1>10, <1>1 DEF Construct, callVars
<1>11. ASSUME vars' = vars PROVE OneLineAtATime'
  BY <1>1, <1>11 DEF vars, callVars
<1>12. ASSUME NEW t \in Threads, InLog(t) PROVE OneLineAtATime'
  BY <1>2, <1>3, <1>4, <1>5, <1>6, <1>7, <1>12 DEF InLog, Log
<1> QED
  BY <1>8, <1>9, <1>10, <1>11, <1>12, StepKinds

(* A step in LOG brings nobody to the store of updateLoggerLevels.         *)
LEMMA InLogStores ==
    ASSUME TypeCalls, NEW t \in Threads, InLog(t)
    PROVE  at'[Client] = "store" => at[Client] = "store"
<1> USE LogAssumption DEF TypeCalls
<1>1. ASSUME NEW label, label # "store", at' = [at EXCEPT ![t] = label]
      PROVE  at'[Client] = "store" => at[Client] = "store"
  BY <1>1
<1>2. CASE Asks(t) \/ Out(t)
  BY <1>1, <1>2 DEF Asks, AskLevel, AskBoth, AskBothCli, AskFile, AskCli, Out, Ask, Choose
<1>3. CASE ~(Asks(t) \/ Out(t))
  BY <1>1, <1>3 DEF InLog, Log, Call, Nested, Endl, Return, Handle
<1> QED
  BY <1>2, <1>3

(* A cell that updateLoggerLevels has found stays in the map.              *)
LEMMA StoresStep ==
    TypeLevels /\ TypeCalls /\ StoresFound /\ [Next]_vars => StoresFound'
<1> SUFFICES ASSUME TypeLevels, TypeCalls, StoresFound, [Next]_vars PROVE StoresFound'
  OBVIOUS
<1> USE LogAssumption DEF TypeCalls, StoresFound
<1>1. ASSUME UNCHANGED levelVars, at'[Client] = "store" => at[Client] = "store"
      PROVE  StoresFound'
  BY <1>1 DEF levelVars, Current
<1>2. ASSUME NEW t \in Threads, NEW g \in Loggers, Construct(t, g) PROVE StoresFound'
  <2>1. g # NoCell /\ NameOf[g] \in Names
    BY DEF Cells, Names
  <2>2. ASSUME NEW n \in Names, loggerLevels[n] # NoCell PROVE loggerLevels'[n] # NoCell
    <3>1. CASE loggerLevels[NameOf[g]] = NoCell
      BY <1>2, <2>1, <2>2, <3>1 DEF Construct, AnnounceCell, TypeLevels
    <3>2. CASE loggerLevels[NameOf[g]] # NoCell
      BY <1>2, <2>2, <3>2 DEF Construct, AnnounceCell
    <3> QED
      BY <3>1, <3>2
  <2>3. UNCHANGED <<at, todo, found>>
    BY <1>2 DEF Construct, callVars
  <2>4. Current' = Current /\ (todo # {} => Current \in Names)
    BY <2>3, CurrentLeft DEF Current, TypeLevels, Names
  <2> QED
    BY <2>2, <2>3, <2>4
<1>3. ASSUME NEW t \in Threads, InLog(t) PROVE StoresFound'
  BY <1>1, <1>3, InLogFrame, InLogStores
<1>4. ASSUME Settings PROVE StoresFound'
  <2>1. at'[Client] # "store"
    BY <1>4, SettingsFrame DEF Setters
  <2> QED
    BY <2>1
<1>5. ASSUME UpdateLoggerLevels PROVE StoresFound'
  BY <1>5 DEF UpdateLoggerLevels, Client1
<1>6. ASSUME Find PROVE StoresFound'
  <2>1. UNCHANGED <<loggerLevels, todo>>
    BY <1>6 DEF Find
  <2>2. at'[Client] = "store" => todo # {} /\ found' = (loggerLevels[Current] # NoCell)
    BY <1>6 DEF Find
  <2>3. Current' = Current
    BY <2>1 DEF Current
  <2> QED
    BY <2>1, <2>2, <2>3, Zenon
<1>7. ASSUME Store PROVE StoresFound'
  BY <1>7 DEF Store
<1>8. ASSUME vars' = vars PROVE StoresFound'
  BY <1>1, <1>8 DEF vars, callVars
<1> QED
  BY <1>2, <1>3, <1>4, <1>5, <1>6, <1>7, <1>8, StepKinds

(* Until it is announced a logger has its own cell; a thread that logs has *)
(* a logger.                                                               *)
LEMMA LoggersStep ==
    TypeLevels /\ TypeCalls /\ OwnAtFirst /\ HasLogger /\ [Next]_vars
        => OwnAtFirst' /\ HasLogger'
<1> SUFFICES ASSUME TypeLevels, TypeCalls, OwnAtFirst, HasLogger, [Next]_vars
             PROVE  OwnAtFirst' /\ HasLogger'
  OBVIOUS
<1> USE LogAssumption DEF TypeCalls, Asking
<1>1. ASSUME UNCHANGED <<announced, verbosity>> PROVE OwnAtFirst'
  BY <1>1 DEF OwnAtFirst
<1>2. ASSUME UNCHANGED <<at, logger>> PROVE HasLogger'
  BY <1>2 DEF HasLogger
<1>3. ASSUME NEW t \in Threads, NEW g \in Loggers, Construct(t, g)
      PROVE  OwnAtFirst' /\ HasLogger'
  <2>1. OwnAtFirst'
    BY <1>3 DEF Construct, AnnounceCell, OwnAtFirst, TypeLevels
  <2> QED
    BY <1>2, <1>3, <2>1 DEF Construct, callVars
<1>4. ASSUME NEW t \in Threads, InLog(t) PROVE OwnAtFirst' /\ HasLogger'
  <2>1. OwnAtFirst'
    BY <1>1, <1>4, InLogFrame DEF levelVars
  <2>2. ASSUME NEW g \in Loggers, NEW l, Call(t, g, l) PROVE HasLogger'
    BY <2>2 DEF Call, HasLogger
  <2>3. CASE Out(t)
    BY <2>1, <2>3 DEF Out, Ask, Choose, HasLogger
  <2>4. CASE Asks(t)
    <3>1. UNCHANGED logger /\ at[t] \in Asking
      BY <2>4 DEF Asks, AskLevel, AskBoth, AskBothCli, AskFile, AskCli
    <3>2. \E label : at' = [at EXCEPT ![t] = label]
      BY <2>4 DEF Asks, AskLevel, AskBoth, AskBothCli, AskFile, AskCli, Ask, Choose
    <3> QED
      BY <2>1, <3>1, <3>2 DEF HasLogger
  <2>5. CASE Nested(t)
    BY <2>1, <2>5 DEF Nested, HasLogger
  <2>6. CASE Endl(t)
    BY <2>1, <2>6 DEF Endl, Return, HasLogger
  <2>7. CASE Handle(t)
    BY <1>2, <2>1, <2>2, <2>7 DEF Handle, TypeLevels
  <2> QED
    BY <1>4, <2>1, <2>2, <2>3, <2>4, <2>5, <2>6, <2>7 DEF InLog, Log
<1>5. ASSUME UpdateLoggerLevels \/ Find \/ Store PROVE OwnAtFirst' /\ HasLogger'
  BY <1>1, <1>5 DEF UpdateLoggerLevels, Client1, Find, Store, HasLogger
<1>6. ASSUME Settings PROVE OwnAtFirst' /\ HasLogger'
  <2>1. PICK to \in Setters : at' = [at EXCEPT ![Client] = to]
    BY <1>6, SettingsFrame
  <2>2. UNCHANGED logger /\ UNCHANGED <<announced, verbosity>>
    BY <1>6, SettingsFrame DEF levelVars
  <2> QED
    BY <1>1, <2>1, <2>2 DEF Setters, HasLogger
<1>7. ASSUME vars' = vars PROVE OwnAtFirst' /\ HasLogger'
  BY <1>1, <1>2, <1>7 DEF vars, callVars, levelVars
<1> QED
  BY <1>3, <1>4, <1>5, <1>6, <1>7, StepKinds

------------------------------------------------------------------------------
(* While a thread looks for its sinks nothing that was noted is forgotten, *)
(* and all that lets its message through, or does not, is noted.           *)
LEMMA HistoryGrows ==
    ASSUME Remember, NEW t \in Threads, at'[t] \in Asking \union {"args"}
    PROVE  /\ wasOn \subseteq wasOn' /\ wasOff \subseteq wasOff'
           /\ Open(t)' \subseteq wasOn' /\ Shut(t)' \subseteq wasOff'
<1>1. t \in Looking'
  BY DEF Looking
<1> QED
  BY <1>1, Zenon DEF Remember

(* What lets the message of a thread through when a step has left the      *)
(* settings alone.                                                         *)
LEMMA GatesNow ==
    ASSUME NEW t \in Threads, UNCHANGED <<levelVars, systemVerbosity, console, file>>,
           UNCHANGED <<logger, msgLevel>>
    PROVE  /\ IF msgLevel[t] <= systemVerbosity THEN "system" \in Open(t)' ELSE "system" \in Shut(t)'
           /\ IF msgLevel[t] <= level[verbosity[logger[t]]]
              THEN "level" \in Open(t)' ELSE "level" \in Shut(t)'
           /\ IF file THEN "file" \in Open(t)' ELSE "file" \in Shut(t)'
           /\ IF console THEN "cli" \in Open(t)' ELSE "cli" \in Shut(t)'
<1>1. Lets(t, "system")' <=> msgLevel[t] <= systemVerbosity
  BY DEF Lets, levelVars
<1>2. Lets(t, "level")' <=> msgLevel[t] <= level[verbosity[logger[t]]]
  BY DEF Lets, levelVars
<1>3. Lets(t, "file")' <=> file
  BY DEF Lets
<1>4. Lets(t, "cli")' <=> console
  BY DEF Lets
<1> QED
  BY <1>1, <1>2, <1>3, <1>4 DEF Open, Shut, Gates

(* A thread that a step leaves where it is has still noticed what it had,  *)
(* and its sinks remain right.                                             *)
LEMMA NoticedKept ==
    ASSUME Remember, NEW t \in Threads, Noticed(t), at[t] = "args" => SinksOf(t),
           at'[t] \in Asking \union {"args"} =>
               at'[t] = at[t] /\ logger'[t] = logger[t] /\ stream'[t] = stream[t]
    PROVE  Noticed(t)' /\ (at'[t] = "args" => SinksOf(t)')
<1>1. CASE at'[t] \notin Asking \union {"args"}
  BY <1>1 DEF Noticed, Asking
<1>2. CASE at'[t] \in Asking \union {"args"}
  <2>1. wasOn \subseteq wasOn' /\ wasOff \subseteq wasOff'
    BY <1>2, HistoryGrows
  <2>2. Noticed(t)'
    BY <1>2, <2>1 DEF Noticed, Asking
  <2>3. at'[t] = "args" => SinksOf(t)'
    <3> SUFFICES ASSUME at'[t] = "args" PROVE SinksOf(t)'
      OBVIOUS
    <3> DEFINE chosen == Sinks(stream[t])
               target == Target[logger[t]]
    <3>1. /\ chosen \subseteq target
          /\ \A s \in chosen : {"system", "level", s} \subseteq wasOn
          /\ \A s \in target \ chosen :
                 \/ {"system", "level", s} \intersect wasOff # {}
                 \/ s = "cli" /\ "file" \in wasOn \intersect wasOff
      BY <1>2 DEF SinksOf
    <3>2. Sinks(stream'[t]) = chosen /\ Target[logger'[t]] = target
      BY <1>2
    <3>3. /\ \A s \in chosen : {"system", "level", s} \subseteq wasOn'
          /\ \A s \in target \ chosen :
                 \/ {"system", "level", s} \intersect wasOff' # {}
                 \/ s = "cli" /\ "file" \in wasOn' \intersect wasOff'
      <4> HIDE DEF chosen, target
      <4> QED
        BY <2>1, <3>1
    <3> HIDE DEF chosen, target
    <3> QED
      BY <3>1, <3>2, <3>3 DEF SinksOf, Sinks
  <2> QED
    BY <2>2, <2>3
<1> QED
  BY <1>1, <1>2

(* The step of LogSystem::out that chooses a stream has the sinks right,   *)
(* whatever has been changed since its first look (logsystem.cc:56-81).    *)
LEMMA LookRight ==
    ASSUME TypeLevels, TypeCalls, HasLogger, Remember, NEW t \in Threads,
           Noticed(t), Out(t) \/ Asks(t)
    PROVE  Noticed(t)' /\ (at'[t] = "args" => SinksOf(t)')
<1> DEFINE target == Target[logger[t]]
<1>1. UNCHANGED <<logger, msgLevel>> /\ UNCHANGED <<levelVars, systemVerbosity, console, file>>
  BY DEF Out, Asks, sinkVars
<1>2. logger[t] \in Loggers /\ target \subseteq {"cli", "file"} /\ Target[logger'[t]] = target
  BY <1>1, LogAssumption DEF Out, Asks, AskLevel, AskBoth, AskBothCli, AskFile, AskCli,
     HasLogger, Asking
<1>3. ASSUME at'[t] \in Asking \union {"args"}
      PROVE  /\ wasOn \subseteq wasOn' /\ wasOff \subseteq wasOff'
             /\ "system" \in IF msgLevel[t] <= systemVerbosity THEN wasOn' ELSE wasOff'
             /\ "level" \in IF msgLevel[t] <= level[verbosity[logger[t]]] THEN wasOn' ELSE wasOff'
             /\ "file" \in IF file THEN wasOn' ELSE wasOff'
             /\ "cli" \in IF console THEN wasOn' ELSE wasOff'
  <2>1. /\ wasOn \subseteq wasOn' /\ wasOff \subseteq wasOff'
        /\ Open(t)' \subseteq wasOn' /\ Shut(t)' \subseteq wasOff'
    BY <1>3, HistoryGrows
  <2> QED
    BY <1>1, <2>1, GatesNow
<1>4. ASSUME NEW label, Ask(t, label) PROVE at'[t] = label
  BY <1>4 DEF Ask, TypeCalls
<1>5. ASSUME NEW s, Choose(t, s) PROVE at'[t] = "args" /\ stream'[t] = s
  BY <1>5 DEF Choose, TypeCalls
<1>6. ASSUME NEW s \in {"null", "cli", "file", "both"}, Choose(t, s),
             Sinks(s) \subseteq target,
             \A x \in Sinks(s) : {"system", "level", x} \subseteq wasOn',
             \A x \in target \ Sinks(s) :
                 \/ {"system", "level", x} \intersect wasOff' # {}
                 \/ x = "cli" /\ "file" \in wasOn' \intersect wasOff'
      PROVE  Noticed(t)' /\ SinksOf(t)'
  <2>1. Noticed(t)'
    BY <1>5, <1>6 DEF Noticed, Asking
  <2>2. SinksOf(t)'
    <3>1. stream'[t] = s /\ Target[logger'[t]] = target
      BY <1>2, <1>5, <1>6
    <3> HIDE DEF target
    <3> QED
      BY <1>6, <3>1 DEF SinksOf, Sinks
  <2> QED
    BY <2>1, <2>2
<1> HIDE DEF target
<1>7. /\ msgLevel[t] > systemVerbosity <=> ~(msgLevel[t] <= systemVerbosity)
      /\ msgLevel[t] > level[verbosity[logger[t]]] <=> ~(msgLevel[t] <= level[verbosity[logger[t]]])
  BY <1>2, LogAssumption DEF TypeCalls, TypeLevels, Levels
<1>8. CASE Out(t)
  <2>1. CASE msgLevel[t] > systemVerbosity
    <3>1. Choose(t, "null")
      BY <1>8, <2>1 DEF Out
    <3>2. "system" \in wasOff'
      BY <1>3, <1>5, <1>7, <2>1, <3>1
    <3> QED
      BY <1>5, <1>6, <3>1, <3>2 DEF Sinks
  <2>2. CASE msgLevel[t] <= systemVerbosity
    <3>1. at'[t] = "level"
      BY <1>4, <1>7, <1>8, <2>2 DEF Out
    <3>2. "system" \in wasOn'
      BY <1>3, <2>2, <3>1 DEF Asking
    <3> QED
      BY <3>1, <3>2 DEF Noticed
  <2> QED
    BY <1>7, <2>1, <2>2
<1>9. CASE AskLevel(t)
  <2>1. "system" \in wasOn
    BY <1>9 DEF AskLevel, Noticed, Asking
  <2>2. CASE msgLevel[t] > level[verbosity[logger[t]]] \/ target = {}
    <3>1. Choose(t, "null")
      BY <1>9, <2>2 DEF AskLevel, target
    <3>2. msgLevel[t] > level[verbosity[logger[t]]] => "level" \in wasOff'
      BY <1>3, <1>5, <1>7, <3>1
    <3> QED
      BY <1>5, <1>6, <2>2, <3>1, <3>2 DEF Sinks
  <2>3. CASE ~(msgLevel[t] > level[verbosity[logger[t]]]) /\ target # {}
    <3>1. \/ target = {"cli"} /\ at'[t] = "askCli"
          \/ target = {"file"} /\ at'[t] = "askFile"
          \/ target = {"cli", "file"} /\ at'[t] = "askBoth"
      BY <1>4, <1>9, <2>3 DEF AskLevel, target
    <3>2. at'[t] \in Asking
      BY <3>1 DEF Asking
    <3>3. "system" \in wasOn' /\ "level" \in wasOn'
      BY <1>3, <1>7, <2>1, <2>3, <3>2
    <3> QED
      BY <1>2, <3>1, <3>3 DEF Noticed
  <2> QED
    BY <2>2, <2>3
<1>10. CASE AskBoth(t)
  <2>1. "system" \in wasOn /\ "level" \in wasOn /\ target = {"cli", "file"}
    BY <1>10 DEF AskBoth, Noticed, Asking, target
  <2>2. at'[t] = IF file THEN "askBothCli" ELSE "askFile"
    BY <1>4, <1>10 DEF AskBoth
  <2>3. at'[t] \in Asking \union {"args"}
    BY <2>2 DEF Asking
  <2>4. "system" \in wasOn' /\ "level" \in wasOn' /\ "file" \in IF file THEN wasOn' ELSE wasOff'
    BY <1>3, <2>1, <2>3
  <2> QED
    BY <1>2, <2>1, <2>2, <2>4 DEF Noticed
<1>11. CASE AskBothCli(t)
  <2>1. {"system", "level", "file"} \subseteq wasOn /\ target = {"cli", "file"}
    BY <1>11 DEF AskBothCli, Noticed, Asking, target
  <2>2. CASE console
    <3>1. Choose(t, "both")
      BY <1>11, <2>2 DEF AskBothCli
    <3>2. {"system", "level", "file", "cli"} \subseteq wasOn'
      BY <1>3, <1>5, <2>1, <2>2, <3>1
    <3> QED
      BY <1>6, <2>1, <3>1, <3>2 DEF Sinks
  <2>3. CASE ~console
    <3>1. at'[t] = "askFile"
      BY <1>4, <1>11, <2>3 DEF AskBothCli
    <3>2. {"system", "level"} \subseteq wasOn' /\ "cli" \in wasOff'
      BY <1>3, <2>1, <2>3, <3>1 DEF Asking
    <3> QED
      BY <1>2, <2>1, <3>1, <3>2 DEF Noticed
  <2> QED
    BY <2>2, <2>3
<1>12. CASE AskFile(t)
  <2>1. /\ {"system", "level"} \subseteq wasOn /\ "file" \in target
        /\ "cli" \in target => wasOff \intersect {"cli", "file"} # {}
    BY <1>12 DEF AskFile, Noticed, Asking, target
  <2>2. CASE file
    <3>1. Choose(t, "file")
      BY <1>12, <2>2 DEF AskFile
    <3>2. /\ {"system", "level", "file"} \subseteq wasOn'
          /\ wasOff \subseteq wasOff'
      BY <1>3, <1>5, <2>1, <2>2, <3>1
    <3>3. ASSUME NEW x \in target \ {"file"}
          PROVE  \/ {"system", "level", x} \intersect wasOff' # {}
                 \/ x = "cli" /\ "file" \in wasOn' \intersect wasOff'
      BY <1>2, <2>1, <3>2, <3>3
    <3> QED
      BY <1>6, <2>1, <3>1, <3>2, <3>3 DEF Sinks
  <2>3. CASE ~file /\ "cli" \in target
    <3>1. at'[t] = "askCli"
      BY <1>4, <1>12, <2>3 DEF AskFile, target
    <3>2. {"system", "level"} \subseteq wasOn' /\ "file" \in wasOff'
      BY <1>3, <2>1, <2>3, <3>1 DEF Asking
    <3> QED
      BY <1>2, <2>3, <3>1, <3>2 DEF Noticed
  <2>4. CASE ~file /\ "cli" \notin target
    <3>1. Choose(t, "null")
      BY <1>12, <2>4 DEF AskFile, target
    <3>2. "file" \in wasOff'
      BY <1>3, <1>5, <2>4, <3>1
    <3> QED
      BY <1>2, <1>6, <2>4, <3>1, <3>2 DEF Sinks
  <2> QED
    BY <2>2, <2>3, <2>4
<1>13. CASE AskCli(t)
  <2>1. /\ {"system", "level"} \subseteq wasOn /\ "cli" \in target
        /\ "file" \in target => "file" \in wasOff
    BY <1>13 DEF AskCli, Noticed, Asking, target
  <2>2. CASE console
    <3>1. Choose(t, "cli")
      BY <1>13, <2>2 DEF AskCli
    <3>2. {"system", "level", "cli"} \subseteq wasOn' /\ wasOff \subseteq wasOff'
      BY <1>3, <1>5, <2>1, <2>2, <3>1
    <3> QED
      BY <1>2, <1>6, <2>1, <3>1, <3>2 DEF Sinks
  <2>3. CASE ~console
    <3>1. Choose(t, "null")
      BY <1>13, <2>3 DEF AskCli
    <3>2. "cli" \in wasOff' /\ wasOff \subseteq wasOff'
      BY <1>3, <1>5, <2>3, <3>1
    <3> QED
      BY <1>2, <1>6, <2>1, <3>1, <3>2 DEF Sinks
  <2> QED
    BY <2>2, <2>3
<1> QED
  BY <1>8, <1>9, <1>10, <1>11, <1>12, <1>13 DEF Asks

(* out() has the sinks right (logsystem.cc:56-81).                         *)
LEMMA RightStep ==
    TypeLevels /\ TypeCalls /\ HasLogger /\ SeenSoFar /\ RightSinks /\ [Next]_vars
        => SeenSoFar' /\ RightSinks'
<1> SUFFICES ASSUME TypeLevels, TypeCalls, HasLogger, SeenSoFar, RightSinks,
                    [Next]_vars
             PROVE  \A t \in Threads : Noticed(t)' /\ (at'[t] = "args" => SinksOf(t)')
  BY DEF SeenSoFar, RightSinks
<1> TAKE t \in Threads
<1> USE LogAssumption DEF TypeCalls
<1>1. Noticed(t) /\ (at[t] = "args" => SinksOf(t))
  BY DEF SeenSoFar, RightSinks
<1>2. CASE vars' = vars
  BY <1>1, <1>2 DEF vars, callVars, seen, Noticed, SinksOf, Sinks
<1> DEFINE Same == at'[t] \in Asking \union {"args"} =>
                       at'[t] = at[t] /\ logger'[t] = logger[t] /\ stream'[t] = stream[t]
<1>3. ASSUME Remember, Same PROVE Noticed(t)' /\ (at'[t] = "args" => SinksOf(t)')
  BY <1>1, <1>3, NoticedKept
<1>4. ASSUME Remember, NEW u \in Threads, Out(u) \/ Asks(u)
      PROVE  Noticed(t)' /\ (at'[t] = "args" => SinksOf(t)')
  <2>1. CASE u = t
    BY <1>1, <1>4, <2>1, LookRight
  <2>2. CASE u # t
    <3>1. /\ UNCHANGED logger
          /\ \E label : at' = [at EXCEPT ![u] = label]
          /\ UNCHANGED stream \/ \E s : stream' = [stream EXCEPT ![u] = s]
      BY <1>4 DEF Out, Asks, AskLevel, AskBoth, AskBothCli, AskFile, AskCli, Ask, Choose
    <3>2. Same
      BY <2>2, <3>1
    <3> QED
      BY <1>3, <1>4, <3>2
  <2> QED
    BY <2>1, <2>2
<1>5. ASSUME NEW u \in Threads, InLog(u), ~(Out(u) \/ Asks(u)) PROVE Same
  <2>1. ASSUME NEW g, NEW l, Call(u, g, l) PROVE Same
    BY <2>1 DEF Call, Asking
  <2>2. CASE Nested(u)
    BY <2>2 DEF Nested, Asking
  <2>3. CASE Endl(u)
    BY <2>3 DEF Endl, Return, Asking
  <2>4. CASE Handle(u)
    BY <2>1, <2>4 DEF Handle
  <2> QED
    BY <1>5, <2>1, <2>2, <2>3, <2>4 DEF InLog, Log
<1>6. ASSUME Settings PROVE Same
  <2>1. PICK to \in Setters : at' = [at EXCEPT ![Client] = to]
    BY <1>6, SettingsFrame
  <2>2. UNCHANGED <<logger, stream>>
    BY <1>6, SettingsFrame
  <2> QED
    BY <2>1, <2>2 DEF Setters, Asking
<1>7. ASSUME UpdateLoggerLevels \/ Find \/ Store PROVE Same
  BY <1>7 DEF UpdateLoggerLevels, Client1, Find, Store, Asking
<1>8. ASSUME NEW u \in Threads, NEW g \in Loggers, Construct(u, g) PROVE Same
  BY <1>8 DEF Construct, callVars
<1> HIDE DEF Same
<1> QED
  BY <1>2, <1>3, <1>4, <1>5, <1>6, <1>7, <1>8, StepKinds

(* The invariant holds in every reachable state.                           *)
LEMMA LogStep == LogInv /\ [Next]_vars => LogInv'
  BY LevelsStep, BoolStep, CallsStep, SeenStep, LinesStep, StoresStep, LoggersStep,
     RightStep DEF LogInv, TypeOK

LEMMA LogInvariant == Spec => []LogInv
  BY LogInit, LogStep, PTL DEF Spec

------------------------------------------------------------------------------
(* Every variable of the log system has its type in every reachable state, *)
(* for any threads, loggers, names and options; in particular no message   *)
(* asks for the level of a cell that does not exist (logsystem.cc:58, 131, *)
(* 227).                                                                   *)
THEOREM LogTypes == Spec => []TypeOK
<1>1. LogInv => TypeOK
  BY DEF LogInv
<1> QED
  BY <1>1, LogInvariant, PTL

(* Between out() and endl() a thread is alone with the streams, whatever   *)
(* it and the others log and whatever the error handler does               *)
(* (logsystem.cc:48-103).                                                  *)
THEOREM LinesSeparate == Spec => []OneLineAtATime
<1>1. LogInv => OneLineAtATime
  BY DEF LogInv
<1> QED
  BY <1>1, LogInvariant, PTL

(* out() looks at the verbosities, the file and the console one after the  *)
(* other while the client changes them: it chooses no sink that has not    *)
(* been enabled during the call, and leaves none out that has been enabled *)
(* all the time, except the console when the file has come between         *)
(* (logsystem.cc:56-81, 107-207).                                          *)
THEOREM SinksRight == Spec => []RightSinks
<1>1. LogInv => RightSinks
  BY DEF LogInv
<1> QED
  BY <1>1, LogInvariant, PTL

(* An announced logger stays connected to the verbosity of its name; only  *)
(* updateLoggerLevels can take it away, when it has looked the name up     *)
(* before the announcement and stores it afterwards (logsystem.cc:226).    *)
THEOREM SharingKept == Spec => LevelLostOnlyByRace
<1>1. LogInv /\ [Next]_vars => KeepsSharing
  <2> SUFFICES ASSUME LogInv, [Next]_vars, NEW g \in Loggers, Shares(g),
                      ~(at[Client] = "store" /\ ~found /\ loggerLevels[Current] # NoCell)
               PROVE  Shares(g)'
    BY DEF KeepsSharing
  <2> USE LogAssumption
  <2>1. TypeLevels /\ TypeCalls /\ StoresFound /\ OwnAtFirst
    BY DEF LogInv, TypeOK
  <2>2. ASSUME UNCHANGED <<announced, verbosity, loggerLevels>> PROVE Shares(g)'
    BY <2>2 DEF Shares
  <2>3. ASSUME NEW t \in Threads, NEW h \in Loggers, Construct(t, h) PROVE Shares(g)'
    BY <2>1, <2>3 DEF Construct, AnnounceCell, Shares, OwnAtFirst, TypeLevels, Names, Cells
  <2>4. ASSUME Store PROVE Shares(g)'
    <3>1. Current \in Options /\ Current \in Names
      BY <2>1, <2>4, CurrentLeft DEF Store, StoresFound, TypeLevels, Names
    <3>2. CASE found
      BY <2>1, <2>4, <3>1, <3>2 DEF Store, Shares, TypeLevels
    <3>3. CASE ~found
      BY <2>1, <2>4, <3>1, <3>3 DEF Store, Shares, TypeLevels, Cells, Names
    <3> QED
      BY <3>2, <3>3
  <2>5. ASSUME NEW t \in Threads, InLog(t) PROVE Shares(g)'
    BY <2>2, <2>5, InLogFrame DEF levelVars
  <2>6. ASSUME UpdateLoggerLevels \/ Find PROVE Shares(g)'
    BY <2>2, <2>6 DEF UpdateLoggerLevels, Find
  <2>7. ASSUME Settings PROVE Shares(g)'
    BY <2>2, <2>7, SettingsFrame DEF levelVars
  <2>8. ASSUME vars' = vars PROVE Shares(g)'
    BY <2>2, <2>8 DEF vars, levelVars
  <2> QED
    BY <2>3, <2>4, <2>5, <2>6, <2>7, <2>8, StepKinds
<1> QED
  BY <1>1, LogInvariant, PTL DEF LevelLostOnlyByRace, Spec
==============================================================================
