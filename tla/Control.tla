------------------------------- MODULE Control -------------------------------
(***************************************************************************)
(* The life of a BVS process whose master controller runs in a thread of   *)
(* its own, as the daemon starts it (daemon/src/bvsd.cc:10-81):            *)
(*   client   the thread that owns the BVS object: it loads the modules,   *)
(*            starts the system and then sends it commands                 *)
(*   master   Control::masterController, the round loop                    *)
(*   pools    one thread per named pool, Control::poolController           *)
(* The modules of the pool "master" are executed by the master itself.     *)
(*                                                                         *)
(* pc[t] names the next step of thread t.  At "exec" the execute() method  *)
(* of the first module of iter[t] is running.                              *)
(***************************************************************************)
EXTENDS Integers, FiniteSets, Sequences, SequencesExt

CONSTANTS
    Pools,      \* the named pools, each with a thread
    Modules,    \* module ids
    NoModule,   \* no module id
    PoolName,   \* [Modules -> Pools \union {"master"}], ModuleData::poolName
    ModuleList, \* BVS.modules, the modules in the order they are loaded
    Returns,    \* Returns[m]: what the execute() method of m may return
    Commands,   \* what the user may send: run, step, pause, quit
    Swappable,  \* the modules the user may hot swap
    Spurious,   \* whether condition variables wake spuriously
    MaxRound    \* bound: the master starts no round after this one

SystemFlag == {"QUIT", "PAUSE", "RUN", "STEP"}
ControlFlag == {"QUIT", "WAIT", "RUN"}
Status == {"OK", "NOINPUT", "FAIL", "WAIT", "DONE", "SHUTDOWN"}

Threads == Pools \union {"master"}  \* the parties of the barrier
Callers == {"client", "master"}     \* the threads that unload modules

ASSUME ControlAssumption ==
    /\ IsFiniteSet(Pools)
    /\ Pools \intersect Callers = {}
    /\ NoModule \notin Modules
    /\ PoolName \in [Modules -> Threads]
    /\ ModuleList \in Seq(Modules)
    /\ Returns \in [Modules -> SUBSET Status]
    /\ Commands \subseteq SystemFlag
    /\ Swappable \subseteq Modules
    /\ Spurious \in BOOLEAN
    /\ MaxRound \in Nat

VARIABLES
    pc,                 \* [Threads \union {"client"} -> label]
    parties, queued, at,    \* Control::barrier
    activePools,        \* pools that have not finished the round
    pools,              \* keys of the map Control::pools
    pflag,              \* PoolData::flag
    pmods,              \* PoolData::modules
    iter,               \* what is left of a thread's pass over its modules
    loaded,             \* keys of the map Loader::modules
    mflag,              \* ModuleData::flag
    status,             \* ModuleData::status
    unchecked,          \* modules the master's loop has not visited yet
    flag,               \* Control::flag, written by every thread, unprotected
    round, shutdownRequested, shutdownRound,
    joinable,           \* controlThread.joinable()
    todo,               \* modules still to be loaded
    moduleStack,        \* BVS::moduleStack, top first
    target, state, saved,   \* locals of unloadModule, hotSwap and stopModule
    quitting,           \* [Callers -> BOOLEAN], inside quit()
    crashed             \* the process died of undefined behaviour

INSTANCE Barrier WITH Party <- Threads

syncVars == <<parties, queued, at>>
poolVars == <<activePools, pools, pflag, pmods, iter>>
moduleVars == <<loaded, mflag, status, unchecked>>
roundVars == <<round, shutdownRequested, shutdownRound>>
stackVars == <<todo, moduleStack>>
callVars == <<target, state, saved, quitting>>
vars == <<pc, syncVars, poolVars, moduleVars, flag, roundVars, joinable,
          stackVars, callVars, crashed>>

(* Control's constructor attaches the master and creates its pool. *)
Init ==
    /\ pc = [t \in Threads \union {"client"} |->
                IF t = "client" THEN "load" ELSE "unborn"]
    /\ parties = 1 /\ queued = 0 /\ at = [t \in Threads |-> "out"]
    /\ activePools = 0
    /\ pools = {"master"}
    /\ pflag = [t \in Threads |-> "WAIT"]
    /\ pmods = [t \in Threads |-> <<>>]
    /\ iter = [t \in Threads |-> <<>>]
    /\ loaded = {}
    /\ mflag = [m \in Modules |-> "WAIT"]
    /\ status = [m \in Modules |-> "OK"]
    /\ unchecked = {}
    /\ flag = "PAUSE"
    /\ round = 0 /\ shutdownRequested = FALSE /\ shutdownRound = 0
    /\ joinable = FALSE
    /\ todo = ModuleList /\ moduleStack = <<>>
    /\ target = [c \in Callers |-> NoModule]
    /\ state = [c \in Callers |-> "PAUSE"]
    /\ saved = [c \in Callers |-> "WAIT"]
    /\ quitting = [c \in Callers |-> FALSE]
    /\ crashed = FALSE

Go(t, label) == pc' = [pc EXCEPT ![t] = label]

(* Undefined behaviour: the process dies, or it goes on. *)
MayCrash(cond) == crashed' \in {FALSE, cond}

------------------------------------------------------------------------------
(* The barrier as the threads use it. *)

Enqueue(t, pred, label) ==
    /\ Arrive(t, pred) \/ Recheck(t, pred)
    /\ pc' = IF pred THEN [pc EXCEPT ![t] = label] ELSE pc

Notify(t, label) ==
    /\ NotifyAll
    /\ Go(t, label)

Sleep(t) ==
    /\ Block(t)
    /\ UNCHANGED <<pc, poolVars, moduleVars, flag, roundVars, joinable,
                   stackVars, callVars, crashed>>

Wakeup(t) ==
    /\ Spurious
    /\ SpuriousWakeup(t)
    /\ UNCHANGED <<pc, poolVars, moduleVars, flag, roundVars, joinable,
                   stackVars, callVars, crashed>>

------------------------------------------------------------------------------
(* One pass of a thread over the modules of its pool: moduleController. *)

Skip(t) ==
    /\ pc[t] = "run"
    /\ iter[t] # <<>>
    /\ mflag[Head(iter[t])] # "RUN"
    /\ iter' = [iter EXCEPT ![t] = Tail(@)]
    /\ UNCHANGED <<pc, syncVars, activePools, pools, pflag, pmods, moduleVars,
                   flag, roundVars, joinable, stackVars, callVars, crashed>>

(* The module pointer of an unloaded module is null. *)
StartExecute(t) ==
    /\ pc[t] = "run"
    /\ iter[t] # <<>>
    /\ mflag[Head(iter[t])] = "RUN"
    /\ Go(t, "exec")
    /\ crashed' = (Head(iter[t]) \notin loaded)
    /\ UNCHANGED <<syncVars, poolVars, moduleVars, flag, roundVars,
                   joinable, stackVars, callVars>>

EndExecute(t) ==
    /\ pc[t] = "exec"
    /\ LET m == Head(iter[t]) IN
        /\ \E s \in Returns[m] : status' = [status EXCEPT ![m] = s]
        /\ mflag' = [mflag EXCEPT ![m] = "WAIT"]
        /\ MayCrash(m \notin loaded)
    /\ iter' = [iter EXCEPT ![t] = Tail(@)]
    /\ Go(t, "run")
    /\ UNCHANGED <<syncVars, activePools, pools, pflag, pmods, loaded,
                   unchecked, flag, roundVars, joinable, stackVars, callVars>>

PassDone(t, label) ==
    /\ pc[t] = "run"
    /\ iter[t] = <<>>
    /\ Go(t, label)
    /\ UNCHANGED <<syncVars, poolVars, moduleVars, flag, roundVars,
                   joinable, stackVars, callVars, crashed>>

Pass(t) == Skip(t) \/ StartExecute(t) \/ EndExecute(t)

------------------------------------------------------------------------------
(* A pool thread: poolController. *)

Attach(p) ==
    /\ pc[p] = "attach"
    /\ AttachParty
    /\ Go(p, "head")
    /\ UNCHANGED <<queued, at, poolVars, moduleVars, flag, roundVars, joinable,
                   stackVars, callVars, crashed>>

PoolHead(p) ==
    /\ pc[p] = "head"
    /\ IF pflag[p] # "QUIT" /\ pmods[p] # <<>>
       THEN iter' = [iter EXCEPT ![p] = pmods[p]] /\ Go(p, "run")
       ELSE UNCHANGED iter /\ Go(p, "erase")
    /\ UNCHANGED <<syncVars, activePools, pools, pflag, pmods, moduleVars, flag,
                   roundVars, joinable, stackVars, callVars, crashed>>

(* if (data->flag!=QUIT) data->flag = WAIT: a test and a write, unprotected. *)
PoolFinish(p) ==
    /\ pc[p] = "finish"
    /\ Go(p, IF pflag[p] # "QUIT" THEN "finishWrite" ELSE "sub")
    /\ UNCHANGED <<syncVars, poolVars, moduleVars, flag, roundVars, joinable,
                   stackVars, callVars, crashed>>

(* Fault: the pool does not lower its flag. *)
PoolFinishKeeps(p) ==
    /\ pc[p] = "finishWrite"
    /\ Go(p, "sub")
    /\ UNCHANGED <<syncVars, poolVars, moduleVars, flag, roundVars, joinable,
                   stackVars, callVars, crashed>>

PoolFinishWrite(p) ==
    /\ pc[p] = "finishWrite"
    /\ pflag' = [pflag EXCEPT ![p] = "WAIT"]
    /\ Go(p, "sub")
    /\ UNCHANGED <<syncVars, activePools, pools, pmods, iter, moduleVars,
                   flag, roundVars, joinable, stackVars, callVars, crashed>>

PoolSub(p) ==
    /\ pc[p] = "sub"
    /\ activePools' = activePools - 1
    /\ Go(p, "wait")
    /\ UNCHANGED <<syncVars, pools, pflag, pmods, iter, moduleVars, flag,
                   roundVars, joinable, stackVars, callVars, crashed>>

PoolWait(p) ==
    /\ pc[p] = "wait"
    /\ Enqueue(p, pflag[p] # "WAIT", "head")
    /\ UNCHANGED <<poolVars, moduleVars, flag, roundVars, joinable, stackVars,
                   callVars, crashed>>

(* The thread ends without detaching its party from the barrier. *)
PoolErase(p) ==
    /\ pc[p] = "erase"
    /\ pools' = pools \ {p}
    /\ Go(p, "done")
    /\ UNCHANGED <<syncVars, activePools, pflag, pmods, iter, moduleVars,
                   flag, roundVars, joinable, stackVars, callVars, crashed>>

Pool(p) == \/ Attach(p) \/ PoolHead(p) \/ Pass(p) \/ PassDone(p, "finish")
           \/ PoolFinish(p) \/ PoolFinishWrite(p) \/ PoolSub(p)
           \/ PoolWait(p) \/ PoolErase(p)

------------------------------------------------------------------------------
(* Loading: loadModules, loadModule, startModule. *)

Register(m) ==
    /\ loaded' = loaded \union {m}
    /\ mflag' = [mflag EXCEPT ![m] = "WAIT"]
    /\ status' = [status EXCEPT ![m] = "OK"]
    /\ UNCHANGED unchecked

Push(m) ==
    /\ pmods' = [pmods EXCEPT ![PoolName[m]] = Append(@, m)]
    /\ todo' = Tail(todo)
    /\ moduleStack' = <<m>> \o moduleStack

(* push_back moves a vector a pool on its first pass may be iterating over. *)
LoadIntoPool ==
    /\ pc["client"] = "load"
    /\ todo # <<>>
    /\ LET m == Head(todo)
           p == PoolName[m] IN
        /\ p \in pools
        /\ Register(m)
        /\ Push(m)
        /\ MayCrash(pc[p] \in {"run", "exec"})
    /\ UNCHANGED <<pc, syncVars, activePools, pools, pflag, iter, flag,
                   roundVars, joinable, callVars>>

(* The pool's thread starts before it has a module and before it is counted. *)
LoadNewPool ==
    /\ pc["client"] = "load"
    /\ todo # <<>>
    /\ LET m == Head(todo)
           p == PoolName[m] IN
        /\ p \notin pools
        /\ Register(m)
        /\ pools' = pools \union {p}
        /\ pflag' = [pflag EXCEPT ![p] = "WAIT"]
        /\ pmods' = [pmods EXCEPT ![p] = <<>>]
        /\ pc' = [pc EXCEPT !["client"] = "count", ![p] = "attach"]
    /\ UNCHANGED <<syncVars, activePools, iter, flag, roundVars, joinable,
                   stackVars, callVars, crashed>>

CountPool ==
    /\ pc["client"] = "count"
    /\ activePools' = activePools + 1
    /\ Go("client", "push")
    /\ UNCHANGED <<syncVars, pools, pflag, pmods, iter, moduleVars, flag,
                   roundVars, joinable, stackVars, callVars, crashed>>

(* pools[name] is a null pointer if the thread found no module and left. *)
PushFirst ==
    /\ pc["client"] = "push"
    /\ LET m == Head(todo) IN
        /\ Push(m)
        /\ crashed' = (PoolName[m] \notin pools)
    /\ Go("client", "load")
    /\ UNCHANGED <<syncVars, activePools, pools, pflag, iter, moduleVars, flag,
                   roundVars, joinable, callVars>>

(* start() forks the master controller; the new thread may run before its    *)
(* handle is assigned to controlThread.                                      *)
Fork ==
    /\ pc["client"] = "load"
    /\ todo = <<>>
    /\ pc' = [pc EXCEPT !["client"] = "assign", !["master"] = "startup"]
    /\ UNCHANGED <<syncVars, poolVars, moduleVars, flag, roundVars, joinable,
                   stackVars, callVars, crashed>>

Assign ==
    /\ pc["client"] = "assign"
    /\ joinable' = TRUE
    /\ Go("client", "ready")
    /\ UNCHANGED <<syncVars, poolVars, moduleVars, flag, roundVars,
                   stackVars, callVars, crashed>>

------------------------------------------------------------------------------
(* Commands: sendCommand, called by run, step, pause and quit. *)

Send(label, command) ==
    /\ pc["client"] = label
    /\ flag' = command
    /\ quitting' = [quitting EXCEPT !["client"] = (command = "QUIT")]
    /\ Go("client", "notify")
    /\ UNCHANGED <<syncVars, poolVars, moduleVars, roundVars, joinable,
                   stackVars, target, state, saved, crashed>>

FirstRun == Send("ready", "RUN")

Command(command) == Send("idle", command)

(* The alarm that shutdownFunction sets makes the client's thread quit. *)
Alarm == /\ pc["master"] = "done"
         /\ quitting["master"]
         /\ Send("idle", "QUIT")

(* Fault: the flag is written and nobody is notified. *)
CommandUnheard ==
    /\ pc["client"] = "notify"
    /\ Go("client", IF quitting["client"] THEN "join" ELSE "idle")
    /\ UNCHANGED <<syncVars, poolVars, moduleVars, flag, roundVars, joinable,
                   stackVars, callVars, crashed>>

CommandNotify ==
    /\ pc["client"] = "notify"
    /\ Notify("client", IF quitting["client"] THEN "join" ELSE "idle")
    /\ UNCHANGED <<poolVars, moduleVars, flag, roundVars, joinable, stackVars,
                   callVars, crashed>>

Join ==
    /\ pc["client"] = "join"
    /\ pc["master"] = "done"
    /\ joinable' = FALSE
    /\ Go("client", "unloadNext")
    /\ UNCHANGED <<syncVars, poolVars, moduleVars, flag, roundVars,
                   stackVars, callVars, crashed>>

(* delete bvs; the process then ends. *)
Delete ==
    /\ pc["client"] = "delete"
    /\ Go("client", "end")
    /\ UNCHANGED <<syncVars, poolVars, moduleVars, flag, roundVars, joinable,
                   stackVars, callVars, crashed>>

------------------------------------------------------------------------------
(* isActive and waitUntilInactive, for the module the caller is working on. *)

(* Fault: a pool that waits counts as active. *)
ActiveUntilQuit(m) == PoolName[m] \in pools /\ pflag[PoolName[m]] # "QUIT"

Active(m) == PoolName[m] \in pools /\ pflag[PoolName[m]] # "WAIT"

WhileActive(c, label) ==
    /\ pc[c] = label
    /\ Active(target[c])
    /\ crashed' = (target[c] \notin loaded)
    /\ NotifyAll
    /\ UNCHANGED <<pc, poolVars, moduleVars, flag, roundVars, joinable,
                   stackVars, callVars>>

OnceInactive(c, label) == pc[c] = label /\ ~Active(target[c])

(* hotSwap: keep the command in force, pause, wait until the module is       *)
(* inactive, replace its object, send the command again.  Bound: the user    *)
(* does not swap when the master has set QUIT; to send a kept QUIT again     *)
(* would join the master and leave the system to the caller's thread.        *)
HotSwap(m) ==
    /\ pc["client"] = "idle"
    /\ m \in loaded
    /\ flag # "QUIT"
    /\ state' = [state EXCEPT !["client"] = flag]
    /\ target' = [target EXCEPT !["client"] = m]
    /\ Go("client", "swapPause")
    /\ UNCHANGED <<syncVars, poolVars, moduleVars, flag, roundVars, joinable,
                   stackVars, saved, quitting, crashed>>

SwapPause ==
    /\ pc["client"] = "swapPause"
    /\ flag' = "PAUSE"
    /\ Go("client", "swapNotify")
    /\ UNCHANGED <<syncVars, poolVars, moduleVars, roundVars, joinable,
                   stackVars, callVars, crashed>>

SwapNotify ==
    /\ pc["client"] = "swapNotify"
    /\ Notify("client", "swapWait")
    /\ UNCHANGED <<poolVars, moduleVars, flag, roundVars, joinable, stackVars,
                   callVars, crashed>>

StartSwap ==
    /\ OnceInactive("client", "swapWait")
    /\ Go("client", "swap")
    /\ crashed' = (target["client"] \notin loaded)
    /\ UNCHANGED <<syncVars, poolVars, moduleVars, flag, roundVars, joinable,
                   stackVars, callVars>>

EndSwap ==
    /\ pc["client"] = "swap"
    /\ flag' = state["client"]
    /\ target' = [target EXCEPT !["client"] = NoModule]
    /\ Go("client", "notify")
    /\ UNCHANGED <<syncVars, poolVars, moduleVars, roundVars, joinable,
                   stackVars, state, saved, quitting, crashed>>

------------------------------------------------------------------------------
(* Unloading: unloadModules, unloadModule, stopModule.  The client unloads   *)
(* everything after it has joined the master; the master unloads one module  *)
(* that is DONE, or everything from the shutdown handler.                    *)

UnloadNext(c) ==
    /\ pc[c] = "unloadNext"
    /\ moduleStack # <<>>
    /\ IF Head(moduleStack) \in loaded
       THEN /\ target' = [target EXCEPT ![c] = Head(moduleStack)]
            /\ Go(c, "unload")
            /\ UNCHANGED moduleStack
       ELSE /\ moduleStack' = Tail(moduleStack)
            /\ UNCHANGED <<pc, target>>
    /\ UNCHANGED <<syncVars, poolVars, moduleVars, flag, roundVars, joinable,
                   todo, state, saved, quitting, crashed>>

AllUnloaded(c) ==
    /\ pc[c] = "unloadNext"
    /\ moduleStack = <<>>
    /\ Go(c, IF c = "client" THEN "delete" ELSE "done")
    /\ UNCHANGED <<syncVars, poolVars, moduleVars, flag, roundVars, joinable,
                   stackVars, callVars, crashed>>

(* The command in force is kept, to be sent again when the module is gone. *)
Unload(c) ==
    /\ pc[c] = "unload"
    /\ state' = [state EXCEPT ![c] = flag]
    /\ Go(c, IF flag # "QUIT" THEN "stopPause" ELSE "stop")
    /\ UNCHANGED <<syncVars, poolVars, moduleVars, flag, roundVars, joinable,
                   stackVars, target, saved, quitting, crashed>>

(* A command sent since Unload is overwritten, here and in Resume. *)
StopPause(c) ==
    /\ pc[c] = "stopPause"
    /\ flag' = "PAUSE"
    /\ Go(c, "stopNotify")
    /\ UNCHANGED <<syncVars, poolVars, moduleVars, roundVars, joinable,
                   stackVars, callVars, crashed>>

StopNotify(c) ==
    /\ pc[c] = "stopNotify"
    /\ Notify(c, "stop")
    /\ UNCHANGED <<poolVars, moduleVars, flag, roundVars, joinable, stackVars,
                   callVars, crashed>>

(* stopModule sets the very flag that waitUntilInactive then waits for. *)
Stop(c) ==
    /\ pc[c] = "stop"
    /\ LET p == PoolName[target[c]] IN
        IF p \in pools
        THEN /\ saved' = [saved EXCEPT ![c] = pflag[p]]
             /\ pflag' = [pflag EXCEPT ![p] = "WAIT"]
             /\ Go(c, "inactive")
        ELSE /\ Go(c, "free")
             /\ UNCHANGED <<saved, pflag>>
    /\ UNCHANGED <<syncVars, activePools, pools, pmods, iter, moduleVars, flag,
                   roundVars, joinable, stackVars, target, state, quitting, crashed>>

(* The module is erased from the vector of its pool.  Undefined behaviour:   *)
(* pools[name] is a null pointer if the pool has left meanwhile, its thread  *)
(* may be iterating over the vector, and a vector without the module (that   *)
(* of a pool that has left and been started again) loses its last element.   *)
RemoveFromPool(c) ==
    /\ OnceInactive(c, "inactive")
    /\ LET m == target[c]
           p == PoolName[m]
           s == pmods[p] IN
        /\ \/ s = <<>> /\ UNCHANGED pmods
           \/ \E i \in 1 .. Len(s) :
                /\ s[i] = m \/ (m \notin Range(s) /\ i = Len(s))
                /\ pmods' = [pmods EXCEPT ![p] = RemoveAt(s, i)]
        /\ \/ crashed' = (p \notin pools)
           \/ crashed' = TRUE /\ (pc[p] \in {"run", "exec"} \/ (s # <<>> /\ m \notin Range(s)))
    /\ Go(c, "restore")
    /\ UNCHANGED <<syncVars, activePools, pools, pflag, iter, moduleVars, flag,
                   roundVars, joinable, stackVars, callVars>>

(* Fault: the pool is set running instead of to the flag it had. *)
RestoreRunning(c) ==
    /\ pc[c] = "restore"
    /\ pflag' = [pflag EXCEPT ![PoolName[target[c]]] = "RUN"]
    /\ Notify(c, "free")
    /\ UNCHANGED <<activePools, pools, pmods, iter, moduleVars, flag, roundVars,
                   joinable, stackVars, callVars, crashed>>

Restore(c) ==
    /\ pc[c] = "restore"
    /\ pflag' = [pflag EXCEPT ![PoolName[target[c]]] = saved[c]]
    /\ Notify(c, "free")
    /\ UNCHANGED <<activePools, pools, pmods, iter, moduleVars, flag, roundVars,
                   joinable, stackVars, callVars, crashed>>

(* Loader::unload destroys the module object and closes its library. *)
Free(c) ==
    /\ pc[c] = "free"
    /\ loaded' = loaded \ {target[c]}
    /\ Go(c, IF state[c] # "QUIT" THEN "resume" ELSE "unloaded")
    /\ UNCHANGED <<syncVars, poolVars, mflag, status, unchecked, flag, roundVars,
                   joinable, stackVars, callVars, crashed>>

Resume(c) ==
    /\ pc[c] = "resume"
    /\ flag' = state[c]
    /\ Go(c, "resumeNotify")
    /\ UNCHANGED <<syncVars, poolVars, moduleVars, roundVars, joinable,
                   stackVars, callVars, crashed>>

ResumeNotify(c) ==
    /\ pc[c] = "resumeNotify"
    /\ Notify(c, "unloaded")
    /\ UNCHANGED <<poolVars, moduleVars, flag, roundVars, joinable, stackVars,
                   callVars, crashed>>

PopUnloaded(c) ==
    /\ pc[c] = "unloaded"
    /\ quitting[c]
    /\ moduleStack' = Tail(moduleStack)
    /\ target' = [target EXCEPT ![c] = NoModule]
    /\ Go(c, "unloadNext")
    /\ UNCHANGED <<syncVars, poolVars, moduleVars, flag, roundVars, joinable,
                   todo, state, saved, quitting, crashed>>

Unloading(c) ==
    \/ UnloadNext(c) \/ AllUnloaded(c)
    \/ Unload(c) \/ StopPause(c) \/ StopNotify(c) \/ Stop(c)
    \/ WhileActive(c, "inactive") \/ RemoveFromPool(c) \/ Restore(c) \/ Free(c)
    \/ Resume(c) \/ ResumeNotify(c) \/ PopUnloaded(c)

------------------------------------------------------------------------------
(* The master controller.  Startup, the round loop, the end of the loop. *)

Startup ==
    /\ pc["master"] = "startup"
    /\ Notify("master", "startSync")
    /\ UNCHANGED <<poolVars, moduleVars, flag, roundVars, joinable, stackVars,
                   callVars, crashed>>

(* The barrier waits of the master: startup sync, round sync, pause. *)
MasterWait ==
    /\ \/ pc["master"] = "startSync" /\ Enqueue("master", activePools = 0, "reset")
       \/ pc["master"] = "sync" /\ Enqueue("master", activePools = 0, "dispatch")
       \/ pc["master"] = "pause" /\ Enqueue("master", flag # "PAUSE", "tail")
    /\ UNCHANGED <<poolVars, moduleVars, flag, roundVars, joinable, stackVars,
                   callVars, crashed>>

Reset ==
    /\ pc["master"] = "reset"
    /\ activePools' = 0
    /\ Go("master", "head")
    /\ UNCHANGED <<syncVars, pools, pflag, pmods, iter, moduleVars, flag,
                   roundVars, joinable, stackVars, callVars, crashed>>

MasterHead ==
    /\ pc["master"] = "head"
    /\ Go("master", IF flag # "QUIT" THEN "sync" ELSE "exit")
    /\ UNCHANGED <<syncVars, poolVars, moduleVars, flag, roundVars, joinable,
                   stackVars, callVars, crashed>>

(* Fault: the wait for the end of a pause does not ask who is to end it. *)
DispatchWaiting ==
    /\ pc["master"] = "dispatch"
    /\ flag \in {"QUIT", "PAUSE"}
    /\ Go("master", IF flag = "QUIT" THEN "tail" ELSE "pause")
    /\ UNCHANGED <<syncVars, poolVars, moduleVars, flag, roundVars, joinable,
                   stackVars, callVars, crashed>>

(* switch (flag), except for RUN and STEP *)
DispatchIdle ==
    /\ pc["master"] = "dispatch"
    /\ flag \in {"QUIT", "PAUSE"}
    /\ Go("master", CASE flag = "QUIT" -> "tail"
                      [] flag = "PAUSE" -> IF joinable THEN "pause" ELSE "done")
    /\ UNCHANGED <<syncVars, poolVars, moduleVars, flag, roundVars, joinable,
                   stackVars, callVars, crashed>>

DispatchRound ==
    /\ pc["master"] = "dispatch"
    /\ flag \in {"RUN", "STEP"}
    /\ round < MaxRound
    /\ round' = round + 1
    /\ unchecked' = loaded
    /\ Go("master", "check")
    /\ UNCHANGED <<syncVars, poolVars, loaded, mflag, status, flag,
                   shutdownRequested, shutdownRound, joinable, stackVars,
                   callVars, crashed>>

(* Fault: what the module returned is not looked at. *)
CheckHeedless(m) ==
    /\ pc["master"] = "check"
    /\ m \in unchecked
    /\ mflag' = [mflag EXCEPT ![m] = "RUN"]
    /\ unchecked' = unchecked \ {m}
    /\ UNCHANGED <<pc, syncVars, poolVars, loaded, status, flag, roundVars,
                   joinable, stackVars, callVars, crashed>>

(* The loop over the modules map: checkModuleStatus, then flag = RUN. *)
Check(m) ==
    /\ pc["master"] = "check"
    /\ m \in unchecked
    /\ status[m] # "DONE"
    /\ LET request == status[m] = "SHUTDOWN" /\ ~shutdownRequested IN
        /\ shutdownRequested' = (shutdownRequested \/ request)
        /\ shutdownRound' = IF request THEN round + Cardinality(pools)
                                       ELSE shutdownRound
    /\ mflag' = [mflag EXCEPT ![m] = "RUN"]
    /\ unchecked' = unchecked \ {m}
    /\ UNCHANGED <<pc, syncVars, poolVars, loaded, status, flag, round,
                   joinable, stackVars, callVars, crashed>>

CheckDone(m) ==
    /\ pc["master"] = "check"
    /\ m \in unchecked
    /\ status[m] = "DONE"
    /\ target' = [target EXCEPT !["master"] = m]
    /\ Go("master", "unload")
    /\ UNCHANGED <<syncVars, poolVars, moduleVars, flag, roundVars, joinable,
                   stackVars, state, saved, quitting, crashed>>

(* The loop's iterator points to the map element that unloading erased. *)
ContinueCheck ==
    /\ pc["master"] = "unloaded"
    /\ ~quitting["master"]
    /\ unchecked' = unchecked \ {target["master"]}
    /\ target' = [target EXCEPT !["master"] = NoModule]
    /\ Go("master", "check")
    /\ MayCrash(TRUE)
    /\ UNCHANGED <<syncVars, poolVars, loaded, mflag, status, flag, roundVars,
                   joinable, stackVars, state, saved, quitting>>

Arm ==
    /\ pc["master"] = "check"
    /\ unchecked = {}
    /\ pflag' = [p \in Threads |-> IF p \in pools THEN "RUN" ELSE pflag[p]]
    /\ Go("master", "launch")
    /\ UNCHANGED <<syncVars, activePools, pools, pmods, iter, moduleVars, flag,
                   roundVars, joinable, stackVars, callVars, crashed>>

(* Fault: the pools that have been told to run are not counted. *)
LaunchUncounted ==
    /\ pc["master"] = "launch"
    /\ iter' = [iter EXCEPT !["master"] = pmods["master"]]
    /\ Notify("master", "run")
    /\ UNCHANGED <<activePools, pools, pflag, pmods, moduleVars, flag, roundVars,
                   joinable, stackVars, callVars, crashed>>

(* Fault: the master is counted among the pools. *)
LaunchAll ==
    /\ pc["master"] = "launch"
    /\ activePools' = activePools + Cardinality(pools)
    /\ iter' = [iter EXCEPT !["master"] = pmods["master"]]
    /\ Notify("master", "run")
    /\ UNCHANGED <<pools, pflag, pmods, moduleVars, flag, roundVars, joinable,
                   stackVars, callVars, crashed>>

(* The pools are counted after they have been told to run. *)
Launch ==
    /\ pc["master"] = "launch"
    /\ activePools' = activePools + Cardinality(pools) - 1
    /\ iter' = [iter EXCEPT !["master"] = pmods["master"]]
    /\ Notify("master", "run")
    /\ UNCHANGED <<pools, pflag, pmods, moduleVars, flag, roundVars, joinable,
                   stackVars, callVars, crashed>>

(* Fault: every round ends with flag = PAUSE. *)
StepUntested ==
    /\ pc["master"] = "step"
    /\ Go("master", "stepWrite")
    /\ UNCHANGED <<syncVars, poolVars, moduleVars, flag, roundVars, joinable,
                   stackVars, callVars, crashed>>

(* if (flag==STEP) flag = PAUSE: a test and a write, unprotected. *)
StepTest ==
    /\ pc["master"] = "step"
    /\ Go("master", IF flag = "STEP" THEN "stepWrite" ELSE "tail")
    /\ UNCHANGED <<syncVars, poolVars, moduleVars, flag, roundVars, joinable,
                   stackVars, callVars, crashed>>

StepWrite ==
    /\ pc["master"] = "stepWrite"
    /\ flag' = "PAUSE"
    /\ Go("master", "tail")
    /\ UNCHANGED <<syncVars, poolVars, moduleVars, roundVars, joinable,
                   stackVars, callVars, crashed>>

(* Fault: off by one. *)
ShutdownDueLate == shutdownRequested /\ round > shutdownRound

ShutdownDue == shutdownRequested /\ round = shutdownRound

MasterTail ==
    /\ pc["master"] = "tail"
    /\ flag' = IF ShutdownDue THEN "QUIT" ELSE flag
    /\ Go("master", IF ~joinable /\ flag' # "RUN" THEN "done" ELSE "head")
    /\ UNCHANGED <<syncVars, poolVars, moduleVars, roundVars, joinable,
                   stackVars, callVars, crashed>>

(* Fault: the shutdown handler is never called. *)
MasterExitSilent ==
    /\ pc["master"] = "exit"
    /\ pflag' = [p \in Threads |-> IF p \in pools THEN "QUIT" ELSE pflag[p]]
    /\ Go("master", "done")
    /\ UNCHANGED <<syncVars, activePools, pools, pmods, iter, moduleVars, flag,
                   roundVars, joinable, stackVars, callVars, crashed>>

(* The pools are told to quit but not notified. *)
MasterExit ==
    /\ pc["master"] = "exit"
    /\ pflag' = [p \in Threads |-> IF p \in pools THEN "QUIT" ELSE pflag[p]]
    /\ Go("master", IF ShutdownDue THEN "handler" ELSE "done")
    /\ UNCHANGED <<syncVars, activePools, pools, pmods, iter, moduleVars, flag,
                   roundVars, joinable, stackVars, callVars, crashed>>

(* shutdownFunction calls quit() on the master's own thread: no join. *)
Handler ==
    /\ pc["master"] = "handler"
    /\ flag' = "QUIT"
    /\ quitting' = [quitting EXCEPT !["master"] = TRUE]
    /\ Go("master", "handlerNotify")
    /\ UNCHANGED <<syncVars, poolVars, moduleVars, roundVars, joinable,
                   stackVars, target, state, saved, crashed>>

HandlerNotify ==
    /\ pc["master"] = "handlerNotify"
    /\ Notify("master", "unloadNext")
    /\ UNCHANGED <<poolVars, moduleVars, flag, roundVars, joinable, stackVars,
                   callVars, crashed>>

Master == \/ Startup \/ MasterWait \/ Reset \/ MasterHead
          \/ DispatchIdle \/ DispatchRound
          \/ \E m \in unchecked : Check(m) \/ CheckDone(m)
          \/ ContinueCheck \/ Arm \/ Launch
          \/ Pass("master") \/ PassDone("master", "step")
          \/ StepTest \/ StepWrite \/ MasterTail
          \/ MasterExit \/ Handler \/ HandlerNotify \/ Unloading("master")

------------------------------------------------------------------------------
(* What the client does on its own, and what it does when the user says so. *)
Client == \/ LoadIntoPool \/ LoadNewPool \/ CountPool \/ PushFirst
          \/ Fork \/ Assign \/ FirstRun \/ CommandNotify \/ Alarm \/ Join
          \/ WhileActive("client", "swapWait")
          \/ SwapPause \/ SwapNotify \/ StartSwap \/ EndSwap
          \/ Unloading("client") \/ Delete

User == \/ \E command \in Commands : Command(command)
        \/ \E m \in Swappable : HotSwap(m)

Alive == ~crashed /\ pc["client"] # "end"

ClientStep == Alive /\ Client
MasterStep == Alive /\ (Master \/ Sleep("master"))
PoolStep(p) == Alive /\ (Pool(p) \/ Sleep(p))

Next == \/ ClientStep
        \/ MasterStep
        \/ \E p \in Pools : PoolStep(p)
        \/ Alive /\ User
        \/ \E t \in Threads : Alive /\ Wakeup(t)

Spec == Init /\ [][Next]_vars

(* A thread that can run again and again gets to run, whoever else takes the *)
(* mutex in between; nothing makes the user send a command.                  *)
Fairness == /\ WF_vars(ClientStep)
            /\ SF_vars(MasterStep)
            /\ \A p \in Pools : SF_vars(PoolStep(p))

FairSpec == Spec /\ Fairness

------------------------------------------------------------------------------
(* Properties. *)

UnloadLabel == {"unload", "stopPause", "stopNotify", "stop", "inactive", "restore",
                "free", "resume", "resumeNotify", "unloaded"}
QuitLabel == {"unloadNext"} \union UnloadLabel

PoolLabel == {"unborn", "attach", "head", "run", "exec", "finish", "finishWrite",
              "sub", "wait", "erase", "done"}
MasterLabel == {"unborn", "startup", "startSync", "reset", "head", "sync",
                "dispatch", "pause", "check", "launch", "run", "exec", "step",
                "stepWrite", "tail", "exit", "handler", "handlerNotify", "done"}
                   \union QuitLabel
ClientLabel == {"load", "count", "push", "assign", "ready", "idle", "notify",
                "join", "swapPause", "swapNotify", "swapWait", "swap", "delete",
                "end", "called"}  \* "called" only in Inline
                   \union QuitLabel

Label == PoolLabel \union MasterLabel \union ClientLabel

TypePc ==
    /\ pc \in [Threads \union {"client"} -> Label]
    /\ \A p \in Pools : pc[p] \in PoolLabel
    /\ pc["master"] \in MasterLabel
    /\ pc["client"] \in ClientLabel

TypeBarrier == parties \in Int /\ queued \in Int /\ at \in [Threads -> WaitState]

TypePools ==
    /\ activePools \in Int
    /\ pools \subseteq Threads /\ "master" \in pools
    /\ pflag \in [Threads -> ControlFlag]
    /\ pmods \in [Threads -> Seq(Modules)]
    /\ iter \in [Threads -> Seq(Modules)]
    /\ \A t \in Threads : pc[t] = "exec" => iter[t] # <<>>

TypeModules ==
    /\ loaded \subseteq Modules
    /\ mflag \in [Modules -> ControlFlag]
    /\ status \in [Modules -> Status]
    /\ unchecked \subseteq Modules

TypeSystem ==
    /\ flag \in SystemFlag
    /\ round \in 0 .. MaxRound
    /\ shutdownRound \in Nat

TypeBool == /\ shutdownRequested \in BOOLEAN
            /\ joinable \in BOOLEAN
            /\ crashed \in BOOLEAN
            /\ quitting \in [Callers -> BOOLEAN]

TypeStack ==
    /\ todo \in Seq(Modules)
    /\ moduleStack \in Seq(Modules)
    /\ pc["client"] \in {"count", "push"} => todo # <<>>
    /\ \A c \in Callers : quitting[c] /\ pc[c] \in UnloadLabel => moduleStack # <<>>

TypeCalls ==
    /\ target \in [Callers -> Modules \union {NoModule}]
    /\ \A c \in Callers : pc[c] \in UnloadLabel => target[c] \in Modules
    /\ pc["client"] \in {"swapPause", "swapNotify", "swapWait", "swap"}
           => target["client"] \in Modules
    /\ state \in [Callers -> SystemFlag]
    /\ saved \in [Callers -> ControlFlag]

(* Every variable holds what its C++ type can hold, each thread is at a      *)
(* statement of its own function, and what a statement takes for granted is  *)
(* there: the module that startModule starts, that moduleController runs,    *)
(* that unloadModules finds on top of its stack (bvs.cc:142-149).            *)
TypeOK == /\ TypePc /\ TypeBarrier /\ TypePools /\ TypeModules
          /\ TypeSystem /\ TypeBool /\ TypeStack /\ TypeCalls

(* The client loads before there is a master and unloads when it is gone;    *)
(* the master quits only from the shutdown handler, after its loop.          *)
LoadFirst == pc["client"] \in {"load", "count", "push"} => pc["master"] = "unborn"
UnloadLast == pc["client"] \in QuitLabel \union {"delete", "end"} => pc["master"] = "done"
HandlerLast == quitting["master"] => pc["master"] \in {"handlerNotify", "done"} \union QuitLabel
HandlerQuits == pc["master"] \in {"handlerNotify", "unloadNext"} => quitting["master"]

(* Phases of the master: at work between two rounds, and gone from the loop. *)
UnloadingDone == pc["master"] \in UnloadLabel /\ ~quitting["master"]
Preparing == pc["master"] = "check" \/ UnloadingDone
BetweenRounds == Preparing \/ pc["master"] \in {"reset", "dispatch", "pause"}
Closing == \/ pc["master"] \in {"exit", "handler", "handlerNotify", "unloadNext", "done"}
           \/ pc["master"] \in UnloadLabel /\ quitting["master"]

(* Once the round sync is passed, and until the pools are told to run again, *)
(* no pool executes a module: the master may read statuses, unload a DONE    *)
(* module and set the flags of all modules without synchronisation           *)
(* (control.cc:54 protects 82-99).                                           *)
RoundExclusion == BetweenRounds => \A p \in Pools : pc[p] # "exec"

(* Pools that will still subtract one from activePools, or have left the     *)
(* loop without having done so.                                              *)
Owes(p) == \/ pc[p] \in {"attach", "head", "run", "exec", "finish", "finishWrite",
                         "sub", "erase"}
           \/ pc[p] = "wait" /\ pflag[p] # "WAIT"
Owing == {p \in Pools : Owes(p)}

(* Additions to activePools that come after the pools they stand for.        *)
Pending == (IF pc["client"] = "count" THEN 1 ELSE 0)
             + (IF pc["master"] = "launch" THEN Cardinality(pools \ {"master"}) ELSE 0)

(* activePools never falls below the number of pools that are still busy,    *)
(* although it is raised after they start and each pool lowers it on its own *)
(* (control.cc:100, 167, 274): the round sync cannot be passed too early.    *)
CountCovers == ~Closing => activePools + Pending >= Cardinality(Owing)

(* The inductive invariant behind the two.  A pool is registered exactly as  *)
(* long as its thread lives; between rounds no pool owes; a pool about to    *)
(* subtract has lowered its flag and nobody raises it again; pools are told  *)
(* to quit only by a master that has left its loop; the flag that stopModule *)
(* puts back for a DONE module is the one of an idle pool.                   *)
Registered == \A p \in Pools : p \in pools <=> pc[p] \notin {"unborn", "done"}
Quiet == BetweenRounds => \A p \in Pools : ~Owes(p)
SubLowered == ~Closing => \A p \in Pools : pc[p] = "sub" => pflag[p] = "WAIT"
NoQuitYet == ~Closing => \A p \in Pools : pflag[p] # "QUIT"
SavedIdle == (/\ UnloadingDone
              /\ pc["master"] \in {"inactive", "restore"}
              /\ PoolName[target["master"]] \in Pools) => saved["master"] = "WAIT"

(* All of it together: what holds at every step of the round protocol        *)
(* (control.cc:52-120, 260-286) and is kept by the next.                     *)
IInv == /\ TypeOK /\ LoadFirst /\ UnloadLast /\ HandlerLast /\ HandlerQuits
        /\ Registered /\ Quiet /\ SubLowered /\ NoQuitYet /\ SavedIdle
        /\ CountCovers

(* What a thread at the barrier waits for has come: the count of the busy    *)
(* pools for the master's round sync, a flag to act upon for a pool.         *)
Wanted(t) == IF t = "master" THEN pc[t] \in {"startSync", "sync"} /\ activePools = 0
                             ELSE pflag[t] # "WAIT"

(* Once every party is inside the barrier, nobody is left to notify those    *)
(* who sleep: then nobody sleeps, or is about to, who could go on            *)
(* (barrier.cc:43-53).  Notifications can be missed before, since neither    *)
(* notify() nor whoever changes a flag takes the mutex; the notification of  *)
(* the last party to arrive (47) makes up for every missed one.              *)
NobodyOversleeps ==
    queued = parties => \A t \in Threads : at[t] \in {"block", "sleep"} => ~Wanted(t)

(* Pools that count as parties of the barrier; and pools that have left      *)
(* their loop without detaching their party (control.cc:282).                *)
Attached == {p \in Pools : pc[p] \notin {"unborn", "attach", "done"}}
LeftBehind == parties - 1 - Cardinality(Attached)

(* activePools never stands higher than the number of pools that will still  *)
(* lower it, unless a pool has left without doing so (control.cc:100, 167,   *)
(* 273-275, 282): the round sync is passed as soon as the last pool is done. *)
CountMet == ~Closing => activePools + Pending <= Cardinality(Owing) + LeftBehind

(* activePools, with the additions on their way, is the number of pools the  *)
(* master has to wait for: no less, so that the round sync is not passed too *)
(* early, and no more than what pools have left behind, so that it is passed.*)
ActiveExact == CountCovers /\ CountMet

(* The system stands still, with every thread of the loop asleep on the      *)
(* barrier and only the client left to wake it, at no other place than the   *)
(* pause it was told to make (control.cc:87): neither the start nor a round  *)
(* stops with the master waiting for pools and the pools for the master,     *)
(* although notify() wakes only who is asleep already (barrier.cc:57-59).    *)
(* Lost: a pool has left its loop and its party is still attached.           *)
Lost == ~Closing /\ parties > Cardinality(pools)
StandStill == at["master"] = "sleep" /\ \A p \in pools \ {"master"} : at[p] = "sleep"
NoDeadlock == StandStill /\ ~Lost => pc["master"] = "pause"

(* Control implements lock-step rounds: see Rounds.                          *)
LockStep == INSTANCE Rounds WITH
    Module  <- Modules,
    round   <- IF Preparing THEN round - 1 ELSE round,
    present <- loaded,
    pending <- IF Preparing THEN {} ELSE {m \in loaded : mflag[m] = "RUN"},
    closing <- Closing
LockStepRounds == LockStep!Spec

(* What a module returned is acted upon before it executes again: a DONE     *)
(* module is gone, a SHUTDOWN request is registered (control.cc:94-98,       *)
(* module.h:22-25), whatever commands arrive in between.                     *)
StatusHeeded == \A t \in Threads : pc[t] = "exec" =>
    LET s == status[Head(iter[t])] IN
        /\ s # "DONE"
        /\ s = "SHUTDOWN" => shutdownRequested

(* No module executes after Loader::unload has destroyed it (bvs.h:243-249,  *)
(* "Quit system by unloading all modules properly").                         *)
NoUseAfterUnload == \A t \in Threads : pc[t] = "exec" => Head(iter[t]) \in loaded

(* While Loader::hotSwapModule replaces a module object nobody executes it   *)
(* (bvs.h:236-238: "The function will pause the system").  Violated: what    *)
(* hotSwap waits for is the flag of the pool (bvs.cc:307), and a master past *)
(* its dispatch raises that flag once more.                                  *)
SwapExclusive == pc["client"] = "swap" =>
    \A t \in Threads : pc[t] = "exec" => Head(iter[t]) # target["client"]

(* A started module has a thread that executes it: its pool's or the         *)
(* master's (control.h:66-73).                                               *)
ModulesHaveThread == pc["client"] = "assign" =>
    \A m \in loaded : pc[PoolName[m]] \notin {"erase", "done"}

(* start() leaves a master controller behind that takes commands.            *)
StartLeavesMaster == pc["client"] \in {"assign", "ready"} => pc["master"] # "done"

(* The system does not run on after the shutdown round.                      *)
NoOvershoot == shutdownRequested => round <= shutdownRound

(* Liveness, under Fairness.                                                 *)
(* The master has found the flag at PAUSE and is about to sleep: it holds    *)
(* the mutex, which a command and its notify() do not take.                  *)
AboutToSleep == pc["master"] = "pause" /\ at["master"] = "block"

(* A round that has begun ends, although pools can miss the notification     *)
(* that starts it (they sleep without having been awake to hear it): the     *)
(* last party to arrive at the barrier wakes them (barrier.cc:47).  A pool   *)
(* whose only module is DONE ends this: it leaves without lowering the count *)
(* (268-274).                                                                *)
RoundCompletes == pc["master"] = "run" ~>
                      (pc["master"] = "dispatch" \/ Closing \/ crashed)

(* run(), its flag written and notify() still to come, has the master look   *)
(* at the flag (control.cc:130-132), unless the notification comes before    *)
(* the sleep of a master that has tested already, the master has left        *)
(* because it was forked before its handle was assigned, or a pool was lost  *)
(* at startup.                                                               *)
Obeyed == pc["master"] \in {"dispatch", "done"} \/ flag # "RUN" \/ Lost \/ crashed
RunTakesEffect ==
    (pc["client"] = "notify" /\ flag = "RUN" /\ ~AboutToSleep) ~> Obeyed

(* The same of every run(), as its documentation has it (bvs.h:204-206).     *)
(* Violated: the flag is written and notify() called between the test and    *)
(* the sleep of the master (barrier.cc:48, 59), and it sleeps on.            *)
EveryRunObeyed == (pc["client"] = "notify" /\ flag = "RUN") ~> Obeyed

(* quit() returns from joining the master (control.cc:130-140), with the     *)
(* same exceptions of a notification too early and of a lost pool.           *)
QuitEnds ==
    (pc["client"] = "notify" /\ quitting["client"] /\ ~AboutToSleep)
        ~> (pc["client"] \notin {"notify", "join"} \/ Lost \/ crashed)

(* hotSwap() gets to replace the module (bvs.cc:307-309, control.cc:227).    *)
(* Violated for a module of the pool "master": that pool is told to run with *)
(* the others (99), and no thread lowers its flag as a pool's thread does    *)
(* (273).                                                                    *)
SwapHappens == pc["client"] = "swapWait" ~> (pc["client"] = "swap" \/ crashed)

(* hotSwap() gets to replace a module that runs in a pool with a thread.     *)
PooledSwapHappens ==
    (pc["client"] = "swapWait" /\ PoolName[target["client"]] \in Pools)
        ~> (pc["client"] = "swap" \/ crashed)

(* A requested shutdown ends the process (if the bound allows its rounds).    *)
ShutdownHappens == (shutdownRequested /\ shutdownRound <= MaxRound) ~>
                       (pc["client"] = "end" \/ crashed)
==============================================================================
