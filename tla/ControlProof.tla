---------------------------- MODULE ControlProof -----------------------------
(***************************************************************************)
(* Type correctness of Control, what it does with statuses, and round      *)
(* exclusion.                                                              *)
(*                                                                         *)
(* Types are an inductive invariant: what it needs besides the types is    *)
(* the order of the phases (the client loads before there is a master and  *)
(* unloads when it is gone).  Each lemma takes one thread, or one of its   *)
(* roles, and has one step per action.  The Boolean variables are kept     *)
(* apart, in TypeBool, because they need another prover.                   *)
(*                                                                         *)
(* StatusInv says what the status functions rest on: only a module that    *)
(* has been told to run executes, and what it returned has been looked at. *)
(*                                                                         *)
(* Round exclusion is IInv of Control.  The argument has two halves that   *)
(* need each other:                                                        *)
(*   Phases       where the pools may be in each phase of the master;      *)
(*   CountCovers  activePools, with the additions still to come, is never  *)
(*                below the number of pools that owe a subtraction.        *)
(* CountCovers is what the master's barrier wait relies on: when it sees   *)
(* activePools = 0, no pool owes (MasterPhases, step MasterWait).  Phases  *)
(* is what CountCovers relies on: a pool that subtracts has lowered its    *)
(* flag, so that it owes nothing afterwards (PoolCount, step PoolSub), and *)
(* between two rounds nobody raises a flag but the master, which counts    *)
(* the pools it raises it for (MasterCount, steps Arm and Launch).         *)
(* Two properties follow with invariants of their own: NobodyForgotten     *)
(* (AwakeInv, no waiter of the barrier is asleep while what it waits for   *)
(* is there) and ShutdownEnds (DueInv, no further rounds once the          *)
(* shutdown round is reached, with the client out of the way).             *)
(***************************************************************************)
EXTENDS Control, FiniteSetTheorems, TLAPS

USE DEF Threads, Callers, WaitState, ControlFlag, Status, SystemFlag,
        QuitLabel, UnloadLabel, PoolLabel, MasterLabel, ClientLabel, Label, Go

(* What the proofs use of the assumption on the constants.                 *)
LEMMA ConstType == /\ MaxRound \in Nat
                   /\ ModuleList \in Seq(Modules)
                   /\ PoolName \in [Modules -> Threads]
                   /\ Returns \in [Modules -> SUBSET Status]
                   /\ Commands \subseteq SystemFlag
                   /\ Swappable \subseteq Modules
                   /\ \A p \in Pools : p # "client" /\ p # "master"
  BY ControlAssumption

(* Erasing a module from the vector of a pool leaves a vector of modules   *)
(* (control.cc:197).                                                       *)
LEMMA RemoveAtType ==
    ASSUME NEW S, NEW s \in Seq(S), NEW i \in 1 .. Len(s)
    PROVE  RemoveAt(s, i) \in Seq(S)
  BY SMT DEF RemoveAt

(* The conjuncts of the type invariant that do not concern Booleans, with  *)
(* the facts about the order of the phases that they need.                 *)
TypeInv == /\ TypePc /\ TypeBarrier /\ TypePools /\ TypeModules
           /\ TypeSystem /\ TypeStack /\ TypeCalls
           /\ LoadFirst /\ UnloadLast /\ HandlerLast

(* A wait on the barrier keeps the types of its variables                  *)
(* (barrier.cc:43-53).                                                     *)
LEMMA BarrierType ==
    ASSUME TypeBarrier, NEW t \in Threads, NEW pred, Arrive(t, pred) \/ Recheck(t, pred)
    PROVE  TypeBarrier'
<1>1. Notified \in [Threads -> WaitState]
  BY DEF TypeBarrier, Notified
<1>2. CASE Arrive(t, pred)
  BY <1>1, <1>2 DEF TypeBarrier, Arrive
<1>3. CASE Recheck(t, pred)
  BY <1>3 DEF TypeBarrier, Recheck
<1> QED
  BY <1>2, <1>3

(* There are finitely many registered pools: a pool is registered under    *)
(* its name.                                                               *)
LEMMA PoolsFinite ==
    TypePools => IsFiniteSet(pools) /\ Cardinality(pools) \in Nat
<1>1. IsFiniteSet(Threads)
  BY ControlAssumption, FS_AddElement
<1> QED
  BY <1>1, FS_Subset, FS_CardinalityType DEF TypePools

------------------------------------------------------------------------------
(* What the test of a pool's loop changes (control.cc:268).                *)
LEMMA HeadStep ==
    ASSUME NEW p \in Pools, PoolHead(p)
    PROVE  /\ \/ /\ pc' = [pc EXCEPT ![p] = "run"]
                 /\ iter' = [iter EXCEPT ![p] = pmods[p]]
              \/ /\ pc' = [pc EXCEPT ![p] = "erase"]
                 /\ iter' = iter
           /\ pc[p] = "head"
           /\ UNCHANGED <<pools, pflag, saved, target, quitting>>
  BY Zenon DEF PoolHead, poolVars, moduleVars, callVars

(* The steps of a pool thread (poolController, moduleController).          *)
LEMMA PoolType == TypeInv /\ (\E p \in Pools : Pool(p)) => TypeInv'
<1> USE ConstType DEF TypeInv, TypePc, TypeBarrier, TypePools, TypeModules,
      TypeSystem, TypeStack, TypeCalls, LoadFirst, UnloadLast, HandlerLast,
      syncVars, poolVars, moduleVars, roundVars, stackVars, callVars
<1>1. ASSUME TypeInv, NEW p \in Pools, Attach(p) PROVE TypeInv'
  BY <1>1 DEF Attach, AttachParty
<1>2. ASSUME TypeInv, NEW p \in Pools, PoolHead(p) PROVE TypeInv'
  <2>1. TypePc'
    <3>1. PICK label \in {"run", "erase"} : pc' = [pc EXCEPT ![p] = label]
      BY <1>2, HeadStep, Zenon
    <3>2. pc[p] = "head" /\ UNCHANGED quitting
      BY <1>2, HeadStep, Zenon
    <3> QED
      BY <1>2, <3>1, <3>2
  <2>2. TypePools'
    <3>1. iter' \in [Threads -> Seq(Modules)]
      <4>1. iter' = iter \/ iter' = [iter EXCEPT ![p] = pmods[p]]
        BY <1>2, HeadStep, Zenon
      <4>2. iter \in [Threads -> Seq(Modules)] /\ pmods \in [Threads -> Seq(Modules)]
        BY <1>2
      <4> QED
        BY <4>1, <4>2
    <3>2. \A t \in Threads : pc'[t] = "exec" => pc[t] = "exec" /\ iter'[t] = iter[t]
      BY <1>2 DEF PoolHead
    <3> QED
      BY <1>2, <3>1, <3>2 DEF PoolHead
  <2> QED
    BY <1>2, <2>1, <2>2 DEF PoolHead
<1>3. ASSUME TypeInv, NEW t \in Threads, Skip(t) PROVE TypeInv'
  BY <1>3 DEF Skip
<1>4. ASSUME TypeInv, NEW t \in Threads, StartExecute(t) PROVE TypeInv'
  BY <1>4 DEF StartExecute
<1>5. ASSUME TypeInv, NEW t \in Threads, EndExecute(t) PROVE TypeInv'
  <2> DEFINE m == Head(iter[t])
  <2>1. m \in Modules /\ Tail(iter[t]) \in Seq(Modules)
    BY <1>5 DEF EndExecute
  <2>2. PICK s \in Returns[m] : status' = [status EXCEPT ![m] = s]
    BY <1>5 DEF EndExecute
  <2>3. s \in Status
    BY <2>1
  <2>4. TypeModules'
    BY <1>5, <2>1, <2>2, <2>3 DEF EndExecute
  <2>5. TypePools'
    BY <1>5, <2>1 DEF EndExecute
  <2> QED
    BY <1>5, <2>4, <2>5 DEF EndExecute
<1>6. ASSUME TypeInv, NEW p \in Pools, PassDone(p, "finish") PROVE TypeInv'
  BY <1>6 DEF PassDone
<1>7. ASSUME TypeInv, NEW p \in Pools, PoolFinish(p) PROVE TypeInv'
  BY <1>7 DEF PoolFinish
<1>8. ASSUME TypeInv, NEW p \in Pools, PoolFinishWrite(p) PROVE TypeInv'
  BY <1>8 DEF PoolFinishWrite
<1>9. ASSUME TypeInv, NEW p \in Pools, PoolSub(p) PROVE TypeInv'
  BY <1>9 DEF PoolSub
<1>10. ASSUME TypeInv, NEW p \in Pools, PoolWait(p) PROVE TypeInv'
  <2>1. TypeBarrier'
    BY <1>10, BarrierType DEF PoolWait, Enqueue
  <2>2. CASE pc' = pc
    BY <1>10, <2>1, <2>2 DEF PoolWait
  <2>3. CASE pc' = [pc EXCEPT ![p] = "head"]
    BY <1>10, <2>1, <2>3 DEF PoolWait
  <2> QED
    BY <1>10, <2>2, <2>3 DEF PoolWait, Enqueue
<1>11. ASSUME TypeInv, NEW p \in Pools, PoolErase(p) PROVE TypeInv'
  BY <1>11 DEF PoolErase
<1> HIDE DEF TypeInv
<1> QED
  BY <1>1, <1>2, <1>3, <1>4, <1>5, <1>6, <1>7, <1>8, <1>9, <1>10, <1>11 DEF
      Pool, Pass

(* The steps the client's thread takes on its own, but for unloading.      *)
LEMMA ClientType == TypeInv /\ Client /\ ~Unloading("client") => TypeInv'
<1> USE ConstType DEF TypeInv, TypePc, TypeBarrier, TypePools, TypeModules,
      TypeSystem, TypeStack, TypeCalls, LoadFirst, UnloadLast, HandlerLast,
      syncVars, poolVars, moduleVars, roundVars, stackVars, callVars
<1>1. ASSUME TypeInv, LoadIntoPool PROVE TypeInv'
  BY <1>1 DEF LoadIntoPool, Register, Push, MayCrash
<1>2. ASSUME TypeInv, LoadNewPool PROVE TypeInv'
  <2> DEFINE p == PoolName[Head(todo)]
  <2>1. Head(todo) \in Modules /\ p \in Pools
    BY <1>2 DEF LoadNewPool
  <2>2. TypePc' /\ TypePools'
    <3> HIDE DEF p
    <3>1. pc' = [pc EXCEPT !["client"] = "count", ![p] = "attach"]
      BY <1>2 DEF LoadNewPool, p
    <3>2. pools' = pools \union {p} /\ pflag' = [pflag EXCEPT ![p] = "WAIT"] /\ pmods' = [pmods EXCEPT ![p] = <<>>]
      BY <1>2 DEF LoadNewPool, p
    <3>3. \A t \in Threads : pc'[t] = IF t = p THEN "attach" ELSE pc[t]
      BY <1>2, <2>1, <3>1
    <3> QED
      BY <1>2, <2>1, <3>1, <3>2, <3>3 DEF LoadNewPool
  <2>3. TypeModules' /\ TypeStack' /\ TypeCalls'
    BY <1>2, <2>1 DEF LoadNewPool, Register
  <2>4. LoadFirst' /\ UnloadLast' /\ HandlerLast'
    <3>1. pc'["client"] = "count" /\ pc'["master"] = pc["master"]
      BY <1>2, <2>1 DEF LoadNewPool
    <3> QED
      BY <1>2, <3>1 DEF LoadNewPool
  <2> QED
    BY <1>2, <2>4, <2>2, <2>3 DEF LoadNewPool
<1>3. ASSUME TypeInv, CountPool PROVE TypeInv'
  BY <1>3 DEF CountPool
<1>4. ASSUME TypeInv, PushFirst PROVE TypeInv'
  BY <1>4 DEF PushFirst, Push
<1>5. ASSUME TypeInv, Fork PROVE TypeInv'
  BY <1>5 DEF Fork
<1>6. ASSUME TypeInv, Assign PROVE TypeInv'
  BY <1>6 DEF Assign
<1>7. ASSUME TypeInv, FirstRun PROVE TypeInv'
  BY <1>7 DEF FirstRun, Send
<1>8. ASSUME TypeInv, CommandNotify PROVE TypeInv'
  BY <1>8 DEF CommandNotify, Notify, NotifyAll, Notified
<1>9. ASSUME TypeInv, Alarm PROVE TypeInv'
  BY <1>9 DEF Alarm, Send
<1>10. ASSUME TypeInv, Join PROVE TypeInv'
  BY <1>10 DEF Join
<1>11. ASSUME TypeInv, WhileActive("client", "swapWait") PROVE TypeInv'
  BY <1>11 DEF WhileActive, NotifyAll, Notified
<1>12. ASSUME TypeInv, SwapNotify PROVE TypeInv'
  BY <1>12 DEF SwapNotify, Notify, NotifyAll, Notified
<1>20. ASSUME TypeInv, SwapPause PROVE TypeInv'
  BY <1>20 DEF SwapPause
<1>13. ASSUME TypeInv, StartSwap PROVE TypeInv'
  BY <1>13 DEF StartSwap, OnceInactive
<1>14. ASSUME TypeInv, EndSwap PROVE TypeInv'
  BY <1>14 DEF EndSwap
<1>15. ASSUME TypeInv, Delete PROVE TypeInv'
  BY <1>15 DEF Delete
<1> HIDE DEF TypeInv
<1> QED
  BY <1>1, <1>2, <1>3, <1>4, <1>5, <1>6, <1>7, <1>8, <1>9, <1>10, <1>11,
      <1>12, <1>20, <1>13, <1>14, <1>15 DEF Client

(* The commands the user sends through the client's thread.                *)
LEMMA UserType == TypeInv /\ User => TypeInv'
<1> USE ConstType DEF TypeInv, TypePc, TypeBarrier, TypePools, TypeModules,
      TypeSystem, TypeStack, TypeCalls, LoadFirst, UnloadLast, HandlerLast,
      syncVars, poolVars, moduleVars, roundVars, stackVars, callVars
<1>1. ASSUME TypeInv, NEW cmd \in Commands, Command(cmd) PROVE TypeInv'
  BY <1>1 DEF Command, Send
<1>2. ASSUME TypeInv, NEW m \in Swappable, HotSwap(m) PROVE TypeInv'
  BY <1>2 DEF HotSwap
<1> HIDE DEF TypeInv
<1> QED
  BY <1>1, <1>2 DEF User

(* Unloading a module, by the client or by the master.                     *)
LEMMA UnloadingType == TypeInv /\ (\E c \in Callers : Unloading(c)) => TypeInv'
<1> USE ConstType DEF TypeInv, TypePc, TypeBarrier, TypePools, TypeModules,
      TypeSystem, TypeStack, TypeCalls, LoadFirst, UnloadLast, HandlerLast,
      syncVars, poolVars, moduleVars, roundVars, stackVars, callVars
<1>1. ASSUME TypeInv, NEW c \in Callers, UnloadNext(c) PROVE TypeInv'
  <2>1. Head(moduleStack) \in Modules /\ Tail(moduleStack) \in Seq(Modules)
    BY <1>1 DEF UnloadNext
  <2>2. CASE Head(moduleStack) \in loaded
    <3>1. /\ pc' = [pc EXCEPT ![c] = "unload"]
          /\ target' = [target EXCEPT ![c] = Head(moduleStack)]
          /\ moduleStack # <<>> /\ moduleStack' = moduleStack
      BY <1>1, <2>2 DEF UnloadNext
    <3>2. TypePc' /\ TypeCalls'
      BY <1>1, <2>1, <3>1 DEF UnloadNext
    <3> QED
      BY <1>1, <3>1, <3>2 DEF UnloadNext
  <2>3. CASE Head(moduleStack) \notin loaded
    <3>1. moduleStack' = Tail(moduleStack) /\ pc' = pc /\ target' = target
      BY <1>1, <2>3 DEF UnloadNext
    <3>2. \A d \in Callers : pc[d] \notin UnloadLabel
      BY <1>1 DEF UnloadNext
    <3>3. TypeStack'
      BY <1>1, <2>1, <3>1, <3>2 DEF UnloadNext
    <3> QED
      BY <1>1, <3>1, <3>3 DEF UnloadNext
  <2> QED
    BY <2>2, <2>3
<1>2. ASSUME TypeInv, NEW c \in Callers, AllUnloaded(c) PROVE TypeInv'
  BY <1>2 DEF AllUnloaded
<1>3. ASSUME TypeInv, NEW c \in Callers, Unload(c) PROVE TypeInv'
  BY <1>3 DEF Unload
<1>4. ASSUME TypeInv, NEW c \in Callers, StopNotify(c) PROVE TypeInv'
  BY <1>4 DEF StopNotify, Notify, NotifyAll, Notified
<1>21. ASSUME TypeInv, NEW c \in Callers, StopPause(c) PROVE TypeInv'
  BY <1>21 DEF StopPause
<1>5. ASSUME TypeInv, NEW c \in Callers, Stop(c) PROVE TypeInv'
  <2>1. PoolName[target[c]] \in Threads
    BY <1>5 DEF Stop
  <2>2. TypePools'
    <3>1. pflag' \in [Threads -> ControlFlag]
      BY <1>5, <2>1 DEF Stop
    <3>2. \A t \in Threads : pc'[t] = "exec" => pc[t] = "exec"
      BY <1>5 DEF Stop
    <3> QED
      BY <1>5, <3>1, <3>2 DEF Stop
  <2>3. TypeCalls'
    BY <1>5, <2>1 DEF Stop
  <2> QED
    BY <1>5, <2>2, <2>3 DEF Stop
<1>6. ASSUME TypeInv, NEW c \in Callers,
             WhileActive(c, "inactive")
      PROVE TypeInv'
  BY <1>6 DEF WhileActive, NotifyAll, Notified
<1>7. ASSUME TypeInv, NEW c \in Callers, RemoveFromPool(c) PROVE TypeInv'
  <2> DEFINE p == PoolName[target[c]]
  <2>1. p \in Threads /\ pmods[p] \in Seq(Modules)
    BY <1>7 DEF RemoveFromPool, OnceInactive
  <2>2. CASE pmods' = pmods
    BY <1>7, <2>2 DEF RemoveFromPool, OnceInactive
  <2>3. CASE \E i \in 1 .. Len(pmods[p]) : pmods' = [pmods EXCEPT ![p] = RemoveAt(pmods[p], i)]
    <3>1. PICK i \in 1 .. Len(pmods[p]) : pmods' = [pmods EXCEPT ![p] = RemoveAt(pmods[p], i)]
      BY <2>3
    <3>2. RemoveAt(pmods[p], i) \in Seq(Modules)
      BY <2>1, RemoveAtType
    <3> QED
      BY <1>7, <2>1, <3>1, <3>2 DEF RemoveFromPool, OnceInactive
  <2> QED
    BY <1>7, <2>2, <2>3 DEF RemoveFromPool
<1>8. ASSUME TypeInv, NEW c \in Callers, Restore(c) PROVE TypeInv'
  BY <1>8 DEF Restore, Notify, NotifyAll, Notified
<1>9. ASSUME TypeInv, NEW c \in Callers, Free(c) PROVE TypeInv'
  BY <1>9 DEF Free
<1>10. ASSUME TypeInv, NEW c \in Callers, Resume(c) PROVE TypeInv'
  BY <1>10 DEF Resume
<1>11. ASSUME TypeInv, NEW c \in Callers, ResumeNotify(c) PROVE TypeInv'
  BY <1>11 DEF ResumeNotify, Notify, NotifyAll, Notified
<1>12. ASSUME TypeInv, NEW c \in Callers, PopUnloaded(c) PROVE TypeInv'
  BY <1>12 DEF PopUnloaded
<1> HIDE DEF TypeInv
<1> QED
  BY <1>1, <1>2, <1>3, <1>4, <1>21, <1>5, <1>6, <1>7, <1>8, <1>9, <1>10, <1>11,
      <1>12 DEF Unloading

(* The steps of the master controller, but for unloading.                  *)
LEMMA MasterType == TypeInv /\ Master /\ ~Unloading("master") => TypeInv'
<1> USE ConstType DEF TypeInv, TypePc, TypeBarrier, TypePools, TypeModules,
      TypeSystem, TypeStack, TypeCalls, LoadFirst, UnloadLast, HandlerLast,
      syncVars, poolVars, moduleVars, roundVars, stackVars, callVars
<1>1. ASSUME TypeInv, Startup PROVE TypeInv'
  BY <1>1 DEF Startup, Notify, NotifyAll, Notified
<1>2. ASSUME TypeInv, MasterWait PROVE TypeInv'
  <2>1. TypeBarrier'
    BY <1>2, BarrierType DEF MasterWait, Enqueue
  <2>2. CASE pc' = pc
    BY <1>2, <2>1, <2>2 DEF MasterWait
  <2>3. CASE \E label \in {"reset", "dispatch", "tail"} : pc' = [pc EXCEPT !["master"] = label]
    BY <1>2, <2>1, <2>3 DEF MasterWait
  <2> QED
    BY <1>2, <2>2, <2>3 DEF MasterWait, Enqueue
<1>3. ASSUME TypeInv, Reset PROVE TypeInv'
  BY <1>3 DEF Reset
<1>4. ASSUME TypeInv, MasterHead PROVE TypeInv'
  BY <1>4 DEF MasterHead
<1>5. ASSUME TypeInv, DispatchIdle PROVE TypeInv'
  BY <1>5 DEF DispatchIdle
<1>6. ASSUME TypeInv, DispatchRound PROVE TypeInv'
  BY <1>6 DEF DispatchRound
<1>7. ASSUME TypeInv, NEW m \in unchecked, Check(m) PROVE TypeInv'
  <2>1. m \in Modules
    BY <1>7
  <2>2. shutdownRound' \in Nat
    BY <1>7, PoolsFinite DEF Check
  <2>3. TypeSystem'
    BY <1>7, <2>2 DEF Check
  <2> QED
    BY <1>7, <2>1, <2>3 DEF Check
<1>8. ASSUME TypeInv, NEW m \in unchecked, CheckDone(m) PROVE TypeInv'
  <2>1. m \in Modules
    BY <1>8
  <2>2. TypeCalls'
    BY <1>8, <2>1 DEF CheckDone
  <2>3. TypeStack'
    BY <1>8, <2>1 DEF CheckDone
  <2> QED
    BY <1>8, <2>2, <2>3 DEF CheckDone
<1>9. ASSUME TypeInv, ContinueCheck PROVE TypeInv'
  BY <1>9 DEF ContinueCheck, MayCrash
<1>10. ASSUME TypeInv, Arm PROVE TypeInv'
  BY <1>10 DEF Arm
<1>11. ASSUME TypeInv, Launch PROVE TypeInv'
  BY <1>11 DEF Launch, Notify, NotifyAll, Notified
<1>12. ASSUME TypeInv, NEW t \in Threads, Skip(t) PROVE TypeInv'
  BY <1>12 DEF Skip
<1>13. ASSUME TypeInv, NEW t \in Threads, StartExecute(t) PROVE TypeInv'
  BY <1>13 DEF StartExecute
<1>14. ASSUME TypeInv, NEW t \in Threads, EndExecute(t) PROVE TypeInv'
  <2> DEFINE m == Head(iter[t])
  <2>1. m \in Modules /\ Tail(iter[t]) \in Seq(Modules)
    BY <1>14 DEF EndExecute
  <2>2. PICK s \in Returns[m] : status' = [status EXCEPT ![m] = s]
    BY <1>14 DEF EndExecute
  <2>3. s \in Status
    BY <2>1
  <2>4. TypeModules'
    BY <1>14, <2>1, <2>2, <2>3 DEF EndExecute
  <2>5. TypePools'
    BY <1>14, <2>1 DEF EndExecute
  <2> QED
    BY <1>14, <2>4, <2>5 DEF EndExecute
<1>15. ASSUME TypeInv, PassDone("master", "step") PROVE TypeInv'
  BY <1>15 DEF PassDone
<1>16. ASSUME TypeInv, StepTest PROVE TypeInv'
  BY <1>16 DEF StepTest
<1>17. ASSUME TypeInv, StepWrite PROVE TypeInv'
  BY <1>17 DEF StepWrite
<1>18. ASSUME TypeInv, MasterTail PROVE TypeInv'
  BY <1>18 DEF MasterTail
<1>19. ASSUME TypeInv, MasterExit PROVE TypeInv'
  BY <1>19 DEF MasterExit
<1>20. ASSUME TypeInv, Handler PROVE TypeInv'
  BY <1>20 DEF Handler
<1>21. ASSUME TypeInv, HandlerNotify PROVE TypeInv'
  BY <1>21 DEF HandlerNotify, Notify, NotifyAll, Notified
<1> HIDE DEF TypeInv
<1> QED
  BY <1>1, <1>2, <1>3, <1>4, <1>5, <1>6, <1>7, <1>8, <1>9, <1>10, <1>11,
      <1>12, <1>13, <1>14, <1>15, <1>16, <1>17, <1>18, <1>19, <1>20, <1>21
      DEF Master, Pass

(* Falling asleep on the barrier, and waking up without a reason.          *)
LEMMA WaitType ==
    TypeInv /\ (\E t \in Threads : Sleep(t) \/ Wakeup(t)) => TypeInv'
<1> USE ConstType DEF TypeInv, TypePc, TypeBarrier, TypePools, TypeModules,
      TypeSystem, TypeStack, TypeCalls, LoadFirst, UnloadLast, HandlerLast,
      syncVars, poolVars, moduleVars, roundVars, stackVars, callVars
<1>1. ASSUME TypeInv, NEW t \in Threads, Sleep(t) PROVE TypeInv'
  BY <1>1 DEF Sleep, Block
<1>2. ASSUME TypeInv, NEW t \in Threads, Wakeup(t) PROVE TypeInv'
  BY <1>2 DEF Wakeup, SpuriousWakeup
<1> HIDE DEF TypeInv
<1> QED
  BY <1>1, <1>2 DEF TypeInv

------------------------------------------------------------------------------
(* The Boolean variables, thread by thread.                                *)
(* The steps of a pool thread (poolController, moduleController).          *)
LEMMA PoolBool == TypeBool /\ (\E p \in Pools : Pool(p)) => TypeBool'
<1> USE DEF TypeBool, syncVars, poolVars, moduleVars, roundVars, stackVars,
      callVars
<1>1. ASSUME TypeBool, NEW p \in Pools, Attach(p) PROVE TypeBool'
  BY <1>1, Zenon DEF Attach, AttachParty
<1>2. ASSUME TypeBool, NEW p \in Pools, PoolHead(p) PROVE TypeBool'
  BY <1>2, Zenon DEF PoolHead
<1>3. ASSUME TypeBool, NEW t \in Threads, Skip(t) PROVE TypeBool'
  BY <1>3, Zenon DEF Skip
<1>4. ASSUME TypeBool, NEW t \in Threads, StartExecute(t) PROVE TypeBool'
  BY <1>4, Zenon DEF StartExecute
<1>5. ASSUME TypeBool, NEW t \in Threads, EndExecute(t) PROVE TypeBool'
  BY <1>5, Zenon DEF EndExecute, MayCrash
<1>6. ASSUME TypeBool, NEW p \in Pools, PassDone(p, "finish") PROVE TypeBool'
  BY <1>6, Zenon DEF PassDone
<1>7. ASSUME TypeBool, NEW p \in Pools, PoolFinish(p) PROVE TypeBool'
  BY <1>7, Zenon DEF PoolFinish
<1>8. ASSUME TypeBool, NEW p \in Pools, PoolFinishWrite(p) PROVE TypeBool'
  BY <1>8, Zenon DEF PoolFinishWrite
<1>9. ASSUME TypeBool, NEW p \in Pools, PoolSub(p) PROVE TypeBool'
  BY <1>9, Zenon DEF PoolSub
<1>10. ASSUME TypeBool, NEW p \in Pools, PoolWait(p) PROVE TypeBool'
  BY <1>10, Zenon DEF PoolWait, Enqueue, Arrive, Recheck, Notified
<1>11. ASSUME TypeBool, NEW p \in Pools, PoolErase(p) PROVE TypeBool'
  BY <1>11, Zenon DEF PoolErase
<1> HIDE DEF TypeBool
<1> QED
  BY <1>1, <1>2, <1>3, <1>4, <1>5, <1>6, <1>7, <1>8, <1>9, <1>10, <1>11 DEF
      Pool, Pass

(* The steps the client's thread takes on its own, but for unloading.      *)
LEMMA ClientBool == TypeBool /\ Client /\ ~Unloading("client") => TypeBool'
<1> USE DEF TypeBool, syncVars, poolVars, moduleVars, roundVars, stackVars,
      callVars
<1>1. ASSUME TypeBool, LoadIntoPool PROVE TypeBool'
  <2> DEFINE race == pc[PoolName[Head(todo)]] \in {"run", "exec"}
  <2>1. crashed' \in {FALSE, race}
    BY <1>1 DEF LoadIntoPool, MayCrash
  <2>2. race \in BOOLEAN
    OBVIOUS
  <2> HIDE DEF race
  <2>3. crashed' \in BOOLEAN
    BY <2>1, <2>2, Zenon
  <2> QED
    BY <1>1, <2>3, Zenon DEF LoadIntoPool
<1>2. ASSUME TypeBool, LoadNewPool PROVE TypeBool'
  BY <1>2, Zenon DEF LoadNewPool, Register
<1>3. ASSUME TypeBool, CountPool PROVE TypeBool'
  BY <1>3, Zenon DEF CountPool
<1>4. ASSUME TypeBool, PushFirst PROVE TypeBool'
  BY <1>4, Zenon DEF PushFirst, Push
<1>5. ASSUME TypeBool, Fork PROVE TypeBool'
  BY <1>5, Zenon DEF Fork
<1>6. ASSUME TypeBool, Assign PROVE TypeBool'
  BY <1>6, Zenon DEF Assign
<1>7. ASSUME TypeBool, FirstRun PROVE TypeBool'
  BY <1>7, Zenon DEF FirstRun, Send
<1>8. ASSUME TypeBool, CommandNotify PROVE TypeBool'
  BY <1>8, Zenon DEF CommandNotify, Notify, NotifyAll, Notified
<1>9. ASSUME TypeBool, Alarm PROVE TypeBool'
  BY <1>9, Zenon DEF Alarm, Send
<1>10. ASSUME TypeBool, Join PROVE TypeBool'
  BY <1>10, Zenon DEF Join
<1>11. ASSUME TypeBool, WhileActive("client", "swapWait") PROVE TypeBool'
  BY <1>11, Zenon DEF WhileActive, NotifyAll, Notified
<1>12. ASSUME TypeBool, SwapNotify PROVE TypeBool'
  BY <1>12, Zenon DEF SwapNotify, Notify, NotifyAll, Notified
<1>20. ASSUME TypeBool, SwapPause PROVE TypeBool'
  BY <1>20, Zenon DEF SwapPause
<1>13. ASSUME TypeBool, StartSwap PROVE TypeBool'
  BY <1>13, Zenon DEF StartSwap, OnceInactive
<1>14. ASSUME TypeBool, EndSwap PROVE TypeBool'
  BY <1>14, Zenon DEF EndSwap
<1>15. ASSUME TypeBool, Delete PROVE TypeBool'
  BY <1>15, Zenon DEF Delete
<1> HIDE DEF TypeBool
<1> QED
  BY <1>1, <1>2, <1>3, <1>4, <1>5, <1>6, <1>7, <1>8, <1>9, <1>10, <1>11,
      <1>12, <1>20, <1>13, <1>14, <1>15 DEF Client

(* The commands the user sends through the client's thread.                *)
LEMMA UserBool == TypeBool /\ User => TypeBool'
<1> USE DEF TypeBool, syncVars, poolVars, moduleVars, roundVars, stackVars,
      callVars
<1>1. ASSUME TypeBool, NEW cmd \in Commands, Command(cmd) PROVE TypeBool'
  BY <1>1, Zenon DEF Command, Send
<1>2. ASSUME TypeBool, NEW m \in Swappable, HotSwap(m) PROVE TypeBool'
  BY <1>2, Zenon DEF HotSwap
<1> HIDE DEF TypeBool
<1> QED
  BY <1>1, <1>2 DEF User

(* Unloading a module, by the client or by the master.                     *)
LEMMA UnloadingBool ==
    TypeBool /\ (\E c \in Callers : Unloading(c)) => TypeBool'
<1> USE DEF TypeBool, syncVars, poolVars, moduleVars, roundVars, stackVars,
      callVars
<1>1. ASSUME TypeBool, NEW c \in Callers, UnloadNext(c) PROVE TypeBool'
  BY <1>1, Zenon DEF UnloadNext
<1>2. ASSUME TypeBool, NEW c \in Callers, AllUnloaded(c) PROVE TypeBool'
  BY <1>2, Zenon DEF AllUnloaded
<1>3. ASSUME TypeBool, NEW c \in Callers, Unload(c) PROVE TypeBool'
  BY <1>3, Zenon DEF Unload
<1>4. ASSUME TypeBool, NEW c \in Callers, StopNotify(c) PROVE TypeBool'
  BY <1>4, Zenon DEF StopNotify, Notify, NotifyAll, Notified
<1>21. ASSUME TypeBool, NEW c \in Callers, StopPause(c) PROVE TypeBool'
  BY <1>21, Zenon DEF StopPause
<1>5. ASSUME TypeBool, NEW c \in Callers, Stop(c) PROVE TypeBool'
  BY <1>5, Zenon DEF Stop
<1>6. ASSUME TypeBool, NEW c \in Callers,
             WhileActive(c, "inactive")
      PROVE TypeBool'
  BY <1>6, Zenon DEF WhileActive, NotifyAll, Notified
<1>7. ASSUME TypeBool, NEW c \in Callers, RemoveFromPool(c) PROVE TypeBool'
  BY <1>7, Zenon DEF RemoveFromPool, OnceInactive
<1>8. ASSUME TypeBool, NEW c \in Callers, Restore(c) PROVE TypeBool'
  BY <1>8, Zenon DEF Restore, Notify, NotifyAll, Notified
<1>9. ASSUME TypeBool, NEW c \in Callers, Free(c) PROVE TypeBool'
  BY <1>9, Zenon DEF Free
<1>10. ASSUME TypeBool, NEW c \in Callers, Resume(c) PROVE TypeBool'
  BY <1>10, Zenon DEF Resume
<1>11. ASSUME TypeBool, NEW c \in Callers, ResumeNotify(c) PROVE TypeBool'
  BY <1>11, Zenon DEF ResumeNotify, Notify, NotifyAll, Notified
<1>12. ASSUME TypeBool, NEW c \in Callers, PopUnloaded(c) PROVE TypeBool'
  BY <1>12, Zenon DEF PopUnloaded
<1> HIDE DEF TypeBool
<1> QED
  BY <1>1, <1>2, <1>3, <1>4, <1>21, <1>5, <1>6, <1>7, <1>8, <1>9, <1>10, <1>11,
      <1>12 DEF Unloading

(* The steps of the master controller, but for unloading.                  *)
LEMMA MasterBool == TypeBool /\ Master /\ ~Unloading("master") => TypeBool'
<1> USE DEF TypeBool, syncVars, poolVars, moduleVars, roundVars, stackVars,
      callVars
<1>1. ASSUME TypeBool, Startup PROVE TypeBool'
  BY <1>1, Zenon DEF Startup, Notify, NotifyAll, Notified
<1>2. ASSUME TypeBool, MasterWait PROVE TypeBool'
  BY <1>2, Zenon DEF MasterWait, Enqueue, Arrive, Recheck, Notified
<1>3. ASSUME TypeBool, Reset PROVE TypeBool'
  BY <1>3, Zenon DEF Reset
<1>4. ASSUME TypeBool, MasterHead PROVE TypeBool'
  BY <1>4, Zenon DEF MasterHead
<1>5. ASSUME TypeBool, DispatchIdle PROVE TypeBool'
  BY <1>5, Zenon DEF DispatchIdle
<1>6. ASSUME TypeBool, DispatchRound PROVE TypeBool'
  BY <1>6, Zenon DEF DispatchRound
<1>7. ASSUME TypeBool, NEW m, Check(m) PROVE TypeBool'
  BY <1>7, Zenon DEF Check
<1>8. ASSUME TypeBool, NEW m, CheckDone(m) PROVE TypeBool'
  BY <1>8, Zenon DEF CheckDone
<1>9. ASSUME TypeBool, ContinueCheck PROVE TypeBool'
  BY <1>9, Zenon DEF ContinueCheck, MayCrash
<1>10. ASSUME TypeBool, Arm PROVE TypeBool'
  BY <1>10, Zenon DEF Arm
<1>11. ASSUME TypeBool, Launch PROVE TypeBool'
  BY <1>11, Zenon DEF Launch, Notify, NotifyAll, Notified
<1>12. ASSUME TypeBool, NEW t \in Threads, Skip(t) PROVE TypeBool'
  BY <1>12, Zenon DEF Skip
<1>13. ASSUME TypeBool, NEW t \in Threads, StartExecute(t) PROVE TypeBool'
  BY <1>13, Zenon DEF StartExecute
<1>14. ASSUME TypeBool, NEW t \in Threads, EndExecute(t) PROVE TypeBool'
  BY <1>14, Zenon DEF EndExecute, MayCrash
<1>15. ASSUME TypeBool, PassDone("master", "step") PROVE TypeBool'
  BY <1>15, Zenon DEF PassDone
<1>16. ASSUME TypeBool, StepTest PROVE TypeBool'
  BY <1>16, Zenon DEF StepTest
<1>17. ASSUME TypeBool, StepWrite PROVE TypeBool'
  BY <1>17, Zenon DEF StepWrite
<1>18. ASSUME TypeBool, MasterTail PROVE TypeBool'
  BY <1>18, Zenon DEF MasterTail
<1>19. ASSUME TypeBool, MasterExit PROVE TypeBool'
  BY <1>19, Zenon DEF MasterExit
<1>20. ASSUME TypeBool, Handler PROVE TypeBool'
  BY <1>20, Zenon DEF Handler
<1>21. ASSUME TypeBool, HandlerNotify PROVE TypeBool'
  BY <1>21, Zenon DEF HandlerNotify, Notify, NotifyAll, Notified
<1> HIDE DEF TypeBool
<1> QED
  BY <1>1, <1>2, <1>3, <1>4, <1>5, <1>6, <1>7, <1>8, <1>9, <1>10, <1>11,
      <1>12, <1>13, <1>14, <1>15, <1>16, <1>17, <1>18, <1>19, <1>20, <1>21
      DEF Master, Pass

(* Falling asleep on the barrier, and waking up without a reason.          *)
LEMMA WaitBool ==
    TypeBool /\ (\E t \in Threads : Sleep(t) \/ Wakeup(t)) => TypeBool'
<1> USE DEF TypeBool, syncVars, poolVars, moduleVars, roundVars, stackVars,
      callVars
<1>1. ASSUME TypeBool, NEW t \in Threads, Sleep(t) PROVE TypeBool'
  BY <1>1, Zenon DEF Sleep, Block
<1>2. ASSUME TypeBool, NEW t \in Threads, Wakeup(t) PROVE TypeBool'
  BY <1>2, Zenon DEF Wakeup, SpuriousWakeup
<1> HIDE DEF TypeBool
<1> QED
  BY <1>1, <1>2 DEF TypeInv

------------------------------------------------------------------------------
(* Who takes a step: the cases the lemmas above are about.                 *)
StepCase == \/ \E p \in Pools : Pool(p)
            \/ Client /\ ~Unloading("client")
            \/ User
            \/ \E c \in Callers : Unloading(c)
            \/ Master /\ ~Unloading("master")
            \/ \E t \in Threads : Sleep(t) \/ Wakeup(t)

(* Every step is one of them.                                              *)
LEMMA Steps == Next => StepCase
<1> USE DEF StepCase, Callers
<1>1. CASE ClientStep
  BY <1>1 DEF ClientStep
<1>2. CASE MasterStep
  BY <1>2 DEF MasterStep
<1>3. CASE \E p \in Pools : PoolStep(p)
  BY <1>3 DEF PoolStep
<1>4. CASE Alive /\ User
  BY <1>4
<1>5. CASE \E t \in Threads : Alive /\ Wakeup(t)
  BY <1>5
<1> QED
  BY <1>1, <1>2, <1>3, <1>4, <1>5 DEF Next

(* The initial state has the types.                                        *)
LEMMA TypesInit == Init => TypeInv /\ TypeBool
<1> SUFFICES ASSUME Init PROVE TypeInv /\ TypeBool
  OBVIOUS
<1> USE ConstType DEF Init
<1>1. TypePc
  BY DEF TypePc
<1>2. TypeBarrier
  BY DEF TypeBarrier
<1>3. TypePools
  BY DEF TypePools
<1>4. TypeModules
  BY DEF TypeModules
<1>5. TypeSystem
  BY DEF TypeSystem
<1>6. TypeStack
  BY DEF TypeStack
<1>7. TypeCalls
  BY DEF TypeCalls
<1>8. LoadFirst /\ UnloadLast /\ HandlerLast
  BY DEF LoadFirst, UnloadLast, HandlerLast
<1>9. TypeBool
  BY Zenon DEF TypeBool
<1> QED
  BY <1>1, <1>2, <1>3, <1>4, <1>5, <1>6, <1>7, <1>8, <1>9 DEF TypeInv

(* Every step, and every stutter, keeps the types.                         *)
LEMMA TypesStep == TypeInv /\ TypeBool /\ [Next]_vars => TypeInv' /\ TypeBool'
<1>1. TypeInv /\ TypeBool /\ Next => TypeInv' /\ TypeBool'
  BY Steps, PoolType, ClientType, UserType, UnloadingType, MasterType,
      WaitType,
     PoolBool, ClientBool, UserBool, UnloadingBool, MasterBool, WaitBool
     DEF StepCase
<1>2. ASSUME TypeInv, vars' = vars PROVE TypeInv'
  BY <1>2 DEF TypeInv, TypePc, TypeBarrier, TypePools, TypeModules, TypeSystem,
              TypeStack, TypeCalls, LoadFirst, UnloadLast, HandlerLast, vars,
              syncVars, poolVars, moduleVars, roundVars, stackVars, callVars
<1>3. ASSUME TypeBool, vars' = vars PROVE TypeBool'
  BY <1>3, Zenon DEF TypeBool, vars, roundVars, callVars
<1> QED
  BY <1>1, <1>2, <1>3

(* Type correctness: in every reachable state every variable has its type, *)
(* whatever the pools, the modules and what they return. In particular no  *)
(* thread is inside execute() without a module it is executing, and no     *)
(* thread unloads a module that is none (control.cc:236-256,               *)
(* bvs.cc:140-167).                                                        *)
THEOREM TypeCorrect == Spec => []TypeOK
<1>1. Init => TypeInv /\ TypeBool
  BY TypesInit
<1>2. (TypeInv /\ TypeBool) /\ [Next]_vars => (TypeInv /\ TypeBool)'
  BY TypesStep
<1>3. TypeInv /\ TypeBool => TypeOK
  BY DEF TypeInv, TypeOK
<1> QED
  BY <1>1, <1>2, <1>3, PTL DEF Spec

------------------------------------------------------------------------------
(* Two invariants that need nothing but the types: the barrier counts its  *)
(* threads exactly, which only depends on which steps move the barrier;    *)
(* and a module executes again only when what it returned has been looked  *)
(* at.  The second needs that a module is only ever in the vector of its   *)
(* own pool, so that no other thread can write its status while it         *)
(* executes.                                                               *)
HIDE DEF WaitState, ControlFlag, Status, SystemFlag,
         QuitLabel, UnloadLabel, PoolLabel, MasterLabel, ClientLabel, Label

B == INSTANCE BarrierProof WITH Party <- Threads

(* What the barrier sees of a step.                                        *)
SyncStep == \/ NotifyAll
            \/ \E t \in Threads : \/ \E pred \in BOOLEAN : Arrive(t, pred) \/ Recheck(t, pred)
                                  \/ Block(t) \/ SpuriousWakeup(t)
            \/ UNCHANGED <<at, queued>>

LEMMA EnqueueSync ==
    ASSUME NEW t \in Threads, NEW pred \in BOOLEAN, NEW label, Enqueue(t, pred, label)
    PROVE  SyncStep
  BY DEF Enqueue, SyncStep

LEMMA NotifySync ==
    ASSUME NEW t, NEW label, Notify(t, label)
    PROVE  SyncStep
  BY DEF Notify, SyncStep

LEMMA PoolSync == (\E p \in Pools : Pool(p)) => SyncStep
<1> USE DEF syncVars
<1>1. ASSUME NEW p \in Pools, Attach(p) \/ PoolHead(p) \/ Pass(p) \/ PassDone(p, "finish")
      PROVE  SyncStep
  BY <1>1 DEF Attach, AttachParty, PoolHead, Pass, Skip, StartExecute, EndExecute, PassDone, SyncStep
<1>2. ASSUME NEW p \in Pools, PoolFinish(p) \/ PoolFinishWrite(p) \/ PoolSub(p) \/ PoolErase(p)
      PROVE  SyncStep
  BY <1>2 DEF PoolFinish, PoolFinishWrite, PoolSub, PoolErase, SyncStep
<1>3. ASSUME NEW p \in Pools, PoolWait(p) PROVE SyncStep
  <2>1. p \in Threads /\ (pflag[p] # "WAIT") \in BOOLEAN
    OBVIOUS
  <2> QED
    BY <1>3, <2>1, EnqueueSync, Zenon DEF PoolWait
<1> QED
  BY <1>1, <1>2, <1>3 DEF Pool

LEMMA ClientSync == Client /\ ~Unloading("client") => SyncStep
<1> USE DEF syncVars
<1>1. ASSUME LoadIntoPool \/ LoadNewPool \/ CountPool \/ PushFirst \/ Fork \/ Assign PROVE SyncStep
  BY <1>1 DEF LoadIntoPool, LoadNewPool, CountPool, PushFirst, Fork, Assign, SyncStep
<1>2. ASSUME FirstRun \/ Alarm \/ Join \/ SwapPause \/ StartSwap \/ EndSwap \/ Delete PROVE SyncStep
  BY <1>2 DEF FirstRun, Alarm, Send, Join, SwapPause, StartSwap, EndSwap, Delete, SyncStep
<1>3. ASSUME CommandNotify \/ SwapNotify PROVE SyncStep
  BY <1>3, NotifySync DEF CommandNotify, SwapNotify
<1>4. ASSUME WhileActive("client", "swapWait") PROVE SyncStep
  BY <1>4 DEF WhileActive, SyncStep
<1> QED
  BY <1>1, <1>2, <1>3, <1>4 DEF Client

LEMMA UnloadingSync == (\E c \in Callers : Unloading(c)) => SyncStep
<1> USE DEF syncVars
<1>1. ASSUME NEW c \in Callers,
             \/ UnloadNext(c) \/ AllUnloaded(c) \/ Unload(c) \/ StopPause(c) \/ Stop(c)
             \/ RemoveFromPool(c) \/ Free(c) \/ Resume(c) \/ PopUnloaded(c)
      PROVE  SyncStep
  BY <1>1 DEF UnloadNext, AllUnloaded, Unload, StopPause, Stop, RemoveFromPool, Free, Resume,
              PopUnloaded, SyncStep
<1>2. ASSUME NEW c \in Callers, StopNotify(c) \/ Restore(c) \/ ResumeNotify(c) PROVE SyncStep
  BY <1>2, NotifySync DEF StopNotify, Restore, ResumeNotify
<1>3. ASSUME NEW c \in Callers, WhileActive(c, "inactive") PROVE SyncStep
  BY <1>3 DEF WhileActive, SyncStep
<1> QED
  BY <1>1, <1>2, <1>3 DEF Unloading

LEMMA MasterSync == Master /\ ~Unloading("master") => SyncStep
<1> USE DEF syncVars
<1>1. ASSUME Startup \/ HandlerNotify \/ Launch PROVE SyncStep
  BY <1>1, NotifySync DEF Startup, HandlerNotify, Launch
<1>2. ASSUME MasterWait PROVE SyncStep
  <2>1. /\ "master" \in Threads /\ (activePools = 0) \in BOOLEAN /\ (flag # "PAUSE") \in BOOLEAN
    OBVIOUS
  <2> QED
    BY <1>2, <2>1, EnqueueSync, Zenon DEF MasterWait
<1>3. ASSUME Reset \/ MasterHead \/ DispatchIdle \/ DispatchRound \/ ContinueCheck \/ Arm PROVE SyncStep
  BY <1>3 DEF Reset, MasterHead, DispatchIdle, DispatchRound, ContinueCheck, Arm, SyncStep
<1>4. ASSUME NEW m \in unchecked, Check(m) \/ CheckDone(m) PROVE SyncStep
  BY <1>4 DEF Check, CheckDone, SyncStep
<1>5. ASSUME Pass("master") \/ PassDone("master", "step") \/ StepTest \/ StepWrite PROVE SyncStep
  BY <1>5 DEF Pass, Skip, StartExecute, EndExecute, PassDone, StepTest, StepWrite, SyncStep
<1>6. ASSUME MasterTail \/ MasterExit \/ Handler PROVE SyncStep
  BY <1>6 DEF MasterTail, MasterExit, Handler, SyncStep
<1> QED
  BY <1>1, <1>2, <1>3, <1>4, <1>5, <1>6 DEF Master

LEMMA SyncSteps == [Next]_vars => SyncStep
<1>1. ASSUME User PROVE SyncStep
  BY <1>1 DEF User, Command, Send, HotSwap, SyncStep, syncVars
<1>2. ASSUME NEW t \in Threads, Sleep(t) \/ Wakeup(t) PROVE SyncStep
  BY <1>2 DEF Sleep, Wakeup, SyncStep
<1>3. ASSUME vars' = vars PROVE SyncStep
  BY <1>3 DEF vars, syncVars, SyncStep
<1> QED
  BY <1>1, <1>2, <1>3, Steps, PoolSync, ClientSync, UnloadingSync, MasterSync DEF StepCase

(* The mutex and the counter through a step of the system.                 *)
LEMMA CountedInit == Init => B!BarrierShape /\ QueuedExact
<1> SUFFICES ASSUME Init PROVE B!BarrierShape /\ QueuedExact
  OBVIOUS
<1>1. B!BarrierShape /\ B!Inside = {} /\ queued = 0
  BY B!StartsEmpty DEF Init
<1> QED
  BY <1>1, FS_EmptySet DEF B!Inside, Inside, QueuedExact

(* Those inside are finitely many.                                         *)
LEMMA InsideFinite == IsFiniteSet(Threads) /\ IsFiniteSet(Inside) /\ Cardinality(Inside) \in Nat
<1>1. IsFiniteSet(Pools \union {"master"})
  BY ControlAssumption, FS_AddElement
<1> QED
  BY <1>1, FS_Subset, FS_CardinalityType DEF Inside

(* One thread comes in or goes out, or nobody does.                        *)
LEMMA CountedStep ==
    ASSUME B!BarrierShape, QueuedExact, [Next]_vars
    PROVE  /\ B!BarrierShape' /\ QueuedExact'
           /\ \/ Inside' = Inside /\ queued' = queued
              \/ \E t \in Threads : t \notin Inside /\ Inside' = Inside \union {t} /\ queued' = queued + 1
              \/ \E t \in Threads : t \in Inside /\ Inside' = Inside \ {t} /\ queued' = queued - 1
<1>1. B!BarrierStep
  BY SyncSteps DEF SyncStep, B!BarrierStep, B!Moves, B!NotifyAll, B!Arrive, B!Recheck, B!Block,
     B!SpuriousWakeup, B!Notified, B!MutexFree, NotifyAll, Arrive, Recheck, Block,
     SpuriousWakeup, Notified, MutexFree
<1>2. B!BarrierShape' /\ B!Together
  BY <1>1, B!StepTogether
<1>3. Inside = B!Inside /\ Inside' = B!Inside'
  BY DEF Inside, B!Inside
<1>4. \/ Inside' = Inside /\ queued' = queued
      \/ \E t \in Threads : t \notin Inside /\ Inside' = Inside \union {t} /\ queued' = queued + 1
      \/ \E t \in Threads : t \in Inside /\ Inside' = Inside \ {t} /\ queued' = queued - 1
  BY <1>2, <1>3 DEF B!Together
<1>5. queued' = Cardinality(Inside')
  BY <1>4, InsideFinite, FS_AddElement, FS_RemoveElement DEF QueuedExact
<1> QED
  BY <1>2, <1>4, <1>5 DEF QueuedExact

(* The number of the threads inside enqueue() is never off (barrier.cc:46, *)
(* 49), for any number of pools and whatever commands arrive: the last     *)
(* party to arrive is recognised as the last.                              *)
THEOREM ThreadsCounted == Spec => []QueuedExact
<1>1. (B!BarrierShape /\ QueuedExact) /\ [Next]_vars => (B!BarrierShape /\ QueuedExact)'
  BY CountedStep
<1> QED
  BY <1>1, CountedInit, PTL DEF Spec

------------------------------------------------------------------------------
(* A module is in the vector of its pool, and of no other.                 *)
OwnModules == \A t \in Threads :
    /\ \A i \in DOMAIN pmods[t] : PoolName[pmods[t][i]] = t
    /\ \A i \in DOMAIN iter[t] : PoolName[iter[t][i]] = t

(* What the module returned last needs no attention any more.              *)
Heeded(m) == status[m] # "DONE" /\ (status[m] = "SHUTDOWN" => shutdownRequested)

RunHeeded == \A m \in Modules : mflag[m] = "RUN" => Heeded(m)
ExecRun == \A t \in Threads : pc[t] = "exec" => mflag[Head(iter[t])] = "RUN"
IdleUnborn == pc["master"] = "unborn" => \A m \in Modules : mflag[m] # "RUN"

StatusInv == OwnModules /\ RunHeeded /\ ExecRun /\ IdleUnborn

(* The first of a pass is a module of the pool.                            *)
LEMMA OwnHead ==
    ASSUME TypePools, OwnModules, NEW t \in Threads, iter[t] # <<>>
    PROVE  /\ Head(iter[t]) \in Modules /\ PoolName[Head(iter[t])] = t
           /\ Tail(iter[t]) \in Seq(Modules)
           /\ \A i \in DOMAIN Tail(iter[t]) : PoolName[Tail(iter[t])[i]] = t
  BY DEF TypePools, OwnModules

(* No vector, no flag, no status changes, and nobody begins to execute.    *)
Quietly ==
    /\ UNCHANGED <<pmods, iter, mflag, status>>
    /\ shutdownRequested => shutdownRequested'
    /\ \A t \in Threads : pc'[t] \in {"exec", "unborn"} => pc'[t] = pc[t]

LEMMA QuietlyKeeps == ASSUME StatusInv, Quietly PROVE StatusInv'
<1>1. OwnModules'
  BY DEF StatusInv, Quietly, OwnModules
<1>2. \A m : Heeded(m) => Heeded(m)'
  BY Zenon DEF Quietly, Heeded
<1>3. RunHeeded' /\ ExecRun' /\ IdleUnborn'
  BY <1>2 DEF StatusInv, Quietly, RunHeeded, ExecRun, IdleUnborn, Threads
<1> QED
  BY <1>1, <1>3 DEF StatusInv

(* Only the loop over the modules sets shutdownRequested (control.cc:94-98,*)
(* 221-228), it never resets it.                                           *)
RequestKept == shutdownRequested' = shutdownRequested

(* A pass of a thread over its modules.                                    *)
LEMMA PassStatus ==
    ASSUME TypeInv, StatusInv, NEW t \in Threads, Pass(t)
    PROVE  StatusInv'
<1> USE DEF TypeInv, TypePc, StatusInv
<1>1. ASSUME UNCHANGED <<pmods, mflag, status, shutdownRequested>>,
             iter' = [iter EXCEPT ![t] = Tail(@)], iter[t] # <<>>,
             \A u \in Threads : pc'[u] = pc[u]
      PROVE  pc[t] # "exec" => StatusInv'
  <2>1. iter \in [Threads -> Seq(Modules)]
    BY DEF TypePools
  <2>2. /\ \A u \in Threads \ {t} : iter'[u] = iter[u]
        /\ iter'[t] = Tail(iter[t])
    BY <1>1, <2>1
  <2>3. OwnModules'
    BY <1>1, <2>2, OwnHead DEF OwnModules
  <2>4. \A m : Heeded(m) => Heeded(m)'
    BY <1>1, Zenon DEF Heeded
  <2>5. RunHeeded'
    BY <1>1, <2>4 DEF RunHeeded
  <2>6. pc[t] # "exec" => ExecRun'
    BY <1>1, <2>2 DEF ExecRun
  <2>7. IdleUnborn'
    BY <1>1 DEF IdleUnborn, Threads
  <2> QED
    BY <2>3, <2>5, <2>6, <2>7
<1>2. ASSUME Skip(t) PROVE StatusInv'
  BY <1>1, <1>2 DEF Skip, moduleVars, roundVars
<1>3. ASSUME StartExecute(t) PROVE StatusInv'
  <2>1. /\ UNCHANGED <<pmods, iter, mflag, status>> /\ RequestKept
        /\ iter[t] # <<>> /\ mflag[Head(iter[t])] = "RUN" /\ pc' = [pc EXCEPT ![t] = "exec"]
    BY <1>3, Zenon DEF StartExecute, poolVars, moduleVars, roundVars, RequestKept
  <2>2. \A m : Heeded(m) => Heeded(m)'
    BY <2>1, Zenon DEF Heeded, RequestKept
  <2>3. OwnModules' /\ RunHeeded'
    BY <2>1, <2>2 DEF OwnModules, RunHeeded
  <2>4. ExecRun' /\ IdleUnborn'
    BY <2>1 DEF ExecRun, IdleUnborn, Threads
  <2> QED
    BY <2>3, <2>4
<1>4. ASSUME EndExecute(t) PROVE StatusInv'
  <2> DEFINE m == Head(iter[t])
  <2>1. iter[t] # <<>> /\ pc[t] = "exec"
    BY <1>4 DEF EndExecute, TypePools
  <2>2. m \in Modules /\ PoolName[m] = t
    BY <2>1, OwnHead
  <2>3. /\ \E s : status' = [status EXCEPT ![m] = s]
        /\ mflag' = [mflag EXCEPT ![m] = "WAIT"]
        /\ iter' = [iter EXCEPT ![t] = Tail(@)] /\ pc' = [pc EXCEPT ![t] = "run"]
        /\ pmods' = pmods
    BY <1>4 DEF EndExecute
  <2>4. RequestKept
    BY <1>4, Zenon DEF EndExecute, roundVars, RequestKept
  <2>5. mflag'[m] = "WAIT" /\ \A n \in Modules \ {m} : mflag'[n] = mflag[n] /\ status'[n] = status[n]
    BY <2>2, <2>3 DEF TypeModules
  <2>6. \A n \in Modules \ {m} : Heeded(n) => Heeded(n)'
    BY <2>4, <2>5, Zenon DEF Heeded, RequestKept
  <2>7. RunHeeded'
    BY <2>5, <2>6 DEF RunHeeded
  <2>8. iter'[t] = Tail(iter[t]) /\ \A u \in Threads \ {t} : iter'[u] = iter[u] /\ pc'[u] = pc[u]
    BY <2>3 DEF TypePools
  <2>9. OwnModules'
    BY <2>1, <2>3, <2>8, OwnHead DEF OwnModules
  <2>10. ExecRun'
    <3>1. pc'[t] = "run"
      BY <2>3
    <3>2. ASSUME NEW u \in Threads \ {t}, pc[u] = "exec" PROVE mflag'[Head(iter[u])] = "RUN"
      <4>1. iter[u] # <<>> /\ mflag[Head(iter[u])] = "RUN"
        BY <3>2 DEF TypePools, ExecRun
      <4>2. Head(iter[u]) \in Modules \ {m}
        BY <2>2, <4>1, OwnHead
      <4> QED
        BY <2>5, <4>1, <4>2
    <3> QED
      BY <2>8, <3>1, <3>2 DEF ExecRun
  <2>11. IdleUnborn'
    BY <2>3, <2>5 DEF IdleUnborn, Threads
  <2> QED
    BY <2>7, <2>9, <2>10, <2>11
<1> QED
  BY <1>2, <1>3, <1>4 DEF Pass

(* Vectors and passes change, statuses do not.                             *)
LEMMA VectorsKeep ==
    ASSUME StatusInv, OwnModules', UNCHANGED <<mflag, status>>, RequestKept,
           \A t \in Threads : pc'[t] \in {"exec", "unborn"} => pc'[t] = pc[t] /\ iter'[t] = iter[t]
    PROVE  StatusInv'
<1>1. \A m : Heeded(m) => Heeded(m)'
  BY Zenon DEF Heeded, RequestKept
<1> QED
  BY <1>1 DEF StatusInv, RunHeeded, ExecRun, IdleUnborn, Threads

(* A pass begins with the modules of the pool (control.cc:238).            *)
LEMMA PassBegins ==
    ASSUME TypeInv, OwnModules, NEW t \in Threads, iter' = [iter EXCEPT ![t] = pmods[t]],
           pmods' = pmods
    PROVE  OwnModules'
  BY DEF TypeInv, TypePools, OwnModules

LEMMA PoolStatus == TypeInv /\ StatusInv /\ (\E p \in Pools : Pool(p)) => StatusInv'
<1> SUFFICES ASSUME TypeInv, StatusInv, NEW p \in Pools, Pool(p) PROVE StatusInv'
  OBVIOUS
<1> USE DEF TypeInv, TypePc, syncVars, poolVars, moduleVars, roundVars
<1>1. ASSUME PoolHead(p) PROVE StatusInv'
  <2>1. UNCHANGED <<pmods, mflag, status>> /\ RequestKept
    BY <1>1, Zenon DEF PoolHead, RequestKept
  <2>2. iter' = iter \/ iter' = [iter EXCEPT ![p] = pmods[p]]
    BY <1>1, HeadStep, Zenon
  <2>3. OwnModules'
    BY <2>1, <2>2, PassBegins DEF StatusInv, OwnModules
  <2>4. \A t \in Threads : pc'[t] \in {"exec", "unborn"} => pc'[t] = pc[t] /\ iter'[t] = iter[t]
    <3>1. pc[p] = "head" /\ \E label \in {"run", "erase"} : pc' = [pc EXCEPT ![p] = label]
      BY <1>1, HeadStep, Zenon
    <3>2. iter \in [Threads -> Seq(Modules)]
      BY DEF TypePools
    <3> QED
      BY <2>2, <3>1, <3>2
  <2> QED
    BY <2>1, <2>3, <2>4, VectorsKeep
<1>2. ASSUME Quietly PROVE StatusInv'
  BY <1>2, QuietlyKeeps
<1>3. ASSUME NEW label \in Label \ {"exec", "unborn"},
             pc' = [pc EXCEPT ![p] = label] \/ pc' = pc
      PROVE  \A t \in Threads : pc'[t] \in {"exec", "unborn"} => pc'[t] = pc[t]
  BY <1>3
<1>4. ASSUME Attach(p) \/ PassDone(p, "finish") \/ PoolFinish(p) \/ PoolFinishWrite(p)
             \/ PoolSub(p) \/ PoolWait(p) \/ PoolErase(p)
      PROVE  Quietly
  <2>1. \E label \in Label \ {"exec", "unborn"} : pc' = [pc EXCEPT ![p] = label] \/ pc' = pc
    BY <1>4 DEF Attach, PassDone, PoolFinish, PoolFinishWrite, PoolSub, PoolWait, Enqueue, PoolErase,
                Label, PoolLabel
  <2>2. UNCHANGED <<pmods, iter, mflag, status>>
    BY <1>4 DEF Attach, PassDone, PoolFinish, PoolFinishWrite, PoolSub, PoolWait, PoolErase
  <2>3. RequestKept
    BY <1>4, Zenon DEF Attach, PassDone, PoolFinish, PoolFinishWrite, PoolSub, PoolWait, PoolErase,
                       RequestKept
  <2>4. \A t \in Threads : pc'[t] \in {"exec", "unborn"} => pc'[t] = pc[t]
    BY <1>3, <2>1
  <2> QED
    BY <2>2, <2>3, <2>4, Zenon DEF Quietly, RequestKept
<1> QED
  BY <1>1, <1>2, <1>4, PassStatus DEF Pool

(* Loading a module resets its status and its flag, and puts it into the   *)
(* vector of its pool (control.cc:170-187, bvs.cc:89-136).                 *)
LEMMA RegisterKeeps ==
    ASSUME TypeModules, TypePools, OwnModules, RunHeeded, ExecRun, IdleUnborn,
           pc["master"] = "unborn", NEW m \in Modules, Register(m), RequestKept,
           \A t \in Threads : pc'[t] \in {"exec", "unborn"} => pc'[t] = pc[t]
    PROVE  RunHeeded' /\ ExecRun' /\ IdleUnborn'
<1>1. mflag' = [mflag EXCEPT ![m] = "WAIT"] /\ \A n \in Modules : mflag'[n] # "RUN"
  BY DEF Register, TypeModules, IdleUnborn
<1>2. \A t \in Threads : pc[t] # "exec"
  <2> SUFFICES ASSUME NEW t \in Threads, pc[t] = "exec" PROVE FALSE
    OBVIOUS
  <2>1. Head(iter[t]) \in Modules /\ mflag[Head(iter[t])] = "RUN"
    BY OwnHead DEF TypePools, ExecRun
  <2> QED
    BY <2>1 DEF IdleUnborn
<1>3. \A t \in Threads : pc'[t] # "exec"
  BY <1>2
<1> QED
  BY <1>1, <1>3 DEF RunHeeded, ExecRun, IdleUnborn

LEMMA PushOwn ==
    ASSUME TypePools, OwnModules, NEW m \in Modules, PoolName[m] \in Threads, Push(m), iter' = iter
    PROVE  OwnModules'
<1> DEFINE p == PoolName[m]
<1>1. pmods' = [pmods EXCEPT ![p] = Append(pmods[p], m)] /\ pmods[p] \in Seq(Modules)
  BY DEF Push, TypePools
<1>2. \A i \in DOMAIN Append(pmods[p], m) : PoolName[Append(pmods[p], m)[i]] = p
  BY <1>1 DEF OwnModules
<1> QED
  BY <1>1, <1>2 DEF OwnModules, TypePools

LEMMA ClientStatus == TypeInv /\ StatusInv /\ Client /\ ~Unloading("client") => StatusInv'
<1> SUFFICES ASSUME TypeInv, StatusInv, Client, ~Unloading("client") PROVE StatusInv'
  OBVIOUS
<1> USE DEF TypeInv, TypePc, syncVars, poolVars, moduleVars, roundVars
<1> DEFINE m == Head(todo)
<1>1. todo # <<>> => m \in Modules /\ PoolName[m] \in Threads
  BY ConstType DEF TypeStack
<1>2. ASSUME LoadIntoPool PROVE StatusInv'
  <2>1. /\ todo # <<>> /\ Register(m) /\ Push(m) /\ UNCHANGED <<pc, iter>>
        /\ pc["master"] = "unborn"
    BY <1>2 DEF LoadIntoPool, LoadFirst
  <2>2. RequestKept
    BY <1>2, Zenon DEF LoadIntoPool, RequestKept
  <2> HIDE DEF m
  <2> QED
    BY <1>1, <2>1, <2>2, RegisterKeeps, PushOwn DEF StatusInv
<1>3. ASSUME LoadNewPool PROVE StatusInv'
  <2> DEFINE p == PoolName[m]
  <2>1. /\ todo # <<>> /\ Register(m) /\ iter' = iter
        /\ pmods' = [pmods EXCEPT ![p] = <<>>]
        /\ pc' = [pc EXCEPT !["client"] = "count", ![p] = "attach"]
        /\ pc["master"] = "unborn"
    BY <1>3 DEF LoadNewPool, LoadFirst
  <2>2. RequestKept
    BY <1>3, Zenon DEF LoadNewPool, RequestKept
  <2>3. p \in Threads /\ m \in Modules
    BY <1>1, <2>1
  <2> HIDE DEF m, p
  <2>4. \A t \in Threads : pc'[t] \in {"exec", "unborn"} => pc'[t] = pc[t]
    BY <2>1, <2>3
  <2>5. OwnModules'
    BY <2>1, <2>3 DEF StatusInv, OwnModules, TypePools
  <2> QED
    BY <2>1, <2>2, <2>3, <2>4, <2>5, RegisterKeeps DEF StatusInv
<1>4. ASSUME PushFirst PROVE StatusInv'
  <2>1. todo # <<>> /\ Push(m) /\ iter' = iter /\ UNCHANGED <<mflag, status>>
        /\ pc' = [pc EXCEPT !["client"] = "load"]
    BY <1>4 DEF PushFirst, TypeStack
  <2>2. RequestKept
    BY <1>4, Zenon DEF PushFirst, RequestKept
  <2> HIDE DEF m
  <2>3. OwnModules'
    BY <1>1, <2>1, PushOwn DEF StatusInv
  <2>4. \A t \in Threads : pc'[t] \in {"exec", "unborn"} => pc'[t] = pc[t] /\ iter'[t] = iter[t]
    BY <2>1
  <2> QED
    BY <2>1, <2>2, <2>3, <2>4, VectorsKeep
<1>5. ASSUME RequestKept, UNCHANGED <<pmods, iter, mflag, status>>,
             \A t \in Threads : pc'[t] \in {"exec", "unborn"} => pc'[t] = pc[t]
      PROVE  StatusInv'
  <2>1. Quietly
    BY <1>5, Zenon DEF Quietly, RequestKept
  <2> QED
    BY <2>1, QuietlyKeeps
<1>6. ASSUME \/ CountPool \/ Fork \/ Assign \/ FirstRun \/ CommandNotify \/ Alarm \/ Join
             \/ WhileActive("client", "swapWait")
      PROVE  StatusInv'
  <2>1. RequestKept
    BY <1>6, Zenon DEF CountPool, Fork, Assign, FirstRun, CommandNotify, Alarm, Send, Join,
                       WhileActive, RequestKept
  <2>2. UNCHANGED <<pmods, iter, mflag, status>>
    BY <1>6 DEF CountPool, Fork, Assign, FirstRun, CommandNotify, Alarm, Send, Join, WhileActive
  <2>3. \A t \in Threads : pc'[t] \in {"exec", "unborn"} => pc'[t] = pc[t]
    BY <1>6 DEF CountPool, Fork, Assign, FirstRun, CommandNotify, Notify, Alarm, Send, Join, WhileActive
  <2> QED
    BY <1>5, <2>1, <2>2, <2>3
<1>7. ASSUME SwapPause \/ SwapNotify \/ StartSwap \/ EndSwap \/ Delete PROVE StatusInv'
  <2>1. RequestKept
    BY <1>7, Zenon DEF SwapPause, SwapNotify, StartSwap, EndSwap, Delete, RequestKept
  <2>2. UNCHANGED <<pmods, iter, mflag, status>>
    BY <1>7 DEF SwapPause, SwapNotify, StartSwap, EndSwap, Delete
  <2>3. \A t \in Threads : pc'[t] \in {"exec", "unborn"} => pc'[t] = pc[t]
    BY <1>7 DEF SwapPause, SwapNotify, Notify, StartSwap, EndSwap, Delete
  <2> QED
    BY <1>5, <2>1, <2>2, <2>3
<1> QED
  BY <1>2, <1>3, <1>4, <1>6, <1>7 DEF Client

(* Erasing a module from a vector leaves modules of the same pool          *)
(* (control.cc:197).                                                       *)
LEMMA RemoveOwn ==
    ASSUME NEW s \in Seq(Modules), NEW i \in 1 .. Len(s), NEW t,
           \A j \in DOMAIN s : PoolName[s[j]] = t
    PROVE  \A j \in DOMAIN RemoveAt(s, i) : PoolName[RemoveAt(s, i)[j]] = t
<1> DEFINE S == {m \in Modules : PoolName[m] = t}
<1>1. s \in Seq(S)
  OBVIOUS
<1> HIDE DEF S
<1>2. RemoveAt(s, i) \in Seq(S)
  BY <1>1, RemoveAtType
<1> DEFINE r == RemoveAt(s, i)
<1>3. \A j \in DOMAIN r : r[j] \in S
  BY <1>2
<1> QED
  BY <1>3 DEF S

LEMMA UnloadingStatus == TypeInv /\ StatusInv /\ (\E c \in Callers : Unloading(c)) => StatusInv'
<1> SUFFICES ASSUME TypeInv, StatusInv, NEW c \in Callers, Unloading(c) PROVE StatusInv'
  OBVIOUS
<1> USE DEF TypeInv, TypePc, syncVars, poolVars, moduleVars, roundVars
<1>1. ASSUME RequestKept, UNCHANGED <<pmods, iter, mflag, status>>,
             \A t \in Threads : pc'[t] \in {"exec", "unborn"} => pc'[t] = pc[t]
      PROVE  StatusInv'
  <2>1. Quietly
    BY <1>1, Zenon DEF Quietly, RequestKept
  <2> QED
    BY <2>1, QuietlyKeeps
<1>2. ASSUME \/ UnloadNext(c) \/ AllUnloaded(c) \/ Unload(c) \/ StopPause(c) \/ StopNotify(c)
             \/ Stop(c) \/ WhileActive(c, "inactive")
      PROVE  StatusInv'
  <2>1. RequestKept
    BY <1>2, Zenon DEF UnloadNext, AllUnloaded, Unload, StopPause, StopNotify, Stop, WhileActive,
                       RequestKept
  <2>2. UNCHANGED <<pmods, iter, mflag, status>>
    BY <1>2 DEF UnloadNext, AllUnloaded, Unload, StopPause, StopNotify, Stop, WhileActive
  <2>3. \A t \in Threads : pc'[t] \in {"exec", "unborn"} => pc'[t] = pc[t]
    BY <1>2 DEF UnloadNext, AllUnloaded, Unload, StopPause, StopNotify, Notify, Stop, WhileActive
  <2> QED
    BY <1>1, <2>1, <2>2, <2>3
<1>3. ASSUME Restore(c) \/ Free(c) \/ Resume(c) \/ ResumeNotify(c) \/ PopUnloaded(c)
      PROVE  StatusInv'
  <2>1. RequestKept
    BY <1>3, Zenon DEF Restore, Free, Resume, ResumeNotify, PopUnloaded, RequestKept
  <2>2. UNCHANGED <<pmods, iter, mflag, status>>
    BY <1>3 DEF Restore, Free, Resume, ResumeNotify, PopUnloaded
  <2>3. \A t \in Threads : pc'[t] \in {"exec", "unborn"} => pc'[t] = pc[t]
    BY <1>3 DEF Restore, Free, Resume, ResumeNotify, Notify, PopUnloaded
  <2> QED
    BY <1>1, <2>1, <2>2, <2>3
<1>4. ASSUME RemoveFromPool(c) PROVE StatusInv'
  <2> DEFINE p == PoolName[target[c]]
  <2>1. p \in Threads /\ pmods[p] \in Seq(Modules)
    BY <1>4, ConstType DEF RemoveFromPool, OnceInactive, TypeCalls, TypePools, UnloadLabel
  <2>2. /\ \/ pmods' = pmods
           \/ \E i \in 1 .. Len(pmods[p]) : pmods' = [pmods EXCEPT ![p] = RemoveAt(pmods[p], i)]
        /\ UNCHANGED <<iter, mflag, status>> /\ pc' = [pc EXCEPT ![c] = "restore"]
    BY <1>4 DEF RemoveFromPool
  <2>3. RequestKept
    BY <1>4, Zenon DEF RemoveFromPool, RequestKept
  <2> HIDE DEF p
  <2>4. OwnModules'
    <3>1. CASE pmods' = pmods
      BY <2>2, <3>1 DEF StatusInv, OwnModules
    <3>2. ASSUME NEW i \in 1 .. Len(pmods[p]), pmods' = [pmods EXCEPT ![p] = RemoveAt(pmods[p], i)]
          PROVE  OwnModules'
      <4> DEFINE s == RemoveAt(pmods[p], i)
      <4>1. \A j \in DOMAIN s : PoolName[s[j]] = p
        BY <2>1, <3>2, RemoveOwn DEF StatusInv, OwnModules
      <4>2. pmods' = [pmods EXCEPT ![p] = s] /\ pmods \in [Threads -> Seq(Modules)]
        BY <3>2 DEF TypePools
      <4> HIDE DEF s
      <4> QED
        BY <2>2, <4>1, <4>2 DEF StatusInv, OwnModules
    <3> QED
      BY <2>2, <3>1, <3>2
  <2>5. \A t \in Threads : pc'[t] \in {"exec", "unborn"} => pc'[t] = pc[t] /\ iter'[t] = iter[t]
    BY <2>2
  <2> QED
    BY <2>2, <2>3, <2>4, <2>5, VectorsKeep
<1> QED
  BY <1>2, <1>3, <1>4 DEF Unloading

LEMMA MasterStatus == TypeInv /\ StatusInv /\ Master /\ ~Unloading("master") => StatusInv'
<1> SUFFICES ASSUME TypeInv, StatusInv, Master, ~Unloading("master") PROVE StatusInv'
  OBVIOUS
<1> USE DEF TypeInv, TypePc, syncVars, poolVars, moduleVars, roundVars
<1>1. ASSUME RequestKept, UNCHANGED <<pmods, iter, mflag, status>>,
             \A t \in Threads : pc'[t] \in {"exec", "unborn"} => pc'[t] = pc[t]
      PROVE  StatusInv'
  <2>1. Quietly
    BY <1>1, Zenon DEF Quietly, RequestKept
  <2> QED
    BY <2>1, QuietlyKeeps
<1>2. ASSUME Startup \/ MasterWait \/ Reset \/ MasterHead \/ DispatchIdle \/ DispatchRound
             \/ ContinueCheck \/ Arm
      PROVE  StatusInv'
  <2>1. RequestKept
    BY <1>2, Zenon DEF Startup, MasterWait, Reset, MasterHead, DispatchIdle, DispatchRound,
                       ContinueCheck, Arm, RequestKept
  <2>2. UNCHANGED <<pmods, iter, mflag, status>>
    BY <1>2 DEF Startup, MasterWait, Reset, MasterHead, DispatchIdle, DispatchRound, ContinueCheck, Arm
  <2>3. \A t \in Threads : pc'[t] \in {"exec", "unborn"} => pc'[t] = pc[t]
    BY <1>2 DEF Startup, Notify, MasterWait, Enqueue, Reset, MasterHead, DispatchIdle, DispatchRound,
                ContinueCheck, Arm
  <2> QED
    BY <1>1, <2>1, <2>2, <2>3
<1>3. ASSUME PassDone("master", "step") \/ StepTest \/ StepWrite \/ MasterTail \/ MasterExit
             \/ Handler \/ HandlerNotify
      PROVE  StatusInv'
  <2>1. RequestKept
    BY <1>3, Zenon DEF PassDone, StepTest, StepWrite, MasterTail, MasterExit, Handler, HandlerNotify,
                       RequestKept
  <2>2. UNCHANGED <<pmods, iter, mflag, status>>
    BY <1>3 DEF PassDone, StepTest, StepWrite, MasterTail, MasterExit, Handler, HandlerNotify
  <2>3. \A t \in Threads : pc'[t] \in {"exec", "unborn"} => pc'[t] = pc[t]
    BY <1>3 DEF PassDone, StepTest, StepWrite, MasterTail, MasterExit, Handler, HandlerNotify, Notify
  <2> QED
    BY <1>1, <2>1, <2>2, <2>3
<1>4. ASSUME NEW m \in unchecked, CheckDone(m) PROVE StatusInv'
  <2>1. RequestKept
    BY <1>4, Zenon DEF CheckDone, RequestKept
  <2>2. UNCHANGED <<pmods, iter, mflag, status>> /\ pc' = [pc EXCEPT !["master"] = "unload"]
    BY <1>4 DEF CheckDone
  <2> QED
    BY <1>1, <2>1, <2>2
<1>5. ASSUME NEW m \in unchecked, Check(m) PROVE StatusInv'
  <2>1. /\ status[m] # "DONE" /\ mflag' = [mflag EXCEPT ![m] = "RUN"]
        /\ UNCHANGED <<pmods, iter, status, pc>> /\ pc["master"] = "check"
    BY <1>5 DEF Check
  <2>2. /\ status[m] = "SHUTDOWN" => shutdownRequested'
        /\ shutdownRequested => shutdownRequested'
    BY <1>5, Zenon DEF Check
  <2>3. Heeded(m)' /\ \A n : Heeded(n) => Heeded(n)'
    BY <2>1, <2>2, Zenon DEF Heeded
  <2>4. \A n \in Modules : n # m => mflag'[n] = mflag[n]
    BY <2>1 DEF TypeModules
  <2>5. OwnModules'
    BY <2>1 DEF StatusInv, OwnModules
  <2> QED
    BY <2>1, <2>3, <2>4, <2>5 DEF StatusInv, RunHeeded, ExecRun, IdleUnborn
<1>6. ASSUME Launch PROVE StatusInv'
  <2>1. /\ UNCHANGED <<pmods, mflag, status>> /\ iter' = [iter EXCEPT !["master"] = pmods["master"]]
        /\ pc["master"] = "launch" /\ pc' = [pc EXCEPT !["master"] = "run"]
    BY <1>6 DEF Launch, Notify
  <2>2. RequestKept
    BY <1>6, Zenon DEF Launch, RequestKept
  <2>3. OwnModules'
    BY <2>1, PassBegins DEF StatusInv
  <2>4. \A t \in Threads : pc'[t] \in {"exec", "unborn"} => pc'[t] = pc[t] /\ iter'[t] = iter[t]
    BY <2>1 DEF TypePools
  <2> QED
    BY <2>1, <2>2, <2>3, <2>4, VectorsKeep
<1> QED
  BY <1>2, <1>3, <1>4, <1>5, <1>6, PassStatus DEF Master

LEMMA StatusSteps == TypeInv /\ StatusInv /\ [Next]_vars => StatusInv'
<1> SUFFICES ASSUME TypeInv, StatusInv, [Next]_vars PROVE StatusInv'
  OBVIOUS
<1>1. ASSUME UNCHANGED <<pc, pmods, iter, mflag, status>>, RequestKept PROVE StatusInv'
  <2>1. Quietly
    BY <1>1, Zenon DEF Quietly, RequestKept
  <2> QED
    BY <2>1, QuietlyKeeps
<1>2. ASSUME User PROVE StatusInv'
  <2>1. UNCHANGED <<pmods, iter, mflag, status>> /\ \E label \in {"notify", "swapPause"} : pc' = [pc EXCEPT !["client"] = label]
    BY <1>2 DEF User, Command, Send, HotSwap, poolVars, moduleVars
  <2>2. RequestKept
    BY <1>2, Zenon DEF User, Command, Send, HotSwap, roundVars, RequestKept
  <2>3. \A t \in Threads : pc'[t] \in {"exec", "unborn"} => pc'[t] = pc[t]
    BY <2>1 DEF TypeInv, TypePc
  <2>4. Quietly
    BY <2>1, <2>2, <2>3, Zenon DEF Quietly, RequestKept
  <2> QED
    BY <2>4, QuietlyKeeps
<1>3. ASSUME NEW t \in Threads, Sleep(t) \/ Wakeup(t) PROVE StatusInv'
  <2>1. UNCHANGED <<pc, pmods, iter, mflag, status>>
    BY <1>3 DEF Sleep, Wakeup, poolVars, moduleVars
  <2>2. RequestKept
    BY <1>3, Zenon DEF Sleep, Wakeup, roundVars, RequestKept
  <2> QED
    BY <1>1, <2>1, <2>2
<1>4. ASSUME vars' = vars PROVE StatusInv'
  <2>1. UNCHANGED <<pc, pmods, iter, mflag, status>>
    BY <1>4 DEF vars, poolVars, moduleVars
  <2>2. RequestKept
    BY <1>4, Zenon DEF vars, roundVars, RequestKept
  <2> QED
    BY <1>1, <2>1, <2>2
<1> QED
  BY <1>2, <1>3, <1>4, Steps, PoolStatus, ClientStatus, UnloadingStatus, MasterStatus DEF StepCase

(* No module has returned anything, and nobody executes.                   *)
LEMMA StatusInit == Init => StatusInv
  BY ConstType DEF Init, StatusInv, OwnModules, RunHeeded, ExecRun, IdleUnborn

(* What a module has returned is acted upon before it executes again       *)
(* (control.cc:94-98, module.h:22-25), for any pools, modules and commands *)
(* and whatever the modules return: a DONE module never executes again, a  *)
(* SHUTDOWN request is never lost.                                         *)
THEOREM StatusesHeeded == Spec => []StatusHeeded
<1>1. Init => TypeInv /\ StatusInv
  BY TypesInit, StatusInit
<1>2. Spec => []TypeInv
  <2>1. (TypeInv /\ TypeBool) /\ [Next]_vars => (TypeInv /\ TypeBool)'
    BY TypesStep
  <2> QED
    BY <2>1, TypesInit, PTL DEF Spec
<1>3. TypeInv /\ StatusInv => StatusHeeded
  BY OwnHead DEF TypeInv, TypePools, StatusInv, RunHeeded, ExecRun, Heeded, StatusHeeded
<1> QED
  BY <1>1, <1>2, <1>3, StatusSteps, PTL DEF Spec

------------------------------------------------------------------------------
USE DEF WaitState, ControlFlag, Status, SystemFlag,
        QuitLabel, UnloadLabel, PoolLabel, MasterLabel, ClientLabel, Label

Phases == /\ HandlerQuits /\ DOMAIN quitting = Callers
          /\ Registered /\ Quiet /\ SubLowered /\ NoQuitYet /\ SavedIdle

------------------------------------------------------------------------------
(* The pools that owe a subtraction are finitely many.                     *)
LEMMA OwingFinite == IsFiniteSet(Owing) /\ Cardinality(Owing) \in Nat
  BY ControlAssumption, FS_Subset, FS_CardinalityType DEF Owing

(* The two comparisons the counting comes down to.                         *)
LEMMA Sums == \A x, y, z \in Int : x >= y /\ y >= z => x >= z
  OBVIOUS

LEMMA LessOne == \A x, y, z, u, v \in Int :
                     x + y >= z /\ u + v >= x + y - 1 => u + v >= z - 1
  OBVIOUS

(* A step that keeps the count: nobody comes to owe, activePools and the   *)
(* pending additions stay as they are; or the master is leaving, and the   *)
(* count no longer matters.                                                *)
CountKept ==
    \/ Closing'
    \/ /\ ~Closing
       /\ Owing' \subseteq Owing
       /\ activePools' = activePools
       /\ pools' = pools
       /\ pc'["client"] = "count" <=> pc["client"] = "count"
       /\ pc'["master"] = "launch" <=> pc["master"] = "launch"

(* What Launch adds, fetch_add(pools.size()-1), is the number of the named *)
(* pools (control.cc:100).                                                 *)
LEMMA PendingType == TypePools => /\ Pending \in Int
                                  /\ IsFiniteSet(pools \ {"master"})
                                  /\ Cardinality(pools \ {"master"}) \in Nat
                                  /\ Cardinality(pools \ {"master"}) = Cardinality(pools) - 1
<1>1. ASSUME TypePools
      PROVE  /\ IsFiniteSet(pools \ {"master"})
             /\ Cardinality(pools \ {"master"}) \in Nat
             /\ Cardinality(pools \ {"master"}) = Cardinality(pools) - 1
  <2>1. "master" \in pools
    BY <1>1 DEF TypePools
  <2> QED
    BY <1>1, <2>1, PoolsFinite, FS_RemoveElement, FS_CardinalityType
<1>2. ASSUME TypePools PROVE Pending \in Int
  BY <1>1, <1>2 DEF Pending
<1> QED
  BY <1>1, <1>2

(* Such a step preserves CountCovers.                                      *)
LEMMA CountFrame ==
    TypeInv /\ TypeInv' /\ CountCovers /\ CountKept => CountCovers'
<1> SUFFICES ASSUME TypeInv, TypeInv', CountCovers, CountKept, ~Closing'
             PROVE  activePools' + Pending' >= Cardinality(Owing')
  BY DEF CountCovers
<1>1. ~Closing /\ Owing' \subseteq Owing /\ activePools' = activePools
  BY DEF CountKept
<1>2. Pending' = Pending
  BY DEF CountKept, Pending
<1>3. activePools + Pending >= Cardinality(Owing)
  BY <1>1 DEF CountCovers
<1>4. Cardinality(Owing') \in Nat /\ Cardinality(Owing') <= Cardinality(Owing)
  BY <1>1, OwingFinite, FS_Subset, FS_CardinalityType
<1>5. activePools \in Int /\ Pending \in Int
  BY PendingType DEF TypeInv, TypePools
<1>6. activePools + Pending \in Int /\ Cardinality(Owing) \in Int /\ Cardinality(Owing') \in Int
  BY <1>4, <1>5, OwingFinite
<1>7. activePools + Pending >= Cardinality(Owing')
  BY <1>3, <1>4, <1>6, Sums
<1> QED
  BY <1>1, <1>2, <1>7

------------------------------------------------------------------------------
(* The phases, thread by thread.                                           *)
(* The steps of a pool thread (poolController, moduleController).          *)
LEMMA PoolPhases ==
    TypeInv /\ TypeInv' /\ Phases /\ (\E p \in Pools : Pool(p)) => Phases'
<1> USE ConstType DEF TypeInv, TypePc, TypeBarrier, TypePools, TypeModules,
      TypeSystem, TypeStack, TypeCalls, LoadFirst, UnloadLast, HandlerLast,
      Phases, HandlerQuits, Registered, Quiet, SubLowered, NoQuitYet,
      SavedIdle, Owes, BetweenRounds, Preparing, UnloadingDone, Closing,
      syncVars, poolVars, moduleVars, roundVars, stackVars, callVars
<1>1. ASSUME TypeInv, TypeInv', Phases, NEW p \in Pools,
             Attach(p)
      PROVE Phases'
  BY <1>1 DEF Attach, AttachParty
<1>2. ASSUME TypeInv, TypeInv', Phases, NEW p \in Pools,
             PoolHead(p)
      PROVE Phases'
  <2>1. PICK label \in {"run", "erase"} : pc' = [pc EXCEPT ![p] = label]
    BY <1>2, HeadStep, Zenon
  <2>2. pc[p] = "head" /\ UNCHANGED <<pools, pflag, saved, target, quitting>>
    BY <1>2, HeadStep, Zenon
  <2>3. pc \in [Threads \union {"client"} -> Label]
    BY <1>2
  <2>4. pc'["master"] = pc["master"] /\ pc'[p] = label
    BY <2>1, <2>3, ConstType
  <2>5. \A q \in Pools : q # p => pc'[q] = pc[q]
    BY <2>1, <2>3
  <2>6. Registered'
    <3>1. Registered
      BY <1>2
    <3> QED
      BY <2>1, <2>2, <2>4, <2>5, <3>1
  <2>7. SubLowered' /\ Quiet'
    <3>1. SubLowered /\ Quiet
      BY <1>2
    <3> QED
      BY <2>1, <2>2, <2>4, <2>5, <3>1
  <2>8. HandlerQuits' /\ NoQuitYet' /\ SavedIdle' /\ DOMAIN quitting' = Callers
    <3>1. HandlerQuits /\ NoQuitYet /\ SavedIdle /\ DOMAIN quitting = Callers
      BY <1>2
    <3> QED
      BY <2>2, <2>4, <3>1
  <2> QED
    BY <2>6, <2>7, <2>8
<1>3. ASSUME TypeInv, TypeInv', Phases, NEW t \in Threads,
             Skip(t)
      PROVE Phases'
  BY <1>3 DEF Skip
<1>4. ASSUME TypeInv, TypeInv', Phases, NEW t \in Threads,
             StartExecute(t)
      PROVE Phases'
  BY <1>4 DEF StartExecute
<1>5. ASSUME TypeInv, TypeInv', Phases, NEW t \in Threads,
             EndExecute(t)
      PROVE Phases'
  BY <1>5 DEF EndExecute, MayCrash
<1>6. ASSUME TypeInv, TypeInv', Phases, NEW p \in Pools,
             PassDone(p, "finish")
      PROVE Phases'
  BY <1>6 DEF PassDone
<1>7. ASSUME TypeInv, TypeInv', Phases, NEW p \in Pools,
             PoolFinish(p)
      PROVE Phases'
  BY <1>7 DEF PoolFinish
<1>8. ASSUME TypeInv, TypeInv', Phases, NEW p \in Pools,
             PoolFinishWrite(p)
      PROVE Phases'
  BY <1>8 DEF PoolFinishWrite
<1>9. ASSUME TypeInv, TypeInv', Phases, NEW p \in Pools,
             PoolSub(p)
      PROVE Phases'
  BY <1>9 DEF PoolSub
<1>10. ASSUME TypeInv, TypeInv', Phases, NEW p \in Pools,
              PoolWait(p)
       PROVE Phases'
  BY <1>10 DEF PoolWait, Enqueue, Arrive, Recheck, Notified
<1>11. ASSUME TypeInv, TypeInv', Phases, NEW p \in Pools,
              PoolErase(p)
       PROVE Phases'
  BY <1>11 DEF PoolErase
<1> HIDE DEF TypeInv, Phases
<1> QED
  BY <1>1, <1>2, <1>3, <1>4, <1>5, <1>6, <1>7, <1>8, <1>9, <1>10, <1>11 DEF
      Pool, Pass

(* The steps the client's thread takes on its own, but for unloading.      *)
LEMMA ClientPhases ==
    TypeInv /\ TypeInv' /\ Phases /\ Client /\ ~Unloading("client") => Phases'
<1> USE ConstType DEF TypeInv, TypePc, TypeBarrier, TypePools, TypeModules,
      TypeSystem, TypeStack, TypeCalls, LoadFirst, UnloadLast, HandlerLast,
      Phases, HandlerQuits, Registered, Quiet, SubLowered, NoQuitYet,
      SavedIdle, Owes, BetweenRounds, Preparing, UnloadingDone, Closing,
      syncVars, poolVars, moduleVars, roundVars, stackVars, callVars
<1>1. ASSUME TypeInv, TypeInv', Phases, LoadIntoPool PROVE Phases'
  BY <1>1 DEF LoadIntoPool, Register, Push, MayCrash
<1>2. ASSUME TypeInv, TypeInv', Phases, LoadNewPool PROVE Phases'
  BY <1>2 DEF LoadNewPool, Register
<1>3. ASSUME TypeInv, TypeInv', Phases, CountPool PROVE Phases'
  BY <1>3 DEF CountPool
<1>4. ASSUME TypeInv, TypeInv', Phases, PushFirst PROVE Phases'
  <2>1. /\ pc' = [pc EXCEPT !["client"] = "load"]
        /\ UNCHANGED <<pools, pflag, saved, target, quitting>>
    BY <1>4 DEF PushFirst
  <2>2. \A t \in Threads : pc'[t] = pc[t]
    BY <2>1, ConstType
  <2>3. pc["client"] = "push" /\ pc'["client"] = "load"
    BY <1>4, <2>1 DEF PushFirst
  <2> QED
    BY <1>4, <2>1, <2>2, <2>3
<1>5. ASSUME TypeInv, TypeInv', Phases, Fork PROVE Phases'
  BY <1>5 DEF Fork
<1>6. ASSUME TypeInv, TypeInv', Phases, Assign PROVE Phases'
  BY <1>6 DEF Assign
<1>7. ASSUME TypeInv, TypeInv', Phases, FirstRun PROVE Phases'
  BY <1>7 DEF FirstRun, Send
<1>8. ASSUME TypeInv, TypeInv', Phases, CommandNotify PROVE Phases'
  BY <1>8 DEF CommandNotify, Notify, NotifyAll, Notified
<1>9. ASSUME TypeInv, TypeInv', Phases, Alarm PROVE Phases'
  BY <1>9 DEF Alarm, Send
<1>10. ASSUME TypeInv, TypeInv', Phases, Join PROVE Phases'
  BY <1>10 DEF Join
<1>11. ASSUME TypeInv, TypeInv', Phases,
              WhileActive("client", "swapWait")
       PROVE Phases'
  BY <1>11 DEF WhileActive, NotifyAll, Notified
<1>12. ASSUME TypeInv, TypeInv', Phases, SwapNotify PROVE Phases'
  BY <1>12 DEF SwapNotify, Notify, NotifyAll, Notified
<1>20. ASSUME TypeInv, TypeInv', Phases, SwapPause PROVE Phases'
  BY <1>20 DEF SwapPause
<1>13. ASSUME TypeInv, TypeInv', Phases, StartSwap PROVE Phases'
  BY <1>13 DEF StartSwap, OnceInactive
<1>14. ASSUME TypeInv, TypeInv', Phases, EndSwap PROVE Phases'
  BY <1>14 DEF EndSwap
<1>15. ASSUME TypeInv, TypeInv', Phases, Delete PROVE Phases'
  BY <1>15 DEF Delete
<1> HIDE DEF TypeInv, Phases
<1> QED
  BY <1>1, <1>2, <1>3, <1>4, <1>5, <1>6, <1>7, <1>8, <1>9, <1>10, <1>11,
      <1>12, <1>20, <1>13, <1>14, <1>15 DEF Client

(* The commands the user sends through the client's thread.                *)
LEMMA UserPhases == TypeInv /\ TypeInv' /\ Phases /\ User => Phases'
<1> USE ConstType DEF TypeInv, TypePc, TypeBarrier, TypePools, TypeModules,
      TypeSystem, TypeStack, TypeCalls, LoadFirst, UnloadLast, HandlerLast,
      Phases, HandlerQuits, Registered, Quiet, SubLowered, NoQuitYet,
      SavedIdle, Owes, BetweenRounds, Preparing, UnloadingDone, Closing,
      syncVars, poolVars, moduleVars, roundVars, stackVars, callVars
<1>1. ASSUME TypeInv, TypeInv', Phases, NEW cmd \in Commands,
             Command(cmd)
      PROVE Phases'
  BY <1>1 DEF Command, Send
<1>2. ASSUME TypeInv, TypeInv', Phases, NEW m \in Swappable,
             HotSwap(m)
      PROVE Phases'
  BY <1>2 DEF HotSwap
<1> HIDE DEF TypeInv, Phases
<1> QED
  BY <1>1, <1>2 DEF User

(* Unloading a module, by the client or by the master.                     *)
LEMMA UnloadingPhases ==
    TypeInv /\ TypeInv' /\ Phases /\ (\E c \in Callers : Unloading(c))
        => Phases'
<1> USE ConstType DEF TypeInv, TypePc, TypeBarrier, TypePools, TypeModules,
      TypeSystem, TypeStack, TypeCalls, LoadFirst, UnloadLast, HandlerLast,
      Phases, HandlerQuits, Registered, Quiet, SubLowered, NoQuitYet,
      SavedIdle, Owes, BetweenRounds, Preparing, UnloadingDone, Closing,
      syncVars, poolVars, moduleVars, roundVars, stackVars, callVars
<1>1. ASSUME TypeInv, TypeInv', Phases, NEW c \in Callers,
             UnloadNext(c)
      PROVE Phases'
  <2>1. CASE Head(moduleStack) \in loaded
    <3>1. /\ pc' = [pc EXCEPT ![c] = "unload"]
          /\ UNCHANGED <<pools, pflag, saved, quitting>>
      BY <1>1, <2>1 DEF UnloadNext
    <3> QED
      BY <1>1, <3>1 DEF UnloadNext
  <2>2. CASE Head(moduleStack) \notin loaded
    BY <1>1, <2>2 DEF UnloadNext
  <2> QED
    BY <2>1, <2>2
<1>2. ASSUME TypeInv, TypeInv', Phases, NEW c \in Callers,
             AllUnloaded(c)
      PROVE Phases'
  BY <1>2 DEF AllUnloaded
<1>3. ASSUME TypeInv, TypeInv', Phases, NEW c \in Callers,
             Unload(c)
      PROVE Phases'
  BY <1>3 DEF Unload
<1>4. ASSUME TypeInv, TypeInv', Phases, NEW c \in Callers,
             StopNotify(c)
      PROVE Phases'
  BY <1>4 DEF StopNotify, Notify, NotifyAll, Notified
<1>21. ASSUME TypeInv, TypeInv', Phases, NEW c \in Callers,
             StopPause(c)
      PROVE Phases'
  BY <1>21 DEF StopPause
<1>5. ASSUME TypeInv, TypeInv', Phases, NEW c \in Callers,
             Stop(c)
      PROVE Phases'
  BY <1>5 DEF Stop
<1>6. ASSUME TypeInv, TypeInv', Phases, NEW c \in Callers,
             WhileActive(c, "inactive")
      PROVE Phases'
  BY <1>6 DEF WhileActive, NotifyAll, Notified
<1>7. ASSUME TypeInv, TypeInv', Phases, NEW c \in Callers,
             RemoveFromPool(c)
      PROVE Phases'
  BY <1>7, RemoveAtType DEF RemoveFromPool, OnceInactive
<1>8. ASSUME TypeInv, TypeInv', Phases, NEW c \in Callers,
             Restore(c)
      PROVE Phases'
  BY <1>8 DEF Restore, Notify, NotifyAll, Notified
<1>9. ASSUME TypeInv, TypeInv', Phases, NEW c \in Callers,
             Free(c)
      PROVE Phases'
  BY <1>9 DEF Free
<1>10. ASSUME TypeInv, TypeInv', Phases, NEW c \in Callers,
              Resume(c)
       PROVE Phases'
  BY <1>10 DEF Resume
<1>11. ASSUME TypeInv, TypeInv', Phases, NEW c \in Callers,
              ResumeNotify(c)
       PROVE Phases'
  BY <1>11 DEF ResumeNotify, Notify, NotifyAll, Notified
<1>12. ASSUME TypeInv, TypeInv', Phases, NEW c \in Callers,
              PopUnloaded(c)
       PROVE Phases'
  BY <1>12 DEF PopUnloaded
<1> HIDE DEF TypeInv, Phases
<1> QED
  BY <1>1, <1>2, <1>3, <1>4, <1>21, <1>5, <1>6, <1>7, <1>8, <1>9, <1>10, <1>11,
      <1>12 DEF Unloading

(* The steps of the master controller, but for unloading: here the count   *)
(* is what makes passing the barrier safe.                                 *)
LEMMA MasterPhases ==
    TypeInv /\ TypeInv' /\ Phases /\ CountCovers /\ Master /\ ~Unloading("master")
        => Phases'
<1> USE ConstType DEF TypeInv, TypePc, TypeBarrier, TypePools, TypeModules,
      TypeSystem, TypeStack, TypeCalls, LoadFirst, UnloadLast, HandlerLast,
      Phases, HandlerQuits, Registered, Quiet, SubLowered, NoQuitYet,
      SavedIdle, Owes, BetweenRounds, Preparing, UnloadingDone, Closing,
      syncVars, poolVars, moduleVars, roundVars, stackVars, callVars
<1>1. ASSUME TypeInv, TypeInv', Phases, Startup PROVE Phases'
  BY <1>1 DEF Startup, Notify, NotifyAll, Notified
<1>2. ASSUME TypeInv, TypeInv', Phases, CountCovers, MasterWait PROVE Phases'
  <2>1. CASE pc' = pc
    BY <1>2, <2>1 DEF MasterWait
  <2>2. CASE /\ pc["master"] \in {"startSync", "sync"} /\ activePools = 0
             /\ \E label \in {"reset", "dispatch"} : pc' = [pc EXCEPT !["master"] = label]
    <3>1. ~Closing /\ pc["client"] # "count" /\ pc["master"] # "launch"
      BY <1>2, <2>2
    <3>4. Pending = 0
      BY <3>1 DEF Pending
    <3>2. Cardinality(Owing) = 0
      BY <1>2, <2>2, <3>1, <3>4, OwingFinite DEF CountCovers
    <3>5. Owing = {}
      BY <3>2, OwingFinite, FS_EmptySet
    <3>3. \A p \in Pools : ~Owes(p)
      BY <3>5 DEF Owing
    <3> QED
      BY <1>2, <2>2, <3>3 DEF MasterWait
  <2>3. CASE pc["master"] = "pause" /\ pc' = [pc EXCEPT !["master"] = "tail"]
    BY <1>2, <2>3 DEF MasterWait
  <2> QED
    BY <1>2, <2>1, <2>2, <2>3 DEF MasterWait, Enqueue
<1>3. ASSUME TypeInv, TypeInv', Phases, Reset PROVE Phases'
  BY <1>3 DEF Reset
<1>4. ASSUME TypeInv, TypeInv', Phases, MasterHead PROVE Phases'
  BY <1>4 DEF MasterHead
<1>5. ASSUME TypeInv, TypeInv', Phases, DispatchIdle PROVE Phases'
  BY <1>5 DEF DispatchIdle
<1>6. ASSUME TypeInv, TypeInv', Phases, DispatchRound PROVE Phases'
  BY <1>6 DEF DispatchRound
<1>7. ASSUME TypeInv, TypeInv', Phases, NEW m \in unchecked,
             Check(m)
      PROVE Phases'
  BY <1>7 DEF Check
<1>8. ASSUME TypeInv, TypeInv', Phases, NEW m \in unchecked,
             CheckDone(m)
      PROVE Phases'
  BY <1>8 DEF CheckDone
<1>9. ASSUME TypeInv, TypeInv', Phases, ContinueCheck PROVE Phases'
  BY <1>9 DEF ContinueCheck, MayCrash
<1>10. ASSUME TypeInv, TypeInv', Phases, Arm PROVE Phases'
  BY <1>10 DEF Arm
<1>11. ASSUME TypeInv, TypeInv', Phases, Launch PROVE Phases'
  BY <1>11 DEF Launch, Notify, NotifyAll, Notified
<1>12. ASSUME TypeInv, TypeInv', Phases, NEW t \in Threads,
              Skip(t)
       PROVE Phases'
  BY <1>12 DEF Skip
<1>13. ASSUME TypeInv, TypeInv', Phases, NEW t \in Threads,
              StartExecute(t)
       PROVE Phases'
  BY <1>13 DEF StartExecute
<1>14. ASSUME TypeInv, TypeInv', Phases, NEW t \in Threads,
              EndExecute(t)
       PROVE Phases'
  BY <1>14 DEF EndExecute, MayCrash
<1>15. ASSUME TypeInv, TypeInv', Phases,
              PassDone("master", "step")
       PROVE Phases'
  BY <1>15 DEF PassDone
<1>16. ASSUME TypeInv, TypeInv', Phases, StepTest PROVE Phases'
  BY <1>16 DEF StepTest
<1>17. ASSUME TypeInv, TypeInv', Phases, StepWrite PROVE Phases'
  BY <1>17 DEF StepWrite
<1>18. ASSUME TypeInv, TypeInv', Phases, MasterTail PROVE Phases'
  BY <1>18 DEF MasterTail
<1>19. ASSUME TypeInv, TypeInv', Phases, MasterExit PROVE Phases'
  BY <1>19 DEF MasterExit
<1>20. ASSUME TypeInv, TypeInv', Phases, Handler PROVE Phases'
  BY <1>20 DEF Handler
<1>21. ASSUME TypeInv, TypeInv', Phases, HandlerNotify PROVE Phases'
  BY <1>21 DEF HandlerNotify, Notify, NotifyAll, Notified
<1> HIDE DEF TypeInv, Phases
<1> QED
  BY <1>1, <1>2, <1>3, <1>4, <1>5, <1>6, <1>7, <1>8, <1>9, <1>10, <1>11,
      <1>12, <1>13, <1>14, <1>15, <1>16, <1>17, <1>18, <1>19, <1>20, <1>21
      DEF Master, Pass

(* Falling asleep on the barrier, and waking up without a reason.          *)
LEMMA WaitPhases ==
    TypeInv /\ TypeInv' /\ Phases /\ (\E t \in Threads : Sleep(t) \/ Wakeup(t))
        => Phases'
<1> USE ConstType DEF TypeInv, TypePc, TypeBarrier, TypePools, TypeModules,
      TypeSystem, TypeStack, TypeCalls, LoadFirst, UnloadLast, HandlerLast,
      Phases, HandlerQuits, Registered, Quiet, SubLowered, NoQuitYet,
      SavedIdle, Owes, BetweenRounds, Preparing, UnloadingDone, Closing,
      syncVars, poolVars, moduleVars, roundVars, stackVars, callVars
<1>1. ASSUME TypeInv, TypeInv', Phases, NEW t \in Threads,
             Sleep(t)
      PROVE Phases'
  BY <1>1 DEF Sleep, Block
<1>2. ASSUME TypeInv, TypeInv', Phases, NEW t \in Threads,
             Wakeup(t)
      PROVE Phases'
  BY <1>2 DEF Wakeup, SpuriousWakeup
<1> HIDE DEF TypeInv, Phases
<1> QED
  BY <1>1, <1>2 DEF TypeInv

------------------------------------------------------------------------------
(* The count, thread by thread.                                            *)
(* The steps of a pool thread (poolController, moduleController).          *)
LEMMA PoolCount ==
    TypeInv /\ TypeInv' /\ Phases /\ CountCovers /\ (\E p \in Pools : Pool(p))
        => CountCovers'
<1> USE ConstType DEF TypePc, LoadFirst, UnloadLast, HandlerLast,
      HandlerQuits, Owing, Owes, Closing, CountKept, syncVars, poolVars,
      moduleVars, roundVars, stackVars, callVars
<1>1. ASSUME TypeInv, TypeInv', Phases, NEW p \in Pools,
             Attach(p)
      PROVE CountKept
  BY <1>1 DEF TypeInv, Phases, Attach, AttachParty
<1>2. ASSUME TypeInv, TypeInv', Phases, NEW p \in Pools,
             PoolHead(p)
      PROVE CountKept
  BY <1>2 DEF TypeInv, Phases, PoolHead
<1>3. ASSUME TypeInv, TypeInv', Phases, NEW t \in Threads,
             Skip(t)
      PROVE CountKept
  BY <1>3 DEF TypeInv, Phases, Skip
<1>4. ASSUME TypeInv, TypeInv', Phases, NEW t \in Threads,
             StartExecute(t)
      PROVE CountKept
  BY <1>4 DEF TypeInv, Phases, StartExecute
<1>5. ASSUME TypeInv, TypeInv', Phases, NEW t \in Threads,
             EndExecute(t)
      PROVE CountKept
  BY <1>5 DEF TypeInv, Phases, EndExecute, MayCrash
<1>6. ASSUME TypeInv, TypeInv', Phases, NEW p \in Pools,
             PassDone(p, "finish")
      PROVE CountKept
  BY <1>6 DEF TypeInv, Phases, PassDone
<1>7. ASSUME TypeInv, TypeInv', Phases, NEW p \in Pools,
             PoolFinish(p)
      PROVE CountKept
  BY <1>7 DEF TypeInv, Phases, PoolFinish
<1>8. ASSUME TypeInv, TypeInv', Phases, NEW p \in Pools,
             PoolFinishWrite(p)
      PROVE CountKept
  BY <1>8 DEF TypeInv, Phases, PoolFinishWrite
<1>9. ASSUME TypeInv, TypeInv', Phases, CountCovers, NEW p \in Pools,
             PoolSub(p)
      PROVE CountCovers'
  <2> SUFFICES ASSUME ~Closing' PROVE activePools' + Pending' >= Cardinality(Owing')
    BY DEF CountCovers
  <2>1. /\ pc[p] = "sub" /\ pc' = [pc EXCEPT ![p] = "wait"]
        /\ activePools' = activePools - 1
        /\ UNCHANGED <<pools, pflag, quitting>>
    BY <1>9 DEF PoolSub
  <2>2. ~Closing /\ pflag[p] = "WAIT"
    BY <1>9, <2>1 DEF TypeInv, Phases, SubLowered
  <2>3. p \in Owing /\ Owing' = Owing \ {p}
    BY <1>9, <2>1, <2>2 DEF TypeInv
  <2>4. Pending' = Pending
    BY <1>9, <2>1 DEF TypeInv, Pending
  <2>5. Cardinality(Owing') = Cardinality(Owing) - 1
    <3> HIDE DEF Owing
    <3> QED
      BY <2>3, OwingFinite, FS_RemoveElement
  <2>6. activePools + Pending >= Cardinality(Owing)
    BY <1>9, <2>2 DEF CountCovers
  <2>7. activePools \in Int /\ Pending \in Int
    BY <1>9, PendingType DEF TypeInv, TypePools
  <2> HIDE DEF Owing
  <2> QED
    BY <2>1, <2>4, <2>5, <2>6, <2>7, OwingFinite, LessOne
<1>10. ASSUME TypeInv, TypeInv', Phases, NEW p \in Pools,
              PoolWait(p)
       PROVE CountKept
  BY <1>10 DEF TypeInv, Phases, PoolWait, Enqueue, Arrive, Recheck, Notified
<1>11. ASSUME TypeInv, TypeInv', Phases, CountCovers, NEW p \in Pools,
              PoolErase(p)
       PROVE CountCovers'
  <2> SUFFICES ASSUME ~Closing' PROVE activePools' + Pending' >= Cardinality(Owing')
    BY DEF CountCovers
  <2>1. /\ pc[p] = "erase" /\ pc' = [pc EXCEPT ![p] = "done"]
        /\ pools' = pools \ {p}
        /\ UNCHANGED <<activePools, pflag, quitting>>
    BY <1>11 DEF PoolErase
  <2>2. ~Closing /\ p \in pools
    BY <1>11, <2>1 DEF TypeInv, Phases, Registered
  <2>3. p \in Owing /\ Owing' = Owing \ {p}
    BY <1>11, <2>1 DEF TypeInv
  <2>4. Cardinality(Owing') = Cardinality(Owing) - 1
    <3> HIDE DEF Owing
    <3> QED
      BY <2>3, OwingFinite, FS_RemoveElement
  <2>5. activePools + Pending >= Cardinality(Owing)
    BY <1>11, <2>2 DEF CountCovers
  <2>6. activePools \in Int /\ Pending \in Int
    BY <1>11, PendingType DEF TypeInv, TypePools
  <2>7. Pending' = Pending \/ Pending' = Pending - 1
    <3>1. Cardinality(pools' \ {"master"}) = Cardinality(pools \ {"master"}) - 1
      <4>1. p \in pools \ {"master"} /\ pools' \ {"master"} = (pools \ {"master"}) \ {p}
        BY <2>1, <2>2
      <4>2. IsFiniteSet(pools \ {"master"})
        BY <1>11, PendingType DEF TypeInv
      <4> DEFINE S == pools \ {"master"}
      <4>3. p \in S /\ IsFiniteSet(S) /\ pools' \ {"master"} = S \ {p}
        BY <4>1, <4>2
      <4> HIDE DEF S
      <4>4. Cardinality(pools' \ {"master"}) = Cardinality(S) - 1
        BY <4>3, FS_RemoveElement
      <4> QED
        BY <4>4 DEF S
    <3>2. pc'["client"] = pc["client"] /\ pc'["master"] = pc["master"]
      BY <1>11, <2>1 DEF TypeInv
    <3> QED
      BY <1>11, <3>1, <3>2, PendingType DEF TypeInv, Pending
  <2> HIDE DEF Owing
  <2> QED
    BY <2>1, <2>4, <2>5, <2>6, <2>7, OwingFinite, LessOne
<1> HIDE DEF CountKept
<1> QED
  BY CountFrame, <1>1, <1>2, <1>3, <1>4, <1>5, <1>6, <1>7, <1>8, <1>9,
      <1>10, <1>11 DEF Pool, Pass

(* The steps the client's thread takes on its own, but for unloading.      *)
LEMMA ClientCount ==
    TypeInv /\ TypeInv' /\ Phases /\ CountCovers /\ Client /\ ~Unloading("client")
        => CountCovers'
<1> USE ConstType DEF TypePc, LoadFirst, UnloadLast, HandlerLast,
      HandlerQuits, Owing, Owes, Closing, CountKept, syncVars, poolVars,
      moduleVars, roundVars, stackVars, callVars
<1>1. ASSUME TypeInv, TypeInv', Phases, LoadIntoPool PROVE CountKept
  BY <1>1 DEF TypeInv, Phases, LoadIntoPool, Register, Push, MayCrash
<1>2. ASSUME TypeInv, TypeInv', Phases, CountCovers,
             LoadNewPool
      PROVE CountCovers'
  <2> SUFFICES ASSUME ~Closing' PROVE activePools' + Pending' >= Cardinality(Owing')
    BY DEF CountCovers
  <2> DEFINE p == PoolName[Head(todo)]
  <2>1. p \in Pools /\ p \notin pools
    BY <1>2 DEF LoadNewPool, TypeInv, TypeStack, TypePools
  <2> HIDE DEF p
  <2>2. /\ pc["client"] = "load" /\ pc' = [pc EXCEPT !["client"] = "count", ![p] = "attach"]
        /\ pools' = pools \union {p}
        /\ pflag' = [pflag EXCEPT ![p] = "WAIT"]
        /\ UNCHANGED <<activePools, quitting>>
    BY <1>2 DEF LoadNewPool, p
  <2>3. /\ pc["master"] = "unborn" /\ pc'["master"] = "unborn" /\ ~Closing
        /\ pc[p] \in {"unborn", "done"} /\ pc'["client"] = "count"
    BY <1>2, <2>1, <2>2 DEF TypeInv, Phases, Registered
  <2>4. p \notin Owing /\ Owing' = Owing \union {p}
    BY <1>2, <2>1, <2>2, <2>3 DEF TypeInv, TypePools
  <2>5. Pending = 0 /\ Pending' = 1
    BY <2>2, <2>3 DEF Pending
  <2>6. Cardinality(Owing') = Cardinality(Owing) + 1
    BY <2>4, OwingFinite, FS_AddElement
  <2>7. activePools + Pending >= Cardinality(Owing)
    BY <1>2, <2>3 DEF CountCovers
  <2>8. activePools \in Int
    BY <1>2 DEF TypeInv, TypePools
  <2> HIDE DEF Owing
  <2> QED
    BY <2>2, <2>5, <2>6, <2>7, <2>8, OwingFinite
<1>3. ASSUME TypeInv, TypeInv', Phases, CountCovers,
             CountPool
      PROVE CountCovers'
  <2> SUFFICES ASSUME ~Closing' PROVE activePools' + Pending' >= Cardinality(Owing')
    BY DEF CountCovers
  <2>1. /\ pc["client"] = "count" /\ pc' = [pc EXCEPT !["client"] = "push"]
        /\ activePools' = activePools + 1
        /\ UNCHANGED <<pools, pflag, quitting>>
    BY <1>3 DEF CountPool
  <2>2. pc["master"] = "unborn" /\ pc'["master"] = "unborn" /\ pc'["client"] = "push" /\ ~Closing
    BY <1>3, <2>1 DEF TypeInv
  <2>3. Owing' = Owing
    BY <1>3, <2>1 DEF TypeInv
  <2>4. Pending = 1 /\ Pending' = 0
    BY <2>1, <2>2 DEF Pending
  <2>5. activePools + Pending >= Cardinality(Owing)
    BY <1>3, <2>2 DEF CountCovers
  <2>6. activePools \in Int
    BY <1>3 DEF TypeInv, TypePools
  <2> HIDE DEF Owing
  <2> QED
    BY <2>1, <2>3, <2>4, <2>5, <2>6, OwingFinite
<1>4. ASSUME TypeInv, TypeInv', Phases, PushFirst PROVE CountKept
  BY <1>4 DEF TypeInv, Phases, PushFirst, Push
<1>5. ASSUME TypeInv, TypeInv', Phases, Fork PROVE CountKept
  BY <1>5 DEF TypeInv, Phases, Fork
<1>6. ASSUME TypeInv, TypeInv', Phases, Assign PROVE CountKept
  BY <1>6 DEF TypeInv, Phases, Assign
<1>7. ASSUME TypeInv, TypeInv', Phases, FirstRun PROVE CountKept
  BY <1>7 DEF TypeInv, Phases, FirstRun, Send
<1>8. ASSUME TypeInv, TypeInv', Phases, CommandNotify PROVE CountKept
  BY <1>8 DEF TypeInv, Phases, CommandNotify, Notify, NotifyAll, Notified
<1>9. ASSUME TypeInv, TypeInv', Phases, Alarm PROVE CountKept
  BY <1>9 DEF TypeInv, Phases, Alarm, Send
<1>10. ASSUME TypeInv, TypeInv', Phases, Join PROVE CountKept
  BY <1>10 DEF TypeInv, Phases, Join
<1>11. ASSUME TypeInv, TypeInv', Phases,
              WhileActive("client", "swapWait")
       PROVE CountKept
  BY <1>11 DEF TypeInv, Phases, WhileActive, NotifyAll, Notified
<1>12. ASSUME TypeInv, TypeInv', Phases, SwapNotify PROVE CountKept
  BY <1>12 DEF TypeInv, Phases, SwapNotify, Notify, NotifyAll, Notified
<1>20. ASSUME TypeInv, TypeInv', Phases, SwapPause PROVE CountKept
  BY <1>20 DEF TypeInv, Phases, SwapPause
<1>13. ASSUME TypeInv, TypeInv', Phases, StartSwap PROVE CountKept
  BY <1>13 DEF TypeInv, Phases, StartSwap, OnceInactive
<1>14. ASSUME TypeInv, TypeInv', Phases, EndSwap PROVE CountKept
  BY <1>14 DEF TypeInv, Phases, EndSwap
<1>15. ASSUME TypeInv, TypeInv', Phases, Delete PROVE CountKept
  BY <1>15 DEF TypeInv, Phases, Delete
<1> HIDE DEF CountKept
<1> QED
  BY CountFrame, <1>1, <1>2, <1>3, <1>4, <1>5, <1>6, <1>7, <1>8, <1>9,
      <1>10, <1>11, <1>12, <1>20, <1>13, <1>14, <1>15 DEF Client

(* The commands the user sends through the client's thread.                *)
LEMMA UserCount ==
    TypeInv /\ TypeInv' /\ Phases /\ CountCovers /\ User => CountCovers'
<1> USE ConstType DEF TypePc, LoadFirst, UnloadLast, HandlerLast,
      HandlerQuits, Owing, Owes, Closing, CountKept, syncVars, poolVars,
      moduleVars, roundVars, stackVars, callVars
<1>1. ASSUME TypeInv, TypeInv', Phases, NEW cmd \in Commands,
             Command(cmd)
      PROVE CountKept
  BY <1>1 DEF TypeInv, Phases, Command, Send
<1>2. ASSUME TypeInv, TypeInv', Phases, NEW m \in Swappable,
             HotSwap(m)
      PROVE CountKept
  BY <1>2 DEF TypeInv, Phases, HotSwap
<1> HIDE DEF CountKept
<1> QED
  BY CountFrame, <1>1, <1>2 DEF User

(* Unloading a module, by the client or by the master.                     *)
LEMMA UnloadingCount ==
    TypeInv /\ TypeInv' /\ Phases /\ CountCovers /\ (\E c \in Callers : Unloading(c))
        => CountCovers'
<1> USE ConstType DEF TypePc, LoadFirst, UnloadLast, HandlerLast,
      HandlerQuits, Owing, Owes, Closing, CountKept, syncVars, poolVars,
      moduleVars, roundVars, stackVars, callVars
<1>1. ASSUME TypeInv, TypeInv', Phases, NEW c \in Callers,
             UnloadNext(c)
      PROVE CountKept
  <2>1. CASE Head(moduleStack) \in loaded
    <3>1. /\ pc[c] = "unloadNext" /\ pc' = [pc EXCEPT ![c] = "unload"]
          /\ UNCHANGED <<activePools, pools, pflag, quitting>>
      BY <1>1, <2>1 DEF UnloadNext
    <3> QED
      BY <1>1, <3>1 DEF TypeInv, Phases
  <2>2. CASE Head(moduleStack) \notin loaded
    BY <1>1, <2>2 DEF UnloadNext, TypeInv, Phases
  <2> QED
    BY <2>1, <2>2
<1>2. ASSUME TypeInv, TypeInv', Phases, NEW c \in Callers,
             AllUnloaded(c)
      PROVE CountKept
  BY <1>2 DEF TypeInv, Phases, AllUnloaded
<1>3. ASSUME TypeInv, TypeInv', Phases, NEW c \in Callers,
             Unload(c)
      PROVE CountKept
  BY <1>3 DEF TypeInv, Phases, Unload
<1>4. ASSUME TypeInv, TypeInv', Phases, NEW c \in Callers,
             StopNotify(c)
      PROVE CountKept
  BY <1>4 DEF TypeInv, Phases, StopNotify, Notify, NotifyAll, Notified
<1>21. ASSUME TypeInv, TypeInv', Phases, NEW c \in Callers,
             StopPause(c)
      PROVE CountKept
  BY <1>21 DEF TypeInv, Phases, StopPause
<1>5. ASSUME TypeInv, TypeInv', Phases, NEW c \in Callers,
             Stop(c)
      PROVE CountKept
  <2>1. /\ pc[c] = "stop"
        /\ \E label \in {"inactive", "free"} : pc' = [pc EXCEPT ![c] = label]
        /\ \/ pflag' = pflag
           \/ pflag' = [pflag EXCEPT ![PoolName[target[c]]] = "WAIT"]
        /\ UNCHANGED <<activePools, pools, quitting>>
    BY <1>5 DEF Stop
  <2> QED
    BY <1>5, <2>1 DEF TypeInv, TypePools
<1>6. ASSUME TypeInv, TypeInv', Phases, NEW c \in Callers,
             WhileActive(c, "inactive")
      PROVE CountKept
  BY <1>6 DEF TypeInv, Phases, WhileActive, NotifyAll, Notified
<1>7. ASSUME TypeInv, TypeInv', Phases, NEW c \in Callers,
             RemoveFromPool(c)
      PROVE CountKept
  BY <1>7, RemoveAtType DEF TypeInv, Phases, RemoveFromPool, OnceInactive
<1>8. ASSUME TypeInv, TypeInv', Phases, NEW c \in Callers,
             Restore(c)
      PROVE CountKept
  <2>1. CASE Closing'
    BY <2>1
  <2>2. CASE ~Closing'
    <3>1. /\ pc[c] = "restore" /\ pc' = [pc EXCEPT ![c] = "free"]
          /\ pflag' = [pflag EXCEPT ![PoolName[target[c]]] = saved[c]]
          /\ UNCHANGED <<activePools, pools, quitting, target>>
      BY <1>8 DEF Restore, Notify
    <3>2. c = "master" /\ ~quitting["master"]
      BY <1>8, <2>2, <3>1 DEF TypeInv
    <3>3. PoolName[target["master"]] \in Pools => saved["master"] = "WAIT"
      BY <1>8, <3>1, <3>2 DEF Phases, SavedIdle, UnloadingDone
    <3> QED
      BY <1>8, <2>2, <3>1, <3>2, <3>3 DEF TypeInv, TypePools
  <2> QED
    BY <2>1, <2>2
<1>9. ASSUME TypeInv, TypeInv', Phases, NEW c \in Callers,
             Free(c)
      PROVE CountKept
  BY <1>9 DEF TypeInv, Phases, Free
<1>10. ASSUME TypeInv, TypeInv', Phases, NEW c \in Callers,
              Resume(c)
       PROVE CountKept
  BY <1>10 DEF TypeInv, Phases, Resume
<1>11. ASSUME TypeInv, TypeInv', Phases, NEW c \in Callers,
              ResumeNotify(c)
       PROVE CountKept
  BY <1>11 DEF TypeInv, Phases, ResumeNotify, Notify, NotifyAll, Notified
<1>12. ASSUME TypeInv, TypeInv', Phases, NEW c \in Callers,
              PopUnloaded(c)
       PROVE CountKept
  BY <1>12 DEF TypeInv, Phases, PopUnloaded
<1> HIDE DEF CountKept
<1> QED
  BY CountFrame, <1>1, <1>2, <1>3, <1>4, <1>21, <1>5, <1>6, <1>7, <1>8, <1>9,
      <1>10, <1>11, <1>12 DEF Unloading

(* The steps of the master controller, but for unloading.                  *)
LEMMA MasterCount ==
    TypeInv /\ TypeInv' /\ Phases /\ CountCovers /\ Master /\ ~Unloading("master")
        => CountCovers'
<1> USE ConstType DEF TypePc, LoadFirst, UnloadLast, HandlerLast,
      HandlerQuits, Owing, Owes, Closing, CountKept, syncVars, poolVars,
      moduleVars, roundVars, stackVars, callVars
<1>1. ASSUME TypeInv, TypeInv', Phases, Startup PROVE CountKept
  BY <1>1 DEF TypeInv, Phases, Startup, Notify, NotifyAll, Notified
<1>2. ASSUME TypeInv, TypeInv', Phases, MasterWait PROVE CountKept
  BY <1>2 DEF TypeInv, Phases, MasterWait, Enqueue, Arrive, Recheck, Notified
<1>3. ASSUME TypeInv, TypeInv', Phases, CountCovers, Reset PROVE CountCovers'
  <2> SUFFICES ASSUME ~Closing' PROVE activePools' + Pending' >= Cardinality(Owing')
    BY DEF CountCovers
  <2>1. /\ pc["master"] = "reset" /\ pc' = [pc EXCEPT !["master"] = "head"]
        /\ activePools' = 0
        /\ UNCHANGED <<pools, pflag, quitting>>
    BY <1>3 DEF Reset
  <2>2. Owing = {} /\ Owing' = {}
    BY <1>3, <2>1 DEF TypeInv, Phases, Quiet, BetweenRounds
  <2>3. pc'["client"] # "count" /\ pc'["master"] = "head"
    BY <1>3, <2>1 DEF TypeInv
  <2>4. Pending' = 0
    BY <2>3 DEF Pending
  <2> HIDE DEF Owing
  <2> QED
    BY <2>1, <2>2, <2>4, FS_EmptySet
<1>4. ASSUME TypeInv, TypeInv', Phases, MasterHead PROVE CountKept
  BY <1>4 DEF TypeInv, Phases, MasterHead
<1>5. ASSUME TypeInv, TypeInv', Phases, DispatchIdle PROVE CountKept
  BY <1>5 DEF TypeInv, Phases, DispatchIdle
<1>6. ASSUME TypeInv, TypeInv', Phases, DispatchRound PROVE CountKept
  BY <1>6 DEF TypeInv, Phases, DispatchRound
<1>7. ASSUME TypeInv, TypeInv', Phases, NEW m \in unchecked,
             Check(m)
      PROVE CountKept
  BY <1>7 DEF TypeInv, Phases, Check
<1>8. ASSUME TypeInv, TypeInv', Phases, NEW m \in unchecked,
             CheckDone(m)
      PROVE CountKept
  BY <1>8 DEF TypeInv, Phases, CheckDone
<1>9. ASSUME TypeInv, TypeInv', Phases, ContinueCheck PROVE CountKept
  BY <1>9 DEF TypeInv, Phases, ContinueCheck, MayCrash
<1>10. ASSUME TypeInv, TypeInv', Phases, CountCovers, Arm PROVE CountCovers'
  <2> SUFFICES ASSUME ~Closing' PROVE activePools' + Pending' >= Cardinality(Owing')
    BY DEF CountCovers
  <2>1. /\ pc["master"] = "check" /\ pc' = [pc EXCEPT !["master"] = "launch"]
        /\ pflag' = [q \in Threads |-> IF q \in pools THEN "RUN" ELSE pflag[q]]
        /\ UNCHANGED <<activePools, pools, quitting>>
    BY <1>10 DEF Arm
  <2>2. Owing = {} /\ ~Closing /\ pc["client"] # "count"
    BY <1>10, <2>1 DEF TypeInv, Phases, Quiet, BetweenRounds, Preparing
  <2>3. Owing' \subseteq pools \ {"master"}
    <3>1. ASSUME NEW q \in Pools, Owes(q)' PROVE q \in pools
      <4>1. ~Owes(q) /\ pc'[q] = pc[q]
        BY <1>10, <2>1, <2>2 DEF TypeInv
      <4> QED
        BY <1>10, <2>1, <3>1, <4>1 DEF TypeInv, TypePools
    <3> QED
      BY <3>1
  <2>4. Cardinality(Owing') <= Cardinality(pools \ {"master"}) /\ Cardinality(Owing') \in Nat
    BY <1>10, <2>3, PendingType, FS_Subset, FS_CardinalityType DEF TypeInv
  <2>5. Pending = 0 /\ Pending' = Cardinality(pools \ {"master"})
    <3>1. pc'["master"] = "launch" /\ pc'["client"] # "count"
      BY <1>10, <2>1, <2>2 DEF TypeInv
    <3> QED
      BY <1>10, <2>1, <2>2, <3>1, PendingType DEF Pending, TypeInv
  <2>6. activePools + Pending >= 0
    BY <1>10, <2>2, FS_EmptySet DEF CountCovers
  <2>7. activePools \in Int /\ Cardinality(pools \ {"master"}) \in Nat
    BY <1>10, PendingType DEF TypeInv, TypePools
  <2> HIDE DEF Owing
  <2> QED
    BY <2>1, <2>4, <2>5, <2>6, <2>7
<1>11. ASSUME TypeInv, TypeInv', Phases, CountCovers, Launch PROVE CountCovers'
  <2> SUFFICES ASSUME ~Closing' PROVE activePools' + Pending' >= Cardinality(Owing')
    BY DEF CountCovers
  <2>1. /\ pc["master"] = "launch" /\ pc' = [pc EXCEPT !["master"] = "run"]
        /\ activePools' = activePools + Cardinality(pools) - 1
        /\ UNCHANGED <<pools, pflag, quitting>>
    BY <1>11 DEF Launch, Notify
  <2>2. ~Closing /\ pc["client"] # "count" /\ pc'["client"] # "count" /\ pc'["master"] = "run"
    BY <1>11, <2>1 DEF TypeInv
  <2>3. Owing' = Owing
    BY <1>11, <2>1 DEF TypeInv
  <2>4. Pending = Cardinality(pools) - 1 /\ Pending' = 0
    BY <1>11, <2>1, <2>2, PendingType, PoolsFinite DEF Pending, TypeInv
  <2>5. activePools + Pending >= Cardinality(Owing)
    BY <1>11, <2>2 DEF CountCovers
  <2>6. activePools \in Int /\ Cardinality(pools) \in Nat
    BY <1>11, PoolsFinite DEF TypeInv, TypePools
  <2> HIDE DEF Owing
  <2> QED
    BY <2>1, <2>3, <2>4, <2>5, <2>6, OwingFinite
<1>12. ASSUME TypeInv, TypeInv', Phases, NEW t \in Threads,
              Skip(t)
       PROVE CountKept
  BY <1>12 DEF TypeInv, Phases, Skip
<1>13. ASSUME TypeInv, TypeInv', Phases, NEW t \in Threads,
              StartExecute(t)
       PROVE CountKept
  BY <1>13 DEF TypeInv, Phases, StartExecute
<1>14. ASSUME TypeInv, TypeInv', Phases, NEW t \in Threads,
              EndExecute(t)
       PROVE CountKept
  BY <1>14 DEF TypeInv, Phases, EndExecute, MayCrash
<1>15. ASSUME TypeInv, TypeInv', Phases,
              PassDone("master", "step")
       PROVE CountKept
  BY <1>15 DEF TypeInv, Phases, PassDone
<1>16. ASSUME TypeInv, TypeInv', Phases, StepTest PROVE CountKept
  BY <1>16 DEF TypeInv, Phases, StepTest
<1>17. ASSUME TypeInv, TypeInv', Phases, StepWrite PROVE CountKept
  BY <1>17 DEF TypeInv, Phases, StepWrite
<1>18. ASSUME TypeInv, TypeInv', Phases, MasterTail PROVE CountKept
  BY <1>18 DEF TypeInv, Phases, MasterTail
<1>19. ASSUME TypeInv, TypeInv', Phases, MasterExit PROVE CountKept
  BY <1>19 DEF TypeInv, Phases, MasterExit
<1>20. ASSUME TypeInv, TypeInv', Phases, Handler PROVE CountKept
  BY <1>20 DEF TypeInv, Phases, Handler
<1>21. ASSUME TypeInv, TypeInv', Phases, HandlerNotify PROVE CountKept
  BY <1>21 DEF TypeInv, Phases, HandlerNotify, Notify, NotifyAll, Notified
<1> HIDE DEF CountKept
<1> QED
  BY CountFrame, <1>1, <1>2, <1>3, <1>4, <1>5, <1>6, <1>7, <1>8, <1>9,
      <1>10, <1>11, <1>12, <1>13, <1>14, <1>15, <1>16, <1>17, <1>18, <1>19,
      <1>20, <1>21 DEF Master, Pass

(* Falling asleep on the barrier, and waking up without a reason.          *)
LEMMA WaitCount ==
    TypeInv /\ TypeInv' /\ Phases /\ CountCovers /\ (\E t \in Threads : Sleep(t) \/ Wakeup(t))
        => CountCovers'
<1> USE ConstType DEF TypePc, LoadFirst, UnloadLast, HandlerLast,
      HandlerQuits, Owing, Owes, Closing, CountKept, syncVars, poolVars,
      moduleVars, roundVars, stackVars, callVars
<1>1. ASSUME TypeInv, TypeInv', Phases, NEW t \in Threads,
             Sleep(t)
      PROVE CountKept
  BY <1>1 DEF TypeInv, Phases, Sleep, Block
<1>2. ASSUME TypeInv, TypeInv', Phases, NEW t \in Threads,
             Wakeup(t)
      PROVE CountKept
  BY <1>2 DEF TypeInv, Phases, Wakeup, SpuriousWakeup
<1> HIDE DEF CountKept
<1> QED
  BY CountFrame, <1>1, <1>2 DEF TypeInv

------------------------------------------------------------------------------
(* The initial state satisfies the inductive invariant.                    *)
LEMMA IInvInit == Init => IInv
<1> SUFFICES ASSUME Init PROVE IInv
  OBVIOUS
<1>1. TypeInv /\ TypeBool
  BY TypesInit
<1>2. HandlerQuits /\ Registered /\ SubLowered /\ NoQuitYet
  BY ConstType DEF Init, HandlerQuits, Registered, SubLowered, NoQuitYet
<1>3. Quiet /\ SavedIdle
  BY ConstType DEF Init, Quiet, SavedIdle, BetweenRounds, Preparing,
      UnloadingDone
<1>4. CountCovers
  <2>1. Owing = {}
    BY ConstType DEF Init, Owing, Owes
  <2>2. Pending = 0 /\ activePools = 0
    BY ConstType DEF Init, Pending
  <2> QED
    BY <2>1, <2>2, FS_EmptySet DEF CountCovers
<1> QED
  BY <1>1, <1>2, <1>3, <1>4 DEF IInv, TypeInv, TypeOK

(* Every step, and every stutter, preserves it.                            *)
LEMMA IInvStep == IInv /\ [Next]_vars => IInv'
<1> SUFFICES ASSUME IInv, [Next]_vars PROVE IInv'
  OBVIOUS
<1>1. TypeInv /\ TypeBool /\ CountCovers
  BY DEF IInv, TypeInv, TypeOK
<1>2. Phases
  BY Zenon DEF IInv, TypeOK, TypeBool, Phases
<1>3. TypeInv' /\ TypeBool'
  BY <1>1, TypesStep
<1>4. Phases' /\ CountCovers'
  <2>1. CASE Next
    <3>1. Phases'
      BY <1>1, <1>2, <1>3, <2>1, Steps, PoolPhases, ClientPhases, UserPhases,
         UnloadingPhases, MasterPhases, WaitPhases DEF StepCase
    <3>2. CountCovers'
      BY <1>1, <1>2, <1>3, <2>1, Steps, PoolCount, ClientCount, UserCount,
         UnloadingCount, MasterCount, WaitCount DEF StepCase
    <3> QED
      BY <3>1, <3>2
  <2>2. CASE vars' = vars
    <3>1. UNCHANGED <<pc, activePools, pools, pflag, quitting, target, saved>>
      BY <2>2 DEF vars, poolVars, callVars
    <3>2. Phases'
      BY <1>2, <3>1 DEF Phases, HandlerQuits, Registered, Quiet, SubLowered,
         NoQuitYet, SavedIdle, Owes, BetweenRounds, Preparing, UnloadingDone, Closing
    <3>3. CountKept
      BY <3>1 DEF CountKept, Closing, Owing, Owes
    <3> QED
      BY <1>1, <1>3, <3>2, <3>3, CountFrame
  <2> QED
    BY <2>1, <2>2
<1>5. TypeOK' /\ LoadFirst' /\ UnloadLast' /\ HandlerLast'
  BY <1>3 DEF TypeInv, TypeOK
<1> QED
  BY <1>4, <1>5 DEF IInv, Phases

(* The inductive invariant holds in every reachable state                  *)
(* (control.cc:34-123 with 260-286).                                       *)
THEOREM Inductive == Spec => []IInv
  BY IInvInit, IInvStep, PTL DEF Spec

(* activePools never falls below the number of pools that are still busy,  *)
(* for any number of pools, modules and commands (control.cc:100, 167,     *)
(* 274): no subtraction is ever missed and no pool is counted too late.    *)
THEOREM CountCovered == Spec => []CountCovers
<1>1. IInv => CountCovers
  BY DEF IInv
<1> QED
  BY <1>1, Inductive, PTL

(* Between two rounds no pool executes a module, for any number of pools   *)
(* and modules: what the master does there without synchronisation         *)
(* (control.cc:82-99) is exclusive.                                        *)
THEOREM RoundsExclude == Spec => []RoundExclusion
<1>1. IInv => RoundExclusion
  BY DEF IInv, Quiet, RoundExclusion, Owes
<1> QED
  BY <1>1, Inductive, PTL

------------------------------------------------------------------------------
(* Nobody sleeps through the end of a round: who is inside the barrier is  *)
(* at one of its waits, and the barrier has a party for the master and for *)
(* every pool that has attached and not left.                              *)
WaitLabel == {"wait", "startSync", "sync", "pause"}
InsideWaits == \A t \in Threads : at[t] # "out" => pc[t] \in WaitLabel
PartiesCover == parties >= Cardinality(Attached) + 1

AwakeInv == /\ IInv /\ B!BarrierShape /\ QueuedExact
            /\ InsideWaits /\ PartiesCover /\ NobodyOversleeps

(* The attached pools are finitely many, and the master is one more.       *)
LEMMA AttachedFinite ==
    /\ IsFiniteSet(Attached) /\ Cardinality(Attached) \in Nat
    /\ IsFiniteSet(Attached \union {"master"})
    /\ Cardinality(Attached \union {"master"}) = Cardinality(Attached) + 1
<1>1. IsFiniteSet(Attached) /\ "master" \notin Attached
  BY ControlAssumption, ConstType, FS_Subset DEF Attached
<1> QED
  BY <1>1, FS_AddElement, FS_CardinalityType

(* No more threads are inside than there are parties; and if there are as  *)
(* many, the master and all attached pools are at their waits.             *)
LEMMA AllInside ==
    ASSUME TypePc, TypeBarrier, QueuedExact, InsideWaits, PartiesCover
    PROVE  /\ queued <= parties
           /\ queued = parties =>
                /\ parties = Cardinality(Attached) + 1
                /\ at["master"] # "out" /\ pc["master"] \in {"startSync", "sync", "pause"}
                /\ \A p \in Pools : /\ pc[p] \in {"unborn", "attach", "done", "wait"}
                                    /\ pc[p] = "wait" => at[p] # "out"
<1>1. Inside \subseteq Attached \union {"master"}
  BY DEF Inside, InsideWaits, WaitLabel, Attached, TypePc
<1>2. Cardinality(Inside) <= Cardinality(Attached \union {"master"})
      /\ (Cardinality(Inside) = Cardinality(Attached \union {"master"}) => Inside = Attached \union {"master"})
  BY <1>1, AttachedFinite, FS_Subset
<1>3. queued <= parties
  BY <1>2, AttachedFinite, InsideFinite DEF QueuedExact, PartiesCover, TypeBarrier
<1>4. ASSUME queued = parties
      PROVE  parties = Cardinality(Attached) + 1 /\ Inside = Attached \union {"master"}
  BY <1>2, <1>4, AttachedFinite, InsideFinite DEF QueuedExact, PartiesCover, TypeBarrier
<1>5. ASSUME queued = parties, NEW p \in Pools
      PROVE  /\ pc[p] \in {"unborn", "attach", "done", "wait"}
             /\ pc[p] = "wait" => at[p] # "out"
  BY <1>4, <1>5, ConstType DEF Inside, InsideWaits, WaitLabel, Attached, TypePc
<1>6. ASSUME queued = parties
      PROVE  at["master"] # "out" /\ pc["master"] \in {"startSync", "sync", "pause"}
  BY <1>4, <1>6 DEF Inside, InsideWaits, WaitLabel, TypePc
<1> QED
  BY <1>3, <1>4, <1>5, <1>6

(* A step beside the barrier: nobody goes in or out, who waits stays where *)
(* he is, and nobody who is inside comes to be wanted once all are inside. *)
Aside ==
    /\ queued' = queued
    /\ \A t \in Threads :
          /\ at'[t] \in {at[t], "wake"}
                \/ (at[t] = "block" /\ at'[t] = "sleep")
          /\ at'[t] = "out" <=> at[t] = "out"
    /\ \A t \in Threads : pc[t] \in WaitLabel => pc'[t] = pc[t]
    /\ \/ parties' = parties /\ Attached' \subseteq Attached
       \/ parties' = parties + 1 /\ \E p \in Pools : Attached' \subseteq Attached \union {p}
    /\ queued = parties /\ parties' = parties =>
          \A t \in Threads : pc[t] \in WaitLabel /\ Wanted(t)' => Wanted(t)

(* A step aside keeps the invariant: nobody comes to be wanted who sleeps. *)
LEMMA AsideKeeps ==
    ASSUME AwakeInv, TypePc', TypeBarrier', QueuedExact', Aside
    PROVE  InsideWaits' /\ PartiesCover' /\ NobodyOversleeps'
<1> USE DEF AwakeInv
<1>0. TypePc /\ TypeBarrier
  BY DEF IInv, TypeOK
<1>1. InsideWaits'
  BY DEF Aside, InsideWaits
<1>2. PartiesCover'
  <2>1. CASE parties' = parties /\ Attached' \subseteq Attached
    <3>1. Cardinality(Attached') <= Cardinality(Attached) /\ Cardinality(Attached') \in Nat
      BY <2>1, AttachedFinite, FS_Subset, FS_CardinalityType
    <3> QED
      BY <1>0, <2>1, <3>1, AttachedFinite DEF PartiesCover, TypeBarrier
  <2>2. ASSUME NEW p \in Pools, parties' = parties + 1, Attached' \subseteq Attached \union {p}
        PROVE  PartiesCover'
    <3>1. /\ IsFiniteSet(Attached \union {p})
          /\ Cardinality(Attached \union {p}) \in Nat
          /\ Cardinality(Attached \union {p}) <= Cardinality(Attached) + 1
      <4>1. CASE p \in Attached
        <5> DEFINE A == Attached \union {p}
        <5>1. A = Attached
          BY <4>1
        <5> HIDE DEF A
        <5>2. IsFiniteSet(A) /\ Cardinality(A) \in Nat /\ Cardinality(A) <= Cardinality(Attached) + 1
          BY <5>1, AttachedFinite
        <5> QED
          BY <5>2 DEF A
      <4>2. CASE p \notin Attached
        BY <4>2, AttachedFinite, FS_AddElement, FS_CardinalityType
      <4> QED
        BY <4>1, <4>2
    <3>2. Cardinality(Attached') <= Cardinality(Attached \union {p}) /\ Cardinality(Attached') \in Nat
      BY <2>2, <3>1, FS_Subset, FS_CardinalityType
    <3> QED
      BY <1>0, <2>2, <3>1, <3>2, AttachedFinite DEF PartiesCover, TypeBarrier
  <2> QED
    BY <2>1, <2>2 DEF Aside
<1>3. NobodyOversleeps'
  <2> SUFFICES ASSUME queued' = parties', NEW t \in Threads, at'[t] \in {"block", "sleep"}
               PROVE  ~Wanted(t)'
    BY DEF NobodyOversleeps
  <2>1. queued = parties /\ parties' = parties
    BY <1>0, AllInside DEF Aside, TypeBarrier
  <2>2. at[t] \in {"block", "sleep"}
    BY DEF Aside
  <2>3. ~Wanted(t) /\ pc[t] \in WaitLabel
    BY <2>1, <2>2 DEF NobodyOversleeps, InsideWaits
  <2> QED
    BY <2>1, <2>3 DEF Aside
<1> QED
  BY <1>1, <1>2, <1>3

(* A wait: the thread goes in, or tests its predicate again.               *)
Waits(t, pred) ==
    /\ pc[t] \in WaitLabel
    /\ Arrive(t, pred) \/ Recheck(t, pred)
    /\ pred = TRUE => \A u \in Threads \ {t} : pc'[u] = pc[u]
    /\ pred = FALSE => pc' = pc /\ ~Wanted(t)
    /\ Attached' = Attached
    /\ UNCHANGED <<activePools, pflag>>

(* A wait keeps it: who goes to sleep has just found nothing to do.        *)
LEMMA WaitsKeeps ==
    ASSUME AwakeInv, TypePc', TypeBarrier', QueuedExact', B!BarrierShape',
           NEW t \in Threads, NEW pred \in BOOLEAN, Waits(t, pred)
    PROVE  InsideWaits' /\ PartiesCover' /\ NobodyOversleeps'
<1> USE DEF AwakeInv
<1>0. /\ TypePc /\ TypeBarrier
      /\ at \in [Threads -> WaitState] /\ at' \in [Threads -> WaitState]
  BY DEF IInv, TypeOK, TypeBarrier
<1>1. /\ parties' = parties
      /\ at'[t] = IF pred THEN "out" ELSE "block"
      /\ \A u \in Threads \ {t} : at'[u] = at[u] \/ (at[u] = "sleep" /\ at'[u] = "wake")
      /\ \A u \in Threads \ {t} : at'[u] # "block"
  <2>1. CASE Arrive(t, pred)
    BY <1>0, <2>1 DEF Arrive, Notified, MutexFree
  <2>2. CASE Recheck(t, pred)
    BY <1>0, <2>2 DEF Recheck, MutexFree
  <2> QED
    BY <2>1, <2>2 DEF Waits
<1>2. InsideWaits'
  BY <1>0, <1>1 DEF InsideWaits, Waits
<1>3. PartiesCover'
  BY <1>1 DEF PartiesCover, Waits
<1>4. \A u \in Threads \ {t} : Wanted(u)' => Wanted(u)
  BY <1>1 DEF Waits, Wanted
<1>5. NobodyOversleeps'
  <2> SUFFICES ASSUME queued' = parties', NEW u \in Threads, at'[u] \in {"block", "sleep"}
               PROVE  ~Wanted(u)'
    BY DEF NobodyOversleeps
  <2>1. CASE u = t
    BY <1>1, <2>1 DEF Waits, Wanted
  <2>2. CASE u # t /\ Arrive(t, pred)
    <3>1. pred = FALSE /\ queued' = queued + 1
      <4>1. CASE pred = TRUE
        <5>1. queued = parties
          BY <1>1, <2>2, <4>1 DEF Arrive
        <5>2. at[t] # "out"
          BY <5>1, <1>0, AllInside DEF Waits, WaitLabel, TypePc
        <5> QED
          BY <2>2, <5>2 DEF Arrive
      <4> QED
        BY <2>2, <4>1 DEF Arrive
    <3>2. at' = [Notified EXCEPT ![t] = "block"]
      BY <1>1, <2>2, <3>1 DEF Arrive
    <3> QED
      BY <1>0, <2>2, <3>2 DEF Notified, Arrive, MutexFree
  <2>3. CASE u # t /\ Recheck(t, pred)
    <3>1. pred = FALSE /\ queued = parties
      <4>1. queued <= parties
        BY <1>0, AllInside
      <4> QED
        BY <1>0, <1>1, <2>3, <4>1 DEF Recheck, TypeBarrier
    <3>2. at[u] \in {"block", "sleep"}
      BY <1>1, <2>3
    <3> QED
      BY <1>4, <2>3, <3>1, <3>2 DEF NobodyOversleeps
  <2> QED
    BY <2>1, <2>2, <2>3 DEF Waits
<1> QED
  BY <1>2, <1>3, <1>5

(* A step that only notifies, or only falls asleep or wakes up.            *)
Untouched == \/ UNCHANGED syncVars
             \/ NotifyAll
             \/ \E t \in Threads : Block(t) \/ SpuriousWakeup(t)

(* Such a step lets nobody in and nobody out.                              *)
LEMMA UntouchedMoves ==
    ASSUME TypeBarrier, Untouched
    PROVE  /\ UNCHANGED <<parties, queued>>
           /\ \A t \in Threads :
                 /\ at'[t] \in {at[t], "wake"}
                       \/ (at[t] = "block" /\ at'[t] = "sleep")
                 /\ at'[t] = "out" <=> at[t] = "out"
  BY DEF TypeBarrier, Untouched, syncVars, NotifyAll, Notified, Block, SpuriousWakeup

(* The master is not at a wait, so not all are inside.                     *)
LEMMA MasterBusy ==
    ASSUME AwakeInv, Untouched, pc["master"] \notin {"startSync", "sync", "pause"},
           \A p \in Pools : pc'[p] = pc[p]
    PROVE  Aside
<1>1. TypePc /\ TypeBarrier
  BY DEF AwakeInv, IInv, TypeOK
<1>2. queued # parties
  BY <1>1, AllInside DEF AwakeInv
<1>3. pc["master"] \notin WaitLabel
  BY <1>1 DEF TypePc, WaitLabel
<1>4. Attached' = Attached
  BY DEF Attached
<1> QED
  BY <1>1, <1>2, <1>3, <1>4, UntouchedMoves DEF Aside

(* A pool that has attached is not at its wait.                            *)
LEMMA PoolBusy ==
    ASSUME AwakeInv, Untouched, NEW p \in Pools, pc[p] \notin {"unborn", "attach", "done", "wait"},
           \A t \in Threads \ {p} : pc'[t] = pc[t]
    PROVE  Aside
<1>1. TypePc /\ TypeBarrier
  BY DEF AwakeInv, IInv, TypeOK
<1>2. queued # parties
  BY <1>1, AllInside DEF AwakeInv
<1>3. pc[p] \notin WaitLabel
  BY <1>1 DEF TypePc, WaitLabel
<1>4. Attached' \subseteq Attached
  BY ConstType DEF Attached
<1> QED
  BY <1>1, <1>2, <1>3, <1>4, UntouchedMoves DEF Aside

(* Nothing changes that a thread waits for.                                *)
LEMMA NothingComes ==
    ASSUME AwakeInv, Untouched, UNCHANGED <<activePools, pflag>>,
           \A t \in Threads : pc'[t] = pc[t]
    PROVE  Aside
<1>1. TypeBarrier
  BY DEF AwakeInv, IInv, TypeOK
<1>2. Attached' = Attached
  BY DEF Attached
<1>3. \A t \in Threads : Wanted(t)' => Wanted(t)
  BY DEF Wanted
<1> QED
  BY <1>1, <1>2, <1>3, UntouchedMoves DEF Aside

(* Aside from the barrier, or one of its waits.                            *)
AwakeStep == Aside \/ \E t \in Threads, pred \in BOOLEAN : Waits(t, pred)

(* The steps of a pool thread (poolController, control.cc:258-286).        *)
LEMMA PoolAwake == AwakeInv /\ (\E p \in Pools : Pool(p)) => AwakeStep
<1> SUFFICES ASSUME AwakeInv, NEW p \in Pools, Pool(p) PROVE AwakeStep
  OBVIOUS
<1>0. /\ TypePc /\ TypeBarrier
      /\ pc \in [Threads \union {"client"} -> Label]
  BY DEF AwakeInv, IInv, TypeOK, TypePc
<1>1. CASE Attach(p)
  <2>1. /\ parties' = parties + 1 /\ UNCHANGED <<queued, at>>
        /\ pc' = [pc EXCEPT ![p] = "head"] /\ pc[p] = "attach"
    BY <1>1 DEF Attach, AttachParty
  <2>2. \A t \in Threads : pc[t] \in WaitLabel => pc'[t] = pc[t]
    BY <2>1 DEF WaitLabel
  <2>3. Attached' \subseteq Attached \union {p}
    BY <1>0, <2>1, ConstType DEF Attached
  <2>4. parties' # parties
    BY <1>0, <2>1 DEF TypeBarrier
  <2> QED
    BY <2>1, <2>2, <2>3, <2>4 DEF Aside, AwakeStep
<1>2. ASSUME NEW label \in Label, pc' = [pc EXCEPT ![p] = label], UNCHANGED syncVars,
             pc[p] \notin {"unborn", "attach", "done", "wait"}
      PROVE  AwakeStep
  BY <1>0, <1>2, ConstType, PoolBusy DEF Untouched, AwakeStep
<1>3. CASE PoolHead(p)
  <2>1. UNCHANGED syncVars
    BY <1>3 DEF PoolHead
  <2> QED
    BY <1>2, <1>3, <2>1, HeadStep
<1>4. CASE Pass(p)
  <2>1. pc[p] \in {"run", "exec"} /\ \E label \in Label : pc' = [pc EXCEPT ![p] = label]
    <3>1. CASE Skip(p)
      <4>1. pc' = [pc EXCEPT ![p] = "run"] /\ pc[p] = "run"
        BY <1>0, <3>1 DEF Skip
      <4> QED
        BY <4>1
    <3>2. CASE StartExecute(p)
      BY <3>2 DEF StartExecute
    <3>3. CASE EndExecute(p)
      BY <3>3 DEF EndExecute
    <3> QED
      BY <1>4, <3>1, <3>2, <3>3 DEF Pass
  <2>2. UNCHANGED syncVars
    BY <1>4 DEF Pass, Skip, StartExecute, EndExecute
  <2> QED
    BY <1>2, <2>1, <2>2
<1>5. CASE PassDone(p, "finish") \/ PoolFinish(p) \/ PoolFinishWrite(p) \/ PoolSub(p) \/ PoolErase(p)
  <2>1. /\ pc[p] \in {"run", "finish", "finishWrite", "sub", "erase"}
        /\ UNCHANGED syncVars
        /\ \E label \in Label : pc' = [pc EXCEPT ![p] = label]
    BY <1>5 DEF PassDone, PoolFinish, PoolFinishWrite, PoolSub, PoolErase
  <2> QED
    BY <1>2, <2>1
<1>6. CASE PoolWait(p)
  <2> DEFINE pred == pflag[p] # "WAIT"
  <2>1. /\ pc[p] = "wait"
        /\ pc' = IF pred THEN [pc EXCEPT ![p] = "head"] ELSE pc
        /\ UNCHANGED <<activePools, pflag>>
    BY <1>6 DEF PoolWait, Enqueue, poolVars
  <2>2. pred \in BOOLEAN /\ (pred = FALSE => ~Wanted(p))
    BY ConstType DEF Wanted
  <2>3. Attached' = Attached
    <3>1. pc' = [pc EXCEPT ![p] = "head"] \/ pc' = pc
      BY <2>1
    <3>2. \A q \in Pools : pc'[q] = pc[q] \/ (q = p /\ pc'[q] = "head")
      BY <1>0, <3>1
    <3> QED
      BY <2>1, <3>2 DEF Attached
  <2>4. pred = TRUE => \A u \in Threads \ {p} : pc'[u] = pc[u]
    BY <1>0, <2>1
  <2>5. pred = FALSE => pc' = pc
    BY <2>1
  <2>6. pc[p] \in WaitLabel
    BY <1>6 DEF PoolWait, WaitLabel
  <2>7. Arrive(p, pred) \/ Recheck(p, pred)
    BY <1>6 DEF PoolWait, Enqueue
  <2> HIDE DEF pred
  <2>8. Waits(p, pred)
    BY <2>1, <2>2, <2>3, <2>4, <2>5, <2>6, <2>7 DEF Waits
  <2> QED
    BY <2>2, <2>8 DEF AwakeStep
<1> QED
  BY <1>1, <1>3, <1>4, <1>5, <1>6 DEF Pool

(* The steps of the master controller, but for unloading                   *)
(* (control.cc:36-141).                                                    *)
LEMMA MasterAwake == AwakeInv /\ Master /\ ~Unloading("master") => AwakeStep
<1> SUFFICES ASSUME AwakeInv, Master, ~Unloading("master") PROVE AwakeStep
  OBVIOUS
<1>0. /\ TypePc /\ TypeBarrier
      /\ pc \in [Threads \union {"client"} -> Label]
  BY DEF AwakeInv, IInv, TypeOK, TypePc
<1>1. ASSUME NEW label \in Label, pc' = [pc EXCEPT !["master"] = label], UNCHANGED syncVars \/ NotifyAll,
             pc["master"] \notin {"startSync", "sync", "pause"}
      PROVE  AwakeStep
  BY <1>0, <1>1, ConstType, MasterBusy DEF Untouched, AwakeStep
<1>2. CASE Startup \/ HandlerNotify \/ Launch
  BY <1>1, <1>2 DEF Startup, HandlerNotify, Launch, Notify
<1>3. CASE Reset \/ MasterHead \/ DispatchIdle \/ DispatchRound \/ ContinueCheck \/ Arm
  <2>1. /\ pc["master"] \notin {"startSync", "sync", "pause"} /\ UNCHANGED syncVars
        /\ \E label \in Label : pc' = [pc EXCEPT !["master"] = label]
    BY <1>3 DEF Reset, MasterHead, DispatchIdle, DispatchRound, ContinueCheck, Arm
  <2> QED
    BY <1>1, <2>1
<1>4. CASE \E m \in unchecked : Check(m) \/ CheckDone(m)
  <2>1. /\ pc["master"] = "check" /\ UNCHANGED syncVars
        /\ \E label \in Label : pc' = [pc EXCEPT !["master"] = label]
    <3>1. PICK m \in unchecked : Check(m) \/ CheckDone(m)
      BY <1>4
    <3>2. CASE Check(m)
      <4>1. pc' = [pc EXCEPT !["master"] = "check"] /\ pc["master"] = "check"
        BY <1>0, <3>2 DEF Check
      <4> QED
        BY <3>2, <4>1 DEF Check
    <3>3. CASE CheckDone(m)
      BY <3>3 DEF CheckDone
    <3> QED
      BY <3>1, <3>2, <3>3
  <2> QED
    BY <1>1, <2>1
<1>5. CASE Pass("master")
  <2>1. pc["master"] \in {"run", "exec"} /\ \E label \in Label : pc' = [pc EXCEPT !["master"] = label]
    <3>1. CASE Skip("master")
      <4>1. pc' = [pc EXCEPT !["master"] = "run"] /\ pc["master"] = "run"
        BY <1>0, <3>1 DEF Skip
      <4> QED
        BY <4>1
    <3>2. CASE StartExecute("master")
      BY <3>2 DEF StartExecute
    <3>3. CASE EndExecute("master")
      BY <3>3 DEF EndExecute
    <3> QED
      BY <1>5, <3>1, <3>2, <3>3 DEF Pass
  <2>2. UNCHANGED syncVars
    BY <1>5 DEF Pass, Skip, StartExecute, EndExecute
  <2> QED
    BY <1>1, <2>1, <2>2
<1>6. CASE PassDone("master", "step") \/ StepTest \/ StepWrite \/ MasterTail \/ MasterExit \/ Handler
  <2>1. /\ pc["master"] \notin {"startSync", "sync", "pause"} /\ UNCHANGED syncVars
        /\ \E label \in Label : pc' = [pc EXCEPT !["master"] = label]
    BY <1>6 DEF PassDone, StepTest, StepWrite, MasterTail, MasterExit, Handler
  <2> QED
    BY <1>1, <2>1
<1>7. CASE MasterWait
  <2>1. ASSUME NEW pred \in BOOLEAN, NEW label, Enqueue("master", pred, label),
               pc["master"] \in {"startSync", "sync", "pause"}, pred = FALSE => ~Wanted("master")
        PROVE  AwakeStep
    <3>1. /\ Arrive("master", pred) \/ Recheck("master", pred)
          /\ pc' = IF pred THEN [pc EXCEPT !["master"] = label] ELSE pc
          /\ UNCHANGED <<activePools, pflag>>
      BY <1>7, <2>1 DEF MasterWait, Enqueue, poolVars
    <3>2. /\ pred = TRUE => \A u \in Threads \ {"master"} : pc'[u] = pc[u]
          /\ pred = FALSE => pc' = pc
          /\ Attached' = Attached
      BY <1>0, <3>1, ConstType DEF Attached
    <3>3. Waits("master", pred)
      BY <2>1, <3>1, <3>2 DEF Waits, WaitLabel
    <3> QED
      BY <3>3 DEF AwakeStep
  <2>2. ASSUME NEW pred, pred = (activePools = 0), pred = FALSE, pc["master"] \in {"startSync", "sync"}
        PROVE  ~Wanted("master")
    BY <2>2 DEF Wanted
  <2>3. pc["master"] = "pause" => ~Wanted("master")
    BY DEF Wanted
  <2>4. (activePools = 0) \in BOOLEAN /\ (flag # "PAUSE") \in BOOLEAN
    OBVIOUS
  <2>5. CASE pc["master"] = "startSync" /\ Enqueue("master", activePools = 0, "reset")
    BY <2>1, <2>2, <2>4, <2>5
  <2>6. CASE pc["master"] = "sync" /\ Enqueue("master", activePools = 0, "dispatch")
    BY <2>1, <2>2, <2>4, <2>6
  <2>7. CASE pc["master"] = "pause" /\ Enqueue("master", flag # "PAUSE", "tail")
    BY <2>1, <2>3, <2>4, <2>7
  <2> QED
    BY <1>7, <2>5, <2>6, <2>7 DEF MasterWait
<1> QED
  BY <1>2, <1>3, <1>4, <1>5, <1>6, <1>7 DEF Master

(* The steps the client's thread takes on its own, but for unloading.      *)
LEMMA ClientAwake == AwakeInv /\ Client /\ ~Unloading("client") => AwakeStep
<1> SUFFICES ASSUME AwakeInv, Client, ~Unloading("client") PROVE AwakeStep
  OBVIOUS
<1>0. /\ TypePc /\ TypeBarrier /\ TypeStack
      /\ pc \in [Threads \union {"client"} -> Label]
      /\ LoadFirst /\ Registered
  BY DEF AwakeInv, IInv, TypeOK, TypePc
<1>1. ASSUME NEW label \in Label, pc' = pc \/ pc' = [pc EXCEPT !["client"] = label],
             UNCHANGED syncVars \/ NotifyAll, UNCHANGED <<activePools, pflag>>
      PROVE  AwakeStep
  BY <1>0, <1>1, ConstType, NothingComes DEF Untouched, AwakeStep
<1>2. CASE LoadIntoPool \/ PushFirst \/ Assign \/ FirstRun \/ Alarm \/ Join
  <2>1. /\ UNCHANGED syncVars /\ UNCHANGED <<activePools, pflag>>
        /\ pc' = pc \/ \E label \in Label : pc' = [pc EXCEPT !["client"] = label]
    BY <1>2 DEF LoadIntoPool, PushFirst, Assign, FirstRun, Alarm, Send, Join, poolVars
  <2> QED
    BY <1>1, <2>1
<1>3. CASE CommandNotify \/ SwapNotify
  <2>1. /\ NotifyAll /\ UNCHANGED <<activePools, pflag>>
        /\ \E label \in Label : pc' = [pc EXCEPT !["client"] = label]
    BY <1>3 DEF CommandNotify, SwapNotify, Notify, poolVars
  <2> QED
    BY <1>1, <2>1
<1>4. CASE WhileActive("client", "swapWait") \/ SwapPause \/ StartSwap \/ EndSwap \/ Delete
  <2>1. /\ UNCHANGED syncVars \/ NotifyAll
        /\ UNCHANGED <<activePools, pflag>>
        /\ pc' = pc \/ \E label \in Label : pc' = [pc EXCEPT !["client"] = label]
    BY <1>4 DEF WhileActive, SwapPause, StartSwap, EndSwap, Delete, poolVars
  <2> QED
    BY <1>1, <2>1
<1>5. CASE CountPool \/ Fork
  <2>1. /\ UNCHANGED syncVars /\ \A p \in Pools : pc'[p] = pc[p]
    BY <1>0, <1>5, ConstType DEF CountPool, Fork
  <2>2. pc["master"] = "unborn"
    BY <1>0, <1>5 DEF CountPool, Fork, LoadFirst
  <2> QED
    BY <2>1, <2>2, MasterBusy DEF Untouched, AwakeStep
<1>6. CASE LoadNewPool
  <2> DEFINE p == PoolName[Head(todo)]
  <2>1. /\ UNCHANGED syncVars /\ p \notin pools
        /\ pc' = [pc EXCEPT !["client"] = "count", ![p] = "attach"]
        /\ pc["client"] = "load"
    BY <1>6 DEF LoadNewPool
  <2>2. p \in Pools
    <3>1. Head(todo) \in Modules
      BY <1>0, <1>6 DEF LoadNewPool, TypeStack
    <3>2. "master" \in pools
      BY DEF AwakeInv, IInv, TypeOK, TypePools
    <3> QED
      BY <2>1, <3>1, <3>2, ConstType
  <2> HIDE DEF p
  <2>3. pc[p] \in {"unborn", "done"} /\ pc["master"] = "unborn"
    BY <1>0, <2>1, <2>2 DEF Registered, LoadFirst
  <2>4. /\ \A q \in Threads \ {p} : pc'[q] = pc[q]
        /\ pc'[p] = "attach"
    BY <1>0, <2>1, <2>2, ConstType
  <2>5. queued # parties
    BY <1>0, <2>3, AllInside DEF AwakeInv
  <2>6. Attached' = Attached
    BY <2>3, <2>4, ConstType DEF Attached
  <2>7. \A t \in Threads : pc[t] \in WaitLabel => pc'[t] = pc[t]
    BY <2>3, <2>4 DEF WaitLabel
  <2>8. Aside
    BY <1>0, <2>1, <2>5, <2>6, <2>7, UntouchedMoves DEF Aside, Untouched
  <2> QED
    BY <2>8 DEF AwakeStep
<1> QED
  BY <1>2, <1>3, <1>4, <1>5, <1>6 DEF Client

(* Whoever unloads, the master is not at the barrier: it unloads itself, or *)
(* it is gone.                                                             *)
LEMMA UnloadingAwake == AwakeInv /\ (\E c \in Callers : Unloading(c)) => AwakeStep
<1> SUFFICES ASSUME AwakeInv, NEW c \in Callers, Unloading(c) PROVE AwakeStep
  OBVIOUS
<1>0. /\ TypePc /\ UnloadLast
      /\ pc \in [Threads \union {"client"} -> Label]
  BY DEF AwakeInv, IInv, TypeOK, TypePc
<1>1. pc[c] \in QuitLabel
  BY DEF Unloading, UnloadNext, AllUnloaded, Unload, StopPause, StopNotify, Stop, WhileActive,
         RemoveFromPool, OnceInactive, Restore, Free, Resume, ResumeNotify, PopUnloaded
<1>2. pc["master"] \notin {"startSync", "sync", "pause"}
  BY <1>0, <1>1 DEF UnloadLast
<1>3. pc' = pc \/ \E label \in Label : pc' = [pc EXCEPT ![c] = label]
  <2>1. CASE UnloadNext(c) \/ AllUnloaded(c) \/ Unload(c) \/ StopPause(c) \/ Stop(c) \/ Free(c)
    BY <2>1 DEF UnloadNext, AllUnloaded, Unload, StopPause, Stop, Free
  <2>2. CASE StopNotify(c) \/ Restore(c) \/ Resume(c) \/ ResumeNotify(c) \/ PopUnloaded(c)
    BY <2>2 DEF StopNotify, Restore, Resume, ResumeNotify, PopUnloaded, Notify
  <2>3. CASE WhileActive(c, "inactive") \/ RemoveFromPool(c)
    BY <2>3 DEF WhileActive, RemoveFromPool
  <2> QED
    BY <2>1, <2>2, <2>3 DEF Unloading
<1>4. UNCHANGED syncVars \/ NotifyAll
  <2>1. CASE UnloadNext(c) \/ AllUnloaded(c) \/ Unload(c) \/ StopPause(c) \/ Stop(c) \/ Free(c)
    BY <2>1 DEF UnloadNext, AllUnloaded, Unload, StopPause, Stop, Free
  <2>2. CASE StopNotify(c) \/ Restore(c) \/ Resume(c) \/ ResumeNotify(c) \/ PopUnloaded(c)
    BY <2>2 DEF StopNotify, Restore, Resume, ResumeNotify, PopUnloaded, Notify
  <2>3. CASE WhileActive(c, "inactive") \/ RemoveFromPool(c)
    BY <2>3 DEF WhileActive, RemoveFromPool
  <2> QED
    BY <2>1, <2>2, <2>3 DEF Unloading
<1>5. \A p \in Pools : pc'[p] = pc[p]
  BY <1>0, <1>3, ConstType
<1> QED
  BY <1>2, <1>4, <1>5, MasterBusy DEF Untouched, AwakeStep

(* Every step, and every stutter.                                          *)
LEMMA AwakeSteps == AwakeInv /\ [Next]_vars => AwakeStep
<1> SUFFICES ASSUME AwakeInv, [Next]_vars PROVE AwakeStep
  OBVIOUS
<1>1. CASE User
  <2>1. /\ UNCHANGED syncVars /\ UNCHANGED <<activePools, pflag>>
        /\ \A t \in Threads : pc'[t] = pc[t]
    <3>1. UNCHANGED syncVars /\ UNCHANGED <<activePools, pflag>>
          /\ \E label : pc' = [pc EXCEPT !["client"] = label]
      BY <1>1 DEF User, Command, Send, HotSwap, poolVars
    <3> QED
      BY <3>1, ConstType
  <2> QED
    BY <2>1, NothingComes DEF Untouched, AwakeStep
<1>2. ASSUME NEW t \in Threads, Sleep(t) \/ Wakeup(t) PROVE AwakeStep
  <2>1. Block(t) \/ SpuriousWakeup(t)
    BY <1>2 DEF Sleep, Wakeup
  <2>2. UNCHANGED <<pc, activePools, pflag>>
    BY <1>2 DEF Sleep, Wakeup, poolVars
  <2> QED
    BY <2>1, <2>2, NothingComes DEF Untouched, AwakeStep
<1>3. CASE vars' = vars
  <2>1. UNCHANGED <<pc, syncVars, activePools, pflag>>
    BY <1>3 DEF vars, poolVars, syncVars
  <2> QED
    BY <2>1, NothingComes DEF Untouched, AwakeStep
<1> QED
  BY <1>1, <1>2, <1>3, Steps, PoolAwake, ClientAwake, UnloadingAwake, MasterAwake DEF StepCase

(* Initially only the master is a party, and nobody is inside.             *)
LEMMA AwakeInit == Init => AwakeInv
<1> SUFFICES ASSUME Init PROVE AwakeInv
  OBVIOUS
<1>1. InsideWaits /\ NobodyOversleeps
  BY DEF Init, InsideWaits, NobodyOversleeps
<1>2. Attached = {} /\ parties = 1
  BY ConstType DEF Init, Attached
<1>3. PartiesCover
  BY <1>2, FS_EmptySet DEF PartiesCover
<1> QED
  BY <1>1, <1>3, IInvInit, CountedInit DEF AwakeInv

(* Every step, and every stutter, keeps the invariant of the sleepers.     *)
LEMMA AwakeStays == AwakeInv /\ [Next]_vars => AwakeInv'
<1> SUFFICES ASSUME AwakeInv, [Next]_vars PROVE AwakeInv'
  OBVIOUS
<1>1. IInv' /\ B!BarrierShape' /\ QueuedExact'
  BY IInvStep, CountedStep DEF AwakeInv
<1>2. TypePc' /\ TypeBarrier'
  BY <1>1 DEF IInv, TypeOK
<1>3. InsideWaits' /\ PartiesCover' /\ NobodyOversleeps'
  BY <1>1, <1>2, AwakeSteps, AsideKeeps, WaitsKeeps DEF AwakeStep
<1> QED
  BY <1>1, <1>3 DEF AwakeInv

(* Once every party is inside the barrier, nobody sleeps there who could   *)
(* go on (barrier.cc:43-53), for any number of pools, whatever commands    *)
(* arrive and whoever is notified when: every missed notification is made  *)
(* up for by the last party to arrive.                                     *)
THEOREM NobodyForgotten == Spec => []NobodyOversleeps
<1>1. AwakeInv => NobodyOversleeps
  BY DEF AwakeInv
<1> QED
  BY <1>1, AwakeInit, AwakeStays, PTL DEF Spec

------------------------------------------------------------------------------
(* The count from above.  A step that keeps it: the pools that owe still   *)
(* owe, nobody attaches; or the master is leaving.                         *)
MetKept ==
    \/ Closing'
    \/ /\ ~Closing
       /\ Owing \subseteq Owing' /\ Attached' = Attached
       /\ UNCHANGED <<parties, activePools, pools>>
       /\ pc'["client"] = "count" <=> pc["client"] = "count"
       /\ pc'["master"] = "launch" <=> pc["master"] = "launch"

(* What is compared are integers.                                          *)
LEMMA MetTypes ==
    TypeInv => /\ activePools \in Int /\ Pending \in Int /\ parties \in Int
               /\ Cardinality(Owing) \in Nat /\ Cardinality(Attached) \in Nat
  BY PendingType, OwingFinite, AttachedFinite DEF TypeInv, TypePools, TypeBarrier

(* Such a step preserves CountMet.                                         *)
LEMMA MetFrame == TypeInv /\ TypeInv' /\ CountMet /\ MetKept => CountMet'
<1> SUFFICES ASSUME TypeInv, TypeInv', CountMet, MetKept, ~Closing'
             PROVE  activePools' + Pending' <= Cardinality(Owing') + LeftBehind'
  BY DEF CountMet
<1>1. /\ ~Closing /\ Owing \subseteq Owing' /\ Attached' = Attached
      /\ activePools' = activePools /\ parties' = parties
  BY DEF MetKept
<1>2. Pending' = Pending
  BY DEF MetKept, Pending
<1>3. IsFiniteSet(Owing')
  BY ControlAssumption, FS_Subset DEF Owing
<1>4. Cardinality(Owing') \in Nat /\ Cardinality(Owing) <= Cardinality(Owing')
  BY <1>1, <1>3, FS_Subset, FS_CardinalityType
<1> QED
  BY <1>1, <1>2, <1>4, MetTypes DEF CountMet, LeftBehind

(* The count from above, thread by thread.                                 *)
(* The steps of a pool thread (poolController, moduleController).          *)
LEMMA PoolMet ==
    TypeInv /\ TypeInv' /\ Phases /\ CountMet /\ (\E p \in Pools : Pool(p))
        => CountMet'
<1> USE ConstType DEF TypePc, LoadFirst, UnloadLast, HandlerLast,
      HandlerQuits, Owing, Owes, Attached, Closing, MetKept, syncVars, poolVars,
      moduleVars, roundVars, stackVars, callVars
<1>1. ASSUME TypeInv, TypeInv', Phases, CountMet, NEW p \in Pools,
             Attach(p)
      PROVE CountMet'
  <2> SUFFICES ASSUME ~Closing' PROVE activePools' + Pending' <= Cardinality(Owing') + LeftBehind'
    BY DEF CountMet
  <2>1. /\ pc[p] = "attach" /\ pc' = [pc EXCEPT ![p] = "head"]
        /\ parties' = parties + 1
        /\ UNCHANGED <<activePools, pools, pflag, quitting>>
    BY <1>1 DEF Attach, AttachParty
  <2>2. Owing' = Owing /\ ~Closing
    BY <1>1, <2>1 DEF TypeInv
  <2>3. p \notin Attached /\ Attached' = Attached \union {p}
    BY <1>1, <2>1 DEF TypeInv
  <2>4. Pending' = Pending
    BY <1>1, <2>1 DEF TypeInv, Pending
  <2>5. Cardinality(Attached') = Cardinality(Attached) + 1
    <3> HIDE DEF Attached
    <3> QED
      BY <2>3, AttachedFinite, FS_AddElement
  <2> HIDE DEF Owing, Attached
  <2> QED
    BY <1>1, <2>1, <2>2, <2>4, <2>5, MetTypes DEF CountMet, LeftBehind
<1>2. ASSUME TypeInv, TypeInv', Phases, NEW p \in Pools,
             PoolHead(p)
      PROVE MetKept
  BY <1>2 DEF TypeInv, Phases, PoolHead
<1>3. ASSUME TypeInv, TypeInv', Phases, NEW t \in Threads,
             Skip(t)
      PROVE MetKept
  BY <1>3 DEF TypeInv, Phases, Skip
<1>4. ASSUME TypeInv, TypeInv', Phases, NEW t \in Threads,
             StartExecute(t)
      PROVE MetKept
  BY <1>4 DEF TypeInv, Phases, StartExecute
<1>5. ASSUME TypeInv, TypeInv', Phases, NEW t \in Threads,
             EndExecute(t)
      PROVE MetKept
  BY <1>5 DEF TypeInv, Phases, EndExecute, MayCrash
<1>6. ASSUME TypeInv, TypeInv', Phases, NEW p \in Pools,
             PassDone(p, "finish")
      PROVE MetKept
  BY <1>6 DEF TypeInv, Phases, PassDone
<1>7. ASSUME TypeInv, TypeInv', Phases, NEW p \in Pools,
             PoolFinish(p)
      PROVE MetKept
  BY <1>7 DEF TypeInv, Phases, PoolFinish
<1>8. ASSUME TypeInv, TypeInv', Phases, NEW p \in Pools,
             PoolFinishWrite(p)
      PROVE MetKept
  BY <1>8 DEF TypeInv, Phases, PoolFinishWrite
<1>9. ASSUME TypeInv, TypeInv', Phases, CountMet, NEW p \in Pools,
             PoolSub(p)
      PROVE CountMet'
  <2> SUFFICES ASSUME ~Closing' PROVE activePools' + Pending' <= Cardinality(Owing') + LeftBehind'
    BY DEF CountMet
  <2>1. /\ pc[p] = "sub" /\ pc' = [pc EXCEPT ![p] = "wait"]
        /\ activePools' = activePools - 1
        /\ UNCHANGED <<pools, pflag, quitting>>
    BY <1>9 DEF PoolSub
  <2>2. ~Closing /\ pflag[p] = "WAIT"
    BY <1>9, <2>1 DEF TypeInv, Phases, SubLowered
  <2>3. p \in Owing /\ Owing' = Owing \ {p}
    BY <1>9, <2>1, <2>2 DEF TypeInv
  <2>4. Pending' = Pending
    BY <1>9, <2>1 DEF TypeInv, Pending
  <2>5. Cardinality(Owing') = Cardinality(Owing) - 1
    <3> HIDE DEF Owing
    <3> QED
      BY <2>3, OwingFinite, FS_RemoveElement
  <2>6. Attached' = Attached /\ parties' = parties
    BY <1>9, <2>1 DEF TypeInv, PoolSub
  <2> HIDE DEF Owing, Attached
  <2> QED
    BY <1>9, <2>1, <2>2, <2>4, <2>5, <2>6, MetTypes DEF CountMet, LeftBehind
<1>10. ASSUME TypeInv, TypeInv', Phases, NEW p \in Pools,
              PoolWait(p)
       PROVE MetKept
  BY <1>10 DEF TypeInv, Phases, PoolWait, Enqueue, Arrive, Recheck, Notified
<1>11. ASSUME TypeInv, TypeInv', Phases, CountMet, NEW p \in Pools,
              PoolErase(p)
       PROVE CountMet'
  <2> SUFFICES ASSUME ~Closing' PROVE activePools' + Pending' <= Cardinality(Owing') + LeftBehind'
    BY DEF CountMet
  <2>1. /\ pc[p] = "erase" /\ pc' = [pc EXCEPT ![p] = "done"]
        /\ pools' = pools \ {p}
        /\ UNCHANGED <<activePools, pflag, quitting>>
    BY <1>11 DEF PoolErase
  <2>2. ~Closing /\ p \in pools
    BY <1>11, <2>1 DEF TypeInv, Phases, Registered
  <2>3. p \in Owing /\ Owing' = Owing \ {p} /\ p \in Attached /\ Attached' = Attached \ {p}
    BY <1>11, <2>1 DEF TypeInv
  <2>4. /\ Cardinality(Owing') = Cardinality(Owing) - 1
        /\ Cardinality(Attached') = Cardinality(Attached) - 1
    <3> HIDE DEF Owing, Attached
    <3> QED
      BY <2>3, OwingFinite, AttachedFinite, FS_RemoveElement
  <2>5. Pending' \in Int /\ Pending' <= Pending
    <3>1. pools' \ {"master"} \subseteq pools \ {"master"}
      BY <2>1
    <3>2. /\ Cardinality(pools' \ {"master"}) <= Cardinality(pools \ {"master"})
          /\ Cardinality(pools' \ {"master"}) \in Nat
          /\ Cardinality(pools \ {"master"}) \in Nat
      BY <1>11, <3>1, PendingType, FS_Subset, FS_CardinalityType DEF TypeInv
    <3>3. pc'["client"] = pc["client"] /\ pc'["master"] = pc["master"]
      BY <1>11, <2>1 DEF TypeInv
    <3> QED
      <4> DEFINE before == Cardinality(pools \ {"master"})
                 after == Cardinality(pools' \ {"master"})
      <4>1. /\ Pending = (IF pc["client"] = "count" THEN 1 ELSE 0)
                           + (IF pc["master"] = "launch" THEN before ELSE 0)
            /\ Pending' = (IF pc["client"] = "count" THEN 1 ELSE 0)
                           + (IF pc["master"] = "launch" THEN after ELSE 0)
        BY <3>3 DEF Pending
      <4>2. before \in Nat /\ after \in Nat /\ after <= before
        BY <3>2
      <4> HIDE DEF before, after
      <4> QED
        BY <4>1, <4>2
  <2>6. parties' = parties
    BY <1>11 DEF PoolErase, syncVars
  <2> HIDE DEF Owing, Attached
  <2> QED
    BY <1>11, <2>1, <2>2, <2>4, <2>5, <2>6, MetTypes DEF CountMet, LeftBehind
<1> HIDE DEF MetKept
<1> QED
  BY MetFrame, <1>1, <1>2, <1>3, <1>4, <1>5, <1>6, <1>7, <1>8, <1>9,
      <1>10, <1>11 DEF Pool, Pass

(* The steps the client's thread takes on its own, but for unloading.      *)
LEMMA ClientMet ==
    TypeInv /\ TypeInv' /\ Phases /\ CountMet /\ Client /\ ~Unloading("client")
        => CountMet'
<1> USE ConstType DEF TypePc, LoadFirst, UnloadLast, HandlerLast,
      HandlerQuits, Owing, Owes, Attached, Closing, MetKept, syncVars, poolVars,
      moduleVars, roundVars, stackVars, callVars
<1>1. ASSUME TypeInv, TypeInv', Phases, LoadIntoPool PROVE MetKept
  BY <1>1 DEF TypeInv, Phases, LoadIntoPool, Register, Push, MayCrash
<1>2. ASSUME TypeInv, TypeInv', Phases, CountMet,
             LoadNewPool
      PROVE CountMet'
  <2> SUFFICES ASSUME ~Closing' PROVE activePools' + Pending' <= Cardinality(Owing') + LeftBehind'
    BY DEF CountMet
  <2> DEFINE p == PoolName[Head(todo)]
  <2>1. p \in Pools /\ p \notin pools
    BY <1>2 DEF LoadNewPool, TypeInv, TypeStack, TypePools
  <2> HIDE DEF p
  <2>2. /\ pc["client"] = "load" /\ pc' = [pc EXCEPT !["client"] = "count", ![p] = "attach"]
        /\ pools' = pools \union {p}
        /\ pflag' = [pflag EXCEPT ![p] = "WAIT"]
        /\ UNCHANGED <<activePools, quitting>>
    BY <1>2 DEF LoadNewPool, p
  <2>3. /\ pc["master"] = "unborn" /\ pc'["master"] = "unborn" /\ ~Closing
        /\ pc[p] \in {"unborn", "done"} /\ pc'["client"] = "count"
    BY <1>2, <2>1, <2>2 DEF TypeInv, Phases, Registered
  <2>4. p \notin Owing /\ Owing' = Owing \union {p}
    BY <1>2, <2>1, <2>2, <2>3 DEF TypeInv, TypePools
  <2>5. Pending = 0 /\ Pending' = 1
    BY <2>2, <2>3 DEF Pending
  <2>6. Cardinality(Owing') = Cardinality(Owing) + 1
    BY <2>4, OwingFinite, FS_AddElement
  <2>7. Attached' = Attached /\ parties' = parties
    BY <1>2, <2>1, <2>2, <2>3 DEF LoadNewPool, TypeInv
  <2> HIDE DEF Owing, Attached
  <2> QED
    BY <1>2, <2>2, <2>3, <2>5, <2>6, <2>7, MetTypes DEF CountMet, LeftBehind
<1>3. ASSUME TypeInv, TypeInv', Phases, CountMet,
             CountPool
      PROVE CountMet'
  <2> SUFFICES ASSUME ~Closing' PROVE activePools' + Pending' <= Cardinality(Owing') + LeftBehind'
    BY DEF CountMet
  <2>1. /\ pc["client"] = "count" /\ pc' = [pc EXCEPT !["client"] = "push"]
        /\ activePools' = activePools + 1
        /\ UNCHANGED <<pools, pflag, quitting>>
    BY <1>3 DEF CountPool
  <2>2. pc["master"] = "unborn" /\ pc'["master"] = "unborn" /\ pc'["client"] = "push" /\ ~Closing
    BY <1>3, <2>1 DEF TypeInv
  <2>3. Owing' = Owing
    BY <1>3, <2>1 DEF TypeInv
  <2>4. Pending = 1 /\ Pending' = 0
    BY <2>1, <2>2 DEF Pending
  <2>5. Attached' = Attached /\ parties' = parties
    BY <1>3, <2>1 DEF TypeInv, CountPool
  <2> HIDE DEF Owing, Attached
  <2> QED
    BY <1>3, <2>1, <2>2, <2>3, <2>4, <2>5, MetTypes DEF CountMet, LeftBehind
<1>4. ASSUME TypeInv, TypeInv', Phases, PushFirst PROVE MetKept
  BY <1>4 DEF TypeInv, Phases, PushFirst, Push
<1>5. ASSUME TypeInv, TypeInv', Phases, Fork PROVE MetKept
  BY <1>5 DEF TypeInv, Phases, Fork
<1>6. ASSUME TypeInv, TypeInv', Phases, Assign PROVE MetKept
  BY <1>6 DEF TypeInv, Phases, Assign
<1>7. ASSUME TypeInv, TypeInv', Phases, FirstRun PROVE MetKept
  BY <1>7 DEF TypeInv, Phases, FirstRun, Send
<1>8. ASSUME TypeInv, TypeInv', Phases, CommandNotify PROVE MetKept
  BY <1>8 DEF TypeInv, Phases, CommandNotify, Notify, NotifyAll, Notified
<1>9. ASSUME TypeInv, TypeInv', Phases, Alarm PROVE MetKept
  BY <1>9 DEF TypeInv, Phases, Alarm, Send
<1>10. ASSUME TypeInv, TypeInv', Phases, Join PROVE MetKept
  BY <1>10 DEF TypeInv, Phases, Join
<1>11. ASSUME TypeInv, TypeInv', Phases,
              WhileActive("client", "swapWait")
       PROVE MetKept
  BY <1>11 DEF TypeInv, Phases, WhileActive, NotifyAll, Notified
<1>12. ASSUME TypeInv, TypeInv', Phases, SwapNotify PROVE MetKept
  BY <1>12 DEF TypeInv, Phases, SwapNotify, Notify, NotifyAll, Notified
<1>20. ASSUME TypeInv, TypeInv', Phases, SwapPause PROVE MetKept
  BY <1>20 DEF TypeInv, Phases, SwapPause
<1>13. ASSUME TypeInv, TypeInv', Phases, StartSwap PROVE MetKept
  BY <1>13 DEF TypeInv, Phases, StartSwap, OnceInactive
<1>14. ASSUME TypeInv, TypeInv', Phases, EndSwap PROVE MetKept
  BY <1>14 DEF TypeInv, Phases, EndSwap
<1>15. ASSUME TypeInv, TypeInv', Phases, Delete PROVE MetKept
  BY <1>15 DEF TypeInv, Phases, Delete
<1> HIDE DEF MetKept
<1> QED
  BY MetFrame, <1>1, <1>2, <1>3, <1>4, <1>5, <1>6, <1>7, <1>8, <1>9,
      <1>10, <1>11, <1>12, <1>20, <1>13, <1>14, <1>15 DEF Client

(* The commands the user sends through the client's thread.                *)
LEMMA UserMet ==
    TypeInv /\ TypeInv' /\ Phases /\ CountMet /\ User => CountMet'
<1> USE ConstType DEF TypePc, LoadFirst, UnloadLast, HandlerLast,
      HandlerQuits, Owing, Owes, Attached, Closing, MetKept, syncVars, poolVars,
      moduleVars, roundVars, stackVars, callVars
<1>1. ASSUME TypeInv, TypeInv', Phases, NEW cmd \in Commands,
             Command(cmd)
      PROVE MetKept
  BY <1>1 DEF TypeInv, Phases, Command, Send
<1>2. ASSUME TypeInv, TypeInv', Phases, NEW m \in Swappable,
             HotSwap(m)
      PROVE MetKept
  BY <1>2 DEF TypeInv, Phases, HotSwap
<1> HIDE DEF MetKept
<1> QED
  BY MetFrame, <1>1, <1>2 DEF User

(* Unloading a module, by the client or by the master.                     *)
LEMMA UnloadingMet ==
    TypeInv /\ TypeInv' /\ Phases /\ CountMet /\ (\E c \in Callers : Unloading(c))
        => CountMet'
<1> USE ConstType DEF TypePc, LoadFirst, UnloadLast, HandlerLast,
      HandlerQuits, Owing, Owes, Attached, Closing, MetKept, syncVars, poolVars,
      moduleVars, roundVars, stackVars, callVars
<1>1. ASSUME TypeInv, TypeInv', Phases, NEW c \in Callers,
             UnloadNext(c)
      PROVE MetKept
  <2>1. CASE Head(moduleStack) \in loaded
    <3>1. /\ pc[c] = "unloadNext" /\ pc' = [pc EXCEPT ![c] = "unload"]
          /\ UNCHANGED <<activePools, pools, pflag, quitting>>
      BY <1>1, <2>1 DEF UnloadNext
    <3> QED
      BY <1>1, <3>1 DEF TypeInv, Phases
  <2>2. CASE Head(moduleStack) \notin loaded
    BY <1>1, <2>2 DEF UnloadNext, TypeInv, Phases
  <2> QED
    BY <2>1, <2>2
<1>2. ASSUME TypeInv, TypeInv', Phases, NEW c \in Callers,
             AllUnloaded(c)
      PROVE MetKept
  BY <1>2 DEF TypeInv, Phases, AllUnloaded
<1>3. ASSUME TypeInv, TypeInv', Phases, NEW c \in Callers,
             Unload(c)
      PROVE MetKept
  BY <1>3 DEF TypeInv, Phases, Unload
<1>4. ASSUME TypeInv, TypeInv', Phases, NEW c \in Callers,
             StopNotify(c)
      PROVE MetKept
  BY <1>4 DEF TypeInv, Phases, StopNotify, Notify, NotifyAll, Notified
<1>21. ASSUME TypeInv, TypeInv', Phases, NEW c \in Callers,
             StopPause(c)
      PROVE MetKept
  BY <1>21 DEF TypeInv, Phases, StopPause
<1>5. ASSUME TypeInv, TypeInv', Phases, NEW c \in Callers,
             Stop(c)
      PROVE MetKept
  <2>1. CASE Closing'
    BY <2>1
  <2>2. CASE ~Closing'
    <3>1. /\ pc[c] = "stop"
          /\ \E label \in {"inactive", "free"} : pc' = [pc EXCEPT ![c] = label]
          /\ UNCHANGED <<parties, activePools, pools, quitting>>
      BY <1>5 DEF Stop
    <3>2. c = "master" /\ ~quitting["master"]
      BY <1>5, <2>2, <3>1 DEF TypeInv
    <3>3. Owing = {}
      BY <3>1, <3>2, <1>5 DEF Phases, Quiet, BetweenRounds, Preparing, UnloadingDone
    <3> QED
      BY <1>5, <2>2, <3>1, <3>2, <3>3 DEF TypeInv
  <2> QED
    BY <2>1, <2>2
<1>6. ASSUME TypeInv, TypeInv', Phases, NEW c \in Callers,
             WhileActive(c, "inactive")
      PROVE MetKept
  BY <1>6 DEF TypeInv, Phases, WhileActive, NotifyAll, Notified
<1>7. ASSUME TypeInv, TypeInv', Phases, NEW c \in Callers,
             RemoveFromPool(c)
      PROVE MetKept
  BY <1>7, RemoveAtType DEF TypeInv, Phases, RemoveFromPool, OnceInactive
<1>8. ASSUME TypeInv, TypeInv', Phases, NEW c \in Callers,
             Restore(c)
      PROVE MetKept
  <2>1. CASE Closing'
    BY <2>1
  <2>2. CASE ~Closing'
    <3>1. /\ pc[c] = "restore" /\ pc' = [pc EXCEPT ![c] = "free"]
          /\ pflag' = [pflag EXCEPT ![PoolName[target[c]]] = saved[c]]
          /\ UNCHANGED <<activePools, pools, quitting, target>>
      BY <1>8 DEF Restore, Notify
    <3>2. c = "master" /\ ~quitting["master"]
      BY <1>8, <2>2, <3>1 DEF TypeInv
    <3>3. Owing = {}
      BY <3>1, <3>2, <1>8 DEF Phases, Quiet, BetweenRounds, Preparing, UnloadingDone
    <3>4. parties' = parties
      BY <1>8 DEF Restore, Notify, NotifyAll
    <3> QED
      BY <1>8, <2>2, <3>1, <3>2, <3>3, <3>4 DEF TypeInv
  <2> QED
    BY <2>1, <2>2
<1>9. ASSUME TypeInv, TypeInv', Phases, NEW c \in Callers,
             Free(c)
      PROVE MetKept
  BY <1>9 DEF TypeInv, Phases, Free
<1>10. ASSUME TypeInv, TypeInv', Phases, NEW c \in Callers,
              Resume(c)
       PROVE MetKept
  BY <1>10 DEF TypeInv, Phases, Resume
<1>11. ASSUME TypeInv, TypeInv', Phases, NEW c \in Callers,
              ResumeNotify(c)
       PROVE MetKept
  BY <1>11 DEF TypeInv, Phases, ResumeNotify, Notify, NotifyAll, Notified
<1>12. ASSUME TypeInv, TypeInv', Phases, NEW c \in Callers,
              PopUnloaded(c)
       PROVE MetKept
  BY <1>12 DEF TypeInv, Phases, PopUnloaded
<1> HIDE DEF MetKept
<1> QED
  BY MetFrame, <1>1, <1>2, <1>3, <1>4, <1>21, <1>5, <1>6, <1>7, <1>8, <1>9,
      <1>10, <1>11, <1>12 DEF Unloading

(* The steps of the master controller, but for unloading.                  *)
LEMMA MasterMet ==
    TypeInv /\ TypeInv' /\ Phases /\ PartiesCover /\ CountMet /\ Master /\ ~Unloading("master")
        => CountMet'
<1> USE ConstType DEF TypePc, LoadFirst, UnloadLast, HandlerLast,
      HandlerQuits, Owing, Owes, Attached, Closing, MetKept, syncVars, poolVars,
      moduleVars, roundVars, stackVars, callVars
<1>1. ASSUME TypeInv, TypeInv', Phases, Startup PROVE MetKept
  BY <1>1 DEF TypeInv, Phases, Startup, Notify, NotifyAll, Notified
<1>2. ASSUME TypeInv, TypeInv', Phases, MasterWait PROVE MetKept
  BY <1>2 DEF TypeInv, Phases, MasterWait, Enqueue, Arrive, Recheck, Notified
<1>3. ASSUME TypeInv, TypeInv', Phases, PartiesCover, CountMet, Reset PROVE CountMet'
  <2> SUFFICES ASSUME ~Closing' PROVE activePools' + Pending' <= Cardinality(Owing') + LeftBehind'
    BY DEF CountMet
  <2>1. /\ pc["master"] = "reset" /\ pc' = [pc EXCEPT !["master"] = "head"]
        /\ activePools' = 0
        /\ UNCHANGED <<parties, pools, pflag, quitting>>
    BY <1>3 DEF Reset
  <2>2. Owing' = {} /\ Attached' = Attached
    BY <1>3, <2>1 DEF TypeInv, Phases, Quiet, BetweenRounds
  <2>3. pc'["client"] # "count" /\ pc'["master"] = "head"
    BY <1>3, <2>1 DEF TypeInv
  <2>4. Pending' = 0
    BY <2>3 DEF Pending
  <2> HIDE DEF Owing, Attached
  <2> QED
    BY <1>3, <2>1, <2>2, <2>4, MetTypes, FS_EmptySet DEF PartiesCover, LeftBehind
<1>4. ASSUME TypeInv, TypeInv', Phases, MasterHead PROVE MetKept
  BY <1>4 DEF TypeInv, Phases, MasterHead
<1>5. ASSUME TypeInv, TypeInv', Phases, DispatchIdle PROVE MetKept
  BY <1>5 DEF TypeInv, Phases, DispatchIdle
<1>6. ASSUME TypeInv, TypeInv', Phases, DispatchRound PROVE MetKept
  BY <1>6 DEF TypeInv, Phases, DispatchRound
<1>7. ASSUME TypeInv, TypeInv', Phases, NEW m \in unchecked,
             Check(m)
      PROVE MetKept
  BY <1>7 DEF TypeInv, Phases, Check
<1>8. ASSUME TypeInv, TypeInv', Phases, NEW m \in unchecked,
             CheckDone(m)
      PROVE MetKept
  BY <1>8 DEF TypeInv, Phases, CheckDone
<1>9. ASSUME TypeInv, TypeInv', Phases, ContinueCheck PROVE MetKept
  BY <1>9 DEF TypeInv, Phases, ContinueCheck, MayCrash
<1>10. ASSUME TypeInv, TypeInv', Phases, CountMet, Arm PROVE CountMet'
  <2> SUFFICES ASSUME ~Closing' PROVE activePools' + Pending' <= Cardinality(Owing') + LeftBehind'
    BY DEF CountMet
  <2>1. /\ pc["master"] = "check" /\ pc' = [pc EXCEPT !["master"] = "launch"]
        /\ pflag' = [q \in Threads |-> IF q \in pools THEN "RUN" ELSE pflag[q]]
        /\ UNCHANGED <<activePools, pools, quitting>>
    BY <1>10 DEF Arm
  <2>2. Owing = {} /\ ~Closing /\ pc["client"] # "count"
    BY <1>10, <2>1 DEF TypeInv, Phases, Quiet, BetweenRounds, Preparing
  <2>3. pools \ {"master"} \subseteq Owing'
    <3>1. ASSUME NEW q \in pools, q # "master" PROVE q \in Owing'
      <4>1. q \in Pools /\ pc[q] \notin {"unborn", "done"}
        BY <1>10, <3>1 DEF TypeInv, TypePools, Phases, Registered
      <4>2. pc[q] = "wait" /\ pc'[q] = "wait"
        BY <1>10, <2>1, <2>2, <4>1 DEF TypeInv
      <4>3. pflag'[q] = "RUN"
        BY <2>1, <3>1, <4>1
      <4> QED
        BY <4>1, <4>2, <4>3
    <3> QED
      BY <3>1
  <2>4. Cardinality(pools \ {"master"}) <= Cardinality(Owing')
    <3>1. IsFiniteSet(Owing')
      BY ControlAssumption, FS_Subset
    <3> HIDE DEF Owing
    <3> QED
      BY <2>3, <3>1, FS_Subset
  <2>5. Pending = 0 /\ Pending' = Cardinality(pools \ {"master"})
    <3>1. pc'["master"] = "launch" /\ pc'["client"] # "count"
      BY <1>10, <2>1, <2>2 DEF TypeInv
    <3> QED
      BY <1>10, <2>1, <2>2, <3>1, PendingType DEF Pending, TypeInv
  <2>6. Attached' = Attached /\ parties' = parties
    BY <1>10, <2>1 DEF TypeInv, Arm
  <2>7. Cardinality(Owing) = 0
    BY <2>2, FS_EmptySet
  <2>8. Cardinality(Owing') \in Nat
    BY ControlAssumption, FS_Subset, FS_CardinalityType
  <2> HIDE DEF Owing, Attached
  <2> QED
    BY <1>10, <2>1, <2>2, <2>4, <2>5, <2>6, <2>7, <2>8, MetTypes, PendingType DEF CountMet, LeftBehind, TypeInv
<1>11. ASSUME TypeInv, TypeInv', Phases, CountMet, Launch PROVE CountMet'
  <2> SUFFICES ASSUME ~Closing' PROVE activePools' + Pending' <= Cardinality(Owing') + LeftBehind'
    BY DEF CountMet
  <2>1. /\ pc["master"] = "launch" /\ pc' = [pc EXCEPT !["master"] = "run"]
        /\ activePools' = activePools + Cardinality(pools) - 1
        /\ UNCHANGED <<pools, pflag, quitting>>
    BY <1>11 DEF Launch, Notify
  <2>2. ~Closing /\ pc["client"] # "count" /\ pc'["client"] # "count" /\ pc'["master"] = "run"
    BY <1>11, <2>1 DEF TypeInv
  <2>3. Owing' = Owing
    BY <1>11, <2>1 DEF TypeInv
  <2>4. Pending = Cardinality(pools) - 1 /\ Pending' = 0
    BY <1>11, <2>1, <2>2, PendingType, PoolsFinite DEF Pending, TypeInv
  <2>5. Attached' = Attached /\ parties' = parties
    BY <1>11, <2>1 DEF TypeInv, Launch, Notify, NotifyAll
  <2>6. Cardinality(pools) \in Nat
    BY <1>11, PoolsFinite DEF TypeInv
  <2> HIDE DEF Owing, Attached
  <2> QED
    BY <1>11, <2>1, <2>2, <2>3, <2>4, <2>5, <2>6, MetTypes DEF CountMet, LeftBehind
<1>12. ASSUME TypeInv, TypeInv', Phases, NEW t \in Threads,
              Skip(t)
       PROVE MetKept
  BY <1>12 DEF TypeInv, Phases, Skip
<1>13. ASSUME TypeInv, TypeInv', Phases, NEW t \in Threads,
              StartExecute(t)
       PROVE MetKept
  BY <1>13 DEF TypeInv, Phases, StartExecute
<1>14. ASSUME TypeInv, TypeInv', Phases, NEW t \in Threads,
              EndExecute(t)
       PROVE MetKept
  BY <1>14 DEF TypeInv, Phases, EndExecute, MayCrash
<1>15. ASSUME TypeInv, TypeInv', Phases,
              PassDone("master", "step")
       PROVE MetKept
  BY <1>15 DEF TypeInv, Phases, PassDone
<1>16. ASSUME TypeInv, TypeInv', Phases, StepTest PROVE MetKept
  BY <1>16 DEF TypeInv, Phases, StepTest
<1>17. ASSUME TypeInv, TypeInv', Phases, StepWrite PROVE MetKept
  BY <1>17 DEF TypeInv, Phases, StepWrite
<1>18. ASSUME TypeInv, TypeInv', Phases, MasterTail PROVE MetKept
  BY <1>18 DEF TypeInv, Phases, MasterTail
<1>19. ASSUME TypeInv, TypeInv', Phases, MasterExit PROVE MetKept
  BY <1>19 DEF TypeInv, Phases, MasterExit
<1>20. ASSUME TypeInv, TypeInv', Phases, Handler PROVE MetKept
  BY <1>20 DEF TypeInv, Phases, Handler
<1>21. ASSUME TypeInv, TypeInv', Phases, HandlerNotify PROVE MetKept
  BY <1>21 DEF TypeInv, Phases, HandlerNotify, Notify, NotifyAll, Notified
<1> HIDE DEF MetKept
<1> QED
  BY MetFrame, <1>1, <1>2, <1>3, <1>4, <1>5, <1>6, <1>7, <1>8, <1>9,
      <1>10, <1>11, <1>12, <1>13, <1>14, <1>15, <1>16, <1>17, <1>18, <1>19,
      <1>20, <1>21 DEF Master, Pass

(* Falling asleep on the barrier, and waking up without a reason.          *)
LEMMA WaitMet ==
    TypeInv /\ TypeInv' /\ Phases /\ CountMet /\ (\E t \in Threads : Sleep(t) \/ Wakeup(t))
        => CountMet'
<1> USE ConstType DEF TypePc, LoadFirst, UnloadLast, HandlerLast,
      HandlerQuits, Owing, Owes, Attached, Closing, MetKept, syncVars, poolVars,
      moduleVars, roundVars, stackVars, callVars
<1>1. ASSUME TypeInv, TypeInv', Phases, NEW t \in Threads,
             Sleep(t)
      PROVE MetKept
  BY <1>1 DEF TypeInv, Phases, Sleep, Block
<1>2. ASSUME TypeInv, TypeInv', Phases, NEW t \in Threads,
             Wakeup(t)
      PROVE MetKept
  BY <1>2 DEF TypeInv, Phases, Wakeup, SpuriousWakeup
<1> HIDE DEF MetKept
<1> QED
  BY MetFrame, <1>1, <1>2 DEF TypeInv

------------------------------------------------------------------------------
(* The two bounds and who sleeps at the barrier, together.                 *)
CountInv == AwakeInv /\ CountMet

(* Every step, and every stutter, keeps activePools from standing too high.*)
LEMMA CountInvStep == CountInv /\ [Next]_vars => CountInv'
<1> SUFFICES ASSUME CountInv, [Next]_vars PROVE CountInv'
  OBVIOUS
<1>1. AwakeInv'
  BY AwakeStays DEF CountInv
<1>2. TypeInv /\ TypeInv' /\ PartiesCover /\ CountMet
  BY <1>1 DEF CountInv, AwakeInv, IInv, TypeInv, TypeOK
<1>3. Phases
  BY Zenon DEF CountInv, AwakeInv, IInv, TypeOK, TypeBool, Phases
<1>4. CASE Next
  BY <1>1, <1>2, <1>3, <1>4, Steps, PoolMet, ClientMet, UserMet, UnloadingMet,
     MasterMet, WaitMet DEF StepCase, CountInv
<1>5. CASE vars' = vars
  <2>1. UNCHANGED <<pc, parties, activePools, pools, pflag, quitting>>
    BY <1>5 DEF vars, poolVars, callVars, syncVars
  <2>2. MetKept
    BY <2>1 DEF MetKept, Closing, Owing, Owes, Attached
  <2> QED
    BY <1>1, <1>2, <2>2, MetFrame DEF CountInv
<1> QED
  BY <1>4, <1>5

(* The invariant of the count and of the sleepers holds in every state.    *)
LEMMA CountedAwake == Spec => []CountInv
<1>1. Init => CountInv
  <2> SUFFICES ASSUME Init PROVE CountInv
    OBVIOUS
  <2>1. Owing = {} /\ Attached = {} /\ parties = 1
    BY ConstType DEF Init, Owing, Owes, Attached
  <2>2. Pending = 0 /\ activePools = 0
    BY ConstType DEF Init, Pending
  <2> QED
    BY <2>1, <2>2, AwakeInit, FS_EmptySet DEF CountMet, LeftBehind, CountInv
<1> QED
  BY <1>1, CountInvStep, PTL DEF Spec

(* activePools, with the additions on their way, is exactly the number of  *)
(* pools that will still lower it, as long as no pool has left its loop,   *)
(* for any number of pools, modules and commands (control.cc:100, 167,     *)
(* 274).                                                                   *)
THEOREM ActiveIsExact == Spec => []ActiveExact
<1>1. CountInv => ActiveExact
  BY DEF CountInv, AwakeInv, IInv, ActiveExact
<1> QED
  BY <1>1, CountedAwake, PTL

(* Where every thread of the loop is asleep, every party is inside the     *)
(* barrier, so that no pool owes and the count is zero; a master at a sync *)
(* would be wanted.                                                        *)
LEMMA AsleepPaused == CountInv => NoDeadlock
<1> SUFFICES ASSUME CountInv, StandStill, ~Lost, pc["master"] # "pause" PROVE FALSE
  BY DEF NoDeadlock
<1> USE DEF AwakeInv, CountInv
<1>0. TypePc /\ TypeBarrier /\ TypePools
  BY DEF IInv, TypeOK
<1>1. pc["master"] \in {"startSync", "sync"} /\ ~Closing
  <2>1. pc["master"] \in WaitLabel /\ "master" \in Threads
    BY ConstType DEF StandStill, InsideWaits
  <2> QED
    BY <1>0, <2>1 DEF WaitLabel, Closing, TypePc
<1>2. ASSUME NEW p \in Pools, p \in pools PROVE pc[p] = "wait" /\ at[p] = "sleep"
  BY <1>0, <1>2, ConstType DEF StandStill, InsideWaits, WaitLabel, TypePc
<1>3. Attached = pools \ {"master"}
  BY <1>0, <1>2, ConstType DEF Attached, IInv, Registered, TypePools
<1>4. parties = Cardinality(Attached) + 1
  <2>1. Cardinality(Attached) = Cardinality(pools) - 1 /\ Cardinality(pools) \in Nat
    BY <1>0, <1>3, PendingType, PoolsFinite
  <2> QED
    BY <1>0, <1>1, <2>1, AttachedFinite DEF Lost, PartiesCover, TypeBarrier
<1>5. queued = parties
  <2>1. Inside = Attached \union {"master"}
    <3>1. ASSUME NEW t \in Threads, at[t] # "out" PROVE t \in Attached \union {"master"}
      BY <1>0, <3>1, ConstType DEF InsideWaits, WaitLabel, Attached, TypePc
    <3> QED
      BY <1>2, <1>3, <3>1 DEF Inside, StandStill, Attached
  <2> QED
    BY <1>4, <2>1, AttachedFinite DEF QueuedExact
<1>6. \A t \in Threads : at[t] = "sleep" => ~Wanted(t)
  BY <1>5 DEF NobodyOversleeps
<1>7. activePools # 0
  BY <1>1, <1>6 DEF Wanted, StandStill
<1>8. Owing = {}
  <2>1. ASSUME NEW p \in Pools, Owes(p) PROVE FALSE
    <3>1. p \in pools
      BY <2>1 DEF Owes, IInv, Registered
    <3>2. pc[p] = "wait" /\ at[p] = "sleep" /\ pflag[p] # "WAIT"
      BY <1>2, <2>1, <3>1 DEF Owes
    <3> QED
      BY <1>6, <3>2, ConstType DEF Wanted
  <2> QED
    BY <2>1 DEF Owing
<1>9. Pending = 0
  BY <1>1 DEF IInv, LoadFirst, Pending
<1> QED
  BY <1>0, <1>1, <1>4, <1>7, <1>8, <1>9, FS_EmptySet, AttachedFinite
     DEF CountMet, CountCovers, IInv, LeftBehind, TypePools, TypeBarrier

(* The system stands still only while it is paused, unless a pool was lost *)
(* at startup: for any number of pools and modules, and whatever           *)
(* notifications are missed, neither the start (control.cc:45) nor a round *)
(* (54, 279) ends with everyone asleep.                                    *)
THEOREM NoDeadlocks == Spec => []NoDeadlock
  BY AsleepPaused, CountedAwake, PTL

------------------------------------------------------------------------------
(* The shutdown round.  The flag a master reads at line 83 when the        *)
(* shutdown is due is the QUIT it wrote itself at line 114, or what the    *)
(* user has sent since; nothing is requested before the first command.     *)
Loading == {"load", "count", "push", "assign", "ready"}
SwapLabel == {"swapPause", "swapNotify", "swapWait", "swap"}
StartQuiet == pc["client"] \in Loading =>
    /\ flag = "PAUSE" /\ ~shutdownRequested
    /\ pc["master"] \in {"unborn", "startup", "startSync", "reset", "head", "sync",
                         "dispatch", "pause", "done"}
StartClean == pc["master"] \in {"unborn", "startup", "startSync", "reset"} => ~shutdownRequested
DueHeeded == ShutdownDue /\ pc["master"] \in {"head", "sync", "dispatch"} => flag \notin {"RUN", "STEP"}
NoSwap == pc["client"] \notin SwapLabel

DueInv == StartQuiet /\ StartClean /\ DueHeeded /\ NoOvershoot /\ NoSwap

(* Rounds and requests stay as they are.                                   *)
RoundKept == /\ round' = round /\ shutdownRound' = shutdownRound
             /\ shutdownRequested' => shutdownRequested

(* Beside the master only the client writes the flag.                      *)
LEMMA DueBeside ==
    ASSUME DueInv, RoundKept, pc'["master"] = pc["master"], flag' \in {flag, "PAUSE", "QUIT"},
           pc'["client"] \notin SwapLabel,
           pc'["client"] \in Loading => pc["client"] \in Loading /\ flag' = flag
    PROVE  DueInv'
<1> USE DEF DueInv
<1>1. StartQuiet' /\ StartClean' /\ NoSwap'
  BY DEF RoundKept, StartQuiet, StartClean, NoSwap
<1>2. DueHeeded'
  BY DEF RoundKept, DueHeeded, ShutdownDue
<1>3. NoOvershoot'
  BY DEF RoundKept, NoOvershoot
<1> QED
  BY <1>1, <1>2, <1>3

(* The master away from the top of its loop, the client done with loading. *)
LEMMA DueAway ==
    ASSUME DueInv, RoundKept, pc["client"] \notin Loading, pc'["client"] \notin Loading \union SwapLabel,
           pc'["master"] \notin {"unborn", "startup", "startSync", "reset", "head", "sync", "dispatch"}
    PROVE  DueInv'
  BY DEF DueInv, RoundKept, StartQuiet, StartClean, NoSwap, DueHeeded, NoOvershoot

(* A pool thread neither writes the flag nor requests a shutdown.          *)
LEMMA PoolDue == TypeInv /\ DueInv /\ (\E p \in Pools : Pool(p)) => DueInv'
<1> SUFFICES ASSUME TypeInv, DueInv, NEW p \in Pools, Pool(p) PROVE DueInv'
  OBVIOUS
<1>1. RoundKept
  <2>1. UNCHANGED roundVars
    BY Zenon DEF Pool, Attach, PoolHead, Pass, Skip, StartExecute, EndExecute, PassDone, PoolFinish,
           PoolFinishWrite, PoolSub, PoolWait, PoolErase
  <2> QED
    BY <2>1, Zenon DEF roundVars, RoundKept
<1>2. flag' = flag
  BY DEF Pool, Attach, PoolHead, Pass, Skip, StartExecute, EndExecute, PassDone, PoolFinish,
         PoolFinishWrite, PoolSub, PoolWait, PoolErase
<1>3. pc' = pc \/ \E label : pc' = [pc EXCEPT ![p] = label]
  <2>1. CASE Attach(p) \/ Pass(p) \/ PassDone(p, "finish")
    BY <2>1 DEF Attach, Pass, Skip, StartExecute, EndExecute, PassDone
  <2>2. CASE PoolHead(p)
    BY <2>2, HeadStep, Zenon
  <2>3. CASE PoolFinish(p) \/ PoolFinishWrite(p) \/ PoolSub(p) \/ PoolErase(p)
    BY <2>3 DEF PoolFinish, PoolFinishWrite, PoolSub, PoolErase
  <2>4. CASE PoolWait(p)
    BY <2>4 DEF PoolWait, Enqueue
  <2> QED
    BY <2>1, <2>2, <2>3, <2>4 DEF Pool
<1>4. pc'["master"] = pc["master"] /\ pc'["client"] = pc["client"]
  BY <1>3, ConstType DEF TypeInv, TypePc
<1> QED
  BY <1>1, <1>2, <1>4, DueBeside DEF DueInv, NoSwap

(* No command but pause and quit: the user may not restart the system.     *)
LEMMA ClientDue ==
    ASSUME TypeInv, DueInv, Client, ~Unloading("client")
    PROVE  DueInv'
<1>0. pc \in [Threads \union {"client"} -> Label]
  BY DEF TypeInv, TypePc
<1>1. pc["client"] \notin SwapLabel
  BY DEF DueInv, NoSwap
<1>2. ~SwapPause /\ ~SwapNotify /\ ~StartSwap /\ ~EndSwap /\ ~WhileActive("client", "swapWait")
  BY <1>1 DEF SwapLabel, SwapPause, SwapNotify, StartSwap, OnceInactive, EndSwap, WhileActive
<1>3. RoundKept
  <2>1. UNCHANGED roundVars
    BY <1>2, Zenon DEF Client, LoadIntoPool, LoadNewPool, CountPool, PushFirst, Fork, Assign, FirstRun,
           CommandNotify, Alarm, Send, Join, Delete
  <2> QED
    BY <2>1, Zenon DEF roundVars, RoundKept
<1>4. CASE LoadIntoPool \/ LoadNewPool \/ CountPool \/ PushFirst \/ Assign
  <2>1. /\ flag' = flag /\ pc["client"] \in Loading
        /\ pc' = pc \/ \E label \in Loading : \/ pc' = [pc EXCEPT !["client"] = label]
                                              \/ \E p \in Pools : pc' = [pc EXCEPT !["client"] = label, ![p] = "attach"]
    <3>1. CASE LoadIntoPool \/ CountPool \/ PushFirst \/ Assign
      BY <3>1 DEF LoadIntoPool, CountPool, PushFirst, Assign, Loading
    <3>2. CASE LoadNewPool
      <4>1. PoolName[Head(todo)] \in Pools
        <5>1. PoolName[Head(todo)] \notin pools /\ Head(todo) \in Modules
          BY <3>2 DEF LoadNewPool, TypeInv, TypeStack
        <5> QED
          BY <5>1, ConstType DEF TypeInv, TypePools
      <4> QED
        BY <3>2, <4>1 DEF LoadNewPool, Loading
    <3> QED
      BY <1>4, <3>1, <3>2
  <2>2. pc'["master"] = pc["master"] /\ pc'["client"] \in Loading
    BY <1>0, <2>1, ConstType
  <2> QED
    BY <1>3, <2>1, <2>2, DueBeside DEF Loading, SwapLabel
<1>5. CASE Fork
  <2>1. /\ pc'["master"] = "startup" /\ pc'["client"] = "assign" /\ flag' = flag
        /\ pc["client"] = "load"
    BY <1>0, <1>5 DEF Fork
  <2> QED
    BY <1>3, <2>1 DEF DueInv, RoundKept, StartQuiet, StartClean, DueHeeded, NoOvershoot, NoSwap,
                      Loading, SwapLabel
<1>6. CASE FirstRun
  <2>1. /\ pc'["master"] = pc["master"] /\ pc'["client"] = "notify" /\ pc["client"] = "ready"
    BY <1>0, <1>6, ConstType DEF FirstRun, Send
  <2>2. ~shutdownRequested
    BY <2>1 DEF DueInv, StartQuiet, Loading
  <2> QED
    BY <1>3, <2>1, <2>2 DEF DueInv, RoundKept, StartQuiet, StartClean, DueHeeded, ShutdownDue, NoOvershoot,
                            NoSwap, Loading, SwapLabel
<1>7. CASE CommandNotify \/ Alarm \/ Join \/ Delete
  <2>1. /\ flag' \in {flag, "QUIT"}
        /\ \E label \in {"join", "idle", "notify", "unloadNext", "end"} : pc' = [pc EXCEPT !["client"] = label]
    BY <1>7 DEF CommandNotify, Notify, Alarm, Send, Join, Delete
  <2>2. pc'["master"] = pc["master"] /\ pc'["client"] \notin Loading \union SwapLabel
    BY <1>0, <2>1, ConstType DEF Loading, SwapLabel
  <2> QED
    BY <1>3, <2>1, <2>2, DueBeside
<1> QED
  BY <1>2, <1>4, <1>5, <1>6, <1>7 DEF Client

(* Whoever unloads is past the loop, or the master is gone.                *)
LEMMA UnloadingDue ==
    ASSUME TypeInv, DueInv, NEW c \in Callers, Unloading(c)
    PROVE  DueInv'
<1>0. pc \in [Threads \union {"client"} -> Label]
  BY DEF TypeInv, TypePc
<1>1. pc[c] \in QuitLabel
  BY DEF Unloading, UnloadNext, AllUnloaded, Unload, StopPause, StopNotify, Stop, WhileActive,
         RemoveFromPool, OnceInactive, Restore, Free, Resume, ResumeNotify, PopUnloaded
<1>2. RoundKept
  <2>1. UNCHANGED roundVars
    BY Zenon DEF Unloading, UnloadNext, AllUnloaded, Unload, StopPause, StopNotify, Stop, WhileActive,
         RemoveFromPool, Restore, Free, Resume, ResumeNotify, PopUnloaded
  <2> QED
    BY <2>1, Zenon DEF roundVars, RoundKept
<1>3. pc' = pc \/ \E label \in QuitLabel \union {"delete", "done"} : pc' = [pc EXCEPT ![c] = label]
  <2>1. CASE UnloadNext(c) \/ AllUnloaded(c) \/ Unload(c) \/ StopPause(c) \/ Stop(c) \/ Free(c)
    BY <2>1 DEF UnloadNext, AllUnloaded, Unload, StopPause, Stop, Free, QuitLabel, UnloadLabel
  <2>2. CASE StopNotify(c) \/ Restore(c) \/ Resume(c) \/ ResumeNotify(c) \/ PopUnloaded(c)
    BY <2>2 DEF StopNotify, Restore, Resume, ResumeNotify, PopUnloaded, Notify, QuitLabel, UnloadLabel
  <2>3. CASE WhileActive(c, "inactive") \/ RemoveFromPool(c)
    BY <2>3 DEF WhileActive, RemoveFromPool, QuitLabel, UnloadLabel
  <2> QED
    BY <2>1, <2>2, <2>3 DEF Unloading
<1>4. pc["master"] \in QuitLabel \union {"done"} /\ pc["client"] \notin Loading
  <2>1. CASE c = "master"
    <3>1. pc["master"] \in QuitLabel
      BY <1>1, <2>1
    <3> QED
      BY <3>1 DEF DueInv, StartQuiet, QuitLabel, UnloadLabel
  <2>2. CASE c = "client"
    BY <1>1, <2>2 DEF TypeInv, UnloadLast, Loading, QuitLabel, UnloadLabel
  <2> QED
    BY <2>1, <2>2 DEF Callers
<1>5. /\ pc'["master"] \in QuitLabel \union {"done", "delete"}
      /\ pc'["client"] \in QuitLabel \union {"done", "delete", pc["client"]}
  BY <1>0, <1>3, <1>4, ConstType
<1>6. pc["client"] \notin SwapLabel
  BY DEF DueInv, NoSwap
<1> QED
  BY <1>2, <1>4, <1>5, <1>6, DueAway DEF QuitLabel, UnloadLabel, Loading, SwapLabel

(* The master's loop: the shutdown is due when round = shutdownRound, and  *)
(* the tail of that round turns the flag to QUIT (control.cc:110-114).     *)
LEMMA MasterDue ==
    ASSUME TypeInv, DueInv, Master, ~Unloading("master")
    PROVE  DueInv'
<1>0. /\ pc \in [Threads \union {"client"} -> Label]
      /\ "master" # "client"
  BY DEF TypeInv, TypePc
<1>1. pc'["client"] = pc["client"] /\ pc["client"] \notin SwapLabel
  <2>1. pc' = pc \/ \E label : pc' = [pc EXCEPT !["master"] = label]
    <3>1. CASE Startup \/ MasterWait \/ Reset \/ MasterHead \/ DispatchIdle \/ DispatchRound
      BY <3>1 DEF Startup, Notify, MasterWait, Enqueue, Reset, MasterHead, DispatchIdle, DispatchRound
    <3>2. CASE (\E m \in unchecked : Check(m) \/ CheckDone(m)) \/ ContinueCheck \/ Arm \/ Launch
      BY <3>2 DEF Check, CheckDone, ContinueCheck, Arm, Launch, Notify
    <3>3. CASE Pass("master") \/ PassDone("master", "step") \/ StepTest \/ StepWrite
      BY <3>3 DEF Pass, Skip, StartExecute, EndExecute, PassDone, StepTest, StepWrite
    <3>4. CASE MasterTail \/ MasterExit \/ Handler \/ HandlerNotify
      BY <3>4 DEF MasterTail, MasterExit, Handler, HandlerNotify, Notify
    <3> QED
      BY <3>1, <3>2, <3>3, <3>4 DEF Master
  <2> QED
    BY <1>0, <2>1 DEF DueInv, NoSwap
<1>2. ASSUME UNCHANGED roundVars PROVE RoundKept
  BY <1>2, Zenon DEF roundVars, RoundKept
<1>3. ASSUME RoundKept, pc["client"] \notin Loading,
             pc'["master"] \notin {"unborn", "startup", "startSync", "reset", "head", "sync", "dispatch"}
      PROVE  DueInv'
  BY <1>1, <1>3, DueAway
<1>4. pc["client"] \in Loading =>
          pc["master"] \in {"unborn", "startup", "startSync", "reset", "head", "sync",
                           "dispatch", "pause", "done"}
  BY DEF DueInv, StartQuiet
<1>5. CASE Startup \/ Reset
  <2>1. /\ UNCHANGED <<roundVars, flag>> /\ pc["master"] \in {"startup", "reset"}
        /\ pc'["master"] \in {"startSync", "head"}
    BY <1>0, <1>5 DEF Startup, Notify, Reset
  <2>2. RoundKept /\ ~shutdownRequested
    BY <1>2, <2>1 DEF DueInv, StartClean
  <2> QED
    BY <1>1, <2>1, <2>2 DEF DueInv, RoundKept, StartQuiet, StartClean, DueHeeded, ShutdownDue, NoOvershoot, NoSwap
<1>6. CASE MasterWait
  <2>1. /\ UNCHANGED <<roundVars, flag>>
        /\ \/ pc["master"] = "startSync" /\ pc'["master"] \in {"startSync", "reset"}
           \/ pc["master"] = "sync" /\ pc'["master"] \in {"sync", "dispatch"}
           \/ /\ pc["master"] = "pause"
              /\ pc'["master"] = "pause" \/ (pc'["master"] = "tail" /\ flag # "PAUSE")
    <3>1. pc' = pc \/ \E label : pc' = [pc EXCEPT !["master"] = label]
      BY <1>6 DEF MasterWait, Enqueue
    <3>2. CASE pc["master"] = "startSync" /\ Enqueue("master", activePools = 0, "reset")
      BY <1>0, <1>6, <3>2 DEF MasterWait, Enqueue
    <3>3. CASE pc["master"] = "sync" /\ Enqueue("master", activePools = 0, "dispatch")
      BY <1>0, <1>6, <3>3 DEF MasterWait, Enqueue
    <3>4. CASE pc["master"] = "pause" /\ Enqueue("master", flag # "PAUSE", "tail")
      BY <1>0, <1>6, <3>4 DEF MasterWait, Enqueue
    <3> QED
      BY <1>6, <3>2, <3>3, <3>4 DEF MasterWait
  <2>2. RoundKept
    BY <1>2, <2>1
  <2>3. StartQuiet' /\ StartClean' /\ NoSwap'
    BY <1>1, <2>1, <2>2 DEF DueInv, RoundKept, StartQuiet, StartClean, NoSwap
  <2>4. DueHeeded' /\ NoOvershoot'
    BY <2>1, <2>2 DEF DueInv, RoundKept, DueHeeded, ShutdownDue, NoOvershoot
  <2> QED
    BY <2>3, <2>4 DEF DueInv
<1>7. CASE MasterHead
  <2>1. /\ UNCHANGED <<roundVars, flag>> /\ pc["master"] = "head"
        /\ pc'["master"] = IF flag # "QUIT" THEN "sync" ELSE "exit"
    BY <1>0, <1>7 DEF MasterHead
  <2>2. RoundKept
    BY <1>2, <2>1
  <2>3. StartQuiet' /\ StartClean' /\ NoSwap'
    BY <1>1, <2>1, <2>2 DEF DueInv, RoundKept, StartQuiet, StartClean, NoSwap
  <2>4. DueHeeded' /\ NoOvershoot'
    BY <2>1, <2>2 DEF DueInv, RoundKept, DueHeeded, ShutdownDue, NoOvershoot
  <2> QED
    BY <2>3, <2>4 DEF DueInv
<1>8. CASE DispatchIdle
  <2>1. /\ UNCHANGED <<roundVars, flag>> /\ pc["master"] = "dispatch"
        /\ pc'["master"] \in {"tail", "pause", "done"}
        /\ flag = "PAUSE" => pc'["master"] \in {"pause", "done"}
    BY <1>0, <1>8 DEF DispatchIdle
  <2>2. RoundKept
    BY <1>2, <2>1
  <2>3. StartQuiet' /\ StartClean' /\ NoSwap'
    BY <1>1, <2>1, <2>2 DEF DueInv, RoundKept, StartQuiet, StartClean, NoSwap
  <2>4. DueHeeded' /\ NoOvershoot'
    BY <2>1, <2>2 DEF DueInv, RoundKept, DueHeeded, ShutdownDue, NoOvershoot
  <2> QED
    BY <2>3, <2>4 DEF DueInv
<1>9. CASE DispatchRound
  <2>1. /\ pc["master"] = "dispatch" /\ flag \in {"RUN", "STEP"} /\ round' = round + 1
        /\ shutdownRound' = shutdownRound /\ pc'["master"] = "check"
        /\ round \in Nat /\ shutdownRound \in Nat
    BY <1>0, <1>9 DEF DispatchRound, TypeInv, TypeSystem
  <2>2. shutdownRequested' => shutdownRequested
    BY <1>9, Zenon DEF DispatchRound
  <2>3. NoOvershoot'
    BY <2>1, <2>2 DEF DueInv, DueHeeded, ShutdownDue, NoOvershoot
  <2>4. pc["client"] \notin Loading
    BY <2>1 DEF DueInv, StartQuiet
  <2> QED
    BY <1>1, <2>1, <2>3, <2>4 DEF DueInv, StartQuiet, StartClean, DueHeeded, NoSwap
<1>10. CASE \E m \in unchecked : Check(m) \/ CheckDone(m)
  <2>1. pc["master"] = "check" /\ pc'["master"] \in {"check", "unload"}
    BY <1>0, <1>10 DEF Check, CheckDone
  <2>2. NoOvershoot'
    <3>1. ASSUME NEW m \in unchecked, CheckDone(m) PROVE NoOvershoot'
      <4>1. RoundKept
        BY <1>2, <3>1 DEF CheckDone
      <4> QED
        BY <4>1 DEF DueInv, NoOvershoot, RoundKept
    <3>2. ASSUME NEW m \in unchecked, Check(m) PROVE NoOvershoot'
      <4> DEFINE request == status[m] = "SHUTDOWN" /\ ~shutdownRequested
      <4>1. /\ shutdownRequested' = (shutdownRequested \/ request)
            /\ shutdownRound' = IF request THEN round + Cardinality(pools) ELSE shutdownRound
            /\ round' = round
        BY <3>2, Zenon DEF Check
      <4>2. CASE request
        BY <4>1, <4>2, PoolsFinite DEF TypeInv, TypeSystem, NoOvershoot
      <4>3. CASE ~request
        <5>1. shutdownRequested' => shutdownRequested
          BY <4>1, <4>3, Zenon
        <5>2. shutdownRound' = shutdownRound
          BY <4>1, <4>3
        <5> QED
          BY <4>1, <5>1, <5>2 DEF DueInv, NoOvershoot
      <4> QED
        BY <4>2, <4>3
    <3> QED
      BY <1>10, <3>1, <3>2
  <2>3. pc["client"] \notin Loading
    BY <1>4, <2>1
  <2> QED
    BY <1>1, <2>1, <2>2, <2>3 DEF DueInv, StartQuiet, StartClean, DueHeeded, NoSwap
<1>11. CASE ContinueCheck \/ Arm \/ Launch
  <2>1. UNCHANGED roundVars /\ pc["master"] \in {"unloaded", "check", "launch"}
        /\ pc'["master"] \in {"check", "launch", "run"}
    <3>1. CASE ContinueCheck
      BY <1>0, <3>1 DEF ContinueCheck, roundVars
    <3>2. CASE Arm
      BY <1>0, <3>2 DEF Arm, roundVars
    <3>3. CASE Launch
      BY <1>0, <3>3 DEF Launch, Notify, roundVars
    <3> QED
      BY <1>11, <3>1, <3>2, <3>3
  <2> QED
    BY <1>2, <1>3, <1>4, <2>1
<1>12. CASE Pass("master") \/ PassDone("master", "step") \/ StepTest \/ StepWrite
  <2>1. /\ UNCHANGED roundVars /\ pc["master"] \in {"run", "exec", "step", "stepWrite"}
        /\ pc'["master"] \in {"run", "exec", "step", "stepWrite", "tail"}
    BY <1>0, <1>12 DEF Pass, Skip, StartExecute, EndExecute, PassDone, StepTest, StepWrite
  <2> QED
    BY <1>2, <1>3, <1>4, <2>1
<1>13. CASE MasterTail
  <2>1. /\ UNCHANGED roundVars /\ pc["master"] = "tail"
        /\ flag' = IF ShutdownDue THEN "QUIT" ELSE flag
        /\ pc'["master"] \in {"done", "head"}
    BY <1>0, <1>13 DEF MasterTail
  <2>2. RoundKept
    BY <1>2, <2>1
  <2>3. StartQuiet' /\ StartClean' /\ NoSwap'
    BY <1>1, <1>4, <2>1, <2>2 DEF DueInv, StartQuiet, StartClean, NoSwap
  <2>4. DueHeeded' /\ NoOvershoot'
    BY <2>1, <2>2 DEF DueInv, RoundKept, DueHeeded, ShutdownDue, NoOvershoot
  <2> QED
    BY <2>3, <2>4 DEF DueInv
<1>14. CASE MasterExit \/ Handler \/ HandlerNotify
  <2>1. /\ UNCHANGED roundVars /\ pc["master"] \in {"exit", "handler", "handlerNotify"}
        /\ pc'["master"] \in {"handler", "handlerNotify", "unloadNext", "done"}
    BY <1>0, <1>14 DEF MasterExit, Handler, HandlerNotify, Notify
  <2> QED
    BY <1>2, <1>3, <1>4, <2>1
<1> QED
  BY <1>5, <1>6, <1>7, <1>8, <1>9, <1>10, <1>11, <1>12, <1>13, <1>14 DEF Master

(* The rounds end with the shutdown round, whatever number of pools,       *)
(* modules and rounds, and whatever the modules return, as long as the     *)
(* user only pauses and quits: a master that has written QUIT reads it     *)
(* back (control.cc:114, 52).  With RUN or STEP the user would overwrite   *)
(* it.                                                                     *)
THEOREM ShutdownEnds ==
    ASSUME Commands \subseteq {"PAUSE", "QUIT"}, Swappable = {}
    PROVE  Spec => []NoOvershoot
<1>1. Init => DueInv
  BY DEF Init, DueInv, StartQuiet, StartClean, DueHeeded, ShutdownDue, NoOvershoot, NoSwap, SwapLabel
<1>2. TypeInv /\ DueInv /\ [Next]_vars => DueInv'
  <2> SUFFICES ASSUME TypeInv, DueInv, [Next]_vars PROVE DueInv'
    OBVIOUS
  <2>1. CASE User
    <3>1. PICK cmd \in {"PAUSE", "QUIT"} : Command(cmd)
      BY <2>1 DEF User
    <3>2. RoundKept
      BY <3>1, Zenon DEF Command, Send, roundVars, RoundKept
    <3>3. /\ pc' = [pc EXCEPT !["client"] = "notify"] /\ flag' = cmd
      BY <3>1 DEF Command, Send
    <3>4. pc'["master"] = pc["master"] /\ pc'["client"] = "notify"
      BY <3>3 DEF TypeInv, TypePc
    <3> QED
      BY <3>2, <3>3, <3>4, DueBeside DEF Loading, SwapLabel
  <2>2. ASSUME UNCHANGED <<pc, flag, roundVars>> PROVE DueInv'
    <3>1. RoundKept
      BY <2>2, Zenon DEF roundVars, RoundKept
    <3> QED
      BY <2>2, <3>1, DueBeside DEF DueInv, NoSwap
  <2>3. CASE \E t \in Threads : Sleep(t) \/ Wakeup(t)
    BY <2>2, <2>3 DEF Sleep, Wakeup
  <2>4. CASE vars' = vars
    BY <2>2, <2>4 DEF vars
  <2> QED
    BY <2>1, <2>3, <2>4, Steps, PoolDue, ClientDue, UnloadingDue, MasterDue DEF StepCase
<1>3. Spec => []TypeInv
  <2>1. (TypeInv /\ TypeBool) /\ [Next]_vars => (TypeInv /\ TypeBool)'
    BY TypesStep
  <2> QED
    BY <2>1, TypesInit, PTL DEF Spec
<1>4. DueInv => NoOvershoot
  BY DEF DueInv
<1> QED
  BY <1>1, <1>2, <1>3, <1>4, PTL DEF Spec
==============================================================================
