---------------------------- MODULE ControlRounds ----------------------------
(***************************************************************************)
(* Control implements Rounds: the theorem RoundsImplemented, from the      *)
(* inductive invariant RoundsInv.  IInv says who may be executing when;    *)
(* what the rounds need besides is that nobody is forgotten: a module      *)
(* whose flag is RUN is still to come in the pass of the thread that       *)
(* executes it (AllToCome), so a thread that has ended its pass leaves     *)
(* none of its modules behind.  That rests on every module being in the    *)
(* vector of a pool that is there (AllPlaced), which can fail in one way   *)
(* only: a pool loses its thread, and its modules, before the master has   *)
(* started.  StartCovers is what saves the rounds then: such a pool has    *)
(* been added to activePools and never subtracts, so the master waits in   *)
(* its startup for ever and there is no round at all.                      *)
(* The same invariant shows what is executed to be loaded until the        *)
(* unloading starts (LoadedWhileRunning).                                  *)
(***************************************************************************)
EXTENDS ControlProof

USE DEF Threads, Callers, WaitState, ControlFlag, Status, SystemFlag,
        QuitLabel, UnloadLabel, PoolLabel, MasterLabel, ClientLabel, Label, Go

------------------------------------------------------------------------------
(* What the rounds rest on besides IInv: a module whose flag is RUN is     *)
(* still to come in the pass of the thread that executes it.               *)
Starting == pc["master"] \in {"unborn", "startup", "startSync"}
Working == ~Starting /\ ~Closing

Has(s, m) == \E i \in DOMAIN s : s[i] = m

(* The module is in the vector of a pool that is there, or the client is   *)
(* about to put it there, or the master has taken it out to destroy it.    *)
Placed(m) == PoolName[m] \in pools /\ Has(pmods[PoolName[m]], m)
Coming(m) == /\ pc["client"] \in {"count", "push"}
             /\ m = Head(todo) /\ PoolName[m] \in pools
Going(m) == UnloadingDone /\ pc["master"] \in {"restore", "free"} /\ m = target["master"]

(* Before the first round nothing is to be executed.                       *)
Unstarted == Starting => round = 0 /\ \A m \in Modules : mflag[m] # "RUN"

Stranded == \E m \in loaded : ~Placed(m) /\ ~Coming(m)

(* If a pool was lost with its modules while the system was starting, the  *)
(* startup sync waits for it (control.cc:45): activePools stays raised.    *)
StartCovers ==
    Starting /\ Stranded => activePools + Pending > Cardinality(Owing)

AllPlaced == Working => \A m \in loaded : Placed(m) \/ Going(m)
NoneErased == Working => \A p \in Pools : pc[p] = "erase" => pmods[p] = <<>>

(* The loop over the modules: who is behind it is set running.             *)
Visited == Preparing => \A m \in loaded \ unchecked : mflag[m] = "RUN"
TargetOf == /\ pc["master"] = "check" => unchecked \subseteq loaded
            /\ UnloadingDone =>
                  /\ unchecked \subseteq loaded \union {target["master"]}
                  /\ pc["master"] \in {"resume", "resumeNotify", "unloaded"}
                         => target["master"] \notin loaded
                  /\ pc["master"] \in {"unload", "stopPause", "stopNotify", "stop", "inactive"}
                         => target["master"] \in loaded

(* The thread of m has not passed it yet, or is about to begin its pass.   *)
ToCome(m) ==
    LET t == PoolName[m] IN
        \/ t \in Pools /\ pc[t] = "wait" /\ pflag[t] = "RUN"
        \/ t \in Pools /\ pc[t] = "head"
        \/ t = "master" /\ pc[t] = "launch"
        \/ pc[t] \in {"run", "exec"} /\ Has(iter[t], m)
AllToCome == Working /\ ~Preparing => \A m \in loaded : mflag[m] = "RUN" => ToCome(m)

Course == Unstarted /\ AllPlaced /\ NoneErased /\ Visited /\ TargetOf /\ AllToCome

------------------------------------------------------------------------------
(* Lemmas on the vectors.                                                  *)
LEMMA HasNone == \A m : ~Has(<<>>, m)
  BY DEF Has

(* A module that is not the first of a vector is in the rest of it.        *)
LEMMA HasTail ==
    ASSUME NEW s \in Seq(Modules), s # <<>>, NEW m, Has(s, m), m # Head(s)
    PROVE  Has(Tail(s), m)
<1>1. PICK i \in 1 .. Len(s) : s[i] = m
  BY DEF Has
<1>2. /\ Head(s) = s[1] /\ Len(Tail(s)) = Len(s) - 1 /\ Tail(s) \in Seq(Modules)
      /\ \A k \in 1 .. Len(s) - 1 : Tail(s)[k] = s[k + 1]
  OBVIOUS
<1>3. i # 1
  BY <1>1, <1>2
<1>4. i - 1 \in 1 .. Len(s) - 1 /\ (i - 1) + 1 = i
  BY <1>1, <1>3
<1>5. Tail(s)[i - 1] = s[i] /\ i - 1 \in DOMAIN Tail(s)
  BY <1>2, <1>4
<1> QED
  BY <1>1, <1>5 DEF Has

(* A module in one of two vectors is in the two joined, which is how a     *)
(* vector is written that has lost one element.                            *)
LEMMA HasJoined ==
    ASSUME NEW x \in Seq(Modules), NEW y \in Seq(Modules), NEW m, Has(x, m) \/ Has(y, m)
    PROVE  Has(x \o y, m)
<1>1. /\ DOMAIN (x \o y) = 1 .. Len(x) + Len(y)
      /\ \A k \in 1 .. Len(x) : (x \o y)[k] = x[k]
      /\ \A k \in 1 .. Len(y) : (x \o y)[Len(x) + k] = y[k]
  OBVIOUS
<1>2. ASSUME NEW k \in 1 .. Len(x), x[k] = m PROVE Has(x \o y, m)
  BY <1>1, <1>2 DEF Has
<1>3. ASSUME NEW k \in 1 .. Len(y), y[k] = m PROVE Has(x \o y, m)
  <2>1. Len(x) + k \in 1 .. Len(x) + Len(y) /\ (x \o y)[Len(x) + k] = m
    BY <1>1, <1>3
  <2> QED
    BY <1>1, <2>1 DEF Has
<1> QED
  BY <1>2, <1>3 DEF Has

(* push_back keeps what is there and adds its module (control.cc:173).     *)
LEMMA HasAppend ==
    ASSUME NEW s \in Seq(Modules), NEW n \in Modules
    PROVE  Has(Append(s, n), n) /\ \A m : Has(s, m) => Has(Append(s, n), m)
<1>1. /\ DOMAIN Append(s, n) = 1 .. Len(s) + 1 /\ DOMAIN s = 1 .. Len(s) /\ Len(s) \in Nat
      /\ Append(s, n)[Len(s) + 1] = n
      /\ \A k \in 1 .. Len(s) : Append(s, n)[k] = s[k]
  OBVIOUS
<1>2. Len(s) + 1 \in DOMAIN Append(s, n) /\ DOMAIN s \subseteq DOMAIN Append(s, n)
  BY <1>1
<1> QED
  BY <1>1, <1>2 DEF Has

(* Erasing one module from a vector leaves the others (control.cc:197).    *)
LEMMA HasRemove ==
    ASSUME NEW s \in Seq(Modules), NEW i \in 1 .. Len(s), NEW m, Has(s, m), s[i] # m
    PROVE  Has(RemoveAt(s, i), m)
<1>1. PICK j \in 1 .. Len(s) : s[j] = m
  BY DEF Has
<1> DEFINE x == SubSeq(s, 1, i - 1)
           y == SubSeq(s, i + 1, Len(s))
<1>2. RemoveAt(s, i) = x \o y
  BY DEF RemoveAt
<1>3. /\ x \in Seq(Modules) /\ y \in Seq(Modules)
      /\ Len(x) = i - 1 /\ Len(y) = Len(s) - i
      /\ \A k \in 1 .. i - 1 : x[k] = s[k]
      /\ \A k \in 1 .. Len(s) - i : y[k] = s[i + k]
  OBVIOUS
<1> HIDE DEF x, y
<1>4. CASE j < i
  <2>1. j \in 1 .. i - 1 /\ x[j] = m
    BY <1>1, <1>3, <1>4
  <2>2. Has(x, m)
    BY <1>3, <2>1 DEF Has
  <2> QED
    BY <1>2, <1>3, <2>2, HasJoined
<1>5. CASE j > i
  <2>1. j - i \in 1 .. Len(s) - i /\ i + (j - i) = j
    BY <1>1, <1>5
  <2>2. y[j - i] = m
    BY <1>1, <1>3, <2>1
  <2>3. Has(y, m)
    BY <1>3, <2>1, <2>2 DEF Has
  <2> QED
    BY <1>2, <1>3, <2>3, HasJoined
<1> QED
  BY <1>1, <1>4, <1>5

(* The two ways of saying that a module is in a vector.                    *)
LEMMA RangeHas == \A s, m : m \in Range(s) <=> Has(s, m)
  BY DEF Range, Has

------------------------------------------------------------------------------
(* The course of a round, thread by thread.                                *)
(* A pass of a thread over its modules (moduleController).                 *)
LEMMA PassCourse ==
    TypeInv /\ TypeInv' /\ Phases /\ Course /\ (\E t \in Threads : Pass(t)) => Course'
<1> USE ConstType DEF TypeInv, TypePc, TypePools, TypeModules, TypeCalls, LoadFirst, UnloadLast,
      HandlerLast, Phases, Registered, Quiet, NoQuitYet, Owes, BetweenRounds, Preparing,
      UnloadingDone, Closing, Starting, Working, Placed, Going, Course, Unstarted, AllPlaced,
      NoneErased, Visited, TargetOf, AllToCome, ToCome, syncVars, poolVars, moduleVars, roundVars,
      callVars
<1>1. ASSUME TypeInv, TypeInv', Phases, Course, NEW t \in Threads, Skip(t) PROVE Course'
  <2>1. /\ iter[t] # <<>> /\ mflag[Head(iter[t])] # "RUN" /\ iter' = [iter EXCEPT ![t] = Tail(iter[t])]
        /\ UNCHANGED <<pc, pools, pflag, pmods, target, quitting, loaded, mflag, unchecked, round>>
    BY <1>1 DEF Skip
  <2>2. \A m : Has(iter[t], m) /\ mflag[m] = "RUN" => Has(Tail(iter[t]), m)
    BY <1>1, <2>1, HasTail
  <2> QED
    BY <1>1, <2>1, <2>2
<1>2. ASSUME TypeInv, TypeInv', Phases, Course, NEW t \in Threads, StartExecute(t) PROVE Course'
  BY <1>2 DEF StartExecute
<1>3. ASSUME TypeInv, TypeInv', Phases, Course, NEW t \in Threads, EndExecute(t) PROVE Course'
  <2> DEFINE h == Head(iter[t])
  <2>1. /\ pc[t] = "exec" /\ iter[t] # <<>> /\ mflag' = [mflag EXCEPT ![h] = "WAIT"]
        /\ iter' = [iter EXCEPT ![t] = Tail(iter[t])] /\ pc' = [pc EXCEPT ![t] = "run"]
        /\ UNCHANGED <<pools, pflag, pmods, target, quitting, loaded, unchecked, round>>
    BY <1>3 DEF EndExecute
  <2>2. \A m : Has(iter[t], m) /\ m # h => Has(Tail(iter[t]), m)
    BY <1>3, <2>1, HasTail
  <2>3. h \in Modules
    BY <1>3, <2>1
  <2> HIDE DEF h
  <2> QED
    BY <1>3, <2>1, <2>2, <2>3
<1> HIDE DEF TypeInv, Phases, Course
<1> QED
  BY <1>1, <1>2, <1>3 DEF Pass

(* The steps of a pool thread (poolController, moduleController).          *)
LEMMA PoolCourse ==
    TypeInv /\ TypeInv' /\ Phases /\ Course /\ (\E p \in Pools : Pool(p)) => Course'
<1> USE ConstType DEF TypeInv, TypePc, TypePools, TypeModules, TypeCalls, LoadFirst, HandlerLast,
      Phases, Registered, Quiet, NoQuitYet, Owes, BetweenRounds, Preparing, UnloadingDone, Closing,
      Starting, Working, Placed, Going, Course, Unstarted, AllPlaced, NoneErased,
      Visited, TargetOf, AllToCome, ToCome, syncVars, poolVars, moduleVars, roundVars, callVars
<1>1. ASSUME TypeInv, TypeInv', Phases, Course, NEW p \in Pools, Attach(p) PROVE Course'
  BY <1>1 DEF Attach
<1>2. ASSUME TypeInv, TypeInv', Phases, Course, NEW p \in Pools, PassDone(p, "finish") PROVE Course'
  BY <1>2, HasNone DEF PassDone
<1>3. ASSUME TypeInv, TypeInv', Phases, Course, NEW p \in Pools, PoolFinish(p) PROVE Course'
  BY <1>3 DEF PoolFinish
<1>4. ASSUME TypeInv, TypeInv', Phases, Course, NEW p \in Pools, PoolFinishWrite(p) PROVE Course'
  BY <1>4 DEF PoolFinishWrite
<1>5. ASSUME TypeInv, TypeInv', Phases, Course, NEW p \in Pools, PoolSub(p) PROVE Course'
  BY <1>5 DEF PoolSub
<1>6. ASSUME TypeInv, TypeInv', Phases, Course, NEW p \in Pools, PoolWait(p) PROVE Course'
  BY <1>6 DEF PoolWait, Enqueue
<1>7. ASSUME TypeInv, TypeInv', Phases, Course, NEW p \in Pools, PoolErase(p) PROVE Course'
  BY <1>7, HasNone DEF PoolErase
<1>8. ASSUME TypeInv, TypeInv', Phases, Course, NEW p \in Pools, PoolHead(p) PROVE Course'
  <2>1. UNCHANGED <<pools, pflag, pmods, target, quitting, loaded, mflag, unchecked, round>>
    BY <1>8 DEF PoolHead
  <2>2. CASE pc' = [pc EXCEPT ![p] = "run"] /\ iter' = [iter EXCEPT ![p] = pmods[p]] /\ pc[p] = "head"
    BY <1>8, <2>1, <2>2
  <2>3. CASE /\ pc' = [pc EXCEPT ![p] = "erase"] /\ iter' = iter /\ pc[p] = "head"
             /\ pflag[p] = "QUIT" \/ pmods[p] = <<>>
    BY <1>8, <2>1, <2>3, HasNone
  <2> QED
    BY <1>8, <2>2, <2>3 DEF PoolHead
<1> HIDE DEF TypeInv, Phases, Course
<1> QED
  BY <1>1, <1>2, <1>3, <1>4, <1>5, <1>6, <1>7, <1>8, PassCourse DEF Pool

(* The steps the client's thread takes on its own, but for unloading.      *)
LEMMA ClientCourse ==
    TypeInv /\ TypeInv' /\ Phases /\ Course /\ Client /\ ~Unloading("client") => Course'
<1> USE ConstType DEF TypeInv, TypePc, TypePools, TypeModules, TypeCalls, LoadFirst, UnloadLast,
      HandlerLast, Phases, Registered, Quiet, NoQuitYet, Owes, BetweenRounds, Preparing,
      UnloadingDone, Closing, Starting, Working, Placed, Going, Course, Unstarted, AllPlaced,
      NoneErased, Visited, TargetOf, AllToCome, ToCome, syncVars, poolVars, moduleVars, roundVars,
      callVars
<1>1. ASSUME TypeInv, TypeInv', Phases, Course, LoadIntoPool PROVE Course'
  BY <1>1 DEF LoadIntoPool, Register, Push
<1>2. ASSUME TypeInv, TypeInv', Phases, Course, LoadNewPool PROVE Course'
  BY <1>2 DEF LoadNewPool, Register, TypeStack
<1>3. ASSUME TypeInv, TypeInv', Phases, Course, CountPool PROVE Course'
  BY <1>3 DEF CountPool
<1>4. ASSUME TypeInv, TypeInv', Phases, Course, PushFirst PROVE Course'
  BY <1>4 DEF PushFirst, Push
<1>5. ASSUME TypeInv, TypeInv', Phases, Course, Fork PROVE Course'
  BY <1>5 DEF Fork
<1>6. ASSUME TypeInv, TypeInv', Phases, Course, Assign PROVE Course'
  BY <1>6 DEF Assign
<1>7. ASSUME TypeInv, TypeInv', Phases, Course, FirstRun PROVE Course'
  BY <1>7 DEF FirstRun, Send
<1>8. ASSUME TypeInv, TypeInv', Phases, Course, CommandNotify PROVE Course'
  BY <1>8 DEF CommandNotify, Notify
<1>9. ASSUME TypeInv, TypeInv', Phases, Course, Alarm PROVE Course'
  BY <1>9 DEF Alarm, Send
<1>10. ASSUME TypeInv, TypeInv', Phases, Course, Join PROVE Course'
  BY <1>10 DEF Join
<1>11. ASSUME TypeInv, TypeInv', Phases, Course, WhileActive("client", "swapWait") PROVE Course'
  BY <1>11 DEF WhileActive
<1>12. ASSUME TypeInv, TypeInv', Phases, Course, SwapPause PROVE Course'
  BY <1>12 DEF SwapPause
<1>13. ASSUME TypeInv, TypeInv', Phases, Course, SwapNotify PROVE Course'
  BY <1>13 DEF SwapNotify, Notify
<1>14. ASSUME TypeInv, TypeInv', Phases, Course, StartSwap PROVE Course'
  BY <1>14 DEF StartSwap, OnceInactive
<1>15. ASSUME TypeInv, TypeInv', Phases, Course, EndSwap PROVE Course'
  BY <1>15 DEF EndSwap
<1>16. ASSUME TypeInv, TypeInv', Phases, Course, Delete PROVE Course'
  BY <1>16 DEF Delete
<1> HIDE DEF TypeInv, Phases, Course
<1> QED
  BY <1>1, <1>2, <1>3, <1>4, <1>5, <1>6, <1>7, <1>8, <1>9, <1>10, <1>11, <1>12, <1>13, <1>14, <1>15,
     <1>16 DEF Client

(* What the user makes the client do.                                      *)
LEMMA UserCourse ==
    TypeInv /\ TypeInv' /\ Phases /\ Course /\ User => Course'
<1> USE ConstType DEF TypeInv, TypePc, TypePools, TypeModules, TypeCalls, LoadFirst, UnloadLast,
      HandlerLast, Phases, Registered, Quiet, NoQuitYet, Owes, BetweenRounds, Preparing,
      UnloadingDone, Closing, Starting, Working, Placed, Going, Course, Unstarted, AllPlaced,
      NoneErased, Visited, TargetOf, AllToCome, ToCome, syncVars, poolVars, moduleVars, roundVars,
      callVars
<1>1. ASSUME TypeInv, TypeInv', Phases, Course, NEW cmd \in Commands,
             Command(cmd) PROVE Course'
  BY <1>1 DEF Command, Send
<1>2. ASSUME TypeInv, TypeInv', Phases, Course, NEW m \in Swappable,
             HotSwap(m) PROVE Course'
  BY <1>2 DEF HotSwap
<1> HIDE DEF TypeInv, Phases, Course
<1> QED
  BY <1>1, <1>2 DEF User

(* Falling asleep on the barrier, and waking up without a reason.          *)
LEMMA WaitCourse ==
    TypeInv /\ TypeInv' /\ Phases /\ Course /\ (\E t \in Threads : Sleep(t) \/ Wakeup(t)) => Course'
<1> USE ConstType DEF TypeInv, TypePc, TypePools, TypeModules, TypeCalls, LoadFirst, UnloadLast,
      HandlerLast, Phases, Registered, Quiet, NoQuitYet, Owes, BetweenRounds, Preparing,
      UnloadingDone, Closing, Starting, Working, Placed, Going, Course, Unstarted, AllPlaced,
      NoneErased, Visited, TargetOf, AllToCome, ToCome, syncVars, poolVars, moduleVars, roundVars,
      callVars
<1>1. ASSUME TypeInv, TypeInv', Phases, Course, NEW t \in Threads, Sleep(t) PROVE Course'
  BY <1>1 DEF Sleep
<1>2. ASSUME TypeInv, TypeInv', Phases, Course, NEW t \in Threads, Wakeup(t) PROVE Course'
  BY <1>2 DEF Wakeup
<1> HIDE DEF TypeInv, Phases, Course
<1> QED
  BY <1>1, <1>2

(* Unloading a module, by the client or by the master.                     *)
LEMMA UnloadingCourse ==
    TypeInv /\ TypeInv' /\ Phases /\ Course /\ (\E c \in Callers : Unloading(c)) => Course'
<1> USE ConstType DEF TypeInv, TypePc, TypePools, TypeModules, TypeCalls, LoadFirst, UnloadLast,
      HandlerLast, Phases, Registered, Quiet, NoQuitYet, Owes, BetweenRounds, Preparing,
      UnloadingDone, Closing, Starting, Working, Placed, Going, Course, Unstarted, AllPlaced,
      NoneErased, Visited, TargetOf, AllToCome, ToCome, syncVars, poolVars, moduleVars, roundVars,
      callVars
<1>1. ASSUME TypeInv, TypeInv', Phases, Course, NEW c \in Callers, UnloadNext(c) PROVE Course'
  <2>1. /\ pc[c] = "unloadNext" /\ (pc' = pc \/ pc' = [pc EXCEPT ![c] = "unload"])
        /\ UNCHANGED <<poolVars, moduleVars, roundVars, quitting>>
    BY <1>1 DEF UnloadNext
  <2>2. Closing /\ (c = "client" \/ quitting["master"])
    BY <1>1, <2>1 DEF HandlerQuits
  <2> QED
    BY <1>1, <2>1, <2>2
<1>2. ASSUME TypeInv, TypeInv', Phases, Course, NEW c \in Callers, AllUnloaded(c) PROVE Course'
  BY <1>2 DEF AllUnloaded
<1>3. ASSUME TypeInv, TypeInv', Phases, Course, NEW c \in Callers, Unload(c) PROVE Course'
  BY <1>3 DEF Unload
<1>4. ASSUME TypeInv, TypeInv', Phases, Course, NEW c \in Callers, StopPause(c) PROVE Course'
  BY <1>4 DEF StopPause
<1>5. ASSUME TypeInv, TypeInv', Phases, Course, NEW c \in Callers, StopNotify(c) PROVE Course'
  BY <1>5 DEF StopNotify, Notify
<1>6. ASSUME TypeInv, TypeInv', Phases, Course, NEW c \in Callers, Stop(c) PROVE Course'
  BY <1>6 DEF Stop
<1>7. ASSUME TypeInv, TypeInv', Phases, Course, NEW c \in Callers, WhileActive(c, "inactive") PROVE Course'
  BY <1>7 DEF WhileActive
<1>8. ASSUME TypeInv, TypeInv', Phases, Course, NEW c \in Callers, RemoveFromPool(c) PROVE Course'
  <2> DEFINE g == target[c]
             q == PoolName[g]
  <2>1. /\ pc[c] = "inactive" /\ pc' = [pc EXCEPT ![c] = "restore"]
        /\ UNCHANGED <<pools, pflag, iter, target, quitting, loaded, mflag, unchecked, round>>
    BY <1>8 DEF RemoveFromPool, OnceInactive
  <2>2. CASE Closing
    <3>1. c = "client" \/ quitting["master"]
      BY <1>8, <2>1, <2>2
    <3> QED
      BY <1>8, <2>1, <2>2, <3>1
  <2>3. CASE ~Closing
    <3>1. c = "master" /\ UnloadingDone /\ g \in loaded /\ q \in pools /\ Has(pmods[q], g)
      BY <1>8, <2>1, <2>3
    <3>2. \E i \in 1 .. Len(pmods[q]) : pmods[q][i] = g /\ pmods' = [pmods EXCEPT ![q] = RemoveAt(pmods[q], i)]
      BY <1>8, <3>1, HasNone, RangeHas DEF RemoveFromPool
    <3>3. PICK i \in 1 .. Len(pmods[q]) : pmods[q][i] = g /\ pmods' = [pmods EXCEPT ![q] = RemoveAt(pmods[q], i)]
      BY <3>2
    <3>4. q \in Threads /\ pmods[q] \in Seq(Modules)
      BY <1>8, <3>1
    <3>5. \A m : Has(pmods[q], m) /\ m # g => Has(pmods'[q], m)
      BY <1>8, <3>3, <3>4, HasRemove
    <3>6. \A t \in Threads \ {q} : pmods'[t] = pmods[t]
      BY <1>8, <3>3, <3>4
    <3>7. \A m \in loaded : m # g => Placed(m)'
      <4> SUFFICES ASSUME NEW m \in loaded, m # g PROVE Placed(m)'
        OBVIOUS
      <4>1. Placed(m) /\ PoolName[m] \in Threads
        BY <1>8, <2>1, <2>3, <3>1
      <4>2. CASE PoolName[m] = q
        BY <2>1, <3>5, <4>1, <4>2
      <4>3. CASE PoolName[m] # q
        BY <2>1, <3>6, <4>1, <4>3
      <4> QED
        BY <4>2, <4>3
    <3>8. pmods[q] # <<>>
      BY <3>1, HasNone
    <3>9. Working /\ Preparing /\ Preparing' /\ Going(g)'
      BY <1>8, <2>1, <2>3, <3>1
    <3>10. AllPlaced'
      <4>1. \A m \in loaded' : Placed(m)' \/ Going(m)'
        BY <2>1, <3>7, <3>9
      <4> HIDE DEF Placed, Going
      <4> QED
        BY <4>1
    <3>11. NoneErased'
      BY <1>8, <2>1, <3>1, <3>6, <3>8, <3>9
    <3>12. Unstarted' /\ Visited' /\ TargetOf' /\ AllToCome'
      BY <1>8, <2>1, <2>3, <3>1, <3>9
    <3> QED
      BY <3>10, <3>11, <3>12
  <2> QED
    BY <2>2, <2>3
<1>9. ASSUME TypeInv, TypeInv', Phases, Course, NEW c \in Callers, Restore(c) PROVE Course'
  BY <1>9 DEF Restore, Notify
<1>10. ASSUME TypeInv, TypeInv', Phases, Course, NEW c \in Callers, Free(c) PROVE Course'
  BY <1>10 DEF Free
<1>11. ASSUME TypeInv, TypeInv', Phases, Course, NEW c \in Callers, Resume(c) PROVE Course'
  BY <1>11 DEF Resume
<1>12. ASSUME TypeInv, TypeInv', Phases, Course, NEW c \in Callers, ResumeNotify(c) PROVE Course'
  BY <1>12 DEF ResumeNotify, Notify
<1>13. ASSUME TypeInv, TypeInv', Phases, Course, NEW c \in Callers, PopUnloaded(c) PROVE Course'
  BY <1>13 DEF PopUnloaded
<1> HIDE DEF TypeInv, Phases, Course
<1> QED
  BY <1>1, <1>2, <1>3, <1>4, <1>5, <1>6, <1>7, <1>8, <1>9, <1>10, <1>11, <1>12, <1>13 DEF Unloading

(* The steps of the master controller, but for unloading.                  *)
LEMMA MasterCourse ==
    IInv /\ TypeInv /\ TypeInv' /\ Phases /\ StartCovers /\ Course /\ Master /\ ~Unloading("master")
        => Course'
<1> USE ConstType DEF TypeInv, TypePc, TypePools, TypeModules, TypeCalls, LoadFirst, UnloadLast,
      HandlerLast, Phases, Registered, Quiet, NoQuitYet, Owes, BetweenRounds, Preparing,
      UnloadingDone, Closing, Starting, Working, Placed, Going, Course, Unstarted, AllPlaced,
      NoneErased, Visited, TargetOf, AllToCome, ToCome, syncVars, poolVars, moduleVars, roundVars,
      callVars
<1>1. ASSUME TypeInv, TypeInv', Phases, Course, Startup PROVE Course'
  BY <1>1 DEF Startup, Notify
<1>2. ASSUME IInv, TypeInv, TypeInv', Phases, StartCovers, Course, MasterWait PROVE Course'
  <2>1. UNCHANGED <<activePools, pools, pflag, pmods, iter, target, quitting, loaded, mflag, unchecked, round>>
    BY <1>2 DEF MasterWait
  <2>2. CASE pc' = pc
    BY <1>2, <2>1, <2>2
  <2>3. CASE /\ pc["master"] = "startSync" /\ activePools = 0
             /\ pc' = [pc EXCEPT !["master"] = "reset"]
    <3>1. pc["client"] \notin {"count", "push"} /\ pc["master"] # "launch" /\ ~Closing
      BY <1>2, <2>3
    <3>2. Pending = 0
      BY <3>1 DEF Pending
    <3>3. activePools + Pending = 0 /\ activePools + Pending >= Cardinality(Owing)
      BY <1>2, <2>3, <3>1, <3>2 DEF IInv, CountCovers
    <3>4. Cardinality(Owing) = 0 /\ ~(activePools + Pending > Cardinality(Owing))
      BY <3>3, OwingFinite
    <3>5. \A p \in Pools : ~Owes(p)
      <4>1. Owing = {}
        BY <3>4, OwingFinite, FS_EmptySet
      <4> QED
        BY <4>1 DEF Owing
    <3>6. \A m \in loaded : Placed(m)
      BY <2>3, <3>1, <3>4, <1>2 DEF StartCovers, Stranded, Coming
    <3> HIDE DEF Owing, Pending
    <3> QED
      BY <1>2, <2>1, <2>3, <3>5, <3>6
  <2>4. CASE /\ pc["master"] \in {"sync", "pause"}
             /\ \E label \in {"dispatch", "tail"} : pc' = [pc EXCEPT !["master"] = label]
    BY <1>2, <2>1, <2>4
  <2> QED
    BY <1>2, <2>2, <2>3, <2>4 DEF MasterWait, Enqueue
<1>3. ASSUME TypeInv, TypeInv', Phases, Course, Reset PROVE Course'
  BY <1>3 DEF Reset
<1>4. ASSUME TypeInv, TypeInv', Phases, Course, MasterHead PROVE Course'
  BY <1>4 DEF MasterHead
<1>5. ASSUME TypeInv, TypeInv', Phases, Course, DispatchIdle PROVE Course'
  BY <1>5 DEF DispatchIdle
<1>6. ASSUME TypeInv, TypeInv', Phases, Course, DispatchRound PROVE Course'
  BY <1>6 DEF DispatchRound
<1>7. ASSUME TypeInv, TypeInv', Phases, Course, NEW m \in unchecked, Check(m) PROVE Course'
  BY <1>7 DEF Check
<1>8. ASSUME TypeInv, TypeInv', Phases, Course, NEW m \in unchecked, CheckDone(m) PROVE Course'
  BY <1>8 DEF CheckDone
<1>9. ASSUME TypeInv, TypeInv', Phases, Course, ContinueCheck PROVE Course'
  BY <1>9 DEF ContinueCheck
<1>10. ASSUME TypeInv, TypeInv', Phases, Course, Arm PROVE Course'
  BY <1>10 DEF Arm
<1>11. ASSUME TypeInv, TypeInv', Phases, Course, Launch PROVE Course'
  BY <1>11 DEF Launch, Notify
<1>12. ASSUME TypeInv, TypeInv', Phases, Course, PassDone("master", "step") PROVE Course'
  BY <1>12, HasNone DEF PassDone
<1>13. ASSUME TypeInv, TypeInv', Phases, Course, StepTest PROVE Course'
  BY <1>13 DEF StepTest
<1>14. ASSUME TypeInv, TypeInv', Phases, Course, StepWrite PROVE Course'
  BY <1>14 DEF StepWrite
<1>15. ASSUME TypeInv, TypeInv', Phases, Course, MasterTail PROVE Course'
  BY <1>15 DEF MasterTail
<1>16. ASSUME TypeInv, TypeInv', Phases, Course, MasterExit PROVE Course'
  BY <1>16 DEF MasterExit
<1>17. ASSUME TypeInv, TypeInv', Phases, Course, Handler PROVE Course'
  BY <1>17 DEF Handler
<1>18. ASSUME TypeInv, TypeInv', Phases, Course, HandlerNotify PROVE Course'
  BY <1>18 DEF HandlerNotify, Notify
<1> HIDE DEF TypeInv, Phases, Course
<1> QED
  BY <1>1, <1>2, <1>3, <1>4, <1>5, <1>6, <1>7, <1>8, <1>9, <1>10, <1>11, <1>12, <1>13, <1>14, <1>15,
     <1>16, <1>17, <1>18, PassCourse DEF Master

------------------------------------------------------------------------------
(* The count while the system is starting.  A step that keeps the count    *)
(* and strands no module preserves StartCovers.                            *)
NotStranded == Starting' => /\ Starting
                            /\ \A m \in loaded' : ~Placed(m)' /\ ~Coming(m)'
                                   => m \in loaded /\ ~Placed(m) /\ ~Coming(m)

LEMMA StartFrame ==
    TypeInv /\ TypeInv' /\ StartCovers /\ CountKept /\ NotStranded => StartCovers'
<1> SUFFICES ASSUME TypeInv, TypeInv', StartCovers, CountKept, NotStranded, Starting', Stranded'
             PROVE  activePools' + Pending' > Cardinality(Owing')
  BY DEF StartCovers
<1>1. Starting /\ Stranded
  BY DEF NotStranded, Stranded
<1>2. ~Closing'
  BY DEF Starting, Closing
<1>3. Owing' \subseteq Owing /\ activePools' = activePools
  BY <1>2 DEF CountKept
<1>4. Pending' = Pending
  BY <1>2 DEF CountKept, Pending
<1>5. activePools + Pending > Cardinality(Owing)
  BY <1>1 DEF StartCovers
<1>6. Cardinality(Owing') \in Nat /\ Cardinality(Owing') <= Cardinality(Owing)
  BY <1>3, OwingFinite, FS_Subset, FS_CardinalityType
<1>7. activePools \in Int /\ Pending \in Int
  BY PendingType DEF TypeInv, TypePools
<1> QED
  BY <1>3, <1>4, <1>5, <1>6, <1>7, OwingFinite

(* The steps of a pool thread.  A pool that leaves without a subtraction   *)
(* leaves activePools raised above the pools that owe.                     *)
LEMMA PoolStart ==
    TypeInv /\ TypeInv' /\ Phases /\ CountCovers /\ StartCovers /\ (\E p \in Pools : Pool(p))
        => StartCovers'
<1> USE ConstType DEF TypePc, LoadFirst, UnloadLast, HandlerLast, HandlerQuits, Owing, Owes, Closing,
      CountKept, NotStranded, Starting, Placed, Coming, syncVars, poolVars, moduleVars, roundVars, stackVars,
      callVars
<1>1. ASSUME TypeInv, TypeInv', Phases, NEW p \in Pools, Attach(p) PROVE CountKept /\ NotStranded
  BY <1>1 DEF TypeInv, Phases, Attach, AttachParty
<1>2. ASSUME TypeInv, TypeInv', Phases, NEW p \in Pools, PoolHead(p) PROVE CountKept /\ NotStranded
  BY <1>2 DEF TypeInv, Phases, PoolHead
<1>3. ASSUME TypeInv, TypeInv', Phases, NEW t \in Threads, Skip(t) PROVE CountKept /\ NotStranded
  BY <1>3 DEF TypeInv, Phases, Skip
<1>4. ASSUME TypeInv, TypeInv', Phases, NEW t \in Threads, StartExecute(t) PROVE CountKept /\ NotStranded
  BY <1>4 DEF TypeInv, Phases, StartExecute
<1>5. ASSUME TypeInv, TypeInv', Phases, NEW t \in Threads, EndExecute(t) PROVE CountKept /\ NotStranded
  BY <1>5 DEF TypeInv, Phases, EndExecute
<1>6. ASSUME TypeInv, TypeInv', Phases, NEW p \in Pools, PassDone(p, "finish") PROVE CountKept /\ NotStranded
  BY <1>6 DEF TypeInv, Phases, PassDone
<1>7. ASSUME TypeInv, TypeInv', Phases, NEW p \in Pools, PoolFinish(p) PROVE CountKept /\ NotStranded
  BY <1>7 DEF TypeInv, Phases, PoolFinish
<1>8. ASSUME TypeInv, TypeInv', Phases, NEW p \in Pools, PoolFinishWrite(p) PROVE CountKept /\ NotStranded
  BY <1>8 DEF TypeInv, Phases, PoolFinishWrite
<1>9. ASSUME TypeInv, TypeInv', Phases, NEW p \in Pools, PoolWait(p) PROVE CountKept /\ NotStranded
  BY <1>9 DEF TypeInv, Phases, PoolWait, Enqueue, Arrive, Recheck, Notified
<1>10. ASSUME TypeInv, TypeInv', Phases, StartCovers, NEW p \in Pools, PoolSub(p) PROVE StartCovers'
  <2> SUFFICES ASSUME Starting', Stranded' PROVE activePools' + Pending' > Cardinality(Owing')
    BY DEF StartCovers
  <2>1. /\ pc[p] = "sub" /\ pc' = [pc EXCEPT ![p] = "wait"] /\ activePools' = activePools - 1
        /\ UNCHANGED <<pools, pflag, pmods, loaded, todo, quitting>>
    BY <1>10 DEF PoolSub
  <2>2. Starting /\ ~Closing /\ pflag[p] = "WAIT"
    BY <1>10, <2>1 DEF TypeInv, Phases, SubLowered
  <2>3. Stranded
    BY <1>10, <2>1 DEF TypeInv, Stranded
  <2>4. p \in Owing /\ Owing' = Owing \ {p}
    BY <1>10, <2>1, <2>2 DEF TypeInv
  <2>5. Pending' = Pending
    BY <1>10, <2>1 DEF TypeInv, Pending
  <2>6. activePools \in Int /\ Pending \in Int
    BY <1>10, PendingType DEF TypeInv, TypePools
  <2> HIDE DEF Owing
  <2>7. Cardinality(Owing') = Cardinality(Owing) - 1
    BY <2>4, OwingFinite, FS_RemoveElement
  <2>8. activePools + Pending > Cardinality(Owing)
    BY <1>10, <2>2, <2>3 DEF StartCovers
  <2> QED
    BY <2>1, <2>5, <2>6, <2>7, <2>8, OwingFinite
<1>11. ASSUME TypeInv, TypeInv', Phases, CountCovers, NEW p \in Pools, PoolErase(p) PROVE StartCovers'
  <2> SUFFICES ASSUME Starting' PROVE activePools' + Pending' > Cardinality(Owing')
    BY DEF StartCovers
  <2>1. /\ pc[p] = "erase" /\ pc' = [pc EXCEPT ![p] = "done"]
        /\ UNCHANGED <<activePools, pflag, quitting>>
    BY <1>11 DEF PoolErase
  <2>2. Starting /\ ~Closing
    BY <1>11, <2>1 DEF TypeInv
  <2>3. p \in Owing /\ Owing' = Owing \ {p}
    BY <1>11, <2>1 DEF TypeInv
  <2>4. Pending' = Pending
    BY <1>11, <2>1, <2>2 DEF TypeInv, Pending
  <2>5. activePools \in Int /\ Pending \in Int
    BY <1>11, PendingType DEF TypeInv, TypePools
  <2> HIDE DEF Owing
  <2>6. Cardinality(Owing') = Cardinality(Owing) - 1
    BY <2>3, OwingFinite, FS_RemoveElement
  <2>7. activePools + Pending >= Cardinality(Owing)
    BY <1>11, <2>2 DEF CountCovers
  <2> QED
    BY <2>1, <2>4, <2>5, <2>6, <2>7, OwingFinite
<1> HIDE DEF CountKept, NotStranded
<1> QED
  BY StartFrame, <1>1, <1>2, <1>3, <1>4, <1>5, <1>6, <1>7, <1>8, <1>9, <1>10, <1>11 DEF Pool, Pass

(* The steps the client's thread takes on its own, but for unloading.  A   *)
(* pool that is started again has lost the modules of its first thread.    *)
LEMMA ClientStart ==
    TypeInv /\ TypeInv' /\ Phases /\ StartCovers /\ Client /\ ~Unloading("client") => StartCovers'
<1> USE ConstType DEF TypePc, LoadFirst, UnloadLast, HandlerLast, HandlerQuits, Owing, Owes, Closing,
      CountKept, NotStranded, Starting, Placed, Coming, syncVars, poolVars, moduleVars, roundVars, stackVars,
      callVars
<1>1. ASSUME TypeInv, TypeInv', Phases, LoadIntoPool PROVE CountKept /\ NotStranded
  <2> DEFINE m == Head(todo)
             q == PoolName[m]
  <2>1. /\ pc["client"] = "load" /\ todo # <<>> /\ q \in pools /\ loaded' = loaded \union {m}
        /\ pmods' = [pmods EXCEPT ![q] = Append(pmods[q], m)]
        /\ UNCHANGED <<pc, activePools, pools, pflag, quitting>>
    BY <1>1 DEF LoadIntoPool, Register, Push
  <2>2. m \in Modules /\ q \in Threads /\ pmods[q] \in Seq(Modules)
    BY <1>1, <2>1 DEF TypeInv, TypeStack, TypePools
  <2>3. CountKept
    BY <1>1, <2>1 DEF TypeInv, Phases
  <2> HIDE DEF m, q
  <2>4. Has(pmods'[q], m) /\ \A n : Has(pmods[q], n) => Has(pmods'[q], n)
    BY <1>1, <2>1, <2>2, HasAppend DEF TypeInv, TypePools
  <2>5. q = PoolName[m] /\ \A t \in Threads \ {q} : pmods'[t] = pmods[t]
    BY <1>1, <2>1 DEF TypeInv, TypePools, q
  <2>6. ASSUME NEW n \in loaded', ~Placed(n)'
        PROVE  n \in loaded /\ ~Placed(n) /\ ~Coming(n)
    <3>1. n # m
      BY <2>1, <2>4, <2>5, <2>6
    <3>2. n \in loaded /\ PoolName[n] \in Threads /\ ~Coming(n)
      BY <1>1, <2>1, <2>6, <3>1 DEF TypeInv, TypeModules
    <3>3. ~Placed(n)
      BY <2>1, <2>4, <2>5, <2>6, <3>2
    <3> QED
      BY <3>2, <3>3
  <2>7. Starting' => Starting
    BY <2>1
  <2> HIDE DEF Starting, Placed, Coming
  <2>8. NotStranded
    BY <2>6, <2>7
  <2> QED
    BY <2>3, <2>8
<1>2. ASSUME TypeInv, TypeInv', Phases, StartCovers, LoadNewPool PROVE StartCovers'
  <2> SUFFICES ASSUME Starting', Stranded' PROVE activePools' + Pending' > Cardinality(Owing')
    BY DEF StartCovers
  <2> DEFINE m == Head(todo)
             p == PoolName[m]
  <2>1. m \in Modules /\ p \in Pools /\ p \notin pools /\ p = PoolName[m]
    BY <1>2 DEF LoadNewPool, TypeInv, TypeStack, TypePools
  <2>2. /\ pc["client"] = "load" /\ pc' = [pc EXCEPT !["client"] = "count", ![p] = "attach"]
        /\ pools' = pools \union {p} /\ loaded' = loaded \union {m}
        /\ pflag' = [pflag EXCEPT ![p] = "WAIT"] /\ pmods' = [pmods EXCEPT ![p] = <<>>]
        /\ UNCHANGED <<activePools, quitting, todo>>
    BY <1>2 DEF LoadNewPool, Register
  <2>3. Head(todo') = m
    BY <2>2
  <2> HIDE DEF m, p
  <2>4. /\ pc["master"] = "unborn" /\ pc'["master"] = "unborn" /\ ~Closing
        /\ pc[p] \in {"unborn", "done"} /\ pc'["client"] = "count"
    BY <1>2, <2>1, <2>2 DEF TypeInv, Phases, Registered
  <2>5. p \notin Owing /\ Owing' = Owing \union {p}
    BY <1>2, <2>1, <2>2, <2>4 DEF TypeInv, TypePools
  <2>6. Pending = 0 /\ Pending' = 1
    BY <2>2, <2>4 DEF Pending
  <2>7. Stranded
    <3>1. PICK n \in loaded' : ~Placed(n)' /\ ~Coming(n)'
      BY DEF Stranded
    <3>2. n # m
      BY <2>1, <2>2, <2>3, <2>4, <3>1
    <3>3. n \in loaded /\ PoolName[n] \in Threads
      BY <1>2, <2>2, <3>1, <3>2 DEF TypeInv, TypeModules
    <3>4. ~Coming(n)
      BY <2>2
    <3>5. ~Placed(n)
      <4>1. CASE PoolName[n] = p
        BY <2>1, <4>1
      <4>2. CASE PoolName[n] # p
        BY <1>2, <2>2, <3>1, <3>3, <4>2 DEF TypeInv, TypePools
      <4> QED
        BY <4>1, <4>2
    <3> QED
      BY <3>3, <3>4, <3>5 DEF Stranded
  <2>8. activePools \in Int /\ activePools + Pending > Cardinality(Owing)
    BY <1>2, <2>4, <2>7 DEF StartCovers, TypeInv, TypePools
  <2> HIDE DEF Owing
  <2>9. Cardinality(Owing') = Cardinality(Owing) + 1
    BY <2>5, OwingFinite, FS_AddElement
  <2> QED
    BY <2>2, <2>6, <2>8, <2>9, OwingFinite
<1>3. ASSUME TypeInv, TypeInv', Phases, StartCovers, CountPool PROVE StartCovers'
  <2> SUFFICES ASSUME Starting', Stranded' PROVE activePools' + Pending' > Cardinality(Owing')
    BY DEF StartCovers
  <2>1. /\ pc["client"] = "count" /\ pc' = [pc EXCEPT !["client"] = "push"]
        /\ activePools' = activePools + 1
        /\ UNCHANGED <<pools, pflag, pmods, loaded, todo, quitting>>
    BY <1>3 DEF CountPool
  <2>2. pc["master"] = "unborn" /\ pc'["master"] = "unborn" /\ pc'["client"] = "push"
    BY <1>3, <2>1 DEF TypeInv
  <2>3. Owing' = Owing
    BY <1>3, <2>1 DEF TypeInv
  <2>4. Pending = 1 /\ Pending' = 0
    BY <2>1, <2>2 DEF Pending
  <2>5. Stranded
    BY <2>1, <2>2 DEF Stranded
  <2>6. activePools + Pending > Cardinality(Owing)
    BY <1>3, <2>2, <2>5 DEF StartCovers
  <2>7. activePools \in Int
    BY <1>3 DEF TypeInv, TypePools
  <2> HIDE DEF Owing
  <2> QED
    BY <2>1, <2>3, <2>4, <2>6, <2>7, OwingFinite
<1>4. ASSUME TypeInv, TypeInv', Phases, PushFirst PROVE CountKept /\ NotStranded
  <2> DEFINE m == Head(todo)
             q == PoolName[m]
  <2>1. /\ pc["client"] = "push" /\ pc' = [pc EXCEPT !["client"] = "load"]
        /\ pmods' = [pmods EXCEPT ![q] = Append(pmods[q], m)]
        /\ UNCHANGED <<activePools, pools, pflag, loaded, quitting>>
    BY <1>4 DEF PushFirst, Push
  <2>2. m \in Modules /\ q \in Threads /\ pmods[q] \in Seq(Modules) /\ q = PoolName[m]
    BY <1>4, <2>1 DEF TypeInv, TypeStack, TypePools
  <2>3. CountKept
    BY <1>4, <2>1 DEF TypeInv, Phases
  <2>4. \A n : Coming(n) => n = m /\ q \in pools
    OBVIOUS
  <2> HIDE DEF m, q, Coming
  <2>5. Has(pmods'[q], m) /\ \A n : Has(pmods[q], n) => Has(pmods'[q], n)
    BY <2>1, <2>2, <1>4, HasAppend DEF TypeInv, TypePools
  <2>6. \A t \in Threads \ {q} : pmods'[t] = pmods[t]
    BY <1>4, <2>1 DEF TypeInv, TypePools
  <2>7. ASSUME Starting', NEW n \in loaded', ~Placed(n)', ~Coming(n)'
        PROVE  Starting /\ n \in loaded /\ ~Placed(n) /\ ~Coming(n)
    <3>1. Starting /\ n \in loaded /\ PoolName[n] \in Threads
      BY <1>4, <2>1, <2>7 DEF TypeInv, TypeModules
    <3>2. ~Placed(n)
      BY <2>1, <2>5, <2>6, <2>7, <3>1
    <3>3. ~Coming(n)
      BY <2>1, <2>2, <2>4, <2>5, <2>7
    <3> QED
      BY <3>1, <3>2, <3>3
  <2> QED
    <3>1. NotStranded
      <4> HIDE DEF Starting, Placed
      <4>1. \A n \in loaded' : Starting' /\ ~Placed(n)' /\ ~Coming(n)' => Starting /\ n \in loaded /\ ~Placed(n) /\ ~Coming(n)
        BY <2>7
      <4>2. Starting' => Starting
        BY <1>4, <2>1 DEF TypeInv, Starting
      <4> QED
        BY <4>1, <4>2
    <3> QED
      BY <2>3, <3>1
<1>5. ASSUME TypeInv, TypeInv', Phases, Fork PROVE CountKept /\ NotStranded
  BY <1>5 DEF TypeInv, Phases, Fork
<1>6. ASSUME TypeInv, TypeInv', Phases, Assign PROVE CountKept /\ NotStranded
  BY <1>6 DEF TypeInv, Phases, Assign
<1>7. ASSUME TypeInv, TypeInv', Phases, FirstRun PROVE CountKept /\ NotStranded
  BY <1>7 DEF TypeInv, Phases, FirstRun, Send
<1>8. ASSUME TypeInv, TypeInv', Phases, CommandNotify PROVE CountKept /\ NotStranded
  BY <1>8 DEF TypeInv, Phases, CommandNotify, Notify
<1>9. ASSUME TypeInv, TypeInv', Phases, Alarm PROVE CountKept /\ NotStranded
  BY <1>9 DEF TypeInv, Phases, Alarm, Send
<1>10. ASSUME TypeInv, TypeInv', Phases, Join PROVE CountKept /\ NotStranded
  BY <1>10 DEF TypeInv, Phases, Join
<1>11. ASSUME TypeInv, TypeInv', Phases, WhileActive("client", "swapWait") PROVE CountKept /\ NotStranded
  BY <1>11 DEF TypeInv, Phases, WhileActive
<1>12. ASSUME TypeInv, TypeInv', Phases, SwapPause PROVE CountKept /\ NotStranded
  BY <1>12 DEF TypeInv, Phases, SwapPause
<1>13. ASSUME TypeInv, TypeInv', Phases, SwapNotify PROVE CountKept /\ NotStranded
  BY <1>13 DEF TypeInv, Phases, SwapNotify, Notify
<1>14. ASSUME TypeInv, TypeInv', Phases, StartSwap PROVE CountKept /\ NotStranded
  BY <1>14 DEF TypeInv, Phases, StartSwap, OnceInactive
<1>15. ASSUME TypeInv, TypeInv', Phases, EndSwap PROVE CountKept /\ NotStranded
  BY <1>15 DEF TypeInv, Phases, EndSwap
<1>16. ASSUME TypeInv, TypeInv', Phases, Delete PROVE CountKept /\ NotStranded
  BY <1>16 DEF TypeInv, Phases, Delete
<1> HIDE DEF CountKept, NotStranded
<1> QED
  BY StartFrame, <1>1, <1>2, <1>3, <1>4, <1>5, <1>6, <1>7, <1>8, <1>9, <1>10, <1>11, <1>12, <1>13,
     <1>14, <1>15, <1>16 DEF Client

(* The other steps: those of the user, of the master in its startup, and   *)
(* the waits.                                                              *)

(* The steps of the user, of the master in its startup, and the waits.     *)
LEMMA OtherStart ==
    /\ TypeInv /\ TypeInv' /\ Phases /\ StartCovers
    /\ User \/ Startup \/ MasterWait \/ \E t \in Threads : Sleep(t) \/ Wakeup(t)
    => StartCovers'
<1> USE ConstType DEF TypePc, LoadFirst, UnloadLast, HandlerLast, HandlerQuits, Owing, Owes, Closing,
      CountKept, NotStranded, Starting, Placed, Coming, syncVars, poolVars, moduleVars, roundVars, stackVars,
      callVars
<1>1. ASSUME TypeInv, TypeInv', Phases, NEW cmd \in Commands,
             Command(cmd)
      PROVE  CountKept /\ NotStranded
  BY <1>1 DEF TypeInv, Phases, Command, Send
<1>2. ASSUME TypeInv, TypeInv', Phases, NEW m \in Swappable,
             HotSwap(m)
      PROVE  CountKept /\ NotStranded
  BY <1>2 DEF TypeInv, Phases, HotSwap
<1>3. ASSUME TypeInv, TypeInv', Phases, Startup PROVE CountKept /\ NotStranded
  BY <1>3 DEF TypeInv, Phases, Startup, Notify
<1>4. ASSUME TypeInv, TypeInv', Phases, MasterWait PROVE CountKept /\ NotStranded
  BY <1>4 DEF TypeInv, Phases, MasterWait, Enqueue
<1>5. ASSUME TypeInv, TypeInv', Phases, NEW t \in Threads, Sleep(t) PROVE CountKept /\ NotStranded
  BY <1>5 DEF TypeInv, Phases, Sleep
<1>6. ASSUME TypeInv, TypeInv', Phases, NEW t \in Threads, Wakeup(t) PROVE CountKept /\ NotStranded
  BY <1>6 DEF TypeInv, Phases, Wakeup
<1> HIDE DEF CountKept, NotStranded
<1> QED
  BY StartFrame, <1>1, <1>2, <1>3, <1>4, <1>5, <1>6 DEF User

(* Once the master has started it does not start again.                    *)
LEMMA StartedOnce ==
    /\ TypeInv
    /\ (\E c \in Callers : Unloading(c)) \/ (Master /\ ~Unloading("master") /\ ~Startup /\ ~MasterWait)
    => ~Starting'
<1> USE DEF TypeInv, TypePc, UnloadLast, Starting
<1>1. ASSUME TypeInv, NEW c \in Callers, Unloading(c) PROVE ~Starting'
  <2>1. pc[c] \in QuitLabel /\ \E label \in QuitLabel \union {"done", "delete"} : pc' = [pc EXCEPT ![c] = label] \/ pc' = pc
    BY <1>1 DEF Unloading, UnloadNext, AllUnloaded, Unload, StopPause, StopNotify, Notify, Stop, WhileActive,
       RemoveFromPool, OnceInactive, Restore, Free, Resume, ResumeNotify, PopUnloaded
  <2> QED
    BY <1>1, <2>1
<1>2. ASSUME TypeInv, Reset \/ MasterHead \/ DispatchIdle \/ DispatchRound \/ ContinueCheck \/ Arm \/ Launch
      PROVE ~Starting'
  <2>1. ASSUME Reset PROVE ~Starting'
    BY <1>2, <2>1 DEF Reset
  <2>6. ASSUME MasterHead PROVE ~Starting'
    BY <1>2, <2>6 DEF MasterHead
  <2>7. ASSUME ContinueCheck PROVE ~Starting'
    BY <1>2, <2>7 DEF ContinueCheck
  <2>2. ASSUME DispatchIdle PROVE ~Starting'
    BY <1>2, <2>2 DEF DispatchIdle
  <2>3. ASSUME DispatchRound PROVE ~Starting'
    BY <1>2, <2>3 DEF DispatchRound
  <2>4. ASSUME Arm PROVE ~Starting'
    BY <1>2, <2>4 DEF Arm
  <2>5. ASSUME Launch PROVE ~Starting'
    BY <1>2, <2>5 DEF Launch, Notify
  <2> QED
    BY <1>2, <2>1, <2>2, <2>3, <2>4, <2>5, <2>6, <2>7
<1>3. ASSUME TypeInv, NEW m \in unchecked, Check(m) \/ CheckDone(m) PROVE ~Starting'
  BY <1>3 DEF Check, CheckDone
<1>4. ASSUME TypeInv, Pass("master") \/ PassDone("master", "step") \/ StepTest \/ StepWrite PROVE ~Starting'
  BY <1>4 DEF Pass, Skip, StartExecute, EndExecute, PassDone, StepTest, StepWrite
<1>5. ASSUME TypeInv, MasterTail \/ MasterExit \/ Handler \/ HandlerNotify PROVE ~Starting'
  BY <1>5 DEF MasterTail, MasterExit, Handler, HandlerNotify, Notify
<1> HIDE DEF TypeInv, Starting
<1> QED
  BY <1>1, <1>2, <1>3, <1>4, <1>5 DEF Master

------------------------------------------------------------------------------
(* The rounds themselves.                                                  *)
RoundsInv == IInv /\ StartCovers /\ Course

(* The system starts with no module, and nothing to execute.               *)
LEMMA RoundsInit == Init => RoundsInv
<1> SUFFICES ASSUME Init PROVE RoundsInv
  OBVIOUS
<1>1. pc["master"] = "unborn" /\ Starting /\ ~Working /\ ~Preparing
  BY ConstType DEF Init, Starting, Working, Preparing, UnloadingDone
<1>2. loaded = {} /\ round = 0 /\ \A m \in Modules : mflag[m] # "RUN"
  BY DEF Init
<1>3. StartCovers
  BY <1>2 DEF StartCovers, Stranded
<1>4. Course
  BY <1>1, <1>2 DEF Course, Unstarted, AllPlaced, NoneErased, Visited, TargetOf, AllToCome, Preparing
<1> QED
  BY <1>3, <1>4, IInvInit DEF RoundsInv

(* Every step preserves the invariant, thread by thread.                   *)
LEMMA RoundsStep == RoundsInv /\ [Next]_vars => RoundsInv'
<1> SUFFICES ASSUME RoundsInv, [Next]_vars PROVE RoundsInv'
  OBVIOUS
<1>1. IInv /\ IInv' /\ StartCovers /\ Course
  BY IInvStep DEF RoundsInv
<1>2. TypeInv /\ TypeInv' /\ CountCovers
  BY <1>1 DEF IInv, TypeOK, TypeInv
<1>3. Phases
  BY <1>1, Zenon DEF IInv, TypeOK, TypeBool, Phases
<1>4. CASE Next
  <2>1. Course'
    <3>1. CASE \E p \in Pools : Pool(p)
      BY <1>1, <1>2, <1>3, <3>1, PoolCourse
    <3>2. CASE Client /\ ~Unloading("client")
      BY <1>1, <1>2, <1>3, <3>2, ClientCourse
    <3>3. CASE User
      BY <1>1, <1>2, <1>3, <3>3, UserCourse
    <3>4. CASE \E c \in Callers : Unloading(c)
      BY <1>1, <1>2, <1>3, <3>4, UnloadingCourse
    <3>5. CASE Master /\ ~Unloading("master")
      BY <1>1, <1>2, <1>3, <3>5, MasterCourse
    <3>6. CASE \E t \in Threads : Sleep(t) \/ Wakeup(t)
      BY <1>1, <1>2, <1>3, <3>6, WaitCourse
    <3> QED
      BY <1>4, <3>1, <3>2, <3>3, <3>4, <3>5, <3>6, Steps DEF StepCase
  <2>2. StartCovers'
    <3>1. CASE \E p \in Pools : Pool(p)
      BY <1>1, <1>2, <1>3, <3>1, PoolStart
    <3>2. CASE Client /\ ~Unloading("client")
      BY <1>1, <1>2, <1>3, <3>2, ClientStart
    <3>3. CASE User \/ Startup \/ MasterWait \/ \E t \in Threads : Sleep(t) \/ Wakeup(t)
      BY <1>1, <1>2, <1>3, <3>3, OtherStart
    <3>4. CASE ~Starting'
      BY <3>4 DEF StartCovers
    <3> QED
      BY <1>2, <1>4, <3>1, <3>2, <3>3, <3>4, Steps, StartedOnce DEF StepCase
  <2> QED
    BY <1>1, <2>1, <2>2 DEF RoundsInv
<1>5. CASE vars' = vars
  <2>1. UNCHANGED <<pc, activePools, pools, pflag, pmods, iter, loaded, mflag, unchecked, round, todo,
                    target, quitting>>
    BY <1>5 DEF vars, poolVars, moduleVars, roundVars, stackVars, callVars
  <2>2. Course'
    BY <1>1, <2>1 DEF Course, Unstarted, AllPlaced, NoneErased, Visited, TargetOf, AllToCome, ToCome,
       Placed, Going, Working, Starting, Preparing, UnloadingDone, Closing
  <2>3. CountKept /\ NotStranded
    BY <2>1 DEF CountKept, NotStranded, Closing, Owing, Owes, Starting, Placed, Coming
  <2> QED
    BY <1>1, <1>2, <2>2, <2>3, StartFrame DEF RoundsInv
<1> QED
  BY <1>4, <1>5

------------------------------------------------------------------------------
(* What Rounds sees of a state.                                            *)
RoundNow == IF Preparing THEN round - 1 ELSE round
PendingNow == IF Preparing THEN {} ELSE {m \in loaded : mflag[m] = "RUN"}
RoundStep == [LockStep!Next]_(LockStep!vars)

(* A Boolean that holds as before is equal to what it was.                 *)
LEMMA ClosingSame == (Closing' <=> Closing) => Closing' = Closing
  BY Zenon DEF Closing

(* A step that changes none of what Rounds sees is a stutter of it.        *)
LEMMA AsStutter ==
    ASSUME UNCHANGED <<RoundNow, loaded, PendingNow>>, Closing' <=> Closing
    PROVE  RoundStep
  BY ClosingSame DEF RoundStep, LockStep!vars, RoundNow, PendingNow

(* Load of Rounds: a module comes, before the first round.                 *)
LEMMA AsLoad ==
    ASSUME NEW m \in Modules, RoundNow = 0, loaded' = loaded \union {m},
           UNCHANGED <<RoundNow, PendingNow>>, Closing' <=> Closing
    PROVE  RoundStep
<1>1. LockStep!Load(m)
  BY ClosingSame DEF LockStep!Load, RoundNow, PendingNow
<1> QED
  BY <1>1 DEF RoundStep, LockStep!Next

(* StartRound of Rounds: a round starts with all the modules there are.    *)
LEMMA AsStart ==
    ASSUME ~Closing, ~Closing', PendingNow = {}, RoundNow' = RoundNow + 1, PendingNow' = loaded,
           loaded' = loaded
    PROVE  RoundStep
<1>1. LockStep!StartRound
  BY ClosingSame DEF LockStep!StartRound, RoundNow, PendingNow
<1> QED
  BY <1>1 DEF RoundStep, LockStep!Next

(* Execute of Rounds: one of the modules of the round has executed.        *)
LEMMA AsExecute ==
    ASSUME NEW m \in Modules, m \in PendingNow, PendingNow' = PendingNow \ {m},
           UNCHANGED <<RoundNow, loaded>>, Closing' <=> Closing
    PROVE  RoundStep
<1>1. LockStep!Execute(m)
  BY ClosingSame DEF LockStep!Execute, RoundNow, PendingNow
<1> QED
  BY <1>1 DEF RoundStep, LockStep!Next

(* Leave of Rounds: a module leaves.                                       *)
LEMMA AsLeave ==
    ASSUME NEW m \in Modules, Closing \/ PendingNow = {}, loaded' = loaded \ {m},
           PendingNow' = PendingNow \ {m}, RoundNow' = RoundNow, Closing' <=> Closing
    PROVE  RoundStep
<1>1. LockStep!Leave(m)
  BY ClosingSame DEF LockStep!Leave, RoundNow, PendingNow
<1> QED
  BY <1>1 DEF RoundStep, LockStep!Next

(* Close of Rounds: the system is closing.                                 *)
LEMMA AsClose ==
    ASSUME ~Closing, Closing', UNCHANGED <<RoundNow, loaded, PendingNow>>
    PROVE  RoundStep
<1>1. Closing' = TRUE
  BY Zenon DEF Closing
<1>2. LockStep!Close
  BY <1>1 DEF LockStep!Close, RoundNow, PendingNow
<1> QED
  BY <1>2 DEF RoundStep, LockStep!Next

(* The steps that no round sees.                                           *)
SameRound == /\ UNCHANGED <<loaded, mflag, round>>
             /\ Preparing' <=> Preparing
             /\ Closing' <=> Closing

(* Such a step is a stutter of Rounds.                                     *)
LEMMA Stutters == SameRound => RoundStep
<1> SUFFICES ASSUME SameRound PROVE RoundStep
  OBVIOUS
<1>1. UNCHANGED <<loaded, mflag, round>> /\ (Preparing' <=> Preparing) /\ (Closing' <=> Closing)
  BY DEF SameRound
<1>2. UNCHANGED <<RoundNow, PendingNow>>
  BY <1>1 DEF RoundNow, PendingNow
<1> QED
  BY <1>1, <1>2, AsStutter

(* Of a pool thread, only the end of an execution is seen.                 *)
LEMMA PoolSame ==
    TypeInv /\ (\E p \in Pools : Pool(p)) => SameRound \/ \E t \in Threads : EndExecute(t)
<1> USE ConstType DEF TypeInv, TypePc, UnloadingDone, Preparing, Closing, SameRound, poolVars, moduleVars,
      roundVars, callVars
<1>1. ASSUME TypeInv, NEW p \in Pools, Attach(p) \/ PoolHead(p) \/ PassDone(p, "finish") PROVE SameRound
  BY <1>1 DEF Attach, PoolHead, PassDone
<1>2. ASSUME TypeInv, NEW p \in Pools, PoolFinish(p) \/ PoolFinishWrite(p) \/ PoolSub(p) PROVE SameRound
  BY <1>2 DEF PoolFinish, PoolFinishWrite, PoolSub
<1>3. ASSUME TypeInv, NEW p \in Pools, PoolWait(p) \/ PoolErase(p) PROVE SameRound
  BY <1>3 DEF PoolWait, Enqueue, PoolErase
<1>4. ASSUME TypeInv, NEW t \in Threads, Skip(t) \/ StartExecute(t) PROVE SameRound
  BY <1>4 DEF Skip, StartExecute
<1> HIDE DEF TypeInv, SameRound
<1> QED
  BY <1>1, <1>2, <1>3, <1>4 DEF Pool, Pass

(* Of the client, only the registration of a module.                       *)
LEMMA ClientSame ==
    TypeInv /\ Phases /\ Client /\ ~Unloading("client") => SameRound \/ LoadIntoPool \/ LoadNewPool
<1> USE ConstType DEF TypeInv, Phases, TypePc, LoadFirst, HandlerLast, UnloadingDone, Preparing, Closing, SameRound, poolVars,
      moduleVars, roundVars, callVars
<1>1. ASSUME TypeInv, Phases, CountPool \/ PushFirst \/ Fork \/ Assign PROVE SameRound
  BY <1>1 DEF CountPool, PushFirst, Fork, Assign
<1>2. ASSUME TypeInv, Phases, FirstRun \/ CommandNotify \/ Alarm \/ Join PROVE SameRound
  BY <1>2 DEF FirstRun, Alarm, Send, CommandNotify, Notify, Join
<1>3. ASSUME TypeInv, Phases, WhileActive("client", "swapWait") \/ SwapPause \/ SwapNotify PROVE SameRound
  BY <1>3 DEF WhileActive, SwapPause, SwapNotify, Notify
<1>4. ASSUME TypeInv, Phases, StartSwap \/ EndSwap \/ Delete PROVE SameRound
  BY <1>4 DEF StartSwap, OnceInactive, EndSwap, Delete
<1> HIDE DEF TypeInv, Phases, SameRound
<1> QED
  BY <1>1, <1>2, <1>3, <1>4 DEF Client

(* The user and the waits are not seen.                                    *)
LEMMA OtherSame ==
    TypeInv /\ Phases /\ (User \/ \E t \in Threads : Sleep(t) \/ Wakeup(t)) => SameRound
<1> USE ConstType DEF TypeInv, Phases, TypePc, UnloadingDone, Preparing, Closing, SameRound, poolVars, moduleVars,
      roundVars, callVars
<1>1. ASSUME TypeInv, Phases, NEW cmd \in Commands, Command(cmd) PROVE SameRound
  BY <1>1 DEF Command, Send
<1>2. ASSUME TypeInv, Phases, NEW m \in Swappable, HotSwap(m) PROVE SameRound
  BY <1>2 DEF HotSwap
<1>3. ASSUME TypeInv, Phases, NEW t \in Threads, Sleep(t) \/ Wakeup(t) PROVE SameRound
  BY <1>3 DEF Sleep, Wakeup
<1> HIDE DEF TypeInv, Phases, SameRound
<1> QED
  BY <1>1, <1>2, <1>3 DEF User

(* Of unloading, only the destruction of the module.                       *)
LEMMA UnloadingSame ==
    TypeInv /\ Phases /\ (\E c \in Callers : Unloading(c)) => SameRound \/ \E c \in Callers : Free(c)
<1> USE ConstType DEF TypeInv, TypePc, LoadFirst, UnloadLast, HandlerLast, Phases, HandlerQuits,
      UnloadingDone, Preparing, Closing, SameRound, poolVars, moduleVars, roundVars, callVars
<1>1. ASSUME TypeInv, Phases, NEW c \in Callers, UnloadNext(c) \/ AllUnloaded(c) PROVE SameRound
  <2>1. /\ pc[c] = "unloadNext"
        /\ \E label \in {"unload", "delete", "done"} :
               /\ pc' = pc \/ pc' = [pc EXCEPT ![c] = label]
               /\ label = "done" => c # "client"
               /\ label = "delete" => c = "client"
        /\ UNCHANGED <<loaded, mflag, round, quitting>>
    BY <1>1 DEF UnloadNext, AllUnloaded
  <2> QED
    BY <1>1, <2>1
<1>2. ASSUME TypeInv, Phases, NEW c \in Callers, Unload(c) \/ StopPause(c) \/ StopNotify(c) \/ Stop(c) PROVE SameRound
  BY <1>2 DEF Unload, StopPause, StopNotify, Notify, Stop
<1>3. ASSUME TypeInv, Phases, NEW c \in Callers, WhileActive(c, "inactive") \/ RemoveFromPool(c) \/ Restore(c) PROVE SameRound
  BY <1>3 DEF WhileActive, RemoveFromPool, OnceInactive, Restore, Notify
<1>4. ASSUME TypeInv, Phases, NEW c \in Callers, Resume(c) \/ ResumeNotify(c) \/ PopUnloaded(c) PROVE SameRound
  BY <1>4 DEF Resume, ResumeNotify, Notify, PopUnloaded
<1> HIDE DEF TypeInv, Phases, SameRound
<1> QED
  BY <1>1, <1>2, <1>3, <1>4 DEF Unloading

(* Close == the master leaves its loop.                                     *)
Leaves == /\ UNCHANGED <<loaded, mflag, round>>
          /\ ~Preparing /\ ~Preparing' /\ ~Closing /\ Closing'

(* Of the master, its exit from the loop and the steps of a round below.   *)
LEMMA MasterSame ==
    TypeInv /\ Phases /\ Master /\ ~Unloading("master")
        => \/ SameRound \/ Leaves \/ DispatchRound \/ Arm
           \/ (\E m \in unchecked : Check(m)) \/ EndExecute("master")
<1> USE ConstType DEF TypeInv, TypePc, LoadFirst, UnloadLast, HandlerLast, Phases, HandlerQuits,
      UnloadingDone, Preparing, Closing, SameRound, Leaves, poolVars, moduleVars, roundVars, callVars
<1>1. ASSUME TypeInv, Phases, Startup \/ MasterWait \/ Reset PROVE SameRound
  BY <1>1 DEF Startup, Notify, MasterWait, Enqueue, Reset
<1>2. ASSUME TypeInv, Phases, MasterHead \/ DispatchIdle \/ MasterTail PROVE SameRound \/ Leaves
  BY <1>2 DEF MasterHead, DispatchIdle, MasterTail
<1>3. ASSUME TypeInv, Phases, NEW m \in unchecked, CheckDone(m) PROVE SameRound
  BY <1>3 DEF CheckDone
<1>4. ASSUME TypeInv, Phases, ContinueCheck PROVE SameRound
  BY <1>4 DEF ContinueCheck
<1>8. ASSUME TypeInv, Phases, Launch PROVE SameRound
  BY <1>8 DEF Launch, Notify
<1>5. ASSUME TypeInv, Phases, Skip("master") \/ StartExecute("master") \/ PassDone("master", "step") PROVE SameRound
  BY <1>5 DEF Skip, StartExecute, PassDone
<1>6. ASSUME TypeInv, Phases, StepTest \/ StepWrite \/ MasterExit PROVE SameRound
  BY <1>6 DEF StepTest, StepWrite, MasterExit
<1>7. ASSUME TypeInv, Phases, Handler \/ HandlerNotify PROVE SameRound
  BY <1>7 DEF Handler, HandlerNotify, Notify
<1> HIDE DEF TypeInv, Phases, SameRound, Leaves
<1> QED
  BY <1>1, <1>2, <1>3, <1>4, <1>5, <1>6, <1>7, <1>8 DEF Master, Pass

(* The other steps are steps of Rounds.  A module that is registered is    *)
(* loaded, before the first round.                                         *)
LEMMA LoadRound == RoundsInv /\ (LoadIntoPool \/ LoadNewPool) => RoundStep
<1> SUFFICES ASSUME RoundsInv, LoadIntoPool \/ LoadNewPool PROVE RoundStep
  OBVIOUS
<1>1. TypePc /\ TypePools /\ TypeModules /\ TypeStack /\ LoadFirst /\ Unstarted
  BY DEF RoundsInv, IInv, TypeOK, Course
<1>2. pc["client"] = "load" /\ todo # <<>> /\ Register(Head(todo)) /\ round' = round
  BY DEF LoadIntoPool, LoadNewPool, roundVars
<1>3. PICK h \in Modules : h = Head(todo)
  BY <1>1, <1>2 DEF TypeStack
<1>4. loaded' = loaded \union {h} /\ mflag' = [mflag EXCEPT ![h] = "WAIT"]
  BY <1>2, <1>3 DEF Register
<1>5. pc["master"] = "unborn" /\ pc'["master"] = "unborn"
  <2>1. CASE LoadIntoPool
    BY <1>1, <1>2, <2>1 DEF LoadIntoPool, LoadFirst
  <2>2. CASE LoadNewPool
    BY <1>1, <1>2, <1>3, <2>2, ConstType DEF LoadNewPool, LoadFirst, TypePc, TypePools
  <2> QED
    BY <2>1, <2>2
<1>6. ~Preparing /\ ~Preparing' /\ ~Closing /\ ~Closing'
  BY <1>5 DEF Preparing, UnloadingDone, Closing
<1>7. round = 0 /\ \A m \in Modules : mflag[m] # "RUN" /\ mflag'[m] # "RUN"
  BY <1>1, <1>4, <1>5 DEF Unstarted, Starting, TypeModules
<1>8. RoundNow = 0 /\ RoundNow' = RoundNow
  BY <1>2, <1>6, <1>7 DEF RoundNow
<1>9. PendingNow = {} /\ PendingNow' = {}
  BY <1>1, <1>4, <1>6, <1>7 DEF PendingNow, TypeModules
<1> QED
  BY <1>4, <1>6, <1>8, <1>9, AsLoad

(* A module that has executed is executed once.                            *)
LEMMA ExecuteRound == RoundsInv /\ (\E t \in Threads : EndExecute(t)) => RoundStep
<1> SUFFICES ASSUME RoundsInv, NEW t \in Threads, EndExecute(t) PROVE RoundStep
  OBVIOUS
<1>1. TypePc /\ TypePools /\ TypeModules /\ Quiet
  BY DEF RoundsInv, IInv, TypeOK
<1>2. PICK h \in Modules : h = Head(iter[t])
  BY <1>1 DEF EndExecute, TypePools
<1>3. /\ pc[t] = "exec" /\ pc' = [pc EXCEPT ![t] = "run"] /\ mflag' = [mflag EXCEPT ![h] = "WAIT"]
      /\ UNCHANGED <<loaded, round, quitting>>
  BY <1>2 DEF EndExecute, roundVars, callVars
<1>4. pc'["master"] = pc["master"] \/ (pc["master"] = "exec" /\ pc'["master"] = "run")
  BY <1>1, <1>3 DEF TypePc
<1>5. ~Preparing
  BY <1>1, <1>3 DEF Quiet, Owes, BetweenRounds, Preparing, UnloadingDone
<1>6. ~Preparing' /\ (Closing' <=> Closing)
  BY <1>3, <1>4, <1>5 DEF Preparing, UnloadingDone, Closing
<1>7. UNCHANGED <<RoundNow, loaded>>
  BY <1>3, <1>5, <1>6 DEF RoundNow
<1>8. PendingNow' = PendingNow \ {h}
  BY <1>1, <1>3, <1>5, <1>6 DEF PendingNow, TypeModules
<1>9. CASE h \in PendingNow
  BY <1>6, <1>7, <1>8, <1>9, AsExecute
<1>10. CASE h \notin PendingNow
  <2>1. PendingNow' = PendingNow
    BY <1>8, <1>10
  <2> QED
    BY <1>6, <1>7, <2>1, AsStutter
<1> QED
  BY <1>9, <1>10

(* A module leaves between two rounds, or when the system is closing.      *)
LEMMA FreeRound == RoundsInv /\ (\E c \in Callers : Free(c)) => RoundStep
<1> SUFFICES ASSUME RoundsInv, NEW c \in Callers, Free(c) PROVE RoundStep
  OBVIOUS
<1>1. TypePc /\ TypeCalls /\ UnloadLast
  BY DEF RoundsInv, IInv, TypeOK
<1>2. PICK g \in Modules : g = target[c]
  BY <1>1 DEF Free, TypeCalls
<1>3. /\ pc[c] = "free" /\ loaded' = loaded \ {g} /\ UNCHANGED <<mflag, round, quitting>>
      /\ \E label \in {"resume", "unloaded"} : pc' = [pc EXCEPT ![c] = label]
  BY <1>2 DEF Free, roundVars, callVars
<1>4. \/ Closing /\ Closing' /\ ~Preparing /\ ~Preparing'
      \/ ~Closing /\ ~Closing' /\ Preparing /\ Preparing'
  BY <1>1, <1>3 DEF TypePc, UnloadLast, Closing, Preparing, UnloadingDone
<1>5. PendingNow' = PendingNow \ {g} /\ (Closing \/ PendingNow = {})
  BY <1>3, <1>4 DEF PendingNow
<1>6. RoundNow' = RoundNow
  BY <1>3, <1>4 DEF RoundNow
<1> QED
  BY <1>3, <1>4, <1>5, <1>6, AsLeave

(* The round begins, for Rounds, when all the modules have been set        *)
(* running; what the master does before is still between two rounds.       *)
LEMMA DispatchQuiet == RoundsInv /\ DispatchRound => RoundStep
<1> SUFFICES ASSUME RoundsInv, DispatchRound PROVE RoundStep
  OBVIOUS
<1>1. /\ pc["master"] = "dispatch" /\ pc' = [pc EXCEPT !["master"] = "check"]
      /\ round' = round + 1 /\ UNCHANGED <<loaded, mflag, quitting>>
  BY DEF DispatchRound, callVars
<1>2. TypePc /\ TypeSystem /\ TypeModules /\ Quiet /\ AllToCome
  BY DEF RoundsInv, IInv, TypeOK, Course
<1>3. pc'["master"] = "check" /\ ~Preparing /\ Preparing' /\ ~Closing /\ ~Closing'
  BY <1>1, <1>2 DEF TypePc, Preparing, UnloadingDone, Closing
<1>4. \A m \in loaded : mflag[m] # "RUN"
  <2>1. Working /\ ~Preparing /\ \A p \in Pools : ~Owes(p)
    BY <1>1, <1>2, <1>3 DEF Working, Starting, Quiet, BetweenRounds
  <2>2. \A m \in loaded : ~ToCome(m)
    BY <1>1, <1>2, <2>1, ConstType DEF ToCome, Owes, TypeModules
  <2> QED
    BY <1>2, <2>1, <2>2 DEF AllToCome
<1>5. PendingNow = {} /\ PendingNow' = {}
  BY <1>3, <1>4 DEF PendingNow
<1>6. RoundNow' = RoundNow
  BY <1>1, <1>2, <1>3 DEF RoundNow, TypeSystem
<1> QED
  BY <1>1, <1>3, <1>5, <1>6, AsStutter

(* Looking at the statuses is still between two rounds                     *)
(* (control.cc:88-106).                                                    *)
LEMMA CheckQuiet == RoundsInv /\ (\E m \in unchecked : Check(m)) => RoundStep
<1> SUFFICES ASSUME RoundsInv, NEW m \in unchecked, Check(m) PROVE RoundStep
  OBVIOUS
<1>1. pc["master"] = "check" /\ UNCHANGED <<pc, loaded, round, quitting>>
  BY DEF Check, callVars
<1>2. Preparing /\ Preparing' /\ ~Closing /\ ~Closing'
  BY <1>1 DEF Preparing, Closing
<1>3. UNCHANGED <<RoundNow, PendingNow>>
  BY <1>1, <1>2 DEF RoundNow, PendingNow
<1> QED
  BY <1>1, <1>2, <1>3, AsStutter

(* All the modules have been set running: the round begins.                *)
LEMMA ArmRound == RoundsInv /\ Arm => RoundStep
<1> SUFFICES ASSUME RoundsInv, Arm PROVE RoundStep
  OBVIOUS
<1>1. /\ pc["master"] = "check" /\ pc' = [pc EXCEPT !["master"] = "launch"] /\ unchecked = {}
      /\ UNCHANGED <<loaded, mflag, round, quitting>>
  BY DEF Arm, moduleVars, roundVars, callVars
<1>2. TypePc /\ TypeSystem /\ Visited
  BY DEF RoundsInv, IInv, TypeOK, Course
<1>3. Preparing /\ ~Preparing' /\ ~Closing /\ ~Closing'
  BY <1>1, <1>2 DEF TypePc, Preparing, UnloadingDone, Closing
<1>4. \A m \in loaded : mflag[m] = "RUN"
  BY <1>1, <1>2, <1>3 DEF Visited
<1>5. PendingNow = {} /\ PendingNow' = loaded
  BY <1>1, <1>3, <1>4 DEF PendingNow
<1>6. RoundNow' = RoundNow + 1
  BY <1>1, <1>2, <1>3 DEF RoundNow, TypeSystem
<1> QED
  BY <1>1, <1>3, <1>5, <1>6, AsStart

(* Leaving the loop closes the rounds.                                     *)
LEMMA LeavesRound == Leaves => RoundStep
<1> SUFFICES ASSUME Leaves PROVE RoundStep
  OBVIOUS
<1>1. UNCHANGED <<loaded, mflag, round>> /\ ~Preparing /\ ~Preparing' /\ ~Closing /\ Closing'
  BY DEF Leaves
<1>2. UNCHANGED <<RoundNow, PendingNow>>
  BY <1>1 DEF RoundNow, PendingNow
<1> QED
  BY <1>1, <1>2, AsClose

(* Control implements lock-step rounds (control.cc:52-120, 236-286), for   *)
(* any pools, modules, commands and return values: a round lets every      *)
(* module of the system execute once, the next one starts only when all    *)
(* of them have, and modules come and leave only between rounds.           *)
THEOREM RoundsImplemented == Spec => LockStepRounds
<1>1. Init => LockStep!Init
  <2> SUFFICES ASSUME Init PROVE LockStep!Init
    OBVIOUS
  <2>1. ~Preparing /\ ~Closing /\ loaded = {} /\ round = 0
    BY ConstType DEF Init, Preparing, UnloadingDone, Closing
  <2> QED
    BY <2>1 DEF LockStep!Init
<1>2. RoundsInv /\ [Next]_vars => [LockStep!Next]_(LockStep!vars)
  <2> SUFFICES ASSUME RoundsInv, [Next]_vars PROVE RoundStep
    BY DEF RoundStep
  <2>1. TypeInv
    BY DEF RoundsInv, IInv, TypeOK, TypeInv
  <2>2. Phases
    BY Zenon DEF RoundsInv, IInv, TypeOK, TypeBool, Phases
  <2>3. SameRound => RoundStep
    BY Stutters
  <2>4. CASE \E p \in Pools : Pool(p)
    BY <2>1, <2>3, <2>4, PoolSame, ExecuteRound
  <2>5. CASE Client /\ ~Unloading("client")
    BY <2>1, <2>2, <2>3, <2>5, ClientSame, LoadRound
  <2>6. CASE User \/ \E t \in Threads : Sleep(t) \/ Wakeup(t)
    BY <2>1, <2>2, <2>3, <2>6, OtherSame
  <2>7. CASE \E c \in Callers : Unloading(c)
    BY <2>1, <2>2, <2>3, <2>7, UnloadingSame, FreeRound
  <2>8. CASE Master /\ ~Unloading("master")
    <3>1. EndExecute("master") => RoundStep
      BY ExecuteRound
    <3> QED
      BY <2>1, <2>2, <2>3, <2>8, <3>1, MasterSame, LeavesRound, DispatchQuiet, ArmRound, CheckQuiet
  <2>9. CASE vars' = vars
    <3>1. SameRound
      BY <2>9 DEF vars, SameRound, moduleVars, roundVars, callVars, Preparing, UnloadingDone, Closing
    <3> QED
      BY <2>3, <3>1
  <2> QED
    BY <2>4, <2>5, <2>6, <2>7, <2>8, <2>9, Steps DEF StepCase
<1> QED
  BY <1>1, <1>2, RoundsInit, RoundsStep, PTL DEF Spec, LockStepRounds, LockStep!Spec

------------------------------------------------------------------------------
(* Who executes is loaded.  A flag is RUN only of a module that is loaded  *)
(* (RunLoaded): the loop sets the flags of loaded modules, and the one it  *)
(* unloads instead is DONE, so that its flag has not been RUN since it     *)
(* returned (TargetIdle, from RunHeeded).                                  *)
RunLoaded == ~Closing => \A m \in Modules : mflag[m] = "RUN" => m \in loaded
TargetIdle == UnloadingDone => mflag[target["master"]] # "RUN"

(* No flag is set and the master does not turn to another module.          *)
TargetKept == /\ \A m \in Modules : mflag'[m] = "RUN" => mflag[m] = "RUN"
              /\ UnloadingDone' => UnloadingDone /\ target'["master"] = target["master"]

(* Such a step leaves the target idle.                                     *)
LEMMA TargetKeeps == TypeInv /\ TargetKept /\ TargetIdle => TargetIdle'
  BY DEF TypeInv, TypeCalls, UnloadingDone, TargetKept, TargetIdle

(* A pool never sets a flag to RUN and never unloads a module.             *)
LEMMA PoolTarget ==
    TypeInv /\ (\E p \in Pools : Pool(p)) => TargetKept
<1> USE ConstType DEF TypeInv, TypePc, TypePools, TypeModules, UnloadingDone, TargetKept,
      poolVars, moduleVars, roundVars, callVars
<1>1. ASSUME TypeInv, NEW p \in Pools, Attach(p) \/ PoolHead(p) \/ PassDone(p, "finish") PROVE TargetKept
  BY <1>1 DEF Attach, PoolHead, PassDone
<1>2. ASSUME TypeInv, NEW p \in Pools, PoolFinish(p) \/ PoolFinishWrite(p) \/ PoolSub(p) PROVE TargetKept
  BY <1>2 DEF PoolFinish, PoolFinishWrite, PoolSub
<1>3. ASSUME TypeInv, NEW p \in Pools, PoolWait(p) \/ PoolErase(p) PROVE TargetKept
  BY <1>3 DEF PoolWait, Enqueue, PoolErase
<1>4. ASSUME TypeInv, NEW p \in Pools, Skip(p) \/ StartExecute(p) \/ EndExecute(p) PROVE TargetKept
  BY <1>4 DEF Skip, StartExecute, EndExecute
<1> HIDE DEF TypeInv, TargetKept
<1> QED
  BY <1>1, <1>2, <1>3, <1>4 DEF Pool, Pass

(* Nor does the client, but to unload everything when the master has ended. *)
LEMMA ClientTarget ==
    TypeInv /\ Phases /\ Client /\ ~Unloading("client") => TargetKept
<1> USE ConstType DEF TypeInv, Phases, TypePc, TypeModules, TypeCalls, LoadFirst, UnloadingDone,
      TargetKept, poolVars, moduleVars, roundVars, callVars
<1>1. ASSUME TypeInv, Phases, CountPool \/ PushFirst \/ Fork \/ Assign PROVE TargetKept
  BY <1>1 DEF CountPool, PushFirst, Fork, Assign
<1>2. ASSUME TypeInv, Phases, FirstRun \/ CommandNotify \/ Alarm \/ Join PROVE TargetKept
  BY <1>2 DEF FirstRun, Alarm, Send, CommandNotify, Notify, Join
<1>3. ASSUME TypeInv, Phases, WhileActive("client", "swapWait") \/ SwapPause \/ SwapNotify PROVE TargetKept
  BY <1>3 DEF WhileActive, SwapPause, SwapNotify, Notify
<1>4. ASSUME TypeInv, Phases, StartSwap \/ EndSwap \/ Delete PROVE TargetKept
  BY <1>4 DEF StartSwap, OnceInactive, EndSwap, Delete
<1>5. ASSUME TypeInv, Phases, LoadIntoPool \/ LoadNewPool PROVE TargetKept
  BY <1>5 DEF LoadIntoPool, LoadNewPool, Register
<1> HIDE DEF TypeInv, Phases, TargetKept
<1> QED
  BY <1>1, <1>2, <1>3, <1>4, <1>5 DEF Client

(* The user and the waits.                                                 *)
LEMMA OtherTarget ==
    TypeInv /\ (User \/ \E t \in Threads : Sleep(t) \/ Wakeup(t)) => TargetKept
<1> USE ConstType DEF TypeInv, TypePc, TypeCalls, UnloadingDone, TargetKept, poolVars, moduleVars,
      roundVars, callVars
<1>1. ASSUME TypeInv, NEW cmd \in Commands, Command(cmd) PROVE TargetKept
  BY <1>1 DEF Command, Send
<1>2. ASSUME TypeInv, NEW m \in Swappable, HotSwap(m) PROVE TargetKept
  BY <1>2 DEF HotSwap
<1>3. ASSUME TypeInv, NEW t \in Threads, Sleep(t) \/ Wakeup(t) PROVE TargetKept
  BY <1>3 DEF Sleep, Wakeup
<1> HIDE DEF TypeInv, TargetKept
<1> QED
  BY <1>1, <1>2, <1>3 DEF User

(* The target is the same until it has been unloaded.                      *)
LEMMA UnloadingTarget ==
    TypeInv /\ Phases /\ (\E c \in Callers : Unloading(c)) => TargetKept
<1> USE ConstType DEF TypeInv, TypePc, TypeCalls, UnloadLast, HandlerLast, Phases, HandlerQuits,
      UnloadingDone, TargetKept, poolVars, moduleVars, roundVars, callVars
<1>1. ASSUME TypeInv, Phases, NEW c \in Callers, UnloadNext(c) \/ AllUnloaded(c) PROVE TargetKept
  <2>1. /\ pc[c] = "unloadNext"
        /\ \E label \in {"unload", "delete", "done"} : pc' = pc \/ pc' = [pc EXCEPT ![c] = label]
        /\ UNCHANGED <<mflag, quitting>>
    BY <1>1 DEF UnloadNext, AllUnloaded
  <2>2. c = "client" => target'["master"] = target["master"]
    BY <1>1 DEF UnloadNext, AllUnloaded
  <2>3. c = "master" => quitting["master"]
    BY <1>1, <2>1
  <2> QED
    BY <1>1, <2>1, <2>2, <2>3
<1>2. ASSUME TypeInv, Phases, NEW c \in Callers, Unload(c) \/ StopPause(c) \/ StopNotify(c) \/ Stop(c) PROVE TargetKept
  BY <1>2 DEF Unload, StopPause, StopNotify, Notify, Stop
<1>3. ASSUME TypeInv, Phases, NEW c \in Callers, WhileActive(c, "inactive") \/ RemoveFromPool(c) PROVE TargetKept
  BY <1>3 DEF WhileActive, RemoveFromPool, OnceInactive
<1>4. ASSUME TypeInv, Phases, NEW c \in Callers, Restore(c) \/ Free(c) PROVE TargetKept
  BY <1>4 DEF Restore, Free, Notify
<1>5. ASSUME TypeInv, Phases, NEW c \in Callers, Resume(c) \/ ResumeNotify(c) \/ PopUnloaded(c) PROVE TargetKept
  BY <1>5 DEF Resume, ResumeNotify, Notify, PopUnloaded
<1> HIDE DEF TypeInv, Phases, TargetKept
<1> QED
  BY <1>1, <1>2, <1>3, <1>4, <1>5 DEF Unloading

(* The master sets flags before or after it unloads a module, not while;   *)
(* it turns to a module that is DONE.                                      *)
LEMMA MasterTarget ==
    TypeInv /\ Phases /\ StatusInv /\ TargetIdle /\ Master /\ ~Unloading("master") => TargetIdle'
<1> USE ConstType DEF TypeInv, TypePc, TypeModules, TypePools, TypeCalls, HandlerLast, Phases,
      UnloadingDone, TargetIdle, poolVars, moduleVars, roundVars, callVars
<1>1. ASSUME TypeInv, Phases, Startup \/ MasterWait \/ Reset PROVE ~UnloadingDone'
  BY <1>1 DEF Startup, Notify, MasterWait, Enqueue, Reset
<1>2. ASSUME TypeInv, Phases, MasterHead \/ DispatchIdle \/ DispatchRound \/ MasterTail PROVE ~UnloadingDone'
  BY <1>2 DEF MasterHead, DispatchIdle, DispatchRound, MasterTail
<1>3. ASSUME TypeInv, Phases, NEW m \in unchecked, Check(m) PROVE ~UnloadingDone'
  BY <1>3 DEF Check
<1>4. ASSUME TypeInv, Phases, Arm \/ Launch PROVE ~UnloadingDone'
  BY <1>4 DEF Arm, Launch, Notify
<1>8. ASSUME TypeInv, Phases, ContinueCheck PROVE ~UnloadingDone'
  BY <1>8 DEF ContinueCheck
<1>5. ASSUME TypeInv, Phases, Pass("master") \/ PassDone("master", "step") PROVE ~UnloadingDone'
  BY <1>5 DEF Pass, Skip, StartExecute, EndExecute, PassDone
<1>6. ASSUME TypeInv, Phases, StepTest \/ StepWrite \/ MasterExit \/ Handler \/ HandlerNotify
      PROVE  ~UnloadingDone'
  BY <1>6 DEF StepTest, StepWrite, MasterExit, Handler, HandlerNotify, Notify
<1>7. ASSUME TypeInv, Phases, StatusInv, NEW m \in unchecked, CheckDone(m) PROVE TargetIdle'
  <2>1. m \in Modules /\ status[m] = "DONE" /\ target' = [target EXCEPT !["master"] = m] /\ mflag' = mflag
    BY <1>7 DEF CheckDone
  <2>2. mflag[m] # "RUN"
    BY <1>7, <2>1 DEF StatusInv, RunHeeded, Heeded
  <2> QED
    BY <1>7, <2>1, <2>2
<1> HIDE DEF TypeInv, Phases, UnloadingDone
<1> QED
  BY <1>1, <1>2, <1>3, <1>4, <1>5, <1>6, <1>7, <1>8 DEF Master

(* Only the loop over the modules sets a flag, and only of a loaded one.   *)
LEMMA LoadedStep ==
    RoundsInv /\ StatusInv /\ RunLoaded /\ TargetIdle /\ [Next]_vars => RunLoaded' /\ TargetIdle'
<1> SUFFICES ASSUME RoundsInv, StatusInv, RunLoaded, TargetIdle, [Next]_vars
             PROVE  RunLoaded' /\ TargetIdle'
  OBVIOUS
<1>1. TypeInv /\ Course
  BY DEF RoundsInv, IInv, TypeOK, TypeInv
<1>2. Phases
  BY Zenon DEF RoundsInv, IInv, TypeOK, TypeBool, Phases
<1>3. SameRound \/ Leaves => RunLoaded'
  BY DEF SameRound, Leaves, RunLoaded
<1>4. ASSUME UNCHANGED loaded, Closing' <=> Closing, \A m \in Modules : mflag'[m] = "RUN" => mflag[m] = "RUN"
      PROVE  RunLoaded'
  BY <1>4 DEF RunLoaded
<1>5. ASSUME vars' = vars PROVE SameRound /\ TargetKept
  BY <1>5 DEF vars, SameRound, TargetKept, moduleVars, roundVars, callVars, Preparing, UnloadingDone, Closing
<1>6. ASSUME NEW t \in Threads, EndExecute(t) PROVE RunLoaded'
  <2>1. PICK h \in Modules : h = Head(iter[t])
    BY <1>1, <1>6 DEF EndExecute, TypeInv, TypePools
  <2>2. /\ pc[t] = "exec" /\ pc' = [pc EXCEPT ![t] = "run"] /\ mflag' = [mflag EXCEPT ![h] = "WAIT"]
        /\ UNCHANGED <<loaded, quitting>>
    BY <1>6, <2>1 DEF EndExecute, callVars
  <2> QED
    BY <1>1, <1>4, <2>2 DEF Closing, TypeInv, TypeModules, TypePc
<1>7. ASSUME LoadIntoPool \/ LoadNewPool PROVE RunLoaded'
  <2>1. \E m \in Modules : loaded' = loaded \union {m} /\ mflag' = [mflag EXCEPT ![m] = "WAIT"]
    BY <1>1, <1>7 DEF LoadIntoPool, LoadNewPool, Register, TypeInv, TypeStack
  <2>2. ~Closing
    BY <1>1, <1>7 DEF LoadIntoPool, LoadNewPool, TypeInv, LoadFirst, Closing
  <2> QED
    BY <1>1, <2>1, <2>2 DEF RunLoaded, TypeInv, TypeModules
<1>8. ASSUME NEW c \in Callers, Free(c) PROVE RunLoaded'
  <2>1. /\ pc[c] = "free" /\ loaded' = loaded \ {target[c]} /\ UNCHANGED <<mflag, quitting>>
        /\ \E label \in {"resume", "unloaded"} : pc' = [pc EXCEPT ![c] = label]
    BY <1>8 DEF Free, callVars
  <2>2. CASE Closing
    <3>1. Closing'
      BY <1>1, <2>1, <2>2 DEF Closing, TypeInv, TypePc, UnloadLast
    <3> QED
      BY <3>1 DEF RunLoaded
  <2>3. CASE ~Closing
    <3>1. c = "master" /\ UnloadingDone
      BY <1>1, <2>1, <2>3 DEF Closing, UnloadingDone, TypeInv, TypePc, UnloadLast
    <3> QED
      BY <2>1, <2>3, <3>1 DEF RunLoaded, TargetIdle
  <2> QED
    BY <2>2, <2>3
<1>9. ASSUME DispatchRound \/ Arm PROVE RunLoaded'
  <2>1. UNCHANGED <<loaded, mflag>> /\ ~Closing
    BY <1>9 DEF DispatchRound, Arm, Closing, moduleVars
  <2> QED
    BY <2>1 DEF RunLoaded
<1>10. ASSUME NEW m \in unchecked, Check(m) PROVE RunLoaded'
  <2>1. m \in Modules /\ m \in loaded /\ ~Closing
    BY <1>1, <1>10 DEF Check, Closing, Course, TargetOf, TypeInv, TypeModules
  <2>2. loaded' = loaded /\ mflag' = [mflag EXCEPT ![m] = "RUN"]
    BY <1>10 DEF Check
  <2> QED
    BY <1>1, <2>1, <2>2 DEF RunLoaded, TypeInv, TypeModules
<1>11. CASE \E p \in Pools : Pool(p)
  BY <1>1, <1>3, <1>6, <1>11, PoolSame, PoolTarget, TargetKeeps
<1>12. CASE Client /\ ~Unloading("client")
  BY <1>1, <1>2, <1>3, <1>7, <1>12, ClientSame, ClientTarget, TargetKeeps
<1>13. CASE User \/ \E t \in Threads : Sleep(t) \/ Wakeup(t)
  BY <1>1, <1>2, <1>3, <1>13, OtherSame, OtherTarget, TargetKeeps
<1>14. CASE \E c \in Callers : Unloading(c)
  BY <1>1, <1>2, <1>3, <1>8, <1>14, UnloadingSame, UnloadingTarget, TargetKeeps
<1>15. CASE Master /\ ~Unloading("master")
  <2>1. EndExecute("master") => RunLoaded'
    BY <1>6
  <2> QED
    BY <1>1, <1>2, <1>3, <1>9, <1>10, <1>15, <2>1, MasterSame, MasterTarget
<1>16. CASE vars' = vars
  BY <1>1, <1>3, <1>5, <1>16, TargetKeeps
<1> QED
  BY <1>11, <1>12, <1>13, <1>14, <1>15, <1>16, Steps DEF StepCase

(* While the master runs its loop, whatever the modules return and the     *)
(* user commands, a module that executes is loaded: Loader::unload         *)
(* destroys the module that returned DONE when no thread is inside its     *)
(* execute(), and none enters it later (control.cc:82-99, 236-256).  What  *)
(* can happen when the system is closing is what run QuitUnload shows.     *)
THEOREM LoadedWhileRunning == Spec => [](~Closing => NoUseAfterUnload)
<1>1. Init => RunLoaded /\ TargetIdle
  BY ConstType DEF Init, RunLoaded, TargetIdle, UnloadingDone
<1>2. Spec => []StatusInv
  <2>1. Init => TypeInv /\ TypeBool /\ StatusInv
    BY TypesInit, StatusInit
  <2>2. (TypeInv /\ TypeBool /\ StatusInv) /\ [Next]_vars => (TypeInv /\ TypeBool /\ StatusInv)'
    BY TypesStep, StatusSteps
  <2> QED
    BY <2>1, <2>2, PTL DEF Spec
<1>3. RoundsInv /\ StatusInv /\ RunLoaded => (~Closing => NoUseAfterUnload)
  BY OwnHead DEF RoundsInv, IInv, TypeOK, TypePools, StatusInv, ExecRun, RunLoaded, NoUseAfterUnload
<1> QED
  BY <1>1, <1>2, <1>3, RoundsInit, RoundsStep, LoadedStep, PTL DEF Spec
==============================================================================
