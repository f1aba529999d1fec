----------------------------- MODULE InlineProof ------------------------------
(***************************************************************************)
(* No module executes after it has been unloaded, without a thread for the *)
(* controller (LoadedInline): up to the round of a requested shutdown,     *)
(* beyond which it is false (Inline).                                      *)
(*                                                                         *)
(* A call can interrupt the unloading of a module, and the call can start  *)
(* rounds of its own: the controller that goes on afterwards may find the  *)
(* pools at work, and tell them to run again before they have finished.    *)
(* The invariant has five parts:                                           *)
(*   CallsInv     the stack of calls, and where flag is QUIT;              *)
(*   DoneInv      what is being unloaded is DONE, what is to run is loaded;*)
(*   RestInv      where the pools are at rest, above all while a module is *)
(*                stopped, so that Stop and Restore change no pool's flag; *)
(*   CoverInv     activePools is never too low, with the pools counted     *)
(*                twice that will lower it twice.  If two controllers have *)
(*                told a pool to run and it runs once, activePools is too  *)
(*                high for good, and no wait for it ends: the waits that   *)
(*                end find it exact, and then each module with its flag at *)
(*                RUN has a pool still to come to it;                      *)
(*   NothingInv   therefore when the wait of the client's quit() ends no   *)
(*                module has its flag at RUN any more: the unloading that  *)
(*                follows needs no wait of its own (bvs.cc:159).           *)
(***************************************************************************)
EXTENDS Inline, ControlRounds

USE DEF Threads, Callers, ControlFlag, Status, SystemFlag,
        QuitLabel, UnloadLabel, PoolLabel, MasterLabel, ClientLabel, Label, Go

(* The calls of masterController that have not returned.                   *)
FrameSet == [caller : Callers, label : Label, unchecked : SUBSET Modules,
             target : Modules \union {NoModule}, state : SystemFlag, saved : ControlFlag]
Nested == Len(frames) > 1

(* The last call is the client's; the others interrupt the unloading of a  *)
(* module, before it is stopped or after it is gone, and only the latest   *)
(* can be of the first kind, because it does not interrupt anything.       *)
FrameOrdered(f, i) ==
    /\ f.caller = "client" <=> i = Len(frames)
    /\ f.caller = "client" => /\ f.label \in {"idle", "swapWait", "unloadNext"}
                              /\ f.label = "unloadNext" <=> quitting["client"]
                              /\ f.label = "swapWait" => target["client"] \in Modules
    /\ f.caller = "master" => /\ f.label \in {"stop", "unloaded"}
                              /\ f.target \in Modules
                              /\ f.state # "QUIT"
    /\ f.label = "stop" => i = 1
FramesOrdered == frames \in Seq(FrameSet) /\ \A i \in 1 .. Len(frames) : FrameOrdered(frames[i], i)

CalledPc == /\ pc["client"] = "called" <=> frames # <<>>
            /\ frames = <<>> => pc["master"] \in {"unborn", "done"}
            /\ pc["master"] \notin {"handler", "handlerNotify", "unloadNext"}
            /\ joinable = FALSE /\ quitting["master"] = FALSE

(* flag is QUIT from the client's quit() on, and no other QUIT is kept.    *)
QuitPc == /\ quitting["client"] => pc["client"] \in {"notify", "called", "delete", "end"} \union QuitLabel
          /\ pc["client"] \in {"delete", "end"} \union QuitLabel => quitting["client"]
          /\ quitting["client"] /\ pc["client"] = "called" =>
                 Len(frames) = 1 /\ pc["master"] \in {"startup", "startSync", "reset", "head", "exit", "done"}
QuitKept == /\ flag = "QUIT" <=> quitting["client"]
            /\ ~quitting["client"] => state["client"] # "QUIT"
            /\ state["master"] # "QUIT"

(* The call that stops the pools before a module is unloaded.              *)
StopLabel == {"startup", "startSync", "reset", "head", "sync", "dispatch", "done"}
Stopping == frames # <<>> /\ Head(frames).label = "stop"
StopPc == /\ Stopping => flag = "PAUSE" /\ pc["master"] \in StopLabel
          /\ pc["master"] = "stopNotify" => flag = "PAUSE"

CallsInv == FramesOrdered /\ CalledPc /\ QuitPc /\ QuitKept /\ StopPc

------------------------------------------------------------------------------
(* Steps within a call, and outside of all of them.                        *)
LEMMA FramesKept ==
    ASSUME FramesOrdered, frames' = frames, quitting'["client"] = quitting["client"],
           target'["client"] = target["client"]
    PROVE  FramesOrdered' /\ (Stopping' <=> Stopping) /\ (Nested' <=> Nested)
  BY DEF FramesOrdered, FrameOrdered, Stopping, Nested

(* What a step of another thread leaves alone.                             *)
Elsewhere == /\ UNCHANGED <<flag, state, target, saved, quitting, joinable, unchecked, loaded>>
             /\ pc'["client"] = pc["client"] /\ pc'["master"] = pc["master"]

(* It leaves the calls as they are.                                        *)
LEMMA ElsewhereCalls == ASSUME CallsInv, Elsewhere, frames' = frames PROVE CallsInv'
<1>1. FramesOrdered' /\ (Stopping' <=> Stopping)
  BY FramesKept DEF CallsInv, Elsewhere
<1>2. CalledPc' /\ QuitPc' /\ QuitKept' /\ StopPc'
  BY <1>1 DEF CallsInv, Elsewhere, CalledPc, QuitPc, QuitKept, StopPc
<1> QED
  BY <1>1, <1>2 DEF CallsInv

(* The steps of a pool.                                                    *)
LEMMA PoolElsewhere == ASSUME TypeInv, NEW p \in Pools, Pool(p) PROVE Elsewhere
<1> USE ConstType DEF TypeInv, TypePc, Elsewhere, poolVars, moduleVars, callVars
<1>1. ASSUME Attach(p) \/ PassDone(p, "finish") \/ PoolFinish(p) \/ PoolFinishWrite(p)
             \/ PoolSub(p) \/ PoolErase(p)
      PROVE  Elsewhere
  BY <1>1 DEF Attach, PassDone, PoolFinish, PoolFinishWrite, PoolSub, PoolErase
<1>2. ASSUME PoolHead(p) PROVE Elsewhere
  BY <1>2 DEF PoolHead
<1>3. ASSUME PoolWait(p) PROVE Elsewhere
  BY <1>3 DEF PoolWait, Enqueue
<1>4. ASSUME Pass(p) PROVE Elsewhere
  BY <1>4 DEF Pass, Skip, StartExecute, EndExecute
<1> QED
  BY <1>1, <1>2, <1>3, <1>4 DEF Pool

(* Outside of the calls there are no frames to look after.                 *)
LEMMA ClientCalls ==
    ASSUME TypeInv, CallsInv, InlineClient, frames' = frames
    PROVE  CallsInv'
<1> DEFINE Kept == UNCHANGED <<joinable, quitting>> /\ pc'["master"] = pc["master"]
<1>1. ASSUME Kept, frames = <<>>, pc'["client"] # "called", pc["master"] \in {"unborn", "done"},
             QuitPc', QuitKept'
      PROVE  CallsInv'
  BY <1>1 DEF CallsInv, FramesOrdered, CalledPc, StopPc, Stopping
<1>2. pc["client"] # "called" => frames = <<>> /\ pc["master"] \in {"unborn", "done"}
  BY DEF CallsInv, CalledPc
<1> USE ConstType DEF TypeInv, TypePc, QuitPc, QuitKept, callVars
<1>3. ASSUME LoadIntoPool PROVE CallsInv'
  BY <1>1, <1>2, <1>3 DEF LoadIntoPool, CallsInv
<1>4. ASSUME LoadNewPool PROVE CallsInv'
  <2>1. PICK p \in Threads \ {"master"} : pc' = [pc EXCEPT !["client"] = "count", ![p] = "attach"]
    <3>1. todo # <<>> /\ todo \in Seq(Modules) /\ PoolName[Head(todo)] \in Threads
      BY <1>4 DEF LoadNewPool, TypeStack
    <3> QED
      BY <1>4, <3>1 DEF LoadNewPool, TypePools
  <2>2. pc'["client"] = "count" /\ pc'["master"] = pc["master"]
    BY <2>1
  <2> QED
    BY <1>1, <1>2, <1>4, <2>2 DEF LoadNewPool, CallsInv
<1>5. ASSUME CountPool \/ PushFirst \/ Delete PROVE CallsInv'
  BY <1>1, <1>2, <1>5 DEF CountPool, PushFirst, Delete, CallsInv
<1>6. ASSUME WhileActive("client", "swapWait") \/ StartSwap PROVE CallsInv'
  BY <1>1, <1>2, <1>6 DEF WhileActive, StartSwap, OnceInactive, CallsInv
<1>7. ASSUME SwapPause \/ EndSwap PROVE CallsInv'
  BY <1>1, <1>2, <1>7 DEF SwapPause, EndSwap, CallsInv
<1>8. ASSUME UnloadNext("client") \/ AllUnloaded("client") \/ PopUnloaded("client") PROVE CallsInv'
  BY <1>1, <1>2, <1>8 DEF UnloadNext, AllUnloaded, PopUnloaded, CallsInv
<1>9. ASSUME Unload("client") PROVE CallsInv'
  BY <1>1, <1>2, <1>9 DEF Unload, CallsInv
<1>10. ASSUME Stop("client") \/ WhileActive("client", "inactive") \/ RemoveFromPool("client")
       PROVE  CallsInv'
  BY <1>1, <1>2, <1>10 DEF Stop, WhileActive, RemoveFromPool, OnceInactive, CallsInv
<1>11. ASSUME Restore("client") \/ Free("client") PROVE CallsInv'
  BY <1>1, <1>2, <1>11 DEF Restore, Notify, Free, CallsInv
<1> HIDE DEF QuitPc, QuitKept, TypeInv
<1> QED
  BY <1>3, <1>4, <1>5, <1>6, <1>7, <1>8, <1>9, <1>10, <1>11 DEF InlineClient

(* The commands of the user.                                               *)
LEMMA UserCalls == ASSUME TypeInv, TypeBool, CallsInv, User, frames' = frames PROVE CallsInv'
<1> USE ConstType DEF TypeInv, TypePc, TypeSystem, TypeCalls, CallsInv, CalledPc, QuitPc, QuitKept, StopPc,
                      Stopping, callVars
<1>1. pc["client"] = "idle" /\ frames = <<>> /\ FramesOrdered'
  BY DEF User, Command, Send, HotSwap, FramesOrdered
<1>2. ASSUME NEW command \in Commands, Command(command) PROVE CallsInv'
  <2>1. /\ pc' = [pc EXCEPT !["client"] = "notify"] /\ flag' = command
        /\ quitting' = [quitting EXCEPT !["client"] = (command = "QUIT")]
        /\ UNCHANGED <<joinable, state>>
    BY <1>2 DEF Command, Send
  <2>2. pc'["client"] = "notify" /\ pc'["master"] = pc["master"]
    BY <2>1
  <2>3. quitting'["client"] = (command = "QUIT") /\ quitting'["master"] = quitting["master"]
    BY <2>1, Zenon DEF TypeBool
  <2>4. CalledPc' /\ StopPc'
    BY <1>1, <2>1, <2>2, <2>3
  <2>5. QuitPc'
    BY <1>1, <2>2
  <2>6. QuitKept'
    <3>1. ~(command = "QUIT") => state["client"] # "QUIT"
      BY <1>1
    <3> QED
      BY <2>1, <2>3, <3>1, Zenon
  <2> QED
    BY <1>1, <2>4, <2>5, <2>6
<1>3. ASSUME NEW m \in Swappable, HotSwap(m) PROVE CallsInv'
  BY <1>1, <1>3 DEF HotSwap
<1> QED
  BY <1>2, <1>3 DEF User

(* The steps of the controller: it returns, or goes on to the next.  Only  *)
(* steps in the round write the flag, and none of them in a call that the  *)
(* user's quit() or an unloading has begun.                                *)
Within == /\ pc'["client"] = pc["client"] /\ UNCHANGED <<joinable, quitting>>
          /\ state'["client"] = state["client"] /\ target'["client"] = target["client"]
          /\ pc["master"] \notin {"unborn", "done"}
          /\ pc'["master"] \notin {"handler", "handlerNotify", "unloadNext"}

(* It leaves the calls as they are, if flag and the label fit together.    *)
LEMMA WithinCalls ==
    ASSUME CallsInv, Within, frames' = frames,
           state'["master"] # "QUIT",
           flag' = "QUIT" <=> quitting["client"],
           quitting["client"] => pc'["master"] \in {"startup", "startSync", "reset", "head", "exit", "done"},
           Stopping => flag' = flag /\ pc'["master"] \in StopLabel,
           pc'["master"] = "stopNotify" => flag' = "PAUSE"
    PROVE  CallsInv'
<1>1. FramesOrdered' /\ (Stopping' <=> Stopping)
  BY FramesKept DEF CallsInv, Within
<1>2. CalledPc' /\ QuitPc' /\ QuitKept' /\ StopPc'
  BY <1>1 DEF CallsInv, Within, CalledPc, QuitPc, QuitKept, StopPc
<1> QED
  BY <1>1, <1>2 DEF CallsInv

(* The steps of the controller within a call keep what holds of the calls. *)
LEMMA MasterCalls ==
    ASSUME TypeInv, CallsInv, ~ShutdownReached, InlineMaster \/ Sleep("master"), frames' = frames
    PROVE  CallsInv'
<1>1. /\ pc["client"] = "called" <=> frames # <<>>
      /\ frames = <<>> => pc["master"] \in {"unborn", "done"}
      /\ quitting["client"] /\ pc["client"] = "called" =>
            pc["master"] \in {"startup", "startSync", "reset", "head", "exit", "done"}
      /\ Stopping => flag = "PAUSE" /\ pc["master"] \in StopLabel
      /\ pc["master"] = "stopNotify" => flag = "PAUSE"
      /\ flag = "QUIT" <=> quitting["client"]
      /\ state["master"] # "QUIT" /\ joinable = FALSE /\ quitting["master"] = FALSE
      /\ pc["master"] \notin {"handler", "handlerNotify", "unloadNext"}
  BY DEF CallsInv, CalledPc, QuitPc, QuitKept, StopPc
<1>2. ~ShutdownDue
  BY DEF ShutdownReached, ShutdownDue, TypeInv, TypeSystem
<1> DEFINE GoesOn ==
       /\ state'["master"] # "QUIT" /\ (flag' = "QUIT" <=> quitting["client"])
       /\ quitting["client"] => pc'["master"] \in {"startup", "startSync", "reset", "head", "exit", "done"}
       /\ Stopping => flag' = flag /\ pc'["master"] \in StopLabel
       /\ pc'["master"] = "stopNotify" => flag' = "PAUSE"
<1> USE <1>1, <1>2 DEF TypeInv, TypePc, Within, StopLabel, callVars, roundVars, stackVars
<1>3. ASSUME Startup \/ MasterWait \/ Reset \/ MasterHead PROVE Within /\ GoesOn
  <2>1. ASSUME Startup PROVE Within /\ GoesOn
    BY <2>1 DEF Startup, Notify
  <2>2. ASSUME MasterWait PROVE Within /\ GoesOn
    BY <2>2 DEF MasterWait, Enqueue
  <2>3. ASSUME Reset PROVE Within /\ GoesOn
    BY <2>3 DEF Reset
  <2>4. ASSUME MasterHead PROVE Within /\ GoesOn
    BY <2>4 DEF MasterHead
  <2> QED
    BY <1>3, <2>1, <2>2, <2>3, <2>4
<1>4. ASSUME DispatchIdle PROVE Within /\ GoesOn
  BY <1>4 DEF DispatchIdle
<1>5. ASSUME DispatchRound PROVE Within /\ GoesOn
  BY <1>5 DEF DispatchRound
<1>6. ASSUME NEW m \in unchecked, Check(m) PROVE Within /\ GoesOn
  BY <1>6 DEF Check
<1>7. ASSUME NEW m \in unchecked, CheckDone(m) PROVE Within /\ GoesOn
  BY <1>7 DEF CheckDone
<1>8. ASSUME ContinueCheck PROVE Within /\ GoesOn
  BY <1>8 DEF ContinueCheck
<1>9. ASSUME Arm PROVE Within /\ GoesOn
  BY <1>9 DEF Arm
<1>10. ASSUME Launch PROVE Within /\ GoesOn
  BY <1>10 DEF Launch, Notify
<1>11. ASSUME Pass("master") \/ PassDone("master", "step") PROVE Within /\ GoesOn
  <2>1. ASSUME Skip("master") \/ StartExecute("master") PROVE Within /\ GoesOn
    BY <2>1 DEF Skip, StartExecute
  <2>2. ASSUME EndExecute("master") PROVE Within /\ GoesOn
    BY <2>2 DEF EndExecute
  <2>3. ASSUME PassDone("master", "step") PROVE Within /\ GoesOn
    BY <2>3 DEF PassDone
  <2> QED
    BY <1>11, <2>1, <2>2, <2>3 DEF Pass
<1>12. ASSUME StepTest PROVE Within /\ GoesOn
  BY <1>12 DEF StepTest
<1>13. ASSUME StepWrite PROVE Within /\ GoesOn
  BY <1>13 DEF StepWrite
<1>14. ASSUME MasterTail PROVE Within /\ GoesOn
  BY <1>14 DEF MasterTail
<1>15. ASSUME MasterExit PROVE Within /\ GoesOn
  BY <1>15 DEF MasterExit
<1>16. ~Handler
  BY DEF Handler
<1>17. ASSUME Unload("master") PROVE Within /\ GoesOn
  BY <1>17 DEF Unload, TypeCalls
<1>18. ASSUME StopPause("master") PROVE Within /\ GoesOn
  BY <1>18 DEF StopPause
<1>19. ASSUME Stop("master") PROVE Within /\ GoesOn
  BY <1>19 DEF Stop
<1>20. ASSUME WhileActive("master", "inactive") \/ RemoveFromPool("master") PROVE Within /\ GoesOn
  BY <1>20 DEF WhileActive, RemoveFromPool, OnceInactive
<1>21. ASSUME Restore("master") PROVE Within /\ GoesOn
  BY <1>21 DEF Restore, Notify
<1>22. ASSUME Free("master") PROVE Within /\ GoesOn
  BY <1>22 DEF Free
<1>23. ASSUME Resume("master") PROVE Within /\ GoesOn
  BY <1>23 DEF Resume
<1>24. ASSUME Sleep("master") PROVE CallsInv'
  BY <1>24, ElsewhereCalls DEF Sleep, Elsewhere, moduleVars
<1>25. ASSUME Within /\ GoesOn PROVE CallsInv'
  BY <1>25, WithinCalls
<1> HIDE DEF Within, GoesOn, TypeInv
<1> QED
  BY <1>3, <1>4, <1>5, <1>6, <1>7, <1>8, <1>9, <1>10, <1>11, <1>12, <1>13, <1>14, <1>15, <1>16, <1>17,
     <1>18, <1>19, <1>20, <1>21, <1>22, <1>23, <1>24, <1>25 DEF InlineMaster

------------------------------------------------------------------------------
(* Calls and returns.                                                      *)
LEMMA Pushed ==
    ASSUME NEW S, NEW s \in Seq(S), NEW f \in S
    PROVE  /\ <<f>> \o s \in Seq(S) /\ Len(<<f>> \o s) = Len(s) + 1
           /\ (<<f>> \o s)[1] = f /\ Head(<<f>> \o s) = f /\ <<f>> \o s # <<>>
           /\ \A i \in 1 .. Len(s) : (<<f>> \o s)[i + 1] = s[i]
  OBVIOUS

(* What is left of a non-empty stack.                                      *)
LEMMA Popped ==
    ASSUME NEW S, NEW s \in Seq(S), s # <<>>
    PROVE  /\ Tail(s) \in Seq(S) /\ Len(Tail(s)) = Len(s) - 1
           /\ Tail(s) = <<>> <=> Len(s) = 1
           /\ Head(s) = s[1] /\ Head(s) \in S
           /\ \A i \in 1 .. Len(s) - 1 : Tail(s)[i] = s[i + 1]
<1>1. /\ Tail(s) \in Seq(S) /\ Len(Tail(s)) = Len(s) - 1 /\ Len(s) \in Nat \ {0}
      /\ Head(s) = s[1] /\ Head(s) \in S
  OBVIOUS
<1>2. \A i \in 1 .. Len(s) - 1 : Tail(s)[i] = s[i + 1]
  OBVIOUS
<1>3. \A t \in Seq(S), n \in Nat : Len(t) = n - 1 => (t = <<>> <=> n = 1)
  OBVIOUS
<1>4. Tail(s) = <<>> <=> Len(s) = 1
  BY <1>1, <1>3, Zenon
<1> QED
  BY <1>1, <1>2, <1>4

(* What a call does.                                                       *)
Calls(caller, label) ==
    /\ frames' = <<Frame(caller, label)>> \o frames
    /\ pc' = [pc EXCEPT !["client"] = "called", !["master"] = "startup"]
    /\ UNCHANGED crashed
    /\ UNCHANGED <<syncVars, poolVars, moduleVars, flag, roundVars, joinable,
                   stackVars, callVars>>

(* The frames after a call: the new one first.                             *)
LEMMA CallMade ==
    ASSUME NEW caller, NEW label, Call(caller, label), ~crashed, ~crashed'
    PROVE  Calls(caller, label)
  BY DEF Call, Calls

ClientMay == {"load", "notify", "swapNotify"}
ClientLeft == {"idle", "swapWait", "unloadNext"}

(* The calls, from the client or from within.                              *)
LEMMA CallCases ==
    ASSUME CallsInv, Start \/ ClientCommand \/ InnerCommand, ~crashed, ~crashed'
    PROVE  \/ \E label \in ClientLeft :
                 /\ Calls("client", label) /\ frames = <<>>
                 /\ pc["client"] \in ClientMay
                 /\ label = "unloadNext" => quitting["client"]
                 /\ quitting["client"] => label = "unloadNext"
                 /\ label = "swapWait" => pc["client"] = "swapNotify"
           \/ \E label \in {"stop", "unloaded"} :
                 /\ Calls("master", label) /\ frames # <<>> /\ ~Stopping
                 /\ pc["master"] \in {"stopNotify", "resumeNotify"}
                 /\ label = "stop" <=> pc["master"] = "stopNotify"
                 /\ ~quitting["client"]
<1>1. ASSUME Start PROVE Calls("client", "idle") /\ pc["client"] = "load"
  BY <1>1, CallMade DEF Start
<1>2. ASSUME ClientCommand
      PROVE  \/ Calls("client", "swapWait") /\ pc["client"] = "swapNotify"
             \/ Calls("client", "unloadNext") /\ pc["client"] = "notify" /\ quitting["client"]
             \/ Calls("client", "idle") /\ pc["client"] = "notify" /\ ~quitting["client"]
  BY <1>2, CallMade DEF ClientCommand
<1>3. ASSUME InnerCommand
      PROVE  \/ Calls("master", "stop") /\ pc["master"] = "stopNotify"
             \/ Calls("master", "unloaded") /\ pc["master"] = "resumeNotify"
  BY <1>3, CallMade DEF InnerCommand, CallsInv, CalledPc
<1>4. ASSUME pc["client"] \in ClientMay PROVE frames = <<>>
  BY <1>4 DEF ClientMay, CallsInv, CalledPc
<1>5. ASSUME pc["client"] \in {"load", "swapNotify"} PROVE ~quitting["client"]
  BY <1>5 DEF CallsInv, QuitPc
<1>6. ASSUME pc["master"] \in {"stopNotify", "resumeNotify"}
      PROVE  frames # <<>> /\ ~Stopping /\ ~quitting["client"]
  BY <1>6 DEF CallsInv, CalledPc, QuitPc, StopPc, StopLabel
<1>7. CASE Start
  BY <1>1, <1>4, <1>5, <1>7 DEF ClientMay, ClientLeft
<1>8. CASE ClientCommand
  BY <1>2, <1>4, <1>5, <1>8 DEF ClientMay, ClientLeft
<1>9. CASE InnerCommand
  BY <1>3, <1>6, <1>9
<1> QED
  BY <1>7, <1>8, <1>9

(* The frame of a call has the type of frames.                             *)
LEMMA FrameTyped ==
    ASSUME TypeInv, NEW caller \in Callers, NEW label \in Label
    PROVE  /\ Frame(caller, label) \in FrameSet
           /\ Frame(caller, label).caller = caller /\ Frame(caller, label).label = label
           /\ Frame(caller, label).target = target["master"] /\ Frame(caller, label).state = state["master"]
  BY DEF TypeInv, TypeModules, TypeCalls, Frame, FrameSet

(* A call keeps what holds of the calls (control.cc:115-118).              *)
LEMMA CallCalls ==
    ASSUME TypeInv, CallsInv, Start \/ ClientCommand \/ InnerCommand, ~crashed, ~crashed'
    PROVE  CallsInv'
<1>1. frames \in Seq(FrameSet) /\ \A i \in 1 .. Len(frames) : FrameOrdered(frames[i], i)
  BY DEF CallsInv, FramesOrdered
<1>2. QuitPc /\ QuitKept /\ StopPc /\ CalledPc
  BY DEF CallsInv
<1>3. ASSUME NEW caller \in Callers, NEW label \in Label, Calls(caller, label), ~Stopping,
             caller = "client" <=> frames = <<>>,
             caller = "client" => label \in ClientLeft /\ (label = "unloadNext" <=> quitting["client"]),
             label = "swapWait" => target["client"] \in Modules,
             caller = "master" => label \in {"stop", "unloaded"} /\ target["master"] \in Modules
      PROVE  FramesOrdered' /\ Head(frames').label = label /\ Len(frames') = Len(frames) + 1 /\ frames' # <<>>
  <2> DEFINE f == Frame(caller, label)
  <2>1. /\ f \in FrameSet /\ f.caller = caller /\ f.label = label
        /\ f.target = target["master"] /\ f.state = state["master"]
    BY FrameTyped
  <2>2. frames' = <<f>> \o frames /\ UNCHANGED <<quitting, target>>
    BY <1>3 DEF Calls, callVars
  <2> HIDE DEF f
  <2>3. /\ frames' \in Seq(FrameSet) /\ Len(frames') = Len(frames) + 1 /\ frames'[1] = f
        /\ Head(frames') = f /\ frames' # <<>>
        /\ \A i \in 1 .. Len(frames) : frames'[i + 1] = frames[i]
    BY <1>1, <2>1, <2>2, Pushed
  <2>4. Len(frames) \in Nat /\ (caller = "client" <=> Len(frames) = 0)
    BY <1>1, <1>3
  <2>5. FrameOrdered(frames[1], 1)'
    BY <1>2, <1>3, <2>1, <2>2, <2>3, <2>4 DEF FrameOrdered, ClientLeft, QuitKept
  <2>6. ASSUME NEW i \in 1 .. Len(frames) PROVE FrameOrdered(frames[i + 1], i + 1)'
    <3>1. FrameOrdered(frames[i], i)
      BY <1>1
    <3>2. frames[i].label # "stop"
      BY <1>1, <1>3, <3>1 DEF Stopping, FrameOrdered
    <3>3. i = Len(frames) <=> i + 1 = Len(frames')
      BY <2>3, <2>4
    <3> QED
      BY <2>2, <2>3, <3>1, <3>2, <3>3 DEF FrameOrdered
  <2>7. ASSUME NEW i \in 1 .. Len(frames') PROVE FrameOrdered(frames[i], i)'
    <3>1. CASE i = 1
      BY <2>5, <3>1
    <3>2. CASE i # 1
      <4>1. i - 1 \in 1 .. Len(frames) /\ (i - 1) + 1 = i
        BY <2>3, <2>4, <3>2
      <4> QED
        BY <2>6, <4>1
    <3> QED
      BY <3>1, <3>2
  <2> QED
    BY <2>1, <2>3, <2>7 DEF FramesOrdered
<1>4. ASSUME NEW caller \in Callers, NEW label \in Label, Calls(caller, label),
             FramesOrdered', Head(frames').label = label, Len(frames') = Len(frames) + 1, frames' # <<>>,
             quitting["client"] => frames = <<>>,
             label = "stop" => flag = "PAUSE"
      PROVE  CallsInv'
  <2>1. /\ pc'["client"] = "called" /\ pc'["master"] = "startup"
        /\ UNCHANGED <<flag, joinable, quitting, state>>
    BY <1>4 DEF Calls, callVars, TypeInv, TypePc
  <2>2. CalledPc' /\ QuitKept' /\ StopPc'
    BY <1>2, <1>4, <2>1 DEF CalledPc, QuitKept, StopPc, Stopping, StopLabel
  <2>3. QuitPc'
    <3>1. quitting["client"] => Len(frames') = 1
      BY <1>1, <1>4
    <3> QED
      BY <2>1, <3>1 DEF QuitPc
  <2> QED
    BY <1>4, <2>2, <2>3 DEF CallsInv
<1>5. ASSUME NEW label \in ClientLeft, Calls("client", label), frames = <<>>, pc["client"] \in ClientMay,
             label = "unloadNext" => quitting["client"], quitting["client"] => label = "unloadNext",
             label = "swapWait" => pc["client"] = "swapNotify"
      PROVE  CallsInv'
  <2>1. ~Stopping /\ label \in Label /\ label # "stop"
        /\ (label = "swapWait" => target["client"] \in Modules)
    BY <1>5 DEF Stopping, ClientLeft, TypeInv, TypeCalls
  <2> QED
    BY <1>3, <1>4, <1>5, <2>1
<1>6. ASSUME NEW label \in {"stop", "unloaded"}, Calls("master", label), frames # <<>>, ~Stopping,
             pc["master"] \in {"stopNotify", "resumeNotify"}, ~quitting["client"],
             label = "stop" <=> pc["master"] = "stopNotify"
      PROVE  CallsInv'
  <2>1. target["master"] \in Modules /\ (label = "stop" => flag = "PAUSE") /\ label \in Label
    BY <1>2, <1>6 DEF TypeInv, TypeCalls, StopPc
  <2> QED
    BY <1>3, <1>4, <1>6, <2>1
<1> QED
  BY <1>5, <1>6, CallCases

(* A return, to the client or into the controller.                         *)
ReturnCalls(f) ==
    /\ pc["master"] = "done" /\ pc["client"] = "called" /\ frames # <<>>
    /\ f = Head(frames) /\ frames' = Tail(frames)
    /\ UNCHANGED <<syncVars, poolVars, loaded, mflag, status, flag, roundVars,
                   joinable, stackVars, quitting, crashed>>

(* A return goes to the client with the last frame, or into the controller *)
(* with the first of several.                                              *)
LEMMA ReturnCases ==
    ASSUME TypeInv, CallsInv, Return
    PROVE  \E f \in FrameSet :
             /\ ReturnCalls(f) /\ FrameOrdered(f, 1)
             /\ \/ /\ f.caller = "client" /\ Len(frames) = 1 /\ frames' = <<>>
                   /\ pc' = [pc EXCEPT !["client"] = f.label]
                   /\ UNCHANGED <<unchecked, target, state, saved>>
                \/ /\ f.caller = "master" /\ Len(frames) > 1 /\ frames' # <<>> /\ ~quitting["client"]
                   /\ pc' = [pc EXCEPT !["master"] = f.label]
                   /\ unchecked' = f.unchecked \intersect loaded
                   /\ target' = [target EXCEPT !["master"] = f.target]
                   /\ state' = [state EXCEPT !["master"] = f.state]
                   /\ saved' = [saved EXCEPT !["master"] = f.saved]
<1>1. frames \in Seq(FrameSet) /\ \A i \in 1 .. Len(frames) : FrameOrdered(frames[i], i)
  BY DEF CallsInv, FramesOrdered
<1>2. /\ frames # <<>> /\ (quitting["client"] => Len(frames) = 1)
  BY DEF Return, CallsInv, CalledPc, QuitPc
<1> DEFINE f == Head(frames)
<1>3. /\ f \in FrameSet /\ f = frames[1] /\ Len(frames) \in Nat \ {0}
      /\ frames' = Tail(frames) /\ Len(Tail(frames)) = Len(frames) - 1
  BY <1>1, <1>2, Popped DEF Return
<1>4. FrameOrdered(f, 1) /\ f.caller \in Callers
  BY <1>1, <1>3 DEF FrameSet
<1>5. f.caller = "client" <=> Len(frames) = 1
  BY <1>3, <1>4 DEF FrameOrdered
<1>6. frames' = <<>> <=> Len(frames) = 1
  BY <1>1, <1>2, <1>3, Popped
<1>7. ReturnCalls(f) /\ ReturnTo(f)
  BY <1>2, <1>3 DEF Return, ReturnCalls
<1> HIDE DEF f
<1>8. CASE f.caller = "client"
  BY <1>3, <1>4, <1>5, <1>6, <1>7, <1>8 DEF ReturnTo
<1>9. CASE f.caller = "master"
  <2>1. Len(frames) > 1 /\ frames' # <<>> /\ ~quitting["client"]
    BY <1>2, <1>3, <1>5, <1>6, <1>9
  <2> QED
    BY <1>3, <1>4, <1>7, <1>9, <2>1 DEF ReturnTo
<1> QED
  BY <1>4, <1>8, <1>9

(* A return keeps what holds of the calls.                                 *)
LEMMA ReturnKeepsCalls == ASSUME TypeInv, CallsInv, Return PROVE CallsInv'
<1>1. frames \in Seq(FrameSet) /\ \A i \in 1 .. Len(frames) : FrameOrdered(frames[i], i)
  BY DEF CallsInv, FramesOrdered
<1>2. QuitPc /\ QuitKept /\ StopPc /\ CalledPc
  BY DEF CallsInv
<1>3. PICK f \in FrameSet :
             /\ ReturnCalls(f) /\ FrameOrdered(f, 1)
             /\ \/ /\ f.caller = "client" /\ Len(frames) = 1 /\ frames' = <<>>
                   /\ pc' = [pc EXCEPT !["client"] = f.label]
                   /\ UNCHANGED <<unchecked, target, state, saved>>
                \/ /\ f.caller = "master" /\ Len(frames) > 1 /\ frames' # <<>> /\ ~quitting["client"]
                   /\ pc' = [pc EXCEPT !["master"] = f.label]
                   /\ unchecked' = f.unchecked \intersect loaded
                   /\ target' = [target EXCEPT !["master"] = f.target]
                   /\ state' = [state EXCEPT !["master"] = f.state]
                   /\ saved' = [saved EXCEPT !["master"] = f.saved]
  BY ReturnCases
<1>4. /\ frames # <<>> /\ frames' = Tail(frames) /\ pc["master"] = "done" /\ pc["client"] = "called"
      /\ UNCHANGED <<flag, joinable, quitting>>
  BY <1>3 DEF ReturnCalls
<1>5. /\ Tail(frames) \in Seq(FrameSet) /\ Len(frames') = Len(frames) - 1 /\ Len(frames) \in Nat \ {0}
      /\ \A i \in 1 .. Len(frames) - 1 : frames'[i] = frames[i + 1]
  BY <1>1, <1>4, Popped
<1>6. ASSUME NEW i \in 1 .. Len(frames') PROVE FrameOrdered(frames[i], i)' /\ frames'[i].label # "stop"
  <2>1. FrameOrdered(frames[i + 1], i + 1) /\ frames'[i] = frames[i + 1] /\ i + 1 # 1
    BY <1>1, <1>5
  <2>2. i + 1 = Len(frames) <=> i = Len(frames')
    BY <1>5
  <2>3. target'["client"] = target["client"]
    BY <1>3 DEF TypeInv, TypeCalls
  <2> QED
    BY <1>4, <2>1, <2>2, <2>3 DEF FrameOrdered
<1>7. FramesOrdered'
  BY <1>4, <1>5, <1>6 DEF FramesOrdered
<1>8. ~Stopping'
  <2>1. frames' # <<>> => Head(frames') = frames'[1] /\ 1 \in 1 .. Len(frames')
    BY <1>4, <1>5, Popped
  <2> QED
    BY <1>6, <2>1 DEF Stopping
<1>9. CASE f.caller = "client"
  <2>1. /\ pc'["client"] = f.label /\ pc'["master"] = "done" /\ frames' = <<>> /\ UNCHANGED <<state>>
        /\ f.label \in ClientLeft /\ (f.label = "unloadNext" <=> quitting["client"])
    BY <1>3, <1>4, <1>9 DEF TypeInv, TypePc, FrameOrdered, ClientLeft
  <2> QED
    BY <1>2, <1>4, <1>7, <1>8, <2>1 DEF CallsInv, CalledPc, QuitPc, QuitKept, StopPc, ClientLeft
<1>10. CASE f.caller = "master"
  <2>1. /\ pc'["client"] = "called" /\ pc'["master"] = f.label /\ frames' # <<>> /\ ~quitting["client"]
        /\ f.label \in {"stop", "unloaded"} /\ f.state # "QUIT"
        /\ state' = [state EXCEPT !["master"] = f.state]
    BY <1>3, <1>4, <1>10 DEF TypeInv, TypePc, FrameOrdered
  <2>2. state'["master"] = f.state /\ state'["client"] = state["client"]
    BY <2>1 DEF TypeInv, TypeCalls
  <2> QED
    BY <1>2, <1>4, <1>7, <1>8, <2>1, <2>2 DEF CallsInv, CalledPc, QuitPc, QuitKept, StopPc
<1> QED
  BY <1>9, <1>10 DEF FrameSet

------------------------------------------------------------------------------
(* The types, and what Control makes of statuses: whatever is not a call   *)
(* or a return is a step of Control.                                       *)
Calling == Start \/ ClientCommand \/ InnerCommand

(* Every step is one of Control, a call or a return.                       *)
LEMMA InlineCases ==
    InlineNext => (Next /\ Alive /\ frames' = frames) \/ (Alive /\ (Calling \/ Return))
<1>1. ASSUME Alive, InlineClient PROVE Next
  BY <1>1 DEF InlineClient, Next, ClientStep, Client, Unloading
<1>2. ASSUME Alive, InlineMaster PROVE Next
  BY <1>2 DEF InlineMaster, Next, MasterStep, Master, Unloading
<1>3. ASSUME NEW p \in Pools, PoolStep(p) PROVE Next /\ Alive
  BY <1>3 DEF Next, PoolStep
<1>4. ASSUME Alive, Sleep("master") PROVE Next
  BY <1>4 DEF Next, MasterStep
<1>5. ASSUME Alive, User \/ \E t \in Threads : Wakeup(t) PROVE Next
  BY <1>5 DEF Next
<1> QED
  BY <1>1, <1>2, <1>3, <1>4, <1>5 DEF InlineNext, InlineStep, InlinePool, Calling

(* A call moves the client and the controller, and nothing else.           *)
LEMMA CallTypes ==
    ASSUME TypeInv, TypeBool, StatusInv, CallsInv, Calling, ~crashed, ~crashed'
    PROVE  TypeInv' /\ TypeBool' /\ StatusInv'
<1>1. PICK caller \in Callers, label \in Label : Calls(caller, label)
  BY CallCases DEF Calling, ClientLeft
<1>2. /\ pc' = [pc EXCEPT !["client"] = "called", !["master"] = "startup"]
      /\ UNCHANGED <<syncVars, poolVars, moduleVars, flag, roundVars, joinable, stackVars, callVars, crashed>>
  BY <1>1 DEF Calls
<1>3. /\ pc'["client"] = "called" /\ pc'["master"] = "startup" /\ \A p \in Pools : pc'[p] = pc[p]
      /\ pc' \in [Threads \union {"client"} -> Label]
  BY <1>2, ConstType DEF TypeInv, TypePc
<1> USE DEF syncVars, poolVars, moduleVars, roundVars, stackVars, callVars
<1>4. TypePc' /\ TypeBarrier' /\ TypeModules' /\ TypeSystem'
  BY <1>2, <1>3 DEF TypeInv, TypePc, TypeBarrier, TypeModules, TypeSystem
<1>5. TypePools'
  BY <1>2, <1>3 DEF TypeInv, TypePools
<1>6. TypeStack' /\ TypeCalls'
  BY <1>2, <1>3 DEF TypeInv, TypeStack, TypeCalls
<1>7. LoadFirst' /\ UnloadLast' /\ HandlerLast'
  <2>1. quitting["master"] = FALSE
    BY DEF CallsInv, CalledPc
  <2> QED
    BY <1>2, <1>3, <2>1 DEF LoadFirst, UnloadLast, HandlerLast
<1>8. TypeBool'
  BY <1>2, Zenon DEF TypeBool
<1>9. Quietly
  <2>1. shutdownRequested => shutdownRequested'
    BY <1>2, Zenon
  <2> QED
    BY <1>2, <1>3, <2>1 DEF Quietly
<1> QED
  BY <1>4, <1>5, <1>6, <1>7, <1>8, <1>9, QuietlyKeeps DEF TypeInv

(* A return puts back what the frame has kept, which has its types.        *)
LEMMA ReturnTypes ==
    ASSUME TypeInv, TypeBool, StatusInv, CallsInv, Return
    PROVE  TypeInv' /\ TypeBool' /\ StatusInv'
<1>1. PICK f \in FrameSet :
             /\ ReturnCalls(f) /\ FrameOrdered(f, 1)
             /\ \/ /\ f.caller = "client" /\ Len(frames) = 1 /\ frames' = <<>>
                   /\ pc' = [pc EXCEPT !["client"] = f.label]
                   /\ UNCHANGED <<unchecked, target, state, saved>>
                \/ /\ f.caller = "master" /\ Len(frames) > 1 /\ frames' # <<>> /\ ~quitting["client"]
                   /\ pc' = [pc EXCEPT !["master"] = f.label]
                   /\ unchecked' = f.unchecked \intersect loaded
                   /\ target' = [target EXCEPT !["master"] = f.target]
                   /\ state' = [state EXCEPT !["master"] = f.state]
                   /\ saved' = [saved EXCEPT !["master"] = f.saved]
  BY ReturnCases
<1>2. /\ pc["master"] = "done" /\ pc["client"] = "called"
      /\ UNCHANGED <<syncVars, poolVars, loaded, mflag, status, flag, roundVars,
                     joinable, stackVars, quitting, crashed>>
  BY <1>1 DEF ReturnCalls
<1>3. quitting["master"] = FALSE
  BY DEF CallsInv, CalledPc
<1>4. /\ f.caller \in Callers /\ f.unchecked \subseteq Modules /\ f.target \in Modules \union {NoModule}
      /\ f.state \in SystemFlag /\ f.saved \in ControlFlag
  BY DEF FrameSet
<1>5. \/ /\ f.label \in ClientLeft
         /\ pc'["client"] = f.label /\ pc'["master"] = "done"
      \/ /\ f.label \in {"stop", "unloaded"} /\ f.target \in Modules /\ target'["master"] = f.target
         /\ pc'["client"] = "called" /\ pc'["master"] = f.label
  BY <1>1, <1>2, <1>4 DEF TypeInv, TypePc, TypeCalls, FrameOrdered, ClientLeft
<1>6. /\ \A p \in Pools : pc'[p] = pc[p]
      /\ pc' \in [Threads \union {"client"} -> Label]
  BY <1>1, <1>2, <1>5, ConstType DEF TypeInv, TypePc, ClientLeft
<1> USE DEF syncVars, poolVars, moduleVars, roundVars, stackVars, callVars
<1>7. TypePc' /\ TypeBarrier' /\ TypeSystem'
  BY <1>2, <1>5, <1>6 DEF TypeInv, TypePc, TypeBarrier, TypeSystem, ClientLeft
<1>8. TypeModules'
  BY <1>1, <1>2, <1>4 DEF TypeInv, TypeModules
<1>9. TypePools'
  BY <1>2, <1>5, <1>6 DEF TypeInv, TypePools, ClientLeft
<1>10. TypeStack'
  BY <1>1, <1>2, <1>3, <1>5, <1>6 DEF TypeInv, TypeStack, ClientLeft
<1>11. TypeCalls'
  <2>1. /\ target' \in [Callers -> Modules \union {NoModule}] /\ target'["client"] = target["client"]
        /\ state' \in [Callers -> SystemFlag] /\ saved' \in [Callers -> ControlFlag]
    BY <1>1, <1>4 DEF TypeInv, TypeCalls
  <2>2. /\ pc'["client"] = "swapWait" => target["client"] \in Modules
        /\ pc'["client"] \in {"called", "idle", "swapWait", "unloadNext"}
        /\ pc'["master"] \in UnloadLabel => target'["master"] \in Modules
    BY <1>1, <1>2, <1>4, <1>5 DEF FrameOrdered, ClientLeft
  <2> QED
    BY <2>1, <2>2 DEF TypeCalls
<1>12. LoadFirst' /\ UnloadLast' /\ HandlerLast'
  BY <1>2, <1>3, <1>5 DEF LoadFirst, UnloadLast, HandlerLast, ClientLeft
<1>13. TypeBool'
  BY <1>2, Zenon DEF TypeBool
<1>14. Quietly
  <2>1. shutdownRequested => shutdownRequested'
    BY <1>2, Zenon
  <2>2. \A t \in Threads : pc'[t] \in {"exec", "unborn"} => pc'[t] = pc[t]
    BY <1>5, <1>6 DEF ClientLeft
  <2> QED
    BY <1>2, <2>1, <2>2 DEF Quietly
<1> QED
  BY <1>7, <1>8, <1>9, <1>10, <1>11, <1>12, <1>13, <1>14, QuietlyKeeps DEF TypeInv

(* The types and the invariant of the statuses are kept by every step.     *)
LEMMA InlineTypes ==
    ASSUME TypeInv, TypeBool, StatusInv, CallsInv, InlineNext, ~crashed'
    PROVE  TypeInv' /\ TypeBool' /\ StatusInv'
<1>1. CASE Next
  BY <1>1, TypesStep, StatusSteps
<1>2. CASE Alive /\ Calling
  BY <1>2, CallTypes DEF Alive
<1>3. CASE Alive /\ Return
  BY <1>3, ReturnTypes
<1> QED
  BY <1>1, <1>2, <1>3, InlineCases

------------------------------------------------------------------------------
(* The quit() of the client, from its startup sync on.                     *)
Over == /\ quitting["client"] /\ pc["client"] # "notify"
        /\ ~(pc["client"] = "called" /\ pc["master"] \in {"startup", "startSync"})

(* Where the two are while the client quits: the controller no longer      *)
(* starts rounds, the client no longer loads.                              *)
LEMMA OverPc ==
    ASSUME TypeInv, CallsInv, Over
    PROVE  /\ pc["master"] \in {"reset", "head", "exit", "done"} /\ flag = "QUIT" /\ ~Stopping /\ ~Nested
           /\ \/ pc["client"] = "called"
              \/ pc["client"] \in {"delete", "end"} \union QuitLabel /\ pc["master"] = "done"
<1>1. quitting["client"] /\ pc["client"] # "notify" /\ flag = "QUIT" /\ ~Stopping
  BY DEF Over, CallsInv, QuitKept, StopPc
<1>2. CASE pc["client"] = "called"
  <2>1. Len(frames) = 1 /\ pc["master"] \in {"startup", "startSync", "reset", "head", "exit", "done"}
    BY <1>1, <1>2 DEF CallsInv, QuitPc
  <2>2. pc["master"] \notin {"startup", "startSync"}
    BY <1>2 DEF Over
  <2> QED
    BY <1>1, <1>2, <2>1, <2>2 DEF Nested
<1>3. CASE pc["client"] # "called"
  <2>1. pc["client"] \in {"delete", "end"} \union QuitLabel
    BY <1>1, <1>3 DEF CallsInv, QuitPc
  <2>2. frames = <<>> /\ pc["master"] = "done"
    BY <1>3, <2>1 DEF CallsInv, CalledPc, TypeInv, UnloadLast
  <2> QED
    BY <1>1, <2>1, <2>2 DEF Nested
<1> QED
  BY <1>2, <1>3

(* It begins when the wait for the pools ends (control.cc:45), and has no  *)
(* end.                                                                    *)
OverBegins == /\ ~Over /\ Over' /\ pc["master"] = "startSync" /\ pc'["master"] = "reset"
              /\ MasterWait /\ activePools = 0 /\ pc["client"] = "called"

(* Only the end of the startup sync begins it, and nothing ends it, up to  *)
(* the shutdown round.                                                     *)
LEMMA OverSteps ==
    ASSUME TypeInv, TypeBool, CallsInv, ~ShutdownReached, InlineNext, ~crashed'
    PROVE  (Over' <=> Over) \/ OverBegins
<1>1. /\ quitting["client"] => pc["client"] \in {"notify", "called", "delete", "end"} \union QuitLabel
      /\ pc["client"] \in {"delete", "end"} \union QuitLabel => quitting["client"]
      /\ quitting["client"] /\ pc["client"] = "called" =>
             Len(frames) = 1 /\ pc["master"] \in {"startup", "startSync", "reset", "head", "exit", "done"}
      /\ flag = "QUIT" <=> quitting["client"]
      /\ pc["client"] = "called" <=> frames # <<>>
      /\ frames = <<>> => pc["master"] \in {"unborn", "done"}
  BY DEF CallsInv, QuitPc, QuitKept, CalledPc
<1>2. ASSUME NEW p \in Pools, PoolStep(p) PROVE Over' <=> Over
  <2>1. ASSUME Pool(p) PROVE Over' <=> Over
    BY <2>1, PoolElsewhere DEF Elsewhere, Over
  <2>2. ASSUME Sleep(p) PROVE Over' <=> Over
    BY <2>2 DEF Sleep, Over, callVars
  <2> QED
    BY <1>2, <2>1, <2>2 DEF PoolStep
<1>3. ASSUME NEW t \in Threads, Wakeup(t) \/ Sleep(t) PROVE Over' <=> Over
  BY <1>3 DEF Sleep, Wakeup, Over, callVars
<1>4. ASSUME User PROVE ~Over /\ ~Over'
  <2>1. pc["client"] = "idle" /\ ~quitting["client"]
    BY <1>1, <1>4 DEF User, Command, Send, HotSwap
  <2>2. ASSUME NEW command \in Commands, Command(command) PROVE pc'["client"] = "notify"
    BY <2>2 DEF Command, Send, TypeInv, TypePc
  <2>3. ASSUME NEW m \in Swappable, HotSwap(m) PROVE quitting' = quitting
    BY <2>3 DEF HotSwap
  <2> QED
    BY <1>4, <2>1, <2>2, <2>3 DEF User, Over
<1>5. ASSUME InlineClient PROVE Over' <=> Over
  <2> USE ConstType DEF TypeInv, TypePc, Over, callVars
  <2>1. ASSUME LoadIntoPool \/ CountPool \/ PushFirst PROVE Over' <=> Over
    BY <1>1, <2>1 DEF LoadIntoPool, CountPool, PushFirst
  <2>2. ASSUME LoadNewPool PROVE Over' <=> Over
    BY <1>1, <2>2 DEF LoadNewPool
  <2>3. ASSUME WhileActive("client", "swapWait") \/ StartSwap \/ SwapPause \/ EndSwap PROVE Over' <=> Over
    BY <1>1, <2>3 DEF WhileActive, StartSwap, OnceInactive, SwapPause, EndSwap
  <2>4. ASSUME UnloadNext("client") \/ AllUnloaded("client") \/ PopUnloaded("client") \/ Delete
        PROVE  Over' <=> Over
    BY <1>1, <2>4 DEF UnloadNext, AllUnloaded, PopUnloaded, Delete
  <2>5. ASSUME Unload("client") \/ Stop("client") \/ WhileActive("client", "inactive")
        PROVE  Over' <=> Over
    BY <1>1, <2>5 DEF Unload, Stop, WhileActive
  <2>6. ASSUME RemoveFromPool("client") \/ Restore("client") \/ Free("client") PROVE Over' <=> Over
    BY <1>1, <2>6 DEF RemoveFromPool, OnceInactive, Restore, Notify, Free
  <2> HIDE DEF Over, TypeInv
  <2> QED
    BY <1>5, <2>1, <2>2, <2>3, <2>4, <2>5, <2>6 DEF InlineClient
<1>6. ASSUME InlineMaster, frames' = frames PROVE (Over' <=> Over) \/ OverBegins
  <2>1. CallsInv'
    BY <1>6, MasterCalls
  <2>2. pc["master"] \notin {"unborn", "done"} /\ quitting' = quitting
    BY <1>1, <1>6 DEF InlineMaster, Startup, MasterWait, Reset, MasterHead, DispatchIdle, DispatchRound, Check,
       CheckDone, ContinueCheck, Arm, Launch, Pass, Skip, StartExecute, EndExecute, PassDone, StepTest,
       StepWrite, MasterTail, MasterExit, Handler, Unload, StopPause, Stop, WhileActive, RemoveFromPool,
       OnceInactive, Restore, Free, Resume, CallsInv, CalledPc, callVars
  <2>3. pc["client"] = "called" /\ frames # <<>>
    BY <1>1, <2>2
  <2>4. pc'["client"] = "called"
    BY <1>6, <2>1, <2>3 DEF CallsInv, CalledPc
  <2>5. CASE ~quitting["client"]
    BY <2>2, <2>5 DEF Over
  <2>6. CASE quitting["client"]
    <3>1. pc["master"] \in {"startup", "startSync", "reset", "head", "exit"}
      BY <1>1, <2>2, <2>3, <2>6
    <3>2. Startup \/ MasterWait \/ Reset \/ MasterHead \/ MasterExit
      BY <1>6, <3>1 DEF InlineMaster, DispatchIdle, DispatchRound, Check,
         CheckDone, ContinueCheck, Arm, Launch, Pass, Skip, StartExecute, EndExecute, PassDone, StepTest,
         StepWrite, MasterTail, Handler, Unload, StopPause, Stop, WhileActive, RemoveFromPool,
         OnceInactive, Restore, Free, Resume
    <3> USE DEF TypeInv, TypePc
    <3>3. ASSUME Startup PROVE ~Over /\ ~Over'
      BY <2>4, <3>3 DEF Startup, Notify, Over
    <3>4. ASSUME MasterWait PROVE (Over' <=> Over) \/ OverBegins
      <4>1. pc["master"] = "startSync" /\ Enqueue("master", activePools = 0, "reset")
        BY <3>1, <3>4 DEF MasterWait
      <4>2. CASE activePools = 0
        BY <2>2, <2>3, <2>4, <2>6, <3>4, <4>1, <4>2 DEF Enqueue, Over, OverBegins
      <4>3. CASE activePools # 0
        BY <2>2, <2>3, <4>1, <4>3 DEF Enqueue, Over
      <4> QED
        BY <4>2, <4>3
    <3>5. ASSUME Reset \/ MasterHead \/ MasterExit PROVE Over' /\ Over
      BY <2>2, <2>3, <2>4, <2>6, <3>5 DEF Reset, MasterHead, MasterExit, Over
    <3> QED
      BY <3>2, <3>3, <3>4, <3>5
  <2> QED
    BY <2>5, <2>6
<1>7. ASSUME Calling PROVE Over' <=> Over
  <2>1. \E caller \in Callers, label \in Label :
            Calls(caller, label) /\ pc["client"] \in ClientMay \union {"called"}
    <3>1. ~crashed
      BY InlineCases DEF Alive
    <3>2. frames # <<>> => pc["client"] = "called"
      BY <1>1
    <3>3. ClientLeft \subseteq Label /\ {"stop", "unloaded"} \subseteq Label
      BY DEF ClientLeft
    <3> HIDE DEF Label
    <3> QED
      BY <1>7, <3>1, <3>2, <3>3, CallCases DEF Calling
  <2>2. pc'["client"] = "called" /\ pc'["master"] = "startup"
    BY <2>1, ConstType DEF Calls, TypeInv, TypePc
  <2>3. ~Over'
    BY <2>2 DEF Over
  <2>4. ~Over
    <3>1. CASE pc["client"] = "called"
      BY <1>1, <1>7, <3>1 DEF Calling, Start, ClientCommand, InnerCommand, Over
    <3>2. CASE pc["client"] # "called"
      BY <1>1, <2>1, <3>2 DEF Over, ClientMay
    <3> QED
      BY <3>1, <3>2
  <2> QED
    BY <2>3, <2>4
<1>8. ASSUME Return PROVE Over' <=> Over
  <2>1. CASE ~quitting["client"]
    BY <1>8, <2>1 DEF Return, Over, callVars
  <2>2. CASE quitting["client"]
    <3>1. Over
      BY <1>8, <2>2 DEF Return, Over
    <3>2. /\ pc'["client"] = "unloadNext" /\ quitting' = quitting
      BY <1>8, <2>2, ReturnCases DEF FrameOrdered, ReturnCalls, TypeInv, TypePc
    <3> QED
      BY <2>2, <3>1, <3>2 DEF Over
  <2> QED
    BY <2>1, <2>2
<1> QED
  BY <1>2, <1>3, <1>4, <1>5, <1>6, <1>7, <1>8 DEF InlineNext, InlineStep, InlinePool, Calling

------------------------------------------------------------------------------
(* A module that is being unloaded is DONE, in every call; a module whose  *)
(* flag is RUN is loaded, until the client quits.                          *)
FramesDone == \A i \in 1 .. Len(frames) : frames[i].caller = "master" => status[frames[i].target] = "DONE"
TargetDone == pc["master"] \in UnloadLabel =>
    status[target["master"]] = "DONE" /\ unchecked \ {target["master"]} \subseteq loaded
UncheckedLoaded == pc["master"] = "check" => unchecked \subseteq loaded
RunsLoaded == ~Over => \A m \in Modules : mflag[m] = "RUN" => m \in loaded

DoneInv == FramesDone /\ TargetDone /\ UncheckedLoaded /\ RunsLoaded

(* The types and all that has been established so far.                     *)
Typed == TypeInv /\ TypeBool /\ StatusInv /\ CallsInv

(* What most steps do: nothing, as far as these are concerned.             *)
DoneKept ==
    /\ \A m \in Modules : status[m] = "DONE" => status'[m] = "DONE"
    /\ \A m \in Modules : mflag'[m] = "RUN" => mflag[m] = "RUN"
    /\ pc'["master"] \in UnloadLabel => pc["master"] \in UnloadLabel
    /\ pc'["master"] = "check" => pc["master"] = "check"
    /\ target'["master"] = target["master"] /\ UNCHANGED <<unchecked, loaded>>

(* The modules of the suspended calls stay DONE with the statuses.         *)
LEMMA FramesDoneKept ==
    ASSUME FramesOrdered, FramesDone, frames' = frames,
           \A m \in Modules : status[m] = "DONE" => status'[m] = "DONE"
    PROVE  FramesDone'
  BY DEF FramesDone, FramesOrdered, FrameOrdered

(* Such a step keeps the invariant.                                        *)
LEMMA DoneKeeps ==
    ASSUME TypeInv, CallsInv, DoneInv, DoneKept, frames' = frames, Over => Over'
    PROVE  DoneInv'
<1>1. FramesDone'
  BY FramesDoneKept DEF DoneInv, DoneKept, CallsInv
<1>2. TargetDone'
  BY DEF DoneInv, DoneKept, TargetDone, TypeInv, TypeCalls
<1>3. UncheckedLoaded' /\ RunsLoaded'
  BY DEF DoneInv, DoneKept, UncheckedLoaded, RunsLoaded
<1> QED
  BY <1>1, <1>2, <1>3 DEF DoneInv

(* Whoever ends an execution had a module whose flag was RUN.              *)
LEMMA PassDoneKept ==
    ASSUME TypeInv, StatusInv, NEW t \in Threads, Pass(t) PROVE DoneKept
<1> USE ConstType DEF TypeInv, TypePc, DoneKept, moduleVars, callVars
<1>1. ASSUME Skip(t) \/ StartExecute(t) PROVE DoneKept
  BY <1>1 DEF Skip, StartExecute
<1>2. ASSUME EndExecute(t) PROVE DoneKept
  <2>1. /\ Head(iter[t]) \in Modules /\ status[Head(iter[t])] # "DONE"
    BY <1>2, OwnHead DEF EndExecute, TypePools, StatusInv, ExecRun, RunHeeded, Heeded
  <2>2. PICK s \in Returns[Head(iter[t])] : status' = [status EXCEPT ![Head(iter[t])] = s]
    BY <1>2 DEF EndExecute
  <2>3. \A m \in Modules : status[m] = "DONE" => status'[m] = "DONE"
    BY <2>1, <2>2 DEF TypeModules
  <2>4. mflag' = [mflag EXCEPT ![Head(iter[t])] = "WAIT"] /\ pc' = [pc EXCEPT ![t] = "run"]
        /\ UNCHANGED <<unchecked, loaded, target>>
    BY <1>2 DEF EndExecute
  <2>5. \A m \in Modules : mflag'[m] = "RUN" => mflag[m] = "RUN"
    BY <2>1, <2>4 DEF TypeModules
  <2> QED
    BY <2>3, <2>4, <2>5
<1> QED
  BY <1>1, <1>2 DEF Pass

(* A pool executes only modules that are not DONE.                         *)
LEMMA PoolDone ==
    ASSUME TypeInv, StatusInv, NEW p \in Pools, Pool(p) PROVE DoneKept
<1>1. CASE Pass(p)
  BY <1>1, PassDoneKept
<1>2. CASE ~Pass(p)
  <2>1. UNCHANGED <<mflag, status>>
    BY <1>2 DEF Pool, Attach, PoolHead, PassDone, PoolFinish, PoolFinishWrite, PoolSub, PoolWait, PoolErase,
       moduleVars
  <2> QED
    BY <2>1, PoolElsewhere DEF Elsewhere, DoneKept
<1> QED
  BY <1>1, <1>2

(* Outside of the calls the controller does not move.                      *)
LEMMA ClientAside ==
    ASSUME TypeInv, CallsInv, InlineClient \/ User
    PROVE  frames = <<>> /\ pc["master"] \in {"unborn", "done"} /\ pc'["master"] = pc["master"]
<1>1. pc["client"] # "called"
  BY DEF InlineClient, LoadIntoPool, LoadNewPool, CountPool, PushFirst, WhileActive, StartSwap, OnceInactive,
     SwapPause, EndSwap, UnloadNext, AllUnloaded, Unload, Stop, RemoveFromPool, Restore, Free, PopUnloaded,
     Delete, User, Command, Send, HotSwap
<1>2. frames = <<>> /\ pc["master"] \in {"unborn", "done"}
  BY <1>1 DEF CallsInv, CalledPc
<1> USE ConstType DEF TypeInv, TypePc
<1>3. CASE LoadNewPool
  <2>1. todo # <<>> /\ todo \in Seq(Modules) /\ PoolName[Head(todo)] \in Threads \ {"master"}
    BY <1>3 DEF LoadNewPool, TypeStack, TypePools
  <2> QED
    BY <1>2, <1>3, <2>1 DEF LoadNewPool
<1>4. CASE LoadIntoPool \/ CountPool \/ PushFirst
  BY <1>2, <1>4 DEF LoadIntoPool, CountPool, PushFirst
<1>5. CASE WhileActive("client", "swapWait") \/ StartSwap \/ SwapPause \/ EndSwap
  BY <1>2, <1>5 DEF WhileActive, StartSwap, OnceInactive, SwapPause, EndSwap
<1>6. CASE UnloadNext("client") \/ AllUnloaded("client")
  BY <1>2, <1>6 DEF UnloadNext, AllUnloaded
<1>7. CASE Unload("client") \/ Stop("client") \/ WhileActive("client", "inactive")
  BY <1>2, <1>7 DEF Unload, Stop, WhileActive
<1>8. CASE RemoveFromPool("client") \/ Restore("client") \/ Free("client")
           \/ PopUnloaded("client") \/ Delete
  BY <1>2, <1>8 DEF RemoveFromPool, OnceInactive, Restore, Notify, Free, PopUnloaded, Delete
<1>9. CASE User
  BY <1>2, <1>9 DEF User, Command, Send, HotSwap
<1> QED
  BY <1>3, <1>4, <1>5, <1>6, <1>7, <1>8, <1>9 DEF InlineClient

(* There only what is loaded matters, and to whom.                         *)
LEMMA ClientDone ==
    ASSUME Typed, DoneInv, InlineClient \/ User, frames' = frames, Over => Over'
    PROVE  DoneInv'
<1>1. frames = <<>> /\ pc["master"] \in {"unborn", "done"} /\ pc'["master"] = pc["master"]
  BY ClientAside DEF Typed
<1>2. FramesDone' /\ TargetDone' /\ UncheckedLoaded'
  BY <1>1 DEF FramesDone, TargetDone, UncheckedLoaded
<1>3. CASE LoadIntoPool \/ LoadNewPool
  <2>1. PICK m \in Modules : Register(m)
    BY <1>3 DEF LoadIntoPool, LoadNewPool, Typed, TypeInv, TypeStack
  <2>2. \A n \in Modules : mflag[n] # "RUN"
    BY <1>1, <1>3 DEF LoadIntoPool, LoadNewPool, Typed, StatusInv, IdleUnborn, TypeInv, LoadFirst
  <2>3. \A n \in Modules : mflag'[n] # "RUN"
    BY <2>1, <2>2 DEF Register, Typed, TypeInv, TypeModules
  <2> QED
    BY <1>2, <2>3 DEF DoneInv, RunsLoaded
<1>4. CASE Free("client")
  <2>1. Over
    BY <1>4 DEF Free, Typed, CallsInv, QuitPc, Over
  <2> QED
    BY <1>2, <2>1 DEF DoneInv, RunsLoaded
<1>5. CASE User \/ ~(LoadIntoPool \/ LoadNewPool \/ Free("client"))
  <2>1. UNCHANGED <<mflag, loaded>>
    BY <1>5 DEF InlineClient, CountPool, PushFirst, WhileActive, StartSwap, OnceInactive,
       SwapPause, EndSwap, UnloadNext, AllUnloaded, Unload, Stop, RemoveFromPool, Restore, PopUnloaded,
       Delete, User, Command, Send, HotSwap, moduleVars
  <2> QED
    BY <1>2, <2>1 DEF DoneInv, RunsLoaded
<1> QED
  BY <1>3, <1>4, <1>5

(* The controller: it looks at the modules that are loaded.                *)
LEMMA MasterDone ==
    ASSUME Typed, DoneInv, InlineMaster, frames' = frames, ~ShutdownReached, Over => Over', ~crashed'
    PROVE  DoneInv'
<1>1. quitting["master"] = FALSE /\ joinable = FALSE
  BY DEF Typed, CallsInv, CalledPc
<1> USE DEF TypeInv, TypePc, DoneKept, moduleVars, callVars
<1>2. ASSUME Startup \/ MasterWait \/ Reset \/ MasterHead PROVE DoneKept
  <2>1. ASSUME Startup \/ Reset \/ MasterHead PROVE DoneKept
    BY <2>1 DEF Typed, Startup, Notify, Reset, MasterHead
  <2>2. ASSUME MasterWait PROVE DoneKept
    BY <2>2 DEF Typed, MasterWait, Enqueue
  <2> QED
    BY <1>2, <2>1, <2>2
<1>3. ASSUME DispatchIdle \/ Arm \/ Launch PROVE DoneKept
  BY <1>3 DEF Typed, DispatchIdle, Arm, Launch, Notify
<1>4. ASSUME PassDone("master", "step") \/ StepTest \/ StepWrite PROVE DoneKept
  BY <1>4 DEF Typed, PassDone, StepTest, StepWrite
<1>5. ASSUME MasterTail \/ MasterExit PROVE DoneKept
  BY <1>5 DEF Typed, MasterTail, MasterExit
<1>6. ~Handler
  BY DEF Handler, Typed, CallsInv, CalledPc
<1>7. ASSUME Unload("master") \/ StopPause("master") \/ Stop("master") PROVE DoneKept
  BY <1>7 DEF Typed, Unload, StopPause, Stop
<1>8. ASSUME WhileActive("master", "inactive") \/ RemoveFromPool("master") PROVE DoneKept
  BY <1>8 DEF Typed, WhileActive, RemoveFromPool, OnceInactive
<1>9. ASSUME Restore("master") \/ Resume("master") PROVE DoneKept
  BY <1>9 DEF Typed, Restore, Notify, Resume
<1>10. ASSUME DoneKept PROVE DoneInv'
  BY <1>10, DoneKeeps DEF Typed
<1> DEFINE Same == \A m \in Modules : status[m] = "DONE" => status'[m] = "DONE"
<1>11. Same => FramesDone'
  BY FramesDoneKept DEF Typed, CallsInv, DoneInv
<1>12. ASSUME DispatchRound PROVE DoneInv'
  <2>1. /\ pc'["master"] = "check" /\ unchecked' = loaded /\ UNCHANGED <<loaded, mflag, status>>
    BY <1>12 DEF Typed, DispatchRound
  <2> QED
    BY <1>11, <2>1 DEF DoneInv, TargetDone, UncheckedLoaded, RunsLoaded
<1>13. ASSUME NEW m \in unchecked, Check(m) PROVE DoneInv'
  <2>1. /\ pc["master"] = "check" /\ pc' = pc /\ unchecked' = unchecked \ {m} /\ UNCHANGED <<loaded, status>>
        /\ mflag' = [mflag EXCEPT ![m] = "RUN"]
    BY <1>13 DEF Check
  <2>2. \A n \in Modules : mflag'[n] = "RUN" => n = m \/ mflag[n] = "RUN"
    BY <2>1 DEF Typed, TypeModules
  <2> QED
    BY <1>11, <2>1, <2>2 DEF DoneInv, TargetDone, UncheckedLoaded, RunsLoaded
<1>14. ASSUME NEW m \in unchecked, CheckDone(m) PROVE DoneInv'
  <2>1. /\ pc["master"] = "check" /\ pc'["master"] = "unload" /\ target'["master"] = m /\ status[m] = "DONE"
        /\ UNCHANGED <<loaded, status, mflag, unchecked>>
    BY <1>14 DEF CheckDone, Typed, TypeCalls
  <2> QED
    BY <1>11, <2>1 DEF DoneInv, TargetDone, UncheckedLoaded, RunsLoaded
<1>15. ASSUME ContinueCheck PROVE DoneInv'
  <2>1. /\ pc["master"] = "unloaded" /\ pc'["master"] = "check"
        /\ unchecked' = unchecked \ {target["master"]} /\ UNCHANGED <<loaded, status, mflag>>
    BY <1>15 DEF ContinueCheck, Typed
  <2> QED
    BY <1>11, <2>1 DEF DoneInv, TargetDone, UncheckedLoaded, RunsLoaded
<1>16. ASSUME Free("master") PROVE DoneInv'
  <2>1. /\ pc["master"] = "free" /\ pc'["master"] \in UnloadLabel /\ loaded' = loaded \ {target["master"]}
        /\ UNCHANGED <<unchecked, status, mflag, target>>
    BY <1>16 DEF Free, Typed
  <2>2. status[target["master"]] = "DONE" /\ unchecked \ {target["master"]} \subseteq loaded
    BY <2>1 DEF DoneInv, TargetDone
  <2>3. TargetDone' /\ UncheckedLoaded'
    BY <2>1, <2>2 DEF TargetDone, UncheckedLoaded, Typed
  <2>4. mflag[target["master"]] # "RUN"
    BY <2>1, <2>2 DEF Typed, StatusInv, RunHeeded, Heeded, TypeCalls
  <2> QED
    BY <1>11, <2>1, <2>3, <2>4 DEF DoneInv, RunsLoaded
<1>17. ASSUME Pass("master") PROVE DoneKept
  BY <1>17, PassDoneKept DEF Typed
<1> HIDE DEF TypeInv, DoneKept
<1> QED
  BY <1>2, <1>3, <1>4, <1>5, <1>6, <1>7, <1>8, <1>9, <1>10, <1>12, <1>13, <1>14, <1>15, <1>16, <1>17
     DEF InlineMaster

(* A call suspends the unloading of a module that is DONE.                 *)
LEMMA CallDone ==
    ASSUME Typed, DoneInv, Calling, ~crashed, ~crashed', Over => Over' PROVE DoneInv'
<1>1. PICK caller \in Callers, label \in Label :
          /\ Calls(caller, label)
          /\ caller = "master" => pc["master"] \in {"stopNotify", "resumeNotify"}
  <2>1. ClientLeft \subseteq Label /\ {"stop", "unloaded"} \subseteq Label
    BY DEF ClientLeft
  <2> HIDE DEF Label
  <2> QED
    BY <2>1, CallCases DEF Calling, Typed
<1>2. /\ frames' = <<Frame(caller, label)>> \o frames /\ pc'["master"] = "startup"
      /\ UNCHANGED <<loaded, mflag, status>>
  BY <1>1, ConstType DEF Calls, moduleVars, Typed, TypeInv, TypePc
<1>3. FramesDone'
  <2> DEFINE f == Frame(caller, label)
  <2>1. /\ f \in FrameSet /\ f.caller = caller /\ f.target = target["master"]
    BY FrameTyped DEF Typed
  <2>2. f.caller = "master" => status[f.target] = "DONE"
    BY <1>1, <2>1 DEF DoneInv, TargetDone
  <2> HIDE DEF f
  <2>3. frames \in Seq(FrameSet)
    BY DEF Typed, CallsInv, FramesOrdered
  <2>4. /\ frames' = <<f>> \o frames
    BY <1>2 DEF f
  <2>5. /\ Len(frames') = Len(frames) + 1 /\ frames'[1] = f /\ Len(frames) \in Nat
        /\ \A i \in 1 .. Len(frames) : frames'[i + 1] = frames[i]
    BY <2>1, <2>3, <2>4, Pushed
  <2>6. ASSUME NEW i \in 1 .. Len(frames'), frames'[i].caller = "master"
        PROVE  status[frames'[i].target] = "DONE"
    <3>1. CASE i = 1
      BY <2>2, <2>5, <2>6, <3>1
    <3>2. CASE i # 1
      <4>1. i - 1 \in 1 .. Len(frames) /\ frames'[i] = frames[i - 1]
        <5>1. i - 1 \in 1 .. Len(frames) /\ (i - 1) + 1 = i
          BY <2>5, <3>2
        <5> QED
          BY <2>5, <5>1
      <4> QED
        BY <2>6, <4>1 DEF DoneInv, FramesDone
    <3> QED
      BY <3>1, <3>2
  <2> QED
    BY <1>2, <2>6 DEF FramesDone
<1> QED
  BY <1>2, <1>3 DEF DoneInv, TargetDone, UncheckedLoaded, RunsLoaded

(* A return goes on with the module of its frame, and with the unchecked   *)
(* modules that are loaded.                                                *)
LEMMA ReturnDone ==
    ASSUME Typed, DoneInv, Return, Over => Over' PROVE DoneInv'
<1>1. PICK f \in FrameSet :
             /\ ReturnCalls(f) /\ FrameOrdered(f, 1)
             /\ \/ /\ f.caller = "client" /\ Len(frames) = 1 /\ frames' = <<>>
                   /\ pc' = [pc EXCEPT !["client"] = f.label]
                   /\ UNCHANGED <<unchecked, target, state, saved>>
                \/ /\ f.caller = "master" /\ Len(frames) > 1 /\ frames' # <<>> /\ ~quitting["client"]
                   /\ pc' = [pc EXCEPT !["master"] = f.label]
                   /\ unchecked' = f.unchecked \intersect loaded
                   /\ target' = [target EXCEPT !["master"] = f.target]
                   /\ state' = [state EXCEPT !["master"] = f.state]
                   /\ saved' = [saved EXCEPT !["master"] = f.saved]
  BY ReturnCases DEF Typed
<1>2. /\ frames # <<>> /\ f = Head(frames) /\ frames' = Tail(frames) /\ pc["master"] = "done"
      /\ UNCHANGED <<loaded, mflag, status>>
  BY <1>1 DEF ReturnCalls
<1>3. /\ Len(frames') = Len(frames) - 1 /\ Len(frames) \in Nat \ {0} /\ f = frames[1]
      /\ \A i \in 1 .. Len(frames) - 1 : frames'[i] = frames[i + 1]
  BY <1>2, Popped DEF Typed, CallsInv, FramesOrdered
<1>4. FramesDone'
  <2>1. ASSUME NEW i \in 1 .. Len(frames') PROVE i + 1 \in 1 .. Len(frames) /\ frames'[i] = frames[i + 1]
    BY <1>3
  <2> QED
    BY <1>2, <2>1 DEF DoneInv, FramesDone
<1>5. RunsLoaded'
  BY <1>2 DEF DoneInv, RunsLoaded
<1>6. CASE f.caller = "client"
  <2>1. pc'["master"] = "done"
    BY <1>1, <1>2, <1>6 DEF Typed, TypeInv, TypePc
  <2> QED
    BY <1>4, <1>5, <2>1 DEF DoneInv, TargetDone, UncheckedLoaded
<1>7. CASE f.caller = "master"
  <2>1. /\ pc'["master"] \in {"stop", "unloaded"} /\ target'["master"] = f.target /\ unchecked' \subseteq loaded
    BY <1>1, <1>7 DEF Typed, TypeInv, TypePc, TypeCalls, FrameOrdered
  <2>2. status[f.target] = "DONE"
    BY <1>3, <1>7 DEF DoneInv, FramesDone
  <2> QED
    BY <1>2, <1>4, <1>5, <2>1, <2>2 DEF DoneInv, TargetDone, UncheckedLoaded
<1> QED
  BY <1>6, <1>7 DEF FrameSet

(* The cases of a step.                                                    *)
LEMMA StepCases ==
    ASSUME InlineNext
    PROVE  /\ ~crashed
           /\ \/ \E p \in Pools : Pool(p) /\ frames' = frames
              \/ \E t \in Threads : (Sleep(t) \/ Wakeup(t)) /\ frames' = frames
              \/ (InlineClient \/ User) /\ frames' = frames
              \/ InlineMaster /\ frames' = frames
              \/ Calling
              \/ Return
<1>1. ~crashed
  BY InlineCases DEF Alive
<1> QED
  BY <1>1 DEF InlineNext, InlineStep, InlinePool, PoolStep, Calling

(* Every step keeps the invariant.                                         *)
LEMMA DoneSteps ==
    ASSUME Typed, DoneInv, ~ShutdownReached, InlineNext, ~crashed' PROVE DoneInv'
<1>1. Over => Over'
  BY OverSteps DEF Typed, OverBegins
<1>2. ASSUME NEW t \in Threads, Sleep(t) \/ Wakeup(t) PROVE DoneKept
  BY <1>2 DEF Sleep, Wakeup, DoneKept, moduleVars, callVars
<1> QED
  BY <1>1, <1>2, StepCases, PoolDone, DoneKeeps, ClientDone, MasterDone, CallDone, ReturnDone DEF Typed

------------------------------------------------------------------------------
(* The steps of a pool, and what else they change.                         *)
Turn(p, from, to) == pc[p] = from /\ pc'[p] = to
FlagKept(p) == pflag'[p] = pflag[p] /\ activePools' = activePools
Kept(p) == FlagKept(p) /\ pools' = pools /\ mflag' = mflag
TailLeft(p) == iter[p] # <<>> /\ iter'[p] = Tail(iter[p])

Passes(p) ==
    \/ Turn(p, "run", "run") /\ Kept(p) /\ TailLeft(p) /\ mflag[Head(iter[p])] # "RUN"
    \/ Turn(p, "run", "exec") /\ Kept(p) /\ iter'[p] = iter[p]
    \/ /\ Turn(p, "exec", "run") /\ FlagKept(p) /\ pools' = pools /\ TailLeft(p)
       /\ mflag' = [mflag EXCEPT ![Head(iter[p])] = "WAIT"]
    \/ Turn(p, "run", "finish") /\ Kept(p) /\ iter[p] = <<>>
Lowers(p) ==
    \/ Turn(p, "finish", "finishWrite") /\ Kept(p)
    \/ Turn(p, "finish", "sub") /\ Kept(p) /\ pflag[p] = "QUIT"
    \/ /\ Turn(p, "finishWrite", "sub") /\ pflag'[p] = "WAIT"
       /\ activePools' = activePools /\ pools' = pools /\ mflag' = mflag
    \/ /\ Turn(p, "sub", "wait") /\ pflag'[p] = pflag[p]
       /\ activePools' = activePools - 1 /\ pools' = pools /\ mflag' = mflag
Begins(p) ==
    \/ Turn(p, "attach", "head") /\ Kept(p)
    \/ Turn(p, "wait", "wait") /\ Kept(p)
    \/ Turn(p, "wait", "head") /\ Kept(p) /\ pflag[p] # "WAIT"
    \/ Turn(p, "head", "run") /\ Kept(p) /\ iter'[p] = pmods[p]
    \/ Turn(p, "head", "erase") /\ Kept(p) /\ (pflag[p] = "QUIT" \/ pmods[p] = <<>>)
    \/ Turn(p, "erase", "done") /\ FlagKept(p) /\ pools' = pools \ {p} /\ mflag' = mflag

OthersKept(p) == /\ \A q \in Pools : q # p => /\ pc'[q] = pc[q] /\ pflag'[q] = pflag[q]
                                             /\ iter'[q] = iter[q]
                 /\ pmods' = pmods

(* A step of a pool is one of these.                                       *)
LEMMA PoolTurns ==
    ASSUME TypeInv, NEW p \in Pools, Pool(p)
    PROVE  OthersKept(p) /\ (Passes(p) \/ Lowers(p) \/ Begins(p))
<1> USE ConstType DEF TypeInv, TypePc, TypePools, OthersKept, Turn, FlagKept, Kept, poolVars, moduleVars
<1>1. CASE Attach(p)
  BY <1>1 DEF Attach, Begins
<1>2. CASE PoolHead(p)
  <2>1. /\ pc[p] = "head" /\ UNCHANGED <<activePools, pools, pflag, pmods, mflag>>
    BY <1>2 DEF PoolHead
  <2>2. CASE pflag[p] # "QUIT" /\ pmods[p] # <<>>
    BY <1>2, <2>1, <2>2 DEF PoolHead, Begins
  <2>3. CASE ~(pflag[p] # "QUIT" /\ pmods[p] # <<>>)
    BY <1>2, <2>1, <2>3 DEF PoolHead, Begins
  <2> QED
    BY <2>2, <2>3
<1>3. CASE Skip(p)
  BY <1>3 DEF Skip, Passes, TailLeft
<1>4. CASE StartExecute(p)
  BY <1>4 DEF StartExecute, Passes
<1>5. CASE EndExecute(p)
  BY <1>5 DEF EndExecute, Passes, TailLeft
<1>6. CASE PassDone(p, "finish")
  BY <1>6 DEF PassDone, Passes
<1>7. CASE PoolFinish(p)
  BY <1>7 DEF PoolFinish, Lowers
<1>8. CASE PoolFinishWrite(p) \/ PoolSub(p)
  BY <1>8 DEF PoolFinishWrite, PoolSub, Lowers
<1>9. CASE PoolWait(p)
  BY <1>9 DEF PoolWait, Enqueue, Begins
<1>10. CASE PoolErase(p)
  BY <1>10 DEF PoolErase, Begins
<1> HIDE DEF TypeInv, OthersKept
<1> QED
  BY <1>1, <1>2, <1>3, <1>4, <1>5, <1>6, <1>7, <1>8, <1>9, <1>10 DEF Pool, Pass

(* No pool comes to owe by a step of its own.                              *)
LEMMA PoolOwes ==
    ASSUME TypeInv, NEW p \in Pools, OthersKept(p), Passes(p) \/ Lowers(p) \/ Begins(p)
    PROVE  Owing' \subseteq Owing
<1>1. CASE Passes(p)
  BY <1>1 DEF OthersKept, Passes, Turn, Owing, Owes
<1>2. CASE Lowers(p)
  BY <1>2 DEF OthersKept, Lowers, Turn, Owing, Owes
<1>3. CASE Begins(p)
  BY <1>3 DEF OthersKept, Begins, Turn, Kept, FlagKept, Owing, Owes
<1> QED
  BY <1>1, <1>2, <1>3

------------------------------------------------------------------------------
(* When the pools are at rest: nobody will lower activePools until they    *)
(* are told to run again.  Two calls of the controller can both have told  *)
(* them so; from the wait of line 45 or 57 on they rest, and a module is   *)
(* stopped only then.                                                      *)
Idle == Owing = {}
IdleAt == pc["master"] \in {"reset", "dispatch", "stop", "inactive", "restore"} => Idle
NoneCounted == pc["master"] = "reset" => activePools = 0
SavedWaits == pc["master"] \in {"inactive", "restore"} /\ PoolName[target["master"]] \in Pools
                  => saved["master"] = "WAIT"
QuitAway == ~Over => \A p \in Pools : pflag[p] # "QUIT"
StopIdle == Stopping /\ pc["master"] = "done" => Idle
ExitQuits == pc["master"] = "exit" => quitting["client"]

RestInv == /\ Registered /\ IdleAt /\ NoneCounted /\ SavedWaits /\ QuitAway /\ StopIdle
           /\ ExitQuits

(* A pool that will lower activePools twice: it has been told to run again *)
(* before it has come to lower it.                                         *)
Twice == {p \in Pools : pc[p] = "sub" /\ pflag[p] # "WAIT"}

(* activePools covers what will be subtracted from it, and more by k.      *)
Cover(k) == activePools + Pending >= Cardinality(Owing) + Cardinality(Twice) + k

(* Nobody is left to execute the modules of a pool that has gone, because  *)
(* there are none.                                                         *)
Gone == \A p \in Pools :
    pc[p] \in {"unborn", "done"} \/ (pc[p] = "erase" /\ pc["master"] = "launch") => pmods[p] = <<>>

(* The pool is to come to the module.                                      *)
Awaits(p, m) == \/ pc[p] \in {"attach", "head", "erase"}
                \/ pc[p] \in {"wait", "sub"} /\ pflag[p] # "WAIT"
                \/ pc[p] \in {"run", "exec"} /\ Has(iter[p], m)
AllComing == \A p \in Pools, m \in Modules : Has(pmods[p], m) /\ mflag[m] = "RUN" => Awaits(p, m)

(* activePools is never too low, and once it is too high it stays so: then *)
(* the client's quit() never ends.  As long as it is exact, every module   *)
(* that is to run has a pool that is to come to it, unless the controller  *)
(* is at work on the modules.                                              *)
Exact == Gone /\ (Preparing \/ Nested \/ AllComing)
CoverInv == ~Over => Cover(0) /\ (Cover(1) \/ Exact)

(* A pool does not begin anything by itself: at rest it stays.             *)
LEMMA PoolRest ==
    ASSUME Typed, RestInv, NEW p \in Pools, Pool(p), frames' = frames, Over => Over'
    PROVE  RestInv'
<1>1. OthersKept(p) /\ (Passes(p) \/ Lowers(p) \/ Begins(p))
  BY PoolTurns DEF Typed
<1>2. Owing' \subseteq Owing /\ (Idle => Idle')
  BY <1>1, PoolOwes DEF Typed, Idle
<1>3. Elsewhere
  BY PoolElsewhere DEF Typed
<1>4. Stopping' <=> Stopping
  BY <1>3, FramesKept DEF Elsewhere, Typed, CallsInv
<1>5. IdleAt' /\ SavedWaits' /\ StopIdle'
  BY <1>2, <1>3, <1>4 DEF RestInv, IdleAt, SavedWaits, StopIdle, Elsewhere
<1>6. NoneCounted'
  <2>1. ASSUME Idle PROVE activePools' = activePools
    BY <1>1, <2>1 DEF Idle, Owing, Owes, Passes, Lowers, Begins, Turn, Kept, FlagKept
  <2> QED
    BY <1>3, <2>1 DEF RestInv, IdleAt, NoneCounted, Elsewhere
<1>7. Registered'
  <2>1. pc[p] \notin {"unborn", "done"}
    BY <1>1 DEF Passes, Lowers, Begins, Turn
  <2>2. CASE pools' = pools
    BY <1>1, <2>1, <2>2 DEF RestInv, Registered, OthersKept, Passes, Lowers, Begins, Turn, Typed, TypeInv, TypePools
  <2>3. CASE pools' # pools
    <3>1. Turn(p, "erase", "done") /\ pools' = pools \ {p}
      BY <1>1, <2>3 DEF Passes, Lowers, Begins, Kept
    <3> QED
      BY <1>1, <3>1 DEF RestInv, Registered, OthersKept, Turn
  <2> QED
    BY <2>2, <2>3
<1>8. QuitAway'
  <2>1. \A q \in Pools : pflag'[q] = "QUIT" => pflag[q] = "QUIT"
    BY <1>1 DEF OthersKept, Passes, Lowers, Begins, Kept, FlagKept
  <2> QED
    BY <2>1 DEF RestInv, QuitAway
<1>9. ExitQuits'
  BY <1>3 DEF RestInv, ExitQuits, Elsewhere
<1> QED
  BY <1>5, <1>6, <1>7, <1>8, <1>9 DEF RestInv

(* The two sets that are counted are finite.                               *)
LEMMA TwiceFinite == /\ IsFiniteSet(Twice) /\ Cardinality(Twice) \in Nat
                     /\ IsFiniteSet(Owing) /\ Cardinality(Owing) \in Nat
                     /\ IsFiniteSet(Twice') /\ Cardinality(Twice') \in Nat
                     /\ IsFiniteSet(Owing') /\ Cardinality(Owing') \in Nat
<1>1. ASSUME NEW S \in SUBSET Pools PROVE IsFiniteSet(S) /\ Cardinality(S) \in Nat
  BY ControlAssumption, FS_Subset, FS_CardinalityType
<1>2. Twice \subseteq Pools /\ Owing \subseteq Pools /\ Twice' \subseteq Pools /\ Owing' \subseteq Pools
  BY DEF Twice, Owing
<1> QED
  BY <1>1, <1>2

(* With activePools at zero the pools are at rest, and it is exact.        *)
LEMMA AtRest ==
    ASSUME TypeInv, CoverInv, ~Over, activePools = 0, pc["client"] # "count", pc["master"] # "launch"
    PROVE  Idle /\ Exact
<1>1. Pending = 0
  BY DEF Pending
<1>2. Cardinality(Owing) = 0 /\ ~Cover(1)
  BY <1>1, TwiceFinite DEF CoverInv, Cover
<1>3. Owing = {}
  BY <1>2, OwingFinite, FS_EmptySet
<1> QED
  BY <1>2, <1>3 DEF CoverInv, Idle

(* Outside of the calls the controller is not there.                       *)
LEMMA ClientRest ==
    ASSUME Typed, RestInv, InlineClient \/ User, frames' = frames, Over => Over'
    PROVE  RestInv'
<1>1. frames = <<>> /\ pc["master"] \in {"unborn", "done"} /\ pc'["master"] = pc["master"]
  BY ClientAside DEF Typed
<1>2. IdleAt' /\ NoneCounted' /\ SavedWaits' /\ StopIdle' /\ ExitQuits'
  BY <1>1 DEF IdleAt, NoneCounted, SavedWaits, StopIdle, Stopping, ExitQuits
<1>3. Registered /\ QuitAway
  BY DEF RestInv
<1>4. CASE LoadNewPool
  <2>1. PICK p \in Threads \ {"master"} : /\ pc' = [pc EXCEPT !["client"] = "count", ![p] = "attach"]
                                          /\ pools' = pools \union {p} /\ pflag' = [pflag EXCEPT ![p] = "WAIT"]
    <3>1. todo # <<>> /\ todo \in Seq(Modules) /\ PoolName[Head(todo)] \in Threads
      BY <1>4, ConstType DEF LoadNewPool, Typed, TypeInv, TypeStack
    <3> QED
      BY <1>4, <3>1 DEF LoadNewPool, Typed, TypeInv, TypePools
  <2>2. pc'[p] = "attach" /\ \A q \in Pools : q # p => pc'[q] = pc[q]
    BY <2>1, ConstType DEF Typed, TypeInv, TypePc
  <2>3. \A q \in Pools : pflag'[q] = (IF q = p THEN "WAIT" ELSE pflag[q])
    BY <2>1 DEF Typed, TypeInv, TypePools
  <2>4. Registered'
    <3>1. pools' = pools \union {p}
      BY <2>1
    <3>2. ASSUME NEW q \in Pools, q # p PROVE q \in pools' <=> pc'[q] \notin {"unborn", "done"}
      BY <1>3, <2>2, <3>1, <3>2 DEF Registered
    <3>3. p \in pools' /\ pc'[p] \notin {"unborn", "done"}
      BY <2>2, <3>1
    <3> QED
      BY <3>2, <3>3 DEF Registered
  <2>5. QuitAway'
    BY <1>3, <2>3 DEF QuitAway
  <2> QED
    BY <1>2, <2>4, <2>5 DEF RestInv
<1>5. CASE User \/ ~LoadNewPool
  <2>1. pools' = pools /\ \A q \in Pools : pc'[q] = pc[q]
    <3> USE ConstType DEF Typed, TypeInv, TypePc, poolVars
    <3>1. CASE LoadIntoPool \/ CountPool \/ PushFirst
      BY <3>1 DEF LoadIntoPool, CountPool, PushFirst
    <3>2. CASE WhileActive("client", "swapWait") \/ StartSwap \/ SwapPause \/ EndSwap
      BY <3>2 DEF WhileActive, StartSwap, OnceInactive, SwapPause, EndSwap
    <3>3. CASE UnloadNext("client") \/ AllUnloaded("client")
      BY <3>3 DEF UnloadNext, AllUnloaded
    <3>4. CASE Unload("client") \/ Stop("client") \/ WhileActive("client", "inactive")
      BY <3>4 DEF Unload, Stop, WhileActive
    <3>5. CASE RemoveFromPool("client") \/ Restore("client") \/ Free("client")
               \/ PopUnloaded("client") \/ Delete
      BY <3>5 DEF RemoveFromPool, OnceInactive, Restore, Notify, Free, PopUnloaded, Delete
    <3>6. CASE User
      BY <3>6 DEF User, Command, Send, HotSwap
    <3> QED
      BY <1>5, <3>1, <3>2, <3>3, <3>4, <3>5, <3>6 DEF InlineClient
  <2>2. pflag' = pflag \/ Over
    <3>1. CASE Stop("client") \/ Restore("client")
      <4>1. pc["client"] \in QuitLabel
        BY <3>1 DEF Stop, Restore
      <4> QED
        BY <4>1 DEF Typed, CallsInv, QuitPc, Over
    <3>2. CASE User \/ ~(Stop("client") \/ Restore("client"))
      BY <1>5, <3>2 DEF InlineClient, LoadIntoPool, CountPool, PushFirst, WhileActive, StartSwap, OnceInactive,
         SwapPause, EndSwap, UnloadNext, AllUnloaded, Unload, RemoveFromPool, Free, PopUnloaded,
         Delete, User, Command, Send, HotSwap, poolVars
    <3> QED
      BY <3>1, <3>2
  <2>3. Registered' /\ QuitAway'
    BY <1>3, <2>1, <2>2 DEF Registered, QuitAway
  <2> QED
    BY <1>2, <2>3 DEF RestInv
<1> QED
  BY <1>4, <1>5

(* What a step of the controller leaves as it is, where it does not rest.  *)
RestKept == /\ pools' = pools /\ activePools' = activePools
            /\ \A p \in Pools : pc'[p] = pc[p] /\ pflag'[p] = pflag[p]
            /\ pc'["client"] = pc["client"]
            /\ target'["master"] = target["master"]
            /\ pc["master"] \notin {"unborn", "done"}

(* Such a step keeps the pools at rest where they have to be.              *)
LEMMA RestKeeps ==
    ASSUME Typed, RestInv, RestKept, frames' = frames, Over => Over', CallsInv',
           pc'["master"] \in {"reset", "dispatch", "stop", "inactive", "restore"} => Idle,
           pc'["master"] = "reset" => activePools = 0,
           SavedWaits', ExitQuits',
           Stopping /\ pc'["master"] = "done" => Idle
    PROVE  RestInv'
<1>1. Owing' = Owing
  BY DEF RestKept, Owing, Owes
<1>2. Stopping' <=> Stopping
  BY DEF Stopping
<1>3. Registered' /\ QuitAway'
  BY DEF RestInv, RestKept, Registered, QuitAway
<1>4. IdleAt' /\ NoneCounted' /\ StopIdle'
  BY <1>1, <1>2 DEF RestKept, IdleAt, NoneCounted, StopIdle, Idle
<1> QED
  BY <1>3, <1>4 DEF RestInv

(* At rest the flag of a pool that is there is WAIT (control.cc:273).      *)
LEMMA AtWait ==
    ASSUME TypeInv, Registered, Idle, NEW p \in Pools, p \in pools
    PROVE  pc[p] = "wait" /\ pflag[p] = "WAIT"
  BY DEF TypeInv, TypePc, Registered, Idle, Owing, Owes

(* The controller needs the pools at rest only from the end of a wait for  *)
(* them on (control.cc:45, 57).                                            *)
LEMMA MasterRest ==
    ASSUME Typed, RestInv, CoverInv, InlineMaster, frames' = frames, ~ShutdownReached, Over => Over', ~crashed'
    PROVE  RestInv'
<1>1. quitting["master"] = FALSE /\ joinable = FALSE /\ CallsInv' /\ frames # <<>> /\ pc["client"] = "called"
  <2>1. pc["master"] \notin {"unborn", "done"}
    BY DEF InlineMaster, Startup, MasterWait, Reset, MasterHead, DispatchIdle, DispatchRound, Check,
       CheckDone, ContinueCheck, Arm, Launch, Pass, Skip, StartExecute, EndExecute, PassDone, StepTest,
       StepWrite, MasterTail, MasterExit, Handler, Unload, StopPause, Stop, WhileActive, RemoveFromPool,
       OnceInactive, Restore, Free, Resume
  <2> QED
    BY <2>1, MasterCalls DEF Typed, CallsInv, CalledPc
<1>2. /\ Stopping => pc["master"] \in StopLabel
      /\ flag = "QUIT" <=> quitting["client"]
      /\ pc["master"] \notin {"unloadNext", "handler", "handlerNotify"}
      /\ quitting["client"] => pc["master"] \in {"startup", "startSync", "reset", "head", "exit", "done"}
  BY <1>1 DEF Typed, CallsInv, StopPc, QuitKept, QuitPc, CalledPc
<1> DEFINE Calm == pc'["master"] \notin {"reset", "dispatch", "stop", "inactive", "restore", "exit", "done"}
<1>3. ASSUME RestKept, Calm PROVE RestInv'
  <2>1. SavedWaits' /\ ExitQuits'
    BY <1>3 DEF SavedWaits, ExitQuits
  <2> QED
    BY <1>1, <1>3, <2>1, RestKeeps
<1> USE ConstType DEF TypeInv, TypePc, TypePools, RestKept, poolVars, moduleVars, callVars
<1>4. ASSUME Startup PROVE RestKept /\ Calm
  BY <1>4 DEF Typed, Startup, Notify
<1>5. ASSUME MasterWait PROVE RestInv'
  <2>1. RestKept /\ target' = target /\ saved' = saved
    BY <1>5 DEF Typed, MasterWait, Enqueue
  <2>2. CASE pc'["master"] = pc["master"]
    <3>1. pc["master"] \in {"startSync", "sync", "pause"}
      BY <1>5 DEF MasterWait
    <3> QED
      BY <1>3, <2>1, <2>2, <3>1
  <2>3. CASE pc'["master"] # pc["master"]
    <3>1. \/ pc["master"] = "pause" /\ pc'["master"] = "tail"
          \/ activePools = 0 /\ pc["master"] \in {"startSync", "sync"} /\ pc'["master"] \in {"reset", "dispatch"}
      BY <1>5, <2>3 DEF Typed, MasterWait, Enqueue
    <3>2. CASE pc["master"] = "pause"
      BY <1>3, <2>1, <3>1, <3>2
    <3>3. CASE pc["master"] # "pause"
      <4>1. ~Over
        BY <3>1, <3>3, OverPc, <1>1 DEF Typed, Over
      <4>2. Idle
        BY <1>1, <3>1, <3>3, <4>1, AtRest DEF Typed
      <4>3. SavedWaits' /\ ExitQuits'
        BY <3>1, <3>3 DEF SavedWaits, ExitQuits
      <4> QED
        BY <1>1, <2>1, <3>1, <3>3, <4>2, <4>3, RestKeeps
    <3> QED
      BY <3>2, <3>3
  <2> QED
    BY <2>2, <2>3
<1>6. ASSUME Reset PROVE RestInv'
  <2>1. Idle /\ activePools = 0
    BY <1>6 DEF Reset, RestInv, IdleAt, NoneCounted
  <2>2. RestKept /\ Calm
    BY <1>6, <2>1 DEF Typed, Reset
  <2> QED
    BY <1>3, <2>2
<1>7. ASSUME MasterHead PROVE RestInv'
  <2>1. RestKept /\ pc'["master"] \in {"sync", "exit"} /\ quitting' = quitting
        /\ (pc'["master"] = "exit" => flag = "QUIT")
    BY <1>7 DEF Typed, MasterHead
  <2>2. SavedWaits' /\ ExitQuits'
    BY <1>2, <2>1 DEF SavedWaits, ExitQuits
  <2> QED
    BY <1>1, <2>1, <2>2, RestKeeps
<1>8. ASSUME DispatchIdle PROVE RestInv'
  <2>1. RestKept /\ pc'["master"] \in {"tail", "pause", "done"} /\ Idle
    BY <1>8 DEF Typed, DispatchIdle, RestInv, IdleAt
  <2>2. SavedWaits' /\ ExitQuits'
    BY <2>1 DEF SavedWaits, ExitQuits
  <2> QED
    BY <1>1, <2>1, <2>2, RestKeeps
<1>9. ASSUME DispatchRound \/ ContinueCheck PROVE RestInv'
  <2>1. /\ UNCHANGED <<pools, activePools, pflag>> /\ pc["master"] \in {"dispatch", "unloaded"}
        /\ pc' = [pc EXCEPT !["master"] = "check"]
    BY <1>9 DEF DispatchRound, ContinueCheck
  <2>2. /\ pc'["master"] = "check" /\ pc'["client"] = pc["client"] /\ \A p \in Pools : pc'[p] = pc[p]
    BY <2>1, ConstType DEF Typed
  <2>3. Owing' = Owing
    BY <2>1, <2>2 DEF Owing, Owes
  <2>4. Registered' /\ QuitAway'
    BY <2>1, <2>2 DEF RestInv, Registered, QuitAway
  <2> QED
    BY <2>2, <2>4 DEF RestInv, IdleAt, NoneCounted, SavedWaits, StopIdle, ExitQuits
<1>10. ASSUME NEW m \in unchecked, Check(m) PROVE RestKept /\ Calm
  BY <1>10 DEF Typed, Check
<1>11. ASSUME NEW m \in unchecked, CheckDone(m) PROVE RestInv'
  <2>1. /\ UNCHANGED <<pools, activePools, pflag>> /\ pc["master"] = "check"
        /\ pc' = [pc EXCEPT !["master"] = "unload"]
    BY <1>11 DEF CheckDone
  <2>2. /\ pc'["master"] = "unload" /\ \A p \in Pools : pc'[p] = pc[p]
    BY <2>1, ConstType DEF Typed
  <2>3. Registered' /\ QuitAway'
    BY <2>1, <2>2 DEF RestInv, Registered, QuitAway
  <2> QED
    BY <2>2, <2>3 DEF RestInv, IdleAt, NoneCounted, SavedWaits, StopIdle, ExitQuits
<1>12. ASSUME Arm PROVE RestInv'
  <2>1. /\ pools' = pools /\ pc' = [pc EXCEPT !["master"] = "launch"]
        /\ pflag' = [p \in Threads |-> IF p \in pools THEN "RUN" ELSE pflag[p]]
    BY <1>12 DEF Arm
  <2>2. /\ pc'["master"] = "launch" /\ \A p \in Pools : pc'[p] = pc[p]
    BY <2>1, ConstType DEF Typed
  <2>3. \A p \in Pools : pflag'[p] = "QUIT" => pflag[p] = "QUIT"
    BY <2>1
  <2>4. Registered' /\ QuitAway'
    BY <2>1, <2>2, <2>3 DEF RestInv, Registered, QuitAway
  <2> QED
    BY <2>2, <2>4 DEF RestInv, IdleAt, NoneCounted, SavedWaits, StopIdle, ExitQuits
<1>13. ASSUME Launch PROVE RestInv'
  <2>1. /\ pools' = pools /\ pc' = [pc EXCEPT !["master"] = "run"] /\ pflag' = pflag
    BY <1>13 DEF Launch, Notify
  <2>2. /\ pc'["master"] = "run" /\ \A p \in Pools : pc'[p] = pc[p]
    BY <2>1, ConstType DEF Typed
  <2>3. Registered' /\ QuitAway'
    BY <2>1, <2>2 DEF RestInv, Registered, QuitAway
  <2> QED
    BY <2>2, <2>3 DEF RestInv, IdleAt, NoneCounted, SavedWaits, StopIdle, ExitQuits
<1>14. ASSUME Pass("master") PROVE RestKept /\ Calm
  <2>1. ASSUME Skip("master") \/ StartExecute("master") PROVE RestKept /\ Calm
    BY <2>1 DEF Typed, Skip, StartExecute
  <2>2. ASSUME EndExecute("master") PROVE RestKept /\ Calm
    BY <2>2 DEF Typed, EndExecute
  <2> QED
    BY <1>14, <2>1, <2>2 DEF Pass
<1>15. ASSUME PassDone("master", "step") PROVE RestKept /\ Calm
  BY <1>15 DEF Typed, PassDone
<1>25. ASSUME StepTest \/ StepWrite PROVE RestKept /\ Calm
  BY <1>25 DEF Typed, StepTest, StepWrite
<1>16. ASSUME MasterTail PROVE RestInv'
  <2>1. RestKept /\ pc'["master"] \in {"done", "head"} /\ ~Stopping
    BY <1>2, <1>16 DEF Typed, MasterTail, StopLabel
  <2>2. SavedWaits' /\ ExitQuits'
    BY <2>1 DEF SavedWaits, ExitQuits
  <2> QED
    BY <1>1, <2>1, <2>2, RestKeeps
<1>17. ASSUME MasterExit PROVE RestInv'
  <2>1. quitting["client"] /\ ~Stopping
    BY <1>2, <1>17 DEF MasterExit, RestInv, ExitQuits, StopLabel
  <2>2. Over
    BY <1>1, <1>17, <2>1 DEF MasterExit, Over
  <2>3. /\ pools' = pools /\ pc'["master"] \in {"handler", "done"} /\ \A p \in Pools : pc'[p] = pc[p]
    BY <1>17, ConstType DEF MasterExit, Typed
  <2>4. Registered' /\ QuitAway'
    BY <2>2, <2>3 DEF RestInv, Registered, QuitAway
  <2>5. ~Stopping'
    BY <2>1 DEF Stopping
  <2> QED
    BY <2>3, <2>4, <2>5 DEF RestInv, IdleAt, NoneCounted, SavedWaits, StopIdle, ExitQuits
<1>18. ~Handler
  BY <1>2 DEF Handler
<1>19. ASSUME Unload("master") PROVE RestKept /\ Calm
  BY <1>2, <1>19 DEF Typed, Unload
<1>20. ASSUME StopPause("master") \/ Resume("master") PROVE RestKept /\ Calm
  BY <1>20 DEF Typed, StopPause, Resume
<1>21. ASSUME Stop("master") PROVE RestInv'
  <2>1. Idle /\ Registered
    BY <1>21 DEF Stop, RestInv, IdleAt
  <2> DEFINE p == PoolName[target["master"]]
  <2>2. p \in Threads
    BY <1>21, ConstType DEF Stop, Typed, TypeCalls
  <2>3. CASE p \in pools
    <3>1. /\ saved' = [saved EXCEPT !["master"] = pflag[p]] /\ pflag' = [pflag EXCEPT ![p] = "WAIT"]
          /\ UNCHANGED <<pools, activePools, target>> /\ pc["master"] = "stop"
          /\ pc' = [pc EXCEPT !["master"] = "inactive"]
      BY <1>21, <2>3 DEF Stop
    <3>2. p \in Pools => pflag[p] = "WAIT"
      BY <2>1, <2>3, AtWait DEF Typed
    <3> HIDE DEF p
    <3>3. RestKept /\ saved'["master"] = pflag[p] /\ pc'["master"] = "inactive"
      BY <2>2, <3>1, <3>2, ConstType DEF Typed, TypeCalls
    <3>4. SavedWaits' /\ ExitQuits'
      BY <3>1, <3>2, <3>3 DEF SavedWaits, ExitQuits, p
    <3> QED
      BY <1>1, <2>1, <3>3, <3>4, RestKeeps
  <2>4. CASE p \notin pools
    <3>1. RestKept /\ Calm
      BY <1>21, <2>4 DEF Stop, Typed
    <3> QED
      BY <1>3, <3>1
  <2> QED
    BY <2>3, <2>4
<1>22. ASSUME WhileActive("master", "inactive") \/ RemoveFromPool("master") PROVE RestInv'
  <2>1. RestKept /\ pc'["master"] \in {"inactive", "restore"} /\ UNCHANGED <<saved, target>>
    BY <1>22 DEF WhileActive, RemoveFromPool, OnceInactive, Typed
  <2>2. pc["master"] = "inactive"
    BY <1>22 DEF WhileActive, RemoveFromPool, OnceInactive
  <2>3. SavedWaits' /\ ExitQuits' /\ Idle
    BY <2>1, <2>2 DEF RestInv, SavedWaits, ExitQuits, IdleAt
  <2> QED
    BY <1>1, <2>1, <2>3, RestKeeps
<1>23. ASSUME Restore("master") PROVE RestInv'
  <2> DEFINE p == PoolName[target["master"]]
  <2>1. /\ pc["master"] = "restore" /\ pflag' = [pflag EXCEPT ![p] = saved["master"]]
        /\ pc' = [pc EXCEPT !["master"] = "free"] /\ pools' = pools
    BY <1>23 DEF Restore, Notify
  <2>2. p \in Pools => saved["master"] = "WAIT"
    BY <2>1 DEF RestInv, SavedWaits
  <2> HIDE DEF p
  <2>3. \A q \in Pools : pflag'[q] = "QUIT" => pflag[q] = "QUIT"
    BY <2>1, <2>2 DEF Typed
  <2>4. /\ pc'["master"] = "free" /\ \A q \in Pools : pc'[q] = pc[q]
    BY <2>1, ConstType DEF Typed
  <2>5. Registered' /\ QuitAway'
    BY <2>1, <2>3, <2>4 DEF RestInv, Registered, QuitAway
  <2> QED
    BY <2>4, <2>5 DEF RestInv, IdleAt, NoneCounted, SavedWaits, StopIdle, ExitQuits
<1>24. ASSUME Free("master") PROVE RestKept /\ Calm
  BY <1>24 DEF Free, Typed
<1> HIDE DEF TypeInv, RestKept, Calm
<1> QED
  BY <1>3, <1>4, <1>5, <1>6, <1>7, <1>8, <1>9, <1>10, <1>11, <1>12, <1>13, <1>14, <1>15, <1>16, <1>17, <1>18,
     <1>19, <1>20, <1>21, <1>22, <1>23, <1>24, <1>25 DEF InlineMaster

(* A call: the pools notice nothing of it.                                 *)
LEMMA CallQuiet ==
    ASSUME Typed, Calling, ~crashed, ~crashed'
    PROVE  /\ pc'["client"] = "called" /\ pc'["master"] = "startup" /\ \A p \in Pools : pc'[p] = pc[p]
           /\ UNCHANGED <<poolVars, moduleVars>> /\ frames' # <<>>
           /\ pc["client"] \in ClientMay \union {"called"} /\ pc["master"] # "launch"
           /\ frames # <<>> => Nested'
<1>1. PICK caller \in Callers, label \in Label :
          /\ Calls(caller, label)
          /\ pc["client"] \in ClientMay \union {"called"}
          /\ frames # <<>> => pc["master"] \in {"stopNotify", "resumeNotify"}
  <2>1. ClientLeft \subseteq Label /\ {"stop", "unloaded"} \subseteq Label
    BY DEF ClientLeft
  <2>2. frames # <<>> => pc["client"] = "called"
    BY DEF Typed, CallsInv, CalledPc
  <2> HIDE DEF Label
  <2> QED
    BY <2>1, <2>2, CallCases DEF Calling, Typed
<1>2. frames = <<>> => pc["master"] \in {"unborn", "done"}
  BY DEF Typed, CallsInv, CalledPc
<1>3. /\ pc' = [pc EXCEPT !["client"] = "called", !["master"] = "startup"]
      /\ UNCHANGED <<poolVars, moduleVars>> /\ frames' = <<Frame(caller, label)>> \o frames
  BY <1>1 DEF Calls
<1>4. /\ pc'["client"] = "called" /\ pc'["master"] = "startup" /\ \A p \in Pools : pc'[p] = pc[p]
  BY <1>3, ConstType DEF Typed, TypeInv, TypePc
<1>5. frames \in Seq(FrameSet) /\ Frame(caller, label) \in FrameSet
  BY FrameTyped DEF Typed, CallsInv, FramesOrdered
<1>6. Len(frames') = Len(frames) + 1 /\ frames' # <<>>
  BY <1>3, <1>5, Pushed
<1>7. frames # <<>> => Nested'
  BY <1>5, <1>6 DEF Nested
<1> QED
  BY <1>1, <1>2, <1>3, <1>4, <1>6, <1>7

(* A call keeps the invariant.                                             *)
LEMMA CallRest ==
    ASSUME Typed, RestInv, Calling, ~crashed, ~crashed', Over => Over' PROVE RestInv'
<1>1. /\ pc'["master"] = "startup" /\ \A p \in Pools : pc'[p] = pc[p]
      /\ UNCHANGED <<pools, pflag>>
  BY CallQuiet DEF poolVars
<1>2. Registered' /\ QuitAway'
  BY <1>1 DEF RestInv, Registered, QuitAway
<1> QED
  BY <1>1, <1>2 DEF RestInv, IdleAt, NoneCounted, SavedWaits, StopIdle, ExitQuits

(* A return: the controller that goes on is nowhere where it would need    *)
(* the pools at rest, but for the one that stops a module.                 *)
LEMMA ReturnQuiet ==
    ASSUME Typed, Return
    PROVE  /\ \A p \in Pools : pc'[p] = pc[p]
           /\ UNCHANGED <<poolVars, loaded, mflag, status, quitting>>
           /\ pc["master"] = "done" /\ pc["client"] = "called"
           /\ \/ pc'["master"] = "done" /\ pc'["client"] \in ClientLeft /\ frames' = <<>> /\ ~Nested
              \/ pc'["master"] = "unloaded" /\ pc'["client"] = "called"
              \/ pc'["master"] = "stop" /\ pc'["client"] = "called" /\ Stopping
<1>1. PICK f \in FrameSet :
             /\ ReturnCalls(f) /\ FrameOrdered(f, 1)
             /\ \/ /\ f.caller = "client" /\ Len(frames) = 1 /\ frames' = <<>>
                   /\ pc' = [pc EXCEPT !["client"] = f.label]
                   /\ UNCHANGED <<unchecked, target, state, saved>>
                \/ /\ f.caller = "master" /\ Len(frames) > 1 /\ frames' # <<>> /\ ~quitting["client"]
                   /\ pc' = [pc EXCEPT !["master"] = f.label]
                   /\ unchecked' = f.unchecked \intersect loaded
                   /\ target' = [target EXCEPT !["master"] = f.target]
                   /\ state' = [state EXCEPT !["master"] = f.state]
                   /\ saved' = [saved EXCEPT !["master"] = f.saved]
  BY ReturnCases DEF Typed
<1>2. /\ frames # <<>> /\ f = Head(frames) /\ pc["master"] = "done" /\ pc["client"] = "called"
      /\ UNCHANGED <<poolVars, loaded, mflag, status, quitting>>
  BY <1>1 DEF ReturnCalls
<1>3. CASE f.caller = "client"
  <2>1. f.label \in ClientLeft /\ pc' = [pc EXCEPT !["client"] = f.label] /\ frames' = <<>> /\ Len(frames) = 1
    BY <1>1, <1>3 DEF FrameOrdered, ClientLeft
  <2>2. ~Nested
    BY <2>1 DEF Nested
  <2> QED
    BY <1>2, <2>1, <2>2, ConstType DEF Typed, TypeInv, TypePc
<1>4. CASE f.caller = "master"
  <2>1. f.label \in {"stop", "unloaded"} /\ pc' = [pc EXCEPT !["master"] = f.label]
    BY <1>1, <1>4 DEF FrameOrdered
  <2> QED
    BY <1>2, <2>1, ConstType DEF Typed, TypeInv, TypePc, Stopping
<1> QED
  BY <1>3, <1>4 DEF FrameSet

(* A return into the stopping of a module finds the pools at rest: the     *)
(* call that has returned has waited for them.                             *)
LEMMA ReturnRest ==
    ASSUME Typed, RestInv, Return, Over => Over' PROVE RestInv'
<1>1. /\ pools' = pools /\ pflag' = pflag /\ pc["master"] = "done"
      /\ \A p \in Pools : pc'[p] = pc[p]
  BY ReturnQuiet DEF poolVars
<1>2. \/ pc'["master"] = "done" /\ frames' = <<>>
      \/ pc'["master"] = "unloaded"
      \/ pc'["master"] = "stop" /\ Stopping
  BY ReturnQuiet
<1>3. Owing' = Owing
  BY <1>1 DEF Owing, Owes
<1>4. Registered' /\ QuitAway'
  BY <1>1 DEF RestInv, Registered, QuitAway
<1>5. IdleAt'
  BY <1>1, <1>2, <1>3 DEF RestInv, StopIdle, IdleAt, Idle
<1>6. NoneCounted' /\ SavedWaits' /\ ExitQuits'
  BY <1>2 DEF NoneCounted, SavedWaits, ExitQuits
<1>7. StopIdle'
  BY <1>2 DEF StopIdle, Stopping
<1> QED
  BY <1>4, <1>5, <1>6, <1>7 DEF RestInv

(* Every step keeps the invariant.                                         *)
LEMMA RestSteps ==
    ASSUME Typed, RestInv, CoverInv, ~ShutdownReached, InlineNext, ~crashed' PROVE RestInv'
<1>1. Over => Over'
  BY OverSteps DEF Typed, OverBegins
<1>2. ASSUME NEW t \in Threads, Sleep(t) \/ Wakeup(t), frames' = frames PROVE RestInv'
  <2>1. UNCHANGED <<pc, poolVars, callVars>>
    BY <1>2 DEF Sleep, Wakeup
  <2>2. Owing' = Owing /\ (Stopping' <=> Stopping)
    BY <1>2, <2>1 DEF poolVars, Owing, Owes, Stopping
  <2> QED
    BY <1>1, <2>1, <2>2 DEF poolVars, callVars, RestInv, Registered, IdleAt, NoneCounted, SavedWaits, QuitAway,
       StopIdle, ExitQuits, Idle
<1> QED
  BY <1>1, <1>2, StepCases, PoolRest, ClientRest, MasterRest, CallRest, ReturnRest

------------------------------------------------------------------------------
(* The count: activePools and what is still to come cover the pools that   *)
(* will lower it, counting twice those who will lower it twice.            *)
LEMMA CoverSums ==
    \A a, x, y, b, u, v, k, l, i, j \in Int :
        a >= x + y + k /\ b - i >= a - j /\ u + v + l + j <= x + y + k + i => b >= u + v + l
  OBVIOUS

(* The pending additions are a number after the step, too.                 *)
LEMMA PendingNext == TypePools' => Pending' \in Int
<1>1. ASSUME TypePools' PROVE Cardinality(pools' \ {"master"}) \in Int
  <2>1. IsFiniteSet(Threads)
    BY ControlAssumption, FS_AddElement
  <2>2. pools' \ {"master"} \subseteq Threads
    BY <1>1 DEF TypePools
  <2> QED
    BY <2>1, <2>2, FS_Subset, FS_CardinalityType
<1> QED
  BY <1>1 DEF Pending

(* The left side falls by j - i at most, the right side by that at least.  *)
LEMMA CoverMoves ==
    ASSUME TypeInv, TypeInv', NEW k \in Nat, NEW l \in Nat, Cover(k), NEW i \in Int, NEW j \in Int,
           (activePools' + Pending') - i >= (activePools + Pending) - j,
           Cardinality(Owing') + Cardinality(Twice') + l + j <= Cardinality(Owing) + Cardinality(Twice) + k + i
    PROVE  Cover(l)'
<1>1. /\ activePools + Pending \in Int /\ activePools' + Pending' \in Int
  BY PendingType, PendingNext DEF TypeInv, TypePools
<1>2. /\ Cardinality(Owing) \in Int /\ Cardinality(Twice) \in Int
      /\ Cardinality(Owing') \in Int /\ Cardinality(Twice') \in Int
  BY TwiceFinite
<1>3. activePools + Pending >= Cardinality(Owing) + Cardinality(Twice) + k
  BY DEF Cover
<1>4. PICK a \in Int, b \in Int : a = activePools + Pending /\ b = activePools' + Pending'
  BY <1>1
<1>5. PICK x \in Int, y \in Int, u \in Int, v \in Int :
          /\ x = Cardinality(Owing) /\ y = Cardinality(Twice)
          /\ u = Cardinality(Owing') /\ v = Cardinality(Twice')
  BY <1>2
<1>6. a >= x + y + k /\ b - i >= a - j /\ u + v + l + j <= x + y + k + i /\ k \in Int /\ l \in Int
  <2>1. a >= x + y + k
    BY <1>3, <1>4, <1>5, Zenon
  <2>2. b - i >= a - j
    BY <1>4, Zenon
  <2>3. u + v + l + j <= x + y + k + i
    BY <1>5, Zenon
  <2> QED
    BY <2>1, <2>2, <2>3
<1>7. b >= u + v + l
  BY <1>6, CoverSums
<1> QED
  BY <1>4, <1>5, <1>7 DEF Cover

(* The left side stays, and nobody comes to owe.                           *)
LEMMA CoverKeeps ==
    ASSUME TypeInv, TypeInv', NEW k \in Nat, Cover(k), activePools' + Pending' = activePools + Pending,
           Owing' \subseteq Owing, Twice' \subseteq Twice
    PROVE  Cover(k)'
<1>1. /\ Cardinality(Owing') \in Nat /\ Cardinality(Owing') <= Cardinality(Owing) /\ Cardinality(Owing) \in Nat
      /\ Cardinality(Twice') \in Nat /\ Cardinality(Twice') <= Cardinality(Twice) /\ Cardinality(Twice) \in Nat
  BY TwiceFinite, FS_Subset, FS_CardinalityType
<1>2. (activePools' + Pending') - 0 >= (activePools + Pending) - 0
  BY PendingType DEF TypeInv, TypePools
<1>3. Cardinality(Owing') + Cardinality(Twice') + k + 0 <= Cardinality(Owing) + Cardinality(Twice) + k + 0
  BY <1>1
<1> QED
  BY <1>2, <1>3, CoverMoves

(* A count that is too high is all the invariant asks for.                 *)
LEMMA CoverOne == ASSUME TypeInv', Cover(1)' PROVE CoverInv'
<1>1. /\ activePools' + Pending' \in Int /\ Cardinality(Owing') \in Int /\ Cardinality(Twice') \in Int
  BY PendingNext, TwiceFinite DEF TypeInv, TypePools
<1>2. activePools' + Pending' >= Cardinality(Owing') + Cardinality(Twice') + 1
  BY DEF Cover
<1>3. activePools' + Pending' >= Cardinality(Owing') + Cardinality(Twice') + 0
  BY <1>1, <1>2
<1> QED
  BY <1>3 DEF CoverInv, Cover

(* A step that keeps the cover, and the exactness as long as it lasts.     *)
LEMMA CoverFrame ==
    ASSUME Over => Over', CoverInv, ~Over => /\ Cover(0) => Cover(0)'
                                             /\ Cover(1) => Cover(1)'
                                             /\ Exact => Exact'
    PROVE  CoverInv'
  BY DEF CoverInv

(* A set that loses an element.                                            *)
LEMMA LosesOne ==
    ASSUME NEW S \in SUBSET Pools, NEW p \in S
    PROVE  Cardinality(S \ {p}) = Cardinality(S) - 1 /\ Cardinality(S) \in Nat /\ Cardinality(S \ {p}) \in Nat
  BY ControlAssumption, FS_Subset, FS_CardinalityType, FS_RemoveElement

(* A module that is to run and whose pool is to come to it: no step of the *)
(* pool but its end takes it past the module.                              *)
LEMMA PoolComing ==
    ASSUME Typed, NEW p \in Pools, OthersKept(p), Passes(p) \/ Lowers(p) \/ Begins(p),
           NEW m \in Modules, Has(pmods[p], m), mflag[m] = "RUN" => Awaits(p, m), mflag'[m] = "RUN",
           pc'[p] # "done"
    PROVE  Awaits(p, m)'
<1>1. iter[p] \in Seq(Modules) /\ mflag \in [Modules -> ControlFlag]
  BY DEF Typed, TypeInv, TypePools, TypeModules
<1>2. CASE Passes(p)
  <2>1. CASE Turn(p, "run", "run")
    <3>1. mflag' = mflag /\ mflag[Head(iter[p])] # "RUN" /\ iter[p] # <<>> /\ iter'[p] = Tail(iter[p])
      BY <1>2, <2>1 DEF Passes, Turn, Kept, TailLeft
    <3>2. Has(iter[p], m) /\ m # Head(iter[p])
      BY <2>1, <3>1 DEF Turn, Awaits
    <3> QED
      BY <1>1, <2>1, <3>1, <3>2, HasTail DEF Turn, Awaits
  <2>2. CASE Turn(p, "run", "exec")
    <3>1. mflag' = mflag /\ iter'[p] = iter[p]
      BY <1>2, <2>2 DEF Passes, Turn, Kept
    <3> QED
      BY <2>2, <3>1 DEF Turn, Awaits
  <2>3. CASE Turn(p, "exec", "run")
    <3>1. mflag' = [mflag EXCEPT ![Head(iter[p])] = "WAIT"] /\ iter[p] # <<>> /\ iter'[p] = Tail(iter[p])
      BY <1>2, <2>3 DEF Passes, Turn, TailLeft
    <3>2. m # Head(iter[p]) /\ mflag[m] = "RUN"
      BY <1>1, <3>1
    <3>3. Has(iter[p], m)
      BY <2>3, <3>2 DEF Turn, Awaits
    <3> QED
      BY <1>1, <2>3, <3>1, <3>2, <3>3, HasTail DEF Turn, Awaits
  <2>4. CASE Turn(p, "run", "finish")
    <3>1. mflag' = mflag /\ iter[p] = <<>>
      BY <1>2, <2>4 DEF Passes, Turn, Kept
    <3> QED
      BY <2>4, <3>1, HasNone DEF Turn, Awaits
  <2> QED
    BY <1>2, <2>1, <2>2, <2>3, <2>4 DEF Passes
<1>3. CASE Lowers(p)
  <2>1. mflag' = mflag
    BY <1>3 DEF Lowers, Kept
  <2>2. pc[p] = "sub" /\ pc'[p] = "wait" /\ pflag'[p] = pflag[p]
    BY <1>3, <2>1 DEF Lowers, Turn, Awaits
  <2> QED
    BY <2>1, <2>2 DEF Awaits
<1>4. CASE Begins(p)
  <2>1. mflag' = mflag
    BY <1>4 DEF Begins, Kept
  <2>2. CASE pc'[p] \in {"head", "erase"}
    BY <2>2 DEF Awaits
  <2>3. CASE pc'[p] = "wait"
    <3>1. pc[p] = "wait" /\ pflag'[p] = pflag[p]
      BY <1>4, <2>3 DEF Begins, Turn, Kept, FlagKept
    <3> QED
      BY <2>1, <2>3, <3>1 DEF Awaits
  <2>4. CASE pc'[p] = "run"
    <3>1. iter'[p] = pmods[p]
      BY <1>4, <2>4 DEF Begins, Turn
    <3> QED
      BY <2>4, <3>1 DEF Awaits
  <2> QED
    BY <1>4, <2>2, <2>3, <2>4 DEF Begins, Turn
<1> QED
  BY <1>2, <1>3, <1>4

(* What the other pools are to come to, they still are.                    *)
LEMMA OthersComing ==
    ASSUME Typed, NEW p \in Pools, OthersKept(p), Passes(p) \/ Lowers(p) \/ Begins(p),
           pmods[p] = <<>> \/ pc'[p] # "done", AllComing
    PROVE  AllComing'
<1> SUFFICES ASSUME NEW q \in Pools, NEW m \in Modules, Has(pmods'[q], m), mflag'[m] = "RUN"
             PROVE  Awaits(q, m)'
  BY DEF AllComing
<1>1. pmods' = pmods /\ Has(pmods[q], m)
  BY DEF OthersKept
<1>2. mflag[m] = "RUN"
  <2>1. mflag' = mflag \/ mflag' = [mflag EXCEPT ![Head(iter[p])] = "WAIT"]
    BY DEF Passes, Lowers, Begins, Kept
  <2> QED
    BY <2>1 DEF Typed, TypeInv, TypeModules
<1>3. Awaits(q, m)
  BY <1>1, <1>2 DEF AllComing
<1>4. CASE q = p
  BY <1>1, <1>2, <1>3, <1>4, PoolComing, HasNone
<1>5. CASE q # p
  BY <1>3, <1>5 DEF OthersKept, Awaits
<1> QED
  BY <1>4, <1>5

(* A pool subtracts one, and then owes it no more; a pool that leaves owes *)
(* one that it never subtracts, unless it has not been counted yet.        *)
LEMMA PoolCover ==
    ASSUME Typed, Typed', RestInv, CoverInv, NEW p \in Pools, Pool(p), frames' = frames, Over => Over'
    PROVE  CoverInv'
<1>1. OthersKept(p) /\ (Passes(p) \/ Lowers(p) \/ Begins(p)) /\ TypeInv /\ TypeInv'
  BY PoolTurns DEF Typed
<1>2. Owing' \subseteq Owing /\ Owing \subseteq Pools
  BY <1>1, PoolOwes DEF Owing
<1>3. /\ pc'["client"] = pc["client"] /\ pc'["master"] = pc["master"] /\ quitting' = quitting
      /\ (Preparing' <=> Preparing) /\ (Nested' <=> Nested)
  BY PoolElsewhere, FramesKept DEF Elsewhere, Typed, CallsInv, Preparing, UnloadingDone, Nested
<1>4. SUFFICES ASSUME ~Over PROVE CoverInv'
  BY CoverFrame DEF CoverInv
<1>5. pflag[p] # "QUIT" /\ (p \in pools <=> pc[p] \notin {"unborn", "done"})
  BY <1>4 DEF RestInv, QuitAway, Registered
<1>6. CASE Turn(p, "erase", "done")
  <2>1. activePools' = activePools /\ pools' = pools \ {p} /\ pflag'[p] = pflag[p] /\ pmods' = pmods
    BY <1>1, <1>6 DEF Passes, Lowers, Begins, Turn, FlagKept, OthersKept
  <2>2. p \in Owing /\ Owing' = Owing \ {p}
    BY <1>1, <1>6, <2>1 DEF Turn, OthersKept, Owing, Owes
  <2>3. Twice' = Twice
    BY <1>1, <1>6, <2>1 DEF Turn, OthersKept, Twice
  <2>4. Cardinality(Owing') = Cardinality(Owing) - 1 /\ Cardinality(Owing) \in Int /\ Cardinality(Twice) \in Int
    BY <1>2, <2>2, LosesOne, TwiceFinite
  <2>5. CASE pc["master"] # "launch"
    <3>1. Pending' = Pending
      BY <1>3, <2>5 DEF Pending
    <3>2. (activePools' + Pending') - 0 >= (activePools + Pending) - 0
      BY <1>1, <2>1, <3>1, PendingType DEF TypeInv, TypePools
    <3>3. Cardinality(Owing') + Cardinality(Twice') + 1 + 0 <= Cardinality(Owing) + Cardinality(Twice) + 0 + 0
      BY <2>3, <2>4
    <3>4. Cover(0)
      BY <1>4 DEF CoverInv
    <3>5. Cover(1)'
      BY <1>1, <3>2, <3>3, <3>4, CoverMoves
    <3> QED
      BY <1>1, <3>5, CoverOne
  <2>6. CASE pc["master"] = "launch"
    <3>1. Cardinality(pools' \ {"master"}) = Cardinality(pools \ {"master"}) - 1
      <4>1. pools' \ {"master"} = (pools \ {"master"}) \ {p}
        BY <2>1
      <4>2. p \in pools \ {"master"} /\ pools \ {"master"} \subseteq Pools
        BY <1>1, <1>5, <1>6, ConstType DEF Turn, TypeInv, TypePools
      <4> QED
        BY <4>1, <4>2, LosesOne
    <3>2. Pending' = Pending - 1
      BY <1>1, <1>3, <2>6, <3>1, PendingType DEF Pending, TypeInv, TypePools
    <3>3. (activePools' + Pending') - 0 >= (activePools + Pending) - 1
      BY <1>1, <2>1, <3>2, PendingType DEF TypeInv, TypePools
    <3>4. ASSUME NEW k \in Nat PROVE Cover(k) => Cover(k)'
      <4>1. Cardinality(Owing') + Cardinality(Twice') + k + 1 <= Cardinality(Owing) + Cardinality(Twice) + k + 0
        BY <2>3, <2>4
      <4> QED
        BY <1>1, <3>3, <4>1, CoverMoves
    <3>5. Exact => Exact'
      <4>1. ASSUME Gone PROVE pmods[p] = <<>> /\ Gone'
        <5>1. pmods[p] = <<>>
          BY <1>6, <2>6, <4>1 DEF Turn, Gone
        <5> QED
          BY <1>1, <1>3, <2>1, <4>1, <5>1 DEF OthersKept, Gone
      <4>2. ASSUME pmods[p] = <<>>, AllComing PROVE AllComing'
        BY <1>1, <4>2, OthersComing
      <4> QED
        BY <1>3, <4>1, <4>2 DEF Exact
    <3> QED
      BY <3>4, <3>5, CoverFrame
  <2> QED
    BY <2>5, <2>6
<1>7. CASE ~Turn(p, "erase", "done")
  <2>1. pools' = pools /\ Pending' = Pending
    <3>1. pools' = pools
      BY <1>1, <1>7 DEF Passes, Lowers, Begins, Kept
    <3> QED
      BY <1>3, <3>1 DEF Pending
  <2>2. pc'[p] \notin {"done", "unborn"} /\ pc[p] \notin {"done", "unborn"}
    BY <1>1, <1>7 DEF Passes, Lowers, Begins, Turn
  <2>3. Exact => Exact'
    <3>1. AllComing => AllComing'
      BY <1>1, <2>2, OthersComing
    <3>2. Gone => Gone'
      <4>1. pmods' = pmods /\ \A q \in Pools : q # p => pc'[q] = pc[q]
        BY <1>1 DEF OthersKept
      <4>2. pc'[p] = "erase" => pmods[p] = <<>>
        BY <1>1, <1>5, <1>7 DEF Passes, Lowers, Begins, Turn
      <4> QED
        BY <1>3, <2>2, <4>1, <4>2 DEF Gone
    <3> QED
      BY <1>3, <3>1, <3>2 DEF Exact
  <2>4. CASE Turn(p, "sub", "wait")
    <3>1. activePools' = activePools - 1 /\ pflag'[p] = pflag[p]
      BY <1>1, <2>4 DEF Passes, Lowers, Begins, Turn
    <3>2. Cardinality(Owing') + Cardinality(Twice') = Cardinality(Owing) + Cardinality(Twice) - 1
      <4>1. CASE pflag[p] = "WAIT"
        <5>1. p \in Owing /\ Owing' = Owing \ {p} /\ Twice' = Twice
          BY <1>1, <2>4, <3>1, <4>1 DEF Turn, OthersKept, Owing, Owes, Twice
        <5>2. Cardinality(Owing') = Cardinality(Owing) - 1
          BY <1>2, <5>1, LosesOne
        <5> QED
          BY <5>1, <5>2, TwiceFinite
      <4>2. CASE pflag[p] # "WAIT"
        <5>1. p \in Twice /\ Owing' = Owing /\ Twice' = Twice \ {p} /\ Twice \subseteq Pools
          BY <1>1, <2>4, <3>1, <4>2 DEF Turn, OthersKept, Owing, Owes, Twice
        <5>2. Cardinality(Twice') = Cardinality(Twice) - 1
          BY <5>1, LosesOne
        <5> QED
          BY <5>1, <5>2, TwiceFinite
      <4> QED
        BY <4>1, <4>2
    <3>3. (activePools' + Pending') - 0 >= (activePools + Pending) - 1
      BY <1>1, <2>1, <3>1, PendingType DEF TypeInv, TypePools
    <3>4. ASSUME NEW k \in Nat PROVE Cover(k) => Cover(k)'
      <4>1. Cardinality(Owing') + Cardinality(Twice') + k + 1 <= Cardinality(Owing) + Cardinality(Twice) + k + 0
        BY <3>2, TwiceFinite
      <4> QED
        BY <1>1, <3>3, <4>1, CoverMoves
    <3> QED
      BY <2>3, <3>4, CoverFrame
  <2>5. CASE ~Turn(p, "sub", "wait")
    <3>1. activePools' = activePools
      BY <1>1, <1>7, <2>5 DEF Passes, Lowers, Begins, Kept, FlagKept
    <3>2. Twice' \subseteq Twice
      <4>1. pc'[p] = "sub" => pflag'[p] = "WAIT"
        BY <1>1, <1>5 DEF Passes, Lowers, Begins, Turn
      <4> QED
        BY <1>1, <4>1 DEF OthersKept, Twice
    <3>3. ASSUME NEW k \in Nat PROVE Cover(k) => Cover(k)'
      BY <1>1, <1>2, <2>1, <3>1, <3>2, CoverKeeps
    <3> QED
      BY <2>3, <3>3, CoverFrame
  <2> QED
    BY <2>4, <2>5
<1> QED
  BY <1>6, <1>7

(* The client: loadModule starts a pool, counts it and then gives it its   *)
(* first module (control.cc:162-173).                                      *)
LEMMA ClientCover ==
    ASSUME Typed, Typed', RestInv, CoverInv, InlineClient \/ User, frames' = frames, Over => Over', ~crashed'
    PROVE  CoverInv'
<1>1. /\ frames = <<>> /\ pc["master"] \in {"unborn", "done"} /\ pc'["master"] = pc["master"]
      /\ TypeInv /\ TypeInv' /\ Registered
  BY ClientAside DEF Typed, RestInv
<1>2. /\ ~Preparing /\ ~Preparing' /\ ~Nested /\ ~Nested'
      /\ Pending = (IF pc["client"] = "count" THEN 1 ELSE 0)
      /\ Pending' = (IF pc'["client"] = "count" THEN 1 ELSE 0)
  <2>1. (IF pc["client"] = "count" THEN 1 ELSE 0) \in Int /\ (IF pc'["client"] = "count" THEN 1 ELSE 0) \in Int
    OBVIOUS
  <2>2. /\ pc["master"] # "launch" /\ pc'["master"] # "launch"
        /\ pc["master"] # "check" /\ pc'["master"] # "check"
        /\ pc["master"] \notin UnloadLabel /\ pc'["master"] \notin UnloadLabel
    BY <1>1
  <2> HIDE DEF UnloadLabel
  <2>3. ~Preparing /\ ~Preparing'
    BY <2>2 DEF Preparing, UnloadingDone
  <2>4. ~Nested /\ ~Nested'
    BY <1>1 DEF Nested
  <2> QED
    BY <2>1, <2>2, <2>3, <2>4 DEF Pending
<1>3. SUFFICES ASSUME ~Over PROVE CoverInv'
  BY CoverFrame DEF CoverInv
<1>4. pc["client"] \notin QuitLabel \union {"delete", "end"}
  <2>1. pc["client"] \in {"delete", "end"} \union QuitLabel => quitting["client"]
    BY DEF Typed, CallsInv, QuitPc
  <2> QED
    BY <1>3, <2>1 DEF Over
<1>5. pc["client"] \in {"load", "count", "push"} => \A m \in Modules : mflag[m] # "RUN"
  BY DEF Typed, TypeInv, LoadFirst, StatusInv, IdleUnborn
<1>6. ASSUME \A m \in Modules : mflag'[m] # "RUN", Gone => Gone' PROVE Exact => Exact'
  BY <1>6 DEF Exact, AllComing
<1>7. ASSUME \A p \in Pools : pc'[p] = pc[p] /\ pflag'[p] = pflag[p] PROVE Owing' = Owing /\ Twice' = Twice
  BY <1>7 DEF Owing, Owes, Twice
<1>8. ASSUME activePools' + Pending' = activePools + Pending,
             \A p \in Pools : pc'[p] = pc[p] /\ pflag'[p] = pflag[p],
             Exact => Exact'
      PROVE  CoverInv'
  <2>1. ASSUME NEW k \in Nat, Cover(k) PROVE Cover(k)'
    BY <1>1, <1>7, <1>8, <2>1, CoverKeeps
  <2> QED
    BY <1>8, <2>1, CoverFrame
<1>9. ASSUME NEW m \in Modules, PoolName[m] \in pools, pmods' = [pmods EXCEPT ![PoolName[m]] = Append(@, m)],
             \A p \in Pools : pc'[p] = pc[p]
      PROVE  Gone => Gone'
  <2>1. PoolName[m] \in Pools => pc[PoolName[m]] \notin {"unborn", "done"}
    BY <1>1, <1>9 DEF Registered
  <2>2. \A p \in Pools : p # PoolName[m] => pmods'[p] = pmods[p]
    BY <1>1, <1>9 DEF TypeInv, TypePools
  <2> QED
    BY <1>1, <1>9, <2>1, <2>2 DEF Gone
<1>10. todo # <<>> => Head(todo) \in Modules /\ PoolName[Head(todo)] \in Threads
  BY <1>1, ConstType DEF TypeInv, TypeStack
<1>11. CASE LoadIntoPool
  <2>1. /\ pc["client"] = "load" /\ todo # <<>> /\ PoolName[Head(todo)] \in pools
        /\ UNCHANGED <<pc, activePools, pools, pflag>> /\ Register(Head(todo)) /\ Push(Head(todo))
    BY <1>11 DEF LoadIntoPool
  <2>2. \A m \in Modules : mflag'[m] # "RUN"
    BY <1>1, <1>5, <1>10, <2>1 DEF Register, TypeInv, TypeModules
  <2>3. Gone => Gone'
    BY <1>9, <1>10, <2>1 DEF Push
  <2>4. Exact => Exact'
    BY <1>6, <2>2, <2>3
  <2> QED
    BY <1>2, <1>8, <2>1, <2>4
<1>12. CASE PushFirst
  <2>1. /\ pc["client"] = "push" /\ todo # <<>> /\ PoolName[Head(todo)] \in pools
        /\ UNCHANGED <<activePools, pools, pflag, mflag>> /\ Push(Head(todo))
        /\ pc' = [pc EXCEPT !["client"] = "load"]
    BY <1>1, <1>12 DEF PushFirst, moduleVars, TypeInv, TypeStack
  <2>2. pc'["client"] = "load" /\ \A p \in Pools : pc'[p] = pc[p]
    BY <1>1, <2>1, ConstType DEF TypeInv, TypePc
  <2>3. Gone => Gone'
    BY <1>9, <1>10, <2>1, <2>2 DEF Push
  <2>4. Exact => Exact'
    BY <1>5, <1>6, <2>1, <2>3
  <2>5. Pending' = Pending
    BY <1>2, <2>1, <2>2
  <2> QED
    BY <1>8, <2>1, <2>2, <2>4, <2>5
<1>13. CASE CountPool
  <2>1. /\ pc["client"] = "count" /\ activePools' = activePools + 1
        /\ UNCHANGED <<pools, pflag, pmods, mflag>> /\ pc' = [pc EXCEPT !["client"] = "push"]
    BY <1>13 DEF CountPool, moduleVars
  <2>2. pc'["client"] = "push" /\ \A p \in Pools : pc'[p] = pc[p]
    BY <1>1, <2>1, ConstType DEF TypeInv, TypePc
  <2>3. Exact => Exact'
    BY <1>1, <1>5, <1>6, <2>1, <2>2 DEF Gone
  <2>4. activePools' + Pending' = activePools + Pending
    BY <1>1, <1>2, <2>1, <2>2 DEF TypeInv, TypePools
  <2> QED
    BY <1>8, <2>1, <2>2, <2>3, <2>4
<1>14. CASE LoadNewPool
  <2> DEFINE p == PoolName[Head(todo)]
  <2>1. /\ pc["client"] = "load" /\ todo # <<>> /\ p \notin pools /\ activePools' = activePools
        /\ pflag' = [pflag EXCEPT ![p] = "WAIT"] /\ pmods' = [pmods EXCEPT ![p] = <<>>]
        /\ pc' = [pc EXCEPT !["client"] = "count", ![p] = "attach"] /\ Register(Head(todo))
    BY <1>14 DEF LoadNewPool
  <2>2. p \in Pools /\ pc[p] \in {"unborn", "done"}
    BY <1>1, <1>10, <2>1 DEF TypeInv, TypePools, Registered
  <2> HIDE DEF p
  <2>3. /\ pc'["client"] = "count" /\ pc'[p] = "attach" /\ \A q \in Pools : q # p => pc'[q] = pc[q]
    BY <1>1, <2>1, <2>2, ConstType DEF TypeInv, TypePc
  <2>4. /\ pflag'[p] = "WAIT" /\ \A q \in Pools : q # p => pflag'[q] = pflag[q]
        /\ pmods'[p] = <<>> /\ \A q \in Pools : q # p => pmods'[q] = pmods[q]
    BY <1>1, <2>1, <2>2 DEF TypeInv, TypePools
  <2>5. p \notin Owing /\ p \in Owing' /\ Owing = Owing' \ {p}
    BY <2>2, <2>3, <2>4 DEF Owing, Owes
  <2>6. Twice' = Twice
    BY <2>2, <2>3, <2>4 DEF Twice
  <2>7. Owing' \subseteq Pools
    BY DEF Owing
  <2>8. Cardinality(Owing) = Cardinality(Owing') - 1 /\ Cardinality(Owing') \in Nat
    BY <2>5, <2>7, LosesOne
  <2>9. (activePools' + Pending') - 1 >= (activePools + Pending) - 0
    BY <1>1, <1>2, <2>1, <2>3 DEF TypeInv, TypePools
  <2>10. ASSUME NEW k \in Nat, Cover(k) PROVE Cover(k)'
    <3>1. Cardinality(Owing') + Cardinality(Twice') + k + 0 <= Cardinality(Owing) + Cardinality(Twice) + k + 1
      BY <2>6, <2>8, TwiceFinite
    <3> QED
      BY <1>1, <2>9, <2>10, <3>1, CoverMoves
  <2>11. \A m \in Modules : mflag'[m] # "RUN"
    BY <1>1, <1>5, <1>10, <2>1 DEF Register, TypeInv, TypeModules
  <2>12. Gone => Gone'
    BY <1>1, <2>3, <2>4 DEF Gone
  <2> QED
    BY <1>6, <2>10, <2>11, <2>12, CoverFrame
<1>15. CASE User \/ ~(LoadIntoPool \/ LoadNewPool \/ CountPool \/ PushFirst)
  <2>1. /\ UNCHANGED <<activePools, pools, pflag, pmods, iter, mflag>>
        /\ pc["client"] # "count" /\ pc'["client"] # "count" /\ \A p \in Pools : pc'[p] = pc[p]
    <3> USE <1>1, <1>4, ConstType DEF TypeInv, TypePc, poolVars, moduleVars
    <3>1. CASE WhileActive("client", "swapWait") \/ StartSwap
      BY <3>1 DEF WhileActive, StartSwap, OnceInactive
    <3>2. CASE SwapPause \/ EndSwap
      BY <3>2 DEF SwapPause, EndSwap
    <3>3. CASE User
      BY <3>3 DEF User, Command, Send, HotSwap
    <3>4. ~(UnloadNext("client") \/ AllUnloaded("client") \/ Unload("client") \/ Stop("client"))
      BY DEF UnloadNext, AllUnloaded, Unload, Stop
    <3>5. ~(WhileActive("client", "inactive") \/ RemoveFromPool("client") \/ Restore("client"))
      BY DEF WhileActive, RemoveFromPool, OnceInactive, Restore
    <3>6. ~(Free("client") \/ PopUnloaded("client") \/ Delete)
      BY DEF Free, PopUnloaded, Delete
    <3> QED
      BY <1>15, <3>1, <3>2, <3>3, <3>4, <3>5, <3>6 DEF InlineClient
  <2>2. Exact => Exact'
    BY <1>1, <1>2, <2>1 DEF Exact, Gone, AllComing, Awaits
  <2>3. Pending' = Pending
    BY <1>2, <2>1
  <2> QED
    BY <1>8, <2>1, <2>2, <2>3
<1> QED
  BY <1>11, <1>12, <1>13, <1>14, <1>15

(* What most steps of the controller, a call and a return do: no pool      *)
(* comes to owe more, and what is to be executed stays so.                 *)
CoverStays == /\ pools' = pools /\ activePools' = activePools
              /\ pc["client"] # "count" /\ pc'["client"] # "count"
              /\ pc["master"] # "launch" /\ pc'["master"] # "launch"
              /\ \A p \in Pools : pc'[p] = pc[p] /\ (pflag'[p] = pflag[p] \/ pc[p] \in {"unborn", "done"})
              /\ \A p \in Pools : pmods[p] = <<>> => pmods'[p] = <<>>

(* Such a step keeps the cover.                                            *)
LEMMA CoverStill ==
    ASSUME Typed, Typed', CoverInv, Over => Over', CoverStays,
           ~Over /\ (Preparing \/ Nested \/ AllComing) => (Preparing \/ Nested \/ AllComing)'
    PROVE  CoverInv'
<1>1. Owing' = Owing /\ Twice' = Twice
  BY DEF CoverStays, Owing, Owes, Twice
<1>2. Pending' = Pending
  BY DEF CoverStays, Pending
<1>3. ASSUME NEW k \in Nat, Cover(k) PROVE Cover(k)'
  BY <1>1, <1>2, <1>3, CoverKeeps DEF CoverStays, Typed
<1>4. Gone => Gone'
  BY DEF CoverStays, Gone
<1>5. ~Over /\ Exact => Exact'
  BY <1>4 DEF Exact
<1> QED
  BY <1>3, <1>5, CoverFrame

(* The controller tells its pools to run, and counts them afterwards: what *)
(* those that wait will subtract, and those that are about to subtract     *)
(* once more (control.cc:99-100).                                          *)
LEMMA ArmCover ==
    ASSUME Typed, Typed', RestInv, CoverInv, Arm, frames' = frames, pc["client"] = "called", Over => Over'
    PROVE  CoverInv'
<1>1. /\ TypeInv /\ TypeInv' /\ Registered /\ quitting["master"] = FALSE
  BY DEF Typed, RestInv, CallsInv, CalledPc
<1>2. /\ pc["master"] = "check" /\ pc'["master"] = "launch" /\ pc'["client"] = "called"
      /\ \A p \in Pools : pc'[p] = pc[p]
      /\ \A p \in Pools : pflag'[p] = (IF p \in pools THEN "RUN" ELSE pflag[p])
      /\ UNCHANGED <<pools, activePools, pmods, iter, mflag>>
  BY <1>1, ConstType DEF Arm, moduleVars, TypeInv, TypePc
<1>3. SUFFICES ASSUME ~Over PROVE CoverInv'
  BY CoverFrame DEF CoverInv
<1> DEFINE N == pools \ {"master"}
           W == {p \in Pools : p \in pools /\ pc[p] = "wait" /\ pflag[p] = "WAIT"}
           S == {p \in Pools : p \in pools /\ pc[p] = "sub" /\ pflag[p] = "WAIT"}
<1>4. N \subseteq Pools /\ IsFiniteSet(N) /\ Cardinality(N) \in Nat
  BY <1>1, PendingType DEF TypeInv, TypePools
<1>5. Pending = 0 /\ Pending' = Cardinality(N)
  BY <1>1, <1>2, <1>4 DEF Pending
<1>6. \A p \in Pools : pc[p] \in {"wait", "sub"} => p \in pools
  BY <1>1 DEF Registered
<1>7. W \intersect Owing = {} /\ Owing' = Owing \union W
  BY <1>2, <1>6 DEF Owing, Owes
<1>8. S \intersect Twice = {} /\ Twice' = Twice \union S
  BY <1>2, <1>6 DEF Twice
<1>9. W \intersect S = {} /\ W \union S \subseteq N
  BY ConstType
<1> HIDE DEF N, W, S
<1>10. /\ IsFiniteSet(W) /\ IsFiniteSet(S) /\ IsFiniteSet(W \union S)
       /\ Cardinality(W) \in Nat /\ Cardinality(S) \in Nat /\ Cardinality(W \union S) \in Nat
  BY <1>4, <1>9, FS_Subset, FS_CardinalityType
<1>11. /\ Cardinality(Owing') = Cardinality(Owing) + Cardinality(W)
       /\ Cardinality(Twice') = Cardinality(Twice) + Cardinality(S)
       /\ Cardinality(W \union S) = Cardinality(W) + Cardinality(S)
  <2>1. ASSUME NEW A, NEW C, IsFiniteSet(A), IsFiniteSet(C), A \intersect C = {}
        PROVE  Cardinality(A \union C) = Cardinality(A) + Cardinality(C)
    <3>1. Cardinality(A \union C) = Cardinality(A) + Cardinality(C) - Cardinality(A \intersect C)
      BY <2>1, FS_Union
    <3>2. Cardinality(A \intersect C) = 0
      BY <2>1, FS_EmptySet
    <3>3. Cardinality(A) \in Nat /\ Cardinality(C) \in Nat
      BY <2>1, FS_CardinalityType
    <3> QED
      BY <3>1, <3>2, <3>3
  <2> QED
    BY <1>7, <1>8, <1>9, <1>10, <2>1, TwiceFinite
<1>12. (activePools' + Pending') - Cardinality(N) >= (activePools + Pending) - 0
  BY <1>1, <1>2, <1>4, <1>5 DEF TypeInv, TypePools
<1>13. CASE N \subseteq W \union S
  <2>1. W \union S = N
    BY <1>9, <1>13
  <2>2. ASSUME NEW k \in Nat, Cover(k) PROVE Cover(k)'
    <3>1. Cardinality(Owing') + Cardinality(Twice') + k + 0
              <= Cardinality(Owing) + Cardinality(Twice) + k + Cardinality(N)
      <4>1. Cardinality(N) = Cardinality(W) + Cardinality(S)
        BY <1>11, <2>1
      <4> QED
        BY <1>10, <1>11, <4>1, TwiceFinite
    <3> QED
      BY <1>1, <1>4, <1>12, <2>2, <3>1, CoverMoves
  <2>3. \A p \in Pools : p \in pools => pc[p] \in {"wait", "sub"} /\ pflag'[p] = "RUN"
    BY <1>2, <1>13, ConstType DEF N, W, S
  <2>4. \A p \in Pools : p \notin pools => pc[p] \in {"unborn", "done"}
    BY <1>1 DEF Registered
  <2>5. Gone => Gone'
    BY <1>2, <2>3, <2>4 DEF Gone
  <2>6. Gone => AllComing'
    <3>1. ASSUME Gone, NEW p \in Pools, NEW m, Has(pmods[p], m) PROVE p \in pools
      BY <2>4, <3>1, HasNone DEF Gone
    <3> QED
      BY <1>2, <2>3, <3>1 DEF AllComing, Awaits
  <2>7. Exact => Exact'
    BY <2>5, <2>6 DEF Exact
  <2> QED
    BY <2>2, <2>7, CoverFrame
<1>14. CASE ~(N \subseteq W \union S)
  <2>1. PICK p \in N : p \notin W \union S
    BY <1>14
  <2>2. Cardinality(W \union S) <= Cardinality(N) - 1
    <3>1. W \union S \subseteq N \ {p} /\ IsFiniteSet(N \ {p})
      BY <1>4, <1>9, <2>1, FS_RemoveElement
    <3>2. Cardinality(N \ {p}) = Cardinality(N) - 1
      BY <1>4, <2>1, LosesOne
    <3> QED
      BY <3>1, <3>2, FS_Subset
  <2>3. Cardinality(Owing') + Cardinality(Twice') + 1 + 0
            <= Cardinality(Owing) + Cardinality(Twice) + 0 + Cardinality(N)
    BY <1>4, <1>10, <1>11, <2>2, TwiceFinite
  <2>4. Cover(0)
    BY <1>3 DEF CoverInv
  <2>5. Cover(1)'
    BY <1>1, <1>4, <1>12, <2>3, <2>4, CoverMoves
  <2> QED
    BY <1>1, <2>5, CoverOne
<1> QED
  BY <1>13, <1>14

(* The pools that were pending are counted.                                *)
LEMMA LaunchCover ==
    ASSUME Typed, Typed', CoverInv, Launch, frames' = frames, pc["client"] = "called", Over => Over'
    PROVE  CoverInv'
<1>1. TypeInv /\ TypeInv'
  BY DEF Typed
<1>2. /\ pc["master"] = "launch" /\ pc'["master"] = "run" /\ pc'["client"] = "called"
      /\ activePools' = activePools + Cardinality(pools) - 1
      /\ \A p \in Pools : pc'[p] = pc[p] /\ iter'[p] = iter[p]
      /\ UNCHANGED <<pools, pflag, pmods, mflag>>
  BY <1>1, ConstType DEF Launch, Notify, moduleVars, TypeInv, TypePc, TypePools
<1>3. Owing' = Owing /\ Twice' = Twice
  BY <1>2 DEF Owing, Owes, Twice
<1>4. activePools' + Pending' = activePools + Pending
  <2>1. /\ Cardinality(pools \ {"master"}) = Cardinality(pools) - 1
        /\ Cardinality(pools \ {"master"}) \in Nat /\ Cardinality(pools) \in Nat /\ activePools \in Int
    BY <1>1, PendingType, PoolsFinite DEF TypeInv, TypePools
  <2>2. Pending = Cardinality(pools) - 1 /\ Pending' = 0
    BY <1>2, <2>1 DEF Pending
  <2> QED
    BY <1>2, <2>1, <2>2
<1>5. ASSUME NEW k \in Nat, Cover(k) PROVE Cover(k)'
  BY <1>1, <1>3, <1>4, <1>5, CoverKeeps
<1>6. Exact => Exact'
  <2>1. ~Preparing /\ (Nested' <=> Nested)
    BY <1>2 DEF Preparing, UnloadingDone, Nested
  <2>2. AllComing => AllComing'
    BY <1>2 DEF AllComing, Awaits
  <2>3. Gone => Gone'
    BY <1>2 DEF Gone
  <2> QED
    BY <2>1, <2>2, <2>3 DEF Exact
<1> QED
  BY <1>5, <1>6, CoverFrame

(* Nothing more is to be executed than before, and nobody has passed it.   *)
ComingStays == /\ pmods' = pmods
               /\ \A p \in Pools : pc'[p] = pc[p] /\ pflag'[p] = pflag[p] /\ iter'[p] = iter[p]
               /\ \A m \in Modules : mflag'[m] = "RUN" => mflag[m] = "RUN"

(* What is to be executed keeps its pool.                                  *)
LEMMA ComingKeeps == ASSUME ComingStays, AllComing PROVE AllComing'
  BY DEF ComingStays, AllComing, Awaits

(* The other steps of the controller change nothing of it but on the       *)
(* modules, between the dispatch of a round and its launch.                *)
LEMMA MasterCover ==
    ASSUME Typed, Typed', RestInv, CoverInv, InlineMaster, frames' = frames, ~ShutdownReached,
           Over => Over', ~crashed'
    PROVE  CoverInv'
<1>1. pc["client"] = "called" /\ quitting["master"] = FALSE /\ pc["master"] \notin {"handler", "handlerNotify"}
  <2>1. pc["master"] \notin {"unborn", "done"}
    BY DEF InlineMaster, Startup, MasterWait, Reset, MasterHead, DispatchIdle, DispatchRound, Check,
       CheckDone, ContinueCheck, Arm, Launch, Pass, Skip, StartExecute, EndExecute, PassDone, StepTest,
       StepWrite, MasterTail, MasterExit, Handler, Unload, StopPause, Stop, WhileActive, RemoveFromPool,
       OnceInactive, Restore, Free, Resume
  <2> QED
    BY <2>1 DEF Typed, CallsInv, CalledPc
<1>2. CASE Arm
  BY <1>1, <1>2, ArmCover
<1>3. CASE Launch
  BY <1>1, <1>3, LaunchCover
<1>4. TypeInv /\ TypeInv' /\ quitting'["master"] = FALSE
  BY DEF Typed, CallsInv, CalledPc
<1> DEFINE Rounds == CoverStays /\ ~Preparing /\ ComingStays
           Prepares == CoverStays /\ pc'["master"] \in {"check"} \union UnloadLabel
<1>5. ASSUME Rounds \/ Prepares PROVE CoverInv'
  <2>1. CASE Rounds
    <3>1. Nested' <=> Nested
      BY DEF Nested
    <3> QED
      BY <2>1, <3>1, ComingKeeps, CoverStill
  <2>2. CASE Prepares
    <3>1. Preparing'
      BY <1>4, <2>2 DEF Preparing, UnloadingDone
    <3> QED
      BY <2>2, <3>1, CoverStill
  <2> QED
    BY <1>5, <2>1, <2>2
<1> USE <1>1, <1>4, ConstType DEF TypeInv, TypePc, CoverStays, ComingStays, Preparing, UnloadingDone, poolVars, moduleVars
<1>6. CASE Startup \/ MasterWait
  <2>1. CASE Startup
    BY <1>5, <2>1 DEF Startup, Notify
  <2>2. CASE MasterWait
    <3>1. pc["master"] \in {"startSync", "sync", "pause"} /\ UNCHANGED <<poolVars, moduleVars>>
      BY <2>2 DEF MasterWait
    <3>2. pc' = pc \/ \E label \in {"reset", "dispatch", "tail"} : pc' = [pc EXCEPT !["master"] = label]
      BY <2>2 DEF MasterWait, Enqueue
    <3>3. Rounds
      BY <3>1, <3>2
    <3> QED
      BY <1>5, <3>3
  <2> QED
    BY <1>6, <2>1, <2>2
<1>7. CASE Reset
  <2>1. activePools' = activePools /\ pc["master"] = "reset" /\ pc' = [pc EXCEPT !["master"] = "head"]
        /\ UNCHANGED <<pools, pflag, pmods, iter, mflag>>
    BY <1>7 DEF Reset, RestInv, NoneCounted
  <2>2. Rounds
    BY <2>1
  <2> QED
    BY <1>5, <2>2
<1>8. CASE MasterHead \/ DispatchIdle
  <2>1. pc["master"] \in {"head", "dispatch"} /\ UNCHANGED <<poolVars, moduleVars>>
    BY <1>8 DEF MasterHead, DispatchIdle
  <2>2. \E label \in {"sync", "exit", "tail", "pause", "done"} : pc' = [pc EXCEPT !["master"] = label]
    BY <1>8 DEF MasterHead, DispatchIdle
  <2>3. Rounds
    BY <2>1, <2>2
  <2> QED
    BY <1>5, <2>3
<1>9. CASE PassDone("master", "step") \/ StepTest \/ StepWrite \/ MasterTail
  <2>1. pc["master"] \in {"run", "step", "stepWrite", "tail"} /\ UNCHANGED <<poolVars, moduleVars>>
    BY <1>9 DEF PassDone, StepTest, StepWrite, MasterTail
  <2>2. \E label \in {"step", "stepWrite", "tail", "done", "head"} : pc' = [pc EXCEPT !["master"] = label]
    BY <1>9 DEF PassDone, StepTest, StepWrite, MasterTail
  <2>3. Rounds
    BY <2>1, <2>2
  <2> QED
    BY <1>5, <2>3
<1>10. CASE Pass("master")
  <2>1. CASE Skip("master") \/ StartExecute("master")
    <3>1. pc["master"] = "run" /\ UNCHANGED <<pools, activePools, pflag, pmods, mflag>>
      BY <2>1 DEF Skip, StartExecute
    <3>2. pc' = pc \/ pc' = [pc EXCEPT !["master"] = "exec"]
      BY <2>1 DEF Skip, StartExecute
    <3>3. iter' = iter \/ iter' = [iter EXCEPT !["master"] = Tail(@)]
      BY <2>1 DEF Skip, StartExecute
    <3>4. \A p \in Pools : iter'[p] = iter[p]
      BY <3>3 DEF TypePools
    <3>5. Rounds
      BY <3>1, <3>2, <3>4
    <3> QED
      BY <1>5, <3>5
  <2>2. CASE EndExecute("master")
    <3>1. /\ pc["master"] = "exec" /\ UNCHANGED <<pools, activePools, pflag, pmods>>
          /\ pc' = [pc EXCEPT !["master"] = "run"] /\ iter' = [iter EXCEPT !["master"] = Tail(@)]
          /\ mflag' = [mflag EXCEPT ![Head(iter["master"])] = "WAIT"]
      BY <2>2 DEF EndExecute
    <3>2. \A p \in Pools : iter'[p] = iter[p]
      BY <3>1 DEF TypePools
    <3>3. \A m \in Modules : mflag'[m] = "RUN" => mflag[m] = "RUN"
      BY <3>1 DEF TypeModules
    <3>4. Rounds
      BY <3>1, <3>2, <3>3
    <3> QED
      BY <1>5, <3>4
  <2> QED
    BY <1>10, <2>1, <2>2 DEF Pass
<1>11. CASE DispatchRound \/ ContinueCheck
  <2>1. /\ pc["master"] # "launch" /\ pc' = [pc EXCEPT !["master"] = "check"] /\ UNCHANGED poolVars
    BY <1>11 DEF DispatchRound, ContinueCheck
  <2>2. Prepares
    BY <2>1
  <2> QED
    BY <1>5, <2>2
<1>12. ASSUME NEW m \in unchecked, Check(m) \/ CheckDone(m) PROVE CoverInv'
  <2>1. pc["master"] = "check" /\ UNCHANGED poolVars /\ (pc' = pc \/ pc' = [pc EXCEPT !["master"] = "unload"])
    BY <1>12 DEF Check, CheckDone
  <2>2. Prepares
    BY <2>1
  <2> QED
    BY <1>5, <2>2
<1>13. CASE MasterExit
  <2>1. Over
    BY <1>13 DEF MasterExit, RestInv, ExitQuits, Over
  <2> QED
    BY <2>1, CoverFrame DEF CoverInv
<1>14. ~Handler
  BY DEF Handler
<1>15. CASE Unload("master") \/ StopPause("master") \/ Free("master") \/ Resume("master")
  <2>1. pc["master"] # "launch" /\ UNCHANGED poolVars
    BY <1>15 DEF Unload, StopPause, Free, Resume
  <2>2. \E label \in UnloadLabel : pc' = [pc EXCEPT !["master"] = label]
    BY <1>15 DEF Unload, StopPause, Free, Resume
  <2>3. Prepares
    BY <2>1, <2>2
  <2> QED
    BY <1>5, <2>3
<1>16. CASE Stop("master") \/ Restore("master")
  <2>1. /\ pc["master"] \in {"stop", "restore"} /\ UNCHANGED <<pools, activePools, pmods>>
        /\ \E label \in UnloadLabel : pc' = [pc EXCEPT !["master"] = label]
    BY <1>16 DEF Stop, Restore, Notify
  <2>2. Idle /\ Registered /\ SavedWaits
    BY <2>1 DEF RestInv, IdleAt
  <2> DEFINE q == PoolName[target["master"]]
  <2>3. q \in Threads
    BY <2>1 DEF TypeCalls
  <2>4. \/ pflag' = pflag
        \/ pflag' = [pflag EXCEPT ![q] = "WAIT"]
        \/ q \notin Pools /\ \E v : pflag' = [pflag EXCEPT ![q] = v]
    <3>1. CASE Stop("master")
      BY <3>1 DEF Stop
    <3>2. CASE Restore("master")
      BY <2>2, <3>2 DEF Restore, SavedWaits
    <3> QED
      BY <1>16, <3>1, <3>2
  <2> HIDE DEF q
  <2>5. \A p \in Pools : pflag'[p] = pflag[p] \/ pc[p] \in {"unborn", "done"}
    <3>1. \A p \in Pools : p \in pools => pflag[p] = "WAIT"
      BY <2>2, AtWait
    <3>2. \A p \in Pools : pflag'[p] = pflag[p] \/ pflag'[p] = "WAIT"
      BY <2>3, <2>4 DEF TypePools
    <3> QED
      BY <2>2, <3>1, <3>2 DEF Registered
  <2>6. Prepares
    BY <2>1, <2>5
  <2> QED
    BY <1>5, <2>6
<1>17. CASE WhileActive("master", "inactive")
  <2>1. pc["master"] = "inactive" /\ pc' = pc /\ UNCHANGED poolVars
    BY <1>17 DEF WhileActive
  <2>2. Prepares
    BY <2>1
  <2> QED
    BY <1>5, <2>2
<1>18. CASE RemoveFromPool("master")
  <2> DEFINE q == PoolName[target["master"]]
  <2>1. /\ pc["master"] = "inactive" /\ UNCHANGED <<pools, activePools, pflag>>
        /\ pc' = [pc EXCEPT !["master"] = "restore"]
        /\ \/ pmods' = pmods
           \/ \E i \in 1 .. Len(pmods[q]) : pmods' = [pmods EXCEPT ![q] = RemoveAt(pmods[q], i)]
    BY <1>18 DEF RemoveFromPool, OnceInactive
  <2>2. q \in Threads
    BY <2>1 DEF TypeCalls
  <2> HIDE DEF q
  <2>3. \A p \in Pools : pmods[p] = <<>> => pmods'[p] = <<>>
    <3>1. ASSUME NEW i \in 1 .. Len(pmods[q]) PROVE pmods[q] # <<>>
      BY <2>2 DEF TypePools
    <3> QED
      BY <2>1, <2>2, <3>1 DEF TypePools
  <2>4. Prepares
    BY <2>1, <2>3
  <2> QED
    BY <1>5, <2>4
<1> HIDE DEF TypeInv, CoverStays, ComingStays
<1> QED
  BY <1>2, <1>3, <1>6, <1>7, <1>8, <1>9, <1>10, <1>11, <1>12, <1>13, <1>14, <1>15, <1>16, <1>17, <1>18
     DEF InlineMaster

(* A call from outside finds the modules as the last round left them.      *)
LEMMA CallCover ==
    ASSUME Typed, Typed', CoverInv, Calling, ~crashed, ~crashed', Over => Over' PROVE CoverInv'
<1>1. /\ pc'["client"] = "called" /\ pc'["master"] = "startup" /\ \A p \in Pools : pc'[p] = pc[p]
      /\ UNCHANGED <<poolVars, moduleVars>>
      /\ pc["client"] # "count" /\ pc["master"] # "launch" /\ (frames # <<>> => Nested')
  BY CallQuiet DEF ClientMay
<1>2. CoverStays /\ ComingStays
  BY <1>1 DEF CoverStays, ComingStays, poolVars, moduleVars
<1>3. ASSUME frames = <<>> PROVE ~Preparing /\ ~Nested
  <2>1. pc["master"] \in {"unborn", "done"}
    BY <1>3 DEF Typed, CallsInv, CalledPc
  <2> QED
    BY <1>3, <2>1 DEF Preparing, UnloadingDone, Nested
<1> QED
  BY <1>1, <1>2, <1>3, ComingKeeps, CoverStill

(* A return into a controller finds it at work on the modules; one to the  *)
(* client leaves them as they are.                                         *)
LEMMA ReturnCover ==
    ASSUME Typed, Typed', CoverInv, Return, Over => Over' PROVE CoverInv'
<1>1. /\ \A p \in Pools : pc'[p] = pc[p]
      /\ UNCHANGED <<poolVars, loaded, mflag, status, quitting>>
      /\ pc["master"] = "done" /\ pc["client"] = "called"
      /\ \/ pc'["master"] = "done" /\ pc'["client"] \in ClientLeft /\ ~Nested
         \/ pc'["master"] \in {"unloaded", "stop"} /\ pc'["client"] = "called"
  BY ReturnQuiet DEF Typed
<1>2. CoverStays /\ ComingStays
  BY <1>1 DEF CoverStays, ComingStays, poolVars, ClientLeft
<1>3. quitting'["master"] = FALSE
  BY <1>1 DEF Typed, CallsInv, CalledPc
<1>4. ~Preparing
  BY <1>1 DEF Preparing, UnloadingDone
<1>5. pc'["master"] \in {"unloaded", "stop"} => Preparing'
  BY <1>3 DEF Preparing, UnloadingDone
<1> QED
  BY <1>1, <1>2, <1>4, <1>5, ComingKeeps, CoverStill

(* A step that changes none of these variables keeps the cover.            *)
LEMMA CoverStutters ==
    ASSUME CoverInv, UNCHANGED <<pc, poolVars, moduleVars, callVars>>, frames' = frames, Over => Over'
    PROVE  CoverInv'
<1>1. Owing' = Owing /\ Twice' = Twice /\ Pending' = Pending /\ activePools' = activePools
  BY DEF poolVars, Owing, Owes, Twice, Pending
<1>2. ComingStays /\ (Gone => Gone')
  BY DEF ComingStays, Gone, poolVars, moduleVars
<1>3. (Preparing' <=> Preparing) /\ (Nested' <=> Nested)
  BY DEF Preparing, UnloadingDone, Nested, callVars
<1>4. Exact => Exact'
  BY <1>2, <1>3, ComingKeeps DEF Exact
<1>5. (Cover(0) => Cover(0)') /\ (Cover(1) => Cover(1)')
  BY <1>1 DEF Cover
<1> QED
  BY <1>4, <1>5, CoverFrame

(* Every step keeps the cover.                                             *)
LEMMA CoverSteps ==
    ASSUME Typed, Typed', RestInv, CoverInv, ~ShutdownReached, InlineNext, ~crashed' PROVE CoverInv'
<1>1. Over => Over'
  BY OverSteps DEF Typed, OverBegins
<1>2. ASSUME NEW t \in Threads, Sleep(t) \/ Wakeup(t), frames' = frames PROVE CoverInv'
  BY <1>1, <1>2, CoverStutters DEF Sleep, Wakeup
<1> QED
  BY <1>1, <1>2, StepCases, PoolCover, ClientCover, MasterCover, CallCover, ReturnCover

------------------------------------------------------------------------------
(* The client's quit() finds all pools at rest and nothing left for them   *)
(* to execute: from there on no module is.                                 *)
Nothing == \A p \in Pools, m \in Modules :
    mflag[m] = "RUN" => ~Has(pmods[p], m) /\ (pc[p] \in {"run", "exec"} => ~Has(iter[p], m))
NothingInv == Over => Nothing

(* At the end of the startup sync nothing is left: with the pools at rest  *)
(* the count is exact, so no module with its flag at RUN is in a vector.   *)
LEMMA NothingBegins ==
    ASSUME Typed, RestInv, CoverInv, OverBegins PROVE NothingInv'
<1>1. /\ ~Over /\ pc["master"] = "startSync" /\ activePools = 0 /\ pc["client"] = "called"
      /\ UNCHANGED <<poolVars, moduleVars, callVars>>
      /\ Over' /\ MasterWait
  BY DEF OverBegins, MasterWait
<1>2. TypeInv /\ Registered /\ \A p \in Pools : pc'[p] = pc[p]
  BY <1>1, ConstType DEF MasterWait, Enqueue, Typed, TypeInv, TypePc, RestInv
<1>3. ~Nested /\ ~Preparing
  <2>1. quitting["client"]
    BY <1>1 DEF Over, callVars
  <2>2. Len(frames) = 1
    BY <1>1, <2>1 DEF Typed, CallsInv, QuitPc
  <2> QED
    BY <1>1, <2>2 DEF Nested, Preparing, UnloadingDone
<1>4. Idle /\ Exact
  BY <1>1, <1>2, AtRest
<1>5. AllComing
  BY <1>3, <1>4 DEF Exact
<1>6. \A p \in Pools : pc[p] \in {"unborn", "done"} \/ (pc[p] = "wait" /\ pflag[p] = "WAIT")
  BY <1>2, <1>4, AtWait DEF Registered
<1> QED
  BY <1>1, <1>2, <1>5, <1>6 DEF NothingInv, Nothing, AllComing, Awaits, poolVars, moduleVars

(* What is not in a vector is not in what is left of it.                   *)
LEMMA HasRest ==
    ASSUME NEW s \in Seq(Modules), s # <<>>, NEW m, Has(Tail(s), m)
    PROVE  Has(s, m)
<1>1. PICK i \in 1 .. Len(s) - 1 : Tail(s)[i] = m
  BY DEF Has
<1>2. Tail(s)[i] = s[i + 1] /\ i + 1 \in DOMAIN s
  OBVIOUS
<1> QED
  BY <1>1, <1>2 DEF Has

(* What is in a vector that has lost one element was in it before.         *)
LEMMA HasRemaining ==
    ASSUME NEW s \in Seq(Modules), NEW i \in 1 .. Len(s), NEW m, Has(RemoveAt(s, i), m)
    PROVE  Has(s, m)
<1> DEFINE x == SubSeq(s, 1, i - 1)
           y == SubSeq(s, i + 1, Len(s))
<1>1. /\ x \in Seq(Modules) /\ y \in Seq(Modules)
      /\ Len(x) = i - 1 /\ Len(y) = Len(s) - i
      /\ \A k \in 1 .. i - 1 : x[k] = s[k]
      /\ \A k \in 1 .. Len(s) - i : y[k] = s[i + k]
  OBVIOUS
<1>2. Has(x \o y, m)
  BY DEF RemoveAt
<1> HIDE DEF x, y
<1>3. PICK k \in 1 .. Len(x) + Len(y) : (x \o y)[k] = m
  BY <1>1, <1>2 DEF Has
<1>4. CASE k <= i - 1
  <2>1. (x \o y)[k] = s[k] /\ k \in DOMAIN s
    BY <1>1, <1>4
  <2> QED
    BY <1>3, <2>1 DEF Has
<1>5. CASE k > i - 1
  <2>1. (x \o y)[k] = y[k - Len(x)] /\ k - Len(x) \in 1 .. Len(s) - i
    BY <1>1, <1>5
  <2>2. y[k - Len(x)] = s[i + (k - Len(x))] /\ i + (k - Len(x)) \in DOMAIN s
    BY <1>1, <2>1
  <2> QED
    BY <1>3, <2>1, <2>2 DEF Has
<1> QED
  BY <1>1, <1>4, <1>5

(* Nothing is added, and nobody begins what is not there.                  *)
LEMMA NothingPool ==
    ASSUME TypeInv, Nothing, NEW p \in Pools, Pool(p) PROVE Nothing'
<1>1. OthersKept(p) /\ (Passes(p) \/ Lowers(p) \/ Begins(p)) /\ iter[p] \in Seq(Modules)
  BY PoolTurns DEF TypeInv, TypePools
<1>2. mflag' = mflag \/ mflag' = [mflag EXCEPT ![Head(iter[p])] = "WAIT"]
  BY <1>1 DEF Passes, Lowers, Begins, Kept
<1>3. \A m \in Modules : mflag'[m] = "RUN" => mflag[m] = "RUN"
  BY <1>2 DEF TypeInv, TypeModules
<1>4. ASSUME NEW m \in Modules, mflag[m] = "RUN", pc'[p] \in {"run", "exec"} PROVE ~Has(iter'[p], m)
  <2>1. ~Has(pmods[p], m) /\ (pc[p] \in {"run", "exec"} => ~Has(iter[p], m))
    BY <1>4 DEF Nothing
  <2>2. \/ iter'[p] = pmods[p]
        \/ pc[p] \in {"run", "exec"} /\ iter'[p] = iter[p]
        \/ pc[p] \in {"run", "exec"} /\ iter[p] # <<>> /\ iter'[p] = Tail(iter[p])
    BY <1>1, <1>4 DEF Passes, Lowers, Begins, Turn, TailLeft
  <2> QED
    BY <1>1, <2>1, <2>2, HasRest
<1> QED
  BY <1>1, <1>3, <1>4 DEF OthersKept, Nothing

(* Every step keeps it.                                                    *)
LEMMA NothingSteps ==
    ASSUME Typed, RestInv, CoverInv, NothingInv, ~ShutdownReached, InlineNext, ~crashed' PROVE NothingInv'
<1>1. CASE OverBegins
  BY <1>1, NothingBegins
<1>2. CASE ~OverBegins
  <2>1. Over' <=> Over
    BY <1>2, OverSteps DEF Typed
  <2>2. SUFFICES ASSUME Over PROVE Nothing'
    BY <2>1 DEF NothingInv, Nothing
  <2>3. Nothing /\ TypeInv
    BY <2>2 DEF NothingInv, Nothing, Typed
  <2>4. /\ pc["master"] \in {"reset", "head", "exit", "done"}
        /\ \/ pc["client"] = "called"
           \/ pc["client"] \in {"delete", "end"} \union QuitLabel
    BY <2>2, OverPc DEF Typed
  <2>5. ASSUME UNCHANGED <<pmods, iter, mflag>>, \A p \in Pools : pc'[p] = pc[p] PROVE Nothing'
    BY <2>3, <2>5 DEF Nothing
  <2>6. ASSUME NEW t \in Threads, Sleep(t) \/ Wakeup(t) PROVE Nothing'
    BY <2>5, <2>6 DEF Sleep, Wakeup, poolVars, moduleVars
  <2>7. ASSUME InlineMaster PROVE Nothing'
    <3>1. Reset \/ MasterHead \/ MasterExit
      BY <2>4, <2>7 DEF InlineMaster, Startup, MasterWait, DispatchIdle, DispatchRound, Check,
         CheckDone, ContinueCheck, Arm, Launch, Pass, Skip, StartExecute, EndExecute, PassDone, StepTest,
         StepWrite, MasterTail, Handler, Unload, StopPause, Stop, WhileActive, RemoveFromPool,
         OnceInactive, Restore, Free, Resume
    <3>2. UNCHANGED <<pmods, iter, mflag>> /\ \A p \in Pools : pc'[p] = pc[p]
      BY <2>3, <3>1, ConstType DEF Reset, MasterHead, MasterExit, poolVars, moduleVars, TypeInv, TypePc
    <3> QED
      BY <2>5, <3>2
  <2>8. ASSUME InlineClient \/ User PROVE Nothing'
    <3>1. pc["client"] \in {"delete"} \union QuitLabel
      <4>1. frames = <<>>
        BY <2>3, <2>8, ClientAside DEF Typed
      <4>2. pc["client"] # "called" /\ pc["client"] # "end"
        BY <2>8, <4>1, StepCases DEF Typed, CallsInv, CalledPc, InlineClient, LoadIntoPool, LoadNewPool,
           CountPool, PushFirst, WhileActive, StartSwap, OnceInactive, SwapPause, EndSwap, UnloadNext,
           AllUnloaded, Unload, Stop, RemoveFromPool, Restore, Free, PopUnloaded, Delete, User, Command,
           Send, HotSwap
      <4> QED
        BY <2>4, <4>2
    <3>2. /\ ~LoadIntoPool /\ ~LoadNewPool /\ ~CountPool /\ ~PushFirst /\ ~WhileActive("client", "swapWait")
          /\ ~StartSwap /\ ~SwapPause /\ ~EndSwap
      BY <3>1 DEF LoadIntoPool, LoadNewPool, CountPool, PushFirst, WhileActive, StartSwap, OnceInactive,
         SwapPause, EndSwap
    <3>3. ~User
      BY <3>1 DEF User, Command, Send, HotSwap
    <3>4. iter' = iter /\ mflag' = mflag /\ \A p \in Pools : pc'[p] = pc[p]
      <4> USE <2>3, ConstType DEF TypeInv, TypePc, poolVars, moduleVars
      <4>1. CASE UnloadNext("client") \/ AllUnloaded("client")
        BY <4>1 DEF UnloadNext, AllUnloaded
      <4>2. CASE Unload("client") \/ Stop("client") \/ WhileActive("client", "inactive")
        BY <4>2 DEF Unload, Stop, WhileActive
      <4>3. CASE RemoveFromPool("client") \/ Restore("client") \/ Free("client")
        BY <4>3 DEF RemoveFromPool, OnceInactive, Restore, Notify, Free
      <4>4. CASE PopUnloaded("client") \/ Delete
        BY <4>4 DEF PopUnloaded, Delete
      <4> QED
        BY <2>8, <3>2, <3>3, <4>1, <4>2, <4>3, <4>4 DEF InlineClient
    <3>5. CASE ~RemoveFromPool("client")
      <4>1. pmods' = pmods
        BY <2>8, <3>2, <3>3, <3>5 DEF InlineClient, UnloadNext, AllUnloaded, Unload, Stop, WhileActive, Restore,
           Free, PopUnloaded, Delete, poolVars
      <4> QED
        BY <2>5, <3>4, <4>1
    <3>6. CASE RemoveFromPool("client")
      <4> DEFINE q == PoolName[target["client"]]
      <4>1. \/ pmods' = pmods
            \/ \E i \in 1 .. Len(pmods[q]) : pmods' = [pmods EXCEPT ![q] = RemoveAt(pmods[q], i)]
        BY <3>6 DEF RemoveFromPool
      <4>2. q \in Threads
        BY <2>3, <3>6, ConstType DEF RemoveFromPool, OnceInactive, TypeInv, TypeCalls
      <4> HIDE DEF q
      <4>3. ASSUME NEW p \in Pools, NEW m, Has(pmods'[p], m) PROVE Has(pmods[p], m)
        <5>1. CASE pmods'[p] = pmods[p]
          BY <4>3, <5>1
        <5>2. CASE pmods'[p] # pmods[p]
          <6>1. PICK i \in 1 .. Len(pmods[p]) : pmods'[p] = RemoveAt(pmods[p], i)
            BY <2>3, <4>1, <4>2, <5>2 DEF TypeInv, TypePools
          <6>2. pmods[p] \in Seq(Modules)
            BY <2>3 DEF TypeInv, TypePools
          <6> QED
            BY <4>3, <6>1, <6>2, HasRemaining
        <5> QED
          BY <5>1, <5>2
      <4> QED
        BY <2>3, <3>4, <4>3 DEF Nothing
    <3> QED
      BY <3>5, <3>6
  <2>9. ASSUME Calling, ~crashed PROVE Nothing'
    BY <2>5, <2>9, CallQuiet DEF poolVars, moduleVars
  <2>10. ASSUME Return PROVE Nothing'
    BY <2>5, <2>10, ReturnQuiet DEF poolVars
  <2> QED
    BY <2>3, <2>6, <2>7, <2>8, <2>9, <2>10, StepCases, NothingPool
<1> QED
  BY <1>1, <1>2

------------------------------------------------------------------------------
(* A module that executes has its flag at RUN: it is loaded, or the client *)
(* has quit and no module executes.                                        *)
LEMMA SafeState == Typed /\ DoneInv /\ NothingInv => NoUseAfterUnload
<1> SUFFICES ASSUME Typed, DoneInv, NothingInv, NEW t \in Threads, pc[t] = "exec"
             PROVE  Head(iter[t]) \in loaded
  BY DEF NoUseAfterUnload
<1>1. /\ iter[t] # <<>> /\ iter[t] \in Seq(Modules) /\ Head(iter[t]) \in Modules
      /\ mflag[Head(iter[t])] = "RUN"
  BY DEF Typed, TypeInv, TypePools, StatusInv, ExecRun
<1>2. CASE ~Over
  BY <1>1, <1>2 DEF DoneInv, RunsLoaded
<1>3. CASE Over
  <2>1. t \in Pools
    BY <1>3, OverPc DEF Typed
  <2>2. Has(iter[t], Head(iter[t]))
    BY <1>1 DEF Has
  <2> QED
    BY <1>1, <1>3, <2>1, <2>2 DEF NothingInv, Nothing
<1> QED
  BY <1>2, <1>3

(* The same after a step.                                                  *)
LEMMA SafeNext == Typed' /\ DoneInv' /\ NothingInv' => NoUseAfterUnload'
  BY SafeState, PTL

(* So a module that executes does not crash the process; where something   *)
(* else does, nobody begins to execute and nothing is unloaded.            *)
CrashKept == /\ iter' = iter /\ loaded \subseteq loaded' /\ UNCHANGED roundVars
             /\ \A t \in Threads : pc'[t] = "exec" => pc[t] = "exec"

(* A thread that runs or ends a module does not crash the process.         *)
LEMMA PassSafe ==
    ASSUME Typed, NoUseAfterUnload, DoneInv, NothingInv, NEW t \in Threads, Pass(t), crashed'
    PROVE  crashed
<1>1. CASE Skip(t)
  BY <1>1 DEF Skip
<1>2. CASE EndExecute(t)
  BY <1>2 DEF EndExecute, MayCrash, NoUseAfterUnload
<1>3. CASE StartExecute(t)
  <2>1. /\ pc[t] = "run" /\ iter[t] # <<>> /\ mflag[Head(iter[t])] = "RUN"
        /\ crashed' = (Head(iter[t]) \notin loaded)
    BY <1>3 DEF StartExecute
  <2>2. Head(iter[t]) \in Modules
    BY <2>1 DEF Typed, TypeInv, TypePools
  <2>3. ~Over
    <3> SUFFICES ASSUME Over PROVE FALSE
      OBVIOUS
    <3>1. t \in Pools
      BY <2>1, OverPc DEF Typed
    <3>2. Has(iter[t], Head(iter[t]))
      BY <2>1 DEF Has, Typed, TypeInv, TypePools
    <3> QED
      BY <2>1, <2>2, <3>1, <3>2 DEF NothingInv, Nothing
  <2> QED
    BY <2>1, <2>2, <2>3 DEF DoneInv, RunsLoaded
<1> QED
  BY <1>1, <1>2, <1>3 DEF Pass

(* A step that crashes the process is one of these.                        *)
LEMMA CrashSteps ==
    ASSUME Typed, DoneInv, NothingInv, InlineNext, crashed' PROVE CrashKept
<1>1. ~crashed /\ NoUseAfterUnload /\ TypeInv
  BY StepCases, SafeState DEF Typed
<1>2. \A t \in Threads : ~Pass(t)
  BY <1>1, PassSafe
<1> USE <1>1, <1>2, ConstType DEF TypeInv, TypePc, CrashKept, poolVars, moduleVars, roundVars, callVars
<1>3. ASSUME NEW p \in Pools, Pool(p) PROVE FALSE
  BY <1>3 DEF Pool, Attach, PoolHead, PassDone, PoolFinish, PoolFinishWrite, PoolSub, PoolWait, PoolErase
<1>4. ASSUME NEW t \in Threads, Sleep(t) \/ Wakeup(t) PROVE FALSE
  BY <1>4 DEF Sleep, Wakeup
<1>5. ASSUME User PROVE FALSE
  BY <1>5 DEF User, Command, Send, HotSwap
<1>6. ASSUME InlineClient PROVE CrashKept
  <2>1. CASE LoadIntoPool \/ PushFirst
    <3>1. iter' = iter /\ loaded \subseteq loaded' /\ UNCHANGED roundVars
      BY <2>1 DEF LoadIntoPool, PushFirst, Register
    <3>2. pc' = pc \/ pc' = [pc EXCEPT !["client"] = "load"]
      BY <2>1 DEF LoadIntoPool, PushFirst
    <3> QED
      BY <3>1, <3>2
  <2>2. CASE WhileActive("client", "swapWait") \/ WhileActive("client", "inactive") \/ StartSwap
    BY <2>2 DEF WhileActive, StartSwap
  <2>3. CASE RemoveFromPool("client")
    BY <2>3 DEF RemoveFromPool
  <2>4. ~(LoadNewPool \/ CountPool \/ SwapPause \/ EndSwap \/ UnloadNext("client") \/ AllUnloaded("client"))
    BY DEF LoadNewPool, CountPool, SwapPause, EndSwap, UnloadNext, AllUnloaded
  <2>5. ~(Unload("client") \/ Stop("client") \/ Restore("client") \/ Free("client") \/ PopUnloaded("client")
          \/ Delete)
    BY DEF Unload, Stop, Restore, Free, PopUnloaded, Delete
  <2> QED
    BY <1>6, <2>1, <2>2, <2>3, <2>4, <2>5 DEF InlineClient
<1>7. ASSUME InlineMaster PROVE CrashKept
  <2>1. CASE ContinueCheck
    BY <2>1 DEF ContinueCheck
  <2>2. CASE WhileActive("master", "inactive") \/ RemoveFromPool("master")
    BY <2>2 DEF WhileActive, RemoveFromPool
  <2>3. ~(Startup \/ MasterWait \/ Reset \/ MasterHead \/ DispatchIdle \/ DispatchRound)
    BY DEF Startup, MasterWait, Reset, MasterHead, DispatchIdle, DispatchRound
  <2>4. \A m \in unchecked : ~Check(m) /\ ~CheckDone(m)
    BY DEF Check, CheckDone
  <2>5. ~(Arm \/ Launch \/ PassDone("master", "step") \/ StepTest \/ StepWrite \/ MasterTail \/ MasterExit \/ Handler)
    BY DEF Arm, Launch, PassDone, StepTest, StepWrite, MasterTail, MasterExit, Handler
  <2>6. ~(Unload("master") \/ StopPause("master") \/ Stop("master") \/ Restore("master") \/ Free("master")
          \/ Resume("master"))
    BY DEF Unload, StopPause, Stop, Restore, Free, Resume
  <2> QED
    BY <1>7, <2>1, <2>2, <2>3, <2>4, <2>5, <2>6 DEF InlineMaster
<1>8. ASSUME Calling PROVE CrashKept
  <2>1. PICK caller, label : Call(caller, label)
    BY <1>8 DEF Calling, Start, ClientCommand, InnerCommand
  <2>2. UNCHANGED <<poolVars, moduleVars, roundVars>>
        /\ (pc' = pc \/ pc' = [pc EXCEPT !["client"] = "called", !["master"] = "startup"])
    BY <2>1 DEF Call
  <2> QED
    BY <2>2
<1>9. ~Return
  BY DEF Return
<1> QED
  BY <1>3, <1>4, <1>5, <1>6, <1>7, <1>8, <1>9, StepCases

(* The shutdown round stays reached.                                       *)
ReachedCounts == ShutdownReached => round \in Nat /\ shutdownRound \in Nat

(* No step takes it back: only the loop over the modules sets the shutdown *)
(* round, once (control.cc:221-228).                                       *)
LEMMA ReachedKept ==
    ASSUME ShutdownReached, ReachedCounts, InlineNext
    PROVE  ShutdownReached' /\ ReachedCounts'
<1>1. round \in Nat /\ shutdownRound \in Nat /\ shutdownRequested /\ round >= shutdownRound
  BY DEF ShutdownReached, ReachedCounts
<1>2. ASSUME UNCHANGED roundVars PROVE ShutdownReached' /\ ReachedCounts'
  BY <1>1, <1>2 DEF ShutdownReached, ReachedCounts, roundVars
<1>3. ASSUME NEW p \in Pools, Pool(p) PROVE UNCHANGED roundVars
  BY <1>3 DEF Pool, Attach, PoolHead, Pass, Skip, StartExecute, EndExecute, PassDone, PoolFinish,
     PoolFinishWrite, PoolSub, PoolWait, PoolErase
<1>4. ASSUME NEW t \in Threads, Sleep(t) \/ Wakeup(t) PROVE UNCHANGED roundVars
  BY <1>4 DEF Sleep, Wakeup
<1>5. ASSUME InlineClient \/ User PROVE UNCHANGED roundVars
  BY <1>5 DEF InlineClient, LoadIntoPool, LoadNewPool, CountPool, PushFirst, WhileActive, StartSwap,
     SwapPause, EndSwap, UnloadNext, AllUnloaded, Unload, Stop, RemoveFromPool, Restore, Free, PopUnloaded,
     Delete, User, Command, Send, HotSwap
<1>6. ASSUME InlineMaster PROVE ShutdownReached' /\ ReachedCounts'
  <2>1. CASE DispatchRound
    <3>1. round' = round + 1 /\ shutdownRequested' = shutdownRequested /\ shutdownRound' = shutdownRound
      BY <2>1 DEF DispatchRound
    <3> QED
      BY <1>1, <3>1 DEF ShutdownReached, ReachedCounts
  <2>2. ASSUME NEW m \in unchecked, Check(m) PROVE UNCHANGED <<round, shutdownRound>> /\ shutdownRequested'
    BY <1>1, <2>2 DEF Check
  <2>3. CASE \E m \in unchecked : Check(m)
    <3>1. UNCHANGED <<round, shutdownRound>> /\ shutdownRequested'
      BY <2>2, <2>3
    <3> QED
      BY <1>1, <3>1 DEF ShutdownReached, ReachedCounts
  <2>4. CASE ~DispatchRound /\ ~\E m \in unchecked : Check(m)
    <3>1. UNCHANGED roundVars
      BY <1>6, <2>4 DEF InlineMaster, Startup, MasterWait, Reset, MasterHead, DispatchIdle,
         CheckDone, ContinueCheck, Arm, Launch, Pass, Skip, StartExecute, EndExecute, PassDone, StepTest,
         StepWrite, MasterTail, MasterExit, Handler, Unload, StopPause, Stop, WhileActive, RemoveFromPool,
         Restore, Free, Resume
    <3> QED
      BY <1>2, <3>1
  <2> QED
    BY <2>1, <2>3, <2>4
<1>7. ASSUME Calling PROVE UNCHANGED roundVars
  BY <1>7 DEF Calling, Start, ClientCommand, InnerCommand, Call
<1>8. ASSUME Return PROVE UNCHANGED roundVars
  BY <1>8 DEF Return
<1> QED
  BY <1>2, <1>3, <1>4, <1>5, <1>6, <1>7, <1>8, StepCases

------------------------------------------------------------------------------
(* Everything together, up to the shutdown round.                          *)
InlineInv == /\ ~ShutdownReached /\ ~crashed => Typed /\ DoneInv /\ RestInv /\ CoverInv /\ NothingInv
             /\ ReachedCounts /\ NoUseBeforeShutdown

(* It holds initially.                                                     *)
LEMMA InlineStarts == InlineInit => InlineInv
<1> SUFFICES ASSUME InlineInit PROVE InlineInv
  OBVIOUS
<1> USE ConstType
<1>1. Init /\ frames = <<>> /\ TypeInv /\ TypeBool /\ StatusInv
  BY TypesInit, StatusInit DEF InlineInit
<1>2. /\ pc["client"] = "load" /\ pc["master"] = "unborn" /\ quitting = [c \in Callers |-> FALSE]
      /\ \A p \in Pools : pc[p] = "unborn" /\ pflag[p] = "WAIT" /\ pmods[p] = <<>>
      /\ \A m \in Modules : mflag[m] = "WAIT"
      /\ activePools = 0 /\ flag = "PAUSE" /\ state = [c \in Callers |-> "PAUSE"] /\ joinable = FALSE
      /\ pools = {"master"} /\ shutdownRequested = FALSE
  BY <1>1 DEF Init
<1>3. ~Over /\ ~Preparing /\ ~Stopping /\ ~Nested
  BY <1>1, <1>2 DEF Over, Preparing, UnloadingDone, Stopping, Nested
<1>4. CallsInv
  <2>1. FramesOrdered /\ CalledPc
    BY <1>1, <1>2 DEF FramesOrdered, CalledPc
  <2>2. QuitPc /\ QuitKept /\ StopPc
    BY <1>2, <1>3 DEF QuitPc, QuitKept, StopPc
  <2> QED
    BY <2>1, <2>2 DEF CallsInv
<1>5. DoneInv
  BY <1>1, <1>2 DEF DoneInv, FramesDone, TargetDone, UncheckedLoaded, RunsLoaded
<1>6. RestInv
  BY <1>2, <1>3 DEF RestInv, Registered, IdleAt, NoneCounted, SavedWaits, QuitAway, StopIdle, ExitQuits
<1>7. CoverInv
  <2>1. Owing = {} /\ Twice = {} /\ Pending = 0
    BY <1>2 DEF Owing, Owes, Twice, Pending
  <2>2. Cover(0)
    BY <1>2, <2>1, FS_EmptySet DEF Cover
  <2>3. Exact
    BY <1>2 DEF Exact, Gone, AllComing
  <2> QED
    BY <2>2, <2>3 DEF CoverInv
<1>8. NothingInv
  BY <1>3 DEF NothingInv
<1>9. NoUseBeforeShutdown /\ ReachedCounts
  BY <1>1, <1>2, <1>4, <1>5, <1>8, SafeState DEF Typed, NoUseBeforeShutdown, ReachedCounts, ShutdownReached
<1> QED
  BY <1>1, <1>4, <1>5, <1>6, <1>7, <1>8, <1>9 DEF InlineInv, Typed

(* Every step keeps what holds of the calls.                               *)
LEMMA CallsSteps ==
    ASSUME TypeInv, TypeBool, CallsInv, ~ShutdownReached, InlineNext, ~crashed' PROVE CallsInv'
<1>1. ASSUME NEW p \in Pools, Pool(p), frames' = frames PROVE CallsInv'
  BY <1>1, PoolElsewhere, ElsewhereCalls
<1>2. ASSUME NEW t \in Threads, Sleep(t) \/ Wakeup(t), frames' = frames PROVE CallsInv'
  <2>1. Elsewhere
    BY <1>2 DEF Sleep, Wakeup, Elsewhere, moduleVars, callVars
  <2> QED
    BY <1>2, <2>1, ElsewhereCalls
<1> QED
  BY <1>1, <1>2, StepCases, ClientCalls, UserCalls, MasterCalls, CallCalls, ReturnKeepsCalls DEF Calling

(* It does not depend on anything but the variables.                       *)
LEMMA InlineStutters == ASSUME InlineInv, UNCHANGED allVars PROVE InlineInv'
<1>1. /\ UNCHANGED vars /\ frames' = frames /\ UNCHANGED <<pc, poolVars, moduleVars, callVars, roundVars, flag>>
      /\ joinable' = joinable /\ crashed' = crashed
  BY DEF allVars, vars
<1>2. (ShutdownReached' <=> ShutdownReached) /\ (ReachedCounts => ReachedCounts')
  BY <1>1 DEF ShutdownReached, ReachedCounts, roundVars
<1>3. NoUseBeforeShutdown => NoUseBeforeShutdown'
  BY <1>1, <1>2 DEF NoUseBeforeShutdown, NoUseAfterUnload, poolVars, moduleVars
<1>4. Over' <=> Over
  BY <1>1 DEF Over, callVars
<1>5. ASSUME Typed PROVE Typed'
  <2>1. Elsewhere
    BY <1>1 DEF Elsewhere, callVars, moduleVars
  <2> QED
    BY <1>1, <1>5, <2>1, TypesStep, StatusSteps, ElsewhereCalls DEF Typed
<1>6. ASSUME DoneInv PROVE DoneInv'
  BY <1>1, <1>4, <1>6 DEF DoneInv, FramesDone, TargetDone, UncheckedLoaded, RunsLoaded, moduleVars, callVars
<1>7. ASSUME RestInv PROVE RestInv'
  <2>1. Owing' = Owing /\ (Stopping' <=> Stopping)
    BY <1>1 DEF poolVars, Owing, Owes, Stopping
  <2> QED
    BY <1>1, <1>4, <1>7, <2>1 DEF poolVars, callVars, RestInv, Registered, IdleAt, NoneCounted, SavedWaits,
       QuitAway, StopIdle, ExitQuits, Idle
<1>8. ASSUME CoverInv PROVE CoverInv'
  BY <1>1, <1>4, <1>8, CoverStutters
<1>9. ASSUME NothingInv PROVE NothingInv'
  BY <1>1, <1>4, <1>9 DEF NothingInv, Nothing, poolVars, moduleVars
<1> QED
  BY <1>1, <1>2, <1>3, <1>5, <1>6, <1>7, <1>8, <1>9 DEF InlineInv

(* Every step keeps it, the steps that crash the process included.         *)
LEMMA InlineSteps == InlineInv /\ [InlineNext]_allVars => InlineInv'
<1> SUFFICES ASSUME InlineInv, InlineNext PROVE InlineInv'
  BY InlineStutters
<1>1. CASE ShutdownReached
  BY <1>1, ReachedKept DEF InlineInv, NoUseBeforeShutdown
<1>2. CASE ~ShutdownReached
  <2>1. ~crashed /\ Typed /\ DoneInv /\ RestInv /\ CoverInv /\ NothingInv
    BY <1>2, StepCases DEF InlineInv
  <2>2. CASE ~crashed'
    <3>1. Typed'
      BY <1>2, <2>1, <2>2, InlineTypes, CallsSteps DEF Typed
    <3>2. DoneInv' /\ RestInv' /\ NothingInv'
      BY <1>2, <2>1, <2>2, DoneSteps, RestSteps, NothingSteps
    <3>3. CoverInv'
      BY <1>2, <2>1, <2>2, <3>1, CoverSteps
    <3>4. NoUseAfterUnload'
      BY <3>1, <3>2, SafeNext
    <3>5. ReachedCounts'
      BY <3>1 DEF ReachedCounts, Typed, TypeInv, TypeSystem
    <3> QED
      BY <3>1, <3>2, <3>3, <3>4, <3>5 DEF InlineInv, NoUseBeforeShutdown
  <2>3. CASE crashed'
    <3>1. CrashKept
      BY <2>1, <2>3, CrashSteps
    <3>2. NoUseAfterUnload'
      BY <2>1, <3>1, SafeState DEF CrashKept, NoUseAfterUnload
    <3>3. ~ShutdownReached'
      BY <1>2, <3>1 DEF CrashKept, roundVars, ShutdownReached
    <3> QED
      BY <2>3, <3>2, <3>3 DEF InlineInv, NoUseBeforeShutdown, ReachedCounts
  <2> QED
    BY <2>2, <2>3
<1> QED
  BY <1>1, <1>2

(* Without a thread for the controller no module executes after it has     *)
(* been unloaded, up to the round of a requested shutdown, for any pools,  *)
(* modules and commands, and however deep the calls (bvs.cc:157-162,       *)
(* control.cc:44-45, 116, bvs.h:243-249).                                  *)
THEOREM LoadedInline == InlineSpec => []NoUseBeforeShutdown
<1>1. InlineInv => NoUseBeforeShutdown
  BY DEF InlineInv
<1> QED
  BY <1>1, InlineStarts, InlineSteps, PTL DEF InlineSpec
==============================================================================
