------------------------------- MODULE Inline --------------------------------
(***************************************************************************)
(* Control without a thread for the master controller: start(false)        *)
(* (daemon/src/bvsd.cc:74, lib/include/bvs/bvs.h:192-202).  Every command  *)
(* calls masterController on the thread of the caller, which returns when  *)
(* the flag is not RUN (lib/src/control.cc:85, 116, 133).  A command that  *)
(* the controller sends itself, because a module is DONE or from the       *)
(* shutdown handler, calls it once more, inside.                           *)
(*                                                                         *)
(* There is one thread beside the pools: pc["master"] is its place in the  *)
(* innermost call of masterController, and pc["client"] is "called" as     *)
(* long as there is one.  The steps between two calls are those of         *)
(* Control, where the handle of the master's thread is never joinable.     *)
(***************************************************************************)
EXTENDS Control

CONSTANT MaxDepth  \* the calls the thread's stack has room for

ASSUME InlineAssumption == MaxDepth \in Nat \ {0}

VARIABLE frames    \* the calls of masterController, the innermost first

allVars == <<vars, frames>>

InlineInit == Init /\ frames = <<>>

(* What a suspended call will go on with: the statement after sendCommand    *)
(* and its own locals.                                                       *)
Frame(caller, label) == [caller |-> caller, label |-> label, unchecked |-> unchecked,
                         target |-> target["master"], state |-> state["master"],
                         saved |-> saved["master"]]

(* Fault: the startup sync is skipped. *)
CallUnsynced(caller, label) ==
    /\ frames' = <<Frame(caller, label)>> \o frames
    /\ pc' = [pc EXCEPT !["client"] = "called", !["master"] = "head"]
    /\ UNCHANGED <<syncVars, poolVars, moduleVars, flag, roundVars, joinable,
                   stackVars, callVars, crashed>>

(* masterController(false) is called; the stack may be full (133).           *)
Call(caller, label) ==
    /\ IF Len(frames) < MaxDepth
       THEN /\ frames' = <<Frame(caller, label)>> \o frames
            /\ pc' = [pc EXCEPT !["client"] = "called", !["master"] = "startup"]
            /\ UNCHANGED crashed
       ELSE crashed' = TRUE /\ UNCHANGED <<frames, pc>>
    /\ UNCHANGED <<syncVars, poolVars, moduleVars, flag, roundVars, joinable,
                   stackVars, callVars>>

(* start(false), and the commands of the client.                             *)
Start == pc["client"] = "load" /\ todo = <<>> /\ Call("client", "idle")
ClientCommand ==
    \/ /\ pc["client"] = "notify"
       /\ Call("client", IF quitting["client"] THEN "unloadNext" ELSE "idle")
    \/ pc["client"] = "swapNotify" /\ Call("client", "swapWait")

(* The commands sent inside: unloadModule's two, and the handler's quit().   *)
InnerCommand ==
    \/ pc["master"] = "stopNotify" /\ Call("master", "stop")
    \/ pc["master"] = "resumeNotify" /\ Call("master", "unloaded")
    \/ pc["master"] = "handlerNotify" /\ Call("master", "unloadNext")

(* return *this: to the client, or into the controller that has sent the     *)
(* command, whose loop over the modules finds those that are left.           *)
ReturnTo(f) ==
    IF f.caller = "client"
    THEN /\ pc' = [pc EXCEPT !["client"] = f.label]
         /\ UNCHANGED <<unchecked, target, state, saved>>
    ELSE /\ pc' = [pc EXCEPT !["master"] = f.label]
         /\ unchecked' = f.unchecked \intersect loaded
         /\ target' = [target EXCEPT !["master"] = f.target]
         /\ state' = [state EXCEPT !["master"] = f.state]
         /\ saved' = [saved EXCEPT !["master"] = f.saved]

Return ==
    /\ pc["master"] = "done" /\ pc["client"] = "called"
    /\ ReturnTo(Head(frames))
    /\ frames' = Tail(frames)
    /\ UNCHANGED <<syncVars, poolVars, loaded, mflag, status, flag, roundVars,
                   joinable, stackVars, quitting, crashed>>

(* The client's thread, outside of the calls.                                *)
InlineClient ==
    \/ LoadIntoPool \/ LoadNewPool \/ CountPool \/ PushFirst
    \/ WhileActive("client", "swapWait") \/ StartSwap \/ SwapPause \/ EndSwap
    \/ UnloadNext("client") \/ AllUnloaded("client") \/ Unload("client")
    \/ Stop("client") \/ WhileActive("client", "inactive") \/ RemoveFromPool("client")
    \/ Restore("client") \/ Free("client") \/ PopUnloaded("client") \/ Delete

(* The same thread in masterController.                                      *)
InlineMaster ==
    \/ Startup \/ MasterWait \/ Reset \/ MasterHead \/ DispatchIdle \/ DispatchRound
    \/ \E m \in unchecked : Check(m) \/ CheckDone(m)
    \/ ContinueCheck \/ Arm \/ Launch
    \/ Pass("master") \/ PassDone("master", "step")
    \/ StepTest \/ StepWrite \/ MasterTail \/ MasterExit \/ Handler
    \/ Unload("master") \/ StopPause("master") \/ Stop("master")
    \/ WhileActive("master", "inactive") \/ RemoveFromPool("master")
    \/ Restore("master") \/ Free("master") \/ Resume("master")

InlineStep ==
    /\ Alive
    /\ \/ InlineClient /\ UNCHANGED frames
       \/ (InlineMaster \/ Sleep("master")) /\ UNCHANGED frames
       \/ Start \/ ClientCommand \/ InnerCommand \/ Return
InlinePool(p) == PoolStep(p) /\ UNCHANGED frames

InlineNext ==
    \/ InlineStep
    \/ \E p \in Pools : InlinePool(p)
    \/ Alive /\ User /\ UNCHANGED frames
    \/ \E t \in Threads : Alive /\ Wakeup(t) /\ UNCHANGED frames

InlineFairness == SF_allVars(InlineStep) /\ \A p \in Pools : SF_allVars(InlinePool(p))

InlineSpec == InlineInit /\ [][InlineNext]_allVars /\ InlineFairness
------------------------------------------------------------------------------
(* Properties.                                                               *)

(* No module executes after Loader::unload has destroyed it (bvs.h:243-249): *)
(* every call that unloads waits for the pools first, although the calls     *)
(* interrupt each other and leave pools at work (control.cc:44-45, 116).     *)
(* Only up to the shutdown round: from there on flag may be QUIT while the   *)
(* pools are at work, and a DONE module is unloaded without such a wait      *)
(* (bvs.cc:159).                                                             *)
ShutdownReached == shutdownRequested /\ round >= shutdownRound
NoUseBeforeShutdown == ~ShutdownReached => NoUseAfterUnload

(* The controller has counted pools that run already, so that none of them   *)
(* will lower activePools again: the wait of line 45 or 57 never ends.  This *)
(* is where an inner call leaves the controller that returns from line 116   *)
(* with its pools at work.                                                   *)
WaitsForNobody == /\ pc["master"] \in {"startSync", "sync"}
                  /\ activePools > 0 /\ Owing = {}

AtBound == pc["master"] = "dispatch" /\ flag \in {"RUN", "STEP"} /\ round = MaxRound

(* A command comes back to its caller (bvs.h:204-246) although the barrier   *)
(* it waits on has no other thread to notify it but the pools'.  Only RUN    *)
(* keeps the caller (bvs.h:196), and not beyond a shutdown; what else is     *)
(* excused is the count above, the bound and the end of the process.         *)
CommandReturns == pc["client"] = "called" ~>
    \/ pc["client"] # "called"
    \/ flag = "RUN" /\ ~shutdownRequested
    \/ WaitsForNobody \/ AtBound \/ crashed
==============================================================================
