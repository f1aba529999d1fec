----------------------------- MODULE Rendezvous ------------------------------
(***************************************************************************)
(* The barrier on its own, used as its class comment shows it              *)
(* (lib/src/barrier.h:14-22): parties attach, then meet again and again    *)
(* with the one-argument enqueue(lock), whose predicate is                 *)
(* queued == parties.  Control never calls that overload, but it is the    *)
(* barrier's first documented use.                                         *)
(***************************************************************************)
EXTENDS Barrier

CONSTANTS
    MaxMeetings   \* how often a party calls enqueue(lock)

ASSUME RendezvousAssumption ==
    /\ IsFiniteSet(Party)
    /\ MaxMeetings \in Nat \ {0}

VARIABLES
    attached,   \* the parties that have called attachParty() and not left
    arrived,    \* arrived[t]: how often t has called enqueue(lock)
    crossed     \* crossed[t]: how often enqueue(lock) has returned to t

vars == <<parties, queued, at, attached, arrived, crossed>>

Init == /\ BarrierInit
        /\ attached = {}
        /\ arrived = [t \in Party |-> 0]
        /\ crossed = [t \in Party |-> 0]

------------------------------------------------------------------------------
Count(t) == crossed' = IF at'[t] = "out" THEN [crossed EXCEPT ![t] = @ + 1]
                                         ELSE crossed

Attach(t) ==
    /\ t \notin attached
    /\ arrived[t] = 0
    /\ AttachParty
    /\ attached' = attached \union {t}
    /\ UNCHANGED <<queued, at, arrived, crossed>>

Detach(t) ==
    /\ t \in attached
    /\ at[t] = "out"
    /\ arrived[t] > 0
    /\ DetachParty
    /\ attached' = attached \ {t}
    /\ UNCHANGED <<queued, at, arrived, crossed>>

(* The test sees the counter with the caller itself included. *)
Meet(t) ==
    /\ t \in attached
    /\ arrived[t] < MaxMeetings
    /\ Arrive(t, queued + 1 = parties)
    /\ arrived' = [arrived EXCEPT ![t] = @ + 1]
    /\ Count(t)
    /\ UNCHANGED attached

(* Fault: the wait does not test its predicate again (if instead of while). *)
MeetAgainUntested(t) ==
    /\ Recheck(t, TRUE)
    /\ Count(t)
    /\ UNCHANGED <<attached, arrived>>

MeetAgain(t) ==
    /\ Recheck(t, queued = parties)
    /\ Count(t)
    /\ UNCHANGED <<attached, arrived>>

Sleep(t) ==
    /\ Block(t)
    /\ UNCHANGED <<attached, arrived, crossed>>

Spurious(t) ==
    /\ SpuriousWakeup(t)
    /\ UNCHANGED <<attached, arrived, crossed>>

Step(t) == Meet(t) \/ MeetAgain(t) \/ Sleep(t)

Next == \E t \in Party : Attach(t) \/ Detach(t) \/ Step(t) \/ Spurious(t)

Spec == Init /\ [][Next]_vars

------------------------------------------------------------------------------
(* The two counters agree with who has attached and who waits               *)
(* (barrier.cc:16-30, 46-49).                                                *)
TypeOK == /\ parties = Cardinality(attached)
          /\ queued \in 0 .. Cardinality(attached)
          /\ at \in [Party -> WaitState]
          /\ attached \subseteq Party
          /\ arrived \in [Party -> 0 .. MaxMeetings]
          /\ crossed \in [Party -> 0 .. MaxMeetings]

(* enqueue(lock) returns only while every attached party is inside it: the   *)
(* predicate is tested under the mutex, so the count cannot be stale.        *)
LeavesOnlyWhenFull ==
    [][\A t \in Party : crossed'[t] > crossed[t]
                            => attached \subseteq Inside \union {t}]_vars
==============================================================================
