------------------------------- MODULE Rounds --------------------------------
(***************************************************************************)
(* What Control promises its modules, without barrier, flags or threads:   *)
(* the system runs in rounds (master controller, lib/src/control.cc:52).   *)
(* A round lets every module of the system execute once, in any order and  *)
(* in parallel, and the next round starts only when all of them have done  *)
(* so.  Modules come before the first round and leave between two rounds.  *)
(* Once the system is closing, they leave at any time, and a module may be *)
(* dropped without executing.                                              *)
(***************************************************************************)
EXTENDS Naturals

CONSTANT Module

VARIABLES
    round,      \* rounds started so far
    present,    \* the modules of the system
    pending,    \* modules that still have to execute in this round
    closing     \* the master controller has left its loop

vars == <<round, present, pending, closing>>

Init == round = 0 /\ present = {} /\ pending = {} /\ closing = FALSE

Load(m) == /\ round = 0
           /\ present' = present \union {m}
           /\ UNCHANGED <<round, pending, closing>>

StartRound == /\ ~closing
              /\ pending = {}
              /\ round' = round + 1
              /\ pending' = present
              /\ UNCHANGED <<present, closing>>

Execute(m) == /\ m \in pending
              /\ pending' = pending \ {m}
              /\ UNCHANGED <<round, present, closing>>

Leave(m) == /\ closing \/ pending = {}
            /\ present' = present \ {m}
            /\ pending' = pending \ {m}
            /\ UNCHANGED <<round, closing>>

Close == /\ ~closing
         /\ closing' = TRUE
         /\ UNCHANGED <<round, present, pending>>

Drop(m) == /\ closing
           /\ m \in pending
           /\ pending' = pending \ {m}
           /\ UNCHANGED <<round, present, closing>>

Next == \/ StartRound \/ Close
        \/ \E m \in Module : Load(m) \/ Execute(m) \/ Leave(m) \/ Drop(m)

Spec == Init /\ [][Next]_vars
==============================================================================
