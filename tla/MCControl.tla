------------------------------ MODULE MCControl ------------------------------
(* Finite instances of Control. *)
EXTENDS Control, TLC

CONSTANTS a, b, c, P, Q

(* BVS.modules = a [P]b [Q]c *)
TwoPools == (a :> "master") @@ (b :> P) @@ (c :> Q)
(* BVS.modules = a [P]b [P]c *)
OnePool == (a :> "master") @@ (b :> P) @@ (c :> P)
(* BVS.modules = a b c *)
MasterOnly == (a :> "master") @@ (b :> "master") @@ (c :> "master")

ABC == <<a, b, c>>

AlwaysOK == [m \in Modules |-> {"OK"}]
AShutdown == [AlwaysOK EXCEPT ![a] = {"OK", "SHUTDOWN"}]
DoneOrShutdown == [AlwaysOK EXCEPT ![a] = {"OK", "SHUTDOWN"}, ![b] = {"OK", "DONE"}]
BDone == [AlwaysOK EXCEPT ![b] = {"OK", "DONE"}]
==============================================================================
