------------------------------ MODULE MCInline -------------------------------
(* Finite instances of Inline. *)
EXTENDS Inline, TLC

CONSTANTS a, b, c, P

(* BVS.modules = a [P]b [P]c *)
OnePool == (a :> "master") @@ (b :> P) @@ (c :> P)
ABC == <<a, b, c>>
AlwaysOK == [m \in Modules |-> {"OK"}]
DoneOrShutdown == [AlwaysOK EXCEPT ![a] = {"OK", "SHUTDOWN"}, ![b] = {"OK", "DONE"}]
==============================================================================
