------------------------------- MODULE MCNested -------------------------------
(* Modules that lock a connection and use another one meanwhile. *)
EXTENDS System, TLC

CONSTANTS s, z,          \* modules, in the order of the map
          s1, s2, z1, z2 \* their connectors

(* BVS.modules = s, z(l).z1(s.s1).z2(s.s2): both connect the same two        *)
(* modules, which may lock them in different orders.                         *)
Owners == (s1 :> s) @@ (s2 :> s) @@ (z1 :> z) @@ (z2 :> z)
WishesBoth == (z1 :> s1) @@ (z2 :> s2)
Ranks == (s1 :> 1) @@ (s2 :> 2) @@ (z1 :> 3) @@ (z2 :> 4)
SameType == [c \in Connectors |-> "T"]
OneLibrary == [m \in Modules |-> "l"]
==============================================================================
