------------------------------ MODULE MCLoader -------------------------------
(* Finite instances of Loader in its rounds. *)
EXTENDS System, TLC

CONSTANTS a, s, z,       \* modules, in the order of the map
          ain, sout, zin \* their connectors

(* BVS.modules = s, a(t).ain(s.sout), z(t).zin(s.sout): one source, a reader *)
(* before it and one behind it in the map, which share a library.            *)
Owners == (ain :> a) @@ (sout :> s) @@ (zin :> z)
Wishes2 == (ain :> sout) @@ (zin :> sout)
Ranks == (ain :> 1) @@ (sout :> 2) @@ (zin :> 3)
SameType == [c \in Connectors |-> "T"]
TwoLibraries == (a :> "t") @@ (s :> "s") @@ (z :> "t")
==============================================================================
