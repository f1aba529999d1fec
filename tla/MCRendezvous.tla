---------------------------- MODULE MCRendezvous -----------------------------
(* Finite instances of Rendezvous. *)
EXTENDS Rendezvous, TLC

Symmetry == Permutations(Party)
==============================================================================
