------------------------------- MODULE MC_App -------------------------------
(* Small instances of App for TLC. *)
EXTENDS App, TLC

Symmetry == Permutations(Pushes) \cup Permutations(Users)
=============================================================================
