----------------------------- MODULE MCCallPath -----------------------------
(* CallPath on small instances. *)
EXTENDS CallPath, TLC
Symmetry == Permutations(Calls) \cup Permutations(Agents)
=============================================================================
