------------------------------ MODULE MCHybrid ------------------------------
(* Small instances of Hybrid. *)
EXTENDS Hybrid, TLC

CONSTANT k1

\* All uploads are of one key.
OneKey == [i \in Items |-> k1]

Symmetry == Permutations(Values) \cup Permutations(Procs) \cup Permutations(Items)
=============================================================================
