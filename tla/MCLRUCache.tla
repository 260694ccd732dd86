----------------------------- MODULE MCLRUCache -----------------------------
(* Small instances of LRUCache: bodies of all the sizes the code tells apart. *)
EXTENDS LRUCache, TLC

CONSTANTS s, t, m, b

\* s and t are cached, m is small but above the total, b is large.
Sizes == s :> 1 @@ t :> 1 @@ m :> 3 @@ b :> 5

AnyBody == [k \in Keys |-> Values]

Symmetry == Permutations(Procs) \cup Permutations(Keys) \cup Permutations({s, t})
=============================================================================
