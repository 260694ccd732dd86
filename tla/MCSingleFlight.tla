--------------------------- MODULE MCSingleFlight ---------------------------
(* Small instances of SingleFlight: bodies of all the sizes the code tells apart. *)
EXTENDS SingleFlight, TLC

CONSTANTS k1, k2, s, t, m, b
VARIABLE plan  \* which requests are for which key

\* s and t are cached, m is small but above the total, b is large.
Sizes == s :> 1 @@ t :> 1 @@ m :> 3 @@ b :> 5

\* The second key is there to push the first out of memory.
SomeBodies == k1 :> Values @@ k2 :> {s}

\* All requests are for one key, or two of them for both.
Plans ==
  {k1 :> Procs @@ k2 :> {}} \cup
  {k1 :> two @@ k2 :> two : two \in {q \in SUBSET Procs : Cardinality(q) = 2}}
Users(k) ==
  Busy(k) \cup {p \in Procs : waits[p] # None /\ waits[p].group \in {GroupOf(op, k) : op \in Shared}}
Planned == UNCHANGED plan /\ \A k \in Keys : Users(k)' \subseteq plan[k]

MCInit ==
  /\ FlightInit
  /\ plan \in Plans /\ \A k \in Keys : plan[k] = {} => backend[k] = None
MCNext ==
  \/ \E p \in Procs :
       \/ Request(p) /\ Planned
       \/ (Below(p) \/ Land(p)) /\ UNCHANGED plan
  \/ \E k \in Keys : Loses(k) /\ UNCHANGED plan
MCSpec == MCInit /\ [][MCNext]_<<vars, sharing, plan>>

Symmetry == Permutations(Procs)

\* The status of a call whose request has been answered is never read again.
View ==
  <<mem, recent, backend, excused, sharing, plan,
    [p \in Procs |-> IF call[p].pc = "idle" /\ Free(p) THEN None ELSE call[p]]>>
=============================================================================
