--------------------------- MODULE MCHybridTiers ---------------------------
(* Small instances of HybridTiers. *)
EXTENDS HybridTiers, TLC

CONSTANT k1

\* All uploads are of one key.
OneKey == [i \in Items |-> k1]

Symmetry == Permutations(Values) \cup Permutations(Procs) \cup Permutations(Items)

\* Of a call, what its next steps and the properties still read: a call that
\* joined waits; a stored body is only compared after a synchronous PUT; what was
\* read is used once; an overlap with a DELETE excuses a PUT of everything; and of
\* an answer it matters whether the key was missing or a PUT failed.  Of an
\* upload, only whether it was given up.
Wants(p) ==
  LET c == call[p]
      bare == [Idle EXCEPT !.pc = c.pc, !.op = c.op, !.key = c.key]
      kept == [c EXCEPT !.item = IF c.pc \in {"send", "share"} THEN @ ELSE None,
                        !.body = IF async /\ c.pc # "store" THEN None ELSE @,
                        !.met = IF async /\ @ \subseteq {"get"} THEN {}
                                ELSE IF async \/ "delete" \in @ THEN {"delete"} ELSE @,
                        !.read = IF c.pc \in {"share", "again"} THEN None ELSE @]
  IN CASE c.pc = "idle" -> Idle
       [] c.pc = "join" -> bare
       [] c.pc = "share" /\ c.op = "put" /\ c.status = "failed" -> [bare EXCEPT !.status = "failed"]
       [] c.pc = "share" /\ c.op = "head" /\ c.status # "missing" -> bare
       [] OTHER -> kept
Answered == [p \in Procs |-> Wants(p)]
Progress == [i \in Items |->
  IF stage[i] \in {"missing", "gaveUp", "dropped"} THEN <<"dropped", 0>>
  ELSE IF stage[i] \in {"uploaded", "refused", "panicked", "lost"} THEN <<"uploaded", 0>>
  ELSE <<stage[i], attempts[i]>>]
View == <<async, stores, acked, Answered, history, held, running, closed, queue, Progress,
          worker, stopper, crashed>>
=============================================================================
