---------------------------- MODULE MCLocalStore ----------------------------
(* Small instances of LocalStore: one key and its temporary file. *)
EXTENDS LocalStore, TLC

CONSTANTS k1, t1

OneTmp == k1 :> t1
\* All keys are of one lock shard.
OneShard == [k \in Keys |-> 0]

\* An inode that no name and no caller holds is never read again before create
\* empties it: states that differ only there are the same state.
View == <<dir, [i \in Inodes |-> IF Free(i) THEN Empty ELSE data[i]],
          {i \in stale : Linked(i)}, call, cleaner>>

\* Which of the free inodes a new file gets makes no difference: the first.
FirstFree == \A n \in Names :
  dir[n] = None /\ dir'[n] # None /\ Free(dir'[n]) =>
    dir'[n] = CHOOSE i \in Inodes : Free(i)

Symmetry == Permutations(Values) \cup Permutations(Procs)
=============================================================================
