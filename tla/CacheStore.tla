----------------------------- MODULE CacheStore -----------------------------
(***************************************************************************)
(* What a storage.Backend promises its callers (storage.go:10-24): a map   *)
(* from keys to entries in which every call takes effect at one instant    *)
(* between its start and its return.  A PUT stores all of its value or     *)
(* fails and stores nothing; a GET delivers the whole of one stored value, *)
(* whatever happens to the entry while it streams.  This being a cache, an *)
(* entry may disappear at any time, and a restart forgets the calls but    *)
(* keeps the entries.                                                      *)
(***************************************************************************)
EXTENDS Naturals, Sequences

CONSTANTS
  Procs,      \* the concurrent callers
  Keys,       \* the storage keys
  Values,     \* the bodies a PUT can carry
  Chunks,     \* the number of chunks of a body
  None        \* no entry, no key, no value

VARIABLES
  store,      \* the entry of each key, or None
  call,       \* what each caller is doing: <<operation, key or value>>
  reply       \* what each caller's last call returned

vars == <<store, call, reply>>

Whole(v) == [c \in 1..Chunks |-> v]
Pending == [status |-> "pending", size |-> 0, body |-> <<>>]
Failed(b) == [status |-> "failed", size |-> 0, body |-> b]
Stored == [status |-> "ok", size |-> 0, body |-> <<>>]
Missing == [status |-> "missing", size |-> 0, body |-> <<>>]
Present == [status |-> "ok", size |-> Chunks, body |-> <<>>]
Hit(v) == [status |-> "ok", size |-> Chunks, body |-> Whole(v)]

Idle == <<"idle", None, None>>

Init ==
  /\ store = [k \in Keys |-> None]
  /\ call = [p \in Procs |-> Idle]
  /\ reply = [p \in Procs |-> Pending]

Return(p, r) ==
  /\ call' = [call EXCEPT ![p] = Idle]
  /\ reply' = [reply EXCEPT ![p] = r]

Begin(p, op, k, v) ==
  /\ call[p] = Idle
  /\ call' = [call EXCEPT ![p] = <<op, k, v>>]
  /\ reply' = [reply EXCEPT ![p] = Pending]
  /\ UNCHANGED store

\* A call other than an idle one may fail, and then changes nothing.  A GET
\* may fail after a part of the body has been delivered.
Fail(p) ==
  /\ call[p] # Idle
  /\ \/ Return(p, Failed(<<>>))
     \/ \E n \in 1..Chunks, v \in Values :
          /\ call[p] = <<"reading", None, v>>
          /\ Return(p, Failed([c \in 1..n |-> v]))
  /\ UNCHANGED store

Commit(p) == \E k \in Keys, v \in Values :
  /\ call[p] = <<"put", k, v>>
  /\ store' = [store EXCEPT ![k] = v]
  /\ Return(p, Stored)

Open(p) == \E k \in Keys :
  /\ call[p] = <<"get", k, None>>
  /\ \/ /\ store[k] # None
        /\ call' = [call EXCEPT ![p] = <<"reading", None, store[k]>>]
        /\ UNCHANGED reply
     \/ /\ store[k] = None
        /\ Return(p, Missing)
  /\ UNCHANGED store

Deliver(p) == \E v \in Values :
  /\ call[p] = <<"reading", None, v>>
  /\ Return(p, Hit(v))
  /\ UNCHANGED store

Probe(p) == \E k \in Keys :
  /\ call[p] = <<"head", k, None>>
  /\ Return(p, IF store[k] = None THEN Missing ELSE Present)
  /\ UNCHANGED store

Remove(p) == \E k \in Keys :
  /\ call[p] = <<"delete", k, None>>
  /\ store' = [store EXCEPT ![k] = None]
  /\ Return(p, Stored)

Evict(k) ==
  /\ store[k] # None
  /\ store' = [store EXCEPT ![k] = None]
  /\ UNCHANGED <<call, reply>>

Restart ==
  /\ call' = [p \in Procs |-> Idle]
  /\ reply' = [p \in Procs |-> Pending]
  /\ UNCHANGED store

Next ==
  \/ \E p \in Procs, k \in Keys :
       \/ \E v \in Values : Begin(p, "put", k, v)
       \/ \E op \in {"get", "head", "delete"} : Begin(p, op, k, None)
  \/ \E p \in Procs :
       Fail(p) \/ Commit(p) \/ Open(p) \/ Deliver(p) \/ Probe(p) \/ Remove(p)
  \/ \E k \in Keys : Evict(k)
  \/ Restart

Spec == Init /\ [][Next]_vars
=============================================================================
