---------------------------- MODULE SingleFlight ----------------------------
(***************************************************************************)
(* The outermost backend (storage/singleflight.go) over the in-memory      *)
(* cache.  A HEAD or PUT that finds one of its kind under way for its key  *)
(* joins it: it makes no call of its own, its body is not read, and it is  *)
(* given the leader's outcome.  The group of calls is the library's        *)
(* singleflight.Group, modelled from its use.                              *)
(***************************************************************************)
EXTENDS LRUCache

VARIABLES
  flights,     \* the shared calls that the group knows
  waits,       \* the flight each request has joined, or None
  acked        \* history: keys acknowledged since they were last removed

sharing == <<flights, waits, acked>>

Shared == {"put", "head"}

\* Bug: the key alone names the flight.
GroupOfKey(op, k) == <<"any", k>>
GroupOf(op, k) == <<op, k>>

\* clean holds while no DELETE of the key, nor the backend's cleanup, has
\* overlapped the flight.
Flight(p, op, k, clean) ==
  [group |-> GroupOf(op, k), op |-> op, key |-> k, leader |-> p, clean |-> clean]

\* Bug: every request has a group of its own.
NeverUnderWay(op, k) == FALSE
UnderWay(op, k) == \E f \in flights : f.group = GroupOf(op, k)

FlightInit ==
  /\ Init
  /\ flights = {} /\ waits = [p \in Procs |-> None] /\ acked = {}

\* A request whose flight has not landed is still there.
Free(p) == waits[p] = None /\ \A f \in flights : f.leader # p
Deleting(k) == \E q \in Busy(k) : call[q].op = "delete"

-----------------------------------------------------------------------------
Lead(p, op, k) ==
  /\ ~UnderWay(op, k)
  /\ flights' = flights \cup {Flight(p, op, k, ~Deleting(k))}
  /\ UNCHANGED <<waits, acked>>

Join(p, op, k) ==
  /\ call[p].pc = "idle" /\ UnderWay(op, k)
  /\ waits' = [waits EXCEPT ![p] = [op |-> op, group |-> GroupOf(op, k)]]
  /\ UNCHANGED <<vars, flights, acked>>

\* What removes an entry ends what was promised of it.
Spoil(k) ==
  /\ flights' = {[f EXCEPT !.clean = @ /\ f.key # k] : f \in flights}
  /\ acked' = acked \ {k}
  /\ UNCHANGED waits

Request(p) == Free(p) /\ \E k \in Keys :
  \/ Lead(p, "put", k) /\ BeginPut(p, k)
  \/ Lead(p, "head", k) /\ BeginHead(p, k)
  \/ \E op \in Shared : Join(p, op, k)
  \/ BeginGet(p, k) /\ UNCHANGED sharing
  \/ BeginDelete(p, k) /\ Spoil(k)

\* The leader's call has returned, because it succeeded or because the backend
\* failed or the leader's client left: the group forgets it and all answer alike.
Land(p) == \E f \in flights :
  LET joined == {q \in Procs : waits[q] # None /\ waits[q].group = f.group}
      put == f.op = "put" \/ \E q \in joined : waits[q].op = "put"
  IN /\ f.leader = p /\ call[p].pc = "idle"
     /\ flights' = flights \ {f}
     /\ waits' = [q \in Procs |-> IF q \in joined THEN None ELSE waits[q]]
     /\ acked' = IF put /\ f.clean /\ call[p].status = "ok" THEN acked \cup {f.key} ELSE acked
     /\ UNCHANGED vars

\* A call moves on below the group.
Below(p) == Step(p) /\ UNCHANGED sharing

Loses(k) == Expire(k) /\ Spoil(k)

FlightNext ==
  \/ \E p \in Procs : Request(p) \/ Below(p) \/ Land(p)
  \/ \E k \in Keys : Loses(k)

FlightSpec == FlightInit /\ [][FlightNext]_<<vars, sharing>>

-----------------------------------------------------------------------------
\* What reaches the cache through the group is what LRUCache takes for granted:
\* among any requests, no two PUTs of one key at once (singleflight.go:46-51).
ImplementsCache == Spec

\* After a PUT was acknowledged, a follower's PUT whose body nobody read too,
\* the backend has an entry for its key, unless a DELETE or the cleanup
\* overlapped the flight or came after it (singleflight.go:25-51).
AckedPutFound == \A k \in acked : backend[k] # None
=============================================================================
