------------------------------ MODULE LRUCache ------------------------------
(***************************************************************************)
(* The in-memory cache in front of a backend (storage/lru_cache.go).  It   *)
(* reads and writes the memory and the backend in separate steps, under no *)
(* lock of its own.  The backend is a map whose calls take effect at one   *)
(* instant, may fail, and may lose entries to its own cleanup.  That two   *)
(* PUTs of a key are never under way at once is what SingleFlight adds.    *)
(***************************************************************************)
EXTENDS Integers, Sequences, FiniteSets

CONSTANTS
  Procs,        \* the concurrent requests
  Keys,         \* the storage keys
  Values,       \* the bodies
  Bodies,       \* those that each key may be given
  SizeOf,       \* the size of each body
  MaxTotal,     \* maxTotalSize
  MaxEntry,     \* maxEntrySize
  MinEntries,   \* the least number of entries, 64 in the code
  None          \* no key, no body, no entry

\* config.go wraps the backend only if maxTotalSize is positive; an entry size
\* of 1 would divide by zero.
ASSUME CacheAssumption ==
  /\ MaxTotal \in Nat \ {0} /\ MaxEntry \in Nat \ {0, 1} /\ MinEntries \in Nat \ {0}
  /\ SizeOf \in [Values -> Nat \ {0}] /\ Bodies \in [Keys -> SUBSET Values]
  /\ None \notin Keys \cup Values

VARIABLES
  mem,          \* the entry of each key in memory, or None
  recent,       \* the keys in memory, the least recently used first
  backend,      \* the entry of each key in the backend, or None
  call,         \* the call of each request, see Idle
  excused       \* history: keys whose entry in memory may differ, see Excuse

vars == <<mem, recent, backend, call, excused>>

\* Go divides integers, and its quotient rounds down as \div does here.
EstimatedEntries ==
  LET n == MaxTotal \div (MaxEntry \div 2)
  IN IF n < MinEntries THEN MinEntries ELSE n

\* alone holds while no other call, nor the backend's cleanup, has touched the
\* key since the call began.
Idle == [pc |-> "idle", op |-> None, key |-> None, body |-> None,
         status |-> "pending", alone |-> TRUE]
Busy(k) == {p \in Procs : call[p].pc # "idle" /\ call[p].key = k}
Key(p) == call[p].key

Init ==
  /\ mem = [k \in Keys |-> None] /\ recent = <<>>
  /\ backend \in {e \in [Keys -> Values \cup {None}] : \A k \in Keys : e[k] \in Bodies[k] \cup {None}}
  /\ call = [p \in Procs |-> Idle]
  /\ excused = {}

-----------------------------------------------------------------------------
\* The library's cache: Get and Add make a key the most recently used one, and
\* Add drops the least recently used one when there is no room.
Without(k) ==
  LET at == CHOOSE i \in 1..Len(recent) : recent[i] = k
  IN IF \A i \in 1..Len(recent) : recent[i] # k THEN recent
     ELSE [i \in 1..Len(recent) - 1 |-> recent[IF i < at THEN i ELSE i + 1]]
Touch(k) == recent' = Append(Without(k), k)

Add(k, v) ==
  LET full == Len(Append(Without(k), k)) > EstimatedEntries
      old == Head(Append(Without(k), k))
  IN /\ recent' = IF full THEN Tail(Append(Without(k), k)) ELSE Append(Without(k), k)
     /\ mem' = [x \in Keys |-> IF full /\ x = old THEN None
                              ELSE IF x = k THEN v ELSE mem[x]]

Remove(k) ==
  /\ recent' = Without(k)
  /\ mem' = [mem EXCEPT ![k] = None]

Small(v) == SizeOf[v] <= MaxEntry
\* Bug: the total is compared with the wrong limit.
FitsAnEntry(v) == SizeOf[v] <= MaxEntry
Fits(v) == SizeOf[v] <= MaxTotal

AddToCache(k, v) ==
  IF Fits(v) THEN Add(k, v) ELSE UNCHANGED <<mem, recent>>

\* What makes memory and backend differ for a time is history: calls that
\* overlap, a call that fails, an entry the backend loses ("other"), and a PUT
\* that bypasses the memory ("bypass").  A call that overlapped no other and
\* set both settles the key again.
Reasons == {"other", "bypass"}
Excuse(k, why) == excused' = excused \cup {<<k, why>>}
Settle(k) == excused' = excused \ ({k} \X Reasons)

Begin(p, op, step, k, v) ==
  /\ call[p].pc = "idle"
  /\ call' = [q \in Procs |->
       IF q = p THEN [Idle EXCEPT !.pc = step, !.op = op, !.key = k, !.body = v,
                                  !.alone = Busy(k) = {}]
       ELSE [call[q] EXCEPT !.alone = @ /\ q \notin Busy(k)]]
  /\ IF Busy(k) = {} THEN UNCHANGED excused ELSE Excuse(k, "other")
  /\ UNCHANGED <<mem, recent, backend>>

BeginPut(p, k) == \E v \in Bodies[k] : Begin(p, "put", "accept", k, v)
BeginGet(p, k) == Begin(p, "get", "lookup", k, None)
BeginHead(p, k) == Begin(p, "head", "lookup", k, None)
BeginDelete(p, k) == Begin(p, "delete", "forget", k, None)

\* SingleFlight does not let two PUTs of a key through at once.
Start(p) == \E k \in Keys :
  \/ (\A q \in Busy(k) : call[q].op # "put") /\ BeginPut(p, k)
  \/ BeginGet(p, k) \/ BeginHead(p, k) \/ BeginDelete(p, k)

Goto(p, step) == call' = [call EXCEPT ![p].pc = step]
Answer(p, s) == call' = [call EXCEPT ![p] = [Idle EXCEPT !.status = s]]

-----------------------------------------------------------------------------
\* GET and HEAD are answered from memory if the key is there.
Lookup(p) ==
  /\ call[p].pc = "lookup"
  /\ \/ mem[Key(p)] # None /\ Touch(Key(p)) /\ Answer(p, "ok")
     \/ mem[Key(p)] = None /\ Goto(p, "ask") /\ UNCHANGED recent
  /\ UNCHANGED <<mem, backend, excused>>

\* The backend's answer: a GET of a small entry goes on to read it into memory.
Ask(p) ==
  LET v == backend[Key(p)] IN
  /\ call[p].pc = "ask"
  /\ \/ /\ v # None /\ call[p].op = "get" /\ Small(v)
        /\ call' = [call EXCEPT ![p].pc = "fill", ![p].body = v]
     \/ v # None /\ (call[p].op = "head" \/ ~Small(v)) /\ Answer(p, "ok")
     \/ v = None /\ Answer(p, "missing")
     \/ Answer(p, "failed")
  /\ UNCHANGED <<mem, recent, backend, excused>>

Fill(p) ==
  /\ call[p].pc = "fill"
  /\ \/ /\ AddToCache(Key(p), call[p].body) /\ Answer(p, "ok")
        /\ IF call[p].alone THEN Settle(Key(p)) ELSE UNCHANGED excused
     \/ Answer(p, "failed") /\ UNCHANGED <<mem, recent, excused>>
  /\ UNCHANGED backend

\* A small body is read and cached before the backend has seen it; a large one
\* leaves the memory as it is.
Accept(p) ==
  LET v == call[p].body IN
  /\ call[p].pc = "accept"
  /\ \/ Small(v) /\ AddToCache(Key(p), v) /\ Goto(p, "store")
     \/ ~Small(v) /\ Goto(p, "store") /\ UNCHANGED <<mem, recent>>
     \/ Small(v) /\ Answer(p, "failed") /\ UNCHANGED <<mem, recent>>
  /\ UNCHANGED <<backend, excused>>

Bypassed(p) == ~(Small(call[p].body) /\ Fits(call[p].body))

Store(p) ==
  /\ call[p].pc = "store"
  /\ \/ /\ backend' = [backend EXCEPT ![Key(p)] = call[p].body] /\ Answer(p, "ok")
        /\ IF Bypassed(p) THEN Excuse(Key(p), "bypass")
           ELSE IF call[p].alone THEN Settle(Key(p)) ELSE UNCHANGED excused
     \/ /\ Answer(p, "failed") /\ Excuse(Key(p), "other")
        /\ UNCHANGED backend
  /\ UNCHANGED <<mem, recent>>

\* Bug: the memory is not told of a DELETE.
KeepsEntry(k) == UNCHANGED <<mem, recent>>
Forgets(k) == Remove(k)

Forget(p) ==
  /\ call[p].pc = "forget"
  /\ Forgets(Key(p)) /\ Goto(p, "delete")
  /\ UNCHANGED <<backend, excused>>

Delete(p) ==
  /\ call[p].pc = "delete"
  /\ \/ /\ backend' = [backend EXCEPT ![Key(p)] = None] /\ Answer(p, "ok")
        /\ IF call[p].alone THEN Settle(Key(p)) ELSE UNCHANGED excused
     \/ Answer(p, "failed") /\ Excuse(Key(p), "other") /\ UNCHANGED backend
  /\ UNCHANGED <<mem, recent>>

\* The backend's cleanup removes an entry; the memory keeps its own.
Expire(k) ==
  /\ backend[k] # None
  /\ backend' = [backend EXCEPT ![k] = None]
  /\ Excuse(k, "other")
  /\ call' = [q \in Procs |-> [call[q] EXCEPT !.alone = @ /\ q \notin Busy(k)]]
  /\ UNCHANGED <<mem, recent>>

-----------------------------------------------------------------------------
Step(p) ==
  Lookup(p) \/ Ask(p) \/ Fill(p) \/ Accept(p) \/ Store(p) \/ Forget(p) \/ Delete(p)

Next ==
  \/ \E p \in Procs : Start(p) \/ Step(p)
  \/ \E k \in Keys : Expire(k)

Spec == Init /\ [][Next]_vars

-----------------------------------------------------------------------------
Cached == {k \in Keys : mem[k] # None}
CallType ==
  [pc : {"idle", "lookup", "ask", "fill", "accept", "store", "forget", "delete"},
   op : {"put", "get", "head", "delete", None}, key : Keys \cup {None},
   body : Values \cup {None}, status : {"pending", "ok", "missing", "failed"},
   alone : BOOLEAN]

\* The keys in memory are those in the order of use, each once, no more than
\* there is room for, and only bodies small enough are among them
\* (lru_cache.go:34-115).
TypeOK ==
  /\ mem \in [Keys -> {v \in Values : SizeOf[v] <= MaxEntry /\ SizeOf[v] <= MaxTotal}
                     \cup {None}]
  /\ recent \in Seq(Keys) /\ {recent[i] : i \in 1..Len(recent)} = Cached
  /\ Len(recent) = Cardinality(Cached) /\ Len(recent) <= EstimatedEntries
  /\ backend \in [Keys -> Values \cup {None}]
  /\ call \in [Procs -> CallType]
  /\ excused \subseteq Keys \X Reasons

Coherent(k, reasons) ==
  mem[k] = None \/ Busy(k) # {} \/ mem[k] = backend[k]
    \/ \E why \in reasons : <<k, why>> \in excused

\* While no call on it is under way, a key in memory has the entry the backend
\* has, unless calls overlapped, failed, bypassed the memory or the backend
\* lost the entry: there is no other way to a stale read (lru_cache.go:56-115).
StaleOnlyWhenExcused == \A k \in Keys : Coherent(k, Reasons)

\* storage.go:18, "Put stores an object at the given key": calls that follow
\* one another and all succeed leave no older body to be read.
PutReplaces == \A k \in Keys : Coherent(k, {"other"})
=============================================================================
