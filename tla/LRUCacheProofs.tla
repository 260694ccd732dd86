--------------------------- MODULE LRUCacheProofs ---------------------------
(***************************************************************************)
(* Proofs about LRUCache, for any number of requests, keys, bodies and     *)
(* sizes: the memory and its order of use agree and stay within their      *)
(* room, and a key in memory has the entry the backend has unless calls    *)
(* overlapped, failed, bypassed the memory or the backend lost the entry.  *)
(***************************************************************************)
EXTENDS LRUCache, FiniteSetTheorems, TLAPS

\* The steps that belong to each kind of call.
InStep(c) ==
  /\ c.pc \in {"accept", "store"} => c.op = "put" /\ c.body \in Values
  /\ c.pc \in {"forget", "delete"} => c.op = "delete"
  /\ c.pc \in {"lookup", "ask", "fill"} => c.op \in {"get", "head"}
  /\ c.pc = "fill" => c.body \in Values /\ Small(c.body)
  /\ c.pc # "idle" => c.key \in Keys

Types ==
  /\ backend \in [Keys -> Values \cup {None}]
  /\ call \in [Procs -> CallType]
  /\ \A p \in Procs : InStep(call[p])

\* What the calls are asked to do, whatever history says of them.
Same(q) ==
  /\ call'[q].pc = call[q].pc /\ call'[q].op = call[q].op
  /\ call'[q].key = call[q].key /\ call'[q].status = call[q].status
  /\ call'[q].body = call[q].body

LEMMA IdleType == Idle \in CallType /\ InStep(Idle)
BY DEF Idle, CallType, InStep

LEMMA TypesStart == Init => Types
BY IdleType DEF Init, Types

\* A call that begins, or the cleanup, ends the solitude of those on its key.
LEMMA Joined ==
  ASSUME NEW q \in Procs, NEW k, call[q] \in CallType, InStep(call[q]),
         call'[q] = [call[q] EXCEPT !.alone = @ /\ q \notin Busy(k)]
  PROVE  /\ call'[q] \in CallType /\ InStep(call'[q]) /\ Same(q)
         /\ call'[q].alone <=> call[q].alone /\ q \notin Busy(k)
<1>1. CASE call[q].alone /\ q \notin Busy(k)
  <2>1. call'[q] = [call[q] EXCEPT !.alone = TRUE]
    BY <1>1
  <2> QED
    BY <1>1, <2>1 DEF CallType, InStep, Same
<1>2. CASE ~(call[q].alone /\ q \notin Busy(k))
  <2>1. call'[q] = [call[q] EXCEPT !.alone = FALSE]
    BY <1>2
  <2> QED
    BY <1>2, <2>1 DEF CallType, InStep, Same
<1> QED
  BY <1>1, <1>2

\* The kinds of calls that begin.
Kind(op, step, v) ==
  \/ op = "put" /\ step = "accept" /\ v \in Values
  \/ op \in {"get", "head"} /\ step = "lookup" /\ v = None
  \/ op = "delete" /\ step = "forget" /\ v = None

LEMMA BeginEffect ==
  ASSUME Types, NEW p \in Procs, NEW k \in Keys, NEW op, NEW step, NEW v,
         Kind(op, step, v), Begin(p, op, step, k, v)
  PROVE  /\ Types' /\ UNCHANGED backend /\ call[p].pc = "idle"
         /\ call'[p].pc = step /\ call'[p].op = op /\ call'[p].key = k
         /\ \A q \in Procs : q # p => Same(q)
<1>1. /\ call[p].pc = "idle" /\ UNCHANGED backend
      /\ call' = [q \in Procs |->
           IF q = p THEN [Idle EXCEPT !.pc = step, !.op = op, !.key = k, !.body = v,
                                      !.alone = Busy(k) = {}]
           ELSE [call[q] EXCEPT !.alone = @ /\ q \notin Busy(k)]]
  BY DEF Begin
<1>2. /\ call'[p] = [pc |-> step, op |-> op, key |-> k, body |-> v,
                     status |-> "pending", alone |-> Busy(k) = {}]
  BY <1>1 DEF Idle
<1>3. call'[p] \in CallType /\ InStep(call'[p])
  BY <1>2 DEF CallType, InStep, Kind
<1>4. ASSUME NEW q \in Procs, q # p
      PROVE  call'[q] \in CallType /\ InStep(call'[q]) /\ Same(q)
  BY <1>1, <1>4, Joined DEF Types
<1>5. call' \in [Procs -> CallType]
  BY <1>1, <1>3, <1>4
<1> QED
  BY <1>1, <1>2, <1>3, <1>4, <1>5 DEF Types

LEMMA ExpireEffect ==
  ASSUME Types, NEW k \in Keys, Expire(k)
  PROVE  /\ Types' /\ \A q \in Procs : Same(q)
         /\ \A x \in Keys : x # k => backend'[x] = backend[x]
<1>1. /\ backend' = [backend EXCEPT ![k] = None]
      /\ call' = [q \in Procs |-> [call[q] EXCEPT !.alone = @ /\ q \notin Busy(k)]]
  BY DEF Expire
<1>2. ASSUME NEW q \in Procs
      PROVE  call'[q] \in CallType /\ InStep(call'[q]) /\ Same(q)
  BY <1>1, Joined DEF Types
<1>3. call' \in [Procs -> CallType]
  BY <1>1, <1>2
<1> QED
  BY <1>1, <1>2, <1>3 DEF Types

\* A step of a call: it moves on or answers, and removes an entry only for a
\* DELETE; a PUT that succeeds leaves one.
LEMMA StepEffect ==
  ASSUME Types, CacheAssumption, NEW p \in Procs, Step(p)
  PROVE  /\ Types' /\ call[p].pc # "idle"
         /\ \A q \in Procs : q # p => call'[q] = call[q]
         /\ call'[p].pc # "idle" => call'[p].op = call[p].op /\ call'[p].key = call[p].key
         /\ \A x \in Keys : backend[x] # None /\ backend'[x] = None =>
              call[p].op = "delete" /\ call[p].key = x
         /\ call'[p].pc = "idle" /\ call[p].op = "put" /\ call'[p].status = "ok" =>
              backend'[call[p].key] # None
<1> DEFINE c == call[p]
           Moved(step, v) == call' = [call EXCEPT ![p] = [c EXCEPT !.pc = step, !.body = v]]
           Ended(s) == call' = [call EXCEPT ![p] = [Idle EXCEPT !.status = s]]
<1>1. c \in CallType /\ InStep(c)
  BY DEF Types
<1>2. ASSUME NEW s \in {"ok", "missing", "failed"}, Ended(s)
      PROVE  /\ call' \in [Procs -> CallType] /\ \A q \in Procs : InStep(call'[q])
             /\ call'[p].pc = "idle" /\ call'[p].status = s
             /\ \A q \in Procs : q # p => call'[q] = call[q]
  <2>1. LET d == [Idle EXCEPT !.status = s]
        IN d \in CallType /\ InStep(d) /\ d.pc = "idle" /\ d.status = s
    BY DEF Idle, CallType, InStep
  <2> QED
    BY <1>2, <2>1 DEF Types
<1>3. ASSUME NEW step \in {"ask", "fill", "store", "delete"}, NEW v \in Values \cup {None},
             Moved(step, v),
             step \in {"ask", "fill"} => c.op \in {"get", "head"},
             step = "fill" => v \in Values /\ Small(v),
             step = "store" => c.op = "put" /\ v \in Values,
             step = "delete" => c.op = "delete", c.key \in Keys
      PROVE  /\ call' \in [Procs -> CallType] /\ \A q \in Procs : InStep(call'[q])
             /\ call'[p].pc # "idle" /\ call'[p].op = c.op /\ call'[p].key = c.key
             /\ \A q \in Procs : q # p => call'[q] = call[q]
  <2>1. LET d == [c EXCEPT !.pc = step, !.body = v]
        IN d \in CallType /\ InStep(d) /\ d.pc = step /\ d.op = c.op /\ d.key = c.key
    BY <1>1, <1>3 DEF CallType, InStep
  <2> QED
    BY <1>3, <2>1 DEF Types
<1>4. ASSUME NEW step, call' = [call EXCEPT ![p].pc = step] PROVE Moved(step, c.body)
  BY <1>1, <1>4 DEF CallType, Types
<1>5. c.body \in Values \cup {None}
  BY <1>1 DEF CallType
<1>6. CASE Lookup(p)
  <2>1. /\ c.pc = "lookup" /\ c.op \in {"get", "head"} /\ c.key \in Keys /\ UNCHANGED backend
        /\ Ended("ok") \/ Moved("ask", c.body)
    BY <1>1, <1>4, <1>6 DEF Lookup, Goto, Answer, InStep
  <2> QED
    BY <2>1, <1>2, <1>3, <1>5 DEF Types
<1>7. CASE Ask(p)
  <2>1. /\ c.pc = "ask" /\ c.op \in {"get", "head"} /\ c.key \in Keys /\ UNCHANGED backend
        /\ backend[c.key] \in Values \cup {None}
    BY <1>1, <1>7 DEF Ask, InStep, Types
  <2>2. CASE \E s \in {"ok", "missing", "failed"} : Ended(s)
    BY <2>1, <2>2, <1>2 DEF Types
  <2>3. CASE /\ backend[c.key] # None /\ Small(backend[c.key])
             /\ call' = [call EXCEPT ![p].pc = "fill", ![p].body = backend[c.key]]
    <3>1. Moved("fill", backend[c.key])
      BY <1>1, <2>3 DEF CallType, Types
    <3> QED
      BY <2>1, <2>3, <3>1, <1>3 DEF Types
  <2> QED
    BY <1>7, <2>2, <2>3 DEF Ask, Answer, Key
<1>8. CASE Fill(p)
  <2>1. /\ c.pc = "fill" /\ c.op \in {"get", "head"} /\ UNCHANGED backend
        /\ Ended("ok") \/ Ended("failed")
    BY <1>1, <1>8 DEF Fill, Answer, InStep
  <2> QED
    BY <2>1, <1>2 DEF Types
<1>9. CASE Accept(p)
  <2>1. /\ c.pc = "accept" /\ c.op = "put" /\ c.key \in Keys /\ c.body \in Values
        /\ UNCHANGED backend
        /\ Ended("failed") \/ Moved("store", c.body)
    BY <1>1, <1>4, <1>9 DEF Accept, Goto, Answer, InStep
  <2> QED
    BY <2>1, <1>2, <1>3, <1>5 DEF Types
<1>10. CASE Store(p)
  <2>1. /\ c.pc = "store" /\ c.op = "put" /\ c.key \in Keys /\ c.body \in Values
        /\ \/ backend' = [backend EXCEPT ![c.key] = c.body] /\ Ended("ok")
           \/ UNCHANGED backend /\ Ended("failed")
    BY <1>1, <1>10 DEF Store, Answer, Key, InStep
  <2> QED
    BY <2>1, <1>2 DEF Types, CacheAssumption
<1>11. CASE Forget(p)
  <2>1. /\ c.pc = "forget" /\ c.op = "delete" /\ c.key \in Keys /\ UNCHANGED backend
        /\ Moved("delete", c.body)
    BY <1>1, <1>4, <1>11 DEF Forget, Goto, InStep
  <2> QED
    BY <2>1, <1>3, <1>5 DEF Types
<1>12. CASE Delete(p)
  <2>1. /\ c.pc = "delete" /\ c.op = "delete" /\ c.key \in Keys
        /\ \/ backend' = [backend EXCEPT ![c.key] = None] /\ Ended("ok")
           \/ UNCHANGED backend /\ Ended("failed")
    BY <1>1, <1>12 DEF Delete, Answer, Key, InStep
  <2> QED
    BY <2>1, <1>2 DEF Types
<1> QED
  BY <1>6, <1>7, <1>8, <1>9, <1>10, <1>11, <1>12 DEF Step

-----------------------------------------------------------------------------
\* The memory is a set of entries in an order of use, each key there once.
Storable == {v \in Values : SizeOf[v] <= MaxEntry /\ SizeOf[v] <= MaxTotal}
Distinct(s) == \A i, j \in 1..Len(s) : s[i] = s[j] => i = j
Elements(s) == {s[i] : i \in 1..Len(s)}

Tidy ==
  /\ mem \in [Keys -> Storable \cup {None}]
  /\ recent \in Seq(Keys) /\ Distinct(recent) /\ Elements(recent) = Cached
  /\ Len(recent) <= EstimatedEntries

LEMMA RoomForOne == EstimatedEntries \in Nat /\ EstimatedEntries >= 1
BY CacheAssumption DEF EstimatedEntries

\* Taking a key out of the order leaves the others, one place less if it was there.
LEMMA WithoutLeaves ==
  ASSUME NEW k, recent \in Seq(Keys), Distinct(recent)
  PROVE  /\ Without(k) \in Seq(Keys) /\ Distinct(Without(k))
         /\ Elements(Without(k)) = Elements(recent) \ {k}
         /\ Len(Without(k)) = IF k \in Elements(recent) THEN Len(recent) - 1 ELSE Len(recent)
<1> DEFINE n == Len(recent)
<1>1. n \in Nat /\ \A i \in 1..n : recent[i] \in Keys
  OBVIOUS
<1>2. CASE \A i \in 1..n : recent[i] # k
  <2>1. Without(k) = recent /\ k \notin Elements(recent)
    BY <1>2 DEF Without, Elements
  <2> QED
    BY <2>1
<1>3. CASE \E i \in 1..n : recent[i] = k
  <2> DEFINE at == CHOOSE i \in 1..n : recent[i] = k
             w == [i \in 1..n - 1 |-> recent[IF i < at THEN i ELSE i + 1]]
  <2>1. at \in 1..n /\ recent[at] = k
    BY <1>3
  <2>2. Without(k) = w
    BY <1>3 DEF Without
  <2> HIDE DEF at
  <2>3. n - 1 \in Nat /\ \A i \in 1..n - 1 : w[i] \in Keys
    BY <1>1, <2>1
  <2>4. w \in Seq(Keys) /\ Len(w) = n - 1
    BY <2>3
  <2>5. Distinct(w)
    BY <1>1, <2>1, <2>4 DEF Distinct
  <2>6. \A i \in 1..n - 1 : w[i] # k /\ w[i] \in Elements(recent)
    BY <1>1, <2>1 DEF Distinct, Elements
  <2>7. ASSUME NEW j \in 1..n, recent[j] # k
        PROVE  \E i \in 1..n - 1 : w[i] = recent[j]
    <3>1. CASE j < at
      <4>1. j \in 1..n - 1 /\ w[j] = recent[j]
        BY <1>1, <2>1, <3>1
      <4> QED
        BY <4>1
    <3>2. CASE j > at
      <4>1. j - 1 \in 1..n - 1 /\ w[j - 1] = recent[j]
        BY <1>1, <2>1, <3>2
      <4> QED
        BY <4>1
    <3> QED
      BY <1>1, <2>1, <2>7, <3>1, <3>2
  <2> HIDE DEF w
  <2>8. Elements(w) = Elements(recent) \ {k}
    <3>1. \A x \in Elements(w) : x \in Elements(recent) \ {k}
      BY <2>4, <2>6 DEF Elements
    <3>2. \A x \in Elements(recent) \ {k} : x \in Elements(w)
      BY <2>4, <2>7 DEF Elements
    <3> QED
      BY <3>1, <3>2
  <2>9. k \in Elements(recent)
    BY <2>1 DEF Elements
  <2> QED
    BY <2>2, <2>4, <2>5, <2>8, <2>9
<1> QED
  BY <1>2, <1>3

LEMMA AppendAdds ==
  ASSUME NEW s \in Seq(Keys), NEW k \in Keys, Distinct(s), k \notin Elements(s)
  PROVE  /\ Append(s, k) \in Seq(Keys) /\ Distinct(Append(s, k))
         /\ Elements(Append(s, k)) = Elements(s) \cup {k}
         /\ Len(Append(s, k)) = Len(s) + 1
<1> DEFINE n == Len(s)
           w == Append(s, k)
<1>1. /\ n \in Nat /\ w \in Seq(Keys) /\ Len(w) = n + 1
      /\ \A i \in 1..n : w[i] = s[i]
      /\ w[n + 1] = k
  OBVIOUS
<1> HIDE DEF w
<1>2. \A i \in 1..n + 1 : i \in 1..n \/ i = n + 1
  BY <1>1
<1>3. Distinct(w)
  BY <1>1, <1>2 DEF Distinct, Elements
<1>4. Elements(w) = Elements(s) \cup {k}
  BY <1>1, <1>2 DEF Elements
<1> QED
  BY <1>1, <1>3, <1>4 DEF w

LEMMA TailDrops ==
  ASSUME NEW s \in Seq(Keys), s # << >>, Distinct(s)
  PROVE  /\ Tail(s) \in Seq(Keys) /\ Distinct(Tail(s)) /\ Head(s) \in Elements(s)
         /\ Elements(Tail(s)) = Elements(s) \ {Head(s)}
         /\ Len(Tail(s)) = Len(s) - 1
<1> DEFINE n == Len(s)
           w == Tail(s)
<1>1. /\ n \in Nat /\ n >= 1 /\ w \in Seq(Keys) /\ Len(w) = n - 1
      /\ \A i \in 1..n - 1 : w[i] = s[i + 1]
      /\ Head(s) = s[1]
  OBVIOUS
<1> HIDE DEF w
<1>2. Distinct(w)
  BY <1>1 DEF Distinct
<1>3. Head(s) \in Elements(s)
  BY <1>1 DEF Elements
<1>4. \A i \in 1..n - 1 : w[i] \in Elements(s) /\ w[i] # Head(s)
  BY <1>1 DEF Elements, Distinct
<1>5. ASSUME NEW j \in 1..n, s[j] # Head(s)
      PROVE  \E i \in 1..n - 1 : w[i] = s[j]
  <2>1. j - 1 \in 1..n - 1 /\ w[j - 1] = s[j]
    BY <1>1, <1>5
  <2> QED
    BY <2>1
<1>6. Elements(w) = Elements(s) \ {Head(s)}
  <2>1. \A x \in Elements(w) : x \in Elements(s) \ {Head(s)}
    BY <1>1, <1>4 DEF Elements
  <2>2. \A x \in Elements(s) \ {Head(s)} : x \in Elements(w)
    BY <1>1, <1>5 DEF Elements
  <2> QED
    BY <2>1, <2>2
<1> QED
  BY <1>1, <1>2, <1>3, <1>6 DEF w

\* What the library's calls do to the memory: a key that is looked up is the last
\* to go ...
LEMMA TouchTidies ==
  ASSUME Tidy, NEW k \in Keys, mem[k] # None, Touch(k), UNCHANGED mem
  PROVE  Tidy'
<1> DEFINE w == Without(k)
<1>1. k \in Elements(recent) /\ Len(recent) \in Nat
  BY DEF Tidy, Cached
<1>2. /\ w \in Seq(Keys) /\ Distinct(w) /\ k \notin Elements(w)
      /\ Elements(w) \cup {k} = Elements(recent) /\ Len(w) + 1 = Len(recent)
  BY <1>1, WithoutLeaves DEF Tidy
<1>3. recent' = Append(w, k)
  BY DEF Touch
<1> HIDE DEF w
<1>4. /\ recent' \in Seq(Keys) /\ Distinct(recent')
      /\ Elements(recent') = Elements(recent) /\ Len(recent') = Len(recent)
  BY <1>2, <1>3, AppendAdds
<1>5. Cached' = Cached /\ EstimatedEntries' = EstimatedEntries
  BY DEF Cached, EstimatedEntries
<1> QED
  BY <1>4, <1>5 DEF Tidy, Distinct, Elements

\* ... one that is added may drop the least recently used, never itself ...
LEMMA AddTidies ==
  ASSUME Tidy, NEW k \in Keys, NEW v \in Storable, Add(k, v)
  PROVE  /\ Tidy' /\ mem'[k] = v
         /\ \A x \in Keys : x # k => mem'[x] \in {mem[x], None}
<1> DEFINE w == Without(k)
           s == Append(w, k)
           full == Len(s) > EstimatedEntries
           old == Head(s)
<1>1. /\ recent' = IF full THEN Tail(s) ELSE s
      /\ mem' = [x \in Keys |-> IF full /\ x = old THEN None ELSE IF x = k THEN v ELSE mem[x]]
  BY DEF Add
<1>2. /\ w \in Seq(Keys) /\ Distinct(w) /\ Elements(w) = Elements(recent) \ {k}
      /\ Len(w) <= EstimatedEntries
  BY WithoutLeaves, RoomForOne DEF Tidy
<1>3. k \notin Elements(w) /\ Len(w) \in Nat
  BY <1>2
<1>4. /\ s \in Seq(Keys) /\ Distinct(s) /\ Elements(s) = Cached \cup {k} /\ Len(s) = Len(w) + 1
  <2> HIDE DEF w
  <2> QED
    BY <1>2, <1>3, AppendAdds DEF Tidy, Cached
<1>5. full => old # k
  <2>1. w # << >> => Head(Append(w, k)) = w[1] /\ w[1] \in Elements(w)
    BY <1>2, <1>3 DEF Elements
  <2>2. full => w # << >>
    BY <1>2, <1>3, <1>4, RoomForOne
  <2> QED
    BY <1>3, <2>1, <2>2
<1>6. v # None /\ EstimatedEntries \in Nat /\ EstimatedEntries' = EstimatedEntries
  BY CacheAssumption, RoomForOne DEF EstimatedEntries, Storable
<1>7. mem \in [Keys -> Storable \cup {None}]
  BY DEF Tidy
<1> HIDE DEF s, w
<1>8. CASE full
  <2>1. /\ Tail(s) \in Seq(Keys) /\ Distinct(Tail(s)) /\ Elements(Tail(s)) = Elements(s) \ {old}
        /\ Len(Tail(s)) = Len(s) - 1 /\ old \in Keys
    <3>1. s # << >>
      BY <1>2, <1>3, <1>4
    <3> QED
      BY <1>4, <3>1, TailDrops DEF Cached
  <2>2. Cached' = (Cached \cup {k}) \ {old}
    BY <1>1, <1>5, <1>6, <1>7, <1>8 DEF Cached
  <2>3. Elements(recent') = Cached' /\ Distinct(recent') /\ recent' \in Seq(Keys)
    BY <1>1, <1>4, <1>8, <2>1, <2>2
  <2>4. Len(recent') <= EstimatedEntries'
    BY <1>1, <1>2, <1>3, <1>4, <1>6, <1>8, <2>1
  <2>5. mem' \in [Keys -> Storable \cup {None}]
    BY <1>1, <1>7
  <2> QED
    BY <1>1, <1>5, <1>8, <2>3, <2>4, <2>5 DEF Tidy, Distinct, Elements
<1>9. CASE ~full
  <2>1. Cached' = Cached \cup {k}
    BY <1>1, <1>6, <1>7, <1>9 DEF Cached
  <2>2. Elements(recent') = Cached' /\ Distinct(recent') /\ recent' \in Seq(Keys)
    BY <1>1, <1>4, <1>9, <2>1
  <2>3. Len(recent') <= EstimatedEntries'
    BY <1>1, <1>3, <1>4, <1>6, <1>9
  <2>4. mem' \in [Keys -> Storable \cup {None}]
    BY <1>1, <1>7
  <2> QED
    BY <1>1, <1>9, <2>2, <2>3, <2>4 DEF Tidy, Distinct, Elements
<1> QED
  BY <1>8, <1>9

\* ... and one that is removed is gone, and nothing else.
LEMMA RemoveTidies ==
  ASSUME Tidy, NEW k \in Keys, Remove(k)
  PROVE  Tidy' /\ mem'[k] = None /\ \A x \in Keys : x # k => mem'[x] = mem[x]
<1>1. /\ recent' = Without(k) /\ mem' = [mem EXCEPT ![k] = None]
      /\ mem \in [Keys -> Storable \cup {None}] /\ EstimatedEntries' = EstimatedEntries
  BY DEF Remove, Tidy, EstimatedEntries
<1>2. /\ recent' \in Seq(Keys) /\ Distinct(recent') /\ Elements(recent') = Cached \ {k}
      /\ Len(recent') <= Len(recent) /\ Len(recent) \in Nat /\ Len(recent') \in Nat
  BY <1>1, WithoutLeaves DEF Tidy
<1>3. Cached' = Cached \ {k}
  BY <1>1 DEF Cached
<1>4. Len(recent') <= EstimatedEntries'
  BY <1>1, <1>2, RoomForOne DEF Tidy
<1> QED
  BY <1>1, <1>2, <1>3, <1>4 DEF Tidy, Distinct, Elements

-----------------------------------------------------------------------------
\* A call that is alone is the only one on its key, and every other has left an
\* excuse that nobody can settle before it ends.
Lonely(p) ==
  call[p].pc # "idle" =>
    IF call[p].alone THEN Busy(Key(p)) = {p} ELSE <<Key(p), "other">> \in excused

\* How far a call that is alone has brought the memory and the backend.
Progress(p) ==
  call[p].pc # "idle" /\ call[p].alone =>
    /\ call[p].pc \in {"ask", "fill", "delete"} => mem[Key(p)] = None
    /\ call[p].pc = "fill" => call[p].body = backend[Key(p)]
    /\ call[p].pc = "store" /\ ~Bypassed(p) => mem[Key(p)] \in {call[p].body, None}

\* A key in memory has the backend's entry, an excuse, or a PUT that is not done.
Explained(k) ==
  \/ mem[k] = None \/ mem[k] = backend[k]
  \/ \E why \in Reasons : <<k, why>> \in excused
  \/ \E p \in Busy(k) : call[p].pc = "store"

Accounted ==
  /\ Types /\ Tidy /\ excused \subseteq Keys \X Reasons
  /\ \A p \in Procs : Lonely(p) /\ Progress(p)
  /\ \A k \in Keys : Explained(k)

LEMMA AccountedStarts == Init => Accounted
<1> SUFFICES ASSUME Init PROVE Accounted
  OBVIOUS
<1>1. /\ mem = [k \in Keys |-> None] /\ recent = << >> /\ excused = {}
      /\ \A p \in Procs : call[p].pc = "idle"
  BY DEF Init, Idle
<1>2. Tidy
  BY <1>1, RoomForOne DEF Tidy, Distinct, Elements, Cached
<1> QED
  BY <1>1, <1>2, TypesStart DEF Accounted, Lonely, Progress, Explained

\* A step of a call leaves the calls and keys that it has nothing to do with.
LEMMA OthersAccounted ==
  ASSUME Accounted, NEW p \in Procs, NEW k \in Keys, Key(p) = k, call[p].pc # "idle",
         \A q \in Procs : q # p => call'[q] = call[q],
         call'[p].pc # "idle" => call'[p].key = k,
         \A x \in Keys : x # k => /\ mem'[x] \in {mem[x], None} /\ backend'[x] = backend[x]
                               /\ \A why : <<x, why>> \in excused => <<x, why>> \in excused',
         ~call[p].alone => \A why : <<k, why>> \in excused => <<k, why>> \in excused'
  PROVE  /\ \A q \in Procs : q # p => Lonely(q)' /\ Progress(q)'
         /\ \A x \in Keys : x # k => Explained(x)'
<1>1. ASSUME NEW x \in Keys, x # k PROVE Busy(x)' = Busy(x)
  BY <1>1 DEF Busy, Key
<1>2. ASSUME NEW q \in Procs, q # p, call[q].pc # "idle", Key(q) = k
      PROVE  ~call[q].alone /\ ~call[p].alone /\ <<k, "other">> \in excused'
  <2>1. p \in Busy(k) /\ q \in Busy(k)
    BY <1>2 DEF Busy, Key
  <2>2. Lonely(p) /\ Lonely(q)
    BY DEF Accounted
  <2> QED
    BY <1>2, <2>1, <2>2 DEF Lonely
<1>3. ASSUME NEW q \in Procs, q # p PROVE Lonely(q)' /\ Progress(q)'
  <2>1. call'[q] = call[q] /\ Lonely(q) /\ Progress(q) /\ (call[q].pc # "idle" => Key(q) \in Keys)
    BY <1>3 DEF Accounted, Types, InStep, Key
  <2>2. CASE call[q].pc = "idle"
    BY <2>1, <2>2 DEF Lonely, Progress
  <2>3. CASE call[q].pc # "idle" /\ Key(q) = k
    BY <1>2, <1>3, <2>1, <2>3 DEF Lonely, Progress, Key
  <2>4. CASE call[q].pc # "idle" /\ Key(q) # k
    BY <1>1, <2>1, <2>4 DEF Lonely, Progress, Key, Bypassed, Small, Fits
  <2> QED
    BY <2>2, <2>3, <2>4
<1>4. ASSUME NEW x \in Keys, x # k PROVE Explained(x)'
  <2>1. Explained(x) /\ \A q \in Busy(x) : q # p
    BY <1>4 DEF Accounted, Busy, Key
  <2> QED
    BY <1>1, <1>4, <2>1 DEF Explained, Busy, Reasons
<1> QED
  BY <1>3, <1>4

\* What a step of p on its key k has to show.
Locally(p, k) ==
  /\ Tidy' /\ excused' \subseteq Keys \X Reasons
  /\ \A x \in Keys : x # k =>
       /\ mem'[x] \in {mem[x], None} /\ backend'[x] = backend[x]
       /\ \A why : <<x, why>> \in excused => <<x, why>> \in excused'
  /\ ~call[p].alone => excused \subseteq excused'
  /\ Lonely(p)' /\ Progress(p)' /\ (call[p].alone => Explained(k)')

LEMMA LocallyIsEnough ==
  ASSUME Accounted, NEW p \in Procs, NEW k \in Keys, Key(p) = k, Step(p), Locally(p, k)
  PROVE  Accounted'
<1>1. /\ Types' /\ call[p].pc # "idle"
      /\ \A q \in Procs : q # p => call'[q] = call[q]
      /\ call'[p].pc # "idle" => call'[p].key = k
  BY CacheAssumption, StepEffect DEF Accounted, Key
<1>2. /\ \A q \in Procs : q # p => Lonely(q)' /\ Progress(q)'
      /\ \A x \in Keys : x # k => Explained(x)'
  BY <1>1, OthersAccounted DEF Locally
<1>3. \A q \in Procs : Lonely(q)' /\ Progress(q)'
  BY <1>2 DEF Locally
<1>4. ~call[p].alone => <<k, "other">> \in excused'
  BY <1>1 DEF Accounted, Lonely, Locally
<1>5. Explained(k)'
  BY <1>4 DEF Explained, Reasons, Locally
<1>6. \A x \in Keys : Explained(x)'
  BY <1>2, <1>5
<1> QED
  BY <1>1, <1>3, <1>6 DEF Locally, Accounted

\* A call that ends has nothing more to account for.
LEMMA EndAccounted ==
  ASSUME Accounted, NEW p \in Procs, NEW s,
         call' = [call EXCEPT ![p] = [Idle EXCEPT !.status = s]]
  PROVE  Lonely(p)' /\ Progress(p)'
<1>1. call'[p].pc = "idle"
  BY DEF Accounted, Types, Idle
<1> QED
  BY <1>1 DEF Lonely, Progress

\* A call that moves on is as alone as it was.
LEMMA MoveAccounted ==
  ASSUME Accounted, NEW p \in Procs, NEW k \in Keys, Key(p) = k, call[p].pc # "idle",
         \A q \in Procs : q # p => call'[q] = call[q], call'[p].pc # "idle",
         call'[p].key = k, call'[p].alone = call[p].alone, excused' = excused
  PROVE  Lonely(p)' /\ p \in Busy(k)'
<1>1. Busy(k)' = Busy(k) /\ p \in Busy(k)'
  BY DEF Busy, Key
<1>2. Lonely(p)
  BY DEF Accounted
<1>3. CASE call[p].alone
  <2>1. Busy(k)' = {p}
    BY <1>1, <1>2, <1>3 DEF Lonely, Key
  <2> QED
    BY <1>1, <1>3, <2>1 DEF Lonely, Key, Busy
<1>4. CASE ~call[p].alone
  <2>1. <<k, "other">> \in excused'
    BY <1>2, <1>4 DEF Lonely, Key
  <2> QED
    BY <1>1, <1>4, <2>1 DEF Lonely, Key, Busy
<1> QED
  BY <1>3, <1>4

\* A key that is put to rest, or left with an excuse.
LEMMA SettleAccounted ==
  ASSUME Accounted, NEW k \in Keys, Settle(k)
  PROVE  /\ excused' \subseteq Keys \X Reasons
         /\ \A x, why : x # k /\ <<x, why>> \in excused => <<x, why>> \in excused'
BY DEF Accounted, Settle

LEMMA ExcuseAccounted ==
  ASSUME Accounted, NEW k \in Keys, NEW why \in Reasons, Excuse(k, why)
  PROVE  excused' \subseteq Keys \X Reasons /\ excused \subseteq excused' /\ Explained(k)'
BY DEF Accounted, Excuse, Explained

\* AddToCache leaves a key with its entry, or without one if none fits.
LEMMA AddToCacheTidies ==
  ASSUME Tidy, NEW k \in Keys, NEW v \in Values, Small(v), AddToCache(k, v)
  PROVE  /\ Tidy' /\ mem'[k] = IF Fits(v) THEN v ELSE mem[k]
         /\ \A x \in Keys : x # k => mem'[x] \in {mem[x], None}
<1>1. CASE Fits(v)
  <2>1. v \in Storable /\ Add(k, v)
    BY <1>1 DEF Storable, Small, Fits, AddToCache
  <2> QED
    BY <1>1, <2>1, AddTidies
<1>2. CASE ~Fits(v)
  BY <1>2 DEF AddToCache, Tidy, Distinct, Elements, Cached, EstimatedEntries
<1> QED
  BY <1>1, <1>2

LEMMA TidyStays == ASSUME Tidy, UNCHANGED <<mem, recent>> PROVE Tidy'
BY DEF Tidy, Distinct, Elements, Cached, EstimatedEntries

LEMMA StepAccounted ==
  ASSUME Accounted, NEW p \in Procs, Step(p)
  PROVE  Accounted'
<1> DEFINE c == call[p]
<1>1. /\ c.pc # "idle" /\ c \in CallType /\ InStep(c) /\ call \in [Procs -> CallType]
      /\ backend \in [Keys -> Values \cup {None}] /\ mem \in [Keys -> Storable \cup {None}]
  BY CacheAssumption, StepEffect DEF Accounted, Types, Tidy
<1>2. PICK k \in Keys : Key(p) = k
  BY <1>1 DEF InStep, Key
<1>3. /\ Tidy /\ excused \subseteq Keys \X Reasons
      /\ Lonely(p) /\ Progress(p) /\ Explained(k)
  BY <1>2 DEF Accounted
<1>4. SUFFICES Locally(p, k)
  BY <1>2, LocallyIsEnough
<1>5. ASSUME NEW s, Answer(p, s) PROVE Lonely(p)' /\ Progress(p)'
  BY <1>5, EndAccounted DEF Answer
<1>6. ASSUME NEW step \in {"ask", "store", "delete"}, Goto(p, step), UNCHANGED excused
      PROVE  /\ Lonely(p)' /\ p \in Busy(k)'
             /\ call'[p].pc = step /\ call'[p].key = k /\ call'[p].body = c.body
             /\ call'[p].alone = c.alone
  <2>1. /\ call'[p].pc = step /\ call'[p].key = k /\ call'[p].body = c.body
        /\ call'[p].alone = c.alone /\ \A q \in Procs : q # p => call'[q] = call[q]
    BY <1>1, <1>2, <1>6 DEF Goto, CallType, Key
  <2> QED
    BY <1>1, <1>2, <1>6, <2>1, MoveAccounted
\* An alone call is the only one, so only it can have a PUT that is not done.
<1>7. ASSUME c.alone, c.pc # "store"
      PROVE  mem[k] = None \/ mem[k] = backend[k] \/ \E why \in Reasons : <<k, why>> \in excused
  BY <1>1, <1>2, <1>3, <1>7 DEF Lonely, Explained, Key
<1>8. CASE Lookup(p)
  <2>1. c.pc = "lookup" /\ UNCHANGED <<mem, backend, excused>>
    BY <1>8 DEF Lookup
  <2>2. c.alone => Explained(k)'
    BY <1>7, <2>1 DEF Explained
  <2>3. CASE mem[k] # None /\ Touch(k) /\ Answer(p, "ok")
    <3>1. Tidy'
      BY <1>3, <2>1, <2>3, TouchTidies
    <3> QED
      BY <1>3, <1>5, <2>1, <2>2, <2>3, <3>1 DEF Locally
  <2>4. CASE mem[k] = None /\ Goto(p, "ask") /\ UNCHANGED recent
    <3>1. Tidy'
      BY <1>3, <2>1, <2>4, TidyStays
    <3>2. Progress(p)'
      BY <1>6, <2>1, <2>4 DEF Progress, Key
    <3> QED
      BY <1>3, <1>6, <2>1, <2>2, <2>4, <3>1, <3>2 DEF Locally
  <2> QED
    BY <1>2, <1>8, <2>3, <2>4 DEF Lookup
<1>9. CASE Ask(p)
  <2>1. c.pc = "ask" /\ UNCHANGED <<mem, recent, backend, excused>>
    BY <1>9 DEF Ask
  <2>2. (c.alone => Explained(k)') /\ Tidy'
    BY <1>3, <1>7, <2>1, TidyStays DEF Explained
  <2>3. ASSUME NEW s, Answer(p, s) PROVE Locally(p, k)
    BY <1>3, <1>5, <2>1, <2>2, <2>3 DEF Locally
  <2>4. CASE call' = [call EXCEPT ![p].pc = "fill", ![p].body = backend[k]]
    <3>1. /\ Lonely(p)' /\ call'[p].pc = "fill" /\ call'[p].key = k
          /\ call'[p].body = backend[k] /\ call'[p].alone = c.alone
      <4>1. /\ call'[p].pc = "fill" /\ call'[p].key = k /\ call'[p].body = backend[k]
            /\ call'[p].alone = c.alone /\ \A q \in Procs : q # p => call'[q] = call[q]
        BY <1>1, <1>2, <2>4 DEF CallType, Key
      <4> QED
        BY <1>1, <1>2, <2>1, <4>1, MoveAccounted
    <3>2. Progress(p)'
      BY <1>1, <1>2, <1>3, <2>1, <3>1 DEF Progress, Key
    <3> QED
      BY <1>3, <2>1, <2>2, <3>1, <3>2 DEF Locally
  <2> QED
    BY <1>2, <1>9, <2>3, <2>4 DEF Ask
<1>10. CASE Fill(p)
  <2>1. /\ c.pc = "fill" /\ c.body \in Values /\ Small(c.body) /\ UNCHANGED backend
        /\ c.alone => mem[k] = None /\ c.body = backend[k]
    BY <1>1, <1>2, <1>3, <1>10 DEF Fill, InStep, Progress
  <2>2. CASE Answer(p, "failed") /\ UNCHANGED <<mem, recent, excused>>
    BY <1>3, <1>5, <1>7, <2>1, <2>2, TidyStays DEF Locally, Explained
  <2>3. CASE /\ AddToCache(k, c.body) /\ Answer(p, "ok")
             /\ IF c.alone THEN Settle(k) ELSE UNCHANGED excused
    <3>1. /\ Tidy' /\ mem'[k] \in {c.body, mem[k]}
          /\ \A x \in Keys : x # k => mem'[x] \in {mem[x], None}
      BY <1>3, <2>1, <2>3, AddToCacheTidies
    <3>2. /\ excused' \subseteq Keys \X Reasons
          /\ \A x, why : x # k /\ <<x, why>> \in excused => <<x, why>> \in excused'
          /\ ~c.alone => excused \subseteq excused'
      BY <1>3, <2>3, SettleAccounted
    <3>3. c.alone => Explained(k)'
      BY <2>1, <3>1 DEF Explained
    <3> QED
      BY <1>2, <1>5, <2>1, <2>3, <3>1, <3>2, <3>3 DEF Locally
  <2> QED
    BY <1>2, <1>10, <2>2, <2>3 DEF Fill
<1>11. CASE Accept(p)
  <2>1. c.pc = "accept" /\ c.body \in Values /\ UNCHANGED <<backend, excused>>
    BY <1>1, <1>11 DEF Accept, InStep
  <2>2. CASE Answer(p, "failed") /\ UNCHANGED <<mem, recent>>
    BY <1>3, <1>5, <1>7, <2>1, <2>2, TidyStays DEF Locally, Explained
  <2>3. ASSUME Goto(p, "store"), Tidy',
               Small(c.body) /\ Fits(c.body) => mem'[k] = c.body,
               \A x \in Keys : x # k => mem'[x] \in {mem[x], None}
        PROVE  Locally(p, k)
    <3>1. /\ Lonely(p)' /\ p \in Busy(k)'
          /\ call'[p].pc = "store" /\ call'[p].key = k /\ call'[p].body = c.body
      BY <1>6, <2>1, <2>3
    <3>2. Progress(p)' /\ Explained(k)'
      BY <2>3, <3>1 DEF Progress, Explained, Bypassed, Small, Fits, Key
    <3> QED
      BY <1>2, <1>3, <2>1, <2>3, <3>1, <3>2 DEF Locally
  <2>4. CASE Small(c.body) /\ AddToCache(k, c.body) /\ Goto(p, "store")
    <3>1. /\ Tidy' /\ mem'[k] = IF Fits(c.body) THEN c.body ELSE mem[k]
          /\ \A x \in Keys : x # k => mem'[x] \in {mem[x], None}
      BY <1>3, <2>1, <2>4, AddToCacheTidies
    <3> QED
      BY <2>3, <2>4, <3>1
  <2>5. CASE ~Small(c.body) /\ Goto(p, "store") /\ UNCHANGED <<mem, recent>>
    BY <1>3, <2>3, <2>5, TidyStays
  <2> QED
    BY <1>2, <1>11, <2>2, <2>4, <2>5 DEF Accept
<1>12. CASE Store(p)
  <2>1. /\ c.pc = "store" /\ c.body \in Values /\ UNCHANGED <<mem, recent>> /\ Tidy'
        /\ c.alone /\ ~Bypassed(p) => mem[k] \in {c.body, None}
        /\ \A x \in Keys : x # k => backend'[x] = backend[x]
    BY <1>1, <1>2, <1>3, <1>12, TidyStays DEF Store, InStep, Progress
  <2>2. Lonely(p)' /\ Progress(p)'
    BY <1>5, <1>12 DEF Store
  <2>3. ASSUME NEW why \in Reasons, Excuse(k, why) PROVE Locally(p, k)
    BY <1>2, <2>1, <2>2, <2>3, ExcuseAccounted DEF Locally
  <2>4. CASE /\ backend' = [backend EXCEPT ![k] = c.body] /\ ~Bypassed(p)
             /\ IF c.alone THEN Settle(k) ELSE UNCHANGED excused
    <3>1. /\ excused' \subseteq Keys \X Reasons
          /\ \A x, why : x # k /\ <<x, why>> \in excused => <<x, why>> \in excused'
          /\ ~c.alone => excused \subseteq excused'
      BY <1>3, <2>4, SettleAccounted
    <3>2. c.alone => Explained(k)'
      BY <1>1, <2>1, <2>4 DEF Explained
    <3> QED
      BY <1>2, <2>1, <2>2, <3>1, <3>2 DEF Locally
  <2> QED
    BY <1>2, <1>12, <2>3, <2>4 DEF Store, Reasons
<1>13. CASE Forget(p)
  <2>1. c.pc = "forget" /\ Goto(p, "delete") /\ UNCHANGED <<backend, excused>> /\ Remove(k)
    BY <1>2, <1>13 DEF Forget, Forgets
  <2>2. Tidy' /\ mem'[k] = None /\ \A x \in Keys : x # k => mem'[x] = mem[x]
    BY <1>3, <2>1, RemoveTidies
  <2>3. Lonely(p)' /\ call'[p].pc = "delete" /\ call'[p].key = k
    BY <1>6, <2>1
  <2>4. Progress(p)' /\ Explained(k)'
    BY <2>2, <2>3 DEF Progress, Explained, Key
  <2> QED
    BY <1>3, <2>1, <2>2, <2>3, <2>4 DEF Locally
<1>14. CASE Delete(p)
  <2>1. /\ c.pc = "delete" /\ UNCHANGED <<mem, recent>> /\ Tidy'
        /\ c.alone => mem[k] = None
        /\ \A x \in Keys : x # k => backend'[x] = backend[x]
    BY <1>1, <1>2, <1>3, <1>14, TidyStays DEF Delete, Progress
  <2>2. Lonely(p)' /\ Progress(p)'
    BY <1>5, <1>14 DEF Delete
  <2>3. CASE Excuse(k, "other")
    BY <1>2, <2>1, <2>2, <2>3, ExcuseAccounted DEF Locally, Reasons
  <2>4. CASE IF c.alone THEN Settle(k) ELSE UNCHANGED excused
    <3>1. /\ excused' \subseteq Keys \X Reasons
          /\ \A x, why : x # k /\ <<x, why>> \in excused => <<x, why>> \in excused'
          /\ ~c.alone => excused \subseteq excused'
      BY <1>3, <2>4, SettleAccounted
    <3>2. c.alone => Explained(k)'
      BY <2>1 DEF Explained
    <3> QED
      BY <1>2, <2>1, <2>2, <3>1, <3>2 DEF Locally
  <2> QED
    BY <1>2, <1>14, <2>3, <2>4 DEF Delete
<1> QED
  BY <1>8, <1>9, <1>10, <1>11, <1>12, <1>13, <1>14 DEF Step

LEMMA BeginAccounted ==
  ASSUME Accounted, NEW p \in Procs, NEW k \in Keys, NEW op, NEW step, NEW v,
         Kind(op, step, v), Begin(p, op, step, k, v)
  PROVE  Accounted'
<1>1. /\ Types' /\ UNCHANGED <<mem, recent, backend>> /\ call[p].pc = "idle"
      /\ call'[p].pc = step /\ call'[p].key = k
      /\ step \in {"accept", "lookup", "forget"}
  <2>1. Types' /\ call[p].pc = "idle" /\ call'[p].pc = step /\ call'[p].key = k
    BY BeginEffect DEF Accounted
  <2>2. UNCHANGED <<mem, recent, backend>>
    BY DEF Begin
  <2> QED
    BY <2>1, <2>2 DEF Kind
<1>2. /\ call \in [Procs -> CallType] /\ excused \subseteq Keys \X Reasons
  BY DEF Accounted, Types
<1>3. call'[p].alone <=> Busy(k) = {}
  BY DEF Begin, Idle
<1>4. \A q \in Procs : q # p =>
        /\ call'[q].pc = call[q].pc /\ call'[q].key = call[q].key /\ call'[q].body = call[q].body
        /\ call'[q].alone <=> call[q].alone /\ q \notin Busy(k)
  BY <1>2, Joined DEF Begin, Accounted, Types, Same
<1>5. /\ excused \subseteq excused' /\ excused' \subseteq Keys \X Reasons
      /\ Busy(k) # {} => <<k, "other">> \in excused'
  <2>1. (excused' = excused /\ Busy(k) = {}) \/ excused' = excused \cup {<<k, "other">>}
    BY DEF Begin, Excuse
  <2> QED
    BY <1>2, <2>1 DEF Reasons
<1>6. /\ \A x \in Keys : x # k => Busy(x)' = Busy(x)
      /\ Busy(k)' = Busy(k) \cup {p}
  BY <1>1, <1>4 DEF Busy
<1>7. Lonely(p)' /\ Progress(p)'
  <2>1. Busy(k) = {} => Busy(k)' = {p}
    BY <1>6
  <2> QED
    BY <1>1, <1>3, <1>5, <2>1 DEF Lonely, Progress, Key, Busy
<1>8. ASSUME NEW q \in Procs, q # p PROVE Lonely(q)' /\ Progress(q)'
  <2>1. Lonely(q) /\ Progress(q) /\ (call[q].pc # "idle" => call[q].key \in Keys)
    BY DEF Accounted, Types, InStep
  <2>2. Progress(q)'
    BY <1>1, <1>4, <1>8, <2>1 DEF Progress, Key, Bypassed, Small, Fits
  <2>3. CASE call[q].pc # "idle" /\ call[q].key = k
    <3>1. q \in Busy(k)
      BY <2>3 DEF Busy
    <3> QED
      BY <1>4, <1>5, <1>8, <2>2, <2>3, <3>1 DEF Lonely, Key
  <2>4. CASE call[q].pc # "idle" /\ call[q].key # k
    <3>1. PICK x \in Keys : x = call[q].key /\ call'[q].key = x
      BY <1>4, <1>8, <2>1, <2>4
    <3>2. Busy(x)' = Busy(x) /\ (call'[q].alone => Busy(x) = {q})
      BY <1>4, <1>6, <1>8, <2>1, <2>4, <3>1 DEF Lonely, Key
    <3>3. ~call'[q].alone => <<x, "other">> \in excused'
      BY <1>4, <1>5, <1>8, <2>1, <2>4, <3>1 DEF Lonely, Key, Busy
    <3> QED
      BY <2>2, <3>1, <3>2, <3>3 DEF Lonely, Key, Busy
  <2>5. CASE call[q].pc = "idle"
    BY <1>4, <1>8, <2>2, <2>5 DEF Lonely
  <2> QED
    BY <2>3, <2>4, <2>5
<1>9. ASSUME NEW x \in Keys PROVE Explained(x)'
  <2>1. Explained(x)
    BY DEF Accounted
  <2>2. CASE \E q \in Busy(x) : call[q].pc = "store"
    BY <1>1, <1>4, <1>6, <2>2 DEF Explained, Busy
  <2>3. CASE ~\E q \in Busy(x) : call[q].pc = "store"
    BY <1>1, <1>5, <2>1, <2>3 DEF Explained
  <2> QED
    BY <2>2, <2>3
<1>10. Tidy'
  BY <1>1, TidyStays DEF Accounted
<1> QED
  BY <1>1, <1>5, <1>7, <1>8, <1>9, <1>10 DEF Accounted

LEMMA ExpireAccounted ==
  ASSUME Accounted, NEW k \in Keys, Expire(k)
  PROVE  Accounted'
<1>1. Types' /\ UNCHANGED <<mem, recent>> /\ Tidy' /\ backend' = [backend EXCEPT ![k] = None]
  BY ExpireEffect, TidyStays DEF Accounted, Expire
<1>2. /\ call \in [Procs -> CallType] /\ backend \in [Keys -> Values \cup {None}]
  BY DEF Accounted, Types
<1>3. \A q \in Procs :
        /\ call'[q].pc = call[q].pc /\ call'[q].key = call[q].key /\ call'[q].body = call[q].body
        /\ call'[q].alone <=> call[q].alone /\ q \notin Busy(k)
  BY <1>2, Joined DEF Expire, Accounted, Types, Same
<1>4. /\ excused \subseteq excused' /\ excused' \subseteq Keys \X Reasons
      /\ <<k, "other">> \in excused' /\ Explained(k)'
  BY ExcuseAccounted DEF Expire, Excuse, Reasons
<1>5. \A x : Busy(x)' = Busy(x)
  BY <1>3 DEF Busy
<1>6. ASSUME NEW q \in Procs PROVE Lonely(q)' /\ Progress(q)'
  <2>1. Lonely(q) /\ Progress(q) /\ (call[q].pc # "idle" => call[q].key \in Keys)
    BY DEF Accounted, Types, InStep
  <2>2. CASE call[q].pc # "idle" /\ call[q].key = k
    <3>1. q \in Busy(k)
      BY <2>2 DEF Busy
    <3> QED
      BY <1>3, <1>4, <2>2, <3>1 DEF Lonely, Progress, Key
  <2>3. CASE call[q].pc # "idle" /\ call[q].key # k
    <3>1. PICK x \in Keys : x = call[q].key /\ call'[q].key = x /\ x # k
      BY <1>3, <2>1, <2>3
    <3>2. Busy(x)' = Busy(x) /\ (call'[q].alone => Busy(x) = {q}) /\ backend'[x] = backend[x]
      BY <1>1, <1>2, <1>3, <1>5, <2>1, <2>3, <3>1 DEF Lonely, Key
    <3>3. ~call'[q].alone => <<x, "other">> \in excused'
      BY <1>3, <1>4, <2>1, <2>3, <3>1 DEF Lonely, Key, Busy
    <3>4. Lonely(q)'
      BY <3>1, <3>2, <3>3 DEF Lonely, Key, Busy
    <3>5. Progress(q)'
      BY <1>1, <1>3, <2>1, <3>1, <3>2 DEF Progress, Key, Bypassed, Small, Fits
    <3> QED
      BY <3>4, <3>5
  <2>4. CASE call[q].pc = "idle"
    BY <1>3, <2>4 DEF Lonely, Progress
  <2> QED
    BY <2>2, <2>3, <2>4
<1>7. ASSUME NEW x \in Keys, x # k PROVE Explained(x)'
  <2>1. Explained(x) /\ backend'[x] = backend[x]
    BY <1>1, <1>2, <1>7 DEF Accounted
  <2> QED
    BY <1>1, <1>3, <1>4, <1>5, <2>1 DEF Explained, Busy
<1> QED
  BY <1>1, <1>4, <1>6, <1>7 DEF Accounted

LEMMA AccountedKept ==
  ASSUME Accounted, [Next]_vars
  PROVE  Accounted'
<1>1. CASE UNCHANGED vars
  <2>1. UNCHANGED <<mem, recent, backend, call, excused>>
    BY <1>1 DEF vars
  <2>2. Types' /\ Tidy'
    BY <2>1, TidyStays DEF Accounted, Types
  <2>3. \A p \in Procs : Lonely(p)' /\ Progress(p)'
    BY <2>1 DEF Accounted, Lonely, Progress, Busy, Key, Bypassed, Small, Fits
  <2>4. \A k \in Keys : Explained(k)'
    BY <2>1 DEF Accounted, Explained, Busy
  <2> QED
    BY <2>1, <2>2, <2>3, <2>4 DEF Accounted
<1>2. ASSUME NEW p \in Procs, Start(p) PROVE Accounted'
  <2>1. PICK k \in Keys : BeginPut(p, k) \/ BeginGet(p, k) \/ BeginHead(p, k) \/ BeginDelete(p, k)
    BY <1>2 DEF Start
  <2>2. CASE BeginPut(p, k)
    <3>1. PICK v \in Bodies[k] : Begin(p, "put", "accept", k, v)
      BY <2>2 DEF BeginPut
    <3>2. v \in Values
      BY CacheAssumption
    <3> QED
      BY <3>1, <3>2, BeginAccounted DEF Kind
  <2> QED
    BY <2>1, <2>2, BeginAccounted DEF BeginGet, BeginHead, BeginDelete, Kind
<1>3. ASSUME NEW p \in Procs, Step(p) PROVE Accounted'
  BY <1>3, StepAccounted
<1>4. ASSUME NEW k \in Keys, Expire(k) PROVE Accounted'
  BY <1>4, ExpireAccounted
<1> QED
  BY <1>1, <1>2, <1>3, <1>4 DEF Next

LEMMA AlwaysAccounted == Spec => []Accounted
BY AccountedStarts, AccountedKept, PTL DEF Spec

\* A sequence without repetition is as long as the set of its elements is large.
LEMMA LengthCounts ==
  ASSUME NEW s \in Seq(Keys), Distinct(s)
  PROVE  Len(s) = Cardinality(Elements(s))
<1> DEFINE n == Len(s)
<1>1. n \in Nat
  OBVIOUS
<1>2. s \in Bijection(1..n, Elements(s))
  <2>1. s \in [1..n -> Elements(s)]
    <3>1. s = [i \in 1..n |-> s[i]]
      OBVIOUS
    <3> QED
      BY <3>1 DEF Elements
  <2> QED
    BY <2>1 DEF Bijection, Injection, Surjection, IsInjective, Distinct, Elements
<1>3. ExistsBijection(1..n, Elements(s))
  BY <1>2 DEF ExistsBijection
<1> QED
  BY <1>1, <1>3, FS_CountingElements

\* The keys in memory are those in the order of use, each once, however calls
\* interleave and whatever is dropped for want of room (lru_cache.go:34-115).
THEOREM MemoryTypes == Spec => []TypeOK
<1>1. Accounted => TypeOK
  BY LengthCounts DEF Accounted, Types, Tidy, TypeOK, Storable, Elements
<1> QED
  BY <1>1, AlwaysAccounted, PTL

\* No call, interleaving or eviction makes an idle key's memory differ from the
\* backend but the four excuses (lru_cache.go:56-115).
THEOREM StaleHasAnExcuse == Spec => []StaleOnlyWhenExcused
<1>1. Accounted => StaleOnlyWhenExcused
  BY DEF Accounted, Explained, StaleOnlyWhenExcused, Coherent
<1> QED
  BY <1>1, AlwaysAccounted, PTL
=============================================================================
