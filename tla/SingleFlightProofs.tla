------------------------- MODULE SingleFlightProofs -------------------------
(***************************************************************************)
(* Proofs about SingleFlight, for any number of requests, keys and bodies: *)
(* the cache below the group never sees two PUTs of a key at once, so that *)
(* what LRUCache takes for granted is so; and a key whose PUT has been     *)
(* acknowledged is in the backend until something removes it.              *)
(***************************************************************************)
EXTENDS SingleFlight, LRUCacheProofs

\* What holds of the group: a flight is its leader's alone, who makes the call
\* the flight is for or has returned from it; every PUT under way has one; and a
\* clean flight and an acknowledged key meet no DELETE.
Flights ==
  \A f \in flights :
    /\ f \in [group : Shared \X Keys, op : Shared, key : Keys, leader : Procs, clean : BOOLEAN]
    /\ f.group = GroupOf(f.op, f.key)
Leaders ==
  /\ \A f, g \in flights : f.leader = g.leader => f = g
  /\ \A f \in flights : call[f.leader].pc # "idle" =>
       call[f.leader].op = f.op /\ call[f.leader].key = f.key
Puts ==
  \A p \in Procs : call[p].pc # "idle" /\ call[p].op = "put" =>
    \E f \in flights : f.leader = p /\ f.group = GroupOf("put", call[p].key)
Waiting ==
  \A p \in Procs : waits[p] # None =>
    \E op \in Shared, k \in Keys : waits[p].op = op /\ waits[p].group = GroupOf(op, k)
Returned ==
  \A f \in flights :
    f.op = "put" /\ f.clean /\ call[f.leader].pc = "idle" /\ call[f.leader].status = "ok" =>
      backend[f.key] # None
Undisturbed ==
  \A p \in Procs : call[p].pc # "idle" /\ call[p].op = "delete" =>
    /\ call[p].key \notin acked
    /\ \A f \in flights : f.key = call[p].key => ~f.clean
Found == acked \subseteq Keys /\ AckedPutFound

Sharing ==
  /\ Types /\ Flights /\ Leaders /\ Puts /\ Waiting /\ Returned /\ Undisturbed /\ Found
  /\ waits \in [Procs -> {None} \cup [op : Shared, group : Shared \X Keys]]

LEMMA SharingStarts == FlightInit => Sharing
BY TypesStart DEF FlightInit, Init, Idle, Sharing, Flights, Leaders, Puts, Waiting, Returned,
   Undisturbed, Found, AckedPutFound

\* One lemma for each kind of step: a call below moves on ...
LEMMA BelowKeeps ==
  ASSUME Sharing, CacheAssumption, NEW p \in Procs, Below(p)
  PROVE  Sharing'
<1>1. Step(p) /\ UNCHANGED <<flights, waits, acked>>
  BY DEF Below, sharing
<1>2. /\ Types' /\ call[p].pc # "idle"
      /\ \A q \in Procs : q # p => call'[q] = call[q]
      /\ call'[p].pc # "idle" => call'[p].op = call[p].op /\ call'[p].key = call[p].key
      /\ \A x \in Keys : backend[x] # None /\ backend'[x] = None =>
           call[p].op = "delete" /\ call[p].key = x
      /\ call'[p].pc = "idle" /\ call[p].op = "put" /\ call'[p].status = "ok" =>
           backend'[call[p].key] # None
  BY <1>1, StepEffect DEF Sharing
<1>3. Flights' /\ Waiting' /\ waits' \in [Procs -> {None} \cup [op : Shared, group : Shared \X Keys]]
  BY <1>1 DEF Sharing, Flights, Waiting, GroupOf
<1>4. Leaders' /\ Puts'
  BY <1>1, <1>2 DEF Sharing, Leaders, Puts, Flights, GroupOf
<1>5. Returned'
  <2> SUFFICES ASSUME NEW f \in flights, f.op = "put", f.clean,
                      call'[f.leader].pc = "idle", call'[f.leader].status = "ok"
               PROVE  backend'[f.key] # None
    BY <1>1 DEF Returned
  <2>1. f.key \in Keys /\ f.leader \in Procs
    BY DEF Sharing, Flights
  <2>2. CASE f.leader = p
    BY <1>2, <2>2 DEF Sharing, Leaders
  <2>3. CASE f.leader # p
    <3>1. backend[f.key] # None
      BY <1>2, <2>1, <2>3 DEF Sharing, Returned
    <3> QED
      BY <1>2, <2>1, <3>1 DEF Sharing, Undisturbed
  <2> QED
    BY <2>2, <2>3
<1>6. Undisturbed'
  BY <1>1, <1>2 DEF Sharing, Undisturbed
<1>7. Found'
  BY <1>1, <1>2 DEF Sharing, Found, AckedPutFound, Undisturbed
<1> QED
  BY <1>2, <1>1, <1>3, <1>4, <1>5, <1>6, <1>7 DEF Sharing

\* ... a request joins a flight ...
LEMMA JoinKeeps ==
  ASSUME Sharing, NEW p \in Procs, NEW op \in Shared, NEW k \in Keys, Join(p, op, k)
  PROVE  Sharing'
<1>1. /\ UNCHANGED <<backend, call, flights, acked>>
      /\ waits' = [waits EXCEPT ![p] = [op |-> op, group |-> GroupOf(op, k)]]
  BY DEF Join, vars
<1>2. Types' /\ Flights' /\ Leaders' /\ Puts' /\ Returned' /\ Undisturbed' /\ Found'
  BY <1>1 DEF Sharing, Types, Flights, Leaders, Puts, Returned, Undisturbed, Found,
              AckedPutFound, GroupOf
<1>3. waits' \in [Procs -> {None} \cup [op : Shared, group : Shared \X Keys]]
  BY <1>1 DEF Sharing, GroupOf
<1>4. Waiting'
  BY <1>1 DEF Sharing, Waiting, GroupOf
<1> QED
  BY <1>2, <1>3, <1>4 DEF Sharing

\* ... a flight lands, and those that wait for it are of its kind ...
LEMMA LandKeeps ==
  ASSUME Sharing, NEW p \in Procs, Land(p)
  PROVE  Sharing'
<1>1. PICK f \in flights :
        LET joined == {q \in Procs : waits[q] # None /\ waits[q].group = f.group}
            put == f.op = "put" \/ \E q \in joined : waits[q].op = "put"
        IN /\ f.leader = p /\ call[p].pc = "idle"
           /\ flights' = flights \ {f}
           /\ waits' = [q \in Procs |-> IF q \in joined THEN None ELSE waits[q]]
           /\ acked' = IF put /\ f.clean /\ call[p].status = "ok" THEN acked \cup {f.key} ELSE acked
           /\ UNCHANGED vars
  BY DEF Land
<1>2. UNCHANGED <<backend, call>> /\ flights' = flights \ {f} /\ f.leader = p /\ call[p].pc = "idle"
  BY <1>1 DEF vars
<1>3. Types' /\ Flights' /\ Leaders' /\ Returned'
  BY <1>2 DEF Sharing, Types, Flights, Leaders, Returned, GroupOf
<1>4. Puts'
  BY <1>2 DEF Sharing, Puts, GroupOf
<1>5. waits' \in [Procs -> {None} \cup [op : Shared, group : Shared \X Keys]]
  BY <1>1 DEF Sharing
<1>6. Waiting'
  BY <1>1 DEF Sharing, Waiting, GroupOf
<1>7. acked' = acked => Undisturbed' /\ Found'
  BY <1>2 DEF Sharing, Undisturbed, Found, AckedPutFound
<1>8. CASE acked' # acked
  <2>1. /\ f.clean /\ call[p].status = "ok" /\ acked' = acked \cup {f.key} /\ f.key \in Keys
        /\ f.op = "put" \/ \E q \in Procs :
                            waits[q] # None /\ waits[q].group = f.group /\ waits[q].op = "put"
    BY <1>1, <1>8 DEF Sharing, Flights
  <2>2. f.op = "put"
    BY <2>1 DEF Sharing, Flights, Waiting, GroupOf
  <2>3. backend[f.key] # None
    BY <1>2, <2>1, <2>2 DEF Sharing, Returned
  <2>4. Found'
    BY <1>2, <2>1, <2>3 DEF Sharing, Found, AckedPutFound
  <2>5. Undisturbed'
    BY <1>2, <2>1 DEF Sharing, Undisturbed
  <2> QED
    BY <1>3, <1>4, <1>5, <1>6, <2>4, <2>5 DEF Sharing
<1> QED
  BY <1>3, <1>4, <1>5, <1>6, <1>7, <1>8 DEF Sharing

\* ... a request leads a flight of its own ...
LEMMA LeadKeeps ==
  ASSUME Sharing, NEW p \in Procs, NEW k \in Keys, NEW op \in Shared, NEW step, NEW v,
         Free(p), Lead(p, op, k), Kind(op, step, v), Begin(p, op, step, k, v)
  PROVE  Sharing'
<1> DEFINE new == Flight(p, op, k, ~Deleting(k))
<1>1. /\ flights' = flights \cup {new} /\ UNCHANGED <<waits, acked>>
      /\ \A f \in flights : f.leader # p
  BY DEF Lead, Free
<1>2. /\ Types' /\ UNCHANGED backend /\ call[p].pc = "idle"
      /\ call'[p].pc = step /\ call'[p].op = op /\ call'[p].key = k
      /\ \A q \in Procs : q # p => Same(q)
  BY BeginEffect DEF Sharing
<1>3. /\ new.group = GroupOf(op, k) /\ new.op = op /\ new.key = k /\ new.leader = p
      /\ new.clean = ~Deleting(k) /\ step # "idle"
      /\ new \in [group : Shared \X Keys, op : Shared, key : Keys, leader : Procs, clean : BOOLEAN]
  BY DEF Flight, GroupOf, Kind, Shared
<1> HIDE DEF new
<1>4. Flights' /\ Waiting' /\ waits' \in [Procs -> {None} \cup [op : Shared, group : Shared \X Keys]]
  BY <1>1, <1>3 DEF Sharing, Flights, Waiting, GroupOf
<1>5. Leaders'
  BY <1>1, <1>2, <1>3 DEF Sharing, Leaders, Flights, Same
<1>6. Puts'
  <2> SUFFICES ASSUME NEW q \in Procs, call'[q].pc # "idle", call'[q].op = "put"
               PROVE  \E f \in flights' : f.leader = q /\ f.group = GroupOf("put", call'[q].key)
    BY DEF Puts
  <2>1. CASE q = p
    BY <1>1, <1>2, <1>3, <2>1
  <2>2. CASE q # p
    <3>1. PICK f \in flights : f.leader = q /\ f.group = GroupOf("put", call[q].key)
      BY <1>2, <2>2 DEF Sharing, Puts, Same
    <3> QED
      BY <1>1, <1>2, <2>2, <3>1 DEF Same
  <2> QED
    BY <2>1, <2>2
<1>7. Returned'
  BY <1>1, <1>2, <1>3 DEF Sharing, Returned, Flights, Same
<1>8. Undisturbed'
  <2> SUFFICES ASSUME NEW q \in Procs, call'[q].pc # "idle", call'[q].op = "delete"
               PROVE  /\ call'[q].key \notin acked
                      /\ \A f \in flights' : f.key = call'[q].key => ~f.clean
    BY <1>1 DEF Undisturbed
  <2>1. q # p /\ Same(q)
    BY <1>2 DEF Shared
  <2>2. call[q].key = k => Deleting(k)
    BY <2>1 DEF Deleting, Busy, Same
  <2> QED
    BY <1>1, <1>3, <2>1, <2>2 DEF Sharing, Undisturbed, Same
<1>9. Found'
  BY <1>1, <1>2 DEF Sharing, Found, AckedPutFound
<1> QED
  BY <1>1, <1>2, <1>4, <1>5, <1>6, <1>7, <1>8, <1>9 DEF Sharing

\* ... a GET begins ...
LEMMA GetKeeps ==
  ASSUME Sharing, NEW p \in Procs, NEW k \in Keys, Free(p), BeginGet(p, k), UNCHANGED sharing
  PROVE  Sharing'
<1>1. UNCHANGED <<flights, waits, acked>> /\ \A f \in flights : f.leader # p
  BY DEF sharing, Free
<1>2. /\ Types' /\ UNCHANGED backend /\ call[p].pc = "idle"
      /\ call'[p].pc = "lookup" /\ call'[p].op = "get" /\ call'[p].key = k
      /\ \A q \in Procs : q # p => Same(q)
  BY BeginEffect DEF BeginGet, Kind, Sharing
<1>3. Flights' /\ Waiting' /\ waits' \in [Procs -> {None} \cup [op : Shared, group : Shared \X Keys]]
  BY <1>1 DEF Sharing, Flights, Waiting, GroupOf
<1>4. Leaders' /\ Puts' /\ Returned'
  BY <1>1, <1>2 DEF Sharing, Leaders, Puts, Returned, Flights, Same, GroupOf
<1>5. Undisturbed' /\ Found'
  BY <1>1, <1>2 DEF Sharing, Undisturbed, Found, AckedPutFound, Same
<1> QED
  BY <1>1, <1>2, <1>3, <1>4, <1>5 DEF Sharing

\* A DELETE or the cleanup spoils the flights of the key.
LEMMA SpoilEffect ==
  ASSUME Sharing, NEW k \in Keys, Spoil(k)
  PROVE  /\ UNCHANGED waits /\ acked' = acked \ {k}
         /\ Flights'
         /\ \A g \in flights' : \E f \in flights :
              /\ g.group = f.group /\ g.op = f.op /\ g.key = f.key /\ g.leader = f.leader
              /\ g.clean => f.clean /\ g.key # k
              /\ \A h \in flights' : h.leader = g.leader => h = g
         /\ \A f \in flights : \E g \in flights' : g.group = f.group /\ g.leader = f.leader
<1> DEFINE S(f) == [f EXCEPT !.clean = f.clean /\ f.key # k]
<1>1. UNCHANGED waits /\ acked' = acked \ {k} /\ flights' = {S(f) : f \in flights}
  BY DEF Spoil
<1>2. ASSUME NEW f \in flights
      PROVE  /\ S(f) \in [group : Shared \X Keys, op : Shared, key : Keys, leader : Procs, clean : BOOLEAN]
             /\ S(f).group = f.group /\ S(f).op = f.op /\ S(f).key = f.key
             /\ S(f).leader = f.leader /\ S(f).clean = (f.clean /\ f.key # k)
  BY DEF Sharing, Flights
<1>3. Flights'
  BY <1>1, <1>2 DEF Sharing, Flights, GroupOf
<1>4. \A g \in flights' : \E f \in flights : g = S(f)
  BY <1>1
<1>5. \A f \in flights : S(f) \in flights'
  BY <1>1
<1>6. \A f, g \in flights : f.leader = g.leader => S(f) = S(g)
  BY DEF Sharing, Leaders
<1> HIDE DEF S
<1>7. ASSUME NEW g \in flights', NEW f \in flights, g = S(f), NEW h \in flights', h.leader = g.leader
      PROVE  h = g
  BY <1>2, <1>4, <1>6, <1>7
<1> QED
  BY <1>1, <1>2, <1>3, <1>4, <1>5, <1>7

\* ... as when a DELETE begins ...
LEMMA DeleteKeeps ==
  ASSUME Sharing, NEW p \in Procs, NEW k \in Keys, Free(p), BeginDelete(p, k), Spoil(k)
  PROVE  Sharing'
<1>1. \A f \in flights : f.leader # p
  BY DEF Free
<1>2. /\ Types' /\ UNCHANGED backend /\ call[p].pc = "idle"
      /\ call'[p].pc = "forget" /\ call'[p].op = "delete" /\ call'[p].key = k
      /\ \A q \in Procs : q # p => Same(q)
  BY BeginEffect DEF BeginDelete, Kind, Sharing
<1>3. Flights' /\ Waiting' /\ waits' \in [Procs -> {None} \cup [op : Shared, group : Shared \X Keys]]
  BY SpoilEffect DEF Sharing, Waiting, GroupOf
<1>4. Leaders'
  BY <1>1, <1>2, SpoilEffect DEF Sharing, Leaders, Flights, Same
<1>5. Puts'
  <2> SUFFICES ASSUME NEW q \in Procs, call'[q].pc # "idle", call'[q].op = "put"
               PROVE  \E f \in flights' : f.leader = q /\ f.group = GroupOf("put", call'[q].key)
    BY DEF Puts
  <2>1. Same(q)
    BY <1>2
  <2>2. PICK f \in flights : f.leader = q /\ f.group = GroupOf("put", call[q].key)
    BY <2>1 DEF Sharing, Puts, Same
  <2> QED
    BY <2>1, <2>2, SpoilEffect DEF Same
<1>6. Returned'
  BY <1>1, <1>2, SpoilEffect DEF Sharing, Returned, Flights, Same
<1>7. Undisturbed' /\ Found'
  BY <1>2, SpoilEffect DEF Sharing, Undisturbed, Found, AckedPutFound, Same
<1> QED
  BY <1>2, <1>3, <1>4, <1>5, <1>6, <1>7 DEF Sharing

\* ... and when the backend loses an entry.
LEMMA LosesKeeps ==
  ASSUME Sharing, NEW k \in Keys, Loses(k)
  PROVE  Sharing'
<1>1. Expire(k) /\ Spoil(k)
  BY DEF Loses
<1>2. /\ Types' /\ \A q \in Procs : Same(q)
      /\ \A x \in Keys : x # k => backend'[x] = backend[x]
  BY <1>1, ExpireEffect DEF Sharing
<1>3. Flights' /\ Waiting' /\ waits' \in [Procs -> {None} \cup [op : Shared, group : Shared \X Keys]]
  BY <1>1, SpoilEffect DEF Sharing, Waiting, GroupOf
<1>4. Leaders' /\ Puts'
  BY <1>1, <1>2, SpoilEffect DEF Sharing, Leaders, Puts, Flights, Same, GroupOf
<1>5. Returned'
  BY <1>1, <1>2, SpoilEffect DEF Sharing, Returned, Flights, Same
<1>6. Undisturbed' /\ Found'
  BY <1>1, <1>2, SpoilEffect DEF Sharing, Undisturbed, Found, AckedPutFound, Same
<1> QED
  BY <1>2, <1>3, <1>4, <1>5, <1>6 DEF Sharing

LEMMA SharingKept ==
  ASSUME Sharing, CacheAssumption, [FlightNext]_<<vars, sharing>>
  PROVE  Sharing'
<1>1. CASE UNCHANGED <<vars, sharing>>
  BY <1>1 DEF vars, sharing, Sharing, Types, Flights, Leaders, Puts, Waiting, Returned,
              Undisturbed, Found, AckedPutFound, GroupOf
<1>2. ASSUME NEW p \in Procs, Request(p) PROVE Sharing'
  <2>1. PICK k \in Keys :
          \/ Lead(p, "put", k) /\ BeginPut(p, k)
          \/ Lead(p, "head", k) /\ BeginHead(p, k)
          \/ \E op \in Shared : Join(p, op, k)
          \/ BeginGet(p, k) /\ UNCHANGED sharing
          \/ BeginDelete(p, k) /\ Spoil(k)
    BY <1>2 DEF Request
  <2>2. Free(p)
    BY <1>2 DEF Request
  <2>3. CASE Lead(p, "put", k) /\ BeginPut(p, k)
    <3>1. PICK v \in Bodies[k] : Begin(p, "put", "accept", k, v)
      BY <2>3 DEF BeginPut
    <3>2. v \in Values
      BY CacheAssumption DEF CacheAssumption
    <3> QED
      BY <2>2, <2>3, <3>1, <3>2, LeadKeeps DEF Kind, Shared
  <2>4. CASE Lead(p, "head", k) /\ BeginHead(p, k)
    BY <2>2, <2>4, LeadKeeps DEF BeginHead, Kind, Shared
  <2> QED
    BY <2>1, <2>2, <2>3, <2>4, JoinKeeps, GetKeeps, DeleteKeeps
<1>3. ASSUME NEW p \in Procs, Below(p) \/ Land(p) PROVE Sharing'
  BY <1>3, BelowKeeps, LandKeeps
<1>4. ASSUME NEW k \in Keys, Loses(k) PROVE Sharing'
  BY <1>4, LosesKeeps
<1> QED
  BY <1>1, <1>2, <1>3, <1>4 DEF FlightNext

LEMMA AlwaysSharing == FlightSpec => []Sharing
BY SharingStarts, SharingKept, CacheAssumption, PTL DEF FlightSpec

\* An acknowledged PUT is found in the backend until its key is removed, whether
\* its request made the call or only joined it (singleflight.go:25-51).
THEOREM AckedPutsAreFound == FlightSpec => []AckedPutFound
<1>1. Sharing => AckedPutFound
  BY DEF Sharing, Found
<1> QED
  BY <1>1, AlwaysSharing, PTL

\* What goes through the group is a step of the cache, or none.
LEMMA CacheSteps ==
  ASSUME Sharing, [FlightNext]_<<vars, sharing>>
  PROVE  [Next]_vars
<1>1. CASE UNCHANGED <<vars, sharing>>
  BY <1>1
<1>2. ASSUME NEW p \in Procs, Request(p) PROVE [Next]_vars
  <2>1. PICK k \in Keys :
          \/ Lead(p, "put", k) /\ BeginPut(p, k)
          \/ BeginHead(p, k)
          \/ \E op \in Shared : Join(p, op, k)
          \/ BeginGet(p, k)
          \/ BeginDelete(p, k)
    BY <1>2 DEF Request
  <2>2. CASE Lead(p, "put", k) /\ BeginPut(p, k)
    <3>1. \A q \in Busy(k) : call[q].op # "put"
      BY <2>2 DEF Lead, UnderWay, Busy, Sharing, Puts
    <3> QED
      BY <2>2, <3>1 DEF Start, Next
  <2>3. CASE \E op \in Shared : Join(p, op, k)
    BY <2>3 DEF Join
  <2> QED
    BY <2>1, <2>2, <2>3 DEF Start, Next
<1>3. ASSUME NEW p \in Procs, Below(p) \/ Land(p) PROVE [Next]_vars
  BY <1>3 DEF Below, Land, Next
<1>4. ASSUME NEW k \in Keys, Loses(k) PROVE [Next]_vars
  BY <1>4 DEF Loses, Next
<1> QED
  BY <1>1, <1>2, <1>3, <1>4 DEF FlightNext

\* The backend below the group never serves two PUTs of a key at once, for any
\* number of requests: SingleFlight over the cache behaves as LRUCache does with
\* the guard it assumes (singleflight.go:46-51, lru_cache.go:90-101).
THEOREM FlightsImplementCache == FlightSpec => ImplementsCache
<1>1. FlightInit => Init
  BY DEF FlightInit
<1> QED
  BY <1>1, AlwaysSharing, CacheSteps, PTL DEF FlightSpec, Spec, ImplementsCache

\* So what is proved of the cache holds of it under the group: its memory is in
\* order, and stale entries are excused (singleflight.go:25-60, lru_cache.go:34-115).
THEOREM CacheKeepsUnderGroup == FlightSpec => [](TypeOK /\ StaleOnlyWhenExcused)
BY FlightsImplementCache, MemoryTypes, StaleHasAnExcuse, PTL DEF ImplementsCache

-----------------------------------------------------------------------------
\* Nobody is left waiting: of each kind and key one flight at most is under way,
\* what a request has joined still is, and the one who leads it waits for nobody,
\* so that waiting never goes round in a circle (singleflight.go:25-60).
NoneStranded ==
  /\ \A f, g \in flights : f.group = g.group => f = g
  /\ \A p \in Procs : waits[p] # None => \E f \in flights : f.group = waits[p].group
  /\ \A f \in flights : waits[f.leader] = None

\* A request that leads a flight finds none of its group and waits for nobody.
LEMMA LeadStrandsNone ==
  ASSUME Sharing, NoneStranded, NEW p \in Procs, NEW op, NEW k, Free(p), Lead(p, op, k)
  PROVE  NoneStranded'
<1> DEFINE new == Flight(p, op, k, ~Deleting(k))
<1>1. /\ flights' = flights \cup {new} /\ UNCHANGED waits /\ waits[p] = None
      /\ \A f \in flights : f.group # GroupOf(op, k)
  BY DEF Lead, Free, UnderWay
<1>2. new.group = GroupOf(op, k) /\ new.leader = p
  BY DEF Flight
<1> HIDE DEF new
<1> QED
  BY <1>1, <1>2 DEF NoneStranded

\* One that joins finds a flight, and leads none itself.
LEMMA JoinStrandsNone ==
  ASSUME Sharing, NoneStranded, NEW p \in Procs, NEW op, NEW k, Free(p), Join(p, op, k)
  PROVE  NoneStranded'
<1>1. /\ UNCHANGED flights /\ waits' = [waits EXCEPT ![p] = [op |-> op, group |-> GroupOf(op, k)]]
      /\ \E f \in flights : f.group = GroupOf(op, k)
      /\ \A f \in flights : f.leader # p
  BY DEF Join, Free, UnderWay
<1>2. \A q \in Procs : waits'[q] = IF q = p THEN [op |-> op, group |-> GroupOf(op, k)] ELSE waits[q]
  BY <1>1 DEF Sharing
<1>3. \A f \in flights : f.leader \in Procs
  BY DEF Sharing, Flights
<1> QED
  BY <1>1, <1>2, <1>3 DEF NoneStranded

\* A flight that lands takes along all who joined it.
LEMMA LandStrandsNone ==
  ASSUME Sharing, NoneStranded, NEW p \in Procs, Land(p)
  PROVE  NoneStranded'
<1>1. PICK f \in flights :
        /\ flights' = flights \ {f}
        /\ waits' = [q \in Procs |-> IF waits[q] # None /\ waits[q].group = f.group
                                    THEN None ELSE waits[q]]
  BY DEF Land
<1>2. \A q \in Procs : waits'[q] # None => waits'[q] = waits[q] /\ waits[q].group # f.group
  BY <1>1
<1>3. \A g \in flights' : waits'[g.leader] = None
  BY <1>1 DEF Sharing, Flights, NoneStranded
<1>4. \A q \in Procs : waits'[q] # None => \E g \in flights' : g.group = waits'[q].group
  BY <1>1, <1>2 DEF NoneStranded
<1> QED
  BY <1>1, <1>3, <1>4 DEF NoneStranded

\* A flight that is spoiled is under way all the same.
LEMMA SpoilStrandsNone ==
  ASSUME Sharing, NoneStranded, NEW k \in Keys, Spoil(k)
  PROVE  NoneStranded'
<1>1. \A g, h \in flights' : g.group = h.group => g = h
  BY SpoilEffect DEF NoneStranded
<1>2. \A g \in flights' : waits'[g.leader] = None
  BY SpoilEffect DEF NoneStranded
<1>3. \A p \in Procs : waits'[p] # None => \E g \in flights' : g.group = waits'[p].group
  BY SpoilEffect DEF NoneStranded
<1> QED
  BY <1>1, <1>2, <1>3 DEF NoneStranded

LEMMA StillNoneStranded ==
  ASSUME Sharing, NoneStranded, [FlightNext]_<<vars, sharing>>
  PROVE  NoneStranded'
<1>1. CASE UNCHANGED sharing
  BY <1>1 DEF sharing, NoneStranded
<1>2. ASSUME NEW p \in Procs, Request(p) PROVE NoneStranded'
  <2>1. Free(p)
    BY <1>2 DEF Request
  <2>2. PICK k \in Keys :
          \/ Lead(p, "put", k) \/ Lead(p, "head", k)
          \/ \E op \in Shared : Join(p, op, k)
          \/ UNCHANGED sharing
          \/ Spoil(k)
    BY <1>2 DEF Request
  <2> QED
    BY <1>1, <2>1, <2>2, LeadStrandsNone, JoinStrandsNone, SpoilStrandsNone
<1>3. ASSUME NEW p \in Procs, Below(p) \/ Land(p) PROVE NoneStranded'
  BY <1>1, <1>3, LandStrandsNone DEF Below
<1>4. ASSUME NEW k \in Keys, Loses(k) PROVE NoneStranded'
  BY <1>4, SpoilStrandsNone DEF Loses
<1> QED
  BY <1>1, <1>2, <1>3, <1>4 DEF FlightNext

\* However many requests share however many flights, each follower waits for one
\* that is under way and that a request leads which waits for nobody: a call of
\* Do always has an answer coming to it (singleflight.go:25-60).
THEOREM FollowersHaveALeader == FlightSpec => []NoneStranded
<1>1. FlightInit => NoneStranded
  BY DEF FlightInit, NoneStranded
<1>2. Sharing /\ NoneStranded /\ [FlightNext]_<<vars, sharing>> => NoneStranded'
  BY StillNoneStranded
<1> QED
  BY <1>1, <1>2, AlwaysSharing, PTL DEF FlightSpec
=============================================================================
