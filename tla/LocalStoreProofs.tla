-------------------------- MODULE LocalStoreProofs --------------------------
(***************************************************************************)
(* Proofs about LocalStore for any number of callers, keys, values, chunks *)
(* and inodes, with cleanup and restarts: as long as the PUTs of one key   *)
(* follow each other (SerialPuts) and no key is the temporary file of      *)
(* another (NoAliases), entries are whole and readers see whole entries.   *)
(***************************************************************************)
EXTENDS LocalStore, TLAPS

\* A whole file has every chunk.
LEMMA LengthOfWhole ==
  ASSUME NEW v \in Values
  PROVE  Length(Whole(v)) = Chunks
<1>1. v # None
  BY StoreAssumption
<1>2. /\ Chunks > 0 => Whole(v)[Chunks] # None
      /\ \A c \in Chunks+1..Chunks : Whole(v)[c] = None
  BY <1>1, StoreAssumption DEF Whole
<1>3. ASSUME NEW n \in 0..Chunks, n # Chunks,
             \A c \in n+1..Chunks : Whole(v)[c] = None
      PROVE  FALSE
  BY <1>1, <1>3, StoreAssumption DEF Whole
<1> QED
  BY <1>2, <1>3, StoreAssumption DEF Length

\* What a finished copy wrote is the whole body.
LEMMA FullPrefix == ASSUME NEW v PROVE Prefix(v, Chunks) = Whole(v)
BY StoreAssumption DEF Prefix, Whole

-----------------------------------------------------------------------------
\* The claims about the files that a step can break.
FileInv ==
  /\ OneNamePerFile /\ WritersAlone /\ RenamesOwnBody
  /\ EntriesWhole /\ ReadersSeeEntries
CallInv == CallsWellFormed /\ OnePutPerKey /\ PartialWritesNeverVisible

\* After its step q holds no file, and what it may be about to rename is whole.
LetsGo(q) ==
  /\ call'[q].fd = None
  /\ call'[q].pc \notin {"write", "fstat", "stream"}
  /\ call'[q].pc = "rename" /\ dir'[Tmp(q)'] # None =>
       data'[dir'[Tmp(q)']] = Whole(call'[q].val)

\* Names that disappear and callers that let go of their files break nothing.
LEMMA LetGo ==
  ASSUME IInv, UNCHANGED data,
         \A n \in Names : dir'[n] \in {dir[n], None},
         \A q \in Procs : call'[q] = call[q] \/ LetsGo(q)
  PROVE  FileInv'
<1> USE DEF IInv, Reading
<1>1. \A q \in Procs : call'[q].pc \in {"write", "fstat", "stream"}
                         => call'[q] = call[q]
  BY DEF LetsGo
<1>2. \A k \in Keys : k \in Names /\ TmpOf[k] \in Names
  BY StoreAssumption
<1>3. OneNamePerFile'
  BY DEF OneNamePerFile
<1>4. WritersAlone'
  <2> SUFFICES ASSUME NEW p \in Procs, call'[p].pc = "write"
               PROVE  /\ data'[call'[p].fd] = Prefix(call'[p].val, call'[p].size)
                      /\ dir'[Tmp(p)'] \in {call'[p].fd, None}
                      /\ \A n \in Names : dir'[n] = call'[p].fd => n = Tmp(p)'
                      /\ \A q \in Procs : call'[q].fd = call'[p].fd => q = p
    BY DEF WritersAlone
  <2>1. call'[p] = call[p] /\ Tmp(p)' = Tmp(p) /\ Tmp(p) \in Names
    BY <1>1, <1>2 DEF CallsWellFormed, Tmp
  <2>2. call[p].fd # None
    BY <2>1 DEF CallsWellFormed
  <2>3. \A q \in Procs : call'[q].fd = call'[p].fd => call'[q] = call[q]
    BY <2>1, <2>2 DEF LetsGo
  <2> QED
    BY <2>1, <2>2, <2>3 DEF WritersAlone
<1>5. RenamesOwnBody'
  <2> SUFFICES ASSUME NEW p \in Procs, call'[p].pc = "rename", dir'[Tmp(p)'] # None
               PROVE  data'[dir'[Tmp(p)']] = Whole(call'[p].val)
    BY DEF RenamesOwnBody
  <2>1. CASE LetsGo(p)
    BY <2>1 DEF LetsGo
  <2>2. CASE call'[p] = call[p]
    <3>1. Tmp(p)' = Tmp(p) /\ Tmp(p) \in Names
      BY <1>2, <2>2 DEF CallsWellFormed, Tmp
    <3> QED
      BY <2>2, <3>1 DEF RenamesOwnBody
  <2> QED
    BY <2>1, <2>2
<1>6. EntriesWhole'
  BY <1>2 DEF EntriesWhole
<1>7. ReadersSeeEntries'
  <2> SUFFICES ASSUME NEW p \in Procs, call'[p].pc \in {"fstat", "stream"}
               PROVE  /\ \E v \in Values : data'[call'[p].fd] = Whole(v)
                      /\ \A n \in Names : dir'[n] = call'[p].fd => n \in Keys
                      /\ call'[p].pc = "stream" =>
                           /\ call'[p].size = Chunks
                           /\ Len(call'[p].body) <= Chunks
                           /\ \A c \in 1..Len(call'[p].body) :
                                call'[p].body[c] = data'[call'[p].fd][c]
    BY DEF ReadersSeeEntries
  <2>1. call'[p] = call[p] /\ call[p].fd # None
    BY <1>1 DEF CallsWellFormed
  <2> QED
    BY <2>1 DEF ReadersSeeEntries
<1> QED
  BY <1>3, <1>4, <1>5, <1>6, <1>7 DEF FileInv
-----------------------------------------------------------------------------
\* A caller that returns lets go of its file and leaves the others alone.
LEMMA ReturnCalls ==
  ASSUME IInv, NEW p \in Procs, call[p].pc # "idle",
         NEW outcome \in {"ok", "missing", "failed"}, NEW n \in 0..Chunks,
         Return(p, outcome, n),
         outcome = "ok" /\ call[p].body # <<>> =>
           Len(call[p].body) = n /\ \E v \in Values : call[p].body = Whole(v)
  PROVE  /\ call' \in [Procs -> CallType]
         /\ CallInv'
         /\ \A q \in Procs : call'[q] = call[q] \/ LetsGo(q)
<1>1. call \in [Procs -> CallType] /\ call[p] \in CallType
  BY DEF IInv, TypeOK
<1>2. /\ call'[p] = [pc |-> "idle", key |-> None, val |-> None, fd |-> None,
                     size |-> n, body |-> call[p].body, status |-> outcome]
      /\ \A q \in Procs : q # p => call'[q] = call[q]
  BY <1>1 DEF Return, Idle
<1>3. call' \in [Procs -> CallType]
  <2>1. call'[p] \in CallType
    BY <1>1, <1>2 DEF CallType
  <2> QED
    BY <1>1, <1>2, <2>1 DEF Return
<1>4. CallsWellFormed'
  BY <1>2 DEF IInv, CallsWellFormed, InPut, PutSteps
<1>5. OnePutPerKey'
  BY <1>2 DEF IInv, OnePutPerKey, InPut, PutSteps
<1>6. PartialWritesNeverVisible'
  BY <1>2 DEF IInv, PartialWritesNeverVisible
<1>7. \A q \in Procs : call'[q] = call[q] \/ LetsGo(q)
  BY <1>2 DEF LetsGo
<1> QED
  BY <1>3, <1>4, <1>5, <1>6, <1>7 DEF CallInv

Going(p, step, f) ==
  [pc |-> step, key |-> call[p].key, val |-> call[p].val, fd |-> f,
   size |-> call[p].size, body |-> call[p].body, status |-> call[p].status]

\* A caller that goes on to another step of the same call.
LEMMA GoToCalls ==
  ASSUME IInv, NEW p \in Procs, call[p].pc \notin {"idle", "stream"},
         NEW step \in (PutSteps \ {"create"}) \cup GetSteps, NEW f \in Inodes \cup {None},
         GoTo(p, step, f),
         f # None <=> step \in {"write", "fstat", "stream"},
         step \in PutSteps => InPut(p)
  PROVE  /\ call' \in [Procs -> CallType]
         /\ CallInv'
         /\ call'[p] = Going(p, step, f)
         /\ \A q \in Procs : q # p => call'[q] = call[q]
<1>1. call \in [Procs -> CallType] /\ call[p] \in CallType
  BY DEF IInv, TypeOK
<1>2. /\ call'[p] = Going(p, step, f)
      /\ \A q \in Procs : q # p => call'[q] = call[q]
  BY <1>1 DEF GoTo, CallType, Going
<1>3. call' \in [Procs -> CallType]
  <2>1. call'[p] \in CallType
    BY <1>1, <1>2 DEF CallType, Going
  <2>2. call' = [q \in Procs |-> call'[q]]
    BY <1>1 DEF GoTo
  <2> QED
    BY <1>1, <1>2, <2>1, <2>2
<1>4. CallsWellFormed'
  BY <1>2 DEF IInv, CallsWellFormed, InPut, PutSteps, GetSteps, Going
<1>5. OnePutPerKey'
  BY <1>2 DEF IInv, OnePutPerKey, InPut, PutSteps, GetSteps, Going
<1>6. PartialWritesNeverVisible'
  BY <1>2 DEF IInv, PartialWritesNeverVisible, CallsWellFormed, Going
<1> QED
  BY <1>2, <1>3, <1>4, <1>5, <1>6 DEF CallInv

\* The pieces of the invariant put together again.
LEMMA Assemble == TypeOK' /\ CallInv' /\ FileInv' => IInv'
BY DEF CallInv, FileInv, IInv

\* Removing one name leaves every other name as it was.
LEMMA UnlinkDir ==
  ASSUME TypeOK, NEW n \in Names, Unlink(n) \/ UNCHANGED dir
  PROVE  /\ dir' \in [Names -> Inodes \cup {None}]
         /\ \A m \in Names : dir'[m] \in {dir[m], None}
BY DEF TypeOK, Unlink

-----------------------------------------------------------------------------
\* The invariant holds of an empty directory.
LEMMA InitInv == Init => IInv
<1> SUFFICES ASSUME Init PROVE IInv
  OBVIOUS
<1>1. /\ dir = [n \in Names |-> None] /\ data = [i \in Inodes |-> Empty]
      /\ stale = {} /\ todo = {} /\ victim = None
      /\ call = [p \in Procs |-> Idle]
  BY DEF Init
<1>2. \A p \in Procs : call[p] = Idle
  BY <1>1
<1>3. TypeOK
  BY <1>1, StoreAssumption DEF TypeOK, Empty, CallType, Idle
<1>4. CallsWellFormed /\ OnePutPerKey /\ PartialWritesNeverVisible
  BY <1>2 DEF CallsWellFormed, OnePutPerKey, PartialWritesNeverVisible, Idle,
              InPut, PutSteps
<1>5. OneNamePerFile /\ EntriesWhole
  BY <1>1, StoreAssumption DEF OneNamePerFile, EntriesWhole
<1>6. WritersAlone /\ RenamesOwnBody /\ ReadersSeeEntries
  BY <1>2 DEF WritersAlone, RenamesOwnBody, ReadersSeeEntries, Reading, Idle
<1> QED
  BY <1>3, <1>4, <1>5, <1>6 DEF IInv

\* A call begins: SerialPuts keeps a second PUT of its key away.
LEMMA BeginInv ==
  ASSUME SerialPuts, IInv, NEW p \in Procs, Start(p)
  PROVE  IInv'
<1>1. PICK k \in Keys, v \in Values \cup {None},
           step \in {"create", "open", "head", "remove"} :
        /\ Begin(p, step, k, v)
        /\ step = "create" => v \in Values /\ \A q \in Procs : InPut(q) => call[q].key # k
  BY DEF Start, StartPut
<1>2. call \in [Procs -> CallType] /\ call[p].pc = "idle"
  BY <1>1 DEF IInv, TypeOK, Begin
<1>3. /\ call'[p] = [pc |-> step, key |-> k, val |-> v, fd |-> None,
                     size |-> 0, body |-> <<>>, status |-> "pending"]
      /\ \A q \in Procs : q # p => call'[q] = call[q]
  BY <1>1, <1>2 DEF Begin, Idle
<1>4. TypeOK'
  <2>1. call'[p] \in CallType
    BY <1>1, <1>3, StoreAssumption DEF CallType, PutSteps, GetSteps
  <2>2. call' = [q \in Procs |-> call'[q]]
    BY <1>1, <1>2 DEF Begin
  <2>3. call' \in [Procs -> CallType]
    BY <1>2, <1>3, <2>1, <2>2
  <2> QED
    BY <1>1, <2>3 DEF IInv, TypeOK, Begin, files, cleaner
<1>5. CallsWellFormed'
  BY <1>1, <1>3 DEF IInv, CallsWellFormed, InPut, PutSteps
<1>6. OnePutPerKey'
  BY <1>1, <1>3 DEF IInv, OnePutPerKey, InPut, PutSteps
<1>7. PartialWritesNeverVisible'
  BY <1>3 DEF IInv, PartialWritesNeverVisible
<1>8. FileInv'
  <2>1. \A q \in Procs : call'[q] = call[q] \/ LetsGo(q)
    BY <1>3 DEF LetsGo
  <2>2. UNCHANGED <<data, dir>>
    BY <1>1 DEF Begin, files
  <2> QED
    BY <2>1, <2>2, LetGo
<1> QED
  BY <1>4, <1>5, <1>6, <1>7, <1>8, Assemble DEF CallInv

\* A call returns; files are left as they are, or lose names.
LEMMA ReturnInv ==
  ASSUME IInv, NEW p \in Procs, call[p].pc # "idle",
         NEW outcome \in {"ok", "missing", "failed"}, NEW n \in 0..Chunks,
         Return(p, outcome, n),
         outcome = "ok" /\ call[p].body # <<>> =>
           Len(call[p].body) = n /\ \E v \in Values : call[p].body = Whole(v),
         UNCHANGED <<data, stale, cleaner>>,
         dir' \in [Names -> Inodes \cup {None}],
         \A m \in Names : dir'[m] \in {dir[m], None}
  PROVE  IInv'
<1>1. /\ call' \in [Procs -> CallType] /\ CallInv'
      /\ \A q \in Procs : call'[q] = call[q] \/ LetsGo(q)
  BY ReturnCalls
<1>2. TypeOK'
  BY <1>1 DEF IInv, TypeOK, cleaner
<1>3. FileInv'
  BY <1>1, LetGo
<1> QED
  BY <1>1, <1>2, <1>3, Assemble

\* PutCreate: an inode that is free or has the temporary name gets no other
\* holder, and no reader loses the file it reads.
LEMMA CreateInv ==
  ASSUME NoAliases, IInv, NEW p \in Procs, PutCreate(p)
  PROVE  IInv'
<1>1. /\ call[p].pc = "create" /\ InPut(p) /\ Tmp(p) \in Names /\ Tmp(p) \notin Keys
      /\ call[p].key \in Keys /\ call[p].val \in Values /\ call[p].size = 0
      /\ call[p].body = <<>>
  BY StoreAssumption DEF PutCreate, InPut, PutSteps, IInv, CallsWellFormed, Tmp, NoAliases
<1>2. CASE Return(p, "failed", 0) /\ UNCHANGED files
  BY <1>1, <1>2, ReturnInv, StoreAssumption DEF files, PutCreate, IInv, TypeOK
<1>3. ASSUME NEW i \in Inodes, CreateFile(Tmp(p), i), GoTo(p, "write", i)
      PROVE  IInv'
  <2>1. /\ call' \in [Procs -> CallType] /\ CallInv'
        /\ call'[p] = Going(p, "write", i)
        /\ \A q \in Procs : q # p => call'[q] = call[q]
    BY <1>1, <1>3, GoToCalls, StoreAssumption DEF PutSteps, GetSteps
  <2>2. \A q \in Procs : q # p /\ InPut(q) => Tmp(q) # Tmp(p)
    BY <1>1 DEF IInv, OnePutPerKey, CallsWellFormed, NoAliases, Tmp, InPut, PutSteps
  <2>3. \A q \in Procs : q # p => call[q].fd # i
    <3>1. CASE dir[Tmp(p)] = i
      BY <1>1, <2>2, <3>1, StoreAssumption
         DEF IInv, WritersAlone, ReadersSeeEntries, CallsWellFormed, InPut, PutSteps, Reading
    <3>2. CASE Free(i)
      BY <3>2 DEF Free
    <3> QED
      BY <1>3, <3>1, <3>2 DEF CreateFile
  <2>4. /\ dir' \in [Names -> Inodes \cup {None}]
        /\ dir'[Tmp(p)] = i
        /\ \A n \in Names : n # Tmp(p) => dir'[n] = dir[n] /\ dir[n] # i
    <3>1. CASE dir[Tmp(p)] = i /\ UNCHANGED dir
      BY <1>1, <3>1, StoreAssumption DEF IInv, TypeOK, OneNamePerFile
    <3>2. CASE Free(i) /\ dir' = [dir EXCEPT ![Tmp(p)] = i]
      BY <1>1, <3>2 DEF IInv, TypeOK, Free, Linked
    <3> QED
      BY <1>3, <3>1, <3>2 DEF CreateFile
  <2>5. /\ data' \in [Inodes -> [1..Chunks -> Values \cup {None}]]
        /\ data'[i] = Prefix(call[p].val, 0)
        /\ \A j \in Inodes : j # i => data'[j] = data[j]
    <3>1. Empty = Prefix(call[p].val, 0) /\ Empty \in [1..Chunks -> Values \cup {None}]
      BY DEF Empty, Prefix
    <3> QED
      BY <1>3, <3>1 DEF CreateFile, IInv, TypeOK
  <2>6. TypeOK'
    BY <1>3, <2>1, <2>4, <2>5 DEF IInv, TypeOK, PutCreate, CreateFile, cleaner
  <2>7. OneNamePerFile'
    BY <1>1, <2>4 DEF IInv, OneNamePerFile
  <2>8. WritersAlone'
    <3> SUFFICES ASSUME NEW q \in Procs, call'[q].pc = "write"
                 PROVE  /\ data'[call'[q].fd] = Prefix(call'[q].val, call'[q].size)
                        /\ dir'[Tmp(q)'] \in {call'[q].fd, None}
                        /\ \A n \in Names : dir'[n] = call'[q].fd => n = Tmp(q)'
                        /\ \A r \in Procs : call'[r].fd = call'[q].fd => r = q
      BY DEF WritersAlone
    <3>1. CASE q = p
      BY <1>1, <2>1, <2>3, <2>4, <2>5, <3>1 DEF Going, Tmp
    <3>2. CASE q # p
      <4>1. /\ call'[q] = call[q] /\ Tmp(q)' = Tmp(q) /\ call[q].fd \in Inodes
            /\ InPut(q) /\ Tmp(q) \in Names
        BY <2>1, <3>2, StoreAssumption
           DEF IInv, TypeOK, CallType, CallsWellFormed, InPut, PutSteps, Tmp
      <4>2. call[q].fd # i /\ Tmp(q) # Tmp(p)
        BY <2>2, <2>3, <3>2, <4>1
      <4> QED
        BY <2>1, <2>4, <2>5, <3>2, <4>1, <4>2 DEF IInv, WritersAlone, Going
    <3> QED
      BY <3>1, <3>2
  <2>9. RenamesOwnBody'
    <3> SUFFICES ASSUME NEW q \in Procs, call'[q].pc = "rename", dir'[Tmp(q)'] # None
                 PROVE  data'[dir'[Tmp(q)']] = Whole(call'[q].val)
      BY DEF RenamesOwnBody
    <3>1. q # p /\ call'[q] = call[q]
      BY <2>1 DEF Going
    <3>2. InPut(q) /\ Tmp(q)' = Tmp(q) /\ Tmp(q) \in Names /\ Tmp(q) # Tmp(p)
      BY <2>2, <3>1, StoreAssumption DEF IInv, CallsWellFormed, InPut, PutSteps, Tmp
    <3> QED
      BY <2>4, <2>5, <3>1, <3>2 DEF IInv, TypeOK, RenamesOwnBody
  <2>10. EntriesWhole'
    BY <1>1, <2>4, <2>5, StoreAssumption DEF IInv, TypeOK, EntriesWhole
  <2>11. ReadersSeeEntries'
    <3> SUFFICES ASSUME NEW q \in Procs, call'[q].pc \in {"fstat", "stream"}
                 PROVE  /\ \E v \in Values : data'[call'[q].fd] = Whole(v)
                        /\ \A n \in Names : dir'[n] = call'[q].fd => n \in Keys
                        /\ call'[q].pc = "stream" =>
                             /\ call'[q].size = Chunks
                             /\ Len(call'[q].body) <= Chunks
                             /\ \A c \in 1..Len(call'[q].body) :
                                  call'[q].body[c] = data'[call'[q].fd][c]
      BY DEF ReadersSeeEntries, Reading
    <3>1. q # p /\ call'[q] = call[q] /\ call[q].fd \in Inodes /\ call[q].fd # i
      BY <2>1, <2>3 DEF Going, IInv, TypeOK, CallType, CallsWellFormed
    <3> QED
      BY <2>4, <2>5, <3>1 DEF IInv, ReadersSeeEntries, Reading
  <2> QED
    BY <2>1, <2>6, <2>7, <2>8, <2>9, <2>10, <2>11, Assemble DEF FileInv
<1> QED
  BY <1>2, <1>3 DEF PutCreate

\* PutWrite: the writer is alone, so nobody else sees the file change.
LEMMA WriteInv ==
  ASSUME NoAliases, IInv, NEW p \in Procs, PutWrite(p)
  PROVE  IInv'
<1> DEFINE i == call[p].fd
           n == call[p].size
<1>1. /\ call[p].pc = "write" /\ n \in 0..Chunks /\ n < Chunks /\ InPut(p)
      /\ call[p].key \in Keys /\ call[p].val \in Values /\ i \in Inodes
      /\ call[p].status = "pending" /\ Tmp(p) \in Names /\ Tmp(p) \notin Keys
  BY StoreAssumption
     DEF PutWrite, MayWrite, IInv, TypeOK, CallType, CallsWellFormed, InPut, PutSteps,
         Tmp, NoAliases
<1>2. call \in [Procs -> CallType] /\ data \in [Inodes -> [1..Chunks -> Values \cup {None}]]
  BY DEF IInv, TypeOK
<1>3. /\ call'[p] = [pc |-> "write", key |-> call[p].key, val |-> call[p].val,
                     fd |-> i, size |-> n + 1, body |-> call[p].body,
                     status |-> call[p].status]
      /\ \A q \in Procs : q # p => call'[q] = call[q]
  BY <1>1, <1>2 DEF PutWrite, CallType
<1>4. /\ \A j \in Inodes : j # i => data'[j] = data[j]
      /\ data'[i] = [data[i] EXCEPT ![n + 1] = call[p].val]
      /\ data' = [j \in Inodes |-> data'[j]]
  BY <1>1, <1>2 DEF PutWrite
<1>5. data[i] = Prefix(call[p].val, n)
  BY <1>1 DEF IInv, WritersAlone
<1>6. data'[i] = Prefix(call[p].val, n + 1)
  BY <1>1, <1>4, <1>5, StoreAssumption DEF Prefix
<1>7. UNCHANGED <<dir, stale, todo, victim>>
  BY DEF PutWrite, cleaner
<1>8. TypeOK'
  <2>1. call'[p] \in CallType
    <3>1. call[p] \in CallType /\ n + 1 \in 0..Chunks /\ "write" \in PutSteps
      BY <1>1, <1>2, StoreAssumption DEF PutSteps
    <3> QED
      BY <1>1, <1>3, <3>1 DEF CallType
  <2>2. call' = [q \in Procs |-> call'[q]]
    BY <1>2 DEF PutWrite
  <2>3. call' \in [Procs -> CallType]
    BY <1>2, <1>3, <2>1, <2>2
  <2>4. data'[i] \in [1..Chunks -> Values \cup {None}]
    BY <1>1, <1>6 DEF Prefix
  <2>5. data' \in [Inodes -> [1..Chunks -> Values \cup {None}]]
    BY <1>1, <1>2, <1>4, <2>4
  <2> QED
    BY <1>7, <2>3, <2>5 DEF IInv, TypeOK
<1>9. CallInv'
  <2>1. CallsWellFormed'
    BY <1>1, <1>3 DEF IInv, CallsWellFormed, InPut, PutSteps
  <2>2. OnePutPerKey'
    BY <1>1, <1>3 DEF IInv, OnePutPerKey, InPut, PutSteps
  <2>3. PartialWritesNeverVisible'
    BY <1>1, <1>3 DEF IInv, PartialWritesNeverVisible
  <2> QED
    BY <2>1, <2>2, <2>3 DEF CallInv
<1>10. /\ \A q \in Procs : q # p => call[q].fd # i
       /\ \A m \in Names : dir[m] = i => m = Tmp(p)
       /\ dir[Tmp(p)] \in {i, None}
  BY <1>1 DEF IInv, WritersAlone
<1>11. OneNamePerFile'
  BY <1>7 DEF IInv, OneNamePerFile
<1>12. WritersAlone'
  <2> SUFFICES ASSUME NEW q \in Procs, call'[q].pc = "write"
               PROVE  /\ data'[call'[q].fd] = Prefix(call'[q].val, call'[q].size)
                      /\ dir'[Tmp(q)'] \in {call'[q].fd, None}
                      /\ \A m \in Names : dir'[m] = call'[q].fd => m = Tmp(q)'
                      /\ \A r \in Procs : call'[r].fd = call'[q].fd => r = q
    BY DEF WritersAlone
  <2>1. CASE q = p
    BY <1>3, <1>6, <1>7, <1>10, <2>1 DEF Tmp
  <2>2. CASE q # p
    <3>1. call'[q] = call[q] /\ Tmp(q)' = Tmp(q) /\ call[q].fd \in Inodes /\ call[q].fd # i
      BY <1>2, <1>3, <1>10, <2>2, StoreAssumption DEF IInv, CallType, CallsWellFormed, Tmp
    <3> QED
      BY <1>3, <1>4, <1>7, <1>10, <2>2, <3>1 DEF IInv, WritersAlone
  <2> QED
    BY <2>1, <2>2
<1>13. RenamesOwnBody'
  <2> SUFFICES ASSUME NEW q \in Procs, call'[q].pc = "rename", dir'[Tmp(q)'] # None
               PROVE  data'[dir'[Tmp(q)']] = Whole(call'[q].val)
    BY DEF RenamesOwnBody
  <2>1. q # p /\ call'[q] = call[q] /\ InPut(q) /\ Tmp(q)' = Tmp(q) /\ Tmp(q) \in Names
    BY <1>3, StoreAssumption DEF IInv, CallsWellFormed, InPut, PutSteps, Tmp
  <2>2. Tmp(q) # Tmp(p)
    BY <1>1, <2>1 DEF IInv, OnePutPerKey, CallsWellFormed, NoAliases, Tmp, InPut, PutSteps
  <2>3. dir[Tmp(q)] \in Inodes /\ dir[Tmp(q)] # i
    BY <1>7, <1>10, <2>1, <2>2 DEF IInv, TypeOK
  <2> QED
    BY <1>4, <1>7, <2>1, <2>3 DEF IInv, RenamesOwnBody
<1>14. EntriesWhole'
  <2> SUFFICES ASSUME NEW k \in Keys, dir[k] # None
               PROVE  \E v \in Values : data'[dir[k]] = Whole(v)
    BY <1>7 DEF EntriesWhole
  <2>1. dir[k] \in Inodes /\ dir[k] # i
    BY <1>1, <1>10, StoreAssumption DEF IInv, TypeOK
  <2> QED
    BY <1>4, <2>1 DEF IInv, EntriesWhole
<1>15. ReadersSeeEntries'
  <2> SUFFICES ASSUME NEW q \in Procs, call'[q].pc \in {"fstat", "stream"}
               PROVE  /\ \E v \in Values : data'[call'[q].fd] = Whole(v)
                      /\ \A m \in Names : dir'[m] = call'[q].fd => m \in Keys
                      /\ call'[q].pc = "stream" =>
                           /\ call'[q].size = Chunks
                           /\ Len(call'[q].body) <= Chunks
                           /\ \A c \in 1..Len(call'[q].body) :
                                call'[q].body[c] = data'[call'[q].fd][c]
    BY DEF ReadersSeeEntries, Reading
  <2>1. q # p /\ call'[q] = call[q] /\ call[q].fd \in Inodes /\ call[q].fd # i
    BY <1>2, <1>3, <1>10 DEF IInv, CallType, CallsWellFormed
  <2> QED
    BY <1>4, <1>7, <2>1 DEF IInv, ReadersSeeEntries, Reading
<1> QED
  BY <1>8, <1>9, <1>11, <1>12, <1>13, <1>14, <1>15, Assemble DEF FileInv

\* PutClose: what is complete under the temporary name waits for its rename.
LEMMA CloseInv ==
  ASSUME NoAliases, IInv, NEW p \in Procs, PutClose(p)
  PROVE  IInv'
<1>1. PICK step \in {"rename", "unlink"} :
        GoTo(p, step, None) /\ (step = "rename" => call[p].size = Chunks)
  BY DEF PutClose, Copied
<1>2. call[p].pc = "write" /\ InPut(p) /\ UNCHANGED <<files, cleaner>>
  BY DEF PutClose, InPut, PutSteps
<1>3. /\ call' \in [Procs -> CallType] /\ CallInv'
      /\ call'[p] = Going(p, step, None)
      /\ \A q \in Procs : q # p => call'[q] = call[q]
  BY <1>1, <1>2, GoToCalls DEF PutSteps, GetSteps
<1>4. LetsGo(p)
  <2>1. step = "rename" => data[call[p].fd] = Whole(call[p].val)
    BY <1>1, <1>2, FullPrefix DEF IInv, WritersAlone
  <2>2. Tmp(p)' = Tmp(p) /\ dir[Tmp(p)] \in {call[p].fd, None}
    BY <1>2, <1>3 DEF Going, Tmp, IInv, WritersAlone
  <2> QED
    BY <1>2, <1>3, <2>1, <2>2 DEF LetsGo, Going, files
<1>5. FileInv'
  BY <1>2, <1>3, <1>4, LetGo DEF files
<1>6. TypeOK'
  BY <1>2, <1>3 DEF IInv, TypeOK, files, cleaner
<1> QED
  BY <1>3, <1>5, <1>6, Assemble

\* PutRename: the entry becomes the PUT's own complete body.
LEMMA RenameInv ==
  ASSUME NoAliases, IInv, NEW p \in Procs, PutRename(p)
  PROVE  IInv'
<1> DEFINE k == call[p].key
<1>1. /\ call[p].pc = "rename" /\ InPut(p) /\ k \in Keys /\ k \in Names
      /\ Tmp(p) \in Names /\ Tmp(p) \notin Keys /\ Tmp(p) = TmpOf[k]
      /\ call[p].val \in Values /\ call[p].body = <<>>
  BY StoreAssumption DEF PutRename, InPut, PutSteps, IInv, CallsWellFormed, Tmp, NoAliases
<1>2. UNCHANGED <<data, stale, todo, victim>>
  BY DEF PutRename, cleaner
<1>3. CASE GoTo(p, "unlinkLocked", None) /\ UNCHANGED dir
  <2>1. /\ call' \in [Procs -> CallType] /\ CallInv'
        /\ call'[p] = Going(p, "unlinkLocked", None)
        /\ \A q \in Procs : q # p => call'[q] = call[q]
    BY <1>1, <1>3, GoToCalls DEF PutSteps, GetSteps
  <2>2. FileInv'
    BY <1>2, <1>3, <2>1, LetGo DEF LetsGo, Going
  <2> QED
    BY <1>2, <1>3, <2>1, <2>2, Assemble DEF IInv, TypeOK
<1>4. CASE CanRename(p) /\ Publish(k) /\ Return(p, "ok", 0)
  <2>1. /\ call' \in [Procs -> CallType] /\ CallInv'
        /\ \A q \in Procs : call'[q] = call[q] \/ LetsGo(q)
    BY <1>1, <1>4, ReturnCalls, StoreAssumption
  <2>2. /\ call'[p].fd = None /\ call'[p].pc = "idle"
        /\ \A q \in Procs : q # p => call'[q] = call[q]
    BY <1>4 DEF Return, Idle, IInv, TypeOK
  <2>3. /\ dir' \in [Names -> Inodes \cup {None}]
        /\ dir'[k] = dir[Tmp(p)] /\ dir'[Tmp(p)] = None /\ dir[Tmp(p)] # None
        /\ \A n \in Names : n # k /\ n # Tmp(p) => dir'[n] = dir[n]
    BY <1>1, <1>4 DEF Publish, CanRename, IInv, TypeOK
  <2>4. data[dir[Tmp(p)]] = Whole(call[p].val)
    BY <1>1, <2>3 DEF IInv, RenamesOwnBody
  <2>5. TypeOK'
    BY <1>2, <2>1, <2>3 DEF IInv, TypeOK
  <2>6. OneNamePerFile'
    BY <1>1, <2>3 DEF IInv, OneNamePerFile
  <2>7. \A q \in Procs : q # p /\ InPut(q) =>
          /\ Tmp(q) \in Names /\ Tmp(q) # Tmp(p) /\ Tmp(q) # k /\ Tmp(q)' = Tmp(q)
    BY <1>1, <2>2, StoreAssumption
       DEF IInv, OnePutPerKey, CallsWellFormed, NoAliases, Tmp, InPut, PutSteps
  <2>8. WritersAlone'
    <3> SUFFICES ASSUME NEW q \in Procs, call'[q].pc = "write"
                 PROVE  /\ data'[call'[q].fd] = Prefix(call'[q].val, call'[q].size)
                        /\ dir'[Tmp(q)'] \in {call'[q].fd, None}
                        /\ \A n \in Names : dir'[n] = call'[q].fd => n = Tmp(q)'
                        /\ \A r \in Procs : call'[r].fd = call'[q].fd => r = q
      BY DEF WritersAlone
    <3>1. q # p /\ call'[q] = call[q] /\ InPut(q) /\ call[q].fd # None
      BY <2>2 DEF InPut, PutSteps, IInv, CallsWellFormed
    <3>2. Tmp(q) \in Names /\ Tmp(q) # Tmp(p) /\ Tmp(q) # k /\ Tmp(q)' = Tmp(q)
      BY <2>7, <3>1
    <3>3. dir[Tmp(p)] # call[q].fd
      BY <1>1, <3>1, <3>2 DEF IInv, WritersAlone
    <3> QED
      BY <1>1, <1>2, <2>2, <2>3, <3>1, <3>2, <3>3 DEF IInv, WritersAlone
  <2>9. RenamesOwnBody'
    BY <1>2, <2>2, <2>3, <2>7 DEF IInv, RenamesOwnBody, InPut, PutSteps
  <2>10. EntriesWhole'
    BY <1>1, <1>2, <2>3, <2>4, StoreAssumption DEF IInv, EntriesWhole
  <2>11. ReadersSeeEntries'
    <3> SUFFICES ASSUME NEW q \in Procs, call'[q].pc \in {"fstat", "stream"}
                 PROVE  /\ \E v \in Values : data'[call'[q].fd] = Whole(v)
                        /\ \A n \in Names : dir'[n] = call'[q].fd => n \in Keys
                        /\ call'[q].pc = "stream" =>
                             /\ call'[q].size = Chunks
                             /\ Len(call'[q].body) <= Chunks
                             /\ \A c \in 1..Len(call'[q].body) :
                                  call'[q].body[c] = data'[call'[q].fd][c]
      BY DEF ReadersSeeEntries, Reading
    <3>1. q # p /\ call'[q] = call[q] /\ call[q].fd # None
      BY <2>2 DEF IInv, CallsWellFormed
    <3> QED
      BY <1>1, <1>2, <2>3, <3>1 DEF IInv, ReadersSeeEntries, Reading
  <2> QED
    BY <2>1, <2>5, <2>6, <2>8, <2>9, <2>10, <2>11, Assemble DEF FileInv
<1> QED
  BY <1>3, <1>4 DEF PutRename

\* PutUnlink: a failed PUT removes at most its temporary name.
LEMMA UnlinkInv ==
  ASSUME NoAliases, IInv, NEW p \in Procs, PutUnlink(p)
  PROVE  IInv'
<1>1. call[p].pc # "idle" /\ call[p].body = <<>> /\ Tmp(p) \in Names
  BY StoreAssumption DEF PutUnlink, IInv, CallsWellFormed, Tmp
<1>2. /\ dir' \in [Names -> Inodes \cup {None}]
      /\ \A m \in Names : dir'[m] \in {dir[m], None}
  BY <1>1, UnlinkDir DEF PutUnlink, IInv
<1> QED
  BY <1>1, <1>2, ReturnInv, StoreAssumption DEF PutUnlink, PutFails

-----------------------------------------------------------------------------
\* A GET, HEAD or DELETE is not a PUT: its step away from idle names a key.
LEMMA CallKey ==
  ASSUME IInv, NEW p \in Procs, call[p].pc # "idle"
  PROVE  call[p].key \in Keys /\ call[p].key \in Names
BY StoreAssumption DEF IInv, CallsWellFormed

\* A published entry has the full length.
LEMMA EntryLength ==
  ASSUME IInv, NEW k \in Keys, dir[k] # None
  PROVE  Length(data[dir[k]]) = Chunks
BY LengthOfWhole DEF IInv, EntriesWhole

\* GetOpen: the caller holds an entry that is whole.
LEMMA OpenInv ==
  ASSUME NoAliases, IInv, NEW p \in Procs, GetOpen(p)
  PROVE  IInv'
<1> DEFINE k == call[p].key
           i == dir[k]
<1>1. /\ call[p].pc = "open" /\ k \in Keys /\ k \in Names /\ call[p].body = <<>>
      /\ UNCHANGED <<files, cleaner>>
  BY CallKey DEF GetOpen, IInv, CallsWellFormed
<1>2. CASE i # None /\ GoTo(p, "fstat", i)
  <2>1. i \in Inodes
    BY <1>1, <1>2 DEF IInv, TypeOK
  <2>2. /\ call' \in [Procs -> CallType] /\ CallInv'
        /\ call'[p] = Going(p, "fstat", i)
        /\ \A q \in Procs : q # p => call'[q] = call[q]
    BY <1>1, <1>2, <2>1, GoToCalls DEF PutSteps, GetSteps
  <2>3. TypeOK'
    BY <1>1, <2>2 DEF IInv, TypeOK, files, cleaner
  <2>4. OneNamePerFile' /\ EntriesWhole'
    BY <1>1 DEF IInv, OneNamePerFile, EntriesWhole, files
  <2>5. RenamesOwnBody'
    BY <1>1, <2>2 DEF IInv, RenamesOwnBody, Tmp, Going, files
  <2>6. WritersAlone'
    <3> SUFFICES ASSUME NEW q \in Procs, call'[q].pc = "write"
                 PROVE  /\ data'[call'[q].fd] = Prefix(call'[q].val, call'[q].size)
                        /\ dir'[Tmp(q)'] \in {call'[q].fd, None}
                        /\ \A n \in Names : dir'[n] = call'[q].fd => n = Tmp(q)'
                        /\ \A r \in Procs : call'[r].fd = call'[q].fd => r = q
      BY DEF WritersAlone
    <3>1. q # p /\ call'[q] = call[q] /\ Tmp(q)' = Tmp(q)
      BY <2>2 DEF Going, Tmp
    <3>2. Tmp(q) # k
      BY <1>1, <3>1 DEF IInv, CallsWellFormed, NoAliases, Tmp
    <3>3. call[q].fd # i
      BY <1>1, <3>1, <3>2 DEF IInv, WritersAlone
    <3> QED
      BY <1>1, <2>2, <3>1, <3>3 DEF IInv, WritersAlone, Going, files
  <2>7. ReadersSeeEntries'
    <3> SUFFICES ASSUME NEW q \in Procs, call'[q].pc \in {"fstat", "stream"}
                 PROVE  /\ \E v \in Values : data'[call'[q].fd] = Whole(v)
                        /\ \A n \in Names : dir'[n] = call'[q].fd => n \in Keys
                        /\ call'[q].pc = "stream" =>
                             /\ call'[q].size = Chunks
                             /\ Len(call'[q].body) <= Chunks
                             /\ \A c \in 1..Len(call'[q].body) :
                                  call'[q].body[c] = data'[call'[q].fd][c]
      BY DEF ReadersSeeEntries, Reading
    <3>1. CASE q = p
      <4>1. \E v \in Values : data[i] = Whole(v)
        BY <1>1, <1>2 DEF IInv, EntriesWhole
      <4>2. \A n \in Names : dir[n] = i => n = k
        BY <1>1, <1>2 DEF IInv, OneNamePerFile
      <4> QED
        BY <1>1, <2>2, <3>1, <4>1, <4>2 DEF Going, files
    <3>2. CASE q # p
      BY <1>1, <2>2, <3>2 DEF IInv, ReadersSeeEntries, Reading, files
    <3> QED
      BY <3>1, <3>2
  <2> QED
    BY <2>2, <2>3, <2>4, <2>5, <2>6, <2>7, Assemble DEF FileInv
<1>3. CASE i = None /\ Return(p, "missing", 0)
  BY <1>1, <1>3, ReturnInv, StoreAssumption DEF files, IInv, TypeOK
<1>4. CASE Return(p, "failed", 0)
  BY <1>1, <1>4, ReturnInv, StoreAssumption DEF files, IInv, TypeOK
<1> QED
  BY <1>2, <1>3, <1>4 DEF GetOpen

Streaming(p, b) ==
  [pc |-> "stream", key |-> call[p].key, val |-> call[p].val, fd |-> call[p].fd,
   size |-> Chunks, body |-> b, status |-> call[p].status]

\* A step of a reader that changes nothing but its own size, body and step.
LEMMA ReaderInv ==
  ASSUME IInv, NEW p \in Procs, Reading(p), NEW b \in Seq(Values \cup {None}),
         call' = [q \in Procs |-> call'[q]], call'[p] = Streaming(p, b),
         \A q \in Procs : q # p => call'[q] = call[q],
         Len(b) <= Chunks, \A c \in 1..Len(b) : b[c] = data[call[p].fd][c],
         UNCHANGED <<dir, data, todo, victim>>, stale' \subseteq Inodes
  PROVE  IInv'
<1>1. call \in [Procs -> CallType] /\ call[p] \in CallType
  BY DEF IInv, TypeOK
<1>2. /\ call'[p] = [pc |-> "stream", key |-> call[p].key, val |-> call[p].val,
                     fd |-> call[p].fd, size |-> Chunks, body |-> b,
                     status |-> call[p].status]
      /\ \A q \in Procs : q # p => call'[q] = call[q]
  BY DEF Streaming
<1>3. TypeOK'
  <2>1. call'[p] \in CallType
    BY <1>1, <1>2, StoreAssumption DEF CallType, GetSteps
  <2>2. call' \in [Procs -> CallType]
    BY <1>1, <1>2, <2>1
  <2> QED
    BY <2>2 DEF IInv, TypeOK
<1>4. CallsWellFormed'
  BY <1>2 DEF IInv, CallsWellFormed, Reading, InPut, PutSteps
<1>5. OnePutPerKey'
  BY <1>2 DEF IInv, OnePutPerKey, InPut, PutSteps
<1>6. PartialWritesNeverVisible'
  BY <1>2 DEF IInv, PartialWritesNeverVisible, CallsWellFormed, Reading
<1>7. OneNamePerFile' /\ EntriesWhole'
  BY DEF IInv, OneNamePerFile, EntriesWhole
<1>8. RenamesOwnBody'
  <2>1. \A q \in Procs : call'[q].pc = "rename" => call'[q] = call[q] /\ Tmp(q)' = Tmp(q)
    BY <1>2 DEF Tmp
  <2> QED
    BY <2>1 DEF IInv, RenamesOwnBody
<1>9. WritersAlone'
  BY <1>2 DEF IInv, WritersAlone, Tmp
<1>10. ReadersSeeEntries'
  BY <1>2 DEF IInv, ReadersSeeEntries, Reading
<1> QED
  BY <1>3, <1>4, <1>5, <1>6, <1>7, <1>8, <1>9, <1>10 DEF IInv

\* The file a reader holds has the full length.
LEMMA OpenFileLength ==
  ASSUME IInv, NEW p \in Procs, Reading(p)
  PROVE  Length(data[call[p].fd]) = Chunks
BY LengthOfWhole DEF IInv, ReadersSeeEntries

\* GetStat: the size announced is the full length.
LEMMA StatInv ==
  ASSUME IInv, NEW p \in Procs, GetStat(p)
  PROVE  IInv'
<1>1. /\ call[p].pc = "fstat" /\ Reading(p) /\ call[p].body = <<>>
      /\ UNCHANGED <<files, cleaner>>
  BY DEF GetStat, Reading, IInv, CallsWellFormed
<1>2. CASE call' = [call EXCEPT ![p].pc = "stream",
                                ![p].size = Length(data[call[p].fd])]
  <2>1. call \in [Procs -> CallType] /\ call[p] \in CallType
    BY DEF IInv, TypeOK
  <2>2. /\ call' = [q \in Procs |-> call'[q]] /\ call'[p] = Streaming(p, <<>>)
        /\ \A q \in Procs : q # p => call'[q] = call[q]
    BY <1>1, <1>2, <2>1, OpenFileLength DEF CallType, Streaming
  <2>3. Len(<<>>) <= Chunks /\ <<>> \in Seq(Values \cup {None})
        /\ \A c \in 1..Len(<<>>) : <<>>[c] = data[call[p].fd][c]
    BY StoreAssumption
  <2> QED
    BY <1>1, <2>2, <2>3, ReaderInv DEF files, cleaner, IInv, TypeOK
<1>3. CASE Return(p, "failed", 0)
  BY <1>1, <1>3, ReturnInv, StoreAssumption DEF files, IInv, TypeOK
<1> QED
  BY <1>2, <1>3 DEF GetStat

\* GetRead: the next chunk is that of the body being read.
LEMMA ReadInv ==
  ASSUME IInv, NEW p \in Procs, GetRead(p)
  PROVE  IInv'
<1> DEFINE i == call[p].fd
           c == call[p].body
           b == Append(c, data[i][Len(c) + 1])
<1>1. /\ call[p].pc = "stream" /\ Reading(p) /\ Len(c) < Chunks
      /\ call' = [call EXCEPT ![p].body = b]
      /\ stale' = stale \ {i} /\ UNCHANGED <<dir, data, cleaner>>
  BY OpenFileLength DEF GetRead, Reading
<1>2. /\ call \in [Procs -> CallType] /\ call[p] \in CallType
      /\ c \in Seq(Values \cup {None}) /\ call[p].size = Chunks /\ i \in Inodes
      /\ \A j \in 1..Len(c) : c[j] = data[i][j]
  BY <1>1 DEF IInv, TypeOK, CallType, ReadersSeeEntries, CallsWellFormed
<1>3. data[i][Len(c) + 1] \in Values \cup {None}
  <2>1. Len(c) + 1 \in 1..Chunks
    BY <1>1, <1>2, StoreAssumption
  <2>2. data[i] \in [1..Chunks -> Values \cup {None}]
    BY <1>2 DEF IInv, TypeOK
  <2> QED
    BY <2>1, <2>2
<1>4. /\ b \in Seq(Values \cup {None}) /\ Len(b) = Len(c) + 1 /\ Len(b) <= Chunks
      /\ \A j \in 1..Len(b) : b[j] = data[i][j]
  BY <1>1, <1>2, <1>3, StoreAssumption
<1>5. /\ call' = [q \in Procs |-> call'[q]] /\ call'[p] = Streaming(p, b)
      /\ \A q \in Procs : q # p => call'[q] = call[q]
  BY <1>1, <1>2 DEF CallType, Streaming
<1> QED
  BY <1>1, <1>4, <1>5, ReaderInv DEF cleaner, IInv, TypeOK

\* GetClose: what was delivered to the end is the whole body.
LEMMA GetCloseInv ==
  ASSUME IInv, NEW p \in Procs, GetClose(p)
  PROVE  IInv'
<1> DEFINE b == call[p].body
<1>1. call[p].pc = "stream" /\ Reading(p) /\ UNCHANGED <<files, cleaner>>
  BY DEF GetClose, Reading
<1>2. PICK v \in Values : data[call[p].fd] = Whole(v)
  BY <1>1 DEF IInv, ReadersSeeEntries
<1>3. /\ b \in Seq(Values \cup {None}) /\ call[p].size = Chunks /\ Len(b) <= Chunks
      /\ \A c \in 1..Len(b) : b[c] = Whole(v)[c]
  BY <1>1, <1>2 DEF IInv, TypeOK, CallType, ReadersSeeEntries
<1>4. CASE AtEnd(p) /\ Return(p, "ok", call[p].size)
  <2>1. Len(b) = Chunks
    BY <1>1, <1>3, <1>4, OpenFileLength, StoreAssumption DEF AtEnd
  <2>2. b = Whole(v)
    BY <1>3, <2>1, StoreAssumption DEF Whole
  <2>3. /\ Chunks \in 0..Chunks /\ "ok" \in {"ok", "missing", "failed"}
        /\ call[p].pc # "idle" /\ UNCHANGED <<data, stale, cleaner>>
        /\ dir' = dir /\ dir \in [Names -> Inodes \cup {None}]
    BY <1>1, <1>3, StoreAssumption DEF files, IInv, TypeOK
  <2>4. Return(p, "ok", Chunks)
    BY <1>3, <1>4
  <2>5. Len(call[p].body) = Chunks /\ \E w \in Values : call[p].body = Whole(w)
    BY <2>1, <2>2
  <2>6. \A m \in Names : dir'[m] \in {dir[m], None}
    BY <2>3
  <2> HIDE DEF b
  <2> QED
    BY <2>3, <2>4, <2>5, <2>6, ReturnInv
<1>5. ASSUME Return(p, "failed", 0) PROVE IInv'
  <2>1. /\ 0 \in 0..Chunks /\ call[p].pc # "idle"
        /\ UNCHANGED <<data, stale, cleaner>>
        /\ dir' = dir /\ dir \in [Names -> Inodes \cup {None}]
    BY <1>1, StoreAssumption DEF files, IInv, TypeOK
  <2> QED
    BY <1>5, <2>1, ReturnInv
<1> QED
  BY <1>4, <1>5 DEF GetClose

\* HeadStat changes no file.
LEMMA HeadInv ==
  ASSUME IInv, NEW p \in Procs, HeadStat(p)
  PROVE  IInv'
<1>1. /\ call[p].pc = "head" /\ call[p].body = <<>> /\ call[p].key \in Keys
      /\ UNCHANGED <<files, cleaner>>
  BY CallKey DEF HeadStat, IInv, CallsWellFormed
<1>2. PICK outcome \in {"ok", "missing", "failed"}, n \in 0..Chunks : Return(p, outcome, n)
  BY <1>1, EntryLength, StoreAssumption DEF HeadStat
<1> QED
  BY <1>1, <1>2, ReturnInv DEF files, IInv, TypeOK

\* Delete removes one name.
LEMMA DeleteInv ==
  ASSUME IInv, NEW p \in Procs, Delete(p)
  PROVE  IInv'
<1>1. /\ call[p].pc = "remove" /\ call[p].body = <<>> /\ call[p].key \in Names
  BY CallKey DEF Delete, IInv, CallsWellFormed
<1>2. /\ dir' \in [Names -> Inodes \cup {None}]
      /\ \A m \in Names : dir'[m] \in {dir[m], None}
  BY <1>1, UnlinkDir DEF Delete, IInv
<1> QED
  BY <1>1, <1>2, ReturnInv, StoreAssumption DEF Delete

\* Steps of the cleanup, of time, and the end of the process.
LEMMA CleanInv ==
  ASSUME IInv, (\E i \in Inodes : Age(i)) \/ CleanStart \/ CleanStep \/ UNCHANGED vars
  PROVE  IInv'
<1>1. /\ UNCHANGED <<data, call>> /\ stale' \subseteq Inodes
      /\ todo' \subseteq Names /\ victim' \in Names \cup {None}
      /\ UNCHANGED dir \/ \E n \in Names : Unlink(n)
  BY DEF IInv, TypeOK, Age, CleanStart, CleanStep, CleanVisit, CleanRemove, vars,
         files, cleaner
<1>2. /\ dir' \in [Names -> Inodes \cup {None}]
      /\ \A m \in Names : dir'[m] \in {dir[m], None}
  BY <1>1, UnlinkDir DEF IInv, TypeOK
<1>3. FileInv'
  BY <1>1, <1>2, LetGo
<1>4. CallInv'
  BY <1>1 DEF IInv, CallInv, CallsWellFormed, OnePutPerKey, PartialWritesNeverVisible, InPut
<1>5. TypeOK'
  BY <1>1, <1>2 DEF IInv, TypeOK
<1> QED
  BY <1>3, <1>4, <1>5, Assemble

\* Restart forgets the calls and keeps the files, the half-written ones too.
LEMMA RestartInv ==
  ASSUME IInv, Restart
  PROVE  IInv'
<1>1. call' = [p \in Procs |-> Idle] /\ UNCHANGED <<dir, data, stale>>
      /\ todo' = {} /\ victim' = None
  BY DEF Restart, files
<1>2. \A p \in Procs : call'[p] = Idle
  BY <1>1
<1>3. FileInv'
  BY <1>1, <1>2, LetGo DEF LetsGo, Idle
<1>4. CallInv'
  BY <1>2 DEF CallInv, CallsWellFormed, OnePutPerKey, PartialWritesNeverVisible,
              InPut, PutSteps, Idle
<1>5. TypeOK'
  BY <1>1, StoreAssumption DEF IInv, TypeOK, CallType, Idle
<1> QED
  BY <1>3, <1>4, <1>5, Assemble

-----------------------------------------------------------------------------
\* The invariant is inductive.
LEMMA NextInv ==
  ASSUME SerialPuts, NoAliases, IInv, [Next]_vars
  PROVE  IInv'
<1>1. ASSUME NEW p \in Procs, Start(p) PROVE IInv'
  BY <1>1, BeginInv
<1>2. ASSUME NEW p \in Procs, PutStep(p) PROVE IInv'
  BY <1>2, CreateInv, WriteInv, CloseInv, RenameInv, UnlinkInv DEF PutStep
<1>3. ASSUME NEW p \in Procs, GetStep(p) PROVE IInv'
  BY <1>3, OpenInv, StatInv, ReadInv, GetCloseInv DEF GetStep
<1>4. ASSUME NEW p \in Procs, HeadStat(p) \/ Delete(p) PROVE IInv'
  BY <1>4, HeadInv, DeleteInv
<1>5. CASE Restart
  BY <1>5, RestartInv
<1>6. CASE (\E i \in Inodes : Age(i)) \/ CleanStart \/ CleanStep \/ UNCHANGED vars
  BY <1>6, CleanInv
<1> QED
  BY <1>1, <1>2, <1>3, <1>4, <1>5, <1>6 DEF Next, Step

\* While no two PUTs of a key run at once and no key is the temporary file of
\* another, every reachable state satisfies IInv, which says why entries are
\* whole: who may write, hold and name each file (Local.Put and Local.Get).
THEOREM InvariantHolds ==
  ASSUME SerialPuts, NoAliases
  PROVE  Spec => []IInv
<1>1. Init => IInv
  BY InitInv
<1>2. IInv /\ [Next]_vars => IInv'
  BY NextInv
<1> QED
  BY <1>1, <1>2, PTL DEF Spec

\* Types are respected (every action of local.go).
THEOREM TypesHold ==
  ASSUME SerialPuts, NoAliases
  PROVE  Spec => []TypeOK
<1>1. IInv => TypeOK
  BY DEF IInv
<1> QED
  BY <1>1, InvariantHolds, PTL

\* Every published entry is one PUT's complete body (Local.Put, local.go:172-210).
THEOREM EntriesAreWhole ==
  ASSUME SerialPuts, NoAliases
  PROVE  Spec => []EntriesWhole
<1>1. IInv => EntriesWhole
  BY DEF IInv
<1> QED
  BY <1>1, InvariantHolds, PTL

\* A successful GET delivers one PUT's complete body (Local.Get, local.go:138-157,
\* and the copy in handlers.go:95-105).
THEOREM ReadersSeeWholeWrites ==
  ASSUME SerialPuts, NoAliases
  PROVE  Spec => []PartialWritesNeverVisible
<1>1. IInv => PartialWritesNeverVisible
  BY DEF IInv
<1> QED
  BY <1>1, InvariantHolds, PTL

\* Only the create and the writes of a PUT change a file, and never one that a
\* reader has open.
LEMMA FrozenStep ==
  ASSUME NoAliases, IInv, [Next]_vars, NEW p \in Procs, Reading(p)
  PROVE  data'[call[p].fd] = data[call[p].fd]
<1>1. call[p].fd \in Inodes /\ data \in [Inodes -> [1..Chunks -> Values \cup {None}]]
  BY DEF IInv, TypeOK, CallType, CallsWellFormed, Reading
<1>2. ASSUME NEW q \in Procs, PutCreate(q)
      PROVE  data'[call[p].fd] = data[call[p].fd]
  <2>1. Tmp(q) \in Names /\ Tmp(q) \notin Keys
    BY <1>2, StoreAssumption DEF PutCreate, IInv, CallsWellFormed, Tmp, NoAliases
  <2>2. ASSUME NEW i \in Inodes, CreateFile(Tmp(q), i)
        PROVE  data' = [data EXCEPT ![i] = Empty] /\ call[p].fd # i
    BY <2>1, <2>2 DEF CreateFile, Free, IInv, ReadersSeeEntries
  <2> QED
    BY <1>1, <1>2, <2>2 DEF PutCreate, files
<1>3. ASSUME NEW q \in Procs, PutWrite(q)
      PROVE  data'[call[p].fd] = data[call[p].fd]
  <2>1. call[q].pc = "write" /\ call[p].fd # call[q].fd
    BY <1>3 DEF PutWrite, IInv, WritersAlone, Reading
  <2> QED
    BY <1>1, <1>3, <2>1 DEF PutWrite
<1>4. ASSUME UNCHANGED data PROVE data'[call[p].fd] = data[call[p].fd]
  BY <1>4
<1>5. CASE \E q \in Procs : Start(q)
  BY <1>4, <1>5 DEF Start, StartPut, Begin, files
<1>6. CASE \E q \in Procs : Step(q)
  BY <1>2, <1>3, <1>4, <1>6
     DEF Step, PutStep, PutClose, PutRename, PutUnlink, GetStep, GetOpen, GetStat,
         GetRead, GetClose, HeadStat, Delete, files
<1>7. CASE (\E i \in Inodes : Age(i)) \/ CleanStart \/ CleanStep \/ Restart \/ UNCHANGED vars
  BY <1>4, <1>7 DEF Age, CleanStart, CleanStep, CleanVisit, CleanRemove, Restart, vars, files
<1> QED
  BY <1>5, <1>6, <1>7 DEF Next

\* Nobody writes the file a GET streams (Local.Put against Local.Get,
\* local.go:138-210).
THEOREM OpenFilesAreFrozen ==
  ASSUME SerialPuts, NoAliases
  PROVE  Spec => OpenEntriesFrozen
<1>1. IInv /\ [Next]_vars =>
        [\A p \in Procs : Reading(p) => data'[call[p].fd] = data[call[p].fd]]_vars
  BY FrozenStep
<1> QED
  BY <1>1, InvariantHolds, PTL DEF Spec, OpenEntriesFrozen

-----------------------------------------------------------------------------
\* The refinement of CacheStore.  What the promise sees of a step of p: nothing
\* of the other callers, and of the entries only what the step says.
OthersShown(p) == \A q \in Procs : q # p =>
  CallOf(q)' = CallOf(q) /\ ReplyOf(q)' = ReplyOf(q)
EntriesShown == \A k \in Keys : EntryOf(k)' = EntryOf(k)
Replied(outcome, n, b) == [status |-> outcome, size |-> n, body |-> b]

LEMMA CallsShown ==
  ASSUME NEW p \in Procs
  PROVE  /\ call[p].pc = "idle" => CallOf(p) = <<"idle", None, None>>
         /\ InPut(p) => CallOf(p) = <<"put", call[p].key, call[p].val>>
         /\ call[p].pc = "open" => CallOf(p) = <<"get", call[p].key, None>>
         /\ Reading(p) => CallOf(p) = <<"reading", None, data[call[p].fd][1]>>
         /\ call[p].pc = "head" => CallOf(p) = <<"head", call[p].key, None>>
         /\ call[p].pc = "remove" => CallOf(p) = <<"delete", call[p].key, None>>
         /\ call[p].pc # "idle" => ReplyOf(p) = Replied("pending", 0, <<>>)
         /\ call[p].pc = "idle" => ReplyOf(p) = Replied(call[p].status, call[p].size, call[p].body)
BY DEF CallOf, ReplyOf, InPut, PutSteps, Reading, Idle, Replied

\* ... and after the step.
LEMMA CallsShownNext ==
  ASSUME NEW p \in Procs
  PROVE  /\ call'[p].pc = "idle" => CallOf(p)' = <<"idle", None, None>>
         /\ InPut(p)' => CallOf(p)' = <<"put", call'[p].key, call'[p].val>>
         /\ call'[p].pc = "open" => CallOf(p)' = <<"get", call'[p].key, None>>
         /\ Reading(p)' => CallOf(p)' = <<"reading", None, data'[call'[p].fd][1]>>
         /\ call'[p].pc = "head" => CallOf(p)' = <<"head", call'[p].key, None>>
         /\ call'[p].pc = "remove" => CallOf(p)' = <<"delete", call'[p].key, None>>
         /\ call'[p].pc # "idle" => ReplyOf(p)' = Replied("pending", 0, <<>>)
         /\ call'[p].pc = "idle" =>
              ReplyOf(p)' = Replied(call'[p].status, call'[p].size, call'[p].body)
BY DEF CallOf, ReplyOf, InPut, PutSteps, Reading, Idle, Replied

\* A caller that does not move shows nothing: nobody writes the file it reads.
LEMMA OthersStay ==
  ASSUME NoAliases, IInv, [Next]_vars, NEW p,
         \A q \in Procs : q # p => call'[q] = call[q]
  PROVE  OthersShown(p)
<1> SUFFICES ASSUME NEW q \in Procs, q # p
             PROVE  CallOf(q)' = CallOf(q) /\ ReplyOf(q)' = ReplyOf(q)
  BY DEF OthersShown
<1>1. call'[q] = call[q]
  OBVIOUS
<1>2. ReplyOf(q)' = ReplyOf(q)
  BY <1>1 DEF ReplyOf
<1>3. CASE Reading(q)
  <2>1. data'[call[q].fd] = data[call[q].fd]
    BY <1>3, FrozenStep
  <2>2. Reading(q)'
    BY <1>1, <1>3 DEF Reading
  <2> QED
    BY <1>1, <1>2, <1>3, <2>1, <2>2, CallsShown, CallsShownNext
<1>4. CASE ~Reading(q)
  BY <1>1, <1>2, <1>4 DEF CallOf, InPut, Reading
<1> QED
  BY <1>3, <1>4

\* Nobody writes a published entry either.
LEMMA EntryFrozen ==
  ASSUME NoAliases, IInv, [Next]_vars, NEW k \in Keys, dir[k] # None
  PROVE  data'[dir[k]] = data[dir[k]]
<1>1. /\ dir[k] \in Inodes /\ k \in Names
      /\ data \in [Inodes -> [1..Chunks -> Values \cup {None}]]
  BY StoreAssumption DEF IInv, TypeOK
<1>2. ASSUME NEW q \in Procs, PutCreate(q)
      PROVE  data'[dir[k]] = data[dir[k]]
  <2>1. Tmp(q) \in Names /\ Tmp(q) # k
    BY <1>2, StoreAssumption DEF PutCreate, IInv, CallsWellFormed, Tmp, NoAliases
  <2>2. ASSUME NEW i \in Inodes, CreateFile(Tmp(q), i)
        PROVE  data' = [data EXCEPT ![i] = Empty] /\ dir[k] # i
    BY <1>1, <2>1, <2>2 DEF CreateFile, Free, Linked, IInv, OneNamePerFile
  <2> QED
    BY <1>1, <1>2, <2>2 DEF PutCreate, files
<1>3. ASSUME NEW q \in Procs, PutWrite(q)
      PROVE  data'[dir[k]] = data[dir[k]]
  <2>1. call[q].pc = "write" /\ dir[k] # call[q].fd
    BY <1>1, <1>3, StoreAssumption
       DEF PutWrite, IInv, WritersAlone, CallsWellFormed, NoAliases, Tmp
  <2> QED
    BY <1>1, <1>3, <2>1 DEF PutWrite
<1>4. ASSUME UNCHANGED data PROVE data'[dir[k]] = data[dir[k]]
  BY <1>4
<1>5. CASE \E q \in Procs : Start(q)
  BY <1>4, <1>5 DEF Start, StartPut, Begin, files
<1>6. CASE \E q \in Procs : Step(q)
  BY <1>2, <1>3, <1>4, <1>6
     DEF Step, PutStep, PutClose, PutRename, PutUnlink, GetStep, GetOpen, GetStat,
         GetRead, GetClose, HeadStat, Delete, files
<1>7. CASE (\E i \in Inodes : Age(i)) \/ CleanStart \/ CleanStep \/ Restart \/ UNCHANGED vars
  BY <1>4, <1>7 DEF Age, CleanStart, CleanStep, CleanVisit, CleanRemove, Restart, vars, files
<1> QED
  BY <1>5, <1>6, <1>7 DEF Next

\* So an entry whose name stays is the same entry, and one whose name goes is gone.
LEMMA EntryStays ==
  ASSUME NoAliases, IInv, [Next]_vars, NEW k \in Keys
  PROVE  /\ dir'[k] = dir[k] => EntryOf(k)' = EntryOf(k)
         /\ dir'[k] = None => EntryOf(k)' = None
         /\ dir[k] = None <=> EntryOf(k) = None
<1>1. ASSUME dir[k] # None PROVE EntryOf(k) \in Values
  <2>1. PICK v \in Values : data[dir[k]] = Whole(v)
    BY <1>1 DEF IInv, EntriesWhole
  <2>2. Whole(v)[1] = v
    BY StoreAssumption DEF Whole
  <2> QED
    BY <1>1, <2>1, <2>2 DEF EntryOf
<1>2. dir[k] # None => data'[dir[k]] = data[dir[k]]
  BY EntryFrozen
<1> QED
  BY <1>1, <1>2, StoreAssumption DEF EntryOf

\* What is shown, as the variables of the promise.
LEMMA ShownKept ==
  ASSUME EntriesShown, \A q \in Procs : CallOf(q)' = CallOf(q) /\ ReplyOf(q)' = ReplyOf(q)
  PROVE  UNCHANGED Promise!vars
BY DEF EntriesShown, Promise!vars

LEMMA ShownStore ==
  /\ EntriesShown => UNCHANGED [k \in Keys |-> EntryOf(k)]
  /\ \A v : \A k \in Keys :
       EntryOf(k)' = v /\ (\A l \in Keys : l # k => EntryOf(l)' = EntryOf(l)) =>
         [l \in Keys |-> EntryOf(l)]' = [[l \in Keys |-> EntryOf(l)] EXCEPT ![k] = v]
BY DEF EntriesShown

LEMMA ShownReturn ==
  ASSUME NEW p \in Procs, NEW r, OthersShown(p), CallOf(p)' = <<"idle", None, None>>,
         ReplyOf(p)' = r
  PROVE  Promise!Return(p, r)
BY DEF OthersShown, Promise!Return, Promise!Idle

\* A call that returns shows its reply.
LEMMA ReturnShown ==
  ASSUME NoAliases, IInv, [Next]_vars, NEW p \in Procs, NEW outcome, NEW n,
         Return(p, outcome, n)
  PROVE  /\ Promise!Return(p, Replied(outcome, n, call[p].body))
         /\ \A q \in Procs : q # p => call'[q] = call[q]
<1>1. /\ call'[p] = [pc |-> "idle", key |-> None, val |-> None, fd |-> None,
                     size |-> n, body |-> call[p].body, status |-> outcome]
      /\ \A q \in Procs : q # p => call'[q] = call[q]
  BY DEF Return, Idle, IInv, TypeOK
<1>2. OthersShown(p)
  BY <1>1, OthersStay
<1>3. CallOf(p)' = <<"idle", None, None>> /\ ReplyOf(p)' = Replied(outcome, n, call[p].body)
  BY <1>1, CallsShownNext
<1> QED
  BY <1>1, <1>2, <1>3, ShownReturn

\* One that goes on without showing it: the promise stutters.
LEMMA SilentStep ==
  ASSUME NoAliases, IInv, [Next]_vars, NEW p \in Procs,
         \A q \in Procs : q # p => call'[q] = call[q],
         CallOf(p)' = CallOf(p), ReplyOf(p)' = ReplyOf(p),
         \A k \in Keys : dir'[k] = dir[k]
  PROVE  UNCHANGED Promise!vars
<1>1. OthersShown(p)
  BY OthersStay
<1>2. EntriesShown
  BY EntryStays DEF EntriesShown
<1> QED
  BY <1>1, <1>2, ShownKept DEF OthersShown

\* A call that fails and changes nothing.
LEMMA FailShown ==
  ASSUME NoAliases, IInv, [Next]_vars, NEW p \in Procs, call[p].pc # "idle",
         Return(p, "failed", 0), call[p].body = <<>>, \A k \in Keys : dir'[k] = dir[k]
  PROVE  Promise!Next
<1>1. Promise!Return(p, Replied("failed", 0, <<>>))
  BY ReturnShown
<1>2. EntriesShown
  BY EntryStays DEF EntriesShown
<1>3. CallOf(p) # <<"idle", None, None>>
  BY CallsShown DEF IInv, TypeOK, CallType, InPut, Reading, GetSteps
<1>4. Promise!Fail(p)
  BY <1>1, <1>2, <1>3, ShownStore DEF Promise!Fail, Promise!Failed, Promise!Idle, Replied
<1> QED
  BY <1>4 DEF Promise!Next

\* A call begins.
LEMMA BeginShown ==
  ASSUME NoAliases, IInv, [Next]_vars, NEW p \in Procs, Start(p)
  PROVE  Promise!Next
<1>1. PICK k \in Keys, v \in Values \cup {None},
           step \in {"create", "open", "head", "remove"} :
        /\ Begin(p, step, k, v)
        /\ step = "create" => v \in Values
        /\ step # "create" => v = None
  BY DEF Start, StartPut
<1>2. /\ call[p].pc = "idle" /\ dir' = dir
      /\ call'[p] = [pc |-> step, key |-> k, val |-> v, fd |-> None,
                     size |-> 0, body |-> <<>>, status |-> "pending"]
      /\ \A q \in Procs : q # p => call'[q] = call[q]
  BY <1>1 DEF Begin, Idle, files, IInv, TypeOK
<1>3. PICK op \in {"put", "get", "head", "delete"} :
        /\ CallOf(p)' = <<op, k, v>>
        /\ op = "put" => v \in Values
        /\ op # "put" => v = None
  BY <1>1, <1>2, CallsShownNext DEF InPut, PutSteps
<1>4. CallOf(p) = <<"idle", None, None>> /\ ReplyOf(p)' = Replied("pending", 0, <<>>)
  BY <1>1, <1>2, CallsShown, CallsShownNext
<1>5. OthersShown(p) /\ EntriesShown
  BY <1>2, OthersStay, EntryStays DEF EntriesShown
<1>6. Promise!Begin(p, op, k, v)
  BY <1>3, <1>4, <1>5, ShownStore
     DEF Promise!Begin, Promise!Idle, Promise!Pending, Replied, OthersShown
<1> QED
  BY <1>3, <1>6 DEF Promise!Next

\* A PUT shows nothing before its rename: what it creates and writes is no entry.
LEMMA PutSilent ==
  ASSUME NoAliases, IInv, [Next]_vars, NEW p \in Procs, InPut(p), InPut(p)',
         call'[p].key = call[p].key, call'[p].val = call[p].val,
         \A q \in Procs : q # p => call'[q] = call[q],
         \A k \in Keys : dir'[k] = dir[k]
  PROVE  UNCHANGED Promise!vars
<1>1. CallOf(p)' = CallOf(p) /\ ReplyOf(p)' = ReplyOf(p)
  BY CallsShown, CallsShownNext DEF InPut, PutSteps
<1> QED
  BY <1>1, SilentStep

LEMMA TmpIsNoKey ==
  ASSUME NoAliases, IInv, NEW p \in Procs, call[p].pc # "idle"
  PROVE  Tmp(p) \in Names /\ \A k \in Keys : Tmp(p) # k
BY CallKey, StoreAssumption DEF Tmp, NoAliases

LEMMA CreateShown ==
  ASSUME NoAliases, IInv, [Next]_vars, NEW p \in Procs, PutCreate(p)
  PROVE  [Promise!Next]_Promise!vars
<1>1. /\ call[p].pc = "create" /\ call[p].body = <<>> /\ InPut(p)
      /\ Tmp(p) \in Names /\ \A k \in Keys : Tmp(p) # k
  BY TmpIsNoKey DEF PutCreate, IInv, CallsWellFormed, InPut, PutSteps
<1>2. ASSUME NEW i \in Inodes, CreateFile(Tmp(p), i), GoTo(p, "write", i)
      PROVE  UNCHANGED Promise!vars
  <2>1. \A k \in Keys : dir'[k] = dir[k]
    BY <1>1, <1>2, StoreAssumption DEF CreateFile, IInv, TypeOK
  <2>2. /\ call'[p].pc = "write" /\ call'[p].key = call[p].key /\ call'[p].val = call[p].val
        /\ \A q \in Procs : q # p => call'[q] = call[q]
    BY <1>2 DEF GoTo, IInv, TypeOK, CallType
  <2> QED
    BY <1>1, <2>1, <2>2, PutSilent DEF InPut, PutSteps
<1>3. CASE Return(p, "failed", 0) /\ UNCHANGED files
  BY <1>1, <1>3, FailShown DEF files
<1> QED
  BY <1>2, <1>3 DEF PutCreate

LEMMA WriteShown ==
  ASSUME NoAliases, IInv, [Next]_vars, NEW p \in Procs, PutWrite(p) \/ PutClose(p)
  PROVE  UNCHANGED Promise!vars
<1>1. InPut(p) /\ dir' = dir
  BY DEF PutWrite, PutClose, InPut, PutSteps, files
<1>2. /\ call'[p].pc \in {"write", "rename", "unlink"}
      /\ call'[p].key = call[p].key /\ call'[p].val = call[p].val
      /\ \A q \in Procs : q # p => call'[q] = call[q]
  BY DEF PutWrite, PutClose, GoTo, IInv, TypeOK, CallType
<1> QED
  BY <1>1, <1>2, PutSilent DEF InPut, PutSteps

\* The rename stores the PUT's body.
LEMMA RenameShown ==
  ASSUME NoAliases, IInv, [Next]_vars, NEW p \in Procs, PutRename(p)
  PROVE  [Promise!Next]_Promise!vars
<1>0. PICK k \in Keys, v \in Values : k = call[p].key /\ v = call[p].val
  BY DEF PutRename, IInv, CallsWellFormed, InPut, PutSteps
<1>1. /\ call[p].pc = "rename" /\ InPut(p) /\ k \in Names
      /\ k = call[p].key /\ v = call[p].val
      /\ call[p].body = <<>> /\ data' = data
      /\ Tmp(p) \in Names /\ \A l \in Keys : Tmp(p) # l
  BY <1>0, CallKey, TmpIsNoKey DEF PutRename, IInv, CallsWellFormed, InPut, PutSteps
<1>2. CASE CanRename(p) /\ Publish(k) /\ Return(p, "ok", 0)
  <2>1. /\ dir'[k] = dir[Tmp(p)] /\ dir[Tmp(p)] # None
        /\ \A l \in Keys : l # k => dir'[l] = dir[l]
    BY <1>1, <1>2, StoreAssumption DEF Publish, CanRename, Tmp, IInv, TypeOK
  <2>2. data[dir[Tmp(p)]] = Whole(v)
    BY <1>1, <2>1 DEF IInv, RenamesOwnBody
  <2>3. EntryOf(k)' = v
    <3>1. Whole(v)[1] = v
      BY StoreAssumption DEF Whole
    <3> QED
      BY <1>1, <2>1, <2>2, <3>1 DEF EntryOf
  <2>4. \A l \in Keys : l # k => EntryOf(l)' = EntryOf(l)
    BY <2>1, EntryStays
  <2>5. Promise!Return(p, Replied("ok", 0, <<>>)) /\ CallOf(p) = <<"put", k, v>>
    BY <1>1, <1>2, ReturnShown, CallsShown
  <2>6. Promise!Commit(p)
    BY <1>1, <2>3, <2>4, <2>5, ShownStore DEF Promise!Commit, Promise!Stored, Replied
  <2> QED
    BY <2>6 DEF Promise!Next
<1>3. CASE GoTo(p, "unlinkLocked", None) /\ UNCHANGED dir
  <2>1. /\ call'[p].pc = "unlinkLocked" /\ call'[p].key = k /\ call'[p].val = v
        /\ \A q \in Procs : q # p => call'[q] = call[q]
    BY <1>1, <1>3 DEF GoTo, IInv, TypeOK, CallType
  <2> QED
    BY <1>1, <1>3, <2>1, PutSilent DEF InPut, PutSteps
<1> QED
  BY <1>1, <1>2, <1>3 DEF PutRename

LEMMA UnlinkShown ==
  ASSUME NoAliases, IInv, [Next]_vars, NEW p \in Procs, PutUnlink(p)
  PROVE  Promise!Next
<1>1. /\ call[p].pc # "idle" /\ call[p].body = <<>> /\ Return(p, "failed", 0)
  BY DEF PutUnlink, PutFails, IInv, CallsWellFormed
<1>2. \A k \in Keys : dir'[k] = dir[k]
  BY <1>1, TmpIsNoKey, StoreAssumption DEF PutUnlink, Unlink, IInv, TypeOK
<1> QED
  BY <1>1, <1>2, FailShown

\* A GET takes the entry it opens, or finds none.
LEMMA OpenShown ==
  ASSUME NoAliases, IInv, [Next]_vars, NEW p \in Procs, GetOpen(p)
  PROVE  [Promise!Next]_Promise!vars
<1>1. PICK k \in Keys : /\ k = call[p].key /\ k \in Names
                        /\ call[p].pc = "open" /\ call[p].body = <<>>
                        /\ dir' = dir /\ data' = data
  BY CallKey DEF GetOpen, IInv, CallsWellFormed, files
<1>2. CallOf(p) = <<"get", k, None>> /\ EntriesShown
  BY <1>1, CallsShown, EntryStays DEF EntriesShown
<1>3. ASSUME dir[k] # None, GoTo(p, "fstat", dir[k]) PROVE Promise!Next
  <2>1. /\ call'[p].pc = "fstat" /\ call'[p].fd = dir[k]
        /\ \A q \in Procs : q # p => call'[q] = call[q]
    BY <1>3 DEF GoTo, IInv, TypeOK, CallType
  <2>2. CallOf(p)' = <<"reading", None, EntryOf(k)>> /\ ReplyOf(p)' = ReplyOf(p)
    BY <1>1, <1>3, <2>1, CallsShown, CallsShownNext DEF Reading, EntryOf
  <2>3. OthersShown(p) /\ EntryOf(k) # None
    BY <1>3, <2>1, OthersStay, EntryStays
  <2>4. Promise!Open(p)
    BY <1>2, <2>2, <2>3, ShownStore DEF Promise!Open, OthersShown
  <2> QED
    BY <2>4 DEF Promise!Next
<1>4. ASSUME dir[k] = None, Return(p, "missing", 0) PROVE Promise!Next
  <2>1. Promise!Return(p, Replied("missing", 0, <<>>)) /\ EntryOf(k) = None
    BY <1>1, <1>4, ReturnShown, EntryStays
  <2>2. Promise!Open(p)
    BY <1>2, <2>1, ShownStore DEF Promise!Open, Promise!Missing, Replied
  <2> QED
    BY <2>2 DEF Promise!Next
<1>5. CASE Return(p, "failed", 0)
  BY <1>1, <1>5, FailShown
<1> QED
  BY <1>1, <1>3, <1>4, <1>5 DEF GetOpen

\* While it streams it shows nothing ...
LEMMA ReadShown ==
  ASSUME NoAliases, IInv, [Next]_vars, NEW p \in Procs, GetStat(p) \/ GetRead(p)
  PROVE  [Promise!Next]_Promise!vars
<1>1. /\ Reading(p) /\ dir' = dir /\ data' = data
      /\ call[p].pc = "stream" \/ call[p].body = <<>>
  BY DEF GetStat, GetRead, Reading, files, IInv, CallsWellFormed
<1>2. ASSUME call'[p].pc = "stream", call'[p].fd = call[p].fd,
             \A q \in Procs : q # p => call'[q] = call[q]
      PROVE  UNCHANGED Promise!vars
  <2>1. CallOf(p)' = CallOf(p) /\ ReplyOf(p)' = ReplyOf(p)
    BY <1>1, <1>2, CallsShown, CallsShownNext DEF Reading
  <2> QED
    BY <1>1, <1>2, <2>1, SilentStep
<1>3. CASE GetRead(p)
  <2>1. /\ call'[p].pc = "stream" /\ call'[p].fd = call[p].fd
        /\ \A q \in Procs : q # p => call'[q] = call[q]
    BY <1>3 DEF GetRead, IInv, TypeOK, CallType
  <2> QED
    BY <1>2, <2>1
<1>4. CASE GetStat(p)
  <2>1. CASE Return(p, "failed", 0)
    <3>1. call[p].pc # "idle" /\ call[p].body = <<>>
      BY <1>4 DEF GetStat, IInv, CallsWellFormed
    <3> QED
      BY <1>1, <2>1, <3>1, FailShown
  <2>2. CASE call' = [call EXCEPT ![p].pc = "stream",
                                  ![p].size = Length(data[call[p].fd])]
    <3>1. /\ call'[p].pc = "stream" /\ call'[p].fd = call[p].fd
          /\ \A q \in Procs : q # p => call'[q] = call[q]
      BY <2>2 DEF IInv, TypeOK, CallType
    <3> QED
      BY <1>2, <3>1
  <2> QED
    BY <1>4, <2>1, <2>2 DEF GetStat
<1> QED
  BY <1>3, <1>4

\* ... and at its end it has delivered the entry it opened, or a part of it.
LEMMA CloseShown ==
  ASSUME NoAliases, IInv, [Next]_vars, NEW p \in Procs, GetClose(p)
  PROVE  Promise!Next
<1>1. /\ Reading(p) /\ call[p].pc = "stream" /\ dir' = dir /\ call[p].size = Chunks
      /\ Len(call[p].body) <= Chunks /\ call[p].body \in Seq(Values \cup {None})
      /\ EntriesShown
  BY EntryStays DEF GetClose, Reading, files, IInv, TypeOK, CallType, ReadersSeeEntries,
     EntriesShown
<1>2. PICK v \in Values : data[call[p].fd] = Whole(v)
  BY <1>1 DEF IInv, ReadersSeeEntries
<1>3. \A c \in 1..Len(call[p].body) : call[p].body[c] = v
  <2>1. \A c \in 1..Len(call[p].body) : c \in 1..Chunks
    BY <1>1, StoreAssumption
  <2>2. \A c \in 1..Chunks : Whole(v)[c] = v
    BY DEF Whole
  <2> QED
    BY <1>1, <1>2, <2>1, <2>2 DEF IInv, ReadersSeeEntries
<1>4. PICK n \in 0..Chunks : n = Len(call[p].body)
  BY <1>1, StoreAssumption
<1>5. call[p].body = [c \in 1..n |-> v]
  BY <1>1, <1>3, <1>4
<1>6. CallOf(p) = <<"reading", None, v>>
  <2>1. Whole(v)[1] = v
    BY StoreAssumption DEF Whole
  <2> QED
    BY <1>1, <1>2, <2>1, CallsShown
<1>7. CASE AtEnd(p) /\ Return(p, "ok", call[p].size)
  <2>1. n = Chunks
    BY <1>1, <1>4, <1>7, OpenFileLength, StoreAssumption DEF AtEnd
  <2>2. Promise!Return(p, Replied("ok", Chunks, [c \in 1..Chunks |-> v]))
    BY <1>1, <1>5, <1>7, <2>1, ReturnShown
  <2>3. Promise!Deliver(p)
    BY <1>1, <1>6, <2>2, ShownStore DEF Promise!Deliver, Promise!Hit, Promise!Whole, Replied
  <2> QED
    BY <2>3 DEF Promise!Next
<1>8. CASE Return(p, "failed", 0)
  <2>1. Promise!Return(p, Replied("failed", 0, [c \in 1..n |-> v]))
    BY <1>5, <1>8, ReturnShown
  <2>2. CASE n = 0
    <3>1. call[p].body = <<>>
      <4>1. \A s \in Seq(Values \cup {None}) : Len(s) = 0 => s = <<>>
        OBVIOUS
      <4> QED
        BY <1>1, <1>4, <2>2, <4>1
    <3> QED
      BY <1>1, <1>8, <3>1, FailShown
  <2>3. CASE n \in 1..Chunks
    <3>1. CallOf(p) # <<"idle", None, None>>
      BY <1>6
    <3>2. Promise!Return(p, Promise!Failed([c \in 1..n |-> v]))
      BY <2>1 DEF Promise!Failed, Replied
    <3>3. Promise!Fail(p)
      BY <1>1, <1>6, <2>3, <3>1, <3>2, ShownStore DEF Promise!Fail, Promise!Idle
    <3> QED
      BY <3>3 DEF Promise!Next
  <2> QED
    BY <2>2, <2>3, StoreAssumption
<1> QED
  BY <1>7, <1>8 DEF GetClose

LEMMA HeadShown ==
  ASSUME NoAliases, IInv, [Next]_vars, NEW p \in Procs, HeadStat(p)
  PROVE  Promise!Next
<1>1. PICK k \in Keys : /\ k = call[p].key
                        /\ call[p].pc = "head" /\ call[p].body = <<>> /\ dir' = dir
  BY CallKey DEF HeadStat, IInv, CallsWellFormed, files
<1>2. CallOf(p) = <<"head", k, None>> /\ EntriesShown
  BY <1>1, CallsShown, EntryStays DEF EntriesShown
<1>3. ASSUME dir[k] # None, Return(p, "ok", Chunks) PROVE Promise!Next
  <2>1. Promise!Return(p, Replied("ok", Chunks, <<>>)) /\ EntryOf(k) # None
    BY <1>1, <1>3, ReturnShown, EntryStays
  <2>2. Promise!Probe(p)
    BY <1>2, <2>1, ShownStore DEF Promise!Probe, Promise!Present, Replied
  <2> QED
    BY <2>2 DEF Promise!Next
<1>4. ASSUME dir[k] = None, Return(p, "missing", 0) PROVE Promise!Next
  <2>1. Promise!Return(p, Replied("missing", 0, <<>>)) /\ EntryOf(k) = None
    BY <1>1, <1>4, ReturnShown, EntryStays
  <2>2. Promise!Probe(p)
    BY <1>2, <2>1, ShownStore DEF Promise!Probe, Promise!Missing, Replied
  <2> QED
    BY <2>2 DEF Promise!Next
<1>5. CASE Return(p, "failed", 0)
  BY <1>1, <1>5, FailShown
<1> QED
  BY <1>1, <1>3, <1>4, <1>5, EntryLength DEF HeadStat

\* Unlinking a key's name removes its entry and no other.
LEMMA UnlinkedShown ==
  ASSUME NoAliases, IInv, [Next]_vars, NEW k \in Keys, Unlink(k)
  PROVE  [l \in Keys |-> EntryOf(l)]' = [[l \in Keys |-> EntryOf(l)] EXCEPT ![k] = None]
<1>1. dir'[k] = None /\ \A l \in Keys : l # k => dir'[l] = dir[l]
  BY StoreAssumption DEF Unlink, IInv, TypeOK
<1>2. EntryOf(k)' = None /\ \A l \in Keys : l # k => EntryOf(l)' = EntryOf(l)
  BY <1>1, EntryStays
<1> QED
  BY <1>2, ShownStore

LEMMA DeleteShown ==
  ASSUME NoAliases, IInv, [Next]_vars, NEW p \in Procs, Delete(p)
  PROVE  Promise!Next
<1>1. PICK k \in Keys : /\ k = call[p].key
                        /\ call[p].pc = "remove" /\ call[p].body = <<>>
  BY CallKey DEF Delete, IInv, CallsWellFormed
<1>2. CASE Unlink(k) /\ Return(p, "ok", 0)
  <2>1. Promise!Return(p, Replied("ok", 0, <<>>)) /\ CallOf(p) = <<"delete", k, None>>
    BY <1>1, <1>2, ReturnShown, CallsShown
  <2>2. Promise!Remove(p)
    BY <1>2, <2>1, UnlinkedShown DEF Promise!Remove, Promise!Stored, Replied
  <2> QED
    BY <2>2 DEF Promise!Next
<1>3. CASE UNCHANGED dir /\ Return(p, "failed", 0)
  BY <1>1, <1>3, FailShown
<1> QED
  BY <1>1, <1>2, <1>3 DEF Delete

\* The cleanup evicts an entry or shows nothing, and so does time.
LEMMA CleanShown ==
  ASSUME NoAliases, IInv, [Next]_vars,
         (\E i \in Inodes : Age(i)) \/ CleanStart \/ CleanStep \/ UNCHANGED vars
  PROVE  [Promise!Next]_Promise!vars
<1>1. /\ data' = data /\ call' = call
      /\ dir' = dir \/ \E n \in Names : Unlink(n)
  BY DEF IInv, TypeOK, Age, CleanStart, CleanStep, CleanVisit, CleanRemove, vars,
         files, cleaner
<1>2. \A q \in Procs : CallOf(q)' = CallOf(q) /\ ReplyOf(q)' = ReplyOf(q)
  BY <1>1 DEF CallOf, ReplyOf, InPut, Reading
<1>3. ASSUME \A k \in Keys : dir'[k] = dir[k] PROVE UNCHANGED Promise!vars
  <2>1. EntriesShown
    BY <1>3, EntryStays DEF EntriesShown
  <2> QED
    BY <1>2, <2>1, ShownKept
<1>4. ASSUME NEW n \in Names, Unlink(n), \A k \in Keys : n # k \/ dir[k] = None
      PROVE  UNCHANGED Promise!vars
  <2>1. \A k \in Keys : dir'[k] = dir[k]
    BY <1>4, StoreAssumption DEF Unlink, IInv, TypeOK
  <2> QED
    BY <1>3, <2>1
<1>5. ASSUME NEW k \in Keys, Unlink(k), dir[k] # None PROVE Promise!Next
  <2>1. UNCHANGED <<[q \in Procs |-> CallOf(q)], [q \in Procs |-> ReplyOf(q)]>>
    BY <1>2
  <2>2. EntryOf(k) # None
    BY <1>5, EntryStays
  <2>3. Promise!Evict(k)
    BY <1>5, <2>1, <2>2, UnlinkedShown DEF Promise!Evict
  <2> QED
    BY <2>3 DEF Promise!Next
<1> QED
  BY <1>1, <1>3, <1>4, <1>5

\* A restart forgets the calls and keeps the entries.
LEMMA RestartShown ==
  ASSUME NoAliases, IInv, [Next]_vars, Restart
  PROVE  Promise!Next
<1>1. dir' = dir /\ \A q \in Procs : call'[q] = Idle
  BY DEF Restart, files
<1>2. \A q \in Procs : CallOf(q)' = <<"idle", None, None>> /\ ReplyOf(q)' = Replied("pending", 0, <<>>)
  BY <1>1, CallsShownNext DEF Idle, Replied
<1>3. EntriesShown
  BY <1>1, EntryStays DEF EntriesShown
<1>4. Promise!Restart
  BY <1>2, <1>3, ShownStore DEF Promise!Restart, Promise!Idle, Promise!Pending, Replied
<1> QED
  BY <1>4 DEF Promise!Next

LEMMA PromiseStep ==
  ASSUME NoAliases, IInv, [Next]_vars
  PROVE  [Promise!Next]_Promise!vars
<1>1. ASSUME NEW p \in Procs, Start(p) PROVE Promise!Next
  BY <1>1, BeginShown
<1>2. ASSUME NEW p \in Procs, PutStep(p) PROVE [Promise!Next]_Promise!vars
  BY <1>2, CreateShown, WriteShown, RenameShown, UnlinkShown DEF PutStep
<1>3. ASSUME NEW p \in Procs, GetStep(p) PROVE [Promise!Next]_Promise!vars
  BY <1>3, OpenShown, ReadShown, CloseShown DEF GetStep
<1>4. ASSUME NEW p \in Procs, HeadStat(p) \/ Delete(p) PROVE Promise!Next
  BY <1>4, HeadShown, DeleteShown
<1>5. CASE Restart
  BY <1>5, RestartShown
<1>6. CASE (\E i \in Inodes : Age(i)) \/ CleanStart \/ CleanStep \/ UNCHANGED vars
  BY <1>6, CleanShown
<1> QED
  BY <1>1, <1>2, <1>3, <1>4, <1>5, <1>6 DEF Next, Step

LEMMA PromiseStarts == Init => Promise!Init
<1> SUFFICES ASSUME Init PROVE Promise!Init
  OBVIOUS
<1>1. \A k \in Keys : EntryOf(k) = None
  BY StoreAssumption DEF Init, EntryOf
<1>2. ASSUME NEW p \in Procs
      PROVE  CallOf(p) = <<"idle", None, None>> /\ ReplyOf(p) = Replied("pending", 0, <<>>)
  <2>1. call[p] = Idle
    BY DEF Init
  <2>2. /\ call[p].pc = "idle" /\ call[p].status = "pending"
        /\ call[p].size = 0 /\ call[p].body = <<>>
    BY <2>1 DEF Idle
  <2> QED
    BY <2>2, CallsShown
<1> QED
  BY <1>1, <1>2 DEF Promise!Init, Promise!Idle, Promise!Pending, Replied

\* The filesystem backend keeps the promise of a storage.Backend (storage.go:11-24):
\* each call takes effect at one instant, a PUT at its rename, a GET at its open,
\* whatever the cleanup, failures and crashes do meanwhile (local.go:123-280).
THEOREM BackendKeepsPromise ==
  ASSUME SerialPuts, NoAliases
  PROVE  Spec => ImplementsCacheStore
<1>1. IInv /\ [Next]_vars => [Promise!Next]_Promise!vars
  BY PromiseStep
<1> QED
  BY <1>1, PromiseStarts, InvariantHolds, PTL DEF Spec, ImplementsCacheStore, Promise!Spec
=============================================================================
