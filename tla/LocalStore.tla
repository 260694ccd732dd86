----------------------------- MODULE LocalStore -----------------------------
(***************************************************************************)
(* The filesystem backend (storage/local.go) with its background cleanup.  *)
(* The filesystem is a directory from names to inodes and the content of   *)
(* each inode.  The entry of a key k is the file named k; a PUT writes the *)
(* file named TmpOf[k] and renames it.  create truncates a name that       *)
(* exists, rename replaces its target, remove unlinks a name while its     *)
(* open readers and writers keep the inode: the atomic steps are the       *)
(* system calls.  A shard lock is held exactly between the two system      *)
(* calls of a locked section, so its holders are read off call.            *)
(***************************************************************************)
EXTENDS Naturals, Sequences

CONSTANTS
  Procs,       \* the concurrent callers of the backend
  Keys,        \* the storage keys, each the name of its entry's file
  Names,       \* every file name below the root
  TmpOf,       \* the name of the temporary file of each key
  ShardOf,     \* the lock shard of each key
  Values,      \* the bodies a PUT can carry
  Chunks,      \* the number of chunks of a body, each one read and written whole
  Inodes,      \* the inodes of the filesystem
  None,        \* no inode, key, value or name; a chunk never written, read as zeros
  SerialPuts,  \* TRUE: callers are above SingleFlight and never PUT a key twice at a time
  Cleanup      \* TRUE: StartCleanup was called

ASSUME StoreAssumption ==
  /\ Chunks \in Nat \ {0}
  /\ Keys \subseteq Names /\ TmpOf \in [Keys -> Names]
  /\ None \notin Inodes /\ None \notin Values /\ None \notin Names

VARIABLES
  dir,         \* the inode of each name, or None
  data,        \* the chunks of each inode
  stale,       \* inodes whose access time is older than the ttl
  call,        \* the call of each caller, see Idle
  todo,        \* names the running cleanup has still to visit
  victim       \* the name it has found stale and not yet removed

files == <<dir, data, stale>>
cleaner == <<todo, victim>>
vars == <<dir, data, stale, call, todo, victim>>

Empty == [c \in 1..Chunks |-> None]
Prefix(v, n) == [c \in 1..Chunks |-> IF c <= n THEN v ELSE None]
Whole(v) == [c \in 1..Chunks |-> v]
Length(chunks) ==
  CHOOSE n \in 0..Chunks : /\ n > 0 => chunks[n] # None
                           /\ \A c \in n+1..Chunks : chunks[c] = None

\* A call holds the inode fd open.  size counts the chunks a PUT has copied
\* or is the size a GET or HEAD answered, body is what a GET has delivered,
\* and an idle caller keeps the outcome of its last call.
Idle == [pc |-> "idle", key |-> None, val |-> None, fd |-> None,
         size |-> 0, body |-> <<>>, status |-> "pending"]

PutSteps == {"create", "write", "rename", "unlink", "unlinkLocked"}
GetSteps == {"open", "fstat", "stream"}
Reading(p) == call[p].pc \in {"fstat", "stream"}
InPut(p) == call[p].pc \in PutSteps
Tmp(p) == TmpOf[call[p].key]

\* Only "fstat" and "unlinkLocked" lie inside a locked section.
SameShard(p, q) == ShardOf[call[p].key] = ShardOf[call[q].key]
RLockFree(p) == \A q \in Procs : call[q].pc = "unlinkLocked" => ~SameShard(p, q)
LockFree(p) == \A q \in Procs :
  call[q].pc \in {"unlinkLocked", "fstat"} => ~SameShard(p, q)

Linked(i) == \E n \in Names : dir[n] = i
Free(i) == ~Linked(i) /\ \A q \in Procs : call[q].fd # i

Init ==
  /\ dir = [n \in Names |-> None]
  /\ data = [i \in Inodes |-> Empty]
  /\ stale = {}
  /\ call = [p \in Procs |-> Idle]
  /\ todo = {} /\ victim = None

-----------------------------------------------------------------------------
Begin(p, step, k, v) ==
  /\ call[p].pc = "idle"
  /\ call' = [call EXCEPT ![p] = [Idle EXCEPT !.pc = step, !.key = k, !.val = v]]
  /\ UNCHANGED <<files, cleaner>>

\* Local.Put as far as mkdirAll, which leaves nothing the model tells apart.
StartPut(p, k, v) ==
  /\ SerialPuts => \A q \in Procs : InPut(q) => call[q].key # k
  /\ Begin(p, "create", k, v)

Start(p) == \E k \in Keys :
  \/ \E v \in Values : StartPut(p, k, v)
  \/ \E step \in {"open", "head", "remove"} : Begin(p, step, k, None)

GoTo(p, step, f) == call' = [call EXCEPT ![p].pc = step, ![p].fd = f]

Return(p, outcome, n) ==
  call' = [call EXCEPT ![p] = [Idle EXCEPT !.status = outcome, !.size = n,
                                           !.body = call[p].body]]

Unlink(n) == dir' = [dir EXCEPT ![n] = None]

\* Truncation empties a file for everyone who has it open, and keeps its
\* access time.
CreateFile(n, i) ==
  /\ data' = [data EXCEPT ![i] = Empty]
  /\ \/ dir[n] = i /\ UNCHANGED <<dir, stale>>
     \/ /\ dir[n] = None /\ Free(i)
        /\ dir' = [dir EXCEPT ![n] = i]
        /\ stale' = stale \ {i}

PutCreate(p) ==
  /\ call[p].pc = "create"
  /\ \/ \E i \in Inodes : CreateFile(Tmp(p), i) /\ GoTo(p, "write", i)
     \/ Return(p, "failed", 0) /\ UNCHANGED files
  /\ UNCHANGED cleaner

\* Bug: the copy does not stop at the end of the body.
MayWritePastEnd(p) == call[p].size <= Chunks
MayWrite(p) == call[p].size < Chunks

PutWrite(p) ==
  /\ call[p].pc = "write" /\ MayWrite(p)
  /\ data' = [data EXCEPT ![call[p].fd][call[p].size + 1] = call[p].val]
  /\ call' = [call EXCEPT ![p].size = @ + 1]
  /\ UNCHANGED <<dir, stale, cleaner>>

\* Bug: an error of the copy is ignored.
CopiedInPart(p) == call[p].size <= Chunks
Copied(p) == call[p].size = Chunks

\* The file is closed; a body that breaks off, a failed write or a failed
\* Close lead to the removal of the temporary file instead.
PutClose(p) ==
  /\ call[p].pc = "write"
  /\ \/ Copied(p) /\ GoTo(p, "rename", None)
     \/ GoTo(p, "unlink", None)
  /\ UNCHANGED <<files, cleaner>>

\* Bug: the entry is hard-linked to the temporary file, which stays.
PublishByLink(k) == dir' = [dir EXCEPT ![k] = dir[TmpOf[k]]]
\* rename moves whatever file has the temporary name now.
Publish(k) == dir' = [dir EXCEPT ![k] = dir[TmpOf[k]], ![TmpOf[k]] = None]

CanRename(p) == dir[Tmp(p)] # None

PutRename(p) ==
  /\ call[p].pc = "rename" /\ LockFree(p)
  /\ \/ CanRename(p) /\ Publish(call[p].key) /\ Return(p, "ok", 0)
     \/ GoTo(p, "unlinkLocked", None) /\ UNCHANGED dir
  /\ UNCHANGED <<data, stale, cleaner>>

\* Bug: a failed PUT answers success.
PutAnswersOk(p) == Return(p, "ok", 0)
PutFails(p) == Return(p, "failed", 0)

\* Every failure after create removes the temporary name, under no lock when
\* the copy failed; an error of remove is ignored.
PutUnlink(p) ==
  /\ call[p].pc \in {"unlink", "unlinkLocked"}
  /\ Unlink(Tmp(p)) \/ UNCHANGED dir
  /\ PutFails(p)
  /\ UNCHANGED <<data, stale, cleaner>>

-----------------------------------------------------------------------------
GetOpen(p) ==
  LET i == dir[call[p].key] IN
  /\ call[p].pc = "open" /\ RLockFree(p)
  /\ \/ i # None /\ GoTo(p, "fstat", i)
     \/ i = None /\ Return(p, "missing", 0)
     \/ Return(p, "failed", 0)
  /\ UNCHANGED <<files, cleaner>>

\* Stat on the open file, then the read lock is released.
GetStat(p) ==
  /\ call[p].pc = "fstat"
  /\ \/ call' = [call EXCEPT ![p].pc = "stream",
                             ![p].size = Length(data[call[p].fd])]
     \/ Return(p, "failed", 0)
  /\ UNCHANGED <<files, cleaner>>

\* Bug: a stream that broke off counts as delivered.
StreamEnds(p) == TRUE
AtEnd(p) == Len(call[p].body) >= Length(data[call[p].fd])

\* The handler copies the file to the client, chunk by chunk and under no lock.
GetRead(p) ==
  LET i == call[p].fd IN
  /\ call[p].pc = "stream"
  /\ Len(call[p].body) < Length(data[i])
  /\ call' = [call EXCEPT ![p].body = Append(@, data[i][Len(@) + 1])]
  /\ stale' = stale \ {i}
  /\ UNCHANGED <<dir, data, cleaner>>

GetClose(p) ==
  /\ call[p].pc = "stream"
  /\ \/ AtEnd(p) /\ Return(p, "ok", call[p].size)
     \/ Return(p, "failed", 0)
  /\ UNCHANGED <<files, cleaner>>

HeadStat(p) ==
  LET i == dir[call[p].key] IN
  /\ call[p].pc = "head" /\ RLockFree(p)
  /\ \/ i # None /\ Return(p, "ok", Length(data[i]))
     \/ i = None /\ Return(p, "missing", 0)
     \/ Return(p, "failed", 0)
  /\ UNCHANGED <<files, cleaner>>

\* Deleting an entry that does not exist succeeds.
Delete(p) ==
  /\ call[p].pc = "remove" /\ LockFree(p)
  /\ \/ Unlink(call[p].key) /\ Return(p, "ok", 0)
     \/ UNCHANGED dir /\ Return(p, "failed", 0)
  /\ UNCHANGED <<data, stale, cleaner>>

-----------------------------------------------------------------------------
\* A run of the cleanup compares access times with the time it started, so
\* inodes grow stale only between two runs.
CleanerIdle == Cleanup /\ todo = {} /\ victim = None

Age(i) ==
  /\ CleanerIdle /\ Linked(i)
  /\ stale' = stale \cup {i}
  /\ UNCHANGED <<dir, data, call, cleaner>>

CleanStart ==
  /\ CleanerIdle
  /\ todo' = Names
  /\ UNCHANGED <<files, call, victim>>

IsStale(n) == dir[n] # None /\ dir[n] \in stale

\* Info and accessTime of one file.  A name created after its directory was
\* listed, or that cannot be read, is skipped.
CleanVisit(n) ==
  /\ victim = None /\ n \in todo
  /\ todo' = todo \ {n}
  /\ \/ IsStale(n) /\ victim' = n
     \/ victim' = None
  /\ UNCHANGED <<files, call>>

\* The removal, under no lock.
CleanRemove ==
  /\ victim # None
  /\ Unlink(victim) \/ UNCHANGED dir
  /\ victim' = None
  /\ UNCHANGED <<data, stale, call, todo>>

\* The process dies or is killed and starts again on the same directory.
Restart ==
  /\ call' = [p \in Procs |-> Idle]
  /\ todo' = {} /\ victim' = None
  /\ UNCHANGED files

-----------------------------------------------------------------------------
PutStep(p) ==
  PutCreate(p) \/ PutWrite(p) \/ PutClose(p) \/ PutRename(p) \/ PutUnlink(p)
GetStep(p) == GetOpen(p) \/ GetStat(p) \/ GetRead(p) \/ GetClose(p)
Step(p) == PutStep(p) \/ GetStep(p) \/ HeadStat(p) \/ Delete(p)
CleanStep == (\E n \in Names : CleanVisit(n)) \/ CleanRemove

Next ==
  \/ \E p \in Procs : Start(p) \/ Step(p)
  \/ \E i \in Inodes : Age(i)
  \/ CleanStart \/ CleanStep \/ Restart

Spec == Init /\ [][Next]_vars

-----------------------------------------------------------------------------
CallType ==
  [pc : PutSteps \cup GetSteps \cup {"idle", "head", "remove"},
   key : Keys \cup {None}, val : Values \cup {None}, fd : Inodes \cup {None},
   size : 0..Chunks, body : Seq(Values \cup {None}),
   status : {"pending", "ok", "missing", "failed"}]

\* Files and calls are of their types; in particular no PUT copies more chunks
\* than its body has (the declared size, local.go:185).
TypeOK ==
  /\ dir \in [Names -> Inodes \cup {None}]
  /\ data \in [Inodes -> [1..Chunks -> Values \cup {None}]]
  /\ stale \subseteq Inodes
  /\ call \in [Procs -> CallType]
  /\ todo \subseteq Names /\ victim \in Names \cup {None}

\* No key's file is the temporary file of another key, and no two keys share
\* a temporary file.  A key "x.tmp" beside a key "x" would break the first.
NoAliases ==
  /\ \A k \in Keys : TmpOf[k] \notin Keys
  /\ \A k, l \in Keys : TmpOf[k] = TmpOf[l] => k = l

\* Every published entry is the complete body of one PUT, whatever PUTs,
\* deletes, evictions and crashes are under way (Local.Put, local.go:172-210).
EntriesWhole == \A k \in Keys :
  dir[k] # None => \E v \in Values : data[dir[k]] = Whole(v)

\* What a successful GET delivered is one PUT's body, complete, and of the
\* size announced: docs/index.html:1542, "Partial writes are never visible
\* to readers".
PartialWritesNeverVisible == \A p \in Procs :
  call[p].status = "ok" /\ call[p].body # <<>> =>
    /\ Len(call[p].body) = call[p].size
    /\ \E v \in Values : call[p].body = Whole(v)

\* Why entries are whole when the PUTs of a key come one after the other: a
\* file being written has no other holder and no name but its temporary one,
\* and what a finished PUT is about to rename is its own complete body.
CallsWellFormed == \A p \in Procs :
  LET c == call[p] IN
  /\ c.pc # "idle" => c.key \in Keys /\ c.status = "pending"
  /\ c.fd # None <=> c.pc \in {"write", "fstat", "stream"}
  /\ InPut(p) => c.val \in Values
  /\ c.pc \notin {"idle", "stream"} => c.body = <<>>
  /\ c.pc = "create" => c.size = 0
OnePutPerKey == \A p, q \in Procs :
  InPut(p) /\ InPut(q) /\ p # q => call[p].key # call[q].key
OneNamePerFile == \A m, n \in Names : dir[m] = dir[n] /\ dir[m] # None => m = n
WritersAlone == \A p \in Procs : call[p].pc = "write" =>
  /\ data[call[p].fd] = Prefix(call[p].val, call[p].size)
  /\ dir[Tmp(p)] \in {call[p].fd, None}
  /\ \A n \in Names : dir[n] = call[p].fd => n = Tmp(p)
  /\ \A q \in Procs : call[q].fd = call[p].fd => q = p
RenamesOwnBody == \A p \in Procs :
  call[p].pc = "rename" /\ dir[Tmp(p)] # None =>
    data[dir[Tmp(p)]] = Whole(call[p].val)
ReadersSeeEntries == \A p \in Procs : Reading(p) =>
  /\ \E v \in Values : data[call[p].fd] = Whole(v)
  /\ \A n \in Names : dir[n] = call[p].fd => n \in Keys
  /\ call[p].pc = "stream" =>
       /\ call[p].size = Chunks /\ Len(call[p].body) <= Chunks
       /\ \A c \in 1..Len(call[p].body) : call[p].body[c] = data[call[p].fd][c]

\* All of this together is inductive (local.go:123-280).
IInv ==
  /\ TypeOK /\ CallsWellFormed /\ OnePutPerKey /\ OneNamePerFile
  /\ WritersAlone /\ RenamesOwnBody /\ EntriesWhole /\ ReadersSeeEntries
  /\ PartialWritesNeverVisible

\* While a GET streams an entry nobody writes the file it reads, even when
\* the entry is overwritten, deleted or evicted meanwhile.
OpenEntriesFrozen ==
  [][\A p \in Procs : Reading(p) => data'[call[p].fd] = data[call[p].fd]]_vars

\* The backend keeps the promise of CacheStore: a PUT takes effect at its
\* rename, a GET at its open, a DELETE or an eviction at its remove.
CallOf(p) == LET c == call[p] IN
  CASE c.pc = "idle"   -> <<"idle", None, None>>
    [] InPut(p)        -> <<"put", c.key, c.val>>
    [] c.pc = "open"   -> <<"get", c.key, None>>
    [] Reading(p)      -> <<"reading", None, data[c.fd][1]>>
    [] c.pc = "head"   -> <<"head", c.key, None>>
    [] c.pc = "remove" -> <<"delete", c.key, None>>
ReplyOf(p) == LET c == IF call[p].pc = "idle" THEN call[p] ELSE Idle IN
  [status |-> c.status, size |-> c.size, body |-> c.body]
EntryOf(k) == IF dir[k] = None THEN None ELSE data[dir[k]][1]

Promise == INSTANCE CacheStore WITH store <- [k \in Keys |-> EntryOf(k)],
  call <- [p \in Procs |-> CallOf(p)], reply <- [p \in Procs |-> ReplyOf(p)]

\* Every step of the backend is a step of the promise or none that shows
\* (storage.Backend, storage.go:11-24, kept by local.go:123-280).
ImplementsCacheStore == Promise!Spec
=============================================================================
