------------------------------- MODULE Hybrid -------------------------------
(***************************************************************************)
(* The two-tier backend (storage/hybrid.go) below its SingleFlight wrapper *)
(* (storage/singleflight.go).  Local storage and S3 are maps from keys to  *)
(* entries, each call of them takes effect at one instant (see CacheStore) *)
(* and the interleavings are those between the calls Hybrid makes.  In     *)
(* async mode PUTs hand their key to AsyncUploader, whose steps are part   *)
(* of this specification; S3 may fail any call, as it does when the        *)
(* circuit breaker is open.                                                *)
(***************************************************************************)
EXTENDS Naturals, Sequences

CONSTANTS
  Procs,       \* the concurrent requests
  Keys,        \* the storage keys
  Values,      \* the bodies a PUT can carry
  None,        \* no key, no body, no entry
  Modes,       \* the settings of AsyncUpload to consider
  Ranged,      \* TRUE: clients send GETs with a Range header
  Items,       \* async mode: the uploads that can be enqueued
  KeyOf,       \* the key of each upload
  Workers, QueueSize, MaxRetry, Free, Exited  \* see AsyncUploader

\* An entry holds a whole body or a range of it.
Body(v) == [of |-> v, whole |-> TRUE]
Part(b) == [b EXCEPT !.whole = FALSE]
Entries == [of : Values, whole : BOOLEAN]

\* The uploader's numbers are as NewAsyncUploader and Start leave them; a
\* request is no worker.
ASSUME HybridAssumption ==
  /\ Modes \subseteq BOOLEAN /\ Ranged \in BOOLEAN
  /\ KeyOf \in [Items -> Keys]
  /\ None \notin Keys \cup Values \cup Entries \cup Items
  /\ QueueSize \in Nat \ {0} /\ MaxRetry \in Nat \ {0} /\ Workers # {}
  /\ Free # Exited /\ Free \notin Items /\ Exited \notin Items
  /\ Procs \cap Workers = {}

VARIABLES
  async,       \* whether asyncUpload is set
  local,       \* the local entry of each key, or None
  remote,      \* the object of each key in S3, or None
  victim,      \* the key the cleanup has found stale and not yet removed
  call,        \* the call of each request, see Idle
  acked,       \* history: keys with an entry acknowledged and not deleted since
  held,        \* the entry each worker has read
  running, closed, queue, stage, attempts, worker, stopper, crashed

uploader == <<running, closed, queue, stage, attempts, worker, stopper, crashed>>
stores == <<local, remote, victim>>
vars == <<async, stores, call, acked, held, uploader>>

Uploader == INSTANCE AsyncUploader

\* body is what a PUT carries, read what a call has read from one store to
\* write to the other, status what it has decided or returned.  History: met is
\* what a PUT overlapped of what can undo it, and sure holds of a GET or HEAD
\* whose key was acknowledged ever since it began.
Idle == [pc |-> "idle", op |-> None, key |-> None, body |-> None, read |-> None,
         item |-> None, status |-> "pending", met |-> {}, sure |-> FALSE]

Busy(k) == {q \in Procs : call[q].pc # "idle" /\ call[q].key = k}
Flight(op, k) == {q \in Busy(k) : call[q].op = op}
At(p, step) == ~crashed /\ call[p].pc = step
Entry(p) == local[call[p].key]
Object(p) == remote[call[p].key]

Init ==
  /\ async \in Modes
  /\ local = [k \in Keys |-> None]
  /\ remote \in [Keys -> {None} \cup {Body(v) : v \in Values}]
  /\ victim = None
  /\ call = [p \in Procs |-> Idle]
  /\ acked = {}
  /\ held = [w \in Workers |-> None]
  /\ Uploader!Init

-----------------------------------------------------------------------------
\* NewHybrid starts the uploader before any request.
Serving == ~crashed /\ (async => running \/ stopper # "idle")

First == [put |-> "store", get |-> "lookup", head |-> "probe", delete |-> "drop"]
Shared == {"put", "head"}
Undoers == {"get", "delete", "evict"}

\* A PUT or HEAD joins the one under way for its key, whose answer it gets.
Begin(p, op, k, b) ==
  /\ Serving /\ call[p].pc = "idle"
  /\ call' = [q \in Procs |->
       IF q = p
       THEN [Idle EXCEPT
               !.pc = IF op \in Shared /\ Flight(op, k) # {} THEN "join" ELSE First[op],
               !.op = op, !.key = k, !.body = b,
               !.met = IF op = "put" THEN {call[r].op : r \in Busy(k)} \cap Undoers ELSE {},
               !.sure = op \in {"get", "head"} /\ k \in acked]
       ELSE IF q \in Busy(k)
       THEN [call[q] EXCEPT !.met = IF call[q].op = "put" THEN @ \cup ({op} \cap Undoers) ELSE @,
                            !.sure = @ /\ op # "delete"]
       ELSE call[q]]
  /\ acked' = IF op = "delete" THEN acked \ {k} ELSE acked
  /\ UNCHANGED <<async, stores, held, uploader>>

\* The items bound the PUTs of async mode; a PUT under way has its own.
ItemLeft(k) == Flight("put", k) # {} \/ \E i \in Items : KeyOf[i] = k /\ stage[i] = "new"

Start(p) == \E k \in Keys :
  \/ (async => ItemLeft(k)) /\ \E v \in Values : Begin(p, "put", k, Body(v))
  \/ \E op \in {"get", "head", "delete"} : Begin(p, op, k, None)

Goto(p, step) == call' = [call EXCEPT ![p].pc = step]
Hold(p, step, b) == call' = [call EXCEPT ![p].pc = step, ![p].read = b]
Decide(p, s) == call' = [call EXCEPT ![p].pc = "share", ![p].status = s]
Answer(p, s) ==
  call' = [call EXCEPT ![p] = [Idle EXCEPT !.status = s]]

\* Bug: those that joined are not released.
LeaderAlone(p) == {p}
Group(p) == Flight(call[p].op, call[p].key)

\* The shared call has returned: its group answers, with its outcome.
Share(p) ==
  LET c == call[p] IN
  /\ At(p, "share")
  /\ call' = [q \in Procs |->
       IF q \in Group(p) THEN [Idle EXCEPT !.status = c.status] ELSE call[q]]
  /\ acked' = IF c.op = "put" /\ c.status = "ok" /\ c.met \subseteq {"get"}
              THEN acked \cup {c.key} ELSE acked
  /\ UNCHANGED <<async, stores, held, uploader>>

-----------------------------------------------------------------------------
\* Both stores, as Hybrid uses them.
SetLocal(k, b) == local' = [local EXCEPT ![k] = b] /\ UNCHANGED <<remote, victim>>
SetRemote(k, b) == remote' = [remote EXCEPT ![k] = b] /\ UNCHANGED <<local, victim>>

CallFrame == UNCHANGED <<async, acked, held>>

PutLocal(p) ==
  /\ At(p, "store")
  /\ \/ SetLocal(call[p].key, call[p].body) /\ Goto(p, IF async THEN "enqueue" ELSE "reread")
     \/ Decide(p, "failed") /\ UNCHANGED stores
  /\ UNCHANGED uploader /\ CallFrame

\* Bug: a PUT whose upload is dropped is acknowledged all the same.
DroppedIsFine(p, i) ==
  call' = [call EXCEPT ![p].pc = "share", ![p].status = "ok", ![p].item = i]
Dropped(p, i) == call' = [call EXCEPT ![p].pc = "reread", ![p].item = i]

\* Enqueue reads the flag and sends, in two steps; false is a synchronous
\* upload, a panic ends the request.
PutEnqueue(p) ==
  /\ At(p, "enqueue")
  /\ \E i \in Items :
       /\ KeyOf[i] = call[p].key /\ stage[i] = "new"
       /\ Uploader!EnqueueCheck(i)
       /\ \/ stage'[i] = "refused" /\ Dropped(p, i)
          \/ /\ stage'[i] = "checked"
             /\ call' = [call EXCEPT ![p].pc = "send", ![p].item = i]
  /\ UNCHANGED stores /\ CallFrame

PutSend(p) ==
  LET i == call[p].item IN
  /\ At(p, "send")
  /\ Uploader!EnqueueSend(i)
  /\ \/ stage'[i] = "queued" /\ Decide(p, "ok")
     \/ stage'[i] = "refused" /\ Dropped(p, i)
     \/ stage'[i] = "panicked" /\ Decide(p, "failed")
  /\ UNCHANGED stores /\ CallFrame

\* Bug: it is not looked at whether the entry still exists.
ExistsUnchecked(p) == TRUE
Exists(p) == Entry(p) # None

\* syncS3Upload opens whatever entry is there now ...
PutReread(p) ==
  /\ At(p, "reread")
  /\ \/ Exists(p) /\ Hold(p, "upload", Entry(p))
     \/ Decide(p, "failed")
  /\ UNCHANGED <<stores, uploader>> /\ CallFrame

\* Bug: the error of the upload is logged and not returned.
UploadErrorIgnored(p) == Decide(p, "ok")
UploadFails(p) == Decide(p, "failed")

\* ... and uploads it.  A call of S3 that fails may have taken effect.
PutUpload(p) ==
  /\ At(p, "upload")
  /\ \/ SetRemote(call[p].key, call[p].read) /\ Decide(p, "ok")
     \/ (SetRemote(call[p].key, call[p].read) \/ UNCHANGED stores) /\ UploadFails(p)
  /\ UNCHANGED uploader /\ CallFrame

-----------------------------------------------------------------------------
GetLocal(p) ==
  /\ At(p, "lookup")
  /\ \/ Entry(p) # None /\ Answer(p, "ok")
     \/ Entry(p) = None /\ Goto(p, "fetch")
     \/ Answer(p, "failed")
  /\ UNCHANGED <<stores, uploader>> /\ CallFrame

\* The handler passes a Range header on to S3, which then answers that range.
GetRemote(p) ==
  /\ At(p, "fetch")
  /\ \/ /\ Object(p) # None
        /\ \/ Hold(p, "backfill", Object(p))
           \/ Ranged /\ Hold(p, "backfill", Part(Object(p)))
     \/ Object(p) = None /\ Answer(p, "missing")
     \/ Answer(p, "failed")
  /\ UNCHANGED <<stores, uploader>> /\ CallFrame

GetBackfill(p) ==
  /\ At(p, "backfill")
  /\ \/ SetLocal(call[p].key, call[p].read) /\ Goto(p, "again")
     \/ Answer(p, "failed") /\ UNCHANGED stores
  /\ UNCHANGED uploader /\ CallFrame

GetAgain(p) ==
  /\ At(p, "again")
  /\ \/ Entry(p) # None /\ Answer(p, "ok")
     \/ Entry(p) = None /\ Answer(p, "missing")
     \/ Answer(p, "failed")
  /\ UNCHANGED <<stores, uploader>> /\ CallFrame

\* Bug: HEAD is answered from local storage alone.
MissIsFinal(p) == Decide(p, "missing")
AskRemote(p) == Goto(p, "ask")

HeadLocal(p) ==
  /\ At(p, "probe")
  /\ \/ Entry(p) # None /\ Decide(p, "ok")
     \/ Entry(p) = None /\ AskRemote(p)
     \/ Decide(p, "failed")
  /\ UNCHANGED <<stores, uploader>> /\ CallFrame

HeadRemote(p) ==
  /\ At(p, "ask")
  /\ \/ Object(p) # None /\ Decide(p, "ok")
     \/ Object(p) = None /\ Decide(p, "missing")
     \/ Decide(p, "failed")
  /\ UNCHANGED <<stores, uploader>> /\ CallFrame

\* Bug: the error of the local delete is forgotten.
LocalErrorForgotten == "pending"
LocalErrorKept == "failed"

\* S3 is asked to delete whatever became of the local delete, whose error is
\* kept in status.
DeleteLocal(p) ==
  /\ At(p, "drop")
  /\ \/ SetLocal(call[p].key, None) /\ Goto(p, "dropRemote")
     \/ /\ UNCHANGED stores
        /\ call' = [call EXCEPT ![p].pc = "dropRemote", ![p].status = LocalErrorKept]
  /\ UNCHANGED uploader /\ CallFrame

DeleteRemote(p) ==
  /\ At(p, "dropRemote")
  /\ \/ SetRemote(call[p].key, None)
        /\ Answer(p, IF call[p].status = "failed" THEN "failed" ELSE "ok")
     \/ (SetRemote(call[p].key, None) \/ UNCHANGED stores) /\ Answer(p, "failed")
  /\ UNCHANGED uploader /\ CallFrame

-----------------------------------------------------------------------------
\* The cleanup of local storage finds an entry stale, and later removes
\* whatever has its name.
Spot(k) ==
  /\ ~crashed /\ victim = None /\ local[k] # None
  /\ victim' = k
  /\ UNCHANGED <<async, local, remote, call, acked, held, uploader>>

\* In async mode the entry may not have been uploaded yet: then it is lost.  It
\* may be what a GET has just stored and is about to open.
Evict ==
  /\ ~crashed /\ victim # None
  /\ local' = [local EXCEPT ![victim] = None] /\ victim' = None
  /\ LET lost == async /\ remote[victim] = None
         hit == {p \in Procs : call[p].key = victim /\ (lost \/ call[p].pc = "again")} IN
     /\ acked' = IF lost THEN acked \ {victim} ELSE acked
     /\ call' = [p \in Procs |->
          IF p \in hit
          THEN [call[p] EXCEPT !.met = IF call[p].op = "put" THEN @ \cup {"evict"} ELSE @,
                               !.sure = FALSE]
          ELSE call[p]]
  /\ UNCHANGED <<async, remote, held, uploader>>

-----------------------------------------------------------------------------
\* A worker's steps, with what they do to the stores.
WorkerReads(w) ==
  LET i == worker[w] IN
  /\ ~crashed /\ Uploader!ReadLocal(w)
  /\ IF stage'[i] = "putting"
     THEN local[KeyOf[i]] # None /\ held' = [held EXCEPT ![w] = local[KeyOf[i]]]
     ELSE UNCHANGED held
  /\ UNCHANGED <<async, stores, call, acked>>

\* Bug: an object that S3 already has is not uploaded again.
WritesIfAbsent(k, b) == IF remote[k] = None THEN SetRemote(k, b) ELSE UNCHANGED stores
WritesObject(k, b) == SetRemote(k, b)

WorkerUploads(w) ==
  LET i == worker[w] IN
  /\ ~crashed
  /\ \/ Uploader!PutSucceeds(w) /\ WritesObject(KeyOf[i], held[w])
     \/ Uploader!PutFails(w) /\ (SetRemote(KeyOf[i], held[w]) \/ UNCHANGED stores)
  /\ held' = [held EXCEPT ![w] = None]
  /\ UNCHANGED <<async, call, acked>>

\* The uploader's own steps, which touch neither store nor request.
Beside == async /\ ~crashed /\ UNCHANGED <<async, stores, call, acked, held>>
Launch == Beside /\ Uploader!Start
Shutdown == Beside /\ Uploader!StopBegin
QueueStep ==
  /\ Beside
  /\ \/ Uploader!StopStep
     \/ \E w \in Workers : Uploader!Take(w) \/ Uploader!Exit(w)
     \/ \E i \in Items : Uploader!RetryWake(i)

\* The process ends, or dies, and starts again: the queue is not persisted, and
\* nothing records what was in it.
Restart ==
  /\ call' = [p \in Procs |-> Idle]
  /\ victim' = None
  /\ held' = [w \in Workers |-> None]
  /\ running' = FALSE /\ closed' = FALSE /\ crashed' = FALSE
  /\ queue' = <<>> /\ stopper' = "idle"
  /\ stage' = [i \in Items |-> IF stage[i] \in Uploader!InFlight \cup {"checked"}
                               THEN "lost" ELSE stage[i]]
  /\ worker' = [w \in Workers |-> Exited]
  /\ UNCHANGED <<async, local, remote, acked, attempts>>

-----------------------------------------------------------------------------
PutStep(p) ==
  PutLocal(p) \/ PutEnqueue(p) \/ PutSend(p) \/ PutReread(p) \/ PutUpload(p)
GetStep(p) == GetLocal(p) \/ GetRemote(p) \/ GetBackfill(p) \/ GetAgain(p)
Step(p) ==
  \/ PutStep(p) \/ GetStep(p) \/ HeadLocal(p) \/ HeadRemote(p)
  \/ DeleteLocal(p) \/ DeleteRemote(p) \/ Share(p)
WorkerStep(w) == WorkerReads(w) \/ WorkerUploads(w)

Next ==
  \/ \E p \in Procs : Start(p) \/ Step(p)
  \/ (\E k \in Keys : Spot(k)) \/ Evict
  \/ \E w \in Workers : WorkerStep(w)
  \/ Launch \/ Shutdown \/ QueueStep \/ Restart

Spec == Init /\ [][Next]_vars

\* The calls of both stores return and runnable goroutines run; nothing is
\* assumed of clients, of the cleanup, of S3's answers or of the shutdown.
FairSpec ==
  /\ Spec
  /\ \A p \in Procs : WF_vars(Step(p))
  /\ \A w \in Workers : WF_vars(WorkerStep(w))
  /\ WF_vars(Launch) /\ WF_vars(QueueStep)

-----------------------------------------------------------------------------
Ops == {"put", "get", "head", "delete"}
Steps == {"idle", "join", "share", "store", "enqueue", "send", "reread", "upload",
          "lookup", "fetch", "backfill", "again", "probe", "ask", "drop", "dropRemote"}
CallType ==
  [pc : Steps, op : Ops \cup {None}, key : Keys \cup {None},
   body : Entries \cup {None}, read : Entries \cup {None}, item : Items \cup {None},
   status : {"pending", "ok", "missing", "failed"},
   met : SUBSET Undoers, sure : BOOLEAN]

\* Requests and workers are where the code can be, and one that is about to
\* write an entry to the other store holds one (hybrid.go:65-139).
TypeOK ==
  /\ async \in Modes
  /\ local \in [Keys -> Entries \cup {None}]
  /\ remote \in [Keys -> Entries \cup {None}]
  /\ victim \in Keys \cup {None}
  /\ call \in [Procs -> CallType]
  /\ \A p \in Procs : call[p].pc \in {"upload", "backfill"} => call[p].read # None
  /\ acked \subseteq Keys
  /\ held \in [Workers -> Entries \cup {None}]
  /\ \A w \in Workers : held[w] # None <=> \E i \in Items :
       worker[w] = i /\ stage[i] = "putting"
  /\ Uploader!TypeOK

\* Once a PUT was acknowledged its key is found by every GET and HEAD that
\* begins later, until it is deleted, whatever evictions, restarts, shutdowns
\* and failures of S3 happen in between.  Excepted are, in async mode, entries
\* evicted before their upload, HEADs answered by an earlier one's lookup, and a
\* GET whose entry is evicted between its backfill and its second look, which
\* answers 404 for an object in S3 (Head, Get and Put, hybrid.go:53-123).
AckedNeverMissing ==
  [][\A p \in Procs : call[p].sure /\ call[p].pc # "join" /\ call'[p].pc = "idle" =>
       call'[p].status # "missing"]_vars

Persisted(p) ==
  /\ Entry(p) \in {call[p].body, None}
  /\ Object(p) = call[p].body
Succeeds(p) ==
  ~async /\ call[p].pc = "share" /\ call[p].op = "put" /\ call[p].status = "ok"

\* Hybrid's comment, hybrid.go:17: "Writes persist the entry to both local
\* storage and S3."  Without async upload a PUT that succeeds leaves its body
\* in S3 and, unless it was evicted, in local storage.
WritesPersistToBoth == \A p \in Procs :
  Succeeds(p) /\ "delete" \notin call[p].met => Persisted(p)

\* That holds of every PUT that overlaps no GET of its key either, the
\* backfill of which is what overwrites it (hybrid.go:79, 104-139).
SoloPutPersists == \A p \in Procs :
  Succeeds(p) /\ call[p].met \cap {"get", "delete"} = {} => Persisted(p)

GaveUp == {"gaveUp", "dropped", "missing"}
GivenUp(k) == \E i \in Items : KeyOf[i] = k /\ stage[i] \in GaveUp
Forgotten(k) == \E i \in Items : KeyOf[i] = k /\ stage[i] = "lost"

\* While the process runs, a key that was acknowledged and not deleted has an object
\* in S3, maybe an older one, or an upload on its way there, until the uploader
\* gives one up and logs it: no full queue, no Stop and no retry loses it silently
\* (Put, hybrid.go:104-139, async_s3.go:69-134).  What was queued when the process
\* ends is lost; which body is in S3 is the matter of TiersAgree.
OnItsWay(k) == \E i \in Items : KeyOf[i] = k /\ stage[i] \in Uploader!InFlight
Kept(k) == remote[k] # None \/ OnItsWay(k)
GivesUp(k) == \E i \in Items : KeyOf[i] = k /\ stage'[i] \in GaveUp /\
  (stage[i] \in Uploader!InFlight \/ \E p \in Procs : call[p].pc = "share" /\ call[p].item = i)
KeepsAcked ==
  \A k \in acked' : Kept(k)' \/ (k \in acked /\ ~Kept(k)) \/ GivesUp(k) \/ Restart
AckedNotForgotten == [][KeepsAcked]_vars

\* Of the PUTs, and of the HEADs, of a key that overlap exactly one makes the
\* calls of the stores: those that joined always have one to wait for, and never
\* two (singleflight.go:25-51).
OneLeads == \A k \in Keys, op \in Shared :
  Flight(op, k) # {} => \E q \in Procs : {r \in Flight(op, k) : call[r].pc # "join"} = {q}

\* Hybrid's comment, hybrid.go:13-15: an object missing locally "is downloaded
\* to local storage": what a GET leaves in either store is a whole object.
StoresWholeObjects == \A k \in Keys :
  \A e \in {local[k], remote[k]} \ {None} : e.whole

\* What was acknowledged reaches S3 in the end, unless the uploader gives it up
\* (tries exhausted, queue full at a retry, entry unreadable) or the process ends
\* before (Put, hybrid.go:104-123, and async_s3.go:82-134).
AckedReachesS3 == \A k \in Keys :
  k \in acked ~>
    remote[k] # None \/ k \notin acked \/ GivenUp(k) \/ Forgotten(k) \/ crashed

\* Every request is answered, those that wait for another one's call included
\* (singleflight.go:25-51).
RequestsReturn == \A p \in Procs :
  call[p].pc # "idle" ~> call[p].pc = "idle" \/ crashed
=============================================================================
