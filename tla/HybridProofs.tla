---------------------------- MODULE HybridProofs ----------------------------
(***************************************************************************)
(* Proofs about Hybrid and HybridTiers, for any number of requests, keys,  *)
(* bodies, uploads and workers, in both modes of uploading, with eviction, *)
(* failures of S3, shutdown and restart.  The uploader keeps the invariant *)
(* of AsyncUploaderProofs; what the requests rely on is added to it.       *)
(***************************************************************************)
EXTENDS HybridTiers, TLAPS

UP == INSTANCE AsyncUploaderProofs

LEMMA UploaderFits == UP!UploaderAssumption
BY HybridAssumption DEF UP!UploaderAssumption

\* The uploader that AsyncUploaderProofs is about is the one of Hybrid.
LEMMA SameStart == Uploader!Init => UP!Init
BY DEF Uploader!Init, UP!Init

LEMMA SameSteps ==
  ASSUME ~crashed,
         \/ Uploader!Start \/ Uploader!StopBegin \/ Uploader!StopStep
         \/ \E i \in Items : \/ Uploader!EnqueueCheck(i) \/ Uploader!EnqueueSend(i)
                             \/ Uploader!RetryWake(i)
         \/ \E w \in Workers : \/ Uploader!Take(w) \/ Uploader!Exit(w) \/ Uploader!ReadLocal(w)
                               \/ Uploader!PutSucceeds(w) \/ Uploader!PutFails(w)
  PROVE  UP!Next
<1>1. Uploader!Start => UP!Start
  BY DEF Uploader!Start, UP!Start
<1>2. Uploader!StopBegin => UP!StopBegin
  BY DEF Uploader!StopBegin, UP!StopBegin
<1>3. Uploader!StopStep => UP!StopStep
  BY DEF Uploader!StopStep, UP!StopStep, Uploader!StopClose, UP!StopClose,
         Uploader!StopReturn, UP!StopReturn, Uploader!WorkersDone, UP!WorkersDone
<1>4. ASSUME NEW i \in Items
      PROVE  /\ Uploader!EnqueueCheck(i) => UP!EnqueueCheck(i)
             /\ Uploader!EnqueueSend(i) => UP!EnqueueSend(i)
             /\ Uploader!RetryWake(i) => UP!RetryWake(i)
  <2>1. Uploader!EnqueueCheck(i) => UP!EnqueueCheck(i)
    BY DEF Uploader!EnqueueCheck, UP!EnqueueCheck, Uploader!Move, UP!Move
  <2>2. Uploader!EnqueueSend(i) => UP!EnqueueSend(i)
    BY DEF Uploader!EnqueueSend, UP!EnqueueSend, Uploader!Move, UP!Move,
           Uploader!HasRoom, UP!HasRoom
  <2>3. Uploader!RetryWake(i) => UP!RetryWake(i)
    BY DEF Uploader!RetryWake, UP!RetryWake, Uploader!Move, UP!Move,
           Uploader!HasRoom, UP!HasRoom
  <2> QED
    BY <2>1, <2>2, <2>3
<1>5. ASSUME NEW w \in Workers
      PROVE  /\ Uploader!Take(w) => UP!Take(w)
             /\ Uploader!Exit(w) => UP!Exit(w)
             /\ Uploader!ReadLocal(w) => UP!ReadLocal(w)
             /\ Uploader!PutSucceeds(w) => UP!PutSucceeds(w)
             /\ Uploader!PutFails(w) => UP!PutFails(w)
  <2>1. (Uploader!Take(w) => UP!Take(w)) /\ (Uploader!Exit(w) => UP!Exit(w))
    BY DEF Uploader!Take, UP!Take, Uploader!Move, UP!Move, Uploader!ReceiveQueue,
           UP!ReceiveQueue, Uploader!Exit, UP!Exit, Uploader!SeesEnd, UP!SeesEnd
  <2>2. Uploader!ReadLocal(w) => UP!ReadLocal(w)
    BY DEF Uploader!ReadLocal, UP!ReadLocal, Uploader!Move, UP!Move
  <2>3. Uploader!PutSucceeds(w) => UP!PutSucceeds(w)
    BY DEF Uploader!PutSucceeds, UP!PutSucceeds, Uploader!Move, UP!Move
  <2>4. Uploader!PutFails(w) => UP!PutFails(w)
    BY DEF Uploader!PutFails, UP!PutFails, Uploader!Move, UP!Move,
           Uploader!MayRetry, UP!MayRetry, Uploader!CountsTry, UP!CountsTry
  <2> QED
    BY <2>1, <2>2, <2>3, <2>4
<1> QED
  BY <1>1, <1>2, <1>3, <1>4, <1>5 DEF UP!Next, UP!CallerStep, UP!WorkerStep

-----------------------------------------------------------------------------
\* The steps that belong to each kind of call.
InStep(c) ==
  /\ c.pc # "idle" => c.key \in Keys
  /\ c.pc = "idle" => c.op = None /\ ~c.sure
  /\ c.pc \in {"store", "enqueue", "send", "reread", "upload"} => c.op = "put" /\ c.body \in Entries
  /\ c.pc \in {"lookup", "fetch", "backfill", "again"} => c.op = "get"
  /\ c.pc \in {"probe", "ask"} => c.op = "head"
  /\ c.pc \in {"drop", "dropRemote"} => c.op = "delete"
  /\ c.pc \in {"join", "share"} => c.op \in Shared
  /\ c.pc = "send" => c.item \in Items /\ KeyOf[c.item] = c.key
  /\ c.pc \in {"upload", "backfill"} => c.read \in Entries

Types ==
  /\ async \in Modes
  /\ local \in [Keys -> Entries \cup {None}]
  /\ remote \in [Keys -> Entries \cup {None}]
  /\ victim \in Keys \cup {None}
  /\ call \in [Procs -> CallType] /\ \A p \in Procs : InStep(call[p])
  /\ acked \subseteq Keys

\* What each way of leaving a step does to the call.
Keeps(p) ==
  /\ call' \in [Procs -> CallType] /\ \A q \in Procs : q # p => call'[q] = call[q]
  /\ call'[p].op = call[p].op /\ call'[p].key = call[p].key /\ call'[p].body = call[p].body
  /\ call'[p].met = call[p].met /\ call'[p].sure = call[p].sure
Ends(p, s) ==
  /\ call' \in [Procs -> CallType] /\ \A q \in Procs : q # p => call'[q] = call[q]
  /\ call'[p] = [Idle EXCEPT !.status = s]
  /\ call'[p].pc = "idle" /\ call'[p].status = s /\ ~call'[p].sure

LEMMA IdleType == Idle \in CallType /\ InStep(Idle) /\ Idle.pc = "idle" /\ Idle.status = "pending"
BY DEF Idle, CallType, InStep, Steps

LEMMA EndFields ==
  ASSUME Types, NEW p \in Procs, NEW s \in {"ok", "missing", "failed"}, Answer(p, s)
  PROVE  Ends(p, s)
<1>1. [Idle EXCEPT !.status = s] \in CallType
  BY DEF Idle, CallType, Steps
<1>2. [Idle EXCEPT !.status = s].pc = "idle" /\ [Idle EXCEPT !.status = s].status = s
      /\ ~[Idle EXCEPT !.status = s].sure
  BY DEF Idle
<1> QED
  BY <1>1, <1>2 DEF Answer, Ends, Types

LEMMA GotoFields ==
  ASSUME Types, NEW p \in Procs, NEW step \in Steps, Goto(p, step)
  PROVE  /\ Keeps(p) /\ call'[p].pc = step /\ call'[p].read = call[p].read
         /\ call'[p].item = call[p].item /\ call'[p].status = call[p].status
BY DEF Goto, Keeps, Types, CallType

LEMMA HoldFields ==
  ASSUME Types, NEW p \in Procs, NEW step \in Steps, NEW b \in Entries, Hold(p, step, b)
  PROVE  /\ Keeps(p) /\ call'[p].pc = step /\ call'[p].read = b
         /\ call'[p].item = call[p].item /\ call'[p].status = call[p].status
<1> DEFINE c == call[p]
           d == [c EXCEPT !.pc = step, !.read = b]
<1>1. call \in [Procs -> CallType] /\ c \in CallType
  BY DEF Types
<1>2. call' = [call EXCEPT ![p] = d]
  BY <1>1 DEF Hold
<1>3. /\ d \in CallType /\ d.pc = step /\ d.read = b /\ d.item = c.item /\ d.status = c.status
      /\ d.op = c.op /\ d.key = c.key /\ d.body = c.body /\ d.met = c.met /\ d.sure = c.sure
  BY <1>1 DEF CallType
<1> HIDE DEF d
<1> QED
  BY <1>1, <1>2, <1>3 DEF Keeps

LEMMA DecideFields ==
  ASSUME Types, NEW p \in Procs, NEW s \in {"ok", "missing", "failed"}, Decide(p, s)
  PROVE  /\ Keeps(p) /\ call'[p].pc = "share" /\ call'[p].status = s
         /\ call'[p].read = call[p].read /\ call'[p].item = call[p].item
<1> DEFINE c == call[p]
           d == [c EXCEPT !.pc = "share", !.status = s]
<1>1. call \in [Procs -> CallType] /\ c \in CallType
  BY DEF Types
<1>2. call' = [call EXCEPT ![p] = d]
  BY <1>1 DEF Decide
<1>3. /\ d \in CallType /\ d.pc = "share" /\ d.status = s /\ d.item = c.item /\ d.read = c.read
      /\ d.op = c.op /\ d.key = c.key /\ d.body = c.body /\ d.met = c.met /\ d.sure = c.sure
  <2>1. "share" \in Steps /\ s \in {"pending", "ok", "missing", "failed"}
    BY DEF Steps
  <2> QED
    BY <1>1, <2>1 DEF CallType
<1> HIDE DEF d
<1> QED
  BY <1>1, <1>2, <1>3 DEF Keeps

HoldItem(p, step, i) == call' = [call EXCEPT ![p].pc = step, ![p].item = i]
LEMMA ItemFields ==
  ASSUME Types, NEW p \in Procs, NEW step \in Steps, NEW i \in Items, HoldItem(p, step, i)
  PROVE  /\ Keeps(p) /\ call'[p].pc = step /\ call'[p].item = i
         /\ call'[p].read = call[p].read /\ call'[p].status = call[p].status
<1> DEFINE c == call[p]
           d == [c EXCEPT !.pc = step, !.item = i]
<1>1. call \in [Procs -> CallType] /\ c \in CallType
  BY DEF Types
<1>2. call' = [call EXCEPT ![p] = d]
  BY <1>1 DEF HoldItem
<1>3. /\ d \in CallType /\ d.pc = step /\ d.item = i /\ d.read = c.read /\ d.status = c.status
      /\ d.op = c.op /\ d.key = c.key /\ d.body = c.body /\ d.met = c.met /\ d.sure = c.sure
  BY <1>1 DEF CallType
<1> HIDE DEF d
<1> QED
  BY <1>1, <1>2, <1>3 DEF Keeps

-----------------------------------------------------------------------------
\* What one step of a call does to the call and to the entries of its key.
Elsewhere(k) == \A j \in Keys : j # k => local'[j] = local[j] /\ remote'[j] = remote[j]
Frame(p) ==
  /\ UNCHANGED <<async, victim, acked, held>>
  /\ local' \in [Keys -> Entries \cup {None}] /\ remote' \in [Keys -> Entries \cup {None}]
  /\ Elsewhere(call[p].key)
LocalKept(p) == local'[call[p].key] = local[call[p].key]
RemoteKept(p) == remote'[call[p].key] = remote[call[p].key]
TiersKept(p) == LocalKept(p) /\ RemoteKept(p)
Goes(p, from, to) == Keeps(p) /\ call[p].pc = from /\ call'[p].pc = to
Shares(p, from, s) == Goes(p, from, "share") /\ call'[p].status = s
Answers(p, from, s) == call[p].pc = from /\ Ends(p, s)

PutMoves(p) ==
  \/ /\ \/ async /\ Goes(p, "store", "enqueue")
        \/ ~async /\ Goes(p, "store", "reread")
     /\ local'[call[p].key] = call[p].body /\ RemoteKept(p)
  \/ /\ Shares(p, "store", "failed") \/ Shares(p, "reread", "failed") \/ Shares(p, "send", "failed")
     /\ TiersKept(p)
  \/ Goes(p, "enqueue", "reread") /\ TiersKept(p)
  \/ /\ Goes(p, "enqueue", "send") /\ TiersKept(p)
     /\ call'[p].item \in Items /\ KeyOf[call'[p].item] = call[p].key
  \/ Goes(p, "send", "reread") /\ TiersKept(p)
  \/ /\ Shares(p, "send", "ok") /\ TiersKept(p)
     /\ stage'[call[p].item] = "queued" /\ call'[p].item = call[p].item
  \/ /\ Goes(p, "reread", "upload") /\ TiersKept(p)
     /\ call'[p].read = local[call[p].key] /\ local[call[p].key] # None
  \/ /\ Shares(p, "upload", "ok") \/ Shares(p, "upload", "failed")
     /\ remote'[call[p].key] = call[p].read /\ LocalKept(p)
  \/ Shares(p, "upload", "failed") /\ TiersKept(p)
GetMoves(p) ==
  \/ /\ \/ Answers(p, "lookup", "ok") \/ Answers(p, "lookup", "failed")
        \/ Answers(p, "fetch", "failed") \/ Answers(p, "backfill", "failed")
        \/ Answers(p, "again", "ok") \/ Answers(p, "again", "failed")
     /\ TiersKept(p)
  \/ Goes(p, "lookup", "fetch") /\ TiersKept(p) /\ local[call[p].key] = None
  \/ /\ Goes(p, "fetch", "backfill") /\ TiersKept(p)
     /\ remote[call[p].key] # None /\ call'[p].read \in Entries
     /\ ~Ranged => call'[p].read = remote[call[p].key]
  \/ Answers(p, "fetch", "missing") /\ TiersKept(p) /\ remote[call[p].key] = None
  \/ Goes(p, "backfill", "again") /\ RemoteKept(p) /\ local'[call[p].key] = call[p].read
  \/ Answers(p, "again", "missing") /\ TiersKept(p) /\ local[call[p].key] = None
HeadMoves(p) ==
  /\ TiersKept(p)
  /\ \/ Shares(p, "probe", "ok") \/ Shares(p, "probe", "failed")
     \/ Goes(p, "probe", "ask") /\ local[call[p].key] = None
     \/ Shares(p, "ask", "ok") \/ Shares(p, "ask", "failed")
     \/ Shares(p, "ask", "missing") /\ remote[call[p].key] = None
DeleteMoves(p) ==
  \/ /\ Goes(p, "drop", "dropRemote") /\ call'[p].status = call[p].status
     /\ local'[call[p].key] = None /\ RemoteKept(p)
  \/ Goes(p, "drop", "dropRemote") /\ call'[p].status = "failed" /\ TiersKept(p)
  \/ /\ \/ call[p].status # "failed" /\ Answers(p, "dropRemote", "ok")
        \/ Answers(p, "dropRemote", "failed")
     /\ LocalKept(p) /\ remote'[call[p].key] = None
  \/ Answers(p, "dropRemote", "failed") /\ TiersKept(p)

CallStep(p) == PutStep(p) \/ GetStep(p) \/ HeadLocal(p) \/ HeadRemote(p)
               \/ DeleteLocal(p) \/ DeleteRemote(p)
Moves(p) == Frame(p) /\ (PutMoves(p) \/ GetMoves(p) \/ HeadMoves(p) \/ DeleteMoves(p))

LEMMA SetLocalEffect ==
  ASSUME Types, NEW k \in Keys, NEW b \in Entries \cup {None}, SetLocal(k, b)
  PROVE  /\ local'[k] = b /\ remote'[k] = remote[k] /\ UNCHANGED victim /\ Elsewhere(k)
         /\ local' \in [Keys -> Entries \cup {None}] /\ remote' \in [Keys -> Entries \cup {None}]
BY DEF SetLocal, Types, Elsewhere

LEMMA SetRemoteEffect ==
  ASSUME Types, NEW k \in Keys, NEW b \in Entries \cup {None}, SetRemote(k, b)
  PROVE  /\ remote'[k] = b /\ local'[k] = local[k] /\ UNCHANGED victim /\ Elsewhere(k)
         /\ local' \in [Keys -> Entries \cup {None}] /\ remote' \in [Keys -> Entries \cup {None}]
BY DEF SetRemote, Types, Elsewhere

LEMMA StoresKept ==
  ASSUME Types, UNCHANGED stores, CallFrame, NEW p \in Procs
  PROVE  Frame(p) /\ TiersKept(p)
BY DEF stores, CallFrame, Types, Frame, Elsewhere, TiersKept, LocalKept, RemoteKept

LEMMA PutLocalMoves ==
  ASSUME Types, NEW p \in Procs, PutLocal(p)
  PROVE  Frame(p) /\ PutMoves(p)
<1>1. call[p].pc = "store" /\ CallFrame
  BY DEF PutLocal, At
<1>2. call[p].key \in Keys /\ call[p].body \in Entries
  BY <1>1 DEF Types, InStep
<1>3. CASE SetLocal(call[p].key, call[p].body) /\ Goto(p, IF async THEN "enqueue" ELSE "reread")
  <2>1. /\ local'[call[p].key] = call[p].body /\ RemoteKept(p) /\ Frame(p)
    BY <1>1, <1>2, <1>3, SetLocalEffect DEF Frame, CallFrame, RemoteKept
  <2>2. "enqueue" \in Steps /\ "reread" \in Steps
    BY DEF Steps
  <2>3. \/ async /\ Goes(p, "store", "enqueue")
        \/ ~async /\ Goes(p, "store", "reread")
    BY <1>1, <1>3, <2>2, GotoFields DEF Goes
  <2> QED
    BY <2>1, <2>3 DEF PutMoves
<1>4. CASE Decide(p, "failed") /\ UNCHANGED stores
  BY <1>1, <1>4, StoresKept, DecideFields DEF PutMoves, Shares, Goes
<1> QED
  BY <1>3, <1>4 DEF PutLocal

LEMMA PutEnqueueMoves ==
  ASSUME Types, NEW p \in Procs, PutEnqueue(p)
  PROVE  Frame(p) /\ PutMoves(p)
<1>1. call[p].pc = "enqueue" /\ CallFrame /\ UNCHANGED stores
  BY DEF PutEnqueue, At
<1>2. Frame(p) /\ TiersKept(p)
  BY <1>1, StoresKept
<1>3. PICK i \in Items : /\ KeyOf[i] = call[p].key
                         /\ HoldItem(p, "reread", i) \/ HoldItem(p, "send", i)
  BY DEF PutEnqueue, Dropped, HoldItem
<1>4. "send" \in Steps /\ "reread" \in Steps
  BY DEF Steps
<1>5. CASE HoldItem(p, "reread", i)
  <2>1. Goes(p, "enqueue", "reread")
    BY <1>1, <1>4, <1>5, ItemFields DEF Goes
  <2> QED
    BY <1>2, <2>1 DEF PutMoves
<1>6. CASE HoldItem(p, "send", i)
  <2>1. Keeps(p) /\ call'[p].pc = "send" /\ call'[p].item = i
    BY <1>4, <1>6, ItemFields
  <2>2. Goes(p, "enqueue", "send")
    BY <1>1, <2>1 DEF Goes
  <2> QED
    BY <1>2, <1>3, <2>1, <2>2 DEF PutMoves
<1> QED
  BY <1>3, <1>5, <1>6

LEMMA PutSendMoves ==
  ASSUME Types, NEW p \in Procs, PutSend(p)
  PROVE  Frame(p) /\ PutMoves(p)
<1> DEFINE i == call[p].item
<1>1. call[p].pc = "send" /\ CallFrame /\ UNCHANGED stores
  BY DEF PutSend, At
<1>2. Frame(p) /\ TiersKept(p)
  BY <1>1, StoresKept
<1>3. i \in Items
  BY <1>1 DEF Types, InStep
<1>4. CASE stage'[i] = "queued" /\ Decide(p, "ok")
  BY <1>1, <1>2, <1>4, DecideFields DEF PutMoves, Shares, Goes
<1>5. CASE Dropped(p, i)
  <2>1. "reread" \in Steps /\ HoldItem(p, "reread", i)
    BY <1>5 DEF Steps, Dropped, HoldItem
  <2>2. Goes(p, "send", "reread")
    BY <1>1, <1>3, <2>1, ItemFields DEF Goes
  <2> QED
    BY <1>2, <2>2 DEF PutMoves
<1>6. CASE Decide(p, "failed")
  BY <1>1, <1>2, <1>6, DecideFields DEF PutMoves, Shares, Goes
<1> QED
  BY <1>4, <1>5, <1>6 DEF PutSend

LEMMA PutRereadMoves ==
  ASSUME Types, NEW p \in Procs, PutReread(p)
  PROVE  Frame(p) /\ PutMoves(p)
<1>1. call[p].pc = "reread" /\ CallFrame /\ UNCHANGED stores
  BY DEF PutReread, At
<1>2. Frame(p) /\ TiersKept(p)
  BY <1>1, StoresKept
<1>3. CASE Exists(p) /\ Hold(p, "upload", Entry(p))
  <2>1. call[p].key \in Keys /\ "upload" \in Steps
    BY <1>1 DEF Types, InStep, Steps
  <2>2. local[call[p].key] \in Entries /\ local[call[p].key] # None
    BY <1>3, <2>1 DEF Types, Exists, Entry
  <2>3. Goes(p, "reread", "upload") /\ call'[p].read = local[call[p].key]
    BY <1>1, <1>3, <2>1, <2>2, HoldFields DEF Goes, Entry
  <2> QED
    BY <1>2, <2>2, <2>3 DEF PutMoves
<1>4. CASE Decide(p, "failed")
  BY <1>1, <1>2, <1>4, DecideFields DEF PutMoves, Shares, Goes
<1> QED
  BY <1>3, <1>4 DEF PutReread

LEMMA PutUploadMoves ==
  ASSUME Types, NEW p \in Procs, PutUpload(p)
  PROVE  Frame(p) /\ PutMoves(p)
<1>1. call[p].pc = "upload" /\ CallFrame
  BY DEF PutUpload, At
<1>2. call[p].key \in Keys /\ call[p].read \in Entries
  BY <1>1 DEF Types, InStep
<1>3. CASE Decide(p, "ok") \/ Decide(p, "failed")
  <2>1. Shares(p, "upload", "ok") \/ Shares(p, "upload", "failed")
    BY <1>1, <1>3, DecideFields DEF Shares, Goes
  <2>2. CASE SetRemote(call[p].key, call[p].read)
    <3>1. remote'[call[p].key] = call[p].read /\ LocalKept(p) /\ Frame(p)
      BY <1>1, <1>2, <2>2, SetRemoteEffect DEF Frame, CallFrame, LocalKept
    <3> QED
      BY <2>1, <3>1 DEF PutMoves
  <2>3. CASE UNCHANGED stores /\ Decide(p, "failed")
    <3>1. Shares(p, "upload", "failed")
      BY <1>1, <2>3, DecideFields DEF Shares, Goes
    <3> QED
      BY <1>1, <2>3, <3>1, StoresKept DEF PutMoves
  <2> QED
    BY <2>2, <2>3 DEF PutUpload, UploadFails
<1> QED
  BY <1>3 DEF PutUpload, UploadFails

LEMMA GetLocalMoves ==
  ASSUME Types, NEW p \in Procs, GetLocal(p)
  PROVE  Frame(p) /\ GetMoves(p)
<1>1. call[p].pc = "lookup" /\ CallFrame /\ UNCHANGED stores /\ "fetch" \in Steps
  BY DEF GetLocal, At, Steps
<1>2. Frame(p) /\ TiersKept(p)
  BY <1>1, StoresKept
<1>3. CASE Answer(p, "ok") \/ Answer(p, "failed")
  BY <1>1, <1>2, <1>3, EndFields DEF GetMoves, Answers
<1>4. CASE Entry(p) = None /\ Goto(p, "fetch")
  BY <1>1, <1>2, <1>4, GotoFields DEF GetMoves, Goes, Entry
<1> QED
  BY <1>3, <1>4 DEF GetLocal

LEMMA GetRemoteMoves ==
  ASSUME Types, NEW p \in Procs, GetRemote(p)
  PROVE  Frame(p) /\ GetMoves(p)
<1>1. call[p].pc = "fetch" /\ CallFrame /\ UNCHANGED stores /\ "backfill" \in Steps
  BY DEF GetRemote, At, Steps
<1>2. Frame(p) /\ TiersKept(p) /\ call[p].key \in Keys
  BY <1>1, StoresKept DEF Types, InStep
<1>3. ASSUME Object(p) # None
      PROVE  Object(p) \in Entries /\ Part(Object(p)) \in Entries
  <2>1. Object(p) \in Entries
    BY <1>2, <1>3 DEF Object, Types
  <2> QED
    BY <2>1 DEF Entries, Part
<1>4. CASE Object(p) # None /\ Hold(p, "backfill", Object(p))
  <2>1. Goes(p, "fetch", "backfill") /\ call'[p].read = Object(p)
    BY <1>1, <1>3, <1>4, HoldFields DEF Goes
  <2> QED
    BY <1>2, <1>3, <1>4, <2>1 DEF GetMoves, Object
<1>5. CASE Object(p) # None /\ Ranged /\ Hold(p, "backfill", Part(Object(p)))
  <2>1. Goes(p, "fetch", "backfill") /\ call'[p].read = Part(Object(p))
    BY <1>1, <1>3, <1>5, HoldFields DEF Goes
  <2> QED
    BY <1>2, <1>3, <1>5, <2>1 DEF GetMoves, Object
<1>6. CASE Object(p) = None /\ Answer(p, "missing")
  BY <1>1, <1>2, <1>6, EndFields DEF GetMoves, Answers, Object
<1>7. CASE Answer(p, "failed")
  BY <1>1, <1>2, <1>7, EndFields DEF GetMoves, Answers
<1> QED
  BY <1>4, <1>5, <1>6, <1>7 DEF GetRemote

LEMMA GetBackfillMoves ==
  ASSUME Types, NEW p \in Procs, GetBackfill(p)
  PROVE  Frame(p) /\ GetMoves(p)
<1>1. call[p].pc = "backfill" /\ CallFrame /\ "again" \in Steps
  BY DEF GetBackfill, At, Steps
<1>2. call[p].key \in Keys /\ call[p].read \in Entries
  BY <1>1 DEF Types, InStep
<1>3. CASE SetLocal(call[p].key, call[p].read) /\ Goto(p, "again")
  <2>1. local'[call[p].key] = call[p].read /\ RemoteKept(p) /\ Frame(p)
    BY <1>1, <1>2, <1>3, SetLocalEffect DEF Frame, CallFrame, RemoteKept
  <2>2. Goes(p, "backfill", "again")
    BY <1>1, <1>3, GotoFields DEF Goes
  <2> QED
    BY <2>1, <2>2 DEF GetMoves
<1>4. CASE Answer(p, "failed") /\ UNCHANGED stores
  BY <1>1, <1>4, StoresKept, EndFields DEF GetMoves, Answers
<1> QED
  BY <1>3, <1>4 DEF GetBackfill

LEMMA GetAgainMoves ==
  ASSUME Types, NEW p \in Procs, GetAgain(p)
  PROVE  Frame(p) /\ GetMoves(p)
<1>1. call[p].pc = "again" /\ CallFrame /\ UNCHANGED stores
  BY DEF GetAgain, At
<1>2. Frame(p) /\ TiersKept(p)
  BY <1>1, StoresKept
<1>3. CASE Answer(p, "ok") \/ Answer(p, "failed")
  BY <1>1, <1>2, <1>3, EndFields DEF GetMoves, Answers
<1>4. CASE Entry(p) = None /\ Answer(p, "missing")
  BY <1>1, <1>2, <1>4, EndFields DEF GetMoves, Answers, Entry
<1> QED
  BY <1>3, <1>4 DEF GetAgain

LEMMA HeadCallMoves ==
  ASSUME Types, NEW p \in Procs, HeadLocal(p) \/ HeadRemote(p)
  PROVE  Frame(p) /\ HeadMoves(p)
<1>1. Frame(p) /\ TiersKept(p)
  BY StoresKept DEF HeadLocal, HeadRemote
<1>2. CASE HeadLocal(p)
  <2>1. call[p].pc = "probe" /\ "ask" \in Steps
    BY <1>2 DEF HeadLocal, At, Steps
  <2>2. CASE Decide(p, "ok") \/ Decide(p, "failed")
    BY <1>1, <2>1, <2>2, DecideFields DEF HeadMoves, Shares, Goes
  <2>3. CASE Entry(p) = None /\ Goto(p, "ask")
    BY <1>1, <2>1, <2>3, GotoFields DEF HeadMoves, Goes, Entry
  <2> QED
    BY <1>2, <2>2, <2>3 DEF HeadLocal, AskRemote
<1>3. CASE HeadRemote(p)
  <2>1. call[p].pc = "ask"
    BY <1>3 DEF HeadRemote, At
  <2>2. CASE Decide(p, "ok") \/ Decide(p, "failed")
    BY <1>1, <2>1, <2>2, DecideFields DEF HeadMoves, Shares, Goes
  <2>3. CASE Object(p) = None /\ Decide(p, "missing")
    BY <1>1, <2>1, <2>3, DecideFields DEF HeadMoves, Shares, Goes, Object
  <2> QED
    BY <1>3, <2>2, <2>3 DEF HeadRemote
<1> QED
  BY <1>2, <1>3

LEMMA DeleteLocalMoves ==
  ASSUME Types, NEW p \in Procs, DeleteLocal(p)
  PROVE  Frame(p) /\ DeleteMoves(p)
<1>1. call[p].pc = "drop" /\ CallFrame /\ "dropRemote" \in Steps
  BY DEF DeleteLocal, At, Steps
<1>2. call[p].key \in Keys
  BY <1>1 DEF Types, InStep
<1>3. CASE SetLocal(call[p].key, None) /\ Goto(p, "dropRemote")
  <2>1. local'[call[p].key] = None /\ RemoteKept(p) /\ Frame(p)
    BY <1>1, <1>2, <1>3, SetLocalEffect DEF Frame, CallFrame, RemoteKept
  <2>2. Goes(p, "drop", "dropRemote") /\ call'[p].status = call[p].status
    BY <1>1, <1>3, GotoFields DEF Goes
  <2> QED
    BY <2>1, <2>2 DEF DeleteMoves
<1>4. CASE UNCHANGED stores
           /\ call' = [call EXCEPT ![p].pc = "dropRemote", ![p].status = "failed"]
  <2> DEFINE c == call[p]
             d == [c EXCEPT !.pc = "dropRemote", !.status = "failed"]
  <2>1. call \in [Procs -> CallType] /\ c \in CallType
    BY DEF Types
  <2>2. call' = [call EXCEPT ![p] = d]
    BY <1>4, <2>1
  <2>3. /\ d \in CallType /\ d.pc = "dropRemote" /\ d.status = "failed"
        /\ d.op = c.op /\ d.key = c.key /\ d.body = c.body /\ d.met = c.met /\ d.sure = c.sure
    BY <1>1, <2>1 DEF CallType
  <2> HIDE DEF d
  <2>4. Goes(p, "drop", "dropRemote") /\ call'[p].status = "failed"
    BY <1>1, <2>1, <2>2, <2>3 DEF Goes, Keeps
  <2> QED
    BY <1>1, <1>4, <2>4, StoresKept DEF DeleteMoves
<1> QED
  BY <1>3, <1>4 DEF DeleteLocal, LocalErrorKept

LEMMA DeleteRemoteMoves ==
  ASSUME Types, NEW p \in Procs, DeleteRemote(p)
  PROVE  Frame(p) /\ DeleteMoves(p)
<1>1. call[p].pc = "dropRemote" /\ CallFrame
  BY DEF DeleteRemote, At
<1>2. call[p].key \in Keys
  BY <1>1 DEF Types, InStep
<1>3. \/ call[p].status # "failed" /\ Answer(p, "ok")
      \/ Answer(p, "failed")
  BY DEF DeleteRemote
<1>4. \/ call[p].status # "failed" /\ Answers(p, "dropRemote", "ok")
      \/ Answers(p, "dropRemote", "failed")
  BY <1>1, <1>3, EndFields DEF Answers
<1>5. CASE SetRemote(call[p].key, None)
  <2>1. remote'[call[p].key] = None /\ LocalKept(p) /\ Frame(p)
    BY <1>1, <1>2, <1>5, SetRemoteEffect DEF Frame, CallFrame, LocalKept
  <2> QED
    BY <1>4, <2>1 DEF DeleteMoves
<1>6. CASE UNCHANGED stores /\ Answer(p, "failed")
  <2>1. Answers(p, "dropRemote", "failed")
    BY <1>1, <1>6, EndFields DEF Answers
  <2> QED
    BY <1>1, <1>6, <2>1, StoresKept DEF DeleteMoves
<1> QED
  BY <1>5, <1>6 DEF DeleteRemote

LEMMA CallMoves ==
  ASSUME Types, NEW p \in Procs, CallStep(p)
  PROVE  Moves(p)
BY PutLocalMoves, PutEnqueueMoves, PutSendMoves, PutRereadMoves, PutUploadMoves,
   GetLocalMoves, GetRemoteMoves, GetBackfillMoves, GetAgainMoves, HeadCallMoves,
   DeleteLocalMoves, DeleteRemoteMoves DEF CallStep, PutStep, GetStep, Moves

-----------------------------------------------------------------------------
\* What the other steps do: a call that begins, the end of a shared call, the
\* cleanup.  Other calls only learn what they have met.
Like(q) ==
  /\ call'[q].pc = call[q].pc /\ call'[q].op = call[q].op /\ call'[q].key = call[q].key
  /\ call'[q].body = call[q].body /\ call'[q].read = call[q].read
  /\ call'[q].item = call[q].item /\ call'[q].status = call[q].status
  /\ call[q].met \subseteq call'[q].met /\ (call'[q].sure => call[q].sure)

Kind(op, b) ==
  \/ op = "put" /\ b \in Entries
  \/ op \in {"get", "head", "delete"} /\ b = None

Begins(p, op, k, b) ==
  /\ call[p].pc = "idle" /\ UNCHANGED <<async, local, remote, victim, held>>
  /\ call'[p].op = op /\ call'[p].key = k /\ call'[p].body = b /\ call'[p].status = "pending"
  /\ \/ op \in Shared /\ Flight(op, k) # {} /\ call'[p].pc = "join"
     \/ (op \in Shared => Flight(op, k) = {}) /\ call'[p].pc = First[op]
  /\ op = "put" => \A r \in Busy(k) : {call[r].op} \cap Undoers \subseteq call'[p].met
  /\ call'[p].sure => op \in {"get", "head"} /\ k \in acked
  /\ \A q \in Procs : q # p => Like(q)
  /\ \A q \in Busy(k) :
       /\ op = "delete" => ~call'[q].sure
       /\ call[q].op = "put" => {op} \cap Undoers \subseteq call'[q].met
  /\ acked' = IF op = "delete" THEN acked \ {k} ELSE acked

LEMMA FirstSteps ==
  First = [put |-> "store", get |-> "lookup", head |-> "probe", delete |-> "drop"]
  /\ First["put"] = "store" /\ First["get"] = "lookup" /\ First["head"] = "probe"
  /\ First["delete"] = "drop"
BY DEF First

LEMMA LikeTypes ==
  ASSUME NEW q \in Procs, call[q] \in CallType, InStep(call[q]),
         call'[q] \in CallType, Like(q)
  PROVE  InStep(call'[q])
BY DEF Like, InStep

LEMMA BeginEffect ==
  ASSUME Types, NEW p \in Procs, NEW k \in Keys, NEW op, NEW b, Kind(op, b), Begin(p, op, k, b)
  PROVE  Types' /\ Begins(p, op, k, b)
<1> DEFINE joins == op \in Shared /\ Flight(op, k) # {}
           step == IF joins THEN "join" ELSE First[op]
           m == IF op = "put" THEN {call[r].op : r \in Busy(k)} \cap Undoers ELSE {}
           s == op \in {"get", "head"} /\ k \in acked
           c == [pc |-> step, op |-> op, key |-> k, body |-> b, read |-> None,
                 item |-> None, status |-> "pending", met |-> m, sure |-> s]
           mm(q) == IF call[q].op = "put" THEN call[q].met \cup ({op} \cap Undoers)
                    ELSE call[q].met
           ss(q) == call[q].sure /\ op # "delete"
           d(q) == [call[q] EXCEPT !.met = mm(q), !.sure = ss(q)]
<1>1. /\ call[p].pc = "idle" /\ UNCHANGED <<async, local, remote, victim, held>>
      /\ call' = [q \in Procs |-> IF q = p THEN [Idle EXCEPT !.pc = step, !.op = op, !.key = k,
                                                        !.body = b, !.met = m, !.sure = s]
                                  ELSE IF q \in Busy(k) THEN d(q) ELSE call[q]]
      /\ acked' = IF op = "delete" THEN acked \ {k} ELSE acked
  BY DEF Begin, stores
<1>2. call'[p] = c
  BY <1>1 DEF Idle
<1>3. op \in Ops /\ step \in Steps
  BY FirstSteps DEF Kind, Ops, Steps
<1>4. c \in CallType
  BY <1>3 DEF CallType, Kind, Undoers
<1>5. InStep(c)
  <2>1. CASE joins
    BY <2>1 DEF InStep
  <2>2. CASE ~joins
    BY <2>2, FirstSteps DEF InStep, Kind
  <2> QED
    BY <2>1, <2>2
<1>6. ASSUME NEW q \in Busy(k), q # p
      PROVE  /\ call'[q] \in CallType /\ InStep(call'[q]) /\ Like(q)
             /\ op = "delete" => ~call'[q].sure
             /\ call[q].op = "put" => {op} \cap Undoers \subseteq call'[q].met
  <2>1. q \in Procs /\ call[q] \in CallType /\ InStep(call[q])
    BY <1>6 DEF Types, Busy
  <2>2. mm(q) \in SUBSET Undoers /\ ss(q) \in BOOLEAN
    BY <2>1 DEF CallType
  <2>3. call'[q] = d(q)
    BY <1>1, <1>6, <2>1
  <2> HIDE DEF mm, ss
  <2>4. /\ d(q) \in CallType /\ d(q).pc = call[q].pc /\ d(q).op = call[q].op
        /\ d(q).key = call[q].key /\ d(q).body = call[q].body /\ d(q).read = call[q].read
        /\ d(q).item = call[q].item /\ d(q).status = call[q].status
        /\ d(q).met = mm(q) /\ d(q).sure = ss(q)
    BY <2>1, <2>2 DEF CallType
  <2> HIDE DEF d
  <2> USE DEF mm, ss
  <2>5. Like(q)
    BY <2>3, <2>4 DEF Like
  <2> QED
    BY <2>1, <2>3, <2>4, <2>5, LikeTypes
<1>7. ASSUME NEW q \in Procs, q \notin Busy(k), q # p
      PROVE  call'[q] = call[q] /\ Like(q) /\ call'[q] \in CallType /\ InStep(call'[q])
  BY <1>1, <1>7 DEF Like, Types
<1> HIDE DEF c, d
<1>8. \A q \in Procs : call'[q] \in CallType /\ InStep(call'[q])
  BY <1>2, <1>4, <1>5, <1>6, <1>7
<1>9. Types'
  <2>1. call' \in [Procs -> CallType]
    BY <1>1, <1>8
  <2> QED
    BY <1>1, <1>8, <2>1 DEF Types
<1>10. /\ c.pc = step /\ c.op = op /\ c.key = k /\ c.body = b /\ c.status = "pending"
       /\ c.met = m /\ c.sure = s
  BY DEF c
<1>11. \A q \in Busy(k) : q # p /\ q \in Procs
  BY <1>1 DEF Busy
<1>12. /\ call'[p].op = op /\ call'[p].key = k /\ call'[p].body = b
       /\ call'[p].status = "pending" /\ call'[p].pc = step /\ call'[p].met = m
       /\ call'[p].sure => op \in {"get", "head"} /\ k \in acked
  BY <1>2, <1>10
<1>13. op = "put" => \A r \in Busy(k) : {call[r].op} \cap Undoers \subseteq call'[p].met
  BY <1>12
<1>14. \/ op \in Shared /\ Flight(op, k) # {} /\ call'[p].pc = "join"
       \/ (op \in Shared => Flight(op, k) = {}) /\ call'[p].pc = First[op]
  BY <1>12
<1>15. \A q \in Procs : q # p => Like(q)
  BY <1>6, <1>7
<1>16. \A q \in Busy(k) :
         /\ op = "delete" => ~call'[q].sure
         /\ call[q].op = "put" => {op} \cap Undoers \subseteq call'[q].met
  BY <1>6, <1>11
<1> HIDE DEF step, m, s, joins, mm, ss
<1> QED
  BY <1>1, <1>9, <1>12, <1>13, <1>14, <1>15, <1>16 DEF Begins

Ended(p) ==
  LET c == call[p] IN
  /\ call[p].pc = "share" /\ UNCHANGED <<async, local, remote, victim, held>>
  /\ \A q \in Group(p) : /\ call'[q].pc = "idle" /\ call'[q].status = call[p].status
                         /\ ~call'[q].sure
  /\ \A q \in Procs \ Group(p) : call'[q] = call[q]
  /\ acked' = IF c.op = "put" /\ c.status = "ok" /\ c.met \subseteq {"get"}
              THEN acked \cup {c.key} ELSE acked

LEMMA ShareEffect ==
  ASSUME Types, NEW p \in Procs, Share(p)
  PROVE  Types' /\ Ended(p) /\ p \in Group(p)
<1> DEFINE s == call[p].status
           e == [Idle EXCEPT !.status = s]
<1>1. /\ call[p].pc = "share" /\ UNCHANGED <<async, local, remote, victim, held>>
      /\ call' = [q \in Procs |-> IF q \in Group(p) THEN e ELSE call[q]]
      /\ acked' = IF call[p].op = "put" /\ call[p].status = "ok" /\ call[p].met \subseteq {"get"}
                  THEN acked \cup {call[p].key} ELSE acked
  BY DEF Share, At, stores
<1>2. s \in {"pending", "ok", "missing", "failed"} /\ call[p].key \in Keys
  BY <1>1 DEF Types, CallType, InStep
<1>3. e.pc = "idle" /\ e.status = s /\ ~e.sure
  BY DEF Idle
<1>4. e \in CallType /\ InStep(e)
  BY <1>2 DEF Idle, CallType, Steps, InStep
<1> HIDE DEF e
<1>5. \A q \in Procs : call'[q] \in CallType /\ InStep(call'[q])
  BY <1>1, <1>4 DEF Types
<1>6. Types'
  <2>1. call' \in [Procs -> CallType]
    BY <1>1, <1>5
  <2> QED
    BY <1>1, <1>2, <1>5, <2>1 DEF Types
<1>7. Ended(p)
  <2>1. Group(p) \subseteq Procs
    BY DEF Group, Flight, Busy
  <2> QED
    BY <1>1, <1>3, <2>1 DEF Ended
<1>8. p \in Group(p)
  BY <1>1 DEF Group, Flight, Busy
<1> QED
  BY <1>6, <1>7, <1>8

LEMMA SpotEffect ==
  ASSUME Types, NEW k \in Keys, Spot(k)
  PROVE  /\ Types' /\ victim' = k /\ local[k] # None /\ victim = None
         /\ UNCHANGED <<async, local, remote, call, acked, held>>
BY DEF Spot, Types

Evicts(k) ==
  /\ victim = k /\ victim' = None /\ local'[k] = None /\ Elsewhere(k)
  /\ UNCHANGED <<async, remote, held>>
  /\ \A q \in Procs : Like(q)
  /\ \/ /\ async /\ remote[k] = None /\ acked' = acked \ {k}
        /\ \A q \in Procs : call[q].key = k =>
             ~call'[q].sure /\ (call[q].op = "put" => "evict" \in call'[q].met)
     \/ /\ async => remote[k] # None
        /\ UNCHANGED acked
        /\ \A q \in Procs : call[q].key = k /\ call[q].pc = "again" => ~call'[q].sure

LEMMA EvictEffect ==
  ASSUME Types, HybridAssumption, Evict
  PROVE  Types' /\ \E k \in Keys : Evicts(k)
<1>1. victim # None /\ victim \in Keys
  BY DEF Evict, Types
<1>2. PICK k \in Keys : victim = k
  BY <1>1
<1>3. /\ local' = [local EXCEPT ![k] = None] /\ victim' = None
      /\ UNCHANGED <<async, remote, held>>
  BY <1>2 DEF Evict
<1>4. /\ local'[k] = None /\ Elsewhere(k)
      /\ local' \in [Keys -> Entries \cup {None}] /\ remote' \in [Keys -> Entries \cup {None}]
  BY <1>3 DEF Types, Elsewhere
<1> DEFINE lost == async /\ remote[k] = None
           hit == {q \in Procs : call[q].key = k /\ (lost \/ call[q].pc = "again")}
           mm(q) == IF call[q].op = "put" THEN call[q].met \cup {"evict"} ELSE call[q].met
           d(q) == [call[q] EXCEPT !.met = mm(q), !.sure = FALSE]
<1>5. /\ acked' = IF lost THEN acked \ {k} ELSE acked
      /\ call' = [q \in Procs |-> IF q \in hit THEN d(q) ELSE call[q]]
  BY <1>2 DEF Evict
<1>6. ASSUME NEW q \in hit
      PROVE  /\ call'[q] \in CallType /\ InStep(call'[q]) /\ Like(q)
             /\ ~call'[q].sure /\ (call[q].op = "put" => "evict" \in call'[q].met)
  <2>1. call[q] \in CallType /\ InStep(call[q])
    BY DEF Types
  <2>2. mm(q) \in SUBSET Undoers
    BY <2>1 DEF CallType, Undoers
  <2>3. call'[q] = d(q)
    BY <1>5, <1>6
  <2> HIDE DEF mm
  <2>4. /\ d(q) \in CallType /\ d(q).pc = call[q].pc /\ d(q).op = call[q].op
        /\ d(q).key = call[q].key /\ d(q).body = call[q].body /\ d(q).read = call[q].read
        /\ d(q).item = call[q].item /\ d(q).status = call[q].status
        /\ d(q).met = mm(q) /\ d(q).sure = FALSE
    BY <2>1, <2>2 DEF CallType
  <2> HIDE DEF d
  <2> USE DEF mm
  <2>5. Like(q)
    BY <2>3, <2>4 DEF Like
  <2> QED
    BY <2>1, <2>3, <2>4, <2>5, LikeTypes
<1>7. ASSUME NEW q \in Procs, q \notin hit
      PROVE  call'[q] \in CallType /\ InStep(call'[q]) /\ Like(q)
  BY <1>5, <1>7 DEF Like, Types
<1> HIDE DEF d
<1>8. call' \in [Procs -> CallType]
  BY <1>5, <1>6, <1>7
<1>9. Types'
  BY <1>3, <1>4, <1>5, <1>6, <1>7, <1>8 DEF Types
<1>10. \/ /\ async /\ remote[k] = None /\ acked' = acked \ {k}
          /\ \A q \in Procs : call[q].key = k =>
               ~call'[q].sure /\ (call[q].op = "put" => "evict" \in call'[q].met)
       \/ /\ async => remote[k] # None
          /\ UNCHANGED acked
          /\ \A q \in Procs : call[q].key = k /\ call[q].pc = "again" => ~call'[q].sure
  BY <1>5, <1>6
<1> QED
  BY <1>2, <1>3, <1>4, <1>6, <1>7, <1>9, <1>10 DEF Evicts

-----------------------------------------------------------------------------
\* The steps of the system, by what they touch.
IdleStep == UNCHANGED <<async, stores, call, acked, held>>
UploaderStep ==
  \/ Uploader!Start \/ Uploader!StopBegin \/ Uploader!StopStep
  \/ \E i \in Items : \/ Uploader!EnqueueCheck(i) \/ Uploader!EnqueueSend(i)
                      \/ Uploader!RetryWake(i)
  \/ \E w \in Workers : Uploader!Take(w) \/ Uploader!Exit(w)
UploadStep(w) == Uploader!ReadLocal(w) \/ Uploader!PutSucceeds(w) \/ Uploader!PutFails(w)

LEMMA StepCases ==
  ASSUME [Next]_vars
  PROVE  \/ \E p \in Procs : Start(p) \/ CallStep(p) \/ Share(p)
         \/ \E k \in Keys : Spot(k)
         \/ Evict
         \/ \E w \in Workers : WorkerReads(w) \/ WorkerUploads(w)
         \/ Launch \/ Shutdown \/ QueueStep
         \/ Restart
         \/ UNCHANGED vars
BY DEF Next, Step, CallStep, WorkerStep

\* What each of them does to the uploader.
LEMMA UploaderCases ==
  ASSUME Types, [Next]_vars
  PROVE  \/ UNCHANGED uploader
         \/ /\ ~crashed /\ UploaderStep /\ UNCHANGED held
            /\ async' = async /\ (~async => \E i \in Items : \/ Uploader!EnqueueCheck(i)
                                                             \/ Uploader!EnqueueSend(i))
         \/ \E w \in Workers : WorkerReads(w) \/ WorkerUploads(w)
         \/ Restart
<1>1. ASSUME NEW p \in Procs, Start(p) \/ Share(p) PROVE UNCHANGED uploader
  BY <1>1 DEF Start, Begin, Share
<1>2. ASSUME NEW p \in Procs, GetStep(p) \/ HeadLocal(p) \/ HeadRemote(p)
      PROVE  UNCHANGED uploader
  BY <1>2 DEF GetStep, GetLocal, GetRemote, GetBackfill, GetAgain, HeadLocal, HeadRemote
<1>3. ASSUME NEW p \in Procs, DeleteLocal(p) \/ DeleteRemote(p) PROVE UNCHANGED uploader
  BY <1>3 DEF DeleteLocal, DeleteRemote
<1>4. ASSUME NEW p \in Procs, PutLocal(p) \/ PutReread(p) \/ PutUpload(p)
      PROVE  UNCHANGED uploader
  BY <1>4 DEF PutLocal, PutReread, PutUpload
<1>5. ASSUME NEW k \in Keys, Spot(k) PROVE UNCHANGED uploader
  BY <1>5 DEF Spot
<1>6. Evict => UNCHANGED uploader
  BY DEF Evict
<1>7. UNCHANGED vars => UNCHANGED uploader
  BY DEF vars
<1>8. ASSUME Launch \/ Shutdown \/ QueueStep
      PROVE  ~crashed /\ UploaderStep /\ UNCHANGED held /\ async' = async /\ async
  BY <1>8 DEF Launch, Shutdown, QueueStep, Beside, UploaderStep
<1>9. ASSUME NEW p \in Procs, PutEnqueue(p) \/ PutSend(p)
       PROVE  /\ ~crashed /\ UNCHANGED held /\ async' = async
              /\ \E i \in Items : Uploader!EnqueueCheck(i) \/ Uploader!EnqueueSend(i)
  BY <1>9 DEF PutEnqueue, PutSend, At, CallFrame, Types, InStep
<1> QED
  BY StepCases, <1>1, <1>2, <1>3, <1>4, <1>5, <1>6, <1>7, <1>8, <1>9
     DEF CallStep, PutStep, UploaderStep

-----------------------------------------------------------------------------
\* A worker holds an entry exactly while it uploads; without async upload no
\* worker ever runs.
Putting(w) == worker[w] \in Items /\ stage[worker[w]] = "putting"
HeldInv ==
  /\ held \in [Workers -> Entries \cup {None}]
  /\ \A w \in Workers : held[w] # None <=> Putting(w)
  /\ ~async => \A w \in Workers : worker[w] = Exited

\* What workers do, and what everything else leaves to them.
Waiting == {"queued", "taken", "sleeping"}
Flow == \A i \in Items :
  /\ stage[i] \in GaveUp => stage'[i] \in GaveUp
  /\ stage[i] \in Waiting => stage'[i] \in Waiting \cup GaveUp
HoldersKept ==
  /\ UNCHANGED held
  /\ \A w \in Workers : held[w] # None => worker'[w] = worker[w]
  /\ Flow
OthersKept(w, i) ==
  /\ \A v \in Workers : v # w => held'[v] = held[v] /\ worker'[v] = worker[v]
  /\ \A j \in Items : j # i => stage'[j] = stage[j]
Reads(w, i) ==
  /\ worker[w] = i /\ stage[i] = "taken" /\ held[w] = None /\ OthersKept(w, i)
  /\ UNCHANGED <<async, local, remote, victim, call, acked>>
  /\ \/ /\ stage'[i] = "putting" /\ worker'[w] = i
        /\ local[KeyOf[i]] # None /\ held'[w] = local[KeyOf[i]]
     \/ stage'[i] = "missing" /\ worker'[w] = Free /\ held'[w] = None
Uploads(w, i) ==
  /\ worker[w] = i /\ stage[i] = "putting" /\ held[w] # None /\ OthersKept(w, i)
  /\ worker'[w] = Free /\ held'[w] = None
  /\ UNCHANGED <<async, local, victim, call, acked>>
  /\ Elsewhere(KeyOf[i]) /\ remote' \in [Keys -> Entries \cup {None}]
  /\ \/ stage'[i] = "uploaded" /\ remote'[KeyOf[i]] = held[w]
     \/ /\ stage'[i] \in {"sleeping", "gaveUp"}
        /\ remote'[KeyOf[i]] \in {held[w], remote[KeyOf[i]]}

LEMMA RestartInv == HybridAssumption /\ UP!Inv /\ Restart => UP!Inv'
<1> SUFFICES ASSUME HybridAssumption, UP!Inv, Restart PROVE UP!Inv'
  OBVIOUS
<1>1. /\ running' = FALSE /\ closed' = FALSE /\ crashed' = FALSE
      /\ queue' = <<>> /\ stopper' = "idle" /\ attempts' = attempts
      /\ worker' = [w \in Workers |-> Exited]
      /\ stage' = [i \in Items |-> IF stage[i] \in UP!InFlight \cup {"checked"}
                                   THEN "lost" ELSE stage[i]]
  BY DEF Restart, Uploader!InFlight, UP!InFlight
<1>2. /\ stage \in [Items -> UP!Stages] /\ attempts \in [Items -> 0..MaxRetry]
      /\ UP!TriesInv
  BY DEF UP!Inv, UP!TypeOK
<1>3. "lost" \in UP!Stages /\ UP!Handled \subseteq UP!InFlight /\ "lost" \notin UP!InFlight
  BY DEF UP!Stages, UP!Settled, UP!Handled, UP!InFlight
<1>4. \A i \in Items :
        /\ stage'[i] \notin UP!InFlight \cup {"checked"}
        /\ stage'[i] = "lost" \/ stage'[i] = stage[i]
  BY <1>1, <1>3
<1>5. UP!TypeOK'
  <2>1. stage' \in [Items -> UP!Stages]
    BY <1>1, <1>2, <1>3
  <2>2. queue' \in Seq(Items) /\ Len(queue') = 0
    BY <1>1
  <2>3. worker' \in [Workers -> Items \cup {Free, Exited}]
    BY <1>1
  <2> QED
    BY <1>1, <1>2, <2>1, <2>2, <2>3 DEF UP!TypeOK
<1>6. UP!QueueInv' /\ UP!WorkerInv'
  <2>1. Len(queue') = 0
    BY <1>1
  <2>2. \A i \in Items : stage'[i] # "queued" /\ stage'[i] \notin UP!Handled
    BY <1>3, <1>4 DEF UP!InFlight
  <2>3. \A w \in Workers : worker'[w] \notin Items
    BY <1>1, HybridAssumption DEF HybridAssumption
  <2> QED
    BY <2>1, <2>2, <2>3 DEF UP!QueueInv, UP!WorkerInv
<1>7. UP!TriesInv'
  <2>1. \A i \in Items : stage'[i] # "sleeping" /\ stage'[i] \notin UP!InFlight
    BY <1>4 DEF UP!InFlight
  <2> QED
    BY <1>1, <1>2, <1>4, <2>1 DEF UP!TriesInv, UP!TriesRespected
<1>8. UP!StopInv'
  BY <1>1, <1>4 DEF UP!StopInv, UP!NeverStarted
<1> QED
  BY <1>5, <1>6, <1>7, <1>8 DEF UP!Inv

LEMMA ReadsEffect ==
  ASSUME HybridAssumption, UP!Inv, HeldInv, NEW w \in Workers, WorkerReads(w)
  PROVE  \E i \in Items : Reads(w, i)
<1>1. PICK i \in Items : worker[w] = i /\ stage[i] = "taken"
  BY DEF WorkerReads, Uploader!ReadLocal
<1>2. /\ stage \in [Items -> UP!Stages] /\ worker \in [Workers -> Items \cup {Free, Exited}]
      /\ held \in [Workers -> Entries \cup {None}] /\ held[w] = None
  BY <1>1 DEF UP!Inv, UP!TypeOK, HeldInv, Putting
<1>3. UNCHANGED <<async, local, remote, victim, call, acked>>
  BY DEF WorkerReads, stores
<1>4. CASE stage' = [stage EXCEPT ![i] = "putting"] /\ UNCHANGED worker
  <2>1. stage'[i] = "putting" /\ local[KeyOf[i]] # None
        /\ held' = [held EXCEPT ![w] = local[KeyOf[i]]]
    BY <1>1, <1>2, <1>4 DEF WorkerReads
  <2> QED
    BY <1>1, <1>2, <1>3, <1>4, <2>1 DEF Reads, OthersKept
<1>5. CASE stage' = [stage EXCEPT ![i] = "missing"] /\ worker' = [worker EXCEPT ![w] = Free]
  <2>1. stage'[i] = "missing" /\ UNCHANGED held
    BY <1>1, <1>2, <1>5 DEF WorkerReads
  <2> QED
    BY <1>1, <1>2, <1>3, <1>5, <2>1 DEF Reads, OthersKept
<1> QED
  BY <1>1, <1>4, <1>5 DEF WorkerReads, Uploader!ReadLocal, Uploader!Move

LEMMA UploadsEffect ==
  ASSUME HybridAssumption, Types, UP!Inv, HeldInv, NEW w \in Workers, WorkerUploads(w)
  PROVE  \E i \in Items : Uploads(w, i)
<1>1. PICK i \in Items : worker[w] = i /\ stage[i] = "putting"
  BY DEF WorkerUploads, Uploader!PutSucceeds, Uploader!PutFails
<1>2. /\ stage \in [Items -> UP!Stages] /\ worker \in [Workers -> Items \cup {Free, Exited}]
      /\ held \in [Workers -> Entries \cup {None}] /\ held[w] # None /\ held[w] \in Entries
      /\ KeyOf[i] \in Keys
  BY <1>1, HybridAssumption DEF UP!Inv, UP!TypeOK, HeldInv, Putting, HybridAssumption
<1>3. /\ worker' = [worker EXCEPT ![w] = Free] /\ held' = [held EXCEPT ![w] = None]
      /\ UNCHANGED <<async, call, acked>>
  BY DEF WorkerUploads, Uploader!PutSucceeds, Uploader!PutFails
<1>4. PICK s \in {"uploaded", "sleeping", "gaveUp"} :
        /\ stage' = [stage EXCEPT ![i] = s]
        /\ \/ SetRemote(KeyOf[i], held[w])
           \/ s # "uploaded" /\ UNCHANGED stores
  <2>1. CASE Uploader!PutSucceeds(w) /\ SetRemote(KeyOf[i], held[w])
    BY <1>1, <2>1 DEF Uploader!PutSucceeds, Uploader!Move
  <2>2. CASE Uploader!PutFails(w) /\ (SetRemote(KeyOf[i], held[w]) \/ UNCHANGED stores)
    <3>1. \/ stage' = [stage EXCEPT ![i] = "sleeping"]
          \/ stage' = [stage EXCEPT ![i] = "gaveUp"]
      BY <1>1, <2>2 DEF Uploader!PutFails, Uploader!Move
    <3> QED
      BY <2>2, <3>1
  <2> QED
    BY <1>1, <2>1, <2>2 DEF WorkerUploads, WritesObject
<1>5. OthersKept(w, i) /\ stage'[i] = s /\ worker'[w] = Free /\ held'[w] = None
  BY <1>2, <1>3, <1>4 DEF OthersKept
<1>6. CASE SetRemote(KeyOf[i], held[w])
  <2>1. /\ remote'[KeyOf[i]] = held[w] /\ UNCHANGED <<local, victim>>
        /\ Elsewhere(KeyOf[i]) /\ remote' \in [Keys -> Entries \cup {None}]
    BY <1>2, <1>6, SetRemoteEffect DEF SetRemote
  <2> QED
    BY <1>1, <1>2, <1>3, <1>5, <2>1 DEF Uploads
<1>7. CASE s # "uploaded" /\ UNCHANGED stores
  <2>1. UNCHANGED <<local, remote, victim>> /\ Elsewhere(KeyOf[i])
    BY <1>7 DEF stores, Elsewhere
  <2> QED
    BY <1>1, <1>2, <1>3, <1>5, <1>7, <2>1 DEF Uploads, Types
<1> QED
  BY <1>4, <1>6, <1>7

LEMMA UploaderInv ==
  ASSUME HybridAssumption, Types, UP!Inv, [Next]_vars
  PROVE  UP!Inv'
<1>1. CASE UNCHANGED uploader
  <2>1. UP!Inv /\ UNCHANGED UP!vars
    BY <1>1 DEF uploader, UP!vars
  <2> QED
    BY <2>1, UP!NextInv, UploaderFits
<1>2. CASE ~crashed /\ UploaderStep
  BY <1>2, SameSteps, UP!NextInv, UploaderFits DEF UploaderStep
<1>3. ASSUME NEW w \in Workers, WorkerReads(w) \/ WorkerUploads(w)
      PROVE  UP!Inv'
  <2>1. ~crashed /\ UploadStep(w)
    BY <1>3 DEF WorkerReads, WorkerUploads, UploadStep
  <2> QED
    BY <2>1, SameSteps, UP!NextInv, UploaderFits DEF UploadStep
<1>4. CASE Restart
  BY <1>4, RestartInv
<1> QED
  BY <1>1, <1>2, <1>3, <1>4, UploaderCases

\* One lemma for each kind of step: the steps of workers that handle an entry ...
LEMMA ReadsHeld ==
  ASSUME HybridAssumption, UP!Inv, HeldInv, NEW w \in Workers, NEW i \in Items,
         Reads(w, i), UNCHANGED async, held' \in [Workers -> Entries \cup {None}]
  PROVE  HeldInv'
<1>1. \A v \in Workers : v # w /\ worker[v] \in Items => worker[v] # i
  BY DEF UP!Inv, UP!WorkerInv, Reads
<1>2. \A v \in Workers : v # w => /\ worker'[v] = worker[v] /\ held'[v] = held[v]
                                  /\ Putting(v)' <=> Putting(v)
  BY <1>1 DEF Reads, OthersKept, Putting
<1>3. held'[w] # None <=> Putting(w)'
  BY HybridAssumption DEF Reads, Putting, HybridAssumption
<1>4. async /\ async'
  BY HybridAssumption DEF HeldInv, Reads, HybridAssumption
<1>5. \A v \in Workers : held'[v] # None <=> Putting(v)'
  BY <1>2, <1>3 DEF HeldInv
<1> QED
  BY <1>4, <1>5 DEF HeldInv

LEMMA UploadsHeld ==
  ASSUME HybridAssumption, UP!Inv, HeldInv, NEW w \in Workers, NEW i \in Items,
         Uploads(w, i), held' \in [Workers -> Entries \cup {None}]
  PROVE  HeldInv'
<1>1. \A v \in Workers : v # w /\ worker[v] \in Items => worker[v] # i
  BY DEF UP!Inv, UP!WorkerInv, Uploads
<1>2. \A v \in Workers : v # w => /\ worker'[v] = worker[v] /\ held'[v] = held[v]
                                  /\ Putting(v)' <=> Putting(v)
  BY <1>1 DEF Uploads, OthersKept, Putting
<1>3. held'[w] # None <=> Putting(w)'
  BY HybridAssumption DEF Uploads, Putting, HybridAssumption
<1>4. async /\ async'
  BY HybridAssumption DEF HeldInv, Uploads, HybridAssumption
<1>5. \A v \in Workers : held'[v] # None <=> Putting(v)'
  BY <1>2, <1>3 DEF HeldInv
<1> QED
  BY <1>4, <1>5 DEF HeldInv

\* ... and all the others of the uploader, which do not touch one being uploaded.
LEMMA PuttingKept ==
  ASSUME HybridAssumption, UP!Inv, HeldInv, UploaderStep
  PROVE  \A w \in Workers : /\ Putting(w)' <=> Putting(w)
                            /\ Putting(w) => worker'[w] = worker[w]
<1> SUFFICES ASSUME NEW w \in Workers
             PROVE  /\ Putting(w)' <=> Putting(w)
                    /\ Putting(w) => worker'[w] = worker[w]
  OBVIOUS
<1>1. /\ stage \in [Items -> UP!Stages] /\ worker \in [Workers -> Items \cup {Free, Exited}]
      /\ queue \in Seq(Items)
  BY DEF UP!Inv, UP!TypeOK
<1>2. CASE Uploader!Start
  <2>1. ~running /\ stopper = "idle"
    BY <1>2 DEF Uploader!Start
  <2>2. UP!NeverStarted
    BY <2>1 DEF UP!Inv, UP!TypeOK, UP!StopInv, UP!NeverStarted
  <2>3. worker[w] = Exited /\ worker'[w] = Free
    BY <1>2, <2>2 DEF UP!Inv, UP!StopInv, Uploader!Start
  <2> QED
    BY <2>3, HybridAssumption DEF Putting, HybridAssumption
<1>3. CASE Uploader!StopBegin \/ Uploader!StopStep
  <2>1. UNCHANGED <<stage, worker>>
    BY <1>3 DEF Uploader!StopBegin, Uploader!StopStep, Uploader!StopClose, Uploader!StopReturn
  <2> QED
    BY <2>1 DEF Putting
<1>4. ASSUME NEW i \in Items, NEW s \in {"checked", "refused", "panicked", "queued", "dropped"},
             stage[i] # "putting", stage' = [stage EXCEPT ![i] = s], UNCHANGED worker
      PROVE  /\ Putting(w)' <=> Putting(w)
             /\ Putting(w) => worker'[w] = worker[w]
  BY <1>1, <1>4 DEF Putting
<1>5. ASSUME NEW i \in Items, Uploader!EnqueueCheck(i)
      PROVE  /\ Putting(w)' <=> Putting(w)
             /\ Putting(w) => worker'[w] = worker[w]
  <2>1. \/ stage' = [stage EXCEPT ![i] = "checked"]
        \/ stage' = [stage EXCEPT ![i] = "refused"]
    BY <1>5 DEF Uploader!EnqueueCheck, Uploader!Move
  <2>2. stage[i] # "putting" /\ UNCHANGED worker
    BY <1>5 DEF Uploader!EnqueueCheck
  <2> QED
    BY <1>4, <2>1, <2>2
<1>6. ASSUME NEW i \in Items, Uploader!EnqueueSend(i)
      PROVE  /\ Putting(w)' <=> Putting(w)
             /\ Putting(w) => worker'[w] = worker[w]
  BY <1>4, <1>6 DEF Uploader!EnqueueSend, Uploader!Move
<1>7. ASSUME NEW i \in Items, Uploader!RetryWake(i)
      PROVE  /\ Putting(w)' <=> Putting(w)
             /\ Putting(w) => worker'[w] = worker[w]
  <2>1. CASE UNCHANGED <<stage, worker>>
    BY <2>1 DEF Putting
  <2>2. CASE ~UNCHANGED <<stage, worker>>
    BY <1>4, <1>7, <2>2 DEF Uploader!RetryWake, Uploader!Move
  <2> QED
    BY <2>1, <2>2
<1>8. ASSUME NEW v \in Workers, Uploader!Take(v)
      PROVE  /\ Putting(w)' <=> Putting(w)
             /\ Putting(w) => worker'[w] = worker[w]
  <2>1. PICK i \in Items : Head(queue) = i /\ stage[i] = "queued"
    <3>1. queue # <<>>
      BY <1>8 DEF Uploader!Take
    <3>2. 1 \in 1..Len(queue) /\ Head(queue) = queue[1] /\ queue[1] \in Items
      BY <1>1, <3>1
    <3> QED
      BY <3>2 DEF UP!Inv, UP!QueueInv
  <2>2. /\ worker[v] = Free /\ worker' = [worker EXCEPT ![v] = i]
        /\ stage' = [stage EXCEPT ![i] = "taken"]
    BY <1>8, <2>1 DEF Uploader!Take, Uploader!Move
  <2> QED
    BY <1>1, <2>1, <2>2, HybridAssumption DEF Putting, HybridAssumption
<1>9. ASSUME NEW v \in Workers, Uploader!Exit(v)
      PROVE  /\ Putting(w)' <=> Putting(w)
             /\ Putting(w) => worker'[w] = worker[w]
  BY <1>1, <1>9, HybridAssumption DEF Uploader!Exit, Putting, HybridAssumption
<1> QED
  BY <1>2, <1>3, <1>5, <1>6, <1>7, <1>8, <1>9 DEF UploaderStep

LEMMA FlowKept ==
  ASSUME HybridAssumption, UP!Inv, UploaderStep
  PROVE  Flow
<1>1. stage \in [Items -> UP!Stages] /\ queue \in Seq(Items)
  BY DEF UP!Inv, UP!TypeOK
<1>2. ASSUME UNCHANGED stage PROVE Flow
  BY <1>2 DEF Flow
<1>3. ASSUME NEW i \in Items, NEW s, stage' = [stage EXCEPT ![i] = s],
             \/ stage[i] \in {"new", "checked"}
             \/ stage[i] \in Waiting /\ s \in Waiting \cup GaveUp
      PROVE  Flow
  BY <1>1, <1>3 DEF Flow, GaveUp, Waiting
<1>4. CASE Uploader!Start \/ Uploader!StopBegin \/ Uploader!StopStep
  BY <1>2, <1>4 DEF Uploader!Start, Uploader!StopBegin, Uploader!StopStep, Uploader!StopClose,
     Uploader!StopReturn
<1>5. ASSUME NEW i \in Items, Uploader!EnqueueCheck(i) PROVE Flow
  BY <1>3, <1>5 DEF Uploader!EnqueueCheck, Uploader!Move
<1>6. ASSUME NEW i \in Items, Uploader!EnqueueSend(i) PROVE Flow
  BY <1>3, <1>6 DEF Uploader!EnqueueSend, Uploader!Move
<1>7. ASSUME NEW i \in Items, Uploader!RetryWake(i) PROVE Flow
  BY <1>2, <1>3, <1>7 DEF Uploader!RetryWake, Uploader!Move, Waiting, GaveUp
<1>8. ASSUME NEW v \in Workers, Uploader!Take(v) PROVE Flow
  <2>1. queue # <<>>
    BY <1>8 DEF Uploader!Take
  <2>2. 1 \in 1..Len(queue) /\ Head(queue) = queue[1] /\ queue[1] \in Items
    BY <1>1, <2>1
  <2>3. PICK i \in Items : Head(queue) = i /\ stage[i] = "queued"
    BY <2>2 DEF UP!Inv, UP!QueueInv
  <2>4. stage' = [stage EXCEPT ![i] = "taken"]
    BY <1>8, <2>3 DEF Uploader!Take, Uploader!Move
  <2> QED
    BY <1>3, <2>3, <2>4 DEF Waiting
<1>9. ASSUME NEW v \in Workers, Uploader!Exit(v) PROVE Flow
  BY <1>2, <1>9 DEF Uploader!Exit
<1> QED
  BY <1>4, <1>5, <1>6, <1>7, <1>8, <1>9 DEF UploaderStep

LEMMA HeldKept ==
  ASSUME HybridAssumption, UP!Inv, HeldInv, UploaderStep, UNCHANGED <<held, async>>,
         ~async => \E i \in Items : Uploader!EnqueueCheck(i) \/ Uploader!EnqueueSend(i)
  PROVE  HeldInv' /\ HoldersKept
<1>1. ~async => UNCHANGED worker
  BY DEF Uploader!EnqueueCheck, Uploader!EnqueueSend
<1> QED
  BY <1>1, PuttingKept, FlowKept DEF HeldInv, HoldersKept

-----------------------------------------------------------------------------
\* Types, and what relates the calls to the steps they are at.
LEMMA TypesStart == HybridAssumption /\ Init => Types
<1> SUFFICES ASSUME HybridAssumption, Init PROVE Types
  OBVIOUS
<1>1. \A v \in Values : Body(v) \in Entries
  BY DEF Body, Entries
<1>2. remote \in [Keys -> Entries \cup {None}]
  BY <1>1 DEF Init
<1>3. call \in [Procs -> CallType] /\ \A p \in Procs : InStep(call[p])
  BY IdleType DEF Init
<1> QED
  BY <1>2, <1>3 DEF Init, Types

LEMMA MovesTypes ==
  ASSUME Types, NEW p \in Procs, Moves(p)
  PROVE  Types'
<1>1. Frame(p) /\ call[p] \in CallType /\ InStep(call[p])
  BY DEF Moves, Types
<1>2. ASSUME NEW s, Ends(p, s) PROVE call' \in [Procs -> CallType] /\ \A q \in Procs : InStep(call'[q])
  <2>1. InStep([Idle EXCEPT !.status = s])
    BY DEF Idle, InStep
  <2> QED
    BY <1>2, <2>1 DEF Ends, Types
<1>3. ASSUME Keeps(p), InStep(call'[p])
      PROVE  call' \in [Procs -> CallType] /\ \A q \in Procs : InStep(call'[q])
  BY <1>3 DEF Keeps, Types
<1>4. ASSUME call' \in [Procs -> CallType] /\ \A q \in Procs : InStep(call'[q]) PROVE Types'
  BY <1>1, <1>4 DEF Frame, Types
<1>5. CASE PutMoves(p)
  <2>1. /\ Keeps(p) /\ call[p].pc \in {"store", "enqueue", "send", "reread", "upload"}
        /\ call'[p].pc \in {"enqueue", "send", "reread", "upload", "share"}
    BY <1>5 DEF PutMoves, Goes, Shares
  <2>2. /\ call[p].op = "put" /\ call[p].body \in Entries /\ call[p].key \in Keys
        /\ call'[p].op = "put" /\ call'[p].body \in Entries /\ call'[p].key = call[p].key
    BY <1>1, <2>1 DEF InStep, Keeps
  <2>3. call'[p].pc = "upload" => call'[p].read \in Entries
    BY <1>5, <2>2 DEF PutMoves, Goes, Shares, Types
  <2>4. call'[p].pc = "send" => call'[p].item \in Items /\ KeyOf[call'[p].item] = call'[p].key
    BY <1>5, <2>2 DEF PutMoves, Goes, Shares
  <2>5. InStep(call'[p])
    BY <2>1, <2>2, <2>3, <2>4 DEF InStep, Shared
  <2> QED
    BY <1>3, <1>4, <2>1, <2>5
<1>6. CASE GetMoves(p)
  <2>1. CASE \E s \in {"ok", "missing", "failed"} : Ends(p, s)
    BY <1>2, <1>4, <2>1
  <2>2. CASE \A s \in {"ok", "missing", "failed"} : ~Ends(p, s)
    <3>1. /\ Keeps(p) /\ call[p].pc \in {"lookup", "fetch", "backfill"}
          /\ call'[p].pc \in {"fetch", "backfill", "again"}
          /\ call'[p].pc = "backfill" => call'[p].read \in Entries
      BY <1>6, <2>2 DEF GetMoves, Goes, Answers
    <3>2. /\ call[p].op = "get" /\ call[p].key \in Keys
          /\ call'[p].op = "get" /\ call'[p].key = call[p].key
      BY <1>1, <3>1 DEF InStep, Keeps
    <3>3. InStep(call'[p])
      BY <3>1, <3>2 DEF InStep
    <3> QED
      BY <1>3, <1>4, <3>1, <3>3
  <2> QED
    BY <2>1, <2>2
<1>7. CASE HeadMoves(p)
  <2>1. /\ Keeps(p) /\ call[p].pc \in {"probe", "ask"} /\ call'[p].pc \in {"ask", "share"}
    BY <1>7 DEF HeadMoves, Goes, Shares
  <2>2. /\ call[p].op = "head" /\ call[p].key \in Keys
        /\ call'[p].op = "head" /\ call'[p].key = call[p].key
    BY <1>1, <2>1 DEF InStep, Keeps
  <2>3. InStep(call'[p])
    BY <2>1, <2>2 DEF InStep, Shared
  <2> QED
    BY <1>3, <1>4, <2>1, <2>3
<1>8. CASE DeleteMoves(p)
  <2>1. CASE \E s \in {"ok", "failed"} : Ends(p, s)
    BY <1>2, <1>4, <2>1
  <2>2. CASE Goes(p, "drop", "dropRemote")
    <3>1. /\ call[p].op = "delete" /\ call[p].key \in Keys
          /\ call'[p].op = "delete" /\ call'[p].key = call[p].key
      BY <1>1, <2>2 DEF InStep, Keeps, Goes
    <3>2. InStep(call'[p])
      BY <2>2, <3>1 DEF InStep, Goes
    <3> QED
      BY <1>3, <1>4, <2>2, <3>2 DEF Goes
  <2> QED
    BY <1>8, <2>1, <2>2 DEF DeleteMoves, Answers
<1> QED
  BY <1>5, <1>6, <1>7, <1>8 DEF Moves

\* A request begins one of its four kinds of call.
LEMMA StartEffect ==
  ASSUME Types, HybridAssumption, NEW p \in Procs, Start(p)
  PROVE  Types' /\ \E k \in Keys, op \in Ops, b \in Entries \cup {None} : Kind(op, b) /\ Begins(p, op, k, b)
<1>1. PICK k \in Keys :
        \/ \E v \in Values : Begin(p, "put", k, Body(v))
        \/ \E op \in {"get", "head", "delete"} : Begin(p, op, k, None)
  BY DEF Start
<1>2. CASE \E v \in Values : Begin(p, "put", k, Body(v))
  <2>1. PICK v \in Values : Begin(p, "put", k, Body(v))
    BY <1>2
  <2>2. Body(v) \in Entries
    BY DEF Body, Entries
  <2>3. PICK b \in Entries : Begin(p, "put", k, b)
    BY <2>1, <2>2
  <2>4. Kind("put", b) /\ "put" \in Ops
    BY DEF Kind, Ops
  <2>5. Types' /\ Begins(p, "put", k, b)
    BY <2>3, <2>4, BeginEffect
  <2> QED
    BY <2>4, <2>5
<1>3. ASSUME NEW op \in {"get", "head", "delete"}, Begin(p, op, k, None)
      PROVE  Types' /\ \E j \in Keys, o \in Ops, b \in Entries \cup {None} :
                         Kind(o, b) /\ Begins(p, o, j, b)
  <2>1. Kind(op, None) /\ op \in Ops
    BY DEF Kind, Ops
  <2>2. Types' /\ Begins(p, op, k, None)
    BY <1>3, <2>1, BeginEffect
  <2> QED
    BY <2>1, <2>2
<1> QED
  BY <1>1, <1>2, <1>3

LEMMA RestartEffect ==
  ASSUME Types, Restart
  PROVE  /\ Types' /\ UNCHANGED <<async, local, remote, acked>> /\ victim' = None
         /\ \A p \in Procs : call'[p] = Idle
         /\ \A w \in Workers : held'[w] = None
<1>1. call' \in [Procs -> CallType] /\ \A p \in Procs : call'[p] = Idle /\ InStep(call'[p])
  BY IdleType DEF Restart
<1> QED
  BY <1>1 DEF Restart, Types

\* The invariant everything else builds on.
Core == Types /\ UP!Inv /\ HeldInv

LEMMA CoreStarts == HybridAssumption /\ Init => Core
<1> SUFFICES ASSUME HybridAssumption, Init PROVE Core
  OBVIOUS
<1>1. UP!Inv
  BY SameStart, UP!InitInv, UploaderFits DEF Init
<1>2. HeldInv
  BY DEF Init, HeldInv, Uploader!Init, Putting, HybridAssumption
<1> QED
  BY <1>1, <1>2, TypesStart DEF Core

Spots(k) ==
  /\ victim = None /\ victim' = k /\ local[k] # None
  /\ UNCHANGED <<async, local, remote, call, acked, held>>
Restarts ==
  /\ UNCHANGED <<async, local, remote, acked>> /\ victim' = None
  /\ \A p \in Procs : call'[p] = Idle
  /\ \A w \in Workers : held'[w] = None

\* Every step of the system is one of these, and keeps the invariant.
Effects ==
  \/ HoldersKept /\ \E p \in Procs, k \in Keys, op \in Ops, b \in Entries \cup {None} :
                      Kind(op, b) /\ Begins(p, op, k, b)
  \/ HoldersKept /\ \E p \in Procs : CallStep(p) /\ Moves(p)
  \/ HoldersKept /\ \E p \in Procs : Ended(p) /\ p \in Group(p)
  \/ HoldersKept /\ \E k \in Keys : Spots(k)
  \/ HoldersKept /\ \E k \in Keys : Evicts(k)
  \/ \E w \in Workers, i \in Items : Reads(w, i)
  \/ \E w \in Workers, i \in Items : Uploads(w, i)
  \/ HoldersKept /\ IdleStep
  \/ Restart /\ Restarts

LEMMA HeldStep ==
  ASSUME HybridAssumption, Core, [Next]_vars
  PROVE  /\ HeldInv'
         /\ \/ HoldersKept /\ UNCHANGED held
            \/ \E w \in Workers : WorkerReads(w) \/ WorkerUploads(w)
            \/ Restart
<1>1. Types /\ UP!Inv /\ HeldInv
  BY DEF Core
<1>2. CASE UNCHANGED uploader /\ UNCHANGED <<held, async>>
  BY <1>1, <1>2 DEF uploader, HeldInv, Putting, HoldersKept, Flow
<1>3. CASE /\ UploaderStep /\ UNCHANGED <<held, async>>
           /\ ~async => \E i \in Items : Uploader!EnqueueCheck(i) \/ Uploader!EnqueueSend(i)
  BY <1>1, <1>3, HeldKept DEF HoldersKept
<1>4. ASSUME NEW w \in Workers, WorkerReads(w) PROVE HeldInv'
  <2>1. PICK i \in Items : Reads(w, i)
    BY <1>1, <1>4, ReadsEffect
  <2>2. UNCHANGED async /\ held' \in [Workers -> Entries \cup {None}]
    <3>1. KeyOf[i] \in Keys
      BY HybridAssumption DEF HybridAssumption
    <3>2. local[KeyOf[i]] \in Entries \cup {None}
      BY <1>1, <3>1 DEF Types
    <3>3. worker[w] = i
      BY <2>1 DEF Reads
    <3> QED
      BY <1>1, <1>4, <3>2, <3>3 DEF WorkerReads, HeldInv
  <2> QED
    BY <1>1, <2>1, <2>2, ReadsHeld
<1>5. ASSUME NEW w \in Workers, WorkerUploads(w) PROVE HeldInv'
  <2>1. PICK i \in Items : Uploads(w, i)
    BY <1>1, <1>5, UploadsEffect
  <2>2. held' \in [Workers -> Entries \cup {None}]
    BY <1>1, <1>5 DEF WorkerUploads, HeldInv
  <2> QED
    BY <1>1, <2>1, <2>2, UploadsHeld
<1>6. CASE Restart
  BY <1>6, HybridAssumption DEF Restart, HeldInv, Putting, HybridAssumption
<1>7. UNCHANGED uploader =>
        \/ UNCHANGED <<held, async>>
        \/ \E w \in Workers : WorkerReads(w) \/ WorkerUploads(w)
        \/ Restart
  <2>1. \A p \in Procs : CallStep(p) => UNCHANGED <<held, async>>
    BY <1>1, CallMoves DEF Moves, Frame
  <2>2. \A p \in Procs : Start(p) \/ Share(p) => UNCHANGED <<held, async>>
    BY DEF Start, Begin, Share
  <2>3. Launch \/ Shutdown \/ QueueStep => UNCHANGED <<held, async>>
    BY DEF Launch, Shutdown, QueueStep, Beside
  <2>4. UNCHANGED vars => UNCHANGED <<held, async>>
    BY DEF vars
  <2>5. (\E k \in Keys : Spot(k)) \/ Evict => UNCHANGED <<held, async>>
    BY DEF Spot, Evict
  <2> QED
    BY StepCases, <2>1, <2>2, <2>3, <2>4, <2>5
<1> QED
  BY <1>1, <1>2, <1>3, <1>4, <1>5, <1>6, <1>7, UploaderCases

LEMMA NextEffects ==
  ASSUME HybridAssumption, Core, [Next]_vars
  PROVE  Core' /\ Effects
<1>1. Types /\ UP!Inv /\ HeldInv
  BY DEF Core
<1>2. UP!Inv' /\ HeldInv'
  BY <1>1, UploaderInv, HeldStep
<1>3. HoldersKept \/ Restart \/ \E w \in Workers : WorkerReads(w) \/ WorkerUploads(w)
  BY HeldStep
<1>4. ASSUME NEW w \in Workers, WorkerReads(w) PROVE Types' /\ Effects
  <2>1. PICK i \in Items : Reads(w, i)
    BY <1>1, <1>4, ReadsEffect
  <2>2. Types'
    BY <1>1, <2>1 DEF Reads, Types
  <2> QED
    BY <2>1, <2>2 DEF Effects
<1>5. ASSUME NEW w \in Workers, WorkerUploads(w) PROVE Types' /\ Effects
  <2>1. PICK i \in Items : Uploads(w, i)
    BY <1>1, <1>5, UploadsEffect
  <2>2. Types'
    BY <1>1, <2>1 DEF Uploads, Types
  <2> QED
    BY <2>1, <2>2 DEF Effects
<1>6. CASE Restart
  <2>1. Types' /\ Restarts
    BY <1>1, <1>6, RestartEffect DEF Restarts
  <2>2. Effects
    BY <1>6, <2>1 DEF Effects
  <2> QED
    BY <1>2, <2>1, <2>2 DEF Core
<1>7. ASSUME HoldersKept, NEW p \in Procs, Start(p) PROVE Types' /\ Effects
  BY <1>1, <1>7, StartEffect DEF Effects
<1>8. ASSUME HoldersKept, NEW p \in Procs, CallStep(p) PROVE Types' /\ Effects
  BY <1>1, <1>8, CallMoves, MovesTypes DEF Effects
<1>9. ASSUME HoldersKept, NEW p \in Procs, Share(p) PROVE Types' /\ Effects
  BY <1>1, <1>9, ShareEffect DEF Effects
<1>10. ASSUME HoldersKept, NEW k \in Keys, Spot(k) PROVE Types' /\ Effects
  BY <1>1, <1>10, SpotEffect DEF Effects, Spots
<1>11. ASSUME HoldersKept, Evict PROVE Types' /\ Effects
  BY <1>1, <1>11, EvictEffect DEF Effects
<1>12. ASSUME HoldersKept, Launch \/ Shutdown \/ QueueStep \/ UNCHANGED vars
       PROVE  Types' /\ Effects
  <2>1. IdleStep
    BY <1>12 DEF Launch, Shutdown, QueueStep, Beside, IdleStep, vars, stores
  <2>2. Types'
    BY <1>1, <2>1 DEF IdleStep, stores, Types
  <2> QED
    BY <1>12, <2>1, <2>2 DEF Effects
<1> QED
  BY <1>2, <1>3, <1>4, <1>5, <1>6, <1>7, <1>8, <1>9, <1>10, <1>11, <1>12, StepCases DEF Core

\* Requests and workers are where the code can be, and one that is about to
\* write an entry to the other store holds one (hybrid.go:65-139): states
\* Hybrid!TypeOK.
THEOREM HybridTypes == Spec => []TypeOK
<1>1. Init => Core
  BY CoreStarts, HybridAssumption
<1>2. Core /\ [Next]_vars => Core'
  BY NextEffects, HybridAssumption
<1>3. Core => TypeOK
  <2> SUFFICES ASSUME Core PROVE TypeOK
    OBVIOUS
  <2>1. \A p \in Procs : call[p].pc \in {"upload", "backfill"} => call[p].read # None
    BY HybridAssumption DEF Core, Types, InStep, HybridAssumption
  <2>2. \A w \in Workers : held[w] # None <=> \E i \in Items : worker[w] = i /\ stage[i] = "putting"
    BY DEF Core, HeldInv, Putting
  <2>3. Uploader!TypeOK
    BY DEF Core, UP!Inv, UP!TypeOK, Uploader!TypeOK, UP!Stages, Uploader!Stages,
       UP!InFlight, Uploader!InFlight, UP!Settled, Uploader!Settled
  <2> QED
    BY <2>1, <2>2, <2>3 DEF TypeOK, Core, Types, HeldInv
<1> QED
  BY <1>1, <1>2, <1>3, PTL DEF Spec

\* The uploader keeps its promises inside the system too, where the process
\* restarts and workers read a store that changes under them: no item is given
\* up early, an item is in one place, and Stop leaves nothing queued (async_s3.go:68-134).
THEOREM UploaderHolds ==
  Spec => [](Uploader!TriesRespected /\ Uploader!Accounted /\ Uploader!StopEmptiesQueue)
<1>1. Init => Core
  BY CoreStarts, HybridAssumption
<1>2. Core /\ [Next]_vars => Core'
  BY NextEffects, HybridAssumption
<1>3. Core => Uploader!TriesRespected /\ Uploader!Accounted /\ Uploader!StopEmptiesQueue
  <2> SUFFICES ASSUME Core
               PROVE  Uploader!TriesRespected /\ Uploader!Accounted /\ Uploader!StopEmptiesQueue
    OBVIOUS
  <2>1. Uploader!TriesRespected
    BY DEF Core, UP!Inv, UP!TriesInv, UP!TriesRespected, UP!InFlight,
       Uploader!TriesRespected, Uploader!InFlight
  <2>2. UP!Accounted
    BY UP!EachOnce, UploaderFits DEF Core
  <2>3. Uploader!Accounted
    BY <2>2 DEF UP!Accounted, UP!Once, UP!InQueue, UP!HeldBy,
       Uploader!Accounted, Uploader!Once, Uploader!InQueue, Uploader!HeldBy
  <2>4. Uploader!StopEmptiesQueue
    BY DEF Core, UP!Inv, UP!StopInv, Uploader!StopEmptiesQueue
  <2> QED
    BY <2>1, <2>3, <2>4
<1> QED
  BY <1>1, <1>2, <1>3, PTL DEF Spec

-----------------------------------------------------------------------------
\* A call that another has not begun in this step only goes on.
Leads(p) == call[p].pc \notin {"idle", "join"}
After(q) ==
  \/ call'[q].pc = "idle" /\ ~call'[q].sure
  \/ /\ call[q].pc # "idle" /\ call'[q].pc # "idle"
     /\ call'[q].op = call[q].op /\ call'[q].key = call[q].key /\ call'[q].body = call[q].body
     /\ call[q].met \subseteq call'[q].met /\ (call'[q].sure => call[q].sure)
     /\ Leads(q) <=> Leads(q)'

LEMMA LikeAfter ==
  ASSUME NEW q \in Procs, InStep(call[q]), Like(q)
  PROVE  After(q)
BY DEF Like, After, Leads, InStep

LEMMA MovesAfter ==
  ASSUME Types, NEW p \in Procs, Moves(p)
  PROVE  /\ Leads(p) /\ \A q \in Procs : After(q)
         /\ \A q \in Procs : q # p => call'[q] = call[q]
<1> DEFINE goesOn == (Keeps(p) /\ Leads(p)') \/ \E s : Ends(p, s)
<1>1. Leads(p) /\ goesOn
  <2>1. PutMoves(p) => Leads(p) /\ Keeps(p) /\ Leads(p)'
    BY DEF PutMoves, Goes, Shares, Leads
  <2>2. GetMoves(p) => Leads(p) /\ goesOn
    BY DEF GetMoves, Goes, Answers, Leads
  <2>3. HeadMoves(p) => Leads(p) /\ Keeps(p) /\ Leads(p)'
    BY DEF HeadMoves, Goes, Shares, Leads
  <2>4. DeleteMoves(p) => Leads(p) /\ goesOn
    BY DEF DeleteMoves, Goes, Answers, Leads
  <2> QED
    BY <2>1, <2>2, <2>3, <2>4 DEF Moves
<1>2. \A q \in Procs : q # p => call'[q] = call[q]
  BY <1>1 DEF Keeps, Ends
<1>3. \A q \in Procs : q # p => After(q)
  BY <1>2, LikeAfter DEF Types, Like
<1>4. After(p)
  BY <1>1 DEF After, Keeps, Ends, Leads
<1> QED
  BY <1>1, <1>2, <1>3, <1>4

\* Only one PUT and one HEAD of a key is past the group, and every PUT knows
\* the GETs and DELETEs of its key that are under way with it.
OneLeader == \A p, q \in Procs :
  /\ Leads(p) /\ Leads(q)
  /\ call[p].op \in Shared /\ call[q].op = call[p].op /\ call[q].key = call[p].key
  => p = q
Meets(p) == \A q \in Procs :
  /\ call[q].pc # "idle" /\ call[q].key = call[p].key /\ call[q].op \in {"get", "delete"}
  /\ call[p].pc # "idle" /\ call[p].op = "put"
  => call[q].op \in call[p].met
Met == \A p \in Procs : Meets(p)
Calls == Core /\ OneLeader /\ Met

LEMMA AfterKeeps ==
  ASSUME OneLeader, Met, \A q \in Procs : After(q)
  PROVE  OneLeader' /\ Met'
<1>1. OneLeader'
  BY DEF OneLeader, After, Leads
<1>2. Met'
  BY DEF Met, Meets, After
<1> QED
  BY <1>1, <1>2

LEMMA BeginsKeeps ==
  ASSUME Core, OneLeader, Met, NEW p \in Procs, NEW k \in Keys, NEW op \in Ops, NEW b,
         Begins(p, op, k, b)
  PROVE  OneLeader' /\ Met'
<1>1. \A q \in Procs : q # p => After(q)
  BY LikeAfter DEF Core, Types, Begins
<1>2. \A q \in Procs : q # p =>
        /\ call'[q].pc # "idle" => call[q].pc # "idle"
        /\ call'[q].op = call[q].op /\ call'[q].key = call[q].key
        /\ Leads(q)' => Leads(q)
  BY DEF Begins, Like, Leads
<1>3. call'[p].op = op /\ call'[p].key = k /\ p \notin Busy(k)
  BY DEF Begins, Busy
<1>4. OneLeader'
  <2>1. Leads(p)' /\ op \in Shared => Flight(op, k) = {}
    BY DEF Begins, Leads
  <2>2. \A q \in Procs : q # p /\ Leads(p)' /\ op \in Shared /\ Leads(q)' =>
           ~(call'[q].op = op /\ call'[q].key = k)
    BY <1>2, <2>1 DEF Flight, Busy, Leads
  <2> QED
    BY <1>2, <1>3, <2>2 DEF OneLeader
<1>5. ASSUME NEW q \in Procs, NEW r \in Procs,
             call'[r].pc # "idle", call'[r].key = call'[q].key, call'[r].op \in {"get", "delete"},
             call'[q].pc # "idle", call'[q].op = "put"
      PROVE  call'[r].op \in call'[q].met
  <2>1. r # q
    BY <1>5
  <2>2. CASE q = p
    <3>1. r \in Busy(k) /\ call[r].op = call'[r].op /\ call[r].op \in Undoers
      BY <1>2, <1>3, <1>5, <2>1, <2>2 DEF Busy, Undoers
    <3> QED
      BY <1>5, <2>2, <3>1 DEF Begins
  <2>3. CASE r = p
    <3>1. q \in Busy(k) /\ call[q].op = "put" /\ op \in Undoers
      BY <1>2, <1>3, <1>5, <2>1, <2>3 DEF Busy, Undoers
    <3> QED
      BY <1>3, <2>3, <3>1 DEF Begins
  <2>4. CASE q # p /\ r # p
    <3>1. call[r].op \in call[q].met
      BY <1>2, <1>5, <2>4 DEF Met, Meets
    <3>2. call[q].met \subseteq call'[q].met
      BY <2>4 DEF Begins, Like
    <3> QED
      BY <1>2, <2>4, <3>1, <3>2
  <2> QED
    BY <2>2, <2>3, <2>4
<1>6. Met'
  BY <1>5 DEF Met, Meets
<1> QED
  BY <1>4, <1>6

LEMMA CallsStart == HybridAssumption /\ Init => Calls
BY CoreStarts DEF Init, Idle, Calls, OneLeader, Met, Meets, Leads

\* Of all steps, only that of a request that begins does more.
LEMMA OthersAfter ==
  ASSUME Core, Effects
  PROVE  \/ \A q \in Procs : After(q)
         \/ \E p \in Procs, k \in Keys, op \in Ops, b \in Entries \cup {None} :
              Kind(op, b) /\ Begins(p, op, k, b)
<1>1. ASSUME \A q \in Procs : Like(q) PROVE \A q \in Procs : After(q)
  BY <1>1, LikeAfter DEF Core, Types
<1>2. call' = call => \A q \in Procs : Like(q)
  BY DEF Like
<1>3. ASSUME NEW p \in Procs, Ended(p) PROVE \A q \in Procs : After(q)
  <2>1. \A q \in Procs \ Group(p) : Like(q)
    BY <1>3 DEF Ended, Like
  <2> QED
    BY <1>3, <2>1, LikeAfter DEF Ended, Core, Types, After
<1>4. Restarts => \A q \in Procs : After(q)
  BY DEF Restarts, After, Idle
<1>5. ASSUME NEW p \in Procs, Moves(p) PROVE \A q \in Procs : After(q)
  BY <1>5, MovesAfter DEF Core
<1>6. ASSUME NEW k \in Keys, Spots(k) \/ Evicts(k) PROVE \A q \in Procs : Like(q)
  BY <1>2, <1>6 DEF Spots, Evicts
<1>7. ASSUME NEW w \in Workers, NEW i \in Items, Reads(w, i) \/ Uploads(w, i)
      PROVE  \A q \in Procs : Like(q)
  BY <1>2, <1>7 DEF Reads, Uploads
<1>8. IdleStep => \A q \in Procs : Like(q)
  BY <1>2 DEF IdleStep
<1> QED
  BY <1>1, <1>3, <1>4, <1>5, <1>6, <1>7, <1>8 DEF Effects

LEMMA CallsNext ==
  ASSUME HybridAssumption, Calls, [Next]_vars
  PROVE  Calls' /\ Effects
<1>1. Core' /\ Effects
  BY NextEffects DEF Calls
<1>2. OneLeader' /\ Met'
  BY <1>1, OthersAfter, AfterKeeps, BeginsKeeps DEF Calls
<1> QED
  BY <1>1, <1>2 DEF Calls

-----------------------------------------------------------------------------
\* Without async upload.  What a PUT that no GET and no DELETE of its key
\* overlaps has stored stays its body, so that what it uploads is its body too.
Solo(p) ==
  /\ ~async => call[p].pc \notin {"enqueue", "send"}
  /\ ~async /\ call[p].op = "put" /\ call[p].met \cap {"get", "delete"} = {} =>
       /\ call[p].pc \in {"reread", "upload"} => local[call[p].key] \in {call[p].body, None}
       /\ call[p].pc = "upload" => call[p].read = call[p].body
       /\ call[p].pc = "share" /\ call[p].status = "ok" =>
            /\ local[call[p].key] \in {call[p].body, None}
            /\ remote[call[p].key] = call[p].body
SoloInv == Calls /\ \A p \in Procs : Solo(p)

\* A step that leaves the call and its key's entries alone, or evicts the entry.
LEMMA SoloKept ==
  ASSUME NEW p \in Procs, Solo(p), Like(p), UNCHANGED async,
         Leads(p) => /\ remote'[call[p].key] = remote[call[p].key]
                     /\ local'[call[p].key] \in {local[call[p].key], None}
  PROVE  Solo(p)'
BY DEF Solo, Like, Leads

LEMMA SoloOthers ==
  ASSUME Calls, NEW q \in Procs, Moves(q), NEW p \in Procs, p # q, Solo(p)
  PROVE  Solo(p)'
<1>1. /\ Leads(q) /\ call'[p] = call[p] /\ Frame(q) /\ call[p] \in CallType
      /\ InStep(call[p]) /\ InStep(call[q]) /\ Types
  BY MovesAfter DEF Moves, Calls, Core, Types
<1>2. Like(p)
  BY <1>1 DEF Like
<1>3. CASE call[p].key # call[q].key
  <2>1. Leads(p) => call[p].key \in Keys
    BY <1>1 DEF Leads, InStep
  <2> QED
    BY <1>1, <1>2, <1>3, <2>1, SoloKept DEF Frame, Elsewhere
<1>4. CASE call[p].key = call[q].key /\ HeadMoves(q)
  BY <1>1, <1>2, <1>4, SoloKept DEF Frame, HeadMoves, TiersKept, LocalKept, RemoteKept
<1>5. CASE call[p].key = call[q].key /\ PutMoves(q)
  <2>1. call[q].op = "put"
    BY <1>1, <1>5 DEF PutMoves, Goes, Shares, InStep
  <2>2. Leads(p) => call[p].op # "put"
    BY <1>1, <1>5, <2>1 DEF Calls, OneLeader, Shared
  <2> QED
    BY <1>1, <2>2 DEF Solo, Leads, InStep, Frame
<1>6. CASE call[p].key = call[q].key /\ (GetMoves(q) \/ DeleteMoves(q))
  <2>1. call[q].op \in {"get", "delete"}
    BY <1>1, <1>6 DEF GetMoves, DeleteMoves, Goes, Answers, InStep
  <2>2. Leads(p) /\ call[p].op = "put" => call[q].op \in call[p].met
    BY <1>1, <1>6, <2>1 DEF Calls, Met, Meets, Leads
  <2> QED
    BY <1>1, <2>1, <2>2 DEF Solo, Leads, Frame
<1> QED
  BY <1>3, <1>4, <1>5, <1>6 DEF Moves

LEMMA SoloMoves ==
  ASSUME Calls, NEW p \in Procs, Moves(p), Solo(p)
  PROVE  Solo(p)'
<1>1. Frame(p) /\ InStep(call[p])
  BY DEF Moves, Calls, Core, Types
<1>2. ASSUME call'[p].pc \notin {"enqueue", "send", "reread", "upload", "share"}
      PROVE  Solo(p)'
  BY <1>2 DEF Solo
<1>3. CASE GetMoves(p) \/ DeleteMoves(p)
  BY <1>2, <1>3 DEF GetMoves, DeleteMoves, Goes, Answers, Ends
<1>4. CASE HeadMoves(p)
  <2>1. call[p].op = "head" /\ call'[p].op = "head" /\ call'[p].pc \in {"ask", "share"}
    BY <1>1, <1>4 DEF HeadMoves, Goes, Shares, Keeps, InStep
  <2> QED
    BY <2>1 DEF Solo
<1>5. CASE PutMoves(p)
  <2>1. /\ call'[p].op = call[p].op /\ call'[p].key = call[p].key /\ call'[p].body = call[p].body
        /\ call'[p].met = call[p].met /\ call[p].op = "put" /\ async' = async
    BY <1>1, <1>5 DEF PutMoves, Goes, Shares, Keeps, InStep, Frame
  <2>2. CASE async
    BY <2>1, <2>2 DEF Solo
  <2>3. CASE ~async /\ call[p].pc \in {"store", "reread"}
    BY <1>5, <2>1, <2>3 DEF Solo, PutMoves, Goes, Shares, TiersKept, LocalKept, RemoteKept
  <2>4. CASE ~async /\ call[p].pc = "upload"
    BY <1>5, <2>1, <2>4 DEF Solo, PutMoves, Goes, Shares, TiersKept, LocalKept, RemoteKept
  <2>5. CASE ~async /\ call[p].pc \in {"enqueue", "send"}
    BY <2>5 DEF Solo
  <2> QED
    BY <1>5, <2>2, <2>3, <2>4, <2>5 DEF PutMoves, Goes, Shares
<1> QED
  BY <1>3, <1>4, <1>5 DEF Moves

LEMMA SoloNext ==
  ASSUME HybridAssumption, SoloInv, [Next]_vars
  PROVE  SoloInv'
<1>1. Calls /\ Calls' /\ Effects /\ (\A p \in Procs : Solo(p)) /\ Types
  BY CallsNext DEF SoloInv, Calls, Core
<1>2. ASSUME NEW q \in Procs, Moves(q) PROVE \A p \in Procs : Solo(p)'
  BY <1>1, <1>2, SoloOthers, SoloMoves
<1>3. ASSUME \A p \in Procs : Like(p), UNCHANGED <<async, local, remote>>
      PROVE  \A p \in Procs : Solo(p)'
  BY <1>1, <1>3, SoloKept
<1>4. ASSUME NEW q \in Procs, NEW k \in Keys, NEW op \in Ops, NEW b, Begins(q, op, k, b)
      PROVE  \A p \in Procs : Solo(p)'
  <2>1. call'[q].pc \notin {"enqueue", "send", "reread", "upload", "share"}
    BY <1>4, FirstSteps DEF Begins, Ops
  <2>2. Solo(q)'
    BY <2>1 DEF Solo
  <2>3. \A p \in Procs : p # q => Solo(p)'
    BY <1>1, <1>4, SoloKept DEF Begins
  <2> QED
    BY <2>2, <2>3
<1>5. ASSUME NEW q \in Procs, Ended(q) PROVE \A p \in Procs : Solo(p)'
  <2>1. \A p \in Group(q) : Solo(p)'
    BY <1>5 DEF Ended, Solo
  <2>2. \A p \in Procs \ Group(q) : Solo(p)'
    BY <1>1, <1>5, SoloKept DEF Ended, Like
  <2> QED
    BY <2>1, <2>2
<1>6. ASSUME NEW k \in Keys, Evicts(k) PROVE \A p \in Procs : Solo(p)'
  <2>1. \A p \in Procs : Leads(p) => call[p].key \in Keys
    BY <1>1 DEF Types, InStep, Leads
  <2> QED
    BY <1>1, <1>6, <2>1, SoloKept DEF Evicts, Elsewhere
<1>7. ASSUME NEW k \in Keys, Spots(k) PROVE \A p \in Procs : Solo(p)'
  BY <1>3, <1>7 DEF Spots, Like
<1>8. ASSUME NEW w \in Workers, NEW i \in Items, Reads(w, i) PROVE \A p \in Procs : Solo(p)'
  BY <1>3, <1>8 DEF Reads, Like
<1>9. ASSUME NEW w \in Workers, NEW i \in Items, Uploads(w, i) PROVE \A p \in Procs : Solo(p)'
  <2>1. async /\ async'
    BY <1>1, <1>9, HybridAssumption DEF Uploads, Calls, Core, HeldInv, Putting, HybridAssumption
  <2> QED
    BY <2>1 DEF Solo
<1>10. ASSUME IdleStep PROVE \A p \in Procs : Solo(p)'
  BY <1>3, <1>10 DEF IdleStep, stores, Like
<1>11. ASSUME Restarts PROVE \A p \in Procs : Solo(p)'
  BY <1>11, IdleType DEF Restarts, Solo
<1> QED
  BY <1>1, <1>2, <1>4, <1>5, <1>6, <1>7, <1>8, <1>9, <1>10, <1>11 DEF Effects, SoloInv

\* That holds of every PUT that overlaps no GET and no DELETE of its key: when
\* it succeeds without async upload its body is in S3 and, unless it was
\* evicted, in local storage (hybrid.go:79, 104-139): states
\* Hybrid!SoloPutPersists.
THEOREM SoloPutsPersist == Spec => []SoloPutPersists
<1>1. Init => SoloInv
  <2> SUFFICES ASSUME Init PROVE SoloInv
    OBVIOUS
  <2>1. \A p \in Procs : call[p] = Idle
    BY DEF Init
  <2> QED
    BY <2>1, IdleType, CallsStart, HybridAssumption DEF SoloInv, Solo
<1>2. SoloInv /\ [Next]_vars => SoloInv'
  BY SoloNext, HybridAssumption
<1>3. SoloInv => SoloPutPersists
  BY DEF SoloInv, Solo, SoloPutPersists, Succeeds, Persisted, Entry, Object
<1> QED
  BY <1>1, <1>2, <1>3, PTL DEF Spec

-----------------------------------------------------------------------------
\* Only a DELETE, and the cleanup locally, remove an entry of a store.
MayVanish(q, k) == call[q].op = "delete" /\ call[q].key = k

LEMMA MovesGrow ==
  ASSUME HybridAssumption, Types, NEW q \in Procs, Moves(q), NEW k \in Keys, ~MayVanish(q, k)
  PROVE  /\ local[k] # None => local'[k] # None
         /\ remote[k] # None => remote'[k] # None
         /\ local'[k] # None \/ local'[k] = local[k]
<1>1. None \notin Entries
  BY HybridAssumption DEF HybridAssumption
<1>2. Frame(q) /\ InStep(call[q])
  BY DEF Moves, Types
<1>3. CASE call[q].key # k
  BY <1>2, <1>3 DEF Frame, Elsewhere
<1>4. CASE call[q].key = k /\ PutMoves(q)
  <2>1. call[q].pc \in {"store", "enqueue", "send", "reread", "upload"}
    BY <1>4 DEF PutMoves, Goes, Shares
  <2>2. call[q].body \in Entries /\ (call[q].pc = "upload" => call[q].read \in Entries)
    BY <1>2, <2>1 DEF InStep
  <2>3. /\ local'[k] \in {local[k], call[q].body}
        /\ remote'[k] = remote[k] \/ (call[q].pc = "upload" /\ remote'[k] = call[q].read)
    BY <1>4 DEF PutMoves, Goes, Shares, TiersKept, LocalKept, RemoteKept
  <2> QED
    BY <1>1, <2>2, <2>3
<1>5. CASE call[q].key = k /\ GetMoves(q)
  <2>1. call[q].pc = "backfill" => call[q].read \in Entries
    BY <1>2 DEF InStep
  <2>2. /\ remote'[k] = remote[k]
        /\ local'[k] = local[k] \/ (call[q].pc = "backfill" /\ local'[k] = call[q].read)
    BY <1>5 DEF GetMoves, Goes, TiersKept, LocalKept, RemoteKept
  <2> QED
    BY <1>1, <2>1, <2>2
<1>6. CASE call[q].key = k /\ HeadMoves(q)
  BY <1>6 DEF HeadMoves, TiersKept, LocalKept, RemoteKept
<1>7. CASE call[q].key = k /\ DeleteMoves(q)
  BY <1>2, <1>7 DEF DeleteMoves, Goes, Answers, InStep, MayVanish
<1> QED
  BY <1>3, <1>4, <1>5, <1>6, <1>7 DEF Moves

\* An acknowledged key is in one of the stores, in S3 if uploads are not
\* asynchronous; no DELETE of it is under way; and the cleanup is not about to
\* remove an entry of it that is yet to be written.
Safe(k) ==
  /\ local[k] # None \/ remote[k] # None
  /\ ~async => remote[k] # None
  /\ \A q \in Procs : call[q].pc # "idle" /\ call[q].key = k => call[q].op # "delete"
  /\ local[k] = None => victim # k

\* A PUT that no DELETE overlaps has made its key so once it may succeed.
Stored(p) ==
  LET c == call[p] IN
  c.pc \in {"enqueue", "send", "reread", "upload"} \/ (c.pc = "share" /\ c.op = "put" /\ c.status = "ok")
Makes(p) ==
  LET k == call[p].key IN
  Stored(p) /\ "delete" \notin call[p].met =>
    /\ local[k] = None => victim # k
    /\ "evict" \notin call[p].met /\ (async \/ call[p].pc = "share") =>
         local[k] # None \/ remote[k] # None
    /\ ~async /\ call[p].pc = "share" => remote[k] # None

\* A GET or HEAD of a key that is and was acknowledged finds it.
Finds(p) ==
  LET k == call[p].key IN
  call[p].sure =>
    /\ call[p].op \in {"get", "head"} /\ k \in acked
    /\ call[p].pc \in {"fetch", "ask"} => remote[k] # None
    /\ call[p].pc = "again" => local[k] # None
    /\ call[p].pc = "share" => call[p].status # "missing"

FoundInv ==
  /\ SoloInv /\ \A k \in acked : Safe(k)
  /\ \A p \in Procs : Makes(p) /\ Finds(p)

LEMMA FoundMoves ==
  ASSUME HybridAssumption, FoundInv, NEW q \in Procs, Moves(q)
  PROVE  /\ \A k \in acked' : Safe(k)'
         /\ \A p \in Procs : Makes(p)' /\ Finds(p)'
<1>1. /\ Types /\ Frame(q) /\ Leads(q) /\ \A p \in Procs : p # q => call'[p] = call[p]
      /\ \A p \in Procs : After(p)
      /\ \A p \in Procs : call[p] \in CallType /\ InStep(call[p])
  BY MovesAfter DEF FoundInv, SoloInv, Calls, Core, Types, Moves
<1>2. UNCHANGED <<acked, victim, async>> /\ acked \subseteq Keys
  BY <1>1 DEF Frame, Types
<1>3. ASSUME NEW k \in acked PROVE ~MayVanish(q, k)
  BY <1>1, <1>3 DEF FoundInv, Safe, MayVanish, Leads
<1>4. ASSUME NEW k \in acked PROVE Safe(k)'
  <2>1. Safe(k) /\ k \in Keys
    BY <1>2, <1>4 DEF FoundInv
  <2>2. /\ local[k] # None => local'[k] # None
        /\ remote[k] # None => remote'[k] # None
        /\ local'[k] # None \/ local'[k] = local[k]
    BY <1>1, <1>3, <1>4, <2>1, MovesGrow
  <2>3. \A p \in Procs : call'[p].pc # "idle" /\ call'[p].key = k => call'[p].op # "delete"
    BY <1>1, <2>1 DEF Safe, After
  <2> QED
    BY <1>2, <2>1, <2>2, <2>3 DEF Safe
<1>5. ASSUME NEW p \in Procs, p # q PROVE Makes(p)'
  <2>1. CASE ~(Stored(p) /\ "delete" \notin call[p].met)
    BY <1>1, <1>5, <2>1 DEF Makes, Stored
  <2>2. CASE Stored(p) /\ "delete" \notin call[p].met
    <3>1. call[p].key \in Keys /\ call[p].op = "put" /\ call[p].pc # "idle"
      BY <1>1, <2>2 DEF Stored, InStep
    <3>2. ~MayVanish(q, call[p].key)
      BY <1>1, <2>2, <3>1 DEF FoundInv, SoloInv, Calls, Met, Meets, MayVanish, Leads
    <3>3. PICK k \in Keys : k = call[p].key
      BY <3>1
    <3>4. /\ local[k] # None => local'[k] # None
          /\ remote[k] # None => remote'[k] # None
          /\ local'[k] # None \/ local'[k] = local[k]
      BY <1>1, <3>2, <3>3, MovesGrow
    <3>5. Makes(p)
      BY DEF FoundInv
    <3> QED
      BY <1>1, <1>2, <1>5, <3>3, <3>4, <3>5 DEF Makes, Stored
  <2> QED
    BY <2>1, <2>2
<1>6. ASSUME NEW p \in Procs, p # q PROVE Finds(p)'
  <2>1. CASE ~call[p].sure
    BY <1>1, <1>6, <2>1 DEF Finds
  <2>2. CASE call[p].sure
    <3>1. Finds(p) /\ call[p].key \in acked
      BY <2>2 DEF FoundInv, Finds
    <3>2. PICK k \in acked : k = call[p].key
      BY <3>1
    <3>3. /\ local[k] # None => local'[k] # None
          /\ remote[k] # None => remote'[k] # None
      BY <1>1, <1>2, <1>3, <3>2, MovesGrow
    <3> QED
      BY <1>1, <1>2, <1>6, <2>2, <3>1, <3>2, <3>3 DEF Finds
  <2> QED
    BY <2>1, <2>2
<1>7. Makes(q)'
  <2>1. CASE GetMoves(q) \/ DeleteMoves(q)
    <3>1. call'[q].pc \notin {"enqueue", "send", "reread", "upload", "share"}
      BY <2>1 DEF GetMoves, DeleteMoves, Goes, Answers, Ends
    <3> QED
      BY <3>1 DEF Makes, Stored
  <2>2. CASE HeadMoves(q)
    <3>1. call'[q].op = "head" /\ call'[q].pc \in {"ask", "share"}
      BY <1>1, <2>2 DEF HeadMoves, Goes, Shares, Keeps, InStep
    <3> QED
      BY <3>1 DEF Makes, Stored
  <2>3. CASE PutMoves(q)
    <3>1. /\ call'[q].key = call[q].key /\ call'[q].met = call[q].met /\ call'[q].op = "put"
          /\ call[q].pc \in {"store", "enqueue", "send", "reread", "upload"}
      BY <1>1, <2>3 DEF PutMoves, Goes, Shares, Keeps, InStep
    <3>2. PICK k \in Keys : k = call[q].key
      BY <1>1, <3>1 DEF InStep
    <3>3. call[q].body # None /\ (call[q].pc = "upload" => call[q].read # None)
      BY <1>1, <3>1, HybridAssumption DEF InStep, HybridAssumption
    <3>4. Makes(q)
      BY DEF FoundInv
    <3>5. CASE call[q].pc = "store"
      <4>1. Stored(q)' => local'[k] # None /\ call'[q].pc # "share"
        BY <2>3, <3>2, <3>3, <3>5 DEF PutMoves, Goes, Shares, Stored
      <4> QED
        BY <3>1, <3>2, <4>1 DEF Makes
    <3>6. CASE call[q].pc \in {"enqueue", "send", "reread"}
      <4>1. Stored(q) /\ local'[k] = local[k] /\ remote'[k] = remote[k]
        BY <2>3, <3>2, <3>6 DEF PutMoves, Goes, Shares, Stored, TiersKept, LocalKept, RemoteKept
      <4>2. call'[q].pc = "share" /\ call'[q].status = "ok" => call[q].pc = "send"
        BY <2>3, <3>6 DEF PutMoves, Goes, Shares
      <4>3. Stored(q)' /\ call'[q].pc = "share" => async
        <5>1. Stored(q)' /\ call'[q].pc = "share" => call'[q].status = "ok"
          BY DEF Stored
        <5>2. call[q].pc = "send" => async
          BY DEF FoundInv, SoloInv, Solo
        <5> QED
          BY <4>2, <5>1, <5>2
      <4> QED
        BY <1>2, <3>1, <3>2, <3>4, <4>1, <4>3 DEF Makes
    <3>7. CASE call[q].pc = "upload"
      <4>1. Stored(q) /\ local'[k] = local[k]
        BY <2>3, <3>2, <3>7 DEF PutMoves, Goes, Shares, Stored, TiersKept, LocalKept
      <4>2. Stored(q)' => remote'[k] # None
        BY <2>3, <3>2, <3>3, <3>7 DEF PutMoves, Goes, Shares, Stored
      <4> QED
        BY <1>2, <3>1, <3>2, <3>4, <4>1, <4>2 DEF Makes
    <3> QED
      BY <3>1, <3>5, <3>6, <3>7
  <2> QED
    BY <2>1, <2>2, <2>3 DEF Moves
<1>8. Finds(q)'
  <2>1. CASE ~call'[q].sure
    BY <2>1 DEF Finds
  <2>2. CASE call'[q].sure
    <3>1. /\ call[q].sure /\ call'[q].op = call[q].op /\ call'[q].key = call[q].key
          /\ call'[q].pc # "idle" /\ call[q].op \in {"get", "head"}
      BY <1>1, <2>2 DEF After, FoundInv, Finds
    <3>2. Finds(q) /\ Safe(call[q].key) /\ call[q].key \in acked
      BY <3>1 DEF FoundInv, Finds
    <3>3. PICK k \in Keys : k = call[q].key
      BY <1>2, <3>2
    <3>4. CASE GetMoves(q)
      <4>1. \/ Goes(q, "lookup", "fetch") /\ TiersKept(q) /\ local[k] = None
            \/ Goes(q, "fetch", "backfill") /\ TiersKept(q)
            \/ Goes(q, "backfill", "again") /\ local'[k] = call[q].read
        BY <3>1, <3>3, <3>4 DEF GetMoves, Answers, Ends
      <4>2. call[q].pc = "backfill" => call[q].read # None
        BY <1>1, HybridAssumption DEF InStep, HybridAssumption
      <4>3. CASE Goes(q, "lookup", "fetch") /\ TiersKept(q) /\ local[k] = None
        <5>1. remote[k] # None
          BY <3>2, <3>3, <4>3 DEF Safe
        <5>2. call'[q].pc = "fetch" /\ remote'[k] # None
          BY <3>3, <4>3, <5>1 DEF Goes, TiersKept, RemoteKept
        <5> QED
          BY <1>2, <3>1, <3>2, <3>3, <5>1, <5>2 DEF Finds
      <4>4. CASE Goes(q, "fetch", "backfill")
        <5>1. call'[q].pc = "backfill"
          BY <4>4 DEF Goes
        <5> QED
          BY <1>2, <3>1, <3>2, <3>3, <5>1 DEF Finds
      <4>5. CASE Goes(q, "backfill", "again") /\ local'[k] = call[q].read
        <5>1. call'[q].pc = "again" /\ local'[k] # None
          BY <4>2, <4>5 DEF Goes
        <5> QED
          BY <1>2, <3>1, <3>2, <3>3, <5>1 DEF Finds
      <4> QED
        BY <4>1, <4>3, <4>4, <4>5
    <3>5. CASE HeadMoves(q)
      <4>1. remote'[k] = remote[k] /\ call'[q].pc \in {"ask", "share"}
        BY <3>3, <3>5 DEF HeadMoves, Goes, Shares, TiersKept, RemoteKept
      <4>2. call'[q].pc = "ask" => remote[k] # None
        BY <3>2, <3>3, <3>5 DEF HeadMoves, Goes, Shares, Safe
      <4>3. call'[q].pc = "share" => call'[q].status # "missing"
        BY <3>1, <3>2, <3>3, <3>5 DEF HeadMoves, Goes, Shares, Finds
      <4> QED
        BY <1>2, <3>1, <3>2, <3>3, <4>1, <4>2, <4>3 DEF Finds
    <3>6. CASE PutMoves(q) \/ DeleteMoves(q)
      <4>1. call[q].op \in {"put", "delete"}
        BY <1>1, <3>6 DEF PutMoves, DeleteMoves, Goes, Shares, Answers, InStep
      <4> QED
        BY <3>1, <4>1
    <3> QED
      BY <3>4, <3>5, <3>6 DEF Moves
  <2> QED
    BY <2>1, <2>2
<1> QED
  BY <1>2, <1>4, <1>5, <1>6, <1>7, <1>8

\* The steps of the other calls, of the cleanup and of the workers.
LEMMA FoundBegins ==
  ASSUME HybridAssumption, FoundInv, NEW q \in Procs, NEW k \in Keys, NEW op \in Ops,
         NEW b \in Entries \cup {None}, Kind(op, b), Begins(q, op, k, b)
  PROVE  /\ \A j \in acked' : Safe(j)'
         /\ \A p \in Procs : Makes(p)' /\ Finds(p)'
<1>1. /\ \A p \in Procs : call[p] \in CallType /\ InStep(call[p])
      /\ UNCHANGED <<async, local, remote, victim>> /\ None \notin Keys
  BY HybridAssumption DEF FoundInv, SoloInv, Calls, Core, Types, Begins, HybridAssumption
<1>2. ASSUME NEW j \in acked' PROVE Safe(j)'
  <2>1. j \in acked /\ ~(op = "delete" /\ j = k) /\ Safe(j)
    BY <1>2 DEF Begins, FoundInv
  <2>2. \A p \in Procs : call'[p].pc # "idle" /\ call'[p].key = j => call'[p].op # "delete"
    BY <2>1 DEF Begins, Like, Safe
  <2> QED
    BY <1>1, <2>1, <2>2 DEF Safe
<1>3. Makes(q)'
  <2>1. call'[q].pc \notin {"enqueue", "send", "reread", "upload", "share"}
    BY FirstSteps DEF Begins, Ops
  <2> QED
    BY <2>1 DEF Makes, Stored
<1>4. ASSUME NEW p \in Procs, p # q PROVE Makes(p)'
  <2>1. Makes(p) /\ Like(p)
    BY <1>4 DEF FoundInv, Begins
  <2> QED
    BY <1>1, <2>1 DEF Makes, Stored, Like
<1>5. Finds(q)'
  <2>1. call'[q].pc \notin {"fetch", "backfill", "again", "ask", "share"}
    BY FirstSteps DEF Begins, Ops
  <2>2. call'[q].sure => call'[q].op \in {"get", "head"} /\ call'[q].key \in acked'
    BY DEF Begins
  <2> QED
    BY <2>1, <2>2 DEF Finds
<1>6. ASSUME NEW p \in Procs, p # q PROVE Finds(p)'
  <2>1. Finds(p) /\ Like(p)
    BY <1>6 DEF FoundInv, Begins
  <2>2. call'[p].sure => call[p].key \in acked'
    <3>1. SUFFICES ASSUME call'[p].sure, op = "delete", call[p].key = k PROVE FALSE
      BY <2>1 DEF Finds, Like, Begins
    <3>2. call[p].pc # "idle"
      BY <1>1, <2>1, <3>1 DEF Like, InStep
    <3>3. p \in Busy(k)
      BY <3>1, <3>2 DEF Busy
    <3> QED
      BY <3>1, <3>3 DEF Begins
  <2> QED
    BY <1>1, <2>1, <2>2 DEF Finds, Like
<1> QED
  BY <1>2, <1>3, <1>4, <1>5, <1>6

LEMMA FoundEnds ==
  ASSUME HybridAssumption, FoundInv, NEW q \in Procs, Ended(q), q \in Group(q)
  PROVE  /\ \A j \in acked' : Safe(j)'
         /\ \A p \in Procs : Makes(p)' /\ Finds(p)'
<1>1. /\ \A p \in Procs : call[p] \in CallType /\ InStep(call[p])
      /\ UNCHANGED <<async, local, remote, victim>> /\ acked \subseteq acked'
  BY DEF FoundInv, SoloInv, Calls, Core, Types, Ended
<1>2. \A p \in Procs :
        \/ call'[p].pc = "idle" /\ ~call'[p].sure
        \/ call'[p] = call[p]
  BY DEF Ended
<1>3. ASSUME NEW j \in acked' PROVE Safe(j)'
  <2>1. Safe(j)
    <3>1. CASE j \in acked
      BY <3>1 DEF FoundInv
    <3>2. CASE j \notin acked
      <4>1. /\ call[q].key = j /\ call[q].op = "put" /\ call[q].pc = "share"
            /\ call[q].status = "ok" /\ call[q].met \subseteq {"get"}
        BY <1>3, <3>2 DEF Ended
      <4>2. \A p \in Procs : call[p].pc # "idle" /\ call[p].key = j => call[p].op # "delete"
        BY <4>1 DEF FoundInv, SoloInv, Calls, Met, Meets
      <4>3. Stored(q) /\ "delete" \notin call[q].met /\ "evict" \notin call[q].met
        BY <4>1 DEF Stored
      <4>4. Makes(q)
        BY DEF FoundInv
      <4> QED
        BY <4>1, <4>2, <4>3, <4>4 DEF Makes, Safe
    <3> QED
      BY <3>1, <3>2
  <2> QED
    BY <1>1, <1>2, <2>1 DEF Safe
<1>4. ASSUME NEW p \in Procs PROVE Makes(p)' /\ Finds(p)'
  <2>1. Makes(p) /\ Finds(p)
    BY DEF FoundInv
  <2>2. CASE call'[p].pc = "idle" /\ ~call'[p].sure
    BY <2>2 DEF Makes, Finds, Stored
  <2>3. CASE call'[p] = call[p]
    BY <1>1, <2>1, <2>3 DEF Makes, Finds, Stored
  <2> QED
    BY <1>2, <2>2, <2>3
<1> QED
  BY <1>3, <1>4

LEMMA FoundSpots ==
  ASSUME HybridAssumption, FoundInv, NEW k \in Keys, Spots(k)
  PROVE  /\ \A j \in acked' : Safe(j)'
         /\ \A p \in Procs : Makes(p)' /\ Finds(p)'
<1>1. /\ UNCHANGED <<async, local, remote, call, acked>> /\ victim' = k /\ local[k] # None
      /\ \A p \in Procs : InStep(call[p])
  BY DEF Spots, FoundInv, SoloInv, Calls, Core, Types
<1>2. \A j \in acked' : Safe(j)'
  BY <1>1 DEF FoundInv, Safe
<1>3. ASSUME NEW p \in Procs PROVE Makes(p)' /\ Finds(p)'
  <2>1. Makes(p) /\ Finds(p)
    BY DEF FoundInv
  <2>2. Makes(p)'
    BY <1>1, <2>1 DEF Makes, Stored
  <2>3. Finds(p)'
    BY <1>1, <2>1 DEF Finds
  <2> QED
    BY <2>2, <2>3
<1> QED
  BY <1>2, <1>3

LEMMA FoundEvicts ==
  ASSUME HybridAssumption, FoundInv, NEW k \in Keys, Evicts(k)
  PROVE  /\ \A j \in acked' : Safe(j)'
         /\ \A p \in Procs : Makes(p)' /\ Finds(p)'
<1>1. /\ \A p \in Procs : InStep(call[p]) /\ Like(p)
      /\ UNCHANGED <<async, remote>> /\ victim = k /\ victim' = None /\ local'[k] = None
      /\ None \notin Keys /\ acked \subseteq Keys /\ acked' \subseteq acked
      /\ \A j \in Keys : j # k => local'[j] = local[j]
  BY HybridAssumption
     DEF Evicts, Elsewhere, FoundInv, SoloInv, Calls, Core, Types, HybridAssumption
<1>2. ASSUME NEW j \in acked' PROVE Safe(j)'
  <2>1. Safe(j) /\ j \in acked /\ j \in Keys
    BY <1>1, <1>2 DEF FoundInv
  <2>2. j = k => remote[j] # None
    BY <1>2, <2>1 DEF Evicts, Safe
  <2>3. \A p \in Procs : call'[p].pc # "idle" /\ call'[p].key = j => call'[p].op # "delete"
    BY <1>1, <2>1 DEF Safe, Like
  <2> QED
    BY <1>1, <2>1, <2>2, <2>3 DEF Safe
<1>3. ASSUME NEW p \in Procs PROVE Makes(p)'
  <2>1. Makes(p) /\ Like(p) /\ InStep(call[p])
    BY <1>1 DEF FoundInv
  <2>2. CASE ~Stored(p)
    BY <2>1, <2>2 DEF Makes, Stored, Like
  <2>3. CASE Stored(p)
    <3>1. call[p].key \in Keys /\ call[p].op = "put"
      BY <2>1, <2>3 DEF Stored, InStep
    <3>2. CASE call[p].key # k
      BY <1>1, <2>1, <2>3, <3>1, <3>2 DEF Makes, Stored, Like
    <3>3. CASE call[p].key = k
      <4>1. "evict" \in call'[p].met \/ (async => remote[k] # None)
        BY <3>1, <3>3 DEF Evicts
      <4>2. "delete" \notin call'[p].met => "delete" \notin call[p].met
        BY <2>1 DEF Like
      <4>3. /\ call'[p].key = k /\ call'[p].pc = call[p].pc /\ victim' # k
        BY <1>1, <2>1, <3>1, <3>3 DEF Like
      <4> QED
        BY <1>1, <2>1, <2>3, <3>3, <4>1, <4>2, <4>3 DEF Makes
    <3> QED
      BY <3>2, <3>3
  <2> QED
    BY <2>2, <2>3
<1>4. ASSUME NEW p \in Procs PROVE Finds(p)'
  <2>1. Finds(p) /\ Like(p)
    BY <1>1 DEF FoundInv
  <2>2. CASE ~call'[p].sure
    BY <2>2 DEF Finds
  <2>3. CASE call'[p].sure
    <3>1. call[p].sure /\ call[p].key \in acked /\ call[p].key \in Keys
      BY <1>1, <2>1, <2>3 DEF Like, Finds
    <3>2. call[p].key \in acked' /\ ~(call[p].key = k /\ call[p].pc = "again")
      BY <2>3, <3>1 DEF Evicts
    <3> QED
      BY <1>1, <2>1, <3>1, <3>2 DEF Finds, Like
  <2> QED
    BY <2>2, <2>3
<1> QED
  BY <1>2, <1>3, <1>4

LEMMA FoundUploads ==
  ASSUME HybridAssumption, FoundInv, NEW w \in Workers, NEW i \in Items, Uploads(w, i)
  PROVE  /\ \A j \in acked' : Safe(j)'
         /\ \A p \in Procs : Makes(p)' /\ Finds(p)'
<1>1. /\ UNCHANGED <<async, local, victim, call, acked>> /\ acked \subseteq Keys
      /\ \A p \in Procs : InStep(call[p]) /\ call[p] \in CallType
  BY DEF Uploads, FoundInv, SoloInv, Calls, Core, Types
<1>2. \A j \in Keys : remote[j] # None => remote'[j] # None
  BY DEF Uploads, Elsewhere
<1>3. \A j \in acked' : Safe(j)'
  BY <1>1, <1>2 DEF FoundInv, Safe
<1>4. ASSUME NEW p \in Procs PROVE Makes(p)' /\ Finds(p)'
  <2>1. Makes(p) /\ Finds(p) /\ (call[p].pc # "idle" => call[p].key \in Keys)
    BY <1>1 DEF FoundInv, InStep
  <2>2. Makes(p)'
    BY <1>1, <1>2, <2>1 DEF Makes, Stored
  <2>3. Finds(p)'
    BY <1>1, <1>2, <2>1 DEF Finds
  <2> QED
    BY <2>2, <2>3
<1> QED
  BY <1>3, <1>4

LEMMA FoundStutters ==
  ASSUME FoundInv, UNCHANGED <<async, local, remote, victim, call, acked>>
  PROVE  /\ \A j \in acked' : Safe(j)'
         /\ \A p \in Procs : Makes(p)' /\ Finds(p)'
<1>1. \A j \in acked' : Safe(j)'
  BY DEF FoundInv, Safe
<1>2. ASSUME NEW p \in Procs PROVE Makes(p)' /\ Finds(p)'
  BY DEF FoundInv, Makes, Finds, Stored
<1> QED
  BY <1>1, <1>2

LEMMA FoundNext ==
  ASSUME HybridAssumption, FoundInv, [Next]_vars
  PROVE  FoundInv' /\ Effects
<1>1. SoloInv' /\ Effects /\ SoloInv
  BY SoloNext, CallsNext DEF FoundInv, SoloInv
<1>2. SUFFICES /\ \A j \in acked' : Safe(j)'
               /\ \A p \in Procs : Makes(p)' /\ Finds(p)'
  BY <1>1 DEF FoundInv
<1>3. CASE Restarts
  <2>1. /\ UNCHANGED <<async, local, remote, acked>> /\ victim' = None
        /\ \A p \in Procs : call'[p].pc = "idle" /\ ~call'[p].sure
    BY <1>3 DEF Restarts, Idle
  <2>2. None \notin Keys /\ acked \subseteq Keys
    BY <1>1, HybridAssumption DEF SoloInv, Calls, Core, Types, HybridAssumption
  <2>3. \A j \in acked' : Safe(j)'
    BY <2>1, <2>2 DEF FoundInv, Safe
  <2> QED
    BY <2>1, <2>3 DEF Makes, Stored, Finds
<1>4. CASE IdleStep
  BY <1>4, FoundStutters DEF IdleStep, stores
<1>5. ASSUME NEW w \in Workers, NEW i \in Items, Reads(w, i)
      PROVE  /\ \A j \in acked' : Safe(j)'
             /\ \A p \in Procs : Makes(p)' /\ Finds(p)'
  BY <1>5, FoundStutters DEF Reads
<1> QED
  BY <1>1, <1>3, <1>4, <1>5, FoundMoves, FoundBegins, FoundEnds, FoundSpots, FoundEvicts,
     FoundUploads DEF Effects

\* No GET or HEAD that is sure to find its key answers that it is missing.
FindsStep(p) ==
  call[p].sure /\ call[p].pc # "join" /\ call'[p].pc = "idle" => call'[p].status # "missing"

LEMMA FoundAnswers ==
  ASSUME HybridAssumption, FoundInv, Effects, NEW p \in Procs
  PROVE  FindsStep(p)
<1> SUFFICES ASSUME call[p].sure, call[p].pc # "join", call'[p].pc = "idle"
             PROVE  call'[p].status # "missing"
  BY DEF FindsStep
<1>1. /\ Types /\ InStep(call[p]) /\ Finds(p) /\ call[p].pc # "idle" /\ Leads(p)
  BY DEF FoundInv, SoloInv, Calls, Core, Types, InStep, Leads
<1>2. call'[p] # call[p] /\ ~Like(p)
  BY <1>1 DEF Like
<1>3. CASE Restarts
  BY <1>3, IdleType DEF Restarts
<1>4. ASSUME NEW q \in Procs, Moves(q) PROVE call'[p].status # "missing"
  <2>1. p = q
    BY <1>1, <1>2, <1>4, MovesAfter
  <2>2. CASE GetMoves(p)
    <3>1. \/ \E s \in {"ok", "failed"} : Ends(p, s)
          \/ call[p].pc = "fetch" /\ remote[call[p].key] = None
          \/ call[p].pc = "again" /\ local[call[p].key] = None
      BY <2>2 DEF GetMoves, Goes, Answers
    <3> QED
      BY <1>1, <3>1 DEF Ends, Finds
  <2>3. CASE DeleteMoves(p) \/ PutMoves(p) \/ HeadMoves(p)
    BY <2>3 DEF DeleteMoves, PutMoves, HeadMoves, Goes, Shares, Answers, Ends
  <2> QED
    BY <1>4, <2>1, <2>2, <2>3 DEF Moves
<1>5. ASSUME NEW q \in Procs, Ended(q), q \in Group(q) PROVE call'[p].status # "missing"
  <2>1. p \in Group(q)
    BY <1>2, <1>5 DEF Ended
  <2>2. call[p].op = call[q].op /\ call[p].key = call[q].key
    BY <2>1 DEF Group, Flight, Busy
  <2>3. call[p].op \in Shared
    <3>1. call[q].pc = "share" /\ InStep(call[q])
      BY <1>1, <1>5 DEF Ended, Types
    <3> QED
      BY <2>2, <3>1 DEF InStep
  <2>4. p = q
    BY <1>1, <1>5, <2>2, <2>3 DEF Ended, Leads, FoundInv, SoloInv, Calls, OneLeader
  <2> QED
    BY <1>1, <1>5, <2>1, <2>4 DEF Ended, Finds
<1>6. ASSUME NEW q \in Procs, NEW k \in Keys, NEW op \in Ops, NEW b, Begins(q, op, k, b)
      PROVE  FALSE
  BY <1>1, <1>2, <1>6 DEF Begins
<1>7. ASSUME NEW k \in Keys, Spots(k) \/ Evicts(k) PROVE FALSE
  BY <1>2, <1>7 DEF Spots, Evicts
<1>8. ASSUME NEW w \in Workers, NEW i \in Items, Reads(w, i) \/ Uploads(w, i) PROVE FALSE
  BY <1>2, <1>8 DEF Reads, Uploads
<1>9. ~IdleStep
  BY <1>2 DEF IdleStep
<1> QED
  BY <1>3, <1>4, <1>5, <1>6, <1>7, <1>8, <1>9 DEF Effects

LEMMA FoundStart == HybridAssumption /\ Init => FoundInv
<1> SUFFICES ASSUME HybridAssumption, Init PROVE FoundInv
  OBVIOUS
<1>1. (\A p \in Procs : call[p] = Idle) /\ acked = {} /\ Calls
  BY CallsStart DEF Init
<1>2. Idle.pc = "idle" /\ ~Idle.sure
  BY DEF Idle
<1>3. \A p \in Procs : Solo(p) /\ Makes(p) /\ Finds(p)
  BY <1>1, <1>2 DEF Solo, Makes, Stored, Finds
<1> QED
  BY <1>1, <1>3 DEF FoundInv, SoloInv

\* Once a PUT was acknowledged every GET and HEAD of its key that begins later
\* finds it until it is deleted, through evictions, restarts, shutdowns and
\* failures of S3; the exceptions are those of the property
\* (hybrid.go:53-123): states Hybrid!AckedNeverMissing.
THEOREM AckedAreFound == Spec => AckedNeverMissing
<1>1. Init => FoundInv
  BY FoundStart, HybridAssumption
<1>2. FoundInv /\ [Next]_vars => FoundInv'
  BY FoundNext, HybridAssumption
<1>3. FoundInv /\ [Next]_vars =>
        \A p \in Procs : call[p].sure /\ call[p].pc # "join" /\ call'[p].pc = "idle" =>
          call'[p].status # "missing"
  BY FoundNext, FoundAnswers, HybridAssumption DEF FindsStep
<1> QED
  BY <1>1, <1>2, <1>3, PTL DEF Spec, AckedNeverMissing

-----------------------------------------------------------------------------
\* Hybrid observed over time: the observation takes no part in the steps.
LEMMA TiersSteps ==
  ASSUME [TiersNext]_<<vars, history>>
  PROVE  [Next]_vars /\ (Watch \/ UNCHANGED <<vars, history>>)
BY DEF TiersNext

\* Nothing is left of a key that is gone, and nobody is about to bring it back.
Gone(k) ==
  /\ local[k] = None /\ remote[k] = None
  /\ \A q \in Procs : call[q].pc # "idle" /\ call[q].key = k =>
       call[q].op # "put" /\ call[q].pc # "backfill"
  /\ \A w \in Workers : held[w] # None => KeyOf[worker[w]] # k

\* A DELETE that is alone has left nothing locally, unless that failed.
Lone(p) ==
  call[p].pc = "dropRemote" /\ call[p].status # "failed" => local[call[p].key] = None

GoneInv ==
  /\ Calls /\ lone \subseteq Procs /\ gone \subseteq Keys
  /\ \A p \in lone : Alone(p) /\ Lone(p)
  /\ \A k \in gone : Gone(k)

LEMMA GoneStays ==
  ASSUME HybridAssumption, Calls, Effects, NEW k \in Keys, Gone(k),
         \A q \in Procs : call'[q].pc # "idle" /\ call'[q].key = k => call'[q].op # "put"
  PROVE  Gone(k)'
<1>1. /\ Types /\ HeldInv /\ None \notin Entries
      /\ \A q \in Procs : call[q] \in CallType /\ InStep(call[q])
  BY HybridAssumption DEF Calls, Core, Types, HybridAssumption
<1> DEFINE fills == \A q \in Procs : call'[q].pc # "idle" /\ call'[q].key = k => call'[q].pc # "backfill"
           empty == local'[k] = None /\ remote'[k] = None
           holds == \A w \in Workers : held'[w] # None => KeyOf[worker'[w]] # k
<1>2. SUFFICES fills /\ empty /\ holds
  BY DEF Gone
<1>3. HoldersKept => holds
  BY DEF HoldersKept, Gone
<1>4. ASSUME \A q \in Procs : \/ call'[q].pc = "idle"
                              \/ call'[q].pc = call[q].pc /\ call'[q].key = call[q].key
      PROVE  fills
  BY <1>4 DEF Gone
<1>5. call' = call => fills
  BY <1>4
<1>6. UNCHANGED <<local, remote>> => empty
  BY DEF Gone
<1>7. ASSUME NEW p \in Procs, NEW j \in Keys, NEW op \in Ops, NEW b, Begins(p, op, j, b)
      PROVE  fills /\ empty
  <2>1. call'[p].pc # "backfill"
    BY <1>7, FirstSteps DEF Begins, Ops
  <2>2. \A q \in Procs : q # p => call'[q].pc = call[q].pc /\ call'[q].key = call[q].key
    BY <1>7 DEF Begins, Like
  <2>3. fills
    BY <2>1, <2>2 DEF Gone
  <2> QED
    BY <1>6, <1>7, <2>3 DEF Begins
<1>8. ASSUME NEW p \in Procs, Moves(p) PROVE fills /\ empty
  <2>1. /\ Leads(p) /\ After(p) /\ Frame(p) /\ \A q \in Procs : q # p => call'[q] = call[q]
    BY <1>1, <1>8, MovesAfter DEF Moves
  <2>2. CASE call[p].key # k
    <3>1. empty
      BY <2>1, <2>2 DEF Frame, Elsewhere, Gone
    <3>2. call'[p].pc = "idle" \/ call'[p].key # k
      BY <2>1, <2>2 DEF After
    <3> QED
      BY <2>1, <3>1, <3>2 DEF Gone
  <2>3. CASE call[p].key = k
    <3>1. call[p].op # "put" /\ call[p].pc # "backfill"
      BY <2>1, <2>3 DEF Gone, Leads
    <3>2. ~PutMoves(p)
      BY <1>1, <3>1 DEF PutMoves, Goes, Shares, InStep
    <3>3. CASE GetMoves(p)
      <4>1. empty
        BY <2>3, <3>1, <3>3 DEF GetMoves, Goes, TiersKept, LocalKept, RemoteKept, Gone
      <4>2. call'[p].pc # "backfill"
        BY <2>3, <3>1, <3>3 DEF GetMoves, Goes, Answers, Ends, Gone
      <4> QED
        BY <2>1, <4>1, <4>2 DEF Gone
    <3>4. CASE HeadMoves(p)
      <4>1. empty
        BY <2>3, <3>4 DEF HeadMoves, TiersKept, LocalKept, RemoteKept, Gone
      <4>2. call'[p].pc # "backfill"
        BY <3>4 DEF HeadMoves, Goes, Shares
      <4> QED
        BY <2>1, <4>1, <4>2 DEF Gone
    <3>5. CASE DeleteMoves(p)
      <4>1. empty
        BY <2>3, <3>5 DEF DeleteMoves, TiersKept, LocalKept, RemoteKept, Gone
      <4>2. call'[p].pc # "backfill"
        BY <3>5 DEF DeleteMoves, Goes, Answers, Ends
      <4> QED
        BY <2>1, <4>1, <4>2 DEF Gone
    <3> QED
      BY <1>8, <3>2, <3>3, <3>4, <3>5 DEF Moves
  <2> QED
    BY <2>2, <2>3
<1>9. ASSUME NEW p \in Procs, Ended(p) PROVE fills /\ empty
  <2>1. fills
    BY <1>4, <1>9 DEF Ended
  <2> QED
    BY <1>6, <1>9, <2>1 DEF Ended
<1>10. ASSUME NEW j \in Keys, Spots(j) PROVE fills /\ empty
  BY <1>5, <1>6, <1>10 DEF Spots
<1>11. ASSUME NEW j \in Keys, Evicts(j) PROVE fills /\ empty
  <2>1. fills
    BY <1>4, <1>11 DEF Evicts, Like
  <2>2. empty
    BY <1>11 DEF Evicts, Elsewhere, Gone
  <2> QED
    BY <2>1, <2>2
<1>12. ASSUME NEW w \in Workers, NEW i \in Items, Reads(w, i) PROVE fills /\ empty /\ holds
  <2>1. fills /\ empty
    BY <1>5, <1>6, <1>12 DEF Reads
  <2>2. held'[w] # None => KeyOf[worker'[w]] # k
    BY <1>12 DEF Reads, Gone
  <2> QED
    BY <1>12, <2>1, <2>2 DEF Reads, OthersKept, Gone
<1>13. ASSUME NEW w \in Workers, NEW i \in Items, Uploads(w, i) PROVE fills /\ empty /\ holds
  <2>1. KeyOf[i] # k
    BY <1>13 DEF Uploads, Gone
  <2>2. fills /\ empty
    BY <1>5, <1>13, <2>1 DEF Uploads, Elsewhere, Gone
  <2>3. holds
    BY <1>13 DEF Uploads, OthersKept, Gone
  <2> QED
    BY <2>2, <2>3
<1>14. ASSUME IdleStep PROVE fills /\ empty
  BY <1>5, <1>6, <1>14 DEF IdleStep, stores
<1>15. CASE Restarts
  BY <1>4, <1>6, <1>15, IdleType DEF Restarts
<1> QED
  BY <1>3, <1>7, <1>8, <1>9, <1>10, <1>11, <1>12, <1>13, <1>14, <1>15 DEF Effects

\* A DELETE that was alone removes its key for good.
LEMMA GoneBegins ==
  ASSUME HybridAssumption, GoneInv, Effects, NEW p \in lone, NEW k \in Keys,
         Leaves(p, k, "dropRemote"), call'[p].status = "ok"
  PROVE  Gone(k)'
<1>1. /\ Types /\ p \in Procs /\ call[p].key = k /\ call[p].pc = "dropRemote"
      /\ call'[p].pc # "dropRemote" /\ Alone(p) /\ Lone(p)
      /\ \A q \in Procs : call[q] \in CallType /\ InStep(call[q])
  BY DEF GoneInv, Calls, Core, Types, Leaves
<1>2. ~Like(p)
  BY <1>1 DEF Like
<1>3. Moves(p) /\ HoldersKept
  <2>1. ~\E j \in Keys : Spots(j) \/ Evicts(j)
    BY <1>1, <1>2 DEF Spots, Evicts, Like
  <2>2. ~\E w \in Workers, i \in Items : Reads(w, i) \/ Uploads(w, i)
    BY <1>1 DEF Reads, Uploads
  <2>3. ~\E q \in Procs, j \in Keys, op \in Ops, b \in Entries \cup {None} : Begins(q, op, j, b)
    BY <1>1, <1>2 DEF Begins
  <2>4. ~\E q \in Procs : Ended(q) /\ q \in Group(q)
    <3>1. SUFFICES ASSUME NEW q \in Procs, Ended(q), q \in Group(q) PROVE FALSE
      OBVIOUS
    <3>2. p \in Group(q) /\ call[q].pc = "share"
      BY <1>1, <3>1 DEF Ended
    <3>3. call[p].op = call[q].op
      BY <3>2 DEF Group, Flight, Busy
    <3> QED
      BY <1>1, <3>2, <3>3 DEF InStep, Shared
  <2>5. ~IdleStep
    BY <1>1 DEF IdleStep
  <2>6. ~Restarts
    BY <1>1, IdleType DEF Restarts
  <2>7. \A q \in Procs : Moves(q) => q = p
    BY <1>1, MovesAfter
  <2> QED
    BY <2>1, <2>2, <2>3, <2>4, <2>5, <2>6, <2>7 DEF Effects
<1>4. DeleteMoves(p)
  BY <1>1, <1>3 DEF Moves, PutMoves, GetMoves, HeadMoves, Goes, Shares, Answers
<1>5. /\ call[p].status # "failed" /\ local'[k] = local[k] /\ remote'[k] = None
      /\ call'[p].pc = "idle"
  BY <1>1, <1>4 DEF DeleteMoves, Goes, Answers, Ends, LocalKept
<1>6. local'[k] = None
  BY <1>1, <1>5 DEF Lone
<1>7. \A q \in Procs : q # p /\ call'[q].pc # "idle" /\ call'[q].key = k =>
        call'[q].op # "put" /\ call'[q].pc # "backfill"
  <2>1. \A q \in Procs : q # p => call'[q] = call[q]
    BY <1>1, <1>3, MovesAfter
  <2>2. \A q \in Procs : q # p /\ call[q].pc # "idle" /\ call[q].key = k =>
          call[q].op \notin {"put", "get"}
    BY <1>1 DEF Alone, Busy
  <2> QED
    BY <1>1, <2>1, <2>2 DEF InStep
<1>8. \A w \in Workers : held'[w] # None => KeyOf[worker'[w]] # k
  BY <1>1, <1>3 DEF Alone, Uploading, HoldersKept
<1> QED
  BY <1>5, <1>6, <1>7, <1>8 DEF Gone

LEMMA LoneStays ==
  ASSUME HybridAssumption, GoneInv, Effects, Types', NEW p \in Procs,
         p \in lone \/ call[p].pc = "idle", Alone(p)'
  PROVE  Lone(p)'
<1>1. /\ Types /\ None \notin Entries
      /\ \A q \in Procs : call[q] \in CallType /\ InStep(call[q]) /\ InStep(call'[q])
  BY HybridAssumption DEF GoneInv, Calls, Core, Types, HybridAssumption
<1>2. SUFFICES ASSUME call'[p].pc = "dropRemote", call'[p].status # "failed"
               PROVE  local'[call'[p].key] = None
  BY DEF Lone
<1>3. ASSUME Like(p), call[p].key \in Keys => local'[call[p].key] \in {local[call[p].key], None}
      PROVE  local'[call'[p].key] = None
  <2>1. p \in lone /\ call[p].pc = "dropRemote" /\ call[p].status # "failed" /\ call'[p].key = call[p].key
    BY <1>2, <1>3 DEF Like
  <2>2. call[p].key \in Keys /\ Lone(p)
    BY <1>1, <2>1 DEF InStep, GoneInv
  <2> QED
    BY <1>3, <2>1, <2>2 DEF Lone
<1>4. ASSUME NEW q \in Procs, Moves(q) PROVE local'[call'[p].key] = None
  <2>1. /\ Leads(q) /\ Frame(q) /\ \A r \in Procs : r # q => call'[r] = call[r]
    BY <1>1, <1>4, MovesAfter DEF Moves
  <2>2. CASE p = q
    <3>1. DeleteMoves(p) /\ Keeps(p) /\ local'[call[p].key] = None
      BY <1>2, <1>4, <2>2
         DEF Moves, PutMoves, GetMoves, HeadMoves, DeleteMoves, Goes, Shares, Answers, Ends
    <3> QED
      BY <3>1 DEF Keeps
  <2>3. CASE p # q
    <3>1. Like(p) /\ p \in lone
      BY <1>2, <2>1, <2>3 DEF Like
    <3>2. CASE call[q].key # call[p].key
      BY <1>3, <2>1, <3>1, <3>2 DEF Frame, Elsewhere
    <3>3. CASE call[q].key = call[p].key
      <4>1. call[q].op \notin {"put", "get"}
        BY <2>1, <2>3, <3>1, <3>3 DEF GoneInv, Alone, Busy, Leads
      <4>2. ~PutMoves(q) /\ ~GetMoves(q)
        BY <1>1, <4>1 DEF PutMoves, GetMoves, Goes, Shares, Answers, InStep
      <4>3. local'[call[q].key] \in {local[call[q].key], None}
        BY <1>4, <4>2 DEF Moves, HeadMoves, DeleteMoves, TiersKept, LocalKept
      <4> QED
        BY <1>3, <3>1, <3>3, <4>3
    <3> QED
      BY <3>2, <3>3
  <2> QED
    BY <2>2, <2>3
<1>5. ASSUME NEW q \in Procs, NEW k \in Keys, NEW op \in Ops, NEW b, Begins(q, op, k, b)
      PROVE  local'[call'[p].key] = None
  <2>1. q # p
    BY <1>2, <1>5, FirstSteps DEF Begins, Ops
  <2> QED
    BY <1>3, <1>5, <2>1 DEF Begins
<1>6. ASSUME NEW q \in Procs, Ended(q) PROVE local'[call'[p].key] = None
  <2>1. call'[p] = call[p] /\ local' = local
    BY <1>2, <1>6 DEF Ended
  <2> QED
    BY <1>3, <2>1 DEF Like
<1>7. ASSUME NEW k \in Keys, Evicts(k) PROVE local'[call'[p].key] = None
  BY <1>3, <1>7 DEF Evicts, Elsewhere
<1>8. ASSUME call' = call, local' = local PROVE local'[call'[p].key] = None
  BY <1>3, <1>8 DEF Like
<1>9. CASE Restarts
  BY <1>2, <1>9, IdleType DEF Restarts
<1> QED
  BY <1>4, <1>5, <1>6, <1>7, <1>8, <1>9 DEF Effects, Spots, Reads, Uploads, IdleStep, stores

LEMMA GoneNext ==
  ASSUME HybridAssumption, GoneInv, [TiersNext]_<<vars, history>>
  PROVE  GoneInv'
<1>1. [Next]_vars /\ (Watch \/ UNCHANGED <<vars, history>>)
  BY TiersSteps
<1>2. Calls /\ Calls' /\ Effects /\ Types'
  BY <1>1, CallsNext DEF GoneInv, Calls, Core
<1>3. CASE Watch
  <2>1. lone' \subseteq Procs /\ gone' \subseteq Keys
    BY <1>3 DEF Watch
  <2>2. ASSUME NEW p \in lone' PROVE Alone(p)' /\ Lone(p)'
    <3>1. p \in Procs /\ Alone(p)' /\ (p \in lone \/ call[p].pc = "idle")
      BY <1>3, <2>2 DEF Watch
    <3> QED
      BY <1>2, <3>1, LoneStays
  <2>3. ASSUME NEW k \in gone' PROVE Gone(k)'
    <3>1. CASE k \in gone /\ Flight("put", k)' = {}
      <4>1. \A q \in Procs : call'[q].pc # "idle" /\ call'[q].key = k => call'[q].op # "put"
        BY <3>1 DEF Flight, Busy
      <4> QED
        BY <1>2, <3>1, <4>1, GoneStays DEF GoneInv
    <3>2. CASE \E p \in lone : Leaves(p, k, "dropRemote") /\ call'[p].status = "ok"
      BY <1>2, <2>1, <3>2, GoneBegins
    <3> QED
      BY <1>3, <2>3, <3>1, <3>2 DEF Watch
  <2> QED
    BY <1>2, <2>1, <2>2, <2>3 DEF GoneInv
<1>4. CASE UNCHANGED <<vars, history>>
  BY <1>2, <1>4 DEF GoneInv, vars, stores, uploader, history, Gone, Lone, Alone, Busy,
     Uploading, Flight
<1> QED
  BY <1>1, <1>3, <1>4

\* What a DELETE removes that met no PUT, no GET and no upload of its key stays
\* removed from both tiers until the next PUT of it begins
\* (hybrid.go:88-100): states HybridTiers!DeletedStaysGone.
THEOREM DeletesLast == TiersSpec => []DeletedStaysGone
<1>1. TiersInit => GoneInv
  BY CallsStart, HybridAssumption DEF TiersInit, GoneInv
<1>2. GoneInv /\ [TiersNext]_<<vars, history>> => GoneInv'
  BY GoneNext, HybridAssumption
<1>3. GoneInv => DeletedStaysGone
  BY DEF GoneInv, DeletedStaysGone, Gone
<1> QED
  BY <1>1, <1>2, <1>3, PTL DEF TiersSpec

-----------------------------------------------------------------------------
\* The uploads of a key: the workers and the PUTs that have read its entry.
HoldsKey(w, k) == held[w] # None /\ KeyOf[worker[w]] = k
SendsKey(p, k) == call[p].pc = "upload" /\ call[p].key = k
OneUpload(k) ==
  /\ \A v, w \in Workers : HoldsKey(v, k) /\ HoldsKey(w, k) => v = w
  /\ \A p, q \in Procs : SendsKey(p, k) /\ SendsKey(q, k) => p = q
  /\ \A w \in Workers, p \in Procs : ~(HoldsKey(w, k) /\ SendsKey(p, k))
NoUpload(k) ==
  /\ \A w \in Workers : ~HoldsKey(w, k)
  /\ \A p \in Procs : ~SendsKey(p, k)

\* What is uploaded is what is there locally, and when nothing is the tiers
\* agree ...
Clean(k) ==
  /\ \A w \in Workers : HoldsKey(w, k) => local[k] \in {None, held[w]}
  /\ \A p \in Procs : SendsKey(p, k) => local[k] \in {None, call[p].read}
  /\ NoUpload(k) => Agree(k)

\* ... or a PUT or an upload will read the entry again, or the PUT is going to
\* fail ...
Pending(p) ==
  \/ call[p].pc \in {"enqueue", "send", "reread"}
  \/ call[p].pc = "share" /\ call[p].op = "put" /\ call[p].status = "failed"
Later(k) ==
  \/ \E p \in Procs : call[p].key = k /\ Pending(p)
  \/ \E i \in Items : KeyOf[i] = k /\ stage[i] \in Waiting

\* ... or an upload was given up.
Settles(k) == GivenUp(k) \/ Later(k) \/ Clean(k)
AgreeInv == Calls /\ \A k \in Keys : k \notin split => OneUpload(k) /\ Settles(k)

LEMMA LostGivenUp ==
  /\ \A k \in Keys : GivenUp(k) <=> \E i \in Items : KeyOf[i] = k /\ stage[i] \in GaveUp
  /\ \A k \in Keys : GivenUp(k)' <=> \E i \in Items : KeyOf[i] = k /\ stage'[i] \in GaveUp
BY DEF GivenUp, GaveUp

LEMMA UploadingMembers ==
  ASSUME Types, NEW k \in Keys
  PROVE  /\ \A w \in Workers : HoldsKey(w, k) => w \in Uploading(k)
         /\ \A p \in Procs : SendsKey(p, k) => p \in Uploading(k)
         /\ NoUpload(k) <=> Uploading(k) = {}
<1>1. \A p \in Procs : SendsKey(p, k) => call[p].op = "put"
  BY DEF Types, InStep, SendsKey
<1> QED
  BY <1>1 DEF HoldsKey, SendsKey, NoUpload, Uploading, Flight, Busy

\* What the key's tiers not being parted in this step says.
LEMMA NotParted ==
  ASSUME HybridAssumption, Types, Types', NEW k \in Keys, ~Parts(k)
  PROVE  /\ OneUpload(k)'
         /\ Restart => Quiet(k)
         /\ \A p \in Procs :
              /\ Leaves(p, k, "share") /\ call[p].op = "put" => call[p].status # "failed"
              /\ Leaves(p, k, "backfill") => remote[k] = call[p].read /\ NoUpload(k)
              /\ Leaves(p, k, "dropRemote") => local[k] = None
<1>1. \A x, y \in Uploading(k)' : x = y
  BY DEF Parts
<1>2. /\ \A w \in Workers : HoldsKey(w, k)' => w \in Uploading(k)'
      /\ \A p \in Procs : SendsKey(p, k)' => p \in Uploading(k)'
  <2>1. \A p \in Procs : SendsKey(p, k)' => call'[p].op = "put"
    BY DEF Types, InStep, SendsKey
  <2> QED
    BY <2>1 DEF HoldsKey, SendsKey, Uploading, Flight, Busy
<1>3. OneUpload(k)'
  BY <1>1, <1>2, HybridAssumption DEF OneUpload, HybridAssumption
<1>4. NoUpload(k) <=> Uploading(k) = {}
  BY UploadingMembers
<1> QED
  BY <1>3, <1>4 DEF Parts

LEMMA QuietClean ==
  ASSUME Core, NEW k \in Keys, Quiet(k)
  PROVE  NoUpload(k) /\ OneUpload(k) /\ ~Later(k)
<1>1. \A w \in Workers : ~HoldsKey(w, k)
  BY DEF Core, HeldInv, Putting, HoldsKey, Quiet, Uploader!InFlight
<1>2. \A p \in Procs : call[p].pc # "idle" /\ call[p].key = k => call[p].op = "head"
  BY DEF Quiet, Busy, Flight
<1>3. \A p \in Procs : ~SendsKey(p, k) /\ ~(call[p].key = k /\ Pending(p))
  BY <1>2 DEF Core, Types, InStep, SendsKey, Pending
<1>4. \A i \in Items : KeyOf[i] = k => stage[i] \notin Waiting
  BY DEF Quiet, Waiting, Uploader!InFlight
<1> QED
  BY <1>1, <1>3, <1>4 DEF NoUpload, OneUpload, Later

LEMMA GivenUpStays ==
  ASSUME Effects, NEW i \in Items, stage[i] \in GaveUp
  PROVE  stage'[i] \in GaveUp
<1>1. HoldersKept => stage'[i] \in GaveUp
  BY DEF HoldersKept, Flow
<1>2. ASSUME NEW w \in Workers, NEW j \in Items, Reads(w, j) \/ Uploads(w, j)
      PROVE  stage'[i] \in GaveUp
  BY <1>2 DEF Reads, Uploads, OthersKept, GaveUp
<1>3. Restart => stage'[i] \in GaveUp
  BY DEF Restart, GaveUp, Uploader!InFlight
<1> QED
  BY <1>1, <1>2, <1>3 DEF Effects

\* A worker that reads the entry leaves the key clean, or gives up.
LEMMA ReadsClean ==
  ASSUME NEW k \in Keys, NEW w \in Workers, NEW i \in Items, Reads(w, i), KeyOf[i] = k,
         OneUpload(k)'
  PROVE  Settles(k)'
<1>1. CASE stage'[i] = "missing"
  BY <1>1, LostGivenUp DEF Settles, GaveUp
<1>2. CASE stage'[i] # "missing"
  <2>1. worker'[w] = i /\ held'[w] = local[k] /\ held'[w] # None /\ local' = local
    BY <1>2 DEF Reads
  <2>2. HoldsKey(w, k)'
    BY <2>1 DEF HoldsKey
  <2>3. /\ \A v \in Workers : HoldsKey(v, k)' => v = w
        /\ \A p \in Procs : ~SendsKey(p, k)'
    BY <2>2 DEF OneUpload
  <2>4. Clean(k)'
    BY <2>1, <2>2, <2>3 DEF Clean, NoUpload
  <2> QED
    BY <2>4 DEF Settles
<1> QED
  BY <1>1, <1>2

\* An upload that will be read again stays one, is read, or is lost.
LEMMA WaitingSettles ==
  ASSUME HybridAssumption, Effects, NEW k \in Keys, NEW i \in Items,
         KeyOf[i] = k, stage[i] \in Waiting, OneUpload(k)', Restart => Quiet(k)
  PROVE  Settles(k)'
<1>1. ASSUME stage'[i] \in Waiting \cup GaveUp PROVE Settles(k)'
  BY <1>1, LostGivenUp DEF Settles, Later
<1>2. HoldersKept => Settles(k)'
  BY <1>1 DEF HoldersKept, Flow
<1>3. ASSUME NEW w \in Workers, NEW j \in Items, Reads(w, j) PROVE Settles(k)'
  <2>1. CASE i = j
    BY <1>3, <2>1, ReadsClean
  <2>2. CASE i # j
    BY <1>1, <1>3, <2>2 DEF Reads, OthersKept
  <2> QED
    BY <2>1, <2>2
<1>4. ASSUME NEW w \in Workers, NEW j \in Items, Uploads(w, j) PROVE Settles(k)'
  BY <1>1, <1>4 DEF Uploads, OthersKept, Waiting
<1>5. ~Restart
  BY DEF Quiet, Waiting, Uploader!InFlight
<1> QED
  BY <1>2, <1>3, <1>4, <1>5 DEF Effects

\* A PUT that will read the entry does, hands it to the uploader, or fails.
LEMMA PendingMoves ==
  ASSUME HybridAssumption, Types, NEW p \in Procs, Moves(p), HoldersKept, NEW k \in Keys,
         call[p].key = k, Pending(p), OneUpload(k)'
  PROVE  Settles(k)'
<1>1. Frame(p) /\ InStep(call[p])
  BY DEF Moves, Types
<1>2. ASSUME call'[p].key = k, Pending(p)' PROVE Settles(k)'
  BY <1>2 DEF Settles, Later
<1>3. PutMoves(p)
  BY <1>1 DEF Moves, Pending, GetMoves, HeadMoves, DeleteMoves, Goes, Shares, Answers, InStep
<1>4. /\ call'[p].key = k /\ call'[p].op = "put"
      /\ call[p].pc \in {"enqueue", "send", "reread"}
  BY <1>1, <1>3 DEF PutMoves, Pending, Goes, Shares, Keeps, InStep
<1>5. \/ Pending(p)'
      \/ call[p].pc = "send" /\ stage'[call[p].item] = "queued"
      \/ /\ Goes(p, "reread", "upload") /\ LocalKept(p)
         /\ call'[p].read = local[call[p].key]
  BY <1>3, <1>4 DEF PutMoves, Pending, Goes, Shares, TiersKept
<1>6. CASE call[p].pc = "send" /\ stage'[call[p].item] = "queued"
  <2>1. call[p].item \in Items /\ KeyOf[call[p].item] = k
    BY <1>1, <1>6 DEF InStep
  <2> QED
    BY <1>6, <2>1 DEF Settles, Later, Waiting
<1>7. CASE Goes(p, "reread", "upload") /\ LocalKept(p) /\ call'[p].read = local[call[p].key]
  <2>1. SendsKey(p, k)' /\ call'[p].read = local'[k]
    BY <1>4, <1>7 DEF SendsKey, Goes, LocalKept
  <2>2. /\ \A w \in Workers : ~HoldsKey(w, k)'
        /\ \A q \in Procs : SendsKey(q, k)' => q = p
    BY <2>1 DEF OneUpload
  <2>3. Clean(k)'
    BY <2>1, <2>2 DEF Clean, NoUpload
  <2> QED
    BY <2>3 DEF Settles
<1> QED
  BY <1>2, <1>4, <1>5, <1>6, <1>7

LEMMA PendingSettles ==
  ASSUME HybridAssumption, Calls, Effects, NEW k \in Keys, NEW p \in Procs, call[p].key = k,
         Pending(p), OneUpload(k)', Restart => Quiet(k),
         Leaves(p, k, "share") /\ call[p].op = "put" => call[p].status # "failed"
  PROVE  Settles(k)'
<1>1. /\ Types /\ InStep(call[p]) /\ call[p].pc # "idle" /\ Leads(p) /\ call[p].op = "put"
  BY DEF Calls, Core, Types, Pending, Leads, InStep
<1>2. ASSUME Like(p) PROVE Settles(k)'
  BY <1>2 DEF Settles, Later, Pending, Like
<1>3. ASSUME NEW q \in Procs, Moves(q), HoldersKept PROVE Settles(k)'
  <2>1. CASE q = p
    BY <1>1, <1>3, <2>1, PendingMoves
  <2>2. CASE q # p
    BY <1>1, <1>2, <1>3, <2>2, MovesAfter DEF Like
  <2> QED
    BY <2>1, <2>2
<1>4. ASSUME NEW q \in Procs, Ended(q), q \in Group(q) PROVE Settles(k)'
  <2>1. CASE p \notin Group(q)
    BY <1>2, <1>4, <2>1 DEF Ended, Like
  <2>2. CASE p \in Group(q)
    <3>1. call[q].op = "put" /\ call[q].key = k /\ call[q].pc = "share"
      BY <1>1, <1>4, <2>2 DEF Ended, Group, Flight, Busy
    <3>2. p = q
      BY <1>1, <3>1 DEF Calls, OneLeader, Leads, Shared
    <3>3. Leaves(p, k, "share") /\ call[p].status = "failed"
      BY <1>4, <2>2, <3>1, <3>2 DEF Leaves, Ended, Pending
    <3> QED
      BY <3>1, <3>2, <3>3
  <2> QED
    BY <2>1, <2>2
<1>5. ASSUME NEW q \in Procs, NEW j \in Keys, NEW op \in Ops, NEW b, Begins(q, op, j, b)
      PROVE  Settles(k)'
  BY <1>1, <1>2, <1>5 DEF Begins
<1>6. ASSUME NEW j \in Keys, Spots(j) \/ Evicts(j) PROVE Settles(k)'
  BY <1>2, <1>6 DEF Spots, Evicts, Like
<1>7. ASSUME NEW w \in Workers, NEW i \in Items, Reads(w, i) \/ Uploads(w, i) PROVE Settles(k)'
  BY <1>2, <1>7 DEF Reads, Uploads, Like
<1>8. IdleStep => Settles(k)'
  BY <1>2 DEF IdleStep, Like
<1>9. ~Restart
  <2>1. p \in Busy(k) /\ p \notin Flight("head", k)
    BY <1>1 DEF Busy, Flight
  <2> QED
    BY <2>1 DEF Quiet
<1> QED
  BY <1>3, <1>4, <1>5, <1>6, <1>7, <1>8, <1>9 DEF Effects

\* A clean key stays clean when its entries are kept or its local one removed.
LEMMA CleanKept ==
  ASSUME NEW k \in Keys, Clean(k),
         \/ local'[k] = local[k] /\ remote'[k] = remote[k]
         \/ local'[k] = None,
         \A w \in Workers : held'[w] = held[w] /\ (HoldsKey(w, k)' <=> HoldsKey(w, k)),
         \A p \in Procs : /\ SendsKey(p, k)' <=> SendsKey(p, k)
                          /\ SendsKey(p, k) => call'[p].read = call[p].read
  PROVE  Clean(k)'
<1>1. NoUpload(k)' => NoUpload(k)
  BY DEF NoUpload
<1>2. CASE local'[k] = None
  BY <1>2 DEF Clean, Agree
<1>3. CASE local'[k] = local[k] /\ remote'[k] = remote[k]
  BY <1>1, <1>3 DEF Clean, Agree
<1> QED
  BY <1>2, <1>3

LEMMA CleanHolders ==
  ASSUME NEW k \in Keys, HoldersKept
  PROVE  \A w \in Workers : held'[w] = held[w] /\ (HoldsKey(w, k)' <=> HoldsKey(w, k))
BY DEF HoldersKept, HoldsKey

LEMMA CleanMoves ==
  ASSUME HybridAssumption, Calls, NEW k \in Keys, Clean(k), OneUpload(k), NEW p \in Procs,
         Moves(p), HoldersKept,
         Leaves(p, k, "backfill") => remote[k] = call[p].read /\ NoUpload(k),
         Leaves(p, k, "dropRemote") => local[k] = None
  PROVE  Clean(k)' \/ Later(k)'
<1>1. /\ Types /\ Frame(p) /\ Leads(p) /\ InStep(call[p]) /\ After(p)
      /\ \A q \in Procs : q # p => call'[q] = call[q]
  BY MovesAfter DEF Calls, Core, Types, Moves
<1>2. ASSUME \/ local'[k] = local[k] /\ remote'[k] = remote[k]
             \/ local'[k] = None,
             ~SendsKey(p, k), ~SendsKey(p, k)'
      PROVE  Clean(k)'
  <2>1. \A q \in Procs : /\ SendsKey(q, k)' <=> SendsKey(q, k)
                         /\ SendsKey(q, k) => call'[q].read = call[q].read
    BY <1>1, <1>2 DEF SendsKey
  <2> QED
    BY <1>2, <2>1, CleanKept, CleanHolders
<1>3. CASE call[p].key # k
  <2>1. local'[k] = local[k] /\ remote'[k] = remote[k]
    BY <1>1, <1>3 DEF Frame, Elsewhere
  <2>2. ~SendsKey(p, k) /\ ~SendsKey(p, k)'
    BY <1>1, <1>3 DEF SendsKey, After
  <2> QED
    BY <1>2, <2>1, <2>2
<1>4. CASE call[p].key = k /\ PutMoves(p)
  <2>1. call'[p].key = k /\ call'[p].op = "put"
    BY <1>1, <1>4 DEF PutMoves, Goes, Shares, Keeps, InStep
  <2>2. ASSUME Pending(p)' PROVE Later(k)'
    BY <2>1, <2>2 DEF Later
  <2>3. CASE call[p].pc # "upload"
    <3>1. \/ Pending(p)'
          \/ call[p].pc = "send" /\ stage'[call[p].item] = "queued"
          \/ Goes(p, "reread", "upload") /\ LocalKept(p) /\ call'[p].read = local[k]
      BY <1>4, <2>1, <2>3 DEF PutMoves, Pending, Goes, Shares, TiersKept
    <3>2. CASE call[p].pc = "send" /\ stage'[call[p].item] = "queued"
      BY <1>1, <1>4, <3>2 DEF InStep, Later, Waiting
    <3>3. CASE Goes(p, "reread", "upload") /\ LocalKept(p) /\ call'[p].read = local[k]
      <4>1. /\ ~SendsKey(p, k) /\ SendsKey(p, k)' /\ local'[k] = local[k]
            /\ call'[p].read = local'[k]
        BY <1>4, <2>1, <3>3 DEF SendsKey, Goes, LocalKept
      <4>2. \A w \in Workers : HoldsKey(w, k)' => local'[k] \in {None, held'[w]}
        BY <4>1, CleanHolders DEF Clean
      <4>3. \A q \in Procs : SendsKey(q, k)' => local'[k] \in {None, call'[q].read}
        BY <1>1, <4>1 DEF Clean, SendsKey
      <4> QED
        BY <4>1, <4>2, <4>3 DEF Clean, NoUpload
    <3> QED
      BY <2>2, <3>1, <3>2, <3>3
  <2>4. CASE call[p].pc = "upload"
    <3>1. \/ Pending(p)'
          \/ call'[p].pc = "share" /\ remote'[k] = call[p].read /\ local'[k] = local[k]
      BY <1>4, <2>1, <2>4 DEF PutMoves, Pending, Goes, Shares, LocalKept
    <3>2. CASE call'[p].pc = "share" /\ remote'[k] = call[p].read /\ local'[k] = local[k]
      <4>1. SendsKey(p, k)
        BY <1>4, <2>4 DEF SendsKey
      <4>2. local'[k] \in {None, remote'[k]}
        BY <3>2, <4>1 DEF Clean
      <4>3. /\ \A w \in Workers : ~HoldsKey(w, k)'
            /\ \A q \in Procs : ~SendsKey(q, k)'
        BY <1>1, <3>2, <4>1, CleanHolders DEF OneUpload, SendsKey
      <4> QED
        BY <4>2, <4>3 DEF Clean, Agree
    <3> QED
      BY <2>2, <3>1, <3>2
  <2> QED
    BY <2>3, <2>4
<1>5. CASE call[p].key = k /\ GetMoves(p)
  <2>1. ~SendsKey(p, k) /\ ~SendsKey(p, k)'
    BY <1>5 DEF GetMoves, Goes, Answers, Ends, SendsKey
  <2>2. CASE local'[k] = local[k] /\ remote'[k] = remote[k]
    BY <1>2, <2>1, <2>2
  <2>3. CASE ~(local'[k] = local[k] /\ remote'[k] = remote[k])
    <3>1. Goes(p, "backfill", "again") /\ remote'[k] = remote[k] /\ local'[k] = call[p].read
      BY <1>5, <2>3 DEF GetMoves, TiersKept, LocalKept, RemoteKept
    <3>2. Leaves(p, k, "backfill")
      BY <1>5, <3>1 DEF Goes, Leaves
    <3>3. NoUpload(k)' /\ local'[k] = remote'[k]
      BY <1>1, <2>1, <3>1, <3>2, CleanHolders DEF NoUpload, SendsKey
    <3> QED
      BY <3>3 DEF Clean, Agree, NoUpload
  <2> QED
    BY <2>2, <2>3
<1>6. CASE call[p].key = k /\ HeadMoves(p)
  <2>1. ~SendsKey(p, k) /\ ~SendsKey(p, k)'
    BY <1>6 DEF HeadMoves, Goes, Shares, SendsKey
  <2> QED
    BY <1>2, <1>6, <2>1 DEF HeadMoves, TiersKept, LocalKept, RemoteKept
<1>7. CASE call[p].key = k /\ DeleteMoves(p)
  <2>1. ~SendsKey(p, k) /\ ~SendsKey(p, k)'
    BY <1>7 DEF DeleteMoves, Goes, Answers, Ends, SendsKey
  <2>2. \/ local'[k] = local[k] /\ remote'[k] = remote[k]
        \/ local'[k] = None
        \/ Leaves(p, k, "dropRemote") /\ local'[k] = local[k]
    BY <1>7 DEF DeleteMoves, Goes, Answers, Ends, Leaves, TiersKept, LocalKept, RemoteKept
  <2> QED
    BY <1>2, <2>1, <2>2
<1> QED
  BY <1>1, <1>3, <1>4, <1>5, <1>6, <1>7, Moves(p) DEF Moves

LEMMA CleanSettles ==
  ASSUME HybridAssumption, Calls, Types', Effects, NEW k \in Keys, Clean(k), OneUpload(k), ~Parts(k)
  PROVE  Settles(k)'
<1>1. /\ Types /\ HeldInv /\ OneUpload(k)'
      /\ Restart => Quiet(k)
      /\ \A p \in Procs : /\ Leaves(p, k, "backfill") => remote[k] = call[p].read /\ NoUpload(k)
                          /\ Leaves(p, k, "dropRemote") => local[k] = None
      /\ \A p \in Procs : call[p] \in CallType /\ InStep(call[p])
  BY NotParted DEF Calls, Core, Types
<1>2. ASSUME NEW p \in Procs, Moves(p), HoldersKept PROVE Settles(k)'
  BY <1>1, <1>2, CleanMoves DEF Settles
<1>3. ASSUME \A p \in Procs : Like(p),
             \/ local'[k] = local[k] /\ remote'[k] = remote[k]
             \/ local'[k] = None,
             \A w \in Workers : held'[w] = held[w] /\ (HoldsKey(w, k)' <=> HoldsKey(w, k))
      PROVE  Settles(k)'
  <2>1. \A p \in Procs : /\ SendsKey(p, k)' <=> SendsKey(p, k)
                         /\ SendsKey(p, k) => call'[p].read = call[p].read
    BY <1>3 DEF Like, SendsKey
  <2> QED
    BY <1>3, <2>1, CleanKept DEF Settles
<1>4. ASSUME NEW p \in Procs, NEW j \in Keys, NEW op \in Ops, NEW b, Begins(p, op, j, b), HoldersKept
      PROVE  Settles(k)'
  <2>1. call[p].pc # "upload" /\ call'[p].pc # "upload"
    BY <1>4, FirstSteps DEF Begins, Ops
  <2>2. \A q \in Procs : /\ SendsKey(q, k)' <=> SendsKey(q, k)
                         /\ SendsKey(q, k) => call'[q].read = call[q].read
    BY <1>4, <2>1 DEF Begins, Like, SendsKey
  <2>3. local'[k] = local[k] /\ remote'[k] = remote[k]
    BY <1>4 DEF Begins
  <2> QED
    BY <1>4, <2>2, <2>3, CleanKept, CleanHolders DEF Settles
<1>5. ASSUME NEW p \in Procs, Ended(p), p \in Group(p), HoldersKept PROVE Settles(k)'
  <2>1. ASSUME NEW q \in Group(p) PROVE ~SendsKey(q, k) /\ ~SendsKey(q, k)'
    <3>1. call'[q].pc = "idle" /\ call[p].pc = "share" /\ q \in Procs
      BY <1>5, <2>1 DEF Ended, Group, Flight, Busy
    <3>2. call[q].op = call[p].op /\ call[q].key = call[p].key /\ call[p].op \in Shared
      BY <1>1, <1>5, <2>1, <3>1 DEF Group, Flight, Busy, InStep
    <3>3. call[q].pc # "upload"
      BY <3>1, <3>2 DEF Calls, OneLeader, Leads
    <3> QED
      BY <3>1, <3>3 DEF SendsKey
  <2>2. \A q \in Procs : /\ SendsKey(q, k)' <=> SendsKey(q, k)
                         /\ SendsKey(q, k) => call'[q].read = call[q].read
    BY <1>5, <2>1 DEF Ended, SendsKey
  <2>3. local'[k] = local[k] /\ remote'[k] = remote[k]
    BY <1>5 DEF Ended
  <2> QED
    BY <1>5, <2>2, <2>3, CleanKept, CleanHolders DEF Settles
<1>6. ASSUME NEW j \in Keys, Spots(j), HoldersKept PROVE Settles(k)'
  BY <1>3, <1>6, CleanHolders DEF Spots, Like
<1>7. ASSUME NEW j \in Keys, Evicts(j), HoldersKept PROVE Settles(k)'
  <2>1. \/ local'[k] = local[k] /\ remote'[k] = remote[k]
        \/ local'[k] = None
    BY <1>7 DEF Evicts, Elsewhere
  <2> QED
    BY <1>3, <1>7, <2>1, CleanHolders DEF Evicts
<1>8. ASSUME NEW w \in Workers, NEW i \in Items, Reads(w, i) PROVE Settles(k)'
  <2>1. CASE KeyOf[i] = k
    BY <1>1, <1>8, <2>1, ReadsClean
  <2>2. CASE KeyOf[i] # k
    <3>1. UNCHANGED <<local, remote>> /\ \A p \in Procs : Like(p)
      BY <1>8 DEF Reads, Like
    <3>2. ~HoldsKey(w, k) /\ ~HoldsKey(w, k)'
      BY <1>8, <2>2 DEF Reads, HoldsKey
    <3>3. \A v \in Workers : v # w => held'[v] = held[v] /\ (HoldsKey(v, k)' <=> HoldsKey(v, k))
      BY <1>8 DEF Reads, OthersKept, HoldsKey
    <3>4. NoUpload(k)' => NoUpload(k)
      BY <3>1, <3>2, <3>3 DEF NoUpload, SendsKey, Like
    <3>5. Clean(k)'
      BY <3>1, <3>2, <3>3, <3>4 DEF Clean, Agree, Like, SendsKey
    <3> QED
      BY <3>5 DEF Settles
  <2> QED
    BY <2>1, <2>2
<1>9. ASSUME NEW w \in Workers, NEW i \in Items, Uploads(w, i) PROVE Settles(k)'
  <2>1. /\ UNCHANGED <<local, call>> /\ held'[w] = None /\ worker[w] = i /\ held[w] # None
        /\ \A v \in Workers : v # w => held'[v] = held[v] /\ (HoldsKey(v, k)' <=> HoldsKey(v, k))
        /\ ~HoldsKey(w, k)'
        /\ \A p \in Procs : SendsKey(p, k)' <=> SendsKey(p, k)
    BY <1>9 DEF Uploads, OthersKept, HoldsKey, SendsKey
  <2>2. CASE KeyOf[i] # k
    <3>1. remote'[k] = remote[k] /\ ~HoldsKey(w, k)
      BY <1>9, <2>1, <2>2 DEF Uploads, Elsewhere, HoldsKey
    <3>2. NoUpload(k)' => NoUpload(k)
      BY <2>1, <3>1 DEF NoUpload
    <3>3. Clean(k)'
      BY <2>1, <3>1, <3>2 DEF Clean, Agree, SendsKey
    <3> QED
      BY <3>3 DEF Settles
  <2>3. CASE KeyOf[i] = k
    <3>1. CASE stage'[i] = "sleeping"
      BY <2>3, <3>1 DEF Settles, Later, Waiting
    <3>2. CASE stage'[i] = "gaveUp"
      BY <2>3, <3>2, LostGivenUp DEF Settles, GaveUp
    <3>3. CASE stage'[i] \notin {"sleeping", "gaveUp"}
      <4>1. HoldsKey(w, k) /\ remote'[k] = held[w]
        BY <1>9, <2>1, <2>3, <3>3 DEF Uploads, HoldsKey
      <4>2. local'[k] \in {None, remote'[k]}
        BY <2>1, <4>1 DEF Clean
      <4>3. /\ \A v \in Workers : ~HoldsKey(v, k)'
            /\ \A p \in Procs : ~SendsKey(p, k)'
        BY <2>1, <4>1 DEF OneUpload
      <4>4. Clean(k)'
        BY <4>2, <4>3 DEF Clean, Agree
      <4> QED
        BY <4>4 DEF Settles
    <3> QED
      BY <3>1, <3>2, <3>3
  <2> QED
    BY <2>2, <2>3
<1>10. ASSUME IdleStep, HoldersKept PROVE Settles(k)'
  BY <1>3, <1>10, CleanHolders DEF IdleStep, stores, Like
<1>11. ASSUME Restart, Restarts PROVE Settles(k)'
  <2>1. NoUpload(k)
    BY <1>1, <1>11, QuietClean DEF Calls
  <2>2. /\ \A w \in Workers : ~HoldsKey(w, k)'
        /\ \A p \in Procs : ~SendsKey(p, k)'
    BY <1>11, IdleType DEF Restarts, HoldsKey, SendsKey
  <2>3. Clean(k)'
    BY <1>11, <2>1, <2>2 DEF Clean, Agree, Restarts
  <2> QED
    BY <2>3 DEF Settles
<1> QED
  BY <1>2, <1>4, <1>5, <1>6, <1>7, <1>8, <1>9, <1>10, <1>11 DEF Effects

LEMMA AgreeNext ==
  ASSUME HybridAssumption, AgreeInv, [TiersNext]_<<vars, history>>
  PROVE  AgreeInv'
<1>1. [Next]_vars /\ (Watch \/ UNCHANGED <<vars, history>>)
  BY TiersSteps
<1>2. Calls /\ Core /\ Types /\ Calls' /\ Types' /\ Effects
  BY <1>1, CallsNext DEF AgreeInv, Calls, Core
<1>3. ASSUME Watch, NEW k \in Keys, k \notin split' PROVE OneUpload(k)' /\ Settles(k)'
  <2>1. ~Parts(k) /\ (k \notin split \/ (Quiet(k) /\ Agree(k)))
    BY <1>3 DEF Watch
  <2>2. /\ OneUpload(k)'
        /\ Restart => Quiet(k)
        /\ \A p \in Procs : Leaves(p, k, "share") /\ call[p].op = "put" => call[p].status # "failed"
    BY <1>2, <2>1, NotParted
  <2>3. OneUpload(k) /\ Settles(k)
    <3>1. CASE k \notin split
      BY <3>1 DEF AgreeInv
    <3>2. CASE Quiet(k) /\ Agree(k)
      <4>1. NoUpload(k) /\ OneUpload(k)
        BY <1>2, <3>2, QuietClean
      <4> QED
        BY <3>2, <4>1 DEF Settles, Clean, NoUpload
    <3> QED
      BY <2>1, <3>1, <3>2
  <2>4. CASE GivenUp(k)
    <3>1. PICK i \in Items : KeyOf[i] = k /\ stage[i] \in GaveUp
      BY <2>4, LostGivenUp
    <3>2. stage'[i] \in GaveUp
      BY <1>2, <3>1, GivenUpStays
    <3>3. GivenUp(k)'
      BY <3>1, <3>2, LostGivenUp
    <3> QED
      BY <2>2, <3>3 DEF Settles
  <2>5. CASE Later(k)
    BY <1>2, <2>2, <2>5, PendingSettles, WaitingSettles DEF Later
  <2>6. CASE Clean(k)
    <3>1. OneUpload(k) /\ ~Parts(k)
      BY <2>1, <2>3
    <3> QED
      BY <1>2, <2>2, <2>6, <3>1, CleanSettles
  <2> QED
    BY <2>2, <2>3, <2>4, <2>5, <2>6 DEF Settles
<1>4. CASE UNCHANGED <<vars, history>>
  <2>1. UNCHANGED <<local, remote, call, held, split, stage, worker>>
    BY <1>4 DEF vars, stores, uploader, history
  <2>2. \A k \in Keys : /\ OneUpload(k)' <=> OneUpload(k)
                        /\ Settles(k)' <=> Settles(k)
    BY <2>1 DEF OneUpload, Settles, GivenUp, Later, Clean, NoUpload, HoldsKey, SendsKey,
       Pending, Agree
  <2> QED
    BY <1>2, <2>1, <2>2 DEF AgreeInv
<1> QED
  BY <1>1, <1>2, <1>3, <1>4 DEF AgreeInv

\* When nothing of a key is under way, no upload of it was given up and nothing
\* that parts the tiers happened since they last agreed, what is local is what
\* is in S3 (hybrid.go:104-139, async_s3.go:106-134): states
\* HybridTiers!TiersAgree.
THEOREM TiersComeToAgree == TiersSpec => []TiersAgree
<1>1. TiersInit => AgreeInv
  <2> SUFFICES ASSUME TiersInit PROVE AgreeInv
    OBVIOUS
  <2>1. /\ \A p \in Procs : call[p] = Idle
        /\ \A w \in Workers : held[w] = None
        /\ \A k \in Keys : local[k] = None
    BY DEF TiersInit, Init
  <2>2. \A k \in Keys : OneUpload(k) /\ Clean(k)
    BY <2>1, IdleType DEF OneUpload, Clean, HoldsKey, SendsKey, Agree
  <2> QED
    BY <2>2, CallsStart, HybridAssumption DEF AgreeInv, Settles, TiersInit
<1>2. AgreeInv /\ [TiersNext]_<<vars, history>> => AgreeInv'
  BY AgreeNext, HybridAssumption
<1>3. AgreeInv => TiersAgree
  <2> SUFFICES ASSUME AgreeInv, NEW k \in Keys, Quiet(k), k \notin split, ~GivenUp(k)
               PROVE  Agree(k)
    BY DEF TiersAgree
  <2>1. NoUpload(k) /\ ~Later(k)
    BY QuietClean DEF AgreeInv, Calls
  <2> QED
    BY <2>1 DEF AgreeInv, Settles, Clean
<1> QED
  BY <1>1, <1>2, <1>3, PTL DEF TiersSpec

-----------------------------------------------------------------------------
\* Every request that joined has one that leads its group.
Led(p) == call[p].pc = "join" => \E q \in Procs :
  Leads(q) /\ call[q].op = call[p].op /\ call[q].key = call[p].key
LedInv == Calls /\ \A p \in Procs : Led(p)

\* A shared call that moves on goes on leading: only Share ends it.
LEMMA LeadersStay ==
  ASSUME Types, NEW q \in Procs, Moves(q), call[q].op \in Shared
  PROVE  Leads(q)' /\ call'[q].op = call[q].op /\ call'[q].key = call[q].key
<1>1. InStep(call[q])
  BY DEF Types
<1>2. ~GetMoves(q) /\ ~DeleteMoves(q)
  <2>1. call[q].op \notin {"get", "delete"}
    BY DEF Shared
  <2>2. call[q].pc \notin {"lookup", "fetch", "backfill", "again", "drop", "dropRemote"}
    BY <1>1, <2>1 DEF InStep
  <2> QED
    BY <2>2 DEF GetMoves, DeleteMoves, Goes, Answers
<1>3. Keeps(q) /\ Leads(q)'
  BY <1>2 DEF Moves, PutMoves, HeadMoves, Goes, Shares, Leads
<1> QED
  BY <1>3 DEF Keeps

LEMMA LedMoves ==
  ASSUME Types, NEW p \in Procs, NEW q \in Procs, Moves(q), Led(p), call'[p].pc = "join"
  PROVE  Led(p)'
<1>1. Leads(q) /\ After(q) /\ \A r \in Procs : r # q => call'[r] = call[r]
  BY MovesAfter
<1>2. p # q /\ call'[p] = call[p]
  BY <1>1 DEF After, Leads
<1>3. PICK r \in Procs : Leads(r) /\ call[r].op = call[p].op /\ call[r].key = call[p].key
  BY <1>2 DEF Led
<1>4. call[r].op \in Shared
  BY <1>2, <1>3 DEF Types, InStep
<1>5. Leads(r)' /\ call'[r].op = call[r].op /\ call'[r].key = call[r].key
  BY <1>1, <1>3, <1>4, LeadersStay DEF Leads
<1> QED
  BY <1>2, <1>3, <1>5 DEF Led

LEMMA LedBegins ==
  ASSUME Types, \A r \in Procs : Led(r), NEW p \in Procs, NEW q \in Procs, NEW k \in Keys,
         NEW op \in Ops, NEW b, Begins(q, op, k, b), call'[p].pc = "join"
  PROVE  Led(p)'
<1>1. call[q].pc = "idle" /\ \A r \in Procs : r # q => Like(r)
  BY DEF Begins
<1>2. \E r \in Procs : /\ Leads(r) /\ call[r].op = call'[p].op /\ call[r].key = call'[p].key
  <2>1. CASE p = q
    <3>1. Flight(op, k) # {} /\ call'[p].op = op /\ call'[p].key = k
      BY <2>1, FirstSteps DEF Begins, Ops
    <3>2. PICK r \in Procs : call[r].pc # "idle" /\ call[r].key = k /\ call[r].op = op
      BY <3>1 DEF Flight, Busy
    <3>3. Led(r)
      OBVIOUS
    <3> QED
      BY <3>1, <3>2, <3>3 DEF Led, Leads
  <2>2. CASE p # q
    <3>1. Led(p) /\ Like(p)
      BY <1>1, <2>2
    <3> QED
      BY <3>1 DEF Led, Like
  <2> QED
    BY <2>1, <2>2
<1>3. PICK r \in Procs : Leads(r) /\ call[r].op = call'[p].op /\ call[r].key = call'[p].key
  BY <1>2
<1>4. r # q /\ Like(r)
  BY <1>1, <1>3 DEF Leads
<1> QED
  BY <1>3, <1>4 DEF Led, Like, Leads

LEMMA LedEnds ==
  ASSUME NEW p \in Procs, NEW q \in Procs, Ended(q), q \in Group(q), Led(p), call'[p].pc = "join"
  PROVE  Led(p)'
<1>1. p \notin Group(q) /\ call'[p] = call[p]
  BY DEF Ended
<1>2. PICK r \in Procs : Leads(r) /\ call[r].op = call[p].op /\ call[r].key = call[p].key
  BY <1>1 DEF Led
<1>3. r \notin Group(q)
  BY <1>1, <1>2 DEF Group, Flight, Busy, Leads
<1>4. call'[r] = call[r]
  BY <1>3 DEF Ended
<1> QED
  BY <1>1, <1>2, <1>4 DEF Led, Leads

LEMMA LedNext ==
  ASSUME HybridAssumption, LedInv, [Next]_vars
  PROVE  LedInv'
<1>1. Calls' /\ Effects /\ Types
  BY CallsNext DEF LedInv, Calls, Core
<1> SUFFICES ASSUME NEW p \in Procs, call'[p].pc = "join" PROVE Led(p)'
  BY <1>1 DEF LedInv, Led
<1>2. \A r \in Procs : Led(r)
  BY DEF LedInv
<1>3. ASSUME \A r \in Procs : Like(r) PROVE Led(p)'
  BY <1>2, <1>3 DEF Led, Like, Leads
<1>4. call' = call => \A r \in Procs : Like(r)
  BY DEF Like
<1>5. ASSUME NEW k \in Keys, Spots(k) \/ Evicts(k) PROVE Led(p)'
  BY <1>3, <1>4, <1>5 DEF Spots, Evicts
<1>6. ASSUME NEW w \in Workers, NEW i \in Items, Reads(w, i) \/ Uploads(w, i) PROVE Led(p)'
  BY <1>3, <1>4, <1>6 DEF Reads, Uploads
<1>7. IdleStep => Led(p)'
  BY <1>3, <1>4 DEF IdleStep
<1>8. ~Restarts
  BY IdleType DEF Restarts
<1>9. ASSUME NEW q \in Procs, Moves(q) PROVE Led(p)'
  BY <1>1, <1>2, <1>9, LedMoves
<1>10. ASSUME NEW q \in Procs, NEW k \in Keys, NEW op \in Ops, NEW b, Begins(q, op, k, b)
       PROVE  Led(p)'
  BY <1>1, <1>2, <1>10, LedBegins
<1>11. ASSUME NEW q \in Procs, Ended(q), q \in Group(q) PROVE Led(p)'
  BY <1>2, <1>11, LedEnds
<1> QED
  BY <1>1, <1>5, <1>6, <1>7, <1>8, <1>9, <1>10, <1>11 DEF Effects

\* Who leads a group leads it alone.
LEMMA LedAlone ==
  ASSUME LedInv, NEW k \in Keys, NEW op \in Shared, Flight(op, k) # {}
  PROVE  \E q \in Procs : {r \in Flight(op, k) : call[r].pc # "join"} = {q}
<1>1. PICK p \in Procs : call[p].pc # "idle" /\ call[p].key = k /\ call[p].op = op
  BY DEF Flight, Busy
<1>2. PICK q \in Procs : Leads(q) /\ call[q].op = op /\ call[q].key = k
  BY <1>1 DEF LedInv, Led, Leads
<1>3. \A r \in Flight(op, k) : call[r].pc # "join" => r = q
  BY <1>2 DEF LedInv, Calls, OneLeader, Flight, Busy, Leads
<1>4. q \in Flight(op, k) /\ call[q].pc # "join"
  BY <1>2 DEF Flight, Busy, Leads
<1>5. {r \in Flight(op, k) : call[r].pc # "join"} = {q}
  BY <1>3, <1>4
<1> QED
  BY <1>5

LEMMA LedStart == HybridAssumption /\ Init => LedInv
BY CallsStart DEF Init, Idle, LedInv, Led

\* Of the PUTs, and of the HEADs, of a key that overlap exactly one calls the
\* stores, and those that joined it are never left without it
\* (singleflight.go:25-51): states Hybrid!OneLeads.
THEOREM EachGroupIsLed == Spec => []OneLeads
<1>1. Init => LedInv
  BY LedStart, HybridAssumption
<1>2. LedInv /\ [Next]_vars => LedInv'
  BY LedNext, HybridAssumption
<1>3. LedInv => OneLeads
  BY LedAlone DEF OneLeads
<1> QED
  BY <1>1, <1>2, <1>3, PTL DEF Spec

-----------------------------------------------------------------------------
\* A PUT that is about to be acknowledged has an object in S3 or an upload of its
\* own, which is on its way or was given up meanwhile, as long as no DELETE of the
\* key comes.
Acks(p) ==
  /\ call[p].pc = "share" /\ call[p].op = "put" /\ call[p].status = "ok"
  /\ "delete" \notin call[p].met
Sends(p, i) == i = call[p].item /\ KeyOf[i] = call[p].key
Promises(p) ==
  \/ remote[call[p].key] # None
  \/ \E i \in Items : Sends(p, i) /\ stage[i] \in Uploader!InFlight \cup GaveUp
KeptInv == FoundInv /\ \A p \in Procs : Acks(p) => Promises(p)

LEMMA InFlightKinds == Uploader!InFlight = Waiting \cup {"putting"}
BY DEF Uploader!InFlight, Waiting

\* An object in S3 goes only by a DELETE of its key.
LEMMA ObjectStays ==
  ASSUME HybridAssumption, Types, Effects, NEW k \in Keys, remote[k] # None,
         \A q \in Procs : Leads(q) => ~MayVanish(q, k)
  PROVE  remote'[k] # None
<1>1. ASSUME NEW q \in Procs, Moves(q) PROVE remote'[k] # None
  BY <1>1, MovesGrow, MovesAfter
<1>2. ASSUME NEW w \in Workers, NEW i \in Items, Uploads(w, i) PROVE remote'[k] # None
  BY <1>2 DEF Uploads, Elsewhere
<1> QED
  BY <1>1, <1>2 DEF Effects, Begins, Ended, Spots, Evicts, Reads, IdleStep, stores, Restarts

\* Nobody but its worker takes an upload that is under way from it.
LEMMA PuttingStays ==
  ASSUME HybridAssumption, Core, HeldInv', HoldersKept, NEW i \in Items, stage[i] = "putting"
  PROVE  stage'[i] = "putting"
<1>1. PICK w \in Workers : worker[w] = i
  BY DEF Core, UP!Inv, UP!WorkerInv, UP!Handled
<1>2. held[w] # None /\ worker'[w] = i /\ held'[w] # None
  BY <1>1 DEF Core, HeldInv, Putting, HoldersKept
<1> QED
  BY <1>2 DEF HeldInv, Putting

\* An accepted upload stays on its way, reaches S3, or is given up, but for the end
\* of the process.
LEMMA UploadStays ==
  ASSUME HybridAssumption, Core, HeldInv', Effects, NEW i \in Items,
         stage[i] \in Uploader!InFlight, ~Restart
  PROVE  stage'[i] \in Uploader!InFlight \cup GaveUp \/ remote'[KeyOf[i]] # None
<1>1. CASE HoldersKept
  <2>1. CASE stage[i] \in Waiting
    BY <1>1, <2>1, InFlightKinds DEF HoldersKept, Flow
  <2>2. CASE stage[i] = "putting"
    BY <1>1, <2>2, PuttingStays, InFlightKinds
  <2> QED
    BY <2>1, <2>2, InFlightKinds
<1>2. ASSUME NEW w \in Workers, NEW j \in Items, Reads(w, j)
      PROVE  stage'[i] \in Uploader!InFlight \cup GaveUp
  BY <1>2 DEF Reads, OthersKept, Uploader!InFlight, GaveUp
<1>3. ASSUME NEW w \in Workers, NEW j \in Items, Uploads(w, j)
      PROVE  stage'[i] \in Uploader!InFlight \cup GaveUp \/ remote'[KeyOf[i]] # None
  BY <1>3 DEF Uploads, OthersKept, Uploader!InFlight, GaveUp
<1> QED
  BY <1>1, <1>2, <1>3 DEF Effects

\* A PUT that no DELETE has met is about to be acknowledged: its upload was
\* accepted, or it has uploaded the entry itself.
LEMMA AckedMoves ==
  ASSUME HybridAssumption, Types, NEW p \in Procs, Moves(p), Acks(p)'
  PROVE  Promises(p)'
<1>1. InStep(call[p]) /\ ~GetMoves(p) /\ ~DeleteMoves(p)
  BY DEF Types, GetMoves, DeleteMoves, Goes, Answers, Ends, Acks
<1>2. ~HeadMoves(p)
  <2>1. HeadMoves(p) => call[p].op = "head" /\ Keeps(p)
    BY <1>1 DEF HeadMoves, Goes, Shares, InStep
  <2> QED
    BY <2>1 DEF Keeps, Acks
<1>3. /\ Keeps(p)
      /\ \/ /\ call[p].pc = "send" /\ call'[p].item = call[p].item
            /\ stage'[call[p].item] = "queued"
         \/ call[p].pc = "upload" /\ remote'[call[p].key] = call[p].read
  BY <1>1, <1>2 DEF Moves, PutMoves, Goes, Shares, Acks
<1>4. PICK k \in Keys : k = call[p].key /\ k = call'[p].key
  BY <1>1, <1>3 DEF InStep, Keeps
<1>5. CASE /\ call[p].pc = "send" /\ call'[p].item = call[p].item
           /\ stage'[call[p].item] = "queued"
  <2>1. PICK i \in Items : i = call[p].item /\ KeyOf[i] = k /\ stage'[i] = "queued"
    BY <1>1, <1>4, <1>5 DEF InStep
  <2> QED
    BY <1>4, <1>5, <2>1 DEF Promises, Sends, Uploader!InFlight
<1>6. CASE call[p].pc = "upload" /\ remote'[call[p].key] = call[p].read
  <2>1. remote'[k] # None
    BY <1>1, <1>4, <1>6, HybridAssumption DEF InStep, HybridAssumption
  <2> QED
    BY <1>4, <2>1 DEF Promises
<1> QED
  BY <1>3, <1>5, <1>6

\* No DELETE of an acknowledged key is under way, and none of the key of a PUT
\* that has met none.
LEMMA NoneVanishes ==
  ASSUME KeptInv, NEW k \in Keys,
         k \in acked \/ \E p \in Procs : Acks(p) /\ call[p].key = k
  PROVE  \A q \in Procs : Leads(q) => ~MayVanish(q, k)
<1> SUFFICES ASSUME NEW q \in Procs, call[q].pc # "idle", call[q].op = "delete",
                    call[q].key = k
             PROVE  FALSE
  BY DEF MayVanish, Leads
<1>1. FoundInv /\ Met
  BY DEF KeptInv, FoundInv, SoloInv, Calls
<1>2. k \notin acked
  BY <1>1 DEF FoundInv, Safe
<1>3. ASSUME NEW p \in Procs, Acks(p), call[p].key = k PROVE FALSE
  BY <1>1, <1>3 DEF Acks, Met, Meets
<1> QED
  BY <1>2, <1>3

\* What a PUT promises it still has after every step but the end of the process.
LEMMA PromiseStays ==
  ASSUME HybridAssumption, KeptInv, Effects, HeldInv', ~Restart,
         NEW p \in Procs, Acks(p)
  PROVE  \/ remote'[call[p].key] # None
         \/ \E i \in Items : Sends(p, i) /\ stage'[i] \in Uploader!InFlight \cup GaveUp
<1>1. Core /\ Types /\ Promises(p) /\ call[p].key \in Keys
  BY DEF KeptInv, FoundInv, SoloInv, Calls, Core, Types, InStep, Acks
<1>2. PICK k \in Keys : k = call[p].key
  BY <1>1
<1>3. CASE remote[k] # None
  <2>1. \A q \in Procs : Leads(q) => ~MayVanish(q, k)
    BY <1>2, NoneVanishes
  <2> QED
    BY <1>1, <1>2, <1>3, <2>1, ObjectStays
<1>4. ASSUME NEW i \in Items, Sends(p, i), stage[i] \in Uploader!InFlight
      PROVE  stage'[i] \in Uploader!InFlight \cup GaveUp \/ remote'[k] # None
  BY <1>1, <1>2, <1>4, UploadStays DEF Sends
<1>5. ASSUME NEW i \in Items, Sends(p, i), stage[i] \in GaveUp
      PROVE  stage'[i] \in GaveUp
  BY <1>5, GivenUpStays
<1> QED
  BY <1>1, <1>2, <1>3, <1>4, <1>5 DEF Promises

LEMMA KeptNext ==
  ASSUME HybridAssumption, KeptInv, [Next]_vars
  PROVE  KeptInv' /\ Effects /\ HeldInv'
<1>1. FoundInv' /\ Effects /\ HeldInv' /\ Types
  BY FoundNext DEF KeptInv, FoundInv, SoloInv, Calls, Core
<1>2. ASSUME NEW p \in Procs, Acks(p)', Like(p), ~Restart PROVE Promises(p)'
  <2>1. Acks(p)
    BY <1>2 DEF Acks, Like
  <2>2. \/ remote'[call[p].key] # None
        \/ \E i \in Items : Sends(p, i) /\ stage'[i] \in Uploader!InFlight \cup GaveUp
    BY <1>1, <1>2, <2>1, PromiseStays
  <2>3. call'[p].key = call[p].key /\ \A i \in Items : Sends(p, i) => Sends(p, i)'
    BY <1>2 DEF Like, Sends
  <2> QED
    BY <2>2, <2>3 DEF Promises, Uploader!InFlight
<1>3. call' = call => \A r \in Procs : Like(r)
  BY DEF Like
<1>4. ASSUME NEW p \in Procs, Acks(p)' PROVE Promises(p)'
  <2>1. ASSUME NEW q \in Procs, Moves(q), ~Restart PROVE Promises(p)'
    <3>1. CASE p = q
      BY <1>1, <1>4, <2>1, <3>1, AckedMoves
    <3>2. CASE p # q
      <4>1. Like(p)
        BY <1>1, <2>1, <3>2, MovesAfter DEF Like
      <4> QED
        BY <1>2, <1>4, <2>1, <4>1
    <3> QED
      BY <3>1, <3>2
  <2>2. ASSUME NEW q \in Procs, NEW k \in Keys, NEW op \in Ops, NEW b, Begins(q, op, k, b), ~Restart
        PROVE  Promises(p)'
    <3>1. p # q
      BY <1>4, <2>2, FirstSteps DEF Begins, Ops, Acks
    <3> QED
      BY <1>2, <1>4, <2>2, <3>1 DEF Begins
  <2>3. ASSUME NEW q \in Procs, Ended(q), ~Restart PROVE Promises(p)'
    <3>1. call'[p] = call[p]
      BY <1>4, <2>3 DEF Ended, Acks
    <3> QED
      BY <1>2, <1>4, <2>3, <3>1 DEF Like
  <2>4. ASSUME NEW k \in Keys, Spots(k) \/ Evicts(k), ~Restart PROVE Promises(p)'
    BY <1>2, <1>3, <1>4, <2>4 DEF Spots, Evicts
  <2>5. ASSUME NEW w \in Workers, NEW i \in Items, Reads(w, i) \/ Uploads(w, i), ~Restart
        PROVE  Promises(p)'
    BY <1>2, <1>3, <1>4, <2>5 DEF Reads, Uploads
  <2>6. IdleStep /\ ~Restart => Promises(p)'
    BY <1>2, <1>3, <1>4 DEF IdleStep
  <2>7. ~Restart
    <3>1. \A q \in Procs : Restart => call'[q] = Idle
      BY DEF Restart
    <3> QED
      BY <1>4, <3>1, IdleType DEF Acks
  <2> QED
    BY <1>1, <2>1, <2>2, <2>3, <2>4, <2>5, <2>6, <2>7 DEF Effects
<1> QED
  BY <1>1, <1>4 DEF KeptInv

\* A key that is acknowledged for the first time has what its PUT promised, and one
\* that was acknowledged keeps what it had.
LEMMA KeptStep ==
  ASSUME HybridAssumption, KeptInv, [Next]_vars
  PROVE  KeepsAcked
<1>1. Effects /\ HeldInv' /\ Core /\ Types /\ FoundInv /\ acked \subseteq Keys
  BY KeptNext DEF KeptInv, FoundInv, SoloInv, Calls, Core, Types
<1> SUFFICES ASSUME NEW k \in acked', ~Restart
             PROVE  Kept(k)' \/ (k \in acked /\ ~Kept(k)) \/ GivesUp(k)
  BY DEF KeepsAcked
<1>2. CASE k \in acked
  <2>1. \A q \in Procs : Leads(q) => ~MayVanish(q, k)
    BY <1>1, <1>2, NoneVanishes
  <2>2. CASE remote[k] # None
    BY <1>1, <1>2, <2>1, <2>2, ObjectStays DEF Kept
  <2>3. ASSUME NEW i \in Items, KeyOf[i] = k, stage[i] \in Uploader!InFlight
        PROVE  Kept(k)' \/ GivesUp(k)
    <3>1. stage'[i] \in Uploader!InFlight \cup GaveUp \/ remote'[k] # None
      BY <1>1, <2>3, UploadStays
    <3>2. stage'[i] \in Uploader!InFlight => OnItsWay(k)'
      BY <2>3 DEF OnItsWay, Uploader!InFlight
    <3> QED
      BY <2>3, <3>1, <3>2 DEF Kept, GivesUp
  <2> QED
    BY <1>2, <2>2, <2>3 DEF Kept, OnItsWay
<1>3. CASE k \notin acked
  <2>1. PICK q \in Procs : Ended(q)
    BY <1>1, <1>3 DEF Effects, Begins, Moves, Frame, Spots, Evicts, Reads, Uploads,
       IdleStep, Restarts
  <2>2. Acks(q) /\ k = call[q].key
    <3>1. /\ call[q].op = "put" /\ call[q].status = "ok" /\ call[q].met \subseteq {"get"}
          /\ k = call[q].key /\ call[q].pc = "share"
      BY <1>3, <2>1 DEF Ended
    <3> QED
      BY <3>1 DEF Acks
  <2>3. \/ remote'[k] # None
        \/ \E i \in Items : Sends(q, i) /\ stage'[i] \in Uploader!InFlight \cup GaveUp
    BY <1>1, <2>2, PromiseStays
  <2>4. ASSUME NEW i \in Items, Sends(q, i), stage'[i] \in Uploader!InFlight PROVE OnItsWay(k)'
    BY <2>2, <2>4 DEF Sends, OnItsWay, Uploader!InFlight
  <2>5. ASSUME NEW i \in Items, Sends(q, i), stage'[i] \in GaveUp PROVE GivesUp(k)
    BY <2>2, <2>5 DEF Sends, GivesUp, Acks
  <2> QED
    BY <2>3, <2>4, <2>5 DEF Kept
<1> QED
  BY <1>2, <1>3

LEMMA KeptStart == HybridAssumption /\ Init => KeptInv
BY FoundStart DEF Init, Idle, KeptInv, Acks

\* As long as the process runs, a key that was acknowledged and not deleted since has
\* an object in S3 or an upload on its way until the uploader gives one up, through
\* full queues, failures of S3, retries and Stop (hybrid.go:104-139,
\* async_s3.go:69-134): states Hybrid!AckedNotForgotten.
THEOREM AckedAreKept == Spec => AckedNotForgotten
<1>1. Init => KeptInv
  BY KeptStart, HybridAssumption
<1>2. KeptInv /\ [Next]_vars => KeptInv'
  BY KeptNext, HybridAssumption
<1>3. KeptInv /\ [Next]_vars => KeepsAcked
  BY KeptStep, HybridAssumption
<1> QED
  BY <1>1, <1>2, <1>3, PTL DEF Spec, AckedNotForgotten

-----------------------------------------------------------------------------
\* Of a key one PUT at a time writes the entry, opens it again or uploads it, and
\* one HEAD at a time asks the stores; who else writes an entry of the key at the
\* same time is a GET that stores what it has read from S3, which is why LocalStore
\* is looked at without SerialPuts too.
Writing(p) == call[p].pc \in {"store", "backfill"}
InPut(p) == call[p].pc \in {"store", "enqueue", "send", "reread", "upload"}
SerialPerKey == \A p, q \in Procs : p # q /\ call[p].key = call[q].key =>
  /\ ~(InPut(p) /\ InPut(q))
  /\ ~({call[p].pc, call[q].pc} \subseteq {"probe", "ask"})
  /\ Writing(p) /\ Writing(q) => "get" \in {call[p].op, call[q].op}

\* The group makes the PUTs and the HEADs of a key serial, over requests that come
\* and go, failures and restarts of the server, and leaves a GET's backfill as the
\* only call of local.Put that can run beside another one of the key
\* (singleflight.go:46-51, hybrid.go:72-83 and 104-139).
THEOREM OnlyBackfillsOverlap == Spec => []SerialPerKey
<1>1. Calls => SerialPerKey
  <2> SUFFICES ASSUME Calls, NEW p \in Procs, NEW q \in Procs, p # q, call[p].key = call[q].key
               PROVE  /\ ~(InPut(p) /\ InPut(q))
                      /\ ~({call[p].pc, call[q].pc} \subseteq {"probe", "ask"})
                      /\ Writing(p) /\ Writing(q) => "get" \in {call[p].op, call[q].op}
    BY DEF SerialPerKey
  <2>1. InStep(call[p]) /\ InStep(call[q])
    BY DEF Calls, Core, Types
  <2>2. ~(Leads(p) /\ Leads(q) /\ call[p].op \in Shared /\ call[q].op = call[p].op)
    BY DEF Calls, OneLeader
  <2>3. ~(InPut(p) /\ InPut(q)) /\ ~({call[p].pc, call[q].pc} \subseteq {"probe", "ask"})
    BY <2>1, <2>2 DEF InStep, Leads, Shared, InPut
  <2>4. Writing(p) /\ Writing(q) => "get" \in {call[p].op, call[q].op}
    BY <2>1, <2>3 DEF InStep, Writing, InPut
  <2> QED
    BY <2>3, <2>4
<1>2. Init => Calls
  BY CallsStart, HybridAssumption
<1>3. Calls /\ [Next]_vars => Calls'
  BY CallsNext, HybridAssumption
<1> QED
  BY <1>1, <1>2, <1>3, PTL DEF Spec
=============================================================================
