------------------------ MODULE AsyncUploaderProofs ------------------------
(***************************************************************************)
(* Proofs about AsyncUploader, for every number of items and workers and   *)
(* every queue size and retry limit: no item is lost or handled twice, the *)
(* queue and the tries stay within their bounds, and Stop leaves neither a *)
(* queued item nor a running worker.                                       *)
(***************************************************************************)
EXTENDS AsyncUploader, TLAPS

Handled == {"taken", "putting"}

\* The queue holds exactly the queued items, each at one place.
QueueInv ==
  /\ \A n \in 1..Len(queue) : stage[queue[n]] = "queued"
  /\ \A m, n \in 1..Len(queue) : queue[m] = queue[n] => m = n
  /\ \A i \in Items : stage[i] = "queued" => \E n \in 1..Len(queue) : queue[n] = i

\* The workers hold exactly the items being handled, each one worker's.
WorkerInv ==
  /\ \A w \in Workers : worker[w] \in Items => stage[worker[w]] \in Handled
  /\ \A v, w \in Workers : worker[v] \in Items /\ worker[v] = worker[w] => v = w
  /\ \A i \in Items : stage[i] \in Handled => \E w \in Workers : worker[w] = i

\* The tries are counted from 0.
TriesInv ==
  /\ TriesRespected
  /\ \A i \in Items : stage[i] \in {"new", "checked"} => attempts[i] = 0

\* Before Start, and after a Stop that came first, nothing is under way; a
\* started uploader has its workers until the queue is closed and empty.
NeverStarted == ~running /\ ~closed /\ stopper \in {"idle", "returned"}
StopInv ==
  /\ running => stopper = "idle"
  /\ stopper = "waiting" => closed
  /\ closed => stopper \in {"waiting", "returned"}
  /\ NeverStarted =>
       /\ queue = <<>> /\ \A w \in Workers : worker[w] = Exited
       /\ \A i \in Items : stage[i] \notin InFlight \cup {"checked"}
  /\ (\E w \in Workers : worker[w] = Exited) => NeverStarted \/ (closed /\ queue = <<>>)
  /\ stopper = "returned" => queue = <<>> /\ \A w \in Workers : worker[w] = Exited

Inv == TypeOK /\ QueueInv /\ WorkerInv /\ TriesInv /\ StopInv

-----------------------------------------------------------------------------
\* One item moves, the others stay.
LEMMA Moved ==
  ASSUME TypeOK, NEW i \in Items, NEW s \in Stages, Move(i, s)
  PROVE  /\ stage' \in [Items -> Stages] /\ stage'[i] = s
         /\ \A j \in Items : j # i => stage'[j] = stage[j]
BY DEF TypeOK, Move

\* An item that is not queued goes elsewhere than into the queue.
LEMMA QueueKept ==
  ASSUME TypeOK, QueueInv, NEW i \in Items, NEW s \in Stages, Move(i, s),
         UNCHANGED queue, stage[i] # "queued", s # "queued"
  PROVE  QueueInv'
<1>1. \A n \in 1..Len(queue) : queue[n] \in Items
  BY DEF TypeOK
<1> QED
  BY <1>1, Moved DEF QueueInv

\* An item no worker handles goes elsewhere than to a worker.
LEMMA WorkerKept ==
  ASSUME TypeOK, WorkerInv, NEW i \in Items, NEW s \in Stages, Move(i, s),
         UNCHANGED worker, stage[i] \notin Handled, s \notin Handled
  PROVE  WorkerInv'
BY Moved DEF WorkerInv

\* A worker is done with its item.
LEMMA WorkerFreed ==
  ASSUME TypeOK, WorkerInv, NEW w \in Workers, worker[w] \in Items,
         NEW s \in Stages, Move(worker[w], s), s \notin Handled,
         worker' = [worker EXCEPT ![w] = Free]
  PROVE  WorkerInv'
<1> DEFINE i == worker[w]
<1>1. worker'[w] = Free /\ \A v \in Workers : v # w => worker'[v] = worker[v]
  BY DEF TypeOK
<1>2. stage'[i] = s /\ \A j \in Items : j # i => stage'[j] = stage[j]
  BY Moved
<1>3. \A v \in Workers : worker'[v] \in Items =>
        v # w /\ worker'[v] = worker[v] /\ worker'[v] # i
  BY <1>1, UploaderAssumption DEF WorkerInv
<1>4. \A v \in Workers : worker'[v] \in Items => stage'[worker'[v]] \in Handled
  BY <1>2, <1>3 DEF WorkerInv
<1>5. \A u, v \in Workers : worker'[u] \in Items /\ worker'[u] = worker'[v] => u = v
  BY <1>3 DEF WorkerInv
<1>6. ASSUME NEW j \in Items, stage'[j] \in Handled
      PROVE  \E v \in Workers : worker'[v] = j
  <2>1. j # i /\ stage[j] \in Handled
    BY <1>2, <1>6
  <2>2. PICK v \in Workers : worker[v] = j
    BY <2>1 DEF WorkerInv
  <2> QED
    BY <1>1, <2>1, <2>2
<1> QED
  BY <1>4, <1>5, <1>6 DEF WorkerInv

\* An item is appended to the queue.
LEMMA Appended ==
  ASSUME TypeOK, QueueInv, NEW i \in Items, Move(i, "queued"), stage[i] # "queued",
         queue' = Append(queue, i)
  PROVE  QueueInv'
<1> DEFINE n == Len(queue)
<1>1. n \in Nat /\ Len(queue') = n + 1 /\ queue'[n + 1] = i
  BY DEF TypeOK
<1>2. \A m \in 1..n : queue'[m] = queue[m] /\ queue[m] \in Items /\ queue[m] # i
  BY DEF TypeOK, QueueInv
<1>3. stage'[i] = "queued" /\ \A j \in Items : j # i => stage'[j] = stage[j]
  BY Moved DEF Stages, InFlight
<1>4. \A m \in 1..Len(queue') : m \in 1..n \/ m = n + 1
  BY <1>1
<1>5. \A m \in 1..Len(queue') : stage'[queue'[m]] = "queued"
  BY <1>1, <1>2, <1>3, <1>4 DEF QueueInv
<1>6. \A l, m \in 1..Len(queue') : queue'[l] = queue'[m] => l = m
  BY <1>1, <1>2, <1>4 DEF QueueInv
<1>7. ASSUME NEW j \in Items, stage'[j] = "queued"
      PROVE  \E m \in 1..Len(queue') : queue'[m] = j
  <2>1. CASE j = i
    BY <1>1, <2>1
  <2>2. CASE j # i
    <3>1. PICK m \in 1..n : queue[m] = j
      BY <1>3, <1>7, <2>2 DEF QueueInv
    <3> QED
      BY <1>1, <1>2, <3>1
  <2> QED
    BY <2>1, <2>2
<1> QED
  BY <1>5, <1>6, <1>7 DEF QueueInv

\* The first item leaves the queue.
LEMMA Received ==
  ASSUME TypeOK, QueueInv, queue # <<>>, Move(Head(queue), "taken"),
         queue' = Tail(queue)
  PROVE  QueueInv'
<1> DEFINE n == Len(queue)
           i == Head(queue)
<1>1. n \in Nat \ {0} /\ Len(queue') = n - 1 /\ i = queue[1] /\ i \in Items
  BY DEF TypeOK
<1>2. \A m \in 1..Len(queue') :
        m + 1 \in 1..n /\ queue'[m] = queue[m + 1] /\ queue'[m] \in Items
  BY <1>1 DEF TypeOK
<1>3. \A m \in 1..Len(queue') : queue'[m] # i
  <2>1. \A m \in 1..Len(queue') : m + 1 # 1
    OBVIOUS
  <2> QED
    BY <1>1, <1>2, <2>1 DEF QueueInv
<1>4. stage'[i] = "taken" /\ \A j \in Items : j # i => stage'[j] = stage[j]
  BY <1>1, Moved DEF Stages, InFlight
<1>5. \A m \in 1..Len(queue') : stage'[queue'[m]] = "queued"
  BY <1>2, <1>3, <1>4 DEF QueueInv
<1>6. \A l, m \in 1..Len(queue') : queue'[l] = queue'[m] => l = m
  BY <1>2 DEF QueueInv
<1>7. ASSUME NEW j \in Items, stage'[j] = "queued"
      PROVE  \E m \in 1..Len(queue') : queue'[m] = j
  <2>1. j # i /\ stage[j] = "queued"
    BY <1>4, <1>7
  <2>2. PICK m \in 1..n : queue[m] = j
    BY <2>1 DEF QueueInv
  <2>3. m # 1 /\ m - 1 \in 1..Len(queue')
    BY <1>1, <2>1, <2>2
  <2>4. queue'[m - 1] = queue[m]
    BY <1>2, <2>3
  <2> QED
    BY <2>2, <2>3, <2>4
<1> QED
  BY <1>5, <1>6, <1>7 DEF QueueInv

\* An item moves without a try being counted.
LEMMA TriesKept ==
  ASSUME TypeOK, TriesInv, NEW i \in Items, NEW s \in Stages, Move(i, s),
         UNCHANGED attempts, s \notin {"gaveUp", "sleeping", "new"},
         s \in InFlight => attempts[i] < MaxRetry,
         s = "checked" => attempts[i] = 0
  PROVE  TriesInv'
BY Moved DEF TriesInv, TriesRespected

\* An item moves between stages that NeverStarted does not know, while queue
\* and workers stay, or before Start is refused.
LEMMA StopKept ==
  ASSUME TypeOK, StopInv, NEW i \in Items, NEW s \in Stages, Move(i, s),
         UNCHANGED <<running, closed, queue, worker, stopper>>,
         NeverStarted => s = "refused"
  PROVE  StopInv'
<1>1. stage' \in [Items -> Stages] /\ stage'[i] = s /\ \A j \in Items : j # i => stage'[j] = stage[j]
  BY Moved
<1>2. NeverStarted' <=> NeverStarted
  BY DEF NeverStarted
<1>3. NeverStarted => \A j \in Items : stage'[j] \notin InFlight \cup {"checked"}
  BY <1>1 DEF StopInv, InFlight
<1> QED
  BY <1>2, <1>3 DEF StopInv

\* Nothing the invariant speaks of changes.
LEMMA Stutter ==
  ASSUME Inv, UNCHANGED <<running, closed, queue, stage, attempts, worker, stopper>>,
         crashed' \in BOOLEAN
  PROVE  Inv'
<1>1. TypeOK'
  BY DEF Inv, TypeOK
<1>2. QueueInv' /\ WorkerInv'
  BY DEF Inv, QueueInv, WorkerInv
<1>3. TriesInv' /\ StopInv'
  BY DEF Inv, TriesInv, TriesRespected, StopInv, NeverStarted
<1> QED
  BY <1>1, <1>2, <1>3 DEF Inv

\* The invariant holds before Start.
LEMMA InitInv == Init => Inv
<1> SUFFICES ASSUME Init PROVE Inv
  OBVIOUS
<1>1. TypeOK
  <2>1. queue \in Seq(Items) /\ Len(queue) = 0
    BY DEF Init
  <2>2. Len(queue) <= QueueSize /\ 0 \in 0..MaxRetry
    BY <2>1, UploaderAssumption
  <2>3. "new" \in Stages
    BY DEF Stages
  <2> QED
    BY <2>1, <2>2, <2>3 DEF Init, TypeOK
<1>2. QueueInv /\ WorkerInv
  BY UploaderAssumption DEF Init, QueueInv, WorkerInv, Handled
<1>3. TriesInv /\ StopInv
  BY DEF Init, TriesInv, TriesRespected, InFlight, StopInv, NeverStarted
<1> QED
  BY <1>1, <1>2, <1>3 DEF Inv

\* Start: no worker had an item.
LEMMA StartInv == ASSUME Inv, Start PROVE Inv'
<1>1. NeverStarted
  BY DEF Start, Inv, StopInv, NeverStarted
<1>2. TypeOK'
  BY DEF Start, Inv, TypeOK
<1>3. QueueInv' /\ TriesInv'
  BY DEF Start, Inv, QueueInv, TriesInv, TriesRespected
<1>4. \A w \in Workers : worker'[w] = Free
  BY DEF Start
<1>5. WorkerInv'
  <2>1. \A i \in Items : stage'[i] \notin Handled
    BY <1>1 DEF Start, Inv, StopInv, Handled, InFlight
  <2> QED
    BY <1>4, <2>1, UploaderAssumption DEF WorkerInv
<1>6. StopInv'
  BY <1>1, <1>4, UploaderAssumption DEF Start, Inv, StopInv, NeverStarted
<1> QED
  BY <1>2, <1>3, <1>5, <1>6 DEF Inv

\* Enqueue reads the flag.
LEMMA CheckInv == ASSUME Inv, NEW i \in Items, EnqueueCheck(i) PROVE Inv'
<1>1. PICK s \in {"checked", "refused"} : Move(i, s) /\ (NeverStarted => s = "refused")
  BY DEF EnqueueCheck, NeverStarted
<1>2. s \in Stages /\ s \notin InFlight /\ stage[i] = "new"
  BY DEF Stages, InFlight, EnqueueCheck
<1>3. TypeOK'
  BY <1>1, <1>2, Moved DEF EnqueueCheck, Inv, TypeOK
<1>4. QueueInv' /\ WorkerInv'
  BY <1>1, <1>2, QueueKept, WorkerKept DEF EnqueueCheck, Inv, TypeOK, Handled
<1>5. TriesInv'
  <2>1. attempts[i] = 0
    BY <1>2 DEF Inv, TriesInv
  <2> QED
    BY <1>1, <1>2, <2>1, TriesKept DEF EnqueueCheck, Inv, TypeOK
<1>6. StopInv'
  BY <1>1, <1>2, StopKept DEF EnqueueCheck, Inv, TypeOK
<1> QED
  BY <1>3, <1>4, <1>5, <1>6 DEF Inv

\* An item that was checked or slept is sent to a queue that has room.
LEMMA SendInv ==
  ASSUME Inv, NEW i \in Items, stage[i] \in {"checked", "sleeping"}, ~closed, HasRoom,
         queue' = Append(queue, i), Move(i, "queued"), crashed' = crashed,
         UNCHANGED <<running, closed, attempts, worker, stopper>>
  PROVE  Inv'
<1>1. "queued" \in Stages /\ "queued" \in InFlight
  BY DEF Stages, InFlight
<1>2. attempts[i] < MaxRetry
  BY UploaderAssumption DEF Inv, TriesInv, TriesRespected, InFlight
<1>3. TypeOK'
  BY <1>1, Moved, UploaderAssumption DEF HasRoom, Inv, TypeOK
<1>4. QueueInv' /\ WorkerInv'
  BY <1>1, Appended, WorkerKept DEF Inv, TypeOK, Handled
<1>5. TriesInv'
  BY <1>1, <1>2, TriesKept DEF Inv, TypeOK
<1>6. StopInv'
  <2>1. stage[i] \in InFlight \cup {"checked"}
    BY DEF InFlight
  <2>2. ~NeverStarted
    BY <2>1 DEF Inv, StopInv
  <2>3. stopper # "returned" /\ \A w \in Workers : worker[w] # Exited
    BY <2>2 DEF Inv, StopInv, NeverStarted
  <2> QED
    BY <2>2, <2>3 DEF Inv, StopInv, NeverStarted
<1> QED
  BY <1>3, <1>4, <1>5, <1>6 DEF Inv

\* An item that was checked or slept is not sent.
LEMMA DropInv ==
  ASSUME Inv, NEW i \in Items, stage[i] \in {"checked", "sleeping"},
         NEW s \in {"panicked", "refused", "dropped"}, Move(i, s), crashed' = crashed,
         UNCHANGED <<running, closed, queue, attempts, worker, stopper>>
  PROVE  Inv'
<1>1. s \in Stages /\ s \notin InFlight
  BY DEF Stages, InFlight, Settled
<1>2. TypeOK'
  BY <1>1, Moved DEF Inv, TypeOK
<1>3. QueueInv' /\ WorkerInv'
  BY <1>1, QueueKept, WorkerKept DEF Inv, TypeOK, Handled
<1>4. TriesInv'
  BY <1>1, TriesKept DEF Inv, TypeOK
<1>5. StopInv'
  <2>1. ~NeverStarted
    BY DEF Inv, StopInv, InFlight
  <2> QED
    BY <1>1, <2>1, StopKept DEF Inv, TypeOK
<1> QED
  BY <1>2, <1>3, <1>4, <1>5 DEF Inv

\* A worker receives the first item.
LEMMA TakeInv == ASSUME Inv, NEW w \in Workers, Take(w) PROVE Inv'
<1> DEFINE i == Head(queue)
<1>1. i \in Items /\ stage[i] = "queued" /\ 1 \in 1..Len(queue) /\ i = queue[1]
  BY DEF Take, Inv, TypeOK, QueueInv
<1>2. Move(i, "taken") /\ queue' = Tail(queue) /\ "taken" \in Stages
  BY DEF Take, ReceiveQueue, Stages, InFlight
<1>3. worker[w] = Free /\ worker' = [worker EXCEPT ![w] = i]
  BY DEF Take
<1>4. TypeOK'
  BY <1>1, <1>2, <1>3, Moved, UploaderAssumption
     DEF Take, Inv, TypeOK
<1>5. QueueInv'
  BY <1>2, Received DEF Take, Inv, TypeOK
<1>6. WorkerInv'
  <2>1. worker'[w] = i /\ \A v \in Workers : v # w => worker'[v] = worker[v]
    BY <1>3 DEF Inv, TypeOK
  <2>2. stage'[i] = "taken" /\ \A j \in Items : j # i => stage'[j] = stage[j]
    BY <1>1, <1>2, Moved DEF Inv, TypeOK
  <2>3. \A v \in Workers : v # w /\ worker[v] \in Items => worker[v] # i
    BY <1>1 DEF Inv, WorkerInv, Handled
  <2>4. \A v \in Workers : worker'[v] \in Items => stage'[worker'[v]] \in Handled
    BY <2>1, <2>2, <2>3 DEF Inv, WorkerInv, Handled
  <2>5. \A u, v \in Workers : worker'[u] \in Items /\ worker'[u] = worker'[v] => u = v
    BY <2>1, <2>3 DEF Inv, WorkerInv
  <2>6. ASSUME NEW j \in Items, stage'[j] \in Handled
        PROVE  \E v \in Workers : worker'[v] = j
    <3>1. CASE j = i
      BY <2>1, <3>1
    <3>2. CASE j # i
      <4>1. PICK v \in Workers : worker[v] = j
        BY <2>2, <2>6, <3>2 DEF Inv, WorkerInv
      <4> QED
        BY <1>3, <2>1, <4>1, UploaderAssumption
    <3> QED
      BY <3>1, <3>2
  <2> QED
    BY <2>4, <2>5, <2>6 DEF WorkerInv
<1>7. TriesInv'
  <2>1. attempts[i] < MaxRetry
    BY <1>1 DEF Inv, TriesInv, TriesRespected, InFlight
  <2> QED
    BY <1>1, <1>2, <2>1, TriesKept DEF Take, Inv, TypeOK
<1>8. StopInv'
  <2>1. ~NeverStarted /\ stopper # "returned"
    BY DEF Take, Inv, StopInv
  <2>2. \A v \in Workers : worker[v] # Exited /\ worker'[v] # Exited
    BY <1>1, <1>3, <2>1, UploaderAssumption DEF Take, Inv, StopInv, TypeOK
  <2> QED
    BY <2>1, <2>2 DEF Take, Inv, StopInv, NeverStarted
<1> QED
  BY <1>4, <1>5, <1>6, <1>7, <1>8 DEF Inv

\* A worker returns: the queue is closed and empty.
LEMMA ExitInv == ASSUME Inv, NEW w \in Workers, Exit(w) PROVE Inv'
<1>1. TypeOK'
  BY DEF Exit, Inv, TypeOK
<1>2. QueueInv' /\ TriesInv'
  BY DEF Exit, Inv, QueueInv, TriesInv, TriesRespected
<1>3. worker'[w] = Exited /\ \A v \in Workers : v # w => worker'[v] = worker[v]
  BY DEF Exit, Inv, TypeOK
<1>4. WorkerInv'
  BY <1>3, UploaderAssumption DEF Exit, Inv, WorkerInv
<1>5. StopInv'
  BY <1>3, UploaderAssumption DEF Exit, SeesEnd, Inv, StopInv, NeverStarted
<1> QED
  BY <1>1, <1>2, <1>4, <1>5 DEF Inv

\* A worker that handles an item has not returned, so Start came before.
LEMMA HandlingStarted ==
  ASSUME Inv, NEW w \in Workers, worker[w] \in Items, stage[worker[w]] \in Handled
  PROVE  ~NeverStarted /\ stopper # "returned"
BY UploaderAssumption DEF Inv, StopInv, Handled

\* The workers that have returned are the same after w lets go of its item.
LEMMA StopFreed ==
  ASSUME Inv, NEW w \in Workers, worker[w] \in Items, stage[worker[w]] \in Handled,
         worker' = [worker EXCEPT ![w] = Free],
         UNCHANGED <<running, closed, queue, stopper>>
  PROVE  StopInv'
<1>1. ~NeverStarted /\ stopper # "returned"
  BY HandlingStarted
<1>2. \A v \in Workers : worker'[v] = Exited => worker[v] = Exited
  BY UploaderAssumption DEF Inv, TypeOK
<1> QED
  BY <1>1, <1>2 DEF Inv, StopInv, NeverStarted

\* A worker finds the local entry, and goes on with its item.
LEMMA ReadInv ==
  ASSUME Inv, NEW w \in Workers, worker[w] \in Items, stage[worker[w]] = "taken",
         Move(worker[w], "putting"), crashed' = crashed,
         UNCHANGED <<running, closed, queue, attempts, worker, stopper>>
  PROVE  Inv'
<1> DEFINE i == worker[w]
<1>1. "putting" \in Stages /\ "putting" \in InFlight
  BY DEF Stages, InFlight
<1>2. TypeOK'
  BY <1>1, Moved DEF Inv, TypeOK
<1>3. QueueInv'
  BY <1>1, QueueKept DEF Inv, TypeOK
<1>4. WorkerInv'
  BY <1>1, Moved DEF Inv, TypeOK, WorkerInv, Handled
<1>5. TriesInv'
  <2>1. attempts[i] < MaxRetry
    BY DEF Inv, TriesInv, TriesRespected, InFlight
  <2> QED
    BY <1>1, <2>1, TriesKept DEF Inv, TypeOK
<1>6. StopInv'
  <2>1. ~NeverStarted
    BY HandlingStarted DEF Handled
  <2> QED
    BY <1>1, <2>1, StopKept DEF Inv, TypeOK
<1> QED
  BY <1>2, <1>3, <1>4, <1>5, <1>6 DEF Inv

\* A worker is done with an item and no try is counted.
LEMMA DoneInv ==
  ASSUME Inv, NEW w \in Workers, worker[w] \in Items, stage[worker[w]] \in Handled,
         NEW s \in {"uploaded", "missing"}, Move(worker[w], s), crashed' = crashed,
         worker' = [worker EXCEPT ![w] = Free],
         UNCHANGED <<running, closed, queue, attempts, stopper>>
  PROVE  Inv'
<1>1. s \in Stages /\ s \notin InFlight /\ s \notin Handled
  BY DEF Stages, Settled, InFlight, Handled
<1>2. TypeOK'
  BY <1>1, Moved DEF Inv, TypeOK
<1>3. QueueInv' /\ WorkerInv'
  BY <1>1, QueueKept, WorkerFreed DEF Inv, TypeOK, Handled
<1>4. TriesInv'
  BY <1>1, TriesKept DEF Inv, TypeOK
<1>5. StopInv'
  BY StopFreed
<1> QED
  BY <1>2, <1>3, <1>4, <1>5 DEF Inv

\* A failed upload counts a try and sleeps while a try is left.
LEMMA FailInv == ASSUME Inv, NEW w \in Workers, PutFails(w) PROVE Inv'
<1> DEFINE i == worker[w]
           s == IF MayRetry(attempts[i] + 1) THEN "sleeping" ELSE "gaveUp"
<1>1. i \in Items /\ stage[i] = "putting" /\ stage[i] \in Handled
  BY DEF PutFails, Handled
<1>2. s \in Stages /\ s \notin Handled /\ s # "queued" /\ Move(i, s)
  BY DEF PutFails, Stages, InFlight, Settled, Handled
<1>3. attempts'[i] = attempts[i] + 1 /\ \A j \in Items : j # i => attempts'[j] = attempts[j]
  BY <1>1 DEF PutFails, CountsTry, Inv, TypeOK
<1>4. attempts[i] \in 0..MaxRetry /\ attempts[i] < MaxRetry
  BY <1>1 DEF Inv, TypeOK, TriesInv, TriesRespected, InFlight
<1>5. stage' \in [Items -> Stages] /\ stage'[i] = s
        /\ \A j \in Items : j # i => stage'[j] = stage[j]
  BY <1>1, <1>2, Moved DEF Inv, TypeOK
<1>6. attempts' \in [Items -> 0..MaxRetry]
  <2>1. attempts[i] + 1 \in 0..MaxRetry
    BY <1>4, UploaderAssumption
  <2> QED
    BY <1>1, <2>1 DEF PutFails, CountsTry, Inv, TypeOK
<1>7. TypeOK'
  BY <1>5, <1>6 DEF PutFails, Inv, TypeOK
<1>8. QueueInv' /\ WorkerInv'
  BY <1>1, <1>2, QueueKept, WorkerFreed DEF PutFails, Inv, TypeOK
<1>9. TriesInv'
  <2>1. attempts'[i] > 0 /\ attempts'[i] <= MaxRetry
    BY <1>3, <1>4, UploaderAssumption
  <2>2. MayRetry(attempts[i] + 1) <=> attempts'[i] < MaxRetry
    BY <1>3 DEF MayRetry
  <2>3. \/ s = "gaveUp" /\ attempts'[i] = MaxRetry
        \/ s = "sleeping" /\ attempts'[i] < MaxRetry
    <3>1. CASE attempts'[i] < MaxRetry
      BY <2>2, <3>1
    <3>2. CASE ~(attempts'[i] < MaxRetry)
      <4>1. attempts'[i] = MaxRetry
        BY <2>1, <3>2, <1>3, <1>4, UploaderAssumption
      <4> QED
        BY <2>2, <3>2, <4>1
    <3> QED
      BY <3>1, <3>2
  <2> QED
    BY <1>3, <1>5, <2>1, <2>3 DEF Inv, TriesInv, TriesRespected, InFlight
<1>10. StopInv'
  BY <1>1, StopFreed DEF PutFails
<1> QED
  BY <1>7, <1>8, <1>9, <1>10 DEF Inv

\* Stop: what it returns after.
LEMMA StopperInv == ASSUME Inv, StopBegin \/ StopClose \/ StopReturn PROVE Inv'
<1>1. TypeOK'
  BY DEF StopBegin, StopClose, StopReturn, Inv, TypeOK
<1>2. QueueInv' /\ WorkerInv' /\ TriesInv'
  BY DEF StopBegin, StopClose, StopReturn, Inv, QueueInv, WorkerInv, TriesInv,
         TriesRespected
<1>3. ASSUME StopBegin PROVE StopInv'
  <2>1. ~running' /\ ~closed /\ stopper = "idle"
    BY <1>3 DEF StopBegin, Inv, StopInv
  <2>2. UNCHANGED <<closed, queue, stage, worker>>
    BY <1>3 DEF StopBegin
  <2>3. CASE running
    <3>1. stopper' = "closing"
      BY <1>3, <2>3 DEF StopBegin
    <3> QED
      BY <2>1, <2>2, <2>3, <3>1 DEF Inv, StopInv, NeverStarted
  <2>4. CASE ~running
    <3>1. stopper' = "returned"
      BY <1>3, <2>4 DEF StopBegin
    <3>2. NeverStarted
      BY <2>1, <2>4 DEF NeverStarted
    <3> QED
      BY <2>1, <2>2, <3>1, <3>2 DEF Inv, StopInv, NeverStarted
  <2> QED
    BY <2>3, <2>4
<1>4. ASSUME StopClose PROVE StopInv'
  <2>1. closed' /\ stopper' = "waiting" /\ ~running' /\ UNCHANGED <<queue, stage, worker>>
    BY <1>4 DEF StopClose, Inv, StopInv
  <2>2. ~NeverStarted' /\ stopper = "closing"
    BY <1>4, <2>1 DEF StopClose, NeverStarted
  <2>3. \A w \in Workers : worker[w] # Exited
    BY <2>2 DEF Inv, StopInv, NeverStarted
  <2> QED
    BY <2>1, <2>2, <2>3 DEF StopInv, NeverStarted
<1>5. ASSUME StopReturn PROVE StopInv'
  <2>1. closed /\ queue = <<>> /\ \A w \in Workers : worker[w] = Exited
    BY <1>5, UploaderAssumption DEF StopReturn, WorkersDone, Inv, StopInv, NeverStarted
  <2>2. closed' /\ ~running' /\ stopper' = "returned" /\ UNCHANGED <<queue, worker>>
    BY <1>5, <2>1 DEF StopReturn, Inv, StopInv
  <2>3. ~NeverStarted'
    BY <2>2 DEF NeverStarted
  <2> QED
    BY <2>1, <2>2, <2>3 DEF StopInv, NeverStarted
<1> QED
  BY <1>1, <1>2, <1>3, <1>4, <1>5 DEF Inv

\* Every step keeps the invariant.
LEMMA NextInv == Inv /\ [Next]_vars => Inv'
<1> SUFFICES ASSUME Inv, [Next]_vars PROVE Inv'
  OBVIOUS
<1>1. CASE Start
  BY <1>1, StartInv
<1>2. ASSUME NEW i \in Items, EnqueueCheck(i) PROVE Inv'
  BY <1>2, CheckInv
<1>3. ASSUME NEW i \in Items, EnqueueSend(i) PROVE Inv'
  <2>1. CASE ~closed /\ HasRoom
    BY <1>3, <2>1, SendInv DEF EnqueueSend
  <2>2. CASE ~(~closed /\ HasRoom)
    BY <1>3, <2>2, DropInv DEF EnqueueSend
  <2> QED
    BY <2>1, <2>2
<1>4. ASSUME NEW i \in Items, RetryWake(i) PROVE Inv'
  <2>1. CASE closed
    BY <1>4, <2>1, Stutter DEF RetryWake
  <2>2. CASE ~closed /\ HasRoom
    BY <1>4, <2>2, SendInv DEF RetryWake
  <2>3. CASE ~closed /\ ~HasRoom
    BY <1>4, <2>3, DropInv DEF RetryWake
  <2> QED
    BY <2>1, <2>2, <2>3
<1>5. ASSUME NEW w \in Workers, Take(w) \/ Exit(w) PROVE Inv'
  BY <1>5, TakeInv, ExitInv
<1>6. ASSUME NEW w \in Workers, ReadLocal(w) PROVE Inv'
  <2>1. worker[w] \in Items /\ stage[worker[w]] = "taken" /\ stage[worker[w]] \in Handled
    BY <1>6 DEF ReadLocal, Handled
  <2>2. CASE Move(worker[w], "putting") /\ UNCHANGED worker
    BY <1>6, <2>1, <2>2, ReadInv DEF ReadLocal
  <2>3. CASE Move(worker[w], "missing") /\ worker' = [worker EXCEPT ![w] = Free]
    BY <1>6, <2>1, <2>3, DoneInv DEF ReadLocal
  <2> QED
    BY <1>6, <2>2, <2>3 DEF ReadLocal
<1>7. ASSUME NEW w \in Workers, PutSucceeds(w) PROVE Inv'
  <2>1. worker[w] \in Items /\ stage[worker[w]] \in Handled
    BY <1>7 DEF PutSucceeds, Handled
  <2> QED
    BY <1>7, <2>1, DoneInv DEF PutSucceeds
<1>8. ASSUME NEW w \in Workers, PutFails(w) PROVE Inv'
  BY <1>8, FailInv
<1>9. CASE StopBegin \/ StopStep
  BY <1>9, StopperInv DEF StopStep
<1>10. CASE UNCHANGED vars
  <2>1. crashed' \in BOOLEAN
    BY <1>10 DEF vars, Inv, TypeOK
  <2> QED
    BY <1>10, <2>1, Stutter DEF vars
<1> QED
  BY <1>1, <1>2, <1>3, <1>4, <1>5, <1>6, <1>7, <1>8, <1>9, <1>10
     DEF Next, CallerStep, WorkerStep

\* Every behaviour of the uploader keeps the inductive invariant.
THEOREM InvariantHolds == Spec => []Inv
BY InitInv, NextInv, PTL DEF Spec

-----------------------------------------------------------------------------
\* The stages, the queue, the tries and the workers keep to their types, the
\* counter of tries to 0..MaxRetry (async_s3.go:82-134).
THEOREM UploaderTypes == Spec => []TypeOK
<1>1. Inv => TypeOK
  BY DEF Inv, TypeOK
<1> QED
  BY <1>1, InvariantHolds, PTL

\* An item is given up after exactly MaxRetry tries (async_s3.go:116-130).
THEOREM TriesAreRespected == Spec => []TriesRespected
<1>1. Inv => TriesRespected
  BY DEF Inv, TriesInv
<1> QED
  BY <1>1, InvariantHolds, PTL

\* Stop leaves an empty queue and no worker, also when it came before Start
\* (async_s3.go:68-80).
THEOREM StopLeavesNothingQueued == Spec => []StopEmptiesQueue
<1>1. Inv => StopEmptiesQueue
  BY DEF Inv, StopInv, StopEmptiesQueue
<1> QED
  BY <1>1, InvariantHolds, PTL

\* Every item is in one place of the queue, or with one worker, or in neither.
LEMMA EachOnce ==
  ASSUME Inv
  PROVE  Accounted
<1> SUFFICES ASSUME NEW i \in Items
             PROVE  /\ IF stage[i] = "queued" THEN Once(InQueue(i))
                                             ELSE InQueue(i) = {}
                    /\ IF stage[i] \in Handled THEN Once(HeldBy(i))
                                              ELSE HeldBy(i) = {}
  BY DEF Accounted, Handled
<1>1. ASSUME stage[i] = "queued" PROVE Once(InQueue(i))
  <2>1. PICK n \in 1..Len(queue) : queue[n] = i
    BY <1>1 DEF Inv, QueueInv
  <2>2. InQueue(i) = {n}
    BY <2>1 DEF Inv, QueueInv, InQueue
  <2>3. n \in InQueue(i)
    BY <2>2
  <2> QED
    BY <2>2, <2>3 DEF Once
<1>2. ASSUME stage[i] # "queued" PROVE InQueue(i) = {}
  BY <1>2 DEF Inv, QueueInv, InQueue
<1>3. ASSUME stage[i] \in Handled PROVE Once(HeldBy(i))
  <2>1. PICK w \in Workers : worker[w] = i
    BY <1>3 DEF Inv, WorkerInv
  <2>2. HeldBy(i) = {w}
    BY <2>1 DEF Inv, WorkerInv, HeldBy
  <2>3. w \in HeldBy(i)
    BY <2>2
  <2> QED
    BY <2>2, <2>3 DEF Once
<1>4. ASSUME stage[i] \notin Handled PROVE HeldBy(i) = {}
  BY <1>4 DEF Inv, WorkerInv, HeldBy
<1>5. IF stage[i] = "queued" THEN Once(InQueue(i)) ELSE InQueue(i) = {}
  BY <1>1, <1>2
<1>6. IF stage[i] \in Handled THEN Once(HeldBy(i)) ELSE HeldBy(i) = {}
  BY <1>3, <1>4
<1> QED
  BY <1>5, <1>6

\* An accepted item is in exactly one place until it is settled
\* (async_s3.go:99-134).
THEOREM ItemsAreAccounted == Spec => []Accounted
BY EachOnce, InvariantHolds, PTL

-----------------------------------------------------------------------------
\* What is left of the way of an item, from each stage.
LEMMA StepsCounted ==
  ASSUME NEW n \in Nat
  PROVE  /\ StepsFrom("queued", n) = 4 * (MaxRetry - n - 1) + 3
         /\ StepsFrom("taken", n) = 4 * (MaxRetry - n - 1) + 2
         /\ StepsFrom("putting", n) = 4 * (MaxRetry - n - 1) + 1
         /\ StepsFrom("sleeping", n) = 4 * (MaxRetry - n - 1) + 4
         /\ \A s : s \notin InFlight => StepsFrom(s, n) = 0
BY DEF StepsFrom, Ahead, InFlight

\* One item moves, with its tries counted or not: it comes nearer to its end.
Nearer(s, m, t, n) ==
  \/ s = "queued" /\ t = "taken" /\ n = m
  \/ s = "taken" /\ t \in {"putting", "missing"} /\ n = m
  \/ s = "putting" /\ t = "uploaded" /\ n = m
  \/ s = "putting" /\ t \in {"sleeping", "gaveUp"} /\ n = m + 1
  \/ s = "sleeping" /\ t \in {"queued", "dropped"} /\ n = m

LEMMA NearerCounts ==
  ASSUME NEW s, NEW m \in Nat, NEW t, NEW n \in Nat, Nearer(s, m, t, n),
         m < MaxRetry, t \in InFlight => n < MaxRetry
  PROVE  /\ s \in InFlight /\ t \in InFlight \cup Settled
         /\ StepsFrom(t, n) \in 0..(StepsFrom(s, m) - 1)
<1>1. MaxRetry \in Nat
  BY UploaderAssumption
<1>2. /\ StepsFrom(s, m) \in Nat /\ StepsFrom(s, m) > 0
      /\ StepsFrom(t, n) \in Nat /\ StepsFrom(t, n) < StepsFrom(s, m)
  <2>1. CASE s = "queued" /\ t = "taken" /\ n = m
    BY <1>1, <2>1, StepsCounted
  <2>2. CASE s = "taken" /\ t = "putting" /\ n = m
    BY <1>1, <2>2, StepsCounted
  <2>3. CASE s \in {"taken", "putting", "sleeping"} /\ t \notin InFlight
    BY <1>1, <2>3, StepsCounted
  <2>4. CASE s = "putting" /\ t = "sleeping" /\ n = m + 1
    <3>1. n < MaxRetry
      BY <2>4 DEF InFlight
    <3> QED
      BY <1>1, <2>4, <3>1, StepsCounted
  <2>5. CASE s = "sleeping" /\ t = "queued" /\ n = m
    BY <1>1, <2>5, StepsCounted
  <2> QED
    BY <2>1, <2>2, <2>3, <2>4, <2>5 DEF Nearer, InFlight
<1>3. StepsFrom(t, n) \in 0..(StepsFrom(s, m) - 1)
  BY <1>2
<1>4. s \in InFlight /\ t \in InFlight \cup Settled
  BY DEF Nearer, InFlight, Settled
<1> QED
  BY <1>3, <1>4

Advances(i) ==
  Accepted(i) /\ stage'[i] # stage[i] =>
    Accepted(i)' /\ StepsLeft(i)' \in 0..(StepsLeft(i) - 1)

\* One item moves and the others stay where they are.
LEMMA OneAdvances ==
  ASSUME Inv, Inv', NEW i \in Items, NEW s \in Stages, Move(i, s),
         stage[i] \in {"new", "checked"} \/ Nearer(stage[i], attempts[i], s, attempts'[i])
  PROVE  \A j \in Items : Advances(j)
<1>1. stage'[i] = s /\ \A j \in Items : j # i => stage'[j] = stage[j]
  BY Moved DEF Inv, TypeOK
<1>2. CASE stage[i] \in {"new", "checked"}
  <2>1. ~Accepted(i)
    BY <1>2 DEF Accepted, InFlight, Settled
  <2> QED
    BY <1>1, <2>1 DEF Advances
<1>3. CASE Nearer(stage[i], attempts[i], s, attempts'[i])
  <2>1. /\ attempts[i] \in Nat /\ attempts'[i] \in Nat
        /\ stage[i] \in InFlight => attempts[i] < MaxRetry
        /\ s \in InFlight => attempts'[i] < MaxRetry
    BY <1>1 DEF Inv, TypeOK, TriesInv, TriesRespected
  <2>2. stage[i] \in InFlight
    BY <1>3 DEF Nearer, InFlight
  <2>3. s \in InFlight \cup Settled /\ StepsFrom(s, attempts'[i]) \in 0..(StepsLeft(i) - 1)
    BY <1>3, <2>1, <2>2, NearerCounts DEF StepsLeft
  <2> QED
    BY <1>1, <2>3 DEF Advances, Accepted, StepsLeft
<1> QED
  BY <1>2, <1>3

LEMMA EachAdvances ==
  ASSUME Inv, Inv', [Next]_vars
  PROVE  \A i \in Items : Advances(i)
<1>1. ASSUME UNCHANGED stage PROVE \A i \in Items : Advances(i)
  BY <1>1 DEF Advances
<1>2. CASE Start \/ StopBegin \/ StopStep
  BY <1>1, <1>2 DEF Start, StopBegin, StopStep, StopClose, StopReturn
<1>3. /\ {"checked", "refused", "panicked"} \cup InFlight \cup Settled \subseteq Stages
      /\ {"queued", "taken", "putting", "sleeping"} = InFlight
      /\ {"uploaded", "missing", "gaveUp", "dropped"} = Settled
  BY DEF Stages, InFlight, Settled
<1>4. ASSUME NEW i \in Items, CallerStep(i) PROVE \A j \in Items : Advances(j)
  <2>1. PICK s \in Stages : Move(i, s) /\ stage[i] \in {"new", "checked"}
    BY <1>3, <1>4 DEF CallerStep, EnqueueCheck, EnqueueSend
  <2> QED
    BY <2>1, OneAdvances
<1>5. ASSUME NEW i \in Items, RetryWake(i) PROVE \A j \in Items : Advances(j)
  <2>1. CASE UNCHANGED stage
    BY <1>1, <2>1
  <2>2. CASE ~UNCHANGED stage
    <3>1. PICK s \in {"queued", "dropped"} : Move(i, s)
      BY <1>5, <2>2 DEF RetryWake
    <3>2. s \in Stages /\ Nearer(stage[i], attempts[i], s, attempts'[i])
      BY <1>3, <1>5 DEF RetryWake, Nearer
    <3> QED
      BY <3>1, <3>2, OneAdvances
  <2> QED
    BY <2>1, <2>2
<1>6. ASSUME NEW w \in Workers, Take(w) PROVE \A j \in Items : Advances(j)
  <2>1. queue # <<>> /\ queue \in Seq(Items)
    BY <1>6 DEF Take, Inv, TypeOK
  <2>2. 1 \in 1..Len(queue) /\ Head(queue) = queue[1] /\ queue[1] \in Items
    BY <2>1
  <2>3. PICK i \in Items : i = Head(queue) /\ stage[i] = "queued"
    BY <2>2 DEF Inv, QueueInv
  <2>4. Move(i, "taken") /\ Nearer(stage[i], attempts[i], "taken", attempts'[i])
    BY <1>6, <2>3 DEF Take, Nearer
  <2> QED
    BY <1>3, <2>4, OneAdvances
<1>7. ASSUME NEW w \in Workers, Exit(w) PROVE \A j \in Items : Advances(j)
  BY <1>1, <1>7 DEF Exit
<1>8. ASSUME NEW w \in Workers, ReadLocal(w) \/ PutSucceeds(w) PROVE \A j \in Items : Advances(j)
  <2>1. PICK i \in Items : i = worker[w]
    BY <1>8 DEF ReadLocal, PutSucceeds
  <2>2. PICK s \in Stages : Move(i, s) /\ Nearer(stage[i], attempts[i], s, attempts'[i])
    BY <1>3, <1>8, <2>1 DEF ReadLocal, PutSucceeds, Nearer
  <2> QED
    BY <2>2, OneAdvances
<1>9. ASSUME NEW w \in Workers, PutFails(w) PROVE \A j \in Items : Advances(j)
  <2>1. PICK i \in Items : i = worker[w]
    BY <1>9 DEF PutFails
  <2>2. attempts'[i] = attempts[i] + 1 /\ stage[i] = "putting"
    BY <1>9, <2>1 DEF PutFails, CountsTry, Inv, TypeOK
  <2>3. PICK s \in {"sleeping", "gaveUp"} : Move(i, s)
    BY <1>9, <2>1 DEF PutFails
  <2>4. s \in Stages /\ Nearer(stage[i], attempts[i], s, attempts'[i])
    BY <1>3, <2>2 DEF Nearer
  <2> QED
    BY <2>3, <2>4, OneAdvances
<1>10. CASE UNCHANGED vars
  BY <1>1, <1>10 DEF vars
<1> QED
  BY <1>2, <1>4, <1>5, <1>6, <1>7, <1>8, <1>9, <1>10 DEF Next, WorkerStep

\* Whatever fails and however it is scheduled, an accepted item comes nearer to its
\* end with every step it takes, and has at most four for each try that is left
\* (async_s3.go:99-134): states AsyncUploader!UploadsAdvance.
THEOREM UploadsOnlyAdvance == Spec => UploadsAdvance
<1>1. Inv /\ [Next]_vars => \A i \in Items : Accepted(i) /\ stage'[i] # stage[i] =>
        Accepted(i)' /\ StepsLeft(i)' \in 0..(StepsLeft(i) - 1)
  BY NextInv, EachAdvances DEF Advances
<1> QED
  BY <1>1, InvariantHolds, PTL DEF Spec, UploadsAdvance
=============================================================================
