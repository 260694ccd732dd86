--------------------------- MODULE AsyncUploader ---------------------------
(***************************************************************************)
(* The background queue that copies local entries to S3                    *)
(* (storage/async_s3.go): callers Enqueue items, workers upload them, a    *)
(* failed upload is sent again by a goroutine that first sleeps, and Stop  *)
(* closes the queue and waits for the workers.  An item is one call of     *)
(* Enqueue together with everything that becomes of it.                    *)
(***************************************************************************)
EXTENDS Naturals, Sequences

CONSTANTS
  Items,       \* the calls of Enqueue
  Workers,     \* the worker goroutines Start launches
  QueueSize,   \* the capacity of the queue
  MaxRetry,    \* the number of times an item is tried
  Free, Exited \* a worker waiting for an item, and one that has returned

\* NewAsyncUploader and Start replace numbers below 1 by their defaults.
ASSUME UploaderAssumption ==
  /\ QueueSize \in Nat \ {0} /\ MaxRetry \in Nat \ {0} /\ Workers # {}
  /\ Free # Exited /\ Free \notin Items /\ Exited \notin Items

VARIABLES
  running,     \* the flag of the same name
  closed,      \* close(queue) was called
  queue,       \* the items in the channel
  stage,       \* where each item is, see Stages
  attempts,    \* how often its upload has failed
  worker,      \* the item each worker handles, Free or Exited
  stopper,     \* where the call of Stop is
  crashed      \* a goroutine panicked outside any handler: the process is gone

vars == <<running, closed, queue, stage, attempts, worker, stopper, crashed>>

\* "checked": Enqueue has seen running and not yet sent.  "taken" and
\* "putting": a worker is about to read the local entry, or is writing it to S3.
\* "lost": the process has ended before (Restart of Hybrid).
InFlight == {"queued", "taken", "putting", "sleeping"}
Settled == {"uploaded", "missing", "gaveUp", "dropped"}
Stages == {"new", "checked", "refused", "panicked", "lost"} \cup InFlight \cup Settled

Init ==
  /\ running = FALSE /\ closed = FALSE /\ crashed = FALSE
  /\ queue = <<>>
  /\ stage = [i \in Items |-> "new"]
  /\ attempts = [i \in Items |-> 0]
  /\ worker = [w \in Workers |-> Exited]
  /\ stopper = "idle"

Move(i, s) == stage' = [stage EXCEPT ![i] = s]

\* main calls Start once, before it serves requests.
Start ==
  /\ ~running /\ stopper = "idle"
  /\ running' = TRUE
  /\ worker' = [w \in Workers |-> Free]
  /\ UNCHANGED <<closed, queue, stage, attempts, stopper, crashed>>

-----------------------------------------------------------------------------
\* Enqueue reads the flag under the lock and sends after releasing it.
EnqueueCheck(i) ==
  /\ stage[i] = "new"
  /\ Move(i, IF running THEN "checked" ELSE "refused")
  /\ UNCHANGED <<running, closed, queue, attempts, worker, stopper, crashed>>

HasRoom == Len(queue) < QueueSize

\* A send that does not block.  On a closed channel it panics; in Enqueue
\* net/http recovers the panic and drops the connection.
EnqueueSend(i) ==
  /\ stage[i] = "checked"
  /\ \/ closed /\ Move(i, "panicked") /\ UNCHANGED queue
     \/ ~closed /\ HasRoom /\ queue' = Append(queue, i) /\ Move(i, "queued")
     \/ ~closed /\ ~HasRoom /\ Move(i, "refused") /\ UNCHANGED queue
  /\ UNCHANGED <<running, closed, attempts, worker, stopper, crashed>>

\* The retry goroutine after its sleep: nothing recovers its panic.
RetryWake(i) ==
  /\ stage[i] = "sleeping"
  /\ \/ closed /\ crashed' = TRUE /\ UNCHANGED <<queue, stage>>
     \/ /\ ~closed /\ HasRoom
        /\ queue' = Append(queue, i) /\ Move(i, "queued") /\ UNCHANGED crashed
     \/ /\ ~closed /\ ~HasRoom
        /\ Move(i, "dropped") /\ UNCHANGED <<queue, crashed>>
  /\ UNCHANGED <<running, closed, attempts, worker, stopper>>

-----------------------------------------------------------------------------
\* Bug: the item is read without being received.
PeekQueue == UNCHANGED queue
ReceiveQueue == queue' = Tail(queue)

Take(w) ==
  /\ worker[w] = Free /\ queue # <<>>
  /\ worker' = [worker EXCEPT ![w] = Head(queue)]
  /\ Move(Head(queue), "taken")
  /\ ReceiveQueue
  /\ UNCHANGED <<running, closed, attempts, stopper, crashed>>

\* Bug: a worker leaves as soon as the queue is closed, not when it is drained.
SeesClose == closed
SeesEnd == closed /\ queue = <<>>

\* range over a closed channel ends once the channel is empty.
Exit(w) ==
  /\ worker[w] = Free /\ SeesEnd
  /\ worker' = [worker EXCEPT ![w] = Exited]
  /\ UNCHANGED <<running, closed, queue, stage, attempts, stopper, crashed>>

ReadLocal(w) ==
  LET i == worker[w] IN
  /\ i \in Items /\ stage[i] = "taken"
  /\ \/ Move(i, "putting") /\ UNCHANGED worker
     \/ Move(i, "missing") /\ worker' = [worker EXCEPT ![w] = Free]
  /\ UNCHANGED <<running, closed, queue, attempts, stopper, crashed>>

PutSucceeds(w) ==
  LET i == worker[w] IN
  /\ i \in Items /\ stage[i] = "putting"
  /\ Move(i, "uploaded")
  /\ worker' = [worker EXCEPT ![w] = Free]
  /\ UNCHANGED <<running, closed, queue, attempts, stopper, crashed>>

\* Bug: the last retry is granted once more.
MayRetryOnceMore(n) == n <= MaxRetry
MayRetry(n) == n < MaxRetry

\* Bug: the item is sent again as it was received.
CountsNothing(i) == UNCHANGED attempts
CountsTry(i) == attempts' = [attempts EXCEPT ![i] = @ + 1]

PutFails(w) ==
  LET i == worker[w] IN
  /\ i \in Items /\ stage[i] = "putting"
  /\ CountsTry(i)
  /\ Move(i, IF MayRetry(attempts[i] + 1) THEN "sleeping" ELSE "gaveUp")
  /\ worker' = [worker EXCEPT ![w] = Free]
  /\ UNCHANGED <<running, closed, queue, stopper, crashed>>

-----------------------------------------------------------------------------
\* Stop clears the flag under the lock, closes the queue, waits for the workers.
StopBegin ==
  /\ stopper = "idle"
  /\ running' = FALSE
  /\ stopper' = IF running THEN "closing" ELSE "returned"
  /\ UNCHANGED <<closed, queue, stage, attempts, worker, crashed>>

StopClose ==
  /\ stopper = "closing"
  /\ closed' = TRUE /\ stopper' = "waiting"
  /\ UNCHANGED <<running, queue, stage, attempts, worker, crashed>>

\* Bug: the wait is over when one worker has returned.
SomeWorkerDone == \E w \in Workers : worker[w] = Exited
WorkersDone == \A w \in Workers : worker[w] = Exited

StopReturn ==
  /\ stopper = "waiting" /\ WorkersDone
  /\ stopper' = "returned"
  /\ UNCHANGED <<running, closed, queue, stage, attempts, worker, crashed>>

-----------------------------------------------------------------------------
WorkerStep(w) ==
  Take(w) \/ Exit(w) \/ ReadLocal(w) \/ PutSucceeds(w) \/ PutFails(w)
CallerStep(i) == EnqueueCheck(i) \/ EnqueueSend(i)
StopStep == StopClose \/ StopReturn

Next ==
  /\ ~crashed
  /\ \/ Start
     \/ \E i \in Items : CallerStep(i) \/ RetryWake(i)
     \/ \E w \in Workers : WorkerStep(w)
     \/ StopBegin \/ StopStep

Spec == Init /\ [][Next]_vars

\* Runnable goroutines are scheduled, sleeps end, and the calls of the local
\* backend and of S3 return; whether anybody enqueues or stops is left open.
FairSpec ==
  /\ Spec
  /\ \A w \in Workers : WF_vars(~crashed /\ WorkerStep(w))
  /\ \A i \in Items : /\ WF_vars(~crashed /\ RetryWake(i))
                      /\ WF_vars(~crashed /\ EnqueueSend(i))
  /\ WF_vars(~crashed /\ StopStep)

-----------------------------------------------------------------------------
\* Every item is at one of the stages of async_s3.go:82-134, and no upload fails
\* more often than MaxRetry times.
TypeOK ==
  /\ running \in BOOLEAN /\ closed \in BOOLEAN /\ crashed \in BOOLEAN
  /\ queue \in Seq(Items)
  /\ stage \in [Items -> Stages]
  /\ attempts \in [Items -> 0..MaxRetry]
  /\ worker \in [Workers -> Items \cup {Free, Exited}]
  /\ stopper \in {"idle", "closing", "waiting", "returned"}

\* No item is lost or handled twice: one that was accepted and is not settled
\* is once in the queue, or with one worker, or with its sleeping goroutine
\* (worker, upload and the retry goroutine, async_s3.go:99-134).
InQueue(i) == {n \in 1..Len(queue) : queue[n] = i}
HeldBy(i) == {w \in Workers : worker[w] = i}
Once(S) == \E x \in S : S = {x}
Accounted == \A i \in Items :
  /\ IF stage[i] = "queued" THEN Once(InQueue(i)) ELSE InQueue(i) = {}
  /\ IF stage[i] \in {"taken", "putting"} THEN Once(HeldBy(i)) ELSE HeldBy(i) = {}

\* An item is given up exactly when it was tried MaxRetry times, and every
\* item still on its way has a try left (async_s3.go:116-130).
TriesRespected == \A i \in Items :
  /\ stage[i] = "gaveUp" => attempts[i] = MaxRetry
  /\ stage[i] \in InFlight => attempts[i] < MaxRetry
  /\ stage[i] = "sleeping" => attempts[i] > 0

\* When Stop returns every queued item has been handled and every worker has
\* returned: what Stop leaves behind is only what sleeps before a retry
\* (Stop, async_s3.go:69-80).
StopEmptiesQueue ==
  stopper = "returned" => queue = <<>> /\ \A w \in Workers : worker[w] = Exited

\* Every step of an accepted item brings it nearer to its end, and a settled one
\* stays settled: whatever fails and however it is scheduled, an item takes at most
\* four steps for each try that is left (worker, upload and the retry goroutine,
\* async_s3.go:99-134).
Ahead == [queued |-> 3, taken |-> 2, putting |-> 1, sleeping |-> 4]
StepsFrom(s, n) == IF s \in InFlight THEN 4 * (MaxRetry - n - 1) + Ahead[s] ELSE 0
StepsLeft(i) == StepsFrom(stage[i], attempts[i])
Accepted(i) == stage[i] \in InFlight \cup Settled
UploadsAdvance ==
  [][\A i \in Items : Accepted(i) /\ stage'[i] # stage[i] =>
       Accepted(i)' /\ StepsLeft(i)' \in 0..(StepsLeft(i) - 1)]_vars

\* An accepted item is settled in the end, unless the process dies
\* (worker and upload, async_s3.go:99-134).
AcceptedSettles == \A i \in Items :
  stage[i] = "queued" ~> stage[i] \in Settled \/ crashed

\* Stop comes back, unless the process dies (async_s3.go:69-80).
StopTerminates == stopper = "closing" ~> stopper = "returned" \/ crashed

\* CHANGELOG.md:14: "the server waits for async S3 uploads to drain before
\* exiting"; Stop, async_s3.go:68, "waits for in-flight uploads to finish".
StopDrains ==
  stopper = "returned" => \A i \in Items : stage[i] \notin InFlight
=============================================================================
