--------------------------- MODULE CircuitBreaker ---------------------------
(***************************************************************************)
(* The circuit breaker around the S3 backend (storage/circuit_breaker.go). *)
(* Requests ask allow, call the backend, get its answer and record the     *)
(* outcome in separate steps, so outcomes are recorded late and out of     *)
(* order.  Time is the age of lastFail, which stops counting once it is    *)
(* past Cooldown.                                                          *)
(***************************************************************************)
EXTENDS Naturals

CONSTANTS
  Procs,      \* the concurrent requests
  Threshold,  \* consecutive failures before the breaker opens
  Cooldown    \* the timeout, in ticks

ASSUME BreakerAssumption == Threshold \in Nat \ {0} /\ Cooldown \in Nat \ {0}

VARIABLES
  open,       \* the flag of the same name
  failures,   \* the failures counter, which stops at Threshold
  age,        \* the time since lastFail
  req,        \* each request: its step, and the open and lastFail it saw
  healthy,    \* whether S3 is up (the environment)
  calm        \* whether clients wait for its answers and ask for no range it refuses

vars == <<open, failures, age, req, healthy, calm>>
environment == <<healthy, calm>>

Expired == Cooldown + 1
Older(a) == IF a < Expired THEN a + 1 ELSE a
At(step) == [pc |-> step, open |-> FALSE, age |-> 0]

\* lastFail is the zero time at first, long ago.
Init ==
  /\ open = FALSE /\ failures = 0 /\ age = Expired
  /\ req = [p \in Procs |-> At("idle")]
  /\ healthy = TRUE /\ calm = TRUE

GoTo(p, step) == req' = [req EXCEPT ![p] = At(step)]

-----------------------------------------------------------------------------
\* Bug: a success takes one failure back.
RecordSuccessDecays == failures' = failures - 1 /\ open' = FALSE /\ UNCHANGED age
RecordSuccess == failures' = 0 /\ open' = FALSE /\ UNCHANGED age

\* Bug: the threshold is one too high to be reached.
TripsAbove(n) == n > Threshold
Trips(n) == n >= Threshold

RecordFailure ==
  /\ failures' = IF failures < Threshold THEN failures + 1 ELSE failures
  /\ age' = 0
  /\ open' = (open \/ Trips(failures'))

\* allow copies open and lastFail under the read lock ...
Snapshot(p) ==
  /\ req[p].pc = "idle"
  /\ req' = [req EXCEPT ![p] = [pc |-> "asked", open |-> open, age |-> age]]
  /\ UNCHANGED <<open, failures, age, environment>>

\* Bug: the cooldown is never over.
LetsThroughClosed(r) == ~r.open
LetsThrough(r) == ~r.open \/ r.age > Cooldown

\* Bug: the end of the cooldown closes the breaker, not the answer to the probe.
ClosesWhenDue(r) == open' = (open /\ ~LetsThrough(r))
StaysAsItIs(r) == open' = open

\* ... and looks at the clock after releasing it.
Decide(p) ==
  /\ req[p].pc = "asked"
  /\ GoTo(p, IF LetsThrough(req[p]) THEN "calling" ELSE "idle")
  /\ StaysAsItIs(req[p])
  /\ UNCHANGED <<failures, age, environment>>

\* To have an answer is one step, to record it the next.
Answers(p, step, outcomes) ==
  /\ req[p].pc = step
  /\ \E o \in outcomes : GoTo(p, o)
  /\ UNCHANGED <<open, failures, age, environment>>

\* Any error counts but that of an object that does not exist: S3 is down, the
\* context was cancelled or ran out of time, or S3, which is up, refuses the
\* range that the client of a GET asked for.
CallFails(p) == ~(healthy /\ calm) /\ Answers(p, "calling", {"failed"})

\* Head, Put or Delete.
CallSucceeds(p) == healthy /\ Answers(p, "calling", {"succeeded"})

\* Get records nothing before its stream is closed; the stream of an object
\* that does not exist is never closed.
GetAnswers(p) == healthy /\ Answers(p, "calling", {"stream", "idle"})

\* Close of a stream that was read to its end or broke off: the breaker does
\* not see the error of a read, only that of Close.
StreamCloses(p) ==
  Answers(p, "stream", {"succeeded"} \cup IF healthy THEN {} ELSE {"failed"})

Record(p) ==
  /\ \/ req[p].pc = "succeeded" /\ RecordSuccess
     \/ req[p].pc = "failed" /\ RecordFailure
  /\ GoTo(p, "idle")
  /\ UNCHANGED environment

-----------------------------------------------------------------------------
Tick ==
  /\ age' = Older(age)
  /\ req' = [p \in Procs |-> IF req[p].pc = "asked"
                             THEN [req[p] EXCEPT !.age = Older(@)] ELSE req[p]]
  /\ UNCHANGED <<open, failures, environment>>

Outage == healthy' = ~healthy /\ UNCHANGED <<open, failures, age, req, calm>>
Clients == calm' = ~calm /\ UNCHANGED <<open, failures, age, req, healthy>>

Call(p) == CallFails(p) \/ CallSucceeds(p)
Step(p) ==
  Decide(p) \/ Call(p) \/ GetAnswers(p) \/ StreamCloses(p) \/ Record(p)

Next == Tick \/ Outage \/ Clients \/ \E p \in Procs : Snapshot(p) \/ Step(p)

Spec == Init /\ [][Next]_vars

\* Time passes, calls and streams end, requests keep coming, and among them
\* are again and again some that are not a GET.
FairSpec ==
  /\ Spec /\ WF_vars(Tick)
  /\ \A p \in Procs : WF_vars(Snapshot(p)) /\ WF_vars(Step(p)) /\ SF_vars(Call(p))

-----------------------------------------------------------------------------
\* The breaker's fields and what each request saw of them keep their ranges
\* (circuit_breaker.go:49-79).
TypeOK ==
  /\ open \in BOOLEAN /\ healthy \in BOOLEAN /\ calm \in BOOLEAN
  /\ failures \in 0..Threshold /\ age \in 0..Expired
  /\ req \in [Procs -> [pc : {"idle", "asked", "calling", "stream", "succeeded", "failed"},
                        open : BOOLEAN, age : 0..Expired]]

\* The flag and the counter agree whatever order outcomes are recorded in:
\* the breaker is open exactly after Threshold failures without a success
\* (recordSuccess and recordFailure, circuit_breaker.go:64-79).
OpenMeansTripped == open <=> failures = Threshold

\* While S3 is down the breaker is closed by nothing but a success that S3 gave
\* before and that is recorded late, by each once and never by the end of a
\* cooldown; and while nothing can fail it is opened by nothing but a failure from
\* before (circuit_breaker.go:49-149).
Late(outcomes) == {p \in Procs : req[p].pc \in outcomes}
UsesUp(outcomes, switched) ==
  Late(outcomes)' \subseteq Late(outcomes) /\ (switched => Late(outcomes)' # Late(outcomes))
OnlyLateOutcomes ==
  [][ /\ ~healthy => UsesUp({"succeeded", "stream"}, open /\ ~open')
      /\ healthy /\ calm => UsesUp({"failed"}, ~open /\ open') ]_vars

\* Once S3 works for good, clients wait for its answers and ask for nothing that it
\* refuses, the breaker closes for good, whoever opened it (circuit_breaker.go:49-93).
Recovers == <>[](healthy /\ calm) => <>[]~open

\* Once S3 is down for good the breaker opens for good: allow rejects all but
\* the probes after each cooldown (circuit_breaker.go:49-79).
OutageTrips == <>[]~healthy => <>[]open
=============================================================================
