------------------------ MODULE CircuitBreakerProofs ------------------------
(***************************************************************************)
(* Proofs about CircuitBreaker: its types, that the flag and the counter   *)
(* agree, and what opens and closes the breaker in an outage and after it, *)
(* for every number of requests, threshold and cooldown.                   *)
(***************************************************************************)
EXTENDS CircuitBreaker, TLAPS

Inv == TypeOK /\ OpenMeansTripped
Steps == {"idle", "asked", "calling", "stream", "succeeded", "failed"}

\* A caller that goes to another step keeps req well-typed.
LEMMA GoToTyped ==
  ASSUME TypeOK, NEW p \in Procs,
         NEW step \in Steps, GoTo(p, step)
  PROVE  req' \in [Procs -> [pc : Steps, open : BOOLEAN, age : 0..Expired]]
BY BreakerAssumption DEF TypeOK, GoTo, At, Expired, Steps

\* Recording an outcome keeps flag and counter in step: a success resets both,
\* a failure opens the breaker exactly when it fills the counter.
LEMMA RecordKeeps ==
  ASSUME Inv, RecordSuccess \/ RecordFailure
  PROVE  /\ open' \in BOOLEAN /\ failures' \in 0..Threshold /\ age' \in 0..Expired
         /\ open' <=> failures' = Threshold
<1>1. CASE RecordSuccess
  <2>1. failures' = 0 /\ open' = FALSE /\ age' = age
    BY <1>1 DEF RecordSuccess
  <2>2. failures' # Threshold /\ failures' \in 0..Threshold
    BY <2>1, BreakerAssumption
  <2> QED
    BY <2>1, <2>2 DEF Inv, TypeOK
<1>2. CASE RecordFailure
  <2>1. failures \in 0..Threshold /\ (open <=> failures = Threshold)
    BY DEF Inv, TypeOK, OpenMeansTripped
  <2>2. failures' \in 0..Threshold /\ (failures = Threshold => failures' = Threshold)
    BY <1>2, <2>1, BreakerAssumption DEF RecordFailure
  <2>3. Trips(failures') <=> failures' = Threshold
    BY <2>2, BreakerAssumption DEF Trips
  <2>4. age' \in 0..Expired
    BY <1>2, BreakerAssumption DEF RecordFailure, Expired
  <2>5. open' = (open \/ Trips(failures'))
    BY <1>2 DEF RecordFailure
  <2> QED
    BY <2>1, <2>2, <2>3, <2>4, <2>5
<1> QED
  BY <1>1, <1>2

\* A closed breaker with no failures.
LEMMA InitInv == Init => Inv
<1> SUFFICES ASSUME Init PROVE Inv
  OBVIOUS
<1>1. failures = 0 /\ age \in 0..Expired /\ failures \in 0..Threshold /\ failures # Threshold
  BY BreakerAssumption DEF Init, Expired
<1>2. req \in [Procs -> [pc : Steps, open : BOOLEAN, age : 0..Expired]]
  BY BreakerAssumption DEF Init, At, Expired, Steps
<1> QED
  BY <1>1, <1>2 DEF Init, Inv, TypeOK, OpenMeansTripped, Steps

\* Each step of a request, of time and of S3 keeps the invariant.
LEMMA NextInv == Inv /\ [Next]_vars => Inv'
<1> SUFFICES ASSUME Inv, [Next]_vars PROVE Inv'
  OBVIOUS
<1>1. ASSUME NEW p \in Procs, Snapshot(p) PROVE Inv'
  BY <1>1 DEF Snapshot, environment, Inv, TypeOK, OpenMeansTripped, Steps
<1>2. ASSUME NEW p \in Procs, Decide(p) PROVE Inv'
  <2>1. PICK step \in {"calling", "idle"} : GoTo(p, step)
    BY <1>2 DEF Decide
  <2> QED
    BY <1>2, <2>1, GoToTyped DEF Decide, StaysAsItIs, environment, Inv, TypeOK, OpenMeansTripped, Steps
<1>3. ASSUME NEW p \in Procs, Call(p) \/ GetAnswers(p) \/ StreamCloses(p) PROVE Inv'
  <2>1. PICK o \in Steps : GoTo(p, o) /\ UNCHANGED <<open, failures, age, environment>>
    BY <1>3 DEF Call, CallFails, CallSucceeds, GetAnswers, StreamCloses, Answers, Steps
  <2> QED
    BY <2>1, GoToTyped DEF environment, Inv, TypeOK, OpenMeansTripped, Steps
<1>4. ASSUME NEW p \in Procs, Record(p) PROVE Inv'
  <2>1. GoTo(p, "idle") /\ UNCHANGED environment /\ (RecordSuccess \/ RecordFailure)
    BY <1>4 DEF Record
  <2> QED
    BY <2>1, GoToTyped, RecordKeeps DEF environment, Inv, TypeOK, OpenMeansTripped, Steps
<1>5. CASE Tick
  <2>1. \A a \in 0..Expired : Older(a) \in 0..Expired
    BY BreakerAssumption DEF Older, Expired
  <2>2. \A p \in Procs : req'[p] = IF req[p].pc = "asked"
                                   THEN [req[p] EXCEPT !.age = Older(@)] ELSE req[p]
    BY <1>5 DEF Tick
  <2>3. req' \in [Procs -> [pc : Steps, open : BOOLEAN, age : 0..Expired]]
    BY <1>5, <2>1, <2>2 DEF Tick, Inv, TypeOK, Steps
  <2> QED
    BY <1>5, <2>1, <2>3 DEF Tick, environment, Inv, TypeOK, OpenMeansTripped, Steps
<1>6. CASE Outage
  BY <1>6 DEF Outage, Inv, TypeOK, OpenMeansTripped
<1>7. CASE Clients
  BY <1>7 DEF Clients, Inv, TypeOK, OpenMeansTripped
<1>8. CASE UNCHANGED vars
  BY <1>8 DEF vars, Inv, TypeOK, OpenMeansTripped
<1> QED
  BY <1>1, <1>2, <1>3, <1>4, <1>5, <1>6, <1>7, <1>8 DEF Next, Step

\* The breaker is open exactly when Threshold failures were recorded in a row,
\* in whatever order late outcomes are recorded (recordSuccess and
\* recordFailure, circuit_breaker.go:64-79).
THEOREM OpenExactlyWhenTripped == Spec => []OpenMeansTripped
<1>1. Inv => OpenMeansTripped
  BY DEF Inv
<1> QED
  BY <1>1, InitInv, NextInv, PTL DEF Spec

\* Types are respected (every action of circuit_breaker.go).
THEOREM BreakerTypes == Spec => []TypeOK
<1>1. Inv => TypeOK
  BY DEF Inv
<1> QED
  BY <1>1, InitInv, NextInv, PTL DEF Spec

-----------------------------------------------------------------------------
\* A request that takes a step leaves or joins the late ones, the others stay.
LEMMA OneMoves ==
  ASSUME TypeOK, NEW p \in Procs, NEW to, GoTo(p, to), NEW outcomes
  PROVE  Late(outcomes)' = (Late(outcomes) \ {p}) \cup IF to \in outcomes THEN {p} ELSE {}
BY DEF TypeOK, GoTo, At, Late

\* Recording an outcome uses it up: only that of a call that succeeded closes the
\* breaker, only that of one that failed opens it.
LEMMA RecordUsesUp ==
  ASSUME TypeOK, NEW p \in Procs, Record(p), NEW outcomes, "idle" \notin outcomes
  PROVE  /\ "succeeded" \in outcomes => UsesUp(outcomes, open /\ ~open')
         /\ "failed" \in outcomes => UsesUp(outcomes, ~open /\ open')
<1>1. Late(outcomes)' = Late(outcomes) \ {p}
  BY OneMoves DEF Record
<1>2. open /\ ~open' => req[p].pc = "succeeded"
  BY DEF Record, RecordFailure, TypeOK
<1>3. ~open /\ open' => req[p].pc = "failed"
  BY DEF Record, RecordSuccess, TypeOK
<1> QED
  BY <1>1, <1>2, <1>3 DEF UsesUp, Late

\* A step that records nothing and adds none of the outcomes keeps the bargain.
LEMMA NoSwitch ==
  ASSUME NEW outcomes, UNCHANGED open, Late(outcomes)' \subseteq Late(outcomes)
  PROVE  UsesUp(outcomes, open /\ ~open') /\ UsesUp(outcomes, ~open /\ open')
BY DEF UsesUp

\* In a lasting outage the breaker is closed at most once for each request that S3
\* had answered before, in a lasting recovery opened at most once for each failure
\* from before: for any threshold, cooldown and number of requests, in whatever
\* order the outcomes are recorded (circuit_breaker.go:49-149).
THEOREM OnlyLateOutcomesSwitch == Spec => OnlyLateOutcomes
<1> DEFINE Good == {"succeeded", "stream"}
           Bad == {"failed"}
           Bargain == /\ ~healthy => UsesUp(Good, open /\ ~open')
                      /\ healthy /\ calm => UsesUp(Bad, ~open /\ open')
<1>1. ASSUME Inv, [Next]_vars PROVE [Bargain]_vars
  <2> SUFFICES ASSUME ~UNCHANGED vars PROVE Bargain
    OBVIOUS
  <2>1. ASSUME NEW p \in Procs, Snapshot(p) PROVE Bargain
    <3>1. \A q \in Procs : req'[q].pc = req[q].pc \/ req'[q].pc = "asked"
      BY <1>1, <2>1 DEF Snapshot, Inv, TypeOK
    <3>2. Late(Good)' \subseteq Late(Good) /\ Late(Bad)' \subseteq Late(Bad)
      BY <3>1 DEF Late
    <3> QED
      BY <2>1, <3>2, NoSwitch DEF Snapshot
  <2>2. ASSUME NEW p \in Procs, Decide(p) PROVE Bargain
    <3>1. PICK to \in {"calling", "idle"} : GoTo(p, to)
      BY <2>2 DEF Decide
    <3>2. Late(Good)' \subseteq Late(Good) /\ Late(Bad)' \subseteq Late(Bad)
      BY <1>1, <3>1, OneMoves DEF Inv
    <3> QED
      BY <2>2, <3>2, NoSwitch DEF Decide, StaysAsItIs
  <2>3. ASSUME NEW p \in Procs, CallFails(p) PROVE Bargain
    <3>1. GoTo(p, "failed") /\ UNCHANGED open /\ ~(healthy /\ calm)
      BY <2>3 DEF CallFails, Answers
    <3>2. Late(Good)' \subseteq Late(Good)
      BY <1>1, <3>1, OneMoves DEF Inv
    <3> QED
      BY <3>1, <3>2, NoSwitch
  <2>4. ASSUME NEW p \in Procs, CallSucceeds(p) \/ GetAnswers(p) PROVE Bargain
    <3>1. PICK to \in {"succeeded", "stream", "idle"} : GoTo(p, to)
      BY <2>4 DEF CallSucceeds, GetAnswers, Answers
    <3>2. Late(Bad)' \subseteq Late(Bad) /\ UNCHANGED open /\ healthy
      BY <1>1, <2>4, <3>1, OneMoves DEF Inv, CallSucceeds, GetAnswers, Answers
    <3> QED
      BY <3>2, NoSwitch
  <2>5. ASSUME NEW p \in Procs, StreamCloses(p) PROVE Bargain
    <3>1. PICK to \in {"succeeded", "failed"} : GoTo(p, to)
      BY <2>5 DEF StreamCloses, Answers
    <3>2. p \in Late(Good) /\ UNCHANGED open
      BY <2>5 DEF StreamCloses, Answers, Late
    <3>3. Late(Good)' \subseteq Late(Good)
      BY <1>1, <3>1, <3>2, OneMoves DEF Inv
    <3>4. CASE ~healthy
      BY <3>2, <3>3, <3>4, NoSwitch
    <3>5. CASE healthy
      <4>1. GoTo(p, "succeeded")
        BY <2>5, <3>5 DEF StreamCloses, Answers
      <4>2. Late(Bad)' \subseteq Late(Bad)
        BY <1>1, <4>1, OneMoves DEF Inv
      <4> QED
        BY <3>2, <3>5, <4>2, NoSwitch
    <3> QED
      BY <3>4, <3>5
  <2>6. ASSUME NEW p \in Procs, Record(p) PROVE Bargain
    BY <1>1, <2>6, RecordUsesUp DEF Inv
  <2>7. CASE Tick \/ Outage \/ Clients
    <3>1. UNCHANGED open /\ \A q \in Procs : req'[q].pc = req[q].pc
      BY <1>1, <2>7 DEF Tick, Outage, Clients, Inv, TypeOK
    <3>2. Late(Good)' \subseteq Late(Good) /\ Late(Bad)' \subseteq Late(Bad)
      BY <3>1 DEF Late
    <3> QED
      BY <3>1, <3>2, NoSwitch
  <2> QED
    BY <1>1, <2>1, <2>2, <2>3, <2>4, <2>5, <2>6, <2>7 DEF Next, Step, Call
<1> QED
  BY <1>1, InitInv, NextInv, PTL DEF Spec, OnlyLateOutcomes
=============================================================================
