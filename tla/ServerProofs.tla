---------------------------- MODULE ServerProofs ----------------------------
(***************************************************************************)
(* Proofs about Server, for every number of requests and addresses and all *)
(* rates.  What the limiter promises alone it promises inside the server,  *)
(* because every step of the server is one of the limiter's or leaves it   *)
(* as it is; every option whose variable is read gets its value from flag, *)
(* variable and default in this order; the gauge counts what it says.      *)
(***************************************************************************)
EXTENDS Server, FiniteSetTheorems, TLAPS

LP == INSTANCE RateLimiterProofs

\* What a request does once the limiter is behind it.
AfterLimit(p) ==
  \/ Endpoint(p) \/ Checks(p) \/ CallReturns(p) \/ StreamEnds(p) \/ PutPanics(p)
  \/ ProbeEnds(p)

\* The limiter starts with the server.
LEMMA LimiterStarts == Init => Limiter!Init
BY DEF Init

\* Each step of the server is a step of the limiter, or none.
LEMMA LimiterSteps == [Next]_vars => [Limiter!Next]_(Limiter!vars)
<1> SUFFICES ASSUME [Next]_vars PROVE [Limiter!Next]_(Limiter!vars)
  OBVIOUS
<1>1. CASE UNCHANGED vars
  BY <1>1 DEF vars, limiter, Limiter!vars
<1>2. ASSUME NEW p \in Procs, Arrive(p) PROVE [Limiter!Next]_(Limiter!vars)
  BY <1>2 DEF Arrive, limiter, Limiter!vars, Limiter!Next
<1>3. ASSUME NEW p \in Procs, Limit(p) \/ Verdict(p) PROVE [Limiter!Next]_(Limiter!vars)
  BY <1>3 DEF Limit, Verdict, Limiter!Next
<1>4. ASSUME NEW p \in Procs, AfterLimit(p) PROVE [Limiter!Next]_(Limiter!vars)
  BY <1>4 DEF AfterLimit, Endpoint, Checks, CallReturns, StreamEnds, PutPanics,
              ProbeEnds, limiter, Limiter!vars
<1>5. CASE RunSteps
  BY <1>5 DEF RunSteps, Start, Listen, JanitorTicks, RetryPanics, Signal, CleanupReturns,
              Expire, DebugReturns, ShutdownReturns, ListenerFails, limiter, Limiter!vars
<1>6. CASE Time
  BY <1>6 DEF Time, Limiter!Next
<1> QED
  BY <1>1, <1>2, <1>3, <1>4, <1>5, <1>6 DEF Next, Serve, AfterLimit

\* The server's requests, whatever becomes of them, see a limiter that
\* behaves as RateLimiter says (middleware.go:111-126).
THEOREM ServerLimits == Spec => Limiter!Spec
BY LimiterStarts, LimiterSteps, PTL DEF Spec, Limiter!Spec

\* The limiter that RateLimiterProofs is about is the server's.
LEMMA SameStart == Limiter!Init => LP!Init
BY DEF Limiter!Init, LP!Init, Limiter!Idle, LP!Idle, Limiter!At, LP!At,
       Limiter!Buckets, LP!Buckets, Limiter!GlobalBurst, LP!GlobalBurst,
       Limiter!GlobalRate, LP!GlobalRate, Limiter!Burst, LP!Burst,
       Limiter!Token, LP!Token

LEMMA SameSteps == [Limiter!Next]_(Limiter!vars) => [LP!Next]_(LP!vars)
BY DEF Limiter!GlobalRate, LP!GlobalRate, Limiter!PerIPRate, LP!PerIPRate,
       Limiter!Burst, LP!Burst, Limiter!GlobalBurst, LP!GlobalBurst,
       Limiter!PerIPBurst, LP!PerIPBurst, Limiter!Token, LP!Token,
       Limiter!Buckets, LP!Buckets, Limiter!At, LP!At, Limiter!Idle, LP!Idle,
       Limiter!Goto, LP!Goto, Limiter!Judge, LP!Judge, Limiter!Ask, LP!Ask,
       Limiter!PassGlobal, LP!PassGlobal, Limiter!TakeGlobal, LP!TakeGlobal,
       Limiter!Find, LP!Find, Limiter!StillAbsent, LP!StillAbsent,
       Limiter!Create, LP!Create, Limiter!TakeOwn, LP!TakeOwn, Limiter!Done,
       LP!Done, Limiter!Capped, LP!Capped, Limiter!Tick, LP!Tick,
       Limiter!Observe, LP!Observe, Limiter!Allow, LP!Allow, Limiter!Next,
       LP!Next, Limiter!vars, LP!vars

LEMMA SameBound == LP!RateBounded => RateBounded
BY DEF RateBounded, Limiter!RateBounded, LP!RateBounded, Limiter!GlobalRate, LP!GlobalRate,
       Limiter!PerIPRate, LP!PerIPRate, Limiter!GlobalBurst, LP!GlobalBurst,
       Limiter!PerIPBurst, LP!PerIPBurst, Limiter!Burst, LP!Burst,
       Limiter!Token, LP!Token

\* In every window of time what an address, and what all of them together,
\* are let through is bounded by burst and rate, for any number of requests
\* racing for the bucket of a new address (middleware.go:80-109).
THEOREM RatesAreBounded == Spec => []RateBounded
<1>1. LP!LimiterAssumption
  BY ServerAssumption DEF Limiter!LimiterAssumption, LP!LimiterAssumption
<1>2. LP!Spec => []LP!RateBounded
  BY <1>1, LP!RatesAreBounded
<1>3. Limiter!Spec => LP!Spec
  BY SameStart, SameSteps, PTL DEF Limiter!Spec, LP!Spec
<1> QED
  BY <1>2, <1>3, ServerLimits, SameBound, PTL

-----------------------------------------------------------------------------
\* The requests leave run alone.
LEMMA RequestsLeaveRun ==
  ASSUME NEW p \in Procs, Arrive(p) \/ Serve(p)
  PROVE  RunFrame
BY DEF Arrive, Serve, Limit, Verdict, Endpoint, Checks, CallReturns, StreamEnds,
       PutPanics, ProbeEnds

\* What the limiter's actions do to the call of Allow of one request.
LEMMA LimiterTouchesOne ==
  ASSUME NEW p \in Procs, Limiter!TypeOK,
         \/ \E a \in Addrs : Limiter!Ask(p, a)
         \/ Limiter!Allow(p)
         \/ Limiter!Done(p)
  PROVE  /\ \A q \in Procs : q # p => ask'[q] = ask[q]
         /\ (\E a \in Addrs : Limiter!Ask(p, a)) => ask'[p].pc # "idle"
         /\ Limiter!Allow(p) => ask[p].pc # "idle" /\ ask'[p].pc # "idle"
         /\ Limiter!Done(p) => ask'[p].pc = "idle"
<1>1. ask \in [Procs -> Limiter!AskType]
  BY DEF Limiter!TypeOK
<1>2. ASSUME NEW a, Limiter!Ask(p, a)
      PROVE  /\ \A q \in Procs : q # p => ask'[q] = ask[q]
             /\ ask[p].pc = "idle" /\ ask'[p].pc = "global"
  BY <1>1, <1>2 DEF Limiter!Ask, Limiter!At
<1>3. ASSUME Limiter!Allow(p)
      PROVE  /\ \A q \in Procs : q # p => ask'[q] = ask[q]
             /\ ask[p].pc \notin {"idle", "judged"} /\ ask'[p].pc # "idle"
  <2>1. ASSUME NEW step, NEW b, Limiter!Goto(p, step, b) \/ Limiter!Judge(p, b), step # "idle"
        PROVE  /\ \A q \in Procs : q # p => ask'[q] = ask[q]
               /\ ask'[p].pc # "idle"
    BY <1>1, <2>1 DEF Limiter!Goto, Limiter!Judge, Limiter!At
  <2>2. CASE Limiter!TakeGlobal(p)
    BY <2>1, <2>2 DEF Limiter!TakeGlobal, Limiter!PassGlobal
  <2>3. CASE Limiter!Find(p)
    BY <2>1, <2>3 DEF Limiter!Find
  <2>4. CASE Limiter!Create(p)
    BY <2>1, <2>4 DEF Limiter!Create
  <2>5. CASE Limiter!TakeOwn(p)
    BY <2>1, <2>5 DEF Limiter!TakeOwn
  <2> QED
    BY <1>3, <2>2, <2>3, <2>4, <2>5 DEF Limiter!Allow
<1>4. ASSUME Limiter!Done(p)
      PROVE  /\ \A q \in Procs : q # p => ask'[q] = ask[q]
             /\ ask[p].pc = "judged" /\ ask'[p].pc = "idle"
  BY <1>1, <1>4 DEF Limiter!Done, Limiter!Idle, Limiter!At
<1> QED
  BY <1>1, <1>2, <1>3, <1>4

\* The part of TypeOK that is the server's own, and that an idle server has no
\* call in Allow.
Own ==
  /\ phase \in Phases
  /\ clock \in {"off", "running", "expired"}
  /\ req \in [Procs -> {"idle", "limit", "mux", "checks", "get", "put", "call",
                        "stream", "probe"}]
  /\ \A p \in Procs : req[p] = "limit" <=> ask[p].pc # "idle"
  /\ phase = "starting" => Active = {}

LEMMA OwnStarts == Init => Own
BY DEF Init, Own, Phases, Active, Limiter!Init, Limiter!Idle, Limiter!At

\* Before the server listens there is no request to move.
LEMMA RequestsNeedServer ==
  ASSUME Own, NEW p \in Procs, Arrive(p) \/ Serve(p)
  PROVE  phase # "starting"
BY DEF Arrive, Serve, Limit, Verdict, Endpoint, Checks, CallReturns, StreamEnds,
       PutPanics, ProbeEnds, Listening, Running

\* The requests: one of them moves, with its call of Allow.
LEMMA OwnKeptByRequests ==
  ASSUME Own, Limiter!TypeOK, NEW p \in Procs, Arrive(p) \/ Serve(p)
  PROVE  Own'
<1> USE DEF Own, Phases
<1>1. RunFrame /\ phase # "starting"
  BY RequestsLeaveRun, RequestsNeedServer
<1>2. CASE Arrive(p)
  <2>1. ASSUME NEW a \in Addrs, Limiter!Ask(p, a), Move(p, "limit") PROVE Own'
    BY <1>1, <2>1, LimiterTouchesOne DEF Move, RunFrame
  <2>2. CASE Move(p, "mux") /\ UNCHANGED limiter
    BY <1>1, <1>2, <2>2 DEF Arrive, Move, RunFrame, limiter
  <2> QED
    BY <1>2, <2>1, <2>2 DEF Arrive
<1>3. CASE Limit(p)
  BY <1>1, <1>3, LimiterTouchesOne DEF Limit, RunFrame
<1>4. CASE Verdict(p)
  <2>1. PICK step \in {"mux", "idle"} : Move(p, step)
    BY <1>4 DEF Verdict
  <2> QED
    BY <1>1, <1>4, <2>1, LimiterTouchesOne DEF Verdict, Move, RunFrame
<1>5. CASE AfterLimit(p)
  <2>1. PICK step \in {"idle", "checks", "get", "put", "call", "stream", "probe"} :
          Move(p, step)
    BY <1>5 DEF AfterLimit, Endpoint, Checks, CallReturns, StreamEnds, PutPanics,
                ProbeEnds, Counted
  <2>2. req[p] # "limit" /\ UNCHANGED limiter
    BY <1>5 DEF AfterLimit, Endpoint, Checks, CallReturns, StreamEnds, PutPanics,
                ProbeEnds
  <2> QED
    BY <1>1, <2>1, <2>2 DEF Move, RunFrame, limiter
<1> QED
  BY <1>2, <1>3, <1>4, <1>5 DEF Serve, AfterLimit

LEMMA OwnKept ==
  ASSUME Own, Limiter!TypeOK, [Next]_vars
  PROVE  Own'
<1> USE DEF Own, Phases
<1>1. CASE UNCHANGED vars
  BY <1>1 DEF vars, limiter, Active
<1>2. ASSUME NEW p \in Procs, Arrive(p) \/ Serve(p) PROVE Own'
  BY <1>2, OwnKeptByRequests
<1>3. CASE Start
  BY <1>3 DEF Start, limiter, Active
<1>4. CASE Listen \/ JanitorTicks \/ RetryPanics
  BY <1>4 DEF Listen, JanitorTicks, RetryPanics, limiter
<1>5. CASE Signal \/ CleanupReturns \/ DebugReturns \/ ShutdownReturns \/ ListenerFails
  BY <1>5 DEF Signal, CleanupReturns, DebugReturns, ShutdownReturns, ListenerFails,
              ClockNow, AfterUploads, limiter
<1>6. CASE Expire
  BY <1>6 DEF Expire, limiter, Running
<1>7. CASE Time
  BY <1>7 DEF Time, RunFrame, Running, Limiter!Tick, Limiter!Observe
<1> QED
  BY <1>1, <1>2, <1>3, <1>4, <1>5, <1>6, <1>7 DEF Next, RunSteps

\* The process is always in one of the phases of run, a request in one of its
\* steps, and in a call of Allow exactly while it waits for the limiter's verdict
\* (handlers.go:18-157, middleware.go:111-126, config.go:372-397).
THEOREM ServerTypes == Spec => []TypeOK
<1>1. LP!LimiterAssumption
  BY ServerAssumption DEF Limiter!LimiterAssumption, LP!LimiterAssumption
<1>2. LP!Spec => []LP!TypeOK
  BY <1>1, LP!LimiterTypes
<1>3. Limiter!Spec => LP!Spec
  BY SameStart, SameSteps, PTL DEF Limiter!Spec, LP!Spec
<1>4. LP!TypeOK => Limiter!TypeOK
  BY DEF Limiter!TypeOK, LP!TypeOK, Limiter!GlobalRate, LP!GlobalRate,
         Limiter!PerIPRate, LP!PerIPRate, Limiter!GlobalBurst, LP!GlobalBurst,
         Limiter!PerIPBurst, LP!PerIPBurst, Limiter!Burst, LP!Burst,
         Limiter!Token, LP!Token, Limiter!Buckets, LP!Buckets,
         Limiter!AskType, LP!AskType
<1>5. Own /\ Limiter!TypeOK => TypeOK
  BY DEF Own, TypeOK
<1> QED
  BY <1>2, <1>3, <1>4, <1>5, ServerLimits, OwnStarts, OwnKept, PTL DEF Spec

-----------------------------------------------------------------------------
\* The options that run reads a variable for.
Read == Boot!Durations \cup Boot!Strings \cup Boot!Numbers

LEMMA ReadOptions == Read = (Boot!Options \ Boot!Unread) \ {"version"}
BY DEF Read, Boot!Options, Boot!Unread, Boot!Default, Boot!Durations, Boot!Strings,
       Boot!Numbers

\* What the variables say of an option, before any flag.
FromVariable(o, kinds) ==
  IF o \in kinds /\ Boot!EnvReads(o) THEN Boot!Value(env[o]) ELSE Boot!Default[o]

\* How far the options have been read at each stage.
Settled ==
  /\ stage = "durations" => opt = Boot!Default
  /\ stage = "environment" =>
       \A o \in Boot!Options : opt[o] = FromVariable(o, Boot!Durations \cup Boot!Strings)
  /\ stage = "flags" =>
       \A o \in Boot!Options : opt[o] = FromVariable(o, Read)
  /\ FlagsWin
  /\ stack \in [s3 : BOOLEAN, uploads : BOOLEAN, debug : BOOLEAN, auth : BOOLEAN]
  /\ stage \in {"storage", "memory", "built"} =>
       \A o \in {"user", "pass"} : stack.auth <=> opt[o] # ""

LEMMA SettledStarts == Init => Settled
BY DEF Init, Boot!Init, Boot!Nothing, Settled, FlagsWin, Boot!FlagsWin

LEMMA UserAndPass == {"user", "pass"} \subseteq Boot!Options \ Boot!Unread
BY DEF Boot!Options, Boot!Default, Boot!Unread

\* Each step of Config reads one kind of options, or none.
LEMMA SettledKeptByBoot ==
  ASSUME Settled, Boot!Next
  PROVE  Settled'
<1>1. CASE Boot!ReadDurations
  <2>1. CASE stage' = "refused"
    BY <1>1, <2>1 DEF Boot!ReadDurations, Boot!Goto, Settled, FlagsWin, Boot!FlagsWin
  <2>2. CASE stage' # "refused"
    <3>1. /\ stage = "durations" /\ stage' = "environment" /\ UNCHANGED <<env, stack>>
          /\ opt' = [o \in Boot!Options |->
               IF o \in Boot!Durations \cup Boot!Strings /\ Boot!EnvReads(o)
               THEN Boot!Value(env[o]) ELSE opt[o]]
      BY <1>1, <2>2 DEF Boot!ReadDurations, Boot!Goto
    <3>2. \A o \in Boot!Options : opt[o] = Boot!Default[o]
      BY <3>1 DEF Settled
    <3>3. \A o \in Boot!Options :
            opt'[o] = FromVariable(o, Boot!Durations \cup Boot!Strings)'
      BY <3>1, <3>2 DEF FromVariable, Boot!EnvReads
    <3> QED
      BY <3>1, <3>3 DEF Settled, FlagsWin, Boot!FlagsWin
  <2> QED
    BY <2>1, <2>2
<1>2. CASE Boot!ReadEnvironment
  BY <1>2 DEF Boot!ReadEnvironment, Boot!Goto, Settled, FromVariable, FlagsWin, Boot!FlagsWin,
              Boot!EnvReads, Read
<1>3. CASE Boot!ParseFlags
  <2>1. CASE stage' = "refused"
    BY <1>3, <2>1 DEF Boot!ParseFlags, Settled, FlagsWin, Boot!FlagsWin
  <2>2. CASE stage' # "refused"
    <3>1. /\ stage = "flags" /\ stage' \in {"printed", "auth"}
          /\ opt' = [o \in Boot!Options |-> IF Boot!Given(o) THEN flag[o] ELSE opt[o]]
          /\ UNCHANGED <<env, flag, stack>>
      BY <1>3, <2>2 DEF Boot!ParseFlags, Boot!Goto
    <3>2. \A o \in Boot!Options \ Boot!Unread : opt'[o] = Boot!Setting(o)'
      BY <3>1, ReadOptions DEF Boot!Given, Boot!Setting, Boot!EnvReads, Settled, FromVariable
    <3> QED
      BY <3>1, <3>2 DEF Settled, FlagsWin, Boot!FlagsWin
  <2> QED
    BY <2>1, <2>2
<1>4. CASE Boot!CheckAuth
  <2>1. UNCHANGED <<env, flag, opt>> /\ stage = "auth"
    BY <1>4 DEF Boot!CheckAuth, Boot!Goto
  <2>2. FlagsWin'
    BY <2>1 DEF Settled, FlagsWin, Boot!FlagsWin, Boot!Setting, Boot!EnvReads
  <2>3. stack'.auth <=> ~Boot!Incomplete /\ opt.user # ""
    BY <1>4 DEF Boot!CheckAuth, Settled
  <2>4. stage' # "refused" =>
          \A o \in {"user", "pass"} : stack'.auth <=> opt'[o] # ""
    BY <1>4, <2>1, <2>3 DEF Boot!CheckAuth, Boot!Goto, Boot!Incomplete
  <2> QED
    BY <1>4, <2>1, <2>2, <2>4 DEF Boot!CheckAuth, Boot!Goto, Settled
<1>5. CASE Boot!OpenStorage \/ Boot!AddMemory
  <2>1. /\ UNCHANGED <<env, flag, opt>>
        /\ stage \in {"storage", "memory"} /\ stage' \in {"refused", "memory", "panicked", "built"}
    BY <1>5 DEF Boot!OpenStorage, Boot!AddMemory, Boot!Goto
  <2>2. FlagsWin'
    BY <2>1 DEF Settled, FlagsWin, Boot!FlagsWin, Boot!Setting, Boot!EnvReads
  <2>3. /\ stack' \in [s3 : BOOLEAN, uploads : BOOLEAN, debug : BOOLEAN, auth : BOOLEAN]
        /\ stack'.auth = stack.auth
    <3>1. CASE UNCHANGED stack
      BY <3>1 DEF Settled
    <3>2. CASE Boot!AddMemory
      BY <3>2 DEF Boot!AddMemory, Settled
    <3>3. CASE \E a, b \in BOOLEAN : stack' = [stack EXCEPT !.s3 = a, !.uploads = b]
      BY <3>3 DEF Settled
    <3>4. Boot!UsesS3 \in BOOLEAN /\ (opt.storage = "hybrid" /\ opt.async) \in BOOLEAN
      BY DEF Boot!UsesS3
    <3> QED
      BY <1>5, <3>1, <3>2, <3>3, <3>4 DEF Boot!OpenStorage
  <2> QED
    BY <2>1, <2>2, <2>3 DEF Settled
<1> QED
  BY <1>1, <1>2, <1>3, <1>4, <1>5 DEF Boot!Next

LEMMA SettledKept == Settled /\ [Next]_vars => Settled'
<1> SUFFICES ASSUME Settled, [Next]_vars PROVE Settled'
  OBVIOUS
<1>1. CASE Start
  BY <1>1, SettledKeptByBoot DEF Start
<1>2. CASE Listen
  BY <1>2 DEF Listen, Settled, FlagsWin, Boot!FlagsWin
<1>3. CASE UNCHANGED settings
  BY <1>3 DEF settings, Settled, FromVariable, FlagsWin, Boot!FlagsWin, Boot!Setting,
              Boot!EnvReads
<1>4. ASSUME NEW p \in Procs, Arrive(p) \/ Serve(p) PROVE UNCHANGED settings
  BY <1>4, RequestsLeaveRun DEF RunFrame
<1>5. CASE Time
  BY <1>5, <1>3 DEF Time, RunFrame
<1> QED
  BY <1>1, <1>2, <1>3, <1>4, <1>5 DEF Next, RunSteps, JanitorTicks, RetryPanics, Signal,
     CleanupReturns, Expire, DebugReturns, ShutdownReturns, ListenerFails, vars

LEMMA AlwaysSettled == Spec => []Settled
BY SettledStarts, SettledKept, PTL DEF Spec

\* Whatever the environment and the command line say, a flag wins over a
\* variable and that over the default, for every option but the one whose
\* variable is documented and never read (config.go:85-195, 126).
THEOREM FlagsAlwaysWin == Spec => []FlagsWin
<1>1. Settled => FlagsWin
  BY DEF Settled
<1> QED
  BY <1>1, AlwaysSettled, PTL

\* A server that is given a name or a password, by variable or flag, comes up
\* with both or not at all (config.go:200-203, auth.go:16-28).
THEOREM AuthIsComplete == Spec => []AuthComplete
<1>1. Settled => AuthComplete
  BY UserAndPass DEF Settled, AuthComplete, Boot!AuthComplete, FlagsWin, Boot!FlagsWin
<1> QED
  BY <1>1, AlwaysSettled, PTL

-----------------------------------------------------------------------------
\* The requests that the gauge is to count, of which there are never infinitely
\* many, although nothing bounds the clients.
Within == {"checks", "get", "put", "call", "stream"}
Inside == {p \in Procs : req[p] \in Within}
Gauge == IsFiniteSet(Inside) /\ inflight = Cardinality(Inside)

\* How a request moves, and whether the gauge goes up or down with it.
Enters(p) == req[p] \notin Within /\ req'[p] \in Within /\ inflight' = inflight + 1
Leaves(p) == req[p] \in Within /\ req'[p] \notin Within /\ inflight' = inflight - 1
Stays(p) == (req[p] \in Within <=> req'[p] \in Within) /\ inflight' = inflight

LEMMA RequestsMoveAlone ==
  ASSUME Own, Limiter!TypeOK, NEW p \in Procs, Arrive(p) \/ Serve(p)
  PROVE  /\ \A q \in Procs : q # p => req'[q] = req[q]
         /\ Enters(p) \/ Leaves(p) \/ Stays(p)
<1> USE DEF Own, Within, Enters, Leaves, Stays, Move
<1>1. CASE Arrive(p)
  BY <1>1 DEF Arrive
<1>2. CASE Limit(p) \/ Verdict(p)
  BY <1>2 DEF Limit, Verdict
<1>3. CASE Endpoint(p)
  BY <1>3 DEF Endpoint
<1>4. CASE Checks(p) \/ CallReturns(p) \/ StreamEnds(p)
  BY <1>4 DEF Checks, CallReturns, StreamEnds, Counted
<1>5. CASE PutPanics(p) \/ ProbeEnds(p)
  BY <1>5 DEF PutPanics, ProbeEnds, Deferred
<1> QED
  BY <1>1, <1>2, <1>3, <1>4, <1>5 DEF Serve

\* One request in or out is one more or one less.
LEMMA GaugeKeptByRequests ==
  ASSUME Own, Limiter!TypeOK, Gauge, NEW p \in Procs, Arrive(p) \/ Serve(p)
  PROVE  Gauge'
<1>1. \A q \in Procs : q # p => req'[q] = req[q]
  BY RequestsMoveAlone
<1>2. CASE Enters(p)
  <2>1. Inside' = Inside \cup {p} /\ p \notin Inside
    BY <1>1, <1>2 DEF Enters, Inside
  <2> QED
    BY <1>2, <2>1, FS_AddElement DEF Gauge, Enters
<1>3. CASE Leaves(p)
  <2>1. Inside' = Inside \ {p} /\ p \in Inside
    BY <1>1, <1>3 DEF Leaves, Inside
  <2> QED
    BY <1>3, <2>1, FS_RemoveElement DEF Gauge, Leaves
<1>4. CASE Stays(p)
  <2>1. Inside' = Inside
    BY <1>1, <1>4 DEF Stays, Inside
  <2> QED
    BY <1>4, <2>1 DEF Gauge, Stays
<1> QED
  BY <1>2, <1>3, <1>4, RequestsMoveAlone

LEMMA GaugeKept ==
  ASSUME TypeOK, Gauge, [Next]_vars
  PROVE  Gauge'
<1>1. Own /\ Limiter!TypeOK
  BY DEF TypeOK, Own
<1>2. ASSUME NEW p \in Procs, Arrive(p) \/ Serve(p) PROVE Gauge'
  BY <1>1, <1>2, GaugeKeptByRequests
<1>3. CASE UNCHANGED <<req, inflight>>
  BY <1>3 DEF Gauge, Inside
<1>4. CASE RunSteps \/ Time \/ UNCHANGED vars
  BY <1>3, <1>4 DEF RunSteps, Start, Listen, JanitorTicks, RetryPanics, Signal,
     CleanupReturns, Expire, DebugReturns, ShutdownReturns, ListenerFails, Time, vars
<1> QED
  BY <1>2, <1>4 DEF Next

\* Whatever requests do, and panic at, the gauge counts those between the start
\* of instrument and its end, exactly (handlers.go:220-251).
THEOREM InFlightIsExact == Spec => []InFlightExact
<1>1. Init => Gauge
  <2> SUFFICES ASSUME Init PROVE Gauge
    OBVIOUS
  <2>1. Inside = {} /\ inflight = 0
    BY DEF Init, Inside, Within
  <2> QED
    BY <2>1, FS_EmptySet DEF Gauge
<1>2. Gauge => InFlightExact
  BY DEF Gauge, Inside, Within, InFlightExact
<1> QED
  BY <1>1, <1>2, GaugeKept, ServerTypes, PTL DEF Spec
=============================================================================
