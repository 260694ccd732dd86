------------------------------- MODULE Server -------------------------------
(***************************************************************************)
(* The process around the backends.  run (config.go) reads its settings    *)
(* and builds the server, see Config; requests then pass the rate limiter, *)
(* the checks of auth.go, cache_path.go and handlers.go and one backend    *)
(* call or one readiness probe, until a signal: run stops the background   *)
(* uploads and shuts the debug and the HTTP server down under a deadline.  *)
(* The backend is a call that returns; net/http is modelled from its use.  *)
(***************************************************************************)
EXTENDS Naturals, FiniteSets

CONSTANTS
  Procs, Addrs, Settings, Horizon, None,  \* see RateLimiter
  Inputs, Bad, Days                       \* see Config

VARIABLES
  phase,       \* where run is
  clock,       \* the deadline of shutdownCtx
  req,         \* where each request is
  inflight,    \* the gauge of the requests being served
  stage, env, flag, opt, stack, janitor,
  rate, global, perIP, tokens, ask, taken, takenAll, since

settings == <<stage, env, flag, opt, stack, janitor>>
limiter == <<rate, global, perIP, tokens, ask, taken, takenAll, since>>
vars == <<phase, clock, req, inflight, settings, limiter>>

Boot == INSTANCE Config
Limiter == INSTANCE RateLimiter

ASSUME ServerAssumption == Limiter!LimiterAssumption

\* run makes a limiter only if one of the rates is positive.
Limited == rate.global > 0 \/ rate.perIP > 0

Active == {p \in Procs : req[p] # "idle"}
Running == phase \in {"serving", "stopping", "debug", "closing"}
\* The listener is open until srv.Shutdown, the last of run's steps, is called.
Listening == phase \in {"serving", "stopping", "debug"}

\* The limiter waits for run with the rates it will be made with.
Init ==
  /\ phase = "starting" /\ clock = "off"
  /\ req = [p \in Procs |-> "idle"] /\ inflight = 0
  /\ Boot!Init /\ Limiter!Init
  /\ rate = [global |-> Boot!Setting("global"), perIP |-> Boot!Setting("perIP")]

Move(p, step) == req' = [req EXCEPT ![p] = step]
RunFrame == UNCHANGED <<phase, clock, settings>>

-----------------------------------------------------------------------------
\* run before the server listens; it returns or dies when Config says so.
Start ==
  /\ phase = "starting"
  /\ Boot!Next
  /\ phase' = CASE stage' \in {"refused", "printed"} -> "refused"
                [] stage' = "panicked" -> "crashed"
                [] OTHER -> "starting"
  /\ UNCHANGED <<clock, req, inflight, limiter>>

\* What was read is not used again: here it is forgotten.
Listen ==
  /\ phase = "starting" /\ stage = "built"
  /\ phase' = "serving" /\ stage' = "over"
  /\ opt' = Boot!Default
  /\ env' = [o \in Boot!Options |-> None] /\ flag' = env'
  /\ UNCHANGED <<clock, req, inflight, stack, janitor, limiter>>

\* StartCleanup panics after its first round if the interval is not positive.
JanitorTicks ==
  /\ phase = "starting" \/ Running
  /\ janitor = 0
  /\ phase' = "crashed"
  /\ UNCHANGED <<clock, req, inflight, settings, limiter>>

\* The uploader's retry goroutine meets the closed channel, see AsyncUploader.
RetryPanics ==
  /\ phase \in {"stopping", "debug", "closing"} /\ stack.uploads
  /\ phase' = "crashed"
  /\ UNCHANGED <<clock, req, inflight, settings, limiter>>

-----------------------------------------------------------------------------
\* Every endpoint is behind the limiter.
Arrive(p) ==
  /\ Listening /\ req[p] = "idle"
  /\ \/ Limited /\ Move(p, "limit") /\ \E a \in Addrs : Limiter!Ask(p, a)
     \/ ~Limited /\ Move(p, "mux") /\ UNCHANGED limiter
  /\ UNCHANGED inflight /\ RunFrame

Limit(p) ==
  /\ Running /\ req[p] = "limit" /\ Limiter!Allow(p)
  /\ UNCHANGED <<req, inflight>> /\ RunFrame

\* Too many requests: 429.
Verdict(p) ==
  /\ Running /\ req[p] = "limit"
  /\ Limiter!Done(p)
  /\ \/ ask[p].verdict = "allowed" /\ Move(p, "mux")
     \/ ask[p].verdict = "rejected" /\ Move(p, "idle")
  /\ UNCHANGED inflight /\ RunFrame

\* /cache/ and /health are counted, the other endpoints are not; of these only
\* /readyz does more than answer.
Endpoint(p) ==
  /\ Running /\ req[p] = "mux"
  /\ \/ Move(p, "checks") /\ inflight' = inflight + 1
     \/ UNCHANGED inflight /\ (Move(p, "probe") \/ Move(p, "idle"))
  /\ UNCHANGED limiter /\ RunFrame

\* What the checks see of a request, in their order.
Requests == [authorized : BOOLEAN, keyed : BOOLEAN,
             method : {"HEAD", "GET", "PUT", "DELETE", "other"},
             length : {"unknown", "over", "zero", "fits"}]
Refused(r) ==
  \/ stack.auth /\ ~r.authorized
  \/ ~r.keyed
  \/ r.method = "other"
  \/ r.method = "PUT" /\ r.length # "fits"

Counted(p, step) ==
  /\ Move(p, step)
  /\ inflight' = IF step = "idle" THEN inflight - 1 ELSE inflight

\* /health and what is refused end here.
Checks(p) ==
  /\ Running /\ req[p] = "checks"
  /\ \/ Counted(p, "idle")
     \/ \E r \in Requests :
          ~Refused(r) /\ Counted(p, CASE r.method = "GET" -> "get"
                                      [] r.method = "PUT" -> "put"
                                      [] OTHER -> "call")
  /\ UNCHANGED limiter /\ RunFrame

\* HEAD, PUT and DELETE are answered when the backend returns, and so is a GET
\* that finds nothing or fails.
CallReturns(p) ==
  /\ Running /\ req[p] \in {"get", "put", "call"}
  /\ \/ Counted(p, "idle")
     \/ req[p] = "get" /\ Counted(p, "stream")
  /\ UNCHANGED limiter /\ RunFrame

StreamEnds(p) ==
  /\ Running /\ req[p] = "stream" /\ Counted(p, "idle")
  /\ UNCHANGED limiter /\ RunFrame

\* Bug: a handler that panics does not count down.
NotDeferred == inflight
Deferred == inflight - 1

\* A PUT meets the closed channel of the uploader: net/http recovers the panic.
PutPanics(p) ==
  /\ phase \in {"stopping", "debug", "closing"} /\ stack.uploads
  /\ req[p] = "put" /\ Move(p, "idle")
  /\ inflight' = Deferred
  /\ UNCHANGED limiter /\ RunFrame

\* The checkers, run in turn, have answered or run into their timeouts.
ProbeEnds(p) ==
  /\ Running /\ req[p] = "probe" /\ Move(p, "idle")
  /\ UNCHANGED <<inflight, limiter>> /\ RunFrame

-----------------------------------------------------------------------------
\* Bug: the deadline starts once the uploads are stopped.
ClockLater == "off"
ClockNow == "running"

\* Without uploads, and without a debug server, there is nothing to wait for.
AfterUploads == IF stack.debug THEN "debug" ELSE "closing"

Signal ==
  /\ phase = "serving"
  /\ phase' = IF stack.uploads THEN "stopping" ELSE AfterUploads
  /\ clock' = ClockNow
  /\ UNCHANGED <<req, inflight, settings, limiter>>

\* StopAsyncUploader returns, if the uploads it waits for do: they run under
\* context.Background, and the deadline does not bound them.
CleanupReturns ==
  /\ phase = "stopping"
  /\ phase' = AfterUploads
  /\ UNCHANGED <<clock, req, inflight, settings, limiter>>

Expire ==
  /\ Running /\ clock = "running"
  /\ clock' = "expired"
  /\ UNCHANGED <<phase, req, inflight, settings, limiter>>

\* The debug server is idle or the deadline has passed.
DebugReturns ==
  /\ phase = "debug"
  /\ phase' = "closing"
  /\ UNCHANGED <<clock, req, inflight, settings, limiter>>

MayReturn == Active = {} \/ clock = "expired"

\* srv.Shutdown returns, and with it run: what is still active is cut off.
ShutdownReturns ==
  /\ phase = "closing" /\ MayReturn
  /\ phase' = "exited"
  /\ UNCHANGED <<clock, req, inflight, settings, limiter>>

\* The listener fails: run returns its error and stops nothing.
ListenerFails ==
  /\ phase = "serving"
  /\ phase' = "broken"
  /\ UNCHANGED <<clock, req, inflight, settings, limiter>>

Time ==
  /\ Running
  /\ Limiter!Tick \/ Limiter!Observe
  /\ UNCHANGED <<req, inflight>> /\ RunFrame

-----------------------------------------------------------------------------
Serve(p) ==
  \/ Limit(p) \/ Verdict(p) \/ Endpoint(p) \/ Checks(p) \/ CallReturns(p)
  \/ StreamEnds(p) \/ PutPanics(p) \/ ProbeEnds(p)

RunSteps ==
  \/ Start \/ Listen \/ JanitorTicks \/ RetryPanics
  \/ Signal \/ CleanupReturns \/ Expire \/ DebugReturns \/ ShutdownReturns
  \/ ListenerFails

Next ==
  \/ \E p \in Procs : Arrive(p) \/ Serve(p)
  \/ RunSteps \/ Time

Spec == Init /\ [][Next]_vars

\* Deadlines pass, and the calls they bound return; clients, backends and the
\* uploads that Stop waits for may hang for ever.
FairSpec ==
  /\ Spec
  /\ WF_vars(Expire) /\ WF_vars(ShutdownReturns)
  /\ WF_vars(phase = "debug" /\ clock = "expired" /\ DebugReturns)

-----------------------------------------------------------------------------
Phases == {"starting", "refused", "serving", "stopping", "debug", "closing",
           "exited", "broken", "crashed"}

\* Each request is in one of the steps of its handler, in a call of Allow
\* exactly while it waits for the limiter, and none is there before the server
\* listens (middleware.go:111-126, config.go:302-331).
TypeOK ==
  /\ phase \in Phases
  /\ clock \in {"off", "running", "expired"}
  /\ req \in [Procs -> {"idle", "limit", "mux", "checks", "get", "put", "call",
                        "stream", "probe"}]
  /\ \A p \in Procs : req[p] = "limit" <=> ask[p].pc # "idle"
  /\ phase = "starting" => Active = {}
  /\ Limiter!TypeOK

\* No address, and not all of them together, get more requests through the
\* limiter in any window of time than burst and rate allow (middleware.go:80-109).
RateBounded == Limiter!RateBounded

\* The gauge counts the requests between instrument and its end, those that
\* panic while the uploads are being stopped included (handlers.go:220-251).
InFlightExact ==
  inflight = Cardinality({p \in Procs : req[p] \in {"checks", "get", "put", "call", "stream"}})

\* Flag before variable before default (config.go:85-195).
FlagsWin == Boot!FlagsWin

\* No half-configured authentication (config.go:200-203, auth.go:16-28).
AuthComplete == Boot!AuthComplete

\* Once the uploads are stopped the process ends, whatever requests and debug
\* connections hang: the deadline, which runs from the signal on, bounds the two
\* shutdowns that follow (config.go:386-394).  It does not bound the wait for the
\* uploads (config.go:388-390): see StopReturns in AsyncUploader.
Exits == phase \in {"debug", "closing"} ~> phase \in {"exited", "crashed"}
=============================================================================
