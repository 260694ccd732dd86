---------------------------- MODULE RateLimiter ----------------------------
(***************************************************************************)
(* The rate limiter in front of the server (middleware/middleware.go): a   *)
(* global token bucket, and one per address that the first request from it *)
(* creates, under a lock that was released after looking for it.  A bucket *)
(* is the library's rate.Limiter: it starts full and refills with time.    *)
(* Tokens are counted in quarters and rates in quarters a tick.            *)
(***************************************************************************)
EXTENDS Naturals

CONSTANTS
  Procs,       \* the concurrent requests
  Addrs,       \* the addresses they come from, r.RemoteAddr
  Settings,    \* the pairs of rates to consider
  Horizon,     \* the number of ticks a window of observation lasts at most
  None         \* no address, no bucket

\* What is assumed of the constants, by the modules that give them values too.
LimiterAssumption ==
  /\ Settings \subseteq [global : Nat, perIP : Nat] /\ Horizon \in Nat
  /\ None \notin Addrs /\ None \notin Addrs \X Procs

VARIABLES
  rate,        \* the global rate and that of each address, 0 if there is no limit
  global,      \* the tokens of the global bucket
  perIP,       \* the bucket of each address, or None
  tokens,      \* the tokens of each bucket
  ask,         \* each request's call of Allow, see Idle
  taken,       \* history: what each address took since the window began
  takenAll,    \* history: what all took from the global bucket since then
  since        \* history: the ticks since the window began

vars == <<rate, global, perIP, tokens, ask, taken, takenAll, since>>

Token == 4
GlobalRate == rate.global
PerIPRate == rate.perIP
Burst(r) == (2 * r) \div Token
GlobalBurst == Burst(GlobalRate) * Token
PerIPBurst == (IF Burst(PerIPRate) < 1 THEN 1 ELSE Burst(PerIPRate)) * Token

\* A bucket is named by its address and the request that made it.
Buckets == Addrs \X Procs
At(step, a, b, v) == [pc |-> step, addr |-> a, bucket |-> b, verdict |-> v]
Idle == At("idle", None, None, None)

Init ==
  /\ rate \in Settings
  /\ global = GlobalBurst
  /\ perIP = [a \in Addrs |-> None]
  /\ tokens = [b \in Buckets |-> 0]
  /\ ask = [p \in Procs |-> Idle]
  /\ taken = [a \in Addrs |-> 0] /\ takenAll = 0 /\ since = 0

-----------------------------------------------------------------------------
Goto(p, step, b) == ask' = [ask EXCEPT ![p] = At(step, ask[p].addr, b, None)]
Judge(p, v) == ask' = [ask EXCEPT ![p] = At("judged", None, None, v)]

\* The middleware calls Allow with the address of the request.
Ask(p, a) ==
  /\ ask[p].pc = "idle"
  /\ ask' = [ask EXCEPT ![p] = At("global", a, None, None)]
  /\ UNCHANGED <<rate, global, perIP, tokens, taken, takenAll, since>>

\* What the global limit lets through goes on to the limit of its address.
PassGlobal(p) == IF PerIPRate = 0 THEN Judge(p, "allowed") ELSE Goto(p, "find", None)

TakeGlobal(p) ==
  /\ ask[p].pc = "global"
  /\ \/ GlobalRate = 0 /\ PassGlobal(p) /\ UNCHANGED <<global, takenAll>>
     \/ /\ GlobalRate > 0 /\ global >= Token
        /\ global' = global - Token /\ takenAll' = takenAll + 1
        /\ PassGlobal(p)
     \/ /\ GlobalRate > 0 /\ global < Token
        /\ Judge(p, "rejected") /\ UNCHANGED <<global, takenAll>>
  /\ UNCHANGED <<rate, perIP, tokens, taken, since>>

\* getLimiter looks the address up under the read lock ...
Find(p) ==
  LET b == perIP[ask[p].addr] IN
  /\ ask[p].pc = "find"
  /\ Goto(p, IF b = None THEN "create" ELSE "take", b)
  /\ UNCHANGED <<rate, global, perIP, tokens, taken, takenAll, since>>

\* Bug: under the write lock the address is not looked up again.
StillAbsentUnchecked(a) == TRUE
StillAbsent(a) == perIP[a] = None

\* ... and makes a bucket under the write lock if there is still none.
Create(p) ==
  LET a == ask[p].addr IN
  /\ ask[p].pc = "create"
  /\ IF StillAbsent(a)
     THEN /\ perIP' = [perIP EXCEPT ![a] = <<a, p>>]
          /\ tokens' = [tokens EXCEPT ![<<a, p>>] = PerIPBurst]
     ELSE UNCHANGED <<perIP, tokens>>
  /\ Goto(p, "take", perIP'[a])
  /\ UNCHANGED <<rate, global, taken, takenAll, since>>

\* A rejection here does not give the global token back.
TakeOwn(p) ==
  LET b == ask[p].bucket IN
  /\ ask[p].pc = "take"
  /\ \/ /\ tokens[b] >= Token
        /\ tokens' = [tokens EXCEPT ![b] = @ - Token]
        /\ taken' = [taken EXCEPT ![ask[p].addr] = @ + 1]
        /\ Judge(p, "allowed")
     \/ tokens[b] < Token /\ Judge(p, "rejected") /\ UNCHANGED <<tokens, taken>>
  /\ UNCHANGED <<rate, global, perIP, takenAll, since>>

\* The middleware acts on the verdict.
Done(p) ==
  /\ ask[p].pc = "judged"
  /\ ask' = [ask EXCEPT ![p] = Idle]
  /\ UNCHANGED <<rate, global, perIP, tokens, taken, takenAll, since>>

-----------------------------------------------------------------------------
\* Bug: an idle bucket saves up more than its burst.
Overflowing(n, burst) == n
Capped(n, burst) == IF n > burst THEN burst ELSE n

\* Time passes, as far as the window of observation lasts; a new window can
\* begin at any time, with the buckets as they are.
Tick ==
  /\ since < Horizon
  /\ since' = since + 1
  /\ global' = Capped(global + GlobalRate, GlobalBurst)
  /\ tokens' = [b \in Buckets |-> IF \E a \in Addrs : perIP[a] = b
                                  THEN Capped(tokens[b] + PerIPRate, PerIPBurst)
                                  ELSE tokens[b]]
  /\ UNCHANGED <<rate, perIP, ask, taken, takenAll>>

Observe ==
  /\ since' = 0 /\ taken' = [a \in Addrs |-> 0] /\ takenAll' = 0
  /\ UNCHANGED <<rate, global, perIP, tokens, ask>>

Allow(p) == TakeGlobal(p) \/ Find(p) \/ Create(p) \/ TakeOwn(p)

Next ==
  \/ \E p \in Procs : (\E a \in Addrs : Ask(p, a)) \/ Allow(p) \/ Done(p)
  \/ Tick \/ Observe

Spec == Init /\ [][Next]_vars

-----------------------------------------------------------------------------
AskType ==
  [pc : {"idle", "global", "find", "create", "take", "judged"},
   addr : Addrs \cup {None}, bucket : Buckets \cup {None},
   verdict : {"allowed", "rejected", None}]

\* Buckets hold no more than their burst and no less than nothing
\* (middleware.go:63-109).
TypeOK ==
  /\ rate \in Settings
  /\ global \in 0..GlobalBurst
  /\ perIP \in [Addrs -> Buckets \cup {None}]
  /\ tokens \in [Buckets -> 0..PerIPBurst]
  /\ ask \in [Procs -> AskType]
  /\ taken \in [Addrs -> Nat] /\ takenAll \in Nat /\ since \in 0..Horizon

\* In every window of time, however requests race for an address's first
\* bucket, no address is let through more often than its burst and its rate
\* allow, nor all together more often than the global ones
\* (RateLimiter.Allow and getLimiter, middleware.go:80-109).
RateBounded ==
  /\ GlobalRate > 0 => takenAll * Token <= GlobalBurst + since * GlobalRate
  /\ \A a \in Addrs : taken[a] * Token <= PerIPBurst + since * PerIPRate
=============================================================================
