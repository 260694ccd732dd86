------------------------- MODULE RateLimiterProofs -------------------------
(***************************************************************************)
(* Proofs about RateLimiter, for every number of requests and addresses    *)
(* and all rates: an address has one bucket, and what a bucket has handed  *)
(* out since any instant is paid for by its burst and by the time passed.  *)
(***************************************************************************)
EXTENDS RateLimiter, TLAPS

\* A request past getLimiter has the one bucket of its address.
OneBucket ==
  /\ \A a \in Addrs : perIP[a] # None => \E p \in Procs : perIP[a] = <<a, p>>
  /\ \A p \in Procs :
       /\ ask[p].pc \in {"global", "find", "create", "take"} => ask[p].addr \in Addrs
       /\ ask[p].pc = "take" => ask[p].bucket = perIP[ask[p].addr] /\ ask[p].bucket # None

\* Tokens handed out and tokens left are at most the burst and the refills.
Left(a) == IF perIP[a] = None THEN PerIPBurst ELSE tokens[perIP[a]]
Paid ==
  /\ takenAll * Token + global <= GlobalBurst + since * GlobalRate
  /\ \A a \in Addrs : taken[a] * Token + Left(a) <= PerIPBurst + since * PerIPRate

Inv == TypeOK /\ OneBucket /\ Paid

\* Rates and bursts are numbers.
LEMMA Numbers ==
  ASSUME LimiterAssumption, rate \in Settings
  PROVE  /\ GlobalRate \in Nat /\ PerIPRate \in Nat
         /\ GlobalBurst \in Nat /\ PerIPBurst \in Nat
<1>1. GlobalRate \in Nat /\ PerIPRate \in Nat
  BY DEF GlobalRate, PerIPRate, LimiterAssumption
<1>2. Burst(GlobalRate) \in Nat /\ Burst(PerIPRate) \in Nat
  BY <1>1 DEF Burst, Token
<1> QED
  BY <1>1, <1>2 DEF GlobalBurst, PerIPBurst, Token

\* None is no bucket.
LEMMA BucketIsNotNone ==
  ASSUME Inv, NEW p \in Procs, ask[p].pc = "take"
  PROVE  perIP[ask[p].addr] \in Buckets
BY DEF Inv, TypeOK, OneBucket

\* Every bucket is full at first.
LEMMA InitInv == ASSUME LimiterAssumption, Init PROVE Inv
<1>1. GlobalRate \in Nat /\ PerIPRate \in Nat /\ GlobalBurst \in Nat /\ PerIPBurst \in Nat
  BY Numbers DEF Init
<1>2. TypeOK
  BY <1>1 DEF Init, TypeOK, AskType, Idle, At, LimiterAssumption
<1>3. OneBucket
  BY DEF Init, OneBucket, Idle, At
<1>4. Paid
  BY <1>1 DEF Init, Paid, Left, Token
<1> QED
  BY <1>2, <1>3, <1>4 DEF Inv

\* Steps that touch no bucket and no count keep what was paid.
LEMMA PaidKept ==
  ASSUME Inv, UNCHANGED <<rate, global, perIP, tokens, taken, takenAll, since>>
  PROVE  Paid'
BY DEF Inv, Paid, Left, GlobalRate, PerIPRate, GlobalBurst, PerIPBurst, Burst, Token
\* A request enters, looks its bucket up, or leaves.
LEMMA AskInv ==
  ASSUME Inv, NEW p \in Procs, (\E a \in Addrs : Ask(p, a)) \/ Find(p) \/ Done(p)
  PROVE  Inv'
<1>1. UNCHANGED <<rate, global, perIP, tokens, taken, takenAll, since>>
  BY DEF Ask, Find, Done
<1>2. Paid'
  BY <1>1, PaidKept
<1>3. TypeOK' /\ OneBucket'
  <2>1. CASE \E a \in Addrs : Ask(p, a)
    <3>1. PICK a \in Addrs : Ask(p, a)
      BY <2>1
    <3>2. ask' = [ask EXCEPT ![p] = [pc |-> "global", addr |-> a, bucket |-> None,
                                     verdict |-> None]]
      BY <3>1 DEF Ask, At
    <3> QED
      BY <1>1, <3>2 DEF Inv, TypeOK, AskType, OneBucket, GlobalBurst, PerIPBurst,
         GlobalRate, PerIPRate, Burst
  <2>2. CASE Find(p)
    <3> DEFINE b == perIP[ask[p].addr]
               s == IF b = None THEN "create" ELSE "take"
    <3>1. ask[p].addr \in Addrs /\ b \in Buckets \cup {None}
      BY <2>2 DEF Find, Inv, TypeOK, OneBucket
    <3>2. ask' = [ask EXCEPT ![p] = [pc |-> s, addr |-> ask[p].addr, bucket |-> b,
                                     verdict |-> None]]
      BY <2>2 DEF Find, Goto, At
    <3> HIDE DEF b
    <3>3. ask' \in [Procs -> AskType]
      BY <3>1, <3>2 DEF Inv, TypeOK, AskType
    <3>4. OneBucket'
      BY <1>1, <3>1, <3>2 DEF Inv, TypeOK, AskType, OneBucket, b
    <3> QED
      BY <1>1, <3>3, <3>4 DEF Inv, TypeOK, GlobalBurst, PerIPBurst, GlobalRate,
         PerIPRate, Burst
  <2>3. CASE Done(p)
    <3>1. ask' = [ask EXCEPT ![p] = [pc |-> "idle", addr |-> None, bucket |-> None,
                                     verdict |-> None]]
      BY <2>3 DEF Done, Idle, At
    <3> QED
      BY <1>1, <3>1 DEF Inv, TypeOK, AskType, OneBucket, GlobalBurst, PerIPBurst,
         GlobalRate, PerIPRate, Burst
  <2> QED
    BY <2>1, <2>2, <2>3
<1> QED
  BY <1>2, <1>3 DEF Inv

\* A verdict ends the call: the request holds no bucket any more.
LEMMA Judged ==
  ASSUME TypeOK, OneBucket, NEW p \in Procs, NEW v \in {"allowed", "rejected"},
         Judge(p, v), UNCHANGED perIP
  PROVE  ask' \in [Procs -> AskType] /\ OneBucket'
<1>1. ask' = [ask EXCEPT ![p] = [pc |-> "judged", addr |-> None, bucket |-> None,
                                 verdict |-> v]]
  BY DEF Judge, At
<1> QED
  BY <1>1 DEF TypeOK, AskType, OneBucket

\* The global bucket is asked.
LEMMA GlobalInv == ASSUME LimiterAssumption, Inv, NEW p \in Procs, TakeGlobal(p) PROVE Inv'
<1>1. UNCHANGED <<rate, perIP, tokens, taken, since>>
  BY DEF TakeGlobal
<1>2. ask' \in [Procs -> AskType] /\ OneBucket'
  <2>1. CASE \E v \in {"allowed", "rejected"} : Judge(p, v)
    BY <1>1, <2>1, Judged DEF Inv
  <2>2. CASE Goto(p, "find", None)
    <3>1. ask' = [ask EXCEPT ![p] = [pc |-> "find", addr |-> ask[p].addr,
                                     bucket |-> None, verdict |-> None]]
      BY <2>2 DEF Goto, At
    <3>2. ask[p].addr \in Addrs
      BY DEF TakeGlobal, Inv, OneBucket
    <3> QED
      BY <1>1, <3>1, <3>2 DEF Inv, TypeOK, AskType, OneBucket
  <2> QED
    BY <2>1, <2>2 DEF TakeGlobal, PassGlobal
<1>3. \/ UNCHANGED <<global, takenAll>>
      \/ global >= Token /\ global' = global - Token /\ takenAll' = takenAll + 1
  BY DEF TakeGlobal
<1>4. GlobalRate' = GlobalRate /\ PerIPRate' = PerIPRate
        /\ GlobalBurst' = GlobalBurst /\ PerIPBurst' = PerIPBurst
  BY <1>1 DEF GlobalRate, PerIPRate, GlobalBurst, PerIPBurst, Burst
<1>5. /\ GlobalRate \in Nat /\ GlobalBurst \in Nat
      /\ global \in 0..GlobalBurst /\ takenAll \in Nat /\ since \in Nat
  BY Numbers DEF Inv, TypeOK, LimiterAssumption
<1>6. global' \in 0..GlobalBurst /\ takenAll' \in Nat
        /\ takenAll' * Token + global' = takenAll * Token + global
  BY <1>3, <1>5 DEF Token
<1>7. TypeOK'
  BY <1>1, <1>2, <1>4, <1>6 DEF Inv, TypeOK
<1>8. Paid'
  <2>1. takenAll' * Token + global' <= GlobalBurst' + since' * GlobalRate'
    BY <1>1, <1>4, <1>6 DEF Inv, Paid
  <2>2. \A a \in Addrs : taken'[a] * Token + Left(a)' <= PerIPBurst' + since' * PerIPRate'
    BY <1>1, <1>4 DEF Inv, Paid, Left
  <2> QED
    BY <2>1, <2>2 DEF Paid, Token
<1> QED
  BY <1>2, <1>7, <1>8 DEF Inv

\* The rates and bursts stay what they are.
LEMMA RatesKept ==
  ASSUME UNCHANGED rate
  PROVE  /\ GlobalRate' = GlobalRate /\ PerIPRate' = PerIPRate
         /\ GlobalBurst' = GlobalBurst /\ PerIPBurst' = PerIPBurst
BY DEF GlobalRate, PerIPRate, GlobalBurst, PerIPBurst, Burst

\* An address without a bucket gets a full one, one with a bucket keeps it.
LEMMA CreateInv == ASSUME LimiterAssumption, Inv, NEW p \in Procs, Create(p) PROVE Inv'
<1> DEFINE a == ask[p].addr
<1>1. a \in Addrs /\ <<a, p>> \in Buckets /\ UNCHANGED <<rate, global, taken, takenAll, since>>
  BY DEF Create, Inv, OneBucket, Buckets
<1>2. ask' = [ask EXCEPT ![p] = [pc |-> "take", addr |-> a, bucket |-> perIP'[a],
                                 verdict |-> None]]
  BY DEF Create, Goto, At
<1>3. /\ GlobalRate' = GlobalRate /\ PerIPRate' = PerIPRate
      /\ GlobalBurst' = GlobalBurst /\ PerIPBurst' = PerIPBurst
  BY <1>1, RatesKept
<1>4. GlobalRate \in Nat /\ PerIPRate \in Nat /\ GlobalBurst \in Nat /\ PerIPBurst \in Nat
  BY Numbers DEF Inv, TypeOK
<1>5. CASE perIP[a] = None
  <2>1. /\ perIP' = [perIP EXCEPT ![a] = <<a, p>>]
        /\ tokens' = [tokens EXCEPT ![<<a, p>>] = PerIPBurst]
    BY <1>5 DEF Create, StillAbsent
  <2>2. perIP'[a] = <<a, p>> /\ \A x \in Addrs : x # a => perIP'[x] = perIP[x]
    BY <1>1, <2>1 DEF Inv, TypeOK
  <2>3. /\ tokens' \in [Buckets -> 0..PerIPBurst] /\ tokens'[<<a, p>>] = PerIPBurst
        /\ \A b \in Buckets : b # <<a, p>> => tokens'[b] = tokens[b]
    BY <1>1, <1>4, <2>1 DEF Inv, TypeOK
  <2>4. TypeOK'
    BY <1>1, <1>2, <1>3, <2>1, <2>2, <2>3 DEF Inv, TypeOK, AskType
  <2>5. perIP'[a] # None
    BY <1>1, <2>2 DEF LimiterAssumption
  <2>6. OneBucket'
    <3>1. \A x \in Addrs : perIP'[x] # None => \E q \in Procs : perIP'[x] = <<x, q>>
      BY <2>2 DEF Inv, OneBucket
    <3>2. \A q \in Procs : ask[q].pc = "take" => ask[q].addr # a
      BY <1>5 DEF Inv, OneBucket
    <3>3. ASSUME NEW q \in Procs
          PROVE  /\ ask'[q].pc \in {"global", "find", "create", "take"} => ask'[q].addr \in Addrs
                 /\ ask'[q].pc = "take" =>
                      ask'[q].bucket = perIP'[ask'[q].addr] /\ ask'[q].bucket # None
      BY <1>1, <1>2, <2>2, <2>5, <3>2 DEF Inv, OneBucket, TypeOK
    <3> QED
      BY <3>1, <3>3 DEF OneBucket
  <2>7. Paid'
    <3>1. takenAll' * Token + global' <= GlobalBurst' + since' * GlobalRate'
      BY <1>1, <1>3 DEF Inv, Paid
    <3>2. ASSUME NEW x \in Addrs
          PROVE  taken'[x] * Token + Left(x)' <= PerIPBurst' + since' * PerIPRate'
      <4>1. Left(x)' = Left(x)
        <5>1. CASE x = a
          BY <1>3, <1>5, <2>2, <2>3, <2>5, <5>1 DEF Left
        <5>2. CASE x # a /\ perIP[x] = None
          BY <1>3, <2>2, <5>2 DEF Left
        <5>3. CASE x # a /\ perIP[x] # None
          <6>1. PICK q \in Procs : perIP[x] = <<x, q>>
            BY <5>3 DEF Inv, OneBucket
          <6>2. <<x, q>> \in Buckets /\ <<x, q>> # <<a, p>>
            BY <5>3 DEF Buckets
          <6> QED
            BY <2>2, <2>3, <5>3, <6>1, <6>2 DEF Left
        <5> QED
          BY <5>1, <5>2, <5>3
      <4> QED
        BY <1>1, <1>3, <4>1 DEF Inv, Paid
    <3> QED
      BY <3>1, <3>2 DEF Paid
  <2> QED
    BY <2>4, <2>6, <2>7 DEF Inv
<1>6. CASE perIP[a] # None
  <2>1. UNCHANGED <<perIP, tokens>> /\ perIP[a] \in Buckets
    BY <1>1, <1>6 DEF Create, StillAbsent, Inv, TypeOK
  <2>2. TypeOK'
    BY <1>1, <1>2, <1>3, <2>1 DEF Inv, TypeOK, AskType
  <2>3. OneBucket'
    BY <1>1, <1>2, <1>6, <2>1 DEF Inv, OneBucket, TypeOK
  <2> QED
    BY <1>1, <2>1, <2>2, <2>3, PaidKept DEF Inv, Create
<1> QED
  BY <1>5, <1>6

\* A token is taken from the bucket of the request's address, if it has one.
LEMMA OwnInv == ASSUME LimiterAssumption, Inv, NEW p \in Procs, TakeOwn(p) PROVE Inv'
<1> DEFINE a == ask[p].addr
           b == perIP[a]
<1>1. /\ a \in Addrs /\ b \in Buckets /\ b # None /\ ask[p].bucket = b
      /\ UNCHANGED <<rate, global, perIP, takenAll, since>>
  BY BucketIsNotNone DEF TakeOwn, Inv, OneBucket
<1>2. ask' \in [Procs -> AskType] /\ OneBucket'
  BY <1>1, Judged DEF TakeOwn, Inv
<1>3. CASE UNCHANGED <<tokens, taken>>
  <2>1. TypeOK'
    BY <1>1, <1>2, <1>3, RatesKept DEF Inv, TypeOK
  <2> QED
    BY <1>1, <1>2, <1>3, <2>1, PaidKept DEF Inv
<1>4. CASE /\ tokens[b] >= Token /\ tokens' = [tokens EXCEPT ![b] = @ - Token]
           /\ taken' = [taken EXCEPT ![a] = @ + 1]
  <2>1. PerIPBurst \in Nat /\ tokens[b] \in 0..PerIPBurst /\ taken[a] \in Nat
    BY <1>1, Numbers DEF Inv, TypeOK
  <2>2. tokens[b] - Token \in 0..PerIPBurst /\ taken[a] + 1 \in Nat
    BY <1>4, <2>1 DEF Token
  <2>3. /\ tokens' \in [Buckets -> 0..PerIPBurst] /\ tokens'[b] = tokens[b] - Token
        /\ \A c \in Buckets : c # b => tokens'[c] = tokens[c]
    BY <1>1, <1>4, <2>2 DEF Inv, TypeOK
  <2>4. /\ taken' \in [Addrs -> Nat] /\ taken'[a] = taken[a] + 1
        /\ \A x \in Addrs : x # a => taken'[x] = taken[x]
    BY <1>1, <1>4, <2>2 DEF Inv, TypeOK
  <2>5. TypeOK'
    BY <1>1, <1>2, <2>3, <2>4, RatesKept DEF Inv, TypeOK
  <2>6. ASSUME NEW x \in Addrs
        PROVE  taken'[x] * Token + Left(x)' = taken[x] * Token + Left(x)
    <3>1. CASE x = a
      BY <1>1, <2>1, <2>3, <2>4, <3>1 DEF Left, Token
    <3>2. CASE x # a
      <4>1. Left(x)' = Left(x)
        <5>1. CASE perIP[x] = None
          BY <1>1, <5>1, RatesKept DEF Left
        <5>2. CASE perIP[x] # None
          <6>1. PICK q \in Procs : perIP[x] = <<x, q>>
            BY <5>2 DEF Inv, OneBucket
          <6>2. PICK r \in Procs : b = <<a, r>>
            BY <1>1 DEF Inv, OneBucket
          <6>3. <<x, q>> \in Buckets /\ <<x, q>> # b
            BY <3>2, <6>2 DEF Buckets
          <6> QED
            BY <1>1, <2>3, <5>2, <6>1, <6>3 DEF Left
        <5> QED
          BY <5>1, <5>2
      <4> QED
        BY <2>4, <3>2, <4>1
    <3> QED
      BY <3>1, <3>2
  <2>7. Paid'
    <3>1. takenAll' * Token + global' <= GlobalBurst' + since' * GlobalRate'
      BY <1>1, RatesKept DEF Inv, Paid
    <3>2. \A x \in Addrs : taken'[x] * Token + Left(x)' <= PerIPBurst' + since' * PerIPRate'
      BY <1>1, <2>6, RatesKept DEF Inv, Paid
    <3> QED
      BY <3>1, <3>2 DEF Paid
  <2> QED
    BY <1>2, <2>5, <2>7 DEF Inv
<1> QED
  BY <1>1, <1>3, <1>4 DEF TakeOwn

\* What a bucket gains in a tick is no more than its rate.
LEMMA Refilled ==
  ASSUME NEW t \in Nat, NEW old \in Nat, NEW new \in Nat, NEW burst \in Nat,
         NEW g \in Nat, NEW r \in Nat, t + old <= burst + g, new <= old + r
  PROVE  t + new <= burst + (g + r)
OBVIOUS

\* A tick pays for what it refills.
LEMMA TickInv == ASSUME LimiterAssumption, Inv, Tick PROVE Inv'
<1>1. UNCHANGED <<rate, perIP, ask, taken, takenAll>> /\ since' = since + 1 /\ since < Horizon
  BY DEF Tick
<1>2. /\ GlobalRate' = GlobalRate /\ PerIPRate' = PerIPRate
      /\ GlobalBurst' = GlobalBurst /\ PerIPBurst' = PerIPBurst
  BY <1>1, RatesKept
<1>3. /\ GlobalRate \in Nat /\ PerIPRate \in Nat /\ GlobalBurst \in Nat /\ PerIPBurst \in Nat
      /\ since \in Nat /\ global \in 0..GlobalBurst
  BY Numbers DEF Inv, TypeOK, LimiterAssumption
<1>4. since' * GlobalRate = since * GlobalRate + GlobalRate
        /\ since' * PerIPRate = since * PerIPRate + PerIPRate
        /\ since * GlobalRate \in Nat /\ since * PerIPRate \in Nat
  BY <1>1, <1>3
<1>5. global' \in 0..GlobalBurst /\ global' <= global + GlobalRate
  BY <1>3 DEF Tick, Capped
<1>6. \A b \in Buckets : tokens'[b] \in 0..PerIPBurst /\ tokens'[b] <= tokens[b] + PerIPRate
  BY <1>3 DEF Tick, Capped, Inv, TypeOK
<1>7. tokens' \in [Buckets -> 0..PerIPBurst]
  BY <1>6 DEF Tick
<1>8. TypeOK'
  BY <1>1, <1>2, <1>5, <1>7 DEF Inv, TypeOK, LimiterAssumption
<1>9. OneBucket'
  BY <1>1 DEF Inv, OneBucket
<1>10. Paid'
  <2>1. takenAll \in Nat /\ taken \in [Addrs -> Nat]
    BY DEF Inv, TypeOK
  <2>2. takenAll' * Token + global' <= GlobalBurst' + since' * GlobalRate'
    <3> DEFINE g == since * GlobalRate
               t == takenAll * Token
    <3>1. t + global <= GlobalBurst + g /\ g \in Nat /\ t \in Nat
      BY <1>4, <2>1 DEF Inv, Paid, Token
    <3>2. t' = t /\ since' * GlobalRate' = g + GlobalRate
      BY <1>1, <1>2, <1>4 DEF Token
    <3>3. /\ global \in Nat /\ global' \in Nat /\ global' <= global + GlobalRate
          /\ GlobalRate \in Nat /\ GlobalBurst \in Nat
      BY <1>3, <1>5
    <3>4. t + global' <= GlobalBurst + (g + GlobalRate)
      BY <3>1, <3>3, Refilled
    <3> QED
      BY <1>2, <3>2, <3>4
  <2>3. ASSUME NEW a \in Addrs
        PROVE  taken'[a] * Token + Left(a)' <= PerIPBurst' + since' * PerIPRate'
    <3> DEFINE g == since * PerIPRate
               l == Left(a)
    <3>1. taken[a] * Token + l <= PerIPBurst + g /\ taken[a] \in Nat
      BY <2>1 DEF Inv, Paid
    <3>2. g \in Nat /\ since' * PerIPRate' = g + PerIPRate
      BY <1>2, <1>4
    <3>3. l \in Nat /\ Left(a)' \in Nat /\ Left(a)' <= l + PerIPRate
      <4>1. CASE perIP[a] = None
        BY <1>1, <1>2, <1>3, <4>1 DEF Left
      <4>2. CASE perIP[a] # None
        <5>1. perIP[a] \in Buckets
          BY <4>2 DEF Inv, TypeOK
        <5> QED
          BY <1>1, <1>3, <1>6, <4>2, <5>1 DEF Left, Inv, TypeOK
      <4> QED
        BY <4>1, <4>2
    <3> HIDE DEF g, l
    <3> QED
      BY <1>1, <1>2, <1>3, <3>1, <3>2, <3>3 DEF Token
  <2> QED
    BY <2>2, <2>3 DEF Paid
<1> QED
  BY <1>8, <1>9, <1>10 DEF Inv

\* A window of observation begins: no bucket holds more than its burst.
LEMMA ObserveInv == ASSUME LimiterAssumption, Inv, Observe PROVE Inv'
<1>1. UNCHANGED <<rate, global, perIP, tokens, ask>> /\ since' = 0 /\ takenAll' = 0
        /\ taken' = [a \in Addrs |-> 0]
  BY DEF Observe
<1>2. /\ GlobalRate \in Nat /\ PerIPRate \in Nat /\ GlobalBurst \in Nat /\ PerIPBurst \in Nat
      /\ global \in 0..GlobalBurst
  BY Numbers DEF Inv, TypeOK
<1>3. TypeOK'
  BY <1>1, RatesKept DEF Inv, TypeOK, LimiterAssumption
<1>4. OneBucket'
  BY <1>1 DEF Inv, OneBucket
<1>5. \A a \in Addrs : Left(a)' \in 0..PerIPBurst
  BY <1>1, <1>2, RatesKept DEF Left, Inv, TypeOK
<1>6. Paid'
  BY <1>1, <1>2, <1>5, RatesKept DEF Paid, Token
<1> QED
  BY <1>3, <1>4, <1>6 DEF Inv

\* Every step keeps the invariant.
LEMMA NextInv == ASSUME LimiterAssumption, Inv, [Next]_vars PROVE Inv'
<1>1. ASSUME NEW p \in Procs, (\E a \in Addrs : Ask(p, a)) \/ Find(p) \/ Done(p) PROVE Inv'
  BY <1>1, AskInv
<1>2. ASSUME NEW p \in Procs, TakeGlobal(p) PROVE Inv'
  BY <1>2, GlobalInv
<1>3. ASSUME NEW p \in Procs, Create(p) PROVE Inv'
  BY <1>3, CreateInv
<1>4. ASSUME NEW p \in Procs, TakeOwn(p) PROVE Inv'
  BY <1>4, OwnInv
<1>5. CASE Tick
  BY <1>5, TickInv
<1>6. CASE Observe
  BY <1>6, ObserveInv
<1>7. CASE UNCHANGED vars
  <2>1. TypeOK' /\ OneBucket'
    BY <1>7, RatesKept DEF vars, Inv, TypeOK, OneBucket
  <2>2. Paid'
    BY <1>7, PaidKept DEF vars
  <2> QED
    BY <2>1, <2>2 DEF Inv
<1> QED
  BY <1>1, <1>2, <1>3, <1>4, <1>5, <1>6, <1>7 DEF Next, Allow

\* Every behaviour of the limiter keeps the inductive invariant.
THEOREM InvariantHolds == ASSUME LimiterAssumption PROVE Spec => []Inv
<1>1. Init => Inv
  BY InitInv
<1>2. Inv /\ [Next]_vars => Inv'
  BY NextInv
<1> QED
  BY <1>1, <1>2, PTL DEF Spec

\* Buckets never hold more than their burst, nor less than nothing
\* (middleware.go:63-109).
THEOREM LimiterTypes == ASSUME LimiterAssumption PROVE Spec => []TypeOK
<1>1. Inv => TypeOK
  BY DEF Inv
<1> QED
  BY <1>1, InvariantHolds, PTL

\* In every window of time what an address, and what all of them together,
\* are let through is bounded by burst and rate, for any number of requests
\* racing for the bucket of a new address (middleware.go:80-109).
THEOREM RatesAreBounded == ASSUME LimiterAssumption PROVE Spec => []RateBounded
<1>1. ASSUME Inv PROVE RateBounded
  <2>1. /\ GlobalRate \in Nat /\ PerIPRate \in Nat /\ GlobalBurst \in Nat /\ PerIPBurst \in Nat
        /\ since \in Nat /\ global \in 0..GlobalBurst /\ takenAll \in Nat
    BY <1>1, Numbers DEF Inv, TypeOK, LimiterAssumption
  <2>2. since * GlobalRate \in Nat /\ since * PerIPRate \in Nat
    BY <2>1
  <2>3. takenAll * Token <= GlobalBurst + since * GlobalRate
    <3> DEFINE g == since * GlobalRate
    <3>1. takenAll * Token + global <= GlobalBurst + g /\ g \in Nat
      BY <1>1, <2>2 DEF Inv, Paid
    <3> HIDE DEF g
    <3>2. takenAll * Token <= GlobalBurst + g
      BY <2>1, <3>1 DEF Token
    <3> QED
      BY <3>2 DEF g
  <2>4. ASSUME NEW a \in Addrs
        PROVE  taken[a] * Token <= PerIPBurst + since * PerIPRate
    <3> DEFINE g == since * PerIPRate
               l == Left(a)
    <3>1. taken[a] * Token + l <= PerIPBurst + g /\ g \in Nat
      BY <1>1, <2>2 DEF Inv, Paid
    <3>2. l \in Nat /\ taken[a] \in Nat
      BY <1>1, <2>1 DEF Inv, TypeOK, Left
    <3> HIDE DEF g, l
    <3>3. taken[a] * Token <= PerIPBurst + g
      BY <2>1, <3>1, <3>2 DEF Token
    <3> QED
      BY <3>3 DEF g
  <2> QED
    BY <2>3, <2>4 DEF RateBounded
<1> QED
  BY <1>1, InvariantHolds, PTL
=============================================================================
