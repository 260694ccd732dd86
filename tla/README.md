# A verification of the remote build cache server

TLA+ models of `go-http-cache-server`, checked with TLC on small instances and,
where it matters most, proved with TLAPS for every instance.  Paths below are
relative to `src/app/` of the repository.

## 1. The system

A request passes the rate limiter, authentication, the parsing of its path and a
handler, which makes one call of the storage backend.  The backend is a stack:

    handlers.go -> SingleFlight -> (LRU cache) -> Local | S3 | Hybrid
    Hybrid -> Local, and (CircuitBreaker ->) S3, and AsyncUploader -> the same two

| component | state | operations | what is hard | what makes it correct |
|---|---|---|---|---|
| `storage/local.go` | files, shard locks | Head, Get, Delete, Put, cleanup | a PUT writes `key.tmp` under no lock; the cleanup removes by name under no lock; streams outlive the lock; crashes | entries and reads are whole; it is a map with eviction |
| `storage/async_s3.go` | channel, `running`, workers, sleeping retries | Start, Enqueue, worker, Stop | check-then-send against close; retries that sleep; bounded queue | nothing lost or doubled; bounded tries; Stop returns |
| `storage/circuit_breaker.go` | `open`, `failures`, `lastFail` | allow, record | outcomes are recorded late; streams; clients that leave or ask for what S3 refuses | flag and counter agree; it switches only on outcomes; opens and closes |
| `storage/hybrid.go` | two stores | Head, Get, Put, Delete | no lock spans two calls; backfill against PUT and DELETE; S3 failing halfway | acknowledged entries stay readable and reach S3, save for the named exceptions; what is deleted stays gone; the tiers agree in the end |
| `storage/singleflight.go` | flights per key | Head, Put | followers share the answer, their body is not read; a flight may have begun before a DELETE | every member of a group is answered, and truthfully; PUTs below are serial |
| `storage/lru_cache.go` | entries, order of use | Head, Get, Put, Delete | memory and backend change in separate steps | bounded; stale only when calls overlap or fail |
| `middleware/middleware.go` | buckets, map of addresses | Allow | two requests create one bucket | rates hold in every window of time |
| `config.go`, `main.go` | options, backend stack, phase | read, refuse, build, serve, shut down | three kinds of options read at different times; deadline against uploads and requests; listener failure; a cleanup goroutine that panics | flag before variable before default; no half authentication; the process exits once the uploads are stopped |
| `handlers.go`, `auth.go`, `cache_path.go` | requests, in-flight gauge | the six endpoints | order of the checks; handlers that panic; streams | what passes was allowed; the gauge is exact |
| `health/` | none | CheckAll | a checker that hangs | (a step of Server, no property) |
| `storage/s3.go` | none (AWS client) | Head, Get, Put, Delete | failing calls may have taken effect; Range in the context | modelled as a store in `Hybrid` |
| `metrics/`, `logging/`, `response_writer.go`, `storage/buffer_pool.go`, `test_ccache_sim.go` | - | - | decide nothing | not modelled |

`PROJECT.json` lists the hazards, each at its line, with the properties that catch it.

## 2. The modules

Definitions whose comment begins with `Bug:` are plausible mistakes, each the
counterpart of the definition that follows it; the specifications do not use
them.  Every property is known to fail when one of them replaces the correct
definition (`PROJECT.json`, "mutants").

**CacheStore** is the abstract promise of `storage.Backend`: a map; a PUT, GET,
HEAD or DELETE takes effect at one instant, a GET delivers one whole body, entries
may disappear, a restart forgets calls and keeps entries.

**LocalStore** is `local.go` at the granularity of system calls.  The filesystem
is `dir` (name to inode) and `data` (inode to chunks): create truncates an existing
file under its other writers and readers, rename replaces, remove unlinks a name
and leaves open files alone.  A shard lock is taken in one
place and given back by a `defer` in each operation, so who holds it is read off where the
callers are, and no property is about its release.  A body is two chunks that are
read and written one at a time, enough to see a body broken in the middle.  Every
system call may fail.  `Restart` may come between any two steps and keeps the
files, a leftover `.tmp` included.  `SerialPuts` says that SingleFlight is above.
`ImplementsCacheStore` is the refinement: PUT at the rename, GET at the open, DELETE
and eviction at the remove.

**AsyncUploader** follows each call of `Enqueue` as an item: checked, queued,
taken, putting, sleeping before a retry, settled.  Enqueue's check and send are two
steps; a send on the closed channel ends the request in `Enqueue` (net/http
recovers the panic) and the process in the retry goroutine.

**CircuitBreaker** separates allow's snapshot, its look at the clock, the call, and
the recording of the outcome; `age` is the time since `lastFail`, counted up to the
point where it no longer matters; the environment says whether S3 is up (`healthy`) and whether clients let it work (`calm`).
A call fails while S3 is down, and also while it is up and clients are not calm: they
leave, run out of time, or ask for a range that the object does not have, which S3
answers with 416 and the breaker counts like an outage (`s3.go:151-164`,
`circuit_breaker.go:101-103`).  The counter stops at the threshold, beyond which the
code does not tell values apart.

**Hybrid** composes SingleFlight's groups, Hybrid's calls of both stores, the
cleanup's two steps, the uploader (`INSTANCE AsyncUploader`, sharing its variables)
and restarts.  Calls of the local store are atomic: that is what the
refinement of LocalStore shows for serial PUTs.  A backfill can run beside a PUT
of its key, and then local entries can also be torn (run LocalStoreTorn); Hybrid
does not repeat this, and its properties are about which body ends up where.  An S3 call that fails may have taken
effect.  The cleanup may find any local entry stale at any moment and remove whatever
has its name later, be it what a GET has just stored and not yet opened (`Evict`).
`Restart` empties the queue and keeps no record of what was in it: such uploads are
`lost`, which is not the same as given up by the uploader, which logs it.

**HybridTiers** adds history to Hybrid, computed from each step and read by nothing
but its properties: which DELETEs have met nothing that can undo them, which keys
they have removed, and which keys' tiers were left to differ (`Parts` names every
way in which that happens).  `DeletedStaysGone` and `TiersAgree` are what remains true of both
tiers once these are set aside.

**LRUCache** is the memory in front of a backend whose calls are atomic.
The estimate of the number of entries, with its division, is computed as in the
code.  History (`alone`, `excused`) records why memory and backend may differ:
calls that overlap on a key, a failed call, a lost backend entry, a PUT that
bypasses the memory.  It takes for granted that PUTs of one key are serial (`Start`).

**SingleFlight** is the outermost backend over LRUCache: a HEAD or PUT leads a flight
or joins the one under way for its key, makes no call then, and gets the leader's
outcome; GET and DELETE pass.  `ImplementsCache` is the refinement that discharges what
LRUCache, LocalStore (`SerialPuts`) and Hybrid take for granted.  `acked` is history: a PUT was
acknowledged, and its flight overlapped no DELETE and no cleanup of the key.  The
exception is as wide as it is because of the code: a PUT that is sent after a
DELETE took effect may join a flight whose own store came before it, and is
answered 201 with nothing stored.

**RateLimiter** has the two buckets, the two critical sections of `getLimiter`, and
time in ticks; the library's bucket holds tokens in quarters and refills up to its
burst.  `Observe` starts a window of observation at any instant, with the buckets
as they are, and `RateBounded` bounds what passes in the window; `Horizon` is the
length of a window, a bound of the model.

**Config** is the part of `run` before the listener: durations and strings from the
environment as defaults of the flags, numbers from the environment, the flags, the
credentials, the storage, the memory, each in the order of the code, with every way
to be refused.  An option has the few values the code tells apart.  `Setting` is the
reference definition of its value, as README.md:84 has it for every option; `Unread` names the
one in the model whose documented variable no line reads, and `FlagsWin` is about the others.

**Server** composes Config and the limiter (`INSTANCE`, sharing their variables) with the
path of a request and with the rest of `run`: serving, the signal, `StopAsyncUploader`,
`Shutdown` of the debug and the HTTP server under their deadline, or a listener that
fails.  The listener stays open while the uploads are stopped and the
deadline runs meanwhile, as in the code.  A request passes the limiter, reaches an
endpoint, is counted by the in-flight gauge, checked (credentials, path, method,
length), and makes one backend call, a call that returns or hangs; `/readyz` makes
a probe, which ends at any time (`ProbeEnds` stands for the answer and for the checker's
timeout, and no property is about it).  Two panics come from the uploader during
shutdown (of a handler, recovered; of a retry, not), one from a cleanup interval
that is not positive.

`MC*` modules hold the constants, symmetry and (LocalStore) a view that forgets the
content of inodes nobody can reach and always picks the first free inode.
The views of MCHybridTiers and MCSingleFlight forget fields of a call that nothing
that follows reads (of `acked` MCHybridTiers keeps all: it decides `sure` later on).
`*Proofs` modules hold theorems.

## 3. What is checked

| run | instance | shows |
|---|---|---|
| LocalStoreSafety | 2 callers, 1 key, 2 bodies, 2 chunks, 4 inodes, cleanup and restarts | entries and reads are whole, open files frozen, refinement of CacheStore; `IInv` is the inductive invariant of the proof |
| LocalStoreTorn | 3 callers, parallel PUTs | violated: docs/index.html:1542 "Partial writes are never visible to readers" |
| Async | 3 items, 2 workers, queue of 2, 2 tries | accounting, tries, Stop; uploads only advance; accepted items settle, Stop terminates |
| AsyncStopLeaves | 2 items, 1 worker, queue of 1 | violated: CHANGELOG.md:14, async_s3.go:68, Stop drains |
| Breaker | 3 requests, threshold 2, cooldown 1 | flag equals counter; it switches against the state of S3 only on a late outcome; opens under a lasting outage, closes after it |
| HybridSafety | 2 requests, 1 key, 2 bodies, both modes, 2 uploads tried twice, 1 worker, queue of 1 | acknowledged keys are not missing, save for the exceptions of `AckedNeverMissing`; they are in S3 or on their way until the uploader gives up or the process ends; one request leads each group; solo PUTs persist in both stores; what a lone DELETE removes stays gone; the tiers agree when nothing is under way |
| HybridLive | 2 requests, 1 key, 1 upload tried twice | acknowledged entries reach S3, are given up or go with the process; requests return |
| HybridLosesPut | 2 requests, sync | violated: hybrid.go:17, a backfill makes a successful PUT vanish from both stores |
| HybridPartial | 1 request with Range | violated: hybrid.go:13-15, a range is stored as the object |
| LRU | 3 requests on one key or 2 on two keys, room for 1, bodies of all size classes, flights above | limits and order; stale only when excused; acknowledged PUTs are found; flights keep PUTs serial |
| LRUStale | 2 requests, 2 keys, without flights | violated: storage.go:18, a large PUT leaves the small old body in memory |
| Server | 2 requests, 1 address, windows of 2 ticks; every option from both sides, pairs of options used together, all hybrid stacks, 5 settings of the rates | flag before variable before default, but for `Unread`; credentials are complete; rates hold; exact gauge; exit once the uploads are stopped |

The five violated runs are findings; each checks one sentence of the
documentation against what the code does.

**Why the bounds are enough.** The hazards are races of two actors over one key or
one bucket, so two callers, and a third one to read what two writers leave
(LocalStoreTorn).  One key suffices where keys interact only by a shared
lock (which the model gives to all keys) and where aliases are assumed away; LRU
has two keys because eviction needs them.  Two chunks distinguish empty, part and
whole.  Three items exceed the queue and the workers of Async.  Threshold 2 distinguishes
one failure from a tripped breaker.  Two ticks see a bucket drained, refilled and
full.  In LRU the third request is the one that joins a flight beside a DELETE or
observes what two others leave; the second key only pushes the first out, so it
needs one body, and plans with both have two requests.  The options of
Server meet in the pairs that `run` uses together; the others are independent there.
RateLimiter by itself was also explored with three requests and two
addresses.  What the proofs cover does not depend on these bounds.

**Fairness.** Async: workers, sleeping retries, started sends and Stop proceed;
nobody has to call Enqueue or Stop.  Breaker: time passes, calls and streams end,
requests keep coming, and some of them are not GETs; clients may be calm or not at
any time, and `Recovers` is about what happens once they stay so (strong fairness of `Call`,
without which a breaker probed only by GETs of missing objects stays open: they
record nothing).  Hybrid: store calls return and goroutines run; nothing about S3's answers,
the cleanup, clients or shutdown.  Server: the deadline passes and both
Shutdowns return then (`context.WithTimeout`); clients, backends, debug connections and
`StopAsyncUploader` may hang, since nothing bounds the uploads it waits for
(`config.go:388-390`, `async_s3.go:107,115`): that Stop returns is shown by Async
(`StopTerminates`), where the calls of S3 do.  Deadlock is checked except where the system ends: after Stop or a crash
(Async, AsyncStopLeaves) and after the exit (Server).

## 4. What is proved

* **LocalStoreProofs**: `TypeOK`, `EntriesWhole`, `PartialWritesNeverVisible` and
  `OpenEntriesFrozen`, for any number of callers, keys, inodes and chunks, assuming
  `SerialPuts` and `NoAliases` (no key is another's `.tmp` name).  That an entry is
  whole is not inductive: one must know what the file a PUT is about to rename
  contains, hence who else may write it.  `IInv` adds that a file being written has
  no other holder and no name but its temporary one (`WritersAlone`), that what is
  renamed is the PUT's own complete body (`RenamesOwnBody`), that a file has one name
  (`OneNamePerFile`), and that open readers hold complete entries
  (`ReadersSeeEntries`).  TLC checks `IInv` in LocalStoreSafety; the run LocalStoreTorn
  shows that `SerialPuts` cannot be dropped.
  The refinement `ImplementsCacheStore` is proved under the same assumptions, one lemma
  per action: `BackendKeepsPromise`.  What the promise sees of the filesystem (`CallOf`, `ReplyOf`,
  `EntryOf`) reads the content of files, so every step must be shown not to touch the
  file of a published entry or of a reader (`EntryFrozen`, `FrozenStep`); then a PUT is
  silent up to its rename, a GET takes its entry at the open and delivers it, or a
  part of it when it fails, and the cleanup evicts one key or none.
* **AsyncUploaderProofs**: `TypeOK`, `Accounted`, `TriesRespected`,
  `StopEmptiesQueue`, for any constants, from one invariant that also ties `running`,
  `closed` and the phase of Stop together.  `UploadsAdvance` is the safety half of
  `AcceptedSettles`: `StepsLeft` counts at most four steps for each try that is left, and
  every step of an upload lowers it, because a try that fails is counted (`CountsTry`)
  before the next one, a retry may be queued only while tries are left
  (`TriesRespected`), and nothing brings a settled upload back.
* **HybridProofs**: the safety of Hybrid and HybridTiers for any requests, keys, bodies, uploads
  and workers, in both modes, with eviction, failing S3 calls, shutdown and restarts.
  Each action is first reduced to its effect (`Effects`: a call that moves on, begins or ends, an
  entry spotted or evicted, a worker that reads or uploads, an idle step, a restart), and the invariants
  are proved over the effects.  They build on one another:
  - `Core` gives `TypeOK`: each step of a call belongs to its kind of call (`InStep`), the
    uploader satisfies the invariant of AsyncUploaderProofs, whose lemmas are used through
    INSTANCE, and a worker holds an entry exactly while it uploads (`HeldInv`).  The
    uploader's own properties follow inside the system (`UploaderHolds`).
  - `Calls` adds what SingleFlight and the history give: one leader per group, and a PUT
    has met every GET and DELETE of its key that is under way.
  - `SoloInv` gives `SoloPutPersists`: what a synchronous PUT that met none reads again,
    uploads and leaves behind is its own body, or nothing where the cleanup was.
  - `FoundInv` gives `AckedNeverMissing`: an acknowledged key is in one of the tiers, in S3 in
    synchronous mode, no DELETE of it is under way, and it is not about to be evicted unless
    it still is local (`Safe`); `Makes` is the same of a PUT about to be acknowledged,
    `Finds` of a GET or HEAD between its two looks.  That local storage is looked at
    first and S3 second is why `Safe` alone would not be inductive.
  - `GoneInv` gives `DeletedStaysGone`: both tiers are empty and nobody holds an entry of
    the key that it could write (`Gone`), because the DELETE had met nobody who did.
  - `AgreeInv` gives `TiersAgree`: at most one upload of the key has read its entry
    (`OneUpload`), and an upload was given up, a PUT or an upload is still to read the entry
    (`Later`), or what is being uploaded is what is there and, when nothing is, the tiers
    agree (`Clean`).
  - `LedInv` gives `OneLeads`, the safety half of `RequestsReturn`: a request that joined has a
    leader of its kind and key that still makes the calls (`Led`), since a shared call ends nowhere but in
    `Share`, which answers all that joined, whatever failed or panicked before; `OneLeader` makes it
    the only one.
  - `KeptInv` gives `AckedNotForgotten`, the safety half of `AckedReachesS3`.  Of a PUT that is
    about to be acknowledged it says that its upload was accepted, or that it has put the
    object itself (`Promises`, `Sends`).  What an acknowledged key rests on then goes from the queue
    to a worker, to S3 or to what the uploader gives up; an object leaves S3 only by a DELETE,
    which ends the promise.  A restart is the one other step by which a key may lose its
    upload, and the property names it.
  - `OnlyBackfillsOverlap`: two calls of `local.Put` of one key overlap only if one of them is the
    backfill of a GET.  So Hybrid grants LocalStore `SerialPuts` for its PUTs and not for its
    backfills, and what happens then is LocalStoreTorn.
* **CircuitBreakerProofs**: `TypeOK`, `OpenMeansTripped` and `OnlyLateOutcomes`, for any threshold.
  The last is the safety half of `Recovers` and `OutageTrips`: against the state of S3 the breaker
  switches only on an outcome from before, which is used up by it, and none is added; a
  breaker that closed by itself at the end of its cooldown would break it.
* **RateLimiterProofs**: `RateBounded` for any requests, addresses and rates.  The
  invariant adds that an address has one bucket, which every request past
  `getLimiter` holds, and that tokens handed out plus tokens left never exceed the burst plus the
  refills of the window.
* **ServerProofs**: every behaviour of Server is one of the limiter's, so
  `RateBounded` holds in the server; `TypeOK`; `FlagsWin` and `AuthComplete`
  for any environments and command lines.  The two are not inductive: `Settled` says what
  each stage of the start has read so far, variables for some options and not yet
  for others, and that authentication follows the two strings.  `InFlightExact` for any
  clients: each step takes one request in or out, or none, so a finite set gains or
  loses one element.
* **LRUCacheProofs**: `TypeOK` and `StaleOnlyWhenExcused`, for any requests, keys, bodies and sizes.
  `Tidy` says that memory and order hold the same keys, once each and within the estimate, which
  each of Touch, Add and Remove has to restore.  `Accounted` adds that a call counted as alone
  is, what such a call relies on between its steps (`Progress`), and that a memory that differs from the
  backend has its excuse or a PUT that has not finished yet (`Explained`).
* **SingleFlightProofs**: `AckedPutFound` and the refinement `ImplementsCache`, for any
  requests, keys and bodies.  `Sharing` relates flights to the calls of their leaders
  (one flight per group, led by the one call of its kind, which overlaps nothing
  else that puts the key), followers to flights, and says what a put that is on its way back
  has left in the backend while nothing has disturbed it.  `CacheKeepsUnderGroup` takes the
  two theorems about the memory through the refinement.  `FollowersHaveALeader`: every follower
  waits for a flight that is under way, the one of its group, and the leader of a
  flight waits for nobody (`NoneStranded`), for any number of flights at once.

Assumed of the constants is only what the modules' ASSUMEs name, which TLC evaluates
for the instances; of LocalStore also `SerialPuts`, which SingleFlight discharges
(`FlightsImplementCache` shows it over LRUCache, `OnlyBackfillsOverlap` inside Hybrid, for
PUTs that are no backfill), and `NoAliases`.

Only model-checked: liveness (`AcceptedSettles`, `StopTerminates`, `Recovers`,
`OutageTrips`, `AckedReachesS3`, `RequestsReturn`, `Exits`), because fairness and ENABLED
are beyond the prover.  Of five of them a safety half is proved (`UploadsAdvance`,
`AckedNotForgotten`, `OneLeads`, `OnlyLateOutcomes`): what no step may undo, so that
what is left to TLC is that the steps are taken in the end.  Every other property
of a passing run is a theorem.

## 5. What is not modelled

Durability after a power loss (nothing is synced); access times the filesystem
does not keep (relatime, noatime); directories; the content of keys and paths;
headers, ranges served locally, metrics (but for the in-flight gauge) and logs; options
that are only passed on; the results of health checks; the debug server's
handlers.  `PROJECT.json` says for each component what is left out.

Read beside the code while modelling, documentation it does not live up to, and for
which there is no run, since each is a single line or is stated as an exception of a property:

* `storage/hybrid.go:13-15` says that an object missing locally is downloaded "and then served from
  local"; when the cleanup removes it between the two (`storage/hybrid.go:79-83`) the GET of an
  object in S3 is answered 404.  `AckedNeverMissing` excepts it.
* `CHANGELOG.md:14` says that the server waits for the uploads "with a configurable timeout":
  `StopAsyncUploader` is called with none (`config.go:388-390`), and the workers' calls of S3 have
  none (`storage/async_s3.go:107`).  `Exits` begins after it.
* An error of a client (416 for its Range, a request it abandons) counts as a failure of S3
  and can open the breaker for all (`storage/circuit_breaker.go:101-103`).  `Recovers` assumes `calm`.
* `README.md:84` says every option has a variable, and `README.md:116-119` and
  `charts/.../configmap.yaml:72-83` name `ASYNC_S3_*`; nothing reads these (`Unread` in Config).
  `README.md:100` names `S3_RETRY_MAX`; nothing reads it either (`app/config.go:137-187`).
* The help of `-local-ttl` and the example at `README.md:76` use `7d`; flags are parsed by
  `flag.DurationVar`, which refuses days (`app/config.go:117`).  Config has this (`Days`).
* The chart's `README.md:223` says `/readyz` answers 503 if the local disk is down; the
  local checker checks nothing (`app/health/health.go:101-104`).
* `circuit_breaker.go:27` speaks of allowing a probe; after the cooldown all calls pass
  until one of them fails.
* `/livez`, `/readyz` and `/version` are behind the rate limiter like everything else.

## 6. Plan

Done, in this order: LocalStore with CacheStore; AsyncUploader; CircuitBreaker;
Hybrid; LRUCache; RateLimiter; Server; HybridTiers; Config; SingleFlight; the proofs about
each, last those of the safety halves of liveness.  Next:

1. LocalStore between an acknowledged PUT and its readers under Hybrid's calls, which takes
   its local store as atomic.
2. Keys that alias (`x` and `x.tmp`) as an instance of LocalStore.
3. The paths of `cache_path.go` as sequences of segments.
