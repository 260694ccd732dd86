------------------------------- MODULE Config -------------------------------
(***************************************************************************)
(* How run (config.go) gets from the environment and the command line to a *)
(* backend.  Every option is read, overridden, checked and used in an      *)
(* order of its own, and run refuses what is wrong on the way.  An option  *)
(* has the few values that the code tells apart; those that are only       *)
(* passed on (addresses, directories, sizes of the uploader) are left out. *)
(***************************************************************************)
EXTENDS Naturals

CONSTANTS
  Inputs,      \* the environments and command lines to consider
  None,        \* a variable or flag that is not given; no cleanup goroutine
  Bad,         \* a text that is not a value of its option
  Days         \* a duration in days, such as 7d

VARIABLES
  stage,       \* where run is
  env, flag,   \* the variable and the flag of each option
  opt,         \* the values read so far
  stack,       \* what is built from them, see Nothing
  janitor      \* the interval of the cleanup goroutine

vars == <<stage, env, flag, opt, stack, janitor>>

\* entry: 2 stands for the default of 65536 and for whatever is above 1.
Default ==
  [ttl |-> 0, interval |-> 24,
   storage |-> "local", bucket |-> "", user |-> "", pass |-> "", debug |-> "",
   memory |-> 0, entry |-> 2, perIP |-> 0, global |-> 0,
   async |-> FALSE, version |-> FALSE]
Options == DOMAIN Default
Durations == {"ttl", "interval"}
Strings == {"storage", "bucket", "user", "pass", "debug"}
Numbers == {"memory", "entry", "perIP", "global"}

\* parseDurationWithDays reads days; the flag package does not.
Value(text) == IF text = Days THEN 168 ELSE text
EnvReads(o) == env[o] \notin {None, Bad} /\ (env[o] = Days => o \in Durations)

Nothing == [s3 |-> FALSE, uploads |-> FALSE, debug |-> FALSE, auth |-> FALSE]

Init ==
  /\ stage = "durations" /\ opt = Default /\ stack = Nothing
  /\ \E i \in Inputs : env = i.env /\ flag = i.flag
  /\ janitor = None

Goto(step) == stage' = step /\ UNCHANGED <<env, flag>>

-----------------------------------------------------------------------------
\* An error in one of these two ends run.  Then the flags are defined, with
\* strings from the environment as their defaults.
ReadDurations ==
  /\ stage = "durations"
  /\ \/ (\E o \in Durations : env[o] = Bad) /\ Goto("refused") /\ UNCHANGED opt
     \/ /\ \A o \in Durations : env[o] # Bad
        /\ opt' = [o \in Options |-> IF o \in Durations \cup Strings /\ EnvReads(o)
                                     THEN Value(env[o]) ELSE opt[o]]
        /\ Goto("environment")
  /\ UNCHANGED <<stack, janitor>>

\* The numbers are taken over if they can be read, before flags are parsed.
ReadEnvironment ==
  /\ stage = "environment"
  /\ opt' = [o \in Options |-> IF o \in Numbers /\ EnvReads(o) /\ opt[o] = Default[o]
                               THEN Value(env[o]) ELSE opt[o]]
  /\ Goto("flags")
  /\ UNCHANGED <<stack, janitor>>

\* Bug: a flag that repeats the default does not count as given.
DiffersFromDefault(o) == flag[o] \notin {None, Default[o]}
Given(o) == flag[o] # None

ParseFlags ==
  /\ stage = "flags"
  /\ \/ (\E o \in Options : flag[o] \in {Bad, Days}) /\ Goto("refused") /\ UNCHANGED opt
     \/ /\ \A o \in Options : flag[o] \notin {Bad, Days}
        /\ opt' = [o \in Options |-> IF Given(o) THEN flag[o] ELSE opt[o]]
        /\ Goto(IF opt'.version THEN "printed" ELSE "auth")
  /\ UNCHANGED <<stack, janitor>>

\* Bug: one of the two is enough.
HalfIsEnough == FALSE
Incomplete == (opt.user = "") # (opt.pass = "")

CheckAuth ==
  /\ stage = "auth"
  /\ stack' = [stack EXCEPT !.auth = ~Incomplete /\ opt.user # ""]
  /\ Goto(IF Incomplete THEN "refused" ELSE "storage")
  /\ UNCHANGED <<opt, janitor>>

\* The local store is opened, and its cleanup started, before S3 is.
UsesLocal == opt.storage \in {"local", "hybrid"}
UsesS3 == opt.storage \in {"s3", "hybrid"}
Openable == (UsesLocal \/ UsesS3) /\ (UsesS3 => opt.bucket # "")

\* The directory or the AWS configuration may be unusable.
OpenStorage ==
  /\ stage = "storage"
  /\ \/ Goto("refused") /\ UNCHANGED <<stack, janitor>>
     \/ /\ Openable
        /\ stack' = [stack EXCEPT !.s3 = UsesS3,
                                  !.uploads = opt.storage = "hybrid" /\ opt.async]
        /\ janitor' = IF UsesLocal /\ opt.ttl > 0 THEN opt.interval ELSE None
        /\ Goto("memory")
  /\ UNCHANGED opt

\* The number of entries is the size divided by half the largest entry's.
DividesByZero == opt.memory > 0 /\ opt.entry > 0 /\ opt.entry \div 2 = 0

\* The memory layer; from here on run only puts the handlers together.
AddMemory ==
  /\ stage = "memory"
  /\ stack' = [stack EXCEPT !.debug = opt.debug # ""]
  /\ Goto(IF DividesByZero THEN "panicked" ELSE "built")
  /\ UNCHANGED <<opt, janitor>>

Next ==
  \/ ReadDurations \/ ReadEnvironment \/ ParseFlags \/ CheckAuth \/ OpenStorage
  \/ AddMemory

-----------------------------------------------------------------------------
\* Every option can be set by flag or by variable, and the flag takes precedence
\* (README.md:84); only the version has no variable (README.md:104).
Setting(o) ==
  IF flag[o] # None THEN flag[o]
  ELSE IF o # "version" /\ EnvReads(o) THEN Value(env[o]) ELSE Default[o]

\* The README documents a variable for each of these too (README.md:116), but
\* config.go:126 reads none: it is the flag or the default, and so the code is
\* not what README.md:84 says of them.
Unread == {"async"}

\* From ParseFlags on, every option but the unread ones has that value, although
\* the three kinds of options are read at different times, against different
\* defaults, and a flag may repeat the default to undo a variable
\* (config.go:85-195).
FlagsWin ==
  stage \in {"auth", "storage", "memory", "built"} =>
    \A o \in Options \ Unread : opt[o] = Setting(o)

\* A server that is asked for a name or a password, by whichever of the two
\* ways, never comes up without checking both (config.go:200-203, auth.go:16-28).
AuthComplete ==
  stage = "built" => \A o \in {"user", "pass"} : stack.auth <=> Setting(o) # ""
=============================================================================
