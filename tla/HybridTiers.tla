---------------------------- MODULE HybridTiers ----------------------------
(***************************************************************************)
(* Hybrid observed over time: what a DELETE leaves in both tiers, and when *)
(* the tiers agree.  The steps are those of Hybrid; the variables here are *)
(* history, computed from each step and read by nothing but properties.    *)
(***************************************************************************)
EXTENDS Hybrid

VARIABLES
  lone,        \* the DELETEs under way that have met nothing that can undo them
  gone,        \* the keys such a DELETE has removed and no PUT has set since
  split        \* the keys whose tiers were left to differ, see Parts

history == <<lone, gone, split>>

\* Who has read an entry of the key and not yet written it to S3.
Uploading(k) ==
  {w \in Workers : held[w] # None /\ KeyOf[worker[w]] = k}
    \cup {p \in Flight("put", k) : call[p].pc = "upload"}

\* Nothing of a key is under way: no call but HEAD, no upload.
Quiet(k) ==
  /\ Busy(k) = Flight("head", k)
  /\ \A i \in Items : KeyOf[i] = k => stage[i] \notin Uploader!InFlight \cup {"checked"}

Agree(k) == local[k] \in {None, remote[k]}

Leaves(p, k, step) == call[p].key = k /\ call[p].pc = step /\ call'[p].pc # step

\* What lets the tiers of a key differ for a time: two uploads of it at once, a
\* PUT that fails halfway, a backfill of what is no longer in S3 or is about to
\* be replaced there, a DELETE in S3 of what is there again locally, and a
\* restart in the middle of a call.
Parts(k) ==
  \/ (\E x, y \in Uploading(k) : x # y)'
  \/ Restart /\ ~Quiet(k)
  \/ \E p \in Procs :
       \/ Leaves(p, k, "share") /\ call[p].op = "put" /\ call[p].status = "failed"
       \/ /\ Leaves(p, k, "backfill")
          /\ remote[k] # call[p].read \/ Uploading(k) # {}
       \/ Leaves(p, k, "dropRemote") /\ local[k] # None

Alone(p) ==
  LET k == call[p].key IN
  /\ call[p].op = "delete"
  /\ \A q \in Busy(k) \ {p} : call[q].op \notin {"put", "get"}
  /\ Uploading(k) = {}

Watch ==
  /\ lone' = {p \in Procs : Alone(p)' /\ (p \in lone \/ call[p].pc = "idle")}
  /\ gone' = {k \in Keys :
       \/ k \in gone /\ Flight("put", k)' = {}
       \/ \E p \in lone : Leaves(p, k, "dropRemote") /\ call'[p].status = "ok"}
  /\ split' = {k \in Keys : Parts(k) \/ (k \in split /\ ~(Quiet(k) /\ Agree(k)))}

TiersInit == Init /\ lone = {} /\ gone = {} /\ split = {}
TiersNext == Next /\ Watch
TiersSpec == TiersInit /\ [][TiersNext]_<<vars, history>>

-----------------------------------------------------------------------------
\* What a DELETE removes stays removed until the next PUT begins, from both
\* tiers, unless it overlapped a PUT, a GET, whose backfill can bring the entry
\* back, or an upload that had read it (Delete, hybrid.go:88-100).
DeletedStaysGone == \A k \in gone : local[k] = None /\ remote[k] = None

\* When nothing of a key is under way and no upload of it was given up, what
\* local storage has is what S3 has, the last body uploaded, unless uploads of
\* it overlapped or one of the other things happened that part the tiers for a
\* time (Put, hybrid.go:104-139, and upload, async_s3.go:106-134).
TiersAgree == \A k \in Keys :
  Quiet(k) /\ k \notin split /\ ~GivenUp(k) => Agree(k)
=============================================================================
