------------------------------ MODULE MCServer ------------------------------
(* Small instances of Server. *)
EXTENDS Server, TLC

\* Bursts of two and of one; either limit alone; no limit.  A rate below a half
\* gives an address a burst of one, but all together none at all.
Rates == {[global |-> 4, perIP |-> 2], [global |-> 0, perIP |-> 1],
          [global |-> 3, perIP |-> 0], [global |-> 1, perIP |-> 0],
          [global |-> 0, perIP |-> 0]}

\* What a variable and a flag of each kind can say.
Texts ==
  [ttl |-> {None, 24, Days, Bad}, interval |-> {None, 0, 24, Days, Bad},
   storage |-> {None, "local", "s3", "other"}, bucket |-> {None, "b"},
   user |-> {None, "u"}, pass |-> {None, "p"}, debug |-> {None, "d"},
   memory |-> {None, 0, 1, Bad}, entry |-> {None, 1, 2, Bad},
   perIP |-> {None, 0, 1, Bad}, global |-> {None, 0, 1, Days},
   async |-> {None, TRUE}, version |-> {None, TRUE}]

Unset == [o \in DOMAIN Texts |-> None]

\* One option from both sides.
Alone == UNION {{[env |-> (o :> t) @@ Unset, flag |-> (o :> f) @@ Unset] :
                   t \in Texts[o], f \in Texts[o]} : o \in DOMAIN Texts}

\* Options that are used together.
Pair(o1, o2) ==
  {[env |-> (o1 :> s) @@ (o2 :> t) @@ Unset, flag |-> (o1 :> f) @@ (o2 :> g) @@ Unset] :
     s \in Texts[o1], t \in Texts[o2], f \in Texts[o1], g \in Texts[o2]}
Flags(given) == {[env |-> Unset, flag |-> g @@ Unset] : g \in given}
Hybrids ==
  Flags({("storage" :> "hybrid") @@ ("bucket" :> b) @@ ("async" :> a) @@ ("debug" :> d) :
           b \in {"", "b"}, a \in BOOLEAN, d \in {"", "d"}})

Starts ==
  Alone \cup Pair("user", "pass") \cup Pair("memory", "entry") \cup Pair("ttl", "interval")
    \cup Pair("storage", "bucket") \cup Hybrids
    \cup Flags({[global |-> r.global, perIP |-> r.perIP] : r \in Rates})
=============================================================================
