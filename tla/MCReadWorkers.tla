--------------------------- MODULE MCReadWorkers ----------------------------
(* An instance of ReadWorkers for TLC.                                       *)
EXTENDS ReadWorkers, TLC

CONSTANTS st, s1, s2, write, page, free1, free2

Does  == write :> "write" @@ page :> "read" @@ free1 :> "cleanup" @@ free2 :> "cleanup"
Makes == st :> {write, free1, free2} @@ s1 :> {page} @@ s2 :> {page}

\* The store and the pool share nothing but the file.  One of them at a time
\* is explored: the store's whole life, or an open store that is written while
\* sessions come and go.
StoreAlone ==
  pool' = "open" /\ \A s \in Sessions : session'[s] = "idle" /\ ~aborted'[s]

PoolBesideWriter ==
  /\ store' = "open"
  /\ ~killed'[Store]
  /\ worker'[Store] = "running"
  /\ \A i \in CallsOf[Store] : KindOf[i] # "write" => call'[Store][i] = "idle"

Apart == [][Next /\ (StoreAlone \/ PoolBesideWriter)]_vars

ApartSpec == Init /\ Apart /\ Fairness
=============================================================================
