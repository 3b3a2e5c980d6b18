-------------------------- MODULE MCRecordingStore --------------------------
(* Instances of RecordingStore for TLC.                                      *)
EXTENDS RecordingStore, TLC

CONSTANTS r1, k1, k2, c1, c2, s1, s2

TwoRows == {k1, k2}
\* Insert, key change, delete: two of them fit most states, so redelivered
\* positions can carry different transactions.
Changes2 == {[removes |-> {}, adds |-> {k1}], [removes |-> {}, adds |-> {k2}],
             [removes |-> {k1}, adds |-> {k2}]}

TwoWorkers == s1 :> c1 @@ s2 :> c2

VARIABLE part   \* what is explored

\* What plain callers do to the stored history and the caches, ...
HistoryPart ==
  /\ part = "history"
  /\ \E c \in Connections, r \in Recordings : Operation(c, r)

\* ... or what sessions do with their claims and leases, for which a history of one
\* inserted row over a baseline of none, at the first position, is enough.
Short(i, s) == Published(i) => i.baseline = 0 /\ s.position <= 1 /\ s.rows \subseteq {k1}

ShortHistories ==
  /\ \A r \in Recordings :
       /\ rows[r] = {} /\ bindings[r] = NoBinding
       /\ info[r] # Absent => Short(info[r], Stored(r))
  /\ \A c \in Connections : cache[c] # NoEntry => Short(cache[c].info, cache[c].state)

\* Beside sessions, requests without one come over the first worker: which one
\* runs them makes a difference to the caches only.
LeasesPart ==
  /\ part = "leases"
  /\ \/ \E r \in Recordings : Operation(c1, r)
     \/ \E s \in Sessions : Caller(s)
     \/ \E c \in Connections : Worker(c)
  /\ ShortHistories'

StoreInit == Init /\ part \in {"history", "leases"}

StoreNext == (HistoryPart \/ LeasesPart) /\ UNCHANGED part

StoreSpec == StoreInit /\ [][StoreNext]_<<vars, part>>
=============================================================================
