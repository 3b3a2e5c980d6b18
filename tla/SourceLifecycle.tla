-------------------------- MODULE SourceLifecycle ---------------------------
(* Setup, capture and cleanup of one source by concurrent callers.           *)
EXTENDS Bootstrap

vars == <<resourceVars, bootVars>>

Init == ResourceInit /\ BootstrapInit

OpenLease == \E r \in Receipts : Connect(Lease, r)

Next ==
  \/ (ResourceNext \/ OpenLease) /\ UNCHANGED bootVars
  \/ BootstrapNext

\* Everything that was started goes on; queries, lock waits and the lease's
\* probe have deadlines, so that whatever does not go on throws.
Proceeds ==
  \/ /\ \E s \in Sessions : step[s] # "idle"
     /\ \/ \E s \in Sessions : step[s] # "idle" /\ (TakeLock(s) \/ Throws(s) \/ ServerEnds(s))
        \/ \E u \in Setups : step[u] # "idle" /\ SetupStep(u)
        \/ \E c \in Cleanups : step[c] # "idle" /\ CleanupStep(c)
     /\ UNCHANGED bootVars
  \/ BootstrapStep \/ LeaseStep

Spec == Init /\ [][Next]_vars /\ WF_vars(Proceeds)

TypeOK ==
  /\ \A o \in Oids :
       /\ catalog[o].name \in {"unused", "pub", "temporary", "renamed", "dropped"}
       /\ catalog[o].marker \in Setups \union {"none", Others}
  /\ \A s \in Sessions : DOMAIN work[s] \subseteq Oids
  /\ tables \in Setups \union {Nobody}
  /\ locks \in [Keys -> Sessions \union {Nobody}]
  /\ sent \subseteq conn /\ conn \subseteq Sessions
  /\ \A s \in Sessions : receipt[s].oid \in Oids \union {0}
  /\ slot # NoSlot => slot.start <= wal /\ slot.confirmed \in slot.start .. wal
  /\ Len(past) = wal + 1
  /\ connections \subseteq {"exporter", "reader"} /\ creating \in BOOLEAN
  /\ {snapshot, view} \subseteq 0 .. NoPosition
  /\ batch \subseteq fetched /\ fetched \subseteq Rows /\ Cardinality(batch) <= BatchRows

\* A publication is not removed under a capture that holds the lease, nor while a
\* slot exists that was there when the cleanup last looked.  A slot may still be
\* made between that look and COMMIT (docs/publication-cleanup.md): by others, who
\* ask for no lock, or on behalf of a bootstrap whose lease session has ended.
NothingRemovedUnderCapture ==
  [][\A c \in Cleanups, o \in Oids :
       Commits(c) /\ catalog'[o] # catalog[o] =>
         /\ ~(step[Lease] = "held" /\ Lease \in conn)
         /\ slot # NoSlot => c \in slot.unseen /\ (slot.by = Boot => Lease \notin conn)]_vars

\* Every operation that was started ends, and so does its session.
EverythingEnds ==
  []<>( /\ \A s \in Sessions : step[s] \in {"idle", "settled"} /\ s \notin conn
        /\ at \in {"idle", "settled", "dead"} )

\* Setup is all or nothing, receipts are true, and an assessment's distances
\* are in order, though connections fail with a COMMIT on the wire and others
\* change the same objects.
SourceIsSound == TypeOK /\ SetupIsWhole /\ OutcomeIsCommitted /\ AssessmentInOrder

\* A bootstrap publishes the very rows its slot starts from; failing or dying it
\* leaves a slot only with a recording bound to it; and one that fails has published
\* nothing, or tells that its cleanup was incomplete: an answer of the store that
\* was lost may have been that of the publication.
BootstrapIsSound == BaselineMeetsStream /\ SlotIsAccountedFor /\ FailureLeavesNothing

\* A cleanup drops the publication of its receipt and no other, and that neither
\* under a capture's lease nor over a slot it could have seen.
CleanupIsSafe == OnlyOwnedDropped /\ NothingRemovedUnderCapture
=============================================================================
