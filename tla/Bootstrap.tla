----------------------------- MODULE Bootstrap ------------------------------
(* bootstrapBoundRecording (bootstrap-recording.ts) over the baseline of     *)
(* PostgreSQL (baseline.ts, snapshot.ts), under a capture lease: a recording *)
(* is created and bound, then a slot is made with an exported snapshot, a    *)
(* second connection imports it and reads the rows in batches, which are     *)
(* staged; only a completely read and closed source is published.            *)
(*                                                                           *)
(* The source goes on committing, the lease and both connections can be     *)
(* lost, any step can fail, an answer of the store can be lost, and the      *)
(* process can die.                                                          *)
EXTENDS SourceResources, Sequences

CONSTANTS Rows, BatchRows

ASSUME BatchRowsAssumption == BatchRows \in Nat \ {0}

VARIABLES
  past,         \* the rows of the source after each commit
  at,           \* where bootstrapBoundRecording is
  rec,          \* the recording in the store
  created,      \* its creation was acknowledged
  storeUp,      \* the store's client has not failed
  connections,  \* of the snapshot: "exporter", "reader"
  broken,       \* one of them failed
  creating,     \* CREATE_REPLICATION_SLOT is on the wire
  snapshot,     \* the position the slot and its snapshot were made at
  view,         \* the position the reader's transaction sees
  batch,        \* rows read and not yet staged
  fetched,      \* rows the cursor has passed
  dirty,        \* cleanup was incomplete
  result        \* what the caller got

sourceVars    == <<connections, broken, creating, snapshot, view, batch, fetched>>
callVars      == <<at, created, dirty, result>>
bootVars      == <<past, rec, storeUp, sourceVars, callVars>>

Boot == "bootstrap"
NoPosition == MaxPosition + 1
NoRecording == [status |-> "none"]

RowsAt(p) == past[p + 1]

BootstrapInit ==
  /\ past \in {<< r >> : r \in SUBSET Rows}
  /\ at = "idle"
  /\ rec = NoRecording
  /\ created = FALSE
  /\ storeUp = TRUE
  /\ connections = {}
  /\ broken = FALSE
  /\ creating = FALSE
  /\ snapshot = NoPosition
  /\ view = NoPosition
  /\ batch = {}
  /\ fetched = {}
  /\ dirty = FALSE
  /\ result = "none"

-----------------------------------------------------------------------------
(* The lease                                                               *)

\* The locks are held: is it still the publication of the receipt?
LeaseChecks ==
  /\ step[Lease] = "locked"
  /\ Lease \in conn
  /\ catalog[receipt[Lease].oid].name = "pub"
  /\ catalog[receipt[Lease].oid].marker = receipt[Lease].marker
  /\ Go(Lease, "held")
  /\ UNCHANGED <<dbVars, receipt, outcome, slot, wal, report, meddled, bootVars>>

\* The server loses the session, and its locks, before the client knows.
LeaseDrops ==
  /\ step[Lease] = "held"
  /\ Lease \in conn
  /\ EndSession(Lease)
  /\ UNCHANGED <<clientVars, slot, wal, report, meddled, bootVars>>

LeaseNotices ==
  /\ step[Lease] = "held"
  /\ Lease \notin conn
  /\ Go(Lease, "lost")
  /\ UNCHANGED <<dbVars, receipt, outcome, slot, wal, report, meddled, bootVars>>

\* The owner closes it when the bootstrap is over.
LeaseCloses ==
  /\ step[Lease] \in {"held", "lost"}
  /\ at \in {"settled", "dead"} \/ (at = "idle" /\ step[Lease] = "lost")
  /\ Settle(Lease, "closed")
  /\ UNCHANGED <<dbVars, receipt, slot, wal, report, meddled, bootVars>>

-----------------------------------------------------------------------------
(* The bootstrap                                                           *)

Step(from, to) == at = from /\ at' = to

Throw(where) == at' = where

\* A request to the store: carried out and answered; refused; or its answer is
\* lost, carried out or not, and with it the client.
Request(from, to, new, failed) ==
  /\ at = from
  /\ \/ storeUp /\ rec' = new /\ at' = to /\ UNCHANGED storeUp
     \/ Throw(failed) /\ UNCHANGED <<rec, storeUp>>
     \/ storeUp /\ rec' \in {rec, new} /\ storeUp' = FALSE /\ Throw(failed)

Active == step[Lease] = "held"

CreateRecording ==
  /\ Active
  /\ Request("idle", "created", [status |-> "bootstrapping", bound |-> FALSE, rows |-> {}],
             "failing")
  /\ created' = (at' = "created")
  /\ UNCHANGED <<past, sourceVars, dirty, result, resourceVars>>

\* Mutant of BindRecording: the source is opened first.
BindRecordingLater ==
  /\ Step("created", "bound")
  /\ UNCHANGED <<past, rec, storeUp, sourceVars, created, dirty, result, resourceVars>>

BindRecording ==
  /\ Request("created", "bound", [rec EXCEPT !.bound = TRUE], "failing")
  /\ UNCHANGED <<past, sourceVars, created, dirty, result, resourceVars>>

OpenConnections ==
  /\ Active
  /\ Step("bound", "connected")
  /\ connections' = {"exporter", "reader"}
  /\ UNCHANGED <<past, rec, storeUp, broken, creating, snapshot, view, batch, fetched, created,
                 dirty, result, resourceVars>>

SendCreateSlot ==
  /\ "exporter" \in connections
  /\ Step("connected", "slotting")
  /\ creating' = TRUE
  /\ UNCHANGED <<past, rec, storeUp, connections, broken, snapshot, view, batch, fetched,
                 created, dirty, result, resourceVars>>

\* CREATE_REPLICATION_SLOT (SNAPSHOT 'export').  Its answer may be lost, and who
\* asked may long be gone.
CreateSlot ==
  /\ creating /\ slot = NoSlot
  /\ creating' = FALSE
  /\ slot' = NewSlot(Boot)
  /\ \/ "exporter" \in connections /\ Step("slotting", "slotted") /\ snapshot' = wal
     \/ UNCHANGED <<at, snapshot>>
  /\ UNCHANGED <<past, rec, storeUp, connections, broken, view, batch, fetched, created, dirty,
                 result, dbVars, clientVars, wal, report, meddled>>

\* The server refuses, or its session ends before.
CreateSlotFails ==
  /\ creating
  /\ creating' = FALSE
  /\ UNCHANGED <<past, rec, storeUp, connections, broken, snapshot, view, batch, fetched,
                 callVars, resourceVars>>

\* Mutant of Imported: the transaction has a snapshot of its own.
ImportedNow == wal

Imported == snapshot

\* SET TRANSACTION SNAPSHOT, while the exporter still holds it.
ImportSnapshot ==
  /\ connections = {"exporter", "reader"}
  /\ Step("slotted", "imported")
  /\ view' = Imported
  /\ UNCHANGED <<past, rec, storeUp, connections, broken, creating, snapshot, batch, fetched,
                 created, dirty, result, resourceVars>>

\* The boundary is handed over: the lease and the schema are checked.
BeginReading ==
  /\ Active
  /\ "reader" \in connections
  /\ Step("imported", "reading")
  /\ UNCHANGED <<past, rec, storeUp, sourceVars, created, dirty, result, resourceVars>>

\* Mutant of Fits: the batch is one row too long.
FitsAndOne(b) == Cardinality(b) <= BatchRows + 1

Fits(b) == Cardinality(b) <= BatchRows

FetchBatch ==
  /\ Active
  /\ "reader" \in connections
  /\ Step("reading", "staging")
  /\ batch' \in {b \in SUBSET (RowsAt(view) \ fetched) : b # {} /\ Fits(b)}
  /\ fetched' = fetched \union batch'
  /\ UNCHANGED <<past, rec, storeUp, connections, broken, creating, snapshot, view, created,
                 dirty, result, resourceVars>>

StageBatch ==
  /\ Request("staging", "reading", [rec EXCEPT !.rows = @ \union batch], "failing")
  /\ batch' = {}
  /\ UNCHANGED <<past, connections, broken, creating, snapshot, view, fetched, created, dirty,
                 result, resourceVars>>

Exhausted == fetched = RowsAt(view)

\* The cursor is empty: COMMIT, and both connections closed; what failed on
\* either meanwhile counts.
EndSnapshot ==
  /\ Active
  /\ at = "reading"
  /\ "reader" \in connections
  /\ Exhausted
  /\ connections' = {}
  /\ at' = IF broken THEN "failing" ELSE "complete"
  /\ UNCHANGED <<past, rec, storeUp, broken, creating, snapshot, view, batch, fetched, created,
                 dirty, result, resourceVars>>

\* source.close() is attempted once.
CloseSource ==
  /\ \/ Step("complete", "closed")
     \/ Step("complete", "invalidating")
  /\ UNCHANGED <<past, rec, storeUp, sourceVars, created, dirty, result, resourceVars>>

Published == [rec EXCEPT !.status = "recording"]

Publish ==
  /\ Request("closed", "settled", Published, "invalidating")
  /\ result' = IF at' = "settled" THEN "published" ELSE result
  /\ UNCHANGED <<past, sourceVars, created, dirty, resourceVars>>

\* Mutant of BootstrapThrows: nobody listens while the rows are read.
BootstrapThrowsBefore ==
  /\ at \in {"created", "bound", "connected", "slotting", "slotted", "imported", "staging"}
  /\ Throw("failing")
  /\ UNCHANGED <<past, rec, storeUp, sourceVars, created, dirty, result, resourceVars>>

\* A query fails, the caller or the lease's signal aborts, a check refuses.
BootstrapThrows ==
  /\ at \in {"created", "bound", "connected", "slotting", "slotted", "imported", "reading",
             "staging"}
  /\ Throw("failing")
  /\ UNCHANGED <<past, rec, storeUp, sourceVars, created, dirty, result, resourceVars>>

\* After a failure the source is closed, ...
FailClose ==
  /\ Step("failing", "invalidating")
  /\ connections' = {}
  /\ dirty' \in {dirty, connections # {}}
  /\ UNCHANGED <<past, rec, storeUp, broken, creating, snapshot, view, batch, fetched, created,
                 result, resourceVars>>

\* Mutant of Invalidates: only an artifact that has rows is invalidated.
InvalidatesStaged == created /\ rec.status # "none" /\ rec.rows # {}

Invalidates == created

\* ... and what was created is marked invalid; each failure is reported.
FailInvalidate ==
  /\ at = "invalidating"
  /\ at' = "settled"
  /\ \/ /\ Invalidates
        /\ storeUp
        /\ rec' = [rec EXCEPT !.status = "invalid"]
        /\ UNCHANGED <<storeUp, dirty>>
     \/ /\ Invalidates
        /\ dirty' = TRUE
        /\ \/ UNCHANGED rec
           \/ storeUp /\ rec' = [rec EXCEPT !.status = "invalid"]
        /\ UNCHANGED storeUp
     \/ ~Invalidates /\ UNCHANGED <<rec, storeUp, dirty>>
  /\ result' = IF dirty' THEN "incomplete" ELSE "failed"
  /\ UNCHANGED <<past, sourceVars, created, resourceVars>>

ConnectionFails ==
  /\ at \notin {"settled", "dead"}
  /\ \E c \in connections : connections' = connections \ {c}
  /\ broken' = TRUE
  /\ UNCHANGED <<past, rec, storeUp, creating, snapshot, view, batch, fetched, callVars,
                 resourceVars>>

Crash ==
  /\ at \notin {"idle", "settled", "dead"}
  /\ at' = "dead"
  /\ connections' = {}
  /\ UNCHANGED <<past, rec, storeUp, broken, creating, snapshot, view, batch, fetched, created,
                 dirty, result, resourceVars>>

\* The source commits.
SourceCommits ==
  /\ wal < MaxPosition
  /\ wal' = wal + 1
  /\ \E r \in SUBSET Rows : r # RowsAt(wal) /\ past' = Append(past, r)
  /\ UNCHANGED <<rec, storeUp, sourceVars, callVars, dbVars, clientVars, slot, report, meddled>>

BootstrapStep ==
  \/ CreateRecording \/ BindRecording \/ OpenConnections \/ SendCreateSlot \/ ImportSnapshot
  \/ BeginReading \/ FetchBatch \/ StageBatch \/ EndSnapshot \/ CloseSource \/ Publish
  \/ BootstrapThrows \/ FailClose \/ FailInvalidate

LeaseStep == LeaseChecks \/ LeaseNotices \/ LeaseCloses

BootstrapNext ==
  \/ BootstrapStep \/ LeaseStep
  \/ CreateSlot \/ CreateSlotFails
  \/ ConnectionFails \/ Crash \/ SourceCommits \/ LeaseDrops

-----------------------------------------------------------------------------
\* A published baseline is the source at the position its slot starts from:
\* the rows of that one moment, however many batches and commits it took, so
\* that the first commit of the stream is the first one missing.
BaselineMeetsStream ==
  rec.status = "recording" =>
    /\ rec.rows = RowsAt(snapshot)
    /\ slot.by = Boot => slot.start = snapshot

\* A slot of a bootstrap is accounted for: while it is there, after a failure
\* or a crash too, a recording bound to its receipt is in the store.
SlotIsAccountedFor ==
  slot.by = Boot => rec.status # "none" /\ rec.bound

\* A plain failure leaves no recording or an invalid one; if more is left, the
\* caller is told that the cleanup was incomplete, or the store's answer was
\* lost.  No connection is left either way.
FailureLeavesNothing ==
  at = "settled" =>
    /\ connections = {}
    /\ result = "failed" => rec.status \in {"none", "invalid"} \/ (~storeUp /\ ~created)
    /\ result = "published" => rec.status = "recording"
=============================================================================
