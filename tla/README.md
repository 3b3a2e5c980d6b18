# A verification development for time-travel-sql

time-travel-sql records the committed transactions of a PostgreSQL database into
a local SQLite file and answers questions about any state in between. The
promise is `docs/correctness.md`: no commit is missing or applied twice, source
progress is acknowledged only after it is durable, an identical redelivery is
accepted and a divergent one refused, and a failed bootstrap or import publishes
nothing. This directory states what the code does as TLA+ modules, checks them
with TLC on small instances and proves the central theorems with TLAPS for every
instance.

Paths below are relative to `packages/` unless they start with `docs/`, `apps/`
or `test/`. `PROJECT.json` maps each definition to the lines it translates.

## The system

| Part | State it keeps | Operations | Talks to |
|---|---|---|---|
| Storage worker (`storage-local/src/worker.ts`, `writer.ts`, `recording-owners.ts`, `capture-bindings.ts`, `replay-cache.ts`) | one SQLite file: recordings, baseline rows, transactions, ownership rows, bindings; one in-memory replay cache per worker | create, stage and publish a baseline, append, set status, rename, remove, bind; prepare, activate, fenced writes, release | its client, by messages in FIFO order; other workers only through the file |
| Storage client (`client.ts`, `prepare-recording.ts`) | pending requests, at most 128; a claim, a write lease | request with a 30 s timeout, cancel, close | the worker thread |
| Read workers (`read-workers.ts`, `reconstructor.ts`, `exporter.ts`, `reconstruct-views.ts`) | up to 1-4 sessions, one pinned snapshot each | open, read pages, abort, close a session or the pool | a fresh worker thread per session |
| Checkpoints (`checkpoints.ts`) | checkpoint rows with checksums and authorities | publish, restore with fallback to an earlier one or the baseline | the recording's own tables |
| Import staging (`begin-import.ts`, `imports.ts`, `import-directories.ts`) and exchange (`exchange/src`) | a private staging database and directory; a temporary export file | begin, stage, publish, close, abandon; export to a file | the storage worker, the file system |
| Recording session (`sdk/src/application/start-recording.ts`) | what ended it, the close promise | open, record commit after commit, stop | a stream, a writer |
| Replication stream (`source-postgres/src/stream.ts`, `stream-delivery.ts`, `transactions.ts`) | one queued transaction, the assembler's open transaction and durable position, deadlines | receive, deliver, acknowledge, reply to heartbeats, fail, stop | the replication connection, the session |
| Source lease (`capture-lease.ts`, `capture-locks.ts`, `slot.ts`, `preflight.ts`) | one connection with two advisory locks, a health probe | acquire, probe, close; inspect the slot | the server |
| Resume (`sdk/src/application/resume-recording.ts`, `restore-recording-head.ts`) | a claim, a source lease, a write lease | claim, acquire, activate, restore, stream, close | all of the above |
| Reconnect supervisor (`source-postgres/src/resume-recording.ts`, `reconnect-policy.ts`) | its state, the remaining retry budget | run, back off, retry, stop | resume |
| Bootstrap and setup (`bootstrap-recording.ts`, `snapshot.ts`, `baseline.ts`, `setup.ts`, `cleanup-*.ts`) | an exported snapshot, a publication, a slot | capture a baseline; create and remove source objects | the server, the store |
| History queries (`sdk/src/application`, `query-pglite/src`) | none beyond one query | select a position, replay, scan, compare, inspect, run SQL | readers, a PGlite worker |
| Local server and command line (`apps/cli/src`) | admitted requests, open handles | serve, shut down | everything |

What is hard here, and why these parts come first:

* **Several recorders of one recording.** A recorder that is cut off does not know
  it. It may hold a claim, a lease, a slot or a queued append when a second one
  has taken over. Ownership is fenced by generations inside the file; the source
  by advisory locks and the slot's single session. Nothing ties the two together
  but the order of the calls in `resume-recording.ts`.
* **Unknown outcomes.** An append whose caller gave up after 30 s still runs. A
  commit that was stored may never have been acknowledged, and an acknowledgement
  may have been lost.
* **State written before the commit that justifies it.** The replay cache is
  updated inside the SQLite transaction, and other workers change the file under
  it.
* **Values the source does not send.** An update leaves out what it did not
  touch. The recorder fills it from rows it restored itself, from checkpoints
  that may be damaged, so an error there would be recorded as history.
* **Several databases and a file system in one promise.** An import or a setup is
  one COMMIT among many steps, and its answer may be lost.
* **Ends that race.** Stop, a stream failure, a lease loss, a cancellation and a
  storage failure may meet in one session; each has promises to keep and handles
  to give back.

`PROJECT.json` lists these at their lines under `hazards`, with the properties
that would notice.

## Modules

| Module | Models | State |
|---|---|---|
| `HistoryState` | `sdk/src/domain/state.ts`, `events.ts`: applying and replaying transactions | none (operators) |
| `CommittedHistory` | the abstract promise of durable history | one log per recording |
| `RecordingStore` | the storage worker, claims and leases | the tables, each worker's cache and queue, the sessions |
| `DurableCapture` | the abstract promise of capture | commits made, durable, confirmed |
| `CaptureRecovery` | resumed recordings of one source, with crashes and takeovers | source, slot, locks, recording, attempts, requests and acknowledgements in flight |
| `RecordingSession` | one session over one stream, between its promises, timers and events | the stream's end, delivery, assembler and timer; the session's loop, close and stop; the append in flight |
| `SessionContract` | what a session promises to the one that owns it | how the source ended, stop, why the session left, the outcome of `done` |
| `ReconnectSupervisor` | `resumePostgresRecording` with the attempts of `resumeRecording` it makes | where it stands, signals, stop, leases, retries, the session it owns |
| `RowEvents` | `state.ts`, `events.ts`: single events with their images, in order | none (operators) |
| `TransactionAssembly` | `transactions.ts`, `changes.ts` and their helpers | the source's commits, what the stream has sent, the assembler |
| `Checkpoints` | `checkpoints.ts`, `history-scan.ts`, `reader.ts`: stored records and restoration | baseline, transactions and checkpoints with their digests, what a viewer has verified |
| `RecordedRows` | both, with the recorder that appends, stops, crashes and resumes | the recorder's cache, counts of stops and damages |
| `WorkerClient` | `client.ts`, `protocol.ts`, the three workers | clients, requests, queues, workers, the file's commits |
| `ReadWorkers` | `index.ts`, `read-workers.ts`, `exporter.ts`, `reconstructor.ts`: who owns clients | the store, the pool and its sessions |
| `RecordingFile` | the portable file and its checks | none (operators) |
| `RecordingExport` | `export-file.ts`, `export-recording.ts`, `derived-recording.ts` | the target, the temporary file, the session, where the export is |
| `RecordingImport` | `import-*.ts`, `begin-import.ts`, `import-directories.ts`, `imports.ts` | each import, the worker's stage and queue, the directories, the destination |
| `PortableRecordings` | a file exported, damaged on the way, and imported | both |
| `SourceResources` | `setup*.ts`, `publication.ts`, `cleanup-*.ts`, `owned-client.ts` | the catalog, slot, locks and WAL, a session and a client per caller |
| `Bootstrap` | `bootstrap-recording.ts`, `baseline.ts`, `snapshot.ts` | the recording, snapshot, connections, batches |
| `SourceLifecycle` | the two together | both |
| `HistoryReplay` | `replay-history.ts`, `resolve-history-range.ts`, `selection.ts` | the question, the history, the range, the replayed state, the work spent |
| `InvestigationPages` | `investigation-work.ts` | none (operators) |
| `InvariantScan`, `RowLineage`, `StateComparison` | `scan-invariant.ts`; `inspect-row-history.ts` with `row-origin.ts`; `compare-reconstructed-states.ts` with `inspect-reconstructed-rows.ts` | what each query carries along |
| `HistoryQueries` | one query of any of these kinds beside its caller and the clock | all of them |

`RecordingStore` EXTENDS `HistoryState` and INSTANCEs the `CommittedHistory` it
implements. `CaptureRecovery` and `RecordingSession` each
INSTANCE `DurableCapture`: many sessions with their processes and server, or one
session with its callbacks, keep the same promise. `RecordingSession` also
implements `SessionContract`, which `ReconnectSupervisor` EXTENDS: the supervisor
is checked against every session that keeps the contract, and the session is
checked to keep it, instead of composing the two state spaces.
`WorkerClient`, `SourceResources` and `HistoryReplay` are
extended by the module that owns or drives them; `PortableRecordings` EXTENDS
`RecordingImport` and takes `RecordingExport` as the INSTANCE `Exports`, because
an import must not see the export's variables; they have `errors` in common,
which is `failures` on the export's side. `CaptureRecovery` takes from the store only what recovery depends on (the head,
the status, the ownership row and one append in flight per attempt) so that the
interleavings of two attempts stay within reach; the full store, with data,
caches and failing commits, is `RecordingStore`.

### HistoryState

A recorded database is a position and a set of rows. A row is its identity and
value together, so an update removes one row and adds another, and a stale
before-image is the removal of a row that is not there. `Applies` are the checks
of `apply` and `Apply` its result. `Replay` says without recursion which rows are
present after a sequence of transactions, so that proofs may use it. That it is the
fold of `Apply` (`ReplayIsFold`) is checked by the run `store` on every
reachable history and proved for all of them, one transaction at a time
(`ReplayFolds` in `RecordingStoreProofs`).

### RecordingStore

One request of a worker is one SQLite transaction (`database.ts`, `atomic`), so
it is one action, named for the method. What a request leaves behind when its
COMMIT fails is a variant (`WriterAppendFails`, `PublishBaselineFails`,
`RemoveFails`): the tables are as before and the worker's cache is not.
`data_version` is modelled by what it is for: a commit of one worker makes every
other worker's entry no longer current, and so does the deletion of the
recording. An append has four endings: it stores (`WriterAppend`), its COMMIT fails,
it meets the same transaction where it stands (`WriterAppendDuplicate`, a success its
caller may acknowledge), or it is refused (`WriterAppendRefused`), for a divergent
redelivery, a missing predecessor or a stale before-image. The last two leave what
loading the head left in the cache. Requests the code rejects without touching
anything are not steps, except those that a session waits for (`RequestFails`).

A session is one `prepareRecording` call with its claim and its lease. Its calls
enter the queue of its worker (`Send`, refused beyond `MaxPending`), and the
worker runs them in order. `CloseLease` and `AdmitRelease` are the two steps of
`close()`: it stops admitting writes first and queues the release when there is
room, behind the writes already accepted.

Ownership follows `recording-owners.ts`: the row's incarnation is fresh for each
row, `generation` grows by reservation, `owner` by activation, and a write
needs a token equal to the active owner, or no token and no row.

### CaptureRecovery

One published recording, one slot, one pair of advisory locks, and several
`resumeRecording` attempts. Positions are numbers of source commits. An attempt
is a process or a call: `Crash` abandons it anywhere, which leaves its server
sessions to `EndStream` and `EndLease`. The server notices a dead client late and
a client notices a dead session late, so an attempt can believe in a slot that
another holds.

The request in flight models the worker: `StoreLost` is a rejection or a timeout
that the caller gives up on, after which the request may still run (`StoreAppend`)
or never (`DropRequest`). The server sends from the requested start or, if that
is older than what it was told to forget, from there. It keeps what is on its way
in `acks`, in order, and loses it with the session.

Abstracted: the identity and schema comparisons of the restore (every attempt
resumes the recording it was set up for), the contents of transactions
(`RecordingStore` has them), and the timers, which are nondeterministic failures.

### RecordingSession

One call of `startRecording` over one stream. An action is what JavaScript runs
between two awaits, so the interleavings are those of its event loop: a read that
has settled continues before the next socket event or timer (`ReadReady`), and so
does the body of `close()` that `stop()` queued (`Quiet`); the caller may stop or
abort at any time, and the store's worker, a thread of its own, commits whether or
not its caller still waits. `pending` is the delivered transaction and also what
the driver's data callback waits for, so `DestroySettles` needs it gone.

`pc` names what the session awaits. `Terminate` is `stop()` of `stream.ts`, which
every ending goes through and only the first decides; `Fail`, `Finish` and
`Cancelled` are the three ways out of the session's loop. Errors are their codes,
with the `INVALID_*` codes taken together. Each of the stream's failures may come
at any quiet moment, so timers and lease probes need no clocks. `faults` records
what really went wrong, for the properties to compare with what is reported.

Abstracted: the validation of arguments and frames (their outcome is chosen), and
the server, which is `CaptureRecovery`'s.

### ReconnectSupervisor

The supervisor makes one attempt at a time and awaits it, so one program counter,
`at`, serves both: the awaits of `resumeRecording` in order (`Awaits`), those of
the supervisor (`recording`, `releasing`, `backoff`, `reporting`), and the places
where a settled promise continues before the next event (`Continuations`).
`StepSettles` and `StepFails` are the two ends of an await, with the check of the
signals that follows most of them and the cleanup that follows a rejection
(`cleaning`, `Cleaned`). Which awaits look at the signals is `Checked`; that the
last one before the session is returned does not is described below.

`aborted` is the supervisor's own signal, which its caller's signal and `stop()`
both abort; the lease listens to it and the stream listens to the lease
(`LeaseEnds`). `stop()` queues a microtask (`stopTask`) that finds out whether
there is a session to stop: between the two the attempt may have ended. `active`
outlives the session until `run()` returns or catches, as the variable in the code
does. The session is the contract's: `Session` is any step of it, `Opened` passes
on a stop that came too early. `external` records of the caller's abort what it met
(`AbortMeets`): an attempt, a wait or a failure (`"idle"`), a session, a session whose
leases are being released, or the report of a stop that met no session
(`"reporting"`, which holds no session either). `ExternalCancellationRejects` is about
the first; what happens in the last is shown by `supervisor_report`.

Abstracted: the length of the delays (a backoff ends at any time), the codes of
the driver's errors (`SOURCE_UNAVAILABLE` or not, which is all the policy asks),
and the comparisons of identity and position, which reject as `INVALID`.

### TransactionAssembly, Checkpoints and RecordedRows

A row is a small part, always sent, and a big one, which the source may leave out
when the change did not touch it. `PushFrame` is one call of
`PostgresTransactions.push` with the frame that the source's next message makes of
its commit; `Complete` fills what was left out, first from the transaction's own
rows (`ReadRow`, `Record`), then from those the recorder restored. The assembler's
phases are those of the code: idle, collecting, pending, down.

A stored record is its content and whether its digest still matches; a checksum is
the content it was made of. So a damaged row, a lost row, and a row that is valid
and stands at the wrong position are different things, as they are to
`checkpoints.ts`. `Restored` tries the candidates from the newest with one budget
for all of them and falls back to the baseline; `PrefixHolds` is the scan that
must hold before any of their rows are believed. `RecordedRows` closes the circle:
`Resume` is `restoreRecordingHead`, whose rows the next transaction is assembled
against. It has one recorder: what several do to one another is
`CaptureRecovery`'s. The source is lossless and in order on one connection.
`AppendDurable` leaves out that the store applies the events to its own head once
more: that head is the one the stream was assembled against (`RestoredIsSource`),
and what `apply` refuses is `RecordingStore`'s.

### WorkerClient and ReadWorkers

A client is one `WorkerClient` of the code: starting, ready, closing, failed, with
its pending requests, each with a timer that may fire as long as it is pending. The
worker runs on after its client has failed, until it is gone. What a request does
to the file is all of its payload: a write commits once more, a read says how many
commits it saw. Any request may fail in the worker (`RunFails`), a close as well, which
then leaves the port open. `ReadWorkers` adds who calls whom: `openLocalStore` and its
draining `close`, and the pool, whose sessions keep their place until their worker
has exited.

### RecordingFile, RecordingExport, RecordingImport and PortableRecordings

A file is a header, records and perhaps more after them; a digest is the sequence
it was computed over. `RecordingExport` is one program counter through
`exportRecordingFile`, where each step may fail and each acquired thing is released
in the order of the code's `finally` blocks; `Link` is the only step that creates
the target. `RecordingImport` is the caller (`phase`), the client (`queue`,
`reply`), and the worker (`stage`, `committing`). The destination's COMMIT is a
step of its own after the last look at the cancellation flag, so a signal may come
between the two. Failures are named in `failures` (of the export) and `errors` (of
each import) for the properties to compare with the outcome: `"unremoved"` and
`"unclosed"` are what a cleanup left behind and reported.

### SourceResources, Bootstrap and SourceLifecycle

The catalog holds publications by oid, with the uncommitted changes of each
session apart from it (`work`), since `ALTER PUBLICATION ... RENAME` takes its lock
after the name was resolved: another publication may have the name by then, and
what the rename got is checked again. A COMMIT may be on the wire when its client
gives up, and the server executes it later or ends the session. `Bootstrap` runs
under the lease of the same locks: create, bind, slot and exported snapshot, import
of the snapshot, batches, stage, close, publish, with the failure and cleanup of
each. A crash leaves the server's sessions to end by themselves. The command that makes
the slot is on the wire (`SendCreateSlot`, `creating`) until the server makes it
(`CreateSlot`) or does not (`CreateSlotFails`): a bootstrap that has failed or died
meanwhile may still leave a slot. The slot's field `unseen` is history for
`CleanupIsSafe`: the cleanups that had looked for a slot for the last time when it was
made.

### HistoryReplay and the queries

The history comes over a port that the queries do not trust: its declared counts
and its pages may disagree. `Resolve`, `LoadBaseline`, `ReadTransaction`,
`StalledPage` and `EndOfHistory` are the steps of `replayHistory`, each yielding a
state to the query on top, which evaluates it (`InvariantScan`), follows a row
through it (`RowLineage`), or merges two (`StateComparison`). A query engine that
refuses or fails is an outcome of `EvaluateState`. The properties compare every
outcome with a reference over the whole history: the first state that breaks the
invariant with its difference from its predecessor, the life of a row by its identity
(where it came from: a key of the baseline or an insertion) across key changes, the
set difference.

## Runs

Most runs check a few invariants that are conjunctions of named parts, one per
question: `BootstrapIsSound`, for instance, is `BaselineMeetsStream`,
`SlotIsAccountedFor` and `FailureLeavesNothing`, each defined and explained in the
module. `PROJECT.json` lists for every checked property one or more mutants, at
least one for most parts: a plausible slip in a mapped definition that makes the
property fail.

| Run | Instance | Question |
|---|---|---|
| `store` | 2 workers with caches, 1 recording, 2 rows, 3 changes, positions 0-2, no sessions; or 2 claims on the 2 workers, 2 generations, 2 incarnations, queues of 2, over histories of one row | stored history replays, caches are faithful, the store implements `CommittedHistory`; at most one session may write, a fenced one never may again, closing a lease runs the writes it accepted |
| `capture_safety` | 2 attempts, 2 commits | no commit missing, nothing confirmed early, nothing invalidated, refinement of `DurableCapture` |
| `capture_live` | 2 attempts, 1 commit, recorder crashed before | attempts catch up; the source is given back |
| `session` | 1 session, 3 commits | one commit in flight, nothing confirmed early, only divergence invalidates, stop hides no failure of the store, nothing left running, refinement of `DurableCapture` and `SessionContract`; ends settle, deliveries are released |
| `session_stop` | 1 session, 1 commit | shows a failure of the source that a stop hides (below) |
| `supervisor` | up to 3 attempts | attempts do not overlap, cleanup failures are reported, so are cancellations that meet an attempt, a wait or a failure, nothing begins once cancelled; stop and cancellation settle, attempts end |
| `supervisor_report` | 1 attempt | shows a cancellation that a stop being reported hides (below) |
| `reads` | 1 store with 1 write and 2 cleanup requests, 2 read sessions, capacity 1, queue of 1 | bounds of workers and queues, draining close, one snapshot per session that includes every acknowledged write; everything ends |
| `portable` | 2 histories of up to 2 rows and 2 transactions, 1 export, 2 imports, every damage of the larger file | the target is complete or absent, only verified files are published, nothing existing is replaced, no stage or directory leaks, outcomes are true; both settle |
| `lifecycle` | 1 setup, 1 cleanup, 1 lease with a bootstrap of 2 rows, 1 act of an administrator, 2 publications | setup is whole, only what was set up is dropped, never under a capture's lease nor over a slot that could be seen, the baseline meets the stream, every slot is accounted for, a failure leaves nothing published or tells that its cleanup was incomplete; all end |
| `queries` | histories of up to 3 events in 1 or 2 transactions, one that breaks and mends the invariant, views of up to 3 rows, each also damaged, with ample and tight budgets | the first violation, complete and honest answers, the row's own lineage, exact differences and pages, no false alarm; every query ends |
| `recorded_rows` | 7 kinds of transactions, 2 of them in a row, 2 keys, 1 stop or crash, 1 damaged record | recorded, restored and shown rows are the source's; checkpoints never hinder; the recorder refuses only for cause |

Why the bounds are enough. Fencing needs one who has the right and one who takes
it, on workers of their own, and one deletion with recreation, so two claims, two
generations and two incarnations; the theorems hold for any number.
Two positions after the baseline allow an append, a redelivery and a
divergent redelivery; two workers allow a stale cache. Two commits let one be
durable while another is in flight, and two attempts let one be displaced at
every point of the other; attempts are interchangeable in the safety run and no
symmetry is used for liveness. A third commit or attempt adds no new
relation between two attempts: the theorems below hold for any number of both. A
session is back where it was after each acknowledgement but for what ended it, so
three commits let a failure, a stop and a stale callback fall into different ones.
Three attempts give the supervisor a first, a repeated and a last one; the
theorems hold for every budget.

A queue of one is full as soon as it is used, and two cleanup requests wait for the
same place; one pool place makes two sessions compete. Batches of one row make a
baseline of two rows cross the limit, and the damages of a file are every loss,
repetition, exchange and replacement of one record, with the trailer left as it was
or made anew. Two publications allow one to take the name of another. Three events
are enough for a row to move, lose its key to another and come back. Two
transactions let the second be assembled from what the first left, before and after
a restoration, and one damage is enough to meet each check of a restoration; at
most two checkpoints exist, so `MaxCandidates` is never exceeded. The limit of rows
of a state is met in `queries` only.

Five runs restrict the interleavings, in their MC modules, where steps do not
depend on one another:

* `store` explores plain callers on both workers with full histories, or two
  sessions beside one plain caller: which worker runs a request without a session
  matters to the caches only, and claims, leases and fencing read nothing of a
  recording but its row, its owner and its status, so one inserted row is history
  enough beside them. The proofs have no such split.
* `reads` explores the store alone, or the pool beside an open store that writes:
  they share only the file.
* `portable` lets a second import start only while the first of the small file runs
  and the worker is up, and explores aborts, failing clients, a closing store and
  local writers with files that are whole or cut short: of an altered file an import
  sees no more than of a file cut short at that record until it refuses it.
* `lifecycle` lets administrators act while a setup or cleanup runs, and lets a
  bootstrap meet failures and source commits only while no setup or cleanup runs;
  beside a cleanup it may lose its lease. An assessment comes before a cleanup, and
  beside what moves the slot.
* `recorded_rows` lets viewers and damages act while a commit is pending (viewers
  only), after a stop, and at the end of a stream: the frames between read nothing
  of what those change, nor the other way round, so their steps commute. The source
  commits when all it committed before has been sent, since what is sent of a commit
  does not depend on later ones.

`CHECK_DEADLOCK FALSE` is used throughout because the systems stop legitimately:
each session and attempt is one call, and the bounds on commits, generations
and positions end every behaviour.

### Fairness

`recorded_rows`, `capture_safety`, `store` and `supervisor_report` assume none. In
`capture_live`, an attempt that was called keeps advancing (promises settle, timers fire: `WF(Advance)`), the server reads what it is sent
and asks for a reply before `wal_sender_timeout` (`WF(ServerConfirms)`,
`WF(Heartbeat)`), it ends the sessions of clients that are gone and a client sees
in the end that its session is (`WF` of `EndStream`, `EndLease`, `StreamFails`
under those conditions). No fairness is assumed of calls, stops, commits of the
source or failures. The heartbeat is needed: a commit that was durable before the
crash is never sent again, so nothing but a heartbeat reply confirms it.

In `session`, ready continuations run, armed timers fire, the driver shuts
down once its callback has returned, and the store answers or times out
(`client.ts` rejects each request after 30 s, `WF(Run)` includes
`AppendRejected`). Frames, heartbeats, failures, the store's commits and stop are
not assumed.

In `supervisor`, every promise an attempt or the supervisor awaits settles
(store requests and the lease's and the stream's connections have deadlines),
the backoff timer fires, queued microtasks run, and the session takes the steps
that its contract enables, which `session` shows of it. Failures,
stop and cancellation are not assumed.

In `reads`, a promise whose answer is there continues, a timer fires in the end
(so a worker may hang for ever and its client still fails), a thread that was told
to stop stops, and closes that were called go on. In `portable` and `lifecycle`,
`WF(Proceeds)` says that what was started goes on: each step either succeeds or
fails, because requests, queries, lock waits and the lease's probe have deadlines.
In `queries`, the query itself goes on (`WF(Answering)`); neither the caller's
cancellation nor the deadline is assumed to come.

### Where documentation and code disagree

`session_stop`: `start-recording.ts:49-50` and `docs/recording-sessions.md:24-26`
say that a source in a terminal state keeps its independent failure. The source
fails while an append is in flight, the owner stops the session, the append
settles: the loop leaves at `if (stopping) break` (line 119) without the
acknowledgement that would have met the failure, and `done` resolves with a
recording marked `stopped`. The recorded commits are right; what is lost is that
the source failed before it was stopped.

`supervisor_report`: `docs/postgres-reconnect.md:37-38` says "External signal
cancellation rejects completion; a concurrent stop does not turn it into success."
A stop during startup or backoff ends the supervisor with `return store.info(id)`
(`source-postgres/src/resume-recording.ts:77` and `:96`). Whether the caller has
aborted is asked before that read is sent. No session is open while it is pending;
an abort that comes then aborts a controller nobody listens to, and `done` resolves
with the info. Aborts that come earlier, before or after the stop, do reject:
`ExternalCancellationRejects` is checked and proved of them. An abort that comes
while a session is open or its leases are being released is answered as the session
ended: if a stop had ended it first, `done` resolves as stopped. Whether the sentence
means these too it does not say, and neither property does.

Two more were met while modelling and are described here without a run of their
own, in the models as the code has them.

`docs/resuming-recordings.md:10-11` says "Reservation alone does not displace a
running writer". `RecordingOwners.assertWrite` refuses a write without a token as
soon as an ownership row exists, and `prepare` creates it. A running recorder that
uses no token, such as the one started by `startRecording` on the store itself, is
displaced by a reservation that is never activated. `docs/local-storage.md:109-110`
describes what the code does.

`docs/postgres-reconnect.md:34-35` says of a stop during
startup that it "cancels owned work and returns the current durable recording
info", and line 36 that without an active writer it does not rewrite the status.
While `resumeRecording` awaits its last step, the status write of
`startRecording`, there is no session yet to stop, so `stop()` aborts the
signal, which ends the open stream. Nothing looks at the signal after that await:
the session is returned with a stream that has ended, its first read rejects, it
marks the recording `interrupted`, and `done` and `stop()` reject with `CANCELLED`
although nothing failed.

What else the models showed, and no document denies:

* No single check of an imported file carries the whole promise. Dropping the
  digest, the key order, the predecessor or the replay of the stage, one at a time,
  still leaves another one to refuse the damaged file.
* A scan that runs out of a budget or time while it makes the report of a violation
  is incomplete, and the last state it evaluated is the violating one
  (`IncompleteIsHonest` is stated accordingly).
* `CancelledNeverCommits` cannot hold for a client that has failed: its flag still
  reaches the worker only if it was set before. The caller is told that the outcome
  is unknown (`OutcomeIsTrue`).
* A cleanup looks for the slot twice, the second time under the publication's lock,
  and its COMMIT comes later. In between a slot can still be made: by anyone who asks
  for no lock, or for a bootstrap whose lease session has ended, which may not know
  yet, or be gone with `CREATE_REPLICATION_SLOT` still on the wire.
  `NothingRemovedUnderCapture` says that a removal meets no slot but such a one; a
  cleanup without its second look fails it. `docs/publication-cleanup.md:31-35`
  says as much of arbitrary SQL.
* That a failed bootstrap leaves no published rows has one exception: when the
  store's answer to the publication is lost, the rows may have been published. The
  bootstrap then tries to mark the recording invalid, and if that fails too it tells
  that its cleanup was incomplete (`FailureLeavesNothing`).

## Proofs

`RecordingStoreProofs`: `TypeCorrect`, one case per action. That history replays and
that a cached head is the head (`HistorySound`) need each other: an append applies
to the head it has loaded, which may be the cached one. A cache entry is not simply
right, though: it is written before COMMIT, so after a failed commit it is a
transaction too long, or of a baseline that was never published. `HistoryInv` says
what holds of every entry that no other worker's commit has made worthless: its
recording exists, and if the baseline and the length in its metadata are the stored
ones, its state is the replay of what is stored (`EntrySound`); and of every
recording, that its status fits its published range and its transactions replay to
its head (`RecordSound`). `ReplayAppend` and `ConsistentAppend` are the two facts about
`Replay` it takes. `StoreImplementsHistory` is the refinement: a step that commits
changes the log of one recording by a step of `CommittedHistory`, and the others do
not change what is stored (`SameLog`). `BindingStaysSettled` follows from
`RecordSound` alone.

Its second part is about fencing: `OneWriter` is not inductive. That two sessions never
hold the same token rests on tokens being bounded by the generation of the
incarnation they belong to (`TokensReserved`), incarnations being bounded by the
counter (`OwnersBounded`), and no two queued preparations belonging to one
session (`PreparesFresh`, `IdleFresh`). `OwnershipInvariant` proves
these inductive together with `TypeOK`; `OneWriterHolds` and `FencedStaysFenced`
follow. `LeaseDrains` (the property `AcceptedWritesDrain`) also needs the order in a
worker's queue (`QueuesOrdered`): a request that is not a write is the last one of its
session, which waits for it, so no write is behind a release. With tokens distinct,
only a session's own release can end its rights without a newer activation.

`CaptureRecoveryProofs`: `NoCommitMissing` needs to know what is in flight. The
inductive invariant `RecoveryInv` adds that tokens are handed out once and only
activated claims own the row (`TokensSound`), that no attempt believes anything
durable that is not (`HeadsDurable`), that a request in flight belongs to an
attempt that waits for it or has left (`RequestsSound`), that the attempt that
may write stands at the end of the recording, with its next append ready to fit
(`WriterAtHead`), and that only an attempt that has lost its rights wants to
invalidate (`OutcomesSound`). `RecoveryImplementsCapture` classifies each step as
one the source sees, one the recording sees, or neither (`StepKinds`).

Its second part is about `ReconnectSupervisor`: that attempts do not overlap and that failures of a
cleanup or a cancellation are never swallowed depend on what the supervisor knows
at each place. The inductive invariant ties `at` to the leases held (`LeaseSound`),
to the signals and to whether stop's microtask has run (`SignalsSound`), to the
error on its way (`ErrorSound`, `CleanupSound`, `CancelSound`), and says that the
contract's variables are those of a session not yet begun while one is being
opened (`SessionFresh`). `NothingBegins` needs no more than one step.

`RecordingSessionProofs`: every property of a session relates what its three
actors (the stream's callbacks, the session's loop, the store) believe at one
moment. `SessionInv` says for each value of `pc` what is awaited and by whom: how
far commits were received, stored, acknowledged and told (`PositionsSound`), where
the delivered transaction is (`DeliverySound`, `StreamSound`), what a settled read
is still going to bring (`ReadSound`), who ended what (`EndSound`), and which
errors the loop may have collected from which fault (`OutcomeSound`,
`InvalidSound`). `OneCommitAndQuietEnd` and `FailuresStayApart` follow. Both
refinements are proved step by step under the invariant (`CaptureStep`,
`ContractStep`): most steps stutter, an executed append is `CommitRecorded`, a
reply to the server is `ProgressConfirmed`. Since `ReconnectSupervisor` EXTENDS the contract,
its theorems hold of every supervisor whose sessions are `RecordingSession`s.

`ReadWorkersProofs`: the bounds on workers are not inductive because a worker is
counted by its thread, the pool counts places, and the two are tied only through
requests and answers in two queues. `ReadInv` follows each call through them: it is
in one queue or the other, once, and nothing comes after a close (`InboxSound`,
`OutboxSound`, `PendingSound`, `ClosingSound`, `LifeSound`, `BoundSound`); a
session whose thread lives has a place (`PlaceSound`); what was acknowledged is at
most what was committed, which is at most what was taken from the queue
(`CommitsSound`), and all a session was told or is about to be told is its one view,
not older than what was acknowledged before (`SnapshotSound`, `AckedSound`). A step
of the system does one of nine things to a client (`ClientStep`), so its part is
proved for those nine and the pool's part action by action.

`PortableRecordingsProofs`: that only verified files are published cannot be seen
from the store alone. `PortableInv` follows a record from the file (`ExportSound`,
`CheckSound`: what the validation counted is what was read) into the request that
carries it (`JobSound`, `Meant`) and the worker's stage (`StagedSound`), so that
what the publication compares with the manifest is all the file holds
(`CommitSound`). A client that fails leaves requests behind that nobody waits
for; `Given` says which those may be and that their callers have been told that an
answer was lost, which `OutcomeIsTrue` needs. The directories and handles are in
`PhaseSound`, `StageSound` and `ExportSound`.

`SourceLifecycleProofs`: the source is a catalog with uncommitted work of several
sessions, of which any may fail with a COMMIT on the wire. `ResourceInv` says that
whoever has changed something, or has sent its COMMIT, holds both advisory locks
(`HolderSound`), hence that only one session has work (`OneHolder`), and what that
work can be: of a setup one new publication of its own (`SetupSound`), of a cleanup
the new name of one publication, and when it is sent the removal of the one in its
receipt (`CleanupSound`). So a commit, whether the client or only the server lives to
see it, changes the catalog as `CatalogSound` allows (`CommitFacts`).
`BootstrapInv` follows the bootstrap beside it: the slot's positions
(`PositionsSound`), the recording it owns (`RecordingSound`), what was fetched and
staged of the snapshot (`SnapshotSound`) and what is open and told at the end
(`EndSound`); `UnderLease` says that it began with the lease held, and `LooksSound`
that a slot which exists was made after the last look of every cleanup that will not
look again. `SourceSound`,
`BootstrapSound` and `CleanupSafe` follow.

`HistoryQueriesProofs`: what a query answers is compared with references over the
whole history (`RowsAfter`, `HoldersAfter`, `LifeTo`), which like the model's own
operators are recursive functions. The library's induction theorems cannot be used
(they take an operator as a parameter), so the module begins with two lemmas of its own
about sets and functions, from the well-foundedness of the naturals: `Induction`, and
`RunExists`, by which a recursive function has the value its definition gives at each
step. The invariants are stacked. `Shape` types everything a query carries along and
bounds what it spends. `ReplayInv` places the replay: the state it hands on is that of
the reference after so many transactions, each of which followed the one before it
and fitted, so a replay that reaches the declared head with the declared count has seen
an intact recording (`Intact`). `ScanInv` says that the states before that place were
evaluated once each and found clear, and that the state about to be reported is the
first that was not; `ScansAreTrue` follows. `MergeInv` says that what was taken of two
views is ordered, that all that is ahead comes after it, and that the page and the counts
are those of what was taken; that a key is never passed over is the order the code
checks as it pulls (`InOrder`), and `ComparisonsAreExact` follows without any assumption
on the order in which a session hands out rows of one table. `LineageInv` is about the
two passes of a row history. The first keeps an origin for each key it met and takes an
unmet one for an untouched row of the baseline: that this names exactly the row that holds the key
(`Traced`) rests on rows having distinct identities (`Identified`). The second looks
for the row only after its origin, so that an earlier row under the same key is not
followed, and after the last event of a life nothing else is about it (`Pursuing`);
the page it fills is a page of the life so far (`Told`). `LineagesAreTrue` also says of all
four operations that no intact recording is called damaged.

`RecordedRowsProofs`: what the recorder fills in comes from rows it restored, and what
it restores comes from what it recorded earlier, so neither is right without the
other. `Sound` says three things together. Of the source, that its states are tables
(`SourceSound`). Of the store (`StoreSound`), that the recorded commits are the first
ones of the source, each exactly as committed, of which damage may have lost some
(`CommitsSound`); that a manifest states the rows at its position or names a history that no
position but the first can have, so that an artifact either holds the source's rows or
fails a check (`CheckpointsSound`); that while no other connection has committed, what a
viewer verified is still what it names, also when it was removed and published again
(`VerifiedSound`); and that all is there as long as nothing was damaged
(`WholeUnlessHarmed`). Of the recorder (`AssemblerSound`), that the events it collected
are those sent so far, and that a row seen through its overlay is the source's row at that
place inside the transaction (`Collected`): this is what lets `Complete` fill an omitted
part, whatever keys moved before. Restoration is followed candidate by candidate, newest
first: an artifact that passes the digests and the prefix scan holds the rows of its
position, replaying the rest gives the source's, and the work of the attempts that failed
is bounded by one scan each (`Spent`), which is what `CheckpointsNeverHinder` needs.
`RowsAlwaysSource` and `RefusalsAlwaysCaused` follow. The recursive functions are unfolded by
the same two lemmas as in `HistoryQueriesProofs`, proved again for this module, whose names
would otherwise meet those of the queries. `RefusedForCause` says nothing of a commit that the
store refuses, because nothing lasting can be said: the budget that a restoration lacked is
there again once a checkpoint is removed. What holds when the store refuses is
`CheckpointsNeverHinder`.

Assumptions are those of the modules' ASSUMEs, which TLC evaluates in the runs:
`Nobody` is no attempt, the bounds are naturals, `Changes` are changes of `Rows`,
sessions are mapped to workers; setups, cleanups and the lease are different sessions
and none is the name of nobody or of others (`SessionsAssumption`). A client is given
finitely many calls, since counts of infinite sets mean nothing (`ClientAssumption`);
importers are told apart from the names that stand for none and for a local writer
(`ImportersAssumption`); a batch holds a row (`BatchRowsAssumption`); and what an
exported file may have become is still a header, records and perhaps a trailer,
whatever they say (`FilesAssumption`): an import refuses a line that does not parse
as it refuses the end of a file cut short before it.

Of the queries: keys are positive numbers and finitely many (`KeysAssumption`), since
0 stands for no key and tables are counted; what stands for no row, for a refusal or
for nothing is none of the values it stands beside (`NoRowAssumption`,
`NothingAssumption`); tables are numbered in the order of their keys
(`TableOfAssumption`); and `Questions` are questions as they are decoded, with
histories and views of any content and order (`QuestionsAssumption`).

Of recorded rows: the two parts of a value are independent (`ValuesAssumption`), what stands
for an omitted part, no key or no row is none of what it stands beside
(`PartsAssumption`), a workload is sequences of inserts, updates, moves and deletes
(`WorkloadAssumption`), the limits are numbers (`LimitsAssumption`), and there
are no more keys than a state may have rows (`SnapshotsAssumption`): these theorems are
about tables within that limit, and states that exceed it are met in `queries` only.

Every safety property of the passing runs is a theorem. Only model-checked: the
liveness properties, which are out of the prover's reach.

## Not modelled

* The PostgreSQL catalog, preflight and schema: reads without state whose outcome
  (it fits or it does not) is a choice where they are called.
* Values, their decoding, decimal and temporal types, lossless JSON, validation,
  contracts, SQL text and the Prisma integration: pure functions of data that the
  models abstract to identities.
* Saved checks: single-statement inserts, reads and deletes.
* The SQL sandbox and the local server: their admission, deadlines and shutdown
  follow the pattern of `WorkerClient` over a PGlite engine and an HTTP library
  that are not part of the repository.
* The command line, scripts, examples and fixtures.
* Sizes in bytes, where a limit on a count of the same thing is modelled.

## Plan

The query sandbox and the local server, as clients of their own workers.
