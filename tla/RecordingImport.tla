-------------------------- MODULE RecordingImport ---------------------------
(* importRecording (import-recording.ts, import-file.ts) and the staging it  *)
(* publishes from: the import session of the local store (begin-import.ts),  *)
(* its private directories (import-directories.ts) and the worker's side     *)
(* (imports.ts, worker.ts).                                                  *)
(*                                                                           *)
(* Records are staged while the file is still being read, in a database of   *)
(* their own; only a file verified to its end is copied to the destination,  *)
(* in one transaction.  The caller's signal reaches the worker as a shared   *)
(* flag.  Requests are answered in order, or lost when the client fails.     *)
EXTENDS RecordingFile

CONSTANTS
  Importers,    \* calls of importRecordingFile
  BatchRows     \* rows to a baseline batch (100)

ASSUME BatchRowsAssumption == BatchRows \in Nat \ {0}

\* Calls are told apart from what stands for no call and for another writer.
ASSUME ImportersAssumption == "nobody" \notin Importers /\ "local" \notin Importers

VARIABLES
  dest,         \* the published recordings of the store, and who made them
  stage,        \* the worker's one import
  committing,   \* the import whose publication has decided to commit
  queue,        \* requests the worker has not run
  workerUp,     \* the worker thread is there
  client,       \* open, closing, closed, or failed
  store,        \* open, closing, closed: the store's owner
  roots,        \* private directories there are, one per import
  input,        \* the file an import reads
  at,           \* records of it that are consumed
  check,        \* its RecordingValidation
  batch,        \* rows not yet staged
  baselined,    \* its baseline is complete in staging
  phase,        \* where the import is
  asked,        \* the request it waits for
  reply,        \* the answer
  opened,       \* it has an import session
  aborted,      \* its signal
  flag,         \* the flag it shares with the worker
  errors        \* what failed, for the caller

callVars   == <<input, at, check, batch, baselined, opened>>
waitVars   == <<phase, asked, reply>>
signalVars == <<aborted, flag>>
workVars   == <<dest, stage, committing>>
importVars == <<workVars, queue, workerUp, client, store, roots, callVars, waitVars,
                signalVars, errors>>

Nobody == "nobody"
Local  == "local"
NoRecording == [by |-> Nobody]
NoStage == [by |-> Nobody]
NoFile  == [kind |-> "missing"]

ImportInit ==
  /\ dest = [id \in Ids |-> NoRecording]
  /\ stage = NoStage
  /\ committing = Nobody
  /\ queue = << >>
  /\ workerUp = TRUE
  /\ client = "open"
  /\ store = "open"
  /\ roots = {}
  /\ input = [i \in Importers |-> NoFile]
  /\ at = [i \in Importers |-> 0]
  /\ check = [i \in Importers |-> NoValidation]
  /\ batch = [i \in Importers |-> << >>]
  /\ baselined = [i \in Importers |-> FALSE]
  /\ phase = [i \in Importers |-> "idle"]
  /\ asked = [i \in Importers |-> "none"]
  /\ reply = [i \in Importers |-> "none"]
  /\ opened = [i \in Importers |-> FALSE]
  /\ aborted = [i \in Importers |-> FALSE]
  /\ flag = [i \in Importers |-> FALSE]
  /\ errors = [i \in Importers |-> {}]

-----------------------------------------------------------------------------
(* The importer                                                            *)

Go(i, where) == phase' = [phase EXCEPT ![i] = where]
Report(i, what) == errors' = [errors EXCEPT ![i] = @ \union {what}]

\* An exception reaches the end of importRecording, which closes the session.
Throw(i, what) ==
  /\ Report(i, what)
  /\ Go(i, IF opened[i] THEN "ending" ELSE "settled")
  /\ UNCHANGED <<queue, asked, reply, flag>>

\* A request through the session; a client that is not open rejects it.
Ask(i, method, argument) ==
  /\ Go(i, "asking")
  /\ asked' = [asked EXCEPT ![i] = method]
  /\ IF client = "open"
       THEN /\ queue' = Append(queue, [from |-> i, method |-> method, argument |-> argument])
            /\ UNCHANGED reply
       ELSE /\ reply' = [reply EXCEPT ![i] = "lost"]
            /\ UNCHANGED queue
  /\ UNCHANGED <<errors, flag>>

StartImport(i, file) ==
  /\ phase[i] = "idle"
  /\ input' = [input EXCEPT ![i] = file]
  /\ IF aborted[i]
       THEN Throw(i, "cancelled")
       ELSE Go(i, "reading") /\ UNCHANGED <<errors, queue, asked, reply, flag>>
  /\ UNCHANGED <<workVars, workerUp, client, store, roots, at, check, batch, baselined, opened,
                 aborted>>

\* Cancellation, an I/O failure or a limit, wherever the file is read.
ReadThrows(i) ==
  /\ phase[i] = "reading"
  /\ Throw(i, IF aborted[i] THEN "cancelled" ELSE "fault")
  /\ UNCHANGED <<workVars, workerUp, client, store, roots, callVars, aborted>>

Reading(i) == phase[i] = "reading" /\ ~aborted[i]

\* The next record, when the framing lets one through.
HasRecord(i) == Reading(i) /\ input[i].header /\ at[i] < Len(input[i].records)
Record(i) == input[i].records[at[i] + 1]
Consume(i) == at' = [at EXCEPT ![i] = @ + 1]

\* The first record must be a manifest; a private directory is made for it.
ReadManifest(i) ==
  /\ HasRecord(i)
  /\ check[i] = NoValidation
  /\ IF AcceptsManifest(Record(i)) /\ store # "closed"
       THEN /\ check' = [check EXCEPT ![i] = Validation(Record(i).info)]
            /\ roots' = roots \union {i}
            /\ Ask(i, "beginImport", Record(i).info.id)
       ELSE Throw(i, "invalid") /\ UNCHANGED <<check, roots>>
  /\ Consume(i)
  /\ UNCHANGED <<workVars, workerUp, client, store, input, batch, baselined, opened, aborted>>

Flush(i) ==
  /\ Ask(i, "importBaseline", batch[i])
  /\ batch' = [batch EXCEPT ![i] = << >>]
  /\ UNCHANGED <<at, check>>

\* Mutant of Full: the batch is sent one row too late.
FullLate(i) == Len(batch[i]) > BatchRows

Full(i) == Len(batch[i]) = BatchRows

\* A row joins the batch, after a full batch has been staged.
ReadRow(i) ==
  /\ HasRecord(i)
  /\ check[i] # NoValidation
  /\ Record(i).kind = "baseline"
  /\ IF ~AcceptsRow(check[i], Record(i))
       THEN Throw(i, "invalid") /\ UNCHANGED <<at, check, batch>>
       ELSE IF Full(i)
       THEN Flush(i)
       ELSE /\ check' = [check EXCEPT ![i] = WithRow(@, Record(i))]
            /\ batch' = [batch EXCEPT ![i] = Append(@, Record(i).row)]
            /\ Consume(i)
            /\ UNCHANGED <<waitVars, queue, errors, flag>>
  /\ UNCHANGED <<workVars, workerUp, client, store, roots, input, baselined, opened, aborted>>

\* finishBaseline: the rest of the batch, then the completion.
FinishBaseline(i) ==
  IF batch[i] # << >>
    THEN Flush(i)
    ELSE /\ Ask(i, "importBaselineComplete", check[i].info.baseline)
         /\ UNCHANGED <<at, check, batch>>

\* A transaction is staged at once, after the baseline.
ReadCommit(i) ==
  /\ HasRecord(i)
  /\ check[i] # NoValidation
  /\ Record(i).kind # "baseline"
  /\ IF ~AcceptsCommit(check[i], Record(i))
       THEN Throw(i, "invalid") /\ UNCHANGED <<at, check, batch>>
       ELSE IF ~baselined[i]
       THEN FinishBaseline(i)
       ELSE /\ Ask(i, "importAppend", Record(i).transaction)
            /\ check' = [check EXCEPT ![i] = WithCommit(@, Record(i))]
            /\ Consume(i)
            /\ UNCHANGED batch
  /\ UNCHANGED <<workVars, workerUp, client, store, roots, input, baselined, opened, aborted>>

\* Mutant of VerifiedEnd: the trailer is not waited for.
VerifiedEndUnsealed(i) == check[i] # NoValidation /\ Complete(check[i])

\* The end of the file: the framing, the coverage, ...
VerifiedEnd(i) ==
  /\ input[i].header
  /\ Sealed(input[i])
  /\ check[i] # NoValidation
  /\ Complete(check[i])

\* What the destination is asked to publish: an active recording's copy is
\* interrupted.
Expected(info) ==
  [info EXCEPT !.status = IF @ = "recording" THEN "interrupted" ELSE @]

\* ... the rest of the baseline, and then the publication.
ReadEnd(i) ==
  /\ Reading(i)
  /\ input[i].header => at[i] = Len(input[i].records)
  /\ IF ~VerifiedEnd(i)
       THEN Throw(i, "invalid") /\ UNCHANGED <<at, check, batch>>
       ELSE IF ~baselined[i]
       THEN FinishBaseline(i)
       ELSE Ask(i, "publishImport", Expected(check[i].info)) /\ UNCHANGED <<at, check, batch>>
  /\ UNCHANGED <<workVars, workerUp, client, store, roots, input, baselined, opened, aborted>>

\* The signal: a listener sets the flag while an operation is pending, later
\* operations find the signal set.
Listens(i) == phase[i] = "asking" /\ asked[i] # "closeImport"

\* Mutant of FlagOnAbort: nobody listens while an operation runs.
FlagOnAbortNever(i) == flag[i]

FlagOnAbort(i) == flag[i] \/ Listens(i)

Abort(i) ==
  /\ ~aborted[i]
  /\ phase[i] # "settled"
  /\ aborted' = [aborted EXCEPT ![i] = TRUE]
  /\ flag' = [flag EXCEPT ![i] = FlagOnAbort(i)]
  /\ UNCHANGED <<workVars, queue, workerUp, client, store, roots, callVars, waitVars, errors>>

\* Mutant of BeginAnswered: a session that comes after the signal is dropped.
BeginAnsweredDropped(i) ==
  /\ IF reply[i] = "ok"
       THEN IF aborted[i] THEN Report(i, "cancelled") /\ Go(i, "releasing")
                          ELSE UNCHANGED errors /\ Go(i, "reading")
       ELSE /\ Report(i, reply[i])
            /\ Go(i, IF client # "open" THEN "discarding" ELSE "releasing")
  /\ opened' = [opened EXCEPT ![i] = reply[i] = "ok"]
  /\ UNCHANGED baselined

\* The answer of begin: the session, unless the signal fired meanwhile; a
\* refusal gives the directory back, after the worker if that is gone too.
BeginAnswered(i) ==
  IF reply[i] = "ok"
    THEN /\ opened' = [opened EXCEPT ![i] = TRUE]
         /\ IF aborted[i] THEN Report(i, "cancelled") /\ Go(i, "ending")
                          ELSE UNCHANGED errors /\ Go(i, "reading")
         /\ UNCHANGED baselined
    ELSE /\ Report(i, reply[i])
         /\ Go(i, IF client # "open" THEN "discarding" ELSE "releasing")
         /\ UNCHANGED <<opened, baselined>>

\* The answer of another operation of the session.
StageAnswered(i) ==
  /\ IF reply[i] = "ok"
       THEN /\ Go(i, IF asked[i] = "publishImport" THEN "ending" ELSE "reading")
            /\ UNCHANGED errors
       ELSE Report(i, reply[i]) /\ Go(i, "ending")
  /\ baselined' = [baselined EXCEPT ![i] =
                     \/ @
                     \/ asked[i] = "importBaselineComplete" /\ reply[i] = "ok"]
  /\ UNCHANGED opened

\* The answer of the session's close.
CloseAnswered(i) ==
  /\ IF reply[i] = "ok"
       THEN Go(i, "releasing") /\ UNCHANGED errors
       ELSE Report(i, "unclean") /\ Go(i, "discarding")
  /\ UNCHANGED <<opened, baselined>>

Answered(i) ==
  /\ phase[i] = "asking"
  /\ reply[i] # "none"
  /\ CASE asked[i] = "beginImport" -> BeginAnswered(i)
       [] asked[i] = "closeImport" -> CloseAnswered(i)
       [] OTHER -> StageAnswered(i)
  /\ asked' = [asked EXCEPT ![i] = "none"]
  /\ reply' = [reply EXCEPT ![i] = "none"]
  /\ UNCHANGED <<workVars, queue, workerUp, client, store, roots, input, at, check, batch,
                 signalVars>>

\* stage.close(), once, whatever happened.
CloseStage(i) ==
  /\ phase[i] = "ending"
  /\ Ask(i, "closeImport", check[i].info.id)
  /\ UNCHANGED <<workVars, workerUp, client, store, roots, callVars, aborted>>

\* A session whose close failed takes the whole client with it: ...
Discard(i) ==
  /\ phase[i] = "discarding"
  /\ client = "open"
  /\ client' = "closing"
  /\ UNCHANGED <<workVars, queue, workerUp, store, roots, callVars, waitVars, signalVars, errors>>

\* Mutant of MayRelease: the directory is removed under a running worker.
MayReleaseEarly(i) == phase[i] \in {"discarding", "releasing"}

\* ... its directory goes only when the worker is gone.
MayRelease(i) ==
  \/ phase[i] = "releasing"
  \/ phase[i] = "discarding" /\ ~workerUp

\* rm may fail, which is reported, and tried again when the store closes.
Release(i) ==
  /\ MayRelease(i)
  /\ Go(i, "settled")
  /\ \/ roots' = roots \ {i} /\ UNCHANGED errors
     \/ i \in roots /\ UNCHANGED roots /\ Report(i, "unremoved")
  /\ UNCHANGED <<workVars, queue, workerUp, client, store, callVars, asked, reply, signalVars>>

-----------------------------------------------------------------------------
(* The worker                                                              *)

Job == Head(queue)
JobOf(method) == workerUp /\ queue # << >> /\ Job.method = method /\ committing = Nobody

\* An answer reaches a caller whose client has not failed.
Answer(i, value) ==
  /\ reply' = IF client = "failed" THEN reply ELSE [reply EXCEPT ![i] = value]
  /\ queue' = Tail(queue)
  /\ UNCHANGED <<workerUp, client, store, roots, callVars, phase, asked, signalVars, errors>>

\* The one import the worker owns, while it is neither closed nor published
\* nor cancelled.
Owns(i) == stage.by = i /\ ~stage.sealed /\ ~flag[i]

RunBegin ==
  /\ JobOf("beginImport")
  /\ IF stage = NoStage /\ ~flag[Job.from]
       THEN /\ stage' = [by |-> Job.from, id |-> Job.argument, rows |-> {},
                         baseline |-> [done |-> FALSE], transactions |-> << >>, sealed |-> FALSE]
            /\ Answer(Job.from, "ok")
       ELSE Answer(Job.from, "refused") /\ UNCHANGED stage
  /\ UNCHANGED <<dest, committing>>

RowsOf(s) == {s[n] : n \in DOMAIN s}

RunBaseline ==
  /\ JobOf("importBaseline")
  /\ IF Owns(Job.from) /\ ~stage.baseline.done /\ RowsOf(Job.argument) \cap stage.rows = {}
       THEN /\ stage' = [stage EXCEPT !.rows = @ \union RowsOf(Job.argument)]
            /\ Answer(Job.from, "ok")
       ELSE Answer(Job.from, "refused") /\ UNCHANGED stage
  /\ UNCHANGED <<dest, committing>>

RunBaselineComplete ==
  /\ JobOf("importBaselineComplete")
  /\ IF Owns(Job.from) /\ ~stage.baseline.done
       THEN /\ stage' = [stage EXCEPT !.baseline = [done |-> TRUE, position |-> Job.argument]]
            /\ Answer(Job.from, "ok")
       ELSE Answer(Job.from, "refused") /\ UNCHANGED stage
  /\ UNCHANGED <<dest, committing>>

Staged(s, status) ==
  [id |-> s.id, status |-> status, baseline |-> s.baseline.position, rows |-> s.rows,
   transactions |-> s.transactions]

StageApplies(t) ==
  Applies(Replay([position |-> stage.baseline.position, rows |-> stage.rows],
                 stage.transactions), t)

RunAppend ==
  /\ JobOf("importAppend")
  /\ IF Owns(Job.from) /\ stage.baseline.done /\ StageApplies(Job.argument)
       THEN /\ stage' = [stage EXCEPT !.transactions = Append(@, Job.argument)]
            /\ Answer(Job.from, "ok")
       ELSE Answer(Job.from, "refused") /\ UNCHANGED stage
  /\ UNCHANGED <<dest, committing>>

\* Mutant of Unused: an import replaces what is there.
UnusedAlways(id) == TRUE

Unused(id) == dest[id] = NoRecording

\* publishSnapshot, inside the destination's transaction: the declared coverage
\* is the staged one, the history is copied through the writer, which replays
\* it, and the flag is looked at again when everything is copied.
RunPublish ==
  /\ JobOf("publishImport")
  /\ LET expected == Job.argument
     IN IF /\ Owns(Job.from)
           /\ stage.baseline.done
           /\ expected.status \in Closed
           /\ InfoOf(Staged(stage, expected.status)) = expected
           /\ Unused(expected.id)
          THEN /\ committing' = Job.from
               /\ UNCHANGED <<queue, workerUp, client, store, roots, callVars, waitVars,
                              signalVars, errors>>
          ELSE Answer(Job.from, "refused") /\ UNCHANGED committing
  /\ UNCHANGED <<dest, stage>>

\* COMMIT succeeds and the session is sealed, or the transaction is undone and
\* the session can be used again.
CommitPublication ==
  /\ workerUp
  /\ committing # Nobody
  /\ dest' = [dest EXCEPT ![stage.id] =
                [by |-> committing, history |-> Staged(stage, Job.argument.status)]]
  /\ stage' = [stage EXCEPT !.sealed = TRUE]
  /\ Answer(committing, "ok")
  /\ committing' = Nobody

\* Mutant of CommitFails: the answer cannot be encoded, after COMMIT.
CommitFailsLate ==
  /\ workerUp
  /\ committing # Nobody
  /\ dest' = [dest EXCEPT ![stage.id] =
                [by |-> committing, history |-> Staged(stage, Job.argument.status)]]
  /\ Answer(committing, "refused")
  /\ committing' = Nobody
  /\ UNCHANGED stage

CommitFails ==
  /\ workerUp
  /\ committing # Nobody
  /\ Answer(committing, "refused")
  /\ committing' = Nobody
  /\ UNCHANGED <<dest, stage>>

Closes(i) == stage.by = i

RunCloseImport ==
  /\ JobOf("closeImport")
  /\ stage' = IF Closes(Job.from) THEN NoStage ELSE stage
  /\ Answer(Job.from, "ok")
  /\ UNCHANGED <<dest, committing>>

\* Any request may fail for a reason of its own (I/O, a budget).
RunFails ==
  /\ workerUp
  /\ queue # << >>
  /\ committing = Nobody
  /\ Answer(Job.from, "refused")
  /\ UNCHANGED workVars

\* Mutant of Lose: a client that fails leaves its callers waiting.
LoseNothing == UNCHANGED reply

\* fail(): what is pending is lost; the thread may run on for a while.
Lose ==
  reply' = [i \in Importers |->
              IF phase[i] = "asking" /\ reply[i] = "none" THEN "lost" ELSE reply[i]]

Timeout ==
  /\ client \in {"open", "closing"}
  /\ \E i \in Importers : phase[i] = "asking" /\ reply[i] = "none"
  /\ client' = "failed"
  /\ Lose
  /\ UNCHANGED <<workVars, queue, workerUp, store, roots, callVars, phase, asked, signalVars,
                 errors>>

\* The thread is gone: an unfinished transaction is undone, the stage with it.
WorkerGone(how) ==
  /\ workerUp' = FALSE
  /\ client' = how
  /\ queue' = << >>
  /\ stage' = NoStage
  /\ committing' = Nobody
  /\ UNCHANGED <<dest, store, roots, callVars, phase, asked, signalVars, errors>>

WorkerExits ==
  /\ workerUp
  /\ \/ client = "closing" /\ queue = << >> /\ WorkerGone("closed") /\ UNCHANGED reply
     \/ client = "failed" /\ WorkerGone("failed") /\ UNCHANGED reply

WorkerDies == workerUp /\ client \in {"open", "closing"} /\ WorkerGone("failed") /\ Lose

-----------------------------------------------------------------------------
(* The store's owner, and other writers of the store                       *)

CloseStore ==
  /\ store = "open"
  /\ store' = "closing"
  /\ client' = IF client = "open" THEN "closing" ELSE client
  /\ UNCHANGED <<workVars, queue, workerUp, roots, callVars, waitVars, signalVars, errors>>

\* After the worker, every directory still registered; a failure leaves some.
CloseDirectories ==
  /\ store = "closing"
  /\ ~workerUp
  /\ store' = "closed"
  /\ \E left \in SUBSET roots :
       /\ roots' = left
       /\ errors' = [i \in Importers |->
                       IF i \in left THEN errors[i] \union {"unremoved"} ELSE errors[i]]
  /\ UNCHANGED <<workVars, queue, workerUp, client, callVars, waitVars, signalVars>>

LocalCreates(id) ==
  /\ dest[id] = NoRecording
  /\ committing = Nobody
  /\ dest' = [dest EXCEPT ![id] = [by |-> Local]]
  /\ UNCHANGED <<stage, committing, queue, workerUp, client, store, roots, callVars, waitVars,
                 signalVars, errors>>

-----------------------------------------------------------------------------
WorkerStep ==
  \/ RunBegin \/ RunBaseline \/ RunBaselineComplete \/ RunAppend \/ RunPublish
  \/ CommitPublication \/ CommitFails \/ RunCloseImport \/ RunFails

ImporterStep(i) ==
  \/ ReadThrows(i) \/ ReadManifest(i) \/ ReadRow(i) \/ ReadCommit(i) \/ ReadEnd(i)
  \/ Answered(i) \/ CloseStage(i) \/ Discard(i) \/ Release(i)

ImportNext ==
  \/ \E i \in Importers : ImporterStep(i) \/ Abort(i)
  \/ WorkerStep \/ Timeout \/ WorkerExits \/ WorkerDies
  \/ CloseStore \/ CloseDirectories
  \/ \E id \in Ids : LocalCreates(id)

\* What happens by itself: the event loop, the client's timers, and threads
\* that were told to stop.  A worker need not answer.
ImportProceeds ==
  \/ \E i \in Importers : ImporterStep(i)
  \/ Timeout \/ WorkerExits \/ CloseDirectories

-----------------------------------------------------------------------------
PublishedBy(i, id) == dest[id].by = i

\* Publication is all or nothing and only of verified files: what an import
\* published is the history its input is the file of, to the last record, and
\* nothing is published of a file that is cut short, altered, reordered or
\* resealed with contents that do not fit together.
OnlyVerifiedPublished ==
  \A i \in Importers, id \in Ids :
    PublishedBy(i, id) =>
      LET h == dest[id].history
      IN /\ h.id = id
         /\ IsHistory(h)
         /\ \E status \in Closed \union {"recording"} :
              /\ input[i] = FileOf([h EXCEPT !.status = status])
              /\ h.status = IF status = "recording" THEN "interrupted" ELSE status

\* Existing recordings are left as they are, whoever made them (docs/
\* correctness.md: cancellation and corruption must leave them unchanged).
ExistingKept ==
  [][\A id \in Ids : dest[id] # NoRecording => dest'[id] = dest[id]]_importVars

\* What the caller is told is true.  Success means that this import published
\* its recording.  An error means that it did not, unless the answer of the
\* publication was lost or the cleanup after it failed.
OutcomeIsTrue ==
  \A i \in Importers :
    phase[i] = "settled" =>
      /\ errors[i] = {} => \E id \in Ids : PublishedBy(i, id)
      /\ (errors[i] # {} /\ errors[i] \cap {"lost", "unclean", "unremoved"} = {}) =>
           \A id \in Ids : ~PublishedBy(i, id)

\* A signal that fired before the worker decided to commit stops the
\* publication, also when it fires while the request waits or runs.  Only a
\* client that has failed leaves a worker behind that no signal reaches: there
\* the answer of the publication is lost, and the caller is told so.
CancelledNeverCommits ==
  [][\A i \in Importers :
       aborted[i] /\ client # "failed" /\ committing # i => committing' # i]_importVars

\* An import that has settled owns nothing: no session of the worker, and its
\* directory is removed unless that failed and was reported.
SettlesClean ==
  \A i \in Importers :
    phase[i] = "settled" =>
      /\ stage.by # i
      /\ i \in roots => "unremoved" \in errors[i]

\* A directory is never removed under the worker that has a database open in it.
StageHasItsDirectory == stage # NoStage => stage.by \in roots
=============================================================================
