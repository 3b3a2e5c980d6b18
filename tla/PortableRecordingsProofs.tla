---------------------- MODULE PortableRecordingsProofs -----------------------
(* What PortableRecordings promises, proved for any views, damaged files,    *)
(* importers and batch sizes: a publication is whole, verified and truthfully*)
(* reported, nothing acquired is left behind unsaid, and nothing that exists *)
(* is replaced.                                                              *)
(*                                                                           *)
(* The inductive invariant follows a record from the file to the store: the  *)
(* validation says what has been read (CheckSound), a request in the queue   *)
(* says what was read when it was asked (JobSound), the stage holds what has *)
(* been asked for (StagedSound), and the publication decided on is the first *)
(* of the queue and still possible (CommitSound).  A client that fails leaves*)
(* requests behind that nobody waits for; Given says which those are and that*)
(* their callers know that an answer was lost.                               *)
EXTENDS PortableRecordings, SequenceTheorems, TLAPS

\* Where a recording or an import has come to.
Methods == {"beginImport", "importBaseline", "importBaselineComplete", "importAppend",
            "publishImport", "closeImport"}

\* What an import may be doing, and what may be told of it.
Phases == {"idle", "reading", "asking", "ending", "discarding", "releasing", "settled"}
Reasons == {"cancelled", "fault", "invalid", "refused", "lost", "unclean", "unremoved"}

\* What a recording is, a published one and one on its way.
History ==
  [id : Ids, status : Closed, baseline : Position, rows : SUBSET Rows,
   transactions : Seq(Transaction)]

\* What may be under an id: nothing, a local recording, or an import's.
Recorded ==
  {NoRecording} \union [by : {Local}] \union [by : Importers, history : History]

\* A worker's import.
Stage ==
  [by : Importers, id : Ids, rows : SUBSET Rows, transactions : Seq(Transaction),
   sealed : BOOLEAN,
   baseline : [done : {FALSE}] \union [done : {TRUE}, position : Position]]

\* A RecordingValidation.
Checking ==
  [kind : {"validation"}, info : Info, rows : Seq(Rows), transactions : Nat,
   position : Position, baselineDone : BOOLEAN]

\* A request, and what it carries.
Arguments == Ids \union Seq(Rows) \union Position \union Transaction \union Info
Requests == [from : Importers, method : Methods, argument : Arguments]

\* A call of an import waits for a request.
Waits(i, method) == phase[i] = "asking" /\ asked[i] = method

\* What a validation says of the records of a file that have been read, and the
\* transactions among them, in the order of the file.
Checked(file, c, n) ==
  /\ n = 1 + Len(c.rows) + c.transactions
  /\ n <= Len(file.records)
  /\ file.records[1].kind = "manifest"
  /\ file.records[1].info = c.info
  /\ c.info.status # "bootstrapping"
  /\ \A k \in 1 .. Len(c.rows) : file.records[1 + k] = RowRecord(c.rows[k])
  /\ \A j \in 1 .. c.transactions : file.records[1 + Len(c.rows) + j].kind = "transaction"
  /\ c.transactions > 0 => c.baselineDone
  /\ c.baselineDone => c.rows = c.info.checksum

\* The transactions among the records that have been read.
Commits(file, c) ==
  [j \in 1 .. c.transactions |-> file.records[1 + Len(c.rows) + j].transaction]

\* Those an import has read.
Consumed(i) == Commits(input[i], check[i])

-----------------------------------------------------------------------------

\* The export is somewhere in its course.
ExportTypes ==
  /\ step \in {"idle", "pinned", "created", "writing", "synced", "closed", "released",
               "cleaning", "settled"}
  /\ handle \in BOOLEAN /\ lease \in BOOLEAN /\ cancelled \in BOOLEAN
  /\ failures \subseteq {"cancelled", "failed", "exists", "unremoved", "unclosed"}

\* What is exported is one of the views, and the temporary file a part of it.
ExportSound ==
  /\ step \in {"pinned", "created", "writing", "synced", "closed", "released"} =>
       failures = {} /\ target \in {Exports!Absent, Exports!Foreign}
  /\ step = "idle" => failures = {} /\ target \in {Exports!Absent, Exports!Foreign}
  /\ step # "idle" /\ failures = {} => \E h \in Views : view \in Exports!Exportable(h)
  /\ step = "writing" =>
       \/ tempdir = Exports!FileOf(view)
       \/ \E n \in 0 .. Len(Exports!Records(view)) :
            tempdir = Exports!Unfinished(SubSeq(Exports!Records(view), 1, n))
  /\ step \in {"synced", "closed", "released"} => tempdir = Exports!FileOf(view)
  /\ Exports!TargetComplete
  /\ step \in {"cleaning", "settled"} /\ failures = {} => target = Exports!FileOf(view)
  /\ step = "settled" =>
       ~handle /\ ~lease /\ (tempdir = Exports!Absent \/ "unremoved" \in failures)

-----------------------------------------------------------------------------

\* The store, its worker and its client.
WorkerTypes ==
  /\ dest \in [Ids -> Recorded]
  /\ stage \in Stage \union {NoStage}
  /\ committing \in Importers \union {Nobody}
  /\ queue \in Seq(Requests)
  /\ workerUp \in BOOLEAN
  /\ client \in {"open", "closing", "closed", "failed"}
  /\ store \in {"open", "closing", "closed"}
  /\ roots \subseteq Importers

\* What the imports have read.
CallTypes ==
  /\ input \in [Importers -> File \union {NoFile}]
  /\ at \in [Importers -> Nat]
  /\ check \in [Importers -> Checking \union {NoValidation}]
  /\ batch \in [Importers -> Seq(Rows)]
  /\ \A i \in Importers : Len(batch[i]) <= BatchRows
  /\ baselined \in [Importers -> BOOLEAN]
  /\ opened \in [Importers -> BOOLEAN]

\* What they wait for, and what they have been told.
WaitTypes ==
  /\ phase \in [Importers -> Phases]
  /\ asked \in [Importers -> Methods \union {"none"}]
  /\ reply \in [Importers -> {"none", "ok", "refused", "lost"}]
  /\ aborted \in [Importers -> BOOLEAN]
  /\ flag \in [Importers -> BOOLEAN]
  /\ errors \in [Importers -> SUBSET Reasons]

\* The worker's import is one an importer asked for, its baseline done before its
\* transactions, which fit together.
StageSound ==
  stage # NoStage =>
    /\ workerUp
    /\ stage.by \in roots
    /\ ~stage.baseline.done => stage.transactions = << >>
    /\ stage.baseline.done =>
         Consistent([position |-> stage.baseline.position, rows |-> stage.rows],
                    stage.transactions)

\* Without a worker the client is at its end and nothing is queued.
ClientSound == ~workerUp => client \in {"closed", "failed"} /\ queue = << >>

\* The validation says what has been read.
CheckSound(i) ==
  /\ check[i] = NoValidation /\ phase[i] \in {"idle", "reading"} => at[i] = 0
  /\ check[i] # NoValidation => input[i] \in File /\ Checked(input[i], check[i], at[i])

\* Where an import stands, and what the worker has of it.
PhaseSound(i) ==
  /\ phase[i] = "asking" <=> asked[i] # "none"
  /\ reply[i] # "none" => phase[i] = "asking"
  /\ reply[i] = "lost" => client # "open"
  /\ phase[i] = "idle" => input[i] = NoFile /\ ~opened[i] /\ check[i] = NoValidation
  /\ phase[i] # "idle" => input[i] \in File
  /\ phase[i] \in {"idle", "reading"} /\ ~opened[i] =>
       check[i] = NoValidation /\ i \notin roots /\ stage.by # i
  /\ phase[i] = "reading" /\ opened[i] => check[i] # NoValidation
  /\ phase[i] \in {"ending", "asking"} => check[i] # NoValidation
  /\ phase[i] = "ending" \/ (phase[i] = "asking" /\ asked[i] # "beginImport") => opened[i]
  /\ workerUp /\ check[i] # NoValidation /\ phase[i] \notin {"releasing", "settled"} =>
       i \in roots
  /\ Waits(i, "beginImport") => check[i].transactions = 0
  /\ Waits(i, "beginImport") /\ reply[i] = "refused" => stage.by # i
  /\ Waits(i, "closeImport") /\ reply[i] = "ok" => stage.by # i
  /\ phase[i] \in {"releasing", "settled"} => stage.by # i
  /\ phase[i] = "settled" /\ i \in roots => "unremoved" \in errors[i]

\* A request in the queue is waited for, or was given up with the client.
Given(i, method) ==
  \/ /\ client # "failed"
     /\ Waits(i, method) /\ reply[i] = "none"
  \/ /\ client = "failed"
     /\ \/ Waits(i, method) /\ reply[i] = "lost"
        \/ /\ \/ phase[i] \in {"ending", "discarding"}
              \/ Waits(i, "closeImport") /\ reply[i] = "lost"
           /\ "lost" \in errors[i] \/ "unclean" \in errors[i]

\* What the request asks for is what its import has read.
Meant(i, method, argument) ==
  /\ method = "beginImport" =>
       argument = check[i].info.id /\ check[i].transactions = 0 /\ stage.by # i
  /\ method = "importBaseline" => argument \in Seq(Rows)
  /\ method = "importBaselineComplete" => argument \in Position
  /\ method = "importAppend" =>
       /\ argument \in Transaction
       /\ check[i].transactions > 0
       /\ argument = Consumed(i)[check[i].transactions]
  /\ method = "publishImport" =>
       /\ argument = Expected(check[i].info)
       /\ input[i].header /\ Sealed(input[i]) /\ Complete(check[i])
       /\ at[i] = Len(input[i].records)
       /\ stage.by = i => stage.transactions = Consumed(i)

\* A request is that of an import with a directory, which knows what it asked,
\* and whose signal has reached the worker's flag.
JobSound(r) ==
  /\ r.from \in roots
  /\ check[r.from] # NoValidation
  /\ Given(r.from, r.method)
  /\ r.method # "closeImport" /\ client # "failed" /\ aborted[r.from] => flag[r.from]
  /\ Meant(r.from, r.method, r.argument)

\* What is in the queue, from every import once.
Queued == {queue[k] : k \in 1 .. Len(queue)}

\* All of the queue is sound, and no import is in it twice.
QueueSound ==
  /\ \A r \in Queued : JobSound(r)
  /\ \A k, l \in 1 .. Len(queue) : queue[k].from = queue[l].from => k = l

\* What has been staged is what has been read, but for a transaction on its way.
StagedSound(i) ==
  stage.by = i /\ (phase[i] = "reading"
                   \/ (phase[i] = "asking" /\ asked[i] # "closeImport" /\ reply[i] \in {"none", "ok"})) =>
    stage.transactions =
      IF Waits(i, "importAppend") /\ reply[i] = "none"
        THEN SubSeq(Consumed(i), 1, check[i].transactions - 1)
        ELSE Consumed(i)

\* The publication that has been decided on is the first of the queue, and can
\* still be made.
CommitSound ==
  committing # Nobody =>
    /\ workerUp
    /\ queue # << >> /\ queue[1].from = committing /\ queue[1].method = "publishImport"
    /\ stage.by = committing /\ stage.baseline.done
    /\ queue[1].argument.status \in Closed
    /\ InfoOf(Staged(stage, queue[1].argument.status)) = queue[1].argument
    /\ dest[stage.id] = NoRecording

\* An import that will not publish any more, and one that has.
Over(i) == phase[i] \in {"ending", "discarding", "releasing", "settled"} \/ Waits(i, "closeImport")
Published(i) == \E id \in Ids : PublishedBy(i, id)

\* What an import has been told fits what was published.
OutcomeSound(i) ==
  /\ ~Over(i) => errors[i] \subseteq {"unremoved"}
  /\ Published(i) => Over(i) \/ (Waits(i, "publishImport") /\ reply[i] \in {"ok", "lost"})
  /\ Published(i) /\ Over(i) =>
       errors[i] = {} \/ errors[i] \cap {"lost", "unclean", "unremoved"} # {}
  /\ Over(i) /\ errors[i] = {} => Published(i)
  /\ Waits(i, "publishImport") /\ reply[i] = "ok" => Published(i)

\* All that is true of an import by itself.
ImportSound(i) == CheckSound(i) /\ PhaseSound(i) /\ StagedSound(i) /\ OutcomeSound(i)

\* What the state of the importing side is made of.
ImportTypes == WorkerTypes /\ CallTypes /\ WaitTypes

\* All that is true of the importing side.
ImportsInv ==
  /\ ImportTypes
  /\ StageSound /\ ClientSound
  /\ \A i \in Importers : ImportSound(i)
  /\ QueueSound /\ CommitSound
  /\ OnlyVerifiedPublished

\* The inductive invariant.
PortableInv == ExportTypes /\ ExportSound /\ ImportsInv

-----------------------------------------------------------------------------
(* Types                                                                     *)

\* Calls, and what stands for none.
LEMMA Names ==
  /\ Nobody \notin Importers /\ Local \notin Importers
  /\ NoStage.by = Nobody /\ NoRecording.by = Nobody
  /\ NoValidation \notin Checking
  /\ NoStage \notin Stage
BY ImportersAssumption DEF Nobody, Local, NoStage, NoRecording, NoValidation, Checking, Stage

\* What the state is made of, importer by importer.
LEMMA Typed ==
  ASSUME ImportTypes, NEW i \in Importers
  PROVE  /\ input[i] \in File \union {NoFile} /\ at[i] \in Nat
         /\ check[i] \in Checking \union {NoValidation}
         /\ batch[i] \in Seq(Rows) /\ Len(batch[i]) <= BatchRows
         /\ baselined[i] \in BOOLEAN /\ opened[i] \in BOOLEAN
         /\ phase[i] \in Phases /\ asked[i] \in Methods \union {"none"}
         /\ reply[i] \in {"none", "ok", "refused", "lost"}
         /\ aborted[i] \in BOOLEAN /\ flag[i] \in BOOLEAN /\ errors[i] \in SUBSET Reasons
  BY DEF ImportTypes, CallTypes, WaitTypes

\* A validation and what is in it.
LEMMA CheckTyped ==
  ASSUME ImportTypes, NEW i \in Importers, check[i] # NoValidation
  PROVE  /\ check[i] \in Checking
         /\ check[i].info \in Info /\ check[i].rows \in Seq(Rows) /\ Len(check[i].rows) \in Nat
         /\ check[i].transactions \in Nat /\ check[i].position \in Position
         /\ check[i].baselineDone \in BOOLEAN
  <1>1. check[i] \in Checking
    BY Typed
  <1> QED
    BY <1>1 DEF Checking

\* A record of a file is of the kind it says.
LEMMA FileTyped ==
  ASSUME NEW file \in File
  PROVE  /\ file.header \in BOOLEAN /\ file.more \in BOOLEAN
         /\ file.records \in Seq(FileRecord) /\ Len(file.records) \in Nat
         /\ \A k \in 1 .. Len(file.records) :
              LET record == file.records[k]
              IN /\ record \in FileRecord
                 /\ record.kind = "manifest" => record = Manifest(record.info) /\ record.info \in Info
                 /\ record.kind = "baseline" => record = RowRecord(record.row) /\ record.row \in Rows
                 /\ record.kind = "transaction" =>
                      /\ record = CommitRecord(record.transaction)
                      /\ record.transaction \in Transaction
  <1>1. file.records \in Seq(FileRecord) /\ file.header \in BOOLEAN /\ file.more \in BOOLEAN
    BY DEF File
  <1>2. ASSUME NEW record \in FileRecord
        PROVE  /\ record.kind = "manifest" => record = Manifest(record.info) /\ record.info \in Info
               /\ record.kind = "baseline" => record = RowRecord(record.row) /\ record.row \in Rows
               /\ record.kind = "transaction" =>
                    /\ record = CommitRecord(record.transaction)
                    /\ record.transaction \in Transaction
    BY DEF FileRecord, Manifest, RowRecord, CommitRecord
  <1> QED
    BY <1>1, <1>2

-----------------------------------------------------------------------------
(* Reading a file                                                            *)

\* What comes next.
LEMMA NextPlace ==
  ASSUME NEW w \in Nat, NEW n \in Nat, NEW l \in Nat, NEW p, p = 1 + w + n
  PROVE  /\ p \in Nat /\ p + 1 = 1 + w + (n + 1) /\ p + 1 = 1 + (w + 1) + n
         /\ p < l => p + 1 \in 1 .. l /\ p + 1 <= l
         /\ p <= l => \A j \in 1 .. n : 1 + w + j \in 1 .. l
         /\ n = 0 => p + 1 = 1 + (w + 1)
  OBVIOUS

\* Of transactions: what comes before the last.
LEMMA AllButLast ==
  ASSUME NEW n \in Nat, NEW s \in Seq(Transaction), Len(s) = n,
         NEW u \in Seq(Transaction), Len(u) = n + 1, \A j \in 1 .. n : u[j] = s[j]
  PROVE  s = SubSeq(u, 1, n) /\ u = Append(s, u[n + 1])
<1>1. \A j \in 1 .. n + 1 : u[j] \in Transaction
  BY ElementOfSeq
<1>2. /\ SubSeq(u, 1, n) \in Seq(Transaction) /\ Len(SubSeq(u, 1, n)) = n
      /\ \A j \in 1 .. n : SubSeq(u, 1, n)[j] = u[j]
  BY <1>1, SubSeqProperties
<1>3. /\ Append(s, u[n + 1]) \in Seq(Transaction) /\ Len(Append(s, u[n + 1])) = n + 1
      /\ \A j \in 1 .. n + 1 : Append(s, u[n + 1])[j] = u[j]
  <2>1. u[n + 1] \in Transaction
    BY <1>1
  <2> QED
    BY <2>1, AppendProperties
<1>4. s = SubSeq(u, 1, n)
  BY <1>2, SeqEqual
<1>5. u = Append(s, u[n + 1])
  BY <1>3, SeqEqual
<1> QED
  BY <1>4, <1>5

\* What is in a validation.
LEMMA CheckingTyped ==
  ASSUME NEW c \in Checking
  PROVE  /\ c.info \in Info /\ c.rows \in Seq(Rows) /\ Len(c.rows) \in Nat
         /\ c.transactions \in Nat /\ c.position \in Position /\ c.baselineDone \in BOOLEAN
         /\ c.info.checksum \in Seq(Rows)
  BY DEF Checking, Info

\* The transactions that have been read are transactions.
LEMMA CommitsTyped ==
  ASSUME NEW file \in File, NEW c \in Checking, NEW p, Checked(file, c, p)
  PROVE  /\ Commits(file, c) \in Seq(Transaction) /\ Len(Commits(file, c)) = c.transactions
         /\ \A j \in 1 .. c.transactions :
              /\ Commits(file, c)[j] \in Transaction
              /\ file.records[1 + Len(c.rows) + j] = CommitRecord(Commits(file, c)[j])
<1> DEFINE n == c.transactions  w == Len(c.rows)  s == Commits(file, c)
<1>1. n \in Nat /\ w \in Nat /\ Len(file.records) \in Nat
  BY CheckingTyped, FileTyped
<1>2. \A j \in 1 .. n : 1 + w + j \in 1 .. Len(file.records)
  BY <1>1, NextPlace DEF Checked
<1>3. \A j \in 1 .. n : file.records[1 + w + j].kind = "transaction"
  BY DEF Checked
<1>4. \A j \in 1 .. n : /\ file.records[1 + w + j].transaction \in Transaction
                         /\ file.records[1 + w + j] = CommitRecord(file.records[1 + w + j].transaction)
  BY <1>2, <1>3, FileTyped
<1>5. s = [j \in 1 .. n |-> file.records[1 + w + j].transaction]
  BY DEF Commits
<1> HIDE DEF n, w, s
<1>6. s \in [1 .. n -> Transaction] /\ \A j \in 1 .. n : s[j] = file.records[1 + w + j].transaction
  BY <1>4, <1>5
<1>7. s \in Seq(Transaction)
  BY <1>1, <1>6, SeqDef
<1>8. Len(s) = n
  <2>1. Len(s) \in Nat /\ 1 .. Len(s) = 1 .. n
    BY <1>6, <1>7, LenProperties
  <2> QED
    BY <1>1, <2>1
<1>9. /\ s \in Seq(Transaction) /\ Len(s) = n
      /\ \A j \in 1 .. n : s[j] \in Transaction /\ file.records[1 + w + j] = CommitRecord(s[j])
  BY <1>4, <1>6, <1>7, <1>8
<1> QED
  BY <1>9 DEF n, w, s

\* A manifest begins it.
LEMMA ManifestChecked ==
  ASSUME NEW file \in File, Len(file.records) >= 1, AcceptsManifest(file.records[1]),
         NEW info, info = file.records[1].info
  PROVE  /\ info \in Info /\ Validation(info) \in Checking
         /\ Checked(file, Validation(info), 1) /\ Commits(file, Validation(info)) = << >>
         /\ Validation(info).info = info /\ Validation(info).transactions = 0
<1>1. info \in Info /\ info.status # "bootstrapping" /\ file.records[1].kind = "manifest"
  BY FileTyped DEF AcceptsManifest
<1>2. Validation(info) \in Checking
  BY <1>1 DEF Validation, Checking, Info
<1>3. /\ Validation(info).rows = << >> /\ Validation(info).transactions = 0
      /\ Validation(info).info = info /\ ~Validation(info).baselineDone
  BY DEF Validation
<1>4. Checked(file, Validation(info), 1)
  BY <1>1, <1>3 DEF Checked
<1>5. Commits(file, Validation(info)) = << >>
  BY <1>3 DEF Commits
<1> QED
  BY <1>1, <1>2, <1>3, <1>4, <1>5

\* A row that is accepted goes on with it.
LEMMA RowChecked ==
  ASSUME NEW file \in File, NEW c \in Checking, NEW p, Checked(file, c, p), p < Len(file.records),
         NEW record, record = file.records[p + 1], AcceptsRow(c, record)
  PROVE  /\ record.row \in Rows /\ WithRow(c, record) \in Checking
         /\ Checked(file, WithRow(c, record), p + 1)
         /\ Commits(file, c) = << >> /\ Commits(file, WithRow(c, record)) = << >>
<1> DEFINE w == Len(c.rows)  d == WithRow(c, record)
<1>1. /\ w \in Nat /\ c.transactions = 0 /\ Len(file.records) \in Nat /\ c.rows \in Seq(Rows)
      /\ p = 1 + w + 0 /\ ~c.baselineDone /\ record.kind = "baseline"
  BY CheckingTyped, FileTyped DEF Checked, AcceptsRow
<1>2. p + 1 = 1 + (w + 1) /\ p + 1 \in 1 .. Len(file.records) /\ p + 1 <= Len(file.records)
      /\ p + 1 = 1 + (w + 1) + 0
  BY <1>1, NextPlace
<1>3. record = RowRecord(record.row) /\ record.row \in Rows
  BY <1>1, <1>2, FileTyped
<1>4. /\ Append(c.rows, record.row) \in Seq(Rows)
      /\ Len(Append(c.rows, record.row)) = w + 1
      /\ \A k \in 1 .. w : Append(c.rows, record.row)[k] = c.rows[k]
      /\ Append(c.rows, record.row)[w + 1] = record.row
  BY <1>1, <1>3, AppendProperties
<1>5. d \in Checking
  BY <1>4 DEF WithRow, Checking
<1>6. /\ d.rows = Append(c.rows, record.row) /\ d.info = c.info /\ d.transactions = 0
      /\ ~d.baselineDone
  BY <1>1 DEF WithRow, Checking
<1>7. \A k \in 1 .. w + 1 : file.records[1 + k] = RowRecord(Append(c.rows, record.row)[k])
  <2>1. \A k \in 1 .. w : file.records[1 + k] = RowRecord(c.rows[k])
    BY DEF Checked
  <2>2. \A k \in 1 .. w + 1 : k \in 1 .. w \/ k = w + 1
    BY <1>1
  <2>3. file.records[1 + (w + 1)] = RowRecord(record.row)
    BY <1>2, <1>3
  <2> QED
    BY <1>4, <2>1, <2>2, <2>3
<1>8. Checked(file, d, p + 1)
  <2>1. /\ file.records[1].kind = "manifest" /\ file.records[1].info = c.info
        /\ c.info.status # "bootstrapping"
    BY DEF Checked
  <2>2. Len(d.rows) = w + 1
    BY <1>4, <1>6
  <2> HIDE DEF w, d
  <2> QED
    BY <1>2, <1>6, <1>7, <2>1, <2>2 DEF Checked
<1>9. Commits(file, c) = << >> /\ Commits(file, d) = << >>
  BY <1>1, <1>6 DEF Commits
<1> QED
  BY <1>3, <1>5, <1>8, <1>9

\* And so does a transaction.
LEMMA CommitChecked ==
  ASSUME NEW file \in File, NEW c \in Checking, NEW p, Checked(file, c, p), p < Len(file.records),
         NEW record, record = file.records[p + 1], AcceptsCommit(c, record)
  PROVE  LET d == WithCommit(c, record)  t == record.transaction
         IN /\ t \in Transaction /\ d \in Checking /\ Checked(file, d, p + 1)
            /\ d.transactions > 0 /\ d.transactions \in Nat
            /\ Commits(file, c) = SubSeq(Commits(file, d), 1, d.transactions - 1)
            /\ Commits(file, d)[d.transactions] = t
<1> DEFINE w == Len(c.rows)  n == c.transactions  t == record.transaction
           d == WithCommit(c, record)  s == Commits(file, c)  u == Commits(file, d)
<1>1. /\ w \in Nat /\ n \in Nat /\ Len(file.records) \in Nat /\ p = 1 + w + n
      /\ record.kind = "transaction"
  BY CheckingTyped, FileTyped DEF Checked, AcceptsCommit
<1>2. p + 1 = 1 + w + (n + 1) /\ p + 1 \in 1 .. Len(file.records) /\ p + 1 <= Len(file.records)
  BY <1>1, NextPlace
<1>3. record = CommitRecord(t) /\ t \in Transaction /\ t.position \in Position
  BY <1>1, <1>2, FileTyped DEF Transaction
<1>4. c.rows = c.info.checksum
  BY CheckingTyped DEF AcceptsCommit, BaselineComplete, Checked
<1>5. d \in Checking
  <2>1. [c EXCEPT !.transactions = n + 1] \in Checking
    BY <1>1 DEF Checking
  <2>2. [c EXCEPT !.transactions = n + 1, !.position = t.position] \in Checking
    BY <1>3, <2>1 DEF Checking
  <2> QED
    BY <2>2 DEF Checking, WithCommit
<1>6. /\ d.rows = c.rows /\ d.info = c.info /\ d.transactions = n + 1 /\ d.baselineDone
  BY DEF WithCommit, Checking
<1>7. \A j \in 1 .. n + 1 : file.records[1 + w + j].kind = "transaction"
  <2>1. \A j \in 1 .. n : file.records[1 + w + j].kind = "transaction"
    BY DEF Checked
  <2>2. \A j \in 1 .. n + 1 : j \in 1 .. n \/ j = n + 1
    BY <1>1
  <2>3. file.records[1 + w + (n + 1)].kind = "transaction"
    BY <1>1, <1>2
  <2> QED
    BY <2>1, <2>2, <2>3
<1>8. Checked(file, d, p + 1)
  <2>1. /\ file.records[1].kind = "manifest" /\ file.records[1].info = c.info
        /\ c.info.status # "bootstrapping"
        /\ \A k \in 1 .. w : file.records[1 + k] = RowRecord(c.rows[k])
    BY DEF Checked
  <2>2. Len(d.rows) = w
    BY <1>6
  <2> HIDE DEF w, n, d
  <2> QED
    BY <1>1, <1>2, <1>4, <1>6, <1>7, <2>1, <2>2 DEF Checked
<1>9. /\ s \in Seq(Transaction) /\ Len(s) = n /\ u \in Seq(Transaction) /\ Len(u) = n + 1
  BY <1>5, <1>6, <1>8, CommitsTyped
<1>10. /\ \A j \in 1 .. n : s[j] = file.records[1 + w + j].transaction
       /\ \A j \in 1 .. n + 1 : u[j] = file.records[1 + w + j].transaction
  BY <1>6 DEF Commits
<1>11. u[n + 1] = t
  <2>1. n + 1 \in 1 .. n + 1
    BY <1>1
  <2> QED
    BY <2>1, <1>2, <1>10
<1> HIDE DEF w, n, t, d, s, u
<1>12. \A j \in 1 .. n : u[j] = s[j]
  <2>1. \A j \in 1 .. n : j \in 1 .. n + 1
    BY <1>1
  <2> QED
    BY <2>1, <1>10
<1>13. s = SubSeq(u, 1, n)
  BY <1>1, <1>9, <1>12, AllButLast
<1>14. d.transactions > 0 /\ d.transactions \in Nat /\ d.transactions - 1 = n
  BY <1>1, <1>6
<1>15. /\ t \in Transaction /\ d \in Checking /\ Checked(file, d, p + 1)
       /\ s = SubSeq(u, 1, d.transactions - 1) /\ u[d.transactions] = t
  BY <1>3, <1>5, <1>8, <1>6, <1>11, <1>13, <1>14
<1> QED
  BY <1>14, <1>15 DEF w, n, t, d, s, u

-----------------------------------------------------------------------------
(* What a step leaves alone                                                  *)

\* Nothing of an import's own has changed.
Same(i) ==
  /\ input'[i] = input[i] /\ at'[i] = at[i] /\ check'[i] = check[i] /\ opened'[i] = opened[i]
  /\ phase'[i] = phase[i] /\ asked'[i] = asked[i] /\ reply'[i] = reply[i]
  /\ errors'[i] = errors[i]

\* Nor anything the worker and the store have of it.
Apart(i) ==
  /\ stage'.by = i => stage.by = i /\ stage'.transactions = stage.transactions
  /\ client # "open" => client' # "open"
  /\ i \in roots' <=> i \in roots
  /\ workerUp' => workerUp
  /\ \A id \in Ids : dest'[id].by = i <=> dest[id].by = i

\* Such an import is as sound as it was.
LEMMA ApartSound ==
  ASSUME NEW i \in Importers, ImportSound(i), Same(i), Apart(i)
  PROVE  ImportSound(i)'
<1> USE DEF Same, Apart, Waits, Consumed
<1>1. CheckSound(i)'
  BY DEF ImportSound, CheckSound
<1>2. PhaseSound(i)'
  BY DEF ImportSound, PhaseSound
<1>3. StagedSound(i)'
  BY DEF ImportSound, StagedSound
<1>4. OutcomeSound(i)'
  <2>1. Over(i)' <=> Over(i)
    BY DEF Over
  <2>2. Published(i)' <=> Published(i)
    BY DEF Published, PublishedBy
  <2> QED
    BY <2>1, <2>2 DEF ImportSound, OutcomeSound
<1> QED
  BY <1>1, <1>2, <1>3, <1>4 DEF ImportSound

\* What it has asked for is still what it has read, ...
LEMMA MeantKept ==
  ASSUME NEW i, NEW m, NEW a, Meant(i, m, a),
         input'[i] = input[i], at'[i] = at[i], check'[i] = check[i],
         stage'.by = i => stage.by = i /\ stage'.transactions = stage.transactions
  PROVE  Meant(i, m, a)'
<1>1. Consumed(i)' = Consumed(i)
  BY DEF Consumed
<1>2. Sealed(input[i])' <=> Sealed(input[i])
  BY DEF Sealed, Trailer
<1>3. Complete(check[i])' <=> Complete(check[i])
  BY DEF Complete, BaselineComplete
<1>4. Expected(check[i].info)' = Expected(check[i].info)
  BY DEF Expected
<1> QED
  BY <1>1, <1>2, <1>3, <1>4 DEF Meant

\* ... and its request, wherever it has moved to, what it was.
LEMMA JobKept ==
  ASSUME NEW r, JobSound(r), Same(r.from), Apart(r.from),
         aborted'[r.from] = aborted[r.from], flag'[r.from] = flag[r.from],
         client' = "failed" <=> client = "failed"
  PROVE  JobSound(r)'
<1>1. Given(r.from, r.method)'
  BY DEF JobSound, Given, Same, Waits
<1>2. Meant(r.from, r.method, r.argument)'
  BY MeantKept DEF JobSound, Same, Apart
<1> QED
  BY <1>1, <1>2 DEF JobSound, Same, Apart

-----------------------------------------------------------------------------
(* A step of an import                                                       *)

\* The other imports are left alone.
Beside(i) ==
  \A j \in Importers \ {i} :
    Same(j) /\ aborted'[j] = aborted[j] /\ flag'[j] = flag[j] /\ (j \in roots' <=> j \in roots)

\* What is published is what was published, by whom it was.
LEMMA DestKept ==
  ASSUME OnlyVerifiedPublished, dest' = dest,
         \A i \in Importers : input'[i] = input[i] \/ ~Published(i)
  PROVE  OnlyVerifiedPublished'
<1> SUFFICES ASSUME NEW i \in Importers, NEW id \in Ids, PublishedBy(i, id)'
             PROVE  (LET h == dest[id].history
                     IN /\ h.id = id
                        /\ IsHistory(h)
                        /\ \E status \in Closed \union {"recording"} :
                             /\ input[i] = FileOf([h EXCEPT !.status = status])
                             /\ h.status = IF status = "recording" THEN "interrupted" ELSE status)'
  BY DEF OnlyVerifiedPublished
<1>1. PublishedBy(i, id)
  BY DEF PublishedBy
<1>2. input'[i] = input[i]
  BY <1>1 DEF Published
<1>3. LET h == dest[id].history
      IN /\ h.id = id
         /\ IsHistory(h)
         /\ \E status \in Closed \union {"recording"} :
              /\ input[i] = FileOf([h EXCEPT !.status = status])
              /\ h.status = IF status = "recording" THEN "interrupted" ELSE status
  BY <1>1 DEF OnlyVerifiedPublished
<1> QED
  BY <1>2, <1>3

\* What is queued is a request of an import.
LEMMA QueuedTyped ==
  ASSUME ImportsInv, NEW r \in Queued
  PROVE  /\ r \in Requests /\ r.from \in Importers /\ r.method \in Methods
         /\ JobSound(r)
<1>1. PICK k \in 1 .. Len(queue) : r = queue[k]
  BY DEF Queued
<1>2. queue \in Seq(Requests)
  BY DEF ImportsInv, ImportTypes, WorkerTypes
<1>3. r \in Requests
  BY <1>1, <1>2, ElementOfSeq
<1> QED
  BY <1>3 DEF Requests, ImportsInv, QueueSound

\* A step of an import that leaves it sound, and with it what it has asked for,
\* keeps everything that was sound.
LEMMA ImporterKeeps ==
  ASSUME ImportsInv, NEW i \in Importers, ImportTypes', Beside(i), ImportSound(i)',
         UNCHANGED <<dest, stage, committing, workerUp>>,
         client # "open" => client' # "open",
         client' = "failed" <=> client = "failed",
         ~workerUp => client' = client,
         stage.by = i => i \in roots',
         input'[i] = input[i] \/ ~Published(i),
         \/ queue' = queue /\ \A r \in Queued : r.from = i => JobSound(r)'
         \/ /\ workerUp
            /\ \A r \in Queued : r.from # i
            /\ \E r \in Requests : r.from = i /\ queue' = Append(queue, r) /\ JobSound(r)'
  PROVE  ImportsInv'
<1>1. StageSound'
  BY Names DEF ImportsInv, StageSound, Beside, ImportTypes, WorkerTypes, Stage
<1>2. queue \in Seq(Requests) /\ queue' \in Seq(Requests) /\ Len(queue) \in Nat
  BY DEF ImportsInv, ImportTypes, WorkerTypes
<1>3. ClientSound'
  BY <1>2 DEF ImportsInv, ClientSound
<1>4. ASSUME NEW j \in Importers PROVE ImportSound(j)'
  <2>1. CASE j = i
    BY <2>1
  <2>2. CASE j # i
    <3>1. Same(j) /\ Apart(j)
      BY <2>2 DEF Beside, Apart
    <3> QED
      BY <3>1, ApartSound DEF ImportsInv
  <2> QED
    BY <2>1, <2>2
<1>5. ASSUME NEW r \in Queued, r.from # i PROVE JobSound(r)'
  <2>1. r \in Requests /\ r.from \in Importers /\ JobSound(r)
    BY <1>5, QueuedTyped
  <2>2. /\ Same(r.from) /\ Apart(r.from)
        /\ aborted'[r.from] = aborted[r.from] /\ flag'[r.from] = flag[r.from]
    BY <1>5, <2>1 DEF Beside, Apart
  <2> QED
    BY <2>1, <2>2, JobKept
<1>6. QueueSound'
  <2>1. CASE queue' = queue /\ \A r \in Queued : r.from = i => JobSound(r)'
    BY <2>1, <1>5 DEF ImportsInv, QueueSound, Queued
  <2>2. CASE /\ workerUp
             /\ \A r \in Queued : r.from # i
             /\ \E r \in Requests : r.from = i /\ queue' = Append(queue, r) /\ JobSound(r)'
    <3>1. PICK q \in Requests : q.from = i /\ queue' = Append(queue, q) /\ JobSound(q)'
      BY <2>2
    <3>2. /\ Len(queue') = Len(queue) + 1 /\ queue'[Len(queue) + 1] = q
          /\ \A k \in 1 .. Len(queue) : queue'[k] = queue[k]
      BY <3>1, <1>2, AppendProperties
    <3>3. \A k \in 1 .. Len(queue') : k \in 1 .. Len(queue) \/ k = Len(queue) + 1
      BY <3>2, <1>2
    <3>4. \A r \in Queued' : r \in Queued \/ r = q
      BY <3>2, <3>3 DEF Queued
    <3>5. \A r \in Queued' : JobSound(r)'
      BY <3>1, <3>4, <2>2, <1>5
    <3>6. \A k, l \in 1 .. Len(queue') : queue'[k].from = queue'[l].from => k = l
      BY <3>1, <3>2, <3>3, <2>2 DEF ImportsInv, QueueSound, Queued
    <3> QED
      BY <3>5, <3>6 DEF QueueSound
  <2> QED
    BY <2>1, <2>2
<1>7. CommitSound'
  <2>1. queue # << >> => queue' # << >> /\ queue'[1] = queue[1]
    BY <1>2
  <2> QED
    BY <2>1 DEF ImportsInv, CommitSound
<1>8. OnlyVerifiedPublished'
  BY DestKept DEF ImportsInv, Beside, Same
<1> QED
  BY <1>1, <1>3, <1>4, <1>6, <1>7, <1>8 DEF ImportsInv

\* What Go, Report, Throw and Ask do to what an import waits for.
LEMMA ThrowFacts ==
  ASSUME ImportTypes, NEW i \in Importers, NEW what \in Reasons, Throw(i, what)
  PROVE  /\ phase' \in [Importers -> Phases] /\ errors' \in [Importers -> SUBSET Reasons]
         /\ phase'[i] = IF opened[i] THEN "ending" ELSE "settled"
         /\ errors'[i] = errors[i] \union {what}
         /\ \A j \in Importers \ {i} : phase'[j] = phase[j] /\ errors'[j] = errors[j]
         /\ UNCHANGED <<queue, asked, reply, flag>>
  BY DEF Throw, Report, Go, ImportTypes, WaitTypes, Phases

\* ... to a request, ...
LEMMA AskFacts ==
  ASSUME ImportTypes, NEW i \in Importers, NEW m \in Methods, NEW a, Ask(i, m, a)
  PROVE  /\ phase' \in [Importers -> Phases] /\ asked' \in [Importers -> Methods \union {"none"}]
         /\ reply' \in [Importers -> {"none", "ok", "refused", "lost"}]
         /\ phase'[i] = "asking" /\ asked'[i] = m
         /\ client = "open" =>
              /\ reply' = reply
              /\ queue' = Append(queue, [from |-> i, method |-> m, argument |-> a])
         /\ client # "open" => reply'[i] = "lost" /\ queue' = queue
         /\ \A j \in Importers \ {i} :
              phase'[j] = phase[j] /\ asked'[j] = asked[j] /\ reply'[j] = reply[j]
         /\ UNCHANGED <<errors, flag>>
  BY DEF Ask, Go, ImportTypes, WaitTypes, Phases

\* A job of an import that does not wait was given up with the client.
LEMMA NoJob ==
  ASSUME ImportsInv, NEW i \in Importers, phase[i] \in {"idle", "reading"}
  PROVE  \A r \in Queued : r.from # i
<1> SUFFICES ASSUME NEW r \in Queued, r.from = i PROVE FALSE
  OBVIOUS
<1>1. JobSound(r)
  BY QueuedTyped
<1> QED
  BY <1>1 DEF JobSound, Given, Waits

\* Reading fails: the import ends, or is over if it has nothing to end.
LEMMA ThrowKeeps ==
  ASSUME ImportsInv, NEW i \in Importers, phase[i] = "reading",
         NEW what \in {"cancelled", "fault", "invalid"}, Throw(i, what),
         UNCHANGED <<workVars, workerUp, client, store, roots, input, check, batch, baselined,
                     opened, aborted>>,
         at' = at \/ (at' = [at EXCEPT ![i] = @ + 1] /\ check[i] = NoValidation)
  PROVE  ImportsInv'
<1> USE DEF workVars
<1>1. ImportTypes /\ ImportSound(i) /\ what \in Reasons
  BY DEF ImportsInv, Reasons
<1>2. /\ phase' \in [Importers -> Phases] /\ errors' \in [Importers -> SUBSET Reasons]
      /\ phase'[i] = IF opened[i] THEN "ending" ELSE "settled"
      /\ errors'[i] = errors[i] \union {what}
      /\ \A j \in Importers \ {i} : phase'[j] = phase[j] /\ errors'[j] = errors[j]
      /\ UNCHANGED <<queue, asked, reply, flag>>
  BY <1>1, ThrowFacts
<1>3. /\ at' \in [Importers -> Nat]
      /\ \A j \in Importers \ {i} : at'[j] = at[j]
      /\ check[i] # NoValidation => at'[i] = at[i]
  BY <1>1 DEF ImportTypes, CallTypes
<1>4. ImportTypes'
  BY <1>1, <1>2, <1>3 DEF ImportTypes, WorkerTypes, CallTypes, WaitTypes
<1>5. Beside(i)
  BY <1>2, <1>3 DEF Beside, Same
<1>6. CheckSound(i)'
  BY <1>1, <1>2, <1>3 DEF ImportSound, CheckSound
<1>7. PhaseSound(i)'
  BY <1>1, <1>2, Typed DEF ImportSound, PhaseSound, Waits
<1>8. StagedSound(i)'
  BY <1>1, <1>2 DEF ImportSound, StagedSound, Waits
<1>9. OutcomeSound(i)' /\ ~Published(i)
  <2>1. ~Published(i) /\ ~Published(i)'
    BY <1>1 DEF ImportSound, OutcomeSound, Over, Waits, Published, PublishedBy
  <2>2. Over(i)' /\ ~Waits(i, "publishImport")' /\ errors'[i] # {}
    BY <1>2 DEF Over, Waits
  <2> QED
    BY <2>1, <2>2 DEF OutcomeSound
<1>10. ImportSound(i)'
  BY <1>6, <1>7, <1>8, <1>9 DEF ImportSound
<1>11. stage.by = i => i \in roots'
  BY Names DEF ImportsInv, StageSound, ImportTypes, WorkerTypes, Stage
<1> QED
  BY <1>2, <1>4, <1>5, <1>9, <1>10, <1>11, NoJob, ImporterKeeps

\* A request for what has been read keeps everything sound: it is queued, or lost
\* with a client that is not open.
LEMMA AskKeeps ==
  ASSUME ImportsInv, NEW i \in Importers, NEW m \in Methods, NEW a \in Arguments,
         phase[i] \in {"reading", "ending"}, Ask(i, m, a),
         m = "closeImport" <=> phase[i] = "ending",
         m # "beginImport" => check[i] # NoValidation,
         phase[i] = "reading" => ~aborted[i],
         phase[i] = "ending" => UNCHANGED <<at, check, roots>>,
         UNCHANGED <<workVars, workerUp, client, store, input, baselined, opened, aborted>>,
         CallTypes', check'[i] # NoValidation, CheckSound(i)', StagedSound(i)',
         \A j \in Importers \ {i} : check'[j] = check[j] /\ at'[j] = at[j],
         roots' = roots \/ roots' = roots \union {i}, workerUp => i \in roots',
         Meant(i, m, a)'
  PROVE  ImportsInv'
<1> USE DEF workVars
<1>1. ImportTypes /\ ImportSound(i)
  BY DEF ImportsInv
<1>2. /\ phase' \in [Importers -> Phases] /\ asked' \in [Importers -> Methods \union {"none"}]
      /\ reply' \in [Importers -> {"none", "ok", "refused", "lost"}]
      /\ phase'[i] = "asking" /\ asked'[i] = m
      /\ client = "open" =>
           /\ reply' = reply
           /\ queue' = Append(queue, [from |-> i, method |-> m, argument |-> a])
      /\ client # "open" => reply'[i] = "lost" /\ queue' = queue
      /\ \A j \in Importers \ {i} :
           phase'[j] = phase[j] /\ asked'[j] = asked[j] /\ reply'[j] = reply[j]
      /\ UNCHANGED <<errors, flag>>
  BY <1>1, AskFacts
<1>3. reply[i] = "none" /\ asked[i] = "none"
  BY <1>1, Typed DEF ImportSound, PhaseSound
<1> DEFINE q == [from |-> i, method |-> m, argument |-> a]
<1>4. q \in Requests /\ q.from = i /\ q.method = m /\ q.argument = a
  BY DEF Requests
<1>5. queue' \in Seq(Requests)
  <2>1. queue \in Seq(Requests)
    BY <1>1 DEF ImportTypes, WorkerTypes
  <2>2. CASE client = "open"
    BY <2>1, <2>2, <1>2, <1>4, AppendProperties
  <2>3. CASE client # "open"
    BY <2>1, <2>3, <1>2
  <2> QED
    BY <2>2, <2>3
<1>6. ImportTypes'
  BY <1>1, <1>2, <1>5 DEF ImportTypes, WorkerTypes, WaitTypes
<1>7. Beside(i)
  BY <1>2 DEF Beside, Same
<1>8. PhaseSound(i)'
  <2>1. m = "beginImport" => check'[i].transactions = 0
    BY DEF Meant
  <2>2. input[i] \in File
    BY <1>1 DEF ImportSound, PhaseSound
  <2>3. m # "beginImport" => opened[i]
    BY <1>1, Typed DEF ImportSound, PhaseSound
  <2> QED
    BY <1>2, <1>3, <2>1, <2>2, <2>3 DEF PhaseSound, Waits, Methods
<1>9. OutcomeSound(i)' /\ (~Published(i) \/ input'[i] = input[i])
  <2>1. Published(i)' <=> Published(i)
    BY DEF Published, PublishedBy
  <2>2. CASE phase[i] = "reading"
    <3>1. ~Published(i) /\ errors[i] \subseteq {"unremoved"}
      BY <2>2, <1>1 DEF ImportSound, OutcomeSound, Over, Waits
    <3>2. ~Over(i)' /\ reply'[i] # "ok"
      BY <1>2, <1>3, <2>2 DEF Over, Waits
    <3> QED
      BY <3>1, <3>2, <1>2, <2>1 DEF OutcomeSound
  <2>3. CASE phase[i] = "ending"
    <3>1. Over(i) /\ Over(i)' /\ ~Waits(i, "publishImport")'
      BY <2>3, <1>2 DEF Over, Waits
    <3> QED
      BY <3>1, <1>1, <1>2, <2>1 DEF ImportSound, OutcomeSound
  <2> QED
    BY <2>2, <2>3
<1>10. ImportSound(i)'
  BY <1>8, <1>9 DEF ImportSound
<1>11. stage.by = i => i \in roots'
  BY Names DEF ImportsInv, StageSound, ImportTypes, WorkerTypes, Stage
<1>12. CASE client = "open"
  <2>1. workerUp
    BY <1>12, <1>1 DEF ImportsInv, ClientSound, ImportTypes, WorkerTypes
  <2>2. \A r \in Queued : r.from # i
    <3> SUFFICES ASSUME NEW r \in Queued, r.from = i PROVE FALSE
      OBVIOUS
    <3>1. JobSound(r)
      BY QueuedTyped
    <3> QED
      BY <3>1, <1>12 DEF JobSound, Given, Waits
  <2>3. Given(i, m)'
    BY <1>2, <1>3, <1>12 DEF Given, Waits
  <2>4. JobSound(q)'
    BY <2>1, <2>3, <1>4, <1>12 DEF JobSound
  <2> QED
    BY <2>1, <2>2, <2>4, <1>2, <1>4, <1>6, <1>7, <1>9, <1>10, <1>11, <1>12, ImporterKeeps
<1>13. CASE client # "open"
  <2>1. ASSUME NEW r \in Queued, r.from = i PROVE JobSound(r)'
    <3>1. JobSound(r) /\ phase[i] = "ending" /\ client = "failed"
      BY <2>1, QueuedTyped DEF JobSound, Given, Waits
    <3>2. Given(i, r.method)'
      BY <3>1, <2>1, <1>2, <1>13 DEF JobSound, Given, Waits
    <3>4. Meant(i, r.method, r.argument)'
      BY <3>1, <2>1, MeantKept DEF JobSound
    <3> QED
      BY <3>1, <3>2, <3>4, <2>1 DEF JobSound
  <2> QED
    BY <2>1, <1>2, <1>6, <1>7, <1>9, <1>10, <1>11, <1>13, ImporterKeeps
<1> QED
  BY <1>12, <1>13

-----------------------------------------------------------------------------
(* The importer's steps                                                      *)

\* A reader fails where it is.
LEMMA ReadThrowsKeeps ==
  ASSUME ImportsInv, NEW i \in Importers, ReadThrows(i) PROVE ImportsInv'
<1>1. PICK what \in {"cancelled", "fault", "invalid"} : Throw(i, what)
  BY DEF ReadThrows
<1> QED
  BY <1>1, ThrowKeeps DEF ReadThrows, callVars

\* A manifest is the first record; the checking begins with it.
LEMMA ReadManifestKeeps ==
  ASSUME ImportsInv, NEW i \in Importers, ReadManifest(i) PROVE ImportsInv'
<1> USE DEF ReadManifest, HasRecord, Reading, Consume
<1>1. ImportTypes /\ ImportSound(i) /\ input[i] \in File /\ at[i] = 0
  BY Typed DEF ImportsInv, ImportSound, PhaseSound, CheckSound
<1>2. CASE AcceptsManifest(Record(i)) /\ store # "closed"
  <2> PICK file : file = input[i]
    OBVIOUS
  <2> PICK info : info = Record(i).info
    OBVIOUS
  <2>1. Record(i) = file.records[1] /\ Len(file.records) >= 1 /\ file \in File
    <3>1. Len(file.records) \in Nat
      BY <1>1, FileTyped
    <3> QED
      BY <1>1, <3>1 DEF Record
  <2>2. /\ info \in Info /\ Validation(info) \in Checking
        /\ Checked(file, Validation(info), 1) /\ Commits(file, Validation(info)) = << >>
        /\ Validation(info).info = info /\ Validation(info).transactions = 0
    BY <1>2, <2>1, ManifestChecked
  <2>3. check' = [check EXCEPT ![i] = Validation(info)] /\ roots' = roots \union {i}
        /\ Ask(i, "beginImport", info.id) /\ at' = [at EXCEPT ![i] = 1]
    BY <1>1, <1>2, Typed
  <2>4. CallTypes' /\ check'[i] = Validation(info) /\ at'[i] = 1
        /\ \A j \in Importers \ {i} : check'[j] = check[j] /\ at'[j] = at[j]
    BY <2>2, <2>3, <1>1 DEF ImportTypes, CallTypes
  <2>5. info.id \in Arguments /\ "beginImport" \in Methods
    BY <2>2 DEF Arguments, Methods, Info
  <2>6. phase'[i] = "asking" /\ asked'[i] = "beginImport"
    BY <1>1, <2>3, <2>5, AskFacts
  <2>7. CheckSound(i)' /\ check'[i] # NoValidation
    BY <1>1, <2>2, <2>4, <2>6, Names DEF CheckSound
  <2>8. stage.by # i
    <3>1. ~opened[i]
      BY <1>1 DEF ImportSound, PhaseSound
    <3> QED
      BY <1>1, <3>1 DEF ImportSound, PhaseSound
  <2>9. StagedSound(i)' /\ Meant(i, "beginImport", info.id)'
    BY <2>2, <2>4, <2>8 DEF StagedSound, Meant, workVars
  <2> QED
    BY <2>3, <2>4, <2>5, <2>7, <2>9, AskKeeps
<1>3. CASE ~(AcceptsManifest(Record(i)) /\ store # "closed")
  BY <1>3, ThrowKeeps
<1> QED
  BY <1>2, <1>3

\* A batch that is full, or the last, is staged.
LEMMA FlushKeeps ==
  ASSUME ImportsInv, NEW i \in Importers, phase[i] = "reading", ~aborted[i],
         check[i] # NoValidation, Flush(i),
         UNCHANGED <<workVars, workerUp, client, store, roots, input, baselined, opened, aborted>>
  PROVE  ImportsInv'
<1> USE DEF Flush, workVars
<1> PICK rows : rows = batch[i]
  OBVIOUS
<1>1. ImportTypes /\ ImportSound(i)
  BY DEF ImportsInv
<1>2. rows \in Seq(Rows) /\ "importBaseline" \in Methods
  BY <1>1, Typed DEF Methods
<1>3. rows \in Arguments
  BY <1>2 DEF Arguments
<1>4. CallTypes'
  <2>1. << >> \in Seq(Rows) /\ Len(<< >>) <= BatchRows
    BY BatchRowsAssumption
  <2> QED
    BY <1>1, <2>1 DEF ImportTypes, CallTypes
<1>5. phase'[i] = "asking" /\ asked'[i] = "importBaseline"
  BY <1>1, <1>2, AskFacts
<1>6. CheckSound(i)'
  BY <1>1, <1>5 DEF ImportSound, CheckSound
<1>7. StagedSound(i)'
  <2>1. Consumed(i)' = Consumed(i)
    BY DEF Consumed, Commits
  <2> QED
    BY <1>1, <1>5, <2>1 DEF ImportSound, StagedSound, Waits
<1>8. Meant(i, "importBaseline", rows)'
  BY <1>2 DEF Meant
<1>9. workerUp => i \in roots
  BY <1>1 DEF ImportSound, PhaseSound
<1> QED
  BY <1>2, <1>3, <1>4, <1>6, <1>7, <1>8, <1>9, AskKeeps

\* A row is checked and joins the batch.
LEMMA ReadRowKeeps ==
  ASSUME ImportsInv, NEW i \in Importers, ReadRow(i) PROVE ImportsInv'
<1> USE DEF ReadRow, HasRecord, Reading, Consume
<1>1. ImportTypes /\ ImportSound(i) /\ input[i] \in File /\ check[i] \in Checking
  BY Typed DEF ImportsInv, ImportSound, PhaseSound
<1>2. CASE ~AcceptsRow(check[i], Record(i))
  BY <1>2, ThrowKeeps
<1>3. CASE AcceptsRow(check[i], Record(i)) /\ Full(i)
  BY <1>3, FlushKeeps
<1>4. CASE AcceptsRow(check[i], Record(i)) /\ ~Full(i)
  <2> PICK file : file = input[i]
    OBVIOUS
  <2> PICK c : c = check[i]
    OBVIOUS
  <2> PICK p : p = at[i]
    OBVIOUS
  <2> PICK record : record = Record(i)
    OBVIOUS
  <2>1. /\ file \in File /\ c \in Checking /\ Checked(file, c, p) /\ p < Len(file.records)
        /\ record = file.records[p + 1] /\ AcceptsRow(c, record)
    BY <1>1, <1>4 DEF ImportSound, CheckSound, Record
  <2>2. /\ record.row \in Rows /\ WithRow(c, record) \in Checking
        /\ Checked(file, WithRow(c, record), p + 1)
        /\ Commits(file, c) = << >> /\ Commits(file, WithRow(c, record)) = << >>
    BY <2>1, RowChecked
  <2>3. /\ check' = [check EXCEPT ![i] = WithRow(c, record)]
        /\ batch' = [batch EXCEPT ![i] = Append(@, record.row)]
        /\ at' = [at EXCEPT ![i] = p + 1]
        /\ UNCHANGED <<waitVars, queue, errors, flag>>
    BY <1>4
  <2>4. Append(batch[i], record.row) \in Seq(Rows) /\ Len(Append(batch[i], record.row)) <= BatchRows
    <3>1. batch[i] \in Seq(Rows) /\ Len(batch[i]) \in Nat /\ Len(batch[i]) < BatchRows
      BY <1>1, <1>4, Typed, BatchRowsAssumption DEF Full
    <3> QED
      BY <2>2, <3>1, AppendProperties, BatchRowsAssumption
  <2>5. p \in Nat /\ p + 1 \in Nat
    BY <1>1, Typed
  <2>6. CallTypes'
    BY <1>1, <2>2, <2>3, <2>4, <2>5 DEF ImportTypes, CallTypes
  <2>7. ImportTypes'
    BY <1>1, <2>3, <2>6 DEF ImportTypes, WorkerTypes, WaitTypes, waitVars, workVars
  <2>8. check'[i] = WithRow(c, record) /\ at'[i] = p + 1 /\ check'[i] # NoValidation
    BY <1>1, <2>2, <2>3, Names DEF ImportTypes, CallTypes
  <2>9. CheckSound(i)'
    BY <1>1, <2>2, <2>8 DEF CheckSound
  <2>10. WithRow(c, record).transactions = c.transactions
    BY <2>1 DEF WithRow, Checking
  <2>11. PhaseSound(i)'
    BY <1>1, <2>3, <2>8, <2>10 DEF ImportSound, PhaseSound, Waits, waitVars, workVars
  <2>12. Consumed(i) = << >> /\ Consumed(i)' = << >>
    BY <2>2, <2>8 DEF Consumed
  <2>13. StagedSound(i)'
    BY <1>1, <2>3, <2>12 DEF ImportSound, StagedSound, Waits, waitVars, workVars
  <2>14. OutcomeSound(i)'
    BY <1>1, <2>3 DEF ImportSound, OutcomeSound, Over, Waits, Published, PublishedBy, waitVars,
                      workVars
  <2>15. Beside(i)
    BY <1>1, <2>3 DEF Beside, Same, ImportTypes, CallTypes, waitVars, workVars
  <2>16. stage.by = i => i \in roots'
    BY Names DEF ImportsInv, StageSound, ImportTypes, WorkerTypes, Stage
  <2> QED
    BY <2>3, <2>7, <2>9, <2>11, <2>13, <2>14, <2>15, <2>16, NoJob, ImporterKeeps
       DEF ImportSound, workVars
<1> QED
  BY <1>2, <1>3, <1>4

\* The baseline ends when everything before it is staged.
LEMMA FinishBaselineKeeps ==
  ASSUME ImportsInv, NEW i \in Importers, phase[i] = "reading", ~aborted[i],
         check[i] # NoValidation, FinishBaseline(i),
         UNCHANGED <<workVars, workerUp, client, store, roots, input, baselined, opened, aborted>>
  PROVE  ImportsInv'
<1>1. CASE batch[i] # << >>
  BY <1>1, FlushKeeps DEF FinishBaseline
<1>2. CASE batch[i] = << >>
  <2> PICK position : position = check[i].info.baseline
    OBVIOUS
  <2>1. ImportTypes /\ ImportSound(i)
    BY DEF ImportsInv
  <2>2. position \in Position /\ position \in Arguments /\ "importBaselineComplete" \in Methods
    BY <2>1, CheckTyped DEF Info, Arguments, Methods
  <2>3. Ask(i, "importBaselineComplete", position) /\ UNCHANGED <<at, check, batch>>
    BY <1>2 DEF FinishBaseline
  <2>4. phase'[i] = "asking" /\ asked'[i] = "importBaselineComplete"
    BY <2>1, <2>2, <2>3, AskFacts
  <2>5. CallTypes'
    BY <2>1, <2>3 DEF ImportTypes, CallTypes
  <2>6. CheckSound(i)'
    BY <2>1, <2>3, <2>4 DEF ImportSound, CheckSound
  <2>7. StagedSound(i)'
    <3>1. Consumed(i)' = Consumed(i)
      BY <2>3 DEF Consumed
    <3> QED
      BY <2>1, <2>4, <3>1 DEF ImportSound, StagedSound, Waits, workVars
  <2>8. Meant(i, "importBaselineComplete", position)'
    BY <2>2 DEF Meant
  <2>9. workerUp => i \in roots
    BY <2>1 DEF ImportSound, PhaseSound
  <2> QED
    BY <2>2, <2>3, <2>5, <2>6, <2>7, <2>8, <2>9, AskKeeps
<1> QED
  BY <1>1, <1>2

\* A transaction is checked, and staged at once.
LEMMA ReadCommitKeeps ==
  ASSUME ImportsInv, NEW i \in Importers, ReadCommit(i) PROVE ImportsInv'
<1> USE DEF ReadCommit, HasRecord, Reading, Consume
<1>1. ImportTypes /\ ImportSound(i) /\ input[i] \in File /\ check[i] \in Checking
  BY Typed DEF ImportsInv, ImportSound, PhaseSound
<1>2. CASE ~AcceptsCommit(check[i], Record(i))
  BY <1>2, ThrowKeeps
<1>3. CASE AcceptsCommit(check[i], Record(i)) /\ ~baselined[i]
  BY <1>3, FinishBaselineKeeps
<1>4. CASE AcceptsCommit(check[i], Record(i)) /\ baselined[i]
  <2> PICK file : file = input[i]
    OBVIOUS
  <2> PICK c : c = check[i]
    OBVIOUS
  <2> PICK p : p = at[i]
    OBVIOUS
  <2> PICK record : record = Record(i)
    OBVIOUS
  <2> PICK t : t = record.transaction
    OBVIOUS
  <2> PICK d : d = WithCommit(c, record)
    OBVIOUS
  <2>1. /\ file \in File /\ c \in Checking /\ Checked(file, c, p) /\ p < Len(file.records)
        /\ record = file.records[p + 1] /\ AcceptsCommit(c, record)
    BY <1>1, <1>4 DEF ImportSound, CheckSound, Record
  <2>2. /\ t \in Transaction /\ d \in Checking /\ Checked(file, d, p + 1)
        /\ d.transactions > 0 /\ d.transactions \in Nat
        /\ Commits(file, c) = SubSeq(Commits(file, d), 1, d.transactions - 1)
        /\ Commits(file, d)[d.transactions] = t
    BY <2>1, CommitChecked
  <2>3. /\ check' = [check EXCEPT ![i] = d] /\ at' = [at EXCEPT ![i] = p + 1]
        /\ Ask(i, "importAppend", t) /\ UNCHANGED batch
    BY <1>4
  <2>4. p \in Nat /\ p + 1 \in Nat
    BY <1>1, Typed
  <2>5. CallTypes'
    BY <1>1, <2>2, <2>3, <2>4 DEF ImportTypes, CallTypes
  <2>6. check'[i] = d /\ at'[i] = p + 1 /\ check'[i] # NoValidation
    BY <1>1, <2>2, <2>3, Names DEF ImportTypes, CallTypes
  <2>7. "importAppend" \in Methods /\ t \in Arguments
    BY <2>2 DEF Methods, Arguments
  <2>8. phase'[i] = "asking" /\ asked'[i] = "importAppend"
    BY <1>1, <2>3, <2>7, AskFacts
  <2>9. CheckSound(i)'
    BY <1>1, <2>2, <2>6 DEF CheckSound
  <2>10. Consumed(i) = Commits(file, c) /\ Consumed(i)' = Commits(file, d)
    BY <2>6 DEF Consumed
  <2>11. stage.by = i => stage.transactions = Consumed(i)
    BY <1>1 DEF ImportSound, StagedSound, Waits
  <2>12. StagedSound(i)'
    <3>1. reply'[i] \in {"none", "lost"}
      BY <1>1, <2>3, <2>7, AskFacts, Typed DEF ImportSound, PhaseSound
    <3> QED
      BY <2>2, <2>6, <2>8, <2>10, <2>11, <3>1 DEF StagedSound, Waits, workVars
  <2>13. Meant(i, "importAppend", t)'
    BY <2>2, <2>6, <2>10 DEF Meant
  <2>14. workerUp => i \in roots
    BY <1>1 DEF ImportSound, PhaseSound
  <2>15. \A j \in Importers \ {i} : check'[j] = check[j] /\ at'[j] = at[j]
    BY <1>1, <2>3 DEF ImportTypes, CallTypes
  <2> QED
    BY <2>3, <2>5, <2>6, <2>7, <2>9, <2>12, <2>13, <2>14, <2>15, AskKeeps
<1> QED
  BY <1>2, <1>3, <1>4

\* The verified end of the file asks for the publication.
LEMMA ReadEndKeeps ==
  ASSUME ImportsInv, NEW i \in Importers, ReadEnd(i) PROVE ImportsInv'
<1> USE DEF ReadEnd, Reading
<1>1. ImportTypes /\ ImportSound(i)
  BY DEF ImportsInv
<1>2. CASE ~VerifiedEnd(i)
  BY <1>2, ThrowKeeps
<1>3. CASE VerifiedEnd(i) /\ ~baselined[i]
  BY <1>3, FinishBaselineKeeps DEF VerifiedEnd
<1>4. CASE VerifiedEnd(i) /\ baselined[i]
  <2> PICK info : info = Expected(check[i].info)
    OBVIOUS
  <2>1. info \in Info /\ check[i] # NoValidation
    BY <1>1, <1>4, CheckTyped DEF VerifiedEnd, Expected, Info, Closed
  <2>2. Ask(i, "publishImport", info) /\ UNCHANGED <<at, check, batch>>
    BY <1>4
  <2>3. info \in Arguments /\ "publishImport" \in Methods
    BY <2>1 DEF Arguments, Methods
  <2>4. phase'[i] = "asking" /\ asked'[i] = "publishImport"
    BY <1>1, <2>2, <2>3, AskFacts
  <2>5. CallTypes'
    BY <1>1, <2>2 DEF ImportTypes, CallTypes
  <2>6. CheckSound(i)'
    BY <1>1, <2>2, <2>4 DEF ImportSound, CheckSound
  <2>7. Consumed(i)' = Consumed(i)
    BY <2>2 DEF Consumed
  <2>8. StagedSound(i)'
    BY <1>1, <2>4, <2>7 DEF ImportSound, StagedSound, Waits, workVars
  <2>9. stage.by = i => stage.transactions = Consumed(i)
    BY <1>1 DEF ImportSound, StagedSound, Waits
  <2>10. Meant(i, "publishImport", info)
    BY <1>4, <2>9 DEF Meant, VerifiedEnd
  <2>11. Meant(i, "publishImport", info)'
    BY <2>2, <2>10, MeantKept DEF workVars
  <2>12. workerUp => i \in roots
    BY <1>1, <2>1 DEF ImportSound, PhaseSound
  <2> QED
    BY <2>1, <2>2, <2>3, <2>5, <2>6, <2>8, <2>11, <2>12, AskKeeps
<1> QED
  BY <1>2, <1>3, <1>4

\* The session is closed once the import is over.
LEMMA CloseStageKeeps ==
  ASSUME ImportsInv, NEW i \in Importers, CloseStage(i) PROVE ImportsInv'
<1> USE DEF CloseStage, callVars
<1> PICK id : id = check[i].info.id
  OBVIOUS
<1>1. ImportTypes /\ ImportSound(i) /\ check[i] # NoValidation
  BY DEF ImportsInv, ImportSound, PhaseSound
<1>2. id \in Arguments /\ "closeImport" \in Methods
  BY <1>1, CheckTyped DEF Info, Arguments, Methods
<1>3. CallTypes'
  BY <1>1 DEF ImportTypes, CallTypes
<1>4. phase'[i] = "asking" /\ asked'[i] = "closeImport"
  BY <1>1, <1>2, AskFacts
<1>5. CheckSound(i)'
  BY <1>1, <1>4 DEF ImportSound, CheckSound
<1>6. StagedSound(i)' /\ Meant(i, "closeImport", id)'
  BY <1>4 DEF StagedSound, Meant
<1>7. workerUp => i \in roots
  BY <1>1 DEF ImportSound, PhaseSound
<1> QED
  BY <1>1, <1>2, <1>3, <1>5, <1>6, <1>7, AskKeeps

\* A session that could not be closed takes its client with it.
LEMMA DiscardKeeps ==
  ASSUME ImportsInv, NEW i \in Importers, Discard(i) PROVE ImportsInv'
<1> USE DEF Discard, workVars, callVars, waitVars, signalVars
<1>1. ImportTypes /\ ImportSound(i)
  BY DEF ImportsInv
<1>2. ImportTypes'
  BY <1>1 DEF ImportTypes, WorkerTypes, CallTypes, WaitTypes
<1>3. Beside(i) /\ Same(i) /\ Apart(i)
  BY DEF Beside, Same, Apart
<1>4. ImportSound(i)'
  BY <1>1, <1>3, ApartSound
<1>5. ASSUME NEW r \in Queued, r.from = i PROVE JobSound(r)'
  <2>1. JobSound(r)
    BY QueuedTyped
  <2> QED
    BY <1>3, <1>5, <2>1, JobKept
<1>6. stage.by = i => i \in roots'
  BY Names DEF ImportsInv, StageSound, ImportTypes, WorkerTypes, Stage
<1>7. workerUp
  BY <1>1 DEF ImportsInv, ClientSound, ImportTypes, WorkerTypes
<1> QED
  BY <1>2, <1>3, <1>4, <1>5, <1>6, <1>7, ImporterKeeps

\* The directory is given back, by an import the worker has nothing of.
LEMMA ReleaseKeeps ==
  ASSUME ImportsInv, NEW i \in Importers, Release(i) PROVE ImportsInv'
<1> USE DEF Release, workVars, callVars, signalVars
<1>1. ImportTypes /\ ImportSound(i)
  BY DEF ImportsInv
<1>2. /\ phase[i] \in {"releasing", "discarding"}
      /\ phase' = [phase EXCEPT ![i] = "settled"]
      /\ \/ roots' = roots \ {i} /\ errors' = errors
         \/ i \in roots /\ roots' = roots /\ errors' = [errors EXCEPT ![i] = @ \union {"unremoved"}]
  BY DEF MayRelease, Go, Report
<1>3. stage.by # i
  <2>1. CASE phase[i] = "releasing"
    BY <2>1, <1>1 DEF ImportSound, PhaseSound
  <2>2. CASE ~workerUp
    BY <2>2, Names DEF ImportsInv, StageSound
  <2> QED
    BY <2>1, <2>2 DEF MayRelease
<1>4. \A r \in Queued : r.from # i
  <2> SUFFICES ASSUME NEW r \in Queued, r.from = i PROVE FALSE
    OBVIOUS
  <2>1. JobSound(r)
    BY QueuedTyped
  <2>2. phase[i] = "discarding" /\ ~workerUp
    BY <2>1, <1>2 DEF JobSound, Given, Waits, MayRelease
  <2>3. queue = << >>
    BY <2>2 DEF ImportsInv, ClientSound
  <2> QED
    BY <2>3 DEF Queued
<1>5. /\ phase'[i] = "settled" /\ errors[i] \subseteq errors'[i] /\ errors'[i] \subseteq Reasons
      /\ \/ i \notin roots' /\ errors'[i] = errors[i]
         \/ errors'[i] = errors[i] \union {"unremoved"}
      /\ \A j \in Importers \ {i} : phase'[j] = phase[j] /\ errors'[j] = errors[j]
  BY <1>1, <1>2 DEF ImportTypes, WaitTypes, Reasons
<1>6. ImportTypes'
  <2>1. phase' \in [Importers -> Phases] /\ errors' \in [Importers -> SUBSET Reasons]
    BY <1>1, <1>2 DEF ImportTypes, WaitTypes, Phases, Reasons
  <2>2. roots' \subseteq Importers
    BY <1>1, <1>2 DEF ImportTypes, WorkerTypes
  <2> QED
    BY <1>1, <2>1, <2>2 DEF ImportTypes, WorkerTypes, CallTypes, WaitTypes
<1>7. Beside(i)
  BY <1>2, <1>5 DEF Beside, Same
<1>8. CheckSound(i)'
  BY <1>1, <1>5 DEF ImportSound, CheckSound
<1>9. PhaseSound(i)'
  BY <1>1, <1>2, <1>3, <1>5, Typed DEF ImportSound, PhaseSound, Waits
<1>10. StagedSound(i)'
  BY <1>3 DEF StagedSound
<1>11. OutcomeSound(i)'
  <2>1. Over(i) /\ Over(i)' /\ ~Waits(i, "publishImport")'
    BY <1>2, <1>5 DEF Over, Waits
  <2>2. Published(i)' <=> Published(i)
    BY DEF Published, PublishedBy
  <2> QED
    BY <1>1, <1>5, <2>1, <2>2 DEF ImportSound, OutcomeSound
<1>12. ImportSound(i)'
  BY <1>8, <1>9, <1>10, <1>11 DEF ImportSound
<1> QED
  BY <1>3, <1>4, <1>6, <1>7, <1>12, ImporterKeeps

\* The signal reaches the flag of whoever waits for an operation.
LEMMA AbortKeeps ==
  ASSUME ImportsInv, NEW i \in Importers, Abort(i) PROVE ImportsInv'
<1> USE DEF Abort, workVars, callVars, waitVars
<1>1. ImportTypes /\ ImportSound(i)
  BY DEF ImportsInv
<1>2. /\ aborted'[i] /\ flag'[i] \in BOOLEAN /\ (flag[i] => flag'[i])
      /\ (Listens(i) => flag'[i])
      /\ \A j \in Importers \ {i} : aborted'[j] = aborted[j] /\ flag'[j] = flag[j]
  <2>1. FlagOnAbort(i) \in BOOLEAN /\ (flag[i] => FlagOnAbort(i)) /\ (Listens(i) => FlagOnAbort(i))
    BY DEF FlagOnAbort, Listens
  <2> QED
    BY <1>1, <2>1 DEF ImportTypes, WaitTypes
<1>3. ImportTypes'
  <2>1. FlagOnAbort(i) \in BOOLEAN
    BY DEF FlagOnAbort, Listens
  <2> QED
    BY <1>1, <2>1 DEF ImportTypes, WorkerTypes, CallTypes, WaitTypes
<1>4. Beside(i) /\ Same(i) /\ Apart(i)
  BY <1>2 DEF Beside, Same, Apart
<1>5. ImportSound(i)'
  BY <1>1, <1>4, ApartSound
<1>6. ASSUME NEW r \in Queued, r.from = i PROVE JobSound(r)'
  <2>1. JobSound(r)
    BY QueuedTyped
  <2>2. Given(i, r.method)'
    BY <1>6, <2>1, <1>4 DEF JobSound, Given, Waits, Same
  <2>3. Meant(i, r.method, r.argument)'
    BY <1>6, <2>1, <1>4, MeantKept DEF JobSound, Same, Apart
  <2>4. r.method # "closeImport" /\ client # "failed" => flag'[i]
    BY <1>6, <2>1, <1>2 DEF JobSound, Given, Waits, Listens
  <2> QED
    BY <1>6, <2>1, <2>2, <2>3, <2>4, <1>4 DEF JobSound, Same, Apart
<1>7. stage.by = i => i \in roots'
  BY Names DEF ImportsInv, StageSound, ImportTypes, WorkerTypes, Stage
<1> QED
  BY <1>3, <1>4, <1>5, <1>6, <1>7, ImporterKeeps

\* An import begins with a file.
LEMMA StartKeeps ==
  ASSUME ImportsInv, NEW i \in Importers, NEW file \in File, StartImport(i, file) PROVE ImportsInv'
<1> USE DEF StartImport, workVars
<1>1. ImportTypes /\ ImportSound(i)
  BY DEF ImportsInv
<1>2. ~opened[i] /\ check[i] = NoValidation /\ at[i] = 0 /\ stage.by # i /\ i \notin roots
      /\ asked[i] = "none" /\ reply[i] = "none"
  BY <1>1, Typed DEF ImportSound, PhaseSound, CheckSound
<1>3. ~Published(i) /\ errors[i] \subseteq {"unremoved"}
  BY <1>1, Typed DEF ImportSound, OutcomeSound, Over, Waits, Published, PublishedBy
<1>4. /\ UNCHANGED <<queue, asked, reply, flag>>
      /\ \/ phase'[i] = "settled" /\ errors'[i] = errors[i] \union {"cancelled"}
         \/ phase'[i] = "reading" /\ errors'[i] = errors[i]
      /\ phase' \in [Importers -> Phases] /\ errors' \in [Importers -> SUBSET Reasons]
      /\ \A j \in Importers \ {i} : phase'[j] = phase[j] /\ errors'[j] = errors[j]
  <2>1. CASE aborted[i]
    <3>1. "cancelled" \in Reasons
      BY DEF Reasons
    <3> QED
      BY <2>1, <3>1, <1>1, <1>2, ThrowFacts
  <2>2. CASE ~aborted[i]
    BY <2>2, <1>1 DEF Go, ImportTypes, WaitTypes, Phases
  <2> QED
    BY <2>1, <2>2
<1>5. input'[i] = file /\ \A j \in Importers \ {i} : input'[j] = input[j]
  BY <1>1 DEF ImportTypes, CallTypes
<1>6. ImportTypes'
  BY <1>1, <1>4 DEF ImportTypes, WorkerTypes, CallTypes, WaitTypes
<1>7. Beside(i)
  BY <1>4, <1>5 DEF Beside, Same
<1>8. CheckSound(i)'
  BY <1>1, <1>2 DEF CheckSound
<1>9. PhaseSound(i)'
  BY <1>1, <1>2, <1>4, <1>5 DEF PhaseSound, Waits
<1>10. StagedSound(i)'
  BY <1>2 DEF StagedSound
<1>11. OutcomeSound(i)'
  <2>1. ~Published(i)'
    BY <1>3 DEF Published, PublishedBy
  <2>2. ~Waits(i, "publishImport")' /\ ~Waits(i, "closeImport")'
    BY <1>4 DEF Waits
  <2> QED
    BY <1>3, <1>4, <2>1, <2>2 DEF OutcomeSound, Over
<1>12. ImportSound(i)'
  BY <1>8, <1>9, <1>10, <1>11 DEF ImportSound
<1> QED
  BY <1>2, <1>3, <1>4, <1>6, <1>7, <1>12, NoJob, ImporterKeeps

\* What an answer changes of the place of an import, ...
LEMMA GoFacts ==
  ASSUME ImportTypes, NEW i \in Importers, NEW where \in Phases, Go(i, where)
  PROVE  /\ phase' \in [Importers -> Phases] /\ phase'[i] = where
         /\ \A j \in Importers \ {i} : phase'[j] = phase[j]
  BY DEF Go, ImportTypes, WaitTypes

\* ... and of what it has been told.
LEMMA ReportFacts ==
  ASSUME ImportTypes, NEW i \in Importers, NEW what \in Reasons, Report(i, what)
  PROVE  /\ errors' \in [Importers -> SUBSET Reasons] /\ errors'[i] = errors[i] \union {what}
         /\ \A j \in Importers \ {i} : errors'[j] = errors[j]
  BY DEF Report, ImportTypes, WaitTypes

\* An answer ends the wait in one of nine ways.
LEMMA AnsweredFacts ==
  ASSUME ImportTypes, NEW i \in Importers, Answered(i)
  PROVE  /\ phase[i] = "asking" /\ reply[i] # "none"
         /\ asked'[i] = "none" /\ reply'[i] = "none"
         /\ \/ /\ asked[i] = "beginImport"
               /\ \/ /\ reply[i] = "ok" /\ opened'[i]
                     /\ \/ phase'[i] = "ending" /\ errors'[i] = errors[i] \union {"cancelled"}
                        \/ phase'[i] = "reading" /\ errors'[i] = errors[i]
                  \/ /\ reply[i] # "ok" /\ errors'[i] = errors[i] \union {reply[i]}
                     /\ phase'[i] = IF client # "open" THEN "discarding" ELSE "releasing"
            \/ /\ asked[i] \notin {"beginImport", "closeImport"} /\ opened'[i] = opened[i]
               /\ \/ /\ reply[i] = "ok" /\ errors'[i] = errors[i]
                     /\ phase'[i] = IF asked[i] = "publishImport" THEN "ending" ELSE "reading"
                  \/ /\ reply[i] # "ok" /\ errors'[i] = errors[i] \union {reply[i]}
                     /\ phase'[i] = "ending"
            \/ /\ asked[i] = "closeImport"
               /\ \/ reply[i] = "ok" /\ errors'[i] = errors[i] /\ phase'[i] = "releasing"
                  \/ /\ reply[i] # "ok" /\ errors'[i] = errors[i] \union {"unclean"}
                     /\ phase'[i] = "discarding"
         /\ \A j \in Importers \ {i} :
              /\ phase'[j] = phase[j] /\ errors'[j] = errors[j] /\ asked'[j] = asked[j]
              /\ reply'[j] = reply[j] /\ opened'[j] = opened[j]
         /\ phase' \in [Importers -> Phases] /\ errors' \in [Importers -> SUBSET Reasons]
         /\ asked' \in [Importers -> Methods \union {"none"}]
         /\ reply' \in [Importers -> {"none", "ok", "refused", "lost"}]
         /\ opened' \in [Importers -> BOOLEAN] /\ baselined' \in [Importers -> BOOLEAN]
<1>1. /\ phase[i] = "asking" /\ reply[i] # "none"
      /\ asked' = [asked EXCEPT ![i] = "none"] /\ reply' = [reply EXCEPT ![i] = "none"]
  BY DEF Answered
<1>2. /\ asked'[i] = "none" /\ reply'[i] = "none"
      /\ \A j \in Importers \ {i} : asked'[j] = asked[j] /\ reply'[j] = reply[j]
      /\ asked' \in [Importers -> Methods \union {"none"}]
      /\ reply' \in [Importers -> {"none", "ok", "refused", "lost"}]
  BY <1>1 DEF ImportTypes, WaitTypes
<1>3. /\ {"reading", "ending", "discarding", "releasing"} \subseteq Phases
      /\ "cancelled" \in Reasons /\ "unclean" \in Reasons
      /\ reply[i] # "ok" => reply[i] \in Reasons
  BY <1>1, Typed DEF Phases, Reasons
<1>4. /\ errors \in [Importers -> SUBSET Reasons] /\ opened \in [Importers -> BOOLEAN]
      /\ baselined \in [Importers -> BOOLEAN]
  BY DEF ImportTypes, WaitTypes, CallTypes
<1>5. CASE asked[i] = "beginImport"
  <2>1. BeginAnswered(i)
    BY <1>5 DEF Answered
  <2>2. CASE reply[i] = "ok"
    <3>1. /\ opened' = [opened EXCEPT ![i] = TRUE] /\ baselined' = baselined
          /\ IF aborted[i] THEN Report(i, "cancelled") /\ Go(i, "ending")
                          ELSE errors' = errors /\ Go(i, "reading")
      BY <2>1, <2>2 DEF BeginAnswered
    <3>2. opened'[i] /\ opened' \in [Importers -> BOOLEAN]
          /\ \A j \in Importers \ {i} : opened'[j] = opened[j]
      BY <3>1, <1>4
    <3>3. CASE aborted[i]
      BY <3>1, <3>2, <3>3, <2>2, <1>1, <1>2, <1>3, <1>4, <1>5, GoFacts, ReportFacts
    <3>4. CASE ~aborted[i]
      BY <3>1, <3>2, <3>4, <2>2, <1>1, <1>2, <1>3, <1>4, <1>5, GoFacts
    <3> QED
      BY <3>3, <3>4
  <2>3. CASE reply[i] # "ok"
    <3>1. /\ opened' = opened /\ baselined' = baselined /\ Report(i, reply[i])
          /\ Go(i, IF client # "open" THEN "discarding" ELSE "releasing")
      BY <2>1, <2>3 DEF BeginAnswered
    <3> QED
      BY <3>1, <2>3, <1>1, <1>2, <1>3, <1>4, <1>5, GoFacts, ReportFacts
  <2> QED
    BY <2>2, <2>3
<1>6. CASE asked[i] = "closeImport"
  <2>1. CloseAnswered(i) /\ opened' = opened /\ baselined' = baselined
    BY <1>6 DEF Answered, CloseAnswered
  <2>2. CASE reply[i] = "ok"
    BY <2>1, <2>2, <1>1, <1>2, <1>3, <1>4, <1>6, GoFacts DEF CloseAnswered
  <2>3. CASE reply[i] # "ok"
    BY <2>1, <2>3, <1>1, <1>2, <1>3, <1>4, <1>6, GoFacts, ReportFacts DEF CloseAnswered
  <2> QED
    BY <2>2, <2>3
<1>7. CASE asked[i] \notin {"beginImport", "closeImport"}
  <2>1. StageAnswered(i) /\ opened' = opened
    BY <1>7 DEF Answered, StageAnswered
  <2>2. baselined' \in [Importers -> BOOLEAN]
    BY <2>1, <1>4 DEF StageAnswered
  <2>3. CASE reply[i] = "ok"
    BY <2>1, <2>2, <2>3, <1>1, <1>2, <1>3, <1>4, <1>7, GoFacts DEF StageAnswered
  <2>4. CASE reply[i] # "ok"
    BY <2>1, <2>2, <2>4, <1>1, <1>2, <1>3, <1>4, <1>7, GoFacts, ReportFacts DEF StageAnswered
  <2> QED
    BY <2>3, <2>4
<1> QED
  BY <1>5, <1>6, <1>7

\* An answer keeps what is sound.
LEMMA AnsweredKeeps ==
  ASSUME ImportsInv, NEW i \in Importers, Answered(i) PROVE ImportsInv'
<1>1. ImportTypes /\ ImportSound(i)
  BY DEF ImportsInv
<1>2. UNCHANGED <<dest, stage, committing, queue, workerUp, client, store, roots, input, at, check,
                  batch, aborted, flag>>
  BY DEF Answered, workVars, signalVars
<1>3. ImportTypes'
  BY <1>1, <1>2, AnsweredFacts DEF ImportTypes, WorkerTypes, CallTypes, WaitTypes
<1>4. Beside(i)
  BY <1>1, <1>2, AnsweredFacts DEF Beside, Same
<1>5. CheckSound(i)'
  BY <1>1, <1>2, AnsweredFacts DEF ImportSound, PhaseSound, CheckSound
<1>6. PhaseSound(i)'
  BY <1>1, <1>2, AnsweredFacts, Typed DEF ImportSound, PhaseSound, Waits
<1>7. StagedSound(i)'
  <2>1. Consumed(i)' = Consumed(i)
    BY <1>2 DEF Consumed, Commits
  <2>2. phase'[i] = "reading" => asked[i] # "closeImport" /\ reply[i] = "ok"
    BY <1>1, AnsweredFacts
  <2> QED
    BY <1>1, <1>2, <2>1, <2>2, AnsweredFacts DEF ImportSound, StagedSound, Waits
<1>8. OutcomeSound(i)'
  <2>1. Published(i)' <=> Published(i)
    BY <1>2 DEF Published, PublishedBy
  <2>2. asked'[i] = "none"
    BY <1>1, AnsweredFacts
  <2>3. CASE asked[i] = "beginImport"
    BY <1>1, <2>1, <2>2, <2>3, AnsweredFacts DEF ImportSound, OutcomeSound, Over, Waits
  <2>4. CASE asked[i] = "closeImport"
    BY <1>1, <2>1, <2>2, <2>4, AnsweredFacts DEF ImportSound, OutcomeSound, Over, Waits
  <2>5. CASE asked[i] \notin {"beginImport", "closeImport"}
    <3>1. Published(i) => asked[i] = "publishImport" /\ reply[i] \in {"ok", "lost"}
      BY <1>1, <2>5, AnsweredFacts DEF ImportSound, OutcomeSound, Over, Waits
    <3>2. errors[i] \subseteq {"unremoved"}
      BY <1>1, <2>5, AnsweredFacts DEF ImportSound, OutcomeSound, Over, Waits
    <3>3. CASE reply[i] = "ok"
      BY <1>1, <2>1, <2>2, <2>5, <3>1, <3>2, <3>3, AnsweredFacts
         DEF ImportSound, OutcomeSound, Over, Waits
    <3>4. CASE reply[i] # "ok"
      <4>1. errors'[i] = errors[i] \union {reply[i]} /\ phase'[i] = "ending"
            /\ reply[i] \in {"refused", "lost"}
        BY <1>1, <2>5, <3>4, AnsweredFacts, Typed
      <4> QED
        BY <2>1, <2>2, <3>1, <3>2, <4>1 DEF OutcomeSound, Over, Waits
    <3> QED
      BY <3>3, <3>4
  <2> QED
    BY <2>3, <2>4, <2>5
<1>9. ImportSound(i)'
  BY <1>5, <1>6, <1>7, <1>8 DEF ImportSound
<1>10. ASSUME NEW r \in Queued, r.from = i PROVE JobSound(r)'
  <2>1. JobSound(r) /\ Given(i, r.method) /\ Meant(i, r.method, r.argument) /\ i \in roots
        /\ check[i] # NoValidation
    BY <1>10, QueuedTyped DEF JobSound
  <2>2. client = "failed" /\ reply[i] = "lost"
    BY <1>1, <2>1, AnsweredFacts DEF Given, Waits
  <2>3. Given(i, r.method)'
    BY <1>1, <1>2, <2>1, <2>2, AnsweredFacts DEF Given, Waits
  <2>4. Meant(i, r.method, r.argument)'
    BY <1>2, <2>1, MeantKept
  <2> QED
    BY <1>2, <1>10, <2>1, <2>2, <2>3, <2>4 DEF JobSound
<1>11. stage.by = i => i \in roots'
  BY <1>2, Names DEF ImportsInv, StageSound, ImportTypes, WorkerTypes, Stage
<1> QED
  BY <1>2, <1>3, <1>4, <1>9, <1>10, <1>11, ImporterKeeps

-----------------------------------------------------------------------------
(* What the worker stages and publishes                                      *)

\* Of transactions, and one more: what comes before any of them.
LEMMA PrefixOfAppend ==
  ASSUME NEW s \in Seq(Transaction), NEW t \in Transaction, NEW k \in 1 .. Len(s) + 1
  PROVE  SubSeq(Append(s, t), 1, k - 1) = SubSeq(s, 1, k - 1)
<1> DEFINE u == Append(s, t)
<1>1. /\ Len(s) \in Nat /\ u \in Seq(Transaction) /\ Len(u) = Len(s) + 1
      /\ \A j \in 1 .. Len(s) : u[j] = s[j]
  BY AppendProperties, LenProperties
<1>2. \A j \in 1 .. k - 1 : j \in 1 .. Len(s)
  BY <1>1
<1>3. \A j \in 1 .. k - 1 : u[j] \in Transaction /\ s[j] \in Transaction /\ u[j] = s[j]
  BY <1>1, <1>2, ElementOfSeq
<1> HIDE DEF u
<1>4. k - 1 \in Nat /\ 1 \in Int /\ k - 1 \in Int /\ (k - 1) - 1 + 1 = k - 1
  BY <1>1
<1>5. /\ SubSeq(u, 1, k - 1) \in Seq(Transaction) /\ Len(SubSeq(u, 1, k - 1)) = k - 1
      /\ \A j \in 1 .. k - 1 : SubSeq(u, 1, k - 1)[j] = u[j]
  BY <1>3, <1>4, SubSeqProperties
<1>6. /\ SubSeq(s, 1, k - 1) \in Seq(Transaction) /\ Len(SubSeq(s, 1, k - 1)) = k - 1
      /\ \A j \in 1 .. k - 1 : SubSeq(s, 1, k - 1)[j] = s[j]
  BY <1>3, <1>4, SubSeqProperties
<1>7. SubSeq(u, 1, k - 1) = SubSeq(s, 1, k - 1)
  BY <1>3, <1>5, <1>6, SeqEqual
<1> QED
  BY <1>7 DEF u

\* Transactions are what comes before the last, and the last.
LEMMA AppendLast ==
  ASSUME NEW n \in Nat, n > 0, NEW u \in Seq(Transaction), Len(u) = n
  PROVE  u = Append(SubSeq(u, 1, n - 1), u[n])
<1> DEFINE s == SubSeq(u, 1, n - 1)
<1>1. n - 1 \in Nat /\ (n - 1) + 1 = n /\ \A k \in 1 .. n - 1 : k \in 1 .. Len(u)
  OBVIOUS
<1>2. \A k \in 1 .. n - 1 : u[k] \in Transaction
  BY <1>1, ElementOfSeq
<1>3. 1 \in Int /\ n - 1 \in Int /\ (n - 1) - 1 + 1 = n - 1
  BY <1>1
<1>4. s \in Seq(Transaction) /\ Len(s) = n - 1 /\ \A k \in 1 .. n - 1 : s[k] = u[k]
  BY <1>2, <1>3, SubSeqProperties
<1> HIDE DEF s
<1>5. u = Append(s, u[(n - 1) + 1])
  BY <1>1, <1>4, AllButLast
<1> QED
  BY <1>1, <1>5 DEF s

\* A transaction that applies to the replay of what is staged can be staged.
LEMMA ConsistentGrows ==
  ASSUME NEW base, NEW s \in Seq(Transaction), NEW t \in Transaction,
         Consistent(base, s), Applies(Replay(base, s), t)
  PROVE  Consistent(base, Append(s, t))
<1>1. /\ Len(s) \in Nat /\ Append(s, t) \in Seq(Transaction)
      /\ Len(Append(s, t)) = Len(s) + 1
      /\ \A k \in 1 .. Len(s) : Append(s, t)[k] = s[k]
      /\ Append(s, t)[Len(s) + 1] = t
  BY AppendProperties, LenProperties
<1>2. DOMAIN Append(s, t) = 1 .. Len(s) + 1 /\ DOMAIN s = 1 .. Len(s)
  BY <1>1, LenProperties
<1> SUFFICES ASSUME NEW k \in 1 .. Len(s) + 1
             PROVE  Applies(Replay(base, SubSeq(Append(s, t), 1, k - 1)), Append(s, t)[k])
  BY <1>2 DEF Consistent
<1>3. SubSeq(Append(s, t), 1, k - 1) = SubSeq(s, 1, k - 1)
  BY PrefixOfAppend
<1>4. CASE k \in 1 .. Len(s)
  BY <1>1, <1>2, <1>3, <1>4 DEF Consistent
<1>5. CASE k = Len(s) + 1
  <2>1. k - 1 = Len(s)
    BY <1>1, <1>5
  <2>2. SubSeq(s, 1, k - 1) = s
    BY <2>1, SubSeqFull
  <2> QED
    BY <1>1, <1>3, <1>5, <2>2
<1> QED
  BY <1>1, <1>4, <1>5

\* Of sequences of records: what they make together.
LEMMA Joined ==
  ASSUME NEW s \in Seq(FileRecord), NEW t \in Seq(FileRecord), NEW m, NEW n,
         Len(s) = m, Len(t) = n
  PROVE  /\ s \o t \in Seq(FileRecord) /\ Len(s \o t) = m + n
         /\ \A k \in 1 .. m + n : (s \o t)[k] = IF k <= m THEN s[k] ELSE t[k - m]
  BY ConcatProperties

\* Two files with the same header, rows and transactions are the same.
LEMMA RecordsAre ==
  ASSUME NEW h, NEW rows \in Seq(Rows), BaselineRows(h.rows) = rows,
         h.transactions \in Seq(Transaction), InfoOf(h) \in Info,
         NEW rs \in Seq(FileRecord),
         Len(rs) = 1 + Len(rows) + Len(h.transactions),
         rs[1] = Manifest(InfoOf(h)),
         \A k \in 1 .. Len(rows) : rs[1 + k] = RowRecord(rows[k]),
         \A j \in 1 .. Len(h.transactions) : rs[1 + Len(rows) + j] = CommitRecord(h.transactions[j])
  PROVE  rs = Records(h)
<1> DEFINE w == Len(rows)  n == Len(h.transactions)  ts == h.transactions
           a == << Manifest(InfoOf(h)) >>
           b == [i \in 1 .. w |-> RowRecord(rows[i])]
           c == [i \in 1 .. n |-> CommitRecord(ts[i])]
<1>1. w \in Nat /\ n \in Nat /\ DOMAIN rows = 1 .. w /\ DOMAIN ts = 1 .. n
  BY LenProperties
<1>2. Manifest(InfoOf(h)) \in FileRecord
  BY DEF Manifest, FileRecord
<1>3. a \in Seq(FileRecord) /\ Len(a) = 1 /\ a[1] = Manifest(InfoOf(h))
  BY <1>2
<1>4. b \in Seq(FileRecord) /\ Len(b) = w /\ \A k \in 1 .. w : b[k] = RowRecord(rows[k])
  <2>1. \A k \in 1 .. w : RowRecord(rows[k]) \in FileRecord
    BY ElementOfSeq DEF RowRecord, FileRecord
  <2>2. b \in [1 .. w -> FileRecord] /\ \A k \in 1 .. w : b[k] = RowRecord(rows[k])
    BY <2>1
  <2>3. b \in Seq(FileRecord)
    BY <1>1, <2>2, SeqDef
  <2>4. Len(b) \in Nat /\ 1 .. Len(b) = 1 .. w
    BY <2>2, <2>3, LenProperties
  <2> HIDE DEF b, w
  <2>5. Len(b) = w
    BY <1>1, <2>4
  <2> QED
    BY <2>2, <2>3, <2>5
<1>5. c \in Seq(FileRecord) /\ Len(c) = n /\ \A k \in 1 .. n : c[k] = CommitRecord(ts[k])
  <2>1. \A k \in 1 .. n : CommitRecord(ts[k]) \in FileRecord
    BY ElementOfSeq DEF CommitRecord, FileRecord
  <2>2. c \in [1 .. n -> FileRecord] /\ \A k \in 1 .. n : c[k] = CommitRecord(ts[k])
    BY <2>1
  <2> HIDE DEF c, n
  <2>3. c \in Seq(FileRecord)
    BY <1>1, <2>2, SeqDef
  <2>4. Len(c) \in Nat /\ 1 .. Len(c) = 1 .. n
    BY <2>2, <2>3, LenProperties
  <2>5. Len(c) = n
    BY <1>1, <2>4
  <2> QED
    BY <2>2, <2>3, <2>5
<1>6. Records(h) = a \o b \o c
  BY <1>1 DEF Records
<1> HIDE DEF a, b, c, w, n, ts
<1>7. /\ a \o b \in Seq(FileRecord) /\ Len(a \o b) = 1 + w
      /\ \A i \in 1 .. 1 + w : (a \o b)[i] = IF i <= 1 THEN a[i] ELSE b[i - 1]
  <2>1. a \in Seq(FileRecord) /\ Len(a) = 1 /\ b \in Seq(FileRecord) /\ Len(b) = w
    BY <1>3, <1>4
  <2> PICK m : m = 1
    OBVIOUS
  <2>2. a \in Seq(FileRecord) /\ Len(a) = m /\ b \in Seq(FileRecord) /\ Len(b) = w
    BY <2>1
  <2>3. /\ a \o b \in Seq(FileRecord) /\ Len(a \o b) = m + w
        /\ \A i \in 1 .. m + w : (a \o b)[i] = IF i <= m THEN a[i] ELSE b[i - m]
    BY ONLY <2>2, Joined
  <2> QED
    BY ONLY <2>3, m = 1
<1>8. /\ a \o b \o c \in Seq(FileRecord) /\ Len(a \o b \o c) = 1 + w + n
      /\ \A i \in 1 .. 1 + w + n :
           (a \o b \o c)[i] = IF i <= 1 + w THEN (a \o b)[i] ELSE c[i - (1 + w)]
  <2>1. /\ a \o b \in Seq(FileRecord) /\ Len(a \o b) = 1 + w
        /\ c \in Seq(FileRecord) /\ Len(c) = n
    BY <1>5, <1>7
  <2> QED
    BY ONLY <2>1, Joined
<1>9. ASSUME NEW i \in 1 .. 1 + w + n PROVE rs[i] = (a \o b \o c)[i]
  <2>1. CASE i = 1
    <3>1. i <= 1 + w /\ i \in 1 .. 1 + w /\ i <= 1
      BY <1>1, <2>1
    <3> QED
      BY <3>1, <2>1, <1>3, <1>7, <1>8
  <2>2. CASE i > 1 /\ i <= 1 + w
    <3>1. i - 1 \in 1 .. w /\ i \in 1 .. 1 + w /\ ~(i <= 1) /\ 1 + (i - 1) = i
      BY <1>1, <2>2
    <3>2. rs[1 + (i - 1)] = RowRecord(rows[i - 1])
      BY <3>1 DEF w
    <3> QED
      BY <3>1, <3>2, <2>2, <1>4, <1>7, <1>8
  <2>3. CASE i > 1 + w
    <3>1. i - (1 + w) \in 1 .. n /\ ~(i <= 1 + w) /\ 1 + w + (i - (1 + w)) = i
      BY <1>1, <2>3
    <3>2. rs[1 + w + (i - (1 + w))] = CommitRecord(ts[i - (1 + w)])
      BY <3>1 DEF w, n, ts
    <3> QED
      BY <3>1, <3>2, <1>5, <1>8
  <2>4. i = 1 \/ (i > 1 /\ i <= 1 + w) \/ i > 1 + w
    BY <1>1
  <2> QED
    BY <2>1, <2>2, <2>3, <2>4
<1>10. Len(rs) = 1 + w + n
  BY DEF w, n, ts
<1>11. rs = a \o b \o c
  BY <1>8, <1>9, <1>10, SeqEqual
<1> QED
  BY <1>6, <1>11

\* A file that has been verified to its end is the file of what it declares and
\* holds.
LEMMA WholeFile ==
  ASSUME NEW file \in File, NEW c \in Checking, NEW h,
         Checked(file, c, Len(file.records)), Complete(c), file.header, Sealed(file),
         h.transactions = Commits(file, c), InfoOf(h) = c.info
  PROVE  file = FileOf(h)
<1> DEFINE rs == file.records  w == Len(c.rows)  n == c.transactions
<1>1. /\ w \in Nat /\ n \in Nat /\ Len(rs) \in Nat /\ rs \in Seq(FileRecord)
      /\ c.rows \in Seq(Rows) /\ c.info \in Info
      /\ Len(rs) = 1 + w + n /\ rs[1].kind = "manifest" /\ rs[1].info = c.info
      /\ \A k \in 1 .. w : rs[1 + k] = RowRecord(c.rows[k])
  BY CheckingTyped, FileTyped DEF Checked
<1>2. rs[1] = Manifest(c.info)
  <2>1. 1 \in 1 .. Len(rs)
    BY <1>1
  <2> QED
    BY <2>1, <1>1, FileTyped
<1>3. c.rows = c.info.checksum
  BY CheckingTyped DEF Complete, BaselineComplete, Checked
<1>4. BaselineRows(h.rows) = c.rows
  BY <1>3 DEF InfoOf
<1>5. /\ h.transactions \in Seq(Transaction) /\ Len(h.transactions) = n
      /\ \A j \in 1 .. n : rs[1 + w + j] = CommitRecord(h.transactions[j])
  BY CommitsTyped
<1>6. rs = Records(h)
  BY <1>1, <1>2, <1>4, <1>5, RecordsAre
<1>7. file = [header |-> TRUE, records |-> rs, trailer |-> Trailer(rs), more |-> FALSE]
  <2>1. file = [header |-> file.header, records |-> file.records, trailer |-> file.trailer,
                more |-> file.more]
    BY DEF File
  <2>2. file.header = TRUE /\ file.more = FALSE
    BY FileTyped DEF Sealed
  <2> QED
    BY <2>1, <2>2 DEF Sealed
<1> QED
  BY <1>6, <1>7 DEF FileOf, Framed

\* What an import publishes when the destination is asked for what its file
\* declares.
LEMMA PublishedWhole ==
  ASSUME NEW s \in Stage, NEW info \in Info, info.status # "bootstrapping", NEW status,
         s.baseline.done, InfoOf(Staged(s, status)) = Expected(info), status \in Closed,
         Consistent([position |-> s.baseline.position, rows |-> s.rows], s.transactions)
  PROVE  LET h == Staged(s, status)
         IN /\ h.id = s.id /\ IsHistory(h) /\ h \in History
            /\ info.status \in Closed \union {"recording"}
            /\ h.status = IF info.status = "recording" THEN "interrupted" ELSE info.status
            /\ InfoOf([h EXCEPT !.status = info.status]) = info
            /\ [h EXCEPT !.status = info.status].transactions = s.transactions
<1> DEFINE h == Staged(s, status)  g == [h EXCEPT !.status = info.status]
<1>1. /\ h.id = s.id /\ h.status = status /\ h.baseline = s.baseline.position /\ h.rows = s.rows
      /\ h.transactions = s.transactions
      /\ h = [id |-> h.id, status |-> h.status, baseline |-> h.baseline, rows |-> h.rows,
              transactions |-> h.transactions]
  BY DEF Staged
<1>2. /\ s.id \in Ids /\ s.rows \in SUBSET Rows /\ s.transactions \in Seq(Transaction)
      /\ s.baseline.position \in Position
  BY DEF Stage
<1>3. h \in History
  BY <1>1, <1>2 DEF History
<1>4. IsHistory(h)
  <2>1. \A k \in DOMAIN h.transactions : h.transactions[k] \in Transaction
    BY <1>1, <1>2, LenProperties, ElementOfSeq
  <2> QED
    BY <1>1, <1>2, <2>1 DEF IsHistory
<1>5. info.status \in Closed \union {"recording"}
  BY DEF Info
<1>6. h.status = Expected(info).status
  BY <1>1 DEF InfoOf
<1>7. h.status = IF info.status = "recording" THEN "interrupted" ELSE info.status
  BY <1>6 DEF Expected, Info
<1>8. /\ g.id = h.id /\ g.status = info.status /\ g.baseline = h.baseline /\ g.rows = h.rows
      /\ g.transactions = h.transactions
  BY <1>3 DEF History
<1>9. InfoOf(g) = info
  <2>1. info = [id |-> info.id, status |-> info.status, baseline |-> info.baseline,
                head |-> info.head, rowCount |-> info.rowCount, checksum |-> info.checksum,
                transactionCount |-> info.transactionCount]
    BY DEF Info
  <2>2. /\ Expected(info).id = info.id /\ Expected(info).baseline = info.baseline
        /\ Expected(info).head = info.head /\ Expected(info).rowCount = info.rowCount
        /\ Expected(info).checksum = info.checksum
        /\ Expected(info).transactionCount = info.transactionCount
    BY DEF Expected, Info
  <2> HIDE DEF g, h
  <2>3. HeadOf(g) = HeadOf(h)
    BY <1>8 DEF HeadOf
  <2>4. InfoOf(h) = Expected(info)
    BY DEF h
  <2>5. /\ h.id = info.id /\ h.baseline = info.baseline /\ HeadOf(h) = info.head
        /\ Cardinality(h.rows) = info.rowCount /\ BaselineRows(h.rows) = info.checksum
        /\ Len(h.transactions) = info.transactionCount
    BY <2>2, <2>4 DEF InfoOf
  <2> QED
    BY <1>8, <2>1, <2>3, <2>5 DEF InfoOf
<1> QED
  BY <1>1, <1>3, <1>4, <1>5, <1>7, <1>8, <1>9

-----------------------------------------------------------------------------
(* The worker's steps                                                        *)

\* The request at the head of the queue, and what is behind it.
LEMMA HeadJob ==
  ASSUME ImportsInv, queue # << >>
  PROVE  /\ Job = queue[1] /\ Job \in Queued /\ Job \in Requests /\ Job.from \in Importers
         /\ Job.method \in Methods /\ JobSound(Job) /\ Given(Job.from, Job.method)
         /\ Meant(Job.from, Job.method, Job.argument)
         /\ Tail(queue) \in Seq(Requests) /\ Len(queue) \in Nat
         /\ Len(Tail(queue)) = Len(queue) - 1
         /\ \A k \in 1 .. Len(Tail(queue)) :
              /\ k + 1 \in 1 .. Len(queue) /\ Tail(queue)[k] = queue[k + 1]
              /\ queue[k + 1] \in Queued /\ queue[k + 1].from # Job.from
<1>1. queue \in Seq(Requests) /\ Len(queue) \in Nat /\ Len(queue) # 0
  BY EmptySeq, LenProperties DEF ImportsInv, ImportTypes, WorkerTypes
<1>2. Job = queue[1] /\ 1 \in 1 .. Len(queue)
  BY <1>1 DEF Job
<1>3. Job \in Queued
  BY <1>2 DEF Queued
<1>4. /\ Tail(queue) \in Seq(Requests) /\ Len(Tail(queue)) = Len(queue) - 1
      /\ \A k \in 1 .. Len(Tail(queue)) : Tail(queue)[k] = queue[k + 1]
  BY <1>1, HeadTailProperties
<1>5. \A k \in 1 .. Len(Tail(queue)) : k + 1 \in 1 .. Len(queue) /\ k + 1 # 1
  BY <1>1, <1>4
<1>6. \A k \in 1 .. Len(Tail(queue)) : queue[k + 1] \in Queued /\ queue[k + 1].from # Job.from
  BY <1>2, <1>5 DEF Queued, ImportsInv, QueueSound
<1>7. JobSound(Job) /\ Job \in Requests /\ Job.from \in Importers /\ Job.method \in Methods
  BY <1>3, QueuedTyped
<1> QED
  BY <1>1, <1>2, <1>3, <1>4, <1>5, <1>6, <1>7 DEF JobSound

\* What an answer changes.
LEMMA AnswerFacts ==
  ASSUME ImportTypes, NEW i \in Importers, NEW value \in {"ok", "refused"}, Answer(i, value)
  PROVE  /\ reply' \in [Importers -> {"none", "ok", "refused", "lost"}]
         /\ client = "failed" => reply' = reply
         /\ client # "failed" => reply'[i] = value
         /\ \A j \in Importers \ {i} : reply'[j] = reply[j]
         /\ queue' = Tail(queue)
         /\ UNCHANGED <<workerUp, client, store, roots, input, at, check, batch, baselined, opened,
                        phase, asked, aborted, flag, errors>>
  BY DEF Answer, ImportTypes, WaitTypes, callVars, signalVars

\* What the worker has of the import it answers, unless the client is lost.
LEMMA StagedSoFar ==
  ASSUME ImportsInv, queue # << >>, client # "failed", stage.by = Job.from,
         Job.method # "closeImport"
  PROVE  stage.transactions =
           IF Job.method = "importAppend"
             THEN SubSeq(Consumed(Job.from), 1, check[Job.from].transactions - 1)
             ELSE Consumed(Job.from)
<1>1. StagedSound(Job.from) /\ Given(Job.from, Job.method)
  BY HeadJob DEF ImportsInv, ImportSound
<1>2. phase[Job.from] = "asking" /\ asked[Job.from] = Job.method /\ reply[Job.from] = "none"
  BY <1>1 DEF Given, Waits
<1> QED
  BY <1>1, <1>2 DEF StagedSound, Waits

\* The import that is answered is sound when the answer says what was done.
LEMMA AnsweredSound ==
  ASSUME ImportsInv, queue # << >>, NEW i, i = Job.from,
         NEW value \in {"ok", "refused"}, Answer(i, value),
         Job.method = "beginImport" /\ value = "refused" => stage'.by # i,
         Job.method = "closeImport" /\ value = "ok" => stage'.by # i,
         Job.method # "closeImport" /\ value = "ok" /\ client # "failed"
           /\ stage'.by = i => stage'.transactions = Consumed(i),
         stage'.by = i => stage.by = i \/ Job.method = "beginImport",
         Job.method = "publishImport" /\ value = "ok" => Published(i)',
         Published(i) => Published(i)',
         Published(i)' => Published(i) \/ (Job.method = "publishImport" /\ value = "ok")
  PROVE  ImportSound(i)'
<1> PICK m : m = Job.method
  OBVIOUS
<1>1. /\ ImportTypes /\ i \in Importers /\ ImportSound(i) /\ Given(i, m) /\ m \in Methods
      /\ check[i] # NoValidation
  BY HeadJob DEF ImportsInv, JobSound
<1>2. /\ client = "failed" => reply' = reply
      /\ client # "failed" => reply'[i] = value
      /\ UNCHANGED <<workerUp, client, store, roots, input, at, check, batch, baselined, opened,
                     phase, asked, aborted, flag, errors>>
  BY <1>1, AnswerFacts
<1>3. CheckSound(i)'
  BY <1>1, <1>2 DEF ImportSound, CheckSound
<1>4. /\ client # "failed" => phase[i] = "asking" /\ asked[i] = m /\ reply[i] = "none"
      /\ client = "failed" =>
           \/ phase[i] = "asking" /\ asked[i] = m /\ reply[i] = "lost"
           \/ phase[i] \in {"ending", "discarding"} /\ errors[i] \cap {"lost", "unclean"} # {}
           \/ /\ phase[i] = "asking" /\ asked[i] = "closeImport" /\ reply[i] = "lost"
              /\ errors[i] \cap {"lost", "unclean"} # {}
  BY <1>1 DEF Given, Waits
<1>5. PhaseSound(i)'
  BY <1>1, <1>2, <1>4, Typed DEF ImportSound, PhaseSound, Waits
<1>6. StagedSound(i)'
  <2>1. Consumed(i)' = Consumed(i)
    BY <1>2 DEF Consumed, Commits
  <2> QED
    BY <1>2, <1>4, <2>1 DEF StagedSound, Waits
<1>7. OutcomeSound(i)'
  <2>1. Over(i)' <=> Over(i)
    BY <1>2 DEF Over, Waits
  <2>2. Published(i)' /\ Over(i) =>
          errors[i] = {} \/ errors[i] \cap {"lost", "unclean", "unremoved"} # {}
    BY <1>1, <1>4 DEF ImportSound, OutcomeSound, Over, Waits
  <2>3. Published(i)' => Over(i) \/ (phase[i] = "asking" /\ asked[i] = "publishImport"
                                      /\ reply'[i] \in {"ok", "lost"})
    BY <1>1, <1>2, <1>4 DEF ImportSound, OutcomeSound, Over, Waits
  <2>4. phase[i] = "asking" /\ asked[i] = "publishImport" /\ reply'[i] = "ok" => Published(i)'
    BY <1>1, <1>2, <1>4 DEF ImportSound, OutcomeSound, Waits
  <2> QED
    BY <1>1, <1>2, <2>1, <2>2, <2>3, <2>4 DEF ImportSound, OutcomeSound, Waits
<1> QED
  BY <1>3, <1>5, <1>6, <1>7 DEF ImportSound

\* An answer takes a request from the queue, and leaves the others as they were.
LEMMA AnswerKeeps ==
  ASSUME ImportsInv, workerUp, queue # << >>, NEW i, i = Job.from, NEW value \in {"ok", "refused"},
         Answer(i, value), committing' = Nobody,
         dest' \in [Ids -> Recorded], stage' \in Stage \union {NoStage}, StageSound',
         ImportSound(i)', OnlyVerifiedPublished',
         \A j \in Importers \ {i} :
           /\ stage'.by = j => stage.by = j /\ stage'.transactions = stage.transactions
           /\ \A id \in Ids : dest'[id].by = j <=> dest[id].by = j
  PROVE  ImportsInv'
<1>1. ImportTypes /\ i \in Importers /\ Tail(queue) \in Seq(Requests)
  BY HeadJob DEF ImportsInv
<1>2. /\ reply' \in [Importers -> {"none", "ok", "refused", "lost"}]
      /\ \A j \in Importers \ {i} : reply'[j] = reply[j]
      /\ queue' = Tail(queue)
      /\ UNCHANGED <<workerUp, client, store, roots, input, at, check, batch, baselined, opened,
                     phase, asked, aborted, flag, errors>>
  BY <1>1, AnswerFacts
<1>3. ImportTypes'
  BY <1>1, <1>2 DEF ImportTypes, WorkerTypes, CallTypes, WaitTypes
<1>4. \A j \in Importers \ {i} : Same(j) /\ Apart(j)
  BY <1>2 DEF Same, Apart
<1>5. \A j \in Importers : ImportSound(j)'
  BY <1>4, ApartSound DEF ImportsInv
<1>6. /\ \A k \in 1 .. Len(queue') :
            /\ k + 1 \in 1 .. Len(queue) /\ queue'[k] = queue[k + 1]
            /\ queue[k + 1] \in Queued /\ queue[k + 1].from # i
      /\ Len(queue) \in Nat /\ Len(queue') = Len(queue) - 1
  BY <1>2, HeadJob
<1>7. QueueSound'
  <2>1. ASSUME NEW r \in Queued' PROVE JobSound(r)'
    <3>1. PICK k \in 1 .. Len(queue') : r = queue'[k]
      BY DEF Queued
    <3>2. r \in Queued /\ r.from # i
      BY <1>6, <3>1
    <3>3. r.from \in Importers /\ JobSound(r)
      BY <3>2, QueuedTyped
    <3> QED
      BY <1>2, <1>4, <3>2, <3>3, JobKept
  <2>3. ASSUME NEW k \in 1 .. Len(queue'), NEW l \in 1 .. Len(queue'),
               queue'[k].from = queue'[l].from
        PROVE  k = l
    <3>1. k + 1 = l + 1
      BY <1>6, <2>3 DEF ImportsInv, QueueSound
    <3> QED
      BY <1>6, <3>1
  <2> QED
    BY <2>1, <2>3 DEF QueueSound
<1>8. CommitSound' /\ ClientSound'
  BY <1>2 DEF CommitSound, ClientSound
<1> QED
  BY <1>3, <1>5, <1>7, <1>8 DEF ImportsInv

\* Nothing was done, and the caller is told so.
LEMMA RefusedKeeps ==
  ASSUME ImportsInv, workerUp, queue # << >>, NEW i, i = Job.from, Answer(i, "refused"),
         committing' = Nobody, UNCHANGED <<dest, stage>>
  PROVE  ImportsInv'
<1>1. ImportTypes /\ i \in Importers /\ Meant(i, Job.method, Job.argument)
  BY HeadJob DEF ImportsInv
<1>2. dest' \in [Ids -> Recorded] /\ stage' \in Stage \union {NoStage}
  BY <1>1 DEF ImportTypes, WorkerTypes
<1>3. UNCHANGED <<workerUp, roots, input>>
  BY <1>1, AnswerFacts
<1>4. StageSound'
  BY <1>3 DEF ImportsInv, StageSound
<1>5. OnlyVerifiedPublished'
  BY <1>3, DestKept DEF ImportsInv
<1>6. Published(i)' <=> Published(i)
  BY DEF Published, PublishedBy
<1>7. ImportSound(i)'
  <2>1. Job.method = "beginImport" => stage'.by # i
    BY <1>1 DEF Meant
  <2> QED
    BY <1>6, <2>1, AnsweredSound
<1> QED
  BY <1>2, <1>4, <1>5, <1>7, AnswerKeeps

\* The worker has staged something, and says so.
LEMMA StagedKeeps ==
  ASSUME ImportsInv, workerUp, queue # << >>, NEW i, i = Job.from, Answer(i, "ok"),
         Job.method \notin {"publishImport", "closeImport"},
         committing' = Nobody, dest' = dest, stage' \in Stage, stage'.by = i, StageSound',
         stage.by = i \/ stage = NoStage,
         stage.by = i \/ Job.method = "beginImport",
         client # "failed" => stage'.transactions = Consumed(i)
  PROVE  ImportsInv'
<1>1. ImportTypes /\ i \in Importers
  BY HeadJob DEF ImportsInv
<1>2. dest' \in [Ids -> Recorded]
  BY <1>1 DEF ImportTypes, WorkerTypes
<1>3. UNCHANGED input
  BY <1>1, AnswerFacts
<1>4. OnlyVerifiedPublished'
  BY <1>3, DestKept DEF ImportsInv
<1>5. Published(i)' <=> Published(i)
  BY DEF Published, PublishedBy
<1>6. ImportSound(i)'
  BY <1>5, AnsweredSound
<1> QED
  BY <1>2, <1>4, <1>6, AnswerKeeps

\* The worker begins an import, for one that has nothing yet.
LEMMA RunBeginKeeps ==
  ASSUME ImportsInv, RunBegin PROVE ImportsInv'
<1> PICK i : i = Job.from
  OBVIOUS
<1>1. /\ workerUp /\ queue # << >> /\ Job.method = "beginImport" /\ committing = Nobody
      /\ committing' = Nobody /\ dest' = dest
  BY DEF RunBegin, JobOf
<1>2. /\ i \in Importers /\ JobSound(Job) /\ Meant(i, "beginImport", Job.argument) /\ ImportTypes
      /\ i \in roots /\ check[i] # NoValidation
  BY <1>1, HeadJob DEF ImportsInv, JobSound
<1>3. CASE Answer(i, "refused") /\ stage' = stage
  BY <1>1, <1>3, RefusedKeeps
<1>4. CASE /\ stage = NoStage /\ Answer(i, "ok")
           /\ stage' = [by |-> i, id |-> Job.argument, rows |-> {},
                        baseline |-> [done |-> FALSE], transactions |-> << >>, sealed |-> FALSE]
  <2>1. Job.argument \in Ids /\ check[i].transactions = 0
    BY <1>2, CheckTyped DEF Meant, Info
  <2>2. << >> \in Seq(Transaction)
    OBVIOUS
  <2>3. /\ stage' \in Stage /\ stage'.by = i /\ ~stage'.baseline.done
        /\ stage'.transactions = << >>
    BY <1>2, <1>4, <2>1, <2>2 DEF Stage
  <2>4. Consumed(i) = << >>
    BY <2>1 DEF Consumed, Commits
  <2>5. UNCHANGED <<workerUp, roots>>
    BY <1>2, <1>4, AnswerFacts
  <2>6. StageSound'
    BY <1>1, <1>2, <2>3, <2>5 DEF StageSound
  <2> QED
    BY <1>1, <1>4, <2>3, <2>4, <2>6, StagedKeeps
<1> QED
  BY <1>3, <1>4 DEF RunBegin

\* Rows are staged before the baseline is complete.
LEMMA RunBaselineKeeps ==
  ASSUME ImportsInv, RunBaseline PROVE ImportsInv'
<1> PICK i : i = Job.from
  OBVIOUS
<1>1. /\ workerUp /\ queue # << >> /\ Job.method = "importBaseline" /\ committing = Nobody
      /\ committing' = Nobody /\ dest' = dest
  BY DEF RunBaseline, JobOf
<1>2. /\ i \in Importers /\ Meant(i, "importBaseline", Job.argument) /\ ImportTypes /\ i \in roots
  BY <1>1, HeadJob DEF ImportsInv, JobSound
<1>3. CASE Answer(i, "refused") /\ stage' = stage
  BY <1>1, <1>3, RefusedKeeps
<1>4. CASE /\ stage.by = i /\ ~stage.baseline.done /\ Answer(i, "ok")
           /\ stage' = [stage EXCEPT !.rows = @ \union RowsOf(Job.argument)]
  <2>1. stage \in Stage
    BY <1>2, <1>4, Names DEF ImportTypes, WorkerTypes
  <2>2. RowsOf(Job.argument) \subseteq Rows
    BY <1>2, LenProperties, ElementOfSeq DEF Meant, RowsOf
  <2>3. /\ stage' \in Stage /\ stage'.by = i /\ stage'.baseline = stage.baseline
        /\ stage'.transactions = stage.transactions
    BY <1>4, <2>1, <2>2 DEF Stage
  <2>4. client # "failed" => stage.transactions = Consumed(i)
    BY <1>1, <1>4, StagedSoFar
  <2>5. UNCHANGED <<workerUp, roots>>
    BY <1>2, <1>4, AnswerFacts
  <2>6. StageSound'
    BY <1>1, <1>2, <1>4, <2>1, <2>3, <2>5, Names DEF ImportsInv, StageSound
  <2> QED
    BY <1>1, <1>4, <2>3, <2>4, <2>6, StagedKeeps
<1> QED
  BY <1>3, <1>4 DEF RunBaseline, Owns

\* The baseline is completed once, before any transaction.
LEMMA RunBaselineCompleteKeeps ==
  ASSUME ImportsInv, RunBaselineComplete PROVE ImportsInv'
<1> PICK i : i = Job.from
  OBVIOUS
<1>1. /\ workerUp /\ queue # << >> /\ Job.method = "importBaselineComplete" /\ committing = Nobody
      /\ committing' = Nobody /\ dest' = dest
  BY DEF RunBaselineComplete, JobOf
<1>2. /\ i \in Importers /\ ImportTypes /\ i \in roots /\ Job.argument \in Position
  BY <1>1, HeadJob DEF ImportsInv, JobSound, Meant
<1>3. CASE Answer(i, "refused") /\ stage' = stage
  BY <1>1, <1>3, RefusedKeeps
<1>4. CASE /\ stage.by = i /\ ~stage.baseline.done /\ Answer(i, "ok")
           /\ stage' = [stage EXCEPT !.baseline = [done |-> TRUE, position |-> Job.argument]]
  <2>1. stage \in Stage /\ stage.transactions = << >>
    BY <1>2, <1>4, Names DEF ImportsInv, StageSound, ImportTypes, WorkerTypes
  <2>2. /\ stage' \in Stage /\ stage'.by = i /\ stage'.baseline.done
        /\ stage'.transactions = stage.transactions
    BY <1>2, <1>4, <2>1 DEF Stage
  <2>3. client # "failed" => stage.transactions = Consumed(i)
    BY <1>1, <1>4, StagedSoFar
  <2>4. UNCHANGED <<workerUp, roots>>
    BY <1>2, <1>4, AnswerFacts
  <2>5. \A base : Consistent(base, << >>)
    BY DEF Consistent
  <2>6. StageSound'
    BY <1>1, <1>2, <2>1, <2>2, <2>4, <2>5 DEF StageSound
  <2> QED
    BY <1>1, <1>4, <2>2, <2>3, <2>6, StagedKeeps
<1> QED
  BY <1>3, <1>4 DEF RunBaselineComplete, Owns

\* A transaction is staged that applies to what is staged, and was read last.
LEMMA RunAppendKeeps ==
  ASSUME ImportsInv, RunAppend PROVE ImportsInv'
<1> PICK i : i = Job.from
  OBVIOUS
<1> PICK t : t = Job.argument
  OBVIOUS
<1>1. /\ workerUp /\ queue # << >> /\ Job.method = "importAppend" /\ committing = Nobody
      /\ committing' = Nobody /\ dest' = dest
  BY DEF RunAppend, JobOf
<1>2. /\ i \in Importers /\ ImportTypes /\ i \in roots /\ check[i] # NoValidation
      /\ t \in Transaction /\ check[i].transactions > 0 /\ t = Consumed(i)[check[i].transactions]
  BY <1>1, HeadJob DEF ImportsInv, JobSound, Meant
<1>3. CASE Answer(i, "refused") /\ stage' = stage
  BY <1>1, <1>3, RefusedKeeps
<1>4. CASE /\ stage.by = i /\ stage.baseline.done /\ StageApplies(t) /\ Answer(i, "ok")
           /\ stage' = [stage EXCEPT !.transactions = Append(@, t)]
  <2>1. stage \in Stage
    BY <1>2, <1>4, Names DEF ImportTypes, WorkerTypes
  <2>2. stage.transactions \in Seq(Transaction)
    BY <2>1 DEF Stage
  <2>3. Append(stage.transactions, t) \in Seq(Transaction)
    BY <1>2, <2>2
  <2>4. /\ stage' \in Stage /\ stage'.by = i /\ stage'.baseline = stage.baseline
        /\ stage'.rows = stage.rows
        /\ stage'.transactions = Append(stage.transactions, t)
    BY <1>4, <2>1, <2>3 DEF Stage
  <2>5. UNCHANGED <<workerUp, roots>>
    BY <1>2, <1>4, AnswerFacts
  <2>6. StageSound'
    <3> PICK base : base = [position |-> stage.baseline.position, rows |-> stage.rows]
      OBVIOUS
    <3> PICK s : s = stage.transactions
      OBVIOUS
    <3>1. Consistent(base, s)
      BY <1>4, <2>1, Names DEF ImportsInv, StageSound
    <3>2. Consistent(base, Append(s, t))
      BY <1>2, <1>4, <2>2, <3>1, ConsistentGrows DEF StageApplies
    <3> QED
      BY <1>1, <1>2, <1>4, <2>4, <2>5, <3>2 DEF StageSound
  <2>7. client # "failed" => stage'.transactions = Consumed(i)
    <3> SUFFICES ASSUME client # "failed" PROVE stage'.transactions = Consumed(i)
      OBVIOUS
    <3> PICK u : u = Consumed(i)
      OBVIOUS
    <3> PICK n : n = check[i].transactions
      OBVIOUS
    <3>1. stage.transactions = SubSeq(u, 1, n - 1)
      BY <1>1, <1>4, StagedSoFar
    <3>2. u \in Seq(Transaction) /\ Len(u) = n /\ n \in Nat
      <4>1. /\ check[i] \in Checking /\ check[i].transactions \in Nat /\ input[i] \in File
            /\ Checked(input[i], check[i], at[i])
        BY <1>2, CheckTyped DEF ImportsInv, ImportSound, CheckSound
      <4> QED
        BY <4>1, CommitsTyped DEF Consumed
    <3>3. u = Append(SubSeq(u, 1, n - 1), u[n])
      BY <1>2, <3>2, AppendLast
    <3> QED
      BY <1>2, <2>4, <3>1, <3>3
  <2> QED
    BY <1>1, <1>4, <2>4, <2>7, <2>6, StagedKeeps
<1> QED
  BY <1>3, <1>4 DEF RunAppend, Owns

\* A publication is decided on, or refused.
LEMMA RunPublishKeeps ==
  ASSUME ImportsInv, RunPublish PROVE ImportsInv'
<1> PICK i : i = Job.from
  OBVIOUS
<1>1. /\ workerUp /\ queue # << >> /\ Job.method = "publishImport" /\ committing = Nobody
      /\ dest' = dest /\ stage' = stage
  BY DEF RunPublish, JobOf
<1>2. i \in Importers /\ ImportTypes /\ Job = queue[1]
  BY <1>1, HeadJob DEF ImportsInv
<1>3. CASE Answer(i, "refused") /\ committing' = committing
  BY <1>1, <1>3, RefusedKeeps
<1>4. CASE /\ stage.by = i /\ stage.baseline.done /\ Job.argument.status \in Closed
           /\ InfoOf(Staged(stage, Job.argument.status)) = Job.argument
           /\ dest[Job.argument.id] = NoRecording
           /\ committing' = i
           /\ UNCHANGED <<queue, workerUp, client, store, roots, callVars, waitVars, signalVars,
                          errors>>
  <2> USE DEF callVars, waitVars, signalVars
  <2>1. ImportTypes'
    BY <1>1, <1>2, <1>4 DEF ImportTypes, WorkerTypes, CallTypes, WaitTypes
  <2>2. StageSound' /\ ClientSound'
    BY <1>1, <1>4 DEF ImportsInv, StageSound, ClientSound
  <2>3. \A j \in Importers : Same(j) /\ Apart(j)
    BY <1>1, <1>4 DEF Same, Apart
  <2>4. \A j \in Importers : ImportSound(j)'
    BY <2>3, ApartSound DEF ImportsInv
  <2>5. ASSUME NEW r \in Queued PROVE JobSound(r)'
    <3>1. r.from \in Importers /\ JobSound(r)
      BY QueuedTyped
    <3>2. /\ aborted'[r.from] = aborted[r.from] /\ flag'[r.from] = flag[r.from]
          /\ client' = client
      BY <1>4
    <3> QED
      BY <2>3, <3>1, <3>2, JobKept
  <2>6. QueueSound'
    BY <1>4, <2>5 DEF ImportsInv, QueueSound, Queued
  <2>7. stage.id = Job.argument.id
    <3>1. InfoOf(Staged(stage, Job.argument.status)).id = stage.id
      BY DEF InfoOf, Staged
    <3> QED
      BY <1>4, <3>1
  <2>8. CommitSound'
    BY <1>1, <1>2, <1>4, <2>7 DEF CommitSound
  <2>9. OnlyVerifiedPublished'
    BY <1>1, <1>4, DestKept DEF ImportsInv
  <2> QED
    BY <2>1, <2>2, <2>4, <2>6, <2>8, <2>9 DEF ImportsInv
<1> QED
  BY <1>3, <1>4 DEF RunPublish, Owns, Unused

\* What is published is what the file of its import holds.
LEMMA CommitKeeps ==
  ASSUME ImportsInv, CommitPublication PROVE ImportsInv'
<1> PICK i : i = committing
  OBVIOUS
<1> PICK s : s = stage
  OBVIOUS
<1> PICK h : h = Staged(s, Job.argument.status)
  OBVIOUS
<1>1. /\ workerUp /\ committing # Nobody /\ committing' = Nobody
      /\ dest' = [dest EXCEPT ![s.id] = [by |-> i, history |-> h]]
      /\ stage' = [s EXCEPT !.sealed = TRUE]
      /\ Answer(i, "ok")
  BY DEF CommitPublication
<1>2. /\ queue # << >> /\ Job = queue[1] /\ Job.from = i /\ Job.method = "publishImport"
      /\ s.by = i /\ s.baseline.done /\ Job.argument.status \in Closed
      /\ InfoOf(h) = Job.argument /\ dest[s.id] = NoRecording
  BY <1>1, HeadJob DEF ImportsInv, CommitSound
<1>3. /\ ImportTypes /\ i \in Importers /\ i \in roots /\ check[i] # NoValidation
      /\ Job.argument = Expected(check[i].info) /\ input[i].header /\ Sealed(input[i])
      /\ Complete(check[i]) /\ at[i] = Len(input[i].records)
      /\ s.transactions = Consumed(i)
  BY <1>2, HeadJob DEF ImportsInv, JobSound, Meant
<1>4. s \in Stage /\ s.id \in Ids
  BY <1>2, <1>3, Names DEF ImportTypes, WorkerTypes, Stage
<1>5. stage' \in Stage /\ stage'.by = i /\ stage'.transactions = s.transactions
      /\ stage'.baseline = s.baseline /\ stage'.rows = s.rows
  BY <1>1, <1>2, <1>4 DEF Stage
<1>6. Consistent([position |-> s.baseline.position, rows |-> s.rows], s.transactions)
  BY <1>2, <1>4, Names DEF ImportsInv, StageSound
<1>7. UNCHANGED <<workerUp, roots, input>>
  BY <1>1, <1>3, AnswerFacts
<1>8. StageSound'
  BY <1>1, <1>2, <1>3, <1>5, <1>6, <1>7 DEF StageSound
<1>9. /\ check[i] \in Checking /\ check[i].info \in Info /\ input[i] \in File
      /\ Checked(input[i], check[i], at[i]) /\ check[i].info.status # "bootstrapping"
  BY <1>3, CheckTyped DEF ImportsInv, ImportSound, CheckSound, Checked
<1>10. /\ h.id = s.id /\ IsHistory(h) /\ h \in History
       /\ check[i].info.status \in Closed \union {"recording"}
       /\ h.status = IF check[i].info.status = "recording" THEN "interrupted"
                                                           ELSE check[i].info.status
       /\ InfoOf([h EXCEPT !.status = check[i].info.status]) = check[i].info
       /\ [h EXCEPT !.status = check[i].info.status].transactions = s.transactions
  BY <1>2, <1>3, <1>4, <1>6, <1>9, PublishedWhole
<1>11. input[i] = FileOf([h EXCEPT !.status = check[i].info.status])
  <2> PICK file : file = input[i]
    OBVIOUS
  <2> PICK c : c = check[i]
    OBVIOUS
  <2> PICK g : g = [h EXCEPT !.status = c.info.status]
    OBVIOUS
  <2>1. /\ file \in File /\ c \in Checking /\ Checked(file, c, Len(file.records)) /\ Complete(c)
        /\ file.header /\ Sealed(file) /\ g.transactions = Commits(file, c) /\ InfoOf(g) = c.info
    BY <1>3, <1>9, <1>10 DEF Consumed
  <2>2. file = FileOf(g)
    BY ONLY <2>1, WholeFile
  <2> QED
    BY <2>2
<1>12. /\ dest' \in [Ids -> Recorded]
       /\ dest'[s.id] = [by |-> i, history |-> h]
       /\ \A id \in Ids \ {s.id} : dest'[id] = dest[id]
  <2>1. [by |-> i, history |-> h] \in Recorded
    BY <1>3, <1>10 DEF Recorded
  <2> QED
    BY <1>1, <1>3, <1>4, <2>1 DEF ImportTypes, WorkerTypes
<1>13. OnlyVerifiedPublished'
  <2> SUFFICES ASSUME NEW j \in Importers, NEW id \in Ids, PublishedBy(j, id)'
               PROVE  (LET g == dest[id].history
                       IN /\ g.id = id
                          /\ IsHistory(g)
                          /\ \E status \in Closed \union {"recording"} :
                               /\ input[j] = FileOf([g EXCEPT !.status = status])
                               /\ g.status = IF status = "recording" THEN "interrupted" ELSE status)'
    BY DEF OnlyVerifiedPublished
  <2>1. CASE id = s.id
    <3>1. j = i /\ dest'[id].history = h
      BY <1>12, <2>1 DEF PublishedBy
    <3> QED
      BY <1>7, <1>10, <1>11, <2>1, <3>1
  <2>2. CASE id # s.id
    <3>1. dest'[id] = dest[id] /\ PublishedBy(j, id)
      BY <1>12, <2>2 DEF PublishedBy
    <3>2. LET g == dest[id].history
          IN /\ g.id = id
             /\ IsHistory(g)
             /\ \E status \in Closed \union {"recording"} :
                  /\ input[j] = FileOf([g EXCEPT !.status = status])
                  /\ g.status = IF status = "recording" THEN "interrupted" ELSE status
      BY <3>1 DEF ImportsInv, OnlyVerifiedPublished
    <3> QED
      BY <1>7, <3>1, <3>2
  <2> QED
    BY <2>1, <2>2
<1>14. Published(i)'
  BY <1>4, <1>12 DEF Published, PublishedBy
<1>15. ImportSound(i)'
  BY <1>1, <1>2, <1>3, <1>5, <1>14, AnsweredSound
<1>16. \A j \in Importers \ {i} :
         /\ stage'.by = j => stage.by = j /\ stage'.transactions = stage.transactions
         /\ \A id \in Ids : dest'[id].by = j <=> dest[id].by = j
  BY <1>2, <1>5, <1>12, Names
<1> QED
  BY <1>1, <1>2, <1>5, <1>8, <1>12, <1>13, <1>15, <1>16, AnswerKeeps

\* A publication that fails leaves everything as it was.
LEMMA CommitFailsKeeps ==
  ASSUME ImportsInv, CommitFails PROVE ImportsInv'
<1>1. queue # << >> /\ Job.from = committing
  BY HeadJob DEF ImportsInv, CommitSound, CommitFails
<1> QED
  BY <1>1, RefusedKeeps DEF CommitFails

\* Any request may fail.
LEMMA RunFailsKeeps ==
  ASSUME ImportsInv, RunFails PROVE ImportsInv'
<1>1. /\ workerUp /\ queue # << >> /\ committing' = Nobody /\ UNCHANGED <<dest, stage>>
      /\ Answer(Job.from, "refused")
  BY DEF RunFails, workVars
<1> QED
  BY <1>1, RefusedKeeps

\* The worker's import is closed for the one who has it.
LEMMA RunCloseKeeps ==
  ASSUME ImportsInv, RunCloseImport PROVE ImportsInv'
<1> PICK i : i = Job.from
  OBVIOUS
<1>1. /\ workerUp /\ queue # << >> /\ Job.method = "closeImport" /\ committing = Nobody
      /\ committing' = Nobody /\ dest' = dest /\ Answer(i, "ok")
      /\ stage' = IF stage.by = i THEN NoStage ELSE stage
  BY DEF RunCloseImport, JobOf, Closes
<1>2. i \in Importers /\ ImportTypes
  BY <1>1, HeadJob DEF ImportsInv
<1>3. dest' \in [Ids -> Recorded] /\ stage' \in Stage \union {NoStage} /\ stage'.by # i
  BY <1>1, <1>2, Names DEF ImportTypes, WorkerTypes
<1>4. UNCHANGED <<workerUp, roots, input>>
  BY <1>1, <1>2, AnswerFacts
<1>5. StageSound'
  BY <1>1, <1>4 DEF ImportsInv, StageSound
<1>6. OnlyVerifiedPublished'
  BY <1>1, <1>4, DestKept DEF ImportsInv
<1>7. Published(i)' <=> Published(i)
  BY <1>1 DEF Published, PublishedBy
<1>8. ImportSound(i)'
  BY <1>1, <1>3, <1>7, AnsweredSound
<1>9. \A j \in Importers \ {i} :
        stage'.by = j => stage.by = j /\ stage'.transactions = stage.transactions
  BY <1>1, Names
<1> QED
  BY <1>1, <1>3, <1>5, <1>6, <1>8, <1>9, AnswerKeeps

-----------------------------------------------------------------------------
(* The client, the store's owner and other writers                           *)

\* An import whose client fails loses the answer it waits for.
LEMMA LostSound ==
  ASSUME ImportsInv, NEW i \in Importers, Lose, client' = "failed",
         UNCHANGED <<dest, roots, callVars, phase, asked, errors>>,
         workerUp' => workerUp,
         stage' = stage \/ stage' = NoStage
  PROVE  ImportSound(i)'
<1> USE DEF callVars
<1>1. ImportTypes /\ ImportSound(i)
  BY DEF ImportsInv
<1>2. /\ reply'[i] = IF phase[i] = "asking" /\ reply[i] = "none" THEN "lost" ELSE reply[i]
      /\ client' # "open"
  BY DEF Lose
<1>3. stage'.by = i => stage.by = i /\ stage' = stage
  BY Names
<1>4. CheckSound(i)'
  BY <1>1 DEF ImportSound, CheckSound
<1>5. PhaseSound(i)'
  BY <1>1, <1>2, <1>3, Typed DEF ImportSound, PhaseSound, Waits
<1>6. StagedSound(i)'
  <2>1. Consumed(i)' = Consumed(i)
    BY DEF Consumed, Commits
  <2> QED
    BY <1>1, <1>2, <1>3, <2>1 DEF ImportSound, StagedSound, Waits
<1>7. OutcomeSound(i)'
  <2>1. (Over(i)' <=> Over(i)) /\ (Published(i)' <=> Published(i))
    BY DEF Over, Waits, Published, PublishedBy
  <2> QED
    BY <1>1, <1>2, <2>1 DEF ImportSound, OutcomeSound, Waits
<1> QED
  BY <1>4, <1>5, <1>6, <1>7 DEF ImportSound

\* The client gives up; the worker may run on.
LEMMA TimeoutKeeps ==
  ASSUME ImportsInv, Timeout PROVE ImportsInv'
<1> USE DEF Timeout, workVars, callVars, signalVars
<1>1. ImportTypes /\ client # "failed" /\ workerUp
  BY DEF ImportsInv, ClientSound, ImportTypes, WorkerTypes
<1>2. reply' = [i \in Importers |->
                  IF phase[i] = "asking" /\ reply[i] = "none" THEN "lost" ELSE reply[i]]
  BY DEF Lose
<1>3. ImportTypes'
  <2>1. reply' \in [Importers -> {"none", "ok", "refused", "lost"}]
    BY <1>1, <1>2, Typed
  <2> QED
    BY <1>1, <2>1 DEF ImportTypes, WorkerTypes, CallTypes, WaitTypes
<1>4. \A i \in Importers : ImportSound(i)'
  BY LostSound
<1>5. StageSound' /\ ClientSound' /\ CommitSound'
  BY <1>1 DEF ImportsInv, StageSound, ClientSound, CommitSound
<1>6. ASSUME NEW r \in Queued PROVE JobSound(r)'
  <2>1. r.from \in Importers /\ JobSound(r)
    BY QueuedTyped
  <2>2. Given(r.from, r.method)'
    BY <1>1, <1>2, <2>1 DEF JobSound, Given, Waits
  <2>3. Meant(r.from, r.method, r.argument)'
    BY <2>1, MeantKept DEF JobSound
  <2> QED
    BY <2>1, <2>2, <2>3 DEF JobSound
<1>7. QueueSound'
  BY <1>6 DEF ImportsInv, QueueSound, Queued
<1>8. OnlyVerifiedPublished'
  BY DestKept DEF ImportsInv
<1> QED
  BY <1>3, <1>4, <1>5, <1>7, <1>8 DEF ImportsInv

\* The thread is gone, with what it had begun.
LEMMA GoneKeeps ==
  ASSUME ImportsInv, NEW how \in {"closed", "failed"}, workerUp, WorkerGone(how),
         reply' \in [Importers -> {"none", "ok", "refused", "lost"}],
         \A i \in Importers : ImportSound(i)'
  PROVE  ImportsInv'
<1> USE DEF WorkerGone, callVars, signalVars
<1>1. ImportTypes
  BY DEF ImportsInv
<1>2. << >> \in Seq(Requests)
  OBVIOUS
<1>3. ImportTypes'
  BY <1>1, <1>2 DEF ImportTypes, WorkerTypes, CallTypes, WaitTypes
<1>4. StageSound' /\ ClientSound' /\ CommitSound' /\ QueueSound'
  BY DEF StageSound, ClientSound, CommitSound, QueueSound, Queued
<1>5. OnlyVerifiedPublished'
  BY DestKept DEF ImportsInv
<1> QED
  BY <1>3, <1>4, <1>5 DEF ImportsInv

\* It was told to stop, ...
LEMMA ExitKeeps ==
  ASSUME ImportsInv, WorkerExits PROVE ImportsInv'
<1>1. PICK how \in {"closed", "failed"} : WorkerGone(how)
  BY DEF WorkerExits
<1>2. workerUp /\ reply' = reply /\ client \in {"closing", "failed"}
  BY DEF WorkerExits
<1>3. \A i \in Importers : Same(i) /\ Apart(i)
  BY <1>1, <1>2, Names DEF WorkerGone, callVars, Same, Apart
<1>4. \A i \in Importers : ImportSound(i)'
  BY <1>3, ApartSound DEF ImportsInv
<1>5. reply' \in [Importers -> {"none", "ok", "refused", "lost"}]
  BY <1>2 DEF ImportsInv, ImportTypes, WaitTypes
<1> QED
  BY <1>1, <1>2, <1>4, <1>5, GoneKeeps

\* ... or it died.
LEMMA DieKeeps ==
  ASSUME ImportsInv, WorkerDies PROVE ImportsInv'
<1>1. workerUp /\ WorkerGone("failed") /\ Lose
  BY DEF WorkerDies
<1>2. \A i \in Importers : ImportSound(i)'
  BY <1>1, LostSound DEF WorkerGone
<1>3. reply' \in [Importers -> {"none", "ok", "refused", "lost"}]
  <2>1. reply' = [i \in Importers |->
                    IF phase[i] = "asking" /\ reply[i] = "none" THEN "lost" ELSE reply[i]]
    BY <1>1 DEF Lose
  <2> QED
    BY <2>1, Typed DEF ImportsInv
<1> QED
  BY <1>1, <1>2, <1>3, GoneKeeps

\* What neither the worker nor a caller has a part in.
LEMMA ElsewhereKeeps ==
  ASSUME ImportsInv, ImportTypes', \A i \in Importers : Same(i) /\ Apart(i),
         UNCHANGED <<stage, committing, queue, workerUp, roots, aborted, flag>>,
         client' = client \/ (client = "open" /\ client' = "closing"),
         \A id \in Ids : dest'[id] = dest[id] \/ (committing = Nobody /\ dest'[id].by = Local)
  PROVE  ImportsInv'
<1>1. ImportTypes
  BY DEF ImportsInv
<1>2. \A i \in Importers : ImportSound(i)'
  BY ApartSound DEF ImportsInv
<1>3. StageSound' /\ ClientSound'
  BY <1>1 DEF ImportsInv, StageSound, ClientSound
<1>4. ASSUME NEW r \in Queued PROVE JobSound(r)'
  <2>1. r.from \in Importers /\ JobSound(r)
    BY QueuedTyped
  <2> QED
    BY <2>1, JobKept
<1>5. QueueSound'
  BY <1>4 DEF ImportsInv, QueueSound, Queued
<1>6. CommitSound'
  <2>1. committing # Nobody => stage.id \in Ids
    BY <1>1, Names DEF ImportsInv, CommitSound, ImportTypes, WorkerTypes, Stage
  <2> QED
    BY <2>1 DEF ImportsInv, CommitSound
<1>7. OnlyVerifiedPublished'
  <2> SUFFICES ASSUME NEW j \in Importers, NEW id \in Ids, PublishedBy(j, id)'
               PROVE  (LET g == dest[id].history
                       IN /\ g.id = id
                          /\ IsHistory(g)
                          /\ \E status \in Closed \union {"recording"} :
                               /\ input[j] = FileOf([g EXCEPT !.status = status])
                               /\ g.status = IF status = "recording" THEN "interrupted" ELSE status)'
    BY DEF OnlyVerifiedPublished
  <2>1. dest'[id] = dest[id] /\ PublishedBy(j, id)
    BY Names DEF PublishedBy
  <2>2. LET g == dest[id].history
        IN /\ g.id = id
           /\ IsHistory(g)
           /\ \E status \in Closed \union {"recording"} :
                /\ input[j] = FileOf([g EXCEPT !.status = status])
                /\ g.status = IF status = "recording" THEN "interrupted" ELSE status
    BY <2>1 DEF ImportsInv, OnlyVerifiedPublished
  <2> QED
    BY <2>1, <2>2 DEF Same
<1> QED
  BY <1>2, <1>3, <1>5, <1>6, <1>7 DEF ImportsInv

\* The store is told to close.
LEMMA CloseStoreKeeps ==
  ASSUME ImportsInv, CloseStore PROVE ImportsInv'
<1> USE DEF CloseStore, workVars, callVars, waitVars, signalVars
<1>1. ImportTypes'
  BY DEF ImportsInv, ImportTypes, WorkerTypes, CallTypes, WaitTypes
<1>2. \A i \in Importers : Same(i) /\ Apart(i)
  BY DEF Same, Apart
<1> QED
  BY <1>1, <1>2, ElsewhereKeeps

\* Another writer creates a recording.
LEMMA LocalKeeps ==
  ASSUME ImportsInv, NEW id \in Ids, LocalCreates(id) PROVE ImportsInv'
<1> USE DEF LocalCreates, callVars, waitVars, signalVars
<1>1. ImportTypes
  BY DEF ImportsInv
<1>2. /\ dest'[id] = [by |-> Local] /\ dest[id] = NoRecording
      /\ \A x \in Ids \ {id} : dest'[x] = dest[x]
      /\ dest' \in [Ids -> Recorded]
  BY <1>1 DEF ImportTypes, WorkerTypes, Recorded
<1>3. ImportTypes'
  BY <1>1, <1>2 DEF ImportTypes, WorkerTypes, CallTypes, WaitTypes
<1>4. \A i \in Importers : Same(i) /\ Apart(i)
  <2>1. \A i \in Importers, x \in Ids : dest'[x].by = i <=> dest[x].by = i
    BY <1>2, Names
  <2> QED
    BY <2>1 DEF Same, Apart
<1> QED
  BY <1>2, <1>3, <1>4, ElsewhereKeeps

\* When the worker is gone, the directories that are left are removed.
LEMMA DirectoriesKeep ==
  ASSUME ImportsInv, CloseDirectories PROVE ImportsInv'
<1> USE DEF CloseDirectories, workVars, callVars, waitVars, signalVars
<1>1. ImportTypes /\ ~workerUp /\ queue = << >> /\ stage = NoStage
  BY DEF ImportsInv, ClientSound, StageSound
<1>2. PICK left \in SUBSET roots :
        /\ roots' = left
        /\ errors' = [i \in Importers |->
                        IF i \in left THEN errors[i] \union {"unremoved"} ELSE errors[i]]
  OBVIOUS
<1>3. ImportTypes'
  <2>1. errors' \in [Importers -> SUBSET Reasons]
    BY <1>1, <1>2 DEF ImportTypes, WaitTypes, Reasons
  <2> QED
    BY <1>1, <1>2, <2>1 DEF ImportTypes, WorkerTypes, CallTypes, WaitTypes
<1>4. ASSUME NEW i \in Importers PROVE ImportSound(i)'
  <2>1. ImportSound(i)
    BY DEF ImportsInv
  <2>2. errors'[i] = IF i \in left THEN errors[i] \union {"unremoved"} ELSE errors[i]
    BY <1>2
  <2>3. CheckSound(i)'
    BY <2>1 DEF ImportSound, CheckSound
  <2>4. PhaseSound(i)'
    BY <1>1, <1>2, <2>1, <2>2 DEF ImportSound, PhaseSound, Waits
  <2>5. StagedSound(i)'
    BY <1>1, Names DEF StagedSound
  <2>6. OutcomeSound(i)'
    <3>1. (Over(i)' <=> Over(i)) /\ (Published(i)' <=> Published(i))
      BY DEF Over, Waits, Published, PublishedBy
    <3> QED
      BY <2>1, <2>2, <3>1 DEF ImportSound, OutcomeSound, Waits
  <2> QED
    BY <2>3, <2>4, <2>5, <2>6 DEF ImportSound
<1>5. StageSound' /\ ClientSound' /\ QueueSound' /\ CommitSound'
  BY <1>1 DEF ImportsInv, StageSound, ClientSound, QueueSound, Queued, CommitSound
<1>6. OnlyVerifiedPublished'
  BY DestKept DEF ImportsInv
<1> QED
  BY <1>3, <1>4, <1>5, <1>6 DEF ImportsInv

\* Every step of the importing side keeps what is true of it.
LEMMA ImportStepKeeps ==
  ASSUME ImportsInv, ImportNext PROVE ImportsInv'
<1>1. CASE \E i \in Importers : ImporterStep(i)
  BY <1>1, ReadThrowsKeeps, ReadManifestKeeps, ReadRowKeeps, ReadCommitKeeps, ReadEndKeeps,
     AnsweredKeeps, CloseStageKeeps, DiscardKeeps, ReleaseKeeps DEF ImporterStep
<1>2. CASE \E i \in Importers : Abort(i)
  BY <1>2, AbortKeeps
<1>3. CASE WorkerStep
  BY <1>3, RunBeginKeeps, RunBaselineKeeps, RunBaselineCompleteKeeps, RunAppendKeeps,
     RunPublishKeeps, CommitKeeps, CommitFailsKeeps, RunCloseKeeps, RunFailsKeeps DEF WorkerStep
<1>4. CASE Timeout \/ WorkerExits \/ WorkerDies
  BY <1>4, TimeoutKeeps, ExitKeeps, DieKeeps
<1>5. CASE CloseStore \/ CloseDirectories
  BY <1>5, CloseStoreKeeps, DirectoriesKeep
<1>6. CASE \E id \in Ids : LocalCreates(id)
  BY <1>6, LocalKeeps
<1> QED
  BY <1>1, <1>2, <1>3, <1>4, <1>5, <1>6 DEF ImportNext

\* And a step of the export leaves it alone.
LEMMA ImportsUntouched ==
  ASSUME ImportsInv, UNCHANGED importVars PROVE ImportsInv'
<1> USE DEF importVars, workVars, callVars, waitVars, signalVars
<1>1. ImportTypes'
  BY DEF ImportsInv, ImportTypes, WorkerTypes, CallTypes, WaitTypes
<1>2. \A i \in Importers : Same(i) /\ Apart(i)
  BY DEF Same, Apart
<1> QED
  BY <1>1, <1>2, ElsewhereKeeps

-----------------------------------------------------------------------------
(* The export                                                                *)

\* A recording that is exported, as a file.
LEMMA Exported ==
  ASSUME NEW h \in Views, NEW v \in Exports!Exportable(h)
  PROVE  /\ Exports!FileOf(v) \in File
         /\ Exports!Records(v) \in Seq(FileRecord) /\ Len(Exports!Records(v)) \in Nat
         /\ Exports!FileOf(v) # Exports!Absent
<1>1. Exports!FileOf(v) \in File
  BY FilesAssumption
<1>2. Exports!FileOf(v).records = Exports!Records(v)
  BY DEF Exports!FileOf, Exports!Framed
<1>3. Exports!FileOf(v) # Exports!Absent
  BY DEF Exports!FileOf, Exports!Framed, Exports!Absent
<1> QED
  BY <1>1, <1>2, <1>3, FileTyped

\* A chunk more of a file.
LEMMA Written ==
  ASSUME NEW rs \in Seq(FileRecord), NEW n \in 0 .. Len(rs)
  PROVE  /\ Len(SubSeq(rs, 1, n)) = n
         /\ n = Len(rs) => SubSeq(rs, 1, n) = rs
<1>1. Len(rs) \in Nat /\ n \in Int /\ 1 \in Int /\ \A k \in 1 .. n : k \in 1 .. Len(rs)
  BY LenProperties
<1>2. \A k \in 1 .. n : rs[k] \in FileRecord
  BY <1>1, ElementOfSeq
<1>3. Len(SubSeq(rs, 1, n)) = IF 1 <= n THEN n - 1 + 1 ELSE 0
  BY <1>1, <1>2, SubSeqProperties
<1> QED
  BY <1>1, <1>3, SubSeqFull

\* The chunks are those of the file, and the last makes it whole.
LEMMA ChunkKeeps ==
  ASSUME ExportTypes, ExportSound, Exports!WriteChunk PROVE ExportTypes' /\ ExportSound'
<1>1. /\ step = "writing" /\ failures = {} /\ tempdir.trailer = Exports!NoTrailer
      /\ UNCHANGED <<target, step, view, handle, lease, cancelled, failures>>
  BY DEF ExportSound, Exports!WriteChunk, Exports!Uncancelled
<1> PICK rs : rs = Exports!Records(view)
  OBVIOUS
<1>2. rs \in Seq(FileRecord) /\ Len(rs) \in Nat
  BY <1>1, Exported DEF ExportSound
<1>3. tempdir # Exports!FileOf(view)
  BY <1>1 DEF Exports!FileOf, Exports!Framed, Exports!Trailer, Exports!NoTrailer
<1>4. PICK n \in 0 .. Len(rs) : tempdir = Exports!Unfinished(SubSeq(rs, 1, n))
  BY <1>1, <1>3 DEF ExportSound
<1>5. tempdir.records = SubSeq(rs, 1, n) /\ Len(tempdir.records) = n
  BY <1>2, <1>4, Written DEF Exports!Unfinished
<1>6. tempdir' = IF n < Len(rs) THEN Exports!Unfinished(SubSeq(rs, 1, n + 1))
                                ELSE Exports!Framed(SubSeq(rs, 1, n))
  BY <1>5 DEF Exports!WriteChunk
<1>7. \/ tempdir' = Exports!FileOf(view)
      \/ \E k \in 0 .. Len(rs) : tempdir' = Exports!Unfinished(SubSeq(rs, 1, k))
  <2>1. CASE n < Len(rs)
    <3>1. n + 1 \in 0 .. Len(rs)
      BY <1>2, <2>1
    <3> QED
      BY <1>6, <2>1, <3>1
  <2>2. CASE ~(n < Len(rs))
    <3>1. n = Len(rs)
      BY <1>2, <2>2
    <3>2. SubSeq(rs, 1, n) = rs
      BY <1>2, <3>1, Written
    <3> QED
      BY <1>6, <2>2, <3>2 DEF Exports!FileOf
  <2> QED
    BY <2>1, <2>2
<1>8. ExportTypes'
  BY <1>1 DEF ExportTypes
<1> QED
  BY <1>1, <1>7, <1>8 DEF ExportSound, Exports!TargetComplete

\* So do the other steps of the export.
LEMMA ExportKeeps ==
  ASSUME ExportTypes, ExportSound, Exports!ExportNext PROVE ExportTypes' /\ ExportSound'
<1> USE DEF ExportTypes, ExportSound, Exports!TargetComplete, Exports!Uncancelled,
            Exports!ExportFails
<1>1. CASE Exports!RefuseExport
  BY <1>1 DEF Exports!RefuseExport
<1>2. CASE Exports!OpenSession
  BY <1>2 DEF Exports!OpenSession
<1>3. CASE Exports!MakeDirectory
  BY <1>3 DEF Exports!MakeDirectory
<1>4. CASE Exports!OpenTemporary
  <2>1. failures = {} /\ \E h \in Views : view \in Exports!Exportable(h)
    BY <1>4 DEF Exports!OpenTemporary
  <2>2. Len(Exports!Records(view)) \in Nat
    BY <2>1, Exported
  <2>3. 0 \in 0 .. Len(Exports!Records(view)) /\ SubSeq(Exports!Records(view), 1, 0) = << >>
    BY <2>2, SubSeqEmpty
  <2> QED
    BY <1>4, <2>3 DEF Exports!OpenTemporary
<1>5. CASE Exports!WriteChunk
  BY <1>5, ChunkKeeps
<1>6. CASE Exports!SyncFile
  BY <1>6 DEF Exports!SyncFile, Exports!AllWritten, Exports!Unfinished
<1>7. CASE Exports!CloseFile
  BY <1>7 DEF Exports!CloseFile
<1>8. CASE Exports!ReleaseSession
  BY <1>8 DEF Exports!ReleaseSession
<1>9. CASE Exports!Publish
  BY <1>9 DEF Exports!Publish
<1>10. CASE Exports!ExportThrows
  BY <1>10 DEF Exports!ExportThrows
<1>11. CASE Exports!CleanUp
  BY <1>11 DEF Exports!CleanUp
<1>12. CASE Exports!Cancel
  BY <1>12 DEF Exports!Cancel
<1>13. CASE Exports!SomebodyCreates
  <2>1. ~(step \in {"cleaning", "settled"} /\ failures = {})
    <3>1. step \in {"cleaning", "settled"} /\ failures = {} => target # Exports!Absent
      BY Exported
    <3> QED
      BY <1>13, <3>1 DEF Exports!SomebodyCreates
  <2> QED
    BY <1>13, <2>1 DEF Exports!SomebodyCreates
<1> QED
  BY <1>1, <1>2, <1>3, <1>4, <1>5, <1>6, <1>7, <1>8, <1>9, <1>10, <1>11, <1>12, <1>13
  DEF Exports!ExportNext, Exports!ExportStep

\* And a step of an import leaves it alone.
LEMMA ExportUntouched ==
  ASSUME ExportTypes, ExportSound, UNCHANGED exportVars PROVE ExportTypes' /\ ExportSound'
  BY DEF exportVars, ExportTypes, ExportSound, Exports!TargetComplete

-----------------------------------------------------------------------------
(* The theorems                                                              *)

\* Nothing has been exported or imported.
LEMMA InitInv ==
  ASSUME Init PROVE PortableInv
<1> USE DEF Init, ImportInit
<1>1. ExportTypes /\ ExportSound
  BY DEF Exports!ExportInit, ExportTypes, ExportSound, Exports!TargetComplete
<1>2. ImportTypes
  <2>1. NoRecording \in Recorded /\ << >> \in Seq(Requests) /\ << >> \in Seq(Rows)
        /\ Len(<< >>) <= BatchRows
    BY BatchRowsAssumption DEF Recorded
  <2> QED
    BY <2>1 DEF ImportTypes, WorkerTypes, CallTypes, WaitTypes, Phases
<1>3. StageSound /\ ClientSound /\ QueueSound /\ CommitSound
  BY DEF StageSound, ClientSound, QueueSound, Queued, CommitSound
<1>4. \A i \in Importers, id \in Ids : ~PublishedBy(i, id)
  BY Names DEF PublishedBy
<1>5. OnlyVerifiedPublished
  BY <1>4 DEF OnlyVerifiedPublished
<1>6. ASSUME NEW i \in Importers PROVE ImportSound(i)
  <2>1. CheckSound(i)
    BY DEF CheckSound
  <2>2. PhaseSound(i)
    BY Names DEF PhaseSound, Waits
  <2>3. StagedSound(i) /\ OutcomeSound(i)
    BY <1>4, Names DEF StagedSound, OutcomeSound, Over, Waits, Published
  <2> QED
    BY <2>1, <2>2, <2>3 DEF ImportSound
<1> QED
  BY <1>1, <1>2, <1>3, <1>5, <1>6 DEF PortableInv, ImportsInv

\* Every step of either side keeps the invariant.
LEMMA StepKeeps ==
  ASSUME PortableInv, [Next]_vars PROVE PortableInv'
<1>1. CASE Exports!ExportNext /\ UNCHANGED importVars
  BY <1>1, ExportKeeps, ImportsUntouched DEF PortableInv
<1>2. CASE Handed /\ ImportNext /\ UNCHANGED exportVars
  BY <1>2, ImportStepKeeps, ExportUntouched DEF PortableInv
<1>3. CASE /\ Handed /\ \E i \in Importers : Start(i)
           /\ UNCHANGED exportVars
  <2>1. PICK i \in Importers, file \in {target} \union Damaged(target) : StartImport(i, file)
    BY <1>3 DEF Start
  <2>2. target = Exports!FileOf(view) /\ \E h \in Views : view \in Exports!Exportable(h)
    BY <1>3 DEF Handed, PortableInv, ExportSound
  <2>3. file \in File
    BY <2>1, <2>2, FilesAssumption
  <2>4. ImportsInv'
    BY <2>1, <2>3, StartKeeps DEF PortableInv
  <2> QED
    BY <1>3, <2>4, ExportUntouched DEF PortableInv
<1>4. CASE UNCHANGED vars
  BY <1>4, ExportUntouched, ImportsUntouched DEF PortableInv, vars
<1> QED
  BY <1>1, <1>2, <1>3, <1>4 DEF Next

\* However a recording is exported, whatever becomes of its file, and however
\* many imports read it while the worker, its client and the store end and fail
\* as they may: a request in the queue asks for what its import has read and is
\* waited for or was given up, what is staged is what has been read, and what is
\* published is what a file holds that was verified to its end.
THEOREM PortableInvariant == Spec => []PortableInv
<1>1. Init => PortableInv
  BY InitInv
<1>2. PortableInv /\ [Next]_vars => PortableInv'
  BY StepKeeps
<1> QED
  BY <1>1, <1>2, PTL DEF Spec

\* An import publishes the whole history that its file declares, or nothing
\* (RecordingValidation, publishSnapshot), and what its caller is told of it is
\* true, for any files, any number of imports and any failures.
THEOREM PublicationSound == Spec => []PublicationIsSound
<1>1. ASSUME PortableInv PROVE PublicationIsSound
  <2>1. ImportTypes /\ ExportTypes /\ OnlyVerifiedPublished /\ \A i \in Importers : ImportSound(i)
    BY <1>1 DEF PortableInv, ImportsInv
  <2>2. \A i \in Importers : RowsOf(batch[i]) \subseteq Rows
    <3> SUFFICES ASSUME NEW i \in Importers PROVE RowsOf(batch[i]) \subseteq Rows
      OBVIOUS
    <3>1. batch[i] \in Seq(Rows)
      BY <2>1, Typed
    <3> QED
      BY <3>1, LenProperties, ElementOfSeq DEF RowsOf
  <2>3. TypeOK
    BY <2>1, <2>2 DEF TypeOK, ExportTypes, ImportTypes, WorkerTypes, CallTypes, WaitTypes,
       Phases, Reasons
  <2>4. OutcomeIsTrue
    BY <2>1 DEF ImportSound, OutcomeSound, Over, Published, OutcomeIsTrue
  <2> QED
    BY <2>1, <2>3, <2>4 DEF PublicationIsSound
<1> QED
  BY <1>1, PortableInvariant, PTL

\* The target of an export is a whole file or untouched, and neither an export
\* nor an import leaves behind what it acquired without saying so: the temporary
\* directory, the worker's stage and the private directory under it.
THEOREM ResourcesAccounted == Spec => []ResourcesAccountedFor
<1>1. ASSUME PortableInv PROVE ResourcesAccountedFor
  <2>1. ExportSound /\ StageSound /\ \A i \in Importers : PhaseSound(i)
    BY <1>1 DEF PortableInv, ImportsInv, ImportSound
  <2>2. Exports!TargetComplete /\ Exports!ExportSettlesClean
    BY <2>1 DEF ExportSound, Exports!ExportSettlesClean
  <2>3. SettlesClean
    BY <2>1 DEF SettlesClean, PhaseSound
  <2>4. StageHasItsDirectory
    BY <2>1 DEF StageHasItsDirectory, StageSound
  <2> QED
    BY <2>2, <2>3, <2>4 DEF ResourcesAccountedFor
<1> QED
  BY <1>1, PortableInvariant, PTL

\* No step replaces a file or a recording that is there, and none decides to
\* publish an import whose signal has fired, as long as its client stands.
THEOREM ExistingAndCancelled == Spec => ExistingAndCancelledRespected
<1>1. ASSUME PortableInv, [Next]_vars
      PROVE  [target # Exports!Absent => target' = target]_(Exports!exportVars)
  <2>1. CASE UNCHANGED exportVars
    BY <2>1 DEF exportVars, Exports!exportVars
  <2>2. CASE Exports!ExportNext
    BY <2>2 DEF Exports!ExportNext, Exports!ExportStep, Exports!RefuseExport, Exports!OpenSession,
       Exports!MakeDirectory, Exports!OpenTemporary, Exports!WriteChunk, Exports!SyncFile,
       Exports!CloseFile, Exports!ReleaseSession, Exports!Publish, Exports!Free,
       Exports!ExportThrows, Exports!CleanUp, Exports!Cancel, Exports!SomebodyCreates
  <2> QED
    BY <1>1, <2>1, <2>2 DEF Next, vars
<1>2. ASSUME PortableInv, ImportNext \/ (\E i \in Importers : Start(i)) \/ UNCHANGED importVars
      PROVE  /\ \A id \in Ids : dest[id] # NoRecording => dest'[id] = dest[id]
             /\ \A i \in Importers :
                  aborted[i] /\ client # "failed" /\ committing # i => committing' # i
  <2>1. CASE CommitPublication
    <3>1. /\ dest' = [dest EXCEPT ![stage.id] =
                        [by |-> committing, history |-> Staged(stage, Job.argument.status)]]
          /\ committing' = Nobody /\ dest[stage.id] = NoRecording
      BY <1>2, <2>1 DEF CommitPublication, PortableInv, ImportsInv, CommitSound
    <3>2. \A id \in Ids : id # stage.id => dest'[id] = dest[id]
      BY <1>2, <3>1 DEF PortableInv, ImportsInv, ImportTypes, WorkerTypes
    <3> QED
      BY <3>1, <3>2, Names
  <2>2. CASE \E x \in Ids : LocalCreates(x)
    <3>1. PICK x \in Ids : LocalCreates(x)
      BY <2>2
    <3>2. \A id \in Ids : id # x => dest'[id] = dest[id]
      BY <1>2, <3>1 DEF LocalCreates, PortableInv, ImportsInv, ImportTypes, WorkerTypes
    <3> QED
      BY <3>1, <3>2 DEF LocalCreates
  <2>3. CASE RunPublish
    <3>1. /\ dest' = dest /\ queue # << >> /\ Job.method = "publishImport"
          /\ committing' = committing \/ (committing' = Job.from /\ ~flag[Job.from])
      BY <2>3 DEF RunPublish, JobOf, Owns
    <3>2. JobSound(Job)
      BY <1>2, <3>1, HeadJob DEF PortableInv
    <3> QED
      BY <3>1, <3>2 DEF JobSound
  <2>4. CASE dest' = dest /\ (committing' = committing \/ committing' = Nobody)
    BY <2>4, Names
  <2>5. CASE \E i \in Importers : Start(i)
    BY <2>4, <2>5 DEF Start, StartImport, workVars
  <2>6. CASE UNCHANGED importVars
    BY <2>4, <2>6 DEF importVars, workVars
  <2>7. CASE \E i \in Importers : ImporterStep(i) \/ Abort(i)
    BY <2>4, <2>7 DEF ImporterStep, Abort, ReadThrows, ReadManifest, ReadRow, ReadCommit, ReadEnd,
       Answered, CloseStage, Discard, Release, workVars
  <2>8. CASE RunBegin \/ RunBaseline \/ RunBaselineComplete \/ RunAppend \/ CommitFails
             \/ RunCloseImport \/ RunFails
    BY <2>4, <2>8 DEF RunBegin, RunBaseline, RunBaselineComplete, RunAppend, CommitFails,
       RunCloseImport, RunFails, workVars
  <2>9. CASE Timeout \/ WorkerExits \/ WorkerDies \/ CloseStore \/ CloseDirectories
    BY <2>4, <2>9 DEF Timeout, WorkerExits, WorkerDies, WorkerGone, CloseStore, CloseDirectories,
       workVars
  <2> QED
    BY <1>2, <2>1, <2>2, <2>3, <2>5, <2>6, <2>7, <2>8, <2>9 DEF ImportNext, WorkerStep
<1>3. ASSUME PortableInv, [Next]_vars
      PROVE  /\ [\A id \in Ids : dest[id] # NoRecording => dest'[id] = dest[id]]_importVars
             /\ [\A i \in Importers :
                   aborted[i] /\ client # "failed" /\ committing # i => committing' # i]_importVars
  <2>1. ImportNext \/ (\E i \in Importers : Start(i)) \/ UNCHANGED importVars
    BY <1>3 DEF Next, vars
  <2> QED
    BY <1>2, <1>3, <2>1
<1> QED
  BY <1>1, <1>3, PortableInvariant, PTL
  DEF Spec, ExistingAndCancelledRespected, Exports!NeverReplaced, ExistingKept,
      CancelledNeverCommits
=============================================================================
