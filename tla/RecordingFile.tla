--------------------------- MODULE RecordingFile ----------------------------
(* The portable recording file (packages/exchange): what a recording is      *)
(* written as, how a file is framed (stream.ts, lines.ts), and the checks a  *)
(* reader makes record by record (manifest.ts, recording-validation.ts).     *)
(*                                                                           *)
(* A line is a record; a digest is the sequence it was computed over, so two *)
(* digests agree exactly when the digested records do.  Rows are numbered in *)
(* the order of their keys.                                                  *)
EXTENDS HistoryState, FiniteSets

LOCAL INSTANCE SequencesExt

CONSTANTS Ids, MaxRecords

ASSUME RowsAreOrdered == Rows \subseteq Nat
ASSUME MaxRecordsAssumption == MaxRecords \in Nat

Closed == {"stopped", "interrupted", "invalid"}

\* A published recording: its baseline and the transactions after it.
IsHistory(h) ==
  /\ h.id \in Ids
  /\ h.status \in Closed \union {"recording"}
  /\ h.baseline \in Position
  /\ h.rows \subseteq Rows
  /\ \A i \in DOMAIN h.transactions : h.transactions[i] \in Transaction
  /\ Consistent([position |-> h.baseline, rows |-> h.rows], h.transactions)

HeadOf(h) ==
  IF h.transactions = << >> THEN h.baseline ELSE h.transactions[Len(h.transactions)].position

\* What a manifest declares; a file is a header, records of three kinds, and
\* perhaps a trailer and something after it.
Info ==
  [id : Ids, status : Closed \union {"recording", "bootstrapping"}, baseline : Position,
   head : Position, rowCount : Nat, checksum : Seq(Rows), transactionCount : Nat]

FileRecord ==
  [kind : {"manifest"}, info : Info]
    \union [kind : {"baseline"}, row : Rows]
    \union [kind : {"transaction"}, transaction : Transaction]

File ==
  [header : BOOLEAN, records : Seq(FileRecord), more : BOOLEAN,
   trailer : [kind : {"none"}]
               \union [kind : {"trailer"}, end : Nat, digest : Seq(FileRecord)]]

\* reader.allBaseline: the rows in key order, which the checksum commits to.
BaselineRows(rows) == SetToSortSeq(rows, <)

InfoOf(h) ==
  [id |-> h.id, status |-> h.status, baseline |-> h.baseline, head |-> HeadOf(h),
   rowCount |-> Cardinality(h.rows), checksum |-> BaselineRows(h.rows),
   transactionCount |-> Len(h.transactions)]

Manifest(info) == [kind |-> "manifest", info |-> info]
RowRecord(row) == [kind |-> "baseline", row |-> row]
CommitRecord(t) == [kind |-> "transaction", transaction |-> t]

\* recordingRecords: the manifest, the baseline, the transactions.
Records(h) ==
  LET rows == BaselineRows(h.rows)
  IN << Manifest(InfoOf(h)) >>
       \o [i \in DOMAIN rows |-> RowRecord(rows[i])]
       \o [i \in DOMAIN h.transactions |-> CommitRecord(h.transactions[i])]

NoTrailer == [kind |-> "none"]
Trailer(records) == [kind |-> "trailer", end |-> Len(records), digest |-> records]

\* encodeRecordingFrames.
Framed(records) ==
  [header |-> TRUE, records |-> records, trailer |-> Trailer(records), more |-> FALSE]

\* What has been written before the trailer.
Unfinished(records) ==
  [header |-> TRUE, records |-> records, trailer |-> NoTrailer, more |-> FALSE]

FileOf(h) == Framed(Records(h))

\* The end of decodeRecordingFrames: a trailer that commits to the records
\* before it, and nothing after it.
Sealed(file) ==
  /\ file.trailer = Trailer(file.records)
  /\ ~file.more

-----------------------------------------------------------------------------
(* RecordingValidation                                                     *)

\* verifiedManifest: a closed or active recording with declared coverage.
AcceptsManifest(record) ==
  /\ record.kind = "manifest"
  /\ record.info.status # "bootstrapping"
  /\ 1 + record.info.rowCount + record.info.transactionCount <= MaxRecords

NoValidation == [kind |-> "none"]

Validation(info) ==
  [kind |-> "validation", info |-> info, rows |-> << >>, transactions |-> 0,
   position |-> info.baseline, baselineDone |-> FALSE]

KeyAdvances(v, row) == v.rows # << >> => v.rows[Len(v.rows)] < row

AcceptsRow(v, record) ==
  /\ record.kind = "baseline"
  /\ ~v.baselineDone
  /\ Len(v.rows) < v.info.rowCount
  /\ KeyAdvances(v, record.row)

WithRow(v, record) == [v EXCEPT !.rows = Append(@, record.row)]

\* finishBaseline.
BaselineComplete(v) ==
  \/ v.baselineDone
  \/ Len(v.rows) = v.info.rowCount /\ v.rows = v.info.checksum

Follows(v, t) == t.previous = v.position

AcceptsCommit(v, record) ==
  /\ record.kind = "transaction"
  /\ BaselineComplete(v)
  /\ v.transactions < v.info.transactionCount
  /\ Follows(v, record.transaction)

WithCommit(v, record) ==
  [v EXCEPT !.transactions = @ + 1, !.position = record.transaction.position,
            !.baselineDone = TRUE]

\* finish.
Complete(v) ==
  /\ BaselineComplete(v)
  /\ v.transactions = v.info.transactionCount
  /\ v.position = v.info.head
=============================================================================
