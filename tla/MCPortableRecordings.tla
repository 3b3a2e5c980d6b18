------------------------ MODULE MCPortableRecordings ------------------------
(* Instances of PortableRecordings for TLC.                                  *)
EXTENDS PortableRecordings, TLC

S == INSTANCE SequencesExt

CONSTANTS r1, r2, i1, i2

TwoRows == {1, 2}
Moves   == {[removes |-> {1}, adds |-> {}], [removes |-> {}, adds |-> {1}]}

Commit(from, to, change) == [previous |-> from, position |-> to, change |-> change]
Removes1 == [removes |-> {1}, adds |-> {}]
Adds1    == [removes |-> {}, adds |-> {1}]

\* Two rows and two transactions of an active recording.
Busy == [id |-> r1, status |-> "recording", baseline |-> 0, rows |-> {1, 2},
         transactions |-> << Commit(0, 1, Removes1), Commit(1, 2, Adds1) >>]

\* A baseline alone.
Still == [id |-> r1, status |-> "stopped", baseline |-> 0, rows |-> {1},
          transactions |-> << >>]

Histories == {Busy, Still}

\* What a file may have become: cut short, continued, or a record lost, twice
\* there, out of order or changed, with the old trailer or with a new one.
Edits(rs) ==
  {S!RemoveAt(rs, n) : n \in DOMAIN rs}
    \union {S!InsertAt(rs, n, rs[n]) : n \in DOMAIN rs}
    \union {S!ReplaceAt(S!ReplaceAt(rs, n, rs[n + 1]), n + 1, rs[n]) :
              n \in 1 .. Len(rs) - 1}
    \union {S!ReplaceAt(rs, n, RowRecord(1)) : n \in {n \in DOMAIN rs : rs[n].kind = "baseline"}}
    \union {S!ReplaceAt(rs, n, CommitRecord(Commit(0, 2, Removes1))) :
              n \in {n \in DOMAIN rs : rs[n].kind = "transaction"}}
    \union {S!ReplaceAt(rs, 1, Manifest([rs[1].info EXCEPT !.rowCount = @ - 1])),
            S!ReplaceAt(rs, 1, Manifest([rs[1].info EXCEPT !.head = 1])),
            S!ReplaceAt(rs, 1, Manifest([rs[1].info EXCEPT !.status = "bootstrapping"]))}

BusyFile == FileOf(Busy)

BusyDamage ==
  LET rs == BusyFile.records
  IN {Unfinished(SubSeq(rs, 1, n)) : n \in 0 .. Len(rs)}
       \union {[BusyFile EXCEPT !.records = e] : e \in Edits(rs)}
       \union {Framed(e) : e \in Edits(rs)}
       \union {[BusyFile EXCEPT !.more = TRUE], [BusyFile EXCEPT !.header = FALSE]}

\* Of the other exports only the good file is read.
AnyDamage(file) == IF file = BusyFile THEN BusyDamage ELSE {}

\* A second import is explored beside one of the small recording, while the
\* worker and the store stay up.
OneAtATime ==
  phase'[i2] # "idle" \/ aborted'[i2] =>
    /\ view = Still
    /\ phase'[i1] # "idle"
    /\ store' = "open" /\ client' = "open"
    /\ ~aborted'[i2]
    /\ \A id \in Ids : dest'[id].by # Local

\* What an import does until it refuses a file that was altered, and how it
\* cleans up, is the same as with a file cut short at that record: aborts,
\* failures of the client, a closing store and local writers are explored with
\* files that are whole or cut short.
Ordinary ==
  {NoFile} \union {FileOf(h) : h \in Histories}
    \union {Unfinished(SubSeq(BusyFile.records, 1, n)) : n \in 0 .. Len(BusyFile.records)}

Undisturbed ==
  \A i \in Importers : input'[i] \notin Ordinary =>
    /\ client' = "open" /\ store' = "open"
    /\ ~aborted'[i]
    /\ \A id \in Ids : dest'[id].by # Local

MCSpec == Init /\ [][Next /\ OneAtATime /\ Undisturbed]_vars /\ WF_vars(Proceeds)
=============================================================================
