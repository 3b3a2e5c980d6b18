---------------------------- MODULE Checkpoints ----------------------------
(***************************************************************************)
(* What one recording has in the database - its baseline, its transactions *)
(* and the checkpoints derived from them - and how storage-local restores  *)
(* a state from it (checkpoints.ts, history-scan.ts, reader.ts).           *)
(*                                                                         *)
(* A stored record is its content and whether its digest still matches.    *)
(* A checksum is the content it was made of.  The budget counts rows and   *)
(* transactions together.  Everything read in one SQLite transaction is    *)
(* read in one step.                                                       *)
(***************************************************************************)
EXTENDS RowEvents

CONSTANTS
  MaxWork,        \* records one restoration may examine
  MaxCandidates,  \* checkpoints it may try (1000 in the code)
  PageRows,       \* rows of one checkpoint page
  Forgeries       \* what a damaged row may read as, NoRow for a lost one

ASSUME WorkAssumption == MaxWork \in Nat /\ MaxCandidates \in Nat /\ PageRows \in Nat \ {0}
ASSUME ForgeriesAssumption == Forgeries \subseteq Values \union {NoRow}

VARIABLES
  info,         \* the recording's own record: head, count and what the baseline is
  baseline,     \* [rows, bad]: stored rows, and the keys whose digest is wrong
  commits,      \* position -> [commit, ok]
  checkpoints,  \* position -> [manifest, ok, rows, bad]
  verified      \* the viewer's cache: what it verified and whether that still counts

storedVars == <<info, baseline, commits>>
checkpointVars == <<info, baseline, commits, checkpoints, verified>>

\* Positions are those of the commits; the baseline is published at 0.
Through(position) == {p \in DOMAIN commits : p <= position}

Latest(positions) == CHOOSE p \in positions : \A q \in positions : q <= p

--------------------------------------------------------------------------
(* The authoritative prefix.                                               *)

BaselineHolds == baseline.bad = {} /\ baseline.rows = info.baselineRows

\* Every record up to a position is readable and follows the one before it,
\* the position is one of them, and as many are stored as the recording says.
PrefixHolds(position) ==
  LET prefix == Through(position) IN
  /\ Cardinality(DOMAIN commits) = info.count
  /\ BaselineHolds
  /\ \A p \in prefix :
       /\ commits[p].ok
       /\ commits[p].commit.previous = Latest({0} \union {q \in prefix : q < p})
  /\ Latest({0} \union prefix) = position
  /\ position = info.head => Cardinality(prefix) = info.count

HistorySum(position) ==
  <<baseline.rows, [p \in Through(position) |-> commits[p].commit]>>

PrefixSize(position) == Cardinality(Present(baseline.rows)) + Cardinality(Through(position))

Failed == [kind |-> "failed"]

\* The rows that the transactions of some positions leave, applied in order.
Replay(rows, positions) ==
  LET after[p \in 0 .. info.head] ==
        IF p = 0 THEN rows
        ELSE IF p \notin positions \/ after[p - 1] \in {Broken, TooLarge} THEN after[p - 1]
        ELSE ApplyEvents(after[p - 1], commits[p].commit.events)
  IN after[info.head]

\* Everything from the baseline.
Rebuilt(position) ==
  LET rows == Replay(baseline.rows, Through(position)) IN
  IF PrefixHolds(position) /\ rows \notin {Broken, TooLarge}
  THEN [kind |-> "state", position |-> position, rows |-> rows]
  ELSE Failed

--------------------------------------------------------------------------
(* Checkpoints.                                                            *)

\* The manifest is readable and stands where it says.
ManifestHolds(c) == checkpoints[c].ok /\ checkpoints[c].manifest.position = c

\* Mutant of RowsHold: each row is checked, their number and sum are not.
RowsHoldSingly(c) == checkpoints[c].bad = {}

RowsHold(c) ==
  /\ checkpoints[c].bad = {}
  /\ checkpoints[c].rows = checkpoints[c].manifest.rows

\* The checkpoint was made from the history that is stored.
Authoritative(c) ==
  /\ checkpoints[c].manifest.count = Cardinality(Through(c))
  /\ checkpoints[c].manifest.history = HistorySum(c)

\* Mutant of Attempt: the first unusable candidate ends the restoration.
AttemptOnce(c) ==
  IF ManifestHolds(c) /\ RowsHold(c) /\ PrefixHolds(c) /\ Authoritative(c)
  THEN "use" ELSE "fail"

\* What becomes of a candidate: an unusable one is passed over, but damage of
\* the history itself ends the restoration.
Attempt(c) ==
  IF ~ManifestHolds(c) \/ ~RowsHold(c) THEN "skip"
  ELSE IF ~PrefixHolds(c) THEN "fail"
  ELSE IF Authoritative(c) THEN "use" ELSE "skip"

\* A scan of the rows ends at the first that is damaged.
Scanned(c) == {k \in Present(checkpoints[c].rows) : \A bad \in checkpoints[c].bad : k <= bad}

AttemptCost(c) ==
  IF ~ManifestHolds(c) THEN 0
  ELSE Cardinality(Scanned(c)) + IF RowsHold(c) THEN PrefixSize(c) ELSE 0

\* What all the candidates that were tried cost.
Spent(tried) ==
  LET spent[p \in 0 .. info.head] ==
        (IF p = 0 THEN 0 ELSE spent[p - 1]) + (IF p \in tried THEN AttemptCost(p) ELSE 0)
  IN spent[info.head]

\* Newest first, up to the first that is not passed over, and the baseline when
\* all are; one budget for everything that is tried.
Restored(position) ==
  LET candidates == {c \in DOMAIN checkpoints : c <= position}
      decided    == {c \in candidates : Attempt(c) # "skip"}
      chosen     == Latest(decided)
      tried      == {c \in candidates : \A d \in decided : d <= c}
      applied    == Through(position) \ IF decided = {} THEN {} ELSE Through(chosen)
      rows       == Replay(IF decided = {} THEN baseline.rows ELSE checkpoints[chosen].rows,
                           applied)
      last       == IF decided = {} THEN PrefixSize(position) ELSE Cardinality(applied)
  IN IF /\ decided # {} => Attempt(chosen) = "use"
        /\ Cardinality(tried) <= MaxCandidates
        /\ Spent(tried) + last <= MaxWork
        /\ PrefixHolds(position)
        /\ rows \notin {Broken, TooLarge}
     THEN [kind |-> "state", position |-> position, rows |-> rows]
     ELSE Failed

--------------------------------------------------------------------------
(* The store's operations, each one transaction.  A connection's view of   *)
(* data_version moves when another connection commits.                     *)

Unverified == [signature |-> << >>, current |-> FALSE]

\* A record is stored at its position, in place of what is there.
Stored(records, position, record) ==
  [p \in DOMAIN records \union {position} |-> IF p = position THEN record ELSE records[p]]

Viewed(elsewhere) ==
  verified' = IF elsewhere THEN [verified EXCEPT !.current = FALSE] ELSE verified

\* append: the transaction follows the head it was checked against.
StoreCommit(commit, elsewhere) ==
  /\ commits' = Stored(commits, commit.position, [commit |-> commit, ok |-> TRUE])
  /\ info' = [info EXCEPT !.head = commit.position, !.count = @ + 1]
  /\ Viewed(elsewhere)
  /\ UNCHANGED <<baseline, checkpoints>>

Selectable(position) ==
  position = 0 \/ (position \in DOMAIN commits /\ commits[position].ok)

\* publishCheckpoint: always from the baseline, replacing what is there.
PublishCheckpoint(position) ==
  /\ Selectable(position)
  /\ Rebuilt(position).kind = "state"
  /\ PrefixSize(position) <= MaxWork
  /\ LET rows == Rebuilt(position).rows
         made == [ok |-> TRUE, rows |-> rows, bad |-> {},
                  manifest |-> [position |-> position, rows |-> rows,
                                count    |-> Cardinality(Through(position)),
                                history  |-> HistorySum(position)]]
     IN checkpoints' = Stored(checkpoints, position, made)
  /\ UNCHANGED <<storedVars, verified>>

RemoveCheckpoint(c) ==
  /\ checkpoints' = [d \in DOMAIN checkpoints \ {c} |-> checkpoints[d]]
  /\ UNCHANGED <<storedVars, verified>>

Signature(c) == <<info, checkpoints[c].manifest>>

\* Mutant of IsVerified: what was verified once stays verified.
IsVerifiedForGood(c) == verified.signature = Signature(c)

\* Nothing was committed elsewhere since this very artifact was verified.
IsVerified(c) == verified.signature = Signature(c) /\ verified.current

Verifies(c) ==
  /\ RowsHold(c)
  /\ PrefixHolds(c)
  /\ Authoritative(c)
  /\ Cardinality(Present(checkpoints[c].rows)) + PrefixSize(c) <= MaxWork

NoCursor == 0

\* The rows of a page are decoded, and one more to see whether it is the last.
Page(c, cursor) ==
  LET rest == {k \in Present(checkpoints[c].rows) : k > cursor}
      left == InKeyOrder(rest)
      size == IF Cardinality(rest) < PageRows THEN Cardinality(rest) ELSE PageRows
      seen == {left[i] : i \in {j \in 1 .. Cardinality(rest) : j <= PageRows + 1}}
  IN IF seen \cap checkpoints[c].bad # {} THEN Failed
     ELSE [kind |-> "page", position |-> c, cursor |-> cursor,
           items |-> [i \in 1 .. size |->
                        [key |-> left[i], value |-> checkpoints[c].rows[left[i]]]],
           next  |-> IF Cardinality(rest) > PageRows THEN left[PageRows] ELSE NoCursor]

\* checkpointRows: a page of an artifact verified as a whole, now or before.
CheckpointPage(c, cursor) ==
  IF ManifestHolds(c) /\ (IsVerified(c) \/ Verifies(c)) THEN Page(c, cursor) ELSE Failed

\* The viewer asked for a page, and remembers what it verified.
ReadCheckpoint(c) ==
  /\ ManifestHolds(c)
  /\ ~IsVerified(c)
  /\ Verifies(c)
  /\ verified' = [signature |-> Signature(c), current |-> TRUE]
  /\ UNCHANGED <<storedVars, checkpoints>>

--------------------------------------------------------------------------
(* Damage: records lost or altered outside the store, by something that    *)
(* writes to the database file through a connection of its own.            *)

\* A row lost, another row in its place, or a digest that no longer matches.
DamagedRow(table) ==
  {[table EXCEPT !.rows[k] = v] :
      k \in Present(table.rows), v \in Forgeries} \union
  {[table EXCEPT !.bad = @ \union {k}] : k \in Present(table.rows)}

\* ... an unreadable manifest, a checkpoint made from another history, or one
\* that belongs at another position.
DamagedCheckpoint(c) ==
  LET p == checkpoints[c]
      foreign == [k \in Keys |-> NoRow]
  IN DamagedRow(p)
       \union {[p EXCEPT !.ok = FALSE]}
       \union {[p EXCEPT !.rows = foreign, !.manifest.rows = foreign,
                         !.manifest.history = <<foreign, << >>>>]}
       \union {checkpoints[d] : d \in DOMAIN checkpoints}

DamageCheckpoint(c) ==
  /\ \E p \in DamagedCheckpoint(c) \ {checkpoints[c]} :
       checkpoints' = [checkpoints EXCEPT ![c] = p]
  /\ Viewed(TRUE)
  /\ UNCHANGED storedVars

DamageHistory ==
  /\ \/ /\ baseline' \in DamagedRow(baseline) \ {baseline}
        /\ UNCHANGED commits
     \/ \E p \in DOMAIN commits :
          /\ \/ commits' = [commits EXCEPT ![p].ok = FALSE]
             \/ commits' = [q \in DOMAIN commits \ {p} |-> commits[q]]
          /\ UNCHANGED baseline
  /\ Viewed(TRUE)
  /\ UNCHANGED <<info, checkpoints>>

\* The baseline is published: nothing is derived or damaged yet.
CheckpointsInit(rows) ==
  /\ info = [head |-> 0, count |-> 0, baselineRows |-> rows]
  /\ baseline = [rows |-> rows, bad |-> {}]
  /\ commits = << >>
  /\ checkpoints = << >>
  /\ verified = Unverified
=============================================================================
