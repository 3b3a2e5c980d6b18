--------------------------- MODULE HistoryQueries ---------------------------
(***************************************************************************)
(* The questions the SDK answers about recorded history, over arbitrary    *)
(* histories and views: invariant scans, row histories, comparisons and    *)
(* listings, each run to its outcome beside a caller that may cancel and a *)
(* clock that may run out.                                                 *)
(***************************************************************************)
EXTENDS InvariantScan, RowLineage, StateComparison

CONSTANT Questions  \* [ask, history]: what is asked, and of which history

\* What a port hands over, as it is decoded before it is looked at.
Transactions == [previous : Nat, position : Nat, events : Seq(Event)]

Histories ==
  [baseline : Nat, rows : Table, rowCount : Nat, transactions : Seq(Transactions),
   count : Nat, head : Nat, stalls : BOOLEAN]

HandedViews ==
  {view \in [rows : Seq(Image), declared : Nat] :
     \A i \in 2 .. Len(view.rows) : TableOf[view.rows[i - 1].key] <= TableOf[view.rows[i].key]}

Selections == [kind : {"baseline", "before", "after"}, position : Nat]

\* A row history is asked of the whole recording up to its anchor.
Requests ==
  {a \in [op : {"scan", "lineage", "compare", "rows"}, from : Selections, to : Selections,
          key : Keys, page : [offset : Nat, limit : Nat \ {0}, maxResult : Nat],
          left : HandedViews, right : HandedViews, table : Nat \union {AnyTable},
          maxInput : Nat, maxTransactions : Nat, maxEvents : Nat, maxStates : Nat] :
     a.op = "lineage" => a.from.kind = "baseline"}

ASSUME QuestionsAssumption == Questions \subseteq [ask : Requests, history : Histories]

\* What stands for nothing is no state and no position.
ASSUME NothingAssumption ==
  NoRow \notin [position : Nat, rows : Table] /\ NoRow \notin Nat

vars == <<ask, history, signal, expired, pc, range, replay, work, outcome,
          scan, lineage, merge>>

Init ==
  /\ \E question \in Questions :
       ask = question.ask /\ history = question.history
  /\ ReplayInit
  /\ scan = NotScanned
  /\ lineage = NoLineage
  /\ merge = NotMerging

ReplayStep ==
  /\ Resolve \/ LoadBaseline \/ ReadTransaction \/ StalledPage \/ EndOfHistory
  /\ UNCHANGED <<scan, lineage, merge>>

CallerStep == (Cancel \/ Expire) /\ UNCHANGED <<scan, lineage, merge>>

Answering ==
  \/ ReplayStep
  \/ ScanStep /\ UNCHANGED <<lineage, merge>>
  \/ LineageStep /\ UNCHANGED <<scan, merge>>
  \/ ComparisonStep /\ UNCHANGED <<scan, lineage>>

Next == Answering \/ CallerStep

Spec == Init /\ [][Next]_vars /\ WF_vars(Answering)

--------------------------------------------------------------------------
Codes == {"CANCELLED", "LIMIT_EXCEEDED", "INVALID_HISTORY", "INVALID_VALUE", "QUERY_FAILED"}

\* The shapes of the query's state: what has been spent and evaluated stays
\* within the budgets, replay within the recorded transactions, and the page
\* within its limits.
TypeOK ==
  /\ signal \in BOOLEAN /\ expired \in BOOLEAN
  /\ pc \in {"resolve", "baseline", "read", "consume", "report", "finish", "merge", "done"}
  /\ ask.op \in {"scan", "lineage"} =>
       /\ work.input <= ask.maxInput
       /\ work.transactions <= ask.maxTransactions
       /\ work.events <= ask.maxEvents
       /\ replay.next \in 1 .. Len(history.transactions) + 1
  /\ ask.op = "scan" => scan.evaluated <= ask.maxStates
  /\ replay.state # NoRow =>
       /\ replay.state.rows \in Table
       /\ Cardinality(Present(replay.state.rows)) <= MaxRows
  /\ \A p \in {lineage.page, merge.page} :
       Len(p.items) <= ask.page.limit /\ p.bytes <= ask.page.maxResult
  /\ outcome.kind = "rejected" => outcome.code \in Codes

\* A query says that the history is damaged only when it is: no order of
\* inserts, deletes and key changes, no range and no page makes a replay or the
\* two passes of a row history disagree on a recording that is intact.
NoFalseAlarm ==
  outcome.kind = "rejected" /\ outcome.code = "INVALID_HISTORY" =>
    IF ask.op \in {"scan", "lineage"}
    THEN ~Intact \/ ~Covered(ask.from) \/ ~Covered(ask.to)
    ELSE ~Sound(ask.left) \/ ~Sound(ask.right)

\* Every question is answered or refused: a query ends without its caller or
\* the clock, whatever the history holds.
EveryQueryEnds == <>(pc = "done")

\* The three answers of a scan are true: a violation is the first one, clear
\* means all states, incomplete means no more than was looked at.
ScanIsTrue == TypeOK /\ FirstViolationReported /\ ClearIsComplete /\ IncompleteIsHonest

\* A row history is that of the row, and an intact recording is never called
\* damaged by it or by any other query.
LineageIsTrue == LineageIsTheRow /\ NoFalseAlarm

\* Comparisons and listings are exact, page by page.
ViewsAreExact == DifferenceIsExact /\ ListingIsExact
=============================================================================
