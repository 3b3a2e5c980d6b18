-------------------------- MODULE StateComparison --------------------------
(***************************************************************************)
(* compareReconstructedStates and inspectReconstructedRows: two views of   *)
(* reconstructed states are read in table and key order and merged into    *)
(* their net differences, or one view is listed.  A view is what a session *)
(* hands out page by page, beside the row count it declares; neither is    *)
(* trusted.  A row is its key and value, and TableOf names a key's table,  *)
(* whose keys are asked for together and in the schema's order.            *)
(***************************************************************************)
EXTENDS HistoryReplay, InvestigationPages

CONSTANTS
  TableOf,  \* the table of a key: non-decreasing in the keys
  AnyTable  \* no table filter

ASSUME TableOfAssumption ==
  /\ TableOf \in [Keys -> Nat]
  /\ \A j, k \in Keys : j <= k => TableOf[j] <= TableOf[k]

VARIABLE
  merge  \* [left, right : rows taken, page, counts]

NoCounts == [inserted |-> 0, deleted |-> 0, updated |-> 0, unchanged |-> 0]

NotMerging == [left |-> 1, right |-> 1, page |-> EmptyPage, counts |-> NoCounts]

\* Mutant of InOrder: two rows under one key go through.
InOrderOrEqual(rows, i) ==
  i = 1 \/ TableOf[rows[i].key] # TableOf[rows[i - 1].key]
    \/ rows[i].key >= rows[i - 1].key

\* Keys strictly ascend within a table.
InOrder(rows, i) ==
  i = 1 \/ TableOf[rows[i].key] # TableOf[rows[i - 1].key]
    \/ rows[i].key > rows[i - 1].key

\* What asking a view for its i-th row gives: the row, or NoRow after the last.
Pull(view, i) ==
  IF i <= Len(view.rows)
  THEN IF InOrder(view.rows, i) /\ i <= view.declared THEN view.rows[i] ELSE Broken
  ELSE IF view.declared = Len(view.rows) THEN NoRow ELSE Broken

Left == Pull(ask.left, merge.left)
Right == Pull(ask.right, merge.right)

Before(a, b) ==
  \/ TableOf[a.key] < TableOf[b.key]
  \/ TableOf[a.key] = TableOf[b.key] /\ a.key < b.key

\* The row with the smaller key is merged first; equal keys go together.
TakesLeft == Left # NoRow /\ (Right = NoRow \/ ~Before(Right, Left))
TakesRight == Right # NoRow /\ (Left = NoRow \/ ~Before(Left, Right))

Chosen(table) == ask.table = AnyTable \/ table = ask.table

CountOf(before, after) ==
  CASE before = NoRow -> "inserted"
    [] after = NoRow -> "deleted"
    [] before # NoRow /\ after # NoRow /\ before # after -> "updated"
    [] OTHER -> "unchanged"

ValueOf(row) == IF row = NoRow THEN NoRow ELSE row.value

\* The work budget is checked on the declared sizes before a row is read.
StartComparison ==
  /\ pc = "resolve" /\ ask.op \in {"compare", "rows"}
  /\ IF signal THEN Reject("CANCELLED")
     ELSE IF ask.left.declared + ask.right.declared > ask.maxInput
     THEN Reject("LIMIT_EXCEEDED")
     ELSE pc' = "merge" /\ UNCHANGED outcome
  /\ UNCHANGED <<ask, history, signal, expired, range, replay, work, merge>>

Merging == pc = "merge" /\ ask.op = "compare"

Merged(before, after) ==
  LET row  == IF before = NoRow THEN after ELSE before
      item == [key |-> row.key, before |-> ValueOf(before), after |-> ValueOf(after)]
      kind == CountOf(before, after)
  IN IF ~Chosen(TableOf[row.key]) THEN merge
     ELSE [merge EXCEPT
             !.counts[kind] = @ + 1,
             !.page = IF kind = "unchanged" THEN @
                      ELSE AddItem(@, ask.page, item, ItemSize(item, NoRow))]

\* One round of the merge: the next row of either view, or of both.
MergeRow ==
  /\ Merging
  /\ Left # NoRow \/ Right # NoRow
  /\ IF signal THEN Reject("CANCELLED") /\ UNCHANGED merge
     ELSE IF Left = Broken \/ Right = Broken
     THEN Reject("INVALID_HISTORY") /\ UNCHANGED merge
     ELSE LET next == Merged(IF TakesLeft THEN Left ELSE NoRow,
                             IF TakesRight THEN Right ELSE NoRow)
          IN IF next.page.over
             THEN Reject("LIMIT_EXCEEDED") /\ UNCHANGED merge
             ELSE /\ merge' = [next EXCEPT !.left = @ + IF TakesLeft THEN 1 ELSE 0,
                                           !.right = @ + IF TakesRight THEN 1 ELSE 0]
                  /\ UNCHANGED <<pc, outcome>>
  /\ UNCHANGED <<ask, history, signal, expired, range, replay, work>>

\* Both views ended, as declared.
MergeEnds ==
  /\ Merging
  /\ Left = NoRow /\ Right = NoRow
  /\ IF signal THEN Reject("CANCELLED")
     ELSE /\ pc' = "done"
          /\ outcome' = [kind |-> "difference", counts |-> merge.counts,
                         page |-> Answer(merge.page, ask.page)]
  /\ UNCHANGED <<ask, history, signal, expired, range, replay, work, merge>>

Listing == pc = "merge" /\ ask.op = "rows"

\* One row of a listing, filtered after it was read and checked.
ListRow ==
  /\ Listing
  /\ Left # NoRow
  /\ IF signal THEN Reject("CANCELLED") /\ UNCHANGED merge
     ELSE IF Left = Broken THEN Reject("INVALID_HISTORY") /\ UNCHANGED merge
     ELSE LET item == [key |-> Left.key, before |-> NoRow, after |-> Left.value]
              page == IF Chosen(TableOf[Left.key])
                      THEN AddItem(merge.page, ask.page, item, ItemSize(item, NoRow))
                      ELSE merge.page
          IN IF page.over
             THEN Reject("LIMIT_EXCEEDED") /\ UNCHANGED merge
             ELSE /\ merge' = [merge EXCEPT !.page = page, !.left = @ + 1]
                  /\ UNCHANGED <<pc, outcome>>
  /\ UNCHANGED <<ask, history, signal, expired, range, replay, work>>

ListEnds ==
  /\ Listing
  /\ Left = NoRow
  /\ IF signal THEN Reject("CANCELLED")
     ELSE /\ pc' = "done"
          /\ outcome' = [kind |-> "rows", page |-> Answer(merge.page, ask.page)]
  /\ UNCHANGED <<ask, history, signal, expired, range, replay, work, merge>>

ComparisonStep == StartComparison \/ MergeRow \/ MergeEnds \/ ListRow \/ ListEnds

--------------------------------------------------------------------------
(* The reference: a view as a table of rows, without order or pages.       *)

\* A view that holds each key once, in order, as many rows as it declares.
Sound(view) ==
  /\ Len(view.rows) = view.declared
  /\ \A i \in DOMAIN view.rows : \A j \in 1 .. i - 1 :
       Before(view.rows[j], view.rows[i])

RowOf(view, k) ==
  LET found == {i \in DOMAIN view.rows : view.rows[i].key = k} IN
  IF found = {} THEN NoRow ELSE view.rows[CHOOSE i \in found : TRUE].value

Asks(k) == Chosen(TableOf[k])

Changed(k) == RowOf(ask.left, k) # RowOf(ask.right, k)

\* A comparison gives a page of exactly the keys whose rows differ, in order,
\* with both rows, and counts every key once under what happened to it; and it
\* gives nothing when a view is duplicated, out of order, cut short or longer
\* than it declares - in a table that was not asked about too.
DifferenceIsExact ==
  outcome.kind = "difference" =>
    LET changed == InKeyOrder({k \in Keys : Asks(k) /\ Changed(k)})
        in(view, k) == RowOf(view, k) # NoRow
    IN
    /\ Sound(ask.left) /\ Sound(ask.right)
    /\ PageOf(outcome.page, ask.page,
              [i \in DOMAIN changed |->
                 [key |-> changed[i], before |-> RowOf(ask.left, changed[i]),
                  after |-> RowOf(ask.right, changed[i])]])
    /\ outcome.counts =
         [inserted  |-> Cardinality({k \in Keys : Asks(k) /\ ~in(ask.left, k) /\ in(ask.right, k)}),
          deleted   |-> Cardinality({k \in Keys : Asks(k) /\ in(ask.left, k) /\ ~in(ask.right, k)}),
          updated   |-> Cardinality({k \in Keys : Asks(k) /\ Changed(k) /\ in(ask.left, k) /\ in(ask.right, k)}),
          unchanged |-> Cardinality({k \in Keys : Asks(k) /\ ~Changed(k) /\ in(ask.left, k)})]

\* A listing is a page of exactly the rows of the tables asked about, and none
\* is given of a view that is not sound as a whole.
ListingIsExact ==
  outcome.kind = "rows" =>
    LET present == InKeyOrder({k \in Keys : Asks(k) /\ RowOf(ask.left, k) # NoRow}) IN
    /\ Sound(ask.left)
    /\ PageOf(outcome.page, ask.page,
              [i \in DOMAIN present |->
                 [key |-> present[i], before |-> NoRow, after |-> RowOf(ask.left, present[i])]])
=============================================================================
