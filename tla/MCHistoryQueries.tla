-------------------------- MODULE MCHistoryQueries --------------------------
(***************************************************************************)
(* Questions and histories for TLC.  Two keys of one table and, in the     *)
(* views, a third of another.  Row histories are asked of every history of *)
(* up to three events; scans of one that fails, recovers and fails again;  *)
(* and each also of what a damaged database could hand over.               *)
(***************************************************************************)
EXTENDS HistoryQueries

Good == "good"
Wrong == "wrong"

MCTableOf == <<1, 1, 2>>

RowKeys == {1, 2}

Img(k, v) == [key |-> k, value |-> v]
Insert(k, v) == [before |-> NoRow, after |-> Img(k, v)]
Update(k, v, j, w) == [before |-> Img(k, v), after |-> Img(j, w)]
Delete(k, v) == [before |-> Img(k, v), after |-> NoRow]

\* The events that fit a table, over one value.
Moves(rows) ==
  {Insert(k, Good) : k \in {k \in RowKeys : rows[k] = NoRow}}
    \union {Delete(k, Good) : k \in {k \in RowKeys : rows[k] # NoRow}}
    \union {Update(p[1], Good, p[2], Good) :
              p \in {q \in RowKeys \X RowKeys :
                       /\ rows[q[1]] # NoRow
                       /\ q[1] = q[2] \/ rows[q[2]] = NoRow}}

Tables(values) ==
  {t \in [Keys -> values \union {NoRow}] : \A k \in Keys \ RowKeys : t[k] = NoRow}

RECURSIVE Lives(_)
Lives(n) ==
  IF n = 0 THEN {[base |-> t, now |-> t, events |-> << >>] : t \in Tables({Good})}
  ELSE UNION {{[base |-> l.base, now |-> ApplyEvent(l.now, e), events |-> Append(l.events, e)] :
                 e \in Moves(l.now)} : l \in Lives(n - 1)}

\* A sequence of transactions, given by their events; positions are even, so
\* that there is room between them.
Committed(groups) ==
  [i \in DOMAIN groups |->
     [previous |-> 2 * (i - 1), position |-> 2 * i, events |-> groups[i]]]

History(base, groups) ==
  [baseline |-> 0, rows |-> base, rowCount |-> Cardinality(Present(base)),
   transactions |-> Committed(groups), count |-> Len(groups), head |-> 2 * Len(groups),
   stalls |-> FALSE]

\* The events of a life cut into two transactions, or left in one.
Cuts(events) ==
  {<<events>>} \union {<<SubSeq(events, 1, i), SubSeq(events, i + 1, Len(events))>> :
                         i \in 1 .. Len(events) - 1}

Intacts == UNION {{History(l.base, g) : g \in Cuts(l.events)} : l \in Lives(3)}

\* What a history may declare or hold that is not so.
Damages(h) ==
  LET n == Len(h.transactions) IN
  {[h EXCEPT !.rowCount = @ + 1], [h EXCEPT !.count = @ + 1],
   [h EXCEPT !.head = @ + 1], [h EXCEPT !.head = @ - 2, !.count = @ - 1],
   [h EXCEPT !.transactions[n].previous = @ + 1],
   [h EXCEPT !.transactions[n].events = Append(@, Insert(1, Good)) \o <<Insert(1, Good)>>],
   [h EXCEPT !.transactions = SubSeq(@, 1, n - 1)], [h EXCEPT !.stalls = TRUE]}
    \union (IF h.rowCount = 0 THEN {} ELSE {[h EXCEPT !.rowCount = @ - 1]})

Baseline == [kind |-> "baseline", position |-> 0]
Ends(n) == {Baseline} \union [kind : {"before", "after"}, position : {2 * i : i \in 1 .. n}]

Pages == {[offset |-> 0, limit |-> 2, maxResult |-> 9], [offset |-> 1, limit |-> 3, maxResult |-> 3]}
Page == [offset |-> 0, limit |-> 3, maxResult |-> 9]

NoView == [rows |-> << >>, declared |-> 0]

Ample == [maxInput |-> 99, maxTransactions |-> 9, maxEvents |-> 99, maxStates |-> 9]

Question(op, from, to, key, page, budget, left, right, table) ==
  [op |-> op, from |-> from, to |-> to, key |-> key, page |-> page,
   left |-> left, right |-> right, table |-> table,
   maxInput |-> budget.maxInput, maxTransactions |-> budget.maxTransactions,
   maxEvents |-> budget.maxEvents, maxStates |-> budget.maxStates]

AskLineage(to, key, page, budget) ==
  Question("lineage", Baseline, to, key, page, budget, NoView, NoView, AnyTable)

AskScan(from, to, page, budget) ==
  Question("scan", from, to, 1, page, budget, NoView, NoView, AnyTable)

Lineages ==
  UNION {[ask : {AskLineage(to, k, p, Ample) :
                   to \in Ends(Len(h.transactions)), k \in RowKeys, p \in Pages},
          history : {h}] : h \in Intacts}

Moved ==
  {History([t EXCEPT ![1] = Good],
     <<<<Insert(2, Good), Delete(2, Good)>>,
       <<Update(1, Good, 2, Good), Insert(1, Good)>>, <<Delete(2, Good)>>>>) :
     t \in {[k \in Keys |-> NoRow]}}

Tight ==
  {[Ample EXCEPT !.maxInput = 4], [Ample EXCEPT !.maxInput = 7], [Ample EXCEPT !.maxInput = 12],
   [Ample EXCEPT !.maxTransactions = 3], [Ample EXCEPT !.maxEvents = 6],
   [Ample EXCEPT !.maxStates = 2]}

LineagesOfDamage ==
  UNION {[ask : {AskLineage(to, k, Page, Ample) : to \in Ends(3), k \in RowKeys},
          history : Damages(h)] : h \in Moved}

LineagesUnderBudget ==
  [ask : {AskLineage(to, 2, p, b) : to \in Ends(3), p \in {Page, [Page EXCEPT !.maxResult = 1]}, b \in {Ample} \union Tight},
   history : Moved]

\* Good, wrong, good again, wrong again, with a transaction that changes nothing.
Recovering ==
  LET base == [k \in Keys |-> IF k = 1 THEN Good ELSE NoRow] IN
  {History(base,
     <<<<Insert(2, Good)>>, <<Update(2, Good, 2, Wrong), Delete(1, Good)>>,
       <<Update(2, Wrong, 1, Good)>>, <<Update(1, Good, 1, Wrong), Insert(2, Good)>>>>),
   History(base, <<<< >>, <<Insert(2, Wrong), Delete(2, Wrong)>>, <<Insert(2, Good)>>>>),
   History([base EXCEPT ![2] = Wrong], <<<<Delete(2, Wrong)>>>>),
   History([base EXCEPT ![2] = Good],
           <<<<Update(2, Good, 2, Good)>>, <<Insert(3, Good)>>>>)}

Scans ==
  UNION {[ask : {AskScan(from, to, p, b) :
                   from \in Ends(Len(h.transactions)), to \in Ends(Len(h.transactions)),
                   p \in {Page, [Page EXCEPT !.maxResult = 1]}, b \in {Ample} \union Tight},
          history : {h} \union Damages(h)] : h \in Recovering}

Rows3 == {[key |-> 1, value |-> v] : v \in {Good, Wrong}} \union
         {[key |-> 2, value |-> v] : v \in {Good, Wrong}} \union {[key |-> 3, value |-> Good]}

InTableOrder(rows) ==
  \A i \in 1 .. Len(rows) - 1 : TableOf[rows[i].key] <= TableOf[rows[i + 1].key]

Views ==
  [rows : {r \in UNION {[1 .. n -> Rows3] : n \in 0 .. 3} : InTableOrder(r)},
   declared : 0 .. 3]

SoundViews == {v \in Views : Sound(v)}

FewViews ==
  {v \in SoundViews :
     v.rows \in {<<>>, <<Img(1, Good), Img(3, Good)>>,
                 <<Img(1, Wrong), Img(2, Good), Img(3, Good)>>}}

Filters == {AnyTable, 1, 2}

AskCompare(left, right, page, table, op) ==
  Question(op, Baseline, Baseline, 1, page,
           [Ample EXCEPT !.maxInput = 5], left, right, table)

SomeHistory == CHOOSE h \in Moved : TRUE

Comparisons ==
  [ask : {AskCompare(l, r, p, t, "compare") :
            l \in SoundViews, r \in SoundViews, p \in Pages, t \in Filters},
   history : {SomeHistory}]

ComparisonsOfDamage ==
  [ask : {AskCompare(l, r, Page, t, "compare") :
            l \in Views, r \in FewViews, t \in {AnyTable, 2}}
         \union {AskCompare(l, r, [Page EXCEPT !.maxResult = 1], AnyTable, "compare") :
                   l \in FewViews, r \in SoundViews}
         \union {AskCompare(l, r, Page, 1, "compare") : l \in FewViews, r \in Views},
   history : {SomeHistory}]

Listings ==
  [ask : {AskCompare(l, NoView, p, t, "rows") : l \in Views, p \in Pages, t \in Filters},
   history : {SomeHistory}]

MCQuestions ==
  Lineages \union LineagesOfDamage \union LineagesUnderBudget \union Scans
    \union Comparisons \union ComparisonsOfDamage \union Listings
=============================================================================
