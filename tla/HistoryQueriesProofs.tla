------------------------ MODULE HistoryQueriesProofs ------------------------
(***************************************************************************)
(* Theorems about HistoryQueries, for every history a port may hand over,  *)
(* every view, question and budget: what the four operations answer is     *)
(* true, and none calls an intact recording damaged.                       *)
(*                                                                         *)
(* What the model computes by recursion - rows, origins, pages, lives - is *)
(* reasoned about step by step: a recursive function is unfolded by the    *)
(* existence of its run (RunExists), and a fact about its values is shown  *)
(* by induction over a set of numbers (Induction).                         *)
(*                                                                         *)
(* The invariants are proved one upon the other: the shapes of the state   *)
(* (Shape), the place of the replay (ReplayInv), and on these what a scan  *)
(* (ScanInv), a comparison or a listing (MergeInv) and a row history       *)
(* (LineageInv) know so far.                                               *)
(***************************************************************************)
EXTENDS HistoryQueries, FiniteSetTheorems, SequenceTheorems, TLAPS

--------------------------------------------------------------------------
(* Induction and recursion.                                                *)

\* A set of numbers that holds 0, and with a number the next, holds them all.
LEMMA Induction ==
  ASSUME NEW T, 0 \in T, \A n \in Nat : n \in T => n + 1 \in T
  PROVE  \A n \in Nat : n \in T
<1> DEFINE R == OpToRel(<, Nat)
           U == Nat \ T
<1>1. IsWellFoundedOn(R, Nat)
  BY NatLessThanWellFounded
<1>2. SUFFICES ASSUME U # {} PROVE FALSE
  OBVIOUS
<1>3. U \subseteq Nat
  OBVIOUS
<1>4. PICK m \in U : \A k \in U : <<k, m>> \notin R
  <2> HIDE DEF R, U
  <2> QED
    BY <1>1, <1>2, <1>3, WFMin
<1>5. m \in Nat /\ m # 0
  OBVIOUS
<1>6. m - 1 \in Nat /\ m - 1 < m
  BY <1>5
<1>7. m - 1 \notin U
  BY <1>4, <1>5, <1>6 DEF OpToRel
<1> QED
  BY <1>5, <1>6, <1>7

\* A step F[i] for each position stays among the values V; a run of the steps
\* starts from a base.
StepsWithin(F, V, N) == \A i \in 1 .. N : \A v \in V : F[i][v] \in V

IsRun(g, F, V, base, N) ==
  /\ g \in [0 .. N -> V]
  /\ g[0] = base
  /\ \A i \in 1 .. N : g[i] = F[i][g[i - 1]]

\* There is a run.
LEMMA RunExists ==
  ASSUME NEW V, NEW base \in V, NEW N \in Nat, NEW F, StepsWithin(F, V, N)
  PROVE  \E g : IsRun(g, F, V, base, N)
<1> USE DEF StepsWithin, IsRun
<1> DEFINE Runs(n) ==
             {g \in [0 .. n -> V] : g[0] = base /\ \A i \in 1 .. n : g[i] = F[i][g[i - 1]]}
           T == {n \in Nat : n <= N => Runs(n) # {}}
<1>1. 0 \in T
  <2>1. [i \in 0 .. 0 |-> base] \in Runs(0)
    OBVIOUS
  <2> QED
    BY <2>1
<1>2. ASSUME NEW n \in Nat, n \in T PROVE n + 1 \in T
  <2>1. SUFFICES ASSUME n + 1 <= N PROVE Runs(n + 1) # {}
    <3> HIDE DEF Runs
    <3> QED
      OBVIOUS
  <2>2. PICK g \in Runs(n) : TRUE
    BY <1>2, <2>1
  <2> DEFINE h == [i \in 0 .. n + 1 |-> IF i = n + 1 THEN F[n + 1][g[n]] ELSE g[i]]
  <2>3. F[n + 1][g[n]] \in V
    BY <2>1, <2>2
  <2>4. h \in [0 .. n + 1 -> V]
    BY <2>2, <2>3
  <2>5. h[0] = base
    BY <2>2
  <2>6. ASSUME NEW i \in 1 .. n + 1 PROVE h[i] = F[i][h[i - 1]]
    <3>1. CASE i = n + 1
      BY <3>1
    <3>2. CASE i \in 1 .. n
      <4>1. h[i] = g[i] /\ h[i - 1] = g[i - 1]
        BY <3>2
      <4> QED
        BY <2>2, <3>2, <4>1
    <3> QED
      BY <3>1, <3>2
  <2> QED
    BY <2>4, <2>5, <2>6
<1> HIDE DEF T
<1>3. N \in T
  BY <1>1, <1>2, Induction
<1> QED
  BY <1>3 DEF T

--------------------------------------------------------------------------
(* Rows and events.                                                        *)

Results == Table \union {Broken, TooLarge}

\* The rows after the first i events of a list.
RowsIn(rows, events, i) ==
  LET after[j \in 0 .. Len(events)] ==
        IF j = 0 THEN rows
        ELSE LET r == after[j - 1] IN
             IF r \in {Broken, TooLarge} THEN r ELSE ApplyEvent(r, events[j])
  IN after[i]

OneEvent(r, event) == IF r \in {Broken, TooLarge} THEN r ELSE ApplyEvent(r, event)

\* An event turns rows into rows, or refuses them.
LEMMA ApplyEventType ==
  ASSUME NEW rows \in Table, NEW event \in Event
  PROVE  ApplyEvent(rows, event) \in Results
<1>1. Without(rows, event) \in Table
  BY NoRowAssumption DEF Without, Table, Event, Image
<1> QED
  BY <1>1, NoRowAssumption DEF ApplyEvent, Results, Event, Image, Table

\* The rows after each event, one from the other.
LEMMA RowsInSteps ==
  ASSUME NEW rows \in Table, NEW events \in Seq(Event)
  PROVE  /\ RowsIn(rows, events, 0) = rows
         /\ \A i \in 1 .. Len(events) :
              RowsIn(rows, events, i) = OneEvent(RowsIn(rows, events, i - 1), events[i])
<1> DEFINE N == Len(events)
           F == [i \in 1 .. N |-> [v \in Results |-> OneEvent(v, events[i])]]
           Is(g) == g = [j \in 0 .. N |-> IF j = 0 THEN rows
                          ELSE LET r == g[j - 1] IN
                               IF r \in {Broken, TooLarge} THEN r ELSE ApplyEvent(r, events[j])]
           f == CHOOSE g : Is(g)
<1>1. \A i \in 1 .. N : \A v \in Results : F[i][v] \in Results /\ F[i][v] = OneEvent(v, events[i])
  BY ApplyEventType DEF OneEvent, Results
<1>2. rows \in Results /\ N \in Nat
  BY DEF Results
<1>3. PICK g : IsRun(g, F, Results, rows, N)
  <2>1. StepsWithin(F, Results, N)
    BY <1>1 DEF StepsWithin
  <2> HIDE DEF N, F
  <2> QED
    BY <1>2, <2>1, RunExists
<1>4. Is(g)
  <2>1. \A j \in 1 .. N : g[j] = OneEvent(g[j - 1], events[j])
    <3> HIDE DEF F
    <3> QED
      BY <1>1, <1>2, <1>3 DEF IsRun
  <2>2. g = [j \in 0 .. N |-> g[j]] /\ g[0] = rows
    BY <1>3 DEF IsRun
  <2> QED
    BY <1>2, <2>1, <2>2 DEF OneEvent
<1>5. Is(f)
  <2> HIDE DEF Is
  <2> QED
    BY <1>4, Zenon
<1>6. \A i : RowsIn(rows, events, i) = f[i]
  BY DEF RowsIn
<1> HIDE DEF f
<1> QED
  BY <1>2, <1>5, <1>6 DEF OneEvent

\* A state holds finitely many rows.
LEMMA PresentFinite ==
  ASSUME NEW rows \in Table
  PROVE  IsFiniteSet(Present(rows)) /\ Cardinality(Present(rows)) \in Nat
<1>1. Present(rows) \subseteq Keys
  BY DEF Present
<1> QED
  BY <1>1, KeysAssumption, FS_Subset, FS_CardinalityType

\* States within the limit of rows.
Sized == {rows \in Table : Cardinality(Present(rows)) <= MaxRows}

Bounded == Sized \union {Broken, TooLarge}

\* An event leaves a state within its limits, or none.
LEMMA ApplyEventBounded ==
  ASSUME NEW rows \in Sized, NEW event \in Event
  PROVE  ApplyEvent(rows, event) \in Bounded
<1> DEFINE kept == Without(rows, event)
           k == event.after.key
           grown == [kept EXCEPT ![k] = event.after.value]
<1>1. kept \in Table /\ Present(kept) \subseteq Present(rows)
  BY NoRowAssumption DEF Without, Table, Event, Image, Sized, Present
<1>2. Cardinality(Present(kept)) <= Cardinality(Present(rows))
  BY <1>1, PresentFinite, FS_Subset DEF Sized
<1>3. kept \in Sized
  BY <1>1, <1>2, PresentFinite, MaxRowsAssumption DEF Sized
<1>4. CASE \/ Stale(rows, event)
           \/ event.after = NoRow
           \/ kept[event.after.key] # NoRow
           \/ Cardinality(Present(kept)) >= MaxRows
  BY <1>3, <1>4 DEF ApplyEvent, Bounded
<1>5. CASE /\ ~Stale(rows, event)
           /\ event.after # NoRow
           /\ kept[k] = NoRow
           /\ ~(Cardinality(Present(kept)) >= MaxRows)
  <2>1. k \in Keys /\ event.after.value \in Values
    BY <1>5 DEF Event, Image
  <2>2. grown \in Table /\ Present(grown) = Present(kept) \union {k}
    BY <1>1, <2>1, NoRowAssumption DEF Table, Present
  <2>3. k \notin Present(kept)
    BY <1>5 DEF Present
  <2>4. Cardinality(Present(grown)) = Cardinality(Present(kept)) + 1
    BY <1>1, <2>2, <2>3, PresentFinite, FS_AddElement
  <2>5. Cardinality(Present(grown)) <= MaxRows
    BY <1>1, <1>5, <2>4, PresentFinite, MaxRowsAssumption
  <2>6. ApplyEvent(rows, event) = grown
    BY <1>5 DEF ApplyEvent
  <2> QED
    BY <2>2, <2>5, <2>6 DEF Bounded, Sized
<1> QED
  BY <1>4, <1>5

\* What a state within its limits is turned into.
LEMMA RowsInBounded ==
  ASSUME NEW rows \in Sized, NEW events \in Seq(Event), NEW n \in 0 .. Len(events)
  PROVE  RowsIn(rows, events, n) \in Bounded
<1> DEFINE T == {i \in Nat : i <= Len(events) => RowsIn(rows, events, i) \in Bounded}
<1>1. 0 \in T
  BY RowsInSteps DEF Sized, Bounded
<1>2. ASSUME NEW i \in Nat, i \in T PROVE i + 1 \in T
  <2>1. SUFFICES ASSUME i + 1 <= Len(events)
                 PROVE  RowsIn(rows, events, i + 1) \in Bounded
    OBVIOUS
  <2>2. i + 1 \in 1 .. Len(events) /\ events[i + 1] \in Event /\ i + 1 - 1 = i
    BY <2>1
  <2>3. RowsIn(rows, events, i + 1) = OneEvent(RowsIn(rows, events, i), events[i + 1])
    BY <2>2, RowsInSteps DEF Sized
  <2>4. RowsIn(rows, events, i) \in Bounded
    BY <1>2, <2>1
  <2> QED
    BY <2>2, <2>3, <2>4, ApplyEventBounded DEF OneEvent, Bounded
<1> HIDE DEF T
<1>3. n \in T
  BY <1>1, <1>2, Induction
<1> QED
  BY <1>3 DEF T

\* What a transaction's events make of a state is what they make of it one by one.
LEMMA ApplyEventsIsRowsIn ==
  ASSUME NEW rows, NEW events
  PROVE  ApplyEvents(rows, events) = RowsIn(rows, events, Len(events))
BY DEF ApplyEvents, RowsIn

\* A transaction leaves a state within its limits, or none.
LEMMA ApplyEventsBounded ==
  ASSUME NEW rows \in Sized, NEW events \in Seq(Event)
  PROVE  ApplyEvents(rows, events) \in Bounded
BY RowsInBounded, ApplyEventsIsRowsIn

\* So do some of its events, whatever they are applied to.
LEMMA RowsInType ==
  ASSUME NEW rows \in Table, NEW events \in Seq(Event), NEW n \in 0 .. Len(events)
  PROVE  RowsIn(rows, events, n) \in Results
<1> DEFINE T == {i \in Nat : i <= Len(events) => RowsIn(rows, events, i) \in Results}
<1>1. 0 \in T
  BY RowsInSteps DEF Results
<1>2. ASSUME NEW i \in Nat, i \in T PROVE i + 1 \in T
  <2>1. SUFFICES ASSUME i + 1 <= Len(events)
                 PROVE  RowsIn(rows, events, i + 1) \in Results
    OBVIOUS
  <2>2. i + 1 \in 1 .. Len(events) /\ events[i + 1] \in Event /\ i + 1 - 1 = i
    BY <2>1
  <2>3. RowsIn(rows, events, i + 1) = OneEvent(RowsIn(rows, events, i), events[i + 1])
    BY <2>2, RowsInSteps
  <2>4. RowsIn(rows, events, i) \in Results
    BY <1>2, <2>1
  <2> QED
    BY <2>2, <2>3, <2>4, ApplyEventType DEF OneEvent, Results
<1> HIDE DEF T
<1>3. n \in T
  BY <1>1, <1>2, Induction
<1> QED
  BY <1>3 DEF T

--------------------------------------------------------------------------
(* What a history says.                                                    *)

\* What a history is made of.
LEMMA HistoryTypes ==
  ASSUME history \in Histories
  PROVE  /\ Commits \in Seq(Transactions)
         /\ Len(Commits) \in Nat
         /\ history.rows \in Table
         /\ history.baseline \in Nat /\ history.head \in Nat
         /\ \A i \in 1 .. Len(Commits) :
              /\ Commits[i].events \in Seq(Event)
              /\ Commits[i].position \in Nat /\ Commits[i].previous \in Nat
<1>1. /\ Commits \in Seq(Transactions)
      /\ history.rows \in Table
      /\ history.baseline \in Nat /\ history.head \in Nat
  BY DEF Histories, Commits
<1>2. ASSUME NEW i \in 1 .. Len(Commits) PROVE Commits[i] \in Transactions
  BY <1>1
<1>3. Len(Commits) \in Nat
  BY <1>1
<1> QED
  BY <1>1, <1>2, <1>3 DEF Transactions

\* The rows after one more transaction.
LEMMA RowsAfterSteps ==
  ASSUME history \in Histories
  PROVE  /\ RowsAfter(0) = history.rows
         /\ \A i \in 1 .. Len(Commits) :
              RowsAfter(i) = IF RowsAfter(i - 1) \in {Broken, TooLarge} THEN RowsAfter(i - 1)
                             ELSE ApplyEvents(RowsAfter(i - 1), Commits[i].events)
<1> DEFINE N == Len(Commits)
           Next1(r, i) == IF r \in {Broken, TooLarge} THEN r ELSE ApplyEvents(r, Commits[i].events)
           F == [i \in 1 .. N |-> [v \in Results |-> Next1(v, i)]]
           Is(g) == g = [i \in 0 .. N |-> IF i = 0 THEN history.rows
                          ELSE IF g[i - 1] \in {Broken, TooLarge} THEN g[i - 1]
                          ELSE ApplyEvents(g[i - 1], Commits[i].events)]
           f == CHOOSE g : Is(g)
<1>1. N \in Nat /\ history.rows \in Results
  BY HistoryTypes DEF Results
<1>2. \A i \in 1 .. N : \A v \in Results : Next1(v, i) \in Results
  <2> SUFFICES ASSUME NEW i \in 1 .. N, NEW v \in Table
               PROVE  ApplyEvents(v, Commits[i].events) \in Results
    BY DEF Results
  <2>1. Commits[i].events \in Seq(Event) /\ Len(Commits[i].events) \in 0 .. Len(Commits[i].events)
    BY HistoryTypes
  <2> QED
    BY <2>1, RowsInType, ApplyEventsIsRowsIn
<1> HIDE DEF Next1
<1>3. \A i \in 1 .. N : \A v \in Results : F[i][v] \in Results /\ F[i][v] = Next1(v, i)
  BY <1>2
<1>4. StepsWithin(F, Results, N)
  BY <1>3 DEF StepsWithin
<1>5. PICK g : IsRun(g, F, Results, history.rows, N)
  <2> HIDE DEF N, F
  <2> QED
    BY <1>1, <1>4, RunExists
<1>6. Is(g)
  <2>1. \A i \in 1 .. N : g[i] = Next1(g[i - 1], i)
    <3> HIDE DEF F
    <3> QED
      BY <1>1, <1>3, <1>5 DEF IsRun
  <2>2. g = [i \in 0 .. N |-> g[i]] /\ g[0] = history.rows
    BY <1>5 DEF IsRun
  <2>3. ASSUME NEW i \in 0 .. N
        PROVE  g[i] = IF i = 0 THEN history.rows
                      ELSE IF g[i - 1] \in {Broken, TooLarge} THEN g[i - 1]
                      ELSE ApplyEvents(g[i - 1], Commits[i].events)
    <3>1. CASE i = 0
      BY <2>2, <3>1
    <3>2. CASE i # 0
      <4>1. i \in 1 .. N
        BY <1>1, <3>2
      <4> QED
        BY <2>1, <3>2, <4>1 DEF Next1
    <3> QED
      BY <3>1, <3>2
  <2> HIDE DEF N
  <2> QED
    BY <2>2, <2>3
<1>7. Is(f)
  <2> HIDE DEF Is
  <2> QED
    BY <1>6, Zenon
<1>8. \A i : RowsAfter(i) = f[i]
  BY DEF RowsAfter
<1> HIDE DEF f
<1>9. f[0] = history.rows
  BY <1>1, <1>7
<1>10. ASSUME NEW i \in 1 .. N
       PROVE  f[i] = IF f[i - 1] \in {Broken, TooLarge} THEN f[i - 1]
                     ELSE ApplyEvents(f[i - 1], Commits[i].events)
  <2> HIDE DEF N
  <2>1. i \in 0 .. N /\ i # 0
    BY <1>1
  <2> QED
    BY <1>7, <2>1
<1> QED
  BY <1>8, <1>9, <1>10

\* A history that does not break later has not broken before.
LEMMA UnbrokenBefore ==
  ASSUME history \in Histories, NEW n \in 0 .. Len(Commits), RowsAfter(n) # Broken,
         NEW m \in 0 .. n
  PROVE  RowsAfter(m) # Broken
<1> DEFINE T == {i \in Nat : m + i <= n => (RowsAfter(m) = Broken => RowsAfter(m + i) = Broken)}
<1>1. 0 \in T
  BY HistoryTypes
<1>2. ASSUME NEW i \in Nat, i \in T PROVE i + 1 \in T
  <2>1. SUFFICES ASSUME m + (i + 1) <= n, RowsAfter(m) = Broken
                 PROVE  RowsAfter(m + (i + 1)) = Broken
    OBVIOUS
  <2>2. m + (i + 1) \in 1 .. Len(Commits) /\ m + (i + 1) - 1 = m + i
    BY <2>1, HistoryTypes
  <2>3. RowsAfter(m + i) = Broken
    BY <1>2, <2>1
  <2> QED
    BY <2>2, <2>3, RowsAfterSteps
<1> HIDE DEF T
<1>3. n - m \in T
  BY <1>1, <1>2, Induction, HistoryTypes
<1> QED
  BY <1>3, HistoryTypes DEF T

--------------------------------------------------------------------------
(* Positions along a chain of transactions.                                *)

\* The first n transactions follow one another and advance.
ChainedTo(n) ==
  \A i \in 1 .. n :
    /\ Commits[i].previous = PositionAfter(i - 1)
    /\ Commits[i].previous < Commits[i].position

\* The positions of a recording are numbers.
LEMMA PositionType ==
  ASSUME history \in Histories, NEW n \in 0 .. Len(Commits)
  PROVE  PositionAfter(n) \in Nat
BY HistoryTypes DEF PositionAfter

\* Along a chain positions ascend.
LEMMA Ascending ==
  ASSUME history \in Histories, NEW n \in 0 .. Len(Commits), ChainedTo(n),
         NEW i \in 0 .. n, NEW j \in 0 .. n, i < j
  PROVE  PositionAfter(i) < PositionAfter(j)
<1> DEFINE T == {d \in Nat : i + d + 1 <= n => PositionAfter(i) < PositionAfter(i + d + 1)}
<1>1. \A m \in 1 .. n : PositionAfter(m - 1) < PositionAfter(m)
  BY DEF ChainedTo, PositionAfter
<1>2. 0 \in T
  <2>1. i + 0 + 1 <= n => i + 0 + 1 \in 1 .. n /\ (i + 0 + 1) - 1 = i
    BY HistoryTypes
  <2> QED
    BY <1>1, <2>1
<1>3. ASSUME NEW d \in Nat, d \in T PROVE d + 1 \in T
  <2>1. SUFFICES ASSUME i + (d + 1) + 1 <= n
                 PROVE  PositionAfter(i) < PositionAfter(i + (d + 1) + 1)
    OBVIOUS
  <2>2. i + (d + 1) + 1 \in 1 .. n /\ i + (d + 1) + 1 - 1 = i + d + 1
    BY <2>1, HistoryTypes
  <2>3. PositionAfter(i + d + 1) < PositionAfter(i + (d + 1) + 1)
    BY <1>1, <2>2
  <2>4. PositionAfter(i) < PositionAfter(i + d + 1)
    BY <1>3, <2>1
  <2>5. /\ PositionAfter(i) \in Nat
        /\ PositionAfter(i + d + 1) \in Nat
        /\ PositionAfter(i + (d + 1) + 1) \in Nat
    BY <2>1, PositionType, HistoryTypes
  <2> QED
    BY <2>3, <2>4, <2>5
<1> HIDE DEF T
<1>4. j - i - 1 \in T
  <2>1. j - i - 1 \in Nat
    BY HistoryTypes
  <2> QED
    BY <1>2, <1>3, <2>1, Induction
<1> QED
  BY <1>4, HistoryTypes DEF T

\* A position on the chain leads back to where it is.
LEMMA CommitsToPosition ==
  ASSUME history \in Histories, NEW n \in 0 .. Len(Commits), ChainedTo(n), NEW m \in 0 .. n
  PROVE  CommitsTo(PositionAfter(m)) = m
<1> DEFINE Is(k) == /\ k \in 0 .. Len(Commits)
                    /\ PositionAfter(k) = PositionAfter(m)
                    /\ \A l \in 0 .. k - 1 : PositionAfter(l) # PositionAfter(m)
<1>1. Len(Commits) \in Nat
  BY HistoryTypes
<1>2. Is(m)
  <2>1. ASSUME NEW l \in 0 .. m - 1 PROVE PositionAfter(l) # PositionAfter(m)
    <3>1. PositionAfter(l) < PositionAfter(m)
      BY <1>1, Ascending
    <3> QED
      BY <1>1, <3>1, PositionType
  <2> QED
    BY <1>1, <2>1
<1>3. ASSUME NEW k, Is(k) PROVE k = m
  <2>1. ~(k < m)
    BY <1>1, <1>2, <1>3
  <2>2. ~(m < k)
    BY <1>1, <1>2, <1>3
  <2> QED
    BY <1>1, <1>3, <2>1, <2>2
<1>4. CommitsTo(PositionAfter(m)) = CHOOSE k : Is(k)
  BY DEF CommitsTo
<1> HIDE DEF Is
<1> QED
  BY <1>2, <1>3, <1>4

--------------------------------------------------------------------------
(* Pages.                                                                  *)

Options == [offset : Nat, limit : Nat \ {0}, maxResult : Nat]

PageShapes(Items) ==
  [items : Seq(Items), bytes : Nat, full : BOOLEAN, total : Nat, over : BOOLEAN]

\* The shape of a page, within its limits.
PageWithin(page, options, Items) ==
  /\ page \in PageShapes(Items)
  /\ Len(page.items) <= options.limit
  /\ page.bytes <= options.maxResult

\* The page of the matches so far: it holds all of them from the offset on, until
\* it is full, and then at least one.
PageSound(page, options, Items, all) ==
  /\ PageWithin(page, options, Items)
  /\ page.total = Len(all)
  /\ \A i \in 1 .. Len(page.items) : page.items[i] = all[options.offset + i]
  /\ options.offset + Len(page.items) <= page.total \/ page.items = << >>
  /\ IF page.full THEN page.items # << >>
     ELSE Len(page.items) =
            IF page.total > options.offset THEN page.total - options.offset ELSE 0

\* The empty page is a page of no matches.
LEMMA EmptyPageSound ==
  ASSUME NEW options \in Options, NEW Items
  PROVE  PageSound(EmptyPage, options, Items, << >>) /\ ~EmptyPage.over
BY DEF PageSound, PageWithin, PageShapes, EmptyPage, Options

\* What one more match does to a page, case by case.
LEMMA AddItemFields ==
  ASSUME NEW options \in Options, NEW Items, NEW item \in Items, NEW size \in Nat,
         NEW page \in PageShapes(Items)
  PROVE  LET next == AddItem(page, options, item, size) IN
         /\ next \in PageShapes(Items)
         /\ next.total = page.total + 1
         /\ \/ /\ page.total < options.offset \/ page.full
               /\ next.items = page.items
               /\ next.bytes = page.bytes
               /\ next.full = page.full
            \/ /\ ~(page.total < options.offset) /\ ~page.full
               /\ Len(page.items) = options.limit \/ page.items # << >>
               /\ next.items = page.items
               /\ next.bytes = page.bytes
               /\ next.full
            \/ next.over /\ next.items = page.items /\ next.bytes = page.bytes
            \/ /\ ~(page.total < options.offset) /\ ~page.full
               /\ Len(page.items) # options.limit
               /\ page.bytes + size <= options.maxResult
               /\ next.items = Append(page.items, item)
               /\ next.bytes = page.bytes + size
               /\ ~next.full
<1> DEFINE counted == [page EXCEPT !.total = @ + 1]
<1>1. /\ page.items \in Seq(Items) /\ page.bytes \in Nat /\ page.full \in BOOLEAN
      /\ page.total \in Nat /\ page.over \in BOOLEAN /\ page.total + 1 \in Nat
      /\ page.bytes + size \in Nat /\ Append(page.items, item) \in Seq(Items)
      /\ options.offset \in Nat /\ options.maxResult \in Nat
  BY DEF PageShapes, Options
<1>2. /\ counted \in PageShapes(Items)
      /\ counted.items = page.items /\ counted.bytes = page.bytes
      /\ counted.full = page.full /\ counted.total = page.total + 1
  BY <1>1 DEF PageShapes
<1> HIDE DEF counted
<1>3. AddItem(page, options, item, size) =
        IF page.total < options.offset \/ page.full THEN counted
        ELSE IF Len(page.items) = options.limit THEN [counted EXCEPT !.full = TRUE]
        ELSE IF page.bytes + size > options.maxResult
             THEN IF page.items = << >> THEN [counted EXCEPT !.over = TRUE]
                                        ELSE [counted EXCEPT !.full = TRUE]
        ELSE [counted EXCEPT !.items = Append(@, item), !.bytes = @ + size]
  BY DEF AddItem, counted
<1>4. /\ [counted EXCEPT !.full = TRUE] \in PageShapes(Items)
      /\ [counted EXCEPT !.full = TRUE].items = page.items
      /\ [counted EXCEPT !.full = TRUE].bytes = page.bytes
      /\ [counted EXCEPT !.full = TRUE].total = page.total + 1
      /\ [counted EXCEPT !.full = TRUE].full = TRUE
  BY <1>2 DEF PageShapes
<1>5. /\ [counted EXCEPT !.over = TRUE] \in PageShapes(Items)
      /\ [counted EXCEPT !.over = TRUE].items = page.items
      /\ [counted EXCEPT !.over = TRUE].bytes = page.bytes
      /\ [counted EXCEPT !.over = TRUE].total = page.total + 1
      /\ [counted EXCEPT !.over = TRUE].over = TRUE
  BY <1>2 DEF PageShapes
<1> DEFINE grown == [counted EXCEPT !.items = Append(@, item), !.bytes = @ + size]
<1>6. /\ grown \in PageShapes(Items)
      /\ grown.items = Append(page.items, item)
      /\ grown.bytes = page.bytes + size
      /\ grown.total = page.total + 1
      /\ grown.full = page.full
  BY <1>1, <1>2 DEF PageShapes
<1> HIDE DEF grown
<1>7. CASE page.total < options.offset \/ page.full
  BY <1>2, <1>3, <1>7
<1>8. CASE /\ ~(page.total < options.offset \/ page.full)
           /\ Len(page.items) = options.limit
  BY <1>3, <1>4, <1>8
<1>9. CASE /\ ~(page.total < options.offset \/ page.full)
           /\ Len(page.items) # options.limit
           /\ page.bytes + size > options.maxResult
  BY <1>3, <1>4, <1>5, <1>9
<1>10. CASE /\ ~(page.total < options.offset \/ page.full)
            /\ Len(page.items) # options.limit
            /\ ~(page.bytes + size > options.maxResult)
  <2>1. page.bytes + size <= options.maxResult
    BY <1>1, <1>10
  <2> QED
    BY <1>3, <1>6, <1>10, <2>1 DEF grown
<1> QED
  BY <1>7, <1>8, <1>9, <1>10

\* A match leaves a page within its limits.
LEMMA AddItemWithin ==
  ASSUME NEW options \in Options, NEW Items, NEW item \in Items, NEW size \in Nat,
         NEW page, PageWithin(page, options, Items)
  PROVE  PageWithin(AddItem(page, options, item, size), options, Items)
<1> DEFINE next == AddItem(page, options, item, size)
<1>1. page \in PageShapes(Items) /\ Len(page.items) <= options.limit
      /\ page.bytes <= options.maxResult
  BY DEF PageWithin, PageShapes
<1>2. /\ next \in PageShapes(Items)
      /\ \/ next.items = page.items /\ next.bytes = page.bytes
         \/ /\ Len(page.items) # options.limit
            /\ page.bytes + size <= options.maxResult
            /\ next.items = Append(page.items, item)
            /\ next.bytes = page.bytes + size
  BY <1>1, AddItemFields
<1>3. page.items \in Seq(Items) /\ options.limit \in Nat
  BY <1>1 DEF PageShapes, Options
<1>4. Len(Append(page.items, item)) = Len(page.items) + 1 /\ Len(page.items) \in Nat
  BY <1>3
<1> HIDE DEF next
<1>5. Len(next.items) <= options.limit /\ next.bytes <= options.maxResult
  BY <1>1, <1>2, <1>3, <1>4
<1> QED
  BY <1>2, <1>5 DEF PageWithin, PageShapes, next

\* One more match.
LEMMA AddItemSound ==
  ASSUME NEW options \in Options, NEW Items, NEW item \in Items, NEW size \in Nat,
         NEW all \in Seq(Items),
         NEW page, PageSound(page, options, Items, all),
         ~AddItem(page, options, item, size).over
  PROVE  PageSound(AddItem(page, options, item, size), options, Items, Append(all, item))
<1> DEFINE next == AddItem(page, options, item, size)
           more == Append(all, item)
           o == options.offset
           n == Len(page.items)
<1>1. page \in PageShapes(Items)
  BY DEF PageSound, PageWithin, PageShapes
<1>2. /\ page.items \in Seq(Items) /\ n \in Nat
      /\ page.total \in Nat /\ page.total = Len(all)
      /\ o \in Nat /\ options.limit \in Nat \ {0}
      /\ page.full \in BOOLEAN
  BY <1>1 DEF PageSound, PageShapes, Options
<1>3. /\ Len(more) = Len(all) + 1
      /\ \A i \in 1 .. Len(all) : more[i] = all[i]
      /\ more[Len(all) + 1] = item
  OBVIOUS
<1>4. PageWithin(next, options, Items)
  BY AddItemWithin DEF PageSound
<1>5. next.total = page.total + 1
  BY <1>1, AddItemFields
<1>6. /\ o + n <= page.total \/ page.items = << >>
      /\ \A i \in 1 .. n : page.items[i] = all[o + i]
      /\ page.full => page.items # << >>
      /\ ~page.full => n = IF page.total > o THEN page.total - o ELSE 0
  BY DEF PageSound
<1>7. page.items = << >> => n = 0
  OBVIOUS
<1>8. ASSUME NEW i \in 1 .. n PROVE more[o + i] = all[o + i]
  <2>1. o + i \in 1 .. Len(all)
    BY <1>2, <1>6, <1>7
  <2> QED
    BY <1>3, <2>1
<1>9. CASE /\ page.total < o \/ page.full
           /\ next.items = page.items
           /\ next.full = page.full
  <2>1. Len(next.items) = n /\ \A i \in 1 .. n : next.items[i] = more[o + i]
    BY <1>6, <1>8, <1>9
  <2>2. o + n <= next.total \/ next.items = << >>
    BY <1>2, <1>5, <1>6, <1>9
  <2>3. IF next.full THEN next.items # << >>
        ELSE n = IF next.total > o THEN next.total - o ELSE 0
    BY <1>2, <1>5, <1>6, <1>9
  <2> HIDE DEF next, more, n
  <2> QED
    BY <1>2, <1>3, <1>4, <1>5, <2>1, <2>2, <2>3 DEF PageSound, next, more
<1>10. CASE /\ ~(page.total < o) /\ ~page.full
            /\ Len(page.items) = options.limit \/ page.items # << >>
            /\ next.items = page.items
            /\ next.full
  <2>1. Len(next.items) = n /\ \A i \in 1 .. n : next.items[i] = more[o + i]
    BY <1>6, <1>8, <1>10
  <2>2. o + n <= next.total
    BY <1>2, <1>5, <1>6, <1>10
  <2>3. next.items # << >>
    BY <1>2, <1>7, <1>10
  <2> HIDE DEF next, more, n
  <2> QED
    BY <1>2, <1>3, <1>4, <1>5, <1>10, <2>1, <2>2, <2>3 DEF PageSound, next, more
<1>11. CASE /\ ~(page.total < o) /\ ~page.full
            /\ next.items = Append(page.items, item)
            /\ ~next.full
  <2>1. n = page.total - o
    BY <1>2, <1>6, <1>11
  <2>2. /\ Len(next.items) = n + 1
        /\ next.items[n + 1] = item
        /\ \A i \in 1 .. n : next.items[i] = page.items[i]
    BY <1>2, <1>11
  <2> HIDE DEF next, more, n
  <2>3. ASSUME NEW i \in 1 .. n + 1 PROVE next.items[i] = more[o + i]
    <3>1. CASE i = n + 1
      <4>1. o + i = Len(all) + 1
        BY <1>2, <2>1, <3>1
      <4> QED
        BY <1>3, <2>2, <3>1, <4>1
    <3>2. CASE i \in 1 .. n
      BY <1>6, <1>8, <2>2, <3>2
    <3> QED
      BY <1>2, <3>1, <3>2
  <2>4. next.total > o /\ o + (n + 1) = next.total
    BY <1>2, <1>5, <1>11, <2>1
  <2> HIDE DEF o
  <2>5. PageSound(next, options, Items, more)
    BY <1>2, <1>3, <1>4, <1>5, <1>11, <2>2, <2>3, <2>4 DEF PageSound, o
  <2> QED
    BY <2>5 DEF next, more
<1>12. ~next.over
  OBVIOUS
<1>13. \/ /\ page.total < o \/ page.full
          /\ next.items = page.items
          /\ next.full = page.full
       \/ /\ ~(page.total < o) /\ ~page.full
          /\ Len(page.items) = options.limit \/ page.items # << >>
          /\ next.items = page.items
          /\ next.full
       \/ /\ ~(page.total < o) /\ ~page.full
          /\ next.items = Append(page.items, item)
          /\ ~next.full
  <2>1. /\ next \in PageShapes(Items)
        /\ next.total = page.total + 1
        /\ \/ /\ page.total < options.offset \/ page.full
              /\ next.items = page.items
              /\ next.bytes = page.bytes
              /\ next.full = page.full
           \/ /\ ~(page.total < options.offset) /\ ~page.full
              /\ Len(page.items) = options.limit \/ page.items # << >>
              /\ next.items = page.items
              /\ next.bytes = page.bytes
              /\ next.full
           \/ next.over /\ next.items = page.items /\ next.bytes = page.bytes
           \/ /\ ~(page.total < options.offset) /\ ~page.full
              /\ Len(page.items) # options.limit
              /\ page.bytes + size <= options.maxResult
              /\ next.items = Append(page.items, item)
              /\ next.bytes = page.bytes + size
              /\ ~next.full
    BY <1>1, AddItemFields
  <2> HIDE DEF next
  <2> QED
    BY <1>12, <2>1, Zenon
<1> HIDE DEF next, o, n, more
<1> QED
  BY <1>9, <1>10, <1>11, <1>13 DEF next, o, n, more

\* The answer is a page of the matches.
LEMMA AnswerIsPage ==
  ASSUME NEW options \in Options, NEW Items, NEW all \in Seq(Items),
         NEW page, PageSound(page, options, Items, all)
  PROVE  PageOf(Answer(page, options), options, all)
<1> DEFINE n == Len(page.items)
           cut == SubSeq(all, options.offset + 1, options.offset + n)
<1>1. /\ page.items \in Seq(Items) /\ n \in Nat
      /\ page.total \in Nat /\ page.total = Len(all)
      /\ options.offset \in Nat /\ options.limit \in Nat \ {0}
      /\ n <= options.limit
      /\ page.full \in BOOLEAN
  BY DEF PageSound, PageWithin, PageShapes, Options
<1>2. page.items = cut
  <2>1. CASE page.items = << >>
    <3>1. n = 0
      BY <2>1
    <3>2. cut = << >>
      BY <1>1, <3>1, SubSeqEmpty
    <3> QED
      BY <2>1, <3>2
  <2>2. CASE page.items # << >>
    <3>1. options.offset + n <= Len(all)
      BY <1>1, <2>2 DEF PageSound
    <3>2. \A i \in options.offset + 1 .. options.offset + n : all[i] \in Items
      BY <1>1, <3>1
    <3>3. /\ cut \in Seq(Items) /\ Len(cut) = n
          /\ \A i \in 1 .. n : cut[i] = all[options.offset + i]
      <4> DEFINE a == options.offset + 1
                 b == options.offset + n
      <4>1. a \in Int /\ b \in Int /\ \A i \in a .. b : all[i] \in Items
        BY <1>1, <3>2
      <4> HIDE DEF a, b
      <4>2. /\ SubSeq(all, a, b) \in Seq(Items)
            /\ Len(SubSeq(all, a, b)) = IF a <= b THEN b - a + 1 ELSE 0
            /\ \A i \in 1 .. b - a + 1 : SubSeq(all, a, b)[i] = all[a + i - 1]
        BY <4>1, SubSeqProperties
      <4>3. cut = SubSeq(all, a, b)
        BY DEF a, b
      <4> HIDE DEF cut
      <4>4. b - a + 1 = n /\ (IF a <= b THEN b - a + 1 ELSE 0) = n
        <5>1. n \in Nat /\ options.offset \in Nat
          BY <1>1
        <5> HIDE DEF n
        <5> QED
          BY <5>1 DEF a, b
      <4>5. \A i \in 1 .. n : a + i - 1 = options.offset + i
        BY <1>1 DEF a
      <4> QED
        BY <4>2, <4>3, <4>4, <4>5
    <3>4. \A i \in 1 .. Len(page.items) : page.items[i] = cut[i]
      BY <3>3 DEF PageSound
    <3> HIDE DEF cut
    <3> QED
      BY <1>1, <3>3, <3>4, SeqEqual
  <2> QED
    BY <2>1, <2>2
<1>3. ASSUME options.offset + n < Len(all) PROVE n > 0
  <2>1. CASE page.full
    BY <1>1, <2>1, EmptySeq DEF PageSound
  <2>2. CASE ~page.full
    BY <1>1, <1>3, <2>2 DEF PageSound
  <2> QED
    BY <2>1, <2>2
<1>4. /\ Answer(page, options).items = page.items
      /\ Answer(page, options).total = page.total
      /\ Answer(page, options).next = IF options.offset + n < page.total
                                      THEN options.offset + n ELSE NoOffset
  BY DEF Answer, NextOffset
<1> QED
  BY <1>1, <1>2, <1>3, <1>4 DEF PageOf

\* The page of a whole list.
LEMMA AddAllSound ==
  ASSUME NEW options \in Options, NEW Items, NEW all \in Seq(Items),
         NEW Absent, ~AddAll(EmptyPage, options, all, Absent).over
  PROVE  PageSound(AddAll(EmptyPage, options, all, Absent), options, Items, all)
<1> DEFINE N == Len(all)
           W == {p \in PageShapes(Items) : PageWithin(p, options, Items)}
           Added(p, i) == IF p.over THEN p
                          ELSE AddItem(p, options, all[i], ItemSize(all[i], Absent))
           F == [i \in 1 .. N |-> [p \in W |-> Added(p, i)]]
           Is(g) == g = [i \in 0 .. N |-> IF i = 0 THEN EmptyPage
                          ELSE IF g[i - 1].over THEN g[i - 1]
                          ELSE AddItem(g[i - 1], options, all[i], ItemSize(all[i], Absent))]
           f == CHOOSE g : Is(g)
<1>1. N \in Nat /\ EmptyPage \in W
  BY EmptyPageSound DEF PageSound, PageWithin
<1>2. \A i \in 1 .. N : all[i] \in Items /\ ItemSize(all[i], Absent) \in Nat
  BY DEF ItemSize, Carried
<1>3. \A i \in 1 .. N : \A p \in W : Added(p, i) \in W
  <2> SUFFICES ASSUME NEW i \in 1 .. N, NEW p \in W
               PROVE  PageWithin(AddItem(p, options, all[i], ItemSize(all[i], Absent)),
                                 options, Items)
    BY DEF PageWithin
  <2> QED
    BY <1>2, AddItemWithin
<1> HIDE DEF Added
<1>4. \A i \in 1 .. N : \A p \in W : F[i][p] \in W /\ F[i][p] = Added(p, i)
  BY <1>3
<1>5. StepsWithin(F, W, N)
  BY <1>4 DEF StepsWithin
<1>6. PICK g : IsRun(g, F, W, EmptyPage, N)
  <2> HIDE DEF N, F, W
  <2> QED
    BY <1>1, <1>5, RunExists
<1>7. \A i \in 1 .. N : g[i] = Added(g[i - 1], i)
  <2> HIDE DEF F, W
  <2> QED
    BY <1>1, <1>4, <1>6 DEF IsRun
<1>8. Is(g)
  <2>1. g = [i \in 0 .. N |-> g[i]] /\ g[0] = EmptyPage
    BY <1>6 DEF IsRun
  <2>2. ASSUME NEW i \in 0 .. N
        PROVE  g[i] = IF i = 0 THEN EmptyPage
                      ELSE IF g[i - 1].over THEN g[i - 1]
                      ELSE AddItem(g[i - 1], options, all[i], ItemSize(all[i], Absent))
    <3>1. CASE i = 0
      BY <2>1, <3>1
    <3>2. CASE i \in 1 .. N
      BY <1>7, <3>2 DEF Added
    <3> QED
      BY <1>1, <3>1, <3>2
  <2> HIDE DEF N
  <2> QED
    BY <2>1, <2>2
<1>9. Is(f)
  <2> HIDE DEF Is
  <2> QED
    BY <1>8, Zenon
<1>10. AddAll(EmptyPage, options, all, Absent) = f[N]
  BY DEF AddAll
<1> HIDE DEF f
<1>11. f[0] = EmptyPage
  BY <1>1, <1>9
<1>12. ASSUME NEW i \in 1 .. N PROVE f[i] = Added(f[i - 1], i)
  <2> HIDE DEF N
  <2>1. i \in 0 .. N /\ i # 0
    BY <1>1
  <2> QED
    BY <1>9, <2>1 DEF Added
<1> DEFINE T == {i \in Nat : i <= N => f[i].over
                               \/ PageSound(f[i], options, Items, SubSeq(all, 1, i))}
<1>13. 0 \in T
  <2>1. SubSeq(all, 1, 0) = << >>
    BY SubSeqEmpty
  <2> QED
    BY <1>11, <2>1, EmptyPageSound
<1>14. ASSUME NEW i \in Nat, i \in T PROVE i + 1 \in T
  <2>1. SUFFICES ASSUME i + 1 <= N, ~f[i + 1].over
                 PROVE  PageSound(f[i + 1], options, Items, SubSeq(all, 1, i + 1))
    OBVIOUS
  <2>2. i + 1 \in 1 .. N /\ i + 1 - 1 = i
    BY <1>1, <2>1
  <2>3. ~f[i].over /\ f[i + 1] = AddItem(f[i], options, all[i + 1], ItemSize(all[i + 1], Absent))
    BY <1>12, <2>1, <2>2 DEF Added
  <2>4. PageSound(f[i], options, Items, SubSeq(all, 1, i))
    BY <1>1, <1>14, <2>1, <2>3
  <2>5. /\ SubSeq(all, 1, i) \in Seq(Items)
        /\ SubSeq(all, 1, i + 1) = Append(SubSeq(all, 1, i), all[i + 1])
    BY <1>1, <2>1
  <2> QED
    BY <1>2, <2>1, <2>2, <2>3, <2>4, <2>5, AddItemSound
<1> HIDE DEF T
<1>15. N \in T
  BY <1>1, <1>13, <1>14, Induction
<1>16. SubSeq(all, 1, N) = all
  BY SubSeqFull
<1>17. ~f[N].over
  BY <1>10
<1>18. PageSound(f[N], options, Items, SubSeq(all, 1, N))
  <2> HIDE DEF N
  <2> QED
    BY <1>1, <1>15, <1>17 DEF T
<1> QED
  BY <1>10, <1>16, <1>18

--------------------------------------------------------------------------
(* The shapes of the query's state.                                        *)

\* Where rows come from, and what is recorded of it.
RowOrigins ==
  {FromBaseline(k) : k \in Keys} \union {FromInsert(c, i) : c \in Nat \ {0}, i \in Nat}
Origins == RowOrigins \union {Untouched}
States == [position : Nat, rows : Sized]
Entries ==
  [commit : Nat, event : Nat, before : Image \union {NoRow}, after : Image \union {NoRow}]
Changes == [key : Keys, before : Values \union {NoRow}, after : Values \union {NoRow}]

Replays == ask.op \in {"scan", "lineage"}

AskShape ==
  /\ ask \in Requests /\ history \in Histories
  /\ signal \in BOOLEAN /\ expired \in BOOLEAN

\* What has been spent stays within what was asked.
WorkShape ==
  /\ work \in [transactions : Nat, events : Nat, input : Nat]
  /\ Replays => /\ work.input <= ask.maxInput
                /\ work.transactions <= ask.maxTransactions
                /\ work.events <= ask.maxEvents

ReplayShape ==
  /\ range \in [from : Nat, to : Nat]
  /\ replay \in [next : 1 .. Len(Commits) + 1, state : States \union {NoRow},
                 previous : States \union {NoRow}, commit : 0 .. Len(Commits),
                 reached : BOOLEAN]

ScanShape ==
  /\ scan \in [evaluated : Nat, last : Nat \union {NoRow}]
  /\ ask.op = "scan" => scan.evaluated <= ask.maxStates

Lineages ==
  {l \in [pass : {1, 2}, origins : [Keys -> Origins], anchor : Nat, origin : Origins,
          live : Keys \union {NoRow}, born : BOOLEAN, anchored : BOOLEAN,
          page : PageShapes(Entries)] :
     /\ l.pass = 2 => l.origin \in RowOrigins
     /\ PageWithin(l.page, ask.page, Entries)}

LineageShape == lineage \in Lineages

MergeShape ==
  /\ merge \in [left : Nat \ {0}, right : Nat \ {0}, page : PageShapes(Changes),
                counts : [inserted : Nat, deleted : Nat, updated : Nat, unchanged : Nat]]
  /\ PageWithin(merge.page, ask.page, Changes)

\* Where each operation can be, and what is answered when.
ControlShape ==
  /\ pc \in {"resolve", "baseline", "read", "consume", "report", "finish", "merge", "done"}
  /\ pc \in {"baseline", "read", "consume", "report", "finish"} => Replays
  /\ pc = "report" => ask.op = "scan"
  /\ pc = "merge" => ~Replays
  /\ pc # "done" => outcome = [kind |-> "none"]
  /\ outcome.kind = "rejected" => outcome.code \in Codes

\* A state is there wherever the replay uses it.
StateShape ==
  /\ pc \in {"resolve", "baseline"} => replay = NotReplaying
  /\ pc \in {"read", "consume", "report", "finish"} => replay.state # NoRow

Shape ==
  /\ AskShape /\ WorkShape /\ ReplayShape /\ ScanShape /\ LineageShape /\ MergeShape
  /\ ControlShape /\ StateShape

\* The shapes are the type invariant the runs check.
LEMMA ShapeIsTypeOK == ASSUME Shape PROVE TypeOK
<1> USE DEF Shape
<1>1. /\ signal \in BOOLEAN /\ expired \in BOOLEAN
      /\ pc \in {"resolve", "baseline", "read", "consume", "report", "finish", "merge", "done"}
      /\ outcome.kind = "rejected" => outcome.code \in Codes
  BY DEF AskShape, ControlShape
<1>2. ask.op \in {"scan", "lineage"} =>
        /\ work.input <= ask.maxInput
        /\ work.transactions <= ask.maxTransactions
        /\ work.events <= ask.maxEvents
        /\ replay.next \in 1 .. Len(history.transactions) + 1
  BY DEF WorkShape, Replays, ReplayShape, Commits
<1>3. ask.op = "scan" => scan.evaluated <= ask.maxStates
  BY DEF ScanShape
<1>4. replay.state # NoRow =>
        /\ replay.state.rows \in Table
        /\ Cardinality(Present(replay.state.rows)) <= MaxRows
  BY DEF ReplayShape, States, Sized
<1>5. \A p \in {lineage.page, merge.page} :
        Len(p.items) <= ask.page.limit /\ p.bytes <= ask.page.maxResult
  BY DEF LineageShape, Lineages, MergeShape, PageWithin
<1> QED
  BY <1>1, <1>2, <1>3, <1>4, <1>5 DEF TypeOK

\* Nothing follows an answer.
LEMMA NothingAfter == ASSUME pc = "done" PROVE ~Next
BY DEF Next, Answering, CallerStep, ReplayStep, ScanStep, LineageStep, ComparisonStep,
       Resolve, LoadBaseline, ReadTransaction, StalledPage, EndOfHistory, Cancel, Expire,
       EvaluationHalted, EvaluationRefused, QueryFails, Evaluate, MayEvaluate, Report, Clear,
       LineageHalted, OriginRefused, TraceOrigin, FollowRow, LineageEnds, MayFollow, Following,
       StartComparison, MergeRow, MergeEnds, Merging, ListRow, ListEnds, Listing

\* The question and the history stay what they are.
LEMMA Fixed == ASSUME Next PROVE ask' = ask /\ history' = history
BY DEF Next, Answering, CallerStep, ReplayStep, ScanStep, LineageStep, ComparisonStep,
       Resolve, LoadBaseline, ReadTransaction, StalledPage, EndOfHistory, Cancel, Expire,
       EvaluationHalted, EvaluationRefused, QueryFails, Evaluate, MayEvaluate, Report, Clear,
       LineageHalted, OriginRefused, TraceOrigin, FollowRow, LineageEnds, MayFollow, Following,
       StartComparison, MergeRow, MergeEnds, Merging, ListRow, ListEnds, Listing

\* A query that gives up is done, with a code of its own or an incomplete scan.
LEMMA GivenUp ==
  ASSUME NEW code \in Codes, Give(code) \/ Reject(code)
  PROVE  /\ pc' = "done"
         /\ outcome'.kind \in {"rejected", "incomplete"}
         /\ outcome'.kind = "rejected" => outcome'.code = code /\ outcome'.code \in Codes
BY DEF Give, Reject, Interrupted, Codes

\* A query that is done is where it may be.
LEMMA DoneShape ==
  ASSUME pc' = "done", outcome'.kind = "rejected" => outcome'.code \in Codes
  PROVE  ControlShape' /\ StateShape'
BY DEF ControlShape, StateShape

\* A query starts in shape.
LEMMA InitShape == ASSUME Init PROVE Shape
<1> USE DEF Init, ReplayInit
<1>1. AskShape
  BY QuestionsAssumption DEF AskShape
<1>2. /\ ask.maxInput \in Nat /\ ask.maxTransactions \in Nat /\ ask.maxEvents \in Nat
      /\ ask.maxStates \in Nat /\ ask.page \in Options
  BY <1>1 DEF AskShape, Requests, Options
<1>3. WorkShape
  BY <1>2 DEF WorkShape, NoWork
<1>4. Len(Commits) \in Nat
  BY <1>1, HistoryTypes DEF AskShape
<1>5. ReplayShape
  BY <1>4 DEF ReplayShape, NotReplaying
<1>6. ScanShape
  BY <1>2 DEF ScanShape, NotScanned
<1>7. PageWithin(EmptyPage, ask.page, Entries) /\ PageWithin(EmptyPage, ask.page, Changes)
  BY <1>2, EmptyPageSound DEF PageSound
<1>8. LineageShape
  <2>1. EmptyPage \in PageShapes(Entries)
    BY <1>7 DEF PageWithin
  <2>2. Untouched \in Origins
    BY DEF Origins
  <2>3. lineage = NoLineage
    OBVIOUS
  <2>4. NoLineage \in Lineages
    <3> HIDE DEF Init
    <3>1. [k \in Keys |-> Untouched] \in [Keys -> Origins]
      BY <2>2
    <3> DEFINE none == [k \in Keys |-> Untouched]
    <3> HIDE DEF none
    <3>2. NoLineage = [pass |-> 1, origins |-> none, anchor |-> 0,
                       origin |-> Untouched, live |-> NoRow, born |-> FALSE, anchored |-> FALSE,
                       page |-> EmptyPage]
      BY DEF NoLineage, none
    <3> QED
      BY <1>7, <2>1, <2>2, <3>1, <3>2 DEF Lineages, none
  <2> QED
    BY <2>3, <2>4 DEF LineageShape
<1>9. MergeShape
  <2>1. EmptyPage \in PageShapes(Changes)
    BY <1>7 DEF PageWithin
  <2> QED
    BY <1>7, <2>1 DEF MergeShape, NotMerging, NoCounts
<1>10. ControlShape /\ StateShape
  BY DEF ControlShape, StateShape
<1> QED
  BY <1>1, <1>3, <1>5, <1>6, <1>8, <1>9, <1>10 DEF Shape

\* The ends of a range are positions.
LEMMA SelectedType ==
  ASSUME AskShape, NEW selection \in Selections, Covered(selection)
  PROVE  SelectedPosition(selection) \in Nat
<1>1. history \in Histories
  BY DEF AskShape
<1>2. CASE selection.kind = "baseline"
  BY <1>1, <1>2, HistoryTypes DEF SelectedPosition
<1>3. CASE selection.kind # "baseline"
  <2>1. HasCommit(selection.position)
    BY <1>3 DEF Covered
  <2>2. PICK i \in 1 .. Len(Commits) : Commits[i].position = selection.position
    BY <1>1, <2>1, HistoryTypes DEF HasCommit, Commits
  <2>3. Commit(selection.position) \in {history.transactions[j] : j \in DOMAIN history.transactions}
    BY <1>1, <2>2, HistoryTypes DEF Commit, Commits
  <2>4. Commit(selection.position).previous \in Nat
    BY <1>1, <2>3, HistoryTypes DEF Commits
  <2> QED
    BY <1>3, <2>4 DEF SelectedPosition, Selections
<1> QED
  BY <1>2, <1>3

\* The budgets a question gives.
LEMMA Budgets ==
  ASSUME AskShape
  PROVE  /\ ask.maxInput \in Nat /\ ask.maxTransactions \in Nat /\ ask.maxEvents \in Nat
         /\ ask.maxStates \in Nat /\ ask.page \in Options /\ ask.key \in Keys
         /\ ask.op \in {"scan", "lineage", "compare", "rows"}
         /\ ask.from \in Selections /\ ask.to \in Selections
         /\ ask.left \in HandedViews /\ ask.right \in HandedViews
BY DEF AskShape, Requests, Options

\* What is left covers what is added.
LEMMA WithinBudget ==
  ASSUME NEW spent \in Nat, NEW cost \in Nat, NEW budget \in Nat, cost <= budget - spent
  PROVE  spent + cost \in Nat /\ spent + cost <= budget
OBVIOUS

\* What fits is spent within the budget.
LEMMA SpendShape ==
  ASSUME AskShape, WorkShape, NEW cost \in Nat, Fits(cost), work' = Spend(work, cost), ask' = ask
  PROVE  WorkShape'
<1>1. work.input + cost \in Nat /\ work.input + cost <= ask.maxInput
  BY Budgets DEF WorkShape, Fits
<1> QED
  BY <1>1 DEF WorkShape, Spend, Replays

\* A resolved range is one of positions.
LEMMA ResolveShape ==
  ASSUME Shape, Resolve PROVE AskShape' /\ ReplayShape' /\ ControlShape' /\ StateShape'
<1> USE DEF Shape
<1>1. AskShape'
  BY DEF AskShape, Resolve
<1>2. CASE UNCHANGED range /\ \E code \in Codes : Reject(code)
  <2>1. ReplayShape'
    BY <1>2 DEF ReplayShape, Resolve, Commits
  <2> QED
    BY <1>1, <1>2, <2>1, GivenUp, DoneShape
<1>3. CASE /\ Covered(ask.from) /\ Covered(ask.to)
           /\ range' = [from |-> SelectedPosition(ask.from), to |-> SelectedPosition(ask.to)]
           /\ IF range'.from <= range'.to
              THEN pc' = "baseline" /\ UNCHANGED outcome
              ELSE Reject("INVALID_VALUE")
  <2>1. range' \in [from : Nat, to : Nat]
    BY <1>3, SelectedType, Budgets
  <2>2. ReplayShape'
    BY <2>1 DEF ReplayShape, Resolve, Commits
  <2>3. CASE Reject("INVALID_VALUE")
    <3>1. "INVALID_VALUE" \in Codes
      BY DEF Codes
    <3> QED
      BY <1>1, <2>2, <2>3, <3>1, GivenUp, DoneShape
  <2>4. CASE pc' = "baseline" /\ UNCHANGED outcome
    <3>1. ControlShape'
      BY <2>4 DEF ControlShape, Resolve, Replays
    <3>2. StateShape'
      BY <2>4 DEF StateShape, Resolve
    <3> QED
      BY <1>1, <2>2, <3>1, <3>2
  <2> QED
    BY <1>3, <2>3, <2>4
<1> QED
  BY <1>2, <1>3 DEF Resolve, Codes

\* A state that is delivered is a state.
LEMMA DeliverShape ==
  ASSUME Shape, Replays, NEW state \in States, NEW previous \in States \union {NoRow},
         NEW commit \in 0 .. Len(Commits), Deliver(state, previous, commit),
         commit # 0 => replay.next <= Len(Commits),
         ask' = ask, history' = history, range' = range, pc # "done"
  PROVE  ReplayShape' /\ ControlShape' /\ StateShape'
<1> USE DEF Shape
<1>1. Len(Commits) \in Nat /\ state # NoRow
  BY HistoryTypes, NothingAssumption DEF AskShape, States, Sized
<1>2. (replay.next + IF commit = 0 THEN 0 ELSE 1) \in 1 .. Len(Commits) + 1
  BY <1>1 DEF ReplayShape
<1>3. (state.position = range.to) \in BOOLEAN
  OBVIOUS
<1>4. replay' = [replay EXCEPT !.state = state, !.previous = previous, !.commit = commit,
                               !.reached = state.position = range.to,
                               !.next = @ + IF commit = 0 THEN 0 ELSE 1]
  BY DEF Deliver
<1>5. replay' \in [next : 1 .. Len(Commits) + 1, state : States \union {NoRow},
                 previous : States \union {NoRow}, commit : 0 .. Len(Commits),
                 reached : BOOLEAN] /\ replay'.state = state
  BY <1>2, <1>3, <1>4 DEF ReplayShape
<1>6. ReplayShape'
  BY <1>5 DEF ReplayShape, Commits
<1>7. ControlShape'
  BY DEF ControlShape, Deliver, Beyond, Replays
<1>8. StateShape'
  BY <1>1, <1>5 DEF StateShape, Deliver, Beyond
<1> QED
  BY <1>6, <1>7, <1>8

\* The baseline that is loaded is within the limits.
LEMMA LoadBaselineShape ==
  ASSUME Shape, LoadBaseline
  PROVE  AskShape' /\ WorkShape' /\ ReplayShape' /\ ControlShape' /\ StateShape'
<1> USE DEF Shape
<1> DEFINE count == Cardinality(Present(history.rows))
<1>1. AskShape'
  BY DEF AskShape, LoadBaseline
<1>2. history.rows \in Table /\ history.baseline \in Nat /\ count \in Nat
  BY HistoryTypes, PresentFinite DEF AskShape
<1>3. ReplayShape /\ WorkShape /\ ask' = ask /\ history' = history /\ range' = range /\ Replays
      /\ pc = "baseline"
  BY DEF LoadBaseline, ControlShape
<1> HIDE DEF count
<1>4. CASE UNCHANGED <<replay, work>> /\ \E code \in Codes : Give(code)
  <2>1. ReplayShape' /\ WorkShape'
    BY <1>3, <1>4 DEF ReplayShape, WorkShape, Commits, Replays
  <2> QED
    BY <1>1, <1>4, <2>1, GivenUp, DoneShape
<1>5. CASE /\ Fits(count) /\ count <= MaxRows /\ work' = Spend(work, count)
           /\ Give("INVALID_HISTORY") /\ UNCHANGED replay
  <2>1. ReplayShape'
    BY <1>3, <1>5 DEF ReplayShape, Commits
  <2>2. "INVALID_HISTORY" \in Codes
    BY DEF Codes
  <2>3. WorkShape'
    BY <1>2, <1>3, <1>5, SpendShape
  <2> QED
    BY <1>1, <1>5, <2>1, <2>2, <2>3, GivenUp, DoneShape
<1>6. CASE /\ Fits(count) /\ count <= MaxRows /\ work' = Spend(work, count)
           /\ Deliver([position |-> history.baseline, rows |-> history.rows], NoRow, 0)
  <2>1. [position |-> history.baseline, rows |-> history.rows] \in States
    BY <1>2, <1>6 DEF States, Sized, count
  <2>2. WorkShape'
    BY <1>2, <1>3, <1>6, SpendShape
  <2>3. 0 \in 0 .. Len(Commits)
    BY HistoryTypes DEF AskShape
  <2> QED
    BY <1>1, <1>3, <1>6, <2>1, <2>2, <2>3, DeliverShape
<1>7. \/ UNCHANGED <<replay, work>> /\ \E code \in Codes : Give(code)
      \/ /\ Fits(count) /\ count <= MaxRows /\ work' = Spend(work, count)
         /\ Give("INVALID_HISTORY") /\ UNCHANGED replay
      \/ /\ Fits(count) /\ count <= MaxRows /\ work' = Spend(work, count)
         /\ Deliver([position |-> history.baseline, rows |-> history.rows], NoRow, 0)
  BY DEF LoadBaseline, Codes, HaltCode, count
<1> QED
  BY <1>4, <1>5, <1>6, <1>7

\* A transaction is read within the budgets.
LEMMA ReadTransactionShape ==
  ASSUME Shape, ReadTransaction
  PROVE  AskShape' /\ WorkShape' /\ ReplayShape' /\ ControlShape' /\ StateShape'
<1> USE DEF Shape
<1> DEFINE t == history.transactions[replay.next]
           rows == ApplyEvents(replay.state.rows, t.events)
<1>1. AskShape'
  BY DEF AskShape, ReadTransaction
<1>2. /\ ReplayShape /\ WorkShape /\ ask' = ask /\ history' = history /\ range' = range
      /\ Replays /\ pc = "read" /\ replay.next <= Len(Commits)
  BY DEF ReadTransaction, ControlShape, Commits
<1>3. /\ Len(Commits) \in Nat /\ replay.next \in 1 .. Len(Commits)
      /\ t.events \in Seq(Event) /\ t.position \in Nat /\ Len(t.events) \in Nat
  BY <1>2, HistoryTypes DEF AskShape, ReplayShape, Commits
<1>4. replay.state \in States /\ replay.state.rows \in Sized
  BY <1>2 DEF StateShape, ReplayShape, States
<1>5. rows \in Bounded
  BY <1>3, <1>4, ApplyEventsBounded
<1>6. CASE UNCHANGED <<replay, work>> /\ \E code \in Codes : Give(code)
  <2>1. ReplayShape' /\ WorkShape'
    BY <1>2, <1>6 DEF ReplayShape, WorkShape, Commits, Replays
  <2> QED
    BY <1>1, <1>6, <2>1, GivenUp, DoneShape
<1>7. CASE /\ Affordable(t) /\ rows \notin {Broken, TooLarge}
           /\ Deliver([position |-> t.position, rows |-> rows], replay.state, replay.next)
           /\ work' = Charged(t)
  <2>1. [position |-> t.position, rows |-> rows] \in States
    BY <1>3, <1>5, <1>7 DEF States, Bounded
  <2>2. WorkShape'
    <3> HIDE DEF t, rows
    <3>1. /\ work.transactions + 1 \in Nat /\ work.transactions + 1 <= ask.maxTransactions
          /\ work.events + Len(t.events) \in Nat
          /\ work.events + Len(t.events) <= ask.maxEvents
          /\ work.input + 1 + Len(t.events) \in Nat
          /\ work.input + 1 + Len(t.events) <= ask.maxInput
      <4>1. /\ work.transactions \in Nat /\ work.events \in Nat /\ work.input \in Nat
            /\ ask.maxInput \in Nat /\ ask.maxTransactions \in Nat /\ ask.maxEvents \in Nat
        BY <1>2, Budgets DEF WorkShape
      <4>2. /\ work.transactions < ask.maxTransactions
            /\ Len(t.events) <= ask.maxEvents - work.events
            /\ 1 + Len(t.events) <= ask.maxInput - work.input
        BY <1>7 DEF Affordable, Fits
      <4>3. Len(t.events) \in Nat /\ 1 + Len(t.events) \in Nat
        BY <1>3
      <4>4. work.events + Len(t.events) \in Nat /\ work.events + Len(t.events) <= ask.maxEvents
        BY <4>1, <4>2, <4>3, WithinBudget
      <4>5. /\ work.input + (1 + Len(t.events)) \in Nat
            /\ work.input + (1 + Len(t.events)) <= ask.maxInput
        BY <4>1, <4>2, <4>3, WithinBudget
      <4>6. work.input + 1 + Len(t.events) = work.input + (1 + Len(t.events))
        BY <4>1, <4>3
      <4>7. work.transactions + 1 \in Nat /\ work.transactions + 1 <= ask.maxTransactions
        BY <4>1, <4>2
      <4> QED
        BY <4>4, <4>5, <4>6, <4>7
    <3> QED
      BY <1>2, <1>7, <3>1 DEF WorkShape, Charged, Replays
  <2> HIDE DEF t, rows
  <2> QED
    BY <1>1, <1>2, <1>3, <1>4, <1>7, <2>1, <2>2, DeliverShape
<1>8. \/ UNCHANGED <<replay, work>> /\ \E code \in Codes : Give(code)
      \/ /\ Affordable(t) /\ rows \notin {Broken, TooLarge}
         /\ Deliver([position |-> t.position, rows |-> rows], replay.state, replay.next)
         /\ work' = Charged(t)
  BY DEF ReadTransaction, Codes, HaltCode
<1> HIDE DEF t, rows
<1> QED
  BY <1>6, <1>7, <1>8

\* The pages end.
LEMMA EndShape ==
  ASSUME Shape, StalledPage \/ EndOfHistory
  PROVE  AskShape' /\ WorkShape' /\ ReplayShape' /\ ControlShape' /\ StateShape'
<1> USE DEF Shape
<1>1. AskShape' /\ WorkShape' /\ ReplayShape'
  BY DEF AskShape, WorkShape, ReplayShape, StalledPage, EndOfHistory, Commits, Replays
<1>2. CASE \E code \in Codes : Give(code)
  BY <1>1, <1>2, GivenUp, DoneShape
<1>3. CASE pc' = "finish" /\ UNCHANGED <<ask, replay, outcome>> /\ pc = "read"
  BY <1>1, <1>3 DEF ControlShape, StateShape, Replays
<1>4. \/ \E code \in Codes : Give(code)
      \/ pc' = "finish" /\ UNCHANGED <<ask, replay, outcome>> /\ pc = "read"
  BY DEF StalledPage, RefuseStalledPage, EndOfHistory, Codes, HaltCode
<1> QED
  BY <1>2, <1>3, <1>4

\* What a state costs is a number.
LEMMA StateCostType ==
  ASSUME NEW state \in States PROVE StateCost(state) \in Nat
BY PresentFinite DEF StateCost, States, Sized

\* A scan's steps.
LEMMA ScanStepShape ==
  ASSUME Shape, ScanStep, UNCHANGED <<lineage, merge>>
  PROVE  Shape'
<1> USE DEF Shape
<1>1. /\ ask' = ask /\ history' = history /\ signal' = signal /\ expired' = expired
      /\ range' = range /\ replay' = replay /\ ask.op = "scan" /\ Replays
  BY DEF ScanStep, EvaluationHalted, EvaluationRefused, QueryFails, Evaluate, MayEvaluate,
         Report, Clear, ControlShape, Replays
<1>2. AskShape' /\ ReplayShape' /\ LineageShape' /\ MergeShape'
  BY <1>1 DEF AskShape, ReplayShape, LineageShape, Lineages, MergeShape, Commits
<1>3. ASSUME UNCHANGED scan PROVE ScanShape'
  BY <1>1, <1>3 DEF ScanShape
<1>4. ASSUME UNCHANGED work PROVE WorkShape'
  BY <1>1, <1>4 DEF WorkShape, Replays
<1>5. ASSUME NEW code \in Codes, Give(code) PROVE ControlShape' /\ StateShape'
  BY <1>5, GivenUp, DoneShape
<1>6. CASE EvaluationHalted \/ EvaluationRefused \/ Clear
  <2>1. UNCHANGED scan /\ UNCHANGED work
    BY <1>6 DEF EvaluationHalted, EvaluationRefused, Clear
  <2>2. \/ \E code \in Codes : Give(code)
        \/ pc' = "done" /\ outcome' = [kind |-> "clear"]
    BY <1>6 DEF EvaluationHalted, EvaluationRefused, Clear, Codes, HaltCode
  <2>3. CASE pc' = "done" /\ outcome' = [kind |-> "clear"]
    <3>1. ControlShape' /\ StateShape'
      BY <2>3, DoneShape
    <3> QED
      BY <1>2, <1>3, <1>4, <2>1, <3>1
  <2>4. ASSUME NEW code \in Codes, Give(code) PROVE Shape'
    <3>1. ControlShape' /\ StateShape'
      BY <1>5, <2>4
    <3> QED
      BY <1>2, <1>3, <1>4, <2>1, <3>1
  <2> QED
    BY <2>2, <2>3, <2>4
<1>7. ASSUME MayEvaluate, work' = Spend(work, StateCost(replay.state)) PROVE WorkShape'
  <2>1. replay.state \in States
    BY <1>7 DEF MayEvaluate, StateShape, ReplayShape
  <2>2. StateCost(replay.state) \in Nat
    BY <2>1, StateCostType
  <2> QED
    BY <1>1, <1>7, <2>2, SpendShape DEF MayEvaluate
<1>8. CASE QueryFails
  <2>1. UNCHANGED scan /\ WorkShape'
    BY <1>7, <1>8 DEF QueryFails
  <2>2. \E code \in Codes : Give(code)
    BY <1>8 DEF QueryFails, Codes
  <2> QED
    BY <1>2, <1>3, <1>5, <2>1, <2>2
<1>9. CASE Evaluate
  <2>1. WorkShape'
    BY <1>7, <1>9 DEF Evaluate
  <2>2. replay.state \in States
    BY <1>9 DEF Evaluate, MayEvaluate, StateShape, ReplayShape
  <2>3. ScanShape'
    <3>1. /\ scan.evaluated \in Nat /\ scan.evaluated < ask.maxStates /\ ask.maxStates \in Nat
          /\ replay.state.position \in Nat
      BY <1>9, <2>2, Budgets DEF Evaluate, MayEvaluate, ScanShape, States
    <3> QED
      BY <1>1, <1>9, <3>1 DEF ScanShape, Evaluate
  <2>4. ControlShape' /\ StateShape'
    BY <1>1, <1>9 DEF Evaluate, MayEvaluate, ControlShape, StateShape, Beyond, Replays
  <2> QED
    BY <1>2, <2>1, <2>3, <2>4
<1>10. CASE Report
  <2>1. UNCHANGED scan
    BY <1>10 DEF Report
  <2>2. CASE Give(HaltCode) /\ UNCHANGED work
    <3>1. HaltCode \in Codes
      BY DEF HaltCode, Codes
    <3> QED
      BY <1>2, <1>3, <1>4, <1>5, <2>1, <2>2, <3>1
  <2>3. CASE Give("LIMIT_EXCEEDED") /\ UNCHANGED work
    <3>1. "LIMIT_EXCEEDED" \in Codes
      BY DEF Codes
    <3> QED
      BY <1>2, <1>3, <1>4, <1>5, <2>1, <2>3, <3>1
  <2>4. CASE /\ Fits(DiffCost) /\ work' = Spend(work, DiffCost)
             /\ pc' = "done" /\ outcome' = Finding
    <3>1. replay.state \in States /\ replay.previous \in States \union {NoRow}
      BY <1>10 DEF Report, StateShape, ReplayShape
    <3>2. DiffCost \in Nat
      BY <3>1, StateCostType DEF DiffCost, HasPredecessor
    <3>3. WorkShape'
      BY <1>1, <2>4, <3>2, SpendShape
    <3>4. outcome'.kind = "violation"
      BY <2>4 DEF Finding
    <3>5. ControlShape' /\ StateShape'
      BY <2>4, <3>4, DoneShape
    <3> QED
      BY <1>2, <1>3, <2>1, <3>3, <3>5
  <2> QED
    BY <1>10, <2>2, <2>3, <2>4 DEF Report
<1> QED
  BY <1>6, <1>8, <1>9, <1>10 DEF ScanStep

--------------------------------------------------------------------------
(* The shapes of a row history.                                            *)

\* What a row history keeps.
LEMMA LineageTypes ==
  ASSUME LineageShape
  PROVE  /\ lineage.origins \in [Keys -> Origins] /\ lineage.origin \in Origins
         /\ lineage.live \in Keys \union {NoRow} /\ PageWithin(lineage.page, ask.page, Entries)
         /\ lineage.born \in BOOLEAN /\ lineage.anchored \in BOOLEAN
BY DEF LineageShape, Lineages

\* What is known of the rows' origins after an event.
OriginsWith(origins, commit, i, e) ==
  LET left == Forget(origins, e.before) IN
  IF e.after = NoRow THEN left
  ELSE [left EXCEPT ![e.after.key] = EventOrigin(origins, commit, i, e)]

\* The origin of a row that is there.
LEMMA OriginAtType ==
  ASSUME NEW origins \in [Keys -> Origins], NEW k \in Keys
  PROVE  OriginAt(origins, k) \in RowOrigins
BY DEF OriginAt, RowOrigins, Origins

\* Origins stay origins.
LEMMA OriginsWithType ==
  ASSUME NEW origins \in [Keys -> Origins], NEW commit \in Nat \ {0}, NEW i \in Nat,
         NEW e \in Event
  PROVE  OriginsWith(origins, commit, i, e) \in [Keys -> Origins]
<1>1. Untouched \in Origins /\ FromInsert(commit, i) \in Origins
  BY DEF RowOrigins, Origins
<1>3. ASSUME NEW k \in Keys PROVE OriginAt(origins, k) \in Origins
  BY OriginAtType DEF Origins
<1>4. e.before # NoRow => e.before.key \in Keys
  BY DEF Event, Image
<1>5. Forget(origins, e.before) \in [Keys -> Origins]
  BY <1>1 DEF Forget
<1>6. EventOrigin(origins, commit, i, e) \in Origins
  BY <1>1, <1>3, <1>4 DEF EventOrigin
<1> QED
  BY <1>5, <1>6 DEF OriginsWith

\* What is known after the first i events of a transaction.
OriginsIn(origins, commit, events, i) ==
  LET after[j \in 0 .. Len(events)] ==
        IF j = 0 THEN origins
        ELSE LET e    == events[j]
                 left == Forget(after[j - 1], e.before)
             IN IF e.after = NoRow THEN left
                ELSE [left EXCEPT ![e.after.key] = EventOrigin(after[j - 1], commit, j, e)]
  IN after[i]

\* The origins after each event, one from the other.
LEMMA OriginsInSteps ==
  ASSUME NEW origins \in [Keys -> Origins], NEW commit \in Nat, NEW events \in Seq(Event),
         commit # 0 \/ events = << >>
  PROVE  /\ OriginsIn(origins, commit, events, 0) = origins
         /\ \A i \in 1 .. Len(events) :
              OriginsIn(origins, commit, events, i) =
                OriginsWith(OriginsIn(origins, commit, events, i - 1), commit, i, events[i])
         /\ \A i \in 0 .. Len(events) : OriginsIn(origins, commit, events, i) \in [Keys -> Origins]
<1> DEFINE N == Len(events)
           V == [Keys -> Origins]
           F == [i \in 1 .. N |-> [v \in V |-> OriginsWith(v, commit, i, events[i])]]
           Is(g) == g = [j \in 0 .. N |->
                          IF j = 0 THEN origins
                          ELSE LET e    == events[j]
                                   left == Forget(g[j - 1], e.before)
                               IN IF e.after = NoRow THEN left
                                  ELSE [left EXCEPT ![e.after.key] =
                                          EventOrigin(g[j - 1], commit, j, e)]]
           f == CHOOSE g : Is(g)
<1>1. N \in Nat /\ origins \in V
  OBVIOUS
<1>2. ASSUME NEW i \in 1 .. N, NEW v \in V PROVE OriginsWith(v, commit, i, events[i]) \in V
  <2>1. i \in Nat /\ events[i] \in Event /\ commit \in Nat \ {0}
    OBVIOUS
  <2> QED
    BY <2>1, OriginsWithType
<1>3. \A i \in 1 .. N : \A v \in V : F[i][v] \in V /\ F[i][v] = OriginsWith(v, commit, i, events[i])
  <2> HIDE DEF N, V
  <2> QED
    BY <1>2
<1>4. StepsWithin(F, V, N)
  BY <1>3 DEF StepsWithin
<1>5. PICK g : IsRun(g, F, V, origins, N)
  <2> HIDE DEF N, F, V
  <2> QED
    BY <1>1, <1>4, RunExists
<1>6. \A i \in 1 .. N : g[i] = OriginsWith(g[i - 1], commit, i, events[i])
  <2> HIDE DEF F, V, N
  <2> QED
    BY <1>1, <1>3, <1>5 DEF IsRun
<1>7. Is(g)
  <2>1. g = [j \in 0 .. N |-> g[j]] /\ g[0] = origins
    BY <1>5 DEF IsRun
  <2>2. ASSUME NEW j \in 1 .. N
        PROVE  g[j] = LET e    == events[j]
                          left == Forget(g[j - 1], e.before)
                      IN IF e.after = NoRow THEN left
                         ELSE [left EXCEPT ![e.after.key] = EventOrigin(g[j - 1], commit, j, e)]
    BY <1>6 DEF OriginsWith
  <2>3. ASSUME NEW j \in 0 .. N, j # 0 PROVE j \in 1 .. N
    BY <1>1, <2>3
  <2> HIDE DEF N
  <2> QED
    BY <2>1, <2>2, <2>3
<1>8. Is(f)
  <2> HIDE DEF Is
  <2> QED
    BY <1>7, Zenon
<1>9. \A i : OriginsIn(origins, commit, events, i) = f[i]
  BY DEF OriginsIn
<1> HIDE DEF f
<1>10. f[0] = origins
  BY <1>1, <1>8
<1>11. ASSUME NEW i \in 1 .. N PROVE f[i] = OriginsWith(f[i - 1], commit, i, events[i])
  <2>1. i \in 0 .. N /\ i # 0
    BY <1>1
  <2> HIDE DEF N
  <2> QED
    BY <1>8, <2>1 DEF OriginsWith
<1> DEFINE T == {i \in Nat : i <= N => f[i] \in V}
<1>12. 0 \in T
  BY <1>10
<1>13. ASSUME NEW i \in Nat, i \in T PROVE i + 1 \in T
  <2>1. i + 1 <= N => i + 1 \in 1 .. N /\ i + 1 - 1 = i /\ i <= N
    BY <1>1
  <2> HIDE DEF N, V
  <2> QED
    BY <1>2, <1>11, <1>13, <2>1
<1> HIDE DEF T
<1>14. \A i \in Nat : i \in T
  BY <1>12, <1>13, Induction
<1>15. \A i \in 0 .. N : f[i] \in V
  BY <1>1, <1>14 DEF T
<1> HIDE DEF N, V
<1> QED
  BY <1>9, <1>10, <1>11, <1>15 DEF N, V

\* A transaction's origins are those after its last event.
LEMMA OriginsAfterIsOriginsIn ==
  ASSUME NEW origins, NEW commit, NEW events
  PROVE  OriginsAfter(origins, commit, events) = OriginsIn(origins, commit, events, Len(events))
BY DEF OriginsAfter, OriginsIn

\* The events of the transaction a state follows.
LEMMA CommitEventsType ==
  ASSUME AskShape, ReplayShape
  PROVE  /\ CommitEvents \in Seq(Event)
         /\ replay.commit \in Nat
         /\ replay.commit # 0 \/ CommitEvents = << >>
         /\ replay.commit # 0 => replay.commit \in 1 .. Len(Commits)
         /\ replay.commit # 0 => CommitEvents = Commits[replay.commit].events
<1>1. replay.commit \in 0 .. Len(Commits) /\ Len(Commits) \in Nat
  BY HistoryTypes DEF AskShape, ReplayShape
<1>2. replay.commit # 0 => replay.commit \in 1 .. Len(Commits)
  BY <1>1
<1> QED
  BY <1>1, <1>2, HistoryTypes DEF CommitEvents, AskShape

\* The cost of a transaction's origins.
LEMMA OriginCostType ==
  ASSUME NEW events \in Seq(Event) PROVE OriginCost(events) \in Nat
<1>1. IsFiniteSet(1 .. Len(events))
  BY FS_Interval
<1>2. {i \in DOMAIN events : events[i].after # NoRow} \subseteq 1 .. Len(events)
  OBVIOUS
<1> QED
  BY <1>1, <1>2, FS_Subset, FS_CardinalityType DEF OriginCost

\* An event the followed row is in.
LEMMA FollowEventType ==
  ASSUME AskShape, NEW l \in Lineages, NEW i \in Nat, NEW event \in Event, replay.commit \in Nat
  PROVE  FollowEvent(l, i, event) \in Lineages
<1> DEFINE item == Entry(replay.commit, i, event.before, event.after)
           live == IF event.after = NoRow THEN NoRow ELSE event.after.key
           page == AddItem(l.page, ask.page, item, ItemSize(item, NoRow))
<1>1. item \in Entries
  BY DEF Entry, Entries, Event
<1>2. live \in Keys \union {NoRow}
  BY DEF Event, Image
<1>3. PageWithin(page, ask.page, Entries) /\ page \in PageShapes(Entries)
  <2>1. ask.page \in Options /\ PageWithin(l.page, ask.page, Entries)
    BY Budgets DEF Lineages
  <2>2. ItemSize(item, NoRow) \in Nat
    BY DEF ItemSize, Carried
  <2> HIDE DEF item
  <2>3. PageWithin(page, ask.page, Entries)
    BY <1>1, <2>1, <2>2, AddItemWithin
  <2> QED
    BY <2>3 DEF PageWithin
<1>4. [l EXCEPT !.born = TRUE, !.live = live, !.page = page] \in Lineages
  <2> HIDE DEF item, live, page
  <2> QED
    BY <1>2, <1>3 DEF Lineages
<1>5. FollowEvent(l, i, event) = IF ~Concerns(l, i, event) \/ l.page.over THEN l
                                 ELSE [l EXCEPT !.born = TRUE, !.live = live, !.page = page]
  BY DEF FollowEvent
<1> QED
  BY <1>4, <1>5

\* What is known of the followed row after the first i events of a transaction.
FollowedIn(l, events, i) ==
  LET after[j \in 0 .. Len(events)] ==
        IF j = 0 THEN l ELSE FollowEvent(after[j - 1], j, events[j])
  IN after[i]

\* The followed row after each event, one from the other.
LEMMA FollowedInSteps ==
  ASSUME AskShape, NEW l \in Lineages, NEW events \in Seq(Event), replay.commit \in Nat
  PROVE  /\ FollowedIn(l, events, 0) = l
         /\ \A i \in 1 .. Len(events) :
              FollowedIn(l, events, i) = FollowEvent(FollowedIn(l, events, i - 1), i, events[i])
         /\ \A i \in 0 .. Len(events) : FollowedIn(l, events, i) \in Lineages
<1> DEFINE N == Len(events)
           F == [i \in 1 .. N |-> [v \in Lineages |-> FollowEvent(v, i, events[i])]]
           Is(g) == g = [j \in 0 .. N |->
                          IF j = 0 THEN l ELSE FollowEvent(g[j - 1], j, events[j])]
           f == CHOOSE g : Is(g)
<1>1. N \in Nat
  OBVIOUS
<1>2. ASSUME NEW i \in 1 .. N, NEW v \in Lineages PROVE FollowEvent(v, i, events[i]) \in Lineages
  <2>1. i \in Nat /\ events[i] \in Event
    OBVIOUS
  <2> QED
    BY <2>1, FollowEventType
<1>3. \A i \in 1 .. N : \A v \in Lineages :
        F[i][v] \in Lineages /\ F[i][v] = FollowEvent(v, i, events[i])
  <2> HIDE DEF N
  <2> QED
    BY <1>2
<1>4. StepsWithin(F, Lineages, N)
  BY <1>3 DEF StepsWithin
<1>5. PICK g : IsRun(g, F, Lineages, l, N)
  <2> HIDE DEF N, F
  <2> QED
    BY <1>1, <1>4, RunExists
<1>6. \A i \in 1 .. N : g[i] = FollowEvent(g[i - 1], i, events[i])
  <2> HIDE DEF F, N
  <2> QED
    BY <1>1, <1>3, <1>5 DEF IsRun
<1>7. Is(g)
  <2>1. g = [j \in 0 .. N |-> g[j]] /\ g[0] = l
    BY <1>5 DEF IsRun
  <2>2. ASSUME NEW j \in 0 .. N, j # 0 PROVE j \in 1 .. N
    BY <1>1, <2>2
  <2> HIDE DEF N
  <2> QED
    BY <1>6, <2>1, <2>2
<1>8. Is(f)
  <2> HIDE DEF Is
  <2> QED
    BY <1>7, Zenon
<1>9. \A i : FollowedIn(l, events, i) = f[i]
  BY DEF FollowedIn
<1> HIDE DEF f
<1>10. f[0] = l
  BY <1>1, <1>8
<1>11. ASSUME NEW i \in 1 .. N PROVE f[i] = FollowEvent(f[i - 1], i, events[i])
  <2>1. i \in 0 .. N /\ i # 0
    BY <1>1
  <2> HIDE DEF N
  <2> QED
    BY <1>8, <2>1
<1> DEFINE T == {i \in Nat : i <= N => f[i] \in Lineages}
<1>12. 0 \in T
  BY <1>10
<1>13. ASSUME NEW i \in Nat, i \in T PROVE i + 1 \in T
  <2>1. i + 1 <= N => i + 1 \in 1 .. N /\ i + 1 - 1 = i /\ i <= N
    BY <1>1
  <2> HIDE DEF N
  <2> QED
    BY <1>2, <1>11, <1>13, <2>1
<1> HIDE DEF T
<1>14. \A i \in Nat : i \in T
  BY <1>12, <1>13, Induction
<1>15. \A i \in 0 .. N : f[i] \in Lineages
  BY <1>1, <1>14 DEF T
<1> HIDE DEF N
<1> QED
  BY <1>9, <1>10, <1>11, <1>15 DEF N

\* After a transaction it is what it is after the last event.
LEMMA FollowEventsIsFollowedIn ==
  ASSUME NEW l, NEW events
  PROVE  FollowEvents(l, events) = FollowedIn(l, events, Len(events))
BY DEF FollowEvents, FollowedIn

\* The row of the baseline is the first there is to know.
LEMMA FollowBaselineType ==
  ASSUME Shape, Following, lineage.pass = 2, OriginHolds
  PROVE  FollowBaseline(lineage) \in Lineages
<1> USE DEF Shape
<1>1. lineage \in Lineages
  BY DEF LineageShape
<1>2. CASE replay.commit = 0 /\ lineage.origin.commit = 0
  <2> DEFINE key == lineage.origin.key
             row == [key |-> key, value |-> replay.state.rows[key]]
             item == Entry(0, 0, NoRow, row)
             page == AddItem(lineage.page, ask.page, item, ItemSize(item, NoRow))
  <2>1. key \in Keys
    <3>1. lineage.origin \in RowOrigins
      BY <1>1 DEF Lineages
    <3> QED
      BY <1>2, <3>1 DEF RowOrigins, FromBaseline, FromInsert
  <2>2. replay.state.rows \in Table /\ replay.state.rows[key] # NoRow
    BY <1>2 DEF Following, StateShape, ReplayShape, States, Sized, OriginHolds
  <2>3. row \in Image
    BY <2>1, <2>2 DEF Image, Table
  <2>4. item \in Entries
    BY <2>3 DEF Entries, Entry
  <2>5. ItemSize(item, NoRow) \in Nat
    BY DEF ItemSize, Carried
  <2>6. PageWithin(page, ask.page, Entries) /\ page \in PageShapes(Entries)
    <3>1. ask.page \in Options /\ PageWithin(lineage.page, ask.page, Entries)
      BY <1>1, Budgets DEF Lineages
    <3> HIDE DEF item
    <3>2. PageWithin(page, ask.page, Entries)
      BY <2>4, <2>5, <3>1, AddItemWithin
    <3> QED
      BY <3>2 DEF PageWithin
  <2>7. FollowBaseline(lineage) = [lineage EXCEPT !.born = TRUE, !.live = key, !.page = page]
    BY <1>2 DEF FollowBaseline
  <2> HIDE DEF page, key
  <2> QED
    BY <1>1, <2>1, <2>6, <2>7 DEF Lineages
<1>3. CASE ~(replay.commit = 0 /\ lineage.origin.commit = 0)
  BY <1>1, <1>3 DEF FollowBaseline
<1> QED
  BY <1>2, <1>3

\* A row history's steps.
LEMMA LineageStepShape ==
  ASSUME Shape, LineageStep, UNCHANGED <<scan, merge>>
  PROVE  Shape'
<1> USE DEF Shape
<1>1. /\ ask' = ask /\ history' = history /\ signal' = signal /\ expired' = expired
      /\ ask.op = "lineage" /\ Replays
  BY DEF LineageStep, LineageHalted, OriginRefused, TraceOrigin, FollowRow, LineageEnds,
         MayFollow, Following, Replays
<1>2. AskShape' /\ ScanShape' /\ MergeShape'
  BY <1>1 DEF AskShape, ScanShape, MergeShape
<1>3. ASSUME UNCHANGED lineage PROVE LineageShape'
  BY <1>1, <1>3 DEF LineageShape, Lineages
<1>4. ASSUME UNCHANGED work PROVE WorkShape'
  BY <1>1, <1>4 DEF WorkShape, Replays
<1>5. ASSUME UNCHANGED <<range, replay>> PROVE ReplayShape'
  BY <1>1, <1>5 DEF ReplayShape, Commits
<1>6. ASSUME NEW code \in Codes, Reject(code) PROVE ControlShape' /\ StateShape'
  BY <1>6, GivenUp, DoneShape
<1>7. CASE LineageHalted \/ OriginRefused
  <2>1. /\ UNCHANGED <<range, replay, work, lineage>>
        /\ \E code \in Codes : Reject(code)
    BY <1>7 DEF LineageHalted, OriginRefused, Codes
  <2> QED
    BY <1>2, <1>3, <1>4, <1>5, <1>6, <2>1
<1>8. CASE LineageEnds
  <2>1. UNCHANGED <<range, replay, work, lineage>>
    BY <1>8 DEF LineageEnds
  <2>2. \/ \E code \in Codes : Reject(code)
        \/ pc' = "done" /\ outcome'.kind = "lineage"
    BY <1>8 DEF LineageEnds, Codes
  <2>3. ControlShape' /\ StateShape'
    BY <1>6, <2>2, DoneShape
  <2> QED
    BY <1>2, <1>3, <1>4, <1>5, <2>1, <2>3
<1>9. CASE TraceOrigin
  <2> DEFINE origins == OriginsAfter(lineage.origins, replay.commit, CommitEvents)
  <2>1. CommitEvents \in Seq(Event) /\ replay.commit \in Nat
        /\ (replay.commit # 0 \/ CommitEvents = << >>)
    BY CommitEventsType
  <2>2. origins \in [Keys -> Origins]
    <3>1. lineage.origins \in [Keys -> Origins]
      BY LineageTypes
    <3> QED
      BY <2>1, <3>1, OriginsInSteps, OriginsAfterIsOriginsIn
  <2>3. WorkShape'
    <3>1. OriginCost(CommitEvents) \in Nat /\ Fits(OriginCost(CommitEvents))
          /\ work' = Spend(work, OriginCost(CommitEvents))
      BY <1>9, <2>1, OriginCostType DEF TraceOrigin
    <3> QED
      BY <1>1, <3>1, SpendShape
  <2> HIDE DEF origins
  <2>4. CASE /\ lineage' = [lineage EXCEPT !.origins = origins]
             /\ pc' = "read"
             /\ UNCHANGED <<outcome, replay, range>>
    <3>1. LineageShape'
      BY <1>1, <2>2, <2>4 DEF LineageShape, Lineages
    <3>2. ControlShape' /\ StateShape'
      BY <1>1, <1>9, <2>4 DEF ControlShape, StateShape, TraceOrigin, MayFollow, Following, Replays
    <3> QED
      BY <1>2, <1>5, <2>3, <2>4, <3>1, <3>2
  <2>5. CASE Reject("INVALID_VALUE") /\ UNCHANGED <<lineage, replay, range>>
    <3>1. "INVALID_VALUE" \in Codes
      BY DEF Codes
    <3> QED
      BY <1>2, <1>3, <1>5, <1>6, <2>3, <2>5, <3>1
  <2>6. CASE /\ lineage' = [lineage EXCEPT !.pass = 2, !.anchor = range.to,
                                           !.origins = NoLineage.origins,
                                           !.origin = OriginAt(origins, ask.key)]
             /\ range' = [range EXCEPT !.to = history.head]
             /\ replay' = NotReplaying
             /\ pc' = "baseline"
             /\ UNCHANGED outcome
    <3>1. OriginAt(origins, ask.key) \in RowOrigins
      BY <2>2, OriginAtType, Budgets
    <3>2. NoLineage.origins \in [Keys -> Origins] /\ range.to \in Nat
      BY DEF NoLineage, Origins, ReplayShape
    <3>3. LineageShape'
      BY <1>1, <2>6, <3>1, <3>2 DEF LineageShape, Lineages, Origins
    <3>4. history.head \in Nat /\ Len(Commits) \in Nat
      BY HistoryTypes DEF AskShape
    <3>5. ReplayShape'
      BY <1>1, <2>6, <3>4 DEF ReplayShape, NotReplaying, Commits
    <3>6. ControlShape' /\ StateShape'
      BY <1>1, <1>9, <2>6 DEF ControlShape, StateShape, TraceOrigin, MayFollow, Following, Replays
    <3> QED
      BY <1>2, <2>3, <3>3, <3>5, <3>6
  <2> QED
    BY <1>9, <2>4, <2>5, <2>6 DEF TraceOrigin, origins
<1>10. CASE FollowRow
  <2> DEFINE l == FollowEvents(FollowBaseline(lineage), CommitEvents)
  <2>1. UNCHANGED <<range, replay, work>>
    BY <1>10 DEF FollowRow
  <2>2. CASE \E code \in Codes : Reject(code) /\ UNCHANGED lineage
    BY <1>2, <1>3, <1>4, <1>5, <1>6, <2>1, <2>2
  <2>3. CASE /\ OriginHolds
             /\ lineage' = [l EXCEPT !.anchored = @ \/ replay.state.position = lineage.anchor]
             /\ pc' = "read"
             /\ UNCHANGED outcome
    <3>1. FollowBaseline(lineage) \in Lineages
      BY <1>10, <2>3, FollowBaselineType DEF FollowRow, MayFollow
    <3>2. l \in Lineages
      BY <3>1, CommitEventsType, FollowedInSteps, FollowEventsIsFollowedIn
    <3> HIDE DEF l
    <3>3. (l.anchored \/ replay.state.position = lineage.anchor) \in BOOLEAN
      OBVIOUS
    <3>4. lineage' \in Lineages
      BY <2>3, <3>2, <3>3 DEF Lineages
    <3>5. LineageShape'
      BY <1>1, <3>4 DEF LineageShape, Lineages
    <3>6. ControlShape' /\ StateShape'
      BY <1>1, <1>10, <2>3 DEF ControlShape, StateShape, FollowRow, MayFollow, Following, Replays
    <3> QED
      BY <1>2, <1>4, <1>5, <2>1, <3>5, <3>6
  <2>4. \/ \E code \in Codes : Reject(code) /\ UNCHANGED lineage
        \/ /\ OriginHolds
           /\ lineage' = [l EXCEPT !.anchored = @ \/ replay.state.position = lineage.anchor]
           /\ pc' = "read"
           /\ UNCHANGED outcome
    BY <1>10 DEF FollowRow, Codes
  <2> HIDE DEF l
  <2> QED
    BY <2>2, <2>3, <2>4
<1> QED
  BY <1>7, <1>8, <1>9, <1>10 DEF LineageStep

--------------------------------------------------------------------------
(* The shapes of a comparison.                                             *)

Merges ==
  {m \in [left : Nat \ {0}, right : Nat \ {0}, page : PageShapes(Changes),
          counts : [inserted : Nat, deleted : Nat, updated : Nat, unchanged : Nat]] :
     PageWithin(m.page, ask.page, Changes)}

\* A view gives rows until it ends or breaks.
LEMMA PullType ==
  ASSUME NEW view \in HandedViews, NEW i \in Nat \ {0}
  PROVE  Pull(view, i) \in Image \union {NoRow, Broken}
<1>1. view.rows \in Seq(Image)
  BY DEF HandedViews
<1>2. i <= Len(view.rows) => view.rows[i] \in Image
  BY <1>1
<1> QED
  BY <1>2 DEF Pull

\* A merged row is counted and paged.
LEMMA MergedType ==
  ASSUME AskShape, MergeShape,
         NEW before \in Image \union {NoRow}, NEW after \in Image \union {NoRow},
         before # NoRow \/ after # NoRow
  PROVE  /\ Merged(before, after) \in Merges
         /\ Merged(before, after).left = merge.left
         /\ Merged(before, after).right = merge.right
<1> DEFINE row  == IF before = NoRow THEN after ELSE before
           item == [key |-> row.key, before |-> ValueOf(before), after |-> ValueOf(after)]
           kind == CountOf(before, after)
           page == IF kind = "unchanged" THEN merge.page
                   ELSE AddItem(merge.page, ask.page, item, ItemSize(item, NoRow))
           counts == [merge.counts EXCEPT ![kind] = @ + 1]
<1>1. merge \in Merges
  BY DEF MergeShape, Merges
<1>2. item \in Changes
  BY DEF Changes, ValueOf, Image
<1>3. kind \in {"inserted", "deleted", "updated", "unchanged"}
  BY DEF CountOf
<1>4. counts \in [inserted : Nat, deleted : Nat, updated : Nat, unchanged : Nat]
  <2>1. merge.counts \in [inserted : Nat, deleted : Nat, updated : Nat, unchanged : Nat]
    BY <1>1 DEF Merges
  <2> HIDE DEF kind
  <2> QED
    BY <1>3, <2>1
<1>5. PageWithin(page, ask.page, Changes) /\ page \in PageShapes(Changes)
  <2>1. ask.page \in Options /\ PageWithin(merge.page, ask.page, Changes)
    BY <1>1, Budgets DEF Merges
  <2>2. ItemSize(item, NoRow) \in Nat
    BY DEF ItemSize, Carried
  <2> HIDE DEF item, kind
  <2>3. PageWithin(page, ask.page, Changes)
    BY <1>2, <2>1, <2>2, AddItemWithin
  <2> QED
    BY <2>3 DEF PageWithin
<1>6. Merged(before, after) = IF ~Chosen(TableOf[row.key]) THEN merge
                              ELSE [merge EXCEPT !.counts = counts, !.page = page]
  <2>1. [merge EXCEPT !.counts[kind] = @ + 1, !.page = page] =
          [merge EXCEPT !.counts = counts, !.page = page]
    OBVIOUS
  <2> QED
    BY <2>1 DEF Merged
<1> HIDE DEF row, counts, page
<1>7. [merge EXCEPT !.counts = counts, !.page = page] \in Merges
  BY <1>1, <1>4, <1>5 DEF Merges
<1>8. /\ [merge EXCEPT !.counts = counts, !.page = page].left = merge.left
      /\ [merge EXCEPT !.counts = counts, !.page = page].right = merge.right
  BY <1>1 DEF Merges
<1> QED
  BY <1>1, <1>6, <1>7, <1>8

\* What is taken in a round of the merge.
TakenLeft == IF TakesLeft THEN Left ELSE NoRow
TakenRight == IF TakesRight THEN Right ELSE NoRow

\* Of two rows one comes first, or both have the same key.
LEMMA TakesOne ==
  ASSUME AskShape, MergeShape, Left # NoRow \/ Right # NoRow, Left # Broken, Right # Broken
  PROVE  /\ TakenLeft \in Image \union {NoRow}
         /\ TakenRight \in Image \union {NoRow}
         /\ TakenLeft # NoRow \/ TakenRight # NoRow
<1>1. Left \in Image \union {NoRow} /\ Right \in Image \union {NoRow}
  BY PullType, Budgets DEF Left, Right, MergeShape
<1>2. CASE Left = NoRow \/ Right = NoRow
  BY <1>1, <1>2 DEF TakenLeft, TakenRight, TakesLeft, TakesRight
<1>3. CASE Left # NoRow /\ Right # NoRow
  <2>1. Left.key \in Nat /\ Right.key \in Nat /\ Left.key \in Keys /\ Right.key \in Keys
    BY <1>1, <1>3, KeysAssumption DEF Image
  <2>2. TableOf[Left.key] \in Nat /\ TableOf[Right.key] \in Nat
    BY <2>1, TableOfAssumption
  <2>3. ~Before(Right, Left) \/ ~Before(Left, Right)
    BY <2>1, <2>2 DEF Before
  <2> QED
    BY <1>1, <1>3, <2>3 DEF TakenLeft, TakenRight, TakesLeft, TakesRight
<1> QED
  BY <1>2, <1>3

\* A comparison's steps.
LEMMA ComparisonStepShape ==
  ASSUME Shape, ComparisonStep, UNCHANGED <<scan, lineage>>
  PROVE  Shape'
<1> USE DEF Shape
<1>1. /\ ask' = ask /\ history' = history /\ signal' = signal /\ expired' = expired
      /\ range' = range /\ replay' = replay /\ work' = work /\ ~Replays
      /\ pc \in {"resolve", "merge"}
  BY DEF ComparisonStep, StartComparison, MergeRow, MergeEnds, Merging, ListRow, ListEnds,
         Listing, Replays
<1>2. /\ AskShape' /\ WorkShape' /\ ReplayShape' /\ ScanShape' /\ LineageShape'
  BY <1>1 DEF AskShape, WorkShape, ReplayShape, ScanShape, LineageShape, Lineages, Commits, Replays
<1>3. ASSUME merge' \in Merges PROVE MergeShape'
  BY <1>1, <1>3 DEF Merges, MergeShape
<1>4. ASSUME UNCHANGED merge PROVE MergeShape'
  BY <1>1, <1>4 DEF MergeShape
<1>5. ASSUME \/ \E code \in Codes : Reject(code)
             \/ pc' = "done" /\ outcome'.kind \in {"difference", "rows"}
             \/ pc' = "merge" /\ UNCHANGED outcome
      PROVE  ControlShape' /\ StateShape'
  <2>1. CASE \E code \in Codes : Reject(code)
    BY <2>1, GivenUp, DoneShape
  <2>2. CASE pc' = "done" /\ outcome'.kind \in {"difference", "rows"}
    BY <2>2, DoneShape
  <2>3. CASE pc' = "merge" /\ UNCHANGED outcome
    BY <1>1, <2>3 DEF ControlShape, StateShape, Replays
  <2> QED
    BY <1>5, <2>1, <2>2, <2>3
<1>6. CASE StartComparison \/ MergeEnds \/ ListEnds
  <2>1. /\ UNCHANGED merge
        /\ \/ \E code \in Codes : Reject(code)
           \/ pc' = "done" /\ outcome'.kind \in {"difference", "rows"}
           \/ pc' = "merge" /\ UNCHANGED outcome
    BY <1>6 DEF StartComparison, MergeEnds, ListEnds, Codes
  <2> QED
    BY <1>2, <1>4, <1>5, <2>1
<1>7. CASE MergeRow
  <2> DEFINE next == Merged(TakenLeft, TakenRight)
  <2>1. CASE UNCHANGED merge /\ \E code \in Codes : Reject(code)
    BY <1>2, <1>4, <1>5, <2>1
  <2>2. CASE /\ Left # NoRow \/ Right # NoRow
             /\ Left # Broken /\ Right # Broken
             /\ merge' = [next EXCEPT !.left = @ + IF TakesLeft THEN 1 ELSE 0,
                                      !.right = @ + IF TakesRight THEN 1 ELSE 0]
             /\ UNCHANGED <<pc, outcome>>
    <3>1. next \in Merges
      BY <2>2, TakesOne, MergedType
    <3> HIDE DEF next
    <3> DEFINE a == next.left + IF TakesLeft THEN 1 ELSE 0
               b == next.right + IF TakesRight THEN 1 ELSE 0
    <3>2. merge' \in Merges
      <4>1. a \in Nat \ {0} /\ b \in Nat \ {0}
        BY <3>1 DEF Merges
      <4>2. merge' = [next EXCEPT !.left = a, !.right = b]
        BY <2>2
      <4> HIDE DEF a, b
      <4> QED
        BY <3>1, <4>1, <4>2 DEF Merges
    <3>3. pc' = "merge" /\ UNCHANGED outcome
      BY <1>7, <2>2 DEF MergeRow, Merging
    <3> QED
      BY <1>2, <1>3, <1>5, <3>2, <3>3
  <2>3. \/ UNCHANGED merge /\ \E code \in Codes : Reject(code)
        \/ /\ Left # NoRow \/ Right # NoRow
           /\ Left # Broken /\ Right # Broken
           /\ merge' = [next EXCEPT !.left = @ + IF TakesLeft THEN 1 ELSE 0,
                                    !.right = @ + IF TakesRight THEN 1 ELSE 0]
           /\ UNCHANGED <<pc, outcome>>
    BY <1>7 DEF MergeRow, Codes, TakenLeft, TakenRight
  <2> QED
    BY <2>1, <2>2, <2>3
<1>8. CASE ListRow
  <2> DEFINE item == [key |-> Left.key, before |-> NoRow, after |-> Left.value]
             page == IF Chosen(TableOf[Left.key])
                     THEN AddItem(merge.page, ask.page, item, ItemSize(item, NoRow))
                     ELSE merge.page
  <2>1. CASE UNCHANGED merge /\ \E code \in Codes : Reject(code)
    BY <1>2, <1>4, <1>5, <2>1
  <2>2. CASE /\ Left # NoRow /\ Left # Broken
             /\ merge' = [merge EXCEPT !.page = page, !.left = @ + 1]
             /\ UNCHANGED <<pc, outcome>>
    <3>1. Left \in Image
      BY <2>2, PullType, Budgets DEF Left, MergeShape
    <3>2. item \in Changes
      BY <3>1 DEF Changes, Image
    <3>3. ask.page \in Options /\ PageWithin(merge.page, ask.page, Changes)
          /\ ItemSize(item, NoRow) \in Nat
      BY Budgets DEF MergeShape, ItemSize, Carried
    <3> HIDE DEF item
    <3>4. PageWithin(page, ask.page, Changes)
      BY <3>2, <3>3, AddItemWithin
    <3> HIDE DEF page
    <3>5. merge' \in Merges
      <4>1. merge \in Merges /\ merge.left + 1 \in Nat \ {0}
        BY DEF Merges, MergeShape
      <4>2. page \in PageShapes(Changes)
        BY <3>4 DEF PageWithin
      <4> QED
        BY <2>2, <3>4, <4>1, <4>2 DEF Merges
    <3>6. pc' = "merge" /\ UNCHANGED outcome
      BY <1>8, <2>2 DEF ListRow, Listing
    <3> QED
      BY <1>2, <1>3, <1>5, <3>5, <3>6
  <2>3. \/ UNCHANGED merge /\ \E code \in Codes : Reject(code)
        \/ /\ Left # NoRow /\ Left # Broken
           /\ merge' = [merge EXCEPT !.page = page, !.left = @ + 1]
           /\ UNCHANGED <<pc, outcome>>
    BY <1>8 DEF ListRow, Codes
  <2> QED
    BY <2>1, <2>2, <2>3
<1> QED
  BY <1>6, <1>7, <1>8 DEF ComparisonStep

\* The caller and the clock.
LEMMA CallerStepShape == ASSUME Shape, CallerStep PROVE Shape'
<1> USE DEF Shape
<1>1. /\ UNCHANGED <<ask, history, pc, range, replay, work, outcome, scan, lineage, merge>>
      /\ signal' \in BOOLEAN /\ expired' \in BOOLEAN
  BY DEF CallerStep, Cancel, Expire, AskShape
<1> QED
  BY <1>1 DEF AskShape, WorkShape, ReplayShape, ScanShape, LineageShape, Lineages, MergeShape,
              ControlShape, StateShape, Commits, Replays

\* The replay's steps.
LEMMA ReplayStepShape == ASSUME Shape, ReplayStep PROVE Shape'
<1> USE DEF Shape
<1>1. UNCHANGED <<ask, scan, lineage, merge>>
  BY DEF ReplayStep, Resolve, LoadBaseline, ReadTransaction, StalledPage, EndOfHistory
<1>2. ScanShape' /\ LineageShape' /\ MergeShape'
  BY <1>1 DEF ScanShape, LineageShape, Lineages, MergeShape
<1>3. CASE Resolve
  <2>1. WorkShape'
    BY <1>3 DEF Resolve, WorkShape, Replays
  <2> QED
    BY <1>2, <1>3, <2>1, ResolveShape
<1>4. CASE LoadBaseline
  BY <1>2, <1>4, LoadBaselineShape
<1>5. CASE ReadTransaction
  BY <1>2, <1>5, ReadTransactionShape
<1>6. CASE StalledPage \/ EndOfHistory
  BY <1>2, <1>6, EndShape
<1> QED
  BY <1>3, <1>4, <1>5, <1>6 DEF ReplayStep

\* The shapes are kept: what is read fits, what is spent is within the budgets and
\* what is paged within its limits, in every query.
THEOREM ShapeHolds == Spec => []Shape
<1>1. Init => Shape
  BY InitShape
<1>2. Shape /\ [Next]_vars => Shape'
  <2> SUFFICES ASSUME Shape, [Next]_vars PROVE Shape'
    OBVIOUS
  <2>1. CASE UNCHANGED vars
    BY <2>1 DEF vars, Shape, AskShape, WorkShape, ReplayShape, ScanShape, LineageShape, Lineages,
                MergeShape, ControlShape, StateShape, Commits, Replays
  <2>2. CASE Next
    BY <2>2, ReplayStepShape, ScanStepShape, LineageStepShape, ComparisonStepShape, CallerStepShape
       DEF Next, Answering
  <2> QED
    BY <2>1, <2>2
<1> QED
  BY <1>1, <1>2, PTL DEF Spec

--------------------------------------------------------------------------
(* Where a replay is.                                                      *)

Running == {"read", "consume", "report", "finish"}

StateAfter(n) == [position |-> PositionAfter(n), rows |-> RowsAfter(n)]

\* After so many transactions, all of which follow one another and fit.
PlacedAt(n) ==
  /\ replay.next = n + 1
  /\ replay.state = StateAfter(n)
  /\ replay.previous = IF n = 0 THEN NoRow ELSE StateAfter(n - 1)
  /\ \A i \in 0 .. n : RowsAfter(i) \in Sized
  /\ ChainedTo(n)
  /\ replay.reached = (PositionAfter(n) = range.to)
  /\ n > 0 => PositionAfter(n) <= range.to

Placed == PlacedAt(replay.commit)

OnChain(position) == \E n \in 0 .. Len(Commits) : PositionAfter(n) = position

\* Before a range is resolved nothing is known.
Fresh ==
  /\ pc = "resolve" => lineage = NoLineage /\ scan = NotScanned /\ merge = NotMerging
  /\ pc = "baseline" /\ ask.op = "scan" => scan = NotScanned

\* A range runs forward, and an intact recording has states at its ends.
RangeHolds ==
  Replays /\ pc \notin {"resolve", "done"} =>
    /\ ask.op = "scan" => range.from <= range.to
    /\ ask.op = "lineage" => /\ range.from = history.baseline
                             /\ lineage.pass = 2 => range.to = history.head
    /\ Intact => OnChain(range.from) /\ OnChain(range.to)

\* The replay is where its counters say, and when it ends it has seen the end.
ReplayHolds ==
  /\ pc \in Running => Placed /\ Cardinality(Present(history.rows)) = history.rowCount
  /\ pc \in {"consume", "report"} => ResumesAt(replay.state)
  /\ pc = "read" /\ replay.reached => Full
  /\ pc = "finish" => replay.reached /\ (Full => Intact)

ReplayInv == Fresh /\ RangeHolds /\ ReplayHolds

\* What the history says does not change.
LEMMA SameHistory ==
  ASSUME history' = history
  PROVE  /\ \A n : RowsAfter(n)' = RowsAfter(n)
         /\ \A n : PositionAfter(n)' = PositionAfter(n)
         /\ \A n : ChainedTo(n)' <=> ChainedTo(n)
         /\ \A p : OnChain(p)' <=> OnChain(p)
         /\ Intact' <=> Intact
         /\ Commits' = Commits
<1>1. \A n : RowsAfter(n)' = RowsAfter(n)
  BY DEF RowsAfter, Commits
<1>2. \A n : PositionAfter(n)' = PositionAfter(n)
  BY DEF PositionAfter, Commits
<1>3. \A n : ChainedTo(n)' <=> ChainedTo(n)
  BY <1>2 DEF ChainedTo, Commits
<1>4. \A p : OnChain(p)' <=> OnChain(p)
  BY <1>2 DEF OnChain, Commits
<1>5. Commits' = Commits
  BY DEF Commits
<1>6. Chained' <=> Chained
  BY <1>5 DEF Chained
<1>7. RowsAfter(Len(Commits))' = RowsAfter(Len(Commits))
  BY DEF RowsAfter, Commits
<1>8. Intact' <=> Intact
  BY <1>5, <1>6, <1>7 DEF Intact
<1> QED
  BY <1>1, <1>2, <1>3, <1>4, <1>5, <1>8

\* The replay stays where it is.
LEMMA SamePlace ==
  ASSUME history' = history, replay' = replay, range' = range
  PROVE  /\ \A n : PlacedAt(n)' <=> PlacedAt(n)
         /\ Placed' <=> Placed
<1>1. \A n : StateAfter(n)' = StateAfter(n)
  BY SameHistory DEF StateAfter
<1>2. \A n : PlacedAt(n)' <=> PlacedAt(n)
  BY <1>1, SameHistory DEF PlacedAt
<1>3. PlacedAt(replay.commit)' <=> PlacedAt(replay.commit)
  BY <1>1, SameHistory DEF PlacedAt
<1> QED
  BY <1>2, <1>3 DEF Placed

\* A recording has finitely many transactions.
LEMMA CommitsFinite == ASSUME AskShape PROVE Len(Commits) \in Nat
BY HistoryTypes DEF AskShape

\* Both ends of a range of an intact recording are on the chain.
LEMMA SelectedOnChain ==
  ASSUME AskShape, NEW selection \in Selections, Covered(selection), Intact
  PROVE  OnChain(SelectedPosition(selection))
<1>1. history \in Histories /\ Len(Commits) \in Nat
  BY HistoryTypes DEF AskShape
<1>2. CASE selection.kind = "baseline"
  BY <1>1, <1>2 DEF SelectedPosition, OnChain, PositionAfter
<1>3. CASE selection.kind # "baseline"
  <2>1. HasCommit(selection.position)
    BY <1>3 DEF Covered
  <2>2. PICK i \in 1 .. Len(Commits) : Commits[i].position = selection.position
    BY <1>1, <2>1 DEF HasCommit, Commits
  <2>3. CASE selection.kind = "after"
    BY <1>1, <2>2, <2>3 DEF SelectedPosition, OnChain, PositionAfter
  <2>4. CASE selection.kind = "before"
    <3>1. Commit(selection.position) \in
            {history.transactions[j] : j \in DOMAIN history.transactions}
      BY <1>1, <2>2 DEF Commit, Commits
    <3>2. PICK j \in 1 .. Len(Commits) : Commit(selection.position) = Commits[j]
      BY <1>1, <3>1 DEF Commits
    <3>3. Commits[j].previous = PositionAfter(j - 1)
      BY <1>1, <3>2 DEF Intact, Chained, PositionAfter
    <3>4. j - 1 \in 0 .. Len(Commits)
      BY <1>1
    <3> QED
      BY <2>4, <3>2, <3>3, <3>4 DEF SelectedPosition, OnChain
  <2> QED
    BY <1>3, <2>3, <2>4 DEF Selections
<1> QED
  BY <1>2, <1>3

\* An intact recording is a chain to its end.
LEMMA IntactIsChained == ASSUME AskShape, Intact PROVE ChainedTo(Len(Commits))
<1>1. Len(Commits) \in Nat /\ Chained
  BY CommitsFinite DEF Intact
<1>2. ASSUME NEW i \in 1 .. Len(Commits)
      PROVE  /\ Commits[i].previous = PositionAfter(i - 1)
             /\ Commits[i].previous < Commits[i].position
  BY <1>1 DEF Chained, PositionAfter
<1> QED
  BY <1>2 DEF ChainedTo

\* The declared head of an intact recording is where its chain ends.
LEMMA HeadOnChain == ASSUME AskShape, Intact PROVE OnChain(history.head)
<1>1. Len(Commits) \in Nat /\ Commits \in Seq(Transactions)
  BY HistoryTypes DEF AskShape
<1>2. PositionAfter(Len(Commits)) = history.head
  BY <1>1 DEF Intact, PositionAfter
<1> QED
  BY <1>1, <1>2 DEF OnChain

\* A query starts with nothing replayed.
LEMMA InitReplay == ASSUME Init PROVE ReplayInv
BY DEF Init, ReplayInit, ReplayInv, Fresh, RangeHolds, ReplayHolds, Running

\* A query that is done keeps what holds while it runs.
LEMMA DoneReplay == ASSUME pc' = "done" PROVE ReplayInv'
BY DEF ReplayInv, Fresh, RangeHolds, ReplayHolds, Running

\* A position on the chain that the replay has not reached is ahead of it.
LEMMA AheadOnChain ==
  ASSUME AskShape, Intact, NEW position, OnChain(position),
         NEW n \in 0 .. Len(Commits), n = 0 \/ PositionAfter(n) <= position,
         PositionAfter(n) # position
  PROVE  n + 1 \in 1 .. Len(Commits) /\ PositionAfter(n + 1) <= position
<1>1. history \in Histories /\ Len(Commits) \in Nat
  BY HistoryTypes DEF AskShape
<1>2. PICK j \in 0 .. Len(Commits) : PositionAfter(j) = position
  BY DEF OnChain
<1>3. ChainedTo(Len(Commits)) /\ Len(Commits) \in 0 .. Len(Commits)
  BY <1>1, IntactIsChained
<1>4. ~(j < n)
  <2>1. SUFFICES ASSUME j < n PROVE FALSE
    OBVIOUS
  <2>2. PositionAfter(j) < PositionAfter(n)
    BY <1>1, <1>3, <2>1, Ascending
  <2>3. PositionAfter(n) <= position
    BY <1>1, <1>2, <2>1
  <2>4. PositionAfter(n) \in Nat /\ PositionAfter(j) \in Nat
    BY <1>1, PositionType
  <2> QED
    BY <1>2, <2>2, <2>3, <2>4
<1>5. n + 1 \in 0 .. Len(Commits) /\ n + 1 \in 1 .. Len(Commits) /\ n + 1 <= j
  BY <1>1, <1>2, <1>4
<1>6. CASE n + 1 = j
  BY <1>1, <1>2, <1>5, <1>6, PositionType
<1>7. CASE n + 1 < j
  <2>1. PositionAfter(n + 1) < PositionAfter(j)
    BY <1>1, <1>3, <1>5, <1>7, Ascending
  <2> QED
    BY <1>1, <1>2, <1>5, <2>1, PositionType
<1> QED
  BY <1>1, <1>5, <1>6, <1>7

\* A resolved range runs between recorded positions.
LEMMA ResolveReplay ==
  ASSUME Shape, ReplayInv, Resolve, UNCHANGED <<scan, lineage>> PROVE ReplayInv'
<1> USE DEF Shape
<1>1. CASE pc' = "done"
  BY <1>1, DoneReplay
<1>2. CASE pc' # "done"
  <2>1. /\ Covered(ask.from) /\ Covered(ask.to)
        /\ range' = [from |-> SelectedPosition(ask.from), to |-> SelectedPosition(ask.to)]
        /\ range'.from <= range'.to /\ pc' = "baseline" /\ Replays
        /\ ask' = ask /\ history' = history
    BY <1>2 DEF Resolve, Reject, Replays
  <2>2. lineage' = NoLineage /\ scan' = NotScanned
    BY DEF ReplayInv, Fresh, Resolve
  <2>3. Intact => OnChain(range'.from) /\ OnChain(range'.to)
    BY <2>1, SelectedOnChain, Budgets
  <2>4. (Intact => OnChain(range.from) /\ OnChain(range.to))'
    <3>1. Intact' <=> Intact
      BY <2>1, SameHistory
    <3>2. \A p : OnChain(p)' <=> OnChain(p)
      BY <2>1, SameHistory
    <3>3. /\ OnChain(range.from)' <=> OnChain(range'.from)
          /\ OnChain(range.to)' <=> OnChain(range'.to)
      BY <2>1 DEF OnChain, PositionAfter, Commits
    <3> QED
      BY <2>3, <3>1, <3>3
  <2>5. ask.op = "lineage" => range'.from = history.baseline
    <3>1. ask.op = "lineage" => ask.from.kind = "baseline"
      BY DEF AskShape, Requests
    <3> QED
      BY <2>1, <3>1 DEF SelectedPosition
  <2>6. RangeHolds'
    BY <2>1, <2>2, <2>4, <2>5 DEF RangeHolds, NoLineage
  <2> QED
    BY <2>1, <2>2, <2>6 DEF ReplayInv, Fresh, ReplayHolds, Running
<1> QED
  BY <1>1, <1>2

\* The range stays what it is.
LEMMA SameRange ==
  ASSUME RangeHolds, ask' = ask, history' = history, range' = range, lineage'.pass = lineage.pass,
         pc \notin {"resolve", "done"}
  PROVE  RangeHolds'
BY SameHistory DEF RangeHolds, Replays, OnChain

\* A replay starts at the baseline.
LEMMA LoadBaselineReplay ==
  ASSUME Shape, ReplayInv, LoadBaseline, UNCHANGED <<scan, lineage>>
  PROVE  ReplayInv'
<1> USE DEF Shape
<1>1. CASE pc' = "done"
  BY <1>1, DoneReplay
<1>2. CASE pc' # "done"
  <2> DEFINE state == [position |-> history.baseline, rows |-> history.rows]
  <2>1. /\ Cardinality(Present(history.rows)) = history.rowCount
        /\ Cardinality(Present(history.rows)) <= MaxRows
        /\ Deliver(state, NoRow, 0)
        /\ ask' = ask /\ history' = history /\ range' = range /\ pc = "baseline"
    BY <1>2 DEF LoadBaseline, Give, Reject
  <2>2. Replays /\ replay = NotReplaying /\ Len(Commits) \in Nat
    BY <2>1, CommitsFinite DEF ControlShape, StateShape
  <2>3. history \in Histories /\ history.rows \in Table /\ history.baseline \in Nat
    BY HistoryTypes DEF AskShape
  <2>4. state = StateAfter(0)
    BY <2>3, RowsAfterSteps DEF StateAfter, PositionAfter
  <2>5. /\ replay'.next = 1 /\ replay'.state = state /\ replay'.previous = NoRow
        /\ replay'.commit = 0 /\ replay'.reached = (state.position = range.to)
    BY <2>1, <2>2 DEF Deliver, NotReplaying
  <2>6. Placed'
    <3>1. RowsAfter(0) \in Sized /\ PositionAfter(0) = state.position
      BY <2>1, <2>3, RowsAfterSteps DEF Sized, PositionAfter
    <3>2. /\ \A n : StateAfter(n)' = StateAfter(n)
          /\ \A n : PositionAfter(n)' = PositionAfter(n)
          /\ \A n : RowsAfter(n)' = RowsAfter(n)
          /\ Commits' = Commits
      BY <2>1, SameHistory DEF StateAfter
    <3>3. \A i \in 0 .. 0 : RowsAfter(i)' \in Sized
      BY <3>1, <3>2
    <3>4. ChainedTo(0)'
      BY DEF ChainedTo
    <3> QED
      BY <2>1, <2>4, <2>5, <3>1, <3>2, <3>3, <3>4 DEF Placed, PlacedAt
  <2>7. RangeHolds'
    BY <2>1, SameRange DEF ReplayInv
  <2>8. CASE ResumesAt(state)
    BY <2>1, <2>5, <2>6, <2>7, <2>8
       DEF ReplayInv, Fresh, ReplayHolds, Running, Deliver, ResumesAt
  <2>9. CASE ~ResumesAt(state)
    <3>1. ~(state.position >= range.from) /\ range.from \in Nat /\ range.to \in Nat
      BY <2>9 DEF ResumesAt, ReplayShape
    <3>2. ask.op = "scan"
      BY <2>1, <2>2, <2>3, <3>1 DEF ReplayInv, RangeHolds, Replays
    <3>3. range.from <= range.to
      BY <2>1, <2>2, <3>2 DEF ReplayInv, RangeHolds
    <3>4. state.position # range.to
      BY <2>3, <3>1, <3>3
    <3>5. pc' = "read" /\ ~replay'.reached
      BY <2>1, <2>5, <2>9, <3>4 DEF Deliver, Beyond
    <3> QED
      BY <2>1, <2>6, <2>7, <3>5 DEF ReplayInv, Fresh, ReplayHolds, Running
  <2> QED
    BY <2>8, <2>9
<1> QED
  BY <1>1, <1>2

\* What the next transaction makes of the state the replay is at.
LEMMA NextRows ==
  ASSUME AskShape, ReplayShape, Placed, replay.next <= Len(Commits)
  PROVE  LET n == replay.commit + 1 IN
         /\ n = replay.next /\ n \in 1 .. Len(Commits) /\ n - 1 = replay.commit
         /\ RowsAfter(n) = ApplyEvents(replay.state.rows, Commits[n].events)
         /\ replay.state = StateAfter(n - 1)
         /\ PositionAfter(n) = Commits[n].position
<1> DEFINE n == replay.commit + 1
<1>1. history \in Histories /\ Len(Commits) \in Nat /\ replay.commit \in 0 .. Len(Commits)
  BY HistoryTypes DEF AskShape, ReplayShape
<1>2. n = replay.next /\ n \in 1 .. Len(Commits) /\ n - 1 = replay.commit /\ n # 0
  BY <1>1 DEF Placed, PlacedAt
<1>3. replay.state = StateAfter(n - 1) /\ RowsAfter(n - 1) \in Sized
  BY <1>1, <1>2 DEF Placed, PlacedAt
<1>4. RowsAfter(n - 1) \notin {Broken, TooLarge} /\ replay.state.rows = RowsAfter(n - 1)
  BY <1>3, NoRowAssumption DEF Sized, StateAfter
<1>5. RowsAfter(n) = ApplyEvents(replay.state.rows, Commits[n].events)
  BY <1>1, <1>2, <1>4, RowsAfterSteps
<1> QED
  BY <1>2, <1>3, <1>5 DEF PositionAfter

\* A transaction that is applied takes the replay one along.
LEMMA ReadTransactionReplay ==
  ASSUME Shape, ReplayInv, ReadTransaction, UNCHANGED <<scan, lineage>>
  PROVE  ReplayInv'
<1> USE DEF Shape
<1>1. CASE pc' = "done"
  BY <1>1, DoneReplay
<1>2. CASE pc' # "done"
  <2> DEFINE t == history.transactions[replay.next]
             rows == ApplyEvents(replay.state.rows, t.events)
             state == [position |-> t.position, rows |-> rows]
             n == replay.commit + 1
  <2>1. /\ Extends(t) /\ ~replay.reached /\ rows \notin {Broken, TooLarge}
        /\ Deliver(state, replay.state, replay.next)
        /\ ask' = ask /\ history' = history /\ range' = range /\ pc = "read"
        /\ replay.next <= Len(Commits)
    BY <1>2 DEF ReadTransaction, Give, Reject, Commits
  <2>2. Replays /\ Len(Commits) \in Nat /\ history \in Histories
    BY <2>1, CommitsFinite DEF ControlShape, AskShape
  <2>3. Placed
    BY <2>1 DEF ReplayInv, ReplayHolds, Running
  <2>4. /\ n = replay.next /\ n \in 1 .. Len(Commits) /\ n - 1 = replay.commit
        /\ RowsAfter(n) = rows
        /\ replay.state = StateAfter(n - 1)
        /\ PositionAfter(n) = t.position
    BY <2>1, <2>3, NextRows DEF Commits
  <2>5. replay.commit \in 0 .. Len(Commits) /\ n \in Nat /\ n # 0
    BY <2>2, <2>4 DEF ReplayShape
  <2>6. rows \in Sized
    <3>1. replay.state \in States /\ replay.state.rows \in Sized
      BY <2>1 DEF StateShape, ReplayShape, States
    <3>2. t.events \in Seq(Event)
      BY <2>2, <2>4, HistoryTypes DEF Commits
    <3> QED
      BY <2>1, <3>1, <3>2, ApplyEventsBounded DEF Bounded
  <2>7. state = StateAfter(n)
    BY <2>4 DEF StateAfter
  <2>8. /\ replay'.next = n + 1 /\ replay'.state = state /\ replay'.previous = replay.state
        /\ replay'.commit = n /\ replay'.reached = (t.position = range.to)
    <3>1. replay' = [replay EXCEPT !.state = state, !.previous = replay.state,
                                   !.commit = replay.next,
                                   !.reached = state.position = range.to,
                                   !.next = @ + IF replay.next = 0 THEN 0 ELSE 1]
      BY <2>1 DEF Deliver
    <3> HIDE DEF n
    <3> QED
      BY <2>4, <2>5, <3>1 DEF ReplayShape
  <2> HIDE DEF n, t, rows
  <2>9. PlacedAt(replay.commit)
    BY <2>3 DEF Placed
  <2>10. ChainedTo(n)
    <3>1. Commits[n].previous < Commits[n].position /\ Commits[n].previous = PositionAfter(n - 1)
      BY <2>1, <2>4 DEF Extends, StateAfter, t, Commits
    <3>2. ASSUME NEW i \in 1 .. n
          PROVE  /\ Commits[i].previous = PositionAfter(i - 1)
                 /\ Commits[i].previous < Commits[i].position
      <4>1. CASE i = n
        BY <3>1, <4>1
      <4>2. CASE i \in 1 .. replay.commit
        BY <2>9, <4>2 DEF PlacedAt, ChainedTo
      <4> QED
        BY <2>4, <2>5, <4>1, <4>2
    <3> QED
      BY <3>2 DEF ChainedTo
  <2>11. \A i \in 0 .. n : RowsAfter(i) \in Sized
    <3>1. ASSUME NEW i \in 0 .. n PROVE RowsAfter(i) \in Sized
      <4>1. CASE i = n
        BY <2>4, <2>6, <4>1
      <4>2. CASE i \in 0 .. replay.commit
        BY <2>9, <4>2 DEF PlacedAt
      <4> QED
        BY <2>4, <2>5, <4>1, <4>2
    <3> QED
      BY <3>1
  <2>12. t.position <= range.to
    BY <2>1 DEF Extends
  <2>13. Placed'
    <3>1. /\ \A m : StateAfter(m)' = StateAfter(m)
          /\ \A m : PositionAfter(m)' = PositionAfter(m)
          /\ \A m : RowsAfter(m)' = RowsAfter(m)
          /\ \A m : ChainedTo(m)' <=> ChainedTo(m)
      BY <2>1, SameHistory DEF StateAfter
    <3> QED
      BY <2>1, <2>4, <2>5, <2>7, <2>8, <2>10, <2>11, <2>12, <3>1 DEF Placed, PlacedAt
  <2>14. RangeHolds'
    BY <2>1, SameRange DEF ReplayInv
  <2>15. CASE ResumesAt(state)
    BY <2>1, <2>8, <2>13, <2>14, <2>15
       DEF ReplayInv, Fresh, ReplayHolds, Running, Deliver, ResumesAt
  <2>16. CASE ~ResumesAt(state)
    <3>1. ~(t.position >= range.from) /\ range.from \in Nat /\ range.to \in Nat
      BY <2>16 DEF ResumesAt, ReplayShape
    <3>2. t.position \in Nat
      BY <2>2, <2>4, PositionType
    <3>3. ask.op = "scan"
      <4>1. PositionAfter(0) < PositionAfter(n) /\ PositionAfter(0) = history.baseline
        BY <2>2, <2>4, <2>5, <2>10, Ascending DEF PositionAfter
      <4>2. history.baseline \in Nat
        BY <2>2, HistoryTypes
      <4> QED
        BY <2>1, <2>2, <2>4, <3>1, <3>2, <4>1, <4>2 DEF ReplayInv, RangeHolds, Replays
    <3>4. range.from <= range.to
      BY <2>1, <2>2, <3>3 DEF ReplayInv, RangeHolds
    <3>5. t.position # range.to
      BY <3>1, <3>2, <3>4
    <3>6. pc' = "read" /\ ~replay'.reached
      BY <2>1, <2>8, <2>16, <3>5 DEF Deliver, Beyond
    <3> QED
      BY <2>1, <2>13, <2>14, <3>6 DEF ReplayInv, Fresh, ReplayHolds, Running
  <2> QED
    BY <2>15, <2>16
<1> QED
  BY <1>1, <1>2

\* Where the replay is, and whether that is the end of its range.
LEMMA ReachedIs ==
  ASSUME ReplayShape, Placed
  PROVE  /\ replay.reached <=> replay.state.position = range.to
         /\ replay.state.position = PositionAfter(replay.commit)
         /\ replay.state.rows = RowsAfter(replay.commit)
<1>1. replay.reached \in BOOLEAN
  BY DEF ReplayShape
<1>2. /\ replay.state = StateAfter(replay.commit)
      /\ replay.reached = (PositionAfter(replay.commit) = range.to)
  BY DEF Placed, PlacedAt
<1>3. replay.state.position = PositionAfter(replay.commit)
  BY <1>2 DEF StateAfter
<1>4. replay.state.rows = RowsAfter(replay.commit)
  BY <1>2 DEF StateAfter
<1>5. replay.reached <=> PositionAfter(replay.commit) = range.to
  BY <1>1, <1>2, Zenon
<1> QED
  BY <1>3, <1>4, <1>5

\* A replay that ends at the declared head has seen the whole of an intact recording.
LEMMA EndIsIntact ==
  ASSUME Shape, ReplayHolds, pc = "read", replay.next > Len(Commits), ~history.stalls, Accounted,
         Full
  PROVE  Intact
<1> USE DEF Shape
<1> DEFINE n == replay.commit
<1>1. history \in Histories /\ Len(Commits) \in Nat /\ Commits \in Seq(Transactions)
  BY HistoryTypes DEF AskShape
<1>2. PlacedAt(n) /\ Cardinality(Present(history.rows)) = history.rowCount
  BY DEF ReplayHolds, Running, Placed
<1>3. n \in 0 .. Len(Commits) /\ n = Len(Commits)
  BY <1>1, <1>2 DEF PlacedAt, ReplayShape
<1>4. Len(Commits) = history.count /\ PositionAfter(n) = history.head
  <2>1. replay.reached /\ replay.next - 1 = history.count /\ range.to = history.head
    BY DEF Accounted, Full
  <2>2. replay.next = n + 1 /\ replay.reached = (PositionAfter(n) = range.to)
    BY <1>2 DEF PlacedAt
  <2>3. replay.reached \in BOOLEAN
    BY DEF ReplayShape
  <2>4. PositionAfter(n) = range.to
    BY <2>1, <2>2, <2>3
  <2> QED
    BY <1>1, <1>3, <2>1, <2>2, <2>4
<1>5. ChainedTo(Len(Commits))
  BY <1>2, <1>3 DEF PlacedAt
<1>6. Chained
  <2>1. ASSUME NEW i \in 1 .. Len(Commits)
        PROVE  /\ Commits[i].previous = IF i = 1 THEN history.baseline ELSE Commits[i - 1].position
               /\ Commits[i].previous < Commits[i].position
    BY <1>1, <1>5 DEF ChainedTo, PositionAfter
  <2> QED
    BY <1>1, <2>1 DEF Chained
<1>7. history.head = IF Commits = << >> THEN history.baseline ELSE Commits[Len(Commits)].position
  BY <1>1, <1>3, <1>4 DEF PositionAfter
<1>8. RowsAfter(Len(Commits)) # Broken
  BY <1>1, <1>2, <1>3, NoRowAssumption DEF PlacedAt, Sized
<1> QED
  BY <1>2, <1>4, <1>6, <1>7, <1>8 DEF Intact

\* A replay ends where it was.
LEMMA EndReplay ==
  ASSUME Shape, ReplayInv, StalledPage \/ EndOfHistory, UNCHANGED <<scan, lineage>>
  PROVE  ReplayInv'
<1> USE DEF Shape
<1>1. CASE pc' = "done"
  BY <1>1, DoneReplay
<1>2. CASE pc' # "done"
  <2>1. /\ EndOfHistory /\ Accounted /\ pc' = "finish" /\ pc = "read" /\ ~history.stalls
        /\ replay.next > Len(Commits)
        /\ ask' = ask /\ history' = history /\ range' = range /\ replay' = replay
    BY <1>2 DEF StalledPage, RefuseStalledPage, EndOfHistory, Give, Reject, Commits
  <2>2. RangeHolds'
    BY <2>1, SameRange DEF ReplayInv
  <2>3. Placed' /\ (Intact' <=> Intact) /\ (Full' <=> Full)
    BY <2>1, SamePlace, SameHistory DEF ReplayInv, ReplayHolds, Running, Full
  <2>4. replay'.reached
    BY <2>1 DEF Accounted
  <2>5. (Full => Intact)'
    BY <2>1, <2>3, EndIsIntact DEF ReplayInv
  <2>6. Cardinality(Present(history.rows)) = history.rowCount
    BY <2>1 DEF ReplayInv, ReplayHolds, Running
  <2> QED
    BY <2>1, <2>2, <2>3, <2>4, <2>5, <2>6 DEF ReplayInv, Fresh, ReplayHolds, Running
<1> QED
  BY <1>1, <1>2

\* An evaluated state is left where Beyond says.
LEMMA ScanReplay ==
  ASSUME Shape, ReplayInv, ScanStep, UNCHANGED <<lineage, merge>>
  PROVE  ReplayInv'
<1> USE DEF Shape
<1>1. CASE pc' = "done"
  BY <1>1, DoneReplay
<1>2. CASE pc' # "done"
  <2>1. /\ Evaluate /\ pc = "consume" /\ ask.op = "scan"
        /\ pc' = IF MustReport THEN "report" ELSE Beyond(replay.state)
        /\ ask' = ask /\ history' = history /\ range' = range /\ replay' = replay
        /\ lineage' = lineage
    BY <1>2 DEF ScanStep, EvaluationHalted, EvaluationRefused, QueryFails, Evaluate, MayEvaluate,
                Report, Clear, Give, Reject
  <2>2. RangeHolds'
    BY <2>1, SameRange DEF ReplayInv
  <2>3. Placed /\ ResumesAt(replay.state) /\ Cardinality(Present(history.rows)) = history.rowCount
    BY <2>1 DEF ReplayInv, ReplayHolds, Running
  <2>4. Placed' /\ (Full' <=> Full) /\ ResumesAt(replay.state)'
    BY <2>1, <2>3, SamePlace DEF Full, ResumesAt
  <2>5. pc' \in {"report", "read", "finish"}
    BY <2>1 DEF Beyond
  <2>6. replay.reached <=> replay.state.position = range.to
    BY <2>3, ReachedIs
  <2>7. pc' = "read" /\ replay.reached => Full
    BY <2>1, <2>6 DEF Beyond
  <2>8. pc' = "finish" => replay.reached /\ ~Full
    BY <2>1, <2>6 DEF Beyond
  <2> HIDE DEF Shape
  <2>9. Fresh'
    BY <2>5 DEF Fresh
  <2>10. ReplayHolds'
    BY <2>1, <2>3, <2>4, <2>5, <2>7, <2>8 DEF ReplayHolds
  <2> QED
    BY <2>2, <2>9, <2>10 DEF ReplayInv
<1> QED
  BY <1>1, <1>2

\* What FollowRow keeps of what it knew.
LEMMA FollowEventKeeps ==
  ASSUME NEW l \in Lineages, NEW i, NEW event
  PROVE  /\ FollowEvent(l, i, event).pass = l.pass
         /\ FollowEvent(l, i, event).anchor = l.anchor
         /\ FollowEvent(l, i, event).origin = l.origin
         /\ FollowEvent(l, i, event).anchored = l.anchored
BY DEF FollowEvent, Lineages

\* Nor do the events of a transaction change it.
LEMMA FollowedInKeeps ==
  ASSUME AskShape, NEW l \in Lineages, NEW events \in Seq(Event), replay.commit \in Nat,
         NEW n \in 0 .. Len(events)
  PROVE  /\ FollowedIn(l, events, n).pass = l.pass
         /\ FollowedIn(l, events, n).anchor = l.anchor
         /\ FollowedIn(l, events, n).origin = l.origin
         /\ FollowedIn(l, events, n).anchored = l.anchored
<1> DEFINE f(i) == FollowedIn(l, events, i)
           T == {i \in Nat : i <= Len(events) =>
                   /\ f(i).pass = l.pass /\ f(i).anchor = l.anchor
                   /\ f(i).origin = l.origin /\ f(i).anchored = l.anchored}
<1>1. 0 \in T
  BY FollowedInSteps
<1>2. ASSUME NEW i \in Nat, i \in T PROVE i + 1 \in T
  <2>1. SUFFICES ASSUME i + 1 <= Len(events)
                 PROVE  /\ f(i + 1).pass = l.pass /\ f(i + 1).anchor = l.anchor
                        /\ f(i + 1).origin = l.origin /\ f(i + 1).anchored = l.anchored
    OBVIOUS
  <2>2. i + 1 \in 1 .. Len(events) /\ i + 1 - 1 = i /\ i \in 0 .. Len(events)
    BY <2>1
  <2>3. f(i + 1) = FollowEvent(f(i), i + 1, events[i + 1]) /\ f(i) \in Lineages
    BY <2>2, FollowedInSteps
  <2> QED
    BY <1>2, <2>1, <2>3, FollowEventKeeps
<1> HIDE DEF T
<1>3. n \in T
  BY <1>1, <1>2, Induction
<1> QED
  BY <1>3 DEF T

\* Nor does the row of the baseline.
LEMMA FollowBaselineKeeps ==
  ASSUME lineage \in Lineages
  PROVE  /\ FollowBaseline(lineage).pass = lineage.pass
         /\ FollowBaseline(lineage).anchor = lineage.anchor
         /\ FollowBaseline(lineage).origin = lineage.origin
         /\ FollowBaseline(lineage).anchored = lineage.anchored
BY DEF FollowBaseline, Lineages

\* What the second pass knows after one more state.
FollowedRow == FollowEvents(FollowBaseline(lineage), CommitEvents)

\* Nor does a whole state.
LEMMA FollowedRowKeeps ==
  ASSUME Shape, Following, lineage.pass = 2, OriginHolds
  PROVE  /\ FollowedRow \in Lineages
         /\ FollowedRow.pass = lineage.pass
         /\ FollowedRow.anchor = lineage.anchor
         /\ FollowedRow.origin = lineage.origin
         /\ FollowedRow.anchored = lineage.anchored
<1> USE DEF Shape
<1> DEFINE b == FollowBaseline(lineage)
<1>1. b \in Lineages
  BY FollowBaselineType
<1>2. /\ b.pass = lineage.pass /\ b.anchor = lineage.anchor /\ b.origin = lineage.origin
      /\ b.anchored = lineage.anchored
  BY FollowBaselineKeeps DEF LineageShape
<1>3. CommitEvents \in Seq(Event) /\ replay.commit \in Nat
  BY CommitEventsType
<1>4. FollowedRow = FollowedIn(b, CommitEvents, Len(CommitEvents))
  BY FollowEventsIsFollowedIn DEF FollowedRow
<1>5. Len(CommitEvents) \in 0 .. Len(CommitEvents)
  BY <1>3
<1> HIDE DEF b
<1>6. FollowedIn(b, CommitEvents, Len(CommitEvents)) \in Lineages
  BY <1>1, <1>3, <1>5, FollowedInSteps
<1> QED
  BY <1>1, <1>2, <1>3, <1>4, <1>5, <1>6, FollowedInKeeps

\* The moves of a row history.
LEMMA LineageMoves ==
  ASSUME Shape, LineageStep, pc' # "done"
  PROVE  /\ ask' = ask /\ history' = history /\ ask.op = "lineage" /\ pc = "consume"
         /\ outcome' = outcome
         /\ \/ /\ TraceOrigin /\ lineage.pass = 1 /\ replay.state.position # range.to
               /\ lineage' = [lineage EXCEPT !.origins =
                                OriginsAfter(lineage.origins, replay.commit, CommitEvents)]
               /\ pc' = "read" /\ replay' = replay /\ range' = range
            \/ /\ TraceOrigin /\ lineage.pass = 1 /\ replay.state.position = range.to
               /\ replay.state.rows[ask.key] # NoRow
               /\ lineage' = [lineage EXCEPT
                                !.pass = 2, !.anchor = range.to, !.origins = NoLineage.origins,
                                !.origin = OriginAt(OriginsAfter(lineage.origins, replay.commit,
                                                                 CommitEvents), ask.key)]
               /\ range' = [range EXCEPT !.to = history.head]
               /\ pc' = "baseline" /\ replay' = NotReplaying
            \/ /\ FollowRow /\ lineage.pass = 2 /\ OriginHolds /\ ~FollowedRow.page.over
               /\ lineage' = [FollowedRow EXCEPT !.anchored =
                                @ \/ replay.state.position = lineage.anchor]
               /\ pc' = "read" /\ replay' = replay /\ range' = range
<1>1. /\ (TraceOrigin \/ FollowRow) /\ ask' = ask /\ history' = history
  BY DEF LineageStep, LineageHalted, OriginRefused, TraceOrigin, FollowRow, LineageEnds, Reject
<1>2. CASE TraceOrigin
  BY <1>2 DEF TraceOrigin, MayFollow, Following, Reject
<1>3. CASE FollowRow
  BY <1>3 DEF FollowRow, MayFollow, Following, Reject, FollowedRow
<1> QED
  BY <1>1, <1>2, <1>3

\* A row history's steps leave the replay where it is, or start it over.
LEMMA LineageReplay ==
  ASSUME Shape, ReplayInv, LineageStep, UNCHANGED <<scan, merge>>
  PROVE  ReplayInv'
<1>1. CASE pc' = "done"
  BY <1>1, DoneReplay
<1>2. CASE pc' # "done"
  <2>1. /\ ask' = ask /\ history' = history /\ ask.op = "lineage" /\ pc = "consume"
        /\ outcome' = outcome
    BY <1>2, LineageMoves
  <2>2. /\ Placed /\ Cardinality(Present(history.rows)) = history.rowCount
        /\ range.from = history.baseline
        /\ lineage.pass = 2 => range.to = history.head
        /\ Intact => OnChain(range.from) /\ OnChain(range.to)
    BY <2>1 DEF ReplayInv, ReplayHolds, RangeHolds, Running, Replays
  <2>3. replay.reached <=> replay.state.position = range.to
    BY <2>2, ReachedIs DEF Shape
  <2>4. lineage \in Lineages /\ AskShape
    BY DEF Shape, LineageShape
  <2>5. CASE /\ replay.state.position # range.to
             /\ lineage' = [lineage EXCEPT !.origins =
                              OriginsAfter(lineage.origins, replay.commit, CommitEvents)]
             /\ pc' = "read" /\ replay' = replay /\ range' = range
    <3>1. lineage'.pass = lineage.pass
      BY <2>4, <2>5 DEF Lineages
    <3>2. RangeHolds'
      BY <2>1, <2>5, <3>1, SameRange DEF ReplayInv
    <3>3. Placed'
      BY <2>1, <2>2, <2>5, SamePlace
    <3> QED
      BY <2>1, <2>2, <2>3, <2>5, <3>2, <3>3 DEF ReplayInv, Fresh, ReplayHolds, Running
  <2>6. CASE /\ lineage' = [lineage EXCEPT
                              !.pass = 2, !.anchor = range.to, !.origins = NoLineage.origins,
                              !.origin = OriginAt(OriginsAfter(lineage.origins, replay.commit,
                                                               CommitEvents), ask.key)]
             /\ range' = [range EXCEPT !.to = history.head]
             /\ pc' = "baseline" /\ replay' = NotReplaying
    <3>1. range'.from = history.baseline /\ range'.to = history.head
      BY <2>2, <2>6 DEF Shape, ReplayShape
    <3>2. Intact => OnChain(range'.from) /\ OnChain(range'.to)
      BY <2>2, <2>4, <3>1, HeadOnChain
    <3>3. (Intact => OnChain(range.from) /\ OnChain(range.to))'
      <4>1. Intact' <=> Intact
        BY <2>1, SameHistory
      <4>2. /\ OnChain(range.from)' <=> OnChain(range'.from)
            /\ OnChain(range.to)' <=> OnChain(range'.to)
        BY <2>1 DEF OnChain, PositionAfter, Commits
      <4> QED
        BY <3>2, <4>1, <4>2
    <3>4. RangeHolds'
      BY <2>1, <2>6, <3>1, <3>3 DEF RangeHolds
    <3> QED
      BY <2>1, <2>6, <3>4 DEF ReplayInv, Fresh, ReplayHolds, Running
  <2>7. CASE /\ lineage.pass = 2 /\ FollowRow /\ OriginHolds
             /\ lineage' = [FollowedRow EXCEPT !.anchored =
                              @ \/ replay.state.position = lineage.anchor]
             /\ pc' = "read" /\ replay' = replay /\ range' = range
    <3>1. FollowedRow \in Lineages /\ FollowedRow.pass = lineage.pass
      BY <2>7, FollowedRowKeeps DEF FollowRow, MayFollow
    <3>2. lineage'.pass = lineage.pass
      BY <2>7, <3>1 DEF Lineages
    <3>3. RangeHolds'
      BY <2>1, <2>7, <3>2, SameRange DEF ReplayInv
    <3>4. Placed'
      BY <2>1, <2>2, <2>7, SamePlace
    <3>5. Full'
      BY <2>1, <2>2, <2>7 DEF Full
    <3> QED
      BY <2>1, <2>2, <2>7, <3>3, <3>4, <3>5 DEF ReplayInv, Fresh, ReplayHolds, Running
  <2> QED
    BY <1>2, <2>5, <2>6, <2>7, LineageMoves
<1> QED
  BY <1>1, <1>2

\* A replay is where its counters say: the state it hands on is that of the first
\* so many transactions, each of which follows the one before it and fits, the
\* range is one of recorded positions, and to end at the declared head is to have
\* seen an intact recording.
THEOREM ReplayIsFaithful == Spec => []ReplayInv
<1>1. Init => ReplayInv
  BY InitReplay
<1>2. Shape /\ ReplayInv /\ [Next]_vars => ReplayInv'
  <2> SUFFICES ASSUME Shape, ReplayInv, [Next]_vars PROVE ReplayInv'
    OBVIOUS
  <2>1. ASSUME UNCHANGED <<ask, history, pc, range, replay, scan, lineage, merge>>
        PROVE  ReplayInv'
    <3>1. (Placed' <=> Placed) /\ (Full' <=> Full) /\ (Intact' <=> Intact)
          /\ \A s : ResumesAt(s)' <=> ResumesAt(s)
      BY <2>1, SamePlace, SameHistory DEF Full, ResumesAt
    <3>2. RangeHolds'
      BY <2>1, SameHistory DEF ReplayInv, RangeHolds, Replays, OnChain
    <3>3. Fresh'
      BY <2>1 DEF ReplayInv, Fresh, NoLineage, NotScanned, NotMerging
    <3>4. ReplayHolds'
      BY <2>1, <3>1 DEF ReplayInv, ReplayHolds, ResumesAt
    <3> QED
      BY <3>2, <3>3, <3>4 DEF ReplayInv
  <2>2. CASE UNCHANGED vars
    BY <2>1, <2>2 DEF vars
  <2>3. CASE CallerStep
    BY <2>1, <2>3 DEF CallerStep, Cancel, Expire
  <2>4. CASE ReplayStep
    BY <2>4, ResolveReplay, LoadBaselineReplay, ReadTransactionReplay, EndReplay DEF ReplayStep
  <2>5. CASE ScanStep /\ UNCHANGED <<lineage, merge>>
    BY <2>5, ScanReplay
  <2>6. CASE LineageStep /\ UNCHANGED <<scan, merge>>
    BY <2>6, LineageReplay
  <2>7. CASE ComparisonStep /\ UNCHANGED <<scan, lineage>>
    <3>1. ~Replays /\ ask' = ask
      BY <2>7 DEF ComparisonStep, StartComparison, MergeRow, MergeEnds, Merging, ListRow, ListEnds,
                  Listing, Replays
    <3>2. pc' \in {"merge", "done"}
      BY <2>7 DEF ComparisonStep, StartComparison, MergeRow, MergeEnds, Merging, ListRow, ListEnds,
                  Listing, Reject
    <3> QED
      BY <3>1, <3>2 DEF ReplayInv, Fresh, RangeHolds, ReplayHolds, Running, Replays
  <2> QED
    BY <2>2, <2>3, <2>4, <2>5, <2>6, <2>7 DEF Next, Answering
<1> QED
  BY <1>1, <1>2, ShapeHolds, PTL DEF Spec

--------------------------------------------------------------------------
(* Invariant scans.                                                        *)

\* The states of the range among the first ones.
Evaluated(n) == {m \in 0 .. n : InRange(m)}

\* All of them were evaluated, and the last one is remembered.
Seen(n) ==
  /\ scan.evaluated = Cardinality(Evaluated(n))
  /\ scan.last = IF scan.evaluated = 0 THEN NoRow ELSE PositionAfter(n)

\* None of them broke the invariant.
NoneBad(n) == \A m \in 0 .. n : InRange(m) => ~BadAfter(m)

\* A state is put to the query once, in order, and the scan goes on only from
\* states that hold.
ScanHolds ==
  ask.op = "scan" =>
    /\ pc = "consume" => Seen(replay.commit - 1) /\ NoneBad(replay.commit - 1)
    /\ pc \in {"read", "finish"} => Seen(replay.commit) /\ NoneBad(replay.commit)
    /\ pc = "report" => /\ Seen(replay.commit) /\ NoneBad(replay.commit - 1)
                        /\ InRange(replay.commit) /\ BadAfter(replay.commit)

ScanAnswers == FirstViolationReported /\ ClearIsComplete /\ IncompleteIsHonest

ScanInv == ScanHolds /\ ScanAnswers

\* What is said of the states of a range does not change.
LEMMA SameScan ==
  ASSUME history' = history, range' = range
  PROVE  /\ \A n : InRange(n)' <=> InRange(n)
         /\ \A n : BadAfter(n)' <=> BadAfter(n)
         /\ \A n : NoneBad(n)' <=> NoneBad(n)
         /\ \A n : Evaluated(n)' = Evaluated(n)
         /\ \A p : CommitsTo(p)' = CommitsTo(p)
<1>1. \A n : InRange(n)' <=> InRange(n)
  BY SameHistory DEF InRange
<1>2. \A n : BadAfter(n)' <=> BadAfter(n)
  BY SameHistory DEF BadAfter
<1>3. \A n : NoneBad(n)' <=> NoneBad(n)
  BY <1>1, <1>2 DEF NoneBad
<1>4. \A n : Evaluated(n)' = Evaluated(n)
  BY DEF Evaluated, InRange, PositionAfter, Commits
<1>5. \A p : CommitsTo(p)' = CommitsTo(p)
  BY DEF CommitsTo, PositionAfter, Commits
<1> QED
  BY <1>1, <1>2, <1>3, <1>4, <1>5

\* Nor what was seen of them.
LEMMA SameSeen ==
  ASSUME history' = history, range' = range, scan' = scan
  PROVE  \A n : Seen(n)' <=> Seen(n)
BY SameScan, SameHistory DEF Seen

\* One more state in the range, or out of it.
LEMMA EvaluatedFinite ==
  ASSUME NEW n \in Int
  PROVE  IsFiniteSet(Evaluated(n)) /\ Cardinality(Evaluated(n)) \in Nat
<1>1. IsFiniteSet(0 .. n)
  BY FS_Interval
<1>2. Evaluated(n) \subseteq 0 .. n
  BY DEF Evaluated
<1> QED
  BY <1>1, <1>2, FS_Subset, FS_CardinalityType

\* One more state in the range counts one more, and one outside none.
LEMMA EvaluatedStep ==
  ASSUME NEW n \in Nat
  PROVE  /\ InRange(n) => Cardinality(Evaluated(n)) = Cardinality(Evaluated(n - 1)) + 1
         /\ ~InRange(n) => Evaluated(n) = Evaluated(n - 1)
<1>1. n - 1 \in Int /\ n \notin Evaluated(n - 1)
  BY DEF Evaluated
<1>2. InRange(n) => Evaluated(n) = Evaluated(n - 1) \union {n}
  BY DEF Evaluated
<1>3. ~InRange(n) => Evaluated(n) = Evaluated(n - 1)
  BY DEF Evaluated
<1>4. Cardinality(Evaluated(n - 1) \union {n}) = Cardinality(Evaluated(n - 1)) + 1
  BY <1>1, EvaluatedFinite, FS_AddElement
<1> QED
  BY <1>2, <1>3, <1>4

\* None were evaluated when none are counted.
LEMMA NoneEvaluated ==
  ASSUME NEW n \in Int
  PROVE  Cardinality(Evaluated(n)) = 0 <=> Evaluated(n) = {}
BY EvaluatedFinite, FS_EmptySet

\* Before the first state nothing was evaluated.
LEMMA NothingBefore ==
  /\ Cardinality(Evaluated(0 - 1)) = 0
  /\ NoneBad(0 - 1)
<1>1. Evaluated(0 - 1) = {}
  BY DEF Evaluated
<1> QED
  BY <1>1, FS_EmptySet DEF NoneBad

\* One more state that holds.
LEMMA NoneBadStep ==
  ASSUME NEW n \in Nat, NoneBad(n - 1), InRange(n) => ~BadAfter(n)
  PROVE  NoneBad(n)
<1>1. \A m \in 0 .. n : m = n \/ m \in 0 .. n - 1
  OBVIOUS
<1> QED
  BY <1>1 DEF NoneBad

\* Once a state of the range was evaluated the range goes on.
LEMMA RangeGoesOn ==
  ASSUME AskShape, ReplayShape, NEW n \in 1 .. Len(Commits), ChainedTo(n), Evaluated(n - 1) # {}
  PROVE  PositionAfter(n) >= range.from
<1>1. history \in Histories /\ Len(Commits) \in Nat /\ range.from \in Nat
  BY HistoryTypes DEF AskShape, ReplayShape
<1>2. PICK m \in 0 .. n - 1 : PositionAfter(m) >= range.from
  BY DEF Evaluated, InRange
<1>3. m \in 0 .. n /\ n \in 0 .. n /\ m < n /\ n \in 0 .. Len(Commits) /\ m \in 0 .. Len(Commits)
  BY <1>1
<1>4. PositionAfter(m) < PositionAfter(n)
  BY <1>1, <1>3, Ascending
<1>5. PositionAfter(m) \in Nat /\ PositionAfter(n) \in Nat
  BY <1>1, <1>3, PositionType
<1> QED
  BY <1>1, <1>2, <1>4, <1>5

\* The next state, handed on or passed over.
LEMMA DeliveredScan ==
  ASSUME Shape, Shape', ReplayInv', ask.op = "scan", NEW n \in 0 .. Len(Commits),
         Seen(n - 1), NoneBad(n - 1), scan' = scan, range' = range, history' = history, ask' = ask,
         replay'.commit = n, pc' \in {"read", "consume"},
         pc' = "read" => ~(PositionAfter(n) >= range.from)
  PROVE  ScanHolds'
<1> USE DEF Shape
<1>1. n \in Nat /\ n - 1 \in Int /\ Len(Commits) \in Nat
  BY CommitsFinite
<1>2. /\ \A m : Seen(m)' <=> Seen(m)
      /\ \A m : NoneBad(m)' <=> NoneBad(m)
  BY SameScan, SameSeen
<1>3. CASE pc' = "consume"
  <2>1. Seen(n - 1)' /\ NoneBad(n - 1)'
    BY <1>2
  <2>2. /\ Seen(n - 1)' <=> Seen(replay.commit - 1)'
        /\ NoneBad(n - 1)' <=> NoneBad(replay.commit - 1)'
    BY DEF Seen, NoneBad
  <2> QED
    BY <1>3, <2>1, <2>2 DEF ScanHolds
<1>4. CASE pc' = "read"
  <2>1. ~InRange(n)
    BY <1>4 DEF InRange
  <2>2. Evaluated(n) = Evaluated(n - 1)
    BY <1>1, <2>1, EvaluatedStep
  <2>3. scan.evaluated = 0
    <3>1. SUFFICES ASSUME Evaluated(n - 1) # {} PROVE FALSE
      BY <1>1, NoneEvaluated DEF Seen
    <3>2. n # 0
      BY <1>1, <3>1 DEF Evaluated
    <3>3. ChainedTo(n)
      <4>1. PlacedAt(replay.commit)'
        BY <1>4 DEF ReplayInv, ReplayHolds, Running, Placed
      <4>2. ChainedTo(n)'
        BY <4>1 DEF PlacedAt, ChainedTo
      <4> QED
        BY <4>2, SameHistory
    <3> QED
      BY <1>1, <1>4, <3>1, <3>2, <3>3, RangeGoesOn
  <2>4. Seen(n)
    BY <2>2, <2>3 DEF Seen
  <2>5. NoneBad(n)
    BY <1>1, <2>1, NoneBadStep
  <2>6. Seen(n)' /\ NoneBad(n)'
    BY <1>2, <2>4, <2>5
  <2>7. (Seen(n)' <=> Seen(replay.commit)') /\ (NoneBad(n)' <=> NoneBad(replay.commit)')
    BY DEF Seen, NoneBad
  <2> QED
    BY <1>4, <2>6, <2>7 DEF ScanHolds
<1> QED
  BY <1>3, <1>4

\* A baseline or a transaction that is handed on.
LEMMA DeliverMoves ==
  ASSUME Shape, ReplayInv, LoadBaseline \/ ReadTransaction, pc' # "done"
  PROVE  /\ ask' = ask /\ history' = history /\ range' = range /\ outcome' = outcome
         /\ pc' \in {"read", "consume"} \/ ask.op = "lineage"
         /\ \/ LoadBaseline /\ replay'.commit = 0 /\ pc = "baseline"
            \/ /\ ReadTransaction /\ pc = "read" /\ replay'.commit = replay.commit + 1
               /\ replay'.commit \in 1 .. Len(Commits)
         /\ pc' = "consume" \/ ~(PositionAfter(replay'.commit) >= range.from)
<1> USE DEF Shape
<1>1. CASE LoadBaseline
  <2>1. /\ Deliver([position |-> history.baseline, rows |-> history.rows], NoRow, 0)
        /\ ask' = ask /\ history' = history /\ range' = range /\ pc = "baseline"
    BY <1>1 DEF LoadBaseline, Give, Reject
  <2>2. replay'.commit = 0
    BY <2>1 DEF Deliver, ReplayShape
  <2>3. pc' = "consume" \/ ~(history.baseline >= range.from)
    BY <2>1 DEF Deliver, ResumesAt
  <2>4. outcome' = outcome /\ pc' \in {"read", "consume", "finish"}
    BY <2>1 DEF Deliver, Beyond
  <2> DEFINE state == [position |-> history.baseline, rows |-> history.rows]
  <2>5. pc' # "finish" \/ ask.op = "lineage"
    <3>1. SUFFICES ASSUME pc' = "finish", ask.op # "lineage" PROVE FALSE
      OBVIOUS
    <3>2. state.position = range.to /\ ~(state.position >= range.from)
      BY <2>1, <3>1 DEF Deliver, Beyond, ResumesAt
    <3>3. range.from <= range.to /\ range.from \in Nat /\ range.to \in Nat
      BY <2>1, <3>1 DEF ReplayInv, RangeHolds, ControlShape, Replays, ReplayShape
    <3> QED
      BY <3>2, <3>3
  <2> QED
    BY <1>1, <2>1, <2>2, <2>3, <2>4, <2>5 DEF PositionAfter
<1>2. CASE ReadTransaction
  <2> DEFINE t == history.transactions[replay.next]
             state == [position |-> t.position, rows |-> ApplyEvents(replay.state.rows, t.events)]
  <2>1. /\ Deliver(state, replay.state, replay.next)
        /\ ask' = ask /\ history' = history /\ range' = range /\ pc = "read"
        /\ replay.next <= Len(Commits)
    BY <1>2, Zenon DEF ReadTransaction, Give, Reject, Commits
  <2>2. replay'.commit = replay.next
    BY <2>1 DEF Deliver, ReplayShape
  <2>3. Placed
    BY <2>1 DEF ReplayInv, ReplayHolds, Running
  <2>4. /\ replay.next = replay.commit + 1 /\ replay.next \in 1 .. Len(Commits)
        /\ PositionAfter(replay.next) = t.position
    BY <2>1, <2>3, NextRows DEF Commits
  <2>5. state.position = t.position
    OBVIOUS
  <2> HIDE DEF state, t
  <2>6. pc' = "consume" \/ ~(t.position >= range.from)
    BY <2>1, <2>5 DEF Deliver, ResumesAt
  <2>7. outcome' = outcome /\ pc' \in {"read", "consume", "finish"}
    BY <2>1 DEF Deliver, Beyond
  <2>8. pc' # "finish" \/ ask.op = "lineage"
    <3>1. SUFFICES ASSUME pc' = "finish", ask.op # "lineage" PROVE FALSE
      OBVIOUS
    <3>2. state.position = range.to /\ ~(state.position >= range.from)
      BY <2>1, <3>1 DEF Deliver, Beyond, ResumesAt
    <3>3. range.from <= range.to /\ range.from \in Nat /\ range.to \in Nat
      BY <2>1, <3>1 DEF ReplayInv, RangeHolds, ControlShape, Replays, ReplayShape
    <3> QED
      BY <3>2, <3>3
  <2> QED
    BY <1>2, <2>1, <2>2, <2>4, <2>6, <2>7, <2>8
<1> QED
  BY <1>1, <1>2

\* An answer that is not a scan's.
LEMMA OtherAnswers ==
  ASSUME outcome'.kind \notin {"violation", "clear", "incomplete"} PROVE ScanAnswers'
BY DEF ScanAnswers, FirstViolationReported, ClearIsComplete, IncompleteIsHonest

\* An interrupted scan says what it did.
LEMMA InterruptedAnswers ==
  ASSUME Shape, ReplayInv, ScanInv, ask.op = "scan", pc \in Running \union {"baseline"},
         history' = history, range' = range, scan' = scan, signal' = signal, expired' = expired,
         outcome' = Interrupted
  PROVE  ScanAnswers'
<1> USE DEF Shape
<1>1. /\ outcome'.kind = "incomplete"
      /\ outcome'.reason = "cancelled" <=> signal
      /\ outcome'.reason = "timeout" => expired
  BY DEF Interrupted
<1>2. /\ \A p : CommitsTo(p)' = CommitsTo(p)
      /\ \A n : InRange(n)' <=> InRange(n)
      /\ \A n : BadAfter(n)' <=> BadAfter(n)
      /\ \A n : Evaluated(n)' = Evaluated(n)
  BY SameScan
<1>3. IF scan.evaluated = 0 THEN scan.last = NoRow
      ELSE LET last == CommitsTo(scan.last) IN
           /\ scan.evaluated = Cardinality(Evaluated(last))
           /\ \A n \in 0 .. last - 1 : InRange(n) => ~BadAfter(n)
  <2>1. CASE pc = "baseline"
    BY <2>1 DEF ReplayInv, Fresh, NotScanned
  <2>2. CASE pc \in Running
    <3> DEFINE n == replay.commit
               past == IF pc = "consume" THEN n - 1 ELSE n
    <3>1. PlacedAt(n) /\ n \in 0 .. Len(Commits) /\ Len(Commits) \in Nat /\ history \in Histories
      BY <2>2, CommitsFinite DEF ReplayInv, ReplayHolds, Placed, ReplayShape, AskShape
    <3>2. Seen(past) /\ \A m \in 0 .. past - 1 : InRange(m) => ~BadAfter(m)
      BY <2>2, <3>1 DEF ScanInv, ScanHolds, NoneBad, Running
    <3>3. past \in Int /\ past <= n
      BY <3>1
    <3> HIDE DEF n, past
    <3>4. CASE scan.evaluated # 0
      <4>1. past \in 0 .. n
        <5>1. Evaluated(past) # {}
          BY <3>2, <3>3, <3>4, NoneEvaluated DEF Seen
        <5> QED
          BY <3>1, <3>3, <5>1 DEF Evaluated
      <4>2. scan.last = PositionAfter(past) /\ scan.evaluated = Cardinality(Evaluated(past))
        BY <3>2, <3>4 DEF Seen
      <4>3. CommitsTo(scan.last) = past
        BY <3>1, <4>1, <4>2, CommitsToPosition DEF PlacedAt
      <4> QED
        BY <3>2, <3>4, <4>2, <4>3
    <3>5. CASE scan.evaluated = 0
      BY <3>2, <3>5 DEF Seen
    <3> QED
      BY <3>4, <3>5
  <2> QED
    BY <2>1, <2>2
<1>4. IncompleteIsHonest'
  <2>1. \A n : {m \in 0 .. n : InRange(m)'} = Evaluated(n)
    BY <1>2 DEF Evaluated
  <2> HIDE DEF Evaluated
  <2> QED
    BY <1>1, <1>2, <1>3, <2>1 DEF IncompleteIsHonest
<1>5. FirstViolationReported' /\ ClearIsComplete'
  BY <1>1 DEF FirstViolationReported, ClearIsComplete
<1> QED
  BY <1>4, <1>5 DEF ScanAnswers

\* A query that gives up answers as it should.
LEMMA GiveAnswers ==
  ASSUME Shape, ReplayInv, ScanInv, pc \in Running \union {"baseline"},
         history' = history, range' = range, scan' = scan, signal' = signal, expired' = expired,
         NEW code, Give(code)
  PROVE  ScanInv'
<1>1. pc' = "done"
  BY DEF Give, Reject
<1>2. ScanHolds'
  BY <1>1 DEF ScanHolds
<1>3. CASE outcome'.kind = "rejected"
  BY <1>2, <1>3, OtherAnswers DEF ScanInv
<1>4. CASE ask.op = "scan" /\ outcome' = Interrupted
  BY <1>2, <1>4, InterruptedAnswers DEF ScanInv
<1> QED
  BY <1>3, <1>4 DEF Give, Reject

\* A step of the replay hands the scan its next state, or ends it.
LEMMA ReplayStepScan ==
  ASSUME Shape, Shape', ReplayInv, ReplayInv', ScanInv, ReplayStep
  PROVE  ScanInv'
<1> USE DEF Shape
<1>1. /\ ask' = ask /\ history' = history /\ scan' = scan /\ signal' = signal /\ expired' = expired
  BY DEF ReplayStep, Resolve, LoadBaseline, ReadTransaction, StalledPage, EndOfHistory
<1>2. CASE pc' # "done"
  <2>1. ScanAnswers'
    BY <1>2, OtherAnswers DEF ControlShape
  <2>2. CASE ask.op # "scan"
    BY <1>1, <2>1, <2>2 DEF ScanInv, ScanHolds
  <2>3. CASE Resolve
    BY <1>2, <2>1, <2>3 DEF ScanInv, ScanHolds, Resolve, Reject
  <2>4. CASE ask.op = "scan" /\ (LoadBaseline \/ ReadTransaction)
    <3>1. range' = range /\ pc' \in {"read", "consume"}
          /\ (pc' = "read" => ~(PositionAfter(replay'.commit) >= range.from))
      BY <1>2, <2>4, DeliverMoves
    <3>2. replay'.commit \in 0 .. Len(Commits)
      BY <1>1 DEF ReplayShape, Commits
    <3>3. Seen(replay'.commit - 1) /\ NoneBad(replay'.commit - 1)
      <4>1. CASE pc = "baseline" /\ replay'.commit = 0
        <5>1. scan = NotScanned
          BY <2>4, <4>1 DEF ReplayInv, Fresh
        <5> QED
          BY <4>1, <5>1, NothingBefore DEF Seen, NotScanned
      <4>2. CASE pc = "read" /\ replay'.commit = replay.commit + 1
        <5>1. Seen(replay.commit) /\ NoneBad(replay.commit)
          BY <2>4, <4>2 DEF ScanInv, ScanHolds
        <5>2. replay'.commit - 1 = replay.commit
          BY <4>2, CommitsFinite DEF ReplayShape
        <5> QED
          BY <5>1, <5>2
      <4> QED
        BY <1>2, <2>4, <4>1, <4>2, DeliverMoves
    <3> DEFINE n == replay'.commit
    <3>4. n = replay'.commit
      OBVIOUS
    <3> HIDE DEF n
    <3>5. ScanHolds'
      BY <1>1, <2>4, <3>1, <3>2, <3>3, <3>4, DeliveredScan
    <3> QED
      BY <2>1, <3>5 DEF ScanInv
  <2>5. CASE ask.op = "scan" /\ (StalledPage \/ EndOfHistory)
    <3>1. pc = "read" /\ pc' = "finish" /\ range' = range /\ replay' = replay
      BY <1>2, <2>5 DEF StalledPage, RefuseStalledPage, EndOfHistory, Give, Reject
    <3>2. (Seen(replay.commit) /\ NoneBad(replay.commit))'
      <4>1. Seen(replay.commit) /\ NoneBad(replay.commit)
        BY <2>5, <3>1 DEF ScanInv, ScanHolds
      <4> QED
        BY <1>1, <3>1, <4>1, SameScan, SameHistory DEF Seen, NoneBad
    <3> QED
      BY <2>1, <3>1, <3>2 DEF ScanInv, ScanHolds
  <2> QED
    BY <2>2, <2>3, <2>4, <2>5 DEF ReplayStep
<1>3. CASE pc' = "done"
  <2>1. CASE Resolve
    <3>1. outcome'.kind = "rejected"
      BY <1>3, <2>1 DEF Resolve, Reject
    <3> QED
      BY <1>3, <3>1, OtherAnswers DEF ScanInv, ScanHolds
  <2>2. CASE ~Resolve
    <3>1. /\ range' = range /\ pc \in Running \union {"baseline"}
          /\ \E code \in Codes : Give(code)
      BY <1>3, <2>2, Zenon DEF ReplayStep, LoadBaseline, ReadTransaction, StalledPage, RefuseStalledPage,
                        EndOfHistory, Running, Codes, HaltCode, Deliver, Beyond
    <3> QED
      BY <1>1, <3>1, GiveAnswers
  <2> QED
    BY <2>1, <2>2
<1> QED
  BY <1>2, <1>3

\* An evaluated state is counted, in order.
LEMMA EvaluateScan ==
  ASSUME Shape, Shape', ReplayInv, ScanInv, Evaluate
  PROVE  ScanInv'
<1> USE DEF Shape
<1> DEFINE n == replay.commit
<1>1. /\ ask' = ask /\ history' = history /\ range' = range /\ replay' = replay
      /\ ask.op = "scan" /\ pc = "consume"
      /\ scan' = [evaluated |-> scan.evaluated + 1, last |-> replay.state.position]
      /\ pc' = IF MustReport THEN "report" ELSE Beyond(replay.state)
      /\ scan.evaluated = 0 => replay.state.position = range.from
  BY DEF Evaluate, MayEvaluate
<1>2. PlacedAt(n) /\ n \in 0 .. Len(Commits) /\ n \in Nat /\ history \in Histories
      /\ n - 1 \in Int
  BY <1>1, CommitsFinite DEF ReplayInv, ReplayHolds, Running, Placed, ReplayShape, AskShape
<1>3. Seen(n - 1) /\ NoneBad(n - 1)
  BY <1>1 DEF ScanInv, ScanHolds
<1>4. replay.state.position = PositionAfter(n) /\ replay.state.rows = RowsAfter(n)
  BY <1>2 DEF PlacedAt, StateAfter
<1>5. InRange(n)
  <2>1. PositionAfter(n) >= range.from
    BY <1>1, <1>4 DEF ReplayInv, ReplayHolds, ResumesAt
  <2>2. CASE n # 0
    BY <1>2, <2>1, <2>2 DEF PlacedAt, InRange
  <2>3. CASE n = 0
    <3>1. scan.evaluated = 0
      BY <1>3, <2>3, NothingBefore DEF Seen
    <3>2. range.from <= range.to
      BY <1>1 DEF ReplayInv, RangeHolds, Replays
    <3> QED
      BY <1>1, <1>4, <2>1, <3>1, <3>2 DEF InRange
  <2> QED
    BY <2>2, <2>3
<1>6. /\ scan'.evaluated = Cardinality(Evaluated(n))
      /\ scan'.evaluated # 0
      /\ scan'.last = PositionAfter(n)
  <2>1. Cardinality(Evaluated(n)) = Cardinality(Evaluated(n - 1)) + 1
    BY <1>2, <1>5, EvaluatedStep
  <2>2. Cardinality(Evaluated(n - 1)) \in Nat /\ scan.evaluated = Cardinality(Evaluated(n - 1))
    BY <1>2, <1>3, EvaluatedFinite DEF Seen
  <2> QED
    BY <1>1, <1>4, <2>1, <2>2
<1>7. /\ \A m : Evaluated(m)' = Evaluated(m)
      /\ \A m : PositionAfter(m)' = PositionAfter(m)
      /\ \A m : NoneBad(m)' <=> NoneBad(m)
      /\ \A m : InRange(m)' <=> InRange(m)
      /\ \A m : BadAfter(m)' <=> BadAfter(m)
  BY <1>1, SameScan, SameHistory
<1>8. Seen(replay.commit)'
  BY <1>1, <1>6, <1>7, SameHistory, SameScan DEF Seen, Evaluated
<1>9. MustReport <=> BadAfter(n)
  BY <1>4 DEF MustReport, BadAfter
<1>10. CASE MustReport
  <2>1. pc' = "report"
    BY <1>1, <1>10
  <2>2. NoneBad(replay.commit - 1)'
    BY <1>1, <1>3, <1>7 DEF NoneBad
  <2>3. InRange(replay.commit)' /\ BadAfter(replay.commit)'
    BY <1>1, <1>5, <1>7, <1>9, <1>10 DEF InRange, BadAfter
  <2>4. ScanHolds'
    BY <1>8, <2>1, <2>2, <2>3 DEF ScanHolds
  <2> QED
    BY <2>1, <2>4, OtherAnswers DEF ScanInv, ControlShape
<1>11. CASE ~MustReport
  <2>1. pc' \in {"read", "finish"}
    BY <1>1, <1>11 DEF Beyond
  <2>2. NoneBad(n)
    BY <1>2, <1>3, <1>9, <1>11, NoneBadStep
  <2>3. NoneBad(replay.commit)'
    BY <1>1, <1>7, <2>2 DEF NoneBad
  <2>4. ScanHolds'
    BY <1>8, <2>1, <2>3 DEF ScanHolds
  <2> QED
    BY <2>1, <2>4, OtherAnswers DEF ScanInv, ControlShape
<1> QED
  BY <1>10, <1>11

\* The keys of a set, as many as there are.
LEMMA KeyOrderDomain ==
  ASSUME NEW S \in SUBSET Keys
  PROVE  /\ IsFiniteSet(S) /\ Cardinality(S) \in Nat
         /\ DOMAIN InKeyOrder(S) = 1 .. Cardinality(S)
<1>1. IsFiniteSet(S)
  BY KeysAssumption, FS_Subset
<1> QED
  BY <1>1, FS_CardinalityType DEF InKeyOrder

\* A page of the differences of two states, when no first item was refused.
LEMMA DifferencesPaged ==
  ASSUME NEW options \in Options, NEW before, NEW after,
         ~AddAll(EmptyPage, options, Differences(before, after), NoRow).over
  PROVE  PageOf(Answer(AddAll(EmptyPage, options, Differences(before, after), NoRow), options),
                options, Differences(before, after))
<1> DEFINE S == {k \in Keys : before[k] # after[k]}
           all == Differences(before, after)
           Items == {all[i] : i \in 1 .. Cardinality(S)}
<1>1. Cardinality(S) \in Nat /\ DOMAIN InKeyOrder(S) = 1 .. Cardinality(S)
  BY KeyOrderDomain
<1>2. all \in [1 .. Cardinality(S) -> Items]
  BY <1>1 DEF Differences
<1>3. all \in Seq(Items)
  <2> HIDE DEF all, S, Items
  <2> QED
    BY <1>1, <1>2
<1>4. all = Differences(before, after)
  OBVIOUS
<1> HIDE DEF all, S, Items
<1>5. PageSound(AddAll(EmptyPage, options, all, NoRow), options, Items, all)
  BY <1>3, <1>4, AddAllSound
<1> QED
  BY <1>3, <1>4, <1>5, AnswerIsPage

\* The finding is the first violation.
LEMMA FindingIsFirst ==
  ASSUME Shape, ReplayInv, ScanInv, pc = "report", history' = history, range' = range,
         ask' = ask, HasPredecessor => ~DiffPage.over, outcome' = Finding
  PROVE  ScanAnswers'
<1> USE DEF Shape
<1> DEFINE n == replay.commit
<1>1. /\ PlacedAt(n) /\ n \in 0 .. Len(Commits) /\ n \in Nat /\ Len(Commits) \in Nat
      /\ history \in Histories /\ ask.op = "scan" /\ ask.page \in Options
  BY CommitsFinite, Budgets
     DEF ReplayInv, ReplayHolds, Running, Placed, ReplayShape, AskShape, ControlShape
<1>2. NoneBad(n - 1) /\ InRange(n) /\ BadAfter(n)
  BY <1>1 DEF ScanInv, ScanHolds
<1>3. replay.state.position = PositionAfter(n) /\ replay.state.rows = RowsAfter(n)
  BY <1>1 DEF PlacedAt, StateAfter
<1>4. CommitsTo(PositionAfter(n)) = n
  BY <1>1, CommitsToPosition DEF PlacedAt
<1>5. RowsAfter(n) # Broken
  BY <1>1, NoRowAssumption DEF PlacedAt, Sized
<1>6. /\ outcome'.kind = "violation"
      /\ outcome'.position = PositionAfter(n)
      /\ outcome'.starting = (PositionAfter(n) = range.from)
      /\ outcome'.rows = Violating(RowsAfter(n))
      /\ outcome'.rows # {}
  BY <1>2, <1>3, Zenon DEF Finding, AtStart, BadAfter
<1>7. CASE n = 0
  <2>1. ~HasPredecessor
    BY <1>1, <1>7 DEF PlacedAt, HasPredecessor
  <2>2. outcome'.predecessor = NoRow /\ outcome'.diff = NoRow
    BY <1>7, <2>1 DEF Finding
  <2>3. FirstViolationReported'
    BY <1>2, <1>4, <1>5, <1>6, <1>7, <2>2, SameScan, SameHistory DEF FirstViolationReported, NoneBad
  <2> QED
    BY <1>6, <2>3 DEF ScanAnswers, ClearIsComplete, IncompleteIsHonest
<1>8. CASE n # 0
  <2>1. replay.previous = StateAfter(n - 1) /\ n \in 1 .. Len(Commits) /\ n \in 1 .. n
        /\ n - 1 \in 0 .. n
    BY <1>1, <1>8 DEF PlacedAt
  <2>2. HasPredecessor
    <3>1. StateAfter(n - 1) \in [position : Nat, rows : Table]
      BY <1>1, <2>1, PositionType DEF PlacedAt, StateAfter, Sized
    <3> QED
      BY <2>1, <3>1, NothingAssumption DEF HasPredecessor
  <2>3. outcome'.predecessor = PositionAfter(n - 1)
    BY <1>1, <1>8, <2>1 DEF Finding, PlacedAt, ChainedTo
  <2> DEFINE diff == Differences(RowsAfter(n - 1), RowsAfter(n))
  <2>4. outcome'.diff = Answer(AddAll(EmptyPage, ask.page, diff, NoRow), ask.page)
        /\ ~AddAll(EmptyPage, ask.page, diff, NoRow).over
    BY <1>3, <2>1, <2>2 DEF Finding, DiffPage, StateAfter
  <2>5. PageOf(outcome'.diff, ask.page, diff)
    BY <1>1, <2>4, DifferencesPaged
  <2>6. FirstViolationReported'
    BY <1>2, <1>4, <1>5, <1>6, <1>8, <2>3, <2>5, SameScan, SameHistory
       DEF FirstViolationReported, NoneBad
  <2> QED
    BY <1>6, <2>6 DEF ScanAnswers, ClearIsComplete, IncompleteIsHonest
<1> QED
  BY <1>7, <1>8

\* The range was read to its end, and none of its states was bad.
LEMMA ClearIsTrue ==
  ASSUME Shape, ReplayInv, ScanInv, pc = "finish", ask.op = "scan",
         history' = history, range' = range, scan' = scan, outcome' = [kind |-> "clear"]
  PROVE  ScanAnswers'
<1> USE DEF Shape
<1>0. PICK n \in 0 .. Len(Commits) : n = replay.commit
  BY DEF ReplayShape
<1>1. /\ PlacedAt(n) /\ history \in Histories
      /\ replay.reached /\ (Full => Intact)
  BY <1>0, CommitsFinite DEF ReplayInv, ReplayHolds, Running, Placed, AskShape
<1>2. Seen(n) /\ NoneBad(n)
  BY <1>0 DEF ScanInv, ScanHolds
<1>3. PositionAfter(n) = range.to
  BY <1>1 DEF PlacedAt
<1>4. CommitsTo(range.to) = n
  BY <1>1, <1>3, CommitsToPosition, CommitsFinite DEF PlacedAt
<1>5. RowsAfter(n) # Broken
  BY <1>1, NoRowAssumption, CommitsFinite DEF PlacedAt, Sized
<1>6. range.to = history.head => Intact
  BY <1>1 DEF Full
<1>7. outcome'.kind = "clear"
  OBVIOUS
<1>8. scan.evaluated = Cardinality({m \in 0 .. n : InRange(m)})
  BY <1>2 DEF Seen, Evaluated
<1>9. ClearIsComplete'
  <2>1. /\ CommitsTo(range.to)' = n
        /\ RowsAfter(n)' # Broken
        /\ \A m \in 0 .. n : InRange(m)' => ~BadAfter(m)'
        /\ range'.to = history'.head => Intact'
    <3>1. CommitsTo(range.to)' = CommitsTo(range.to)
      BY DEF CommitsTo, PositionAfter, Commits
    <3> QED
      BY <1>2, <1>4, <1>5, <1>6, <3>1, SameScan, SameHistory DEF NoneBad
  <2>2. {m \in 0 .. n : InRange(m)'} = {m \in 0 .. n : InRange(m)}
    BY SameScan
  <2> QED
    BY <1>8, <2>1, <2>2 DEF ClearIsComplete
<1> QED
  BY <1>7, <1>9 DEF ScanAnswers, FirstViolationReported, IncompleteIsHonest

\* Every step of a scan.
LEMMA ScanStepScan ==
  ASSUME Shape, Shape', ReplayInv, ScanInv, ScanStep
  PROVE  ScanInv'
<1> USE DEF Shape
<1>1. CASE Evaluate
  BY <1>1, EvaluateScan
<1>2. CASE ~Evaluate
  <2>1. /\ ask' = ask /\ history' = history /\ range' = range /\ scan' = scan
        /\ signal' = signal /\ expired' = expired
        /\ pc' = "done" /\ pc \in Running
        /\ ask.op = "scan"
    BY <1>2 DEF ScanStep, EvaluationHalted, EvaluationRefused, QueryFails, MayEvaluate, Report, Clear,
                Give, Reject, Running, ControlShape
  <2>2. ScanHolds'
    BY <2>1 DEF ScanHolds
  <2>3. CASE \E code : Give(code)
    BY <2>1, <2>3, GiveAnswers
  <2>4. CASE Report /\ outcome' = Finding /\ (HasPredecessor => ~DiffPage.over)
    BY <2>1, <2>2, <2>4, FindingIsFirst DEF ScanInv, Report
  <2>5. CASE Clear /\ outcome' = [kind |-> "clear"]
    BY <2>1, <2>2, <2>5, ClearIsTrue DEF ScanInv, Clear
  <2>6. (\E code : Give(code)) \/ (Report /\ outcome' = Finding /\ (HasPredecessor => ~DiffPage.over))
        \/ (Clear /\ outcome' = [kind |-> "clear"])
    BY <1>2, Zenon DEF ScanStep, EvaluationHalted, EvaluationRefused, QueryFails, Report, Clear
  <2> QED
    BY <2>3, <2>4, <2>5, <2>6
<1> QED
  BY <1>1, <1>2

OutsideScan ==
  \/ CallerStep
  \/ LineageStep /\ UNCHANGED <<scan, merge>>
  \/ ComparisonStep /\ UNCHANGED <<scan, lineage>>
  \/ UNCHANGED vars

\* Cancelling and waiting answer nothing, and no other operation answers a scan.
LEMMA OtherStepsScan ==
  ASSUME Shape, Shape', ReplayInv, ScanInv, OutsideScan
  PROVE  ScanInv'
<1> USE DEF Shape, OutsideScan
<1>1. CASE CallerStep
  <2>1. /\ pc # "done" /\ pc' = pc /\ outcome' = outcome /\ range' = range /\ replay' = replay
        /\ scan' = scan /\ history' = history /\ ask' = ask
    BY <1>1 DEF CallerStep, Cancel, Expire
  <2>2. ScanAnswers'
    BY <2>1, OtherAnswers DEF ControlShape
  <2>3. ScanHolds'
    <3>1. /\ Seen(replay.commit)' <=> Seen(replay.commit)
          /\ Seen(replay.commit - 1)' <=> Seen(replay.commit - 1)
          /\ NoneBad(replay.commit)' <=> NoneBad(replay.commit)
          /\ NoneBad(replay.commit - 1)' <=> NoneBad(replay.commit - 1)
          /\ InRange(replay.commit)' <=> InRange(replay.commit)
          /\ BadAfter(replay.commit)' <=> BadAfter(replay.commit)
      BY <2>1 DEF Seen, NoneBad, Evaluated, InRange, BadAfter, PositionAfter, RowsAfter, Commits
    <3> QED
      BY <2>1, <3>1 DEF ScanInv, ScanHolds
  <2> QED
    BY <2>2, <2>3 DEF ScanInv
<1>2. CASE LineageStep /\ UNCHANGED <<scan, merge>>
  <2>1. ask.op = "lineage" /\ ask' = ask /\ outcome'.kind \in {"none", "rejected", "lineage"}
    BY <1>2 DEF LineageStep, LineageHalted, OriginRefused, TraceOrigin, FollowRow, LineageEnds,
                Following, MayFollow, Reject, ControlShape
  <2> QED
    BY <2>1, OtherAnswers DEF ScanInv, ScanHolds
<1>3. CASE ComparisonStep /\ UNCHANGED <<scan, lineage>>
  <2>1. /\ ask.op \in {"compare", "rows"} /\ ask' = ask
        /\ outcome'.kind \in {"none", "rejected", "difference", "rows"}
    BY <1>3 DEF ComparisonStep, StartComparison, MergeRow, MergeEnds, ListRow, ListEnds, Merging,
                Listing, Reject, ControlShape
  <2> QED
    BY <2>1, OtherAnswers DEF ScanInv, ScanHolds
<1>4. CASE UNCHANGED vars
  <2>1. ScanHolds'
    <3>1. /\ Seen(replay.commit)' <=> Seen(replay.commit)
          /\ Seen(replay.commit - 1)' <=> Seen(replay.commit - 1)
          /\ NoneBad(replay.commit)' <=> NoneBad(replay.commit)
          /\ NoneBad(replay.commit - 1)' <=> NoneBad(replay.commit - 1)
          /\ InRange(replay.commit)' <=> InRange(replay.commit)
          /\ BadAfter(replay.commit)' <=> BadAfter(replay.commit)
      BY <1>4 DEF vars, Seen, NoneBad, Evaluated, InRange, BadAfter, PositionAfter, RowsAfter, Commits
    <3>2. pc' = pc /\ ask' = ask
      BY <1>4 DEF vars
    <3> QED
      BY <3>1, <3>2 DEF ScanInv, ScanHolds
  <2>2. ScanAnswers'
    <3>1. FirstViolationReported' <=> FirstViolationReported
      BY <1>4 DEF vars, FirstViolationReported, InRange, BadAfter, PositionAfter, RowsAfter, Commits,
                  CommitsTo
    <3>2. ClearIsComplete' <=> ClearIsComplete
      BY <1>4 DEF vars, ClearIsComplete, InRange, BadAfter, PositionAfter, RowsAfter, Commits,
                  CommitsTo, Intact, Chained
    <3>3. IncompleteIsHonest' <=> IncompleteIsHonest
      BY <1>4 DEF vars, IncompleteIsHonest, InRange, BadAfter, PositionAfter, RowsAfter, Commits,
                  CommitsTo
    <3> QED
      BY <3>1, <3>2, <3>3 DEF ScanInv, ScanAnswers
  <2> QED
    BY <2>1, <2>2 DEF ScanInv
<1> QED
  BY <1>1, <1>2, <1>3, <1>4

\* A scan evaluates the states of its range once each and in order, and answers
\* with what it saw of them.
THEOREM ScanIsFaithful == Spec => []ScanInv
<1>1. Init => ScanInv
  BY DEF Init, ReplayInit, ScanInv, ScanHolds, ScanAnswers, FirstViolationReported, ClearIsComplete,
         IncompleteIsHonest
<1>2. ScanInv /\ Shape /\ Shape' /\ ReplayInv /\ ReplayInv' /\ [Next]_vars => ScanInv'
  <2> SUFFICES ASSUME ScanInv, Shape, Shape', ReplayInv, ReplayInv', [Next]_vars
               PROVE  ScanInv'
    OBVIOUS
  <2>1. CASE ReplayStep
    BY <2>1, ReplayStepScan
  <2>2. CASE ScanStep
    BY <2>2, ScanStepScan
  <2>3. CASE OutsideScan
    BY <2>3, OtherStepsScan
  <2> QED
    BY <2>1, <2>2, <2>3 DEF Next, Answering, OutsideScan
<1> QED
  BY <1>1, <1>2, ShapeHolds, ReplayIsFaithful, PTL DEF Spec

\* A violation is the first one of the range, with its rows, its commit and its
\* difference; a clear answer speaks of all states; an incomplete one of no more
\* than was looked at: for every history, however damaged, and every budget.
THEOREM ScansAreTrue == Spec => []ScanIsTrue
<1>1. Shape /\ ScanInv => ScanIsTrue
  BY ShapeIsTypeOK DEF ScanInv, ScanAnswers, ScanIsTrue
<1> QED
  BY <1>1, ShapeHolds, ScanIsFaithful, PTL

--------------------------------------------------------------------------
(* Views in key order.                                                     *)

\* A key after all others of a set comes last in their order.
LEMMA KeyOrderNext ==
  ASSUME NEW S \in SUBSET Keys, NEW k \in Keys, \A j \in S : j < k, InKeyOrder(S) \in Seq(S)
  PROVE  /\ InKeyOrder(S \union {k}) = Append(InKeyOrder(S), k)
         /\ InKeyOrder(S \union {k}) \in Seq(S \union {k})
<1> DEFINE T == S \union {k}
           n == Cardinality(S)
<1>1. Keys \subseteq Nat
  BY KeysAssumption
<1>2. IsFiniteSet(S) /\ n \in Nat /\ k \notin S
  BY <1>1, KeyOrderDomain
<1>3. Cardinality(T) = n + 1 /\ IsFiniteSet(T)
  BY <1>2, FS_AddElement
<1>4. \A x \in S : {j \in T : j <= x} = {j \in S : j <= x}
  BY <1>1
<1>5. {j \in T : j <= k} = T
  <2>1. \A j \in T : j \in Nat /\ j <= k
    BY <1>1
  <2> HIDE DEF T
  <2> QED
    BY <2>1
<1>6. ASSUME NEW i \in 1 .. n
      PROVE  InKeyOrder(T)[i] = InKeyOrder(S)[i]
  <2>1. \A x : (x \in S /\ Cardinality({j \in S : j <= x}) = i)
                 <=> (x \in T /\ Cardinality({j \in T : j <= x}) = i)
    <3>1. Cardinality({j \in T : j <= k}) # i
      <4>1. Cardinality({j \in T : j <= k}) = n + 1
        BY <1>3, <1>5
      <4>2. n + 1 # i
        BY <1>2
      <4> QED
        BY <4>1, <4>2
    <3>2. \A x \in S : x \in T /\ Cardinality({j \in T : j <= x}) = Cardinality({j \in S : j <= x})
      BY <1>4
    <3>3. \A x \in T : x \in S \/ x = k
      OBVIOUS
    <3> HIDE DEF T
    <3> QED
      BY <3>1, <3>2, <3>3, Zenon
  <2>2. (CHOOSE x \in S : Cardinality({j \in S : j <= x}) = i)
          = (CHOOSE x \in T : Cardinality({j \in T : j <= x}) = i)
    BY <2>1, Zenon
  <2>3. i \in 1 .. n + 1
    BY <1>2
  <2> HIDE DEF T, n
  <2> QED
    BY <1>3, <2>2, <2>3 DEF InKeyOrder, n
<1>7. InKeyOrder(T)[n + 1] = k
  <2>1. \A x \in S : Cardinality({j \in S : j <= x}) <= n
    <3>1. \A x \in S : {j \in S : j <= x} \subseteq S
      OBVIOUS
    <3> QED
      BY <1>2, <3>1, FS_Subset
  <2>2. \A x \in S : Cardinality({j \in S : j <= x}) # n + 1
    <3>1. \A x \in S : Cardinality({j \in S : j <= x}) \in Nat
      BY <1>2, FS_Subset, FS_CardinalityType
    <3> QED
      BY <1>2, <2>1, <3>1
  <2>3. \A x \in T : Cardinality({j \in T : j <= x}) = n + 1 <=> x = k
    BY <1>3, <1>4, <1>5, <2>2
  <2>4. (CHOOSE x \in T : Cardinality({j \in T : j <= x}) = n + 1) = k
    BY <2>3, Zenon
  <2>5. n + 1 \in 1 .. n + 1
    BY <1>2
  <2> HIDE DEF T, n
  <2> QED
    BY <1>3, <2>4, <2>5 DEF InKeyOrder
<1>8. /\ Len(InKeyOrder(S)) = n
      /\ InKeyOrder(T) \in [1 .. n + 1 -> T]
  <2>1. DOMAIN InKeyOrder(S) = 1 .. n
    BY KeyOrderDomain
  <2>2. \A i \in 1 .. n + 1 : InKeyOrder(T)[i] \in T
    <3>1. \A i \in 1 .. n : InKeyOrder(S)[i] \in S
      BY <1>2, <2>1
    <3>2. \A i \in 1 .. n + 1 : i \in 1 .. n \/ i = n + 1
      BY <1>2
    <3>3. k \in T /\ \A x \in S : x \in T
      OBVIOUS
    <3> HIDE DEF T, n
    <3> QED
      BY <1>6, <1>7, <3>1, <3>2, <3>3
  <2>3. InKeyOrder(T) \in [1 .. n + 1 -> T]
    <3> HIDE DEF T, n
    <3> QED
      BY <1>3, <2>2 DEF InKeyOrder
  <2>4. Len(InKeyOrder(S)) \in Nat /\ DOMAIN InKeyOrder(S) = 1 .. Len(InKeyOrder(S))
    OBVIOUS
  <2>5. Len(InKeyOrder(S)) = n
    BY <1>2, <2>1, <2>4
  <2> QED
    BY <2>3, <2>5
<1> DEFINE s == InKeyOrder(S)
           t == InKeyOrder(T)
<1>9. t = Append(s, k)
  <2>1. s \in Seq(S) /\ Len(s) = n /\ t \in [1 .. n + 1 -> T]
        /\ t[n + 1] = k /\ \A i \in 1 .. n : t[i] = s[i]
    BY <1>6, <1>7, <1>8
  <2> HIDE DEF s, t, T, n
  <2> QED
    BY <1>2, <2>1
<1>10. t \in Seq(T)
  <2>1. s \in Seq(T)
    OBVIOUS
  <2> HIDE DEF s, t
  <2> QED
    BY <1>9, <2>1
<1> QED
  BY <1>9, <1>10

\* No key is in no order.
LEMMA KeyOrderEmpty == InKeyOrder({}) = << >> /\ InKeyOrder({}) \in Seq({})
BY FS_EmptySet DEF InKeyOrder

\* What was taken of a view, under a key.
RowIn(view, n, k) ==
  LET found == {i \in 1 .. n : view.rows[i].key = k} IN
  IF found = {} THEN NoRow ELSE view.rows[CHOOSE i \in found : TRUE].value

\* The first n rows of a view are in order and declared.
Taken(view, n) ==
  /\ n \in 0 .. Len(view.rows)
  /\ \A i \in 1 .. n : InOrder(view.rows, i) /\ i <= view.declared

\* A view's rows are images, and their tables do not descend.
LEMMA ViewTypes ==
  ASSUME NEW view \in HandedViews
  PROVE  /\ view.rows \in Seq(Image) /\ Len(view.rows) \in Nat /\ view.declared \in Nat
         /\ \A i \in 1 .. Len(view.rows) :
              /\ view.rows[i] \in Image
              /\ view.rows[i].key \in Keys /\ view.rows[i].key \in Nat
              /\ view.rows[i].value \in Values /\ view.rows[i].value # NoRow
              /\ TableOf[view.rows[i].key] \in Nat
<1>1. view.rows \in Seq(Image) /\ Len(view.rows) \in Nat /\ view.declared \in Nat
  BY DEF HandedViews
<1>2. \A i \in 1 .. Len(view.rows) : view.rows[i] \in Image
  BY <1>1
<1> QED
  BY <1>1, <1>2, KeysAssumption, NoRowAssumption, TableOfAssumption DEF Image

\* Rows in order by table and key are in order by key.
LEMMA BeforeIsLess ==
  ASSUME NEW a \in Image, NEW b \in Image
  PROVE  Before(a, b) <=> a.key < b.key
<1>1. a.key \in Keys /\ b.key \in Keys /\ a.key \in Nat /\ b.key \in Nat
  BY KeysAssumption DEF Image
<1>2. TableOf[a.key] \in Nat /\ TableOf[b.key] \in Nat
  BY <1>1, TableOfAssumption
<1>3. /\ a.key <= b.key => TableOf[a.key] <= TableOf[b.key]
      /\ b.key <= a.key => TableOf[b.key] <= TableOf[a.key]
  BY <1>1, TableOfAssumption
<1> QED
  BY <1>1, <1>2, <1>3 DEF Before

\* A row that is in order is beyond the one before it.
LEMMA InOrderIsLess ==
  ASSUME NEW view \in HandedViews, NEW i \in 2 .. Len(view.rows)
  PROVE  InOrder(view.rows, i) <=> view.rows[i - 1].key < view.rows[i].key
<1>1. i \in 1 .. Len(view.rows) /\ i - 1 \in 1 .. Len(view.rows) /\ i # 1
  BY ViewTypes
<1>2. TableOf[view.rows[i - 1].key] <= TableOf[view.rows[i].key]
  BY DEF HandedViews
<1> DEFINE a == view.rows[i - 1]
           b == view.rows[i]
<1>3. a \in Image /\ b \in Image /\ a.key \in Nat /\ b.key \in Nat
      /\ TableOf[a.key] \in Nat /\ TableOf[b.key] \in Nat
  BY <1>1, ViewTypes
<1>4. InOrder(view.rows, i) <=> TableOf[b.key] # TableOf[a.key] \/ b.key > a.key
  BY <1>1 DEF InOrder
<1> HIDE DEF a, b
<1>5. Before(a, b) <=> a.key < b.key
  BY <1>3, BeforeIsLess
<1> QED
  BY <1>2, <1>3, <1>4, <1>5 DEF Before, a, b

\* Their keys ascend.
LEMMA KeysAscend ==
  ASSUME NEW view \in HandedViews, NEW n, Taken(view, n),
         NEW j \in 1 .. n, NEW i \in 1 .. n, j < i
  PROVE  view.rows[j].key < view.rows[i].key
<1>1. n \in 0 .. Len(view.rows) /\ n \in Nat /\ Len(view.rows) \in Nat
  BY ViewTypes DEF Taken
<1> DEFINE key(x) == view.rows[x].key
           T == {m \in Nat : j + 1 + m <= n => key(j) < key(j + 1 + m)}
<1>2. \A x \in 1 .. n : key(x) \in Nat
  BY <1>1, ViewTypes
<1>3. \A x \in 2 .. n : key(x - 1) < key(x)
  <2> SUFFICES ASSUME NEW x \in 2 .. n PROVE key(x - 1) < key(x)
    OBVIOUS
  <2>1. x \in 2 .. Len(view.rows) /\ x \in 1 .. n
    BY <1>1
  <2> QED
    BY <2>1, InOrderIsLess DEF Taken
<1> HIDE DEF key
<1>4. 0 \in T
  <2>1. j + 1 <= n => key(j) < key(j + 1)
    <3> SUFFICES ASSUME j + 1 <= n PROVE key(j) < key(j + 1)
      OBVIOUS
    <3>1. j + 1 \in 2 .. n /\ (j + 1) - 1 = j
      BY <1>1
    <3> QED
      BY <1>3, <3>1
  <2> QED
    BY <1>1, <2>1
<1>5. ASSUME NEW m \in Nat, m \in T PROVE m + 1 \in T
  <2> SUFFICES ASSUME j + 1 + (m + 1) <= n PROVE key(j) < key(j + 1 + (m + 1))
    BY <1>5
  <2>1. /\ j + 1 + (m + 1) \in 2 .. n
        /\ j + 1 + (m + 1) - 1 = j + 1 + m
        /\ j + 1 + m \in 1 .. n
        /\ j + 1 + (m + 1) \in 1 .. n
    BY <1>1
  <2>2. key(j) < key(j + 1 + m)
    BY <1>5, <2>1
  <2>3. key(j + 1 + m) < key(j + 1 + (m + 1))
    BY <1>3, <2>1
  <2> QED
    BY <1>2, <2>1, <2>2, <2>3
<1>6. \A m \in Nat : m \in T
  <2> HIDE DEF T
  <2> QED
    BY <1>4, <1>5, Induction
<1>7. i - j - 1 \in Nat /\ j + 1 + (i - j - 1) = i
  BY <1>1
<1> QED
  BY <1>6, <1>7 DEF key

\* A row that was taken is found under its key, and nothing is under another.
LEMMA RowInIs ==
  ASSUME NEW view \in HandedViews, NEW n, Taken(view, n)
  PROVE  /\ \A i \in 1 .. n : RowIn(view, n, view.rows[i].key) = view.rows[i].value
         /\ \A k : (\A i \in 1 .. n : view.rows[i].key # k) => RowIn(view, n, k) = NoRow
<1>1. n \in 0 .. Len(view.rows) /\ n \in Nat /\ Len(view.rows) \in Nat
  BY ViewTypes DEF Taken
<1>2. ASSUME NEW i \in 1 .. n
      PROVE  RowIn(view, n, view.rows[i].key) = view.rows[i].value
  <2> DEFINE found == {x \in 1 .. n : view.rows[x].key = view.rows[i].key}
  <2>1. ASSUME NEW x \in 1 .. n, view.rows[x].key = view.rows[i].key PROVE x = i
    <3>1. view.rows[x].key \in Nat /\ view.rows[i].key \in Nat
      BY <1>1, ViewTypes
    <3>2. ~(x < i) /\ ~(i < x)
      BY <2>1, <3>1, KeysAscend
    <3> QED
      BY <1>1, <3>2
  <2>2. found = {i}
    BY <2>1
  <2>3. (CHOOSE x \in found : TRUE) = i
    BY <2>2
  <2> HIDE DEF found
  <2> QED
    BY <2>2, <2>3 DEF RowIn, found
<1>3. ASSUME NEW k, \A i \in 1 .. n : view.rows[i].key # k
      PROVE  RowIn(view, n, k) = NoRow
  BY <1>3 DEF RowIn
<1> QED
  BY <1>2, <1>3

\* The rows that were taken, as a table.
TableTo(view, n) == [k \in Keys |-> RowIn(view, n, k)]

\* What was taken of a view is a table.
LEMMA TableToType ==
  ASSUME NEW view \in HandedViews, NEW n, Taken(view, n)
  PROVE  /\ TableTo(view, n) \in Table
         /\ \A k \in Keys : TableTo(view, n)[k] # NoRow
                              => \E i \in 1 .. n : view.rows[i].key = k
<1>1. n \in 0 .. Len(view.rows) /\ Len(view.rows) \in Nat
  BY ViewTypes DEF Taken
<1>2. ASSUME NEW k \in Keys
      PROVE  /\ RowIn(view, n, k) \in Values \union {NoRow}
             /\ RowIn(view, n, k) # NoRow => \E i \in 1 .. n : view.rows[i].key = k
  <2>1. CASE \A i \in 1 .. n : view.rows[i].key # k
    BY <2>1, RowInIs
  <2>2. CASE \E i \in 1 .. n : view.rows[i].key = k
    <3>1. PICK i \in 1 .. n : view.rows[i].key = k
      BY <2>2
    <3>2. i \in 1 .. Len(view.rows)
      BY <1>1
    <3>3. RowIn(view, n, k) = view.rows[i].value
      BY <3>1, RowInIs
    <3> QED
      BY <3>1, <3>2, <3>3, ViewTypes
  <2> QED
    BY <2>1, <2>2
<1> QED
  BY <1>2 DEF TableTo, Table

\* One more row.
LEMMA TableToNext ==
  ASSUME NEW view \in HandedViews, NEW n \in Nat, Taken(view, n + 1)
  PROVE  /\ Taken(view, n)
         /\ TableTo(view, n + 1) = [TableTo(view, n) EXCEPT
                                      ![view.rows[n + 1].key] = view.rows[n + 1].value]
         /\ \A i \in 1 .. n : view.rows[i].key < view.rows[n + 1].key
<1>1. n + 1 \in 0 .. Len(view.rows) /\ Len(view.rows) \in Nat /\ n + 1 \in 1 .. n + 1
      /\ n + 1 \in 1 .. Len(view.rows)
  BY ViewTypes DEF Taken
<1>2. Taken(view, n)
  BY <1>1 DEF Taken
<1> DEFINE key == view.rows[n + 1].key
<1>3. ASSUME NEW k \in Keys, k # key PROVE RowIn(view, n + 1, k) = RowIn(view, n, k)
  <2> DEFINE A == {i \in 1 .. n + 1 : view.rows[i].key = k}
             B == {i \in 1 .. n : view.rows[i].key = k}
  <2>1. A = B
    <3>1. \A i \in 1 .. n + 1 : i \in 1 .. n \/ i = n + 1
      BY <1>1
    <3>2. \A i \in 1 .. n : i \in 1 .. n + 1
      BY <1>1
    <3> QED
      BY <1>3, <3>1, <3>2
  <2>2. /\ RowIn(view, n + 1, k) = IF A = {} THEN NoRow ELSE view.rows[CHOOSE i \in A : TRUE].value
        /\ RowIn(view, n, k) = IF B = {} THEN NoRow ELSE view.rows[CHOOSE i \in B : TRUE].value
    BY DEF RowIn
  <2> HIDE DEF A, B
  <2> QED
    BY <2>1, <2>2
<1>4. RowIn(view, n + 1, key) = view.rows[n + 1].value
  BY <1>1, RowInIs
<1>5. \A i \in 1 .. n : view.rows[i].key < key
  BY <1>1, KeysAscend
<1>6. key \in Keys
  BY <1>1, ViewTypes
<1> HIDE DEF key
<1>7. TableTo(view, n + 1) = [TableTo(view, n) EXCEPT ![key] = view.rows[n + 1].value]
  BY <1>3, <1>4, <1>6 DEF TableTo
<1> QED
  BY <1>2, <1>5, <1>7 DEF key

\* A whole view, and the reference's table of it.
LEMMA TableToEnd ==
  ASSUME NEW view \in HandedViews, NEW k \in Keys
  PROVE  TableTo(view, Len(view.rows))[k] = RowOf(view, k)
<1>1. DOMAIN view.rows = 1 .. Len(view.rows)
  BY ViewTypes
<1> QED
  BY <1>1 DEF TableTo, RowIn, RowOf

\* A view that was taken to the end it declares is sound.
LEMMA TakenIsSound ==
  ASSUME NEW view \in HandedViews, Taken(view, Len(view.rows)), view.declared = Len(view.rows)
  PROVE  Sound(view)
<1>1. DOMAIN view.rows = 1 .. Len(view.rows) /\ Len(view.rows) \in Nat
  BY ViewTypes
<1>2. ASSUME NEW i \in 1 .. Len(view.rows), NEW j \in 1 .. i - 1
      PROVE  Before(view.rows[j], view.rows[i])
  <2>1. j \in 1 .. Len(view.rows) /\ j < i
    BY <1>1
  <2> QED
    BY <2>1, KeysAscend, BeforeIsLess, ViewTypes
<1> QED
  BY <1>1, <1>2 DEF Sound

\* A sound view is never refused.
LEMMA SoundIsUnbroken ==
  ASSUME NEW view \in HandedViews, NEW i \in Nat \ {0}, Sound(view)
  PROVE  Pull(view, i) # Broken
<1>1. DOMAIN view.rows = 1 .. Len(view.rows) /\ Len(view.rows) \in Nat
  BY ViewTypes
<1>2. view.declared = Len(view.rows)
  BY DEF Sound
<1>3. CASE i <= Len(view.rows)
  <2>1. i \in 1 .. Len(view.rows) /\ view.rows[i] \in Image
    BY <1>1, <1>3, ViewTypes
  <2>2. InOrder(view.rows, i)
    <3>1. CASE i = 1
      BY <3>1 DEF InOrder
    <3>2. CASE i # 1
      <4>1. i \in 2 .. Len(view.rows) /\ i - 1 \in 1 .. i - 1 /\ i - 1 \in 1 .. Len(view.rows)
        BY <1>1, <1>3, <3>2
      <4>2. Before(view.rows[i - 1], view.rows[i])
        BY <1>1, <2>1, <4>1 DEF Sound
      <4>3. view.rows[i - 1].key < view.rows[i].key
        BY <2>1, <4>1, <4>2, ViewTypes, BeforeIsLess
      <4> QED
        BY <4>1, <4>3, InOrderIsLess
    <3> QED
      BY <3>1, <3>2
  <2> QED
    BY <1>2, <2>1, <2>2, NoRowAssumption DEF Pull
<1>4. CASE ~(i <= Len(view.rows))
  BY <1>2, <1>4, NoRowAssumption DEF Pull
<1> QED
  BY <1>3, <1>4

\* What asking for a row says of a view.
LEMMA PullIs ==
  ASSUME NEW view \in HandedViews, NEW n \in Nat, Taken(view, n), Pull(view, n + 1) # Broken
  PROVE  /\ Pull(view, n + 1) = NoRow => n = Len(view.rows) /\ view.declared = n
         /\ Pull(view, n + 1) # NoRow => /\ n + 1 \in 1 .. Len(view.rows)
                                         /\ Pull(view, n + 1) = view.rows[n + 1]
                                         /\ Taken(view, n + 1)
<1>1. n \in 0 .. Len(view.rows) /\ Len(view.rows) \in Nat
  BY ViewTypes DEF Taken
<1>2. CASE n + 1 <= Len(view.rows)
  <2>1. n + 1 \in 1 .. Len(view.rows) /\ view.rows[n + 1] # NoRow
    BY <1>1, <1>2, ViewTypes, NoRowAssumption
  <2>2. Pull(view, n + 1) = view.rows[n + 1] /\ InOrder(view.rows, n + 1) /\ n + 1 <= view.declared
    BY <1>2 DEF Pull
  <2>3. \A i \in 1 .. n + 1 : i \in 1 .. n \/ i = n + 1
    BY <1>1
  <2>4. Taken(view, n + 1)
    BY <1>1, <2>1, <2>2, <2>3 DEF Taken
  <2> QED
    BY <2>1, <2>2, <2>4
<1>3. CASE ~(n + 1 <= Len(view.rows))
  <2>1. n = Len(view.rows) /\ Pull(view, n + 1) = NoRow /\ view.declared = Len(view.rows)
    BY <1>1, <1>3 DEF Pull
  <2> QED
    BY <2>1
<1> QED
  BY <1>2, <1>3

\* The next row of the one view is beyond what was taken of the other.
Ahead(one, l, other, r) ==
  l + 1 <= Len(one.rows) /\ InOrder(one.rows, l + 1) =>
    \A j \in 1 .. r : other.rows[j].key < one.rows[l + 1].key

\* A row taken of one view alone leaves both ahead of what was taken.
LEMMA TakeOne ==
  ASSUME NEW one \in HandedViews, NEW other \in HandedViews, NEW l \in Nat, NEW r \in Nat,
         Taken(one, l + 1), Taken(other, r), Ahead(one, l, other, r),
         r + 1 <= Len(other.rows) /\ InOrder(other.rows, r + 1)
           => one.rows[l + 1].key < other.rows[r + 1].key
  PROVE  /\ Ahead(one, l + 1, other, r)
         /\ Ahead(other, r, one, l + 1)
         /\ \A i \in 1 .. l : one.rows[i].key < one.rows[l + 1].key
         /\ \A j \in 1 .. r : other.rows[j].key < one.rows[l + 1].key
<1> DEFINE K == one.rows[l + 1].key
<1>1. /\ l + 1 \in 1 .. Len(one.rows) /\ Len(one.rows) \in Nat
      /\ Len(other.rows) \in Nat /\ r <= Len(other.rows)
      /\ InOrder(one.rows, l + 1) /\ K \in Nat
  <2>1. Len(one.rows) \in Nat /\ Len(other.rows) \in Nat
    BY ViewTypes
  <2>2. l + 1 \in 0 .. Len(one.rows) /\ l + 1 \in 1 .. l + 1 /\ r \in 0 .. Len(other.rows)
    BY DEF Taken
  <2>3. l + 1 \in 1 .. Len(one.rows)
    BY <2>1, <2>2
  <2>4. K \in Nat
    BY <2>3, ViewTypes
  <2> QED
    BY <2>1, <2>2, <2>3, <2>4 DEF Taken
<1>2. \A i \in 1 .. l : one.rows[i].key < K
  BY TableToNext
<1>3. \A j \in 1 .. r : other.rows[j].key < K
  BY <1>1 DEF Ahead
<1>4. ASSUME l + 1 + 1 <= Len(one.rows), InOrder(one.rows, l + 1 + 1), NEW j \in 1 .. r
      PROVE  other.rows[j].key < one.rows[l + 1 + 1].key
  <2>1. l + 2 \in 2 .. Len(one.rows) /\ l + 2 \in 1 .. Len(one.rows) /\ (l + 2) - 1 = l + 1
        /\ l + 1 + 1 = l + 2 /\ j \in 1 .. Len(other.rows)
    BY <1>1, <1>4
  <2>2. K < one.rows[l + 2].key
    BY <1>4, <2>1, InOrderIsLess
  <2>3. other.rows[j].key \in Nat /\ one.rows[l + 2].key \in Nat
    BY <2>1, ViewTypes
  <2>4. other.rows[j].key < K
    BY <1>3
  <2> HIDE DEF K
  <2>5. \A x, y, z \in Nat : x < y /\ y < z => x < z
    OBVIOUS
  <2>6. other.rows[j].key < one.rows[l + 2].key
    BY <1>1, <2>2, <2>3, <2>4, <2>5
  <2> QED
    BY <2>1, <2>6
<1>5. ASSUME r + 1 <= Len(other.rows), InOrder(other.rows, r + 1), NEW i \in 1 .. l + 1
      PROVE  one.rows[i].key < other.rows[r + 1].key
  <2>1. K < other.rows[r + 1].key
    BY <1>5
  <2>2. i \in 1 .. Len(one.rows) /\ r + 1 \in 1 .. Len(other.rows) /\ (i \in 1 .. l \/ i = l + 1)
    BY <1>1, <1>5
  <2>3. one.rows[i].key \in Nat /\ other.rows[r + 1].key \in Nat
    BY <2>2, ViewTypes
  <2>4. one.rows[i].key <= K
    BY <1>1, <1>2, <2>2, <2>3
  <2> HIDE DEF K
  <2> QED
    BY <1>1, <2>1, <2>3, <2>4
<1> QED
  BY <1>2, <1>3, <1>4, <1>5 DEF Ahead

\* So does a row of each under one key.
LEMMA TakeBoth ==
  ASSUME NEW one \in HandedViews, NEW other \in HandedViews, NEW l \in Nat, NEW r \in Nat,
         Taken(one, l + 1), Taken(other, r + 1), Ahead(one, l, other, r),
         one.rows[l + 1].key = other.rows[r + 1].key
  PROVE  /\ Ahead(one, l + 1, other, r + 1)
         /\ \A i \in 1 .. l : one.rows[i].key < one.rows[l + 1].key
<1> DEFINE K == one.rows[l + 1].key
<1>1. /\ l + 1 \in 1 .. Len(one.rows) /\ Len(one.rows) \in Nat
      /\ r + 1 \in 1 .. Len(other.rows) /\ Len(other.rows) \in Nat
  <2>1. Len(one.rows) \in Nat /\ Len(other.rows) \in Nat
    BY ViewTypes
  <2>2. l + 1 \in 0 .. Len(one.rows) /\ r + 1 \in 0 .. Len(other.rows)
    BY DEF Taken
  <2> QED
    BY <2>1, <2>2
<1>2. \A i \in 1 .. l : one.rows[i].key < K
  BY TableToNext
<1>3. \A j \in 1 .. r : other.rows[j].key < K
  BY TableToNext
<1>4. ASSUME l + 1 + 1 <= Len(one.rows), InOrder(one.rows, l + 1 + 1), NEW j \in 1 .. r + 1
      PROVE  other.rows[j].key < one.rows[l + 1 + 1].key
  <2>1. l + 2 \in 2 .. Len(one.rows) /\ l + 2 \in 1 .. Len(one.rows) /\ (l + 2) - 1 = l + 1
        /\ l + 1 + 1 = l + 2 /\ j \in 1 .. Len(other.rows) /\ (j \in 1 .. r \/ j = r + 1)
    BY <1>1, <1>4
  <2>2. K < one.rows[l + 2].key
    BY <1>4, <2>1, InOrderIsLess
  <2>3. other.rows[j].key \in Nat /\ one.rows[l + 2].key \in Nat /\ K \in Nat
    BY <1>1, <2>1, ViewTypes
  <2>4. other.rows[j].key <= K
    <3>1. CASE j \in 1 .. r
      BY <1>3, <2>3, <3>1
    <3>2. CASE j = r + 1
      BY <2>3, <3>2
    <3> QED
      BY <2>1, <3>1, <3>2
  <2> HIDE DEF K
  <2>5. \A x, y, z \in Nat : x <= y /\ y < z => x < z
    OBVIOUS
  <2>6. other.rows[j].key < one.rows[l + 2].key
    BY <2>2, <2>3, <2>4, <2>5
  <2> QED
    BY <2>1, <2>6
<1> QED
  BY <1>2, <1>4 DEF Ahead

\* Both views were taken in the order of their keys.
ViewsMerged(l, r) ==
  /\ Taken(ask.left, l) /\ Taken(ask.right, r)
  /\ Ahead(ask.left, l, ask.right, r)
  /\ Ahead(ask.right, r, ask.left, l)

\* A round takes all rows of one key, which is beyond all that were taken.
LEMMA RoundOfMerge ==
  ASSUME AskShape, MergeShape, NEW l \in Nat, NEW r \in Nat,
         l + 1 = merge.left, r + 1 = merge.right, ViewsMerged(l, r),
         Left # Broken, Right # Broken, Left # NoRow \/ Right # NoRow
  PROVE  \E K \in Keys :
           LET l2 == l + IF TakesLeft THEN 1 ELSE 0
               r2 == r + IF TakesRight THEN 1 ELSE 0
               L  == TableTo(ask.left, l)
               R  == TableTo(ask.right, r)
           IN /\ ViewsMerged(l2, r2)
              /\ TableTo(ask.left, l2) = [L EXCEPT ![K] = ValueOf(TakenLeft)]
              /\ TableTo(ask.right, r2) = [R EXCEPT ![K] = ValueOf(TakenRight)]
              /\ \A k \in Keys : L[k] # NoRow \/ R[k] # NoRow => k < K
              /\ TakenLeft # NoRow => TakenLeft.key = K
              /\ TakenRight # NoRow => TakenRight.key = K
<1> DEFINE lv == ask.left
           rv == ask.right
           L  == TableTo(lv, l)
           R  == TableTo(rv, r)
<1>1. /\ lv \in HandedViews /\ rv \in HandedViews
      /\ Taken(lv, l) /\ Taken(rv, r) /\ Ahead(lv, l, rv, r) /\ Ahead(rv, r, lv, l)
      /\ Left = Pull(lv, l + 1) /\ Right = Pull(rv, r + 1)
  BY Budgets DEF ViewsMerged, Left, Right
<1>2. /\ Left = NoRow => l = Len(lv.rows)
      /\ Left # NoRow => /\ l + 1 \in 1 .. Len(lv.rows) /\ Left = lv.rows[l + 1]
                         /\ Taken(lv, l + 1)
  BY <1>1, PullIs
<1>3. /\ Right = NoRow => r = Len(rv.rows)
      /\ Right # NoRow => /\ r + 1 \in 1 .. Len(rv.rows) /\ Right = rv.rows[r + 1]
                          /\ Taken(rv, r + 1)
  BY <1>1, PullIs
<1>4. /\ Left # NoRow => Left \in Image /\ Left.key \in Keys /\ Left.key \in Nat
      /\ Right # NoRow => Right \in Image /\ Right.key \in Keys /\ Right.key \in Nat
  BY <1>1, <1>2, <1>3, ViewTypes
<1>5. /\ L \in Table /\ R \in Table
      /\ \A k \in Keys : L[k] # NoRow => \E i \in 1 .. l : lv.rows[i].key = k
      /\ \A k \in Keys : R[k] # NoRow => \E j \in 1 .. r : rv.rows[j].key = k
  BY <1>1, TableToType
<1>6. ASSUME NEW K \in Keys, \A i \in 1 .. l : lv.rows[i].key < K,
             \A j \in 1 .. r : rv.rows[j].key < K
      PROVE  /\ \A k \in Keys : L[k] # NoRow \/ R[k] # NoRow => k < K
             /\ [L EXCEPT ![K] = NoRow] = L /\ [R EXCEPT ![K] = NoRow] = R
  <2>1. \A k \in Keys : L[k] # NoRow \/ R[k] # NoRow => k < K
    BY <1>5, <1>6
  <2>2. ~(K < K)
    BY KeysAssumption
  <2>3. L[K] = NoRow /\ R[K] = NoRow
    BY <2>1, <2>2
  <2> HIDE DEF L, R
  <2> QED
    BY <1>5, <2>1, <2>3 DEF Table
<1>7. CASE TakesLeft /\ TakesRight
  <2>1. Left # NoRow /\ Right # NoRow /\ ~Before(Right, Left) /\ ~Before(Left, Right)
    BY <1>7 DEF TakesLeft, TakesRight
  <2>2. Left.key = Right.key
    BY <1>4, <2>1, BeforeIsLess
  <2> DEFINE K == Left.key
  <2>3. /\ Ahead(lv, l + 1, rv, r + 1) /\ Ahead(rv, r + 1, lv, l + 1)
        /\ \A i \in 1 .. l : lv.rows[i].key < K
        /\ \A j \in 1 .. r : rv.rows[j].key < K
    BY <1>1, <1>2, <1>3, <2>1, <2>2, TakeBoth
  <2>4. /\ TableTo(lv, l + 1) = [L EXCEPT ![K] = Left.value]
        /\ TableTo(rv, r + 1) = [R EXCEPT ![K] = Right.value]
    <3>1. TableTo(lv, l + 1) = [L EXCEPT ![lv.rows[l + 1].key] = lv.rows[l + 1].value]
      BY <1>1, <1>2, <2>1, TableToNext
    <3>2. TableTo(rv, r + 1) = [R EXCEPT ![rv.rows[r + 1].key] = rv.rows[r + 1].value]
      BY <1>1, <1>3, <2>1, TableToNext
    <3> QED
      BY <1>2, <1>3, <2>1, <2>2, <3>1, <3>2
  <2>5. TakenLeft = Left /\ TakenRight = Right /\ K \in Keys
    BY <1>4, <1>7, <2>1 DEF TakenLeft, TakenRight
  <2>6. ValueOf(TakenLeft) = Left.value /\ ValueOf(TakenRight) = Right.value
    BY <2>1, <2>5 DEF ValueOf
  <2>7. \A k \in Keys : L[k] # NoRow \/ R[k] # NoRow => k < K
    BY <1>6, <2>3, <2>5
  <2>8. ViewsMerged(l + 1, r + 1)
    BY <1>2, <1>3, <2>1, <2>3 DEF ViewsMerged
  <2> QED
    BY <1>7, <2>2, <2>4, <2>5, <2>6, <2>7, <2>8
<1>8. CASE TakesLeft /\ ~TakesRight
  <2>1. Left # NoRow /\ (Right = NoRow \/ Before(Left, Right))
    BY <1>8 DEF TakesLeft, TakesRight
  <2> DEFINE K == Left.key
  <2>2. r + 1 <= Len(rv.rows) /\ InOrder(rv.rows, r + 1) => K < rv.rows[r + 1].key
    <3>1. CASE Right = NoRow
      BY <1>1, <1>3, <3>1, ViewTypes
    <3>2. CASE Right # NoRow
      BY <1>3, <1>4, <2>1, <3>2, BeforeIsLess
    <3> QED
      BY <3>1, <3>2
  <2>3. /\ Ahead(lv, l + 1, rv, r) /\ Ahead(rv, r, lv, l + 1)
        /\ \A i \in 1 .. l : lv.rows[i].key < K
        /\ \A j \in 1 .. r : rv.rows[j].key < K
    BY <1>1, <1>2, <2>1, <2>2, TakeOne
  <2>4. TableTo(lv, l + 1) = [L EXCEPT ![K] = Left.value]
    <3>1. TableTo(lv, l + 1) = [L EXCEPT ![lv.rows[l + 1].key] = lv.rows[l + 1].value]
      BY <1>1, <1>2, <2>1, TableToNext
    <3> QED
      BY <1>2, <2>1, <3>1
  <2>5. TakenLeft = Left /\ TakenRight = NoRow /\ K \in Keys /\ l + 0 = l /\ r + 0 = r
    BY <1>4, <1>8, <2>1 DEF TakenLeft, TakenRight
  <2>6. ValueOf(TakenLeft) = Left.value /\ ValueOf(TakenRight) = NoRow
    BY <2>1, <2>5 DEF ValueOf
  <2>7. /\ \A k \in Keys : L[k] # NoRow \/ R[k] # NoRow => k < K
        /\ [R EXCEPT ![K] = NoRow] = R
    BY <1>6, <2>3, <2>5
  <2>8. ViewsMerged(l + 1, r)
    BY <1>1, <1>2, <2>1, <2>3 DEF ViewsMerged
  <2> QED
    BY <1>8, <2>4, <2>5, <2>6, <2>7, <2>8
<1>9. CASE ~TakesLeft /\ TakesRight
  <2>1. Right # NoRow /\ (Left = NoRow \/ Before(Right, Left))
    BY <1>9 DEF TakesLeft, TakesRight
  <2> DEFINE K == Right.key
  <2>2. l + 1 <= Len(lv.rows) /\ InOrder(lv.rows, l + 1) => K < lv.rows[l + 1].key
    <3>1. CASE Left = NoRow
      BY <1>1, <1>2, <3>1, ViewTypes
    <3>2. CASE Left # NoRow
      BY <1>2, <1>4, <2>1, <3>2, BeforeIsLess
    <3> QED
      BY <3>1, <3>2
  <2>3. /\ Ahead(rv, r + 1, lv, l) /\ Ahead(lv, l, rv, r + 1)
        /\ \A i \in 1 .. l : lv.rows[i].key < K
        /\ \A j \in 1 .. r : rv.rows[j].key < K
    BY <1>1, <1>3, <2>1, <2>2, TakeOne
  <2>4. TableTo(rv, r + 1) = [R EXCEPT ![K] = Right.value]
    BY <1>1, <1>3, <2>1, TableToNext
  <2>5. TakenRight = Right /\ TakenLeft = NoRow /\ K \in Keys /\ l + 0 = l /\ r + 0 = r
    BY <1>4, <1>9, <2>1 DEF TakenLeft, TakenRight
  <2>6. ValueOf(TakenRight) = Right.value /\ ValueOf(TakenLeft) = NoRow
    BY <2>1, <2>5 DEF ValueOf
  <2>7. /\ \A k \in Keys : L[k] # NoRow \/ R[k] # NoRow => k < K
        /\ [L EXCEPT ![K] = NoRow] = L
    BY <1>6, <2>3, <2>5
  <2>8. ViewsMerged(l, r + 1)
    BY <1>1, <1>3, <2>1, <2>3 DEF ViewsMerged
  <2> QED
    BY <1>9, <2>4, <2>5, <2>6, <2>7, <2>8
<1>10. TakesLeft \/ TakesRight
  <2>1. Left # NoRow /\ Right # NoRow => ~Before(Right, Left) \/ ~Before(Left, Right)
    BY <1>4, BeforeIsLess
  <2> QED
    BY <2>1 DEF TakesLeft, TakesRight
<1> QED
  BY <1>7, <1>8, <1>9, <1>10

\* What differs between two tables, in key order, and under what each key counts.
DiffKeys(before, after) == {k \in Keys : Asks(k) /\ before[k] # after[k]}

DiffList(before, after) ==
  LET changed == InKeyOrder(DiffKeys(before, after)) IN
  [i \in DOMAIN changed |->
     [key |-> changed[i], before |-> before[changed[i]], after |-> after[changed[i]]]]

DiffOrdered(before, after) ==
  InKeyOrder(DiffKeys(before, after)) \in Seq(DiffKeys(before, after))

CountedAs(before, after, kind) ==
  {k \in Keys : /\ Asks(k)
                /\ before[k] # NoRow \/ after[k] # NoRow
                /\ CountOf(before[k], after[k]) = kind}

DiffCounts(before, after) ==
  [inserted  |-> Cardinality(CountedAs(before, after, "inserted")),
   deleted   |-> Cardinality(CountedAs(before, after, "deleted")),
   updated   |-> Cardinality(CountedAs(before, after, "updated")),
   unchanged |-> Cardinality(CountedAs(before, after, "unchanged"))]

\* The differences of two tables are changes.
LEMMA DiffListType ==
  ASSUME NEW before \in Table, NEW after \in Table, DiffOrdered(before, after)
  PROVE  /\ DiffList(before, after) \in Seq(Changes)
         /\ Len(DiffList(before, after)) = Cardinality(DiffKeys(before, after))
         /\ DOMAIN InKeyOrder(DiffKeys(before, after)) = 1 .. Cardinality(DiffKeys(before, after))
         /\ Cardinality(DiffKeys(before, after)) \in Nat
         /\ \A i \in 1 .. Cardinality(DiffKeys(before, after)) :
              InKeyOrder(DiffKeys(before, after))[i] \in DiffKeys(before, after)
<1> DEFINE S == DiffKeys(before, after)
           order == InKeyOrder(S)
           n == Cardinality(S)
<1>1. S \in SUBSET Keys
  BY DEF DiffKeys
<1>2. n \in Nat /\ DOMAIN order = 1 .. n
  <2> HIDE DEF S
  <2> QED
    BY <1>1, KeyOrderDomain
<1>3. order \in Seq(S)
  BY DEF DiffOrdered
<1>4. \A i \in 1 .. n : order[i] \in S
  <2> HIDE DEF S, order, n
  <2> QED
    BY <1>2, <1>3
<1>5. \A k \in S : [key |-> k, before |-> before[k], after |-> after[k]] \in Changes
  BY DEF DiffKeys, Table, Changes
<1>6. DiffList(before, after) \in [1 .. n -> Changes]
  <2>1. DiffList(before, after) =
          [i \in DOMAIN order |->
             [key |-> order[i], before |-> before[order[i]], after |-> after[order[i]]]]
    BY DEF DiffList
  <2> HIDE DEF S, order, n
  <2> QED
    BY <1>2, <1>4, <1>5, <2>1
<1> HIDE DEF order, n
<1>7. DiffList(before, after) \in Seq(Changes) /\ Len(DiffList(before, after)) = n
  BY <1>2, <1>6
<1> QED
  BY <1>2, <1>4, <1>7 DEF order, n

\* A table with one row put into another.
Puts(before, K, b, after) ==
  /\ after \in Table
  /\ after[K] = b
  /\ \A k \in Keys : k # K => after[k] = before[k]

\* Its rows and another's have keys below another key.
AllBelow(before, after, K) ==
  \A k \in Keys : before[k] # NoRow \/ after[k] # NoRow => k < K

\* One more key, beyond the others.
LEMMA DiffListNext ==
  ASSUME NEW before \in Table, NEW after \in Table, DiffOrdered(before, after),
         NEW K \in Keys, NEW b \in Values \union {NoRow}, NEW a \in Values \union {NoRow},
         AllBelow(before, after, K),
         NEW before2, NEW after2,
         Puts(before, K, b, before2), Puts(after, K, a, after2)
  PROVE  /\ DiffOrdered(before2, after2)
         /\ DiffList(before2, after2) =
              IF Asks(K) /\ b # a
              THEN Append(DiffList(before, after), [key |-> K, before |-> b, after |-> a])
              ELSE DiffList(before, after)
<1> DEFINE S  == DiffKeys(before, after)
           S2 == DiffKeys(before2, after2)
           n  == Cardinality(S)
           order == InKeyOrder(S)
           order2 == InKeyOrder(S2)
           item(k) == [key |-> k, before |-> before[k], after |-> after[k]]
           item2(k) == [key |-> k, before |-> before2[k], after |-> after2[k]]
<1>1. /\ \A k \in Keys : k # K => before2[k] = before[k] /\ after2[k] = after[k]
      /\ before2[K] = b /\ after2[K] = a
      /\ ~(K < K)
  BY KeysAssumption DEF Puts, AllBelow
<1>2. \A k \in S : k \in Keys /\ k < K /\ k # K
  BY <1>1 DEF DiffKeys, AllBelow
<1>3. before[K] = NoRow /\ after[K] = NoRow
  BY <1>1 DEF AllBelow
<1>4. /\ n \in Nat /\ DOMAIN order = 1 .. n /\ \A i \in 1 .. n : order[i] \in S
      /\ DiffList(before, after) \in Seq(Changes) /\ Len(DiffList(before, after)) = n
      /\ order \in Seq(S)
  BY DiffListType DEF DiffOrdered
<1>5. \A k \in S : item2(k) = item(k)
  BY <1>1, <1>2
<1>6. DiffList(before, after) = [i \in DOMAIN order |-> item(order[i])]
  BY DEF DiffList
<1>7. DiffList(before2, after2) = [i \in DOMAIN order2 |-> item2(order2[i])]
  BY DEF DiffList
<1>8. CASE ~(Asks(K) /\ b # a)
  <2>1. S2 = S
    <3>1. \A k \in Keys : k \in S2 <=> k \in S
      BY <1>1, <1>3, <1>8 DEF DiffKeys
    <3>2. S \subseteq Keys /\ S2 \subseteq Keys
      BY DEF DiffKeys
    <3> HIDE DEF S, S2
    <3> QED
      BY <3>1, <3>2
  <2>2. DiffOrdered(before2, after2)
    BY <1>4, <2>1 DEF DiffOrdered
  <2>3. DiffList(before2, after2) = DiffList(before, after)
    <3>1. order2 = order
      BY <2>1
    <3> HIDE DEF order, order2, S, n, item, item2
    <3> QED
      BY <1>4, <1>5, <1>6, <1>7, <3>1
  <2> QED
    BY <1>8, <2>2, <2>3
<1>9. CASE Asks(K) /\ b # a
  <2>1. S2 = S \union {K}
    <3>1. \A k \in Keys : k \in S2 <=> k \in S \/ k = K
      BY <1>1, <1>9 DEF DiffKeys
    <3>2. S \subseteq Keys /\ S2 \subseteq Keys
      BY DEF DiffKeys
    <3> HIDE DEF S, S2
    <3> QED
      BY <3>1, <3>2
  <2>2. S \in SUBSET Keys /\ \A k \in S : k < K
    BY <1>2
  <2>3. order2 = Append(order, K) /\ order2 \in Seq(S2)
    <3> HIDE DEF S, S2
    <3> QED
      BY <1>4, <2>1, <2>2, KeyOrderNext
  <2>4. DiffOrdered(before2, after2)
    BY <2>3 DEF DiffOrdered
  <2>5. DiffList(before2, after2) =
          Append(DiffList(before, after), [key |-> K, before |-> b, after |-> a])
    <3>1. item2(K) = [key |-> K, before |-> b, after |-> a]
      BY <1>1
    <3> DEFINE list == DiffList(before, after)
               list2 == DiffList(before2, after2)
               new == [key |-> K, before |-> b, after |-> a]
    <3>2. Len(order) = n /\ order \in Seq(S)
      <4>1. Len(order) \in Nat /\ DOMAIN order = 1 .. Len(order)
        <5> HIDE DEF order, S, n
        <5> QED
          BY <1>4
      <4> HIDE DEF order, n, S
      <4> QED
        BY <1>4, <4>1
    <3>3. DOMAIN order2 = 1 .. n + 1 /\ order2[n + 1] = K /\ \A i \in 1 .. n : order2[i] = order[i]
      <4> HIDE DEF order, order2, n, S, S2
      <4> QED
        BY <1>4, <2>3, <3>2
    <3>4. list2 = [i \in 1 .. n + 1 |-> item2(order2[i])]
      <4> HIDE DEF order2, n, item2
      <4> QED
        BY <1>7, <3>3
    <3>5. \A i \in 1 .. n : list[i] = item2(order2[i])
      <4> HIDE DEF order, order2, n, item, item2, S
      <4> QED
        BY <1>4, <1>5, <1>6, <3>3
    <3>6. item2(order2[n + 1]) = new
      BY <3>1, <3>3
    <3>7. list \in Seq(Changes) /\ Len(list) = n
      BY <1>4
    <3> HIDE DEF list, list2, new, item2, order2, order, n, S, S2, item
    <3>8. list2 = Append(list, new)
      <4>1. new \in Changes
        BY DEF new, Changes
      <4>2. \A i \in 1 .. n + 1 : i \in 1 .. n \/ i = n + 1
        BY <1>4
      <4>3. \A i \in 1 .. n : list[i] \in Changes
        BY <3>7
      <4>4. \A i \in 1 .. n + 1 : item2(order2[i]) \in Changes
        BY <3>5, <3>6, <4>1, <4>2, <4>3
      <4>5. list2 \in Seq(Changes) /\ Len(list2) = n + 1
        <5>1. list2 \in [1 .. n + 1 -> Changes]
          BY <3>4, <4>4
        <5>2. n + 1 \in Nat
          BY <1>4
        <5> QED
          BY <5>1, <5>2
      <4>6. list2[n + 1] = new /\ \A i \in 1 .. n : list2[i] = list[i]
        BY <1>4, <3>4, <3>5, <3>6
      <4> QED
        BY <1>4, <3>7, <4>1, <4>5, <4>6
    <3> QED
      BY <3>8 DEF list, list2, new
  <2> QED
    BY <1>9, <2>4, <2>5
<1> QED
  BY <1>8, <1>9

\* It counts once.
LEMMA CountedNext ==
  ASSUME NEW before \in Table, NEW after \in Table,
         NEW K \in Keys, NEW b \in Values \union {NoRow}, NEW a \in Values \union {NoRow},
         b # NoRow \/ a # NoRow,
         AllBelow(before, after, K),
         NEW before2, NEW after2,
         Puts(before, K, b, before2), Puts(after, K, a, after2)
  PROVE  \A kind : Cardinality(CountedAs(before2, after2, kind)) =
                     Cardinality(CountedAs(before, after, kind))
                       + (IF Asks(K) /\ CountOf(b, a) = kind THEN 1 ELSE 0)
<1> SUFFICES ASSUME NEW kind
             PROVE  Cardinality(CountedAs(before2, after2, kind)) =
                      Cardinality(CountedAs(before, after, kind))
                        + (IF Asks(K) /\ CountOf(b, a) = kind THEN 1 ELSE 0)
  OBVIOUS
<1> DEFINE S  == CountedAs(before, after, kind)
           S2 == CountedAs(before2, after2, kind)
<1>1. /\ \A k \in Keys : k # K => before2[k] = before[k] /\ after2[k] = after[k]
      /\ before2[K] = b /\ after2[K] = a
      /\ ~(K < K)
  BY KeysAssumption DEF Puts, AllBelow
<1>2. K \notin S /\ S \subseteq Keys /\ S2 \subseteq Keys
  BY <1>1 DEF CountedAs, AllBelow
<1>3. \A k \in Keys : k # K => (k \in S2 <=> k \in S)
  BY <1>1, Zenon DEF CountedAs
<1>4. K \in S2 <=> Asks(K) /\ CountOf(b, a) = kind
  BY <1>1, Zenon DEF CountedAs
<1>5. IsFiniteSet(S) /\ Cardinality(S) \in Nat
  BY <1>2, KeysAssumption, FS_Subset, FS_CardinalityType
<1> HIDE DEF S, S2
<1>6. CASE K \in S2
  <2>1. S2 = S \union {K}
    BY <1>2, <1>3, <1>6
  <2>2. Cardinality(S \union {K}) = Cardinality(S) + 1
    BY <1>2, <1>5, FS_AddElement
  <2> QED
    BY <1>4, <1>6, <2>1, <2>2 DEF S, S2
<1>7. CASE K \notin S2
  <2>1. S2 = S
    BY <1>2, <1>3, <1>7
  <2> QED
    BY <1>4, <1>5, <1>7, <2>1 DEF S, S2
<1> QED
  BY <1>6, <1>7

\* The keys beyond a page's matches, and the page with them.
PagedTo(page, before, after) ==
  /\ PageSound(page, ask.page, Changes, DiffList(before, after))
  /\ DiffOrdered(before, after)
  /\ ~page.over

NoTable == [k \in Keys |-> NoRow]

\* What was merged is what differs between the rows that were taken, and what was
\* listed is what was taken.
MergeHolds ==
  pc = "merge" =>
    \E l, r \in Nat :
      /\ l + 1 = merge.left /\ r + 1 = merge.right
      /\ ask.op = "compare" =>
           /\ ViewsMerged(l, r)
           /\ PagedTo(merge.page, TableTo(ask.left, l), TableTo(ask.right, r))
           /\ merge.counts = DiffCounts(TableTo(ask.left, l), TableTo(ask.right, r))
      /\ ask.op = "rows" =>
           /\ Taken(ask.left, l)
           /\ PagedTo(merge.page, NoTable, TableTo(ask.left, l))

MergeInv == MergeHolds /\ ViewsAreExact

\* What is said of the views does not change.
LEMMA SameViews ==
  ASSUME ask' = ask
  PROVE  /\ \A l, r : ViewsMerged(l, r)' <=> ViewsMerged(l, r)
         /\ \A p, b, a : PagedTo(p, b, a)' <=> PagedTo(p, b, a)
         /\ \A b, a : DiffCounts(b, a)' = DiffCounts(b, a)
<1>1. \A l, r : ViewsMerged(l, r)' <=> ViewsMerged(l, r)
  BY DEF ViewsMerged
<1>2. \A p, b, a : PagedTo(p, b, a)' <=> PagedTo(p, b, a)
  BY DEF PagedTo, DiffList, DiffOrdered, DiffKeys, Asks, Chosen
<1>3. \A b, a : DiffCounts(b, a)' = DiffCounts(b, a)
  BY DEF DiffCounts, CountedAs, Asks, Chosen
<1> QED
  BY <1>1, <1>2, <1>3

\* A merged row: what it counts as, and where it goes.
LEMMA MergedIs ==
  ASSUME AskShape, MergeShape, NEW K \in Keys,
         NEW before \in Image \union {NoRow}, NEW after \in Image \union {NoRow},
         before # NoRow \/ after # NoRow,
         before # NoRow => before.key = K, after # NoRow => after.key = K
  PROVE  LET b == ValueOf(before)
             a == ValueOf(after)
             item == [key |-> K, before |-> b, after |-> a]
             next == Merged(before, after)
         IN /\ b \in Values \union {NoRow} /\ a \in Values \union {NoRow}
            /\ b # NoRow \/ a # NoRow
            /\ item \in Changes /\ ItemSize(item, NoRow) \in Nat
            /\ ~Asks(K) => next = merge
            /\ Asks(K) =>
                 /\ next.page = IF b = a THEN merge.page
                                ELSE AddItem(merge.page, ask.page, item, ItemSize(item, NoRow))
                 /\ next.counts = [merge.counts EXCEPT ![CountOf(b, a)] = @ + 1]
<1> DEFINE b == ValueOf(before)
           a == ValueOf(after)
           item == [key |-> K, before |-> b, after |-> a]
           row  == IF before = NoRow THEN after ELSE before
           kind == CountOf(before, after)
           page == IF kind = "unchanged" THEN merge.page
                   ELSE AddItem(merge.page, ask.page, item, ItemSize(item, NoRow))
           counts == [merge.counts EXCEPT ![kind] = @ + 1]
<1>1. /\ before # NoRow => b \in Values /\ b # NoRow
      /\ after # NoRow => a \in Values /\ a # NoRow
      /\ before = NoRow => b = NoRow
      /\ after = NoRow => a = NoRow
      /\ b \in Values \union {NoRow} /\ a \in Values \union {NoRow}
      /\ b # NoRow \/ a # NoRow
  BY NoRowAssumption DEF ValueOf, Image
<1>2. row.key = K
  OBVIOUS
<1>3. before # NoRow /\ after # NoRow => (before = after <=> b = a)
  BY DEF ValueOf, Image
<1>4. kind = CountOf(b, a)
  BY <1>1, <1>3, Zenon DEF CountOf
<1>5. kind = "unchanged" <=> b = a
  BY <1>1, <1>3 DEF CountOf
<1>6. item \in Changes /\ ItemSize(item, NoRow) \in Nat
  BY <1>1 DEF Changes, ItemSize, Carried
<1>7. Merged(before, after) = IF ~Chosen(TableOf[K]) THEN merge
                              ELSE [merge EXCEPT !.counts = counts, !.page = page]
  <2>1. [merge EXCEPT !.counts[kind] = @ + 1, !.page = page] =
          [merge EXCEPT !.counts = counts, !.page = page]
    OBVIOUS
  <2> QED
    BY <1>2, <2>1 DEF Merged
<1> HIDE DEF item, row, kind, page, counts, b, a
<1>8. /\ [merge EXCEPT !.counts = counts, !.page = page].page = page
      /\ [merge EXCEPT !.counts = counts, !.page = page].counts = counts
  BY DEF MergeShape
<1>9. /\ ~Asks(K) => Merged(before, after) = merge
      /\ Asks(K) => Merged(before, after).page = page /\ Merged(before, after).counts = counts
  BY <1>7, <1>8 DEF Asks
<1>10. page = IF b = a THEN merge.page
              ELSE AddItem(merge.page, ask.page, item, ItemSize(item, NoRow))
  BY <1>5 DEF page
<1>11. counts = [merge.counts EXCEPT ![CountOf(b, a)] = @ + 1]
  BY <1>4 DEF counts
<1> QED
  BY <1>1, <1>6, <1>9, <1>10, <1>11 DEF item, b, a

\* The counts with it.
LEMMA DiffCountsNext ==
  ASSUME NEW before \in Table, NEW after \in Table,
         NEW K \in Keys, NEW b \in Values \union {NoRow}, NEW a \in Values \union {NoRow},
         b # NoRow \/ a # NoRow,
         AllBelow(before, after, K),
         NEW before2, NEW after2,
         Puts(before, K, b, before2), Puts(after, K, a, after2)
  PROVE  DiffCounts(before2, after2) =
           IF Asks(K) THEN [DiffCounts(before, after) EXCEPT ![CountOf(b, a)] = @ + 1]
           ELSE DiffCounts(before, after)
<1> DEFINE C(kind) == Cardinality(CountedAs(before, after, kind))
           C2(kind) == Cardinality(CountedAs(before2, after2, kind))
<1>1. \A kind : C2(kind) = C(kind) + (IF Asks(K) /\ CountOf(b, a) = kind THEN 1 ELSE 0)
  BY CountedNext
<1>2. \A kind : C(kind) \in Nat
  <2> SUFFICES ASSUME NEW kind PROVE C(kind) \in Nat
    OBVIOUS
  <2>1. CountedAs(before, after, kind) \subseteq Keys
    BY DEF CountedAs
  <2> QED
    BY <2>1, KeysAssumption, FS_Subset, FS_CardinalityType
<1>3. /\ DiffCounts(before, after) =
           [inserted |-> C("inserted"), deleted |-> C("deleted"), updated |-> C("updated"),
            unchanged |-> C("unchanged")]
      /\ DiffCounts(before2, after2) =
           [inserted |-> C2("inserted"), deleted |-> C2("deleted"), updated |-> C2("updated"),
            unchanged |-> C2("unchanged")]
  BY DEF DiffCounts
<1>4. CountOf(b, a) \in {"inserted", "deleted", "updated", "unchanged"}
  BY DEF CountOf
<1> DEFINE kind == CountOf(b, a)
<1>5. DiffCounts(before2, after2) =
        IF Asks(K) THEN [DiffCounts(before, after) EXCEPT ![kind] = @ + 1]
        ELSE DiffCounts(before, after)
  <2>1. kind = "inserted" \/ kind = "deleted" \/ kind = "updated" \/ kind = "unchanged"
    BY <1>4
  <2>2. \A x : C2(x) = C(x) + (IF Asks(K) /\ kind = x THEN 1 ELSE 0)
    BY <1>1
  <2> HIDE DEF C, C2, kind
  <2>3. CASE ~Asks(K)
    <3>1. \A x : C2(x) = C(x)
      BY <1>2, <2>2, <2>3
    <3> QED
      BY <1>3, <2>3, <3>1
  <2>4. CASE Asks(K)
    <3>1. \A x : C2(x) = IF kind = x THEN C(x) + 1 ELSE C(x)
      BY <1>2, <2>2, <2>4
    <3>2. CASE kind = "inserted"
      BY <1>3, <2>4, <3>1, <3>2
    <3>3. CASE kind = "deleted"
      BY <1>3, <2>4, <3>1, <3>3
    <3>4. CASE kind = "updated"
      BY <1>3, <2>4, <3>1, <3>4
    <3>5. CASE kind = "unchanged"
      BY <1>3, <2>4, <3>1, <3>5
    <3> QED
      BY <2>1, <3>2, <3>3, <3>4, <3>5
  <2> QED
    BY <2>3, <2>4
<1> QED
  BY <1>5

\* Nothing was taken yet.
LEMMA NothingTaken ==
  ASSUME NEW view \in HandedViews
  PROVE  Taken(view, 0) /\ TableTo(view, 0) = NoTable
<1>1. Taken(view, 0)
  BY ViewTypes DEF Taken
<1>2. ASSUME NEW k \in Keys PROVE RowIn(view, 0, k) = NoRow
  BY <1>1, RowInIs
<1> QED
  BY <1>1, <1>2 DEF TableTo, NoTable

\* Two empty tables do not differ.
LEMMA NothingDiffers ==
  ASSUME ask.page \in Options
  PROVE  PagedTo(EmptyPage, NoTable, NoTable) /\ DiffCounts(NoTable, NoTable) = NoCounts
<1>1. DiffKeys(NoTable, NoTable) = {}
  BY DEF DiffKeys
<1>2. DiffOrdered(NoTable, NoTable) /\ DiffList(NoTable, NoTable) = << >>
  BY <1>1, KeyOrderEmpty DEF DiffOrdered, DiffList
<1>3. \A kind : CountedAs(NoTable, NoTable, kind) = {}
  BY DEF CountedAs, NoTable
<1>4. DiffCounts(NoTable, NoTable) = NoCounts
  BY <1>3, FS_EmptySet DEF DiffCounts, NoCounts
<1> QED
  BY <1>2, <1>4, EmptyPageSound DEF PagedTo

\* The first round is still to come.
LEMMA StartsMerging ==
  ASSUME Shape, pc' = "merge", ask' = ask, merge' = NotMerging
  PROVE  MergeHolds'
<1> USE DEF Shape
<1>1. ask.left \in HandedViews /\ ask.right \in HandedViews /\ ask.page \in Options
  BY Budgets
<1>2. /\ Taken(ask.left, 0) /\ TableTo(ask.left, 0) = NoTable
      /\ Taken(ask.right, 0) /\ TableTo(ask.right, 0) = NoTable
  BY <1>1, NothingTaken
<1>3. ViewsMerged(0, 0)
  BY <1>2 DEF ViewsMerged, Ahead
<1>4. /\ merge'.left = 0 + 1 /\ merge'.right = 0 + 1
      /\ merge'.page = EmptyPage /\ merge'.counts = NoCounts
  BY DEF NotMerging
<1>5. /\ ViewsMerged(0, 0)' /\ PagedTo(EmptyPage, NoTable, NoTable)'
      /\ DiffCounts(NoTable, NoTable)' = NoCounts
  BY <1>1, <1>3, NothingDiffers, SameViews
<1>6. /\ PagedTo(merge.page, TableTo(ask.left, 0), TableTo(ask.right, 0))'
      /\ PagedTo(merge.page, NoTable, TableTo(ask.left, 0))'
      /\ merge'.counts = DiffCounts(TableTo(ask.left, 0), TableTo(ask.right, 0))'
      /\ Taken(ask.left, 0)'
  BY <1>2, <1>4, <1>5 DEF PagedTo, DiffCounts, CountedAs, Asks, Chosen, DiffList, DiffOrdered, DiffKeys
<1> QED
  BY <1>4, <1>5, <1>6 DEF MergeHolds

\* A round of the merge.
LEMMA MergeRowHolds ==
  ASSUME Shape, MergeInv, MergeRow, pc' # "done"
  PROVE  MergeHolds'
<1> USE DEF Shape
<1> DEFINE next == Merged(TakenLeft, TakenRight)
<1>1. /\ pc = "merge" /\ ask.op = "compare" /\ ask' = ask
      /\ Left # NoRow \/ Right # NoRow
      /\ Left # Broken /\ Right # Broken
      /\ ~next.page.over
      /\ merge' = [next EXCEPT !.left = @ + IF TakesLeft THEN 1 ELSE 0,
                               !.right = @ + IF TakesRight THEN 1 ELSE 0]
  BY DEF MergeRow, Merging, Reject, TakenLeft, TakenRight
<1>2. PICK l \in Nat, r \in Nat :
        /\ l + 1 = merge.left /\ r + 1 = merge.right
        /\ ViewsMerged(l, r)
        /\ PagedTo(merge.page, TableTo(ask.left, l), TableTo(ask.right, r))
        /\ merge.counts = DiffCounts(TableTo(ask.left, l), TableTo(ask.right, r))
  BY <1>1 DEF MergeInv, MergeHolds
<1> DEFINE L  == TableTo(ask.left, l)
           R  == TableTo(ask.right, r)
           l2 == l + IF TakesLeft THEN 1 ELSE 0
           r2 == r + IF TakesRight THEN 1 ELSE 0
           b  == ValueOf(TakenLeft)
           a  == ValueOf(TakenRight)
<1>3. PICK K \in Keys :
        /\ ViewsMerged(l2, r2)
        /\ TableTo(ask.left, l2) = [L EXCEPT ![K] = b]
        /\ TableTo(ask.right, r2) = [R EXCEPT ![K] = a]
        /\ \A k \in Keys : L[k] # NoRow \/ R[k] # NoRow => k < K
        /\ TakenLeft # NoRow => TakenLeft.key = K
        /\ TakenRight # NoRow => TakenRight.key = K
  BY <1>1, <1>2, RoundOfMerge
<1>4. L \in Table /\ R \in Table
  BY <1>2, Budgets, TableToType DEF ViewsMerged
<1> DEFINE item == [key |-> K, before |-> b, after |-> a]
<1>5. /\ TakenLeft \in Image \union {NoRow} /\ TakenRight \in Image \union {NoRow}
      /\ TakenLeft # NoRow \/ TakenRight # NoRow
  BY <1>1, TakesOne
<1>6. /\ b \in Values \union {NoRow} /\ a \in Values \union {NoRow}
      /\ b # NoRow \/ a # NoRow
      /\ item \in Changes /\ ItemSize(item, NoRow) \in Nat
      /\ ~Asks(K) => next = merge
      /\ Asks(K) =>
           /\ next.page = IF b = a THEN merge.page
                          ELSE AddItem(merge.page, ask.page, item, ItemSize(item, NoRow))
           /\ next.counts = [merge.counts EXCEPT ![CountOf(b, a)] = @ + 1]
  BY <1>3, <1>5, MergedIs
<1>7. next \in Merges /\ next.left = merge.left /\ next.right = merge.right
  BY <1>5, MergedType
<1> HIDE DEF next, L, R, b, a, item
<1>8. /\ merge'.left = l2 + 1 /\ merge'.right = r2 + 1
      /\ merge'.page = next.page /\ merge'.counts = next.counts
      /\ l2 \in Nat /\ r2 \in Nat
  BY <1>1, <1>2, <1>7 DEF Merges
<1> DEFINE L2 == TableTo(ask.left, l2)
           R2 == TableTo(ask.right, r2)
<1>19. Puts(L, K, b, L2) /\ Puts(R, K, a, R2) /\ AllBelow(L, R, K)
  <2>1. L2 = [L EXCEPT ![K] = b] /\ R2 = [R EXCEPT ![K] = a]
    BY <1>3
  <2> HIDE DEF L2, R2
  <2> QED
    BY <1>3, <1>4, <1>6, <2>1 DEF Puts, Table, AllBelow
<1>9. /\ DiffOrdered(L2, R2)
      /\ DiffList(L2, R2) =
           IF Asks(K) /\ b # a THEN Append(DiffList(L, R), item) ELSE DiffList(L, R)
  <2>1. DiffOrdered(L, R)
    BY <1>2 DEF PagedTo, L, R
  <2> QED
    <3> HIDE DEF L2, R2
    <3>1. b \in Values \union {NoRow} /\ a \in Values \union {NoRow}
      BY <1>6
    <3>2. /\ DiffOrdered(L2, R2)
          /\ DiffList(L2, R2) =
               IF Asks(K) /\ b # a
               THEN Append(DiffList(L, R), [key |-> K, before |-> b, after |-> a])
               ELSE DiffList(L, R)
      BY <1>4, <1>19, <2>1, <3>1, DiffListNext
    <3> QED
      BY <3>2 DEF item
<1>10. DiffList(L, R) \in Seq(Changes) /\ PageSound(merge.page, ask.page, Changes, DiffList(L, R))
       /\ ask.page \in Options /\ ~merge.page.over
  BY <1>2, <1>4, DiffListType, Budgets DEF PagedTo, L, R
<1>11. PageSound(next.page, ask.page, Changes,
                 DiffList(L2, R2))
  <2>1. CASE Asks(K) /\ b # a
    <3>1. next.page = AddItem(merge.page, ask.page, item, ItemSize(item, NoRow))
      BY <1>6, <2>1
    <3>2. PageSound(next.page, ask.page, Changes, Append(DiffList(L, R), item))
      BY <1>1, <1>6, <1>10, <3>1, AddItemSound
    <3> QED
      BY <1>9, <2>1, <3>2
  <2>2. CASE ~(Asks(K) /\ b # a)
    <3>1. next.page = merge.page
      BY <1>6, <2>2
    <3> QED
      BY <1>9, <1>10, <2>2, <3>1
  <2> QED
    BY <2>1, <2>2
<1>12. next.counts = DiffCounts(L2, R2)
  <2>1. DiffCounts(L2, R2) =
          IF Asks(K) THEN [DiffCounts(L, R) EXCEPT ![CountOf(b, a)] = @ + 1]
          ELSE DiffCounts(L, R)
    BY <1>4, <1>6, <1>19, DiffCountsNext
  <2>2. merge.counts = DiffCounts(L, R)
    BY <1>2 DEF L, R
  <2> QED
    BY <1>6, <2>1, <2>2
<1>13. /\ ViewsMerged(l2, r2)
       /\ PagedTo(next.page, TableTo(ask.left, l2), TableTo(ask.right, r2))
       /\ next.counts = DiffCounts(TableTo(ask.left, l2), TableTo(ask.right, r2))
  BY <1>1, <1>3, <1>9, <1>11, <1>12 DEF PagedTo
<1>14. PICK l3 \in Nat, r3 \in Nat : l3 = l2 /\ r3 = r2
  BY <1>8
<1> HIDE DEF l2, r2
<1>15. PICK p : p = next.page
  OBVIOUS
<1>16. /\ ViewsMerged(l3, r3)'
       /\ PagedTo(p, TableTo(ask.left, l3), TableTo(ask.right, r3))'
       /\ merge'.counts = DiffCounts(TableTo(ask.left, l3), TableTo(ask.right, r3))'
  <2>1. /\ ViewsMerged(l3, r3)
        /\ PagedTo(p, TableTo(ask.left, l3), TableTo(ask.right, r3))
        /\ merge'.counts = DiffCounts(TableTo(ask.left, l3), TableTo(ask.right, r3))
    BY <1>8, <1>13, <1>14, <1>15
  <2> QED
    BY <1>1, <2>1 DEF ViewsMerged, PagedTo, DiffList, DiffOrdered, DiffKeys, DiffCounts, CountedAs,
                      Asks, Chosen
<1>17. PagedTo(merge.page, TableTo(ask.left, l3), TableTo(ask.right, r3))'
  BY <1>8, <1>15, <1>16 DEF PagedTo
<1>18. merge'.left = l3 + 1 /\ merge'.right = r3 + 1 /\ ask'.op = "compare"
  BY <1>1, <1>8, <1>14
<1> QED
  BY <1>16, <1>17, <1>18 DEF MergeHolds

\* A row of a listing.
LEMMA ListRowHolds ==
  ASSUME Shape, MergeInv, ListRow, pc' # "done"
  PROVE  MergeHolds'
<1> USE DEF Shape
<1> DEFINE item == [key |-> Left.key, before |-> NoRow, after |-> Left.value]
           page == IF Chosen(TableOf[Left.key])
                   THEN AddItem(merge.page, ask.page, item, ItemSize(item, NoRow))
                   ELSE merge.page
<1>1. /\ pc = "merge" /\ ask.op = "rows" /\ ask' = ask
      /\ Left # NoRow /\ Left # Broken /\ ~page.over
      /\ merge' = [merge EXCEPT !.page = page, !.left = @ + 1]
  BY DEF ListRow, Listing, Reject
<1>2. PICK l \in Nat, r \in Nat :
        /\ l + 1 = merge.left /\ r + 1 = merge.right
        /\ Taken(ask.left, l)
        /\ PagedTo(merge.page, NoTable, TableTo(ask.left, l))
  BY <1>1 DEF MergeInv, MergeHolds
<1> DEFINE view == ask.left
           L == TableTo(view, l)
           L2 == TableTo(view, l + 1)
           K == Left.key
           a == Left.value
<1>3. view \in HandedViews /\ ask.page \in Options /\ Left = Pull(view, l + 1)
  BY <1>2, Budgets DEF Left
<1>4. /\ l + 1 \in 1 .. Len(view.rows) /\ Left = view.rows[l + 1] /\ Taken(view, l + 1)
  BY <1>1, <1>2, <1>3, PullIs
<1>5. /\ K \in Keys /\ a \in Values /\ a # NoRow /\ Left \in Image
  BY <1>3, <1>4, ViewTypes
<1>6. /\ L \in Table /\ NoTable \in Table
      /\ \A k \in Keys : NoTable[k] # NoRow \/ L[k] # NoRow => k < K
      /\ TableTo(view, l + 1) = [L EXCEPT ![K] = a]
  <2>1. /\ L \in Table
        /\ \A k \in Keys : L[k] # NoRow => \E i \in 1 .. l : view.rows[i].key = k
    BY <1>2, <1>3, TableToType
  <2>2. /\ TableTo(view, l + 1) = [L EXCEPT ![K] = a]
        /\ \A i \in 1 .. l : view.rows[i].key < K
    BY <1>3, <1>4, TableToNext
  <2> HIDE DEF L, K, a
  <2> QED
    BY <2>1, <2>2 DEF NoTable, Table
<1>7. item \in Changes /\ ItemSize(item, NoRow) \in Nat
  BY <1>5 DEF Changes, ItemSize, Carried
<1>9. DiffOrdered(NoTable, L)
  BY <1>2 DEF PagedTo
<1>10. item = [key |-> K, before |-> NoRow, after |-> a]
  OBVIOUS
<1>11. page = IF Asks(K) THEN AddItem(merge.page, ask.page, item, ItemSize(item, NoRow))
              ELSE merge.page
  BY DEF Asks
<1>12. /\ PageSound(merge.page, ask.page, Changes, DiffList(NoTable, L)) /\ ~merge.page.over
       /\ DiffList(NoTable, L) \in Seq(Changes)
  BY <1>2, <1>6, <1>9, DiffListType DEF PagedTo
<1> HIDE DEF page, item, K, a, L
<1>13. /\ DiffOrdered(NoTable, L2)
       /\ DiffList(NoTable, L2) =
            IF Asks(K) THEN Append(DiffList(NoTable, L), item) ELSE DiffList(NoTable, L)
  <2>1. /\ DiffOrdered(NoTable, L2)
        /\ DiffList(NoTable, L2) =
             IF Asks(K) /\ NoRow # a
             THEN Append(DiffList(NoTable, L), [key |-> K, before |-> NoRow, after |-> a])
             ELSE DiffList(NoTable, L)
    <3>1. NoRow \in Values \union {NoRow} /\ a \in Values \union {NoRow}
      BY <1>5
    <3> HIDE DEF L2
    <3>2. L2 = [L EXCEPT ![K] = a]
      BY <1>6 DEF L2
    <3>3. Puts(L, K, a, L2) /\ Puts(NoTable, K, NoRow, NoTable) /\ AllBelow(NoTable, L, K)
      BY <1>5, <1>6, <3>2 DEF Puts, NoTable, Table, AllBelow
    <3> QED
      BY <1>5, <1>6, <1>9, <3>1, <3>3, DiffListNext
  <2> QED
    BY <1>5, <1>10, <2>1
<1>14. PageSound(page, ask.page, Changes, DiffList(NoTable, L2))
  <2>1. CASE Asks(K)
    <3>1. PageSound(page, ask.page, Changes, Append(DiffList(NoTable, L), item))
      BY <1>1, <1>3, <1>7, <1>11, <1>12, <2>1, AddItemSound
    <3> QED
      BY <1>13, <2>1, <3>1
  <2>2. CASE ~Asks(K)
    BY <1>11, <1>12, <1>13, <2>2
  <2> QED
    BY <2>1, <2>2
<1>15. PICK p : p = page
  OBVIOUS
<1>16. PagedTo(p, NoTable, TableTo(ask.left, l + 1))
  BY <1>1, <1>6, <1>13, <1>14, <1>15 DEF PagedTo
<1>17. merge'.left = (l + 1) + 1 /\ merge'.right = r + 1 /\ merge'.page = p
  BY <1>1, <1>2, <1>15 DEF MergeShape
<1>18. PagedTo(p, NoTable, TableTo(ask.left, l + 1))' /\ Taken(ask.left, l + 1)'
  BY <1>1, <1>4, <1>16 DEF PagedTo, DiffList, DiffOrdered, DiffKeys, Asks, Chosen
<1>19. PagedTo(merge.page, NoTable, TableTo(ask.left, l + 1))'
  BY <1>17, <1>18 DEF PagedTo
<1>20. l + 1 \in Nat /\ ask'.op = "rows"
  BY <1>1
<1> QED
  BY <1>17, <1>18, <1>19, <1>20 DEF MergeHolds

\* Everything was taken of a view when asking gives nothing more.
LEMMA WholeView ==
  ASSUME NEW view \in HandedViews, NEW n \in Nat, Taken(view, n), Pull(view, n + 1) = NoRow
  PROVE  /\ Sound(view)
         /\ \A k \in Keys : TableTo(view, n)[k] = RowOf(view, k)
<1>1. n = Len(view.rows) /\ view.declared = n
  BY PullIs, NoRowAssumption
<1> QED
  BY <1>1, TakenIsSound, TableToEnd

\* The merge ended: the two views were compared to their ends.
LEMMA MergeEndsExact ==
  ASSUME Shape, MergeInv, MergeEnds, outcome'.kind = "difference"
  PROVE  DifferenceIsExact'
<1> USE DEF Shape
<1>1. /\ pc = "merge" /\ ask.op = "compare" /\ ask' = ask /\ Left = NoRow /\ Right = NoRow
      /\ outcome' = [kind |-> "difference", counts |-> merge.counts,
                     page |-> Answer(merge.page, ask.page)]
  BY DEF MergeEnds, Merging, Reject
<1>2. PICK l \in Nat, r \in Nat :
        /\ l + 1 = merge.left /\ r + 1 = merge.right
        /\ ViewsMerged(l, r)
        /\ PagedTo(merge.page, TableTo(ask.left, l), TableTo(ask.right, r))
        /\ merge.counts = DiffCounts(TableTo(ask.left, l), TableTo(ask.right, r))
  BY <1>1 DEF MergeInv, MergeHolds
<1> DEFINE lv == ask.left
           rv == ask.right
           L == TableTo(lv, l)
           R == TableTo(rv, r)
<1>3. lv \in HandedViews /\ rv \in HandedViews /\ ask.page \in Options
      /\ Taken(lv, l) /\ Taken(rv, r)
      /\ Pull(lv, l + 1) = NoRow /\ Pull(rv, r + 1) = NoRow
  BY <1>1, <1>2, Budgets DEF Left, Right, ViewsMerged
<1>4. /\ Sound(lv) /\ Sound(rv)
      /\ \A k \in Keys : L[k] = RowOf(lv, k) /\ R[k] = RowOf(rv, k)
  BY <1>3, WholeView
<1>5. L \in Table /\ R \in Table
  BY <1>3, TableToType
<1>6. PageOf(Answer(merge.page, ask.page), ask.page, DiffList(L, R)) /\ DiffOrdered(L, R)
  BY <1>2, <1>3, <1>5, DiffListType, AnswerIsPage DEF PagedTo
<1> DEFINE S == {k \in Keys : Asks(k) /\ Changed(k)}
           order == InKeyOrder(S)
           all == [i \in DOMAIN order |->
                     [key |-> order[i], before |-> RowOf(lv, order[i]),
                      after |-> RowOf(rv, order[i])]]
<1>7. DiffKeys(L, R) = S
  BY <1>4, Zenon DEF DiffKeys, Changed
<1>8. all = DiffList(L, R)
  <2>1. DOMAIN order = 1 .. Cardinality(S) /\ \A i \in DOMAIN order : order[i] \in Keys
    <3> DEFINE K == DiffKeys(L, R)
    <3>1. DOMAIN InKeyOrder(K) = 1 .. Cardinality(K)
      BY <1>5, <1>6, DiffListType
    <3>2. \A i \in 1 .. Cardinality(K) : InKeyOrder(K)[i] \in K
      BY <1>5, <1>6, DiffListType
    <3>3. S \subseteq Keys
      OBVIOUS
    <3> HIDE DEF S, K
    <3>4. K = S
      BY <1>7 DEF K
    <3> QED
      BY <3>1, <3>2, <3>3, <3>4
  <2>2. DiffList(L, R) = [i \in DOMAIN order |->
                            [key |-> order[i], before |-> L[order[i]], after |-> R[order[i]]]]
    BY <1>7 DEF DiffList
  <2> HIDE DEF order, L, R
  <2> QED
    BY <1>4, <2>1, <2>2
<1>9. PageOf(outcome'.page, ask.page, all)
  <2> HIDE DEF all
  <2> QED
    BY <1>1, <1>6, <1>8
<1> DEFINE in(view, k) == RowOf(view, k) # NoRow
<1>10. /\ CountedAs(L, R, "inserted") = {k \in Keys : Asks(k) /\ ~in(lv, k) /\ in(rv, k)}
       /\ CountedAs(L, R, "deleted") = {k \in Keys : Asks(k) /\ in(lv, k) /\ ~in(rv, k)}
       /\ CountedAs(L, R, "updated") =
            {k \in Keys : Asks(k) /\ Changed(k) /\ in(lv, k) /\ in(rv, k)}
       /\ CountedAs(L, R, "unchanged") = {k \in Keys : Asks(k) /\ ~Changed(k) /\ in(lv, k)}
  <2> HIDE DEF L, R
  <2>1. \A k \in Keys :
          /\ k \in CountedAs(L, R, "inserted") <=> Asks(k) /\ ~in(lv, k) /\ in(rv, k)
          /\ k \in CountedAs(L, R, "deleted") <=> Asks(k) /\ in(lv, k) /\ ~in(rv, k)
          /\ k \in CountedAs(L, R, "updated") <=> Asks(k) /\ Changed(k) /\ in(lv, k) /\ in(rv, k)
          /\ k \in CountedAs(L, R, "unchanged") <=> Asks(k) /\ ~Changed(k) /\ in(lv, k)
    BY <1>4 DEF CountedAs, CountOf, Changed
  <2>2. \A kind : CountedAs(L, R, kind) \subseteq Keys
    BY DEF CountedAs
  <2> HIDE DEF in
  <2> QED
    BY <2>1, <2>2
<1>11. merge.counts =
         [inserted  |-> Cardinality({k \in Keys : Asks(k) /\ ~in(lv, k) /\ in(rv, k)}),
          deleted   |-> Cardinality({k \in Keys : Asks(k) /\ in(lv, k) /\ ~in(rv, k)}),
          updated   |-> Cardinality({k \in Keys : Asks(k) /\ Changed(k) /\ in(lv, k) /\ in(rv, k)}),
          unchanged |-> Cardinality({k \in Keys : Asks(k) /\ ~Changed(k) /\ in(lv, k)})]
  BY <1>2, <1>10, Zenon DEF DiffCounts
<1> QED
  BY <1>1, <1>4, <1>9, <1>11, Zenon DEF DifferenceIsExact, Asks, Chosen, Changed

\* A listing ended.
LEMMA ListEndsExact ==
  ASSUME Shape, MergeInv, ListEnds, outcome'.kind = "rows"
  PROVE  ListingIsExact'
<1> USE DEF Shape
<1>1. /\ pc = "merge" /\ ask.op = "rows" /\ ask' = ask /\ Left = NoRow
      /\ outcome' = [kind |-> "rows", page |-> Answer(merge.page, ask.page)]
  BY DEF ListEnds, Listing, Reject
<1>2. PICK l \in Nat : /\ l + 1 = merge.left
                       /\ Taken(ask.left, l)
                       /\ PagedTo(merge.page, NoTable, TableTo(ask.left, l))
  BY <1>1 DEF MergeInv, MergeHolds
<1> DEFINE lv == ask.left
           L == TableTo(lv, l)
<1>3. lv \in HandedViews /\ ask.page \in Options /\ Taken(lv, l) /\ Pull(lv, l + 1) = NoRow
  BY <1>1, <1>2, Budgets DEF Left
<1>4. Sound(lv) /\ \A k \in Keys : L[k] = RowOf(lv, k)
  BY <1>3, WholeView
<1>5. L \in Table /\ NoTable \in Table
  BY <1>3, TableToType DEF NoTable, Table
<1>6. PageOf(Answer(merge.page, ask.page), ask.page, DiffList(NoTable, L))
      /\ DiffOrdered(NoTable, L)
  BY <1>2, <1>3, <1>5, DiffListType, AnswerIsPage DEF PagedTo
<1> DEFINE S == {k \in Keys : Asks(k) /\ RowOf(lv, k) # NoRow}
           order == InKeyOrder(S)
           all == [i \in DOMAIN order |->
                     [key |-> order[i], before |-> NoRow, after |-> RowOf(lv, order[i])]]
<1>7. DiffKeys(NoTable, L) = S
  <2> HIDE DEF L
  <2> QED
    BY <1>4 DEF DiffKeys, NoTable
<1>8. all = DiffList(NoTable, L)
  <2>1. DOMAIN order = 1 .. Cardinality(S) /\ \A i \in DOMAIN order : order[i] \in Keys
    BY <1>5, <1>6, <1>7, DiffListType DEF DiffKeys
  <2>2. DiffList(NoTable, L) =
          [i \in DOMAIN order |->
             [key |-> order[i], before |-> NoTable[order[i]], after |-> L[order[i]]]]
    BY <1>7 DEF DiffList
  <2> HIDE DEF order, L
  <2> QED
    BY <1>4, <2>1, <2>2 DEF NoTable
<1>9. PageOf(outcome'.page, ask.page, all)
  <2> HIDE DEF all
  <2> QED
    BY <1>1, <1>6, <1>8
<1> QED
  BY <1>1, <1>4, <1>9, Zenon DEF ListingIsExact, Asks, Chosen

\* An answer that is not of views.
LEMMA OtherViews ==
  ASSUME outcome'.kind \notin {"difference", "rows"} PROVE ViewsAreExact'
BY DEF ViewsAreExact, DifferenceIsExact, ListingIsExact

\* Every step of a comparison or a listing.
LEMMA ComparisonStepExact ==
  ASSUME Shape, Shape', ReplayInv, MergeInv, ComparisonStep
  PROVE  MergeInv'
<1> USE DEF Shape
<1>1. CASE StartComparison
  <2>1. /\ ask' = ask /\ merge' = NotMerging /\ pc' \in {"done", "merge"}
        /\ outcome'.kind \in {"none", "rejected"}
    BY <1>1 DEF StartComparison, Reject, ReplayInv, Fresh, ControlShape
  <2>2. MergeHolds'
    BY <2>1, StartsMerging DEF MergeHolds
  <2> QED
    BY <2>1, <2>2, OtherViews DEF MergeInv
<1>2. CASE MergeRow \/ ListRow
  <2>1. outcome'.kind \in {"none", "rejected"}
    BY <1>2 DEF MergeRow, ListRow, Merging, Listing, Reject, ControlShape
  <2>2. MergeHolds'
    BY <1>2, MergeRowHolds, ListRowHolds DEF MergeHolds
  <2> QED
    BY <2>1, <2>2, OtherViews DEF MergeInv
<1>3. CASE MergeEnds
  <2>1. pc' = "done" /\ outcome'.kind \in {"difference", "rejected"}
    BY <1>3 DEF MergeEnds, Reject
  <2>2. MergeHolds'
    BY <2>1 DEF MergeHolds
  <2>3. CASE outcome'.kind = "rejected"
    BY <2>2, <2>3, OtherViews DEF MergeInv
  <2>4. CASE outcome'.kind = "difference"
    BY <1>3, <2>2, <2>4, MergeEndsExact DEF MergeInv, ViewsAreExact, ListingIsExact
  <2> QED
    BY <2>1, <2>3, <2>4
<1>4. CASE ListEnds
  <2>1. pc' = "done" /\ outcome'.kind \in {"rows", "rejected"}
    BY <1>4 DEF ListEnds, Reject
  <2>2. MergeHolds'
    BY <2>1 DEF MergeHolds
  <2>3. CASE outcome'.kind = "rejected"
    BY <2>2, <2>3, OtherViews DEF MergeInv
  <2>4. CASE outcome'.kind = "rows"
    BY <1>4, <2>2, <2>4, ListEndsExact DEF MergeInv, ViewsAreExact, DifferenceIsExact
  <2> QED
    BY <2>1, <2>3, <2>4
<1> QED
  BY <1>1, <1>2, <1>3, <1>4 DEF ComparisonStep

OutsideMerge ==
  \/ ReplayStep
  \/ ScanStep /\ UNCHANGED <<lineage, merge>>
  \/ LineageStep /\ UNCHANGED <<scan, merge>>
  \/ CallerStep
  \/ UNCHANGED vars

\* All other steps leave the merge as it is, and what they answer is not of views.
LEMMA OtherStepsMerge ==
  ASSUME Shape, Shape', MergeInv, OutsideMerge
  PROVE  MergeInv'
<1> USE DEF Shape
<1>1. ASSUME UNCHANGED <<ask, merge, pc>>
      PROVE  MergeHolds'
  <2> SUFFICES ASSUME pc = "merge" PROVE MergeHolds'
    BY <1>1 DEF MergeHolds
  <2>1. PICK l \in Nat, r \in Nat :
          /\ l + 1 = merge.left /\ r + 1 = merge.right
          /\ ask.op = "compare" =>
               /\ ViewsMerged(l, r)
               /\ PagedTo(merge.page, TableTo(ask.left, l), TableTo(ask.right, r))
               /\ merge.counts = DiffCounts(TableTo(ask.left, l), TableTo(ask.right, r))
          /\ ask.op = "rows" =>
               /\ Taken(ask.left, l)
               /\ PagedTo(merge.page, NoTable, TableTo(ask.left, l))
    BY DEF MergeInv, MergeHolds
  <2>2. /\ ViewsMerged(l, r)' <=> ViewsMerged(l, r)
        /\ PagedTo(merge.page, TableTo(ask.left, l), TableTo(ask.right, r))' <=>
             PagedTo(merge.page, TableTo(ask.left, l), TableTo(ask.right, r))
        /\ DiffCounts(TableTo(ask.left, l), TableTo(ask.right, r))' =
             DiffCounts(TableTo(ask.left, l), TableTo(ask.right, r))
        /\ PagedTo(merge.page, NoTable, TableTo(ask.left, l))' <=>
             PagedTo(merge.page, NoTable, TableTo(ask.left, l))
    BY <1>1 DEF ViewsMerged, PagedTo, DiffList, DiffOrdered, DiffKeys, DiffCounts, CountedAs, Asks,
                Chosen
  <2>3. Taken(ask.left, l)' <=> Taken(ask.left, l)
    BY <1>1
  <2> QED
    BY <1>1, <2>1, <2>2, <2>3 DEF MergeHolds
<1>2. CASE CallerStep
  <2>1. pc # "done" /\ UNCHANGED <<ask, merge, pc>> /\ outcome' = outcome
    BY <1>2 DEF CallerStep, Cancel, Expire
  <2> QED
    BY <1>1, <2>1, OtherViews DEF MergeInv, ControlShape
<1>3. CASE UNCHANGED vars
  <2>1. DifferenceIsExact' <=> DifferenceIsExact
    BY <1>3 DEF vars, DifferenceIsExact, Asks, Chosen, Changed
  <2>2. ListingIsExact' <=> ListingIsExact
    BY <1>3 DEF vars, ListingIsExact, Asks, Chosen
  <2>3. UNCHANGED <<ask, merge, pc>>
    BY <1>3 DEF vars
  <2> QED
    BY <1>1, <2>1, <2>2, <2>3 DEF MergeInv, ViewsAreExact
<1>4. CASE ReplayStep
  <2>1. pc' # "merge" /\ outcome'.kind \notin {"difference", "rows"}
    BY <1>4 DEF ReplayStep, Resolve, LoadBaseline, ReadTransaction, StalledPage, EndOfHistory,
                RefuseStalledPage, Deliver, Beyond, Give, Reject, Interrupted, ControlShape
  <2> QED
    BY <2>1, OtherViews DEF MergeInv, MergeHolds
<1>5. CASE ScanStep
  <2>1. pc' # "merge" /\ outcome'.kind \notin {"difference", "rows"}
    BY <1>5 DEF ScanStep, EvaluationHalted, EvaluationRefused, QueryFails, MayEvaluate, Evaluate,
                Report, Clear, Finding, Beyond, Give, Reject, Interrupted, ControlShape
  <2> QED
    BY <2>1, OtherViews DEF MergeInv, MergeHolds
<1>6. CASE LineageStep
  <2>1. pc' # "merge" /\ outcome'.kind \notin {"difference", "rows"}
    BY <1>6 DEF LineageStep, LineageHalted, OriginRefused, TraceOrigin, FollowRow, LineageEnds,
                Following, MayFollow, Reject, ControlShape
  <2> QED
    BY <2>1, OtherViews DEF MergeInv, MergeHolds
<1> QED
  BY <1>2, <1>3, <1>4, <1>5, <1>6 DEF OutsideMerge

\* Two views are merged, or one listed, in the order of their keys and to the end.
THEOREM MergeIsFaithful == Spec => []MergeInv
<1>1. Init => MergeInv
  BY DEF Init, ReplayInit, MergeInv, MergeHolds, ViewsAreExact, DifferenceIsExact, ListingIsExact
<1>2. MergeInv /\ Shape /\ Shape' /\ ReplayInv /\ [Next]_vars => MergeInv'
  <2> SUFFICES ASSUME MergeInv, Shape, Shape', ReplayInv, [Next]_vars
               PROVE  MergeInv'
    OBVIOUS
  <2>1. CASE ComparisonStep
    BY <2>1, ComparisonStepExact
  <2>2. CASE OutsideMerge
    BY <2>2, OtherStepsMerge
  <2> QED
    BY <2>1, <2>2 DEF Next, Answering, OutsideMerge
<1> QED
  BY <1>1, <1>2, ShapeHolds, ReplayIsFaithful, PTL DEF Spec

\* A comparison pages exactly the keys whose rows differ and counts every key
\* once, a listing pages exactly the rows, and neither is given of a view that is
\* not sound: for all views a session may hand out, and all pages.
THEOREM ComparisonsAreExact == Spec => []ViewsAreExact
<1>1. MergeInv => ViewsAreExact
  BY DEF MergeInv
<1> QED
  BY <1>1, MergeIsFaithful, PTL

--------------------------------------------------------------------------
(* Row histories: who holds a key, and what happened to whom.              *)

\* Who holds each key of the baseline.
FirstHolders == [k \in Keys |-> IF history.rows[k] = NoRow THEN Nobody ELSE FromBaseline(k)]

\* The keys of a recorded event.
LEMMA EventsOfType ==
  ASSUME history \in Histories, NEW c \in 1 .. Len(Commits)
  PROVE  /\ EventsOf(c) \in Seq(Event) /\ EventsOf(c) = Commits[c].events
         /\ Len(EventsOf(c)) \in Nat
         /\ \A i \in 1 .. Len(EventsOf(c)) : EventsOf(c)[i] \in Event
         /\ c \in Nat \ {0}
BY HistoryTypes DEF EventsOf

\* Keys stay in the hands of origins.
LEMMA HandedOnType ==
  ASSUME NEW holders \in [Keys -> Origins], NEW c \in Nat \ {0}, NEW i \in Nat, NEW event \in Event
  PROVE  HandedOn(holders, c, i, event) \in [Keys -> Origins]
<1>1. Nobody \in Origins /\ FromInsert(c, i) \in Origins
  BY DEF Origins, RowOrigins, Nobody
<1>2. event.before # NoRow => holders[event.before.key] \in Origins
  BY DEF Event, Image
<1> QED
  BY <1>1, <1>2 DEF HandedOn

\* The holders after one more event of a transaction.
LEMMA HoldersInSteps ==
  ASSUME history \in Histories, NEW holders \in [Keys -> Origins], NEW c \in 1 .. Len(Commits)
  PROVE  /\ HoldersIn(holders, c, 0) = holders
         /\ \A i \in 1 .. Len(EventsOf(c)) :
              HoldersIn(holders, c, i) =
                HandedOn(HoldersIn(holders, c, i - 1), c, i, EventsOf(c)[i])
         /\ \A i \in 0 .. Len(EventsOf(c)) : HoldersIn(holders, c, i) \in [Keys -> Origins]
<1> DEFINE N == Len(EventsOf(c))
           V == [Keys -> Origins]
           F == [i \in 1 .. N |-> [v \in V |-> HandedOn(v, c, i, EventsOf(c)[i])]]
           Is(g) == g = [j \in 0 .. N |->
                          IF j = 0 THEN holders ELSE HandedOn(g[j - 1], c, j, EventsOf(c)[j])]
           f == CHOOSE g : Is(g)
<1>1. N \in Nat /\ holders \in V
  BY EventsOfType
<1>2. ASSUME NEW i \in 1 .. N, NEW v \in V PROVE HandedOn(v, c, i, EventsOf(c)[i]) \in V
  BY EventsOfType, HandedOnType
<1>3. \A i \in 1 .. N : \A v \in V : F[i][v] \in V /\ F[i][v] = HandedOn(v, c, i, EventsOf(c)[i])
  <2> HIDE DEF N, V
  <2> QED
    BY <1>2
<1>4. StepsWithin(F, V, N)
  BY <1>3 DEF StepsWithin
<1>5. PICK g : IsRun(g, F, V, holders, N)
  <2> HIDE DEF N, F, V
  <2> QED
    BY <1>1, <1>4, RunExists
<1>6. \A i \in 1 .. N : g[i] = HandedOn(g[i - 1], c, i, EventsOf(c)[i])
  <2> HIDE DEF F, V, N
  <2> QED
    BY <1>1, <1>3, <1>5 DEF IsRun
<1>7. Is(g)
  <2>1. g = [j \in 0 .. N |-> g[j]] /\ g[0] = holders
    BY <1>5 DEF IsRun
  <2>2. ASSUME NEW j \in 0 .. N, j # 0 PROVE j \in 1 .. N
    BY <1>1, <2>2
  <2> HIDE DEF N
  <2> QED
    BY <1>6, <2>1, <2>2
<1>8. Is(f)
  <2> HIDE DEF Is
  <2> QED
    BY <1>7, Zenon
<1>9. \A i : HoldersIn(holders, c, i) = f[i]
  BY DEF HoldersIn
<1> HIDE DEF f
<1>10. f[0] = holders
  BY <1>1, <1>8
<1>11. ASSUME NEW i \in 1 .. N PROVE f[i] = HandedOn(f[i - 1], c, i, EventsOf(c)[i])
  <2>1. i \in 0 .. N /\ i # 0
    BY <1>1
  <2> HIDE DEF N
  <2> QED
    BY <1>8, <2>1
<1>12. ASSUME NEW i \in 0 .. N PROVE f[i] \in V
  <2> DEFINE T == {j \in Nat : j <= N => f[j] \in V}
  <2>1. 0 \in T
    BY <1>1, <1>10
  <2>2. ASSUME NEW j \in Nat, j \in T PROVE j + 1 \in T
    <3>1. SUFFICES ASSUME j + 1 <= N PROVE f[j + 1] \in V
      OBVIOUS
    <3>2. j + 1 \in 1 .. N /\ (j + 1) - 1 = j /\ f[j] \in V
      BY <1>1, <2>2, <3>1
    <3> HIDE DEF N, V
    <3> QED
      BY <1>2, <1>11, <3>2
  <2> HIDE DEF T
  <2>3. i \in T
    BY <1>1, <2>1, <2>2, Induction
  <2> QED
    BY <1>1, <2>3 DEF T
<1> QED
  BY <1>9, <1>10, <1>11, <1>12

\* The holders after one more transaction.
LEMMA HoldersAfterSteps ==
  ASSUME history \in Histories
  PROVE  /\ HoldersAfter(0) = FirstHolders
         /\ \A i \in 1 .. Len(Commits) :
              HoldersAfter(i) = HoldersIn(HoldersAfter(i - 1), i, Len(EventsOf(i)))
         /\ \A i \in 0 .. Len(Commits) : HoldersAfter(i) \in [Keys -> Origins]
<1> DEFINE N == Len(Commits)
           V == [Keys -> Origins]
           F == [i \in 1 .. N |-> [v \in V |-> HoldersIn(v, i, Len(EventsOf(i)))]]
           Is(g) == g = [i \in 0 .. N |->
                          IF i = 0
                          THEN [k \in Keys |-> IF history.rows[k] = NoRow THEN Nobody
                                               ELSE FromBaseline(k)]
                          ELSE HoldersIn(g[i - 1], i, Len(EventsOf(i)))]
           f == CHOOSE g : Is(g)
<1>1. N \in Nat /\ FirstHolders \in V
  BY HistoryTypes DEF FirstHolders, Origins, RowOrigins, Nobody
<1>2. ASSUME NEW i \in 1 .. N, NEW v \in V PROVE HoldersIn(v, i, Len(EventsOf(i))) \in V
  <2>1. Len(EventsOf(i)) \in 0 .. Len(EventsOf(i))
    BY EventsOfType
  <2> QED
    BY <2>1, HoldersInSteps
<1>3. \A i \in 1 .. N : \A v \in V : F[i][v] \in V /\ F[i][v] = HoldersIn(v, i, Len(EventsOf(i)))
  <2> HIDE DEF N, V
  <2> QED
    BY <1>2
<1>4. StepsWithin(F, V, N)
  BY <1>3 DEF StepsWithin
<1>5. PICK g : IsRun(g, F, V, FirstHolders, N)
  <2> HIDE DEF N, F, V
  <2> QED
    BY <1>1, <1>4, RunExists
<1>6. \A i \in 1 .. N : g[i] = HoldersIn(g[i - 1], i, Len(EventsOf(i)))
  <2> HIDE DEF F, V, N
  <2> QED
    BY <1>1, <1>3, <1>5 DEF IsRun
<1>7. Is(g)
  <2>1. g = [j \in 0 .. N |-> g[j]] /\ g[0] = FirstHolders
    BY <1>5 DEF IsRun
  <2>2. ASSUME NEW j \in 0 .. N, j # 0 PROVE j \in 1 .. N
    BY <1>1, <2>2
  <2> HIDE DEF N
  <2> QED
    BY <1>6, <2>1, <2>2 DEF FirstHolders
<1>8. Is(f)
  <2> HIDE DEF Is
  <2> QED
    BY <1>7, Zenon
<1>9. \A i : HoldersAfter(i) = f[i]
  BY DEF HoldersAfter
<1> HIDE DEF f
<1>10. f[0] = FirstHolders
  BY <1>1, <1>8 DEF FirstHolders
<1>11. ASSUME NEW i \in 1 .. N PROVE f[i] = HoldersIn(f[i - 1], i, Len(EventsOf(i)))
  <2>1. i \in 0 .. N /\ i # 0
    BY <1>1
  <2> HIDE DEF N
  <2> QED
    BY <1>8, <2>1
<1>12. ASSUME NEW i \in 0 .. N PROVE f[i] \in V
  <2> DEFINE T == {j \in Nat : j <= N => f[j] \in V}
  <2>1. 0 \in T
    BY <1>1, <1>10
  <2>2. ASSUME NEW j \in Nat, j \in T PROVE j + 1 \in T
    <3>1. SUFFICES ASSUME j + 1 <= N PROVE f[j + 1] \in V
      OBVIOUS
    <3>2. j + 1 \in 1 .. N /\ (j + 1) - 1 = j /\ f[j] \in V
      BY <1>1, <2>2, <3>1
    <3> HIDE DEF N, V
    <3> QED
      BY <1>2, <1>11, <3>2
  <2> HIDE DEF T
  <2>3. i \in T
    BY <1>1, <2>1, <2>2, Induction
  <2> QED
    BY <1>1, <2>3 DEF T
<1> QED
  BY <1>9, <1>10, <1>11, <1>12

\* What one more event adds to the life of a row.
LifeWith(life, row, c, i) ==
  IF Subject(c, i) # row THEN life
  ELSE Append(life, Entry(c, i, EventsOf(c)[i].before, EventsOf(c)[i].after))

\* A life stays a list of entries.
LEMMA LifeWithType ==
  ASSUME history \in Histories, NEW life \in Seq(Entries), NEW row,
         NEW c \in 1 .. Len(Commits), NEW i \in 1 .. Len(EventsOf(c))
  PROVE  LifeWith(life, row, c, i) \in Seq(Entries)
<1>1. EventsOf(c)[i] \in Event /\ c \in Nat /\ i \in Nat
  BY EventsOfType
<1>2. Entry(c, i, EventsOf(c)[i].before, EventsOf(c)[i].after) \in Entries
  BY <1>1 DEF Entry, Entries, Event
<1> QED
  BY <1>2 DEF LifeWith

\* The life of a row after one more event of a transaction.
LEMMA LivedInSteps ==
  ASSUME history \in Histories, NEW life \in Seq(Entries), NEW row, NEW c \in 1 .. Len(Commits)
  PROVE  /\ LivedIn(life, row, c, 0) = life
         /\ \A i \in 1 .. Len(EventsOf(c)) :
              LivedIn(life, row, c, i) = LifeWith(LivedIn(life, row, c, i - 1), row, c, i)
         /\ \A i \in 0 .. Len(EventsOf(c)) : LivedIn(life, row, c, i) \in Seq(Entries)
<1> DEFINE N == Len(EventsOf(c))
           V == Seq(Entries)
           F == [i \in 1 .. N |-> [v \in V |-> LifeWith(v, row, c, i)]]
           Is(g) == g = [j \in 0 .. N |->
                          IF j = 0 THEN life
                          ELSE IF Subject(c, j) # row THEN g[j - 1]
                          ELSE LET event == EventsOf(c)[j]
                               IN Append(g[j - 1], Entry(c, j, event.before, event.after))]
           f == CHOOSE g : Is(g)
<1>1. N \in Nat /\ life \in V
  BY EventsOfType
<1>2. ASSUME NEW i \in 1 .. N, NEW v \in V PROVE LifeWith(v, row, c, i) \in V
  BY LifeWithType
<1>3. \A i \in 1 .. N : \A v \in V : F[i][v] \in V /\ F[i][v] = LifeWith(v, row, c, i)
  <2> HIDE DEF N, V
  <2> QED
    BY <1>2
<1>4. StepsWithin(F, V, N)
  BY <1>3 DEF StepsWithin
<1>5. PICK g : IsRun(g, F, V, life, N)
  <2> HIDE DEF N, F, V
  <2> QED
    BY <1>1, <1>4, RunExists
<1>6. \A i \in 1 .. N : g[i] = LifeWith(g[i - 1], row, c, i)
  <2> HIDE DEF F, V, N
  <2> QED
    BY <1>1, <1>3, <1>5 DEF IsRun
<1>7. Is(g)
  <2>1. g = [j \in 0 .. N |-> g[j]] /\ g[0] = life
    BY <1>5 DEF IsRun
  <2>2. ASSUME NEW j \in 0 .. N, j # 0 PROVE j \in 1 .. N
    BY <1>1, <2>2
  <2>3. \A j \in 1 .. N : g[j] = IF Subject(c, j) # row THEN g[j - 1]
                                 ELSE LET event == EventsOf(c)[j]
                                      IN Append(g[j - 1], Entry(c, j, event.before, event.after))
    BY <1>6 DEF LifeWith
  <2> HIDE DEF N
  <2> QED
    BY <2>1, <2>2, <2>3
<1>8. Is(f)
  <2> HIDE DEF Is
  <2> QED
    BY <1>7, Zenon
<1>9. \A i : LivedIn(life, row, c, i) = f[i]
  BY DEF LivedIn
<1> HIDE DEF f
<1>10. f[0] = life
  BY <1>1, <1>8
<1>11. ASSUME NEW i \in 1 .. N PROVE f[i] = LifeWith(f[i - 1], row, c, i)
  <2>1. i \in 0 .. N /\ i # 0
    BY <1>1
  <2> HIDE DEF N
  <2> QED
    BY <1>8, <2>1 DEF LifeWith
<1>12. ASSUME NEW i \in 0 .. N PROVE f[i] \in V
  <2> DEFINE T == {j \in Nat : j <= N => f[j] \in V}
  <2>1. 0 \in T
    BY <1>1, <1>10
  <2>2. ASSUME NEW j \in Nat, j \in T PROVE j + 1 \in T
    <3>1. SUFFICES ASSUME j + 1 <= N PROVE f[j + 1] \in V
      OBVIOUS
    <3>2. j + 1 \in 1 .. N /\ (j + 1) - 1 = j /\ f[j] \in V
      BY <1>1, <2>2, <3>1
    <3> HIDE DEF N, V
    <3> QED
      BY <1>2, <1>11, <3>2
  <2> HIDE DEF T
  <2>3. i \in T
    BY <1>1, <2>1, <2>2, Induction
  <2> QED
    BY <1>1, <2>3 DEF T
<1> QED
  BY <1>9, <1>10, <1>11, <1>12

\* The life of a row of the baseline starts there.
LifeFrom(row) ==
  IF row.commit # 0 THEN << >>
  ELSE <<Entry(0, 0, NoRow, [key |-> row.key, value |-> history.rows[row.key]])>>

\* The life of a row after each transaction, one from the other.
LEMMA LifeToSteps ==
  ASSUME history \in Histories, NEW row,
         row.commit = 0 => row.key \in Keys /\ history.rows[row.key] # NoRow
  PROVE  /\ LifeTo(row, 0) = LifeFrom(row)
         /\ \A i \in 1 .. Len(Commits) :
              LifeTo(row, i) = LivedIn(LifeTo(row, i - 1), row, i, Len(EventsOf(i)))
         /\ \A i \in 0 .. Len(Commits) : LifeTo(row, i) \in Seq(Entries)
<1> DEFINE N == Len(Commits)
           V == Seq(Entries)
           F == [i \in 1 .. N |-> [v \in V |-> LivedIn(v, row, i, Len(EventsOf(i)))]]
           Is(g) == g = [i \in 0 .. N |->
                          IF i # 0 THEN LivedIn(g[i - 1], row, i, Len(EventsOf(i)))
                          ELSE IF row.commit # 0 THEN << >>
                          ELSE <<Entry(0, 0, NoRow,
                                       [key |-> row.key, value |-> history.rows[row.key]])>>]
           f == CHOOSE g : Is(g)
<1>1. N \in Nat /\ LifeFrom(row) \in V
  <2>1. CASE row.commit # 0
    BY <2>1, HistoryTypes DEF LifeFrom
  <2>2. CASE row.commit = 0
    <3>1. history.rows[row.key] \in Values
      BY <2>2, HistoryTypes DEF Table
    <3>2. [key |-> row.key, value |-> history.rows[row.key]] \in Image
      BY <2>2, <3>1 DEF Image
    <3>3. Entry(0, 0, NoRow, [key |-> row.key, value |-> history.rows[row.key]]) \in Entries
      BY <3>2 DEF Entry, Entries
    <3> QED
      BY <2>2, <3>3, HistoryTypes DEF LifeFrom
  <2> QED
    BY <2>1, <2>2
<1>2. ASSUME NEW i \in 1 .. N, NEW v \in V PROVE LivedIn(v, row, i, Len(EventsOf(i))) \in V
  <2>1. Len(EventsOf(i)) \in 0 .. Len(EventsOf(i))
    BY EventsOfType
  <2> QED
    BY <2>1, LivedInSteps
<1>3. \A i \in 1 .. N : \A v \in V : F[i][v] \in V /\ F[i][v] = LivedIn(v, row, i, Len(EventsOf(i)))
  <2> HIDE DEF N, V
  <2> QED
    BY <1>2
<1>4. StepsWithin(F, V, N)
  BY <1>3 DEF StepsWithin
<1>5. PICK g : IsRun(g, F, V, LifeFrom(row), N)
  <2> HIDE DEF N, F, V
  <2> QED
    BY <1>1, <1>4, RunExists
<1>6. \A i \in 1 .. N : g[i] = LivedIn(g[i - 1], row, i, Len(EventsOf(i)))
  <2> HIDE DEF F, V, N
  <2> QED
    BY <1>1, <1>3, <1>5 DEF IsRun
<1>7. Is(g)
  <2>1. g = [j \in 0 .. N |-> g[j]] /\ g[0] = LifeFrom(row)
    BY <1>5 DEF IsRun
  <2>2. ASSUME NEW j \in 0 .. N, j # 0 PROVE j \in 1 .. N
    BY <1>1, <2>2
  <2> HIDE DEF N
  <2> QED
    BY <1>6, <2>1, <2>2 DEF LifeFrom
<1>8. Is(f)
  <2> HIDE DEF Is
  <2> QED
    BY <1>7, Zenon
<1>9. \A i : LifeTo(row, i) = f[i]
  BY DEF LifeTo
<1> HIDE DEF f
<1>10. f[0] = LifeFrom(row)
  BY <1>1, <1>8 DEF LifeFrom
<1>11. ASSUME NEW i \in 1 .. N PROVE f[i] = LivedIn(f[i - 1], row, i, Len(EventsOf(i)))
  <2>1. i \in 0 .. N /\ i # 0
    BY <1>1
  <2> HIDE DEF N
  <2> QED
    BY <1>8, <2>1
<1>12. ASSUME NEW i \in 0 .. N PROVE f[i] \in V
  <2> DEFINE T == {j \in Nat : j <= N => f[j] \in V}
  <2>1. 0 \in T
    BY <1>1, <1>10
  <2>2. ASSUME NEW j \in Nat, j \in T PROVE j + 1 \in T
    <3>1. SUFFICES ASSUME j + 1 <= N PROVE f[j + 1] \in V
      OBVIOUS
    <3>2. j + 1 \in 1 .. N /\ (j + 1) - 1 = j /\ f[j] \in V
      BY <1>1, <2>2, <3>1
    <3> HIDE DEF N, V
    <3> QED
      BY <1>2, <1>11, <3>2
  <2> HIDE DEF T
  <2>3. i \in T
    BY <1>1, <2>1, <2>2, Induction
  <2> QED
    BY <1>1, <2>3 DEF T
<1> QED
  BY <1>9, <1>10, <1>11, <1>12

\* The rows a recording ever held: those of its baseline and those inserted.
IsRow(row) ==
  \/ \E k \in Keys : history.rows[k] # NoRow /\ row = FromBaseline(k)
  \/ \E c \in 1 .. Len(Commits) : \E i \in 1 .. Len(EventsOf(c)) :
       EventsOf(c)[i].before = NoRow /\ row = FromInsert(c, i)

\* A row has appeared by the time of an event.
AppearsBy(row, c, i) == row.commit < c \/ (row.commit = c /\ row.event <= i)

\* Every row present has an identity of its own, and one it already had.
Identified(rows, holders, c, i) ==
  /\ rows \in Table
  /\ holders \in [Keys -> Origins]
  /\ \A k \in Keys : rows[k] = NoRow <=> holders[k] = Nobody
  /\ \A k \in Keys : holders[k] # Nobody => IsRow(holders[k]) /\ AppearsBy(holders[k], c, i)
  /\ \A j \in Keys, k \in Keys : holders[k] # Nobody /\ holders[j] = holders[k] => j = k

\* A row is one of the baseline, or the insertion it came from is there.
LEMMA IsRowType ==
  ASSUME history \in Histories, NEW row, IsRow(row)
  PROVE  /\ row \in RowOrigins /\ row # Nobody
         /\ row.commit \in 0 .. Len(Commits) /\ row.event \in Nat
         /\ row.commit = 0 => /\ row.event = 0 /\ row.key \in Keys /\ row = FromBaseline(row.key)
                              /\ history.rows[row.key] # NoRow
         /\ row.commit # 0 => /\ row.event \in 1 .. Len(EventsOf(row.commit))
                              /\ row = FromInsert(row.commit, row.event)
                              /\ EventsOf(row.commit)[row.event].before = NoRow
<1>1. CASE \E k \in Keys : history.rows[k] # NoRow /\ row = FromBaseline(k)
  <2>1. PICK k \in Keys : history.rows[k] # NoRow /\ row = FromBaseline(k)
    BY <1>1
  <2>2. row.commit = 0 /\ row.event = 0 /\ row.key = k /\ k # 0
    BY <2>1, KeysAssumption DEF FromBaseline
  <2> QED
    BY <2>1, <2>2, HistoryTypes DEF RowOrigins, Nobody, Untouched
<1>2. CASE \E c \in 1 .. Len(Commits) : \E i \in 1 .. Len(EventsOf(c)) :
             EventsOf(c)[i].before = NoRow /\ row = FromInsert(c, i)
  <2>a. PICK c \in 1 .. Len(Commits) : \E i \in 1 .. Len(EventsOf(c)) :
           EventsOf(c)[i].before = NoRow /\ row = FromInsert(c, i)
    BY <1>2
  <2>1. PICK i \in 1 .. Len(EventsOf(c)) : EventsOf(c)[i].before = NoRow /\ row = FromInsert(c, i)
    BY <2>a
  <2>2. c \in Nat \ {0} /\ i \in Nat /\ c \in 0 .. Len(Commits)
    BY EventsOfType, HistoryTypes
  <2>3. row.commit = c /\ row.event = i
    BY <2>1 DEF FromInsert
  <2>4. row \in RowOrigins
    BY <2>1, <2>2 DEF RowOrigins
  <2> QED
    BY <2>1, <2>2, <2>3, <2>4 DEF Nobody, Untouched
<1> QED
  BY <1>1, <1>2 DEF IsRow

\* What an event that fits does to the rows.
LEMMA FittingEvent ==
  ASSUME NEW rows \in Table, NEW event \in Event, ApplyEvent(rows, event) \in Table
  PROVE  LET b == event.before
             a == event.after
             next == ApplyEvent(rows, event)
         IN /\ b # NoRow => b.key \in Keys /\ rows[b.key] # NoRow
            /\ a # NoRow => /\ a.key \in Keys /\ next[a.key] # NoRow
                            /\ rows[a.key] = NoRow \/ (b # NoRow /\ a.key = b.key)
            /\ \A k \in Keys :
                 /\ b # NoRow /\ k = b.key /\ ~(a # NoRow /\ k = a.key) => next[k] = NoRow
                 /\ ~(b # NoRow /\ k = b.key) /\ ~(a # NoRow /\ k = a.key) => next[k] = rows[k]
<1> DEFINE b == event.before
           a == event.after
           kept == Without(rows, event)
           next == ApplyEvent(rows, event)
<1>1. next # Broken /\ next # TooLarge
  BY NoRowAssumption
<1>2. ~Stale(rows, event)
  BY <1>1 DEF ApplyEvent
<1>3. b # NoRow => b.key \in Keys /\ b.value \in Values
  BY DEF Event, Image
<1>4. a # NoRow => a.key \in Keys /\ a.value \in Values /\ a.value # NoRow
  BY NoRowAssumption DEF Event, Image
<1>5. b # NoRow => rows[b.key] # NoRow
  BY <1>2, <1>3, NoRowAssumption DEF Stale
<1>6. /\ kept \in Table
      /\ b # NoRow => kept[b.key] = NoRow
      /\ \A k \in Keys : ~(b # NoRow /\ k = b.key) => kept[k] = rows[k]
  BY <1>3 DEF Without, Table
<1>7. CASE a = NoRow
  <2>1. next = kept
    BY <1>2, <1>7 DEF ApplyEvent
  <2> QED
    BY <1>3, <1>5, <1>6, <1>7, <2>1
<1>8. CASE a # NoRow
  <2>1. kept[a.key] = NoRow /\ next = [kept EXCEPT ![a.key] = a.value]
    BY <1>1, <1>2, <1>8 DEF ApplyEvent
  <2> HIDE DEF kept, next
  <2>2. /\ next[a.key] = a.value
        /\ \A k \in Keys : k # a.key => next[k] = kept[k]
    BY <1>4, <1>6, <1>8, <2>1 DEF Table
  <2>3. rows[a.key] = NoRow \/ (b # NoRow /\ a.key = b.key)
    BY <1>4, <1>6, <1>8, <2>1
  <2>4. a.key \in Keys /\ next[a.key] # NoRow
    BY <1>4, <1>8, <2>2
  <2>5. ASSUME NEW k \in Keys, b # NoRow /\ k = b.key, ~(a # NoRow /\ k = a.key)
        PROVE  next[k] = NoRow
    BY <1>6, <1>8, <2>2, <2>5
  <2>6. ASSUME NEW k \in Keys, ~(b # NoRow /\ k = b.key), ~(a # NoRow /\ k = a.key)
        PROVE  next[k] = rows[k]
    BY <1>6, <1>8, <2>2, <2>6
  <2> QED
    BY <1>3, <1>5, <2>3, <2>4, <2>5, <2>6 DEF next
<1> QED
  BY <1>7, <1>8

\* Who an event of rows with identities is about: a row that was present, or a new one.
Mover(holders, c, i) ==
  LET event == EventsOf(c)[i] IN
  IF event.before = NoRow THEN FromInsert(c, i) ELSE holders[event.before.key]

\* Who an event moves.
LEMMA MoverIs ==
  ASSUME history \in Histories, NEW c \in 1 .. Len(Commits), NEW i \in 1 .. Len(EventsOf(c)),
         NEW rows, NEW holders, Identified(rows, holders, c, i - 1),
         ApplyEvent(rows, EventsOf(c)[i]) \in Table
  PROVE  LET who == Mover(holders, c, i)
             b == EventsOf(c)[i].before
         IN /\ IsRow(who) /\ AppearsBy(who, c, i) /\ who # Nobody
            /\ \A k \in Keys : holders[k] = who => b # NoRow /\ k = b.key
            /\ b # NoRow => b.key \in Keys /\ holders[b.key] = who
            /\ b = NoRow => who = FromInsert(c, i) /\ ~AppearsBy(who, c, i - 1)
<1> DEFINE who == Mover(holders, c, i)
           b == EventsOf(c)[i].before
<1>1. EventsOf(c)[i] \in Event /\ c \in Nat \ {0} /\ i \in Nat \ {0}
  BY EventsOfType
<1>2. rows \in Table
  BY DEF Identified
<1>3. CASE b = NoRow
  <2>1. who = FromInsert(c, i)
    BY <1>3 DEF Mover
  <2>2. IsRow(who)
    BY <1>3, <2>1 DEF IsRow
  <2>3. who.commit = c /\ who.event = i
    BY <2>1 DEF FromInsert
  <2>4. AppearsBy(who, c, i) /\ ~AppearsBy(who, c, i - 1)
    BY <1>1, <2>3 DEF AppearsBy
  <2>5. who # Nobody
    BY <2>2, IsRowType
  <2>6. \A k \in Keys : holders[k] # who
    BY <2>4, <2>5 DEF Identified
  <2> QED
    BY <1>3, <2>1, <2>2, <2>4, <2>5, <2>6
<1>4. CASE b # NoRow
  <2>1. who = holders[b.key]
    BY <1>4 DEF Mover
  <2>2. b.key \in Keys /\ rows[b.key] # NoRow
    BY <1>1, <1>2, <1>4, FittingEvent
  <2>3. who # Nobody
    BY <2>1, <2>2 DEF Identified
  <2>4. IsRow(who) /\ AppearsBy(who, c, i - 1)
    BY <2>1, <2>2, <2>3 DEF Identified
  <2>5. AppearsBy(who, c, i)
    BY <1>1, <2>4, IsRowType DEF AppearsBy
  <2>6. \A k \in Keys : holders[k] = who => k = b.key
    BY <2>1, <2>2, <2>3 DEF Identified
  <2> QED
    BY <1>4, <2>1, <2>2, <2>3, <2>4, <2>5, <2>6
<1> QED
  BY <1>3, <1>4

\* Where an event leaves the identities.
LEMMA HandedOnIs ==
  ASSUME history \in Histories, NEW c \in 1 .. Len(Commits), NEW i \in 1 .. Len(EventsOf(c)),
         NEW holders
  PROVE  LET b == EventsOf(c)[i].before
             a == EventsOf(c)[i].after
             next == HandedOn(holders, c, i, EventsOf(c)[i])
         IN \A k \in Keys :
              /\ a # NoRow /\ k = a.key => next[k] = Mover(holders, c, i)
              /\ ~(a # NoRow /\ k = a.key) /\ b # NoRow /\ k = b.key => next[k] = Nobody
              /\ ~(a # NoRow /\ k = a.key) /\ ~(b # NoRow /\ k = b.key) => next[k] = holders[k]
BY DEF HandedOn, Mover

\* An event that fits keeps every row's identity.
LEMMA IdentifiedEvent ==
  ASSUME history \in Histories, NEW c \in 1 .. Len(Commits), NEW i \in 1 .. Len(EventsOf(c)),
         NEW rows, NEW holders, Identified(rows, holders, c, i - 1),
         ApplyEvent(rows, EventsOf(c)[i]) \in Table
  PROVE  Identified(ApplyEvent(rows, EventsOf(c)[i]), HandedOn(holders, c, i, EventsOf(c)[i]), c, i)
<1> DEFINE b == EventsOf(c)[i].before
           a == EventsOf(c)[i].after
           rows2 == ApplyEvent(rows, EventsOf(c)[i])
           next == HandedOn(holders, c, i, EventsOf(c)[i])
           who == Mover(holders, c, i)
           To(k) == a # NoRow /\ k = a.key
           From(k) == b # NoRow /\ k = b.key
<1>1. EventsOf(c)[i] \in Event /\ c \in Nat \ {0} /\ i \in Nat \ {0}
  BY EventsOfType
<1>2. rows \in Table /\ holders \in [Keys -> Origins]
  BY DEF Identified
<1>3. /\ a # NoRow => rows2[a.key] # NoRow /\ a.key \in Keys
      /\ \A k \in Keys : /\ From(k) /\ ~To(k) => rows2[k] = NoRow
                         /\ ~From(k) /\ ~To(k) => rows2[k] = rows[k]
  BY <1>1, <1>2, FittingEvent
<1>4. \A k \in Keys : /\ To(k) => next[k] = who
                      /\ ~To(k) /\ From(k) => next[k] = Nobody
                      /\ ~To(k) /\ ~From(k) => next[k] = holders[k]
  BY HandedOnIs
<1>5. /\ IsRow(who) /\ AppearsBy(who, c, i) /\ who # Nobody
      /\ \A k \in Keys : holders[k] = who => From(k)
  BY MoverIs
<1>6. next \in [Keys -> Origins]
  BY <1>1, <1>2, HandedOnType
<1>7. rows2 \in Table
  OBVIOUS
<1>8. /\ \A k \in Keys : rows[k] = NoRow <=> holders[k] = Nobody
      /\ \A k \in Keys : holders[k] # Nobody => IsRow(holders[k]) /\ AppearsBy(holders[k], c, i - 1)
      /\ \A j \in Keys, k \in Keys : holders[k] # Nobody /\ holders[j] = holders[k] => j = k
  BY DEF Identified
<1> HIDE DEF b, a, rows2, next, who
<1>9. ASSUME NEW k \in Keys PROVE rows2[k] = NoRow <=> next[k] = Nobody
  BY <1>3, <1>4, <1>5, <1>8
<1>10. ASSUME NEW k \in Keys, next[k] # Nobody PROVE IsRow(next[k]) /\ AppearsBy(next[k], c, i)
  <2>1. CASE To(k)
    BY <1>4, <1>5, <2>1
  <2>2. CASE ~To(k)
    <3>1. next[k] = holders[k] /\ IsRow(holders[k]) /\ AppearsBy(holders[k], c, i - 1)
      BY <1>4, <1>8, <1>10, <2>2
    <3> QED
      BY <1>1, <3>1, IsRowType DEF AppearsBy
  <2> QED
    BY <2>1, <2>2
<1>11. ASSUME NEW j \in Keys, NEW k \in Keys, next[k] # Nobody, next[j] = next[k] PROVE j = k
  <2>1. CASE To(k)
    BY <1>4, <1>5, <1>11, <2>1
  <2>2. CASE ~To(k)
    BY <1>4, <1>5, <1>8, <1>11, <2>2
  <2> QED
    BY <2>1, <2>2
<1>12. Identified(rows2, next, c, i)
  BY <1>6, <1>7, <1>9, <1>10, <1>11 DEF Identified
<1> QED
  BY <1>12 DEF rows2, next

\* The rows and their identities after the first i events of a transaction.
RowsAt(c, i) == RowsIn(RowsAfter(c - 1), EventsOf(c), i)
HoldersAt(c, i) == HoldersIn(HoldersAfter(c - 1), c, i)

\* The first n transactions fit.
Fitting(n) == \A i \in 0 .. n : RowsAfter(i) \in Sized

\* Within a transaction that fits, so does every event.
LEMMA EventsFit ==
  ASSUME NEW rows \in Table, NEW events \in Seq(Event), ApplyEvents(rows, events) \in Table,
         NEW i \in 0 .. Len(events)
  PROVE  RowsIn(rows, events, i) \in Table
<1> DEFINE N == Len(events)
           R(j) == RowsIn(rows, events, j)
           T == {d \in Nat : i + d <= N => (R(i) \notin Table => R(i + d) \notin Table)}
<1>1. N \in Nat /\ i \in Nat
  OBVIOUS
<1>2. \A j \in 0 .. N : R(j) \in Results
  BY RowsInType
<1>3. \A j \in 1 .. N : R(j) = OneEvent(R(j - 1), events[j])
  BY RowsInSteps
<1> HIDE DEF R, N
<1>4. 0 \in T
  BY <1>1
<1>5. ASSUME NEW d \in Nat, d \in T PROVE d + 1 \in T
  <2>1. SUFFICES ASSUME i + (d + 1) <= N, R(i) \notin Table PROVE R(i + (d + 1)) \notin Table
    OBVIOUS
  <2>2. i + (d + 1) \in 1 .. N /\ i + (d + 1) - 1 = i + d /\ i + d \in 0 .. N
    BY <1>1, <2>1
  <2>3. R(i + d) \in {Broken, TooLarge}
    BY <1>2, <1>5, <2>1, <2>2 DEF Results
  <2> QED
    BY <1>3, <2>2, <2>3, NoRowAssumption DEF OneEvent
<1> HIDE DEF T
<1>6. N - i \in T
  BY <1>1, <1>4, <1>5, Induction DEF N
<1>7. R(N) \in Table
  BY ApplyEventsIsRowsIn DEF R, N
<1> QED
  BY <1>1, <1>6, <1>7 DEF T, R, N

\* A transaction that fits, event by event.
LEMMA TransactionFits ==
  ASSUME history \in Histories, NEW c \in 1 .. Len(Commits), Fitting(c)
  PROVE  /\ RowsAfter(c - 1) \in Table /\ HoldersAfter(c - 1) \in [Keys -> Origins]
         /\ RowsAt(c, 0) = RowsAfter(c - 1) /\ HoldersAt(c, 0) = HoldersAfter(c - 1)
         /\ RowsAt(c, Len(EventsOf(c))) = RowsAfter(c)
         /\ HoldersAt(c, Len(EventsOf(c))) = HoldersAfter(c)
         /\ \A i \in 0 .. Len(EventsOf(c)) :
              RowsAt(c, i) \in Table /\ HoldersAt(c, i) \in [Keys -> Origins]
         /\ \A i \in 1 .. Len(EventsOf(c)) :
              /\ i - 1 \in 0 .. Len(EventsOf(c))
              /\ RowsAt(c, i) = ApplyEvent(RowsAt(c, i - 1), EventsOf(c)[i])
              /\ HoldersAt(c, i) = HandedOn(HoldersAt(c, i - 1), c, i, EventsOf(c)[i])
<1>1. /\ EventsOf(c) \in Seq(Event) /\ EventsOf(c) = Commits[c].events /\ c \in Nat \ {0}
      /\ Len(EventsOf(c)) \in Nat
  BY EventsOfType
<1>2. c - 1 \in 0 .. c /\ c - 1 \in 0 .. Len(Commits) /\ c \in 0 .. c /\ Len(Commits) \in Nat
  BY <1>1, HistoryTypes
<1>3. RowsAfter(c - 1) \in Sized /\ RowsAfter(c) \in Sized
  BY <1>2 DEF Fitting
<1>4. RowsAfter(c - 1) \in Table /\ RowsAfter(c) \in Table /\ HoldersAfter(c - 1) \in [Keys -> Origins]
  BY <1>2, <1>3, HoldersAfterSteps DEF Sized
<1>5. RowsAfter(c) = ApplyEvents(RowsAfter(c - 1), EventsOf(c))
  BY <1>1, <1>4, RowsAfterSteps, NoRowAssumption
<1>6. RowsAt(c, 0) = RowsAfter(c - 1) /\ RowsAt(c, Len(EventsOf(c))) = RowsAfter(c)
  BY <1>1, <1>4, <1>5, RowsInSteps, ApplyEventsIsRowsIn DEF RowsAt
<1>7. \A i \in 0 .. Len(EventsOf(c)) : RowsAt(c, i) \in Table
  BY <1>1, <1>4, <1>5, EventsFit DEF RowsAt
<1>8. \A i \in 1 .. Len(EventsOf(c)) :
        i - 1 \in 0 .. Len(EventsOf(c)) /\ RowsAt(c, i) = OneEvent(RowsAt(c, i - 1), EventsOf(c)[i])
  BY <1>1, <1>4, RowsInSteps DEF RowsAt
<1>9. \A i \in 1 .. Len(EventsOf(c)) :
        RowsAt(c, i) = ApplyEvent(RowsAt(c, i - 1), EventsOf(c)[i])
  BY <1>7, <1>8, NoRowAssumption DEF OneEvent
<1>10. /\ HoldersAt(c, 0) = HoldersAfter(c - 1)
       /\ \A i \in 1 .. Len(EventsOf(c)) :
            HoldersAt(c, i) = HandedOn(HoldersAt(c, i - 1), c, i, EventsOf(c)[i])
       /\ \A i \in 0 .. Len(EventsOf(c)) : HoldersAt(c, i) \in [Keys -> Origins]
  BY <1>4, HoldersInSteps DEF HoldersAt
<1>11. HoldersAt(c, Len(EventsOf(c))) = HoldersAfter(c)
  BY HoldersAfterSteps DEF HoldersAt
<1> QED
  BY <1>4, <1>6, <1>7, <1>8, <1>9, <1>10, <1>11

\* Identities within a transaction, from those before it.
LEMMA IdentifiedIn ==
  ASSUME history \in Histories, NEW c \in 1 .. Len(Commits), Fitting(c),
         Identified(RowsAfter(c - 1), HoldersAfter(c - 1), c, 0),
         NEW i \in 0 .. Len(EventsOf(c))
  PROVE  Identified(RowsAt(c, i), HoldersAt(c, i), c, i)
<1> DEFINE N == Len(EventsOf(c))
           T == {j \in Nat : j <= N => Identified(RowsAt(c, j), HoldersAt(c, j), c, j)}
<1>1. N \in Nat
  BY EventsOfType
<1>2. 0 \in T
  BY TransactionFits
<1>3. ASSUME NEW j \in Nat, j \in T PROVE j + 1 \in T
  <2>1. SUFFICES ASSUME j + 1 <= N PROVE Identified(RowsAt(c, j + 1), HoldersAt(c, j + 1), c, j + 1)
    OBVIOUS
  <2>2. j + 1 \in 1 .. N /\ j + 1 \in 0 .. N /\ (j + 1) - 1 = j
    BY <1>1, <2>1
  <2>3. Identified(RowsAt(c, j), HoldersAt(c, j), c, (j + 1) - 1)
    BY <1>3, <2>1, <2>2
  <2>4. /\ RowsAt(c, j + 1) = ApplyEvent(RowsAt(c, j), EventsOf(c)[j + 1])
        /\ HoldersAt(c, j + 1) = HandedOn(HoldersAt(c, j), c, j + 1, EventsOf(c)[j + 1])
        /\ RowsAt(c, j + 1) \in Table
    BY <2>2, TransactionFits
  <2> QED
    BY <2>2, <2>3, <2>4, IdentifiedEvent
<1> HIDE DEF T
<1>4. i \in T
  BY <1>1, <1>2, <1>3, Induction
<1> QED
  BY <1>1, <1>4 DEF T

\* Rows keep their identities through every transaction that fits.
LEMMA Identities ==
  ASSUME history \in Histories, NEW n \in 0 .. Len(Commits), Fitting(n)
  PROVE  Identified(RowsAfter(n), HoldersAfter(n), n + 1, 0)
<1> DEFINE T == {m \in Nat : m <= n => Identified(RowsAfter(m), HoldersAfter(m), m + 1, 0)}
<1>1. Len(Commits) \in Nat /\ history.rows \in Table
  BY HistoryTypes
<1>2. 0 \in T
  <2>1. RowsAfter(0) = history.rows /\ HoldersAfter(0) = FirstHolders
        /\ HoldersAfter(0) \in [Keys -> Origins]
    BY <1>1, RowsAfterSteps, HoldersAfterSteps
  <2>2. \A k \in Keys : FromBaseline(k) # Nobody
    BY KeysAssumption DEF FromBaseline, Nobody, Untouched
  <2>3. \A k \in Keys : history.rows[k] = NoRow <=> FirstHolders[k] = Nobody
    BY <2>2 DEF FirstHolders
  <2>4. ASSUME NEW k \in Keys, FirstHolders[k] # Nobody
        PROVE  FirstHolders[k] = FromBaseline(k) /\ history.rows[k] # NoRow
    BY <2>4 DEF FirstHolders
  <2>5. ASSUME NEW k \in Keys, FirstHolders[k] # Nobody
        PROVE  IsRow(FirstHolders[k]) /\ AppearsBy(FirstHolders[k], 1, 0)
    <3>1. FirstHolders[k] = FromBaseline(k) /\ history.rows[k] # NoRow
      BY <2>4, <2>5
    <3>2. FromBaseline(k).commit = 0
      BY DEF FromBaseline
    <3> QED
      BY <3>1, <3>2 DEF IsRow, AppearsBy
  <2>6. ASSUME NEW j \in Keys, NEW k \in Keys, FirstHolders[k] # Nobody,
               FirstHolders[j] = FirstHolders[k]
        PROVE  j = k
    <3>1. FirstHolders[j] = FromBaseline(j) /\ FirstHolders[k] = FromBaseline(k)
      BY <2>4, <2>6
    <3>2. FromBaseline(j).key = j /\ FromBaseline(k).key = k
      BY DEF FromBaseline
    <3> QED
      BY <2>6, <3>1, <3>2
  <2>7. Identified(history.rows, FirstHolders, 1, 0)
    BY <1>1, <2>1, <2>3, <2>5, <2>6 DEF Identified
  <2> QED
    BY <2>1, <2>7
<1>3. ASSUME NEW m \in Nat, m \in T PROVE m + 1 \in T
  <2>1. SUFFICES ASSUME m + 1 <= n
                 PROVE  Identified(RowsAfter(m + 1), HoldersAfter(m + 1), (m + 1) + 1, 0)
    OBVIOUS
  <2>2. m + 1 \in 1 .. Len(Commits) /\ (m + 1) - 1 = m /\ Fitting(m + 1) /\ m <= n
    BY <1>1, <2>1 DEF Fitting
  <2>3. Len(EventsOf(m + 1)) \in 0 .. Len(EventsOf(m + 1))
    BY <2>2, EventsOfType
  <2>4. Identified(RowsAfter(m + 1), HoldersAfter(m + 1), m + 1, Len(EventsOf(m + 1)))
    BY <1>3, <2>2, <2>3, IdentifiedIn, TransactionFits
  <2>5. \A row : IsRow(row) /\ AppearsBy(row, m + 1, Len(EventsOf(m + 1)))
                   => AppearsBy(row, (m + 1) + 1, 0)
    BY <1>1, IsRowType DEF AppearsBy
  <2> QED
    BY <2>4, <2>5 DEF Identified
<1> HIDE DEF T
<1>4. n \in T
  BY <1>1, <1>2, <1>3, Induction
<1> QED
  BY <1>1, <1>4 DEF T

\* The identities within a transaction that fits.
LEMMA IdentitiesWithin ==
  ASSUME history \in Histories, NEW c \in 1 .. Len(Commits), Fitting(c),
         NEW i \in 0 .. Len(EventsOf(c))
  PROVE  Identified(RowsAt(c, i), HoldersAt(c, i), c, i)
<1>1. c - 1 \in 0 .. Len(Commits) /\ (c - 1) + 1 = c /\ Fitting(c - 1)
  BY HistoryTypes DEF Fitting
<1>2. Identified(RowsAfter(c - 1), HoldersAfter(c - 1), c, 0)
  BY <1>1, Identities
<1> QED
  BY <1>2, IdentifiedIn

--------------------------------------------------------------------------
(* The first pass of a row history.                                        *)

\* The origins kept name the identity of every row present.
Traced(rows, origins, holders) ==
  \A k \in Keys : rows[k] # NoRow => OriginAt(origins, k) = holders[k]

\* Nobody is never moved.
LEMMA MoverIsSomebody ==
  ASSUME history \in Histories, NEW c \in 1 .. Len(Commits), NEW i \in 1 .. Len(EventsOf(c)),
         NEW rows, NEW holders, Identified(rows, holders, c, i - 1),
         ApplyEvent(rows, EventsOf(c)[i]) \in Table
  PROVE  Mover(holders, c, i) # Nobody
<1>1. CASE EventsOf(c)[i].before = NoRow
  <2>1. Mover(holders, c, i) = FromInsert(c, i)
    BY <1>1 DEF Mover
  <2>2. IsRow(FromInsert(c, i))
    BY <1>1 DEF IsRow
  <2> QED
    BY <2>1, <2>2, IsRowType
<1>2. CASE EventsOf(c)[i].before # NoRow
  <2> DEFINE b == EventsOf(c)[i].before
  <2>1. Mover(holders, c, i) = holders[b.key]
    BY <1>2 DEF Mover
  <2>2. EventsOf(c)[i] \in Event /\ rows \in Table
    BY EventsOfType DEF Identified
  <2>3. b.key \in Keys /\ rows[b.key] # NoRow
    BY <1>2, <2>2, FittingEvent
  <2> QED
    BY <2>1, <2>3 DEF Identified
<1> QED
  BY <1>1, <1>2

\* An event keeps the origins those of the rows.
LEMMA TracedEvent ==
  ASSUME history \in Histories, NEW c \in 1 .. Len(Commits), NEW i \in 1 .. Len(EventsOf(c)),
         NEW rows, NEW holders, Identified(rows, holders, c, i - 1),
         ApplyEvent(rows, EventsOf(c)[i]) \in Table,
         NEW origins \in [Keys -> Origins], Traced(rows, origins, holders)
  PROVE  Traced(ApplyEvent(rows, EventsOf(c)[i]),
                OriginsWith(origins, c, i, EventsOf(c)[i]),
                HandedOn(holders, c, i, EventsOf(c)[i]))
<1> DEFINE e == EventsOf(c)[i]
           b == EventsOf(c)[i].before
           a == EventsOf(c)[i].after
           rows2 == ApplyEvent(rows, e)
           origins2 == OriginsWith(origins, c, i, e)
           next == HandedOn(holders, c, i, e)
           who == Mover(holders, c, i)
           To(k) == a # NoRow /\ k = a.key
           From(k) == b # NoRow /\ k = b.key
<1>1. e \in Event /\ c \in Nat \ {0} /\ i \in Nat
  BY EventsOfType
<1>2. rows \in Table
  BY DEF Identified
<1>3. /\ b # NoRow => b.key \in Keys /\ rows[b.key] # NoRow
      /\ \A k \in Keys : /\ From(k) /\ ~To(k) => rows2[k] = NoRow
                         /\ ~From(k) /\ ~To(k) => rows2[k] = rows[k]
      /\ a # NoRow => a.key \in Keys
  BY <1>1, <1>2, FittingEvent
<1>4. \A k \in Keys : /\ To(k) => next[k] = who
                      /\ ~To(k) /\ ~From(k) => next[k] = holders[k]
  BY HandedOnIs
<1>5. EventOrigin(origins, c, i, e) = who
  BY <1>3 DEF EventOrigin, Mover, Traced
<1>6. who # Untouched
  <2>1. Mover(holders, c, i) # Nobody
    BY MoverIsSomebody
  <2> QED
    BY <2>1 DEF Nobody
<1>7. \A k \in Keys : /\ To(k) => origins2[k] = who
                      /\ ~To(k) /\ ~From(k) => origins2[k] = origins[k]
  <2>1. Forget(origins, b) \in [Keys -> Origins]
    BY DEF Forget, Origins
  <2>2. \A k \in Keys : ~From(k) => Forget(origins, b)[k] = origins[k]
    BY DEF Forget
  <2>3. origins2 = IF a = NoRow THEN Forget(origins, b)
                   ELSE [Forget(origins, b) EXCEPT ![a.key] = who]
    BY <1>5 DEF OriginsWith
  <2> HIDE DEF origins2, who, a, b
  <2> QED
    BY <1>3, <2>1, <2>2, <2>3
<1>8. ASSUME NEW k \in Keys, rows2[k] # NoRow PROVE OriginAt(origins2, k) = next[k]
  <2>1. CASE To(k)
    BY <1>4, <1>6, <1>7, <2>1 DEF OriginAt
  <2>2. CASE ~To(k)
    <3>1. ~From(k) /\ rows[k] # NoRow
      BY <1>3, <1>8, <2>2
    <3>2. origins2[k] = origins[k] /\ next[k] = holders[k]
      BY <1>4, <1>7, <2>2, <3>1
    <3> QED
      BY <3>1, <3>2 DEF OriginAt, Traced
  <2> QED
    BY <2>1, <2>2
<1> QED
  BY <1>8 DEF Traced

\* Nothing is traced before the first event.
LEMMA TracedFirst ==
  ASSUME history \in Histories
  PROVE  Traced(RowsAfter(0), NoLineage.origins, HoldersAfter(0))
<1>1. RowsAfter(0) = history.rows /\ HoldersAfter(0) = FirstHolders
  BY RowsAfterSteps, HoldersAfterSteps
<1>2. NoLineage.origins = [k \in Keys |-> Untouched]
  BY DEF NoLineage
<1> QED
  BY <1>1, <1>2 DEF Traced, OriginAt, FirstHolders

\* And a transaction that fits is traced as a whole.
LEMMA TracedAfter ==
  ASSUME history \in Histories, NEW c \in 1 .. Len(Commits), Fitting(c),
         NEW origins \in [Keys -> Origins], Traced(RowsAfter(c - 1), origins, HoldersAfter(c - 1))
  PROVE  Traced(RowsAfter(c), OriginsAfter(origins, c, EventsOf(c)), HoldersAfter(c))
<1> DEFINE N == Len(EventsOf(c))
           O(j) == OriginsIn(origins, c, EventsOf(c), j)
           T == {j \in Nat : j <= N => Traced(RowsAt(c, j), O(j), HoldersAt(c, j))}
<1>1. N \in Nat /\ EventsOf(c) \in Seq(Event) /\ c \in Nat \ {0}
  BY EventsOfType
<1>2. /\ O(0) = origins
      /\ \A j \in 1 .. N : O(j) = OriginsWith(O(j - 1), c, j, EventsOf(c)[j])
      /\ \A j \in 0 .. N : O(j) \in [Keys -> Origins]
  BY <1>1, OriginsInSteps
<1> HIDE DEF O
<1>3. 0 \in T
  BY <1>2, TransactionFits
<1>4. ASSUME NEW j \in Nat, j \in T PROVE j + 1 \in T
  <2>1. SUFFICES ASSUME j + 1 <= N PROVE Traced(RowsAt(c, j + 1), O(j + 1), HoldersAt(c, j + 1))
    OBVIOUS
  <2>2. j + 1 \in 1 .. N /\ j \in 0 .. N /\ (j + 1) - 1 = j /\ j + 1 \in 0 .. N
    BY <1>1, <2>1
  <2>3. Identified(RowsAt(c, j), HoldersAt(c, j), c, (j + 1) - 1)
    BY <2>2, IdentitiesWithin
  <2>4. /\ RowsAt(c, j + 1) = ApplyEvent(RowsAt(c, j), EventsOf(c)[j + 1])
        /\ HoldersAt(c, j + 1) = HandedOn(HoldersAt(c, j), c, j + 1, EventsOf(c)[j + 1])
        /\ RowsAt(c, j + 1) \in Table
    BY <2>2, TransactionFits
  <2>5. O(j + 1) = OriginsWith(O(j), c, j + 1, EventsOf(c)[j + 1]) /\ O(j) \in [Keys -> Origins]
    BY <1>2, <2>2
  <2>6. Traced(RowsAt(c, j), O(j), HoldersAt(c, j))
    BY <1>4, <2>1
  <2> QED
    BY <2>2, <2>3, <2>4, <2>5, <2>6, TracedEvent
<1> HIDE DEF T
<1>5. N \in T
  BY <1>1, <1>3, <1>4, Induction
<1>6. Traced(RowsAt(c, N), O(N), HoldersAt(c, N))
  BY <1>1, <1>5 DEF T
<1>7. O(N) = OriginsAfter(origins, c, EventsOf(c))
  BY OriginsAfterIsOriginsIn DEF O
<1> QED
  BY <1>6, <1>7, TransactionFits

--------------------------------------------------------------------------
(* The second pass of a row history.                                       *)

\* The key followed is the one the row is under, if it is there.
Follows(live, row, holders) ==
  IF live = NoRow THEN \A k \in Keys : holders[k] # row
  ELSE live \in Keys /\ holders[live] = row

\* What the second pass knows, unless its page overflowed.
Tracks(l, row, holders, life, c, i) ==
  \/ l.page.over
  \/ /\ Follows(l.live, row, holders)
     /\ PageSound(l.page, ask.page, Entries, life)
     /\ l.born <=> AppearsBy(row, c, i)

\* Who an event is about is who it moves.
LEMMA SubjectIs ==
  ASSUME NEW c, NEW i
  PROVE  Subject(c, i) = Mover(HoldersAt(c, i - 1), c, i)
BY DEF Subject, Mover, HoldersAt

\* An event concerns the key followed when it is about the row.
LEMMA ConcernsIs ==
  ASSUME history \in Histories, NEW c \in 1 .. Len(Commits), NEW i \in 1 .. Len(EventsOf(c)),
         NEW rows, NEW holders, Identified(rows, holders, c, i - 1),
         ApplyEvent(rows, EventsOf(c)[i]) \in Table, c = replay.commit,
         NEW row, IsRow(row), NEW l, l.origin = row, Follows(l.live, row, holders)
  PROVE  Concerns(l, i, EventsOf(c)[i]) <=> Mover(holders, c, i) = row
<1> DEFINE e == EventsOf(c)[i]
           b == e.before
           who == Mover(holders, c, i)
<1>1. e \in Event /\ c \in Nat \ {0} /\ i \in Nat \ {0}
  BY EventsOfType
<1>2. /\ b # NoRow => b.key \in Keys /\ holders[b.key] = who
      /\ b = NoRow => who = FromInsert(c, i)
      /\ who # Nobody
      /\ \A k \in Keys : holders[k] = who => b # NoRow /\ k = b.key
  BY MoverIs
<1>3. FromInsert(c, i).commit = c /\ FromInsert(c, i).event = i
  BY DEF FromInsert
<1>4. Starts(l, i) <=> row.commit = c /\ row.event = i
  BY DEF Starts
<1>5. ASSUME Starts(l, i) PROVE who = row
  <2>1. row = FromInsert(c, i) /\ b = NoRow
    BY <1>1, <1>4, <1>5, IsRowType
  <2> QED
    BY <1>2, <2>1
<1>6. ASSUME l.live # NoRow, b # NoRow, b.key = l.live PROVE who = row
  BY <1>2, <1>6 DEF Follows
<1>7. ASSUME who = row PROVE Starts(l, i) \/ (l.live # NoRow /\ b # NoRow /\ b.key = l.live)
  <2>1. CASE b = NoRow
    BY <1>2, <1>3, <1>4, <1>7, <2>1
  <2>2. CASE b # NoRow
    <3>1. l.live # NoRow
      BY <1>2, <1>7, <2>2 DEF Follows
    <3>2. l.live \in Keys /\ holders[l.live] = row
      BY <3>1 DEF Follows
    <3> QED
      BY <1>2, <1>7, <2>2, <3>1, <3>2
  <2> QED
    BY <2>1, <2>2
<1>8. Concerns(l, i, e) <=> Starts(l, i) \/ (l.live # NoRow /\ b # NoRow /\ b.key = l.live)
  BY DEF Concerns
<1> QED
  BY <1>5, <1>6, <1>7, <1>8

\* An event about another row leaves this one where it is.
LEMMA OthersMove ==
  ASSUME history \in Histories, NEW c \in 1 .. Len(Commits), NEW i \in 1 .. Len(EventsOf(c)),
         NEW rows, NEW holders, Identified(rows, holders, c, i - 1),
         ApplyEvent(rows, EventsOf(c)[i]) \in Table,
         NEW row, IsRow(row), Mover(holders, c, i) # row,
         NEW live, Follows(live, row, holders)
  PROVE  /\ Follows(live, row, HandedOn(holders, c, i, EventsOf(c)[i]))
         /\ AppearsBy(row, c, i) <=> AppearsBy(row, c, i - 1)
<1> DEFINE e == EventsOf(c)[i]
           b == e.before
           a == e.after
           who == Mover(holders, c, i)
           next == HandedOn(holders, c, i, e)
           To(k) == a # NoRow /\ k = a.key
           From(k) == b # NoRow /\ k = b.key
<1>1. e \in Event /\ c \in Nat \ {0} /\ i \in Nat \ {0}
  BY EventsOfType
<1>2. rows \in Table /\ row # Nobody
  BY IsRowType DEF Identified
<1>3. \A k \in Keys : /\ To(k) => next[k] = who
                      /\ ~To(k) /\ From(k) => next[k] = Nobody
                      /\ ~To(k) /\ ~From(k) => next[k] = holders[k]
  BY HandedOnIs
<1>4. /\ b # NoRow => holders[b.key] = who
      /\ b = NoRow => who = FromInsert(c, i)
  BY MoverIs
<1>5. a # NoRow => rows[a.key] = NoRow \/ (b # NoRow /\ a.key = b.key)
  BY <1>1, <1>2, FittingEvent
<1>6. \A k \in Keys : rows[k] = NoRow <=> holders[k] = Nobody
  BY DEF Identified
<1>7. Follows(live, row, next)
  <2>1. CASE live = NoRow
    <3>1. \A k \in Keys : holders[k] # row
      BY <2>1 DEF Follows
    <3>2. \A k \in Keys : next[k] # row
      BY <1>2, <1>3, <3>1
    <3> QED
      BY <2>1, <3>2 DEF Follows
  <2>2. CASE live # NoRow
    <3>1. live \in Keys /\ holders[live] = row
      BY <2>2 DEF Follows
    <3>2. ~From(live)
      BY <1>4, <3>1
    <3>3. ~To(live)
      BY <1>2, <1>5, <1>6, <3>1, <3>2
    <3> QED
      BY <1>3, <2>2, <3>1, <3>2, <3>3 DEF Follows
  <2> QED
    BY <2>1, <2>2
<1>8. AppearsBy(row, c, i) <=> AppearsBy(row, c, i - 1)
  <2>1. ~(row.commit = c /\ row.event = i)
    <3>1. SUFFICES ASSUME row.commit = c, row.event = i PROVE FALSE
      OBVIOUS
    <3>2. row = FromInsert(c, i) /\ b = NoRow
      BY <1>1, <3>1, IsRowType
    <3> QED
      BY <1>4, <3>2
  <2> QED
    BY <1>1, <2>1, IsRowType DEF AppearsBy
<1> QED
  BY <1>7, <1>8

\* An event about this row moves it to its new key, or ends it.
LEMMA RowMoves ==
  ASSUME history \in Histories, NEW c \in 1 .. Len(Commits), NEW i \in 1 .. Len(EventsOf(c)),
         NEW rows, NEW holders, Identified(rows, holders, c, i - 1),
         ApplyEvent(rows, EventsOf(c)[i]) \in Table,
         NEW row, Mover(holders, c, i) = row
  PROVE  LET after == EventsOf(c)[i].after IN
         /\ Follows(IF after = NoRow THEN NoRow ELSE after.key, row,
                    HandedOn(holders, c, i, EventsOf(c)[i]))
         /\ AppearsBy(row, c, i)
<1> DEFINE e == EventsOf(c)[i]
           b == e.before
           a == e.after
           next == HandedOn(holders, c, i, e)
           To(k) == a # NoRow /\ k = a.key
           From(k) == b # NoRow /\ k = b.key
<1>1. e \in Event
  BY EventsOfType
<1>2. \A k \in Keys : /\ To(k) => next[k] = row
                      /\ ~To(k) /\ From(k) => next[k] = Nobody
                      /\ ~To(k) /\ ~From(k) => next[k] = holders[k]
  BY HandedOnIs
<1>3. /\ AppearsBy(row, c, i) /\ row # Nobody
      /\ \A k \in Keys : holders[k] = row => From(k)
  BY MoverIs
<1>4. CASE a = NoRow
  BY <1>2, <1>3, <1>4 DEF Follows
<1>5. CASE a # NoRow
  <2>1. a.key \in Keys /\ a.key # NoRow
    BY <1>1, <1>5, NothingAssumption, KeysAssumption DEF Event, Image
  <2> QED
    BY <1>2, <1>3, <1>5, <2>1 DEF Follows
<1> QED
  BY <1>4, <1>5

\* One event of the second pass.
LEMMA TracksEvent ==
  ASSUME AskShape, NEW c \in 1 .. Len(Commits), NEW i \in 1 .. Len(EventsOf(c)),
         NEW rows, Identified(rows, HoldersAt(c, i - 1), c, i - 1),
         ApplyEvent(rows, EventsOf(c)[i]) \in Table, c = replay.commit,
         NEW row, IsRow(row), NEW l \in Lineages, l.origin = row,
         NEW life \in Seq(Entries), Tracks(l, row, HoldersAt(c, i - 1), life, c, i - 1)
  PROVE  Tracks(FollowEvent(l, i, EventsOf(c)[i]), row,
                HandedOn(HoldersAt(c, i - 1), c, i, EventsOf(c)[i]),
                LifeWith(life, row, c, i), c, i)
<1> DEFINE e == EventsOf(c)[i]
           holders == HoldersAt(c, i - 1)
           next == HandedOn(holders, c, i, e)
           l2 == FollowEvent(l, i, e)
           item == Entry(c, i, e.before, e.after)
           size == ItemSize(item, NoRow)
<1>1. e \in Event /\ c \in Nat \ {0} /\ i \in Nat \ {0} /\ history \in Histories
  BY EventsOfType DEF AskShape
<1>2. CASE l.page.over
  BY <1>2 DEF FollowEvent, Tracks
<1>3. CASE ~l.page.over
  <2>1. /\ Follows(l.live, row, holders)
        /\ PageSound(l.page, ask.page, Entries, life)
        /\ l.born <=> AppearsBy(row, c, i - 1)
    BY <1>3 DEF Tracks
  <2>2. Subject(c, i) = Mover(holders, c, i)
    BY SubjectIs
  <2>3. Concerns(l, i, e) <=> Mover(holders, c, i) = row
    BY <1>1, <2>1, ConcernsIs
  <2>4. CASE Mover(holders, c, i) # row
    <3>1. l2 = l /\ LifeWith(life, row, c, i) = life
      BY <2>2, <2>3, <2>4 DEF FollowEvent, LifeWith
    <3>2. /\ Follows(l.live, row, next)
          /\ AppearsBy(row, c, i) <=> AppearsBy(row, c, i - 1)
      BY <1>1, <2>1, <2>4, OthersMove
    <3> QED
      BY <2>1, <3>1, <3>2 DEF Tracks
  <2>5. CASE Mover(holders, c, i) = row
    <3>1. /\ l2.born
          /\ l2.live = IF e.after = NoRow THEN NoRow ELSE e.after.key
          /\ l2.page = AddItem(l.page, ask.page, item, size)
      BY <1>3, <2>3, <2>5 DEF FollowEvent, Lineages
    <3>2. LifeWith(life, row, c, i) = Append(life, item)
      BY <2>2, <2>5 DEF LifeWith
    <3>3. Follows(l2.live, row, next) /\ AppearsBy(row, c, i)
      BY <1>1, <2>5, <3>1, RowMoves
    <3>4. item \in Entries /\ size \in Nat /\ ask.page \in Options
      <4>1. e.before \in Image \union {NoRow} /\ e.after \in Image \union {NoRow}
        BY <1>1 DEF Event
      <4>2. item \in Entries
        BY <1>1, <4>1 DEF Entry, Entries
      <4>3. size \in Nat
        BY DEF ItemSize, Carried
      <4> QED
        BY <4>2, <4>3, Budgets
    <3> HIDE DEF l2, item, size
    <3>5. l2.page.over \/ PageSound(l2.page, ask.page, Entries, Append(life, item))
      BY <2>1, <3>1, <3>4, AddItemSound
    <3> QED
      BY <3>1, <3>2, <3>3, <3>5 DEF Tracks, l2
  <2> QED
    BY <2>4, <2>5
<1> QED
  BY <1>2, <1>3

\* One transaction of the second pass.
LEMMA TracksTransaction ==
  ASSUME AskShape, NEW c \in 1 .. Len(Commits), Fitting(c), c = replay.commit,
         NEW row, IsRow(row), NEW l \in Lineages, l.origin = row,
         NEW life \in Seq(Entries), Tracks(l, row, HoldersAfter(c - 1), life, c, 0)
  PROVE  LET N == Len(EventsOf(c)) IN
         Tracks(FollowEvents(l, EventsOf(c)), row, HoldersAfter(c), LivedIn(life, row, c, N), c, N)
<1> DEFINE N == Len(EventsOf(c))
           L(j) == FollowedIn(l, EventsOf(c), j)
           Q(j) == LivedIn(life, row, c, j)
           T == {j \in Nat : j <= N => Tracks(L(j), row, HoldersAt(c, j), Q(j), c, j)}
<1>1. /\ N \in Nat /\ EventsOf(c) \in Seq(Event) /\ c \in Nat \ {0} /\ history \in Histories
      /\ replay.commit \in Nat
  BY EventsOfType DEF AskShape
<1>2. /\ L(0) = l
      /\ \A j \in 1 .. N : L(j) = FollowEvent(L(j - 1), j, EventsOf(c)[j])
      /\ \A j \in 0 .. N : L(j) \in Lineages /\ L(j).origin = row
  BY <1>1, FollowedInSteps, FollowedInKeeps
<1>3. /\ Q(0) = life
      /\ \A j \in 1 .. N : Q(j) = LifeWith(Q(j - 1), row, c, j)
      /\ \A j \in 0 .. N : Q(j) \in Seq(Entries)
  BY <1>1, LivedInSteps
<1> HIDE DEF L, Q
<1>4. 0 \in T
  BY <1>1, <1>2, <1>3, TransactionFits
<1>5. ASSUME NEW j \in Nat, j \in T PROVE j + 1 \in T
  <2>1. SUFFICES ASSUME j + 1 <= N
                 PROVE  Tracks(L(j + 1), row, HoldersAt(c, j + 1), Q(j + 1), c, j + 1)
    OBVIOUS
  <2>2. j + 1 \in 1 .. N /\ j \in 0 .. N /\ (j + 1) - 1 = j /\ j + 1 \in 0 .. N
    BY <1>1, <2>1
  <2>3. Identified(RowsAt(c, j), HoldersAt(c, (j + 1) - 1), c, (j + 1) - 1)
    BY <1>1, <2>2, IdentitiesWithin
  <2>4. /\ ApplyEvent(RowsAt(c, j), EventsOf(c)[j + 1]) \in Table
        /\ HoldersAt(c, j + 1) = HandedOn(HoldersAt(c, (j + 1) - 1), c, j + 1, EventsOf(c)[j + 1])
    BY <1>1, <2>2, TransactionFits
  <2>5. /\ L(j + 1) = FollowEvent(L(j), j + 1, EventsOf(c)[j + 1])
        /\ L(j) \in Lineages /\ L(j).origin = row
    BY <1>2, <2>2
  <2>6. Q(j + 1) = LifeWith(Q(j), row, c, j + 1) /\ Q(j) \in Seq(Entries)
    BY <1>3, <2>2
  <2>7. Tracks(L(j), row, HoldersAt(c, (j + 1) - 1), Q(j), c, (j + 1) - 1)
    BY <1>5, <2>1, <2>2
  <2> QED
    BY <2>2, <2>3, <2>4, <2>5, <2>6, <2>7, TracksEvent
<1> HIDE DEF T
<1>6. N \in T
  BY <1>1, <1>4, <1>5, Induction
<1>7. Tracks(L(N), row, HoldersAt(c, N), Q(N), c, N)
  BY <1>1, <1>6 DEF T
<1>8. L(N) = FollowEvents(l, EventsOf(c))
  BY FollowEventsIsFollowedIn DEF L
<1> QED
  BY <1>1, <1>7, <1>8, TransactionFits DEF Q

\* Where the second pass starts: the baseline shows the row, or does not yet.
LEMMA TracksBaseline ==
  ASSUME AskShape, replay.commit = 0, NEW row, IsRow(row),
         replay.state.rows = history.rows,
         NEW l \in Lineages, l.origin = row, l.page = EmptyPage, ~l.born, l.live = NoRow
  PROVE  Tracks(FollowBaseline(l), row, HoldersAfter(0), LifeTo(row, 0), 0, 0)
<1> DEFINE value == history.rows[row.key]
           image == [key |-> row.key, value |-> value]
           item == Entry(0, 0, NoRow, image)
           size == ItemSize(item, NoRow)
           l2 == FollowBaseline(l)
<1>1. history \in Histories /\ ask.page \in Options
  BY Budgets DEF AskShape
<1>2. HoldersAfter(0) = FirstHolders
  BY <1>1, HoldersAfterSteps
<1>3. LifeTo(row, 0) = LifeFrom(row)
  BY <1>1, LifeToSteps, IsRowType
<1>4. PageSound(EmptyPage, ask.page, Entries, << >>) /\ ~EmptyPage.over
  BY <1>1, EmptyPageSound
<1>5. row.commit \in Nat /\ row.event \in Nat /\ row # Nobody
  BY <1>1, IsRowType, HistoryTypes
<1>6. CASE row.commit # 0
  <2>1. l2 = l /\ LifeFrom(row) = << >>
    BY <1>6 DEF FollowBaseline, LifeFrom
  <2>2. ~AppearsBy(row, 0, 0)
    BY <1>5, <1>6 DEF AppearsBy
  <2>3. \A k \in Keys : FirstHolders[k] # row
    BY <1>6 DEF FirstHolders, Nobody, Untouched, FromBaseline
  <2>4. Follows(NoRow, row, FirstHolders)
    BY <2>3 DEF Follows
  <2> QED
    BY <1>2, <1>3, <1>4, <2>1, <2>2, <2>4 DEF Tracks
<1>7. CASE row.commit = 0
  <2>1. /\ row.key \in Keys /\ row.event = 0 /\ value # NoRow /\ row = FromBaseline(row.key)
    BY <1>1, <1>7, IsRowType
  <2>2. value \in Values
    BY <1>1, <2>1, HistoryTypes DEF Table
  <2>3. /\ l2.born /\ l2.live = row.key
        /\ l2.page = AddItem(EmptyPage, ask.page, item, size)
    BY <1>7 DEF FollowBaseline, Lineages
  <2>4. LifeFrom(row) = <<item>> /\ <<item>> = Append(<< >>, item)
    BY <1>7 DEF LifeFrom
  <2>5. item \in Entries /\ size \in Nat
    <3>1. image \in Image
      BY <2>1, <2>2 DEF Image
    <3> QED
      BY <3>1 DEF Entry, Entries, ItemSize, Carried
  <2>6. AppearsBy(row, 0, 0)
    BY <1>7, <2>1 DEF AppearsBy
  <2>7. Follows(row.key, row, FirstHolders)
    <3>1. FirstHolders[row.key] = FromBaseline(row.key)
      BY <2>1 DEF FirstHolders
    <3>2. row.key # NoRow
      BY <2>1, NothingAssumption, KeysAssumption
    <3> QED
      BY <2>1, <3>1, <3>2 DEF Follows
  <2> HIDE DEF l2, item, size
  <2>8. << >> \in Seq(Entries)
    OBVIOUS
  <2>9. l2.page.over \/ PageSound(l2.page, ask.page, Entries, Append(<< >>, item))
    BY <1>1, <1>4, <2>3, <2>5, <2>8, AddItemSound
  <2>10. Tracks(l2, row, HoldersAfter(0), LifeTo(row, 0), 0, 0)
    BY <1>2, <1>3, <2>3, <2>4, <2>6, <2>7, <2>9 DEF Tracks
  <2> QED
    BY <2>10 DEF l2
<1> QED
  BY <1>6, <1>7

\* What is known of a row after the first n transactions.
Told(l, row, n) ==
  /\ Follows(l.live, row, HoldersAfter(n))
  /\ PageSound(l.page, ask.page, Entries, LifeTo(row, n))
  /\ l.born <=> row.commit <= n

\* Nothing is yet.
Untold(l) == l.page = EmptyPage /\ ~l.born /\ ~l.anchored /\ l.live = NoRow

\* The row that the key asked about held at the anchor, A transactions on.
Found(l, A, row) ==
  /\ A \in 0 .. Len(Commits)
  /\ PositionAfter(A) = l.anchor /\ CommitsTo(l.anchor) = A
  /\ ChainedTo(A) /\ Fitting(A)
  /\ RowsAfter(A)[ask.key] # NoRow
  /\ row = HoldersAfter(A)[ask.key]
  /\ l.origin = row

\* The first pass, at n transactions: the origins kept are those of the state
\* before the one to look at, and every state is looked at.
Tracing(l, n) ==
  /\ Untold(l)
  /\ pc # "finish"
  /\ pc \in {"resolve", "baseline"} => l.origins = NoLineage.origins
  /\ pc = "consume" => IF n = 0 THEN l.origins = NoLineage.origins
                       ELSE Traced(RowsAfter(n - 1), l.origins, HoldersAfter(n - 1))
  /\ pc = "read" => ~replay.reached /\ Traced(RowsAfter(n), l.origins, HoldersAfter(n))

\* What the second pass has said of the row.
ToldTo(l, A, row, n) ==
  Told(l, row, n) /\ ~l.page.over /\ (l.anchored <=> A <= n)

\* The second pass: the row followed is the one found, and its page is one of its
\* life so far.
Pursuing(l, n, A, row) ==
  /\ Found(l, A, row)
  /\ pc # "resolve"
  /\ pc = "baseline" => Untold(l)
  /\ pc = "consume" => IF n = 0 THEN Untold(l) ELSE ToldTo(l, A, row, n - 1)
  /\ pc \in {"read", "finish"} => ToldTo(l, A, row, n)

LineageHolds ==
  ask.op = "lineage" /\ pc # "done" =>
    \E l \in {lineage}, n \in {replay.commit} :
      \/ l.pass = 1 /\ Tracing(l, n)
      \/ l.pass = 2 /\ \E A \in 0 .. Len(Commits) : Pursuing(l, n, A, l.origin)

\* A row history follows the row of every key it meets, and what it answers is the
\* row's; no query calls an intact recording damaged.
LineageInv == LineageHolds /\ LineageIsTrue

\* Who held what, and what happened to whom, does not change.
LEMMA SameLineage ==
  ASSUME history' = history, ask' = ask
  PROVE  /\ \A n : HoldersAfter(n)' = HoldersAfter(n)
         /\ \A row, n : LifeTo(row, n)' = LifeTo(row, n)
         /\ \A l, row, n : Told(l, row, n)' <=> Told(l, row, n)
         /\ \A l, A, row, n : ToldTo(l, A, row, n)' <=> ToldTo(l, A, row, n)
         /\ \A l, A, row : Found(l, A, row)' <=> Found(l, A, row)
         /\ \A p : CommitsTo(p)' = CommitsTo(p)
<1>1. \A n : HoldersAfter(n)' = HoldersAfter(n)
  BY DEF HoldersAfter, HoldersIn, EventsOf, Commits
<1>2. \A row, n : LifeTo(row, n)' = LifeTo(row, n)
  BY DEF LifeTo, LivedIn, Subject, HoldersAfter, HoldersIn, EventsOf, Commits
<1>3. \A p : CommitsTo(p)' = CommitsTo(p)
  BY DEF CommitsTo, PositionAfter, Commits
<1>4. \A l, row, n : Told(l, row, n)' <=> Told(l, row, n)
  BY <1>1, <1>2 DEF Told
<1>5. \A l, A, row, n : ToldTo(l, A, row, n)' <=> ToldTo(l, A, row, n)
  BY <1>4 DEF ToldTo
<1>6. \A n : Fitting(n)' <=> Fitting(n)
  BY SameHistory DEF Fitting
<1>7. \A l, A, row : Found(l, A, row)' <=> Found(l, A, row)
  BY <1>1, <1>3, <1>6, SameHistory DEF Found
<1> QED
  BY <1>1, <1>2, <1>3, <1>4, <1>5, <1>7

\* The row found is one of the recording.
LEMMA FoundIs ==
  ASSUME AskShape, NEW l, NEW A, NEW row, Found(l, A, row)
  PROVE  /\ IsRow(row) /\ row.commit <= A /\ row # Nobody
         /\ \A k \in Keys : HoldersAfter(A)[k] = row => k = ask.key
<1>1. history \in Histories /\ ask.key \in Keys /\ A \in 0 .. Len(Commits) /\ Len(Commits) \in Nat
  BY Budgets, HistoryTypes DEF AskShape, Found
<1>2. Identified(RowsAfter(A), HoldersAfter(A), A + 1, 0)
  BY <1>1, Identities DEF Found
<1>3. row # Nobody /\ IsRow(row) /\ AppearsBy(row, A + 1, 0)
  BY <1>1, <1>2 DEF Identified, Found
<1>4. row.commit <= A
  BY <1>1, <1>3, IsRowType DEF AppearsBy
<1>5. \A k \in Keys : HoldersAfter(A)[k] = row => k = ask.key
  BY <1>1, <1>2, <1>3 DEF Identified, Found
<1> QED
  BY <1>3, <1>4, <1>5

\* When a row has appeared.
LEMMA AppearsIs ==
  ASSUME history \in Histories, NEW row, IsRow(row)
  PROVE  /\ AppearsBy(row, 0, 0) <=> row.commit <= 0
         /\ \A n \in 1 .. Len(Commits) :
              /\ AppearsBy(row, n, 0) <=> row.commit <= n - 1
              /\ AppearsBy(row, n, Len(EventsOf(n))) <=> row.commit <= n
<1>1. /\ row.commit \in Nat /\ row.event \in Nat
      /\ row.commit = 0 => row.event = 0
      /\ row.commit # 0 => row.event \in 1 .. Len(EventsOf(row.commit))
  BY IsRowType, HistoryTypes
<1>2. AppearsBy(row, 0, 0) <=> row.commit <= 0
  BY <1>1 DEF AppearsBy
<1>3. ASSUME NEW n \in 1 .. Len(Commits)
      PROVE  /\ AppearsBy(row, n, 0) <=> row.commit <= n - 1
             /\ AppearsBy(row, n, Len(EventsOf(n))) <=> row.commit <= n
  <2>1. n \in Nat \ {0} /\ Len(EventsOf(n)) \in Nat
    BY EventsOfType
  <2> QED
    BY <1>1, <2>1 DEF AppearsBy
<1> QED
  BY <1>2, <1>3

\* What the second pass knows of the row after one more state.
LEMMA FollowedIs ==
  ASSUME Shape, ReplayInv, Following, lineage.pass = 2,
         NEW n, n = replay.commit, NEW A, NEW row, Pursuing(lineage, n, A, row)
  PROVE  /\ OriginHolds
         /\ FollowedRow.page.over \/ Told(FollowedRow, row, n)
<1> USE DEF Shape
<1>1. /\ history \in Histories /\ lineage \in Lineages /\ Placed
      /\ n \in 0 .. Len(Commits) /\ Len(Commits) \in Nat
      /\ Found(lineage, A, row) /\ lineage.origin = row /\ pc = "consume"
  BY HistoryTypes DEF AskShape, LineageShape, Following, ReplayInv, ReplayHolds, Running, ReplayShape,
                      Pursuing, Found
<1>2. IsRow(row) /\ row.commit <= A /\ row # Nobody
  BY <1>1, FoundIs
<1>3. /\ row.commit \in Nat /\ row.event \in Nat
      /\ row.commit = 0 => row.key \in Keys /\ history.rows[row.key] # NoRow
      /\ row.commit # 0 => EventsOf(row.commit)[row.event].before = NoRow
  BY <1>1, <1>2, IsRowType
<1>4. Fitting(n) /\ replay.state.rows = RowsAfter(n)
  BY <1>1, ReachedIs DEF Placed, PlacedAt, Fitting
<1>5. CASE n = 0
  <2>1. Untold(lineage)
    BY <1>1, <1>5 DEF Pursuing
  <2>2. CommitEvents = << >> /\ replay.state.rows = history.rows
    BY <1>1, <1>4, <1>5, RowsAfterSteps DEF CommitEvents
  <2>3. OriginHolds
    BY <1>1, <1>3, <1>5, <2>2 DEF OriginHolds
  <2>4. FollowedRow = FollowBaseline(lineage)
    <3>1. FollowBaseline(lineage) \in Lineages
      BY <1>1, <2>3, FollowBaselineType
    <3>2. replay.commit \in Nat /\ CommitEvents \in Seq(Event) /\ Len(CommitEvents) = 0
      BY <1>5, <2>2
    <3> QED
      BY <3>1, <3>2, FollowedInSteps, FollowEventsIsFollowedIn DEF FollowedRow
  <2>5. Tracks(FollowBaseline(lineage), row, HoldersAfter(0), LifeTo(row, 0), 0, 0)
    BY <1>1, <1>2, <1>5, <2>1, <2>2, TracksBaseline DEF Untold
  <2>6. FollowedRow.page.over \/ Told(FollowedRow, row, 0)
    BY <1>1, <1>2, <2>4, <2>5, AppearsIs DEF Tracks, Told
  <2> QED
    BY <1>5, <2>3, <2>6
<1>6. CASE n # 0
  <2>1. ToldTo(lineage, A, row, n - 1) /\ n \in 1 .. Len(Commits) /\ n - 1 \in 0 .. Len(Commits)
    BY <1>1, <1>6 DEF Pursuing
  <2>2. CommitEvents = EventsOf(n)
    BY <1>6 DEF CommitEvents, EventsOf
  <2>3. OriginHolds
    BY <1>1, <1>3, <1>6, <2>1, <2>2 DEF OriginHolds, ToldTo, Told
  <2>4. FollowedRow = FollowEvents(lineage, EventsOf(n))
    BY <1>6, <2>2 DEF FollowedRow, FollowBaseline
  <2>5. Tracks(lineage, row, HoldersAfter(n - 1), LifeTo(row, n - 1), n, 0)
    BY <1>1, <1>2, <2>1, AppearsIs DEF Tracks, ToldTo, Told
  <2>6. /\ LifeTo(row, n - 1) \in Seq(Entries)
        /\ LifeTo(row, n) = LivedIn(LifeTo(row, n - 1), row, n, Len(EventsOf(n)))
    BY <1>1, <1>3, <2>1, LifeToSteps
  <2>7. Tracks(FollowEvents(lineage, EventsOf(n)), row, HoldersAfter(n), LifeTo(row, n),
               n, Len(EventsOf(n)))
    BY <1>1, <1>2, <1>4, <2>1, <2>5, <2>6, TracksTransaction
  <2>8. FollowedRow.page.over \/ Told(FollowedRow, row, n)
    BY <1>1, <1>2, <2>1, <2>4, <2>7, AppearsIs DEF Tracks, Told
  <2> QED
    BY <2>3, <2>8
<1> QED
  BY <1>5, <1>6

\* At the anchor the key followed is the one asked about.
LEMMA AnchorIs ==
  ASSUME Shape, ReplayInv, Following, lineage.pass = 2,
         NEW n, n = replay.commit, NEW A, NEW row, Pursuing(lineage, n, A, row),
         NEW l, Told(l, row, n), l.live \in Keys \union {NoRow}
  PROVE  /\ replay.state.position = lineage.anchor <=> n = A
         /\ AnchorHolds(l)
<1> USE DEF Shape
<1>1. /\ history \in Histories /\ Placed /\ pc = "consume"
      /\ n \in 0 .. Len(Commits) /\ Len(Commits) \in Nat
      /\ Found(lineage, A, row) /\ A \in 0 .. Len(Commits) /\ ask.key \in Keys
  BY HistoryTypes, Budgets DEF AskShape, Following, ReplayInv, ReplayHolds, Running, ReplayShape,
                               Pursuing, Found
<1>2. /\ ChainedTo(n) /\ ChainedTo(A) /\ PositionAfter(A) = lineage.anchor
      /\ replay.state.position = PositionAfter(n) /\ replay.state.rows = RowsAfter(n)
  BY <1>1, ReachedIs DEF Placed, PlacedAt, Found
<1>3. PositionAfter(n) = PositionAfter(A) => n = A
  <2>1. PositionAfter(n) \in Nat /\ PositionAfter(A) \in Nat
    BY <1>1, PositionType
  <2>2. CASE n < A
    BY <1>1, <1>2, <2>1, <2>2, Ascending
  <2>3. CASE A < n
    BY <1>1, <1>2, <2>1, <2>3, Ascending
  <2> QED
    BY <1>1, <2>2, <2>3
<1>4. replay.state.position = lineage.anchor <=> n = A
  BY <1>2, <1>3
<1>5. ASSUME n = A PROVE l.live = ask.key /\ replay.state.rows[ask.key] # NoRow
  <2>1. HoldersAfter(n)[ask.key] = row /\ RowsAfter(n)[ask.key] # NoRow
    BY <1>1, <1>5 DEF Found
  <2>2. l.live # NoRow
    BY <1>1, <2>1 DEF Told, Follows
  <2>3. l.live \in Keys /\ HoldersAfter(A)[l.live] = row
    BY <1>5, <2>2 DEF Told, Follows
  <2> QED
    BY <1>1, <1>2, <2>1, <2>3, FoundIs
<1> QED
  BY <1>4, <1>5 DEF AnchorHolds

\* A query that is done has nothing to follow.
LEMMA DoneLineage == ASSUME pc' = "done" PROVE LineageHolds'
BY DEF LineageHolds

\* Nor has another operation.
LEMMA OtherOperation == ASSUME ask' = ask, ask.op # "lineage" PROVE LineageHolds'
BY DEF LineageHolds

\* What holds of the new state, said of its parts.
LEMMA LineageFrom ==
  ASSUME NEW l, NEW n, l = lineage', n = replay'.commit,
         \/ l.pass = 1 /\ Tracing(l, n)'
         \/ l.pass = 2 /\ \E A \in 0 .. Len(Commits)' : Pursuing(l, n, A, l.origin)'
  PROVE  LineageHolds'
BY DEF LineageHolds

\* A row history in one of its passes.
LEMMA LineageTo ==
  ASSUME Shape, LineageHolds, ask.op = "lineage", pc # "done"
  PROVE  /\ lineage \in Lineages
         /\ \/ lineage.pass = 1 /\ Tracing(lineage, replay.commit)
            \/ /\ lineage.pass = 2
               /\ \E A \in 0 .. Len(Commits) : Pursuing(lineage, replay.commit, A, lineage.origin)
BY DEF LineageHolds, Shape, LineageShape

\* A resolved range starts the first pass.
LEMMA ResolveLineage ==
  ASSUME Shape, ReplayInv, Resolve, UNCHANGED <<scan, lineage, merge>>
  PROVE  LineageHolds'
<1>1. CASE pc' = "done"
  BY <1>1, DoneLineage
<1>2. CASE pc' # "done"
  <2>1. pc = "resolve" /\ pc' = "baseline" /\ ask' = ask /\ replay' = replay
    BY <1>2 DEF Resolve, Reject
  <2>2. lineage' = NoLineage
    BY <2>1 DEF ReplayInv, Fresh
  <2>3. PICK l : l = lineage'
    OBVIOUS
  <2>4. PICK n : n = replay'.commit
    OBVIOUS
  <2>5. l.pass = 1 /\ Untold(l) /\ l.origins = NoLineage.origins
    BY <2>2, <2>3 DEF NoLineage, Untold
  <2>6. Tracing(l, n)'
    BY <2>1, <2>5 DEF Tracing, Untold
  <2> QED
    BY <2>3, <2>4, <2>5, <2>6, LineageFrom
<1> QED
  BY <1>1, <1>2

\* Every state that the replay reaches is handed to the row history.
LEMMA DeliverLineage ==
  ASSUME Shape, ReplayInv, ReplayInv', LineageHolds, LoadBaseline \/ ReadTransaction,
         UNCHANGED <<scan, lineage, merge>>
  PROVE  LineageHolds'
<1> USE DEF Shape
<1>1. CASE pc' = "done"
  BY <1>1, DoneLineage
<1>2. CASE ask.op # "lineage"
  BY <1>2, OtherOperation DEF LoadBaseline, ReadTransaction
<1>3. CASE pc' # "done" /\ ask.op = "lineage"
  <2>1. /\ ask' = ask /\ history' = history /\ range' = range
        /\ \/ LoadBaseline /\ replay'.commit = 0 /\ pc = "baseline"
           \/ /\ ReadTransaction /\ pc = "read" /\ replay'.commit = replay.commit + 1
              /\ replay'.commit \in 1 .. Len(Commits)
        /\ pc' = "consume" \/ ~(PositionAfter(replay'.commit) >= range.from)
    BY <1>3, DeliverMoves
  <2>2. PICK l : l = lineage'
    OBVIOUS
  <2>3. PICK n : n = replay'.commit
    OBVIOUS
  <2>4. /\ history \in Histories /\ Len(Commits) \in Nat /\ Commits' = Commits
        /\ n \in 0 .. Len(Commits)
    BY <2>1, <2>3, HistoryTypes, SameHistory DEF AskShape
  <2>5. pc' = "consume"
    <3>1. range.from = history.baseline /\ PositionAfter(0) = history.baseline
      BY <1>3, <2>1 DEF ReplayInv, RangeHolds, Replays, PositionAfter
    <3>2. PositionAfter(n) \in Nat /\ PositionAfter(0) \in Nat
      BY <2>4, PositionType
    <3>3. CASE n = 0
      BY <2>1, <2>3, <3>1, <3>2, <3>3
    <3>4. CASE n # 0
      <4>1. pc' \in Running
        BY <1>3, <2>1 DEF LoadBaseline, ReadTransaction, Deliver, Give, Reject, Beyond, Running
      <4>2. PlacedAt(replay.commit)'
        BY <4>1 DEF ReplayInv, ReplayHolds, Placed
      <4>3. ChainedTo(n)'
        BY <2>3, <4>2 DEF PlacedAt, ChainedTo
      <4>4. ChainedTo(n)
        BY <2>1, <4>3, SameHistory
      <4>5. PositionAfter(0) < PositionAfter(n)
        BY <2>4, <3>4, <4>4, Ascending
      <4> QED
        BY <2>1, <2>3, <3>1, <3>2, <4>5
    <3> QED
      BY <3>3, <3>4
  <2>6. lineage \in Lineages /\ lineage = l /\ l.pass \in {1, 2}
    BY <2>2 DEF LineageShape, Lineages
  <2>7. CASE l.pass = 1
    <3>1. Tracing(l, replay.commit)
      BY <1>3, <2>1, <2>6, <2>7, LineageTo
    <3>2. CASE pc = "baseline"
      BY <2>1, <2>2, <2>3, <2>5, <2>7, <3>1, <3>2, LineageFrom DEF Tracing
    <3>3. CASE pc = "read"
      <4>1. n - 1 = replay.commit /\ n # 0
        BY <2>1, <2>3, <2>4, <3>3 DEF ReplayShape
      <4>2. Traced(RowsAfter(n - 1), l.origins, HoldersAfter(n - 1))
        BY <3>1, <3>3, <4>1 DEF Tracing
      <4>3. Traced(RowsAfter(n - 1)', l.origins, HoldersAfter(n - 1)')
        <5>1. RowsAfter(n - 1)' = RowsAfter(n - 1)
          BY <2>1, SameHistory
        <5>2. HoldersAfter(n - 1)' = HoldersAfter(n - 1)
          BY <2>1, SameLineage
        <5> QED
          BY <4>2, <5>1, <5>2
      <4>4. Tracing(l, n)'
        BY <2>5, <3>1, <4>1, <4>3 DEF Tracing
      <4> QED
        BY <2>2, <2>3, <2>7, <4>4, LineageFrom
    <3> QED
      BY <2>1, <3>2, <3>3
  <2>8. CASE l.pass = 2
    <3>1. PICK A \in 0 .. Len(Commits) : Pursuing(l, replay.commit, A, l.origin)
      BY <1>3, <2>1, <2>6, <2>8, LineageTo
    <3>2. Found(l, A, l.origin)'
      BY <2>1, <3>1, SameLineage DEF Pursuing
    <3>3. CASE pc = "baseline"
      <4>1. n = 0 /\ Untold(l)
        BY <2>1, <2>3, <3>1, <3>3 DEF Pursuing
      <4>2. Pursuing(l, n, A, l.origin)'
        BY <2>5, <3>2, <4>1 DEF Pursuing, Untold
      <4> QED
        BY <2>2, <2>3, <2>4, <2>8, <4>2, LineageFrom
    <3>4. CASE pc = "read"
      <4>1. n - 1 = replay.commit /\ n # 0
        BY <2>1, <2>3, <2>4, <3>4 DEF ReplayShape
      <4>2. ToldTo(l, A, l.origin, n - 1)
        BY <3>1, <3>4, <4>1 DEF Pursuing
      <4>3. ToldTo(l, A, l.origin, n - 1)'
        BY <2>1, <4>2, SameLineage
      <4>4. Pursuing(l, n, A, l.origin)'
        BY <2>5, <3>2, <4>1, <4>3 DEF Pursuing
      <4> QED
        BY <2>2, <2>3, <2>4, <2>8, <4>4, LineageFrom
    <3> QED
      BY <2>1, <3>3, <3>4
  <2> QED
    BY <2>6, <2>7, <2>8
<1> QED
  BY <1>1, <1>2, <1>3

\* The first pass does not get to the end of the history.
LEMMA EndLineage ==
  ASSUME Shape, ReplayInv, LineageHolds, StalledPage \/ EndOfHistory,
         UNCHANGED <<scan, lineage, merge>>
  PROVE  LineageHolds'
<1>1. CASE pc' = "done"
  BY <1>1, DoneLineage
<1>2. CASE ask.op # "lineage"
  BY <1>2, OtherOperation DEF StalledPage, EndOfHistory
<1>3. CASE pc' # "done" /\ ask.op = "lineage"
  <2>1. /\ Accounted /\ pc' = "finish" /\ pc = "read"
        /\ ask' = ask /\ history' = history /\ replay' = replay
    BY <1>3 DEF StalledPage, RefuseStalledPage, EndOfHistory, Give, Reject
  <2>2. PICK l : l = lineage'
    OBVIOUS
  <2>3. PICK n : n = replay'.commit
    OBVIOUS
  <2>4. l.pass = 2 /\ \E A \in 0 .. Len(Commits) : Pursuing(l, n, A, l.origin)
    BY <1>3, <2>1, <2>2, <2>3, LineageTo DEF Tracing, Accounted
  <2>5. PICK A \in 0 .. Len(Commits) : Pursuing(l, n, A, l.origin)
    BY <2>4
  <2>6. Found(l, A, l.origin)' /\ ToldTo(l, A, l.origin, n)'
    BY <2>1, <2>5, SameLineage DEF Pursuing
  <2>7. Pursuing(l, n, A, l.origin)'
    BY <2>1, <2>6 DEF Pursuing
  <2>8. Commits' = Commits
    BY <2>1, SameHistory
  <2> QED
    BY <2>2, <2>3, <2>4, <2>7, <2>8, LineageFrom
<1> QED
  BY <1>1, <1>2, <1>3

\* One step of the row history itself.
LEMMA LineageStepHolds ==
  ASSUME Shape, ReplayInv, LineageHolds, LineageStep, UNCHANGED <<scan, merge>>
  PROVE  LineageHolds'
<1> USE DEF Shape
<1>1. CASE pc' = "done"
  BY <1>1, DoneLineage
<1>2. CASE pc' # "done"
  <2>1. /\ ask' = ask /\ history' = history /\ ask.op = "lineage" /\ pc = "consume"
    BY <1>2, LineageMoves
  <2>2. /\ history \in Histories /\ Len(Commits) \in Nat /\ Commits' = Commits
        /\ lineage \in Lineages /\ Placed /\ ask.key \in Keys
    BY <2>1, HistoryTypes, SameHistory, Budgets DEF AskShape, LineageShape, ReplayInv, ReplayHolds,
                                                    Running
  <2>3. PICK n \in 0 .. Len(Commits) : n = replay.commit
    BY DEF ReplayShape
  <2>4. PICK l : l = lineage'
    OBVIOUS
  <2>5. /\ Fitting(n) /\ ChainedTo(n)
        /\ replay.reached <=> replay.state.position = range.to
        /\ replay.state.position = PositionAfter(n) /\ replay.state.rows = RowsAfter(n)
    BY <2>2, <2>3, ReachedIs DEF Placed, PlacedAt, Fitting
  <2>6. CASE lineage.pass = 1
    <3>1. PICK origins : origins = OriginsAfter(lineage.origins, replay.commit, CommitEvents)
      OBVIOUS
    <3>2. Tracing(lineage, n)
      BY <2>1, <2>3, <2>6, LineageTo
    <3>3. lineage.origins \in [Keys -> Origins]
      BY LineageTypes
    <3>4. Traced(RowsAfter(n), origins, HoldersAfter(n))
      <4>1. CASE n = 0
        <5>1. CommitEvents = << >> /\ lineage.origins = NoLineage.origins
          BY <2>1, <2>3, <3>2, <4>1 DEF Tracing, CommitEvents
        <5>2. /\ << >> \in Seq(Event) /\ Len(<< >>) = 0
          OBVIOUS
        <5>3. origins = NoLineage.origins
          <6>1. OriginsIn(lineage.origins, 0, << >>, 0) = lineage.origins
            BY <3>3, <5>2, OriginsInSteps
          <6>2. origins = OriginsIn(lineage.origins, 0, << >>, 0)
            BY <2>3, <3>1, <4>1, <5>1, <5>2, OriginsAfterIsOriginsIn
          <6> QED
            BY <5>1, <6>1, <6>2
        <5> QED
          BY <2>2, <4>1, <5>3, TracedFirst
      <4>2. CASE n # 0
        <5>1. CommitEvents = EventsOf(n) /\ n \in 1 .. Len(Commits)
          BY <2>3, <4>2 DEF CommitEvents, EventsOf
        <5>2. Traced(RowsAfter(n - 1), lineage.origins, HoldersAfter(n - 1))
          BY <2>1, <3>2, <4>2 DEF Tracing
        <5> QED
          BY <2>2, <2>3, <2>5, <3>1, <3>3, <5>1, <5>2, TracedAfter
      <4> QED
        BY <4>1, <4>2
    <3>5. CASE /\ replay.state.position # range.to
               /\ lineage' = [lineage EXCEPT !.origins = origins]
               /\ pc' = "read" /\ replay' = replay
      <4>1. /\ l.pass = 1 /\ l.origins = origins /\ l.page = lineage.page /\ l.born = lineage.born
            /\ l.anchored = lineage.anchored /\ l.live = lineage.live
        BY <2>2, <2>4, <2>6, <3>5 DEF Lineages
      <4>2. Untold(l)
        BY <3>2, <4>1 DEF Tracing, Untold
      <4>3. ~replay'.reached
        BY <2>5, <3>5
      <4>4. Traced(RowsAfter(n)', l.origins, HoldersAfter(n)')
        <5>1. RowsAfter(n)' = RowsAfter(n)
          BY <2>1, SameHistory
        <5>2. HoldersAfter(n)' = HoldersAfter(n)
          BY <2>1, SameLineage
        <5> QED
          BY <3>4, <4>1, <5>1, <5>2
      <4>5. Tracing(l, n)'
        BY <3>5, <4>2, <4>3, <4>4 DEF Tracing, Untold
      <4>6. n = replay'.commit
        BY <2>3, <3>5
      <4> QED
        BY <2>4, <4>1, <4>5, <4>6, LineageFrom
    <3>6. CASE /\ replay.state.position = range.to
               /\ replay.state.rows[ask.key] # NoRow
               /\ lineage' = [lineage EXCEPT
                                !.pass = 2, !.anchor = range.to, !.origins = NoLineage.origins,
                                !.origin = OriginAt(origins, ask.key)]
               /\ pc' = "baseline" /\ replay' = NotReplaying
      <4>1. /\ l.pass = 2 /\ l.anchor = range.to /\ l.origin = OriginAt(origins, ask.key)
            /\ l.page = lineage.page /\ l.born = lineage.born
            /\ l.anchored = lineage.anchored /\ l.live = lineage.live
        BY <2>2, <2>4, <3>6 DEF Lineages
      <4>2. Untold(l)
        BY <3>2, <4>1 DEF Tracing, Untold
      <4>3. l.anchor = PositionAfter(n) /\ RowsAfter(n)[ask.key] # NoRow
        BY <2>5, <3>6, <4>1
      <4>4. CommitsTo(l.anchor) = n
        <5>1. n \in 0 .. n
          BY <2>2
        <5> QED
          BY <2>2, <2>5, <4>3, <5>1, CommitsToPosition
      <4>5. l.origin = HoldersAfter(n)[ask.key]
        BY <2>2, <3>4, <4>1, <4>3 DEF Traced
      <4>6. Found(l, n, l.origin)
        BY <2>5, <4>3, <4>4, <4>5 DEF Found
      <4>7. Found(l, n, l.origin)'
        BY <2>1, <4>6, SameLineage
      <4>8. Pursuing(l, 0, n, l.origin)'
        BY <3>6, <4>2, <4>7 DEF Pursuing, Untold
      <4>9. replay'.commit = 0
        BY <3>6 DEF NotReplaying
      <4> QED
        BY <2>2, <2>4, <4>1, <4>8, <4>9, LineageFrom
    <3> QED
      BY <1>2, <2>6, <3>1, <3>5, <3>6, LineageMoves
  <2>7. CASE lineage.pass = 2
    <3>1. PICK A \in 0 .. Len(Commits) : Pursuing(lineage, n, A, lineage.origin)
      BY <2>1, <2>3, <2>7, LineageTo
    <3>2. /\ FollowRow /\ OriginHolds /\ ~FollowedRow.page.over
          /\ lineage' = [FollowedRow EXCEPT !.anchored =
                           @ \/ replay.state.position = lineage.anchor]
          /\ pc' = "read" /\ replay' = replay
      BY <1>2, <2>7, LineageMoves
    <3>3. Following
      BY <2>1 DEF Following
    <3>4. PICK row : row = lineage.origin
      OBVIOUS
    <3>5. PICK f : f = FollowedRow
      OBVIOUS
    <3>6. /\ f \in Lineages /\ f.pass = 2 /\ f.anchor = lineage.anchor /\ f.origin = row
          /\ f.anchored = lineage.anchored
      BY <2>7, <3>2, <3>3, <3>4, <3>5, FollowedRowKeeps
    <3>7. Told(f, row, n) /\ ~f.page.over
      BY <2>3, <2>7, <3>1, <3>2, <3>3, <3>4, <3>5, FollowedIs
    <3>8. replay.state.position = lineage.anchor <=> n = A
      <4>1. f.live \in Keys \union {NoRow}
        BY <3>6 DEF Lineages
      <4> QED
        BY <2>3, <2>7, <3>1, <3>3, <3>4, <3>7, <4>1, AnchorIs
    <3>9. /\ l.pass = 2 /\ l.anchor = lineage.anchor /\ l.origin = row
          /\ l.live = f.live /\ l.page = f.page /\ l.born = f.born
          /\ l.anchored = (f.anchored \/ replay.state.position = lineage.anchor)
      BY <2>4, <3>2, <3>5, <3>6 DEF Lineages
    <3>10. l.anchored <=> A <= n
      <4>a. l.anchored <=> lineage.anchored \/ n = A
        BY <3>6, <3>8, <3>9, Zenon
      <4>1. CASE n = 0
        <5>1. ~lineage.anchored
          BY <2>1, <3>1, <4>1 DEF Pursuing, Untold
        <5>2. A <= n <=> n = A
          BY <4>1
        <5> QED
          BY <4>a, <5>1, <5>2, Zenon
      <4>2. CASE n # 0
        <5>1. lineage.anchored <=> A <= n - 1
          BY <2>1, <3>1, <4>2 DEF Pursuing, ToldTo
        <5>2. A <= n <=> A <= n - 1 \/ n = A
          BY <2>2
        <5> QED
          BY <4>a, <5>1, <5>2, Zenon
      <4> QED
        BY <4>1, <4>2
    <3>11. ToldTo(l, A, row, n)
      BY <3>7, <3>9, <3>10 DEF ToldTo, Told
    <3>12. Found(l, A, row)
      BY <3>1, <3>4, <3>9 DEF Pursuing, Found
    <3>13. ToldTo(l, A, row, n)' /\ Found(l, A, row)'
      BY <2>1, <3>11, <3>12, SameLineage
    <3>14. Pursuing(l, n, A, row)'
      BY <3>2, <3>13 DEF Pursuing
    <3>15. n = replay'.commit
      BY <2>3, <3>2
    <3> QED
      BY <2>2, <2>4, <3>9, <3>14, <3>15, LineageFrom
  <2> QED
    BY <2>2, <2>6, <2>7 DEF Lineages
<1> QED
  BY <1>1, <1>2

\* What a query means that calls its input damaged.
Damaged ==
  IF Replays THEN ~Intact \/ ~Covered(ask.from) \/ ~Covered(ask.to)
  ELSE ~Sound(ask.left) \/ ~Sound(ask.right)

Accuses == outcome'.kind = "rejected" /\ outcome'.code = "INVALID_HISTORY"

\* An answer that is no row history is as true as what it says of the damage.
LEMMA OtherLineages ==
  ASSUME ask' = ask, history' = history, outcome'.kind # "lineage", Accuses => Damaged
  PROVE  LineageIsTrue'
<1>1. Damaged' <=> Damaged
  <2>1. Intact' <=> Intact
    BY SameHistory
  <2>2. /\ Covered(ask.from)' <=> Covered(ask.from)
        /\ Covered(ask.to)' <=> Covered(ask.to)
    BY DEF Covered, HasCommit, Commit
  <2> QED
    BY <2>1, <2>2 DEF Damaged, Replays
<1>2. NoFalseAlarm'
  BY <1>1 DEF NoFalseAlarm, Accuses, Damaged, Replays
<1>3. LineageIsTheRow'
  BY DEF LineageIsTheRow
<1> QED
  BY <1>2, <1>3 DEF LineageIsTrue

\* No transaction of an intact recording is refused for what it is.
LEMMA IntactReads ==
  ASSUME Shape, ReplayInv, Intact, pc = "read", replay.next <= Len(Commits),
         NEW t, t = history.transactions[replay.next]
  PROVE  /\ ~replay.reached
         /\ Extends(t)
         /\ ApplyEvents(replay.state.rows, t.events) # Broken
<1> USE DEF Shape
<1>1. /\ history \in Histories /\ Len(Commits) \in Nat /\ Placed /\ Replays
      /\ RowsAfter(Len(Commits)) # Broken
  BY HistoryTypes DEF AskShape, ReplayInv, ReplayHolds, Running, ControlShape, Intact
<1>2. PICK n \in 0 .. Len(Commits) : n = replay.commit
  BY DEF ReplayShape
<1>3. /\ n + 1 = replay.next /\ n + 1 \in 1 .. Len(Commits) /\ n + 1 \in 0 .. Len(Commits)
      /\ n < Len(Commits)
      /\ RowsAfter(n + 1) = ApplyEvents(replay.state.rows, Commits[n + 1].events)
      /\ t = Commits[n + 1]
  <2>1. /\ n + 1 = replay.next /\ n + 1 \in 1 .. Len(Commits)
        /\ RowsAfter(n + 1) = ApplyEvents(replay.state.rows, Commits[n + 1].events)
    BY <1>1, <1>2, NextRows
  <2>2. t = Commits[n + 1]
    BY <2>1 DEF Commits
  <2> QED
    BY <1>1, <2>1, <2>2
<1>4. /\ replay.reached <=> replay.state.position = range.to
      /\ replay.state.position = PositionAfter(n)
      /\ n > 0 => PositionAfter(n) <= range.to
  BY <1>1, <1>2, ReachedIs DEF Placed, PlacedAt
<1>5. ChainedTo(Len(Commits)) /\ Len(Commits) \in 0 .. Len(Commits)
  BY <1>1, IntactIsChained
<1>6. ~replay.reached
  <2>1. SUFFICES ASSUME replay.reached PROVE FALSE
    OBVIOUS
  <2>2. range.to = history.head
    BY <2>1 DEF ReplayInv, ReplayHolds, Full
  <2>3. PositionAfter(Len(Commits)) = history.head
    BY <1>1 DEF Intact, PositionAfter
  <2>4. PositionAfter(n) < PositionAfter(Len(Commits))
    BY <1>1, <1>3, <1>5, Ascending
  <2>5. PositionAfter(n) \in Nat
    BY <1>1, PositionType
  <2> QED
    BY <1>4, <2>1, <2>2, <2>3, <2>4, <2>5
<1>7. PositionAfter(n + 1) <= range.to
  <2>1. OnChain(range.to)
    BY <1>1 DEF ReplayInv, RangeHolds
  <2>2. n = 0 \/ PositionAfter(n) <= range.to
    BY <1>1, <1>4
  <2> QED
    BY <1>4, <1>6, <2>1, <2>2, AheadOnChain
<1>8. Extends(t)
  <2>1. t.previous = PositionAfter(n) /\ t.previous < t.position
    BY <1>1, <1>3, <1>5 DEF ChainedTo
  <2>2. PositionAfter(n + 1) = t.position
    BY <1>1, <1>3 DEF PositionAfter
  <2> QED
    BY <1>4, <1>7, <2>1, <2>2 DEF Extends
<1>9. RowsAfter(n + 1) # Broken
  BY <1>1, <1>3, <1>5, UnbrokenBefore
<1> QED
  BY <1>3, <1>6, <1>8, <1>9

\* The replay calls a recording damaged only when it is.
LEMMA ReplayAccuses ==
  ASSUME Shape, ReplayInv, ReplayStep, Accuses
  PROVE  Damaged
<1> USE DEF Shape
<1>1. CASE Resolve
  BY <1>1 DEF Resolve, Reject, Accuses, Damaged, Replays, ControlShape
<1>2. CASE ~Resolve
  <2>1. SUFFICES ASSUME Replays, Intact PROVE FALSE
    BY <1>2 DEF Damaged, ReplayStep, LoadBaseline, ReadTransaction, StalledPage, EndOfHistory,
                ControlShape
  <2>2. pc # "done" => outcome.kind # "rejected"
    BY DEF ControlShape
  <2>3. CASE LoadBaseline
    BY <2>1, <2>2, <2>3 DEF LoadBaseline, Intact, HaltCode, Give, Reject, Interrupted, Accuses,
                            Deliver
  <2>4. CASE ReadTransaction
    <3>1. PICK t : t = history.transactions[replay.next]
      OBVIOUS
    <3>2. pc = "read" /\ replay.next <= Len(Commits)
      BY <2>4 DEF ReadTransaction, Commits
    <3>3. ~replay.reached /\ Extends(t) /\ ApplyEvents(replay.state.rows, t.events) # Broken
      BY <2>1, <3>1, <3>2, IntactReads
    <3>4. \/ Give("CANCELLED") \/ Give("LIMIT_EXCEEDED") \/ outcome' = outcome
      BY <2>4, <3>1, <3>3, Zenon DEF ReadTransaction, HaltCode, Deliver
    <3> QED
      BY <2>2, <3>2, <3>4 DEF Give, Reject, Interrupted, Accuses
  <2>5. CASE StalledPage
    BY <2>1, <2>5 DEF StalledPage, Intact, HaltCode, Give, Reject, Interrupted, Accuses
  <2>6. CASE EndOfHistory
    <3>1. pc = "read" /\ replay.next > Len(Commits)
      BY <2>6 DEF EndOfHistory, Commits
    <3>2. PICK n \in 0 .. Len(Commits) : n = replay.commit
      BY DEF ReplayShape
    <3>3. Len(Commits) \in Nat /\ Placed
      BY <3>1, CommitsFinite DEF ReplayInv, ReplayHolds, Running
    <3>4. replay.next = n + 1 /\ n = Len(Commits)
      BY <3>1, <3>2, <3>3 DEF Placed, PlacedAt
    <3>5. PositionAfter(n) = range.to
      <4>1. OnChain(range.to)
        BY <2>1, <3>1 DEF ReplayInv, RangeHolds
      <4>2. n = 0 \/ PositionAfter(n) <= range.to
        BY <3>2, <3>3 DEF Placed, PlacedAt
      <4>3. ~(n + 1 \in 1 .. Len(Commits))
        BY <3>3, <3>4
      <4> QED
        BY <2>1, <4>1, <4>2, <4>3, AheadOnChain
    <3>6. replay.reached
      BY <3>2, <3>3, <3>5, ReachedIs
    <3>7. Accounted
      BY <2>1, <3>3, <3>4, <3>6 DEF Accounted, Intact
    <3>8. Give("CANCELLED") \/ Give("LIMIT_EXCEEDED") \/ outcome' = outcome
      BY <2>6, <3>7, Zenon DEF EndOfHistory, HaltCode
    <3> QED
      BY <2>2, <3>1, <3>8 DEF Give, Reject, Interrupted, Accuses
  <2> QED
    BY <1>2, <2>3, <2>4, <2>5, <2>6 DEF ReplayStep
<1> QED
  BY <1>1, <1>2

\* The first state that a scan of an intact recording is handed starts the range.
LEMMA ScanAccuses ==
  ASSUME Shape, ReplayInv, ScanInv, ScanStep, Accuses
  PROVE  Damaged
<1> USE DEF Shape
<1>1. /\ pc = "consume" /\ ask.op = "scan" /\ scan.evaluated = 0
      /\ replay.state.position # range.from
  <2>1. pc # "done" => outcome.kind # "rejected"
    BY DEF ControlShape
  <2> QED
    BY <2>1 DEF ScanStep, EvaluationHalted, EvaluationRefused, QueryFails, MayEvaluate, Evaluate,
                Report, Finding, Clear, HaltCode, Give, Reject, Interrupted, Accuses
<1>2. SUFFICES ASSUME Intact PROVE FALSE
  BY <1>1 DEF Damaged, Replays
<1>3. /\ history \in Histories /\ Len(Commits) \in Nat /\ Placed
      /\ range.from \in Nat /\ range.to \in Nat
      /\ ChainedTo(Len(Commits)) /\ Len(Commits) \in 0 .. Len(Commits)
  BY <1>1, <1>2, HistoryTypes, IntactIsChained DEF AskShape, ReplayShape, ReplayInv, ReplayHolds,
                                                   Running
<1>4. PICK n \in 0 .. Len(Commits) : n = replay.commit
  BY DEF ReplayShape
<1>5. PositionAfter(n) # range.from /\ PositionAfter(n) >= range.from
  BY <1>1, <1>3, <1>4, ReachedIs DEF ReplayInv, ReplayHolds, ResumesAt
<1>6. range.from <= range.to /\ OnChain(range.from)
  BY <1>1, <1>2 DEF ReplayInv, RangeHolds, Replays
<1>7. PICK j \in 0 .. Len(Commits) : PositionAfter(j) = range.from
  BY <1>6 DEF OnChain
<1>8. j < n
  <2>1. ~(n < j)
    <3>1. SUFFICES ASSUME n < j PROVE FALSE
      OBVIOUS
    <3>2. PositionAfter(n) < PositionAfter(j)
      BY <1>3, <3>1, Ascending
    <3> QED
      BY <1>3, <1>5, <1>7, <3>2, PositionType
  <2> QED
    BY <1>3, <1>5, <1>7, <2>1
<1>9. Evaluated(n - 1) = {}
  <2>1. Seen(n - 1)
    BY <1>1, <1>4 DEF ScanInv, ScanHolds
  <2>2. n - 1 \in Int
    BY <1>3
  <2> QED
    BY <1>1, <2>1, <2>2, NoneEvaluated DEF Seen
<1>10. j \in Evaluated(n - 1)
  BY <1>3, <1>6, <1>7, <1>8 DEF Evaluated, InRange
<1> QED
  BY <1>9, <1>10

\* Sound views are not called damaged.
LEMMA ComparisonAccuses ==
  ASSUME Shape, ComparisonStep, Accuses
  PROVE  Damaged
<1> USE DEF Shape
<1>1. pc # "done" => outcome.kind # "rejected"
  BY DEF ControlShape
<1>2. /\ ask.op \in {"compare", "rows"}
      /\ Left = Broken \/ Right = Broken
  BY <1>1 DEF ComparisonStep, StartComparison, MergeRow, MergeEnds, ListRow, ListEnds, Merging,
              Listing, Reject, Accuses
<1>3. /\ ask.left \in HandedViews /\ ask.right \in HandedViews
      /\ merge.left \in Nat \ {0} /\ merge.right \in Nat \ {0}
  BY Budgets DEF AskShape, MergeShape
<1>4. ~Sound(ask.left) \/ ~Sound(ask.right)
  BY <1>2, <1>3, SoundIsUnbroken DEF Left, Right
<1> QED
  BY <1>2, <1>4 DEF Damaged, Replays

\* A row history that ends has read a whole recording, and the row's whole life.
LEMMA FinishedIs ==
  ASSUME Shape, ReplayInv, LineageHolds, pc = "finish", ask.op = "lineage"
  PROVE  /\ lineage.pass = 2 /\ Intact /\ lineage.born /\ lineage.anchored
         /\ Asked = lineage.origin /\ Asked # Nobody
         /\ PageSound(lineage.page, ask.page, Entries, LifeTo(lineage.origin, Len(Commits)))
         /\ LifeTo(lineage.origin, Len(Commits)) \in Seq(Entries)
         /\ Follows(lineage.live, lineage.origin, HoldersAfter(Len(Commits)))
<1> USE DEF Shape
<1>1. /\ history \in Histories /\ Len(Commits) \in Nat /\ Placed /\ Replays
  BY HistoryTypes DEF AskShape, ReplayInv, ReplayHolds, Running, Replays
<1>2. PICK n \in 0 .. Len(Commits) : n = replay.commit
  BY DEF ReplayShape
<1>3. lineage.pass = 2 /\ \E A \in 0 .. Len(Commits) : Pursuing(lineage, n, A, lineage.origin)
  BY <1>2, LineageTo DEF Tracing
<1>4. PICK A \in 0 .. Len(Commits) : Pursuing(lineage, n, A, lineage.origin)
  BY <1>3
<1>5. PICK row : row = lineage.origin
  OBVIOUS
<1>6. Found(lineage, A, row) /\ ToldTo(lineage, A, row, n)
  BY <1>4, <1>5 DEF Pursuing
<1>7. range.to = history.head /\ replay.reached /\ Intact
  BY <1>1, <1>3 DEF ReplayInv, ReplayHolds, RangeHolds, Full
<1>8. n = Len(Commits)
  <2>1. PositionAfter(n) = range.to
    BY <1>1, <1>2, <1>7, ReachedIs
  <2>2. PositionAfter(Len(Commits)) = history.head
    BY <1>1, <1>7 DEF Intact, PositionAfter
  <2>3. ~(n < Len(Commits))
    <3>1. SUFFICES ASSUME n < Len(Commits) PROVE FALSE
      OBVIOUS
    <3>2. ChainedTo(Len(Commits)) /\ Len(Commits) \in 0 .. Len(Commits)
      BY <1>1, <1>7, IntactIsChained
    <3>3. PositionAfter(n) < PositionAfter(Len(Commits))
      BY <1>1, <3>1, <3>2, Ascending
    <3>4. PositionAfter(n) \in Nat
      BY <1>1, PositionType
    <3> QED
      BY <1>7, <2>1, <2>2, <3>3, <3>4
  <2> QED
    BY <1>1, <2>3
<1>9. IsRow(row) /\ row.commit <= A /\ row # Nobody
  BY <1>6, FoundIs
<1>10. /\ row.commit \in Nat
       /\ row.commit = 0 => row.key \in Keys /\ history.rows[row.key] # NoRow
  BY <1>1, <1>9, IsRowType
<1>11. lineage.born /\ lineage.anchored
  <2>1. row.commit <= n /\ A <= n
    BY <1>1, <1>8, <1>9, <1>10
  <2> QED
    BY <1>6, <2>1 DEF ToldTo, Told
<1>12. Asked = row
  BY <1>6 DEF Asked, Found
<1>13. LifeTo(row, Len(Commits)) \in Seq(Entries)
  <2>1. Len(Commits) \in 0 .. Len(Commits)
    BY <1>1
  <2> QED
    BY <1>1, <1>10, <2>1, LifeToSteps
<1> QED
  BY <1>3, <1>5, <1>6, <1>7, <1>8, <1>9, <1>11, <1>12, <1>13 DEF ToldTo, Told

\* The second pass over an intact recording finds the row where the first one did.
LEMMA LineageAccuses ==
  ASSUME Shape, ReplayInv, LineageHolds, LineageStep, Accuses
  PROVE  Damaged
<1> USE DEF Shape
<1>1. pc # "done" => outcome.kind # "rejected"
  BY DEF ControlShape
<1>2. CASE LineageEnds
  <2>1. pc = "finish" /\ ask.op = "lineage"
    BY <1>2 DEF LineageEnds
  <2>2. lineage.pass = 2 /\ lineage.born /\ lineage.anchored
    BY <2>1, FinishedIs
  <2> QED
    BY <1>2, <2>2 DEF LineageEnds, Reject, Accuses
<1>3. CASE FollowRow
  <2>1. Following /\ lineage.pass = 2 /\ ask.op = "lineage" /\ pc = "consume"
    BY <1>3 DEF FollowRow, MayFollow, Following
  <2>2. PICK n : n = replay.commit
    OBVIOUS
  <2>3. PICK A \in 0 .. Len(Commits) : Pursuing(lineage, n, A, lineage.origin)
    BY <2>1, <2>2, LineageTo
  <2>4. PICK f : f = FollowedRow
    OBVIOUS
  <2>5. OriginHolds /\ (f.page.over \/ Told(f, lineage.origin, n))
    BY <2>1, <2>2, <2>3, <2>4, FollowedIs
  <2>6. f \in Lineages
    BY <2>1, <2>4, <2>5, FollowedRowKeeps
  <2>7. f.page.over \/ AnchorHolds(f)
    <3>1. f.live \in Keys \union {NoRow}
      BY <2>6 DEF Lineages
    <3> QED
      BY <2>1, <2>2, <2>3, <2>5, <3>1, AnchorIs
  <2> QED
    BY <1>1, <1>3, <2>1, <2>4, <2>5, <2>7 DEF FollowRow, FollowedRow, Reject, Accuses
<1>4. CASE LineageHalted \/ OriginRefused \/ TraceOrigin
  BY <1>1, <1>4 DEF LineageHalted, OriginRefused, TraceOrigin, MayFollow, Following, Reject, Accuses
<1> QED
  BY <1>2, <1>3, <1>4 DEF LineageStep

\* The row history that is answered is the row's.
LEMMA LineageAnswers ==
  ASSUME Shape, ReplayInv, LineageHolds, LineageStep
  PROVE  LineageIsTrue'
<1> USE DEF Shape
<1>1. ask' = ask /\ history' = history
  BY DEF LineageStep, LineageHalted, OriginRefused, TraceOrigin, FollowRow, LineageEnds
<1>2. CASE outcome'.kind # "lineage"
  BY <1>1, <1>2, LineageAccuses, OtherLineages
<1>3. CASE outcome'.kind = "lineage"
  <2>1. pc # "done" => outcome.kind # "lineage"
    BY DEF ControlShape
  <2>2. /\ pc = "finish" /\ ask.op = "lineage" /\ lineage' = lineage
        /\ outcome' = [kind |-> "lineage", live |-> lineage.live,
                       page |-> Answer(lineage.page, ask.page)]
    BY <1>3, <2>1 DEF LineageStep, LineageHalted, OriginRefused, TraceOrigin, FollowRow, LineageEnds,
                      MayFollow, Following, Reject
  <2>3. PICK row : row = Asked
    OBVIOUS
  <2>4. /\ Intact /\ row # Nobody
        /\ PageSound(lineage.page, ask.page, Entries, LifeTo(row, Len(Commits)))
        /\ LifeTo(row, Len(Commits)) \in Seq(Entries)
        /\ Follows(lineage.live, row, HoldersAfter(Len(Commits)))
    BY <2>2, <2>3, FinishedIs
  <2>5. PageOf(outcome'.page, ask.page, LifeTo(row, Len(Commits)))
    BY <2>2, <2>4, Budgets, AnswerIsPage
  <2>6. /\ row = Asked' /\ Intact' /\ Commits' = Commits
        /\ HoldersAfter(Len(Commits))' = HoldersAfter(Len(Commits))
        /\ LifeTo(row, Len(Commits))' = LifeTo(row, Len(Commits))
    <3>1. Intact' /\ Commits' = Commits
      BY <1>1, <2>4, SameHistory
    <3>2. PICK N : N = Len(Commits)
      OBVIOUS
    <3>3. /\ HoldersAfter(N)' = HoldersAfter(N)
          /\ LifeTo(row, N)' = LifeTo(row, N)
          /\ \A n : HoldersAfter(n)' = HoldersAfter(n)
          /\ \A p : CommitsTo(p)' = CommitsTo(p)
      BY <1>1, SameLineage
    <3>4. row = Asked'
      BY <1>1, <2>2, <2>3, <3>3 DEF Asked
    <3> QED
      BY <3>1, <3>2, <3>3, <3>4
  <2>7. LineageIsTheRow'
    BY <1>1, <2>2, <2>4, <2>5, <2>6 DEF LineageIsTheRow, Follows
  <2>8. NoFalseAlarm'
    BY <1>3 DEF NoFalseAlarm
  <2> QED
    BY <2>7, <2>8 DEF LineageIsTrue
<1> QED
  BY <1>2, <1>3

\* The row history stays where it is.
LEMMA SamePursuit ==
  ASSUME Shape, LineageHolds, UNCHANGED <<ask, history, pc, replay, lineage>>
  PROVE  LineageHolds'
<1>1. CASE ask.op = "lineage" /\ pc # "done"
  <2>1. PICK l : l = lineage'
    OBVIOUS
  <2>2. PICK n : n = replay'.commit
    OBVIOUS
  <2>3. Commits' = Commits
    BY SameHistory
  <2>4. CASE l.pass = 1
    <3>1. Tracing(l, n)
      BY <1>1, <2>1, <2>2, <2>4, LineageTo
    <3>2. /\ \A m : HoldersAfter(m)' = HoldersAfter(m)
          /\ \A m : RowsAfter(m)' = RowsAfter(m)
      BY SameLineage, SameHistory
    <3>3. /\ Traced(RowsAfter(n), l.origins, HoldersAfter(n))' <=>
               Traced(RowsAfter(n), l.origins, HoldersAfter(n))
          /\ Traced(RowsAfter(n - 1), l.origins, HoldersAfter(n - 1))' <=>
               Traced(RowsAfter(n - 1), l.origins, HoldersAfter(n - 1))
      BY <3>2
    <3>4. Tracing(l, n)'
      BY <3>1, <3>3 DEF Tracing, Untold
    <3> QED
      BY <2>1, <2>2, <2>4, <3>4, LineageFrom
  <2>5. CASE l.pass = 2
    <3>1. PICK A \in 0 .. Len(Commits) : Pursuing(l, n, A, l.origin)
      BY <1>1, <2>1, <2>2, <2>5, LineageTo
    <3>2. PICK row : row = l.origin
      OBVIOUS
    <3>3. /\ ToldTo(l, A, row, n)' <=> ToldTo(l, A, row, n)
          /\ ToldTo(l, A, row, n - 1)' <=> ToldTo(l, A, row, n - 1)
          /\ Found(l, A, row)' <=> Found(l, A, row)
      BY SameLineage
    <3>4. Pursuing(l, n, A, row)'
      BY <3>1, <3>2, <3>3 DEF Pursuing, Untold
    <3> QED
      BY <2>1, <2>2, <2>3, <2>5, <3>2, <3>4, LineageFrom
  <2> QED
    BY <1>1, <2>1, <2>4, <2>5, LineageTo
<1>2. CASE ask.op # "lineage" \/ pc = "done"
  BY <1>2, DoneLineage, OtherOperation
<1> QED
  BY <1>1, <1>2

\* A step of another operation.
LEMMA OtherStepsLineage ==
  ASSUME Shape, ReplayInv, ScanInv, ScanStep \/ ComparisonStep
  PROVE  LineageInv'
<1> USE DEF Shape
<1>1. /\ ask' = ask /\ history' = history /\ ask.op # "lineage" /\ outcome'.kind # "lineage"
  BY DEF ScanStep, EvaluationHalted, EvaluationRefused, QueryFails, MayEvaluate, Evaluate, Report,
         Finding, Clear, HaltCode, Give, Reject, Interrupted, ControlShape,
         ComparisonStep, StartComparison, MergeRow, MergeEnds, ListRow, ListEnds, Merging, Listing
<1>2. LineageHolds'
  BY <1>1, OtherOperation
<1>3. LineageIsTrue'
  BY <1>1, ScanAccuses, ComparisonAccuses, OtherLineages
<1> QED
  BY <1>2, <1>3 DEF LineageInv

\* Every step of the replay.
LEMMA ReplayStepLineage ==
  ASSUME Shape, ReplayInv, ReplayInv', LineageInv, ReplayStep
  PROVE  LineageInv'
<1> USE DEF Shape
<1>1. LineageHolds'
  BY ResolveLineage, DeliverLineage, EndLineage DEF ReplayStep, LineageInv
<1>2. ask' = ask /\ history' = history /\ outcome'.kind # "lineage"
  BY DEF ReplayStep, Resolve, LoadBaseline, ReadTransaction, StalledPage, EndOfHistory,
         RefuseStalledPage, Deliver, Give, Reject, Interrupted, ControlShape
<1>3. LineageIsTrue'
  BY <1>2, ReplayAccuses, OtherLineages
<1> QED
  BY <1>1, <1>3 DEF LineageInv

\* The caller and the clock answer nothing.
LEMMA CallerStepLineage ==
  ASSUME Shape, LineageInv, CallerStep \/ UNCHANGED vars
  PROVE  LineageInv'
<1> USE DEF Shape
<1>1. UNCHANGED <<ask, history, pc, replay, lineage>> /\ outcome' = outcome
  BY DEF CallerStep, Cancel, Expire, vars
<1>2. LineageHolds'
  BY <1>1, SamePursuit DEF LineageInv
<1>3. CASE outcome.kind # "lineage"
  <2>1. Accuses => Damaged
    BY <1>1 DEF Accuses, Damaged, Replays, LineageInv, LineageIsTrue, NoFalseAlarm
  <2>2. LineageIsTrue'
    BY <1>1, <1>3, <2>1, OtherLineages
  <2> QED
    BY <1>2, <2>2 DEF LineageInv
<1>4. CASE outcome.kind = "lineage"
  <2>1. NoFalseAlarm'
    BY <1>1, <1>4 DEF NoFalseAlarm
  <2>2. PICK row : row = Asked
    OBVIOUS
  <2>3. PICK N : N = Len(Commits)
    OBVIOUS
  <2>4. /\ row = Asked' /\ (Intact' <=> Intact) /\ Commits' = Commits
        /\ HoldersAfter(N)' = HoldersAfter(N)
        /\ LifeTo(row, N)' = LifeTo(row, N)
    <3>1. (Intact' <=> Intact) /\ Commits' = Commits
      BY <1>1, SameHistory
    <3>2. /\ HoldersAfter(N)' = HoldersAfter(N)
          /\ LifeTo(row, N)' = LifeTo(row, N)
          /\ \A n : HoldersAfter(n)' = HoldersAfter(n)
          /\ \A p : CommitsTo(p)' = CommitsTo(p)
      BY <1>1, SameLineage
    <3>3. row = Asked'
      BY <1>1, <2>2, <3>2 DEF Asked
    <3> QED
      BY <3>1, <3>2, <3>3
  <2>5. /\ Intact /\ row # Nobody
        /\ PageOf(outcome.page, ask.page, LifeTo(row, N))
        /\ IF outcome.live = NoRow THEN \A k \in Keys : HoldersAfter(N)[k] # row
                                   ELSE HoldersAfter(N)[outcome.live] = row
    BY <1>4, <2>2, <2>3 DEF LineageIsTheRow, LineageInv, LineageIsTrue
  <2>6. N = Len(Commits)' /\ Asked' # Nobody
    BY <2>3, <2>4, <2>5
  <2>7. LineageIsTheRow'
    BY <1>1, <2>4, <2>5, <2>6 DEF LineageIsTheRow
  <2> QED
    BY <1>2, <2>1, <2>7 DEF LineageInv, LineageIsTrue
<1> QED
  BY <1>3, <1>4

\* The row that every key holds is known while the first pass looks for its origin,
\* and what happened to the row that was found is known while the second follows it.
THEOREM LineageIsFaithful == Spec => []LineageInv
<1>1. Init => LineageInv
  <2> SUFFICES ASSUME Init PROVE LineageInv
    OBVIOUS
  <2>1. outcome.kind = "none" /\ pc = "resolve" /\ lineage = NoLineage
    BY DEF Init, ReplayInit
  <2>2. LineageHolds
    BY <2>1 DEF LineageHolds, Tracing, Untold, NoLineage
  <2> QED
    BY <2>1, <2>2 DEF LineageInv, LineageIsTrue, LineageIsTheRow, NoFalseAlarm
<1>2. LineageInv /\ Shape /\ ReplayInv /\ ReplayInv' /\ ScanInv /\ [Next]_vars => LineageInv'
  <2> SUFFICES ASSUME LineageInv, Shape, ReplayInv, ReplayInv', ScanInv, [Next]_vars
               PROVE  LineageInv'
    OBVIOUS
  <2>1. CASE ReplayStep
    BY <2>1, ReplayStepLineage
  <2>2. CASE ScanStep \/ ComparisonStep
    BY <2>2, OtherStepsLineage
  <2>3. CASE LineageStep /\ UNCHANGED <<scan, merge>>
    BY <2>3, LineageStepHolds, LineageAnswers DEF LineageInv
  <2>4. CASE CallerStep \/ UNCHANGED vars
    BY <2>4, CallerStepLineage
  <2> QED
    BY <2>1, <2>2, <2>3, <2>4 DEF Next, Answering
<1> QED
  BY <1>1, <1>2, ShapeHolds, ReplayIsFaithful, ScanIsFaithful, PTL DEF Spec

\* A row history is a page of the life of the row that the key named at the anchor,
\* from its insertion or the baseline through every key it moved to, and no query
\* refuses an intact recording or sound views as damaged: for every history, every
\* selection and every page.
THEOREM LineagesAreTrue == Spec => []LineageIsTrue
<1>1. LineageInv => LineageIsTrue
  BY DEF LineageInv
<1> QED
  BY <1>1, LineageIsFaithful, PTL
=============================================================================
