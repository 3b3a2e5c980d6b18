------------------------- MODULE RecordedRowsProofs -------------------------
(***************************************************************************)
(* Theorems about RecordedRows, for every workload of the source, every    *)
(* interleaving of recorder and viewer, any number of stops, crashes and   *)
(* damaged records: what is recorded, restored and shown is the source's,  *)
(* and nothing that is intact is refused.                                  *)
(*                                                                         *)
(* A recursive function is unfolded by the existence of its run            *)
(* (RunExists), and a fact about its values is shown by induction over a   *)
(* set of numbers (Induction), as in HistoryQueriesProofs.                 *)
(*                                                                         *)
(* The inductive invariant (Sound) says of the source that its states are  *)
(* tables, of the store that what is left of the history is the source's   *)
(* and that an artifact either states the rows of its position or cannot   *)
(* pass for one that does, and of the recorder that what it collected is   *)
(* what was sent.                                                          *)
(***************************************************************************)
EXTENDS RecordedRows, FiniteSetTheorems, SequenceTheorems, TLAPS

--------------------------------------------------------------------------
(* Induction and recursion.                                                *)

\* A set of numbers that holds 0, and with a number the next, holds them all.
LEMMA Induction ==
  ASSUME NEW T, 0 \in T, \A n \in Nat : n \in T => n + 1 \in T
  PROVE  \A n \in Nat : n \in T
<1> DEFINE R == OpToRel(<, Nat)
           U == Nat \ T
<1>1. IsWellFoundedOn(R, Nat)
  BY NatLessThanWellFounded
<1>2. SUFFICES ASSUME U # {} PROVE FALSE
  OBVIOUS
<1>3. U \subseteq Nat
  OBVIOUS
<1>4. PICK m \in U : \A k \in U : <<k, m>> \notin R
  <2> HIDE DEF R, U
  <2> QED
    BY <1>1, <1>2, <1>3, WFMin
<1>5. m \in Nat /\ m # 0
  OBVIOUS
<1>6. m - 1 \in Nat /\ m - 1 < m
  BY <1>5
<1>7. m - 1 \notin U
  BY <1>4, <1>5, <1>6 DEF OpToRel
<1> QED
  BY <1>5, <1>6, <1>7

\* A step F[i] for each position stays among the values V; a run takes the
\* steps one after the other.
StepsWithin(F, V, N) == \A i \in 1 .. N : \A v \in V : F[i][v] \in V

IsRun(g, F, V, start, N) ==
  /\ g \in [0 .. N -> V]
  /\ g[0] = start
  /\ \A i \in 1 .. N : g[i] = F[i][g[i - 1]]

\* There is a run.
LEMMA RunExists ==
  ASSUME NEW V, NEW start \in V, NEW N \in Nat, NEW F, StepsWithin(F, V, N)
  PROVE  \E g : IsRun(g, F, V, start, N)
<1> USE DEF StepsWithin, IsRun
<1> DEFINE Runs(n) ==
             {g \in [0 .. n -> V] : g[0] = start /\ \A i \in 1 .. n : g[i] = F[i][g[i - 1]]}
           T == {n \in Nat : n <= N => Runs(n) # {}}
<1>1. 0 \in T
  <2>1. [i \in 0 .. 0 |-> start] \in Runs(0)
    OBVIOUS
  <2> QED
    BY <2>1
<1>2. ASSUME NEW n \in Nat, n \in T PROVE n + 1 \in T
  <2>1. SUFFICES ASSUME n + 1 <= N PROVE Runs(n + 1) # {}
    <3> HIDE DEF Runs
    <3> QED
      OBVIOUS
  <2>2. PICK g \in Runs(n) : TRUE
    BY <1>2, <2>1
  <2> DEFINE h == [i \in 0 .. n + 1 |-> IF i = n + 1 THEN F[n + 1][g[n]] ELSE g[i]]
  <2>3. F[n + 1][g[n]] \in V
    BY <2>1, <2>2
  <2>4. h \in [0 .. n + 1 -> V]
    BY <2>2, <2>3
  <2>5. h[0] = start
    BY <2>2
  <2>6. ASSUME NEW i \in 1 .. n + 1 PROVE h[i] = F[i][h[i - 1]]
    <3>1. CASE i = n + 1
      BY <3>1
    <3>2. CASE i \in 1 .. n
      <4>1. h[i] = g[i] /\ h[i - 1] = g[i - 1]
        BY <3>2
      <4> QED
        BY <2>2, <3>2, <4>1
    <3> QED
      BY <3>1, <3>2
  <2> QED
    BY <2>4, <2>5, <2>6
<1> HIDE DEF T
<1>3. N \in T
  BY <1>1, <1>2, Induction
<1> QED
  BY <1>3 DEF T

--------------------------------------------------------------------------
(* Rows and events.                                                        *)

Results == Table \union {Broken, TooLarge}

\* The rows after the first i events of a list.
RowsIn(rows, events, i) ==
  LET after[j \in 0 .. Len(events)] ==
        IF j = 0 THEN rows
        ELSE LET r == after[j - 1] IN
             IF r \in {Broken, TooLarge} THEN r ELSE ApplyEvent(r, events[j])
  IN after[i]

OneEvent(r, event) == IF r \in {Broken, TooLarge} THEN r ELSE ApplyEvent(r, event)

\* An event turns rows into rows, or refuses them.
LEMMA ApplyEventType ==
  ASSUME NEW rows \in Table, NEW event \in Event
  PROVE  ApplyEvent(rows, event) \in Results
<1>1. Without(rows, event) \in Table
  BY NoRowAssumption DEF Without, Table, Event, Image
<1> QED
  BY <1>1, NoRowAssumption DEF ApplyEvent, Results, Event, Image, Table

\* The rows after each event, one from the other.
LEMMA RowsInSteps ==
  ASSUME NEW rows \in Results, NEW events \in Seq(Event)
  PROVE  /\ RowsIn(rows, events, 0) = rows
         /\ \A i \in 1 .. Len(events) :
              RowsIn(rows, events, i) = OneEvent(RowsIn(rows, events, i - 1), events[i])
<1> DEFINE N == Len(events)
           F == [i \in 1 .. N |-> [v \in Results |-> OneEvent(v, events[i])]]
           Is(g) == g = [j \in 0 .. N |-> IF j = 0 THEN rows
                          ELSE LET r == g[j - 1] IN
                               IF r \in {Broken, TooLarge} THEN r ELSE ApplyEvent(r, events[j])]
           f == CHOOSE g : Is(g)
<1>1. \A i \in 1 .. N : \A v \in Results : F[i][v] \in Results /\ F[i][v] = OneEvent(v, events[i])
  BY ApplyEventType DEF OneEvent, Results
<1>2. N \in Nat
  OBVIOUS
<1>3. PICK g : IsRun(g, F, Results, rows, N)
  <2>1. StepsWithin(F, Results, N)
    BY <1>1 DEF StepsWithin
  <2> HIDE DEF N, F
  <2> QED
    BY <1>2, <2>1, RunExists
<1>4. Is(g)
  <2>1. \A j \in 1 .. N : g[j] = OneEvent(g[j - 1], events[j])
    <3> HIDE DEF F
    <3> QED
      BY <1>1, <1>2, <1>3 DEF IsRun
  <2>2. g = [j \in 0 .. N |-> g[j]] /\ g[0] = rows
    BY <1>3 DEF IsRun
  <2> QED
    BY <1>2, <2>1, <2>2 DEF OneEvent
<1>5. Is(f)
  <2> HIDE DEF Is
  <2> QED
    BY <1>4, Zenon
<1>6. \A i : RowsIn(rows, events, i) = f[i]
  BY DEF RowsIn
<1> HIDE DEF f
<1> QED
  BY <1>2, <1>5, <1>6 DEF OneEvent

\* A state holds finitely many rows.
LEMMA PresentFinite ==
  ASSUME NEW rows \in Table
  PROVE  IsFiniteSet(Present(rows)) /\ Cardinality(Present(rows)) \in Nat
<1>1. Present(rows) \subseteq Keys
  BY DEF Present
<1> QED
  BY <1>1, KeysAssumption, FS_Subset, FS_CardinalityType

\* What a transaction's events make of a state is what they make of it one by one.
LEMMA ApplyEventsIsRowsIn ==
  ASSUME NEW rows, NEW events
  PROVE  ApplyEvents(rows, events) = RowsIn(rows, events, Len(events))
BY DEF ApplyEvents, RowsIn

\* The rows after some of a list of events, or a refusal.
LEMMA RowsInType ==
  ASSUME NEW rows \in Results, NEW events \in Seq(Event), NEW n \in 0 .. Len(events)
  PROVE  RowsIn(rows, events, n) \in Results
<1> DEFINE T == {i \in Nat : i <= Len(events) => RowsIn(rows, events, i) \in Results}
<1>1. 0 \in T
  BY RowsInSteps DEF Results
<1>2. ASSUME NEW i \in Nat, i \in T PROVE i + 1 \in T
  <2>1. SUFFICES ASSUME i + 1 <= Len(events)
                 PROVE  RowsIn(rows, events, i + 1) \in Results
    OBVIOUS
  <2>2. i + 1 \in 1 .. Len(events) /\ events[i + 1] \in Event /\ i + 1 - 1 = i
    BY <2>1
  <2>3. RowsIn(rows, events, i + 1) = OneEvent(RowsIn(rows, events, i), events[i + 1])
    BY <2>2, RowsInSteps
  <2>4. RowsIn(rows, events, i) \in Results
    BY <1>2, <2>1
  <2> QED
    BY <2>2, <2>3, <2>4, ApplyEventType DEF OneEvent, Results
<1> HIDE DEF T
<1>3. n \in T
  BY <1>1, <1>2, Induction
<1> QED
  BY <1>3 DEF T

--------------------------------------------------------------------------
(* The source's states.                                                    *)

Commit == [events : Seq(Event), altered : BOOLEAN, contexts : Nat]

\* The rows after the first n of some commits on some rows.
RowsOf(w, rows, n) ==
  LET after[i \in 0 .. Len(w)] == IF i = 0 THEN rows ELSE ApplyEvents(after[i - 1], w[i].events)
  IN after[n]

\* They are the rows after the source's n-th commit, when these are its commits.
LEMMA RowsAfterIs == ASSUME NEW n PROVE RowsAfter(n) = RowsOf(wal, base, n)
BY DEF RowsAfter, RowsOf

\* A transaction leaves rows, or is refused.
LEMMA ApplyEventsType ==
  ASSUME NEW rows \in Results, NEW events \in Seq(Event)
  PROVE  ApplyEvents(rows, events) \in Results
BY RowsInType, ApplyEventsIsRowsIn

\* The rows after each commit, one from the other.
LEMMA RowsOfSteps ==
  ASSUME NEW w \in Seq(Commit), NEW rows \in Table
  PROVE  /\ RowsOf(w, rows, 0) = rows
         /\ \A i \in 0 .. Len(w) : RowsOf(w, rows, i) \in Results
         /\ \A i \in 1 .. Len(w) :
              RowsOf(w, rows, i) = ApplyEvents(RowsOf(w, rows, i - 1), w[i].events)
<1> DEFINE N == Len(w)
           F == [i \in 1 .. N |-> [v \in Results |-> ApplyEvents(v, w[i].events)]]
           Is(g) == g = [i \in 0 .. N |-> IF i = 0 THEN rows ELSE ApplyEvents(g[i - 1], w[i].events)]
           f == CHOOSE g : Is(g)
<1>1. N \in Nat /\ rows \in Results
  BY DEF Results
<1>0. \A i \in 1 .. N : w[i].events \in Seq(Event)
  <2> SUFFICES ASSUME NEW i \in 1 .. N PROVE w[i].events \in Seq(Event)
    OBVIOUS
  <2>1. w[i] \in Commit
    OBVIOUS
  <2> QED
    BY <2>1 DEF Commit
<1>2. \A i \in 1 .. N : \A v \in Results :
        F[i][v] \in Results /\ F[i][v] = ApplyEvents(v, w[i].events)
  BY <1>0, ApplyEventsType
<1>3. PICK g : IsRun(g, F, Results, rows, N)
  <2>1. StepsWithin(F, Results, N)
    BY <1>2 DEF StepsWithin
  <2> HIDE DEF N, F
  <2> QED
    BY <1>1, <2>1, RunExists
<1>4. Is(g)
  <2>1. \A j \in 1 .. N : g[j] = ApplyEvents(g[j - 1], w[j].events)
    <3> HIDE DEF F
    <3> QED
      BY <1>1, <1>2, <1>3 DEF IsRun
  <2>2. g = [j \in 0 .. N |-> g[j]] /\ g[0] = rows
    BY <1>3 DEF IsRun
  <2>3. \A j \in 0 .. N : g[j] = IF j = 0 THEN rows ELSE ApplyEvents(g[j - 1], w[j].events)
    BY <1>1, <2>1, <2>2
  <2> QED
    BY <2>2, <2>3
<1>5. Is(f)
  <2> HIDE DEF Is
  <2> QED
    BY <1>4, Zenon
<1>6. \A i : RowsOf(w, rows, i) = f[i]
  BY DEF RowsOf
<1> HIDE DEF f, F
<1>7. f[0] = rows /\ \A i \in 1 .. N : f[i] = ApplyEvents(f[i - 1], w[i].events)
  BY <1>1, <1>5
<1> DEFINE T == {i \in Nat : i <= N => f[i] \in Results}
<1>8. 0 \in T
  BY <1>1, <1>7
<1>9. ASSUME NEW n \in Nat, n \in T PROVE n + 1 \in T
  <2>1. SUFFICES ASSUME n + 1 <= N PROVE f[n + 1] \in Results
    OBVIOUS
  <2>2. n + 1 \in 1 .. N /\ n + 1 - 1 = n /\ f[n] \in Results
    BY <1>1, <1>9, <2>1
  <2> QED
    BY <1>0, <1>7, <2>2, ApplyEventsType
<1> HIDE DEF T
<1>10. \A n \in Nat : n \in T
  BY <1>8, <1>9, Induction
<1>11. \A i \in 0 .. N : f[i] \in Results
  BY <1>1, <1>10 DEF T
<1> QED
  BY <1>6, <1>7, <1>11

\* More commits change no earlier state.
LEMMA RowsOfGrow ==
  ASSUME NEW w \in Seq(Commit), NEW rows \in Table, NEW commit \in Commit
  PROVE  /\ \A i \in 0 .. Len(w) : RowsOf(Append(w, commit), rows, i) = RowsOf(w, rows, i)
         /\ RowsOf(Append(w, commit), rows, Len(w) + 1) =
              ApplyEvents(RowsOf(w, rows, Len(w)), commit.events)
<1> DEFINE more == Append(w, commit)
           T == {i \in Nat : i <= Len(w) => RowsOf(more, rows, i) = RowsOf(w, rows, i)}
<1>1. /\ more \in Seq(Commit) /\ Len(w) \in Nat /\ Len(more) = Len(w) + 1
      /\ \A i \in 1 .. Len(w) : more[i] = w[i]
      /\ more[Len(w) + 1] = commit
  OBVIOUS
<1> HIDE DEF more
<1>2. 0 \in T
  BY <1>1, RowsOfSteps
<1>3. ASSUME NEW n \in Nat, n \in T PROVE n + 1 \in T
  <2>1. SUFFICES ASSUME n + 1 <= Len(w) PROVE RowsOf(more, rows, n + 1) = RowsOf(w, rows, n + 1)
    OBVIOUS
  <2>2. n + 1 \in 1 .. Len(w) /\ n + 1 \in 1 .. Len(more) /\ n + 1 - 1 = n
    BY <1>1, <2>1
  <2>3. RowsOf(more, rows, n) = RowsOf(w, rows, n)
    BY <1>1, <1>3, <2>1
  <2>4. RowsOf(w, rows, n + 1) = ApplyEvents(RowsOf(w, rows, n), w[n + 1].events)
    BY <2>2, RowsOfSteps
  <2>5. RowsOf(more, rows, n + 1) = ApplyEvents(RowsOf(more, rows, n), more[n + 1].events)
    BY <1>1, <2>2, RowsOfSteps
  <2> QED
    BY <1>1, <2>2, <2>3, <2>4, <2>5
<1> HIDE DEF T
<1>4. \A n \in Nat : n \in T
  BY <1>2, <1>3, Induction
<1>5. \A i \in 0 .. Len(w) : RowsOf(more, rows, i) = RowsOf(w, rows, i)
  BY <1>1, <1>4 DEF T
<1>6. RowsOf(more, rows, Len(w) + 1) = ApplyEvents(RowsOf(w, rows, Len(w)), commit.events)
  <2>1. Len(w) + 1 \in 1 .. Len(more) /\ Len(w) + 1 - 1 = Len(w)
    BY <1>1
  <2> QED
    BY <1>1, <1>5, <2>1, RowsOfSteps
<1> QED
  BY <1>5, <1>6 DEF more

\* A refusal is final: when a list of events leaves rows, so does each part of it.
LEMMA TableBefore ==
  ASSUME NEW rows \in Results, NEW events \in Seq(Event),
         ApplyEvents(rows, events) \in Table
  PROVE  \A i \in 0 .. Len(events) : RowsIn(rows, events, i) \in Table
<1> DEFINE N == Len(events)
           T == {i \in Nat : i <= N => RowsIn(rows, events, N - i) \in Table}
<1>1. N \in Nat
  OBVIOUS
<1>2. 0 \in T
  BY <1>1, ApplyEventsIsRowsIn
<1>3. ASSUME NEW n \in Nat, n \in T PROVE n + 1 \in T
  <2>1. SUFFICES ASSUME n + 1 <= N PROVE RowsIn(rows, events, N - (n + 1)) \in Table
    OBVIOUS
  <2> DEFINE i == N - n
  <2>2. i \in 1 .. N /\ i - 1 = N - (n + 1) /\ i - 1 \in 0 .. N
    BY <1>1, <2>1
  <2>3. RowsIn(rows, events, i) \in Table
    BY <1>1, <1>3, <2>1
  <2> HIDE DEF i
  <2>4. RowsIn(rows, events, i) = OneEvent(RowsIn(rows, events, i - 1), events[i])
    BY <2>2, RowsInSteps
  <2>5. RowsIn(rows, events, i - 1) \in Results
    BY <2>2, RowsInType
  <2> QED
    BY <2>2, <2>3, <2>4, <2>5, NoRowAssumption DEF OneEvent, Results
<1> HIDE DEF T
<1>4. \A n \in Nat : n \in T
  BY <1>2, <1>3, Induction
<1>5. ASSUME NEW i \in 0 .. N PROVE RowsIn(rows, events, i) \in Table
  <2>1. N - i \in Nat /\ N - i <= N /\ N - (N - i) = i
    BY <1>1
  <2>2. N - i \in T
    BY <1>4, <2>1
  <2> QED
    BY <2>1, <2>2 DEF T
<1> QED
  BY <1>5

\* One more event of a transaction.
LEMMA ApplyEventsAppend ==
  ASSUME NEW rows \in Results, NEW events \in Seq(Event), NEW event \in Event
  PROVE  ApplyEvents(rows, Append(events, event)) = OneEvent(ApplyEvents(rows, events), event)
<1> DEFINE more == Append(events, event)
           N == Len(events)
           T == {i \in Nat : i <= N => RowsIn(rows, more, i) = RowsIn(rows, events, i)}
<1>1. /\ more \in Seq(Event) /\ N \in Nat /\ Len(more) = N + 1
      /\ \A i \in 1 .. N : more[i] = events[i]
      /\ more[N + 1] = event
  OBVIOUS
<1> HIDE DEF more
<1>2. 0 \in T
  BY <1>1, RowsInSteps
<1>3. ASSUME NEW n \in Nat, n \in T PROVE n + 1 \in T
  <2>1. SUFFICES ASSUME n + 1 <= N PROVE RowsIn(rows, more, n + 1) = RowsIn(rows, events, n + 1)
    OBVIOUS
  <2>2. n + 1 \in 1 .. N /\ n + 1 \in 1 .. Len(more) /\ n + 1 - 1 = n
    BY <1>1, <2>1
  <2>3. RowsIn(rows, more, n) = RowsIn(rows, events, n)
    BY <1>1, <1>3, <2>1
  <2>4. RowsIn(rows, events, n + 1) = OneEvent(RowsIn(rows, events, n), events[n + 1])
    BY <2>2, RowsInSteps
  <2>5. RowsIn(rows, more, n + 1) = OneEvent(RowsIn(rows, more, n), more[n + 1])
    BY <1>1, <2>2, RowsInSteps
  <2> QED
    BY <1>1, <2>2, <2>3, <2>4, <2>5
<1> HIDE DEF T
<1>4. N \in T
  BY <1>1, <1>2, <1>3, Induction
<1>5. RowsIn(rows, more, N) = RowsIn(rows, events, N)
  BY <1>1, <1>4 DEF T
<1>6. N + 1 \in 1 .. Len(more) /\ N + 1 - 1 = N
  BY <1>1
<1>7. RowsIn(rows, more, N + 1) = OneEvent(RowsIn(rows, more, N), more[N + 1])
  BY <1>1, <1>6, RowsInSteps
<1>8. ApplyEvents(rows, more) = OneEvent(ApplyEvents(rows, events), event)
  BY <1>1, <1>5, <1>7, ApplyEventsIsRowsIn
<1> QED
  BY <1>8 DEF more

\* The two parts of a value are any two.
LEMMA PartsOfValues ==
  /\ \A v \in Values : /\ v = [small |-> v.small, big |-> v.big]
                       /\ v.small \in Smalls /\ v.big \in Bigs /\ v.big # Unchanged
  /\ \A s \in Smalls, b \in Bigs : [small |-> s, big |-> b] \in Values
<1>1. \A v \in Values : v.small \in Smalls /\ v.big \in Bigs
  BY DEF Smalls, Bigs
<1>2. \A v \in Values : v = [small |-> v.small, big |-> v.big]
  BY ValuesAssumption
<1>3. \A s \in Smalls, b \in Bigs : [small |-> s, big |-> b] \in Values
  BY ValuesAssumption
<1> QED
  BY <1>1, <1>2, <1>3, PartsAssumption

\* There is room for a row under every key.
LEMMA RoomForAll ==
  ASSUME NEW rows \in Table, NEW k \in Keys, rows[k] = NoRow
  PROVE  ~(Cardinality(Present(rows)) >= MaxRows)
<1>1. Present(rows) \in SUBSET (Keys \ {k})
  BY DEF Present
<1>2. IsFiniteSet(Keys \ {k}) /\ Cardinality(Keys \ {k}) = Cardinality(Keys) - 1
  BY KeysAssumption, FS_RemoveElement
<1>3. Cardinality(Keys) \in Nat
  BY KeysAssumption, FS_CardinalityType
<1>4. Cardinality(Present(rows)) <= Cardinality(Keys \ {k})
  BY <1>1, <1>2, FS_Subset
<1>5. Cardinality(Present(rows)) \in Nat
  BY PresentFinite
<1> QED
  BY <1>2, <1>3, <1>4, <1>5, SnapshotsAssumption, MaxRowsAssumption

\* What can be done to some rows is an event that leaves rows.
LEMMA OperationApplies ==
  ASSUME NEW rows \in Table, NEW op \in Operations, Possible(rows, op)
  PROVE  EventOf(rows, op) \in Event /\ ApplyEvent(rows, EventOf(rows, op)) \in Table
<1> DEFINE e == EventOf(rows, op)
           big == IF op.big = Same THEN rows[op.from].big ELSE op.big
           value == [small |-> op.small, big |-> big]
           kept == Without(rows, e)
<1>1. /\ op.from \in Keys \union {NoKey} /\ op.to \in Keys \union {NoKey}
      /\ op.small \in Smalls /\ op.big \in Bigs \union {Same}
      /\ op.big = Same => op.from \in Keys
  BY DEF Operations
<1>2. op.from # NoKey => op.from \in Keys /\ rows[op.from] \in Values
  BY <1>1 DEF Possible, Table
<1>3. big \in Bigs
  BY <1>1, <1>2, PartsOfValues, PartsAssumption
<1>4. value \in Values
  BY <1>1, <1>3, PartsOfValues
<1> HIDE DEF big
<1>5. /\ e.before = IF op.from = NoKey THEN NoRow ELSE [key |-> op.from, value |-> rows[op.from]]
      /\ e.after = IF op.to = NoKey THEN NoRow ELSE [key |-> op.to, value |-> value]
      /\ e = [before |-> e.before, after |-> e.after]
  BY DEF EventOf, big
<1> HIDE DEF e, value
<1>6. e.before \in Image \union {NoRow} /\ e.after \in Image \union {NoRow}
  BY <1>1, <1>2, <1>4, <1>5 DEF Image
<1>7. e \in Event
  BY <1>5, <1>6 DEF Event
<1>8. ~Stale(rows, e)
  BY <1>5 DEF Stale
<1>9. /\ kept \in Table
      /\ \A k \in Keys : kept[k] = IF op.from = k THEN NoRow ELSE rows[k]
  BY <1>1, <1>2, <1>5, NoRowAssumption, PartsAssumption DEF Without, Table, Image
<1> HIDE DEF kept
<1>10. CASE op.to = NoKey
  <2>1. ApplyEvent(rows, e) = kept
    BY <1>5, <1>8, <1>10 DEF ApplyEvent, kept
  <2> QED
    BY <1>7, <1>9, <2>1 DEF e
<1>11. CASE op.to # NoKey
  <2>1. op.to \in Keys /\ kept[op.to] = NoRow
    BY <1>1, <1>9, <1>11 DEF Possible
  <2>2. ~(Cardinality(Present(kept)) >= MaxRows)
    BY <1>9, <2>1, RoomForAll
  <2>3. e.after = [key |-> op.to, value |-> value] /\ e.after # NoRow
    BY <1>4, <1>5, <1>11, <2>1, NoRowAssumption DEF Image
  <2>4. ApplyEvent(rows, e) = [kept EXCEPT ![op.to] = value]
    BY <1>8, <2>1, <2>2, <2>3 DEF ApplyEvent, kept
  <2>5. [kept EXCEPT ![op.to] = value] \in Table
    BY <1>4, <1>9, <2>1 DEF Table
  <2> QED
    BY <1>7, <2>4, <2>5 DEF e
<1> QED
  BY <1>10, <1>11

\* The events of operations that can be done leave the rows that they are said to.
LEMMA EventsOfApply ==
  ASSUME NEW rows \in Table, NEW ops \in Seq(Operations)
  PROVE  LET done == EventsOf(rows, ops) IN
         /\ done.events \in Seq(Event)
         /\ ApplyEvents(rows, done.events) \in Table
<1> DEFINE V == {d \in [rows : Table, events : Seq(Event), possible : BOOLEAN] :
                   ApplyEvents(rows, d.events) = d.rows}
           first == [rows |-> rows, events |-> << >>, possible |-> TRUE]
           step(d, op) ==
             IF ~d.possible \/ ~Possible(d.rows, op) THEN [d EXCEPT !.possible = FALSE]
             ELSE LET e == EventOf(d.rows, op) IN
                  [d EXCEPT !.rows = ApplyEvent(@, e), !.events = Append(@, e)]
           N == Len(ops)
           F == [i \in 1 .. N |-> [d \in V |-> step(d, ops[i])]]
           Is(g) == g = [i \in 0 .. N |-> IF i = 0 THEN first
                          ELSE LET d == g[i - 1] IN
                               IF ~d.possible \/ ~Possible(d.rows, ops[i]) THEN [d EXCEPT !.possible = FALSE]
                               ELSE LET e == EventOf(d.rows, ops[i]) IN
                                    [d EXCEPT !.rows = ApplyEvent(@, e), !.events = Append(@, e)]]
           f == CHOOSE g : Is(g)
<1>1. N \in Nat /\ \A i \in 1 .. N : ops[i] \in Operations
  OBVIOUS
<1>2. first \in V
  <2>1. << >> \in Seq(Event) /\ Len(<< >>) = 0
    OBVIOUS
  <2>2. RowsIn(rows, << >>, 0) = rows
    BY <2>1, RowsInSteps DEF Results
  <2> QED
    BY <2>1, <2>2, ApplyEventsIsRowsIn
<1>3. ASSUME NEW d \in V, NEW op \in Operations PROVE step(d, op) \in V
  <2>1. d.rows \in Table /\ d.events \in Seq(Event) /\ d.possible \in BOOLEAN
    OBVIOUS
  <2>2. CASE ~d.possible \/ ~Possible(d.rows, op)
    BY <2>2
  <2>3. CASE d.possible /\ Possible(d.rows, op)
    <3> DEFINE e == EventOf(d.rows, op)
    <3>1. e \in Event /\ ApplyEvent(d.rows, e) \in Table
      BY <2>1, <2>3, OperationApplies
    <3> HIDE DEF e
    <3>2. ApplyEvents(rows, Append(d.events, e)) = OneEvent(d.rows, e)
      BY <2>1, <3>1, ApplyEventsAppend DEF Results
    <3>3. OneEvent(d.rows, e) = ApplyEvent(d.rows, e)
      BY <2>1, NoRowAssumption DEF OneEvent
    <3>4. step(d, op) = [d EXCEPT !.rows = ApplyEvent(@, e), !.events = Append(@, e)]
      BY <2>3 DEF e
    <3>5. Append(d.events, e) \in Seq(Event)
      BY <2>1, <3>1
    <3> QED
      BY <3>1, <3>2, <3>3, <3>4, <3>5
  <2> QED
    BY <2>2, <2>3
<1> HIDE DEF V, step, first
<1>4. PICK g : IsRun(g, F, V, first, N)
  <2>1. StepsWithin(F, V, N)
    BY <1>1, <1>3 DEF StepsWithin
  <2> HIDE DEF N, F
  <2> QED
    BY <1>1, <1>2, <2>1, RunExists
<1>5. Is(g)
  <2>1. \A j \in 1 .. N : g[j] = step(g[j - 1], ops[j])
    <3>1. \A j \in 1 .. N : g[j - 1] \in V /\ g[j] = F[j][g[j - 1]]
      BY <1>1, <1>4 DEF IsRun
    <3> QED
      BY <3>1
  <2>2. g = [j \in 0 .. N |-> g[j]]
    BY <1>1, <1>4 DEF IsRun
  <2>4. g[0] = first
    BY <1>4 DEF IsRun
  <2>3. \A j \in 0 .. N : g[j] = IF j = 0 THEN first ELSE step(g[j - 1], ops[j])
    <3> HIDE DEF F, N
    <3> TAKE j \in 0 .. N
    <3>1. CASE j = 0
      BY <2>4, <3>1
    <3>2. CASE j # 0
      <4>1. j \in 1 .. N
        BY <1>1, <3>2
      <4> QED
        BY <2>1, <3>2, <4>1
    <3> QED
      BY <3>1, <3>2
  <2> QED
    BY <2>2, <2>3 DEF step
<1>6. Is(f)
  <2> HIDE DEF Is
  <2> QED
    BY <1>5, Zenon
<1>7. EventsOf(rows, ops) = f[N]
  BY DEF EventsOf, first
<1> DEFINE T == {i \in Nat : i <= N => f[i] \in V}
<1> HIDE DEF f
<1>8. f[0] = first /\ \A i \in 1 .. N : f[i] = step(f[i - 1], ops[i])
  <2>1. f = [i \in 0 .. N |-> IF i = 0 THEN first ELSE step(f[i - 1], ops[i])]
    BY <1>6 DEF step
  <2> HIDE DEF N, F, Is
  <2>2. \A i \in 0 .. N : f[i] = IF i = 0 THEN first ELSE step(f[i - 1], ops[i])
    BY <2>1
  <2> QED
    BY <1>1, <2>2
<1> HIDE DEF Is, F
<1>9. 0 \in T
  BY <1>2, <1>8
<1>10. ASSUME NEW n \in Nat, n \in T PROVE n + 1 \in T
  <2>1. SUFFICES ASSUME n + 1 <= N PROVE f[n + 1] \in V
    OBVIOUS
  <2>2. n + 1 \in 1 .. N /\ n + 1 - 1 = n /\ f[n] \in V
    BY <1>1, <1>10, <2>1
  <2> QED
    BY <1>1, <1>3, <1>8, <2>2
<1> HIDE DEF T
<1>11. N \in T
  BY <1>1, <1>9, <1>10, Induction
<1>12. f[N] \in V
  BY <1>1, <1>11 DEF T
<1> HIDE DEF N
<1> QED
  BY <1>7, <1>12 DEF V

--------------------------------------------------------------------------
(* What the source did.                                                    *)

\* What the source committed, and the rows of each of its states.
SourceSound ==
  /\ wal \in Seq(Commit)
  /\ altered \in BOOLEAN
  /\ base \in Table
  /\ \A i \in 0 .. Len(wal) : RowsAfter(i) \in Table

\* What a step leaves of the source's commits and states: all of it.
Extends ==
  /\ base' = base
  /\ Len(wal) <= Len(wal')
  /\ \A i \in 1 .. Len(wal) : wal'[i] = wal[i]
  /\ \A i \in 0 .. Len(wal) : RowsAfter(i)' = RowsAfter(i)

\* The source's commits and states, one from the other.
LEMMA SourceTypes ==
  ASSUME SourceSound
  PROVE  /\ Len(wal) \in Nat /\ DOMAIN wal = 1 .. Len(wal)
         /\ RowsAfter(0) = base
         /\ \A i \in 1 .. Len(wal) :
              /\ wal[i] \in Commit
              /\ wal[i].events \in Seq(Event) /\ wal[i].altered \in BOOLEAN /\ wal[i].contexts \in Nat
              /\ Len(wal[i].events) \in Nat
              /\ RowsAfter(i - 1) \in Table /\ RowsAfter(i) \in Table
              /\ RowsAfter(i) = ApplyEvents(RowsAfter(i - 1), wal[i].events)
<1>1. wal \in Seq(Commit) /\ base \in Table /\ \A i \in 0 .. Len(wal) : RowsAfter(i) \in Table
  BY DEF SourceSound
<1>2. Len(wal) \in Nat /\ DOMAIN wal = 1 .. Len(wal)
  BY <1>1
<1>3. RowsAfter(0) = base
  BY <1>1, RowsAfterIs, RowsOfSteps
<1>4. ASSUME NEW i \in 1 .. Len(wal)
      PROVE  /\ wal[i] \in Commit
             /\ RowsAfter(i - 1) \in Table /\ RowsAfter(i) \in Table
             /\ RowsAfter(i) = ApplyEvents(RowsAfter(i - 1), wal[i].events)
  <2>1. wal[i] \in Commit
    BY <1>1
  <2>2. i \in 0 .. Len(wal) /\ i - 1 \in 0 .. Len(wal)
    BY <1>2
  <2>3. RowsOf(wal, base, i) = ApplyEvents(RowsOf(wal, base, i - 1), wal[i].events)
    BY <1>1, RowsOfSteps
  <2> QED
    BY <1>1, <2>1, <2>2, <2>3, RowsAfterIs
<1>5. ASSUME NEW i \in 1 .. Len(wal)
      PROVE  /\ wal[i].events \in Seq(Event) /\ wal[i].altered \in BOOLEAN /\ wal[i].contexts \in Nat
             /\ Len(wal[i].events) \in Nat
  <2>1. wal[i].events \in Seq(Event) /\ wal[i].altered \in BOOLEAN /\ wal[i].contexts \in Nat
    BY <1>4 DEF Commit
  <2> QED
    BY <2>1
<1> QED
  BY <1>2, <1>3, <1>4, <1>5

\* A step that leaves the source alone.
LEMMA SourceSame ==
  ASSUME SourceSound, UNCHANGED sourceVars
  PROVE  SourceSound' /\ Extends
<1>1. wal' = wal /\ altered' = altered /\ base' = base
  BY DEF sourceVars
<1>2. \A i : RowsAfter(i)' = RowsAfter(i)
  <2> TAKE i
  <2>1. RowsAfter(i) = RowsOf(wal, base, i)
    BY RowsAfterIs
  <2>2. RowsAfter(i)' = RowsOf(wal', base', i)
    BY DEF RowsAfter, RowsOf
  <2> QED
    BY <1>1, <2>1, <2>2
<1>3. Len(wal) \in Nat
  BY SourceTypes
<1> QED
  BY <1>1, <1>2, <1>3 DEF SourceSound, Extends

\* A commit of the source leaves a state, and changes no earlier one.
LEMMA SourceCommitSound ==
  ASSUME SourceSound, SourceCommits
  PROVE  SourceSound' /\ Extends
<1>1. PICK txn \in Workload :
        LET done == EventsOf(RowsAfter(Len(wal)), txn.ops) IN
        /\ done.possible
        /\ wal' = Append(wal, [events |-> done.events, altered |-> altered,
                               contexts |-> txn.contexts])
  BY DEF SourceCommits
<1>2. altered' = altered /\ base' = base
  BY DEF SourceCommits
<1> DEFINE done == EventsOf(RowsAfter(Len(wal)), txn.ops)
           commit == [events |-> done.events, altered |-> altered, contexts |-> txn.contexts]
<1>3. wal \in Seq(Commit) /\ base \in Table /\ altered \in BOOLEAN /\ Len(wal) \in Nat
  BY SourceTypes DEF SourceSound
<1>4. RowsAfter(Len(wal)) \in Table
  BY <1>3 DEF SourceSound
<1>5. done.events \in Seq(Event) /\ ApplyEvents(RowsAfter(Len(wal)), done.events) \in Table
  BY <1>4, WorkloadAssumption, EventsOfApply
<1> HIDE DEF done
<1>6. commit \in Commit
  BY <1>3, <1>5, WorkloadAssumption DEF Commit
<1>7. wal' = Append(wal, commit)
  BY <1>1 DEF done
<1>8. commit.events = done.events
  OBVIOUS
<1> HIDE DEF commit
<1>9. \A i : RowsAfter(i)' = RowsOf(Append(wal, commit), base, i)
  BY <1>2, <1>7 DEF RowsAfter, RowsOf
<1>10. \A i \in 0 .. Len(wal) : RowsAfter(i)' = RowsAfter(i)
  BY <1>3, <1>6, <1>9, RowsOfGrow, RowsAfterIs
<1>11. \A i : i = Len(wal) + 1 => RowsAfter(i)' \in Table
  <2>1. RowsOf(Append(wal, commit), base, Len(wal) + 1)
          = ApplyEvents(RowsOf(wal, base, Len(wal)), commit.events)
    BY <1>3, <1>6, RowsOfGrow
  <2>2. RowsOf(wal, base, Len(wal)) = RowsAfter(Len(wal))
    BY RowsAfterIs
  <2> QED
    BY <1>5, <1>8, <1>9, <2>1, <2>2
<1>12. /\ wal' \in Seq(Commit) /\ Len(wal') = Len(wal) + 1
       /\ \A i \in 1 .. Len(wal) : wal'[i] = wal[i]
  BY <1>3, <1>6, <1>7
<1>13. \A i \in 0 .. Len(wal') : RowsAfter(i)' \in Table
  <2> TAKE i \in 0 .. Len(wal')
  <2>1. CASE i \in 0 .. Len(wal)
    BY <1>10, <2>1 DEF SourceSound
  <2>2. CASE i = Len(wal) + 1
    BY <1>11, <2>2
  <2> QED
    BY <1>3, <1>12, <2>1, <2>2
<1>14. SourceSound'
  BY <1>2, <1>3, <1>12, <1>13 DEF SourceSound
<1> QED
  BY <1>2, <1>3, <1>10, <1>12, <1>14 DEF Extends

\* What every step does to the source.
LEMMA SourceKept ==
  ASSUME SourceSound, [Next]_vars
  PROVE  SourceSound' /\ Extends
<1>1. CASE SourceCommits
  BY <1>1, SourceCommitSound
<1>2. CASE SourceAlters
  <2>1. altered' = TRUE /\ UNCHANGED <<wal, base>>
    BY <1>2 DEF SourceAlters
  <2>2. \A i : RowsAfter(i)' = RowsAfter(i)
    <3> TAKE i
    <3>1. RowsAfter(i)' = RowsOf(wal', base', i)
      BY DEF RowsAfter, RowsOf
    <3> QED
      BY <2>1, <3>1, RowsAfterIs
  <2>3. Len(wal) \in Nat
    BY SourceTypes
  <2> QED
    BY <2>1, <2>2, <2>3 DEF SourceSound, Extends
<1>3. CASE UNCHANGED sourceVars
  BY <1>3, SourceSame
<1>4. SourceCommits \/ SourceAlters \/ UNCHANGED sourceVars
  <2>1. CASE Recorder
    BY <2>1 DEF Recorder, Resume, Stream, PushFrame, PushBegin, PushRelation, PushContext,
                PushChange, PushCommit, AppendDurable, Confirm, ConfirmDurable, GiveUp, sourceVars
  <2>2. CASE Stop \/ Crash \/ Viewer \/ Damage
    BY <2>2 DEF Stop, Crash, Viewer, Damage
  <2>3. CASE Source
    BY <2>3 DEF Source
  <2>4. CASE UNCHANGED vars
    BY <2>4 DEF vars
  <2> QED
    BY <2>1, <2>2, <2>3, <2>4 DEF Next
<1> QED
  BY <1>1, <1>2, <1>3, <1>4

--------------------------------------------------------------------------
(* Positions.                                                              *)

\* A commit's number and its position.
LEMMA EndLsns ==
  /\ \A i \in Nat : EndLsn(i) \in Nat /\ EndLsn(i) \div 2 = i
  /\ \A i, j \in Nat : EndLsn(i) <= EndLsn(j) <=> i <= j
  /\ \A i, j \in Nat : EndLsn(i) = EndLsn(j) <=> i = j
  /\ EndLsn(0) = 0
BY DEF EndLsn

\* A number is even or odd.
LEMMA Halves == \A p \in Nat : \E l \in Nat : p = 2 * l \/ p = 2 * l + 1
<1> TAKE p \in Nat
<1>1. p \div 2 \in Nat /\ (p = 2 * (p \div 2) \/ p = 2 * (p \div 2) + 1)
  OBVIOUS
<1> QED
  BY <1>1

\* The last of some positions.
LEMMA LatestIs ==
  ASSUME NEW S \in SUBSET Nat, NEW N \in Nat, \A q \in S : q <= N, S # {}
  PROVE  Latest(S) \in S /\ \A q \in S : q <= Latest(S)
<1> DEFINE T == {n \in Nat : (\E q \in S : N - n <= q) => \E p \in S : \A q \in S : q <= p}
<1>1. 0 \in T
  <2>1. ASSUME NEW q \in S, N - 0 <= q PROVE \A r \in S : r <= q
    BY <2>1
  <2> QED
    BY <2>1
<1>2. ASSUME NEW n \in Nat, n \in T PROVE n + 1 \in T
  <2>1. SUFFICES ASSUME NEW q \in S, N - (n + 1) <= q
                 PROVE  \E p \in S : \A r \in S : r <= p
    OBVIOUS
  <2>2. CASE \E r \in S : N - n <= r
    BY <1>2, <2>2
  <2>3. CASE \A r \in S : ~(N - n <= r)
    <3>1. \A r \in S : r <= q
      BY <2>1, <2>3
    <3> QED
      BY <3>1
  <2> QED
    BY <2>2, <2>3
<1> HIDE DEF T
<1>3. N \in T
  BY <1>1, <1>2, Induction
<1>4. \E p \in S : \A q \in S : q <= p
  <2>1. \A q \in S : N - N <= q
    OBVIOUS
  <2> QED
    BY <1>3, <2>1 DEF T
<1> QED
  BY <1>4 DEF Latest

\* The positions of the first n commits are n.
LEMMA PositionsCounted ==
  ASSUME NEW n \in Nat
  PROVE  /\ IsFiniteSet({EndLsn(i) : i \in 1 .. n})
         /\ Cardinality({EndLsn(i) : i \in 1 .. n}) = n
<1> DEFINE P(m) == {EndLsn(i) : i \in 1 .. m}
           T == {m \in Nat : IsFiniteSet(P(m)) /\ Cardinality(P(m)) = m}
<1>1. 0 \in T
  <2>1. P(0) = {}
    OBVIOUS
  <2> QED
    BY <2>1, FS_EmptySet
<1>2. ASSUME NEW m \in Nat, m \in T PROVE m + 1 \in T
  <2>1. P(m + 1) = P(m) \union {EndLsn(m + 1)}
    OBVIOUS
  <2>2. EndLsn(m + 1) \notin P(m)
    BY EndLsns
  <2> HIDE DEF P
  <2> QED
    BY <1>2, <2>1, <2>2, FS_AddElement
<1> HIDE DEF T
<1>3. n \in T
  BY <1>1, <1>2, Induction
<1> QED
  BY <1>3 DEF T

--------------------------------------------------------------------------
(* What is stored.                                                         *)

\* What is recorded of the source's i-th commit.
Recorded(i) ==
  [previous |-> EndLsn(i - 1), position |-> EndLsn(i),
   context  |-> IF wal[i].contexts = 0 THEN 0 ELSE i, events |-> wal[i].events]

\* The commits that were recorded are the first ones; some may be lost.
CommitsSound ==
  /\ info.count \in 0 .. Len(wal)
  /\ info = [head |-> EndLsn(info.count), count |-> info.count, baselineRows |-> base]
  /\ baseline \in [rows : Table, bad : SUBSET Keys]
  /\ commits = [p \in DOMAIN commits |-> commits[p]]
  /\ DOMAIN commits \subseteq {EndLsn(i) : i \in 1 .. info.count}
  /\ \A i \in 1 .. info.count :
       /\ EndLsn(i) \in DOMAIN commits =>
            commits[EndLsn(i)] \in [commit : {Recorded(i)}, ok : BOOLEAN]
       /\ ~wal[i].altered \/ wal[i].events = << >>

\* A manifest states the rows at a commit's position, or names a history that no
\* position but the first can have.
ManifestOf(m, i, rows) ==
  /\ m = [position |-> EndLsn(i), rows |-> m.rows, count |-> m.count, history |-> m.history]
  /\ m.rows \in Table
  /\ m.rows = rows \/ m.history = <<m.rows, << >>>>

Artifact(a) ==
  /\ a = [ok |-> a.ok, rows |-> a.rows, bad |-> a.bad, manifest |-> a.manifest]
  /\ a.rows \in Table
  /\ a.bad \subseteq Keys

CheckpointsSound ==
  /\ checkpoints = [c \in DOMAIN checkpoints |-> checkpoints[c]]
  /\ \A c \in DOMAIN checkpoints :
       /\ \E i \in 0 .. info.count : c = EndLsn(i)
       /\ Artifact(checkpoints[c])
       /\ \E i \in 0 .. info.count : ManifestOf(checkpoints[c].manifest, i, RowsAfter(i))

\* While nothing was committed elsewhere, what was verified holds the rows of
\* its position, even if it was published again since.
VerifiedSound ==
  /\ verified = [signature |-> verified.signature, current |-> verified.current]
  /\ verified.current =>
       /\ verified.signature[1].count \in 0 .. info.count
       /\ \A c \in DOMAIN checkpoints :
            ManifestHolds(c) /\ verified.signature = Signature(c) =>
              checkpoints[c].rows = RowsAfter(c \div 2)

\* Nothing of the history is lost or altered until it is damaged.
WholeUnlessHarmed ==
  ~harmed =>
    /\ baseline = [rows |-> base, bad |-> {}]
    /\ \A i \in 1 .. info.count :
         EndLsn(i) \in DOMAIN commits /\ commits[EndLsn(i)].ok

StoreSound == CommitsSound /\ CheckpointsSound /\ VerifiedSound /\ WholeUnlessHarmed

--------------------------------------------------------------------------
(* What can be restored.                                                   *)

AllStored == DOMAIN commits = {EndLsn(i) : i \in 1 .. info.count}

\* The fields of the record, and what is recorded of a commit that is there.
LEMMA CommitsTypes ==
  ASSUME SourceSound, CommitsSound
  PROVE  /\ info.count \in Nat /\ info.count <= Len(wal)
         /\ info.head = EndLsn(info.count) /\ info.head \in Nat /\ info.baselineRows = base
         /\ baseline.rows \in Table
         /\ DOMAIN commits \subseteq 1 .. info.head
         /\ \A i \in 1 .. info.count : EndLsn(i) \in DOMAIN commits =>
              /\ commits[EndLsn(i)].commit = Recorded(i)
              /\ commits[EndLsn(i)].ok \in BOOLEAN
              /\ commits[EndLsn(i)] = [commit |-> Recorded(i), ok |-> commits[EndLsn(i)].ok]
<1>1. Len(wal) \in Nat
  BY SourceTypes
<1>2. info.count \in Nat /\ info.count <= Len(wal)
  BY <1>1 DEF CommitsSound
<1>3. info.head = EndLsn(info.count) /\ info.baselineRows = base
  BY DEF CommitsSound
<1>4. baseline.rows \in Table
  BY DEF CommitsSound
<1>5. DOMAIN commits \subseteq 1 .. info.head
  <2> SUFFICES ASSUME NEW p \in DOMAIN commits PROVE p \in 1 .. info.head
    OBVIOUS
  <2>1. PICK i \in 1 .. info.count : p = EndLsn(i)
    BY DEF CommitsSound
  <2> QED
    BY <1>2, <1>3, <2>1 DEF EndLsn
<1>6. \A i \in 1 .. info.count : EndLsn(i) \in DOMAIN commits =>
         commits[EndLsn(i)] \in [commit : {Recorded(i)}, ok : BOOLEAN]
  BY DEF CommitsSound
<1>7. \A i \in 1 .. info.count : EndLsn(i) \in DOMAIN commits =>
              /\ commits[EndLsn(i)].commit = Recorded(i)
              /\ commits[EndLsn(i)].ok \in BOOLEAN
              /\ commits[EndLsn(i)] = [commit |-> Recorded(i), ok |-> commits[EndLsn(i)].ok]
  BY <1>6
<1> QED
  BY <1>2, <1>3, <1>4, <1>5, <1>7, EndLsns

\* A prefix that holds is the source's: no record of the recording is missing,
\* and the position is that of a commit, or of the baseline.
LEMMA PrefixIsWhole ==
  ASSUME SourceSound, CommitsSound, NEW p \in Nat, PrefixHolds(p)
  PROVE  /\ AllStored
         /\ baseline.rows = base
         /\ \E i \in 0 .. info.count : p = EndLsn(i)
<1>1. Cardinality(DOMAIN commits) = info.count /\ BaselineHolds
      /\ Latest({0} \union Through(p)) = p
  BY DEF PrefixHolds
<1>2. baseline.rows = base
  BY <1>1, CommitsTypes DEF BaselineHolds
<1>3. AllStored
  <2>1. DOMAIN commits \in SUBSET {EndLsn(i) : i \in 1 .. info.count}
    BY DEF CommitsSound
  <2>2. info.count \in Nat
    BY CommitsTypes
  <2> QED
    BY <1>1, <2>1, <2>2, PositionsCounted, FS_Subset DEF AllStored
<1>4. p \in {0} \union Through(p)
  <2>1. {0} \union Through(p) \in SUBSET Nat /\ {0} \union Through(p) # {}
    BY CommitsTypes DEF Through
  <2>2. \A q \in {0} \union Through(p) : q <= p
    BY DEF Through
  <2> QED
    BY <1>1, <2>1, <2>2, LatestIs
<1>5. \E i \in 0 .. info.count : p = EndLsn(i)
  <2>1. CASE p = 0
    BY <2>1, CommitsTypes, EndLsns
  <2>2. CASE p \in Through(p)
    <3>1. p \in {EndLsn(i) : i \in 1 .. info.count}
      BY <1>3, <2>2 DEF Through, AllStored
    <3> QED
      BY <3>1, CommitsTypes
  <2> QED
    BY <1>4, <2>1, <2>2
<1> QED
  BY <1>2, <1>3, <1>5

\* The positions up to one of them.
LEMMA ThroughIs ==
  ASSUME SourceSound, CommitsSound, AllStored, NEW i \in 0 .. info.count
  PROVE  Through(EndLsn(i)) = {EndLsn(j) : j \in 1 .. i}
<1>1. info.count \in Nat
  BY CommitsTypes
<1>2. \A j \in 1 .. info.count : EndLsn(j) <= EndLsn(i) <=> j \in 1 .. i
  BY <1>1, EndLsns
<1> QED
  BY <1>1, <1>2 DEF Through, AllStored

\* The commits that follow the source's state after i of them lead to its state
\* after j.
LEMMA ReplayIs ==
  ASSUME SourceSound, CommitsSound, AllStored,
         NEW j \in 0 .. info.count, NEW i \in 0 .. j,
         NEW positions, positions = {EndLsn(l) : l \in i + 1 .. j}
  PROVE  Replay(RowsAfter(i), positions) = RowsAfter(j)
<1> DEFINE N == info.head
           next(v, p) == IF p \notin positions \/ v \in {Broken, TooLarge} THEN v
                         ELSE ApplyEvents(v, commits[p].commit.events)
           F == [p \in 1 .. N |-> [v \in Results |-> next(v, p)]]
           start == RowsAfter(i)
           Is(g) == g = [p \in 0 .. N |->
                          IF p = 0 THEN start
                          ELSE IF p \notin positions \/ g[p - 1] \in {Broken, TooLarge} THEN g[p - 1]
                          ELSE ApplyEvents(g[p - 1], commits[p].commit.events)]
           f == CHOOSE g : Is(g)
<1>1. /\ N \in Nat /\ info.count \in Nat /\ info.count <= Len(wal) /\ Len(wal) \in Nat
      /\ N = EndLsn(info.count)
  BY CommitsTypes, SourceTypes
<1>2. i \in Nat /\ j \in Nat /\ i <= j /\ j <= info.count
  BY <1>1
<1>3. \A l \in 0 .. Len(wal) : RowsAfter(l) \in Table
  BY DEF SourceSound
<1>4. start \in Results /\ start \in Table
  BY <1>1, <1>2, <1>3 DEF Results
<1>5. ASSUME NEW p \in 1 .. N, p \in positions
      PROVE  \E l \in i + 1 .. j : p = EndLsn(l) /\ commits[p].commit.events = wal[l].events
                                    /\ wal[l].events \in Seq(Event)
  <2>1. PICK l \in i + 1 .. j : p = EndLsn(l)
    BY <1>5
  <2>2. l \in 1 .. info.count /\ l \in 1 .. Len(wal)
    BY <1>1, <1>2
  <2>3. EndLsn(l) \in DOMAIN commits
    BY <2>2 DEF AllStored
  <2>4. commits[p].commit = Recorded(l)
    BY <2>1, <2>2, <2>3, CommitsTypes
  <2> QED
    BY <2>1, <2>2, <2>4, SourceTypes DEF Recorded
<1>6. \A p \in 1 .. N : \A v \in Results : next(v, p) \in Results
  <2> SUFFICES ASSUME NEW p \in 1 .. N, NEW v \in Results, p \in positions
               PROVE  ApplyEvents(v, commits[p].commit.events) \in Results
    OBVIOUS
  <2> QED
    BY <1>5, ApplyEventsType
<1> HIDE DEF start, N
<1>7. PICK g : IsRun(g, F, Results, start, N)
  <2>1. StepsWithin(F, Results, N)
    BY <1>6 DEF StepsWithin
  <2> HIDE DEF F
  <2> QED
    BY <1>1, <1>4, <2>1, RunExists
<1> HIDE DEF next
<1>8. Is(g)
  <2>1. \A p \in 1 .. N : g[p] = next(g[p - 1], p)
    <3>1. \A p \in 1 .. N : g[p - 1] \in Results /\ g[p] = F[p][g[p - 1]]
      BY <1>1, <1>7 DEF IsRun
    <3> QED
      BY <3>1
  <2>2. g = [p \in 0 .. N |-> g[p]]
    BY <1>7 DEF IsRun
  <2>3. g[0] = start
    BY <1>7 DEF IsRun
  <2>4. \A p \in 0 .. N : g[p] = IF p = 0 THEN start ELSE next(g[p - 1], p)
    BY <1>1, <2>1, <2>3
  <2> QED
    BY <2>2, <2>4 DEF next
<1>9. Is(f)
  <2> HIDE DEF Is
  <2> QED
    BY <1>8, Zenon
<1>10. Replay(RowsAfter(i), positions) = f[N]
  BY DEF Replay, N, start
<1> HIDE DEF f, F
<1>11. f[0] = start /\ \A p \in 1 .. N : f[p] = next(f[p - 1], p)
  <2>1. f = [p \in 0 .. N |-> IF p = 0 THEN start ELSE next(f[p - 1], p)]
    BY <1>9 DEF next
  <2> HIDE DEF Is
  <2>2. \A p \in 0 .. N : f[p] = IF p = 0 THEN start ELSE next(f[p - 1], p)
    BY <2>1
  <2> QED
    BY <1>1, <2>2
<1> HIDE DEF Is
<1> DEFINE At(p) == IF p <= EndLsn(i) THEN i ELSE IF p >= EndLsn(j) THEN j ELSE p \div 2
           T == {p \in Nat : p <= N => f[p] = RowsAfter(At(p))}
<1>12. 0 \in T
  BY <1>2, <1>11, EndLsns DEF start
<1>13. ASSUME NEW p \in Nat, p \in T PROVE p + 1 \in T
  <2>1. SUFFICES ASSUME p + 1 <= N PROVE f[p + 1] = RowsAfter(At(p + 1))
    OBVIOUS
  <2>2. p + 1 \in 1 .. N /\ p + 1 - 1 = p /\ f[p] = RowsAfter(At(p))
    BY <1>1, <1>13, <2>1
  <2>3. f[p + 1] = next(f[p], p + 1)
    BY <1>11, <2>2
  <2>4. CASE p + 1 \in positions
    <3>1. PICK l \in i + 1 .. j : p + 1 = EndLsn(l) /\ commits[p + 1].commit.events = wal[l].events
      BY <1>5, <2>2, <2>4
    <3>2. l \in Nat /\ l - 1 \in Nat /\ l \in 1 .. Len(wal) /\ i + 1 <= l /\ l <= j
      BY <1>1, <1>2
    <3>3. At(p) = l - 1 /\ At(p + 1) = l
      BY <1>2, <3>1, <3>2 DEF EndLsn
    <3>4. RowsAfter(l - 1) \in Table /\ RowsAfter(l) = ApplyEvents(RowsAfter(l - 1), wal[l].events)
      BY <3>2, SourceTypes
    <3> HIDE DEF At
    <3> QED
      BY <2>2, <2>3, <2>4, <3>1, <3>3, <3>4, NoRowAssumption DEF next
  <2>5. CASE p + 1 \notin positions
    <3>1. f[p + 1] = f[p]
      BY <2>3, <2>5 DEF next
    <3>2. At(p + 1) = At(p)
      <4>1. \A l \in i + 1 .. j : p + 1 # EndLsn(l)
        BY <2>5
      <4>2. CASE p + 1 <= EndLsn(i)
        BY <1>2, <4>2, EndLsns
      <4>3. CASE p >= EndLsn(j)
        BY <1>2, <4>3, EndLsns
      <4>4. CASE EndLsn(i) < p + 1 /\ p < EndLsn(j)
        <5>1. \A l \in Nat : i + 1 <= l /\ l <= j => p + 1 # 2 * l
          BY <1>2, <4>1 DEF EndLsn
        <5>2. PICK l \in Nat : p = 2 * l \/ p = 2 * l + 1
          BY Halves
        <5>3. p = 2 * l
          <6>1. SUFFICES ASSUME p = 2 * l + 1 PROVE FALSE
            BY <5>2
          <6>2. l + 1 \in Nat /\ i + 1 <= l + 1 /\ l + 1 <= j /\ p + 1 = 2 * (l + 1)
            BY <1>2, <4>4, <6>1 DEF EndLsn
          <6> QED
            BY <5>1, <6>2
        <5> QED
          BY <1>2, <4>4, <5>3 DEF EndLsn
      <4> QED
        BY <1>2, <4>2, <4>3, <4>4, EndLsns
    <3> QED
      BY <2>2, <3>1, <3>2
  <2> QED
    BY <2>4, <2>5
<1> HIDE DEF T, At
<1>14. N \in T
  BY <1>1, <1>12, <1>13, Induction
<1>15. f[N] = RowsAfter(At(N))
  BY <1>1, <1>14 DEF T
<1>16. At(N) = j
  BY <1>1, <1>2 DEF At, EndLsn
<1> QED
  BY <1>10, <1>15, <1>16

\* What stands at a checkpoint's position.
LEMMA CheckpointTypes ==
  ASSUME SourceSound, CommitsSound, CheckpointsSound, NEW c \in DOMAIN checkpoints
  PROVE  /\ \E i \in 0 .. info.count : c = EndLsn(i)
         /\ c \in Nat /\ c <= info.head
         /\ checkpoints[c].rows \in Table
         /\ checkpoints[c].manifest.rows \in Table
         /\ \E i \in 0 .. info.count : ManifestOf(checkpoints[c].manifest, i, RowsAfter(i))
<1>1. /\ \E i \in 0 .. info.count : c = EndLsn(i)
      /\ checkpoints[c].rows \in Table
      /\ \E i \in 0 .. info.count : ManifestOf(checkpoints[c].manifest, i, RowsAfter(i))
  BY DEF CheckpointsSound, Artifact
<1>2. checkpoints[c].manifest.rows \in Table
  BY <1>1 DEF ManifestOf
<1>3. c \in Nat /\ c <= info.head
  <2>1. PICK i \in 0 .. info.count : c = EndLsn(i)
    BY <1>1
  <2>2. info.count \in Nat /\ info.head = EndLsn(info.count)
    BY CommitsTypes
  <2> QED
    BY <2>1, <2>2 DEF EndLsn
<1> QED
  BY <1>1, <1>2, <1>3

\* A checkpoint whose rows are its manifest's, made from the history that is
\* stored, holds the rows of its position: a foreign one names a history that only
\* the baseline has, and then its rows are the baseline's.
LEMMA UsedIsSource ==
  ASSUME SourceSound, CommitsSound, CheckpointsSound, NEW c \in DOMAIN checkpoints,
         ManifestHolds(c), RowsHold(c), PrefixHolds(c), Authoritative(c)
  PROVE  \E i \in 0 .. info.count : c = EndLsn(i) /\ checkpoints[c].rows = RowsAfter(i)
<1> DEFINE m == checkpoints[c].manifest
<1>1. m.position = c /\ checkpoints[c].rows = m.rows /\ m.history = HistorySum(c)
  BY DEF ManifestHolds, RowsHold, Authoritative
<1>2. PICK i \in 0 .. info.count :
        /\ m.position = EndLsn(i)
        /\ m.rows = RowsAfter(i) \/ m.history = <<m.rows, << >>>>
  <2>1. PICK i \in 0 .. info.count : ManifestOf(m, i, RowsAfter(i))
    BY CheckpointTypes
  <2> HIDE DEF m
  <2>2. /\ m = [position |-> EndLsn(i), rows |-> m.rows, count |-> m.count, history |-> m.history]
        /\ m.rows = RowsAfter(i) \/ m.history = <<m.rows, << >>>>
    BY <2>1 DEF ManifestOf
  <2>3. m.position = EndLsn(i)
    BY <2>2
  <2> QED
    BY <2>2, <2>3
<1> HIDE DEF m
<1>3. CASE m.rows = RowsAfter(i)
  BY <1>1, <1>2, <1>3
<1>4. CASE m.history = <<m.rows, << >>>>
  <2>1. m.rows = baseline.rows /\ [p \in Through(c) |-> commits[p].commit] = << >>
    BY <1>1, <1>4 DEF HistorySum
  <2>2. Through(c) = {}
    <3>1. DOMAIN [p \in Through(c) |-> commits[p].commit] = {}
      BY <2>1
    <3> QED
      BY <3>1
  <2>3. c \in Nat
    BY CheckpointTypes
  <2>4. AllStored /\ baseline.rows = base
    BY <2>3, PrefixIsWhole
  <2>5. {EndLsn(j) : j \in 1 .. i} = {}
    BY <1>1, <1>2, <2>2, <2>4, ThroughIs
  <2>6. i = 0
    <3>1. info.count \in Nat
      BY CommitsTypes
    <3>2. 1 \notin 1 .. i
      BY <2>5
    <3> QED
      BY <3>1, <3>2
  <2> QED
    BY <1>1, <1>2, <2>1, <2>4, <2>6, SourceTypes
<1> QED
  BY <1>2, <1>3, <1>4

\* What is rebuilt from the baseline is the source's state.
LEMMA RebuiltIs ==
  ASSUME SourceSound, CommitsSound, NEW p \in Nat, Rebuilt(p).kind = "state"
  PROVE  /\ PrefixHolds(p)
         /\ \E i \in 0 .. info.count : p = EndLsn(i) /\ Rebuilt(p).rows = RowsAfter(i)
<1> DEFINE rows == Replay(baseline.rows, Through(p))
<1>1. PrefixHolds(p) /\ rows \notin {Broken, TooLarge}
  BY DEF Rebuilt, Failed
<1>2. Rebuilt(p).rows = rows
  <2> HIDE DEF rows
  <2>1. Rebuilt(p) = [kind |-> "state", position |-> p, rows |-> rows]
    BY <1>1 DEF Rebuilt, rows
  <2> QED
    BY <2>1
<1>3. AllStored /\ baseline.rows = RowsAfter(0)
  BY <1>1, PrefixIsWhole, SourceTypes
<1>4. PICK i \in 0 .. info.count : p = EndLsn(i)
  BY <1>1, PrefixIsWhole
<1>5. Through(p) = {EndLsn(l) : l \in 0 + 1 .. i} /\ 0 \in 0 .. i
  BY <1>3, <1>4, ThroughIs, CommitsTypes
<1>6. rows = RowsAfter(i)
  BY <1>3, <1>4, <1>5, ReplayIs
<1> QED
  BY <1>1, <1>2, <1>4, <1>6

\* What a restoration looks at, and what it is.
Candidates(p) == {c \in DOMAIN checkpoints : c <= p}
Decided(p)    == {c \in Candidates(p) : Attempt(c) # "skip"}
Tried(p)      == {c \in Candidates(p) : \A d \in Decided(p) : d <= c}
Applied(p)    == Through(p) \ IF Decided(p) = {} THEN {} ELSE Through(Latest(Decided(p)))
Restoration(p) ==
  Replay(IF Decided(p) = {} THEN baseline.rows ELSE checkpoints[Latest(Decided(p))].rows,
         Applied(p))
LastCost(p) == IF Decided(p) = {} THEN PrefixSize(p) ELSE Cardinality(Applied(p))

Restorable(p) ==
  /\ Decided(p) # {} => Attempt(Latest(Decided(p))) = "use"
  /\ Cardinality(Tried(p)) <= MaxCandidates
  /\ Spent(Tried(p)) + LastCost(p) <= MaxWork
  /\ PrefixHolds(p)
  /\ Restoration(p) \notin {Broken, TooLarge}

\* A restoration is that state, or it fails.
LEMMA RestoredAs ==
  ASSUME NEW p
  PROVE  Restored(p) = IF Restorable(p)
                       THEN [kind |-> "state", position |-> p, rows |-> Restoration(p)]
                       ELSE Failed
BY DEF Restored, Restorable, Candidates, Decided, Tried, Applied, Restoration, LastCost

\* A state is not a failure.
LEMMA StateIsNotFailed ==
  ASSUME NEW p, NEW rows
  PROVE  [kind |-> "state", position |-> p, rows |-> rows] # Failed
<1>1. [kind |-> "state", position |-> p, rows |-> rows].kind = "state" /\ Failed.kind = "failed"
  BY DEF Failed
<1> QED
  BY <1>1

\* The candidate that decides is one of them, and no later one does.
LEMMA DecidedLatest ==
  ASSUME SourceSound, CommitsSound, CheckpointsSound, NEW p, Decided(p) # {}
  PROVE  /\ Latest(Decided(p)) \in Decided(p)
         /\ Latest(Decided(p)) \in DOMAIN checkpoints
         /\ Latest(Decided(p)) <= p
         /\ Attempt(Latest(Decided(p))) # "skip"
<1>1. Decided(p) \in SUBSET Nat /\ \A c \in Decided(p) : c <= info.head
  BY CheckpointTypes DEF Decided, Candidates
<1>2. info.head \in Nat
  BY CommitsTypes
<1>3. Latest(Decided(p)) \in Decided(p)
  BY <1>1, <1>2, LatestIs
<1> QED
  BY <1>3 DEF Decided, Candidates

\* The state a restoration starts from and the commits it applies lead to the
\* source's state.
LEMMA RestorationIs ==
  ASSUME SourceSound, CommitsSound, CheckpointsSound, NEW i \in 0 .. info.count,
         PrefixHolds(EndLsn(i)),
         Decided(EndLsn(i)) # {} => Attempt(Latest(Decided(EndLsn(i)))) = "use"
  PROVE  Restoration(EndLsn(i)) = RowsAfter(i)
<1> DEFINE p == EndLsn(i)
           chosen == Latest(Decided(p))
<1>1. info.count \in Nat /\ i \in Nat /\ p \in Nat
  BY CommitsTypes, EndLsns
<1>2. AllStored /\ baseline.rows = RowsAfter(0)
  BY <1>1, PrefixIsWhole, SourceTypes
<1>3. Through(p) = {EndLsn(l) : l \in 1 .. i}
  BY <1>2, ThroughIs
<1>4. CASE Decided(p) = {}
  <2>1. Applied(p) = {EndLsn(l) : l \in 0 + 1 .. i} /\ 0 \in 0 .. i
    BY <1>1, <1>3, <1>4 DEF Applied
  <2>2. Replay(RowsAfter(0), Applied(p)) = RowsAfter(i)
    BY <1>2, <2>1, ReplayIs
  <2> QED
    BY <1>2, <1>4, <2>2 DEF Restoration
<1>5. CASE Decided(p) # {}
  <2>1. chosen \in DOMAIN checkpoints /\ chosen <= p
    BY <1>5, DecidedLatest
  <2>2. ManifestHolds(chosen) /\ RowsHold(chosen) /\ PrefixHolds(chosen) /\ Authoritative(chosen)
    BY <1>5 DEF Attempt
  <2>3. PICK m \in 0 .. info.count : chosen = EndLsn(m) /\ checkpoints[chosen].rows = RowsAfter(m)
    BY <2>1, <2>2, UsedIsSource
  <2>4. m \in 0 .. i
    BY <1>1, <2>1, <2>3, EndLsns
  <2>5. Through(chosen) = {EndLsn(l) : l \in 1 .. m}
    BY <1>2, <2>3, ThroughIs
  <2> HIDE DEF p, chosen
  <2>6. Applied(p) = {EndLsn(l) : l \in 1 .. i} \ {EndLsn(l) : l \in 1 .. m}
    BY <1>3, <1>5, <2>5 DEF Applied, chosen
  <2>7. Applied(p) = {EndLsn(l) : l \in m + 1 .. i}
    <3>1. \A l \in 1 .. i : l \in m + 1 .. i \/ l \in 1 .. m
      BY <1>1, <2>4
    <3>2. \A l \in m + 1 .. i : l \in 1 .. i /\ \A k \in 1 .. m : EndLsn(k) # EndLsn(l)
      BY <1>1, <2>4, EndLsns
    <3> QED
      BY <2>6, <3>1, <3>2
  <2>8. Replay(RowsAfter(m), Applied(p)) = RowsAfter(i)
    BY <1>2, <2>4, <2>7, ReplayIs
  <2> QED
    BY <1>5, <2>3, <2>8 DEF Restoration, p, chosen
<1> QED
  BY <1>4, <1>5

\* What is restored is the source's state, at a position that is recorded.
LEMMA RestoredIs ==
  ASSUME SourceSound, CommitsSound, CheckpointsSound, NEW i \in Nat,
         Restored(EndLsn(i)) # Failed
  PROVE  /\ i \in 0 .. info.count
         /\ Restored(EndLsn(i)) = [kind |-> "state", position |-> EndLsn(i), rows |-> RowsAfter(i)]
<1>1. Restorable(EndLsn(i))
  BY RestoredAs
<1>2. PICK j \in 0 .. info.count : EndLsn(i) = EndLsn(j)
  BY <1>1, PrefixIsWhole, EndLsns DEF Restorable
<1>3. i = j
  BY <1>2, CommitsTypes, EndLsns
<1>4. Restoration(EndLsn(i)) = RowsAfter(i)
  BY <1>1, <1>3, RestorationIs DEF Restorable
<1> QED
  BY <1>1, <1>3, <1>4, RestoredAs

--------------------------------------------------------------------------
(* What must be restored.                                                  *)

\* The last of some positions is the one that no other follows.
LEMMA LatestOnly ==
  ASSUME NEW S \in SUBSET Nat, NEW m \in S, \A q \in S : q <= m
  PROVE  Latest(S) = m
<1>1. Latest(S) \in S /\ \A q \in S : q <= Latest(S)
  BY DEF Latest
<1>2. Latest(S) <= m /\ m <= Latest(S) /\ m \in Nat
  BY <1>1
<1>3. Latest(S) \in Nat
  BY <1>1
<1> QED
  BY <1>2, <1>3

\* While nothing of the history was damaged, every prefix holds.
LEMMA WholeIsHeld ==
  ASSUME SourceSound, CommitsSound, WholeUnlessHarmed, ~harmed, NEW i \in 0 .. info.count
  PROVE  PrefixHolds(EndLsn(i))
<1> DEFINE p == EndLsn(i)
<1>1. info.count \in Nat /\ i \in Nat /\ info.head = EndLsn(info.count)
  BY CommitsTypes
<1>2. \A j \in 1 .. info.count : EndLsn(j) \in DOMAIN commits /\ commits[EndLsn(j)].ok
  BY DEF WholeUnlessHarmed
<1>3. AllStored
  BY <1>2 DEF AllStored, CommitsSound
<1>4. Cardinality(DOMAIN commits) = info.count
  BY <1>1, <1>3, PositionsCounted DEF AllStored
<1>5. BaselineHolds
  <2>1. baseline = [rows |-> base, bad |-> {}]
    BY DEF WholeUnlessHarmed
  <2> QED
    BY <2>1, CommitsTypes DEF BaselineHolds
<1>6. Through(p) = {EndLsn(j) : j \in 1 .. i}
  BY <1>3, ThroughIs
<1>7. ASSUME NEW q \in Through(p)
      PROVE  /\ commits[q].ok
             /\ commits[q].commit.previous = Latest({0} \union {r \in Through(p) : r < q})
  <2>1. PICK j \in 1 .. i : q = EndLsn(j)
    BY <1>6
  <2>2. j \in 1 .. info.count /\ j - 1 \in Nat /\ j \in Nat
    BY <1>1
  <2>3. commits[q].ok /\ commits[q].commit.previous = EndLsn(j - 1)
    <3>1. EndLsn(j) \in DOMAIN commits /\ commits[EndLsn(j)].ok
      BY <1>2, <2>2
    <3>2. commits[EndLsn(j)].commit = Recorded(j)
      BY <2>2, <3>1, CommitsTypes
    <3>3. Recorded(j).previous = EndLsn(j - 1)
      BY DEF Recorded
    <3> QED
      BY <2>1, <3>1, <3>2, <3>3
  <2> DEFINE S == {0} \union {r \in Through(p) : r < q}
  <2>4. S \in SUBSET Nat
    BY <1>1, <1>6, EndLsns
  <2>5. EndLsn(j - 1) \in S
    <3>1. CASE j = 1
      BY <3>1 DEF EndLsn
    <3>2. CASE j # 1
      <4>1. j - 1 \in 1 .. i /\ EndLsn(j - 1) < q
        BY <1>1, <2>1, <2>2, <3>2 DEF EndLsn
      <4>2. EndLsn(j - 1) \in Through(p)
        BY <1>6, <4>1
      <4> QED
        BY <4>1, <4>2
    <3> QED
      BY <3>1, <3>2
  <2>6. \A r \in S : r <= EndLsn(j - 1)
    <3> SUFFICES ASSUME NEW k \in 1 .. i, EndLsn(k) < q PROVE EndLsn(k) <= EndLsn(j - 1)
      BY <1>6, <2>2, EndLsns DEF EndLsn
    <3> QED
      BY <1>1, <2>1, <2>2 DEF EndLsn
  <2> HIDE DEF S
  <2>7. Latest(S) = EndLsn(j - 1)
    BY <2>4, <2>5, <2>6, LatestOnly
  <2> QED
    BY <2>3, <2>7 DEF S
<1>8. Latest({0} \union Through(p)) = p
  <2>1. {0} \union Through(p) \in SUBSET Nat
    BY <1>1, <1>6, EndLsns
  <2>2. p \in {0} \union Through(p)
    BY <1>1, <1>6 DEF EndLsn
  <2>3. \A q \in {0} \union Through(p) : q <= p
    BY <1>1, EndLsns DEF Through
  <2> QED
    BY <2>1, <2>2, <2>3, LatestOnly
<1>9. p = info.head => Cardinality(Through(p)) = info.count
  BY <1>1, <1>6, EndLsns, PositionsCounted
<1> QED
  BY <1>4, <1>5, <1>7, <1>8, <1>9 DEF PrefixHolds

UpTo(S, p) == {c \in S : c <= p}

\* The numbers of a set up to one more number.
LEMMA UpToNext ==
  ASSUME NEW S \in SUBSET Nat
  PROVE  /\ \A p \in Nat : IsFiniteSet(UpTo(S, p)) /\ Cardinality(UpTo(S, p)) \in Nat
         /\ 0 \in S => UpTo(S, 0) = {0}
         /\ \A p \in Nat : p + 1 \in S =>
              UpTo(S, p + 1) = UpTo(S, p) \union {p + 1} /\ p + 1 \notin UpTo(S, p)
         /\ \A p \in Nat : p + 1 \notin S => UpTo(S, p + 1) = UpTo(S, p)
<1>1. ASSUME NEW p \in Nat
      PROVE  IsFiniteSet(UpTo(S, p)) /\ Cardinality(UpTo(S, p)) \in Nat
  <2>1. UpTo(S, p) \in SUBSET Nat /\ \A c \in UpTo(S, p) : c <= p
    BY DEF UpTo
  <2> QED
    BY <2>1, FS_BoundedSetOfNaturals, FS_CardinalityType
<1>2. ASSUME 0 \in S PROVE UpTo(S, 0) = {0}
  <2>1. \A c \in UpTo(S, 0) : c = 0
    <3> SUFFICES ASSUME NEW c \in S, c <= 0 PROVE c = 0
      BY DEF UpTo
    <3>1. c \in Nat
      OBVIOUS
    <3> QED
      BY <3>1
  <2>2. 0 \in UpTo(S, 0)
    BY <1>2 DEF UpTo
  <2> QED
    BY <2>1, <2>2
<1>3. ASSUME NEW p \in Nat, p + 1 \in S
      PROVE  UpTo(S, p + 1) = UpTo(S, p) \union {p + 1} /\ p + 1 \notin UpTo(S, p)
  <2>1. \A c \in S : c <= p + 1 <=> c <= p \/ c = p + 1
    OBVIOUS
  <2>2. \A c : c \in UpTo(S, p + 1) <=> c \in UpTo(S, p) \/ c = p + 1
    BY <1>3, <2>1 DEF UpTo
  <2>3. ~(p + 1 <= p)
    OBVIOUS
  <2> QED
    BY <2>2, <2>3 DEF UpTo
<1>4. ASSUME NEW p \in Nat, p + 1 \notin S PROVE UpTo(S, p + 1) = UpTo(S, p)
  <2>1. \A c \in S : c <= p + 1 <=> c <= p
    BY <1>4
  <2> QED
    BY <2>1 DEF UpTo
<1> QED
  BY <1>1, <1>2, <1>3, <1>4

\* What some tries cost, when none costs more than a given amount.
LEMMA SpentWithin ==
  ASSUME info.head \in Nat, NEW tried \in SUBSET (0 .. info.head), NEW s \in Nat,
         \A c \in tried : AttemptCost(c) \in Nat /\ AttemptCost(c) <= s
  PROVE  Spent(tried) \in Nat /\ Spent(tried) <= Cardinality(tried) * s
<1> DEFINE N == info.head
           cost(p) == IF p \in tried THEN AttemptCost(p) ELSE 0
           first == 0 + cost(0)
           F == [p \in 1 .. N |-> [v \in Nat |-> v + cost(p)]]
           Is(g) == g = [p \in 0 .. N |->
                          (IF p = 0 THEN 0 ELSE g[p - 1]) + (IF p \in tried THEN AttemptCost(p) ELSE 0)]
           f == CHOOSE g : Is(g)
<1>1. /\ N \in Nat /\ \A c \in tried : c \in Nat /\ c <= N
      /\ \A p \in 0 .. N : cost(p) \in Nat /\ cost(p) <= s
  OBVIOUS
<1>2. \A p : cost(p) = IF p \in tried THEN AttemptCost(p) ELSE 0
  OBVIOUS
<1> HIDE DEF N, cost
<1>3. PICK g : IsRun(g, F, Nat, first, N)
  <2>1. StepsWithin(F, Nat, N)
    BY <1>1 DEF StepsWithin
  <2>2. first \in Nat
    BY <1>1
  <2> HIDE DEF F, first
  <2> QED
    BY <1>1, <2>1, <2>2, RunExists
<1>4. Is(g)
  <2>1. \A p \in 1 .. N : g[p] = g[p - 1] + cost(p)
    <3>1. /\ g \in [0 .. N -> Nat]
          /\ \A p \in 1 .. N : g[p] = F[p][g[p - 1]]
      <4> HIDE DEF F
      <4> QED
        BY <1>3 DEF IsRun
    <3>2. \A p \in 1 .. N : g[p - 1] \in Nat
      BY <1>1, <3>1
    <3> QED
      BY <3>1, <3>2
  <2>2. g = [p \in 0 .. N |-> g[p]]
    BY <1>3 DEF IsRun
  <2>3. g[0] = first
    BY <1>3 DEF IsRun
  <2>4. \A p \in 0 .. N : g[p] = (IF p = 0 THEN 0 ELSE g[p - 1]) + cost(p)
    BY <1>1, <2>1, <2>3
  <2> QED
    BY <2>2, <2>4 DEF cost
<1>5. Is(f)
  <2> HIDE DEF Is
  <2> QED
    BY <1>4, Zenon
<1>6. Spent(tried) = f[N]
  BY DEF Spent, N
<1> HIDE DEF f, F
<1>7. f[0] = cost(0) /\ \A p \in 1 .. N : f[p] = f[p - 1] + cost(p)
  <2>1. f = [p \in 0 .. N |-> (IF p = 0 THEN 0 ELSE f[p - 1]) + cost(p)]
    BY <1>5 DEF cost
  <2> HIDE DEF Is
  <2>2. \A p \in 0 .. N : f[p] = (IF p = 0 THEN 0 ELSE f[p - 1]) + cost(p)
    BY <2>1
  <2> QED
    BY <1>1, <2>2
<1> HIDE DEF Is
<1> DEFINE upto(p) == UpTo(tried, p)
           T == {p \in Nat : p <= N => f[p] \in Nat /\ f[p] <= Cardinality(upto(p)) * s}
<1>8. tried \in SUBSET Nat
  BY <1>1
<1>9. \A p \in Nat : IsFiniteSet(upto(p)) /\ Cardinality(upto(p)) \in Nat
  BY <1>8, UpToNext
<1>10. \A n \in Nat : (n + 1) * s = n * s + s /\ n * s \in Nat
  OBVIOUS
<1>11. 0 \in T
  <2>1. CASE 0 \in tried
    <3>1. upto(0) = {0}
      BY <1>8, <2>1, UpToNext
    <3>2. Cardinality(upto(0)) = 1
      BY <3>1, FS_Singleton
    <3> HIDE DEF upto
    <3> QED
      BY <1>1, <1>7, <3>2
  <2>2. CASE 0 \notin tried
    <3>1. f[0] = 0
      BY <1>7, <2>2 DEF cost
    <3>2. Cardinality(upto(0)) \in Nat
      BY <1>9
    <3> HIDE DEF upto
    <3>3. Cardinality(upto(0)) * s \in Nat
      BY <1>10, <3>2
    <3> QED
      BY <3>1, <3>3
  <2> QED
    BY <2>1, <2>2
<1>12. ASSUME NEW p \in Nat, p \in T PROVE p + 1 \in T
  <2>1. SUFFICES ASSUME p + 1 <= N
                 PROVE  f[p + 1] \in Nat /\ f[p + 1] <= Cardinality(upto(p + 1)) * s
    OBVIOUS
  <2>2. /\ p + 1 \in 1 .. N /\ p + 1 - 1 = p /\ p + 1 \in 0 .. N
        /\ f[p] \in Nat /\ f[p] <= Cardinality(upto(p)) * s
    BY <1>1, <1>12, <2>1
  <2>3. f[p + 1] = f[p] + cost(p + 1)
    BY <1>7, <2>2
  <2>4. CASE p + 1 \in tried
    <3>1. upto(p + 1) = upto(p) \union {p + 1} /\ p + 1 \notin upto(p)
      BY <1>8, <2>4, UpToNext
    <3>2. Cardinality(upto(p + 1)) = Cardinality(upto(p)) + 1
      BY <1>9, <3>1, FS_AddElement
    <3>3. Cardinality(upto(p)) \in Nat
      BY <1>9
    <3> HIDE DEF upto
    <3>4. Cardinality(upto(p + 1)) * s = Cardinality(upto(p)) * s + s
      BY <1>10, <3>2, <3>3
    <3>5. cost(p + 1) \in Nat /\ cost(p + 1) <= s
      BY <1>1, <2>2
    <3> QED
      BY <1>10, <2>2, <2>3, <3>3, <3>4, <3>5
  <2>5. CASE p + 1 \notin tried
    <3>1. upto(p + 1) = upto(p)
      BY <1>8, <2>5, UpToNext
    <3>2. cost(p + 1) = 0
      BY <2>5 DEF cost
    <3> HIDE DEF upto
    <3> QED
      BY <2>2, <2>3, <3>1, <3>2
  <2> QED
    BY <2>4, <2>5
<1> HIDE DEF T
<1>13. N \in T
  BY <1>1, <1>11, <1>12, Induction
<1>14. upto(N) = tried
  BY <1>1 DEF UpTo
<1> QED
  BY <1>1, <1>6, <1>13, <1>14 DEF T

\* The sizes that the budget counts.
LEMMA Sizes ==
  ASSUME SourceSound, CommitsSound, CheckpointsSound
  PROVE  /\ IsFiniteSet(DOMAIN checkpoints) /\ Cardinality(DOMAIN checkpoints) \in Nat
         /\ DOMAIN checkpoints \subseteq 0 .. info.head
         /\ Cardinality(Keys) \in Nat
         /\ \A p : PrefixSize(p) \in Nat /\ IsFiniteSet(Through(p)) /\ Cardinality(Through(p)) \in Nat
         /\ \A p, q \in Nat : p <= q => PrefixSize(p) <= PrefixSize(q)
         /\ \A c \in DOMAIN checkpoints :
              /\ AttemptCost(c) \in Nat
              /\ AttemptCost(c) <= PrefixSize(c) + Cardinality(Keys)
<1>1. info.head \in Nat
  BY CommitsTypes
<1>2. DOMAIN checkpoints \subseteq 0 .. info.head
  BY <1>1, CheckpointTypes
<1>3. IsFiniteSet(DOMAIN checkpoints) /\ Cardinality(DOMAIN checkpoints) \in Nat
  <2>1. IsFiniteSet(0 .. info.head)
    BY <1>1, FS_Interval
  <2> QED
    BY <1>2, <2>1, FS_Subset, FS_CardinalityType
<1>4. Cardinality(Keys) \in Nat
  BY KeysAssumption, FS_CardinalityType
<1>5. ASSUME NEW p PROVE IsFiniteSet(Through(p)) /\ Cardinality(Through(p)) \in Nat
  <2>1. Through(p) \in SUBSET (1 .. info.head)
    BY CommitsTypes DEF Through
  <2>2. IsFiniteSet(1 .. info.head)
    BY <1>1, FS_Interval
  <2> QED
    BY <2>1, <2>2, FS_Subset, FS_CardinalityType
<1>6. Cardinality(Present(baseline.rows)) \in Nat
  BY CommitsTypes, PresentFinite
<1>7. \A p : PrefixSize(p) \in Nat
  BY <1>5, <1>6 DEF PrefixSize
<1>8. ASSUME NEW p \in Nat, NEW q \in Nat, p <= q PROVE PrefixSize(p) <= PrefixSize(q)
  <2>1. Through(p) \in SUBSET Through(q)
    BY <1>1, <1>8, CommitsTypes DEF Through
  <2>2. Cardinality(Through(p)) <= Cardinality(Through(q))
    BY <1>5, <2>1, FS_Subset
  <2> QED
    BY <1>5, <1>6, <2>2 DEF PrefixSize
<1>9. ASSUME NEW c \in DOMAIN checkpoints
      PROVE  AttemptCost(c) \in Nat /\ AttemptCost(c) <= PrefixSize(c) + Cardinality(Keys)
  <2>1. Scanned(c) \in SUBSET Keys
    BY DEF Scanned, Present
  <2>2. Cardinality(Scanned(c)) \in Nat /\ Cardinality(Scanned(c)) <= Cardinality(Keys)
    BY <2>1, KeysAssumption, FS_Subset, FS_CardinalityType
  <2>3. PrefixSize(c) \in Nat
    BY <1>7
  <2> QED
    BY <1>4, <2>2, <2>3 DEF AttemptCost
<1> QED
  BY <1>2, <1>3, <1>4, <1>5, <1>7, <1>8, <1>9

\* What is whole is restored, when the budget covers every try.
LEMMA NeverHindered ==
  ASSUME SourceSound, CommitsSound, CheckpointsSound, WholeUnlessHarmed
  PROVE  CheckpointsNeverHinder
<1> SUFFICES ASSUME ~harmed, NEW p \in {0} \union DOMAIN commits, AmpleFor(p)
             PROVE  Restored(p) # Failed
  BY DEF CheckpointsNeverHinder
<1>1. info.count \in Nat
  BY CommitsTypes
<1>2. PICK i \in 0 .. info.count : p = EndLsn(i)
  <2>1. p = 0 \/ \E i \in 1 .. info.count : p = EndLsn(i)
    BY DEF CommitsSound
  <2> QED
    BY <1>1, <2>1, EndLsns
<1>3. p \in Nat
  BY <1>1, <1>2, EndLsns
<1>4. PrefixHolds(p)
  BY <1>2, WholeIsHeld
<1>5. \A c \in DOMAIN checkpoints : Attempt(c) # "skip" => Attempt(c) = "use"
  <2> TAKE c \in DOMAIN checkpoints
  <2>1. PrefixHolds(c)
    BY CheckpointTypes, WholeIsHeld
  <2> QED
    BY <2>1 DEF Attempt
<1>6. Decided(p) # {} => Attempt(Latest(Decided(p))) = "use"
  BY <1>5, DecidedLatest
<1>7. Restoration(p) \notin {Broken, TooLarge}
  <2>1. Restoration(p) = RowsAfter(i)
    BY <1>2, <1>4, <1>6, RestorationIs
  <2>2. RowsAfter(i) \in Table
    BY <1>1, CommitsTypes, SourceTypes DEF SourceSound
  <2> QED
    BY <2>1, <2>2, NoRowAssumption
<1> DEFINE size == PrefixSize(p) + Cardinality(Keys)
           many == Cardinality(DOMAIN checkpoints)
           tries == Cardinality(Tried(p))
<1>8. size \in Nat /\ many \in Nat /\ (many + 1) * size <= MaxWork /\ many <= MaxCandidates
  BY Sizes DEF AmpleFor
<1>9. Tried(p) \in SUBSET DOMAIN checkpoints
  BY DEF Tried, Candidates
<1>10. tries \in Nat /\ tries <= many
  BY <1>9, Sizes, FS_Subset, FS_CardinalityType
<1>11. \A c \in Tried(p) : AttemptCost(c) \in Nat /\ AttemptCost(c) <= size
  <2> TAKE c \in Tried(p)
  <2>1. c \in DOMAIN checkpoints /\ c <= p /\ c \in Nat
    BY <1>9, CheckpointTypes DEF Tried, Candidates
  <2>2. PrefixSize(c) <= PrefixSize(p) /\ PrefixSize(c) \in Nat /\ PrefixSize(p) \in Nat
    BY <1>3, <2>1, Sizes
  <2> QED
    BY <2>1, <2>2, Sizes
<1>12. Spent(Tried(p)) \in Nat /\ Spent(Tried(p)) <= tries * size
  <2>1. Tried(p) \in SUBSET (0 .. info.head) /\ info.head \in Nat
    BY <1>9, Sizes, CommitsTypes
  <2> HIDE DEF size
  <2> QED
    BY <1>8, <1>11, <2>1, SpentWithin
<1>13. LastCost(p) \in Nat /\ LastCost(p) <= size
  <2>1. Applied(p) \in SUBSET Through(p)
    BY DEF Applied
  <2>2. Cardinality(Applied(p)) \in Nat /\ Cardinality(Applied(p)) <= Cardinality(Through(p))
    BY <2>1, Sizes, FS_Subset, FS_CardinalityType
  <2>3. Cardinality(Through(p)) <= PrefixSize(p)
    <3>1. Cardinality(Present(baseline.rows)) \in Nat
      BY CommitsTypes, PresentFinite
    <3>2. Cardinality(Through(p)) \in Nat
      BY Sizes
    <3> QED
      BY <3>1, <3>2 DEF PrefixSize
  <2> QED
    BY <2>2, <2>3, Sizes DEF LastCost
<1> HIDE DEF size, many, tries
<1>14. tries * size <= many * size /\ (many + 1) * size = many * size + size
       /\ tries * size \in Nat /\ many * size \in Nat
  BY <1>8, <1>10
<1>15. Spent(Tried(p)) + LastCost(p) <= MaxWork
  BY <1>8, <1>12, <1>13, <1>14, WorkAssumption
<1>16. Cardinality(Tried(p)) <= MaxCandidates
  BY <1>8, <1>10, WorkAssumption DEF tries
<1>17. Restorable(p)
  BY <1>4, <1>6, <1>7, <1>15, <1>16 DEF Restorable
<1> QED
  BY <1>17, RestoredAs, StateIsNotFailed

--------------------------------------------------------------------------
(* Pages.                                                                  *)

\* Keys do not grow beyond all bounds.
LEMMA KeysBounded == \E N \in Nat : \A k \in Keys : k <= N
<1> DEFINE n == Cardinality(Keys)
<1>1. n \in Nat /\ ExistsBijection(1 .. n, Keys)
  BY KeysAssumption, FS_CardinalityType
<1>2. PICK f : f \in [1 .. n -> Keys] /\ \A k \in Keys : \E i \in 1 .. n : f[i] = k
  BY <1>1 DEF ExistsBijection, Bijection, Surjection, Injection
<1> HIDE DEF n
<1> DEFINE T == {m \in Nat : m <= n => \E N \in Nat : \A i \in 1 .. m : f[i] <= N}
<1>3. 0 \in T
  BY <1>1
<1>4. ASSUME NEW m \in Nat, m \in T PROVE m + 1 \in T
  <2>1. SUFFICES ASSUME m + 1 <= n PROVE \E N \in Nat : \A i \in 1 .. m + 1 : f[i] <= N
    OBVIOUS
  <2>2. PICK N \in Nat : \A i \in 1 .. m : f[i] <= N
    BY <1>1, <1>4, <2>1
  <2>3. \A i \in 1 .. m + 1 : f[i] \in Nat
    <3>1. \A i \in 1 .. m + 1 : f[i] \in Keys
      BY <1>1, <1>2, <2>1
    <3> QED
      BY <3>1, KeysAssumption
  <2> DEFINE M == N + f[m + 1]
  <2>4. f[m + 1] \in Nat /\ M \in Nat
    BY <2>3
  <2>5. ASSUME NEW i \in 1 .. m + 1 PROVE f[i] <= M
    <3>1. CASE i = m + 1
      BY <2>4, <3>1
    <3>2. CASE i \in 1 .. m
      <4>1. f[i] <= N /\ f[i] \in Nat
        BY <2>2, <2>3, <3>2
      <4> QED
        BY <2>4, <4>1
    <3> QED
      BY <3>1, <3>2
  <2> HIDE DEF M
  <2> QED
    BY <2>4, <2>5
<1> HIDE DEF T
<1>5. n \in T
  BY <1>1, <1>3, <1>4, Induction
<1>6. PICK N \in Nat : \A i \in 1 .. n : f[i] <= N
  BY <1>1, <1>5 DEF T
<1> QED
  BY <1>2, <1>6

\* In their order, the i-th key has i keys up to it.
LEMMA KeyOrderIs ==
  ASSUME NEW S \in SUBSET Keys
  PROVE  \A i \in 1 .. Cardinality(S) :
           /\ InKeyOrder(S)[i] \in S
           /\ Cardinality(UpTo(S, InKeyOrder(S)[i])) = i
<1>1. S \in SUBSET Nat
  BY KeysAssumption
<1> DEFINE Reached(p) == \A i \in 1 .. Cardinality(UpTo(S, p)) :
                            \E k \in S : Cardinality(UpTo(S, k)) = i
           T == {p \in Nat : Reached(p)}
<1>2. 0 \in T
  <2>1. UpTo(S, 0) = {}
    <3>1. \A k \in S : k \in Nat /\ k # 0
      BY KeysAssumption
    <3>2. \A k \in S : ~(k <= 0)
      BY <3>1
    <3> QED
      BY <3>2 DEF UpTo
  <2> QED
    BY <2>1, FS_EmptySet
<1>3. ASSUME NEW p \in Nat, p \in T PROVE p + 1 \in T
  <2> DEFINE n == Cardinality(UpTo(S, p))
  <2>1. n \in Nat /\ IsFiniteSet(UpTo(S, p)) /\ Reached(p)
    BY <1>1, <1>3, UpToNext
  <2>2. CASE p + 1 \in S
    <3>1. UpTo(S, p + 1) = UpTo(S, p) \union {p + 1} /\ p + 1 \notin UpTo(S, p)
      BY <1>1, <2>2, UpToNext
    <3>2. Cardinality(UpTo(S, p + 1)) = n + 1
      BY <2>1, <3>1, FS_AddElement
    <3>3. ASSUME NEW i \in 1 .. n + 1 PROVE \E k \in S : Cardinality(UpTo(S, k)) = i
      <4>1. CASE i = n + 1
        BY <2>2, <3>2, <4>1
      <4>2. CASE i \in 1 .. n
        BY <2>1, <4>2
      <4> HIDE DEF n
      <4> QED
        BY <2>1, <4>1, <4>2
    <3> HIDE DEF n
    <3> QED
      BY <3>2, <3>3
  <2>3. CASE p + 1 \notin S
    <3>1. UpTo(S, p + 1) = UpTo(S, p)
      BY <1>1, <2>3, UpToNext
    <3> QED
      BY <2>1, <3>1
  <2> QED
    BY <2>2, <2>3
<1> HIDE DEF T
<1>4. PICK N \in Nat : \A k \in Keys : k <= N
  BY KeysBounded
<1>5. N \in T
  BY <1>2, <1>3, Induction
<1>6. UpTo(S, N) = S
  BY <1>1, <1>4 DEF UpTo
<1>7. \A i \in 1 .. Cardinality(S) : \E k \in S : Cardinality(UpTo(S, k)) = i
  BY <1>5, <1>6 DEF T
<1>8. \A i \in 1 .. Cardinality(S) :
        InKeyOrder(S)[i] = CHOOSE k \in S : Cardinality(UpTo(S, k)) = i
  BY DEF InKeyOrder, UpTo
<1> QED
  BY <1>7, <1>8

\* An artifact that is shown holds the rows of its position.
LEMMA ShownIsSource ==
  ASSUME SourceSound, CommitsSound, CheckpointsSound, VerifiedSound,
         NEW c \in DOMAIN checkpoints, ManifestHolds(c), IsVerified(c) \/ Verifies(c)
  PROVE  checkpoints[c].rows = RowsAfter(c \div 2)
<1>1. CASE IsVerified(c)
  BY <1>1 DEF IsVerified, VerifiedSound
<1>2. CASE Verifies(c)
  <2>1. RowsHold(c) /\ PrefixHolds(c) /\ Authoritative(c)
    BY <1>2 DEF Verifies
  <2>2. PICK i \in 0 .. info.count : c = EndLsn(i) /\ checkpoints[c].rows = RowsAfter(i)
    BY <2>1, UsedIsSource
  <2>3. i \in Nat
    BY CommitsTypes
  <2> QED
    BY <2>2, <2>3, EndLsns
<1> QED
  BY <1>1, <1>2

\* A page shows the next of some rows, in their order, and says whether there
\* are more.
Shows(page, rows, cursor) ==
  LET left == {k \in Present(rows) : k > cursor} IN
  /\ Len(page.items) = IF Cardinality(left) < PageRows THEN Cardinality(left) ELSE PageRows
  /\ \A i \in DOMAIN page.items :
       /\ page.items[i].key \in left
       /\ Cardinality({k \in left : k < page.items[i].key}) = i - 1
       /\ page.items[i].value = rows[page.items[i].key]
  /\ page.next = IF Cardinality(left) > PageRows
                 THEN page.items[PageRows].key ELSE NoCursor

\* A page that is read shows the rows of the artifact.
LEMMA PageIs ==
  ASSUME SourceSound, CommitsSound, CheckpointsSound,
         NEW c \in DOMAIN checkpoints, NEW cursor, Page(c, cursor) # Failed
  PROVE  Shows(Page(c, cursor), checkpoints[c].rows, cursor)
<1> DEFINE rows == checkpoints[c].rows
           left == {k \in Present(rows) : k > cursor}
           order == InKeyOrder(left)
           n == Cardinality(left)
           size == IF n < PageRows THEN n ELSE PageRows
           items == [i \in 1 .. size |-> [key |-> order[i], value |-> rows[order[i]]]]
           page == Page(c, cursor)
<1>1. /\ page.items = items
      /\ page.next = IF n > PageRows THEN order[PageRows] ELSE NoCursor
  <2> HIDE DEF order, n
  <2>1. page = [kind |-> "page", position |-> c, cursor |-> cursor, items |-> items,
                next |-> IF n > PageRows THEN order[PageRows] ELSE NoCursor]
    BY DEF Page, order, n
  <2> HIDE DEF page, items
  <2> QED
    BY <2>1
<1>2. left \in SUBSET Keys
  BY DEF Present
<1> HIDE DEF left, page
<1>3. n \in Nat /\ PageRows \in Nat \ {0}
  BY <1>2, KeysAssumption, FS_Subset, FS_CardinalityType, WorkAssumption
<1>4. \A i \in 1 .. n : order[i] \in left /\ Cardinality(UpTo(left, order[i])) = i
  BY <1>2, KeyOrderIs
<1> HIDE DEF order, n
<1>5. size \in Nat /\ size <= n
  BY <1>3
<1> HIDE DEF size
<1>6. DOMAIN items = 1 .. size /\ Len(items) = size
  <2>1. items \in Seq(Range(items))
    BY <1>5 DEF Range
  <2>2. DOMAIN items = 1 .. size
    OBVIOUS
  <2> HIDE DEF items
  <2> QED
    BY <1>5, <2>1, <2>2
<1>7. ASSUME NEW i \in 1 .. size
      PROVE  /\ items[i].key \in left
             /\ Cardinality({k \in left : k < items[i].key}) = i - 1
             /\ items[i].value = rows[items[i].key]
  <2>1. items[i].key = order[i] /\ items[i].value = rows[order[i]]
    OBVIOUS
  <2> HIDE DEF items
  <2>2. order[i] \in left /\ Cardinality(UpTo(left, order[i])) = i
    BY <1>3, <1>4, <1>5
  <2> DEFINE before == {k \in left : k < order[i]}
  <2>3. before = UpTo(left, order[i]) \ {order[i]} /\ order[i] \in UpTo(left, order[i])
    <3>1. order[i] \in Nat /\ \A k \in left : k \in Nat
      BY <1>2, <2>2, KeysAssumption
    <3>2. \A k \in left : k < order[i] <=> k <= order[i] /\ k # order[i]
      BY <3>1
    <3>3. order[i] <= order[i]
      BY <3>1
    <3> QED
      BY <2>2, <3>2, <3>3 DEF UpTo
  <2>4. IsFiniteSet(UpTo(left, order[i]))
    <3>1. left \in SUBSET Nat /\ order[i] \in Nat
      BY <1>2, <2>2, KeysAssumption
    <3> QED
      BY <3>1, UpToNext
  <2>5. Cardinality(before) = i - 1
    BY <2>2, <2>3, <2>4, FS_RemoveElement
  <2> QED
    BY <2>1, <2>2, <2>5
<1>8. n > PageRows => items[PageRows].key = order[PageRows]
  BY <1>3 DEF size
<1> HIDE DEF items
<1> QED
  BY <1>1, <1>6, <1>7, <1>8 DEF left, page, size, n, Shows

\* Pages show the source's rows.
LEMMA PagesShowSource ==
  ASSUME SourceSound, CommitsSound, CheckpointsSound, VerifiedSound
  PROVE  PagesAreSource
<1> SUFFICES ASSUME NEW c \in DOMAIN checkpoints, NEW cursor \in {NoCursor} \union Keys,
                    CheckpointPage(c, cursor) # Failed
             PROVE  Shows(CheckpointPage(c, cursor), RowsAfter(c \div 2), cursor)
  BY Zenon DEF PagesAreSource, Shows
<1>1. ManifestHolds(c) /\ (IsVerified(c) \/ Verifies(c)) /\ CheckpointPage(c, cursor) = Page(c, cursor)
  BY DEF CheckpointPage
<1>2. checkpoints[c].rows = RowsAfter(c \div 2)
  BY <1>1, ShownIsSource
<1>3. Page(c, cursor) # Failed
  BY <1>1
<1> QED
  BY <1>1, <1>2, <1>3, PageIs

--------------------------------------------------------------------------
(* What a step leaves of what is stored.                                   *)

\* The source's states that are recorded stay what they are.
LEMMA StatesKept ==
  ASSUME SourceSound, CommitsSound, Extends
  PROVE  /\ info.count \in Nat /\ Len(wal) \in Nat
         /\ \A i \in 0 .. info.count : RowsAfter(i)' = RowsAfter(i)
         /\ \A i \in 1 .. info.count : wal'[i] = wal[i] /\ Recorded(i)' = Recorded(i)
         /\ base' = base
         /\ info.count <= Len(wal')
<1>1. /\ info.count \in Nat /\ info.count <= Len(wal) /\ Len(wal) \in Nat
      /\ Len(wal) <= Len(wal')
  BY CommitsTypes, SourceTypes DEF Extends
<1>2. \A i \in 0 .. info.count : RowsAfter(i)' = RowsAfter(i)
  BY <1>1 DEF Extends
<1>3. \A i \in 1 .. info.count : wal'[i] = wal[i]
  BY <1>1 DEF Extends
<1>4. \A i \in 1 .. info.count : Recorded(i)' = Recorded(i)
  BY <1>3 DEF Recorded
<1>5. info.count <= Len(wal')
  BY <1>1, SourceTypes DEF Extends
<1> QED
  BY <1>1, <1>2, <1>3, <1>4, <1>5 DEF Extends

\* What is recorded, when none of it changed.
LEMMA CommitsSame ==
  ASSUME SourceSound, CommitsSound, SourceSound', Extends, UNCHANGED storedVars
  PROVE  CommitsSound'
<1>1. info' = info /\ baseline' = baseline /\ commits' = commits
  BY DEF storedVars
<1>2. info.count \in 0 .. Len(wal')
  <2>1. Len(wal') \in Nat
    BY DEF SourceSound
  <2> QED
    BY <2>1, StatesKept
<1> QED
  BY <1>1, <1>2, StatesKept DEF CommitsSound

\* The checkpoints of a history that may have grown.
LEMMA CheckpointsSame ==
  ASSUME SourceSound, CommitsSound, CheckpointsSound, Extends, UNCHANGED checkpoints,
         info'.count \in Nat, info.count <= info'.count
  PROVE  CheckpointsSound'
<1>1. info.count \in Nat /\ \A i \in 0 .. info.count : RowsAfter(i)' = RowsAfter(i)
  BY StatesKept
<1>2. 0 .. info.count \subseteq 0 .. info'.count
  BY <1>1
<1>3. ASSUME NEW c \in DOMAIN checkpoints
      PROVE  /\ \E i \in 0 .. info'.count : c = EndLsn(i)
             /\ Artifact(checkpoints[c])
             /\ \E i \in 0 .. info'.count : ManifestOf(checkpoints[c].manifest, i, RowsAfter(i)')
  <2>1. PICK i \in 0 .. info.count : c = EndLsn(i)
    BY DEF CheckpointsSound
  <2>2. PICK j \in 0 .. info.count : ManifestOf(checkpoints[c].manifest, j, RowsAfter(j))
    BY DEF CheckpointsSound
  <2>3. ManifestOf(checkpoints[c].manifest, j, RowsAfter(j)')
    BY <1>1, <2>2
  <2> QED
    BY <1>2, <2>1, <2>3 DEF CheckpointsSound
<1> QED
  BY <1>3 DEF CheckpointsSound

\* What was verified, when neither it nor the history changed.
LEMMA VerifiedSame ==
  ASSUME SourceSound, CommitsSound, CheckpointsSound, VerifiedSound, Extends,
         UNCHANGED <<info, checkpoints, verified>>
  PROVE  VerifiedSound'
<1>1. \A c \in DOMAIN checkpoints : RowsAfter(c \div 2)' = RowsAfter(c \div 2)
  <2> TAKE c \in DOMAIN checkpoints
  <2>1. PICK i \in 0 .. info.count : c = EndLsn(i)
    BY CheckpointTypes
  <2>2. i \in Nat
    BY StatesKept
  <2>3. c \div 2 = i
    BY <2>1, <2>2, EndLsns
  <2>4. c \div 2 \in 0 .. info.count
    BY <2>3
  <2> QED
    BY <2>4, StatesKept
<1>2. \A c : ManifestHolds(c)' = ManifestHolds(c) /\ Signature(c)' = Signature(c)
  BY DEF ManifestHolds, Signature
<1> QED
  BY <1>1, <1>2 DEF VerifiedSound

\* A cache that is not current promises nothing.
LEMMA VerifiedStale ==
  ASSUME VerifiedSound, Viewed(TRUE)
  PROVE  VerifiedSound'
<1>1. verified' = [verified EXCEPT !.current = FALSE]
  BY DEF Viewed
<1>2. verified' = [signature |-> verified.signature, current |-> FALSE]
  BY <1>1 DEF VerifiedSound
<1> QED
  BY <1>2 DEF VerifiedSound

\* An undamaged history, when none of it changed.
LEMMA WholeSame ==
  ASSUME SourceSound, CommitsSound, WholeUnlessHarmed, Extends, UNCHANGED storedVars, harmed' = harmed
  PROVE  WholeUnlessHarmed'
<1>1. info' = info /\ baseline' = baseline /\ commits' = commits /\ base' = base
  BY DEF storedVars, Extends
<1> QED
  BY <1>1 DEF WholeUnlessHarmed

\* A step that stores nothing.
LEMMA StoreSame ==
  ASSUME SourceSound, StoreSound, SourceSound', Extends, UNCHANGED <<storedVars, checkpoints>>,
         harmed' = harmed, verified' = verified \/ verified' = Unverified
  PROVE  StoreSound'
<1>1. CommitsSound /\ CheckpointsSound /\ VerifiedSound /\ WholeUnlessHarmed
  BY DEF StoreSound
<1>2. info' = info /\ checkpoints' = checkpoints
  BY DEF storedVars
<1>3. CommitsSound' /\ WholeUnlessHarmed'
  BY <1>1, CommitsSame, WholeSame
<1>4. CheckpointsSound'
  BY <1>1, <1>2, StatesKept, CheckpointsSame
<1>5. VerifiedSound'
  <2>1. CASE verified' = verified
    BY <1>1, <1>2, <2>1, VerifiedSame
  <2>2. CASE verified' = Unverified
    BY <2>2 DEF VerifiedSound, Unverified
  <2> QED
    BY <2>1, <2>2
<1> QED
  BY <1>3, <1>4, <1>5 DEF StoreSound

--------------------------------------------------------------------------
(* Commits, publications and removals.                                     *)

\* The source's next commit is appended.
LEMMA StoreCommitSound ==
  ASSUME SourceSound, StoreSound, SourceSound', Extends, harmed' = harmed, NEW elsewhere \in BOOLEAN,
         NEW n, n = info.count + 1, n <= Len(wal), StoreCommit(Recorded(n), elsewhere),
         ~wal[n].altered \/ wal[n].events = << >>
  PROVE  StoreSound' /\ info' = [head |-> EndLsn(n), count |-> n, baselineRows |-> base]
<1>1. CommitsSound /\ CheckpointsSound /\ VerifiedSound /\ WholeUnlessHarmed
  BY DEF StoreSound
<1> DEFINE p == EndLsn(n)
           record == [commit |-> Recorded(n), ok |-> TRUE]
<1>2. info.count \in Nat /\ n \in Nat /\ Len(wal) \in Nat /\ n \in 1 .. Len(wal)
  BY <1>1, CommitsTypes, SourceTypes
<1>3. Recorded(n).position = p
  BY DEF Recorded
<1>4. /\ commits' = Stored(commits, p, record)
      /\ info' = [info EXCEPT !.head = p, !.count = @ + 1]
      /\ Viewed(elsewhere)
      /\ baseline' = baseline /\ checkpoints' = checkpoints
  BY <1>3 DEF StoreCommit
<1>5. info = [head |-> EndLsn(info.count), count |-> info.count, baselineRows |-> base]
  BY <1>1 DEF CommitsSound
<1>6. info' = [head |-> p, count |-> n, baselineRows |-> base]
  <2> HIDE DEF p
  <2>1. PICK h, m : info = [head |-> h, count |-> m, baselineRows |-> base]
    BY <1>5
  <2>2. info' = [head |-> p, count |-> m + 1, baselineRows |-> base]
    BY <1>4, <2>1
  <2>3. info.count = m
    BY <2>1
  <2> QED
    BY <2>2, <2>3
<1>7. info'.count = n
  BY <1>6
<1> HIDE DEF p, record
<1>8. /\ DOMAIN commits' = DOMAIN commits \union {p}
      /\ commits' = [q \in DOMAIN commits' |-> commits'[q]]
      /\ commits'[p] = record
      /\ \A q \in DOMAIN commits : q # p => commits'[q] = commits[q]
  BY <1>4 DEF Stored
<1>9. \A i \in 1 .. info.count : EndLsn(i) # p /\ EndLsn(i) \in Nat
  <2> TAKE i \in 1 .. info.count
  <2>1. i \in Nat /\ n \in Nat /\ i # n
    BY <1>2
  <2> QED
    BY <2>1, EndLsns DEF p
<1>10. /\ Recorded(n)' = Recorded(n) /\ wal'[n] = wal[n]
       /\ \A i \in 1 .. info.count : wal'[i] = wal[i] /\ Recorded(i)' = Recorded(i)
       /\ base' = base
  <2>1. \A i \in 1 .. Len(wal) : wal'[i] = wal[i]
    BY DEF Extends
  <2>2. \A i \in 1 .. Len(wal) : Recorded(i)' = Recorded(i)
    BY <2>1 DEF Recorded
  <2> QED
    BY <1>2, <2>1, <2>2 DEF Extends
<1>11. CommitsSound'
  <2>1. n \in 0 .. Len(wal')
    <3>1. Len(wal') \in Nat /\ Len(wal) <= Len(wal')
      BY DEF SourceSound, Extends
    <3> QED
      BY <1>2, <3>1
  <2>2. baseline' \in [rows : Table, bad : SUBSET Keys]
    BY <1>1, <1>4 DEF CommitsSound
  <2>3. DOMAIN commits' \subseteq {EndLsn(i) : i \in 1 .. n}
    <3>1. DOMAIN commits \subseteq {EndLsn(i) : i \in 1 .. info.count}
      BY <1>1 DEF CommitsSound
    <3>2. 1 .. info.count \subseteq 1 .. n /\ n \in 1 .. n
      BY <1>2
    <3> QED
      BY <1>8, <3>1, <3>2 DEF p
  <2>4. ASSUME NEW i \in 1 .. n
        PROVE  /\ EndLsn(i) \in DOMAIN commits' =>
                    commits'[EndLsn(i)] \in [commit : {Recorded(i)'}, ok : BOOLEAN]
               /\ ~wal'[i].altered \/ wal'[i].events = << >>
    <3>1. CASE i = n
      <4>1. commits'[EndLsn(i)] = record
        BY <1>8, <3>1 DEF p
      <4>2. record \in [commit : {Recorded(n)}, ok : BOOLEAN]
        BY DEF record
      <4>3. Recorded(i)' = Recorded(n)
        BY <1>10, <3>1
      <4> QED
        BY <1>10, <3>1, <4>1, <4>2, <4>3
    <3>2. CASE i # n
      <4>1. i \in 1 .. info.count
        BY <1>2, <3>2
      <4>2. EndLsn(i) \in DOMAIN commits' => EndLsn(i) \in DOMAIN commits /\ commits'[EndLsn(i)] = commits[EndLsn(i)]
        BY <1>8, <1>9, <4>1
      <4> QED
        BY <1>1, <1>10, <4>1, <4>2 DEF CommitsSound
    <3> QED
      BY <3>1, <3>2
  <2> QED
    BY <1>6, <1>7, <1>8, <1>10, <2>1, <2>2, <2>3, <2>4 DEF CommitsSound, p
<1>12. CheckpointsSound'
  BY <1>1, <1>2, <1>4, <1>7, CheckpointsSame
<1>13. VerifiedSound'
  <2>1. CASE elsewhere
    <3>1. Viewed(TRUE)
      BY <1>4, <2>1
    <3> QED
      BY <1>1, <3>1, VerifiedStale
  <2>2. CASE ~elsewhere
    <3>1. verified' = verified
      BY <1>4, <2>2 DEF Viewed
    <3>2. ASSUME verified.current
          PROVE  /\ verified.signature[1].count \in 0 .. n
                 /\ \A c : verified.signature # <<info', checkpoints'[c].manifest>>
      <4>1. verified.signature[1].count \in 0 .. info.count
        BY <1>1, <3>2 DEF VerifiedSound
      <4>2. ASSUME NEW c, verified.signature = <<info', checkpoints'[c].manifest>> PROVE FALSE
        <5>1. verified.signature[1] = info'
          BY <4>2
        <5> QED
          BY <1>2, <1>7, <4>1, <5>1
      <4>3. verified.signature[1].count \in 0 .. n
        BY <1>2, <4>1
      <4> QED
        BY <4>2, <4>3
    <3> QED
      BY <1>1, <1>7, <3>1, <3>2 DEF VerifiedSound, Signature
  <2> QED
    BY <2>1, <2>2
<1>14. WholeUnlessHarmed'
  <2> SUFFICES ASSUME ~harmed
               PROVE  /\ baseline' = [rows |-> base', bad |-> {}]
                      /\ \A i \in 1 .. n : EndLsn(i) \in DOMAIN commits' /\ commits'[EndLsn(i)].ok
    BY <1>7 DEF WholeUnlessHarmed
  <2>1. /\ baseline = [rows |-> base, bad |-> {}]
        /\ \A i \in 1 .. info.count : EndLsn(i) \in DOMAIN commits /\ commits[EndLsn(i)].ok
    BY <1>1 DEF WholeUnlessHarmed
  <2>2. ASSUME NEW i \in 1 .. n PROVE EndLsn(i) \in DOMAIN commits' /\ commits'[EndLsn(i)].ok
    <3>1. CASE i = n
      BY <1>8, <3>1 DEF p, record
    <3>2. CASE i # n
      <4>1. i \in 1 .. info.count
        BY <1>2, <3>2
      <4> QED
        BY <1>8, <1>9, <2>1, <4>1
    <3> QED
      BY <3>1, <3>2
  <2> QED
    BY <1>4, <1>10, <2>1, <2>2
<1> QED
  BY <1>6, <1>11, <1>12, <1>13, <1>14 DEF StoreSound, p


\* A step that changes nothing but checkpoints, each of which still is one.
LEMMA StoreRederived ==
  ASSUME SourceSound, StoreSound, SourceSound', Extends, UNCHANGED storedVars, harmed' = harmed,
         checkpoints' = [c \in DOMAIN checkpoints' |-> checkpoints'[c]],
         \A c \in DOMAIN checkpoints' :
           /\ \E i \in 0 .. info.count : c = EndLsn(i)
           /\ Artifact(checkpoints'[c])
           /\ \E i \in 0 .. info.count : ManifestOf(checkpoints'[c].manifest, i, RowsAfter(i)),
         VerifiedSound'
  PROVE  StoreSound'
<1>1. CommitsSound /\ WholeUnlessHarmed /\ info' = info
  BY DEF StoreSound, storedVars
<1>2. CommitsSound' /\ WholeUnlessHarmed'
  BY <1>1, CommitsSame, WholeSame
<1>3. \A c \in DOMAIN checkpoints' :
         \E i \in 0 .. info.count : ManifestOf(checkpoints'[c].manifest, i, RowsAfter(i)')
  <2> TAKE c \in DOMAIN checkpoints'
  <2>1. PICK i \in 0 .. info.count : ManifestOf(checkpoints'[c].manifest, i, RowsAfter(i))
    OBVIOUS
  <2>2. RowsAfter(i)' = RowsAfter(i)
    BY <1>1, StatesKept
  <2>3. ManifestOf(checkpoints'[c].manifest, i, RowsAfter(i)')
    BY <2>1, <2>2
  <2> QED
    BY <2>3
<1>4. CheckpointsSound'
  BY <1>1, <1>3 DEF CheckpointsSound
<1> QED
  BY <1>2, <1>4 DEF StoreSound

\* What was verified, when each checkpoint is one that was there, at its position,
\* or holds the rows of that position.
LEMMA VerifiedRederived ==
  ASSUME SourceSound, StoreSound, Extends, UNCHANGED <<info, verified>>,
         \A c \in DOMAIN checkpoints' :
           /\ \E i \in 0 .. info.count : c = EndLsn(i)
           /\ \/ c \in DOMAIN checkpoints /\ checkpoints'[c] = checkpoints[c]
              \/ checkpoints'[c].rows = RowsAfter(c \div 2)
  PROVE  VerifiedSound'
<1>1. CommitsSound /\ VerifiedSound
  BY DEF StoreSound
<1>2. SUFFICES ASSUME verified.current, NEW c \in DOMAIN checkpoints',
                      ManifestHolds(c)', verified.signature = Signature(c)'
               PROVE  checkpoints'[c].rows = RowsAfter(c \div 2)'
  BY <1>1 DEF VerifiedSound
<1>3. RowsAfter(c \div 2)' = RowsAfter(c \div 2)
  <2>1. PICK i \in 0 .. info.count : c = EndLsn(i)
    OBVIOUS
  <2>2. i \in Nat
    BY <1>1, StatesKept
  <2>3. c \div 2 \in 0 .. info.count
    BY <2>1, <2>2, EndLsns
  <2> QED
    BY <1>1, <2>3, StatesKept
<1>4. CASE c \in DOMAIN checkpoints /\ checkpoints'[c] = checkpoints[c]
  <2>1. ManifestHolds(c) /\ verified.signature = Signature(c)
    BY <1>2, <1>4 DEF ManifestHolds, Signature
  <2> QED
    BY <1>1, <1>2, <1>3, <1>4, <2>1 DEF VerifiedSound
<1>5. CASE checkpoints'[c].rows = RowsAfter(c \div 2)
  BY <1>3, <1>5
<1> QED
  BY <1>4, <1>5

\* What is published holds the rows of its position.
LEMMA StorePublishSound ==
  ASSUME SourceSound, StoreSound, SourceSound', Extends, harmed' = harmed,
         NEW p \in {0} \union DOMAIN commits, PublishCheckpoint(p)
  PROVE  StoreSound'
<1>1. CommitsSound /\ CheckpointsSound
  BY DEF StoreSound
<1>2. p \in Nat
  BY <1>1, CommitsTypes
<1>3. PICK i \in 0 .. info.count : p = EndLsn(i) /\ Rebuilt(p).rows = RowsAfter(i)
  BY <1>1, <1>2, RebuiltIs DEF PublishCheckpoint
<1>4. i \in Nat /\ p \div 2 = i /\ RowsAfter(i) \in Table
  <2>1. i \in Nat /\ i \in 0 .. Len(wal)
    BY <1>1, CommitsTypes, SourceTypes
  <2> QED
    BY <1>3, <2>1, EndLsns DEF SourceSound
<1> DEFINE m == [position |-> p, rows |-> RowsAfter(i), count |-> Cardinality(Through(p)),
                 history |-> HistorySum(p)]
           made == [ok |-> TRUE, rows |-> RowsAfter(i), bad |-> {}, manifest |-> m]
<1>5. checkpoints' = Stored(checkpoints, p, made) /\ UNCHANGED <<storedVars, verified>>
  BY <1>3 DEF PublishCheckpoint
<1>6. ManifestOf(m, i, RowsAfter(i))
  BY <1>3, <1>4 DEF ManifestOf
<1>7. made.rows = RowsAfter(i) /\ made.manifest = m /\ Artifact(made)
  BY <1>4 DEF Artifact
<1> HIDE DEF m, made
<1>8. /\ checkpoints' = [c \in DOMAIN checkpoints' |-> checkpoints'[c]]
      /\ \A c \in DOMAIN checkpoints' :
           \/ c = p /\ checkpoints'[c] = made
           \/ c \in DOMAIN checkpoints /\ checkpoints'[c] = checkpoints[c]
  BY <1>5 DEF Stored
<1>9. \A c \in DOMAIN checkpoints' :
           /\ \E k \in 0 .. info.count : c = EndLsn(k)
           /\ Artifact(checkpoints'[c])
           /\ \E k \in 0 .. info.count : ManifestOf(checkpoints'[c].manifest, k, RowsAfter(k))
  <2> TAKE c \in DOMAIN checkpoints'
  <2>1. CASE c = p /\ checkpoints'[c] = made
    BY <1>3, <1>6, <1>7, <2>1
  <2>2. CASE c \in DOMAIN checkpoints /\ checkpoints'[c] = checkpoints[c]
    BY <1>1, <2>2 DEF CheckpointsSound
  <2> QED
    BY <1>8, <2>1, <2>2
<1>10. VerifiedSound'
  <2>1. \A c \in DOMAIN checkpoints' :
           \/ c \in DOMAIN checkpoints /\ checkpoints'[c] = checkpoints[c]
           \/ checkpoints'[c].rows = RowsAfter(c \div 2)
    BY <1>4, <1>7, <1>8
  <2>2. UNCHANGED <<info, verified>>
    BY <1>5 DEF storedVars
  <2> QED
    BY <1>9, <2>1, <2>2, VerifiedRederived
<1> QED
  BY <1>5, <1>8, <1>9, <1>10, StoreRederived

\* A checkpoint less.
LEMMA StoreRemoveSound ==
  ASSUME SourceSound, StoreSound, SourceSound', Extends, harmed' = harmed,
         NEW c \in DOMAIN checkpoints, RemoveCheckpoint(c)
  PROVE  StoreSound'
<1>1. checkpoints' = [d \in DOMAIN checkpoints \ {c} |-> checkpoints[d]] /\ UNCHANGED <<storedVars, verified>>
  BY DEF RemoveCheckpoint
<1>2. /\ checkpoints' = [d \in DOMAIN checkpoints' |-> checkpoints'[d]]
      /\ \A d \in DOMAIN checkpoints' : d \in DOMAIN checkpoints /\ checkpoints'[d] = checkpoints[d]
  BY <1>1
<1>3. \A d \in DOMAIN checkpoints' :
           /\ \E k \in 0 .. info.count : d = EndLsn(k)
           /\ Artifact(checkpoints'[d])
           /\ \E k \in 0 .. info.count : ManifestOf(checkpoints'[d].manifest, k, RowsAfter(k))
  BY <1>2 DEF StoreSound, CheckpointsSound
<1>4. VerifiedSound'
  BY <1>1, <1>2, <1>3, VerifiedRederived DEF storedVars
<1> QED
  BY <1>1, <1>2, <1>3, <1>4, StoreRederived

\* What is verified holds the rows of its position.
LEMMA StoreReadSound ==
  ASSUME SourceSound, StoreSound, SourceSound', Extends, harmed' = harmed,
         NEW c \in DOMAIN checkpoints, ReadCheckpoint(c)
  PROVE  StoreSound'
<1>1. CommitsSound /\ CheckpointsSound
  BY DEF StoreSound
<1>2. ManifestHolds(c) /\ Verifies(c) /\ verified' = [signature |-> Signature(c), current |-> TRUE]
      /\ UNCHANGED <<storedVars, checkpoints>>
  BY DEF ReadCheckpoint
<1>3. info' = info /\ checkpoints' = checkpoints
  BY <1>2 DEF storedVars
<1>4. PICK i \in 0 .. info.count : c = EndLsn(i) /\ checkpoints[c].rows = RowsAfter(i)
  BY <1>1, <1>2, UsedIsSource DEF Verifies
<1>5. \A d \in DOMAIN checkpoints : checkpoints[d].manifest = checkpoints[c].manifest /\ ManifestHolds(d) => d = c
  BY <1>2 DEF ManifestHolds
<1>6. verified'.signature = Signature(c) /\ Signature(c)[1] = info
  BY <1>2 DEF Signature
<1>7. info.count \in Nat /\ RowsAfter(i)' = RowsAfter(i) /\ c \div 2 = i
  <2>1. info.count \in Nat /\ RowsAfter(i)' = RowsAfter(i)
    BY <1>1, StatesKept
  <2> QED
    BY <1>4, <2>1, EndLsns
<1>8. VerifiedSound'
  <2>1. verified'.signature[1].count \in 0 .. info'.count
    BY <1>3, <1>6, <1>7
  <2>2. \A d \in DOMAIN checkpoints' :
          ManifestHolds(d)' /\ verified'.signature = Signature(d)' =>
             checkpoints'[d].rows = RowsAfter(d \div 2)'
    <3> SUFFICES ASSUME NEW d \in DOMAIN checkpoints, ManifestHolds(d)', Signature(c) = Signature(d)'
                 PROVE  checkpoints[d].rows = RowsAfter(d \div 2)'
      BY <1>3, <1>6
    <3>1. ManifestHolds(d) /\ checkpoints[d].manifest = checkpoints[c].manifest
      BY <1>3 DEF ManifestHolds, Signature
    <3>2. d = c
      BY <1>5, <3>1
    <3>3. \A k : k = d \div 2 => RowsAfter(k)' = RowsAfter(i)
      BY <1>7, <3>2
    <3> QED
      BY <1>4, <3>2, <3>3
  <2> QED
    BY <1>2, <2>1, <2>2 DEF VerifiedSound
<1>9. \A d \in DOMAIN checkpoints' :
           /\ \E k \in 0 .. info.count : d = EndLsn(k)
           /\ Artifact(checkpoints'[d])
           /\ \E k \in 0 .. info.count : ManifestOf(checkpoints'[d].manifest, k, RowsAfter(k))
  BY <1>1, <1>3 DEF CheckpointsSound
<1>10. checkpoints' = [d \in DOMAIN checkpoints' |-> checkpoints'[d]]
  BY <1>1, <1>3 DEF CheckpointsSound
<1> QED
  BY <1>2, <1>8, <1>9, <1>10, StoreRederived

--------------------------------------------------------------------------
(* Damage.                                                                 *)

\* A row lost or replaced, or a digest that no longer matches, leaves a table.
LEMMA DamagedRowIs ==
  ASSUME NEW rows \in Table, NEW bad \in SUBSET Keys, NEW k \in Present(rows)
  PROVE  /\ k \in Keys
         /\ \A v \in Forgeries : [rows EXCEPT ![k] = v] \in Table
         /\ bad \union {k} \in SUBSET Keys
<1>1. k \in Keys
  BY DEF Present
<1>2. \A v \in Forgeries : v \in Values \union {NoRow}
  BY ForgeriesAssumption
<1> QED
  BY <1>1, <1>2 DEF Table

\* An artifact by its parts.
LEMMA ArtifactIs ==
  ASSUME NEW ok, NEW rows \in Table, NEW bad \in SUBSET Keys, NEW m
  PROVE  /\ Artifact([ok |-> ok, rows |-> rows, bad |-> bad, manifest |-> m])
         /\ [ok |-> ok, rows |-> rows, bad |-> bad, manifest |-> m].manifest = m
BY DEF Artifact

\* A damaged checkpoint still states the rows of a position, or names a history
\* that only the first position can have.
LEMMA DamagedIsArtifact ==
  ASSUME SourceSound, CommitsSound, CheckpointsSound, NEW c \in DOMAIN checkpoints,
         NEW q \in DamagedCheckpoint(c)
  PROVE  /\ Artifact(q)
         /\ \E i \in 0 .. info.count : ManifestOf(q.manifest, i, RowsAfter(i))
<1> DEFINE p == checkpoints[c]
           foreign == [k \in Keys |-> NoRow]
<1>1. Artifact(p)
  BY DEF CheckpointsSound
<1>2. PICK i \in 0 .. info.count : ManifestOf(p.manifest, i, RowsAfter(i))
  BY DEF CheckpointsSound
<1>3. PICK ok, rows, bad, m :
        /\ p = [ok |-> ok, rows |-> rows, bad |-> bad, manifest |-> m]
        /\ p.manifest = m
        /\ rows \in Table /\ bad \in SUBSET Keys
  <2> HIDE DEF p
  <2>1. p = [ok |-> p.ok, rows |-> p.rows, bad |-> p.bad, manifest |-> p.manifest]
    BY <1>1 DEF Artifact
  <2>2. p.rows \in Table /\ p.bad \in SUBSET Keys
    BY <1>1 DEF Artifact
  <2> QED
    BY <2>1, <2>2, Zenon
<1>4. ManifestOf(m, i, RowsAfter(i))
  BY <1>2, <1>3
<1>5. /\ foreign \in Table
      /\ q \in DamagedRow(p) \/ q = [p EXCEPT !.ok = FALSE]
         \/ q = [p EXCEPT !.rows = foreign, !.manifest.rows = foreign,
                          !.manifest.history = <<foreign, << >>>>]
         \/ q \in {checkpoints[d] : d \in DOMAIN checkpoints}
  BY DEF DamagedCheckpoint, Table
<1> HIDE DEF p, foreign
<1>6. CASE q \in DamagedRow(p)
  <2>1. p.rows = rows
    BY <1>3
  <2>2. CASE \E k \in Present(rows), v \in Forgeries : q = [p EXCEPT !.rows[k] = v]
    <3>1. PICK k \in Present(rows), v \in Forgeries : q = [p EXCEPT !.rows[k] = v]
      BY <2>2
    <3>2. [rows EXCEPT ![k] = v] \in Table
      BY <1>3, DamagedRowIs
    <3>3. q = [ok |-> ok, rows |-> [rows EXCEPT ![k] = v], bad |-> bad, manifest |-> m]
      BY <1>3, <3>1
    <3> QED
      BY <1>3, <1>4, <3>2, <3>3, ArtifactIs
  <2>3. CASE \E k \in Present(rows) : q = [p EXCEPT !.bad = @ \union {k}]
    <3>1. PICK k \in Present(rows) : q = [p EXCEPT !.bad = @ \union {k}]
      BY <2>3
    <3>2. bad \union {k} \in SUBSET Keys
      BY <1>3, DamagedRowIs
    <3>3. q = [ok |-> ok, rows |-> rows, bad |-> bad \union {k}, manifest |-> m]
      BY <1>3, <3>1
    <3> QED
      BY <1>3, <1>4, <3>2, <3>3, ArtifactIs
  <2> QED
    BY <1>6, <2>1, <2>2, <2>3 DEF DamagedRow
<1>7. CASE q = [p EXCEPT !.ok = FALSE]
  <2>1. q = [ok |-> FALSE, rows |-> rows, bad |-> bad, manifest |-> m]
    BY <1>3, <1>7
  <2> QED
    BY <1>3, <1>4, <2>1, ArtifactIs
<1>8. CASE q = [p EXCEPT !.rows = foreign, !.manifest.rows = foreign,
                         !.manifest.history = <<foreign, << >>>>]
  <2>1. PICK count, history, was :
          m = [position |-> EndLsn(i), rows |-> was, count |-> count, history |-> history]
    BY <1>4 DEF ManifestOf
  <2> DEFINE n == [position |-> EndLsn(i), rows |-> foreign, count |-> count,
                   history |-> <<foreign, << >>>>]
  <2>2. q = [ok |-> ok, rows |-> foreign, bad |-> bad, manifest |-> n]
    BY <1>3, <1>8, <2>1
  <2>3. ManifestOf(n, i, RowsAfter(i))
    BY <1>5 DEF ManifestOf
  <2> HIDE DEF n
  <2> QED
    BY <1>3, <1>5, <2>2, <2>3, ArtifactIs
<1>9. CASE q \in {checkpoints[d] : d \in DOMAIN checkpoints}
  BY <1>9 DEF CheckpointsSound
<1> QED
  BY <1>5, <1>6, <1>7, <1>8, <1>9

\* A damaged checkpoint.
LEMMA StoreDamageSound ==
  ASSUME SourceSound, StoreSound, SourceSound', Extends, harmed' = harmed,
         NEW c \in DOMAIN checkpoints, DamageCheckpoint(c)
  PROVE  StoreSound'
<1>1. CommitsSound /\ CheckpointsSound /\ VerifiedSound
  BY DEF StoreSound
<1>2. PICK q \in DamagedCheckpoint(c) : checkpoints' = [checkpoints EXCEPT ![c] = q]
  BY DEF DamageCheckpoint
<1>3. Viewed(TRUE) /\ UNCHANGED storedVars
  BY DEF DamageCheckpoint
<1>4. Artifact(q) /\ \E i \in 0 .. info.count : ManifestOf(q.manifest, i, RowsAfter(i))
  BY <1>1, DamagedIsArtifact
<1>5. /\ checkpoints = [d \in DOMAIN checkpoints |-> checkpoints[d]]
      /\ \A d \in DOMAIN checkpoints :
           /\ \E i \in 0 .. info.count : d = EndLsn(i)
           /\ Artifact(checkpoints[d])
           /\ \E i \in 0 .. info.count : ManifestOf(checkpoints[d].manifest, i, RowsAfter(i))
  BY <1>1 DEF CheckpointsSound
<1>6. /\ DOMAIN checkpoints' = DOMAIN checkpoints
      /\ checkpoints' = [d \in DOMAIN checkpoints' |-> checkpoints'[d]]
      /\ \A d \in DOMAIN checkpoints : checkpoints'[d] = IF d = c THEN q ELSE checkpoints[d]
  BY <1>2
<1>7. ASSUME NEW d \in DOMAIN checkpoints'
      PROVE  /\ \E i \in 0 .. info.count : d = EndLsn(i)
             /\ Artifact(checkpoints'[d])
             /\ \E i \in 0 .. info.count : ManifestOf(checkpoints'[d].manifest, i, RowsAfter(i))
  BY <1>4, <1>5, <1>6
<1>8. VerifiedSound'
  BY <1>1, <1>3, VerifiedStale
<1> QED
  BY <1>3, <1>6, <1>7, <1>8, StoreRederived

\* A damaged history: it may have lost records, and has no others.
LEMMA StoreHarmSound ==
  ASSUME SourceSound, StoreSound, SourceSound', Extends, harmed' = TRUE, DamageHistory
  PROVE  StoreSound'
<1>1. CommitsSound /\ CheckpointsSound /\ VerifiedSound
  BY DEF StoreSound
<1>2. Viewed(TRUE) /\ info' = info /\ checkpoints' = checkpoints
  BY DEF DamageHistory
<1>3. CheckpointsSound'
  BY <1>1, <1>2, StatesKept, CheckpointsSame
<1>4. VerifiedSound'
  BY <1>1, <1>2, VerifiedStale
<1>5. WholeUnlessHarmed'
  BY DEF WholeUnlessHarmed
<1>6. baseline' \in [rows : Table, bad : SUBSET Keys]
  <2>1. PICK rows \in Table, bad \in SUBSET Keys : baseline = [rows |-> rows, bad |-> bad]
    BY <1>1 DEF CommitsSound
  <2>2. baseline' = baseline \/ baseline' \in DamagedRow(baseline)
    BY DEF DamageHistory
  <2>3. baseline.rows = rows
    BY <2>1
  <2>4. CASE \E k \in Present(rows), v \in Forgeries : baseline' = [baseline EXCEPT !.rows[k] = v]
    <3>1. PICK k \in Present(rows), v \in Forgeries : baseline' = [baseline EXCEPT !.rows[k] = v]
      BY <2>4
    <3>2. [rows EXCEPT ![k] = v] \in Table
      BY DamagedRowIs
    <3>3. baseline' = [rows |-> [rows EXCEPT ![k] = v], bad |-> bad]
      BY <2>1, <3>1
    <3> QED
      BY <3>2, <3>3
  <2>5. CASE \E k \in Present(rows) : baseline' = [baseline EXCEPT !.bad = @ \union {k}]
    <3>1. PICK k \in Present(rows) : baseline' = [baseline EXCEPT !.bad = @ \union {k}]
      BY <2>5
    <3>2. bad \union {k} \in SUBSET Keys
      BY DamagedRowIs
    <3>3. baseline' = [rows |-> rows, bad |-> bad \union {k}]
      BY <2>1, <3>1
    <3> QED
      BY <3>2, <3>3
  <2>6. CASE baseline' = baseline
    BY <2>1, <2>6
  <2> QED
    BY <2>2, <2>3, <2>4, <2>5, <2>6 DEF DamagedRow
<1>7. /\ commits' = [p \in DOMAIN commits' |-> commits'[p]]
      /\ DOMAIN commits' \subseteq DOMAIN commits
      /\ \A p \in DOMAIN commits' :
           commits'[p] = commits[p] \/ commits'[p] = [commits[p] EXCEPT !.ok = FALSE]
  <2>1. commits = [p \in DOMAIN commits |-> commits[p]]
    BY <1>1 DEF CommitsSound
  <2>2. CASE UNCHANGED commits
    BY <2>1, <2>2
  <2>3. CASE \E p \in DOMAIN commits : commits' = [commits EXCEPT ![p].ok = FALSE]
    <3>1. PICK p \in DOMAIN commits : commits' = [commits EXCEPT ![p].ok = FALSE]
      BY <2>3
    <3> QED
      BY <3>1
  <2>4. CASE \E p \in DOMAIN commits : commits' = [q \in DOMAIN commits \ {p} |-> commits[q]]
    <3>1. PICK p \in DOMAIN commits : commits' = [q \in DOMAIN commits \ {p} |-> commits[q]]
      BY <2>4
    <3> QED
      BY <3>1
  <2> QED
    BY <2>2, <2>3, <2>4 DEF DamageHistory
<1>8. \A i \in 1 .. info.count : EndLsn(i) \in DOMAIN commits' =>
         commits'[EndLsn(i)] \in [commit : {Recorded(i)}, ok : BOOLEAN]
  <2> SUFFICES ASSUME NEW i \in 1 .. info.count, EndLsn(i) \in DOMAIN commits'
               PROVE  commits'[EndLsn(i)] \in [commit : {Recorded(i)}, ok : BOOLEAN]
    OBVIOUS
  <2>1. PICK ok \in BOOLEAN : commits[EndLsn(i)] = [commit |-> Recorded(i), ok |-> ok]
    BY <1>1, <1>7, CommitsTypes
  <2>2. commits'[EndLsn(i)] = commits[EndLsn(i)]
        \/ commits'[EndLsn(i)] = [commits[EndLsn(i)] EXCEPT !.ok = FALSE]
    BY <1>7
  <2>3. \A was, now, commit :
           was = [commit |-> commit, ok |-> ok] /\ (now = was \/ now = [was EXCEPT !.ok = FALSE])
             => now \in [commit : {commit}, ok : BOOLEAN]
    <3> TAKE was, now, commit
    <3> HAVE was = [commit |-> commit, ok |-> ok] /\ (now = was \/ now = [was EXCEPT !.ok = FALSE])
    <3>1. now = was => now = [commit |-> commit, ok |-> ok]
      OBVIOUS
    <3>2. now = [was EXCEPT !.ok = FALSE] => now = [commit |-> commit, ok |-> FALSE]
      OBVIOUS
    <3>3. \A o \in BOOLEAN : [commit |-> commit, ok |-> o] \in [commit : {commit}, ok : BOOLEAN]
      OBVIOUS
    <3> QED
      BY <3>1, <3>2, <3>3
  <2> QED
    BY <2>1, <2>2, <2>3
<1>9. CommitsSound'
  <2>1. info.count \in 0 .. Len(wal')
    <3>1. Len(wal') \in Nat
      BY DEF SourceSound
    <3> QED
      BY <1>1, <3>1, StatesKept
  <2>2. \A i \in 1 .. info.count : wal'[i] = wal[i] /\ Recorded(i)' = Recorded(i)
    BY <1>1, StatesKept
  <2>3. base' = base
    BY <1>1, StatesKept
  <2>4. DOMAIN commits' \subseteq {EndLsn(i) : i \in 1 .. info.count}
    BY <1>1, <1>7 DEF CommitsSound
  <2>5. info = [head |-> EndLsn(info.count), count |-> info.count, baselineRows |-> base]
        /\ \A i \in 1 .. info.count : ~wal[i].altered \/ wal[i].events = << >>
    BY <1>1 DEF CommitsSound
  <2> QED
    BY <1>2, <1>6, <1>7, <1>8, <2>1, <2>2, <2>3, <2>4, <2>5 DEF CommitsSound
<1> QED
  BY <1>3, <1>4, <1>5, <1>9 DEF StoreSound

--------------------------------------------------------------------------
(* The recorder.                                                           *)

\* The head that stands on the state after the source's i-th commit.
HeadOf(i) == [position |-> EndLsn(i), rows |-> RowsAfter(i)]

Overlays == [Keys -> {Untouched} \union [kind : {"row"}, row : Values \union {NoRow}]]

\* A row as the recorded rows and an overlay on them have it.
Seen(rows, overlay, k) == IF overlay[k] = Untouched THEN rows[k] ELSE overlay[k].row

ContextOf(i, sent) == IF sent = 0 THEN 0 ELSE i

\* What the assembler holds in a phase, on the head after i commits.
Holds(phase, i, commit, overlay, events, context, frames) ==
  /\ assembler = [phase |-> phase, head |-> HeadOf(i), commit |-> commit, overlay |-> overlay,
                  events |-> events, context |-> context, frames |-> frames, why |-> "none"]
  /\ events \in Seq(Event) /\ Len(events) <= MaxEvents
  /\ frames \in 0 .. MaxFrames

\* Where the stream stands.
Sent(txn, event, contexts, described) ==
  /\ sender = [txn |-> txn, event |-> event, relation |-> described, contexts |-> contexts]
  /\ event \in Nat /\ contexts \in Nat /\ described \in BOOLEAN

\* Between transactions: the next one is the first that is not recorded.
IdleSound ==
  \E i \in Nat :
    /\ i = info.count
    /\ \E m, o, v, x, f : Holds("idle", i, m, o, v, x, f)
    /\ \E e, c, r : Sent(i + 1, e, c, r)

\* What was collected is what was sent of the i-th commit: its events before
\* the e-th, the rows they leave, its context and the frames this took.
Collected(i, e, c, r, o, v, f) ==
  /\ e \in 1 .. Len(wal[i].events) + 1
  /\ wal[i].altered => e = 1
  /\ c \in 0 .. wal[i].contexts
  /\ Len(v) = e - 1
  /\ \A j \in 1 .. e - 1 : v[j] = wal[i].events[j]
  /\ o \in Overlays
  /\ \A k \in Keys :
       Seen(RowsAfter(i - 1), o, k) = RowsIn(RowsAfter(i - 1), wal[i].events, e - 1)[k]
  /\ f <= e + c + IF r THEN 1 ELSE 0

CollectingSound ==
  \E i \in 1 .. Len(wal) :
    /\ i = info.count + 1
    /\ \E e, c, r, o, v, f :
         /\ Holds("collecting", i - 1, i, o, v, ContextOf(i, c), f)
         /\ Sent(i, e, c, r)
         /\ Collected(i, e, c, r, o, v, f)

\* The whole of the i-th commit was collected.
WholeSound(phase, i) ==
  /\ i \in 1 .. Len(wal)
  /\ ~wal[i].altered \/ wal[i].events = << >>
  /\ \E o, f :
       Holds(phase, i - 1, i, o, wal[i].events, ContextOf(i, wal[i].contexts), f)
  /\ \E e, c, r : Sent(i + 1, e, c, r)

Running == assembler.phase \in {"idle", "collecting", "pending", "appended"}

AssemblerSound ==
  /\ assembler.phase \in Phases
  /\ Running => relation = FALSE
  /\ assembler.phase = "idle" => IdleSound
  /\ assembler.phase = "collecting" => CollectingSound
  /\ assembler.phase = "pending" => \E i : i = info.count + 1 /\ WholeSound("pending", i)
  /\ assembler.phase = "appended" => \E i : i = info.count /\ WholeSound("appended", i)
  /\ RefusedForCause

Sound == SourceSound /\ StoreSound /\ AssemblerSound

--------------------------------------------------------------------------
(* Every step of the store.                                                *)

\* What waits to be recorded is the source's next commit.
LEMMA AssembledIs ==
  ASSUME CommitsSound, SourceSound, AssemblerSound, assembler.phase = "pending"
  PROVE  \E i \in 1 .. Len(wal) :
           /\ i = info.count + 1
           /\ Assembled = Recorded(i)
           /\ ~wal[i].altered \/ wal[i].events = << >>
<1>1. PICK i : i = info.count + 1 /\ WholeSound("pending", i)
  BY DEF AssemblerSound
<1>2. PICK o, f : Holds("pending", i - 1, i, o, wal[i].events, ContextOf(i, wal[i].contexts), f)
  BY <1>1 DEF WholeSound
<1>3. /\ assembler.head.position = EndLsn(i - 1) /\ assembler.commit = i
      /\ assembler.context = ContextOf(i, wal[i].contexts) /\ assembler.events = wal[i].events
  BY <1>2 DEF Holds, HeadOf
<1>4. Assembled = Recorded(i)
  BY <1>3 DEF Assembled, Recorded, ContextOf
<1> QED
  BY <1>1, <1>4 DEF WholeSound

\* What is stored stays the source's, whatever step is taken.
LEMMA StoreKept ==
  ASSUME SourceSound, StoreSound, AssemblerSound, [Next]_vars, SourceSound', Extends
  PROVE  StoreSound'
<1>1. CASE UNCHANGED <<storedVars, checkpoints, verified, harmed>>
  BY <1>1, StoreSame
<1>2. CASE Resume \/ Stream \/ Confirm \/ GiveUp \/ Stop \/ Source \/ UNCHANGED vars
  <2>1. UNCHANGED <<storedVars, checkpoints, verified, harmed>>
    BY <1>2 DEF Resume, Stream, Confirm, GiveUp, Stop, Source, vars, checkpointVars, storedVars, otherVars
  <2> QED
    BY <1>1, <2>1
<1>3. CASE AppendDurable
  <2>1. harmed' = harmed
    BY <1>3 DEF AppendDurable, otherVars
  <2>2. CASE UNCHANGED checkpointVars
    BY <1>1, <2>1, <2>2 DEF checkpointVars, storedVars
  <2>3. CASE assembler.phase = "pending" /\ StoreCommit(Assembled, ~shared)
    <3>1. CommitsSound
      BY DEF StoreSound
    <3>2. PICK i \in 1 .. Len(wal) :
            /\ i = info.count + 1
            /\ Assembled = Recorded(i)
            /\ ~wal[i].altered \/ wal[i].events = << >>
      BY <2>3, <3>1, AssembledIs
    <3>3. StoreCommit(Recorded(i), ~shared)
      BY <2>3, <3>2, Zenon
    <3>4. (~shared) \in BOOLEAN
      OBVIOUS
    <3>5. i <= Len(wal)
      BY <3>2, SourceTypes
    <3> QED
      BY <2>1, <3>2, <3>3, <3>4, <3>5, StoreCommitSound
  <2> QED
    BY <1>3, <2>2, <2>3 DEF AppendDurable
<1>4. CASE Crash
  BY <1>4, StoreSame DEF Crash
<1>5. CASE Viewer
  <2>1. harmed' = harmed
    BY <1>5 DEF Viewer, otherVars
  <2>2. CASE \E p \in {0} \union DOMAIN commits : PublishCheckpoint(p)
    BY <2>1, <2>2, StorePublishSound
  <2>3. CASE \E c \in DOMAIN checkpoints : RemoveCheckpoint(c)
    BY <2>1, <2>3, StoreRemoveSound
  <2>4. CASE \E c \in DOMAIN checkpoints : ReadCheckpoint(c)
    BY <2>1, <2>4, StoreReadSound
  <2> QED
    BY <1>5, <2>2, <2>3, <2>4 DEF Viewer
<1>6. CASE Damage
  <2>1. CASE \E c \in DOMAIN checkpoints : DamageCheckpoint(c) /\ UNCHANGED harmed
    BY <2>1, StoreDamageSound
  <2>2. CASE DamageHistory /\ harmed' = TRUE
    BY <2>2, StoreHarmSound
  <2> QED
    BY <1>6, <2>1, <2>2 DEF Damage
<1> QED
  BY <1>2, <1>3, <1>4, <1>5, <1>6 DEF Next, Recorder

--------------------------------------------------------------------------
(* What the assembler makes of a change.                                   *)

\* An event that applies: the row it is about is the one it names, and these
\* are the rows that it leaves.
LEMMA EventDone ==
  ASSUME NEW rows \in Table, NEW event \in Event, ApplyEvent(rows, event) \in Table
  PROVE  /\ event.before \in Image \union {NoRow} /\ event.after \in Image \union {NoRow}
         /\ event = [before |-> event.before, after |-> event.after]
         /\ event.before # NoRow =>
              /\ event.before.key \in Keys /\ event.before.value \in Values
              /\ rows[event.before.key] = event.before.value
         /\ event.after # NoRow => event.after.key \in Keys /\ event.after.value \in Values
         /\ \A k \in Keys :
              ApplyEvent(rows, event)[k] =
                IF event.after # NoRow /\ event.after.key = k THEN event.after.value
                ELSE IF event.before # NoRow /\ event.before.key = k THEN NoRow ELSE rows[k]
<1>1. /\ event.before \in Image \union {NoRow} /\ event.after \in Image \union {NoRow}
      /\ event = [before |-> event.before, after |-> event.after]
  BY DEF Event
<1>2. event.before # NoRow => event.before.key \in Keys /\ event.before.value \in Values
  BY <1>1 DEF Image
<1>3. event.after # NoRow => event.after.key \in Keys /\ event.after.value \in Values
  BY <1>1 DEF Image
<1>4. ApplyEvent(rows, event) # Broken /\ ApplyEvent(rows, event) # TooLarge
  BY NoRowAssumption
<1>5. ~Stale(rows, event)
  BY <1>4 DEF ApplyEvent
<1> DEFINE kept == Without(rows, event)
<1>6. /\ kept \in Table
      /\ \A k \in Keys : kept[k] = IF event.before # NoRow /\ event.before.key = k THEN NoRow ELSE rows[k]
  BY <1>2 DEF Without, Table
<1>7. ApplyEvent(rows, event) = IF event.after = NoRow THEN kept
                                ELSE [kept EXCEPT ![event.after.key] = event.after.value]
  BY <1>4, <1>5 DEF ApplyEvent
<1> HIDE DEF kept
<1>8. \A k \in Keys :
         ApplyEvent(rows, event)[k] =
           IF event.after # NoRow /\ event.after.key = k THEN event.after.value
           ELSE IF event.before # NoRow /\ event.before.key = k THEN NoRow ELSE rows[k]
  <2>1. CASE event.after = NoRow
    BY <1>6, <1>7, <2>1
  <2>2. CASE event.after # NoRow
    <3>1. ApplyEvent(rows, event) = [kept EXCEPT ![event.after.key] = event.after.value]
      BY <1>7, <2>2
    <3>2. DOMAIN kept = Keys
      BY <1>6 DEF Table
    <3> QED
      BY <1>3, <1>6, <2>2, <3>1, <3>2
  <2> QED
    BY <2>1, <2>2
<1> QED
  BY <1>1, <1>2, <1>3, <1>5, <1>8 DEF Stale

\* An image is completed from the row it is compared with.
LEMMA Completes ==
  ASSUME NEW image \in Image, NEW previous
  PROVE  /\ Unsent(image) # NoRow /\ Unsent(image).key = image.key /\ image # NoRow
         /\ Complete(image, previous) = image
         /\ previous.big = image.value.big => Complete(Unsent(image), previous) = image
<1>1. image.key \in Keys /\ image.value \in Values /\ image = [key |-> image.key, value |-> image.value]
  BY DEF Image
<1>2. /\ image.value = [small |-> image.value.small, big |-> image.value.big]
      /\ image.value.small \in Smalls /\ image.value.big # Unchanged
  BY <1>1, PartsOfValues
<1>3. PICK k, s, b :
        /\ image = [key |-> k, value |-> [small |-> s, big |-> b]]
        /\ k \in Keys /\ s \in Smalls /\ b # Unchanged
  <2>1. image = [key |-> image.key, value |-> [small |-> image.value.small, big |-> image.value.big]]
    BY <1>1, <1>2
  <2> QED
    BY <1>1, <1>2, <2>1, Zenon
<1>4. Unsent(image) = [key |-> k, value |-> [small |-> s, big |-> Unchanged]]
  BY <1>3 DEF Unsent
<1>5. Unsent(image) # NoRow /\ Unsent(image).key = image.key /\ image # NoRow
  BY <1>3, <1>4, PartsAssumption, NoRowAssumption
<1>6. Complete(image, previous) = image
  BY <1>2 DEF Complete
<1>7. previous.big = image.value.big => Complete(Unsent(image), previous) = image
  BY <1>3, <1>4 DEF Complete
<1> QED
  BY <1>5, <1>6, <1>7

\* A change is recorded as the event it was, whatever parts of it were not sent.
LEMMA ChangeIs ==
  ASSUME NEW rows \in Table, NEW event \in Event, ApplyEvent(rows, event) \in Table,
         relation = FALSE, \A k \in Keys : ReadRow(k) = rows[k],
         NEW old \in Images(event.before, TRUE),
         NEW new \in Images(event.after, event.before # NoRow /\ event.after # NoRow
                                           /\ event.after.value.big = event.before.value.big)
  PROVE  Change(old, new) =
           IF Len(assembler.events) >= MaxEvents THEN Closed("limit")
           ELSE [assembler EXCEPT !.events = Append(@, event), !.overlay = Record(event)]
<1> DEFINE previous == IF old = NoRow THEN NoRow ELSE ReadRow(old.key)
           before == IF old = NoRow THEN NoRow ELSE Complete(old, previous)
           after == IF new = NoRow THEN NoRow
                    ELSE IF old = NoRow THEN new ELSE Complete(new, before.value)
<1>1. /\ event.before \in Image \union {NoRow} /\ event.after \in Image \union {NoRow}
      /\ event = [before |-> event.before, after |-> event.after]
      /\ event.before # NoRow =>
           event.before \in Image /\ event.before.key \in Keys /\ event.before.value \in Values
             /\ rows[event.before.key] = event.before.value
      /\ event.after # NoRow => event.after \in Image
  BY EventDone
<1>2. \A v \in Values : v # NoRow
  BY NoRowAssumption
<1>3. /\ old = NoRow <=> event.before = NoRow
      /\ before = event.before
      /\ old # NoRow => previous # NoRow /\ before.value = previous
  <2>1. CASE event.before = NoRow
    <3>1. old = NoRow
      BY <2>1 DEF Images
    <3> QED
      BY <2>1, <3>1
  <2>2. CASE event.before # NoRow
    <3>1. old = event.before \/ old = Unsent(event.before)
      BY <2>2 DEF Images
    <3>2. old # NoRow /\ old.key = event.before.key
      BY <1>1, <2>2, <3>1, Completes
    <3>3. previous = event.before.value
      BY <1>1, <2>2, <3>2
    <3> HIDE DEF previous
    <3>4. Complete(old, previous) = event.before
      BY <1>1, <2>2, <3>1, <3>3, Completes
    <3>5. previous # NoRow
      BY <1>1, <1>2, <2>2, <3>3
    <3> QED
      BY <2>2, <3>2, <3>3, <3>4, <3>5
  <2> QED
    BY <2>1, <2>2
<1>4. after = event.after
  <2> HIDE DEF before
  <2>1. CASE event.after = NoRow
    <3>1. new = NoRow
      BY <2>1 DEF Images
    <3> QED
      BY <2>1, <3>1
  <2>2. CASE event.after # NoRow /\ event.before = NoRow
    <3>1. new = event.after
      BY <2>2 DEF Images
    <3> QED
      BY <1>3, <2>2, <3>1
  <2>3. CASE event.after # NoRow /\ event.before # NoRow
    <3>1. \/ new = event.after
          \/ new = Unsent(event.after) /\ event.after.value.big = event.before.value.big
      BY <2>3 DEF Images
    <3>2. new # NoRow /\ Complete(new, before.value) = event.after
      BY <1>1, <1>3, <2>3, <3>1, Completes
    <3> QED
      BY <1>3, <2>3, <3>2
  <2> QED
    BY <2>1, <2>2, <2>3
<1>5. [before |-> before, after |-> after] = event
  BY <1>1, <1>3, <1>4
<1>6. Change(old, new) =
        IF relation THEN Closed("schema")
        ELSE IF old # NoRow /\ previous = NoRow THEN Closed("invalid")
        ELSE IF old # NoRow /\ before.value # previous THEN Closed("invalid")
        ELSE IF Len(assembler.events) >= MaxEvents THEN Closed("limit")
        ELSE [assembler EXCEPT !.events = Append(@, [before |-> before, after |-> after]),
                               !.overlay = Record([before |-> before, after |-> after])]
  BY DEF Change
<1> HIDE DEF previous, before, after
<1> QED
  BY <1>3, <1>5, <1>6

\* The overlay of a recorded event shows the rows that the event leaves.
LEMMA RecordShows ==
  ASSUME NEW head \in Table, NEW rows \in Table, NEW event \in Event,
         ApplyEvent(rows, event) \in Table,
         assembler.overlay \in Overlays,
         \A k \in Keys : Seen(head, assembler.overlay, k) = rows[k]
  PROVE  /\ Record(event) \in Overlays
         /\ \A k \in Keys : Seen(head, Record(event), k) = ApplyEvent(rows, event)[k]
<1> DEFINE o == assembler.overlay
           gone == [kind |-> "row", row |-> NoRow]
           put == [kind |-> "row", row |-> event.after.value]
           removed == IF event.before = NoRow THEN o ELSE [o EXCEPT ![event.before.key] = gone]
           V == {Untouched} \union [kind : {"row"}, row : Values \union {NoRow}]
<1>1. /\ event.before # NoRow => event.before.key \in Keys
      /\ event.after # NoRow => event.after.key \in Keys /\ event.after.value \in Values
      /\ \A k \in Keys :
           ApplyEvent(rows, event)[k] =
             IF event.after # NoRow /\ event.after.key = k THEN event.after.value
             ELSE IF event.before # NoRow /\ event.before.key = k THEN NoRow ELSE rows[k]
  BY EventDone
<1>2. /\ gone \in V /\ gone # Untouched /\ gone.row = NoRow
      /\ event.after # NoRow => put \in V /\ put # Untouched /\ put.row = event.after.value
  <2>1. \A x : /\ [kind |-> "row", row |-> x].kind = "row"
               /\ [kind |-> "row", row |-> x].row = x
               /\ Untouched.kind = "untouched"
    BY DEF Untouched
  <2>2. \A x : [kind |-> "row", row |-> x] # Untouched /\ [kind |-> "row", row |-> x].row = x
    BY <2>1
  <2>3. \A x \in Values \union {NoRow} : [kind |-> "row", row |-> x] \in V
    OBVIOUS
  <2> HIDE DEF V
  <2> QED
    BY <1>1, <2>2, <2>3
<1>3. o \in [Keys -> V]
  BY DEF Overlays
<1> HIDE DEF o, gone, put, V
<1>4. /\ removed \in [Keys -> V]
      /\ \A k \in Keys : removed[k] = IF event.before # NoRow /\ event.before.key = k THEN gone ELSE o[k]
  BY <1>1, <1>2, <1>3
<1>5. Record(event) = IF event.after = NoRow THEN removed ELSE [removed EXCEPT ![event.after.key] = put]
  BY DEF Record, o, gone, put
<1> HIDE DEF removed
<1>6. /\ Record(event) \in [Keys -> V]
      /\ \A k \in Keys : Record(event)[k] =
           IF event.after # NoRow /\ event.after.key = k THEN put ELSE removed[k]
  BY <1>1, <1>2, <1>4, <1>5
<1>7. \A k \in Keys : Seen(head, Record(event), k) = ApplyEvent(rows, event)[k]
  <2> TAKE k \in Keys
  <2>1. Seen(head, o, k) = rows[k]
    BY DEF o
  <2>2. CASE event.after # NoRow /\ event.after.key = k
    BY <1>1, <1>2, <1>6, <2>2 DEF Seen
  <2>3. CASE ~(event.after # NoRow /\ event.after.key = k) /\ event.before # NoRow /\ event.before.key = k
    BY <1>1, <1>2, <1>4, <1>6, <2>3 DEF Seen
  <2>4. CASE ~(event.after # NoRow /\ event.after.key = k) /\ ~(event.before # NoRow /\ event.before.key = k)
    BY <1>1, <1>4, <1>6, <2>1, <2>4 DEF Seen
  <2> QED
    BY <2>2, <2>3, <2>4
<1> QED
  BY <1>6, <1>7 DEF Overlays, V

--------------------------------------------------------------------------
(* Every step of the recorder.                                             *)

\* A frame is counted, or it is one too many.
LEMMA FrameIs ==
  ASSUME NEW f \in Nat, assembler.frames = f, NEW next
  PROVE  \/ f >= MaxFrames /\ Frame(next) = Closed("limit")
         \/ f + 1 \in 0 .. MaxFrames /\ next.phase = "closed" /\ Frame(next) = next
         \/ /\ f + 1 \in 0 .. MaxFrames /\ next.phase # "closed"
            /\ Frame(next) = [next EXCEPT !.frames = @ + 1]
BY LimitsAssumption DEF Frame

\* A stream that was closed for a cause.
LEMMA ClosedSound ==
  ASSUME NEW why, assembler' = Closed(why), why # "invalid",
         why = "schema"  => \E i \in DOMAIN wal' : wal'[i].altered,
         why = "limit"   => \E i \in DOMAIN wal' : TooMuch(wal'[i]),
         why = "context" => \E i \in DOMAIN wal' : wal'[i].contexts > 1
  PROVE  AssemblerSound'
<1>1. assembler'.phase = "closed" /\ assembler'.why = why
  BY DEF Closed
<1>2. RefusedForCause'
  BY <1>1 DEF RefusedForCause, TooMuch
<1> QED
  BY <1>1, <1>2 DEF AssemblerSound, Phases, Running

\* No stream is open.
LEMMA DownSound == ASSUME assembler' = Down PROVE AssemblerSound'
<1>1. assembler'.phase = "down"
  BY DEF Down
<1> QED
  BY <1>1 DEF AssemblerSound, Phases, Running, RefusedForCause

\* Whoever else acts: what the recorder holds is what it was, of commits that are
\* what they were.
LEMMA AssemblerSame ==
  ASSUME SourceSound, CommitsSound, AssemblerSound, SourceSound', Extends,
         UNCHANGED streamVars, info' = info
  PROVE  AssemblerSound'
<1>1. assembler' = assembler /\ sender' = sender /\ relation' = relation
  BY DEF streamVars
<1>2. /\ Len(wal) \in Nat /\ Len(wal') \in Nat /\ 1 .. Len(wal) \subseteq 1 .. Len(wal')
      /\ DOMAIN wal = 1 .. Len(wal) /\ DOMAIN wal' = 1 .. Len(wal')
      /\ \A i \in 1 .. Len(wal) : wal'[i] = wal[i]
      /\ info.count \in Nat /\ info.count <= Len(wal)
  <2>1. Len(wal) \in Nat /\ DOMAIN wal = 1 .. Len(wal)
    BY SourceTypes
  <2>2. Len(wal') \in Nat /\ DOMAIN wal' = 1 .. Len(wal') /\ Len(wal) <= Len(wal')
    BY DEF SourceSound, Extends
  <2> QED
    BY <2>1, <2>2, CommitsTypes DEF Extends
<1>3. \A i \in 0 .. Len(wal) : RowsAfter(i)' = RowsAfter(i) /\ HeadOf(i)' = HeadOf(i)
  BY DEF Extends, HeadOf
<1>4. \A phase, m, o, v, x, f : \A i \in 0 .. Len(wal) :
        Holds(phase, i, m, o, v, x, f) => Holds(phase, i, m, o, v, x, f)'
  BY <1>1, <1>3 DEF Holds
<1>5. \A i, e, c, r : Sent(i, e, c, r) => Sent(i, e, c, r)'
  BY <1>1 DEF Sent
<1>6. ASSUME assembler.phase = "idle" PROVE IdleSound'
  <2>1. PICK i \in Nat : /\ i = info.count
                         /\ \E m, o, v, x, f : Holds("idle", i, m, o, v, x, f)
                         /\ \E e, c, r : Sent(i + 1, e, c, r)
    BY <1>6 DEF AssemblerSound, IdleSound
  <2>2. i \in 0 .. Len(wal)
    BY <1>2, <2>1
  <2>3. \E m, o, v, x, f : Holds("idle", i, m, o, v, x, f)'
    BY <1>4, <2>1, <2>2
  <2>4. \E e, c, r : Sent(i + 1, e, c, r)'
    BY <1>5, <2>1
  <2> QED
    BY <2>1, <2>3, <2>4 DEF IdleSound
<1>7. ASSUME assembler.phase = "collecting" PROVE CollectingSound'
  <2>1. PICK i, e, c, r, o, v, f :
          /\ i \in 1 .. Len(wal) /\ i = info.count + 1
          /\ Holds("collecting", i - 1, i, o, v, ContextOf(i, c), f)
          /\ Sent(i, e, c, r)
          /\ Collected(i, e, c, r, o, v, f)
    BY <1>7 DEF AssemblerSound, CollectingSound
  <2>2. i \in 1 .. Len(wal) /\ i - 1 \in 0 .. Len(wal) /\ i \in 1 .. Len(wal')
    BY <1>2, <2>1
  <2>3. Holds("collecting", i - 1, i, o, v, ContextOf(i, c), f)' /\ Sent(i, e, c, r)'
    BY <1>4, <1>5, <2>1, <2>2
  <2>4. wal'[i] = wal[i] /\ RowsAfter(i - 1)' = RowsAfter(i - 1)
    BY <1>2, <1>3, <2>2
  <2>5. Collected(i, e, c, r, o, v, f)'
    BY <2>1, <2>4 DEF Collected
  <2> QED
    BY <2>1, <2>2, <2>3, <2>5 DEF CollectingSound
<1>8. ASSUME NEW phase, NEW i, WholeSound(phase, i) PROVE WholeSound(phase, i)'
  <2>1. i \in 1 .. Len(wal) /\ i \in 1 .. Len(wal') /\ wal'[i] = wal[i] /\ i - 1 \in 0 .. Len(wal)
    BY <1>2, <1>8 DEF WholeSound
  <2>2. PICK o, f : Holds(phase, i - 1, i, o, wal[i].events, ContextOf(i, wal[i].contexts), f)
    BY <1>8 DEF WholeSound
  <2>3. \A v, x : v = wal[i].events /\ x = ContextOf(i, wal[i].contexts) =>
          Holds(phase, i - 1, i, o, v, x, f)'
    BY <1>4, <2>1, <2>2
  <2>4. \E e, c, r : Sent(i + 1, e, c, r)'
    BY <1>5, <1>8 DEF WholeSound
  <2>5. \E p, g : Holds(phase, i - 1, i, p, wal[i].events, ContextOf(i, wal[i].contexts), g)'
    BY <2>1, <2>3
  <2> QED
    BY <1>8, <2>1, <2>4, <2>5 DEF WholeSound
<1>9. RefusedForCause'
  <2>1. \A i \in DOMAIN wal : i \in DOMAIN wal' /\ wal'[i] = wal[i]
    BY <1>2
  <2> QED
    BY <1>1, <2>1 DEF AssemblerSound, RefusedForCause, TooMuch
<1>10. assembler.phase = "pending" => \E i : i = info'.count + 1 /\ WholeSound("pending", i)'
  BY <1>8 DEF AssemblerSound
<1>11. assembler.phase = "appended" => \E i : i = info'.count /\ WholeSound("appended", i)'
  BY <1>8 DEF AssemblerSound
<1> QED
  BY <1>1, <1>6, <1>7, <1>9, <1>10, <1>11 DEF AssemblerSound, Running

\* A stream is resumed on the recorded rows.
LEMMA ResumeSound ==
  ASSUME SourceSound, StoreSound, AssemblerSound, SourceSound', Extends, Resume
  PROVE  AssemblerSound'
<1>1. CommitsSound /\ CheckpointsSound
  BY DEF StoreSound
<1> DEFINE n == info.count
<1>2. n \in Nat /\ n <= Len(wal) /\ Len(wal) \in Nat /\ info.head = EndLsn(n)
  BY <1>1, CommitsTypes, SourceTypes
<1>3. RestoredHead.rows = RowsAfter(n)
  <2>1. RestoredHead # Failed
    BY DEF Resume
  <2>2. CASE info.head = 0
    <3>1. n = 0
      BY <1>2, <2>2, EndLsns
    <3>2. RestoredHead = Restored(EndLsn(0))
      BY <2>2, EndLsns DEF RestoredHead
    <3>3. Restored(EndLsn(0)) = [kind |-> "state", position |-> EndLsn(0), rows |-> RowsAfter(0)]
      BY <1>1, <2>1, <3>2, RestoredIs
    <3> QED
      BY <3>1, <3>2, <3>3
  <2>3. CASE info.head # 0
    <3>1. n \in 1 .. info.count /\ n - 1 \in Nat /\ n \in 1 .. Len(wal)
      <4>1. n # 0
        BY <1>2, <2>3, EndLsns
      <4> QED
        BY <1>2, <4>1
    <3>2. info.head \in DOMAIN commits
      BY <2>1, <2>3 DEF RestoredHead
    <3>3. commits[info.head].commit = Recorded(n)
      BY <1>1, <1>2, <3>1, <3>2, CommitsTypes
    <3>4. Recorded(n).previous = EndLsn(n - 1) /\ Recorded(n).events = wal[n].events
      BY DEF Recorded
    <3> DEFINE before == Restored(EndLsn(n - 1))
               rows == ApplyEvents(before.rows, wal[n].events)
    <3> HIDE DEF n
    <3>5. RestoredHead = IF before = Failed THEN Failed
                         ELSE IF rows \in {Broken, TooLarge} THEN Failed
                         ELSE [kind |-> "state", position |-> info.head, rows |-> rows]
      BY <2>1, <2>3, <3>3, <3>4 DEF RestoredHead
    <3>6. before # Failed
      BY <2>1, <3>5
    <3>7. before = [kind |-> "state", position |-> EndLsn(n - 1), rows |-> RowsAfter(n - 1)]
      BY <1>1, <3>1, <3>6, RestoredIs
    <3> HIDE DEF before
    <3>8. before.rows = RowsAfter(n - 1)
      BY <3>7
    <3>9. rows = RowsAfter(n)
      BY <3>1, <3>8, SourceTypes
    <3> HIDE DEF rows
    <3>10. RestoredHead = [kind |-> "state", position |-> info.head, rows |-> rows]
      BY <2>1, <3>5
    <3> QED
      BY <3>9, <3>10
  <2> QED
    BY <2>2, <2>3
<1>4. /\ assembler' = [phase |-> "idle", head |-> HeadOf(n), commit |-> 0, overlay |-> << >>,
                       events |-> << >>, context |-> 0, frames |-> 0, why |-> "none"]
      /\ sender' = [txn |-> n + 1, event |-> 0, relation |-> FALSE, contexts |-> 0]
      /\ relation' = FALSE
  <2>1. EndLsn(n) \div 2 = n
    BY <1>2, EndLsns
  <2>2. StartAssembler(HeadOf(n))
    BY <1>2, <1>3 DEF Resume, HeadOf
  <2>3. HeadOf(n).position = EndLsn(n)
    BY DEF HeadOf
  <2> HIDE DEF n
  <2> QED
    BY <2>1, <2>2, <2>3 DEF StartAssembler, NotSending
<1>5. info' = info /\ UNCHANGED sourceVars
  BY DEF Resume, checkpointVars
<1> HIDE DEF n
<1>6. \A i : i = n => HeadOf(i)' = HeadOf(i)
  BY <1>2 DEF Extends, HeadOf
<1>7. \A i : i = n => Holds("idle", i, 0, << >>, << >>, 0, 0)' /\ Sent(i + 1, 0, 0, FALSE)'
  BY <1>4, <1>6, LimitsAssumption DEF Holds, Sent
<1>8. IdleSound'
  <2>1. info'.count = n
    BY <1>5 DEF n
  <2> QED
    BY <1>2, <1>7, <2>1 DEF IdleSound
<1>9. assembler'.phase = "idle"
  BY <1>4
<1> QED
  BY <1>4, <1>8, <1>9 DEF AssemblerSound, Phases, Running, RefusedForCause

\* A begun transaction.
LEMMA PushBeginSound ==
  ASSUME SourceSound, CommitsSound, AssemblerSound, Extends, PushBegin, UNCHANGED <<sourceVars, info>>
  PROVE  AssemblerSound'
<1>1. PICK i \in Nat : /\ i = info.count
                       /\ \E m, o, v, x, f : Holds("idle", i, m, o, v, x, f)
                       /\ \E e, c, r : Sent(i + 1, e, c, r)
  BY DEF PushBegin, AssemblerSound, IdleSound
<1>2. PICK m, o, v, x, f : Holds("idle", i, m, o, v, x, f)
  BY <1>1
<1>3. PICK e, c, r : Sent(i + 1, e, c, r)
  BY <1>1
<1>4. /\ sender = [txn |-> i + 1, event |-> e, relation |-> r, contexts |-> c] /\ r \in BOOLEAN
      /\ sender.txn = i + 1
  BY <1>3 DEF Sent
<1>5. /\ assembler = [phase |-> "idle", head |-> HeadOf(i), commit |-> m, overlay |-> o,
                      events |-> v, context |-> x, frames |-> f, why |-> "none"]
      /\ assembler.head.position = EndLsn(i)
  BY <1>2 DEF Holds, HeadOf
<1>6. i + 1 \in 1 .. Len(wal) /\ Len(wal) \in Nat /\ i \in 0 .. Len(wal)
  <2>1. i + 1 <= Len(wal) /\ Len(wal) \in Nat
    BY <1>4, SourceTypes DEF PushBegin
  <2> QED
    BY <2>1
<1>7. ~(CommitLsn(sender.txn) < assembler.head.position)
  BY <1>4, <1>5 DEF CommitLsn, EndLsn
<1> DEFINE none == [k \in Keys |-> Untouched]
<1>8. /\ assembler' = [phase |-> "collecting", head |-> HeadOf(i), commit |-> i + 1, overlay |-> none,
                       events |-> << >>, context |-> 0, frames |-> 1, why |-> "none"]
      /\ sender' = [txn |-> i + 1, event |-> 1, relation |-> r, contexts |-> 0]
      /\ relation' = relation
  <2> HIDE DEF none
  <2>1. assembler' = [assembler EXCEPT !.phase = "collecting", !.commit = sender.txn, !.overlay = none,
                                       !.events = << >>, !.context = 0, !.frames = 1]
    BY <1>7 DEF PushBegin, none
  <2>2. sender' = [sender EXCEPT !.event = 1, !.contexts = 0] /\ relation' = relation
    BY DEF PushBegin
  <2> QED
    BY <1>4, <1>5, <2>1, <2>2
<1>9. none \in Overlays /\ \A rows : \A k \in Keys : Seen(rows, none, k) = rows[k]
  BY DEF Overlays, Seen
<1> HIDE DEF none
<1>10. \A j : j = i + 1 => /\ Holds("collecting", j - 1, j, none, << >>, ContextOf(j, 0), 1)'
                           /\ Sent(j, 1, 0, r)'
                           /\ Collected(j, 1, 0, r, none, << >>, 1)'
                           /\ j \in 1 .. Len(wal')
  <2> TAKE j
  <2> HAVE j = i + 1
  <2>1. j \in 1 .. Len(wal) /\ j - 1 = i /\ wal' = wal
    BY <1>6 DEF sourceVars
  <2>2. HeadOf(j - 1)' = HeadOf(j - 1) /\ RowsAfter(j - 1)' = RowsAfter(j - 1)
    BY <1>6, <2>1 DEF Extends, HeadOf
  <2>3. Holds("collecting", j - 1, j, none, << >>, ContextOf(j, 0), 1)'
    BY <1>8, <2>1, <2>2, LimitsAssumption DEF Holds, ContextOf
  <2>4. Sent(j, 1, 0, r)'
    BY <1>4, <1>8 DEF Sent
  <2>5. wal[j].events \in Seq(Event) /\ Len(wal[j].events) \in Nat /\ wal[j].contexts \in Nat
        /\ RowsAfter(j - 1) \in Table
    BY <2>1, SourceTypes
  <2>6. RowsIn(RowsAfter(j - 1), wal[j].events, 0) = RowsAfter(j - 1)
    BY <2>5, RowsInSteps DEF Results
  <2>7. Collected(j, 1, 0, r, none, << >>, 1)
    BY <1>4, <1>9, <2>5, <2>6 DEF Collected
  <2>8. Collected(j, 1, 0, r, none, << >>, 1)'
    BY <2>1, <2>2, <2>7 DEF Collected
  <2> QED
    BY <2>1, <2>3, <2>4, <2>8
<1>11. CollectingSound'
  BY <1>1, <1>10 DEF CollectingSound
<1>12. assembler'.phase = "collecting" /\ relation = FALSE
  BY <1>8 DEF PushBegin, AssemblerSound, Running
<1> QED
  BY <1>8, <1>11, <1>12 DEF AssemblerSound, Phases, Running, RefusedForCause

\* What is being collected, by its parts, in a step that leaves it the next
\* of the source's commits.
Parts(i, e, c, r, o, v, f) ==
  /\ i \in 1 .. Len(wal) /\ i = info.count + 1 /\ i \in DOMAIN wal'
  /\ Holds("collecting", i - 1, i, o, v, ContextOf(i, c), f)
  /\ Sent(i, e, c, r)
  /\ Collected(i, e, c, r, o, v, f)
  /\ e \in Nat /\ c \in Nat /\ r \in BOOLEAN /\ f \in 0 .. MaxFrames
  /\ v \in Seq(Event) /\ Len(v) <= MaxEvents
  /\ assembler = [phase |-> "collecting", head |-> HeadOf(i - 1), commit |-> i,
                  overlay |-> o, events |-> v, context |-> ContextOf(i, c),
                  frames |-> f, why |-> "none"]
  /\ sender = [txn |-> i, event |-> e, relation |-> r, contexts |-> c]
  /\ Sending = wal[i] /\ wal'[i] = wal[i]
  /\ relation = FALSE
  /\ HeadOf(i - 1)' = HeadOf(i - 1) /\ RowsAfter(i - 1)' = RowsAfter(i - 1)
  /\ RowsAfter(i - 1) \in Table /\ RowsAfter(i) \in Table
  /\ wal[i].events \in Seq(Event) /\ Len(wal[i].events) \in Nat /\ wal[i].contexts \in Nat
  /\ RowsAfter(i) = ApplyEvents(RowsAfter(i - 1), wal[i].events)

\* These are the parts of what is being collected.
LEMMA CollectingIs ==
  ASSUME SourceSound, CommitsSound, AssemblerSound, assembler.phase = "collecting",
         UNCHANGED <<sourceVars, info>>, Extends
  PROVE  \E i, e, c, r, o, v, f : Parts(i, e, c, r, o, v, f)
<1>1. PICK i, e, c, r, o, v, f :
        /\ i \in 1 .. Len(wal) /\ i = info.count + 1
        /\ Holds("collecting", i - 1, i, o, v, ContextOf(i, c), f)
        /\ Sent(i, e, c, r)
        /\ Collected(i, e, c, r, o, v, f)
  BY DEF AssemblerSound, CollectingSound
<1>2. /\ assembler = [phase |-> "collecting", head |-> HeadOf(i - 1), commit |-> i,
                      overlay |-> o, events |-> v, context |-> ContextOf(i, c),
                      frames |-> f, why |-> "none"]
      /\ f \in 0 .. MaxFrames /\ v \in Seq(Event) /\ Len(v) <= MaxEvents
  BY <1>1 DEF Holds
<1>3. /\ sender = [txn |-> i, event |-> e, relation |-> r, contexts |-> c]
      /\ e \in Nat /\ c \in Nat /\ r \in BOOLEAN
  BY <1>1 DEF Sent
<1>4. sender.txn = i
  BY <1>3
<1>5. Sending = wal[i] /\ wal' = wal
  BY <1>4 DEF Sending, sourceVars
<1>6. relation = FALSE
  BY DEF AssemblerSound, Running
<1>7. i - 1 \in 0 .. Len(wal) /\ DOMAIN wal = 1 .. Len(wal) /\ i \in DOMAIN wal'
  BY <1>1, <1>5, SourceTypes
<1>8. HeadOf(i - 1)' = HeadOf(i - 1) /\ RowsAfter(i - 1)' = RowsAfter(i - 1)
  BY <1>7 DEF Extends, HeadOf
<1>9. /\ RowsAfter(i - 1) \in Table /\ RowsAfter(i) \in Table
      /\ wal[i].events \in Seq(Event) /\ Len(wal[i].events) \in Nat /\ wal[i].contexts \in Nat
      /\ RowsAfter(i) = ApplyEvents(RowsAfter(i - 1), wal[i].events)
  BY <1>1, SourceTypes
<1> QED
  BY <1>1, <1>2, <1>3, <1>5, <1>6, <1>7, <1>8, <1>9, Zenon DEF Parts

\* What is collected next.
LEMMA StillCollecting ==
  ASSUME NEW i, NEW e, NEW c, NEW r, NEW o, NEW v, NEW f,
         i \in 1 .. Len(wal), i = info.count + 1, UNCHANGED <<sourceVars, info>>,
         HeadOf(i - 1)' = HeadOf(i - 1), RowsAfter(i - 1)' = RowsAfter(i - 1),
         assembler' = [phase |-> "collecting", head |-> HeadOf(i - 1), commit |-> i,
                       overlay |-> o, events |-> v, context |-> ContextOf(i, c),
                       frames |-> f, why |-> "none"],
         v \in Seq(Event), Len(v) <= MaxEvents, f \in 0 .. MaxFrames,
         sender' = [txn |-> i, event |-> e, relation |-> r, contexts |-> c],
         e \in Nat, c \in Nat, r \in BOOLEAN, relation' = FALSE,
         Collected(i, e, c, r, o, v, f)
  PROVE  AssemblerSound'
<1>1. wal' = wal /\ info' = info
  BY DEF sourceVars
<1>2. \A x : x = ContextOf(i, c) => Holds("collecting", i - 1, i, o, v, x, f)'
  BY DEF Holds
<1>3. Holds("collecting", i - 1, i, o, v, ContextOf(i, c), f)'
  BY <1>2 DEF ContextOf
<1>4. Sent(i, e, c, r)'
  BY DEF Sent
<1>5. Collected(i, e, c, r, o, v, f)'
  BY <1>1 DEF Collected
<1>6. CollectingSound'
  BY <1>1, <1>3, <1>4, <1>5 DEF CollectingSound
<1>7. assembler'.phase = "collecting"
  OBVIOUS
<1> QED
  BY <1>6, <1>7 DEF AssemblerSound, Phases, Running, RefusedForCause

\* A commit near the limits of a transaction is refused for that.
LEMMA LimitHasCause ==
  ASSUME NEW i, i \in DOMAIN wal', wal'[i] = wal[i], TooMuch(wal[i]), assembler' = Closed("limit")
  PROVE  AssemblerSound'
<1>1. TooMuch(wal'[i])
  OBVIOUS
<1> QED
  BY <1>1, ClosedSound

\* More frames than a transaction may have are those of a commit near the limits.
LEMMA FramesHaveCause ==
  ASSUME NEW i, NEW e, NEW c, NEW r, NEW o, NEW v, NEW f, Parts(i, e, c, r, o, v, f), f >= MaxFrames
  PROVE  TooMuch(wal[i])
<1>1. /\ e \in 1 .. Len(wal[i].events) + 1 /\ c \in 0 .. wal[i].contexts
      /\ f <= e + c + (IF r THEN 1 ELSE 0)
  BY DEF Parts, Collected
<1>2. e \in Nat /\ c \in Nat /\ f \in Nat /\ Len(wal[i].events) \in Nat /\ wal[i].contexts \in Nat
      /\ MaxFrames \in Nat
  BY LimitsAssumption DEF Parts
<1>3. f <= e + c + 1
  BY <1>1, <1>2
<1>4. Len(wal[i].events) + wal[i].contexts + 3 > MaxFrames
  <2> DEFINE l == Len(wal[i].events)
             x == wal[i].contexts
  <2>1. e <= l + 1 /\ c <= x /\ l \in Nat /\ x \in Nat
    BY <1>1, <1>2
  <2> HIDE DEF l, x
  <2>2. l + x + 3 > MaxFrames
    BY <1>2, <1>3, <2>1
  <2> QED
    BY <2>2 DEF l, x
<1> QED
  BY <1>4 DEF TooMuch

\* A described relation.
LEMMA PushRelationSound ==
  ASSUME SourceSound, CommitsSound, AssemblerSound, Extends, PushRelation, UNCHANGED <<sourceVars, info>>
  PROVE  AssemblerSound'
<1>0. assembler.phase = "collecting"
  BY DEF PushRelation
<1>1. PICK i, e, c, r, o, v, f : Parts(i, e, c, r, o, v, f)
  BY <1>0, CollectingIs
<1> USE <1>1 DEF Parts
<1>2. assembler.frames = f /\ f \in Nat /\ sender.relation = r
  BY LimitsAssumption
<1>3. /\ e \in 1 .. Len(wal[i].events) + 1 /\ c \in 0 .. wal[i].contexts
      /\ f <= e + c + (IF r THEN 1 ELSE 0)
  BY DEF Collected
<1> DEFINE next == IF Sending.altered THEN Closed("schema") ELSE assembler
<1>4. assembler' = Frame(next) /\ sender' = [sender EXCEPT !.relation = TRUE]
      /\ relation' = Sending.altered /\ OwesRelation
  BY DEF PushRelation
<1> HIDE DEF next
<1>5. CASE f >= MaxFrames /\ assembler' = Closed("limit")
  <2>1. TooMuch(wal[i])
    BY <1>5, FramesHaveCause
  <2> QED
    BY <1>5, <2>1, LimitHasCause
<1>6. CASE f + 1 \in 0 .. MaxFrames /\ wal[i].altered /\ assembler' = next
  <2>1. assembler' = Closed("schema")
    BY <1>6 DEF next
  <2> QED
    BY <1>6, <2>1, ClosedSound
<1>7. CASE f + 1 \in 0 .. MaxFrames /\ ~wal[i].altered /\ assembler' = [next EXCEPT !.frames = @ + 1]
  <2>1. next = assembler
    BY <1>7 DEF next
  <2>2. assembler' = [phase |-> "collecting", head |-> HeadOf(i - 1), commit |-> i,
                      overlay |-> o, events |-> v, context |-> ContextOf(i, c),
                      frames |-> f + 1, why |-> "none"]
    BY <1>7, <2>1
  <2>3. sender' = [txn |-> i, event |-> e, relation |-> TRUE, contexts |-> c]
    BY <1>4
  <2>4. r = FALSE /\ relation' = FALSE
    <3>1. wal[i].altered = FALSE
      BY <1>7, SourceTypes
    <3> QED
      BY <1>2, <1>4, <3>1 DEF OwesRelation
  <2>5. Collected(i, e, c, TRUE, o, v, f + 1)
    BY <1>2, <1>3, <2>4 DEF Collected
  <2> QED
    BY <1>7, <2>2, <2>3, <2>4, <2>5, StillCollecting
<1>8. next.phase = "closed" <=> wal[i].altered
  BY <1>0 DEF next, Closed
<1> QED
  BY <1>2, <1>4, <1>5, <1>6, <1>7, <1>8, FrameIs

\* A context of the transaction, or a second one.
LEMMA PushContextSound ==
  ASSUME SourceSound, CommitsSound, AssemblerSound, Extends, PushContext, UNCHANGED <<sourceVars, info>>
  PROVE  AssemblerSound'
<1>0. assembler.phase = "collecting"
  BY DEF PushContext
<1>1. PICK i, e, c, r, o, v, f : Parts(i, e, c, r, o, v, f)
  BY <1>0, CollectingIs
<1> USE <1>1 DEF Parts
<1>2. assembler.frames = f /\ f \in Nat /\ sender.contexts = c /\ sender.txn = i
      /\ assembler.context = ContextOf(i, c)
  BY LimitsAssumption
<1>3. /\ e \in 1 .. Len(wal[i].events) + 1 /\ c \in 0 .. wal[i].contexts
      /\ f <= e + c + (IF r THEN 1 ELSE 0)
  BY DEF Collected
<1> DEFINE next == IF assembler.context # 0 THEN Closed("context")
                   ELSE [assembler EXCEPT !.context = sender.txn]
<1>4. /\ assembler' = Frame(next) /\ sender' = [sender EXCEPT !.contexts = @ + 1]
      /\ relation' = relation /\ c < wal[i].contexts
  BY <1>2 DEF PushContext
<1> HIDE DEF next
<1>5. i # 0 /\ (ContextOf(i, c) = 0 <=> c = 0) /\ ContextOf(i, c + 1) = i
  BY DEF ContextOf
<1>6. CASE f >= MaxFrames /\ assembler' = Closed("limit")
  BY <1>6, FramesHaveCause, LimitHasCause
<1>7. CASE c # 0 /\ assembler' = next
  <2>1. assembler' = Closed("context")
    BY <1>2, <1>5, <1>7 DEF next
  <2>2. wal'[i].contexts > 1
    BY <1>4, <1>7
  <2> QED
    BY <2>1, <2>2, ClosedSound
<1>8. CASE f + 1 \in 0 .. MaxFrames /\ c = 0 /\ assembler' = [next EXCEPT !.frames = @ + 1]
  <2>1. next = [assembler EXCEPT !.context = i]
    BY <1>2, <1>5, <1>8 DEF next
  <2>2. assembler' = [phase |-> "collecting", head |-> HeadOf(i - 1), commit |-> i,
                      overlay |-> o, events |-> v, context |-> ContextOf(i, c + 1),
                      frames |-> f + 1, why |-> "none"]
    BY <1>5, <1>8, <2>1
  <2>3. sender' = [txn |-> i, event |-> e, relation |-> r, contexts |-> c + 1]
    BY <1>4
  <2>4. Collected(i, e, c + 1, r, o, v, f + 1)
    <3>1. c + 1 \in 0 .. wal[i].contexts
      BY <1>3, <1>4
    <3>2. f + 1 <= e + (c + 1) + (IF r THEN 1 ELSE 0)
      BY <1>2, <1>3
    <3>3. Collected(i, e, c, r, o, v, f)
      OBVIOUS
    <3> HIDE <1>1 DEF Parts
    <3> QED
      BY <3>1, <3>2, <3>3, Zenon DEF Collected
  <2>5. c + 1 \in Nat /\ relation' = FALSE
    BY <1>4
  <2> QED
    BY <1>8, <2>2, <2>3, <2>4, <2>5, StillCollecting
<1>9. next.phase = "closed" <=> c # 0
  <2>1. CASE c # 0
    BY <1>2, <1>5, <2>1 DEF next, Closed
  <2>2. CASE c = 0
    <3>1. next = [assembler EXCEPT !.context = i]
      BY <1>2, <1>5, <2>2 DEF next
    <3>2. next.phase = "collecting"
      BY <3>1
    <3> QED
      BY <2>2, <3>2
  <2> QED
    BY <2>1, <2>2
<1> QED
  BY <1>2, <1>4, <1>6, <1>7, <1>8, <1>9, FrameIs

\* A change is collected as what it was.
LEMMA PushChangeSound ==
  ASSUME SourceSound, CommitsSound, AssemblerSound, Extends, PushChange, UNCHANGED <<sourceVars, info>>
  PROVE  AssemblerSound'
<1>0. assembler.phase = "collecting"
  BY DEF PushChange
<1>1. PICK i, e, c, r, o, v, f : Parts(i, e, c, r, o, v, f)
  BY <1>0, CollectingIs
<1> USE <1>1 DEF Parts
<1>2. assembler.frames = f /\ f \in Nat /\ sender.event = e /\ sender.relation = r
      /\ assembler.events = v /\ assembler.overlay = o /\ assembler.head = HeadOf(i - 1)
  BY LimitsAssumption
<1>3. /\ e \in 1 .. Len(wal[i].events) + 1 /\ c \in 0 .. wal[i].contexts
      /\ f <= e + c + (IF r THEN 1 ELSE 0)
      /\ Len(v) = e - 1
      /\ \A j \in 1 .. e - 1 : v[j] = wal[i].events[j]
      /\ o \in Overlays
  BY DEF Collected
<1> DEFINE events == wal[i].events
           event == events[e]
           head == RowsAfter(i - 1)
           rows == RowsIn(head, events, e - 1)
<1>4. e \in 1 .. Len(events) /\ event \in Event
  <2>1. events \in Seq(Event) /\ e <= Len(events) /\ Len(events) \in Nat /\ e >= 1
    BY <1>2, <1>3 DEF PushChange, HasChange
  <2> HIDE <1>1 DEF Parts, events
  <2>2. e \in Nat
    BY <1>1 DEF Parts
  <2>3. e \in 1 .. Len(events)
    BY <2>1, <2>2
  <2> QED
    BY <2>1, <2>3
<1>5. wal[i].altered = FALSE /\ r = TRUE
  BY <1>2 DEF PushChange, OwesRelation
<1>6. /\ rows \in Table /\ RowsIn(head, events, e) = ApplyEvent(rows, event)
      /\ ApplyEvent(rows, event) \in Table
  <2>1. head \in Results /\ ApplyEvents(head, events) \in Table
    BY DEF Results
  <2>2. \A j \in 0 .. Len(events) : RowsIn(head, events, j) \in Table
    BY <2>1, TableBefore
  <2>3. RowsIn(head, events, e) = OneEvent(rows, event)
    BY <1>4, <2>1, RowsInSteps
  <2>4. e - 1 \in 0 .. Len(events) /\ e \in 0 .. Len(events)
    BY <1>4
  <2>5. rows \in Table /\ RowsIn(head, events, e) \in Table
    BY <2>2, <2>4
  <2> QED
    BY <2>3, <2>5, NoRowAssumption DEF OneEvent
<1>7. \A k \in Keys : Seen(head, o, k) = rows[k]
  BY DEF Collected
<1>8. \A k \in Keys : ReadRow(k) = rows[k]
  <2>1. assembler.head.rows = head
    BY <1>2 DEF HeadOf
  <2> QED
    BY <1>2, <1>7, <2>1 DEF ReadRow, Seen
<1>9. PICK old \in Images(event.before, TRUE),
           new \in Images(event.after, event.before # NoRow /\ event.after # NoRow
                                         /\ event.after.value.big = event.before.value.big) :
        assembler' = Frame(Change(old, new))
  BY <1>2 DEF PushChange
<1> HIDE DEF event, events, head, rows
<1>10. Change(old, new) = IF Len(v) >= MaxEvents THEN Closed("limit")
                          ELSE [assembler EXCEPT !.events = Append(v, event), !.overlay = Record(event)]
  <2>1. Change(old, new) = IF Len(assembler.events) >= MaxEvents THEN Closed("limit")
          ELSE [assembler EXCEPT !.events = Append(@, event), !.overlay = Record(event)]
    <3>1. relation = FALSE
      OBVIOUS
    <3> HIDE <1>1 DEF Parts
    <3> QED
      BY <1>4, <1>6, <1>8, <1>9, <3>1, ChangeIs
  <2> QED
    BY <1>2, <2>1
<1>11. sender' = [sender EXCEPT !.event = @ + 1] /\ relation' = relation
  BY DEF PushChange
<1>12. CASE f >= MaxFrames /\ assembler' = Closed("limit")
  BY <1>12, FramesHaveCause, LimitHasCause
<1>13. CASE Len(v) >= MaxEvents /\ assembler' = Change(old, new)
  <2>1. assembler' = Closed("limit")
    BY <1>10, <1>13
  <2>2. TooMuch(wal[i])
    <3>1. e \in Nat /\ Len(events) \in Nat /\ e <= Len(events) /\ Len(v) = e - 1
      BY <1>3, <1>4 DEF events
    <3> HIDE <1>1 DEF Parts
    <3>2. Len(events) > MaxEvents
      BY <1>13, <3>1, LimitsAssumption
    <3> QED
      BY <3>2 DEF TooMuch, events
  <2> QED
    BY <2>1, <2>2, LimitHasCause
<1>14. CASE /\ f + 1 \in 0 .. MaxFrames /\ ~(Len(v) >= MaxEvents)
            /\ assembler' = [Change(old, new) EXCEPT !.frames = @ + 1]
  <2> DEFINE w == Append(v, event)
             p == Record(event)
  <2>1. /\ w \in Seq(Event) /\ Len(w) = e /\ Len(w) <= MaxEvents
        /\ \A j \in 1 .. e : w[j] = events[j]
    <3>1. w \in Seq(Event) /\ Len(w) = Len(v) + 1 /\ w[Len(v) + 1] = event
          /\ \A j \in 1 .. Len(v) : w[j] = v[j]
      BY <1>4
    <3> HIDE DEF w
    <3>2. Len(w) = e /\ w[e] = events[e]
      BY <1>3, <1>4, <3>1 DEF event
    <3>3. \A j \in 1 .. e - 1 : w[j] = events[j]
      BY <1>3, <3>1 DEF events
    <3>4. Len(w) <= MaxEvents
      BY <1>3, <1>14, <3>2, LimitsAssumption
    <3> QED
      BY <1>4, <3>1, <3>2, <3>3, <3>4
  <2>2. p \in Overlays /\ \A k \in Keys : Seen(head, p, k) = RowsIn(head, events, e)[k]
    <3>1. head \in Table
      BY DEF head
    <3> QED
      BY <1>2, <1>3, <1>4, <1>6, <1>7, <3>1, RecordShows
  <2> HIDE DEF w, p
  <2>3. Change(old, new) = [assembler EXCEPT !.events = w, !.overlay = p]
    BY <1>10, <1>14 DEF w, p
  <2>4. assembler' = [phase |-> "collecting", head |-> HeadOf(i - 1), commit |-> i,
                      overlay |-> p, events |-> w, context |-> ContextOf(i, c),
                      frames |-> f + 1, why |-> "none"]
    BY <1>14, <2>3
  <2>5. sender' = [txn |-> i, event |-> e + 1, relation |-> r, contexts |-> c]
    BY <1>11
  <2>6. Collected(i, e + 1, c, r, p, w, f + 1)
    <3> SUFFICES ASSUME NEW n, n = e + 1, NEW g, g = f + 1 PROVE Collected(i, n, c, r, p, w, g)
      OBVIOUS
    <3>1. n \in 1 .. Len(events) + 1 /\ n - 1 = e
      <4>1. Len(events) \in Nat /\ e \in Nat
        BY DEF events
      <4> HIDE <1>1 DEF Parts
      <4> QED
        BY <1>4, <4>1
    <3>2. g <= n + c + (IF r THEN 1 ELSE 0)
      BY <1>2, <1>3
    <3>3. \A l \in 1 .. n - 1 : w[l] = events[l]
      BY <2>1, <3>1
    <3>4. \A k \in Keys : Seen(head, p, k) = RowsIn(head, events, n - 1)[k]
      BY <2>2, <3>1
    <3>5. Len(w) = n - 1
      BY <2>1, <3>1
    <3>6. c \in 0 .. wal[i].contexts /\ (wal[i].altered => n = 1)
      BY <1>3, <1>5
    <3> HIDE <1>1 DEF Parts
    <3> QED
      BY <2>2, <3>1, <3>2, <3>3, <3>4, <3>5, <3>6, Zenon DEF Collected, events, head
  <2>7. e + 1 \in Nat /\ relation' = FALSE
    BY <1>11
  <2> QED
    BY <1>14, <2>1, <2>4, <2>5, <2>6, <2>7, StillCollecting
<1>15. Change(old, new).phase = "closed" <=> Len(v) >= MaxEvents
  <2>1. CASE Len(v) >= MaxEvents
    BY <1>10, <2>1 DEF Closed
  <2>2. CASE ~(Len(v) >= MaxEvents)
    <3>1. Change(old, new) = [assembler EXCEPT !.events = Append(v, event), !.overlay = Record(event)]
      BY <1>10, <2>2
    <3>2. Change(old, new).phase = "collecting"
      BY <3>1
    <3> QED
      BY <2>2, <3>2
  <2> QED
    BY <2>1, <2>2
<1> QED
  BY <1>2, <1>9, <1>12, <1>13, <1>14, <1>15, FrameIs

\* A collected commit, whose events leave the source's next state.
LEMMA PushCommitSound ==
  ASSUME SourceSound, CommitsSound, AssemblerSound, Extends, PushCommit, UNCHANGED <<sourceVars, info>>
  PROVE  AssemblerSound'
<1>0. assembler.phase = "collecting"
  BY DEF PushCommit
<1>1. PICK i, e, c, r, o, v, f : Parts(i, e, c, r, o, v, f)
  BY <1>0, CollectingIs
<1> USE <1>1 DEF Parts
<1>2. assembler.frames = f /\ f \in Nat /\ sender.event = e /\ sender.contexts = c
      /\ assembler.events = v /\ assembler.head.rows = RowsAfter(i - 1)
  BY LimitsAssumption DEF HeadOf
<1>3. /\ e \in 1 .. Len(wal[i].events) + 1
      /\ wal[i].altered => e = 1
      /\ Len(v) = e - 1
      /\ \A j \in 1 .. e - 1 : v[j] = wal[i].events[j]
  BY DEF Collected
<1>4. e = Len(wal[i].events) + 1 /\ c = wal[i].contexts
  BY <1>2, <1>3 DEF PushCommit, HasChange
<1>5. v = wal[i].events
  <2> DEFINE events == wal[i].events
  <2>1. events \in Seq(Event) /\ Len(events) = Len(v) /\ \A j \in 1 .. Len(v) : v[j] = events[j]
    BY <1>3, <1>4
  <2>3. v \in Seq(Event)
    OBVIOUS
  <2> HIDE <1>1 DEF Parts, events
  <2>4. v = [j \in 1 .. Len(v) |-> v[j]] /\ events = [j \in 1 .. Len(events) |-> events[j]]
    BY <2>1, <2>3
  <2>2. v = events
    BY <2>1, <2>4
  <2> QED
    BY <2>2 DEF events
<1>6. wal[i].altered => wal[i].events = << >>
  <2>1. wal[i].altered => Len(wal[i].events) = 0
    BY <1>3, <1>4
  <2> QED
    BY <2>1
<1> DEFINE rows == ApplyEvents(assembler.head.rows, assembler.events)
           next == IF rows = Broken THEN Closed("invalid")
                   ELSE IF rows = TooLarge THEN Closed("limit")
                   ELSE [assembler EXCEPT !.phase = "pending"]
<1>7. /\ assembler' = Frame(next)
      /\ sender' = [sender EXCEPT !.txn = @ + 1, !.event = 0]
      /\ relation' = relation
  BY DEF PushCommit
<1>8. rows = RowsAfter(i)
  BY <1>2, <1>5
<1> HIDE DEF rows
<1>9. next = [assembler EXCEPT !.phase = "pending"]
  BY <1>8, NoRowAssumption
<1> HIDE DEF next
<1>10. next.phase = "pending"
  BY <1>9
<1>11. CASE f >= MaxFrames /\ assembler' = Closed("limit")
  BY <1>11, FramesHaveCause, LimitHasCause
<1>12. CASE f + 1 \in 0 .. MaxFrames /\ assembler' = [next EXCEPT !.frames = @ + 1]
  <2>1. assembler' = [phase |-> "pending", head |-> HeadOf(i - 1), commit |-> i,
                      overlay |-> o, events |-> v, context |-> ContextOf(i, c),
                      frames |-> f + 1, why |-> "none"]
    BY <1>9, <1>12
  <2>2. sender' = [txn |-> i + 1, event |-> 0, relation |-> r, contexts |-> c]
    BY <1>7
  <2>3. \A x, y : x = ContextOf(i, wal[i].contexts) /\ y = wal[i].events =>
          Holds("pending", i - 1, i, o, y, x, f + 1)'
    BY <1>4, <1>5, <1>12, <2>1 DEF Holds
  <2>4. wal' = wal /\ info' = info
    BY DEF sourceVars
  <2>5. Holds("pending", i - 1, i, o, wal[i].events, ContextOf(i, wal[i].contexts), f + 1)'
    BY <2>3, <2>4 DEF ContextOf
  <2>6. Sent(i + 1, 0, c, r)'
    BY <2>2 DEF Sent
  <2>7. WholeSound("pending", i)'
    BY <1>6, <2>4, <2>5, <2>6 DEF WholeSound
  <2>8. assembler'.phase = "pending" /\ relation' = FALSE
    BY <1>7, <2>1
  <2> QED
    BY <2>4, <2>7, <2>8 DEF AssemblerSound, Phases, Running, RefusedForCause
<1> QED
  BY <1>2, <1>7, <1>10, <1>11, <1>12, FrameIs

\* A commit that waits, or was just recorded.
LEMMA WholeIs ==
  ASSUME SourceSound, NEW phase, NEW i, WholeSound(phase, i)
  PROVE  /\ i \in 1 .. Len(wal) /\ i \in Nat
         /\ \E o, f : Holds(phase, i - 1, i, o, wal[i].events, ContextOf(i, wal[i].contexts), f)
         /\ \E e, c, r : Sent(i + 1, e, c, r)
         /\ RowsAfter(i - 1) \in Table
         /\ RowsAfter(i) = ApplyEvents(RowsAfter(i - 1), wal[i].events)
<1>1. i \in 1 .. Len(wal)
  BY DEF WholeSound
<1>2. i \in Nat
  BY <1>1, SourceTypes
<1> QED
  BY <1>1, <1>2, SourceTypes DEF WholeSound

\* The store appends what waits, or refuses it.
LEMMA AppendSound ==
  ASSUME SourceSound, StoreSound, AssemblerSound, SourceSound', Extends, AppendDurable
  PROVE  AssemblerSound'
<1>1. CommitsSound /\ assembler.phase = "pending"
  BY DEF StoreSound, AppendDurable
<1>2. CASE assembler' = Closed("store")
  BY <1>2, ClosedSound
<1>3. CASE StoreCommit(Assembled, ~shared) /\ assembler' = [assembler EXCEPT !.phase = "appended"]
  <2>1. PICK i : i = info.count + 1 /\ WholeSound("pending", i)
    BY <1>1 DEF AssemblerSound
  <2>2. i \in 1 .. Len(wal) /\ i - 1 \in 0 .. Len(wal)
    BY <2>1, WholeIs
  <2>3. PICK o, f : Holds("pending", i - 1, i, o, wal[i].events, ContextOf(i, wal[i].contexts), f)
    BY <2>1 DEF WholeSound
  <2>4. PICK e, c, r : Sent(i + 1, e, c, r)
    BY <2>1 DEF WholeSound
  <2>5. UNCHANGED <<sourceVars, sender, relation>>
    BY DEF AppendDurable
  <2>6. wal' = wal /\ HeadOf(i - 1)' = HeadOf(i - 1)
    BY <2>2, <2>5 DEF sourceVars, Extends, HeadOf
  <2>7. info'.count = i
    <3>1. info' = [info EXCEPT !.head = Assembled.position, !.count = @ + 1]
      BY <1>3 DEF StoreCommit
    <3>2. PICK h, n : info = [head |-> h, count |-> n, baselineRows |-> base]
      BY <1>1 DEF CommitsSound
    <3>3. info'.count = n + 1 /\ info.count = n
      BY <3>1, <3>2
    <3> QED
      BY <2>1, <3>3
  <2>8. \A x, y : x = ContextOf(i, wal[i].contexts) /\ y = wal[i].events =>
          Holds("appended", i - 1, i, o, y, x, f)'
    <3> TAKE x, y
    <3> HAVE x = ContextOf(i, wal[i].contexts) /\ y = wal[i].events
    <3>1. /\ assembler = [phase |-> "pending", head |-> HeadOf(i - 1), commit |-> i, overlay |-> o,
                          events |-> y, context |-> x, frames |-> f, why |-> "none"]
          /\ y \in Seq(Event) /\ Len(y) <= MaxEvents /\ f \in 0 .. MaxFrames
      BY <2>3 DEF Holds
    <3>2. assembler' = [phase |-> "appended", head |-> HeadOf(i - 1), commit |-> i, overlay |-> o,
                        events |-> y, context |-> x, frames |-> f, why |-> "none"]
      BY <1>3, <3>1
    <3> QED
      BY <2>6, <3>1, <3>2 DEF Holds
  <2>9. Holds("appended", i - 1, i, o, wal[i].events, ContextOf(i, wal[i].contexts), f)'
    BY <2>6, <2>8 DEF ContextOf
  <2>10. Sent(i + 1, e, c, r)'
    BY <2>4, <2>5 DEF Sent
  <2>11. WholeSound("appended", i)'
    BY <2>1, <2>6, <2>9, <2>10 DEF WholeSound
  <2>12. assembler'.phase = "appended" /\ relation' = FALSE
    <3>1. relation = FALSE
      BY <1>1 DEF AssemblerSound, Running
    <3>2. assembler'.phase = "appended"
      BY <2>9 DEF Holds
    <3> QED
      BY <2>5, <3>1, <3>2
  <2> QED
    BY <2>7, <2>11, <2>12 DEF AssemblerSound, Phases, Running, RefusedForCause
<1> QED
  BY <1>2, <1>3 DEF AppendDurable

\* A confirmed commit: its state is the head.
LEMMA ConfirmSound ==
  ASSUME SourceSound, StoreSound, AssemblerSound, SourceSound', Extends, Confirm
  PROVE  AssemblerSound'
<1>1. assembler.phase = "appended" /\ info' = info
      /\ UNCHANGED <<sourceVars, sender, relation>>
  BY DEF Confirm, ConfirmDurable, checkpointVars
<1>2. PICK i : i = info.count /\ WholeSound("appended", i)
  BY <1>1 DEF AssemblerSound
<1>3. /\ i \in 1 .. Len(wal) /\ i \in Nat /\ i \in 0 .. Len(wal)
      /\ RowsAfter(i) = ApplyEvents(RowsAfter(i - 1), wal[i].events)
  BY <1>2, WholeIs, SourceTypes
<1>4. PICK o, f : Holds("appended", i - 1, i, o, wal[i].events, ContextOf(i, wal[i].contexts), f)
  BY <1>2 DEF WholeSound
<1>5. PICK e, c, r : Sent(i + 1, e, c, r)
  BY <1>2 DEF WholeSound
<1> DEFINE v == wal[i].events
           x == ContextOf(i, wal[i].contexts)
<1>6. /\ assembler = [phase |-> "appended", head |-> HeadOf(i - 1), commit |-> i, overlay |-> o,
                      events |-> v, context |-> x, frames |-> f, why |-> "none"]
      /\ v \in Seq(Event) /\ Len(v) <= MaxEvents /\ f \in 0 .. MaxFrames
      /\ HeadOf(i - 1).rows = RowsAfter(i - 1)
  BY <1>4 DEF Holds, HeadOf
<1> HIDE DEF v, x
<1>7. assembler' = [phase |-> "idle", head |-> HeadOf(i), commit |-> i, overlay |-> o,
                    events |-> v, context |-> x, frames |-> f, why |-> "none"]
  <2>1. assembler' = [assembler EXCEPT
          !.phase = "idle",
          !.head = [position |-> EndLsn(assembler.commit),
                    rows     |-> ApplyEvents(assembler.head.rows, assembler.events)]]
    BY DEF Confirm, ConfirmDurable
  <2>2. assembler.commit = i /\ assembler.head.rows = RowsAfter(i - 1) /\ assembler.events = v
    BY <1>6
  <2>3. assembler' = [assembler EXCEPT !.phase = "idle", !.head = HeadOf(i)]
    BY <1>3, <2>1, <2>2 DEF HeadOf, v
  <2> QED
    BY <1>6, <2>3
<1>8. HeadOf(i)' = HeadOf(i)
  BY <1>3 DEF Extends, HeadOf
<1>9. \A w, y : w = v /\ y = x => Holds("idle", i, i, o, w, y, f)'
  BY <1>6, <1>7, <1>8 DEF Holds
<1>10. Sent(i + 1, e, c, r)'
  BY <1>1, <1>5 DEF Sent
<1>11. IdleSound'
  BY <1>1, <1>2, <1>3, <1>9, <1>10 DEF IdleSound
<1>12. assembler'.phase = "idle" /\ relation' = FALSE
  <2>1. relation = FALSE
    BY <1>1 DEF AssemblerSound, Running
  <2> QED
    BY <1>1, <1>7, <2>1
<1> QED
  BY <1>11, <1>12 DEF AssemblerSound, Phases, Running, RefusedForCause

\* What is collected stays what was sent, whatever step is taken.
LEMMA AssemblerKept ==
  ASSUME SourceSound, StoreSound, AssemblerSound, [Next]_vars, SourceSound', Extends
  PROVE  AssemblerSound'
<1>0. CommitsSound
  BY DEF StoreSound
<1>1. CASE Stream
  <2>1. UNCHANGED <<sourceVars, info>>
    BY <1>1 DEF Stream, PushFrame, PushBegin, PushRelation, PushContext, PushChange, PushCommit,
                checkpointVars
  <2> QED
    BY <1>0, <1>1, <2>1, PushBeginSound, PushRelationSound, PushContextSound, PushChangeSound,
       PushCommitSound DEF Stream, PushFrame
<1>2. CASE Resume
  BY <1>2, ResumeSound
<1>3. CASE AppendDurable
  BY <1>3, AppendSound
<1>4. CASE Confirm
  BY <1>4, ConfirmSound
<1>5. CASE GiveUp \/ Crash
  BY <1>5, DownSound DEF GiveUp, Crash
<1>6. CASE Stop
  BY <1>6, ClosedSound DEF Stop
<1>7. CASE Source \/ Viewer \/ Damage \/ UNCHANGED vars
  <2>1. UNCHANGED streamVars /\ info' = info
    BY <1>7 DEF Source, SourceCommits, SourceAlters, Viewer, PublishCheckpoint, RemoveCheckpoint,
                ReadCheckpoint, Damage, DamageCheckpoint, DamageHistory, checkpointVars, storedVars, vars
  <2> QED
    BY <1>0, <2>1, AssemblerSame
<1> QED
  BY <1>1, <1>2, <1>3, <1>4, <1>5, <1>6, <1>7 DEF Next, Recorder

--------------------------------------------------------------------------
(* The invariant and what follows from it.                                 *)

\* Nothing was committed, recorded or collected yet.
LEMMA InitSound == Init => Sound
<1> SUFFICES ASSUME Init PROVE Sound
  OBVIOUS
<1>1. PICK rows \in Snapshots : AssemblyInit(rows) /\ CheckpointsInit(rows)
  BY DEF Init
<1>2. rows \in Table
  BY SnapshotsAssumption
<1>3. /\ base = rows /\ wal = << >> /\ altered = FALSE /\ assembler = Down
      /\ info = [head |-> 0, count |-> 0, baselineRows |-> rows]
      /\ baseline = [rows |-> rows, bad |-> {}] /\ commits = << >> /\ checkpoints = << >>
      /\ verified = Unverified
  BY <1>1 DEF AssemblyInit, CheckpointsInit
<1>4. wal \in Seq(Commit) /\ Len(wal) = 0 /\ base \in Table
  BY <1>2, <1>3
<1>5. SourceSound
  <2>1. RowsAfter(0) = base
    BY <1>4, RowsAfterIs, RowsOfSteps
  <2>2. \A i \in 0 .. Len(wal) : i = 0
    BY <1>4
  <2> QED
    BY <1>3, <1>4, <2>1, <2>2 DEF SourceSound
<1>6. /\ DOMAIN commits = {} /\ commits = [p \in DOMAIN commits |-> commits[p]]
      /\ DOMAIN checkpoints = {} /\ checkpoints = [c \in DOMAIN checkpoints |-> checkpoints[c]]
  BY <1>3
<1>7. info.count = 0 /\ info.head = 0 /\ \A i : ~(i \in 1 .. 0)
  BY <1>3
<1>8. CommitsSound
  <2>1. info = [head |-> EndLsn(info.count), count |-> info.count, baselineRows |-> base]
    BY <1>3, <1>7, EndLsns
  <2>2. baseline \in [rows : Table, bad : SUBSET Keys]
    BY <1>2, <1>3
  <2> QED
    BY <1>4, <1>6, <1>7, <2>1, <2>2 DEF CommitsSound
<1>9. CheckpointsSound
  BY <1>6 DEF CheckpointsSound
<1>10. VerifiedSound
  BY <1>3 DEF VerifiedSound, Unverified
<1>11. WholeUnlessHarmed
  BY <1>3, <1>7 DEF WholeUnlessHarmed
<1>12. AssemblerSound
  <2>1. assembler.phase = "down"
    BY <1>3 DEF Down
  <2> QED
    BY <2>1 DEF AssemblerSound, Phases, Running, RefusedForCause
<1> QED
  BY <1>5, <1>8, <1>9, <1>10, <1>11, <1>12 DEF Sound, StoreSound

\* Every step keeps the invariant.
LEMMA NextSound == Sound /\ [Next]_vars => Sound'
<1> SUFFICES ASSUME Sound, [Next]_vars PROVE Sound'
  OBVIOUS
<1>1. SourceSound /\ StoreSound /\ AssemblerSound
  BY DEF Sound
<1>2. SourceSound' /\ Extends
  BY <1>1, SourceKept
<1>3. StoreSound' /\ AssemblerSound'
  BY <1>1, <1>2, StoreKept, AssemblerKept
<1> QED
  BY <1>2, <1>3 DEF Sound

\* The invariant holds in every state of every behaviour.
THEOREM RowsSound == Spec => []Sound
<1> QED
  BY InitSound, NextSound, PTL DEF Spec

\* The shapes of what is recorded and collected follow from it.
LEMMA SoundTypes == ASSUME Sound PROVE TypeOK
<1>1. SourceSound /\ CommitsSound /\ CheckpointsSound /\ AssemblerSound
  BY DEF Sound, StoreSound
<1>2. assembler.phase \in Phases
  BY <1>1 DEF AssemblerSound
<1>3. \A c \in DOMAIN checkpoints :
         checkpoints[c].rows \in Table /\ checkpoints[c].manifest.rows \in Table
  BY <1>1, CheckpointTypes
<1>4. DOMAIN commits \subseteq {EndLsn(i) : i \in 1 .. Len(wal)}
  <2>1. DOMAIN commits \subseteq {EndLsn(i) : i \in 1 .. info.count}
    BY <1>1 DEF CommitsSound
  <2>2. 1 .. info.count \subseteq 1 .. Len(wal)
    BY <1>1, CommitsTypes, SourceTypes
  <2> QED
    BY <2>1, <2>2
<1>5. ASSUME assembler.phase \notin {"down", "closed"}
      PROVE  /\ assembler.frames <= MaxFrames
             /\ Len(assembler.events) <= MaxEvents
             /\ assembler.head.rows \in Table
             /\ Cardinality(Present(assembler.head.rows)) <= MaxRows
  <2>1. PICK phase, i, m, o, v, x, f : Holds(phase, i, m, o, v, x, f) /\ i \in 0 .. Len(wal)
    <3>1. info.count \in 0 .. Len(wal) /\ Len(wal) \in Nat
      BY <1>1, CommitsTypes, SourceTypes
    <3>2. CASE assembler.phase = "idle"
      BY <1>1, <3>1, <3>2 DEF AssemblerSound, IdleSound
    <3>3. CASE assembler.phase = "collecting"
      <4>1. PICK i \in 1 .. Len(wal) :
              \E e, c, r, o, v, f : Holds("collecting", i - 1, i, o, v, ContextOf(i, c), f)
        BY <1>1, <3>3 DEF AssemblerSound, CollectingSound
      <4>2. i - 1 \in 0 .. Len(wal)
        BY <3>1
      <4> QED
        BY <4>1, <4>2
    <3>4. CASE assembler.phase \in {"pending", "appended"}
      <4>1. PICK phase, i : WholeSound(phase, i)
        BY <1>1, <3>4 DEF AssemblerSound
      <4>2. i - 1 \in 0 .. Len(wal)
        BY <3>1, <4>1 DEF WholeSound
      <4> QED
        BY <4>1, <4>2 DEF WholeSound
    <3> QED
      BY <1>2, <1>5, <3>2, <3>3, <3>4 DEF Phases
  <2>2. /\ assembler.frames = f /\ assembler.events = v /\ assembler.head.rows = RowsAfter(i)
        /\ f \in 0 .. MaxFrames /\ Len(v) <= MaxEvents
    BY <2>1 DEF Holds, HeadOf
  <2>3. RowsAfter(i) \in Table
    BY <1>1, <2>1 DEF SourceSound
  <2>4. Cardinality(Present(RowsAfter(i))) <= MaxRows
    <3>1. Present(RowsAfter(i)) \in SUBSET Keys
      BY DEF Present
    <3>2. /\ Cardinality(Present(RowsAfter(i))) <= Cardinality(Keys)
          /\ Cardinality(Keys) \in Nat /\ Cardinality(Present(RowsAfter(i))) \in Nat
      BY <2>3, <3>1, KeysAssumption, FS_Subset, FS_CardinalityType, PresentFinite
    <3> QED
      BY <3>2, SnapshotsAssumption, MaxRowsAssumption
  <2> QED
    BY <2>2, <2>3, <2>4, LimitsAssumption
<1> QED
  BY <1>2, <1>3, <1>4, <1>5 DEF TypeOK

\* What is recorded is the source's.
LEMMA SoundRecorded == ASSUME Sound PROVE RecordedIsSource
<1>1. SourceSound /\ CommitsSound
  BY DEF Sound, StoreSound
<1> SUFFICES ASSUME NEW p \in DOMAIN commits
             PROVE  LET i == p \div 2
                        t == commits[p].commit
                    IN /\ t.events = wal[i].events
                       /\ t.previous = EndLsn(i - 1)
                       /\ t.context = IF wal[i].contexts = 0 THEN 0 ELSE i
                       /\ ~wal[i].altered \/ wal[i].events = << >>
  BY DEF RecordedIsSource
<1>2. PICK i \in 1 .. info.count : p = EndLsn(i)
  BY <1>1 DEF CommitsSound
<1>3. p \div 2 = i /\ i \in Nat
  <2>1. i \in Nat
    BY <1>1, CommitsTypes
  <2> QED
    BY <1>2, <2>1, EndLsns
<1>4. commits[p].commit = Recorded(i) /\ (~wal[i].altered \/ wal[i].events = << >>)
  <2>1. commits[EndLsn(i)].commit = Recorded(i)
    BY <1>1, <1>2, CommitsTypes
  <2> QED
    BY <1>1, <1>2, <2>1 DEF CommitsSound
<1> QED
  BY <1>3, <1>4 DEF Recorded

\* What is restored is the source's.
LEMMA SoundRestored == ASSUME Sound PROVE RestoredIsSource
<1>1. SourceSound /\ CommitsSound /\ CheckpointsSound
  BY DEF Sound, StoreSound
<1> SUFFICES ASSUME NEW i \in 0 .. Len(wal), Restored(EndLsn(i)) # Failed
             PROVE  Restored(EndLsn(i)).rows = RowsAfter(i)
  BY DEF RestoredIsSource
<1>2. i \in Nat
  BY <1>1, SourceTypes
<1>3. Restored(EndLsn(i)) = [kind |-> "state", position |-> EndLsn(i), rows |-> RowsAfter(i)]
  BY <1>1, <1>2, RestoredIs
<1> QED
  BY <1>3

\* Whatever is recorded, restored or shown of a commit is the source's, for every
\* workload, with any checkpoints, stops, crashes and damaged records.
THEOREM RowsAlwaysSource == Spec => []RowsAreSource
<1>1. Sound => RowsAreSource
  <2> SUFFICES ASSUME Sound PROVE RowsAreSource
    OBVIOUS
  <2>1. TypeOK /\ RecordedIsSource /\ RestoredIsSource
    BY SoundTypes, SoundRecorded, SoundRestored
  <2>2. PagesAreSource
    BY PagesShowSource DEF Sound, StoreSound
  <2> QED
    BY <2>1, <2>2 DEF RowsAreSource
<1> QED
  BY <1>1, RowsSound, PTL

\* No intact checkpoint or history is refused, and no stream but for cause.
THEOREM RefusalsAlwaysCaused == Spec => []RefusalsHaveCause
<1>1. Sound => RefusalsHaveCause
  <2> SUFFICES ASSUME Sound PROVE RefusalsHaveCause
    OBVIOUS
  <2>1. CheckpointsNeverHinder
    BY NeverHindered DEF Sound, StoreSound
  <2>2. RefusedForCause
    BY DEF Sound, AssemblerSound
  <2> QED
    BY <2>1, <2>2 DEF RefusalsHaveCause
<1> QED
  BY <1>1, RowsSound, PTL
=============================================================================
