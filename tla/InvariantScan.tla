--------------------------- MODULE InvariantScan ---------------------------
(***************************************************************************)
(* scanInvariant: the bounded query is put to every committed state of the *)
(* range in order, and the first one that returns rows is reported with    *)
(* its transaction and its difference from its predecessor.  The query     *)
(* engine is external: it answers, refuses by its own limits, or fails.    *)
(***************************************************************************)
EXTENDS HistoryReplay, InvestigationPages

CONSTANT Bad  \* the values the query looks for

VARIABLE scan  \* [evaluated : how many states, last : the last one's position]

NotScanned == [evaluated |-> 0, last |-> NoRow]

\* What the query returns for a state: the rows that violate the invariant.
Violating(rows) == {k \in Keys : rows[k] \in Bad}

\* The differences of two states in key order.
Differences(before, after) ==
  LET changed == InKeyOrder({k \in Keys : before[k] # after[k]}) IN
  [i \in DOMAIN changed |->
     [key |-> changed[i], before |-> before[changed[i]], after |-> after[changed[i]]]]

HasPredecessor == replay.previous # NoRow

\* Mutant of MustReport: only a state with a predecessor is a finding.
MustReportChange == Violating(replay.state.rows) # {} /\ HasPredecessor

MustReport == Violating(replay.state.rows) # {}

\* Mutant of AtStart: only a baseline is a starting state.
AtStartOfHistory == ~HasPredecessor

AtStart == replay.state.position = range.from

StateCost(state) == Cardinality(Present(state.rows))

\* The deadline or the caller is noticed before the state counts.
EvaluationHalted ==
  /\ pc = "consume" /\ ask.op = "scan"
  /\ Halted
  /\ Give(HaltCode)
  /\ UNCHANGED <<ask, history, signal, expired, range, replay, work, scan>>

\* The scan's own budgets, before the query is run.
EvaluationRefused ==
  /\ pc = "consume" /\ ask.op = "scan"
  /\ ~Halted
  /\ IF scan.evaluated = 0 /\ replay.state.position # range.from
     THEN Give("INVALID_HISTORY")
     ELSE /\ scan.evaluated >= ask.maxStates \/ ~Fits(StateCost(replay.state))
          /\ Give("LIMIT_EXCEEDED")
  /\ UNCHANGED <<ask, history, signal, expired, range, replay, work, scan>>

MayEvaluate ==
  /\ pc = "consume" /\ ask.op = "scan"
  /\ ~Halted
  /\ scan.evaluated = 0 => replay.state.position = range.from
  /\ scan.evaluated < ask.maxStates
  /\ Fits(StateCost(replay.state))

\* The engine refuses the query or fails: the state does not count.
QueryFails ==
  /\ MayEvaluate
  /\ work' = Spend(work, StateCost(replay.state))
  /\ \E code \in {"LIMIT_EXCEEDED", "QUERY_FAILED"} : Give(code)
  /\ UNCHANGED <<ask, history, signal, expired, range, replay, scan>>

\* The query answers and the state counts, before its rows are looked at.
Evaluate ==
  /\ MayEvaluate
  /\ work' = Spend(work, StateCost(replay.state))
  /\ scan' = [evaluated |-> scan.evaluated + 1, last |-> replay.state.position]
  /\ pc' = IF MustReport THEN "report" ELSE Beyond(replay.state)
  /\ UNCHANGED <<ask, history, signal, expired, range, replay, outcome>>

DiffCost ==
  IF HasPredecessor THEN StateCost(replay.previous) + StateCost(replay.state) ELSE 0

DiffPage ==
  AddAll(EmptyPage, ask.page, Differences(replay.previous.rows, replay.state.rows), NoRow)

Finding ==
  [kind        |-> "violation",
   position    |-> replay.state.position,
   predecessor |-> IF replay.commit = 0 THEN NoRow
                   ELSE Commits[replay.commit].previous,
   starting    |-> AtStart,
   commit      |-> replay.commit,
   rows        |-> Violating(replay.state.rows),
   diff        |-> IF HasPredecessor THEN Answer(DiffPage, ask.page) ELSE NoRow]

\* The finding, once its difference is made within the same budgets.
Report ==
  /\ pc = "report"
  /\ \/ /\ Halted
        /\ Give(HaltCode)
        /\ UNCHANGED work
     \/ /\ ~Halted
        /\ ~Fits(DiffCost) \/ (HasPredecessor /\ DiffPage.over)
        /\ Give("LIMIT_EXCEEDED")
        /\ UNCHANGED work
     \/ /\ ~Halted
        /\ Fits(DiffCost)
        /\ HasPredecessor => ~DiffPage.over
        /\ work' = Spend(work, DiffCost)
        /\ pc' = "done"
        /\ outcome' = Finding
  /\ UNCHANGED <<ask, history, signal, expired, range, replay, scan>>

\* Every state of the range was evaluated.
Clear ==
  /\ pc = "finish" /\ ask.op = "scan"
  /\ IF Halted THEN Give(HaltCode) ELSE pc' = "done" /\ outcome' = [kind |-> "clear"]
  /\ UNCHANGED <<ask, history, signal, expired, range, replay, work, scan>>

ScanStep ==
  EvaluationHalted \/ EvaluationRefused \/ QueryFails \/ Evaluate \/ Report \/ Clear

--------------------------------------------------------------------------
\* How many transactions the states of the range up to a position follow.
InRange(n) == PositionAfter(n) >= range.from /\ PositionAfter(n) <= range.to

BadAfter(n) == Violating(RowsAfter(n)) # {}

\* A violation is the first state of the range that breaks the invariant, with
\* the rows that break it, the commit that made it and a page of its exact
\* difference from its predecessor - which may itself lie before the range.
FirstViolationReported ==
  outcome.kind = "violation" =>
    LET n == CommitsTo(outcome.position) IN
    /\ RowsAfter(n) # Broken
    /\ InRange(n)
    /\ outcome.rows = Violating(RowsAfter(n))
    /\ outcome.rows # {}
    /\ \A m \in 0 .. n - 1 : InRange(m) => ~BadAfter(m)
    /\ outcome.starting = (PositionAfter(n) = range.from)
    /\ IF n = 0
       THEN outcome.predecessor = NoRow /\ outcome.diff = NoRow
       ELSE /\ outcome.predecessor = PositionAfter(n - 1)
            /\ PageOf(outcome.diff, ask.page, Differences(RowsAfter(n - 1), RowsAfter(n)))

\* A clear answer means that no state of the range breaks the invariant, that
\* all of them were evaluated, and that what was replayed was intact - to the
\* declared head and count when the range ends there.
ClearIsComplete ==
  outcome.kind = "clear" =>
    LET last == CommitsTo(range.to) IN
    /\ RowsAfter(last) # Broken
    /\ \A n \in 0 .. last : InRange(n) => ~BadAfter(n)
    /\ scan.evaluated = Cardinality({n \in 0 .. last : InRange(n)})
    /\ range.to = history.head => Intact

\* An incomplete answer claims no more than was done: the last evaluated state
\* is the last of an unbroken run from the start of the range, and no state
\* before it broke the invariant; the last one itself may have, when its
\* report was what ran out.
IncompleteIsHonest ==
  outcome.kind = "incomplete" =>
    /\ outcome.reason = "cancelled" <=> signal
    /\ outcome.reason = "timeout" => expired
    /\ IF scan.evaluated = 0
       THEN scan.last = NoRow
       ELSE LET last == CommitsTo(scan.last) IN
            /\ scan.evaluated = Cardinality({n \in 0 .. last : InRange(n)})
            /\ \A n \in 0 .. last - 1 : InRange(n) => ~BadAfter(n)
=============================================================================
