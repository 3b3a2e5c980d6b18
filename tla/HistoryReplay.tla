--------------------------- MODULE HistoryReplay ---------------------------
(***************************************************************************)
(* How packages/sdk/src/application reads a recorded history to answer a   *)
(* question about it: both ends of a range are resolved, the baseline is   *)
(* loaded, and one committed transaction after another is applied, while a *)
(* budget of work is spent and the caller may cancel or a deadline pass.   *)
(*                                                                         *)
(* The history is one pinned snapshot, handed over by a port the queries   *)
(* do not trust: what it declares (rows, transactions, head) and what its  *)
(* pages hold may differ.  A row is its key and one value.  Bytes are      *)
(* counted in rows and events.  A page is read in the step that uses it.   *)
(***************************************************************************)
EXTENDS RowEvents

VARIABLES
  ask,      \* the question: operation, ends, options, budgets
  history,  \* the borrowed export session
  signal,   \* the caller cancelled
  expired,  \* the scan's deadline passed
  pc,       \* where the query is
  range,    \* the resolved positions
  replay,   \* the replay generator
  work,     \* what the query has spent
  outcome   \* what it returned

replayVars == <<ask, history, signal, expired, pc, range, replay, work, outcome>>

--------------------------------------------------------------------------
(* The range a question selects.                                           *)

HasCommit(position) ==
  \E i \in DOMAIN history.transactions : history.transactions[i].position = position

Commit(position) ==
  CHOOSE t \in {history.transactions[i] : i \in DOMAIN history.transactions} :
    t.position = position

\* The selected commit lies between the declared baseline and head.
Covered(selection) ==
  \/ selection.kind = "baseline"
  \/ /\ HasCommit(selection.position)
     /\ selection.position <= history.head
     /\ Commit(selection.position).previous >= history.baseline

SelectedPosition(selection) ==
  CASE selection.kind = "baseline" -> history.baseline
    [] selection.kind = "before"   -> Commit(selection.position).previous
    [] selection.kind = "after"    -> selection.position

\* What every check of the work budget looks at.
Halted == signal \/ (ask.op = "scan" /\ expired)

Reject(code) ==
  /\ pc' = "done"
  /\ outcome' = [kind |-> "rejected", code |-> code]

Interrupted ==
  [kind   |-> "incomplete",
   reason |-> IF signal THEN "cancelled" ELSE IF expired THEN "timeout" ELSE "limit"]

\* A scan turns cancellation and limits into an incomplete result.
Give(code) ==
  IF ask.op = "scan" /\ code \in {"CANCELLED", "LIMIT_EXCEEDED"}
  THEN pc' = "done" /\ outcome' = Interrupted
  ELSE Reject(code)

HaltCode == IF signal THEN "CANCELLED" ELSE "LIMIT_EXCEEDED"

\* The budget's first check and resolveHistoryRange.  Both come before the scan's
\* own error handling, so that they reject, and only the first knows the deadline.
Resolve ==
  /\ pc = "resolve" /\ ask.op \in {"scan", "lineage"}
  /\ UNCHANGED <<ask, history, signal, expired, replay, work>>
  /\ \/ signal /\ Reject("CANCELLED") /\ UNCHANGED range
     \/ ~signal /\ expired /\ Reject("LIMIT_EXCEEDED") /\ UNCHANGED range
     \/ /\ ~signal
        /\ ~ (Covered(ask.from) /\ Covered(ask.to))
        /\ Reject("INVALID_HISTORY")
        /\ UNCHANGED range
     \/ /\ ~signal
        /\ Covered(ask.from)
        /\ Covered(ask.to)
        /\ range' = [from |-> SelectedPosition(ask.from),
                     to   |-> SelectedPosition(ask.to)]
        /\ IF range'.from <= range'.to
           THEN pc' = "baseline" /\ UNCHANGED outcome
           ELSE Reject("INVALID_VALUE")

--------------------------------------------------------------------------
(* The replay generator.                                                   *)

Fits(cost) == cost <= ask.maxInput - work.input

Spend(w, cost) == [w EXCEPT !.input = @ + cost]

\* Replay to the declared head checks that nothing is missing or left over.
Full == range.to = history.head

\* The state is one the consumer asked for.
ResumesAt(state) == state.position >= range.from

\* Where the generator goes once a state is reached and consumed.
Beyond(state) == IF state.position = range.to /\ ~Full THEN "finish" ELSE "read"

Deliver(state, previous, commit) ==
  /\ replay' = [replay EXCEPT !.state = state, !.previous = previous,
                              !.commit = commit,
                              !.reached = state.position = range.to,
                              !.next = @ + IF commit = 0 THEN 0 ELSE 1]
  /\ pc' = IF ResumesAt(state) THEN "consume" ELSE Beyond(state)
  /\ UNCHANGED outcome

\* Baseline pages: counted against the budget and the declared row count.
LoadBaseline ==
  LET count == Cardinality(Present(history.rows)) IN
  /\ pc = "baseline"
  /\ UNCHANGED <<ask, history, signal, expired, range>>
  /\ \/ /\ Halted
        /\ Give(HaltCode)
        /\ UNCHANGED <<replay, work>>
     \/ /\ ~Halted
        /\ ~Fits(count) \/ count > MaxRows
        /\ Give("LIMIT_EXCEEDED")
        /\ UNCHANGED <<replay, work>>
     \/ /\ ~Halted
        /\ Fits(count)
        /\ count <= MaxRows
        /\ work' = Spend(work, count)
        /\ IF count = history.rowCount
           THEN Deliver([position |-> history.baseline, rows |-> history.rows], NoRow, 0)
           ELSE Give("INVALID_HISTORY") /\ UNCHANGED replay

\* The commit advances, follows the state reached and stays within the range.
Extends(t) ==
  /\ t.previous < t.position
  /\ t.previous = replay.state.position
  /\ t.position <= range.to

\* Mutant of Affordable: each transaction is held against the whole event budget.
AffordableAlone(t) ==
  /\ work.transactions < ask.maxTransactions
  /\ Len(t.events) <= ask.maxEvents
  /\ Fits(1 + Len(t.events))

Affordable(t) ==
  /\ work.transactions < ask.maxTransactions
  /\ Len(t.events) <= ask.maxEvents - work.events
  /\ Fits(1 + Len(t.events))

Charged(t) ==
  [transactions |-> work.transactions + 1, events |-> work.events + Len(t.events),
   input |-> work.input + 1 + Len(t.events)]

\* The next transaction page, applied to the state before it.
ReadTransaction ==
  LET t    == history.transactions[replay.next]
      rows == ApplyEvents(replay.state.rows, t.events)
  IN
  /\ pc = "read"
  /\ replay.next <= Len(history.transactions)
  /\ UNCHANGED <<ask, history, signal, expired, range>>
  /\ \/ Halted /\ Give(HaltCode) /\ UNCHANGED <<replay, work>>
     \/ /\ ~Halted
        /\ replay.reached
        /\ Give("INVALID_HISTORY")
        /\ UNCHANGED <<replay, work>>
     \/ /\ ~Halted
        /\ ~replay.reached
        /\ work.transactions < ask.maxTransactions
        /\ ~Extends(t)
        /\ Give("INVALID_HISTORY")
        /\ UNCHANGED <<replay, work>>
     \/ /\ ~Halted
        /\ ~replay.reached
        /\ \/ work.transactions >= ask.maxTransactions
           \/ Extends(t) /\ (~Affordable(t) \/ rows = TooLarge)
        /\ Give("LIMIT_EXCEEDED")
        /\ UNCHANGED <<replay, work>>
     \/ /\ ~Halted
        /\ ~replay.reached
        /\ Extends(t)
        /\ Affordable(t)
        /\ rows # TooLarge
        /\ IF rows = Broken
           THEN Give("INVALID_HISTORY") /\ UNCHANGED <<replay, work>>
           ELSE /\ Deliver([position |-> t.position, rows |-> rows], replay.state,
                           replay.next)
                /\ work' = Charged(t)

\* Mutant of Accounted: the declared count is not compared.
AccountedByHead == replay.reached

\* The pages ended where the declaration says they end.
Accounted == replay.reached /\ replay.next - 1 = history.count

\* Mutant of RefuseStalledPage: the same page is asked for again.
AskStalledPageAgain == UNCHANGED <<pc, outcome>>

\* An empty page, or the cursor it was asked with, cannot be the way forward.
RefuseStalledPage == Give("INVALID_HISTORY")

\* Past the last transaction the port answers with another cursor.
StalledPage ==
  /\ pc = "read"
  /\ replay.next > Len(history.transactions)
  /\ history.stalls
  /\ IF Halted THEN Give(HaltCode) ELSE RefuseStalledPage
  /\ UNCHANGED <<ask, history, signal, expired, range, replay, work>>

\* The transaction pages are exhausted.
EndOfHistory ==
  /\ pc = "read"
  /\ replay.next > Len(history.transactions)
  /\ ~history.stalls
  /\ UNCHANGED <<ask, history, signal, expired, range, replay, work>>
  /\ \/ Halted /\ Give(HaltCode)
     \/ ~Halted /\ Accounted /\ pc' = "finish" /\ UNCHANGED outcome
     \/ ~Halted /\ ~Accounted /\ Give("INVALID_HISTORY")

--------------------------------------------------------------------------
(* The caller and the clock.                                               *)

Cancel ==
  /\ pc # "done"
  /\ ~signal
  /\ signal' = TRUE
  /\ UNCHANGED <<ask, history, expired, pc, range, replay, work, outcome>>

Expire ==
  /\ pc # "done"
  /\ ask.op = "scan"
  /\ ~expired
  /\ expired' = TRUE
  /\ UNCHANGED <<ask, history, signal, pc, range, replay, work, outcome>>

NotReplaying ==
  [next |-> 1, state |-> NoRow, previous |-> NoRow, commit |-> 0, reached |-> FALSE]

NoWork == [transactions |-> 0, events |-> 0, input |-> 0]

ReplayInit ==
  /\ signal = FALSE
  /\ expired = FALSE
  /\ pc = "resolve"
  /\ range = [from |-> 0, to |-> 0]
  /\ replay = NotReplaying
  /\ work = NoWork
  /\ outcome = [kind |-> "none"]

--------------------------------------------------------------------------
(* What the history says, computed apart from the replay: the events in    *)
(* order, each row followed by its own identity.                           *)

Commits == history.transactions

\* The rows after the first n transactions, or Broken where they do not fit.
RowsAfter(n) ==
  LET rows[i \in 0 .. Len(Commits)] ==
        IF i = 0 THEN history.rows
        ELSE IF rows[i - 1] \in {Broken, TooLarge} THEN rows[i - 1]
        ELSE ApplyEvents(rows[i - 1], Commits[i].events)
  IN rows[n]

Chained ==
  \A i \in DOMAIN Commits :
    /\ Commits[i].previous = IF i = 1 THEN history.baseline ELSE Commits[i - 1].position
    /\ Commits[i].previous < Commits[i].position

\* What is declared is what is there, and every transaction fits.
Intact ==
  /\ Cardinality(Present(history.rows)) = history.rowCount
  /\ Len(Commits) = history.count
  /\ Chained
  /\ ~history.stalls
  /\ history.head = IF Commits = << >> THEN history.baseline ELSE Commits[Len(Commits)].position
  /\ RowsAfter(Len(Commits)) # Broken

PositionAfter(n) == IF n = 0 THEN history.baseline ELSE Commits[n].position

\* How many transactions lead to a recorded position, the first time.
CommitsTo(position) ==
  CHOOSE n \in 0 .. Len(Commits) :
    /\ PositionAfter(n) = position
    /\ \A m \in 0 .. n - 1 : PositionAfter(m) # position
=============================================================================
