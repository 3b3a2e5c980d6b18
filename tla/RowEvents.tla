----------------------------- MODULE RowEvents -----------------------------
(***************************************************************************)
(* Rows and row events as packages/sdk/src/domain/state.ts applies them:   *)
(* a state holds at most one row under a key, an event carries the full    *)
(* image before and after, and the events of a transaction apply in order, *)
(* each to the rows the events before it left.  All tables are one here.   *)
(***************************************************************************)
EXTENDS Naturals, Sequences, FiniteSets

CONSTANTS
  Keys,       \* row keys, ordered as numbers
  Values,     \* row contents
  NoRow,      \* no row under a key, and the absent image of an event
  Broken,     \* a transaction or a page the history should not contain
  TooLarge,   \* a state beyond the replay limits
  MaxRows     \* rows one state may hold (100 000 in the code)

ASSUME KeysAssumption == Keys \subseteq Nat \ {0} /\ IsFiniteSet(Keys)
ASSUME MaxRowsAssumption == MaxRows \in Nat

Table == [Keys -> Values \union {NoRow}]
Image == [key : Keys, value : Values]
Event == [before : Image \union {NoRow}, after : Image \union {NoRow}]

\* No row is neither a content nor an image, and a refusal is neither of them.
ASSUME NoRowAssumption ==
  /\ NoRow \notin Values
  /\ NoRow \notin Image
  /\ Broken \notin Image \union {NoRow}
  /\ Broken # TooLarge
  /\ Broken \notin Table
  /\ TooLarge \notin Table

Present(rows) == {k \in Keys : rows[k] # NoRow}

Stale(rows, event) ==
  event.before # NoRow /\ rows[event.before.key] # event.before.value

Without(rows, event) ==
  IF event.before = NoRow THEN rows ELSE [rows EXCEPT ![event.before.key] = NoRow]

\* One event on the rows the events before it left.
ApplyEvent(rows, event) ==
  LET kept == Without(rows, event) IN
  IF Stale(rows, event) THEN Broken
  ELSE IF event.after = NoRow THEN kept
  ELSE IF kept[event.after.key] # NoRow THEN Broken
  ELSE IF Cardinality(Present(kept)) >= MaxRows THEN TooLarge
  ELSE [kept EXCEPT ![event.after.key] = event.after.value]

\* The keys of a set in their order.
InKeyOrder(S) ==
  [i \in 1 .. Cardinality(S) |-> CHOOSE k \in S : Cardinality({j \in S : j <= k}) = i]

ApplyEvents(rows, events) ==
  LET after[i \in 0 .. Len(events)] ==
        IF i = 0 THEN rows
        ELSE LET r == after[i - 1] IN
             IF r \in {Broken, TooLarge} THEN r ELSE ApplyEvent(r, events[i])
  IN after[Len(events)]
=============================================================================
