---------------------------- MODULE HistoryState ----------------------------
(***************************************************************************)
(* The replay semantics of packages/sdk/src/domain: a recorded database is *)
(* a set of row identities at a position, a committed transaction moves    *)
(* it to its own position by removing and adding rows, and a transaction   *)
(* applies only to the state it was made from.                             *)
(*                                                                         *)
(* A row is abstracted to its identity (table, key and value together):    *)
(* an update removes the before-image and adds the after-image, so a stale *)
(* before-image is the removal of a row that is not there.  The ordered    *)
(* events of one transaction are abstracted to their net change.           *)
(***************************************************************************)
EXTENDS Naturals, Sequences

CONSTANTS
  Rows,         \* row identities that can be recorded
  Changes,      \* net changes a transaction can make
  MaxPosition   \* largest source position (40 decimal digits in the code)

ASSUME ChangesAssumption ==
  Changes \subseteq [removes : SUBSET Rows, adds : SUBSET Rows]

ASSUME MaxPositionAssumption == MaxPosition \in Nat

\* Canonical unsigned source offsets.
Position == 0 .. MaxPosition

\* What decodeTransaction admits: a commit position must advance.
Transaction ==
  {t \in [previous : Position, position : Position, change : Changes] :
      t.previous < t.position}

State == [position : Position, rows : SUBSET Rows]

\* The predecessor, before-image and key-collision checks of apply.
Applies(state, t) ==
  /\ t.previous = state.position
  /\ t.change.removes \subseteq state.rows
  /\ t.change.adds \cap (state.rows \ t.change.removes) = {}

\* The state apply returns when every check holds.
Apply(state, t) ==
  [position |-> t.position,
   rows     |-> (state.rows \ t.change.removes) \union t.change.adds]

\* Mutant of Replay: a row added once is there for good.
ReplayKeepingAdded(base, ts) ==
  [position |-> IF ts = << >> THEN base.position ELSE ts[Len(ts)].position,
   rows     |->
     {r \in Rows :
        \/ r \in base.rows /\ \A i \in DOMAIN ts : r \notin ts[i].change.removes
        \/ \E i \in DOMAIN ts : r \in ts[i].change.adds}]

\* Replay of a baseline and the transactions after it, without recursion: a
\* row is present when something put it there and nothing later removed it.
Replay(base, ts) ==
  [position |-> IF ts = << >> THEN base.position ELSE ts[Len(ts)].position,
   rows     |->
     {r \in Rows :
        \/ /\ r \in base.rows
           /\ \A i \in DOMAIN ts : r \notin ts[i].change.removes
        \/ \E i \in DOMAIN ts :
             /\ r \in ts[i].change.adds
             /\ \A j \in DOMAIN ts : j > i => r \notin ts[j].change.removes}]

\* Every transaction applies to the replay of what precedes it.
Consistent(base, ts) ==
  \A i \in DOMAIN ts : Applies(Replay(base, SubSeq(ts, 1, i - 1)), ts[i])
=============================================================================
