------------------------ MODULE TransactionAssembly ------------------------
(***************************************************************************)
(* PostgresTransactions and changes.ts: the messages of one pgoutput       *)
(* stream become committed transactions with full row images, against the  *)
(* recorded rows of the last durable commit and nothing else.              *)
(*                                                                         *)
(* A row's value is a small part, sent in full, and a big one, which the   *)
(* source may leave out of an image when it is stored out of line and the  *)
(* change did not touch it.  The source's i-th commit starts its commit    *)
(* record at 2i - 1 and ends at 2i.  A frame is pushed in the step that    *)
(* sends it; frames are neither lost nor reordered on a connection.        *)
(***************************************************************************)
EXTENDS RowEvents

CONSTANTS
  Workload,     \* what the source may commit: [ops, contexts]
  Unchanged,    \* a big part that is not sent
  NoKey,        \* no row on that side of an operation
  Same,         \* an operation that leaves the big part alone
  MaxFrames,    \* frames of one transaction (100 000 in the code)
  MaxEvents,    \* row events of one transaction
  MaxCommits    \* commits the source makes

Smalls == {v.small : v \in Values}
Bigs   == {v.big : v \in Values}

\* What the source may do to a row: insert, update, move or delete it.
Operations ==
  {op \in [from : Keys \union {NoKey}, to : Keys \union {NoKey},
           small : Smalls, big : Bigs \union {Same}] : op.big = Same => op.from # NoKey}

\* The two parts of a row's value are independent.
ASSUME ValuesAssumption == Values = [small : Smalls, big : Bigs]
ASSUME PartsAssumption ==
  /\ Unchanged \notin Bigs /\ NoKey \notin Keys
  /\ NoRow \notin [key : Keys, value : [small : Smalls, big : {Unchanged}]]
ASSUME WorkloadAssumption ==
  \A txn \in Workload : txn.ops \in Seq(Operations) /\ txn.contexts \in Nat
ASSUME LimitsAssumption ==
  MaxFrames \in Nat \ {0} /\ MaxEvents \in Nat /\ MaxCommits \in Nat

VARIABLES
  wal,       \* the source's commits: [events, altered, contexts]
  altered,   \* the source's table was altered after the snapshot
  base,      \* the rows of the snapshot
  sender,    \* [txn, event, relation, contexts]: what the stream has sent
  relation,  \* the relation the transport library holds: altered or not
  assembler  \* [phase, head, commit, overlay, events, context, frames, why]

sourceVars == <<wal, altered, base>>
streamVars == <<sender, relation, assembler>>

--------------------------------------------------------------------------
(* The source.                                                             *)

RowsAfter(n) ==
  LET rows[i \in 0 .. Len(wal)] == IF i = 0 THEN base ELSE ApplyEvents(rows[i - 1], wal[i].events)
  IN rows[n]

EventOf(rows, op) ==
  [before |-> IF op.from = NoKey THEN NoRow ELSE [key |-> op.from, value |-> rows[op.from]],
   after  |-> IF op.to = NoKey THEN NoRow
              ELSE [key |-> op.to,
                    value |-> [small |-> op.small,
                               big   |-> IF op.big = Same THEN rows[op.from].big ELSE op.big]]]

\* The operation can be done on these rows.
Possible(rows, op) ==
  /\ op.from # NoKey => rows[op.from] # NoRow
  /\ op.to # NoKey => op.to = op.from \/ rows[op.to] = NoRow

\* The events of a sequence of operations; Broken when one is impossible.
EventsOf(rows, ops) ==
  LET done[i \in 0 .. Len(ops)] ==
        IF i = 0 THEN [rows |-> rows, events |-> << >>, possible |-> TRUE]
        ELSE LET d == done[i - 1] IN
             IF ~d.possible \/ ~Possible(d.rows, ops[i]) THEN [d EXCEPT !.possible = FALSE]
             ELSE LET e == EventOf(d.rows, ops[i]) IN
                  [d EXCEPT !.rows = ApplyEvent(@, e), !.events = Append(@, e)]
  IN done[Len(ops)]

SourceCommits ==
  /\ Len(wal) < MaxCommits
  /\ \E txn \in Workload :
       LET done == EventsOf(RowsAfter(Len(wal)), txn.ops) IN
       /\ done.possible
       /\ wal' = Append(wal, [events |-> done.events, altered |-> altered,
                              contexts |-> txn.contexts])
  /\ UNCHANGED <<altered, base, streamVars>>

\* ALTER TABLE: changes that follow are of another shape.
SourceAlters ==
  /\ ~altered
  /\ altered' = TRUE
  /\ UNCHANGED <<wal, base, streamVars>>

CommitLsn(i) == 2 * i - 1
EndLsn(i) == 2 * i

--------------------------------------------------------------------------
(* The assembler.                                                          *)

Down == [phase |-> "down", why |-> "none"]

\* Nothing of the transaction has changed this key.
Untouched == [kind |-> "untouched"]

\* Any failure closes the stream; what was not confirmed is discarded.
Closed(why) == [phase |-> "closed", why |-> why]

NotSending == [txn |-> 0, event |-> 0, relation |-> FALSE, contexts |-> 0]

\* The source sends what ends after the position it was asked for.
StartAssembler(head) ==
  /\ assembler' = [phase |-> "idle", head |-> head, commit |-> 0, overlay |-> << >>,
                   events |-> << >>, context |-> 0, frames |-> 0, why |-> "none"]
  /\ sender' = [NotSending EXCEPT !.txn = (head.position \div 2) + 1]
  /\ relation' = FALSE

\* Mutant of Frame: the frame that exceeds the budget is still taken.
FrameLate(next) ==
  IF assembler.frames > MaxFrames THEN Closed("limit")
  ELSE IF next.phase = "closed" THEN next ELSE [next EXCEPT !.frames = @ + 1]

\* The frame budget of a transaction, counted before the frame is looked at.
Frame(next) ==
  IF assembler.frames >= MaxFrames THEN Closed("limit")
  ELSE IF next.phase = "closed" THEN next ELSE [next EXCEPT !.frames = @ + 1]

PushBegin ==
  /\ assembler.phase = "idle"
  /\ sender.txn <= Len(wal)
  /\ assembler' =
       IF CommitLsn(sender.txn) < assembler.head.position THEN Closed("invalid")
       ELSE [assembler EXCEPT !.phase = "collecting", !.commit = sender.txn,
                              !.overlay = [k \in Keys |-> Untouched], !.events = << >>,
                              !.context = 0, !.frames = 1]
  /\ sender' = [sender EXCEPT !.event = 1, !.contexts = 0]
  /\ UNCHANGED <<sourceVars, relation>>

Sending == wal[sender.txn]

HasChange == sender.event <= Len(Sending.events)

\* The source describes the table before the first change of a stream and
\* whenever its shape is new; the library keeps the last description.
OwesRelation == ~sender.relation \/ relation # Sending.altered

\* postgresRelation on the description itself.
PushRelation ==
  /\ assembler.phase = "collecting"
  /\ HasChange /\ OwesRelation
  /\ relation' = Sending.altered
  /\ sender' = [sender EXCEPT !.relation = TRUE]
  /\ assembler' = Frame(IF Sending.altered THEN Closed("schema") ELSE assembler)
  /\ UNCHANGED sourceVars

\* One context in a transaction is its context; a second one is refused.
PushContext ==
  /\ assembler.phase = "collecting"
  /\ sender.contexts < Sending.contexts
  /\ sender' = [sender EXCEPT !.contexts = @ + 1]
  /\ assembler' = Frame(IF assembler.context # 0 THEN Closed("context")
                        ELSE [assembler EXCEPT !.context = sender.txn])
  /\ UNCHANGED <<sourceVars, relation>>

\* Mutant of ReadRow: only rows of the durable head are known.
ReadHeadRow(key) == assembler.head.rows[key]

\* Recorded rows, with what this transaction did to them so far.
ReadRow(key) ==
  IF assembler.overlay[key] = Untouched THEN assembler.head.rows[key]
  ELSE assembler.overlay[key].row

\* Mutant of Complete: what was not sent is empty.
CompleteEmpty(image, previous) ==
  [key |-> image.key, value |-> [small |-> image.value.small,
     big |-> IF image.value.big = Unchanged THEN 0 ELSE image.value.big]]

\* A part that was not sent is the part of the row the image is compared with.
Complete(image, previous) ==
  IF image.value.big = Unchanged
  THEN [image EXCEPT !.value.big = previous.big]
  ELSE image

Unsent(image) == [image EXCEPT !.value.big = Unchanged]

\* What the source may send for an image: all of it, or all but its big part.
Images(image, mayOmit) ==
  IF image = NoRow THEN {NoRow} ELSE {image} \union (IF mayOmit THEN {Unsent(image)} ELSE {})

Record(event) ==
  LET removed == IF event.before = NoRow THEN assembler.overlay
                 ELSE [assembler.overlay EXCEPT ![event.before.key] = [kind |-> "row", row |-> NoRow]]
  IN IF event.after = NoRow THEN removed
     ELSE [removed EXCEPT ![event.after.key] = [kind |-> "row", row |-> event.after.value]]

\* postgresChange, the event budget and the overlay.
Change(old, new) ==
  LET previous == IF old = NoRow THEN NoRow ELSE ReadRow(old.key) IN
  IF relation THEN Closed("schema")
  ELSE IF old # NoRow /\ previous = NoRow THEN Closed("invalid")
  ELSE LET before == IF old = NoRow THEN NoRow ELSE Complete(old, previous) IN
       IF old # NoRow /\ before.value # previous THEN Closed("invalid")
       ELSE LET event == [before |-> before,
                          after  |-> IF new = NoRow THEN NoRow
                                     ELSE IF old = NoRow THEN new
                                     ELSE Complete(new, before.value)]
            IN IF Len(assembler.events) >= MaxEvents THEN Closed("limit")
               ELSE [assembler EXCEPT !.events = Append(@, event), !.overlay = Record(event)]

PushChange ==
  LET event == Sending.events[sender.event] IN
  /\ assembler.phase = "collecting"
  /\ HasChange /\ ~OwesRelation
  /\ \E old \in Images(event.before, TRUE),
        new \in Images(event.after, event.before # NoRow /\ event.after # NoRow
                                      /\ event.after.value.big = event.before.value.big) :
       assembler' = Frame(Change(old, new))
  /\ sender' = [sender EXCEPT !.event = @ + 1]
  /\ UNCHANGED <<sourceVars, relation>>

\* The commit of what was collected, on the rows of the durable head.
Assembled ==
  [previous |-> assembler.head.position, position |-> EndLsn(assembler.commit),
   context  |-> assembler.context, events |-> assembler.events]

PushCommit ==
  /\ assembler.phase = "collecting"
  /\ ~HasChange
  /\ sender.contexts = Sending.contexts
  /\ LET rows == ApplyEvents(assembler.head.rows, assembler.events) IN
     assembler' = Frame(IF rows = Broken THEN Closed("invalid")
                        ELSE IF rows = TooLarge THEN Closed("limit")
                        ELSE [assembler EXCEPT !.phase = "pending"])
  /\ sender' = [sender EXCEPT !.txn = @ + 1, !.event = 0]
  /\ UNCHANGED <<sourceVars, relation>>

\* confirmDurable: the pending commit becomes the head the next one starts from.
ConfirmDurable ==
  /\ assembler.phase = "appended"
  /\ assembler' = [assembler EXCEPT
       !.phase = "idle",
       !.head = [position |-> EndLsn(assembler.commit),
                 rows     |-> ApplyEvents(@.rows, assembler.events)]]
  /\ UNCHANGED <<sourceVars, sender, relation>>

PushFrame == PushBegin \/ PushRelation \/ PushContext \/ PushChange \/ PushCommit

AssemblyInit(rows) ==
  /\ base = rows
  /\ wal = << >>
  /\ altered = FALSE
  /\ sender = NotSending
  /\ relation = FALSE
  /\ assembler = Down
=============================================================================
