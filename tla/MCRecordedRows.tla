--------------------------- MODULE MCRecordedRows ---------------------------
(***************************************************************************)
(* What the source does, for TLC: one row with a small and a big part, and *)
(* transactions that meet the rules of full row images - a big part left   *)
(* out after it was changed, in the same transaction and in an earlier     *)
(* one, a row deleted and inserted again, a row that moves to another key  *)
(* while its key is taken over, an empty transaction and one too large.    *)
(***************************************************************************)
EXTENDS RecordedRows

MCValues == [small : {1, 2}, big : {1, 2}]

Row(small, big) == [small |-> small, big |-> big]

MCSnapshots == {[k \in Keys |-> IF k = 1 THEN Row(1, 1) ELSE NoRow]}

Put(key, small, big) == [from |-> NoKey, to |-> key, small |-> small, big |-> big]
Set(key, small, big) == [from |-> key, to |-> key, small |-> small, big |-> big]
Move(key, to)        == [from |-> key, to |-> to, small |-> 1, big |-> Same]
Delete(key)          == [from |-> key, to |-> NoKey, small |-> 1, big |-> Same]

Txn(contexts, ops) == [ops |-> ops, contexts |-> contexts]

MCWorkload ==
  { Txn(1, << >>),
    Txn(2, <<Set(1, 2, 2)>>),
    Txn(0, <<Set(1, 1, 2), Set(1, 2, Same)>>),
    Txn(1, <<Delete(1), Put(1, 1, 2)>>),
    Txn(0, <<Move(1, 2), Put(1, 2, 1)>>),
    Txn(0, <<Delete(2)>>),
    Txn(0, <<Set(1, 2, 2), Set(1, 1, 1), Set(1, 2, Same)>>) }

MCForgeries == {NoRow, Row(2, 2)}

\* Frames depend on nothing that others change, so others act only where it
\* matters: after a stop, while a commit waits to be appended, and at the end
\* of a stream that was never stopped.  What damages a record while a commit
\* waits does so as well before the next one.
Calm ==
  \/ assembler.phase = "pending"
  \/ assembler.phase = "down" /\ stops > 0
  \/ assembler.phase = "idle" /\ sender.txn > MaxCommits /\ stops = 0

\* The source commits when what it committed before has been sent.
Caught == assembler.phase = "idle" /\ sender.txn > Len(wal)

MCNext ==
  \/ Recorder \/ Stop \/ Crash
  \/ Caught /\ Source
  \/ Calm /\ Viewer
  \/ Calm /\ assembler.phase # "pending" /\ Damage

MCSpec == Init /\ [][MCNext]_vars
=============================================================================
