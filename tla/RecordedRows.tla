---------------------------- MODULE RecordedRows ----------------------------
(***************************************************************************)
(* From the source's rows to the rows a reader is shown: transactions are  *)
(* assembled from the stream, appended to the recording, restored - from   *)
(* checkpoints where there are any - and what was restored is in turn what *)
(* a resumed stream is assembled against.  Checkpoints are published,      *)
(* removed and read meanwhile, the recorder stops and crashes, and records *)
(* may be damaged.  One recorder has the recording to itself.              *)
(***************************************************************************)
EXTENDS TransactionAssembly, Checkpoints

CONSTANTS
  Snapshots,  \* the rows of the baseline
  MaxStops,   \* stops and crashes of the recorder
  MaxDamage   \* damaged records

\* The row limit of a state is not met here.
ASSUME SnapshotsAssumption == Snapshots \subseteq Table /\ Cardinality(Keys) <= MaxRows

VARIABLES
  shared,   \* the viewer is the recorder's own connection
  warm,     \* the recorder's replay cache holds the head
  stops,
  damages,  \* damaged records, of any kind
  harmed    \* the history itself was damaged

otherVars == <<stops, damages, harmed>>

vars == <<sourceVars, streamVars, checkpointVars, shared, warm, stops, damages, harmed>>

Init ==
  /\ \E rows \in Snapshots : AssemblyInit(rows) /\ CheckpointsInit(rows)
  /\ shared \in BOOLEAN
  /\ warm = FALSE
  /\ stops = 0
  /\ damages = 0
  /\ harmed = FALSE

\* The recorder's cache does not survive a commit of another connection.
Cools(elsewhere) == warm' = IF elsewhere THEN FALSE ELSE warm

--------------------------------------------------------------------------
(* The recorder.                                                           *)

\* restoreRecordingHead: the state before the last transaction, and that
\* transaction applied to it.
RestoredHead ==
  IF info.head = 0 THEN Restored(0)
  ELSE IF info.head \notin DOMAIN commits \/ ~commits[info.head].ok THEN Failed
  ELSE LET last   == commits[info.head].commit
           before == Restored(last.previous)
       IN IF before = Failed THEN Failed
          ELSE LET rows == ApplyEvents(before.rows, last.events) IN
               IF rows \in {Broken, TooLarge} THEN Failed
               ELSE [kind |-> "state", position |-> info.head, rows |-> rows]

Resume ==
  /\ assembler.phase = "down"
  /\ RestoredHead # Failed
  /\ StartAssembler([position |-> info.head, rows |-> RestoredHead.rows])
  /\ UNCHANGED <<sourceVars, checkpointVars, shared, warm, otherVars>>

Stream ==
  /\ PushFrame
  /\ UNCHANGED <<checkpointVars, shared, warm, otherVars>>

\* The store checks a commit against its cached head, or the restored one.  That it
\* also applies the events to it is left out: a state that is cached or restored is
\* the one the stream was assembled against (RestoredIsSource), so none is refused.
AppendDurable ==
  /\ assembler.phase = "pending"
  /\ \/ /\ warm \/ Restored(info.head) # Failed
        /\ StoreCommit(Assembled, ~shared)
        /\ assembler' = [assembler EXCEPT !.phase = "appended"]
        /\ warm' = TRUE
     \/ /\ ~warm
        /\ Restored(info.head) = Failed
        /\ assembler' = Closed("store")
        /\ UNCHANGED <<checkpointVars, warm>>
  /\ UNCHANGED <<sourceVars, sender, relation, shared, otherVars>>

Confirm ==
  /\ ConfirmDurable
  /\ UNCHANGED <<checkpointVars, shared, warm, otherVars>>

\* A closed stream is given up, and may be opened again.
GiveUp ==
  /\ assembler.phase = "closed"
  /\ assembler' = Down
  /\ UNCHANGED <<sourceVars, sender, relation, checkpointVars, shared, warm, otherVars>>

Recorder == Resume \/ Stream \/ AppendDurable \/ Confirm \/ GiveUp

\* The recorder stops or its stream fails, wherever it is.
Stop ==
  /\ stops < MaxStops
  /\ assembler.phase \notin {"down", "closed"}
  /\ assembler' = Closed("stopped")
  /\ stops' = stops + 1
  /\ UNCHANGED <<sourceVars, sender, relation, checkpointVars, shared, warm, damages, harmed>>

\* Its process dies, with the caches of its connection.
Crash ==
  /\ stops < MaxStops
  /\ assembler' = Down
  /\ stops' = stops + 1
  /\ warm' = FALSE
  /\ verified' = IF shared THEN Unverified ELSE verified
  /\ UNCHANGED <<sourceVars, sender, relation, storedVars, checkpoints, shared, damages, harmed>>

--------------------------------------------------------------------------
(* Everybody else.                                                         *)

Source == (SourceCommits \/ SourceAlters) /\ UNCHANGED <<checkpointVars, shared, warm, otherVars>>

Viewer ==
  /\ \/ /\ \E p \in {0} \union DOMAIN commits : PublishCheckpoint(p)
        /\ Cools(~shared)
     \/ /\ \E c \in DOMAIN checkpoints : RemoveCheckpoint(c)
        /\ Cools(~shared)
     \/ /\ \E c \in DOMAIN checkpoints : ReadCheckpoint(c)
        /\ UNCHANGED warm
  /\ UNCHANGED <<sourceVars, streamVars, shared, otherVars>>

Damage ==
  /\ damages < MaxDamage
  /\ damages' = damages + 1
  /\ \/ \E c \in DOMAIN checkpoints : DamageCheckpoint(c) /\ UNCHANGED harmed
     \/ DamageHistory /\ harmed' = TRUE
  /\ warm' = FALSE
  /\ UNCHANGED <<sourceVars, streamVars, shared, stops>>

Next == Recorder \/ Stop \/ Crash \/ Source \/ Viewer \/ Damage

Spec == Init /\ [][Next]_vars

--------------------------------------------------------------------------
Phases == {"down", "closed", "idle", "collecting", "pending", "appended"}

\* The shapes of what is recorded and collected, within the limits of a
\* transaction and of a state.
TypeOK ==
  /\ assembler.phase \in Phases
  /\ assembler.phase \notin {"down", "closed"} =>
       /\ assembler.frames <= MaxFrames
       /\ Len(assembler.events) <= MaxEvents
       /\ assembler.head.rows \in Table
       /\ Cardinality(Present(assembler.head.rows)) <= MaxRows
  /\ \A c \in DOMAIN checkpoints :
       checkpoints[c].rows \in Table /\ checkpoints[c].manifest.rows \in Table
  /\ DOMAIN commits \subseteq {EndLsn(i) : i \in 1 .. Len(wal)}

\* What is recorded of a commit is what the source committed, with every part
\* the stream left out filled in as it was at that moment in that transaction,
\* and with the context emitted in it and in no other - after any number of
\* stops, crashes and restored heads.
RecordedIsSource ==
  \A p \in DOMAIN commits :
    LET i == p \div 2
        t == commits[p].commit
    IN /\ t.events = wal[i].events
       /\ t.previous = EndLsn(i - 1)
       /\ t.context = IF wal[i].contexts = 0 THEN 0 ELSE i
       /\ ~wal[i].altered \/ wal[i].events = << >>

\* A restored state is the source's state after that commit, whatever
\* checkpoints there are and whatever happened to them or to the history:
\* damage may refuse an answer and never changes one.
RestoredIsSource ==
  \A i \in 0 .. Len(wal) :
    LET restored == Restored(EndLsn(i)) IN restored # Failed => restored.rows = RowsAfter(i)

\* The most one restoration can have to look at.
AmpleFor(p) ==
  LET size == PrefixSize(p) + Cardinality(Keys) IN
  /\ (Cardinality(DOMAIN checkpoints) + 1) * size <= MaxWork
  /\ Cardinality(DOMAIN checkpoints) <= MaxCandidates

\* A checkpoint is never in the way: while the history is whole and the budget
\* covers one scan for each of them and one more, every recorded position is
\* restored, however many of the checkpoints are damaged.
CheckpointsNeverHinder ==
  ~harmed =>
    \A p \in {0} \union DOMAIN commits : AmpleFor(p) => Restored(p) # Failed

\* A page of checkpoint rows is the next rows, in key order, of the source's
\* state at the checkpoint's position, and says whether there are more; also
\* when the artifact was verified for an earlier page and changed since.
PagesAreSource ==
  \A c \in DOMAIN checkpoints : \A cursor \in {NoCursor} \union Keys :
    LET page == CheckpointPage(c, cursor)
        rows == RowsAfter(c \div 2)
        left == {k \in Present(rows) : k > cursor}
    IN page # Failed =>
         /\ Len(page.items) = IF Cardinality(left) < PageRows THEN Cardinality(left) ELSE PageRows
         /\ \A i \in DOMAIN page.items :
              /\ page.items[i].key \in left
              /\ Cardinality({k \in left : k < page.items[i].key}) = i - 1
              /\ page.items[i].value = rows[page.items[i].key]
         /\ page.next = IF Cardinality(left) > PageRows
                        THEN page.items[PageRows].key ELSE NoCursor

\* The next commit of a transaction that the recorder must refuse.
TooMuch(t) ==
  \/ Len(t.events) > MaxEvents
  \/ Len(t.events) + t.contexts + 3 > MaxFrames

\* The recorder refuses a stream only for cause: never because the rows it
\* restored or collected disagree with the source's, a changed relation only
\* when the table was altered, a size only when a commit is near the limits.
\* When the store refuses a commit, restoring the head has failed: its causes
\* are those that CheckpointsNeverHinder leaves.
RefusedForCause ==
  assembler.phase = "closed" =>
    /\ assembler.why # "invalid"
    /\ assembler.why = "schema"  => \E i \in DOMAIN wal : wal[i].altered
    /\ assembler.why = "limit"   => \E i \in DOMAIN wal : TooMuch(wal[i])
    /\ assembler.why = "context" => \E i \in DOMAIN wal : wal[i].contexts > 1

\* Whatever is recorded, restored or shown of a commit is the source's: its
\* events, its state, its rows.
RowsAreSource == TypeOK /\ RecordedIsSource /\ RestoredIsSource /\ PagesAreSource

\* Nothing that is intact is refused: no checkpoint is in the way of a
\* restoration, and no stream that can be continued is given up.
RefusalsHaveCause == CheckpointsNeverHinder /\ RefusedForCause
=============================================================================
