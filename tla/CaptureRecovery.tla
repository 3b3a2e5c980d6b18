--------------------------- MODULE CaptureRecovery ---------------------------
(***************************************************************************)
(* One published recording followed across crashes, reconnects and rival   *)
(* recorders: any number of resumeRecording calls (packages/sdk) against   *)
(* one local store (packages/storage-local) and one PostgreSQL slot        *)
(* (packages/source-postgres).  An attempt reserves a writer generation,   *)
(* acquires the source lease, activates its claim, restores the durable    *)
(* head, opens the replication stream and records commit after commit.     *)
(*                                                                         *)
(* The server keeps sessions of clients that are gone until it notices,    *)
(* and clients keep believing in sessions the server has ended.  The store *)
(* may run an append after its caller has given up on it.                  *)
(*                                                                         *)
(* Positions are numbers of source commits after the baseline; a stored    *)
(* transaction is the position it ends at.                                 *)
(***************************************************************************)
EXTENDS Naturals, Sequences

CONSTANTS
  Attempts,    \* resumeRecording calls
  Nobody,      \* no attempt
  MaxCommits   \* bound: source commits in one behaviour

ASSUME NobodyAssumption  == Nobody \notin Attempts
ASSUME CommitsAssumption == MaxCommits \in Nat

NoRequest == [kind |-> "none"]

Status == {"recording", "stopped", "interrupted", "invalid"}

Phase == {"idle", "claimed", "acquired", "activated", "restoring", "restored",
          "checked", "opened", "started", "reading", "appending", "appended",
          "failing", "settled", "closing"}

Slot == [confirmed : Nat, active : Attempts \union {Nobody}]

OwnerRow == [generation : Nat, owner : Nat, active : BOOLEAN]

RecordingInfo == [head : Nat, status : Status]

Handles == {"lease", "stream", "writer"}

AppendRequest == [kind : {"append"}, previous : Nat, position : Nat]

VARIABLES
  committed,  \* commits made by the source
  slot,       \* confirmed_flush_lsn and the session streaming from the slot
  lock,       \* the session holding the advisory locks
  stored,     \* the recording's transactions
  status,     \* the recording's status
  owner,      \* its row in recording_owners
  phase,      \* where each attempt is
  held,       \* what each attempt has open: source lease, stream, write lease
  token,      \* the generation each attempt reserved
  seen,       \* recording info each attempt restored from
  head,       \* the assembler's durable position
  sent,       \* last commit the server sent to the attempt
  ending,    \* the status an attempt that ends wants to leave
  request,    \* an append the store's worker has accepted and not run
  acks        \* acknowledgements on the way to the server

source   == <<committed, slot, lock>>
store    == <<stored, status, owner>>
attempts == <<phase, held, token, seen, head, sent, ending>>
vars     == <<committed, slot, lock, stored, status, owner, phase, held, token,
              seen, head, sent, ending, request, acks>>

Init ==
  /\ committed = 0
  /\ slot      = [confirmed |-> 0, active |-> Nobody]
  /\ lock      = Nobody
  /\ stored    = << >>
  /\ status \in {"recording", "stopped", "interrupted"}
  /\ owner     = [generation |-> 0, owner |-> 0, active |-> FALSE]
  /\ phase     = [a \in Attempts |-> "idle"]
  /\ held      = [a \in Attempts |-> {}]
  /\ token     = [a \in Attempts |-> 0]
  /\ seen      = [a \in Attempts |-> [head |-> 0, status |-> status]]
  /\ head      = [a \in Attempts |-> 0]
  /\ sent      = [a \in Attempts |-> 0]
  /\ ending   = [a \in Attempts |-> "interrupted"]
  /\ request   = [a \in Attempts |-> NoRequest]
  /\ acks      = [a \in Attempts |-> << >>]

-----------------------------------------------------------------------------
(* Shared checks                                                           *)

\* headPosition of the recording.
DurableHead == IF stored = << >> THEN 0 ELSE stored[Len(stored)]

Info == [head |-> DurableHead, status |-> status]

\* assertWrite for the attempt's token.
MayWrite(a) == owner.active /\ owner.owner = token[a] /\ token[a] > 0

StatusChange(from, to) ==
  \/ from = to
  \/ from = "recording"
  \/ from \in {"stopped", "interrupted"} /\ to \in {"recording", "invalid"}

At(a, p) == phase[a] = p

Go(a, p) == phase' = [phase EXCEPT ![a] = p]

\* Failing before recording has begun leaves the status alone.
GiveUp(a) == Go(a, "closing")

SourceUnchanged == UNCHANGED <<committed, slot, lock>>

StoreUnchanged == UNCHANGED <<stored, status, owner, request>>

-----------------------------------------------------------------------------
(* resumeRecording: claim, acquire, activate, restore, open                *)

Reserve(a) ==
  /\ owner' = [owner EXCEPT !.generation = @ + 1]
  /\ token' = [token EXCEPT ![a] = owner.generation + 1]

Prepare(a) ==
  /\ At(a, "idle")
  /\ status # "invalid"
  /\ Reserve(a)
  /\ Go(a, "claimed")
  /\ SourceUnchanged
  /\ UNCHANGED <<stored, status, held, seen, head, sent, ending, request, acks>>

\* pg_try_advisory_lock: never waits.
Acquire(a) ==
  /\ At(a, "claimed")
  /\ IF lock = Nobody
       THEN /\ lock' = a
            /\ held' = [held EXCEPT ![a] = {"lease"}]
            /\ Go(a, "acquired")
       ELSE GiveUp(a) /\ UNCHANGED <<lock, held>>
  /\ UNCHANGED <<committed, slot, token, seen, head, sent, ending, acks>>
  /\ StoreUnchanged

Activate(a) ==
  /\ At(a, "acquired")
  /\ IF owner.owner < token[a] /\ token[a] <= owner.generation
       THEN /\ owner' = [owner EXCEPT !.owner = token[a], !.active = TRUE]
            /\ held' = [held EXCEPT ![a] = @ \union {"writer"}]
            /\ Go(a, "activated")
       ELSE GiveUp(a) /\ UNCHANGED <<owner, held>>
  /\ SourceUnchanged
  /\ UNCHANGED <<stored, status, token, seen, head, sent, ending, request, acks>>

\* restoreRecordingHead reads the recording's info, rebuilds its state, ...
RestoreHead(a) ==
  /\ At(a, "activated")
  /\ IF status # "invalid"
       THEN /\ seen' = [seen EXCEPT ![a] = Info]
            /\ head' = [head EXCEPT ![a] = DurableHead]
            /\ Go(a, "restoring")
       ELSE GiveUp(a) /\ UNCHANGED <<seen, head>>
  /\ SourceUnchanged
  /\ StoreUnchanged
  /\ UNCHANGED <<held, token, sent, ending, acks>>

\* ... and reads it again.
RecheckHead(a) ==
  /\ At(a, "restoring")
  /\ IF Info = seen[a] THEN Go(a, "restored") ELSE GiveUp(a)
  /\ SourceUnchanged
  /\ StoreUnchanged
  /\ UNCHANGED <<held, token, seen, head, sent, ending, acks>>

\* inspectSlot: inactive, and the durable head inside the retained range.
SlotFits(a) ==
  /\ slot.active = Nobody
  /\ slot.confirmed <= head[a]
  /\ head[a] <= committed

CheckSlot(a) ==
  /\ At(a, "restored")
  /\ IF SlotFits(a) THEN Go(a, "checked") ELSE GiveUp(a)
  /\ SourceUnchanged
  /\ StoreUnchanged
  /\ UNCHANGED <<held, token, seen, head, sent, ending, acks>>

\* Mutant of RequestedStart: streaming starts at the source's current position.
RequestedStartCurrent(a) == committed

\* The position the subscription asks for.
RequestedStart(a) == head[a]

\* The server streams from there, or from what it was already told to forget.
StartReplication(a) ==
  /\ At(a, "checked")
  /\ IF slot.active = Nobody
       THEN /\ slot' = [slot EXCEPT !.active = a]
            /\ sent' = [sent EXCEPT ![a] =
                          IF RequestedStart(a) < slot.confirmed
                            THEN slot.confirmed ELSE RequestedStart(a)]
            /\ held' = [held EXCEPT ![a] = @ \union {"stream"}]
            /\ Go(a, "opened")
       ELSE GiveUp(a) /\ UNCHANGED <<slot, sent, held>>
  /\ UNCHANGED <<committed, lock, token, seen, head, ending, acks>>
  /\ StoreUnchanged

\* startRecording compares the stream with the store ...
MatchStream(a) ==
  /\ At(a, "opened")
  /\ IF status # "invalid" /\ DurableHead = head[a]
       THEN Go(a, "started") /\ UNCHANGED held
       ELSE /\ GiveUp(a)
            /\ held' = [held EXCEPT ![a] = @ \ {"stream"}]
  /\ SourceUnchanged
  /\ StoreUnchanged
  /\ UNCHANGED <<token, seen, head, sent, ending, acks>>

\* ... and marks the recording as recording.
MarkRecording(a) ==
  /\ At(a, "started")
  /\ IF MayWrite(a) /\ StatusChange(status, "recording")
       THEN status' = "recording" /\ Go(a, "reading") /\ UNCHANGED held
       ELSE /\ GiveUp(a)
            /\ held' = [held EXCEPT ![a] = @ \ {"stream"}]
            /\ UNCHANGED status
  /\ SourceUnchanged
  /\ UNCHANGED <<stored, owner, token, seen, head, sent, ending, request, acks>>

-----------------------------------------------------------------------------
(* Recording: receive, append, acknowledge                                 *)

NextCommit(a) ==
  [kind |-> "append", previous |-> head[a], position |-> sent[a] + 1]

\* Mutant of Deliver: progress is confirmed when a commit arrives.
DeliverConfirming(a) ==
  /\ request' = [request EXCEPT ![a] = NextCommit(a)]
  /\ acks' = [acks EXCEPT ![a] = Append(@, sent[a] + 1)]
  /\ Go(a, "appending")
  /\ UNCHANGED ending

\* The assembled transaction goes to the store, and nothing to the server.
Deliver(a) ==
  /\ request' = [request EXCEPT ![a] = NextCommit(a)]
  /\ Go(a, "appending")
  /\ UNCHANGED <<ending, acks>>

\* One commit at a time: the driver's callback waits until it is durable.  The
\* assembler refuses a commit that is not after its durable head.
Receive(a) ==
  /\ At(a, "reading")
  /\ slot.active = a
  /\ sent[a] < committed
  /\ sent' = [sent EXCEPT ![a] = @ + 1]
  /\ IF sent[a] + 1 > head[a]
       THEN Deliver(a)
       ELSE /\ ending' = [ending EXCEPT ![a] = "invalid"]
            /\ Go(a, "failing")
            /\ UNCHANGED <<request, acks>>
  /\ SourceUnchanged
  /\ UNCHANGED <<stored, status, owner, held, token, seen, head>>

\* The fenced append of the store's worker: what it accepts and what is new.
Accepts(a) ==
  /\ MayWrite(a)
  /\ status = "recording"
  /\ \/ request[a].previous = DurableHead
     \/ request[a].position \in {stored[i] : i \in DOMAIN stored}

IsNew(a) == request[a].previous = DurableHead

\* The worker runs an accepted append, whether or not its caller still waits.
StoreAppend(a) ==
  /\ request[a] # NoRequest
  /\ request' = [request EXCEPT ![a] = NoRequest]
  /\ stored' = IF Accepts(a) /\ IsNew(a)
                 THEN Append(stored, request[a].position) ELSE stored
  /\ phase' = IF At(a, "appending")
                THEN [phase EXCEPT ![a] = IF Accepts(a) THEN "appended" ELSE "failing"]
                ELSE phase
  /\ ending' = IF At(a, "appending") /\ ~Accepts(a)
                  THEN [ending EXCEPT ![a] = "invalid"] ELSE ending
  /\ SourceUnchanged
  /\ UNCHANGED <<status, owner, held, token, seen, head, sent, acks>>

\* A request of a dead worker is never run.
DropRequest(a) ==
  /\ request[a] # NoRequest
  /\ ~At(a, "appending")
  /\ request' = [request EXCEPT ![a] = NoRequest]
  /\ SourceUnchanged
  /\ UNCHANGED <<stored, status, owner, attempts, acks>>

\* Mutant of LastDurable: one commit too far.
LastDurableOffByOne(position) == position + 1

\* What an acknowledgement says: the byte before the exclusive durable end.
LastDurable(position) == position

Acknowledge(a) ==
  /\ At(a, "appended")
  /\ head' = [head EXCEPT ![a] = sent[a]]
  /\ acks' = [acks EXCEPT ![a] = Append(@, LastDurable(sent[a]))]
  /\ Go(a, "reading")
  /\ SourceUnchanged
  /\ StoreUnchanged
  /\ UNCHANGED <<held, token, seen, sent, ending>>

\* Mutant of HeartbeatReply: what the server already knows is repeated.
HeartbeatReplyRepeated(a) == slot.confirmed

HeartbeatReply(a) == LastDurable(head[a])

\* A heartbeat that asks for a reply gets the durable position.
Heartbeat(a) ==
  /\ phase[a] \in {"opened", "started", "reading", "appending", "appended"}
  /\ slot.active = a
  /\ acks[a] = << >>
  /\ acks' = [acks EXCEPT ![a] = << HeartbeatReply(a) >>]
  /\ SourceUnchanged
  /\ StoreUnchanged
  /\ UNCHANGED attempts

-----------------------------------------------------------------------------
(* Failing, stopping, closing, crashing                                    *)

\* Lease lost or cancelled, connection refused, storage error.  An attempt
\* whose subscription already runs closes it on the way.
SetupFails(a) ==
  /\ phase[a] \in {"claimed", "acquired", "activated", "restoring", "restored",
                   "checked", "opened", "started"}
  /\ GiveUp(a)
  /\ held' = [held EXCEPT ![a] = @ \ {"stream"}]
  /\ SourceUnchanged
  /\ StoreUnchanged
  /\ UNCHANGED <<token, seen, head, sent, ending, acks>>

\* The stream ends without the caller asking: connection or lease lost,
\* deadline.  While an append is in flight this waits until it has settled.
StreamFails(a) ==
  /\ phase[a] \in {"reading", "appended"}
  /\ ending' = [ending EXCEPT ![a] = "interrupted"]
  /\ Go(a, "failing")
  /\ SourceUnchanged
  /\ StoreUnchanged
  /\ UNCHANGED <<held, token, seen, head, sent, acks>>

\* stop(): also waits for the append.
Stop(a) ==
  /\ phase[a] \in {"reading", "appended"}
  /\ ending' = [ending EXCEPT ![a] = "stopped"]
  /\ Go(a, "failing")
  /\ SourceUnchanged
  /\ StoreUnchanged
  /\ UNCHANGED <<held, token, seen, head, sent, acks>>

\* The store rejects or times out, and answers no later request of this caller.
StoreLost(a) ==
  /\ phase[a] \in {"reading", "appending", "appended", "failing", "settled"}
  /\ Go(a, "closing")
  /\ held' = [held EXCEPT ![a] = @ \ {"stream", "writer"}]
  /\ SourceUnchanged
  /\ StoreUnchanged
  /\ UNCHANGED <<token, seen, head, sent, ending, acks>>

CloseStream(a) ==
  /\ At(a, "failing")
  /\ held' = [held EXCEPT ![a] = @ \ {"stream"}]
  /\ Go(a, "settled")
  /\ SourceUnchanged
  /\ StoreUnchanged
  /\ UNCHANGED <<token, seen, head, sent, ending, acks>>

\* Mutant of LeavesStatus: the status is written without the claim's token.
LeavesStatusUnfenced(a) == StatusChange(status, ending[a])

LeavesStatus(a) == MayWrite(a) /\ StatusChange(status, ending[a])

\* The fenced status write that ends a recording session.
LeaveStatus(a) ==
  /\ At(a, "settled")
  /\ status' = IF LeavesStatus(a) THEN ending[a] ELSE status
  /\ Go(a, "closing")
  /\ SourceUnchanged
  /\ UNCHANGED <<stored, owner, held, token, seen, head, sent, ending, request, acks>>

\* Both leases are closed at the same time, whatever went before.
CloseWriter(a) ==
  /\ At(a, "closing")
  /\ "writer" \in held[a]
  /\ held' = [held EXCEPT ![a] = @ \ {"writer"}]
  /\ owner' = IF owner.owner = token[a] THEN [owner EXCEPT !.active = FALSE] ELSE owner
  /\ SourceUnchanged
  /\ UNCHANGED <<stored, status, phase, token, seen, head, sent, ending, request, acks>>

\* Mutant of OwesLease: a superseded attempt returns early.
OwesLeaseAsOwner(a) == "lease" \in held[a] /\ owner.owner = token[a]

OwesLease(a) == "lease" \in held[a]

CloseLease(a) ==
  /\ At(a, "closing")
  /\ OwesLease(a)
  /\ held' = [held EXCEPT ![a] = @ \ {"lease"}]
  /\ SourceUnchanged
  /\ StoreUnchanged
  /\ UNCHANGED <<phase, token, seen, head, sent, ending, acks>>

Crash(a) ==
  /\ ~At(a, "idle")
  /\ Go(a, "closing")
  /\ held' = [held EXCEPT ![a] = {}]
  /\ SourceUnchanged
  /\ StoreUnchanged
  /\ UNCHANGED <<token, seen, head, sent, ending, acks>>

-----------------------------------------------------------------------------
(* The source database (external)                                          *)

SourceCommit ==
  /\ committed < MaxCommits
  /\ committed' = committed + 1
  /\ UNCHANGED <<slot, lock, attempts, acks>>
  /\ StoreUnchanged

\* Acknowledgements arrive in order while the session lives.  Servers differ in
\* whether an older position moves the slot back.
ServerConfirms(a) ==
  /\ slot.active = a
  /\ acks[a] # << >>
  /\ \E p \in {slot.confirmed, Head(acks[a])} :
       /\ p >= Head(acks[a])
       /\ slot' = [slot EXCEPT !.confirmed = p]
  /\ acks' = [acks EXCEPT ![a] = Tail(@)]
  /\ UNCHANGED <<committed, lock, attempts>>
  /\ StoreUnchanged

\* The server ends a session at any time, and in the end one whose client has
\* closed it or is gone; what was on its way to it is lost.
EndStream(a) ==
  /\ slot.active = a
  /\ slot' = [slot EXCEPT !.active = Nobody]
  /\ acks' = [acks EXCEPT ![a] = << >>]
  /\ UNCHANGED <<committed, lock, attempts>>
  /\ StoreUnchanged

EndLease(a) ==
  /\ lock = a
  /\ lock' = Nobody
  /\ UNCHANGED <<committed, slot, attempts, acks>>
  /\ StoreUnchanged

-----------------------------------------------------------------------------

Resume(a) ==
  \/ Prepare(a) \/ Acquire(a) \/ Activate(a) \/ RestoreHead(a) \/ RecheckHead(a)
  \/ CheckSlot(a) \/ StartReplication(a) \/ MatchStream(a) \/ MarkRecording(a)

Record(a) ==
  Receive(a) \/ StoreAppend(a) \/ Acknowledge(a) \/ Heartbeat(a)

Finish(a) ==
  CloseStream(a) \/ LeaveStatus(a) \/ CloseWriter(a) \/ CloseLease(a)

Disturb(a) ==
  SetupFails(a) \/ StreamFails(a) \/ Stop(a) \/ StoreLost(a) \/ DropRequest(a) \/ Crash(a)

Server(a) == ServerConfirms(a) \/ EndStream(a) \/ EndLease(a)

Next ==
  \/ SourceCommit
  \/ \E a \in Attempts : Resume(a) \/ Record(a) \/ Finish(a) \/ Disturb(a) \/ Server(a)

Spec == Init /\ [][Next]_vars

\* What an attempt does by itself once it has been called.
Advance(a) ==
  \/ Acquire(a) \/ Activate(a) \/ RestoreHead(a) \/ RecheckHead(a) \/ CheckSlot(a)
  \/ StartReplication(a) \/ MatchStream(a) \/ MarkRecording(a)
  \/ Receive(a) \/ StoreAppend(a) \/ Acknowledge(a) \/ Finish(a)

\* Promises settle, the server reads what it is sent, asks for a reply within
\* wal_sender_timeout, ends the sessions whose clients are gone, and a client
\* notices in the end that its stream is dead.
Fairness ==
  \A a \in Attempts :
    /\ WF_vars(Advance(a))
    /\ WF_vars(ServerConfirms(a))
    /\ WF_vars(Heartbeat(a))
    /\ WF_vars("stream" \notin held[a] /\ EndStream(a))
    /\ WF_vars("lease" \notin held[a] /\ EndLease(a))
    /\ WF_vars(slot.active # a /\ StreamFails(a))

FairSpec == Spec /\ Fairness

-----------------------------------------------------------------------------
(* Properties                                                              *)

TypeOK ==
  /\ committed \in Nat
  /\ slot \in Slot
  /\ lock \in Attempts \union {Nobody}
  /\ stored \in Seq(Nat)
  /\ status \in Status
  /\ owner \in OwnerRow
  /\ phase \in [Attempts -> Phase]
  /\ held \in [Attempts -> SUBSET Handles]
  /\ token \in [Attempts -> 0 .. owner.generation]
  /\ seen \in [Attempts -> RecordingInfo]
  /\ head \in [Attempts -> Nat]
  /\ sent \in [Attempts -> Nat]
  /\ ending \in [Attempts -> Status]
  /\ request \in [Attempts -> AppendRequest \union {NoRequest}]
  /\ acks \in [Attempts -> Seq(Nat)]

\* However attempts crash, overlap and take over from one another, the
\* recording holds the source's commits without a gap, a duplicate or an
\* invention (docs/correctness.md: no commit is missing or applied twice).
NoCommitMissing ==
  /\ \A i \in DOMAIN stored : stored[i] = i
  /\ Len(stored) <= committed

\* The source is never told to forget a commit that is not in the recording,
\* neither by an acknowledgement that has arrived nor by one still on its way.
ConfirmedIsDurable ==
  /\ slot.confirmed <= DurableHead
  /\ \A a \in Attempts : \A i \in DOMAIN acks[a] : acks[a][i] <= DurableHead

\* A displaced recorder fails with INVALID_HISTORY, but it does not get to mark
\* the recording its successor writes as invalid: on a healthy source no
\* sequence of crashes, takeovers and failures ends the recording for good.
NeverInvalidated == status # "invalid"

\* The one attempt that may write finds its restored head in the range the slot
\* retains: only a session that still holds the slot can keep it from resuming.
HeadWithinRetainedRange ==
  \A a \in Attempts :
    At(a, "restored") /\ MayWrite(a) /\ slot.active = Nobody => SlotFits(a)

Capture == INSTANCE DurableCapture
             WITH durable <- Len(stored), confirmed <- slot.confirmed

\* Seen from the source and the recording alone, all of it is commits that
\* become durable in order and are confirmed afterwards.
ImplementsDurableCapture == Capture!CaptureSpec

Finishing(a) == phase[a] \in {"failing", "settled", "closing"}

\* A recording attempt that is left in peace catches up: everything the source
\* committed becomes durable and is confirmed, unless the attempt ends.
CatchesUp ==
  \A a \in Attempts :
    At(a, "reading") ~> (Finishing(a) \/ slot.confirmed = committed)

\* An attempt that ends, in whatever way, gives the slot and the locks back, so
\* that a later one can resume.
SourceReleased ==
  \A a \in Attempts : Finishing(a) ~> (lock # a /\ slot.active # a)
=============================================================================
