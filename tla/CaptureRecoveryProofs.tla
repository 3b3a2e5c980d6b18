----------------------- MODULE CaptureRecoveryProofs -----------------------
(***************************************************************************)
(* What holds of CaptureRecovery for any number of attempts and commits:   *)
(* the recording is exactly the source's commits, the source is told only  *)
(* of durable ones, a displaced recorder never invalidates the recording,  *)
(* and all of it implements DurableCapture.  Then what holds of the        *)
(* supervisor of those attempts, ReconnectSupervisor, for any retry budget.*)
(***************************************************************************)
EXTENDS CaptureRecovery, ReconnectSupervisor, TLAPS

Setup == {"idle", "claimed", "acquired"}

\* Tokens are handed out once, and only an activated claim can own the row.
TokensSound ==
  /\ owner.owner <= owner.generation
  /\ \A a, b \in Attempts : token[a] = token[b] /\ token[a] > 0 => a = b
  /\ \A a \in Attempts :
       /\ At(a, "idle") => token[a] = 0
       /\ token[a] > 0 /\ token[a] = owner.owner => phase[a] \notin Setup

\* Nothing an attempt believes durable is not.
HeadsDurable ==
  \A a \in Attempts :
    /\ head[a] <= Len(stored)
    /\ At(a, "appended") => sent[a] <= Len(stored)

\* A request is in flight only while its caller waits for it or has left.
RequestsSound ==
  \A a \in Attempts :
    /\ request[a] # NoRequest => phase[a] \in {"appending", "closing"}
    /\ At(a, "appending") => request[a] # NoRequest /\ request[a].position = sent[a]

AtHead == {"restoring", "restored", "checked", "opened", "started", "reading"}

Streaming == {"opened", "started", "reading"}

StandsAtHead(a) ==
  /\ phase[a] \in AtHead => head[a] = Len(stored)
  /\ phase[a] \in Streaming => sent[a] = head[a]
  /\ request[a] # NoRequest =>
       /\ request[a].previous = Len(stored)
       /\ request[a].position = Len(stored) + 1
       /\ Len(stored) < committed
  /\ At(a, "appended") => sent[a] = Len(stored)
  /\ phase[a] \in {"reading", "appending", "appended"} => status = "recording"

\* The attempt that may write stands exactly at the end of the recording.
WriterAtHead == \A a \in Attempts : MayWrite(a) => StandsAtHead(a)

\* Only an attempt that has lost its right to write wants to invalidate.
OutcomesSound ==
  \A a \in Attempts :
    ending[a] = "invalid" => ~MayWrite(a) /\ phase[a] \notin Setup

RecoveryInv ==
  /\ TypeOK
  /\ NoCommitMissing
  /\ ConfirmedIsDurable
  /\ NeverInvalidated
  /\ TokensSound
  /\ HeadsDurable
  /\ RequestsSound
  /\ WriterAtHead
  /\ OutcomesSound

-----------------------------------------------------------------------------
(* Type correctness                                                        *)

\* Go keeps the type of the phase.
LEMMA GoTypes ==
  ASSUME TypeOK, NEW a \in Attempts, NEW p \in Phase, Go(a, p)
  PROVE  phase' \in [Attempts -> Phase]
BY DEF TypeOK, Go

\* An attempt that gets or gives back handles keeps their type.
LEMMA HeldTypes ==
  ASSUME TypeOK, NEW a \in Attempts, NEW h \in SUBSET Handles,
         held' = [held EXCEPT ![a] = h]
  PROVE  held' \in [Attempts -> SUBSET Handles]
BY DEF TypeOK

\* Each step of setting an attempt up keeps the types.
LEMMA SetupTypes ==
  ASSUME TypeOK, NEW a \in Attempts, Resume(a)
  PROVE  TypeOK'
<1>1. CASE Prepare(a)
  <2>1. phase' \in [Attempts -> Phase]
    BY <1>1, GoTypes DEF Prepare, Phase
  <2>2. owner' = [owner EXCEPT !.generation = owner.generation + 1]
    BY <1>1 DEF Prepare, Reserve
  <2>3. owner' \in OwnerRow /\ owner'.generation = owner.generation + 1
    <3>1. owner \in OwnerRow
      BY DEF TypeOK
    <3> QED
      BY <2>2, <3>1 DEF OwnerRow
  <2>4. token' \in [Attempts -> 0 .. owner'.generation]
    BY <1>1, <2>3 DEF TypeOK, OwnerRow, Prepare, Reserve
  <2> QED
    BY <1>1, <2>1, <2>3, <2>4 DEF TypeOK, Prepare, SourceUnchanged
<1>2. CASE Acquire(a)
  <2>1. phase' \in [Attempts -> Phase]
    BY <1>2, GoTypes DEF Acquire, GiveUp, Phase
  <2>2. held' \in [Attempts -> SUBSET Handles] /\ lock' \in Attempts \union {Nobody}
    BY <1>2 DEF TypeOK, Acquire, Handles
  <2> QED
    BY <1>2, <2>1, <2>2 DEF TypeOK, Acquire, StoreUnchanged
<1>3. CASE Activate(a)
  <2>1. phase' \in [Attempts -> Phase]
    BY <1>3, GoTypes DEF Activate, GiveUp, Phase
  <2>2. held' \in [Attempts -> SUBSET Handles]
    <3>1. held' = [held EXCEPT ![a] = @ \union {"writer"}] \/ held' = held
      BY <1>3 DEF Activate
    <3> QED
      BY <3>1, HeldTypes DEF TypeOK, Handles
  <2>3. owner' \in OwnerRow /\ owner'.generation = owner.generation
    <3>1. owner \in OwnerRow /\ token[a] \in Nat
      BY DEF TypeOK, OwnerRow
    <3>2. \/ owner' = [owner EXCEPT !.owner = token[a], !.active = TRUE]
          \/ owner' = owner
      BY <1>3 DEF Activate
    <3> QED
      BY <3>1, <3>2 DEF OwnerRow
  <2> QED
    BY <1>3, <2>1, <2>2, <2>3 DEF TypeOK, Activate, SourceUnchanged
<1>4. CASE RestoreHead(a)
  <2>1. phase' \in [Attempts -> Phase]
    BY <1>4, GoTypes DEF RestoreHead, GiveUp, Phase
  <2>2. DurableHead \in Nat
    BY DEF TypeOK, DurableHead
  <2>3. Info \in RecordingInfo
    BY <2>2 DEF TypeOK, Info, RecordingInfo
  <2>4. seen' \in [Attempts -> RecordingInfo] /\ head' \in [Attempts -> Nat]
    BY <1>4, <2>2, <2>3 DEF TypeOK, RestoreHead
  <2> QED
    BY <1>4, <2>1, <2>4 DEF TypeOK, RestoreHead, SourceUnchanged, StoreUnchanged
<1>5. CASE RecheckHead(a)
  BY <1>5, GoTypes DEF RecheckHead, GiveUp, Phase, TypeOK, SourceUnchanged, StoreUnchanged
<1>6. CASE CheckSlot(a)
  BY <1>6, GoTypes DEF CheckSlot, GiveUp, Phase, TypeOK, SourceUnchanged, StoreUnchanged
<1>7. CASE StartReplication(a)
  <2>1. phase' \in [Attempts -> Phase]
    BY <1>7, GoTypes DEF StartReplication, GiveUp, Phase
  <2>2. held' \in [Attempts -> SUBSET Handles]
    <3>1. held' = [held EXCEPT ![a] = @ \union {"stream"}] \/ held' = held
      BY <1>7 DEF StartReplication
    <3> QED
      BY <3>1, HeldTypes DEF TypeOK, Handles
  <2>3. slot' \in Slot
    BY <1>7 DEF TypeOK, StartReplication, Slot
  <2>4. sent' \in [Attempts -> Nat]
    BY <1>7 DEF TypeOK, StartReplication, RequestedStart, Slot
  <2> QED
    BY <1>7, <2>1, <2>2, <2>3, <2>4 DEF TypeOK, StartReplication, StoreUnchanged
<1>8. CASE MatchStream(a)
  <2>1. phase' \in [Attempts -> Phase]
    BY <1>8, GoTypes DEF MatchStream, GiveUp, Phase
  <2>2. held' \in [Attempts -> SUBSET Handles]
    BY <1>8 DEF TypeOK, MatchStream
  <2> QED
    BY <1>8, <2>1, <2>2 DEF TypeOK, MatchStream, SourceUnchanged, StoreUnchanged
<1>9. CASE MarkRecording(a)
  <2>1. phase' \in [Attempts -> Phase]
    BY <1>9, GoTypes DEF MarkRecording, GiveUp, Phase
  <2>2. held' \in [Attempts -> SUBSET Handles] /\ status' \in Status
    BY <1>9 DEF TypeOK, MarkRecording, Status
  <2> QED
    BY <1>9, <2>1, <2>2 DEF TypeOK, MarkRecording, SourceUnchanged
<1> QED
  BY <1>1, <1>2, <1>3, <1>4, <1>5, <1>6, <1>7, <1>8, <1>9 DEF Resume

\* Each step of recording and acknowledging keeps the types.
LEMMA RecordTypes ==
  ASSUME TypeOK, NEW a \in Attempts, Record(a)
  PROVE  TypeOK'
<1>1. CASE Receive(a)
  <2>1. phase' \in [Attempts -> Phase]
    BY <1>1, GoTypes DEF Receive, Deliver, Phase
  <2>2. NextCommit(a) \in AppendRequest
    BY DEF TypeOK, NextCommit, AppendRequest
  <2>3. request' \in [Attempts -> AppendRequest \union {NoRequest}]
    BY <1>1, <2>2 DEF TypeOK, Receive, Deliver
  <2>4. /\ sent' \in [Attempts -> Nat]
        /\ ending' \in [Attempts -> Status]
        /\ acks' = acks
    BY <1>1 DEF TypeOK, Receive, Deliver, Status
  <2> QED
    BY <1>1, <2>1, <2>3, <2>4 DEF TypeOK, Receive, SourceUnchanged
<1>2. CASE StoreAppend(a)
  <2>1. phase' \in [Attempts -> Phase] /\ ending' \in [Attempts -> Status]
    BY <1>2 DEF TypeOK, StoreAppend, Phase, Status
  <2>2. request[a] \in AppendRequest
    BY <1>2 DEF TypeOK, StoreAppend
  <2>3. stored' \in Seq(Nat)
    BY <1>2, <2>2 DEF TypeOK, StoreAppend, AppendRequest
  <2>4. request' \in [Attempts -> AppendRequest \union {NoRequest}]
    BY <1>2 DEF TypeOK, StoreAppend
  <2> QED
    BY <1>2, <2>1, <2>3, <2>4 DEF TypeOK, StoreAppend, SourceUnchanged
<1>3. CASE Acknowledge(a)
  <2>1. phase' \in [Attempts -> Phase]
    BY <1>3, GoTypes DEF Acknowledge, Phase
  <2>2. head' \in [Attempts -> Nat] /\ acks' \in [Attempts -> Seq(Nat)]
    BY <1>3 DEF TypeOK, Acknowledge, LastDurable
  <2> QED
    BY <1>3, <2>1, <2>2 DEF TypeOK, Acknowledge, SourceUnchanged, StoreUnchanged
<1>4. CASE Heartbeat(a)
  <2>1. acks' \in [Attempts -> Seq(Nat)]
    BY <1>4 DEF TypeOK, Heartbeat, HeartbeatReply, LastDurable
  <2> QED
    BY <1>4, <2>1 DEF TypeOK, Heartbeat, SourceUnchanged, StoreUnchanged, attempts
<1> QED
  BY <1>1, <1>2, <1>3, <1>4 DEF Record

\* Each step of leaving keeps the types.
LEMMA FinishTypes ==
  ASSUME TypeOK, NEW a \in Attempts, Finish(a)
  PROVE  TypeOK'
<1>1. CASE CloseStream(a)
  BY <1>1, GoTypes DEF TypeOK, CloseStream, Phase, SourceUnchanged, StoreUnchanged
<1>2. CASE LeaveStatus(a)
  BY <1>2, GoTypes DEF TypeOK, LeaveStatus, Phase, SourceUnchanged
<1>3. CASE CloseWriter(a)
  <2>1. owner' \in OwnerRow /\ owner'.generation = owner.generation
    BY <1>3 DEF TypeOK, CloseWriter, OwnerRow
  <2> QED
    BY <1>3, <2>1 DEF TypeOK, CloseWriter, SourceUnchanged
<1>4. CASE CloseLease(a)
  BY <1>4 DEF TypeOK, CloseLease, SourceUnchanged, StoreUnchanged
<1> QED
  BY <1>1, <1>2, <1>3, <1>4 DEF Finish

\* Failures, stops and crashes keep the types.
LEMMA DisturbTypes ==
  ASSUME TypeOK, NEW a \in Attempts, Disturb(a)
  PROVE  TypeOK'
<1> USE GoTypes DEF TypeOK, Phase, GiveUp, SourceUnchanged, StoreUnchanged
<1>1. CASE SetupFails(a)
  BY <1>1 DEF SetupFails
<1>2. CASE StreamFails(a)
  BY <1>2 DEF StreamFails, Status
<1>3. CASE Stop(a)
  BY <1>3 DEF Stop, Status
<1>4. CASE StoreLost(a)
  BY <1>4 DEF StoreLost
<1>5. CASE DropRequest(a)
  BY <1>5 DEF DropRequest, attempts
<1>6. CASE Crash(a)
  BY <1>6 DEF Crash
<1> QED
  BY <1>1, <1>2, <1>3, <1>4, <1>5, <1>6 DEF Disturb

\* The steps of the server keep the types.
LEMMA ServerTypes ==
  ASSUME TypeOK, NEW a \in Attempts, Server(a)
  PROVE  TypeOK'
<1>1. CASE ServerConfirms(a)
  <2>1. PICK p \in {slot.confirmed, Head(acks[a])} : slot' = [slot EXCEPT !.confirmed = p]
    BY <1>1 DEF ServerConfirms
  <2>2. p \in Nat /\ slot \in Slot
    BY <1>1 DEF TypeOK, ServerConfirms, Slot
  <2>3. acks' \in [Attempts -> Seq(Nat)]
    BY <1>1 DEF TypeOK, ServerConfirms
  <2>4. slot' \in Slot
    BY <2>1, <2>2 DEF Slot
  <2> QED
    BY <1>1, <2>3, <2>4 DEF TypeOK, ServerConfirms, StoreUnchanged, attempts
<1>2. CASE EndStream(a)
  <2>1. slot' \in Slot
    BY <1>2 DEF TypeOK, EndStream, Slot
  <2>2. acks' \in [Attempts -> Seq(Nat)]
    BY <1>2 DEF TypeOK, EndStream
  <2> QED
    BY <1>2, <2>1, <2>2 DEF TypeOK, EndStream, StoreUnchanged, attempts
<1>3. CASE EndLease(a)
  BY <1>3 DEF TypeOK, EndLease, StoreUnchanged, attempts
<1> QED
  BY <1>1, <1>2, <1>3 DEF Server

\* Every step keeps the types.
LEMMA TypeStep ==
  ASSUME TypeOK, Next
  PROVE  TypeOK'
<1>1. CASE SourceCommit
  BY <1>1 DEF TypeOK, SourceCommit, StoreUnchanged, attempts
<1> QED
  BY <1>1, SetupTypes, RecordTypes, FinishTypes, DisturbTypes, ServerTypes DEF Next

\* Type correctness of capture recovery, for any number of attempts.
THEOREM RecoveryTypeCorrect == Spec => []TypeOK
<1>1. Init => TypeOK
  BY DEF Init, TypeOK, Phase, Status, Slot, OwnerRow, RecordingInfo
<1>2. TypeOK /\ [Next]_vars => TypeOK'
  <2>1. CASE UNCHANGED vars
    BY <2>1 DEF TypeOK, vars
  <2> QED
    BY <2>1, TypeStep
<1> QED
  BY <1>1, <1>2, PTL DEF Spec

-----------------------------------------------------------------------------
(* Facts the invariance steps share                                        *)

\* With no commit missing, the durable head is the number of stored commits.
LEMMA HeadIsLength ==
  ASSUME TypeOK, NoCommitMissing
  PROVE  DurableHead = Len(stored)
<1>1. CASE stored = << >>
  BY <1>1 DEF DurableHead
<1>2. CASE stored # << >>
  <2>1. Len(stored) \in DOMAIN stored
    BY <1>2 DEF TypeOK
  <2> QED
    BY <1>2, <2>1 DEF DurableHead, NoCommitMissing
<1> QED
  BY <1>1, <1>2

\* Running a request either extends the recording by exactly the next commit,
\* for the attempt that may write, or stores nothing.
LEMMA AppendCases ==
  ASSUME RecoveryInv, NEW a \in Attempts, StoreAppend(a)
  PROVE  /\ \/ /\ MayWrite(a)
               /\ request[a].position = Len(stored) + 1
               /\ Len(stored) < committed
               /\ stored' = Append(stored, Len(stored) + 1)
            \/ /\ ~Accepts(a)
               /\ stored' = stored
         /\ At(a, "appending") /\ MayWrite(a) => Accepts(a)
<1>1. DurableHead = Len(stored)
  BY HeadIsLength DEF RecoveryInv
<1>2. request[a] # NoRequest
  BY DEF StoreAppend
<1>3. MayWrite(a) => /\ request[a].previous = Len(stored)
                     /\ request[a].position = Len(stored) + 1
                     /\ Len(stored) < committed
                     /\ At(a, "appending") => status = "recording"
  BY <1>2 DEF RecoveryInv, WriterAtHead, StandsAtHead, At
<1>4. Accepts(a) => MayWrite(a) /\ IsNew(a)
  BY <1>1, <1>3 DEF Accepts, IsNew
<1>5. At(a, "appending") /\ MayWrite(a) => Accepts(a)
  BY <1>1, <1>3 DEF Accepts
<1>6. stored' = IF Accepts(a) /\ IsNew(a) THEN Append(stored, request[a].position) ELSE stored
  BY DEF StoreAppend
<1> QED
  BY <1>3, <1>4, <1>5, <1>6

\* What appending leaves in a sequence.
LEMMA AppendElements ==
  ASSUME NEW s \in Seq(Nat), NEW e \in Nat, NEW i \in DOMAIN Append(s, e)
  PROVE  \/ Append(s, e)[i] = e
         \/ i \in DOMAIN s /\ Append(s, e)[i] = s[i]
<1>1. i \in 1 .. Len(s) + 1
  OBVIOUS
<1>2. CASE i = Len(s) + 1
  BY <1>2
<1>3. CASE i # Len(s) + 1
  BY <1>1, <1>3
<1> QED
  BY <1>2, <1>3

-----------------------------------------------------------------------------
(* Each part of the invariant is kept by every step                        *)

\* Tokens stay unique: each reservation takes the next generation, and only
\* activation makes a reserved one the owner's.
LEMMA TokensStep ==
  ASSUME TypeOK, TokensSound, Next
  PROVE  TokensSound'
<1> USE DEF Go, GiveUp, SourceUnchanged, StoreUnchanged, attempts, TypeOK, TokensSound, Setup, At, Phase
<1>1. CASE SourceCommit
  BY <1>1 DEF SourceCommit
<1>2. ASSUME NEW a \in Attempts, Resume(a)
      PROVE  TokensSound'
  <2>1. CASE Prepare(a)
    <3>1. owner \in OwnerRow
      BY DEF TypeOK
    <3>2. /\ owner'.generation = owner.generation + 1
          /\ owner'.owner = owner.owner
          /\ owner.generation \in Nat /\ owner.owner \in Nat
      BY <2>1, <3>1 DEF Prepare, Reserve, OwnerRow
    <3>3. /\ token' = [token EXCEPT ![a] = owner.generation + 1]
          /\ phase' = [phase EXCEPT ![a] = "claimed"]
      BY <2>1 DEF Prepare, Reserve
    <3>4. \A b \in Attempts : token[b] \in 0 .. owner.generation
      BY DEF TypeOK
    <3>5. token'[a] = owner.generation + 1 /\ phase'[a] = "claimed"
      BY <3>3 DEF TypeOK
    <3>6. \A b \in Attempts \ {a} : token'[b] = token[b] /\ phase'[b] = phase[b]
      BY <3>3 DEF TypeOK
    <3> HIDE DEF TypeOK
    <3>7. owner'.owner <= owner'.generation
      BY <3>2 DEF TokensSound
    <3>8. \A b, d \in Attempts : token'[b] = token'[d] /\ token'[b] > 0 => b = d
      BY <3>2, <3>4, <3>5, <3>6 DEF TokensSound
    <3>9. ASSUME NEW b \in Attempts
          PROVE  /\ phase'[b] = "idle" => token'[b] = 0
                 /\ token'[b] > 0 /\ token'[b] = owner'.owner => phase'[b] \notin Setup
      <4>1. CASE b = a
        BY <4>1, <3>2, <3>5 DEF TokensSound
      <4>2. CASE b # a
        BY <4>2, <3>2, <3>6 DEF TokensSound, At
      <4> QED
        BY <4>1, <4>2
    <3> QED
      BY <3>7, <3>8, <3>9 DEF TokensSound, At
  <2>2. CASE Acquire(a)
    BY <2>2 DEF Acquire
  <2>3. CASE Activate(a)
    <3>1. CASE owner.owner < token[a] /\ token[a] <= owner.generation
      <4>1. owner' = [owner EXCEPT !.owner = token[a], !.active = TRUE]
        BY <2>3, <3>1 DEF Activate
      <4>2. owner'.owner = token[a] /\ owner'.generation = owner.generation
        BY <4>1 DEF TypeOK, OwnerRow
      <4>3. phase' = [phase EXCEPT ![a] = "activated"] /\ token' = token
        BY <2>3, <3>1 DEF Activate
      <4> QED
        BY <3>1, <4>2, <4>3 DEF TokensSound, At, Setup
    <3>2. CASE ~(owner.owner < token[a] /\ token[a] <= owner.generation)
      BY <2>3, <3>2 DEF Activate, TokensSound, At, Setup
    <3> QED
      BY <3>1, <3>2
  <2>4. CASE RestoreHead(a)
    BY <2>4 DEF RestoreHead
  <2>5. CASE RecheckHead(a)
    BY <2>5 DEF RecheckHead
  <2>6. CASE CheckSlot(a)
    BY <2>6 DEF CheckSlot, SlotFits
  <2>7. CASE StartReplication(a)
    BY <2>7 DEF StartReplication, RequestedStart
  <2>8. CASE MatchStream(a)
    BY <2>8 DEF MatchStream
  <2>9. CASE MarkRecording(a)
    BY <2>9 DEF MarkRecording
  <2> QED
    BY <1>2, <2>1, <2>2, <2>3, <2>4, <2>5, <2>6, <2>7, <2>8, <2>9 DEF Resume
<1>3. ASSUME NEW a \in Attempts, Record(a)
      PROVE  TokensSound'
  <2>1. CASE Receive(a)
    BY <2>1 DEF Receive, Deliver, NextCommit
  <2>2. CASE StoreAppend(a)
    BY <2>2 DEF StoreAppend, Accepts, IsNew
  <2>3. CASE Acknowledge(a)
    BY <2>3 DEF Acknowledge, LastDurable
  <2>4. CASE Heartbeat(a)
    BY <2>4 DEF Heartbeat, HeartbeatReply, LastDurable
  <2> QED
    BY <1>3, <2>1, <2>2, <2>3, <2>4 DEF Record
<1>4. ASSUME NEW a \in Attempts, Finish(a)
      PROVE  TokensSound'
  <2>1. CASE CloseStream(a)
    BY <2>1 DEF CloseStream
  <2>2. CASE LeaveStatus(a)
    BY <2>2 DEF LeaveStatus, LeavesStatus
  <2>3. CASE CloseWriter(a)
    BY <2>3 DEF CloseWriter
  <2>4. CASE CloseLease(a)
    BY <2>4 DEF CloseLease, OwesLease
  <2> QED
    BY <1>4, <2>1, <2>2, <2>3, <2>4 DEF Finish
<1>5. ASSUME NEW a \in Attempts, Disturb(a)
      PROVE  TokensSound'
  <2>1. CASE SetupFails(a)
    BY <2>1 DEF SetupFails
  <2>2. CASE StreamFails(a)
    BY <2>2 DEF StreamFails
  <2>3. CASE Stop(a)
    BY <2>3 DEF Stop
  <2>4. CASE StoreLost(a)
    BY <2>4 DEF StoreLost
  <2>5. CASE DropRequest(a)
    BY <2>5 DEF DropRequest
  <2>6. CASE Crash(a)
    BY <2>6 DEF Crash
  <2> QED
    BY <1>5, <2>1, <2>2, <2>3, <2>4, <2>5, <2>6 DEF Disturb
<1>6. ASSUME NEW a \in Attempts, Server(a)
      PROVE  TokensSound'
  <2>1. CASE ServerConfirms(a)
    BY <2>1 DEF ServerConfirms
  <2>2. CASE EndStream(a)
    BY <2>2 DEF EndStream
  <2>3. CASE EndLease(a)
    BY <2>3 DEF EndLease
  <2> QED
    BY <1>6, <2>1, <2>2, <2>3 DEF Server
<1> QED
  BY <1>1, <1>2, <1>3, <1>4, <1>5, <1>6 DEF Next

\* An attempt's durable position is read from the store or follows an append.
LEMMA HeadsStep ==
  ASSUME RecoveryInv, TypeOK, HeadsDurable, Next
  PROVE  HeadsDurable'
<1> USE DEF Go, GiveUp, SourceUnchanged, StoreUnchanged, attempts, TypeOK, HeadsDurable, At
<1>1. CASE SourceCommit
  BY <1>1 DEF SourceCommit
<1>2. ASSUME NEW a \in Attempts, Resume(a)
      PROVE  HeadsDurable'
  <2>1. CASE Prepare(a)
    BY <2>1 DEF Prepare, Reserve
  <2>2. CASE Acquire(a)
    BY <2>2 DEF Acquire
  <2>3. CASE Activate(a)
    BY <2>3 DEF Activate
  <2>4. CASE RestoreHead(a)
    <3>1. DurableHead = Len(stored)
      BY HeadIsLength DEF RecoveryInv
    <3>2. /\ head' = [head EXCEPT ![a] = Len(stored)] \/ head' = head
          /\ phase' \in {[phase EXCEPT ![a] = "restoring"], [phase EXCEPT ![a] = "closing"]}
          /\ UNCHANGED <<sent, stored>>
      BY <2>4, <3>1 DEF RestoreHead
    <3>3. Len(stored) \in Nat
      OBVIOUS
    <3> HIDE DEF GiveUp, Go
    <3> QED
      BY <3>2, <3>3
  <2>5. CASE RecheckHead(a)
    BY <2>5 DEF RecheckHead
  <2>6. CASE CheckSlot(a)
    BY <2>6 DEF CheckSlot, SlotFits
  <2>7. CASE StartReplication(a)
    BY <2>7 DEF StartReplication, RequestedStart
  <2>8. CASE MatchStream(a)
    BY <2>8 DEF MatchStream
  <2>9. CASE MarkRecording(a)
    BY <2>9 DEF MarkRecording
  <2> QED
    BY <1>2, <2>1, <2>2, <2>3, <2>4, <2>5, <2>6, <2>7, <2>8, <2>9 DEF Resume
<1>3. ASSUME NEW a \in Attempts, Record(a)
      PROVE  HeadsDurable'
  <2>1. CASE Receive(a)
    BY <2>1 DEF Receive, Deliver, NextCommit
  <2>2. CASE StoreAppend(a)
    <3>1. stored \in Seq(Nat) /\ Len(stored) \in Nat
      BY DEF TypeOK
    <3>2. Len(stored') >= Len(stored)
      <4>1. stored' = stored \/ stored' = Append(stored, Len(stored) + 1)
        BY <2>2, AppendCases
      <4> QED
        BY <3>1, <4>1
    <3>3. phase'[a] = "appended" => sent[a] <= Len(stored')
      <4>1. CASE At(a, "appending") /\ Accepts(a)
        <5>1. Len(stored') = Len(stored) + 1 /\ request[a].position = Len(stored) + 1
          BY <2>2, <3>1, <4>1, AppendCases
        <5>2. request[a].position = sent[a]
          BY <4>1 DEF RecoveryInv, RequestsSound
        <5> QED
          BY <5>1, <5>2, <3>1
      <4>2. CASE ~(At(a, "appending") /\ Accepts(a))
        BY <2>2, <4>2, <3>1, <3>2 DEF StoreAppend, RecoveryInv
      <4> QED
        BY <4>1, <4>2
    <3>4. \A b \in Attempts \ {a} : phase'[b] = phase[b]
      BY <2>2 DEF StoreAppend
    <3>5. head' = head /\ sent' = sent
      BY <2>2 DEF StoreAppend
    <3>6. ASSUME NEW b \in Attempts
          PROVE  /\ head'[b] <= Len(stored')
                 /\ phase'[b] = "appended" => sent'[b] <= Len(stored')
      <4>1. head[b] \in Nat /\ sent[b] \in Nat /\ Len(stored') \in Nat
        BY <3>1, <3>2, TypeStep
      <4>2. head[b] <= Len(stored) /\ (phase[b] = "appended" => sent[b] <= Len(stored))
        OBVIOUS
      <4>3. head'[b] <= Len(stored')
        BY <3>1, <3>2, <3>5, <4>1, <4>2
      <4>4. phase'[b] = "appended" => sent'[b] <= Len(stored')
        BY <3>1, <3>2, <3>3, <3>4, <3>5, <4>1, <4>2
      <4> QED
        BY <4>3, <4>4
    <3> QED
      BY <3>6
  <2>3. CASE Acknowledge(a)
    BY <2>3 DEF Acknowledge, LastDurable
  <2>4. CASE Heartbeat(a)
    BY <2>4 DEF Heartbeat, HeartbeatReply, LastDurable
  <2> QED
    BY <1>3, <2>1, <2>2, <2>3, <2>4 DEF Record
<1>4. ASSUME NEW a \in Attempts, Finish(a)
      PROVE  HeadsDurable'
  <2>1. CASE CloseStream(a)
    BY <2>1 DEF CloseStream
  <2>2. CASE LeaveStatus(a)
    BY <2>2 DEF LeaveStatus, LeavesStatus
  <2>3. CASE CloseWriter(a)
    BY <2>3 DEF CloseWriter
  <2>4. CASE CloseLease(a)
    BY <2>4 DEF CloseLease, OwesLease
  <2> QED
    BY <1>4, <2>1, <2>2, <2>3, <2>4 DEF Finish
<1>5. ASSUME NEW a \in Attempts, Disturb(a)
      PROVE  HeadsDurable'
  <2>1. CASE SetupFails(a)
    BY <2>1 DEF SetupFails
  <2>2. CASE StreamFails(a)
    BY <2>2 DEF StreamFails
  <2>3. CASE Stop(a)
    BY <2>3 DEF Stop
  <2>4. CASE StoreLost(a)
    BY <2>4 DEF StoreLost
  <2>5. CASE DropRequest(a)
    BY <2>5 DEF DropRequest
  <2>6. CASE Crash(a)
    BY <2>6 DEF Crash
  <2> QED
    BY <1>5, <2>1, <2>2, <2>3, <2>4, <2>5, <2>6 DEF Disturb
<1>6. ASSUME NEW a \in Attempts, Server(a)
      PROVE  HeadsDurable'
  <2>1. CASE ServerConfirms(a)
    BY <2>1 DEF ServerConfirms
  <2>2. CASE EndStream(a)
    BY <2>2 DEF EndStream
  <2>3. CASE EndLease(a)
    BY <2>3 DEF EndLease
  <2> QED
    BY <1>6, <2>1, <2>2, <2>3 DEF Server
<1> QED
  BY <1>1, <1>2, <1>3, <1>4, <1>5, <1>6 DEF Next

\* One request at a time, made by the attempt that waits for it.
LEMMA RequestsStep ==
  ASSUME TypeOK, RequestsSound, Next
  PROVE  RequestsSound'
<1> USE DEF Go, GiveUp, SourceUnchanged, StoreUnchanged, attempts, TypeOK, RequestsSound, At, AppendRequest, NoRequest
<1>1. CASE SourceCommit
  BY <1>1 DEF SourceCommit
<1>2. ASSUME NEW a \in Attempts, Resume(a)
      PROVE  RequestsSound'
  <2>1. CASE Prepare(a)
    BY <2>1 DEF Prepare, Reserve
  <2>2. CASE Acquire(a)
    BY <2>2 DEF Acquire
  <2>3. CASE Activate(a)
    BY <2>3 DEF Activate
  <2>4. CASE RestoreHead(a)
    BY <2>4 DEF RestoreHead
  <2>5. CASE RecheckHead(a)
    BY <2>5 DEF RecheckHead
  <2>6. CASE CheckSlot(a)
    BY <2>6 DEF CheckSlot, SlotFits
  <2>7. CASE StartReplication(a)
    BY <2>7 DEF StartReplication, RequestedStart
  <2>8. CASE MatchStream(a)
    BY <2>8 DEF MatchStream
  <2>9. CASE MarkRecording(a)
    BY <2>9 DEF MarkRecording
  <2> QED
    BY <1>2, <2>1, <2>2, <2>3, <2>4, <2>5, <2>6, <2>7, <2>8, <2>9 DEF Resume
<1>3. ASSUME NEW a \in Attempts, Record(a)
      PROVE  RequestsSound'
  <2>1. CASE Receive(a)
    BY <2>1 DEF Receive, Deliver, NextCommit
  <2>2. CASE StoreAppend(a)
    BY <2>2 DEF StoreAppend, Accepts, IsNew
  <2>3. CASE Acknowledge(a)
    BY <2>3 DEF Acknowledge, LastDurable
  <2>4. CASE Heartbeat(a)
    BY <2>4 DEF Heartbeat, HeartbeatReply, LastDurable
  <2> QED
    BY <1>3, <2>1, <2>2, <2>3, <2>4 DEF Record
<1>4. ASSUME NEW a \in Attempts, Finish(a)
      PROVE  RequestsSound'
  <2>1. CASE CloseStream(a)
    BY <2>1 DEF CloseStream
  <2>2. CASE LeaveStatus(a)
    BY <2>2 DEF LeaveStatus, LeavesStatus
  <2>3. CASE CloseWriter(a)
    BY <2>3 DEF CloseWriter
  <2>4. CASE CloseLease(a)
    BY <2>4 DEF CloseLease, OwesLease
  <2> QED
    BY <1>4, <2>1, <2>2, <2>3, <2>4 DEF Finish
<1>5. ASSUME NEW a \in Attempts, Disturb(a)
      PROVE  RequestsSound'
  <2>1. CASE SetupFails(a)
    BY <2>1 DEF SetupFails
  <2>2. CASE StreamFails(a)
    BY <2>2 DEF StreamFails
  <2>3. CASE Stop(a)
    BY <2>3 DEF Stop
  <2>4. CASE StoreLost(a)
    BY <2>4 DEF StoreLost
  <2>5. CASE DropRequest(a)
    BY <2>5 DEF DropRequest
  <2>6. CASE Crash(a)
    BY <2>6 DEF Crash
  <2> QED
    BY <1>5, <2>1, <2>2, <2>3, <2>4, <2>5, <2>6 DEF Disturb
<1>6. ASSUME NEW a \in Attempts, Server(a)
      PROVE  RequestsSound'
  <2>1. CASE ServerConfirms(a)
    BY <2>1 DEF ServerConfirms
  <2>2. CASE EndStream(a)
    BY <2>2 DEF EndStream
  <2>3. CASE EndLease(a)
    BY <2>3 DEF EndLease
  <2> QED
    BY <1>6, <2>1, <2>2, <2>3 DEF Server
<1> QED
  BY <1>1, <1>2, <1>3, <1>4, <1>5, <1>6 DEF Next

\* A recorder that may write is never told its history is invalid.
LEMMA OutcomesStep ==
  ASSUME RecoveryInv, TypeOK, OutcomesSound, Next
  PROVE  OutcomesSound'
<1> USE DEF Go, GiveUp, SourceUnchanged, StoreUnchanged, attempts, TypeOK, OutcomesSound, MayWrite, Setup, At
<1>1. CASE SourceCommit
  BY <1>1 DEF SourceCommit
<1>2. ASSUME NEW a \in Attempts, Resume(a)
      PROVE  OutcomesSound'
  <2>1. CASE Prepare(a)
    BY <2>1 DEF Prepare, Reserve
  <2>2. CASE Acquire(a)
    BY <2>2 DEF Acquire
  <2>3. CASE Activate(a)
    <3>1. CASE owner.owner < token[a] /\ token[a] <= owner.generation
      <4>1. owner' = [owner EXCEPT !.owner = token[a], !.active = TRUE]
        BY <2>3, <3>1 DEF Activate
      <4>2. owner'.owner = token[a]
        BY <4>1 DEF OwnerRow
      <4>3. phase' = [phase EXCEPT ![a] = "activated"] /\ UNCHANGED <<token, ending>>
        BY <2>3, <3>1 DEF Activate
      <4>4. phase[a] = "acquired"
        BY <2>3 DEF Activate
      <4>5. \A b \in Attempts : token[b] = token[a] /\ token[b] > 0 => b = a
        BY DEF RecoveryInv, TokensSound
      <4> QED
        BY <4>2, <4>3, <4>4, <4>5
    <3>2. CASE ~(owner.owner < token[a] /\ token[a] <= owner.generation)
      BY <2>3, <3>2 DEF Activate
    <3> QED
      BY <3>1, <3>2
  <2>4. CASE RestoreHead(a)
    BY <2>4 DEF RestoreHead
  <2>5. CASE RecheckHead(a)
    BY <2>5 DEF RecheckHead
  <2>6. CASE CheckSlot(a)
    BY <2>6 DEF CheckSlot, SlotFits
  <2>7. CASE StartReplication(a)
    BY <2>7 DEF StartReplication, RequestedStart
  <2>8. CASE MatchStream(a)
    BY <2>8 DEF MatchStream
  <2>9. CASE MarkRecording(a)
    BY <2>9 DEF MarkRecording
  <2> QED
    BY <1>2, <2>1, <2>2, <2>3, <2>4, <2>5, <2>6, <2>7, <2>8, <2>9 DEF Resume
<1>3. ASSUME NEW a \in Attempts, Record(a)
      PROVE  OutcomesSound'
  <2>1. CASE Receive(a)
    <3>1. sent[a] + 1 <= head[a] => ~MayWrite(a)
      BY <2>1 DEF Receive, RecoveryInv, WriterAtHead, StandsAtHead, Streaming
    <3>2. UNCHANGED <<owner, token>> /\ phase[a] = "reading"
      BY <2>1 DEF Receive
    <3>3. \/ ending' = ending
          \/ sent[a] + 1 <= head[a] /\ ending' = [ending EXCEPT ![a] = "invalid"]
      BY <2>1 DEF Receive, Deliver
    <3>4. phase' \in {[phase EXCEPT ![a] = "appending"], [phase EXCEPT ![a] = "failing"]}
      BY <2>1 DEF Receive, Deliver
    <3> QED
      BY <3>1, <3>2, <3>3, <3>4
  <2>2. CASE StoreAppend(a)
    <3>1. At(a, "appending") /\ MayWrite(a) => Accepts(a)
      BY <2>2, AppendCases
    <3>2. UNCHANGED <<owner, token>>
      BY <2>2 DEF StoreAppend
    <3>3. \/ ending' = ending
          \/ /\ phase[a] = "appending" /\ ~MayWrite(a)
             /\ ending' = [ending EXCEPT ![a] = "invalid"]
      BY <2>2, <3>1 DEF StoreAppend
    <3>4. \/ phase' = phase
          \/ phase' = [phase EXCEPT ![a] = "appended"]
          \/ phase' = [phase EXCEPT ![a] = "failing"]
      BY <2>2 DEF StoreAppend
    <3> QED
      BY <3>2, <3>3, <3>4
  <2>3. CASE Acknowledge(a)
    BY <2>3 DEF Acknowledge, LastDurable
  <2>4. CASE Heartbeat(a)
    BY <2>4 DEF Heartbeat, HeartbeatReply, LastDurable
  <2> QED
    BY <1>3, <2>1, <2>2, <2>3, <2>4 DEF Record
<1>4. ASSUME NEW a \in Attempts, Finish(a)
      PROVE  OutcomesSound'
  <2>1. CASE CloseStream(a)
    BY <2>1 DEF CloseStream
  <2>2. CASE LeaveStatus(a)
    BY <2>2 DEF LeaveStatus, LeavesStatus
  <2>3. CASE CloseWriter(a)
    BY <2>3 DEF CloseWriter
  <2>4. CASE CloseLease(a)
    BY <2>4 DEF CloseLease, OwesLease
  <2> QED
    BY <1>4, <2>1, <2>2, <2>3, <2>4 DEF Finish
<1>5. ASSUME NEW a \in Attempts, Disturb(a)
      PROVE  OutcomesSound'
  <2>1. CASE SetupFails(a)
    BY <2>1 DEF SetupFails
  <2>2. CASE StreamFails(a)
    BY <2>2 DEF StreamFails
  <2>3. CASE Stop(a)
    BY <2>3 DEF Stop
  <2>4. CASE StoreLost(a)
    BY <2>4 DEF StoreLost
  <2>5. CASE DropRequest(a)
    BY <2>5 DEF DropRequest
  <2>6. CASE Crash(a)
    BY <2>6 DEF Crash
  <2> QED
    BY <1>5, <2>1, <2>2, <2>3, <2>4, <2>5, <2>6 DEF Disturb
<1>6. ASSUME NEW a \in Attempts, Server(a)
      PROVE  OutcomesSound'
  <2>1. CASE ServerConfirms(a)
    BY <2>1 DEF ServerConfirms
  <2>2. CASE EndStream(a)
    BY <2>2 DEF EndStream
  <2>3. CASE EndLease(a)
    BY <2>3 DEF EndLease
  <2> QED
    BY <1>6, <2>1, <2>2, <2>3 DEF Server
<1> QED
  BY <1>1, <1>2, <1>3, <1>4, <1>5, <1>6 DEF Next

\* The attempt that may write never falls behind the recording it extends.
LEMMA WriterStep ==
  ASSUME RecoveryInv, TypeOK, WriterAtHead, Next
  PROVE  WriterAtHead'
<1> USE DEF Go, GiveUp, SourceUnchanged, StoreUnchanged, attempts, TypeOK, WriterAtHead, StandsAtHead, MayWrite, AtHead, Streaming, At
<1>1. CASE SourceCommit
  BY <1>1 DEF SourceCommit
<1>2. ASSUME NEW a \in Attempts, Resume(a)
      PROVE  WriterAtHead'
  <2>1. CASE Prepare(a)
    <3>1. owner'.owner = owner.owner /\ owner'.active = owner.active
      BY <2>1 DEF Prepare, Reserve, OwnerRow
    <3>2. phase' = [phase EXCEPT ![a] = "claimed"] /\ request[a] = NoRequest
      BY <2>1 DEF Prepare, RecoveryInv, RequestsSound
    <3>3. \A b \in Attempts \ {a} : token'[b] = token[b]
      BY <2>1 DEF Prepare, Reserve
    <3>4. UNCHANGED <<committed, stored, status, head, sent, request>>
      BY <2>1 DEF Prepare
    <3> QED
      BY <3>1, <3>2, <3>3, <3>4
  <2>2. CASE Acquire(a)
    BY <2>2 DEF Acquire
  <2>3. CASE Activate(a)
    <3>1. request[a] = NoRequest
      BY <2>3 DEF Activate, RecoveryInv, RequestsSound
    <3>2. UNCHANGED <<committed, stored, status, head, sent, request, token>>
      BY <2>3 DEF Activate
    <3>3. CASE owner.owner < token[a] /\ token[a] <= owner.generation
      <4>1. owner' = [owner EXCEPT !.owner = token[a], !.active = TRUE]
        BY <2>3, <3>3 DEF Activate
      <4>2. owner'.owner = token[a]
        BY <4>1 DEF OwnerRow
      <4>3. \A b \in Attempts : token[b] = token[a] /\ token[b] > 0 => b = a
        BY DEF RecoveryInv, TokensSound
      <4>4. phase' = [phase EXCEPT ![a] = "activated"]
        BY <2>3, <3>3 DEF Activate
      <4> QED
        BY <3>1, <3>2, <4>2, <4>3, <4>4
    <3>4. CASE ~(owner.owner < token[a] /\ token[a] <= owner.generation)
      BY <2>3, <3>4, <3>1, <3>2 DEF Activate
    <3> QED
      BY <3>3, <3>4
  <2>4. CASE RestoreHead(a)
    <3>1. DurableHead = Len(stored)
      BY HeadIsLength DEF RecoveryInv
    <3> QED
      BY <2>4, <3>1 DEF RestoreHead
  <2>5. CASE RecheckHead(a)
    BY <2>5 DEF RecheckHead
  <2>6. CASE CheckSlot(a)
    BY <2>6 DEF CheckSlot, SlotFits
  <2>7. CASE StartReplication(a)
    <3>1. slot.confirmed <= Len(stored) /\ Len(stored) \in Nat
      BY HeadIsLength DEF RecoveryInv, ConfirmedIsDurable
    <3>2. MayWrite(a) => head[a] = Len(stored)
      BY <2>7 DEF StartReplication, RecoveryInv, WriterAtHead, StandsAtHead, AtHead
    <3>3. CASE slot.active = Nobody
      <4>1. MayWrite(a) => sent' = [sent EXCEPT ![a] = head[a]]
        BY <2>7, <3>1, <3>2, <3>3 DEF StartReplication, RequestedStart, Slot
      <4>2. /\ phase' = [phase EXCEPT ![a] = "opened"]
            /\ \A b \in Attempts \ {a} : sent'[b] = sent[b]
            /\ UNCHANGED <<committed, stored, status, owner, head, request, token>>
        BY <2>7, <3>3 DEF StartReplication
      <4>3. request[a] = NoRequest
        BY <2>7 DEF StartReplication, RecoveryInv, RequestsSound
      <4> QED
        BY <3>2, <4>1, <4>2, <4>3
    <3>4. CASE slot.active # Nobody
      BY <2>7, <3>4 DEF StartReplication
    <3> QED
      BY <3>3, <3>4
  <2>8. CASE MatchStream(a)
    BY <2>8 DEF MatchStream
  <2>9. CASE MarkRecording(a)
    BY <2>9 DEF MarkRecording
  <2> QED
    BY <1>2, <2>1, <2>2, <2>3, <2>4, <2>5, <2>6, <2>7, <2>8, <2>9 DEF Resume
<1>3. ASSUME NEW a \in Attempts, Record(a)
      PROVE  WriterAtHead'
  <2>1. CASE Receive(a)
    <3>1. /\ UNCHANGED <<committed, stored, status, owner, head, token>>
          /\ phase[a] = "reading" /\ sent[a] < committed
          /\ \A b \in Attempts \ {a} :
               phase'[b] = phase[b] /\ request'[b] = request[b] /\ sent'[b] = sent[b]
      BY <2>1 DEF Receive, Deliver
    <3>2. request[a] = NoRequest /\ sent[a] \in Nat /\ Len(stored) \in Nat
      <4>1. request[a] = NoRequest
        BY <3>1 DEF RecoveryInv, RequestsSound
      <4> QED
        BY <4>1
    <3>3. MayWrite(a) => sent[a] = Len(stored) /\ head[a] = Len(stored) /\ status = "recording"
      BY <3>1 DEF RecoveryInv, WriterAtHead, StandsAtHead
    <3>4. \/ phase'[a] = "appending" /\ request'[a] = NextCommit(a)
          \/ phase'[a] = "failing" /\ request'[a] = NoRequest
      BY <2>1, <3>2 DEF Receive, Deliver
    <3>5. NextCommit(a).previous = head[a] /\ NextCommit(a).position = sent[a] + 1
      BY DEF NextCommit
    <3>6. ASSUME MayWrite(a)
          PROVE  request'[a] # NoRequest =>
                   /\ request'[a].previous = Len(stored)
                   /\ request'[a].position = Len(stored) + 1
                   /\ Len(stored) < committed
      BY <3>1, <3>2, <3>3, <3>4, <3>5, <3>6
    <3>7. MayWrite(a)' => MayWrite(a)
      BY <3>1
    <3>8. ASSUME NEW b \in Attempts \ {a}
          PROVE  MayWrite(b)' => MayWrite(b)
      BY <3>1
    <3>9. phase'[a] \in {"appending", "failing"}
      BY <3>4
    <3>10. ASSUME MayWrite(a)'
           PROVE  StandsAtHead(a)'
      BY <3>1, <3>3, <3>6, <3>7, <3>9, <3>10
    <3>11. ASSUME NEW b \in Attempts \ {a}, MayWrite(b)'
           PROVE  StandsAtHead(b)'
      BY <3>1, <3>8, <3>11
    <3> HIDE DEF MayWrite, StandsAtHead
    <3> QED
      BY <3>10, <3>11
  <2>2. CASE StoreAppend(a)
    <3>1. /\ UNCHANGED <<committed, status, owner, head, sent, token>>
          /\ request' = [request EXCEPT ![a] = NoRequest]
          /\ \A b \in Attempts \ {a} : phase'[b] = phase[b]
          /\ phase'[a] \in {phase[a], "appended", "failing"}
          /\ phase'[a] = phase[a] => phase[a] = "closing"
      BY <2>2 DEF StoreAppend, RecoveryInv, RequestsSound
    <3>2. \A b \in Attempts : MayWrite(a) /\ MayWrite(b) => b = a
      BY DEF RecoveryInv, TokensSound
    <3>3. CASE stored' = stored
      <4>1. phase'[a] = "appended" => ~MayWrite(a)
        <5>1. stored # Append(stored, Len(stored) + 1)
          BY DEF TypeOK
        <5>2. ~Accepts(a)
          BY <2>2, <3>3, <5>1, AppendCases
        <5>3. phase[a] # "appended"
          BY <2>2 DEF StoreAppend, RecoveryInv, RequestsSound
        <5> QED
          BY <2>2, <5>2, <5>3 DEF StoreAppend
      <4> QED
        BY <3>1, <3>3, <4>1
    <3>4. CASE stored' # stored
      <4>1. /\ MayWrite(a)
            /\ request[a].position = Len(stored) + 1
            /\ Len(stored') = Len(stored) + 1
        BY <2>2, <3>4, AppendCases
      <4>2. phase[a] = "appending" => request[a].position = sent[a]
        BY DEF RecoveryInv, RequestsSound
      <4>3. phase'[a] = "appended" => sent'[a] = Len(stored')
        BY <2>2, <3>1, <4>1, <4>2 DEF StoreAppend
      <4>4. ASSUME NEW b \in Attempts \ {a}
            PROVE  ~MayWrite(b)'
        BY <3>1, <3>2, <4>1
      <4>5. phase'[a] \in {"closing", "appended", "failing"} /\ request'[a] = NoRequest
        BY <3>1
      <4>6. phase'[a] = "appended" => status' = "recording"
        BY <2>2, <3>1, <4>1 DEF StoreAppend, RecoveryInv, Accepts
      <4> QED
        BY <3>1, <4>3, <4>4, <4>5, <4>6
    <3> QED
      BY <3>3, <3>4
  <2>3. CASE Acknowledge(a)
    <3>1. MayWrite(a) => sent[a] = Len(stored) /\ status = "recording"
      BY <2>3 DEF Acknowledge, RecoveryInv, WriterAtHead, StandsAtHead
    <3>2. request[a] = NoRequest
      BY <2>3 DEF Acknowledge, RecoveryInv, RequestsSound
    <3> QED
      BY <2>3, <3>1, <3>2 DEF Acknowledge, LastDurable
  <2>4. CASE Heartbeat(a)
    BY <2>4 DEF Heartbeat, HeartbeatReply, LastDurable
  <2> QED
    BY <1>3, <2>1, <2>2, <2>3, <2>4 DEF Record
<1>4. ASSUME NEW a \in Attempts, Finish(a)
      PROVE  WriterAtHead'
  <2>1. CASE CloseStream(a)
    BY <2>1 DEF CloseStream
  <2>2. CASE LeaveStatus(a)
    <3>1. \A b \in Attempts : MayWrite(a) /\ MayWrite(b) => b = a
      BY DEF RecoveryInv, TokensSound
    <3> QED
      BY <2>2, <3>1 DEF LeaveStatus, LeavesStatus
  <2>3. CASE CloseWriter(a)
    BY <2>3 DEF CloseWriter
  <2>4. CASE CloseLease(a)
    BY <2>4 DEF CloseLease, OwesLease
  <2> QED
    BY <1>4, <2>1, <2>2, <2>3, <2>4 DEF Finish
<1>5. ASSUME NEW a \in Attempts, Disturb(a)
      PROVE  WriterAtHead'
  <2>1. CASE SetupFails(a)
    BY <2>1 DEF SetupFails
  <2>2. CASE StreamFails(a)
    BY <2>2 DEF StreamFails
  <2>3. CASE Stop(a)
    BY <2>3 DEF Stop
  <2>4. CASE StoreLost(a)
    BY <2>4 DEF StoreLost
  <2>5. CASE DropRequest(a)
    BY <2>5 DEF DropRequest
  <2>6. CASE Crash(a)
    BY <2>6 DEF Crash
  <2> QED
    BY <1>5, <2>1, <2>2, <2>3, <2>4, <2>5, <2>6 DEF Disturb
<1>6. ASSUME NEW a \in Attempts, Server(a)
      PROVE  WriterAtHead'
  <2>1. CASE ServerConfirms(a)
    BY <2>1 DEF ServerConfirms
  <2>2. CASE EndStream(a)
    BY <2>2 DEF EndStream
  <2>3. CASE EndLease(a)
    BY <2>3 DEF EndLease
  <2> QED
    BY <1>6, <2>1, <2>2, <2>3 DEF Server
<1> QED
  BY <1>1, <1>2, <1>3, <1>4, <1>5, <1>6 DEF Next

\* What the source and the recording see of a step.
SourceStep == committed' = committed + 1 /\ UNCHANGED <<stored, slot>>

AppendStep ==
  /\ Len(stored) < committed
  /\ stored' = Append(stored, Len(stored) + 1)
  /\ UNCHANGED <<committed, slot>>

QuietStep ==
  /\ UNCHANGED <<committed, stored>>
  /\ slot'.confirmed \in 0 .. DurableHead

\* Every step is one the source, the recording or neither can see.
LEMMA StepKinds ==
  ASSUME RecoveryInv, TypeOK, Next
  PROVE  SourceStep \/ AppendStep \/ QuietStep
<1> USE DEF Go, GiveUp, SourceUnchanged, StoreUnchanged, attempts, SourceStep, AppendStep, QuietStep
<1>0. slot \in Slot /\ slot.confirmed \in 0 .. DurableHead
  BY HeadIsLength DEF RecoveryInv, TypeOK, ConfirmedIsDurable, Slot
<1> USE <1>0
<1>1. CASE SourceCommit
  BY <1>1 DEF SourceCommit
<1>2. ASSUME NEW a \in Attempts, Resume(a)
      PROVE  SourceStep \/ AppendStep \/ QuietStep
  <2>1. CASE Prepare(a)
    BY <2>1 DEF Prepare, Reserve
  <2>2. CASE Acquire(a)
    BY <2>2 DEF Acquire
  <2>3. CASE Activate(a)
    BY <2>3 DEF Activate
  <2>4. CASE RestoreHead(a)
    BY <2>4 DEF RestoreHead
  <2>5. CASE RecheckHead(a)
    BY <2>5 DEF RecheckHead
  <2>6. CASE CheckSlot(a)
    BY <2>6 DEF CheckSlot, SlotFits
  <2>7. CASE StartReplication(a)
    <3>1. slot'.confirmed = slot.confirmed
      BY <2>7 DEF StartReplication, Slot
    <3> QED
      BY <2>7, <3>1 DEF StartReplication
  <2>8. CASE MatchStream(a)
    BY <2>8 DEF MatchStream
  <2>9. CASE MarkRecording(a)
    BY <2>9 DEF MarkRecording
  <2> QED
    BY <1>2, <2>1, <2>2, <2>3, <2>4, <2>5, <2>6, <2>7, <2>8, <2>9 DEF Resume
<1>3. ASSUME NEW a \in Attempts, Record(a)
      PROVE  SourceStep \/ AppendStep \/ QuietStep
  <2>1. CASE Receive(a)
    BY <2>1 DEF Receive, Deliver, NextCommit
  <2>2. CASE StoreAppend(a)
    <3>1. UNCHANGED <<committed, slot>>
      BY <2>2 DEF StoreAppend
    <3> QED
      BY <2>2, <3>1, AppendCases
  <2>3. CASE Acknowledge(a)
    BY <2>3 DEF Acknowledge, LastDurable
  <2>4. CASE Heartbeat(a)
    BY <2>4 DEF Heartbeat, HeartbeatReply, LastDurable
  <2> QED
    BY <1>3, <2>1, <2>2, <2>3, <2>4 DEF Record
<1>4. ASSUME NEW a \in Attempts, Finish(a)
      PROVE  SourceStep \/ AppendStep \/ QuietStep
  <2>1. CASE CloseStream(a)
    BY <2>1 DEF CloseStream
  <2>2. CASE LeaveStatus(a)
    BY <2>2 DEF LeaveStatus, LeavesStatus
  <2>3. CASE CloseWriter(a)
    BY <2>3 DEF CloseWriter
  <2>4. CASE CloseLease(a)
    BY <2>4 DEF CloseLease, OwesLease
  <2> QED
    BY <1>4, <2>1, <2>2, <2>3, <2>4 DEF Finish
<1>5. ASSUME NEW a \in Attempts, Disturb(a)
      PROVE  SourceStep \/ AppendStep \/ QuietStep
  <2>1. CASE SetupFails(a)
    BY <2>1 DEF SetupFails
  <2>2. CASE StreamFails(a)
    BY <2>2 DEF StreamFails
  <2>3. CASE Stop(a)
    BY <2>3 DEF Stop
  <2>4. CASE StoreLost(a)
    BY <2>4 DEF StoreLost
  <2>5. CASE DropRequest(a)
    BY <2>5 DEF DropRequest
  <2>6. CASE Crash(a)
    BY <2>6 DEF Crash
  <2> QED
    BY <1>5, <2>1, <2>2, <2>3, <2>4, <2>5, <2>6 DEF Disturb
<1>6. ASSUME NEW a \in Attempts, Server(a)
      PROVE  SourceStep \/ AppendStep \/ QuietStep
  <2>1. CASE ServerConfirms(a)
    <3>1. PICK p \in {slot.confirmed, Head(acks[a])} : slot' = [slot EXCEPT !.confirmed = p]
      BY <2>1 DEF ServerConfirms
    <3>2. acks[a] \in Seq(Nat) /\ acks[a] # << >>
      BY <2>1 DEF ServerConfirms, TypeOK
    <3>3. Head(acks[a]) = acks[a][1] /\ 1 \in DOMAIN acks[a] /\ acks[a][1] \in Nat
      BY <3>2
    <3>4. acks[a][1] <= DurableHead
      BY <3>3 DEF RecoveryInv, ConfirmedIsDurable
    <3>5. slot'.confirmed = p
      BY <3>1 DEF Slot
    <3> QED
      BY <2>1, <3>3, <3>4, <3>5 DEF ServerConfirms
  <2>2. CASE EndStream(a)
    <3>1. slot'.confirmed = slot.confirmed
      BY <2>2 DEF EndStream, Slot
    <3> QED
      BY <2>2, <3>1 DEF EndStream
  <2>3. CASE EndLease(a)
    BY <2>3 DEF EndLease
  <2> QED
    BY <1>6, <2>1, <2>2, <2>3 DEF Server
<1> QED
  BY <1>1, <1>2, <1>3, <1>4, <1>5, <1>6 DEF Next

\* Every acknowledgement on its way speaks of commits already stored.
LEMMA AcksStep ==
  ASSUME RecoveryInv, TypeOK, Next
  PROVE  \A b \in Attempts : \A i \in DOMAIN acks'[b] : acks'[b][i] <= DurableHead
<1> USE DEF attempts, TypeOK
<1>0. \A b \in Attempts : \A i \in DOMAIN acks[b] : acks[b][i] <= DurableHead
  BY DEF RecoveryInv, ConfirmedIsDurable
<1> USE <1>0
<1>1. CASE SourceCommit
  BY <1>1 DEF SourceCommit
<1>2. ASSUME NEW a \in Attempts, Resume(a)
      PROVE  \A b \in Attempts : \A i \in DOMAIN acks'[b] : acks'[b][i] <= DurableHead
  <2>1. CASE Prepare(a)
    BY <2>1 DEF Prepare, Reserve
  <2>2. CASE Acquire(a)
    BY <2>2 DEF Acquire
  <2>3. CASE Activate(a)
    BY <2>3 DEF Activate
  <2>4. CASE RestoreHead(a)
    BY <2>4 DEF RestoreHead
  <2>5. CASE RecheckHead(a)
    BY <2>5 DEF RecheckHead
  <2>6. CASE CheckSlot(a)
    BY <2>6 DEF CheckSlot, SlotFits
  <2>7. CASE StartReplication(a)
    BY <2>7 DEF StartReplication, RequestedStart
  <2>8. CASE MatchStream(a)
    BY <2>8 DEF MatchStream
  <2>9. CASE MarkRecording(a)
    BY <2>9 DEF MarkRecording
  <2> QED
    BY <1>2, <2>1, <2>2, <2>3, <2>4, <2>5, <2>6, <2>7, <2>8, <2>9 DEF Resume
<1>3. ASSUME NEW a \in Attempts, Record(a)
      PROVE  \A b \in Attempts : \A i \in DOMAIN acks'[b] : acks'[b][i] <= DurableHead
  <2>1. CASE Receive(a)
    BY <2>1 DEF Receive, Deliver, NextCommit
  <2>2. CASE StoreAppend(a)
    BY <2>2 DEF StoreAppend, Accepts, IsNew
  <2>3. CASE Acknowledge(a)
    <3>1. sent[a] <= DurableHead /\ sent[a] \in Nat /\ acks[a] \in Seq(Nat)
      BY <2>3, HeadIsLength DEF Acknowledge, RecoveryInv, HeadsDurable
    <3>2. acks' = [acks EXCEPT ![a] = Append(acks[a], sent[a])]
      BY <2>3 DEF Acknowledge, LastDurable
    <3>3. \A i \in DOMAIN Append(acks[a], sent[a]) :
            \/ Append(acks[a], sent[a])[i] = sent[a]
            \/ i \in DOMAIN acks[a] /\ Append(acks[a], sent[a])[i] = acks[a][i]
      BY <3>1, AppendElements
    <3> QED
      BY <3>1, <3>2, <3>3
  <2>4. CASE Heartbeat(a)
    <3>1. head[a] <= DurableHead
      BY HeadIsLength DEF RecoveryInv, HeadsDurable
    <3>2. acks' = [acks EXCEPT ![a] = << head[a] >>]
      BY <2>4 DEF Heartbeat, HeartbeatReply, LastDurable
    <3> QED
      BY <3>1, <3>2
  <2> QED
    BY <1>3, <2>1, <2>2, <2>3, <2>4 DEF Record
<1>4. ASSUME NEW a \in Attempts, Finish(a)
      PROVE  \A b \in Attempts : \A i \in DOMAIN acks'[b] : acks'[b][i] <= DurableHead
  <2>1. CASE CloseStream(a)
    BY <2>1 DEF CloseStream
  <2>2. CASE LeaveStatus(a)
    BY <2>2 DEF LeaveStatus, LeavesStatus
  <2>3. CASE CloseWriter(a)
    BY <2>3 DEF CloseWriter
  <2>4. CASE CloseLease(a)
    BY <2>4 DEF CloseLease, OwesLease
  <2> QED
    BY <1>4, <2>1, <2>2, <2>3, <2>4 DEF Finish
<1>5. ASSUME NEW a \in Attempts, Disturb(a)
      PROVE  \A b \in Attempts : \A i \in DOMAIN acks'[b] : acks'[b][i] <= DurableHead
  <2>1. CASE SetupFails(a)
    BY <2>1 DEF SetupFails
  <2>2. CASE StreamFails(a)
    BY <2>2 DEF StreamFails
  <2>3. CASE Stop(a)
    BY <2>3 DEF Stop
  <2>4. CASE StoreLost(a)
    BY <2>4 DEF StoreLost
  <2>5. CASE DropRequest(a)
    BY <2>5 DEF DropRequest
  <2>6. CASE Crash(a)
    BY <2>6 DEF Crash
  <2> QED
    BY <1>5, <2>1, <2>2, <2>3, <2>4, <2>5, <2>6 DEF Disturb
<1>6. ASSUME NEW a \in Attempts, Server(a)
      PROVE  \A b \in Attempts : \A i \in DOMAIN acks'[b] : acks'[b][i] <= DurableHead
  <2>1. CASE ServerConfirms(a)
    <3>1. acks[a] \in Seq(Nat) /\ acks[a] # << >>
      BY <2>1 DEF ServerConfirms
    <3>2. \A i \in DOMAIN Tail(acks[a]) :
            i + 1 \in DOMAIN acks[a] /\ Tail(acks[a])[i] = acks[a][i + 1]
      BY <3>1
    <3>3. acks' = [acks EXCEPT ![a] = Tail(acks[a])]
      BY <2>1 DEF ServerConfirms
    <3> QED
      BY <3>2, <3>3
  <2>2. CASE EndStream(a)
    BY <2>2 DEF EndStream
  <2>3. CASE EndLease(a)
    BY <2>3 DEF EndLease
  <2> QED
    BY <1>6, <2>1, <2>2, <2>3 DEF Server
<1> QED
  BY <1>1, <1>2, <1>3, <1>4, <1>5, <1>6 DEF Next

\* Nothing leaves the recording invalid.
LEMMA InvalidStep ==
  ASSUME RecoveryInv, Next
  PROVE  status' # "invalid"
<1> USE DEF StoreUnchanged
<1>0. status # "invalid"
  BY DEF RecoveryInv, NeverInvalidated
<1> USE <1>0
<1>1. CASE SourceCommit
  BY <1>1 DEF SourceCommit
<1>2. ASSUME NEW a \in Attempts, Resume(a)
      PROVE  status' # "invalid"
  <2>1. CASE Prepare(a)
    BY <2>1 DEF Prepare, Reserve
  <2>2. CASE Acquire(a)
    BY <2>2 DEF Acquire
  <2>3. CASE Activate(a)
    BY <2>3 DEF Activate
  <2>4. CASE RestoreHead(a)
    BY <2>4 DEF RestoreHead
  <2>5. CASE RecheckHead(a)
    BY <2>5 DEF RecheckHead
  <2>6. CASE CheckSlot(a)
    BY <2>6 DEF CheckSlot, SlotFits
  <2>7. CASE StartReplication(a)
    BY <2>7 DEF StartReplication, RequestedStart
  <2>8. CASE MatchStream(a)
    BY <2>8 DEF MatchStream
  <2>9. CASE MarkRecording(a)
    BY <2>9 DEF MarkRecording
  <2> QED
    BY <1>2, <2>1, <2>2, <2>3, <2>4, <2>5, <2>6, <2>7, <2>8, <2>9 DEF Resume
<1>3. ASSUME NEW a \in Attempts, Record(a)
      PROVE  status' # "invalid"
  <2>1. CASE Receive(a)
    BY <2>1 DEF Receive, Deliver, NextCommit
  <2>2. CASE StoreAppend(a)
    BY <2>2 DEF StoreAppend, Accepts, IsNew
  <2>3. CASE Acknowledge(a)
    BY <2>3 DEF Acknowledge, LastDurable
  <2>4. CASE Heartbeat(a)
    BY <2>4 DEF Heartbeat, HeartbeatReply, LastDurable
  <2> QED
    BY <1>3, <2>1, <2>2, <2>3, <2>4 DEF Record
<1>4. ASSUME NEW a \in Attempts, Finish(a)
      PROVE  status' # "invalid"
  <2>1. CASE CloseStream(a)
    BY <2>1 DEF CloseStream
  <2>2. CASE LeaveStatus(a)
    <3>1. MayWrite(a) => ending[a] # "invalid"
      BY DEF RecoveryInv, OutcomesSound
    <3> QED
      BY <2>2, <3>1 DEF LeaveStatus, LeavesStatus
  <2>3. CASE CloseWriter(a)
    BY <2>3 DEF CloseWriter
  <2>4. CASE CloseLease(a)
    BY <2>4 DEF CloseLease, OwesLease
  <2> QED
    BY <1>4, <2>1, <2>2, <2>3, <2>4 DEF Finish
<1>5. ASSUME NEW a \in Attempts, Disturb(a)
      PROVE  status' # "invalid"
  <2>1. CASE SetupFails(a)
    BY <2>1 DEF SetupFails
  <2>2. CASE StreamFails(a)
    BY <2>2 DEF StreamFails
  <2>3. CASE Stop(a)
    BY <2>3 DEF Stop
  <2>4. CASE StoreLost(a)
    BY <2>4 DEF StoreLost
  <2>5. CASE DropRequest(a)
    BY <2>5 DEF DropRequest
  <2>6. CASE Crash(a)
    BY <2>6 DEF Crash
  <2> QED
    BY <1>5, <2>1, <2>2, <2>3, <2>4, <2>5, <2>6 DEF Disturb
<1>6. ASSUME NEW a \in Attempts, Server(a)
      PROVE  status' # "invalid"
  <2>1. CASE ServerConfirms(a)
    BY <2>1 DEF ServerConfirms
  <2>2. CASE EndStream(a)
    BY <2>2 DEF EndStream
  <2>3. CASE EndLease(a)
    BY <2>3 DEF EndLease
  <2> QED
    BY <1>6, <2>1, <2>2, <2>3 DEF Server
<1> QED
  BY <1>1, <1>2, <1>3, <1>4, <1>5, <1>6 DEF Next

-----------------------------------------------------------------------------
(* The invariant and what it gives                                         *)

\* Every step keeps the invariant.
LEMMA RecoveryStep ==
  ASSUME RecoveryInv, Next
  PROVE  RecoveryInv'
<1>1. TypeOK'
  BY TypeStep DEF RecoveryInv
<1>2. stored \in Seq(Nat) /\ Len(stored) \in Nat /\ committed \in Nat
  BY DEF RecoveryInv, TypeOK
<1>3. SourceStep \/ AppendStep \/ QuietStep
  BY StepKinds DEF RecoveryInv
<1>4. NoCommitMissing' /\ Len(stored) <= Len(stored')
  <2>1. CASE AppendStep
    <3>1. /\ Len(stored') = Len(stored) + 1
          /\ \A i \in DOMAIN stored' :
               stored'[i] = IF i = Len(stored) + 1 THEN Len(stored) + 1 ELSE stored[i]
          /\ \A i \in DOMAIN stored' : i # Len(stored) + 1 => i \in DOMAIN stored
      BY <1>2, <2>1 DEF AppendStep
    <3> QED
      BY <1>2, <2>1, <3>1 DEF AppendStep, RecoveryInv, NoCommitMissing
  <2>2. CASE SourceStep \/ QuietStep
    BY <1>2, <2>2 DEF SourceStep, QuietStep, RecoveryInv, NoCommitMissing
  <2> QED
    BY <1>3, <2>1, <2>2
<1>5. DurableHead = Len(stored) /\ DurableHead' = Len(stored')
  <2>1. DurableHead = Len(stored)
    BY HeadIsLength DEF RecoveryInv
  <2>2. stored' \in Seq(Nat)
    BY <1>1 DEF TypeOK
  <2>3. CASE stored' = << >>
    BY <2>1, <2>3 DEF DurableHead
  <2>4. CASE stored' # << >>
    <3>1. Len(stored') \in DOMAIN stored'
      BY <2>2, <2>4
    <3> QED
      BY <1>4, <2>1, <2>4, <3>1 DEF DurableHead, NoCommitMissing
  <2> QED
    BY <2>3, <2>4
<1>6. ConfirmedIsDurable'
  <2>1. slot \in Slot /\ slot' \in Slot
    BY <1>1 DEF RecoveryInv, TypeOK
  <2>2. slot'.confirmed <= DurableHead'
    BY <1>2, <1>3, <1>4, <1>5, <2>1
    DEF SourceStep, AppendStep, QuietStep, RecoveryInv, ConfirmedIsDurable, Slot
  <2>3. \A b \in Attempts : \A i \in DOMAIN acks'[b] :
          acks'[b][i] \in Nat /\ acks'[b][i] <= DurableHead
    <3>1. acks' \in [Attempts -> Seq(Nat)]
      BY <1>1 DEF TypeOK
    <3>2. \A b \in Attempts : \A i \in DOMAIN acks'[b] : acks'[b][i] <= DurableHead
      BY AcksStep DEF RecoveryInv
    <3> QED
      BY <3>1, <3>2
  <2>4. \A b \in Attempts : \A i \in DOMAIN acks'[b] : acks'[b][i] <= DurableHead'
    BY <1>1, <1>2, <1>4, <1>5, <2>3 DEF TypeOK
  <2> QED
    BY <2>2, <2>4 DEF ConfirmedIsDurable
<1> QED
  BY <1>1, <1>4, <1>6, TokensStep, HeadsStep, RequestsStep, WriterStep, OutcomesStep,
     InvalidStep DEF RecoveryInv, NeverInvalidated

\* Every initial state satisfies it.
LEMMA RecoveryInit ==
  ASSUME Init
  PROVE  RecoveryInv
<1>1. TypeOK
  BY DEF Init, TypeOK, Phase, Status, Slot, OwnerRow, RecordingInfo
<1>2. NoCommitMissing /\ ConfirmedIsDurable /\ NeverInvalidated
  BY DEF Init, NoCommitMissing, ConfirmedIsDurable, NeverInvalidated, DurableHead
<1>3. TokensSound /\ HeadsDurable /\ RequestsSound
  BY DEF Init, TokensSound, HeadsDurable, RequestsSound, At
<1>4. WriterAtHead /\ OutcomesSound
  BY DEF Init, WriterAtHead, OutcomesSound, MayWrite
<1> QED
  BY <1>1, <1>2, <1>3, <1>4 DEF RecoveryInv

\* The inductive invariant: tokens are handed out once, what attempts believe
\* durable is, and the attempt that may write stands at the end of the recording.
THEOREM RecoveryInvariant == Spec => []RecoveryInv
<1>1. RecoveryInv /\ [Next]_vars => RecoveryInv'
  <2>1. CASE UNCHANGED vars
    BY <2>1 DEF RecoveryInv, TypeOK, NoCommitMissing, ConfirmedIsDurable, NeverInvalidated,
       TokensSound, HeadsDurable, RequestsSound, WriterAtHead, StandsAtHead, OutcomesSound,
       MayWrite, At, DurableHead, vars
  <2> QED
    BY <2>1, RecoveryStep
<1> QED
  BY <1>1, RecoveryInit, PTL DEF Spec

\* No crash, takeover, late append or lost acknowledgement loses, repeats or
\* invents a commit of the recording.
THEOREM NoCommitIsMissing == Spec => []NoCommitMissing
<1>1. RecoveryInv => NoCommitMissing
  BY DEF RecoveryInv
<1> QED
  BY <1>1, RecoveryInvariant, PTL

\* The slot is never told to forget a commit that is not stored.
THEOREM ConfirmedAlwaysDurable == Spec => []ConfirmedIsDurable
<1>1. RecoveryInv => ConfirmedIsDurable
  BY DEF RecoveryInv
<1> QED
  BY <1>1, RecoveryInvariant, PTL

\* No displaced or failing recorder of a healthy source invalidates the recording.
THEOREM RecordingNeverInvalidated == Spec => []NeverInvalidated
<1>1. RecoveryInv => NeverInvalidated
  BY DEF RecoveryInv
<1> QED
  BY <1>1, RecoveryInvariant, PTL

\* The attempt that may write always fits the retained range of a free slot.
THEOREM HeadAlwaysRetained == Spec => []HeadWithinRetainedRange
<1>1. RecoveryInv => HeadWithinRetainedRange
  <2> SUFFICES ASSUME RecoveryInv, NEW a \in Attempts, phase[a] = "restored", MayWrite(a),
                      slot.active = Nobody
               PROVE  SlotFits(a)
    BY DEF HeadWithinRetainedRange, At
  <2>1. DurableHead = Len(stored)
    BY HeadIsLength DEF RecoveryInv
  <2>2. head[a] = Len(stored)
    BY DEF RecoveryInv, WriterAtHead, StandsAtHead, AtHead
  <2> QED
    BY <2>1, <2>2 DEF RecoveryInv, ConfirmedIsDurable, NoCommitMissing, SlotFits
<1> QED
  BY <1>1, RecoveryInvariant, PTL

\* Capture recovery implements the promise of DurableCapture.
THEOREM RecoveryImplementsCapture == Spec => ImplementsDurableCapture
<1>1. Init => Capture!CaptureInit
  BY DEF Init, Capture!CaptureInit
<1>2. RecoveryInv /\ [Next]_vars => [Capture!CaptureNext]_(Capture!capture)
  <2> SUFFICES ASSUME RecoveryInv, [Next]_vars
               PROVE  [Capture!CaptureNext]_(Capture!capture)
    OBVIOUS
  <2>1. CASE UNCHANGED vars
    BY <2>1 DEF vars, Capture!capture
  <2>2. CASE Next
    <3>1. SourceStep \/ AppendStep \/ QuietStep
      BY <2>2, StepKinds DEF RecoveryInv
    <3>2. DurableHead = Len(stored) /\ stored \in Seq(Nat)
      BY HeadIsLength DEF RecoveryInv, TypeOK
    <3>3. SourceStep => Capture!SourceCommits
      BY DEF SourceStep, Capture!SourceCommits
    <3>4. AppendStep => Capture!CommitRecorded
      BY <3>2 DEF AppendStep, Capture!CommitRecorded
    <3>5. QuietStep => Capture!ProgressConfirmed
      BY <3>2 DEF QuietStep, Capture!ProgressConfirmed
    <3> QED
      BY <3>1, <3>3, <3>4, <3>5 DEF Capture!CaptureNext
  <2> QED
    BY <2>1, <2>2
<1> QED
  BY <1>1, <1>2, RecoveryInvariant, PTL DEF Spec, ImplementsDurableCapture, Capture!CaptureSpec

-----------------------------------------------------------------------------
(* ReconnectSupervisor                                                     *)

\* Where an attempt holds the lease, and where it may hold the writer.
Holding == {"activate", "restore", "rebind", "open", "match", "mark", "opened",
            "recording", "releasing", "cleaning"}

\* A lease is held exactly while an attempt uses it or gives it back.
LeaseSound ==
  /\ lease = "held" <=> at \in Holding
  /\ writer => at \in Holding

\* The lease hears of every abort, and the stream of every end of the lease.
SignalsSound ==
  /\ external # "no" => aborted
  /\ aborted /\ lease = "held" => leaseEnd # "none"
  /\ StreamOpen /\ leaseEnd # "none" => sourceEnd # "none"

\* A session is active from when it is opened to when its end is caught, an attempt
\* fails with a code, and done settles once.
ErrorSound ==
  /\ active => at \in {"recording", "releasing", "failed"}
  /\ at \in {"failed", "cleaning"} => error \in Code
  /\ at = "releasing" => error \in Code \union {"stopped"}
  /\ at # "settled" => result = "pending"

\* Until a session runs, nothing of it has happened.
SessionFresh ==
  at \in {"match", "mark"} =>
    sourceEnd # "owner" /\ ~appending /\ leaving = "none" /\ outcome = "pending" /\ ~stopped

\* A failed cleanup is on its way to done.
CleanupSound ==
  "cleanup" \in faults =>
    \/ at = "failed" /\ error = "STORAGE_FAILURE"
    \/ at = "settled" /\ result = "STORAGE_FAILURE"

\* After an abort outside of a session none can end as stopped, and after one in a
\* session no stop is reported that met none.
CancelSound ==
  /\ external = "idle" =>
       /\ at # "reporting" /\ result \notin {"stopped", "info"}
       /\ at \in {"recording", "opened"} =>
            /\ sourceEnd \in Code /\ ~appending
            /\ leaving \in {"none"} \union Code
            /\ outcome \in {"pending"} \union Code
       /\ at = "releasing" => error \in Code
  /\ external \in {"session", "releasing"} => at # "reporting" /\ result # "info"

SupervisorInv ==
  /\ SupervisorTypeOK /\ LeaseSound /\ SignalsSound /\ ErrorSound
  /\ SessionFresh /\ CleanupSound /\ CancelSound

\* Every step of the supervisor, its attempt and its session preserves the invariant.
LEMMA SupervisorStep == SupervisorInv /\ [SupervisorNext]_supervisorVars => SupervisorInv'
<1> SUFFICES ASSUME SupervisorInv, [SupervisorNext]_supervisorVars PROVE SupervisorInv' OBVIOUS
<1> USE RetriesAssumption
<1>1. CASE ExternalAbort
  <2>1. FlagsOK'
    BY <1>1 DEF SupervisorInv, SupervisorTypeOK, FlagsOK, ExternalAbort, Aborts, LeaseEnds,
        stopVars, attemptVars, contractVars
  <2>2. ValuesOK'
    BY <1>1 DEF SupervisorInv, SupervisorTypeOK, ValuesOK, ExternalAbort, AbortMeets, Aborts, LeaseEnds,
        Code, Places, Awaits, Continuations, stopVars, attemptVars, contractVars
  <2>3. LeaseSound'
    BY <1>1 DEF SupervisorInv, LeaseSound, ExternalAbort, Aborts, LeaseEnds,
        Holding, Awaits, stopVars, attemptVars, contractVars
  <2>4. SignalsSound'
    BY <1>1 DEF SupervisorInv, SupervisorTypeOK, ValuesOK, LeaseSound, SignalsSound,
        ExternalAbort, AbortMeets, Aborts, LeaseEnds, Code, Holding, StreamOpen, Awaits,
        stopVars, attemptVars, contractVars
  <2>5. ErrorSound'
    BY <1>1 DEF SupervisorInv, SupervisorTypeOK, ValuesOK, ErrorSound, ExternalAbort, Aborts,
        LeaseEnds, Code, Awaits, stopVars, attemptVars, contractVars
  <2>6. SessionFresh'
    BY <1>1 DEF SupervisorInv, LeaseSound, SignalsSound, ErrorSound, SessionFresh,
        SupervisorTypeOK, ValuesOK, ExternalAbort, Aborts, LeaseEnds, Code, StreamOpen,
        Awaits, stopVars, attemptVars, contractVars
  <2>7. CleanupSound'
    BY <1>1 DEF SupervisorInv, ErrorSound, CleanupSound, ExternalAbort, Aborts,
        LeaseEnds, Awaits, stopVars, attemptVars, contractVars
  <2>8. CancelSound'
    BY <1>1 DEF SupervisorInv, SupervisorTypeOK, ValuesOK, LeaseSound, SignalsSound,
        ErrorSound, SessionFresh, CancelSound, ExternalAbort, AbortMeets, Aborts, LeaseEnds,
        Code, Holding, StreamOpen, Awaits, stopVars, attemptVars, contractVars
  <2> QED BY <2>1, <2>2, <2>3, <2>4, <2>5, <2>6, <2>7, <2>8 DEF SupervisorInv,
      SupervisorTypeOK
<1>2. CASE LeaseLost
  BY <1>2 DEF SupervisorInv, SupervisorTypeOK, FlagsOK, ValuesOK, LeaseSound, SignalsSound,
      ErrorSound, SessionFresh, CleanupSound, CancelSound, LeaseLost, LeaseEnds,
      Code, Places, Awaits, Continuations, Holding, StreamOpen, stopVars,
      attemptVars, contractVars
<1>3. CASE SourceFails
  BY <1>3 DEF SupervisorInv, SupervisorTypeOK, FlagsOK, ValuesOK, LeaseSound, SignalsSound,
      ErrorSound, SessionFresh, CleanupSound, CancelSound, SourceFails, SourceEnds,
      Code, Places, Awaits, Continuations, Holding, StreamOpen, stopVars,
      attemptVars, contractVars
<1>4. CASE StopCalled
  BY <1>4 DEF SupervisorInv, SupervisorTypeOK, FlagsOK, ValuesOK, LeaseSound, SignalsSound,
      ErrorSound, SessionFresh, CleanupSound, CancelSound, StopCalled, Code, Places,
      Awaits, Continuations, Holding, StreamOpen, stopVars, attemptVars,
      contractVars
<1>5. CASE StepSettles
  <2>1. FlagsOK'
    BY <1>5 DEF SupervisorInv, SupervisorTypeOK, FlagsOK, StepSettles, Reject, Reason,
        Checked, SignalsAborted, After, stopVars, attemptVars, contractVars
  <2>2. ValuesOK'
    BY <1>5 DEF SupervisorInv, SupervisorTypeOK, ValuesOK, SessionFresh, StepSettles, Reject,
        Reason, Checked, SignalsAborted, After, Code, Places, Awaits,
        Continuations, stopVars, attemptVars, contractVars
  <2>3. LeaseSound'
    BY <1>5 DEF SupervisorInv, LeaseSound, StepSettles, Reject, Reason, Checked,
        SignalsAborted, After, Holding, Awaits, stopVars, attemptVars, contractVars
  <2>4. SignalsSound'
    BY <1>5 DEF SupervisorInv, SupervisorTypeOK, ValuesOK, LeaseSound, SignalsSound,
        StepSettles, Reject, Reason, Checked, SignalsAborted, After, Code, Holding,
        StreamOpen, Awaits, stopVars, attemptVars, contractVars
  <2>5. ErrorSound'
    BY <1>5 DEF SupervisorInv, SupervisorTypeOK, ValuesOK, ErrorSound, SessionFresh,
        StepSettles, Reject, Reason, Checked, SignalsAborted, After, Code, Awaits,
        stopVars, attemptVars, contractVars
  <2>6. SessionFresh'
    BY <1>5 DEF SupervisorInv, LeaseSound, SignalsSound, ErrorSound, SessionFresh,
        SupervisorTypeOK, ValuesOK, StepSettles, Reject, Reason, Checked, SignalsAborted,
        After, Code, StreamOpen, Awaits, stopVars, attemptVars, contractVars
  <2>7. CleanupSound'
    BY <1>5 DEF SupervisorInv, ErrorSound, CleanupSound, StepSettles, Reject,
        Reason, Checked, SignalsAborted, After, Awaits, stopVars, attemptVars,
        contractVars
  <2>8. CancelSound'
    BY <1>5 DEF SupervisorInv, SupervisorTypeOK, ValuesOK, LeaseSound, SignalsSound,
        ErrorSound, SessionFresh, CancelSound, StepSettles, Reject, Reason,
        Checked, SignalsAborted, After, Code, Holding, StreamOpen, Awaits,
        stopVars, attemptVars, contractVars
  <2> QED BY <2>1, <2>2, <2>3, <2>4, <2>5, <2>6, <2>7, <2>8 DEF SupervisorInv,
      SupervisorTypeOK
<1>6. CASE StepFails
  <2>1. FlagsOK'
    BY <1>6 DEF SupervisorInv, SupervisorTypeOK, FlagsOK, StepFails, Failures, Reject,
        Reason, SignalsAborted, stopVars, attemptVars, contractVars
  <2>2. ValuesOK'
    <3>1. faults' \subseteq {"source", "attempt", "cleanup", "session", "report"}
      BY <1>6 DEF StepFails, SupervisorInv, SupervisorTypeOK, ValuesOK
    <3> QED
      BY <3>1, <1>6 DEF SupervisorInv, SupervisorTypeOK, ValuesOK, StepFails, Failures,
          Reject, Reason, SignalsAborted, Code, Places, Awaits, Continuations,
          stopVars, attemptVars, contractVars
  <2>3. LeaseSound'
    BY <1>6 DEF SupervisorInv, LeaseSound, StepFails, Failures, Reject, Reason,
        SignalsAborted, Holding, Awaits, stopVars, attemptVars, contractVars
  <2>4. SignalsSound'
    BY <1>6 DEF SupervisorInv, SupervisorTypeOK, ValuesOK, LeaseSound, SignalsSound,
        StepFails, Failures, Reject, Reason, SignalsAborted, Code, Holding,
        StreamOpen, Awaits, stopVars, attemptVars, contractVars
  <2>5. ErrorSound'
    BY <1>6 DEF SupervisorInv, SupervisorTypeOK, ValuesOK, ErrorSound, StepFails, Failures,
        Reject, Reason, SignalsAborted, Code, Awaits, stopVars, attemptVars,
        contractVars
  <2>6. SessionFresh'
    BY <1>6 DEF SupervisorInv, LeaseSound, SignalsSound, ErrorSound, SessionFresh,
        SupervisorTypeOK, ValuesOK, StepFails, Failures, Reject, Reason, SignalsAborted,
        Code, StreamOpen, Awaits, stopVars, attemptVars, contractVars
  <2>7. CleanupSound'
    BY <1>6 DEF SupervisorInv, ErrorSound, CleanupSound, StepFails, Failures,
        Reject, Reason, SignalsAborted, Awaits, stopVars, attemptVars, contractVars
  <2>8. CancelSound'
    BY <1>6 DEF SupervisorInv, SupervisorTypeOK, ValuesOK, LeaseSound, SignalsSound,
        ErrorSound, SessionFresh, CancelSound, StepFails, Failures, Reject, Reason,
        SignalsAborted, Code, Holding, StreamOpen, Awaits, stopVars, attemptVars,
        contractVars
  <2> QED BY <2>1, <2>2, <2>3, <2>4, <2>5, <2>6, <2>7, <2>8 DEF SupervisorInv,
      SupervisorTypeOK
<1>7. CASE Cleaned
  <2>1. FlagsOK'
    BY <1>7 DEF SupervisorInv, SupervisorTypeOK, FlagsOK, Cleaned, Closes, LeaseAfter,
        stopVars, attemptVars, contractVars
  <2>2. ValuesOK'
    BY <1>7 DEF SupervisorInv, SupervisorTypeOK, ValuesOK, Cleaned, Closes, LeaseAfter, Code,
        Places, Awaits, Continuations, stopVars, attemptVars, contractVars
  <2>3. LeaseSound'
    BY <1>7 DEF SupervisorInv, LeaseSound, Cleaned, Closes, LeaseAfter, Holding,
        Awaits, stopVars, attemptVars, contractVars
  <2>4. SignalsSound'
    BY <1>7 DEF SupervisorInv, SupervisorTypeOK, ValuesOK, LeaseSound, SignalsSound, Cleaned,
        Closes, LeaseAfter, Code, Holding, StreamOpen, Awaits, stopVars,
        attemptVars, contractVars
  <2>5. ErrorSound'
    BY <1>7 DEF SupervisorInv, SupervisorTypeOK, ValuesOK, ErrorSound, Cleaned, Closes,
        LeaseAfter, Code, Awaits, stopVars, attemptVars, contractVars
  <2>6. SessionFresh'
    BY <1>7 DEF SupervisorInv, LeaseSound, SignalsSound, ErrorSound, SessionFresh,
        SupervisorTypeOK, ValuesOK, Cleaned, Closes, LeaseAfter, Code, StreamOpen, Awaits,
        stopVars, attemptVars, contractVars
  <2>7. CleanupSound'
    BY <1>7 DEF SupervisorInv, ErrorSound, CleanupSound, Cleaned, Closes,
        LeaseAfter, Awaits, stopVars, attemptVars, contractVars
  <2>8. CancelSound'
    BY <1>7 DEF SupervisorInv, SupervisorTypeOK, ValuesOK, LeaseSound, SignalsSound,
        ErrorSound, SessionFresh, CancelSound, Cleaned, Closes, LeaseAfter, Code,
        Holding, StreamOpen, Awaits, stopVars, attemptVars, contractVars
  <2> QED BY <2>1, <2>2, <2>3, <2>4, <2>5, <2>6, <2>7, <2>8 DEF SupervisorInv,
      SupervisorTypeOK
<1>8. CASE Opened
  <2>1. FlagsOK'
    BY <1>8 DEF SupervisorInv, SupervisorTypeOK, FlagsOK, Opened, Spent, stopVars,
        attemptVars, contractVars
  <2>2. ValuesOK'
    BY <1>8 DEF SupervisorInv, SupervisorTypeOK, ValuesOK, Opened, Spent, Code, Places,
        Awaits, Continuations, stopVars, attemptVars, contractVars
  <2>3. LeaseSound'
    BY <1>8 DEF SupervisorInv, LeaseSound, Opened, Spent, Holding, Awaits,
        stopVars, attemptVars, contractVars
  <2>4. SignalsSound'
    BY <1>8 DEF SupervisorInv, SupervisorTypeOK, ValuesOK, LeaseSound, SignalsSound, Opened,
        Spent, Code, Holding, StreamOpen, Awaits, stopVars, attemptVars,
        contractVars
  <2>5. ErrorSound'
    BY <1>8 DEF SupervisorInv, SupervisorTypeOK, ValuesOK, ErrorSound, Opened, Spent, Code,
        Awaits, stopVars, attemptVars, contractVars
  <2>6. SessionFresh'
    BY <1>8 DEF SupervisorInv, LeaseSound, SignalsSound, ErrorSound, SessionFresh,
        SupervisorTypeOK, ValuesOK, Opened, Spent, Code, StreamOpen, Awaits, stopVars,
        attemptVars, contractVars
  <2>7. CleanupSound'
    BY <1>8 DEF SupervisorInv, ErrorSound, CleanupSound, Opened, Spent, Awaits,
        stopVars, attemptVars, contractVars
  <2>8. CancelSound'
    BY <1>8 DEF SupervisorInv, SupervisorTypeOK, ValuesOK, LeaseSound, SignalsSound,
        ErrorSound, SessionFresh, CancelSound, Opened, Spent, Code, Holding,
        StreamOpen, Awaits, stopVars, attemptVars, contractVars
  <2> QED BY <2>1, <2>2, <2>3, <2>4, <2>5, <2>6, <2>7, <2>8 DEF SupervisorInv,
      SupervisorTypeOK
<1>9. CASE Session
  <2>1. FlagsOK'
    BY <1>9 DEF SupervisorInv, SupervisorTypeOK, FlagsOK, Session, SessionStep, AppendStarts,
        AppendSettles, OwnerCloses, LeaveByStop, LeaveBySource, AppendFails,
        AcknowledgeFails, CloseFails, Done, stopVars, attemptVars, contractVars
  <2>2. ValuesOK'
    BY <1>9 DEF SupervisorInv, SupervisorTypeOK, ValuesOK, Session, SessionStep,
        AppendStarts, AppendSettles, OwnerCloses, LeaveByStop, LeaveBySource,
        AppendFails, AcknowledgeFails, CloseFails, Done, Code, Places, Awaits,
        Continuations, stopVars, attemptVars, contractVars
  <2>3. LeaseSound'
    BY <1>9 DEF SupervisorInv, LeaseSound, Session, SessionStep, AppendStarts,
        AppendSettles, OwnerCloses, LeaveByStop, LeaveBySource, AppendFails,
        AcknowledgeFails, CloseFails, Done, Holding, Awaits, stopVars, attemptVars,
        contractVars
  <2>4. SignalsSound'
    BY <1>9 DEF SupervisorInv, SupervisorTypeOK, ValuesOK, LeaseSound, SignalsSound, Session,
        SessionStep, AppendStarts, AppendSettles, OwnerCloses, LeaveByStop,
        LeaveBySource, AppendFails, AcknowledgeFails, CloseFails, Done, Code,
        Holding, StreamOpen, Awaits, stopVars, attemptVars, contractVars
  <2>5. ErrorSound'
    BY <1>9 DEF SupervisorInv, SupervisorTypeOK, ValuesOK, ErrorSound, Session, SessionStep,
        AppendStarts, AppendSettles, OwnerCloses, LeaveByStop, LeaveBySource,
        AppendFails, AcknowledgeFails, CloseFails, Done, Code, Awaits, stopVars,
        attemptVars, contractVars
  <2>6. SessionFresh'
    BY <1>9 DEF SupervisorInv, LeaseSound, SignalsSound, ErrorSound, SessionFresh,
        SupervisorTypeOK, ValuesOK, Session, SessionStep, AppendStarts, AppendSettles,
        OwnerCloses, LeaveByStop, LeaveBySource, AppendFails, AcknowledgeFails,
        CloseFails, Done, Code, StreamOpen, Awaits, stopVars, attemptVars,
        contractVars
  <2>7. CleanupSound'
    BY <1>9 DEF SupervisorInv, ErrorSound, CleanupSound, Session, SessionStep,
        AppendStarts, AppendSettles, OwnerCloses, LeaveByStop, LeaveBySource,
        AppendFails, AcknowledgeFails, CloseFails, Done, Awaits, stopVars,
        attemptVars, contractVars
  <2>8. CancelSound'
    BY <1>9 DEF SupervisorInv, SupervisorTypeOK, ValuesOK, LeaseSound, SignalsSound,
        ErrorSound, SessionFresh, CancelSound, Session, SessionStep, AppendStarts,
        AppendSettles, OwnerCloses, LeaveByStop, LeaveBySource, AppendFails,
        AcknowledgeFails, CloseFails, Done, Code, Holding, StreamOpen, Awaits,
        stopVars, attemptVars, contractVars
  <2> QED BY <2>1, <2>2, <2>3, <2>4, <2>5, <2>6, <2>7, <2>8 DEF SupervisorInv,
      SupervisorTypeOK
<1>10. CASE SessionDone
  BY <1>10 DEF SupervisorInv, SupervisorTypeOK, FlagsOK, ValuesOK, LeaseSound, SignalsSound,
      ErrorSound, SessionFresh, CleanupSound, CancelSound, SessionDone, Code,
      Places, Awaits, Continuations, Holding, StreamOpen, stopVars, attemptVars,
      contractVars
<1>11. CASE ReleaseSettles
  <2>1. FlagsOK'
    BY <1>11 DEF SupervisorInv, SupervisorTypeOK, FlagsOK, ReleaseSettles, Closes,
        LeaseAfter, stopVars, attemptVars, contractVars
  <2>2. ValuesOK'
    BY <1>11 DEF SupervisorInv, SupervisorTypeOK, ValuesOK, ReleaseSettles, Closes,
        LeaseAfter, Code, Places, Awaits, Continuations, stopVars, attemptVars,
        contractVars
  <2>3. LeaseSound'
    BY <1>11 DEF SupervisorInv, LeaseSound, ReleaseSettles, Closes, LeaseAfter,
        Holding, Awaits, stopVars, attemptVars, contractVars
  <2>4. SignalsSound'
    BY <1>11 DEF SupervisorInv, SupervisorTypeOK, ValuesOK, LeaseSound, SignalsSound,
        ReleaseSettles, Closes, LeaseAfter, Code, Holding, StreamOpen, Awaits,
        stopVars, attemptVars, contractVars
  <2>5. ErrorSound'
    BY <1>11 DEF SupervisorInv, SupervisorTypeOK, ValuesOK, ErrorSound, ReleaseSettles,
        Closes, LeaseAfter, Code, Awaits, stopVars, attemptVars, contractVars
  <2>6. SessionFresh'
    BY <1>11 DEF SupervisorInv, LeaseSound, SignalsSound, ErrorSound, SessionFresh,
        SupervisorTypeOK, ValuesOK, ReleaseSettles, Closes, LeaseAfter, Code, StreamOpen,
        Awaits, stopVars, attemptVars, contractVars
  <2>7. CleanupSound'
    BY <1>11 DEF SupervisorInv, ErrorSound, CleanupSound, ReleaseSettles, Closes,
        LeaseAfter, Awaits, stopVars, attemptVars, contractVars
  <2>8. CancelSound'
    BY <1>11 DEF SupervisorInv, SupervisorTypeOK, ValuesOK, LeaseSound, SignalsSound,
        ErrorSound, SessionFresh, CancelSound, ReleaseSettles, Closes, LeaseAfter,
        Code, Holding, StreamOpen, Awaits, stopVars, attemptVars, contractVars
  <2> QED BY <2>1, <2>2, <2>3, <2>4, <2>5, <2>6, <2>7, <2>8 DEF SupervisorInv,
      SupervisorTypeOK
<1>12. CASE Catch
  <2>1. FlagsOK'
    BY <1>12 DEF SupervisorInv, SupervisorTypeOK, FlagsOK, Catch, SettleWith, Retries,
        OwnCancellation, stopVars, attemptVars, contractVars
  <2>2. ValuesOK'
    BY <1>12 DEF SupervisorInv, SupervisorTypeOK, ValuesOK, ErrorSound, Catch, SettleWith,
        Retries, OwnCancellation, Code, Places, Awaits, Continuations, stopVars,
        attemptVars, contractVars
  <2>3. LeaseSound'
    BY <1>12 DEF SupervisorInv, LeaseSound, Catch, SettleWith, Retries,
        OwnCancellation, Holding, Awaits, stopVars, attemptVars, contractVars
  <2>4. SignalsSound'
    BY <1>12 DEF SupervisorInv, SupervisorTypeOK, ValuesOK, LeaseSound, SignalsSound, Catch,
        SettleWith, Retries, OwnCancellation, Code, Holding, StreamOpen, Awaits,
        stopVars, attemptVars, contractVars
  <2>5. ErrorSound'
    BY <1>12 DEF SupervisorInv, SupervisorTypeOK, ValuesOK, ErrorSound, Catch, SettleWith,
        Retries, OwnCancellation, Code, Awaits, stopVars, attemptVars, contractVars
  <2>6. SessionFresh'
    BY <1>12 DEF SupervisorInv, LeaseSound, SignalsSound, ErrorSound, SessionFresh,
        SupervisorTypeOK, ValuesOK, Catch, SettleWith, Retries, OwnCancellation, Code,
        StreamOpen, Awaits, stopVars, attemptVars, contractVars
  <2>7. CleanupSound'
    BY <1>12 DEF SupervisorInv, ErrorSound, CleanupSound, Catch, SettleWith,
        Retries, OwnCancellation, Awaits, stopVars, attemptVars, contractVars
  <2>8. CancelSound'
    BY <1>12 DEF SupervisorInv, SupervisorTypeOK, ValuesOK, LeaseSound, SignalsSound,
        ErrorSound, SessionFresh, CancelSound, Catch, SettleWith, Retries,
        OwnCancellation, Code, Holding, StreamOpen, Awaits, stopVars, attemptVars,
        contractVars
  <2> QED BY <2>1, <2>2, <2>3, <2>4, <2>5, <2>6, <2>7, <2>8 DEF SupervisorInv,
      SupervisorTypeOK
<1>13. CASE BackoffOver
  BY <1>13 DEF SupervisorInv, SupervisorTypeOK, FlagsOK, ValuesOK, LeaseSound, SignalsSound,
      ErrorSound, SessionFresh, CleanupSound, CancelSound, BackoffOver, Code,
      Places, Awaits, Continuations, Holding, StreamOpen, stopVars, attemptVars,
      contractVars
<1>14. CASE BackoffCancelled
  BY <1>14 DEF SupervisorInv, SupervisorTypeOK, FlagsOK, ValuesOK, LeaseSound, SignalsSound,
      ErrorSound, SessionFresh, CleanupSound, CancelSound, BackoffCancelled,
      SettleWith, OwnCancellation, Code, Places, Awaits, Continuations, Holding,
      StreamOpen, stopVars, attemptVars, contractVars
<1>15. CASE Loop
  BY <1>15 DEF SupervisorInv, SupervisorTypeOK, FlagsOK, ValuesOK, LeaseSound, SignalsSound,
      ErrorSound, SessionFresh, CleanupSound, CancelSound, Loop, Code, Places,
      Awaits, Continuations, Holding, StreamOpen, stopVars, attemptVars,
      contractVars
<1>16. CASE Report
  <2>1. FlagsOK'
    BY <1>16 DEF SupervisorInv, SupervisorTypeOK, FlagsOK, Report, SettleWith, stopVars,
        attemptVars, contractVars
  <2>2. ValuesOK'
    <3>1. faults' \subseteq {"source", "attempt", "cleanup", "session", "report"}
      BY <1>16 DEF Report, SupervisorInv, SupervisorTypeOK, ValuesOK
    <3> QED
      BY <3>1, <1>16 DEF SupervisorInv, SupervisorTypeOK, ValuesOK, Report, SettleWith, Code,
          Places, Awaits, Continuations, stopVars, attemptVars, contractVars
  <2>3. LeaseSound'
    BY <1>16 DEF SupervisorInv, LeaseSound, Report, SettleWith, Holding, Awaits,
        stopVars, attemptVars, contractVars
  <2>4. SignalsSound'
    BY <1>16 DEF SupervisorInv, SupervisorTypeOK, ValuesOK, LeaseSound, SignalsSound, Report,
        SettleWith, Code, Holding, StreamOpen, Awaits, stopVars, attemptVars,
        contractVars
  <2>5. ErrorSound'
    BY <1>16 DEF SupervisorInv, SupervisorTypeOK, ValuesOK, ErrorSound, Report, SettleWith,
        Code, Awaits, stopVars, attemptVars, contractVars
  <2>6. SessionFresh'
    BY <1>16 DEF SupervisorInv, LeaseSound, SignalsSound, ErrorSound, SessionFresh,
        SupervisorTypeOK, ValuesOK, Report, SettleWith, Code, StreamOpen, Awaits, stopVars,
        attemptVars, contractVars
  <2>7. CleanupSound'
    BY <1>16 DEF SupervisorInv, ErrorSound, CleanupSound, Report, SettleWith,
        Awaits, stopVars, attemptVars, contractVars
  <2>8. CancelSound'
    BY <1>16 DEF SupervisorInv, SupervisorTypeOK, ValuesOK, LeaseSound, SignalsSound,
        ErrorSound, SessionFresh, CancelSound, Report, SettleWith, Code, Holding,
        StreamOpen, Awaits, stopVars, attemptVars, contractVars
  <2> QED BY <2>1, <2>2, <2>3, <2>4, <2>5, <2>6, <2>7, <2>8 DEF SupervisorInv,
      SupervisorTypeOK
<1>17. CASE StopTask
  <2>1. FlagsOK'
    BY <1>17 DEF SupervisorInv, SupervisorTypeOK, FlagsOK, StopTask, Aborts, LeaseEnds,
        stopVars, attemptVars, contractVars
  <2>2. ValuesOK'
    BY <1>17 DEF SupervisorInv, SupervisorTypeOK, ValuesOK, StopTask, Aborts, LeaseEnds,
        Code, Places, Awaits, Continuations, stopVars, attemptVars, contractVars
  <2>3. LeaseSound'
    BY <1>17 DEF SupervisorInv, LeaseSound, StopTask, Aborts, LeaseEnds, Holding,
        Awaits, stopVars, attemptVars, contractVars
  <2>4. SignalsSound'
    BY <1>17 DEF SupervisorInv, SupervisorTypeOK, ValuesOK, LeaseSound, SignalsSound,
        StopTask, Aborts, LeaseEnds, Code, Holding, StreamOpen, Awaits, stopVars,
        attemptVars, contractVars
  <2>5. ErrorSound'
    BY <1>17 DEF SupervisorInv, SupervisorTypeOK, ValuesOK, ErrorSound, StopTask, Aborts,
        LeaseEnds, Code, Awaits, stopVars, attemptVars, contractVars
  <2>6. SessionFresh'
    BY <1>17 DEF SupervisorInv, LeaseSound, SignalsSound, ErrorSound, SessionFresh,
        SupervisorTypeOK, ValuesOK, StopTask, Aborts, LeaseEnds, Code, StreamOpen, Awaits,
        stopVars, attemptVars, contractVars
  <2>7. CleanupSound'
    BY <1>17 DEF SupervisorInv, ErrorSound, CleanupSound, StopTask, Aborts,
        LeaseEnds, Awaits, stopVars, attemptVars, contractVars
  <2>8. CancelSound'
    BY <1>17 DEF SupervisorInv, SupervisorTypeOK, ValuesOK, LeaseSound, SignalsSound,
        ErrorSound, SessionFresh, CancelSound, StopTask, Aborts, LeaseEnds, Code,
        Holding, StreamOpen, Awaits, stopVars, attemptVars, contractVars
  <2> QED BY <2>1, <2>2, <2>3, <2>4, <2>5, <2>6, <2>7, <2>8 DEF SupervisorInv,
      SupervisorTypeOK
<1>18. CASE UNCHANGED supervisorVars
  BY <1>18 DEF SupervisorInv, SupervisorTypeOK, FlagsOK, ValuesOK, LeaseSound, SignalsSound,
      ErrorSound, SessionFresh, CleanupSound, CancelSound, Code, Places, Awaits,
      Continuations, Holding, StreamOpen, supervisorVars, stopVars, attemptVars, contractVars
<1> QED BY <1>1, <1>2, <1>3, <1>4, <1>5, <1>6, <1>7, <1>8, <1>9, <1>10, <1>11,
    <1>12, <1>13, <1>14, <1>15, <1>16, <1>17, <1>18 DEF SupervisorNext, Attempt, Supervise

\* The supervisor starts in the invariant, cancelled or not.
LEMMA SupervisorStart == SupervisorInit => SupervisorInv
<1> SUFFICES ASSUME SupervisorInit PROVE SupervisorInv OBVIOUS
<1>1. FlagsOK BY DEF SupervisorInit, ContractInit, FlagsOK
<1>2. ValuesOK
  BY RetriesAssumption DEF SupervisorInit, ContractInit, ValuesOK, Code, Places, Awaits, Continuations
<1>3. LeaseSound /\ SignalsSound /\ SessionFresh
  BY DEF SupervisorInit, ContractInit, LeaseSound, SignalsSound, SessionFresh, Holding, StreamOpen
<1>4. ErrorSound /\ CleanupSound /\ CancelSound
  BY DEF SupervisorInit, ContractInit, ErrorSound, CleanupSound, CancelSound, Code
<1> QED BY <1>1, <1>2, <1>3, <1>4 DEF SupervisorInv, SupervisorTypeOK

\* The invariant holds of every behaviour.
THEOREM SupervisorInvariant == SupervisorSpec => []SupervisorInv
<1>1. SupervisorInit => SupervisorInv BY SupervisorStart
<1>2. SupervisorInv /\ [SupervisorNext]_supervisorVars => SupervisorInv' BY SupervisorStep
<1> QED BY <1>1, <1>2, PTL DEF SupervisorSpec

\* Every variable of the supervisor keeps its type.
THEOREM SupervisorTypeCorrect == SupervisorSpec => []SupervisorTypeOK
<1>1. SupervisorInv => SupervisorTypeOK BY DEF SupervisorInv
<1> QED BY <1>1, SupervisorInvariant, PTL

\* An attempt has given its leases back before the next begins and before done settles.
THEOREM AttemptsNeverOverlap == SupervisorSpec => []AttemptsDoNotOverlap
<1>1. SupervisorInv => AttemptsDoNotOverlap
  BY DEF SupervisorInv, LeaseSound, AttemptsDoNotOverlap, Holding
<1> QED BY <1>1, SupervisorInvariant, PTL

\* Whenever stop() came, a failed cleanup is what done rejects with.
THEOREM CleanupAlwaysReported == SupervisorSpec => []CleanupFailureReported
<1>1. SupervisorInv => CleanupFailureReported
  BY DEF SupervisorInv, ErrorSound, CleanupSound, CleanupFailureReported
<1> QED BY <1>1, SupervisorInvariant, PTL

\* A caller that aborts while an attempt is made, waited for or has failed sees done
\* reject, whenever it also stops; one that aborts in a session never sees the stop
\* reported that met none.  An abort while a stop is being reported is left open.
THEOREM CancellationAlwaysRejects == SupervisorSpec => []ExternalCancellationRejects
<1>1. SupervisorInv => ExternalCancellationRejects
  BY DEF SupervisorInv, CancelSound, ExternalCancellationRejects
<1> QED BY <1>1, SupervisorInvariant, PTL

\* Only the end of an await or of a wait brings the supervisor to another place, and
\* each looks at the signals before it begins something.
LEMMA BeginsUncancelled ==
  ASSUME SupervisorInv, [SupervisorNext]_supervisorVars, aborted, at' # at
  PROVE  at' \notin {"prepare", "acquire", "activate", "open", "mark"}
<1>1. CASE StepSettles
  BY <1>1 DEF SupervisorInv, LeaseSound, SignalsSound, StepSettles, Reject, Checked,
    SignalsAborted, After, Awaits, Holding, StreamOpen
<1>2. CASE StepFails \/ Cleaned \/ Opened \/ SessionDone \/ ReleaseSettles
  BY <1>2 DEF StepFails, Reject, Cleaned, Opened, SessionDone, ReleaseSettles
<1>3. CASE Catch \/ BackoffOver \/ BackoffCancelled \/ Loop \/ Report
  BY <1>3 DEF Catch, BackoffOver, BackoffCancelled, Loop, Report, SettleWith
<1>4. CASE ExternalAbort \/ LeaseLost \/ SourceFails \/ StopCalled \/ StopTask \/ Session
  BY <1>4 DEF ExternalAbort, LeaseLost, SourceFails, StopCalled, StopTask, Session
<1>5. CASE UNCHANGED supervisorVars BY <1>5 DEF supervisorVars
<1> QED BY <1>1, <1>2, <1>3, <1>4, <1>5 DEF SupervisorNext, Attempt, Supervise

\* Once cancelled the supervisor begins nothing that leaves a trace.
THEOREM NothingBegins == SupervisorSpec => NothingBeginsOnceCancelled
<1>1. SupervisorInv /\ [SupervisorNext]_supervisorVars =>
        [aborted /\ at' # at =>
           at' \notin {"prepare", "acquire", "activate", "open", "mark"}]_supervisorVars
  BY BeginsUncancelled
<1> QED BY <1>1, SupervisorInvariant, PTL DEF SupervisorSpec, NothingBeginsOnceCancelled
=============================================================================
