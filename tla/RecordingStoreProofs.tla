------------------------ MODULE RecordingStoreProofs ------------------------
(***************************************************************************)
(* Theorems about RecordingStore, for all values of its constants: types,  *)
(* stored history that replays and cache entries that agree with it, the   *)
(* settled binding, and that the store implements CommittedHistory; then   *)
(* fencing: one writer at a time, and no way back for a fenced claim, for  *)
(* any number of sessions, workers and recordings.                         *)
(***************************************************************************)
EXTENDS RecordingStore, TLAPS, SequenceTheorems

USE DEF Position, NoPosition

-----------------------------------------------------------------------------
(* Replay *)

\* Replaying well-formed transactions over a well-formed baseline gives a state.
LEMMA ReplayType ==
  ASSUME NEW base \in State, NEW ts \in Seq(Transaction)
  PROVE  Replay(base, ts) \in State
<1>1. ts # << >> => ts[Len(ts)] \in Transaction
  OBVIOUS
<1>2. ts # << >> => ts[Len(ts)].position \in Position
  BY <1>1 DEF Transaction
<1>3. base.position \in Position
  BY DEF State
<1> QED
  BY <1>2, <1>3 DEF Replay, State

\* Applying a transaction to a state gives a state.
LEMMA ApplyType ==
  ASSUME NEW state \in State, NEW t \in Transaction
  PROVE  Apply(state, t) \in State
  BY ChangesAssumption DEF Apply, State, Transaction

\* The head an append works from is a state, cached or not.
LEMMA LoadType ==
  ASSUME TypeOK, NEW c \in Connections, NEW r \in Recordings,
         info[r] # Absent, Published(info[r])
  PROVE  Load(c, r) \in State
<1>1. info[r] \in Info /\ info[r].baseline \in Position
  BY DEF TypeOK, Published, Info
<1>2. [position |-> info[r].baseline, rows |-> rows[r]] \in State
  BY <1>1 DEF TypeOK, State
<1>3. Stored(r) \in State
  BY <1>2, ReplayType DEF Stored, TypeOK
<1>4. CacheHit(c, r) => cache[c].state \in State
  BY DEF CacheHit, TypeOK, Entry
<1> QED
  BY <1>3, <1>4 DEF Load

\* A remembered head is a cache entry.
LEMMA RememberedType ==
  ASSUME NEW r \in Recordings, NEW i \in Info, NEW state \in State
  PROVE  Remembered(r, i, state) \in Entry
  BY DEF Remembered, Entry

\* A commit keeps every cache well formed.
LEMMA CommitType ==
  ASSUME TypeOK, NEW c \in Connections, NEW entry \in Entry \union {NoEntry},
         Commit(c, entry)
  PROVE  cache' \in [Connections -> Entry \union {NoEntry}]
<1> SUFFICES ASSUME NEW d \in Connections, d # c, cache[d] # NoEntry
             PROVE  [cache[d] EXCEPT !.current = FALSE] \in Entry
  BY DEF Commit
<1>1. cache[d] \in Entry
  BY DEF TypeOK
<1> QED
  BY <1>1 DEF Entry

-----------------------------------------------------------------------------
(* Type correctness, action by action *)

\* The initial values have their types.
LEMMA InitType == Init => TypeOK
<1> SUFFICES ASSUME Init PROVE TypeOK
  OBVIOUS
<1>1. NoToken \in Token
  BY GenerationAssumption DEF NoToken, Token
<1>2. sessions \in [Sessions -> Session]
  BY <1>1 DEF Init, Session, Phase
<1>3. /\ transactions \in [Recordings -> Seq(Transaction)]
      /\ queue \in [Connections -> Seq(Request)]
  BY DEF Init
<1> QED
  BY <1>2, <1>3 DEF Init, TypeOK

\* Creating a recording keeps the types.
LEMMA CreateType ==
  ASSUME TypeOK, NEW c \in Connections, NEW r \in Recordings, NEW name \in Names,
         Create(c, r, name)
  PROVE  TypeOK'
<1>1. cache' \in [Connections -> Entry \union {NoEntry}]
  BY CommitType DEF Create, TypeOK
<1>2. info' \in [Recordings -> Info \union {Absent}]
  BY DEF Create, TypeOK, Info, Status
<1> QED
  BY <1>1, <1>2 DEF Create, TypeOK, Callers

\* So does renaming it,
LEMMA RenameType ==
  ASSUME TypeOK, NEW c \in Connections, NEW r \in Recordings, NEW name \in Names,
         Rename(c, r, name)
  PROVE  TypeOK'
<1>1. cache' \in [Connections -> Entry \union {NoEntry}]
  BY CommitType DEF Rename, TypeOK
<1>2. info[r] \in Info
  BY DEF Rename, TypeOK
<1>3. [info[r] EXCEPT !.name = name] \in Info
  BY <1>2 DEF Info
<1>4. info' \in [Recordings -> Info \union {Absent}]
  BY <1>3 DEF Rename, TypeOK
<1> QED
  BY <1>1, <1>4 DEF Rename, TypeOK, Callers

\* staging its baseline,
LEMMA StageType ==
  ASSUME TypeOK, NEW c \in Connections, NEW r \in Recordings,
         NEW batch \in SUBSET Rows, StageBaseline(c, r, batch)
  PROVE  TypeOK'
<1>1. cache' \in [Connections -> Entry \union {NoEntry}]
  BY CommitType DEF StageBaseline, TypeOK
<1>2. rows' \in [Recordings -> SUBSET Rows]
  BY DEF StageBaseline, TypeOK
<1> QED
  BY <1>1, <1>2 DEF StageBaseline, TypeOK, Callers

\* What publication stores and remembers.
LEMMA PublishedType ==
  ASSUME TypeOK, NEW r \in Recordings, NEW p \in Position, info[r] # Absent
  PROVE  PublishedInfo(r, p) \in Info /\ PublishedEntry(r, p) \in Entry
<1>1. info[r] \in Info /\ rows[r] \in SUBSET Rows
  BY DEF TypeOK
<1>2. PublishedInfo(r, p) \in Info
  BY <1>1 DEF PublishedInfo, Info, Status
<1>3. [position |-> p, rows |-> rows[r]] \in State
  BY <1>1 DEF State
<1> QED
  BY <1>2, <1>3, RememberedType DEF PublishedEntry

\* publishing it, also when the commit fails,
LEMMA PublishType ==
  ASSUME TypeOK, NEW c \in Connections, NEW r \in Recordings, NEW p \in Position,
         PublishBaseline(c, r, p) \/ PublishBaselineFails(c, r, p)
  PROVE  TypeOK'
<1>1. info[r] # Absent
  BY DEF PublishBaseline, PublishBaselineFails
<1>2. PublishedInfo(r, p) \in Info /\ PublishedEntry(r, p) \in Entry
  BY <1>1, PublishedType
<1>3. CASE PublishBaseline(c, r, p)
  <2>1. cache' \in [Connections -> Entry \union {NoEntry}]
    BY <1>2, <1>3, CommitType DEF PublishBaseline
  <2>2. info' \in [Recordings -> Info \union {Absent}]
    BY <1>2, <1>3 DEF PublishBaseline, TypeOK
  <2> QED
    BY <1>3, <2>1, <2>2 DEF PublishBaseline, TypeOK, Callers
<1>4. CASE PublishBaselineFails(c, r, p)
  <2>1. cache' \in [Connections -> Entry \union {NoEntry}]
    BY <1>2, <1>4 DEF PublishBaselineFails, Abandon, TypeOK
  <2> QED
    BY <1>4, <2>1 DEF PublishBaselineFails, Abandon, tables, TypeOK, Callers
<1> QED
  BY <1>3, <1>4

\* binding it to a source,
LEMMA BindType ==
  ASSUME TypeOK, NEW c \in Connections, NEW r \in Recordings, NEW b \in Bindings,
         BindCapture(c, r, b)
  PROVE  TypeOK'
<1>1. cache' \in [Connections -> Entry \union {NoEntry}]
  BY CommitType DEF BindCapture, TypeOK
<1>2. bindings' \in [Recordings -> Bindings \union {NoBinding}]
  BY DEF BindCapture, TypeOK
<1> QED
  BY <1>1, <1>2 DEF BindCapture, TypeOK, Callers

\* and removing it.
LEMMA RemoveType ==
  ASSUME TypeOK, NEW c \in Connections, NEW r \in Recordings,
         Remove(c, r) \/ RemoveFails(c, r)
  PROVE  TypeOK'
<1>1. CASE Remove(c, r)
  <2>1. cache' \in [Connections -> Entry \union {NoEntry}]
    BY <1>1, CommitType DEF Remove
  <2>2. transactions' \in [Recordings -> Seq(Transaction)]
    BY <1>1 DEF Remove, TypeOK
  <2> QED
    BY <1>1, <2>1, <2>2 DEF Remove, TypeOK, Callers
<1>2. CASE RemoveFails(c, r)
  BY <1>2 DEF RemoveFails, Abandon, tables, TypeOK, Callers
<1> QED
  BY <1>1, <1>2

\* The conjuncts of TypeOK about the file and the caches, and about callers.
StoreTypeOK ==
  /\ info         \in [Recordings -> Info \union {Absent}]
  /\ rows         \in [Recordings -> SUBSET Rows]
  /\ transactions \in [Recordings -> Seq(Transaction)]
  /\ owners       \in [Recordings -> Owner \union {NoOwner}]
  /\ bindings     \in [Recordings -> Bindings \union {NoBinding}]
  /\ cache        \in [Connections -> Entry \union {NoEntry}]

\* And what their callers hold.
CallersTypeOK ==
  /\ queue        \in [Connections -> Seq(Request)]
  /\ sessions     \in [Sessions -> Session]
  /\ incarnations \in Nat

\* Together they are the types of all variables.
LEMMA TypeSplit == TypeOK <=> StoreTypeOK /\ CallersTypeOK
  BY DEF TypeOK, StoreTypeOK, CallersTypeOK

\* What an append stores and remembers.
LEMMA AppendedType ==
  ASSUME TypeOK, NEW c \in Connections, NEW r \in Recordings,
         NEW t \in Transaction, info[r] # Absent, Published(info[r])
  PROVE  AppendedInfo(r, t) \in Info /\ AppendedEntry(c, r, t) \in Entry
<1>1. info[r] \in Info
  BY DEF TypeOK
<1>2. t.position \in Position
  BY DEF Transaction
<1>3. info[r].count + 1 \in Nat
  BY <1>1 DEF Info
<1>4. AppendedInfo(r, t) =
        [[info[r] EXCEPT !.head = t.position] EXCEPT !.count = info[r].count + 1]
  BY <1>1 DEF AppendedInfo, Info
<1>5. AppendedInfo(r, t) \in Info
  BY <1>1, <1>2, <1>3, <1>4 DEF Info
<1>6. Apply(Load(c, r), t) \in State
  BY LoadType, ApplyType
<1> QED
  BY <1>5, <1>6, RememberedType DEF AppendedEntry

\* An append keeps the types, stored, failed, redelivered or refused.
LEMMA AppendType ==
  ASSUME TypeOK, NEW c \in Connections, NEW r \in Recordings, NEW token,
         NEW t \in Transaction,
         \/ WriterAppend(c, r, token, t)
         \/ WriterAppendFails(c, r, token, t)
         \/ WriterAppendDuplicate(c, r, token, t)
         \/ WriterAppendRefused(c, r, token, t)
  PROVE  StoreTypeOK'
<1>1. info[r] # Absent /\ Published(info[r])
  BY DEF WriterAppend, WriterAppendFails,
      WriterAppendDuplicate, WriterAppendRefused, Appends, Appendable
<1>2. AppendedInfo(r, t) \in Info /\ AppendedEntry(c, r, t) \in Entry
  BY <1>1, AppendedType
<1>3. CASE WriterAppend(c, r, token, t)
  <2>1. cache' \in [Connections -> Entry \union {NoEntry}]
    BY <1>2, <1>3, CommitType DEF WriterAppend
  <2>2. info' \in [Recordings -> Info \union {Absent}]
    BY <1>2, <1>3 DEF WriterAppend, TypeOK
  <2>3. transactions' \in [Recordings -> Seq(Transaction)]
    BY <1>3 DEF WriterAppend, TypeOK
  <2> QED
    BY <1>3, <2>1, <2>2, <2>3 DEF WriterAppend, TypeOK, StoreTypeOK
<1>4. CASE WriterAppendFails(c, r, token, t)
  BY <1>2, <1>4 DEF WriterAppendFails, Abandon, tables, TypeOK, StoreTypeOK
<1>5. CASE WriterAppendDuplicate(c, r, token, t) \/ WriterAppendRefused(c, r, token, t)
  <2>1. Loaded(c, r) \in Entry
    BY <1>1, LoadType, RememberedType DEF Loaded, TypeOK
  <2> QED
    BY <2>1, <1>5 DEF WriterAppendDuplicate, WriterAppendRefused, Abandon, tables, TypeOK,
      StoreTypeOK
<1> QED
  BY <1>3, <1>4, <1>5

\* So does a status.
LEMMA SetStatusType ==
  ASSUME TypeOK, NEW c \in Connections, NEW r \in Recordings, NEW token,
         NEW s \in Status, WriterSetStatus(c, r, token, s)
  PROVE  StoreTypeOK'
<1>1. cache' \in [Connections -> Entry \union {NoEntry}]
  BY CommitType DEF WriterSetStatus, TypeOK
<1>2. info[r] \in Info
  BY DEF WriterSetStatus, TypeOK
<1>3. [info[r] EXCEPT !.status = s] \in Info
  BY <1>2 DEF Info
<1>4. info' \in [Recordings -> Info \union {Absent}]
  BY <1>3 DEF WriterSetStatus, TypeOK
<1> QED
  BY <1>1, <1>4 DEF WriterSetStatus, TypeOK, StoreTypeOK

\* And so do both without a token.
LEMMA PlainWriteType ==
  ASSUME TypeOK, NEW c \in Connections, NEW r \in Recordings, PlainWrite(c, r)
  PROVE  TypeOK'
<1>1. StoreTypeOK'
  BY AppendType, SetStatusType DEF PlainWrite
<1>2. CallersTypeOK'
  BY DEF PlainWrite, Callers, TypeOK, CallersTypeOK
<1> QED
  BY <1>1, <1>2 DEF TypeOK, StoreTypeOK, CallersTypeOK

\* Every operation without a session keeps the types.
LEMMA OperationType ==
  ASSUME TypeOK, NEW c \in Connections, NEW r \in Recordings, Operation(c, r)
  PROVE  TypeOK'
  BY CreateType, RenameType, StageType, PublishType, BindType, RemoveType,
     PlainWriteType DEF Operation

\* A phase change keeps the sessions well formed.
LEMMA EnterType ==
  ASSUME TypeOK, NEW s \in Sessions, NEW phase \in Phase, Enter(s, phase)
  PROVE  sessions' \in [Sessions -> Session]
<1>1. sessions[s] \in Session
  BY DEF TypeOK
<1>2. [sessions[s] EXCEPT !.phase = phase] \in Session
  BY <1>1 DEF Session
<1> QED
  BY <1>2 DEF Enter, TypeOK

\* So does sending a request for the queues.
LEMMA SendType ==
  ASSUME TypeOK, NEW s \in Sessions,
         NEW method \in {"prepareRecording", "activateRecording", "fencedAppend",
                         "fencedSetStatus", "releaseRecording"},
         Send(s, method)
  PROVE  queue' \in [Connections -> Seq(Request)]
<1>1. [session |-> s, method |-> method] \in Request
  BY DEF Request
<1>2. Connection(s) \in Connections
  BY ConnectionOfAssumption DEF Connection
<1> QED
  BY <1>1, <1>2 DEF Send, TypeOK

\* So does every request that is sent.
LEMMA CallerType ==
  ASSUME TypeOK, NEW s \in Sessions, Caller(s)
  PROVE  TypeOK'
<1>1. /\ sessions' \in [Sessions -> Session]
      /\ queue' \in [Connections -> Seq(Request)]
  BY EnterType, SendType
  DEF Caller, PrepareRecording, Activate, LeaseWrite, CloseLease, AdmitRelease,
      Phase, TypeOK
<1>2. UNCHANGED <<tables, cache, incarnations>>
  BY DEF Caller, PrepareRecording, Activate, LeaseWrite, CloseLease, AdmitRelease,
         StoreUnchanged
<1> QED
  BY <1>1, <1>2 DEF TypeOK, tables

\* The request a worker takes is a session's, and taking it keeps the queues.
LEMMA HeadType ==
  ASSUME TypeOK, NEW c \in Connections, queue[c] # << >>
  PROVE  /\ Session1(c) \in Sessions
         /\ Recording(Session1(c)) \in Recordings
         /\ sessions[Session1(c)].token \in Token
         /\ Done(c) => queue' \in [Connections -> Seq(Request)]
<1>1. queue[c] \in Seq(Request)
  BY DEF TypeOK
<1>2. Head(queue[c]) \in Request /\ Tail(queue[c]) \in Seq(Request)
  BY <1>1
<1>3. Session1(c) \in Sessions
  BY <1>2 DEF Session1, Request
<1>4. sessions[Session1(c)] \in Session
  BY <1>3 DEF TypeOK
<1> QED
  BY <1>2, <1>3, <1>4 DEF Done, TypeOK, Recording, Session

\* What a reservation stores.
LEMMA ReservedType ==
  ASSUME TypeOK, NEW r \in Recordings,
         owners[r] # NoOwner => owners[r].generation < MaxGeneration
  PROVE  /\ Reserved(r) \in Owner
         /\ [incarnation |-> Reserved(r).incarnation,
             generation  |-> Reserved(r).generation] \in Token
<1>1. CASE owners[r] = NoOwner
  <2>1. Reserved(r) = [kind |-> "owned", incarnation |-> incarnations + 1,
                       generation |-> 1, owner |-> 0, active |-> FALSE]
    BY <1>1 DEF Reserved
  <2>2. incarnations + 1 \in Nat \ {0}
    BY DEF TypeOK
  <2> QED
    BY <2>1, <2>2, GenerationAssumption DEF Owner, Token
<1>2. CASE owners[r] # NoOwner
  <2>1. owners[r] \in Owner
    BY <1>2 DEF TypeOK
  <2>2. Reserved(r) = [owners[r] EXCEPT !.generation = owners[r].generation + 1]
    BY <1>2, <2>1 DEF Reserved, Owner
  <2>3. owners[r].generation + 1 \in 1 .. MaxGeneration
    BY <1>2, <2>1, GenerationAssumption DEF Owner
  <2>4. /\ Reserved(r) \in Owner
        /\ Reserved(r).incarnation = owners[r].incarnation
        /\ Reserved(r).generation = owners[r].generation + 1
    BY <2>1, <2>2, <2>3 DEF Owner
  <2> QED
    BY <2>1, <2>3, <2>4, GenerationAssumption DEF Owner, Token
<1> QED
  BY <1>1, <1>2

\* So does a worker that reserves a generation,
LEMMA PrepareType ==
  ASSUME TypeOK, NEW c \in Connections, Prepare(c)
  PROVE  TypeOK'
<1> DEFINE s == Session1(c)
           r == Recording(s)
           token == [incarnation |-> Reserved(r).incarnation,
                     generation  |-> Reserved(r).generation]
<1>1. /\ s \in Sessions
      /\ r \in Recordings
      /\ queue' \in [Connections -> Seq(Request)]
  BY HeadType DEF Prepare, Next1
<1>2. cache' \in [Connections -> Entry \union {NoEntry}]
  BY CommitType DEF Prepare, TypeOK
<1>3. Reserved(r) \in Owner /\ token \in Token
  BY <1>1, ReservedType DEF Prepare
<1>4. owners' \in [Recordings -> Owner \union {NoOwner}]
  BY <1>1, <1>3 DEF Prepare, TypeOK
<1>5. sessions' \in [Sessions -> Session]
  <2>1. sessions[s] \in Session
    BY <1>1 DEF TypeOK
  <2>2. [[sessions[s] EXCEPT !.phase = "claimed"] EXCEPT !.token = token] \in Session
    BY <2>1, <1>3 DEF Session, Phase
  <2>3. sessions' = [sessions EXCEPT ![s] =
                       [[sessions[s] EXCEPT !.phase = "claimed"] EXCEPT !.token = token]]
    BY <1>1, <2>1 DEF Prepare, TypeOK, Session
  <2> QED
    BY <2>2, <2>3 DEF TypeOK
<1>6. incarnations' \in Nat
  BY DEF Prepare, TypeOK
<1> QED
  BY <1>1, <1>2, <1>4, <1>5, <1>6 DEF Prepare, TypeOK

\* activates a claim,
LEMMA ActivateType ==
  ASSUME TypeOK, NEW c \in Connections, ActivateClaim(c)
  PROVE  TypeOK'
<1> DEFINE s == Session1(c)
           r == Recording(s)
<1>1. /\ s \in Sessions
      /\ r \in Recordings
      /\ sessions[s].token \in Token
      /\ queue' \in [Connections -> Seq(Request)]
  BY HeadType DEF ActivateClaim, Next1
<1>2. cache' \in [Connections -> Entry \union {NoEntry}]
  BY CommitType DEF ActivateClaim, TypeOK
<1>3. sessions' \in [Sessions -> Session]
  BY <1>1, EnterType DEF ActivateClaim, Phase
<1>4. owners' \in [Recordings -> Owner \union {NoOwner}]
  <2>1. owners[r] \in Owner
    BY <1>1 DEF ActivateClaim, MayActivate, TypeOK
  <2>2. [[owners[r] EXCEPT !.owner = sessions[s].token.generation]
           EXCEPT !.active = TRUE] \in Owner
    BY <1>1, <2>1 DEF Owner, Token
  <2>3. owners' = [owners EXCEPT ![r] =
                     [[owners[r] EXCEPT !.owner = sessions[s].token.generation]
                        EXCEPT !.active = TRUE]]
    BY <1>1, <2>1 DEF ActivateClaim, TypeOK, Owner
  <2> QED
    BY <2>2, <2>3 DEF TypeOK
<1> QED
  BY <1>1, <1>2, <1>3, <1>4 DEF ActivateClaim, TypeOK

\* runs a write of a lease,
LEMMA FencedWriteType ==
  ASSUME TypeOK, NEW c \in Connections, FencedAppend(c) \/ FencedSetStatus(c)
  PROVE  TypeOK'
<1>1. /\ Session1(c) \in Sessions
      /\ Recording(Session1(c)) \in Recordings
      /\ queue' \in [Connections -> Seq(Request)]
  BY HeadType DEF FencedAppend, FencedSetStatus, Next1
<1>2. StoreTypeOK'
  BY <1>1, AppendType, SetStatusType DEF FencedAppend, FencedSetStatus
<1>3. sessions' = sessions /\ incarnations' = incarnations
  BY DEF FencedAppend, FencedSetStatus
<1> QED
  BY <1>1, <1>2, <1>3 DEF TypeOK, StoreTypeOK

\* releases it,
LEMMA ReleaseType ==
  ASSUME TypeOK, NEW c \in Connections, Release(c)
  PROVE  TypeOK'
<1> DEFINE s == Session1(c)
           r == Recording(s)
<1>1. /\ s \in Sessions
      /\ r \in Recordings
      /\ queue' \in [Connections -> Seq(Request)]
  BY HeadType DEF Release, Next1
<1>2. cache' \in [Connections -> Entry \union {NoEntry}]
  BY CommitType DEF Release, TypeOK
<1>3. sessions' \in [Sessions -> Session]
  BY <1>1, EnterType DEF Release, Phase
<1>4. Released(r, sessions[s].token) \in Owner \union {NoOwner}
  <2>1. owners[r] \in Owner \union {NoOwner}
    BY <1>1 DEF TypeOK
  <2>2. owners[r] \in Owner => [owners[r] EXCEPT !.active = FALSE] \in Owner
    BY DEF Owner
  <2> QED
    BY <2>1, <2>2 DEF Released
<1>5. owners' \in [Recordings -> Owner \union {NoOwner}]
  BY <1>1, <1>4 DEF Release, TypeOK
<1> QED
  BY <1>1, <1>2, <1>3, <1>5 DEF Release, TypeOK

\* refuses a request,
LEMMA RequestFailsType ==
  ASSUME TypeOK, NEW c \in Connections, RequestFails(c)
  PROVE  TypeOK'
<1>1. Session1(c) \in Sessions /\ queue' \in [Connections -> Seq(Request)]
  BY HeadType DEF RequestFails
<1>2. sessions' \in [Sessions -> Session]
  BY <1>1, EnterType DEF RequestFails, Phase, TypeOK
<1> QED
  BY <1>1, <1>2 DEF RequestFails, StoreUnchanged, tables, TypeOK

\* or dies.
LEMMA CrashType ==
  ASSUME TypeOK, NEW c \in Connections, Crash(c)
  PROVE  TypeOK'
<1>1. sessions' \in [Sessions -> Session]
  <2> SUFFICES ASSUME NEW s \in Sessions
               PROVE  [sessions[s] EXCEPT !.phase = "closed"] \in Session
    BY DEF Crash, TypeOK
  <2>1. sessions[s] \in Session
    BY DEF TypeOK
  <2> QED
    BY <2>1 DEF Session, Phase
<1>2. queue' \in [Connections -> Seq(Request)]
  BY DEF Crash, TypeOK
<1>3. cache' \in [Connections -> Entry \union {NoEntry}]
  BY DEF Crash, TypeOK
<1> QED
  BY <1>1, <1>2, <1>3 DEF Crash, tables, TypeOK

\* Every step of a worker keeps the types.
LEMMA WorkerType ==
  ASSUME TypeOK, NEW c \in Connections, Worker(c)
  PROVE  TypeOK'
  BY PrepareType, ActivateType, FencedWriteType, ReleaseType, RequestFailsType,
     CrashType DEF Worker

\* Every step keeps the types.
LEMMA TypeStep == TypeOK /\ [Next]_vars => TypeOK'
<1> SUFFICES ASSUME TypeOK, [Next]_vars PROVE TypeOK'
  OBVIOUS
<1>1. CASE UNCHANGED vars
  BY <1>1 DEF vars, TypeOK
<1>2. CASE Next
  BY <1>2, OperationType, CallerType, WorkerType DEF Next
<1> QED
  BY <1>1, <1>2

\* The variables of the store keep their types under every operation, every
\* interleaving of sessions and workers, failures and crashes.
THEOREM TypeCorrect == Spec => []TypeOK
  BY InitType, TypeStep, PTL DEF Spec

-----------------------------------------------------------------------------
(* Replay is the fold of Apply                                              *)

\* What a longer sequence holds of a shorter one.
LEMMA Prefixes ==
  ASSUME NEW S, NEW ts \in Seq(S)
  PROVE  /\ SubSeq(ts, 1, 0) = << >> /\ SubSeq(ts, 1, Len(ts)) = ts
         /\ \A t \in S : \A i \in 1 .. Len(ts) + 1 :
              SubSeq(Append(ts, t), 1, i - 1) = SubSeq(ts, 1, i - 1)
         /\ \A i \in DOMAIN ts :
              /\ SubSeq(ts, 1, i - 1) \in Seq(S) /\ ts[i] \in S
              /\ SubSeq(ts, 1, i) = Append(SubSeq(ts, 1, i - 1), ts[i])
<1>1. SubSeq(ts, 1, 0) = << >> /\ SubSeq(ts, 1, Len(ts)) = ts
  OBVIOUS
<1>2. ASSUME NEW t \in S, NEW i \in 1 .. Len(ts) + 1
      PROVE  SubSeq(Append(ts, t), 1, i - 1) = SubSeq(ts, 1, i - 1)
  OBVIOUS
<1>3. ASSUME NEW i \in DOMAIN ts
      PROVE  /\ SubSeq(ts, 1, i - 1) \in Seq(S) /\ ts[i] \in S
             /\ SubSeq(ts, 1, i) = Append(SubSeq(ts, 1, i - 1), ts[i])
  OBVIOUS
<1> QED
  BY <1>1, <1>2, <1>3

\* Replaying one transaction more is applying it to the replay.
LEMMA ReplayAppend ==
  ASSUME NEW base \in State, NEW ts \in Seq(Transaction), NEW t \in Transaction
  PROVE  Replay(base, Append(ts, t)) = Apply(Replay(base, ts), t)
<1> DEFINE longer == Append(ts, t)
           n == Len(ts)
<1>1. /\ longer # << >> /\ Len(longer) = n + 1 /\ n \in Nat
      /\ DOMAIN longer = 1 .. n + 1 /\ DOMAIN ts = 1 .. n
      /\ longer[n + 1] = t /\ \A i \in 1 .. n : longer[i] = ts[i]
  OBVIOUS
<1>2. t.change.adds \subseteq Rows
  BY ChangesAssumption DEF Transaction
<1> HIDE DEF longer, n
<1>3. Replay(base, longer).position = t.position
  BY <1>1 DEF Replay
<1>4. ASSUME NEW r \in Rows
      PROVE  r \in Replay(base, longer).rows <=>
               (r \in Replay(base, ts).rows /\ r \notin t.change.removes) \/ r \in t.change.adds
  <2>1. (\A i \in DOMAIN longer : r \notin longer[i].change.removes) <=>
          (\A i \in DOMAIN ts : r \notin ts[i].change.removes) /\ r \notin t.change.removes
    BY <1>1
  <2>2. \A i \in DOMAIN ts :
          (\A j \in DOMAIN longer : j > i => r \notin longer[j].change.removes) <=>
            /\ \A j \in DOMAIN ts : j > i => r \notin ts[j].change.removes
            /\ r \notin t.change.removes
    BY <1>1
  <2>3. \A j \in DOMAIN longer : ~(j > n + 1)
    BY <1>1
  <2>4. (\E i \in DOMAIN longer :
           /\ r \in longer[i].change.adds
           /\ \A j \in DOMAIN longer : j > i => r \notin longer[j].change.removes)
        <=> \/ r \in t.change.adds
            \/ /\ r \notin t.change.removes
               /\ \E i \in DOMAIN ts :
                    /\ r \in ts[i].change.adds
                    /\ \A j \in DOMAIN ts : j > i => r \notin ts[j].change.removes
    BY <1>1, <2>2, <2>3
  <2> QED
    BY <2>1, <2>4 DEF Replay
<1>5. Replay(base, longer).rows = (Replay(base, ts).rows \ t.change.removes) \union t.change.adds
  BY <1>2, <1>4 DEF Replay
<1> QED
  BY <1>3, <1>5 DEF Apply, Replay, longer

\* Replaying nothing leaves the baseline.
LEMMA ReplayNothing ==
  ASSUME NEW base \in State
  PROVE  Replay(base, << >>) = base
  BY DEF Replay, State

\* The equations of the fold, for any baseline and transactions.
LEMMA ReplayFolds ==
  ASSUME NEW base \in State, NEW ts \in Seq(Transaction)
  PROVE  /\ Replay(base, SubSeq(ts, 1, 0)) = base
         /\ \A i \in DOMAIN ts :
              Replay(base, SubSeq(ts, 1, i)) = Apply(Replay(base, SubSeq(ts, 1, i - 1)), ts[i])
<1>1. ASSUME NEW i \in DOMAIN ts
      PROVE  Replay(base, SubSeq(ts, 1, i)) = Apply(Replay(base, SubSeq(ts, 1, i - 1)), ts[i])
  <2>1. /\ SubSeq(ts, 1, i - 1) \in Seq(Transaction) /\ ts[i] \in Transaction
        /\ SubSeq(ts, 1, i) = Append(SubSeq(ts, 1, i - 1), ts[i])
    BY Prefixes
  <2> QED
    BY <2>1, ReplayAppend
<1>2. Replay(base, SubSeq(ts, 1, 0)) = base
  BY ReplayNothing, Prefixes
<1> QED
  BY <1>1, <1>2

\* A history that replays and a transaction that applies at its end replay
\* together.
LEMMA ConsistentAppend ==
  ASSUME NEW base \in State, NEW ts \in Seq(Transaction), NEW t \in Transaction,
         Consistent(base, ts), Applies(Replay(base, ts), t)
  PROVE  Consistent(base, Append(ts, t))
<1> SUFFICES ASSUME NEW i \in DOMAIN Append(ts, t)
             PROVE  Applies(Replay(base, SubSeq(Append(ts, t), 1, i - 1)), Append(ts, t)[i])
  BY DEF Consistent
<1>1. i \in 1 .. Len(ts) + 1 /\ Len(ts) \in Nat /\ DOMAIN ts = 1 .. Len(ts)
  OBVIOUS
<1>2. SubSeq(Append(ts, t), 1, i - 1) = SubSeq(ts, 1, i - 1)
  BY <1>1, Prefixes
<1>3. CASE i = Len(ts) + 1
  <2>1. Append(ts, t)[i] = t /\ SubSeq(ts, 1, i - 1) = ts
    BY <1>3, Prefixes
  <2> QED
    BY <1>2, <2>1
<1>4. CASE i \in DOMAIN ts
  <2>1. Append(ts, t)[i] = ts[i]
    BY <1>4
  <2> QED
    BY <1>2, <1>4, <2>1 DEF Consistent
<1> QED
  BY <1>1, <1>3, <1>4

-----------------------------------------------------------------------------
(* What is stored, and what is remembered of it                             *)

\* The baseline of a published recording.
Baseline(r) == [position |-> info[r].baseline, rows |-> rows[r]]

\* The status fits the published range, and only what is published has a history,
\* which replays to its head.
RecordSound(r) ==
  IF info[r] = Absent THEN transactions[r] = << >>
  ELSE IF ~Published(info[r])
    THEN /\ info[r].status \in {"bootstrapping", "invalid"}
         /\ info[r].head = NoPosition /\ info[r].count = 0
         /\ transactions[r] = << >>
    ELSE /\ info[r].status # "bootstrapping"
         /\ Consistent(Baseline(r), transactions[r])
         /\ info[r].head = Stored(r).position
         /\ info[r].count = Len(transactions[r])
         /\ info[r].baselineRows = rows[r]

\* A remembered head that no other worker has committed since is of a recording
\* that exists; if baseline and length are still those of the history it is the
\* history's end, whatever was renamed or stopped meanwhile.  A commit that failed
\* leaves one that is a transaction too long, or published too early.
EntrySound(c) ==
  cache[c] # NoEntry /\ cache[c].current =>
    /\ info[cache[c].recording] # Absent
    /\ Published(cache[c].info)
    /\ cache[c].info.baseline = info[cache[c].recording].baseline
         /\ cache[c].info.count = info[cache[c].recording].count =>
           cache[c].state = Stored(cache[c].recording)

\* The inductive invariant of history.
HistoryInv ==
  /\ TypeOK
  /\ \A r \in Recordings : RecordSound(r)
  /\ \A c \in Connections : EntrySound(c)

\* Types of one recording and one entry.
LEMMA RecordType ==
  ASSUME TypeOK, NEW r \in Recordings
  PROVE  /\ transactions[r] \in Seq(Transaction) /\ rows[r] \in SUBSET Rows
         /\ info[r] # Absent =>
              /\ info[r] \in Info
              /\ Published(info[r]) =>
                   info[r].baseline \in Position /\ Baseline(r) \in State /\ Stored(r) \in State
<1>1. transactions[r] \in Seq(Transaction) /\ rows[r] \in SUBSET Rows
  BY DEF TypeOK
<1>2. info[r] # Absent => info[r] \in Info
  BY DEF TypeOK
<1>3. info[r] # Absent /\ Published(info[r]) => info[r].baseline \in Position
  BY <1>2 DEF Info, Published
<1>4. info[r].baseline \in Position => Baseline(r) \in State
  BY <1>1 DEF Baseline, State
<1>5. Baseline(r) \in State => Stored(r) \in State
  BY <1>1, ReplayType DEF Stored, Baseline
<1> QED
  BY <1>1, <1>2, <1>3, <1>4, <1>5

\* A head the next append would use is the end of what is stored.
LEMMA LoadStored ==
  ASSUME HistoryInv, NEW c \in Connections, NEW r \in Recordings
  PROVE  /\ CacheHit(c, r) => cache[c].state = Stored(r)
         /\ Load(c, r) = Stored(r)
<1>1. ASSUME CacheHit(c, r) PROVE cache[c].state = Stored(r)
  <2>1. cache[c] # NoEntry /\ cache[c].recording = r /\ cache[c].info = info[r] /\ cache[c].current
    BY <1>1 DEF CacheHit
  <2> QED
    BY <2>1 DEF HistoryInv, EntrySound
<1> QED
  BY <1>1 DEF Load

\* What happens to a recording leaves its history alone: its name and its status
\* may change, and what is staged before it is published.
HistoryKept(r) ==
  /\ info'[r] = Absent <=> info[r] = Absent
  /\ transactions'[r] = transactions[r]
  /\ info[r] # Absent =>
       /\ info'[r].baseline = info[r].baseline /\ info'[r].head = info[r].head
       /\ info'[r].count = info[r].count /\ info'[r].baselineRows = info[r].baselineRows
       /\ Published(info[r]) => rows'[r] = rows[r] /\ info'[r].status # "bootstrapping"
       /\ ~Published(info[r]) => info'[r].status \in {"bootstrapping", "invalid"}

\* Then it is still sound.
LEMMA KeptRecord ==
  ASSUME NEW r \in Recordings, RecordSound(r), HistoryKept(r)
  PROVE  RecordSound(r)' /\ (info[r] # Absent /\ Published(info[r]) => Stored(r)' = Stored(r))
  BY DEF RecordSound, HistoryKept, Published, Stored, Baseline

\* And so is a cache entry of it.
LEMMA KeptEntry ==
  ASSUME TypeOK, NEW c \in Connections, EntrySound(c),
         cache'[c] = cache[c],
         \A r \in Recordings : RecordSound(r) /\ HistoryKept(r)
  PROVE  EntrySound(c)'
<1> SUFFICES ASSUME cache[c] # NoEntry, cache[c].current
             PROVE  EntrySound(c)'
  BY DEF EntrySound
<1>1. cache[c] \in Entry
  BY DEF TypeOK
<1> DEFINE r == cache[c].recording
<1>2. r \in Recordings
  BY <1>1 DEF Entry
<1>3. info[r] # Absent /\ Published(cache[c].info)
  BY DEF EntrySound
<1>4. HistoryKept(r)
  BY <1>2
<1>5. Published(info[r]) => Stored(r)' = Stored(r)
  BY <1>2, <1>3, KeptRecord
<1>6. info'[r] # Absent /\ info'[r].baseline = info[r].baseline /\ info'[r].count = info[r].count
  BY <1>3, <1>4 DEF HistoryKept
<1>7. cache[c].info.baseline = info[r].baseline => Published(info[r])
  BY <1>3 DEF Published
<1> QED
  BY <1>3, <1>5, <1>6, <1>7 DEF EntrySound

\* A commit of one worker makes the other workers' entries worthless.
LEMMA OtherEntries ==
  ASSUME TypeOK, NEW c \in Connections, NEW entry, Commit(c, entry),
         NEW d \in Connections, d # c
  PROVE  EntrySound(d)'
<1>1. cache[d] \in Entry \/ cache[d] = NoEntry
  BY DEF TypeOK
<1>2. cache'[d] = NoEntry \/ ~cache'[d].current
  BY <1>1 DEF Commit, Entry
<1> QED
  BY <1>2 DEF EntrySound

\* A step that leaves every history alone, with or without a commit.
LEMMA KeptHistory ==
  ASSUME HistoryInv, TypeOK',
         \A r \in Recordings : HistoryKept(r),
         \/ cache' = cache
         \/ \E c \in Connections : Commit(c, cache[c])
         \/ \E c \in Connections : cache' = [cache EXCEPT ![c] = NoEntry]
  PROVE  HistoryInv'
<1>1. \A r \in Recordings : RecordSound(r)'
  BY KeptRecord DEF HistoryInv
<1>2. ASSUME NEW d \in Connections PROVE EntrySound(d)'
  <2>1. CASE cache'[d] = cache[d]
    BY <2>1, KeptEntry DEF HistoryInv
  <2>2. CASE cache'[d] = NoEntry
    BY <2>2 DEF EntrySound
  <2>3. CASE \E c \in Connections : Commit(c, cache[c]) /\ d # c
    BY <2>3, OtherEntries DEF HistoryInv
  <2> QED
    BY <2>1, <2>2, <2>3 DEF Commit, HistoryInv, TypeOK
<1> QED
  BY <1>1, <1>2 DEF HistoryInv

\* A write that leaves the histories alone: a name, a status, rows that are staged,
\* a binding, and whatever concerns claims and leases.
LEMMA QuietWrites ==
  ASSUME HistoryInv, TypeOK', NEW c \in Connections, NEW r \in Recordings,
         \/ \E name \in Names : Rename(c, r, name)
         \/ \E batch \in SUBSET Rows : StageBaseline(c, r, batch)
         \/ \E b \in Bindings : BindCapture(c, r, b)
         \/ \E token, s : s \in Status /\ WriterSetStatus(c, r, token, s)
  PROVE  HistoryInv'
<1>1. Commit(c, cache[c])
  BY DEF Rename, StageBaseline, BindCapture, WriterSetStatus
<1>2. info[r] # Absent /\ info[r] \in Info
  BY DEF Rename, StageBaseline, BindCapture, WriterSetStatus, HistoryInv, TypeOK
<1>3. \A q \in Recordings : RecordSound(q)
  BY DEF HistoryInv
<1>4. ASSUME NEW q \in Recordings, q # r PROVE HistoryKept(q)
  <2>1. info'[q] = info[q] /\ rows'[q] = rows[q] /\ transactions'[q] = transactions[q]
    BY <1>4 DEF Rename, StageBaseline, BindCapture, WriterSetStatus, HistoryInv, TypeOK
  <2> QED
    BY <1>3, <2>1 DEF HistoryKept, RecordSound
<1>5. HistoryKept(r)
  <2>1. /\ transactions'[r] = transactions[r]
        /\ rows'[r] = rows[r] \/ info[r].status = "bootstrapping"
    BY DEF Rename, StageBaseline, BindCapture, WriterSetStatus, HistoryInv, TypeOK
  <2>2. \/ info'[r] = info[r]
        \/ \E name \in Names : info'[r] = [info[r] EXCEPT !.name = name]
        \/ \E s \in Status : ValidStatus(info[r], s) /\ info'[r] = [info[r] EXCEPT !.status = s]
    BY DEF Rename, StageBaseline, BindCapture, WriterSetStatus, HistoryInv, TypeOK
  <2>3. /\ info'[r] \in Info
        /\ info'[r].baseline = info[r].baseline /\ info'[r].head = info[r].head
        /\ info'[r].count = info[r].count /\ info'[r].baselineRows = info[r].baselineRows
        /\ info'[r].status = info[r].status \/ ValidStatus(info[r], info'[r].status)
    BY <1>2, <2>2 DEF Info
  <2>4. info'[r] # Absent
    BY <2>3 DEF Info, Absent
  <2> QED
    BY <1>2, <1>3, <2>1, <2>3, <2>4 DEF HistoryKept, RecordSound, ValidStatus
<1> QED
  BY <1>1, <1>4, <1>5, KeptHistory

\* Nothing of the file or the caches changes, or a worker dies.
LEMMA SameHistory ==
  ASSUME HistoryInv, TypeOK', UNCHANGED <<info, rows, transactions>>,
         \/ cache' = cache
         \/ \E c \in Connections : Commit(c, cache[c])
         \/ \E c \in Connections : cache' = [cache EXCEPT ![c] = NoEntry]
  PROVE  HistoryInv'
<1>1. \A r \in Recordings : HistoryKept(r)
  BY DEF HistoryInv, HistoryKept, RecordSound
<1> QED
  BY <1>1, KeptHistory

\* A request of one worker on one recording: only its own entry may be current.
LEMMA OneEntry ==
  ASSUME HistoryInv, TypeOK', NEW c \in Connections, NEW r \in Recordings, NEW entry,
         \/ Commit(c, entry)
         \/ Abandon(c, entry),
         \A q \in Recordings \ {r} :
           info'[q] = info[q] /\ rows'[q] = rows[q] /\ transactions'[q] = transactions[q],
         RecordSound(r)', EntrySound(c)'
  PROVE  HistoryInv'
<1>1. ASSUME NEW q \in Recordings PROVE RecordSound(q)'
  BY <1>1 DEF HistoryInv, RecordSound, Stored, Baseline
<1>2. ASSUME NEW d \in Connections PROVE EntrySound(d)'
  <2>1. CASE d = c
    BY <2>1
  <2>2. CASE d # c /\ Commit(c, entry)
    BY <2>2, OtherEntries DEF HistoryInv
  <2>3. CASE d # c /\ Abandon(c, entry)
    BY <2>3 DEF Abandon, tables, HistoryInv, TypeOK, EntrySound, Stored
  <2> QED
    BY <2>1, <2>2, <2>3
<1> QED
  BY <1>1, <1>2 DEF HistoryInv

\* A recording is created.
LEMMA CreateHistory ==
  ASSUME HistoryInv, TypeOK', NEW c \in Connections, NEW r \in Recordings, NEW name \in Names,
         Create(c, r, name)
  PROVE  HistoryInv'
<1>1. /\ info[r] = Absent /\ Commit(c, cache[c]) /\ cache[c] \in Entry \union {NoEntry}
      /\ info'[r] = [kind |-> "present", name |-> name, status |-> "bootstrapping",
                     baseline |-> NoPosition, baselineRows |-> {}, head |-> NoPosition, count |-> 0]
      /\ transactions' = transactions /\ rows' = rows
      /\ \A q \in Recordings \ {r} : info'[q] = info[q]
  BY DEF Create, HistoryInv, TypeOK
<1>2. transactions[r] = << >>
  BY <1>1 DEF HistoryInv, RecordSound
<1>3. info'[r] # Absent /\ info'[r].baseline = NoPosition
  BY <1>1 DEF Absent
<1>4. RecordSound(r)'
  BY <1>1, <1>2, <1>3 DEF RecordSound, Published
<1>5. EntrySound(c)'
  <2>1. cache'[c] = cache[c]
    BY <1>1 DEF Commit
  <2>2. cache[c] # NoEntry /\ cache[c].current => cache[c].recording # r
    BY <1>1 DEF HistoryInv, EntrySound
  <2>3. cache[c] # NoEntry => cache[c].recording \in Recordings
    BY <1>1 DEF Entry
  <2> QED
    BY <1>1, <2>1, <2>2, <2>3 DEF HistoryInv, EntrySound, Stored, Published
<1> QED
  BY <1>1, <1>4, <1>5, OneEntry

\* A baseline is published, or its entry remembered by a commit that failed.
LEMMA PublishHistory ==
  ASSUME HistoryInv, TypeOK', NEW c \in Connections, NEW r \in Recordings, NEW p \in Position,
         PublishBaseline(c, r, p) \/ PublishBaselineFails(c, r, p)
  PROVE  HistoryInv'
<1> DEFINE new == PublishedInfo(r, p)
<1>1. /\ info[r] # Absent /\ info[r] \in Info /\ info[r].status = "bootstrapping"
      /\ cache \in [Connections -> Entry \union {NoEntry}] /\ rows[r] \in SUBSET Rows
  BY DEF PublishBaseline, PublishBaselineFails, HistoryInv, TypeOK
<1>2. ~Published(info[r]) /\ transactions[r] = << >> /\ info[r].count = 0
  BY <1>1 DEF HistoryInv, RecordSound
<1>3. /\ new \in Info /\ new.status = "recording" /\ new.baseline = p /\ new.head = p
      /\ new.count = 0 /\ new.baselineRows = rows[r]
  BY <1>1, <1>2, PublishedType DEF PublishedInfo, Info, HistoryInv
<1>4. [position |-> p, rows |-> rows[r]] \in State /\ Published(new)
  BY <1>1, <1>3, MaxPositionAssumption DEF State, Published
<1>5. Replay([position |-> p, rows |-> rows[r]], << >>) = [position |-> p, rows |-> rows[r]]
  BY <1>4, ReplayNothing
<1>6. PublishedEntry(r, p) = [kind |-> "cached", recording |-> r, info |-> new,
                              state |-> [position |-> p, rows |-> rows[r]], current |-> TRUE]
  BY DEF PublishedEntry, Remembered
<1> HIDE DEF new
<1>7. CASE PublishBaseline(c, r, p)
  <2>1. /\ Commit(c, PublishedEntry(r, p)) /\ info' = [info EXCEPT ![r] = new]
        /\ rows' = rows /\ transactions' = transactions
    BY <1>7 DEF PublishBaseline, new
  <2>2. info'[r] = new /\ \A q \in Recordings \ {r} : info'[q] = info[q]
    BY <2>1 DEF HistoryInv, TypeOK
  <2>3. new # Absent
    BY <1>3 DEF Info, Absent
  <2>4. Stored(r)' = [position |-> p, rows |-> rows[r]]
    BY <1>2, <1>3, <1>5, <2>1, <2>2 DEF Stored
  <2>5. RecordSound(r)'
    BY <1>2, <1>3, <1>4, <2>1, <2>2, <2>3, <2>4 DEF RecordSound, Consistent
  <2>6. EntrySound(c)'
    BY <1>4, <1>6, <2>1, <2>2, <2>3, <2>4 DEF EntrySound, Commit
  <2> QED
    BY <2>1, <2>2, <2>5, <2>6, OneEntry
<1>8. CASE PublishBaselineFails(c, r, p)
  <2>1. Abandon(c, PublishedEntry(r, p)) /\ UNCHANGED <<info, rows, transactions>>
    BY <1>8 DEF PublishBaselineFails, Abandon, tables
  <2>2. cache'[c] = PublishedEntry(r, p)
    BY <1>1, <2>1 DEF Abandon
  <2>3. EntrySound(c)'
    BY <1>1, <1>2, <1>3, <1>4, <1>6, <2>1, <2>2 DEF EntrySound, Published
  <2>4. RecordSound(r)'
    BY <2>1 DEF HistoryInv, RecordSound, Stored, Baseline
  <2> QED
    BY <2>1, <2>3, <2>4, OneEntry
<1> QED
  BY <1>7, <1>8

\* A transaction is appended, or its commit fails, or it is there already or refused.
LEMMA AppendHistory ==
  ASSUME HistoryInv, TypeOK', NEW c \in Connections, NEW r \in Recordings, NEW token,
         NEW t \in Transaction,
         \/ WriterAppend(c, r, token, t)
         \/ WriterAppendFails(c, r, token, t)
         \/ WriterAppendDuplicate(c, r, token, t)
         \/ WriterAppendRefused(c, r, token, t)
  PROVE  HistoryInv'
<1> DEFINE new == AppendedInfo(r, t)
<1>1. /\ info[r] # Absent /\ info[r] \in Info /\ Published(info[r])
      /\ info[r].status = "recording"
      /\ cache \in [Connections -> Entry \union {NoEntry}]
      /\ transactions[r] \in Seq(Transaction) /\ Baseline(r) \in State
      /\ Stored(r) \in State
  BY RecordType DEF WriterAppend, WriterAppendFails,
      WriterAppendDuplicate, WriterAppendRefused, Appends, Appendable,
      HistoryInv, TypeOK
<1>2. /\ Consistent(Baseline(r), transactions[r])
      /\ info[r].count = Len(transactions[r])
      /\ info[r].baselineRows = rows[r]
  BY <1>1 DEF HistoryInv, RecordSound
<1>3. Load(c, r) = Stored(r) /\ Stored(r) = Replay(Baseline(r), transactions[r])
  BY LoadStored DEF Stored, Baseline
<1>4. /\ new \in Info /\ new.status = "recording" /\ new.baseline = info[r].baseline
      /\ new.head = t.position /\ new.count = info[r].count + 1
      /\ new.baselineRows = info[r].baselineRows
  BY <1>1, AppendedType DEF AppendedInfo, Info, HistoryInv
<1>5. AppendedEntry(c, r, t) =
        [kind |-> "cached", recording |-> r, info |-> new, state |-> Apply(Stored(r), t),
         current |-> TRUE]
  BY <1>3 DEF AppendedEntry, Remembered
<1>6. new # Absent /\ Published(new)
  BY <1>1, <1>4 DEF Info, Absent, Published
<1> HIDE DEF new
<1>7. CASE WriterAppend(c, r, token, t)
  <2>1. /\ Commit(c, AppendedEntry(c, r, t)) /\ info' = [info EXCEPT ![r] = new]
        /\ rows' = rows /\ transactions' = [transactions EXCEPT ![r] = Append(@, t)]
        /\ Applies(Stored(r), t)
    BY <1>3, <1>7 DEF WriterAppend, Appends, new
  <2>2. /\ info'[r] = new /\ transactions'[r] = Append(transactions[r], t)
        /\ \A q \in Recordings \ {r} : info'[q] = info[q] /\ transactions'[q] = transactions[q]
    BY <2>1 DEF HistoryInv, TypeOK
  <2>3. Baseline(r)' = Baseline(r)
    BY <1>4, <2>1, <2>2 DEF Baseline
  <2>4. Stored(r)' = Apply(Stored(r), t)
    BY <1>1, <1>3, <2>2, <2>3, ReplayAppend DEF Stored, Baseline
  <2>5. Consistent(Baseline(r), transactions[r])'
    BY <1>1, <1>2, <1>3, <2>1, <2>2, <2>3, ConsistentAppend DEF Consistent
  <2>6. Len(transactions'[r]) = info[r].count + 1 /\ Stored(r)'.position = t.position
    BY <1>1, <1>2, <2>2, <2>4 DEF Apply
  <2>7. RecordSound(r)'
    BY <1>2, <1>4, <1>6, <2>1, <2>2, <2>5, <2>6 DEF RecordSound
  <2>8. EntrySound(c)'
    BY <1>5, <1>6, <2>1, <2>2, <2>4 DEF EntrySound, Commit
  <2> QED
    BY <2>1, <2>2, <2>7, <2>8, OneEntry
<1>8. CASE \/ WriterAppendFails(c, r, token, t)
           \/ WriterAppendDuplicate(c, r, token, t)
           \/ WriterAppendRefused(c, r, token, t)
  <2>1. /\ Abandon(c, AppendedEntry(c, r, t)) \/ Abandon(c, Loaded(c, r))
        /\ UNCHANGED <<info, rows, transactions>>
    BY <1>8 DEF WriterAppendFails,
        WriterAppendDuplicate, WriterAppendRefused, Abandon, tables
  <2>2. \/ cache'[c] = AppendedEntry(c, r, t)
        \/ cache'[c] = [kind |-> "cached", recording |-> r, info |-> info[r],
                        state |-> Stored(r), current |-> TRUE]
    BY <1>1, <1>3, <2>1 DEF Abandon, Loaded, Remembered
  <2>3. info[r].count \in Nat /\ Stored(r)' = Stored(r)
    BY <1>1, <2>1 DEF Info, Stored
  <2>4. EntrySound(c)'
    BY <1>1, <1>4, <1>5, <1>6, <2>1, <2>2, <2>3 DEF EntrySound
  <2>5. RecordSound(r)'
    BY <2>1 DEF HistoryInv, RecordSound, Stored, Baseline
  <2> QED
    BY <2>1, <2>4, <2>5, OneEntry
<1> QED
  BY <1>7, <1>8

\* A recording is removed with all that refers to it.
LEMMA RemoveHistory ==
  ASSUME HistoryInv, TypeOK', NEW c \in Connections, NEW r \in Recordings,
         Remove(c, r) \/ RemoveFails(c, r)
  PROVE  HistoryInv'
<1>1. CASE Remove(c, r)
  <2>1. /\ Commit(c, NoEntry) /\ info'[r] = Absent /\ transactions'[r] = << >>
        /\ \A q \in Recordings \ {r} :
             info'[q] = info[q] /\ rows'[q] = rows[q] /\ transactions'[q] = transactions[q]
    BY <1>1 DEF Remove, HistoryInv, TypeOK
  <2>2. RecordSound(r)' /\ EntrySound(c)'
    BY <2>1 DEF RecordSound, EntrySound, Commit
  <2> QED
    BY <2>1, <2>2, OneEntry
<1>2. CASE RemoveFails(c, r)
  BY <1>2, SameHistory DEF RemoveFails, Abandon, tables
<1> QED
  BY <1>1, <1>2

\* Every step keeps the invariant.
LEMMA HistoryStep ==
  ASSUME HistoryInv, [Next]_vars
  PROVE  HistoryInv'
<1>1. TypeOK'
  BY TypeStep DEF HistoryInv
<1>2. ASSUME NEW c \in Connections, NEW r \in Recordings, Operation(c, r)
      PROVE  HistoryInv'
  <2>1. CASE PlainWrite(c, r)
    BY <1>1, <2>1, AppendHistory, QuietWrites DEF PlainWrite
  <2> QED
    BY <1>1, <1>2, <2>1, CreateHistory, QuietWrites, PublishHistory, RemoveHistory DEF Operation
<1>3. ASSUME NEW s \in Sessions, Caller(s)
      PROVE  HistoryInv'
  BY <1>1, <1>3, SameHistory DEF Caller, PrepareRecording, Activate, LeaseWrite, CloseLease,
      AdmitRelease, StoreUnchanged, tables
<1>4. ASSUME NEW c \in Connections, Worker(c)
      PROVE  HistoryInv'
  <2>1. CASE Prepare(c) \/ ActivateClaim(c) \/ Release(c) \/ RequestFails(c) \/ Crash(c)
    BY <1>1, <2>1, SameHistory DEF Prepare, ActivateClaim, Release, RequestFails, Crash,
        StoreUnchanged, tables
  <2>2. CASE FencedAppend(c) \/ FencedSetStatus(c)
    <3>1. Recording(Session1(c)) \in Recordings
      BY <2>2, HeadType DEF FencedAppend, FencedSetStatus, Next1, HistoryInv
    <3> QED
      BY <1>1, <2>2, <3>1, AppendHistory, QuietWrites DEF FencedAppend, FencedSetStatus
  <2> QED
    BY <1>4, <2>1, <2>2 DEF Worker
<1>5. CASE UNCHANGED vars
  BY <1>1, <1>5, SameHistory DEF vars
<1> QED
  BY <1>2, <1>3, <1>4, <1>5 DEF Next

\* The invariant holds in every reachable state.
THEOREM HistoryInvariant == Spec => []HistoryInv
<1>1. ASSUME Init PROVE HistoryInv
  <2>1. \A r \in Recordings : RecordSound(r)
    BY <1>1 DEF Init, RecordSound
  <2>2. \A c \in Connections : EntrySound(c)
    BY <1>1 DEF Init, EntrySound
  <2> QED
    BY <1>1, <2>1, <2>2, InitType DEF HistoryInv
<1> QED
  BY <1>1, HistoryStep, PTL DEF Spec

\* What is stored replays to its head, no cached state that a write may use differs
\* from it, and replaying is applying one transaction after the other.
THEOREM HistoryAlwaysSound == Spec => []HistorySound
<1>1. ASSUME HistoryInv PROVE HistorySound
  <2>1. HistoryReplays
    BY <1>1 DEF HistoryInv, HistoryReplays, RecordSound, Baseline
  <2>2. CacheFaithful
    BY <1>1, LoadStored DEF CacheFaithful
  <2>3. ReplayIsFold
    <3>1. ASSUME NEW r \in Recordings, info[r] # Absent, Published(info[r])
          PROVE  /\ Replay(Baseline(r), SubSeq(transactions[r], 1, 0)) = Baseline(r)
                 /\ \A i \in DOMAIN transactions[r] :
                      Replay(Baseline(r), SubSeq(transactions[r], 1, i)) =
                        Apply(Replay(Baseline(r), SubSeq(transactions[r], 1, i - 1)),
                              transactions[r][i])
      <4>1. Baseline(r) \in State /\ transactions[r] \in Seq(Transaction)
        BY <1>1, <3>1, RecordType DEF HistoryInv
      <4> QED
        BY <4>1, ReplayFolds
    <3>2. ASSUME NEW r \in Recordings, info[r] # Absent, Published(info[r]),
                 NEW i \in DOMAIN transactions[r]
          PROVE  (i + 1) - 1 = i
      BY <1>1, <3>2, RecordType DEF HistoryInv
    <3> QED
      BY <3>1, <3>2 DEF ReplayIsFold, Baseline
  <2> QED
    BY <2>1, <2>2, <2>3 DEF HistorySound
<1> QED
  BY <1>1, HistoryInvariant, PTL

\* A binding is settled before its baseline is published and outlives everything
\* but the recording.
THEOREM BindingStaysSettled == Spec => BindingSettled
<1>1. ASSUME HistoryInv, [Next]_vars, NEW r \in Recordings
      PROVE  /\ bindings[r] # NoBinding /\ info'[r] # Absent => bindings'[r] = bindings[r]
             /\ info[r] # Absent /\ Published(info[r]) /\ bindings[r] = NoBinding =>
                  bindings'[r] = NoBinding
  <2>1. bindings' = bindings
        \/ \E c \in Connections, q \in Recordings :
             Remove(c, q) \/ \E b \in Bindings : BindCapture(c, q, b)
    <3>1. ASSUME NEW c \in Connections, NEW q \in Recordings, Operation(c, q)
          PROVE  \/ bindings' = bindings
                 \/ Remove(c, q) \/ \E b \in Bindings : BindCapture(c, q, b)
      BY <3>1 DEF Operation, Create, Rename, StageBaseline, PublishBaseline,
          PublishBaselineFails, PlainWrite, WriterAppend, WriterAppendFails,

          WriterAppendDuplicate, WriterAppendRefused, WriterSetStatus, RemoveFails, Abandon, tables
    <3>2. ASSUME NEW s \in Sessions, Caller(s)
          PROVE  bindings' = bindings
      BY <3>2 DEF Caller, PrepareRecording, Activate, LeaseWrite, CloseLease, AdmitRelease,
          StoreUnchanged, tables
    <3>3. ASSUME NEW c \in Connections, Worker(c)
          PROVE  bindings' = bindings
      BY <3>3 DEF Worker, Prepare, ActivateClaim, FencedAppend, FencedSetStatus, Release,
          RequestFails, Crash, WriterAppend, WriterAppendFails,
          WriterAppendDuplicate, WriterAppendRefused,
          WriterSetStatus, Abandon, StoreUnchanged, tables
    <3> QED
      BY <1>1, <3>1, <3>2, <3>3 DEF Next, vars
  <2>2. ASSUME NEW c \in Connections, NEW q \in Recordings, Remove(c, q)
        PROVE  /\ r # q => bindings'[r] = bindings[r]
               /\ r = q => info'[r] = Absent /\ bindings'[r] = NoBinding
    BY <1>1, <2>2 DEF Remove, HistoryInv, TypeOK
  <2>3. ASSUME NEW c \in Connections, NEW q \in Recordings, NEW b \in Bindings,
               BindCapture(c, q, b)
        PROVE  \/ bindings'[r] = bindings[r]
               \/ bindings[r] = NoBinding /\ info[r].status = "bootstrapping"
    BY <1>1, <2>3 DEF BindCapture, HistoryInv, TypeOK
  <2>4. info[r] # Absent /\ Published(info[r]) => info[r].status # "bootstrapping"
    BY <1>1 DEF HistoryInv, RecordSound
  <2> QED
    BY <2>1, <2>2, <2>3, <2>4
<1>2. ASSUME HistoryInv, [Next]_vars
      PROVE  [\A r \in Recordings :
                /\ bindings[r] # NoBinding /\ info'[r] # Absent => bindings'[r] = bindings[r]
                /\ info[r] # Absent /\ Published(info[r]) /\ bindings[r] = NoBinding =>
                     bindings'[r] = NoBinding]_vars
  BY <1>1, <1>2
<1> QED
  BY <1>2, HistoryInvariant, PTL DEF Spec, BindingSettled

-----------------------------------------------------------------------------
(* What is stored is a committed history                                    *)

\* The log of one recording.
LogOf(r) ==
  [status       |-> info[r].status,
   baseline     |-> IF Published(info[r]) THEN Baseline(r) ELSE NoBaselineYet,
   transactions |-> transactions[r]]

\* The whole log says of each recording what is stored of it.
LEMMA LogFacts ==
  ASSUME NEW r \in Recordings
  PROVE  /\ info[r] = Absent => StoredLog[r] = NoLogYet
         /\ info[r] # Absent => StoredLog[r] = LogOf(r)
         /\ DOMAIN StoredLog = Recordings
         /\ LogOf(r) # NoLogYet
         /\ LogOf(r).baseline = NoBaselineYet <=> ~Published(info[r])
<1>1. LogOf(r) # NoLogYet
  <2>1. "status" \in DOMAIN LogOf(r) /\ "status" \notin DOMAIN NoLogYet
    BY DEF LogOf, NoLogYet
  <2> QED
    BY <2>1
<1>2. Baseline(r) # NoBaselineYet
  <2>1. "rows" \in DOMAIN Baseline(r) /\ "rows" \notin DOMAIN NoBaselineYet
    BY DEF Baseline, NoBaselineYet
  <2> QED
    BY <2>1
<1>3. /\ info[r] = Absent => StoredLog[r] = NoLogYet
      /\ info[r] # Absent => StoredLog[r] = LogOf(r)
      /\ DOMAIN StoredLog = Recordings
  BY DEF StoredLog, LogOf, Baseline
<1> QED
  BY <1>1, <1>2, <1>3 DEF LogOf

\* A step that changes what is stored of one recording changes its log only.
LEMMA LogMoves ==
  ASSUME NEW r \in Recordings, NEW new,
         \A q \in Recordings \ {r} :
           info'[q] = info[q] /\ transactions'[q] = transactions[q]
           /\ (info[q] # Absent /\ Published(info[q]) => rows'[q] = rows[q]),
         StoredLog'[r] = new
  PROVE  StoredLog' = [StoredLog EXCEPT ![r] = new]
<1>1. \A q \in Recordings \ {r} : StoredLog'[q] = StoredLog[q]
  BY DEF StoredLog, Published
<1>2. /\ StoredLog = [q \in Recordings |-> StoredLog[q]]
      /\ StoredLog' = [q \in Recordings |-> StoredLog'[q]]
  BY DEF StoredLog
<1> QED
  BY <1>1, <1>2

\* A step that keeps existence, status, baseline and transactions of every recording
\* is not seen in the log.
LEMMA SameLog ==
  ASSUME \A q \in Recordings :
           /\ info'[q] = Absent <=> info[q] = Absent
           /\ info[q] # Absent =>
                /\ info'[q].status = info[q].status /\ info'[q].baseline = info[q].baseline
                /\ transactions'[q] = transactions[q]
                /\ Published(info[q]) => rows'[q] = rows[q]
  PROVE  StoredLog' = StoredLog
<1>1. ASSUME NEW q \in Recordings PROVE StoredLog'[q] = StoredLog[q]
  BY <1>1 DEF StoredLog, Published
<1>2. /\ StoredLog = [q \in Recordings |-> StoredLog[q]]
      /\ StoredLog' = [q \in Recordings |-> StoredLog'[q]]
  BY DEF StoredLog
<1> QED
  BY <1>1, <1>2

\* Creating a recording, and what is staged, bound or renamed before and after.
LEMMA CreatesLog ==
  ASSUME HistoryInv, NEW c \in Connections, NEW r \in Recordings, NEW name \in Names,
         Create(c, r, name)
  PROVE  History!LogNext
<1>1. /\ info[r] = Absent
      /\ info'[r] = [kind |-> "present", name |-> name, status |-> "bootstrapping",
                     baseline |-> NoPosition, baselineRows |-> {}, head |-> NoPosition, count |-> 0]
      /\ transactions' = transactions /\ rows' = rows
      /\ \A q \in Recordings \ {r} : info'[q] = info[q]
  BY DEF Create, HistoryInv, TypeOK
<1>2. transactions[r] = << >>
  BY <1>1 DEF HistoryInv, RecordSound
<1>3. info'[r] # Absent
  BY <1>1 DEF Absent
<1>4. StoredLog'[r] = [status |-> "bootstrapping", baseline |-> NoBaselineYet,
                       transactions |-> << >>]
  BY <1>1, <1>2, <1>3 DEF StoredLog, Published
<1>5. StoredLog' = [StoredLog EXCEPT ![r] = [status |-> "bootstrapping", baseline |-> NoBaselineYet,
                                             transactions |-> << >>]]
  BY <1>1, <1>4, LogMoves
<1> QED
  BY <1>1, <1>5, LogFacts DEF History!LogNext, History!CreateLog

\* The operators of HistoryState mean in the abstract specification what they mean here.
LEMMA SameOperators ==
  /\ History!State = State /\ History!Transaction = Transaction
  /\ \A state, t : History!Applies(state, t) = Applies(state, t)
  /\ \A base, ts : History!Replay(base, ts) = Replay(base, ts)
<1>1. History!State = State /\ History!Transaction = Transaction
  BY DEF History!State, State, History!Transaction, Transaction, History!Position, Position
<1>2. ASSUME NEW state, NEW t PROVE History!Applies(state, t) = Applies(state, t)
  BY DEF History!Applies, Applies
<1>3. ASSUME NEW base, NEW ts PROVE History!Replay(base, ts) = Replay(base, ts)
  BY DEF History!Replay, Replay
<1> QED
  BY <1>1, <1>2, <1>3

\* Publishing a baseline.
LEMMA PublishesLog ==
  ASSUME HistoryInv, NEW c \in Connections, NEW r \in Recordings, NEW p \in Position,
         PublishBaseline(c, r, p)
  PROVE  History!LogNext
<1> DEFINE base == [position |-> p, rows |-> rows[r]]
<1>1. /\ info[r] # Absent /\ info[r] \in Info /\ info[r].status = "bootstrapping"
      /\ info'[r] = PublishedInfo(r, p) /\ rows' = rows /\ transactions' = transactions
      /\ \A q \in Recordings \ {r} : info'[q] = info[q]
      /\ rows[r] \in SUBSET Rows
  BY DEF PublishBaseline, HistoryInv, TypeOK
<1>2. /\ info'[r].status = "recording" /\ info'[r].baseline = p /\ info'[r] # Absent
      /\ p # NoPosition
  <2>1. PublishedInfo(r, p).kind = "present" /\ PublishedInfo(r, p).status = "recording"
        /\ PublishedInfo(r, p).baseline = p
    BY <1>1 DEF PublishedInfo, Info
  <2> QED
    BY <1>1, <2>1, MaxPositionAssumption DEF Absent, Position, NoPosition
<1>3. base \in State
  BY <1>1 DEF State
<1>4. StoredLog'[r] = [status |-> "recording", baseline |-> base, transactions |-> transactions[r]]
  BY <1>1, <1>2 DEF StoredLog, Published
<1>5. StoredLog[r] = LogOf(r) /\ LogOf(r) # NoLogYet /\ DOMAIN StoredLog = Recordings
  BY <1>1, LogFacts
<1>6. StoredLog' = [StoredLog EXCEPT ![r] = StoredLog'[r]]
  BY <1>1, LogMoves
<1>7. transactions[r] = << >>
  BY <1>1 DEF HistoryInv, RecordSound
<1>8. StoredLog[r].status = "bootstrapping" /\ StoredLog[r] # NoLogYet
  BY <1>1, <1>5 DEF LogOf
<1> HIDE DEF base
<1>9. History!PublishLog(r)
  BY <1>3, <1>4, <1>6, <1>7, <1>8, SameOperators DEF History!PublishLog
<1> QED
  BY <1>9 DEF History!LogNext

\* An append extends the log by a transaction that applies to the end of it.
LEMMA ExtendsLog ==
  ASSUME HistoryInv, NEW c \in Connections, NEW r \in Recordings, NEW token,
         NEW t \in Transaction, WriterAppend(c, r, token, t)
  PROVE  History!LogNext
<1>1. /\ info[r] # Absent /\ info[r] \in Info /\ Published(info[r])
      /\ info[r].status = "recording" /\ Applies(Load(c, r), t)
      /\ info'[r] = AppendedInfo(r, t) /\ rows' = rows
      /\ transactions'[r] = Append(transactions[r], t)
      /\ \A q \in Recordings \ {r} : info'[q] = info[q] /\ transactions'[q] = transactions[q]
  BY DEF WriterAppend, Appends, Appendable, HistoryInv, TypeOK
<1>2. /\ info'[r].status = "recording" /\ info'[r].baseline = info[r].baseline
      /\ info'[r] # Absent
  <2>1. /\ AppendedInfo(r, t).kind = "present" /\ AppendedInfo(r, t).status = "recording"
        /\ AppendedInfo(r, t).baseline = info[r].baseline
    BY <1>1 DEF AppendedInfo, Info
  <2> QED
    BY <1>1, <2>1 DEF Absent
<1>3. StoredLog[r] = LogOf(r) /\ LogOf(r) # NoLogYet /\ DOMAIN StoredLog = Recordings
  BY <1>1, LogFacts
<1>4. StoredLog'[r] = [status |-> "recording", baseline |-> Baseline(r),
                       transactions |-> Append(transactions[r], t)]
  BY <1>1, <1>2 DEF StoredLog, Published, Baseline
<1>5. StoredLog' = [StoredLog EXCEPT ![r] = StoredLog'[r]]
  BY <1>1, LogMoves
<1>6. StoredLog' = [StoredLog EXCEPT ![r].transactions = Append(@, t)]
  BY <1>1, <1>3, <1>4, <1>5 DEF LogOf
<1>7. Replay(StoredLog[r].baseline, StoredLog[r].transactions) = Stored(r)
  BY <1>1, <1>3 DEF LogOf, Stored, Baseline
<1>8. Load(c, r) = Stored(r)
  BY LoadStored
<1>9. Applies(History!HeadState(r), t)
  BY <1>1, <1>7, <1>8, SameOperators DEF History!HeadState
<1>10. StoredLog[r] # NoLogYet /\ StoredLog[r].status = "recording"
  BY <1>1, <1>3 DEF LogOf
<1>11. History!ExtendLog(r)
  BY <1>6, <1>9, <1>10, SameOperators DEF History!ExtendLog
<1> QED
  BY <1>11 DEF History!LogNext

\* A status moves the log along its lifecycle, or is what it was.
LEMMA MovesLog ==
  ASSUME HistoryInv, NEW c \in Connections, NEW r \in Recordings, NEW token, NEW s \in Status,
         WriterSetStatus(c, r, token, s)
  PROVE  History!LogNext \/ StoredLog' = StoredLog
<1>1. /\ info[r] # Absent /\ info[r] \in Info
      /\ ValidStatus(info[r], s) /\ StatusChange(info[r].status, s)
      /\ info'[r] = [info[r] EXCEPT !.status = s] /\ rows' = rows /\ transactions' = transactions
      /\ \A q \in Recordings \ {r} : info'[q] = info[q]
  BY DEF WriterSetStatus, HistoryInv, TypeOK
<1>2. /\ info'[r].status = s /\ info'[r].baseline = info[r].baseline /\ info'[r] # Absent
      /\ info[r].status \in Status
  <2>1. info'[r].kind = "present"
    BY <1>1 DEF Info
  <2> QED
    BY <1>1, <2>1 DEF Info, Absent
<1>3. StoredLog[r] = LogOf(r) /\ LogOf(r) # NoLogYet /\ DOMAIN StoredLog = Recordings
      /\ (LogOf(r).baseline = NoBaselineYet <=> ~Published(info[r]))
  BY <1>1, LogFacts
<1>4. StoredLog'[r] = [LogOf(r) EXCEPT !.status = s]
  <2>1. Published(info'[r]) <=> Published(info[r])
    BY <1>2 DEF Published
  <2>2. StoredLog'[r] = [status |-> s,
                         baseline |-> IF Published(info[r]) THEN Baseline(r) ELSE NoBaselineYet,
                         transactions |-> transactions[r]]
    BY <1>1, <1>2, <2>1 DEF StoredLog, Baseline
  <2> QED
    BY <2>2 DEF LogOf
<1>5. StoredLog' = [StoredLog EXCEPT ![r] = StoredLog'[r]]
  BY <1>1, LogMoves
<1>6. CASE s = info[r].status
  <2>1. StoredLog'[r] = StoredLog[r]
    BY <1>3, <1>4, <1>6 DEF LogOf
  <2> QED
    BY <1>5, <2>1, <1>3 DEF StoredLog
<1>7. CASE s # info[r].status
  <2>1. /\ s \in History!LogStatus \ {StoredLog[r].status, "bootstrapping"}
        /\ StoredLog[r].status # "invalid"
        /\ s # "invalid" => "recording" \in {StoredLog[r].status, s}
        /\ StoredLog[r].baseline = NoBaselineYet => s = "invalid"
    BY <1>1, <1>2, <1>3, <1>7 DEF LogOf, StatusChange, ValidStatus, Status, History!LogStatus
  <2>2. StoredLog' = [StoredLog EXCEPT ![r].status = s]
    BY <1>3, <1>4, <1>5
  <2>3. History!ChangeStatus(r)
    BY <1>3, <2>1, <2>2 DEF History!ChangeStatus
  <2> QED
    BY <2>3 DEF History!LogNext
<1> QED
  BY <1>6, <1>7

\* A recording and its log are removed together.
LEMMA RemovesLog ==
  ASSUME HistoryInv, NEW c \in Connections, NEW r \in Recordings, Remove(c, r)
  PROVE  History!LogNext
<1>1. /\ info[r] # Absent /\ info'[r] = Absent
      /\ \A q \in Recordings \ {r} :
           info'[q] = info[q] /\ rows'[q] = rows[q] /\ transactions'[q] = transactions[q]
  BY DEF Remove, HistoryInv, TypeOK
<1>2. StoredLog'[r] = NoLogYet
  BY <1>1 DEF StoredLog
<1>3. StoredLog' = [StoredLog EXCEPT ![r] = NoLogYet]
  BY <1>1, <1>2, LogMoves
<1>4. StoredLog[r] # NoLogYet
  BY <1>1, LogFacts
<1> QED
  BY <1>3, <1>4 DEF History!LogNext, History!RemoveLog

\* Names, bindings and rows that are staged are not part of the log.
LEMMA QuietLog ==
  ASSUME HistoryInv, NEW c \in Connections, NEW r \in Recordings,
         \/ \E name \in Names : Rename(c, r, name)
         \/ \E batch \in SUBSET Rows : StageBaseline(c, r, batch)
         \/ \E b \in Bindings : BindCapture(c, r, b)
  PROVE  StoredLog' = StoredLog
<1>1. /\ info[r] # Absent /\ info[r] \in Info
      /\ transactions' = transactions
      /\ rows'[r] = rows[r] \/ info[r].status = "bootstrapping"
      /\ info'[r] = info[r] \/ \E name \in Names : info'[r] = [info[r] EXCEPT !.name = name]
      /\ \A q \in Recordings \ {r} : info'[q] = info[q] /\ rows'[q] = rows[q]
  BY DEF Rename, StageBaseline, BindCapture, HistoryInv, TypeOK
<1>2. /\ info'[r].kind = "present" /\ info'[r].status = info[r].status
      /\ info'[r].baseline = info[r].baseline
  BY <1>1 DEF Info
<1>3. info'[r] # Absent
  BY <1>2 DEF Absent
<1>4. Published(info[r]) => rows'[r] = rows[r]
  BY <1>1 DEF HistoryInv, RecordSound
<1> QED
  BY <1>1, <1>2, <1>3, <1>4, SameLog

\* Several workers with caches, claims, crashes and failed commits, seen from the
\* file, do nothing but the steps of CommittedHistory.
THEOREM StoreImplementsHistory == Spec => ImplementsCommittedHistory
<1>1. ASSUME Init PROVE History!LogInit
  BY <1>1 DEF Init, StoredLog, History!LogInit
<1>2. ASSUME HistoryInv, [Next]_vars
      PROVE  [History!LogNext]_StoredLog
  <2>1. ASSUME UNCHANGED <<info, rows, transactions>> PROVE StoredLog' = StoredLog
    BY <2>1 DEF StoredLog
  <2>2. ASSUME NEW c \in Connections, NEW r \in Recordings, NEW token, NEW t \in Transaction,
               \/ WriterAppend(c, r, token, t)
               \/ WriterAppendFails(c, r, token, t)
               \/ WriterAppendDuplicate(c, r, token, t)
               \/ WriterAppendRefused(c, r, token, t)
        PROVE  [History!LogNext]_StoredLog
    <3>1. CASE WriterAppend(c, r, token, t)
      BY <1>2, <3>1, ExtendsLog
    <3>2. CASE \/ WriterAppendFails(c, r, token, t)
               \/ WriterAppendDuplicate(c, r, token, t)
               \/ WriterAppendRefused(c, r, token, t)
      BY <2>1, <3>2 DEF WriterAppendFails,
          WriterAppendDuplicate, WriterAppendRefused, Abandon, tables
    <3> QED
      BY <2>2, <3>1, <3>2
  <2>3. ASSUME NEW c \in Connections, NEW r \in Recordings, Operation(c, r)
        PROVE  [History!LogNext]_StoredLog
    <3>1. CASE PlainWrite(c, r)
      BY <1>2, <3>1, <2>2, MovesLog DEF PlainWrite
    <3>2. CASE RemoveFails(c, r) \/ \E p \in Position : PublishBaselineFails(c, r, p)
      BY <2>1, <3>2 DEF RemoveFails, PublishBaselineFails, Abandon, tables
    <3>3. CASE Remove(c, r) \/ (\E p \in Position : PublishBaseline(c, r, p))
               \/ \E name \in Names : Create(c, r, name)
      BY <1>2, <3>3, RemovesLog, PublishesLog, CreatesLog
    <3>4. CASE \/ \E name \in Names : Rename(c, r, name)
               \/ \E batch \in SUBSET Rows : StageBaseline(c, r, batch)
               \/ \E b \in Bindings : BindCapture(c, r, b)
      BY <1>2, <3>4, QuietLog
    <3> QED
      BY <2>3, <3>1, <3>2, <3>3, <3>4 DEF Operation
  <2>4. ASSUME NEW s \in Sessions, Caller(s)
        PROVE  [History!LogNext]_StoredLog
    BY <2>1, <2>4 DEF Caller, PrepareRecording, Activate, LeaseWrite, CloseLease,
        AdmitRelease, StoreUnchanged, tables
  <2>5. ASSUME NEW c \in Connections, Worker(c)
        PROVE  [History!LogNext]_StoredLog
    <3>1. CASE Prepare(c) \/ ActivateClaim(c) \/ Release(c) \/ RequestFails(c) \/ Crash(c)
      BY <2>1, <3>1 DEF Prepare, ActivateClaim, Release, RequestFails, Crash,
          StoreUnchanged, tables
    <3>2. CASE FencedAppend(c) \/ FencedSetStatus(c)
      <4>1. Recording(Session1(c)) \in Recordings
        BY <1>2, <3>2, HeadType DEF FencedAppend, FencedSetStatus, Next1, HistoryInv
      <4> QED
        BY <1>2, <2>2, <3>2, <4>1, MovesLog DEF FencedAppend, FencedSetStatus
    <3> QED
      BY <2>5, <3>1, <3>2 DEF Worker
  <2> QED
    BY <1>2, <2>1, <2>3, <2>4, <2>5 DEF Next, vars
<1> QED
  BY <1>1, <1>2, HistoryInvariant, PTL DEF Spec, ImplementsCommittedHistory, History!LogSpec

-----------------------------------------------------------------------------
(* Fencing.  OneWriter alone is not inductive: that no two sessions hold    *)
(* one token rests on how generations and incarnations grow, and on no      *)
(* request of prepareRecording being run twice for one session.             *)

\* No owner is newer than what was handed out.
OwnersBounded ==
  \A r \in Recordings :
    owners[r] # NoOwner =>
      owners[r].incarnation <= incarnations /\ owners[r].owner <= owners[r].generation

\* A token is of an incarnation that was created, and of a generation it reserved.
TokensReserved ==
  \A s \in Sessions :
    HasToken(s) =>
      /\ sessions[s].token.incarnation \in 1 .. incarnations
      /\ LET o == owners[Recording(s)]
         IN o # NoOwner /\ o.incarnation = sessions[s].token.incarnation =>
              sessions[s].token.generation <= o.generation

\* No two sessions hold one token of a recording.
TokensDistinct ==
  \A s, u \in Sessions :
    HasToken(s) /\ Recording(s) = Recording(u) /\ sessions[s].token = sessions[u].token
      => s = u

\* Who has not asked holds no token.
IdleFresh ==
  \A s \in Sessions : sessions[s].phase = "idle" => ~HasToken(s)

\* The i-th request of a worker is a preparation.
Asks(c, i) == queue[c][i].method = "prepareRecording"

\* A queued preparation is the only one of its session, which has no token yet.
PreparesFresh ==
  \A c \in Connections : \A i \in DOMAIN queue[c] :
    /\ Connection(queue[c][i].session) = c
    /\ Asks(c, i) => /\ ~HasToken(queue[c][i].session)
                     /\ sessions[queue[c][i].session].phase # "idle"
    /\ \A j \in DOMAIN queue[c] :
         Asks(c, i) /\ Asks(c, j) /\ queue[c][i].session = queue[c][j].session => i = j

\* What is true of tokens and owners together.
TokensSound == OwnersBounded /\ TokensReserved /\ TokensDistinct /\ IdleFresh

\* The inductive invariant of fencing.
OwnershipInv == TypeOK /\ TokensSound /\ PreparesFresh

-----------------------------------------------------------------------------
(* Requests                                                                *)

\* Tokens and phases only move away from fresh and idle.
Settles(s) ==
  /\ HasToken(s)' => HasToken(s)
  /\ sessions'[s].phase = "idle" => sessions[s].phase = "idle"

\* Running the first request of a worker leaves the others in order.
LEMMA DoneFresh ==
  ASSUME TypeOK, PreparesFresh, NEW c \in Connections, queue[c] # << >>, Done(c),
         \A s \in Sessions :
           \/ Settles(s)
           \/ Asks(c, 1) /\ s = Session1(c) /\ sessions'[s].phase # "idle"
  PROVE  PreparesFresh'
<1>1. queue[c] \in Seq(Request)
  BY DEF TypeOK
<1>2. \A i \in DOMAIN Tail(queue[c]) :
        i + 1 \in DOMAIN queue[c] /\ Tail(queue[c])[i] = queue[c][i + 1]
  BY <1>1
<1>3. Head(queue[c]) = queue[c][1] /\ 1 \in DOMAIN queue[c]
  BY <1>1
<1> DEFINE Asked(d, i) == queue'[d][i].method = "prepareRecording"
           Fresh(u) == sessions'[u].token = NoToken /\ sessions'[u].phase # "idle"
<1> SUFFICES ASSUME NEW d \in Connections, NEW i \in DOMAIN queue'[d]
             PROVE  /\ Connection(queue'[d][i].session) = d
                    /\ Asked(d, i) => Fresh(queue'[d][i].session)
                    /\ \A j \in DOMAIN queue'[d] :
                         Asked(d, i) /\ Asked(d, j)
                           /\ queue'[d][i].session = queue'[d][j].session => i = j
  BY DEF PreparesFresh, Asks, HasToken, Connection
<1>4. ASSUME NEW u \in Sessions, Settles(u), ~HasToken(u), sessions[u].phase # "idle"
      PROVE  Fresh(u)
  BY <1>4 DEF Settles, HasToken
<1>5. CASE d # c
  <2>1. queue'[d] = queue[d]
    BY <1>5 DEF Done, TypeOK
  <2>2. queue[d][i] \in Request
    BY <2>1 DEF TypeOK
  <2>3. queue[d][i].session # Session1(c)
    BY <1>3, <1>5, <2>1 DEF PreparesFresh, Session1
  <2>4. queue[d][i].session \in Sessions /\ Settles(queue[d][i].session)
    BY <2>2, <2>3 DEF Request
  <2>5. Asked(d, i) => Fresh(queue[d][i].session)
    BY <2>1, <2>4 DEF PreparesFresh, Settles, Asks, HasToken
  <2>6. /\ Connection(queue[d][i].session) = d
        /\ \A j \in DOMAIN queue[d] :
             Asked(d, i) /\ Asked(d, j) /\ queue[d][i].session = queue[d][j].session
               => i = j
    BY <2>1 DEF PreparesFresh, Asks
  <2> HIDE DEF Asked, Fresh
  <2> QED
    BY <2>1, <2>5, <2>6
<1>6. CASE d = c
  <2>1. queue'[d] = Tail(queue[c])
    BY <1>6 DEF Done, TypeOK
  <2>2. /\ i \in Nat \ {0}
        /\ i + 1 \in DOMAIN queue[c]
        /\ queue'[d][i] = queue[c][i + 1]
        /\ queue[c][i + 1] \in Request
    BY <1>1, <1>2, <2>1
  <2>3. Asked(d, i) => Asks(c, i + 1)
    BY <2>2 DEF Asks
  <2>4. Asks(c, 1) /\ Asks(c, i + 1) => queue[c][i + 1].session # Session1(c)
    BY <1>3, <2>2 DEF PreparesFresh, Session1
  <2>5. \A j \in DOMAIN queue'[d] :
         Asked(d, i) /\ Asked(d, j) /\ queue'[d][i].session = queue'[d][j].session
           => i = j
    <3> SUFFICES ASSUME NEW j \in DOMAIN queue'[d], Asked(d, i), Asked(d, j),
                        queue'[d][i].session = queue'[d][j].session
                 PROVE  i = j
      OBVIOUS
    <3>1. /\ j \in Nat
          /\ j + 1 \in DOMAIN queue[c]
          /\ queue'[d][j] = queue[c][j + 1]
      BY <1>1, <1>2, <2>1
    <3>2. Asks(c, i + 1) /\ Asks(c, j + 1)
      BY <2>2, <3>1 DEF Asks
    <3>3. i + 1 = j + 1
      BY <2>2, <3>1, <3>2 DEF PreparesFresh
    <3> QED
      BY <2>2, <3>1, <3>3
  <2>6. /\ Connection(queue[c][i + 1].session) = c
        /\ Asks(c, i + 1) => /\ ~HasToken(queue[c][i + 1].session)
                             /\ sessions[queue[c][i + 1].session].phase # "idle"
    BY <2>2 DEF PreparesFresh
  <2>7. queue[c][i + 1].session \in Sessions
    BY <2>2 DEF Request
  <2>8. Asked(d, i) => Settles(queue[c][i + 1].session)
    BY <2>3, <2>4, <2>7
  <2>9. Asked(d, i) => Fresh(queue[c][i + 1].session)
    <3> HIDE DEF Asked, Fresh
    <3> QED
      BY <1>4, <2>3, <2>6, <2>7, <2>8
  <2>10. Connection(queue'[d][i].session) = d
    BY <1>6, <2>2, <2>6
  <2>11. Asked(d, i) => Fresh(queue'[d][i].session)
    BY <2>2, <2>9
  <2> HIDE DEF Asked, Fresh
  <2> QED
    BY <2>5, <2>10, <2>11
<1> QED
  BY <1>5, <1>6

\* Sending a request keeps them in order; prepareRecording is sent once.
LEMMA SendFresh ==
  ASSUME TypeOK, PreparesFresh, NEW s \in Sessions,
         NEW method \in {"prepareRecording", "activateRecording", "fencedAppend",
                         "fencedSetStatus", "releaseRecording"},
         Send(s, method),
         \A u \in Sessions : Settles(u),
         method = "prepareRecording" =>
           /\ ~HasToken(s)
           /\ sessions[s].phase = "idle"
           /\ sessions'[s].phase # "idle"
  PROVE  PreparesFresh'
<1> DEFINE c == Connection(s)
           new == [session |-> s, method |-> method]
           Asked(d, i) == queue'[d][i].method = "prepareRecording"
           Fresh(u) == sessions'[u].token = NoToken /\ sessions'[u].phase # "idle"
<1>1. /\ c \in Connections
      /\ queue[c] \in Seq(Request)
      /\ queue'[c] = Append(queue[c], new)
      /\ \A d \in Connections \ {c} : queue'[d] = queue[d]
  BY ConnectionOfAssumption DEF Connection, Send, TypeOK
<1>2. ASSUME NEW u \in Sessions, ~HasToken(u), sessions[u].phase # "idle"
      PROVE  Fresh(u)
  BY <1>2 DEF Settles, HasToken
<1>3. ASSUME NEW d \in Connections, NEW i \in DOMAIN queue[d]
      PROVE  /\ queue[d][i].session \in Sessions
             /\ Connection(queue[d][i].session) = d
             /\ Asks(d, i) => Fresh(queue[d][i].session)
             /\ method = "prepareRecording" /\ Asks(d, i) => queue[d][i].session # s
  <2>1. queue[d][i] \in Request
    BY DEF TypeOK
  <2>2. queue[d][i].session \in Sessions
    BY <2>1 DEF Request
  <2> HIDE DEF Fresh
  <2> QED
    BY <1>2, <2>2 DEF PreparesFresh
<1> SUFFICES ASSUME NEW d \in Connections, NEW i \in DOMAIN queue'[d]
             PROVE  /\ Connection(queue'[d][i].session) = d
                    /\ Asked(d, i) => Fresh(queue'[d][i].session)
                    /\ \A j \in DOMAIN queue'[d] :
                         Asked(d, i) /\ Asked(d, j)
                           /\ queue'[d][i].session = queue'[d][j].session => i = j
  BY DEF PreparesFresh, Asks, HasToken, Connection
<1>4. CASE d # c
  <2>1. queue'[d] = queue[d] /\ (\A j \in DOMAIN queue[d] : Asked(d, j) <=> Asks(d, j))
    BY <1>1, <1>4 DEF Asks
  <2> HIDE DEF Asked, Fresh
  <2> QED
    BY <1>3, <2>1 DEF PreparesFresh
<1>5. CASE d = c
  <2>1. \A j \in DOMAIN queue'[d] :
          \/ /\ j \in DOMAIN queue[c]
             /\ queue'[d][j] = queue[c][j]
             /\ Asked(d, j) <=> Asks(c, j)
          \/ j = Len(queue[c]) + 1 /\ queue'[d][j] = new
    BY <1>1, <1>5 DEF Asks
  <2>2. new.session = s /\ new.method = method
    OBVIOUS
  <2>3. Asked(d, i) /\ queue'[d][i] = new => Fresh(s) /\ method = "prepareRecording"
    BY <2>2 DEF Settles, HasToken
  <2>4. \A j \in DOMAIN queue'[d] :
          Asked(d, j) /\ queue'[d][j] = new => method = "prepareRecording"
    BY <2>2
  <2> HIDE DEF Asked, Fresh, new
  <2>5. Connection(queue'[d][i].session) = d
    BY <1>1, <1>3, <1>5, <2>1, <2>2
  <2>6. Asked(d, i) => Fresh(queue'[d][i].session)
    BY <1>1, <1>3, <2>1, <2>2, <2>3
  <2>7. ASSUME NEW j \in DOMAIN queue'[d], Asked(d, i), Asked(d, j),
               queue'[d][i].session = queue'[d][j].session
        PROVE  i = j
    <3>1. CASE i \in DOMAIN queue[c] /\ queue'[d][i] = queue[c][i] /\ Asks(c, i)
      BY <1>1, <1>3, <2>1, <2>2, <2>4, <2>7, <3>1 DEF PreparesFresh
    <3>2. CASE i = Len(queue[c]) + 1 /\ queue'[d][i] = new
      BY <1>1, <1>3, <2>1, <2>2, <2>4, <2>7, <3>2
    <3> QED
      BY <2>1, <2>7, <3>1, <3>2
  <2> QED
    BY <2>5, <2>6, <2>7
<1> QED
  BY <1>4, <1>5

-----------------------------------------------------------------------------
(* Tokens                                                                  *)

\* Every step but Prepare keeps the tokens it finds, and the owners it keeps
\* neither change incarnation nor lose generations.
LEMMA TokensKept ==
  ASSUME TypeOK, TypeOK', TokensSound, incarnations' = incarnations,
         \A s \in Sessions :
           /\ sessions'[s].token = sessions[s].token
           /\ sessions'[s].recording = sessions[s].recording
           /\ sessions'[s].phase = "idle" => sessions[s].phase = "idle",
         \A r \in Recordings :
           owners'[r] # NoOwner =>
             /\ owners[r] # NoOwner
             /\ owners'[r].incarnation = owners[r].incarnation
             /\ owners'[r].generation = owners[r].generation
             /\ owners'[r].owner <= owners'[r].generation
  PROVE  TokensSound'
<1>1. \A s \in Sessions : Recording(s) \in Recordings
  BY DEF TypeOK, Session, Recording
<1>2. \A s \in Sessions : (HasToken(s)' <=> HasToken(s)) /\ Recording(s)' = Recording(s)
  BY DEF HasToken, Recording
<1>3. OwnersBounded'
  BY DEF TokensSound, OwnersBounded
<1>4. TokensReserved'
  BY <1>1, <1>2 DEF TokensSound, TokensReserved
<1>5. TokensDistinct'
  BY <1>2 DEF TokensSound, TokensDistinct
<1>6. IdleFresh'
  BY <1>2 DEF TokensSound, IdleFresh
<1> QED
  BY <1>3, <1>4, <1>5, <1>6 DEF TokensSound

\* What Prepare does to owners and sessions.
LEMMA PrepareEffect ==
  ASSUME OwnershipInv, NEW c \in Connections, Prepare(c)
  PROVE  LET s == Session1(c)
             r == Recording(s)
         IN /\ s \in Sessions
            /\ r \in Recordings
            /\ ~HasToken(s)
            /\ Asks(c, 1)
            /\ owners' = [owners EXCEPT ![r] = Reserved(r)]
            /\ sessions'[s].token = [incarnation |-> Reserved(r).incarnation,
                                     generation  |-> Reserved(r).generation]
            /\ sessions'[s].recording = r
            /\ sessions'[s].phase = "claimed"
            /\ \A u \in Sessions \ {s} : sessions'[u] = sessions[u]
<1> DEFINE s == Session1(c)
           r == Recording(s)
           token == [incarnation |-> Reserved(r).incarnation,
                     generation  |-> Reserved(r).generation]
<1>1. s \in Sessions /\ r \in Recordings
  BY HeadType DEF OwnershipInv, Prepare, Next1
<1>2. Asks(c, 1) /\ 1 \in DOMAIN queue[c] /\ queue[c][1].session = s
  BY DEF OwnershipInv, TypeOK, Prepare, Next1, Asks, Session1
<1>3. ~HasToken(s)
  BY <1>2 DEF OwnershipInv, PreparesFresh
<1>4. sessions[s] \in Session
  BY <1>1 DEF OwnershipInv, TypeOK
<1>5. sessions' = [sessions EXCEPT ![s] =
                     [[sessions[s] EXCEPT !.phase = "claimed"] EXCEPT !.token = token]]
  BY <1>1, <1>4 DEF Prepare, OwnershipInv, TypeOK, Session
<1> HIDE DEF token
<1>6. /\ sessions'[s].token = token
      /\ sessions'[s].recording = sessions[s].recording
      /\ sessions'[s].phase = "claimed"
      /\ \A u \in Sessions \ {s} : sessions'[u] = sessions[u]
  BY <1>1, <1>4, <1>5 DEF OwnershipInv, TypeOK, Session
<1> QED
  BY <1>1, <1>2, <1>3, <1>6 DEF Prepare, Recording, token

\* The token a preparation hands out is new for its recording, because it has
\* a new incarnation or the next generation of the old one.
LEMMA PrepareTokens ==
  ASSUME OwnershipInv, TypeOK', NEW c \in Connections, Prepare(c)
  PROVE  TokensSound'
<1> DEFINE s == Session1(c)
           r == Recording(s)
<1>1. /\ s \in Sessions
      /\ r \in Recordings
      /\ owners' = [owners EXCEPT ![r] = Reserved(r)]
      /\ sessions'[s].token = [incarnation |-> Reserved(r).incarnation,
                               generation  |-> Reserved(r).generation]
      /\ sessions'[s].recording = r
      /\ sessions'[s].phase = "claimed"
      /\ \A u \in Sessions \ {s} : sessions'[u] = sessions[u]
  BY PrepareEffect
<1>2. /\ owners[r] = NoOwner =>
           /\ incarnations' = incarnations + 1
           /\ Reserved(r).incarnation = incarnations + 1
           /\ Reserved(r).generation = 1
           /\ Reserved(r).owner = 0
      /\ owners[r] # NoOwner =>
           /\ incarnations' = incarnations
           /\ owners[r].generation < MaxGeneration
           /\ Reserved(r).incarnation = owners[r].incarnation
           /\ Reserved(r).generation = owners[r].generation + 1
           /\ Reserved(r).owner = owners[r].owner
  <2>1. CASE owners[r] = NoOwner
    BY <2>1 DEF Prepare, Reserved
  <2>2. CASE owners[r] # NoOwner
    <3>1. owners[r] \in Owner
      BY <1>1, <2>2 DEF OwnershipInv, TypeOK
    <3> QED
      BY <2>2, <3>1 DEF Prepare, Reserved, Owner
  <2> QED
    BY <2>1, <2>2
<1>3. /\ incarnations \in Nat
      /\ owners[r] # NoOwner =>
           /\ owners[r] \in Owner
           /\ owners[r].incarnation \in 1 .. incarnations
           /\ owners[r].owner <= owners[r].generation
  BY <1>1 DEF OwnershipInv, TypeOK, TokensSound, OwnersBounded, Owner
<1>4. ASSUME NEW u \in Sessions
      PROVE  /\ Recording(u)' = Recording(u)
             /\ Recording(u) \in Recordings
             /\ sessions[u].token \in Token
             /\ HasToken(u) =>
                  /\ sessions[u].token.incarnation \in 1 .. incarnations
                  /\ LET o == owners[Recording(u)]
                     IN o # NoOwner /\ o.incarnation = sessions[u].token.incarnation =>
                          sessions[u].token.generation <= o.generation
  BY <1>1 DEF OwnershipInv, TypeOK, Session, Recording, TokensSound, TokensReserved
<1>5. owners'[r] = Reserved(r) /\ \A q \in Recordings \ {r} : owners'[q] = owners[q]
  BY <1>1 DEF OwnershipInv, TypeOK
<1>6. OwnersBounded'
  <2> SUFFICES ASSUME NEW q \in Recordings, owners'[q] # NoOwner
               PROVE  owners'[q].incarnation <= incarnations'
                      /\ owners'[q].owner <= owners'[q].generation
    BY DEF OwnersBounded
  <2>1. CASE q = r
    BY <1>2, <1>3, <1>5, <2>1 DEF Owner
  <2>2. CASE q # r
    <3>1. /\ owners[q] \in Owner
          /\ owners[q].incarnation <= incarnations
          /\ owners[q].owner <= owners[q].generation
      BY <1>5, <2>2 DEF OwnershipInv, TypeOK, TokensSound, OwnersBounded
    <3> QED
      BY <1>2, <1>3, <1>5, <2>2, <3>1 DEF Owner
  <2> QED
    BY <2>1, <2>2
<1>7. TokensReserved'
  <2> SUFFICES ASSUME NEW u \in Sessions, HasToken(u)'
               PROVE  /\ sessions'[u].token.incarnation \in 1 .. incarnations'
                      /\ owners'[Recording(u)] # NoOwner
                         /\ owners'[Recording(u)].incarnation
                              = sessions'[u].token.incarnation =>
                           sessions'[u].token.generation
                             <= owners'[Recording(u)].generation
    BY <1>4 DEF TokensReserved
  <2>1. CASE u = s
    <3>1. Recording(u) = r /\ Reserved(r).generation \in Nat
      BY <1>2, <1>3, <2>1 DEF Owner
    <3> QED
      BY <1>1, <1>2, <1>3, <1>5, <2>1, <3>1
  <2>2. CASE u # s
    <3>1. sessions'[u] = sessions[u] /\ HasToken(u)
      BY <1>1, <2>2 DEF HasToken
    <3>2. CASE Recording(u) = r
      BY <1>2, <1>3, <1>4, <1>5, <3>1, <3>2 DEF Owner, Token
    <3>3. CASE Recording(u) # r
      BY <1>2, <1>3, <1>4, <1>5, <3>1, <3>3
    <3> QED
      BY <3>2, <3>3
  <2> QED
    BY <2>1, <2>2
<1>8. ASSUME NEW u \in Sessions \ {s}, HasToken(u), Recording(u) = r
      PROVE  sessions[u].token # sessions'[s].token
  <2>1. CASE owners[r] = NoOwner
    BY <1>1, <1>2, <1>3, <1>4, <1>8, <2>1
  <2>2. CASE owners[r] # NoOwner
    BY <1>1, <1>2, <1>3, <1>4, <1>8, <2>2 DEF Owner, Token
  <2> QED
    BY <2>1, <2>2
<1>9. TokensDistinct'
  <2> SUFFICES ASSUME NEW u \in Sessions, NEW v \in Sessions, HasToken(u)',
                      Recording(u) = Recording(v),
                      sessions'[u].token = sessions'[v].token
               PROVE  u = v
    BY <1>4 DEF TokensDistinct
  <2>1. CASE u # s /\ v # s
    <3>1. sessions'[u] = sessions[u] /\ sessions'[v] = sessions[v] /\ HasToken(u)
      BY <1>1, <2>1 DEF HasToken
    <3> QED
      BY <3>1 DEF OwnershipInv, TokensSound, TokensDistinct
  <2>2. CASE u = s /\ v # s
    <3>1. HasToken(v) /\ sessions'[v] = sessions[v]
      BY <1>1, <2>2 DEF HasToken
    <3> QED
      BY <1>8, <2>2, <3>1
  <2>3. CASE u # s /\ v = s
    <3>1. HasToken(u) /\ sessions'[u] = sessions[u]
      BY <1>1, <2>3 DEF HasToken
    <3> QED
      BY <1>8, <2>3, <3>1
  <2> QED
    BY <2>1, <2>2, <2>3
<1>10. IdleFresh'
  <2> SUFFICES ASSUME NEW u \in Sessions, sessions'[u].phase = "idle"
               PROVE  ~HasToken(u)'
    BY DEF IdleFresh
  <2>1. u # s
    BY <1>1
  <2>2. sessions'[u] = sessions[u]
    BY <1>1, <2>1
  <2> QED
    BY <2>2 DEF OwnershipInv, TokensSound, IdleFresh, HasToken
<1> QED
  BY <1>6, <1>7, <1>9, <1>10 DEF TokensSound

-----------------------------------------------------------------------------
(* The invariant, action by action                                         *)

\* It holds at first.
LEMMA InitOwnership == Init => OwnershipInv
<1> SUFFICES ASSUME Init PROVE OwnershipInv
  OBVIOUS
<1>1. TypeOK
  BY InitType
<1>2. \A s \in Sessions : ~HasToken(s)
  BY DEF Init, HasToken
<1>3. TokensSound
  BY <1>2 DEF Init, TokensSound, OwnersBounded, TokensReserved, TokensDistinct, IdleFresh
<1>4. PreparesFresh
  BY DEF Init, PreparesFresh
<1> QED
  BY <1>1, <1>3, <1>4 DEF OwnershipInv

\* Entering a phase changes nothing else of a session.
LEMMA EnterKeeps ==
  ASSUME TypeOK, NEW s \in Sessions, NEW phase, phase # "idle", Enter(s, phase)
  PROVE  /\ \A u \in Sessions : /\ sessions'[u].token = sessions[u].token
                               /\ sessions'[u].recording = sessions[u].recording
                               /\ sessions'[u].phase = "idle" => sessions[u].phase = "idle"
                               /\ Settles(u)
         /\ sessions'[s].phase = phase
<1>1. \A u \in Sessions : sessions[u] \in Session
  BY DEF TypeOK
<1>2. /\ sessions'[s] = [sessions[s] EXCEPT !.phase = phase]
      /\ \A u \in Sessions \ {s} : sessions'[u] = sessions[u]
  BY DEF Enter, TypeOK
<1>3. /\ sessions'[s].token = sessions[s].token
      /\ sessions'[s].recording = sessions[s].recording
      /\ sessions'[s].phase = phase
  BY <1>1, <1>2 DEF Session
<1> QED
  BY <1>2, <1>3 DEF Settles, HasToken

\* So does a crash.
LEMMA CrashKeeps ==
  ASSUME TypeOK, NEW c \in Connections, Crash(c), NEW s \in Sessions
  PROVE  /\ sessions'[s].token = sessions[s].token
         /\ sessions'[s].recording = sessions[s].recording
         /\ sessions'[s].phase = "idle" => sessions[s].phase = "idle"
         /\ Settles(s)
<1>1. sessions[s] \in Session
  BY DEF TypeOK
<1>2. \/ sessions'[s] = sessions[s]
      \/ sessions'[s] = [sessions[s] EXCEPT !.phase = "closed"]
  BY DEF Crash
<1> QED
  BY <1>1, <1>2 DEF Session, Settles, HasToken

\* Queues that stay, or are emptied, stay in order while sessions settle.
LEMMA QueueKept ==
  ASSUME TypeOK, PreparesFresh, \A s \in Sessions : Settles(s),
         \A d \in Connections : queue'[d] = queue[d] \/ queue'[d] = << >>
  PROVE  PreparesFresh'
<1> SUFFICES ASSUME NEW d \in Connections, NEW i \in DOMAIN queue'[d]
             PROVE  LET u == queue'[d][i].session
                        asks(j) == queue'[d][j].method = "prepareRecording"
                    IN /\ Connection(u) = d
                       /\ asks(i) => sessions'[u].token = NoToken /\ sessions'[u].phase # "idle"
                       /\ \A j \in DOMAIN queue'[d] :
                            asks(i) /\ asks(j) /\ u = queue'[d][j].session => i = j
  BY DEF PreparesFresh, Asks, HasToken, Connection
<1>1. queue'[d] = queue[d]
  OBVIOUS
<1>2. queue[d][i].session \in Sessions
  <2>1. queue[d] \in Seq(Request) /\ i \in DOMAIN queue[d]
    BY <1>1 DEF TypeOK
  <2>2. queue[d][i] \in Request
    BY <2>1
  <2> QED
    BY <2>2 DEF Request
<1>3. Settles(queue[d][i].session)
  BY <1>2
<1> QED
  BY <1>1, <1>3 DEF PreparesFresh, Asks, Settles, HasToken

\* Operations without a session keep it.
LEMMA OperationOwnership ==
  ASSUME OwnershipInv, TypeOK', NEW c \in Connections, NEW r \in Recordings,
         Operation(c, r)
  PROVE  OwnershipInv'
<1>1. UNCHANGED <<queue, sessions, incarnations>>
  BY DEF Operation, Create, Rename, StageBaseline, PublishBaseline,
         PublishBaselineFails, BindCapture, PlainWrite, Remove, RemoveFails, Callers
<1>2. \A q \in Recordings : owners'[q] # NoOwner => owners'[q] = owners[q]
  <2>1. CASE Remove(c, r)
    BY <2>1 DEF Remove, OwnershipInv, TypeOK
  <2>2. CASE ~Remove(c, r)
    BY <2>2 DEF Operation, Create, Rename, StageBaseline, PublishBaseline,
         PublishBaselineFails, BindCapture, PlainWrite, RemoveFails, Abandon, tables,
         WriterAppend, WriterAppendFails,
         WriterAppendDuplicate, WriterAppendRefused, WriterSetStatus
  <2> QED
    BY <2>1, <2>2
<1>3. TokensSound'
  BY <1>1, <1>2, TokensKept DEF OwnershipInv, TokensSound, OwnersBounded
<1>4. PreparesFresh'
  BY <1>1 DEF OwnershipInv, PreparesFresh, Asks, HasToken
<1> QED
  BY <1>3, <1>4 DEF OwnershipInv

\* A caller's step keeps owners, tokens and recordings.
LEMMA CallerKeeps ==
  ASSUME OwnershipInv, NEW s \in Sessions, Caller(s)
  PROVE  /\ owners' = owners /\ incarnations' = incarnations
         /\ \A u \in Sessions :
              /\ sessions'[u].token = sessions[u].token
              /\ sessions'[u].recording = sessions[u].recording
              /\ sessions'[u].phase = "idle" => sessions[u].phase = "idle"
              /\ Settles(u)
<1>1. owners' = owners /\ incarnations' = incarnations
  BY DEF Caller, PrepareRecording, Activate, LeaseWrite, CloseLease, AdmitRelease,
         StoreUnchanged, tables
<1>2. CASE sessions' = sessions
  BY <1>1, <1>2 DEF Settles, HasToken
<1>3. CASE \E phase : phase # "idle" /\ Enter(s, phase)
  <2>1. PICK phase : phase # "idle" /\ Enter(s, phase)
    BY <1>3
  <2>2. TypeOK
    BY DEF OwnershipInv
  <2>3. \A u \in Sessions :
           /\ sessions'[u].token = sessions[u].token
           /\ sessions'[u].recording = sessions[u].recording
           /\ sessions'[u].phase = "idle" => sessions[u].phase = "idle"
           /\ Settles(u)
    BY <2>1, <2>2, EnterKeeps DEF Enter, Settles, HasToken
  <2> QED
    BY <1>1, <2>3
<1> QED
  BY <1>1, <1>2, <1>3 DEF Caller, PrepareRecording, Activate, LeaseWrite, CloseLease,
     AdmitRelease, Phase

\* Callers that send requests keep it.
LEMMA CallerOwnership ==
  ASSUME OwnershipInv, TypeOK', NEW s \in Sessions, Caller(s)
  PROVE  OwnershipInv'
<1>1. /\ owners' = owners /\ incarnations' = incarnations
      /\ \A u \in Sessions :
           /\ sessions'[u].token = sessions[u].token
           /\ sessions'[u].recording = sessions[u].recording
           /\ sessions'[u].phase = "idle" => sessions[u].phase = "idle"
           /\ Settles(u)
  BY CallerKeeps
<1>2. TokensSound'
  BY <1>1, TokensKept DEF OwnershipInv, TokensSound, OwnersBounded
<1>3. PreparesFresh'
  <2>1. CASE PrepareRecording(s)
    <3>1. ~HasToken(s) /\ sessions[s].phase = "idle"
      BY <2>1 DEF PrepareRecording, OwnershipInv, TokensSound, IdleFresh
    <3>2. sessions'[s].phase # "idle"
      BY <2>1, EnterKeeps DEF PrepareRecording, OwnershipInv, Phase
    <3> QED
      BY <1>1, <2>1, <3>1, <3>2, SendFresh DEF PrepareRecording, OwnershipInv
  <2>2. CASE Activate(s)
    BY <1>1, <2>2, SendFresh DEF Activate, OwnershipInv
  <2>3. CASE LeaseWrite(s, "fencedAppend")
    BY <1>1, <2>3, SendFresh DEF LeaseWrite, OwnershipInv
  <2>4. CASE LeaseWrite(s, "fencedSetStatus")
    BY <1>1, <2>4, SendFresh DEF LeaseWrite, OwnershipInv
  <2>5. CASE CloseLease(s)
    <3>1. queue' = queue
      BY <2>5 DEF CloseLease
    <3> QED
      BY <1>1, <3>1, QueueKept DEF OwnershipInv
  <2>6. CASE AdmitRelease(s)
    BY <1>1, <2>6, SendFresh DEF AdmitRelease, OwnershipInv
  <2> QED
    BY <2>1, <2>2, <2>3, <2>4, <2>5, <2>6 DEF Caller
<1> QED
  BY <1>2, <1>3 DEF OwnershipInv

\* What a worker's step other than Prepare does to owners and sessions.
LEMMA WorkerEffect ==
  ASSUME OwnershipInv, NEW c \in Connections, Worker(c), ~Prepare(c)
  PROVE  /\ incarnations' = incarnations
         /\ \A s \in Sessions :
              /\ sessions'[s].token = sessions[s].token
              /\ sessions'[s].recording = sessions[s].recording
              /\ sessions'[s].phase = "idle" => sessions[s].phase = "idle"
              /\ Settles(s)
         /\ \A r \in Recordings :
              owners'[r] # NoOwner =>
                /\ owners[r] # NoOwner
                /\ owners'[r].incarnation = owners[r].incarnation
                /\ owners'[r].generation = owners[r].generation
                /\ owners'[r].owner <= owners'[r].generation
<1>1. incarnations' = incarnations
  BY DEF Worker, ActivateClaim, FencedAppend, FencedSetStatus, Release, RequestFails,
         Crash, StoreUnchanged
<1>2. ASSUME NEW s \in Sessions
      PROVE  /\ sessions'[s].token = sessions[s].token
             /\ sessions'[s].recording = sessions[s].recording
             /\ sessions'[s].phase = "idle" => sessions[s].phase = "idle"
             /\ Settles(s)
  <2>1. CASE sessions' = sessions
    BY <2>1 DEF Settles, HasToken
  <2>2. CASE queue[c] # << >> /\ \E phase : phase # "idle" /\ Enter(Session1(c), phase)
    <3>1. PICK phase : phase # "idle" /\ Enter(Session1(c), phase)
      BY <2>2
    <3>2. Session1(c) \in Sessions
      BY <2>2, HeadType DEF OwnershipInv
    <3>3. TypeOK
      BY DEF OwnershipInv
    <3> QED
      BY <3>1, <3>2, <3>3, EnterKeeps DEF Enter, Settles, HasToken
  <2>3. CASE Crash(c)
    BY <2>3, CrashKeeps DEF OwnershipInv
  <2> QED
    BY <2>1, <2>2, <2>3 DEF Worker, ActivateClaim, FencedAppend, FencedSetStatus, Release,
       RequestFails, StoreUnchanged, Next1, Phase
<1>3. \A r \in Recordings : owners[r] \in Owner \union {NoOwner}
  BY DEF OwnershipInv, TypeOK
<1>4. \A r \in Recordings : owners[r] # NoOwner => owners[r].owner <= owners[r].generation
  BY DEF OwnershipInv, TokensSound, OwnersBounded
<1>5. CASE owners' = owners
  BY <1>1, <1>2, <1>4, <1>5
<1>6. CASE ActivateClaim(c)
  <2> DEFINE r == Recording(Session1(c))
             generation == sessions[Session1(c)].token.generation
  <2>1. r \in Recordings /\ owners[r] \in Owner /\ generation <= owners[r].generation
    BY <1>3, <1>6, HeadType DEF OwnershipInv, ActivateClaim, MayActivate, Next1
  <2>2. owners' = [owners EXCEPT ![r] =
                     [[owners[r] EXCEPT !.owner = generation] EXCEPT !.active = TRUE]]
    BY <1>6, <2>1 DEF ActivateClaim, OwnershipInv, TypeOK, Owner
  <2> HIDE DEF r, generation
  <2>3. /\ owners'[r].incarnation = owners[r].incarnation
        /\ owners'[r].generation = owners[r].generation
        /\ owners'[r].owner = generation
        /\ owners[r] # NoOwner
        /\ \A q \in Recordings \ {r} : owners'[q] = owners[q]
    BY <2>1, <2>2 DEF OwnershipInv, TypeOK, Owner, NoOwner
  <2> QED
    BY <1>1, <1>2, <1>4, <2>1, <2>3
<1>7. CASE Release(c)
  <2> DEFINE r == Recording(Session1(c))
             o == Released(r, sessions[Session1(c)].token)
  <2>1. r \in Recordings
    BY <1>7, HeadType DEF OwnershipInv, Release, Next1
  <2>2. owners' = [owners EXCEPT ![r] = o]
    BY <1>7 DEF Release
  <2> HIDE DEF r
  <2>3. o = owners[r] \/ (owners[r] # NoOwner /\ o = [owners[r] EXCEPT !.active = FALSE])
    BY Zenon DEF Released
  <2> HIDE DEF o
  <2>4. /\ owners'[r] = o
        /\ \A q \in Recordings \ {r} : owners'[q] = owners[q]
    BY <2>1, <2>2 DEF OwnershipInv, TypeOK
  <2>5. o # NoOwner =>
          /\ owners[r] # NoOwner
          /\ o.incarnation = owners[r].incarnation
          /\ o.generation = owners[r].generation
          /\ o.owner = owners[r].owner
    BY <1>3, <2>1, <2>3 DEF Owner
  <2> QED
    BY <1>1, <1>2, <1>4, <2>1, <2>4, <2>5
<1> QED
  BY <1>5, <1>6, <1>7 DEF Worker, FencedAppend, FencedSetStatus, RequestFails, Crash,
     WriterAppend, WriterAppendFails,
     WriterAppendDuplicate, WriterAppendRefused, WriterSetStatus, Abandon,
     StoreUnchanged, tables

\* A worker that runs a request, or dies, keeps it.
LEMMA WorkerOwnership ==
  ASSUME OwnershipInv, TypeOK', NEW c \in Connections, Worker(c)
  PROVE  OwnershipInv'
<1>1. TokensSound'
  BY PrepareTokens, WorkerEffect, TokensKept DEF OwnershipInv
<1>2. PreparesFresh'
  <2>1. CASE Prepare(c)
    <3>1. \A s \in Sessions :
            \/ Settles(s)
            \/ Asks(c, 1) /\ s = Session1(c) /\ sessions'[s].phase # "idle"
      BY <2>1, PrepareEffect DEF Settles, HasToken
    <3> QED
      BY <2>1, <3>1, DoneFresh DEF OwnershipInv, Prepare, Next1
  <2>2. CASE Crash(c)
    <3>1. \A d \in Connections : queue'[d] = queue[d] \/ queue'[d] = << >>
      BY <2>2 DEF Crash, OwnershipInv, TypeOK
    <3> QED
      BY <2>2, <3>1, CrashKeeps, QueueKept DEF OwnershipInv
  <2>3. CASE ~Prepare(c) /\ ~Crash(c)
    <3>1. queue[c] # << >> /\ Done(c)
      BY <2>3 DEF Worker, ActivateClaim, FencedAppend, FencedSetStatus, Release,
         RequestFails, Next1
    <3> QED
      BY <2>3, <3>1, WorkerEffect, DoneFresh DEF OwnershipInv
  <2> QED
    BY <2>1, <2>2, <2>3
<1> QED
  BY <1>1, <1>2 DEF OwnershipInv

\* Tokens, owners and queued preparations stay in order in every behaviour.
THEOREM OwnershipInvariant == Spec => []OwnershipInv
<1>1. Init => OwnershipInv
  BY InitOwnership
<1>2. OwnershipInv /\ TypeOK' /\ [Next]_vars => OwnershipInv'
  <2> SUFFICES ASSUME OwnershipInv, TypeOK', [Next]_vars PROVE OwnershipInv'
    OBVIOUS
  <2>1. CASE UNCHANGED vars
    BY <2>1 DEF vars, OwnershipInv, TokensSound, OwnersBounded, TokensReserved,
       TokensDistinct, IdleFresh, PreparesFresh, Asks, HasToken, Recording
  <2>2. CASE Next
    BY <2>2, OperationOwnership, CallerOwnership, WorkerOwnership DEF Next
  <2> QED
    BY <2>1, <2>2
<1> QED
  BY <1>1, <1>2, TypeCorrect, PTL DEF Spec

\* Who holds a token keeps it.
LEMMA HolderKept ==
  ASSUME OwnershipInv, Next, NEW s \in Sessions, HasToken(s)
  PROVE  sessions'[s].token = sessions[s].token /\ sessions'[s].recording = Recording(s)
<1>1. CASE \E c \in Connections, q \in Recordings : Operation(c, q)
  BY <1>1 DEF Operation, Create, Rename, StageBaseline, PublishBaseline,
     PublishBaselineFails, BindCapture, PlainWrite, Remove, RemoveFails, Callers,
     Recording
<1>2. CASE \E u \in Sessions : Caller(u)
  BY <1>2, CallerKeeps DEF Recording
<1>3. CASE \E c \in Connections : Worker(c) /\ ~Prepare(c)
  BY <1>3, WorkerEffect DEF Recording
<1>4. CASE \E c \in Connections : Prepare(c)
  <2>1. PICK c \in Connections : Prepare(c)
    BY <1>4
  <2>2. s # Session1(c)
    BY <2>1, PrepareEffect
  <2> QED
    BY <2>1, <2>2, PrepareEffect DEF Recording
<1> QED
  BY <1>1, <1>2, <1>3, <1>4 DEF Next

\* The steps that write recording_owners.
LEMMA OwnersMove ==
  ASSUME Next
  PROVE  \/ owners' = owners
         \/ \E c \in Connections : Prepare(c) \/ ActivateClaim(c) \/ Release(c)
         \/ \E c \in Connections, q \in Recordings : Remove(c, q)
  BY DEF Next, Operation, Create, Rename, StageBaseline, PublishBaseline,
     PublishBaselineFails, BindCapture, PlainWrite, RemoveFails, Abandon, tables,
     WriterAppend, WriterAppendFails,
     WriterAppendDuplicate, WriterAppendRefused, WriterSetStatus, Caller,
     PrepareRecording, Activate, LeaseWrite, CloseLease, AdmitRelease, StoreUnchanged,
     Worker, FencedAppend, FencedSetStatus, RequestFails, Crash

-----------------------------------------------------------------------------
(* What the invariant is for                                               *)

\* Two sessions never hold the right to write one recording together, and no
\* caller without a token writes while a session does.
THEOREM OneWriterHolds == Spec => []OneWriter
<1>1. OwnershipInv => OneWriter
  <2> SUFFICES ASSUME OwnershipInv, NEW s \in Sessions, Live(s)
               PROVE  /\ \A u \in Sessions :
                           Live(u) /\ Recording(s) = Recording(u) => s = u
                      /\ ~MayWrite(Recording(s), NoToken)
    BY DEF OneWriter
  <2>1. Recording(s) \in Recordings
    BY DEF OwnershipInv, TypeOK, Session, Recording
  <2> DEFINE o == owners[Recording(s)]
  <2>2. /\ o \in Owner
        /\ sessions[s].token = [incarnation |-> o.incarnation, generation |-> o.owner]
    BY <2>1 DEF Live, HasToken, MayWrite, OwnershipInv, TypeOK
  <2>3. o # NoOwner
    BY DEF Live, HasToken, MayWrite
  <2>4. ~MayWrite(Recording(s), NoToken)
    BY <2>2, <2>3 DEF MayWrite, NoToken, Owner
  <2>5. ASSUME NEW u \in Sessions, Live(u), Recording(s) = Recording(u)
        PROVE  s = u
    <3>1. sessions[u].token = sessions[s].token
      BY <2>2, <2>3, <2>5 DEF Live, MayWrite
    <3> QED
      BY <2>5, <3>1 DEF Live, OwnershipInv, TokensSound, TokensDistinct
  <2> QED
    BY <2>4, <2>5
<1> QED
  BY <1>1, OwnershipInvariant, PTL

\* A claim or lease that was superseded, released or orphaned by a deletion
\* never gets its rights back, whatever is activated, released, deleted or
\* created again afterwards.
THEOREM FencedStaysFenced == Spec => FencedForever
<1>1. OwnershipInv /\ [Next]_vars => [\A s \in Sessions : Fenced(s) => Fenced(s)']_vars
  <2> SUFFICES ASSUME OwnershipInv, Next, NEW s \in Sessions, Fenced(s)
               PROVE  Fenced(s)'
    OBVIOUS
  <2> DEFINE r == Recording(s)
             t == sessions[s].token
  <2>1. /\ r \in Recordings
        /\ owners[r] \in Owner \union {NoOwner}
        /\ t \in Token
        /\ t # NoToken
        /\ t.incarnation <= incarnations
    BY DEF OwnershipInv, TypeOK, Session, Recording, Fenced, HasToken, TokensSound,
       TokensReserved
  <2>2. /\ sessions'[s].token = t
        /\ sessions'[s].recording = r
    BY HolderKept DEF Fenced
  <2> DEFINE Stale(o) == \/ o = NoOwner
                         \/ o.incarnation # t.incarnation
                         \/ o.owner > t.generation
                         \/ o.owner = t.generation /\ ~o.active
  <2>3. Stale(owners[r])
    BY DEF Fenced
  <2> SUFFICES Stale(owners'[r])
    BY <2>1, <2>2 DEF Fenced, HasToken, Recording
  <2>4. CASE owners'[r] = owners[r] \/ owners'[r] = NoOwner
    BY <2>3, <2>4
  <2>5. CASE \E c \in Connections : Prepare(c)
    <3>1. PICK c \in Connections : Prepare(c)
      BY <2>5
    <3>2. \/ owners'[r] = owners[r]
          \/ owners'[r] = Reserved(r)
      BY <2>1, <3>1, PrepareEffect DEF OwnershipInv, TypeOK
    <3>3. CASE owners[r] = NoOwner /\ owners'[r] = Reserved(r)
      BY <2>1, <3>3 DEF Reserved, OwnershipInv, TypeOK, Token
    <3>4. CASE owners[r] # NoOwner /\ owners'[r] = Reserved(r)
      <4>1. /\ owners'[r].incarnation = owners[r].incarnation
            /\ owners'[r].owner = owners[r].owner
            /\ owners'[r].active = owners[r].active
        BY <2>1, <3>4 DEF Reserved, Owner
      <4> QED
        BY <2>3, <3>4, <4>1
    <3> QED
      BY <2>4, <3>2, <3>3, <3>4
  <2>6. CASE \E c \in Connections : ActivateClaim(c)
    <3>1. PICK c \in Connections : ActivateClaim(c)
      BY <2>6
    <3> DEFINE q == Recording(Session1(c))
               generation == sessions[Session1(c)].token.generation
    <3>2. /\ q \in Recordings
          /\ owners[q] \in Owner
          /\ generation \in Nat
          /\ owners[q].owner < generation
      BY <3>1, HeadType DEF OwnershipInv, TypeOK, ActivateClaim, MayActivate, Next1, Token
    <3>3. owners' = [owners EXCEPT ![q] =
                       [[owners[q] EXCEPT !.owner = generation] EXCEPT !.active = TRUE]]
      BY <3>1, <3>2 DEF ActivateClaim, OwnershipInv, TypeOK, Owner
    <3> HIDE DEF q, generation
    <3>4. CASE q = r
      <4>1. /\ owners'[r].incarnation = owners[r].incarnation
            /\ owners'[r].owner = generation
        BY <3>2, <3>3, <3>4 DEF OwnershipInv, TypeOK, Owner
      <4>2. owners[r] # NoOwner
        BY <3>2, <3>4 DEF Owner, NoOwner
      <4> QED
        BY <2>1, <2>3, <3>2, <3>4, <4>1, <4>2 DEF Owner, Token
    <3>5. CASE q # r
      BY <2>3, <2>1, <3>3, <3>5 DEF OwnershipInv, TypeOK
    <3> QED
      BY <3>4, <3>5
  <2>7. CASE \E c \in Connections : Release(c)
    <3>1. PICK c \in Connections : Release(c)
      BY <2>7
    <3>2. \/ owners'[r] = owners[r]
          \/ owners[r] # NoOwner /\ owners'[r] = [owners[r] EXCEPT !.active = FALSE]
      BY <2>1, <3>1 DEF Release, Released, OwnershipInv, TypeOK
    <3>3. CASE owners[r] # NoOwner /\ owners'[r] = [owners[r] EXCEPT !.active = FALSE]
      BY <2>1, <2>3, <3>3 DEF Owner
    <3> QED
      BY <2>4, <3>2, <3>3
  <2>8. CASE \E c \in Connections, q \in Recordings : Remove(c, q)
    <3>1. owners'[r] = owners[r] \/ owners'[r] = NoOwner
      BY <2>1, <2>8 DEF Remove, OwnershipInv, TypeOK
    <3> QED
      BY <2>4, <3>1
  <2> QED
    BY <2>4, <2>5, <2>6, <2>7, <2>8, OwnersMove
<1> QED
  BY <1>1, OwnershipInvariant, PTL DEF Spec, FencedForever

-----------------------------------------------------------------------------
(* A lease that is closed has drained.                                      *)

\* The methods of a lease's writes.
Writes == {"fencedAppend", "fencedSetStatus"}

\* What a session waits for while a request of it is queued that is not a write.
Waits(method, phase) ==
  \/ method \in Writes
  \/ method = "prepareRecording" /\ phase = "preparing"
  \/ method = "activateRecording" /\ phase = "activating"
  \/ method = "releaseRecording" /\ phase = "releasing"

\* A worker's queue holds requests of its own sessions, and one that is not a write
\* is the last of its session, which waits for it.
QueuesOrdered ==
  \A c \in Connections : \A i \in DOMAIN queue[c] :
    LET s == queue[c][i].session
    IN /\ Connection(s) = c
       /\ Waits(queue[c][i].method, sessions[s].phase)
       /\ \A j \in DOMAIN queue[c] :
            i < j /\ queue[c][j].session = s => queue[c][i].method \in Writes

\* Types of one queued request.
LEMMA QueuedType ==
  ASSUME TypeOK, NEW c \in Connections
  PROVE  /\ queue[c] \in Seq(Request)
         /\ \A i \in DOMAIN queue[c] :
              i \in Nat \ {0} /\ queue[c][i] \in Request /\ queue[c][i].session \in Sessions
         /\ queue[c] # << >> =>
              1 \in DOMAIN queue[c] /\ Head(queue[c]) = queue[c][1] /\ Session1(c) \in Sessions
<1>1. queue[c] \in Seq(Request)
  BY DEF TypeOK
<1>2. \A i \in DOMAIN queue[c] : i \in Nat \ {0} /\ queue[c][i] \in Request
  BY <1>1
<1>3. queue[c] # << >> => 1 \in DOMAIN queue[c] /\ Head(queue[c]) = queue[c][1]
  BY <1>1
<1> QED
  BY <1>1, <1>2, <1>3 DEF Request, Session1

\* Queues that stay or are lost, and sessions that wait only where they did.
LEMMA KeptOrdered ==
  ASSUME TypeOK, QueuesOrdered,
         \A d \in Connections :
           \/ queue'[d] = << >>
           \/ /\ queue'[d] = queue[d]
              /\ \A s \in Sessions :
                   /\ Connection(s) = d
                   /\ sessions[s].phase \in {"preparing", "activating", "releasing"}
                   => sessions'[s].phase = sessions[s].phase
  PROVE  QueuesOrdered'
<1> SUFFICES ASSUME NEW d \in Connections, NEW i \in DOMAIN queue'[d]
             PROVE  /\ Connection(queue'[d][i].session) = d
                    /\ Waits(queue'[d][i].method, sessions'[queue'[d][i].session].phase)
                    /\ \A j \in DOMAIN queue'[d] :
                         i < j /\ queue'[d][j].session = queue'[d][i].session =>
                           queue'[d][i].method \in Writes
  BY DEF QueuesOrdered, Connection
<1>1. queue'[d] = queue[d]
  OBVIOUS
<1>2. queue[d][i].session \in Sessions
  BY <1>1, QueuedType
<1> QED
  BY <1>1, <1>2 DEF QueuesOrdered, Waits

\* A session that waits for nothing may send a request, and waits for it unless it
\* is a write.
LEMMA SendOrdered ==
  ASSUME TypeOK, QueuesOrdered, NEW s \in Sessions, NEW method, Send(s, method),
         sessions[s].phase \notin {"preparing", "activating", "releasing"},
         \A u \in Sessions \ {s} : sessions'[u].phase = sessions[u].phase,
         Waits(method, sessions'[s].phase)
  PROVE  QueuesOrdered'
<1> DEFINE c == Connection(s)
           new == [session |-> s, method |-> method]
<1>1. /\ c \in Connections /\ queue[c] \in Seq(Request)
      /\ queue'[c] = Append(queue[c], new)
      /\ \A d \in Connections \ {c} : queue'[d] = queue[d]
  BY ConnectionOfAssumption DEF Connection, Send, TypeOK
<1> SUFFICES ASSUME NEW d \in Connections, NEW i \in DOMAIN queue'[d]
             PROVE  /\ Connection(queue'[d][i].session) = d
                    /\ Waits(queue'[d][i].method, sessions'[queue'[d][i].session].phase)
                    /\ \A j \in DOMAIN queue'[d] :
                         i < j /\ queue'[d][j].session = queue'[d][i].session =>
                           queue'[d][i].method \in Writes
  BY DEF QueuesOrdered, Connection
<1>2. ASSUME i \in DOMAIN queue[d]
      PROVE  /\ Connection(queue[d][i].session) = d
             /\ Waits(queue[d][i].method, sessions'[queue[d][i].session].phase)
             /\ queue[d][i].session = s => queue[d][i].method \in Writes
  <2>1. queue[d][i].session \in Sessions
    BY <1>2, QueuedType
  <2> QED
    BY <1>2, <2>1 DEF QueuesOrdered, Waits
<1>3. CASE d # c
  <2>1. queue'[d] = queue[d]
    BY <1>1, <1>3
  <2> QED
    BY <1>2, <2>1 DEF QueuesOrdered
<1>4. CASE d = c
  <2>1. /\ i \in Nat /\ Len(queue[c]) \in Nat
        /\ \A j \in DOMAIN queue'[d] :
             \/ j \in DOMAIN queue[c] /\ queue'[d][j] = queue[c][j]
             \/ j = Len(queue[c]) + 1 /\ queue'[d][j] = new
        /\ \A j \in DOMAIN queue'[d] : j <= Len(queue[c]) + 1
    BY <1>1, <1>4
  <2>2. new.session = s /\ new.method = method
    OBVIOUS
  <2> HIDE DEF new
  <2>3. CASE i \in DOMAIN queue[c] /\ queue'[d][i] = queue[c][i]
    <3>1. ASSUME NEW j \in DOMAIN queue'[d], i < j, queue'[d][j].session = queue[c][i].session
          PROVE  queue[c][i].method \in Writes
      BY <1>2, <1>4, <2>1, <2>2, <2>3, <3>1 DEF QueuesOrdered
    <3> QED
      BY <1>2, <1>4, <2>3, <3>1
  <2>4. CASE i = Len(queue[c]) + 1 /\ queue'[d][i] = new
    <3>1. \A j \in DOMAIN queue'[d] : ~(i < j)
      BY <2>1, <2>4
    <3> QED
      BY <1>4, <2>2, <2>4, <3>1
  <2> QED
    BY <2>1, <2>3, <2>4
<1> QED
  BY <1>3, <1>4

\* Running the first request: only who waited for it moves.
LEMMA DoneOrdered ==
  ASSUME TypeOK, QueuesOrdered, NEW c \in Connections, queue[c] # << >>, Done(c),
         \A s \in Sessions :
           s # Session1(c) \/ Head(queue[c]).method \in Writes =>
             sessions'[s].phase = sessions[s].phase
  PROVE  QueuesOrdered'
<1>1. /\ queue[c] \in Seq(Request) /\ 1 \in DOMAIN queue[c]
      /\ Head(queue[c]) = queue[c][1] /\ Session1(c) = queue[c][1].session
  BY QueuedType DEF Session1
<1>2. \A i \in DOMAIN Tail(queue[c]) :
        /\ i \in Nat /\ i > 0 /\ i + 1 \in DOMAIN queue[c]
        /\ Tail(queue[c])[i] = queue[c][i + 1]
  BY <1>1
<1> SUFFICES ASSUME NEW d \in Connections, NEW i \in DOMAIN queue'[d]
             PROVE  /\ Connection(queue'[d][i].session) = d
                    /\ Waits(queue'[d][i].method, sessions'[queue'[d][i].session].phase)
                    /\ \A j \in DOMAIN queue'[d] :
                         i < j /\ queue'[d][j].session = queue'[d][i].session =>
                           queue'[d][i].method \in Writes
  BY DEF QueuesOrdered, Connection
<1>3. CASE d # c
  <2>1. queue'[d] = queue[d]
    BY <1>3 DEF Done, TypeOK
  <2>2. queue[d][i].session \in Sessions
    BY <2>1, QueuedType
  <2>3. queue[d][i].session # Session1(c)
    BY <1>1, <1>3, <2>1 DEF QueuesOrdered
  <2> QED
    BY <2>1, <2>2, <2>3 DEF QueuesOrdered
<1>4. CASE d = c
  <2>1. queue'[d] = Tail(queue[c])
    BY <1>4 DEF Done, TypeOK
  <2>2. /\ i \in Nat /\ i > 0 /\ i + 1 \in DOMAIN queue[c]
        /\ queue'[d][i] = queue[c][i + 1] /\ queue[c][i + 1].session \in Sessions
    BY <1>2, <2>1, QueuedType
  <2>3. queue[c][i + 1].session = Session1(c) => Head(queue[c]).method \in Writes
    <3>1. 1 < i + 1
      BY <2>2
    <3> QED
      BY <1>1, <2>2, <3>1 DEF QueuesOrdered
  <2>4. sessions'[queue[c][i + 1].session].phase = sessions[queue[c][i + 1].session].phase
    BY <2>2, <2>3
  <2>5. ASSUME NEW j \in DOMAIN queue'[d], i < j, queue'[d][j].session = queue'[d][i].session
        PROVE  queue'[d][i].method \in Writes
    <3>1. /\ j + 1 \in DOMAIN queue[c] /\ i + 1 < j + 1
          /\ queue'[d][j] = queue[c][j + 1]
      BY <1>2, <2>1, <2>2, <2>5
    <3> QED
      BY <2>2, <2>5, <3>1 DEF QueuesOrdered
  <2> QED
    BY <1>4, <2>2, <2>4, <2>5 DEF QueuesOrdered
<1> QED
  BY <1>3, <1>4

\* Every step keeps the queues in order.
LEMMA OrderedStep ==
  ASSUME OwnershipInv, QueuesOrdered, [Next]_vars
  PROVE  QueuesOrdered'
<1>1. TypeOK
  BY DEF OwnershipInv
<1>2. ASSUME NEW s \in Sessions, NEW phase, Enter(s, phase)
      PROVE  /\ sessions'[s].phase = phase
             /\ \A u \in Sessions \ {s} : sessions'[u].phase = sessions[u].phase
  BY <1>1, <1>2 DEF Enter, TypeOK, Session
<1>3. ASSUME UNCHANGED <<queue, sessions>>
      PROVE  QueuesOrdered'
  BY <1>1, <1>3, KeptOrdered
<1>4. ASSUME NEW c \in Connections, NEW r \in Recordings, Operation(c, r)
      PROVE  QueuesOrdered'
  BY <1>3, <1>4 DEF Operation, Create, Rename, StageBaseline, PublishBaseline,
     PublishBaselineFails, BindCapture, PlainWrite, Remove, RemoveFails, Callers
<1>5. ASSUME NEW s \in Sessions, Caller(s)
      PROVE  QueuesOrdered'
  <2>1. CASE PrepareRecording(s)
    BY <1>1, <1>2, <2>1, SendOrdered DEF PrepareRecording, Waits
  <2>2. CASE Activate(s)
    BY <1>1, <1>2, <2>2, SendOrdered DEF Activate, Waits
  <2>3. CASE LeaseWrite(s, "fencedAppend") \/ LeaseWrite(s, "fencedSetStatus")
    BY <1>1, <2>3, SendOrdered DEF LeaseWrite, Waits, Writes
  <2>4. CASE CloseLease(s)
    BY <1>1, <1>2, <2>4, KeptOrdered DEF CloseLease
  <2>5. CASE AdmitRelease(s)
    BY <1>1, <1>2, <2>5, SendOrdered DEF AdmitRelease, Waits
  <2> QED
    BY <1>5, <2>1, <2>2, <2>3, <2>4, <2>5 DEF Caller
<1>6. ASSUME NEW c \in Connections, Worker(c)
      PROVE  QueuesOrdered'
  <2>1. CASE Prepare(c)
    <3>1. Head(queue[c]).method \notin Writes /\ queue[c] # << >> /\ Done(c)
      BY <2>1 DEF Prepare, Next1, Writes
    <3> QED
      BY <1>1, <2>1, <3>1, PrepareEffect, DoneOrdered
  <2>2. CASE ActivateClaim(c) \/ Release(c)
    <3>1. Head(queue[c]).method \notin Writes /\ queue[c] # << >> /\ Done(c)
          /\ \E phase : Enter(Session1(c), phase)
      BY <2>2 DEF ActivateClaim, Release, Next1, Writes
    <3> QED
      BY <1>1, <1>2, <3>1, QueuedType, DoneOrdered
  <2>3. CASE FencedAppend(c) \/ FencedSetStatus(c)
    BY <1>1, <2>3, DoneOrdered DEF FencedAppend, FencedSetStatus, Next1
  <2>4. CASE RequestFails(c)
    <3>1. /\ queue[c] # << >> /\ Done(c)
          /\ Head(queue[c]).method \in Writes => sessions' = sessions
          /\ Head(queue[c]).method \notin Writes => Enter(Session1(c), "closed")
      BY <2>4 DEF RequestFails, Writes
    <3> QED
      BY <1>1, <1>2, <3>1, QueuedType, DoneOrdered
  <2>5. CASE Crash(c)
    <3>1. /\ \A d \in Connections : queue'[d] = IF d = c THEN << >> ELSE queue[d]
          /\ \A s \in Sessions : Connection(s) # c => sessions'[s] = sessions[s]
      BY <1>1, <2>5 DEF Crash, TypeOK
    <3> QED
      BY <1>1, <3>1, KeptOrdered
  <2> QED
    BY <1>6, <2>1, <2>2, <2>3, <2>4, <2>5 DEF Worker
<1> QED
  BY <1>3, <1>4, <1>5, <1>6 DEF Next, vars

\* Closing a lease drains it: its release runs after every write it accepted, so a
\* session with a write accepted and not yet run loses the right to write only to a
\* newer activation or with the recording.
THEOREM LeaseDrains == Spec => AcceptedWritesDrain
<1>1. Init => QueuesOrdered
  BY DEF Init, QueuesOrdered
<1>2. ASSUME OwnershipInv, QueuesOrdered, Next, NEW s \in Sessions, Live(s), PendingWrite(s),
             ~Live(s)'
      PROVE  \/ owners'[Recording(s)] = NoOwner
             \/ owners'[Recording(s)].owner # sessions[s].token.generation
  <2> DEFINE r == Recording(s)
             t == sessions[s].token
  <2>1. /\ r \in Recordings /\ owners[r] \in Owner /\ owners[r].active /\ t # NoToken
        /\ t.incarnation = owners[r].incarnation /\ t.generation = owners[r].owner
        /\ t = [incarnation |-> owners[r].incarnation, generation |-> owners[r].owner]
    BY <1>2 DEF OwnershipInv, TypeOK, Session, Recording, Live, HasToken, MayWrite
  <2>2. sessions'[s].token = t /\ sessions'[s].recording = r
    BY <1>2, HolderKept DEF Live
  <2>3. ASSUME owners'[r] # NoOwner, owners'[r].active,
               owners'[r].incarnation = owners[r].incarnation,
               owners'[r].owner = owners[r].owner
        PROVE  FALSE
    BY <1>2, <2>1, <2>2, <2>3 DEF Live, HasToken, MayWrite, Recording
  <2>4. CASE owners'[r] = owners[r]
    BY <2>1, <2>3, <2>4 DEF Owner, NoOwner
  <2>5. ASSUME NEW c \in Connections, Prepare(c)
        PROVE  FALSE
    <3>1. owners'[r] = owners[r] \/ owners'[r] = Reserved(r)
      <4> DEFINE q == Recording(Session1(c))
      <4>1. q \in Recordings /\ owners' = [owners EXCEPT ![q] = Reserved(q)]
        BY <1>2, <2>5, PrepareEffect
      <4> HIDE DEF q, r
      <4> QED
        BY <1>2, <2>1, <4>1 DEF OwnershipInv, TypeOK
    <3>2. owners[r] # NoOwner
      BY <2>1 DEF Owner, NoOwner
    <3>3. Reserved(r) = [owners[r] EXCEPT !.generation = @ + 1]
      BY <3>2 DEF Reserved
    <3> HIDE DEF r
    <3>4. /\ owners'[r].incarnation = owners[r].incarnation
          /\ owners'[r].owner = owners[r].owner
          /\ owners'[r].active = owners[r].active
          /\ owners'[r].kind = owners[r].kind
      BY <2>1, <3>1, <3>3 DEF Owner
    <3> QED
      BY <2>1, <2>3, <3>4 DEF Owner, NoOwner
  <2>6. ASSUME NEW c \in Connections, ActivateClaim(c), owners'[r] # owners[r]
        PROVE  owners'[r].owner # t.generation
    <3> DEFINE generation == sessions[Session1(c)].token.generation
    <3>1. /\ owners' = [owners EXCEPT ![Recording(Session1(c))] =
                          [[owners[Recording(Session1(c))] EXCEPT !.owner = generation]
                             EXCEPT !.active = TRUE]]
          /\ owners[Recording(Session1(c))].owner < generation
      BY <2>6 DEF ActivateClaim, MayActivate
    <3> HIDE DEF generation
    <3>2. /\ owners'[r].owner = generation /\ owners[r].owner < generation
          /\ owners[r].owner \in Nat
      BY <1>2, <2>1, <2>6, <3>1 DEF OwnershipInv, TypeOK, Owner
    <3> QED
      BY <2>1, <3>2
  <2>7. ASSUME NEW c \in Connections, Release(c), owners'[r] # owners[r]
        PROVE  FALSE
    <3> DEFINE u == Session1(c)
    <3>1. /\ u \in Sessions /\ queue[c] # << >> /\ Head(queue[c]).method = "releaseRecording"
          /\ 1 \in DOMAIN queue[c] /\ queue[c][1].session = u
          /\ queue[c][1].method = "releaseRecording"
      BY <1>2, <2>7, QueuedType DEF Release, Next1, OwnershipInv, Session1
    <3>2. /\ Recording(u) = r
          /\ owners[r].incarnation = sessions[u].token.incarnation
          /\ owners[r].owner = sessions[u].token.generation
      BY <1>2, <2>1, <2>7 DEF Release, Released, OwnershipInv, TypeOK
    <3>3. sessions[u].token = t
      BY <1>2, <2>1, <3>1, <3>2 DEF OwnershipInv, TypeOK, Session, Token
    <3>4. u = s
      BY <1>2, <3>1, <3>2, <3>3 DEF Live, OwnershipInv, TokensSound, TokensDistinct
    <3>5. c = Connection(s)
      BY <1>2, <3>1, <3>4 DEF QueuesOrdered
    <3>6. PICK i \in DOMAIN queue[c] :
            queue[c][i].session = s /\ queue[c][i].method \in Writes
      BY <1>2, <3>5 DEF PendingWrite, Writes
    <3>7. i # 1 /\ i \in Nat \ {0}
      BY <1>2, <3>1, <3>6, QueuedType DEF OwnershipInv, Writes
    <3>8. 1 < i
      BY <3>7
    <3> QED
      BY <1>2, <3>1, <3>4, <3>6, <3>8 DEF QueuesOrdered, Writes
  <2>8. ASSUME NEW c \in Connections, NEW q \in Recordings, Remove(c, q)
        PROVE  owners'[r] = owners[r] \/ owners'[r] = NoOwner
    BY <1>2, <2>1, <2>8 DEF Remove, OwnershipInv, TypeOK
  <2> QED
    BY <1>2, <2>4, <2>5, <2>6, <2>7, <2>8, OwnersMove
<1>3. ASSUME OwnershipInv, QueuesOrdered, [Next]_vars
      PROVE  [\A s \in Sessions :
                Live(s) /\ PendingWrite(s) /\ ~Live(s)' =>
                  LET o == owners'[Recording(s)]
                  IN o = NoOwner \/ o.owner # sessions[s].token.generation]_vars
  BY <1>2, <1>3
<1> QED
  BY <1>1, <1>3, OrderedStep, OwnershipInvariant, PTL DEF Spec, AcceptedWritesDrain
=============================================================================
