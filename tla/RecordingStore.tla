--------------------------- MODULE RecordingStore ---------------------------
(***************************************************************************)
(* The durable side of packages/storage-local: one SQLite file written by  *)
(* several storage workers (connections), each with its FIFO of requests   *)
(* and its in-memory replay cache, and the claims and leases that          *)
(* recorders use to fence one another (Writer, RecordingOwners,            *)
(* CaptureBindings, ReplayCache, prepareRecording).                        *)
(*                                                                         *)
(* A worker runs each request in one transaction (BEGIN IMMEDIATE), so one *)
(* request is one step, and a request that does not commit leaves only     *)
(* what it did to the worker's memory.  Requests that the code rejects     *)
(* without touching any state are not steps.                               *)
(***************************************************************************)
EXTENDS HistoryState

CONSTANTS
  Recordings,     \* recording identifiers
  Connections,    \* storage workers open on the same file
  Sessions,       \* one prepareRecording call each, with its claim and lease
  ConnectionOf,   \* the worker each session talks to
  Names,          \* display names, changed by rename
  Bindings,       \* capture bindings
  MaxGeneration,  \* last generation a recording can reserve (2^63-1)
  MaxPending,     \* requests a worker admits (128)
  MaxIncarnation  \* bound: ownership incarnations created in one behaviour

ASSUME ConnectionOfAssumption == ConnectionOf \in [Sessions -> Connections]
ASSUME GenerationAssumption   == MaxGeneration \in Nat \ {0}
ASSUME PendingAssumption      == MaxPending \in Nat \ {0}
ASSUME IncarnationAssumption  == MaxIncarnation \in Nat

Absent     == [kind |-> "absent"]
NoPosition == MaxPosition + 1
NoBinding  == [kind |-> "unbound"]
NoOwner    == [kind |-> "unowned"]
NoToken    == [incarnation |-> 0, generation |-> 0]
NoEntry    == [kind |-> "empty"]

Status == {"bootstrapping", "recording", "stopped", "interrupted", "invalid"}

Info == [kind         : {"present"},
         name         : Names,
         status       : Status,
         baseline     : Position \union {NoPosition},
         baselineRows : SUBSET Rows,
         head         : Position \union {NoPosition},
         count        : Nat]

Owner == [kind        : {"owned"},
          incarnation : Nat \ {0},
          generation  : 1 .. MaxGeneration,
          owner       : 0 .. MaxGeneration,
          active      : BOOLEAN]

Token == [incarnation : Nat, generation : 0 .. MaxGeneration]

\* current: PRAGMA data_version is what it was when the entry was remembered.
Entry == [kind : {"cached"}, recording : Recordings, info : Info,
          state : State, current : BOOLEAN]

Phase == {"idle", "preparing", "claimed", "activating", "leased", "closing",
          "releasing", "closed"}

Session == [phase : Phase, recording : Recordings, token : Token]

Request ==
  [session : Sessions,
   method  : {"prepareRecording", "activateRecording", "fencedAppend",
              "fencedSetStatus", "releaseRecording"}]

VARIABLES
  info,          \* table recordings
  rows,          \* table baseline: staged, then published
  transactions,  \* table transactions, in position order
  owners,        \* table recording_owners
  bindings,      \* table capture_bindings
  cache,         \* each worker's ReplayCache
  queue,         \* each worker's accepted requests of sessions
  sessions,      \* the claims and leases held by callers
  incarnations   \* ownership incarnations created so far (randomUUID)

tables == <<info, rows, transactions, owners, bindings>>
vars   == <<info, rows, transactions, owners, bindings, cache, queue, sessions,
            incarnations>>

Init ==
  /\ info         = [r \in Recordings |-> Absent]
  /\ rows         = [r \in Recordings |-> {}]
  /\ transactions = [r \in Recordings |-> << >>]
  /\ owners       = [r \in Recordings |-> NoOwner]
  /\ bindings     = [r \in Recordings |-> NoBinding]
  /\ cache        = [c \in Connections |-> NoEntry]
  /\ queue        = [c \in Connections |-> << >>]
  /\ sessions \in [Sessions -> {[phase |-> "idle", recording |-> r, token |-> NoToken] :
                                  r \in Recordings}]
  /\ incarnations = 0

-----------------------------------------------------------------------------
(* Records and checks shared by the operations                             *)

Published(i) == i.baseline # NoPosition

\* The lifecycle part of decodeRecordingInfo.
ValidStatus(i, s) ==
  IF Published(i) THEN s # "bootstrapping" ELSE s \in {"bootstrapping", "invalid"}

\* validateStatusChange.
StatusChange(from, to) ==
  \/ from = to
  \/ from = "bootstrapping" /\ to = "invalid"
  \/ from = "recording" /\ to \in {"stopped", "interrupted", "invalid"}
  \/ from \in {"stopped", "interrupted"} /\ to \in {"recording", "invalid"}

Resumable(i) ==
  i # Absent /\ Published(i) /\ i.status \notin {"invalid", "bootstrapping"}

\* assertWrite: before any reservation only callers without a token may write,
\* afterwards only the holder of the active generation.
MayWrite(r, token) ==
  IF owners[r] = NoOwner
    THEN token = NoToken
    ELSE /\ owners[r].active
         /\ token = [incarnation |-> owners[r].incarnation,
                     generation  |-> owners[r].owner]

Remembered(r, i, state) ==
  [kind |-> "cached", recording |-> r, info |-> i, state |-> state, current |-> TRUE]

\* Mutant of CacheHit: data_version is not compared.
CacheHitByMetadata(c, r) ==
  cache[c] # NoEntry /\ cache[c].recording = r /\ cache[c].info = info[r]

\* The worker's own commits do not change its data_version.
CacheHit(c, r) ==
  /\ cache[c] # NoEntry
  /\ cache[c].recording = r
  /\ cache[c].info = info[r]
  /\ cache[c].current

Stored(r) ==
  Replay([position |-> info[r].baseline, rows |-> rows[r]], transactions[r])

Load(c, r) == IF CacheHit(c, r) THEN cache[c].state ELSE Stored(r)

Loaded(c, r) == Remembered(r, info[r], Load(c, r))

\* A commit of worker c: entry is what its own cache holds afterwards, and
\* every other worker sees a new data_version (also when the commit changed no
\* row: the miss it causes replays the same history).
Commit(c, entry) ==
  cache' = [d \in Connections |->
              IF d = c THEN entry
              ELSE IF cache[d] = NoEntry THEN NoEntry
              ELSE [cache[d] EXCEPT !.current = FALSE]]

\* A request of worker c that does not commit.
Abandon(c, entry) ==
  /\ cache' = [cache EXCEPT ![c] = entry]
  /\ UNCHANGED tables

Callers == <<queue, sessions, incarnations>>

-----------------------------------------------------------------------------
(* Writer and CaptureBindings                                              *)

Create(c, r, name) ==
  /\ info[r] = Absent
  /\ info' = [info EXCEPT ![r] =
       [kind |-> "present", name |-> name, status |-> "bootstrapping",
        baseline |-> NoPosition, baselineRows |-> {}, head |-> NoPosition,
        count |-> 0]]
  /\ Commit(c, cache[c])
  /\ UNCHANGED <<rows, transactions, owners, bindings, Callers>>

\* A batch with a key that is already staged is rejected whole.
StageBaseline(c, r, batch) ==
  /\ info[r] # Absent
  /\ info[r].status = "bootstrapping"
  /\ batch \cap rows[r] = {}
  /\ rows' = [rows EXCEPT ![r] = @ \union batch]
  /\ Commit(c, cache[c])
  /\ UNCHANGED <<info, transactions, owners, bindings, Callers>>

PublishedInfo(r, p) ==
  [info[r] EXCEPT !.status = "recording", !.baseline = p,
                  !.baselineRows = rows[r], !.head = p]

PublishedEntry(r, p) ==
  Remembered(r, PublishedInfo(r, p), [position |-> p, rows |-> rows[r]])

PublishBaseline(c, r, p) ==
  /\ info[r] # Absent
  /\ info[r].status = "bootstrapping"
  /\ info' = [info EXCEPT ![r] = PublishedInfo(r, p)]
  /\ Commit(c, PublishedEntry(r, p))
  /\ UNCHANGED <<rows, transactions, owners, bindings, Callers>>

\* The cache is written before COMMIT: a failing commit leaves the entry.
PublishBaselineFails(c, r, p) ==
  /\ info[r] # Absent
  /\ info[r].status = "bootstrapping"
  /\ Abandon(c, PublishedEntry(r, p))
  /\ UNCHANGED Callers

\* The part of append before the transaction is looked at.
Appendable(r, token) ==
  /\ info[r] # Absent
  /\ Published(info[r])
  /\ MayWrite(r, token)
  /\ info[r].status = "recording"

PriorAt(r, p) == \E i \in DOMAIN transactions[r] : transactions[r][i].position = p

Appends(c, r, token, t) ==
  /\ Appendable(r, token)
  /\ ~PriorAt(r, t.position)
  /\ Applies(Load(c, r), t)

AppendedInfo(r, t) ==
  [info[r] EXCEPT !.head = t.position, !.count = @ + 1]

\* Mutant of AppendedEntry: the head before the transaction is remembered.
AppendedEntryStale(c, r, t) == Remembered(r, AppendedInfo(r, t), Load(c, r))

AppendedEntry(c, r, t) ==
  Remembered(r, AppendedInfo(r, t), Apply(Load(c, r), t))

WriterAppend(c, r, token, t) ==
  /\ Appends(c, r, token, t)
  /\ info' = [info EXCEPT ![r] = AppendedInfo(r, t)]
  /\ transactions' = [transactions EXCEPT ![r] = Append(@, t)]
  /\ Commit(c, AppendedEntry(c, r, t))
  /\ UNCHANGED <<rows, owners, bindings>>

\* An accepted append whose commit fails: only the cache entry is left.
WriterAppendFails(c, r, token, t) ==
  /\ Appends(c, r, token, t)
  /\ Abandon(c, AppendedEntry(c, r, t))

AlreadyStored(r, t) == \E i \in DOMAIN transactions[r] : transactions[r][i] = t

\* The redelivery of what is stored succeeds: its caller may acknowledge it.  The
\* head was loaded, and nothing is stored.
WriterAppendDuplicate(c, r, token, t) ==
  /\ Appendable(r, token)
  /\ AlreadyStored(r, t)
  /\ Abandon(c, Loaded(c, r))

\* A divergent redelivery, a missing predecessor or a stale before-image fails, also
\* after the head was loaded.
WriterAppendRefused(c, r, token, t) ==
  /\ Appendable(r, token)
  /\ ~Appends(c, r, token, t) /\ ~AlreadyStored(r, t)
  /\ Abandon(c, Loaded(c, r))

\* Mutant of WriterSetStatus: a status is stored without validateStatusChange.
WriterSetAnyStatus(c, r, token, s) ==
  /\ info[r] # Absent
  /\ MayWrite(r, token)
  /\ ValidStatus(info[r], s)
  /\ info' = [info EXCEPT ![r].status = s]
  /\ Commit(c, cache[c])
  /\ UNCHANGED <<rows, transactions, owners, bindings>>

WriterSetStatus(c, r, token, s) ==
  /\ info[r] # Absent
  /\ MayWrite(r, token)
  /\ ValidStatus(info[r], s)
  /\ StatusChange(info[r].status, s)
  /\ info' = [info EXCEPT ![r].status = s]
  /\ Commit(c, cache[c])
  /\ UNCHANGED <<rows, transactions, owners, bindings>>

Rename(c, r, name) ==
  /\ info[r] # Absent
  /\ info' = [info EXCEPT ![r].name = name]
  /\ Commit(c, cache[c])
  /\ UNCHANGED <<rows, transactions, owners, bindings, Callers>>

\* Deleting a recording cascades to every table that refers to it.
Remove(c, r) ==
  /\ info[r] # Absent
  /\ info'         = [info EXCEPT ![r] = Absent]
  /\ rows'         = [rows EXCEPT ![r] = {}]
  /\ transactions' = [transactions EXCEPT ![r] = << >>]
  /\ owners'       = [owners EXCEPT ![r] = NoOwner]
  /\ bindings'     = [bindings EXCEPT ![r] = NoBinding]
  /\ Commit(c, NoEntry)
  /\ UNCHANGED Callers

RemoveFails(c, r) ==
  /\ info[r] # Absent
  /\ Abandon(c, NoEntry)
  /\ UNCHANGED Callers

\* Mutant of BindCapture: the lifecycle is not looked at.
BindCaptureLate(c, r, b) ==
  /\ info[r] # Absent
  /\ bindings[r] = NoBinding
  /\ bindings' = [bindings EXCEPT ![r] = b]
  /\ Commit(c, cache[c])
  /\ UNCHANGED <<info, rows, transactions, owners, Callers>>

\* The first binding of an unpublished recording; a later call either repeats
\* it or is rejected.
BindCapture(c, r, b) ==
  /\ info[r] # Absent
  /\ bindings[r] = NoBinding
  /\ info[r].status = "bootstrapping"
  /\ bindings' = [bindings EXCEPT ![r] = b]
  /\ Commit(c, cache[c])
  /\ UNCHANGED <<info, rows, transactions, owners, Callers>>

\* Writes through the store itself, which carry no token.
PlainWrite(c, r) ==
  /\ \/ \E t \in Transaction : \/ WriterAppend(c, r, NoToken, t)
                               \/ WriterAppendFails(c, r, NoToken, t)
                               \/ WriterAppendDuplicate(c, r, NoToken, t)
                               \/ WriterAppendRefused(c, r, NoToken, t)
     \/ \E s \in Status : WriterSetStatus(c, r, NoToken, s)
  /\ UNCHANGED Callers

-----------------------------------------------------------------------------
(* Callers of prepareRecording: claims, leases and the requests they send  *)

Connection(s) == ConnectionOf[s]

Recording(s) == sessions[s].recording

Send(s, method) ==
  /\ Len(queue[Connection(s)]) < MaxPending
  /\ queue' = [queue EXCEPT ![Connection(s)] =
                 Append(@, [session |-> s, method |-> method])]

Enter(s, phase) == sessions' = [sessions EXCEPT ![s].phase = phase]

StoreUnchanged == UNCHANGED <<tables, cache, incarnations>>

PrepareRecording(s) ==
  /\ sessions[s].phase = "idle"
  /\ Send(s, "prepareRecording")
  /\ Enter(s, "preparing")
  /\ StoreUnchanged

\* activate() is memoized: a claim asks once.
Activate(s) ==
  /\ sessions[s].phase = "claimed"
  /\ Send(s, "activateRecording")
  /\ Enter(s, "activating")
  /\ StoreUnchanged

\* Lease writes are sent only until close() is called, and not awaited here.
LeaseWrite(s, method) ==
  /\ sessions[s].phase = "leased"
  /\ Send(s, method)
  /\ UNCHANGED sessions
  /\ StoreUnchanged

\* close() refuses later writes at once; its request waits for admission.
CloseLease(s) ==
  /\ sessions[s].phase = "leased"
  /\ Enter(s, "closing")
  /\ UNCHANGED queue
  /\ StoreUnchanged

\* Mutant of AdmitRelease: the release overtakes the writes already accepted.
AdmitReleaseFirst(s) ==
  /\ sessions[s].phase = "closing"
  /\ Len(queue[Connection(s)]) < MaxPending
  /\ queue' = [queue EXCEPT ![Connection(s)] =
                 <<[session |-> s, method |-> "releaseRecording"]>> \o @]
  /\ Enter(s, "releasing")
  /\ StoreUnchanged

AdmitRelease(s) ==
  /\ sessions[s].phase = "closing"
  /\ Send(s, "releaseRecording")
  /\ Enter(s, "releasing")
  /\ StoreUnchanged

-----------------------------------------------------------------------------
(* The worker: requests of sessions in the order they were accepted        *)

Next1(c, method) == queue[c] # << >> /\ Head(queue[c]).method = method

Session1(c) == Head(queue[c]).session

Done(c) == queue' = [queue EXCEPT ![c] = Tail(@)]

\* Mutant of Reserved: every claim of an incarnation gets the same generation.
ReservedAgain(r) ==
  IF owners[r] = NoOwner
    THEN [kind |-> "owned", incarnation |-> incarnations + 1, generation |-> 1,
          owner |-> 0, active |-> FALSE]
    ELSE owners[r]

\* prepare: the next generation of this incarnation, or the first of a new one.
Reserved(r) ==
  IF owners[r] = NoOwner
    THEN [kind |-> "owned", incarnation |-> incarnations + 1, generation |-> 1,
          owner |-> 0, active |-> FALSE]
    ELSE [owners[r] EXCEPT !.generation = @ + 1]

Prepare(c) ==
  /\ Next1(c, "prepareRecording")
  /\ Done(c)
  /\ LET s == Session1(c)
         r == Recording(s)
     IN /\ Resumable(info[r])
        /\ IF owners[r] = NoOwner
             THEN incarnations < MaxIncarnation /\ incarnations' = incarnations + 1
             ELSE owners[r].generation < MaxGeneration /\ UNCHANGED incarnations
        /\ owners' = [owners EXCEPT ![r] = Reserved(r)]
        /\ sessions' = [sessions EXCEPT
             ![s].phase = "claimed",
             ![s].token = [incarnation |-> Reserved(r).incarnation,
                           generation  |-> Reserved(r).generation]]
  /\ Commit(c, cache[c])
  /\ UNCHANGED <<info, rows, transactions, bindings>>

\* Mutant of MayActivate: a newer activation is not looked for.
MayActivateLate(r, token) ==
  /\ owners[r] # NoOwner
  /\ token.incarnation = owners[r].incarnation
  /\ token.generation <= owners[r].generation

\* A claim activates when nothing newer of its incarnation has been activated.
MayActivate(r, token) ==
  /\ owners[r] # NoOwner
  /\ token.incarnation = owners[r].incarnation
  /\ owners[r].owner < token.generation
  /\ token.generation <= owners[r].generation

ActivateClaim(c) ==
  /\ Next1(c, "activateRecording")
  /\ Done(c)
  /\ LET s == Session1(c)
         r == Recording(s)
     IN /\ MayActivate(r, sessions[s].token)
        /\ owners' = [owners EXCEPT ![r].owner = sessions[s].token.generation,
                                    ![r].active = TRUE]
        /\ Enter(s, "leased")
  /\ Commit(c, cache[c])
  /\ UNCHANGED <<info, rows, transactions, bindings, incarnations>>

FencedAppend(c) ==
  /\ Next1(c, "fencedAppend")
  /\ Done(c)
  /\ LET s == Session1(c)
     IN \E t \in Transaction :
          \/ WriterAppend(c, Recording(s), sessions[s].token, t)
          \/ WriterAppendFails(c, Recording(s), sessions[s].token, t)
          \/ WriterAppendDuplicate(c, Recording(s), sessions[s].token, t)
          \/ WriterAppendRefused(c, Recording(s), sessions[s].token, t)
  /\ UNCHANGED <<sessions, incarnations>>

FencedSetStatus(c) ==
  /\ Next1(c, "fencedSetStatus")
  /\ Done(c)
  /\ LET s == Session1(c)
     IN \E status \in Status :
          WriterSetStatus(c, Recording(s), sessions[s].token, status)
  /\ UNCHANGED <<sessions, incarnations>>

\* Only the generation that still owns the recording is released.
Released(r, token) ==
  IF /\ owners[r] # NoOwner
     /\ owners[r].incarnation = token.incarnation
     /\ owners[r].owner = token.generation
  THEN [owners[r] EXCEPT !.active = FALSE]
  ELSE owners[r]

Release(c) ==
  /\ Next1(c, "releaseRecording")
  /\ Done(c)
  /\ LET s == Session1(c)
     IN /\ owners' = [owners EXCEPT ![Recording(s)] =
                        Released(Recording(s), sessions[s].token)]
        /\ Enter(s, "closed")
  /\ Commit(c, cache[c])
  /\ UNCHANGED <<info, rows, transactions, bindings, incarnations>>

\* A request that is rejected, or whose transaction cannot begin or commit
\* (busy, full): a prepare, an activate or a close is not tried again, a
\* refused write leaves the lease as it was.
RequestFails(c) ==
  /\ queue[c] # << >>
  /\ Done(c)
  /\ IF Head(queue[c]).method \in {"fencedAppend", "fencedSetStatus"}
       THEN UNCHANGED sessions
       ELSE Enter(Session1(c), "closed")
  /\ StoreUnchanged

\* The process or its worker dies: memory, queue and handles go, the file stays.
Crash(c) ==
  /\ queue'    = [queue EXCEPT ![c] = << >>]
  /\ cache'    = [cache EXCEPT ![c] = NoEntry]
  /\ sessions' = [s \in Sessions |->
                    IF Connection(s) = c /\ sessions[s].phase # "idle"
                      THEN [sessions[s] EXCEPT !.phase = "closed"]
                      ELSE sessions[s]]
  /\ UNCHANGED <<tables, incarnations>>

-----------------------------------------------------------------------------

Operation(c, r) ==
  \/ \E name \in Names : Create(c, r, name) \/ Rename(c, r, name)
  \/ \E batch \in SUBSET Rows : StageBaseline(c, r, batch)
  \/ \E p \in Position : PublishBaseline(c, r, p) \/ PublishBaselineFails(c, r, p)
  \/ \E b \in Bindings : BindCapture(c, r, b)
  \/ PlainWrite(c, r)
  \/ Remove(c, r)
  \/ RemoveFails(c, r)

Caller(s) ==
  \/ PrepareRecording(s)
  \/ Activate(s)
  \/ LeaseWrite(s, "fencedAppend")
  \/ LeaseWrite(s, "fencedSetStatus")
  \/ CloseLease(s)
  \/ AdmitRelease(s)

Worker(c) ==
  \/ Prepare(c)
  \/ ActivateClaim(c)
  \/ FencedAppend(c)
  \/ FencedSetStatus(c)
  \/ Release(c)
  \/ RequestFails(c)
  \/ Crash(c)

Next ==
  \/ \E c \in Connections, r \in Recordings : Operation(c, r)
  \/ \E s \in Sessions : Caller(s)
  \/ \E c \in Connections : Worker(c)

Spec == Init /\ [][Next]_vars

-----------------------------------------------------------------------------
(* Properties                                                              *)

TypeOK ==
  /\ info         \in [Recordings -> Info \union {Absent}]
  /\ rows         \in [Recordings -> SUBSET Rows]
  /\ transactions \in [Recordings -> Seq(Transaction)]
  /\ owners       \in [Recordings -> Owner \union {NoOwner}]
  /\ bindings     \in [Recordings -> Bindings \union {NoBinding}]
  /\ cache        \in [Connections -> Entry \union {NoEntry}]
  /\ queue        \in [Connections -> Seq(Request)]
  /\ sessions     \in [Sessions -> Session]
  /\ incarnations \in Nat

\* Whatever the workers, their caches, failed commits, crashes and deletions
\* did, what is stored replays: every transaction of a recording applies to the
\* state its predecessors leave, and the recording's head and count are those
\* of the last one.
HistoryReplays ==
  \A r \in Recordings :
    IF info[r] = Absent \/ ~Published(info[r])
      THEN transactions[r] = << >>
      ELSE /\ Consistent([position |-> info[r].baseline, rows |-> rows[r]],
                         transactions[r])
           /\ info[r].head = Stored(r).position
           /\ info[r].count = Len(transactions[r])
           /\ info[r].baselineRows = rows[r]

\* A cache entry the next append would use is the replay of what is stored,
\* although entries are written before the commit that justifies them and
\* other workers may append, delete and recreate in between.
CacheFaithful ==
  \A c \in Connections, r \in Recordings :
    CacheHit(c, r) => cache[c].state = Stored(r)

\* Replay, stated without recursion, is what applying the stored transactions one
\* after the other to the baseline gives.
ReplayIsFold ==
  \A r \in Recordings :
    info[r] # Absent /\ Published(info[r]) =>
      LET base      == [position |-> info[r].baseline, rows |-> rows[r]]
          before(i) == Replay(base, SubSeq(transactions[r], 1, i - 1))
      IN /\ before(1) = base
         /\ \A i \in DOMAIN transactions[r] :
              before(i + 1) = Apply(before(i), transactions[r][i])

\* Stored history replays from a baseline to its head, in the order stored, and
\* no cached state that a write may use differs from it.
HistorySound == HistoryReplays /\ CacheFaithful /\ ReplayIsFold

\* The durable part of the state, as the abstract specification sees it.
NoLogYet == [kind |-> "nolog"]
NoBaselineYet == [kind |-> "nobaseline"]

StoredLog ==
  [r \in Recordings |->
     IF info[r] = Absent THEN NoLogYet
     ELSE [status       |-> info[r].status,
           baseline     |-> IF Published(info[r])
                              THEN [position |-> info[r].baseline, rows |-> rows[r]]
                              ELSE NoBaselineYet,
           transactions |-> transactions[r]]]

History == INSTANCE CommittedHistory
             WITH log <- StoredLog, NoLog <- NoLogYet, NoBaseline <- NoBaselineYet

\* Several workers with caches, claims, crashes and failed commits, seen from
\* the file, do nothing but the steps of CommittedHistory.
ImplementsCommittedHistory == History!LogSpec

HasToken(s) == sessions[s].token # NoToken

Live(s) == HasToken(s) /\ MayWrite(Recording(s), sessions[s].token)

\* Two sessions never hold the right to write one recording together, and
\* while one holds it no caller without a token does.
OneWriter ==
  \A s1, s2 \in Sessions :
    /\ Live(s1) /\ Live(s2) /\ Recording(s1) = Recording(s2) => s1 = s2
    /\ Live(s1) => ~MayWrite(Recording(s1), NoToken)

\* A claim or lease whose time is over: its recording was deleted (and perhaps
\* created again), a newer claim was activated, or it was itself released.
Fenced(s) ==
  /\ HasToken(s)
  /\ LET o == owners[Recording(s)]
         t == sessions[s].token
     IN \/ o = NoOwner
        \/ o.incarnation # t.incarnation
        \/ o.owner > t.generation
        \/ o.owner = t.generation /\ ~o.active

\* Once fenced, always fenced: not a release by the winner, not a delayed
\* activation, not the deletion and recreation of the recording gives a stale
\* claim or lease its rights back.
FencedForever == [][\A s \in Sessions : Fenced(s) => Fenced(s)']_vars

PendingWrite(s) ==
  \E i \in DOMAIN queue[Connection(s)] :
    /\ queue[Connection(s)][i].session = s
    /\ queue[Connection(s)][i].method \in {"fencedAppend", "fencedSetStatus"}

\* Closing a lease drains it: a session loses the right to write while a write
\* of its own is accepted and not yet run only because somebody else was
\* activated or the recording was deleted.
AcceptedWritesDrain ==
  [][\A s \in Sessions :
       Live(s) /\ PendingWrite(s) /\ ~Live(s)' =>
         LET o == owners'[Recording(s)]
         IN o = NoOwner \/ o.owner # sessions[s].token.generation]_vars

\* A recording's source binding is settled before its baseline is published
\* and outlives everything but the recording.
BindingSettled ==
  [][\A r \in Recordings :
       /\ bindings[r] # NoBinding /\ info'[r] # Absent => bindings'[r] = bindings[r]
       /\ info[r] # Absent /\ Published(info[r]) /\ bindings[r] = NoBinding =>
            bindings'[r] = NoBinding]_vars
=============================================================================
