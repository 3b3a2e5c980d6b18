---------------------------- MODULE ReadWorkers -----------------------------
(* Who owns the workers of WorkerClient: openLocalStore (index.ts) owns the  *)
(* store's until close(), which drains accepted requests, and a pool of      *)
(* read sessions (read-workers.ts) owns the others, on behalf of the         *)
(* exporter and the reconstructors (exporter.ts, reconstructor.ts).          *)
(*                                                                           *)
(* A session is opened, used and closed by its caller, aborted by a signal,  *)
(* or closed with the pool, in any order, while the store is written.        *)
EXTENDS WorkerClient

CONSTANT Capacity   \* sessions at a time, opening and closing ones included

ASSUME CapacityAssumption == Capacity \in 1 .. 4

VARIABLES
  store,     \* opening, open, failed, closing, closed, broken
  session,   \* what each open() came to
  ending,    \* whether the session's close has begun, and ended
  aborted,   \* the caller's signal
  slots,     \* #sessions: the sessions that hold a place
  pool,      \* open, closing, closed
  acked      \* commits acknowledged to the writer when the session was asked for

poolVars == <<store, session, ending, aborted, slots, pool, acked>>
vars == <<clientVars, poolVars>>

Init ==
  /\ ClientInit
  /\ store = "opening"
  /\ session = [s \in Sessions |-> "idle"]
  /\ ending = [s \in Sessions |-> "no"]
  /\ aborted = [s \in Sessions |-> FALSE]
  /\ slots = {}
  /\ pool = "open"
  /\ acked = [s \in Sessions |-> 0]

SessionsUnchanged == UNCHANGED <<session, ending, aborted, slots, pool, acked>>
QueuesUnchanged == UNCHANGED <<worker, result, race, inbox, outbox, view, head>>

-----------------------------------------------------------------------------
(* The store                                                               *)

\* openLocalStore: await client.ready, and close the client if it failed.
StoreReady ==
  /\ store = "opening"
  /\ Settled(Store, "ready")
  /\ store' = IF Returned(Store, "ready") THEN "open" ELSE "failed"
  /\ IF Returned(Store, "ready") \/ closed[Store]
       THEN UNCHANGED clientVars
       ELSE /\ Post(Store, "close")
            /\ closed' = [closed EXCEPT ![Store] = TRUE]
            /\ UNCHANGED <<worker, killed, failure, result, race, outbox, view, head>>
  /\ SessionsUnchanged

AskClose ==
  /\ Post(Store, "close")
  /\ closed' = [closed EXCEPT ![Store] = TRUE]
  /\ UNCHANGED <<killed, failure>>

\* finish(): the close request is not subject to the bound, and the client is
\* closed with it.  A client that failed before is only waited for.
CloseStore ==
  /\ store = "open"
  /\ store' = "closing"
  /\ IF closed[Store] THEN UNCHANGED <<call, closed, killed, failure, inbox>> ELSE AskClose
  /\ UNCHANGED <<worker, result, race, outbox, view, head>>
  /\ SessionsUnchanged

\* Answered or not, the worker is told to stop, and its exit awaited.
StoreStops ==
  /\ Settled(Store, "close")
  /\ ~killed[Store]
  /\ killed' = [killed EXCEPT ![Store] = TRUE]
  /\ UNCHANGED <<worker, closed, failure, call, result, race, inbox, outbox, view, head>>
  /\ UNCHANGED store
  /\ SessionsUnchanged

StoreClosed ==
  /\ store = "closing"
  /\ Exited(Store)
  /\ call[Store]["close"] # "pending"
  /\ store' = IF call[Store]["close"] = "failed" THEN "broken" ELSE "closed"
  /\ SessionsUnchanged
  /\ UNCHANGED clientVars

StoreCall(i) ==
  /\ store # "opening"
  /\ store # "failed"
  /\ Request(Store, i) \/ PostFails(Store, i)
  /\ UNCHANGED poolVars

-----------------------------------------------------------------------------
(* The pool                                                                *)

\* Mutant of TakeSlot: a session takes its place when its worker is ready.
TakeSlotLate(s) == UNCHANGED slots

TakeSlot(s) == slots' = slots \union {s}

\* Closed, cancelled and full pools refuse; otherwise the worker starts and
\* the place is taken before anything is awaited.
Open(s) ==
  /\ session[s] = "idle"
  /\ IF pool # "open" \/ aborted[s] \/ Cardinality(slots) >= Capacity
       THEN /\ session' = [session EXCEPT ![s] = "refused"]
            /\ UNCHANGED <<slots, acked, clientVars>>
       ELSE /\ session' = [session EXCEPT ![s] = "opening"]
            /\ TakeSlot(s)
            /\ acked' = [acked EXCEPT ![s] = Cardinality(CommittedWrites)]
            /\ Construct(s)
            /\ UNCHANGED <<killed, closed, failure, result, race, inbox, outbox, view, head>>
  /\ UNCHANGED <<store, ending, aborted, pool>>

\* close() of sessions: the client is cancelled, once.
EndSessions(S) ==
  LET new == {s \in S : ending[s] = "no"}
  IN /\ ending' = [s \in Sessions |-> IF s \in new THEN "cancelling" ELSE ending[s]]
     /\ IF new = {} THEN UNCHANGED <<closed, killed, failure, call>>
                    ELSE Fail(new, "CANCELLED")

CheckOpen(s) == pool = "open" /\ ending[s] = "no" /\ ~aborted[s]

\* Readiness arrived: the session is returned, or closed and refused.  The
\* exporter and the reconstructor close it too when they cannot decode what
\* the worker says of the recording.
Opened(s) ==
  /\ session[s] = "opening"
  /\ Settled(s, "ready")
  /\ \/ /\ Returned(s, "ready") /\ CheckOpen(s)
        /\ session' = [session EXCEPT ![s] = "open"]
        /\ UNCHANGED <<ending, closed, killed, failure, call>>
     \/ /\ session' = [session EXCEPT ![s] = "failing"]
        /\ EndSessions({s})
  /\ QueuesUnchanged
  /\ UNCHANGED <<store, aborted, slots, pool, acked>>

\* open() rejects when the close has ended.
OpenFails(s) ==
  /\ session[s] = "failing"
  /\ ending[s] = "ended"
  /\ session' = [session EXCEPT ![s] = "refused"]
  /\ UNCHANGED <<store, ending, aborted, slots, pool, acked, clientVars>>

\* A page is asked for under checkOpen.
SessionCall(s, i) ==
  /\ session[s] = "open"
  /\ i \in CallsOf[s]
  /\ call[s][i] = "idle"
  /\ IF CheckOpen(s)
       THEN Request(s, i) \/ PostFails(s, i)
       ELSE /\ call' = [call EXCEPT ![s][i] = "failed"]
            /\ ClientUnfailed
            /\ QueuesUnchanged
  /\ UNCHANGED poolVars

CloseSession(s) ==
  /\ session[s] = "open"
  /\ ending[s] = "no"
  /\ EndSessions({s})
  /\ QueuesUnchanged
  /\ UNCHANGED <<store, session, aborted, slots, pool, acked>>

\* The signal fires; the listener is there from open() to close().
Abort(s) ==
  /\ ~aborted[s]
  /\ aborted' = [aborted EXCEPT ![s] = TRUE]
  /\ IF session[s] \in {"opening", "open"}
       THEN EndSessions({s})
       ELSE UNCHANGED <<ending, closed, killed, failure, call>>
  /\ QueuesUnchanged
  /\ UNCHANGED <<store, session, slots, pool, acked>>

\* Mutant of Ended: the place is given back when the cancellation is sent.
EndedAtOnce(s) == ending[s] = "cancelling"

Ended(s) == ending[s] = "cancelling" /\ Exited(s)

\* The worker is gone: the place is free.
EndSession(s) ==
  /\ Ended(s)
  /\ ending' = [ending EXCEPT ![s] = "ended"]
  /\ slots' = slots \ {s}
  /\ UNCHANGED <<store, session, aborted, pool, acked, clientVars>>

ClosePool ==
  /\ pool = "open"
  /\ pool' = "closing"
  /\ EndSessions(slots)
  /\ QueuesUnchanged
  /\ UNCHANGED <<store, session, aborted, slots, acked>>

\* Every session there was when the pool was closed has ended.
PoolClosed ==
  /\ pool = "closing"
  /\ \A s \in Sessions : ending[s] # "cancelling"
  /\ pool' = "closed"
  /\ UNCHANGED <<store, session, ending, aborted, slots, acked, clientVars>>

-----------------------------------------------------------------------------
Client(c) ==
  /\ \/ \E i \in CallsOf[c] : Resume(c, i)
     \/ Receive(c)
     \/ Timer(c)
     \/ Exit(c)
  /\ UNCHANGED poolVars

Worker(c) ==
  /\ Start(c) \/ StartFails(c) \/ RunWrite(c) \/ RunRead(c) \/ RunFails(c)
     \/ RunClose(c) \/ Die(c)
  /\ UNCHANGED poolVars

Next ==
  \/ StoreReady \/ CloseStore \/ StoreStops \/ StoreClosed
  \/ \E i \in CallsOf[Store] : StoreCall(i)
  \/ \E s \in Sessions :
       \/ Open(s) \/ Opened(s) \/ OpenFails(s)
       \/ CloseSession(s) \/ Abort(s) \/ EndSession(s)
       \/ \E i \in CallsOf[s] : SessionCall(s, i)
  \/ ClosePool \/ PoolClosed
  \/ \E c \in Clients : Client(c) \/ Worker(c)

\* What the event loop, the timers and terminate() bring about by themselves.
Proceeds ==
  \/ StoreReady \/ StoreStops \/ StoreClosed \/ PoolClosed
  \/ \E s \in Sessions : Opened(s) \/ OpenFails(s) \/ EndSession(s)
  \/ \E c \in Clients :
       \/ Client(c)
       \/ killed[c] /\ Die(c) /\ UNCHANGED poolVars

\* Each of these steps can be taken finitely often, so fairness to all of them
\* together is fairness to each.  Nothing says that a worker ever answers.
Fairness == WF_vars(Proceeds)

Spec == Init /\ [][Next]_vars /\ Fairness

-----------------------------------------------------------------------------
CallStates == {"idle", "waiting", "pending", "answered", "failed"}

TypeOK ==
  /\ worker  \in [Clients -> {"none", "starting", "running", "dead", "exited"}]
  /\ killed  \in [Clients -> BOOLEAN]
  /\ closed  \in [Clients -> BOOLEAN]
  /\ failure \in [Clients -> {"none", "STORAGE_FAILURE", "CANCELLED"}]
  /\ call    \in [Clients -> [Ids -> CallStates]]
  /\ result  \in [Clients -> [Ids -> Nat]]
  /\ race    \in [Clients -> [Calls -> SUBSET Ids]]
  /\ inbox   \in [Clients -> Seq(Ids)]
  /\ outbox  \in [Clients -> Seq(Answer)]
  /\ view    \in [Clients -> Nat]
  /\ head    \in 0 .. Cardinality({i \in CallsOf[Store] : KindOf[i] = "write"})
  /\ store   \in {"opening", "open", "failed", "closing", "closed", "broken"}
  /\ session \in [Sessions -> {"idle", "opening", "open", "failing", "refused"}]
  /\ ending  \in [Sessions -> {"no", "cancelling", "ended"}]
  /\ aborted \in [Sessions -> BOOLEAN]
  /\ slots   \in SUBSET Sessions
  /\ pool    \in {"open", "closing", "closed"}
  /\ acked   \in [Sessions -> Nat]

\* No more read workers run than the pool's capacity, the ones that are still
\* starting and the ones told to stop that still run included.
WorkersWithinCapacity == Cardinality({s \in Sessions : Alive(s)}) <= Capacity

\* Once the pool's close has resolved, no read worker runs and none is started
\* again, whatever was opening, ending or aborted when it was called.
NothingOutlivesPool == pool = "closed" => \A s \in Sessions : ~Alive(s)

\* The queue's bound holds however many cleanup requests wait for the same
\* place; only close is exempt.
QueueBounded ==
  \A c \in Clients : Cardinality(Pending(c) \ {"close"}) <= MaxPending

\* close() drains: when the worker has answered it, the client never failed,
\* so no request accepted before it was rejected unanswered, and no request
\* is left in the worker's queue or pending.
CloseDrains ==
  Returned(Store, "close") =>
    failure[Store] = "none" /\ inbox[Store] = << >> /\ Pending(Store) = {}

\* All pages of a session come from the one committed state its worker
\* replayed, whatever is written meanwhile.
SessionReadsOneSnapshot ==
  \A s \in Sessions : \A i \in CallsOf[s] :
    Returned(s, i) => result[s][i] = result[s]["ready"]

\* A session opened after a write was acknowledged sees it: acknowledged
\* means committed in the file another connection reads.
SeesAcknowledgedWrites ==
  \A s \in Sessions : Returned(s, "ready") => result[s]["ready"] >= acked[s]

\* Every request comes to an answer or an error, every open() to a session or
\* a refusal, and every close() ends, also when workers hang, die or start
\* while they are being closed; no cleanup request waits for ever for a place.
EverythingEnds ==
  []<>( /\ \A c \in Clients, i \in Ids : call[c][i] \notin {"waiting", "pending"}
        /\ \A s \in Sessions :
             session[s] \notin {"opening", "failing"} /\ ending[s] # "cancelling"
        /\ store \notin {"opening", "closing"}
        /\ pool # "closing" )

\* Workers and queues keep their bounds, and closing is the end: of a store,
\* when what it accepted is done; of a pool, when none of its workers runs.
WorkersAccountedFor ==
  TypeOK /\ WorkersWithinCapacity /\ NothingOutlivesPool /\ QueueBounded /\ CloseDrains

\* A session reads one state of the recording, and none older than what was
\* acknowledged to a writer when the session was asked for.
ReadsAreCurrent == SessionReadsOneSnapshot /\ SeesAcknowledgedWrites
=============================================================================
