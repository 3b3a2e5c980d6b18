-------------------------- MODULE ReadWorkersProofs --------------------------
(* Proofs about the read workers: no more of them run than the pool's        *)
(* capacity, none outlives the pool, a client's queue keeps its bound, the    *)
(* store's close drains what was accepted, and a session reads one committed  *)
(* state, not older than what was acknowledged before it was asked for.       *)
(*                                                                            *)
(* The invariant says for each client where its requests are - in the queue   *)
(* to the worker, in the queue back, or settled - and for the file how many   *)
(* commits that allows; then it relates the places in the pool to the         *)
(* threads.  A step of the system does one of nine things to the clients      *)
(* (ClientStep), so the proof that the invariant is kept is done once for     *)
(* each of the nine, and for the pool once for each action.                   *)
EXTENDS ReadWorkers, FiniteSetTheorems, TLAPS

\* A client is what its life and its queues say; a call is on its way once, in
\* one of the queues, and close is the last.
ClientTypes ==
  /\ worker  \in [Clients -> {"none", "starting", "running", "dead", "exited"}]
  /\ closed  \in [Clients -> BOOLEAN]
  /\ failure \in [Clients -> {"none", "STORAGE_FAILURE", "CANCELLED"}]
  /\ call    \in [Clients -> [Ids -> CallStates]]
  /\ result  \in [Clients -> [Ids -> Nat]]
  /\ inbox   \in [Clients -> Seq(Ids)]
  /\ outbox  \in [Clients -> Seq(Answer)]
  /\ view    \in [Clients -> Nat]
  /\ head    \in Nat

\* What the client keeps besides: whether its thread was told to stop, and what
\* its waiting cleanup requests watch.
FlagTypes ==
  /\ killed \in [Clients -> BOOLEAN]
  /\ race   \in [Clients -> [Calls -> SUBSET Ids]]

\* The request is in the worker's queue, or its answer on the way back.
Sent(c, i) == \E k \in 1 .. Len(inbox[c]) : inbox[c][k] = i
AnsweredBy(c, i) == \E k \in 1 .. Len(outbox[c]) : outbox[c][k].id = i

\* A message is a request that was posted, once; nothing is posted after close.
InboxSound(c) ==
  /\ \A k \in 1 .. Len(inbox[c]) :
       /\ inbox[c][k] \in CallsOf[c] \union {"close"}
       /\ call[c][inbox[c][k]] \notin {"idle", "waiting"}
       /\ inbox[c][k] = "close" => k = Len(inbox[c])
  /\ \A k, l \in 1 .. Len(inbox[c]) : inbox[c][k] = inbox[c][l] => k = l

\* What is answered has left the queue, and close is answered last, by a worker that
\* has closed its port unless it failed to.
OutboxSound(c) ==
  \A k \in 1 .. Len(outbox[c]) :
    /\ ~Sent(c, outbox[c][k].id) /\ call[c][outbox[c][k].id] \notin {"idle", "waiting"}
    /\ outbox[c][k].id = "close" =>
         /\ k = Len(outbox[c]) /\ inbox[c] = << >>
         /\ outbox[c][k].ok => worker[c] = "dead"

\* A pending request is in one of the queues; readiness is the worker's to tell.
PendingSound(c) ==
  \A i \in Pending(c) :
    \/ Sent(c, i) \/ AnsweredBy(c, i)
    \/ i = "ready" /\ (worker[c] # "starting" => worker[c] = "dead" /\ outbox[c] = << >>)

\* Close is the store's, closes its client, and drains it when it is answered.
ClosingSound(c) ==
  /\ call[c]["close"] # "idle" => closed[c] /\ c = Store
  /\ failure[c] # "none" => closed[c]
  /\ call[c]["close"] \in {"pending", "answered"} => failure[c] = "none"
  /\ Returned(c, "close") =>
       inbox[c] = << >> /\ Pending(c) = {} /\ worker[c] \in {"dead", "exited"}

\* Nothing is asked of a worker that was not started, nothing is answered by one
\* that does not run yet, and nobody waits for one that has exited.
LifeSound(c) ==
  /\ worker[c] = "none" =>
       c # Store /\ inbox[c] = << >> /\ \A i \in Ids : call[c][i] = "idle"
  /\ worker[c] # "none" => call[c]["ready"] \notin {"idle", "waiting"}
  /\ worker[c] \in {"none", "starting"} =>
       outbox[c] = << >> /\ \A i \in Ids : ~Returned(c, i)
  /\ worker[c] = "exited" => closed[c] /\ Pending(c) = {}

\* The bound of the queue, which close is exempt from.
BoundSound(c) ==
  /\ IsFiniteSet(Pending(c))
  /\ Cardinality(Pending(c) \ {"close"}) <= MaxPending

\* The writes whose answer has left the worker: the client was told, or will be.
OkWrites ==
  {i \in CallsOf[Store] :
     /\ KindOf[i] = "write"
     /\ \/ Returned(Store, i)
        \/ \E k \in 1 .. Len(outbox[Store]) : outbox[Store][k].id = i /\ outbox[Store][k].ok}

\* The writes the worker may have run: they were sent and are not in its inbox.
RunWrites ==
  {i \in CallsOf[Store] :
     KindOf[i] = "write" /\ call[Store][i] \notin {"idle", "waiting"} /\ ~Sent(Store, i)}

\* The commits in the file are between the two.
CommitsSound ==
  Cardinality(OkWrites) <= head /\ head <= Cardinality(RunWrites)

\* What a session was told, or is about to be.
Reads(s) ==
  {outbox[s][k].value : k \in {k \in 1 .. Len(outbox[s]) : outbox[s][k].ok}}
    \union {result[s][i] : i \in {i \in Ids : Returned(s, i)}}

\* It all comes from the session's view.
SnapshotSound(s) == Reads(s) \subseteq {view[s]}

\* The view is not older than what was acknowledged when the session was opened.
AckedSound(s) ==
  /\ acked[s] <= head
  /\ worker[s] = "running" \/ Reads(s) # {} => acked[s] <= view[s]

\* Pages are asked for when the worker has answered that it is ready.
AskedSound(s) ==
  session[s] = "open" \/ (\E i \in CallsOf[s] : call[s][i] # "idle") => Returned(s, "ready")

\* What the store and the pool keep.
PoolTypes ==
  /\ store   \in {"opening", "open", "failed", "closing", "closed", "broken"}
  /\ session \in [Sessions -> {"idle", "opening", "open", "failing", "refused"}]
  /\ ending  \in [Sessions -> {"no", "cancelling", "ended"}]
  /\ aborted \in [Sessions -> BOOLEAN]
  /\ slots   \in SUBSET Sessions
  /\ pool    \in {"open", "closing", "closed"}
  /\ acked   \in [Sessions -> Nat]

\* A session whose worker lives has its place in the pool, and keeps it until its
\* close has ended.
PlaceSound(s) ==
  /\ session[s] = "idle" => worker[s] = "none" /\ ending[s] = "no" /\ s \notin slots
  /\ session[s] \in {"opening", "open", "failing"} => worker[s] # "none"
  /\ Alive(s) => s \in slots
  /\ s \in slots => ending[s] # "ended" /\ (pool # "open" => ending[s] # "no")

\* The pool keeps its bound, and is closed when nobody has a place in it.
PoolSound ==
  /\ IsFiniteSet(slots) /\ Cardinality(slots) <= Capacity
  /\ pool = "closed" => slots = {}
  /\ \A s \in Sessions : PlaceSound(s)

\* A client by itself.
ClientSound(c) ==
  /\ InboxSound(c) /\ OutboxSound(c) /\ PendingSound(c)
  /\ ClosingSound(c) /\ LifeSound(c) /\ BoundSound(c)

\* What the client knows of itself is its own.
Unchanged(c) ==
  /\ worker'[c] = worker[c] /\ closed'[c] = closed[c] /\ failure'[c] = failure[c]
  /\ call'[c] = call[c] /\ inbox'[c] = inbox[c] /\ outbox'[c] = outbox[c]

-----------------------------------------------------------------------------
(* Queues and counts                                                       *)

\* What is appended comes last and leaves the rest where it was.
LEMMA AppendFacts ==
  ASSUME NEW S, NEW q \in Seq(S), NEW e \in S
  PROVE  /\ Append(q, e) \in Seq(S) /\ Len(Append(q, e)) = Len(q) + 1 /\ Len(q) \in Nat
         /\ \A k \in 1 .. Len(q) : Append(q, e)[k] = q[k] /\ q[k] \in S
         /\ Append(q, e)[Len(q) + 1] = e
  OBVIOUS

\* Taking the first leaves the rest in its order.
LEMMA TailFacts ==
  ASSUME NEW S, NEW q \in Seq(S), q # << >>
  PROVE  /\ Tail(q) \in Seq(S) /\ Len(Tail(q)) = Len(q) - 1 /\ Len(q) \in Nat \ {0}
         /\ Head(q) = q[1] /\ Head(q) \in S
         /\ \A k \in 1 .. Len(q) - 1 : Tail(q)[k] = q[k + 1]
  OBVIOUS

\* Nothing is in a queue without length.
LEMMA EmptyFacts ==
  ASSUME NEW S, NEW q \in Seq(S)
  PROVE  Len(q) = 0 <=> q = << >>
  OBVIOUS

\* What waits in the queues of a client are its requests and their answers.
LEMMA QueueTypes ==
  ASSUME ClientTypes, NEW c \in Clients
  PROVE  /\ inbox[c] \in Seq(Ids) /\ Len(inbox[c]) \in Nat
         /\ \A k \in 1 .. Len(inbox[c]) : inbox[c][k] \in Ids
         /\ outbox[c] \in Seq(Answer) /\ Len(outbox[c]) \in Nat
         /\ \A k \in 1 .. Len(outbox[c]) :
              outbox[c][k] \in Answer /\ outbox[c][k].id \in Ids
         /\ call[c] \in [Ids -> CallStates]
<1>1. inbox[c] \in Seq(Ids) /\ outbox[c] \in Seq(Answer) /\ call[c] \in [Ids -> CallStates]
  BY DEF ClientTypes
<1>2. \A k \in 1 .. Len(inbox[c]) : inbox[c][k] \in Ids
  BY <1>1
<1>3. \A k \in 1 .. Len(outbox[c]) : outbox[c][k] \in Answer
  BY <1>1
<1>4. \A a \in Answer : a.id \in Ids
  BY DEF Answer
<1> QED
  BY <1>1, <1>2, <1>3, <1>4

\* A bound on a finite set holds for what is left of it and grows by one with it.
LEMMA CountFacts ==
  ASSUME NEW S, IsFiniteSet(S)
  PROVE  /\ Cardinality(S) \in Nat
         /\ \A T \in SUBSET S : IsFiniteSet(T) /\ Cardinality(T) <= Cardinality(S)
         /\ \A x : /\ IsFiniteSet(S \union {x})
                   /\ Cardinality(S \union {x}) <= Cardinality(S) + 1
                   /\ x \notin S => Cardinality(S \union {x}) = Cardinality(S) + 1
<1>1. Cardinality(S) \in Nat
  BY FS_CardinalityType
<1>2. \A T \in SUBSET S : IsFiniteSet(T) /\ Cardinality(T) <= Cardinality(S)
  BY FS_Subset
<1>3. \A x : IsFiniteSet(S \union {x})
             /\ Cardinality(S \union {x}) = IF x \in S THEN Cardinality(S) ELSE Cardinality(S) + 1
  BY FS_AddElement
<1>4. ASSUME NEW x
      PROVE  /\ IsFiniteSet(S \union {x})
             /\ Cardinality(S \union {x}) <= Cardinality(S) + 1
             /\ x \notin S => Cardinality(S \union {x}) = Cardinality(S) + 1
  <2>1. CASE x \in S
    BY <2>1, <1>1, <1>3
  <2>2. CASE x \notin S
    <3>1. IsFiniteSet(S \union {x}) /\ Cardinality(S \union {x}) = Cardinality(S) + 1
      BY <2>2, <1>3
    <3> QED
      BY <3>1, <2>2, <1>1
  <2> QED
    BY <2>1, <2>2
<1> QED
  BY <1>1, <1>2, <1>4

-----------------------------------------------------------------------------
(* The steps of a client                                                   *)

\* A client that nothing has happened to is as sound as it was.
LEMMA UnchangedSound ==
  ASSUME NEW c, ClientSound(c), Unchanged(c)
  PROVE  ClientSound(c)'
<1> USE DEF Unchanged, Sent, AnsweredBy, Pending, Returned
<1>1. InboxSound(c)'
  BY DEF ClientSound, InboxSound
<1>2. OutboxSound(c)'
  BY DEF ClientSound, OutboxSound
<1>3. PendingSound(c)'
  BY DEF ClientSound, PendingSound
<1>4. ClosingSound(c)'
  BY DEF ClientSound, ClosingSound
<1>5. LifeSound(c)'
  BY DEF ClientSound, LifeSound
<1>6. BoundSound(c)'
  BY DEF ClientSound, BoundSound
<1> QED
  BY <1>1, <1>2, <1>3, <1>4, <1>5, <1>6 DEF ClientSound

\* A request that an open client with room for it posts, or its close.
LEMMA PostSound ==
  ASSUME ClientTypes, NEW c \in Clients, ClientSound(c), NEW i \in CallsOf[c] \union {"close"},
         call[c][i] \in {"idle", "waiting"}, ~closed[c], worker[c] # "none",
         call'[c] = [call[c] EXCEPT ![i] = "pending"],
         inbox'[c] = Append(inbox[c], i),
         UNCHANGED <<worker, failure, outbox>>,
         \/ i \in Calls /\ ~Full(c) /\ closed' = closed
         \/ i = "close" /\ c = Store /\ closed'[c]
  PROVE  ClientSound(c)'
<1> USE ClientAssumption
<1>1. i \in Ids /\ call[c] \in [Ids -> CallStates]
  BY DEF Ids, ClientTypes
<1>2. /\ Len(inbox[c]) \in Nat /\ Len(inbox'[c]) = Len(inbox[c]) + 1
      /\ inbox'[c][Len(inbox[c]) + 1] = i
      /\ \A k \in 1 .. Len(inbox[c]) : inbox'[c][k] = inbox[c][k]
  BY <1>1, AppendFacts DEF ClientTypes
<1>3. \A j : Sent(c, j)' <=> Sent(c, j) \/ j = i
  BY <1>2 DEF Sent
<1>4. ~Sent(c, i) /\ ~AnsweredBy(c, i)
  BY DEF ClientSound, InboxSound, OutboxSound, Sent, AnsweredBy
<1>5. call[c]["close"] = "idle" /\ ~Sent(c, "close") /\ ~AnsweredBy(c, "close")
  BY <1>1 DEF ClientSound, ClosingSound, InboxSound, OutboxSound, Sent, AnsweredBy, Returned
<1>6. Pending(c)' = Pending(c) \union {i} /\ i \notin Pending(c)
  BY <1>1 DEF Pending
<1>7. InboxSound(c)'
  BY <1>1, <1>2, <1>4, <1>5 DEF ClientSound, InboxSound, Sent
<1>8. OutboxSound(c)'
  BY <1>1, <1>3, <1>4, <1>5 DEF ClientSound, OutboxSound, AnsweredBy
<1>9. PendingSound(c)'
  BY <1>3, <1>6 DEF ClientSound, PendingSound, AnsweredBy
<1>10. ClosingSound(c)'
  BY <1>1, <1>5 DEF ClientSound, ClosingSound, Returned, Ids
<1>11. LifeSound(c)'
  BY <1>1, <1>6 DEF ClientSound, LifeSound, Returned
<1>12. BoundSound(c)'
  <2>1. IsFiniteSet(Pending(c)')
    BY <1>6, CountFacts DEF ClientSound, BoundSound
  <2>2. CASE i = "close"
    BY <2>1, <2>2, <1>6 DEF ClientSound, BoundSound
  <2>3. CASE i \in Calls /\ ~Full(c)
    <3>1. Cardinality(Pending(c)) \in Nat /\ Cardinality(Pending(c)) < MaxPending
      BY <2>3, CountFacts DEF Full, ClientSound, BoundSound
    <3>2. Cardinality(Pending(c) \union {i}) \in Nat /\ Cardinality(Pending(c) \union {i}) <= MaxPending
      BY <3>1, CountFacts DEF ClientSound, BoundSound
    <3>3. Cardinality(Pending(c)' \ {"close"}) <= Cardinality(Pending(c)')
          /\ Cardinality(Pending(c)' \ {"close"}) \in Nat
      BY <2>1, CountFacts
    <3> QED
      BY <2>1, <3>2, <3>3, <1>6 DEF BoundSound
  <2> QED
    BY <2>2, <2>3
<1> QED
  BY <1>7, <1>8, <1>9, <1>10, <1>11, <1>12 DEF ClientSound

\* A request that is refused, or has to wait, has not been posted.
LEMMA RefuseSound ==
  ASSUME ClientTypes, NEW c \in Clients, ClientSound(c), NEW i \in Calls,
         call[c][i] \in {"idle", "waiting"}, worker[c] # "none",
         NEW v \in {"failed", "waiting"},
         call'[c] = [call[c] EXCEPT ![i] = v],
         UNCHANGED <<worker, closed, failure, inbox, outbox>>
  PROVE  ClientSound(c)'
<1> USE ClientAssumption DEF Sent, AnsweredBy
<1>1. i \in Ids /\ i # "ready" /\ i # "close" /\ call[c] \in [Ids -> CallStates]
  BY DEF Ids, ClientTypes
<1>2. Pending(c)' = Pending(c)
  BY <1>1 DEF Pending
<1>3. \A k \in 1 .. Len(inbox[c]) : inbox[c][k] # i
  BY DEF ClientSound, InboxSound
<1>4. \A k \in 1 .. Len(outbox[c]) : outbox[c][k].id # i
  BY DEF ClientSound, OutboxSound
<1>5. InboxSound(c)'
  BY <1>1, <1>3 DEF ClientSound, InboxSound
<1>6. OutboxSound(c)'
  BY <1>1, <1>4 DEF ClientSound, OutboxSound
<1>7. PendingSound(c)'
  BY <1>2 DEF ClientSound, PendingSound
<1>8. ClosingSound(c)'
  BY <1>1, <1>2 DEF ClientSound, ClosingSound, Returned, Ids
<1>9. LifeSound(c)'
  BY <1>1, <1>2 DEF ClientSound, LifeSound, Returned, Ids
<1>10. BoundSound(c)'
  BY <1>2 DEF ClientSound, BoundSound
<1> QED
  BY <1>5, <1>6, <1>7, <1>8, <1>9, <1>10 DEF ClientSound

\* The worker of a session starts.
LEMMA ConstructSound ==
  ASSUME ClientTypes, NEW c \in Clients, ClientSound(c), worker[c] = "none",
         worker'[c] = "starting", call'[c] = [call[c] EXCEPT !["ready"] = "pending"],
         UNCHANGED <<closed, failure, inbox, outbox>>
  PROVE  ClientSound(c)'
<1> USE ClientAssumption DEF Sent, AnsweredBy
<1>1. /\ "ready" \in Ids /\ "close" \in Ids /\ call[c] \in [Ids -> CallStates]
      /\ inbox[c] = << >> /\ outbox[c] = << >> /\ \A i \in Ids : call[c][i] = "idle"
      /\ c # Store
  BY DEF Ids, ClientTypes, ClientSound, LifeSound
<1>2. Pending(c)' = {"ready"}
  BY <1>1 DEF Pending
<1>3. InboxSound(c)' /\ OutboxSound(c)' /\ PendingSound(c)'
  BY <1>1, <1>2 DEF InboxSound, OutboxSound, PendingSound
<1>4. ClosingSound(c)' /\ LifeSound(c)'
  BY <1>1 DEF ClientSound, ClosingSound, LifeSound, Returned
<1>5. BoundSound(c)'
  <2>1. {"ready"} \ {"close"} = {"ready"}
    OBVIOUS
  <2>2. IsFiniteSet({"ready"}) /\ Cardinality({"ready"}) = 1
    BY FS_Singleton
  <2>3. IsFiniteSet(Pending(c)') /\ Cardinality(Pending(c)' \ {"close"}) = 1
    BY <1>2, <2>1, <2>2
  <2>4. 1 <= MaxPending
    OBVIOUS
  <2> QED
    BY <2>3, <2>4 DEF BoundSound
<1> QED
  BY <1>3, <1>4, <1>5 DEF ClientSound

\* fail(): what is pending is rejected.  The store's client never fails once its
\* close has been answered.
LEMMA FailSound ==
  ASSUME ClientTypes, NEW c \in Clients, ClientSound(c),
         c = Store => Pending(c) # {} \/ ~closed[c],
         NEW why, failure'[c] = IF failure[c] = "none" THEN why ELSE failure[c],
         closed'[c],
         call'[c] = [i \in Ids |-> IF call[c][i] = "pending" THEN "failed" ELSE call[c][i]],
         \/ worker'[c] = worker[c]
         \/ worker[c] = "dead" /\ worker'[c] = "exited" /\ outbox[c] = << >>,
         UNCHANGED <<inbox, outbox>>
  PROVE  ClientSound(c)'
<1> USE ClientAssumption DEF Sent, AnsweredBy
<1>1. /\ "ready" \in Ids
      /\ "close" \in Ids
      /\ call[c] \in [Ids -> CallStates]
      /\ \A k \in 1 .. Len(inbox[c]) : inbox[c][k] \in Ids
      /\ \A k \in 1 .. Len(outbox[c]) : outbox[c][k].id \in Ids
  BY QueueTypes DEF Ids
<1>2. Pending(c)' = {}
  BY DEF Pending
<1>3. InboxSound(c)'
  BY <1>1 DEF ClientSound, InboxSound
<1>4. OutboxSound(c)'
  <2>1. worker'[c] = worker[c] \/ Len(outbox[c]) = 0
    BY EmptyFacts
  <2>2. \A i \in Ids : call[c][i] \notin {"idle", "waiting"} => call'[c][i] \notin {"idle", "waiting"}
    OBVIOUS
  <2>3. ASSUME NEW k \in 1 .. Len(outbox[c])
        PROVE  /\ ~Sent(c, outbox[c][k].id)
               /\ call'[c][outbox[c][k].id] \notin {"idle", "waiting"}
               /\ outbox[c][k].id = "close" =>
                    /\ k = Len(outbox[c]) /\ inbox[c] = << >>
                    /\ outbox[c][k].ok => worker[c] = "dead"
    <3>1. /\ ~Sent(c, outbox[c][k].id)
          /\ call[c][outbox[c][k].id] \notin {"idle", "waiting"}
          /\ outbox[c][k].id = "close" =>
               /\ k = Len(outbox[c]) /\ inbox[c] = << >>
               /\ outbox[c][k].ok => worker[c] = "dead"
      BY DEF ClientSound, OutboxSound
    <3>2. outbox[c][k].id \in Ids
      BY QueueTypes
    <3>3. call'[c][outbox[c][k].id] \notin {"idle", "waiting"}
      BY <2>2, <3>1, <3>2
    <3> QED
      BY <3>1, <3>3
  <2>4. Len(outbox[c]) = 0 => 1 .. Len(outbox[c]) = {}
    OBVIOUS
  <2> QED
    BY <2>1, <2>3, <2>4 DEF OutboxSound
<1>5. PendingSound(c)'
  BY <1>2 DEF PendingSound
<1>6. ClosingSound(c)'
  <2>1. ~Returned(c, "close")
    BY DEF ClientSound, ClosingSound, Returned
  <2> QED
    BY <1>1, <1>2, <2>1 DEF ClientSound, ClosingSound, Returned
<1>7. LifeSound(c)'
  BY <1>1, <1>2 DEF ClientSound, LifeSound, Returned
<1>8. BoundSound(c)'
  BY <1>2, FS_EmptySet, ClientAssumption DEF BoundSound
<1> QED
  BY <1>3, <1>4, <1>5, <1>6, <1>7, <1>8 DEF ClientSound

\* The thread has ended and nobody waits for it.
LEMMA ExitSound ==
  ASSUME ClientTypes, NEW c \in Clients, ClientSound(c), worker[c] = "dead", outbox[c] = << >>,
         Pending(c) = {}, closed[c], worker'[c] = "exited",
         UNCHANGED <<closed, failure, call, inbox, outbox>>
  PROVE  ClientSound(c)'
<1>1. Pending(c)' = {}
  BY DEF Pending
<1> QED
  BY <1>1 DEF ClientSound, InboxSound, OutboxSound, PendingSound, ClosingSound, LifeSound,
      BoundSound, Sent, AnsweredBy, Returned

\* The thread ends, told to or not.
LEMMA DieSound ==
  ASSUME ClientTypes, NEW c \in Clients, ClientSound(c), worker[c] \in {"starting", "running"},
         worker'[c] = "dead",
         UNCHANGED <<closed, failure, call, inbox, outbox>>
  PROVE  ClientSound(c)'
<1>1. Pending(c)' = Pending(c)
  BY DEF Pending
<1> QED
  BY <1>1 DEF ClientSound, InboxSound, OutboxSound, PendingSound, ClosingSound, LifeSound,
      BoundSound, Sent, AnsweredBy, Returned

\* The worker answers that it is ready, or why it is not.
LEMMA StartSound ==
  ASSUME ClientTypes, NEW c \in Clients, ClientSound(c), worker[c] = "starting",
         worker'[c] \in {"running", "dead"},
         NEW a \in Answer, a.id = "ready", outbox'[c] = Append(outbox[c], a),
         UNCHANGED <<closed, failure, call, inbox>>
  PROVE  ClientSound(c)'
<1> USE ClientAssumption
<1>1. outbox[c] = << >> /\ Len(outbox'[c]) = 1 /\ outbox'[c][1] = a
  BY AppendFacts DEF ClientSound, LifeSound
<1>2. Pending(c)' = Pending(c)
  BY DEF Pending
<1>3. AnsweredBy(c, "ready")' /\ ~AnsweredBy(c, "ready")
  BY <1>1 DEF AnsweredBy
<1>4. ~Sent(c, "ready")
  BY DEF ClientSound, InboxSound, Sent
<1>5. InboxSound(c)'
  BY DEF ClientSound, InboxSound
<1>6. OutboxSound(c)'
  BY <1>1, <1>4 DEF ClientSound, LifeSound, OutboxSound, Sent
<1>7. PendingSound(c)'
  BY <1>1, <1>2, <1>3 DEF ClientSound, PendingSound, AnsweredBy, Sent
<1>8. ClosingSound(c)' /\ LifeSound(c)'
  BY <1>2 DEF ClientSound, ClosingSound, LifeSound, Returned
<1>9. BoundSound(c)'
  BY <1>2 DEF ClientSound, BoundSound
<1> QED
  BY <1>5, <1>6, <1>7, <1>8, <1>9 DEF ClientSound

\* What the worker takes from its queue was there once.
LEMMA TakenOnce ==
  ASSUME ClientTypes, NEW c \in Clients, InboxSound(c), WorkerRuns(c),
         inbox'[c] = Tail(inbox[c])
  PROVE  \A j : Sent(c, j)' <=> Sent(c, j) /\ j # Head(inbox[c])
<1> DEFINE h == Head(inbox[c])
<1>1. /\ inbox[c] # << >>
      /\ Len(inbox[c]) \in Nat \ {0} /\ Len(inbox'[c]) = Len(inbox[c]) - 1
      /\ inbox[c][1] = h
      /\ \A k \in 1 .. Len(inbox[c]) - 1 : inbox'[c][k] = inbox[c][k + 1]
  BY TailFacts DEF WorkerRuns, ClientTypes
<1>0. \A k \in 1 .. Len(inbox[c]) : k # 1 => inbox[c][k] # h
  BY <1>1 DEF InboxSound
<1>2. ASSUME NEW j, Sent(c, j)'
      PROVE  Sent(c, j) /\ j # h
  BY <1>2, <1>0, <1>1 DEF Sent
<1>3. ASSUME NEW j, Sent(c, j), j # h
      PROVE  Sent(c, j)'
  <2>1. PICK k \in 1 .. Len(inbox[c]) : inbox[c][k] = j
    BY <1>3 DEF Sent
  <2>2. k # 1 /\ k - 1 \in 1 .. Len(inbox'[c]) /\ inbox'[c][k - 1] = inbox[c][(k - 1) + 1]
    BY <1>3, <2>1, <1>1
  <2> QED
    BY <2>1, <2>2 DEF Sent
<1> QED
  BY <1>2, <1>3

\* The worker answers the first of its messages; close is the last it answers.
LEMMA RunSound ==
  ASSUME ClientTypes, NEW c \in Clients, ClientSound(c), WorkerRuns(c),
         NEW a \in Answer, a.id = Head(inbox[c]),
         worker'[c] = IF a.id = "close" /\ a.ok THEN "dead" ELSE "running",
         inbox'[c] = Tail(inbox[c]), outbox'[c] = Append(outbox[c], a),
         UNCHANGED <<closed, failure, call>>
  PROVE  ClientSound(c)'
<1> USE ClientAssumption
<1>1. /\ worker[c] = "running" /\ inbox[c] # << >>
      /\ Len(inbox[c]) \in Nat \ {0} /\ Len(inbox'[c]) = Len(inbox[c]) - 1
      /\ inbox[c][1] = a.id
      /\ \A k \in 1 .. Len(inbox[c]) - 1 : inbox'[c][k] = inbox[c][k + 1]
  BY TailFacts DEF WorkerRuns, ClientTypes
<1>2. /\ Len(outbox[c]) \in Nat /\ Len(outbox'[c]) = Len(outbox[c]) + 1
      /\ outbox'[c][Len(outbox[c]) + 1] = a
      /\ \A k \in 1 .. Len(outbox[c]) : outbox'[c][k] = outbox[c][k]
  BY AppendFacts DEF ClientTypes
<1>0. \A k \in 1 .. Len(inbox[c]) :
        /\ k # 1 => inbox[c][k] # a.id
        /\ inbox[c][k] = "close" => k = Len(inbox[c])
  BY <1>1 DEF ClientSound, InboxSound
<1>3. \A j : Sent(c, j)' <=> Sent(c, j) /\ j # a.id
  BY TakenOnce DEF ClientSound
<1>4. \A j : AnsweredBy(c, j)' <=> AnsweredBy(c, j) \/ j = a.id
  BY <1>2 DEF AnsweredBy
<1>5. Pending(c)' = Pending(c)
  BY DEF Pending
<1>6. \A k \in 1 .. Len(outbox[c]) : outbox[c][k].id # "close" /\ outbox[c][k].id # a.id
  BY <1>1 DEF ClientSound, OutboxSound, Sent
<1>7. InboxSound(c)'
  BY <1>1 DEF ClientSound, InboxSound
<1>8. OutboxSound(c)'
  <2>1. a.id = "close" => Len(inbox[c]) = 1
    <3>1. 1 \in 1 .. Len(inbox[c])
      BY <1>1
    <3> QED
      BY <3>1, <1>0, <1>1
  <2>2. a.id = "close" => inbox'[c] = << >>
    <3>1. inbox'[c] \in Seq(Ids)
      BY <1>1, QueueTypes, TailFacts
    <3> QED
      <4>1. a.id = "close" => Len(inbox'[c]) = 0
        BY <2>1, <1>1
      <4> QED
        BY <3>1, <4>1, EmptyFacts
  <2>3. call[c][a.id] \notin {"idle", "waiting"}
    BY <1>1 DEF ClientSound, InboxSound
  <2> QED
    BY <1>2, <1>3, <1>6, <2>2, <2>3 DEF ClientSound, OutboxSound
<1>9. PendingSound(c)'
  BY <1>1, <1>3, <1>4, <1>5 DEF ClientSound, PendingSound
<1>10. ClosingSound(c)' /\ LifeSound(c)'
  BY <1>1, <1>5 DEF ClientSound, ClosingSound, LifeSound, Returned
<1>11. BoundSound(c)'
  BY <1>5 DEF ClientSound, BoundSound
<1> QED
  BY <1>7, <1>8, <1>9, <1>10, <1>11 DEF ClientSound

\* An answer arrives: it settles its request, if that is still pending.
LEMMA ReceiveSound ==
  ASSUME ClientTypes, NEW c \in Clients, ClientSound(c), outbox[c] # << >>,
         outbox'[c] = Tail(outbox[c]),
         call'[c] = IF Head(outbox[c]).id \in Pending(c)
                      THEN [call[c] EXCEPT ![Head(outbox[c]).id] =
                              IF Head(outbox[c]).ok THEN "answered" ELSE "failed"]
                      ELSE call[c],
         UNCHANGED <<worker, closed, failure, inbox>>
  PROVE  ClientSound(c)'
<1> USE ClientAssumption
<1> DEFINE id == Head(outbox[c]).id
<1>1. /\ Len(outbox[c]) \in Nat \ {0} /\ Len(outbox'[c]) = Len(outbox[c]) - 1
      /\ outbox[c][1].id = id /\ id \in Ids
      /\ \A k \in 1 .. Len(outbox[c]) - 1 : outbox'[c][k] = outbox[c][k + 1]
      /\ \A k \in 1 .. Len(outbox[c]) : outbox[c][k].id \in Ids
  BY TailFacts, QueueTypes
<1>2. call[c] \in [Ids -> CallStates] /\ call'[c] \in [Ids -> CallStates]
      /\ \A i \in Ids : /\ i # id => call'[c][i] = call[c][i]
                        /\ call[c][i] = call'[c][i] \/ call'[c][i] \in {"answered", "failed"}
  BY QueueTypes DEF CallStates
<1>3. Pending(c)' = Pending(c) \ {id}
  BY <1>2 DEF Pending, CallStates
<1>4. \A i : AnsweredBy(c, i) /\ i # id => AnsweredBy(c, i)'
  BY <1>1 DEF AnsweredBy
<1>5. \A i : Sent(c, i)' = Sent(c, i)
  BY DEF Sent
<1>6. worker[c] \notin {"none", "starting"}
  BY DEF ClientSound, LifeSound
<1>7. InboxSound(c)'
  <2>1. \A k \in 1 .. Len(inbox[c]) : inbox[c][k] \in Ids
    BY DEF ClientTypes
  <2> QED
    BY <1>2, <2>1 DEF ClientSound, InboxSound
<1>8. OutboxSound(c)'
  BY <1>1, <1>2, <1>5 DEF ClientSound, OutboxSound
<1>9. PendingSound(c)'
  <2>1. ASSUME NEW i \in Pending(c), i # id
        PROVE  Sent(c, i) \/ AnsweredBy(c, i)
    BY <2>1, <1>6 DEF ClientSound, PendingSound
  <2> QED
    BY <2>1, <1>3, <1>4, <1>5 DEF PendingSound
<1>10. ClosingSound(c)'
  <2>1. CASE id # "close" \/ id \notin Pending(c)
    BY <2>1, <1>2, <1>3 DEF ClientSound, ClosingSound, Returned, Ids
  <2>2. CASE id = "close" /\ id \in Pending(c)
    <3>1. /\ Len(outbox[c]) = 1 /\ inbox[c] = << >>
          /\ Head(outbox[c]).ok => worker[c] = "dead"
      <4>1. /\ 1 \in 1 .. Len(outbox[c]) /\ outbox[c][1].id = "close"
            /\ outbox[c][1] = Head(outbox[c])
        BY <2>2, <1>1, TailFacts, QueueTypes
      <4> QED
        BY <4>1 DEF ClientSound, OutboxSound
    <3>2. \A i \in Pending(c) : i = "close"
      BY <2>2, <3>1, <1>1, <1>6 DEF ClientSound, PendingSound, Sent, AnsweredBy
    <3> QED
      BY <2>2, <3>1, <3>2, <1>2, <1>3 DEF ClientSound, ClosingSound, Returned, Pending
  <2> QED
    BY <2>1, <2>2
<1>11. LifeSound(c)'
  BY <1>2, <1>3, <1>6 DEF ClientSound, LifeSound, Ids, CallStates
<1>12. BoundSound(c)'
  <2>1. Pending(c)' \in SUBSET Pending(c) /\ Pending(c)' \ {"close"} \in SUBSET (Pending(c) \ {"close"})
    BY <1>3
  <2>2. IsFiniteSet(Pending(c)) /\ IsFiniteSet(Pending(c) \ {"close"})
    BY CountFacts DEF ClientSound, BoundSound
  <2>3. IsFiniteSet(Pending(c)')
    BY <2>1, <2>2, CountFacts
  <2>4. /\ Cardinality(Pending(c)' \ {"close"}) <= Cardinality(Pending(c) \ {"close"})
        /\ Cardinality(Pending(c) \ {"close"}) \in Nat
        /\ Cardinality(Pending(c)' \ {"close"}) \in Nat
    BY <2>1, <2>2, CountFacts
  <2> QED
    BY <2>3, <2>4 DEF ClientSound, BoundSound
<1> QED
  BY <1>7, <1>8, <1>9, <1>10, <1>11, <1>12 DEF ClientSound

-----------------------------------------------------------------------------
(* What a step of the system does to the clients                           *)

\* The invariant: every part of it for every client.
ReadInv ==
  /\ ClientTypes /\ FlagTypes /\ PoolTypes /\ PoolSound /\ CommitsSound
  /\ \A c \in Clients : ClientSound(c)
  /\ \A s \in Sessions : SnapshotSound(s) /\ AckedSound(s) /\ AskedSound(s)

\* The values answered, the snapshots and the file.
DataUnchanged == UNCHANGED <<result, view, head>>

\* A request is posted, or close is.
PostStep(c, i) ==
  /\ i \in CallsOf[c] \union {"close"} /\ call[c][i] \in {"idle", "waiting"}
  /\ ~closed[c] /\ worker[c] # "none"
  /\ Post(c, i)
  /\ \/ i \in Calls /\ ~Full(c) /\ closed' = closed
     \/ i = "close" /\ c = Store /\ closed' = [closed EXCEPT ![c] = TRUE]
  /\ UNCHANGED <<worker, failure, outbox>> /\ DataUnchanged

\* A request fails at once, or a cleanup request waits.
RefuseStep(c, i) ==
  /\ i \in Calls /\ call[c][i] \in {"idle", "waiting"} /\ worker[c] # "none"
  /\ \E v \in {"failed", "waiting"} : call' = [call EXCEPT ![c][i] = v]
  /\ UNCHANGED <<worker, closed, failure, inbox, outbox>> /\ DataUnchanged

\* A session's worker is started.
ConstructStep(s) ==
  /\ s \in Sessions /\ worker[s] = "none"
  /\ Construct(s)
  /\ UNCHANGED <<closed, failure, inbox, outbox>> /\ DataUnchanged

\* Clients fail, one of them perhaps because its thread has exited.
FailStep(C, why) ==
  /\ Store \in C => Pending(Store) # {} \/ ~closed[Store]
  /\ Fail(C, why)
  /\ \/ worker' = worker
     \/ \E c \in C : /\ worker[c] = "dead" /\ outbox[c] = << >>
                     /\ worker' = [worker EXCEPT ![c] = "exited"]
  /\ UNCHANGED <<inbox, outbox>> /\ DataUnchanged

\* A thread dies, or its exit is seen by a client that nothing is pending at.
EndStep(c) ==
  /\ \/ /\ worker[c] = "dead" /\ outbox[c] = << >> /\ Pending(c) = {} /\ closed[c]
        /\ worker' = [worker EXCEPT ![c] = "exited"]
     \/ /\ worker[c] \in {"starting", "running"}
        /\ worker' = [worker EXCEPT ![c] = "dead"]
  /\ UNCHANGED <<closed, failure, call, inbox, outbox>> /\ DataUnchanged

\* The worker starts, or fails to.
StartStep(c, a) ==
  /\ worker[c] = "starting" /\ a.id = "ready"
  /\ outbox' = [outbox EXCEPT ![c] = Append(@, a)]
  /\ \/ /\ a.ok /\ a.value = head
        /\ worker' = [worker EXCEPT ![c] = "running"]
        /\ view' = [view EXCEPT ![c] = head]
     \/ /\ ~a.ok
        /\ worker' = [worker EXCEPT ![c] = "dead"]
        /\ view' = view
  /\ UNCHANGED <<closed, failure, call, inbox, result, head>>

\* A write that is answered well has committed once; what a session is answered
\* comes from its view.
RunStep(c, a) ==
  /\ WorkerRuns(c) /\ a.id = Head(inbox[c])
  /\ inbox' = [inbox EXCEPT ![c] = Tail(@)]
  /\ outbox' = [outbox EXCEPT ![c] = Append(@, a)]
  /\ worker' = IF a.id = "close" /\ a.ok THEN [worker EXCEPT ![c] = "dead"] ELSE worker
  /\ \/ c = Store /\ a.id \in Calls /\ KindOf[a.id] = "write" /\ a.ok /\ head' = head + 1
     \/ head' = head /\ ~(a.id \in Calls /\ KindOf[a.id] = "write" /\ a.ok)
  /\ c # Store /\ a.ok => a.value = view[c]
  /\ UNCHANGED <<closed, failure, call, result, view>>

\* An answer arrives.
ReceiveStep(c) ==
  /\ outbox[c] # << >>
  /\ outbox' = [outbox EXCEPT ![c] = Tail(@)]
  /\ LET a == Head(outbox[c])
     IN IF a.id \in Pending(c)
          THEN /\ call' = [call EXCEPT ![c][a.id] = IF a.ok THEN "answered" ELSE "failed"]
               /\ result' = [result EXCEPT ![c][a.id] = a.value]
          ELSE UNCHANGED <<call, result>>
  /\ UNCHANGED <<worker, closed, failure, inbox, view, head>>

\* Nothing happens to the clients.
QuietStep ==
  UNCHANGED <<worker, closed, failure, call, inbox, outbox>> /\ DataUnchanged

\* What a step of the system can be to the clients.
ClientStep ==
  \/ \E c \in Clients :
       \/ \E i \in CallsOf[c] \union {"close"} : PostStep(c, i) \/ RefuseStep(c, i)
       \/ ConstructStep(c) \/ EndStep(c) \/ ReceiveStep(c)
       \/ \E a \in Answer : StartStep(c, a) \/ RunStep(c, a)
  \/ \E C \in SUBSET Clients, why \in {"STORAGE_FAILURE", "CANCELLED"} : FailStep(C, why)
  \/ QuietStep

\* A request is posted, refused, or has to wait.
LEMMA RequestKinds ==
  ASSUME ReadInv, NEW c \in Clients, NEW i \in CallsOf[c], worker[c] # "none",
         Request(c, i) \/ PostFails(c, i)
  PROVE  ClientStep
<1> USE ClientAssumption
<1>1. i \in Calls /\ call[c][i] = "idle"
  BY DEF Request, PostFails
<1>2. CASE PostFails(c, i)
  BY <1>1, <1>2 DEF PostFails, ClientUnfailed, RefuseStep, ClientStep, DataUnchanged
<1>3. CASE Request(c, i)
  <2>1. CASE call' = [call EXCEPT ![c][i] = "failed"] /\ UNCHANGED <<inbox, race>>
    BY <1>1, <1>3, <2>1 DEF Request, ClientUnfailed, RefuseStep, ClientStep, DataUnchanged
  <2>2. CASE call' = [call EXCEPT ![c][i] = "waiting"] /\ UNCHANGED inbox
    BY <1>1, <1>3, <2>2 DEF Request, ClientUnfailed, RefuseStep, ClientStep, DataUnchanged
  <2>3. CASE ~closed[c] /\ ~Full(c) /\ Post(c, i)
    BY <1>1, <1>3, <2>3 DEF Request, ClientUnfailed, PostStep, ClientStep, DataUnchanged
  <2>4. KindOf[i] = "cleanup" \/ KindOf[i] # "cleanup"
    OBVIOUS
  <2>5. closed[c] \/ (~closed[c] /\ Full(c) /\ KindOf[i] # "cleanup")
         \/ (~closed[c] /\ Full(c) /\ KindOf[i] = "cleanup") \/ (~closed[c] /\ ~Full(c))
    OBVIOUS
  <2> QED
    BY <1>3, <2>1, <2>2, <2>3, <2>5 DEF Request
<1> QED
  BY <1>2, <1>3

\* Every step does one of these things to the clients.
LEMMA StepKinds ==
  ASSUME ReadInv, Next
  PROVE  ClientStep
<1> USE ClientAssumption
<1> USE DEF clientVars, DataUnchanged
<1>0. Store \in Clients /\ Sessions \subseteq Clients /\ worker[Store] # "none"
  BY DEF Clients, ReadInv, ClientSound, LifeSound
<1>1. CASE StoreReady
  <2>1. CASE UNCHANGED clientVars
    BY <2>1 DEF QuietStep, ClientStep
  <2>2. CASE /\ ~closed[Store] /\ Post(Store, "close")
             /\ closed' = [closed EXCEPT ![Store] = TRUE]
             /\ UNCHANGED <<worker, killed, failure, result, race, outbox, view, head>>
    <3>1. call[Store]["close"] = "idle"
      BY <1>0, <2>2 DEF ReadInv, ClientSound, ClosingSound
    <3> QED
      BY <1>0, <2>2, <3>1 DEF PostStep, ClientStep
  <2> QED
    BY <1>1, <2>1, <2>2 DEF StoreReady
<1>2. CASE CloseStore
  <2>1. CASE closed[Store]
    BY <1>2, <2>1 DEF CloseStore, QuietStep, ClientStep
  <2>2. CASE ~closed[Store]
    <3>1. call[Store]["close"] = "idle"
      BY <1>0, <2>2 DEF ReadInv, ClientSound, ClosingSound
    <3> QED
      BY <1>0, <1>2, <2>2, <3>1 DEF CloseStore, AskClose, PostStep, ClientStep
  <2> QED
    BY <2>1, <2>2
<1>3. CASE StoreStops
  BY <1>3 DEF StoreStops, QuietStep, ClientStep
<1>4. CASE StoreClosed
  BY <1>4 DEF StoreClosed, QuietStep, ClientStep
<1>5. ASSUME NEW i \in CallsOf[Store], StoreCall(i)
      PROVE  ClientStep
  BY <1>0, <1>5, RequestKinds DEF StoreCall
<1>6. ASSUME NEW s \in Sessions, Open(s)
      PROVE  ClientStep
  <2>1. CASE UNCHANGED clientVars
    BY <2>1 DEF QuietStep, ClientStep
  <2>2. CASE Construct(s) /\ UNCHANGED <<killed, closed, failure, result, race, inbox, outbox, view, head>>
    <3>1. worker[s] = "none"
      BY <1>6 DEF Open, ReadInv, PoolSound, PlaceSound
    <3>2. ConstructStep(s)
      BY <2>2, <3>1 DEF ConstructStep
    <3> QED
      BY <1>0, <3>2 DEF ClientStep
  <2> QED
    BY <1>6, <2>1, <2>2 DEF Open
<1>7. ASSUME NEW S \in SUBSET Sessions, EndSessions(S), QueuesUnchanged
      PROVE  ClientStep
  <2> DEFINE new == {s \in S : ending[s] = "no"}
  <2>1. CASE new = {}
    BY <1>7, <2>1 DEF EndSessions, QueuesUnchanged, QuietStep, ClientStep
  <2>2. CASE new # {}
    <3>1. new \in SUBSET Clients /\ Store \notin new
      BY <1>0
    <3>2. Fail(new, "CANCELLED")
      BY <1>7, <2>2 DEF EndSessions
    <3>3. FailStep(new, "CANCELLED")
      BY <1>7, <3>1, <3>2 DEF QueuesUnchanged, FailStep
    <3> QED
      BY <3>1, <3>3 DEF ClientStep
  <2> QED
    BY <2>1, <2>2
<1>8. ASSUME NEW s \in Sessions, Opened(s)
      PROVE  ClientStep
  <2>1. CASE UNCHANGED <<ending, closed, killed, failure, call>>
    BY <1>8, <2>1 DEF Opened, QueuesUnchanged, QuietStep, ClientStep
  <2>2. CASE EndSessions({s})
    BY <1>7, <1>8, <2>2 DEF Opened
  <2> QED
    BY <1>8, <2>1, <2>2 DEF Opened
<1>9. ASSUME NEW s \in Sessions, OpenFails(s)
      PROVE  ClientStep
  BY <1>9 DEF OpenFails, QuietStep, ClientStep
<1>10. ASSUME NEW s \in Sessions, CloseSession(s)
       PROVE  ClientStep
  BY <1>7, <1>10 DEF CloseSession
<1>11. ASSUME NEW s \in Sessions, Abort(s)
       PROVE  ClientStep
  <2>1. CASE UNCHANGED <<ending, closed, killed, failure, call>>
    BY <1>11, <2>1 DEF Abort, QueuesUnchanged, QuietStep, ClientStep
  <2>2. CASE EndSessions({s})
    BY <1>7, <1>11, <2>2 DEF Abort
  <2> QED
    BY <1>11, <2>1, <2>2 DEF Abort
<1>12. ASSUME NEW s \in Sessions, EndSession(s)
       PROVE  ClientStep
  BY <1>12 DEF EndSession, QuietStep, ClientStep
<1>13. ASSUME NEW s \in Sessions, NEW i \in CallsOf[s], SessionCall(s, i)
       PROVE  ClientStep
  <2>1. s \in Clients /\ i \in Calls /\ worker[s] # "none" /\ call[s][i] = "idle"
    BY <1>0, <1>13 DEF SessionCall, ReadInv, PoolSound, PlaceSound
  <2>2. CASE Request(s, i) \/ PostFails(s, i)
    BY <2>1, <2>2, RequestKinds
  <2>3. CASE call' = [call EXCEPT ![s][i] = "failed"] /\ ClientUnfailed /\ QueuesUnchanged
    <3>1. RefuseStep(s, i)
      BY <2>1, <2>3 DEF RefuseStep, ClientUnfailed, QueuesUnchanged
    <3> QED
      BY <2>1, <3>1 DEF ClientStep
  <2> QED
    BY <1>13, <2>2, <2>3 DEF SessionCall
<1>14. CASE ClosePool
  BY <1>7, <1>14 DEF ClosePool, ReadInv, PoolTypes
<1>15. CASE PoolClosed
  BY <1>15 DEF PoolClosed, QuietStep, ClientStep
<1>16. ASSUME NEW c \in Clients, Client(c)
       PROVE  ClientStep
  <2>1. ASSUME NEW i \in CallsOf[c], Resume(c, i)
        PROVE  ClientStep
    <3>1. i \in Calls /\ i \in Ids /\ call[c][i] = "waiting" /\ worker[c] # "none"
      BY <2>1 DEF Resume, Ids, ReadInv, ClientSound, LifeSound
    <3>2. CASE closed[c]
      BY <2>1, <3>1, <3>2 DEF Resume, ClientUnfailed, RefuseStep, ClientStep
    <3>3. CASE ~closed[c] /\ Full(c)
      BY <2>1, <3>3 DEF Resume, Readmit, ClientUnfailed, QuietStep, ClientStep
    <3>4. CASE ~closed[c] /\ ~Full(c)
      BY <2>1, <3>1, <3>4 DEF Resume, Readmit, ClientUnfailed, PostStep, ClientStep
    <3> QED
      BY <3>2, <3>3, <3>4
  <2>2. CASE Receive(c)
    BY <2>2 DEF Receive, ClientUnfailed, ReceiveStep, ClientStep
  <2>3. CASE Timer(c)
    <3>1. FailStep({c}, "STORAGE_FAILURE")
      BY <2>3 DEF Timer, FailStep
    <3> QED
      BY <3>1 DEF ClientStep
  <2>4. CASE Exit(c)
    <3>1. CASE Pending(c) # {} \/ ~closed[c]
      <4>1. FailStep({c}, "STORAGE_FAILURE")
        BY <2>4, <3>1 DEF Exit, FailStep
      <4> QED
        BY <4>1 DEF ClientStep
    <3>2. CASE ~(Pending(c) # {} \/ ~closed[c])
      BY <2>4, <3>2 DEF Exit, ClientUnfailed, EndStep, ClientStep
    <3> QED
      BY <3>1, <3>2
  <2> QED
    BY <1>16, <2>1, <2>2, <2>3, <2>4 DEF Client
<1>17. ASSUME NEW c \in Clients, Worker(c)
       PROVE  ClientStep
  <2>1. head \in Nat /\ "ready" \in Ids /\ "close" \in Ids /\ (c # Store => c \in Sessions)
        /\ view[c] \in Nat
    BY DEF ReadInv, ClientTypes, Ids, Clients
  <2>2. \A i \in Ids, ok \in BOOLEAN, v \in Nat : [id |-> i, ok |-> ok, value |-> v] \in Answer
    BY DEF Answer
  <2>3. CASE Start(c)
    <3> DEFINE a == [id |-> "ready", ok |-> TRUE, value |-> head]
    <3>1. a \in Answer /\ StartStep(c, a)
      BY <2>1, <2>2, <2>3 DEF Start, SendAnswer, StartStep
    <3> QED
      BY <3>1 DEF ClientStep
  <2>4. CASE StartFails(c)
    <3> DEFINE a == [id |-> "ready", ok |-> FALSE, value |-> 0]
    <3>1. a \in Answer /\ StartStep(c, a)
      BY <2>1, <2>2, <2>4 DEF StartFails, SendFailure, StartStep
    <3> QED
      BY <3>1 DEF ClientStep
  <2>5. ASSUME WorkerRuns(c)
        PROVE  /\ NextMessage(c) \in CallsOf[c] \union {"close"} /\ NextMessage(c) \in Ids
               /\ c # Store => NextMessage(c) \in CallsOf[c] /\ KindOf[NextMessage(c)] = "read"
    <3>1. inbox[c] # << >> /\ inbox[c] \in Seq(Ids)
      BY <2>5 DEF WorkerRuns, ReadInv, ClientTypes
    <3>2. 1 \in 1 .. Len(inbox[c]) /\ NextMessage(c) = inbox[c][1]
      BY <3>1, TailFacts DEF NextMessage
    <3>3. inbox[c][1] \in CallsOf[c] \union {"close"} /\ call[c][inbox[c][1]] # "idle"
      BY <3>2 DEF ReadInv, ClientSound, InboxSound
    <3>4. c # Store => inbox[c][1] # "close"
      BY <3>3 DEF ReadInv, ClientSound, ClosingSound
    <3> QED
      BY <2>1, <3>2, <3>3, <3>4 DEF Ids
  <2>6. CASE RunWrite(c)
    <3> DEFINE a == [id |-> NextMessage(c), ok |-> TRUE, value |-> head + 1]
    <3>1. NextMessage(c) \in Ids /\ NextMessage(c) # "close" /\ c = Store
      BY <2>5, <2>6 DEF RunWrite
    <3>2. a \in Answer
      <4>1. head + 1 \in Nat
        BY <2>1
      <4> QED
        BY <2>2, <3>1, <4>1
    <3>3. RunStep(c, a)
      BY <2>6, <3>1 DEF RunWrite, SendAnswer, Take, ClientUnfailed, NextMessage, RunStep
    <3> QED
      BY <3>2, <3>3 DEF ClientStep
  <2>7. CASE RunRead(c)
    <3> DEFINE a == [id |-> NextMessage(c), ok |-> TRUE, value |-> Seen(c)]
    <3>1. NextMessage(c) \in Ids /\ NextMessage(c) # "close"
      BY <2>5, <2>7 DEF RunRead
    <3>2. a \in Answer
      <4>1. Seen(c) \in Nat
        BY <2>1 DEF Seen
      <4> QED
        BY <2>2, <3>1, <4>1
    <3>3. RunStep(c, a)
      BY <2>7, <3>1 DEF RunRead, SendAnswer, Take, ClientUnfailed, NextMessage, RunStep, Seen
    <3> QED
      BY <3>2, <3>3 DEF ClientStep
  <2>8. CASE RunFails(c)
    <3> DEFINE a == [id |-> NextMessage(c), ok |-> FALSE, value |-> 0]
    <3>1. NextMessage(c) \in Ids
      BY <2>5, <2>8 DEF RunFails
    <3>2. a \in Answer
      BY <2>1, <2>2, <3>1
    <3>3. RunStep(c, a)
      BY <2>8, <3>1 DEF RunFails, SendFailure, Take, ClientUnfailed, NextMessage, RunStep
    <3> QED
      BY <3>2, <3>3 DEF ClientStep
  <2>9. CASE RunClose(c)
    <3> DEFINE a == [id |-> "close", ok |-> TRUE, value |-> head]
    <3>1. c = Store
      BY <2>5, <2>9 DEF RunClose
    <3>2. a \in Answer
      BY <2>1, <2>2
    <3>3. RunStep(c, a)
      BY <2>9, <3>1 DEF RunClose, SendAnswer, Take, ClientUnfailed, NextMessage, RunStep
    <3> QED
      BY <3>2, <3>3 DEF ClientStep
  <2>10. CASE Die(c)
    BY <2>10 DEF Die, ClientUnfailed, EndStep, ClientStep
  <2> QED
    BY <1>17, <2>3, <2>4, <2>6, <2>7, <2>8, <2>9, <2>10 DEF Worker
<1> QED
  BY <1>1, <1>2, <1>3, <1>4, <1>5, <1>6, <1>8, <1>9, <1>10, <1>11, <1>12, <1>13, <1>14,
     <1>15, <1>16, <1>17 DEF Next


-----------------------------------------------------------------------------
(* What every step keeps of the clients                                    *)

\* The types of a client are kept.
LEMMA TypesStep ==
  ASSUME ReadInv, ClientStep
  PROVE  ClientTypes'
<1> USE ClientAssumption
<1>1. /\ ClientTypes /\ "ready" \in Ids /\ "close" \in Ids
      /\ \A c \in Clients : CallsOf[c] \subseteq Calls /\ CallsOf[c] \union {"close"} \subseteq Ids
      /\ {"idle", "waiting", "pending", "answered", "failed"} \subseteq CallStates
      /\ Calls \subseteq Ids
  BY DEF ReadInv, Ids, CallStates
<1>2. ASSUME NEW c \in Clients, NEW i \in CallsOf[c] \union {"close"}, PostStep(c, i)
      PROVE  ClientTypes'
  <2>1. Append(inbox[c], i) \in Seq(Ids)
    BY <1>1, AppendFacts DEF ClientTypes
  <2> QED
    BY <1>1, <1>2, <2>1 DEF PostStep, Post, DataUnchanged, ClientTypes
<1>3. ASSUME NEW c \in Clients, NEW i \in CallsOf[c] \union {"close"}, RefuseStep(c, i)
      PROVE  ClientTypes'
  BY <1>1, <1>3 DEF RefuseStep, DataUnchanged, ClientTypes
<1>4. ASSUME NEW c \in Clients, ConstructStep(c)
      PROVE  ClientTypes'
  BY <1>1, <1>4 DEF ConstructStep, Construct, DataUnchanged, ClientTypes
<1>5. ASSUME NEW c \in Clients, EndStep(c)
      PROVE  ClientTypes'
  BY <1>1, <1>5 DEF EndStep, DataUnchanged, ClientTypes
<1>6. ASSUME NEW c \in Clients, ReceiveStep(c)
      PROVE  ClientTypes'
  <2> DEFINE a == Head(outbox[c])
  <2>1. a \in Answer /\ Tail(outbox[c]) \in Seq(Answer)
    BY <1>1, <1>6, TailFacts DEF ReceiveStep, ClientTypes
  <2>2. a.id \in Ids /\ a.value \in Nat
    BY <2>1 DEF Answer
  <2>3. call' \in [Clients -> [Ids -> CallStates]] /\ result' \in [Clients -> [Ids -> Nat]]
    <3>1. call \in [Clients -> [Ids -> CallStates]] /\ result \in [Clients -> [Ids -> Nat]]
      BY <1>1 DEF ClientTypes
    <3>2. CASE a.id \in Pending(c)
      <4>1. /\ call' = [call EXCEPT ![c][a.id] = IF a.ok THEN "answered" ELSE "failed"]
            /\ result' = [result EXCEPT ![c][a.id] = a.value]
        BY <1>6, <3>2 DEF ReceiveStep
      <4> QED
        BY <4>1, <3>1, <2>2, <1>1
    <3>3. CASE a.id \notin Pending(c)
      BY <1>6, <3>1, <3>3 DEF ReceiveStep
    <3> QED
      BY <3>2, <3>3
  <2> QED
    BY <1>1, <1>6, <2>1, <2>3 DEF ReceiveStep, ClientTypes
<1>7. ASSUME NEW c \in Clients, NEW a \in Answer, StartStep(c, a)
      PROVE  ClientTypes'
  <2>1. Append(outbox[c], a) \in Seq(Answer)
    BY <1>1, AppendFacts DEF ClientTypes
  <2>2. worker' \in [Clients -> {"none", "starting", "running", "dead", "exited"}]
    BY <1>1, <1>7 DEF StartStep, ClientTypes
  <2>3. view' \in [Clients -> Nat]
    BY <1>1, <1>7 DEF StartStep, ClientTypes
  <2> QED
    BY <1>1, <1>7, <2>1, <2>2, <2>3 DEF StartStep, ClientTypes
<1>8. ASSUME NEW c \in Clients, NEW a \in Answer, RunStep(c, a)
      PROVE  ClientTypes'
  <2>1. Append(outbox[c], a) \in Seq(Answer)
    BY <1>1, AppendFacts DEF ClientTypes
  <2>2. Tail(inbox[c]) \in Seq(Ids)
    BY <1>1, <1>8, TailFacts DEF RunStep, WorkerRuns, ClientTypes
  <2>3. worker' \in [Clients -> {"none", "starting", "running", "dead", "exited"}] /\ head' \in Nat
    BY <1>1, <1>8 DEF RunStep, ClientTypes
  <2> QED
    BY <1>1, <1>8, <2>1, <2>2, <2>3 DEF RunStep, ClientTypes
<1>9. ASSUME NEW C \in SUBSET Clients, NEW why \in {"STORAGE_FAILURE", "CANCELLED"},
             FailStep(C, why)
      PROVE  ClientTypes'
  <2>1. worker' \in [Clients -> {"none", "starting", "running", "dead", "exited"}]
    BY <1>1, <1>9 DEF FailStep, ClientTypes
  <2> QED
    BY <1>1, <1>9, <2>1 DEF FailStep, Fail, DataUnchanged, ClientTypes
<1>10. CASE QuietStep
  BY <1>1, <1>10 DEF QuietStep, DataUnchanged, ClientTypes
<1> QED
  BY <1>2, <1>3, <1>4, <1>5, <1>6, <1>7, <1>8, <1>9, <1>10 DEF ClientStep

\* Every client stays sound: the one a step is of by its kind, the others
\* because nothing happens to them.
LEMMA SoundStep ==
  ASSUME ReadInv, ClientStep, NEW d \in Clients
  PROVE  ClientSound(d)'
<1> USE ClientAssumption
<1>1. ClientTypes /\ ClientSound(d) /\ \A c \in Clients : ClientSound(c)
  BY DEF ReadInv
<1>2. ASSUME NEW c \in Clients, NEW i \in CallsOf[c] \union {"close"}, PostStep(c, i)
      PROVE  ClientSound(d)'
  <2>1. CASE c = d
    <3>1. /\ call'[c] = [call[c] EXCEPT ![i] = "pending"]
          /\ inbox'[c] = Append(inbox[c], i)
          /\ i = "close" /\ c = Store /\ closed' = [closed EXCEPT ![c] = TRUE] => closed'[c]
      BY <1>1, <1>2 DEF PostStep, Post, ClientTypes
    <3> QED
      BY <1>1, <1>2, <2>1, <3>1, PostSound DEF PostStep
  <2>2. CASE c # d
    BY <1>1, <1>2, <2>2, UnchangedSound DEF PostStep, Post, Unchanged, ClientTypes
  <2> QED
    BY <2>1, <2>2
<1>3. ASSUME NEW c \in Clients, NEW i \in CallsOf[c] \union {"close"}, RefuseStep(c, i)
      PROVE  ClientSound(d)'
  <2>1. PICK v \in {"failed", "waiting"} : call' = [call EXCEPT ![c][i] = v]
    BY <1>3 DEF RefuseStep
  <2>2. CASE c = d
    <3>1. call'[c] = [call[c] EXCEPT ![i] = v]
      BY <1>1, <2>1 DEF ClientTypes
    <3> QED
      BY <1>1, <1>3, <2>2, <3>1, RefuseSound DEF RefuseStep
  <2>3. CASE c # d
    BY <1>1, <1>3, <2>1, <2>3, UnchangedSound DEF RefuseStep, Unchanged, ClientTypes
  <2> QED
    BY <2>2, <2>3
<1>4. ASSUME NEW c \in Clients, ConstructStep(c)
      PROVE  ClientSound(d)'
  <2>1. CASE c = d
    <3>1. worker'[c] = "starting" /\ call'[c] = [call[c] EXCEPT !["ready"] = "pending"]
      BY <1>1, <1>4 DEF ConstructStep, Construct, ClientTypes
    <3> QED
      BY <1>1, <1>4, <2>1, <3>1, ConstructSound DEF ConstructStep
  <2>2. CASE c # d
    BY <1>1, <1>4, <2>2, UnchangedSound DEF ConstructStep, Construct, Unchanged, ClientTypes
  <2> QED
    BY <2>1, <2>2
<1>5. ASSUME NEW c \in Clients, EndStep(c)
      PROVE  ClientSound(d)'
  <2>1. CASE c = d /\ worker[c] = "dead"
    <3>1. worker'[c] = "exited"
      BY <1>1, <1>5, <2>1 DEF EndStep, ClientTypes
    <3> QED
      BY <1>1, <1>5, <2>1, <3>1, ExitSound DEF EndStep
  <2>2. CASE c = d /\ worker[c] \in {"starting", "running"}
    <3>1. worker'[c] = "dead"
      BY <1>1, <1>5, <2>2 DEF EndStep, ClientTypes
    <3> QED
      BY <1>1, <1>5, <2>2, <3>1, DieSound DEF EndStep
  <2>3. CASE c # d
    BY <1>1, <1>5, <2>3, UnchangedSound DEF EndStep, Unchanged, ClientTypes
  <2> QED
    BY <1>5, <2>1, <2>2, <2>3 DEF EndStep
<1>6. ASSUME NEW c \in Clients, ReceiveStep(c)
      PROVE  ClientSound(d)'
  <2> DEFINE a == Head(outbox[c])
  <2>1. CASE c = d
    <3>1. /\ outbox[c] # << >> /\ outbox'[c] = Tail(outbox[c])
          /\ call'[c] = IF a.id \in Pending(c)
                          THEN [call[c] EXCEPT ![a.id] = IF a.ok THEN "answered" ELSE "failed"]
                          ELSE call[c]
      BY <1>1, <1>6 DEF ReceiveStep, ClientTypes
    <3> QED
      BY <1>1, <1>6, <2>1, <3>1, ReceiveSound DEF ReceiveStep
  <2>2. CASE c # d
    BY <1>1, <1>6, <2>2, UnchangedSound DEF ReceiveStep, Unchanged, ClientTypes
  <2> QED
    BY <2>1, <2>2
<1>7. ASSUME NEW c \in Clients, NEW a \in Answer, StartStep(c, a)
      PROVE  ClientSound(d)'
  <2>1. CASE c = d
    <3>1. worker'[c] \in {"running", "dead"} /\ outbox'[c] = Append(outbox[c], a)
      BY <1>1, <1>7 DEF StartStep, ClientTypes
    <3> QED
      BY <1>1, <1>7, <2>1, <3>1, StartSound DEF StartStep
  <2>2. CASE c # d
    BY <1>1, <1>7, <2>2, UnchangedSound DEF StartStep, Unchanged, ClientTypes
  <2> QED
    BY <2>1, <2>2
<1>8. ASSUME NEW c \in Clients, NEW a \in Answer, RunStep(c, a)
      PROVE  ClientSound(d)'
  <2>1. CASE c = d
    <3>1. /\ inbox'[c] = Tail(inbox[c]) /\ outbox'[c] = Append(outbox[c], a)
          /\ worker'[c] = IF a.id = "close" /\ a.ok THEN "dead" ELSE "running"
      BY <1>1, <1>8 DEF RunStep, WorkerRuns, ClientTypes
    <3> QED
      BY <1>1, <1>8, <2>1, <3>1, RunSound DEF RunStep
  <2>2. CASE c # d
    BY <1>1, <1>8, <2>2, UnchangedSound DEF RunStep, Unchanged, ClientTypes
  <2> QED
    BY <2>1, <2>2
<1>9. ASSUME NEW C \in SUBSET Clients, NEW why \in {"STORAGE_FAILURE", "CANCELLED"},
             FailStep(C, why)
      PROVE  ClientSound(d)'
  <2>1. CASE d \in C
    <3>1. /\ failure'[d] = IF failure[d] = "none" THEN why ELSE failure[d]
          /\ closed'[d]
          /\ call'[d] = [i \in Ids |-> IF call[d][i] = "pending" THEN "failed" ELSE call[d][i]]
      BY <1>9, <2>1 DEF FailStep, Fail
    <3>2. \/ worker'[d] = worker[d]
          \/ worker[d] = "dead" /\ worker'[d] = "exited" /\ outbox[d] = << >>
      BY <1>1, <1>9 DEF FailStep, ClientTypes
    <3> QED
      BY <1>1, <1>9, <2>1, <3>1, <3>2, FailSound DEF FailStep
  <2>2. CASE d \notin C
    <3>1. closed'[d] = closed[d] /\ failure'[d] = failure[d] /\ call'[d] = call[d]
      BY <1>1, <1>9, <2>2 DEF FailStep, Fail, ClientTypes
    <3>2. worker'[d] = worker[d] /\ inbox' = inbox /\ outbox' = outbox
      BY <1>1, <1>9, <2>2 DEF FailStep, ClientTypes
    <3> QED
      BY <1>1, <3>1, <3>2, UnchangedSound DEF Unchanged
  <2> QED
    BY <2>1, <2>2
<1>10. CASE QuietStep
  BY <1>1, <1>10, UnchangedSound DEF QuietStep, Unchanged
<1> QED
  BY <1>2, <1>3, <1>4, <1>5, <1>6, <1>7, <1>8, <1>9, <1>10 DEF ClientStep

-----------------------------------------------------------------------------
(* What is committed, and what is read of it                               *)

\* The writes are finitely many.
LEMMA WritesFinite ==
  /\ IsFiniteSet(OkWrites) /\ IsFiniteSet(RunWrites)
  /\ Cardinality(OkWrites) \in Nat /\ Cardinality(RunWrites) \in Nat
  /\ IsFiniteSet(OkWrites') /\ IsFiniteSet(RunWrites')
  /\ Cardinality(OkWrites') \in Nat /\ Cardinality(RunWrites') \in Nat
<1>1. IsFiniteSet(Calls) /\ CallsOf[Store] \subseteq Calls
  BY ClientAssumption DEF Clients
<1>2. \A S \in SUBSET Calls : IsFiniteSet(S)
  BY <1>1, FS_Subset
<1>3. OkWrites \in SUBSET Calls /\ RunWrites \in SUBSET Calls
      /\ OkWrites' \in SUBSET Calls /\ RunWrites' \in SUBSET Calls
  BY <1>1 DEF OkWrites, RunWrites
<1> QED
  BY <1>2, <1>3, FS_CardinalityType

\* The count is kept when no write is acknowledged that was not and none is
\* undone.
LEMMA CommitsKept ==
  ASSUME ClientTypes, CommitsSound, OkWrites' \subseteq OkWrites, RunWrites \subseteq RunWrites',
         head' = head
  PROVE  CommitsSound'
<1>1. Cardinality(OkWrites') <= Cardinality(OkWrites)
  BY WritesFinite, FS_Subset
<1>2. Cardinality(RunWrites) <= Cardinality(RunWrites')
  BY WritesFinite, FS_Subset
<1> QED
  BY <1>1, <1>2, WritesFinite DEF CommitsSound, ClientTypes

\* A write that the store's client was told of has been committed, and nothing
\* is committed that was not asked for.
LEMMA CommitsStep ==
  ASSUME ReadInv, ClientStep
  PROVE  CommitsSound'
<1> USE ClientAssumption
<1>1. /\ ClientTypes /\ CommitsSound /\ Store \in Clients /\ ClientSound(Store)
      /\ CallsOf[Store] \subseteq Calls /\ Calls \subseteq Ids
      /\ call[Store] \in [Ids -> CallStates]
      /\ \A s \in Sessions : s # Store
  BY DEF ReadInv, Clients, Ids, ClientTypes
<1>2. ASSUME call'[Store] = call[Store], inbox'[Store] = inbox[Store],
             outbox'[Store] = outbox[Store], head' = head
      PROVE  CommitsSound'
  <2>1. OkWrites' = OkWrites /\ RunWrites' = RunWrites
    BY <1>2 DEF OkWrites, RunWrites, Returned, Sent
  <2> QED
    BY <1>1, <1>2, <2>1, CommitsKept
<1>3. ASSUME NEW c \in Clients, NEW i \in CallsOf[c] \union {"close"}, PostStep(c, i)
      PROVE  CommitsSound'
  <2>1. CASE c # Store
    BY <1>1, <1>2, <1>3, <2>1 DEF PostStep, Post, DataUnchanged, ClientTypes
  <2>2. CASE c = Store
    <3>1. /\ call'[Store] = [call[Store] EXCEPT ![i] = "pending"] /\ i \in Ids
          /\ inbox'[Store] = Append(inbox[Store], i) /\ outbox' = outbox /\ head' = head
          /\ call[Store][i] \in {"idle", "waiting"}
      BY <1>1, <1>3, <2>2 DEF PostStep, Post, DataUnchanged, ClientTypes, Ids
    <3>2. \A j : Sent(Store, j)' => Sent(Store, j) \/ j = i
      <4>1. inbox[Store] \in Seq(Ids)
        BY <1>1 DEF ClientTypes
      <4> QED
        BY <3>1, <4>1, AppendFacts DEF Sent
    <3>3. OkWrites' \subseteq OkWrites
      BY <1>1, <3>1 DEF OkWrites, Returned
    <3>4. RunWrites \subseteq RunWrites'
      BY <1>1, <3>1, <3>2 DEF RunWrites
    <3> QED
      BY <1>1, <3>1, <3>3, <3>4, CommitsKept
  <2> QED
    BY <2>1, <2>2
<1>4. ASSUME NEW c \in Clients, NEW i \in CallsOf[c] \union {"close"}, RefuseStep(c, i)
      PROVE  CommitsSound'
  <2>1. PICK v \in {"failed", "waiting"} : call' = [call EXCEPT ![c][i] = v]
    BY <1>4 DEF RefuseStep
  <2>2. /\ inbox' = inbox /\ outbox' = outbox /\ head' = head /\ call[c][i] \in {"idle", "waiting"}
        /\ call'[Store] = IF c = Store THEN [call[Store] EXCEPT ![i] = v] ELSE call[Store]
    BY <1>1, <1>4, <2>1 DEF RefuseStep, DataUnchanged, ClientTypes
  <2>3. OkWrites' \subseteq OkWrites
    BY <1>1, <2>2 DEF OkWrites, Returned
  <2>4. RunWrites \subseteq RunWrites'
    BY <1>1, <2>2 DEF RunWrites, Sent
  <2> QED
    BY <1>1, <2>2, <2>3, <2>4, CommitsKept
<1>5. ASSUME NEW c \in Clients, ConstructStep(c)
      PROVE  CommitsSound'
  BY <1>1, <1>2, <1>5 DEF ConstructStep, Construct, DataUnchanged, ClientTypes
<1>6. ASSUME NEW c \in Clients, EndStep(c)
      PROVE  CommitsSound'
  BY <1>1, <1>2, <1>6 DEF EndStep, DataUnchanged
<1>7. ASSUME NEW c \in Clients, ReceiveStep(c)
      PROVE  CommitsSound'
  <2>1. CASE c # Store
    BY <1>1, <1>2, <1>7, <2>1 DEF ReceiveStep, ClientTypes
  <2>2. CASE c = Store
    <3> DEFINE a == Head(outbox[Store])
    <3>1. /\ outbox[Store] # << >> /\ outbox'[Store] = Tail(outbox[Store])
          /\ outbox[Store] \in Seq(Answer)
          /\ call'[Store] = IF a.id \in Pending(Store)
                              THEN [call[Store] EXCEPT ![a.id] = IF a.ok THEN "answered" ELSE "failed"]
                              ELSE call[Store]
          /\ head' = head /\ inbox' = inbox
      BY <1>1, <1>7, <2>2 DEF ReceiveStep, ClientTypes
    <3>2. /\ Len(outbox[Store]) \in Nat \ {0} /\ Len(outbox'[Store]) = Len(outbox[Store]) - 1
          /\ outbox[Store][1] = a
          /\ \A k \in 1 .. Len(outbox[Store]) - 1 : outbox'[Store][k] = outbox[Store][k + 1]
      BY <3>1, TailFacts
    <3>3. \A i \in Ids : Returned(Store, i)' => Returned(Store, i) \/ (i = a.id /\ a.ok)
      BY <1>1, <3>1 DEF Returned
    <3>4. OkWrites' \subseteq OkWrites
      <4>1. ASSUME NEW i \in CallsOf[Store],
                   \E k \in 1 .. Len(outbox'[Store]) :
                     outbox'[Store][k].id = i /\ outbox'[Store][k].ok
            PROVE  \E k \in 1 .. Len(outbox[Store]) :
                     outbox[Store][k].id = i /\ outbox[Store][k].ok
        <5>1. PICK k \in 1 .. Len(outbox'[Store]) :
                outbox'[Store][k].id = i /\ outbox'[Store][k].ok
          BY <4>1
        <5>2. k + 1 \in 1 .. Len(outbox[Store]) /\ outbox'[Store][k] = outbox[Store][k + 1]
          BY <3>2, <5>1
        <5> QED
          BY <5>1, <5>2
      <4>2. ASSUME NEW i \in CallsOf[Store], i = a.id, a.ok
            PROVE  \E k \in 1 .. Len(outbox[Store]) :
                     outbox[Store][k].id = i /\ outbox[Store][k].ok
        <5>1. 1 \in 1 .. Len(outbox[Store])
          BY <3>2
        <5> QED
          BY <3>2, <4>2, <5>1
      <4> QED
        BY <1>1, <3>3, <4>1, <4>2 DEF OkWrites
    <3>5. RunWrites \subseteq RunWrites'
      BY <1>1, <3>1 DEF RunWrites, Sent
    <3> QED
      BY <1>1, <3>1, <3>4, <3>5, CommitsKept
  <2> QED
    BY <2>1, <2>2
<1>8. ASSUME NEW c \in Clients, NEW a \in Answer, StartStep(c, a)
      PROVE  CommitsSound'
  <2>1. CASE c # Store
    BY <1>1, <1>2, <1>8, <2>1 DEF StartStep, ClientTypes
  <2>2. CASE c = Store
    <3>1. /\ outbox'[Store] = Append(outbox[Store], a) /\ outbox[Store] \in Seq(Answer)
          /\ call' = call /\ inbox' = inbox /\ head' = head /\ a.id = "ready" /\ "ready" \notin Calls
      BY <1>1, <1>8, <2>2 DEF StartStep, ClientTypes
    <3>2. /\ Len(outbox[Store]) \in Nat /\ Len(outbox'[Store]) = Len(outbox[Store]) + 1
          /\ outbox'[Store][Len(outbox[Store]) + 1] = a
          /\ \A k \in 1 .. Len(outbox[Store]) : outbox'[Store][k] = outbox[Store][k]
      BY <3>1, AppendFacts
    <3>3. OkWrites' \subseteq OkWrites
      BY <1>1, <3>1, <3>2 DEF OkWrites, Returned
    <3>4. RunWrites \subseteq RunWrites'
      BY <1>1, <3>1 DEF RunWrites, Sent
    <3> QED
      BY <1>1, <3>1, <3>3, <3>4, CommitsKept
  <2> QED
    BY <2>1, <2>2
<1>9. ASSUME NEW c \in Clients, NEW a \in Answer, RunStep(c, a)
      PROVE  CommitsSound'
  <2>1. CASE c # Store
    BY <1>1, <1>2, <1>9, <2>1 DEF RunStep, ClientTypes
  <2>2. CASE c = Store
    <3>1. /\ WorkerRuns(Store) /\ inbox'[Store] = Tail(inbox[Store]) /\ call' = call
          /\ outbox'[Store] = Append(outbox[Store], a) /\ outbox[Store] \in Seq(Answer)
          /\ a.id = Head(inbox[Store])
      BY <1>1, <1>9, <2>2 DEF RunStep, ClientTypes
    <3>2. /\ Len(outbox[Store]) \in Nat /\ Len(outbox'[Store]) = Len(outbox[Store]) + 1
          /\ outbox'[Store][Len(outbox[Store]) + 1] = a
          /\ \A k \in 1 .. Len(outbox[Store]) : outbox'[Store][k] = outbox[Store][k]
      BY <3>1, AppendFacts
    <3>3. \A j : Sent(Store, j)' <=> Sent(Store, j) /\ j # a.id
      BY <1>1, <3>1, TakenOnce DEF ClientSound
    <3>4. Sent(Store, a.id) /\ call[Store][a.id] \notin {"idle", "waiting"}
          /\ a.id \in CallsOf[Store] \union {"close"}
      <4>1. 1 \in 1 .. Len(inbox[Store]) /\ inbox[Store][1] = a.id
        BY <1>1, <3>1, TailFacts DEF WorkerRuns, ClientTypes
      <4> QED
        BY <1>1, <4>1 DEF Sent, ClientSound, InboxSound
    <3>5. CASE /\ a.id \in Calls /\ KindOf[a.id] = "write" /\ a.ok /\ head' = head + 1
      <4>1. a.id \in CallsOf[Store] /\ a.id \notin RunWrites
        BY <3>4, <3>5 DEF RunWrites
      <4>2. OkWrites' \subseteq OkWrites \union {a.id}
        BY <3>1, <3>2 DEF OkWrites, Returned
      <4>3. RunWrites \union {a.id} \subseteq RunWrites'
        BY <3>1, <3>3, <3>4, <3>5, <4>1 DEF RunWrites
      <4>4. Cardinality(OkWrites') <= Cardinality(OkWrites \union {a.id})
        BY <4>2, WritesFinite, CountFacts
      <4>5. Cardinality(OkWrites \union {a.id}) <= Cardinality(OkWrites) + 1
            /\ Cardinality(OkWrites \union {a.id}) \in Nat
        BY WritesFinite, CountFacts
      <4>6. Cardinality(RunWrites \union {a.id}) <= Cardinality(RunWrites')
        BY <4>3, WritesFinite, CountFacts
      <4>7. Cardinality(RunWrites \union {a.id}) = Cardinality(RunWrites) + 1
        BY <4>1, WritesFinite, CountFacts
      <4> QED
        BY <1>1, <3>5, <4>4, <4>5, <4>6, <4>7, WritesFinite DEF CommitsSound, ClientTypes
    <3>6. CASE head' = head /\ ~(a.id \in Calls /\ KindOf[a.id] = "write" /\ a.ok)
      <4>1. OkWrites' \subseteq OkWrites
        BY <1>1, <3>1, <3>2, <3>6 DEF OkWrites, Returned
      <4>2. RunWrites \subseteq RunWrites'
        BY <3>1, <3>3 DEF RunWrites
      <4> QED
        BY <1>1, <3>6, <4>1, <4>2, CommitsKept
    <3> QED
      BY <1>9, <3>5, <3>6 DEF RunStep
  <2> QED
    BY <2>1, <2>2
<1>10. ASSUME NEW C \in SUBSET Clients, NEW why \in {"STORAGE_FAILURE", "CANCELLED"},
              FailStep(C, why)
       PROVE  CommitsSound'
  <2>1. /\ inbox' = inbox /\ outbox' = outbox /\ head' = head
        /\ \A i \in Ids : call'[Store][i] = call[Store][i]
                          \/ (call[Store][i] = "pending" /\ call'[Store][i] = "failed")
    BY <1>1, <1>10 DEF FailStep, Fail, DataUnchanged
  <2>2. OkWrites' \subseteq OkWrites
    BY <1>1, <2>1 DEF OkWrites, Returned
  <2>3. RunWrites \subseteq RunWrites'
    BY <1>1, <2>1 DEF RunWrites, Sent
  <2> QED
    BY <1>1, <2>1, <2>2, <2>3, CommitsKept
<1>11. CASE QuietStep
  BY <1>2, <1>11 DEF QuietStep, DataUnchanged
<1> QED
  BY <1>3, <1>4, <1>5, <1>6, <1>7, <1>8, <1>9, <1>10, <1>11 DEF ClientStep

\* A session is answered from its view, which is what was committed when its
\* worker replayed the history.
LEMMA ReadsStep ==
  ASSUME ReadInv, ClientStep, NEW s \in Sessions
  PROVE  /\ head <= head'
         /\ \/ /\ view'[s] = view[s]
               /\ worker'[s] = "running" => worker[s] = "running"
               /\ \/ Reads(s)' \subseteq Reads(s)
                  \/ worker[s] = "running" /\ Reads(s)' \subseteq Reads(s) \union {view[s]}
            \/ view'[s] = head /\ head' = head /\ Reads(s)' \subseteq {head}
<1> USE ClientAssumption
<1> DEFINE Told(v) == \E k \in 1 .. Len(outbox[s]) : outbox[s][k].ok /\ outbox[s][k].value = v
           Read(v) == \E i \in Ids : Returned(s, i) /\ result[s][i] = v
           Kept == view'[s] = view[s] /\ (worker'[s] = "running" => worker[s] = "running")
<1>1. /\ ClientTypes /\ s \in Clients /\ s # Store /\ ClientSound(s) /\ head \in Nat
      /\ call[s] \in [Ids -> CallStates] /\ outbox[s] \in Seq(Answer) /\ result[s] \in [Ids -> Nat]
      /\ Len(outbox[s]) \in Nat
  BY DEF ReadInv, Clients, ClientTypes
<1>2. /\ \A v : v \in Reads(s) <=> Told(v) \/ Read(v)
      /\ \A v : v \in Reads(s)' <=> Told(v)' \/ Read(v)'
  BY DEF Reads
<1>3. ASSUME Kept, head <= head', \A v : Told(v)' => Told(v) \/ Read(v),
             \A v : Read(v)' => Told(v) \/ Read(v)
      PROVE  /\ head <= head'
             /\ Kept /\ Reads(s)' \subseteq Reads(s)
  BY <1>2, <1>3
<1>4. ASSUME call'[s] = call[s], outbox'[s] = outbox[s], result'[s] = result[s], Kept, head <= head'
      PROVE  head <= head' /\ Kept /\ Reads(s)' \subseteq Reads(s)
  BY <1>4 DEF Reads, Returned
<1>5. ASSUME outbox'[s] = outbox[s], result'[s] = result[s], Kept, head' = head,
             \A i \in Ids : call'[s][i] = "answered" => call[s][i] = "answered"
      PROVE  head <= head' /\ Kept /\ Reads(s)' \subseteq Reads(s)
  BY <1>1, <1>3, <1>5 DEF Returned
<1>6. ASSUME NEW c \in Clients, NEW i \in CallsOf[c] \union {"close"}, PostStep(c, i)
      PROVE  head <= head' /\ Kept /\ Reads(s)' \subseteq Reads(s)
  <2>1. \A j \in Ids : call'[s][j] = "answered" => call[s][j] = "answered"
    BY <1>1, <1>6 DEF PostStep, Post, ClientTypes
  <2> QED
    BY <1>5, <1>6, <2>1 DEF PostStep, DataUnchanged
<1>7. ASSUME NEW c \in Clients, NEW i \in CallsOf[c] \union {"close"}, RefuseStep(c, i)
      PROVE  head <= head' /\ Kept /\ Reads(s)' \subseteq Reads(s)
  <2>1. \A j \in Ids : call'[s][j] = "answered" => call[s][j] = "answered"
    BY <1>1, <1>7 DEF RefuseStep, ClientTypes
  <2> QED
    BY <1>5, <1>7, <2>1 DEF RefuseStep, DataUnchanged
<1>8. ASSUME NEW c \in Clients, ConstructStep(c)
      PROVE  head <= head' /\ Kept /\ Reads(s)' \subseteq Reads(s)
  <2>1. \A j \in Ids : call'[s][j] = "answered" => call[s][j] = "answered"
    BY <1>1, <1>8 DEF ConstructStep, Construct, ClientTypes
  <2>2. worker'[s] = "running" => worker[s] = "running"
    BY <1>1, <1>8 DEF ConstructStep, Construct, ClientTypes
  <2> QED
    BY <1>5, <1>8, <2>1, <2>2 DEF ConstructStep, DataUnchanged
<1>9. ASSUME NEW c \in Clients, EndStep(c)
      PROVE  head <= head' /\ Kept /\ Reads(s)' \subseteq Reads(s)
  <2>1. worker'[s] = "running" => worker[s] = "running"
    BY <1>1, <1>9 DEF EndStep, ClientTypes
  <2> QED
    BY <1>1, <1>4, <1>9, <2>1 DEF EndStep, DataUnchanged
<1>10. ASSUME NEW c \in Clients, ReceiveStep(c)
       PROVE  head <= head' /\ Kept /\ Reads(s)' \subseteq Reads(s)
  <2>1. CASE c # s
    BY <1>1, <1>4, <1>10, <2>1 DEF ReceiveStep, ClientTypes
  <2>2. CASE c = s
    <3> DEFINE a == Head(outbox[s])
    <3>1. /\ outbox[s] # << >> /\ outbox'[s] = Tail(outbox[s])
          /\ call'[s] = IF a.id \in Pending(s)
                          THEN [call[s] EXCEPT ![a.id] = IF a.ok THEN "answered" ELSE "failed"]
                          ELSE call[s]
          /\ result'[s] = IF a.id \in Pending(s) THEN [result[s] EXCEPT ![a.id] = a.value]
                                                 ELSE result[s]
          /\ head' = head /\ Kept
      BY <1>1, <1>10, <2>2 DEF ReceiveStep, ClientTypes
    <3>2. /\ Len(outbox[s]) \in Nat \ {0} /\ Len(outbox'[s]) = Len(outbox[s]) - 1
          /\ outbox[s][1] = a
          /\ \A k \in 1 .. Len(outbox[s]) - 1 : outbox'[s][k] = outbox[s][k + 1]
      BY <1>1, <3>1, TailFacts
    <3>3. ASSUME NEW v, Told(v)'
          PROVE  Told(v)
      <4>1. PICK k \in 1 .. Len(outbox'[s]) : outbox'[s][k].ok /\ outbox'[s][k].value = v
        BY <3>3
      <4>2. k + 1 \in 1 .. Len(outbox[s]) /\ outbox'[s][k] = outbox[s][k + 1]
        BY <3>2, <4>1
      <4> QED
        BY <4>1, <4>2
    <3>4. ASSUME NEW v, Read(v)'
          PROVE  Told(v) \/ Read(v)
      <4>1. PICK i \in Ids : Returned(s, i)' /\ result'[s][i] = v
        BY <3>4
      <4>2. CASE i = a.id /\ a.id \in Pending(s)
        <5>1. a.ok /\ a.value = v
          BY <1>1, <3>1, <4>1, <4>2 DEF Returned
        <5>2. 1 \in 1 .. Len(outbox[s])
          BY <3>2
        <5> QED
          BY <3>2, <5>1, <5>2
      <4>3. CASE ~(i = a.id /\ a.id \in Pending(s))
        <5>1. call'[s][i] = call[s][i] /\ result'[s][i] = result[s][i]
          BY <1>1, <3>1, <4>3
        <5> QED
          BY <4>1, <5>1 DEF Returned
      <4> QED
        BY <4>2, <4>3
    <3> QED
      BY <1>1, <1>3, <3>1, <3>3, <3>4
  <2> QED
    BY <2>1, <2>2
<1>11. ASSUME NEW c \in Clients, NEW a \in Answer, StartStep(c, a)
       PROVE  /\ head <= head'
              /\ \/ Kept /\ Reads(s)' \subseteq Reads(s)
                 \/ view'[s] = head /\ head' = head /\ Reads(s)' \subseteq {head}
  <2>1. CASE c # s
    BY <1>1, <1>4, <1>11, <2>1 DEF StartStep, ClientTypes
  <2>2. CASE c = s
    <3>1. /\ \A v : ~Told(v) /\ ~Read(v)
          /\ outbox[s] = << >> /\ outbox'[s] = Append(outbox[s], a) /\ head' = head
          /\ call' = call
      BY <1>1, <1>11, <2>2 DEF StartStep, ClientTypes, ClientSound, LifeSound
    <3>2. Len(outbox'[s]) = 1 /\ outbox'[s][1] = a
      BY <1>1, <3>1, AppendFacts
    <3>3. \A v : Told(v)' => a.ok /\ v = a.value
      BY <3>2
    <3>4. \A v : ~Read(v)'
      BY <1>1, <1>11, <2>2, <3>1 DEF StartStep, Returned, ClientSound, LifeSound
    <3>5. CASE a.ok
      <4>1. view'[s] = head /\ a.value = head
        BY <1>1, <1>11, <2>2, <3>5 DEF StartStep, ClientTypes
      <4>2. Reads(s)' \subseteq {head}
        BY <1>2, <3>3, <3>4, <4>1
      <4> QED
        BY <1>1, <3>1, <4>1, <4>2
    <3>6. CASE ~a.ok
      <4>1. Kept
        BY <1>1, <1>11, <2>2, <3>6 DEF StartStep, ClientTypes
      <4>2. Reads(s)' \subseteq Reads(s)
        BY <1>2, <3>3, <3>4, <3>6
      <4> QED
        BY <1>1, <3>1, <4>1, <4>2
    <3> QED
      BY <3>5, <3>6
  <2> QED
    BY <2>1, <2>2
<1>12. ASSUME NEW c \in Clients, NEW a \in Answer, RunStep(c, a)
       PROVE  /\ head <= head' /\ Kept
              /\ \/ Reads(s)' \subseteq Reads(s)
                 \/ worker[s] = "running" /\ Reads(s)' \subseteq Reads(s) \union {view[s]}
  <2>0. head <= head' /\ Kept
    BY <1>1, <1>12 DEF RunStep, WorkerRuns, ClientTypes
  <2>1. CASE c # s
    BY <1>1, <1>4, <1>12, <2>0, <2>1 DEF RunStep, ClientTypes
  <2>2. CASE c = s
    <3>1. /\ outbox'[s] = Append(outbox[s], a) /\ worker[s] = "running" /\ (a.ok => a.value = view[s])
          /\ call' = call /\ result' = result
      BY <1>1, <1>12, <2>2 DEF RunStep, WorkerRuns, ClientTypes
    <3>2. /\ Len(outbox'[s]) = Len(outbox[s]) + 1 /\ outbox'[s][Len(outbox[s]) + 1] = a
          /\ \A k \in 1 .. Len(outbox[s]) : outbox'[s][k] = outbox[s][k]
      BY <1>1, <3>1, AppendFacts
    <3>3. ASSUME NEW v, Told(v)'
          PROVE  Told(v) \/ v = view[s]
      <4>1. PICK k \in 1 .. Len(outbox'[s]) : outbox'[s][k].ok /\ outbox'[s][k].value = v
        BY <3>3
      <4>2. k \in 1 .. Len(outbox[s]) \/ k = Len(outbox[s]) + 1
        BY <1>1, <3>2
      <4> QED
        BY <3>1, <3>2, <4>1, <4>2
    <3>4. \A v : Read(v)' <=> Read(v)
      BY <3>1 DEF Returned
    <3> QED
      BY <1>2, <2>0, <3>1, <3>3, <3>4
  <2> QED
    BY <2>1, <2>2
<1>13. ASSUME NEW C \in SUBSET Clients, NEW why \in {"STORAGE_FAILURE", "CANCELLED"},
              FailStep(C, why)
       PROVE  head <= head' /\ Kept /\ Reads(s)' \subseteq Reads(s)
  <2>1. \A j \in Ids : call'[s][j] = "answered" => call[s][j] = "answered"
    BY <1>1, <1>13 DEF FailStep, Fail
  <2>2. worker'[s] = "running" => worker[s] = "running"
    BY <1>1, <1>13 DEF FailStep, ClientTypes
  <2> QED
    BY <1>5, <1>13, <2>1, <2>2 DEF FailStep, DataUnchanged
<1>14. CASE QuietStep
  BY <1>1, <1>4, <1>14 DEF QuietStep, DataUnchanged
<1> QED
  BY <1>6, <1>7, <1>8, <1>9, <1>10, <1>11, <1>12, <1>13, <1>14 DEF ClientStep

\* A session is told what was acknowledged when it is asked for, and its view
\* comes after that.
LEMMA AckedStep ==
  ASSUME ReadInv, Next, NEW s \in Sessions
  PROVE  \/ acked'[s] = acked[s]
         \/ /\ acked'[s] \in Nat /\ acked'[s] <= head /\ head' = head
            /\ worker'[s] = "starting" /\ Reads(s)' = {}
<1> USE ClientAssumption
<1>1. /\ PoolTypes /\ ClientTypes /\ s \in Clients /\ ClientSound(s) /\ CommitsSound
      /\ IF acked'[s] = acked[s] THEN TRUE ELSE \E t \in Sessions : Open(t)
  BY DEF ReadInv, Clients, Next, StoreReady, CloseStore, StoreStops, StoreClosed, StoreCall,
      SessionsUnchanged, Opened, OpenFails, CloseSession, Abort, EndSession, SessionCall,
      ClosePool, PoolClosed, Client, Worker, poolVars
<1>2. ASSUME NEW t \in Sessions, Open(t), acked'[s] # acked[s]
      PROVE  /\ acked'[s] \in Nat /\ acked'[s] <= head /\ head' = head
             /\ worker'[s] = "starting" /\ Reads(s)' = {}
  <2>1. /\ Construct(s) /\ acked'[s] = Cardinality(CommittedWrites) /\ head' = head
        /\ outbox' = outbox /\ session[s] = "idle"
    BY <1>1, <1>2 DEF Open, PoolTypes
  <2>2. worker[s] = "none" /\ outbox[s] = << >> /\ \A i \in Ids : call[s][i] = "idle"
    BY <1>1, <2>1 DEF ReadInv, PoolSound, PlaceSound, ClientSound, LifeSound
  <2>3. worker'[s] = "starting" /\ \A i \in Ids : ~Returned(s, i)'
    BY <1>1, <2>1, <2>2 DEF Construct, ClientTypes, Returned
  <2>4. Reads(s)' = {}
    BY <2>1, <2>2, <2>3 DEF Reads
  <2>5. CommittedWrites \subseteq OkWrites
    BY DEF CommittedWrites, OkWrites
  <2>6. Cardinality(CommittedWrites) <= Cardinality(OkWrites) /\ Cardinality(CommittedWrites) \in Nat
    BY <2>5, WritesFinite, CountFacts, FS_Subset, FS_CardinalityType
  <2> QED
    BY <1>1, <2>1, <2>3, <2>4, <2>6, WritesFinite DEF CommitsSound, ClientTypes
<1> QED
  BY <1>1, <1>2

\* What was answered stays answered.
LEMMA AnsweredStays ==
  ASSUME ReadInv, ClientStep, NEW d \in Clients, NEW j \in Ids, Returned(d, j)
  PROVE  Returned(d, j)'
<1>1. call[d] \in [Ids -> CallStates] /\ call[d][j] = "answered" /\ ClientTypes
  BY DEF ReadInv, ClientTypes, Returned
<1>2. ASSUME NEW c \in Clients, NEW i \in CallsOf[c] \union {"close"},
             PostStep(c, i) \/ RefuseStep(c, i)
      PROVE  Returned(d, j)'
  <2>1. /\ call[c][i] # "answered"
        /\ \E v \in {"pending", "failed", "waiting"} : call' = [call EXCEPT ![c][i] = v]
    BY <1>2 DEF PostStep, Post, RefuseStep
  <2> QED
    BY <1>1, <2>1 DEF Returned, ClientTypes
<1>3. ASSUME NEW c \in Clients, ConstructStep(c) \/ EndStep(c)
      PROVE  Returned(d, j)'
  <2>1. ConstructStep(c) => c # d
    BY <1>1 DEF ConstructStep, ReadInv, ClientSound, LifeSound
  <2> QED
    BY <1>1, <1>3, <2>1 DEF ConstructStep, Construct, EndStep, Returned, ClientTypes
<1>4. ASSUME NEW c \in Clients, ReceiveStep(c)
      PROVE  Returned(d, j)'
  <2> DEFINE a == Head(outbox[c])
  <2>1. CASE a.id \in Pending(c)
    <3>1. /\ call[c][a.id] = "pending" /\ a.id \in Ids
          /\ \E v \in {"answered", "failed"} : call' = [call EXCEPT ![c][a.id] = v]
      BY <1>4, <2>1 DEF ReceiveStep, Pending
    <3> HIDE DEF a
    <3> QED
      BY <1>1, <3>1 DEF Returned, ClientTypes
  <2>2. CASE a.id \notin Pending(c)
    BY <1>1, <1>4, <2>2 DEF ReceiveStep, Returned
  <2> QED
    BY <2>1, <2>2
<1>5. ASSUME NEW c \in Clients, NEW a \in Answer, StartStep(c, a) \/ RunStep(c, a)
      PROVE  Returned(d, j)'
  BY <1>1, <1>5 DEF StartStep, RunStep, Returned
<1>6. ASSUME NEW C \in SUBSET Clients, NEW why \in {"STORAGE_FAILURE", "CANCELLED"},
             FailStep(C, why)
      PROVE  Returned(d, j)'
  BY <1>1, <1>6 DEF FailStep, Fail, Returned
<1>7. CASE QuietStep
  BY <1>1, <1>7 DEF QuietStep, Returned
<1> QED
  BY <1>2, <1>3, <1>4, <1>5, <1>6, <1>7 DEF ClientStep

\* A session is asked for pages when it is open, and it is open when its worker
\* has answered that it is ready.
LEMMA AskedStep ==
  ASSUME ReadInv, Next, ClientStep, NEW s \in Sessions
  PROVE  AskedSound(s)'
<1> USE ClientAssumption
<1>1. /\ s \in Clients /\ s # Store /\ "ready" \in Ids /\ "ready" \notin Calls /\ AskedSound(s)
      /\ CallsOf[s] \subseteq Calls /\ Calls \subseteq Ids
      /\ call \in [Clients -> [Ids -> CallStates]]
      /\ session \in [Sessions -> {"idle", "opening", "open", "failing", "refused"}]
  BY DEF ReadInv, Clients, Ids, ClientTypes, PoolTypes
<1>2. Returned(s, "ready") => Returned(s, "ready")'
  BY <1>1, AnsweredStays
<1>3. ASSUME session'[s] = "open" => session[s] = "open",
             \A i \in CallsOf[s] : call[s][i] = "idle" => call'[s][i] = "idle" \/ session[s] = "open"
      PROVE  AskedSound(s)'
  BY <1>1, <1>2, <1>3 DEF AskedSound
<1>4. CASE StoreReady \/ CloseStore \/ StoreStops \/ StoreClosed
  BY <1>1, <1>3, <1>4 DEF StoreReady, CloseStore, StoreStops, StoreClosed, Post, AskClose,
    SessionsUnchanged, clientVars
<1>5. ASSUME NEW i \in CallsOf[Store], StoreCall(i)
      PROVE  AskedSound(s)'
  <2>1. call'[s] = call[s] /\ session' = session
    BY <1>1, <1>5 DEF StoreCall, Request, PostFails, Post, poolVars
  <2> QED
    BY <1>3, <2>1
<1>6. ASSUME NEW t \in Sessions, Open(t)
      PROVE  AskedSound(s)'
  BY <1>1, <1>3, <1>6 DEF Open, Construct, clientVars
<1>7. ASSUME NEW S \in SUBSET Sessions, EndSessions(S)
      PROVE  \A i \in CallsOf[s] : call[s][i] = "idle" => call'[s][i] = "idle"
  BY <1>1, <1>7 DEF EndSessions, Fail
<1>8. ASSUME NEW t \in Sessions, Opened(t)
      PROVE  AskedSound(s)'
  <2>1. CASE Returned(t, "ready") /\ session' = [session EXCEPT ![t] = "open"] /\ UNCHANGED call
    BY <1>1, <1>2, <1>3, <2>1 DEF AskedSound
  <2>2. CASE session' = [session EXCEPT ![t] = "failing"] /\ EndSessions({t})
    BY <1>1, <1>3, <1>7, <2>2
  <2> QED
    BY <1>8, <2>1, <2>2 DEF Opened
<1>9. ASSUME NEW t \in Sessions, OpenFails(t) \/ EndSession(t)
      PROVE  AskedSound(s)'
  BY <1>1, <1>3, <1>9 DEF OpenFails, EndSession, clientVars
<1>10. ASSUME NEW t \in Sessions, CloseSession(t) \/ Abort(t)
       PROVE  AskedSound(s)'
  <2>1. session' = session /\ (EndSessions({t}) \/ UNCHANGED call)
    BY <1>10 DEF CloseSession, Abort
  <2> QED
    BY <1>1, <1>3, <1>7, <2>1
<1>11. ASSUME NEW t \in Sessions, NEW i \in CallsOf[t], SessionCall(t, i)
       PROVE  AskedSound(s)'
  <2>1. session' = session /\ session[t] = "open" /\ (t # s => call'[s] = call[s])
    BY <1>1, <1>11 DEF SessionCall, Request, PostFails, Post, poolVars
  <2> QED
    BY <1>3, <2>1
<1>12. CASE ClosePool \/ PoolClosed
  <2>1. session' = session /\ (EndSessions(slots) \/ UNCHANGED call) /\ slots \in SUBSET Sessions
    BY <1>12 DEF ClosePool, PoolClosed, clientVars, ReadInv, PoolTypes
  <2> QED
    BY <1>3, <1>7, <2>1
<1>13. ASSUME NEW c \in Clients, Client(c) \/ Worker(c)
       PROVE  AskedSound(s)'
  <2>1. session' = session
    BY <1>13 DEF Client, Worker, poolVars
  <2>2. ASSUME NEW i \in CallsOf[c], Resume(c, i)
        PROVE  \A j \in CallsOf[s] : call[s][j] = "idle" => call'[s][j] = "idle"
    BY <1>1, <2>2 DEF Resume, Readmit, Post
  <2>3. CASE Receive(c) \/ Timer(c) \/ Exit(c)
    BY <1>1, <1>3, <2>1, <2>3 DEF Receive, Pending, Timer, Exit, Fail
  <2>4. CASE Worker(c)
    <3>1. call' = call
      BY <2>4 DEF Worker, Start, StartFails, RunWrite, RunRead, RunFails, RunClose, Die
    <3> QED
      BY <1>3, <2>1, <3>1
  <2> QED
    BY <1>3, <1>13, <2>1, <2>2, <2>3, <2>4 DEF Client
<1> QED
  BY <1>4, <1>5, <1>6, <1>8, <1>9, <1>10, <1>11, <1>12, <1>13 DEF Next

-----------------------------------------------------------------------------
(* The pool                                                                *)

\* A worker that has exited is not started again, and one that was never
\* started is started by nothing but open().
LEMMA WorkerStep ==
  ASSUME ReadInv, NEW c \in Clients, Client(c) \/ Worker(c), NEW s \in Sessions
  PROVE  (worker[s] # "none" <=> worker'[s] # "none") /\ (Exited(s) => worker'[s] = "exited")
<1>1. worker \in [Clients -> {"none", "starting", "running", "dead", "exited"}] /\ s \in Clients
  BY DEF ReadInv, ClientTypes, Clients
<1>2. CASE Client(c)
  BY <1>1, <1>2 DEF Client, Resume, Receive, Timer, Exit, Exited
<1>3. CASE Worker(c)
  BY <1>1, <1>3 DEF Worker, Start, StartFails, RunWrite, RunRead, RunFails, RunClose, Die,
    WorkerRuns, Exited
<1> QED
  BY <1>2, <1>3

\* A waiting cleanup request watches requests.
LEMMA RaceTypes ==
  ASSUME FlagTypes, NEW c \in Clients, NEW i \in Calls, NEW ids \in SUBSET Ids
  PROVE  [race EXCEPT ![c][i] = ids] \in [Clients -> [Calls -> SUBSET Ids]]
<1>1. [race[c] EXCEPT ![i] = ids] \in [Calls -> SUBSET Ids]
  BY DEF FlagTypes
<1> QED
  BY <1>1 DEF FlagTypes

\* A session keeps its place while its close begins.
LEMMA EndingStep ==
  ASSUME ReadInv, NEW S \in SUBSET Sessions, \A s \in S : session[s] # "idle",
         EndSessions(S), QueuesUnchanged, UNCHANGED slots
  PROVE  /\ ending' \in [Sessions -> {"no", "cancelling", "ended"}]
         /\ killed' \in [Clients -> BOOLEAN] /\ race' = race /\ worker' = worker
         /\ \A s \in Sessions :
              /\ session[s] = "idle" => ending'[s] = ending[s]
              /\ ending'[s] = ending[s] \/ ending'[s] = "cancelling"
              /\ s \in S => ending'[s] # "no"
<1>1. /\ ending \in [Sessions -> {"no", "cancelling", "ended"}] /\ killed \in [Clients -> BOOLEAN]
      /\ race' = race /\ worker' = worker
  BY DEF ReadInv, PoolTypes, FlagTypes, QueuesUnchanged
<1>2. killed' \in [Clients -> BOOLEAN]
  BY <1>1 DEF EndSessions, Fail
<1>3. ending' = [s \in Sessions |-> IF s \in S /\ ending[s] = "no" THEN "cancelling" ELSE ending[s]]
  BY DEF EndSessions
<1> QED
  BY <1>1, <1>2, <1>3

\* The pool keeps its bound and its closing, and the types of what it and the
\* clients keep.
PoolOK == FlagTypes /\ PoolTypes /\ PoolSound

\* A step that does not touch the pool leaves it as it was.
LEMMA PoolUntouched ==
  ASSUME ReadInv, FlagTypes', UNCHANGED poolVars,
         \A s \in Sessions : /\ worker[s] # "none" <=> worker'[s] # "none"
                             /\ Exited(s) => worker'[s] = "exited"
  PROVE  PoolOK'
<1>1. PoolTypes'
  BY DEF ReadInv, PoolTypes, poolVars
<1>2. ASSUME NEW s \in Sessions
      PROVE  PlaceSound(s)'
  BY DEF ReadInv, PoolSound, PlaceSound, poolVars, Alive, Exited
<1>3. PoolSound'
  BY <1>2 DEF ReadInv, PoolSound, poolVars
<1> QED
  BY <1>1, <1>3 DEF PoolOK

\* Cancelling sessions, when the pool is closed or one of them is, leaves each
\* at its place until its worker has exited.
LEMMA PoolCancels ==
  ASSUME ReadInv, NEW S \in SUBSET Sessions, \A s \in S : session[s] # "idle",
         EndSessions(S), QueuesUnchanged, UNCHANGED <<store, slots, acked>>,
         session' \in [Sessions -> {"idle", "opening", "open", "failing", "refused"}],
         aborted' \in [Sessions -> BOOLEAN],
         \A s \in Sessions : session'[s] = session[s] \/ (s \in S /\ session'[s] = "failing"
                                                          /\ worker[s] # "none"),
         pool' = pool \/ (pool' = "closing" /\ S = slots)
  PROVE  PoolOK'
<1>1. /\ ending' \in [Sessions -> {"no", "cancelling", "ended"}]
      /\ killed' \in [Clients -> BOOLEAN] /\ race' = race /\ worker' = worker
      /\ \A s \in Sessions :
           /\ session[s] = "idle" => ending'[s] = ending[s]
           /\ ending'[s] = ending[s] \/ ending'[s] = "cancelling"
           /\ s \in S => ending'[s] # "no"
  BY EndingStep
<1>2. FlagTypes' /\ PoolTypes'
  BY <1>1 DEF ReadInv, FlagTypes, PoolTypes
<1>3. ASSUME NEW s \in Sessions
      PROVE  PlaceSound(s)'
  BY <1>1 DEF ReadInv, PoolSound, PlaceSound, Alive
<1>4. PoolSound'
  BY <1>3 DEF ReadInv, PoolSound
<1> QED
  BY <1>2, <1>4 DEF PoolOK

\* Whatever happens, the pool keeps its word.
LEMMA PoolStep ==
  ASSUME ReadInv, Next
  PROVE  PoolOK'
<1> USE ClientAssumption, CapacityAssumption
<1>1. /\ FlagTypes /\ PoolTypes /\ PoolSound /\ ClientTypes
      /\ Sessions \subseteq Clients /\ Store \in Clients /\ Store \notin Sessions
      /\ \A s \in Sessions : PlaceSound(s)
      /\ \A c \in Clients : CallsOf[c] \subseteq Calls
  BY DEF ReadInv, PoolSound, Clients
<1>2. ASSUME FlagTypes', UNCHANGED <<session, ending, aborted, slots, pool, acked, worker>>,
             store' \in {"opening", "open", "failed", "closing", "closed", "broken"}
      PROVE  PoolOK'
  BY <1>1, <1>2 DEF PoolTypes, PoolSound, PlaceSound, Alive, PoolOK
<1>3. CASE StoreReady
  <2>1. FlagTypes' /\ worker' = worker
    BY <1>1, <1>3 DEF StoreReady, clientVars, Post, FlagTypes
  <2> QED
    BY <1>2, <1>3, <2>1 DEF StoreReady, SessionsUnchanged
<1>4. CASE CloseStore
  <2>1. FlagTypes' /\ worker' = worker
    BY <1>1, <1>4 DEF CloseStore, AskClose, FlagTypes
  <2> QED
    BY <1>2, <1>4, <2>1 DEF CloseStore, SessionsUnchanged
<1>5. CASE StoreStops
  <2>1. FlagTypes' /\ worker' = worker
    BY <1>1, <1>5 DEF StoreStops, FlagTypes
  <2> QED
    BY <1>1, <1>2, <1>5, <2>1 DEF StoreStops, SessionsUnchanged, PoolTypes
<1>6. CASE StoreClosed
  <2>1. FlagTypes' /\ worker' = worker
    BY <1>1, <1>6 DEF StoreClosed, clientVars, FlagTypes
  <2> QED
    BY <1>2, <1>6, <2>1 DEF StoreClosed, SessionsUnchanged
<1>7. ASSUME NEW c \in Clients, NEW i \in CallsOf[c], Request(c, i) \/ PostFails(c, i)
      PROVE  FlagTypes' /\ worker' = worker
  <2> DEFINE watched == [race EXCEPT ![c][i] = Pending(c)]
  <2>1. i \in Calls /\ Pending(c) \subseteq Ids
    BY <1>1 DEF Pending
  <2>2. race' = race \/ race' = watched
    BY <1>7 DEF Request, PostFails
  <2>3. race' \in [Clients -> [Calls -> SUBSET Ids]]
    <3>1. watched \in [Clients -> [Calls -> SUBSET Ids]]
      BY <1>1, <2>1, RaceTypes
    <3> HIDE DEF watched
    <3> QED
      BY <1>1, <2>2, <3>1 DEF FlagTypes
  <2> QED
    BY <1>1, <1>7, <2>3 DEF Request, PostFails, ClientUnfailed, FlagTypes
<1>8. ASSUME NEW i \in CallsOf[Store], StoreCall(i)
      PROVE  PoolOK'
  BY <1>1, <1>7, <1>8, PoolUntouched DEF StoreCall, Exited
<1>9. ASSUME NEW s \in Sessions, Open(s)
      PROVE  PoolOK'
  <2>1. CASE /\ session' = [session EXCEPT ![s] = "refused"]
             /\ UNCHANGED <<slots, acked, clientVars>>
    <3>1. FlagTypes' /\ PoolTypes' /\ worker' = worker
      BY <1>1, <1>9, <2>1 DEF Open, clientVars, FlagTypes, PoolTypes
    <3>2. ASSUME NEW t \in Sessions
          PROVE  PlaceSound(t)'
      BY <1>1, <1>9, <2>1, <3>1 DEF Open, PlaceSound, Alive, PoolTypes
    <3> QED
      BY <1>1, <1>9, <2>1, <3>1, <3>2 DEF Open, PoolSound, PoolOK
  <2>2. CASE /\ pool = "open" /\ Cardinality(slots) < Capacity
             /\ session' = [session EXCEPT ![s] = "opening"]
             /\ TakeSlot(s)
             /\ acked' = [acked EXCEPT ![s] = Cardinality(CommittedWrites)]
             /\ Construct(s)
             /\ UNCHANGED <<killed, closed, failure, result, race, inbox, outbox, view, head>>
    <3>1. Cardinality(CommittedWrites) \in Nat
      <4>1. CommittedWrites \subseteq OkWrites
        BY DEF CommittedWrites, OkWrites
      <4> QED
        BY <4>1, WritesFinite, FS_Subset, FS_CardinalityType
    <3>2. slots' = slots \union {s} /\ slots' \in SUBSET Sessions
      BY <1>1, <2>2 DEF TakeSlot, PoolTypes
    <3>3. FlagTypes' /\ PoolTypes'
      BY <1>1, <1>9, <2>2, <3>1, <3>2 DEF Open, FlagTypes, PoolTypes
    <3>4. IsFiniteSet(slots') /\ Cardinality(slots') <= Capacity
      <4>1. /\ Cardinality(slots) \in Nat /\ IsFiniteSet(slots \union {s})
            /\ Cardinality(slots \union {s}) <= Cardinality(slots) + 1
            /\ Cardinality(slots \union {s}) \in Nat
        BY <1>1, CountFacts, FS_CardinalityType DEF PoolSound
      <4> QED
        BY <2>2, <3>2, <4>1
    <3>5. ASSUME NEW t \in Sessions
          PROVE  PlaceSound(t)'
      <4>1. CASE t = s
        BY <1>1, <1>9, <2>2, <3>2, <4>1 DEF Open, Construct, PlaceSound, Alive, PoolTypes, ClientTypes
      <4>2. CASE t # s
        BY <1>1, <1>9, <2>2, <3>2, <4>2 DEF Open, Construct, PlaceSound, Alive, PoolTypes, ClientTypes
      <4> QED
        BY <4>1, <4>2
    <3> QED
      BY <1>9, <2>2, <3>3, <3>4, <3>5 DEF Open, PoolSound, PoolOK
  <2>3. Cardinality(slots) \in Nat
    BY <1>1, FS_CardinalityType DEF PoolSound
  <2> QED
    BY <1>9, <2>1, <2>2, <2>3 DEF Open
<1>10. ASSUME NEW s \in Sessions, Opened(s)
       PROVE  PoolOK'
  <2>1. s \in Sessions /\ session[s] = "opening" /\ worker[s] # "none"
    BY <1>1, <1>10 DEF Opened, PlaceSound
  <2>2. CASE /\ session' = [session EXCEPT ![s] = "open"]
             /\ UNCHANGED <<ending, closed, killed, failure, call>>
    <3>1. FlagTypes' /\ PoolTypes' /\ worker' = worker
      BY <1>1, <1>10, <2>2 DEF Opened, QueuesUnchanged, FlagTypes, PoolTypes
    <3>2. ASSUME NEW t \in Sessions
          PROVE  PlaceSound(t)'
      BY <1>1, <1>10, <2>1, <2>2, <3>1 DEF Opened, PlaceSound, Alive, PoolTypes
    <3> QED
      BY <1>1, <1>10, <3>1, <3>2 DEF Opened, PoolSound, PoolOK
  <2>3. CASE session' = [session EXCEPT ![s] = "failing"] /\ EndSessions({s})
    <3>1. /\ session' \in [Sessions -> {"idle", "opening", "open", "failing", "refused"}]
          /\ aborted' \in [Sessions -> BOOLEAN]
          /\ \A t \in Sessions : session'[t] = session[t]
                                 \/ (t \in {s} /\ session'[t] = "failing" /\ worker[t] # "none")
      BY <1>1, <1>10, <2>1, <2>3 DEF Opened, PoolTypes
    <3> QED
      BY <1>10, <2>1, <2>3, <3>1, PoolCancels DEF Opened
  <2> QED
    BY <1>10, <2>2, <2>3 DEF Opened
<1>11. ASSUME NEW s \in Sessions, OpenFails(s)
       PROVE  PoolOK'
  <2>1. FlagTypes' /\ PoolTypes' /\ worker' = worker
    BY <1>1, <1>11 DEF OpenFails, clientVars, FlagTypes, PoolTypes
  <2>2. ASSUME NEW t \in Sessions
        PROVE  PlaceSound(t)'
    BY <1>1, <1>11, <2>1 DEF OpenFails, PlaceSound, Alive, PoolTypes
  <2> QED
    BY <1>1, <1>11, <2>1, <2>2 DEF OpenFails, PoolSound, PoolOK
<1>12. ASSUME NEW s \in Sessions, CloseSession(s)
       PROVE  PoolOK'
  <2>1. /\ session' \in [Sessions -> {"idle", "opening", "open", "failing", "refused"}]
        /\ aborted' \in [Sessions -> BOOLEAN] /\ session' = session
    BY <1>1, <1>12 DEF CloseSession, PoolTypes
  <2> QED
    BY <1>12, <2>1, PoolCancels DEF CloseSession
<1>13. ASSUME NEW s \in Sessions, Abort(s)
       PROVE  PoolOK'
  <2>1. /\ session' \in [Sessions -> {"idle", "opening", "open", "failing", "refused"}]
        /\ aborted' \in [Sessions -> BOOLEAN] /\ session' = session
    BY <1>1, <1>13 DEF Abort, PoolTypes
  <2>2. CASE session[s] \in {"opening", "open"} /\ EndSessions({s})
    BY <1>13, <2>1, <2>2, PoolCancels DEF Abort
  <2>3. CASE UNCHANGED <<ending, closed, killed, failure, call>>
    BY <1>1, <1>13, <2>1, <2>3 DEF Abort, QueuesUnchanged, FlagTypes, PoolTypes, PoolSound,
      PlaceSound, Alive, PoolOK
  <2> QED
    BY <1>13, <2>2, <2>3 DEF Abort
<1>14. ASSUME NEW s \in Sessions, EndSession(s)
       PROVE  PoolOK'
  <2>1. /\ worker' = worker /\ worker[s] = "exited" /\ slots' = slots \ {s}
        /\ ending[s] = "cancelling" /\ ending' = [ending EXCEPT ![s] = "ended"]
    BY <1>14 DEF EndSession, Ended, Exited, clientVars
  <2>2. FlagTypes' /\ PoolTypes'
    BY <1>1, <1>14, <2>1 DEF EndSession, clientVars, FlagTypes, PoolTypes
  <2>3. IsFiniteSet(slots') /\ Cardinality(slots') <= Capacity
    <3>1. slots' \in SUBSET slots /\ IsFiniteSet(slots)
      BY <1>1, <2>1 DEF PoolSound
    <3>2. IsFiniteSet(slots') /\ Cardinality(slots') <= Cardinality(slots)
      BY <3>1, CountFacts
    <3>3. Cardinality(slots) \in Nat /\ Cardinality(slots') \in Nat
      BY <3>1, <3>2, FS_CardinalityType
    <3> QED
      BY <1>1, <3>2, <3>3 DEF PoolSound
  <2>4. ASSUME NEW t \in Sessions
        PROVE  PlaceSound(t)'
    BY <1>1, <1>14, <2>1 DEF EndSession, PlaceSound, Alive, PoolTypes
  <2> QED
    BY <1>1, <1>14, <2>1, <2>2, <2>3, <2>4 DEF EndSession, PoolSound, PoolOK
<1>15. ASSUME NEW s \in Sessions, NEW i \in CallsOf[s], SessionCall(s, i)
       PROVE  PoolOK'
  <2>1. FlagTypes' /\ worker' = worker
    <3>1. CASE Request(s, i) \/ PostFails(s, i)
      BY <1>1, <1>7, <3>1
    <3>2. CASE ClientUnfailed /\ QueuesUnchanged
      BY <1>1, <3>2 DEF ClientUnfailed, QueuesUnchanged, FlagTypes
    <3> QED
      BY <1>15, <3>1, <3>2 DEF SessionCall
  <2> QED
    BY <1>15, <2>1, PoolUntouched DEF SessionCall, Exited
<1>16. CASE ClosePool
  <2>1. slots \in SUBSET Sessions /\ \A s \in slots : session[s] # "idle"
    BY <1>1 DEF PoolTypes, PlaceSound
  <2>2. /\ session' \in [Sessions -> {"idle", "opening", "open", "failing", "refused"}]
        /\ aborted' \in [Sessions -> BOOLEAN] /\ session' = session
    BY <1>1, <1>16 DEF ClosePool, PoolTypes
  <2> QED
    BY <1>16, <2>1, <2>2, PoolCancels DEF ClosePool
<1>17. CASE PoolClosed
  <2>1. FlagTypes' /\ PoolTypes' /\ worker' = worker
    BY <1>1, <1>17 DEF PoolClosed, clientVars, FlagTypes, PoolTypes
  <2>2. slots = {}
    BY <1>1, <1>17 DEF PoolClosed, PlaceSound, PoolTypes
  <2>3. ASSUME NEW t \in Sessions
        PROVE  PlaceSound(t)'
    BY <1>1, <1>17, <2>1, <2>2 DEF PoolClosed, PlaceSound, Alive
  <2> QED
    BY <1>1, <1>17, <2>1, <2>2, <2>3 DEF PoolClosed, PoolSound, PoolOK
<1>18. ASSUME NEW c \in Clients, Client(c) \/ Worker(c)
       PROVE  PoolOK'
  <2>1. FlagTypes'
    <3>1. ASSUME NEW i \in CallsOf[c], Resume(c, i)
          PROVE  FlagTypes'
      <4>1. i \in Calls /\ Pending(c) \subseteq Ids
        BY <1>1 DEF Pending
      <4> DEFINE watched == [race EXCEPT ![c][i] = Pending(c)]
                 dropped == [race EXCEPT ![c][i] = {}]
      <4>2. race' \in {race, watched, dropped}
        BY <3>1 DEF Resume, Readmit
      <4>3. race' \in [Clients -> [Calls -> SUBSET Ids]]
        <5>1. /\ watched \in [Clients -> [Calls -> SUBSET Ids]]
              /\ dropped \in [Clients -> [Calls -> SUBSET Ids]]
          BY <1>1, <4>1, RaceTypes
        <5> HIDE DEF watched, dropped
        <5> QED
          BY <1>1, <4>2, <5>1 DEF FlagTypes
      <4> QED
        BY <1>1, <3>1, <4>3 DEF Resume, ClientUnfailed, FlagTypes
    <3>2. CASE Receive(c) \/ Worker(c)
      BY <1>1, <3>2 DEF Receive, Worker, Start, StartFails, RunWrite, RunRead, RunFails,
        RunClose, Die, ClientUnfailed, FlagTypes
    <3>3. CASE Timer(c) \/ Exit(c)
      BY <1>1, <3>3 DEF Timer, Exit, Fail, ClientUnfailed, FlagTypes
    <3> QED
      BY <1>18, <3>1, <3>2, <3>3 DEF Client
  <2> QED
    BY <1>18, <2>1, WorkerStep, PoolUntouched DEF Client, Worker
<1> QED
  BY <1>3, <1>4, <1>5, <1>6, <1>8, <1>9, <1>10, <1>11, <1>12, <1>13, <1>14, <1>15, <1>16,
     <1>17, <1>18 DEF Next

-----------------------------------------------------------------------------
(* The theorems                                                            *)

\* Before anything has happened, all of it holds.
LEMMA InitSound ==
  ASSUME Init
  PROVE  ReadInv
<1> USE ClientAssumption, CapacityAssumption DEF Init, ClientInit
<1>1. "ready" \in Ids /\ "close" \in Ids /\ Store \in Clients /\ Sessions \subseteq Clients
  BY DEF Ids, Clients
<1>2. ClientTypes
  BY <1>1 DEF ClientTypes, CallStates
<1>3. FlagTypes /\ PoolTypes
  BY DEF FlagTypes, PoolTypes
<1>4. PoolSound
  <2>1. IsFiniteSet(slots) /\ Cardinality(slots) = 0
    BY FS_EmptySet
  <2>2. \A s \in Sessions : PlaceSound(s)
    BY <1>1 DEF PlaceSound, Alive
  <2> QED
    BY <2>1, <2>2 DEF PoolSound
<1>5. CommitsSound
  <2>1. OkWrites = {}
    BY <1>1 DEF OkWrites, Returned, Ids, Clients
  <2>2. Cardinality(OkWrites) = 0
    BY <2>1, FS_EmptySet
  <2> QED
    BY <2>2, WritesFinite DEF CommitsSound
<1>6. ASSUME NEW c \in Clients
      PROVE  ClientSound(c)
  <2>1. inbox[c] = << >> /\ outbox[c] = << >> /\ failure[c] = "none"
    OBVIOUS
  <2>2. \A i \in Ids : call[c][i] = IF c = Store /\ i = "ready" THEN "pending" ELSE "idle"
    OBVIOUS
  <2>3. Pending(c) = IF c = Store THEN {"ready"} ELSE {}
    BY <1>1, <2>2 DEF Pending
  <2>4. InboxSound(c) /\ OutboxSound(c)
    BY <2>1 DEF InboxSound, OutboxSound
  <2>5. PendingSound(c) /\ LifeSound(c)
    BY <1>1, <2>1, <2>2, <2>3 DEF PendingSound, LifeSound, Returned
  <2>6. ClosingSound(c)
    BY <1>1, <2>1, <2>2 DEF ClosingSound, Returned
  <2>7. BoundSound(c)
    <3>1. /\ IsFiniteSet({}) /\ Cardinality({}) = 0
          /\ IsFiniteSet({"ready"}) /\ Cardinality({"ready"}) = 1
          /\ {"ready"} \ {"close"} = {"ready"} /\ {} \ {"close"} = {}
      BY FS_EmptySet, FS_Singleton
    <3>2. Pending(c) \ {"close"} = Pending(c) /\ Cardinality(Pending(c)) \in {0, 1}
          /\ IsFiniteSet(Pending(c))
      BY <2>3, <3>1
    <3>3. 0 <= MaxPending /\ 1 <= MaxPending
      OBVIOUS
    <3> QED
      BY <3>2, <3>3 DEF BoundSound
  <2> QED
    BY <2>4, <2>5, <2>6, <2>7 DEF ClientSound
<1>7. ASSUME NEW s \in Sessions
      PROVE  SnapshotSound(s) /\ AckedSound(s) /\ AskedSound(s)
  <2>1. outbox[s] = << >> /\ \A i \in Ids : ~Returned(s, i)
    BY <1>1 DEF Returned
  <2>2. Reads(s) = {}
    BY <2>1 DEF Reads
  <2>3. AskedSound(s)
    BY <1>1 DEF AskedSound, Clients, Ids
  <2> QED
    BY <1>1, <2>2, <2>3 DEF SnapshotSound, AckedSound
<1> QED
  BY <1>2, <1>3, <1>4, <1>5, <1>6, <1>7 DEF ReadInv

\* No step breaks any of it.
LEMMA ReadStep ==
  ASSUME ReadInv, [Next]_vars
  PROVE  ReadInv'
<1>1. CASE Next
  <2>1. ClientStep
    BY <1>1, StepKinds
  <2>2. ClientTypes' /\ CommitsSound' /\ \A c \in Clients : ClientSound(c)'
    BY <2>1, TypesStep, CommitsStep, SoundStep
  <2>3. FlagTypes' /\ PoolTypes' /\ PoolSound'
    BY <1>1, PoolStep DEF PoolOK
  <2>4. ASSUME NEW s \in Sessions
        PROVE  SnapshotSound(s)' /\ AckedSound(s)' /\ AskedSound(s)'
    <3>1. /\ acked[s] \in Nat /\ view[s] \in Nat /\ head \in Nat /\ head' \in Nat
          /\ view'[s] \in Nat /\ acked'[s] \in Nat
          /\ SnapshotSound(s) /\ AckedSound(s)
      BY <2>2, <2>3 DEF ReadInv, ClientTypes, PoolTypes, Clients
    <3>2. /\ head <= head'
          /\ \/ /\ view'[s] = view[s]
                /\ worker'[s] = "running" => worker[s] = "running"
                /\ \/ Reads(s)' \subseteq Reads(s)
                   \/ worker[s] = "running" /\ Reads(s)' \subseteq Reads(s) \union {view[s]}
             \/ view'[s] = head /\ head' = head /\ Reads(s)' \subseteq {head}
      BY <2>1, ReadsStep
    <3>3. SnapshotSound(s)'
      BY <3>1, <3>2 DEF SnapshotSound
    <3>4. \/ acked'[s] = acked[s]
          \/ /\ acked'[s] \in Nat /\ acked'[s] <= head /\ head' = head
             /\ worker'[s] = "starting" /\ Reads(s)' = {}
      BY <1>1, AckedStep
    <3>5. AckedSound(s)'
      BY <3>1, <3>2, <3>4 DEF AckedSound
    <3> QED
      BY <1>1, <2>1, <3>3, <3>5, AskedStep
  <2> QED
    BY <2>2, <2>3, <2>4 DEF ReadInv
<1>2. CASE UNCHANGED vars
  <2>1. ASSUME NEW c \in Clients
        PROVE  ClientSound(c)'
    BY <1>2, UnchangedSound DEF ReadInv, Unchanged, vars, clientVars
  <2>2. ClientTypes' /\ FlagTypes' /\ PoolTypes'
    BY <1>2 DEF ReadInv, ClientTypes, FlagTypes, PoolTypes, vars, clientVars, poolVars
  <2>3. PoolSound'
    BY <1>2 DEF ReadInv, PoolSound, PlaceSound, Alive, vars, clientVars, poolVars
  <2>4. CommitsSound'
    <3>1. OkWrites' = OkWrites /\ RunWrites' = RunWrites /\ head' = head
      BY <1>2 DEF OkWrites, RunWrites, Returned, Sent, vars, clientVars
    <3> QED
      BY <3>1, CommitsKept DEF ReadInv
  <2>5. ASSUME NEW s \in Sessions
        PROVE  SnapshotSound(s)' /\ AckedSound(s)' /\ AskedSound(s)'
    <3>1. Reads(s)' = Reads(s)
      BY <1>2 DEF Reads, Returned, vars, clientVars
    <3>2. AskedSound(s)'
      BY <1>2 DEF ReadInv, AskedSound, Returned, vars, clientVars, poolVars
    <3> QED
      BY <1>2, <3>1, <3>2 DEF ReadInv, SnapshotSound, AckedSound, vars, clientVars, poolVars
  <2> QED
    BY <2>1, <2>2, <2>3, <2>4, <2>5 DEF ReadInv
<1> QED
  BY <1>1, <1>2

\* What the runs check follows.
LEMMA Accounts ==
  ASSUME ReadInv
  PROVE  WorkersAccountedFor
<1> USE ClientAssumption, CapacityAssumption
<1>1. /\ ClientTypes /\ FlagTypes /\ PoolTypes /\ PoolSound /\ CommitsSound /\ ClientSound(Store)
      /\ \A s \in Sessions : PlaceSound(s)
  BY DEF ReadInv, PoolSound, Clients
<1>2. TypeOK
  <2> DEFINE writes == {i \in CallsOf[Store] : KindOf[i] = "write"}
  <2>1. RunWrites \subseteq writes
    BY DEF RunWrites
  <2>2. IsFiniteSet(writes)
    BY FS_Subset DEF Clients
  <2>3. Cardinality(RunWrites) <= Cardinality(writes) /\ Cardinality(writes) \in Nat
    BY <2>1, <2>2, FS_Subset, FS_CardinalityType
  <2>4. head \in 0 .. Cardinality(writes)
    BY <1>1, <2>3, WritesFinite DEF CommitsSound, ClientTypes
  <2> QED
    BY <1>1, <2>4 DEF TypeOK, ClientTypes, FlagTypes, PoolTypes
<1>3. WorkersWithinCapacity
  <2>1. {s \in Sessions : Alive(s)} \subseteq slots
    BY <1>1 DEF PlaceSound
  <2>2. /\ Cardinality({s \in Sessions : Alive(s)}) <= Cardinality(slots)
        /\ Cardinality({s \in Sessions : Alive(s)}) \in Nat /\ Cardinality(slots) \in Nat
    BY <1>1, <2>1, FS_Subset, FS_CardinalityType DEF PoolSound
  <2> QED
    BY <1>1, <2>2 DEF WorkersWithinCapacity, PoolSound
<1>4. NothingOutlivesPool
  BY <1>1 DEF NothingOutlivesPool, PoolSound, PlaceSound
<1>5. QueueBounded
  BY DEF QueueBounded, ReadInv, ClientSound, BoundSound
<1>6. CloseDrains
  BY <1>1 DEF CloseDrains, ClientSound, ClosingSound, Returned
<1> QED
  BY <1>2, <1>3, <1>4, <1>5, <1>6 DEF WorkersAccountedFor

\* The pages a session got, and what was acknowledged before it was asked for.
LEMMA Current ==
  ASSUME ReadInv
  PROVE  ReadsAreCurrent
<1>1. ASSUME NEW s \in Sessions, NEW i \in Ids, Returned(s, i)
      PROVE  result[s][i] = view[s] /\ acked[s] <= result[s][i]
  <2>1. result[s][i] \in Reads(s)
    BY <1>1 DEF Reads
  <2> QED
    BY <2>1 DEF ReadInv, SnapshotSound, AckedSound
<1>2. "ready" \in Ids /\ \A s \in Sessions : CallsOf[s] \subseteq Ids
  BY ClientAssumption DEF Ids, Clients
<1>3. \A s \in Sessions : \A i \in CallsOf[s] : Returned(s, i) => Returned(s, "ready")
  BY DEF ReadInv, AskedSound, Returned
<1> QED
  BY <1>1, <1>2, <1>3 DEF ReadsAreCurrent, SessionReadsOneSnapshot, SeesAcknowledgedWrites

\* The invariant holds in every state of every behaviour.
THEOREM ReadInvariant == Spec => []ReadInv
<1>1. Init => ReadInv
  BY InitSound
<1>2. ReadInv /\ [Next]_vars => ReadInv'
  BY ReadStep
<1> QED
  BY <1>1, <1>2, PTL DEF Spec

\* No more read workers run than the pool's capacity and none when its close
\* has resolved (read-workers.ts); no client has more pending than its bound,
\* and the store's close drains what it accepted (client.ts, index.ts).
THEOREM PoolAccountsForItsWorkers == Spec => []WorkersAccountedFor
<1>1. ReadInv => WorkersAccountedFor
  BY Accounts
<1> QED
  BY <1>1, ReadInvariant, PTL

\* All that a session is answered comes from one committed state, which has
\* every write acknowledged before the session was asked for.
THEOREM ReadsAreOfOneState == Spec => []ReadsAreCurrent
<1>1. ReadInv => ReadsAreCurrent
  BY Current
<1> QED
  BY <1>1, ReadInvariant, PTL
=============================================================================
