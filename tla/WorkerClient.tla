---------------------------- MODULE WorkerClient ----------------------------
(* The client of a SQLite worker thread (storage-local: client.ts) and the  *)
(* three workers it starts: the store's (worker.ts), the exporter's          *)
(* (export-worker.ts) and the reconstructor's (reconstruction-worker.ts).    *)
(*                                                                           *)
(* A client numbers its requests, posts them to the worker and keeps each    *)
(* one pending, with a timer, until the answer arrives.  A late answer or a  *)
(* dead worker fails the client as a whole: every pending request is         *)
(* rejected and the thread is told to stop, but it runs on until it does.    *)
(*                                                                           *)
(* The payload of a request is what it does to the file: a write commits     *)
(* once more, a read returns how many commits it saw, a cleanup request      *)
(* (releaseRecording, closeImport) does neither.                             *)
EXTENDS Naturals, Sequences, FiniteSets

CONSTANTS
  Store,        \* the client openLocalStore owns
  Sessions,     \* the clients of the read sessions
  Calls,        \* the requests a client may make
  KindOf,       \* what each of them does: "write", "read" or "cleanup"
  CallsOf,      \* which of them each client makes
  MaxPending    \* pending requests at which admission stops (128)

Clients == {Store} \union Sessions
Kinds   == {"write", "read", "cleanup"}

ASSUME ClientAssumption ==
  /\ Store \notin Sessions
  /\ IsFiniteSet(Calls) /\ Calls \intersect {"ready", "close"} = {}
  /\ KindOf \in [Calls -> Kinds]
  /\ CallsOf \in [Clients -> SUBSET Calls]
  /\ \A s \in Sessions : \A i \in CallsOf[s] : KindOf[i] = "read"
  /\ MaxPending \in Nat \ {0}

\* The worker's readiness is request 0; close is a request of its own.
Ids == Calls \union {"ready", "close"}

VARIABLES
  worker,    \* the thread: starting, running, its port closed, dead, exited
  killed,    \* terminate() has been called
  closed,    \* the client's #closed
  failure,   \* its #failure
  call,      \* where each request stands
  result,    \* the values of the answered ones
  race,      \* the pending requests a waiting cleanup request watches
  inbox,     \* messages to the worker
  outbox,    \* messages from it
  view,      \* commits in the snapshot a read worker holds
  head       \* commits in the file

clientVars == <<worker, killed, closed, failure, call, result, race, inbox, outbox, view, head>>

Answer == [id : Ids, ok : BOOLEAN, value : Nat]

Pending(c) == {i \in Ids : call[c][i] = "pending"}

Settled(c, i) == call[c][i] \notin {"idle", "waiting", "pending"}

\* The call returned what the worker answered.
Returned(c, i) == call[c][i] = "answered"

Exited(c) == worker[c] = "exited"
Alive(c)  == worker[c] \notin {"none", "exited"}

CommittedWrites == {i \in CallsOf[Store] : KindOf[i] = "write" /\ Returned(Store, i)}

ClientInit ==
  /\ worker  = [c \in Clients |-> IF c = Store THEN "starting" ELSE "none"]
  /\ killed  = [c \in Clients |-> FALSE]
  /\ closed  = [c \in Clients |-> FALSE]
  /\ failure = [c \in Clients |-> "none"]
  /\ call    = [c \in Clients |-> [i \in Ids |->
                  IF c = Store /\ i = "ready" THEN "pending" ELSE "idle"]]
  /\ result  = [c \in Clients |-> [i \in Ids |-> 0]]
  /\ race    = [c \in Clients |-> [i \in Calls |-> {}]]
  /\ inbox   = [c \in Clients |-> << >>]
  /\ outbox  = [c \in Clients |-> << >>]
  /\ view    = [c \in Clients |-> 0]
  /\ head    = 0

-----------------------------------------------------------------------------
(* The client                                                              *)

\* new Client: the worker thread starts and readiness is pending.
Construct(c) ==
  /\ worker' = [worker EXCEPT ![c] = "starting"]
  /\ call' = [call EXCEPT ![c]["ready"] = "pending"]

\* Mutant of Fail: the thread is left running.
FailAlive(C, why) ==
  /\ closed'  = [c \in Clients |-> closed[c] \/ c \in C]
  /\ failure' = [c \in Clients |->
                   IF c \in C /\ failure[c] = "none" THEN why ELSE failure[c]]
  /\ call'    = [c \in Clients |-> [i \in Ids |->
                   IF c \in C /\ call[c][i] = "pending" THEN "failed" ELSE call[c][i]]]
  /\ UNCHANGED killed

\* fail() on some clients: what is pending is rejected, the first failure is
\* the one later requests are told, and the thread is told to stop.
Fail(C, why) ==
  /\ closed'  = [c \in Clients |-> closed[c] \/ c \in C]
  /\ killed'  = [c \in Clients |-> killed[c] \/ c \in C]
  /\ failure' = [c \in Clients |->
                   IF c \in C /\ failure[c] = "none" THEN why ELSE failure[c]]
  /\ call'    = [c \in Clients |-> [i \in Ids |->
                   IF c \in C /\ call[c][i] = "pending" THEN "failed" ELSE call[c][i]]]

ClientUnfailed == UNCHANGED <<closed, killed, failure>>

\* Bytes are not counted: a message is at most half of the byte bound, so an
\* empty queue always has room for one.
Full(c) == Cardinality(Pending(c)) >= MaxPending

Post(c, i) ==
  /\ call'  = [call EXCEPT ![c][i] = "pending"]
  /\ inbox' = [inbox EXCEPT ![c] = Append(@, i)]

\* A closed client refuses, a full one refuses all but cleanup, which waits
\* for one of the requests pending now.  postMessage may refuse the message.
Request(c, i) ==
  /\ i \in CallsOf[c]
  /\ call[c][i] = "idle"
  /\ CASE closed[c] ->
            call' = [call EXCEPT ![c][i] = "failed"] /\ UNCHANGED <<inbox, race>>
       [] ~closed[c] /\ Full(c) /\ KindOf[i] # "cleanup" ->
            call' = [call EXCEPT ![c][i] = "failed"] /\ UNCHANGED <<inbox, race>>
       [] ~closed[c] /\ Full(c) /\ KindOf[i] = "cleanup" ->
            /\ call' = [call EXCEPT ![c][i] = "waiting"]
            /\ race' = [race EXCEPT ![c][i] = Pending(c)]
            /\ UNCHANGED inbox
       [] OTHER -> Post(c, i) /\ UNCHANGED race
  /\ ClientUnfailed
  /\ UNCHANGED <<worker, result, outbox, view, head>>

PostFails(c, i) ==
  /\ i \in CallsOf[c]
  /\ call[c][i] = "idle"
  /\ ~closed[c]
  /\ ~Full(c)
  /\ call' = [call EXCEPT ![c][i] = "failed"]
  /\ ClientUnfailed
  /\ UNCHANGED <<worker, result, race, inbox, outbox, view, head>>

\* Mutant of Readmit: the bound is not looked at again after the wait.
ReadmitUnchecked(c, i) == Post(c, i) /\ UNCHANGED race

Readmit(c, i) ==
  IF Full(c)
    THEN race' = [race EXCEPT ![c][i] = Pending(c)] /\ UNCHANGED <<call, inbox>>
    ELSE Post(c, i) /\ race' = [race EXCEPT ![c][i] = {}]

\* One of the requests the cleanup watched is settled: it looks again.
Resume(c, i) ==
  /\ call[c][i] = "waiting"
  /\ race[c][i] \ Pending(c) # {}
  /\ IF closed[c]
       THEN /\ call' = [call EXCEPT ![c][i] = "failed"]
            /\ race' = [race EXCEPT ![c][i] = {}]
            /\ UNCHANGED inbox
       ELSE Readmit(c, i)
  /\ ClientUnfailed
  /\ UNCHANGED <<worker, result, outbox, view, head>>

\* The answer of a request that is no longer pending is dropped.
Receive(c) ==
  /\ outbox[c] # << >>
  /\ LET answer == Head(outbox[c])
     IN IF answer.id \in Pending(c)
          THEN /\ call' = [call EXCEPT ![c][answer.id] = IF answer.ok THEN "answered" ELSE "failed"]
               /\ result' = [result EXCEPT ![c][answer.id] = answer.value]
          ELSE UNCHANGED <<call, result>>
  /\ outbox' = [outbox EXCEPT ![c] = Tail(@)]
  /\ ClientUnfailed
  /\ UNCHANGED <<worker, race, inbox, view, head>>

\* 30 seconds without an answer fail the whole client.
Timer(c) ==
  /\ Pending(c) # {}
  /\ Fail({c}, "STORAGE_FAILURE")
  /\ UNCHANGED <<worker, result, race, inbox, outbox, view, head>>

\* The thread's exit fails what is still pending, or a client nobody closed.
\* Messages it posted are delivered before.
Exit(c) ==
  /\ worker[c] = "dead"
  /\ outbox[c] = << >>
  /\ worker' = [worker EXCEPT ![c] = "exited"]
  /\ IF Pending(c) # {} \/ ~closed[c]
       THEN Fail({c}, "STORAGE_FAILURE")
       ELSE UNCHANGED call /\ ClientUnfailed
  /\ UNCHANGED <<result, race, inbox, outbox, view, head>>

-----------------------------------------------------------------------------
(* The worker                                                              *)

SendAnswer(c, i, value) ==
  outbox' = [outbox EXCEPT ![c] = Append(@, [id |-> i, ok |-> TRUE, value |-> value])]

\* Mutant of SendFailure: a failed request is answered as if it had worked.
SendFailureAsAnswer(c, i) == SendAnswer(c, i, head)

SendFailure(c, i) ==
  outbox' = [outbox EXCEPT ![c] = Append(@, [id |-> i, ok |-> FALSE, value |-> 0])]

\* Top level of the module: the file is opened; a read worker opens one read
\* transaction and replays the history in it.
Start(c) ==
  /\ worker[c] = "starting"
  /\ worker' = [worker EXCEPT ![c] = "running"]
  /\ view' = [view EXCEPT ![c] = head]
  /\ SendAnswer(c, "ready", head)
  /\ UNCHANGED <<killed, closed, failure, call, result, race, inbox, head>>

StartFails(c) ==
  /\ worker[c] = "starting"
  /\ worker' = [worker EXCEPT ![c] = "dead"]
  /\ SendFailure(c, "ready")
  /\ UNCHANGED <<killed, closed, failure, call, result, race, inbox, view, head>>

\* Mutant of NextMessage: close overtakes the requests before it.
NextMessageCloseFirst(c) ==
  IF call[c]["close"] = "pending" THEN "close" ELSE Head(inbox[c])

NextMessage(c) == Head(inbox[c])

\* Mutant of Take: a message is left in the queue and run again.
TakeNothing(c) == UNCHANGED inbox

Take(c) == inbox' = [inbox EXCEPT ![c] = Tail(@)]

WorkerRuns(c) == worker[c] = "running" /\ inbox[c] # << >>

\* Mutant of Seen: the pages of a session are read outside its transaction.
SeenNow(c) == head

\* A read session answers from its snapshot, the store from the file.
Seen(c) == IF c = Store THEN head ELSE view[c]

\* The store's writes run in a transaction each.
RunWrite(c) ==
  /\ WorkerRuns(c)
  /\ NextMessage(c) \in Calls
  /\ KindOf[NextMessage(c)] = "write"
  /\ head' = head + 1
  /\ SendAnswer(c, NextMessage(c), head + 1)
  /\ Take(c)
  /\ ClientUnfailed
  /\ UNCHANGED <<worker, call, result, race, view>>

RunRead(c) ==
  /\ WorkerRuns(c)
  /\ NextMessage(c) \in Calls
  /\ KindOf[NextMessage(c)] \in {"read", "cleanup"}
  /\ SendAnswer(c, NextMessage(c), Seen(c))
  /\ Take(c)
  /\ ClientUnfailed
  /\ UNCHANGED <<worker, call, result, race, view, head>>

\* A refused or failed request changes nothing and is answered with its error; a
\* close that fails leaves the port open.
RunFails(c) ==
  /\ WorkerRuns(c)
  /\ SendFailure(c, NextMessage(c))
  /\ Take(c)
  /\ ClientUnfailed
  /\ UNCHANGED <<worker, call, result, race, view, head>>

\* close: the database is closed, the answer posted, and the port closed.
RunClose(c) ==
  /\ WorkerRuns(c)
  /\ NextMessage(c) = "close"
  /\ SendAnswer(c, "close", head)
  /\ Take(c)
  /\ worker' = [worker EXCEPT ![c] = "dead"]
  /\ ClientUnfailed
  /\ UNCHANGED <<call, result, race, view, head>>

\* terminate() takes effect, or the thread dies by itself (its memory limit).
Die(c) ==
  /\ worker[c] \in {"starting", "running"}
  /\ worker' = [worker EXCEPT ![c] = "dead"]
  /\ ClientUnfailed
  /\ UNCHANGED <<call, result, race, inbox, outbox, view, head>>
=============================================================================
