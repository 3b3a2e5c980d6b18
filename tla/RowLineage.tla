----------------------------- MODULE RowLineage -----------------------------
(***************************************************************************)
(* inspectRowHistory: the row present under a key at a selected state is   *)
(* followed through the whole recording.  A first replay, up to the        *)
(* anchor, finds where the row came from; a second one, to the head,       *)
(* follows that origin and pages every event that touched the row.         *)
(* All rows are of the one table asked about.                              *)
(***************************************************************************)
EXTENDS HistoryReplay, InvestigationPages

VARIABLE
  lineage  \* [pass, origins, anchor, origin, live, born, anchored, page]

\* No origin is recorded for a key: it holds its baseline row, if any.
Untouched == [commit |-> 0, event |-> 0, key |-> 0]

FromBaseline(key) == [commit |-> 0, event |-> 0, key |-> key]
FromInsert(commit, event) == [commit |-> commit, event |-> event, key |-> 0]

NoLineage ==
  [pass |-> 1, origins |-> [k \in Keys |-> Untouched], anchor |-> 0,
   origin |-> Untouched, live |-> NoRow, born |-> FALSE, anchored |-> FALSE,
   page |-> EmptyPage]

OriginAt(origins, key) ==
  IF origins[key] = Untouched THEN FromBaseline(key) ELSE origins[key]

Forget(origins, image) ==
  IF image = NoRow THEN origins ELSE [origins EXCEPT ![image.key] = Untouched]

\* Mutant of EventOrigin: the row under the new key is what is carried on.
EventOriginAfter(origins, commit, i, event) ==
  IF event.before = NoRow THEN FromInsert(commit, i)
  ELSE IF event.after = NoRow THEN Untouched
  ELSE OriginAt(origins, event.after.key)

EventOrigin(origins, commit, i, event) ==
  IF event.before = NoRow THEN FromInsert(commit, i)
  ELSE OriginAt(origins, event.before.key)

\* The origins after each event of a transaction: a changed live key has one.
OriginsAfter(origins, commit, events) ==
  LET after[i \in 0 .. Len(events)] ==
        IF i = 0 THEN origins
        ELSE LET e    == events[i]
                 left == Forget(after[i - 1], e.before)
             IN IF e.after = NoRow THEN left
                ELSE [left EXCEPT ![e.after.key] =
                        EventOrigin(after[i - 1], commit, i, e)]
  IN after[Len(events)]

\* The events that move a row to a key, each of which costs an origin entry.
OriginCost(events) == Cardinality({i \in DOMAIN events : events[i].after # NoRow})

CommitEvents ==
  IF replay.commit = 0 THEN << >> ELSE Commits[replay.commit].events

Following == pc = "consume" /\ ask.op = "lineage"

\* Both passes: the per-event cooperation notices the caller.
LineageHalted ==
  /\ Following
  /\ signal
  /\ CommitEvents # << >>
  /\ Reject("CANCELLED")
  /\ UNCHANGED <<ask, history, signal, expired, range, replay, work, lineage>>

MayFollow == Following /\ (signal => CommitEvents = << >>)

\* First pass: the origins kept grow past the input budget.
OriginRefused ==
  /\ MayFollow
  /\ lineage.pass = 1
  /\ ~Fits(OriginCost(CommitEvents))
  /\ Reject("LIMIT_EXCEEDED")
  /\ UNCHANGED <<ask, history, signal, expired, range, replay, work, lineage>>

\* First pass: one state; at the anchor the key names the row to follow, and
\* the replay starts over from the baseline with the work already charged.
TraceOrigin ==
  LET origins == OriginsAfter(lineage.origins, replay.commit, CommitEvents) IN
  /\ MayFollow
  /\ lineage.pass = 1
  /\ Fits(OriginCost(CommitEvents))
  /\ IF replay.state.position # range.to
     THEN /\ lineage' = [lineage EXCEPT !.origins = origins]
          /\ pc' = "read"
          /\ UNCHANGED <<outcome, replay, range>>
     ELSE IF replay.state.rows[ask.key] = NoRow
     THEN Reject("INVALID_VALUE") /\ UNCHANGED <<lineage, replay, range>>
     ELSE /\ lineage' = [lineage EXCEPT !.pass = 2, !.anchor = range.to,
                                        !.origins = NoLineage.origins,
                                        !.origin = OriginAt(origins, ask.key)]
          /\ range' = [range EXCEPT !.to = history.head]
          /\ replay' = NotReplaying
          /\ pc' = "baseline"
          /\ UNCHANGED outcome
  /\ work' = Spend(work, OriginCost(CommitEvents))
  /\ UNCHANGED <<ask, history, signal, expired>>

Entry(commit, i, before, after) ==
  [commit |-> commit, event |-> i, before |-> before, after |-> after]

Starts(l, i) == l.origin.commit = replay.commit /\ l.origin.event = i

\* Mutant of Concerns: whatever happens under the anchor's key is the row's.
ConcernsKey(l, i, event) ==
  \/ Starts(l, i)
  \/ l.live # NoRow /\ event.before # NoRow /\ event.before.key = ask.key

\* The event is the row's insertion or has the row as its before-image.
Concerns(l, i, event) ==
  \/ Starts(l, i)
  \/ l.live # NoRow /\ event.before # NoRow /\ event.before.key = l.live

FollowEvent(l, i, event) ==
  IF ~Concerns(l, i, event) \/ l.page.over THEN l
  ELSE LET item == Entry(replay.commit, i, event.before, event.after) IN
       [l EXCEPT !.born = TRUE,
                 !.live = IF event.after = NoRow THEN NoRow ELSE event.after.key,
                 !.page = AddItem(@, ask.page, item, ItemSize(item, NoRow))]

FollowEvents(l, events) ==
  LET after[i \in 0 .. Len(events)] ==
        IF i = 0 THEN l ELSE FollowEvent(after[i - 1], i, events[i])
  IN after[Len(events)]

\* The baseline state itself shows a row that was there before the recording.
FollowBaseline(l) ==
  IF replay.commit # 0 \/ l.origin.commit # 0 THEN l
  ELSE LET row  == [key |-> l.origin.key, value |-> replay.state.rows[l.origin.key]]
           item == Entry(0, 0, NoRow, row)
       IN [l EXCEPT !.born = TRUE, !.live = l.origin.key,
                    !.page = AddItem(@, ask.page, item, ItemSize(item, NoRow))]

\* The origin is a row of the baseline, or an insertion that comes once.
OriginHolds ==
  /\ replay.commit = 0 /\ lineage.origin.commit = 0
       => replay.state.rows[lineage.origin.key] # NoRow
  /\ replay.commit # 0 /\ replay.commit = lineage.origin.commit
       => /\ ~lineage.born
          /\ CommitEvents[lineage.origin.event].before = NoRow

\* At the anchor the row followed is the row that was asked about.
AnchorHolds(l) ==
  replay.state.position = lineage.anchor
    => l.live = ask.key /\ replay.state.rows[ask.key] # NoRow

\* Second pass: one state.
FollowRow ==
  LET l == FollowEvents(FollowBaseline(lineage), CommitEvents) IN
  /\ MayFollow
  /\ lineage.pass = 2
  /\ IF ~OriginHolds
     THEN Reject("INVALID_HISTORY") /\ UNCHANGED lineage
     ELSE IF l.page.over
     THEN Reject("LIMIT_EXCEEDED") /\ UNCHANGED lineage
     ELSE IF ~AnchorHolds(l)
     THEN Reject("INVALID_HISTORY") /\ UNCHANGED lineage
     ELSE /\ lineage' = [l EXCEPT !.anchored =
                           @ \/ replay.state.position = lineage.anchor]
          /\ pc' = "read"
          /\ UNCHANGED outcome
  /\ UNCHANGED <<ask, history, signal, expired, range, replay, work>>

\* The first pass ended before its anchor, or the second one is complete.
LineageEnds ==
  /\ pc = "finish" /\ ask.op = "lineage"
  /\ IF lineage.pass = 1 THEN Reject("INVALID_HISTORY")
     ELSE IF signal THEN Reject("CANCELLED")
     ELSE IF ~lineage.born \/ ~lineage.anchored THEN Reject("INVALID_HISTORY")
     ELSE /\ pc' = "done"
          /\ outcome' = [kind |-> "lineage", live |-> lineage.live,
                         page |-> Answer(lineage.page, ask.page)]
  /\ UNCHANGED <<ask, history, signal, expired, range, replay, work, lineage>>

LineageStep ==
  LineageHalted \/ OriginRefused \/ TraceOrigin \/ FollowRow \/ LineageEnds

--------------------------------------------------------------------------
(* The reference: every row gets an identity when it appears, which only   *)
(* its deletion ends, and moves with it from key to key.  The identity is  *)
(* where the row came from: a key of the baseline, or an insertion.        *)

Nobody == Untouched

EventsOf(n) == Commits[n].events

\* Who holds each key after one more event.
HandedOn(holders, commit, i, event) ==
  LET who == IF event.before = NoRow THEN FromInsert(commit, i) ELSE holders[event.before.key]
  IN [k \in Keys |->
        IF event.after # NoRow /\ event.after.key = k THEN who
        ELSE IF event.before # NoRow /\ event.before.key = k THEN Nobody
        ELSE holders[k]]

\* Who does after the first i events of a transaction.
HoldersIn(holders, commit, i) ==
  LET after[j \in 0 .. Len(EventsOf(commit))] ==
        IF j = 0 THEN holders ELSE HandedOn(after[j - 1], commit, j, EventsOf(commit)[j])
  IN after[i]

\* And after the first n transactions.
HoldersAfter(n) ==
  LET after[i \in 0 .. Len(Commits)] ==
        IF i = 0
        THEN [k \in Keys |-> IF history.rows[k] = NoRow THEN Nobody ELSE FromBaseline(k)]
        ELSE HoldersIn(after[i - 1], i, Len(EventsOf(i)))
  IN after[n]

\* Who an event is about: the row it inserts or the row it changes.
Subject(commit, i) ==
  LET event == EventsOf(commit)[i] IN
  IF event.before = NoRow THEN FromInsert(commit, i)
  ELSE HoldersIn(HoldersAfter(commit - 1), commit, i - 1)[event.before.key]

\* What happened to a row in the first i events of a transaction, after its life
\* before them.
LivedIn(life, row, commit, i) ==
  LET after[j \in 0 .. Len(EventsOf(commit))] ==
        IF j = 0 THEN life
        ELSE IF Subject(commit, j) # row THEN after[j - 1]
        ELSE LET event == EventsOf(commit)[j]
             IN Append(after[j - 1], Entry(commit, j, event.before, event.after))
  IN after[i]

\* Everything that happened to a row in the first n transactions, its row of
\* the baseline first.
LifeTo(row, n) ==
  LET after[i \in 0 .. Len(Commits)] ==
        IF i # 0 THEN LivedIn(after[i - 1], row, i, Len(EventsOf(i)))
        ELSE IF row.commit # 0 THEN << >>
        ELSE <<Entry(0, 0, NoRow, [key |-> row.key, value |-> history.rows[row.key]])>>
  IN after[n]

\* The row asked about, by identity.
Asked == HoldersAfter(CommitsTo(lineage.anchor))[ask.key]

\* The answer is a page of everything that happened to the very row the key
\* named at the anchor, before and after it, and to no other row that ever held
\* one of its keys; and the whole recording was read to say so.
LineageIsTheRow ==
  outcome.kind = "lineage" =>
    LET final == HoldersAfter(Len(Commits)) IN
    /\ Intact
    /\ Asked # Nobody
    /\ PageOf(outcome.page, ask.page, LifeTo(Asked, Len(Commits)))
    /\ IF outcome.live = NoRow THEN \A k \in Keys : final[k] # Asked
                               ELSE final[outcome.live] = Asked
=============================================================================
