-------------------------- MODULE SourceResources ---------------------------
(* The resources of a capture in the source database, and who changes them:  *)
(* applyPostgresSetup and inspectPostgresSetup (setup.ts), the cleanup of a  *)
(* publication (cleanup-publication.ts), the read-only assessment            *)
(* (cleanup-assessment.ts), and administrators who ask nobody.               *)
(*                                                                           *)
(* One publication name and one slot name are contended for.  A session      *)
(* outlives the client that gave it up: a COMMIT on the wire may still be    *)
(* executed, and what is not committed is undone when the session ends.      *)
EXTENDS Naturals, FiniteSets

CONSTANTS
  Setups,       \* calls of applyPostgresSetup, each with its own token
  Cleanups,     \* calls of cleanupPostgresPublication
  Lease,        \* the session of a capture lease
  MaxOid,       \* publications ever made
  MaxMeddling,  \* what others do
  MaxPosition   \* WAL positions

ASSUME BoundsAssumption == {MaxOid, MaxMeddling, MaxPosition} \subseteq Nat

\* Callers are told apart, also from what stands for none and for others.
ASSUME SessionsAssumption ==
  /\ Setups \intersect Cleanups = {} /\ Lease \notin Setups \union Cleanups
  /\ {"nobody", "others", "none"} \intersect (Setups \union Cleanups \union {Lease}) = {}

VARIABLES
  catalog,      \* publications as committed, by oid
  work,         \* uncommitted changes of a session
  full,         \* the tables have REPLICA IDENTITY FULL
  tables,       \* the session that has altered the tables, until it ends
  slot,         \* the replication slot of the name
  wal,          \* the current WAL position
  locks,        \* the two advisory locks
  sent,         \* sessions with a COMMIT on the wire
  conn,         \* sessions the server has
  step,         \* where a client is
  receipt,      \* the setup receipt a client has
  outcome,      \* what its caller got
  report,       \* the cleanup assessment
  meddled

dbVars       == <<catalog, work, full, tables, locks, sent, conn>>
clientVars   == <<step, receipt, outcome>>
resourceVars == <<dbVars, clientVars, slot, wal, report, meddled>>

Sessions == Setups \union Cleanups \union {Lease}
Oids     == 1 .. MaxOid
Nobody   == "nobody"
Others   == "others"
NoSlot   == [by |-> Nobody]
Unused   == [name |-> "unused", marker |-> "none", by |-> Nobody]
\* A cleanup between its last look at the slot and the end of its transaction.
Unlooking == {c \in Cleanups : step[c] = "dropped" \/ c \in sent}

\* A slot that is made now.  unseen is history: the cleanups that will not look again.
NewSlot(by) == [by |-> by, start |-> wal, confirmed |-> wal, unseen |-> Unlooking]

Nothing  == [o \in {} |-> Unused]
NoReceipt == [oid |-> 0, marker |-> "none"]
Keys     == {"publication", "slot"}

ResourceInit ==
  /\ catalog = [o \in Oids |-> Unused]
  /\ work = [s \in Sessions |-> Nothing]
  /\ full = FALSE
  /\ tables = Nobody
  /\ slot = NoSlot
  /\ wal = 0
  /\ locks = [k \in Keys |-> Nobody]
  /\ sent = {}
  /\ conn = {}
  /\ step = [s \in Sessions |-> "idle"]
  /\ receipt = [s \in Sessions |-> NoReceipt]
  /\ outcome = [s \in Sessions |-> "none"]
  /\ report = [step |-> 0, confirmed |-> 0, current |-> 0]
  /\ meddled = 0

-----------------------------------------------------------------------------
(* The server                                                              *)

\* What a session sees: what is committed, and its own changes.
Visible(s) == [o \in Oids |-> IF o \in DOMAIN work[s] THEN work[s][o] ELSE catalog[o]]

Named(publications, name) == {o \in Oids : publications[o].name = name}

\* No other session has changed the object, or given or taken the name.
Unlocked(s, o) == \A t \in Sessions \ {s} : o \notin DOMAIN work[t]
NameFree(s, name) ==
  \A t \in Sessions \ {s} :
    \A o \in DOMAIN work[t] : work[t][o].name # name /\ catalog[o].name # name

\* The next oid nobody has used.
Fresh ==
  LET free == {o \in Oids : catalog[o] = Unused /\ \A s \in Sessions : o \notin DOMAIN work[s]}
  IN {o \in free : \A p \in free : o <= p}

Changed(s, o, publication) ==
  work' = [work EXCEPT ![s] = [p \in DOMAIN @ \union {o} |-> IF p = o THEN publication ELSE @[p]]]

\* COMMIT is executed; the client may be there for the answer, or not.
ServerCommits(s) ==
  /\ s \in sent
  /\ catalog' = Visible(s)
  /\ full' = (full \/ tables = s)
  /\ tables' = IF tables = s THEN Nobody ELSE tables
  /\ work' = [work EXCEPT ![s] = Nothing]
  /\ sent' = sent \ {s}
  /\ step' = [step EXCEPT ![s] = IF @ = "committing" THEN "committed" ELSE @]
  /\ UNCHANGED <<slot, wal, locks, conn, receipt, outcome, report, meddled>>

\* A session ends after its client: what is not committed is undone, the locks
\* are released.
EndSession(s) ==
  /\ conn' = conn \ {s}
  /\ work' = [work EXCEPT ![s] = Nothing]
  /\ tables' = IF tables = s THEN Nobody ELSE tables
  /\ locks' = [k \in Keys |-> IF locks[k] = s THEN Nobody ELSE locks[k]]
  /\ sent' = sent \ {s}
  /\ UNCHANGED <<catalog, full>>

ServerEnds(s) ==
  /\ s \in conn
  /\ step[s] = "settled"
  /\ EndSession(s)
  /\ UNCHANGED <<clientVars, slot, wal, report, meddled>>

-----------------------------------------------------------------------------
(* A client                                                                *)

Go(s, where) == step' = [step EXCEPT ![s] = where]

Settle(s, result) ==
  /\ Go(s, "settled")
  /\ outcome' = [outcome EXCEPT ![s] = result]

\* A query failed, a lock wait ran out, a check refused, the caller aborted:
\* the client is closed, whatever the session is doing.
Throws(s) ==
  /\ step[s] \notin {"idle", "settled", "held", "lost"}
  /\ Settle(s, "error")
  /\ UNCHANGED <<dbVars, receipt, slot, wal, report, meddled>>

\* A step of an open session that the server carries out.
Query(s, from, to) ==
  /\ step[s] = from
  /\ s \in conn
  /\ Go(s, to)
  /\ UNCHANGED <<full, locks, sent, conn, receipt, outcome, slot, wal, report, meddled>>

Connect(s, r) ==
  /\ step[s] = "idle"
  /\ Go(s, "locking")
  /\ conn' = conn \union {s}
  /\ receipt' = [receipt EXCEPT ![s] = r]
  /\ UNCHANGED <<catalog, work, full, tables, locks, sent, outcome, slot, wal, report, meddled>>

\* acquireCaptureLocks: both, in one order, without waiting.
TakeLock(s) ==
  /\ step[s] = "locking"
  /\ s \in conn
  /\ LET next == IF locks["publication"] = s THEN "slot" ELSE "publication"
     IN IF locks[next] = Nobody
          THEN /\ locks' = [locks EXCEPT ![next] = s]
               /\ Go(s, IF next = "slot" THEN "locked" ELSE "locking")
               /\ UNCHANGED outcome
          ELSE Settle(s, "error") /\ UNCHANGED locks
  /\ UNCHANGED <<catalog, work, full, tables, sent, conn, receipt, slot, wal, report, meddled>>

SendCommit(s, from) ==
  /\ step[s] = from
  /\ s \in conn
  /\ Go(s, "committing")
  /\ sent' = sent \union {s}
  /\ UNCHANGED <<catalog, work, full, tables, locks, conn, receipt, outcome, slot, wal, report,
                 meddled>>

\* Mutant of Committed: the answer is not waited for.
CommittedEarly(s, result) ==
  /\ step[s] \in {"committing", "committed"}
  /\ Settle(s, result)
  /\ UNCHANGED <<dbVars, receipt, slot, wal, report, meddled>>

\* The answer arrives.
Committed(s, result) ==
  /\ step[s] = "committed"
  /\ Settle(s, result)
  /\ UNCHANGED <<dbVars, receipt, slot, wal, report, meddled>>

-----------------------------------------------------------------------------
(* applyPostgresSetup                                                      *)

SetupChecks(u) ==
  /\ Named(catalog, "pub") = {} /\ slot = NoSlot
  /\ Query(u, "locked", "checked")
  /\ UNCHANGED <<catalog, work, tables>>

SetupAlters(u) ==
  /\ tables = Nobody
  /\ tables' = u
  /\ Query(u, "checked", "altered")
  /\ UNCHANGED <<catalog, work>>

\* Mutant of SetupCreates: the publication is made outside the transaction.
SetupCreatesApart(u) ==
  /\ Named(Visible(u), "pub") = {} /\ NameFree(u, "pub")
  /\ \E o \in Fresh :
       catalog' = [catalog EXCEPT ![o] = [name |-> "pub", marker |-> "none", by |-> u]]
  /\ Query(u, "altered", "created")
  /\ UNCHANGED <<work, tables>>

SetupCreates(u) ==
  /\ Named(Visible(u), "pub") = {} /\ NameFree(u, "pub")
  /\ \E o \in Fresh : Changed(u, o, [name |-> "pub", marker |-> "none", by |-> u])
  /\ Query(u, "altered", "created")
  /\ UNCHANGED <<catalog, tables>>

SetupComments(u) ==
  /\ \E o \in Named(Visible(u), "pub") : Changed(u, o, [Visible(u)[o] EXCEPT !.marker = u])
  /\ Query(u, "created", "commented")
  /\ UNCHANGED <<catalog, tables>>

\* readReceipt: the publication of that name, with the token in its comment.
Owned(s, u) == {o \in Named(Visible(s), "pub") : Visible(s)[o].marker = u}

SetupReads(u) ==
  /\ step[u] = "commented"
  /\ u \in conn
  /\ \E o \in Owned(u, u) : receipt' = [receipt EXCEPT ![u] = [oid |-> o, marker |-> u]]
  /\ Go(u, "read")
  /\ UNCHANGED <<dbVars, outcome, slot, wal, report, meddled>>

\* inspectPostgresSetup, after an uncertain end: what is committed decides.
Inspect(u) ==
  /\ step[u] = "settled" /\ outcome[u] = "error"
  /\ \E o \in Named(catalog, "pub") :
       /\ catalog[o].marker = u
       /\ receipt' = [receipt EXCEPT ![u] = [oid |-> o, marker |-> u]]
  /\ outcome' = [outcome EXCEPT ![u] = "receipt"]
  /\ UNCHANGED <<dbVars, step, slot, wal, report, meddled>>

SetupStep(u) ==
  \/ Connect(u, NoReceipt)
  \/ SetupChecks(u) \/ SetupAlters(u) \/ SetupCreates(u) \/ SetupComments(u) \/ SetupReads(u)
  \/ SendCommit(u, "read")
  \/ Committed(u, "receipt")

-----------------------------------------------------------------------------
(* cleanupPostgresPublication                                              *)

Receipts == {receipt[u] : u \in {u \in Setups : outcome[u] = "receipt"}}

\* Mutant of CleanupChecksSlot: no lock is taken.
CleanupChecksSlotUnlocked(c) ==
  /\ slot = NoSlot
  /\ Query(c, "locking", "unslotted")
  /\ UNCHANGED <<catalog, work, tables>>

CleanupChecksSlot(c) ==
  /\ slot = NoSlot
  /\ Query(c, "locked", "unslotted")
  /\ UNCHANGED <<catalog, work, tables>>

\* The name and the oid of the receipt must be one and the same, or both gone.
CleanupFinds(c) ==
  /\ step[c] = "unslotted"
  /\ LET found == Named(Visible(c), "pub")
                    \union {o \in {receipt[c].oid} : Visible(c)[o].name # "dropped"}
     IN \/ found = {receipt[c].oid} /\ Visible(c)[receipt[c].oid].name = "pub"
           /\ Query(c, "unslotted", "found")
        \/ found = {} /\ Query(c, "unslotted", "absent")
  /\ UNCHANGED <<catalog, work, tables>>

\* RENAME resolves the name anew, and locks what it finds.
CleanupRenames(c) ==
  /\ \E o \in Named(Visible(c), "pub") :
       /\ Unlocked(c, o)
       /\ Changed(c, o, [Visible(c)[o] EXCEPT !.name = "temporary"])
  /\ Named(Visible(c), "temporary") = {} /\ NameFree(c, "temporary")
  /\ Query(c, "found", "renamed")
  /\ UNCHANGED <<catalog, tables>>

\* Mutant of LockedIsOwned: the name was checked, the lock was awaited.
LockedIsOwnedAlways(c, o) == TRUE

LockedIsOwned(c, o) ==
  o = receipt[c].oid /\ Visible(c)[o].marker = receipt[c].marker

\* Mutant of CleanupDrops: the slot was looked at before the lock was awaited.
CleanupDropsUnchecked(c) ==
  /\ step[c] = "renamed"
  /\ \E o \in Named(Visible(c), "temporary") :
       /\ LockedIsOwned(c, o)
       /\ Changed(c, o, [Visible(c)[o] EXCEPT !.name = "dropped"])
  /\ Query(c, "renamed", "dropped")
  /\ UNCHANGED <<catalog, tables>>

\* Rechecked under the lock, then dropped.
CleanupDrops(c) ==
  /\ step[c] = "renamed"
  /\ slot = NoSlot
  /\ \E o \in Named(Visible(c), "temporary") :
       /\ LockedIsOwned(c, o)
       /\ Changed(c, o, [Visible(c)[o] EXCEPT !.name = "dropped"])
  /\ Query(c, "renamed", "dropped")
  /\ UNCHANGED <<catalog, tables>>

CleanupFindsNothing(c) ==
  /\ step[c] = "absent"
  /\ Settle(c, "absent")
  /\ UNCHANGED <<dbVars, receipt, slot, wal, report, meddled>>

CleanupStep(c) ==
  \/ \E r \in Receipts : Connect(c, r)
  \/ CleanupChecksSlot(c) \/ CleanupFinds(c) \/ CleanupRenames(c) \/ CleanupDrops(c)
  \/ CleanupFindsNothing(c)
  \/ SendCommit(c, "dropped")
  \/ Committed(c, "removed")

-----------------------------------------------------------------------------
(* assessPostgresCleanup takes no lock: the slot first, the WAL after it.    *)

\* Mutant of Reading: the WAL position is read first.
ReadingWalFirst(n) == IF n = 1 THEN "wal" ELSE "slot"

Reading(n) == IF n = 1 THEN "slot" ELSE "wal"

Assess ==
  /\ report.step < 2
  /\ slot # NoSlot
  /\ report' = IF Reading(report.step + 1) = "slot"
                 THEN [report EXCEPT !.step = @ + 1, !.confirmed = slot.confirmed]
                 ELSE [report EXCEPT !.step = @ + 1, !.current = wal]
  /\ UNCHANGED <<dbVars, clientVars, slot, wal, meddled>>

-----------------------------------------------------------------------------
(* Administrators                                                          *)

Meddle(publications) ==
  /\ catalog' = publications
  /\ UNCHANGED <<work, full, tables, locks, sent, conn, slot>>

MeddleSlot(new) ==
  /\ slot' = new
  /\ UNCHANGED dbVars

Theirs == [name |-> "pub", marker |-> "none", by |-> Others]

OthersMeddle ==
  /\ meddled < MaxMeddling
  /\ meddled' = meddled + 1
  /\ \/ \E o \in Named(catalog, "pub") :
          /\ \A s \in Sessions : o \notin DOMAIN work[s]
          /\ \/ Meddle([catalog EXCEPT ![o].name = "dropped"])
             \/ Meddle([catalog EXCEPT ![o].name = "renamed"])
             \/ Meddle([catalog EXCEPT ![o].marker = Others])
             \/ \E p \in Fresh : Meddle([catalog EXCEPT ![o].name = "dropped", ![p] = Theirs])
     \/ /\ Named(catalog, "pub") = {} /\ NameFree(Others, "pub")
        /\ \E o \in Fresh : Meddle([catalog EXCEPT ![o] = Theirs])
     \/ slot = NoSlot /\ MeddleSlot(NewSlot(Others))
     \/ slot # NoSlot /\ MeddleSlot(NoSlot)
  /\ UNCHANGED <<clientVars, wal, report>>

\* Whoever reads the slot confirms what it has flushed.
OthersConfirm ==
  /\ slot # NoSlot
  /\ slot.confirmed < wal
  /\ slot' = [slot EXCEPT !.confirmed = wal]
  /\ UNCHANGED <<dbVars, clientVars, wal, report, meddled>>

-----------------------------------------------------------------------------
ClientStep ==
  \/ \E u \in Setups : SetupStep(u)
  \/ \E c \in Cleanups : CleanupStep(c)
  \/ \E s \in Sessions : TakeLock(s) \/ Throws(s)

ServerStep == \E s \in Sessions : ServerCommits(s) \/ ServerEnds(s)

ResourceNext ==
  \/ ClientStep \/ ServerStep
  \/ \E u \in Setups : Inspect(u)
  \/ Assess
  \/ OthersMeddle \/ OthersConfirm

-----------------------------------------------------------------------------
\* What a transaction of a session changes in the catalog.
Commits(s) == s \in sent /\ s \notin sent' /\ s \in conn'

\* A cleanup changes nothing but the publication of its receipt, which carries
\* the receipt's marker when it is dropped: not one that took its name while
\* the rename waited, not one whose marker was changed, and the temporary name
\* is never seen (docs/publication-cleanup.md).
OnlyOwnedDropped ==
  [][\A c \in Cleanups, o \in Oids :
       Commits(c) /\ catalog'[o] # catalog[o] =>
         /\ o = receipt[c].oid
         /\ catalog[o].name = "pub" /\ catalog[o].marker = receipt[c].marker
         /\ catalog'[o].name = "dropped"]_resourceVars

\* Setup commits its parts together: no publication of its making is there
\* without its marker, except that others removed it, or without the tables'
\* replica identity; and one name is one publication.
SetupIsWhole ==
  /\ \A o \in Oids :
       catalog[o].by \in Setups =>
         catalog[o].marker \in {catalog[o].by, Others} /\ full
  /\ \A name \in {"pub", "temporary"} : Cardinality(Named(catalog, name)) <= 1

\* A receipt is of a publication that was committed, with that oid; and a
\* removal is reported of one that is gone.
OutcomeIsCommitted ==
  /\ \A u \in Setups :
       outcome[u] = "receipt" => catalog[receipt[u].oid].by = u
  /\ \A c \in Cleanups :
       outcome[c] \in {"removed", "absent"} => catalog[receipt[c].oid].name = "dropped"

\* The distances of an assessment are never negative, though slot and WAL move
\* while it reads and it holds no lock.
AssessmentInOrder ==
  report.step = 2 => report.confirmed <= report.current
=============================================================================
