----------------------- MODULE SourceLifecycleProofs ------------------------
(***************************************************************************)
(* Theorems about SourceLifecycle, for any number of setups and cleanups,  *)
(* any catalog and any rows: what the source holds is what its callers     *)
(* made of it, a cleanup removes only what its receipt names, and a        *)
(* baseline that is published is the snapshot of the slot's start.         *)
(*                                                                         *)
(* The first part is about the source alone: whoever changes anything      *)
(* holds both advisory locks, so only one session has uncommitted work.    *)
(* The second is about the bootstrap, which works under the lease.         *)
(***************************************************************************)
EXTENDS SourceLifecycle, FiniteSetTheorems, TLAPS

\* What a publication may be.
Publication ==
  [name : {"unused", "pub", "temporary", "renamed", "dropped"},
   marker : Setups \union {"none", Others}, by : Setups \union {Others, Nobody}]

\* Where the callers may be.
SetupSteps ==
  {"idle", "locking", "locked", "checked", "altered", "created", "commented", "read",
   "committing", "committed", "settled"}
\* A cleanup renames the publication and drops it.
CleanupSteps ==
  {"idle", "locking", "locked", "unslotted", "found", "absent", "renamed", "dropped",
   "committing", "committed", "settled"}
\* A lease is held until it is lost or released.
LeaseSteps == {"idle", "locking", "locked", "held", "lost", "settled"}

\* The source's catalog and sessions.
ServerTypes ==
  /\ catalog \in [Oids -> Publication]
  /\ work \in [Sessions -> UNION {[D -> Publication] : D \in SUBSET Oids}]
  /\ full \in BOOLEAN
  /\ tables \in Setups \union {Nobody}
  /\ locks \in [Keys -> Sessions \union {Nobody}]
  /\ sent \subseteq conn /\ conn \subseteq Sessions

\* The callers.
CallerTypes ==
  /\ step \in [Sessions -> SetupSteps \union CleanupSteps \union LeaseSteps]
  /\ receipt \in [Sessions -> [oid : Oids \union {0}, marker : Setups \union {"none"}]]
  /\ outcome \in [Sessions -> {"none", "error", "receipt", "absent", "removed", "closed"}]

\* The session has changed nothing that is not committed.
NoWork(s) == DOMAIN work[s] = {}
\* It has both advisory locks.
Holds(s) == \A k \in Keys : locks[k] = s

\* Whoever changes something holds both locks, and who has got beyond taking
\* them holds them as long as its session lives.
HolderSound(s) ==
  /\ \A k \in Keys : locks[k] = s => s \in conn
  /\ ~NoWork(s) \/ s \in sent \/ tables = s => Holds(s)
  /\ step[s] \notin {"idle", "locking", "lost", "settled"} /\ s \in conn => Holds(s)
  /\ s \in sent => step[s] \in {"committing", "settled"}
  /\ outcome[s] # "none" => step[s] = "settled"
  /\ step[s] = "committed" => NoWork(s)
  /\ \A o, p \in DOMAIN work[s] : o = p

\* What a setup has changed is one new publication of its own, marked before it
\* is sent, while no other has the name and with the tables altered beside it.
SetupSound(u) ==
  /\ step[u] \in SetupSteps
  /\ step[u] \notin {"idle", "settled"} => u \in conn
  /\ step[u] \in {"idle", "locking", "locked", "checked", "altered"} => NoWork(u) /\ u \notin sent
  /\ step[u] \in {"altered", "created", "commented", "read", "committing"} => tables = u
  /\ step[u] \in {"created", "commented", "read", "committing"} => ~NoWork(u)
  /\ ~NoWork(u) => tables = u /\ Named(catalog, "pub") = {}
  /\ \A o \in DOMAIN work[u] :
       /\ catalog[o] = Unused
       /\ work[u][o].name = "pub" /\ work[u][o].by = u /\ work[u][o].marker \in {"none", u}
       /\ step[u] \in {"commented", "read"} \/ u \in sent => work[u][o].marker = u
  /\ step[u] \in {"read", "committing"} => receipt[u].oid \in DOMAIN work[u]
  /\ step[u] = "committed" \/ outcome[u] = "receipt" =>
       receipt[u].oid \in Oids /\ catalog[receipt[u].oid].by = u

\* What a cleanup has changed is the name of one publication; what it has sent is
\* the removal of its receipt's.
CleanupSound(c) ==
  /\ step[c] \in CleanupSteps
  /\ step[c] \notin {"idle", "settled"} => c \in conn
  /\ step[c] # "idle" => receipt[c].oid \in Oids
  /\ step[c] \in {"idle", "locking", "locked", "unslotted", "found", "absent"} =>
       NoWork(c) /\ c \notin sent
  /\ \A o \in DOMAIN work[c] :
       /\ catalog[o].name = "pub" /\ work[c][o].name \in {"temporary", "dropped"}
       /\ work[c][o].marker = catalog[o].marker /\ work[c][o].by = catalog[o].by
  /\ step[c] = "dropped" \/ c \in sent =>
       /\ receipt[c].oid \in DOMAIN work[c]
       /\ work[c][receipt[c].oid].name = "dropped"
       /\ work[c][receipt[c].oid].marker = receipt[c].marker
  /\ step[c] \in {"absent", "committed"} \/ outcome[c] \in {"removed", "absent"} =>
       catalog[receipt[c].oid].name = "dropped"

\* The lease changes nothing, and has its locks until its session ends, which it
\* notices later.
LeaseSound ==
  /\ step[Lease] \in LeaseSteps
  /\ step[Lease] \in {"locking", "locked"} => Lease \in conn
  /\ step[Lease] = "lost" => Lease \notin conn
  /\ NoWork(Lease) /\ Lease \notin sent

\* Each caller with its session.
SessionSound(s) ==
  /\ HolderSound(s)
  /\ s \in Setups => SetupSound(s)
  /\ s \in Cleanups => CleanupSound(s)
  /\ s = Lease => LeaseSound

\* One publication has the name; what a setup has made is marked and complete.
CatalogSound ==
  /\ \A o \in Oids : catalog[o].name # "temporary"
  /\ \A o, p \in Named(catalog, "pub") : o = p
  /\ \A o \in Oids :
       /\ catalog[o].by \in Setups => catalog[o].marker \in {catalog[o].by, Others} /\ full
       /\ catalog[o].marker \in Setups => catalog[o].by = catalog[o].marker

\* All that is true of the server and its callers.
ResourceInv ==
  /\ ServerTypes /\ CallerTypes
  /\ CatalogSound
  /\ \A s \in Sessions : SessionSound(s)

-----------------------------------------------------------------------------

\* A recording in the store.
Recording ==
  [status : {"bootstrapping", "recording", "invalid"}, bound : BOOLEAN, rows : SUBSET Rows]

\* The slot's positions and those of an assessment.
PositionsSound ==
  /\ wal \in 0 .. MaxPosition
  /\ past \in Seq(SUBSET Rows) /\ Len(past) = wal + 1
  /\ slot \in
       {NoSlot} \union
       [by : {Boot, Others}, start : Nat, confirmed : Nat, unseen : SUBSET Cleanups]
  /\ slot # NoSlot => slot.start <= slot.confirmed /\ slot.confirmed <= wal
  /\ report \in [step : 0 .. 2, confirmed : Nat, current : Nat]
  /\ report.step = 1 => report.confirmed <= wal
  /\ report.step = 2 => report.confirmed <= report.current
  /\ meddled \in Nat

\* The bootstrap and what it has read.
BootstrapTypes ==
  /\ at \in {"idle", "created", "bound", "connected", "slotting", "slotted", "imported", "reading",
             "staging", "complete", "closed", "failing", "invalidating", "settled", "dead"}
  /\ rec \in {NoRecording} \union Recording
  /\ created \in BOOLEAN /\ storeUp \in BOOLEAN /\ broken \in BOOLEAN /\ dirty \in BOOLEAN
  /\ creating \in BOOLEAN
  /\ connections \subseteq {"exporter", "reader"}
  /\ {snapshot, view} \subseteq 0 .. NoPosition
  /\ batch \subseteq fetched /\ fetched \subseteq Rows /\ Cardinality(batch) <= BatchRows
  /\ result \in {"none", "published", "incomplete", "failed"}

\* Once the recording is bound it is there and stays so; until it is published or
\* given up it is being bootstrapped.  What is on the wire for a slot, then or after
\* the end, is for a recording that is bound and is not published.
RecordingSound ==
  /\ at = "idle" => rec = NoRecording /\ fetched = {}
  /\ created => rec # NoRecording
  /\ ~created => rec = NoRecording \/ ~storeUp
  /\ at \in {"created", "bound", "connected", "slotting", "slotted", "imported", "reading",
             "staging", "complete", "closed"} =>
       rec.status = "bootstrapping" /\ created
  /\ at \in {"bound", "connected", "slotting", "slotted", "imported", "reading", "staging",
             "complete", "closed"} => rec.bound
  /\ at \in {"idle", "created", "bound"} => slot.by # Boot
  /\ slot.by = Boot \/ creating => rec.status # "none" /\ rec.bound
  /\ creating =>
       at \in {"slotting", "failing", "invalidating", "settled", "dead"} /\ rec.status # "recording"
  /\ rec.status = "recording" => at \in {"invalidating", "settled", "dead"}
  /\ at \in {"created", "bound", "connected", "slotting", "slotted", "imported"} =>
       rec.rows = {} /\ fetched = {}

\* What has been staged is what was read, of the rows at the slot's start.
SnapshotSound ==
  /\ at \in {"slotted", "imported", "reading", "staging", "complete", "closed"} 
          \/ rec.status = "recording" =>
       /\ snapshot <= wal
       /\ slot.by = Boot => slot.start = snapshot
  /\ at \in {"imported", "reading", "staging", "complete", "closed"} => view = snapshot
  /\ at \in {"reading", "staging", "complete", "closed"} => fetched \subseteq RowsAt(snapshot)
  /\ at = "reading" => rec.rows = fetched /\ batch = {}
  /\ at = "staging" => rec.rows \union batch = fetched
  /\ at \in {"complete", "closed"} \/ rec.status = "recording" => rec.rows = RowsAt(snapshot)

\* Connections are open from the slot to the end of the reading, or until a
\* failure is cleaned up; the outcome is told at the end.
EndSound ==
  /\ at \in {"idle", "created", "bound", "complete", "closed", "invalidating", "settled", "dead"} =>
       connections = {}
  /\ at # "settled" => result = "none"
  /\ at = "settled" =>
       /\ result = "failed" => rec.status \in {"none", "invalid"} \/ (~storeUp /\ ~created)
       /\ result = "published" => rec.status = "recording"

\* A bootstrap began under the lease, whose locks are held as long as its session
\* lives.
UnderLease ==
  at # "idle" =>
    /\ step[Lease] \in {"held", "lost", "settled"}
    /\ Lease \in conn => Holds(Lease)

\* All that is true of a bootstrap.
BootstrapInv ==
  PositionsSound /\ BootstrapTypes /\ RecordingSound /\ SnapshotSound /\ EndSound

\* Who will not look at the slot again had looked before it was made.
LooksSound == slot # NoSlot => Unlooking \subseteq slot.unseen

\* The inductive invariant.
LifecycleInv == ResourceInv /\ BootstrapInv /\ UnderLease /\ LooksSound

-----------------------------------------------------------------------------
(* Frames                                                                    *)

\* The callers are told apart.
LEMMA Names ==
  /\ Nobody \notin Sessions /\ Others \notin Sessions /\ "none" \notin Setups
  /\ \A s \in Setups : s \in Sessions /\ s \notin Cleanups /\ s # Lease
  /\ \A s \in Cleanups : s \in Sessions /\ s # Lease
  /\ Lease \in Sessions
  /\ Unused \in Publication /\ DOMAIN Nothing = {}
  BY SessionsAssumption DEF Sessions, Nobody, Others, Unused, Publication, Nothing

\* Nothing happens to a caller.
SameCaller(t) ==
  step'[t] = step[t] /\ receipt'[t] = receipt[t] /\ outcome'[t] = outcome[t]

\* Nothing happens to its session.
SameSession(t) ==
  /\ work'[t] = work[t]
  /\ t \in conn' <=> t \in conn
  /\ t \in sent' <=> t \in sent
  /\ tables' = t <=> tables = t
  /\ \A k \in Keys : locks'[k] = t <=> locks[k] = t

\* What others commit takes nothing away from it.
CatalogKeeps(t) ==
  /\ \A o \in Oids :
       /\ catalog[o].by \in Setups => catalog'[o].by = catalog[o].by
       /\ catalog[o].name = "dropped" => catalog'[o].name = "dropped"
  /\ \A o \in DOMAIN work[t] : catalog'[o] = catalog[o]
  /\ t \in Setups /\ ~NoWork(t) /\ Named(catalog, "pub") = {} => Named(catalog', "pub") = {}

\* A caller that nothing happens to is as sound as it was.
LEMMA OtherSound ==
  ASSUME NEW t \in Sessions, SessionSound(t), CallerTypes,
         SameCaller(t), SameSession(t), CatalogKeeps(t)
  PROVE  SessionSound(t)'
<1> USE DEF SameCaller, SameSession
<1>1. HolderSound(t)'
  BY DEF SessionSound, HolderSound, NoWork, Holds
<1>2. ASSUME t \in Setups PROVE SetupSound(t)'
  <2>1. SetupSound(t)
    BY <1>2 DEF SessionSound
  <2>2. \A o \in DOMAIN work[t] : catalog'[o] = catalog[o]
    BY DEF CatalogKeeps
  <2>3. ~NoWork(t) => Named(catalog', "pub") = {}
    BY <1>2, <2>1 DEF CatalogKeeps, SetupSound
  <2>4. receipt[t].oid \in Oids /\ catalog[receipt[t].oid].by = t => catalog'[receipt[t].oid].by = t
    BY <1>2 DEF CatalogKeeps
  <2> QED
    BY <2>1, <2>2, <2>3, <2>4 DEF SetupSound, NoWork
<1>3. ASSUME t \in Cleanups PROVE CleanupSound(t)'
  <2>1. CleanupSound(t)
    BY <1>3 DEF SessionSound
  <2>2. \A o \in DOMAIN work[t] : catalog'[o] = catalog[o]
    BY DEF CatalogKeeps
  <2>3. receipt[t].oid \in Oids /\ catalog[receipt[t].oid].name = "dropped" =>
          catalog'[receipt[t].oid].name = "dropped"
    BY DEF CatalogKeeps
  <2>4. step[t] \in {"absent", "committed"} \/ outcome[t] \in {"removed", "absent"} =>
          step[t] # "idle"
    BY DEF SessionSound, HolderSound
  <2> QED
    BY <2>1, <2>2, <2>3, <2>4 DEF CleanupSound, NoWork
<1>4. ASSUME t = Lease PROVE LeaseSound'
  BY <1>4 DEF SessionSound, LeaseSound, NoWork
<1> QED
  BY <1>1, <1>2, <1>3, <1>4 DEF SessionSound

\* What a session has changed are publications.
LEMMA WorkFacts ==
  ASSUME ServerTypes, NEW s \in Sessions
  PROVE  DOMAIN work[s] \subseteq Oids /\ \A o \in DOMAIN work[s] : work[s][o] \in Publication
<1>1. work[s] \in UNION {[D -> Publication] : D \in SUBSET Oids}
  BY DEF ServerTypes
<1>2. PICK D \in SUBSET Oids : work[s] \in [D -> Publication]
  BY <1>1
<1> QED
  BY <1>2

\* One more change of a session.
LEMMA ChangedFacts ==
  ASSUME ServerTypes, NEW s \in Sessions, NEW o \in Oids, NEW p \in Publication, Changed(s, o, p)
  PROVE  /\ work' \in [Sessions -> UNION {[D -> Publication] : D \in SUBSET Oids}]
         /\ DOMAIN work'[s] = DOMAIN work[s] \union {o} /\ work'[s][o] = p
         /\ \A q \in DOMAIN work[s] \ {o} : work'[s][q] = work[s][q]
         /\ \A t \in Sessions \ {s} : work'[t] = work[t]
<1> DEFINE D == DOMAIN work[s] \union {o}
           f == [q \in D |-> IF q = o THEN p ELSE work[s][q]]
<1>1. D \in SUBSET Oids /\ f \in [D -> Publication]
  BY WorkFacts
<1>2. f \in UNION {[E -> Publication] : E \in SUBSET Oids}
  BY <1>1
<1>3. work' = [work EXCEPT ![s] = f]
  BY DEF Changed
<1>4. work \in [Sessions -> UNION {[E -> Publication] : E \in SUBSET Oids}]
  BY DEF ServerTypes
<1>5. work'[s] = f /\ \A t \in Sessions \ {s} : work'[t] = work[t]
  BY <1>3, <1>4
<1>6. work' \in [Sessions -> UNION {[E -> Publication] : E \in SUBSET Oids}]
  BY <1>2, <1>3, <1>4
<1>7. DOMAIN f = D /\ f[o] = p /\ \A q \in DOMAIN work[s] \ {o} : f[q] = work[s][q]
  OBVIOUS
<1> QED
  BY <1>5, <1>6, <1>7

\* Nothing is a change of nothing.
LEMMA NothingFacts ==
  Nothing \in UNION {[D -> Publication] : D \in SUBSET Oids} /\ DOMAIN Nothing = {}
<1>1. Nothing \in [{} -> Publication] /\ {} \in SUBSET Oids
  BY DEF Nothing
<1> QED
  BY <1>1

\* What a session sees are publications.
LEMMA VisibleFacts ==
  ASSUME ServerTypes, NEW s \in Sessions
  PROVE  /\ Visible(s) \in [Oids -> Publication]
         /\ \A o \in Oids : Visible(s)[o] = IF o \in DOMAIN work[s] THEN work[s][o] ELSE catalog[o]
  BY WorkFacts DEF ServerTypes, Visible

\* A step of one caller that commits nothing.
LEMMA OneMoves ==
  ASSUME ResourceInv, NEW s \in Sessions, UNCHANGED <<catalog, full>>,
         ServerTypes', CallerTypes', SessionSound(s)',
         \A t \in Sessions \ {s} : SameCaller(t) /\ SameSession(t)
  PROVE  ResourceInv'
<1>1. \A t \in Sessions : CatalogKeeps(t)
  BY DEF CatalogKeeps, Named
<1>2. \A t \in Sessions : SessionSound(t)'
  BY <1>1, OtherSound DEF ResourceInv
<1>3. CatalogSound'
  BY DEF ResourceInv, CatalogSound, Named
<1> QED
  BY <1>2, <1>3 DEF ResourceInv

-----------------------------------------------------------------------------
(* The callers                                                               *)

\* A caller connects, with a receipt unless it sets up.
LEMMA ConnectKeeps ==
  ASSUME ResourceInv, NEW s \in Sessions,
         NEW r \in [oid : Oids \union {0}, marker : Setups \union {"none"}],
         s \notin Setups => r.oid \in Oids,
         Connect(s, r)
  PROVE  ResourceInv'
<1>1. ServerTypes /\ CallerTypes /\ SessionSound(s) /\ s \in Sessions
  BY Names DEF ResourceInv
<1>2. ServerTypes'
  BY <1>1, Names DEF ServerTypes, Connect, Go
<1>3. CallerTypes'
  BY <1>1, Names DEF CallerTypes, Connect, Go, SetupSteps, CleanupSteps, LeaseSteps
<1>4. \A t \in Sessions \ {s} : SameCaller(t) /\ SameSession(t)
  BY <1>1, Names DEF ServerTypes, CallerTypes, SameCaller, SameSession, Keys,
      Connect, Go
<1>5. HolderSound(s)'
  BY <1>1, Names DEF SessionSound, HolderSound, SetupSound, CleanupSound,
      LeaseSound, ServerTypes, CallerTypes, NoWork, Holds, Keys, Connect, Go
<1>6. ASSUME s \in Setups PROVE SetupSound(s)'
  BY <1>1, <1>6, Names DEF SessionSound, HolderSound, SetupSound, SetupSteps, Named,
      Visible, ServerTypes, CallerTypes, NoWork, Holds, Keys, Connect, Go
<1>7. ASSUME s \in Cleanups PROVE CleanupSound(s)'
  BY <1>1, <1>7, Names DEF SessionSound, HolderSound, CleanupSound, CleanupSteps,
      Named, Visible, ServerTypes, CallerTypes, NoWork, Holds, Keys, Connect, Go
<1>8. ASSUME s = Lease PROVE LeaseSound'
  BY <1>1, <1>8, Names DEF SessionSound, HolderSound, LeaseSound, LeaseSteps, Named,
      Visible, ServerTypes, CallerTypes, NoWork, Holds, Keys, Connect, Go
<1>9. SessionSound(s)'
  BY <1>5, <1>6, <1>7, <1>8, Names DEF SessionSound
<1>10. UNCHANGED <<catalog, full>>
  BY DEF Connect, Go
<1> QED
  BY <1>2, <1>3, <1>4, <1>9, <1>10, <1>1, OneMoves

\* A lock is taken, or the caller gives up.
LEMMA TakeLockKeeps ==
  ASSUME ResourceInv, NEW s \in Sessions, TakeLock(s)
  PROVE  ResourceInv'
<1>1. ServerTypes /\ CallerTypes /\ SessionSound(s) /\ s \in Sessions
  BY Names DEF ResourceInv
<1>2. ServerTypes'
  BY <1>1, Names DEF ServerTypes, TakeLock, Go, Settle
<1>3. CallerTypes'
  BY <1>1, Names DEF CallerTypes, TakeLock, Go, Settle, SetupSteps, CleanupSteps,
      LeaseSteps
<1>4. \A t \in Sessions \ {s} : SameCaller(t) /\ SameSession(t)
  BY <1>1, Names DEF ServerTypes, CallerTypes, SameCaller, SameSession, Keys,
      TakeLock, Go, Settle
<1>5. HolderSound(s)'
  BY <1>1, Names DEF SessionSound, HolderSound, SetupSound, CleanupSound,
      LeaseSound, ServerTypes, CallerTypes, NoWork, Holds, Keys, TakeLock, Go,
      Settle
<1>6. ASSUME s \in Setups PROVE SetupSound(s)'
  BY <1>1, <1>6, Names DEF SessionSound, HolderSound, SetupSound, SetupSteps, Named,
      Visible, ServerTypes, CallerTypes, NoWork, Holds, Keys, TakeLock, Go, Settle
<1>7. ASSUME s \in Cleanups PROVE CleanupSound(s)'
  BY <1>1, <1>7, Names DEF SessionSound, HolderSound, CleanupSound, CleanupSteps,
      Named, Visible, ServerTypes, CallerTypes, NoWork, Holds, Keys, TakeLock, Go,
      Settle
<1>8. ASSUME s = Lease PROVE LeaseSound'
  BY <1>1, <1>8, Names DEF SessionSound, HolderSound, LeaseSound, LeaseSteps, Named,
      Visible, ServerTypes, CallerTypes, NoWork, Holds, Keys, TakeLock, Go, Settle
<1>9. SessionSound(s)'
  BY <1>5, <1>6, <1>7, <1>8, Names DEF SessionSound
<1>10. UNCHANGED <<catalog, full>>
  BY DEF TakeLock, Go, Settle
<1> QED
  BY <1>2, <1>3, <1>4, <1>9, <1>10, <1>1, OneMoves

\* A caller gives up, whatever its session has done or is doing.
LEMMA ThrowsKeeps ==
  ASSUME ResourceInv, NEW s \in Sessions, Throws(s)
  PROVE  ResourceInv'
<1>1. ServerTypes /\ CallerTypes /\ SessionSound(s) /\ s \in Sessions
  BY Names DEF ResourceInv
<1>2. ServerTypes'
  BY <1>1, Names DEF ServerTypes, Throws, Settle, Go, dbVars
<1>3. CallerTypes'
  BY <1>1, Names DEF CallerTypes, Throws, Settle, Go, dbVars, SetupSteps,
      CleanupSteps, LeaseSteps
<1>4. \A t \in Sessions \ {s} : SameCaller(t) /\ SameSession(t)
  BY <1>1, Names DEF ServerTypes, CallerTypes, SameCaller, SameSession, Keys,
      Throws, Settle, Go, dbVars
<1>5. HolderSound(s)'
  BY <1>1, Names DEF SessionSound, HolderSound, SetupSound, CleanupSound,
      LeaseSound, ServerTypes, CallerTypes, NoWork, Holds, Keys, Throws, Settle, Go,
      dbVars
<1>6. ASSUME s \in Setups PROVE SetupSound(s)'
  BY <1>1, <1>6, Names DEF SessionSound, HolderSound, SetupSound, SetupSteps, Named,
      Visible, ServerTypes, CallerTypes, NoWork, Holds, Keys, Throws, Settle, Go,
      dbVars
<1>7. ASSUME s \in Cleanups PROVE CleanupSound(s)'
  BY <1>1, <1>7, Names DEF SessionSound, HolderSound, CleanupSound, CleanupSteps,
      Named, Visible, ServerTypes, CallerTypes, NoWork, Holds, Keys, Throws, Settle,
      Go, dbVars
<1>8. ASSUME s = Lease PROVE LeaseSound'
  BY <1>1, <1>8, Names DEF SessionSound, HolderSound, LeaseSound, LeaseSteps, Named,
      Visible, ServerTypes, CallerTypes, NoWork, Holds, Keys, Throws, Settle, Go,
      dbVars
<1>9. SessionSound(s)'
  BY <1>5, <1>6, <1>7, <1>8, Names DEF SessionSound
<1>10. UNCHANGED <<catalog, full>>
  BY DEF Throws, Settle, Go, dbVars
<1> QED
  BY <1>2, <1>3, <1>4, <1>9, <1>10, <1>1, OneMoves

\* The server ends a session, and undoes what it has not committed.
LEMMA EndsKeeps ==
  ASSUME ResourceInv, NEW s \in Sessions, ServerEnds(s)
  PROVE  ResourceInv'
<1>1. ServerTypes /\ CallerTypes /\ SessionSound(s) /\ s \in Sessions
  BY Names DEF ResourceInv
<1>2. ServerTypes'
  BY NothingFacts, <1>1, Names DEF ServerTypes, ServerEnds, EndSession, clientVars
<1>3. CallerTypes'
  BY NothingFacts, <1>1, Names DEF CallerTypes, ServerEnds, EndSession, clientVars,
      SetupSteps, CleanupSteps, LeaseSteps
<1>4. \A t \in Sessions \ {s} : SameCaller(t) /\ SameSession(t)
  BY NothingFacts, <1>1, Names DEF ServerTypes, CallerTypes, SameCaller,
      SameSession, Keys, ServerEnds, EndSession, clientVars
<1>5. HolderSound(s)'
  BY NothingFacts, <1>1, Names DEF SessionSound, HolderSound, SetupSound,
      CleanupSound, LeaseSound, ServerTypes, CallerTypes, NoWork, Holds, Keys,
      ServerEnds, EndSession, clientVars
<1>6. ASSUME s \in Setups PROVE SetupSound(s)'
  BY NothingFacts, <1>1, <1>6, Names DEF SessionSound, HolderSound, SetupSound,
      SetupSteps, Named, Visible, ServerTypes, CallerTypes, NoWork, Holds, Keys,
      ServerEnds, EndSession, clientVars
<1>7. ASSUME s \in Cleanups PROVE CleanupSound(s)'
  BY NothingFacts, <1>1, <1>7, Names DEF SessionSound, HolderSound, CleanupSound,
      CleanupSteps, Named, Visible, ServerTypes, CallerTypes, NoWork, Holds, Keys,
      ServerEnds, EndSession, clientVars
<1>8. ASSUME s = Lease PROVE LeaseSound'
  BY NothingFacts, <1>1, <1>8, Names DEF SessionSound, HolderSound, LeaseSound,
      LeaseSteps, Named, Visible, ServerTypes, CallerTypes, NoWork, Holds, Keys,
      ServerEnds, EndSession, clientVars
<1>9. SessionSound(s)'
  BY <1>5, <1>6, <1>7, <1>8, Names DEF SessionSound
<1>10. UNCHANGED <<catalog, full>>
  BY DEF ServerEnds, EndSession, clientVars
<1> QED
  BY <1>2, <1>3, <1>4, <1>9, <1>10, <1>1, OneMoves

\* Setup: nothing of the names is there.
LEMMA SetupChecksKeeps ==
  ASSUME ResourceInv, NEW u \in Setups, SetupChecks(u)
  PROVE  ResourceInv'
<1>1. ServerTypes /\ CallerTypes /\ SessionSound(u) /\ u \in Sessions
  BY Names DEF ResourceInv
<1>2. ServerTypes'
  BY <1>1, Names DEF ServerTypes, SetupChecks, Query, Go
<1>3. CallerTypes'
  BY <1>1, Names DEF CallerTypes, SetupChecks, Query, Go, SetupSteps, CleanupSteps,
      LeaseSteps
<1>4. \A t \in Sessions \ {u} : SameCaller(t) /\ SameSession(t)
  BY <1>1, Names DEF ServerTypes, CallerTypes, SameCaller, SameSession, Keys,
      SetupChecks, Query, Go
<1>5. HolderSound(u)'
  BY <1>1, Names DEF SessionSound, HolderSound, SetupSound, CleanupSound,
      LeaseSound, ServerTypes, CallerTypes, NoWork, Holds, Keys, SetupChecks, Query,
      Go
<1>6. SetupSound(u)'
  BY <1>1, Names DEF SessionSound, HolderSound, SetupSound, SetupSteps, Named,
      Visible, ServerTypes, CallerTypes, NoWork, Holds, Keys, SetupChecks, Query, Go
<1>7. SessionSound(u)'
  BY <1>5, <1>6, Names DEF SessionSound
<1>8. UNCHANGED <<catalog, full>>
  BY DEF SetupChecks, Query, Go
<1> QED
  BY <1>2, <1>3, <1>4, <1>7, <1>8, <1>1, OneMoves

\* Setup: the tables are altered.
LEMMA SetupAltersKeeps ==
  ASSUME ResourceInv, NEW u \in Setups, SetupAlters(u)
  PROVE  ResourceInv'
<1>1. ServerTypes /\ CallerTypes /\ SessionSound(u) /\ u \in Sessions
  BY Names DEF ResourceInv
<1>2. ServerTypes'
  BY <1>1, Names DEF ServerTypes, SetupAlters, Query, Go
<1>3. CallerTypes'
  BY <1>1, Names DEF CallerTypes, SetupAlters, Query, Go, SetupSteps, CleanupSteps,
      LeaseSteps
<1>4. \A t \in Sessions \ {u} : SameCaller(t) /\ SameSession(t)
  BY <1>1, Names DEF ServerTypes, CallerTypes, SameCaller, SameSession, Keys,
      SetupAlters, Query, Go
<1>5. HolderSound(u)'
  BY <1>1, Names DEF SessionSound, HolderSound, SetupSound, CleanupSound,
      LeaseSound, ServerTypes, CallerTypes, NoWork, Holds, Keys, SetupAlters, Query,
      Go
<1>6. SetupSound(u)'
  BY <1>1, Names DEF SessionSound, HolderSound, SetupSound, SetupSteps, Named,
      Visible, ServerTypes, CallerTypes, NoWork, Holds, Keys, SetupAlters, Query, Go
<1>7. SessionSound(u)'
  BY <1>5, <1>6, Names DEF SessionSound
<1>8. UNCHANGED <<catalog, full>>
  BY DEF SetupAlters, Query, Go
<1> QED
  BY <1>2, <1>3, <1>4, <1>7, <1>8, <1>1, OneMoves

\* Setup: the publication is created.
LEMMA SetupCreatesKeeps ==
  ASSUME ResourceInv, NEW u \in Setups, SetupCreates(u)
  PROVE  ResourceInv'
<1>1. ServerTypes /\ CallerTypes /\ SessionSound(u) /\ u \in Sessions
  BY Names DEF ResourceInv
<1>w. DOMAIN work[u] \subseteq Oids /\ \A q \in DOMAIN work[u] : work[u][q] \in Publication
  BY <1>1, WorkFacts
<1>o. PICK o \in Oids : o \in Fresh /\ Changed(u, o, [name |-> "pub", marker |-> "none", by |-> u])
  BY DEF SetupCreates, Fresh
<1> DEFINE p == [name |-> "pub", marker |-> "none", by |-> u]
<1>q. p \in Publication /\ p.name = "pub" /\ p.by = u /\ p.marker = "none"
  BY DEF Publication
<1>r. /\ work' \in [Sessions -> UNION {[D -> Publication] : D \in SUBSET Oids}]
      /\ DOMAIN work'[u] = DOMAIN work[u] \union {o} /\ work'[u][o] = p
      /\ \A q \in DOMAIN work[u] \ {o} : work'[u][q] = work[u][q]
      /\ \A t \in Sessions \ {u} : work'[t] = work[t]
  BY <1>1, <1>o, <1>q, ChangedFacts
<1> HIDE DEF p
<1>n. NoWork(u) /\ catalog[o] = Unused
  BY <1>1, <1>o DEF SetupCreates, Query, SessionSound, SetupSound, Fresh
<1>a. Named(catalog, "pub") = {}
  BY <1>n DEF SetupCreates, Named, Visible, NoWork
<1>2. ServerTypes'
  BY <1>w, <1>o, <1>q, <1>r, <1>n, <1>a, <1>1, Names DEF ServerTypes, SetupCreates,
      Query, Go
<1>3. CallerTypes'
  BY <1>w, <1>o, <1>q, <1>r, <1>n, <1>a, <1>1, Names DEF CallerTypes, SetupCreates,
      Query, Go, SetupSteps, CleanupSteps, LeaseSteps
<1>4. \A t \in Sessions \ {u} : SameCaller(t) /\ SameSession(t)
  BY <1>w, <1>o, <1>q, <1>r, <1>n, <1>a, <1>1, Names DEF ServerTypes, CallerTypes,
      SameCaller, SameSession, Keys, SetupCreates, Query, Go
<1>5. HolderSound(u)'
  BY <1>w, <1>o, <1>q, <1>r, <1>n, <1>a, <1>1, Names DEF SessionSound, HolderSound,
      SetupSound, CleanupSound, LeaseSound, ServerTypes, CallerTypes, NoWork, Holds,
      Keys, SetupCreates, Query, Go
<1>6. SetupSound(u)'
  BY <1>w, <1>o, <1>q, <1>r, <1>n, <1>a, <1>1, Names DEF SessionSound, HolderSound,
      SetupSound, SetupSteps, Named, Visible, ServerTypes, CallerTypes, NoWork,
      Holds, Keys, SetupCreates, Query, Go
<1>7. SessionSound(u)'
  BY <1>5, <1>6, Names DEF SessionSound
<1>8. UNCHANGED <<catalog, full>>
  BY DEF SetupCreates, Query, Go
<1> QED
  BY <1>2, <1>3, <1>4, <1>7, <1>8, <1>1, OneMoves

\* Setup: the publication is marked.
LEMMA SetupCommentsKeeps ==
  ASSUME ResourceInv, NEW u \in Setups, SetupComments(u)
  PROVE  ResourceInv'
<1>1. ServerTypes /\ CallerTypes /\ SessionSound(u) /\ u \in Sessions
  BY Names DEF ResourceInv
<1>w. DOMAIN work[u] \subseteq Oids /\ \A q \in DOMAIN work[u] : work[u][q] \in Publication
  BY <1>1, WorkFacts
<1>o. PICK o \in Oids : o \in DOMAIN work[u] /\ Changed(u, o, [work[u][o] EXCEPT !.marker = u])
  <2>1. PICK o \in Named(Visible(u), "pub") : Changed(u, o, [Visible(u)[o] EXCEPT !.marker = u])
    BY DEF SetupComments
  <2>2. o \in Oids /\ (o \in DOMAIN work[u] => Visible(u)[o] = work[u][o])
    BY DEF Named, Visible
  <2>3. o \in DOMAIN work[u]
    BY <1>1 DEF SetupComments, Query, SessionSound, SetupSound, Named, Visible,
        NoWork
  <2> QED
    BY <2>1, <2>2, <2>3
<1> DEFINE p == [work[u][o] EXCEPT !.marker = u]
<1>q. p \in Publication /\ p.name = "pub" /\ p.by = u /\ p.marker = u
  <2>1. work[u][o] \in Publication /\ work[u][o].name = "pub" /\ work[u][o].by = u
    BY <1>1, <1>w, <1>o DEF SessionSound, SetupSound
  <2> QED
    BY <2>1 DEF Publication
<1>r. /\ work' \in [Sessions -> UNION {[D -> Publication] : D \in SUBSET Oids}]
      /\ DOMAIN work'[u] = DOMAIN work[u] \union {o} /\ work'[u][o] = p
      /\ \A q \in DOMAIN work[u] \ {o} : work'[u][q] = work[u][q]
      /\ \A t \in Sessions \ {u} : work'[t] = work[t]
  BY <1>1, <1>o, <1>q, ChangedFacts
<1> HIDE DEF p
<1>2. ServerTypes'
  BY <1>w, <1>o, <1>q, <1>r, <1>1, Names DEF ServerTypes, SetupComments, Query, Go
<1>3. CallerTypes'
  BY <1>w, <1>o, <1>q, <1>r, <1>1, Names DEF CallerTypes, SetupComments, Query, Go,
      SetupSteps, CleanupSteps, LeaseSteps
<1>4. \A t \in Sessions \ {u} : SameCaller(t) /\ SameSession(t)
  BY <1>w, <1>o, <1>q, <1>r, <1>1, Names DEF ServerTypes, CallerTypes, SameCaller,
      SameSession, Keys, SetupComments, Query, Go
<1>5. HolderSound(u)'
  BY <1>w, <1>o, <1>q, <1>r, <1>1, Names DEF SessionSound, HolderSound, SetupSound,
      CleanupSound, LeaseSound, ServerTypes, CallerTypes, NoWork, Holds, Keys,
      SetupComments, Query, Go
<1>6. SetupSound(u)'
  BY <1>w, <1>o, <1>q, <1>r, <1>1, Names DEF SessionSound, HolderSound, SetupSound,
      SetupSteps, Named, Visible, ServerTypes, CallerTypes, NoWork, Holds, Keys,
      SetupComments, Query, Go
<1>7. SessionSound(u)'
  BY <1>5, <1>6, Names DEF SessionSound
<1>8. UNCHANGED <<catalog, full>>
  BY DEF SetupComments, Query, Go
<1> QED
  BY <1>2, <1>3, <1>4, <1>7, <1>8, <1>1, OneMoves

\* Setup: the receipt is read.
LEMMA SetupReadsKeeps ==
  ASSUME ResourceInv, NEW u \in Setups, SetupReads(u)
  PROVE  ResourceInv'
<1>1. ServerTypes /\ CallerTypes /\ SessionSound(u) /\ u \in Sessions
  BY Names DEF ResourceInv
<1>o. PICK o \in Oids :
        /\ o \in DOMAIN work[u]
        /\ receipt' = [receipt EXCEPT ![u] = [oid |-> o, marker |-> u]]
  <2>1. PICK o \in Owned(u, u) : receipt' = [receipt EXCEPT ![u] = [oid |-> o, marker |-> u]]
    BY DEF SetupReads
  <2>2. o \in Oids /\ o \in DOMAIN work[u]
    BY <1>1 DEF SetupReads, SessionSound, SetupSound, Owned, Named, Visible, NoWork
  <2> QED
    BY <2>1, <2>2
<1>2. ServerTypes'
  BY <1>o, <1>1, Names DEF ServerTypes, SetupReads, Go, dbVars
<1>3. CallerTypes'
  BY <1>o, <1>1, Names DEF CallerTypes, SetupReads, Go, dbVars, SetupSteps,
      CleanupSteps, LeaseSteps
<1>4. \A t \in Sessions \ {u} : SameCaller(t) /\ SameSession(t)
  BY <1>o, <1>1, Names DEF ServerTypes, CallerTypes, SameCaller, SameSession, Keys,
      SetupReads, Go, dbVars
<1>5. HolderSound(u)'
  BY <1>o, <1>1, Names DEF SessionSound, HolderSound, SetupSound, CleanupSound,
      LeaseSound, ServerTypes, CallerTypes, NoWork, Holds, Keys, SetupReads, Go,
      dbVars
<1>6. SetupSound(u)'
  BY <1>o, <1>1, Names DEF SessionSound, HolderSound, SetupSound, SetupSteps, Named,
      Visible, ServerTypes, CallerTypes, NoWork, Holds, Keys, SetupReads, Go, dbVars
<1>7. SessionSound(u)'
  BY <1>5, <1>6, Names DEF SessionSound
<1>8. UNCHANGED <<catalog, full>>
  BY DEF SetupReads, Go, dbVars
<1> QED
  BY <1>2, <1>3, <1>4, <1>7, <1>8, <1>1, OneMoves

\* Setup: COMMIT is sent.
LEMMA SetupSendsKeeps ==
  ASSUME ResourceInv, NEW u \in Setups, SendCommit(u, "read")
  PROVE  ResourceInv'
<1>1. ServerTypes /\ CallerTypes /\ SessionSound(u) /\ u \in Sessions
  BY Names DEF ResourceInv
<1>2. ServerTypes'
  BY <1>1, Names DEF ServerTypes, SendCommit, Go
<1>3. CallerTypes'
  BY <1>1, Names DEF CallerTypes, SendCommit, Go, SetupSteps, CleanupSteps,
      LeaseSteps
<1>4. \A t \in Sessions \ {u} : SameCaller(t) /\ SameSession(t)
  BY <1>1, Names DEF ServerTypes, CallerTypes, SameCaller, SameSession, Keys,
      SendCommit, Go
<1>5. HolderSound(u)'
  BY <1>1, Names DEF SessionSound, HolderSound, SetupSound, CleanupSound,
      LeaseSound, ServerTypes, CallerTypes, NoWork, Holds, Keys, SendCommit, Go
<1>6. SetupSound(u)'
  BY <1>1, Names DEF SessionSound, HolderSound, SetupSound, SetupSteps, Named,
      Visible, ServerTypes, CallerTypes, NoWork, Holds, Keys, SendCommit, Go
<1>7. SessionSound(u)'
  BY <1>5, <1>6, Names DEF SessionSound
<1>8. UNCHANGED <<catalog, full>>
  BY DEF SendCommit, Go
<1> QED
  BY <1>2, <1>3, <1>4, <1>7, <1>8, <1>1, OneMoves

\* Setup: COMMIT is answered.
LEMMA SetupCommittedKeeps ==
  ASSUME ResourceInv, NEW u \in Setups, Committed(u, "receipt")
  PROVE  ResourceInv'
<1>1. ServerTypes /\ CallerTypes /\ SessionSound(u) /\ u \in Sessions
  BY Names DEF ResourceInv
<1>2. ServerTypes'
  BY <1>1, Names DEF ServerTypes, Committed, Settle, Go, dbVars
<1>3. CallerTypes'
  BY <1>1, Names DEF CallerTypes, Committed, Settle, Go, dbVars, SetupSteps,
      CleanupSteps, LeaseSteps
<1>4. \A t \in Sessions \ {u} : SameCaller(t) /\ SameSession(t)
  BY <1>1, Names DEF ServerTypes, CallerTypes, SameCaller, SameSession, Keys,
      Committed, Settle, Go, dbVars
<1>5. HolderSound(u)'
  BY <1>1, Names DEF SessionSound, HolderSound, SetupSound, CleanupSound,
      LeaseSound, ServerTypes, CallerTypes, NoWork, Holds, Keys, Committed, Settle,
      Go, dbVars
<1>6. SetupSound(u)'
  BY <1>1, Names DEF SessionSound, HolderSound, SetupSound, SetupSteps, Named,
      Visible, ServerTypes, CallerTypes, NoWork, Holds, Keys, Committed, Settle, Go,
      dbVars
<1>7. SessionSound(u)'
  BY <1>5, <1>6, Names DEF SessionSound
<1>8. UNCHANGED <<catalog, full>>
  BY DEF Committed, Settle, Go, dbVars
<1> QED
  BY <1>2, <1>3, <1>4, <1>7, <1>8, <1>1, OneMoves

\* A setup of uncertain end is looked for.
LEMMA InspectKeeps ==
  ASSUME ResourceInv, NEW u \in Setups, Inspect(u)
  PROVE  ResourceInv'
<1>1. ServerTypes /\ CallerTypes /\ SessionSound(u) /\ u \in Sessions
  BY Names DEF ResourceInv
<1>o. PICK o \in Oids :
        /\ catalog[o].marker = u
        /\ receipt' = [receipt EXCEPT ![u] = [oid |-> o, marker |-> u]]
  BY DEF Inspect, Named
<1>p. catalog[o].by = u
  BY <1>o DEF ResourceInv, CatalogSound
<1>2. ServerTypes'
  BY <1>o, <1>p, <1>1, Names DEF ServerTypes, Inspect, dbVars
<1>3. CallerTypes'
  BY <1>o, <1>p, <1>1, Names DEF CallerTypes, Inspect
<1>4. \A t \in Sessions \ {u} : SameCaller(t) /\ SameSession(t)
  BY <1>o, <1>p, <1>1, Names DEF ServerTypes, CallerTypes, SameCaller, SameSession,
      Keys, Inspect, dbVars
<1>5. HolderSound(u)'
  BY <1>o, <1>p, <1>1, Names DEF SessionSound, HolderSound, SetupSound,
      CleanupSound, LeaseSound, ServerTypes, CallerTypes, NoWork, Holds, Keys,
      Inspect, dbVars
<1>6. SetupSound(u)'
  BY <1>o, <1>p, <1>1, Names DEF SessionSound, HolderSound, SetupSound, SetupSteps,
      Named, Visible, ServerTypes, CallerTypes, NoWork, Holds, Keys, Inspect, dbVars
<1>7. SessionSound(u)'
  BY <1>5, <1>6, Names DEF SessionSound
<1>8. UNCHANGED <<catalog, full>>
  BY DEF Inspect, dbVars
<1> QED
  BY <1>2, <1>3, <1>4, <1>7, <1>8, <1>1, OneMoves

\* Cleanup: there is no slot.
LEMMA CleanupChecksKeeps ==
  ASSUME ResourceInv, NEW c \in Cleanups, CleanupChecksSlot(c)
  PROVE  ResourceInv'
<1>1. ServerTypes /\ CallerTypes /\ SessionSound(c) /\ c \in Sessions
  BY Names DEF ResourceInv
<1>2. ServerTypes'
  BY <1>1, Names DEF ServerTypes, CleanupChecksSlot, Query, Go
<1>3. CallerTypes'
  BY <1>1, Names DEF CallerTypes, CleanupChecksSlot, Query, Go, SetupSteps,
      CleanupSteps, LeaseSteps
<1>4. \A t \in Sessions \ {c} : SameCaller(t) /\ SameSession(t)
  BY <1>1, Names DEF ServerTypes, CallerTypes, SameCaller, SameSession, Keys,
      CleanupChecksSlot, Query, Go
<1>5. HolderSound(c)'
  BY <1>1, Names DEF SessionSound, HolderSound, SetupSound, CleanupSound,
      LeaseSound, ServerTypes, CallerTypes, NoWork, Holds, Keys, CleanupChecksSlot,
      Query, Go
<1>6. CleanupSound(c)'
  BY <1>1, Names DEF SessionSound, HolderSound, CleanupSound, CleanupSteps, Named,
      Visible, ServerTypes, CallerTypes, NoWork, Holds, Keys, CleanupChecksSlot,
      Query, Go
<1>7. SessionSound(c)'
  BY <1>5, <1>6, Names DEF SessionSound
<1>8. UNCHANGED <<catalog, full>>
  BY DEF CleanupChecksSlot, Query, Go
<1> QED
  BY <1>2, <1>3, <1>4, <1>7, <1>8, <1>1, OneMoves

\* Cleanup: the publication of the receipt is there, or gone.
LEMMA CleanupFindsKeeps ==
  ASSUME ResourceInv, NEW c \in Cleanups, CleanupFinds(c)
  PROVE  ResourceInv'
<1>1. ServerTypes /\ CallerTypes /\ SessionSound(c) /\ c \in Sessions
  BY Names DEF ResourceInv
<1>n. NoWork(c) /\ receipt[c].oid \in Oids
  BY <1>1 DEF CleanupFinds, SessionSound, CleanupSound
<1>a. step'[c] = "absent" => catalog[receipt[c].oid].name = "dropped"
  <2>1. \A o \in Oids : Visible(c)[o] = catalog[o]
    BY <1>n DEF Visible, NoWork
  <2> QED
    BY <1>1, <1>n, <2>1 DEF CleanupFinds, Query, Go, CallerTypes
<1>2. ServerTypes'
  BY <1>n, <1>a, <1>1, Names DEF ServerTypes, CleanupFinds, Query, Go
<1>3. CallerTypes'
  BY <1>n, <1>a, <1>1, Names DEF CallerTypes, CleanupFinds, Query, Go, SetupSteps,
      CleanupSteps, LeaseSteps
<1>4. \A t \in Sessions \ {c} : SameCaller(t) /\ SameSession(t)
  BY <1>n, <1>a, <1>1, Names DEF ServerTypes, CallerTypes, SameCaller, SameSession,
      Keys, CleanupFinds, Query, Go
<1>5. HolderSound(c)'
  BY <1>n, <1>a, <1>1, Names DEF SessionSound, HolderSound, SetupSound,
      CleanupSound, LeaseSound, ServerTypes, CallerTypes, NoWork, Holds, Keys,
      CleanupFinds, Query, Go
<1>6. CleanupSound(c)'
  BY <1>n, <1>a, <1>1, Names DEF SessionSound, HolderSound, CleanupSound,
      CleanupSteps, Named, Visible, ServerTypes, CallerTypes, NoWork, Holds, Keys,
      CleanupFinds, Query, Go
<1>7. SessionSound(c)'
  BY <1>5, <1>6, Names DEF SessionSound
<1>8. UNCHANGED <<catalog, full>>
  BY DEF CleanupFinds, Query, Go
<1> QED
  BY <1>2, <1>3, <1>4, <1>7, <1>8, <1>1, OneMoves

\* Cleanup: whatever has the name now is renamed.
LEMMA CleanupRenamesKeeps ==
  ASSUME ResourceInv, NEW c \in Cleanups, CleanupRenames(c)
  PROVE  ResourceInv'
<1>1. ServerTypes /\ CallerTypes /\ SessionSound(c) /\ c \in Sessions
  BY Names DEF ResourceInv
<1>w. DOMAIN work[c] \subseteq Oids /\ \A q \in DOMAIN work[c] : work[c][q] \in Publication
  BY <1>1, WorkFacts
<1>o. PICK o \in Oids :
        /\ catalog[o].name = "pub"
        /\ Changed(c, o, [catalog[o] EXCEPT !.name = "temporary"])
  <2>1. PICK o \in Named(Visible(c), "pub") :
          Changed(c, o, [Visible(c)[o] EXCEPT !.name = "temporary"])
    BY DEF CleanupRenames
  <2>2. NoWork(c)
    BY <1>1 DEF CleanupRenames, Query, SessionSound, CleanupSound
  <2>3. o \in Oids /\ Visible(c)[o] = catalog[o] /\ Visible(c)[o].name = "pub"
    BY <2>2 DEF Named, Visible, NoWork
  <2> QED
    BY <2>1, <2>3
<1> DEFINE p == [catalog[o] EXCEPT !.name = "temporary"]
<1>q. /\ p \in Publication /\ p.name = "temporary"
      /\ p.by = catalog[o].by /\ p.marker = catalog[o].marker
  <2>1. catalog[o] \in Publication
    BY <1>1, <1>o DEF ServerTypes
  <2> QED
    BY <2>1 DEF Publication
<1>r. /\ work' \in [Sessions -> UNION {[D -> Publication] : D \in SUBSET Oids}]
      /\ DOMAIN work'[c] = DOMAIN work[c] \union {o} /\ work'[c][o] = p
      /\ \A q \in DOMAIN work[c] \ {o} : work'[c][q] = work[c][q]
      /\ \A t \in Sessions \ {c} : work'[t] = work[t]
  BY <1>1, <1>o, <1>q, ChangedFacts
<1> HIDE DEF p
<1>2. ServerTypes'
  BY <1>w, <1>o, <1>q, <1>r, <1>1, Names DEF ServerTypes, CleanupRenames, Query, Go
<1>3. CallerTypes'
  BY <1>w, <1>o, <1>q, <1>r, <1>1, Names DEF CallerTypes, CleanupRenames, Query, Go,
      SetupSteps, CleanupSteps, LeaseSteps
<1>4. \A t \in Sessions \ {c} : SameCaller(t) /\ SameSession(t)
  BY <1>w, <1>o, <1>q, <1>r, <1>1, Names DEF ServerTypes, CallerTypes, SameCaller,
      SameSession, Keys, CleanupRenames, Query, Go
<1>5. HolderSound(c)'
  BY <1>w, <1>o, <1>q, <1>r, <1>1, Names DEF SessionSound, HolderSound, SetupSound,
      CleanupSound, LeaseSound, ServerTypes, CallerTypes, NoWork, Holds, Keys,
      CleanupRenames, Query, Go
<1>6. CleanupSound(c)'
  BY <1>w, <1>o, <1>q, <1>r, <1>1, Names DEF SessionSound, HolderSound,
      CleanupSound, CleanupSteps, Named, Visible, ServerTypes, CallerTypes, NoWork,
      Holds, Keys, CleanupRenames, Query, Go
<1>7. SessionSound(c)'
  BY <1>5, <1>6, Names DEF SessionSound
<1>8. UNCHANGED <<catalog, full>>
  BY DEF CleanupRenames, Query, Go
<1> QED
  BY <1>2, <1>3, <1>4, <1>7, <1>8, <1>1, OneMoves

\* Cleanup: what was renamed is that of the receipt, and dropped.
LEMMA CleanupDropsKeeps ==
  ASSUME ResourceInv, NEW c \in Cleanups, CleanupDrops(c)
  PROVE  ResourceInv'
<1>1. ServerTypes /\ CallerTypes /\ SessionSound(c) /\ c \in Sessions
  BY Names DEF ResourceInv
<1>w. DOMAIN work[c] \subseteq Oids /\ \A q \in DOMAIN work[c] : work[c][q] \in Publication
  BY <1>1, WorkFacts
<1>o. PICK o \in Oids :
        /\ o \in DOMAIN work[c] /\ o = receipt[c].oid
        /\ work[c][o].marker = receipt[c].marker
        /\ Changed(c, o, [work[c][o] EXCEPT !.name = "dropped"])
  <2>1. PICK o \in Named(Visible(c), "temporary") :
          LockedIsOwned(c, o) /\ Changed(c, o, [Visible(c)[o] EXCEPT !.name = "dropped"])
    BY DEF CleanupDrops
  <2>2. o \in DOMAIN work[c] /\ o \in Oids /\ Visible(c)[o] = work[c][o]
    BY DEF ResourceInv, CatalogSound, Named, Visible
  <2> QED
    BY <2>1, <2>2 DEF LockedIsOwned
<1> DEFINE p == [work[c][o] EXCEPT !.name = "dropped"]
<1>q. /\ p \in Publication /\ p.name = "dropped" /\ p.by = catalog[o].by
      /\ p.marker = catalog[o].marker /\ p.marker = receipt[c].marker
  <2>1. /\ work[c][o] \in Publication /\ work[c][o].by = catalog[o].by
        /\ work[c][o].marker = catalog[o].marker
    BY <1>1, <1>w, <1>o DEF SessionSound, CleanupSound
  <2> QED
    BY <2>1, <1>o DEF Publication
<1>r. /\ work' \in [Sessions -> UNION {[D -> Publication] : D \in SUBSET Oids}]
      /\ DOMAIN work'[c] = DOMAIN work[c] \union {o} /\ work'[c][o] = p
      /\ \A q \in DOMAIN work[c] \ {o} : work'[c][q] = work[c][q]
      /\ \A t \in Sessions \ {c} : work'[t] = work[t]
  BY <1>1, <1>o, <1>q, ChangedFacts
<1> HIDE DEF p
<1>2. ServerTypes'
  BY <1>w, <1>o, <1>q, <1>r, <1>1, Names DEF ServerTypes, CleanupDrops, Query, Go
<1>3. CallerTypes'
  BY <1>w, <1>o, <1>q, <1>r, <1>1, Names DEF CallerTypes, CleanupDrops, Query, Go,
      SetupSteps, CleanupSteps, LeaseSteps
<1>4. \A t \in Sessions \ {c} : SameCaller(t) /\ SameSession(t)
  BY <1>w, <1>o, <1>q, <1>r, <1>1, Names DEF ServerTypes, CallerTypes, SameCaller,
      SameSession, Keys, CleanupDrops, Query, Go
<1>5. HolderSound(c)'
  BY <1>w, <1>o, <1>q, <1>r, <1>1, Names DEF SessionSound, HolderSound, SetupSound,
      CleanupSound, LeaseSound, ServerTypes, CallerTypes, NoWork, Holds, Keys,
      CleanupDrops, Query, Go
<1>6. CleanupSound(c)'
  BY <1>w, <1>o, <1>q, <1>r, <1>1, Names DEF SessionSound, HolderSound,
      CleanupSound, CleanupSteps, Named, Visible, ServerTypes, CallerTypes, NoWork,
      Holds, Keys, CleanupDrops, Query, Go
<1>7. SessionSound(c)'
  BY <1>5, <1>6, Names DEF SessionSound
<1>8. UNCHANGED <<catalog, full>>
  BY DEF CleanupDrops, Query, Go
<1> QED
  BY <1>2, <1>3, <1>4, <1>7, <1>8, <1>1, OneMoves

\* Cleanup: it was gone.
LEMMA CleanupFindsNothingKeeps ==
  ASSUME ResourceInv, NEW c \in Cleanups, CleanupFindsNothing(c)
  PROVE  ResourceInv'
<1>1. ServerTypes /\ CallerTypes /\ SessionSound(c) /\ c \in Sessions
  BY Names DEF ResourceInv
<1>2. ServerTypes'
  BY <1>1, Names DEF ServerTypes, CleanupFindsNothing, Settle, Go, dbVars
<1>3. CallerTypes'
  BY <1>1, Names DEF CallerTypes, CleanupFindsNothing, Settle, Go, dbVars,
      SetupSteps, CleanupSteps, LeaseSteps
<1>4. \A t \in Sessions \ {c} : SameCaller(t) /\ SameSession(t)
  BY <1>1, Names DEF ServerTypes, CallerTypes, SameCaller, SameSession, Keys,
      CleanupFindsNothing, Settle, Go, dbVars
<1>5. HolderSound(c)'
  BY <1>1, Names DEF SessionSound, HolderSound, SetupSound, CleanupSound,
      LeaseSound, ServerTypes, CallerTypes, NoWork, Holds, Keys,
      CleanupFindsNothing, Settle, Go, dbVars
<1>6. CleanupSound(c)'
  BY <1>1, Names DEF SessionSound, HolderSound, CleanupSound, CleanupSteps, Named,
      Visible, ServerTypes, CallerTypes, NoWork, Holds, Keys, CleanupFindsNothing,
      Settle, Go, dbVars
<1>7. SessionSound(c)'
  BY <1>5, <1>6, Names DEF SessionSound
<1>8. UNCHANGED <<catalog, full>>
  BY DEF CleanupFindsNothing, Settle, Go, dbVars
<1> QED
  BY <1>2, <1>3, <1>4, <1>7, <1>8, <1>1, OneMoves

\* Cleanup: COMMIT is sent.
LEMMA CleanupSendsKeeps ==
  ASSUME ResourceInv, NEW c \in Cleanups, SendCommit(c, "dropped")
  PROVE  ResourceInv'
<1>1. ServerTypes /\ CallerTypes /\ SessionSound(c) /\ c \in Sessions
  BY Names DEF ResourceInv
<1>2. ServerTypes'
  BY <1>1, Names DEF ServerTypes, SendCommit, Go
<1>3. CallerTypes'
  BY <1>1, Names DEF CallerTypes, SendCommit, Go, SetupSteps, CleanupSteps,
      LeaseSteps
<1>4. \A t \in Sessions \ {c} : SameCaller(t) /\ SameSession(t)
  BY <1>1, Names DEF ServerTypes, CallerTypes, SameCaller, SameSession, Keys,
      SendCommit, Go
<1>5. HolderSound(c)'
  BY <1>1, Names DEF SessionSound, HolderSound, SetupSound, CleanupSound,
      LeaseSound, ServerTypes, CallerTypes, NoWork, Holds, Keys, SendCommit, Go
<1>6. CleanupSound(c)'
  BY <1>1, Names DEF SessionSound, HolderSound, CleanupSound, CleanupSteps, Named,
      Visible, ServerTypes, CallerTypes, NoWork, Holds, Keys, SendCommit, Go
<1>7. SessionSound(c)'
  BY <1>5, <1>6, Names DEF SessionSound
<1>8. UNCHANGED <<catalog, full>>
  BY DEF SendCommit, Go
<1> QED
  BY <1>2, <1>3, <1>4, <1>7, <1>8, <1>1, OneMoves

\* Cleanup: COMMIT is answered.
LEMMA CleanupCommittedKeeps ==
  ASSUME ResourceInv, NEW c \in Cleanups, Committed(c, "removed")
  PROVE  ResourceInv'
<1>1. ServerTypes /\ CallerTypes /\ SessionSound(c) /\ c \in Sessions
  BY Names DEF ResourceInv
<1>2. ServerTypes'
  BY <1>1, Names DEF ServerTypes, Committed, Settle, Go, dbVars
<1>3. CallerTypes'
  BY <1>1, Names DEF CallerTypes, Committed, Settle, Go, dbVars, SetupSteps,
      CleanupSteps, LeaseSteps
<1>4. \A t \in Sessions \ {c} : SameCaller(t) /\ SameSession(t)
  BY <1>1, Names DEF ServerTypes, CallerTypes, SameCaller, SameSession, Keys,
      Committed, Settle, Go, dbVars
<1>5. HolderSound(c)'
  BY <1>1, Names DEF SessionSound, HolderSound, SetupSound, CleanupSound,
      LeaseSound, ServerTypes, CallerTypes, NoWork, Holds, Keys, Committed, Settle,
      Go, dbVars
<1>6. CleanupSound(c)'
  BY <1>1, Names DEF SessionSound, HolderSound, CleanupSound, CleanupSteps, Named,
      Visible, ServerTypes, CallerTypes, NoWork, Holds, Keys, Committed, Settle, Go,
      dbVars
<1>7. SessionSound(c)'
  BY <1>5, <1>6, Names DEF SessionSound
<1>8. UNCHANGED <<catalog, full>>
  BY DEF Committed, Settle, Go, dbVars
<1> QED
  BY <1>2, <1>3, <1>4, <1>7, <1>8, <1>1, OneMoves

-----------------------------------------------------------------------------
(* Commits                                                                   *)

\* Only one session has changed anything.
LEMMA OneHolder ==
  ASSUME ResourceInv, NEW s \in Sessions, NEW t \in Sessions, s # t, Holds(s)
  PROVE  NoWork(t) /\ t \notin sent /\ tables # t /\ ~Holds(t)
<1>1. ~Holds(t)
  BY DEF Holds, Keys
<1> QED
  BY <1>1 DEF ResourceInv, SessionSound, HolderSound

\* Who has sent a COMMIT holds the locks, and is not the lease.
LEMMA SentHolds ==
  ASSUME ResourceInv, NEW s \in Sessions, s \in sent
  PROVE  /\ Holds(s) /\ s \in Setups \union Cleanups /\ HolderSound(s)
         /\ s \in Setups => SetupSound(s)
         /\ s \in Cleanups => CleanupSound(s)
  BY Names DEF ResourceInv, SessionSound, HolderSound, LeaseSound, Sessions

\* What is committed is what the session has changed: a new publication, marked,
\* or the removal of one.
LEMMA CommitFacts ==
  ASSUME ResourceInv, NEW s \in Sessions, ServerCommits(s)
  PROVE  /\ catalog' \in [Oids -> Publication]
         /\ \A o \in Oids \ DOMAIN work[s] : catalog'[o] = catalog[o]
         /\ \A o \in DOMAIN work[s] : o \in Oids /\ catalog'[o] = work[s][o]
         /\ \A o \in DOMAIN work[s] : s \in Setups =>
              /\ catalog[o] = Unused
              /\ catalog'[o].name = "pub" /\ catalog'[o].by = s /\ catalog'[o].marker = s
         /\ \A o \in DOMAIN work[s] : s \in Cleanups =>
              /\ catalog[o].name = "pub" /\ o = receipt[s].oid
              /\ catalog'[o].name = "dropped" /\ catalog'[o].by = catalog[o].by
              /\ catalog'[o].marker = catalog[o].marker /\ catalog'[o].marker = receipt[s].marker
<1>1. s \in sent /\ catalog' = Visible(s)
  BY DEF ServerCommits
<1>2. ServerTypes
  BY DEF ResourceInv
<1>3. DOMAIN work[s] \subseteq Oids
  BY <1>2, WorkFacts
<1>4. /\ catalog' \in [Oids -> Publication]
      /\ \A o \in Oids \ DOMAIN work[s] : catalog'[o] = catalog[o]
      /\ \A o \in DOMAIN work[s] : o \in Oids /\ catalog'[o] = work[s][o]
  BY <1>1, <1>2, <1>3, VisibleFacts
<1>5. ASSUME NEW o \in DOMAIN work[s], s \in Setups
      PROVE  /\ catalog[o] = Unused
             /\ catalog'[o].name = "pub" /\ catalog'[o].by = s /\ catalog'[o].marker = s
  BY <1>1, <1>4, <1>5, SentHolds DEF SetupSound
<1>6. ASSUME NEW o \in DOMAIN work[s], s \in Cleanups
      PROVE  /\ catalog[o].name = "pub" /\ o = receipt[s].oid
             /\ catalog'[o].name = "dropped" /\ catalog'[o].by = catalog[o].by
             /\ catalog'[o].marker = catalog[o].marker /\ catalog'[o].marker = receipt[s].marker
  <2>1. HolderSound(s) /\ CleanupSound(s)
    BY <1>1, <1>6, SentHolds
  <2>2. o = receipt[s].oid
    BY <1>1, <2>1 DEF HolderSound, CleanupSound
  <2> QED
    BY <1>1, <1>4, <2>1, <2>2 DEF CleanupSound
<1> QED
  BY <1>4, <1>5, <1>6

\* COMMIT is executed.
LEMMA CommitKeeps ==
  ASSUME ResourceInv, NEW s \in Sessions, ServerCommits(s)
  PROVE  ResourceInv'
<1>1. ServerTypes /\ CallerTypes /\ CatalogSound /\ s \in sent
  BY DEF ResourceInv, ServerCommits
<1>2. /\ Holds(s) /\ s \in Setups \union Cleanups /\ HolderSound(s)
      /\ s \in Setups => SetupSound(s)
      /\ s \in Cleanups => CleanupSound(s)
  BY <1>1, SentHolds
<1>3. \A t \in Sessions \ {s} : NoWork(t) /\ t \notin sent /\ tables # t
  BY <1>2, OneHolder
<1>4. catalog' \in [Oids -> Publication]
  BY CommitFacts
<1>5. \A o \in Oids \ DOMAIN work[s] : catalog'[o] = catalog[o]
  BY CommitFacts
<1>6. \A o \in DOMAIN work[s] : s \in Setups =>
        /\ o \in Oids /\ catalog[o] = Unused
        /\ catalog'[o].name = "pub" /\ catalog'[o].by = s /\ catalog'[o].marker = s
  BY CommitFacts
<1>7. \A o \in DOMAIN work[s] : s \in Cleanups =>
        /\ o \in Oids /\ catalog[o].name = "pub" /\ o = receipt[s].oid
        /\ catalog'[o].name = "dropped" /\ catalog'[o].by = catalog[o].by
        /\ catalog'[o].marker = catalog[o].marker
  BY CommitFacts
<1>8. ServerTypes'
  BY <1>1, <1>4, Names, NothingFacts DEF ServerTypes, ServerCommits
<1>9. CallerTypes'
  BY <1>1 DEF CallerTypes, ServerCommits, SetupSteps, CleanupSteps, LeaseSteps
<1>10. \A o \in Oids :
         /\ catalog[o].by \in Setups => catalog'[o].by = catalog[o].by
         /\ catalog[o].name = "dropped" => catalog'[o].name = "dropped"
  BY <1>2, <1>5, <1>6, <1>7, Names DEF Unused
<1>11. \A t \in Sessions \ {s} : SameCaller(t) /\ SameSession(t)
  BY <1>1, <1>3, Names DEF ServerTypes, CallerTypes, ServerCommits, SameCaller,
      SameSession
<1>12. \A t \in Sessions \ {s} : CatalogKeeps(t)
  BY <1>3, <1>10 DEF CatalogKeeps, NoWork
<1>13. \A t \in Sessions \ {s} : SessionSound(t)'
  BY <1>1, <1>11, <1>12, OtherSound DEF ResourceInv
<1>14. CatalogSound'
  <2>1. \A o \in Oids : catalog'[o].name # "temporary"
    BY <1>1, <1>2, <1>5, <1>6, <1>7 DEF CatalogSound
  <2>2. ASSUME NEW o \in Oids, NEW p \in Oids, catalog'[o].name = "pub", catalog'[p].name = "pub"
        PROVE  o = p
    <3>1. CASE s \in Setups
      <4>1. NoWork(s) \/ Named(catalog, "pub") = {}
        BY <1>2, <3>1 DEF SetupSound
      <4>2. CASE NoWork(s)
        BY <1>1, <1>5, <2>2, <4>2 DEF CatalogSound, Named, NoWork
      <4>3. CASE Named(catalog, "pub") = {}
        BY <1>2, <1>5, <2>2, <4>3 DEF HolderSound, Named
      <4> QED
        BY <4>1, <4>2, <4>3
    <3>2. CASE s \in Cleanups
      <4>1. o \notin DOMAIN work[s] /\ p \notin DOMAIN work[s]
        BY <1>7, <2>2, <3>2
      <4> QED
        BY <1>1, <1>5, <2>2, <4>1 DEF CatalogSound, Named
    <3> QED
      BY <1>2, <3>1, <3>2
  <2>3. ASSUME NEW o \in Oids
        PROVE  /\ catalog'[o].by \in Setups =>
                    catalog'[o].marker \in {catalog'[o].by, Others} /\ full'
               /\ catalog'[o].marker \in Setups => catalog'[o].by = catalog'[o].marker
    <3>1. full => full'
      BY DEF ServerCommits
    <3>2. CASE o \notin DOMAIN work[s]
      BY <1>1, <1>5, <3>1, <3>2 DEF CatalogSound
    <3>3. CASE o \in DOMAIN work[s] /\ s \in Setups
      <4>1. tables = s
        BY <1>2, <3>3 DEF SetupSound, NoWork
      <4> QED
        BY <1>6, <3>3, <4>1 DEF ServerCommits
    <3>4. CASE o \in DOMAIN work[s] /\ s \in Cleanups
      BY <1>1, <1>7, <3>1, <3>4 DEF CatalogSound
    <3> QED
      BY <1>2, <3>2, <3>3, <3>4
  <2> QED
    BY <2>1, <2>2, <2>3 DEF CatalogSound, Named
<1>15. SessionSound(s)'
  <2>1. DOMAIN work'[s] = {} /\ s \notin sent' /\ tables' # s
    BY <1>1, Names, NothingFacts DEF ServerTypes, ServerCommits
  <2>2. step'[s] \in {"committed", "settled"} /\ (step'[s] = "committed" => step[s] = "committing")
    BY <1>1, <1>2 DEF CallerTypes, ServerCommits, HolderSound
  <2>3. UNCHANGED <<receipt, outcome, conn, locks>>
    BY DEF ServerCommits
  <2>4. HolderSound(s)'
    BY <1>1, <1>2, <2>1, <2>2, <2>3 DEF HolderSound, NoWork, Holds, ServerTypes
  <2>5. ASSUME s \in Setups PROVE SetupSound(s)'
    <3>1. SetupSound(s)
      BY <1>2, <2>5
    <3>2. step'[s] = "committed" => receipt[s].oid \in DOMAIN work[s]
      BY <2>2, <3>1 DEF SetupSound
    <3>3. step'[s] = "committed" => receipt[s].oid \in Oids /\ catalog'[receipt[s].oid].by = s
      BY <1>6, <2>5, <3>2
    <3>4. outcome[s] = "receipt" => receipt[s].oid \in Oids /\ catalog'[receipt[s].oid].by = s
      BY <1>10, <2>5, <3>1 DEF SetupSound
    <3>5. step'[s] = "committed" => s \in conn
      BY <2>2, <3>1 DEF SetupSound
    <3> QED
      BY <2>1, <2>2, <2>3, <3>3, <3>4, <3>5 DEF SetupSound, SetupSteps, NoWork
  <2>6. ASSUME s \in Cleanups PROVE CleanupSound(s)'
    <3>1. CleanupSound(s)
      BY <1>2, <2>6
    <3>2. receipt[s].oid \in DOMAIN work[s]
      BY <1>1, <3>1 DEF CleanupSound
    <3>3. receipt[s].oid \in Oids /\ catalog'[receipt[s].oid].name = "dropped"
      BY <1>7, <2>6, <3>2
    <3>4. step'[s] = "committed" => s \in conn
      BY <2>2, <3>1 DEF CleanupSound
    <3> QED
      BY <2>1, <2>2, <2>3, <3>3, <3>4 DEF CleanupSound, CleanupSteps, NoWork
  <2>7. s # Lease
    BY <1>2, Names
  <2> QED
    BY <2>4, <2>5, <2>6, <2>7 DEF SessionSound
<1> QED
  BY <1>8, <1>9, <1>13, <1>14, <1>15 DEF ResourceInv

-----------------------------------------------------------------------------
(* Administrators and the lease                                              *)

\* Others change the catalog.
LEMMA CatalogMoves ==
  ASSUME ResourceInv, UNCHANGED clientVars, UNCHANGED <<work, full, tables, locks, sent, conn>>,
         catalog' \in [Oids -> Publication], CatalogSound', \A t \in Sessions : CatalogKeeps(t)
  PROVE  ResourceInv'
<1>1. \A t \in Sessions : SameCaller(t) /\ SameSession(t)
  BY DEF SameCaller, SameSession, clientVars
<1>2. \A t \in Sessions : SessionSound(t)'
  BY <1>1, OtherSound DEF ResourceInv
<1>3. ServerTypes' /\ CallerTypes'
  BY DEF ResourceInv, ServerTypes, CallerTypes, clientVars
<1> QED
  BY <1>2, <1>3 DEF ResourceInv

\* An administrator drops, renames or marks the publication.
LEMMA AlteredKeeps ==
  ASSUME ResourceInv, UNCHANGED clientVars, NEW o \in Named(catalog, "pub"),
         \A s \in Sessions : o \notin DOMAIN work[s],
         \/ Meddle([catalog EXCEPT ![o].name = "dropped"])
         \/ Meddle([catalog EXCEPT ![o].name = "renamed"])
         \/ Meddle([catalog EXCEPT ![o].marker = Others])
  PROVE  ResourceInv'
<1>1. CatalogSound /\ catalog \in [Oids -> Publication] /\ o \in Oids /\ catalog[o].name = "pub"
  BY DEF ResourceInv, ServerTypes, Named
<1>2. /\ catalog' \in [Oids -> Publication]
      /\ \A p \in Oids \ {o} : catalog'[p] = catalog[p]
      /\ catalog'[o].by = catalog[o].by
      /\ \/ catalog'[o].name \in {"dropped", "renamed"} /\ catalog'[o].marker = catalog[o].marker
         \/ catalog'[o].name = "pub" /\ catalog'[o].marker = Others
  BY <1>1 DEF Meddle, Publication
<1>3. CatalogSound'
  BY <1>1, <1>2, Names DEF CatalogSound, Named, Meddle, Sessions
<1>4. \A t \in Sessions : DOMAIN work[t] \subseteq Oids
  BY WorkFacts DEF ResourceInv
<1>5. \A t \in Sessions : CatalogKeeps(t)
  BY <1>1, <1>2, <1>4 DEF CatalogKeeps, Named
<1> QED
  BY <1>2, <1>3, <1>5, CatalogMoves DEF Meddle

\* One that replaces the publication, or makes one of that name.
LEMMA MadeKeeps ==
  ASSUME ResourceInv, UNCHANGED clientVars, NEW p \in Fresh,
         \/ \E o \in Named(catalog, "pub") :
              /\ \A s \in Sessions : o \notin DOMAIN work[s]
              /\ Meddle([catalog EXCEPT ![o].name = "dropped", ![p] = Theirs])
         \/ /\ Named(catalog, "pub") = {} /\ NameFree(Others, "pub")
            /\ Meddle([catalog EXCEPT ![p] = Theirs])
  PROVE  ResourceInv'
<1>1. /\ CatalogSound /\ catalog \in [Oids -> Publication]
      /\ p \in Oids /\ catalog[p] = Unused /\ \A s \in Sessions : p \notin DOMAIN work[s]
  BY DEF ResourceInv, ServerTypes, Fresh
<1>2. \A t \in Sessions : DOMAIN work[t] \subseteq Oids
  BY WorkFacts DEF ResourceInv
<1>3. Theirs \in Publication /\ Theirs.name = "pub" /\ Theirs.by = Others /\ Theirs.marker = "none"
  BY DEF Theirs, Publication
<1>4. ASSUME NEW o \in Named(catalog, "pub"), \A s \in Sessions : o \notin DOMAIN work[s],
             Meddle([catalog EXCEPT ![o].name = "dropped", ![p] = Theirs])
      PROVE  ResourceInv'
  <2>1. o \in Oids /\ catalog[o].name = "pub" /\ o # p
    BY <1>1 DEF Named, Unused
  <2>2. /\ catalog' \in [Oids -> Publication] /\ catalog'[p] = Theirs
        /\ \A q \in Oids \ {o, p} : catalog'[q] = catalog[q]
        /\ catalog'[o].name = "dropped" /\ catalog'[o].by = catalog[o].by
        /\ catalog'[o].marker = catalog[o].marker
    BY <1>1, <1>3, <1>4, <2>1 DEF Meddle, Publication
  <2>3. CatalogSound'
    <3>1. \A q \in Oids : catalog'[q].name # "temporary"
      BY <1>1, <1>3, <2>1, <2>2 DEF CatalogSound
    <3>2. \A q \in Oids : catalog'[q].name = "pub" => q = p
      BY <1>1, <2>1, <2>2 DEF CatalogSound, Named
    <3>3. ASSUME NEW q \in Oids
          PROVE  /\ catalog'[q].by \in Setups =>
                      catalog'[q].marker \in {catalog'[q].by, Others} /\ full'
                 /\ catalog'[q].marker \in Setups => catalog'[q].by = catalog'[q].marker
      <4>1. CASE q = p
        BY <1>3, <2>2, <4>1, Names
      <4>2. CASE q # p
        BY <1>1, <1>4, <2>1, <2>2, <4>2 DEF CatalogSound, Meddle
      <4> QED
        BY <4>1, <4>2
    <3> QED
      BY <3>1, <3>2, <3>3 DEF CatalogSound, Named
  <2>4. \A t \in Sessions : CatalogKeeps(t)
    BY <1>1, <1>2, <1>4, <2>1, <2>2, Names DEF CatalogKeeps, Named, Unused
  <2> QED
    BY <1>4, <2>2, <2>3, <2>4, CatalogMoves DEF Meddle
<1>5. ASSUME Named(catalog, "pub") = {}, NameFree(Others, "pub"),
             Meddle([catalog EXCEPT ![p] = Theirs])
      PROVE  ResourceInv'
  <2>1. /\ catalog' \in [Oids -> Publication] /\ catalog'[p] = Theirs
        /\ \A q \in Oids \ {p} : catalog'[q] = catalog[q]
    BY <1>1, <1>3, <1>5 DEF Meddle
  <2>2. CatalogSound'
    <3>1. \A q \in Oids : catalog'[q].name # "temporary"
      BY <1>1, <1>3, <2>1 DEF CatalogSound
    <3>2. \A q \in Oids : catalog'[q].name = "pub" => q = p
      BY <1>5, <2>1 DEF Named
    <3>3. \A q \in Oids :
            /\ catalog'[q].by \in Setups => catalog'[q].marker \in {catalog'[q].by, Others} /\ full'
            /\ catalog'[q].marker \in Setups => catalog'[q].by = catalog'[q].marker
      BY <1>1, <1>3, <1>5, <2>1, Names DEF CatalogSound, Meddle
    <3> QED
      BY <3>1, <3>2, <3>3 DEF CatalogSound, Named
  <2>3. \A t \in Setups : NoWork(t)
    BY <1>5, Names DEF ResourceInv, SessionSound, SetupSound, NameFree, NoWork
  <2>4. \A t \in Sessions : CatalogKeeps(t)
    BY <1>1, <1>2, <2>1, <2>3, Names DEF CatalogKeeps, Unused
  <2> QED
    BY <1>5, <2>1, <2>2, <2>4, CatalogMoves DEF Meddle
<1> QED
  BY <1>4, <1>5

\* Where nothing of the server and its callers changes.
LEMMA UntouchedKeeps ==
  ASSUME ResourceInv, UNCHANGED <<dbVars, clientVars>>
  PROVE  ResourceInv'
<1>1. \A t \in Sessions : CatalogKeeps(t)
  BY DEF CatalogKeeps, dbVars, Named
<1>2. catalog' \in [Oids -> Publication] /\ CatalogSound'
  BY DEF ResourceInv, ServerTypes, CatalogSound, Named, dbVars
<1> QED
  BY <1>1, <1>2, CatalogMoves DEF dbVars

\* Administrators.
LEMMA MeddleKeeps ==
  ASSUME ResourceInv, OthersMeddle
  PROVE  ResourceInv'
<1>1. UNCHANGED clientVars
  BY DEF OthersMeddle
<1>2. ASSUME NEW o \in Named(catalog, "pub"), \A s \in Sessions : o \notin DOMAIN work[s],
             \/ Meddle([catalog EXCEPT ![o].name = "dropped"])
             \/ Meddle([catalog EXCEPT ![o].name = "renamed"])
             \/ Meddle([catalog EXCEPT ![o].marker = Others])
      PROVE  ResourceInv'
  BY <1>1, <1>2, AlteredKeeps
<1>3. ASSUME NEW p \in Fresh,
             \/ \E o \in Named(catalog, "pub") :
                  /\ \A s \in Sessions : o \notin DOMAIN work[s]
                  /\ Meddle([catalog EXCEPT ![o].name = "dropped", ![p] = Theirs])
             \/ /\ Named(catalog, "pub") = {} /\ NameFree(Others, "pub")
                /\ Meddle([catalog EXCEPT ![p] = Theirs])
      PROVE  ResourceInv'
  BY <1>1, <1>3, MadeKeeps
<1>4. ASSUME UNCHANGED dbVars PROVE ResourceInv'
  BY <1>1, <1>4, UntouchedKeeps
<1> QED
  BY <1>2, <1>3, <1>4 DEF OthersMeddle, MeddleSlot

\* The lease has its locks and finds its publication.
LEMMA LeaseChecksKeeps ==
  ASSUME ResourceInv, LeaseChecks
  PROVE  ResourceInv'
<1>1. ServerTypes /\ CallerTypes /\ SessionSound(Lease) /\ Lease \in Sessions
  BY Names DEF ResourceInv
<1>2. ServerTypes'
  BY <1>1, Names DEF ServerTypes, LeaseChecks, Go, dbVars
<1>3. CallerTypes'
  BY <1>1, Names DEF CallerTypes, LeaseChecks, Go, dbVars, SetupSteps, CleanupSteps,
      LeaseSteps
<1>4. \A t \in Sessions \ {Lease} : SameCaller(t) /\ SameSession(t)
  BY <1>1, Names DEF ServerTypes, CallerTypes, SameCaller, SameSession, Keys,
      LeaseChecks, Go, dbVars
<1>5. HolderSound(Lease)'
  BY <1>1, Names DEF SessionSound, HolderSound, SetupSound, CleanupSound,
      LeaseSound, ServerTypes, CallerTypes, NoWork, Holds, Keys, LeaseChecks, Go,
      dbVars
<1>6. LeaseSound'
  BY <1>1, Names DEF SessionSound, HolderSound, LeaseSound, LeaseSteps, Named,
      Visible, ServerTypes, CallerTypes, NoWork, Holds, Keys, LeaseChecks, Go,
      dbVars
<1>7. SessionSound(Lease)'
  BY <1>5, <1>6, Names DEF SessionSound
<1>8. UNCHANGED <<catalog, full>>
  BY DEF LeaseChecks, Go, dbVars
<1> QED
  BY <1>2, <1>3, <1>4, <1>7, <1>8, <1>1, OneMoves

\* The server loses the lease's session.
LEMMA LeaseDropsKeeps ==
  ASSUME ResourceInv, LeaseDrops
  PROVE  ResourceInv'
<1>1. ServerTypes /\ CallerTypes /\ SessionSound(Lease) /\ Lease \in Sessions
  BY Names DEF ResourceInv
<1>2. ServerTypes'
  BY NothingFacts, <1>1, Names DEF ServerTypes, LeaseDrops, EndSession, clientVars
<1>3. CallerTypes'
  BY NothingFacts, <1>1, Names DEF CallerTypes, LeaseDrops, EndSession, clientVars,
      SetupSteps, CleanupSteps, LeaseSteps
<1>4. \A t \in Sessions \ {Lease} : SameCaller(t) /\ SameSession(t)
  BY NothingFacts, <1>1, Names DEF ServerTypes, CallerTypes, SameCaller,
      SameSession, Keys, LeaseDrops, EndSession, clientVars
<1>5. HolderSound(Lease)'
  BY NothingFacts, <1>1, Names DEF SessionSound, HolderSound, SetupSound,
      CleanupSound, LeaseSound, ServerTypes, CallerTypes, NoWork, Holds, Keys,
      LeaseDrops, EndSession, clientVars
<1>6. LeaseSound'
  BY NothingFacts, <1>1, Names DEF SessionSound, HolderSound, LeaseSound,
      LeaseSteps, Named, Visible, ServerTypes, CallerTypes, NoWork, Holds, Keys,
      LeaseDrops, EndSession, clientVars
<1>7. SessionSound(Lease)'
  BY <1>5, <1>6, Names DEF SessionSound
<1>8. UNCHANGED <<catalog, full>>
  BY DEF LeaseDrops, EndSession, clientVars
<1> QED
  BY <1>2, <1>3, <1>4, <1>7, <1>8, <1>1, OneMoves

\* The lease notices it.
LEMMA LeaseNoticesKeeps ==
  ASSUME ResourceInv, LeaseNotices
  PROVE  ResourceInv'
<1>1. ServerTypes /\ CallerTypes /\ SessionSound(Lease) /\ Lease \in Sessions
  BY Names DEF ResourceInv
<1>2. ServerTypes'
  BY <1>1, Names DEF ServerTypes, LeaseNotices, Go, dbVars
<1>3. CallerTypes'
  BY <1>1, Names DEF CallerTypes, LeaseNotices, Go, dbVars, SetupSteps,
      CleanupSteps, LeaseSteps
<1>4. \A t \in Sessions \ {Lease} : SameCaller(t) /\ SameSession(t)
  BY <1>1, Names DEF ServerTypes, CallerTypes, SameCaller, SameSession, Keys,
      LeaseNotices, Go, dbVars
<1>5. HolderSound(Lease)'
  BY <1>1, Names DEF SessionSound, HolderSound, SetupSound, CleanupSound,
      LeaseSound, ServerTypes, CallerTypes, NoWork, Holds, Keys, LeaseNotices, Go,
      dbVars
<1>6. LeaseSound'
  BY <1>1, Names DEF SessionSound, HolderSound, LeaseSound, LeaseSteps, Named,
      Visible, ServerTypes, CallerTypes, NoWork, Holds, Keys, LeaseNotices, Go,
      dbVars
<1>7. SessionSound(Lease)'
  BY <1>5, <1>6, Names DEF SessionSound
<1>8. UNCHANGED <<catalog, full>>
  BY DEF LeaseNotices, Go, dbVars
<1> QED
  BY <1>2, <1>3, <1>4, <1>7, <1>8, <1>1, OneMoves

\* The lease is closed.
LEMMA LeaseClosesKeeps ==
  ASSUME ResourceInv, LeaseCloses
  PROVE  ResourceInv'
<1>1. ServerTypes /\ CallerTypes /\ SessionSound(Lease) /\ Lease \in Sessions
  BY Names DEF ResourceInv
<1>2. ServerTypes'
  BY <1>1, Names DEF ServerTypes, LeaseCloses, Settle, Go, dbVars
<1>3. CallerTypes'
  BY <1>1, Names DEF CallerTypes, LeaseCloses, Settle, Go, dbVars, SetupSteps,
      CleanupSteps, LeaseSteps
<1>4. \A t \in Sessions \ {Lease} : SameCaller(t) /\ SameSession(t)
  BY <1>1, Names DEF ServerTypes, CallerTypes, SameCaller, SameSession, Keys,
      LeaseCloses, Settle, Go, dbVars
<1>5. HolderSound(Lease)'
  BY <1>1, Names DEF SessionSound, HolderSound, SetupSound, CleanupSound,
      LeaseSound, ServerTypes, CallerTypes, NoWork, Holds, Keys, LeaseCloses,
      Settle, Go, dbVars
<1>6. LeaseSound'
  BY <1>1, Names DEF SessionSound, HolderSound, LeaseSound, LeaseSteps, Named,
      Visible, ServerTypes, CallerTypes, NoWork, Holds, Keys, LeaseCloses, Settle,
      Go, dbVars
<1>7. SessionSound(Lease)'
  BY <1>5, <1>6, Names DEF SessionSound
<1>8. UNCHANGED <<catalog, full>>
  BY DEF LeaseCloses, Settle, Go, dbVars
<1> QED
  BY <1>2, <1>3, <1>4, <1>7, <1>8, <1>1, OneMoves

-----------------------------------------------------------------------------
(* The bootstrap                                                             *)

\* The rows at a position stay what they were.
LEMMA PastFacts ==
  ASSUME PositionsSound, SourceCommits
  PROVE  /\ past' \in Seq(SUBSET Rows) /\ Len(past') = wal' + 1
         /\ \A p \in 0 .. wal : RowsAt(p)' = RowsAt(p)
<1>1. past \in Seq(SUBSET Rows) /\ Len(past) = wal + 1 /\ wal \in Nat /\ wal' = wal + 1
  BY BoundsAssumption DEF PositionsSound, SourceCommits
<1>2. PICK r \in SUBSET Rows : past' = Append(past, r)
  BY DEF SourceCommits
<1>3. past' \in Seq(SUBSET Rows) /\ Len(past') = Len(past) + 1
  BY <1>1, <1>2
<1>4. \A p \in 0 .. wal : past'[p + 1] = past[p + 1]
  BY <1>1, <1>2
<1> QED
  BY <1>1, <1>3, <1>4 DEF RowsAt

\* The recording is created.
LEMMA CreateRecordingKeeps ==
  ASSUME BootstrapInv, CreateRecording
  PROVE  BootstrapInv'
<1>1. PositionsSound /\ BootstrapTypes /\ RecordingSound /\ SnapshotSound /\ EndSound
  BY DEF BootstrapInv
<1> DEFINE new == [status |-> "bootstrapping", bound |-> FALSE, rows |-> {}]
<1>a. /\ rec = NoRecording /\ at = "idle"
      /\ \/ rec' = new /\ at' = "created" /\ created' = TRUE /\ storeUp' = storeUp
         \/ rec' = rec /\ at' = "failing" /\ created' = FALSE /\ storeUp' = storeUp
         \/ rec' \in {rec, new} /\ at' = "failing" /\ created' = FALSE /\ storeUp' = FALSE
  BY <1>1 DEF CreateRecording, Request, Throw, RecordingSound
<1>b. /\ new \in Recording /\ new # NoRecording /\ new.status = "bootstrapping"
      /\ new.rows = {}
  BY DEF Recording, NoRecording
<1> HIDE DEF new
<1>2. PositionsSound'
  BY <1>a, <1>b, <1>1 DEF PositionsSound, resourceVars, sourceVars, callVars,
      dbVars, clientVars, CreateRecording
<1>3. BootstrapTypes'
  BY <1>a, <1>b, <1>1 DEF BootstrapTypes, Recording, NoRecording, resourceVars,
      sourceVars, callVars, dbVars, clientVars, CreateRecording
<1>4. RecordingSound'
  BY <1>a, <1>b, <1>1 DEF RecordingSound, BootstrapTypes, Recording, NoRecording,
      PositionsSound, NoSlot, Boot, Nobody, resourceVars, sourceVars, callVars,
      dbVars, clientVars, CreateRecording
<1>5. SnapshotSound'
  BY <1>a, <1>b, <1>1 DEF SnapshotSound, PositionsSound, BootstrapTypes,
      RecordingSound, EndSound, Recording, NoRecording, RowsAt, NoSlot, Boot
<1>6. EndSound'
  BY <1>a, <1>b, <1>1 DEF EndSound, BootstrapTypes, RecordingSound, SnapshotSound,
      Recording, NoRecording, resourceVars, sourceVars, callVars, dbVars,
      clientVars, CreateRecording
<1> QED
  BY <1>2, <1>3, <1>4, <1>5, <1>6 DEF BootstrapInv

\* It is bound to the source.
LEMMA BindRecordingKeeps ==
  ASSUME BootstrapInv, BindRecording
  PROVE  BootstrapInv'
<1>1. PositionsSound /\ BootstrapTypes /\ RecordingSound /\ SnapshotSound /\ EndSound
  BY DEF BootstrapInv
<1>2. PositionsSound'
  BY <1>1 DEF PositionsSound, resourceVars, sourceVars, callVars, dbVars,
      clientVars, BindRecording, Request, Throw
<1>3. BootstrapTypes'
  BY <1>1 DEF BootstrapTypes, Recording, NoRecording, resourceVars, sourceVars,
      callVars, dbVars, clientVars, BindRecording, Request, Throw
<1>4. RecordingSound'
  BY <1>1 DEF RecordingSound, BootstrapTypes, Recording, NoRecording,
      PositionsSound, NoSlot, Boot, Nobody, resourceVars, sourceVars, callVars,
      dbVars, clientVars, BindRecording, Request, Throw
<1>5. SnapshotSound'
  BY <1>1 DEF SnapshotSound, PositionsSound, BootstrapTypes, RecordingSound,
      EndSound, Recording, NoRecording, RowsAt, NoSlot, Boot, Nobody, resourceVars,
      sourceVars, callVars, dbVars, clientVars, BindRecording, Request, Throw
<1>6. EndSound'
  BY <1>1 DEF EndSound, BootstrapTypes, RecordingSound, SnapshotSound, Recording,
      NoRecording, resourceVars, sourceVars, callVars, dbVars, clientVars,
      BindRecording, Request, Throw
<1> QED
  BY <1>2, <1>3, <1>4, <1>5, <1>6 DEF BootstrapInv

\* The two connections are opened.
LEMMA OpenConnectionsKeeps ==
  ASSUME BootstrapInv, OpenConnections
  PROVE  BootstrapInv'
<1>1. PositionsSound /\ BootstrapTypes /\ RecordingSound /\ SnapshotSound /\ EndSound
  BY DEF BootstrapInv
<1>2. PositionsSound'
  BY <1>1 DEF PositionsSound, resourceVars, sourceVars, callVars, dbVars,
      clientVars, OpenConnections, Step
<1>3. BootstrapTypes'
  BY <1>1 DEF BootstrapTypes, Recording, NoRecording, resourceVars, sourceVars,
      callVars, dbVars, clientVars, OpenConnections, Step
<1>4. RecordingSound'
  BY <1>1 DEF RecordingSound, BootstrapTypes, Recording, NoRecording,
      PositionsSound, NoSlot, Boot, Nobody, resourceVars, sourceVars, callVars,
      dbVars, clientVars, OpenConnections, Step
<1>5. SnapshotSound'
  BY <1>1 DEF SnapshotSound, PositionsSound, BootstrapTypes, RecordingSound,
      EndSound, Recording, NoRecording, RowsAt, NoSlot, Boot, Nobody, resourceVars,
      sourceVars, callVars, dbVars, clientVars, OpenConnections, Step
<1>6. EndSound'
  BY <1>1 DEF EndSound, BootstrapTypes, RecordingSound, SnapshotSound, Recording,
      NoRecording, resourceVars, sourceVars, callVars, dbVars, clientVars,
      OpenConnections, Step
<1> QED
  BY <1>2, <1>3, <1>4, <1>5, <1>6 DEF BootstrapInv

\* The slot is asked for.
LEMMA SendCreateSlotKeeps ==
  ASSUME BootstrapInv, SendCreateSlot
  PROVE  BootstrapInv'
<1>1. PositionsSound /\ BootstrapTypes /\ RecordingSound /\ SnapshotSound /\ EndSound
  BY DEF BootstrapInv
<1>2. PositionsSound'
  BY <1>1 DEF PositionsSound, resourceVars, dbVars, clientVars, SendCreateSlot, Step
<1>3. BootstrapTypes'
  BY <1>1 DEF BootstrapTypes, SendCreateSlot, Step
<1>4. RecordingSound'
  BY <1>1 DEF RecordingSound, resourceVars, dbVars, clientVars, SendCreateSlot, Step
<1>5. SnapshotSound'
  BY <1>1 DEF SnapshotSound, RecordingSound, SendCreateSlot, Step
<1>6. EndSound'
  BY <1>1 DEF EndSound, SendCreateSlot, Step
<1> QED
  BY <1>2, <1>3, <1>4, <1>5, <1>6 DEF BootstrapInv

\* A slot that is made now starts at the current position.
LEMMA NewSlotFacts ==
  ASSUME NEW by \in {Boot, Others}, wal \in Nat
  PROVE  /\ NewSlot(by) \in
              [by : {Boot, Others}, start : Nat, confirmed : Nat, unseen : SUBSET Cleanups]
         /\ NewSlot(by) # NoSlot /\ NewSlot(by).by = by
         /\ NewSlot(by).start = wal /\ NewSlot(by).confirmed = wal
         /\ NewSlot(by).unseen = Unlooking
  BY DEF NewSlot, NoSlot, Nobody, Boot, Others, Unlooking

\* The slot is made, and the caller may not hear of it.
LEMMA CreateSlotKeeps ==
  ASSUME BootstrapInv, CreateSlot
  PROVE  BootstrapInv'
<1>1. PositionsSound /\ BootstrapTypes /\ RecordingSound /\ SnapshotSound /\ EndSound
  BY DEF BootstrapInv
<1>a. wal \in Nat /\ wal <= MaxPosition
  BY <1>1, BoundsAssumption DEF PositionsSound
<1>b. /\ slot' \in [by : {Boot, Others}, start : Nat, confirmed : Nat, unseen : SUBSET Cleanups]
      /\ slot' # NoSlot /\ slot'.by = Boot /\ slot'.start = wal /\ slot'.confirmed = wal
  BY <1>a, NewSlotFacts DEF CreateSlot
<1>c. /\ creating /\ creating' = FALSE
      /\ \/ at = "slotting" /\ at' = "slotted" /\ snapshot' = wal
         \/ at' = at /\ snapshot' = snapshot
      /\ UNCHANGED <<past, rec, storeUp, connections, broken, view, batch, fetched, created, dirty,
                     result, wal, report, meddled>>
  BY DEF CreateSlot, Step
<1>2. PositionsSound'
  BY <1>1, <1>a, <1>b, <1>c DEF PositionsSound
<1>3. BootstrapTypes'
  <2>1. snapshot' \in 0 .. NoPosition
    BY <1>1, <1>a, <1>c, BoundsAssumption DEF BootstrapTypes, NoPosition
  <2> QED
    BY <1>1, <1>c, <2>1 DEF BootstrapTypes
<1>4. RecordingSound'
  BY <1>1, <1>b, <1>c DEF RecordingSound
<1>5. SnapshotSound'
  BY <1>1, <1>a, <1>b, <1>c DEF SnapshotSound, RecordingSound, RowsAt
<1>6. EndSound'
  BY <1>1, <1>c DEF EndSound
<1> QED
  BY <1>2, <1>3, <1>4, <1>5, <1>6 DEF BootstrapInv

\* The slot is not made.
LEMMA CreateSlotFailsKeeps ==
  ASSUME BootstrapInv, CreateSlotFails
  PROVE  BootstrapInv'
<1>1. PositionsSound /\ BootstrapTypes /\ RecordingSound /\ SnapshotSound /\ EndSound
  BY DEF BootstrapInv
<1>2. PositionsSound'
  BY <1>1 DEF PositionsSound, resourceVars, dbVars, clientVars, CreateSlotFails
<1>3. BootstrapTypes'
  BY <1>1 DEF BootstrapTypes, callVars, CreateSlotFails
<1>4. RecordingSound'
  BY <1>1 DEF RecordingSound, resourceVars, dbVars, clientVars, callVars, CreateSlotFails
<1>5. SnapshotSound'
  BY <1>1 DEF SnapshotSound, RowsAt, resourceVars, dbVars, clientVars, callVars, CreateSlotFails
<1>6. EndSound'
  BY <1>1 DEF EndSound, callVars, CreateSlotFails
<1> QED
  BY <1>2, <1>3, <1>4, <1>5, <1>6 DEF BootstrapInv

\* The reader's transaction takes the slot's snapshot.
LEMMA ImportSnapshotKeeps ==
  ASSUME BootstrapInv, ImportSnapshot
  PROVE  BootstrapInv'
<1>1. PositionsSound /\ BootstrapTypes /\ RecordingSound /\ SnapshotSound /\ EndSound
  BY DEF BootstrapInv
<1>2. PositionsSound'
  BY <1>1 DEF PositionsSound, resourceVars, sourceVars, callVars, dbVars,
      clientVars, ImportSnapshot, Step, Imported
<1>3. BootstrapTypes'
  BY <1>1 DEF BootstrapTypes, Recording, NoRecording, resourceVars, sourceVars,
      callVars, dbVars, clientVars, ImportSnapshot, Step, Imported
<1>4. RecordingSound'
  BY <1>1 DEF RecordingSound, BootstrapTypes, Recording, NoRecording,
      PositionsSound, NoSlot, Boot, Nobody, resourceVars, sourceVars, callVars,
      dbVars, clientVars, ImportSnapshot, Step, Imported
<1>5. SnapshotSound'
  BY <1>1 DEF SnapshotSound, PositionsSound, BootstrapTypes, RecordingSound,
      EndSound, Recording, NoRecording, RowsAt, NoSlot, Boot, Nobody, resourceVars,
      sourceVars, callVars, dbVars, clientVars, ImportSnapshot, Step, Imported
<1>6. EndSound'
  BY <1>1 DEF EndSound, BootstrapTypes, RecordingSound, SnapshotSound, Recording,
      NoRecording, resourceVars, sourceVars, callVars, dbVars, clientVars,
      ImportSnapshot, Step, Imported
<1> QED
  BY <1>2, <1>3, <1>4, <1>5, <1>6 DEF BootstrapInv

\* The reading begins.
LEMMA BeginReadingKeeps ==
  ASSUME BootstrapInv, BeginReading
  PROVE  BootstrapInv'
<1>1. PositionsSound /\ BootstrapTypes /\ RecordingSound /\ SnapshotSound /\ EndSound
  BY DEF BootstrapInv
<1>2. PositionsSound'
  BY <1>1 DEF PositionsSound, resourceVars, sourceVars, callVars, dbVars,
      clientVars, BeginReading, Step
<1>3. BootstrapTypes'
  BY <1>1 DEF BootstrapTypes, Recording, NoRecording, resourceVars, sourceVars,
      callVars, dbVars, clientVars, BeginReading, Step
<1>4. RecordingSound'
  BY <1>1 DEF RecordingSound, BootstrapTypes, Recording, NoRecording,
      PositionsSound, NoSlot, Boot, Nobody, resourceVars, sourceVars, callVars,
      dbVars, clientVars, BeginReading, Step
<1>5. SnapshotSound'
  BY <1>1 DEF SnapshotSound, PositionsSound, BootstrapTypes, RecordingSound,
      EndSound, Recording, NoRecording, RowsAt, NoSlot, Boot, Nobody, resourceVars,
      sourceVars, callVars, dbVars, clientVars, BeginReading, Step
<1>6. EndSound'
  BY <1>1 DEF EndSound, BootstrapTypes, RecordingSound, SnapshotSound, Recording,
      NoRecording, resourceVars, sourceVars, callVars, dbVars, clientVars,
      BeginReading, Step
<1> QED
  BY <1>2, <1>3, <1>4, <1>5, <1>6 DEF BootstrapInv

\* A batch is fetched.
LEMMA FetchBatchKeeps ==
  ASSUME BootstrapInv, FetchBatch
  PROVE  BootstrapInv'
<1>1. PositionsSound /\ BootstrapTypes /\ RecordingSound /\ SnapshotSound /\ EndSound
  BY DEF BootstrapInv
<1>a. RowsAt(view) \subseteq Rows
  <2>1. view + 1 \in 1 .. Len(past) /\ past \in Seq(SUBSET Rows)
    BY <1>1, BoundsAssumption DEF FetchBatch, Step, SnapshotSound, PositionsSound,
        BootstrapTypes, NoPosition
  <2> QED
    BY <2>1 DEF RowsAt
<1>2. PositionsSound'
  BY <1>a, <1>1 DEF PositionsSound, resourceVars, sourceVars, callVars, dbVars,
      clientVars, FetchBatch, Step, Fits
<1>3. BootstrapTypes'
  BY <1>a, <1>1 DEF BootstrapTypes, Recording, NoRecording, resourceVars,
      sourceVars, callVars, dbVars, clientVars, FetchBatch, Step, Fits
<1>4. RecordingSound'
  BY <1>a, <1>1 DEF RecordingSound, BootstrapTypes, Recording, NoRecording,
      PositionsSound, NoSlot, Boot, Nobody, resourceVars, sourceVars, callVars,
      dbVars, clientVars, FetchBatch, Step, Fits
<1>5. SnapshotSound'
  BY <1>a, <1>1 DEF SnapshotSound, PositionsSound, BootstrapTypes, RecordingSound,
      EndSound, Recording, NoRecording, RowsAt, NoSlot, Boot, Nobody, resourceVars,
      sourceVars, callVars, dbVars, clientVars, FetchBatch, Step, Fits
<1>6. EndSound'
  BY <1>a, <1>1 DEF EndSound, BootstrapTypes, RecordingSound, SnapshotSound,
      Recording, NoRecording, resourceVars, sourceVars, callVars, dbVars,
      clientVars, FetchBatch, Step, Fits
<1> QED
  BY <1>2, <1>3, <1>4, <1>5, <1>6 DEF BootstrapInv

\* It is staged.
LEMMA StageBatchKeeps ==
  ASSUME BootstrapInv, StageBatch
  PROVE  BootstrapInv'
<1>1. PositionsSound /\ BootstrapTypes /\ RecordingSound /\ SnapshotSound /\ EndSound
  BY DEF BootstrapInv
<1> DEFINE new == [rec EXCEPT !.rows = @ \union batch]
<1>b. rec \in Recording /\ rec # NoRecording /\ rec.status = "bootstrapping" /\ rec.bound /\ created
  BY <1>1 DEF StageBatch, Request, RecordingSound, BootstrapTypes, Recording,
      NoRecording
<1>a. /\ new \in Recording /\ new # NoRecording /\ new.status = "bootstrapping" /\ new.bound
      /\ new.rows = rec.rows \union batch
  BY <1>1, <1>b DEF BootstrapTypes, Recording, NoRecording
<1>c. /\ at = "staging" /\ batch' = {} /\ created' /\ Cardinality(batch') <= BatchRows
      /\ \/ rec' = new /\ at' = "reading" /\ storeUp' = storeUp
         \/ rec' \in {rec, new} /\ at' = "failing" /\ storeUp' \in BOOLEAN
  <2>1. at = "staging" /\ batch' = {} /\ created'
    BY <1>b DEF StageBatch, Request
  <2>2. Cardinality(batch') <= BatchRows
    BY <2>1, FS_EmptySet, BatchRowsAssumption
  <2>3. \/ rec' = new /\ at' = "reading" /\ storeUp' = storeUp
        \/ rec' \in {rec, new} /\ at' = "failing" /\ storeUp' \in BOOLEAN
    BY <1>1 DEF StageBatch, Request, Throw, BootstrapTypes
  <2> QED
    BY <2>1, <2>2, <2>3
<1> HIDE DEF new
<1>2. PositionsSound'
  BY <1>a, <1>b, <1>c, <1>1 DEF PositionsSound, resourceVars, sourceVars, callVars,
      dbVars, clientVars, StageBatch
<1>3. BootstrapTypes'
  BY <1>a, <1>b, <1>c, <1>1 DEF BootstrapTypes, Recording, NoRecording,
      resourceVars, sourceVars, callVars, dbVars, clientVars, StageBatch
<1>4. RecordingSound'
  <2>1. creating' = creating /\ slot' = slot /\ fetched' = fetched
    BY DEF StageBatch, resourceVars
  <2> QED
    BY <1>a, <1>b, <1>c, <1>1, <2>1 DEF RecordingSound, BootstrapTypes, Recording,
        NoRecording, PositionsSound, NoSlot, Boot, Nobody
<1>5. SnapshotSound'
  BY <1>a, <1>b, <1>c, <1>1 DEF SnapshotSound, PositionsSound, BootstrapTypes,
      RecordingSound, EndSound, Recording, NoRecording, RowsAt, NoSlot, Boot,
      Nobody, resourceVars, sourceVars, callVars, dbVars, clientVars, StageBatch
<1>6. EndSound'
  BY <1>a, <1>b, <1>c, <1>1 DEF EndSound, BootstrapTypes, RecordingSound,
      SnapshotSound, Recording, NoRecording, resourceVars, sourceVars, callVars,
      dbVars, clientVars, StageBatch
<1> QED
  BY <1>2, <1>3, <1>4, <1>5, <1>6 DEF BootstrapInv

\* All has been read.
LEMMA EndSnapshotKeeps ==
  ASSUME BootstrapInv, EndSnapshot
  PROVE  BootstrapInv'
<1>1. PositionsSound /\ BootstrapTypes /\ RecordingSound /\ SnapshotSound /\ EndSound
  BY DEF BootstrapInv
<1>2. PositionsSound'
  BY <1>1 DEF PositionsSound, resourceVars, sourceVars, callVars, dbVars,
      clientVars, EndSnapshot, Exhausted
<1>3. BootstrapTypes'
  BY <1>1 DEF BootstrapTypes, Recording, NoRecording, resourceVars, sourceVars,
      callVars, dbVars, clientVars, EndSnapshot, Exhausted
<1>4. RecordingSound'
  BY <1>1 DEF RecordingSound, BootstrapTypes, Recording, NoRecording,
      PositionsSound, NoSlot, Boot, Nobody, resourceVars, sourceVars, callVars,
      dbVars, clientVars, EndSnapshot, Exhausted
<1>5. SnapshotSound'
  BY <1>1 DEF SnapshotSound, PositionsSound, BootstrapTypes, RecordingSound,
      EndSound, Recording, NoRecording, RowsAt, NoSlot, Boot, Nobody, resourceVars,
      sourceVars, callVars, dbVars, clientVars, EndSnapshot, Exhausted
<1>6. EndSound'
  BY <1>1 DEF EndSound, BootstrapTypes, RecordingSound, SnapshotSound, Recording,
      NoRecording, resourceVars, sourceVars, callVars, dbVars, clientVars,
      EndSnapshot, Exhausted
<1> QED
  BY <1>2, <1>3, <1>4, <1>5, <1>6 DEF BootstrapInv

\* The source is closed.
LEMMA CloseSourceKeeps ==
  ASSUME BootstrapInv, CloseSource
  PROVE  BootstrapInv'
<1>1. PositionsSound /\ BootstrapTypes /\ RecordingSound /\ SnapshotSound /\ EndSound
  BY DEF BootstrapInv
<1>2. PositionsSound'
  BY <1>1 DEF PositionsSound, resourceVars, sourceVars, callVars, dbVars,
      clientVars, CloseSource, Step
<1>3. BootstrapTypes'
  BY <1>1 DEF BootstrapTypes, Recording, NoRecording, resourceVars, sourceVars,
      callVars, dbVars, clientVars, CloseSource, Step
<1>4. RecordingSound'
  BY <1>1 DEF RecordingSound, BootstrapTypes, Recording, NoRecording,
      PositionsSound, NoSlot, Boot, Nobody, resourceVars, sourceVars, callVars,
      dbVars, clientVars, CloseSource, Step
<1>5. SnapshotSound'
  BY <1>1 DEF SnapshotSound, PositionsSound, BootstrapTypes, RecordingSound,
      EndSound, Recording, NoRecording, RowsAt, NoSlot, Boot, Nobody, resourceVars,
      sourceVars, callVars, dbVars, clientVars, CloseSource, Step
<1>6. EndSound'
  BY <1>1 DEF EndSound, BootstrapTypes, RecordingSound, SnapshotSound, Recording,
      NoRecording, resourceVars, sourceVars, callVars, dbVars, clientVars,
      CloseSource, Step
<1> QED
  BY <1>2, <1>3, <1>4, <1>5, <1>6 DEF BootstrapInv

\* The recording is published.
LEMMA PublishKeeps ==
  ASSUME BootstrapInv, Publish
  PROVE  BootstrapInv'
<1>1. PositionsSound /\ BootstrapTypes /\ RecordingSound /\ SnapshotSound /\ EndSound
  BY DEF BootstrapInv
<1> DEFINE new == [rec EXCEPT !.status = "recording"]
<1>a. new \in Recording /\ new # NoRecording
  BY <1>1 DEF Publish, Request, RecordingSound, BootstrapTypes, Recording,
      NoRecording
<1>2. PositionsSound'
  BY <1>a, <1>1 DEF PositionsSound, resourceVars, sourceVars, callVars, dbVars,
      clientVars, Publish, Published, Request, Throw
<1>3. BootstrapTypes'
  BY <1>a, <1>1 DEF BootstrapTypes, Recording, NoRecording, resourceVars,
      sourceVars, callVars, dbVars, clientVars, Publish, Published, Request, Throw
<1>4. RecordingSound'
  BY <1>a, <1>1 DEF RecordingSound, BootstrapTypes, Recording, NoRecording,
      PositionsSound, NoSlot, Boot, Nobody, resourceVars, sourceVars, callVars,
      dbVars, clientVars, Publish, Published, Request, Throw
<1>5. SnapshotSound'
  BY <1>a, <1>1 DEF SnapshotSound, PositionsSound, BootstrapTypes, RecordingSound,
      EndSound, Recording, NoRecording, RowsAt, NoSlot, Boot, Nobody, resourceVars,
      sourceVars, callVars, dbVars, clientVars, Publish, Published, Request, Throw
<1>6. EndSound'
  BY <1>a, <1>1 DEF EndSound, BootstrapTypes, RecordingSound, SnapshotSound,
      Recording, NoRecording, resourceVars, sourceVars, callVars, dbVars,
      clientVars, Publish, Published, Request, Throw
<1> QED
  BY <1>2, <1>3, <1>4, <1>5, <1>6 DEF BootstrapInv

\* A step fails.
LEMMA BootstrapThrowsKeeps ==
  ASSUME BootstrapInv, BootstrapThrows
  PROVE  BootstrapInv'
<1>1. PositionsSound /\ BootstrapTypes /\ RecordingSound /\ SnapshotSound /\ EndSound
  BY DEF BootstrapInv
<1>2. PositionsSound'
  BY <1>1 DEF PositionsSound, resourceVars, sourceVars, callVars, dbVars,
      clientVars, BootstrapThrows, Request, Throw
<1>3. BootstrapTypes'
  BY <1>1 DEF BootstrapTypes, Recording, NoRecording, resourceVars, sourceVars,
      callVars, dbVars, clientVars, BootstrapThrows, Request, Throw
<1>4. RecordingSound'
  BY <1>1 DEF RecordingSound, BootstrapTypes, Recording, NoRecording,
      PositionsSound, NoSlot, Boot, Nobody, resourceVars, sourceVars, callVars,
      dbVars, clientVars, BootstrapThrows, Request, Throw
<1>5. SnapshotSound'
  BY <1>1 DEF SnapshotSound, PositionsSound, BootstrapTypes, RecordingSound,
      EndSound, Recording, NoRecording, RowsAt, NoSlot, Boot, Nobody, resourceVars,
      sourceVars, callVars, dbVars, clientVars, BootstrapThrows, Request, Throw
<1>6. EndSound'
  BY <1>1 DEF EndSound, BootstrapTypes, RecordingSound, SnapshotSound, Recording,
      NoRecording, resourceVars, sourceVars, callVars, dbVars, clientVars,
      BootstrapThrows, Request, Throw
<1> QED
  BY <1>2, <1>3, <1>4, <1>5, <1>6 DEF BootstrapInv

\* After a failure the source is closed.
LEMMA FailCloseKeeps ==
  ASSUME BootstrapInv, FailClose
  PROVE  BootstrapInv'
<1>1. PositionsSound /\ BootstrapTypes /\ RecordingSound /\ SnapshotSound /\ EndSound
  BY DEF BootstrapInv
<1>2. PositionsSound'
  BY <1>1 DEF PositionsSound, resourceVars, sourceVars, callVars, dbVars,
      clientVars, FailClose, Step
<1>3. BootstrapTypes'
  BY <1>1 DEF BootstrapTypes, Recording, NoRecording, resourceVars, sourceVars,
      callVars, dbVars, clientVars, FailClose, Step
<1>4. RecordingSound'
  BY <1>1 DEF RecordingSound, BootstrapTypes, Recording, NoRecording,
      PositionsSound, NoSlot, Boot, Nobody, resourceVars, sourceVars, callVars,
      dbVars, clientVars, FailClose, Step
<1>5. SnapshotSound'
  BY <1>1 DEF SnapshotSound, PositionsSound, BootstrapTypes, RecordingSound,
      EndSound, Recording, NoRecording, RowsAt, NoSlot, Boot, Nobody, resourceVars,
      sourceVars, callVars, dbVars, clientVars, FailClose, Step
<1>6. EndSound'
  BY <1>1 DEF EndSound, BootstrapTypes, RecordingSound, SnapshotSound, Recording,
      NoRecording, resourceVars, sourceVars, callVars, dbVars, clientVars,
      FailClose, Step
<1> QED
  BY <1>2, <1>3, <1>4, <1>5, <1>6 DEF BootstrapInv

\* What was created is invalidated.
LEMMA FailInvalidateKeeps ==
  ASSUME BootstrapInv, FailInvalidate
  PROVE  BootstrapInv'
<1>1. PositionsSound /\ BootstrapTypes /\ RecordingSound /\ SnapshotSound /\ EndSound
  BY DEF BootstrapInv
<1> DEFINE new == [rec EXCEPT !.status = "invalid"]
<1>a. created => new \in Recording /\ new # NoRecording
  BY <1>1 DEF FailInvalidate, RecordingSound, BootstrapTypes, Recording, NoRecording
<1>2. PositionsSound'
  BY <1>a, <1>1 DEF PositionsSound, resourceVars, sourceVars, callVars, dbVars,
      clientVars, FailInvalidate, Invalidates
<1>3. BootstrapTypes'
  BY <1>a, <1>1 DEF BootstrapTypes, Recording, NoRecording, resourceVars,
      sourceVars, callVars, dbVars, clientVars, FailInvalidate, Invalidates
<1>4. RecordingSound'
  BY <1>a, <1>1 DEF RecordingSound, BootstrapTypes, Recording, NoRecording,
      PositionsSound, NoSlot, Boot, Nobody, resourceVars, sourceVars, callVars,
      dbVars, clientVars, FailInvalidate, Invalidates
<1>5. SnapshotSound'
  BY <1>a, <1>1 DEF SnapshotSound, PositionsSound, BootstrapTypes, RecordingSound,
      EndSound, Recording, NoRecording, RowsAt, NoSlot, Boot, Nobody, resourceVars,
      sourceVars, callVars, dbVars, clientVars, FailInvalidate, Invalidates
<1>6. EndSound'
  BY <1>a, <1>1 DEF EndSound, BootstrapTypes, RecordingSound, SnapshotSound,
      Recording, NoRecording, resourceVars, sourceVars, callVars, dbVars,
      clientVars, FailInvalidate, Invalidates
<1> QED
  BY <1>2, <1>3, <1>4, <1>5, <1>6 DEF BootstrapInv

\* A connection fails.
LEMMA ConnectionFailsKeeps ==
  ASSUME BootstrapInv, ConnectionFails
  PROVE  BootstrapInv'
<1>1. PositionsSound /\ BootstrapTypes /\ RecordingSound /\ SnapshotSound /\ EndSound
  BY DEF BootstrapInv
<1>2. PositionsSound'
  BY <1>1 DEF PositionsSound, resourceVars, sourceVars, callVars, dbVars,
      clientVars, ConnectionFails
<1>3. BootstrapTypes'
  BY <1>1 DEF BootstrapTypes, Recording, NoRecording, resourceVars, sourceVars,
      callVars, dbVars, clientVars, ConnectionFails
<1>4. RecordingSound'
  BY <1>1 DEF RecordingSound, BootstrapTypes, Recording, NoRecording,
      PositionsSound, NoSlot, Boot, Nobody, resourceVars, sourceVars, callVars,
      dbVars, clientVars, ConnectionFails
<1>5. SnapshotSound'
  BY <1>1 DEF SnapshotSound, PositionsSound, BootstrapTypes, RecordingSound,
      EndSound, Recording, NoRecording, RowsAt, NoSlot, Boot, Nobody, resourceVars,
      sourceVars, callVars, dbVars, clientVars, ConnectionFails
<1>6. EndSound'
  BY <1>1 DEF EndSound, BootstrapTypes, RecordingSound, SnapshotSound, Recording,
      NoRecording, resourceVars, sourceVars, callVars, dbVars, clientVars,
      ConnectionFails
<1> QED
  BY <1>2, <1>3, <1>4, <1>5, <1>6 DEF BootstrapInv

\* The process dies.
LEMMA CrashKeeps ==
  ASSUME BootstrapInv, Crash
  PROVE  BootstrapInv'
<1>1. PositionsSound /\ BootstrapTypes /\ RecordingSound /\ SnapshotSound /\ EndSound
  BY DEF BootstrapInv
<1>2. PositionsSound'
  BY <1>1 DEF PositionsSound, resourceVars, sourceVars, callVars, dbVars,
      clientVars, Crash
<1>3. BootstrapTypes'
  BY <1>1 DEF BootstrapTypes, Recording, NoRecording, resourceVars, sourceVars,
      callVars, dbVars, clientVars, Crash
<1>4. RecordingSound'
  BY <1>1 DEF RecordingSound, BootstrapTypes, Recording, NoRecording,
      PositionsSound, NoSlot, Boot, Nobody, resourceVars, sourceVars, callVars,
      dbVars, clientVars, Crash
<1>5. SnapshotSound'
  BY <1>1 DEF SnapshotSound, PositionsSound, BootstrapTypes, RecordingSound,
      EndSound, Recording, NoRecording, RowsAt, NoSlot, Boot, Nobody, resourceVars,
      sourceVars, callVars, dbVars, clientVars, Crash
<1>6. EndSound'
  BY <1>1 DEF EndSound, BootstrapTypes, RecordingSound, SnapshotSound, Recording,
      NoRecording, resourceVars, sourceVars, callVars, dbVars, clientVars, Crash
<1> QED
  BY <1>2, <1>3, <1>4, <1>5, <1>6 DEF BootstrapInv

\* The source commits.
LEMMA SourceCommitsKeeps ==
  ASSUME BootstrapInv, SourceCommits
  PROVE  BootstrapInv'
<1>1. PositionsSound /\ BootstrapTypes /\ RecordingSound /\ SnapshotSound /\ EndSound
  BY DEF BootstrapInv
<1>2. PositionsSound'
  BY PastFacts, BoundsAssumption, <1>1 DEF PositionsSound, resourceVars, sourceVars,
      callVars, dbVars, clientVars, SourceCommits
<1>3. BootstrapTypes'
  BY PastFacts, BoundsAssumption, <1>1 DEF BootstrapTypes, Recording, NoRecording,
      resourceVars, sourceVars, callVars, dbVars, clientVars, SourceCommits
<1>4. RecordingSound'
  BY PastFacts, BoundsAssumption, <1>1 DEF RecordingSound, BootstrapTypes,
      Recording, NoRecording, PositionsSound, NoSlot, Boot, Nobody, resourceVars,
      sourceVars, callVars, dbVars, clientVars, SourceCommits
<1>5. SnapshotSound'
  BY PastFacts, BoundsAssumption, <1>1 DEF SnapshotSound, PositionsSound,
      BootstrapTypes, RecordingSound, EndSound, Recording, NoRecording, RowsAt,
      NoSlot, Boot, Nobody, resourceVars, sourceVars, callVars, dbVars, clientVars,
      SourceCommits
<1>6. EndSound'
  BY PastFacts, BoundsAssumption, <1>1 DEF EndSound, BootstrapTypes, RecordingSound,
      SnapshotSound, Recording, NoRecording, resourceVars, sourceVars, callVars,
      dbVars, clientVars, SourceCommits
<1> QED
  BY <1>2, <1>3, <1>4, <1>5, <1>6 DEF BootstrapInv

\* Nothing of it happens.
LEMMA QuietKeeps ==
  ASSUME BootstrapInv, UNCHANGED <<bootVars, slot, wal, report, meddled>>
  PROVE  BootstrapInv'
<1>1. PositionsSound /\ BootstrapTypes /\ RecordingSound /\ SnapshotSound /\ EndSound
  BY DEF BootstrapInv
<1>2. PositionsSound'
  BY <1>1 DEF PositionsSound, resourceVars, sourceVars, callVars, dbVars,
      clientVars, bootVars
<1>3. BootstrapTypes'
  BY <1>1 DEF BootstrapTypes, Recording, NoRecording, resourceVars, sourceVars,
      callVars, dbVars, clientVars, bootVars
<1>4. RecordingSound'
  BY <1>1 DEF RecordingSound, BootstrapTypes, Recording, NoRecording,
      PositionsSound, NoSlot, Boot, Nobody, resourceVars, sourceVars, callVars,
      dbVars, clientVars, bootVars
<1>5. SnapshotSound'
  BY <1>1 DEF SnapshotSound, PositionsSound, BootstrapTypes, RecordingSound,
      EndSound, Recording, NoRecording, RowsAt, NoSlot, Boot, Nobody, resourceVars,
      sourceVars, callVars, dbVars, clientVars, bootVars
<1>6. EndSound'
  BY <1>1 DEF EndSound, BootstrapTypes, RecordingSound, SnapshotSound, Recording,
      NoRecording, resourceVars, sourceVars, callVars, dbVars, clientVars, bootVars
<1> QED
  BY <1>2, <1>3, <1>4, <1>5, <1>6 DEF BootstrapInv

\* An assessment reads the slot, and after it the WAL position.
LEMMA AssessKeeps ==
  ASSUME BootstrapInv, Assess, UNCHANGED bootVars
  PROVE  BootstrapInv'
<1>1. PositionsSound /\ BootstrapTypes /\ RecordingSound /\ SnapshotSound /\ EndSound
  BY DEF BootstrapInv
<1>a. /\ report.step = 0 => report'.step = 1 /\ report'.confirmed = slot.confirmed
      /\ report.step = 1 =>
           /\ report'.step = 2 /\ report'.confirmed = report.confirmed
           /\ report'.current = wal
      /\ report.step \in {0, 1} /\ slot.confirmed \in Nat /\ slot.confirmed <= wal /\ wal \in Nat
      /\ report' \in [step : 0 .. 2, confirmed : Nat, current : Nat]
  <2>1. report.step \in {0, 1} /\ slot.confirmed \in Nat /\ slot.confirmed <= wal /\ wal \in Nat
    BY <1>1, BoundsAssumption DEF Assess, PositionsSound
  <2>2. report \in [step : 0 .. 2, confirmed : Nat, current : Nat]
    BY <1>1 DEF PositionsSound
  <2>3. CASE report.step = 0
    <3>1. report' = [report EXCEPT !.step = 1, !.confirmed = slot.confirmed]
      BY <2>3 DEF Assess, Reading
    <3>2. report' = [step |-> 1, confirmed |-> slot.confirmed, current |-> report.current]
      BY <2>2, <3>1
    <3>3. report.confirmed \in Nat /\ report.current \in Nat
      BY <2>2
    <3> QED
      BY <2>1, <2>3, <3>2, <3>3
  <2>4. CASE report.step = 1
    <3>1. report' = [report EXCEPT !.step = 2, !.current = wal]
      BY <2>4 DEF Assess, Reading
    <3>2. report' = [step |-> 2, confirmed |-> report.confirmed, current |-> wal]
      BY <2>2, <3>1
    <3>3. report.confirmed \in Nat /\ report.current \in Nat
      BY <2>2
    <3> QED
      BY <2>1, <2>4, <3>2, <3>3
  <2> QED
    BY <2>1, <2>3, <2>4
<1>2. PositionsSound'
  BY <1>a, <1>1 DEF PositionsSound, resourceVars, sourceVars, callVars, dbVars,
      clientVars, bootVars, Assess, Reading
<1>3. BootstrapTypes'
  BY <1>1 DEF BootstrapTypes, Recording, NoRecording, resourceVars, sourceVars,
      callVars, dbVars, clientVars, bootVars, Assess, Reading
<1>4. RecordingSound'
  BY <1>1 DEF RecordingSound, BootstrapTypes, Recording, NoRecording,
      PositionsSound, NoSlot, Boot, Nobody, resourceVars, sourceVars, callVars,
      dbVars, clientVars, bootVars, Assess, Reading
<1>5. SnapshotSound'
  BY <1>1 DEF SnapshotSound, PositionsSound, BootstrapTypes, RecordingSound,
      EndSound, Recording, NoRecording, RowsAt, NoSlot, Boot, Nobody, resourceVars,
      sourceVars, callVars, dbVars, clientVars, bootVars, Assess, Reading
<1>6. EndSound'
  BY <1>1 DEF EndSound, BootstrapTypes, RecordingSound, SnapshotSound, Recording,
      NoRecording, resourceVars, sourceVars, callVars, dbVars, clientVars, bootVars,
      Assess, Reading
<1> QED
  BY <1>2, <1>3, <1>4, <1>5, <1>6 DEF BootstrapInv

\* Others take the slot away, make one of theirs, or change the catalog.
LEMMA MeddleSlotKeeps ==
  ASSUME BootstrapInv, OthersMeddle, UNCHANGED bootVars
  PROVE  BootstrapInv'
<1>1. PositionsSound /\ BootstrapTypes /\ RecordingSound /\ SnapshotSound /\ EndSound
  BY DEF BootstrapInv
<1>a. \/ slot' = slot \/ slot' = NoSlot
      \/ /\ slot' \in
              [by : {Boot, Others}, start : Nat, confirmed : Nat, unseen : SUBSET Cleanups]
         /\ slot' # NoSlot /\ slot'.by = Others /\ slot'.start = wal /\ slot'.confirmed = wal
  BY <1>1, BoundsAssumption, NewSlotFacts DEF PositionsSound, OthersMeddle, MeddleSlot, Meddle
<1>b. Others # Boot /\ NoSlot.by # Boot
  BY DEF Others, Boot, NoSlot, Nobody
<1>2. PositionsSound'
  BY BoundsAssumption, <1>1, <1>a DEF PositionsSound, bootVars, OthersMeddle
<1>3. BootstrapTypes'
  BY BoundsAssumption, <1>1 DEF BootstrapTypes, Recording, NoRecording,
      resourceVars, sourceVars, callVars, dbVars, clientVars, bootVars,
      OthersMeddle, MeddleSlot, Meddle, Others
<1>4. RecordingSound'
  BY <1>1, <1>a, <1>b DEF RecordingSound, BootstrapTypes, Recording,
      NoRecording, sourceVars, callVars, bootVars
<1>5. SnapshotSound'
  BY <1>1, <1>a, <1>b DEF SnapshotSound, RowsAt, sourceVars, callVars, bootVars, OthersMeddle
<1>6. EndSound'
  BY BoundsAssumption, <1>1 DEF EndSound, BootstrapTypes, RecordingSound,
      SnapshotSound, Recording, NoRecording, resourceVars, sourceVars, callVars,
      dbVars, clientVars, bootVars, OthersMeddle, MeddleSlot, Meddle, Others
<1> QED
  BY <1>2, <1>3, <1>4, <1>5, <1>6 DEF BootstrapInv

\* Others read the slot.
LEMMA ConfirmKeeps ==
  ASSUME BootstrapInv, OthersConfirm, UNCHANGED bootVars
  PROVE  BootstrapInv'
<1>1. PositionsSound /\ BootstrapTypes /\ RecordingSound /\ SnapshotSound /\ EndSound
  BY DEF BootstrapInv
<1>a. slot \in [by : {Boot, Others}, start : Nat, confirmed : Nat, unseen : SUBSET Cleanups]
  BY <1>1 DEF PositionsSound, OthersConfirm
<1>b. /\ slot' = [by |-> slot.by, start |-> slot.start, confirmed |-> wal, unseen |-> slot.unseen]
      /\ wal \in Nat /\ slot.start <= wal
  <2>1. wal \in Nat /\ slot.start <= slot.confirmed /\ slot.confirmed < wal
    BY <1>1, BoundsAssumption DEF PositionsSound, OthersConfirm
  <2> QED
    BY <1>a, <2>1 DEF OthersConfirm
<1>c. slot' \in [by : {Boot, Others}, start : Nat, confirmed : Nat, unseen : SUBSET Cleanups]
  BY <1>a, <1>b
<1>2. PositionsSound'
  BY <1>1, <1>b, <1>c DEF PositionsSound, bootVars, OthersConfirm
<1>3. BootstrapTypes'
  BY <1>1 DEF BootstrapTypes, Recording, NoRecording, resourceVars, sourceVars,
      callVars, dbVars, clientVars, bootVars, OthersConfirm
<1>4. RecordingSound'
  BY <1>1 DEF RecordingSound, BootstrapTypes, Recording, NoRecording,
      PositionsSound, NoSlot, Boot, Nobody, resourceVars, sourceVars, callVars,
      dbVars, clientVars, bootVars, OthersConfirm
<1>5. SnapshotSound'
  BY <1>1 DEF SnapshotSound, PositionsSound, BootstrapTypes, RecordingSound,
      EndSound, Recording, NoRecording, RowsAt, NoSlot, Boot, Nobody, resourceVars,
      sourceVars, callVars, dbVars, clientVars, bootVars, OthersConfirm
<1>6. EndSound'
  BY <1>1 DEF EndSound, BootstrapTypes, RecordingSound, SnapshotSound, Recording,
      NoRecording, resourceVars, sourceVars, callVars, dbVars, clientVars, bootVars,
      OthersConfirm
<1> QED
  BY <1>2, <1>3, <1>4, <1>5, <1>6 DEF BootstrapInv

-----------------------------------------------------------------------------
(* All steps                                                                 *)

\* A lease that has got its locks is where it was, and has them, unless its
\* session is ended.
LeaseStays ==
  step[Lease] \in {"held", "lost", "settled"} =>
    /\ step'[Lease] = step[Lease]
    /\ Lease \in conn' => Lease \in conn /\ \A k \in Keys : locks[k] = Lease => locks'[k] = Lease

\* Whatever of a cleanup is committed, the server has committed.
CommitsAreServers == \A c \in Cleanups : Commits(c) => ServerCommits(c)

\* Nothing of the slot and its assessment changes.
SlotStays == UNCHANGED <<slot, wal, report, meddled>>

\* No cleanup takes its last look while there is a slot.
LooksStay == slot = NoSlot \/ Unlooking' \subseteq Unlooking

\* A setup's step moves only itself.
LEMMA SetupMovesItself ==
  ASSUME ResourceInv, NEW u \in Setups, SetupStep(u)
  PROVE  LeaseStays /\ CommitsAreServers /\ SlotStays /\ LooksStay
<1>1. ServerTypes /\ CallerTypes /\ u \in Sessions /\ u # Lease
  BY Names DEF ResourceInv
<1>2. /\ \E to \in SetupSteps \union {"locking"} : step' = [step EXCEPT ![u] = to]
      /\ locks' = locks /\ conn' \subseteq conn \union {u} /\ SlotStays
      /\ sent \subseteq sent' /\ sent' \subseteq sent \union {u}
  <2>1. CASE Connect(u, NoReceipt)
    BY <2>1 DEF Connect, Go, SlotStays
  <2>2. CASE SetupChecks(u) \/ SetupAlters(u)
    BY <2>2 DEF SetupChecks, SetupAlters, Query, Go, SlotStays, SetupSteps
  <2>3. CASE SetupCreates(u) \/ SetupComments(u)
    BY <2>3 DEF SetupCreates, SetupComments, Query, Go, SlotStays, SetupSteps
  <2>4. CASE SetupReads(u) \/ SendCommit(u, "read") \/ Committed(u, "receipt")
    BY <2>4 DEF SetupReads, SendCommit, Committed, Settle, Go, SlotStays,
        SetupSteps, dbVars
  <2> QED
    BY <2>1, <2>2, <2>3, <2>4 DEF SetupStep
<1>3. LooksStay
  BY <1>1, <1>2, Names DEF LooksStay, Unlooking, CallerTypes
<1> QED
  BY <1>1, <1>2, <1>3, Names DEF LeaseStays, CommitsAreServers, Commits, CallerTypes

\* So does a cleanup's.
LEMMA CleanupMovesItself ==
  ASSUME ResourceInv, NEW c \in Cleanups, CleanupStep(c)
  PROVE  LeaseStays /\ CommitsAreServers /\ SlotStays /\ LooksStay
<1>1. ServerTypes /\ CallerTypes /\ c \in Sessions /\ c # Lease
  BY Names DEF ResourceInv
<1>2. /\ \E to \in CleanupSteps \union {"locking"} : step' = [step EXCEPT ![c] = to]
      /\ locks' = locks /\ conn' \subseteq conn \union {c} /\ sent \subseteq sent' /\ SlotStays
  <2>1. CASE \E r \in Receipts : Connect(c, r)
    BY <2>1 DEF Connect, Go, SlotStays
  <2>2. CASE CleanupChecksSlot(c) \/ CleanupFinds(c)
    BY <2>2 DEF CleanupChecksSlot, CleanupFinds, Query, Go, SlotStays, CleanupSteps
  <2>3. CASE CleanupRenames(c) \/ CleanupDrops(c)
    BY <2>3 DEF CleanupRenames, CleanupDrops, Query, Go, SlotStays, CleanupSteps
  <2>4. CASE CleanupFindsNothing(c) \/ SendCommit(c, "dropped") \/ Committed(c, "removed")
    BY <2>4 DEF CleanupFindsNothing, SendCommit, Committed, Settle, Go, SlotStays,
        CleanupSteps, dbVars
  <2> QED
    BY <2>1, <2>2, <2>3, <2>4 DEF CleanupStep
<1>3. \/ slot = NoSlot
      \/ /\ \E to \in CleanupSteps \union {"locking"} :
              step' = [step EXCEPT ![c] = to] /\ to # "dropped"
         /\ sent' = sent \/ (sent' = sent \union {c} /\ step[c] = "dropped")
  <2>1. CASE \E r \in Receipts : Connect(c, r)
    BY <2>1 DEF Connect, Go
  <2>2. CASE CleanupChecksSlot(c) \/ CleanupFinds(c)
    BY <2>2 DEF CleanupChecksSlot, CleanupFinds, Query, Go, CleanupSteps
  <2>3. CASE CleanupRenames(c)
    BY <2>3 DEF CleanupRenames, Query, Go, CleanupSteps
  <2>4. CASE CleanupDrops(c)
    BY <2>4 DEF CleanupDrops
  <2>5. CASE CleanupFindsNothing(c) \/ SendCommit(c, "dropped") \/ Committed(c, "removed")
    BY <2>5 DEF CleanupFindsNothing, SendCommit, Committed, Settle, Go, CleanupSteps,
        dbVars
  <2> QED
    BY <2>1, <2>2, <2>3, <2>4, <2>5 DEF CleanupStep
<1>4. LooksStay
  BY <1>1, <1>3, Names DEF LooksStay, Unlooking, CallerTypes
<1> QED
  BY <1>1, <1>2, <1>4, Names DEF LeaseStays, CommitsAreServers, Commits, CallerTypes

\* A step of the resources leaves a lease alone that has its locks, commits what
\* the server commits, and moves the slot only where it says so; no cleanup gets
\* beyond its last look over a slot.
LEMMA ResourceFrame ==
  ASSUME ResourceInv, ResourceNext \/ OpenLease
  PROVE  /\ LeaseStays /\ CommitsAreServers /\ LooksStay
         /\ SlotStays \/ Assess \/ OthersMeddle \/ OthersConfirm
<1>1. ServerTypes /\ CallerTypes /\ Lease \in Sessions
  BY Names DEF ResourceInv
<1>2. ASSUME NEW u \in Setups, SetupStep(u)
      PROVE  LeaseStays /\ CommitsAreServers /\ SlotStays /\ LooksStay
  BY <1>2, SetupMovesItself
<1>3. ASSUME NEW c \in Cleanups, CleanupStep(c)
      PROVE  LeaseStays /\ CommitsAreServers /\ SlotStays /\ LooksStay
  BY <1>3, CleanupMovesItself
<1>4. ASSUME NEW s \in Sessions, TakeLock(s)
      PROVE  LeaseStays /\ CommitsAreServers /\ SlotStays /\ LooksStay
  <2>1. step[s] = "locking" /\ UNCHANGED <<sent, conn>> /\ SlotStays
    BY <1>4 DEF TakeLock, SlotStays
  <2>2. \E to \in {"locking", "locked", "settled"} : step' = [step EXCEPT ![s] = to]
    BY <1>4 DEF TakeLock, Go, Settle
  <2>3. \/ locks' = locks
        \/ \E k \in Keys : locks[k] = Nobody /\ locks' = [locks EXCEPT ![k] = s]
    BY <1>4 DEF TakeLock, Keys
  <2>4. LooksStay
    BY <1>1, <2>1, <2>2 DEF LooksStay, Unlooking, CallerTypes
  <2> QED
    BY <1>1, <2>1, <2>2, <2>3, <2>4, Names DEF LeaseStays, CommitsAreServers, Commits,
        CallerTypes, ServerTypes
<1>5. ASSUME NEW s \in Sessions, Throws(s)
      PROVE  LeaseStays /\ CommitsAreServers /\ SlotStays /\ LooksStay
  BY <1>1, <1>5 DEF Throws, Settle, Go, dbVars, LeaseStays, CommitsAreServers,
      Commits, SlotStays, CallerTypes, LooksStay, Unlooking
<1>6. ASSUME NEW s \in Sessions, ServerCommits(s)
      PROVE  LeaseStays /\ CommitsAreServers /\ SlotStays /\ LooksStay
  <2>1. \A c \in Cleanups : c \in sent /\ c \notin sent' => c = s
    BY <1>6 DEF ServerCommits
  <2>2. LooksStay
    BY <1>1, <1>6 DEF ServerCommits, LooksStay, Unlooking, CallerTypes
  <2> QED
    BY <1>1, <1>6, <2>1, <2>2 DEF ServerCommits, LeaseStays, CommitsAreServers, Commits,
        SlotStays, CallerTypes
<1>7. ASSUME NEW s \in Sessions, ServerEnds(s)
      PROVE  LeaseStays /\ CommitsAreServers /\ SlotStays /\ LooksStay
  BY <1>1, <1>7 DEF ServerEnds, EndSession, clientVars, LeaseStays,
      CommitsAreServers, Commits, SlotStays, LooksStay, Unlooking
<1>8. ASSUME NEW u \in Setups, Inspect(u)
      PROVE  LeaseStays /\ CommitsAreServers /\ SlotStays /\ LooksStay
  BY <1>8 DEF Inspect, dbVars, LeaseStays, CommitsAreServers, Commits, SlotStays,
      LooksStay, Unlooking
<1>9. ASSUME Assess \/ OthersMeddle \/ OthersConfirm
      PROVE  LeaseStays /\ CommitsAreServers /\ LooksStay
  BY <1>9 DEF Assess, OthersMeddle, OthersConfirm, Meddle, MeddleSlot, dbVars,
      clientVars, LeaseStays, CommitsAreServers, Commits, LooksStay, Unlooking
<1>10. ASSUME OpenLease
       PROVE  LeaseStays /\ CommitsAreServers /\ SlotStays /\ LooksStay
  <2>1. LooksStay
    BY <1>1, <1>10, Names DEF OpenLease, Connect, Go, LooksStay, Unlooking, CallerTypes
  <2> QED
    BY <1>10, <2>1 DEF OpenLease, Connect, LeaseStays, CommitsAreServers, Commits, SlotStays
<1> QED
  BY <1>2, <1>3, <1>4, <1>5, <1>6, <1>7, <1>8, <1>9, <1>10 DEF ResourceNext,
      ClientStep, ServerStep

\* A receipt that somebody has is of a publication.
LEMMA ReceiptFacts ==
  ASSUME ResourceInv, NEW r \in Receipts
  PROVE  r \in [oid : Oids \union {0}, marker : Setups \union {"none"}] /\ r.oid \in Oids
<1>1. PICK u \in Setups : outcome[u] = "receipt" /\ r = receipt[u]
  BY DEF Receipts
<1>2. u \in Sessions /\ SetupSound(u) /\ CallerTypes
  BY Names DEF ResourceInv, SessionSound
<1> QED
  BY <1>1, <1>2 DEF SetupSound, CallerTypes

\* Every step of the resources keeps what is true of them.
LEMMA ResourceStepKeeps ==
  ASSUME ResourceInv, ResourceNext \/ OpenLease
  PROVE  ResourceInv'
<1>1. ASSUME NEW u \in Setups, SetupStep(u) PROVE ResourceInv'
  <2>1. CASE Connect(u, NoReceipt)
    <3>1. NoReceipt \in [oid : Oids \union {0}, marker : Setups \union {"none"}] /\ u \in Sessions
      BY Names DEF NoReceipt
    <3> QED
      BY <2>1, <3>1, ConnectKeeps
  <2> QED
    BY <1>1, <2>1, SetupChecksKeeps, SetupAltersKeeps, SetupCreatesKeeps,
        SetupCommentsKeeps, SetupReadsKeeps, SetupSendsKeeps, SetupCommittedKeeps
        DEF SetupStep
<1>2. ASSUME NEW c \in Cleanups, CleanupStep(c) PROVE ResourceInv'
  <2>1. CASE \E r \in Receipts : Connect(c, r)
    <3>1. c \in Sessions
      BY Names
    <3> QED
      BY <2>1, <3>1, ReceiptFacts, ConnectKeeps
  <2> QED
    BY <1>2, <2>1, CleanupChecksKeeps, CleanupFindsKeeps, CleanupRenamesKeeps,
        CleanupDropsKeeps, CleanupFindsNothingKeeps, CleanupSendsKeeps,
        CleanupCommittedKeeps DEF CleanupStep
<1>3. ASSUME NEW s \in Sessions, TakeLock(s) \/ Throws(s) PROVE ResourceInv'
  BY <1>3, TakeLockKeeps, ThrowsKeeps
<1>4. ASSUME NEW s \in Sessions, ServerCommits(s) \/ ServerEnds(s) PROVE ResourceInv'
  BY <1>4, CommitKeeps, EndsKeeps
<1>5. ASSUME NEW u \in Setups, Inspect(u) PROVE ResourceInv'
  BY <1>5, InspectKeeps
<1>6. CASE OthersMeddle
  BY <1>6, MeddleKeeps
<1>7. CASE Assess \/ OthersConfirm
  BY <1>7, UntouchedKeeps DEF Assess, OthersConfirm
<1>8. CASE OpenLease
  <2>1. Lease \in Sessions
    BY Names
  <2> QED
    BY <1>8, <2>1, ReceiptFacts, ConnectKeeps DEF OpenLease
<1> QED
  BY <1>1, <1>2, <1>3, <1>4, <1>5, <1>6, <1>7, <1>8 DEF ResourceNext, ClientStep,
      ServerStep

\* Every step of a bootstrap keeps what is true of it, and the resources but the
\* slot and the source's position are untouched.
LEMMA BootstrapStepKeeps ==
  ASSUME BootstrapInv,
         \/ BootstrapStep \/ CreateSlot \/ CreateSlotFails
         \/ ConnectionFails \/ Crash \/ SourceCommits
  PROVE  /\ BootstrapInv' /\ UNCHANGED <<dbVars, clientVars>>
         /\ at = "idle" /\ at' # "idle" => Active
         /\ slot' = slot \/ slot' = NewSlot(Boot)
<1>1. BootstrapInv'
  <2>1. CASE BootstrapStep
    BY <2>1, CreateRecordingKeeps, BindRecordingKeeps, OpenConnectionsKeeps,
        SendCreateSlotKeeps, ImportSnapshotKeeps, BeginReadingKeeps, FetchBatchKeeps,
        StageBatchKeeps, EndSnapshotKeeps, CloseSourceKeeps, PublishKeeps,
        BootstrapThrowsKeeps, FailCloseKeeps, FailInvalidateKeeps DEF BootstrapStep
  <2> QED
    BY <2>1, CreateSlotKeeps, CreateSlotFailsKeeps, ConnectionFailsKeeps, CrashKeeps,
        SourceCommitsKeeps
<1>2. UNCHANGED <<dbVars, clientVars>> /\ (slot' = slot \/ slot' = NewSlot(Boot))
  <2>1. CASE CreateRecording \/ BindRecording \/ OpenConnections \/ SendCreateSlot
             \/ ImportSnapshot \/ BeginReading \/ FetchBatch
    BY <2>1 DEF CreateRecording, BindRecording, OpenConnections, SendCreateSlot,
        ImportSnapshot, BeginReading, FetchBatch, resourceVars
  <2>2. CASE StageBatch \/ EndSnapshot \/ CloseSource \/ Publish \/ BootstrapThrows \/ FailClose
             \/ FailInvalidate
    BY <2>2 DEF StageBatch, EndSnapshot, CloseSource, Publish, BootstrapThrows,
        FailClose, FailInvalidate, resourceVars
  <2>3. CASE CreateSlot \/ CreateSlotFails
    BY <2>3 DEF CreateSlot, CreateSlotFails, resourceVars
  <2>4. CASE ConnectionFails \/ Crash \/ SourceCommits
    BY <2>4 DEF ConnectionFails, Crash, SourceCommits, resourceVars
  <2> QED
    BY <2>1, <2>2, <2>3, <2>4 DEF BootstrapStep
<1>3. at = "idle" /\ at' # "idle" => CreateRecording
  BY DEF BootstrapStep, BindRecording, OpenConnections, SendCreateSlot, CreateSlot,
      CreateSlotFails, ImportSnapshot, BeginReading, FetchBatch, StageBatch,
      EndSnapshot, CloseSource, Publish, BootstrapThrows, FailClose, FailInvalidate,
      ConnectionFails, Crash, SourceCommits, Step, Request, callVars
<1> QED
  BY <1>1, <1>2, <1>3 DEF CreateRecording

\* What the lease does keeps everything.
LEMMA LeaseStepKeeps ==
  ASSUME LifecycleInv, LeaseStep \/ LeaseDrops
  PROVE  LifecycleInv' /\ \A c \in Cleanups : ~Commits(c)
<1>1. /\ ResourceInv /\ BootstrapInv /\ UnderLease /\ LooksSound
      /\ ServerTypes /\ CallerTypes /\ Lease \in Sessions
  BY Names DEF LifecycleInv, ResourceInv
<1>2. ResourceInv'
  BY <1>1, LeaseChecksKeeps, LeaseNoticesKeeps, LeaseClosesKeeps, LeaseDropsKeeps
      DEF LeaseStep
<1>3. BootstrapInv'
  BY <1>1, QuietKeeps DEF LeaseStep, LeaseChecks, LeaseNotices, LeaseCloses,
      LeaseDrops, bootVars, Settle
<1>4. UnderLease'
  <2>1. UNCHANGED at
    BY DEF LeaseStep, LeaseChecks, LeaseNotices, LeaseCloses, LeaseDrops, bootVars,
        callVars
  <2>2. CASE LeaseStep
    BY <1>1, <2>1, <2>2 DEF LeaseStep, LeaseChecks, LeaseNotices, LeaseCloses, Go,
        Settle, dbVars, UnderLease, Holds, CallerTypes
  <2>3. CASE LeaseDrops
    BY <1>1, <2>1, <2>3 DEF LeaseDrops, EndSession, clientVars, UnderLease
  <2> QED
    BY <2>2, <2>3
<1>5. \A c \in Cleanups : ~Commits(c)
  BY Names, <1>1 DEF LeaseStep, LeaseChecks, LeaseNotices, LeaseCloses, LeaseDrops,
      EndSession, dbVars, Commits
<1>6. LooksSound'
  <2>1. Unlooking' \subseteq Unlooking /\ slot' = slot
    <3>1. CASE LeaseStep
      BY <1>1, <3>1, Names DEF LeaseStep, LeaseChecks, LeaseNotices, LeaseCloses, Go,
          Settle, dbVars, Unlooking, CallerTypes
    <3>2. CASE LeaseDrops
      BY <3>2 DEF LeaseDrops, EndSession, clientVars, Unlooking
    <3> QED
      BY <3>1, <3>2
  <2> QED
    BY <1>1, <2>1 DEF LooksSound
<1> QED
  BY <1>2, <1>3, <1>4, <1>5, <1>6 DEF LifecycleInv

\* Every step keeps the invariant; what is committed of a cleanup, the server has
\* committed.
LEMMA StepKeeps ==
  ASSUME LifecycleInv, [Next]_vars
  PROVE  LifecycleInv' /\ CommitsAreServers
<1>1. ResourceInv /\ BootstrapInv /\ UnderLease /\ LooksSound
  BY DEF LifecycleInv
<1>2. CASE (ResourceNext \/ OpenLease) /\ UNCHANGED bootVars
  <2>1. ResourceInv'
    BY <1>1, <1>2, ResourceStepKeeps
  <2>2. /\ LeaseStays /\ CommitsAreServers /\ LooksStay
        /\ SlotStays \/ Assess \/ OthersMeddle \/ OthersConfirm
    BY <1>1, <1>2, ResourceFrame
  <2>3. BootstrapInv'
    BY <1>1, <1>2, <2>2, QuietKeeps, AssessKeeps, MeddleSlotKeeps, ConfirmKeeps DEF
        SlotStays
  <2>4. UnderLease'
    BY <1>1, <1>2, <2>2 DEF UnderLease, LeaseStays, Holds, bootVars, callVars
  <2>5. LooksSound'
    <3>1. CASE SlotStays \/ Assess
      BY <1>1, <2>2, <3>1 DEF LooksSound, LooksStay, SlotStays, Assess
    <3>2. CASE OthersConfirm
      <4>1. slot # NoSlot /\ slot'.unseen = slot.unseen
        BY <1>1, <3>2 DEF OthersConfirm, BootstrapInv, PositionsSound
      <4> QED
        BY <1>1, <2>2, <4>1 DEF LooksSound, LooksStay
    <3>3. CASE OthersMeddle
      <4>1. Unlooking' = Unlooking
        BY <3>3 DEF OthersMeddle, Meddle, MeddleSlot, dbVars, clientVars, Unlooking
      <4>2. slot' \in {slot, NoSlot, NewSlot(Others)}
        BY <3>3 DEF OthersMeddle, Meddle, MeddleSlot
      <4> QED
        BY <1>1, <4>1, <4>2 DEF LooksSound, NewSlot
    <3> QED
      BY <2>2, <3>1, <3>2, <3>3
  <2> QED
    BY <2>1, <2>2, <2>3, <2>4, <2>5 DEF LifecycleInv
<1>3. CASE \/ BootstrapStep \/ CreateSlot \/ CreateSlotFails
           \/ ConnectionFails \/ Crash \/ SourceCommits
  <2>1. /\ BootstrapInv' /\ UNCHANGED <<dbVars, clientVars>>
        /\ at = "idle" /\ at' # "idle" => Active
        /\ slot' = slot \/ slot' = NewSlot(Boot)
    BY <1>1, <1>3, BootstrapStepKeeps
  <2>2. ResourceInv'
    BY <1>1, <2>1, UntouchedKeeps
  <2>3. Active => step[Lease] = "held" /\ (Lease \in conn => Holds(Lease))
    BY <1>1, Names DEF Active, ResourceInv, SessionSound, HolderSound
  <2>4. UnderLease'
    BY <1>1, <2>1, <2>3 DEF UnderLease, Holds, dbVars, clientVars
  <2>5. CommitsAreServers
    BY <2>1 DEF CommitsAreServers, Commits, dbVars
  <2>6. LooksSound'
    BY <1>1, <2>1 DEF LooksSound, Unlooking, NewSlot, dbVars, clientVars
  <2> QED
    BY <2>1, <2>2, <2>4, <2>5, <2>6 DEF LifecycleInv
<1>4. CASE LeaseStep \/ LeaseDrops
  BY <1>4, LeaseStepKeeps DEF CommitsAreServers
<1>5. CASE UNCHANGED vars
  <2>1. UNCHANGED <<bootVars, slot, wal, report, meddled>> /\ UNCHANGED <<dbVars, clientVars>>
    BY <1>5 DEF vars, resourceVars
  <2>2. UnderLease'
    BY <1>1, <2>1 DEF UnderLease, Holds, dbVars, clientVars, bootVars, callVars
  <2>3. CommitsAreServers
    BY <2>1 DEF CommitsAreServers, Commits, dbVars
  <2>4. LooksSound'
    BY <1>1, <2>1 DEF LooksSound, Unlooking, dbVars, clientVars
  <2> QED
    BY <1>1, <2>1, <2>2, <2>3, <2>4, QuietKeeps, UntouchedKeeps DEF LifecycleInv
<1> QED
  BY <1>2, <1>3, <1>4, <1>5 DEF Next, BootstrapNext

\* It holds at the start.
LEMMA InitInv == Init => LifecycleInv
<1> SUFFICES ASSUME Init PROVE LifecycleInv
  OBVIOUS
<1>1. ServerTypes
  BY Names, NothingFacts DEF Init, ResourceInit, ServerTypes
<1>2. CallerTypes
  BY DEF Init, ResourceInit, CallerTypes, SetupSteps, NoReceipt
<1>3. CatalogSound
  BY Names, SessionsAssumption DEF Init, ResourceInit, CatalogSound, Named, Unused,
      Nobody
<1>4. ASSUME NEW s \in Sessions PROVE SessionSound(s)
  <2>1. /\ DOMAIN work[s] = {} /\ s \notin sent /\ s \notin conn
        /\ step[s] = "idle" /\ outcome[s] = "none"
    BY <1>4, NothingFacts DEF Init, ResourceInit
  <2>2. tables # s /\ \A k \in Keys : locks[k] # s
    BY <1>4, Names DEF Init, ResourceInit
  <2> QED
    BY <2>1, <2>2 DEF SessionSound, HolderSound, SetupSound, CleanupSound,
        LeaseSound, NoWork, SetupSteps, CleanupSteps, LeaseSteps
<1>5. PositionsSound
  <2>1. PICK r \in SUBSET Rows : past = << r >>
    BY DEF Init, BootstrapInit
  <2>2. past \in Seq(SUBSET Rows) /\ Len(past) = 1
    BY <2>1
  <2>3. /\ wal = 0 /\ slot = NoSlot /\ meddled = 0
        /\ report = [step |-> 0, confirmed |-> 0, current |-> 0]
    BY DEF Init, ResourceInit
  <2> QED
    BY <2>2, <2>3, BoundsAssumption DEF PositionsSound
<1>6. BootstrapTypes
  <2>1. NoPosition \in 0 .. NoPosition
    BY BoundsAssumption DEF NoPosition
  <2>2. Cardinality({}) <= BatchRows
    BY BatchRowsAssumption, FS_EmptySet
  <2> QED
    BY <2>1, <2>2 DEF Init, BootstrapInit, BootstrapTypes
<1>7. RecordingSound
  BY DEF Init, ResourceInit, BootstrapInit, RecordingSound, NoRecording, NoSlot,
      Nobody, Boot
<1>8. SnapshotSound /\ EndSound /\ UnderLease /\ LooksSound
  BY DEF Init, ResourceInit, BootstrapInit, SnapshotSound, EndSound, UnderLease,
      NoRecording, LooksSound
<1> QED
  BY <1>1, <1>2, <1>3, <1>4, <1>5, <1>6, <1>7, <1>8 DEF LifecycleInv, ResourceInv,
      BootstrapInv

-----------------------------------------------------------------------------
(* Theorems                                                                  *)

\* The invariant holds in every reachable state.
THEOREM LifecycleInvariant == Spec => []LifecycleInv
  BY InitInv, StepKeeps, PTL DEF Spec

\* Setup is whole, receipts and removals are true, and the distances of an
\* assessment are in order, whoever else changes the same objects.
THEOREM SourceSound == Spec => []SourceIsSound
<1>1. ASSUME LifecycleInv PROVE SourceIsSound
  <2>1. /\ ResourceInv /\ PositionsSound /\ BootstrapTypes
        /\ ServerTypes /\ CallerTypes /\ CatalogSound
    BY <1>1 DEF LifecycleInv, BootstrapInv, ResourceInv
  <2>2. \A s \in Sessions : DOMAIN work[s] \subseteq Oids
    BY <2>1, WorkFacts
  <2>3. TypeOK
    <3>1. slot # NoSlot => slot.start <= wal /\ slot.confirmed \in slot.start .. wal
      BY <2>1, BoundsAssumption DEF PositionsSound
    <3>2. \A o \in Oids :
            /\ catalog[o].name \in {"unused", "pub", "temporary", "renamed", "dropped"}
            /\ catalog[o].marker \in Setups \union {"none", Others}
      BY <2>1 DEF ServerTypes, Publication
    <3>3. \A s \in Sessions : receipt[s].oid \in Oids \union {0}
      BY <2>1 DEF CallerTypes
    <3> QED
      BY <2>1, <2>2, <3>1, <3>2, <3>3 DEF TypeOK, ServerTypes, PositionsSound,
          BootstrapTypes
  <2>4. SetupIsWhole
    <3>1. Named(catalog, "temporary") = {}
      BY <2>1 DEF CatalogSound, Named
    <3>2. Cardinality(Named(catalog, "pub")) <= 1
      <4>1. CASE Named(catalog, "pub") = {}
        BY <4>1, FS_EmptySet
      <4>2. CASE \E o : o \in Named(catalog, "pub")
        <5>1. PICK o : Named(catalog, "pub") = {o}
          BY <2>1, <4>2 DEF CatalogSound
        <5>2. Cardinality({o}) = 1
          BY FS_Singleton
        <5> QED
          BY <5>1, <5>2
      <4> QED
        BY <4>1, <4>2
    <3>3. Cardinality(Named(catalog, "temporary")) <= 1
      BY <3>1, FS_EmptySet
    <3> QED
      BY <2>1, <3>2, <3>3 DEF SetupIsWhole, CatalogSound
  <2>5. OutcomeIsCommitted
    BY <2>1, Names DEF OutcomeIsCommitted, ResourceInv, SessionSound, SetupSound,
        CleanupSound
  <2>6. AssessmentInOrder
    BY <2>1 DEF AssessmentInOrder, PositionsSound
  <2> QED
    BY <2>3, <2>4, <2>5, <2>6 DEF SourceIsSound
<1> QED
  BY <1>1, LifecycleInvariant, PTL

\* A published baseline is the source where its slot starts; a bootstrap that fails
\* or dies leaves a slot only with a recording bound to it, also a slot that is made
\* after its end; and one that fails and has published tells that its cleanup was
\* incomplete, or that of a store whose answers were lost.
THEOREM BootstrapSound == Spec => []BootstrapIsSound
<1>1. ASSUME LifecycleInv PROVE BootstrapIsSound
  <2>1. RecordingSound /\ SnapshotSound /\ EndSound
    BY <1>1 DEF LifecycleInv, BootstrapInv
  <2>2. BaselineMeetsStream
    BY <2>1 DEF SnapshotSound, BaselineMeetsStream
  <2>3. SlotIsAccountedFor
    BY <2>1 DEF RecordingSound, SlotIsAccountedFor
  <2>4. FailureLeavesNothing
    BY <2>1 DEF EndSound, FailureLeavesNothing
  <2> QED
    BY <2>2, <2>3, <2>4 DEF BootstrapIsSound
<1> QED
  BY <1>1, LifecycleInvariant, PTL

\* A cleanup removes the publication of its receipt and no other, never while a
\* capture has its lease, nor over a slot that was there at its last look, and over
\* a bootstrap's slot only when the session of its lease has ended.
THEOREM CleanupSafe == Spec => CleanupIsSafe
<1>1. ASSUME LifecycleInv, [Next]_vars
      PROVE  \A c \in Cleanups, o \in Oids :
               Commits(c) /\ catalog'[o] # catalog[o] =>
                 /\ o = receipt[c].oid
                 /\ catalog[o].name = "pub" /\ catalog[o].marker = receipt[c].marker
                 /\ catalog'[o].name = "dropped"
                 /\ ~(step[Lease] = "held" /\ Lease \in conn)
                 /\ slot # NoSlot => c \in slot.unseen /\ (slot.by = Boot => Lease \notin conn)
  <2> TAKE c \in Cleanups, o \in Oids
  <2> HAVE Commits(c) /\ catalog'[o] # catalog[o]
  <2>1. /\ ResourceInv /\ RecordingSound /\ UnderLease /\ LooksSound
        /\ c \in Sessions /\ Lease \in Sessions /\ c # Lease
    BY <1>1, Names DEF LifecycleInv, BootstrapInv
  <2>2. ServerCommits(c)
    BY <1>1, StepKeeps DEF CommitsAreServers
  <2>3. o \in DOMAIN work[c]
    BY <2>1, <2>2, CommitFacts
  <2>4. /\ o = receipt[c].oid /\ catalog[o].name = "pub" /\ catalog'[o].name = "dropped"
        /\ catalog[o].marker = receipt[c].marker
    BY <2>1, <2>2, <2>3, CommitFacts
  <2>5. ~Holds(Lease)
    <3>1. Holds(c)
      BY <2>1, SentHolds DEF Commits
    <3> QED
      BY <2>1, <3>1, OneHolder
  <2>6. ~(step[Lease] = "held" /\ Lease \in conn)
    BY <2>1, <2>5 DEF ResourceInv, SessionSound, HolderSound
  <2>7. slot # NoSlot => c \in slot.unseen /\ (slot.by = Boot => Lease \notin conn)
    <3>1. c \in Unlooking
      BY <1>1 DEF Commits, Unlooking
    <3>2. slot.by = Boot => Lease \notin conn
      BY <2>1, <2>5 DEF RecordingSound, UnderLease
    <3> QED
      BY <2>1, <3>1, <3>2 DEF LooksSound
  <2> QED
    BY <2>4, <2>6, <2>7
<1>2. ASSUME LifecycleInv, [Next]_vars
      PROVE  [\A c \in Cleanups, o \in Oids :
                Commits(c) /\ catalog'[o] # catalog[o] =>
                  /\ o = receipt[c].oid
                  /\ catalog[o].name = "pub" /\ catalog[o].marker = receipt[c].marker
                  /\ catalog'[o].name = "dropped"]_resourceVars
  BY <1>1, <1>2
<1>3. ASSUME LifecycleInv, [Next]_vars
      PROVE  [\A c \in Cleanups, o \in Oids :
                Commits(c) /\ catalog'[o] # catalog[o] =>
                  /\ ~(step[Lease] = "held" /\ Lease \in conn)
                  /\ slot # NoSlot => c \in slot.unseen /\ (slot.by = Boot => Lease \notin conn)]_vars
  BY <1>1, <1>3
<1> QED
  BY <1>2, <1>3, LifecycleInvariant, PTL DEF Spec, CleanupIsSafe, OnlyOwnedDropped,
      NothingRemovedUnderCapture
=============================================================================
