------------------------- MODULE PortableRecordings -------------------------
(* A recording goes through a file: RecordingExport writes it, RecordingImport *)
(* reads what is there, or what became of it on the way.                     *)
EXTENDS RecordingImport

CONSTANTS
  Views, DerivedId,     \* what may be exported, and the id of a derived copy
  Damaged(_)            \* what a file may have become

VARIABLES target, step, view, handle, lease, tempdir, cancelled, failures

Exports == INSTANCE RecordingExport WITH errors <- failures

\* What is written, and what becomes of it, is made of records.
ASSUME FilesAssumption ==
  \A h \in Views : \A e \in Exports!Exportable(h) :
    \A file \in {Exports!FileOf(e)} \union Damaged(Exports!FileOf(e)) : file \in File

exportVars == <<target, step, view, handle, lease, tempdir, cancelled, failures>>
vars == <<exportVars, importVars>>

Init == Exports!ExportInit /\ ImportInit

\* The export succeeded; its file is handed over.
Handed == step = "settled" /\ failures = {} /\ ~cancelled

\* An import starts with the exported file, or with what it was turned into.
Start(i) ==
  /\ phase[i] = "idle"
  /\ \E file \in {target} \union Damaged(target) : StartImport(i, file)

Next ==
  \/ Exports!ExportNext /\ UNCHANGED importVars
  \/ /\ Handed
     /\ ImportNext \/ \E i \in Importers : Start(i)
     /\ UNCHANGED exportVars

Proceeds ==
  \/ step # "idle" /\ Exports!ExportStep /\ UNCHANGED importVars
  \/ Handed /\ ImportProceeds /\ UNCHANGED exportVars

Spec == Init /\ [][Next]_vars /\ WF_vars(Proceeds)

TypeOK ==
  /\ step \in {"idle", "pinned", "created", "writing", "synced", "closed", "released",
               "cleaning", "settled"}
  /\ handle \in BOOLEAN /\ lease \in BOOLEAN /\ cancelled \in BOOLEAN
  /\ failures \subseteq {"cancelled", "failed", "exists", "unremoved", "unclosed"}
  /\ committing \in Importers \union {Nobody}
  /\ workerUp \in BOOLEAN
  /\ client \in {"open", "closing", "closed", "failed"}
  /\ store \in {"open", "closing", "closed"}
  /\ roots \subseteq Importers
  /\ at \in [Importers -> Nat]
  /\ \A i \in Importers : Len(batch[i]) <= BatchRows /\ RowsOf(batch[i]) \subseteq Rows
  /\ baselined \in [Importers -> BOOLEAN]
  /\ phase \in [Importers -> {"idle", "reading", "asking", "ending", "discarding",
                              "releasing", "settled"}]
  /\ reply \in [Importers -> {"none", "ok", "refused", "lost"}]
  /\ opened \in [Importers -> BOOLEAN]
  /\ aborted \in [Importers -> BOOLEAN]
  /\ flag \in [Importers -> BOOLEAN]
  /\ errors \in [Importers -> SUBSET {"cancelled", "fault", "invalid", "refused", "lost",
                                        "unclean", "unremoved"}]

\* An import publishes what a verified file holds, whole, or nothing, and tells
\* its caller which of the two happened, or that it does not know.
PublicationIsSound ==
  TypeOK /\ OnlyVerifiedPublished /\ OutcomeIsTrue

\* The target is a complete file or untouched, nothing that was acquired stays
\* behind silently, and no directory goes while the worker has a database in it.
ResourcesAccountedFor ==
  /\ Exports!TargetComplete
  /\ Exports!ExportSettlesClean
  /\ SettlesClean
  /\ StageHasItsDirectory

\* No step replaces a file or a recording that is there, and none publishes an
\* import whose cancellation came before the decision to commit.
ExistingAndCancelledRespected ==
  Exports!NeverReplaced /\ ExistingKept /\ CancelledNeverCommits

\* Both operations end, also when the worker hangs, dies or is closed, and the
\* store's close ends.
EverythingSettles ==
  []<>( /\ step \in {"idle", "settled"}
        /\ \A i \in Importers : phase[i] \in {"idle", "settled"}
        /\ store # "closing" )
=============================================================================
