-------------------------- MODULE RecordingExport ---------------------------
(* exportRecordingFile (export-file.ts): a pinned session is written record  *)
(* by record to a private file beside the destination, which is published by *)
(* one exclusive link; every resource acquired on the way is given back,     *)
(* whatever failed.  Any step may fail, the signal may fire at any time, and *)
(* others may create the destination meanwhile.                              *)
EXTENDS RecordingFile

CONSTANTS
  Views,        \* histories a session may pin
  DerivedId     \* the id of a derived copy

VARIABLES
  target,       \* the file at the destination
  step,         \* where the export is
  view,         \* what it exports
  handle,       \* the temporary file is open
  lease,        \* the export session is open
  tempdir,      \* the private directory: absent, or what its file holds
  cancelled,    \* the signal
  errors        \* what has failed, in words of this model

exportVars == <<target, step, view, handle, lease, tempdir, cancelled, errors>>

Absent  == [kind |-> "absent"]
Foreign == [kind |-> "foreign"]
EmptyDirectory == [kind |-> "directory"]
NoView  == [kind |-> "none"]

ExportInit ==
  /\ target = Absent
  /\ step = "idle"
  /\ view = NoView
  /\ handle = FALSE
  /\ lease = FALSE
  /\ tempdir = Absent
  /\ cancelled = FALSE
  /\ errors = {}

\* What an active recording is written as when columns are dropped: a copy of
\* its own that no recorder continues.
Derived(h) ==
  [h EXCEPT !.id = DerivedId,
            !.status = IF @ = "recording" THEN "interrupted" ELSE @]

\* A derived copy needs an id of its own.
Exportable(h) == IF h.id = DerivedId THEN {h} ELSE {h, Derived(h)}

ExportFails(what) ==
  /\ errors' = errors \union {what}
  /\ step' = "cleaning"

\* checkCancelled before a step.
Uncancelled(from) == step = from /\ ~cancelled

\* The export throws where it is: on cancellation, or because a step failed.
ExportThrows ==
  /\ step \in {"pinned", "created", "writing", "synced", "closed", "released"}
  /\ ExportFails(IF cancelled THEN "cancelled" ELSE "failed")
  /\ UNCHANGED <<target, view, handle, lease, tempdir, cancelled>>

OpenSession ==
  /\ Uncancelled("idle")
  /\ \E h \in Views :
       \/ /\ view' \in Exportable(h)
          /\ lease' = TRUE
          /\ step' = "pinned"
          /\ UNCHANGED errors
       \/ ExportFails("failed") /\ UNCHANGED <<view, lease>>
  /\ UNCHANGED <<target, handle, tempdir, cancelled>>

MakeDirectory ==
  /\ Uncancelled("pinned")
  /\ tempdir' = EmptyDirectory
  /\ step' = "created"
  /\ UNCHANGED <<target, view, handle, lease, cancelled, errors>>

OpenTemporary ==
  /\ step = "created"
  /\ tempdir' = Unfinished(<< >>)
  /\ handle' = TRUE
  /\ step' = "writing"
  /\ UNCHANGED <<target, view, lease, cancelled, errors>>

\* A chunk: one more record, or the trailer after the last.
WriteChunk ==
  /\ Uncancelled("writing")
  /\ tempdir.trailer = NoTrailer
  /\ LET written == Len(tempdir.records)
     IN tempdir' = IF written < Len(Records(view))
                     THEN Unfinished(SubSeq(Records(view), 1, written + 1))
                     ELSE Framed(tempdir.records)
  /\ UNCHANGED <<target, step, view, handle, lease, cancelled, errors>>

\* Mutant of AllWritten: the last chunk is not waited for.
AllWrittenButTrailer == Len(tempdir.records) = Len(Records(view))

AllWritten == tempdir.trailer # NoTrailer

SyncFile ==
  /\ Uncancelled("writing")
  /\ AllWritten
  /\ step' = "synced"
  /\ UNCHANGED <<target, view, handle, lease, tempdir, cancelled, errors>>

\* The handle is given up before it is closed, so it is closed once.
CloseFile ==
  /\ step = "synced"
  /\ handle' = FALSE
  /\ \/ step' = "closed" /\ UNCHANGED errors
     \/ ExportFails("failed")
  /\ UNCHANGED <<target, view, lease, tempdir, cancelled>>

ReleaseSession ==
  /\ step = "closed"
  /\ lease' = FALSE
  /\ \/ step' = "released" /\ UNCHANGED errors
     \/ ExportFails("failed")
  /\ UNCHANGED <<target, view, handle, tempdir, cancelled>>

\* Mutant of Free: a rename, which replaces what is there.
FreeAlways == TRUE

\* link() is exclusive.
Free == target = Absent

Publish ==
  /\ Uncancelled("released")
  /\ IF Free
       THEN target' = tempdir /\ step' = "cleaning" /\ UNCHANGED errors
       ELSE UNCHANGED target /\ ExportFails("exists")
  /\ UNCHANGED <<view, handle, lease, tempdir, cancelled>>

\* Mutant of CleanUp: an export that failed leaves its directory behind.
CleanUpOnSuccess ==
  /\ step = "cleaning"
  /\ handle' = FALSE
  /\ lease' = FALSE
  /\ tempdir' = IF errors = {} THEN Absent ELSE tempdir
  /\ UNCHANGED errors
  /\ step' = "settled"
  /\ UNCHANGED <<target, view, cancelled>>

\* What is still held is closed, and the directory removed; each may fail,
\* and none keeps the others from being tried.
CleanUp ==
  /\ step = "cleaning"
  /\ handle' = FALSE
  /\ lease' = FALSE
  /\ \/ tempdir' = Absent /\ UNCHANGED errors
     \/ tempdir # Absent /\ UNCHANGED tempdir /\ errors' = errors \union {"unremoved"}
     \/ tempdir' = Absent /\ (handle \/ lease) /\ errors' = errors \union {"unclosed"}
  /\ step' = "settled"
  /\ UNCHANGED <<target, view, cancelled>>

Cancel ==
  /\ ~cancelled
  /\ step # "settled"
  /\ cancelled' = TRUE
  /\ UNCHANGED <<target, step, view, handle, lease, tempdir, errors>>

\* Refused before anything is acquired.
RefuseExport ==
  /\ step = "idle"
  /\ cancelled
  /\ ExportFails("cancelled")
  /\ UNCHANGED <<target, view, handle, lease, tempdir, cancelled>>

SomebodyCreates ==
  /\ target = Absent
  /\ step # "settled"
  /\ target' = Foreign
  /\ UNCHANGED <<step, view, handle, lease, tempdir, cancelled, errors>>

ExportStep ==
  \/ RefuseExport \/ OpenSession \/ MakeDirectory \/ OpenTemporary \/ WriteChunk \/ SyncFile
  \/ CloseFile \/ ReleaseSession \/ Publish \/ ExportThrows \/ CleanUp

ExportNext == ExportStep \/ Cancel \/ SomebodyCreates

-----------------------------------------------------------------------------
(* The destination is nothing, somebody else's file, or the complete and      *)
(* correct file of the exported view: never a part of it, and never one that  *)
(* took the place of another.                                                 *)
TargetComplete ==
  target \in {Absent, Foreign} \/ target = FileOf(view)

\* An existing file is never replaced (packages/exchange/src/export-file.ts:24).
NeverReplaced == [][target # Absent => target' = target]_exportVars

\* A settled export holds nothing; its directory is gone or the failure to
\* remove it was reported; and it succeeded only with the file in place.
ExportSettlesClean ==
  step = "settled" =>
    /\ ~handle /\ ~lease
    /\ \/ tempdir = Absent
       \/ "unremoved" \in errors
    /\ errors = {} => target = FileOf(view)
=============================================================================
