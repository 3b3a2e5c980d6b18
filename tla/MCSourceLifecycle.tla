------------------------- MODULE MCSourceLifecycle --------------------------
(* Instances of SourceLifecycle for TLC.                                     *)
EXTENDS SourceLifecycle, TLC

CONSTANTS u1, c1, lease

\* Who is between its first and its last step.
Busy(s) == step[s] # "idle" /\ s \in conn
Alone(S) == \A s \in Sessions \ S : ~Busy(s)

\* The faults of a bootstrap, and what the source commits while it reads or
\* after it, are explored while no setup and no cleanup runs; beside a cleanup
\* it fails only because its lease is lost.  An assessment comes before the
\* cleanup and runs beside what moves the slot.  Others meddle with a setup or a
\* cleanup that runs.
Apart ==
  /\ past' # past \/ broken' # broken \/ (at' = "dead" /\ at # "dead") \/ storeUp' # storeUp =>
       Alone({Lease})
  /\ past' # past => at \in {"slotting", "slotted", "imported", "reading", "staging", "settled"}
  /\ at' = "failing" /\ at # "failing" => Alone({Lease}) \/ step[Lease] = "lost"
  /\ meddled' # meddled => \E s \in Sessions \ {Lease} : Busy(s)
  /\ report' # report => Alone({}) /\ at \in {"idle", "settled"}
  /\ report'.step > 0 => \A c \in Cleanups : step'[c] = "idle"

MCInit == Init /\ past = << Rows >>

MCSpec == MCInit /\ [][Next /\ Apart]_vars /\ WF_vars(Proceeds)
=============================================================================
