--------------------------- MODULE ProcessContract ---------------------------
(***************************************************************************)
(* What supervise_process promises its two callers, the producer step of   *)
(* run_attempt and the check loop of _run_checks (contracts/engine.py):    *)
(* the shape of a ProcessObservation, and how records.py and engine.py     *)
(* read one.  Supervisor.tla shows that the POSIX supervisor keeps it;     *)
(* Attempt.tla draws its observations from it.                             *)
(***************************************************************************)

\* ProcessObservation.returncode: 0, 1, any other code, or no code at all
Exits == {"zero", "one", "other", "none"}

\* ProcessObservation.stop_reason; "none" is Python's None
StopReasons == {"none", "timeout", "cancelled", "lingering_children"}

Observations ==
  [exit: Exits, stop: StopReasons, error: BOOLEAN, cleanup: BOOLEAN]

\* A process that could not be started.  On Windows a start that fails after
\* CreateProcess is reported without a cleanup confirmation.
Unstarted(o) == o.error /\ o.stop = "none" /\ o.exit = "none"

\* A request whose time was already spent: nothing was started
Expired(o) == ~o.error /\ o.stop = "timeout" /\ o.exit = "none" /\ o.cleanup

\* The process ended by itself, its group is empty and its pipes are drained
Ended(o) == ~o.error /\ o.stop = "none" /\ o.exit # "none" /\ o.cleanup

\* The supervisor had to stop the process; only a reaped leader and an empty
\* group confirm the cleanup
Stopped(o) == ~o.error /\ o.stop # "none" /\ (o.cleanup => o.exit # "none")

Supervised ==
  {o \in Observations : Unstarted(o) \/ Expired(o) \/ Ended(o) \/ Stopped(o)}

-----------------------------------------------------------------------------

\* The three normalized results of a check: 0, 1 and 2
Verdicts == {"pass", "reject", "unknown"}

\* Mutated: the workspace of the check need not verify
NormalizeUnverified(o, intact) ==
  IF o.error \/ o.stop # "none" \/ ~o.cleanup THEN "unknown"
  ELSE CASE o.exit = "zero" -> "pass"
         [] o.exit = "one"  -> "reject"
         [] OTHER           -> "unknown"

\* records.normalize_check: exit 0 and 1 count only if nothing else went wrong
Normalize(o, intact) ==
  IF ~intact \/ o.error \/ o.stop # "none" \/ ~o.cleanup THEN "unknown"
  ELSE CASE o.exit = "zero" -> "pass"
         [] o.exit = "one"  -> "reject"
         [] OTHER           -> "unknown"

\* engine._producer_failure: "none" or the reason that stops the attempt
ProducerFailure(o) ==
  CASE o.stop # "none"               -> o.stop
    [] o.stop = "none" /\ ~o.cleanup -> "producer_stop_unconfirmed"
    [] o.stop = "none" /\ o.cleanup  ->
         IF o.error \/ o.exit # "zero" THEN "producer_failed" ELSE "none"
=============================================================================
