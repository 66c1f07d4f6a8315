---------------------------- MODULE RepairPromise ----------------------------
(***************************************************************************)
(* The controller of a repair implements the record promise.               *)
(***************************************************************************)
EXTENDS Repair

Sight ==
  CASE disk.phase = "absent"                                        -> "absent"
    [] disk.phase # "absent" /\ disk.finalized /\ disk.selected # 0  -> "success"
    [] disk.phase # "absent" /\ disk.finalized /\ disk.selected = 0  -> "settled"
    [] OTHER                                                        -> "open"

CallerAnswer ==
  CASE reply = "COMPLETE"                            -> "success"
    [] reply \in {"REJECTED", "UNPROVEN", "HALTED"}  -> "settled"
    [] reply = "raised"                              -> "exception"
    [] reply \in Failures \ {"raised"}               -> "lost"
    [] OTHER                                         -> "none"

Record0 == INSTANCE RecordPromise
  WITH visible <- Sight, validated <- validated, answer <- CallerAnswer

\* The controller record keeps the promise of every record owner: a selection
\* is visible only after validation, returned only after a second one, and
\* withdrawn before an invocation raises; and the retries come to an end.
KeepsPromise == Record0!Promise
=============================================================================
