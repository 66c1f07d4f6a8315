---------------------------- MODULE AttemptPromise ----------------------------
(***************************************************************************)
(* One attempt implements the record promise.                              *)
(***************************************************************************)
EXTENDS Attempt

Sight ==
  CASE disk.phase = "absent"                              -> "absent"
    [] disk.phase # "absent" /\ VisibleSuccess             -> "success"
    [] disk.phase # "absent" /\ disk.complete /\ ~VisibleSuccess -> "settled"
    [] OTHER                                              -> "open"

CallerAnswer ==
  CASE reply = "COMPLETE"                                       -> "success"
    [] reply \in {"REJECTED", "UNPROVEN", "HALTED"}             -> "settled"
    [] reply \in {"refused", "not_allocated", "invalid", "unfinalized"} -> "exception"
    [] reply \in {"interrupted", "unpersisted", "crashed"}      -> "lost"
    [] OTHER                                                    -> "none"

Record == INSTANCE RecordPromise
  WITH visible <- Sight, validated <- assessed, answer <- CallerAnswer

\* Whatever fails around it, an attempt shows success only after validating
\* its evidence, answers COMPLETE only after validating it a second time, and
\* raises only after it withdrew what it showed; and it always ends with one of
\* these answers: it implements RecordPromise.
KeepsPromise == Record!Promise
=============================================================================
