----------------------------- MODULE MCSupervisor -----------------------------
(***************************************************************************)
(* Both supervisors with a request of two ticks and a cleanup allowance of *)
(* six; on Windows the user presses Ctrl+C at most twice.                  *)
(***************************************************************************)
EXTENDS WindowsSupervisor
=============================================================================
