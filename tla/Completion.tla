------------------------------ MODULE Completion ------------------------------
(***************************************************************************)
(* From the result of a run to the exit code of the command: main and      *)
(* _finish_result of cli.py, invoke_contract of commands/contracts.py, the *)
(* CompletionBoundary, halt_chain and preparation_failure of               *)
(* contracts/records.py and export_package of contracts/evidence.py.       *)
(*                                                                         *)
(* The run returns inside two contexts that prepared its sources and       *)
(* imports.  A COMPLETE result is sealed before they are left, validated   *)
(* again after, announced, and exported as a receipt.  Whatever raises on  *)
(* the way, the command records a stop in the run's record.                *)
(***************************************************************************)
EXTENDS Integers

Outcomes == {"COMPLETE", "REJECTED", "UNPROVEN", "HALTED"}

\* What was run: one contract, one under a repair budget, a factory
Entries == {"single", "repaired", "factory"}

ExitCode(o) ==
  CASE o = "COMPLETE" -> 0 [] o = "REJECTED" -> 20 [] o = "UNPROVEN" -> 21 [] OTHER -> 22

\* No code of the command's own: it runs, ended in a traceback, or was killed
Running == -1
Traceback == 1
Killed == 137

\* What a receipt consists of
Targets == {"outputs", "evidence", "bundle"}

VARIABLES
  pc,           \* the next step of the command
  entry,        \* what was run
  packaged,     \* the source came from a package
  result,       \* outcome of the result object, "none" if the run raised
  record,       \* outcome its record shows, "open" if that is unfinished
  selected,     \* the repair controller's record shows a selection
  sealed,       \* CompletionBoundary._identities is set
  intact,       \* records and retained bytes are those that were written
  announced,    \* the result was rendered
  published,    \* parts of the receipt in their final place
  unconfirmed,  \* the reported error says that the stop was not persisted
  excused,      \* history: the stop met failing storage or a changed record
  exit          \* exit code

evidence == <<record, selected, intact>>
vars == <<pc, entry, packaged, result, evidence, sealed, announced, published, unconfirmed,
          excused, exit>>

Complete == result = "COMPLETE"

\* main and invoke_contract catch ContractError, OSError and KeyboardInterrupt
Raise == pc' = "halt"

Exit(code) == pc' = "done" /\ exit' = code

-----------------------------------------------------------------------------

\* run_contract or run_chain: a result its record shows, or an exception after
\* which a success is visible only where nothing could withdraw it
Run ==
  /\ pc = "run"
  /\ \/ /\ result' \in Outcomes /\ record' = result'
        /\ selected' = (entry = "repaired" /\ result' = "COMPLETE")
        /\ pc' = "capture"
     \/ /\ record' \in {"open", "COMPLETE"} /\ Raise /\ UNCHANGED <<result, selected>>
  /\ UNCHANGED <<entry, packaged, intact, sealed, announced, published, unconfirmed,
                 excused, exit>>

\* CompletionBoundary.capture: read all retained evidence and keep its digests
Capture ==
  /\ pc = "capture"
  /\ \/ /\ Complete => intact
        /\ sealed' = Complete
        /\ pc' = "imports"
     \/ Complete /\ Raise /\ UNCHANGED sealed
  /\ UNCHANGED <<entry, packaged, result, evidence, announced, published, unconfirmed,
                 excused, exit>>

\* Leave prepare_imports, then prepare_contract_source: each may fail
LeaveContexts ==
  /\ \/ pc = "imports" /\ pc' = IF packaged THEN "source" ELSE "validate"
     \/ pc = "source" /\ pc' = "validate"
     \/ pc \in {"imports", "source"} /\ Raise
  /\ UNCHANGED <<entry, packaged, result, evidence, sealed, announced, published, unconfirmed,
                 excused, exit>>

\* CompletionBoundary.validate: the same digests, and everything read again
Validate ==
  /\ pc = "validate"
  /\ \/ (Complete => sealed /\ intact) /\ pc' = "render"
     \/ Complete /\ Raise
  /\ UNCHANGED <<entry, packaged, result, evidence, sealed, announced, published, unconfirmed,
                 excused, exit>>

\* logger.render_result; without COMPLETE the command ends here
Render ==
  /\ pc = "render"
  /\ \/ /\ announced' = TRUE
        /\ IF Complete THEN pc' = "export" /\ UNCHANGED exit ELSE Exit(ExitCode(result))
     \/ announced' \in BOOLEAN /\ Raise /\ UNCHANGED exit
  /\ UNCHANGED <<entry, packaged, result, evidence, sealed, published, unconfirmed, excused>>

\* export_package up to its last validation: it reads the record anew, stages
\* the receipt and checks it
Export ==
  /\ pc = "export"
  /\ \/ record = "COMPLETE" /\ intact /\ pc' = "publish"
     \/ pc' = "undelivered"
  /\ UNCHANGED <<entry, packaged, result, evidence, sealed, announced, published, unconfirmed,
                 excused, exit>>

\* Mutated: the bundle goes first
NextTargetReversed ==
  CASE "bundle" \notin published                               -> "bundle"
    [] "bundle" \in published /\ "evidence" \notin published   -> "evidence"
    [] OTHER                                                  -> "outputs"

NextTarget ==
  CASE "outputs" \notin published                                -> "outputs"
    [] "outputs" \in published /\ "evidence" \notin published     -> "evidence"
    [] OTHER                                                      -> "bundle"

\* One rename: it succeeds; it fails and what is there is removed as far as
\* possible; or Ctrl+C leaves what is there
Publish ==
  /\ pc = "publish" /\ published # Targets
  /\ \/ /\ published' = published \cup {NextTarget}
        /\ pc' = IF published' = Targets THEN "staged" ELSE "publish"
     \/ published' \in SUBSET published /\ pc' = "undelivered"
  /\ UNCHANGED <<entry, packaged, result, evidence, sealed, announced, unconfirmed,
                 excused, exit>>

\* Removing the staging directory may fail after the receipt is in place
Unstage ==
  /\ pc = "staged"
  /\ pc' \in {"report", "undelivered"}
  /\ UNCHANGED <<entry, packaged, result, evidence, sealed, announced, published, unconfirmed,
                 excused, exit>>

\* Mutated: a failed delivery is only reported
ReportDeliveryLenient ==
  /\ pc \in {"undelivered", "report"} /\ Exit(0)
  /\ UNCHANGED <<entry, packaged, result, evidence, sealed, announced, published, unconfirmed,
                 excused>>

\* evidence_delivery_failed and evidence_package print, and printing may raise
ReportDelivery ==
  /\ \/ pc = "undelivered" /\ Exit(23)
     \/ pc = "report" /\ Exit(0)
     \/ pc \in {"undelivered", "report"} /\ Raise /\ UNCHANGED exit
  /\ UNCHANGED <<entry, packaged, result, evidence, sealed, announced, published, unconfirmed,
                 excused>>

\* Ctrl+C in any step of the command after the run
Interrupt ==
  /\ pc \in {"capture", "imports", "source", "validate", "render", "report"}
  /\ Raise
  /\ UNCHANGED <<entry, packaged, result, evidence, sealed, announced, published, unconfirmed,
                 excused, exit>>

\* halt_chain compares the recorded result with the one in memory.  A leaf record
\* never carries the controller reference that the result of a repair has.
SameResult == intact /\ entry # "repaired"

\* Mutated: the error is reported as if the stop were recorded
HaltUnreported ==
  /\ pc = "halt"
  /\ pc' = "error"
  /\ record' = IF result # "none" /\ SameResult THEN "HALTED" ELSE record
  /\ UNCHANGED <<entry, packaged, result, selected, intact, sealed, announced, published,
                 unconfirmed, excused, exit>>

\* preparation_failure: without a result there is nothing to halt; otherwise the
\* stop is recorded, or the error says that it could not be
Halt ==
  /\ pc = "halt"
  /\ pc' = "error"
  /\ \/ result = "none" /\ UNCHANGED <<record, unconfirmed, excused>>
     \/ /\ result # "none" /\ SameResult
        /\ \/ record' = "HALTED" /\ UNCHANGED <<unconfirmed, excused>>
           \/ /\ record' \in {record, "HALTED", "open"}
              /\ unconfirmed' = TRUE /\ excused' = TRUE
     \/ /\ result # "none" /\ ~SameResult
        /\ unconfirmed' = TRUE /\ excused' = ~intact /\ UNCHANGED record
  /\ UNCHANGED <<entry, packaged, result, selected, intact, sealed, announced, published, exit>>

\* render_error, and the exit code of the error
ReportError ==
  /\ pc = "error"
  /\ \/ result = "none" /\ \E o \in Outcomes \ {"COMPLETE"} : Exit(ExitCode(o))
     \/ result # "none" /\ Exit(22)
     \/ Exit(Traceback)
  /\ UNCHANGED <<entry, packaged, result, evidence, sealed, announced, published, unconfirmed,
                 excused>>

\* Other processes of the user change and restore retained files
Meddle ==
  /\ pc # "done"
  /\ intact' = ~intact
  /\ UNCHANGED <<pc, entry, packaged, result, record, selected, sealed, announced, published,
                 unconfirmed, excused, exit>>

Kill ==
  /\ pc # "done"
  /\ Exit(Killed)
  /\ UNCHANGED <<entry, packaged, result, evidence, sealed, announced, published, unconfirmed,
                 excused>>

Init ==
  /\ pc = "run" /\ entry \in Entries /\ packaged \in BOOLEAN
  /\ result = "none" /\ record = "open" /\ selected = FALSE /\ intact = TRUE
  /\ sealed = FALSE /\ announced = FALSE /\ published = {} /\ unconfirmed = FALSE
  /\ excused = FALSE /\ exit = Running

Step ==
  \/ Run \/ Capture \/ LeaveContexts \/ Validate \/ Render \/ Export \/ Publish \/ Unstage
  \/ ReportDelivery \/ Halt \/ ReportError

Next == Step \/ Interrupt \/ Meddle \/ Kill

Spec == Init /\ [][Next]_vars

-----------------------------------------------------------------------------
(* Properties *)

\* An exit code other than 0 tells the truth about the record: 20 and 21 repeat its
\* outcome, 23 leaves COMPLETE untouched, and 22 after a result is a recorded
\* halt unless the error says that the stop is unconfirmed.
ExitAgreesWithRecord ==
  result # "none" =>
    /\ exit \in {20, 21} => ExitCode(record) = exit
    /\ exit = 23 => record = "COMPLETE"
    /\ exit = 22 /\ ~unconfirmed => record = "HALTED"

\* A visible bundle is complete and stands for a result that was sealed and
\* validated after the contexts were left, even if the command dies meanwhile.
BundleIsLast ==
  "bundle" \in published => published = Targets /\ result = "COMPLETE" /\ sealed /\ announced

\* docs/results.md:22 about receipts: "REJECTED, UNPROVEN and HALTED runs never
\* do".  A run with a receipt is recorded as COMPLETE.
ReceiptOnlyOfComplete == published = Targets => record = "COMPLETE"

\* The docstring of halt_chain (contracts/records.py:1519) says of it: "Record a
\* preparation-context exit failure before the CLI can announce completion."  A
\* command that failed after the run leaves no visible success, unless storage
\* failed or somebody changed the record.
StopIsRecorded == (exit = 22 /\ result # "none" /\ ~excused) => record # "COMPLETE"
=============================================================================
