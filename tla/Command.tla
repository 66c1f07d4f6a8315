------------------------------- MODULE Command --------------------------------
(***************************************************************************)
(* The whole command: what Supply prepares, the run and its completion,    *)
(* and the private roots around them.  _private_root removes its directory *)
(* on every way out: the root of the imports before invoke_contract        *)
(* handles an error, the root of the package after that, or before main    *)
(* handles the error if the package was still being prepared.              *)
(***************************************************************************)
EXTENDS Supply, Completion

VARIABLES
  previewed,  \* the plan was shown
  leftovers   \* private roots that stayed on the disk

roots == <<open, leftovers>>
commandVars == <<supplyVars, vars, previewed, leftovers>>

\* supplyVars without open and failure
prepared == <<world, at, kept, work, others, ran>>

Ended == pc = "done" /\ open = {}

\* The codes whose errors are UNPROVEN; the others are HALTED
Unproven == {"policy", "advisory_consent_required", "consent_declined", "unresolved_source"}

-----------------------------------------------------------------------------

Prepare ==
  /\ pc = "run"
  /\ SupplyNext
  /\ UNCHANGED <<vars, previewed, leftovers>>

\* The error of the preparation reaches a handler
Refused ==
  /\ pc = "run" /\ at = "refused"
  /\ Raise
  /\ UNCHANGED <<supplyVars, entry, packaged, result, evidence, sealed, announced, published,
                 unconfirmed, excused, exit, previewed, leftovers>>

\* logger.render_plan: the command has no result, and leaves the contexts
Preview ==
  /\ pc = "run" /\ at = "ready" /\ world.planning
  /\ previewed' \in BOOLEAN
  /\ IF previewed' THEN pc' = "previewed" ELSE Raise
  /\ UNCHANGED <<supplyVars, entry, packaged, result, evidence, sealed, announced, published,
                 unconfirmed, excused, exit, leftovers>>

Perform ==
  /\ at = "ready" /\ ~world.planning /\ world.through
  /\ Run
  /\ UNCHANGED <<supplyVars, previewed, leftovers>>

\* The roots that are left next: on an error in invoke_contract first that of the
\* imports, and that of the package after the exit code is chosen
Leaving ==
  CASE pc = "halt" /\ source # None -> open \cap {"imports"}
    [] pc = "halt" /\ source = None -> open
    [] pc \in {"previewed", "done"} -> open
    [] OTHER                        -> {}

\* Mutated: what cannot be removed is left without a word
CloseSilently ==
  /\ Leaving # {} /\ exit # Killed
  /\ open' = open \ Leaving
  /\ leftovers' \in {leftovers, leftovers \cup Leaving}
  /\ UNCHANGED <<prepared, failure, vars, previewed>>

\* The finally clause of _private_root: a failure of the removal, or Ctrl+C in it,
\* replaces what was on its way out.  main does not know the result of a command
\* that invoke_contract ended.
Close ==
  /\ Leaving # {} /\ exit # Killed
  /\ open' = open \ Leaving
  /\ \/ UNCHANGED <<leftovers, failure, pc, exit>>
     \/ /\ leftovers' = leftovers \cup Leaving
        /\ failure' = "source_cleanup"
        /\ pc' = (IF pc = "done" THEN "error" ELSE "halt") /\ exit' = Running
  /\ UNCHANGED <<prepared, entry, packaged, result, evidence, sealed, announced, published,
                 unconfirmed, excused, previewed>>

\* The same on the ordinary way out of a run
Leave(root) ==
  /\ pc = root
  /\ LeaveContexts
  /\ open' = open \ {root}
  /\ IF pc' = "halt"
     THEN /\ leftovers' \in {leftovers, leftovers \cup ({root} \cap open)}
          /\ failure' = "source_cleanup"
     ELSE UNCHANGED <<leftovers, failure>>
  /\ UNCHANGED <<prepared, previewed>>

\* A preview ends with 0, and a source that could not be fetched with 2
EndPreview ==
  /\ pc = "previewed" /\ open = {}
  /\ Exit(0)
  /\ UNCHANGED <<supplyVars, entry, packaged, result, evidence, sealed, announced, published,
                 unconfirmed, excused, previewed, leftovers>>

Unavailable ==
  /\ pc = "halt" /\ Leaving = {} /\ failure = "preview_source_unavailable"
  /\ Exit(2)
  /\ UNCHANGED <<supplyVars, entry, packaged, result, evidence, sealed, announced, published,
                 unconfirmed, excused, previewed, leftovers>>

\* main records the stop of the run, if there is one that it knows of
RecordStop ==
  /\ Leaving = {} /\ failure # "preview_source_unavailable"
  /\ Halt
  /\ UNCHANGED <<supplyVars, previewed, leftovers>>

\* A preparation that failed ends with the outcome of its error
Report ==
  /\ ReportError
  /\ failure # None => exit' \in {IF failure \in Unproven THEN 21 ELSE 22, Traceback}
  /\ UNCHANGED <<supplyVars, previewed, leftovers>>

Continue ==
  /\ \/ Capture \/ Validate \/ Render \/ Export \/ Publish \/ Unstage \/ ReportDelivery
     \/ Interrupt /\ pc \notin {"imports", "source"}
     \/ Meddle /\ result # "none"
  /\ UNCHANGED <<supplyVars, previewed, leftovers>>

\* Nothing is removed any more
Die ==
  /\ Kill
  /\ leftovers' = leftovers \cup open /\ open' = {}
  /\ UNCHANGED <<prepared, failure, previewed>>

CommandInit ==
  /\ SupplyInit /\ Init
  /\ packaged = world.packaged
  /\ (entry = "factory") = world.factory
  /\ previewed = FALSE /\ leftovers = {}

CommandNext ==
  \/ Prepare \/ Refused \/ Preview \/ Perform \/ Close \/ Leave("imports") \/ Leave("source")
  \/ EndPreview \/ Unavailable \/ RecordStop \/ Report \/ Continue \/ Die

CommandSpec == CommandInit /\ [][CommandNext]_commandVars

-----------------------------------------------------------------------------
(* Properties *)

\* Exit 0 of an execution means that the record shows COMPLETE, the result was
\* sealed and announced, and the whole receipt is in place.  A preview that exits
\* with 0 showed the plan and left no run.
ExitZeroIsDelivered ==
  exit = 0 =>
    IF world.planning THEN previewed /\ result = "none" /\ record = "open"
    ELSE /\ Complete /\ record = "COMPLETE" /\ sealed /\ announced
         /\ published = Targets
         /\ entry = "repaired" => selected

\* A command that leaves a private root behind never ends as if all were well:
\* its exit code is that of a halt, of a traceback or of its death, also when the
\* removal failed after another exit code was chosen.
StagingIsAccounted ==
  Ended /\ leftovers # {} => exit \in {22, Traceback, Killed}

\* The exit code accounts for the delivery and for what the command leaves behind.
ExitIsAccounted == ExitZeroIsDelivered /\ StagingIsAccounted
=============================================================================
