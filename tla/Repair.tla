-------------------------------- MODULE Repair --------------------------------
(***************************************************************************)
(* The bounded repair of one contract: run_repair of contracts/repair.py   *)
(* and the ControllerStore of contracts/records.py.  The controller runs   *)
(* fresh attempts on the same captured inputs, retries only a fully        *)
(* assessed rejection of a candidate it has not seen, links every attempt  *)
(* durably and selects the one that is COMPLETE.                           *)
(*                                                                         *)
(* An attempt is what RecordPromise says of Attempt: it returns an outcome *)
(* that its leaf record shows, or it raises and leaves a leaf record that  *)
(* shows no success unless its failure could not be persisted.             *)
(***************************************************************************)
EXTENDS Naturals, Sequences

CONSTANTS
  MaxAttempts,   \* budget.max_attempts
  Candidates     \* digests of what an attempt can deliver

\* frontend: max_attempts is between 1 and 16
ASSUME RepairAssumption == MaxAttempts \in 1 .. 16 /\ Candidates # {}

Attempts == 1 .. MaxAttempts
Outcomes == {"COMPLETE", "REJECTED", "UNPROVEN", "HALTED"}
WriteResults == {"written", "kept", "unsynced"}

\* A leaf record as its readers see it.  "full" marks an attempt whose checks
\* all ended with 0 or 1; "intact" that its retained bytes did not change.
LeafStates == Outcomes \cup {"absent", "open"}
Leaves == [state: LeafStates, candidate: Candidates \cup {"none"},
           full: BOOLEAN, intact: BOOLEAN]
NoLeaf == [state |-> "absent", candidate |-> "none", full |-> FALSE, intact |-> TRUE]

\* One row of data["attempts"]: only a recorded row has a digest
Rows == [run: Attempts, outcome: Outcomes \cup {"none"}]

Failures == {"raised", "unpersisted", "interrupted", "crashed"}

Reasons == {"none", "complete", "not_retryable", "no_progress", "max_attempts", "aborted"}

\* record.json of the controller
Controllers == [phase: {"absent", "admitted", "captured", "executing", "assessed",
                        "finished", "halted"},
                finalized: BOOLEAN, selected: 0 .. MaxAttempts, attempts: Seq(Rows)]
NoController == [phase |-> "absent", finalized |-> FALSE, selected |-> 0, attempts |-> <<>>]

VARIABLES
  pc,        \* the next step of run_repair
  index,     \* the attempt in progress
  reason,    \* why the controller stopped
  tried,     \* "seen": candidates already rejected
  data,      \* ControllerStore._data
  disk,      \* the controller's record.json
  leaf,      \* attempt -> its leaf record
  expired,   \* the shared deadline has passed
  started,   \* history: attempts whose producer was started
  validated, \* history: how often the selection passed validation
  reply      \* how run_repair ended: an outcome, or one of Failures

world == <<leaf, expired, started>>
vars == <<pc, index, reason, tried, data, disk, world, validated, reply>>

-----------------------------------------------------------------------------

Write(new, w) ==
  /\ data' = new
  /\ disk' = IF w = "kept" THEN disk ELSE new

\* A write of the controller record; the except clause of run_repair aborts
Update(new, next) ==
  \E w \in WriteResults : Write(new, w) /\ pc' = IF w = "written" THEN next ELSE "abort"

Abort == pc' = "abort" /\ UNCHANGED <<data, disk>>

\* create_controller is outside the try block
Create ==
  /\ pc = "create"
  /\ \E w \in WriteResults :
       /\ Write([NoController EXCEPT !.phase = "admitted"], w)
       /\ IF w = "written" THEN pc' = "freeze" /\ UNCHANGED reply
          ELSE pc' = "done" /\ reply' = "raised"
  /\ UNCHANGED <<index, reason, tried, world, validated>>

\* Capture the project, compare the admitted inventory, freeze both
Freeze ==
  /\ pc = "freeze"
  /\ Abort \/ Update([data EXCEPT !.phase = "captured"], "next")
  /\ UNCHANGED <<index, reason, tried, world, validated, reply>>

\* The head of the loop: the shared deadline
NextAttempt ==
  /\ pc = "next"
  /\ IF expired THEN Abort ELSE pc' = "allocate" /\ UNCHANGED <<data, disk>>
  /\ UNCHANGED <<index, reason, tried, world, validated, reply>>

\* Mutated: the attempt runs before it is linked
AllocateUnlinked ==
  /\ pc = "allocate"
  /\ leaf' = [leaf EXCEPT ![index].state = "open"]
  /\ pc' = "attempt"
  /\ UNCHANGED <<data, disk, index, reason, tried, expired, started, validated, reply>>

\* run_attempt admits and creates its leaf record
Allocate ==
  /\ pc = "allocate"
  /\ \/ Abort /\ leaf' \in {leaf, [leaf EXCEPT ![index].state = "open"]}
     \/ /\ leaf' = [leaf EXCEPT ![index].state = "open"]
        /\ pc' = "attach" /\ UNCHANGED <<data, disk>>
  /\ UNCHANGED <<index, reason, tried, expired, started, validated, reply>>

\* The row of the attempt in progress
Row(outcome) == [run |-> index, outcome |-> outcome]

\* on_created: attach_attempt writes the row before any producer starts
Attach ==
  /\ pc = "attach"
  /\ Update([data EXCEPT !.phase = "executing",
               !.attempts = Append(@, Row("none"))], "attempt")
  /\ UNCHANGED <<index, reason, tried, world, validated, reply>>

\* The rest of run_attempt.  Returning, its leaf record shows the outcome; a
\* rejection names a candidate and may have checks that ended neither 0 nor 1.
Results ==
  {l \in Leaves : /\ l.state \in Outcomes /\ l.intact
                  /\ l.state \in {"COMPLETE", "REJECTED"} => l.candidate # "none"
                  /\ l.state = "COMPLETE" => l.full
                  /\ l.state \in {"UNPROVEN", "HALTED"} => ~l.full}

RunAttempt ==
  /\ pc = "attempt"
  /\ \/ /\ started' = started \cup {index}
        /\ \E result \in Results : leaf' = [leaf EXCEPT ![index] = result]
        /\ pc' = "record" /\ UNCHANGED <<data, disk>>
     \/ /\ started' \in {started, started \cup {index}}
        /\ \E l \in Results \cup {leaf[index]} : leaf' = [leaf EXCEPT ![index] = l]
        /\ Abort
  /\ UNCHANGED <<index, reason, tried, expired, validated, reply>>

\* record_attempt: the leaf record must still be the result that was returned
Record ==
  /\ pc = "record"
  /\ \/ /\ leaf[index].intact
        /\ Update([data EXCEPT !.phase = "assessed",
                     !.attempts = [@ EXCEPT ![index] = Row(leaf[index].state)]], "judge")
     \/ Abort
  /\ UNCHANGED <<index, reason, tried, world, validated, reply>>

\* Mutated: every rejection is retried
RetryableAny == leaf[index].state = "REJECTED"

\* Stop with a reason, or retry.  Only a rejection whose checks all ended with
\* 0 or 1 is retried, and reading its evidence back may raise.
Retryable == leaf[index].state = "REJECTED" /\ leaf[index].full

\* Mutated: a candidate may be repeated
StopReasonForgetful ==
  CASE leaf[index].state = "COMPLETE"                  -> "complete"
    [] leaf[index].state # "COMPLETE" /\ ~Retryable     -> "not_retryable"
    [] Retryable /\ index = MaxAttempts                -> "max_attempts"
    [] OTHER                                           -> "none"

StopReason ==
  CASE leaf[index].state = "COMPLETE"                            -> "complete"
    [] leaf[index].state # "COMPLETE" /\ ~Retryable               -> "not_retryable"
    [] Retryable /\ leaf[index].candidate \in tried               -> "no_progress"
    [] Retryable /\ leaf[index].candidate \notin tried /\ index = MaxAttempts
                                                                 -> "max_attempts"
    [] OTHER                                                     -> "none"

Judge ==
  /\ pc = "judge"
  /\ \/ /\ Retryable => leaf[index].intact
        /\ IF StopReason = "none"
           THEN /\ tried' = tried \cup {leaf[index].candidate}
                /\ index' = index + 1 /\ pc' = "next"
                /\ UNCHANGED reason
           ELSE /\ reason' = StopReason
                /\ pc' = IF StopReason = "complete" THEN "validate" ELSE "finish"
                /\ UNCHANGED <<index, tried>>
        /\ UNCHANGED <<data, disk>>
     \/ Abort /\ UNCHANGED <<index, reason, tried>>
  /\ UNCHANGED <<world, validated, reply>>

\* finish_controller: a COMPLETE leaf is validated before it is selected
Validate ==
  /\ pc = "validate"
  /\ \/ /\ leaf[index].intact
        /\ validated' = validated + 1
        /\ pc' = "finish" /\ UNCHANGED <<data, disk>>
     \/ Abort /\ UNCHANGED validated
  /\ UNCHANGED <<index, reason, tried, world, reply>>

Finish ==
  /\ pc = "finish"
  /\ Update([data EXCEPT !.phase = "finished", !.finalized = TRUE,
                         !.selected = IF reason = "complete" THEN index ELSE 0], "readback")
  /\ UNCHANGED <<index, reason, tried, world, validated, reply>>

\* _controller_document: the selected attempt is the last one and COMPLETE, all
\* earlier ones are rejections, and no retained byte of any of them changed
HistoryHolds ==
  /\ disk.finalized /\ disk.phase = "finished" /\ disk.selected = index
  /\ Len(disk.attempts) = index
  /\ \A i \in 1 .. index :
       /\ leaf[i].intact /\ disk.attempts[i].outcome = leaf[i].state
       /\ leaf[i].state = IF i = index THEN "COMPLETE" ELSE "REJECTED"

\* Mutated: the finished record is not read back
ReadBackSkipped ==
  /\ pc = "readback"
  /\ pc' = "return"
  /\ UNCHANGED <<index, reason, tried, data, disk, world, validated, reply>>

\* The record is read back; a selection is validated with its whole history
ReadBack ==
  /\ pc = "readback"
  /\ \/ /\ reason = "complete" => HistoryHolds
        /\ validated' = IF reason = "complete" THEN validated + 1 ELSE validated
        /\ pc' = "return" /\ UNCHANGED <<data, disk>>
     \/ Abort /\ UNCHANGED validated
  /\ UNCHANGED <<index, reason, tried, world, reply>>

\* The finished event and the return; Ctrl+C here still aborts
Return ==
  /\ pc = "return"
  /\ \/ pc' = "done" /\ reply' = leaf[index].state /\ UNCHANGED <<data, disk>>
     \/ Abort /\ UNCHANGED reply
  /\ UNCHANGED <<index, reason, tried, world, validated>>

\* ControllerStore.abort withdraws a selection; if that cannot be persisted the
\* error says so; Ctrl+C may take either answer
AbortController ==
  /\ pc = "abort"
  /\ \E w \in WriteResults :
       /\ Write([data EXCEPT !.phase = "halted", !.finalized = FALSE, !.selected = 0], w)
       /\ reply' \in {IF w = "written" THEN "raised" ELSE "unpersisted", "interrupted"}
  /\ reason' = "aborted" /\ pc' = "done"
  /\ UNCHANGED <<index, tried, world, validated>>

-----------------------------------------------------------------------------

\* Same-user processes can change what a finished attempt retained
Meddle ==
  /\ pc # "done"
  /\ \E i \in Attempts :
       /\ leaf[i].state \in Outcomes /\ leaf[i].intact
       /\ leaf' = [leaf EXCEPT ![i].intact = FALSE]
  /\ UNCHANGED <<pc, index, reason, tried, data, disk, expired, started, validated, reply>>

Expire ==
  /\ pc # "done" /\ ~expired
  /\ expired' = TRUE
  /\ UNCHANGED <<pc, index, reason, tried, data, disk, leaf, started, validated, reply>>

\* Ctrl+C before the try block, and in the handler before that of abort
Propagate ==
  /\ pc \in {"create", "abort"}
  /\ pc' = "done" /\ reply' = "interrupted"
  /\ UNCHANGED <<index, reason, tried, data, disk, world, validated>>

Crash ==
  /\ pc # "done"
  /\ pc' = "done" /\ reply' = "crashed"
  /\ UNCHANGED <<index, reason, tried, data, disk, world, validated>>

Init ==
  /\ pc = "create" /\ index = 1 /\ reason = "none" /\ tried = {}
  /\ data = NoController /\ disk = NoController
  /\ leaf = [i \in Attempts |-> NoLeaf] /\ expired = FALSE /\ started = {}
  /\ validated = 0 /\ reply = "none"

Step ==
  \/ Create \/ Freeze \/ NextAttempt \/ Allocate \/ Attach \/ RunAttempt \/ Record
  \/ Judge \/ Validate \/ Finish \/ ReadBack \/ Return \/ AbortController

Next == Step \/ Propagate \/ Meddle \/ Expire \/ Crash

Spec == Init /\ [][Next]_vars
FairSpec == Spec /\ WF_vars(Step)

-----------------------------------------------------------------------------
(* Properties *)

\* A controller record that shows a selection selects its last attempt, whose
\* leaf record shows COMPLETE, and lists before it only fully assessed
\* rejections of pairwise different candidates.
SelectionIsEarned ==
  disk.selected # 0 =>
    /\ disk.finalized /\ disk.selected = Len(disk.attempts) /\ validated > 0
    /\ leaf[disk.selected].state = "COMPLETE"
    /\ \A i \in 1 .. disk.selected - 1 :
         /\ disk.attempts[i].outcome = "REJECTED" /\ leaf[i].full
         /\ \A j \in 1 .. i - 1 : leaf[i].candidate # leaf[j].candidate

\* No producer ever runs without being linked: a crash at any point leaves a
\* controller record with a row for every attempt that was started.
EveryStartIsLinked ==
  \A i \in started : i <= Len(disk.attempts) /\ disk.attempts[i].run = i

\* A retry follows only the assessed rejection of a candidate that had not been
\* rejected before, within the budget of attempts, and after the deadline no
\* retry is allocated.
RetryIsJustified ==
  [][/\ index' # index => /\ index' = index + 1
                          /\ leaf[index].state = "REJECTED" /\ leaf[index].full
                          /\ \A j \in 1 .. index - 1 :
                               leaf[j].candidate # leaf[index].candidate
     /\ (pc = "next" /\ pc' = "allocate") => ~expired]_vars

=============================================================================
