------------------------------- MODULE Attempt -------------------------------
(***************************************************************************)
(* One fresh run of one contract: run_attempt and _run_checks of           *)
(* contracts/engine.py, with the AttemptStore of contracts/records.py that *)
(* makes its observations durable.  The run admits the plan, allocates a   *)
(* record, captures the project, supervises the producer, captures what it *)
(* delivered, runs every declared check on an independent copy, reduces    *)
(* the observations to an outcome and finalizes the record.  COMPLETE is   *)
(* issued by finalize alone, after the persisted evidence was read back.   *)
(*                                                                         *)
(* Around the run, other processes of the same user change files, the      *)
(* attempt's deadline passes, Ctrl+C arrives, any record write fails       *)
(* before or after it replaced the record, and the program dies.           *)
(***************************************************************************)
EXTENDS ProcessContract, Naturals

CONSTANTS NumChecks   \* the checks the contract declares under "verify"

\* frontend.load_contract admits between one and eight checks
ASSUME NumChecksAssumption == NumChecks \in Nat \ {0}

CheckIds == 1 .. NumChecks

Outcomes == {"COMPLETE", "REJECTED", "UNPROVEN", "HALTED"}

\* How an invocation ends: with an outcome, or with an exception
Failures == {"refused", "not_allocated", "interrupted", "invalid",
             "unfinalized", "unpersisted", "crashed"}
Replies == Outcomes \cup Failures \cup {"none"}

StopCodes == StopReasons \cup
  {"producer_stop_unconfirmed", "producer_failed", "native_reported_failure",
   "native_protocol_error", "native_completion_unobserved", "attempt_deadline",
   "checker_stop_unconfirmed", "filesystem_error", "contract_error"}

Phases == {"absent", "admitted", "preflight", "execution", "capture", "checks",
           "record", "finished", "finalization_failed"}

\* record.json, reduced to what its readers decide on: rows counts the check
\* observations it holds
Records == [phase: Phases, complete: BOOLEAN,
            outcome: Outcomes \cup {"none"}, rows: 0 .. NumChecks]

NoRecord == [phase |-> "absent", complete |-> FALSE, outcome |-> "none", rows |-> 0]

\* atomic_write_text(durable=True): it succeeded, it failed and kept the old
\* file, or the directory sync failed after the new file was in place
WriteResults == {"written", "kept", "unsynced"}

\* Program points: the try block of run_attempt, then its finalization
InTry == {"preflight", "baseline", "produce", "capture", "exports",
          "prepare", "start", "judge"}
Points == InTry \cup {"admit", "create", "reduce", "close", "finish", "assess",
                      "refuse", "certify", "reassess", "failing", "announce", "done"}

VARIABLES
  pc,         \* the next step of run_attempt or of finalize
  bound,      \* the plan carries an admitted inventory (repair and factory runs)
  stop,       \* stop_reason
  clean,      \* the producer exited 0, confirmed its cleanup and its completion
  artifact,   \* artifact is not None
  checks,     \* CheckId -> normalized result, "none" while not observed
  done,       \* how many checks were observed
  intact,     \* integrity_ok of the check in progress
  outcome,    \* result.outcome
  data,       \* AttemptStore._data
  disk,       \* record.json as any reader sees it
  reply,      \* how the invocation ended
  retained,   \* baseline and artifacts are the bytes that were captured
  subject,    \* the workspace of the current check holds the captured bytes
  inputs,     \* the caller's tree holds the admitted (captured) inputs
  expired,    \* the attempt's deadline has passed
  live,       \* history: a managed process may have survived its supervision
  judged,     \* history: checks whose subject was the captured bytes, both ends
  assessed    \* history: how often the persisted evidence passed validation

run == <<stop, clean, artifact, checks, done, intact, outcome>>
world == <<retained, subject, inputs, expired>>
history == <<live, judged, assessed>>
vars == <<pc, bound, run, data, disk, reply, world, history>>

-----------------------------------------------------------------------------
(* Writing the record, and leaving the try block *)

\* AttemptStore._write: memory already holds the new content when a write fails
Write(new, w) ==
  /\ data' = new
  /\ disk' = IF w = "kept" THEN disk ELSE new

\* The except clauses of run_attempt: Ctrl+C overrides, any other error keeps
\* the reason already known
LeaveWith(code) ==
  /\ pc' = "reduce"
  /\ stop' = IF code = "cancelled" \/ stop = "none" THEN code ELSE stop

\* AttemptStore.update inside the try block: go on to next, or leave it
Update(new, next) ==
  \E w \in WriteResults :
    /\ Write(new, w)
    /\ IF w = "written" THEN pc' = next /\ UNCHANGED stop
       ELSE \E code \in {"filesystem_error", "cancelled"} : LeaveWith(code)

\* An error or Ctrl+C inside the try block before anything more is recorded
Fail(code) == LeaveWith(code) /\ UNCHANGED <<data, disk>>

End(why) == pc' = "done" /\ reply' = why

-----------------------------------------------------------------------------
(* Admission and allocation: outside the try block *)

\* engine._admit refuses a missing consent, a deferred input or a changed plan
Admit ==
  /\ pc = "admit"
  /\ \/ pc' = "create" /\ UNCHANGED reply
     \/ End("refused")
  /\ UNCHANGED <<bound, run, data, disk, world, history>>

\* AttemptStore.create and, under a controller, the first update of the record
Create ==
  /\ pc = "create"
  /\ \E w \in WriteResults :
       /\ Write([NoRecord EXCEPT !.phase = "admitted"], w)
       /\ IF w = "written" THEN pc' = "preflight" /\ UNCHANGED reply
          ELSE End("not_allocated")
  /\ UNCHANGED <<bound, run, world, history>>

-----------------------------------------------------------------------------
(* The try block of run_attempt *)

Preflight ==
  /\ pc = "preflight"
  /\ Update([data EXCEPT !.phase = "preflight"], "baseline")
  /\ UNCHANGED <<bound, clean, artifact, checks, done, intact, outcome, reply,
                 world, history>>

\* capture_workspace: an admitted inventory must match the tree it is read
\* from; without one the run takes the tree as it finds it
CaptureBaseline ==
  /\ pc = "baseline"
  /\ \/ /\ bound => inputs
        /\ inputs' = TRUE
        /\ Update([data EXCEPT !.phase = "execution"], "produce")
     \/ Fail("contract_error") /\ UNCHANGED inputs
  /\ UNCHANGED <<bound, clean, artifact, checks, done, intact, outcome, reply,
                 retained, subject, expired, history>>

\* The reason that stops the attempt after the producer: its process first,
\* then the exit it reported, its protocol and the completion it must announce
NativeStop(o, reported, broken, completed) ==
  LET failure == ProducerFailure(o)
  IN  CASE failure # "none"                                      -> failure
        [] failure = "none" /\ reported                          -> "native_reported_failure"
        [] failure = "none" /\ ~reported /\ broken               -> "native_protocol_error"
        [] failure = "none" /\ ~reported /\ ~broken /\ ~completed -> "native_completion_unobserved"
        [] OTHER                                                 -> "none"

\* A callback raised inside the supervision: the process was signalled, but
\* nobody observed that it is gone
Strand ==
  /\ \E code \in {"filesystem_error", "contract_error", "cancelled"} : Fail(code)
  /\ live' \in {live, TRUE}

\* Supervise the producer, decode its stream, record what was observed.  The
\* time left is read twice before the start (_remaining).
Produce ==
  /\ pc = "produce"
  /\ \/ /\ ~expired
        /\ \E o \in Supervised, reported, broken, completed \in BOOLEAN :
             LET reason == NativeStop(o, reported, broken, completed)
             IN  /\ clean' = (Normalize(o, TRUE) = "pass" /\ ~reported /\ completed)
                 /\ live' = (live \/ ~o.cleanup)
                 /\ \E w \in WriteResults :
                      /\ Write(data, w)
                      /\ IF w # "written"
                         THEN \E code \in {"filesystem_error", "cancelled"} : LeaveWith(code)
                         ELSE /\ stop' = reason
                              /\ pc' = IF o.cleanup THEN "capture" ELSE "reduce"
     \/ expired /\ Fail("attempt_deadline") /\ UNCHANGED <<clean, live>>
     \/ Strand /\ UNCHANGED clean
  /\ UNCHANGED <<bound, artifact, checks, done, intact, outcome, reply, world,
                 judged, assessed>>

\* capture_output, also after a failed producer whose cleanup is confirmed:
\* the whole delivery or nothing.  The run goes on only without a stop reason.
CaptureOutput ==
  /\ pc = "capture"
  /\ \/ stop = "none" /\ expired /\ Fail("attempt_deadline") /\ UNCHANGED artifact
     \/ Fail("contract_error") /\ UNCHANGED artifact
     \/ /\ stop = "none" => ~expired
        /\ \E delivered \in BOOLEAN :
             /\ artifact' = delivered
             /\ Update([data EXCEPT !.phase = "capture"],
                       IF stop = "none" THEN "exports" ELSE "reduce")
  /\ UNCHANGED <<bound, clean, checks, done, intact, outcome, reply, world, history>>

\* capture_exports refuses an unfinished tool operation; without the delivery
\* there is nothing to check
CaptureExports ==
  /\ pc = "exports"
  /\ \/ pc' = (IF artifact THEN "prepare" ELSE "reduce") /\ UNCHANGED <<stop, data, disk>>
     \/ Fail("contract_error")
  /\ UNCHANGED <<bound, clean, artifact, checks, done, intact, outcome, reply,
                 world, history>>

\* _run_checks, per check: the time left, then a fresh copy of the baseline and
\* of the captured delivery; a source that changed since is an error
PrepareCheck ==
  /\ pc = "prepare"
  /\ \/ expired /\ Fail("attempt_deadline") /\ UNCHANGED subject
     \/ ~retained /\ Fail("contract_error") /\ UNCHANGED subject
     \/ /\ ~expired /\ retained
        /\ subject' = TRUE
        /\ pc' = "start"
        /\ UNCHANGED <<stop, data, disk>>
  /\ UNCHANGED <<bound, clean, artifact, checks, done, intact, outcome, reply,
                 retained, inputs, expired, history>>

\* verify_check_integrity, and the start of the check if it holds
StartCheck ==
  /\ pc = "start"
  /\ judged' = IF retained /\ subject THEN judged \cup {done + 1} ELSE judged
  /\ intact' = (retained /\ subject)
  /\ \/ ~intact' /\ pc' = "judge" /\ UNCHANGED <<stop, data, disk>>
     \/ intact' /\ expired /\ Fail("attempt_deadline")
     \/ intact' /\ ~expired /\ Update([data EXCEPT !.phase = "checks"], "judge")
  /\ UNCHANGED <<bound, clean, artifact, checks, done, outcome, reply, world,
                 live, assessed>>

\* A check whose workspace did not verify is not run at all
NotRun == [exit |-> "none", stop |-> "none", error |-> TRUE, cleanup |-> TRUE]

\* Mutated: a check whose cleanup is unconfirmed does not stop the attempt
CheckStopTrusting(o) ==
  CASE o.stop \notin {"none", "timeout"}           -> o.stop
    [] o.stop \in {"none", "timeout"} /\ expired   -> "attempt_deadline"
    [] OTHER                                       -> "none"

\* Mutated: the deadline is not looked at after a check
CheckStopTimeless(o) ==
  CASE o.stop \notin {"none", "timeout"}             -> o.stop
    [] o.stop \in {"none", "timeout"} /\ ~o.cleanup  -> "checker_stop_unconfirmed"
    [] OTHER                                         -> "none"

\* Where the loop of _run_checks goes after observing o
CheckStop(o) ==
  CASE o.stop \notin {"none", "timeout"}                       -> o.stop
    [] o.stop \in {"none", "timeout"} /\ ~o.cleanup            -> "checker_stop_unconfirmed"
    [] o.stop \in {"none", "timeout"} /\ o.cleanup /\ expired  -> "attempt_deadline"
    [] OTHER                                                   -> "none"

\* Supervise the check, verify its workspace again, normalize, record
FinishCheck ==
  /\ pc = "judge"
  /\ \/ /\ \E o \in IF intact THEN Supervised ELSE {NotRun} :
             /\ checks' = [checks EXCEPT ![done + 1] =
                             Normalize(o, intact /\ retained /\ subject)]
             /\ done' = done + 1
             /\ live' = (live \/ ~o.cleanup)
             /\ \E w \in WriteResults :
                  /\ Write([data EXCEPT !.phase = "checks", !.rows = done + 1], w)
                  /\ IF w # "written"
                     THEN \E code \in {"filesystem_error", "cancelled"} : LeaveWith(code)
                     ELSE /\ stop' = CheckStop(o)
                          /\ pc' = IF CheckStop(o) = "none" /\ done + 1 < NumChecks
                                   THEN "prepare" ELSE "reduce"
        /\ judged' = IF retained /\ subject THEN judged ELSE judged \ {done + 1}
     \/ intact /\ Strand /\ UNCHANGED <<checks, done, judged>>
  /\ UNCHANGED <<bound, clean, artifact, intact, outcome, reply, world, assessed>>

\* Ctrl+C between two steps of the try block
Interrupt ==
  /\ pc \in InTry
  /\ Fail("cancelled")
  /\ UNCHANGED <<bound, clean, artifact, checks, done, intact, outcome, reply,
                 world, history>>

-----------------------------------------------------------------------------
(* Reduction and finalization *)

\* Mutated: a rejected check counts even if the attempt was stopped
ReducedEager ==
  CASE \E i \in CheckIds : checks[i] = "reject"                   -> "REJECTED"
    [] (\A i \in CheckIds : checks[i] # "reject") /\ stop # "none" -> "HALTED"
    [] OTHER                                                      -> "UNPROVEN"

\* records.reduce_outcome: a provisional outcome is never COMPLETE
Reduced ==
  CASE stop # "none"                                              -> "HALTED"
    [] stop = "none" /\ \E i \in CheckIds : checks[i] = "reject"  -> "REJECTED"
    [] OTHER                                                      -> "UNPROVEN"

Reduce ==
  /\ pc = "reduce"
  /\ outcome' = Reduced
  /\ pc' = "close"
  /\ UNCHANGED <<bound, stop, clean, artifact, checks, done, intact, data, disk,
                 reply, world, history>>

\* Mutated: a failed write of finalization goes unnoticed
CommitBlind(new, next) == \E w \in WriteResults : Write(new, w) /\ pc' = next

\* A write of finalization: it succeeds, or fail_finalization follows
Commit(new, next) ==
  \E w \in WriteResults :
    /\ Write(new, w)
    /\ pc' = IF w = "written" THEN next ELSE "failing"

\* logger.close and update("record"), the last step before the outcome
Close ==
  /\ pc = "close"
  /\ \/ pc' = "failing" /\ UNCHANGED <<data, disk>>
     \/ Commit([data EXCEPT !.phase = "record"], "finish")
  /\ UNCHANGED <<bound, run, reply, world, history>>

\* records.native_assurance_limited: everything that was observed passed
Limited ==
  /\ outcome \in {"UNPROVEN", "COMPLETE"}
  /\ stop = "none"
  /\ artifact
  /\ done > 0
  /\ \A i \in 1 .. done : checks[i] = "pass"

\* AttemptStore.finish: the transcript must be there and readable
Finish(result, next) ==
  \/ pc' = "failing" /\ UNCHANGED <<data, disk>>
  \/ Commit([data EXCEPT !.phase = "finished", !.complete = TRUE, !.outcome = result], next)

FinishProvisional ==
  /\ pc = "finish"
  /\ Finish(outcome, IF Limited THEN "assess" ELSE "announce")
  /\ UNCHANGED <<bound, run, reply, world, history>>

\* records._assessed_inputs: the record on disk is the result, it names every
\* declared check, all passed, the producer completed, and the retained bytes
\* (and, for a run without an admitted inventory, the caller's tree) still match
EvidenceHolds ==
  /\ disk.complete /\ disk.phase = "finished" /\ disk.outcome = outcome
  /\ disk.rows = NumChecks /\ done = NumChecks
  /\ \A i \in CheckIds : checks[i] = "pass"
  /\ artifact /\ clean /\ stop = "none"
  /\ retained
  /\ bound \/ inputs

\* The first validation: it passes, it refuses the evidence, or reading fails
Assess ==
  /\ pc = "assess"
  /\ \/ EvidenceHolds /\ pc' = "certify" /\ assessed' = assessed + 1
     \/ ~EvidenceHolds /\ pc' = "refuse" /\ UNCHANGED assessed
     \/ pc' = "failing" /\ UNCHANGED assessed
  /\ UNCHANGED <<bound, run, data, disk, reply, world, live, judged>>

\* Mutated: the failed record keeps its outcome and its completeness
FailedVisible == [data EXCEPT !.phase = "finalization_failed"]

Failed == [data EXCEPT !.phase = "finalization_failed", !.complete = FALSE,
                       !.outcome = "HALTED"]

\* The refusal is recorded before it is raised
Refuse ==
  /\ pc = "refuse"
  /\ \E w \in WriteResults :
       /\ Write(Failed, w)
       /\ \/ w = "written" /\ \E why \in {"invalid", "interrupted"} : End(why)
          \/ w # "written" /\ pc' = "failing" /\ UNCHANGED reply
  /\ UNCHANGED <<bound, run, world, history>>

\* finish(COMPLETE), the only write that makes success visible
Certify ==
  /\ pc = "certify"
  /\ outcome' = "COMPLETE"
  /\ Finish("COMPLETE", "reassess")
  /\ UNCHANGED <<bound, stop, clean, artifact, checks, done, intact, reply, world, history>>

\* Mutated: the final record is not validated
ReassessSkipped ==
  /\ pc = "reassess"
  /\ pc' = "announce"
  /\ UNCHANGED <<bound, run, data, disk, reply, world, history>>

\* The second validation, of the final record; whatever it raises fails the run
Reassess ==
  /\ pc = "reassess"
  /\ \/ EvidenceHolds /\ pc' = "announce" /\ assessed' = assessed + 1
     \/ pc' = "failing" /\ UNCHANGED assessed
  /\ UNCHANGED <<bound, run, data, disk, reply, world, live, judged>>

\* AttemptStore.fail_finalization always raises; one of its two errors says
\* that not even the failure could be persisted, and Ctrl+C may take either
FailFinalization ==
  /\ pc = "failing"
  /\ \E w \in WriteResults :
       /\ Write(Failed, w)
       /\ \E why \in {IF w = "written" THEN "unfinalized" ELSE "unpersisted", "interrupted"} :
            End(why)
  /\ UNCHANGED <<bound, run, world, history>>

\* The finished event (if any) and the return to the caller
Announce ==
  /\ pc = "announce"
  /\ End(outcome)
  /\ UNCHANGED <<bound, run, data, disk, world, history>>

\* Ctrl+C outside the try blocks goes to the caller as it is: before the one of
\* run_attempt and in its handlers, before that of each call of finish and of
\* each validation, in the handlers of finalize, and in fail_finalization before
\* its own.  It leaves the record as it is, COMPLETE included.
Propagate ==
  /\ pc \in Points \ (InTry \cup {"done"})
  /\ End("interrupted")
  /\ UNCHANGED <<bound, run, data, disk, world, history>>

-----------------------------------------------------------------------------
(* The world around the run *)

Running == pc # "done"

\* Same-user processes, the producer and the checks among them, may change and
\* restore any file they can reach
Meddle ==
  /\ Running
  /\ \/ retained' = ~retained /\ UNCHANGED <<subject, inputs>>
     \/ subject' = ~subject /\ UNCHANGED <<retained, inputs>>
     \/ inputs' = ~inputs /\ UNCHANGED <<retained, subject>>
  /\ UNCHANGED <<pc, bound, run, data, disk, reply, expired, history>>

\* The deadline of the attempt, or a controller's shared one, passes
Expire ==
  /\ Running /\ ~expired
  /\ expired' = TRUE
  /\ UNCHANGED <<pc, bound, run, data, disk, reply, retained, subject, inputs, history>>

Crash ==
  /\ Running
  /\ End("crashed")
  /\ UNCHANGED <<bound, run, data, disk, world, history>>

-----------------------------------------------------------------------------

Init ==
  /\ pc = "admit" /\ bound \in BOOLEAN
  /\ stop = "none" /\ clean = FALSE /\ artifact = FALSE
  /\ checks = [i \in CheckIds |-> "none"] /\ done = 0 /\ intact = FALSE
  /\ outcome = "UNPROVEN" /\ data = NoRecord /\ disk = NoRecord /\ reply = "none"
  /\ retained = TRUE /\ subject = FALSE /\ inputs = TRUE /\ expired = FALSE
  /\ live = FALSE /\ judged = {} /\ assessed = 0

Step ==
  \/ Admit \/ Create
  \/ Preflight \/ CaptureBaseline \/ Produce \/ CaptureOutput \/ CaptureExports
  \/ PrepareCheck \/ StartCheck \/ FinishCheck
  \/ Reduce \/ Close \/ FinishProvisional \/ Assess \/ Refuse
  \/ Certify \/ Reassess \/ FailFinalization \/ Announce

Next == Step \/ Interrupt \/ Propagate \/ Meddle \/ Expire \/ Crash

Spec == Init /\ [][Next]_vars

\* The program keeps executing; nothing else has to happen
FairSpec == Spec /\ WF_vars(Step)

-----------------------------------------------------------------------------
(* Properties *)

TypeOK ==
  /\ pc \in Points /\ bound \in BOOLEAN /\ stop \in StopCodes
  /\ clean \in BOOLEAN /\ artifact \in BOOLEAN
  /\ checks \in [CheckIds -> Verdicts \cup {"none"}]
  /\ done \in 0 .. NumChecks /\ intact \in BOOLEAN
  /\ outcome \in Outcomes /\ data \in Records /\ disk \in Records
  /\ reply \in Replies
  /\ retained \in BOOLEAN /\ subject \in BOOLEAN /\ inputs \in BOOLEAN
  /\ expired \in BOOLEAN
  /\ live \in BOOLEAN /\ judged \in SUBSET CheckIds /\ assessed \in 0 .. 2

VisibleSuccess == disk.complete /\ disk.outcome = "COMPLETE"

\* A record that shows COMPLETE was earned, whatever happened since, a crash
\* included: the producer completed, every declared check is recorded and
\* passed on the captured bytes (as verified before and after it ran), and the
\* persisted evidence had passed validation before COMPLETE became visible.
SuccessIsEarned ==
  VisibleSuccess =>
    /\ disk.rows = NumChecks
    /\ artifact /\ clean
    /\ \A i \in CheckIds : checks[i] = "pass"
    /\ judged = CheckIds
    /\ assessed > 0

\* A managed process whose end nobody confirmed never stands behind a verdict:
\* no check starts and neither COMPLETE nor REJECTED is recorded after it.
NoVerdictWhileAlive ==
  live => /\ pc \notin {"prepare", "start", "judge"}
          /\ disk.complete => disk.outcome = "HALTED"

\* A recorded rejection is the result of a full assessment: it never comes from
\* an attempt that stopped early, and all declared checks were observed.
RejectionIsAssessed ==
  (disk.complete /\ disk.outcome = "REJECTED") =>
    /\ stop = "none" /\ clean /\ artifact
    /\ done = NumChecks /\ disk.rows = NumChecks

\* An outcome that is returned is the one the record shows as finished.
ReplyIsRecorded ==
  reply \in Outcomes => disk.complete /\ disk.phase = "finished" /\ disk.outcome = reply

\* An invocation that raised an error leaves no record of success behind, except
\* where the error says that the failure could not be persisted.  Where Ctrl+C or
\* the death of the process took the answer, it may: even of a final record whose
\* second validation refused it, but never before the first one had passed.
NoStraySuccess ==
  (reply \in Failures /\ VisibleSuccess) =>
     reply \in {"unpersisted", "crashed", "interrupted"} /\ assessed >= 1

\* Verdicts are honest: nothing that still runs stands behind one, and a rejection
\* comes from a full assessment.
VerdictsAreAssessed == NoVerdictWhileAlive /\ RejectionIsAssessed

\* Answers are honest: an outcome that is returned is the recorded one, and an error
\* leaves no success behind that it does not speak of.
RepliesAreRecorded == ReplyIsRecorded /\ NoStraySuccess

\* A check is never started after the deadline, and an attempt that overran it
\* when its last check was recorded does not pass.
DeadlineHolds ==
  [][/\ (pc = "start" /\ pc' = "judge" /\ intact') => ~expired
     /\ (pc = "judge" /\ expired /\ done' > done) => stop' # "none"]_vars

=============================================================================
