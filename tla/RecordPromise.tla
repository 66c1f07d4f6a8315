---------------------------- MODULE RecordPromise ----------------------------
(***************************************************************************)
(* What every record owner of contracts/records.py promises the readers of *)
(* its record and the caller of its invocation, whatever happens inside:   *)
(*                                                                         *)
(*   - success becomes visible only after the evidence was validated, and  *)
(*     is returned only after it was validated again;                      *)
(*   - an invocation that raises has withdrawn a visible success, unless   *)
(*     the answer was lost together with the means to withdraw it;         *)
(*   - after the answer the record does not change any more;               *)
(*   - and every invocation gets an answer.                                *)
(*                                                                         *)
(* Attempt (one run), Repair (its controller) and Chain (a factory)        *)
(* implement it.                                                           *)
(***************************************************************************)
EXTENDS Naturals

VARIABLES
  visible,    \* what a reader of the record sees
  validated,  \* how often the evidence passed validation
  answer      \* what the caller got

promiseVars == <<visible, validated, answer>>

\* "open" stands for every record that is not finished, a failed one included
Sights == {"absent", "open", "settled", "success"}
Answers == {"none", "success", "settled", "exception", "lost"}

PromiseTypeOK == visible \in Sights /\ validated \in 0 .. 2 /\ answer \in Answers

PromiseInit == visible = "absent" /\ validated = 0 /\ answer = "none"

\* Observations are recorded; a finished record may be reopened by a failure
Observe ==
  /\ visible' = "open"
  /\ UNCHANGED <<validated, answer>>

Settle ==
  /\ visible \in {"open", "settled"} /\ validated = 0
  /\ visible' = "settled"
  /\ UNCHANGED <<validated, answer>>

Validate ==
  /\ visible # "absent"
  /\ validated = IF visible = "success" THEN 1 ELSE 0
  /\ validated' = validated + 1
  /\ UNCHANGED <<visible, answer>>

Succeed ==
  /\ visible \in {"open", "settled"} /\ validated = 1
  /\ visible' = "success"
  /\ UNCHANGED <<validated, answer>>

\* Only a success that was validated twice, or a settled verdict, is an answer
Answer ==
  /\ \/ visible = "success" /\ validated = 2 /\ answer' = "success"
     \/ visible = "settled" /\ validated = 0 /\ answer' = "settled"
  /\ UNCHANGED <<visible, validated>>

\* An exception leaves an open record, or none if there was none before
Raise ==
  /\ answer' = "exception"
  /\ \/ visible' = "open"
     \/ visible = "absent" /\ UNCHANGED visible
  /\ UNCHANGED validated

\* Ctrl+C or a crash takes the answer, or the failure cannot be persisted
Lose ==
  /\ answer' = "lost"
  /\ visible' \in {visible, "open"}
  /\ UNCHANGED validated

PromiseNext ==
  /\ answer = "none"
  /\ Observe \/ Settle \/ Validate \/ Succeed \/ Answer \/ Raise \/ Lose

\* However long it takes, the caller is not left without an answer
Answered == <>(answer # "none")

Promise == PromiseInit /\ [][PromiseNext]_promiseVars /\ Answered
=============================================================================
