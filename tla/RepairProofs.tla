----------------------------- MODULE RepairProofs -----------------------------
(***************************************************************************)
(* Proofs about the bounded repair, for every budget of attempts and every *)
(* set of candidates: what a selection is worth, that every start is       *)
(* linked, that every retry is justified, and that the controller keeps    *)
(* the safety part of the record promise.                                  *)
(***************************************************************************)
EXTENDS RepairPromise, TLAPS

-----------------------------------------------------------------------------
(* The inductive invariant *)

\* Before, during and after the attempt that index names
Opening == {"create", "freeze"}
Waiting == {"next", "allocate", "attach"}
Attached == {"attempt", "record", "judge"}
Stopped == {"validate", "finish", "readback", "return"}
Steps == Opening \cup Waiting \cup Attached \cup Stopped \cup {"abort", "done"}

Replies == {"none"} \cup Failures \cup LeafStates

TypeOK ==
  /\ pc \in Steps /\ index \in Attempts /\ reason \in Reasons
  /\ tried \subseteq Candidates \cup {"none"}
  /\ data \in Controllers /\ disk \in Controllers
  /\ leaf \in [Attempts -> Leaves] /\ expired \in BOOLEAN /\ started \subseteq Attempts
  /\ validated \in 0 .. 2 /\ reply \in Replies

\* Until something fails, the record on disk is the one in memory
DiskIsCurrent ==
  pc \notin {"abort", "done"} => disk = data

\* The rows are the attempts in their order, and the row of an attempt is on
\* disk before its producer starts
RowsAreAttempts ==
  /\ \A i \in 1 .. Len(data.attempts) : data.attempts[i].run = i
  /\ \A i \in 1 .. Len(disk.attempts) : disk.attempts[i].run = i
  /\ Len(disk.attempts) \in index - 1 .. index
  /\ Len(data.attempts) \in Len(disk.attempts) .. index
  /\ started \subseteq 1 .. Len(disk.attempts)
  /\ pc \in Opening => index = 1
  /\ pc \in Opening \cup Waiting => Len(data.attempts) = index - 1
  /\ pc \in Attached \cup Stopped => Len(data.attempts) = index

\* Every attempt before the current one is a fully assessed rejection, of a
\* candidate that none of them shares
EarlierAreRejections ==
  \A i \in 1 .. index - 1 :
    /\ leaf[i].state = "REJECTED" /\ leaf[i].full /\ leaf[i].candidate \in tried
    /\ data.attempts[i].outcome = "REJECTED" /\ disk.attempts[i].outcome = "REJECTED"
    /\ \A j \in 1 .. i - 1 : leaf[i].candidate # leaf[j].candidate

\* The attempt in progress, and why the controller stops
StopIsJudged ==
  /\ pc \in {"record", "judge"} \cup Stopped => leaf[index].state \in Outcomes
  /\ pc \in {"judge"} \cup Stopped => data.attempts[index].outcome = leaf[index].state
  /\ pc \in Stopped => (reason = "complete" <=> leaf[index].state = "COMPLETE")
  /\ pc = "validate" => reason = "complete"

\* A selection, in memory or on disk, is the current attempt, which is COMPLETE
\* and was validated
SelectedIsCurrent ==
  \A record \in {data, disk} :
    record.selected # 0 =>
      /\ record.finalized /\ record.selected = index /\ Len(record.attempts) = index
      /\ validated > 0 /\ leaf[index].state = "COMPLETE"

\* How often the selection was validated, what the record shows and what the
\* caller has, at each step
ProgressIsOrdered ==
  /\ pc \in Opening \cup Waiting \cup Attached \cup {"validate"} => validated = 0
  /\ pc \in {"finish", "readback"} => validated = IF reason = "complete" THEN 1 ELSE 0
  /\ pc = "return" => validated = IF reason = "complete" THEN 2 ELSE 0
  /\ pc = "create" => disk.phase = "absent"
  /\ pc \notin {"create", "done"} => disk.phase # "absent" /\ data.phase # "absent"
  /\ pc \in Opening \cup Waiting \cup Attached \cup {"validate", "finish"}
       => ~data.finalized /\ data.selected = 0
  /\ pc \in {"readback", "return"}
       => data.finalized /\ data.selected = IF reason = "complete" THEN index ELSE 0
  /\ pc # "done" => reply = "none"

IInv ==
  /\ TypeOK /\ DiskIsCurrent /\ RowsAreAttempts /\ EarlierAreRejections
  /\ StopIsJudged /\ SelectedIsCurrent /\ ProgressIsOrdered

-----------------------------------------------------------------------------
(* What the steps do to the records *)

LEMMA PlainWrites ==
  ASSUME data \in Controllers, index \in Attempts
  PROVE  /\ NoController \in Controllers
         /\ [NoController EXCEPT !.phase = "admitted"] \in Controllers
         /\ [data EXCEPT !.phase = "captured"] \in Controllers
         /\ \A s \in {0, index} :
              [data EXCEPT !.phase = "finished", !.finalized = TRUE, !.selected = s] \in Controllers
         /\ [data EXCEPT !.phase = "halted", !.finalized = FALSE, !.selected = 0] \in Controllers
<1> USE DEF Controllers
<1>1. NoController \in Controllers
  <2>1. <<>> \in Seq(Rows) OBVIOUS
  <2>2. 0 \in 0 .. MaxAttempts BY RepairAssumption
  <2> QED BY <2>1, <2>2 DEF NoController
<1>2. [NoController EXCEPT !.phase = "admitted"] \in Controllers BY <1>1
<1>3. [data EXCEPT !.phase = "captured"] \in Controllers OBVIOUS
<1>4. {0, index} \subseteq 0 .. MaxAttempts BY RepairAssumption DEF Attempts
<1>5. \A s \in {0, index} :
        [data EXCEPT !.phase = "finished", !.finalized = TRUE, !.selected = s] \in Controllers
  BY <1>4
<1>6. [data EXCEPT !.phase = "halted", !.finalized = FALSE, !.selected = 0] \in Controllers
  BY <1>4
<1> QED BY <1>1, <1>2, <1>3, <1>5, <1>6

LEMMA LeafUpdates ==
  ASSUME leaf \in [Attempts -> Leaves], NEW i \in Attempts
  PROVE  /\ \A l \in Leaves : [leaf EXCEPT ![i] = l] \in [Attempts -> Leaves]
         /\ [leaf EXCEPT ![i].state = "open"] \in [Attempts -> Leaves]
         /\ [leaf EXCEPT ![i].intact = FALSE] \in [Attempts -> Leaves]
         /\ Results \subseteq Leaves
BY DEF Leaves, LeafStates, Results

LEMMA RecordWrites ==
  ASSUME TypeOK, RowsAreAttempts, StopIsJudged, Record
  PROVE  /\ disk' \in {disk, data'} /\ data' \in Controllers
         /\ \/ data' = data /\ disk' = disk /\ pc' = "abort"
            \/ /\ data'.phase = "assessed" /\ data'.finalized = data.finalized
               /\ data'.selected = data.selected /\ Len(data'.attempts) = index
               /\ data'.attempts[index].run = index
               /\ data'.attempts[index].outcome = leaf[index].state
               /\ \A i \in 1 .. index - 1 : data'.attempts[i] = data.attempts[i]
               /\ pc' \in {"judge", "abort"}
               /\ pc' = "judge" => disk' = data'
<1>1. data \in Controllers /\ index \in Attempts BY DEF TypeOK
<1>2. Len(data.attempts) = index /\ leaf[index].state \in Outcomes
  BY DEF Record, RowsAreAttempts, StopIsJudged, Attached
<1>3. CASE Abort BY <1>1, <1>3 DEF Abort
<1>4. CASE ~Abort
  <2>1. data' = [data EXCEPT !.phase = "assessed",
                             !.attempts = [@ EXCEPT ![index] = Row(leaf[index].state)]]
    BY <1>4 DEF Record, Update, Write
  <2>2. /\ disk' \in {disk, data'} /\ pc' \in {"judge", "abort"}
        /\ pc' = "judge" => disk' = data'
    BY <1>4 DEF Record, Update, Write, WriteResults
  <2> DEFINE rows == [data.attempts EXCEPT ![index] = Row(leaf[index].state)]
  <2>3. data' = [data EXCEPT !.phase = "assessed", !.attempts = rows]
    BY <1>1, <2>1 DEF Controllers
  <2>4. data.attempts \in Seq(Rows) BY <1>1 DEF Controllers
  <2>5. index \in 1 .. Len(data.attempts) BY <1>1, <1>2 DEF Attempts
  <2>6. Row(leaf[index].state) \in Rows BY <1>1, <1>2 DEF Rows, Row
  <2>7. rows \in Seq(Rows) /\ Len(rows) = index BY <1>2, <2>4, <2>5, <2>6
  <2>8. /\ rows[index].outcome = leaf[index].state /\ rows[index].run = index
        /\ \A i \in 1 .. index - 1 : rows[i] = data.attempts[i]
    BY <2>4, <2>5, <2>6 DEF Row, Attempts
  <2> HIDE DEF rows
  <2> QED BY <1>1, <2>2, <2>3, <2>7, <2>8 DEF Controllers
<1> QED BY <1>3, <1>4

LEMMA AttachWrites ==
  ASSUME TypeOK, RowsAreAttempts, Attach
  PROVE  /\ disk' \in {disk, data'} /\ data' \in Controllers
         /\ data'.phase = "executing" /\ data'.finalized = data.finalized
         /\ data'.selected = data.selected /\ Len(data'.attempts) = index
         /\ data'.attempts[index].run = index
         /\ \A i \in 1 .. index - 1 : data'.attempts[i] = data.attempts[i]
         /\ pc' \in {"attempt", "abort"}
         /\ pc' = "attempt" => disk' = data'
<1>1. data \in Controllers /\ index \in Attempts BY DEF TypeOK
<1>2. Len(data.attempts) = index - 1 BY DEF Attach, RowsAreAttempts, Waiting
<1>3. data' = [data EXCEPT !.phase = "executing", !.attempts = Append(@, Row("none"))]
  BY DEF Attach, Update, Write
<1>4. /\ disk' \in {disk, data'} /\ pc' \in {"attempt", "abort"}
      /\ pc' = "attempt" => disk' = data'
  BY DEF Attach, Update, Write, WriteResults
<1> DEFINE rows == Append(data.attempts, Row("none"))
<1>5. Row("none") \in Rows /\ Row("none").run = index BY <1>1 DEF Rows, Row
<1>6. data.attempts \in Seq(Rows) BY <1>1 DEF Controllers
<1>7. /\ rows \in Seq(Rows) /\ Len(rows) = index /\ rows[index].run = index
      /\ \A i \in 1 .. index - 1 : rows[i] = data.attempts[i]
  BY <1>1, <1>2, <1>5, <1>6 DEF Attempts
<1>8. data' = [data EXCEPT !.phase = "executing", !.attempts = rows]
  BY <1>1, <1>3 DEF Controllers
<1> HIDE DEF rows
<1> QED BY <1>1, <1>4, <1>7, <1>8 DEF Controllers

LEMMA ControllersStep ==
  ASSUME TypeOK, RowsAreAttempts, StopIsJudged, [Next]_vars
  PROVE  data' \in Controllers /\ disk' \in {disk, data'}
<1> USE DEF vars, world, Write, Update, Abort
<1>0. data \in Controllers /\ index \in Attempts BY DEF TypeOK
<1>1. CASE Create BY <1>0, <1>1, PlainWrites DEF Create
<1>2. CASE Freeze BY <1>0, <1>2, PlainWrites DEF Freeze
<1>3. CASE NextAttempt \/ Allocate \/ RunAttempt \/ Judge \/ Validate \/ ReadBack \/ Return
  BY <1>0, <1>3 DEF NextAttempt, Allocate, RunAttempt, Judge, Validate, ReadBack, Return
<1>4. CASE Attach BY <1>4, AttachWrites
<1>5. CASE Record BY <1>5, RecordWrites
<1>6. CASE Finish BY <1>0, <1>6, PlainWrites DEF Finish
<1>7. CASE AbortController BY <1>0, <1>7, PlainWrites DEF AbortController
<1>8. CASE Meddle \/ Expire \/ Crash \/ Propagate BY <1>0, <1>8 DEF Meddle, Expire, Crash, Propagate
<1>9. CASE UNCHANGED vars BY <1>0, <1>9
<1> QED BY <1>1, <1>2, <1>3, <1>4, <1>5, <1>6, <1>7, <1>8, <1>9 DEF Next, Step

LEMMA LeavesStep ==
  ASSUME TypeOK, [Next]_vars
  PROVE  /\ leaf' \in [Attempts -> Leaves]
         /\ \A i \in Attempts :
              \/ /\ leaf'[i].state = leaf[i].state /\ leaf'[i].full = leaf[i].full
                 /\ leaf'[i].candidate = leaf[i].candidate
              \/ i = index /\ pc = "allocate" /\ pc' \in {"attach", "abort"}
              \/ i = index /\ pc = "attempt" /\ pc' = "record" /\ leaf'[i] \in Results
              \/ i = index /\ pc = "attempt" /\ pc' = "abort"
<1> USE DEF vars, world
<1>0. leaf \in [Attempts -> Leaves] /\ index \in Attempts BY DEF TypeOK
<1>1. CASE Allocate
  <2>1. leaf' \in {leaf, [leaf EXCEPT ![index].state = "open"]} /\ pc' \in {"attach", "abort"}
    BY <1>1 DEF Allocate, Abort
  <2>2. \A i \in Attempts : i # index => leaf'[i] = leaf[i] BY <1>0, <2>1
  <2> QED BY <1>0, <1>1, <2>1, <2>2, LeafUpdates DEF Allocate
<1>2. CASE RunAttempt
  <2>1. \/ pc' = "record" /\ \E l \in Results : leaf' = [leaf EXCEPT ![index] = l]
        \/ pc' = "abort" /\ \E l \in Results \cup {leaf[index]} : leaf' = [leaf EXCEPT ![index] = l]
    BY <1>2 DEF RunAttempt, Abort
  <2>2. Results \subseteq Leaves /\ leaf[index] \in Leaves BY <1>0, LeafUpdates
  <2>3. PICK l \in Leaves : leaf' = [leaf EXCEPT ![index] = l] /\ (pc' = "record" => l \in Results)
    BY <2>1, <2>2
  <2> QED BY <1>0, <1>2, <2>1, <2>3 DEF RunAttempt
<1>3. CASE Meddle
  <2>1. PICK i \in Attempts : leaf' = [leaf EXCEPT ![i].intact = FALSE] BY <1>3 DEF Meddle
  <2>2. \A j \in Attempts : /\ leaf'[j].state = leaf[j].state /\ leaf'[j].full = leaf[j].full
                            /\ leaf'[j].candidate = leaf[j].candidate
    BY <1>0, <2>1 DEF Leaves
  <2> QED BY <1>0, <2>1, <2>2, LeafUpdates
<1>4. CASE UNCHANGED leaf BY <1>0, <1>4
<1>5. CASE Create \/ Freeze \/ NextAttempt \/ Attach \/ Record \/ Judge
  BY <1>4, <1>5 DEF Create, Freeze, NextAttempt, Attach, Record, Judge
<1>6. CASE Validate \/ Finish \/ ReadBack \/ Return \/ AbortController
  BY <1>4, <1>6 DEF Validate, Finish, ReadBack, Return, AbortController
<1>7. CASE Expire \/ Crash \/ Propagate \/ UNCHANGED vars BY <1>4, <1>7 DEF Expire, Crash, Propagate
<1> QED BY <1>1, <1>2, <1>3, <1>5, <1>6, <1>7 DEF Next, Step

\* A retry is left only when nothing stops the controller
LEMMA StopReasons ==
  ASSUME TypeOK
  PROVE  /\ StopReason \in Reasons \ {"aborted"}
         /\ StopReason = "complete" <=> leaf[index].state = "COMPLETE"
         /\ StopReason = "none" => /\ Retryable /\ leaf[index].candidate \notin tried
                                   /\ index + 1 \in Attempts
<1>1. index \in 1 .. MaxAttempts /\ MaxAttempts \in Nat BY RepairAssumption DEF TypeOK, Attempts
<1>2. index # MaxAttempts => index + 1 \in Attempts BY <1>1 DEF Attempts
<1> QED BY <1>2 DEF StopReason, Retryable, Reasons

-----------------------------------------------------------------------------
(* Every step keeps each part *)

LEMMA TypeStep ==
  ASSUME TypeOK, RowsAreAttempts, StopIsJudged, ProgressIsOrdered, [Next]_vars
  PROVE  TypeOK'
<1>1. /\ pc' \in Steps /\ index' \in Attempts /\ reason' \in Reasons
      /\ expired' \in BOOLEAN /\ started' \subseteq Attempts
      /\ validated' \in 0 .. 2 /\ reply' \in Replies /\ tried' \subseteq Candidates \cup {"none"}
  <2> USE DEF TypeOK, RowsAreAttempts, StopIsJudged, ProgressIsOrdered, Replies, Failures,
          Reasons, Attempts, Leaves, LeafStates, Outcomes, Opening, Waiting, Attached, Stopped,
          Steps, vars, world, Write, Update, Abort
  <2>1. CASE Create BY <2>1 DEF Create
  <2>2. CASE Freeze BY <2>2 DEF Freeze
  <2>3. CASE NextAttempt BY <2>3 DEF NextAttempt
  <2>4. CASE Allocate BY <2>4 DEF Allocate
  <2>5. CASE Attach BY <2>5 DEF Attach
  <2>6. CASE RunAttempt BY <2>6 DEF RunAttempt
  <2>7. CASE Record BY <2>7 DEF Record
  <2>8. CASE Judge BY <2>8, StopReasons DEF Judge
  <2>9. CASE Validate BY <2>9 DEF Validate
  <2>10. CASE Finish BY <2>10 DEF Finish
  <2>11. CASE ReadBack BY <2>11 DEF ReadBack
  <2>12. CASE Return BY <2>12 DEF Return
  <2>13. CASE AbortController BY <2>13 DEF AbortController
  <2>14. CASE Meddle BY <2>14 DEF Meddle
  <2>15. CASE Expire BY <2>15 DEF Expire
  <2>16. CASE Crash \/ Propagate BY <2>16 DEF Crash, Propagate
  <2>17. CASE UNCHANGED vars BY <2>17
  <2> QED
    BY <2>1, <2>2, <2>3, <2>4, <2>5, <2>6, <2>7, <2>8, <2>9, <2>10, <2>11, <2>12, <2>13, <2>14, <2>15, <2>16, <2>17
       DEF Next, Step
<1>2. data' \in Controllers /\ disk' \in {disk, data'} BY ControllersStep
<1>3. leaf' \in [Attempts -> Leaves] BY LeavesStep
<1> QED BY <1>1, <1>2, <1>3 DEF TypeOK

LEMMA DiskStep ==
  ASSUME TypeOK, DiskIsCurrent, [Next]_vars
  PROVE  DiskIsCurrent'
<1> USE DEF DiskIsCurrent, Opening, Waiting, Attached, Stopped, Steps, vars, world, Write, Update, Abort
<1>1. CASE Create BY <1>1 DEF Create
<1>2. CASE Freeze BY <1>2 DEF Freeze
<1>3. CASE NextAttempt BY <1>3 DEF NextAttempt
<1>4. CASE Allocate BY <1>4 DEF Allocate
<1>5. CASE Attach BY <1>5 DEF Attach
<1>6. CASE RunAttempt BY <1>6 DEF RunAttempt
<1>7. CASE Record BY <1>7 DEF Record
<1>8. CASE Judge BY <1>8 DEF Judge
<1>9. CASE Validate BY <1>9 DEF Validate
<1>10. CASE Finish BY <1>10 DEF Finish
<1>11. CASE ReadBack BY <1>11 DEF ReadBack
<1>12. CASE Return BY <1>12 DEF Return
<1>13. CASE AbortController BY <1>13 DEF AbortController
<1>14. CASE Meddle BY <1>14 DEF Meddle
<1>15. CASE Expire BY <1>15 DEF Expire
<1>16. CASE Crash \/ Propagate BY <1>16 DEF Crash, Propagate
<1>17. CASE UNCHANGED vars BY <1>17
<1> QED
  BY <1>1, <1>2, <1>3, <1>4, <1>5, <1>6, <1>7, <1>8, <1>9, <1>10, <1>11, <1>12, <1>13, <1>14,
     <1>15, <1>16, <1>17
     DEF Next, Step

LEMMA RowsStep ==
  ASSUME TypeOK, DiskIsCurrent, RowsAreAttempts, StopIsJudged, [Next]_vars
  PROVE  RowsAreAttempts'
<1> USE DEF DiskIsCurrent, RowsAreAttempts, Attempts, Opening, Waiting, Attached, Stopped, Steps, vars, world, Write, Update, Abort
<1>0. /\ data \in Controllers /\ disk \in Controllers /\ index \in Attempts
      /\ leaf \in [Attempts -> Leaves] /\ Len(data.attempts) \in Nat /\ Len(disk.attempts) \in Nat
  BY DEF TypeOK, Controllers
<1>1. CASE Create BY <1>1, <1>0 DEF Create, NoController
<1>2. CASE Freeze BY <1>2, <1>0 DEF Freeze, Controllers
<1>3. CASE NextAttempt BY <1>3, <1>0 DEF NextAttempt
<1>4. CASE Allocate BY <1>4, <1>0 DEF Allocate
<1>5. CASE Attach
  <2>1. UNCHANGED <<index, started>> BY <1>5 DEF Attach
  <2> QED BY <1>5, <2>1, <1>0, AttachWrites DEF Attach
<1>6. CASE RunAttempt
  <2>1. UNCHANGED <<index, data, disk>> /\ pc' \in {"record", "abort"} BY <1>6 DEF RunAttempt
  <2>2. started' \subseteq started \cup {index} BY <1>6 DEF RunAttempt
  <2> QED BY <1>6, <2>1, <2>2, <1>0 DEF RunAttempt
<1>7. CASE Record
  <2>1. UNCHANGED <<index, started>> BY <1>7 DEF Record
  <2> QED BY <1>7, <2>1, <1>0, RecordWrites DEF Record
<1>8. CASE Judge BY <1>8, <1>0 DEF Judge
<1>9. CASE Validate BY <1>9, <1>0 DEF Validate
<1>10. CASE Finish BY <1>10, <1>0 DEF Finish
<1>11. CASE ReadBack BY <1>11, <1>0 DEF ReadBack
<1>12. CASE Return BY <1>12, <1>0 DEF Return
<1>13. CASE AbortController BY <1>13, <1>0 DEF AbortController
<1>14. CASE Meddle BY <1>14, <1>0 DEF Meddle
<1>15. CASE Expire BY <1>15, <1>0 DEF Expire
<1>16. CASE Crash \/ Propagate BY <1>16, <1>0 DEF Crash, Propagate
<1>17. CASE UNCHANGED vars BY <1>17, <1>0
<1> QED
  BY <1>1, <1>2, <1>3, <1>4, <1>5, <1>6, <1>7, <1>8, <1>9, <1>10, <1>11, <1>12, <1>13, <1>14,
     <1>15, <1>16, <1>17
     DEF Next, Step

LEMMA EarlierStay ==
  ASSUME EarlierAreRejections, TypeOK, UNCHANGED <<index, tried>>,
         \A i \in 1 .. index - 1 :
           /\ leaf'[i].state = leaf[i].state /\ leaf'[i].full = leaf[i].full
           /\ leaf'[i].candidate = leaf[i].candidate
           /\ data'.attempts[i] = data.attempts[i] /\ disk'.attempts[i] = disk.attempts[i]
  PROVE  EarlierAreRejections'
<1>1. index \in Nat BY RepairAssumption DEF TypeOK, Attempts
<1> QED BY <1>1 DEF EarlierAreRejections

LEMMA EarlierStep ==
  ASSUME TypeOK, DiskIsCurrent, RowsAreAttempts, StopIsJudged, EarlierAreRejections, [Next]_vars
  PROVE  EarlierAreRejections'
<1> USE DEF DiskIsCurrent, RowsAreAttempts, StopIsJudged, EarlierAreRejections, Attempts, Opening, Waiting, Attached, Stopped, Steps, vars, world, Write, Update, Abort
<1>0. /\ data \in Controllers /\ disk \in Controllers /\ index \in Attempts
      /\ leaf \in [Attempts -> Leaves] /\ Len(data.attempts) \in Nat /\ Len(disk.attempts) \in Nat
  BY DEF TypeOK, Controllers
<1>1. CASE Create BY <1>1, <1>0 DEF Create, NoController
<1>2. CASE Freeze BY <1>2, <1>0 DEF Freeze
<1>3. CASE NextAttempt BY <1>3, <1>0 DEF NextAttempt
<1>4. CASE Allocate
  <2>1. UNCHANGED <<index, tried, data, disk>> BY <1>4 DEF Allocate
  <2>2. \A i \in 1 .. index - 1 : i \in Attempts BY <1>0, RepairAssumption
  <2>3. \A i \in 1 .. index - 1 : /\ leaf'[i].state = leaf[i].state /\ leaf'[i].full = leaf[i].full
                                  /\ leaf'[i].candidate = leaf[i].candidate
    BY <1>4, <1>0, <2>2, LeavesStep DEF Allocate
  <2> QED BY <2>1, <2>3, EarlierStay
<1>5. CASE Attach BY <1>5, <1>0 DEF Attach
<1>6. CASE RunAttempt
  <2>1. UNCHANGED <<index, tried, data, disk>> BY <1>6 DEF RunAttempt
  <2>2. \A i \in 1 .. index - 1 : i \in Attempts BY <1>0, RepairAssumption
  <2>3. \A i \in 1 .. index - 1 : /\ leaf'[i].state = leaf[i].state /\ leaf'[i].full = leaf[i].full
                                  /\ leaf'[i].candidate = leaf[i].candidate
    BY <1>6, <1>0, <2>2, LeavesStep DEF RunAttempt
  <2> QED BY <2>1, <2>3, EarlierStay
<1>7. CASE Record
  <2>1. UNCHANGED <<index, tried, leaf>> BY <1>7 DEF Record
  <2>2. \A i \in 1 .. index - 1 : /\ data'.attempts[i] = data.attempts[i]
                                  /\ disk'.attempts[i] = disk.attempts[i]
    BY <1>7, <1>0, RecordWrites DEF Record
  <2> QED BY <2>1, <2>2, EarlierStay
<1>8. CASE Judge BY <1>8, <1>0, StopReasons DEF Judge, Retryable
<1>9. CASE Validate BY <1>9, <1>0 DEF Validate
<1>10. CASE Finish BY <1>10, <1>0 DEF Finish
<1>11. CASE ReadBack BY <1>11, <1>0 DEF ReadBack
<1>12. CASE Return BY <1>12, <1>0 DEF Return
<1>13. CASE AbortController BY <1>13, <1>0 DEF AbortController
<1>14. CASE Meddle BY <1>14, <1>0 DEF Meddle
<1>15. CASE Expire BY <1>15, <1>0 DEF Expire
<1>16. CASE Crash \/ Propagate
  <2>1. CASE Crash BY <2>1, <1>0 DEF Crash
  <2>2. CASE Propagate BY <2>2, <1>0 DEF Propagate
  <2> QED BY <1>16, <2>1, <2>2
<1>17. CASE UNCHANGED vars BY <1>17, <1>0
<1> QED
  BY <1>1, <1>2, <1>3, <1>4, <1>5, <1>6, <1>7, <1>8, <1>9, <1>10, <1>11, <1>12, <1>13, <1>14,
     <1>15, <1>16, <1>17
     DEF Next, Step

LEMMA StopStep ==
  ASSUME TypeOK, DiskIsCurrent, RowsAreAttempts, StopIsJudged, [Next]_vars
  PROVE  StopIsJudged'
<1> USE DEF DiskIsCurrent, RowsAreAttempts, StopIsJudged, Attempts, Opening, Waiting, Attached, Stopped, Steps, vars, world, Write, Update, Abort
<1>0. /\ data \in Controllers /\ disk \in Controllers /\ index \in Attempts
      /\ leaf \in [Attempts -> Leaves] /\ Len(data.attempts) \in Nat /\ Len(disk.attempts) \in Nat
  BY DEF TypeOK, Controllers
<1>1. CASE Create BY <1>1, <1>0 DEF Create
<1>2. CASE Freeze BY <1>2, <1>0 DEF Freeze
<1>3. CASE NextAttempt BY <1>3, <1>0 DEF NextAttempt
<1>4. CASE Allocate BY <1>4, <1>0 DEF Allocate
<1>5. CASE Attach BY <1>5, <1>0 DEF Attach
<1>6. CASE RunAttempt BY <1>6, <1>0 DEF RunAttempt, Results
<1>7. CASE Record
  <2>1. UNCHANGED <<index, leaf, reason>> /\ pc' \in {"judge", "abort"} BY <1>7, RecordWrites DEF Record
  <2> QED BY <1>7, <2>1, <1>0, RecordWrites DEF Record
<1>8. CASE Judge BY <1>8, <1>0, StopReasons DEF Judge
<1>9. CASE Validate BY <1>9, <1>0 DEF Validate
<1>10. CASE Finish BY <1>10, <1>0 DEF Finish
<1>11. CASE ReadBack BY <1>11, <1>0 DEF ReadBack
<1>12. CASE Return BY <1>12, <1>0 DEF Return
<1>13. CASE AbortController BY <1>13, <1>0 DEF AbortController
<1>14. CASE Meddle BY <1>14, <1>0 DEF Meddle
<1>15. CASE Expire BY <1>15, <1>0 DEF Expire
<1>16. CASE Crash \/ Propagate BY <1>16, <1>0 DEF Crash, Propagate
<1>17. CASE UNCHANGED vars BY <1>17, <1>0
<1> QED
  BY <1>1, <1>2, <1>3, <1>4, <1>5, <1>6, <1>7, <1>8, <1>9, <1>10, <1>11, <1>12, <1>13, <1>14,
     <1>15, <1>16, <1>17
     DEF Next, Step

LEMMA SelectedStep ==
  ASSUME TypeOK, DiskIsCurrent, RowsAreAttempts, StopIsJudged, ProgressIsOrdered, SelectedIsCurrent, [Next]_vars
  PROVE  SelectedIsCurrent'
<1> USE DEF TypeOK, DiskIsCurrent, RowsAreAttempts, StopIsJudged, ProgressIsOrdered, SelectedIsCurrent, Leaves, Attempts, Opening, Waiting, Attached, Stopped, Steps, vars, world, Write, Update, Abort
<1>1. CASE Create BY <1>1 DEF Create, NoController
<1>2. CASE Freeze BY <1>2 DEF Freeze, Controllers
<1>3. CASE NextAttempt BY <1>3 DEF NextAttempt
<1>4. CASE Allocate BY <1>4 DEF Allocate
<1>5. CASE Attach
  <2>1. UNCHANGED <<index, leaf, validated>> BY <1>5 DEF Attach
  <2>2. data.selected = 0 /\ disk.selected = 0 BY <1>5 DEF Attach
  <2>3. data'.selected = 0 /\ disk'.selected = 0 BY <1>5, <2>2, AttachWrites
  <2> QED BY <2>3
<1>6. CASE RunAttempt BY <1>6 DEF RunAttempt
<1>7. CASE Record
  <2>1. UNCHANGED <<index, leaf, validated>> BY <1>7 DEF Record
  <2>2. data.selected = 0 /\ disk.selected = 0 BY <1>7 DEF Record
  <2>3. data'.selected = 0 /\ disk'.selected = 0 BY <1>7, <2>2, RecordWrites
  <2> QED BY <2>3
<1>8. CASE Judge BY <1>8 DEF Judge
<1>9. CASE Validate BY <1>9 DEF Validate
<1>10. CASE Finish
  <2>1. UNCHANGED <<index, leaf, validated>> /\ disk' \in {disk, data'} BY <1>10 DEF Finish
  <2>2. data.selected = 0 /\ disk.selected = 0 BY <1>10 DEF Finish
  <2>3. /\ data'.selected = IF reason = "complete" THEN index ELSE 0
        /\ data'.finalized /\ Len(data'.attempts) = index
    BY <1>10 DEF Finish, Controllers
  <2>4. reason = "complete" => validated > 0 /\ leaf[index].state = "COMPLETE" BY <1>10 DEF Finish
  <2>5. reason # "complete" => data'.selected = 0 BY <2>3
  <2> QED BY <2>1, <2>2, <2>3, <2>4, <2>5
<1>11. CASE ReadBack BY <1>11 DEF ReadBack
<1>12. CASE Return BY <1>12 DEF Return
<1>13. CASE AbortController
  <2>1. UNCHANGED <<index, leaf, validated>> /\ disk' \in {disk, data'} BY <1>13 DEF AbortController
  <2>2. data'.selected = 0 BY <1>13 DEF AbortController, Controllers
  <2> QED BY <2>1, <2>2
<1>14. CASE Meddle BY <1>14 DEF Meddle
<1>15. CASE Expire BY <1>15 DEF Expire
<1>16. CASE Crash \/ Propagate BY <1>16 DEF Crash, Propagate
<1>17. CASE UNCHANGED vars BY <1>17
<1> QED
  BY <1>1, <1>2, <1>3, <1>4, <1>5, <1>6, <1>7, <1>8, <1>9, <1>10, <1>11, <1>12, <1>13, <1>14,
     <1>15, <1>16, <1>17
     DEF Next, Step

LEMMA ProgressStep ==
  ASSUME TypeOK, DiskIsCurrent, RowsAreAttempts, StopIsJudged, ProgressIsOrdered, [Next]_vars
  PROVE  ProgressIsOrdered'
<1> USE DEF TypeOK, DiskIsCurrent, RowsAreAttempts, StopIsJudged, ProgressIsOrdered, Controllers, Rows, Leaves, Attempts, Opening, Waiting, Attached, Stopped, Steps, vars, world, Write, Update, Abort
<1>1. CASE Create BY <1>1 DEF Create, NoController
<1>2. CASE Freeze BY <1>2 DEF Freeze
<1>3. CASE NextAttempt BY <1>3 DEF NextAttempt
<1>4. CASE Allocate BY <1>4 DEF Allocate
<1>5. CASE Attach BY <1>5 DEF Attach
<1>6. CASE RunAttempt BY <1>6 DEF RunAttempt
<1>7. CASE Record
  <2>1. UNCHANGED <<reason, validated, reply>> BY <1>7 DEF Record
  <2>2. /\ data'.phase # "absent" /\ disk'.phase # "absent" /\ pc' \in {"judge", "abort"}
        /\ data'.finalized = data.finalized /\ data'.selected = data.selected
    BY <1>7, RecordWrites DEF Record
  <2> QED BY <1>7, <2>1, <2>2 DEF Record
<1>8. CASE Judge BY <1>8, StopReasons DEF Judge
<1>9. CASE Validate BY <1>9 DEF Validate
<1>10. CASE Finish BY <1>10 DEF Finish
<1>11. CASE ReadBack BY <1>11 DEF ReadBack
<1>12. CASE Return BY <1>12 DEF Return
<1>13. CASE AbortController BY <1>13 DEF AbortController
<1>14. CASE Meddle BY <1>14 DEF Meddle
<1>15. CASE Expire BY <1>15 DEF Expire
<1>16. CASE Crash \/ Propagate BY <1>16 DEF Crash, Propagate
<1>17. CASE UNCHANGED vars BY <1>17
<1> QED
  BY <1>1, <1>2, <1>3, <1>4, <1>5, <1>6, <1>7, <1>8, <1>9, <1>10, <1>11, <1>12, <1>13, <1>14,
     <1>15, <1>16, <1>17
     DEF Next, Step

-----------------------------------------------------------------------------
(* The theorems *)

\* A repair starts with no record, no attempt and nothing selected
LEMMA InitHolds == Init => IInv
<1> SUFFICES ASSUME Init PROVE IInv
  OBVIOUS
<1> USE DEF Init, Opening, Waiting, Attached, Stopped, Steps
<1>1. TypeOK
  <2>1. data \in Controllers /\ disk \in Controllers
    <3>1. 1 \in Attempts BY RepairAssumption DEF Attempts
    <3>2. <<>> \in Seq(Rows) /\ 0 \in 0 .. MaxAttempts BY RepairAssumption
    <3> QED BY <3>2 DEF NoController, Controllers
  <2>2. leaf \in [Attempts -> Leaves] BY DEF NoLeaf, Leaves, LeafStates
  <2>3. index \in Attempts BY RepairAssumption DEF Attempts
  <2>4. validated \in 0 .. 2 /\ reply \in Replies /\ reason \in Reasons BY DEF Replies, Failures, Reasons
  <2> QED BY <2>1, <2>2, <2>3, <2>4 DEF TypeOK
<1>2. DiskIsCurrent BY DEF DiskIsCurrent
<1>3. RowsAreAttempts BY DEF RowsAreAttempts, NoController
<1>4. EarlierAreRejections BY DEF EarlierAreRejections
<1>5. StopIsJudged BY DEF StopIsJudged
<1>6. SelectedIsCurrent BY DEF SelectedIsCurrent, NoController
<1>7. ProgressIsOrdered BY DEF ProgressIsOrdered, NoController
<1> QED BY <1>1, <1>2, <1>3, <1>4, <1>5, <1>6, <1>7 DEF IInv

\* The parts of the invariant hold together in every reachable state of a repair
\* (its types are one of them)
THEOREM InvariantHolds == Spec => []IInv
<1>1. IInv /\ [Next]_vars => IInv'
  BY TypeStep, DiskStep, RowsStep, EarlierStep, StopStep, SelectedStep, ProgressStep DEF IInv
<1> QED BY <1>1, InitHolds, PTL DEF Spec

\* Whatever is interrupted, fails to be written or is changed by others, a record
\* that shows a selection shows a validated, COMPLETE, last attempt that follows
\* only fully assessed rejections of different candidates.
THEOREM SelectionEarned == Spec => []SelectionIsEarned
<1>1. IInv => SelectionIsEarned
  <2> SUFFICES ASSUME IInv, disk.selected # 0 PROVE SelectionIsEarned
    BY DEF SelectionIsEarned
  <2>1. /\ disk.finalized /\ disk.selected = index /\ Len(disk.attempts) = index
        /\ validated > 0 /\ leaf[index].state = "COMPLETE"
    BY DEF IInv, SelectedIsCurrent
  <2>2. \A i \in 1 .. index - 1 :
          /\ disk.attempts[i].outcome = "REJECTED" /\ leaf[i].full
          /\ \A j \in 1 .. i - 1 : leaf[i].candidate # leaf[j].candidate
    BY DEF IInv, EarlierAreRejections
  <2> QED BY <2>1, <2>2 DEF SelectionIsEarned
<1> QED BY <1>1, InvariantHolds, PTL

\* A crash at any point leaves a row for every attempt that was started.
THEOREM StartsLinked == Spec => []EveryStartIsLinked
<1>1. IInv => EveryStartIsLinked
  <2> SUFFICES ASSUME IInv, NEW i \in started
               PROVE  i <= Len(disk.attempts) /\ disk.attempts[i].run = i
    BY DEF EveryStartIsLinked
  <2>1. i \in 1 .. Len(disk.attempts) BY DEF IInv, RowsAreAttempts
  <2> QED BY <2>1 DEF IInv, RowsAreAttempts
<1> QED BY <1>1, InvariantHolds, PTL

\* Every retry follows the assessed rejection of a new candidate within the budget,
\* and none is allocated after the deadline.
THEOREM RetriesJustified == Spec => RetryIsJustified
<1> DEFINE Justified ==
      /\ index' # index => /\ index' = index + 1
                           /\ leaf[index].state = "REJECTED" /\ leaf[index].full
                           /\ \A j \in 1 .. index - 1 :
                                leaf[j].candidate # leaf[index].candidate
      /\ (pc = "next" /\ pc' = "allocate") => ~expired
<1>1. IInv /\ [Next]_vars => [Justified]_vars
  <2> SUFFICES ASSUME IInv, Next PROVE Justified
    OBVIOUS
  <2> USE DEF world, Update, Abort
  <2>1. CASE Judge
    <3>1. index' # index => /\ index' = index + 1 /\ StopReason = "none"
      BY <2>1 DEF Judge
    <3>2. index' # index => Retryable /\ leaf[index].candidate \notin tried
      BY <3>1, StopReasons DEF IInv
    <3>3. \A j \in 1 .. index - 1 : leaf[j].candidate \in tried
      BY DEF IInv, EarlierAreRejections
    <3> QED BY <2>1, <3>1, <3>2, <3>3 DEF Judge, Retryable
  <2>2. CASE NextAttempt BY <2>2 DEF NextAttempt
  <2>3. CASE index' = index /\ pc # "next" BY <2>3
  <2>4. CASE Meddle \/ Expire \/ Crash \/ Propagate BY <2>4 DEF Meddle, Expire, Crash, Propagate
  <2>5. CASE Create \/ Freeze \/ Allocate \/ Attach \/ RunAttempt \/ Record
    BY <2>3, <2>5 DEF Create, Freeze, Allocate, Attach, RunAttempt, Record
  <2>6. CASE Validate \/ Finish \/ ReadBack \/ Return \/ AbortController
    BY <2>3, <2>6 DEF Validate, Finish, ReadBack, Return, AbortController
  <2> QED BY <2>1, <2>2, <2>4, <2>5, <2>6 DEF Next, Step
<1> QED BY <1>1, InvariantHolds, PTL DEF Spec, RetryIsJustified

-----------------------------------------------------------------------------
(* The controller keeps the safety part of the record promise *)

\* A repair starts as the promise does
LEMMA PromisedInit == ASSUME Init PROVE Record0!PromiseInit
BY DEF Init, Record0!PromiseInit, Sight, CallerAnswer, Failures, NoController

\* Every step is one of the promise, or changes nothing of what it speaks of
LEMMA PromisedStep ==
  ASSUME IInv, IInv', [Next]_vars
  PROVE  [Record0!PromiseNext]_(Record0!promiseVars)
<1> USE DEF Record0!promiseVars, world
<1>1. CASE UNCHANGED <<disk, validated, reply>>
  BY <1>1 DEF Sight, CallerAnswer, Failures
<1> SUFFICES ASSUME Next, ~UNCHANGED <<disk, validated, reply>>
             PROVE  Record0!PromiseNext
  BY <1>1 DEF vars
<1>2. pc # "done"
  <2>1. ~(\/ Create \/ Freeze \/ NextAttempt \/ Allocate \/ Attach \/ RunAttempt \/ Record
          \/ Judge)
        \/ pc # "done"
    BY DEF Create, Freeze, NextAttempt, Allocate, Attach, RunAttempt, Record, Judge
  <2>2. ~(Validate \/ Finish \/ ReadBack \/ Return \/ AbortController \/ Meddle \/ Expire
          \/ Crash \/ Propagate)
        \/ pc # "done"
    BY DEF Validate, Finish, ReadBack, Return, AbortController, Meddle, Expire, Crash, Propagate
  <2> QED BY <2>1, <2>2 DEF Next, Step
<1>3. reply = "none" /\ CallerAnswer = "none"
  BY <1>2 DEF IInv, ProgressIsOrdered, CallerAnswer, Failures
<1>4. ASSUME Record0!Observe \/ Record0!Settle \/ Record0!Validate \/ Record0!Succeed
             \/ Record0!Answer \/ Record0!Raise \/ Record0!Lose
      PROVE  Record0!PromiseNext
  BY <1>3, <1>4 DEF Record0!PromiseNext
\* what is seen of a record
<1>5. /\ disk.phase = "absent" => Sight = "absent"
      /\ disk.phase # "absent" /\ ~disk.finalized => Sight = "open"
      /\ disk.phase # "absent" /\ disk.finalized /\ disk.selected = 0 => Sight = "settled"
      /\ disk.phase # "absent" /\ disk.finalized /\ disk.selected # 0 => Sight = "success"
  BY DEF Sight
<1>6. /\ disk'.phase = "absent" => Sight' = "absent"
      /\ disk'.phase # "absent" /\ ~disk'.finalized => Sight' = "open"
      /\ disk'.phase # "absent" /\ disk'.finalized /\ disk'.selected = 0 => Sight' = "settled"
      /\ disk'.phase # "absent" /\ disk'.finalized /\ disk'.selected # 0 => Sight' = "success"
  BY DEF Sight
<1>7. disk' = disk => Sight' = Sight
  BY DEF Sight
<1>8. reply' = reply => CallerAnswer' = CallerAnswer
  BY DEF CallerAnswer, Failures
<1>9. data \in Controllers /\ disk \in Controllers /\ index > 0
  BY RepairAssumption DEF IInv, TypeOK, Attempts
<1>10. CASE Create
  <2>1. disk.phase = "absent" /\ validated' = validated
    BY <1>10 DEF Create, IInv, ProgressIsOrdered
  <2>2. disk' \in {disk, data'} /\ data'.phase = "admitted" /\ ~data'.finalized
    BY <1>10 DEF Create, Write, NoController
  <2>3. \/ reply' = reply /\ disk' = data'
        \/ reply' = "raised"
    BY <1>10 DEF Create, Write
  <2>4. CASE reply' = reply /\ disk' = data'
    BY <2>1, <2>2, <2>4, <1>4, <1>6, <1>8 DEF Record0!Observe
  <2>5. CASE reply' = "raised"
    <3>1. CallerAnswer' = "exception" BY <2>5 DEF CallerAnswer, Failures
    <3> QED BY <2>1, <2>2, <3>1, <1>4, <1>5, <1>6, <1>7 DEF Record0!Raise
  <2> QED BY <2>3, <2>4, <2>5
\* an observation leaves the record open
<1>11. CASE Freeze \/ Attach \/ Record
  <2>1. /\ ~data.finalized /\ data.phase # "absent" /\ disk = data
        /\ validated' = validated /\ reply' = reply
    BY <1>11 DEF Freeze, Attach, Record, IInv, ProgressIsOrdered, DiskIsCurrent,
       Opening, Waiting, Attached
  <2>2. data' = data \/ data' = [data EXCEPT !.phase = "captured"]
        \/ (data'.phase # "absent" /\ data'.finalized = data.finalized)
    <3>1. CASE Freeze BY <3>1 DEF Freeze, Update, Write, Abort
    <3>2. CASE Attach BY <3>2, AttachWrites DEF IInv
    <3>3. CASE Record BY <3>3, RecordWrites DEF IInv
    <3> QED BY <1>11, <3>1, <3>2, <3>3
  <2>3. data'.phase # "absent" /\ ~data'.finalized BY <2>1, <2>2, <1>9 DEF Controllers
  <2>4. disk' \in {disk, data'} BY ControllersStep DEF IInv
  <2>5. Sight' = "open" BY <2>1, <2>3, <2>4, <1>6
  <2> QED BY <2>1, <2>5, <1>4, <1>8 DEF Record0!Observe
<1>12. CASE Validate
  <2>1. validated = 0 /\ validated' = 1 /\ reply' = reply /\ disk' = disk
    BY <1>12 DEF Validate, Abort, IInv, ProgressIsOrdered
  <2>2. Sight = "open" BY <1>12, <1>5 DEF Validate, IInv, ProgressIsOrdered, DiskIsCurrent
  <2> QED BY <2>1, <2>2, <1>4, <1>7, <1>8 DEF Record0!Validate
\* the finished record is a success exactly when the selection was validated
<1>13. CASE Finish
  <2>1. /\ validated = (IF reason = "complete" THEN 1 ELSE 0) /\ Sight = "open"
        /\ validated' = validated /\ reply' = reply
    BY <1>13, <1>5 DEF Finish, IInv, ProgressIsOrdered, DiskIsCurrent
  <2>2. /\ disk' \in {disk, data'} /\ data'.phase = "finished" /\ data'.finalized
        /\ data'.selected = IF reason = "complete" THEN index ELSE 0
    BY <1>13, <1>9 DEF Finish, Update, Write, Controllers
  <2>3. disk' = data' BY <1>7, <1>8, <2>1, <2>2
  <2>4. CASE reason = "complete"
    <3>1. Sight' = "success" BY <2>2, <2>3, <2>4, <1>6, <1>9
    <3> QED BY <2>1, <2>4, <3>1, <1>4, <1>8 DEF Record0!Succeed
  <2>5. CASE reason # "complete"
    <3>1. Sight' = "settled" BY <2>2, <2>3, <2>5, <1>6
    <3> QED BY <2>1, <2>5, <3>1, <1>4, <1>8 DEF Record0!Settle
  <2> QED BY <2>4, <2>5
<1>14. CASE ReadBack
  <2>1. reason = "complete" /\ validated = 1 /\ validated' = 2 /\ reply' = reply /\ disk' = disk
    BY <1>14 DEF ReadBack, Abort, IInv, ProgressIsOrdered
  <2>2. Sight = "success"
    BY <1>14, <2>1, <1>5, <1>9 DEF ReadBack, IInv, ProgressIsOrdered, DiskIsCurrent
  <2> QED BY <2>1, <2>2, <1>4, <1>7, <1>8 DEF Record0!Validate
<1>15. CASE Return
  <2>1. /\ validated' = validated /\ disk' = disk /\ reply' = leaf[index].state
        /\ leaf[index].state \in Outcomes /\ disk.phase # "absent" /\ disk.finalized
        /\ (reason = "complete" <=> leaf[index].state = "COMPLETE")
        /\ validated = (IF reason = "complete" THEN 2 ELSE 0)
        /\ disk.selected = (IF reason = "complete" THEN index ELSE 0)
    BY <1>15 DEF Return, Abort, IInv, ProgressIsOrdered, DiskIsCurrent, StopIsJudged, Stopped
  <2>2. CASE reason = "complete"
    <3>1. Sight = "success" BY <2>1, <2>2, <1>5, <1>9
    <3>2. CallerAnswer' = "success" BY <2>1, <2>2 DEF CallerAnswer, Failures
    <3> QED BY <2>1, <2>2, <3>1, <3>2, <1>4, <1>7 DEF Record0!Answer
  <2>3. CASE reason # "complete"
    <3>1. Sight = "settled" BY <2>1, <2>3, <1>5
    <3>2. CallerAnswer' = "settled" BY <2>1, <2>3 DEF CallerAnswer, Failures, Outcomes
    <3> QED BY <2>1, <2>3, <3>1, <3>2, <1>4, <1>7 DEF Record0!Answer
  <2> QED BY <2>2, <2>3
\* an exception withdraws the selection, or says that it could not
<1>16. CASE AbortController
  <2>1. validated' = validated /\ disk.phase # "absent"
    BY <1>16 DEF AbortController, IInv, ProgressIsOrdered
  <2>2. data'.phase = "halted" /\ ~data'.finalized
    BY <1>16, <1>9 DEF AbortController, Write, Controllers
  <2>3. \/ reply' = "raised" /\ disk' = data'
        \/ reply' \in {"unpersisted", "interrupted"} /\ disk' \in {disk, data'}
    BY <1>16 DEF AbortController, Write
  <2>4. disk' = data' => Sight' = "open" BY <2>2, <1>6
  <2>5. CASE reply' = "raised" /\ disk' = data'
    <3>1. CallerAnswer' = "exception" BY <2>5 DEF CallerAnswer, Failures
    <3> QED BY <2>1, <2>4, <2>5, <3>1, <1>4 DEF Record0!Raise
  <2>6. CASE reply' \in {"unpersisted", "interrupted"} /\ disk' \in {disk, data'}
    <3>1. CallerAnswer' = "lost" BY <2>6 DEF CallerAnswer, Failures
    <3> QED BY <2>1, <2>4, <2>6, <3>1, <1>4, <1>7 DEF Record0!Lose
  <2> QED BY <2>3, <2>5, <2>6
<1>17. CASE Crash \/ Propagate
  <2>1. validated' = validated /\ disk' = disk /\ reply' \in {"interrupted", "crashed"}
    BY <1>17 DEF Crash, Propagate
  <2>2. CallerAnswer' = "lost" BY <2>1 DEF CallerAnswer, Failures
  <2> QED BY <2>1, <2>2, <1>4, <1>7 DEF Record0!Lose
<1>18. CASE NextAttempt \/ Allocate \/ RunAttempt \/ Judge \/ Meddle \/ Expire
  BY <1>18 DEF NextAttempt, Allocate, RunAttempt, Judge, Meddle, Expire, Abort
<1> QED BY <1>10, <1>11, <1>12, <1>13, <1>14, <1>15, <1>16, <1>17, <1>18 DEF Next, Step

\* Whatever fails around it, a controller shows a selection only after it validated
\* it, returns it only after it did so again with its whole history, raises only after
\* it withdrew it, and changes nothing after its answer.
THEOREM RepairKeepsItsRecordPromise ==
  Spec => Record0!PromiseInit /\ [][Record0!PromiseNext]_(Record0!promiseVars)
<1>1. Init => Record0!PromiseInit BY PromisedInit
<1>2. IInv /\ IInv' /\ [Next]_vars => [Record0!PromiseNext]_(Record0!promiseVars)
  BY PromisedStep
<1> QED BY <1>1, <1>2, InvariantHolds, PTL DEF Spec
=============================================================================
