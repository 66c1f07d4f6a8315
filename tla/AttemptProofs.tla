---------------------------- MODULE AttemptProofs ----------------------------
(***************************************************************************)
(* Proofs about Attempt, for every number of declared checks: its types,   *)
(* that success is earned, that what is returned is recorded and that no   *)
(* exception leaves a success behind; that no verdict is given while a     *)
(* process may live, that a rejection was assessed in full, and that the   *)
(* deadline holds; and that an attempt implements the record promise.      *)
(***************************************************************************)
EXTENDS AttemptPromise, TLAPS

-----------------------------------------------------------------------------
(* The inductive invariant, in parts named for what they say *)

BeforeChecks == {"admit", "create", "preflight", "baseline", "produce", "capture", "exports"}
InChecks == {"prepare", "start", "judge"}
Unfinished == BeforeChecks \cup InChecks \cup {"reduce", "close", "finish"}
Certified == {"certify", "reassess", "announce", "failing", "done"}

\* There is always a check left to observe while the loop of checks runs
ChecksCounted ==
  /\ pc \in BeforeChecks => done = 0
  /\ pc \in InChecks => done < NumChecks

\* How often the evidence was validated follows from the program point
ValidationsCounted ==
  /\ pc \in Unfinished \cup {"assess", "refuse"} => assessed = 0
  /\ pc \in {"certify", "reassess"} => assessed = 1
  /\ pc = "announce" => assessed \in {0, 2}

\* A passed check had the captured bytes as its subject
PassesWereJudged ==
  /\ pc = "judge" /\ intact => done + 1 \in judged
  /\ \A i \in CheckIds : checks[i] = "pass" => i \in judged

Evidence ==
  /\ artifact /\ clean /\ judged = CheckIds
  /\ \A i \in CheckIds : checks[i] = "pass"

\* The evidence that passed validation is final
ValidationIsFinal == assessed > 0 => pc \in Certified /\ Evidence

Shown(r) == r.complete /\ r.outcome = "COMPLETE"

\* Nothing is complete before finish; the record that is assessed is in memory,
\* too; only a certified record shows COMPLETE
RecordsAreHonest ==
  /\ pc \in Unfinished => ~data.complete /\ ~disk.complete /\ outcome # "COMPLETE"
  /\ pc = "assess" => data = disk
  /\ pc = "certify" => data.rows = NumChecks
  /\ pc = "announce" => disk.complete /\ disk.phase = "finished" /\ disk.outcome = outcome
  /\ Shown(data) => assessed > 0 /\ data.rows = NumChecks
  /\ Shown(disk) => assessed > 0 /\ disk.rows = NumChecks

\* What the end of the invocation says about the record
RepliesAreHonest ==
  /\ pc # "done" => reply = "none"
  /\ reply \in {"refused", "not_allocated", "invalid", "unfinalized"} => ~disk.complete
  /\ ReplyIsRecorded

IInv ==
  /\ TypeOK
  /\ ChecksCounted /\ ValidationsCounted /\ PassesWereJudged /\ ValidationIsFinal
  /\ RecordsAreHonest /\ RepliesAreHonest

-----------------------------------------------------------------------------
(* What the helpers of the actions return *)

\* normalize_check has three results
LEMMA VerdictTypes ==
  ASSUME NEW o, NEW b PROVE Normalize(o, b) \in Verdicts
BY DEF Normalize, Verdicts

\* Every observation, the one of a process that was never started included, carries
\* a stop reason and the result of the cleanup
LEMMA ObservationTypes ==
  ASSUME NEW o \in Supervised \cup {NotRun}
  PROVE  o.stop \in StopReasons /\ o.cleanup \in BOOLEAN
<1>1. CASE o \in Supervised BY <1>1 DEF Supervised, Observations
<1>2. CASE o = NotRun BY <1>2 DEF NotRun, StopReasons
<1> QED BY <1>1, <1>2

\* The reason a check stopped for is one of StopCodes
LEMMA CheckStopTypes ==
  ASSUME NEW o \in Supervised \cup {NotRun} PROVE CheckStop(o) \in StopCodes
BY ObservationTypes DEF CheckStop, StopCodes, StopReasons

\* So is the reason the producer stopped for
LEMMA NativeStopTypes ==
  ASSUME NEW o \in Supervised, NEW reported \in BOOLEAN, NEW broken \in BOOLEAN,
         NEW completed \in BOOLEAN
  PROVE  NativeStop(o, reported, broken, completed) \in StopCodes
<1>1. o.stop \in StopReasons /\ o.cleanup \in BOOLEAN BY ObservationTypes
<1>2. ProducerFailure(o) \in StopCodes
  BY <1>1 DEF ProducerFailure, StopCodes, StopReasons
<1> QED BY <1>2 DEF NativeStop, StopCodes, StopReasons

-----------------------------------------------------------------------------
(* Types *)

\* The empty record is well formed
LEMMA NoRecordType == NoRecord \in Records
BY NumChecksAssumption DEF NoRecord, Records, Phases

\* A change of phase keeps a record well formed
LEMMA PhaseEdit ==
  ASSUME NEW r \in Records, NEW p \in Phases PROVE [r EXCEPT !.phase = p] \in Records
BY DEF Records

\* AttemptStore.create starts from an empty record
LEMMA NewRecordType == [NoRecord EXCEPT !.phase = "admitted"] \in Records
<1>1. "admitted" \in Phases BY DEF Phases
<1> QED BY <1>1, NoRecordType, PhaseEdit

RecordTypes == data \in Records /\ disk \in Records

PointTypes == pc \in Points /\ stop \in StopCodes /\ reply \in Replies

CheckTypes ==
  /\ checks \in [CheckIds -> Verdicts \cup {"none"}]
  /\ done \in 0 .. NumChecks /\ judged \in SUBSET CheckIds

OtherTypes ==
  /\ bound \in BOOLEAN /\ clean \in BOOLEAN /\ artifact \in BOOLEAN /\ intact \in BOOLEAN
  /\ outcome \in Outcomes /\ assessed \in 0 .. 2
  /\ retained \in BOOLEAN /\ subject \in BOOLEAN /\ inputs \in BOOLEAN
  /\ expired \in BOOLEAN /\ live \in BOOLEAN

\* Every write stores a well-formed record
LEMMA RecordTypesStep ==
  ASSUME TypeOK, ChecksCounted, [Next]_vars
  PROVE  RecordTypes'
<1> USE DEF TypeOK, ChecksCounted, ValidationsCounted, InTry, Unfinished,
        BeforeChecks, InChecks, Certified, vars, run, world, history, Write,
        LeaveWith, Update, Fail, End, Strand, Commit, Finish, RecordTypes,
        Records, Phases, Outcomes, Failed
<1>1. CASE Admit BY <1>1 DEF Admit
<1>2. CASE Create BY <1>2, NewRecordType DEF Create
<1>3. CASE Preflight BY <1>3 DEF Preflight
<1>4. CASE CaptureBaseline BY <1>4 DEF CaptureBaseline
<1>5. CASE Produce BY <1>5 DEF Produce
<1>6. CASE CaptureOutput BY <1>6 DEF CaptureOutput
<1>7. CASE CaptureExports BY <1>7 DEF CaptureExports
<1>8. CASE PrepareCheck BY <1>8 DEF PrepareCheck
<1>9. CASE StartCheck BY <1>9 DEF StartCheck
<1>10. CASE FinishCheck
  <2>1. done + 1 \in 0 .. NumChecks BY <1>10, NumChecksAssumption DEF FinishCheck
  <2>2. [data EXCEPT !.phase = "checks", !.rows = done + 1] \in Records BY <2>1
  <2>3. data' \in {data, [data EXCEPT !.phase = "checks", !.rows = done + 1]}
    BY <1>10 DEF FinishCheck
  <2>4. disk' \in {disk, data'} BY <1>10 DEF FinishCheck
  <2> QED BY <2>2, <2>3, <2>4
<1>11. CASE Reduce BY <1>11 DEF Reduce
<1>12. CASE Close BY <1>12 DEF Close
<1>13. CASE FinishProvisional BY <1>13, ZenonT(40) DEF FinishProvisional
<1>14. CASE Assess BY <1>14 DEF Assess
<1>15. CASE Refuse BY <1>15, ZenonT(40) DEF Refuse
<1>16. CASE Certify BY <1>16, ZenonT(40) DEF Certify
<1>17. CASE Reassess BY <1>17 DEF Reassess
<1>18. CASE FailFinalization BY <1>18, ZenonT(40) DEF FailFinalization
<1>19. CASE Announce BY <1>19 DEF Announce
<1>20. CASE Interrupt BY <1>20 DEF Interrupt
<1>21. CASE Propagate BY <1>21 DEF Propagate
<1>22. CASE Meddle BY <1>22 DEF Meddle
<1>23. CASE Expire BY <1>23 DEF Expire
<1>24. CASE Crash BY <1>24 DEF Crash
<1>25. CASE UNCHANGED vars BY <1>25
<1> QED
  BY <1>1, <1>2, <1>3, <1>4, <1>5, <1>6, <1>7, <1>8, <1>9, <1>10, <1>11, <1>12,
     <1>13, <1>14, <1>15, <1>16, <1>17, <1>18, <1>19, <1>20, <1>21, <1>22,
     <1>23, <1>24, <1>25 DEF Next, Step

\* The program point, the reason and the reply
LEMMA PointTypesStep ==
  ASSUME TypeOK, ChecksCounted, [Next]_vars
  PROVE  PointTypes'
<1> USE DEF TypeOK, ChecksCounted, ValidationsCounted, InTry, Unfinished,
        BeforeChecks, InChecks, Certified, vars, run, world, history, Write,
        LeaveWith, Update, Fail, End, Strand, Commit, Finish, PointTypes,
        Points, StopCodes, StopReasons, Replies, Failures, Outcomes
<1>1. CASE Admit BY <1>1 DEF Admit
<1>2. CASE Create BY <1>2 DEF Create
<1>3. CASE Preflight BY <1>3 DEF Preflight
<1>4. CASE CaptureBaseline BY <1>4 DEF CaptureBaseline
<1>5. CASE Produce
  <2>1. pc' \in Points /\ reply' \in Replies BY <1>5 DEF Produce
  <2>2. ASSUME NEW o \in Supervised, NEW reported \in BOOLEAN, NEW broken \in BOOLEAN,
               NEW completed \in BOOLEAN,
               stop' = NativeStop(o, reported, broken, completed)
        PROVE  stop' \in StopCodes
    BY <2>2, NativeStopTypes
  <2>3. \/ \E o \in Supervised, reported, broken, completed \in BOOLEAN :
             stop' = NativeStop(o, reported, broken, completed)
        \/ \E code \in {"filesystem_error", "contract_error", "cancelled", "attempt_deadline"} :
             stop' \in {stop, code}
    BY <1>5, ZenonT(40) DEF Produce
  <2> QED BY <2>1, <2>2, <2>3
<1>6. CASE CaptureOutput BY <1>6 DEF CaptureOutput
<1>7. CASE CaptureExports BY <1>7 DEF CaptureExports
<1>8. CASE PrepareCheck BY <1>8 DEF PrepareCheck
<1>9. CASE StartCheck BY <1>9 DEF StartCheck
<1>10. CASE FinishCheck
  <2>1. pc' \in Points /\ reply' \in Replies BY <1>10 DEF FinishCheck
  <2>2. ASSUME NEW o \in Supervised \cup {NotRun}, stop' = CheckStop(o)
        PROVE  stop' \in StopCodes
    BY <2>2, CheckStopTypes
  <2>3. \/ \E o \in Supervised \cup {NotRun} : stop' = CheckStop(o)
        \/ \E code \in {"filesystem_error", "contract_error", "cancelled"} :
             stop' \in {stop, code}
    BY <1>10 DEF FinishCheck
  <2> QED BY <2>1, <2>2, <2>3
<1>11. CASE Reduce BY <1>11 DEF Reduce
<1>12. CASE Close BY <1>12 DEF Close
<1>13. CASE FinishProvisional BY <1>13 DEF FinishProvisional
<1>14. CASE Assess BY <1>14 DEF Assess
<1>15. CASE Refuse BY <1>15 DEF Refuse
<1>16. CASE Certify BY <1>16 DEF Certify
<1>17. CASE Reassess BY <1>17 DEF Reassess
<1>18. CASE FailFinalization BY <1>18 DEF FailFinalization
<1>19. CASE Announce BY <1>19 DEF Announce
<1>20. CASE Interrupt BY <1>20 DEF Interrupt
<1>21. CASE Propagate BY <1>21 DEF Propagate
<1>22. CASE Meddle BY <1>22 DEF Meddle
<1>23. CASE Expire BY <1>23 DEF Expire
<1>24. CASE Crash BY <1>24 DEF Crash
<1>25. CASE UNCHANGED vars BY <1>25
<1> QED
  BY <1>1, <1>2, <1>3, <1>4, <1>5, <1>6, <1>7, <1>8, <1>9, <1>10, <1>11, <1>12,
     <1>13, <1>14, <1>15, <1>16, <1>17, <1>18, <1>19, <1>20, <1>21, <1>22,
     <1>23, <1>24, <1>25 DEF Next, Step

\* The check in progress is one of the declared checks
LEMMA CheckTypesStep ==
  ASSUME TypeOK, ChecksCounted, [Next]_vars
  PROVE  CheckTypes'
<1> USE DEF TypeOK, ChecksCounted, ValidationsCounted, InTry, Unfinished,
        BeforeChecks, InChecks, Certified, vars, run, world, history, Write,
        LeaveWith, Update, Fail, End, Strand, Commit, Finish, CheckTypes,
        CheckIds
<1>1. CASE Admit BY <1>1 DEF Admit
<1>2. CASE Create BY <1>2 DEF Create
<1>3. CASE Preflight BY <1>3 DEF Preflight
<1>4. CASE CaptureBaseline BY <1>4 DEF CaptureBaseline
<1>5. CASE Produce BY <1>5 DEF Produce
<1>6. CASE CaptureOutput BY <1>6 DEF CaptureOutput
<1>7. CASE CaptureExports BY <1>7 DEF CaptureExports
<1>8. CASE PrepareCheck BY <1>8 DEF PrepareCheck
<1>9. CASE StartCheck
  <2>1. done + 1 \in CheckIds BY <1>9, NumChecksAssumption DEF StartCheck
  <2>2. judged' \in {judged, judged \cup {done + 1}} BY <1>9 DEF StartCheck
  <2>3. checks' = checks /\ done' = done BY <1>9 DEF StartCheck
  <2> QED BY <2>1, <2>2, <2>3
<1>10. CASE FinishCheck
  <2>1. done + 1 \in CheckIds BY <1>10, NumChecksAssumption DEF FinishCheck
  <2>2. judged' \in {judged, judged \ {done + 1}} BY <1>10 DEF FinishCheck
  <2>3. done' \in {done, done + 1} BY <1>10 DEF FinishCheck
  <2>4. \/ checks' = checks
        \/ \E o \in Supervised \cup {NotRun} : checks' =
             [checks EXCEPT ![done + 1] = Normalize(o, intact /\ retained /\ subject)]
    BY <1>10 DEF FinishCheck
  <2>5. checks' \in [CheckIds -> Verdicts \cup {"none"}] BY <2>1, <2>4, VerdictTypes
  <2> QED BY <2>1, <2>2, <2>3, <2>5, NumChecksAssumption
<1>11. CASE Reduce BY <1>11 DEF Reduce
<1>12. CASE Close BY <1>12 DEF Close
<1>13. CASE FinishProvisional BY <1>13 DEF FinishProvisional
<1>14. CASE Assess BY <1>14 DEF Assess
<1>15. CASE Refuse BY <1>15 DEF Refuse
<1>16. CASE Certify BY <1>16 DEF Certify
<1>17. CASE Reassess BY <1>17 DEF Reassess
<1>18. CASE FailFinalization BY <1>18 DEF FailFinalization
<1>19. CASE Announce BY <1>19 DEF Announce
<1>20. CASE Interrupt BY <1>20 DEF Interrupt
<1>21. CASE Propagate BY <1>21 DEF Propagate
<1>22. CASE Meddle BY <1>22 DEF Meddle
<1>23. CASE Expire BY <1>23 DEF Expire
<1>24. CASE Crash BY <1>24 DEF Crash
<1>25. CASE UNCHANGED vars BY <1>25
<1> QED
  BY <1>1, <1>2, <1>3, <1>4, <1>5, <1>6, <1>7, <1>8, <1>9, <1>10, <1>11, <1>12,
     <1>13, <1>14, <1>15, <1>16, <1>17, <1>18, <1>19, <1>20, <1>21, <1>22,
     <1>23, <1>24, <1>25 DEF Next, Step

\* Everything else
LEMMA OtherTypesStep ==
  ASSUME TypeOK, ChecksCounted, ValidationsCounted, [Next]_vars
  PROVE  OtherTypes'
<1> USE DEF TypeOK, ChecksCounted, ValidationsCounted, InTry, Unfinished,
        BeforeChecks, InChecks, Certified, vars, run, world, history, Write,
        LeaveWith, Update, Fail, End, Strand, Commit, Finish, OtherTypes,
        Outcomes
<1>1. CASE Admit BY <1>1 DEF Admit
<1>2. CASE Create BY <1>2 DEF Create
<1>3. CASE Preflight BY <1>3 DEF Preflight
<1>4. CASE CaptureBaseline BY <1>4, ZenonT(40) DEF CaptureBaseline
<1>5. CASE Produce
  <2>1. clean' \in BOOLEAN /\ live' \in BOOLEAN
    BY <1>5, ObservationTypes DEF Produce
  <2>2. UNCHANGED <<bound, artifact, intact, outcome, assessed, retained, subject, inputs, expired>>
    BY <1>5 DEF Produce
  <2> QED BY <2>1, <2>2
<1>6. CASE CaptureOutput BY <1>6 DEF CaptureOutput
<1>7. CASE CaptureExports BY <1>7 DEF CaptureExports
<1>8. CASE PrepareCheck BY <1>8, ZenonT(40) DEF PrepareCheck
<1>9. CASE StartCheck BY <1>9 DEF StartCheck
<1>10. CASE FinishCheck
  <2>1. live' \in BOOLEAN BY <1>10, ObservationTypes DEF FinishCheck
  <2>2. UNCHANGED <<bound, clean, artifact, intact, outcome, assessed, retained, subject,
                    inputs, expired>>
    BY <1>10 DEF FinishCheck
  <2> QED BY <2>1, <2>2
<1>11. CASE Reduce BY <1>11 DEF Reduce, Reduced
<1>12. CASE Close BY <1>12 DEF Close
<1>13. CASE FinishProvisional BY <1>13 DEF FinishProvisional
<1>14. CASE Assess BY <1>14 DEF Assess
<1>15. CASE Refuse BY <1>15 DEF Refuse
<1>16. CASE Certify BY <1>16 DEF Certify
<1>17. CASE Reassess BY <1>17 DEF Reassess
<1>18. CASE FailFinalization BY <1>18 DEF FailFinalization
<1>19. CASE Announce BY <1>19 DEF Announce
<1>20. CASE Interrupt BY <1>20 DEF Interrupt
<1>21. CASE Propagate BY <1>21 DEF Propagate
<1>22. CASE Meddle
  <2>1. retained' \in BOOLEAN /\ subject' \in BOOLEAN /\ inputs' \in BOOLEAN
    BY <1>22, Zenon DEF Meddle
  <2>2. UNCHANGED <<bound, clean, artifact, intact, outcome, assessed, expired, live>>
    BY <1>22 DEF Meddle
  <2> QED BY <2>1, <2>2
<1>23. CASE Expire BY <1>23 DEF Expire
<1>24. CASE Crash BY <1>24 DEF Crash
<1>25. CASE UNCHANGED vars BY <1>25
<1> QED
  BY <1>1, <1>2, <1>3, <1>4, <1>5, <1>6, <1>7, <1>8, <1>9, <1>10, <1>11, <1>12,
     <1>13, <1>14, <1>15, <1>16, <1>17, <1>18, <1>19, <1>20, <1>21, <1>22,
     <1>23, <1>24, <1>25 DEF Next, Step

\* A step of the invocation keeps every type
LEMMA TypesStep ==
  ASSUME TypeOK, ChecksCounted, ValidationsCounted, [Next]_vars PROVE TypeOK'
BY RecordTypesStep, PointTypesStep, CheckTypesStep, OtherTypesStep
   DEF TypeOK, RecordTypes, PointTypes, CheckTypes, OtherTypes

-----------------------------------------------------------------------------
(* The other parts of the invariant *)

\* The loop observes the checks one by one
LEMMA CountsStep ==
  ASSUME TypeOK, ChecksCounted, [Next]_vars
  PROVE  ChecksCounted'
<1> USE NumChecksAssumption DEF TypeOK, ChecksCounted, InTry, BeforeChecks,
        InChecks, Unfinished, Certified, vars, run, world, history, Write,
        LeaveWith, Update, Fail, End, Strand, Commit, Finish
<1>1. CASE Admit BY <1>1 DEF Admit
<1>2. CASE Create BY <1>2 DEF Create
<1>3. CASE Preflight BY <1>3 DEF Preflight
<1>4. CASE CaptureBaseline BY <1>4 DEF CaptureBaseline
<1>5. CASE Produce BY <1>5 DEF Produce
<1>6. CASE CaptureOutput BY <1>6 DEF CaptureOutput
<1>7. CASE CaptureExports BY <1>7 DEF CaptureExports
<1>8. CASE PrepareCheck BY <1>8 DEF PrepareCheck
<1>9. CASE StartCheck BY <1>9 DEF StartCheck
<1>10. CASE FinishCheck BY <1>10 DEF FinishCheck
<1>11. CASE Reduce BY <1>11 DEF Reduce
<1>12. CASE Close BY <1>12 DEF Close
<1>13. CASE FinishProvisional BY <1>13 DEF FinishProvisional
<1>14. CASE Assess BY <1>14 DEF Assess
<1>15. CASE Refuse BY <1>15 DEF Refuse
<1>16. CASE Certify BY <1>16 DEF Certify
<1>17. CASE Reassess BY <1>17 DEF Reassess
<1>18. CASE FailFinalization BY <1>18 DEF FailFinalization
<1>19. CASE Announce BY <1>19 DEF Announce
<1>20. CASE Interrupt BY <1>20 DEF Interrupt
<1>21. CASE Propagate BY <1>21 DEF Propagate
<1>22. CASE Meddle BY <1>22 DEF Meddle
<1>23. CASE Expire BY <1>23 DEF Expire
<1>24. CASE Crash BY <1>24 DEF Crash
<1>25. CASE UNCHANGED vars BY <1>25
<1> QED
  BY <1>1, <1>2, <1>3, <1>4, <1>5, <1>6, <1>7, <1>8, <1>9, <1>10, <1>11, <1>12,
     <1>13, <1>14, <1>15, <1>16, <1>17, <1>18, <1>19, <1>20, <1>21, <1>22,
     <1>23, <1>24, <1>25 DEF Next, Step

\* Validation happens once before certification and once after
LEMMA ValidationsStep ==
  ASSUME TypeOK, ValidationsCounted, [Next]_vars
  PROVE  ValidationsCounted'
<1> USE DEF TypeOK, ValidationsCounted, InTry, BeforeChecks, InChecks,
        Unfinished, Certified, vars, run, world, history, Write, LeaveWith,
        Update, Fail, End, Strand, Commit, Finish
<1>1. CASE Admit BY <1>1 DEF Admit
<1>2. CASE Create BY <1>2 DEF Create
<1>3. CASE Preflight BY <1>3 DEF Preflight
<1>4. CASE CaptureBaseline BY <1>4 DEF CaptureBaseline
<1>5. CASE Produce BY <1>5 DEF Produce
<1>6. CASE CaptureOutput BY <1>6 DEF CaptureOutput
<1>7. CASE CaptureExports BY <1>7 DEF CaptureExports
<1>8. CASE PrepareCheck BY <1>8 DEF PrepareCheck
<1>9. CASE StartCheck BY <1>9 DEF StartCheck
<1>10. CASE FinishCheck BY <1>10 DEF FinishCheck
<1>11. CASE Reduce BY <1>11 DEF Reduce
<1>12. CASE Close BY <1>12 DEF Close
<1>13. CASE FinishProvisional BY <1>13 DEF FinishProvisional
<1>14. CASE Assess BY <1>14 DEF Assess
<1>15. CASE Refuse BY <1>15 DEF Refuse
<1>16. CASE Certify BY <1>16 DEF Certify
<1>17. CASE Reassess BY <1>17 DEF Reassess
<1>18. CASE FailFinalization BY <1>18 DEF FailFinalization
<1>19. CASE Announce BY <1>19 DEF Announce
<1>20. CASE Interrupt BY <1>20 DEF Interrupt
<1>21. CASE Propagate BY <1>21 DEF Propagate
<1>22. CASE Meddle BY <1>22 DEF Meddle
<1>23. CASE Expire BY <1>23 DEF Expire
<1>24. CASE Crash BY <1>24 DEF Crash
<1>25. CASE UNCHANGED vars BY <1>25
<1> QED
  BY <1>1, <1>2, <1>3, <1>4, <1>5, <1>6, <1>7, <1>8, <1>9, <1>10, <1>11, <1>12,
     <1>13, <1>14, <1>15, <1>16, <1>17, <1>18, <1>19, <1>20, <1>21, <1>22,
     <1>23, <1>24, <1>25 DEF Next, Step

\* A check passes only on a subject that was verified at both ends
LEMMA JudgementStep ==
  ASSUME TypeOK, ChecksCounted, PassesWereJudged, [Next]_vars
  PROVE  PassesWereJudged'
<1> USE DEF TypeOK, ChecksCounted, PassesWereJudged, InTry, BeforeChecks,
        InChecks, Unfinished, Certified, vars, run, world, history, Write,
        LeaveWith, Update, Fail, End, Strand, Commit, Finish, Normalize,
        CheckIds, Verdicts
<1>1. CASE Admit BY <1>1 DEF Admit
<1>2. CASE Create BY <1>2 DEF Create
<1>3. CASE Preflight BY <1>3 DEF Preflight
<1>4. CASE CaptureBaseline BY <1>4 DEF CaptureBaseline
<1>5. CASE Produce BY <1>5 DEF Produce
<1>6. CASE CaptureOutput BY <1>6 DEF CaptureOutput
<1>7. CASE CaptureExports BY <1>7 DEF CaptureExports
<1>8. CASE PrepareCheck BY <1>8 DEF PrepareCheck
<1>9. CASE StartCheck BY <1>9 DEF StartCheck
<1>10. CASE FinishCheck BY <1>10 DEF FinishCheck
<1>11. CASE Reduce BY <1>11 DEF Reduce
<1>12. CASE Close BY <1>12 DEF Close
<1>13. CASE FinishProvisional BY <1>13 DEF FinishProvisional
<1>14. CASE Assess BY <1>14 DEF Assess
<1>15. CASE Refuse BY <1>15 DEF Refuse
<1>16. CASE Certify BY <1>16 DEF Certify
<1>17. CASE Reassess BY <1>17 DEF Reassess
<1>18. CASE FailFinalization BY <1>18 DEF FailFinalization
<1>19. CASE Announce BY <1>19 DEF Announce
<1>20. CASE Interrupt BY <1>20 DEF Interrupt
<1>21. CASE Propagate BY <1>21 DEF Propagate
<1>22. CASE Meddle BY <1>22 DEF Meddle
<1>23. CASE Expire BY <1>23 DEF Expire
<1>24. CASE Crash BY <1>24 DEF Crash
<1>25. CASE UNCHANGED vars BY <1>25
<1> QED
  BY <1>1, <1>2, <1>3, <1>4, <1>5, <1>6, <1>7, <1>8, <1>9, <1>10, <1>11, <1>12,
     <1>13, <1>14, <1>15, <1>16, <1>17, <1>18, <1>19, <1>20, <1>21, <1>22,
     <1>23, <1>24, <1>25 DEF Next, Step

\* What validation read cannot change afterwards
LEMMA FinalStep ==
  ASSUME TypeOK, PassesWereJudged, ValidationsCounted, ValidationIsFinal, [Next]_vars
  PROVE  ValidationIsFinal'
<1> USE DEF TypeOK, ValidationsCounted, ValidationIsFinal, PassesWereJudged,
        Evidence, InTry, BeforeChecks, InChecks, Unfinished, Certified, vars,
        run, world, history, Write, LeaveWith, Update, Fail, End, Strand,
        Commit, Finish
<1>1. CASE Admit BY <1>1 DEF Admit
<1>2. CASE Create BY <1>2 DEF Create
<1>3. CASE Preflight BY <1>3 DEF Preflight
<1>4. CASE CaptureBaseline BY <1>4 DEF CaptureBaseline
<1>5. CASE Produce BY <1>5 DEF Produce
<1>6. CASE CaptureOutput BY <1>6 DEF CaptureOutput
<1>7. CASE CaptureExports BY <1>7 DEF CaptureExports
<1>8. CASE PrepareCheck BY <1>8 DEF PrepareCheck
<1>9. CASE StartCheck BY <1>9 DEF StartCheck
<1>10. CASE FinishCheck BY <1>10 DEF FinishCheck
<1>11. CASE Reduce BY <1>11 DEF Reduce
<1>12. CASE Close BY <1>12 DEF Close
<1>13. CASE FinishProvisional BY <1>13 DEF FinishProvisional
<1>14. CASE Assess BY <1>14 DEF Assess, EvidenceHolds
<1>15. CASE Refuse BY <1>15 DEF Refuse
<1>16. CASE Certify BY <1>16 DEF Certify
<1>17. CASE Reassess BY <1>17 DEF Reassess, EvidenceHolds
<1>18. CASE FailFinalization BY <1>18 DEF FailFinalization
<1>19. CASE Announce BY <1>19 DEF Announce
<1>20. CASE Interrupt BY <1>20 DEF Interrupt
<1>21. CASE Propagate BY <1>21 DEF Propagate
<1>22. CASE Meddle BY <1>22 DEF Meddle
<1>23. CASE Expire BY <1>23 DEF Expire
<1>24. CASE Crash BY <1>24 DEF Crash
<1>25. CASE UNCHANGED vars BY <1>25
<1> QED
  BY <1>1, <1>2, <1>3, <1>4, <1>5, <1>6, <1>7, <1>8, <1>9, <1>10, <1>11, <1>12,
     <1>13, <1>14, <1>15, <1>16, <1>17, <1>18, <1>19, <1>20, <1>21, <1>22,
     <1>23, <1>24, <1>25 DEF Next, Step

\* No write shows COMPLETE without a validation
LEMMA RecordsStep ==
  ASSUME TypeOK, ValidationsCounted, RecordsAreHonest, [Next]_vars
  PROVE  RecordsAreHonest'
<1> USE DEF TypeOK, Records, ValidationsCounted, RecordsAreHonest, Shown,
        InTry, BeforeChecks, InChecks, Unfinished, Certified, vars, run, world,
        history, Write, LeaveWith, Update, Fail, End, Strand, Commit, Finish
<1>1. CASE Admit BY <1>1 DEF Admit
<1>2. CASE Create BY <1>2 DEF Create, NoRecord
<1>3. CASE Preflight BY <1>3 DEF Preflight
<1>4. CASE CaptureBaseline BY <1>4 DEF CaptureBaseline
<1>5. CASE Produce BY <1>5 DEF Produce
<1>6. CASE CaptureOutput BY <1>6 DEF CaptureOutput
<1>7. CASE CaptureExports BY <1>7 DEF CaptureExports
<1>8. CASE PrepareCheck BY <1>8 DEF PrepareCheck
<1>9. CASE StartCheck BY <1>9 DEF StartCheck
<1>10. CASE FinishCheck BY <1>10 DEF FinishCheck
<1>11. CASE Reduce BY <1>11 DEF Reduce, Reduced
<1>12. CASE Close BY <1>12 DEF Close
<1>13. CASE FinishProvisional BY <1>13 DEF FinishProvisional
<1>14. CASE Assess BY <1>14 DEF Assess, EvidenceHolds
<1>15. CASE Refuse BY <1>15 DEF Refuse, Failed
<1>16. CASE Certify
  <2>1. assessed' = 1 /\ data.rows = NumChecks /\ pc' \in {"reassess", "failing"}
    BY <1>16 DEF Certify
  <2>2. data' \in {data, [data EXCEPT !.phase = "finished", !.complete = TRUE,
                                     !.outcome = "COMPLETE"]}
    BY <1>16 DEF Certify
  <2>3. disk' \in {disk, data'} BY <1>16 DEF Certify
  <2>4. data'.rows = NumChecks BY <2>1, <2>2
  <2> QED BY <2>1, <2>3, <2>4
<1>17. CASE Reassess BY <1>17 DEF Reassess, EvidenceHolds
<1>18. CASE FailFinalization BY <1>18 DEF FailFinalization, Failed
<1>19. CASE Announce BY <1>19 DEF Announce
<1>20. CASE Interrupt BY <1>20 DEF Interrupt
<1>21. CASE Propagate BY <1>21 DEF Propagate
<1>22. CASE Meddle BY <1>22 DEF Meddle
<1>23. CASE Expire BY <1>23 DEF Expire
<1>24. CASE Crash BY <1>24 DEF Crash
<1>25. CASE UNCHANGED vars BY <1>25
<1> QED
  BY <1>1, <1>2, <1>3, <1>4, <1>5, <1>6, <1>7, <1>8, <1>9, <1>10, <1>11, <1>12,
     <1>13, <1>14, <1>15, <1>16, <1>17, <1>18, <1>19, <1>20, <1>21, <1>22,
     <1>23, <1>24, <1>25 DEF Next, Step

\* The reply is the last thing that happens
LEMMA RepliesStep ==
  ASSUME TypeOK, ValidationsCounted, RecordsAreHonest, RepliesAreHonest, [Next]_vars
  PROVE  RepliesAreHonest'
<1> USE DEF TypeOK, Records, ValidationsCounted, RecordsAreHonest,
        RepliesAreHonest, ReplyIsRecorded, Outcomes, InTry, BeforeChecks,
        InChecks, Unfinished, Certified, vars, run, world, history, Write,
        LeaveWith, Update, Fail, End, Strand, Commit, Finish
<1>1. CASE Admit BY <1>1 DEF Admit
<1>2. CASE Create BY <1>2 DEF Create, NoRecord
<1>3. CASE Preflight BY <1>3 DEF Preflight
<1>4. CASE CaptureBaseline BY <1>4 DEF CaptureBaseline
<1>5. CASE Produce BY <1>5 DEF Produce
<1>6. CASE CaptureOutput BY <1>6 DEF CaptureOutput
<1>7. CASE CaptureExports BY <1>7 DEF CaptureExports
<1>8. CASE PrepareCheck BY <1>8 DEF PrepareCheck
<1>9. CASE StartCheck BY <1>9 DEF StartCheck
<1>10. CASE FinishCheck BY <1>10 DEF FinishCheck
<1>11. CASE Reduce BY <1>11 DEF Reduce
<1>12. CASE Close BY <1>12 DEF Close
<1>13. CASE FinishProvisional BY <1>13 DEF FinishProvisional
<1>14. CASE Assess BY <1>14 DEF Assess
<1>15. CASE Refuse BY <1>15 DEF Refuse, Failed
<1>16. CASE Certify BY <1>16 DEF Certify
<1>17. CASE Reassess BY <1>17 DEF Reassess
<1>18. CASE FailFinalization BY <1>18 DEF FailFinalization, Failed
<1>19. CASE Announce BY <1>19 DEF Announce
<1>20. CASE Interrupt BY <1>20 DEF Interrupt
<1>21. CASE Propagate BY <1>21 DEF Propagate
<1>22. CASE Meddle BY <1>22 DEF Meddle
<1>23. CASE Expire BY <1>23 DEF Expire
<1>24. CASE Crash BY <1>24 DEF Crash
<1>25. CASE UNCHANGED vars BY <1>25
<1> QED
  BY <1>1, <1>2, <1>3, <1>4, <1>5, <1>6, <1>7, <1>8, <1>9, <1>10, <1>11, <1>12,
     <1>13, <1>14, <1>15, <1>16, <1>17, <1>18, <1>19, <1>20, <1>21, <1>22,
     <1>23, <1>24, <1>25 DEF Next, Step

-----------------------------------------------------------------------------
(* The theorems *)

\* The invariant holds before the invocation starts
LEMMA InitIInv == ASSUME Init PROVE IInv
<1>1. NoRecord \in Records BY NoRecordType
<1>2. TypeOK
  <2>1. pc \in Points BY DEF Init, Points
  <2>2. stop \in StopCodes /\ outcome \in Outcomes /\ reply \in Replies
    BY DEF Init, StopCodes, StopReasons, Outcomes, Replies
  <2>3. checks \in [CheckIds -> Verdicts \cup {"none"}] /\ judged \in SUBSET CheckIds
    BY DEF Init
  <2>4. done \in 0 .. NumChecks /\ assessed \in 0 .. 2 BY NumChecksAssumption DEF Init
  <2> QED BY <1>1, <2>1, <2>2, <2>3, <2>4 DEF Init, TypeOK
<1>3. ChecksCounted /\ ValidationsCounted /\ PassesWereJudged /\ ValidationIsFinal
  BY NumChecksAssumption DEF Init, ChecksCounted, ValidationsCounted, PassesWereJudged,
     ValidationIsFinal, BeforeChecks, InChecks, Unfinished
<1>4. RecordsAreHonest /\ RepliesAreHonest
  BY DEF Init, RecordsAreHonest, RepliesAreHonest, ReplyIsRecorded, NoRecord, Shown, Outcomes
<1> QED BY <1>2, <1>3, <1>4 DEF IInv

\* The invariant is inductive: each part is kept by the parts its lemma assumes
LEMMA NextIInv == ASSUME IInv, [Next]_vars PROVE IInv'
BY TypesStep, CountsStep, ValidationsStep, JudgementStep, FinalStep, RecordsStep, RepliesStep
   DEF IInv

\* The invariant holds in every reachable state, for every NumChecks
LEMMA IInvHolds == Spec => []IInv
BY InitIInv, NextIInv, PTL DEF Spec

\* Every variable of the run keeps its type, whatever the number of checks.
THEOREM AttemptTypes == Spec => []TypeOK
<1>1. IInv => TypeOK BY DEF IInv
<1> QED BY <1>1, IInvHolds, PTL

\* COMPLETE is visible only when every declared check is recorded and passed on
\* the captured bytes, and the persisted evidence passed validation before.
THEOREM AttemptSuccessIsEarned == Spec => []SuccessIsEarned
<1>1. IInv => SuccessIsEarned
  BY DEF IInv, SuccessIsEarned, VisibleSuccess, RecordsAreHonest, ValidationIsFinal, Evidence,
     Shown
<1> QED BY <1>1, IInvHolds, PTL

\* An outcome that is returned is the one the record shows as finished.
THEOREM AttemptReplyIsRecorded == Spec => []ReplyIsRecorded
<1>1. IInv => ReplyIsRecorded BY DEF IInv, RepliesAreHonest
<1> QED BY <1>1, IInvHolds, PTL

\* An invocation that raised leaves no success behind, but for an error that says so
\* and an answer that Ctrl+C or a crash took, and then the evidence was valid once.
THEOREM AttemptNoStraySuccess == Spec => []NoStraySuccess
<1>1. IInv => NoStraySuccess
  BY DEF IInv, TypeOK, NoStraySuccess, VisibleSuccess, RecordsAreHonest, RepliesAreHonest,
     Shown, Failures
<1> QED BY <1>1, IInvHolds, PTL

\* Both together: what an attempt answers agrees with its record, whichever way it ends.
THEOREM AttemptRepliesAreRecorded == Spec => []RepliesAreRecorded
<1>1. ReplyIsRecorded /\ NoStraySuccess => RepliesAreRecorded BY DEF RepliesAreRecorded
<1> QED BY <1>1, AttemptReplyIsRecorded, AttemptNoStraySuccess, PTL

-----------------------------------------------------------------------------
(* Verdicts: a second inductive invariant, relative to the first *)

\* The record in memory counts the checks, and those to come are not observed
RowsAreCounted ==
  /\ data.rows = done
  /\ \A i \in CheckIds : i > done => checks[i] = "none"

\* What the run has behind it when it goes on without a stop reason
NothingIsSkipped ==
  /\ pc = "capture" /\ stop = "none" => clean
  /\ pc \in {"exports"} \cup InChecks => stop = "none" /\ clean
  /\ pc \in InChecks => artifact
  /\ pc = "reduce" /\ stop = "none" => done = 0 \/ (done = NumChecks /\ clean /\ artifact)

\* A process in doubt has stopped the attempt
DoubtStops == live => stop # "none" /\ pc \notin InTry \cup {"admit", "create"}

\* A stopped attempt is HALTED, and only a full assessment is REJECTED
Grounded(verdict) ==
  /\ stop # "none" => verdict = "HALTED"
  /\ verdict = "REJECTED" => done = NumChecks /\ clean /\ artifact

VerdictsAreGrounded ==
  /\ pc \in {"close", "finish"} => Grounded(outcome)
  /\ pc \in {"assess", "certify", "reassess"} => stop = "none"
  /\ disk.complete =>
       /\ pc \notin InTry \cup {"admit", "create", "reduce", "close"}
       /\ Grounded(disk.outcome)
       /\ disk.outcome = "REJECTED" => disk.rows = done

VInv == RowsAreCounted /\ NothingIsSkipped /\ DoubtStops /\ VerdictsAreGrounded

-----------------------------------------------------------------------------
(* What the helpers of the actions say *)

\* A producer without a failure passed
LEMMA CleanProducer ==
  ASSUME NEW o \in Supervised, ProducerFailure(o) = "none"
  PROVE  Normalize(o, TRUE) = "pass" /\ o.cleanup
<1>1. o \in Observations BY DEF Supervised
<1>2. o.stop = "none" BY <1>1 DEF ProducerFailure, Observations
<1>3. o.cleanup BY <1>1, <1>2 DEF ProducerFailure, Observations
<1>4. ~o.error /\ o.exit = "zero" BY <1>1, <1>2, <1>3 DEF ProducerFailure, Observations
<1> QED BY <1>2, <1>3, <1>4 DEF Normalize

\* Nothing stops an attempt after its producer only if it passed, completed and
\* is gone
LEMMA CleanStop ==
  ASSUME NEW o \in Supervised, NEW reported \in BOOLEAN, NEW broken \in BOOLEAN,
         NEW completed \in BOOLEAN, NativeStop(o, reported, broken, completed) = "none"
  PROVE  Normalize(o, TRUE) = "pass" /\ o.cleanup /\ ~reported /\ completed
<1>1. ProducerFailure(o) = "none" BY DEF NativeStop
<1>2. ~reported BY <1>1 DEF NativeStop
<1>3. completed BY <1>1, <1>2 DEF NativeStop
<1> QED BY <1>1, <1>2, <1>3, CleanProducer

\* A check in doubt, or one that ends after the deadline, stops the attempt
LEMMA DoubtfulCheck ==
  ASSUME NEW o \in Supervised \cup {NotRun}, ~o.cleanup \/ expired
  PROVE  CheckStop(o) # "none"
<1>1. o.stop \in StopReasons /\ o.cleanup \in BOOLEAN BY ObservationTypes
<1>2. CASE o.stop \notin {"none", "timeout"} BY <1>2 DEF CheckStop
<1>3. CASE o.stop \in {"none", "timeout"} /\ ~o.cleanup BY <1>3 DEF CheckStop
<1>4. CASE o.stop \in {"none", "timeout"} /\ o.cleanup BY <1>4 DEF CheckStop
<1> QED BY <1>1, <1>2, <1>3, <1>4

-----------------------------------------------------------------------------
(* The steps *)

\* Every observation is counted when it is made
LEMMA RowsStep ==
  ASSUME TypeOK, ChecksCounted, RowsAreCounted, [Next]_vars
  PROVE  RowsAreCounted'
<1> USE DEF TypeOK, InTry, BeforeChecks, InChecks, Unfinished, vars, run, world, history,
        Write, LeaveWith, Update, Fail, End, Strand, Commit, Finish, Records,
        ChecksCounted, RowsAreCounted, CheckIds, Failed
<1>1. CASE Admit BY <1>1 DEF Admit
<1>2. CASE Create BY <1>2 DEF Create, NoRecord
<1>3. CASE Preflight BY <1>3 DEF Preflight
<1>4. CASE CaptureBaseline BY <1>4 DEF CaptureBaseline
<1>5. CASE Produce BY <1>5 DEF Produce
<1>6. CASE CaptureOutput BY <1>6 DEF CaptureOutput
<1>7. CASE CaptureExports BY <1>7 DEF CaptureExports
<1>8. CASE PrepareCheck BY <1>8 DEF PrepareCheck
<1>9. CASE StartCheck BY <1>9 DEF StartCheck
<1>10. CASE FinishCheck
  <2>1. CASE UNCHANGED <<done, checks, data>> BY <2>1
  <2>2. CASE /\ done' = done + 1 /\ data' = [data EXCEPT !.phase = "checks", !.rows = done + 1]
             /\ \E o : checks' = [checks EXCEPT ![done + 1] = Normalize(o, intact /\ retained /\ subject)]
    BY <2>2, NumChecksAssumption
  <2> QED BY <1>10, <2>1, <2>2 DEF FinishCheck
<1>11. CASE Reduce BY <1>11 DEF Reduce
<1>12. CASE Close BY <1>12 DEF Close
<1>13. CASE FinishProvisional BY <1>13 DEF FinishProvisional
<1>14. CASE Assess BY <1>14 DEF Assess
<1>15. CASE Refuse BY <1>15 DEF Refuse
<1>16. CASE Certify BY <1>16 DEF Certify
<1>17. CASE Reassess BY <1>17 DEF Reassess
<1>18. CASE FailFinalization BY <1>18 DEF FailFinalization
<1>19. CASE Announce BY <1>19 DEF Announce
<1>20. CASE Interrupt BY <1>20 DEF Interrupt
<1>21. CASE Propagate BY <1>21 DEF Propagate
<1>22. CASE Meddle BY <1>22 DEF Meddle
<1>23. CASE Expire BY <1>23 DEF Expire
<1>24. CASE Crash BY <1>24 DEF Crash
<1>25. CASE UNCHANGED vars BY <1>25
<1> QED
  BY <1>1, <1>2, <1>3, <1>4, <1>5, <1>6, <1>7, <1>8, <1>9, <1>10, <1>11, <1>12,
     <1>13, <1>14, <1>15, <1>16, <1>17, <1>18, <1>19, <1>20, <1>21, <1>22,
     <1>23, <1>24, <1>25 DEF Next, Step

\* A step that goes on found nothing to stop for
LEMMA SkippedStep ==
  ASSUME TypeOK, ChecksCounted, NothingIsSkipped, [Next]_vars
  PROVE  NothingIsSkipped'
<1> USE DEF TypeOK, InTry, BeforeChecks, InChecks, Unfinished, vars, run, world, history,
        Write, LeaveWith, Update, Fail, End, Strand, Commit, Finish,
        ChecksCounted, NothingIsSkipped, StopCodes
<1>1. CASE Admit BY <1>1 DEF Admit
<1>2. CASE Create BY <1>2 DEF Create
<1>3. CASE Preflight BY <1>3 DEF Preflight
<1>4. CASE CaptureBaseline BY <1>4 DEF CaptureBaseline
<1>5. CASE Produce
  <2>1. pc' \in {"capture", "reduce"} /\ done' = done /\ done = 0 BY <1>5 DEF Produce
  <2>2. ASSUME pc' = "capture", stop' = "none" PROVE clean'
    BY <1>5, <2>2, CleanStop DEF Produce
  <2> QED BY <2>1, <2>2
<1>6. CASE CaptureOutput BY <1>6 DEF CaptureOutput
<1>7. CASE CaptureExports BY <1>7 DEF CaptureExports
<1>8. CASE PrepareCheck BY <1>8 DEF PrepareCheck
<1>9. CASE StartCheck BY <1>9 DEF StartCheck
<1>10. CASE FinishCheck
  <2>1. pc' \in {"prepare", "reduce"} /\ clean' = clean /\ artifact' = artifact
    BY <1>10 DEF FinishCheck
  <2>2. clean /\ artifact BY <1>10 DEF FinishCheck
  <2>3. ASSUME pc' = "prepare" PROVE stop' = "none"
    BY <1>10, <2>3 DEF FinishCheck
  <2>4. ASSUME pc' = "reduce", stop' = "none" PROVE done' = NumChecks
    BY <1>10, <2>4, NumChecksAssumption DEF FinishCheck
  <2> QED BY <2>1, <2>2, <2>3, <2>4
<1>11. CASE Reduce BY <1>11 DEF Reduce
<1>12. CASE Close BY <1>12 DEF Close
<1>13. CASE FinishProvisional BY <1>13 DEF FinishProvisional
<1>14. CASE Assess BY <1>14 DEF Assess
<1>15. CASE Refuse BY <1>15 DEF Refuse
<1>16. CASE Certify BY <1>16 DEF Certify
<1>17. CASE Reassess BY <1>17 DEF Reassess
<1>18. CASE FailFinalization BY <1>18 DEF FailFinalization
<1>19. CASE Announce BY <1>19 DEF Announce
<1>20. CASE Interrupt BY <1>20 DEF Interrupt
<1>21. CASE Propagate BY <1>21 DEF Propagate
<1>22. CASE Meddle BY <1>22 DEF Meddle
<1>23. CASE Expire BY <1>23 DEF Expire
<1>24. CASE Crash BY <1>24 DEF Crash
<1>25. CASE UNCHANGED vars BY <1>25
<1> QED
  BY <1>1, <1>2, <1>3, <1>4, <1>5, <1>6, <1>7, <1>8, <1>9, <1>10, <1>11, <1>12,
     <1>13, <1>14, <1>15, <1>16, <1>17, <1>18, <1>19, <1>20, <1>21, <1>22,
     <1>23, <1>24, <1>25 DEF Next, Step

\* Whatever leaves a process in doubt stops the attempt
LEMMA DoubtStep ==
  ASSUME TypeOK, DoubtStops, [Next]_vars
  PROVE  DoubtStops'
<1> USE DEF TypeOK, InTry, BeforeChecks, InChecks, Unfinished, vars, run, world, history,
        Write, LeaveWith, Update, Fail, End, Strand, Commit, Finish,
        DoubtStops
<1>1. CASE Admit BY <1>1 DEF Admit
<1>2. CASE Create BY <1>2 DEF Create
<1>3. CASE Preflight BY <1>3 DEF Preflight
<1>4. CASE CaptureBaseline BY <1>4 DEF CaptureBaseline
<1>5. CASE Produce
  <2>1. ~live /\ pc' \in {"capture", "reduce"} BY <1>5 DEF Produce
  <2>2. ASSUME live' PROVE stop' # "none" /\ pc' = "reduce"
    BY <1>5, <2>1, <2>2, CleanStop, ZenonT(40) DEF Produce
  <2> QED BY <2>1, <2>2
<1>6. CASE CaptureOutput BY <1>6 DEF CaptureOutput
<1>7. CASE CaptureExports BY <1>7 DEF CaptureExports
<1>8. CASE PrepareCheck BY <1>8 DEF PrepareCheck
<1>9. CASE StartCheck BY <1>9 DEF StartCheck
<1>10. CASE FinishCheck
  <2>1. ~live BY <1>10 DEF FinishCheck
  <2>2. ASSUME live' PROVE stop' # "none" /\ pc' = "reduce"
    BY <1>10, <2>1, <2>2, DoubtfulCheck DEF FinishCheck
  <2> QED BY <2>1, <2>2
<1>11. CASE Reduce BY <1>11 DEF Reduce
<1>12. CASE Close BY <1>12 DEF Close
<1>13. CASE FinishProvisional BY <1>13 DEF FinishProvisional
<1>14. CASE Assess BY <1>14 DEF Assess
<1>15. CASE Refuse BY <1>15 DEF Refuse
<1>16. CASE Certify BY <1>16 DEF Certify
<1>17. CASE Reassess BY <1>17 DEF Reassess
<1>18. CASE FailFinalization BY <1>18 DEF FailFinalization
<1>19. CASE Announce BY <1>19 DEF Announce
<1>20. CASE Interrupt BY <1>20 DEF Interrupt
<1>21. CASE Propagate BY <1>21 DEF Propagate
<1>22. CASE Meddle BY <1>22 DEF Meddle
<1>23. CASE Expire BY <1>23 DEF Expire
<1>24. CASE Crash BY <1>24 DEF Crash
<1>25. CASE UNCHANGED vars BY <1>25
<1> QED
  BY <1>1, <1>2, <1>3, <1>4, <1>5, <1>6, <1>7, <1>8, <1>9, <1>10, <1>11, <1>12,
     <1>13, <1>14, <1>15, <1>16, <1>17, <1>18, <1>19, <1>20, <1>21, <1>22,
     <1>23, <1>24, <1>25 DEF Next, Step

\* The outcome is reduced from the stop reason and the checks, and written as it is
LEMMA GroundedStep ==
  ASSUME TypeOK, ChecksCounted, RecordsAreHonest, RowsAreCounted, NothingIsSkipped,
         VerdictsAreGrounded, [Next]_vars
  PROVE  VerdictsAreGrounded'
<1> USE DEF TypeOK, InTry, BeforeChecks, InChecks, Unfinished, vars, run, world, history,
        Write, LeaveWith, Update, Fail, End, Strand, Commit, Finish, Records,
        ChecksCounted, RecordsAreHonest, Grounded, VerdictsAreGrounded
<1>1. CASE Admit BY <1>1 DEF Admit
<1>2. CASE Create BY <1>2 DEF Create, NoRecord
<1>3. CASE Preflight BY <1>3 DEF Preflight
<1>4. CASE CaptureBaseline BY <1>4 DEF CaptureBaseline
<1>5. CASE Produce BY <1>5 DEF Produce
<1>6. CASE CaptureOutput BY <1>6 DEF CaptureOutput
<1>7. CASE CaptureExports BY <1>7 DEF CaptureExports
<1>8. CASE PrepareCheck BY <1>8 DEF PrepareCheck
<1>9. CASE StartCheck BY <1>9 DEF StartCheck
<1>10. CASE FinishCheck BY <1>10 DEF FinishCheck
<1>11. CASE Reduce
  <2>1. ~disk.complete /\ disk' = disk /\ pc' = "close" BY <1>11 DEF Reduce
  <2>2. stop # "none" => outcome' = "HALTED" BY <1>11 DEF Reduce, Reduced
  <2>3. ASSUME outcome' = "REJECTED" PROVE done = NumChecks /\ clean /\ artifact
    <3>1. stop = "none" /\ \E i \in CheckIds : checks[i] = "reject" BY <1>11, <2>3 DEF Reduce, Reduced
    <3>2. done # 0 BY <3>1 DEF RowsAreCounted, CheckIds
    <3> QED BY <1>11, <3>1, <3>2 DEF Reduce, NothingIsSkipped
  <2>4. UNCHANGED <<stop, done, clean, artifact>> BY <1>11 DEF Reduce
  <2> QED BY <2>1, <2>2, <2>3, <2>4
<1>12. CASE Close BY <1>12 DEF Close
<1>13. CASE FinishProvisional
  <2>1. ~disk.complete /\ Grounded(outcome) /\ data.rows = done BY <1>13 DEF FinishProvisional, RowsAreCounted
  <2>2. pc' \in {"failing", "assess", "announce"} BY <1>13 DEF FinishProvisional
  <2>3. UNCHANGED <<stop, done, clean, artifact, outcome>> BY <1>13 DEF FinishProvisional
  <2>4. disk' = disk \/ (disk'.outcome = outcome /\ disk'.rows = done)
    BY <1>13, <2>1 DEF FinishProvisional
  <2>5. pc' = "assess" => stop = "none" BY <1>13 DEF FinishProvisional, Limited
  <2> QED BY <2>1, <2>2, <2>3, <2>4, <2>5
<1>14. CASE Assess BY <1>14 DEF Assess
<1>15. CASE Refuse BY <1>15 DEF Refuse, Failed
<1>16. CASE Certify
  <2>1. stop = "none" /\ pc' \in {"reassess", "failing"} BY <1>16 DEF Certify
  <2>2. UNCHANGED <<stop, done, clean, artifact>> BY <1>16 DEF Certify
  <2>3. disk' = disk \/ disk'.outcome = "COMPLETE" BY <1>16 DEF Certify
  <2> QED BY <1>16, <2>1, <2>2, <2>3 DEF Certify
<1>17. CASE Reassess BY <1>17 DEF Reassess
<1>18. CASE FailFinalization BY <1>18 DEF FailFinalization, Failed
<1>19. CASE Announce BY <1>19 DEF Announce
<1>20. CASE Interrupt BY <1>20 DEF Interrupt
<1>21. CASE Propagate BY <1>21 DEF Propagate
<1>22. CASE Meddle BY <1>22 DEF Meddle
<1>23. CASE Expire BY <1>23 DEF Expire
<1>24. CASE Crash BY <1>24 DEF Crash
<1>25. CASE UNCHANGED vars BY <1>25
<1> QED
  BY <1>1, <1>2, <1>3, <1>4, <1>5, <1>6, <1>7, <1>8, <1>9, <1>10, <1>11, <1>12,
     <1>13, <1>14, <1>15, <1>16, <1>17, <1>18, <1>19, <1>20, <1>21, <1>22,
     <1>23, <1>24, <1>25 DEF Next, Step

-----------------------------------------------------------------------------
(* The theorems *)

\* The invariant holds before the invocation starts
LEMMA InitVInv == ASSUME Init PROVE VInv
BY DEF Init, VInv, RowsAreCounted, NothingIsSkipped, DoubtStops, VerdictsAreGrounded, NoRecord,
   InChecks, InTry, CheckIds

\* The invariant is inductive beside the one of the success
LEMMA NextVInv == ASSUME IInv, VInv, [Next]_vars PROVE VInv'
BY RowsStep, SkippedStep, DoubtStep, GroundedStep DEF VInv, IInv

\* The invariant holds in every reachable state, for every NumChecks
LEMMA VInvHolds == Spec => []VInv
BY InitVInv, NextVInv, IInvHolds, PTL DEF Spec

\* No process that may be alive stands behind a verdict, and a recorded rejection is
\* the result of all declared checks of a complete delivery.
THEOREM AttemptVerdictsAreAssessed == Spec => []VerdictsAreAssessed
<1>1. IInv /\ VInv => NoVerdictWhileAlive
  BY DEF IInv, VInv, NoVerdictWhileAlive, DoubtStops, VerdictsAreGrounded, Grounded, InTry
<1>2. IInv /\ VInv => RejectionIsAssessed
  BY DEF IInv, VInv, RejectionIsAssessed, VerdictsAreGrounded, Grounded
<1> QED BY <1>1, <1>2, IInvHolds, VInvHolds, PTL DEF VerdictsAreAssessed

\* No step starts a check after the deadline, and none that records the last check
\* after the deadline lets the attempt pass.
THEOREM AttemptDeadlineHolds == Spec => DeadlineHolds
<1> DEFINE Timely == /\ (pc = "start" /\ pc' = "judge" /\ intact') => ~expired
                     /\ (pc = "judge" /\ expired /\ done' > done) => stop' # "none"
<1>1. ASSUME IInv, [Next]_vars PROVE [Timely]_vars
  <2> USE <1>1 DEF InTry, vars, run, world, history, Write, LeaveWith, Update, Fail, End,
          Strand, Commit, Finish, IInv, TypeOK
  <2>1. CASE StartCheck BY <2>1 DEF StartCheck
  <2>2. CASE FinishCheck
    <3>1. ASSUME expired, done' > done PROVE stop' # "none"
      BY <2>2, <3>1, DoubtfulCheck DEF FinishCheck
    <3> QED BY <2>2, <3>1 DEF FinishCheck
  <2>3. CASE Interrupt BY <2>3 DEF Interrupt
  <2>4. CASE Meddle \/ Expire \/ Crash \/ Propagate
    BY <2>4 DEF Meddle, Expire, Crash, Propagate
  <2>5. CASE Admit \/ Create \/ Preflight \/ CaptureBaseline \/ Produce \/ CaptureOutput
             \/ CaptureExports \/ PrepareCheck
    BY <2>5 DEF Admit, Create, Preflight, CaptureBaseline, Produce, CaptureOutput, CaptureExports,
       PrepareCheck
  <2>6. CASE Reduce \/ Close \/ FinishProvisional \/ Assess \/ Refuse \/ Certify \/ Reassess
             \/ FailFinalization \/ Announce
    BY <2>6 DEF Reduce, Close, FinishProvisional, Assess, Refuse, Certify, Reassess,
       FailFinalization, Announce
  <2>7. CASE UNCHANGED vars BY <2>7
  <2> QED BY <2>1, <2>2, <2>3, <2>4, <2>5, <2>6, <2>7 DEF Next, Step
<1> QED BY <1>1, IInvHolds, PTL DEF Spec, DeadlineHolds

-----------------------------------------------------------------------------
(* What a reader sees at each program point *)

\* Nothing before the record is created, something after it, and success exactly
\* between certification and the answer
SightIsOrdered ==
  /\ pc \in {"admit", "create"} => disk = NoRecord
  /\ pc \notin {"admit", "create", "done"} => disk.phase # "absent" /\ data.phase # "absent"
  /\ pc = "certify" => ~Shown(disk)
  /\ pc = "reassess" => Shown(disk)
  /\ pc = "announce" /\ assessed = 2 => Shown(disk)

\* Each write follows the order
LEMMA OrderStep ==
  ASSUME TypeOK, ValidationsCounted, RecordsAreHonest, SightIsOrdered, [Next]_vars
  PROVE  SightIsOrdered'
<1> USE DEF TypeOK, Records, InTry, BeforeChecks, InChecks, Unfinished, vars, run, world, history,
        Write, LeaveWith, Update, Fail, End, Strand, Commit, Finish, SightIsOrdered,
        RecordsAreHonest, ValidationsCounted, Shown
<1>1. CASE Admit BY <1>1 DEF Admit
<1>2. CASE Create BY <1>2 DEF Create, NoRecord
<1>3. CASE Preflight BY <1>3 DEF Preflight
<1>4. CASE CaptureBaseline BY <1>4 DEF CaptureBaseline
<1>5. CASE Produce BY <1>5 DEF Produce
<1>6. CASE CaptureOutput BY <1>6 DEF CaptureOutput
<1>7. CASE CaptureExports BY <1>7 DEF CaptureExports
<1>8. CASE PrepareCheck BY <1>8 DEF PrepareCheck
<1>9. CASE StartCheck BY <1>9 DEF StartCheck
<1>10. CASE FinishCheck
  <2>1. pc' \in InTry \cup {"reduce"} BY <1>10 DEF FinishCheck
  <2>2. data' = data \/ data'.phase = "checks" BY <1>10 DEF FinishCheck
  <2>3. disk' \in {disk, data'} BY <1>10 DEF FinishCheck
  <2> QED BY <1>10, <2>1, <2>2, <2>3 DEF FinishCheck
<1>11. CASE Reduce BY <1>11 DEF Reduce
<1>12. CASE Close BY <1>12 DEF Close
<1>13. CASE FinishProvisional
  <2>1. pc' \in {"failing", "assess", "announce"} /\ assessed' = 0 BY <1>13 DEF FinishProvisional
  <2>2. data' = data \/ data'.phase = "finished" BY <1>13 DEF FinishProvisional
  <2>3. disk' \in {disk, data'} BY <1>13 DEF FinishProvisional
  <2> QED BY <1>13, <2>1, <2>2, <2>3 DEF FinishProvisional
<1>14. CASE Assess BY <1>14 DEF Assess, EvidenceHolds
<1>15. CASE Refuse BY <1>15 DEF Refuse, Failed
<1>16. CASE Certify BY <1>16 DEF Certify
<1>17. CASE Reassess BY <1>17 DEF Reassess, EvidenceHolds
<1>18. CASE FailFinalization BY <1>18 DEF FailFinalization, Failed
<1>19. CASE Announce BY <1>19 DEF Announce
<1>20. CASE Interrupt BY <1>20 DEF Interrupt
<1>21. CASE Propagate BY <1>21 DEF Propagate
<1>22. CASE Meddle BY <1>22 DEF Meddle
<1>23. CASE Expire BY <1>23 DEF Expire
<1>24. CASE Crash BY <1>24 DEF Crash
<1>25. CASE UNCHANGED vars BY <1>25
<1> QED
  BY <1>1, <1>2, <1>3, <1>4, <1>5, <1>6, <1>7, <1>8, <1>9, <1>10, <1>11, <1>12,
     <1>13, <1>14, <1>15, <1>16, <1>17, <1>18, <1>19, <1>20, <1>21, <1>22,
     <1>23, <1>24, <1>25 DEF Next, Step

\* The order holds in every reachable state
LEMMA OrderHolds == Spec => []SightIsOrdered
<1>1. Init => SightIsOrdered BY DEF Init, SightIsOrdered
<1>2. IInv /\ SightIsOrdered /\ [Next]_vars => SightIsOrdered'
  BY OrderStep DEF IInv
<1> QED BY <1>1, <1>2, IInvHolds, PTL DEF Spec

-----------------------------------------------------------------------------
(* The steps, as the promise sees them *)

\* Until the reduction is closed, a step writes an open record and gives no answer
LEMMA OpenStep ==
  ASSUME TypeOK, RecordsAreHonest,
         \/ Preflight \/ CaptureBaseline \/ Produce \/ CaptureOutput \/ CaptureExports
         \/ PrepareCheck \/ StartCheck \/ FinishCheck \/ Reduce \/ Close
  PROVE  /\ ~disk'.complete /\ assessed' = assessed /\ reply' = reply
         /\ pc' \notin {"admit", "create", "done"}
<1> USE DEF TypeOK, Records, InTry, BeforeChecks, InChecks, Unfinished, run, world, history,
        Write, LeaveWith, Update, Fail, Strand, Commit, RecordsAreHonest
<1>1. CASE Preflight BY <1>1 DEF Preflight
<1>2. CASE CaptureBaseline BY <1>2 DEF CaptureBaseline
<1>3. CASE Produce BY <1>3 DEF Produce
<1>4. CASE CaptureOutput BY <1>4 DEF CaptureOutput
<1>5. CASE CaptureExports BY <1>5 DEF CaptureExports
<1>6. CASE PrepareCheck BY <1>6 DEF PrepareCheck
<1>7. CASE StartCheck BY <1>7 DEF StartCheck
<1>8. CASE FinishCheck
  <2>1. data' = data \/ data' = [data EXCEPT !.phase = "checks", !.rows = done + 1]
    BY <1>8 DEF FinishCheck
  <2>2. ~data.complete /\ ~disk.complete /\ disk' \in {disk, data'} BY <1>8 DEF FinishCheck
  <2> QED BY <1>8, <2>1, <2>2 DEF FinishCheck
<1>9. CASE Reduce BY <1>9 DEF Reduce
<1>10. CASE Close BY <1>10 DEF Close
<1> QED BY <1>1, <1>2, <1>3, <1>4, <1>5, <1>6, <1>7, <1>8, <1>9, <1>10

\* Every step of an attempt is a step of the promise, or changes nothing of it
LEMMA PromisedStep ==
  ASSUME IInv, IInv', SightIsOrdered, SightIsOrdered', [Next]_vars
  PROVE  [Record!PromiseNext]_(Record!promiseVars)
<1> USE DEF Record!promiseVars
<1>1. CASE UNCHANGED <<disk, assessed, reply>>
  BY <1>1 DEF Sight, CallerAnswer, VisibleSuccess
<1>2. CASE pc = "done"
  <2>1. ~(\/ Admit \/ Create \/ Preflight \/ CaptureBaseline \/ Produce \/ CaptureOutput
          \/ CaptureExports \/ PrepareCheck \/ StartCheck \/ FinishCheck)
    BY <1>2 DEF Admit, Create, Preflight, CaptureBaseline, Produce, CaptureOutput,
       CaptureExports, PrepareCheck, StartCheck, FinishCheck
  <2>2. ~(\/ Reduce \/ Close \/ FinishProvisional \/ Assess \/ Refuse \/ Certify \/ Reassess
          \/ FailFinalization \/ Announce)
    BY <1>2 DEF Reduce, Close, FinishProvisional, Assess, Refuse, Certify, Reassess,
       FailFinalization, Announce
  <2>3. ~(Interrupt \/ Propagate \/ Meddle \/ Expire \/ Crash)
    BY <1>2 DEF Interrupt, Propagate, Meddle, Expire, Crash, Running, InTry
  <2>4. UNCHANGED vars BY <2>1, <2>2, <2>3 DEF Next, Step
  <2> QED BY <2>4, <1>1 DEF vars, history
<1> SUFFICES ASSUME pc # "done", ~UNCHANGED <<disk, assessed, reply>>
             PROVE  Record!PromiseNext
  BY <1>1, <1>2
<1>3. reply = "none" /\ CallerAnswer = "none"
  BY DEF IInv, RepliesAreHonest, CallerAnswer
<1>4. ASSUME Record!Observe \/ Record!Settle \/ Record!Validate \/ Record!Succeed
             \/ Record!Answer \/ Record!Raise \/ Record!Lose
      PROVE  Record!PromiseNext
  BY <1>3, <1>4 DEF Record!PromiseNext
\* what is seen of a record
<1>5. /\ disk.phase = "absent" => Sight = "absent"
      /\ disk.phase # "absent" /\ ~disk.complete => Sight = "open"
      /\ disk.phase # "absent" /\ disk.complete /\ ~Shown(disk) => Sight = "settled"
      /\ disk.phase # "absent" /\ Shown(disk) => Sight = "success"
  BY DEF Sight, VisibleSuccess, Shown
<1>6. /\ disk'.phase = "absent" => Sight' = "absent"
      /\ disk'.phase # "absent" /\ ~disk'.complete => Sight' = "open"
      /\ disk'.phase # "absent" /\ disk'.complete /\ ~Shown(disk') => Sight' = "settled"
      /\ disk'.phase # "absent" /\ Shown(disk') => Sight' = "success"
  BY DEF Sight, VisibleSuccess, Shown
<1>7. disk' = disk => Sight' = Sight
  BY DEF Sight, VisibleSuccess
<1>8. reply' = reply => CallerAnswer' = CallerAnswer
  BY DEF CallerAnswer
<1>9. CASE \/ Preflight \/ CaptureBaseline \/ Produce \/ CaptureOutput \/ CaptureExports
           \/ PrepareCheck \/ StartCheck \/ FinishCheck \/ Reduce \/ Close
  <2>1. /\ ~disk'.complete /\ assessed' = assessed /\ reply' = reply
        /\ pc' \notin {"admit", "create", "done"}
    BY <1>9, OpenStep DEF IInv
  <2>2. Sight' = "open" BY <2>1, <1>6 DEF SightIsOrdered
  <2> QED BY <2>1, <2>2, <1>4, <1>8 DEF Record!Observe
<1>10. CASE Admit
  <2>1. disk' = disk /\ assessed' = assessed /\ reply' = "refused" /\ disk.phase = "absent"
    BY <1>10 DEF Admit, End, run, world, history, SightIsOrdered, NoRecord
  <2> QED BY <2>1, <1>4, <1>5, <1>7 DEF Record!Raise, CallerAnswer
<1>11. CASE Create
  <2>1. disk.phase = "absent" /\ assessed' = assessed
    BY <1>11 DEF Create, history, SightIsOrdered, NoRecord
  <2>2. disk' = disk \/ (disk'.phase = "admitted" /\ ~disk'.complete)
    BY <1>11 DEF Create, Write, NoRecord
  <2>3. \/ reply' = reply /\ disk'.phase = "admitted" /\ ~disk'.complete
        \/ reply' = "not_allocated"
    BY <1>11 DEF Create, Write, End, NoRecord
  <2>4. CASE reply' = reply /\ disk'.phase = "admitted" /\ ~disk'.complete
    BY <2>1, <2>4, <1>4, <1>6, <1>8 DEF Record!Observe
  <2>5. CASE reply' = "not_allocated"
    <3>1. CallerAnswer' = "exception" BY <2>5 DEF CallerAnswer
    <3> QED BY <2>1, <2>2, <3>1, <1>4, <1>5, <1>6, <1>7 DEF Record!Raise
  <2> QED BY <2>3, <2>4, <2>5
<1>12. CASE FinishProvisional
  <2>1. /\ assessed = 0 /\ assessed' = 0 /\ reply' = reply /\ disk.phase # "absent"
        /\ ~disk.complete /\ outcome # "COMPLETE"
    BY <1>12 DEF FinishProvisional, history, IInv, ValidationsCounted, RecordsAreHonest, Unfinished,
       SightIsOrdered
  <2>2. disk' = disk \/ (disk'.phase = "finished" /\ disk'.complete /\ disk'.outcome = outcome)
    BY <1>12 DEF FinishProvisional, Finish, Commit, Write, IInv, TypeOK, Records
  <2>3. Sight = "open" /\ Sight' \in {"open", "settled"}
    BY <2>1, <2>2, <1>5, <1>6, <1>7 DEF Shown
  <2> QED BY <2>1, <2>3, <1>4, <1>8 DEF Record!Observe, Record!Settle
<1>13. CASE Assess
  <2>1. EvidenceHolds /\ assessed = 0 /\ assessed' = 1 /\ reply' = reply /\ disk' = disk
    BY <1>13 DEF Assess, run, world, IInv, ValidationsCounted
  <2>2. Sight = "settled"
    BY <1>13, <2>1, <1>5 DEF Assess, EvidenceHolds, IInv, RecordsAreHonest, SightIsOrdered, Shown
  <2> QED BY <2>1, <2>2, <1>4, <1>7, <1>8 DEF Record!Validate
<1>14. CASE Refuse
  <2>1. assessed' = assessed /\ disk.phase # "absent"
    BY <1>14 DEF Refuse, history, SightIsOrdered
  <2>2. disk' = disk \/ (disk'.phase = "finalization_failed" /\ ~disk'.complete)
    BY <1>14 DEF Refuse, Write, Failed, IInv, TypeOK, Records
  <2>3. \/ reply' \in {"invalid", "interrupted"} /\ disk' = Failed
        \/ reply' = reply /\ disk' # disk
    BY <1>14, <2>1 DEF Refuse, Write, End
  <2>4. CASE reply' \in {"invalid", "interrupted"} /\ disk' = Failed
    <3>1. CallerAnswer' \in {"exception", "lost"} BY <2>4 DEF CallerAnswer
    <3>2. Sight' = "open" BY <2>4, <1>6 DEF Failed, IInv, TypeOK, Records
    <3> QED BY <2>1, <3>1, <3>2, <1>4 DEF Record!Raise, Record!Lose
  <2>5. CASE reply' = reply /\ disk' # disk
    BY <2>1, <2>2, <2>5, <1>4, <1>6, <1>8 DEF Record!Observe
  <2> QED BY <2>3, <2>4, <2>5
<1>15. CASE Certify
  <2>1. assessed = 1 /\ assessed' = 1 /\ reply' = reply /\ disk.phase # "absent" /\ ~Shown(disk)
    BY <1>15 DEF Certify, history, IInv, ValidationsCounted, SightIsOrdered
  <2>2. disk' = disk \/ (disk'.phase = "finished" /\ Shown(disk'))
    BY <1>15 DEF Certify, Finish, Commit, Write, IInv, TypeOK, Records, Shown
  <2>3. Sight \in {"open", "settled"} BY <2>1, <1>5
  <2>4. Sight' = "success" BY <2>1, <2>2, <1>6
  <2> QED BY <2>1, <2>3, <2>4, <1>4, <1>8 DEF Record!Succeed
<1>16. CASE Reassess
  <2>1. assessed = 1 /\ assessed' = 2 /\ reply' = reply /\ disk' = disk
    BY <1>16 DEF Reassess, run, world, IInv, ValidationsCounted
  <2>2. Sight = "success" BY <1>16, <1>5 DEF Reassess, SightIsOrdered
  <2> QED BY <2>1, <2>2, <1>4, <1>7, <1>8 DEF Record!Validate
<1>17. CASE FailFinalization
  <2>1. assessed' = assessed BY <1>17 DEF FailFinalization, history
  <2>2. \/ reply' = "unfinalized" /\ disk' = Failed
        \/ reply' \in {"unpersisted", "interrupted"} /\ disk' \in {disk, Failed}
    BY <1>17 DEF FailFinalization, Write, End
  <2>3. disk' = Failed => Sight' = "open" BY <1>6 DEF Failed, IInv, TypeOK, Records
  <2>4. CASE reply' = "unfinalized" /\ disk' = Failed
    <3>1. CallerAnswer' = "exception" BY <2>4 DEF CallerAnswer
    <3> QED BY <2>1, <2>3, <2>4, <3>1, <1>4 DEF Record!Raise
  <2>5. CASE reply' \in {"unpersisted", "interrupted"} /\ disk' \in {disk, Failed}
    <3>1. CallerAnswer' = "lost" BY <2>5 DEF CallerAnswer
    <3> QED BY <2>1, <2>3, <2>5, <3>1, <1>4, <1>7 DEF Record!Lose
  <2> QED BY <2>2, <2>4, <2>5
<1>18. CASE Announce
  <2>1. /\ assessed \in {0, 2} /\ assessed' = assessed /\ disk' = disk /\ reply' = outcome
        /\ disk.phase # "absent" /\ disk.complete /\ disk.outcome = outcome
    BY <1>18 DEF Announce, End, run, world, history, IInv, ValidationsCounted, RecordsAreHonest,
       SightIsOrdered
  <2>2. CASE outcome = "COMPLETE"
    <3>1. assessed = 2 /\ Sight = "success"
      BY <2>1, <2>2, <1>5 DEF IInv, RecordsAreHonest, Shown
    <3>2. CallerAnswer' = "success" BY <2>1, <2>2 DEF CallerAnswer
    <3> QED BY <2>1, <3>1, <3>2, <1>4, <1>7 DEF Record!Answer
  <2>3. CASE outcome # "COMPLETE"
    <3>1. assessed = 0 /\ Sight = "settled"
      BY <1>18, <2>1, <2>3, <1>5 DEF Announce, SightIsOrdered, Shown
    <3>2. CallerAnswer' = "settled"
      BY <2>1, <2>3 DEF CallerAnswer, IInv, TypeOK, Outcomes
    <3> QED BY <2>1, <3>1, <3>2, <1>4, <1>7 DEF Record!Answer
  <2> QED BY <2>2, <2>3
<1>19. CASE Propagate \/ Crash
  <2>1. assessed' = assessed /\ disk' = disk /\ reply' \in {"interrupted", "crashed"}
    BY <1>19 DEF Propagate, Crash, End, run, world, history
  <2>2. CallerAnswer' = "lost" BY <2>1 DEF CallerAnswer
  <2> QED BY <2>1, <2>2, <1>4, <1>7 DEF Record!Lose
<1>20. CASE Interrupt \/ Meddle \/ Expire \/ UNCHANGED vars
  BY <1>20 DEF Interrupt, Meddle, Expire, Fail, LeaveWith, vars, run, world, history
<1> QED
  BY <1>9, <1>10, <1>11, <1>12, <1>13, <1>14, <1>15, <1>16, <1>17, <1>18, <1>19, <1>20
     DEF Next, Step

-----------------------------------------------------------------------------
(* The theorems *)

\* An attempt starts as the promise does: nothing is recorded, validated or answered.
LEMMA PromisedInit == ASSUME Init PROVE Record!PromiseInit
BY DEF Init, Record!PromiseInit, Sight, CallerAnswer, NoRecord, VisibleSuccess

\* Whatever fails around it, an attempt shows success only after it validated its
\* evidence, answers COMPLETE only after it did so again, raises only after it withdrew
\* what it showed, and changes nothing after its answer.
THEOREM AttemptKeepsItsRecordPromise ==
  Spec => Record!PromiseInit /\ [][Record!PromiseNext]_(Record!promiseVars)
<1>1. Init => Record!PromiseInit BY PromisedInit
<1>2. IInv /\ IInv' /\ SightIsOrdered /\ SightIsOrdered' /\ [Next]_vars
        => [Record!PromiseNext]_(Record!promiseVars)
  BY PromisedStep
<1> QED BY <1>1, <1>2, IInvHolds, OrderHolds, PTL DEF Spec
=============================================================================
