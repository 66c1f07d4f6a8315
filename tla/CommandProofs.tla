----------------------------- MODULE CommandProofs -----------------------------
(***************************************************************************)
(* Proofs about a whole command, for every world and every catalog: its    *)
(* exit code accounts for the record, the delivery and what is left        *)
(* behind, and the pins and the factory that were prepared are those that  *)
(* run.                                                                    *)
(***************************************************************************)
EXTENDS Command, SequenceTheorems, FiniteSetTheorems, FunctionTheorems, TLAPS

-----------------------------------------------------------------------------
(* The private roots *)

\* Only a package is prepared before the contract is invoked
PackagePlaces == {"admit", "read", "read_lock", "installed", "locate", "offer", "stage"}

RootsAreKnown ==
  /\ at \in PackagePlaces => world.packaged
  /\ open \subseteq {"source", "imports"}
  /\ "source" \in open => world.packaged
  /\ packaged = world.packaged

LEMMA SupplyKeepsRoots ==
  ASSUME RootsAreKnown, SupplyNext, UNCHANGED packaged
  PROVE  RootsAreKnown'
<1> USE DEF RootsAreKnown, PackagePlaces, kept, work, others
<1>1. CASE AdmitPackage BY <1>1 DEF AdmitPackage, Require, Refuse
<1>2. CASE ReadManifest BY <1>2 DEF ReadManifest, Require, Refuse
<1>3. CASE ReadLock BY <1>3 DEF ReadLock, Require, Refuse
<1>4. CASE CheckInstalled BY <1>4 DEF CheckInstalled, Require, Refuse
<1>5. CASE Locate BY <1>5 DEF Locate, Require, Refuse
<1>6. CASE Offer BY <1>6 DEF Offer, Require, Refuse
<1>7. CASE OpenStage BY <1>7 DEF OpenStage, Require, Refuse
<1>8. CASE Snapshot BY <1>8 DEF Snapshot, Require, Refuse
<1>9. CASE SnapshotLock BY <1>9 DEF SnapshotLock, Require, Refuse
<1>10. CASE Identify BY <1>10 DEF Identify, Require, Refuse
<1>11. CASE CheckVersion BY <1>11 DEF CheckVersion, Require, Refuse
<1>12. CASE RunApm BY <1>12 DEF RunApm, Require, Refuse
<1>13. CASE ConfirmIdentity BY <1>13 DEF ConfirmIdentity, Require, Refuse
<1>14. CASE CheckPins BY <1>14 DEF CheckPins, Require, Refuse
<1>15. CASE Recheck BY <1>15 DEF Recheck, Require, Refuse
<1>16. CASE SelectStaged BY <1>16 DEF SelectStaged, Require, Refuse
<1>17. CASE Bind BY <1>17 DEF Bind, Require, Refuse
<1>18. CASE AdmitRoot BY <1>18 DEF AdmitRoot, Require, Refuse
<1>19. CASE ResolveFactory BY <1>19 DEF ResolveFactory, Require, Refuse
<1>20. CASE Confirm BY <1>20 DEF Confirm, Require, Refuse
<1>21. CASE ResolveAgain BY <1>21 DEF ResolveAgain, Require, Refuse
<1>22. CASE CheckConsent BY <1>22 DEF CheckConsent, Require, Refuse
<1>23. CASE PrepareImports
  <2>1. at' \in {"refused", "plan", "snapshot"}
    BY <1>23 DEF PrepareImports, Require, Refuse
  <2>2. open' \in {open, open \cup {"imports"}} /\ UNCHANGED world BY <1>23 DEF PrepareImports
  <2> QED BY <2>1, <2>2
<1>24. CASE CompareImports BY <1>24 DEF CompareImports, Require, Refuse
<1>25. CASE Plan BY <1>25 DEF Plan, Require, Refuse
<1>26. CASE Inspect BY <1>26 DEF Inspect, Require, Refuse
<1>27. CASE CaptureSource BY <1>27 DEF CaptureSource, Require, Refuse
<1>28. CASE ValidateAgain BY <1>28 DEF ValidateAgain, Require, Refuse
<1>29. CASE Fail BY <1>29 DEF Fail, Require, Refuse
<1>30. CASE Edit BY <1>30 DEF Edit, Require, Refuse
<1>31. CASE EditStage BY <1>31 DEF EditStage, Require, Refuse
<1> QED
  BY <1>1, <1>2, <1>3, <1>4, <1>5, <1>6, <1>7, <1>8, <1>9, <1>10, <1>11, <1>12, <1>13, <1>14, <1>15, <1>16, <1>17, <1>18, <1>19, <1>20, <1>21, <1>22, <1>23, <1>24, <1>25, <1>26, <1>27, <1>28, <1>29, <1>30, <1>31 DEF SupplyNext

-----------------------------------------------------------------------------
(* The record, the delivery and the exit code *)

\* The steps between a result and its report
Reporting == {"capture", "imports", "source", "validate", "render", "export", "publish",
              "undelivered", "staged", "report"}
Delivering == {"export", "publish", "undelivered", "staged", "report"}

SettledStop == result # "none" => unconfirmed \/ record = "HALTED"

\* What is true before a run, and as long as nothing was run
NothingRun ==
  /\ pc \in {"run", "previewed"} => result = "none" /\ record = "open" /\ leftovers = {}
  /\ pc = "previewed" => previewed /\ world.planning
  /\ pc \in Reporting => result # "none"
  /\ result = "none" => published = {}
  /\ world.planning => result = "none" /\ record = "open"
  /\ result \in Outcomes \cup {"none"}
  /\ result # "none" => at = "ready"

\* The record is the result's until a stop is recorded
RecordIsResult ==
  result # "none" /\ pc \notin {"error", "done"} =>
    record = result /\ selected = (entry = "repaired" /\ Complete)

\* A receipt is of a result that was sealed and announced, its bundle comes last
Delivered ==
  /\ Complete /\ pc \in {"imports", "source", "validate", "render"} => sealed
  /\ pc \in Delivering \/ published # {} => Complete /\ sealed /\ announced
  /\ pc \in {"capture", "imports", "source", "validate", "render", "export"} => published = {}
  /\ pc \in {"staged", "report"} => published = Targets
  /\ published \subseteq Targets /\ ("bundle" \in published => published = Targets)

\* Roots are left before the result is validated, and what stays is an error
RootsAreLeft ==
  /\ pc \in {"validate", "render"} \cup Delivering => open = {}
  /\ pc = "source" => "imports" \notin open
  /\ leftovers # {} =>
       /\ pc \in {"halt", "error", "done"}
       /\ exit # Killed => failure = "source_cleanup"
  /\ failure \notin {None, "source_cleanup"} => at = "refused"

\* How a command may have ended
Ends ==
  /\ exit = Running <=> pc # "done"
  /\ pc = "error" => SettledStop
  /\ pc = "done" =>
       \/ exit = Killed /\ open = {}
       \/ exit = 0 /\ open = {} /\ leftovers = {} /\ ExitZeroIsDelivered
       \/ exit = 23 /\ open = {} /\ leftovers = {} /\ record = "COMPLETE"
       \/ exit = 2 /\ result = "none" /\ leftovers = {}
       \/ /\ result \notin {"none", "COMPLETE"} /\ record = result /\ exit = ExitCode(record)
          /\ open = {} /\ leftovers = {}
       \/ exit \in {20, 21} /\ result = "none" /\ leftovers = {}
       \/ exit \in {22, Traceback} /\ SettledStop

EndInv ==
  RootsAreKnown /\ NothingRun /\ RecordIsResult /\ Delivered /\ RootsAreLeft /\ Ends

LEMMA EndInit == CommandInit => EndInv
BY SupplyAssumption
   DEF CommandInit, SupplyInit, Init, EndInv, RootsAreKnown, PackagePlaces, NothingRun,
       RecordIsResult, Delivered, RootsAreLeft, Ends, Reporting, Delivering, Targets, Complete,
       Running, Outcomes

LEMMA EndIsAccounted ==
  ASSUME EndInv
  PROVE  ExitIsAccounted /\ ExitAgreesWithRecord /\ BundleIsLast
<1> USE DEF EndInv, NothingRun, Outcomes
<1>1. ExitZeroIsDelivered BY DEF Ends, Running, Killed, Traceback, ExitCode, Delivered, RecordIsResult, ExitZeroIsDelivered
<1>2. StagingIsAccounted
  BY DEF StagingIsAccounted, Ended, Ends, ExitCode
<1>3. ExitAgreesWithRecord
  BY DEF ExitAgreesWithRecord, Ends, SettledStop, Running, Killed, Traceback, ExitCode
<1>4. BundleIsLast BY DEF BundleIsLast, Delivered, Complete, Targets
<1> QED BY <1>1, <1>2, <1>3, <1>4 DEF ExitIsAccounted

\* An error of the preparation ends it
LEMMA SupplyFails ==
  ASSUME SupplyNext
  PROVE  at # "refused" /\ (UNCHANGED failure \/ at' = "refused") /\ UNCHANGED world
<1> USE DEF Require, Refuse, kept, work, others
<1>1. CASE AdmitPackage BY <1>1 DEF AdmitPackage
<1>2. CASE ReadManifest BY <1>2 DEF ReadManifest
<1>3. CASE ReadLock BY <1>3 DEF ReadLock
<1>4. CASE CheckInstalled BY <1>4 DEF CheckInstalled
<1>5. CASE Locate BY <1>5 DEF Locate
<1>6. CASE Offer BY <1>6 DEF Offer
<1>7. CASE OpenStage BY <1>7 DEF OpenStage
<1>8. CASE Snapshot BY <1>8 DEF Snapshot
<1>9. CASE SnapshotLock BY <1>9 DEF SnapshotLock
<1>10. CASE Identify BY <1>10 DEF Identify
<1>11. CASE CheckVersion BY <1>11 DEF CheckVersion
<1>12. CASE RunApm BY <1>12 DEF RunApm
<1>13. CASE ConfirmIdentity BY <1>13 DEF ConfirmIdentity
<1>14. CASE CheckPins BY <1>14 DEF CheckPins
<1>15. CASE Recheck BY <1>15 DEF Recheck
<1>16. CASE SelectStaged BY <1>16 DEF SelectStaged
<1>17. CASE Bind BY <1>17 DEF Bind
<1>18. CASE AdmitRoot BY <1>18 DEF AdmitRoot
<1>19. CASE ResolveFactory BY <1>19 DEF ResolveFactory
<1>20. CASE Confirm BY <1>20 DEF Confirm
<1>21. CASE ResolveAgain BY <1>21 DEF ResolveAgain
<1>22. CASE CheckConsent BY <1>22 DEF CheckConsent
<1>23. CASE PrepareImports BY <1>23 DEF PrepareImports
<1>24. CASE CompareImports BY <1>24 DEF CompareImports
<1>25. CASE Plan BY <1>25 DEF Plan
<1>26. CASE Inspect BY <1>26 DEF Inspect
<1>27. CASE CaptureSource BY <1>27 DEF CaptureSource
<1>28. CASE ValidateAgain BY <1>28 DEF ValidateAgain
<1>29. CASE Fail BY <1>29 DEF Fail
<1>30. CASE Edit BY <1>30 DEF Edit
<1>31. CASE EditStage BY <1>31 DEF EditStage
<1> QED
  BY <1>1, <1>2, <1>3, <1>4, <1>5, <1>6, <1>7, <1>8, <1>9, <1>10, <1>11, <1>12, <1>13, <1>14, <1>15, <1>16, <1>17, <1>18, <1>19, <1>20, <1>21, <1>22, <1>23, <1>24, <1>25, <1>26, <1>27, <1>28, <1>29, <1>30, <1>31 DEF SupplyNext

LEMMA EndStep ==
  ASSUME EndInv, [CommandNext]_commandVars
  PROVE  EndInv'
<1> USE DEF EndInv, Outcomes, Reporting, Delivering
<1>1. CASE Prepare
  <2>1. RootsAreKnown' BY <1>1, SupplyFails, SupplyKeepsRoots DEF RootsAreKnown, PackagePlaces, Prepare, vars, evidence
  <2>2. NothingRun' BY <1>1, SupplyFails DEF NothingRun, Complete, Delivered, Prepare, vars, evidence
  <2>3. RecordIsResult' BY <1>1, SupplyFails DEF RecordIsResult, NothingRun, Complete, Prepare, vars, evidence
  <2>4. Delivered' BY <1>1, SupplyFails DEF Delivered, Complete, Targets, NothingRun, RecordIsResult, Prepare, vars, evidence
  <2>5. RootsAreLeft' BY <1>1, SupplyFails DEF RootsAreLeft, RootsAreKnown, NothingRun, Delivered, Complete, Killed, Running, Ends, Prepare, vars, evidence
  <2>6. Ends' BY <1>1, SupplyFails DEF Ends, SettledStop, ExitZeroIsDelivered, ExitCode, Running, Killed, Traceback, Complete, NothingRun, RecordIsResult, Delivered, RootsAreLeft, RootsAreKnown, Prepare, vars, evidence
  <2> QED BY <2>1, <2>2, <2>3, <2>4, <2>5, <2>6
<1>2. CASE Refused
  <2>1. RootsAreKnown' BY <1>2 DEF RootsAreKnown, PackagePlaces, Refused, Raise, supplyVars, kept, work, others, evidence
  <2>2. NothingRun' BY <1>2 DEF NothingRun, Complete, Delivered, Refused, Raise, supplyVars, kept, work, others, evidence
  <2>3. RecordIsResult' BY <1>2 DEF RecordIsResult, NothingRun, Complete, Refused, Raise, supplyVars, kept, work, others, evidence
  <2>4. Delivered' BY <1>2 DEF Delivered, Complete, Targets, NothingRun, RecordIsResult, Refused, Raise, supplyVars, kept, work, others, evidence
  <2>5. RootsAreLeft' BY <1>2 DEF RootsAreLeft, RootsAreKnown, NothingRun, Delivered, Complete, Killed, Running, Ends, Refused, Raise, supplyVars, kept, work, others, evidence
  <2>6. Ends' BY <1>2 DEF Ends, SettledStop, ExitZeroIsDelivered, ExitCode, Running, Killed, Traceback, Complete, NothingRun, RecordIsResult, Delivered, RootsAreLeft, RootsAreKnown, Refused, Raise, supplyVars, kept, work, others, evidence
  <2> QED BY <2>1, <2>2, <2>3, <2>4, <2>5, <2>6
<1>3. CASE Preview
  <2>1. RootsAreKnown' BY <1>3 DEF RootsAreKnown, PackagePlaces, Preview, Raise, supplyVars, kept, work, others, evidence
  <2>2. NothingRun' BY <1>3 DEF NothingRun, Complete, Delivered, Preview, Raise, supplyVars, kept, work, others, evidence
  <2>3. RecordIsResult' BY <1>3 DEF RecordIsResult, NothingRun, Complete, Preview, Raise, supplyVars, kept, work, others, evidence
  <2>4. Delivered' BY <1>3 DEF Delivered, Complete, Targets, NothingRun, RecordIsResult, Preview, Raise, supplyVars, kept, work, others, evidence
  <2>5. RootsAreLeft' BY <1>3 DEF RootsAreLeft, RootsAreKnown, NothingRun, Delivered, Complete, Killed, Running, Ends, Preview, Raise, supplyVars, kept, work, others, evidence
  <2>6. Ends' BY <1>3 DEF Ends, SettledStop, ExitZeroIsDelivered, ExitCode, Running, Killed, Traceback, Complete, NothingRun, RecordIsResult, Delivered, RootsAreLeft, RootsAreKnown, Preview, Raise, supplyVars, kept, work, others, evidence
  <2> QED BY <2>1, <2>2, <2>3, <2>4, <2>5, <2>6
<1>4. CASE Perform
  <2>1. RootsAreKnown' BY <1>4 DEF RootsAreKnown, PackagePlaces, Perform, Run, Raise, supplyVars, kept, work, others, evidence
  <2>2. NothingRun' BY <1>4 DEF NothingRun, Complete, Delivered, Perform, Run, Raise, supplyVars, kept, work, others, evidence
  <2>3. RecordIsResult' BY <1>4 DEF RecordIsResult, NothingRun, Complete, Perform, Run, Raise, supplyVars, kept, work, others, evidence
  <2>4. Delivered' BY <1>4 DEF Delivered, Complete, Targets, NothingRun, RecordIsResult, Perform, Run, Raise, supplyVars, kept, work, others, evidence
  <2>5. RootsAreLeft' BY <1>4 DEF RootsAreLeft, RootsAreKnown, NothingRun, Delivered, Complete, Killed, Running, Ends, Perform, Run, Raise, supplyVars, kept, work, others, evidence
  <2>6. Ends' BY <1>4 DEF Ends, SettledStop, ExitZeroIsDelivered, ExitCode, Running, Killed, Traceback, Complete, NothingRun, RecordIsResult, Delivered, RootsAreLeft, RootsAreKnown, Perform, Run, Raise, supplyVars, kept, work, others, evidence
  <2> QED BY <2>1, <2>2, <2>3, <2>4, <2>5, <2>6
<1>5. CASE Close
  <2>1. RootsAreKnown' BY <1>5, SupplyAssumption DEF RootsAreKnown, PackagePlaces, Close, Leaving, prepared, kept, work, others, evidence
  <2>2. NothingRun' BY <1>5, SupplyAssumption DEF NothingRun, Complete, Delivered, Close, Leaving, prepared, kept, work, others, evidence
  <2>3. RecordIsResult' BY <1>5, SupplyAssumption DEF RecordIsResult, NothingRun, Complete, Close, Leaving, prepared, kept, work, others, evidence
  <2>4. Delivered' BY <1>5, SupplyAssumption DEF Delivered, Complete, Targets, NothingRun, RecordIsResult, Close, Leaving, prepared, kept, work, others, evidence
  <2>5. RootsAreLeft' BY <1>5, SupplyAssumption DEF RootsAreLeft, RootsAreKnown, NothingRun, Delivered, Complete, Killed, Running, Ends, Close, Leaving, prepared, kept, work, others, evidence
  <2>6. Ends' BY <1>5, SupplyAssumption DEF Ends, SettledStop, ExitZeroIsDelivered, ExitCode, Running, Killed, Traceback, Complete, NothingRun, RecordIsResult, Delivered, RootsAreLeft, RootsAreKnown, Close, Leaving, prepared, kept, work, others, evidence
  <2> QED BY <2>1, <2>2, <2>3, <2>4, <2>5, <2>6
<1>6. CASE Leave("imports")
  <2>1. RootsAreKnown' BY <1>6, SupplyAssumption DEF RootsAreKnown, PackagePlaces, Leave, LeaveContexts, Raise, prepared, kept, work, others, evidence
  <2>2. NothingRun' BY <1>6, SupplyAssumption DEF NothingRun, Complete, Delivered, Leave, LeaveContexts, Raise, prepared, kept, work, others, evidence
  <2>3. RecordIsResult' BY <1>6, SupplyAssumption DEF RecordIsResult, NothingRun, Complete, Leave, LeaveContexts, Raise, prepared, kept, work, others, evidence
  <2>4. Delivered' BY <1>6, SupplyAssumption DEF Delivered, Complete, Targets, NothingRun, RecordIsResult, Leave, LeaveContexts, Raise, prepared, kept, work, others, evidence
  <2>5. RootsAreLeft' BY <1>6, SupplyAssumption DEF RootsAreLeft, RootsAreKnown, NothingRun, Delivered, Complete, Killed, Running, Ends, Leave, LeaveContexts, Raise, prepared, kept, work, others, evidence
  <2>6. Ends' BY <1>6, SupplyAssumption DEF Ends, SettledStop, ExitZeroIsDelivered, ExitCode, Running, Killed, Traceback, Complete, NothingRun, RecordIsResult, Delivered, RootsAreLeft, RootsAreKnown, Leave, LeaveContexts, Raise, prepared, kept, work, others, evidence
  <2> QED BY <2>1, <2>2, <2>3, <2>4, <2>5, <2>6
<1>7. CASE Leave("source")
  <2>1. RootsAreKnown' BY <1>7, SupplyAssumption DEF RootsAreKnown, PackagePlaces, Leave, LeaveContexts, Raise, prepared, kept, work, others, evidence
  <2>2. NothingRun' BY <1>7, SupplyAssumption DEF NothingRun, Complete, Delivered, Leave, LeaveContexts, Raise, prepared, kept, work, others, evidence
  <2>3. RecordIsResult' BY <1>7, SupplyAssumption DEF RecordIsResult, NothingRun, Complete, Leave, LeaveContexts, Raise, prepared, kept, work, others, evidence
  <2>4. Delivered' BY <1>7, SupplyAssumption DEF Delivered, Complete, Targets, NothingRun, RecordIsResult, Leave, LeaveContexts, Raise, prepared, kept, work, others, evidence
  <2>5. RootsAreLeft' BY <1>7, SupplyAssumption DEF RootsAreLeft, RootsAreKnown, NothingRun, Delivered, Complete, Killed, Running, Ends, Leave, LeaveContexts, Raise, prepared, kept, work, others, evidence
  <2>6. Ends' BY <1>7, SupplyAssumption DEF Ends, SettledStop, ExitZeroIsDelivered, ExitCode, Running, Killed, Traceback, Complete, NothingRun, RecordIsResult, Delivered, RootsAreLeft, RootsAreKnown, Leave, LeaveContexts, Raise, prepared, kept, work, others, evidence
  <2> QED BY <2>1, <2>2, <2>3, <2>4, <2>5, <2>6
<1>8. CASE EndPreview
  <2>1. RootsAreKnown' BY <1>8 DEF RootsAreKnown, PackagePlaces, EndPreview, Exit, supplyVars, kept, work, others, evidence
  <2>2. NothingRun' BY <1>8 DEF NothingRun, Complete, Delivered, EndPreview, Exit, supplyVars, kept, work, others, evidence
  <2>3. RecordIsResult' BY <1>8 DEF RecordIsResult, NothingRun, Complete, EndPreview, Exit, supplyVars, kept, work, others, evidence
  <2>4. Delivered' BY <1>8 DEF Delivered, Complete, Targets, NothingRun, RecordIsResult, EndPreview, Exit, supplyVars, kept, work, others, evidence
  <2>5. RootsAreLeft' BY <1>8 DEF RootsAreLeft, RootsAreKnown, NothingRun, Delivered, Complete, Killed, Running, Ends, EndPreview, Exit, supplyVars, kept, work, others, evidence
  <2>6. Ends' BY <1>8 DEF Ends, SettledStop, ExitZeroIsDelivered, ExitCode, Running, Killed, Traceback, Complete, NothingRun, RecordIsResult, Delivered, RootsAreLeft, RootsAreKnown, EndPreview, Exit, supplyVars, kept, work, others, evidence
  <2> QED BY <2>1, <2>2, <2>3, <2>4, <2>5, <2>6
<1>9. CASE Unavailable
  <2>1. RootsAreKnown' BY <1>9 DEF RootsAreKnown, PackagePlaces, Unavailable, Exit, Leaving, supplyVars, kept, work, others, evidence
  <2>2. NothingRun' BY <1>9 DEF NothingRun, Complete, Delivered, Unavailable, Exit, Leaving, supplyVars, kept, work, others, evidence
  <2>3. RecordIsResult' BY <1>9 DEF RecordIsResult, NothingRun, Complete, Unavailable, Exit, Leaving, supplyVars, kept, work, others, evidence
  <2>4. Delivered' BY <1>9 DEF Delivered, Complete, Targets, NothingRun, RecordIsResult, Unavailable, Exit, Leaving, supplyVars, kept, work, others, evidence
  <2>5. RootsAreLeft' BY <1>9 DEF RootsAreLeft, RootsAreKnown, NothingRun, Delivered, Complete, Killed, Running, Ends, Unavailable, Exit, Leaving, supplyVars, kept, work, others, evidence
  <2>6. Ends'
    <3>1. /\ pc = "halt" /\ failure = "preview_source_unavailable" /\ pc' = "done" /\ exit' = 2
          /\ UNCHANGED <<result, leftovers>>
      BY <1>9 DEF Unavailable, Exit
    <3>2. result = "none" /\ leftovers = {}
      BY <3>1, SupplyAssumption DEF RootsAreLeft, NothingRun, Ends, Killed, Running
    <3> QED BY <3>1, <3>2 DEF Ends, Running
  <2> QED BY <2>1, <2>2, <2>3, <2>4, <2>5, <2>6
<1>10. CASE RecordStop
  <2>1. RootsAreKnown' BY <1>10 DEF RootsAreKnown, PackagePlaces, RecordStop, Halt, SameResult, supplyVars, kept, work, others, evidence
  <2>2. NothingRun' BY <1>10 DEF NothingRun, Complete, Delivered, RecordStop, Halt, SameResult, supplyVars, kept, work, others, evidence
  <2>3. RecordIsResult' BY <1>10 DEF RecordIsResult, NothingRun, Complete, RecordStop, Halt, SameResult, supplyVars, kept, work, others, evidence
  <2>4. Delivered' BY <1>10 DEF Delivered, Complete, Targets, NothingRun, RecordIsResult, RecordStop, Halt, SameResult, supplyVars, kept, work, others, evidence
  <2>5. RootsAreLeft' BY <1>10 DEF RootsAreLeft, RootsAreKnown, NothingRun, Delivered, Complete, Killed, Running, Ends, RecordStop, Halt, SameResult, supplyVars, kept, work, others, evidence
  <2>6. Ends' BY <1>10 DEF Ends, SettledStop, ExitZeroIsDelivered, ExitCode, Running, Killed, Traceback, Complete, NothingRun, RecordIsResult, Delivered, RootsAreLeft, RootsAreKnown, RecordStop, Halt, SameResult, supplyVars, kept, work, others, evidence
  <2> QED BY <2>1, <2>2, <2>3, <2>4, <2>5, <2>6
<1>11. CASE Report
  <2>1. RootsAreKnown' BY <1>11, SupplyAssumption DEF RootsAreKnown, PackagePlaces, Report, ReportError, Exit, Unproven, supplyVars, kept, work, others, evidence
  <2>2. NothingRun' BY <1>11, SupplyAssumption DEF NothingRun, Complete, Delivered, Report, ReportError, Exit, Unproven, supplyVars, kept, work, others, evidence
  <2>3. RecordIsResult' BY <1>11, SupplyAssumption DEF RecordIsResult, NothingRun, Complete, Report, ReportError, Exit, Unproven, supplyVars, kept, work, others, evidence
  <2>4. Delivered' BY <1>11, SupplyAssumption DEF Delivered, Complete, Targets, NothingRun, RecordIsResult, Report, ReportError, Exit, Unproven, supplyVars, kept, work, others, evidence
  <2>5. RootsAreLeft' BY <1>11, SupplyAssumption DEF RootsAreLeft, RootsAreKnown, NothingRun, Delivered, Complete, Killed, Running, Ends, Report, ReportError, Exit, Unproven, supplyVars, kept, work, others, evidence
  <2>6. Ends'
    <3>1. pc = "error" /\ exit = Running /\ UNCHANGED <<result, record, open, leftovers, unconfirmed, failure>>
      BY <1>11 DEF Report, ReportError, Ends, supplyVars, evidence
    <3>2. leftovers # {} => failure = "source_cleanup" /\ failure # None
      BY <3>1, SupplyAssumption DEF RootsAreLeft, Running, Killed
    <3>3. pc' = "done" /\ exit' \in {20, 21, 22, Traceback}
      BY <1>11 DEF Report, ReportError, Exit, ExitCode
    <3>4. leftovers # {} \/ result # "none" => exit' \in {22, Traceback}
      BY <1>11, <3>2 DEF Report, ReportError, Exit, Unproven
    <3> QED BY <3>1, <3>3, <3>4 DEF Ends, SettledStop, Traceback, Running
  <2> QED BY <2>1, <2>2, <2>3, <2>4, <2>5, <2>6
<1>12. CASE Continue
  <2>1. RootsAreKnown' BY <1>12 DEF RootsAreKnown, PackagePlaces, Continue, Capture, Validate, Render, Export, Publish, Unstage, ReportDelivery, Interrupt, Meddle, NextTarget, Exit, Raise, supplyVars, kept, work, others, evidence
  <2>2. NothingRun' BY <1>12 DEF NothingRun, Complete, Delivered, Continue, Capture, Validate, Render, Export, Publish, Unstage, ReportDelivery, Interrupt, Meddle, NextTarget, Exit, Raise, supplyVars, kept, work, others, evidence
  <2>3. RecordIsResult' BY <1>12 DEF RecordIsResult, NothingRun, Complete, Continue, Capture, Validate, Render, Export, Publish, Unstage, ReportDelivery, Interrupt, Meddle, NextTarget, Exit, Raise, supplyVars, kept, work, others, evidence
  <2>4. Delivered'
    <3> USE DEF Delivered, Complete
    <3>1. CASE Capture BY <3>1 DEF Capture, Raise
    <3>2. CASE Validate BY <3>2 DEF Validate, Raise
    <3>3. CASE Render
      <4>1. CASE Complete /\ announced' = TRUE /\ pc' = "export"
        BY <3>3, <4>1 DEF Render, evidence
      <4>2. CASE ~Complete /\ announced' = TRUE /\ pc' = "done"
        BY <3>3, <4>2 DEF Render, evidence
      <4>3. CASE announced' \in BOOLEAN /\ pc' = "halt"
        <5>1. published = {} BY <3>3, <4>3 DEF Render
        <5> QED BY <3>3, <4>3 DEF Render, evidence
      <4> QED BY <3>3, <4>1, <4>2, <4>3 DEF Render, Raise, Exit
    <3>4. CASE Export BY <3>4 DEF Export
    <3>5. CASE Publish BY <3>5 DEF Publish, NextTarget, Targets
    <3>6. CASE Unstage BY <3>6 DEF Unstage
    <3>7. CASE ReportDelivery BY <3>7 DEF ReportDelivery, Raise, Exit
    <3>8. CASE Interrupt BY <3>8 DEF Interrupt, Raise
    <3>9. CASE Meddle BY <3>9 DEF Meddle
    <3> QED BY <1>12, <3>1, <3>2, <3>3, <3>4, <3>5, <3>6, <3>7, <3>8, <3>9 DEF Continue
  <2>5. RootsAreLeft' BY <1>12 DEF RootsAreLeft, RootsAreKnown, NothingRun, Delivered, Complete, Killed, Running, Ends, Continue, Capture, Validate, Render, Export, Publish, Unstage, ReportDelivery, Interrupt, Meddle, NextTarget, Exit, Raise, supplyVars, kept, work, others, evidence
  <2>6. Ends'
    <3> USE DEF Ends, Raise, Exit, SettledStop, Running
    <3>1. CASE Capture BY <3>1 DEF Capture
    <3>2. CASE Validate BY <3>2 DEF Validate
    <3>3. CASE Render
      <4>1. pc = "render" /\ record = result /\ open = {} /\ leftovers = {} /\ result # "none"
            /\ UNCHANGED <<result, record, open, leftovers>>
        BY <1>12, <3>3 DEF Render, NothingRun, RecordIsResult, RootsAreLeft, Continue, evidence, supplyVars
      <4> QED BY <3>3, <4>1 DEF Render, Complete, ExitCode
    <3>4. CASE Export BY <3>4 DEF Export
    <3>5. CASE Publish BY <3>5 DEF Publish
    <3>6. CASE Unstage BY <3>6 DEF Unstage
    <3>7. CASE ReportDelivery
      <4>1. /\ pc \in Delivering /\ record = "COMPLETE" /\ Complete /\ open = {} /\ leftovers = {}
            /\ sealed /\ announced /\ (pc = "report" => published = Targets)
            /\ (entry = "repaired" => selected) /\ ~world.planning
            /\ UNCHANGED <<world, entry, selected, result, record, sealed, announced, published, open, leftovers>>
        BY <1>12, <3>7 DEF ReportDelivery, NothingRun, RecordIsResult, RootsAreLeft, Delivered, Complete, Continue, evidence, supplyVars
      <4> QED BY <3>7, <4>1 DEF ReportDelivery, ExitZeroIsDelivered, Complete
    <3>8. CASE Interrupt BY <3>8 DEF Interrupt
    <3>9. CASE Meddle BY <1>12, <3>9 DEF Meddle, Continue, supplyVars, ExitZeroIsDelivered, Complete
    <3> QED BY <1>12, <3>1, <3>2, <3>3, <3>4, <3>5, <3>6, <3>7, <3>8, <3>9 DEF Continue
  <2> QED BY <2>1, <2>2, <2>3, <2>4, <2>5, <2>6
<1>13. CASE Die
  <2>1. RootsAreKnown' BY <1>13 DEF RootsAreKnown, PackagePlaces, Die, Kill, Exit, prepared, kept, work, others, evidence
  <2>2. NothingRun' BY <1>13 DEF NothingRun, Complete, Delivered, Die, Kill, Exit, prepared, kept, work, others, evidence
  <2>3. RecordIsResult' BY <1>13 DEF RecordIsResult, NothingRun, Complete, Die, Kill, Exit, prepared, kept, work, others, evidence
  <2>4. Delivered' BY <1>13 DEF Delivered, Complete, Targets, NothingRun, RecordIsResult, Die, Kill, Exit, prepared, kept, work, others, evidence
  <2>5. RootsAreLeft' BY <1>13 DEF RootsAreLeft, RootsAreKnown, NothingRun, Delivered, Complete, Killed, Running, Ends, Die, Kill, Exit, prepared, kept, work, others, evidence
  <2>6. Ends' BY <1>13 DEF Ends, SettledStop, ExitZeroIsDelivered, ExitCode, Running, Killed, Traceback, Complete, NothingRun, RecordIsResult, Delivered, RootsAreLeft, RootsAreKnown, Die, Kill, Exit, prepared, kept, work, others, evidence
  <2> QED BY <2>1, <2>2, <2>3, <2>4, <2>5, <2>6
<1>14. CASE UNCHANGED commandVars
  <2>1. RootsAreKnown' BY <1>14 DEF RootsAreKnown, PackagePlaces, commandVars, vars, evidence, supplyVars, kept, work, others
  <2>2. NothingRun' BY <1>14 DEF NothingRun, Complete, Delivered, commandVars, vars, evidence, supplyVars, kept, work, others
  <2>3. RecordIsResult' BY <1>14 DEF RecordIsResult, NothingRun, Complete, commandVars, vars, evidence, supplyVars, kept, work, others
  <2>4. Delivered' BY <1>14 DEF Delivered, Complete, Targets, NothingRun, RecordIsResult, commandVars, vars, evidence, supplyVars, kept, work, others
  <2>5. RootsAreLeft' BY <1>14 DEF RootsAreLeft, RootsAreKnown, NothingRun, Delivered, Complete, Killed, Running, Ends, commandVars, vars, evidence, supplyVars, kept, work, others
  <2>6. Ends' BY <1>14 DEF Ends, SettledStop, ExitZeroIsDelivered, ExitCode, Running, Killed, Traceback, Complete, NothingRun, RecordIsResult, Delivered, RootsAreLeft, RootsAreKnown, commandVars, vars, evidence, supplyVars, kept, work, others
  <2> QED BY <2>1, <2>2, <2>3, <2>4, <2>5, <2>6
<1> QED BY <1>1, <1>2, <1>3, <1>4, <1>5, <1>6, <1>7, <1>8, <1>9, <1>10, <1>11, <1>12, <1>13, <1>14 DEF CommandNext

LEMMA EndIsInvariant == CommandSpec => []EndInv
<1>1. CommandInit => EndInv BY EndInit
<1>2. EndInv /\ [CommandNext]_commandVars => EndInv' BY EndStep
<1> QED BY <1>1, <1>2, PTL DEF CommandSpec

\* The exit code accounts for the delivery and for what is left behind (invoke_contract,
\* _finish_result, _private_root, main).
THEOREM ExitAccounted == CommandSpec => []ExitIsAccounted
<1>1. EndInv => ExitIsAccounted BY EndIsAccounted
<1> QED BY <1>1, EndIsInvariant, PTL

\* A code that is not 0 tells the truth about the record (preparation_failure, halt_chain).
THEOREM ExitAgrees == CommandSpec => []ExitAgreesWithRecord
<1>1. EndInv => ExitAgreesWithRecord BY EndIsAccounted
<1> QED BY <1>1, EndIsInvariant, PTL

\* A receipt whose bundle can be seen is whole, and of a result that was sealed and
\* announced (export_package, CompletionBoundary).
THEOREM BundleComesLast == CommandSpec => []BundleIsLast
<1>1. EndInv => BundleIsLast BY EndIsAccounted
<1> QED BY <1>1, EndIsInvariant, PTL

-----------------------------------------------------------------------------
(* The pins *)

Staging == {"snapshot", "snapshot_lock", "identify", "version", "apm", "identified"}
Selecting == {"pins", "recheck", "select", "bind"}
LockUnread == {"admit", "read", "read_lock"}
Unstaged == LockUnread \cup {"installed", "locate", "offer", "stage"}

\* A package is being installed that is not the imports
ForPackage == at \in Selecting \/ (at \in Staging /\ scope = "package")

\* Others have written this since, and written back is restored
Moved(thing, value) == <<thing, value>> \in past

Shapes ==
  /\ disk = [manifest |-> disk.manifest, lock |-> disk.lock, original |-> disk.original,
             installed |-> disk.installed, backend |-> disk.backend]
  /\ seen = [manifest |-> seen.manifest, lock |-> seen.lock, original |-> seen.original]
  /\ stage = [manifest |-> stage.manifest, lock |-> stage.lock, tree |-> stage.tree]
  /\ scope \in {"package", "imports"}

\* When there is a source, and of what kind
SourceIsOf ==
  /\ at \in Unstaged \/ ForPackage => source = None /\ world.packaged
  /\ (at \in Staging /\ scope # "package") \/ at = "imported" => ~Identified(source)
  /\ Identified(source) => source.kind = "staged" /\ world.packaged

\* The stage extends the pins of the snapshot
PinsArePreserved ==
  /\ at \in Unstaged => established = None
  /\ at \in {"snapshot", "snapshot_lock"} /\ scope = "package" => seen.manifest # None
  /\ ForPackage /\ seen.manifest = None => established = None
  /\ at \in {"recheck", "select", "bind"} \/ Identified(source) => Preserved(established, stage.lock)

\* What is staged has the locked hash
TreeIsLocked ==
  /\ at = "bind" => touched \/ stage.lock.p.hash \in {None, stage.tree}
  /\ Identified(source) => touched \/ stage.lock.p.hash \in {None, source.prepared}

\* A lock that differs from the one that was read was written, and nobody sees that
\* only if it was written back
LockIsKept ==
  /\ world.packaged /\ at \notin LockUnread \cup {"refused"} =>
       (disk.lock # seen.lock => Moved("lock", seen.lock))
  /\ ForPackage /\ at \notin {"snapshot", "snapshot_lock"} =>
       \/ established = seen.lock
       \/ Moved("lock", seen.lock) /\ (disk.lock = seen.lock => restored)
  /\ at \in {"select", "bind"} => established = seen.lock \/ restored
  /\ Identified(source) => established = source.consumer.lock \/ restored

ProgramIsKept ==
  /\ at \in {"version", "apm", "identified"} =>
       (disk.backend # identity => Moved("backend", identity))
  /\ at = "identified" =>
       \/ ran = identity
       \/ Moved("backend", identity) /\ (disk.backend = identity => restored)
  /\ at \in Selecting => ran = identity \/ restored
  /\ Identified(source) => source.identity = ran \/ restored

CaptureIsPrepared ==
  Identified(source) =>
    /\ stage.tree # source.prepared => Moved("stage", source.prepared)
    /\ at = "validate" =>
         \/ captured = source.prepared
         \/ Moved("stage", source.prepared) /\ (stage.tree = source.prepared => restored)
    /\ at = "ready" => captured = source.prepared \/ restored

PinInv ==
  /\ Shapes /\ SourceIsOf /\ PinsArePreserved /\ TreeIsLocked
  /\ LockIsKept /\ ProgramIsKept /\ CaptureIsPrepared

LEMMA PinsHold == PinInv => PinHoldsAcrossSteps
BY DEF PinInv, PinHoldsAcrossSteps, PinsArePreserved, TreeIsLocked, LockIsKept, ProgramIsKept,
       CaptureIsPrepared, Preserved

LEMMA PinInit == SupplyInit => PinInv
BY SupplyAssumption
   DEF SupplyInit, PinInv, Shapes, SourceIsOf, PinsArePreserved, TreeIsLocked, LockIsKept,
       ProgramIsKept, CaptureIsPrepared, Staging, Selecting, LockUnread, Unstaged, ForPackage,
       Identified

LEMMA PinStep ==
  ASSUME PinInv, SupplyNext
  PROVE  PinInv'
<1> USE DEF PinInv, Require, Refuse, kept, work, others, Staging, Selecting, LockUnread, Unstaged,
            ForPackage, Moved, Identified
<1>1. CASE AdmitPackage
  <2>1. Shapes' BY <1>1 DEF Shapes, AdmitPackage
  <2>2. SourceIsOf' BY <1>1 DEF SourceIsOf, AdmitPackage, Shapes
  <2>3. PinsArePreserved' BY <1>1 DEF PinsArePreserved, AdmitPackage, Shapes, SourceIsOf, Preserved
  <2>4. TreeIsLocked' BY <1>1 DEF TreeIsLocked, AdmitPackage, Shapes, SourceIsOf
  <2>5. LockIsKept' BY <1>1 DEF LockIsKept, AdmitPackage, Shapes, SourceIsOf
  <2>6. ProgramIsKept' BY <1>1 DEF ProgramIsKept, AdmitPackage, Shapes, SourceIsOf
  <2>7. CaptureIsPrepared' BY <1>1 DEF CaptureIsPrepared, AdmitPackage, Shapes, SourceIsOf
  <2> QED BY <2>1, <2>2, <2>3, <2>4, <2>5, <2>6, <2>7
<1>2. CASE ReadManifest
  <2>1. Shapes' BY <1>2 DEF Shapes, ReadManifest
  <2>2. SourceIsOf' BY <1>2 DEF SourceIsOf, ReadManifest, Shapes
  <2>3. PinsArePreserved' BY <1>2 DEF PinsArePreserved, ReadManifest, Shapes, SourceIsOf, Preserved
  <2>4. TreeIsLocked' BY <1>2 DEF TreeIsLocked, ReadManifest, Shapes, SourceIsOf
  <2>5. LockIsKept' BY <1>2 DEF LockIsKept, ReadManifest, Shapes, SourceIsOf
  <2>6. ProgramIsKept' BY <1>2 DEF ProgramIsKept, ReadManifest, Shapes, SourceIsOf
  <2>7. CaptureIsPrepared' BY <1>2 DEF CaptureIsPrepared, ReadManifest, Shapes, SourceIsOf
  <2> QED BY <2>1, <2>2, <2>3, <2>4, <2>5, <2>6, <2>7
<1>3. CASE ReadLock
  <2>1. Shapes' BY <1>3 DEF Shapes, ReadLock
  <2>2. SourceIsOf' BY <1>3 DEF SourceIsOf, ReadLock, Shapes
  <2>3. PinsArePreserved' BY <1>3 DEF PinsArePreserved, ReadLock, Shapes, SourceIsOf, Preserved
  <2>4. TreeIsLocked' BY <1>3 DEF TreeIsLocked, ReadLock, Shapes, SourceIsOf
  <2>5. LockIsKept' BY <1>3 DEF LockIsKept, ReadLock, Shapes, SourceIsOf
  <2>6. ProgramIsKept' BY <1>3 DEF ProgramIsKept, ReadLock, Shapes, SourceIsOf
  <2>7. CaptureIsPrepared' BY <1>3 DEF CaptureIsPrepared, ReadLock, Shapes, SourceIsOf
  <2> QED BY <2>1, <2>2, <2>3, <2>4, <2>5, <2>6, <2>7
<1>4. CASE CheckInstalled
  <2>1. Shapes' BY <1>4 DEF Shapes, CheckInstalled
  <2>2. SourceIsOf' BY <1>4 DEF SourceIsOf, CheckInstalled, Shapes
  <2>3. PinsArePreserved' BY <1>4 DEF PinsArePreserved, CheckInstalled, Shapes, SourceIsOf, Preserved
  <2>4. TreeIsLocked' BY <1>4 DEF TreeIsLocked, CheckInstalled, Shapes, SourceIsOf
  <2>5. LockIsKept' BY <1>4 DEF LockIsKept, CheckInstalled, Shapes, SourceIsOf
  <2>6. ProgramIsKept' BY <1>4 DEF ProgramIsKept, CheckInstalled, Shapes, SourceIsOf
  <2>7. CaptureIsPrepared' BY <1>4 DEF CaptureIsPrepared, CheckInstalled, Shapes, SourceIsOf
  <2> QED BY <2>1, <2>2, <2>3, <2>4, <2>5, <2>6, <2>7
<1>5. CASE Locate
  <2>1. Shapes' BY <1>5 DEF Shapes, Locate
  <2>2. SourceIsOf' BY <1>5 DEF SourceIsOf, Locate, Shapes
  <2>3. PinsArePreserved' BY <1>5 DEF PinsArePreserved, Locate, Shapes, SourceIsOf, Preserved
  <2>4. TreeIsLocked' BY <1>5 DEF TreeIsLocked, Locate, Shapes, SourceIsOf
  <2>5. LockIsKept' BY <1>5 DEF LockIsKept, Locate, Shapes, SourceIsOf
  <2>6. ProgramIsKept' BY <1>5 DEF ProgramIsKept, Locate, Shapes, SourceIsOf
  <2>7. CaptureIsPrepared' BY <1>5 DEF CaptureIsPrepared, Locate, Shapes, SourceIsOf
  <2> QED BY <2>1, <2>2, <2>3, <2>4, <2>5, <2>6, <2>7
<1>6. CASE Offer
  <2>1. Shapes' BY <1>6 DEF Shapes, Offer
  <2>2. SourceIsOf' BY <1>6 DEF SourceIsOf, Offer, Shapes
  <2>3. PinsArePreserved' BY <1>6 DEF PinsArePreserved, Offer, Shapes, SourceIsOf, Preserved
  <2>4. TreeIsLocked' BY <1>6 DEF TreeIsLocked, Offer, Shapes, SourceIsOf
  <2>5. LockIsKept' BY <1>6 DEF LockIsKept, Offer, Shapes, SourceIsOf
  <2>6. ProgramIsKept' BY <1>6 DEF ProgramIsKept, Offer, Shapes, SourceIsOf
  <2>7. CaptureIsPrepared' BY <1>6 DEF CaptureIsPrepared, Offer, Shapes, SourceIsOf
  <2> QED BY <2>1, <2>2, <2>3, <2>4, <2>5, <2>6, <2>7
<1>7. CASE OpenStage
  <2>1. Shapes' BY <1>7 DEF Shapes, OpenStage
  <2>2. SourceIsOf' BY <1>7 DEF SourceIsOf, OpenStage, Shapes
  <2>3. PinsArePreserved' BY <1>7 DEF PinsArePreserved, OpenStage, Shapes, SourceIsOf, Preserved
  <2>4. TreeIsLocked' BY <1>7 DEF TreeIsLocked, OpenStage, Shapes, SourceIsOf
  <2>5. LockIsKept' BY <1>7 DEF LockIsKept, OpenStage, Shapes, SourceIsOf, PinsArePreserved
  <2>6. ProgramIsKept' BY <1>7 DEF ProgramIsKept, OpenStage, Shapes, SourceIsOf
  <2>7. CaptureIsPrepared' BY <1>7 DEF CaptureIsPrepared, OpenStage, Shapes, SourceIsOf
  <2> QED BY <2>1, <2>2, <2>3, <2>4, <2>5, <2>6, <2>7
<1>8. CASE Snapshot
  <2>1. Shapes' BY <1>8 DEF Shapes, Snapshot
  <2>2. SourceIsOf' BY <1>8 DEF SourceIsOf, Snapshot, Shapes
  <2>3. PinsArePreserved' BY <1>8 DEF PinsArePreserved, Snapshot, Shapes, SourceIsOf, Preserved
  <2>4. TreeIsLocked' BY <1>8 DEF TreeIsLocked, Snapshot, Shapes, SourceIsOf
  <2>5. LockIsKept' BY <1>8 DEF LockIsKept, Snapshot, Shapes, SourceIsOf
  <2>6. ProgramIsKept' BY <1>8 DEF ProgramIsKept, Snapshot, Shapes, SourceIsOf
  <2>7. CaptureIsPrepared' BY <1>8 DEF CaptureIsPrepared, Snapshot, Shapes, SourceIsOf
  <2> QED BY <2>1, <2>2, <2>3, <2>4, <2>5, <2>6, <2>7
<1>9. CASE SnapshotLock
  <2>1. Shapes' BY <1>9 DEF Shapes, SnapshotLock
  <2>2. SourceIsOf' BY <1>9 DEF SourceIsOf, SnapshotLock, Shapes
  <2>3. PinsArePreserved' BY <1>9 DEF PinsArePreserved, SnapshotLock, Shapes, SourceIsOf, Preserved
  <2>4. TreeIsLocked' BY <1>9 DEF TreeIsLocked, SnapshotLock, Shapes, SourceIsOf
  <2>5. LockIsKept' BY <1>9 DEF LockIsKept, SnapshotLock, Shapes, SourceIsOf
  <2>6. ProgramIsKept' BY <1>9 DEF ProgramIsKept, SnapshotLock, Shapes, SourceIsOf
  <2>7. CaptureIsPrepared' BY <1>9 DEF CaptureIsPrepared, SnapshotLock, Shapes, SourceIsOf
  <2> QED BY <2>1, <2>2, <2>3, <2>4, <2>5, <2>6, <2>7
<1>10. CASE Identify
  <2>1. Shapes' BY <1>10 DEF Shapes, Identify
  <2>2. SourceIsOf' BY <1>10 DEF SourceIsOf, Identify, Shapes
  <2>3. PinsArePreserved' BY <1>10 DEF PinsArePreserved, Identify, Shapes, SourceIsOf, Preserved
  <2>4. TreeIsLocked' BY <1>10 DEF TreeIsLocked, Identify, Shapes, SourceIsOf
  <2>5. LockIsKept' BY <1>10 DEF LockIsKept, Identify, Shapes, SourceIsOf
  <2>6. ProgramIsKept' BY <1>10 DEF ProgramIsKept, Identify, Shapes, SourceIsOf
  <2>7. CaptureIsPrepared' BY <1>10 DEF CaptureIsPrepared, Identify, Shapes, SourceIsOf
  <2> QED BY <2>1, <2>2, <2>3, <2>4, <2>5, <2>6, <2>7
<1>11. CASE CheckVersion
  <2>1. Shapes' BY <1>11 DEF Shapes, CheckVersion
  <2>2. SourceIsOf' BY <1>11 DEF SourceIsOf, CheckVersion, Shapes
  <2>3. PinsArePreserved' BY <1>11 DEF PinsArePreserved, CheckVersion, Shapes, SourceIsOf, Preserved
  <2>4. TreeIsLocked' BY <1>11 DEF TreeIsLocked, CheckVersion, Shapes, SourceIsOf
  <2>5. LockIsKept' BY <1>11 DEF LockIsKept, CheckVersion, Shapes, SourceIsOf
  <2>6. ProgramIsKept' BY <1>11 DEF ProgramIsKept, CheckVersion, Shapes, SourceIsOf
  <2>7. CaptureIsPrepared' BY <1>11 DEF CaptureIsPrepared, CheckVersion, Shapes, SourceIsOf
  <2> QED BY <2>1, <2>2, <2>3, <2>4, <2>5, <2>6, <2>7
<1>12. CASE RunApm
  <2>1. Shapes' BY <1>12 DEF Shapes, RunApm, Installed
  <2>2. SourceIsOf' BY <1>12 DEF SourceIsOf, RunApm, Shapes, Installed
  <2>3. PinsArePreserved' BY <1>12 DEF PinsArePreserved, RunApm, Shapes, SourceIsOf, Installed, Preserved
  <2>4. TreeIsLocked' BY <1>12 DEF TreeIsLocked, RunApm, Shapes, SourceIsOf, Installed
  <2>5. LockIsKept' BY <1>12 DEF LockIsKept, RunApm, Shapes, SourceIsOf, Installed
  <2>6. ProgramIsKept' BY <1>12 DEF ProgramIsKept, RunApm, Shapes, SourceIsOf, Installed
  <2>7. CaptureIsPrepared' BY <1>12 DEF CaptureIsPrepared, RunApm, Shapes, SourceIsOf, Installed
  <2> QED BY <2>1, <2>2, <2>3, <2>4, <2>5, <2>6, <2>7
<1>13. CASE ConfirmIdentity
  <2>1. Shapes' BY <1>13 DEF Shapes, ConfirmIdentity
  <2>2. SourceIsOf' BY <1>13 DEF SourceIsOf, ConfirmIdentity, Shapes
  <2>3. PinsArePreserved' BY <1>13 DEF PinsArePreserved, ConfirmIdentity, Shapes, SourceIsOf, Preserved
  <2>4. TreeIsLocked' BY <1>13 DEF TreeIsLocked, ConfirmIdentity, Shapes, SourceIsOf
  <2>5. LockIsKept' BY <1>13 DEF LockIsKept, ConfirmIdentity, Shapes, SourceIsOf
  <2>6. ProgramIsKept' BY <1>13 DEF ProgramIsKept, ConfirmIdentity, Shapes, SourceIsOf
  <2>7. CaptureIsPrepared' BY <1>13 DEF CaptureIsPrepared, ConfirmIdentity, Shapes, SourceIsOf
  <2> QED BY <2>1, <2>2, <2>3, <2>4, <2>5, <2>6, <2>7
<1>14. CASE CheckPins
  <2>1. Shapes' BY <1>14 DEF Shapes, CheckPins, Preserved
  <2>2. SourceIsOf' BY <1>14 DEF SourceIsOf, CheckPins, Shapes, Preserved
  <2>3. PinsArePreserved' BY <1>14 DEF PinsArePreserved, CheckPins, Shapes, SourceIsOf, Preserved
  <2>4. TreeIsLocked' BY <1>14 DEF TreeIsLocked, CheckPins, Shapes, SourceIsOf, Preserved
  <2>5. LockIsKept' BY <1>14 DEF LockIsKept, CheckPins, Shapes, SourceIsOf, Preserved
  <2>6. ProgramIsKept' BY <1>14 DEF ProgramIsKept, CheckPins, Shapes, SourceIsOf, Preserved
  <2>7. CaptureIsPrepared' BY <1>14 DEF CaptureIsPrepared, CheckPins, Shapes, SourceIsOf, Preserved
  <2> QED BY <2>1, <2>2, <2>3, <2>4, <2>5, <2>6, <2>7
<1>15. CASE Recheck
  <2>1. Shapes' BY <1>15 DEF Shapes, Recheck, Consumer
  <2>2. SourceIsOf' BY <1>15 DEF SourceIsOf, Recheck, Shapes, Consumer
  <2>3. PinsArePreserved' BY <1>15 DEF PinsArePreserved, Recheck, Shapes, SourceIsOf, Consumer, Preserved
  <2>4. TreeIsLocked' BY <1>15 DEF TreeIsLocked, Recheck, Shapes, SourceIsOf, Consumer
  <2>5. LockIsKept' BY <1>15 DEF LockIsKept, Recheck, Shapes, SourceIsOf, Consumer
  <2>6. ProgramIsKept' BY <1>15 DEF ProgramIsKept, Recheck, Shapes, SourceIsOf, Consumer
  <2>7. CaptureIsPrepared' BY <1>15 DEF CaptureIsPrepared, Recheck, Shapes, SourceIsOf, Consumer
  <2> QED BY <2>1, <2>2, <2>3, <2>4, <2>5, <2>6, <2>7
<1>16. CASE SelectStaged
  <2>1. Shapes' BY <1>16 DEF Shapes, SelectStaged, Selected, Verified
  <2>2. SourceIsOf' BY <1>16 DEF SourceIsOf, SelectStaged, Shapes, Selected, Verified
  <2>3. PinsArePreserved' BY <1>16 DEF PinsArePreserved, SelectStaged, Shapes, SourceIsOf, Selected, Verified, Preserved
  <2>4. TreeIsLocked' BY <1>16 DEF TreeIsLocked, SelectStaged, Shapes, SourceIsOf, Selected, Verified
  <2>5. LockIsKept' BY <1>16 DEF LockIsKept, SelectStaged, Shapes, SourceIsOf, Selected, Verified
  <2>6. ProgramIsKept' BY <1>16 DEF ProgramIsKept, SelectStaged, Shapes, SourceIsOf, Selected, Verified
  <2>7. CaptureIsPrepared' BY <1>16 DEF CaptureIsPrepared, SelectStaged, Shapes, SourceIsOf, Selected, Verified
  <2> QED BY <2>1, <2>2, <2>3, <2>4, <2>5, <2>6, <2>7
<1>17. CASE Bind
  <2>1. Shapes' BY <1>17 DEF Shapes, Bind
  <2>2. SourceIsOf' BY <1>17 DEF SourceIsOf, Bind, Shapes
  <2>3. PinsArePreserved' BY <1>17 DEF PinsArePreserved, Bind, Shapes, SourceIsOf, Preserved
  <2>4. TreeIsLocked' BY <1>17 DEF TreeIsLocked, Bind, Shapes, SourceIsOf
  <2>5. LockIsKept' BY <1>17 DEF LockIsKept, Bind, Shapes, SourceIsOf
  <2>6. ProgramIsKept' BY <1>17 DEF ProgramIsKept, Bind, Shapes, SourceIsOf
  <2>7. CaptureIsPrepared' BY <1>17 DEF CaptureIsPrepared, Bind, Shapes, SourceIsOf
  <2> QED BY <2>1, <2>2, <2>3, <2>4, <2>5, <2>6, <2>7
<1>18. CASE AdmitRoot
  <2>1. Shapes' BY <1>18 DEF Shapes, AdmitRoot
  <2>2. SourceIsOf' BY <1>18 DEF SourceIsOf, AdmitRoot, Shapes
  <2>3. PinsArePreserved' BY <1>18 DEF PinsArePreserved, AdmitRoot, Shapes, SourceIsOf, Preserved
  <2>4. TreeIsLocked' BY <1>18 DEF TreeIsLocked, AdmitRoot, Shapes, SourceIsOf
  <2>5. LockIsKept' BY <1>18 DEF LockIsKept, AdmitRoot, Shapes, SourceIsOf
  <2>6. ProgramIsKept' BY <1>18 DEF ProgramIsKept, AdmitRoot, Shapes, SourceIsOf
  <2>7. CaptureIsPrepared' BY <1>18 DEF CaptureIsPrepared, AdmitRoot, Shapes, SourceIsOf
  <2> QED BY <2>1, <2>2, <2>3, <2>4, <2>5, <2>6, <2>7
<1>19. CASE ResolveFactory
  <2>1. Shapes' BY <1>19 DEF Shapes, ResolveFactory
  <2>2. SourceIsOf' BY <1>19 DEF SourceIsOf, ResolveFactory, Shapes
  <2>3. PinsArePreserved' BY <1>19 DEF PinsArePreserved, ResolveFactory, Shapes, SourceIsOf, Preserved
  <2>4. TreeIsLocked' BY <1>19 DEF TreeIsLocked, ResolveFactory, Shapes, SourceIsOf
  <2>5. LockIsKept' BY <1>19 DEF LockIsKept, ResolveFactory, Shapes, SourceIsOf
  <2>6. ProgramIsKept' BY <1>19 DEF ProgramIsKept, ResolveFactory, Shapes, SourceIsOf
  <2>7. CaptureIsPrepared' BY <1>19 DEF CaptureIsPrepared, ResolveFactory, Shapes, SourceIsOf
  <2> QED BY <2>1, <2>2, <2>3, <2>4, <2>5, <2>6, <2>7
<1>20. CASE Confirm
  <2>1. Shapes' BY <1>20 DEF Shapes, Confirm
  <2>2. SourceIsOf' BY <1>20 DEF SourceIsOf, Confirm, Shapes
  <2>3. PinsArePreserved' BY <1>20 DEF PinsArePreserved, Confirm, Shapes, SourceIsOf, Preserved
  <2>4. TreeIsLocked' BY <1>20 DEF TreeIsLocked, Confirm, Shapes, SourceIsOf
  <2>5. LockIsKept' BY <1>20 DEF LockIsKept, Confirm, Shapes, SourceIsOf
  <2>6. ProgramIsKept' BY <1>20 DEF ProgramIsKept, Confirm, Shapes, SourceIsOf
  <2>7. CaptureIsPrepared' BY <1>20 DEF CaptureIsPrepared, Confirm, Shapes, SourceIsOf
  <2> QED BY <2>1, <2>2, <2>3, <2>4, <2>5, <2>6, <2>7
<1>21. CASE ResolveAgain
  <2>1. Shapes' BY <1>21 DEF Shapes, ResolveAgain
  <2>2. SourceIsOf' BY <1>21 DEF SourceIsOf, ResolveAgain, Shapes
  <2>3. PinsArePreserved' BY <1>21 DEF PinsArePreserved, ResolveAgain, Shapes, SourceIsOf, Preserved
  <2>4. TreeIsLocked' BY <1>21 DEF TreeIsLocked, ResolveAgain, Shapes, SourceIsOf
  <2>5. LockIsKept' BY <1>21 DEF LockIsKept, ResolveAgain, Shapes, SourceIsOf
  <2>6. ProgramIsKept' BY <1>21 DEF ProgramIsKept, ResolveAgain, Shapes, SourceIsOf
  <2>7. CaptureIsPrepared' BY <1>21 DEF CaptureIsPrepared, ResolveAgain, Shapes, SourceIsOf
  <2> QED BY <2>1, <2>2, <2>3, <2>4, <2>5, <2>6, <2>7
<1>22. CASE CheckConsent
  <2>1. Shapes' BY <1>22 DEF Shapes, CheckConsent
  <2>2. SourceIsOf' BY <1>22 DEF SourceIsOf, CheckConsent, Shapes
  <2>3. PinsArePreserved' BY <1>22 DEF PinsArePreserved, CheckConsent, Shapes, SourceIsOf, Preserved
  <2>4. TreeIsLocked' BY <1>22 DEF TreeIsLocked, CheckConsent, Shapes, SourceIsOf
  <2>5. LockIsKept' BY <1>22 DEF LockIsKept, CheckConsent, Shapes, SourceIsOf
  <2>6. ProgramIsKept' BY <1>22 DEF ProgramIsKept, CheckConsent, Shapes, SourceIsOf
  <2>7. CaptureIsPrepared' BY <1>22 DEF CaptureIsPrepared, CheckConsent, Shapes, SourceIsOf
  <2> QED BY <2>1, <2>2, <2>3, <2>4, <2>5, <2>6, <2>7
<1>23. CASE PrepareImports
  <2>1. Shapes' BY <1>23 DEF Shapes, PrepareImports
  <2>2. SourceIsOf' BY <1>23 DEF SourceIsOf, PrepareImports, Shapes
  <2>3. PinsArePreserved' BY <1>23 DEF PinsArePreserved, PrepareImports, Shapes, SourceIsOf, Preserved
  <2>4. TreeIsLocked' BY <1>23 DEF TreeIsLocked, PrepareImports, Shapes, SourceIsOf
  <2>5. LockIsKept' BY <1>23 DEF LockIsKept, PrepareImports, Shapes, SourceIsOf
  <2>6. ProgramIsKept' BY <1>23 DEF ProgramIsKept, PrepareImports, Shapes, SourceIsOf
  <2>7. CaptureIsPrepared' BY <1>23 DEF CaptureIsPrepared, PrepareImports, Shapes, SourceIsOf
  <2> QED BY <2>1, <2>2, <2>3, <2>4, <2>5, <2>6, <2>7
<1>24. CASE CompareImports
  <2>1. Shapes' BY <1>24 DEF Shapes, CompareImports
  <2>2. SourceIsOf' BY <1>24 DEF SourceIsOf, CompareImports, Shapes
  <2>3. PinsArePreserved' BY <1>24 DEF PinsArePreserved, CompareImports, Shapes, SourceIsOf, Preserved
  <2>4. TreeIsLocked' BY <1>24 DEF TreeIsLocked, CompareImports, Shapes, SourceIsOf
  <2>5. LockIsKept' BY <1>24 DEF LockIsKept, CompareImports, Shapes, SourceIsOf
  <2>6. ProgramIsKept' BY <1>24 DEF ProgramIsKept, CompareImports, Shapes, SourceIsOf
  <2>7. CaptureIsPrepared' BY <1>24 DEF CaptureIsPrepared, CompareImports, Shapes, SourceIsOf
  <2> QED BY <2>1, <2>2, <2>3, <2>4, <2>5, <2>6, <2>7
<1>25. CASE Plan
  <2>1. Shapes' BY <1>25 DEF Shapes, Plan
  <2>2. SourceIsOf' BY <1>25 DEF SourceIsOf, Plan, Shapes
  <2>3. PinsArePreserved' BY <1>25 DEF PinsArePreserved, Plan, Shapes, SourceIsOf, Preserved
  <2>4. TreeIsLocked' BY <1>25 DEF TreeIsLocked, Plan, Shapes, SourceIsOf
  <2>5. LockIsKept' BY <1>25 DEF LockIsKept, Plan, Shapes, SourceIsOf
  <2>6. ProgramIsKept' BY <1>25 DEF ProgramIsKept, Plan, Shapes, SourceIsOf
  <2>7. CaptureIsPrepared' BY <1>25 DEF CaptureIsPrepared, Plan, Shapes, SourceIsOf
  <2> QED BY <2>1, <2>2, <2>3, <2>4, <2>5, <2>6, <2>7
<1>26. CASE Inspect
  <2>1. Shapes' BY <1>26 DEF Shapes, Inspect, Unchanged, Tree
  <2>2. SourceIsOf' BY <1>26 DEF SourceIsOf, Inspect, Shapes, Unchanged, Tree
  <2>3. PinsArePreserved' BY <1>26 DEF PinsArePreserved, Inspect, Shapes, SourceIsOf, Unchanged, Tree, Preserved
  <2>4. TreeIsLocked' BY <1>26 DEF TreeIsLocked, Inspect, Shapes, SourceIsOf, Unchanged, Tree
  <2>5. LockIsKept' BY <1>26 DEF LockIsKept, Inspect, Shapes, SourceIsOf, Unchanged, Tree
  <2>6. ProgramIsKept' BY <1>26 DEF ProgramIsKept, Inspect, Shapes, SourceIsOf, Unchanged, Tree
  <2>7. CaptureIsPrepared' BY <1>26 DEF CaptureIsPrepared, Inspect, Shapes, SourceIsOf, Unchanged, Tree
  <2> QED BY <2>1, <2>2, <2>3, <2>4, <2>5, <2>6, <2>7
<1>27. CASE CaptureSource
  <2>1. Shapes' BY <1>27 DEF Shapes, CaptureSource, Tree
  <2>2. SourceIsOf' BY <1>27 DEF SourceIsOf, CaptureSource, Shapes, Tree
  <2>3. PinsArePreserved' BY <1>27 DEF PinsArePreserved, CaptureSource, Shapes, SourceIsOf, Tree, Preserved
  <2>4. TreeIsLocked' BY <1>27 DEF TreeIsLocked, CaptureSource, Shapes, SourceIsOf, Tree
  <2>5. LockIsKept' BY <1>27 DEF LockIsKept, CaptureSource, Shapes, SourceIsOf, Tree
  <2>6. ProgramIsKept' BY <1>27 DEF ProgramIsKept, CaptureSource, Shapes, SourceIsOf, Tree
  <2>7. CaptureIsPrepared' BY <1>27 DEF CaptureIsPrepared, CaptureSource, Shapes, SourceIsOf, Tree
  <2> QED BY <2>1, <2>2, <2>3, <2>4, <2>5, <2>6, <2>7
<1>28. CASE ValidateAgain
  <2>1. Shapes' BY <1>28 DEF Shapes, ValidateAgain, Unchanged, Tree
  <2>2. SourceIsOf' BY <1>28 DEF SourceIsOf, ValidateAgain, Shapes, Unchanged, Tree
  <2>3. PinsArePreserved' BY <1>28 DEF PinsArePreserved, ValidateAgain, Shapes, SourceIsOf, Unchanged, Tree, Preserved
  <2>4. TreeIsLocked' BY <1>28 DEF TreeIsLocked, ValidateAgain, Shapes, SourceIsOf, Unchanged, Tree
  <2>5. LockIsKept' BY <1>28 DEF LockIsKept, ValidateAgain, Shapes, SourceIsOf, Unchanged, Tree
  <2>6. ProgramIsKept' BY <1>28 DEF ProgramIsKept, ValidateAgain, Shapes, SourceIsOf, Unchanged, Tree
  <2>7. CaptureIsPrepared' BY <1>28 DEF CaptureIsPrepared, ValidateAgain, Shapes, SourceIsOf, Unchanged, Tree
  <2> QED BY <2>1, <2>2, <2>3, <2>4, <2>5, <2>6, <2>7
<1>29. CASE Fail
  <2>1. Shapes' BY <1>29 DEF Shapes, Fail
  <2>2. SourceIsOf' BY <1>29 DEF SourceIsOf, Fail, Shapes
  <2>3. PinsArePreserved' BY <1>29 DEF PinsArePreserved, Fail, Shapes, SourceIsOf, Preserved
  <2>4. TreeIsLocked' BY <1>29 DEF TreeIsLocked, Fail, Shapes, SourceIsOf
  <2>5. LockIsKept' BY <1>29 DEF LockIsKept, Fail, Shapes, SourceIsOf
  <2>6. ProgramIsKept' BY <1>29 DEF ProgramIsKept, Fail, Shapes, SourceIsOf
  <2>7. CaptureIsPrepared' BY <1>29 DEF CaptureIsPrepared, Fail, Shapes, SourceIsOf
  <2> QED BY <2>1, <2>2, <2>3, <2>4, <2>5, <2>6, <2>7
<1>30. CASE Edit
  <2>1. Shapes' BY <1>30 DEF Shapes, Edit
  <2>2. SourceIsOf' BY <1>30 DEF SourceIsOf, Edit, Shapes
  <2>3. PinsArePreserved' BY <1>30 DEF PinsArePreserved, Edit, Shapes, SourceIsOf, Preserved
  <2>4. TreeIsLocked' BY <1>30 DEF TreeIsLocked, Edit, Shapes, SourceIsOf
  <2>5. LockIsKept' BY <1>30 DEF LockIsKept, Edit, Shapes, SourceIsOf
  <2>6. ProgramIsKept' BY <1>30 DEF ProgramIsKept, Edit, Shapes, SourceIsOf
  <2>7. CaptureIsPrepared' BY <1>30 DEF CaptureIsPrepared, Edit, Shapes, SourceIsOf
  <2> QED BY <2>1, <2>2, <2>3, <2>4, <2>5, <2>6, <2>7
<1>31. CASE EditStage
  <2>1. Shapes' BY <1>31 DEF Shapes, EditStage
  <2>2. SourceIsOf' BY <1>31 DEF SourceIsOf, EditStage, Shapes
  <2>3. PinsArePreserved' BY <1>31 DEF PinsArePreserved, EditStage, Shapes, SourceIsOf, Preserved
  <2>4. TreeIsLocked' BY <1>31 DEF TreeIsLocked, EditStage, Shapes, SourceIsOf
  <2>5. LockIsKept' BY <1>31 DEF LockIsKept, EditStage, Shapes, SourceIsOf
  <2>6. ProgramIsKept' BY <1>31 DEF ProgramIsKept, EditStage, Shapes, SourceIsOf
  <2>7. CaptureIsPrepared' BY <1>31 DEF CaptureIsPrepared, EditStage, Shapes, SourceIsOf
  <2> QED BY <2>1, <2>2, <2>3, <2>4, <2>5, <2>6, <2>7
<1> QED BY <1>1, <1>2, <1>3, <1>4, <1>5, <1>6, <1>7, <1>8, <1>9, <1>10, <1>11, <1>12, <1>13, <1>14, <1>15, <1>16, <1>17, <1>18, <1>19, <1>20, <1>21, <1>22, <1>23, <1>24, <1>25, <1>26, <1>27, <1>28, <1>29, <1>30, <1>31 DEF SupplyNext

\* Nothing but the preparation writes what it prepares
LEMMA OnlyPrepare ==
  ASSUME CommandNext, ~Prepare
  PROVE  UNCHANGED prepared
<1> USE DEF prepared, supplyVars
<1>1. CASE Refused BY <1>1 DEF Refused
<1>2. CASE Preview BY <1>2 DEF Preview
<1>3. CASE Perform BY <1>3 DEF Perform
<1>4. CASE Close BY <1>4 DEF Close
<1>5. CASE Leave("imports") \/ Leave("source") BY <1>5 DEF Leave
<1>6. CASE EndPreview BY <1>6 DEF EndPreview
<1>7. CASE Unavailable BY <1>7 DEF Unavailable
<1>8. CASE RecordStop BY <1>8 DEF RecordStop
<1>9. CASE Report BY <1>9 DEF Report
<1>10. CASE Continue BY <1>10 DEF Continue
<1>11. CASE Die BY <1>11 DEF Die
<1> QED BY <1>1, <1>2, <1>3, <1>4, <1>5, <1>6, <1>7, <1>8, <1>9, <1>10, <1>11 DEF CommandNext

\* The pin of a package holds from the first look at the lock to the bytes the run will
\* use (prepare_contract_source, require_preserved_pins, _selected_source, _run_backend,
\* _capture_mapping).
THEOREM PinHolds == CommandSpec => []PinHoldsAcrossSteps
<1>1. CommandInit => PinInv BY PinInit DEF CommandInit
<1>2. PinInv /\ [CommandNext]_commandVars => PinInv'
  <2> SUFFICES ASSUME PinInv, [CommandNext]_commandVars PROVE PinInv' OBVIOUS
  <2>1. CASE Prepare BY <2>1, PinStep DEF Prepare
  <2>2. CASE UNCHANGED prepared
    BY <2>2 DEF prepared, kept, work, others, PinInv, Shapes, SourceIsOf, PinsArePreserved,
                TreeIsLocked, LockIsKept, ProgramIsKept, CaptureIsPrepared, ForPackage, Moved,
                Identified
  <2>3. CASE UNCHANGED commandVars BY <2>2, <2>3 DEF commandVars, supplyVars, prepared
  <2> QED BY <2>1, <2>2, <2>3, OnlyPrepare
<1>3. PinInv => PinHoldsAcrossSteps BY PinsHold
<1> QED BY <1>1, <1>2, <1>3, PTL DEF CommandSpec

-----------------------------------------------------------------------------
(* Induction: the theorem on well-founded relations without an operator *)

LEMMA Least ==
  ASSUME NEW T, T \subseteq Nat, T # {}
  PROVE  \E n \in T : \A m \in T : n <= m
<1> DEFINE R == OpToRel(<, Nat)
<1>1. IsWellFoundedOn(R, Nat) BY NatLessThanWellFounded
<1>2. \A x, y \in Nat : x < y => <<x, y>> \in R BY DEF OpToRel
<1> HIDE DEF R
<1>3. PICK n \in T : \A m \in T : ~ (<<m, n>> \in R) BY <1>1, WFMin
<1>4. ASSUME NEW m \in T PROVE n <= m
  <2>1. ~ (<<m, n>> \in R) /\ m \in Nat /\ n \in Nat BY <1>3
  <2>2. ~ (m < n) BY <2>1, <1>2
  <2> QED BY <2>1, <2>2
<1> QED BY <1>4

LEMMA Induct ==
  ASSUME NEW S, 0 \in S, \A n \in Nat : n \in S => n + 1 \in S
  PROVE  Nat \subseteq S
<1> SUFFICES ASSUME Nat \ S # {} PROVE FALSE OBVIOUS
<1>1. PICK n \in Nat \ S : \A m \in Nat \ S : n <= m BY Least
<1>2. n - 1 \in Nat /\ n - 1 \notin Nat \ S BY <1>1
<1> QED BY <1>1, <1>2

-----------------------------------------------------------------------------
(* The search is the iteration of Visit *)

LEMMA SearchIsIteration ==
  ASSUME NEW catalog, NEW files, NEW start
  PROVE  /\ Search(catalog, files, start)[0] = start
         /\ \A k \in Nat : Search(catalog, files, start)[k + 1] =
                             Visit(catalog, files, Search(catalog, files, start)[k])
<1> DEFINE V(s) == Visit(catalog, files, s)
           Is(f, numbers) == f = [k \in numbers |-> IF k = 0 THEN start ELSE V(f[k - 1])]
           upTo(n) == CHOOSE f : Is(f, 0 .. n)
           S == {n \in Nat : Is(upTo(n), 0 .. n)}
<1> HIDE DEF V
<1>1. 0 \in S
  <2>1. Is([k \in 0 .. 0 |-> start], 0 .. 0) OBVIOUS
  <2> QED BY <2>1
<1>2. ASSUME NEW n \in Nat, n \in S PROVE n + 1 \in S
  <2> DEFINE g == upTo(n)
             h == [k \in 0 .. n + 1 |-> IF k <= n THEN g[k] ELSE V(g[n])]
  <2>1. Is(g, 0 .. n) BY <1>2
  <2> HIDE DEF g
  <2>2. \A k \in 0 .. n : g[k] = IF k = 0 THEN start ELSE V(g[k - 1]) BY <2>1
  <2>3. \A k \in 0 .. n + 1 : h[k] = IF k = 0 THEN start ELSE V(h[k - 1]) BY <2>2
  <2>4. Is(h, 0 .. n + 1)
    <3>1. h = [k \in 0 .. n + 1 |-> h[k]] OBVIOUS
    <3> HIDE DEF h
    <3> QED BY <2>3, <3>1
  <2> HIDE DEF h, Is
  <2> QED BY <2>4
<1>3. Nat \subseteq S BY <1>1, <1>2, Induct
<1>4. \A n \in Nat : \A k \in 0 .. n : upTo(n)[k] = IF k = 0 THEN start ELSE V(upTo(n)[k - 1])
  <2> SUFFICES ASSUME NEW n \in Nat
               PROVE  \A k \in 0 .. n : upTo(n)[k] = IF k = 0 THEN start ELSE V(upTo(n)[k - 1])
    OBVIOUS
  <2>1. Is(upTo(n), 0 .. n) BY <1>3
  <2> HIDE DEF upTo
  <2> QED BY <2>1
<1> HIDE DEF upTo, S
\* two of them agree where both are
<1>5. \A n \in Nat : upTo(n)[n] = upTo(n + 1)[n]
  <2> SUFFICES ASSUME NEW n \in Nat PROVE upTo(n)[n] = upTo(n + 1)[n] OBVIOUS
  <2> DEFINE A == {k \in Nat : k <= n => upTo(n)[k] = upTo(n + 1)[k]}
  <2>1. 0 \in A BY <1>4
  <2>2. ASSUME NEW k \in Nat, k \in A PROVE k + 1 \in A
    <3> SUFFICES ASSUME k + 1 <= n PROVE upTo(n)[k + 1] = upTo(n + 1)[k + 1] OBVIOUS
    <3>1. upTo(n)[k] = upTo(n + 1)[k] BY <2>2
    <3>2. upTo(n)[k + 1] = V(upTo(n)[k])
      <4>1. k + 1 \in 0 .. n /\ k + 1 # 0 /\ k + 1 - 1 = k OBVIOUS
      <4> QED BY <4>1, <1>4
    <3>3. upTo(n + 1)[k + 1] = V(upTo(n + 1)[k])
      <4>1. k + 1 \in 0 .. n + 1 /\ k + 1 # 0 /\ k + 1 - 1 = k /\ n + 1 \in Nat OBVIOUS
      <4> QED BY <4>1, <1>4
    <3> QED BY <3>1, <3>2, <3>3
  <2>3. Nat \subseteq A BY <2>1, <2>2, Induct
  <2> QED BY <2>3
<1> DEFINE all == [k \in Nat |-> upTo(k)[k]]
<1>6. \A k \in Nat : all[k] = IF k = 0 THEN start ELSE V(all[k - 1])
  <2> SUFFICES ASSUME NEW k \in Nat PROVE upTo(k)[k] = IF k = 0 THEN start ELSE V(all[k - 1]) OBVIOUS
  <2>1. CASE k = 0 BY <2>1, <1>4
  <2>2. CASE k # 0
    <3>1. k - 1 \in Nat /\ k - 1 + 1 = k /\ k \in 0 .. k BY <2>2
    <3>2. upTo(k)[k] = V(upTo(k)[k - 1]) BY <3>1, <2>2, <1>4
    <3>3. upTo(k - 1)[k - 1] = upTo(k)[k - 1] BY <3>1, <1>5
    <3> QED BY <2>2, <3>1, <3>2, <3>3
  <2> QED BY <2>1, <2>2
<1> HIDE DEF all
<1>7. Is(all, Nat)
  <2>1. all = [k \in Nat |-> all[k]] BY DEF all
  <2> QED BY <1>6, <2>1
<1> DEFINE found == CHOOSE f : Is(f, Nat)
<1>8. Is(found, Nat)
  <2> HIDE DEF Is
  <2> QED BY <1>7
<1>9. Search(catalog, files, start) = found BY DEF Search, V
<1> HIDE DEF found
<1>10. \A k \in Nat : found[k] = IF k = 0 THEN start ELSE V(found[k - 1]) BY <1>8
<1>11. found[0] = start BY <1>10
<1>12. \A k \in Nat : found[k + 1] = V(found[k])
  <2> TAKE k \in Nat
  <2>1. k + 1 \in Nat /\ k + 1 # 0 /\ k + 1 - 1 = k OBVIOUS
  <2> QED BY <2>1, <1>10
<1> QED BY <1>9, <1>11, <1>12 DEF V

-----------------------------------------------------------------------------
(* One step of the search *)

Names == Range(Sorting)

LEMMA FirstIs ==
  ASSUME NEW some, some \subseteq Nat, some # {}
  PROVE  First(some) \in some
BY Least DEF First

LEMMA NextNeedIs ==
  ASSUME NEW needs, needs \subseteq Names, needs # {}, Sorting \in Seq(Names)
  PROVE  NextNeed(needs) \in needs
<1> DEFINE places == {i \in DOMAIN Sorting : Sorting[i] \in needs}
<1>1. places \subseteq Nat OBVIOUS
<1>2. places # {}
  <2>1. PICK n \in needs : TRUE OBVIOUS
  <2>2. n \in Range(Sorting) BY <2>1 DEF Names
  <2>3. \E i \in DOMAIN Sorting : Sorting[i] = n BY <2>2 DEF Range
  <2> QED BY <2>1, <2>3
<1>3. First(places) \in places BY <1>1, <1>2, FirstIs
<1> QED BY <1>3 DEF NextNeed

\* The sequence without its last, and with another last
LEMMA FrontIs ==
  ASSUME NEW S, NEW q \in Seq(S), q # <<>>
  PROVE  /\ Front(q) \in Seq(S) /\ Len(Front(q)) = Len(q) - 1 /\ Len(q) \in Nat \ {0}
         /\ \A i \in 1 .. Len(q) - 1 : Front(q)[i] = q[i]
         /\ Last(q) = q[Len(q)] /\ q[Len(q)] \in S
<1>1. Len(q) \in Nat /\ Len(q) # 0 OBVIOUS
<1>2. Front(q) = SubSeq(q, 1, Len(q) - 1) BY DEF Front
<1>3. Front(q) = [i \in 1 .. Len(q) - 1 |-> q[i]] /\ Len(q) - 1 \in Nat BY <1>1, <1>2
<1>4. \A i \in 1 .. Len(q) : q[i] \in S OBVIOUS
<1>5. Front(q) \in Seq(S) /\ Len(Front(q)) = Len(q) - 1
  <2> DEFINE n == Len(q) - 1
  <2>1. n \in Nat /\ \A i \in 1 .. n : q[i] \in S BY <1>1, <1>4
  <2> HIDE DEF n
  <2>2. [i \in 1 .. n |-> q[i]] \in Seq(S) /\ Len([i \in 1 .. n |-> q[i]]) = n
    BY <2>1, IsASeq, LenProperties
  <2> QED BY <1>3, <2>2 DEF n
<1> QED BY <1>1, <1>3, <1>4, <1>5 DEF Last

LEMMA LastReplaced ==
  ASSUME NEW S, NEW q \in Seq(S), q # <<>>, NEW x \in S
  PROVE  /\ Append(Front(q), x) \in Seq(S) /\ Len(Append(Front(q), x)) = Len(q)
         /\ \A i \in 1 .. Len(q) - 1 : Append(Front(q), x)[i] = q[i]
         /\ Append(Front(q), x)[Len(q)] = x
<1>1. Front(q) \in Seq(S) /\ Len(Front(q)) = Len(q) - 1 /\ Len(q) \in Nat \ {0} BY FrontIs
<1>2. \A i \in 1 .. Len(q) - 1 : Front(q)[i] = q[i] BY FrontIs
<1> DEFINE f == Front(q)
           r == Append(f, x)
<1> HIDE DEF f
<1>3. f \in Seq(S) /\ Len(f) = Len(q) - 1 BY <1>1 DEF f
<1>4. Len(r) = Len(q) /\ r \in Seq(S) /\ r[Len(q)] = x /\ \A i \in 1 .. Len(q) - 1 : r[i] = f[i]
  BY <1>1, <1>3
<1> QED BY <1>2, <1>4 DEF f

Errors == {"none", "contract_cycle", "missing_input", "source_collision"}

EdgesOf(catalog) == SUBSET ((DOMAIN catalog) \X Names \X (DOMAIN catalog))

SearchTypes(catalog, s) ==
  s \in [walk    : [error : Errors, order : Seq(DOMAIN catalog), edges : EdgesOf(catalog)],
         calls   : Seq([contract : DOMAIN catalog, needs : SUBSET Names]),
         targets : SUBSET DOMAIN catalog, rest : SUBSET DOMAIN catalog]

\* The need has a source: a file of the caller, or a contract that was visited
Found(catalog, files, walk, c, n) ==
  IF Makers(catalog, n) = {} THEN n \in files
  ELSE \E p \in Makers(catalog, n) : /\ <<c, n, p>> \in walk.edges
                                     /\ n \in catalog[p].outputs /\ p \in Range(walk.order)

\* No contract is visited twice, nor called while it is
Once(s) ==
  /\ \A i, j \in DOMAIN s.walk.order : s.walk.order[i] = s.walk.order[j] => i = j
  /\ \A i, j \in DOMAIN s.calls : s.calls[i].contract = s.calls[j].contract => i = j
  /\ \A i \in DOMAIN s.calls, j \in DOMAIN s.walk.order :
       s.calls[i].contract # s.walk.order[j]

\* c makes what the innermost call needs next
Wanted(catalog, call, c) ==
  /\ call.needs # {}
  /\ c \in Makers(catalog, NextNeed(call.needs))
  /\ NextNeed(call.needs) \in catalog[c].outputs

\* Each call is for a need of the one before
Linked(catalog, s) ==
  \A i \in DOMAIN s.calls :
    /\ s.calls[i].needs \subseteq catalog[s.calls[i].contract].needs
    /\ i + 1 \in DOMAIN s.calls => Wanted(catalog, s.calls[i], s.calls[i + 1].contract)

\* What a contract in the order needs is found, and what a call has done
Settled(catalog, files, s) ==
  /\ \A j \in DOMAIN s.walk.order : \A n \in catalog[s.walk.order[j]].needs :
       Found(catalog, files, s.walk, s.walk.order[j], n)
  /\ \A i \in DOMAIN s.calls : \A n \in catalog[s.calls[i].contract].needs \ s.calls[i].needs :
       Found(catalog, files, s.walk, s.calls[i].contract, n)

\* The producers of what a contract needs come before it
Ordered(catalog, walk) ==
  \A i \in DOMAIN walk.order : \A n \in catalog[walk.order[i]].needs :
    \A p \in Makers(catalog, n) : \E j \in 1 .. i - 1 : walk.order[j] = p

EdgesAreMade(catalog, walk) == \A e \in walk.edges : e[3] \in Makers(catalog, e[2])

Unmade(catalog, files) ==
  \E c \in Range(catalog) : \E n \in c.needs : Makers(catalog, n) = {} /\ n \notin files

Misspelt(catalog) ==
  \E c \in Range(catalog) : \E n \in c.needs :
    Makers(catalog, n) # {} /\ \A d \in Range(catalog) : n \notin d.outputs

ErrorIsReal(catalog, files, walk) ==
  /\ walk.error = "contract_cycle" => Ring(catalog)
  /\ walk.error = "missing_input" => Unmade(catalog, files)
  /\ walk.error = "source_collision" => Misspelt(catalog)

SearchInv(catalog, files, s) ==
  /\ SearchTypes(catalog, s) /\ Once(s) /\ Linked(catalog, s) /\ Settled(catalog, files, s)
  /\ Ordered(catalog, s.walk) /\ EdgesAreMade(catalog, s.walk)
  /\ ErrorIsReal(catalog, files, s.walk)

LEMMA MakersAre ==
  ASSUME NEW catalog, NEW n
  PROVE  /\ Makers(catalog, n) \subseteq DOMAIN catalog
         /\ \A p \in DOMAIN catalog : n \in catalog[p].outputs => p \in Makers(catalog, n)
BY DEF Makers

LEMMA OneMaker ==
  ASSUME NEW catalog, IsCatalog(catalog), ~AmbiguousOutputs(catalog), NEW n,
         NEW p \in Makers(catalog, n), NEW q \in Makers(catalog, n)
  PROVE  p = q
<1>1. PICK o \in catalog[p].outputs : Folded(o) = Folded(n) BY DEF Makers
<1>2. PICK w \in catalog[q].outputs : Folded(w) = Folded(n) BY DEF Makers
<1>3. p \in DOMAIN catalog /\ q \in DOMAIN catalog BY MakersAre
<1>4. catalog[p] \in Range(catalog) /\ catalog[q] \in Range(catalog) BY <1>3 DEF Range
<1>5. o \in Range(Sorting) /\ w \in Range(Sorting) BY <1>1, <1>2, <1>4 DEF IsCatalog
<1>6. <<p, o>> \in Outputs(catalog) /\ <<q, w>> \in Outputs(catalog)
  BY <1>1, <1>2, <1>3, <1>5 DEF Outputs
<1>7. <<p, o>> = <<q, w>>
  <2>1. Folded(<<p, o>>[2]) = Folded(<<q, w>>[2]) BY <1>1, <1>2
  <2> QED BY <2>1, <1>6 DEF AmbiguousOutputs
<1> QED BY <1>7

LEMMA CallIs ==
  ASSUME NEW A, NEW B, NEW call \in [contract : A, needs : B], NEW x
  PROVE  [call EXCEPT !.needs = x] = [contract |-> call.contract, needs |-> x]
OBVIOUS

\* How a round of the loop changes the search
LEMMA AdvancedIs ==
  ASSUME NEW catalog, NEW s, SearchTypes(catalog, s), s.calls # <<>>,
         NEW edges \in EdgesOf(catalog),
         NEW t, t = Advanced(s, edges),
         NEW last, last = s.calls[Len(s.calls)]
  PROVE  /\ SearchTypes(catalog, t)
         /\ t.walk = [error |-> s.walk.error, order |-> s.walk.order,
                      edges |-> s.walk.edges \cup edges]
         /\ t.targets = s.targets /\ t.rest = s.rest
         /\ Len(t.calls) = Len(s.calls) /\ Len(s.calls) \in Nat \ {0}
         /\ \A i \in 1 .. Len(s.calls) - 1 : t.calls[i] = s.calls[i]
         /\ t.calls[Len(s.calls)] =
              [contract |-> last.contract, needs |-> last.needs \ {NextNeed(last.needs)}]
<1> DEFINE Frame == [contract : DOMAIN catalog, needs : SUBSET Names]
           done == [last EXCEPT !.needs = @ \ {NextNeed(@)}]
<1>1. s.calls \in Seq(Frame) BY DEF SearchTypes
<1>2. Last(s.calls) = last /\ last \in Frame /\ Len(s.calls) \in Nat \ {0} BY <1>1, FrontIs
<1>3. done = [contract |-> last.contract, needs |-> last.needs \ {NextNeed(last.needs)}]
  <2> DEFINE left == last.needs \ {NextNeed(last.needs)}
  <2>1. last \in [contract : DOMAIN catalog, needs : SUBSET Names] BY <1>2
  <2>2. \A x : [last EXCEPT !.needs = x] = [contract |-> last.contract, needs |-> x]
    BY <2>1, CallIs
  <2> HIDE DEF left
  <2>3. [last EXCEPT !.needs = left] = [contract |-> last.contract, needs |-> left] BY <2>2
  <2> QED BY <2>3 DEF left
<1>4. done \in Frame BY <1>2, <1>3
<1>5. t = [s EXCEPT !.walk.edges = @ \cup edges, !.calls = Append(Front(@), done)]
  BY <1>2 DEF Advanced
<1> HIDE DEF Frame, done
<1>6. /\ t.walk = [s.walk EXCEPT !.edges = @ \cup edges] /\ t.calls = Append(Front(s.calls), done)
      /\ t.targets = s.targets /\ t.rest = s.rest
      /\ t = [walk |-> t.walk, calls |-> t.calls, targets |-> t.targets, rest |-> t.rest]
  BY <1>5 DEF SearchTypes
<1>7. /\ t.calls \in Seq(Frame) /\ Len(t.calls) = Len(s.calls) /\ t.calls[Len(s.calls)] = done
      /\ \A i \in 1 .. Len(s.calls) - 1 : t.calls[i] = s.calls[i]
  <2> DEFINE q == s.calls
             r == t.calls
  <2>1. q \in Seq(Frame) /\ q # <<>> /\ r = Append(Front(q), done) BY <1>1, <1>6
  <2> HIDE DEF q, r
  <2>2. /\ Append(Front(q), done) \in Seq(Frame) /\ Len(Append(Front(q), done)) = Len(q)
        /\ \A i \in 1 .. Len(q) - 1 : Append(Front(q), done)[i] = q[i]
        /\ Append(Front(q), done)[Len(q)] = done
    BY <2>1, <1>4, LastReplaced
  <2> QED BY <2>1, <2>2 DEF q, r
<1>8. t.walk = [error |-> s.walk.error, order |-> s.walk.order, edges |-> s.walk.edges \cup edges]
  BY <1>6 DEF SearchTypes
<1>9. SearchTypes(catalog, t) BY <1>6, <1>7, <1>8 DEF SearchTypes, Frame, EdgesOf
<1> QED BY <1>2, <1>3, <1>6, <1>7, <1>8, <1>9

LEMMA AdvancedWalk ==
  ASSUME NEW catalog, NEW s, SearchTypes(catalog, s), NEW edges
  PROVE  Advanced(s, edges).walk = [error |-> s.walk.error, order |-> s.walk.order,
                                    edges |-> s.walk.edges \cup edges]
BY DEF Advanced, SearchTypes

LEMMA FoundGrows ==
  ASSUME NEW catalog, NEW files, NEW walk, NEW grown, NEW c, NEW n,
         walk.edges \subseteq grown.edges, Range(walk.order) \subseteq Range(grown.order),
         Found(catalog, files, walk, c, n)
  PROVE  Found(catalog, files, grown, c, n)
BY DEF Found

LEMMA CallsAre ==
  ASSUME NEW catalog, NEW s, SearchTypes(catalog, s)
  PROVE  /\ s.calls \in Seq([contract : DOMAIN catalog, needs : SUBSET Names])
         /\ Len(s.calls) \in Nat /\ DOMAIN s.calls = 1 .. Len(s.calls)
         /\ s.calls # <<>> <=> Len(s.calls) # 0
         /\ s.calls # <<>> => Last(s.calls) = s.calls[Len(s.calls)]
         /\ \A i \in DOMAIN s.calls : s.calls[i].contract \in DOMAIN catalog
                                      /\ s.calls[i].needs \subseteq Names
<1> DEFINE Frame == [contract : DOMAIN catalog, needs : SUBSET Names]
           q == s.calls
<1>1. q \in Seq(Frame) BY DEF SearchTypes
<1> HIDE DEF q
<1>2. \A call \in Frame : call.contract \in DOMAIN catalog /\ call.needs \subseteq Names OBVIOUS
<1> HIDE DEF Frame
<1>3. Len(q) \in Nat /\ DOMAIN q = 1 .. Len(q) /\ (q # <<>> <=> Len(q) # 0) BY <1>1
<1>4. \A i \in DOMAIN q : q[i] \in Frame BY <1>1
<1>5. Last(q) = q[Len(q)] BY DEF Last
<1> QED BY <1>1, <1>2, <1>3, <1>4, <1>5 DEF q, Frame

\* A round of the loop whose need is found
LEMMA AdvanceStep ==
  ASSUME Sorting \in Seq(Names),
         NEW catalog, NEW files, NEW s, SearchInv(catalog, files, s), s.calls # <<>>,
         NEW last, last = s.calls[Len(s.calls)], NEW n, last.needs # {}, n = NextNeed(last.needs),
         NEW edges \in EdgesOf(catalog),
         \A e \in edges : e[3] \in Makers(catalog, e[2]),
         NEW t, t = Advanced(s, edges),
         Found(catalog, files, t.walk, last.contract, n)
  PROVE  SearchInv(catalog, files, t)
<1> DEFINE k == Len(s.calls)
<1>1. /\ SearchTypes(catalog, t)
      /\ t.walk = [error |-> s.walk.error, order |-> s.walk.order, edges |-> s.walk.edges \cup edges]
      /\ Len(t.calls) = k /\ k \in Nat \ {0}
      /\ \A i \in 1 .. k - 1 : t.calls[i] = s.calls[i]
      /\ t.calls[k] = [contract |-> last.contract, needs |-> last.needs \ {n}]
  <2>1. SearchTypes(catalog, s) BY DEF SearchInv
  <2> QED BY <2>1, AdvancedIs
<1>2. /\ t.walk.error = s.walk.error /\ t.walk.order = s.walk.order
      /\ t.walk.edges = s.walk.edges \cup edges
  BY <1>1
<1>3. DOMAIN t.calls = 1 .. k /\ DOMAIN s.calls = 1 .. k BY <1>1, CallsAre DEF SearchInv
<1> HIDE DEF k
<1>4. \A i \in 1 .. k : t.calls[i].contract = s.calls[i].contract BY <1>1 DEF k
<1>5. \A i \in 1 .. k : t.calls[i].needs \subseteq s.calls[i].needs BY <1>1 DEF k
<1>6. Once(t)
  <2>1. Once(s) BY DEF SearchInv
  <2> QED BY <2>1, <1>2, <1>3, <1>4 DEF Once
<1>7. Linked(catalog, t)
  <2>1. Linked(catalog, s) BY DEF SearchInv
  <2> SUFFICES ASSUME NEW i \in 1 .. k
               PROVE  /\ t.calls[i].needs \subseteq catalog[t.calls[i].contract].needs
                      /\ i + 1 \in 1 .. k => Wanted(catalog, t.calls[i], t.calls[i + 1].contract)
    BY <1>3 DEF Linked
  <2>2. t.calls[i].needs \subseteq catalog[t.calls[i].contract].needs
    BY <2>1, <1>3, <1>4, <1>5 DEF Linked
  <2>3. ASSUME i + 1 \in 1 .. k PROVE Wanted(catalog, t.calls[i], t.calls[i + 1].contract)
    <3>1. t.calls[i] = s.calls[i] BY <1>1, <2>3
    <3> QED BY <2>1, <2>3, <3>1, <1>3, <1>4 DEF Linked
  <2> QED BY <2>2, <2>3
<1>8. Settled(catalog, files, t)
  <2>1. Settled(catalog, files, s) BY DEF SearchInv
  <2>2. \A c, m : Found(catalog, files, s.walk, c, m) => Found(catalog, files, t.walk, c, m)
    BY <1>2, FoundGrows
  <2>3. ASSUME NEW i \in 1 .. k, NEW m \in catalog[t.calls[i].contract].needs \ t.calls[i].needs
        PROVE  Found(catalog, files, t.walk, t.calls[i].contract, m)
    <3>1. CASE m \in s.calls[i].needs
      <4>1. i = k BY <1>1, <2>3, <3>1
      <4>2. m = n /\ t.calls[i].contract = last.contract BY <4>1, <1>1, <2>3, <3>1 DEF k
      <4> QED BY <4>2
    <3>2. CASE m \notin s.calls[i].needs
      BY <2>1, <2>2, <3>2, <2>3, <1>3, <1>4 DEF Settled
    <3> QED BY <3>1, <3>2
  <2> QED BY <2>1, <2>2, <2>3, <1>2, <1>3 DEF Settled
<1>9. Ordered(catalog, t.walk)
  <2>1. Ordered(catalog, s.walk) BY DEF SearchInv
  <2> QED BY <2>1, <1>2 DEF Ordered
<1>10. EdgesAreMade(catalog, t.walk)
  <2>1. EdgesAreMade(catalog, s.walk) BY DEF SearchInv
  <2> QED BY <2>1, <1>2 DEF EdgesAreMade
<1>11. ErrorIsReal(catalog, files, t.walk)
  <2>1. ErrorIsReal(catalog, files, s.walk) BY DEF SearchInv
  <2> QED BY <2>1, <1>2 DEF ErrorIsReal
<1> QED BY <1>1, <1>6, <1>7, <1>8, <1>9, <1>10, <1>11 DEF SearchInv

\* c may be visited now: the innermost call, if there is one, needs it
Due(catalog, s, c) ==
  c \in DOMAIN catalog /\ (s.calls # <<>> => Wanted(catalog, s.calls[Len(s.calls)], c))

LEMMA NeedsAre ==
  ASSUME NEW catalog, IsCatalog(catalog), NEW c \in DOMAIN catalog
  PROVE  /\ catalog[c] \in Range(catalog)
         /\ catalog[c].needs \subseteq Names /\ catalog[c].outputs \subseteq Names
BY DEF IsCatalog, Names, Range

LEMMA PushIs ==
  ASSUME NEW catalog, IsCatalog(catalog), NEW s, SearchTypes(catalog, s),
         NEW c \in DOMAIN catalog,
         NEW t, t = Call(catalog, s, c),
         NEW k, k = Len(s.calls)
  PROVE  /\ SearchTypes(catalog, t)
         /\ t.walk = s.walk /\ t.targets = s.targets /\ t.rest = s.rest
         /\ k \in Nat /\ DOMAIN s.calls = 1 .. k /\ DOMAIN t.calls = 1 .. k + 1
         /\ \A i \in 1 .. k : t.calls[i] = s.calls[i]
         /\ t.calls[k + 1] = [contract |-> c, needs |-> catalog[c].needs]
<1> DEFINE Frame == [contract : DOMAIN catalog, needs : SUBSET Names]
           call == [contract |-> c, needs |-> catalog[c].needs]
           q == s.calls
<1>1. q \in Seq(Frame) BY DEF SearchTypes
<1>2. call \in Frame BY NeedsAre
<1>3. /\ t.walk = s.walk /\ t.calls = Append(q, call) /\ t.targets = s.targets /\ t.rest = s.rest
      /\ t = [walk |-> s.walk, calls |-> t.calls, targets |-> s.targets, rest |-> s.rest]
  BY DEF SearchTypes, Call
<1> HIDE DEF Frame, call, q
<1>4. /\ Append(q, call) \in Seq(Frame) /\ Len(Append(q, call)) = Len(q) + 1 /\ Len(q) \in Nat
      /\ \A i \in 1 .. Len(q) : Append(q, call)[i] = q[i]
      /\ Append(q, call)[Len(q) + 1] = call
  BY <1>1, <1>2
<1>5. DOMAIN q = 1 .. Len(q) /\ DOMAIN Append(q, call) = 1 .. Len(q) + 1 BY <1>1, <1>4
<1>6. SearchTypes(catalog, t) BY <1>3, <1>4 DEF SearchTypes, Frame
<1> QED BY <1>3, <1>4, <1>5, <1>6 DEF q, call

\* A contract is visited that was not
LEMMA PushStep ==
  ASSUME NEW catalog, IsCatalog(catalog), NEW files, NEW s, SearchInv(catalog, files, s),
         NEW c, Due(catalog, s, c),
         \A i \in DOMAIN s.calls : s.calls[i].contract # c,
         \A j \in DOMAIN s.walk.order : s.walk.order[j] # c,
         NEW t, t = Call(catalog, s, c)
  PROVE  SearchInv(catalog, files, t)
<1> DEFINE k == Len(s.calls)
<1>1. /\ SearchTypes(catalog, t) /\ t.walk = s.walk
      /\ k \in Nat /\ DOMAIN s.calls = 1 .. k /\ DOMAIN t.calls = 1 .. k + 1
      /\ \A i \in 1 .. k : t.calls[i] = s.calls[i]
      /\ t.calls[k + 1] = [contract |-> c, needs |-> catalog[c].needs]
  <2>1. SearchTypes(catalog, s) /\ c \in DOMAIN catalog BY DEF SearchInv, Due
  <2>2. k = Len(s.calls) OBVIOUS
  <2> HIDE DEF k
  <2> QED BY <2>1, <2>2, PushIs
<1>2. \A i \in 1 .. k + 1 : i \in 1 .. k \/ i = k + 1 BY <1>1
<1>3. t.calls[k + 1].contract = c /\ t.calls[k + 1].needs = catalog[c].needs BY <1>1
<1>4. s.calls # <<>> => Wanted(catalog, s.calls[k], c) BY DEF Due
<1>5. k # 0 => s.calls # <<>> BY <1>1
<1> HIDE DEF k
<1>6. Once(t)
  <2>1. Once(s) BY DEF SearchInv
  <2>2. \A i \in 1 .. k : t.calls[i].contract = s.calls[i].contract /\ s.calls[i].contract # c
    BY <1>1
  <2>3. \A i, j \in 1 .. k + 1 : t.calls[i].contract = t.calls[j].contract => i = j
    BY <2>1, <2>2, <1>1, <1>2, <1>3 DEF Once
  <2>4. \A i \in 1 .. k + 1 : \A j \in DOMAIN s.walk.order :
          t.calls[i].contract # s.walk.order[j]
    BY <2>1, <2>2, <1>1, <1>2, <1>3 DEF Once
  <2> QED BY <2>1, <2>3, <2>4, <1>1 DEF Once
<1>7. Linked(catalog, t)
  <2>1. Linked(catalog, s) BY DEF SearchInv
  <2> SUFFICES ASSUME NEW i \in 1 .. k + 1
               PROVE  /\ t.calls[i].needs \subseteq catalog[t.calls[i].contract].needs
                      /\ i + 1 \in 1 .. k + 1 =>
                           Wanted(catalog, t.calls[i], t.calls[i + 1].contract)
    BY <1>1 DEF Linked
  <2>2. CASE i = k + 1 BY <2>2, <1>1, <1>3
  <2>3. CASE i = k /\ k # 0 BY <2>1, <2>3, <1>1, <1>3, <1>4, <1>5 DEF Linked
  <2>4. CASE i \in 1 .. k /\ i # k
    <3>1. i + 1 \in 1 .. k BY <2>4, <1>1
    <3> QED BY <2>1, <2>4, <3>1, <1>1 DEF Linked
  <2> QED BY <2>2, <2>3, <2>4, <1>1
<1>8. Settled(catalog, files, t)
  <2>1. Settled(catalog, files, s) BY DEF SearchInv
  <2> QED BY <2>1, <1>1, <1>2, <1>3 DEF Settled
<1> QED BY <1>1, <1>6, <1>7, <1>8 DEF SearchInv

\* The loop that called goes on
LEMMA ReturnStep ==
  ASSUME Sorting \in Seq(Names), NEW catalog, IsCatalog(catalog), ~AmbiguousOutputs(catalog),
         NEW files, NEW s, SearchInv(catalog, files, s),
         NEW c, Due(catalog, s, c), c \in Range(s.walk.order)
  PROVE  SearchInv(catalog, files, Return(s, c))
<1>1. CASE s.calls = <<>> BY <1>1 DEF Return
<1>2. CASE s.calls # <<>>
  <2> DEFINE last == s.calls[Len(s.calls)]
             n == NextNeed(last.needs)
             edges == {<<last.contract, n, c>>}
  <2>1. Last(s.calls) = last /\ last.contract \in DOMAIN catalog /\ last.needs \subseteq Names
    <3>1. SearchTypes(catalog, s) BY DEF SearchInv
    <3>2. Len(s.calls) \in DOMAIN s.calls BY <3>1, <1>2, CallsAre
    <3> QED BY <3>1, <3>2, <1>2, CallsAre
  <2>2. last.needs # {} /\ c \in Makers(catalog, n) /\ n \in catalog[c].outputs
    BY <1>2 DEF Due, Wanted
  <2>3. n \in Names BY <2>1, <2>2, NextNeedIs
  <2>4. Return(s, c) = Advanced(s, edges) BY <1>2, <2>1 DEF Return
  <2>5. edges \in EdgesOf(catalog) BY <2>1, <2>3 DEF Due, EdgesOf
  <2>6. \A e \in edges : e[3] \in Makers(catalog, e[2]) BY <2>2
  <2> HIDE DEF last, n
  <2>7. Found(catalog, files, Advanced(s, edges).walk, last.contract, n)
    <3>1. SearchTypes(catalog, s) BY DEF SearchInv
    <3>2. Advanced(s, edges).walk = [error |-> s.walk.error, order |-> s.walk.order,
                                     edges |-> s.walk.edges \cup edges]
      BY <3>1, AdvancedWalk
    <3> QED BY <3>2, <2>2 DEF Found
  <2> HIDE DEF edges
  <2>8. SearchInv(catalog, files, Advanced(s, edges))
    BY <1>2, <2>2, <2>5, <2>6, <2>7, AdvanceStep DEF last, n
  <2> QED BY <2>4, <2>8
<1> QED BY <1>1, <1>2

LEMMA LastCall ==
  ASSUME NEW catalog, NEW files, NEW s, SearchInv(catalog, files, s), s.calls # <<>>,
         NEW k, k = Len(s.calls)
  PROVE  /\ k \in Nat \ {0} /\ DOMAIN s.calls = 1 .. k /\ Last(s.calls) = s.calls[k]
         /\ s.calls[k].contract \in DOMAIN catalog /\ s.calls[k].needs \subseteq Names
         /\ s.calls[k].needs \subseteq catalog[s.calls[k].contract].needs
<1>1. SearchTypes(catalog, s) /\ Linked(catalog, s) BY DEF SearchInv
<1>2. k \in Nat \ {0} /\ DOMAIN s.calls = 1 .. k BY <1>1, CallsAre
<1>3. k \in DOMAIN s.calls BY <1>2
<1> QED BY <1>1, <1>2, <1>3, CallsAre DEF Linked

\* Calls that come round to a contract that is being visited are a ring
LEMMA CallsMakeRing ==
  ASSUME Sorting \in Seq(Names), NEW catalog, NEW files, NEW s, SearchInv(catalog, files, s),
         NEW c \in Active(s), Due(catalog, s, c)
  PROVE  Ring(catalog)
<1> DEFINE k == Len(s.calls)
<1>1. SearchTypes(catalog, s) /\ Linked(catalog, s) BY DEF SearchInv
<1>2. k \in Nat /\ DOMAIN s.calls = 1 .. k BY <1>1, CallsAre
<1>8. \A i \in 1 .. k : s.calls[i].contract \in DOMAIN catalog /\ s.calls[i].needs \subseteq Names
  BY <1>1, <1>2, CallsAre
<1>3. PICK j \in 1 .. k : s.calls[j].contract = c BY <1>2 DEF Active
<1>4. s.calls # <<>> /\ k # 0 BY <1>1, <1>2, <1>3, CallsAre
<1>9. \A i \in j .. k : i \in 1 .. k BY <1>2, <1>3
<1> DEFINE some == {s.calls[i].contract : i \in j .. k}
<1>5. some \in (SUBSET DOMAIN catalog) \ {{}}
  <2>1. j \in j .. k BY <1>2, <1>3
  <2> HIDE DEF k
  <2> QED BY <2>1, <1>8, <1>9
<1>6. ASSUME NEW i \in j .. k
      PROVE  \E p \in some, n \in catalog[s.calls[i].contract].needs : p \in Makers(catalog, n)
  <2> DEFINE call == s.calls[i]
             n == NextNeed(call.needs)
  <2>1. i \in DOMAIN s.calls /\ call.needs \subseteq Names BY <1>2, <1>8, <1>9
  <2>2. call.needs \subseteq catalog[call.contract].needs BY <1>1, <2>1 DEF Linked
  <2>3. PICK p \in some : Wanted(catalog, call, p)
    <3>1. CASE i = k BY <1>3, <1>4, <3>1, <1>2 DEF Due
    <3>2. CASE i # k
      <4>1. i + 1 \in j .. k /\ i + 1 \in DOMAIN s.calls BY <3>2, <1>2, <1>3
      <4> QED BY <4>1, <1>1, <2>1 DEF Linked
    <3> QED BY <3>1, <3>2
  <2>4. call.needs # {} /\ p \in Makers(catalog, n) BY <2>3 DEF Wanted
  <2>5. n \in call.needs BY <2>1, <2>4, NextNeedIs
  <2> QED BY <2>2, <2>4, <2>5
<1>7. \A x \in some : \E p \in some, n \in catalog[x].needs : p \in Makers(catalog, n)
  BY <1>6
<1> HIDE DEF some
<1> QED BY <1>5, <1>7 DEF Ring

\* Nothing else changes when the search ends with an error
LEMMA HaltedStep ==
  ASSUME NEW catalog, NEW files, NEW s, SearchInv(catalog, files, s), s.walk.error = "none",
         NEW code \in Errors,
         ErrorIsReal(catalog, files, [s.walk EXCEPT !.error = code])
  PROVE  SearchInv(catalog, files, Halted(s, code))
<1> DEFINE t == Halted(s, code)
<1>1. SearchTypes(catalog, s) BY DEF SearchInv
<1>2. /\ t.calls = s.calls /\ t.walk = [s.walk EXCEPT !.error = code]
      /\ t.walk.order = s.walk.order /\ t.walk.edges = s.walk.edges
      /\ SearchTypes(catalog, t)
  BY <1>1 DEF SearchTypes, Halted, Stop
<1> HIDE DEF t
<1>3. Once(t) BY <1>2 DEF SearchInv, Once
<1>4. Linked(catalog, t) BY <1>2 DEF SearchInv, Linked
<1>5. Settled(catalog, files, t) BY <1>2 DEF SearchInv, Settled, Found
<1>6. Ordered(catalog, t.walk) BY <1>2 DEF SearchInv, Ordered
<1>7. EdgesAreMade(catalog, t.walk) BY <1>2 DEF SearchInv, EdgesAreMade
<1> QED BY <1>2, <1>3, <1>4, <1>5, <1>6, <1>7 DEF SearchInv, t

\* A call all of whose needs are found ends
LEMMA VisitedStep ==
  ASSUME NEW catalog, IsCatalog(catalog), ~AmbiguousOutputs(catalog), NEW files,
         NEW s, SearchInv(catalog, files, s), s.calls # <<>>,
         NEW k, k = Len(s.calls), s.calls[k].needs = {},
         NEW c, c = s.calls[k].contract, NEW t, t = Visited(s)
  PROVE  /\ SearchInv(catalog, files, t) /\ Due(catalog, t, c) /\ c \in Range(t.walk.order)
         /\ t.targets = s.targets /\ t.rest = s.rest
         /\ DOMAIN t.calls = 1 .. k - 1 /\ \A i \in 1 .. k - 1 : t.calls[i] = s.calls[i]
         /\ t.walk.order = Append(s.walk.order, c)
<1>1. /\ k \in Nat \ {0} /\ DOMAIN s.calls = 1 .. k /\ Last(s.calls) = s.calls[k]
      /\ c \in DOMAIN catalog
  BY LastCall
<1>2. SearchTypes(catalog, s) BY DEF SearchInv
<1> DEFINE Frame == [contract : DOMAIN catalog, needs : SUBSET Names]
           m == Len(s.walk.order)
<1>3. /\ t.walk = [error |-> s.walk.error, order |-> Append(s.walk.order, c), edges |-> s.walk.edges]
      /\ t.calls = Front(s.calls) /\ t.targets = s.targets /\ t.rest = s.rest
      /\ t = [walk |-> t.walk, calls |-> t.calls, targets |-> t.targets, rest |-> t.rest]
  BY <1>1, <1>2 DEF SearchTypes, Visited
<1>4. s.calls \in Seq(Frame) BY <1>2 DEF SearchTypes
<1> HIDE DEF Frame
<1>5. /\ t.calls \in Seq(Frame) /\ Len(t.calls) = k - 1
      /\ \A i \in 1 .. k - 1 : t.calls[i] = s.calls[i]
  BY <1>3, <1>4, FrontIs
<1>6. DOMAIN t.calls = 1 .. k - 1 BY <1>5
<1>7. s.walk.order \in Seq(DOMAIN catalog) BY <1>2 DEF SearchTypes
<1>8. /\ m \in Nat /\ DOMAIN s.walk.order = 1 .. m
      /\ Append(s.walk.order, c) \in Seq(DOMAIN catalog)
      /\ DOMAIN Append(s.walk.order, c) = 1 .. m + 1
      /\ \A j \in 1 .. m : Append(s.walk.order, c)[j] = s.walk.order[j]
      /\ Append(s.walk.order, c)[m + 1] = c
  BY <1>1, <1>7
<1> HIDE DEF m
<1>9. /\ t.walk.error = s.walk.error /\ t.walk.edges = s.walk.edges
      /\ t.walk.order \in Seq(DOMAIN catalog) /\ DOMAIN t.walk.order = 1 .. m + 1
      /\ \A j \in 1 .. m : t.walk.order[j] = s.walk.order[j]
      /\ t.walk.order[m + 1] = c
  BY <1>3, <1>8
<1>10. SearchTypes(catalog, t) BY <1>2, <1>3, <1>5, <1>9 DEF SearchTypes, Frame
<1>11. \A j \in 1 .. m + 1 : j \in 1 .. m \/ j = m + 1 BY <1>8
<1>12. \A i \in 1 .. k - 1 : i \in 1 .. k /\ i # k BY <1>1
<1>13. Once(t)
  <2>1. Once(s) /\ k \in 1 .. k BY <1>1 DEF SearchInv
  <2>2. /\ \A i, j \in 1 .. k : s.calls[i].contract = s.calls[j].contract => i = j
        /\ \A i, j \in 1 .. m : s.walk.order[i] = s.walk.order[j] => i = j
        /\ \A i \in 1 .. k : \A j \in 1 .. m : s.calls[i].contract # s.walk.order[j]
    BY <2>1, <1>1, <1>8, SMTT(20) DEF Once
  <2>3. \A i \in 1 .. k - 1 : t.calls[i] = s.calls[i] BY <1>5
  <2>4. \A i, j \in 1 .. k - 1 : t.calls[i].contract = t.calls[j].contract => i = j
    BY <2>2, <2>3, <1>12, ZenonT(20)
  <2>5. \A j \in 1 .. m : s.walk.order[j] # c BY <2>1, <2>2
  <2>6. \A i, j \in 1 .. m + 1 : t.walk.order[i] = t.walk.order[j] => i = j
    <3> TAKE i, j \in 1 .. m + 1
    <3>1. CASE i \in 1 .. m /\ j \in 1 .. m BY <3>1, <2>2, <1>9
    <3>2. CASE i = m + 1 \/ j = m + 1 BY <3>2, <2>5, <1>9, <1>11
    <3> QED BY <3>1, <3>2, <1>11
  <2>7. \A i \in 1 .. k - 1 : t.calls[i].contract # c
    <3> TAKE i \in 1 .. k - 1
    <3>1. i \in 1 .. k /\ i # k BY <1>12
    <3>2. s.calls[i].contract # s.calls[k].contract BY <3>1, <2>1, <2>2
    <3> QED BY <3>2, <2>3
  <2>8. \A i \in 1 .. k - 1 : \A j \in 1 .. m + 1 : t.calls[i].contract # t.walk.order[j]
    <3> TAKE i \in 1 .. k - 1
    <3> TAKE j \in 1 .. m + 1
    <3>1. i \in 1 .. k /\ t.calls[i] = s.calls[i] BY <1>12, <2>3
    <3>2. CASE j = m + 1 BY <3>2, <2>7, <1>9
    <3>3. CASE j \in 1 .. m BY <3>1, <3>3, <2>2, <1>9
    <3> QED BY <3>2, <3>3, <1>11
  <2>9. \A i, j \in DOMAIN t.walk.order : t.walk.order[i] = t.walk.order[j] => i = j
    BY <2>6, <1>9
  <2>10. \A i, j \in DOMAIN t.calls : t.calls[i].contract = t.calls[j].contract => i = j
    BY <2>4, <1>6
  <2>11. \A i \in DOMAIN t.calls : \A j \in DOMAIN t.walk.order :
          t.calls[i].contract # t.walk.order[j]
    BY <2>8, <1>6, <1>9
  <2> QED BY <2>9, <2>10, <2>11 DEF Once
<1>14. Linked(catalog, t)
  <2>1. Linked(catalog, s) BY DEF SearchInv
  <2> SUFFICES ASSUME NEW i \in 1 .. k - 1
               PROVE  /\ t.calls[i].needs \subseteq catalog[t.calls[i].contract].needs
                      /\ i + 1 \in 1 .. k - 1 =>
                           Wanted(catalog, t.calls[i], t.calls[i + 1].contract)
    BY <1>6 DEF Linked
  <2>2. i \in DOMAIN s.calls /\ t.calls[i] = s.calls[i] BY <1>1, <1>5, <1>12
  <2>3. ASSUME i + 1 \in 1 .. k - 1
        PROVE  i + 1 \in DOMAIN s.calls /\ t.calls[i + 1] = s.calls[i + 1]
    BY <2>3, <1>1, <1>5, <1>12
  <2> QED BY <2>1, <2>2, <2>3 DEF Linked
<1>15. Range(s.walk.order) \subseteq Range(t.walk.order) /\ c \in Range(t.walk.order)
  <2>1. m + 1 \in 1 .. m + 1 /\ \A j \in 1 .. m : j \in 1 .. m + 1 BY <1>8
  <2> QED BY <2>1, <1>8, <1>9 DEF Range
<1>16. \A x, n : Found(catalog, files, s.walk, x, n) => Found(catalog, files, t.walk, x, n)
  BY <1>9, <1>15, FoundGrows
<1>17. Settled(catalog, files, s) BY DEF SearchInv
<1>18. \A n \in catalog[c].needs : Found(catalog, files, s.walk, c, n)
  BY <1>17, <1>1 DEF Settled
<1>19. Settled(catalog, files, t)
  <2>1. \A j \in 1 .. m + 1 : \A n \in catalog[t.walk.order[j]].needs :
          Found(catalog, files, t.walk, t.walk.order[j], n)
    BY <1>8, <1>9, <1>11, <1>16, <1>17, <1>18, SMTT(20) DEF Settled
  <2>2. \A i \in 1 .. k - 1 : \A n \in catalog[t.calls[i].contract].needs \ t.calls[i].needs :
          Found(catalog, files, t.walk, t.calls[i].contract, n)
    BY <1>1, <1>5, <1>12, <1>16, <1>17 DEF Settled
  <2> QED BY <2>1, <2>2, <1>6, <1>9 DEF Settled
<1>20. Ordered(catalog, t.walk)
  <2>1. Ordered(catalog, s.walk) BY DEF SearchInv
  <2> SUFFICES ASSUME NEW i \in 1 .. m + 1, NEW n \in catalog[t.walk.order[i]].needs,
                      NEW p \in Makers(catalog, n)
               PROVE  \E j \in 1 .. i - 1 : t.walk.order[j] = p
    BY <1>9 DEF Ordered
  <2>2. CASE i \in 1 .. m
    <3>3. i \in DOMAIN s.walk.order /\ n \in catalog[s.walk.order[i]].needs BY <2>2, <1>8, <1>9
    <3>1. PICK j \in 1 .. i - 1 : s.walk.order[j] = p BY <2>1, <3>3 DEF Ordered
    <3>2. j \in 1 .. m BY <2>2, <1>8
    <3> QED BY <3>1, <3>2, <1>9
  <2>3. CASE i = m + 1
    <3>1. Found(catalog, files, s.walk, c, n) BY <2>3, <1>9, <1>18
    <3>2. PICK q \in Makers(catalog, n) : q \in Range(s.walk.order) BY <3>1 DEF Found
    <3>3. q = p BY OneMaker
    <3>5. DOMAIN s.walk.order = 1 .. m BY <1>8
    <3>4. PICK j \in 1 .. m : s.walk.order[j] = p BY <3>2, <3>3, <3>5 DEF Range
    <3>6. t.walk.order[j] = p BY <3>4, <1>9
    <3>7. m \in Nat BY <1>8
    <3>8. j \in 1 .. i - 1 BY <3>7, <2>3
    <3> QED BY <3>6, <3>8
  <2> QED BY <2>2, <2>3, <1>11
<1>21. EdgesAreMade(catalog, t.walk) BY <1>9 DEF SearchInv, EdgesAreMade
<1>22. ErrorIsReal(catalog, files, t.walk) BY <1>9 DEF SearchInv, ErrorIsReal
<1>23. Due(catalog, t, c)
  <2> SUFFICES ASSUME t.calls # <<>> PROVE Wanted(catalog, t.calls[Len(t.calls)], c)
    BY <1>1 DEF Due
  <2>1. Linked(catalog, s) BY DEF SearchInv
  <2>6. t.calls \in Seq(Frame) /\ Len(t.calls) = k - 1 BY <1>5
  <2>2. k - 1 # 0 BY <2>6
  <2>3. k - 1 \in DOMAIN s.calls /\ k - 1 + 1 = k /\ k \in DOMAIN s.calls
    <3>1. k \in Nat \ {0} /\ DOMAIN s.calls = 1 .. k BY <1>1
    <3>2. k - 1 \in 1 .. k /\ k - 1 + 1 = k /\ k \in 1 .. k
      <4>1. \A x \in Nat \ {0} : x - 1 # 0 => x - 1 \in 1 .. x /\ x - 1 + 1 = x /\ x \in 1 .. x
        OBVIOUS
      <4> QED BY <4>1, <3>1, <2>2
    <3> QED BY <3>1, <3>2
  <2>4. Wanted(catalog, s.calls[k - 1], c) BY <2>1, <2>3 DEF Linked
  <2>5. t.calls[k - 1] = s.calls[k - 1] BY <2>2, <1>1, <1>5
  <2> QED BY <2>4, <2>5, <1>5
<1>24. SearchInv(catalog, files, t)
  BY <1>10, <1>13, <1>14, <1>19, <1>20, <1>21, <1>22 DEF SearchInv
<1> QED BY <1>3, <1>5, <1>6, <1>15, <1>23, <1>24

LEMMA EnterStep ==
  ASSUME Sorting \in Seq(Names), NEW catalog, IsCatalog(catalog), ~AmbiguousOutputs(catalog),
         NEW files, NEW s, SearchInv(catalog, files, s), s.walk.error = "none",
         NEW c, Due(catalog, s, c)
  PROVE  SearchInv(catalog, files, Enter(catalog, s, c))
<1>1. CASE c \in Active(s)
  <2>1. Ring(catalog) BY <1>1, CallsMakeRing
  <2>2. ErrorIsReal(catalog, files, [s.walk EXCEPT !.error = "contract_cycle"])
    <3>1. SearchTypes(catalog, s) BY DEF SearchInv
    <3>2. [s.walk EXCEPT !.error = "contract_cycle"].error = "contract_cycle"
      BY <3>1 DEF SearchTypes
    <3> QED BY <2>1, <3>2 DEF ErrorIsReal
  <2>3. SearchInv(catalog, files, Halted(s, "contract_cycle"))
    BY <2>2, HaltedStep DEF Errors
  <2> QED BY <1>1, <2>3 DEF Enter
<1>2. CASE c \notin Active(s) /\ c \in Range(s.walk.order)
  BY <1>2, ReturnStep DEF Enter
<1>3. CASE c \notin Active(s) /\ c \notin Range(s.walk.order)
  <2>1. \A i \in DOMAIN s.calls : s.calls[i].contract # c BY <1>3 DEF Active
  <2>2. \A j \in DOMAIN s.walk.order : s.walk.order[j] # c BY <1>3 DEF Range
  <2> DEFINE t == Call(catalog, s, c)
  <2>3. t = Call(catalog, s, c) OBVIOUS
  <2> HIDE DEF t
  <2>4. SearchInv(catalog, files, t) BY <2>1, <2>2, <2>3, PushStep
  <2> QED BY <1>3, <2>3, <2>4 DEF Enter
<1> QED BY <1>1, <1>2, <1>3

LEMMA FollowStep ==
  ASSUME Sorting \in Seq(Names), NEW catalog, IsCatalog(catalog), ~AmbiguousOutputs(catalog),
         NEW files, NEW s, SearchInv(catalog, files, s), s.walk.error = "none",
         s.calls # <<>>, NEW last, last = s.calls[Len(s.calls)], last.needs # {}
  PROVE  SearchInv(catalog, files, Follow(catalog, files, s))
<1> DEFINE n == NextNeed(last.needs)
           c == last.contract
           p == CHOOSE i \in Makers(catalog, n) : TRUE
<1>1. /\ Last(s.calls) = last /\ c \in DOMAIN catalog /\ last.needs \subseteq Names
      /\ last.needs \subseteq catalog[c].needs
  <2> DEFINE k == Len(s.calls)
  <2>1. k = Len(s.calls) OBVIOUS
  <2> HIDE DEF k
  <2>2. /\ Last(s.calls) = s.calls[k] /\ s.calls[k].contract \in DOMAIN catalog
        /\ s.calls[k].needs \subseteq Names
        /\ s.calls[k].needs \subseteq catalog[s.calls[k].contract].needs
    BY <2>1, LastCall
  <2> QED BY <2>1, <2>2
<1>2. n \in last.needs BY <1>1, NextNeedIs
<1>3. catalog[c] \in Range(catalog) /\ n \in catalog[c].needs BY <1>1, <1>2, NeedsAre
<1>4. SearchTypes(catalog, s) BY DEF SearchInv
<1>5. \A code : [s.walk EXCEPT !.error = code].error = code BY <1>4 DEF SearchTypes
<1>6. Follow(catalog, files, s) =
        CASE Makers(catalog, n) = {} ->
               IF n \in files THEN Advanced(s, {}) ELSE Halted(s, "missing_input")
          [] OTHER ->
               IF n \notin catalog[p].outputs THEN Halted(s, "source_collision")
               ELSE Enter(catalog, s, p)
  BY <1>1 DEF Follow
<1> HIDE DEF n, c, p
<1>7. CASE Makers(catalog, n) = {} /\ n \in files
  <2> DEFINE none == {}
             t == Advanced(s, none)
  <2>1. /\ none \in EdgesOf(catalog) /\ \A e \in none : e[3] \in Makers(catalog, e[2])
        /\ t = Advanced(s, none) /\ n = NextNeed(last.needs) /\ c = last.contract
    BY DEF EdgesOf, n, c
  <2>2. Follow(catalog, files, s) = t BY <1>6, <1>7
  <2> HIDE DEF none, t
  <2>3. Found(catalog, files, t.walk, last.contract, n) BY <1>7 DEF Found
  <2>4. SearchInv(catalog, files, t) BY <2>1, <2>3, AdvanceStep
  <2> QED BY <2>2, <2>4
<1>8. CASE Makers(catalog, n) = {} /\ n \notin files
  <2>1. Unmade(catalog, files) BY <1>3, <1>8 DEF Unmade
  <2>2. ErrorIsReal(catalog, files, [s.walk EXCEPT !.error = "missing_input"])
    BY <2>1, <1>5 DEF ErrorIsReal
  <2>3. SearchInv(catalog, files, Halted(s, "missing_input")) BY <2>2, HaltedStep DEF Errors
  <2> QED BY <2>3, <1>6, <1>8
<1>9. CASE Makers(catalog, n) # {}
  <2>1. p \in Makers(catalog, n) BY <1>9 DEF p
  <2>2. CASE n \notin catalog[p].outputs
    <3>1. \A d \in Range(catalog) : n \notin d.outputs
      <4> SUFFICES ASSUME NEW i \in DOMAIN catalog, n \in catalog[i].outputs PROVE FALSE
        BY DEF Range
      <4>1. i \in Makers(catalog, n) BY MakersAre
      <4>2. i = p BY <4>1, <2>1, OneMaker
      <4> QED BY <4>2, <2>2
    <3>2. Misspelt(catalog) BY <1>3, <1>9, <3>1 DEF Misspelt
    <3>3. ErrorIsReal(catalog, files, [s.walk EXCEPT !.error = "source_collision"])
      BY <3>2, <1>5 DEF ErrorIsReal
    <3>4. SearchInv(catalog, files, Halted(s, "source_collision"))
      BY <3>3, HaltedStep DEF Errors
    <3> QED BY <3>4, <1>6, <1>9, <2>2
  <2>3. CASE n \in catalog[p].outputs
    <3>1. Due(catalog, s, p)
      <4>1. p \in DOMAIN catalog BY <2>1, MakersAre
      <4> QED BY <4>1, <2>1, <2>3 DEF Due, Wanted, n
    <3>2. SearchInv(catalog, files, Enter(catalog, s, p)) BY <3>1, EnterStep
    <3> QED BY <3>2, <1>6, <1>9, <2>3
  <2> QED BY <2>2, <2>3
<1> QED BY <1>7, <1>8, <1>9

\* The loops around the calls
LEMMA LoopsStep ==
  ASSUME NEW catalog, IsCatalog(catalog), NEW files, NEW s, SearchInv(catalog, files, s),
         s.calls = <<>>
  PROVE  /\ s.targets # {} =>
              /\ First(s.targets) \in s.targets
              /\ SearchInv(catalog, files, TakeTarget(s))
              /\ Due(catalog, TakeTarget(s), First(s.targets))
         /\ s.rest # {} =>
              /\ First(s.rest) \in s.rest
              /\ SearchInv(catalog, files, TakeAny(s))
              /\ Due(catalog, TakeAny(s), First(s.rest))
<1>1. SearchTypes(catalog, s) BY DEF SearchInv
<1> DEFINE t == TakeTarget(s)
           u == TakeAny(s)
<1>2. t.walk = s.walk /\ t.calls = s.calls /\ SearchTypes(catalog, t)
  BY <1>1 DEF SearchTypes, TakeTarget
<1>3. u.walk = s.walk /\ u.calls = s.calls /\ SearchTypes(catalog, u)
  BY <1>1 DEF SearchTypes, TakeAny
<1> HIDE DEF t, u
<1>4. SearchInv(catalog, files, t) BY <1>2 DEF SearchInv, Once, Linked, Settled
<1>5. SearchInv(catalog, files, u) BY <1>3 DEF SearchInv, Once, Linked, Settled
<1>6. DOMAIN catalog \subseteq Nat BY DEF IsCatalog
<1>7. s.targets \subseteq DOMAIN catalog /\ s.rest \subseteq DOMAIN catalog BY <1>1 DEF SearchTypes
<1>8. s.targets \subseteq Nat /\ s.rest \subseteq Nat BY <1>6, <1>7
<1> QED BY <1>2, <1>3, <1>4, <1>5, <1>7, <1>8, FirstIs DEF Due, t, u

LEMMA VisitKeepsInv ==
  ASSUME Sorting \in Seq(Names), NEW catalog, IsCatalog(catalog), ~AmbiguousOutputs(catalog),
         NEW files, NEW s, SearchInv(catalog, files, s)
  PROVE  SearchInv(catalog, files, Visit(catalog, files, s))
<1>1. CASE Searched(s) BY <1>1 DEF Visit
<1>2. CASE ~Searched(s) /\ s.calls # <<>>
  <2> DEFINE k == Len(s.calls)
             last == s.calls[k]
             t == Visited(s)
  <2>1. k = Len(s.calls) /\ last = s.calls[Len(s.calls)] /\ s.walk.error = "none" /\ t = Visited(s)
    BY <1>2 DEF Searched
  <2>2. Last(s.calls) = last
    <3> HIDE DEF k
    <3> QED BY <1>2, <2>1, LastCall
  <2> HIDE DEF k, last, t
  <2>3. CASE last.needs = {}
    <3> DEFINE c == last.contract
    <3>1. c = s.calls[k].contract /\ s.calls[k].needs = {} BY <2>3 DEF last
    <3>2. EndVisit(s) = Return(t, c) BY <2>1, <2>2 DEF EndVisit
    <3>3. Visit(catalog, files, s) = EndVisit(s) BY <1>2, <2>2, <2>3 DEF Visit
    <3> HIDE DEF c
    <3>4. SearchInv(catalog, files, t) /\ Due(catalog, t, c) /\ c \in Range(t.walk.order)
      BY <1>2, <2>1, <2>3, <3>1, VisitedStep
    <3>5. SearchInv(catalog, files, Return(t, c)) BY <3>4, ReturnStep
    <3> QED BY <3>2, <3>3, <3>5
  <2>4. CASE last.needs # {}
    <3>1. Visit(catalog, files, s) = Follow(catalog, files, s) BY <1>2, <2>2, <2>4 DEF Visit
    <3>2. SearchInv(catalog, files, Follow(catalog, files, s))
      BY <1>2, <2>1, <2>4, FollowStep
    <3> QED BY <3>1, <3>2
  <2> QED BY <2>3, <2>4
<1>3. CASE ~Searched(s) /\ s.calls = <<>>
  <2>1. s.walk.error = "none" /\ (s.targets # {} \/ s.rest # {}) BY <1>3 DEF Searched
  <2>2. SearchTypes(catalog, s) BY DEF SearchInv
  <2>3. TakeTarget(s).walk.error = "none" /\ TakeAny(s).walk.error = "none"
    BY <2>1, <2>2 DEF TakeTarget, TakeAny, SearchTypes
  <2>4. CASE s.targets # {}
    <3>1. Visit(catalog, files, s) = Enter(catalog, TakeTarget(s), First(s.targets))
      BY <1>3, <2>4 DEF Visit
    <3> QED BY <1>3, <2>3, <2>4, <3>1, LoopsStep, EnterStep
  <2>5. CASE s.targets = {}
    <3>1. Visit(catalog, files, s) = Enter(catalog, TakeAny(s), First(s.rest))
      BY <1>3, <2>5 DEF Visit
    <3> QED BY <1>3, <2>1, <2>3, <2>5, <3>1, LoopsStep, EnterStep
  <2> QED BY <2>4, <2>5
<1> QED BY <1>1, <1>2, <1>3

-----------------------------------------------------------------------------
(* The search ends: each step does one of the things that are left *)

Met(s) == {s.calls[i].contract : i \in DOMAIN s.calls} \cup Range(s.walk.order)

\* c has to look for n still
Pending(catalog, s, c, n) ==
  \/ c \notin Met(s) /\ n \in catalog[c].needs
  \/ \E i \in DOMAIN s.calls : s.calls[i].contract = c /\ n \in s.calls[i].needs

\* The search t has done all that s has
Ahead(catalog, s, t) ==
  /\ Met(s) \subseteq Met(t) /\ Range(s.walk.order) \subseteq Range(t.walk.order)
  /\ t.targets \subseteq s.targets /\ t.rest \subseteq s.rest
  /\ \A c \in DOMAIN catalog : \A n \in Names : Pending(catalog, t, c, n) => Pending(catalog, s, c, n)

\* ... and something s has not
Further(catalog, s, t) ==
  \E c \in DOMAIN catalog :
    \/ c \in Met(t) /\ c \notin Met(s)
    \/ c \in Range(t.walk.order) /\ c \notin Range(s.walk.order)
    \/ c \in s.targets /\ c \notin t.targets
    \/ c \in s.rest /\ c \notin t.rest
    \/ \E n \in Names : Pending(catalog, s, c, n) /\ ~Pending(catalog, t, c, n)

LEMMA AheadIsOrder ==
  ASSUME NEW catalog, NEW s, NEW t, NEW u, Ahead(catalog, s, t), Ahead(catalog, t, u)
  PROVE  /\ Ahead(catalog, s, u)
         /\ Further(catalog, s, t) \/ Further(catalog, t, u) => Further(catalog, s, u)
BY DEF Ahead, Further

LEMMA AheadOfItself == \A catalog, s : Ahead(catalog, s, s)
BY DEF Ahead

LEMMA AdvancedAhead ==
  ASSUME Sorting \in Seq(Names),
         NEW catalog, NEW files, NEW s, SearchInv(catalog, files, s), s.calls # <<>>,
         Last(s.calls).needs # {}, NEW edges \in EdgesOf(catalog)
  PROVE  /\ Ahead(catalog, s, Advanced(s, edges)) /\ Further(catalog, s, Advanced(s, edges))
         /\ Advanced(s, edges).walk.error = s.walk.error /\ Advanced(s, edges).rest = s.rest
<1> DEFINE k == Len(s.calls)
           last == s.calls[k]
           n == NextNeed(last.needs)
           t == Advanced(s, edges)
<1>1. SearchTypes(catalog, s) /\ Once(s) BY DEF SearchInv
<1>2. /\ SearchTypes(catalog, t)
      /\ t.walk = [error |-> s.walk.error, order |-> s.walk.order, edges |-> s.walk.edges \cup edges]
      /\ t.targets = s.targets /\ t.rest = s.rest
      /\ Len(t.calls) = k /\ k \in Nat \ {0}
      /\ \A i \in 1 .. k - 1 : t.calls[i] = s.calls[i]
      /\ t.calls[k] = [contract |-> last.contract, needs |-> last.needs \ {n}]
  <2>1. t = Advanced(s, edges) /\ last = s.calls[Len(s.calls)] OBVIOUS
  <2> HIDE DEF t, last
  <2> QED BY <2>1, <1>1, AdvancedIs
<1>3. DOMAIN t.calls = 1 .. k /\ DOMAIN s.calls = 1 .. k BY <1>1, <1>2, CallsAre
<1>4. t.walk.order = s.walk.order /\ t.walk.error = s.walk.error BY <1>2
<1>5. /\ last = s.calls[k] /\ last.contract \in DOMAIN catalog /\ last.needs \subseteq Names
      /\ last.needs # {}
  <2>1. k = Len(s.calls) OBVIOUS
  <2> HIDE DEF k
  <2> QED BY <2>1, LastCall
<1> HIDE DEF t
<1>6. n \in last.needs /\ n \in Names BY <1>5, NextNeedIs
<1> HIDE DEF k, n, last
<1>7. k \in 1 .. k /\ \A i \in 1 .. k : i \in 1 .. k - 1 \/ i = k BY <1>2
<1>8. \A i \in 1 .. k : t.calls[i].contract = s.calls[i].contract
                        /\ t.calls[i].needs \subseteq s.calls[i].needs
  BY <1>2, <1>5, <1>7
<1>9. Met(t) = Met(s) BY <1>3, <1>4, <1>8 DEF Met
<1>10. Ahead(catalog, s, t)
  <2>1. \A c \in DOMAIN catalog : \A x \in Names : Pending(catalog, t, c, x) => Pending(catalog, s, c, x)
    BY <1>3, <1>8, <1>9 DEF Pending
  <2> QED BY <2>1, <1>2, <1>4, <1>9 DEF Ahead
<1>11. Pending(catalog, s, last.contract, n) BY <1>3, <1>5, <1>6, <1>7 DEF Pending
<1>12. ~Pending(catalog, t, last.contract, n)
  <2>1. last.contract \in Met(t) BY <1>3, <1>5, <1>7, <1>9 DEF Met
  <2>2. ASSUME NEW i \in 1 .. k, t.calls[i].contract = last.contract PROVE n \notin t.calls[i].needs
    <3>1. s.calls[i].contract = s.calls[k].contract BY <2>2, <1>5, <1>8
    <3>2. i = k BY <3>1, <1>1, <1>3, <1>7 DEF Once
    <3> QED BY <3>2, <1>2
  <2> QED BY <2>1, <2>2, <1>3 DEF Pending
<1>13. Further(catalog, s, t) BY <1>5, <1>6, <1>11, <1>12 DEF Further
<1> QED BY <1>2, <1>4, <1>10, <1>13 DEF t

LEMMA CallAhead ==
  ASSUME NEW catalog, IsCatalog(catalog), NEW s, SearchTypes(catalog, s),
         NEW c \in DOMAIN catalog, c \notin Met(s), NEW t, t = Call(catalog, s, c)
  PROVE  Ahead(catalog, s, t) /\ Further(catalog, s, t) /\ c \in Met(t)
<1> DEFINE k == Len(s.calls)
<1>1. /\ t.walk = s.walk /\ t.targets = s.targets /\ t.rest = s.rest
      /\ k \in Nat /\ DOMAIN s.calls = 1 .. k /\ DOMAIN t.calls = 1 .. k + 1
      /\ \A i \in 1 .. k : t.calls[i] = s.calls[i]
      /\ t.calls[k + 1] = [contract |-> c, needs |-> catalog[c].needs]
  <2>1. k = Len(s.calls) OBVIOUS
  <2> HIDE DEF k
  <2> QED BY <2>1, PushIs
<1> HIDE DEF k
<1>2. /\ k + 1 \in 1 .. k + 1 /\ \A i \in 1 .. k : i \in 1 .. k + 1
      /\ \A i \in 1 .. k + 1 : i \in 1 .. k \/ i = k + 1
  BY <1>1
<1>3. t.calls[k + 1].contract = c /\ t.calls[k + 1].needs = catalog[c].needs BY <1>1
<1>4. Met(t) = Met(s) \cup {c} BY <1>1, <1>2, <1>3 DEF Met
<1>5. ASSUME NEW d \in DOMAIN catalog, NEW x \in Names, Pending(catalog, t, d, x)
      PROVE  Pending(catalog, s, d, x)
  <2>1. CASE d \notin Met(t) BY <2>1, <1>2, <1>4, <1>5, <1>1, <1>3 DEF Pending, Met
  <2>2. CASE d \in Met(t)
    <3>1. PICK i \in 1 .. k + 1 : t.calls[i].contract = d /\ x \in t.calls[i].needs
      BY <2>2, <1>1, <1>5 DEF Pending
    <3>2. CASE i = k + 1 BY <3>1, <3>2, <1>3 DEF Pending
    <3>3. CASE i \in 1 .. k BY <3>1, <3>3, <1>1 DEF Pending
    <3> QED BY <3>2, <3>3, <1>2
  <2> QED BY <2>1, <2>2
<1> QED BY <1>1, <1>4, <1>5 DEF Ahead, Further

LEMMA ReturnAhead ==
  ASSUME Sorting \in Seq(Names), NEW catalog, NEW files, NEW s, SearchInv(catalog, files, s),
         NEW c, Due(catalog, s, c)
  PROVE  Ahead(catalog, s, Return(s, c)) /\ Return(s, c).rest = s.rest
<1>1. CASE s.calls = <<>> BY <1>1, AheadOfItself DEF Return
<1>2. CASE s.calls # <<>>
  <2> DEFINE last == s.calls[Len(s.calls)]
             edges == {<<last.contract, NextNeed(last.needs), c>>}
             t == Advanced(s, edges)
  <2>1. last.contract \in DOMAIN catalog /\ last.needs \subseteq Names /\ Last(s.calls) = last
    <3> DEFINE k == Len(s.calls)
    <3>1. k = Len(s.calls) OBVIOUS
    <3> HIDE DEF k
    <3>2. /\ Last(s.calls) = s.calls[k] /\ s.calls[k].contract \in DOMAIN catalog
          /\ s.calls[k].needs \subseteq Names
      BY <1>2, <3>1, LastCall
    <3> QED BY <3>1, <3>2
  <2>2. last.needs # {} BY <1>2 DEF Due, Wanted
  <2>3. NextNeed(last.needs) \in Names BY <2>1, <2>2, NextNeedIs
  <2>4. edges \in EdgesOf(catalog) BY <2>1, <2>3 DEF EdgesOf, Due
  <2>5. Return(s, c) = t BY <1>2, <2>1 DEF Return
  <2>6. Ahead(catalog, s, t) /\ t.rest = s.rest
    <3>1. Last(s.calls).needs # {} BY <2>1, <2>2
    <3> HIDE DEF edges
    <3> QED BY <1>2, <2>4, <3>1, AdvancedAhead
  <2> QED BY <2>5, <2>6
<1> QED BY <1>1, <1>2

LEMMA VisitedAhead ==
  ASSUME NEW catalog, IsCatalog(catalog), ~AmbiguousOutputs(catalog), NEW files,
         NEW s, SearchInv(catalog, files, s), s.calls # <<>>, Last(s.calls).needs = {}
  PROVE  Ahead(catalog, s, Visited(s)) /\ Further(catalog, s, Visited(s))
         /\ Visited(s).rest = s.rest
<1> DEFINE k == Len(s.calls)
           c == Last(s.calls).contract
           t == Visited(s)
           m == Len(s.walk.order)
<1>1. SearchTypes(catalog, s) /\ Once(s) BY DEF SearchInv
<1>2. /\ k \in Nat \ {0} /\ DOMAIN s.calls = 1 .. k /\ Last(s.calls) = s.calls[k]
      /\ c \in DOMAIN catalog
  <2>1. k = Len(s.calls) OBVIOUS
  <2> HIDE DEF k
  <2> QED BY <2>1, LastCall
<1>3. /\ t.targets = s.targets /\ t.rest = s.rest
      /\ DOMAIN t.calls = 1 .. k - 1 /\ \A i \in 1 .. k - 1 : t.calls[i] = s.calls[i]
      /\ t.walk.order = Append(s.walk.order, c)
  <2>1. k = Len(s.calls) OBVIOUS
  <2>2. s.calls[k].needs = {} BY <1>2
  <2>3. c = s.calls[k].contract BY <1>2
  <2>4. t = Visited(s) OBVIOUS
  <2> HIDE DEF k, c, t
  <2>5. SearchInv(catalog, files, t) /\ Due(catalog, t, c) /\ c \in Range(t.walk.order)
    BY <2>1, <2>2, <2>3, <2>4, VisitedStep
  <2> QED BY <2>1, <2>2, <2>3, <2>4, <2>5, VisitedStep
<1>4. s.walk.order \in Seq(DOMAIN catalog) BY <1>1 DEF SearchTypes
<1> HIDE DEF t, c, k, m
<1>5. Range(t.walk.order) = Range(s.walk.order) \cup {c}
  <2>1. /\ m \in Nat /\ DOMAIN s.walk.order = 1 .. m
        /\ DOMAIN Append(s.walk.order, c) = 1 .. m + 1
        /\ \A j \in 1 .. m : Append(s.walk.order, c)[j] = s.walk.order[j]
        /\ Append(s.walk.order, c)[m + 1] = c
    BY <1>2, <1>4 DEF m
  <2>2. /\ m + 1 \in 1 .. m + 1 /\ \A j \in 1 .. m : j \in 1 .. m + 1
        /\ \A j \in 1 .. m + 1 : j \in 1 .. m \/ j = m + 1
    BY <2>1
  <2> QED BY <2>1, <2>2, <1>3 DEF Range
<1>6. /\ k \in 1 .. k /\ \A i \in 1 .. k - 1 : i \in 1 .. k
      /\ \A i \in 1 .. k : i \in 1 .. k - 1 \/ i = k
  BY <1>2
<1>7. s.calls[k].contract = c BY <1>2 DEF c
<1>8. Met(t) = Met(s)
  <2>1. {t.calls[i].contract : i \in DOMAIN t.calls} \cup {c}
          = {s.calls[i].contract : i \in DOMAIN s.calls}
    <3>1. \A i \in 1 .. k : s.calls[i].contract = IF i = k THEN c ELSE t.calls[i].contract
      BY <1>2, <1>3, <1>7
    <3>2. \A i \in 1 .. k - 1 : i # k BY <1>2
    <3>3. \A i \in 1 .. k - 1 : t.calls[i].contract = s.calls[i].contract BY <1>3
    <3>4. {t.calls[i].contract : i \in 1 .. k - 1} \cup {c} = {s.calls[i].contract : i \in 1 .. k}
      BY <3>1, <3>2, <3>3, <1>6, <1>7
    <3> QED BY <3>4, <1>2, <1>3
  <2> QED BY <2>1, <1>5 DEF Met
<1>9. c \notin Range(s.walk.order)
  <2>1. \A j \in DOMAIN s.walk.order : s.calls[k].contract # s.walk.order[j]
    BY <1>1, <1>2, <1>6 DEF Once
  <2> QED BY <2>1, <1>7 DEF Range
<1>10. \A d \in DOMAIN catalog : \A n \in Names : Pending(catalog, t, d, n) => Pending(catalog, s, d, n)
  BY <1>2, <1>3, <1>6, <1>8 DEF Pending
<1> QED BY <1>2, <1>3, <1>5, <1>8, <1>9, <1>10 DEF Ahead, Further, t

LEMMA LoopsAhead ==
  ASSUME NEW catalog, IsCatalog(catalog), NEW files, NEW s, SearchInv(catalog, files, s),
         s.calls = <<>>
  PROVE  /\ s.targets # {} =>
              /\ Ahead(catalog, s, TakeTarget(s)) /\ Further(catalog, s, TakeTarget(s))
              /\ TakeTarget(s).rest = s.rest
         /\ s.rest # {} =>
              /\ Ahead(catalog, s, TakeAny(s)) /\ Further(catalog, s, TakeAny(s))
              /\ TakeAny(s).rest = s.rest \ {First(s.rest)}
<1>1. SearchTypes(catalog, s) BY DEF SearchInv
<1> DEFINE t == TakeTarget(s)
           u == TakeAny(s)
<1>2. /\ t.walk = s.walk /\ t.calls = s.calls /\ t.targets = s.targets \ {First(s.targets)}
      /\ t.rest = s.rest
  BY <1>1 DEF SearchTypes, TakeTarget
<1>3. /\ u.walk = s.walk /\ u.calls = s.calls /\ u.rest = s.rest \ {First(s.rest)}
      /\ u.targets = s.targets
  BY <1>1 DEF SearchTypes, TakeAny
<1>4. s.targets \subseteq DOMAIN catalog /\ s.rest \subseteq DOMAIN catalog BY <1>1 DEF SearchTypes
<1> HIDE DEF t, u
<1>5. Ahead(catalog, s, t) BY <1>2 DEF Ahead, Met, Pending
<1>6. Ahead(catalog, s, u) BY <1>3 DEF Ahead, Met, Pending
<1>7. s.targets # {} => Further(catalog, s, t) BY <1>2, <1>4, LoopsStep DEF Further
<1>8. s.rest # {} => Further(catalog, s, u) BY <1>3, <1>4, LoopsStep DEF Further
<1> QED BY <1>2, <1>3, <1>5, <1>6, <1>7, <1>8 DEF t, u

\* After the call of visit the contract is visited, or is being visited
LEMMA EnterAhead ==
  ASSUME Sorting \in Seq(Names), NEW catalog, IsCatalog(catalog), NEW files,
         NEW s, SearchInv(catalog, files, s), NEW c, Due(catalog, s, c),
         NEW t, t = Enter(catalog, s, c), t.walk.error = "none"
  PROVE  /\ Ahead(catalog, s, t) /\ c \in Met(t) /\ t.rest = s.rest
         /\ s.calls # <<>> => Further(catalog, s, t)
<1>1. SearchTypes(catalog, s) /\ c \in DOMAIN catalog BY DEF SearchInv, Due
<1>2. CASE c \in Active(s)
  <2>1. t.walk.error = "contract_cycle" BY <1>1, <1>2 DEF Enter, Halted, Stop, SearchTypes
  <2> QED BY <2>1
<1>3. CASE c \notin Active(s) /\ c \in Range(s.walk.order)
  <2>1. t = Return(s, c) BY <1>3 DEF Enter
  <2>2. Ahead(catalog, s, t) /\ t.rest = s.rest BY <2>1, ReturnAhead
  <2>3. c \in Met(t) BY <1>3, <2>2 DEF Ahead, Met
  <2>4. ASSUME s.calls # <<>> PROVE Further(catalog, s, t)
    <3> DEFINE edges == {<<Last(s.calls).contract, NextNeed(Last(s.calls).needs), c>>}
               k == Len(s.calls)
    <3>1. k = Len(s.calls) OBVIOUS
    <3> HIDE DEF k
    <3>2. /\ Last(s.calls) = s.calls[k] /\ s.calls[k].contract \in DOMAIN catalog
          /\ s.calls[k].needs \subseteq Names
      BY <2>4, <3>1, LastCall
    <3>3. Last(s.calls).needs # {} BY <2>4, <3>1, <3>2 DEF Due, Wanted
    <3>4. edges \in EdgesOf(catalog) BY <1>1, <3>2, <3>3, NextNeedIs DEF EdgesOf
    <3>5. t = Advanced(s, edges) BY <2>1, <2>4 DEF Return
    <3> HIDE DEF edges
    <3>6. Further(catalog, s, Advanced(s, edges)) BY <2>4, <3>3, <3>4, AdvancedAhead
    <3> QED BY <3>5, <3>6
  <2> QED BY <2>2, <2>3, <2>4
<1>4. CASE c \notin Active(s) /\ c \notin Range(s.walk.order)
  <2>1. t = Call(catalog, s, c) BY <1>4 DEF Enter
  <2>2. c \notin Met(s) BY <1>4 DEF Met, Active
  <2>3. Ahead(catalog, s, t) /\ Further(catalog, s, t) /\ c \in Met(t)
    BY <1>1, <2>1, <2>2, CallAhead
  <2>4. t.rest = s.rest BY <1>1, <2>1 DEF SearchTypes, Call
  <2> QED BY <2>3, <2>4
<1> QED BY <1>2, <1>3, <1>4

LEMMA FollowAhead ==
  ASSUME Sorting \in Seq(Names), NEW catalog, IsCatalog(catalog), NEW files,
         NEW s, SearchInv(catalog, files, s), s.walk.error = "none",
         s.calls # <<>>, NEW last, last = s.calls[Len(s.calls)], last.needs # {},
         NEW t, t = Follow(catalog, files, s), t.walk.error = "none"
  PROVE  Ahead(catalog, s, t) /\ Further(catalog, s, t) /\ t.rest = s.rest
<1> DEFINE n == NextNeed(last.needs)
           p == CHOOSE i \in Makers(catalog, n) : TRUE
<1>1. SearchTypes(catalog, s) BY DEF SearchInv
<1>2. Last(s.calls) = last BY DEF Last
<1>3. \A code : Halted(s, code).walk.error = code BY <1>1 DEF SearchTypes, Halted, Stop
<1>4. Follow(catalog, files, s) =
        CASE Makers(catalog, n) = {} ->
               IF n \in files THEN Advanced(s, {}) ELSE Halted(s, "missing_input")
          [] OTHER ->
               IF n \notin catalog[p].outputs THEN Halted(s, "source_collision")
               ELSE Enter(catalog, s, p)
  BY <1>2 DEF Follow
<1> HIDE DEF n, p
<1>5. CASE Makers(catalog, n) = {} /\ n \in files
  <2> DEFINE none == {}
  <2>1. none \in EdgesOf(catalog) BY DEF EdgesOf
  <2>2. t = Advanced(s, none) BY <1>4, <1>5
  <2> HIDE DEF none
  <2>3. Last(s.calls).needs # {} BY <1>2
  <2>4. /\ Ahead(catalog, s, Advanced(s, none)) /\ Further(catalog, s, Advanced(s, none))
        /\ Advanced(s, none).rest = s.rest
    BY <2>1, <2>3, AdvancedAhead
  <2> QED BY <2>2, <2>4
<1>6. CASE Makers(catalog, n) = {} /\ n \notin files
  <2>1. t = Halted(s, "missing_input") BY <1>4, <1>6
  <2> QED BY <2>1, <1>3
<1>7. CASE Makers(catalog, n) # {}
  <2>1. p \in Makers(catalog, n) BY <1>7 DEF p
  <2>2. CASE n \notin catalog[p].outputs
    <3>1. t = Halted(s, "source_collision") BY <1>4, <1>7, <2>2
    <3> QED BY <3>1, <1>3
  <2>3. CASE n \in catalog[p].outputs
    <3>1. p \in DOMAIN catalog BY <2>1, MakersAre
    <3>2. Due(catalog, s, p) BY <3>1, <2>1, <2>3 DEF Due, Wanted, n
    <3>3. t = Enter(catalog, s, p) BY <1>4, <1>7, <2>3
    <3> QED BY <3>2, <3>3, EnterAhead
  <2> QED BY <2>2, <2>3
<1> QED BY <1>5, <1>6, <1>7

LEMMA VisitAhead ==
  ASSUME Sorting \in Seq(Names), NEW catalog, IsCatalog(catalog), ~AmbiguousOutputs(catalog),
         NEW files, NEW s, SearchInv(catalog, files, s), ~Searched(s),
         NEW t, t = Visit(catalog, files, s), t.walk.error = "none"
  PROVE  /\ Ahead(catalog, s, t) /\ Further(catalog, s, t)
         /\ \A c \in s.rest : c \in t.rest \/ c \in Met(t)
<1>1. s.walk.error = "none" BY DEF Searched
<1>2. CASE s.calls # <<>> /\ Last(s.calls).needs = {}
  <2> DEFINE k == Len(s.calls)
             c == s.calls[k].contract
             u == Visited(s)
  <2>1. k = Len(s.calls) /\ c = s.calls[k].contract /\ u = Visited(s) OBVIOUS
  <2> HIDE DEF k, c, u
  <2>2. Last(s.calls) = s.calls[k] BY <1>2, <2>1, LastCall
  <2>3. s.calls[k].needs = {} BY <1>2, <2>2
  <2>4. SearchInv(catalog, files, u) /\ Due(catalog, u, c) /\ c \in Range(u.walk.order)
    BY <1>2, <2>1, <2>3, VisitedStep
  <2>5. Ahead(catalog, s, u) /\ Further(catalog, s, u) /\ u.rest = s.rest
    BY <1>2, <2>1, VisitedAhead
  <2>6. t = Return(u, c) BY <1>2, <2>1, <2>2 DEF Visit, EndVisit
  <2>7. Ahead(catalog, u, Return(u, c)) /\ Return(u, c).rest = u.rest BY <2>4, ReturnAhead
  <2>8. Ahead(catalog, u, t) /\ t.rest = s.rest BY <2>5, <2>6, <2>7
  <2>9. Ahead(catalog, s, t) /\ Further(catalog, s, t) BY <2>5, <2>8, AheadIsOrder
  <2> QED BY <2>8, <2>9
<1>3. CASE s.calls # <<>> /\ Last(s.calls).needs # {}
  <2> DEFINE last == s.calls[Len(s.calls)]
  <2>1. t = Follow(catalog, files, s) BY <1>3 DEF Visit
  <2>2. last = s.calls[Len(s.calls)] /\ last.needs # {} BY <1>3 DEF Last
  <2>3. s.calls # <<>> BY <1>3
  <2> HIDE DEF last
  <2>4. Ahead(catalog, s, t) BY <1>1, <2>1, <2>2, <2>3, FollowAhead
  <2>5. Further(catalog, s, t) BY <1>1, <2>1, <2>2, <2>3, FollowAhead
  <2>6. t.rest = s.rest BY <1>1, <2>1, <2>2, <2>3, <2>4, <2>5, FollowAhead, SMTT(20)
  <2> QED BY <2>4, <2>5, <2>6
<1>4. CASE s.calls = <<>> /\ s.targets # {}
  <2> DEFINE u == TakeTarget(s)
             c == First(s.targets)
  <2>1. t = Enter(catalog, u, c) BY <1>4 DEF Visit
  <2>2. SearchInv(catalog, files, u) /\ Due(catalog, u, c) BY <1>4, LoopsStep
  <2>3. Ahead(catalog, s, u) /\ Further(catalog, s, u) /\ u.rest = s.rest BY <1>4, LoopsAhead
  <2> HIDE DEF u, c
  <2>4. Ahead(catalog, u, t) /\ t.rest = u.rest BY <2>1, <2>2, EnterAhead
  <2>5. Ahead(catalog, s, t) /\ Further(catalog, s, t) BY <2>3, <2>4, AheadIsOrder
  <2> QED BY <2>3, <2>4, <2>5
<1>5. CASE s.calls = <<>> /\ s.targets = {}
  <2> DEFINE u == TakeAny(s)
             c == First(s.rest)
  <2>1. t = Enter(catalog, u, c) BY <1>5 DEF Visit
  <2>2. s.rest # {} BY <1>5 DEF Searched
  <2>3. SearchInv(catalog, files, u) /\ Due(catalog, u, c) BY <1>5, <2>2, LoopsStep
  <2>4. Ahead(catalog, s, u) /\ Further(catalog, s, u) /\ u.rest = s.rest \ {c}
    BY <1>5, <2>2, LoopsAhead
  <2> HIDE DEF u, c
  <2>5. Ahead(catalog, u, t) /\ t.rest = u.rest /\ c \in Met(t) BY <2>1, <2>3, EnterAhead
  <2>6. Ahead(catalog, s, t) /\ Further(catalog, s, t) BY <2>4, <2>5, AheadIsOrder
  <2> QED BY <2>4, <2>5, <2>6
<1> QED BY <1>2, <1>3, <1>4, <1>5

\* What is left to do: the names a contract has to look for, and four more things
Chores(catalog) == (DOMAIN catalog) \X (1 .. Len(Sorting) + 4)

IsLeft(catalog, s, c, k) ==
  \/ k \in DOMAIN Sorting /\ Pending(catalog, s, c, Sorting[k])
  \/ k = Len(Sorting) + 1 /\ c \notin Met(s)
  \/ k = Len(Sorting) + 2 /\ c \notin Range(s.walk.order)
  \/ k = Len(Sorting) + 3 /\ c \in s.targets
  \/ k = Len(Sorting) + 4 /\ c \in s.rest

Left(catalog, s) == {x \in Chores(catalog) : IsLeft(catalog, s, x[1], x[2])}

LEMMA ChoresCount ==
  ASSUME NEW catalog, IsCatalog(catalog), Sorting \in Seq(Names)
  PROVE  IsFiniteSet(Chores(catalog)) /\ Cardinality(Chores(catalog)) = Steps(catalog)
<1> DEFINE m == Len(catalog)
           n == Len(Sorting) + 4
<1>1. m \in Nat /\ DOMAIN catalog = 1 .. m BY DEF IsCatalog
<1>2. n \in Nat OBVIOUS
<1>3. Chores(catalog) = (1 .. m) \X (1 .. n) /\ Steps(catalog) = m * n
  BY <1>1 DEF Chores, Steps
<1> HIDE DEF m, n
<1>4. /\ IsFiniteSet(1 .. m) /\ Cardinality(1 .. m) = m
      /\ IsFiniteSet(1 .. n) /\ Cardinality(1 .. n) = n
  <2>1. 1 \in Int /\ m \in Int /\ n \in Int BY <1>1, <1>2
  <2>2. /\ IsFiniteSet(1 .. m) /\ Cardinality(1 .. m) = IF 1 > m THEN 0 ELSE m - 1 + 1
        /\ IsFiniteSet(1 .. n) /\ Cardinality(1 .. n) = IF 1 > n THEN 0 ELSE n - 1 + 1
    BY <2>1, FS_Interval
  <2> QED BY <2>2, <1>1, <1>2
<1>5. /\ IsFiniteSet((1 .. m) \X (1 .. n))
      /\ Cardinality((1 .. m) \X (1 .. n)) = Cardinality(1 .. m) * Cardinality(1 .. n)
  BY <1>4, FS_Product
<1> QED BY <1>3, <1>4, <1>5

LEMMA LeftShrinks ==
  ASSUME Sorting \in Seq(Names), NEW catalog, IsCatalog(catalog), NEW s, NEW t,
         Ahead(catalog, s, t), Further(catalog, s, t)
  PROVE  Left(catalog, t) \subseteq Left(catalog, s) /\ Left(catalog, t) # Left(catalog, s)
<1> DEFINE n == Len(Sorting)
<1>1. n \in Nat /\ DOMAIN Sorting = 1 .. n /\ \A k \in 1 .. n : Sorting[k] \in Names OBVIOUS
<1>2. \A x \in Chores(catalog) : x[1] \in DOMAIN catalog /\ x[2] \in 1 .. n + 4 BY DEF Chores
<1>3. \A c \in DOMAIN catalog, k \in 1 .. n + 4 :
        <<c, k>> \in Chores(catalog) /\ <<c, k>>[1] = c /\ <<c, k>>[2] = k
  BY DEF Chores
<1>4. /\ \A k \in 1 .. n : k \in 1 .. n + 4 /\ k # n + 1 /\ k # n + 2 /\ k # n + 3 /\ k # n + 4
      /\ n + 1 \in 1 .. n + 4 /\ n + 2 \in 1 .. n + 4 /\ n + 3 \in 1 .. n + 4 /\ n + 4 \in 1 .. n + 4
      /\ n + 1 \notin 1 .. n /\ n + 2 \notin 1 .. n /\ n + 3 \notin 1 .. n /\ n + 4 \notin 1 .. n
      /\ n + 1 # n + 2 /\ n + 1 # n + 3 /\ n + 1 # n + 4
      /\ n + 2 # n + 3 /\ n + 2 # n + 4 /\ n + 3 # n + 4
  BY <1>1
<1>5. \A u : \A c \in DOMAIN catalog, k \in 1 .. n + 4 :
        IsLeft(catalog, u, c, k) <=>
          \/ k \in 1 .. n /\ Pending(catalog, u, c, Sorting[k])
          \/ k = n + 1 /\ c \notin Met(u)
          \/ k = n + 2 /\ c \notin Range(u.walk.order)
          \/ k = n + 3 /\ c \in u.targets
          \/ k = n + 4 /\ c \in u.rest
  BY <1>1 DEF IsLeft
<1> HIDE DEF n
<1>6. \A c \in DOMAIN catalog, k \in 1 .. n + 4 :
        IsLeft(catalog, t, c, k) => IsLeft(catalog, s, c, k)
  BY <1>1, <1>5 DEF Ahead
<1>7. \E c \in DOMAIN catalog, k \in 1 .. n + 4 :
        IsLeft(catalog, s, c, k) /\ ~IsLeft(catalog, t, c, k)
  <2>1. PICK c \in DOMAIN catalog :
          \/ c \in Met(t) /\ c \notin Met(s)
          \/ c \in Range(t.walk.order) /\ c \notin Range(s.walk.order)
          \/ c \in s.targets /\ c \notin t.targets
          \/ c \in s.rest /\ c \notin t.rest
          \/ \E x \in Names : Pending(catalog, s, c, x) /\ ~Pending(catalog, t, c, x)
    BY DEF Further
  <2>2. CASE c \in Met(t) /\ c \notin Met(s)
    <3>1. IsLeft(catalog, s, c, n + 1) /\ ~IsLeft(catalog, t, c, n + 1) BY <2>2, <1>4, <1>5
    <3> QED BY <3>1, <1>4
  <2>3. CASE c \in Range(t.walk.order) /\ c \notin Range(s.walk.order)
    <3>1. IsLeft(catalog, s, c, n + 2) /\ ~IsLeft(catalog, t, c, n + 2) BY <2>3, <1>4, <1>5
    <3> QED BY <3>1, <1>4
  <2>4. CASE c \in s.targets /\ c \notin t.targets
    <3>1. IsLeft(catalog, s, c, n + 3) /\ ~IsLeft(catalog, t, c, n + 3) BY <2>4, <1>4, <1>5
    <3> QED BY <3>1, <1>4
  <2>5. CASE c \in s.rest /\ c \notin t.rest
    <3>1. IsLeft(catalog, s, c, n + 4) /\ ~IsLeft(catalog, t, c, n + 4) BY <2>5, <1>4, <1>5
    <3> QED BY <3>1, <1>4
  <2>6. CASE \E x \in Names : Pending(catalog, s, c, x) /\ ~Pending(catalog, t, c, x)
    <3>1. PICK x \in Names : Pending(catalog, s, c, x) /\ ~Pending(catalog, t, c, x) BY <2>6
    <3>2. PICK k \in 1 .. n : Sorting[k] = x BY <1>1 DEF Names, Range
    <3>3. IsLeft(catalog, s, c, k) /\ ~IsLeft(catalog, t, c, k) BY <3>1, <3>2, <1>4, <1>5
    <3> QED BY <3>3, <1>4
  <2> QED BY <2>1, <2>2, <2>3, <2>4, <2>5, <2>6
<1>8. Left(catalog, t) \subseteq Left(catalog, s) BY <1>2, <1>6 DEF Left
<1>9. PICK c \in DOMAIN catalog, k \in 1 .. n + 4 :
        IsLeft(catalog, s, c, k) /\ ~IsLeft(catalog, t, c, k)
  BY <1>7
<1>10. <<c, k>> \in Left(catalog, s) /\ <<c, k>> \notin Left(catalog, t) BY <1>3, <1>9 DEF Left
<1> QED BY <1>8, <1>10

LEMMA NothingLeft ==
  ASSUME Sorting \in Seq(Names), NEW catalog, NEW files, NEW s, SearchInv(catalog, files, s),
         Left(catalog, s) = {}
  PROVE  Searched(s)
<1> DEFINE n == Len(Sorting)
<1>1. n \in Nat OBVIOUS
<1>2. SearchTypes(catalog, s) /\ Once(s) BY DEF SearchInv
<1>3. \A c \in DOMAIN catalog, k \in 1 .. n + 4 : ~IsLeft(catalog, s, c, k)
  <2> SUFFICES ASSUME NEW c \in DOMAIN catalog, NEW k \in 1 .. n + 4, IsLeft(catalog, s, c, k)
               PROVE  FALSE
    OBVIOUS
  <2>1. <<c, k>> \in Chores(catalog) /\ <<c, k>>[1] = c /\ <<c, k>>[2] = k BY DEF Chores
  <2> QED BY <2>1 DEF Left
<1> HIDE DEF n
<1>4. n + 2 \in 1 .. n + 4 /\ n + 3 \in 1 .. n + 4 /\ n + 4 \in 1 .. n + 4 BY <1>1
<1>5. \A c \in DOMAIN catalog : c \in Range(s.walk.order) /\ c \notin s.targets /\ c \notin s.rest
  BY <1>3, <1>4 DEF IsLeft, n
<1>6. s.targets \subseteq DOMAIN catalog /\ s.rest \subseteq DOMAIN catalog
  BY <1>2 DEF SearchTypes
<1>7. s.calls = <<>>
  <2> SUFFICES ASSUME s.calls # <<>> PROVE FALSE OBVIOUS
  <2> DEFINE k == Len(s.calls)
  <2>1. k = Len(s.calls) OBVIOUS
  <2> HIDE DEF k
  <2>2. k \in Nat \ {0} /\ DOMAIN s.calls = 1 .. k /\ s.calls[k].contract \in DOMAIN catalog
    BY <2>1, LastCall
  <2>3. k \in DOMAIN s.calls BY <2>2
  <2>4. PICK j \in DOMAIN s.walk.order : s.walk.order[j] = s.calls[k].contract
    BY <2>2, <1>5 DEF Range
  <2> QED BY <2>3, <2>4, <1>2 DEF Once
<1> QED BY <1>5, <1>6, <1>7 DEF Searched

\* Every contract is met, or its turn comes
Covered(catalog, s) == \A c \in DOMAIN catalog : c \in s.rest \/ c \in Met(s)

LEMMA SearchStarts ==
  ASSUME NEW catalog, NEW files, NEW targets, targets \subseteq DOMAIN catalog
  PROVE  LET s == Searching(targets, DOMAIN catalog)
         IN  SearchInv(catalog, files, s) /\ Covered(catalog, s) /\ s.walk.error = "none"
<1> DEFINE s == Searching(targets, DOMAIN catalog)
<1>1. /\ s = [walk |-> s.walk, calls |-> s.calls, targets |-> s.targets, rest |-> s.rest]
      /\ s.calls = <<>> /\ s.targets = targets /\ s.rest = DOMAIN catalog
      /\ s.walk = [error |-> "none", order |-> <<>>, edges |-> {}]
      /\ s.walk.error = "none" /\ s.walk.order = <<>> /\ s.walk.edges = {}
  BY DEF Searching, Unvisited
<1>2. DOMAIN s.calls = {} /\ DOMAIN s.walk.order = {}
  <2>1. DOMAIN <<>> = {} OBVIOUS
  <2> QED BY <2>1, <1>1
<1> HIDE DEF s
<1>3. SearchTypes(catalog, s)
  <2> DEFINE Walks == [error : Errors, order : Seq(DOMAIN catalog), edges : EdgesOf(catalog)]
             Calls == Seq([contract : DOMAIN catalog, needs : SUBSET Names])
  <2>1. \A S : <<>> \in Seq(S) OBVIOUS
  <2>2. s.walk \in Walks BY <2>1, <1>1 DEF Errors, EdgesOf
  <2>3. s.calls \in Calls BY <2>1, <1>1
  <2> HIDE DEF Walks, Calls
  <2>4. s \in [walk : Walks, calls : Calls, targets : SUBSET DOMAIN catalog,
              rest : SUBSET DOMAIN catalog]
    BY <2>2, <2>3, <1>1
  <2> QED BY <2>4 DEF SearchTypes, Walks, Calls
<1>4. Once(s) /\ Linked(catalog, s) /\ Settled(catalog, files, s)
  BY <1>2 DEF Once, Linked, Settled
<1>5. Ordered(catalog, s.walk) /\ EdgesAreMade(catalog, s.walk) BY <1>1, <1>2 DEF Ordered, EdgesAreMade
<1>6. ErrorIsReal(catalog, files, s.walk) BY <1>1 DEF ErrorIsReal
<1>7. SearchInv(catalog, files, s) BY <1>3, <1>4, <1>5, <1>6 DEF SearchInv
<1>8. Covered(catalog, s) BY <1>1 DEF Covered
<1> QED BY <1>1, <1>7, <1>8 DEF s

\* Steps(catalog) steps are enough
LEMMA SearchEnds ==
  ASSUME Sorting \in Seq(Names), NEW catalog, IsCatalog(catalog), ~AmbiguousOutputs(catalog),
         NEW files, NEW start, SearchInv(catalog, files, start), start.walk.error = "none",
         Covered(catalog, start),
         NEW end, end = Search(catalog, files, start)[Steps(catalog)]
  PROVE  SearchInv(catalog, files, end) /\ Searched(end)
         /\ (end.walk.error = "none" => Covered(catalog, end))
<1> DEFINE f == Search(catalog, files, start)
           most == Steps(catalog)
           size(s) == Cardinality(Left(catalog, s))
           A == {k \in Nat : /\ SearchInv(catalog, files, f[k])
                             /\ f[k].walk.error = "none" => Covered(catalog, f[k])
                             /\ Searched(f[k]) \/ size(f[k]) <= most - k}
<1>1. f[0] = start /\ \A k \in Nat : f[k + 1] = Visit(catalog, files, f[k])
  BY SearchIsIteration
<1> HIDE DEF f
<1>2. \A s : Left(catalog, s) \subseteq Chores(catalog) BY DEF Left
<1>3. IsFiniteSet(Chores(catalog)) /\ Cardinality(Chores(catalog)) = most BY ChoresCount
<1>4. most \in Nat BY <1>3, FS_CardinalityType
<1>5. \A s : /\ IsFiniteSet(Left(catalog, s)) /\ size(s) \in Nat /\ size(s) <= most
  <2> TAKE s
  <2>1. Left(catalog, s) \in SUBSET Chores(catalog) BY <1>2
  <2>2. IsFiniteSet(Left(catalog, s)) /\ Cardinality(Left(catalog, s)) <= most
    BY <2>1, <1>3, FS_Subset
  <2> QED BY <2>2, FS_CardinalityType
<1> HIDE DEF most
<1>6. 0 \in A
  <2>1. most - 0 = most BY <1>4
  <2> QED BY <2>1, <1>1, <1>5
<1>7. ASSUME NEW k \in Nat, k \in A PROVE k + 1 \in A
  <2> DEFINE s == f[k]
             t == f[k + 1]
  <2>1. t = Visit(catalog, files, s) BY <1>1
  <2>2. SearchInv(catalog, files, s) /\ (Searched(s) \/ size(s) <= most - k)
        /\ (s.walk.error = "none" => Covered(catalog, s))
    BY <1>7
  <2> HIDE DEF s, t
  <2>3. SearchInv(catalog, files, t) BY <2>1, <2>2, VisitKeepsInv
  <2>4. CASE Searched(s)
    <3>1. t = s BY <2>1, <2>4 DEF Visit
    <3>2. SearchInv(catalog, files, t) /\ (t.walk.error = "none" => Covered(catalog, t)) /\ Searched(t)
      BY <3>1, <2>2, <2>4
    <3> QED BY <3>2 DEF t
  <2>5. CASE ~Searched(s) /\ t.walk.error # "none"
    <3>1. Searched(t) BY <2>5 DEF Searched
    <3> QED BY <3>1, <2>3, <2>5 DEF t
  <2>6. CASE ~Searched(s) /\ t.walk.error = "none"
    <3>1. /\ Ahead(catalog, s, t) /\ Further(catalog, s, t)
          /\ \A c \in s.rest : c \in t.rest \/ c \in Met(t)
      BY <2>1, <2>2, <2>6, VisitAhead
    <3>2. s.walk.error = "none" BY <2>6 DEF Searched
    <3>3. Covered(catalog, t) BY <3>1, <3>2, <2>2 DEF Covered, Ahead
    <3>4. Left(catalog, t) \subseteq Left(catalog, s) /\ Left(catalog, t) # Left(catalog, s)
      BY <3>1, LeftShrinks
    <3>5. Left(catalog, t) \in SUBSET Left(catalog, s) BY <3>4
    <3>6. size(t) <= size(s) /\ size(t) # size(s) BY <3>4, <3>5, <1>5, FS_Subset
    <3>7. size(s) <= most - k BY <2>2, <2>6
    <3> DEFINE m == size(s)
               n == size(t)
    <3>8. m \in Nat /\ n \in Nat /\ n <= m /\ n # m /\ m <= most - k BY <3>6, <3>7, <1>5
    <3> HIDE DEF m, n
    <3>9. n <= most - (k + 1) BY <3>8, <1>4
    <3> QED BY <3>3, <3>9, <2>3 DEF n, t
  <2> QED BY <2>4, <2>5, <2>6
<1>8. Nat \subseteq A
  <2> HIDE DEF A
  <2> QED BY <1>6, <1>7, Induct
<1>9. most \in A BY <1>4, <1>8
<1>10. end = f[most] BY DEF f, most
<1>11. /\ SearchInv(catalog, files, end) /\ (end.walk.error = "none" => Covered(catalog, end))
       /\ Searched(end) \/ size(end) <= most - most
  BY <1>9, <1>10
<1>12. ASSUME size(end) <= most - most PROVE Searched(end)
  <2>1. size(end) = 0
    <3> DEFINE m == size(end)
    <3>1. m \in Nat /\ m <= most - most BY <1>5, <1>12
    <3> HIDE DEF m
    <3>2. m = 0 BY <3>1, <1>4
    <3> QED BY <3>2 DEF m
  <2>2. Left(catalog, end) = {} BY <2>1, <1>5, FS_EmptySet
  <2> QED BY <2>2, <1>11, NothingLeft
<1> QED BY <1>11, <1>12

-----------------------------------------------------------------------------
(* What the search has found at its end *)

LEMMA SameLength ==
  ASSUME NEW m \in Nat, NEW q \in Seq(1 .. m),
         \A i, j \in DOMAIN q : q[i] = q[j] => i = j,
         \A c \in 1 .. m : \E j \in DOMAIN q : q[j] = c
  PROVE  Len(q) = m
<1> DEFINE n == Len(q)
<1>1. n \in Nat /\ q \in [1 .. n -> 1 .. m] /\ DOMAIN q = 1 .. n BY LenProperties
<1> HIDE DEF n
<1>2. q \in Bijection(1 .. n, 1 .. m)
  <2>1. \A a, b \in 1 .. n : q[a] = q[b] => a = b BY <1>1
  <2>2. \A c \in 1 .. m : \E j \in 1 .. n : q[j] = c BY <1>1
  <2> QED BY <1>1, <2>1, <2>2, Fun_IsBij
<1>3. ExistsBijection(1 .. n, 1 .. m) BY <1>2, Fun_ExistsBij
<1>4. ExistsBijection(1 .. m, 1 .. m) BY Fun_ExistsBijReflexive
<1>5. n = m BY <1>1, <1>3, <1>4, Fun_NatBijSame
<1> QED BY <1>5 DEF n

LEMMA WalkEnds ==
  ASSUME Sorting \in Seq(Names), NEW catalog, IsCatalog(catalog), ~AmbiguousOutputs(catalog),
         NEW files, NEW walk, walk = Walk(catalog, files)
  PROVE  \E end : /\ walk = end.walk /\ SearchInv(catalog, files, end) /\ Searched(end)
                  /\ end.walk.error = "none" => Covered(catalog, end)
<1> DEFINE targets == DOMAIN catalog \ Consumed(catalog)
           start == Searching(targets, DOMAIN catalog)
           end == Search(catalog, files, start)[Steps(catalog)]
<1>1. targets \subseteq DOMAIN catalog OBVIOUS
<1>2. walk = end.walk BY DEF Walk
<1>3. end = Search(catalog, files, start)[Steps(catalog)] OBVIOUS
<1> HIDE DEF targets
<1>4. SearchInv(catalog, files, start) /\ Covered(catalog, start) /\ start.walk.error = "none"
  BY <1>1, SearchStarts
<1> HIDE DEF start, end
<1>5. SearchInv(catalog, files, end) /\ Searched(end)
      /\ (end.walk.error = "none" => Covered(catalog, end))
  BY <1>3, <1>4, SearchEnds
<1> QED BY <1>2, <1>5

\* Without an error every contract is in the order, and every need has its source
LEMMA WalkFinds ==
  ASSUME Sorting \in Seq(Names), NEW catalog, IsCatalog(catalog), ~AmbiguousOutputs(catalog),
         NEW files, NEW walk, walk = Walk(catalog, files), walk.error = "none"
  PROVE  /\ walk.order \in Seq(DOMAIN catalog)
         /\ \A i, j \in DOMAIN walk.order : walk.order[i] = walk.order[j] => i = j
         /\ \A c \in DOMAIN catalog : \E j \in DOMAIN walk.order : walk.order[j] = c
         /\ \A c \in DOMAIN catalog : \A n \in catalog[c].needs : Found(catalog, files, walk, c, n)
         /\ Ordered(catalog, walk) /\ EdgesAreMade(catalog, walk)
<1>1. PICK end : /\ walk = end.walk /\ SearchInv(catalog, files, end) /\ Searched(end)
                 /\ end.walk.error = "none" => Covered(catalog, end)
  BY WalkEnds
<1>2. end.calls = <<>> /\ end.rest = {} /\ Covered(catalog, end) BY <1>1 DEF Searched
<1>3. DOMAIN end.calls = {}
  <2>1. DOMAIN <<>> = {} OBVIOUS
  <2> QED BY <2>1, <1>2
<1>4. /\ SearchTypes(catalog, end) /\ Once(end) /\ Settled(catalog, files, end)
      /\ Ordered(catalog, walk) /\ EdgesAreMade(catalog, walk)
  BY <1>1 DEF SearchInv
<1>5. walk.order \in Seq(DOMAIN catalog) BY <1>1, <1>4 DEF SearchTypes
<1>6. \A c \in DOMAIN catalog : \E j \in DOMAIN walk.order : walk.order[j] = c
  BY <1>1, <1>2, <1>3 DEF Covered, Met, Range
<1>7. \A c \in DOMAIN catalog : \A n \in catalog[c].needs : Found(catalog, files, walk, c, n)
  BY <1>1, <1>4, <1>6 DEF Settled
<1>8. \A i, j \in DOMAIN walk.order : walk.order[i] = walk.order[j] => i = j
  BY <1>1, <1>4 DEF Once
<1> QED BY <1>4, <1>5, <1>6, <1>7, <1>8

LEMMA WalkRuns ==
  ASSUME Sorting \in Seq(Names), NEW catalog, IsCatalog(catalog), ~AmbiguousOutputs(catalog),
         NEW files, NEW walk, walk = Walk(catalog, files), walk.error = "none"
  PROVE  Runnable(walk, catalog, files)
<1> DEFINE m == Len(catalog)
           order == walk.order
<1>1. /\ order \in Seq(DOMAIN catalog)
      /\ \A i, j \in DOMAIN order : order[i] = order[j] => i = j
      /\ \A c \in DOMAIN catalog : \E j \in DOMAIN order : order[j] = c
      /\ \A c \in DOMAIN catalog : \A n \in catalog[c].needs : Found(catalog, files, walk, c, n)
      /\ Ordered(catalog, walk) /\ EdgesAreMade(catalog, walk)
  BY WalkFinds
<1>2. m \in Nat /\ DOMAIN catalog = 1 .. m BY DEF IsCatalog
<1>3. Len(order) = m
  <2> HIDE DEF m, order
  <2> QED BY <1>1, <1>2, SameLength
<1>4. DOMAIN order = 1 .. Len(order) /\ Len(order) \in Nat
      /\ \A i \in DOMAIN order : order[i] \in DOMAIN catalog
  BY <1>1
<1>5. Range(order) = DOMAIN catalog
  <2>1. Range(order) = {order[i] : i \in DOMAIN order} BY DEF Range
  <2>2. \A c \in DOMAIN catalog : \E j \in DOMAIN order : order[j] = c BY <1>1
  <2> HIDE DEF order
  <2> QED BY <2>1, <2>2, <1>4
<1>6. \A i \in DOMAIN order : Position(walk, order[i]) = i
  <2> SUFFICES ASSUME NEW i \in DOMAIN order PROVE Position(walk, order[i]) = i OBVIOUS
  <2> DEFINE place == CHOOSE j \in DOMAIN order : order[j] = order[i]
  <2>1. place \in DOMAIN order /\ order[place] = order[i] OBVIOUS
  <2>2. Position(walk, order[i]) = place BY DEF Position
  <2> HIDE DEF place
  <2> QED BY <2>1, <2>2, <1>1
<1>7. ASSUME NEW c \in DOMAIN catalog, NEW n \in catalog[c].needs, Makers(catalog, n) = {}
      PROVE  n \in files /\ ~\E e \in walk.edges : e[1] = c /\ e[2] = n
  <2>1. Found(catalog, files, walk, c, n) BY <1>1
  <2> QED BY <2>1, <1>1, <1>7 DEF Found, EdgesAreMade
<1>8. ASSUME NEW c \in DOMAIN catalog, NEW n \in catalog[c].needs, Makers(catalog, n) # {}
      PROVE  \E p \in DOMAIN catalog :
               /\ <<c, n, p>> \in walk.edges /\ n \in catalog[p].outputs
               /\ \A q \in DOMAIN catalog : <<c, n, q>> \in walk.edges => q = p
               /\ Position(walk, p) < Position(walk, c)
  <2>1. Found(catalog, files, walk, c, n) BY <1>1
  <2>2. PICK p \in Makers(catalog, n) : <<c, n, p>> \in walk.edges /\ n \in catalog[p].outputs
    BY <2>1, <1>8 DEF Found
  <2>3. p \in DOMAIN catalog BY MakersAre
  <2>4. ASSUME NEW q \in DOMAIN catalog, <<c, n, q>> \in walk.edges PROVE q = p
    <3>1. q \in Makers(catalog, n)
      <4>1. <<c, n, q>>[3] \in Makers(catalog, <<c, n, q>>[2]) BY <2>4, <1>1 DEF EdgesAreMade
      <4> QED BY <4>1
    <3> QED BY <3>1, OneMaker
  <2>5. PICK i \in DOMAIN order : order[i] = c BY <1>1
  <2>6. PICK j \in 1 .. i - 1 : order[j] = p BY <2>5, <1>1 DEF Ordered
  <2>7. j \in DOMAIN order /\ j < i BY <1>4, <2>5, <2>6
  <2>8. Position(walk, p) = j /\ Position(walk, c) = i BY <1>6, <2>5, <2>6, <2>7
  <2> QED BY <2>2, <2>3, <2>4, <2>7, <2>8
<1> QED BY <1>3, <1>5, <1>7, <1>8 DEF Runnable

LEMMA WalkSpeaksFor ==
  ASSUME Sorting \in Seq(Names), NEW catalog, IsCatalog(catalog), ~AmbiguousOutputs(catalog),
         NEW files, NEW walk, walk = Walk(catalog, files)
  PROVE  walk.error = "none" <=>
           ~Ring(catalog) /\ ~Unmade(catalog, files) /\ ~Misspelt(catalog)
<1>1. ASSUME walk.error # "none" PROVE Ring(catalog) \/ Unmade(catalog, files) \/ Misspelt(catalog)
  <2>1. PICK end : walk = end.walk /\ SearchInv(catalog, files, end) BY WalkEnds
  <2>2. ErrorIsReal(catalog, files, walk) /\ SearchTypes(catalog, end) BY <2>1 DEF SearchInv
  <2>3. walk.error \in Errors BY <2>1, <2>2 DEF SearchTypes
  <2> QED BY <1>1, <2>2, <2>3 DEF ErrorIsReal, Errors
<1>2. ASSUME walk.error = "none"
      PROVE  ~Ring(catalog) /\ ~Unmade(catalog, files) /\ ~Misspelt(catalog)
  <2>1. /\ walk.order \in Seq(DOMAIN catalog)
        /\ \A c \in DOMAIN catalog : \E j \in DOMAIN walk.order : walk.order[j] = c
        /\ \A c \in DOMAIN catalog : \A n \in catalog[c].needs : Found(catalog, files, walk, c, n)
        /\ Ordered(catalog, walk)
    BY <1>2, WalkFinds
  <2>2. \A c \in Range(catalog) : \E i \in DOMAIN catalog : catalog[i] = c BY DEF Range
  <2>3. ~Unmade(catalog, files) BY <2>1, <2>2 DEF Unmade, Found
  <2>4. ~Misspelt(catalog)
    <3> SUFFICES ASSUME NEW i \in DOMAIN catalog, NEW n \in catalog[i].needs,
                        Makers(catalog, n) # {}, \A d \in Range(catalog) : n \notin d.outputs
                 PROVE  FALSE
      BY <2>2 DEF Misspelt
    <3>1. PICK p \in Makers(catalog, n) : n \in catalog[p].outputs BY <2>1 DEF Found
    <3>2. catalog[p] \in Range(catalog) BY MakersAre DEF Range
    <3> QED BY <3>1, <3>2
  <2>5. ~Ring(catalog)
    <3> SUFFICES ASSUME NEW some \in (SUBSET DOMAIN catalog) \ {{}},
                        \A c \in some : \E p \in some, n \in catalog[c].needs :
                          p \in Makers(catalog, n)
                 PROVE  FALSE
      BY DEF Ring
    <3> DEFINE T == {i \in DOMAIN walk.order : walk.order[i] \in some}
    <3>1. DOMAIN walk.order = 1 .. Len(walk.order) /\ Len(walk.order) \in Nat BY <2>1
    <3>2. T \subseteq Nat BY <3>1
    <3>3. T # {} BY <2>1
    <3>4. PICK i \in T : \A j \in T : i <= j BY <3>2, <3>3, Least
    <3>5. PICK p \in some, n \in catalog[walk.order[i]].needs : p \in Makers(catalog, n) BY <3>4
    <3>6. PICK j \in 1 .. i - 1 : walk.order[j] = p
      <4>1. Ordered(catalog, walk) /\ i \in DOMAIN walk.order BY <2>1, <3>4
      <4> HIDE DEF T
      <4> QED BY <4>1, <3>5 DEF Ordered
    <3>7. j \in T /\ j < i BY <3>1, <3>4, <3>5, <3>6
    <3> HIDE DEF T
    <3> QED BY <3>2, <3>4, <3>7
  <2> QED BY <2>3, <2>4, <2>5
<1> QED BY <1>1, <1>2

\* resolve_factory accepts a catalog exactly when nothing speaks against running it, and
\* then its order runs every contract once, after the producers of all it needs.
THEOREM ResolvesWhatIsSound ==
  ASSUME Sorting \in Seq(Names), NEW catalog, IsCatalog(catalog), NEW files
  PROVE  LET resolution == Resolve(catalog, files)
         IN  /\ resolution.error = "none" <=> Sound(catalog, files)
             /\ resolution.error = "none" => Runnable(resolution, catalog, files)
<1> DEFINE walk == Walk(catalog, files)
           resolution == Resolve(catalog, files)
<1>2. Stop(Unvisited, "empty_factory").error = "empty_factory"
      /\ Stop(Unvisited, "ambiguous_producer").error = "ambiguous_producer"
  BY DEF Stop, Unvisited
<1>3. CASE catalog = <<>>
  <2>1. ~AmbiguousOutputs(catalog)
    <3>1. DOMAIN catalog = {}
      <4>1. DOMAIN <<>> = {} OBVIOUS
      <4> QED BY <4>1, <1>3
    <3> QED BY <3>1 DEF AmbiguousOutputs, Outputs
  <2>2. resolution = Stop(Unvisited, "empty_factory") BY <1>3, <2>1 DEF Resolve
  <2>3. resolution.error # "none" BY <2>2, <1>2
  <2> QED BY <2>3, <1>3 DEF Sound
<1>4. CASE catalog # <<>> /\ AmbiguousOutputs(catalog)
  <2>1. resolution = Stop(Unvisited, "ambiguous_producer") BY <1>4 DEF Resolve
  <2>2. resolution.error # "none" BY <2>1, <1>2
  <2> QED BY <2>2, <1>4 DEF Sound
<1>5. CASE catalog # <<>> /\ ~AmbiguousOutputs(catalog)
  <2>1. resolution = IF walk.error = "none" /\ Collides(catalog)
                THEN Stop(walk, "source_collision") ELSE walk
    BY <1>5 DEF Resolve
  <2>2. walk = Walk(catalog, files) OBVIOUS
  <2> HIDE DEF walk, resolution
  <2>3. walk.error = "none" <=> ~Ring(catalog) /\ ~Unmade(catalog, files) /\ ~Misspelt(catalog)
    BY <1>5, <2>2, WalkSpeaksFor
  <2>4. walk.error = "none" => Runnable(walk, catalog, files) BY <1>5, <2>2, WalkRuns
  <2>5. (\A c \in Range(catalog), n \in Range(Sorting) : n \in c.needs =>
           IF Makers(catalog, n) = {} THEN n \in files
           ELSE n \in UNION {d.outputs : d \in Range(catalog)})
        <=> ~Unmade(catalog, files) /\ ~Misspelt(catalog)
    <3>1. \A c \in Range(catalog) : \A n \in c.needs : n \in Range(Sorting) BY DEF IsCatalog
    <3>2. \A n : n \in UNION {d.outputs : d \in Range(catalog)}
                   <=> \E d \in Range(catalog) : n \in d.outputs
      OBVIOUS
    <3> QED BY <3>1, <3>2 DEF Unmade, Misspelt
  <2>6. Sound(catalog, files) <=> walk.error = "none" /\ ~Collides(catalog)
    BY <1>5, <2>3, <2>5 DEF Sound
  <2>7. CASE walk.error = "none" /\ Collides(catalog)
    <3>1. resolution.error # "none"
      <4>1. PICK end : walk = end.walk /\ SearchInv(catalog, files, end) BY <1>5, <2>2, WalkEnds
      <4>2. Stop(walk, "source_collision").error = "source_collision"
        BY <4>1 DEF Stop, SearchInv, SearchTypes
      <4> QED BY <4>2, <2>1, <2>7
    <3> QED BY <3>1, <2>6, <2>7 DEF resolution
  <2>8. CASE ~(walk.error = "none" /\ Collides(catalog))
    <3>1. resolution = walk BY <2>1, <2>8
    <3> QED BY <3>1, <2>4, <2>6, <2>8 DEF resolution
  <2> QED BY <2>7, <2>8
<1> QED BY <1>3, <1>4, <1>5

-----------------------------------------------------------------------------
(* The factory that was resolved *)

\* Where contracts are looked for there is one of the known contents, or nothing
TreesAreContents ==
  /\ {disk.original, disk.installed, stage.tree} \subseteq Contents \cup {None}
  /\ source # None => source.kind \in {"staged", "installed", "original"}

GraphIsResolved ==
  /\ at \in {"resolve", "confirm", "again"} => world.factory
  /\ graph # None => /\ world.factory /\ IsCatalog(graph.catalog)
                     /\ graph.resolved = Resolve(graph.catalog, world.files)

\* The graph is planned, and what was captured has its contracts
GraphIsCaptured ==
  /\ at \in {"inspect", "capture"} /\ graph # None => plan.contracts = graph.catalog
  /\ at \in {"validate", "ready"} /\ graph # None =>
       Range(graph.catalog) \subseteq Range(world.catalogs[captured])

GraphInv ==
  world \in Worlds /\ Shapes /\ TreesAreContents /\ GraphIsResolved /\ GraphIsCaptured

LEMMA GraphsRun == GraphInv => ResolvedGraphRuns
<1> SUFFICES ASSUME GraphInv, graph # None
             PROVE  /\ graph.resolved.error = "none" <=> Sound(graph.catalog, world.files)
                    /\ graph.resolved.error = "none" =>
                         Runnable(graph.resolved, graph.catalog, world.files)
                    /\ at = "ready" => Range(graph.catalog) \subseteq Range(world.catalogs[captured])
  BY DEF ResolvedGraphRuns
<1>1. IsCatalog(graph.catalog) /\ graph.resolved = Resolve(graph.catalog, world.files)
  BY DEF GraphInv, GraphIsResolved
<1>2. Sorting \in Seq(Names) BY SortingAssumption DEF Names
<1>3. LET resolution == Resolve(graph.catalog, world.files)
      IN  /\ resolution.error = "none" <=> Sound(graph.catalog, world.files)
          /\ resolution.error = "none" => Runnable(resolution, graph.catalog, world.files)
  BY <1>1, <1>2, ResolvesWhatIsSound
<1>4. at = "ready" => Range(graph.catalog) \subseteq Range(world.catalogs[captured])
  BY DEF GraphInv, GraphIsCaptured
<1> QED BY <1>1, <1>3, <1>4

LEMMA CatalogIs ==
  ASSUME GraphInv
  PROVE  IsCatalog(Catalog) /\ Range(Catalog) \subseteq Range(world.catalogs[Tree])
<1>1. Tree \in Contents \cup {None} BY DEF GraphInv, TreesAreContents, Tree
<1>2. IsCatalog(<<>>) /\ Range(<<>>) = {}
  <2>1. DOMAIN <<>> = {} OBVIOUS
  <2>2. Range(<<>>) = {} BY <2>1 DEF Range
  <2> QED BY <2>2 DEF IsCatalog
<1>3. CASE Tree = None BY <1>2, <1>3 DEF Catalog
<1>4. CASE Tree # None BY <1>1, <1>4, ContentsAssumption DEF Catalog, GraphInv
<1> QED BY <1>3, <1>4

LEMMA GraphInit == SupplyInit => GraphInv
BY SupplyAssumption, ContentsAssumption
   DEF SupplyInit, GraphInv, Shapes, TreesAreContents, GraphIsResolved, GraphIsCaptured

LEMMA GraphStep ==
  ASSUME GraphInv, SupplyNext
  PROVE  GraphInv'
<1> USE DEF GraphInv, TreesAreContents, GraphIsResolved, GraphIsCaptured, Require, Refuse, kept, work,
            others
<1>0. world' = world BY DEF SupplyNext, AdmitPackage, ReadManifest, ReadLock, CheckInstalled, Locate, Offer, OpenStage, Snapshot, SnapshotLock, Identify, CheckVersion, RunApm, ConfirmIdentity, CheckPins, Recheck, SelectStaged, Bind, AdmitRoot, ResolveFactory, Confirm, ResolveAgain, CheckConsent, PrepareImports, CompareImports, Plan, Inspect, CaptureSource, ValidateAgain, Fail, Edit, EditStage
<1>1. CASE AdmitPackage
  <2>1. Shapes' BY <1>1 DEF Shapes, AdmitPackage
  <2>2. TreesAreContents' BY <1>1 DEF AdmitPackage
  <2>3. GraphIsResolved' BY <1>1 DEF AdmitPackage
  <2>4. GraphIsCaptured' BY <1>1 DEF AdmitPackage
  <2> QED BY <1>0, <2>1, <2>2, <2>3, <2>4
<1>2. CASE ReadManifest
  <2>1. Shapes' BY <1>2 DEF Shapes, ReadManifest
  <2>2. TreesAreContents' BY <1>2 DEF ReadManifest
  <2>3. GraphIsResolved' BY <1>2 DEF ReadManifest
  <2>4. GraphIsCaptured' BY <1>2 DEF ReadManifest
  <2> QED BY <1>0, <2>1, <2>2, <2>3, <2>4
<1>3. CASE ReadLock
  <2>1. Shapes' BY <1>3 DEF Shapes, ReadLock
  <2>2. TreesAreContents' BY <1>3 DEF ReadLock
  <2>3. GraphIsResolved' BY <1>3 DEF ReadLock
  <2>4. GraphIsCaptured' BY <1>3 DEF ReadLock
  <2> QED BY <1>0, <2>1, <2>2, <2>3, <2>4
<1>4. CASE CheckInstalled
  <2>1. Shapes' BY <1>4 DEF Shapes, CheckInstalled
  <2>2. TreesAreContents' BY <1>4 DEF CheckInstalled
  <2>3. GraphIsResolved' BY <1>4 DEF CheckInstalled
  <2>4. GraphIsCaptured' BY <1>4 DEF CheckInstalled
  <2> QED BY <1>0, <2>1, <2>2, <2>3, <2>4
<1>5. CASE Locate
  <2>1. Shapes' BY <1>5 DEF Shapes, Locate
  <2>2. TreesAreContents' BY <1>5 DEF Locate
  <2>3. GraphIsResolved' BY <1>5 DEF Locate
  <2>4. GraphIsCaptured' BY <1>5 DEF Locate
  <2> QED BY <1>0, <2>1, <2>2, <2>3, <2>4
<1>6. CASE Offer
  <2>1. Shapes' BY <1>6 DEF Shapes, Offer
  <2>2. TreesAreContents' BY <1>6 DEF Offer
  <2>3. GraphIsResolved' BY <1>6 DEF Offer
  <2>4. GraphIsCaptured' BY <1>6 DEF Offer
  <2> QED BY <1>0, <2>1, <2>2, <2>3, <2>4
<1>7. CASE OpenStage
  <2>1. Shapes' BY <1>7 DEF Shapes, OpenStage
  <2>2. TreesAreContents' BY <1>7 DEF OpenStage
  <2>3. GraphIsResolved' BY <1>7 DEF OpenStage
  <2>4. GraphIsCaptured' BY <1>7 DEF OpenStage
  <2> QED BY <1>0, <2>1, <2>2, <2>3, <2>4
<1>8. CASE Snapshot
  <2>1. Shapes' BY <1>8 DEF Shapes, Snapshot
  <2>2. TreesAreContents' BY <1>8 DEF Snapshot
  <2>3. GraphIsResolved' BY <1>8 DEF Snapshot
  <2>4. GraphIsCaptured' BY <1>8 DEF Snapshot
  <2> QED BY <1>0, <2>1, <2>2, <2>3, <2>4
<1>9. CASE SnapshotLock
  <2>1. Shapes' BY <1>9 DEF Shapes, SnapshotLock
  <2>2. TreesAreContents' BY <1>9 DEF SnapshotLock
  <2>3. GraphIsResolved' BY <1>9 DEF SnapshotLock
  <2>4. GraphIsCaptured' BY <1>9 DEF SnapshotLock
  <2> QED BY <1>0, <2>1, <2>2, <2>3, <2>4
<1>10. CASE Identify
  <2>1. Shapes' BY <1>10 DEF Shapes, Identify
  <2>2. TreesAreContents' BY <1>10 DEF Identify
  <2>3. GraphIsResolved' BY <1>10 DEF Identify
  <2>4. GraphIsCaptured' BY <1>10 DEF Identify
  <2> QED BY <1>0, <2>1, <2>2, <2>3, <2>4
<1>11. CASE CheckVersion
  <2>1. Shapes' BY <1>11 DEF Shapes, CheckVersion
  <2>2. TreesAreContents' BY <1>11 DEF CheckVersion
  <2>3. GraphIsResolved' BY <1>11 DEF CheckVersion
  <2>4. GraphIsCaptured' BY <1>11 DEF CheckVersion
  <2> QED BY <1>0, <2>1, <2>2, <2>3, <2>4
<1>12. CASE RunApm
  <2>1. Shapes' BY <1>12 DEF Shapes, RunApm, Installed
  <2>2. TreesAreContents'
    <3>1. \A answer \in world.answers : answer.tree \in Contents \cup {None}
      BY ContentsAssumption
    <3>2. \A answer : Installed(answer).tree = answer.tree BY DEF Installed, Shapes
    <3>3. stage' = stage \/ \E answer \in world.answers : stage' = Installed(answer)
      BY <1>12 DEF RunApm
    <3>4. stage'.tree \in Contents \cup {None} BY <3>1, <3>2, <3>3
    <3>5. UNCHANGED <<disk, source>> BY <1>12 DEF RunApm
    <3> QED BY <3>4, <3>5
  <2>3. GraphIsResolved' BY <1>12 DEF RunApm
  <2>4. GraphIsCaptured' BY <1>12 DEF RunApm
  <2> QED BY <1>0, <2>1, <2>2, <2>3, <2>4
<1>13. CASE ConfirmIdentity
  <2>1. Shapes' BY <1>13 DEF Shapes, ConfirmIdentity
  <2>2. TreesAreContents' BY <1>13 DEF ConfirmIdentity
  <2>3. GraphIsResolved' BY <1>13 DEF ConfirmIdentity
  <2>4. GraphIsCaptured' BY <1>13 DEF ConfirmIdentity
  <2> QED BY <1>0, <2>1, <2>2, <2>3, <2>4
<1>14. CASE CheckPins
  <2>1. Shapes' BY <1>14 DEF Shapes, CheckPins
  <2>2. TreesAreContents' BY <1>14 DEF CheckPins
  <2>3. GraphIsResolved' BY <1>14 DEF CheckPins
  <2>4. GraphIsCaptured' BY <1>14 DEF CheckPins
  <2> QED BY <1>0, <2>1, <2>2, <2>3, <2>4
<1>15. CASE Recheck
  <2>1. Shapes' BY <1>15 DEF Shapes, Recheck
  <2>2. TreesAreContents' BY <1>15 DEF Recheck
  <2>3. GraphIsResolved' BY <1>15 DEF Recheck
  <2>4. GraphIsCaptured' BY <1>15 DEF Recheck
  <2> QED BY <1>0, <2>1, <2>2, <2>3, <2>4
<1>16. CASE SelectStaged
  <2>1. Shapes' BY <1>16 DEF Shapes, SelectStaged
  <2>2. TreesAreContents' BY <1>16 DEF SelectStaged
  <2>3. GraphIsResolved' BY <1>16 DEF SelectStaged
  <2>4. GraphIsCaptured' BY <1>16 DEF SelectStaged
  <2> QED BY <1>0, <2>1, <2>2, <2>3, <2>4
<1>17. CASE Bind
  <2>1. Shapes' BY <1>17 DEF Shapes, Bind
  <2>2. TreesAreContents' BY <1>17 DEF Bind
  <2>3. GraphIsResolved' BY <1>17 DEF Bind
  <2>4. GraphIsCaptured' BY <1>17 DEF Bind
  <2> QED BY <1>0, <2>1, <2>2, <2>3, <2>4
<1>18. CASE AdmitRoot
  <2>1. Shapes' BY <1>18 DEF Shapes, AdmitRoot
  <2>2. TreesAreContents' BY <1>18 DEF AdmitRoot
  <2>3. GraphIsResolved' BY <1>18 DEF AdmitRoot
  <2>4. GraphIsCaptured' BY <1>18 DEF AdmitRoot
  <2> QED BY <1>0, <2>1, <2>2, <2>3, <2>4
<1>19. CASE ResolveFactory
  <2>1. Shapes' BY <1>19 DEF Shapes, ResolveFactory
  <2>2. TreesAreContents' BY <1>19 DEF ResolveFactory
  <2>3. GraphIsResolved' BY <1>19, CatalogIs DEF ResolveFactory, ResolvedNow
  <2>4. GraphIsCaptured' BY <1>19 DEF ResolveFactory
  <2> QED BY <1>0, <2>1, <2>2, <2>3, <2>4
<1>20. CASE Confirm
  <2>1. Shapes' BY <1>20 DEF Shapes, Confirm
  <2>2. TreesAreContents' BY <1>20 DEF Confirm
  <2>3. GraphIsResolved' BY <1>20 DEF Confirm
  <2>4. GraphIsCaptured' BY <1>20 DEF Confirm
  <2> QED BY <1>0, <2>1, <2>2, <2>3, <2>4
<1>21. CASE ResolveAgain
  <2>1. Shapes' BY <1>21 DEF Shapes, ResolveAgain
  <2>2. TreesAreContents' BY <1>21 DEF ResolveAgain
  <2>3. GraphIsResolved' BY <1>21 DEF ResolveAgain
  <2>4. GraphIsCaptured' BY <1>21 DEF ResolveAgain
  <2> QED BY <1>0, <2>1, <2>2, <2>3, <2>4
<1>22. CASE CheckConsent
  <2>1. Shapes' BY <1>22 DEF Shapes, CheckConsent
  <2>2. TreesAreContents' BY <1>22 DEF CheckConsent
  <2>3. GraphIsResolved' BY <1>22 DEF CheckConsent
  <2>4. GraphIsCaptured' BY <1>22 DEF CheckConsent
  <2> QED BY <1>0, <2>1, <2>2, <2>3, <2>4
<1>23. CASE PrepareImports
  <2>1. Shapes' BY <1>23 DEF Shapes, PrepareImports
  <2>2. TreesAreContents' BY <1>23 DEF PrepareImports
  <2>3. GraphIsResolved' BY <1>23 DEF PrepareImports
  <2>4. GraphIsCaptured' BY <1>23 DEF PrepareImports
  <2> QED BY <1>0, <2>1, <2>2, <2>3, <2>4
<1>24. CASE CompareImports
  <2>1. Shapes' BY <1>24 DEF Shapes, CompareImports
  <2>2. TreesAreContents' BY <1>24 DEF CompareImports
  <2>3. GraphIsResolved' BY <1>24 DEF CompareImports
  <2>4. GraphIsCaptured' BY <1>24 DEF CompareImports
  <2> QED BY <1>0, <2>1, <2>2, <2>3, <2>4
<1>25. CASE Plan
  <2>1. Shapes' BY <1>25 DEF Shapes, Plan
  <2>2. TreesAreContents' BY <1>25 DEF Plan
  <2>3. GraphIsResolved' BY <1>25 DEF Plan
  <2>4. GraphIsCaptured' BY <1>25 DEF Plan
  <2> QED BY <1>0, <2>1, <2>2, <2>3, <2>4
<1>26. CASE Inspect
  <2>1. Shapes' BY <1>26 DEF Shapes, Inspect
  <2>2. TreesAreContents' BY <1>26 DEF Inspect
  <2>3. GraphIsResolved' BY <1>26 DEF Inspect
  <2>4. GraphIsCaptured' BY <1>26 DEF Inspect
  <2> QED BY <1>0, <2>1, <2>2, <2>3, <2>4
<1>27. CASE CaptureSource
  <2>1. Shapes' BY <1>27 DEF Shapes, CaptureSource
  <2>2. TreesAreContents' BY <1>27 DEF CaptureSource
  <2>3. GraphIsResolved' BY <1>27 DEF CaptureSource
  <2>4. GraphIsCaptured' BY <1>27, CatalogIs DEF CaptureSource
  <2> QED BY <1>0, <2>1, <2>2, <2>3, <2>4
<1>28. CASE ValidateAgain
  <2>1. Shapes' BY <1>28 DEF Shapes, ValidateAgain
  <2>2. TreesAreContents' BY <1>28 DEF ValidateAgain
  <2>3. GraphIsResolved' BY <1>28 DEF ValidateAgain
  <2>4. GraphIsCaptured' BY <1>28 DEF ValidateAgain
  <2> QED BY <1>0, <2>1, <2>2, <2>3, <2>4
<1>29. CASE Fail
  <2>1. Shapes' BY <1>29 DEF Shapes, Fail
  <2>2. TreesAreContents' BY <1>29 DEF Fail
  <2>3. GraphIsResolved' BY <1>29 DEF Fail
  <2>4. GraphIsCaptured' BY <1>29 DEF Fail
  <2> QED BY <1>0, <2>1, <2>2, <2>3, <2>4
<1>30. CASE Edit
  <2>1. Shapes' BY <1>30 DEF Shapes, Edit
  <2>2. TreesAreContents'
    <3>0. PICK thing \in DOMAIN world.changes : \E value \in world.changes[thing] :
            disk' = [disk EXCEPT ![thing] = value]
      BY <1>30 DEF Edit
    <3>1. PICK value \in world.changes[thing] : disk' = [disk EXCEPT ![thing] = value] BY <3>0
    <3>2. thing \in {"original", "installed"} => value \in Contents \cup {None}
      BY <3>1, ContentsAssumption
    <3>3. disk'.original \in {disk.original, value} /\ disk'.installed \in {disk.installed, value}
      BY <3>1 DEF Shapes
    <3>4. disk'.original # disk.original => thing = "original" BY <3>1 DEF Shapes
    <3>5. disk'.installed # disk.installed => thing = "installed" BY <3>1 DEF Shapes
    <3>6. UNCHANGED <<stage, source>> BY <1>30 DEF Edit
    <3> QED BY <3>2, <3>3, <3>4, <3>5, <3>6
  <2>3. GraphIsResolved' BY <1>30 DEF Edit
  <2>4. GraphIsCaptured' BY <1>30 DEF Edit
  <2> QED BY <1>0, <2>1, <2>2, <2>3, <2>4
<1>31. CASE EditStage
  <2>1. Shapes' BY <1>31 DEF Shapes, EditStage
  <2>2. TreesAreContents' BY <1>31 DEF EditStage
  <2>3. GraphIsResolved' BY <1>31 DEF EditStage
  <2>4. GraphIsCaptured' BY <1>31 DEF EditStage
  <2> QED BY <1>0, <2>1, <2>2, <2>3, <2>4
<1> QED BY <1>1, <1>2, <1>3, <1>4, <1>5, <1>6, <1>7, <1>8, <1>9, <1>10, <1>11, <1>12, <1>13, <1>14, <1>15, <1>16, <1>17, <1>18, <1>19, <1>20, <1>21, <1>22, <1>23, <1>24, <1>25, <1>26, <1>27, <1>28, <1>29, <1>30, <1>31 DEF SupplyNext

\* A factory is resolved exactly when nothing speaks against running it, and then its
\* order runs every contract once; the factory that was resolved, and confirmed, is the
\* one that is captured (resolve_factory, confirm_factory, preflight, _capture_mapping).
THEOREM ResolvedFactoryRuns == CommandSpec => []ResolvedGraphRuns
<1>1. CommandInit => GraphInv BY GraphInit DEF CommandInit
<1>2. GraphInv /\ [CommandNext]_commandVars => GraphInv'
  <2> SUFFICES ASSUME GraphInv, [CommandNext]_commandVars PROVE GraphInv' OBVIOUS
  <2>1. CASE Prepare BY <2>1, GraphStep DEF Prepare
  <2>2. CASE UNCHANGED prepared
    BY <2>2 DEF prepared, kept, work, others, GraphInv, Shapes, TreesAreContents, GraphIsResolved,
                GraphIsCaptured
  <2>3. CASE UNCHANGED commandVars BY <2>2, <2>3 DEF commandVars, supplyVars, prepared
  <2> QED BY <2>1, <2>2, <2>3, OnlyPrepare
<1>3. GraphInv => ResolvedGraphRuns BY GraphsRun
<1> QED BY <1>1, <1>2, <1>3, PTL DEF CommandSpec

==============================================================================
