----------------------------- MODULE SessionProofs -----------------------------
(***************************************************************************)
(* Proofs about one session with a native agent, for every stream, every   *)
(* number of calls and starts of the server, and every configuration of    *)
(* the user: only the own server is enabled, a clean stream left nothing   *)
(* out, and accepted work is settled; and for every number and length of   *)
(* its logs: a mirror without a notice shows every byte of them.           *)
(***************************************************************************)
EXTENDS Session, SequenceTheorems, NaturalsInduction, WellFoundedInduction, TLAPS

-----------------------------------------------------------------------------
(* The inductive invariant: the preparation *)

\* What was named, denied and last seen, at the program points where it counts
ForeignIsDenied ==
  /\ prep \in {"check", "version"} => named = {} /\ denied = {} /\ lastSeen = {}
  /\ prep = "configuration" => denied = {} /\ lastSeen = {}
  /\ prep \in {"paths", "effective", "launch", "launched"} => Own \notin named
  /\ prep = "effective" => denied = named
  /\ prep \in {"launch", "launched"} => lastSeen = {}
  /\ prep = "launched" => ~spent

-----------------------------------------------------------------------------
(* The decoder *)

\* The decoder is asked when the agent is gone, and never again
AskedOnce ==
  /\ outcome \in {"running", "stopped", "captured", "refused", "accepted"}
  /\ Running <=> ~closed
  /\ closed => line = "empty"
  /\ outcome \in {"captured", "accepted"} => Clean

\* What cannot be part of a success is a protocol error, and stays one
HeardIsReported ==
  /\ heard # {} => protocol
  /\ harness = "copilot" => step = "none"
  /\ closed /\ ~protocol => calls = {}
  /\ closed /\ completion => step = "none"

-----------------------------------------------------------------------------
(* The operation log *)

LogEntries ==
  [active: Operations \cup {"none"}, failed: BOOLEAN, exports: Seq(Outputs \cup {"none"}),
   operations: 0 .. MaxOperations]

Points == {"off", "idle", "perform", "publish", "receipt", "end"}

LogTypes ==
  /\ disk \in LogEntries /\ mem \in LogEntries
  /\ server \in Points /\ torn \in {0, 1}
  /\ source \in Patches /\ look \in Outputs

Quiescent(state) == state.active = "none" /\ ~state.failed

\* An idle server remembers what is on disk; one at work has noted it on disk
\* before; and what took effect without its end in the log can be seen there
LogKnows ==
  /\ server = "idle" => mem = disk
  /\ server \in {"perform", "publish", "receipt", "end"} =>
       /\ disk.active # "none" /\ ~disk.failed /\ ~mem.failed
       /\ torn = IF server \in {"receipt", "end"} THEN 1 ELSE 0
  /\ Quiescent(disk) => torn = 0

-----------------------------------------------------------------------------
(* The agent and its calls *)

Started == [kind |-> "tool_start", id |-> call]

\* The frame that tells of the failure of a call
Failure ==
  IF harness = "copilot" THEN [kind |-> "tool_end", id |-> call, success |-> FALSE]
  ELSE [kind |-> "tool", session |-> "own", status |-> "error"]

CallTypes ==
  /\ harness \in {"copilot", "opencode"}
  /\ line \in {"empty", "open", "discarding"}
  /\ tool \in {"none", "announced", "asked", "given_up"}
  /\ tool # "none" \/ wronged => focus = "tools"
  /\ focus = "tools" => line # "discarding"

\* A call in flight is known to the decoder, or is in the line that it will read
CallIsKnown ==
  (harness = "copilot" /\ tool \in {"announced", "asked"}) =>
     /\ protocol \/ call \in calls \/ (line = "open" /\ held = Started)
     /\ line = "open" => held = Started \/ held.kind = "result"

\* A failed call is a protocol error, or will be one when its line is read
WrongIsHeard ==
  wronged =>
     \/ protocol
     \/ line = "open" /\ held = Failure /\ (harness = "copilot" => call \in calls)

\* The outputs were accepted on a settled log
AcceptedLog == outcome = "accepted" => Quiescent(disk)

IInv ==
  /\ ForeignIsDenied
  /\ AskedOnce /\ HeardIsReported
  /\ LogTypes /\ LogKnows
  /\ CallTypes /\ CallIsKnown /\ WrongIsHeard /\ AcceptedLog

-----------------------------------------------------------------------------
(* The preparation *)

\* A refusal is final
LEMMA RefusedIsFinal ==
  ASSUME NEW code, RefuseWith(code), UNCHANGED spent
  PROVE  ForeignIsDenied'
BY DEF RefuseWith, ForeignIsDenied

LEMMA PreparationStep ==
  ASSUME ForeignIsDenied, Prepare \/ Reconfigure \/ UNCHANGED prepVars
  PROVE  ForeignIsDenied'
<1> USE DEF ForeignIsDenied, asked
<1>1. CASE ProbeFails
  <2>1. prep' = "refused" BY <1>1 DEF ProbeFails, RefuseWith
  <2> QED BY <2>1
<1>2. CASE Check BY <1>2 DEF Check, RefuseWith, Proceed, Own
<1>3. CASE Inventory BY <1>3 DEF Inventory, RefuseWith, Proceed
<1>4. CASE Version BY <1>4 DEF Version, Proceed
<1>5. CASE Configuration
  <2>1. /\ prep = "configuration" /\ named' = native.servers /\ UNCHANGED <<denied, lastSeen, spent>>
        /\ prep' = "refused" \/ (prep' = "paths" /\ Own \notin native.servers)
    BY <1>5 DEF Configuration, RefuseWith, Proceed
  <2> QED BY <2>1
<1>6. CASE Paths BY <1>6 DEF Paths, RefuseWith, Proceed
<1>7. CASE Effective BY <1>7 DEF Effective, RefuseWith, Proceed
<1>8. CASE Launch BY <1>8 DEF Launch, RefuseWith, Proceed
<1>9. CASE Reconfigure BY <1>9 DEF Reconfigure
<1>10. CASE UNCHANGED prepVars BY <1>10 DEF prepVars
<1> QED BY <1>1, <1>2, <1>3, <1>4, <1>5, <1>6, <1>7, <1>8, <1>9, <1>10 DEF Prepare

-----------------------------------------------------------------------------
(* The server *)

\* What a failure that is noted leaves: an answer by a server that agrees with
\* the disk, or no server
LogIsClosed ==
  /\ disk' \in LogEntries /\ mem' \in LogEntries /\ look' \in Outputs
  /\ server' = "off" \/ (server' = "idle" /\ mem' = disk')

LEMMA FailIsNoted ==
  ASSUME LogTypes, NEW state \in LogEntries, Fail(state)
  PROVE  LogIsClosed /\ (disk' = disk \/ disk'.failed)
<1> USE DEF LogEntries
<1> DEFINE failed == [state EXCEPT !.failed = TRUE]
<1>1. failed \in LogEntries /\ failed.failed OBVIOUS
<1>2. PICK saved \in SaveResults :
        /\ disk' = Saved(failed, saved)
        /\ IF saved = "written" THEN Answer(failed, "error") ELSE Gone
  BY DEF Fail
<1>3. disk' \in {failed, disk} /\ (saved = "written" => disk' = failed) BY <1>2 DEF Saved
<1>4. Entry \in LogEntries BY ServerAssumption DEF Entry
<1> QED BY <1>1, <1>2, <1>3, <1>4 DEF LogTypes, LogIsClosed, Answer, Gone, Unasked, Outputs

LEMMA FailToSaveIsNoted ==
  ASSUME LogTypes, NEW state \in LogEntries, FailToSave(state)
  PROVE  LogIsClosed /\ (disk' \in {disk, state} \/ disk'.failed)
<1> USE DEF LogEntries
<1> DEFINE failed == [state EXCEPT !.failed = TRUE]
<1>1. failed \in LogEntries /\ failed.failed OBVIOUS
<1>2. PICK first \in SaveResults \ {"written"}, second \in SaveResults :
        /\ disk' = IF second = "kept" THEN Saved(state, first) ELSE failed
        /\ IF second = "written" THEN Answer(failed, "error") ELSE Gone
  BY DEF FailToSave
<1>3. disk' \in {failed, disk, state} /\ (second = "written" => disk' = failed) BY <1>2 DEF Saved
<1>4. Entry \in LogEntries BY ServerAssumption DEF Entry
<1> QED BY <1>1, <1>2, <1>3, <1>4 DEF LogTypes, LogIsClosed, Answer, Gone, Unasked, Outputs

\* Without a server, or with one that agrees with the disk, only the disk counts
LEMMA ClosedLog ==
  ASSUME LogIsClosed, torn' \in {0, 1}, source' \in Patches, Quiescent(disk') => torn' = 0
  PROVE  LogTypes' /\ LogKnows'
BY DEF LogIsClosed, LogTypes, LogKnows, Points, Quiescent

LEMMA GoneLog ==
  ASSUME LogTypes, LogKnows, Gone, disk' \in LogEntries, UNCHANGED <<torn, source>>,
         Quiescent(disk') => disk' = disk
  PROVE  LogTypes' /\ LogKnows'
<1>1. Entry \in LogEntries BY ServerAssumption DEF Entry, LogEntries
<1>2. LogIsClosed BY <1>1 DEF Gone, Unasked, LogIsClosed, Outputs
<1> QED BY <1>2, ClosedLog DEF LogTypes, LogKnows, Quiescent

\* A server at work whose failure is noted was noted on disk before
LEMMA FailedWork ==
  ASSUME LogTypes, LogKnows, server \in {"perform", "publish", "receipt", "end"}, Fail(mem),
         torn' \in {0, 1}, source' \in Patches
  PROVE  LogTypes' /\ LogKnows'
<1>1. LogIsClosed /\ (disk' = disk \/ disk'.failed) BY FailIsNoted DEF LogTypes
<1>2. ~Quiescent(disk') BY <1>1 DEF LogKnows, Quiescent
<1> QED BY <1>1, <1>2, ClosedLog

LEMMA RefusedStep ==
  ASSUME LogTypes, LogKnows, NEW o \in Operations, Refused(o)
  PROVE  LogTypes' /\ LogKnows'
<1>1. LogIsClosed /\ (disk' = disk \/ disk'.failed) BY FailIsNoted DEF Refused, LogTypes
<1>2. torn' = torn /\ source' = source BY DEF Refused, files
<1>3. Quiescent(disk') => torn' = 0 BY <1>1, <1>2 DEF LogKnows, Quiescent
<1> QED BY <1>1, <1>2, <1>3, ClosedLog DEF LogTypes

LEMMA BeginStep ==
  ASSUME LogTypes, LogKnows, NEW o \in Operations, Begin(o)
  PROVE  LogTypes' /\ LogKnows'
<1> DEFINE state == [mem EXCEPT !.active = o, !.operations = @ + 1]
<1>1. /\ server = "idle" /\ mem = disk /\ mem.active = "none" /\ ~mem.failed
      /\ mem.operations < MaxOperations
  BY DEF Begin, Admissible, LogKnows
<1>2. state \in LogEntries /\ state.active = o /\ o # "none" /\ ~state.failed
  <2>1. mem.operations + 1 \in 0 .. MaxOperations
    BY <1>1, ServerAssumption DEF LogTypes, LogEntries
  <2>2. o # "none" BY DEF Operations
  <2> QED BY <1>1, <2>1, <2>2 DEF LogTypes, LogEntries
<1>3. torn = 0 BY <1>1 DEF LogKnows, Quiescent
<1>4. torn' = torn /\ source' = source BY DEF Begin, files
<1>5. CASE FailToSave(state)
  <2>1. LogIsClosed /\ (disk' \in {disk, state} \/ disk'.failed) BY <1>2, <1>5, FailToSaveIsNoted
  <2> QED BY <2>1, <1>3, <1>4, ClosedLog DEF LogTypes
<1>6. CASE disk' = Saved(state, "written") /\ mem' = state /\ server' = "perform" /\ UNCHANGED look
  <2>1. disk' = state BY <1>6 DEF Saved
  <2> QED BY <2>1, <1>2, <1>3, <1>4, <1>6 DEF LogTypes, LogKnows, Points, Quiescent
<1> QED BY <1>5, <1>6 DEF Begin

LEMMA RefuseStep ==
  ASSUME LogTypes, LogKnows, Refuse
  PROVE  LogTypes' /\ LogKnows'
BY FailedWork DEF Refuse, files, LogTypes

LEMMA ChangeStep ==
  ASSUME LogTypes, LogKnows, Change
  PROVE  LogTypes' /\ LogKnows'
<1>1. server = "perform" /\ torn = 0 /\ torn' = 1 /\ source' \in Patches
  BY DEF Change, LogKnows, LogTypes, Patches
<1>2. CASE Fail(mem) BY <1>1, <1>2, FailedWork
<1>3. CASE Goes("end", mem) /\ UNCHANGED <<disk, op, look>>
  BY <1>1, <1>3 DEF Goes, LogTypes, LogKnows, Points, Quiescent
<1> QED BY <1>2, <1>3 DEF Change

LEMMA LookStep ==
  ASSUME LogTypes, LogKnows, Look
  PROVE  LogTypes' /\ LogKnows'
BY DEF Look, Goes, files, LogTypes, LogKnows, Points, Quiescent, Outputs

LEMMA PublishStep ==
  ASSUME LogTypes, LogKnows, Publish
  PROVE  LogTypes' /\ LogKnows'
<1>1. server = "publish" /\ torn = 0 /\ torn' \in {0, 1} /\ source' = source
  BY DEF Publish, LogKnows, LogTypes
<1>2. CASE Fail(mem) BY <1>1, <1>2, FailedWork DEF LogTypes
<1>3. CASE Goes("receipt", mem) /\ UNCHANGED <<disk, op, look>> /\ torn' = torn + 1
  BY <1>1, <1>3 DEF Goes, LogTypes, LogKnows, Points, Quiescent
<1> QED BY <1>2, <1>3 DEF Publish

LEMMA ReceiptStep ==
  ASSUME LogTypes, LogKnows, Receipt
  PROVE  LogTypes' /\ LogKnows'
<1>1. server = "receipt" /\ torn = 1 /\ torn' = torn /\ source' = source
  BY DEF Receipt, LogKnows, LogTypes
<1>2. CASE Fail(mem) BY <1>1, <1>2, FailedWork DEF LogTypes
<1>3. CASE Goes("end", [mem EXCEPT !.exports = Append(@, look)]) /\ UNCHANGED <<disk, op, look>>
  <2>1. Append(mem.exports, look) \in Seq(Outputs \cup {"none"}) BY DEF LogTypes, LogEntries
  <2>2. mem' \in LogEntries /\ mem'.failed = mem.failed BY <1>3, <2>1 DEF Goes, LogTypes, LogEntries
  <2> QED BY <1>1, <1>3, <2>2 DEF Goes, LogTypes, LogKnows, Points, Quiescent
<1> QED BY <1>2, <1>3 DEF Receipt

LEMMA EndStep ==
  ASSUME LogTypes, LogKnows, End
  PROVE  LogTypes' /\ LogKnows'
<1> DEFINE state == [mem EXCEPT !.active = "none"]
<1>1. /\ server = "end" /\ torn = 1 /\ source' = source
      /\ torn' = IF Quiescent(disk') THEN torn - 1 ELSE torn
  BY DEF End, LogKnows, LogTypes, Quiescent, files
<1>2. state \in LogEntries BY DEF LogTypes, LogEntries
<1>3. LogIsClosed
  <2>1. CASE FailToSave(state) BY <1>2, <2>1, FailToSaveIsNoted
  <2>2. CASE disk' = Saved(state, "written") /\ Answer(state, "result")
    BY <1>2, <2>2 DEF Saved, Answer, Unasked, LogIsClosed, Outputs
  <2> QED BY <2>1, <2>2 DEF End
<1>4. torn' \in {0, 1} /\ (Quiescent(disk') => torn' = 0) BY <1>1
<1> QED BY <1>1, <1>3, <1>4, ClosedLog DEF LogTypes

LEMMA CancelledStep ==
  ASSUME LogTypes, LogKnows, Cancelled
  PROVE  LogTypes' /\ LogKnows'
<1> USE DEF LogEntries
<1> DEFINE failed == [mem EXCEPT !.failed = TRUE]
<1>1. failed \in LogEntries /\ failed.failed BY DEF LogTypes
<1>2. PICK saved \in SaveResults :
        /\ disk' = Saved(failed, saved)
        /\ IF saved = "written" THEN Answer(failed, reply) ELSE Gone
  BY DEF Cancelled
<1>3. torn' = torn /\ source' = source BY DEF Cancelled, files
<1>4. disk' \in {failed, disk} /\ (saved = "written" => disk' = failed) BY <1>2 DEF Saved
<1>5. Entry \in LogEntries BY ServerAssumption DEF Entry
<1>6. LogIsClosed BY <1>1, <1>2, <1>4, <1>5 DEF LogTypes, LogIsClosed, Answer, Gone, Unasked, Outputs
<1>7. Quiescent(disk') => torn' = 0 BY <1>1, <1>3, <1>4 DEF LogKnows, Quiescent
<1> QED BY <1>3, <1>6, <1>7, ClosedLog DEF LogTypes

LEMMA DisagreeStep ==
  ASSUME LogTypes, LogKnows, Disagree
  PROVE  LogTypes' /\ LogKnows'
<1> DEFINE failed == [mem EXCEPT !.failed = TRUE]
<1>1. failed \in LogEntries /\ failed.failed BY DEF LogTypes, LogEntries
<1>2. disk' \in {failed, disk} BY DEF Disagree, Saved
<1>3. disk' \in LogEntries /\ (Quiescent(disk') => disk' = disk)
  BY <1>1, <1>2 DEF LogTypes, Quiescent
<1>4. Gone /\ UNCHANGED <<torn, source>> BY DEF Disagree, files
<1> QED BY <1>3, <1>4, GoneLog

LEMMA StartStep ==
  ASSUME LogTypes, LogKnows, StartServer
  PROVE  LogTypes' /\ LogKnows'
BY DEF StartServer, files, LogTypes, LogKnows, Points, Quiescent

LEMMA EditStep ==
  ASSUME LogTypes, LogKnows, Edit
  PROVE  LogTypes' /\ LogKnows'
BY DEF Edit, log, LogTypes, LogKnows, Quiescent

LEMMA ServerStays ==
  ASSUME LogTypes, LogKnows, UNCHANGED serverVars
  PROVE  LogTypes' /\ LogKnows'
BY DEF serverVars, log, files, LogTypes, LogKnows, Quiescent

LEMMA ServerMovesStep ==
  ASSUME LogTypes, LogKnows, ServerMoves
  PROVE  LogTypes' /\ LogKnows'
<1>1. CASE ServerDies
  BY <1>1, GoneLog DEF ServerDies, files, LogTypes
<1> QED
  BY <1>1, RefuseStep, ChangeStep, LookStep, PublishStep, ReceiptStep, EndStep, DisagreeStep,
     EditStep, StartStep DEF ServerMoves, ServerStep

LEMMA ServerAlways ==
  ASSUME LogTypes, LogKnows, [SessionNext]_sessionVars
  PROVE  LogTypes' /\ LogKnows'
<1>1. CASE Speak BY <1>1, ServerStays DEF Speak
<1>2. CASE Announce BY <1>2, ServerStays DEF Announce
<1>3. CASE Ask BY <1>3, BeginStep, RefusedStep DEF Ask
<1>4. CASE Answered BY <1>4, ServerStays DEF Answered
<1>5. CASE GiveUp BY <1>5, ServerStays DEF GiveUp
<1>6. CASE CancelArrives BY <1>6, ServerStays, CancelledStep DEF CancelArrives
<1>7. CASE ServerMoves BY <1>7, ServerMovesStep
<1>8. CASE StdoutMoves BY <1>8, ServerStays DEF StdoutMoves
<1>9. CASE Judge BY <1>9, GoneLog DEF Judge, files, LogTypes
<1>10. CASE Accept BY <1>10, ServerStays DEF Accept
<1>11. CASE PrepareNext BY <1>11, ServerStays DEF PrepareNext
<1>12. CASE LogsNext BY <1>12, ServerStays DEF LogsNext
<1>13. CASE UNCHANGED sessionVars BY <1>13, ServerStays DEF sessionVars
<1> QED BY <1>1, <1>2, <1>3, <1>4, <1>5, <1>6, <1>7, <1>8, <1>9, <1>10, <1>11, <1>12, <1>13
  DEF SessionNext, AgentNext

-----------------------------------------------------------------------------
(* The decoder *)

\* What a step of the session may do to the decoder
LEMMA DecoderMoves ==
  ASSUME [SessionNext]_sessionVars
  PROVE  \/ \E frame : Bytes(frame)
         \/ Newline
         \/ focus = "frames" /\ Oversize
         \/ FinishDecoder
         \/ UNCHANGED decoder
<1>1. CASE Speak BY <1>1 DEF Speak
<1>2. CASE Announce BY <1>2 DEF Announce
<1>3. CASE Ask BY <1>3 DEF Ask
<1>4. CASE Answered BY <1>4 DEF Answered, Report
<1>5. CASE GiveUp BY <1>5 DEF GiveUp, Report
<1>6. CASE CancelArrives BY <1>6 DEF CancelArrives
<1>7. CASE ServerMoves BY <1>7 DEF ServerMoves
<1>8. CASE StdoutMoves BY <1>8 DEF StdoutMoves
<1>9. CASE Judge BY <1>9 DEF Judge
<1>10. CASE Accept BY <1>10 DEF Accept
<1>11. CASE PrepareNext BY <1>11 DEF PrepareNext
<1>12. CASE LogsNext BY <1>12 DEF LogsNext
<1>13. CASE UNCHANGED sessionVars BY <1>13 DEF sessionVars
<1> QED BY <1>1, <1>2, <1>3, <1>4, <1>5, <1>6, <1>7, <1>8, <1>9, <1>10, <1>11, <1>12, <1>13
  DEF SessionNext, AgentNext

\* A frame never takes an error back, and what it says against a success is one
LEMMA FrameReports ==
  ASSUME NEW frame, Handle(frame), heard # {} => protocol
  PROVE  (protocol => protocol') /\ (heard' # {} => protocol')
<1> USE Zenon
<1>1. ASSUME NEW what, Fails(what)
      PROVE  (protocol => protocol') /\ (heard' # {} => protocol')
  BY <1>1 DEF Fails
<1>2. CASE OnText(frame)
  <2>1. UNCHANGED heard /\ (UNCHANGED protocol \/ protocol' = (protocol \/ (frame.phase = "invalid" /\ ~Message(frame.id).complete)))
    BY <1>2 DEF OnText
  <2> QED BY <2>1
<1>3. CASE OnToolStart(frame)
  <2>1. Fails("call_started_twice") \/ UNCHANGED <<protocol, heard>> BY <1>3 DEF OnToolStart, verdict
  <2> QED BY <2>1, <1>1
<1>4. CASE OnToolEnd(frame) BY <1>4 DEF OnToolEnd
<1>5. CASE OnResult(frame)
  <2>1. CASE frame.code = "other" BY <1>5, <2>1 DEF OnResult
  <2>2. CASE frame.code # "other"
    <3>1. heard' = heard \cup {} BY <1>5, <2>2 DEF OnResult
    <3>2. heard' = heard BY <3>1
    <3>3. protocol => protocol' BY <1>5 DEF OnResult
    <3> QED BY <3>2, <3>3
  <2> QED BY <2>1, <2>2
<1>6. CASE OnModel(frame)
  <2>1. Fails("models") \/ UNCHANGED <<protocol, heard>> BY <1>6 DEF OnModel, verdict
  <2> QED BY <2>1, <1>1
<1>7. CASE OnStepStart(frame) BY <1>7 DEF OnStepStart
<1>8. CASE OnStepFinish(frame)
  <2>1. protocol' = TRUE \/ UNCHANGED <<protocol, heard>> BY <1>8 DEF OnStepFinish
  <2> QED BY <2>1
<1>9. CASE OnPart(frame) BY <1>9 DEF OnPart
<1> QED BY <1>1, <1>2, <1>3, <1>4, <1>5, <1>6, <1>7, <1>8, <1>9 DEF Handle, OnCopilot, OnOpenCode

\* Only OpenCode has model steps
LEMMA CopilotHasNoSteps ==
  ASSUME NEW frame, Handle(frame), harness = "copilot"
  PROVE  step' = step
BY DEF Handle, OnCopilot, OnText, OnToolStart, OnToolEnd, OnResult, OnModel, Fails, steps

LEMMA DecoderStep ==
  ASSUME HeardIsReported, [SessionNext]_sessionVars
  PROVE  HeardIsReported'
<1> USE DEF HeardIsReported, stream, verdict, steps
<1>1. CASE \E frame : Bytes(frame) BY <1>1 DEF Bytes
<1>2. CASE Newline
  <2>1. ~closed' /\ harness' = harness BY <1>2 DEF Newline
  <2>2. CASE line = "open"
    <3>1. Handle(held) BY <1>2, <2>2 DEF Newline
    <3> QED BY <2>1, <3>1, FrameReports, CopilotHasNoSteps
  <2>3. CASE line # "open"
    <3>1. UNCHANGED <<heard, protocol, step>> BY <1>2, <2>3 DEF Newline
    <3> QED BY <2>1, <3>1
  <2> QED BY <2>2, <2>3
<1>3. CASE Oversize
  <2>1. ~closed' /\ UNCHANGED <<harness, step>> /\ protocol' BY <1>3, Zenon DEF Oversize, Fails
  <2> QED BY <2>1
<1>4. CASE FinishDecoder
  <2>1. UNCHANGED <<harness, step, calls>> BY <1>4 DEF FinishDecoder
  <2>2. protocol' <=> (protocol \/ calls # {}) BY <1>4, Zenon DEF FinishDecoder
  <2>3. heard' # {} => (heard # {} \/ calls # {}) BY <1>4 DEF FinishDecoder
  <2>4. harness # "copilot" /\ completion' => step = "none" BY <1>4, Zenon DEF FinishDecoder
  <2> QED BY <2>1, <2>2, <2>3, <2>4
<1>5. CASE UNCHANGED decoder BY <1>5 DEF decoder
<1> QED BY <1>1, <1>2, <1>3, <1>4, <1>5, DecoderMoves

\* The decoder closes exactly when the run is judged, and its verdict stands
LEMMA AskedStep ==
  ASSUME AskedOnce, [SessionNext]_sessionVars
  PROVE  AskedOnce'
<1> USE DEF AskedOnce
<1>1. ASSUME UNCHANGED <<outcome, closed>>, Running PROVE AskedOnce'
  BY <1>1, Zenon DEF Running
<1>2. ASSUME UNCHANGED <<outcome, decoder>> PROVE AskedOnce'
  BY <1>2 DEF decoder, stream, verdict, Running, Clean
<1>3. ASSUME NEW frame, Bytes(frame) PROVE UNCHANGED closed BY <1>3 DEF Bytes
<1>4. CASE Speak BY <1>4, <1>1, <1>3 DEF Speak
<1>5. CASE Announce
  <2>1. UNCHANGED closed BY <1>5, <1>3 DEF Announce, decoder
  <2> QED BY <1>5, <2>1, <1>1 DEF Announce, Ended
<1>6. CASE Ask BY <1>6, <1>2 DEF Ask, Ended
<1>7. CASE Answered BY <1>7, <1>1, <1>3 DEF Answered, Ended, Report
<1>8. CASE GiveUp BY <1>8, <1>1, <1>3 DEF GiveUp, Ended, Report
<1>9. CASE CancelArrives BY <1>9, <1>2 DEF CancelArrives, Ended
<1>10. CASE ServerMoves BY <1>10, <1>2 DEF ServerMoves, agentVars
<1>11. CASE StdoutMoves
  <2>1. UNCHANGED closed BY <1>11 DEF StdoutMoves, Newline, Oversize
  <2> QED BY <1>11, <2>1, <1>1 DEF StdoutMoves, agentVars
<1>12. CASE Judge
  <2>1. closed' = TRUE /\ line' = "empty" BY <1>12 DEF Judge, FinishDecoder, stream
  <2>2. outcome' = "stopped" \/ (outcome' = "captured" /\ Clean') BY <1>12 DEF Judge
  <2> QED BY <2>1, <2>2, Zenon DEF Running
<1>13. CASE Accept
  <2>1. outcome = "captured" /\ outcome' \in {"accepted", "refused"} /\ UNCHANGED decoder
    BY <1>13 DEF Accept
  <2>2. UNCHANGED <<closed, line>> /\ (Clean => Clean') BY <2>1 DEF decoder, stream, verdict, Clean
  <2> QED BY <2>1, <2>2 DEF Running
<1>14. CASE PrepareNext BY <1>14, <1>2 DEF PrepareNext, agentVars
<1>15. CASE LogsNext BY <1>15, <1>2 DEF LogsNext, agentVars
<1>16. CASE UNCHANGED sessionVars BY <1>16, <1>2 DEF sessionVars, agentVars
<1> QED BY <1>4, <1>5, <1>6, <1>7, <1>8, <1>9, <1>10, <1>11, <1>12, <1>13, <1>14, <1>15, <1>16
  DEF SessionNext, AgentNext

-----------------------------------------------------------------------------
(* The agent and its calls *)

LEMMA CallTypesStep ==
  ASSUME CallTypes, [SessionNext]_sessionVars
  PROVE  CallTypes'
<1> USE DEF CallTypes
<1>1. UNCHANGED focus
  BY DEF SessionNext, AgentNext, Speak, Announce, Ask, Answered, GiveUp, CancelArrives, ServerMoves,
         StdoutMoves, Judge, Accept, PrepareNext, LogsNext, Ended, agentVars, sessionVars
<1>2. harness' = harness /\ line' \in {"empty", "open", "discarding"}
      /\ (focus = "tools" => line' # "discarding")
  <2>1. ASSUME NEW frame, Bytes(frame) PROVE harness' = harness /\ line' = "open"
    BY <2>1 DEF Bytes
  <2>2. CASE Newline BY <2>2 DEF Newline
  <2>3. CASE focus = "frames" /\ Oversize BY <2>3 DEF Oversize
  <2>4. CASE FinishDecoder BY <2>4 DEF FinishDecoder, stream
  <2>5. CASE UNCHANGED decoder BY <2>5 DEF decoder, stream
  <2> QED BY <2>1, <2>2, <2>3, <2>4, <2>5, DecoderMoves
<1>3. /\ tool' \in {"none", "announced", "asked", "given_up"}
      /\ tool' # "none" => tool # "none" \/ focus = "tools"
  BY DEF SessionNext, AgentNext, Speak, Announce, Ask, Answered, GiveUp, CancelArrives, ServerMoves,
         StdoutMoves, Judge, Accept, PrepareNext, LogsNext, Ended, agentVars, sessionVars
<1>4. wronged' => wronged \/ tool # "none"
  <2>1. CASE Answered BY <2>1, Zenon DEF Answered
  <2>2. CASE GiveUp BY <2>2, Zenon DEF GiveUp
  <2>3. CASE UNCHANGED wronged BY <2>3
  <2> QED BY <2>1, <2>2, <2>3
       DEF SessionNext, AgentNext, Speak, Announce, Ask, CancelArrives, ServerMoves,
           StdoutMoves, Judge, Accept, PrepareNext, LogsNext, agentVars, sessionVars
<1> QED BY <1>1, <1>2, <1>3, <1>4

\* The frames that an agent which uses tools writes besides its calls
LEMMA SpokenIsResult ==
  ASSUME focus = "tools", harness = "copilot", NEW frame \in Spoken
  PROVE  frame.kind = "result"
<1>1. Spoken = EndFrames BY DEF Spoken
<1>2. frame \in [kind: {"result"}, code: {"zero"}] BY <1>1 DEF EndFrames
<1> QED BY <1>2

LEMMA ProtocolStays ==
  ASSUME HeardIsReported, protocol, [SessionNext]_sessionVars
  PROVE  protocol'
<1>1. ASSUME NEW frame, Bytes(frame) PROVE protocol' BY <1>1 DEF Bytes, verdict
<1>2. CASE Newline
  <2>1. CASE line = "open" BY <1>2, <2>1, FrameReports DEF Newline, HeardIsReported
  <2>2. CASE line # "open" BY <1>2, <2>2 DEF Newline, verdict
  <2> QED BY <2>1, <2>2
<1>3. CASE Oversize BY <1>3, Zenon DEF Oversize, Fails
<1>4. CASE FinishDecoder BY <1>4, Zenon DEF FinishDecoder
<1>5. CASE UNCHANGED decoder BY <1>5 DEF decoder, verdict
<1> QED BY <1>1, <1>2, <1>3, <1>4, <1>5, DecoderMoves

\* What a finished line says of a call
LEMMA StartIsTaken ==
  ASSUME Handle(Started), harness = "copilot"
  PROVE  protocol' \/ call \in calls'
<1>1. OnToolStart(Started) BY DEF Handle, OnCopilot, Started
<1>2. CASE Fails("call_started_twice") BY <1>2, Zenon DEF Fails
<1>3. CASE calls' = calls \cup {Started.id} BY <1>3 DEF Started
<1> QED BY <1>1, <1>2, <1>3 DEF OnToolStart

LEMMA ResultSaysNothing ==
  ASSUME Handle(held), harness = "copilot", held.kind = "result"
  PROVE  UNCHANGED calls
<1>1. OnResult(held) BY DEF Handle, OnCopilot
<1> QED BY <1>1 DEF OnResult

LEMMA FailureIsTaken ==
  ASSUME Handle(Failure), harness \in {"copilot", "opencode"}, harness = "copilot" => call \in calls
  PROVE  protocol'
<1>1. CASE harness = "copilot"
  <2>1. OnToolEnd(Failure) BY <1>1 DEF Handle, OnCopilot, Failure
  <2>2. Failure.id \in calls /\ Failure.success = FALSE BY <1>1 DEF Failure
  <2> QED BY <2>1, <2>2, Zenon DEF OnToolEnd
<1>2. CASE harness = "opencode"
  <2>1. Fails("session") \/ OnPart(Failure) BY <1>2 DEF Handle, OnOpenCode, Failure
  <2>2. Failure.status = "error" BY <1>2 DEF Failure
  <2> QED BY <2>1, <2>2, Zenon DEF OnPart, Fails
<1> QED BY <1>1, <1>2

LEMMA CallStep ==
  ASSUME HeardIsReported, CallTypes, CallIsKnown, [SessionNext]_sessionVars
  PROVE  CallIsKnown'
<1> SUFFICES ASSUME harness' = "copilot", tool' \in {"announced", "asked"}
             PROVE  /\ protocol' \/ call' \in calls' \/ (line' = "open" /\ held' = Started')
                    /\ line' = "open" => held' = Started' \/ held'.kind = "result"
  BY DEF CallIsKnown
<1>0. harness = "copilot"
  BY DecoderMoves DEF Bytes, Newline, Oversize, FinishDecoder, decoder
<1>a. ASSUME tool \in {"announced", "asked"}, UNCHANGED <<call, decoder>>
      PROVE  CallIsKnown'
  BY <1>0, <1>a DEF CallIsKnown, decoder, stream, verdict, Started
<1>1. CASE Speak
  <2>1. tool \in {"announced", "asked"} /\ call' = call /\ focus = "tools" BY <1>1 DEF Speak, CallTypes
  <2>2. PICK frame \in Spoken : Bytes(frame) BY <1>1 DEF Speak
  <2>3. /\ line = "empty" /\ UNCHANGED <<protocol, calls>>
        /\ line' = "open" /\ held' = frame
    BY <2>2 DEF Bytes, verdict
  <2>4. protocol \/ call \in calls BY <1>0, <2>1, <2>3 DEF CallIsKnown
  <2>5. frame.kind = "result" BY <1>0, <2>1, SpokenIsResult
  <2> QED BY <2>1, <2>3, <2>4, <2>5
<1>2. CASE Announce
  <2>1. Bytes([kind |-> "tool_start", id |-> call']) BY <1>0, <1>2 DEF Announce
  <2> QED BY <2>1 DEF Bytes, Started
<1>3. CASE Ask BY <1>3, <1>a DEF Ask, CallIsKnown
<1>4. CASE Answered BY <1>4 DEF Answered
<1>5. CASE GiveUp BY <1>5 DEF GiveUp
<1>6. CASE CancelArrives BY <1>6 DEF CancelArrives
<1>7. CASE ServerMoves BY <1>7, <1>a DEF ServerMoves, agentVars, CallIsKnown
<1>8. CASE StdoutMoves
  <2>1. tool \in {"announced", "asked"} /\ call' = call /\ focus = "tools"
    BY <1>8 DEF StdoutMoves, agentVars, CallTypes
  <2>2. Newline /\ line = "open" BY <1>8, <2>1 DEF StdoutMoves, Newline, CallTypes
  <2>3. line' = "empty" /\ Handle(held) BY <2>2 DEF Newline
  <2>4. CASE protocol BY <2>3, <2>4, FrameReports DEF HeardIsReported
  <2>5. CASE held = Started BY <1>0, <2>1, <2>3, <2>5, StartIsTaken
  <2>6. CASE call \in calls /\ held.kind = "result" BY <1>0, <2>1, <2>3, <2>6, ResultSaysNothing
  <2> QED BY <1>0, <2>1, <2>2, <2>3, <2>4, <2>5, <2>6 DEF CallIsKnown
<1>9. CASE Judge
  <2>1. tool \in {"announced", "asked"} /\ call' = call BY <1>9 DEF Judge
  <2>2. line = "empty" /\ UNCHANGED <<line, calls>> /\ (protocol => protocol')
    BY <1>9, Zenon DEF Judge, FinishDecoder, stream
  <2> QED BY <1>0, <2>1, <2>2 DEF CallIsKnown
<1>10. CASE Accept BY <1>10, <1>a DEF Accept, CallIsKnown
<1>11. CASE PrepareNext BY <1>11, <1>a DEF PrepareNext, agentVars, CallIsKnown
<1>12. CASE LogsNext BY <1>12, <1>a DEF LogsNext, agentVars, CallIsKnown
<1>13. CASE UNCHANGED sessionVars BY <1>13, <1>a DEF sessionVars, agentVars, CallIsKnown
<1> QED BY <1>1, <1>2, <1>3, <1>4, <1>5, <1>6, <1>7, <1>8, <1>9, <1>10, <1>11, <1>12, <1>13
  DEF SessionNext, AgentNext

\* Reporting a failure of a call that the decoder knows, or has known to be wrong
LEMMA ReportStep ==
  ASSUME HeardIsReported, CallTypes, CallIsKnown, WrongIsHeard, [SessionNext]_sessionVars,
         tool \in {"announced", "asked"}, call' = call, NEW success \in BOOLEAN, Report(success)
  PROVE  WrongIsHeard'
<1>1. /\ line = "empty" /\ line' = "open" /\ UNCHANGED <<harness, protocol, calls>>
      /\ ~success => held' = Failure
  <2>1. CASE harness = "copilot"
    <3>1. Bytes([kind |-> "tool_end", id |-> call, success |-> success]) BY <2>1 DEF Report
    <3> QED BY <2>1, <3>1 DEF Bytes, verdict, Failure
  <2>2. CASE harness # "copilot"
    <3>1. Bytes([kind |-> "tool", session |-> "own",
                 status |-> IF success THEN "completed" ELSE "error"]) BY <2>2 DEF Report
    <3> QED BY <2>2, <3>1 DEF Bytes, verdict, Failure
  <2> QED BY <2>1, <2>2
<1>2. wronged' <=> (wronged \/ ~success) BY Zenon DEF Report
<1>3. Failure' = Failure BY <1>1 DEF Failure
<1>4. CASE success BY <1>1, <1>2, <1>4 DEF WrongIsHeard
<1>5. CASE ~success BY <1>1, <1>3, <1>5 DEF WrongIsHeard, CallIsKnown
<1> QED BY <1>4, <1>5

LEMMA WrongStep ==
  ASSUME HeardIsReported, CallTypes, CallIsKnown, WrongIsHeard, [SessionNext]_sessionVars
  PROVE  WrongIsHeard'
<1>a. ASSUME UNCHANGED <<call, decoder, wronged>> PROVE WrongIsHeard'
  BY <1>a DEF WrongIsHeard, Failure, decoder, stream, verdict
<1>b. ASSUME UNCHANGED wronged, line = "empty" PROVE WrongIsHeard'
  BY <1>b, ProtocolStays DEF WrongIsHeard
<1>c. ASSUME NEW frame, Bytes(frame) PROVE line = "empty" BY <1>c DEF Bytes
<1>1. CASE Speak BY <1>1, <1>b, <1>c DEF Speak
<1>2. CASE Announce BY <1>2, <1>b DEF Announce
<1>3. CASE Ask BY <1>3, <1>a DEF Ask
<1>4. CASE Answered
  <2>1. Report(reply = "result") BY <1>4 DEF Answered
  <2>2. (reply = "result") \in BOOLEAN OBVIOUS
  <2>3. tool \in {"announced", "asked"} /\ call' = call BY <1>4 DEF Answered
  <2> HIDE DEF WrongIsHeard
  <2> QED BY ONLY HeardIsReported, CallTypes, CallIsKnown, WrongIsHeard, [SessionNext]_sessionVars,
             <2>1, <2>2, <2>3, ReportStep
<1>5. CASE GiveUp BY <1>5, ReportStep DEF GiveUp
<1>6. CASE CancelArrives BY <1>6, <1>a DEF CancelArrives
<1>7. CASE ServerMoves BY <1>7, <1>a DEF ServerMoves, agentVars
<1>8. CASE StdoutMoves
  <2>1. UNCHANGED <<focus, call, wronged>> BY <1>8 DEF StdoutMoves, agentVars
  <2>2. SUFFICES ASSUME wronged PROVE protocol' BY <2>1 DEF WrongIsHeard
  <2>3. CASE protocol BY <2>3, ProtocolStays
  <2>4. CASE ~protocol
    <3>1. line = "open" /\ held = Failure /\ (harness = "copilot" => call \in calls)
      BY <2>2, <2>4 DEF WrongIsHeard
    <3>2. Newline BY <1>8, <2>2 DEF StdoutMoves, CallTypes
    <3> QED BY <3>1, <3>2, FailureIsTaken DEF Newline, CallTypes
  <2> QED BY <2>3, <2>4
<1>9. CASE Judge BY <1>9, <1>b DEF Judge, FinishDecoder
<1>10. CASE Accept BY <1>10, <1>a DEF Accept
<1>11. CASE PrepareNext BY <1>11, <1>a DEF PrepareNext, agentVars
<1>12. CASE LogsNext BY <1>12, <1>a DEF LogsNext, agentVars
<1>13. CASE UNCHANGED sessionVars BY <1>13, <1>a DEF sessionVars, agentVars
<1> QED BY <1>1, <1>2, <1>3, <1>4, <1>5, <1>6, <1>7, <1>8, <1>9, <1>10, <1>11, <1>12, <1>13
  DEF SessionNext, AgentNext

\* Only capture_exports accepts, and the log stays as it was then
LEMMA AcceptedStep ==
  ASSUME AcceptedLog, [SessionNext]_sessionVars
  PROVE  AcceptedLog'
<1> USE DEF AcceptedLog
<1>a. ASSUME Running, UNCHANGED outcome PROVE AcceptedLog' BY <1>a DEF Running
<1>b. ASSUME UNCHANGED <<outcome, disk>> PROVE AcceptedLog' BY <1>b DEF Quiescent
<1>1. CASE Judge BY <1>1 DEF Judge
<1>2. CASE Accept
  <2>1. disk' = disk BY <1>2 DEF Accept, serverVars, log
  <2>2. outcome' = "accepted" => Quiescent(disk)
    BY <1>2 DEF Accept, CapturesExports, Settled, Quiescent
  <2> QED BY <2>1, <2>2 DEF Quiescent
<1>3. CASE PrepareNext BY <1>3, <1>b DEF PrepareNext, agentVars, serverVars, log
<1>4. CASE LogsNext BY <1>4, <1>b DEF LogsNext, agentVars, serverVars, log
<1>5. CASE UNCHANGED sessionVars BY <1>5, <1>b DEF sessionVars, agentVars, serverVars, log
<1> QED BY <1>a, <1>1, <1>2, <1>3, <1>4, <1>5
     DEF SessionNext, AgentNext, Speak, Announce, Ask, Answered, GiveUp, CancelArrives, ServerMoves,
         StdoutMoves, Ended, agentVars

-----------------------------------------------------------------------------
(* The prose *)

MessageFields == {"lines", "got", "complete", "phase", "suppressed", "streamed", "final"}

IsMessage(m) == m = [f \in MessageFields |-> m[f]] /\ m.suppressed \in BOOLEAN

\* Every message that is followed has all its fields
MessagesAreWhole ==
  /\ messages = [id \in DOMAIN messages |-> messages[id]]
  /\ \A id \in DOMAIN messages : IsMessage(messages[id])

\* What a message becomes shows nothing of what is private then
Discreet(old, new) ==
  Secret(new) \/ (new.phase = "unknown" /\ ~new.complete) => new.lines.shown = old.lines.shown

\* A phase releases nothing: what is pending of a private message is withheld
LEMMA PhaseShowsNothing ==
  ASSUME NEW m, IsMessage(m), NEW phase
  PROVE  LET told == WithPhase(m, phase)
         IN  IsMessage(told) /\ told.lines.shown = m.lines.shown /\ told.complete = m.complete
<1> DEFINE changed == [m EXCEPT
             !.phase = IF phase = "invalid" THEN "hidden" ELSE phase,
             !.suppressed = @ \/ phase = "invalid" \/ m.phase \notin {"unknown", phase}]
<1>1. IsMessage(changed) /\ changed.lines = m.lines /\ changed.complete = m.complete
  BY DEF IsMessage, MessageFields
<1> DEFINE withheld == [changed EXCEPT !.lines = Withhold(@)]
<1>2. IsMessage(withheld) /\ withheld.lines = Withhold(changed.lines) /\ withheld.complete = changed.complete
  <2> HIDE DEF changed
  <2> QED BY <1>1 DEF IsMessage, MessageFields
<1>3. withheld.lines.shown = changed.lines.shown BY <1>2 DEF Withhold
<1>4. WithPhase(m, phase) \in {m, changed, withheld} BY DEF WithPhase
<1> HIDE DEF changed, withheld
<1> QED BY <1>1, <1>2, <1>3, <1>4

\* Only a public message streams
LEMMA DeltaIsDiscreet ==
  ASSUME NEW m, IsMessage(m), NEW text
  PROVE  IsMessage(WithDelta(m, text)) /\ Discreet(m, WithDelta(m, text))
<1> DEFINE can == Public(m) /\ (m.got = <<>> \/ m.streamed)
           lines == IF can THEN Feed(m.lines, text, TextLimit) ELSE m.lines
           new == WithDelta(m, text)
<1>1. new = [m EXCEPT !.got = @ \o text, !.streamed = @ \/ can, !.lines = lines]
  BY DEF WithDelta
<1>2. IsMessage(new) /\ new.lines = lines /\ new.phase = m.phase /\ new.suppressed = m.suppressed
  <2> HIDE DEF lines, can
  <2> QED BY <1>1 DEF IsMessage, MessageFields
<1>3. CASE can BY <1>2, <1>3 DEF Discreet, Secret, Public, PublicPhases
<1>4. CASE ~can BY <1>2, <1>4 DEF Discreet
<1> QED BY <1>2, <1>3, <1>4

\* The canonical text is shown of what is not private, and completes the message
LEMMA FinalIsDiscreet ==
  ASSUME NEW m, IsMessage(m), NEW text
  PROVE  IsMessage(WithFinal(m, text)) /\ Discreet(m, WithFinal(m, text))
<1> DEFINE new == WithFinal(m, text)
<1>1. CASE Secret(m)
  <2>1. new = [m EXCEPT !.complete = TRUE] BY <1>1 DEF WithFinal
  <2> QED BY <2>1 DEF IsMessage, MessageFields, Discreet
<1>2. CASE ~Secret(m)
  <2>1. PICK lines : new = [m EXCEPT !.complete = TRUE, !.lines = lines, !.final = text]
    BY <1>2, Zenon DEF WithFinal
  <2>2. /\ IsMessage(new) /\ new.complete = TRUE
        /\ new.phase = m.phase /\ new.suppressed = m.suppressed
    BY <2>1 DEF IsMessage, MessageFields
  <2>3. ~Secret(new) BY <1>2, <2>2 DEF Secret
  <2> QED BY <2>2, <2>3 DEF Discreet
<1> QED BY <1>1, <1>2

LEMMA TextIsDiscreet ==
  ASSUME NEW m, IsMessage(m), NEW frame
  PROVE  IsMessage(Told(m, frame)) /\ Discreet(m, Told(m, frame))
<1> DEFINE told == WithPhase(m, frame.phase)
<1>1. IsMessage(told) /\ told.lines.shown = m.lines.shown BY PhaseShowsNothing
<1>2. Told(m, frame) \in {m, told, WithDelta(told, frame.text), WithFinal(told, frame.text)}
  BY DEF Told
<1> HIDE DEF told
<1>3. \A new : Discreet(told, new) => Discreet(m, new) BY <1>1 DEF Discreet
<1> QED BY <1>1, <1>2, <1>3, DeltaIsDiscreet, FinalIsDiscreet DEF Discreet

\* What any step does to the messages
Discretion ==
  /\ MessagesAreWhole'
  /\ \A id \in DOMAIN messages : id \in DOMAIN messages' /\ Discreet(messages[id], messages'[id])

LEMMA NothingToldIsDiscreet ==
  ASSUME MessagesAreWhole, UNCHANGED messages
  PROVE  Discretion
BY DEF MessagesAreWhole, Discretion, Discreet

LEMMA FrameIsDiscreet ==
  ASSUME MessagesAreWhole, NEW frame, OnText(frame)
  PROVE  Discretion
<1>1. CASE UNCHANGED messages BY <1>1, NothingToldIsDiscreet
<1>2. CASE Put(frame.id, Told(Message(frame.id), frame))
  <2> DEFINE old == Message(frame.id)
             new == Told(old, frame)
  <2>1. IsMessage(old)
    BY DEF Message, NewMessage, MessagesAreWhole, IsMessage, MessageFields
  <2>2. IsMessage(new) /\ Discreet(old, new) BY <2>1, TextIsDiscreet
  <2>3. frame.id \in DOMAIN messages => old = messages[frame.id] BY DEF Message
  <2>4. /\ messages' = [id \in DOMAIN messages' |-> messages'[id]]
        /\ DOMAIN messages' = DOMAIN messages \cup {frame.id}
        /\ messages'[frame.id] = new
        /\ \A id \in DOMAIN messages \ {frame.id} : messages'[id] = messages[id]
    <3> HIDE DEF new
    <3>1. messages' = [m \in DOMAIN messages \cup {frame.id} |->
                        IF m = frame.id THEN new ELSE messages[m]]
      BY <1>2 DEF Put, new
    <3> QED BY <3>1
  <2> HIDE DEF old, new
  <2>5. \A id \in DOMAIN messages' : IsMessage(messages'[id])
    BY <2>2, <2>4 DEF MessagesAreWhole
  <2>6. \A id \in DOMAIN messages : Discreet(messages[id], messages'[id])
    BY <2>2, <2>3, <2>4 DEF Discreet
  <2> QED BY <2>4, <2>5, <2>6 DEF Discretion, MessagesAreWhole
<1> QED BY <1>1, <1>2 DEF OnText

LEMMA ProseStep ==
  ASSUME MessagesAreWhole, [SessionNext]_sessionVars
  PROVE  Discretion
<1>1. CASE \E frame : Bytes(frame) BY <1>1, NothingToldIsDiscreet DEF Bytes
<1>2. CASE Newline
  <2>1. UNCHANGED messages \/ Handle(held) BY <1>2 DEF Newline
  <2>2. Handle(held) => UNCHANGED messages \/ OnText(held)
    BY DEF Handle, OnCopilot, OnOpenCode, OnToolStart, OnToolEnd, OnResult, OnModel, OnStepStart,
           OnStepFinish, OnPart, Fails, Quiet
  <2> QED BY <2>1, <2>2, NothingToldIsDiscreet, FrameIsDiscreet
<1>3. CASE Oversize BY <1>3, NothingToldIsDiscreet DEF Oversize, Fails, Quiet
<1>4. CASE FinishDecoder
  <2> DEFINE flushed(m) == [m EXCEPT !.lines = FlushLines(@)]
  <2>1. messages' = [id \in DOMAIN messages |->
          IF Public(messages[id]) THEN flushed(messages[id]) ELSE messages[id]]
    BY <1>4 DEF FinishDecoder
  <2>2. ASSUME NEW m, IsMessage(m), Public(m) PROVE IsMessage(flushed(m)) /\ Discreet(m, flushed(m))
    <3>1. /\ IsMessage(flushed(m))
          /\ flushed(m).phase = m.phase /\ flushed(m).suppressed = m.suppressed
      BY <2>2 DEF IsMessage, MessageFields
    <3> QED BY <3>1, <2>2 DEF Discreet, Public, Secret, PublicPhases
  <2>3. \A id \in DOMAIN messages :
          IsMessage(messages'[id]) /\ Discreet(messages[id], messages'[id])
    <3> HIDE DEF flushed
    <3> QED BY <2>1, <2>2 DEF MessagesAreWhole, Discreet
  <2>4. DOMAIN messages' = DOMAIN messages /\ messages' = [id \in DOMAIN messages' |-> messages'[id]]
    BY <2>1
  <2> QED BY <2>3, <2>4 DEF Discretion, MessagesAreWhole
<1>5. CASE UNCHANGED decoder BY <1>5, NothingToldIsDiscreet DEF decoder, stream
<1> QED BY <1>1, <1>2, <1>3, <1>4, <1>5, DecoderMoves

-----------------------------------------------------------------------------
(* The theorems *)

LEMMA PreparationAlways ==
  ASSUME ForeignIsDenied, [SessionNext]_sessionVars
  PROVE  ForeignIsDenied'
BY PreparationStep DEF SessionNext, AgentNext, PrepareNext, LogsNext, sessionVars

LEMMA Initially ==
  ASSUME SessionInit
  PROVE  IInv
<1>1. ForeignIsDenied BY DEF SessionInit, PrepInit, ForeignIsDenied
<1>2. AskedOnce BY DEF SessionInit, DecoderInit, AskedOnce, Running
<1>3. HeardIsReported BY DEF SessionInit, DecoderInit, HeardIsReported
<1>4. LogTypes
  <2>1. Entry \in LogEntries BY ServerAssumption DEF Entry, LogEntries
  <2> QED BY <2>1 DEF SessionInit, ServerInit, LogTypes, Points, Patches, Outputs
<1>5. LogKnows BY DEF SessionInit, ServerInit, LogKnows
<1>6. CallTypes BY DEF SessionInit, DecoderInit, CallTypes
<1>7. CallIsKnown /\ WrongIsHeard /\ AcceptedLog
  BY DEF SessionInit, CallIsKnown, WrongIsHeard, AcceptedLog
<1> QED BY <1>1, <1>2, <1>3, <1>4, <1>5, <1>6, <1>7 DEF IInv

\* The inductive invariant holds in every state of a session.
THEOREM InvariantHolds == SessionSpec => []IInv
<1>1. IInv /\ [SessionNext]_sessionVars => IInv'
  BY PreparationAlways, AskedStep, DecoderStep, ServerAlways, CallTypesStep, CallStep, WrongStep,
     AcceptedStep DEF IInv
<1> QED BY Initially, <1>1, PTL DEF SessionSpec

\* A producer starts only when every foreign server is disabled that its native
\* command reported last, and in time, whatever the user's configuration holds
\* and however it changes between the looks (build_contract_request).
THEOREM ForeignStaysOut == SessionSpec => []OnlyOwnServerIsEnabled
<1>1. IInv => OnlyOwnServerIsEnabled BY DEF IInv, ForeignIsDenied, OnlyOwnServerIsEnabled
<1> QED BY <1>1, InvariantHolds, PTL

\* A stream that lets the run go on said nothing else on its way, however many
\* frames it has (ContractStreamDecoder, OpenCodeStreamDecoder).
THEOREM CleanIsWhole == SessionSpec => []CleanSessionIsWhole
<1>1. IInv => CleanSessionIsWhole
  BY DEF IInv, HeardIsReported, CleanSessionIsWhole, Clean
<1> QED BY <1>1, InvariantHolds, PTL

\* Accepted outputs have no operation half done and no failed call behind them,
\* for every number of calls, of starts of the server and of failing saves.
THEOREM WorkIsSettled == SessionSpec => []AcceptedWorkIsSettled
<1>1. IInv => AcceptedWorkIsSettled
  <2>1. SUFFICES ASSUME IInv, outcome = "accepted" PROVE torn = 0 /\ ~wronged
    BY DEF AcceptedWorkIsSettled
  <2>2. torn = 0 BY <2>1 DEF IInv, AcceptedLog, LogKnows
  <2>3. line = "empty" /\ ~protocol BY <2>1 DEF IInv, AskedOnce, Clean
  <2>4. ~wronged
    BY <2>1, <2>3 DEF IInv, WrongIsHeard
  <2> QED BY <2>2, <2>4
<1> QED BY <1>1, InvariantHolds, PTL

\* No step shows text of a message that is known to be private, nor of one whose
\* phase is unknown before it is complete, for texts and streams of any length
\* (_Message.delta and finish of contracts/stream.py).
THEOREM ProseStaysPrivate == SessionSpec => PrivateStaysPrivate
<1>1. SessionInit => MessagesAreWhole
  BY DEF SessionInit, DecoderInit, MessagesAreWhole
<1>2. MessagesAreWhole /\ [SessionNext]_sessionVars => MessagesAreWhole' /\ [ShowsNothingPrivate]_decoder
  BY ProseStep DEF Discretion, Discreet, ShowsNothingPrivate
<1> QED BY <1>1, <1>2, PTL DEF SessionSpec, PrivateStaysPrivate
-----------------------------------------------------------------------------
(* Induction, from the well-foundedness of < on the natural numbers *)

\* Any set of natural numbers that has an element has a least one
LEMMA LeastOf ==
  ASSUME NEW T, T \subseteq Nat, T # {}
  PROVE  \E n \in T : \A m \in T : n <= m
<1> DEFINE R == OpToRel(<, Nat)
<1>1. IsWellFoundedOn(R, Nat) BY NatLessThanWellFounded
<1>2. \A x, y \in Nat : x < y => <<x, y>> \in R BY DEF OpToRel
<1> HIDE DEF R
<1>3. PICK n \in T : \A m \in T : ~ (<<m, n>> \in R) BY <1>1, WFMin
<1>4. ASSUME NEW m \in T PROVE n <= m
  <2>1. ~ (<<m, n>> \in R) /\ m \in Nat /\ n \in Nat BY <1>3
  <2>2. ~ (m < n) BY <2>1, <1>2
  <2> QED BY <2>1, <2>2
<1> QED BY <1>4

\* Induction, over a set where the library takes an operator
LEMMA Induct ==
  ASSUME NEW S, 0 \in S, \A n \in Nat : n \in S => n + 1 \in S
  PROVE  Nat \subseteq S
<1> SUFFICES ASSUME Nat \ S # {} PROVE FALSE OBVIOUS
<1>1. PICK n \in Nat \ S : \A m \in Nat \ S : n <= m BY LeastOf
<1>2. n - 1 \in Nat /\ n - 1 \notin Nat \ S BY <1>1
<1> QED BY <1>1, <1>2

\* What holds of no lines and is kept when one is added holds of all
LEMMA ListInduct ==
  ASSUME NEW E, NEW B, <<>> \in B,
         \A s \in Seq(E) : \A x \in E : s \in B => Append(s, x) \in B
  PROVE  Seq(E) \subseteq B
<1> DEFINE A == {n \in Nat : \A s \in Seq(E) : Len(s) = n => s \in B}
<1>1. 0 \in A
  <2>1. \A s \in Seq(E) : Len(s) = 0 => s = <<>> BY EmptySeq
  <2> QED BY <2>1
<1>2. ASSUME NEW n \in Nat, n \in A PROVE n + 1 \in A
  <2> SUFFICES ASSUME NEW s \in Seq(E), Len(s) = n + 1 PROVE s \in B OBVIOUS
  <2> DEFINE front == SubSeq(s, 1, n)
  <2>1. front \in Seq(E) /\ Len(front) = n /\ s[n + 1] \in E
        /\ \A i \in 1 .. n : front[i] = s[i]
    <3>1. \A i \in 1 .. n : i \in 1 .. Len(s) OBVIOUS
    <3> QED BY <3>1, SubSeqProperties, ElementOfSeq
  <2> HIDE DEF front
  <2>2. s = Append(front, s[n + 1])
    <3>1. Append(front, s[n + 1]) \in Seq(E) /\ Len(Append(front, s[n + 1])) = n + 1 BY <2>1
    <3>2. \A i \in 1 .. n + 1 : s[i] = Append(front, s[n + 1])[i]
      <4> TAKE i \in 1 .. n + 1
      <4>1. CASE i = n + 1 BY <2>1, <4>1
      <4>2. CASE i # n + 1
        <5>1. i \in 1 .. n BY <4>2
        <5> QED BY <2>1, <5>1
      <4> QED BY <4>1, <4>2
    <3> QED BY <3>1, <3>2, SeqEqual
  <2>3. front \in B BY <1>2, <2>1
  <2>4. Append(front, s[n + 1]) \in B BY <2>1, <2>3
  <2> QED BY <2>2, <2>4
<1>3. Nat \subseteq A BY <1>1, <1>2, Induct
<1>4. \A s \in Seq(E) : Len(s) \in Nat OBVIOUS
<1> QED BY <1>3, <1>4

\* The fold takes the last position first
LEMMA LastIsMax == \A n \in Nat : \A t \in SUBSET (1 .. n + 1) : n + 1 \in t => Max(t) = n + 1
<1> SUFFICES ASSUME NEW n \in Nat, NEW t \in SUBSET (1 .. n + 1), n + 1 \in t
             PROVE  Max(t) = n + 1
  OBVIOUS
<1>1. \A y \in t : n + 1 >= y OBVIOUS
<1>2. \A x \in t : (\A y \in t : x >= y) => x = n + 1
  <2> TAKE x \in t
  <2>1. x \in Int /\ x <= n + 1 OBVIOUS
  <2> QED BY <2>1
<1> QED BY <1>1, <1>2 DEF Max

-----------------------------------------------------------------------------
(* What a text shows *)

See(seen, char) == IF char = NL THEN seen ELSE Append(seen, char)

\* What is seen of the first n characters, for each n
Seen(s) ==
  CHOOSE iter : iter = [t \in SUBSET DOMAIN s |->
                          IF t = {} THEN <<>> ELSE See(iter[t \ {Max(t)}], s[Max(t)])]

\* The fold of the community modules is a table over the subsets of the positions
LEMMA VisibleIsPartial == \A s : Visible(s) = Seen(s)[DOMAIN s]
BY DEF Visible, FoldLeft, MapThenFoldSet, Seen, See

\* The table, row by row (a lemma with the operator of the fold as a parameter could
\* not be instantiated here, so that the argument is made for each of the two folds)
LEMMA SeenIs ==
  ASSUME NEW E, NEW s \in Seq(E)
  PROVE  /\ Seen(s)[{}] = <<>>
         /\ \A k \in Nat : k < Len(s) => Seen(s)[1 .. k + 1] = See(Seen(s)[1 .. k], s[k + 1])
<1> DEFINE V(f, t) == IF t = {} THEN <<>> ELSE See(f[t \ {Max(t)}], s[Max(t)])
           Is(f, sets) == f = [t \in sets |-> V(f, t)]
           upTo(n) == CHOOSE f : Is(f, SUBSET (1 .. n))
           S == {n \in Nat : Is(upTo(n), SUBSET (1 .. n))}
<1>1. 0 \in S
  <2> DEFINE g == [t \in SUBSET (1 .. 0) |-> <<>>]
  <2>1. \A t \in SUBSET (1 .. 0) : t = {} OBVIOUS
  <2>2. Is(g, SUBSET (1 .. 0))
    <3>1. \A t \in SUBSET (1 .. 0) : V(g, t) = <<>> BY <2>1
    <3> HIDE DEF V
    <3> QED BY <3>1
  <2> HIDE DEF Is
  <2> QED BY <2>2
<1>2. ASSUME NEW n \in Nat, n \in S PROVE n + 1 \in S
  <2> DEFINE g == upTo(n)
             h == [t \in SUBSET (1 .. n + 1) |->
                     IF t \in SUBSET (1 .. n) THEN g[t] ELSE See(g[t \ {n + 1}], s[n + 1])]
  <2>1. Is(g, SUBSET (1 .. n)) BY <1>2
  <2> HIDE DEF g
  <2>2. \A t \in SUBSET (1 .. n) : g[t] = V(g, t) BY <2>1
  <2>3. \A t \in SUBSET (1 .. n) : t \in SUBSET (1 .. n + 1) OBVIOUS
  <2>4. \A t \in SUBSET (1 .. n) : h[t] = g[t] BY <2>3
  <2>5. \A t \in SUBSET (1 .. n + 1) : h[t] = V(h, t)
    <3> TAKE t \in SUBSET (1 .. n + 1)
    <3>1. CASE t \in SUBSET (1 .. n)
      <4>1. h[t] = V(g, t) BY <2>2, <2>4, <3>1
      <4>2. t \ {Max(t)} \in SUBSET (1 .. n) BY <3>1
      <4>3. h[t \ {Max(t)}] = g[t \ {Max(t)}] BY <2>4, <4>2
      <4> HIDE DEF h
      <4> QED BY <4>1, <4>3
    <3>2. CASE t \notin SUBSET (1 .. n)
      <4>1. n + 1 \in t /\ t \ {n + 1} \in SUBSET (1 .. n) /\ t # {} BY <3>2
      <4>2. Max(t) = n + 1 BY <4>1, LastIsMax
      <4>3. h[t] = See(g[t \ {n + 1}], s[n + 1]) BY <3>2
      <4>4. h[t \ {n + 1}] = g[t \ {n + 1}] BY <2>4, <4>1
      <4> HIDE DEF h
      <4> QED BY <4>1, <4>2, <4>3, <4>4
    <3> QED BY <3>1, <3>2
  <2>6. Is(h, SUBSET (1 .. n + 1))
    <3>1. h = [t \in SUBSET (1 .. n + 1) |-> h[t]] OBVIOUS
    <3> HIDE DEF h, V
    <3>2. [t \in SUBSET (1 .. n + 1) |-> h[t]] = [t \in SUBSET (1 .. n + 1) |-> V(h, t)] BY <2>5
    <3> QED BY <3>1, <3>2
  <2> HIDE DEF h, Is
  <2>7. Is(upTo(n + 1), SUBSET (1 .. n + 1)) BY <2>6
  <2> HIDE DEF upTo
  <2> QED BY <2>7
<1>3. Nat \subseteq S BY <1>1, <1>2, Induct
<1>4. Seen(s) = upTo(Len(s))
  <2>1. DOMAIN s = 1 .. Len(s) OBVIOUS
  <2> QED BY <2>1 DEF Seen
<1>5. Is(Seen(s), SUBSET (1 .. Len(s)))
  <2>1. Len(s) \in Nat OBVIOUS
  <2> HIDE DEF Is, upTo
  <2> QED BY <1>3, <1>4, <2>1
<1>6. \A t \in SUBSET (1 .. Len(s)) : Seen(s)[t] = V(Seen(s), t) BY <1>5
<1>7. Seen(s)[{}] = <<>> BY <1>6
<1>8. ASSUME NEW k \in Nat, k < Len(s)
      PROVE  Seen(s)[1 .. k + 1] = See(Seen(s)[1 .. k], s[k + 1])
  <2>1. 1 .. k + 1 \in SUBSET (1 .. Len(s)) BY <1>8
  <2>2. (1 .. k + 1) \ {k + 1} = 1 .. k /\ k + 1 \in 1 .. k + 1 OBVIOUS
  <2>3. Max(1 .. k + 1) = k + 1 BY <2>2, LastIsMax
  <2>4. Seen(s)[1 .. k + 1] = V(Seen(s), 1 .. k + 1) BY <1>6, <2>1
  <2>5. 1 .. k + 1 # {} BY <2>2
  <2> QED BY <2>2, <2>3, <2>4, <2>5
<1> QED BY <1>7, <1>8

\* What a text shows when one more character is read
LEMMA VisibleMore ==
  ASSUME NEW E, NEW s \in Seq(E), NEW x \in E
  PROVE  Visible(Append(s, x)) = See(Visible(s), x)
<1> DEFINE more == Append(s, x)
           A == {k \in Nat : k <= Len(s) => Seen(more)[1 .. k] = Seen(s)[1 .. k]}
<1>1. more \in Seq(E) /\ Len(more) = Len(s) + 1 /\ more[Len(s) + 1] = x
      /\ \A k \in 1 .. Len(s) : more[k] = s[k]
  OBVIOUS
<1> HIDE DEF more
<1>2. 0 \in A
  <2>1. 1 .. 0 = {} OBVIOUS
  <2>2. Seen(more)[{}] = <<>> /\ Seen(s)[{}] = <<>> BY <1>1, SeenIs
  <2> QED BY <2>1, <2>2
<1>3. ASSUME NEW k \in Nat, k \in A PROVE k + 1 \in A
  <2> SUFFICES ASSUME k + 1 <= Len(s)
               PROVE  Seen(more)[1 .. k + 1] = Seen(s)[1 .. k + 1]
    OBVIOUS
  <2>1. Seen(more)[1 .. k] = Seen(s)[1 .. k] BY <1>3
  <2>2. k < Len(s) /\ k < Len(more) /\ k + 1 \in 1 .. Len(s) BY <1>1
  <2>3. Seen(more)[1 .. k + 1] = See(Seen(more)[1 .. k], more[k + 1]) BY <1>1, <2>2, SeenIs
  <2>4. Seen(s)[1 .. k + 1] = See(Seen(s)[1 .. k], s[k + 1]) BY <2>2, SeenIs
  <2> QED BY <1>1, <2>1, <2>2, <2>3, <2>4
<1>4. Nat \subseteq A BY <1>2, <1>3, Induct
<1>5. Len(s) \in Nat /\ DOMAIN s = 1 .. Len(s) /\ DOMAIN more = 1 .. Len(s) + 1
  BY <1>1
<1>6. Seen(more)[1 .. Len(s)] = Seen(s)[1 .. Len(s)] BY <1>4, <1>5
<1>7. Seen(more)[1 .. Len(s) + 1] = See(Seen(more)[1 .. Len(s)], more[Len(s) + 1])
  BY <1>1, <1>5, SeenIs
<1>8. Visible(more) = Seen(more)[DOMAIN more] /\ Visible(s) = Seen(s)[DOMAIN s] BY VisibleIsPartial
<1>9. Visible(more) = See(Visible(s), x) BY <1>1, <1>5, <1>6, <1>7, <1>8
<1> QED BY <1>9 DEF more

LEMMA VisibleNone == Visible(<<>>) = <<>>
<1>1. DOMAIN <<>> = {} OBVIOUS
<1>2. <<>> \in Seq(Nat) OBVIOUS
<1> QED BY <1>1, <1>2, VisibleIsPartial, SeenIs

-----------------------------------------------------------------------------
(* What was fed *)

\* What the lines are after the first n bytes, for each n
Fed(lines, limit, s) ==
  CHOOSE iter : iter = [t \in SUBSET DOMAIN s |->
                          IF t = {} THEN lines ELSE FeedChar(iter[t \ {Max(t)}], s[Max(t)], limit)]

\* The lines of a chunk are the same kind of table
LEMMA FeedIsPartial ==
  ASSUME NEW lines, NEW limit
  PROVE  \A s : Feed(lines, s, limit) = Fed(lines, limit, s)[DOMAIN s]
BY DEF Feed, FoldLeft, MapThenFoldSet, Fed

LEMMA FedIs ==
  ASSUME NEW E, NEW s \in Seq(E), NEW lines, NEW limit
  PROVE  /\ Fed(lines, limit, s)[{}] = lines
         /\ \A k \in Nat : k < Len(s) =>
              Fed(lines, limit, s)[1 .. k + 1] =
                FeedChar(Fed(lines, limit, s)[1 .. k], s[k + 1], limit)
<1> DEFINE V(f, t) == IF t = {} THEN lines ELSE FeedChar(f[t \ {Max(t)}], s[Max(t)], limit)
           Is(f, sets) == f = [t \in sets |-> V(f, t)]
           upTo(n) == CHOOSE f : Is(f, SUBSET (1 .. n))
           S == {n \in Nat : Is(upTo(n), SUBSET (1 .. n))}
<1>1. 0 \in S
  <2> DEFINE g == [t \in SUBSET (1 .. 0) |-> lines]
  <2>1. \A t \in SUBSET (1 .. 0) : t = {} OBVIOUS
  <2>2. Is(g, SUBSET (1 .. 0))
    <3>1. \A t \in SUBSET (1 .. 0) : V(g, t) = lines BY <2>1
    <3> HIDE DEF V
    <3> QED BY <3>1
  <2> HIDE DEF Is
  <2> QED BY <2>2
<1>2. ASSUME NEW n \in Nat, n \in S PROVE n + 1 \in S
  <2> DEFINE g == upTo(n)
             h == [t \in SUBSET (1 .. n + 1) |->
                     IF t \in SUBSET (1 .. n) THEN g[t]
                     ELSE FeedChar(g[t \ {n + 1}], s[n + 1], limit)]
  <2>1. Is(g, SUBSET (1 .. n)) BY <1>2
  <2> HIDE DEF g
  <2>2. \A t \in SUBSET (1 .. n) : g[t] = V(g, t) BY <2>1
  <2>3. \A t \in SUBSET (1 .. n) : t \in SUBSET (1 .. n + 1) OBVIOUS
  <2>4. \A t \in SUBSET (1 .. n) : h[t] = g[t] BY <2>3
  <2>5. \A t \in SUBSET (1 .. n + 1) : h[t] = V(h, t)
    <3> TAKE t \in SUBSET (1 .. n + 1)
    <3>1. CASE t \in SUBSET (1 .. n)
      <4>1. h[t] = V(g, t) BY <2>2, <2>4, <3>1
      <4>2. t \ {Max(t)} \in SUBSET (1 .. n) BY <3>1
      <4>3. h[t \ {Max(t)}] = g[t \ {Max(t)}] BY <2>4, <4>2
      <4> HIDE DEF h
      <4> QED BY <4>1, <4>3
    <3>2. CASE t \notin SUBSET (1 .. n)
      <4>1. n + 1 \in t /\ t \ {n + 1} \in SUBSET (1 .. n) /\ t # {} BY <3>2
      <4>2. Max(t) = n + 1 BY <4>1, LastIsMax
      <4>3. h[t] = FeedChar(g[t \ {n + 1}], s[n + 1], limit) BY <3>2
      <4>4. h[t \ {n + 1}] = g[t \ {n + 1}] BY <2>4, <4>1
      <4> HIDE DEF h
      <4> QED BY <4>1, <4>2, <4>3, <4>4
    <3> QED BY <3>1, <3>2
  <2>6. Is(h, SUBSET (1 .. n + 1))
    <3>1. h = [t \in SUBSET (1 .. n + 1) |-> h[t]] OBVIOUS
    <3> HIDE DEF h, V
    <3>2. [t \in SUBSET (1 .. n + 1) |-> h[t]] = [t \in SUBSET (1 .. n + 1) |-> V(h, t)] BY <2>5
    <3> QED BY <3>1, <3>2
  <2> HIDE DEF h, Is
  <2>7. Is(upTo(n + 1), SUBSET (1 .. n + 1)) BY <2>6
  <2> HIDE DEF upTo
  <2> QED BY <2>7
<1>3. Nat \subseteq S BY <1>1, <1>2, Induct
<1>4. Fed(lines, limit, s) = upTo(Len(s))
  <2>1. DOMAIN s = 1 .. Len(s) OBVIOUS
  <2> QED BY <2>1 DEF Fed
<1>5. Is(Fed(lines, limit, s), SUBSET (1 .. Len(s)))
  <2>1. Len(s) \in Nat OBVIOUS
  <2> HIDE DEF Is, upTo
  <2> QED BY <1>3, <1>4, <2>1
<1>6. \A t \in SUBSET (1 .. Len(s)) : Fed(lines, limit, s)[t] = V(Fed(lines, limit, s), t) BY <1>5
<1>7. Fed(lines, limit, s)[{}] = lines BY <1>6
<1>8. ASSUME NEW k \in Nat, k < Len(s)
      PROVE  Fed(lines, limit, s)[1 .. k + 1] =
               FeedChar(Fed(lines, limit, s)[1 .. k], s[k + 1], limit)
  <2>1. 1 .. k + 1 \in SUBSET (1 .. Len(s)) BY <1>8
  <2>2. (1 .. k + 1) \ {k + 1} = 1 .. k /\ k + 1 \in 1 .. k + 1 OBVIOUS
  <2>3. Max(1 .. k + 1) = k + 1 BY <2>2, LastIsMax
  <2>4. Fed(lines, limit, s)[1 .. k + 1] = V(Fed(lines, limit, s), 1 .. k + 1) BY <1>6, <2>1
  <2>5. 1 .. k + 1 # {} BY <2>2
  <2> QED BY <2>2, <2>3, <2>4, <2>5
<1> QED BY <1>7, <1>8

\* One byte more, fed after the others
LEMMA FeedMore ==
  ASSUME NEW E, NEW s \in Seq(E), NEW x \in E, NEW lines, NEW limit
  PROVE  Feed(lines, Append(s, x), limit) = FeedChar(Feed(lines, s, limit), x, limit)
<1> DEFINE more == Append(s, x)
           A == {k \in Nat :
                   k <= Len(s) => Fed(lines, limit, more)[1 .. k] = Fed(lines, limit, s)[1 .. k]}
<1>1. more \in Seq(E) /\ Len(more) = Len(s) + 1 /\ more[Len(s) + 1] = x
      /\ \A k \in 1 .. Len(s) : more[k] = s[k]
  OBVIOUS
<1> HIDE DEF more
<1>2. 0 \in A
  <2>1. 1 .. 0 = {} OBVIOUS
  <2>2. Fed(lines, limit, more)[{}] = lines /\ Fed(lines, limit, s)[{}] = lines BY <1>1, FedIs
  <2> QED BY <2>1, <2>2
<1>3. ASSUME NEW k \in Nat, k \in A PROVE k + 1 \in A
  <2> SUFFICES ASSUME k + 1 <= Len(s)
               PROVE  Fed(lines, limit, more)[1 .. k + 1] = Fed(lines, limit, s)[1 .. k + 1]
    OBVIOUS
  <2>1. Fed(lines, limit, more)[1 .. k] = Fed(lines, limit, s)[1 .. k] BY <1>3
  <2>2. k < Len(s) /\ k < Len(more) /\ k + 1 \in 1 .. Len(s) BY <1>1
  <2>3. Fed(lines, limit, more)[1 .. k + 1] =
          FeedChar(Fed(lines, limit, more)[1 .. k], more[k + 1], limit)
    BY <1>1, <2>2, FedIs
  <2>4. Fed(lines, limit, s)[1 .. k + 1] = FeedChar(Fed(lines, limit, s)[1 .. k], s[k + 1], limit)
    BY <2>2, FedIs
  <2> QED BY <1>1, <2>1, <2>2, <2>3, <2>4
<1>4. Nat \subseteq A BY <1>2, <1>3, Induct
<1>5. Len(s) \in Nat /\ DOMAIN s = 1 .. Len(s) /\ DOMAIN more = 1 .. Len(s) + 1
  BY <1>1
<1>6. Fed(lines, limit, more)[1 .. Len(s)] = Fed(lines, limit, s)[1 .. Len(s)] BY <1>4, <1>5
<1>7. Fed(lines, limit, more)[1 .. Len(s) + 1] =
        FeedChar(Fed(lines, limit, more)[1 .. Len(s)], more[Len(s) + 1], limit)
  BY <1>1, <1>5, FedIs
<1>8. Feed(lines, more, limit) = Fed(lines, limit, more)[DOMAIN more]
      /\ Feed(lines, s, limit) = Fed(lines, limit, s)[DOMAIN s]
  BY FeedIsPartial
<1>9. Feed(lines, more, limit) = FeedChar(Feed(lines, s, limit), x, limit)
  BY <1>1, <1>5, <1>6, <1>7, <1>8
<1> QED BY <1>9 DEF more

LEMMA FeedNone == \A lines, limit : Feed(lines, <<>>, limit) = lines
<1> SUFFICES ASSUME NEW lines, NEW limit PROVE Feed(lines, <<>>, limit) = lines OBVIOUS
<1>1. DOMAIN <<>> = {} OBVIOUS
<1>2. <<>> \in Seq(Nat) OBVIOUS
<1>3. Fed(lines, limit, <<>>)[{}] = lines BY <1>2, FedIs
<1>4. Feed(lines, <<>>, limit) = Fed(lines, limit, <<>>)[DOMAIN <<>>] BY FeedIsPartial
<1> QED BY <1>1, <1>3, <1>4

-----------------------------------------------------------------------------
(* Lines of what was read *)

IsLines(lines) ==
  lines \in [pending: Seq(LogChars), discarding: BOOLEAN, shown: Seq(LogChars), omitted: BOOLEAN]

\* These lines were made of this text: unless a part was dropped, all of it was shown
\* but for the line ends and for the line that has not ended
Follows(lines, text) ==
  /\ IsLines(lines)
  /\ lines.discarding => lines.omitted
  /\ lines.omitted \/ lines.shown \o lines.pending = Visible(text)

\* Nothing was read yet
LEMMA NewFollows == Follows(NewLines, <<>>)
<1>1. <<>> \in Seq(LogChars) /\ <<>> \o <<>> = <<>> OBVIOUS
<1> QED BY <1>1, VisibleNone DEF Follows, NewLines, IsLines

LEMMA AppendLater ==
  ASSUME NEW E, NEW s \in Seq(E), NEW t \in Seq(E), NEW x \in E
  PROVE  s \o Append(t, x) = Append(s \o t, x)
OBVIOUS

\* One byte is shown, waits for the end of its line, or is reported as omitted
LEMMA CharFollows ==
  ASSUME NEW lines, NEW text \in Seq(LogChars), NEW char \in LogChars, NEW limit,
         Follows(lines, text)
  PROVE  Follows(FeedChar(lines, char, limit), Append(text, char))
<1> DEFINE fed == FeedChar(lines, char, limit)
<1>1. /\ lines.pending \in Seq(LogChars) /\ lines.shown \in Seq(LogChars)
      /\ lines.discarding \in BOOLEAN /\ lines.omitted \in BOOLEAN
      /\ lines = [pending |-> lines.pending, discarding |-> lines.discarding,
                  shown |-> lines.shown, omitted |-> lines.omitted]
      /\ lines.discarding => lines.omitted
      /\ lines.omitted \/ lines.shown \o lines.pending = Visible(text)
  BY DEF Follows, IsLines
<1>0. lines = [pending |-> lines.pending, discarding |-> lines.discarding,
               shown |-> lines.shown, omitted |-> lines.omitted]
  BY <1>1
<1>2. Visible(Append(text, char)) = See(Visible(text), char) BY VisibleMore
<1>3. CASE char = NL
  <2>1. fed = [pending |-> <<>>, discarding |-> FALSE, shown |-> lines.shown \o lines.pending,
               omitted |-> lines.omitted]
    BY <1>3 DEF FeedChar, FlushLines
  <2>2. lines.shown \o lines.pending \in Seq(LogChars) /\ <<>> \in Seq(LogChars)
        /\ (lines.shown \o lines.pending) \o <<>> = lines.shown \o lines.pending
    BY <1>1
  <2>3. IsLines(fed) BY <1>1, <2>1, <2>2 DEF IsLines
  <2>4. Visible(Append(text, char)) = Visible(text) BY <1>2, <1>3 DEF See
  <2>5. fed.omitted = lines.omitted /\ fed.shown \o fed.pending = lines.shown \o lines.pending
        /\ ~fed.discarding
    <3> HIDE DEF fed
    <3>1. fed.omitted = lines.omitted /\ fed.discarding = FALSE BY <2>1
    <3>2. fed.shown = lines.shown \o lines.pending /\ fed.pending = <<>> BY <2>1
    <3> QED BY <2>2, <3>1, <3>2
  <2> QED BY <1>1, <2>3, <2>4, <2>5 DEF Follows
<1>4. CASE char # NL /\ lines.discarding
  <2>1. fed = lines BY <1>4 DEF FeedChar
  <2> QED BY <1>1, <1>4, <2>1 DEF Follows, IsLines
<1>5. CASE char # NL /\ ~lines.discarding /\ Len(lines.pending) >= limit
  <2>1. fed = [pending |-> <<>>, discarding |-> TRUE, shown |-> lines.shown, omitted |-> TRUE]
    BY <1>1, <1>5 DEF FeedChar
  <2>2. <<>> \in Seq(LogChars) OBVIOUS
  <2> QED BY <1>1, <2>1, <2>2 DEF Follows, IsLines
<1>6. CASE char # NL /\ ~lines.discarding /\ ~(Len(lines.pending) >= limit)
  <2>1. fed = [pending |-> Append(lines.pending, char), discarding |-> lines.discarding,
               shown |-> lines.shown, omitted |-> lines.omitted]
    <3>1. fed = [lines EXCEPT !.pending = Append(@, char)] BY <1>6 DEF FeedChar
    <3>2. \A more : [lines EXCEPT !.pending = more] =
                      [pending |-> more, discarding |-> lines.discarding,
                       shown |-> lines.shown, omitted |-> lines.omitted]
      BY <1>0
    <3> QED BY <3>1, <3>2
  <2>2. Append(lines.pending, char) \in Seq(LogChars) BY <1>1
  <2>3. lines.shown \o Append(lines.pending, char) = Append(lines.shown \o lines.pending, char)
    BY <1>1, AppendLater
  <2>4. Visible(Append(text, char)) = Append(Visible(text), char) BY <1>2, <1>6 DEF See
  <2>5. IsLines(fed) BY <1>1, <2>1, <2>2 DEF IsLines
  <2>6. fed.omitted = lines.omitted /\ ~fed.discarding
        /\ fed.shown \o fed.pending = Append(lines.shown \o lines.pending, char)
    <3> HIDE DEF fed
    <3>1. fed.omitted = lines.omitted /\ fed.discarding = lines.discarding BY <2>1
    <3>2. fed.shown = lines.shown /\ fed.pending = Append(lines.pending, char) BY <2>1
    <3> QED BY <1>6, <2>3, <3>1, <3>2
  <2> QED BY <1>1, <2>4, <2>5, <2>6 DEF Follows
<1> QED BY <1>3, <1>4, <1>5, <1>6

\* So are the bytes of a chunk, however long it is and wherever it is cut
LEMMA FeedFollows ==
  ASSUME NEW lines, NEW text \in Seq(LogChars), NEW limit, Follows(lines, text)
  PROVE  \A chunk \in Seq(LogChars) : Follows(Feed(lines, chunk, limit), text \o chunk)
<1> DEFINE B == {chunk \in Seq(LogChars) : Follows(Feed(lines, chunk, limit), text \o chunk)}
<1>1. <<>> \in B
  <2>1. text \o <<>> = text /\ <<>> \in Seq(LogChars) OBVIOUS
  <2> QED BY <2>1, FeedNone
<1>2. \A s \in Seq(LogChars) : \A x \in LogChars : s \in B => Append(s, x) \in B
  <2> TAKE s \in Seq(LogChars)
  <2> TAKE x \in LogChars
  <2> HAVE s \in B
  <2>1. Follows(Feed(lines, s, limit), text \o s) OBVIOUS
  <2>2. Feed(lines, Append(s, x), limit) = FeedChar(Feed(lines, s, limit), x, limit) BY FeedMore
  <2>3. text \o s \in Seq(LogChars) /\ text \o Append(s, x) = Append(text \o s, x)
        /\ Append(s, x) \in Seq(LogChars)
    BY AppendLater
  <2>4. Follows(FeedChar(Feed(lines, s, limit), x, limit), Append(text \o s, x))
    BY <2>1, <2>3, CharFollows
  <2> QED BY <2>2, <2>3, <2>4
<1> HIDE DEF B
<1>3. Seq(LogChars) \subseteq B BY <1>1, <1>2, ListInduct
<1> QED BY <1>3 DEF B

\* The end of the stream shows the line that has not ended
LEMMA FlushShowsAll ==
  ASSUME NEW lines, NEW text, Follows(lines, text), ~lines.omitted
  PROVE  FlushLines(lines).shown = Visible(text)
BY DEF Follows, FlushLines, IsLines

-----------------------------------------------------------------------------
(* The inductive invariant: the mirror *)

IsLog(file) == file \in [id: 1 .. 2, data: Seq(LogChars), plain: BOOLEAN, grows: BOOLEAN]

\* What was read of a file is its beginning, or it can be seen for good that the
\* file is not the one that was read
Mirrors(file, tail) ==
  /\ DOMAIN tail = {"id", "offset", "lines"}
  /\ tail.id \in 1 .. file.id /\ tail.offset \in Nat
  /\ \/ ~file.plain
     \/ file.id # tail.id
     \/ ~file.grows /\ Len(file.data) < tail.offset
     \/ /\ tail.offset <= Len(file.data)
        /\ ~tail.lines.omitted
        /\ Follows(tail.lines, SubSeq(file.data, 1, tail.offset))

\* All of the file was read
ReadUp(file, tail) == file.plain /\ file.id = tail.id /\ tail.offset = Len(file.data)

Mirroring ==
  /\ todo \subseteq DOMAIN logs /\ DOMAIN tails \subseteq DOMAIN logs /\ disabled = {}
  /\ mirrored \in Nat /\ moved \in Nat
  /\ \A name \in DOMAIN tails : Mirrors(logs[name], tails[name])

\* A last poll in which nothing moved read all that there is
NothingMoved ==
  ending /\ moved = 0 =>
    /\ mirrored < ByteLimit
    /\ \A name \in DOMAIN logs \ todo : name \in DOMAIN tails /\ ReadUp(logs[name], tails[name])

AllShown ==
  /\ todo = {}
  /\ \A name \in DOMAIN logs :
       name \in DOMAIN tails /\ tails[name].lines.shown = Visible(logs[name].data)

MirrorInv ==
  /\ \A name \in DOMAIN logs : IsLog(logs[name])
  /\ warned = {} /\ ~shut => Mirroring /\ NothingMoved
  /\ warned = {} /\ shut => AllShown

\* Of a file that is still the one that was read, the beginning was read
LEMMA ReadSoFar ==
  ASSUME NEW file, IsLog(file), NEW tail, Mirrors(file, tail),
         file.plain, file.id = tail.id, ~(Len(file.data) < tail.offset)
  PROVE  /\ tail.offset \in Nat /\ tail.offset <= Len(file.data)
         /\ ~tail.lines.omitted
         /\ Follows(tail.lines, SubSeq(file.data, 1, tail.offset))
<1>1. /\ tail.offset \in Nat
      /\ tail.offset <= Len(file.data) /\ ~tail.lines.omitted
         /\ Follows(tail.lines, SubSeq(file.data, 1, tail.offset))
  BY Zenon DEF Mirrors
<1> QED BY <1>1

\* Nothing of a file is read before its first byte
LEMMA NothingRead == \A s \in Seq(LogChars) : SubSeq(s, 1, 0) = <<>> /\ 0 <= Len(s)
OBVIOUS

\* An append leaves what was read of it as it is
LEMMA GrownMirrors ==
  ASSUME NEW file, IsLog(file), file.grows, NEW tail, Mirrors(file, tail),
         NEW more, IsLog(more), more.id = file.id, more.plain = file.plain, more.grows = file.grows,
         NEW char \in LogChars, more.data = Append(file.data, char)
  PROVE  Mirrors(more, tail)
<1>1. CASE tail.offset <= Len(file.data)
  <2>1. file.data \in Seq(LogChars) /\ tail.offset \in Nat BY DEF IsLog, Mirrors
  <2>2. SubSeq(more.data, 1, tail.offset) = SubSeq(file.data, 1, tail.offset)
        /\ tail.offset <= Len(more.data)
    <3> DEFINE data == file.data
    <3> DEFINE n == tail.offset
    <3>1. data \in Seq(LogChars) /\ n \in Nat /\ n <= Len(data) BY <1>1, <2>1
    <3> HIDE DEF data, n
    <3>2. SubSeq(Append(data, char), 1, n) = SubSeq(data, 1, n) /\ n <= Len(Append(data, char))
      BY <3>1
    <3> QED BY <3>2 DEF data, n
  <2> QED BY <2>2 DEF Mirrors
<1>2. CASE ~(tail.offset <= Len(file.data))
  <2>1. ~file.plain \/ file.id # tail.id
    BY <1>2 DEF Mirrors
  <2> QED BY <2>1 DEF Mirrors
<1> QED BY <1>1, <1>2

\* A file that is not the one that was read can be told from it
LEMMA ReplacedMirrors ==
  ASSUME NEW file, IsLog(file), file.id = 1, NEW tail, Mirrors(file, tail), NEW more, IsLog(more),
         \/ more.id = 2
         \/ more.id = 1 /\ more.data = <<>> /\ ~more.grows /\ file.plain
         \/ more.id = 1 /\ ~more.plain
  PROVE  Mirrors(more, tail)
<1>1. tail.id = 1 /\ tail.offset \in Nat BY DEF Mirrors
<1>2. CASE more.id = 2 BY <1>1, <1>2 DEF Mirrors
<1>3. CASE more.id = 1 /\ ~more.plain BY <1>1, <1>3 DEF Mirrors
<1>4. CASE more.id = 1 /\ more.data = <<>> /\ ~more.grows /\ file.plain
  <2>1. CASE tail.offset = 0
    <3>1. file.data \in Seq(LogChars) BY DEF IsLog
    <3>2. <<>> \in Seq(LogChars) /\ ~(Len(file.data) < 0) BY <3>1
    <3>3. SubSeq(file.data, 1, 0) = <<>> /\ SubSeq(<<>>, 1, 0) = <<>> /\ 0 <= Len(<<>>)
      BY <3>1, <3>2, NothingRead
    <3>4. ~tail.lines.omitted /\ Follows(tail.lines, SubSeq(file.data, 1, tail.offset))
      BY <1>1, <1>4, <2>1, <3>2, ReadSoFar
    <3>5. Follows(tail.lines, SubSeq(more.data, 1, tail.offset)) /\ tail.offset <= Len(more.data)
      BY <1>4, <2>1, <3>3, <3>4
    <3> QED BY <1>1, <1>4, <3>4, <3>5 DEF Mirrors
  <2>2. CASE tail.offset # 0
    <3>1. Len(more.data) = 0 BY <1>4
    <3> QED BY <1>1, <1>4, <2>2, <3>1 DEF Mirrors
  <2> QED BY <2>1, <2>2
<1> QED BY <1>2, <1>3, <1>4

LEMMA NewMirrors ==
  ASSUME NEW file, IsLog(file)
  PROVE  Mirrors(file, [id |-> file.id, offset |-> 0, lines |-> NewLines])
<1> DEFINE tail == [id |-> file.id, offset |-> 0, lines |-> NewLines]
<1>1. tail.id = file.id /\ tail.offset = 0 /\ tail.lines = NewLines
      /\ DOMAIN tail = {"id", "offset", "lines"}
  OBVIOUS
<1> HIDE DEF tail
<1>2. file.id \in 1 .. 2 /\ file.data \in Seq(LogChars) BY DEF IsLog
<1>3. SubSeq(file.data, 1, 0) = <<>> /\ 0 <= Len(file.data) BY <1>2, NothingRead
<1>4. ~NewLines.omitted BY DEF NewLines
<1>5. tail.id \in 1 .. file.id /\ tail.offset \in Nat BY <1>1, <1>2
<1>6. tail.offset <= Len(file.data) /\ ~tail.lines.omitted
      /\ Follows(tail.lines, SubSeq(file.data, 1, tail.offset))
  BY <1>1, <1>3, <1>4, NewFollows
<1>7. Mirrors(file, tail) BY <1>1, <1>5, <1>6, Zenon DEF Mirrors
<1> QED BY <1>7 DEF tail

\* What follows what was read, up to some byte
LEMMA ReadOn ==
  ASSUME NEW data \in Seq(LogChars), NEW from \in Nat, from <= Len(data),
         NEW to \in Nat, from <= to, to <= Len(data)
  PROVE  /\ SubSeq(data, from + 1, to) \in Seq(LogChars)
         /\ Len(SubSeq(data, from + 1, to)) = to - from
         /\ SubSeq(data, 1, from) \o SubSeq(data, from + 1, to) = SubSeq(data, 1, to)
         /\ SubSeq(data, 1, from) \in Seq(LogChars)
OBVIOUS

\* One read of a file that has not changed
LEMMA ReadMirrors ==
  ASSUME NEW file, IsLog(file), NEW tail, Mirrors(file, tail),
         file.plain, file.id = tail.id, ~(Len(file.data) < tail.offset),
         NEW room \in Nat, room # 0,
         NEW chunk, chunk = SubSeq(file.data, tail.offset + 1,
                                   Least(Len(file.data), tail.offset + room)),
         NEW next, next = [id |-> tail.id, offset |-> tail.offset + Len(chunk),
                           lines |-> Feed(tail.lines, chunk, LineLimit)],
         ~next.lines.omitted
  PROVE  /\ Mirrors(file, next)
         /\ Len(chunk) \in Nat
         /\ Len(chunk) = 0 => ReadUp(file, next)
<1> DEFINE data == file.data
<1> DEFINE from == tail.offset
<1> DEFINE to == Least(Len(file.data), tail.offset + room)
<1>1. data \in Seq(LogChars) /\ file.id \in 1 .. 2 BY DEF IsLog
<1>2. from \in Nat /\ from <= Len(data) /\ Follows(tail.lines, SubSeq(data, 1, from))
  BY ReadSoFar
<1>3. to \in Nat /\ from <= to /\ to <= Len(data) /\ (to = from => from = Len(data))
  <2>1. \A n, m, k \in Nat : m <= n /\ k # 0 =>
          Least(n, m + k) \in Nat /\ m <= Least(n, m + k) /\ Least(n, m + k) <= n
          /\ (Least(n, m + k) = m => m = n)
    BY DEF Least
  <2>2. Len(data) \in Nat BY <1>1
  <2> QED BY <1>2, <2>1, <2>2
<1>5. chunk = SubSeq(data, from + 1, to) OBVIOUS
<1>6. next.id = tail.id /\ next.offset = from + Len(chunk)
      /\ next.lines = Feed(tail.lines, chunk, LineLimit)
      /\ DOMAIN next = {"id", "offset", "lines"}
  OBVIOUS
<1>7. tail.id \in 1 .. file.id BY DEF Mirrors
<1> HIDE DEF data, from, to
<1>8. chunk \in Seq(LogChars) /\ Len(chunk) = to - from
      /\ SubSeq(data, 1, from) \o chunk = SubSeq(data, 1, to)
      /\ SubSeq(data, 1, from) \in Seq(LogChars)
  <2>1. /\ SubSeq(data, from + 1, to) \in Seq(LogChars)
        /\ Len(SubSeq(data, from + 1, to)) = to - from
        /\ SubSeq(data, 1, from) \o SubSeq(data, from + 1, to) = SubSeq(data, 1, to)
        /\ SubSeq(data, 1, from) \in Seq(LogChars)
    BY <1>1, <1>2, <1>3, ReadOn
  <2> QED BY <1>5, <2>1
<1>9. Follows(next.lines, SubSeq(data, 1, to))
  BY <1>2, <1>6, <1>8, FeedFollows
<1>10. next.offset = to /\ Len(chunk) \in Nat BY <1>2, <1>3, <1>6, <1>8
<1>11. Mirrors(file, next)
  BY <1>3, <1>6, <1>7, <1>9, <1>10 DEF Mirrors, data
<1>12. Len(chunk) = 0 => ReadUp(file, next)
  BY <1>2, <1>3, <1>6, <1>8, <1>10 DEF ReadUp, data
<1> QED BY <1>10, <1>11, <1>12

\* A file that was read up and is flushed is shown as a whole
LEMMA FlushedIsShown ==
  ASSUME NEW file, IsLog(file), NEW tail, Mirrors(file, tail), ReadUp(file, tail)
  PROVE  FlushLines(tail.lines).shown = Visible(file.data)
<1>1. file.data \in Seq(LogChars) BY DEF IsLog
<1>2. SubSeq(file.data, 1, Len(file.data)) = file.data BY <1>1
<1>3. file.plain /\ file.id = tail.id /\ tail.offset = Len(file.data) BY DEF ReadUp
<1>4. ~(Len(file.data) < tail.offset)
  <2>1. Len(file.data) \in Nat BY <1>1
  <2> QED BY <1>3, <2>1
<1>5. ~tail.lines.omitted /\ Follows(tail.lines, SubSeq(file.data, 1, tail.offset))
  BY <1>3, <1>4, ReadSoFar
<1> QED BY <1>2, <1>3, <1>5, FlushShowsAll

\* What an append changes of a file
LEMMA GrownLog ==
  ASSUME NEW file, IsLog(file), NEW char \in LogChars,
         NEW more, more = [file EXCEPT !.data = Append(file.data, char)]
  PROVE  /\ IsLog(more) /\ more.id = file.id /\ more.plain = file.plain /\ more.grows = file.grows
         /\ more.data = Append(file.data, char)
<1>1. file.data \in Seq(LogChars) BY DEF IsLog
<1>2. Append(file.data, char) \in Seq(LogChars) BY <1>1
<1>4. IsLog(more) BY <1>2 DEF IsLog
<1>5. more.id = file.id BY <1>2 DEF IsLog
<1>6. more.plain = file.plain BY <1>2 DEF IsLog
<1>7. more.grows = file.grows BY <1>2 DEF IsLog
<1>8. more.data = Append(file.data, char) BY <1>2 DEF IsLog
<1> QED BY <1>4, <1>5, <1>6, <1>7, <1>8

\* What the one unexpected thing changes of a file
LEMMA ReplacedLog ==
  ASSUME NEW file, IsLog(file), file.id = 1, file.plain, NEW more,
         \/ more = [file EXCEPT !.id = 2, !.data = <<>>]
         \/ more = [file EXCEPT !.data = <<>>, !.grows = FALSE]
         \/ more = [file EXCEPT !.plain = FALSE]
  PROVE  /\ IsLog(more)
         /\ \/ more.id = 2
            \/ more.id = 1 /\ more.data = <<>> /\ ~more.grows /\ file.plain
            \/ more.id = 1 /\ ~more.plain
<1>1. <<>> \in Seq(LogChars) /\ 2 \in 1 .. 2 OBVIOUS
<1>2. CASE more = [file EXCEPT !.id = 2, !.data = <<>>]
  <2>1. IsLog(more) BY <1>1, <1>2 DEF IsLog
  <2>2. more.id = 2 BY <1>2 DEF IsLog
  <2> QED BY <2>1, <2>2
<1>3. CASE more = [file EXCEPT !.data = <<>>, !.grows = FALSE]
  <2>1. IsLog(more) BY <1>1, <1>3 DEF IsLog
  <2>2. more.data = <<>> BY <1>3 DEF IsLog
  <2>3. ~more.grows BY <1>3 DEF IsLog
  <2>4. more.id = file.id BY <1>3 DEF IsLog
  <2> QED BY <2>1, <2>2, <2>3, <2>4
<1>4. CASE more = [file EXCEPT !.plain = FALSE]
  <2>1. IsLog(more) BY <1>4 DEF IsLog
  <2>2. ~more.plain BY <1>4 DEF IsLog
  <2>3. more.id = file.id BY <1>4 DEF IsLog
  <2> QED BY <2>1, <2>2, <2>3
<1> QED BY <1>2, <1>3, <1>4

-----------------------------------------------------------------------------
(* Every step keeps the mirror's invariant *)

LEMMA MirrorStarts == LogsInit => MirrorInv
<1>1. DOMAIN <<>> = {} OBVIOUS
<1> QED BY <1>1 DEF LogsInit, MirrorInv, Mirroring, NothingMoved, AllShown

\* The agent changes one file, which keeps its tail or can be told from it
LEMMA OneLogChanges ==
  ASSUME MirrorInv, ~ending, ~shut,
         UNCHANGED <<tails, disabled, warned, mirrored, todo, moved, ending, shut>>,
         DOMAIN logs \subseteq DOMAIN logs',
         \A name \in DOMAIN logs' : IsLog(logs'[name]),
         \A name \in DOMAIN tails \cap DOMAIN logs :
            warned = {} /\ Mirrors(logs[name], tails[name]) => Mirrors(logs'[name], tails[name])
  PROVE  MirrorInv'
<1>1. CASE warned = {}
  <2>1. Mirroring BY <1>1 DEF MirrorInv
  <2>2. \A name \in DOMAIN tails : Mirrors(logs'[name], tails[name])
    BY <1>1, <2>1 DEF Mirroring
  <2>3. Mirroring' BY <2>1, <2>2 DEF Mirroring
  <2>4. NothingMoved' BY DEF NothingMoved
  <2> QED BY <2>3, <2>4 DEF MirrorInv
<1>2. CASE warned # {}
  BY <1>2 DEF MirrorInv
<1> QED BY <1>1, <1>2

LEMMA LogsChangeKeepsMirror == MirrorInv /\ LogsChange => MirrorInv'
<1> SUFFICES ASSUME MirrorInv, LogsChange PROVE MirrorInv'
  OBVIOUS
<1>1. ~ending /\ ~shut /\ UNCHANGED <<tails, disabled, warned, mirrored, todo, moved, ending, shut>>
  BY DEF LogsChange
<1>2. \A name \in DOMAIN logs : IsLog(logs[name]) BY DEF MirrorInv
<1>3. ASSUME NEW name \in LogNames, NEW char \in LogChars, AppendLog(name, char)
      PROVE  MirrorInv'
  <2> DEFINE more == [logs[name] EXCEPT !.data = Append(logs[name].data, char)]
  <2>1. name \in DOMAIN logs /\ logs[name].grows /\ IsLog(logs[name]) BY <1>2, <1>3 DEF AppendLog
  <2>2. logs' = [logs EXCEPT ![name] = more] BY <1>3 DEF AppendLog
  <2>3. IsLog(more) /\ more.id = logs[name].id /\ more.plain = logs[name].plain
        /\ more.grows = logs[name].grows /\ more.data = Append(logs[name].data, char)
    <3> DEFINE file == logs[name]
    <3>1. more = [file EXCEPT !.data = Append(file.data, char)] OBVIOUS
    <3> HIDE DEF more
    <3>2. IsLog(file) BY <2>1
    <3> HIDE DEF file
    <3>3. IsLog(more) /\ more.id = file.id /\ more.plain = file.plain
          /\ more.grows = file.grows /\ more.data = Append(file.data, char)
      BY <3>1, <3>2, GrownLog
    <3> QED BY <3>3 DEF file
  <2>4. \A tail : Mirrors(logs[name], tail) => Mirrors(more, tail)
    <3> HIDE DEF more
    <3> QED BY <2>1, <2>3, GrownMirrors
  <2> HIDE DEF more
  <2>5. DOMAIN logs' = DOMAIN logs
        /\ \A other \in DOMAIN logs : logs'[other] = IF other = name THEN more ELSE logs[other]
    BY <2>2
  <2> QED BY <1>1, <1>2, <2>3, <2>4, <2>5, OneLogChanges
<1>4. ASSUME NEW name \in LogNames, CreateLog(name)
      PROVE  MirrorInv'
  <2> DEFINE new == [id |-> 1, data |-> <<>>, plain |-> TRUE, grows |-> TRUE]
  <2>1. logs' = SetEntry(logs, name, new) BY <1>4 DEF CreateLog
  <2>2. IsLog(new)
    <3>1. <<>> \in Seq(LogChars) OBVIOUS
    <3> QED BY <3>1 DEF IsLog
  <2> HIDE DEF new
  <2>3. DOMAIN logs' = DOMAIN logs \cup {name} /\ name \notin DOMAIN logs
        /\ \A other \in DOMAIN logs' : logs'[other] = IF other = name THEN new ELSE logs[other]
    BY <1>4, <2>1 DEF SetEntry, CreateLog
  <2> QED BY <1>1, <1>2, <2>2, <2>3, OneLogChanges
<1>5. ASSUME NEW name \in LogNames, ReplaceLog(name)
      PROVE  MirrorInv'
  <2>1. name \in DOMAIN logs /\ logs[name].id = 1 /\ logs[name].plain /\ IsLog(logs[name])
    BY <1>2, <1>5 DEF ReplaceLog, Ordinary
  <2>2. PICK more :
          /\ logs' = [logs EXCEPT ![name] = more]
          /\ \/ more = [logs[name] EXCEPT !.id = 2, !.data = <<>>]
             \/ more = [logs[name] EXCEPT !.data = <<>>, !.grows = FALSE]
             \/ more = [logs[name] EXCEPT !.plain = FALSE]
    BY <1>5 DEF ReplaceLog
  <2>3. /\ IsLog(more)
        /\ \/ more.id = 2
           \/ more.id = 1 /\ more.data = <<>> /\ ~more.grows /\ logs[name].plain
           \/ more.id = 1 /\ ~more.plain
    BY <2>1, <2>2, ReplacedLog
  <2>4. \A tail : Mirrors(logs[name], tail) => Mirrors(more, tail)
    BY <2>1, <2>3, ReplacedMirrors
  <2>5. DOMAIN logs' = DOMAIN logs
        /\ \A other \in DOMAIN logs : logs'[other] = IF other = name THEN more ELSE logs[other]
    BY <2>2
  <2> QED BY <1>1, <1>2, <2>3, <2>4, <2>5, OneLogChanges
<1>6. CASE UNCHANGED logs
  BY <1>1, <1>2, <1>6, OneLogChanges
<1> QED BY <1>3, <1>4, <1>5, <1>6 DEF LogsChange

-----------------------------------------------------------------------------
(* ... and so does the mirror *)

LEMMA PollBeginsKeepsMirror == MirrorInv /\ PollBegins => MirrorInv'
<1> SUFFICES ASSUME MirrorInv, PollBegins PROVE MirrorInv'
  OBVIOUS
<1>1. ~shut /\ todo = {} /\ ending = (moved > 0)
      /\ UNCHANGED <<watched, disabled, mirrored, ending>>
  BY DEF PollBegins
<1>2. (\A name \in DOMAIN logs' : IsLog(logs'[name])) /\ logs' = logs
  BY <1>1 DEF MirrorInv, watched
<1>3. CASE warned' # {}
  BY <1>2, <1>3 DEF MirrorInv
<1>4. CASE warned' = {}
  <2>1. /\ ~(mirrored >= ByteLimit)
        /\ todo' = DOMAIN logs \ disabled /\ moved' = 0 /\ UNCHANGED <<warned, tails, shut>>
    BY <1>4 DEF PollBegins, Warn
  <2>2. Mirroring BY <1>1, <1>4, <2>1 DEF MirrorInv
  <2>3. Mirroring' BY <1>1, <1>2, <2>1, <2>2 DEF Mirroring
  <2>4. mirrored < ByteLimit BY <2>1, <2>2, LogAssumption DEF Mirroring
  <2>5. DOMAIN logs' \ todo' = {} BY <1>2, <2>1, <2>2 DEF Mirroring
  <2>6. NothingMoved' BY <1>1, <2>4, <2>5 DEF NothingMoved
  <2> QED BY <1>1, <1>2, <2>1, <2>3, <2>6 DEF MirrorInv
<1> QED BY <1>3, <1>4

LEMMA PollEndsKeepsMirror == MirrorInv /\ PollEnds => MirrorInv'
<1> SUFFICES ASSUME MirrorInv, PollEnds PROVE MirrorInv'
  OBVIOUS
<1>1. /\ ~shut /\ ~ending /\ moved' = 0
      /\ UNCHANGED <<logs, tails, disabled, warned, mirrored, todo, ending, shut>>
  BY DEF PollEnds, watched
<1>2. (warned' = {} => Mirroring') /\ NothingMoved'
  BY <1>1 DEF MirrorInv, Mirroring, NothingMoved
<1> QED BY <1>1, <1>2 DEF MirrorInv

LEMMA FinishLogsKeepsMirror == MirrorInv /\ FinishLogs => MirrorInv'
<1> SUFFICES ASSUME MirrorInv, FinishLogs PROVE MirrorInv'
  OBVIOUS
<1>1. /\ ~shut /\ moved' = 1
      /\ UNCHANGED <<logs, tails, disabled, warned, mirrored, todo, shut>>
  BY DEF FinishLogs, watched
<1>2. (warned' = {} => Mirroring') /\ NothingMoved'
  BY <1>1 DEF MirrorInv, Mirroring, NothingMoved
<1> QED BY <1>1, <1>2 DEF MirrorInv

\* A last poll in which nothing moved: what is flushed is all of every file
LEMMA FlushLogsKeepsMirror == MirrorInv /\ FlushLogs => MirrorInv'
<1> SUFFICES ASSUME MirrorInv, FlushLogs PROVE MirrorInv'
  OBVIOUS
<1>1. /\ ~shut /\ ending /\ todo = {} /\ moved = 0 /\ shut'
      /\ UNCHANGED <<logs, disabled, warned, mirrored, todo, moved, ending>>
  BY DEF FlushLogs, watched
<1>2. \A name \in DOMAIN logs : IsLog(logs[name]) BY DEF MirrorInv
<1>3. CASE warned # {}
  BY <1>1, <1>2, <1>3 DEF MirrorInv
<1>4. CASE warned = {}
  <2>1. Mirroring /\ NothingMoved BY <1>1, <1>4 DEF MirrorInv
  <2>2. mirrored \in Nat /\ mirrored < ByteLimit
        /\ \A name \in DOMAIN logs : name \in DOMAIN tails /\ ReadUp(logs[name], tails[name])
    BY <1>1, <2>1 DEF Mirroring, NothingMoved
  <2>3. ~(mirrored >= ByteLimit) BY <2>2, LogAssumption
  <2>4. tails' = [name \in DOMAIN tails |-> [tails[name] EXCEPT !.lines = FlushLines(@)]]
    BY <2>3 DEF FlushLogs
  <2>5. ASSUME NEW name \in DOMAIN logs
        PROVE  name \in DOMAIN tails' /\ tails'[name].lines.shown = Visible(logs[name].data)
    <3>1. name \in DOMAIN tails /\ ReadUp(logs[name], tails[name])
          /\ Mirrors(logs[name], tails[name])
          /\ IsLog(logs[name])
      BY <1>2, <2>1, <2>2 DEF Mirroring
    <3>2. FlushLines(tails[name].lines).shown = Visible(logs[name].data) BY <3>1, FlushedIsShown
    <3>3. tails'[name] = [tails[name] EXCEPT !.lines = FlushLines(tails[name].lines)]
          /\ name \in DOMAIN tails'
      BY <2>4, <3>1
    <3>4. "lines" \in DOMAIN tails[name] BY <2>1, <3>1 DEF Mirroring, Mirrors
    <3>5. tails'[name].lines = FlushLines(tails[name].lines) BY <3>3, <3>4
    <3> QED BY <3>2, <3>3, <3>5
  <2>6. AllShown' BY <1>1, <2>5 DEF AllShown
  <2> QED BY <1>1, <1>2, <2>6 DEF MirrorInv
<1> QED BY <1>3, <1>4

\* What is read goes to the tail of the file it was read from
LEMMA ReadLogKeepsMirror ==
  ASSUME MirrorInv, NEW name \in LogNames, ReadLog(name)
  PROVE  MirrorInv'
<1>1. name \in todo /\ todo' = todo \ {name} /\ UNCHANGED <<logs, ending, shut>>
  BY DEF ReadLog, watched
<1>2. \A other \in DOMAIN logs : IsLog(logs[other]) BY DEF MirrorInv
<1>3. CASE warned' # {}
  BY <1>1, <1>2, <1>3 DEF MirrorInv
<1>4. CASE shut /\ warned' = {}
  <2>1. warned = {} BY <1>4 DEF ReadLog, Warn
  <2> QED BY <1>1, <1>4, <2>1 DEF MirrorInv, AllShown
<1>5. CASE ~shut /\ warned' = {}
  <2>1. warned = {} BY <1>5 DEF ReadLog, Warn
  <2>2. Mirroring /\ NothingMoved BY <1>5, <2>1 DEF MirrorInv
  <2>3. name \in DOMAIN logs /\ IsLog(logs[name]) /\ mirrored \in Nat /\ moved \in Nat
    BY <1>1, <1>2, <2>2 DEF Mirroring
  <2>4. CASE mirrored >= ByteLimit
    <3>1. UNCHANGED <<tails, disabled, warned, mirrored, moved>> BY <2>4 DEF ReadLog
    <3>2. Mirroring' BY <1>1, <2>2, <3>1 DEF Mirroring
    <3>3. ~(mirrored < ByteLimit) BY <2>3, <2>4, LogAssumption
    <3>4. NothingMoved' BY <1>1, <2>2, <3>1, <3>3 DEF NothingMoved
    <3> QED BY <1>1, <1>2, <1>5, <3>2, <3>4 DEF MirrorInv
  <2>5. CASE ~(mirrored >= ByteLimit)
    <3> DEFINE tail == TailOf(name)
    <3> DEFINE room == Least(ChunkLimit, ByteLimit - mirrored)
    <3> DEFINE chunk == Chunk(name)
    <3> DEFINE next == [id |-> tail.id, offset |-> tail.offset + Len(chunk),
                        lines |-> Feed(tail.lines, chunk, LineLimit)]
    <3>1. ~Changed(name) BY <1>5, <2>5 DEF ReadLog, Warn
    <3>2. /\ tails' = SetEntry(tails, name, next)
          /\ mirrored' = mirrored + Len(chunk) /\ moved' = moved + Len(chunk)
          /\ ~Feed(tail.lines, chunk, LineLimit).omitted /\ UNCHANGED disabled
      BY <1>5, <2>5, <3>1 DEF ReadLog
    <3>3. ~next.lines.omitted BY <3>2
    <3>4. logs[name].plain /\ logs[name].id = tail.id /\ ~(Len(logs[name].data) < tail.offset)
      BY <3>1 DEF Changed
    <3>5. Mirrors(logs[name], tail) BY <2>2, <2>3, NewMirrors DEF TailOf, Mirroring
    <3>6. room \in Nat /\ room # 0
      <4>1. \A n, m, k \in Nat : n # 0 /\ ~(k >= m) =>
                Least(n, m - k) \in Nat /\ Least(n, m - k) # 0
        BY DEF Least
      <4> QED BY <2>3, <2>5, <4>1, LogAssumption
    <3>7. chunk = SubSeq(logs[name].data, tail.offset + 1,
                         Least(Len(logs[name].data), tail.offset + room))
      BY DEF Chunk
    <3>8. next = [id |-> tail.id, offset |-> tail.offset + Len(chunk),
                  lines |-> Feed(tail.lines, chunk, LineLimit)]
      OBVIOUS
    <3> HIDE DEF tail, room, chunk, next
    <3>9. Mirrors(logs[name], next) /\ Len(chunk) \in Nat
          /\ (Len(chunk) = 0 => ReadUp(logs[name], next))
      BY <2>3, <3>3, <3>4, <3>5, <3>6, <3>7, <3>8, ReadMirrors
    <3>10. DOMAIN tails' = DOMAIN tails \cup {name}
           /\ \A other \in DOMAIN tails' :
                tails'[other] = IF other = name THEN next ELSE tails[other]
      BY <3>2 DEF SetEntry
    <3>11. mirrored' \in Nat /\ moved' \in Nat
           /\ (moved' = 0 => moved = 0 /\ Len(chunk) = 0 /\ mirrored' = mirrored)
      BY <2>3, <3>2, <3>9
    <3>12. Mirroring' BY <1>1, <2>2, <2>3, <3>2, <3>9, <3>10, <3>11 DEF Mirroring
    <3>13. NothingMoved'
      BY <1>1, <2>2, <2>3, <3>9, <3>10, <3>11 DEF NothingMoved
    <3> QED BY <1>1, <1>2, <1>5, <3>12, <3>13 DEF MirrorInv
  <2> QED BY <2>4, <2>5
<1> QED BY <1>3, <1>4, <1>5

LEMMA ReadFailsKeepsMirror ==
  ASSUME MirrorInv, NEW name \in LogNames, ReadFails(name)
  PROVE  MirrorInv'
BY DEF MirrorInv, ReadFails, Warn, watched

LEMMA MirrorKeepsMirror == MirrorInv /\ Mirror => MirrorInv'
BY PollBeginsKeepsMirror, PollEndsKeepsMirror, FinishLogsKeepsMirror, FlushLogsKeepsMirror,
   ReadLogKeepsMirror, ReadFailsKeepsMirror
   DEF Mirror

LEMMA StutterKeepsMirror == MirrorInv /\ UNCHANGED logVars => MirrorInv'
BY DEF MirrorInv, Mirroring, NothingMoved, AllShown, logVars, watched

-----------------------------------------------------------------------------

\* The mirror shares no variable with the rest of a session
LEMMA SessionKeepsMirror == MirrorInv /\ [SessionNext]_sessionVars => MirrorInv'
<1> SUFFICES ASSUME MirrorInv, [SessionNext]_sessionVars PROVE MirrorInv'
  OBVIOUS
<1>1. LogsChange \/ Mirror \/ UNCHANGED logVars
  BY DEF SessionNext, AgentNext, PrepareNext, LogsNext, sessionVars
<1> QED BY <1>1, LogsChangeKeepsMirror, MirrorKeepsMirror, StutterKeepsMirror

\* A mirror that ended without a notice showed every byte of every log file once and
\* in order, for any number and length of files, all limits, and however the
\* appends fall between the bounded reads (NativeLogStream.poll, _read and finish).
THEOREM QuietMirrorShowsAll == SessionSpec => []QuietMirrorIsComplete
<1>1. SessionInit => MirrorInv BY MirrorStarts DEF SessionInit
<1>2. MirrorInv => QuietMirrorIsComplete
  BY DEF MirrorInv, AllShown, QuietMirrorIsComplete
<1> QED BY <1>1, <1>2, SessionKeepsMirror, PTL DEF SessionSpec
=============================================================================
