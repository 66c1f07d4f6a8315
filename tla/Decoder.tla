-------------------------------- MODULE Decoder --------------------------------
(***************************************************************************)
(* ContractStreamDecoder (contracts/stream.py) and OpenCodeStreamDecoder   *)
(* (runtime/opencode_stream.py): what the supervisor's byte callbacks      *)
(* learn from the stream of a native agent.                                *)
(*                                                                         *)
(* The stream is a sequence of frames, each of which may be torn, too      *)
(* long, malformed, repeated or out of order.  Four results go to the      *)
(* engine: protocol_error, the reported exit code, completion_seen, and    *)
(* the prose that was shown on the way.                                    *)
(***************************************************************************)
EXTENDS TextLines, FiniteSets

CONSTANTS
  Messages,     \* messageIds the agent uses
  Calls,        \* toolCallIds of artifact tools
  Models,       \* model names the agent reports
  MaxText,      \* bound: characters of a final message
  TextLimit,    \* TEXT_LINE_BYTES
  MessageLimit, \* _CORRELATED_MESSAGES
  ModelLimit,   \* observed execution models
  CallLimit,    \* artifact calls in flight
  StepLimit     \* finished model steps

ASSUME DecoderAssumption ==
  {MaxText, TextLimit, MessageLimit, ModelLimit, CallLimit, StepLimit} \subseteq Nat

VARIABLES
  harness,    \* the profile: "copilot" (replay speaks it, too) or "opencode"
  line,       \* the current stdout line: "empty", "open" or "discarding"
  held,       \* the frame that the open line holds
  protocol,   \* protocol_error is set
  exitCode,   \* native_exit_code: "none", "zero" or "other"
  completion, \* completion_seen
  models,     \* observed_models
  messages,   \* _messages
  notices,    \* _omission_notices
  calls,      \* _artifact_calls
  session,    \* OpenCode's sessionID, or "none"
  step,       \* _step_message, or "none"
  reason,     \* _last_reason
  finished,   \* _finished_steps
  closed,     \* _closed
  heard       \* history: what the stream said that cannot be part of a success

stream == <<line, held>>
verdict == <<protocol, exitCode, completion>>
steps == <<session, step, reason, finished>>
decoder == <<harness, stream, verdict, models, messages, notices, calls, steps, closed, heard>>

PublicPhases == {"commentary", "final_answer"}

\* "hidden" stands for an explicit null and for every phase that is not public,
\* "absent" for an event without the key, "invalid" for bad metadata
Phases == PublicPhases \cup {"hidden", "absent", "invalid"}

-----------------------------------------------------------------------------
(* Frames.  A frame with bad metadata is [kind |-> "malformed"]. *)

Char == {"a", "b", NL}
Texts == UNION {[1 .. n -> Char] : n \in 0 .. MaxText}

StartFrames == [kind: {"message_start"}, id: Messages, phase: Phases]
DeltaFrames == [kind: {"message_delta"}, id: Messages, phase: Phases, text: [{1} -> Char]]
MessageFrames == [kind: {"message"}, id: Messages, phase: Phases, text: Texts]
ToolFrames == [kind: {"tool_start"}, id: Calls]
                \cup [kind: {"tool_end"}, id: Calls, success: BOOLEAN]
ResultFrames == [kind: {"result"}, code: {"zero", "other"}]
ModelFrames == [kind: {"model"}, name: Models]
BadFrames == [kind: {"session_error", "malformed"}]

Sessions == {"own", "foreign"}
StepFrames ==
  [kind: {"step_start"}, session: Sessions, message: Messages]
    \cup [kind: {"step_finish"}, session: Sessions, message: Messages, part: 0 .. StepLimit,
          reason: {"stop", "tool-calls", "error"}]
PartFrames == [kind: {"tool"}, session: {"own"}, status: {"completed", "error"}]

-----------------------------------------------------------------------------
(* The prose of a message *)

NewMessage ==
  [lines |-> NewLines, got |-> <<>>, complete |-> FALSE, phase |-> "unknown",
   suppressed |-> FALSE, streamed |-> FALSE, final |-> <<>>]

\* Mutated: a message that broke its promise is as public as its last phase
PublicByPhase(message) == message.phase \in PublicPhases

Public(message) == message.phase \in PublicPhases /\ ~message.suppressed

Secret(message) == message.suppressed \/ message.phase = "hidden"

\* _message_phase: an invalid or a changed phase suppresses the message for good,
\* and what is pending of a message that is not public is never released
WithPhase(message, phase) ==
  IF phase = "absent" THEN message
  ELSE LET named == [message EXCEPT
             !.phase = IF phase = "invalid" THEN "hidden" ELSE phase,
             !.suppressed = @ \/ phase = "invalid" \/ message.phase \notin {"unknown", phase}]
       IN  IF Public(named) THEN named ELSE [named EXCEPT !.lines = Withhold(@)]

PhaseChanged(message, phase) ==
  phase \in Phases \ {"absent", "invalid"} /\ message.phase \notin {"unknown", phase}

\* _Message.delta: only a public message streams, and only from its beginning
WithDelta(message, text) ==
  LET can == Public(message) /\ (message.got = <<>> \/ message.streamed)
  IN  [message EXCEPT !.got = @ \o text,
                      !.streamed = @ \/ can,
                      !.lines = IF can THEN Feed(@, text, TextLimit) ELSE @]

Corrected(message, text) == message.streamed /\ ~IsPrefix(message.got, text)

\* The canonical text: show what was not streamed yet, or only a notice when it
\* contradicts what was streamed
WithFinal(message, text) ==
  LET rest == IF message.streamed THEN SubSeq(text, Len(message.got) + 1, Len(text)) ELSE text
      lines == IF Corrected(message, text) THEN Withhold(message.lines)
               ELSE Feed(message.lines, rest, TextLimit)
  IN  IF Secret(message) THEN [message EXCEPT !.complete = TRUE]
      ELSE [message EXCEPT !.complete = TRUE, !.lines = FlushLines(lines), !.final = text]

\* _get_message: a message beyond the limit is not followed
Followed(id) == id \in DOMAIN messages \/ Cardinality(DOMAIN messages) < MessageLimit

Message(id) == IF id \in DOMAIN messages THEN messages[id] ELSE NewMessage

Put(id, message) ==
  messages' = [m \in DOMAIN messages \cup {id} |-> IF m = id THEN message ELSE messages[m]]

\* What a text frame makes of the message it speaks of
Told(message, frame) ==
  LET named == WithPhase(message, frame.phase)
  IN  CASE message.complete -> message
        [] ~message.complete /\ frame.kind = "message_start" -> named
        [] ~message.complete /\ frame.kind = "message_delta" -> WithDelta(named, frame.text)
        [] OTHER -> WithFinal(named, frame.text)

TextNotices(frame) ==
  LET old == Message(frame.id)
      corrects == /\ frame.kind = "message" /\ ~Secret(WithPhase(old, frame.phase))
                  /\ Corrected(old, frame.text)
  IN  IF old.complete THEN {}
      ELSE (IF PhaseChanged(old, frame.phase) THEN {"phase-change"} ELSE {})
             \cup (IF corrects THEN {"correction"} ELSE {})

OnText(frame) ==
  /\ IF Followed(frame.id)
     THEN /\ Put(frame.id, Told(Message(frame.id), frame))
          /\ notices' = notices \cup TextNotices(frame)
          /\ protocol' = (protocol \/ (frame.phase = "invalid" /\ ~Message(frame.id).complete))
     ELSE notices' = notices \cup {"messages"} /\ UNCHANGED <<messages, protocol>>
  /\ UNCHANGED <<exitCode, completion, models, calls, steps, heard>>

-----------------------------------------------------------------------------
(* Tools, models and results of the Copilot profile *)

Quiet == UNCHANGED <<messages, notices>>

Fails(what) ==
  /\ protocol' = TRUE /\ heard' = heard \cup {what}
  /\ UNCHANGED <<exitCode, completion, models, calls, steps>> /\ Quiet

\* _tool_started: an identity in flight cannot start again
OnToolStart(frame) ==
  IF frame.id \in calls \/ Cardinality(calls) >= CallLimit THEN Fails("call_started_twice")
  ELSE /\ calls' = calls \cup {frame.id}
       /\ UNCHANGED <<verdict, models, steps, heard>> /\ Quiet

\* _tool_finished: an answer to no call says nothing
OnToolEnd(frame) ==
  /\ calls' = calls \ {frame.id}
  /\ IF frame.id \in calls /\ ~frame.success
     THEN protocol' = TRUE /\ heard' = heard \cup {"call_failed"}
     ELSE UNCHANGED <<protocol, heard>>
  /\ UNCHANGED <<exitCode, completion, models, steps>> /\ Quiet

\* _native_result: the first envelope counts, and another one must agree
OnResult(frame) ==
  /\ IF exitCode = "none" THEN exitCode' = frame.code /\ completion' = TRUE
     ELSE UNCHANGED <<exitCode, completion>>
  /\ protocol' = (protocol \/ frame.code = "other" \/ exitCode \notin {"none", frame.code})
  /\ heard' = heard \cup (IF frame.code = "other" THEN {"exit_code"} ELSE {})
  /\ UNCHANGED <<models, calls, steps>> /\ Quiet

\* _observe_model
OnModel(frame) ==
  IF frame.name \notin models /\ Cardinality(models) >= ModelLimit THEN Fails("models")
  ELSE /\ models' = models \cup {frame.name}
       /\ UNCHANGED <<verdict, calls, steps, heard>> /\ Quiet

-----------------------------------------------------------------------------
(* Model steps of the OpenCode profile *)

OnStepStart(frame) ==
  /\ session' = frame.session /\ step' = frame.message /\ reason' = "none"
  /\ IF step # "none" THEN protocol' = TRUE /\ heard' = heard \cup {"step_in_a_step"}
     ELSE UNCHANGED <<protocol, heard>>
  /\ UNCHANGED <<exitCode, completion, models, calls, finished>> /\ Quiet

\* _step_finished: a repeated end must agree and changes nothing
OnStepFinish(frame) ==
  /\ session' = frame.session
  /\ LET repeated == frame.part \in DOMAIN finished
         bad == \/ frame.reason = "error"
                \/ repeated /\ finished[frame.part] # frame.reason
                \/ ~repeated /\ (step # frame.message \/ Cardinality(DOMAIN finished) >= StepLimit)
     IN  /\ IF bad THEN protocol' = TRUE /\ heard' = heard \cup {"step"}
            ELSE UNCHANGED <<protocol, heard>>
         /\ IF bad \/ repeated THEN UNCHANGED <<step, reason, finished>>
            ELSE /\ finished' = (frame.part :> frame.reason) @@ finished
                 /\ step' = "none" /\ reason' = frame.reason
  /\ UNCHANGED <<exitCode, completion, models, calls>> /\ Quiet

\* _tool: OpenCode reports a tool once, when it has ended
OnPart(frame) ==
  /\ session' = frame.session
  /\ IF frame.status = "error" THEN protocol' = TRUE /\ heard' = heard \cup {"call_failed"}
     ELSE UNCHANGED <<protocol, heard>>
  /\ UNCHANGED <<exitCode, completion, models, calls, step, reason, finished>> /\ Quiet

-----------------------------------------------------------------------------
(* Bytes become frames, frames become observations *)

OnCopilot(frame) ==
  \/ frame.kind \in {"message_start", "message_delta", "message"} /\ OnText(frame)
  \/ frame.kind = "tool_start" /\ OnToolStart(frame)
  \/ frame.kind = "tool_end" /\ OnToolEnd(frame)
  \/ frame.kind = "result" /\ OnResult(frame)
  \/ frame.kind = "model" /\ OnModel(frame)

OnOpenCode(frame) ==
  IF session \notin {"none", frame.session} THEN Fails("session")
  ELSE \/ frame.kind = "step_start" /\ OnStepStart(frame)
       \/ frame.kind = "step_finish" /\ OnStepFinish(frame)
       \/ frame.kind = "tool" /\ OnPart(frame)

\* _frame and _event
Handle(frame) ==
  IF frame.kind \in {"malformed", "session_error"} THEN Fails(frame.kind)
  ELSE IF harness = "copilot" THEN OnCopilot(frame) ELSE OnOpenCode(frame)

\* The bytes of a frame, except for the newline that ends it
Bytes(frame) ==
  /\ ~closed /\ line = "empty"
  /\ line' = "open" /\ held' = frame
  /\ UNCHANGED <<harness, verdict, models, messages, notices, calls, steps, closed, heard>>

Newline ==
  /\ ~closed /\ line # "empty"
  /\ line' = "empty"
  /\ IF line = "open" THEN Handle(held)
     ELSE UNCHANGED <<verdict, models, messages, notices, calls, steps, heard>>
  /\ held' = [kind |-> "none"]
  /\ UNCHANGED <<harness, closed>>

\* The line exceeds frame_bytes: drop it up to its end
Oversize ==
  /\ ~closed /\ line = "open"
  /\ line' = "discarding" /\ held' = [kind |-> "none"]
  /\ Fails("oversize")
  /\ UNCHANGED <<harness, closed>>

\* Mutated: nobody asks for the calls that are still in flight
FinishTrusting ==
  /\ ~closed /\ line = "empty"
  /\ completion' = IF harness = "copilot" THEN completion
                   ELSE ~protocol /\ step = "none" /\ reason = "stop"
  /\ closed' = TRUE
  /\ UNCHANGED <<harness, stream, protocol, exitCode, models, messages, notices, calls, steps, heard>>

\* finish(): calls in flight are an error, the rest of a public message is shown,
\* and OpenCode's completion is the end of its last step.  (An open line was
\* handled before, see Newline: at the end of the stream it needs no newline.)
FinishDecoder ==
  /\ ~closed /\ line = "empty"
  /\ protocol' = (protocol \/ calls # {})
  /\ heard' = heard \cup (IF calls # {} THEN {"call_in_flight"} ELSE {})
  /\ messages' = [id \in DOMAIN messages |->
       IF Public(messages[id]) THEN [messages[id] EXCEPT !.lines = FlushLines(@)] ELSE messages[id]]
  /\ completion' = IF harness = "copilot" THEN completion
                   ELSE ~protocol' /\ step = "none" /\ reason = "stop"
  /\ closed' = TRUE
  /\ UNCHANGED <<harness, stream, exitCode, models, notices, calls, steps>>

DecoderInit ==
  /\ harness \in {"copilot", "opencode"}
  /\ line = "empty" /\ held = [kind |-> "none"]
  /\ protocol = FALSE /\ exitCode = "none" /\ completion = FALSE
  /\ models = {} /\ messages = <<>> /\ notices = {} /\ calls = {}
  /\ session = "none" /\ step = "none" /\ reason = "none" /\ finished = <<>>
  /\ closed = FALSE /\ heard = {}

-----------------------------------------------------------------------------
(* Properties *)

\* The decoder's part of the engine's condition to go on
Clean == closed /\ ~protocol /\ exitCode \in {"none", "zero"} /\ completion

\* A stream that lets the run go on said nothing else on its way: no failed or
\* unanswered artifact call, no error, no other exit code, no foreign session, no
\* torn or oversized frame, however late or often any of it was said.
CleanSessionIsWhole == Clean => heard = {} /\ calls = {} /\ step = "none"

\* A step shows no text of a message that it leaves private, or in an unknown phase
\* before its completion
ShowsNothingPrivate ==
  \A id \in DOMAIN messages :
    Secret(messages'[id]) \/ (messages'[id].phase = "unknown" /\ ~messages'[id].complete)
      => messages'[id].lines.shown = messages[id].lines.shown

\* Text of a message that is known to be private is never shown, neither by a
\* late flush nor by its completion, and a message whose phase is not known yet
\* shows nothing before it is complete.
PrivateStaysPrivate == [][ShowsNothingPrivate]_decoder

=============================================================================
