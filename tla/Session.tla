-------------------------------- MODULE Session --------------------------------
(***************************************************************************)
(* One session with a native agent, from the preparation of its request to *)
(* the verdict of run_attempt (contracts/engine.py) on it: the agent calls *)
(* artifact tools of the server while its frames go to the decoder and its *)
(* logs to the mirror; then the decoder is asked, the outputs are captured *)
(* and the operation log decides.                                          *)
(*                                                                         *)
(* The parts that share no state are explored one at a time (focus): the   *)
(* preparation, prose, frames in any order, tool calls, and logs.  Only    *)
(* tool calls couple two of them: the agent is honest about the calls it   *)
(* made, and about nothing else.                                           *)
(***************************************************************************)
EXTENDS Decoder, ArtifactServer, Preparation, NativeLogs

CONSTANTS
  MaxFrames,   \* bound: frames of a stream in any order
  MaxProse     \* bound: frames of prose, or besides the calls

ASSUME SessionAssumption == {MaxFrames, MaxProse} \subseteq Nat

VARIABLES
  focus,     \* the part that is explored
  frames,    \* written so far
  tool,      \* the agent's call: "none", "announced", "asked" or "given_up"
  call,      \* its toolCallId
  wronged,   \* history: a call of the agent failed or was never answered
  outcome,   \* run_attempt's view: "running", "stopped", "captured", "refused", "accepted"
  artifact   \* the captured output

agentVars == <<focus, frames, tool, call, wronged, outcome, artifact>>
sessionVars == <<agentVars, decoder, serverVars, prepVars, logVars>>

Running == outcome = "running"

-----------------------------------------------------------------------------
(* The agent *)

ProseFrames == StartFrames \cup DeltaFrames \cup MessageFrames

FreeFrames ==
  BadFrames \cup (IF harness = "copilot" THEN ToolFrames \cup ResultFrames \cup ModelFrames
                  ELSE StepFrames \cup PartFrames)

\* What the agent writes besides its calls when it uses tools
EndFrames ==
  IF harness = "copilot" THEN [kind: {"result"}, code: {"zero"}]
  ELSE [kind: {"step_start"}, session: {"own"}, message: {"m1"}]
         \cup [kind: {"step_finish"}, session: {"own"}, message: {"m1"}, part: {1}, reason: {"stop"}]

Spoken ==
  CASE focus = "prose"  -> ProseFrames
    [] focus = "frames" -> FreeFrames
    [] OTHER            -> EndFrames

\* OpenCode ends a step after the tools of the step
Speak ==
  /\ Running /\ frames < (IF focus = "frames" THEN MaxFrames ELSE MaxProse) /\ frames' = frames + 1
  /\ focus = "tools" /\ harness = "opencode" => tool = "none"
  /\ \E frame \in Spoken : Bytes(frame)
  /\ UNCHANGED <<focus, tool, call, wronged, outcome, artifact, serverVars>>

Ended == UNCHANGED <<focus, outcome, artifact>>

\* Copilot announces a call
Announce ==
  /\ Running /\ focus = "tools" /\ tool = "none" /\ line = "empty"
  /\ LET id == CHOOSE id \in Calls : id \notin calls IN
       /\ call' = id
       /\ IF harness = "copilot" THEN Bytes([kind |-> "tool_start", id |-> id])
                                 ELSE UNCHANGED decoder
  /\ tool' = "announced"
  /\ Ended /\ UNCHANGED <<frames, wronged, serverVars>>

Ask ==
  /\ Running /\ tool = "announced" /\ line = "empty" /\ server = "idle"
  /\ \E o \in Operations : Begin(o) \/ Refused(o)
  /\ tool' = "asked"
  /\ Ended /\ UNCHANGED <<frames, call, wronged, decoder>>

\* The agent reports the end of its call: a success only if the server said so
Report(success) ==
  /\ IF harness = "copilot" THEN Bytes([kind |-> "tool_end", id |-> call, success |-> success])
     ELSE Bytes([kind |-> "tool", session |-> "own",
                 status |-> IF success THEN "completed" ELSE "error"])
  /\ wronged' = (wronged \/ ~success)

Answered ==
  /\ Running /\ tool = "asked" /\ server = "idle"
  /\ Report(reply = "result")
  /\ tool' = "none"
  /\ Ended /\ UNCHANGED <<frames, call, serverVars>>

\* The server is gone, or the agent does not wait any longer and cancels the call
GiveUp ==
  /\ Running /\ tool \in {"announced", "asked"}
  /\ Report(FALSE)
  /\ tool' = IF tool = "asked" /\ server # "off" THEN "given_up" ELSE "none"
  /\ Ended /\ UNCHANGED <<frames, call, serverVars>>

CancelArrives ==
  /\ Running /\ tool = "given_up"
  /\ IF server = "off" THEN UNCHANGED serverVars ELSE Cancelled
  /\ tool' = "none"
  /\ Ended /\ UNCHANGED <<frames, call, wronged, decoder>>

ServerMoves ==
  /\ Running /\ focus = "tools"
  /\ \/ ServerStep \/ Disagree \/ ServerDies \/ Edit
     \/ tool \in {"none", "announced"} /\ StartServer
  /\ UNCHANGED <<agentVars, decoder>>

StdoutMoves ==
  /\ Running
  /\ Newline \/ (focus = "frames" /\ Oversize)
  /\ UNCHANGED <<agentVars, serverVars>>

-----------------------------------------------------------------------------
(* run_attempt *)

\* supervise_process returned: the agent and its server are gone.  decoder.finish()
\* reads the rest; nothing is captured unless everything looks well.
Judge ==
  /\ Running /\ focus \in {"prose", "frames", "tools"}
  /\ FinishDecoder
  /\ outcome' \in {"stopped"} \cup (IF Clean' THEN {"captured"} ELSE {})
  /\ artifact' = IF outcome' = "captured" THEN output ELSE artifact
  /\ Gone
  /\ UNCHANGED <<focus, frames, tool, call, wronged, disk, starts, files, torn>>

\* capture_output needs the declared output, capture_exports a settled log
Accept ==
  /\ outcome = "captured"
  /\ outcome' = IF artifact # "none" /\ CapturesExports(artifact) THEN "accepted" ELSE "refused"
  /\ UNCHANGED <<focus, frames, tool, call, wronged, artifact, decoder, serverVars>>

AgentNext ==
  /\ Speak \/ Announce \/ Ask \/ Answered \/ GiveUp \/ CancelArrives
       \/ ServerMoves \/ StdoutMoves \/ Judge \/ Accept
  /\ UNCHANGED <<prepVars, logVars>>

PrepareNext ==
  /\ focus = "preparation"
  /\ Prepare \/ Reconfigure
  /\ UNCHANGED <<agentVars, decoder, serverVars, logVars>>

LogsNext ==
  /\ focus = "logs"
  /\ LogsChange \/ Mirror
  /\ UNCHANGED <<agentVars, decoder, serverVars, prepVars>>

\* The preparation is explored from each of its initial states, the rest from one
SessionInit ==
  /\ focus \in {"preparation", "prose", "frames", "tools", "logs"}
  /\ frames = 0 /\ tool = "none" /\ call = "none" /\ wronged = FALSE
  /\ outcome = "running" /\ artifact = "none"
  /\ DecoderInit /\ ServerInit /\ PrepInit /\ LogsInit
  /\ focus # "preparation" => runtime = "replay" /\ native = CHOOSE c \in Configurations : TRUE
  /\ focus \in {"preparation", "logs"} => harness = "copilot"
  /\ focus = "prose" => harness = "copilot"
  /\ focus # "tools" => source = CHOOSE c \in Contents : TRUE

SessionNext == AgentNext \/ PrepareNext \/ LogsNext

SessionSpec == SessionInit /\ [][SessionNext]_sessionVars

-----------------------------------------------------------------------------
(* Properties *)

\* The agent's outputs are accepted only if no artifact operation was left half
\* done and no call failed from the agent's point of view, although the server can
\* die between any two of its saves, a save can fail, and the log and the stream
\* can each lose what the other one knows.
AcceptedWorkIsSettled == outcome = "accepted" => torn = 0 /\ ~wronged
=============================================================================
