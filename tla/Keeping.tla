-------------------------------- MODULE Keeping --------------------------------
(***************************************************************************)
(* What a command keeps of a run and shows of it: files that are replaced, *)
(* the transcript and the screen, the bytes that travel through the        *)
(* captures, and the evidence that is read back for the receipt.  The      *)
(* parts share no state (that a captured delivery is a finalized one is    *)
(* what Attempt and Chain show) and are explored one at a time (focus).    *)
(***************************************************************************)
EXTENDS AtomicWrite, Transcript, Screen, Workspace, Evidence

VARIABLE focus   \* the part that is explored

keepingVars == <<focus, vars, transcriptVars, screenVars, workspaceVars, evidenceVars>>

Parts == {"file", "transcript", "screen", "workspace", "evidence"}

\* A part that is not explored stays in one of its initial states
KeepingInit ==
  /\ focus \in Parts
  /\ (focus = "file" \/ (posix = TRUE /\ durable = TRUE))
  /\ (focus = "screen" \/ /\ request = CHOOSE r \in Requests : TRUE
                          /\ LET look == CHOOSE look \in Looks : TRUE
                             IN screen = [s \in Screens |-> FreshApp(look[s].verbose, look[s].animated)])
  /\ (focus = "workspace" \/ task = CHOOSE t \in Tasks : TRUE)
  /\ (focus = "evidence" \/ invocation = CHOOSE i \in Invocations : i.form = "run")
  /\ Init /\ TranscriptInit /\ ScreenInit /\ WorkspaceInit /\ EvidenceInit
  /\ (focus = "workspace" \/ tree["caller"] = AsFiles(CHOOSE files \in Callers : TRUE))

KeepingNext ==
  /\ \/ focus = "file" /\ Next
        /\ UNCHANGED <<transcriptVars, screenVars, workspaceVars, evidenceVars>>
     \/ focus = "transcript" /\ SayLine
        /\ UNCHANGED <<vars, screenVars, workspaceVars, evidenceVars>>
     \/ focus = "screen" /\ ScreenNext
        /\ UNCHANGED <<vars, transcriptVars, workspaceVars, evidenceVars>>
     \/ focus = "workspace" /\ WorkspaceNext
        /\ UNCHANGED <<vars, transcriptVars, screenVars, evidenceVars>>
     \/ focus = "evidence" /\ EvidenceNext
        /\ UNCHANGED <<vars, transcriptVars, screenVars, workspaceVars>>
  /\ UNCHANGED focus

KeepingSpec == KeepingInit /\ [][KeepingNext]_keepingVars
=============================================================================
