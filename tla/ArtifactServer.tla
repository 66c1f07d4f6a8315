---------------------------- MODULE ArtifactServer ----------------------------
(***************************************************************************)
(* The artifact tools of a run: the server of runtime/artifact_mcp.py,     *)
(* which keeps an operation log in state.json, its operations on the       *)
(* private working copy (contracts/git_export.py), and capture_exports     *)
(* (runtime/artifact_tools.py), which decides whether the log is good.     *)
(*                                                                         *)
(* Every save is a durable replacement with the three results of           *)
(* AtomicWrite.tla.  The server may die at any step and be started again   *)
(* by the native agent, which runs one server at a time.  The working copy *)
(* has one source file and one declared output, and the agent's own tools  *)
(* may change both at any time.                                            *)
(***************************************************************************)
EXTENDS Integers, Sequences, TLC

CONSTANTS
  Contents,      \* contents of the source file
  MaxOperations, \* 64 calls in the life of a run
  MaxStarts      \* bound: how often the agent starts the server

ASSUME ServerAssumption == MaxOperations \in Nat /\ MaxStarts \in Nat

VARIABLES
  disk,      \* state.json: active, failed, exports, operations
  mem,       \* the server's own copy of it
  server,    \* "off", "idle", or the step of the call it works on
  op,        \* the operation of that call
  look,      \* the source file that export_changes looked at
  starts,    \* of the server
  reply,     \* the answer to the last call: "none", "result" or "error"
  source,    \* the source file of the working copy
  output,    \* the declared output of the working copy
  receipts,  \* export-N.json: the patch each of them names
  torn       \* history: how many operations took effect and did not end in the log

log == <<disk, mem>>
files == <<source, output, receipts>>
serverVars == <<log, server, op, look, starts, reply, files, torn>>

Operations == {"write_source", "write_output", "delete_source", "export_changes", "unknown"}

\* A patch is named by the source content it leads to; "text" is any other bytes,
\* "missing" no file
Patches == Contents \cup {"missing"}
Outputs == Patches \cup {"text", "none"}

Entry == [active |-> "none", failed |-> FALSE, exports |-> <<>>, operations |-> 0]

SaveResults == {"written", "kept", "unsynced"}

\* save(): the file is replaced, kept, or replaced without being acknowledged
Saved(state, saved) == IF saved = "kept" THEN disk ELSE state

Unasked == op' = "none" /\ look' = "none"

\* The server is gone, and its memory with it
Gone == server' = "off" /\ mem' = Entry /\ reply' = "none" /\ Unasked

Answer(state, answer) == server' = "idle" /\ mem' = state /\ reply' = answer /\ Unasked

Goes(point, state) == server' = point /\ mem' = state /\ UNCHANGED reply

-----------------------------------------------------------------------------
(* The calls *)

\* The conditions of call() before anything is done
Admissible(o) ==
  /\ mem.active = "none" /\ ~mem.failed
  /\ o # "unknown" /\ mem.operations < MaxOperations

\* except (ContractError, OSError, UnicodeError): note the failure in the log and
\* answer with an error; when that cannot be saved, the server dies unanswered
Fail(state) ==
  LET failed == [state EXCEPT !.failed = TRUE]
  IN  \E saved \in SaveResults :
        /\ disk' = Saved(failed, saved)
        /\ IF saved = "written" THEN Answer(failed, "error") ELSE Gone

\* A save that fails is such an error: what the first attempt left is there if the
\* second one leaves the file as it is
FailToSave(state) ==
  LET failed == [state EXCEPT !.failed = TRUE]
  IN  \E first \in SaveResults \ {"written"}, second \in SaveResults :
        /\ disk' = IF second = "kept" THEN Saved(state, first) ELSE failed
        /\ IF second = "written" THEN Answer(failed, "error") ELSE Gone

Refused(o) ==
  /\ server = "idle" /\ ~Admissible(o)
  /\ Fail(mem)
  /\ UNCHANGED <<starts, files, torn>>

\* The operation is in the log before it begins
Begin(o) ==
  /\ server = "idle" /\ Admissible(o)
  /\ LET state == [mem EXCEPT !.active = o, !.operations = @ + 1]
     IN  \/ /\ disk' = Saved(state, "written") /\ mem' = state /\ server' = "perform"
            /\ op' = o /\ reply' = "none" /\ UNCHANGED look
         \/ FailToSave(state)
  /\ UNCHANGED <<starts, files, torn>>

\* context.path, a byte limit, an unreadable file: nothing was changed yet
Refuse ==
  /\ server = "perform"
  /\ Fail(mem)
  /\ UNCHANGED <<starts, files, torn>>

\* write_file and delete_file; an error may also come after the change, as when the
\* bytes that are read back differ
Change ==
  /\ server = "perform"
  /\ \/ op = "write_source" /\ source' \in Contents /\ UNCHANGED output
     \/ op = "write_output" /\ output' = "text" /\ UNCHANGED source
     \/ op = "delete_source" /\ source # "missing" /\ source' = "missing" /\ UNCHANGED output
  /\ torn' = torn + 1
  /\ (Goes("end", mem) /\ UNCHANGED <<disk, op, look>>) \/ Fail(mem)
  /\ UNCHANGED <<starts, receipts>>

\* An artifact is exported at most once: the receipts of the log are read back
Repeated == mem.exports # <<>>

\* export_changes: look at both trees and compute the patch
Look ==
  /\ server = "perform" /\ op = "export_changes" /\ ~Repeated
  /\ look' = source /\ Goes("publish", mem)
  /\ UNCHANGED <<disk, op, starts, files, torn>>

\* Look again, and write the patch that belongs to what was seen
Publish ==
  /\ server = "publish"
  /\ \/ /\ source = look
        /\ output' = look /\ torn' = torn + 1
        /\ (Goes("receipt", mem) /\ UNCHANGED <<disk, op, look>>) \/ Fail(mem)
     \/ Fail(mem) /\ UNCHANGED <<output, torn>>
  /\ UNCHANGED <<starts, source, receipts>>

Receipted == (Len(mem.exports) + 1 :> look) @@ receipts

\* export-N.json, its digest, and the entry of the log
Receipt ==
  /\ server = "receipt"
  /\ \/ /\ receipts' = Receipted
        /\ Goes("end", [mem EXCEPT !.exports = Append(@, look)])
        /\ UNCHANGED <<disk, op, look>>
     \/ receipts' \in {receipts, Receipted} /\ Fail(mem)
  /\ UNCHANGED <<starts, source, output, torn>>

\* The operation leaves the log, and only then is answered
End ==
  /\ server = "end"
  /\ LET state == [mem EXCEPT !.active = "none"]
     IN  \/ disk' = Saved(state, "written") /\ Answer(state, "result")
         \/ FailToSave(state)
  /\ torn' = IF disk'.active = "none" /\ ~disk'.failed THEN torn - 1 ELSE torn
  /\ UNCHANGED <<starts, files>>

-----------------------------------------------------------------------------
(* The life of the server *)

\* __init__ reads the log
StartServer ==
  /\ server = "off" /\ starts < MaxStarts
  /\ server' = "idle" /\ mem' = disk /\ starts' = starts + 1
  /\ UNCHANGED <<disk, op, look, reply, files, torn>>

\* notifications/cancelled, handled after the call it wants to cancel
Cancelled ==
  /\ server = "idle"
  /\ LET failed == [mem EXCEPT !.failed = TRUE]
     IN  \E saved \in SaveResults :
           /\ disk' = Saved(failed, saved)
           /\ IF saved = "written" THEN Answer(failed, reply) ELSE Gone
  /\ UNCHANGED <<starts, files, torn>>

\* A frame that is no request, or the 257th one: note it and stop
Disagree ==
  /\ server = "idle"
  /\ \E saved \in SaveResults : disk' = Saved([mem EXCEPT !.failed = TRUE], saved)
  /\ Gone
  /\ UNCHANGED <<starts, files, torn>>

\* End of input, a signal, or the end of the process group
ServerDies ==
  /\ server # "off"
  /\ Gone
  /\ UNCHANGED <<disk, starts, files, torn>>

\* The agent's own editing tools
Edit ==
  /\ \/ source' \in Patches /\ UNCHANGED output
     \/ output' = "text" /\ UNCHANGED source
  /\ UNCHANGED <<log, server, op, look, starts, reply, receipts, torn>>

ServerInit ==
  /\ disk = Entry /\ mem = Entry
  /\ server = "off" /\ op = "none" /\ look = "none" /\ starts = 0 /\ reply = "none"
  /\ source \in Contents /\ output = "none" /\ receipts = <<>>
  /\ torn = 0

ServerStep == Refuse \/ Change \/ Look \/ Publish \/ Receipt \/ End

-----------------------------------------------------------------------------
(* capture_exports *)

\* Mutated: only a recorded failure is looked at
SettledLax == ~disk.failed

\* The log on disk knows of no open and no failed operation
Settled ==
  /\ disk.active = "none" /\ ~disk.failed
  /\ disk.operations \in 0 .. MaxOperations

\* Every export of the log has its receipt, and the captured artifact has the
\* bytes of the patch that the receipt names
Bound(artifact) ==
  /\ Len(disk.exports) <= 1
  /\ \A i \in DOMAIN disk.exports :
        i \in DOMAIN receipts /\ receipts[i] = disk.exports[i] /\ artifact = receipts[i]

CapturesExports(artifact) == Settled /\ Bound(artifact)
=============================================================================
