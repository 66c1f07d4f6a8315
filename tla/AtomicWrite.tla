------------------------------ MODULE AtomicWrite ------------------------------
(***************************************************************************)
(* atomic_write_text of utils/atomic_io.py, as the record stores use it: a *)
(* sequence of writes to one file, each of a later version, each through a *)
(* temporary file that replaces the target.  A write may fail or be        *)
(* interrupted at any step, the next one is tried all the same (that is    *)
(* what fail_finalization does), and the machine may lose power.           *)
(*                                                                         *)
(* The file system keeps what was synced.  Of what was not, any part may   *)
(* survive, and a file that was renamed before its content was synced may  *)
(* come back torn.  A rename is kept once the directory was synced, which  *)
(* the code does on POSIX alone.                                           *)
(***************************************************************************)
EXTENDS Integers

CONSTANTS MaxWrites   \* writes of the sequence

ASSUME AtomicWriteAssumption == MaxWrites \in Nat \ {0}

Versions == 0 .. MaxWrites     \* 0: the file before the first write, or none
Torn == -1

VARIABLES
  pc,       \* the next step of the write in progress
  posix,    \* os.name == "posix"
  durable,  \* the keyword argument
  version,  \* the version being written
  target,   \* what readers of the path see
  stored,   \* what the path may show after a loss of power
  temp,     \* the temporary file: "none", "empty", "full"
  synced,   \* its content was synced
  last,     \* how the last write ended
  acked,    \* history: the last version whose write returned
  kept,     \* history: target before the write in progress
  litter    \* history: an interrupted write left its temporary file

vars == <<pc, posix, durable, version, target, stored, temp, synced, last, acked, kept, litter>>

-----------------------------------------------------------------------------

Begin ==
  /\ pc = "idle" /\ version < MaxWrites
  /\ version' = version + 1 /\ kept' = target
  /\ pc' = "create"
  /\ UNCHANGED <<posix, durable, target, stored, temp, synced, last, acked, litter>>

\* except Exception: remove the temporary file, raise.  That the removal fails,
\* too, which the code ignores, is left out.
Fail == pc' = "cleanup"

\* mkstemp is before the try block
Create ==
  /\ pc = "create"
  /\ \/ temp' = "empty" /\ synced' = FALSE /\ pc' = "write" /\ UNCHANGED last
     \/ last' = "error" /\ pc' = "idle" /\ UNCHANGED <<temp, synced>>
  /\ UNCHANGED <<posix, durable, version, target, stored, acked, kept, litter>>

\* Mutated: the content is not synced
WriteUnsynced ==
  /\ pc = "write"
  /\ temp' = "full" /\ pc' = "replace"
  /\ UNCHANGED <<posix, durable, version, target, stored, synced, last, acked, kept, litter>>

Write ==
  /\ pc = "write"
  /\ \/ temp' = "full" /\ pc' = IF durable THEN "sync" ELSE "replace"
     \/ Fail /\ UNCHANGED temp
  /\ UNCHANGED <<posix, durable, version, target, stored, synced, last, acked, kept, litter>>

Sync ==
  /\ pc = "sync"
  /\ \/ synced' = TRUE /\ pc' = "replace"
     \/ Fail /\ UNCHANGED synced
  /\ UNCHANGED <<posix, durable, version, target, stored, temp, last, acked, kept, litter>>

\* os.replace: readers see the new version, a loss of power may not
Replace ==
  /\ pc = "replace"
  /\ \/ /\ target' = version
        /\ stored' = stored \cup {version} \cup (IF synced THEN {} ELSE {Torn})
        /\ temp' = "none"
        /\ pc' = IF durable /\ posix THEN "syncdir" ELSE "return"
     \/ Fail /\ UNCHANGED <<target, stored, temp>>
  /\ UNCHANGED <<posix, durable, version, synced, last, acked, kept, litter>>

\* Mutated: the directory is not synced
SyncDirectorySkipped ==
  /\ pc = "syncdir"
  /\ pc' = "return"
  /\ UNCHANGED <<posix, durable, version, target, stored, temp, synced, last, acked, kept, litter>>

SyncDirectory ==
  /\ pc = "syncdir"
  /\ \/ stored' = {target} /\ pc' = "return"
     \/ Fail /\ UNCHANGED stored
  /\ UNCHANGED <<posix, durable, version, target, temp, synced, last, acked, kept, litter>>

Cleanup ==
  /\ pc = "cleanup"
  /\ temp' = "none"
  /\ last' = "error" /\ pc' = "idle"
  /\ UNCHANGED <<posix, durable, version, target, stored, synced, acked, kept, litter>>

Return ==
  /\ pc = "return"
  /\ last' = "written" /\ acked' = version /\ pc' = "idle"
  /\ UNCHANGED <<posix, durable, version, target, stored, temp, synced, kept, litter>>

\* KeyboardInterrupt is no Exception: nothing cleans up
Interrupt ==
  /\ pc \in {"create", "write", "sync", "replace", "syncdir", "cleanup", "return"}
  /\ last' = "interrupted" /\ pc' = "idle"
  /\ temp' = "none" /\ litter' = (litter \/ temp # "none")
  /\ UNCHANGED <<posix, durable, version, target, stored, synced, acked, kept>>

PowerLoss ==
  /\ pc # "down"
  /\ pc' = "down"
  /\ target' \in stored
  /\ UNCHANGED <<posix, durable, version, stored, temp, synced, last, acked, kept, litter>>

Init ==
  /\ pc = "idle" /\ posix \in BOOLEAN /\ durable \in BOOLEAN
  /\ version = 0 /\ target = 0 /\ stored = {0}
  /\ temp = "none" /\ synced = FALSE /\ last = "none" /\ acked = 0 /\ kept = 0
  /\ litter = FALSE

Next ==
  \/ Begin \/ Create \/ Write \/ Sync \/ Replace \/ SyncDirectory \/ Cleanup \/ Return
  \/ Interrupt \/ PowerLoss

Spec == Init /\ [][Next]_vars

-----------------------------------------------------------------------------
(* Properties *)

\* What is found after a loss of power is one of the versions, whole.  On POSIX no
\* observation whose durable write returned is lost, either: it is at least as recent.
\* Elsewhere the directory is not synced, and an older version may come back.
AcknowledgedSurvives == durable => target # Torn /\ (posix => target >= acked)

\* A write ends in one of three ways for those who read the file afterwards: it
\* returned and the new version is there, or it raised and the file is as it was
\* before or shows the new version.  The record stores rely on there being no fourth.
ResultsAreThree ==
  pc = "idle" /\ version > 0 =>
    \/ last = "written" /\ target = version
    \/ last \in {"error", "interrupted"} /\ target \in {kept, version}

\* The docstring (utils/atomic_io.py:93-94): "On any failure, the temp file is
\* removed and the original target file (if any) remains untouched."
NothingIsLeftBehind == ~litter
=============================================================================
