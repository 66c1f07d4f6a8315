--------------------------- MODULE WindowsSupervisor ---------------------------
(***************************************************************************)
(* supervise_process on both of its platforms: the POSIX supervisor of     *)
(* Supervisor.tla, and the one of contracts/process_windows.py, which puts *)
(* a suspended process into a kill-on-close job, resumes it and polls.     *)
(*                                                                         *)
(* What differs from POSIX: the process exists before the job holds it,    *)
(* Ctrl+C is not deferred and can strike inside any step and between any   *)
(* two, before the try block and in its handlers and cleanup included, one *)
(* TerminateJobObject replaces the two signals, every call of the system   *)
(* may fail, and closing the job ends what is left of the tree.  So does   *)
(* the end of apmx, which holds the only handle of the job.                *)
(***************************************************************************)
EXTENDS Supervisor

CONSTANT MaxPresses   \* how often the user presses Ctrl+C on Windows

ASSUME WindowsAssumption == MaxPresses \in Nat

VARIABLES
  platform,  \* os.name: "posix" or "nt"
  job,       \* "none", "made", "holds" the process, or "closed"
  presses    \* Ctrl+C so far

jobVars == <<platform, job, presses>>
allVars == <<vars, jobVars>>

\* A step of the supervisor that leaves its tree, its ages and its output alone
Quietly == UNCHANGED <<seen, runAge, exitAge, lag, others, escaped, measure, platform>>

\* KeyboardInterrupt is raised in the middle of a step
Press == presses < MaxPresses /\ presses' = presses + 1 /\ interrupts' = TRUE

NoPress == UNCHANGED <<presses, interrupts>>

\* Mutated: a process that was not assigned yet is forgotten
CloseForgetful ==
  /\ leader' = IF leader = "running" THEN "zombie" ELSE leader
  /\ others' = FALSE
  /\ job' = IF job = "none" THEN "none" ELSE "closed"

\* _JobProcess.close: terminate a process the job does not hold, then close the
\* job, which ends its members; nobody polls them any more
CloseJob ==
  /\ leader' = IF leader \in {"suspended", "running"} THEN "zombie" ELSE leader
  /\ others' = FALSE
  /\ job' = IF job = "none" THEN "none" ELSE "closed"

\* Ctrl+C in close, before the job is closed: a process it does not hold may have
\* been terminated, and nothing else happened
CloseCut ==
  /\ leader' \in {leader, IF leader = "suspended" THEN "zombie" ELSE leader}
  /\ UNCHANGED <<others, job>>

-----------------------------------------------------------------------------
(* The start: job, suspended process, assignment, resumption *)

\* A spent request and a command line or environment that cannot be passed on
Refuse ==
  /\ pc = "start" /\ job = "none"
  /\ \/ Timeout = 0 /\ stop' = "timeout" /\ UNCHANGED error
     \/ Timeout > 0 /\ error' = TRUE /\ UNCHANGED stop
  /\ confirmed' = TRUE /\ pc' = "leave"
  /\ NoPress /\ Quietly
  /\ UNCHANGED <<signals, drained, result, stopAge, leader, code, job>>

MakeJob ==
  /\ Timeout > 0 /\ job = "none"
  /\ job' = "made" /\ UNCHANGED <<pc, leader>>

\* CreateProcessW under the lock of the DLL search path
CreateSuspended ==
  /\ job = "made" /\ leader = "none"
  /\ leader' = "suspended" /\ UNCHANGED <<pc, job>>

Assign ==
  /\ job = "made" /\ leader = "suspended"
  /\ job' = "holds" /\ UNCHANGED <<pc, leader>>

Resume ==
  /\ job = "holds" /\ leader = "suspended"
  /\ leader' = "running" /\ UNCHANGED <<pc, job>>

\* The thread's handle was released, too; a process may end before that
Constructed ==
  /\ job = "holds" /\ leader \in {"running", "zombie"}
  /\ pc' = "started" /\ UNCHANGED <<leader, job>>

StartStep ==
  /\ pc = "start"
  /\ MakeJob \/ CreateSuspended \/ Assign \/ Resume \/ Constructed
  /\ NoPress /\ Quietly
  /\ UNCHANGED <<stop, confirmed, error, signals, drained, result, stopAge, code>>

\* __init__ closes on any exception; an error of the system is reported without
\* a confirmed cleanup, Ctrl+C propagates, and in close it propagates at once
StartFails ==
  /\ pc = "start" /\ Timeout > 0
  /\ \/ /\ CloseJob
        /\ error' = TRUE /\ pc' = "leave" /\ NoPress /\ UNCHANGED result
     \/ /\ CloseJob \/ CloseCut
        /\ Press /\ result' = "KeyboardInterrupt" /\ pc' = "done" /\ UNCHANGED error
  /\ UNCHANGED <<stop, confirmed, signals, drained, seen, clock, code, escaped, measure, platform>>

-----------------------------------------------------------------------------
(* The loop *)

\* stop(): the reason, the start of the allowance, and TerminateJobObject.  A
\* Ctrl+C between the last two makes the reason "cancelled", but the handler
\* finds the allowance started and terminates nothing.
StopWith(reason, age) ==
  IF stopAge # Never
  THEN stop' = reason /\ NoPress /\ UNCHANGED <<stopAge, signals>>
  ELSE /\ stopAge' = age
       /\ \/ stop' = reason /\ signals' = signals \cup {"TERM"} /\ NoPress
          \/ stop' = "cancelled" /\ Press /\ UNCHANGED signals

\* Mutated: the job is terminated and no reason is kept
CancelNowUnnamed ==
  /\ Press /\ UNCHANGED stop
  /\ IF stopAge = Never THEN stopAge' = 0 /\ signals' = signals \cup {"TERM"}
                        ELSE UNCHANGED <<stopAge, signals>>

\* except KeyboardInterrupt in the loop: stop("cancelled"), with a fresh clock
CancelNow ==
  /\ Press /\ stop' = "cancelled"
  /\ IF stopAge = Never THEN stopAge' = 0 /\ signals' = signals \cup {"TERM"}
                        ELSE UNCHANGED <<stopAge, signals>>

\* An exception of a callback, of a call of the system, or of TerminateJobObject
\* itself (which leaves the allowance started) ends the loop
Break ==
  /\ pc' = "finally" /\ result' = "callback_error"
  /\ stopAge' \in {stopAge, IF stopAge = Never THEN 0 ELSE stopAge}
  /\ NoPress /\ UNCHANGED <<stop, signals>>

\* Ctrl+C where no handler of this function takes it
Escape(next) ==
  /\ Press /\ result' = "KeyboardInterrupt" /\ pc' = next
  /\ UNCHANGED <<stop, stopAge, signals>>

\* on_started, which writes a record.  A Ctrl+C after the process was constructed and
\* before the try block is entered leaves the function without closing the job; one
\* in the handler of another goes on to the finally block.
WinStarted ==
  /\ pc = "started"
  /\ \/ pc' = "top" /\ NoPress /\ UNCHANGED <<stop, stopAge, signals, result>>
     \/ CancelNow /\ pc' = "top" /\ UNCHANGED result
     \/ Break
     \/ Escape("done") \/ Escape("finally")
  /\ Quietly
  /\ UNCHANGED <<confirmed, error, drained, leader, code, job>>

\* The leader was polled, the job is empty and both pipes are at their end
JobEnded == Gone /\ drained

WinSample ==
  /\ pc = "top"
  /\ leader' = Reaped
  /\ exitAge' = IF Exited /\ exitAge = Never THEN 0 ELSE exitAge
  /\ seen' = [exited |-> Exited, alive |-> others \/ leader = "running",
              run |-> runAge, exit |-> exitAge', stop |-> stopAge]
  /\ lag' = 0
  /\ confirmed' = JobEnded
  /\ pc' = IF confirmed' THEN "finally" ELSE "decide"
  /\ NoPress
  /\ UNCHANGED <<stop, stopAge, signals, error, drained, result, runAge, code, others,
                 escaped, measure, job, platform>>

\* Begin to stop, or give up once the allowance is over.  The time since
\* stop_started is computed from the sampled clock, and a stop that Ctrl+C
\* interrupted goes on with the next iteration.
WinDecide ==
  /\ pc = "decide"
  /\ LET starts == stopAge = Never /\ StopCause # "none"
         lingers == StopCause = "lingering_children"
         elapsed == CASE ~starts -> seen.stop
                      [] starts /\ lingers -> seen.exit
                      [] OTHER -> 0
     IN  /\ IF starts THEN StopWith(StopCause, IF lingers THEN exitAge ELSE lag)
            ELSE NoPress /\ UNCHANGED <<stop, stopAge, signals>>
         /\ \/ presses' # presses /\ pc' = "top" /\ UNCHANGED <<leader, confirmed>>
            \/ /\ presses' = presses /\ elapsed >= Cleanup
               /\ leader' = Reaped /\ confirmed' = Gone /\ pc' = "finally"
            \/ /\ presses' = presses /\ elapsed < Cleanup
               /\ pc' = "drain" /\ UNCHANGED <<leader, confirmed>>
  /\ UNCHANGED <<error, drained, result, code, job>>
  /\ UNCHANGED <<seen, runAge, exitAge, lag, others, escaped, measure, platform>>

\* PeekNamedPipe, ReadFile and on_bytes
WinDrain ==
  /\ pc = "drain"
  /\ pc' = "top" /\ drained' \in {drained, ~PipesHeld}
  /\ NoPress
  /\ ticked' = FALSE
  /\ UNCHANGED <<stop, stopAge, signals, result, confirmed, error, seen, runAge, exitAge,
                 lag, tree, slow, overdue, platform, job>>

\* Ctrl+C or an exception in any part of the loop; a Ctrl+C between two iterations,
\* or while another is handled, ends it
WinDisturbed ==
  /\ InLoop
  /\ \/ CancelNow /\ pc' = "top" /\ UNCHANGED result
     \/ Break
     \/ Escape("finally")
  /\ Quietly
  /\ UNCHANGED <<confirmed, error, drained, leader, code, job>>

\* The finally block: terminate again, poll for the rest of the allowance (in
\* which Ctrl+C is suppressed), and close the job.  Ctrl+C around the suppression
\* still closes it; in close, it does so only if it comes late enough.
WinFinally ==
  /\ pc = "finally"
  /\ \/ /\ IF confirmed THEN NoPress ELSE NoPress \/ Press
        /\ \/ CloseJob /\ UNCHANGED code
           \/ /\ ~confirmed /\ leader \in {"running", "zombie"}
              /\ leader' = "reaped" /\ others' = FALSE /\ job' = "closed"
              /\ code' = IF leader = "running" THEN "one" ELSE code
        /\ pc' = IF result = "none" THEN "leave" ELSE "done"
        /\ UNCHANGED result
     \/ /\ Press /\ result' = "KeyboardInterrupt" /\ pc' = "done"
        /\ (CloseJob \/ CloseCut) /\ UNCHANGED code
  /\ UNCHANGED <<stop, signals, confirmed, error, drained, seen, runAge, stopAge,
                 exitAge, lag, escaped, measure, platform>>

\* The last drain of the native logs and the last event may raise, too
WinLeave ==
  /\ pc = "leave"
  /\ \/ result' = "observation" /\ NoPress
     \/ job = "closed" /\ ~error /\ result' = "callback_error" /\ NoPress
     \/ result' = "KeyboardInterrupt" /\ Press
  /\ pc' = "done"
  /\ Quietly
  /\ UNCHANGED <<stop, confirmed, error, signals, drained, stopAge, leader, code, job>>

-----------------------------------------------------------------------------

\* A member of the job cannot leave it, and only a resumed process has children
JobTree ==
  /\ pc # "done" /\ job = "holds"
  /\ LeaderExits \/ (Descend /\ ~escaped') \/ DescendantsEnd
  /\ UNCHANGED <<pc, stop, confirmed, error, signals, drained, interrupts, result,
                 seen, clock, measure, jobVars>>

BothInit ==
  /\ Init
  /\ platform \in {"posix", "nt"} /\ job = "none" /\ presses = 0

WinSupervise ==
  \/ Refuse \/ StartStep \/ StartFails
  \/ WinStarted \/ WinSample \/ WinDecide \/ WinDrain \/ WinDisturbed
  \/ WinFinally \/ WinLeave

\* supervise_process chooses the supervisor by os.name
BothSupervise ==
  \/ platform = "posix" /\ Supervise /\ UNCHANGED jobVars
  \/ platform = "nt" /\ WinSupervise

BothTick == Tick /\ UNCHANGED jobVars

Surroundings ==
  \/ platform = "posix" /\ (CtrlC \/ Tree) /\ UNCHANGED jobVars
  \/ platform = "nt" /\ JobTree

BothNext == BothSupervise \/ BothTick \/ Surroundings

BothSpec == BothInit /\ [][BothNext]_allVars

\* The supervisor runs and time passes; no process has to do anything
BothFairSpec == BothSpec /\ WF_allVars(BothSupervise) /\ WF_allVars(BothTick)

-----------------------------------------------------------------------------
(* Properties *)

\* A Ctrl+C is never swallowed by an observation that looks like an ordinary end
\* or a start failure; on POSIX, not by one that looks like a timeout either.
InterruptEndsTheRun ==
  (result = "observation" /\ interrupts) =>
     stop \in (IF platform = "posix" THEN {"cancelled"} ELSE StopReasons \ {"none"})

\* Nothing of the tree is left in doubt without having been killed.  On Windows no
\* process ever runs outside the job, none is left, running or suspended, once the
\* job is closed, and every way out closes it but a Ctrl+C that strikes between the
\* construction and the try block or in close.  After such a one, what had started
\* ends with apmx; a process that was created and not yet assigned stays suspended.
NothingIsLeftRunning ==
  IF platform = "posix" THEN DoubtIsKilled
  ELSE /\ (pc = "done" /\ result # "KeyboardInterrupt") => job \in {"none", "closed"}
       /\ job \in {"none", "closed"} => leader \notin {"suspended", "running"} /\ ~others
       /\ (leader = "running" \/ others) => job = "holds"
=============================================================================
