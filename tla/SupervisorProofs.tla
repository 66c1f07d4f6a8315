---------------------------- MODULE SupervisorProofs ----------------------------
(***************************************************************************)
(* Proofs about supervise_process on both of its platforms, for every      *)
(* request timeout, every cleanup allowance and any number of Ctrl+C: the  *)
(* observation keeps its contract, a confirmed cleanup is true, Ctrl+C is  *)
(* not swallowed, nothing is left in doubt, and the time it takes beyond   *)
(* its bounds is itself bounded.                                           *)
(***************************************************************************)
EXTENDS WindowsSupervisor, TLAPS

-----------------------------------------------------------------------------
(* The inductive invariant *)

Loop == {"top", "decide", "drain"}
Steps == Loop \cup {"start", "started", "finally", "late", "leave", "done"}

\* Program points, names and sets of names
Names ==
  /\ pc \in Steps /\ stop \in StopReasons /\ signals \subseteq {"TERM", "KILL"}
  /\ result \in {"none", "observation", "KeyboardInterrupt", "callback_error"}
  /\ leader \in {"none", "suspended", "running", "zombie", "reaped"} /\ code \in Exits
  /\ platform \in {"posix", "nt"} /\ job \in {"none", "made", "holds", "closed"}

Flags ==
  /\ confirmed \in BOOLEAN /\ error \in BOOLEAN /\ drained \in BOOLEAN
  /\ interrupts \in BOOLEAN /\ others \in BOOLEAN /\ escaped \in BOOLEAN
  /\ ticked \in BOOLEAN /\ slow \in BOOLEAN

\* Ages, counters, and the ages an iteration sampled
Numbers ==
  /\ runAge \in Nat /\ lag \in Nat /\ overdue \in Nat /\ presses \in Nat
  /\ exitAge \in Nat \cup {Never} /\ stopAge \in Nat \cup {Never}
  /\ seen.run \in Nat /\ seen.exit \in Nat \cup {Never} /\ seen.stop \in Nat \cup {Never}

TypeOK == Names /\ Flags /\ Numbers

\* Which processes there can be, on each platform, and who has an exit code
TreeIsOwned ==
  /\ leader \in {"none", "suspended"} => ~others
  /\ (leader = "reaped" \/ (leader = "zombie" /\ job # "closed" /\ pc # "done")) => code # "none"
  /\ platform = "posix" =>
       /\ job = "none" /\ leader # "suspended"
       /\ pc = "start" => leader = "none"
       /\ pc \in Loop \cup {"started", "finally", "late"} => leader # "none"
  /\ platform = "nt" =>
       /\ pc # "late"
       /\ (pc = "start" /\ job \in {"none", "made"}) => leader \in {"none", "suspended"}
       /\ pc = "start" => job # "closed" /\ (job = "none" => leader = "none")
       /\ pc = "start" => leader # "reaped"
       /\ (pc = "start" /\ job = "holds") => leader # "none"
       /\ pc \in Loop \cup {"started", "finally"} =>
            job = "holds" /\ leader \notin {"none", "suspended"}
       /\ pc = "leave" \/ (pc = "done" /\ result # "KeyboardInterrupt") =>
            job \in {"none", "closed"}
       /\ job \in {"none", "closed"} => leader \notin {"suspended", "running"} /\ ~others
       /\ (leader = "running" \/ others) => job = "holds"

\* Cleanup is confirmed only after the last iteration, and then nothing is left
ConfirmationIsLast ==
  /\ confirmed => leader \in {"none", "reaped"} /\ ~others
  /\ pc \in Loop \cup {"start", "started"} => ~confirmed
  /\ (pc = "finally" /\ result # "none") => ~confirmed
  /\ (confirmed /\ leader = "none" /\ ~error) => stop = "timeout" /\ pc \in {"leave", "done"}

\* What an iteration sampled of the past is still past when it decides
SampleIsPast ==
  pc = "decide" => /\ seen.exited => exitAge # Never
                   /\ seen.stop # Never => stopAge # Never

\* What an end without a reason means, and what an error means
EndIsExplained ==
  /\ pc \notin {"finally", "done"} => result = "none"
  /\ pc = "finally" => result \in {"none", "callback_error", "KeyboardInterrupt"}
  /\ (pc = "finally" /\ platform = "posix") => result # "KeyboardInterrupt"
  /\ pc = "done" => result # "none"
  /\ error =>
       /\ pc \in {"leave", "done"} /\ stop = "none" /\ leader # "reaped"
       /\ platform = "posix" => confirmed
  /\ pc \in {"start", "started"} => stopAge = Never /\ stop = "none" /\ signals = {}
  /\ (stopAge # Never /\ result \in {"none", "observation"}) => stop # "none"
  /\ (pc = "finally" /\ result = "none" /\ ~confirmed) => stopAge # Never
  /\ ((pc \in {"late", "leave"} \/ result = "observation") /\ ~error /\ stop = "none") =>
       confirmed /\ leader = "reaped"

\* Which signals were sent, on POSIX, and that Ctrl+C leaves a reason
SignalsAreOrdered ==
  /\ platform = "posix" =>
       /\ stopAge # Never => "TERM" \in signals
       /\ (InLoop /\ "KILL" \in signals) => stopAge # Never
       /\ (pc \in {"late", "leave"} \/ result = "observation") =>
            confirmed \/ signals = {"TERM", "KILL"}
       /\ (pc = "done" /\ result = "callback_error") => "KILL" \in signals
       /\ (result = "observation" /\ interrupts) => stop = "cancelled"
  /\ platform = "nt" =>
       /\ pc \in {"start", "started"} => ~interrupts
       /\ (interrupts /\ result \in {"none", "observation"}) => stop # "none"

\* An iteration without a tick decides on what is the case, and goes on only
\* before the bounds; a bound that was passed is noticed by the next iteration
OverdueIsNoticed ==
  /\ (pc = "decide" /\ ~ticked) =>
       /\ seen.run = runAge /\ seen.exit = exitAge /\ seen.stop = stopAge /\ lag = 0
  /\ (pc = "drain" /\ ~ticked) =>
       /\ stopAge < Cleanup
       /\ stopAge = Never => runAge < Timeout
  /\ pc \in {"start", "started"} => overdue = 0
  /\ OvertimeIsBounded
  /\ (InLoop /\ ~slow /\ stopAge = Never /\ overdue > 0) =>
       /\ overdue = 1 /\ ticked /\ runAge >= Timeout /\ pc # "drain"
       /\ pc = "decide" => seen.run >= Timeout
  /\ (InLoop /\ ~slow /\ stopAge # Never /\ overdue > 1) =>
       /\ overdue = 2 /\ ticked /\ stopAge >= Cleanup /\ pc # "drain"
       /\ pc = "decide" => seen.stop >= Cleanup

IInv ==
  /\ TypeOK /\ TreeIsOwned /\ ConfirmationIsLast /\ SampleIsPast /\ EndIsExplained
  /\ SignalsAreOrdered /\ OverdueIsNoticed

-----------------------------------------------------------------------------
(* One case for each action, on the platform that has it *)

Posix(A) == platform = "posix" /\ A /\ UNCHANGED jobVars
Nt(A) == platform = "nt" /\ A

LEMMA Cases ==
  ASSUME [BothNext]_allVars
  PROVE  \/ Posix(Start) \/ Posix(Started) \/ Posix(Sample) \/ Posix(Decide) \/ Posix(Drain)
         \/ Posix(Finally) \/ Posix(Late) \/ Posix(Leave) \/ Posix(CtrlC) \/ Posix(Tree)
         \/ Nt(Refuse) \/ Nt(StartStep) \/ Nt(StartFails) \/ Nt(WinStarted) \/ Nt(WinSample)
         \/ Nt(WinDecide) \/ Nt(WinDrain) \/ Nt(WinDisturbed) \/ Nt(WinFinally) \/ Nt(WinLeave)
         \/ Nt(JobTree) \/ BothTick \/ UNCHANGED allVars
  BY DEF BothNext, BothSupervise, Supervise, WinSupervise, Surroundings, Posix, Nt

\* Why a supervision stops, spelt out
LEMMA StopCauseIs ==
  ASSUME Numbers
  PROVE  /\ StopCause \in {"none", "timeout", "lingering_children"}
         /\ seen.run >= Timeout => StopCause = "timeout"
         /\ StopCause = "timeout" => seen.run >= Timeout
         /\ StopCause = "lingering_children" => seen.exited
<1>1. seen.run < Timeout <=> ~(seen.run >= Timeout)
  BY SupervisorAssumption DEF Numbers
<1>2. CASE seen.run >= Timeout
  BY <1>1, <1>2, Zenon DEF StopCause
<1>3. CASE ~(seen.run >= Timeout)
  BY <1>1, <1>3, Zenon DEF StopCause
<1> QED
  BY ONLY <1>2, <1>3

\* Only an age that has begun grows
LEMMA NeverGrows ==
  ASSUME Numbers
  PROVE  /\ Grow(stopAge, Cleanup) = Never <=> stopAge = Never
         /\ Grow(exitAge, Cleanup) = Never <=> exitAge = Never
  BY DEF Numbers, Grow, Never

\* The bounds are natural numbers, and Never is none
LEMMA Bounds == Cleanup \in Nat /\ Timeout \in Nat /\ Never < 0 /\ 0 < Cleanup /\ 0 # Never
  BY SupervisorAssumption DEF Cleanup, Never

LEMMA NamesKept ==
  ASSUME Numbers, Names, [BothNext]_allVars
  PROVE  Names'
<1> USE DEF Names, Steps, Loop, InLoop, Exited, Reaped, clock, tree, measure, jobVars,
     Quietly, Press, NoPress, Posix, Nt, StopReasons, Exits
<1>1. CASE Posix(Start)
  BY <1>1 DEF Start
<1>2. CASE Posix(Started)
  BY <1>2 DEF Started
<1>3. CASE Posix(Sample)
  BY <1>3 DEF Sample, Cancel, Finished, Gone
<1>4. CASE Posix(Decide)
  <2>1. /\ stop' = stop \/ stop' = StopCause \/ stop' = "cancelled"
        /\ pc' \in {"top", "finally", "drain"}
    BY <1>4 DEF Decide, Gone
  <2>2. /\ leader' = leader \/ leader' = "reaped"
        /\ UNCHANGED <<result, code, platform, job>>
    BY <1>4 DEF Decide, Gone
  <2>3. signals' \subseteq signals \cup {"TERM", "KILL"}
    BY <1>4 DEF Decide, Gone
  <2> QED
    BY <2>1, <2>2, <2>3, StopCauseIs
<1>5. CASE Posix(Drain)
  BY <1>5 DEF Drain, Cancel, PipesHeld
<1>6. CASE Posix(Finally)
  BY <1>6 DEF Finally
<1>7. CASE Posix(Late)
  BY <1>7 DEF Late
<1>8. CASE Posix(Leave)
  BY <1>8 DEF Leave
<1>9. CASE Posix(CtrlC)
  BY <1>9 DEF CtrlC
<1>10. CASE Posix(Tree)
  <2>1. CASE LeaderExits
    BY <1>10, <2>1 DEF Tree, LeaderExits
  <2>2. CASE Descend
    BY <1>10, <2>2 DEF Tree, Descend
  <2>3. CASE DescendantsEnd
    BY <1>10, <2>3 DEF Tree, DescendantsEnd
  <2> QED
    BY ONLY <1>10, <2>1, <2>2, <2>3 DEF Posix, Nt, Tree
<1>11. CASE Nt(Refuse)
  BY <1>11 DEF Refuse
<1>12. CASE Nt(StartStep)
  BY <1>12 DEF StartStep, MakeJob, CreateSuspended, Assign, Resume, Constructed
<1>13. CASE Nt(StartFails)
  BY <1>13 DEF StartFails, CloseJob, CloseCut
<1>14. CASE Nt(WinStarted)
  BY <1>14 DEF WinStarted, Escape, CancelNow, Break
<1>15. CASE Nt(WinSample)
  BY <1>15 DEF WinSample, JobEnded, Gone
<1>16. CASE Nt(WinDecide)
  <2>1. /\ stop' = stop \/ stop' = StopCause \/ stop' = "cancelled"
        /\ pc' \in {"top", "finally", "drain"}
    BY <1>16 DEF WinDecide, StopWith, Gone
  <2>2. /\ leader' = leader \/ leader' = "reaped"
        /\ UNCHANGED <<result, code, platform, job>>
    BY <1>16 DEF WinDecide, StopWith, Gone
  <2>3. signals' \subseteq signals \cup {"TERM", "KILL"}
    BY <1>16 DEF WinDecide, StopWith, Gone
  <2> QED
    BY <2>1, <2>2, <2>3, StopCauseIs
<1>17. CASE Nt(WinDrain)
  BY <1>17 DEF WinDrain, PipesHeld
<1>18. CASE Nt(WinDisturbed)
  BY <1>18 DEF WinDisturbed, Escape, CancelNow, Break
<1>19. CASE Nt(WinFinally)
  BY <1>19 DEF WinFinally, CloseJob, CloseCut
<1>20. CASE Nt(WinLeave)
  BY <1>20 DEF WinLeave
<1>21. CASE Nt(JobTree)
  <2>1. CASE LeaderExits
    BY <1>21, <2>1 DEF JobTree, LeaderExits
  <2>2. CASE Descend
    BY <1>21, <2>2 DEF JobTree, Descend
  <2>3. CASE DescendantsEnd
    BY <1>21, <2>3 DEF JobTree, DescendantsEnd
  <2> QED
    BY ONLY <1>21, <2>1, <2>2, <2>3 DEF Posix, Nt, JobTree
<1>22. CASE BothTick
  BY <1>22 DEF BothTick, Tick
<1>23. CASE UNCHANGED allVars
  BY <1>23 DEF allVars, vars
<1> QED
  BY ONLY Cases, [BothNext]_allVars, <1>1, <1>2, <1>3, <1>4, <1>5, <1>6, <1>7, <1>8, <1>9,
       <1>10, <1>11, <1>12, <1>13, <1>14, <1>15, <1>16, <1>17, <1>18, <1>19, <1>20, <1>21,
       <1>22, <1>23

LEMMA FlagsKept ==
  ASSUME Flags, [BothNext]_allVars
  PROVE  Flags'
<1> USE DEF Flags, Steps, Loop, InLoop, Exited, Reaped, clock, tree, measure, jobVars,
     Quietly, Press, NoPress, Posix, Nt
<1>1. CASE Posix(Start)
  BY <1>1 DEF Start
<1>2. CASE Posix(Started)
  BY <1>2 DEF Started
<1>3. CASE Posix(Sample)
  BY <1>3 DEF Sample, Cancel, Finished, Gone
<1>4. CASE Posix(Decide)
  BY <1>4 DEF Decide, Gone
<1>5. CASE Posix(Drain)
  BY <1>5 DEF Drain, Cancel, PipesHeld
<1>6. CASE Posix(Finally)
  BY <1>6 DEF Finally
<1>7. CASE Posix(Late)
  BY <1>7 DEF Late
<1>8. CASE Posix(Leave)
  BY <1>8 DEF Leave
<1>9. CASE Posix(CtrlC)
  BY <1>9 DEF CtrlC
<1>10. CASE Posix(Tree)
  <2>1. CASE LeaderExits
    BY <1>10, <2>1 DEF Tree, LeaderExits
  <2>2. CASE Descend
    BY <1>10, <2>2 DEF Tree, Descend
  <2>3. CASE DescendantsEnd
    BY <1>10, <2>3 DEF Tree, DescendantsEnd
  <2> QED
    BY ONLY <1>10, <2>1, <2>2, <2>3 DEF Posix, Nt, Tree
<1>11. CASE Nt(Refuse)
  BY <1>11 DEF Refuse
<1>12. CASE Nt(StartStep)
  BY <1>12 DEF StartStep, MakeJob, CreateSuspended, Assign, Resume, Constructed
<1>13. CASE Nt(StartFails)
  BY <1>13 DEF StartFails, CloseJob, CloseCut
<1>14. CASE Nt(WinStarted)
  BY <1>14 DEF WinStarted, Escape, CancelNow, Break
<1>15. CASE Nt(WinSample)
  BY <1>15 DEF WinSample, JobEnded, Gone
<1>16. CASE Nt(WinDecide)
  BY <1>16 DEF WinDecide, StopWith, Gone
<1>17. CASE Nt(WinDrain)
  BY <1>17 DEF WinDrain, PipesHeld
<1>18. CASE Nt(WinDisturbed)
  BY <1>18 DEF WinDisturbed, Escape, CancelNow, Break
<1>19. CASE Nt(WinFinally)
  BY <1>19 DEF WinFinally, CloseJob, CloseCut
<1>20. CASE Nt(WinLeave)
  BY <1>20 DEF WinLeave
<1>21. CASE Nt(JobTree)
  <2>1. CASE LeaderExits
    BY <1>21, <2>1 DEF JobTree, LeaderExits
  <2>2. CASE Descend
    BY <1>21, <2>2 DEF JobTree, Descend
  <2>3. CASE DescendantsEnd
    BY <1>21, <2>3 DEF JobTree, DescendantsEnd
  <2> QED
    BY ONLY <1>21, <2>1, <2>2, <2>3 DEF Posix, Nt, JobTree
<1>22. CASE BothTick
  BY <1>22 DEF BothTick, Tick
<1>23. CASE UNCHANGED allVars
  BY <1>23 DEF allVars, vars
<1> QED
  BY ONLY Cases, [BothNext]_allVars, <1>1, <1>2, <1>3, <1>4, <1>5, <1>6, <1>7, <1>8, <1>9,
       <1>10, <1>11, <1>12, <1>13, <1>14, <1>15, <1>16, <1>17, <1>18, <1>19, <1>20, <1>21,
       <1>22, <1>23

\* Most steps at most begin to stop, and press Ctrl+C at most once
QuietStep ==
  /\ UNCHANGED <<seen, runAge, exitAge, lag, overdue>>
  /\ stopAge' = stopAge \/ stopAge' = 0
  /\ presses' = presses \/ presses' = presses + 1

LEMMA QuietKeepsNumbers == ASSUME Numbers, QuietStep PROVE Numbers'
  BY DEF Numbers, QuietStep, Never

LEMMA NumbersKept ==
  ASSUME Numbers, [BothNext]_allVars
  PROVE  Numbers'
<1> USE DEF Numbers, Steps, Loop, InLoop, Exited, Reaped, clock, tree, measure, jobVars,
     Quietly, Press, NoPress, Posix, Nt
<1>1. CASE Posix(Start)
  BY <1>1, QuietKeepsNumbers, Zenon DEF QuietStep, Start
<1>2. CASE Posix(Started)
  BY <1>2, QuietKeepsNumbers, Zenon DEF QuietStep, Started
<1>3. CASE Posix(Sample)
  <2>1. UNCHANGED <<runAge, overdue, presses>> /\ lag' = 0
    BY <1>3 DEF Sample, Cancel, Finished, Gone
  <2>2. (exitAge' = exitAge \/ exitAge' = 0) /\ (stopAge' = stopAge \/ stopAge' = 0)
    BY <1>3 DEF Sample, Cancel, Finished, Gone
  <2>3. seen'.run = runAge /\ seen'.exit = exitAge' /\ seen'.stop = stopAge'
    BY <1>3 DEF Sample, Cancel, Finished, Gone
  <2> QED
    BY <2>1, <2>2, <2>3 DEF Never
<1>4. CASE Posix(Decide)
  <2>1. UNCHANGED <<seen, runAge, exitAge, lag, overdue>>
    BY <1>4 DEF Decide, Gone
  <2>2. stopAge' = stopAge \/ stopAge' = exitAge \/ stopAge' = lag
    BY <1>4 DEF Decide, Gone
  <2>3. presses' = presses \/ presses' = presses + 1
    BY <1>4 DEF Decide, Gone
  <2> QED
    BY <2>1, <2>2, <2>3 DEF Never
<1>5. CASE Posix(Drain)
  BY <1>5, QuietKeepsNumbers, Zenon DEF QuietStep, Drain, Cancel, PipesHeld
<1>6. CASE Posix(Finally)
  BY <1>6, QuietKeepsNumbers, Zenon DEF QuietStep, Finally
<1>7. CASE Posix(Late)
  BY <1>7, QuietKeepsNumbers, Zenon DEF QuietStep, Late
<1>8. CASE Posix(Leave)
  BY <1>8, QuietKeepsNumbers, Zenon DEF QuietStep, Leave
<1>9. CASE Posix(CtrlC)
  BY <1>9, QuietKeepsNumbers, Zenon DEF QuietStep, CtrlC
<1>10. CASE Posix(Tree)
  BY <1>10, QuietKeepsNumbers, Zenon DEF QuietStep, Tree
<1>11. CASE Nt(Refuse)
  BY <1>11, QuietKeepsNumbers, Zenon DEF QuietStep, Refuse
<1>12. CASE Nt(StartStep)
  BY <1>12, QuietKeepsNumbers, Zenon DEF QuietStep, StartStep, MakeJob, CreateSuspended,
       Assign, Resume, Constructed
<1>13. CASE Nt(StartFails)
  BY <1>13, QuietKeepsNumbers, Zenon DEF QuietStep, StartFails, CloseJob, CloseCut
<1>14. CASE Nt(WinStarted)
  BY <1>14, QuietKeepsNumbers, Zenon DEF QuietStep, WinStarted, Escape, CancelNow, Break
<1>15. CASE Nt(WinSample)
  <2>1. UNCHANGED <<runAge, overdue, presses>> /\ lag' = 0
    BY <1>15 DEF WinSample, JobEnded, Gone
  <2>2. (exitAge' = exitAge \/ exitAge' = 0) /\ (stopAge' = stopAge \/ stopAge' = 0)
    BY <1>15 DEF WinSample, JobEnded, Gone
  <2>3. seen'.run = runAge /\ seen'.exit = exitAge' /\ seen'.stop = stopAge'
    BY <1>15 DEF WinSample, JobEnded, Gone
  <2> QED
    BY <2>1, <2>2, <2>3 DEF Never
<1>16. CASE Nt(WinDecide)
  <2>1. UNCHANGED <<seen, runAge, exitAge, lag, overdue>>
    BY <1>16 DEF WinDecide, StopWith, Gone
  <2>2. stopAge' = stopAge \/ stopAge' = exitAge \/ stopAge' = lag
    BY <1>16 DEF WinDecide, StopWith, Gone
  <2>3. presses' = presses \/ presses' = presses + 1
    BY <1>16 DEF WinDecide, StopWith, Gone
  <2> QED
    BY <2>1, <2>2, <2>3 DEF Never
<1>17. CASE Nt(WinDrain)
  BY <1>17, QuietKeepsNumbers, Zenon DEF QuietStep, WinDrain, PipesHeld
<1>18. CASE Nt(WinDisturbed)
  BY <1>18, QuietKeepsNumbers, Zenon DEF QuietStep, WinDisturbed, Escape, CancelNow, Break
<1>19. CASE Nt(WinFinally)
  BY <1>19, QuietKeepsNumbers, Zenon DEF QuietStep, WinFinally, CloseJob, CloseCut
<1>20. CASE Nt(WinLeave)
  BY <1>20, QuietKeepsNumbers, Zenon DEF QuietStep, WinLeave
<1>21. CASE Nt(JobTree)
  BY <1>21, QuietKeepsNumbers, Zenon DEF QuietStep, JobTree
<1>22. CASE BothTick
  <2>1. UNCHANGED <<seen, presses>>
    BY <1>22 DEF BothTick, Tick
  <2>2. /\ runAge' = Grow(runAge, Timeout) /\ exitAge' = Grow(exitAge, Cleanup)
        /\ stopAge' = Grow(stopAge, Cleanup) /\ lag' = Grow(lag, Cleanup)
    BY <1>22 DEF BothTick, Tick
  <2>3. overdue' = overdue \/ overdue' = overdue + 1
    BY <1>22 DEF BothTick, Tick
  <2>4. runAge' \in Nat /\ lag' \in Nat
    BY <2>2 DEF Grow, Never
  <2>5. exitAge' \in Nat \cup {Never} /\ stopAge' \in Nat \cup {Never}
    BY <2>2 DEF Grow, Never
  <2> QED
    BY <2>1, <2>3, <2>4, <2>5
<1>23. CASE UNCHANGED allVars
  BY <1>23, QuietKeepsNumbers, Zenon DEF QuietStep, allVars, vars
<1> QED
  BY ONLY Cases, [BothNext]_allVars, <1>1, <1>2, <1>3, <1>4, <1>5, <1>6, <1>7, <1>8, <1>9,
       <1>10, <1>11, <1>12, <1>13, <1>14, <1>15, <1>16, <1>17, <1>18, <1>19, <1>20, <1>21,
       <1>22, <1>23

LEMMA TreeKept ==
  ASSUME Numbers, ConfirmationIsLast, TreeIsOwned, [BothNext]_allVars
  PROVE  TreeIsOwned'
<1> USE DEF ConfirmationIsLast, TreeIsOwned, Steps, Loop, InLoop, Exited, Reaped, clock, tree,
     measure, jobVars, Quietly, Press, NoPress, Posix, Nt
<1>1. CASE Posix(Start)
  BY <1>1 DEF Start
<1>2. CASE Posix(Started)
  BY <1>2 DEF Started
<1>3. CASE Posix(Sample)
  BY <1>3 DEF Sample, Cancel, Finished, Gone
<1>4. CASE Posix(Decide)
  BY <1>4, StopCauseIs DEF Decide, Gone
<1>5. CASE Posix(Drain)
  BY <1>5 DEF Drain, Cancel, PipesHeld
<1>6. CASE Posix(Finally)
  BY <1>6 DEF Finally
<1>7. CASE Posix(Late)
  BY <1>7 DEF Late
<1>8. CASE Posix(Leave)
  BY <1>8 DEF Leave
<1>9. CASE Posix(CtrlC)
  BY <1>9 DEF CtrlC
<1>10. CASE Posix(Tree)
  <2>1. CASE LeaderExits
    BY <1>10, <2>1 DEF Tree, LeaderExits
  <2>2. CASE Descend
    BY <1>10, <2>2 DEF Tree, Descend
  <2>3. CASE DescendantsEnd
    BY <1>10, <2>3 DEF Tree, DescendantsEnd
  <2> QED
    BY ONLY <1>10, <2>1, <2>2, <2>3 DEF Posix, Nt, Tree
<1>11. CASE Nt(Refuse)
  BY <1>11 DEF Refuse
<1>12. CASE Nt(StartStep)
  BY <1>12 DEF StartStep, MakeJob, CreateSuspended, Assign, Resume, Constructed
<1>13. CASE Nt(StartFails)
  BY <1>13 DEF StartFails, CloseJob, CloseCut
<1>14. CASE Nt(WinStarted)
  BY <1>14 DEF WinStarted, Escape, CancelNow, Break
<1>15. CASE Nt(WinSample)
  BY <1>15 DEF WinSample, JobEnded, Gone
<1>16. CASE Nt(WinDecide)
  BY <1>16, StopCauseIs DEF WinDecide, StopWith, Gone
<1>17. CASE Nt(WinDrain)
  BY <1>17 DEF WinDrain, PipesHeld
<1>18. CASE Nt(WinDisturbed)
  BY <1>18 DEF WinDisturbed, Escape, CancelNow, Break
<1>19. CASE Nt(WinFinally)
  BY <1>19 DEF WinFinally, CloseJob, CloseCut
<1>20. CASE Nt(WinLeave)
  BY <1>20 DEF WinLeave
<1>21. CASE Nt(JobTree)
  <2>1. CASE LeaderExits
    BY <1>21, <2>1 DEF JobTree, LeaderExits
  <2>2. CASE Descend
    BY <1>21, <2>2 DEF JobTree, Descend
  <2>3. CASE DescendantsEnd
    BY <1>21, <2>3 DEF JobTree, DescendantsEnd
  <2> QED
    BY ONLY <1>21, <2>1, <2>2, <2>3 DEF Posix, Nt, JobTree
<1>22. CASE BothTick
  BY <1>22 DEF BothTick, Tick
<1>23. CASE UNCHANGED allVars
  BY <1>23 DEF allVars, vars
<1> QED
  BY ONLY Cases, [BothNext]_allVars, <1>1, <1>2, <1>3, <1>4, <1>5, <1>6, <1>7, <1>8, <1>9,
       <1>10, <1>11, <1>12, <1>13, <1>14, <1>15, <1>16, <1>17, <1>18, <1>19, <1>20, <1>21,
       <1>22, <1>23

LEMMA ConfirmationKept ==
  ASSUME Numbers, TreeIsOwned, EndIsExplained, ConfirmationIsLast, [BothNext]_allVars
  PROVE  ConfirmationIsLast'
<1> USE DEF TreeIsOwned, EndIsExplained, ConfirmationIsLast, Steps, Loop, InLoop, Exited,
     Reaped, clock, tree, measure, jobVars, Quietly, Press, NoPress, Posix, Nt
<1>1. CASE Posix(Start)
  BY <1>1 DEF Start
<1>2. CASE Posix(Started)
  BY <1>2 DEF Started
<1>3. CASE Posix(Sample)
  BY <1>3 DEF Sample, Cancel, Finished, Gone
<1>4. CASE Posix(Decide)
  BY <1>4, StopCauseIs DEF Decide, Gone
<1>5. CASE Posix(Drain)
  BY <1>5 DEF Drain, Cancel, PipesHeld
<1>6. CASE Posix(Finally)
  BY <1>6 DEF Finally
<1>7. CASE Posix(Late)
  BY <1>7 DEF Late
<1>8. CASE Posix(Leave)
  BY <1>8 DEF Leave
<1>9. CASE Posix(CtrlC)
  BY <1>9 DEF CtrlC
<1>10. CASE Posix(Tree)
  <2>1. CASE LeaderExits
    BY <1>10, <2>1 DEF Tree, LeaderExits
  <2>2. CASE Descend
    BY <1>10, <2>2 DEF Tree, Descend
  <2>3. CASE DescendantsEnd
    BY <1>10, <2>3 DEF Tree, DescendantsEnd
  <2> QED
    BY ONLY <1>10, <2>1, <2>2, <2>3 DEF Posix, Nt, Tree
<1>11. CASE Nt(Refuse)
  BY <1>11 DEF Refuse
<1>12. CASE Nt(StartStep)
  BY <1>12 DEF StartStep, MakeJob, CreateSuspended, Assign, Resume, Constructed
<1>13. CASE Nt(StartFails)
  BY <1>13 DEF StartFails, CloseJob, CloseCut
<1>14. CASE Nt(WinStarted)
  BY <1>14 DEF WinStarted, Escape, CancelNow, Break
<1>15. CASE Nt(WinSample)
  BY <1>15 DEF WinSample, JobEnded, Gone
<1>16. CASE Nt(WinDecide)
  <2>1. /\ pc = "decide" /\ platform = "nt"
        /\ UNCHANGED <<error, drained, result, code, job, others, escaped, platform>>
    BY <1>16, Zenon DEF WinDecide
  <2>2. CASE stopAge = Never /\ StopCause # "none"
    <3>1. /\ stop' \in {StopCause, "cancelled"}
          /\ stopAge' = IF StopCause = "lingering_children" THEN exitAge ELSE lag
      BY <1>16, <2>2, Zenon DEF WinDecide, StopWith
    <3>2. \/ pc' \in {"top", "drain"} /\ UNCHANGED <<leader, confirmed>>
          \/ pc' = "finally" /\ (confirmed' => Gone) /\ leader' = Reaped
      BY <1>16, <2>2, Zenon DEF WinDecide, Reaped
    <3> QED
      BY <2>1, <2>2, <3>1, <3>2, StopCauseIs DEF Gone, Numbers, Never
  <2>3. CASE ~(stopAge = Never /\ StopCause # "none")
    <3>1. UNCHANGED <<stop, stopAge>>
      BY <1>16, <2>3, Zenon DEF WinDecide
    <3>2. \/ pc' \in {"top", "drain"} /\ UNCHANGED <<leader, confirmed>>
          \/ /\ pc' = "finally" /\ (confirmed' => Gone) /\ leader' = Reaped
             /\ seen.stop >= Cleanup
      BY <1>16, <2>3, Zenon DEF WinDecide, Reaped
    <3>3. seen.stop >= Cleanup => seen.stop # Never
      BY SupervisorAssumption DEF Numbers, Never, Cleanup
    <3> QED
      BY <2>1, <2>3, <3>1, <3>2, <3>3, StopCauseIs DEF Gone
  <2> QED
    BY ONLY <2>2, <2>3
<1>17. CASE Nt(WinDrain)
  BY <1>17 DEF WinDrain, PipesHeld
<1>18. CASE Nt(WinDisturbed)
  BY <1>18 DEF WinDisturbed, Escape, CancelNow, Break
<1>19. CASE Nt(WinFinally)
  BY <1>19 DEF WinFinally, CloseJob, CloseCut
<1>20. CASE Nt(WinLeave)
  BY <1>20 DEF WinLeave
<1>21. CASE Nt(JobTree)
  <2>1. CASE LeaderExits
    BY <1>21, <2>1 DEF JobTree, LeaderExits
  <2>2. CASE Descend
    BY <1>21, <2>2 DEF JobTree, Descend
  <2>3. CASE DescendantsEnd
    BY <1>21, <2>3 DEF JobTree, DescendantsEnd
  <2> QED
    BY ONLY <1>21, <2>1, <2>2, <2>3 DEF Posix, Nt, JobTree
<1>22. CASE BothTick
  BY <1>22 DEF BothTick, Tick
<1>23. CASE UNCHANGED allVars
  BY <1>23 DEF allVars, vars
<1> QED
  BY ONLY Cases, [BothNext]_allVars, <1>1, <1>2, <1>3, <1>4, <1>5, <1>6, <1>7, <1>8, <1>9,
       <1>10, <1>11, <1>12, <1>13, <1>14, <1>15, <1>16, <1>17, <1>18, <1>19, <1>20, <1>21,
       <1>22, <1>23

LEMMA SampleKept ==
  ASSUME Numbers, SampleIsPast, [BothNext]_allVars
  PROVE  SampleIsPast'
<1> USE DEF SampleIsPast, Steps, Loop, InLoop, Exited, Reaped, clock, tree, measure, jobVars,
     Quietly, Press, NoPress, Posix, Nt
<1>1. CASE Posix(Start)
  BY <1>1 DEF Start
<1>2. CASE Posix(Started)
  BY <1>2 DEF Started
<1>3. CASE Posix(Sample)
  <2>1. seen'.stop = stopAge' /\ (seen'.exited => Exited)
    BY <1>3, Zenon DEF Sample, Cancel, Finished, Gone
  <2>2. Exited => exitAge' = 0 \/ (exitAge # Never /\ exitAge' = exitAge)
    BY <1>3, Zenon DEF Sample, Cancel, Finished, Gone
  <2>3. 0 # Never
    BY DEF Never
  <2> QED
    BY <2>1, <2>2, <2>3, Zenon
<1>4. CASE Posix(Decide)
  BY <1>4 DEF Decide, Gone
<1>5. CASE Posix(Drain)
  BY <1>5 DEF Drain, Cancel, PipesHeld
<1>6. CASE Posix(Finally)
  BY <1>6 DEF Finally
<1>7. CASE Posix(Late)
  BY <1>7 DEF Late
<1>8. CASE Posix(Leave)
  BY <1>8 DEF Leave
<1>9. CASE Posix(CtrlC)
  BY <1>9 DEF CtrlC
<1>10. CASE Posix(Tree)
  <2>1. CASE LeaderExits
    BY <1>10, <2>1 DEF Tree, LeaderExits
  <2>2. CASE Descend
    BY <1>10, <2>2 DEF Tree, Descend
  <2>3. CASE DescendantsEnd
    BY <1>10, <2>3 DEF Tree, DescendantsEnd
  <2> QED
    BY ONLY <1>10, <2>1, <2>2, <2>3 DEF Posix, Nt, Tree
<1>11. CASE Nt(Refuse)
  BY <1>11 DEF Refuse
<1>12. CASE Nt(StartStep)
  BY <1>12 DEF StartStep, MakeJob, CreateSuspended, Assign, Resume, Constructed
<1>13. CASE Nt(StartFails)
  BY <1>13 DEF StartFails, CloseJob, CloseCut
<1>14. CASE Nt(WinStarted)
  BY <1>14 DEF WinStarted, Escape, CancelNow, Break
<1>15. CASE Nt(WinSample)
  <2>1. seen'.stop = stopAge' /\ (seen'.exited => Exited)
    BY <1>15, Zenon DEF WinSample, JobEnded, Gone
  <2>2. Exited => exitAge' = 0 \/ (exitAge # Never /\ exitAge' = exitAge)
    BY <1>15, Zenon DEF WinSample, JobEnded, Gone
  <2>3. 0 # Never
    BY DEF Never
  <2> QED
    BY <2>1, <2>2, <2>3, Zenon
<1>16. CASE Nt(WinDecide)
  BY <1>16 DEF WinDecide, StopWith, Gone
<1>17. CASE Nt(WinDrain)
  BY <1>17 DEF WinDrain, PipesHeld
<1>18. CASE Nt(WinDisturbed)
  BY <1>18 DEF WinDisturbed, Escape, CancelNow, Break
<1>19. CASE Nt(WinFinally)
  BY <1>19 DEF WinFinally, CloseJob, CloseCut
<1>20. CASE Nt(WinLeave)
  BY <1>20 DEF WinLeave
<1>21. CASE Nt(JobTree)
  <2>1. CASE LeaderExits
    BY <1>21, <2>1 DEF JobTree, LeaderExits
  <2>2. CASE Descend
    BY <1>21, <2>2 DEF JobTree, Descend
  <2>3. CASE DescendantsEnd
    BY <1>21, <2>3 DEF JobTree, DescendantsEnd
  <2> QED
    BY ONLY <1>21, <2>1, <2>2, <2>3 DEF Posix, Nt, JobTree
<1>22. CASE BothTick
  BY <1>22, NeverGrows DEF BothTick, Tick
<1>23. CASE UNCHANGED allVars
  BY <1>23 DEF allVars, vars
<1> QED
  BY ONLY Cases, [BothNext]_allVars, <1>1, <1>2, <1>3, <1>4, <1>5, <1>6, <1>7, <1>8, <1>9,
       <1>10, <1>11, <1>12, <1>13, <1>14, <1>15, <1>16, <1>17, <1>18, <1>19, <1>20, <1>21,
       <1>22, <1>23

LEMMA EndKept ==
  ASSUME Numbers, TreeIsOwned, ConfirmationIsLast, SampleIsPast, EndIsExplained, [BothNext]_allVars
  PROVE  EndIsExplained'
<1> USE DEF TreeIsOwned, ConfirmationIsLast, SampleIsPast, EndIsExplained, Steps, Loop,
     InLoop, Exited, Reaped, clock, tree, measure, jobVars, Quietly, Press, NoPress, Posix, Nt
<1>1. CASE Posix(Start)
  BY <1>1 DEF Start
<1>2. CASE Posix(Started)
  BY <1>2 DEF Started
<1>3. CASE Posix(Sample)
  BY <1>3 DEF Sample, Cancel, Finished, Gone
<1>4. CASE Posix(Decide)
  BY <1>4, StopCauseIs DEF Decide, Gone
<1>5. CASE Posix(Drain)
  BY <1>5 DEF Drain, Cancel, PipesHeld
<1>6. CASE Posix(Finally)
  BY <1>6 DEF Finally
<1>7. CASE Posix(Late)
  BY <1>7 DEF Late
<1>8. CASE Posix(Leave)
  BY <1>8 DEF Leave
<1>9. CASE Posix(CtrlC)
  BY <1>9 DEF CtrlC
<1>10. CASE Posix(Tree)
  <2>1. CASE LeaderExits
    BY <1>10, <2>1 DEF Tree, LeaderExits
  <2>2. CASE Descend
    BY <1>10, <2>2 DEF Tree, Descend
  <2>3. CASE DescendantsEnd
    BY <1>10, <2>3 DEF Tree, DescendantsEnd
  <2> QED
    BY ONLY <1>10, <2>1, <2>2, <2>3 DEF Posix, Nt, Tree
<1>11. CASE Nt(Refuse)
  BY <1>11 DEF Refuse
<1>12. CASE Nt(StartStep)
  BY <1>12 DEF StartStep, MakeJob, CreateSuspended, Assign, Resume, Constructed
<1>13. CASE Nt(StartFails)
  BY <1>13 DEF StartFails, CloseJob, CloseCut
<1>14. CASE Nt(WinStarted)
  BY <1>14 DEF WinStarted, Escape, CancelNow, Break
<1>15. CASE Nt(WinSample)
  BY <1>15 DEF WinSample, JobEnded, Gone
<1>16. CASE Nt(WinDecide)
  <2>1. /\ pc = "decide" /\ platform = "nt"
        /\ UNCHANGED <<error, drained, result, code, job, others, escaped, platform>>
    BY <1>16, Zenon DEF WinDecide
  <2>2. CASE stopAge = Never /\ StopCause # "none"
    <3>1. /\ stop' \in {StopCause, "cancelled"}
          /\ stopAge' = IF StopCause = "lingering_children" THEN exitAge ELSE lag
      BY <1>16, <2>2, Zenon DEF WinDecide, StopWith
    <3>2. \/ pc' \in {"top", "drain"} /\ UNCHANGED <<leader, confirmed>>
          \/ pc' = "finally" /\ (confirmed' => Gone) /\ leader' = Reaped
      BY <1>16, <2>2, Zenon DEF WinDecide, Reaped
    <3> QED
      BY <2>1, <2>2, <3>1, <3>2, StopCauseIs DEF Gone, Numbers, Never
  <2>3. CASE ~(stopAge = Never /\ StopCause # "none")
    <3>1. UNCHANGED <<stop, stopAge>>
      BY <1>16, <2>3, Zenon DEF WinDecide
    <3>2. \/ pc' \in {"top", "drain"} /\ UNCHANGED <<leader, confirmed>>
          \/ /\ pc' = "finally" /\ (confirmed' => Gone) /\ leader' = Reaped
             /\ seen.stop >= Cleanup
      BY <1>16, <2>3, Zenon DEF WinDecide, Reaped
    <3>3. seen.stop >= Cleanup => seen.stop # Never
      BY SupervisorAssumption DEF Numbers, Never, Cleanup
    <3> QED
      BY <2>1, <2>3, <3>1, <3>2, <3>3, StopCauseIs DEF Gone
  <2> QED
    BY ONLY <2>2, <2>3
<1>17. CASE Nt(WinDrain)
  BY <1>17 DEF WinDrain, PipesHeld
<1>18. CASE Nt(WinDisturbed)
  BY <1>18 DEF WinDisturbed, Escape, CancelNow, Break
<1>19. CASE Nt(WinFinally)
  BY <1>19 DEF WinFinally, CloseJob, CloseCut
<1>20. CASE Nt(WinLeave)
  BY <1>20 DEF WinLeave
<1>21. CASE Nt(JobTree)
  <2>1. CASE LeaderExits
    BY <1>21, <2>1 DEF JobTree, LeaderExits
  <2>2. CASE Descend
    BY <1>21, <2>2 DEF JobTree, Descend
  <2>3. CASE DescendantsEnd
    BY <1>21, <2>3 DEF JobTree, DescendantsEnd
  <2> QED
    BY ONLY <1>21, <2>1, <2>2, <2>3 DEF Posix, Nt, JobTree
<1>22. CASE BothTick
  BY <1>22, NeverGrows DEF BothTick, Tick
<1>23. CASE UNCHANGED allVars
  BY <1>23 DEF allVars, vars
<1> QED
  BY ONLY Cases, [BothNext]_allVars, <1>1, <1>2, <1>3, <1>4, <1>5, <1>6, <1>7, <1>8, <1>9,
       <1>10, <1>11, <1>12, <1>13, <1>14, <1>15, <1>16, <1>17, <1>18, <1>19, <1>20, <1>21,
       <1>22, <1>23

LEMMA SignalsKept ==
  ASSUME Names, Numbers, TreeIsOwned, ConfirmationIsLast, EndIsExplained,
         SignalsAreOrdered, [BothNext]_allVars
  PROVE  SignalsAreOrdered'
<1> USE DEF Names, TreeIsOwned, ConfirmationIsLast, EndIsExplained, SignalsAreOrdered, Steps,
     Loop, InLoop, Exited, Reaped, clock, tree, measure, jobVars, Quietly, Press, NoPress,
     Posix, Nt
<1>1. CASE Posix(Start)
  BY <1>1 DEF Start
<1>2. CASE Posix(Started)
  BY <1>2 DEF Started
<1>3. CASE Posix(Sample)
  BY <1>3 DEF Sample, Cancel, Finished, Gone
<1>4. CASE Posix(Decide)
  BY <1>4, StopCauseIs DEF Decide, Gone
<1>5. CASE Posix(Drain)
  BY <1>5 DEF Drain, Cancel, PipesHeld
<1>6. CASE Posix(Finally)
  <2>1. /\ pc = "finally" /\ platform = "posix" /\ pc' \in {"done", "late"}
        /\ UNCHANGED <<stop, stopAge, confirmed, result, platform, interrupts>>
    BY <1>6, Zenon DEF Finally
  <2>2. confirmed \/ signals' = signals \cup {"KILL"}
    BY <1>6, Zenon DEF Finally
  <2>3. signals \subseteq signals'
    BY <1>6 DEF Finally
  <2>4. pc' = "late" => result = "none"
    BY <1>6, Zenon DEF Finally
  <2> QED
    BY <2>1, <2>2, <2>3, <2>4 DEF Names
<1>7. CASE Posix(Late)
  BY <1>7 DEF Late
<1>8. CASE Posix(Leave)
  BY <1>8 DEF Leave
<1>9. CASE Posix(CtrlC)
  BY <1>9 DEF CtrlC
<1>10. CASE Posix(Tree)
  <2>1. CASE LeaderExits
    BY <1>10, <2>1 DEF Tree, LeaderExits
  <2>2. CASE Descend
    BY <1>10, <2>2 DEF Tree, Descend
  <2>3. CASE DescendantsEnd
    BY <1>10, <2>3 DEF Tree, DescendantsEnd
  <2> QED
    BY ONLY <1>10, <2>1, <2>2, <2>3 DEF Posix, Nt, Tree
<1>11. CASE Nt(Refuse)
  BY <1>11 DEF Refuse
<1>12. CASE Nt(StartStep)
  BY <1>12 DEF StartStep, MakeJob, CreateSuspended, Assign, Resume, Constructed
<1>13. CASE Nt(StartFails)
  BY <1>13 DEF StartFails, CloseJob, CloseCut
<1>14. CASE Nt(WinStarted)
  BY <1>14 DEF WinStarted, Escape, CancelNow, Break
<1>15. CASE Nt(WinSample)
  BY <1>15 DEF WinSample, JobEnded, Gone
<1>16. CASE Nt(WinDecide)
  BY <1>16, StopCauseIs DEF WinDecide, StopWith, Gone
<1>17. CASE Nt(WinDrain)
  BY <1>17 DEF WinDrain, PipesHeld
<1>18. CASE Nt(WinDisturbed)
  BY <1>18 DEF WinDisturbed, Escape, CancelNow, Break
<1>19. CASE Nt(WinFinally)
  BY <1>19 DEF WinFinally, CloseJob, CloseCut
<1>20. CASE Nt(WinLeave)
  BY <1>20 DEF WinLeave
<1>21. CASE Nt(JobTree)
  <2>1. CASE LeaderExits
    BY <1>21, <2>1 DEF JobTree, LeaderExits
  <2>2. CASE Descend
    BY <1>21, <2>2 DEF JobTree, Descend
  <2>3. CASE DescendantsEnd
    BY <1>21, <2>3 DEF JobTree, DescendantsEnd
  <2> QED
    BY ONLY <1>21, <2>1, <2>2, <2>3 DEF Posix, Nt, JobTree
<1>22. CASE BothTick
  BY <1>22, NeverGrows DEF BothTick, Tick
<1>23. CASE UNCHANGED allVars
  BY <1>23 DEF allVars, vars
<1> QED
  BY ONLY Cases, [BothNext]_allVars, <1>1, <1>2, <1>3, <1>4, <1>5, <1>6, <1>7, <1>8, <1>9,
       <1>10, <1>11, <1>12, <1>13, <1>14, <1>15, <1>16, <1>17, <1>18, <1>19, <1>20, <1>21,
       <1>22, <1>23

LEMMA OverdueKept ==
  ASSUME Numbers, SampleIsPast, EndIsExplained, OverdueIsNoticed, [BothNext]_allVars
  PROVE  OverdueIsNoticed'
<1> USE DEF SampleIsPast, EndIsExplained, OverdueIsNoticed, Steps, Loop, InLoop, Exited,
     Reaped, clock, tree, measure, jobVars, Quietly, Press, NoPress, Posix, Nt,
     OvertimeIsBounded
<1>1. CASE Posix(Start)
  BY <1>1 DEF Start
<1>2. CASE Posix(Started)
  BY <1>2 DEF Started
<1>3. CASE Posix(Sample)
  <2>1. /\ pc = "top" /\ pc' \in {"finally", "decide"}
        /\ UNCHANGED <<runAge, measure>> /\ lag' = 0
    BY <1>3, Zenon DEF Sample
  <2>2. stopAge' = stopAge \/ (stopAge = Never /\ stopAge' = 0)
    BY <1>3, Zenon DEF Sample, Cancel
  <2>3. seen'.run = runAge /\ seen'.exit = exitAge' /\ seen'.stop = stopAge'
    BY <1>3, Zenon DEF Sample
  <2> QED
    BY <2>1, <2>2, <2>3, Bounds DEF Numbers
<1>4. CASE Posix(Decide)
  <2>1. pc = "decide" /\ pc' \in {"top", "drain", "finally"} /\ UNCHANGED <<runAge, measure>>
    BY <1>4, Zenon DEF Decide
  <2>2. CASE stopAge = Never /\ StopCause # "none"
    <3>1. StopCause = "lingering_children" => exitAge # Never
      BY <2>1, StopCauseIs, Zenon
    <3>2. stopAge' = IF StopCause = "lingering_children" THEN exitAge ELSE lag
      BY <1>4, <2>2, Zenon DEF Decide
    <3>3. (pc' = "drain" /\ StopCause = "lingering_children") => ~(seen.exit >= Cleanup)
      BY <1>4, <2>2, <3>1, <3>2, Zenon DEF Decide
    <3> QED
      BY <2>1, <2>2, <3>1, <3>2, <3>3, Bounds DEF Numbers
  <2>3. CASE ~(stopAge = Never /\ StopCause # "none")
    <3>1. stopAge' = stopAge /\ pc' # "top"
      BY <1>4, <2>3, Zenon DEF Decide
    <3>2. pc' = "drain" => stopAge = Never \/ ~(seen.stop >= Cleanup)
      BY <1>4, <2>3, <3>1, Zenon DEF Decide
    <3>3. stopAge = Never => ~(seen.run >= Timeout)
      BY <2>3, StopCauseIs, Zenon
    <3> QED
      BY <2>1, <3>1, <3>2, <3>3, Bounds DEF Numbers, Never
  <2> QED
    BY ONLY <2>2, <2>3
<1>5. CASE Posix(Drain)
  <2>1. pc = "drain" /\ pc' \in {"top", "finally"} /\ UNCHANGED <<slow, overdue>>
    BY <1>5, Zenon DEF Drain, Cancel
  <2>2. stopAge' = stopAge \/ stopAge = Never
    BY <1>5, Zenon DEF Drain, Cancel
  <2> QED
    BY <2>1, <2>2, Bounds DEF Numbers
<1>6. CASE Posix(Finally)
  BY <1>6 DEF Finally
<1>7. CASE Posix(Late)
  BY <1>7 DEF Late
<1>8. CASE Posix(Leave)
  BY <1>8 DEF Leave
<1>9. CASE Posix(CtrlC)
  BY <1>9 DEF CtrlC
<1>10. CASE Posix(Tree)
  <2>1. CASE LeaderExits
    BY <1>10, <2>1 DEF Tree, LeaderExits
  <2>2. CASE Descend
    BY <1>10, <2>2 DEF Tree, Descend
  <2>3. CASE DescendantsEnd
    BY <1>10, <2>3 DEF Tree, DescendantsEnd
  <2> QED
    BY ONLY <1>10, <2>1, <2>2, <2>3 DEF Posix, Nt, Tree
<1>11. CASE Nt(Refuse)
  BY <1>11 DEF Refuse
<1>12. CASE Nt(StartStep)
  BY <1>12 DEF StartStep, MakeJob, CreateSuspended, Assign, Resume, Constructed
<1>13. CASE Nt(StartFails)
  BY <1>13 DEF StartFails, CloseJob, CloseCut
<1>14. CASE Nt(WinStarted)
  BY <1>14 DEF WinStarted, Escape, CancelNow, Break
<1>15. CASE Nt(WinSample)
  BY <1>15 DEF WinSample, JobEnded, Gone
<1>16. CASE Nt(WinDecide)
  <2>1. pc = "decide" /\ pc' \in {"top", "drain", "finally"} /\ UNCHANGED <<runAge, measure>>
    BY <1>16, Zenon DEF WinDecide, StopWith
  <2>2. CASE stopAge = Never /\ StopCause # "none"
    <3>1. StopCause = "lingering_children" => exitAge # Never
      BY <2>1, StopCauseIs, Zenon
    <3>2. stopAge' = IF StopCause = "lingering_children" THEN exitAge ELSE lag
      BY <1>16, <2>2, Zenon DEF WinDecide, StopWith
    <3>3. (pc' = "drain" /\ StopCause = "lingering_children") => seen.exit < Cleanup
      BY <1>16, <2>2, <3>1, <3>2, Zenon DEF WinDecide, StopWith
    <3> QED
      BY <2>1, <2>2, <3>1, <3>2, <3>3, Bounds DEF Numbers
  <2>3. CASE ~(stopAge = Never /\ StopCause # "none")
    <3>1. stopAge' = stopAge /\ pc' # "top"
      BY <1>16, <2>3, Zenon DEF WinDecide, StopWith
    <3>2. pc' = "drain" => stopAge = Never \/ seen.stop < Cleanup
      BY <1>16, <2>3, <3>1, Zenon DEF WinDecide, StopWith
    <3>3. stopAge = Never => ~(seen.run >= Timeout)
      BY <2>3, StopCauseIs, Zenon
    <3> QED
      BY <2>1, <3>1, <3>2, <3>3, Bounds DEF Numbers, Never
  <2> QED
    BY ONLY <2>2, <2>3
<1>17. CASE Nt(WinDrain)
  BY <1>17 DEF WinDrain, PipesHeld
<1>18. CASE Nt(WinDisturbed)
  <2>1. InLoop /\ pc' \in {"top", "finally"} /\ UNCHANGED <<runAge, measure>>
    BY <1>18, Zenon DEF WinDisturbed, Escape, CancelNow, Break
  <2>2. stopAge' = stopAge \/ (stopAge = Never /\ stopAge' = 0)
    BY <1>18, Zenon DEF WinDisturbed, Escape, CancelNow, Break
  <2>3. pc' = "top" => stopAge' # Never
    BY <1>18, Bounds, Zenon DEF WinDisturbed, Escape, CancelNow, Break
  <2> QED
    BY <2>1, <2>2, <2>3, Bounds DEF Numbers
<1>19. CASE Nt(WinFinally)
  BY <1>19 DEF WinFinally, CloseJob, CloseCut
<1>20. CASE Nt(WinLeave)
  BY <1>20 DEF WinLeave
<1>21. CASE Nt(JobTree)
  <2>1. CASE LeaderExits
    BY <1>21, <2>1 DEF JobTree, LeaderExits
  <2>2. CASE Descend
    BY <1>21, <2>2 DEF JobTree, Descend
  <2>3. CASE DescendantsEnd
    BY <1>21, <2>3 DEF JobTree, DescendantsEnd
  <2> QED
    BY ONLY <1>21, <2>1, <2>2, <2>3 DEF Posix, Nt, JobTree
<1>22. CASE BothTick
  <2>1. InLoop /\ UNCHANGED <<pc, seen>> /\ ticked' /\ (slow' <=> slow \/ ticked)
    BY <1>22, Zenon DEF BothTick, Tick
  <2>2. (overdue' = overdue /\ (~AtBound \/ ~(overdue < 3))) \/ (overdue' = overdue + 1 /\ AtBound)
    BY <1>22, Zenon DEF BothTick, Tick
  <2>3. /\ runAge' = Grow(runAge, Timeout) /\ stopAge' = Grow(stopAge, Cleanup)
    BY <1>22, Zenon DEF BothTick, Tick
  <2>4. /\ runAge' >= runAge /\ stopAge' >= stopAge /\ runAge' \in Nat
        /\ stopAge' \in Nat \cup {Never} /\ (stopAge' = Never <=> stopAge = Never)
    BY <2>3, Bounds DEF Numbers, Grow, Never
  <2> QED
    BY <2>1, <2>2, <2>4, Bounds DEF Numbers, AtBound, Never
<1>23. CASE UNCHANGED allVars
  BY <1>23 DEF allVars, vars
<1> QED
  BY ONLY Cases, [BothNext]_allVars, <1>1, <1>2, <1>3, <1>4, <1>5, <1>6, <1>7, <1>8, <1>9,
       <1>10, <1>11, <1>12, <1>13, <1>14, <1>15, <1>16, <1>17, <1>18, <1>19, <1>20, <1>21,
       <1>22, <1>23

-----------------------------------------------------------------------------
(* The theorems *)

LEMMA InvariantInit == ASSUME BothInit PROVE IInv
<1> USE SupervisorAssumption, WindowsAssumption DEF BothInit, Init
<1>1. Names
  BY DEF Names, Steps, Loop, StopReasons, Exits
<1>2. Flags
  BY Zenon DEF Flags
<1>3. Numbers
  BY DEF Numbers, Never
<1>4. TreeIsOwned /\ ConfirmationIsLast /\ EndIsExplained
  BY Zenon DEF TreeIsOwned, ConfirmationIsLast, EndIsExplained, Loop
<1>5. SampleIsPast /\ SignalsAreOrdered
  BY Zenon DEF SampleIsPast, SignalsAreOrdered, InLoop
<1>6. OverdueIsNoticed
  BY DEF OverdueIsNoticed, InLoop, OvertimeIsBounded
<1> QED
  BY <1>1, <1>2, <1>3, <1>4, <1>5, <1>6 DEF IInv, TypeOK

LEMMA InvariantStep == ASSUME IInv, [BothNext]_allVars PROVE IInv'
<1> USE DEF IInv, TypeOK
<1>1. TypeOK'
  BY NamesKept, FlagsKept, NumbersKept
<1>2. TreeIsOwned' /\ ConfirmationIsLast'
  BY TreeKept, ConfirmationKept
<1>3. SampleIsPast' /\ EndIsExplained'
  BY SampleKept, EndKept
<1>4. SignalsAreOrdered' /\ OverdueIsNoticed'
  BY SignalsKept, OverdueKept
<1> QED
  BY <1>1, <1>2, <1>3, <1>4

\* The inductive invariant holds of every supervision on both platforms, whatever
\* the process tree, the clock and the user do.
THEOREM InvariantHolds == BothSpec => []IInv
<1>1. BothInit => IInv
  BY InvariantInit
<1>2. IInv /\ [BothNext]_allVars => IInv'
  BY InvariantStep
<1> QED
  BY <1>1, <1>2, PTL DEF BothSpec

\* Every observation that supervise_process returns has one of the shapes its
\* callers are written for; without a stop reason the process has ended and its
\* cleanup is confirmed (process.py, _supervise_posix; process_windows.py).
THEOREM ContractKept == BothSpec => []ObservationKeepsContract
<1>1. ASSUME IInv, result = "observation" PROVE Observed \in Supervised
  <2> USE <1>1 DEF IInv
  <2>1. Observed \in Observations
    BY Zenon DEF TypeOK, Names, Flags, Observed, Observations, Exits
  <2>2. /\ Observed.error = error /\ Observed.stop = stop /\ Observed.cleanup = confirmed
        /\ Observed.exit = IF leader = "reaped" THEN code ELSE "none"
    BY Zenon DEF Observed
  <2>3. /\ error => stop = "none" /\ leader # "reaped"
        /\ (~error /\ stop = "none") => confirmed /\ leader = "reaped"
    BY Zenon DEF EndIsExplained
  <2>4. leader = "reaped" => code # "none"
    BY Zenon DEF TreeIsOwned
  <2>5. confirmed => leader = "reaped" \/ (leader = "none" /\ (error \/ stop = "timeout"))
    BY Zenon DEF ConfirmationIsLast
  <2>6. \/ Unstarted(Observed) \/ Expired(Observed) \/ Ended(Observed) \/ Stopped(Observed)
    BY <2>2, <2>3, <2>4, <2>5, Zenon DEF Unstarted, Expired, Ended, Stopped
  <2> QED
    BY <2>1, <2>6, Zenon DEF Supervised
<1>2. IInv => ObservationKeepsContract
  BY <1>1 DEF ObservationKeepsContract
<1> QED
  BY InvariantHolds, <1>2, PTL

\* A confirmed cleanup is true: the leader is reaped and no member of its group or
\* job is left, not even one that was forked while the supervisor was looking
\* (process.py, _group_exists; process_windows.py, active_processes).
THEOREM CleanupIsTrue == BothSpec => []ConfirmedIsGone
<1>1. IInv => ConfirmedIsGone
  BY Zenon DEF IInv, ConfirmationIsLast, ConfirmedIsGone, GroupExists
<1> QED
  BY InvariantHolds, <1>1, PTL

\* A Ctrl+C, deferred or not, is never swallowed by an observation that looks like
\* an ordinary end (process.py, _deferred_sigint; process_windows.py, the handlers
\* of KeyboardInterrupt).
THEOREM InterruptIsKept == BothSpec => []InterruptEndsTheRun
<1>1. IInv => InterruptEndsTheRun
  BY Zenon DEF IInv, TypeOK, Names, SignalsAreOrdered, InterruptEndsTheRun
<1> QED
  BY InvariantHolds, <1>1, PTL

\* Whatever way a supervision is left, nothing of its tree is left in doubt without
\* having been killed (the finally blocks of both supervisors, _JobProcess.close), save
\* by a Ctrl+C before the try block or inside close, which leaves the job open: what is
\* in it dies with apmx.
THEOREM DoubtIsSettled == BothSpec => []NothingIsLeftRunning
<1>1. ASSUME IInv PROVE NothingIsLeftRunning
  <2> USE <1>1 DEF IInv
  <2>1. CASE platform = "posix"
    <3>1. (InLoop /\ "KILL" \in signals) => "TERM" \in signals /\ stop # "none"
      BY <2>1, Zenon DEF SignalsAreOrdered, EndIsExplained, InLoop
    <3> QED
      BY <2>1, <3>1, Zenon DEF SignalsAreOrdered, NothingIsLeftRunning, DoubtIsKilled
  <2>2. CASE platform = "nt"
    BY <2>2, Zenon DEF TreeIsOwned, NothingIsLeftRunning
  <2> QED
    BY <2>1, <2>2 DEF TypeOK, Names
<1> QED
  BY InvariantHolds, <1>1, PTL

\* As long as no iteration takes more than a tick, stopping begins within two ticks
\* of the deadline and the supervision ends within two of the cleanup allowance, for
\* every deadline and every allowance.
THEOREM OvertimeBounded == BothSpec => []OvertimeIsBounded
<1>1. IInv => OvertimeIsBounded
  BY DEF IInv, OverdueIsNoticed
<1> QED
  BY InvariantHolds, <1>1, PTL
=============================================================================
