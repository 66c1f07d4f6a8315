----------------------------- MODULE Supervisor -----------------------------
(***************************************************************************)
(* supervise_process and _supervise_posix of contracts/process.py: start   *)
(* one process in its own group, drain its pipes, and end in bounded time, *)
(* stopping the group with SIGTERM and then SIGKILL when the request's     *)
(* time is spent, when descendants outlive the leader, or on Ctrl+C.       *)
(*                                                                         *)
(* Time is counted in ticks and kept as ages that saturate where the code  *)
(* stops telling them apart, so that the clock needs no bound.  The        *)
(* process tree lives its own life: the leader exits, descendants fork,    *)
(* leave the group, ignore SIGTERM and may even outlive SIGKILL.           *)
(***************************************************************************)
EXTENDS ProcessContract, Integers

CONSTANTS
  Timeout,   \* request.timeout_seconds, in ticks
  Unit       \* a sixth of limits.cleanup_seconds, in ticks

ASSUME SupervisorAssumption ==
  Timeout \in Nat /\ Unit \in Nat \ {0}

Cleanup == 6 * Unit

\* post_exit_grace: descendants get two thirds of the cleanup allowance
Grace == 4 * Unit

Never == -1

VARIABLES
  pc,         \* program point of the supervisor
  stop,       \* stop_reason
  confirmed,  \* cleanup_confirmed
  error,      \* the observation reports that the process could not be started
  signals,    \* sent
  drained,    \* both pipes reached end of file (the selector is empty)
  interrupts, \* Ctrl+C was deferred
  result,     \* "none", "observation", "KeyboardInterrupt" or "callback_error"
  seen,       \* what this iteration sampled: exit, group and the three ages
  runAge,     \* ticks since the start
  exitAge,    \* ticks since the leader's exit was seen, or Never
  stopAge,    \* ticks since stop_started, or Never
  lag,        \* ticks since this iteration read the clock
  leader,     \* "none", "suspended" (Windows only), "running", "zombie" or "reaped"
  code,       \* the exit code the leader ends with
  others,     \* the group has members besides the leader
  escaped,    \* a descendant outside the group holds the pipes open
  ticked,     \* history: the clock advanced during this iteration
  slow,       \* history: an iteration took more than one tick
  overdue     \* history: ticks spent while a bound was already reached

clock == <<runAge, exitAge, stopAge, lag>>
tree == <<leader, code, others, escaped>>
measure == <<ticked, slow, overdue>>
vars == <<pc, stop, confirmed, error, signals, drained, interrupts, result, seen,
          clock, tree, measure>>

GroupExists == leader \in {"running", "zombie"} \/ others
PipesHeld == leader = "running" \/ others \/ escaped
Exited == leader \in {"zombie", "reaped"}

\* child.poll() reaps an exited leader
Reaped == IF leader = "zombie" THEN "reaped" ELSE leader

-----------------------------------------------------------------------------

\* A spent request starts nothing; a process that cannot start is an error
Start ==
  /\ pc = "start"
  /\ \/ /\ Timeout = 0
        /\ stop' = "timeout" /\ confirmed' = TRUE /\ pc' = "leave"
        /\ UNCHANGED <<error, leader>>
     \/ /\ Timeout > 0
        /\ error' = TRUE /\ confirmed' = TRUE /\ pc' = "leave"
        /\ UNCHANGED <<stop, leader>>
     \/ /\ Timeout > 0
        /\ leader' = "running" /\ pc' = "started"
        /\ UNCHANGED <<stop, confirmed, error>>
  /\ UNCHANGED <<signals, drained, interrupts, result, seen, clock, code, others,
                 escaped, measure>>

\* Registering the pipes and the on_started callback, which writes a record
Started ==
  /\ pc = "started"
  /\ \/ pc' = "top" /\ UNCHANGED result
     \/ pc' = "finally" /\ result' = "callback_error"
  /\ UNCHANGED <<stop, confirmed, error, signals, drained, interrupts, seen, clock,
                 tree, measure>>

\* Mutated: the group is signalled and no reason is kept
CancelSilent ==
  /\ IF stopAge = Never THEN stopAge' = 0 /\ signals' = signals \cup {"TERM"}
                        ELSE UNCHANGED <<stopAge, signals>>
  /\ UNCHANGED stop

\* cancel(): the reason becomes "cancelled"; the first stop also starts the
\* cleanup allowance and signals the group
Cancel ==
  /\ stop' = "cancelled"
  /\ IF stopAge = Never THEN stopAge' = 0 /\ signals' = signals \cup {"TERM"}
                        ELSE UNCHANGED <<stopAge, signals>>

\* Mutated: only the leader is looked at
GoneAlone == Exited

\* The leader was reaped and _group_exists finds nobody else
Gone == Exited /\ ~others

Finished == Gone /\ drained

\* The head of an iteration: a deferred Ctrl+C, the clock, poll and the group
Sample ==
  /\ pc = "top"
  /\ IF interrupts /\ stop # "cancelled" THEN Cancel ELSE UNCHANGED <<stop, stopAge, signals>>
  /\ leader' = Reaped
  /\ exitAge' = IF Exited /\ exitAge = Never THEN 0 ELSE exitAge
  /\ seen' = [exited |-> Exited, alive |-> others \/ leader = "running",
              run |-> runAge, exit |-> exitAge', stop |-> stopAge']
  /\ lag' = 0
  /\ confirmed' = Finished
  /\ pc' = IF confirmed' THEN "finally" ELSE "decide"
  /\ UNCHANGED <<error, drained, interrupts, result, runAge, code, others, escaped, measure>>

\* Mutated: the request's time is not looked at
StopCauseTimeless ==
  IF seen.exited /\ seen.alive /\ seen.exit >= Grace THEN "lingering_children" ELSE "none"

\* Why an undisturbed supervision must stop now
StopCause ==
  CASE seen.run >= Timeout                                    -> "timeout"
    [] seen.run < Timeout /\ seen.exited /\ seen.alive /\ seen.exit >= Grace
                                                              -> "lingering_children"
    [] OTHER                                                  -> "none"

\* kill_after: lingering descendants already used their grace
KillAfter(reason) == IF reason = "lingering_children" THEN 5 * Unit ELSE 3 * Unit

\* The middle of an iteration: begin to stop, escalate, or give up waiting.
\* The time since stop_started is computed from the sampled clock.
Decide ==
  /\ pc = "decide"
  /\ LET starts == stopAge = Never /\ StopCause # "none"
         reason == IF starts THEN StopCause ELSE stop
         elapsed == IF starts
                    THEN IF reason = "lingering_children" THEN seen.exit ELSE 0
                    ELSE seen.stop
     IN  /\ stop' = reason
         /\ stopAge' = IF starts THEN IF reason = "lingering_children" THEN exitAge ELSE lag
                       ELSE stopAge
         /\ signals' = signals
              \cup (IF starts THEN {"TERM"} ELSE {})
              \cup (IF stopAge' # Never /\ elapsed >= KillAfter(reason) THEN {"KILL"} ELSE {})
         /\ IF stopAge' # Never /\ elapsed >= Cleanup
            THEN /\ leader' = Reaped
                 /\ confirmed' = Gone
                 /\ pc' = "finally"
            ELSE pc' = "drain" /\ UNCHANGED <<leader, confirmed>>
  /\ UNCHANGED <<error, drained, interrupts, result, seen, runAge, exitAge, lag, code,
                 others, escaped, measure>>

\* select and on_bytes: end of file closes the pipes; a callback may raise, and
\* a KeyboardInterrupt it raises is a cancellation
Drain ==
  /\ pc = "drain"
  /\ \/ /\ drained' \in {drained, ~PipesHeld}
        /\ pc' = "top"
        /\ UNCHANGED <<stop, stopAge, signals, result>>
     \/ Cancel /\ pc' = "top" /\ UNCHANGED <<drained, result>>
     \/ /\ pc' = "finally" /\ result' = "callback_error"
        /\ UNCHANGED <<stop, stopAge, signals, drained>>
  /\ ticked' = FALSE
  /\ UNCHANGED <<confirmed, error, interrupts, seen, runAge, exitAge, lag, tree, slow, overdue>>

\* The finally block: kill what is not confirmed gone, wait for the leader for
\* the rest of the allowance
Finally ==
  /\ pc = "finally"
  /\ IF confirmed THEN UNCHANGED <<signals, leader, code>>
     ELSE /\ signals' = signals \cup {"KILL"}
          /\ \/ leader' = Reaped /\ UNCHANGED code
             \/ leader = "running" /\ leader' = "reaped" /\ code' = "other"
  /\ pc' = IF result = "callback_error" THEN "done" ELSE "late"
  /\ UNCHANGED <<stop, confirmed, error, drained, interrupts, result, seen, clock,
                 others, escaped, measure>>

\* A Ctrl+C that came after the last iteration still cancels
Late ==
  /\ pc = "late"
  /\ stop' = IF interrupts THEN "cancelled" ELSE stop
  /\ pc' = "leave"
  /\ UNCHANGED <<confirmed, error, signals, drained, interrupts, result, seen, clock,
                 tree, measure>>

\* supervise_process, after the handler is restored
Leave ==
  /\ pc = "leave"
  /\ result' = IF interrupts /\ stop # "cancelled" THEN "KeyboardInterrupt" ELSE "observation"
  /\ pc' = "done"
  /\ UNCHANGED <<stop, confirmed, error, signals, drained, interrupts, seen, clock,
                 tree, measure>>

-----------------------------------------------------------------------------
(* The user, the clock and the process tree *)

CtrlC ==
  /\ pc # "done" /\ ~interrupts
  /\ interrupts' = TRUE
  /\ UNCHANGED <<pc, stop, confirmed, error, signals, drained, result, seen, clock, tree, measure>>

Grow(age, limit) == IF age = Never \/ age >= limit THEN age ELSE age + 1

InLoop == pc \in {"top", "decide", "drain"}

\* A bound that is already reached: from here on ticks are overtime
AtBound == (stopAge = Never /\ runAge >= Timeout) \/ stopAge >= Cleanup

Tick ==
  /\ InLoop
  /\ runAge' = Grow(runAge, Timeout)
  /\ exitAge' = Grow(exitAge, Cleanup)
  /\ stopAge' = Grow(stopAge, Cleanup)
  /\ lag' = Grow(lag, Cleanup)
  /\ ticked' = TRUE /\ slow' = (slow \/ ticked)
  /\ overdue' = IF AtBound /\ overdue < 3 THEN overdue + 1 ELSE overdue
  /\ UNCHANGED <<pc, stop, confirmed, error, signals, drained, interrupts, result, seen, tree>>

\* The leader exits with some code (any code, on its own or by a signal)
LeaderExits ==
  /\ leader = "running"
  /\ leader' = "zombie"
  /\ code' \in Exits \ {"none"}
  /\ UNCHANGED <<others, escaped>>

\* Only a living member of the group can add one, or let one escape
Descend ==
  /\ leader = "running" \/ others
  /\ \/ others' = TRUE /\ UNCHANGED escaped
     \/ escaped' = TRUE /\ others' \in {others, FALSE}
  /\ UNCHANGED <<leader, code>>

DescendantsEnd ==
  /\ \/ others /\ others' = FALSE /\ UNCHANGED escaped
     \/ escaped /\ escaped' = FALSE /\ UNCHANGED others
  /\ UNCHANGED <<leader, code>>

Tree ==
  /\ pc # "done"
  /\ LeaderExits \/ Descend \/ DescendantsEnd
  /\ UNCHANGED <<pc, stop, confirmed, error, signals, drained, interrupts, result,
                 seen, clock, measure>>

-----------------------------------------------------------------------------

Init ==
  /\ pc = "start" /\ stop = "none" /\ confirmed = FALSE /\ error = FALSE
  /\ signals = {} /\ drained = FALSE /\ interrupts = FALSE /\ result = "none"
  /\ seen = [exited |-> FALSE, alive |-> FALSE, run |-> 0, exit |-> Never, stop |-> Never]
  /\ runAge = 0 /\ exitAge = Never /\ stopAge = Never /\ lag = 0
  /\ leader = "none" /\ code = "none" /\ others = FALSE /\ escaped = FALSE
  /\ ticked = FALSE /\ slow = FALSE /\ overdue = 0

Supervise ==
  \/ Start \/ Started \/ Sample \/ Decide \/ Drain \/ Finally \/ Late \/ Leave

Next == Supervise \/ CtrlC \/ Tick \/ Tree

Spec == Init /\ [][Next]_vars

\* The supervisor runs and time passes; no process has to do anything
FairSpec == Spec /\ WF_vars(Supervise) /\ WF_vars(Tick)

-----------------------------------------------------------------------------
(* Properties *)

Ages(limit) == Never .. limit

\* The ProcessObservation that is returned
Observed ==
  [exit |-> IF leader = "reaped" THEN code ELSE "none",
   stop |-> stop, error |-> error, cleanup |-> confirmed]

\* Every observation the supervisor returns has one of the shapes its callers
\* are written for; above all, without a stop reason the process has ended and
\* its cleanup is confirmed, because the callers then go on to judge it.
ObservationKeepsContract == result = "observation" => Observed \in Supervised

\* A confirmed cleanup is true: the leader is reaped and no member of its group
\* is left, not even one that was forked while the supervisor was looking.
ConfirmedIsGone ==
  (result = "observation" /\ confirmed /\ leader # "none") =>
     leader = "reaped" /\ ~GroupExists

\* As long as no iteration takes more than a tick, SIGTERM is sent within two ticks of
\* the deadline and the supervision ends within two of the cleanup allowance.
OvertimeIsBounded == ~slow => overdue <= 2

\* Descendants that hold the pipes, ignore signals or cannot be killed do not
\* keep the supervision from ending.
SupervisionEnds == <>(pc = "done")

\* Nothing leaves the supervisor in doubt without having been killed: an
\* observation with unconfirmed cleanup and an error of a callback both follow
\* a SIGKILL, and the loop itself sends SIGKILL only after SIGTERM.
DoubtIsKilled ==
  /\ (result = "observation" /\ ~confirmed) => signals = {"TERM", "KILL"}
  /\ (pc = "done" /\ result = "callback_error") => "KILL" \in signals
  /\ (InLoop /\ "KILL" \in signals) => "TERM" \in signals /\ stop # "none"
=============================================================================
