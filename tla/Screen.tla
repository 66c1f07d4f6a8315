-------------------------------- MODULE Screen --------------------------------
(***************************************************************************)
(* The calls one command makes to its loggers, in their order: from the    *)
(* options (cli.py, commands/contracts.py) through the contracts of a      *)
(* factory (contracts/chain.py), the attempts of a budget (repair.py) and  *)
(* the events of an attempt (engine.py) to the report.  Each call reaches  *)
(* every compared screen, and each screen's pipe may break in any of them. *)
(***************************************************************************)
EXTENDS Logger

CONSTANTS
  Requests,    \* the commands that are given
  Looks,       \* verbosity and animation of the screens
  MaxEvents,   \* bound: events of an agent, events of a check
  MaxTime      \* bound: the clock

\* What the options and the contract of a command decide
ASSUME RequestsAssumption ==
  \A r \in Requests : {"package", "interactive", "allowed", "factory", "repaired"} \subseteq DOMAIN r

VARIABLES
  screen,    \* the state of each screen and of the loggers that share it
  at,        \* the next call
  request,   \* what the command was asked
  node,      \* the contract of a factory that runs
  attempt,   \* the attempt of a budget
  fate,      \* what became of the attempt
  events,    \* events since the phase began
  now,       \* seconds since the command began
  admitted,  \* history: contracts whose outputs the chain admitted
  agree      \* history: the last call retained the same on every screen

screenVars == <<screen, at, request, node, attempt, fate, events, now, admitted, agree>>

Producers(n) == {m \in Nodes : <<m, n>> \in request.edges}
Feeds(n) == \E m \in Nodes : <<n, m>> \in request.edges

Leaf == IF request.factory THEN "leaf" ELSE "root"
Runner == IF request.repaired THEN "attempt" ELSE Leaf

\* One call, on every screen
Call(F(_)) ==
  \E broken \in SUBSET {s \in Screens : screen[s].enabled} :
    LET shown == [s \in Screens |-> F([screen[s] EXCEPT !.breaks = s \in broken])]
    IN /\ screen' = [s \in Screens |-> [shown[s] EXCEPT !.breaks = FALSE, !.moved = FALSE, !.wrote = <<>>]]
       /\ agree' = \A s, t \in Screens : shown[s].wrote = shown[t].wrote

Go(next) == at' = next
Still(vars) == UNCHANGED <<request, vars>>

ScreenInit ==
  /\ request \in Requests
  /\ \E look \in Looks : screen = [s \in Screens |-> FreshApp(look[s].verbose, look[s].animated)]
  /\ at = "select" /\ node = 0 /\ attempt = 0 /\ fate = "none" /\ events = 0 /\ now = 0
  /\ admitted = {} /\ agree = TRUE

-----------------------------------------------------------------------------
(* The command *)

Before == <<node, attempt, fate, events, now, admitted>>

\* main: a contract is disclosed at once, a factory before it is prepared or runs
Select ==
  /\ at = "select"
  /\ Call(LAMBDA a : IF request.planning \/ request.factory THEN a ELSE Disclose(a, "root"))
  /\ Go(IF ~request.package THEN "invoke"
        ELSE IF request.planning \/ request.allowed THEN "load"
        ELSE IF request.factory /\ request.interactive THEN "ask_preparation"
        ELSE "refused")
  /\ Still(Before)

\* confirm_package_preparation and confirm_factory.  Without a screen the answer is no.
Approve ==
  /\ at \in {"ask_preparation", "ask_factory"}
  /\ Call(LAMBDA a : Prompt(IF at = "ask_factory" THEN Disclose(a, "root") ELSE a))
  /\ \E yes \in BOOLEAN :
       /\ \A s \in Screens : Agrees(screen'[s], yes) \/ ~yes
       /\ Go(IF ~yes THEN "refused" ELSE IF at = "ask_factory" THEN "context" ELSE "load")
  /\ Still(Before)

\* APM prepares the package, then the imports.  A source a preview cannot reach ends it.
Prepare(from, to) ==
  /\ at = from
  /\ \/ Call(LAMBDA a : Installing(a, "root", [frozen |-> request.package, preview |-> request.planning]))
        /\ Go(from)
     \/ \E routine \in BOOLEAN : Call(LAMBDA a : ApmOutput(a, "root", [routine |-> routine])) /\ Go(from)
     \/ Call(LAMBDA a : Installed(a, "root")) /\ Go(from)
     \/ Call(LAMBDA a : StopActivity(a)) /\ Go(to)
     \/ Call(LAMBDA a : a) /\ Go("refused")
  /\ Still(Before)

Load == at = "load" /\ Call(LAMBDA a : StartActivity(a, "root")) /\ Go("source") /\ Still(Before)

Unavailable ==
  /\ at = "source" /\ request.planning
  /\ Call(LAMBDA a : Close(StopActivity(a), "root")) /\ Go("end") /\ Still(Before)

\* invoke_contract
Invoke ==
  /\ at = "invoke"
  /\ Call(LAMBDA a : StartActivity(IF request.planning \/ request.factory THEN a
                                   ELSE Disclose(a, "root"), "root"))
  /\ Go("read") /\ Still(Before)

Read ==
  /\ at = "read"
  /\ \/ /\ request.factory /\ ~request.planning /\ ~request.allowed /\ request.interactive
        /\ Call(LAMBDA a : FactoryWork(a)) /\ Go("ask_factory")
     \/ /\ ~(request.factory /\ ~request.planning /\ ~request.allowed /\ request.interactive)
        /\ Call(LAMBDA a : a)
        /\ Go(IF request.planning \/ request.allowed THEN "context" ELSE "refused")
     \/ Call(LAMBDA a : a) /\ Go("refused")
  /\ Still(Before)

Context ==
  /\ at = "context"
  /\ Call(LAMBDA a : IF request.factory /\ ~request.planning THEN Disclose(a, "root") ELSE a)
  /\ Go("imports") /\ Still(Before)

\* From here on the request's options are not read again
Start ==
  /\ at = "admitted"
  /\ \/ /\ request.planning
        /\ Call(LAMBDA a : Close(IF request.factory THEN ChainPlan(a) ELSE Plan(a), "root"))
        /\ Go("end")
     \/ /\ ~request.planning
        /\ Call(LAMBDA a : IF request.factory THEN Attach(FactoryStarted(Disclose(a, "root")), "root")
                           ELSE Imports(a, "root", request.imports))
        /\ Go(IF request.factory THEN "node" ELSE "contract")
  /\ request' = [request EXCEPT !.package = FALSE, !.interactive = FALSE, !.allowed = FALSE]
  /\ UNCHANGED Before

\* An error or Ctrl+C before the run
RefuseCommand ==
  /\ at = "refused"
  /\ Call(LAMBDA a : Close(RenderError(a), "root")) /\ Go("end") /\ Still(Before)

-----------------------------------------------------------------------------
(* Factory, budget *)

ChainStep ==
  /\ at = "node"
  /\ \/ /\ node' = node + 1
        /\ Call(LAMBDA a : Imports(NewLeaf(ChainNode(a, node + 1)), "leaf", request.imports))
        /\ Go("contract") /\ UNCHANGED admitted
     \/ Call(LAMBDA a : a) /\ Go("stop") /\ UNCHANGED <<node, admitted>>
  /\ Still(<<attempt, fate, events, now>>)

Contract ==
  /\ at = "contract"
  /\ Call(LAMBDA a : IF request.repaired THEN RepairBudget(a, Leaf) ELSE a)
  /\ Go(IF request.repaired THEN "attempt" ELSE "attach")
  /\ Still(Before)

\* The budget's deadline, its store and its record can fail between attempts
TryAgain ==
  /\ at = "attempt"
  /\ \/ /\ attempt < MaxAttempts
        /\ attempt' = attempt + 1 /\ Go("attach")
        /\ Call(LAMBDA a : NewAttempt(a, Leaf, attempt + 1))
     \/ Call(LAMBDA a : a) /\ Go("failed") /\ UNCHANGED attempt
  /\ Still(<<node, fate, events, now, admitted>>)

\* run_attempt has returned: a rejected candidate may be tried again
Attempted ==
  /\ at = "attempted"
  /\ \/ /\ request.repaired /\ fate = "rejected" /\ attempt < MaxAttempts
        /\ Call(LAMBDA a : a) /\ Go("attempt")
     \/ /\ request.factory
        /\ Call(LAMBDA a : LET told == Result(a, Runner, fate = "complete", node, Feeds(node))
                           IN IF request.repaired THEN RepairFinished(told, "leaf") ELSE told)
        /\ Go("leaf_done")
     \/ ~request.factory /\ Call(LAMBDA a : a) /\ Go("report")
  /\ Still(Before)

\* The chain revalidates, admits what the result hands on, and goes on or stops
LeafDone ==
  /\ at = "leaf_done"
  /\ Call(LAMBDA a : Close(a, "leaf"))
  /\ \/ /\ fate = "complete" /\ admitted' = admitted \cup {node}
        /\ \E next \in IF node \in Nodes /\ node + 1 \in Nodes THEN {"node", "stop"} ELSE {"whole", "stop"} : Go(next)
     \/ Go("stop") /\ UNCHANGED admitted
  /\ attempt' = 0 /\ fate' = IF at' = "whole" THEN "complete" ELSE "none"
  /\ Still(<<node, events, now>>)

\* A contract that raised ends its leaf; alone it ends the command
FailContract ==
  /\ at = "failed"
  /\ Call(LAMBDA a : IF request.factory THEN Close(a, "leaf") ELSE a)
  /\ Go(IF request.factory THEN "stop" ELSE "refused") /\ Still(Before)

Stop ==
  /\ at = "stop"
  /\ Call(LAMBDA a : Close(ChainStopped(a, [n \in Nodes |-> Producers(n)]), "root"))
  /\ Go("report") /\ fate' = "stopped" /\ Still(<<node, attempt, events, now, admitted>>)

WholeChain ==
  /\ at = "whole"
  /\ Call(LAMBDA a : Close(a, "root")) /\ Go("report") /\ Still(Before)

\* _finish_result, when everything is recorded and the root logger is closed.  The
\* imports are removed first, and when that fails the report is an error.
Report ==
  /\ at = "report"
  /\ LET complete == fate = "complete"
         told(a) == IF request.factory THEN ChainResult(a, complete)
                    ELSE Result(Close(a, "root"), "root", complete, 0, FALSE)
     IN \/ \E exported \in BOOLEAN :
             Call(LAMBDA a : IF complete THEN Receipt(told(a), exported) ELSE told(a))
        \/ Call(LAMBDA a : RenderError(Close(a, "root")))
  /\ Go("end") /\ Still(Before)

-----------------------------------------------------------------------------
(* An attempt *)

Tell(n, event) == Call(LAMBDA a : OnEvent(a, n, event, now))

Selection ==
  /\ at = "attach" /\ \A s \in Screens : CanAttach(screen[s], Runner)
  /\ Call(LAMBDA a : OnEvent(Attach(a, Runner), Runner, [kind |-> "selected"], now))
  /\ fate' = "none" /\ Go("preflight") /\ events' = 0
  /\ Still(<<node, attempt, now, admitted>>)

Step(from, event, to) ==
  /\ at = from /\ Tell(Runner, event) /\ Go(to) /\ events' = 0
  /\ Still(<<node, attempt, fate, now, admitted>>)

PhaseEvent(name) == [kind |-> "phase", name |-> name]

Stages ==
  \/ Step("preflight", PhaseEvent("preflight"), "inputs")
  \/ Step("inputs", [kind |-> "input", handed |-> node # 0 /\ Producers(node) # {}], "workspace")
  \/ Step("workspace", [kind |-> "workspace"], "execution")
  \/ Step("execution", PhaseEvent("execution"), "agent")
  \/ Step("agent", [kind |-> "process"], "agent")
  \/ Step("agent", PhaseEvent("capture"), "captured")
  \/ Step("captured", PhaseEvent("checks"), "check")
  \/ Step("check", [kind |-> "check"], "checking")

\* What the agent, a check or its supervisor reports while it runs
AgentEvents ==
  {[kind |-> "activity", source |-> "harness", stream |-> s] : s \in {"stdout", "stderr"}}
    \cup {[kind |-> "metadata", model |-> m] : m \in BOOLEAN}
    \cup {[kind |-> "debug"], [kind |-> "skill"], [kind |-> "diagnostic", native |-> TRUE]}
CheckEvents == {[kind |-> "activity", source |-> "checker", stream |-> s] : s \in {"stdout", "stderr"}}

Reports(event) ==
  /\ events < MaxEvents /\ events' = events + 1
  /\ Tell(Runner, event) /\ Go(at) /\ Still(<<node, attempt, fate, now, admitted>>)

Running ==
  \/ at = "agent" /\ \E event \in AgentEvents : Reports(event)
  \/ at = "checking" /\ \E event \in CheckEvents : Reports(event)

Beats ==
  /\ at \in {"agent", "checking"} /\ now < MaxTime
  /\ now' = now + 1
  /\ Call(LAMBDA a : OnEvent(a, Runner, [kind |-> "heartbeat"], now + 1))
  /\ Go(at) /\ Still(<<node, attempt, fate, events, admitted>>)

Checked ==
  /\ at = "checking"
  /\ \E verdict \in {"pass", "fail", "incomplete"} :
       /\ Tell(Runner, [kind |-> "checked", verdict |-> verdict])
       /\ fate' = CASE verdict = "pass" -> "complete" [] verdict = "fail" -> "rejected" [] OTHER -> "stopped"
       /\ Go("record")
  /\ Still(<<node, attempt, events, now, admitted>>)

\* An error, or Ctrl+C while a process runs
Broken ==
  /\ at \in {"preflight", "inputs", "workspace", "execution", "agent", "captured", "check", "checking"}
  /\ \/ Tell(Runner, [kind |-> "diagnostic", native |-> FALSE])
     \/ at \in {"agent", "checking"} /\ \E confirmed \in BOOLEAN :
          Call(LAMBDA a : OnEvent(OnEvent(a, Runner, [kind |-> "stop"], now), Runner,
                                  [kind |-> "stopped", confirmed |-> confirmed], now))
  /\ fate' = "stopped" /\ Go("record") /\ Still(<<node, attempt, events, now, admitted>>)

\* The logger is closed before the record says so, the attempt's and the leaf's alike
Record ==
  /\ at = "record"
  /\ Call(LAMBDA a : Close(OnEvent(a, Runner, PhaseEvent("record"), now), Runner))
  /\ Go("attempted") /\ events' = 0 /\ Still(<<node, attempt, fate, now, admitted>>)

ScreenNext ==
  \/ Select \/ Approve \/ Load \/ Prepare("source", "invoke") \/ Unavailable \/ Invoke \/ Read
  \/ Context \/ Prepare("imports", "admitted") \/ Start \/ RefuseCommand
  \/ ChainStep \/ Contract \/ TryAgain \/ Attempted \/ LeafDone \/ FailContract \/ Stop \/ WholeChain \/ Report
  \/ Selection \/ Stages \/ Running \/ Beats \/ Checked \/ Broken \/ Record

-----------------------------------------------------------------------------
(* Properties *)

\* Hazard: verbosity, animation and broken pipes decide what is shown in the same
\* methods that decide what is retained.  Whatever the screen, each call retains
\* the same lines ("Retained liveness never depends on verbosity, terminal or
\* animation").
TranscriptIgnoresTheScreen == agree

\* Hazard: lines are shown before what they speak of is settled.  Outputs are said to
\* be handed on only when the chain admitted them, nothing is said to wait for outputs
\* that were admitted, no animation runs over a prompt or after the end, and
\* the profile is disclosed before the factory is approved and before an agent runs.
ScreenTellsTheTruth ==
  \A s \in Screens :
    LET a == screen[s]
    IN /\ a.handed \subseteq admitted
       /\ a.waiting \cap admitted = {}
       /\ at \in {"ask_preparation", "ask_factory", "end"} => ~a.active
       /\ at = "agent" => a.disclosed
=============================================================================
