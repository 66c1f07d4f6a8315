-------------------------------- MODULE Logger --------------------------------
(***************************************************************************)
(* What a command shows and what it retains (core/contract_logger.py).     *)
(* Every logger of a command (of the command itself, of a contract of a    *)
(* factory, of an attempt) has a transcript of its own and shares one      *)
(* screen.  The same calls are made here to several screens at once, which *)
(* differ in verbosity, animation, and in when their pipe breaks: what the *)
(* loggers retain is compared call by call.                                *)
(*                                                                         *)
(* A line is a name with where it goes; its wording and layout are left    *)
(* out.  Methods are operators from the state of one screen and of its     *)
(* loggers to the next one.                                                *)
(***************************************************************************)
EXTENDS Integers, Sequences, FiniteSets

CONSTANTS
  Screens,      \* the screens that are compared
  Nodes,        \* the contracts of a factory, 1 .. n in their order
  MaxAttempts,  \* attempts of a repair budget
  Beat,         \* HEARTBEAT_SECONDS
  Sparse        \* LIVENESS_SECONDS

ASSUME LoggerAssumption ==
  /\ Screens # {} /\ MaxAttempts \in Nat \ {0} /\ Beat \in Nat /\ Sparse \in Nat
  /\ \A n \in Nodes : n \in Nat \ {0} /\ 1 .. n \subseteq Nodes

Names == {"root", "leaf", "attempt"}    \* the loggers of a command

-----------------------------------------------------------------------------
(* Lines *)

Both(text)   == [text |-> text, kept |-> TRUE, seen |-> "always"]
Detail(text) == [text |-> text, kept |-> TRUE, seen |-> "verbose"]
Kept(text)   == [text |-> text, kept |-> TRUE, seen |-> "never"]
Seen(text)   == [text |-> text, kept |-> FALSE, seen |-> "always"]
Extra(text)  == [text |-> text, kept |-> FALSE, seen |-> "verbose"]

When(condition, lines) == IF condition THEN lines ELSE <<>>

Visible(a, line) == line.seen = "always" \/ (line.seen = "verbose" /\ a.verbose)

\* _ContractDisplay.disable
Disable(a) == [a EXCEPT !.enabled = FALSE, !.active = FALSE]

\* What _write retains.  A closed logger retains nothing more.
Retain(a, n, lines) ==
  IF a.log[n].closed THEN a
  ELSE [a EXCEPT !.wrote = @ \o SelectSeq(lines, LAMBDA line : line.kept)]

\* _show and emit: a pipe that breaks does so at the first line shown in a call
Show(a, lines) ==
  LET shows == a.enabled /\ \E i \in DOMAIN lines : Visible(a, lines[i])
  IN IF ~shows THEN a ELSE IF a.breaks THEN Disable(a) ELSE [a EXCEPT !.moved = TRUE]

\* _write, and _show for the lines that are only shown
Put(a, n, lines) == Show(Retain(a, n, lines), lines)

\* animates, start_activity and stop_activity of the display
Animates(a) == a.enabled /\ a.animated

ShowActivity(a) ==
  IF ~Animates(a) THEN [a EXCEPT !.active = FALSE]
  ELSE IF a.breaks THEN Disable(a)
  ELSE [a EXCEPT !.active = TRUE, !.moved = TRUE]

StopActivity(a) == IF a.active /\ a.breaks THEN Disable(a) ELSE [a EXCEPT !.active = FALSE]

StartActivity(a, n) == IF a.log[n].closed THEN a ELSE ShowActivity(a)

-----------------------------------------------------------------------------
(* Loggers, attempts and what a contract block shows *)

FreshLogger(view, step) ==
  [closed |-> FALSE, finished |-> FALSE, attached |-> FALSE, phase |-> "none",
   noted |-> 0, spoke |-> 0, prepared |-> FALSE, heading |-> FALSE,
   check |-> "none", view |-> view, step |-> step]

FreshView == [summarized |-> FALSE, liveness |-> 0]

FreshLeaf == [header |-> FALSE, last |-> 0]

FreshApp(verbose, animated) ==
  [verbose |-> verbose, animated |-> animated, enabled |-> TRUE, active |-> FALSE,
   disclosed |-> FALSE, identified |-> FALSE, models |-> FALSE, noticed |-> FALSE,
   breaks |-> FALSE, moved |-> FALSE, wrote |-> <<>>,
   log |-> [n \in Names |-> FreshLogger(0, FALSE)],
   views |-> [i \in 1 .. MaxAttempts |-> FreshView], leaf |-> FreshLeaf,
   started |-> {}, complete |-> {}, pending |-> 0, handed |-> {}, waiting |-> {}]

\* new_leaf and new_attempt: a transcript of its own, the screen shared
NewLeaf(a) ==
  [a EXCEPT !.log["leaf"] = FreshLogger(0, TRUE),
            !.views = [i \in 1 .. MaxAttempts |-> FreshView]]

NewAttempt(a, n, index) ==
  [Put(a, n, <<Detail("attempt")>>) EXCEPT
     !.log["attempt"] = FreshLogger(index, a.log[n].step), !.views[index] = FreshView]

\* attach_run raises for a second run
CanAttach(a, n) == ~a.log[n].attached /\ ~a.log[n].closed
Attach(a, n) == [a EXCEPT !.log[n].attached = TRUE]

\* Output of a check whose end nobody saw is followed by a notice
FlushCheck(a, n, observed) ==
  LET b == [a EXCEPT !.log[n].check = "none"]
  IN IF a.log[n].check = "lines" /\ ~observed THEN Put(b, n, <<Seen("unobserved")>>) ELSE b

Close(a, n) ==
  IF a.log[n].closed THEN a
  ELSE FlushCheck(StopActivity([a EXCEPT !.log[n].closed = TRUE]), n, FALSE)

Summarize(a, n) ==
  LET view == a.log[n].view
  IN IF view = 0 \/ (view # 0 /\ a.views[view].summarized) THEN a
     ELSE Put([a EXCEPT !.views[view].summarized = TRUE], n, <<Seen("attempt line")>>)

\* The local execution profile is disclosed once per screen
Disclose(a, n) ==
  IF a.disclosed THEN a
  ELSE Put([a EXCEPT !.disclosed = TRUE], n, <<Both("not sandboxed"), Both("cost")>>)

ChecksHeading(a, n) ==
  IF a.log[n].heading THEN a
  ELSE Put([a EXCEPT !.log[n].heading = TRUE], n, <<Detail("checks")>>)

-----------------------------------------------------------------------------
(* Preparation events *)

\* APM installs, or for a preview fetches, in a private root
Installing(a, n, event) ==
  LET b == StartActivity(Put(a, n, <<Both("installing")>>), n)
      c == Put([b EXCEPT !.log[n].prepared = TRUE], n,
               When(~a.log[n].prepared, <<Both("temporary workspace")>>))
  IN Put(c, n, When(event.frozen /\ ~event.preview, <<Both("locked")>>)
                 \o <<Detail("running"), Detail("options")>>)

Installed(a, n) == Put(StopActivity(a), n, <<Both("ready")>>)

ApmOutput(a, n, event) ==
  Put(a, n, <<IF event.routine THEN Detail("apm") ELSE Both("apm")>>)

Imports(a, n, some) == Put(a, n, When(some, <<Both("imported"), Detail("import")>>))

-----------------------------------------------------------------------------
(* Run events *)

Selected(a, n) ==
  LET b == Put(Disclose(a, n), n, When(a.log[n].prepared, <<Kept("gap")>>))
      view == IF b.log[n].view = 0 THEN 1 ELSE b.log[n].view
      c == [b EXCEPT !.log[n].view = view, !.leaf.last = view]
      d == Put([c EXCEPT !.leaf.header = TRUE], n, When(~c.leaf.header, <<Seen("header")>>))
  IN Put([d EXCEPT !.identified = TRUE], n,
         When(~d.log[n].step, <<Kept("contract")>>)
           \o <<Kept("produces"), Kept("needs")>>
           \o When(~d.identified, <<Kept("harness")>>)
           \o <<Detail("source"), Detail("run"), Detail("directory")>>)

InputCaptured(a, n, handed) ==
  Put(a, n, <<Detail("input"), Detail("digest")>> \o When(handed, <<Detail("record of input")>>))

WorkspaceCaptured(a, n) == Put(a, n, <<Detail("working copy")>>)

\* The last phase summarizes the attempt; every other one is animated
Phase(a, n, name) ==
  LET b == [a EXCEPT !.log[n].phase = name]
      c == IF name = "checks" THEN ChecksHeading(b, n) ELSE b
      d == IF name = "record" THEN Summarize(StopActivity(c), n) ELSE ShowActivity(c)
  IN IF name = a.log[n].phase THEN a ELSE Put(d, n, <<Detail(name)>>)

\* The first line of a check's stdout is announced
HearCheck(a, n) ==
  LET b == IF a.log[n].check # "lines" THEN Put(a, n, <<Extra("stdout")>>) ELSE a
  IN [b EXCEPT !.log[n].check = "lines"]

\* Text of the agent or of a check.  Only the agent's stderr is shown without --verbose.
Activity(a, n, event) ==
  LET stdout == event.source = "checker" /\ event.stream = "stdout"
  IN Put(IF stdout THEN HearCheck(a, n) ELSE a, n, <<IF event.source = "harness" /\ event.stream = "stderr"
                 THEN Both("text") ELSE Detail("text")>>)

\* A model is shown once per screen
Metadata(a, n, model) ==
  LET line == IF ~model THEN Kept("metadata") ELSE IF a.models THEN Kept("model") ELSE Both("model")
  IN Put([a EXCEPT !.models = @ \/ model], n, <<line>>)

NativeDebug(a, n) == Put(a, n, <<Extra("debug")>>)

SkillLoaded(a, n) == Put(a, n, <<Both("skill")>>)

\* Notices about the mirror of the native logs are shown once, and always retained
Diagnostic(a, n, native) ==
  LET line(text) == IF native /\ a.noticed THEN Kept(text) ELSE Both(text)
  IN Put([a EXCEPT !.noticed = @ \/ native], n, <<line("diagnostic"), line("action")>>)

ProcessStarted(a, n) == Put(a, n, <<Detail("child")>>)

StopRequested(a, n) == Put(StartActivity(a, n), n, <<Both("stop"), Detail("stop reason")>>)

StopObserved(a, n, confirmed) ==
  Put(a, n, IF confirmed THEN <<Both("stopped"), Detail("escaped")>> ELSE <<Both("unconfirmed")>>)

CheckStarted(a, n) ==
  LET b == FlushCheck(a, n, FALSE)
      c == ChecksHeading([b EXCEPT !.log[n].check = "silent"], n)
  IN ShowActivity(Put(c, n, <<Detail("check")>>))

\* Inside an attempt the verdict is folded into the attempt line
CheckFinished(a, n, verdict) ==
  LET folded(text) == IF a.log[n].view # 0 THEN Detail(text) ELSE Both(text)
      b == Put(a, n, <<folded(verdict), Detail("exit")>>
                       \o When(verdict = "incomplete", <<folded("why")>>)
                       \o When(verdict # "pass", <<Detail("reason")>>))
  IN FlushCheck(b, n, TRUE)

\* Mutated: an animated screen needs no liveness line, and so the transcript gets none
HeartbeatOfScreen(a, n, now) ==
  LET log == a.log[n]
      due == now - log.noted >= Beat
  IN IF a.active THEN a
     ELSE Put([a EXCEPT !.log[n].noted = IF due THEN now ELSE @], n, When(due, <<Kept("beat")>>))

\* Two clocks: what is retained depends on the events alone, what is shown also
\* on what the screen showed last
Heartbeat(a, n, now) ==
  LET log == a.log[n]
      due == now - log.noted >= Beat
      b == Put([a EXCEPT !.log[n].noted = IF due THEN now ELSE @], n, When(due, <<Kept("beat")>>))
      sparse == ~a.verbose /\ log.view # 0
      still == IF sparse THEN now - a.views[log.view].liveness >= Sparse ELSE now - log.spoke >= Beat
      c == IF sparse THEN [b EXCEPT !.views[log.view].liveness = now] ELSE [b EXCEPT !.log[n].spoke = now]
  IN IF ~a.active /\ still THEN Show(c, <<Seen("still")>>) ELSE b

\* What a failed attempt said last, and the block that ends a single contract
Tails(a, n) == Put(a, n, <<Seen("tails")>>)
FinalLeaf(a, n) == Put(a, n, <<Seen("headline")>>)

\* _result: outputs of a producer wait for the admission of their handoff
Result(a, n, complete, node, feeds) ==
  LET b == [a EXCEPT !.log[n].finished = TRUE]
      c == Summarize(FlushCheck(StopActivity(b), n, FALSE), n)
      inFactory == a.log[n].step
      d == IF ~complete THEN Tails(c, n)
           ELSE IF inFactory /\ feeds THEN [c EXCEPT !.pending = node]
           ELSE Put(c, n, <<Seen("outputs")>>)
      e == IF complete /\ inFactory THEN [d EXCEPT !.complete = @ \cup {node}] ELSE d
      f == IF inFactory THEN e ELSE FinalLeaf(e, n)
  IN IF a.log[n].finished THEN a
     ELSE Put(f, n, <<Detail("record file"), Detail("artifact"), Detail("observed model"),
                      Detail("logs"), Detail("sensitive")>>)

\* on_event: each kind of event has its method
Heard(a, n, event, now) ==
  CASE event.kind = "activity"    -> Activity(a, n, event)
    [] event.kind = "metadata"    -> Metadata(a, n, event.model)
    [] event.kind = "debug"       -> NativeDebug(a, n)
    [] event.kind = "skill"       -> SkillLoaded(a, n)
    [] event.kind = "diagnostic"  -> Diagnostic(a, n, event.native)
    [] event.kind = "process"     -> ProcessStarted(a, n)
    [] event.kind = "stop"        -> StopRequested(a, n)
    [] event.kind = "stopped"     -> StopObserved(a, n, event.confirmed)
    [] event.kind = "selected"    -> Selected(a, n)
    [] event.kind = "input"       -> InputCaptured(a, n, event.handed)
    [] event.kind = "workspace"   -> WorkspaceCaptured(a, n)
    [] event.kind = "phase"       -> Phase(a, n, event.name)
    [] event.kind = "check"       -> CheckStarted(a, n)
    [] event.kind = "checked"     -> CheckFinished(a, n, event.verdict)
    [] event.kind = "finished"    -> Result(a, n, event.complete, event.node, event.feeds)
    [] event.kind = "heartbeat"   -> Heartbeat(a, n, now)

\* Then the clocks are set: liveness of the transcript never depends on the screen
OnEvent(a, n, event, now) ==
  LET b == Heard(a, n, event, now)
      noted == event.kind \notin {"heartbeat", "metadata", "process"}
      spoke == event.kind # "heartbeat" /\ b.moved
  IN [b EXCEPT !.log[n].noted = IF noted THEN now ELSE @,
               !.log[n].spoke = IF spoke THEN now ELSE @]

-----------------------------------------------------------------------------
(* What the command itself shows *)

\* render_factory_work and render_plan
FactoryWork(a) == Put(StopActivity(a), "root", <<Seen("factory"), Detail("sources"), Detail("saved under")>>)

Plan(a) == Put(a, "root", <<Seen("plan"), Detail("limits"), Detail("identities")>>)

ChainPlan(a) == Put(FactoryWork(a), "root", <<Seen("footer"), Detail("policy")>>)

\* A screen that is gone gives no consent
Prompt(a) == Put(a, "root", <<Both("prompt")>>)
Agrees(a, yes) == a.enabled /\ yes

RenderError(a) ==
  Put(FlushCheck(StopActivity(a), "root", FALSE), "root", <<Both("error"), Both("message"), Detail("code")>>)

FactoryStarted(a) == Put(a, "root", <<Seen("factory")>>)

\* Mutated: the line names the consumers whatever became of the handoff
FlushHandoffClaimed(a, n, admitted) ==
  IF a.pending = 0 THEN a
  ELSE Put([a EXCEPT !.handed = @ \cup {a.pending}, !.pending = 0], n, <<Seen("outputs")>>)

\* _flush_handoff: claimed only after the owner of the chain admitted it
FlushHandoff(a, n, admitted) ==
  IF a.pending = 0 THEN a
  ELSE Put([a EXCEPT !.handed = IF admitted THEN @ \cup {a.pending} ELSE @, !.pending = 0],
           n, <<Seen("outputs")>>)

ChainNode(a, node) ==
  LET b == Put(FlushHandoff(a, "root", TRUE), "root", <<Kept("contract"), Seen("header")>>)
  IN [b EXCEPT !.started = @ \cup {node}, !.leaf = [FreshLeaf EXCEPT !.header = TRUE]]

\* What was not started is listed with the producers it waits for
ChainStopped(a, producers) ==
  LET b == FlushHandoff(Put(StopActivity(a), "root", <<Kept("stopped")>>), "root", FALSE)
      waiting == UNION {producers[n] \ b.complete : n \in Nodes \ b.started}
  IN Put([b EXCEPT !.waiting = waiting], "root", When(Nodes # b.started, <<Seen("not started")>>))

ChainResult(a, complete) ==
  LET b == Put(FlushHandoff(StopActivity(a), "root", complete), "root", <<Seen("headline")>>)
  IN Put(b, "root", When(~complete, <<Detail("stop reason")>>) \o <<Detail("record file")>>)

RepairBudget(a, n) == Put(a, n, <<Detail("budget")>>)
RepairFinished(a, n) == Put(a, n, <<Detail("why repair ended"), Detail("attempts record")>>)

Receipt(a, exported) ==
  Put(a, "root", IF exported THEN <<Seen("receipt"), Detail("bundle")>>
                 ELSE <<Both("failed"), Both("reason"), Both("remains"), Both("retry")>>)
=============================================================================
