# Verification models of apmx

apmx runs a *contract*: it captures a project, lets a native agent (Copilot,
OpenCode) work on the copy under supervision, captures what the agent delivered,
runs the contract's checks on independent copies of the delivery, and writes a
record whose outcome is COMPLETE, REJECTED, UNPROVEN or HALTED. A repair budget
retries rejected contracts, a *factory* chains contracts by the files they need
and produce, and a COMPLETE result is delivered with a receipt, which
`apmx audit` verifies later, in a pull request or by itself.

Nearly all of what can go wrong concerns one sentence: **COMPLETE is visible,
returned, announced, receipted or accepted only if it was earned.** The models
state what "earned" means, and let record writes fail, files change, time pass,
processes linger, frames come in any order, screens break, lookups stay
unanswered, Ctrl+C arrive and the program die at every point where the code
allows it.

All source paths below are relative to `src/apmx/`.

## 1. Inventory

| Component | State it keeps | Operations | What is hard | What makes it correct |
| --- | --- | --- | --- | --- |
| Attempt engine `contracts/engine.py` | stop reason, artifact, checks of one run | `_admit`, `run_attempt`, `_run_checks` | order of failure reasons, deadline between steps, Ctrl+C, writes that fail | verdicts only on captured bytes, after a clean producer |
| Record owner `contracts/records.py` | `record.json` of attempts, controllers, factories | `create`, `update`, `finish`, `finalize`, `fail_finalization`, `abort`, `finish_chain`, `halt_chain`, `load_result`, `capture_evidence` | memory and disk differ after a failed write; a crash after the success became visible; reading back what others replace | success is validated before it is visible and again before it is returned |
| Repair controller `contracts/repair.py` | attempts, rejected candidates, selection | `run_repair` | linking before the start, no progress, shared deadline, withdrawal | retries only assessed rejections, selects only a validated COMPLETE |
| Factory chain `contracts/chain.py` | node states, admitted handoffs | `run_chain` | retained bytes change between acceptance and use | complete only if every node is; consumers get admitted bytes |
| Process supervisors `contracts/process.py`, `process_windows.py` | stop reason, clocks, group or job, pipes | `supervise_process` on both platforms, `_JobProcess` | forks, escaped children, Ctrl+C deferred or not, failing system calls, races of poll, group and pipes | true observations, bounded time, nothing left running |
| Native sessions `contracts/stream.py`, `runtime/opencode_stream.py`, `contracts/native_logs.py` | partial lines, messages, calls in flight, completion, offsets of tailed files | `feed`, `finish`, `poll` | split, duplicated, contradicting, late frames; logs that grow while they are read | completion only if everything announced was settled; private text stays private |
| Artifact tools `runtime/artifact_tools.py`, `artifact_mcp.py`, `contracts/git_export.py` | operation log, exported files | `call`, `serve`, `capture_exports`, `export_changes` | a server killed inside a call | no delivery of an unfinished operation |
| Runtime adapters `runtime/copilot_runtime.py`, `opencode_runtime.py`, `replay.py` | the prepared profile | `build_contract_request` | the user's configuration changes between two looks | no foreign server is enabled |
| Workspace `contracts/workspace.py`, `utils/file_capture.py` | captured trees on disk | inventory, snapshots, copies, delivery, views | caller, agent and checks edit while a copy reads file by file | what is carried is what was admitted |
| Package sources `install/contract_source.py`, `apm_backend.py` | private roots, pins | `prepare_contract_source`, `prepare_imports` | lock, manifest, package and the APM program change between looks | what runs is what was pinned at the end of the preparation |
| Front end `contracts/frontend.py`, `imports.py`, `resolution.py`, `policy/prerequisite.py` | none | plan, imports, discovery, `_resolve_catalog` | cycles, overlapping outputs, names that differ in case | a total order that respects needs |
| Command `cli.py`, `commands/contracts.py` | result, completion boundary, private roots | `main`, `invoke_contract`, `_finish_result` | teardown after success, errors while reporting | exit code, record, announcement and private roots agree |
| Receipt export `contracts/evidence.py` | staging directory | `export_package` | reads of a dozen files that others replace; three renames | one story; the bundle comes last |
| Audit `audit/`, `scripts/run_deliver.py`, `.github/actions/attest` | none of its own | `run_gate`, `run_audit`, policy discovery and merge | commits, signatures, policies and lookups come from others | what passes is earned, what is refused is refused for what it says |
| Logger `core/contract_logger.py`, `contracts/events.py` | transcript, activity, live region | every call of the run's loggers | two screens that differ, pipes that break, heartbeat | the transcript is exact and the same; the screen does not lie |
| File replacement `utils/atomic_io.py` | temporary file | `atomic_write_text` | power loss, Ctrl+C | old or new, whole; on POSIX, acknowledged is durable |
| Credentials `core/auth.py` and others, package models, lock file, `commands/check.py` | caches | - | external hosts | not part of the run's control |

How they interact: `main` calls `invoke_contract`, which prepares the package and
its imports in private roots (context managers), resolves and plans, and calls
`run_contract` or `run_chain`. `run_chain` calls `run_contract` per node;
`run_contract` calls `run_attempt`, or `run_repair`, which calls `run_attempt` per
attempt and passes a callback (`on_created`) that links the new record.
`run_attempt` and `_run_checks` call `supervise_process` with callbacks that feed
the decoder, poll the logs, tell the logger and write the record; the agent calls
the artifact server, another process, whose log `run_attempt` reads at the end.
Every record is written by `atomic_write_text`. When the result is back, `main`
leaves the contexts, validates the sealed result, renders it and exports the
receipt; an error on this way calls `halt_chain`. The audit shares nothing with
the run but the receipt, the delivered files and their attestation.

## 2. Modules

| Module | Models | Code |
| --- | --- | --- |
| `ProcessContract` | what an observation of a process can be; `normalize_check`, `_producer_failure` | interface of supervisor and engine |
| `RecordPromise` | abstract: what a record owner promises to readers of the record and to its caller | - |
| `Attempt`, `AttemptPromise` | one attempt with its record; its refinement of `RecordPromise` | `engine.py`, `AttemptStore` |
| `Supervisor`, `WindowsSupervisor` | the two supervisors against a process tree | `process.py`, `process_windows.py` |
| `Repair`, `RepairPromise` | the repair controller; its refinement | `repair.py`, `ControllerStore` |
| `Chain`, `ChainPromise` | the factory; its refinement | `chain.py`, `ChainStore` |
| `TextLines`, `Decoder`, `ArtifactServer`, `NativeLogs`, `Preparation`, `Session` | a session with a native agent: lines, both decoders, the artifact server, the log mirror, the request, and their composition | `stream.py`, `opencode_stream.py`, `artifact_*.py`, `git_export.py`, `native_logs.py`, `*_runtime.py` |
| `Resolution`, `Supply` | graph of a factory; everything before a run | `resolution.py`, `install/`, `frontend.py`, `imports.py`, `native_integrity.py` |
| `Completion`, `Command` | from the result to the exit code; the whole command | `cli.py`, `commands/contracts.py`, `halt_chain`, publication of `export_package` |
| `AtomicWrite`, `Transcript`, `Logger`, `Screen`, `Workspace`, `Evidence`, `Keeping` | what is kept and shown | `atomic_io.py`, `contract_logger.py`, `events.py`, `workspace.py`, `file_capture.py`, readers of `records.py`, `evidence.py` |
| `Receipt`, `AuditPolicy`, `Audit` | the receipt's content, the policy chain, the audit | `evidence.py`, `verifier.py`, `change.py`, `policy.py`, `identity.py`, `command.py` |
| `AttemptProofs`, `RepairProofs`, `ChainProofs`, `SupervisorProofs`, `SessionProofs`, `KeepingProofs`, `AuditProofs`, `CommandProofs` | theorems, section 5 | - |
| `MC*` | instances for TLC | - |

The modules fit together by contracts where a product state space would be out of
reach. `Supervisor` and `WindowsSupervisor` show that every observation they return
is in `ProcessContract!Supervised`; `Attempt` draws its observations from that set.
`AtomicWrite` shows (`AtomicResultsAreThree`) that a write ends *written*, *kept* (error, old file) or
*unsynced* (error, new file); these are `WriteResults` of `Attempt`, `Repair` and
`Chain`. `Attempt`, `Repair` and `Chain` implement `RecordPromise`; `Repair` and
`Chain` use only what it promises of the run below them, `Completion` takes the
promises of all three, and `Command` puts `Supply` before `Completion` as one
specification. `Session` ends in what `Attempt!Produce` assumes of reported exit,
protocol error and completion. `Keeping` and `Session` each gather parts that share no state,
or only tool calls: a variable `focus` says which part a behaviour explores, and
the others stay as they are.

Common conventions. `pc` (or `at`) names the next step of the code, one action per
step; a step that contains a write is split only where another actor can see the
difference. History variables are written but never read by the program's actions
and are marked as such where they are declared. An operator whose comment begins with
"Mutated" is a faulty variant of the one that follows it; no specification uses it.
It shows that the properties notice the fault.

### Attempt

`Admit` .. `Create` stand before the `try` of `run_attempt`, `Preflight` ..
`FinishCheck` in it, `Reduce` is the code after it, `Close` the second `try`,
and `FinishProvisional` .. `Reassess` is `AttemptStore.finalize`: the provisional
UNPROVEN is written, the evidence is assessed from disk, COMPLETE is written, and
the evidence is assessed again. `LeaveWith` are the except clauses. `bound`
tells a plan that carries an admitted inventory (repairs and factories) from one
that does not, for which `_assessed_inputs` reads the caller's live tree again.
`retained`, `subject` and `inputs` say whether the retained baseline and
artifacts, the workspace of the current check and the caller's tree hold the
captured bytes; `Meddle` toggles each of them at any time, so every property holds
whatever other processes of the user do between the code's looks. `data` is the
store's record in memory and `disk` the file; a failed write changes `data` and may
or may not change `disk`, as in the code, where `_data` is updated before `_write`.

### The promise of a record

`RecordPromise` is the abstract specification of all three owners: success is
visible only after one validation and returned only after two, an exception
withdraws it, nothing changes after the answer, and (its fairness part) every
invocation is answered. `AttemptPromise`, `RepairPromise` and `ChainPromise` give
the refinement mapping; the run property `KeepsPromise` is the whole of `Promise`,
liveness included.

### Supervisor, WindowsSupervisor

`Sample`, `Decide` and `Drain` are the three parts of one loop iteration: poll
and group test, stop and kill decisions, and select with the callbacks. The
clock advances between and within them (`lag`). Ages saturate at the largest
bound the code compares them with, so no bound on time is needed. The tree can
fork, leave the group while it holds the pipes, ignore SIGTERM and survive
SIGKILL for a while. `Cleanup` is six units because the code divides the
allowance by thirds and halves. On Windows the process exists before the job holds
it, Ctrl+C can strike inside any step and between any two (after `_JobProcess` was
constructed and before the `try`, in a handler, in the `finally`, in `close`), every
system call may fail, and closing the job ends what is left; the actions follow
`_JobProcess._start`, `supervise_process` and `_JobProcess.close` call by call.

### Repair, Chain

One loop iteration is `NextAttempt` .. `Judge`, or `Begin` .. `Accept`. The run
below is one action that returns any result its own model allows. `Chain` keeps
one quirk of the code: once `store.update` stored the node list, the record in
memory shares it (`Shared`), so a stop is in the record even if nothing wrote it
explicitly.

### The session

`Decoder` takes one frame of the native stream per action (Copilot's or OpenCode's
vocabulary, as the runtime says) and keeps what the code keeps: the message that is followed,
calls in flight, steps, models, the truncation of a line, the completion. A text is
private or public. `ArtifactServer` is the server's own steps (journal *started*,
work, journal *finished*) with death between any two and saves that fail, and
`capture_exports`. `NativeLogs` discovers, reads with its limits, carries partial
lines and flushes; the agent appends between any two reads. `Preparation` is
`build_contract_request`, with the user's configuration changing between its looks.
Assumed of the environment: the agent may send any frame but is honest about the
artifact calls it made; one server runs at a time and it ends with the process
group; OpenCode ends a step after the step's tools; logs are only appended to.

### Supply, Resolution, Command

`Supply` is everything before a run. What others write (the caller's manifest and
lock, the package's directory, the installed copy, the APM program) is `disk`, and
every comparison with it is an action of its own; what the command keeps is what
the code keeps: a digest, a hash or a parsed lock. APM is external and may answer
with any lock and tree of the world's `answers`, except that `--frozen` keeps the lock.
One node's plan and inspection stand for all nodes of a factory. `Resolution` is
the depth-first search of `_resolve_catalog` with its calls on an explicit stack (`Visit`
is one round of the innermost loop, one return, or one step of the loops around them;
`Search` repeats it); `Sound` defines what a result means without a search. `Command` adds the private roots.

### Keeping

Six parts, one at a time. `AtomicWrite`: `stored` is the set of contents the file
may have after a loss of power; a replacement whose data was not synced adds `Torn`,
a directory sync leaves only the new content. The code syncs the directory only where
`posix` (`os.name`) says so, and elsewhere an acknowledged write may be lost, whole. `Transcript`: the bounded transcript,
line by line. `Logger` and `Screen`: the methods of the loggers as functions on the
state of one screen, and the calls of one command in their order, applied to several
screens in lockstep; each screen's pipe may break in each call, and a prompt is
answered with yes only while every screen lives. `Workspace`: a file is its bytes
and a stamp that every write renews. Every copy, every look at the integrity of a check and
the writing of a delivery goes file by file (`OpenFile`, `ReadFile`, `WriteOutput`, `ReadBack`,
`VerifyFile`), and the rename that shows a delivery looks at nothing again. Meanwhile the caller edits
the caller's tree; the agent its directory and the baseline beside it; and what outlived agent or check the
delivery that is being written or was shown, the subject of the check and the baseline (`Reached`). The caller's
lock is compared with the plan only where there is no package source (`Expected`). `Evidence`:
the reads of a finished invocation, record by record and file by file, while others
replace things; `DeliveryReads`, `StageReads` and `AttemptReads` are its three stages.

### Audit

A world is a run, a repository and policies. The platform signs the receipt and
delivers its files as a pull request (`Deliver`, `AttestBundle`,
`AttestSummary`), author and base go on (`lively` worlds), and `run_gate` or
`run_audit` judges. A question to GitHub or APM may stay unanswered in `flaky`
worlds; `doubt` remembers it. GitHub's store, `gh` and APM are external: an
attestation is stored for every content its statement names and listed in either
order, `PerPage` at a time; the code reads the first page (`Listed`), and takes the 404 of a
`concealed` repository for an empty one. The signature format is
an oracle: what the store lists was signed by its certificate. git may fail to answer, too: where the code reads
the failure as an answer, the model does (`AncestorUnanswered`: a commit that is not in the history), and
where nothing catches it the audit ends *raised*, a traceback with exit code 1
(`GateRaises`, `FetchFails`). A present policy level without an enforcement counts as *block*.
Of receipts without a lock `Dependencies` covers what `export_package` can write; the
code's own handling of others (a bill of materials without a lock) is left out.

## 3. Runs

| Run | Instance | Shows |
| --- | --- | --- |
| `attempt` | 2 checks, fair | what is recorded and returned is earned; deadline; promise and termination |
| `supervisor` | both platforms, timeout 2, unit 1 (cleanup 6), 2 presses of Ctrl+C, fair | true observations, nothing left running, bounded overtime, termination |
| `session` | 4 frames in any order, or 3 of prose; 2 operations, 2 starts; 2 logs of 2 bytes; 2 foreign servers, 1 change | completion, tool calls, log mirror, preparation, privacy |
| `repair` | 3 attempts, 3 candidates, fair | links, retries, selection, promise, termination |
| `chain` | 3 contracts, edge 1 to 3, fair | order, handoffs, aggregate record, promise, termination |
| `completion` | families of commands, up to 3 edits by others | pins, factories, exit code, receipt, private roots |
| `keeping` | see below | durability, transcript, screens, carried bytes, one story |
| `audit` | families of worlds, chain of 2 levels, 3 lookups, 2 first files, 3 names | what the audit passes and refuses |
| `receipt`, `stop_recorded`, `atomic_temp`, `twins` | as above, or worlds of their own | findings, section 6 |

Bounds. Two checks are the smallest number with a first check, a last one and a
passing prefix that is not the whole; the theorems cover every number. Three
candidates in three attempts contain the repetition of a candidate with another
one in between, and a budget that ends with nothing repeated. Three contracts with
the edge from first to last contain a node that feeds a later one, one that
feeds nobody, one between producer and consumer while the handoff can go stale,
and a stop in each position. A timeout of two ticks and a cleanup of six keep all
orders of the timeout, the leader's exit, grace, kill and allowance apart.

*Session.* Two messages and two models are one more than the decoder's limit is set to
(`MessageLimit`, `ModelLimit` 1), three calls one more than `CallLimit`, texts one
longer than `TextLimit`, two starts the smallest number with an operation log that a
second server continues, and logs are as long as `ChunkLimit` but two of them exceed
`ByteLimit`, so every limit is met from both sides.

*Completion.* `MCCommand` defines one family for each thing the preparation depends
on: `Declaring` (every manifest and lock), `Pinning` (others write the lock, the
manifest, the program and the stage), `Local`, `Consents`, `Changing` (a factory that
changes while the user reads it), `Importing`, `Graphs` (all factories of two
contracts over four names, two of which differ only in case, and connections of
three), `Through` (to the exit code, with kills). Two or three edits contain a
change between two looks and a change back before the third.

*Keeping.* Three writes contain a failed one between two that returned. A budget of
five bytes with lines of one to three, five of them, contains a line that no longer
fits and a shorter one after it. The screens are a plain one beside a verbose or an
animated one; all 32 combinations of options are explored up to the run, and in the
run a contract and a factory of two with a handoff, each also under a repair budget (2
attempts); one event per phase, heartbeat 1, sparse notices 2, clock 2. Nine file names
give each kind of file a member, with one edit by anybody at any time: a second edit
is only needed to restore bytes, and the stamp would tell. Evidence: runs `q`
(a rejected attempt), `r` and `s`, of which two things are replaced.

*Audit.* `ChangeWorlds`, `StoreWorlds`, `ChainWorlds`, `FindingWorlds`,
`ReceiptWorlds` and `InstallWorlds` each vary what one part depends on and keep the
rest ordinary. Policies extend one another over three levels and
in a ring, more than the two that `MaxChain` (`_MAX_CHAIN` scaled down) allows; three
lookups and two first files let both other limits be passed. A page of three holds what one run stores and one
rival; `PageWorlds` have three rivals, so the run's summary is on the first page in one order of listing and behind it in the
other. `AuditAssumption` asks of a page that it holds what one run stores; in the code it has room for 100. `Reverting` is a run whose second
contract undoes the first and deletes a file: its pull request only deletes, no file is left to
look a summary up by, and the gate refuses it as no delivery. `docs/audit.md` asks only about
files that are added or modified, so `HonestDeliveryPasses` asks for one.

There is no state constraint and no symmetry; every run is exhaustive.

Fairness. `WF_vars(Step)` says that the program keeps executing its next step;
each step of `Attempt`, `Repair` and `Chain` is a bounded computation or a
supervised process, and that a supervision ends is what `SupervisionEnds` shows
from the progress of the loop (every iteration's `select` or wait has a timeout of
0.05 s) and of time (`WF_vars(Tick)`). Nothing is assumed of the process tree, the
user or the file system. Deadlock is not checked because all programs end.

Each property of a passing run is paired with a mutant in `PROJECT.json`: the
definition named there, replaced by its "Mutated" variant, makes TLC find the
property violated.

## 4. Properties

* `attempt`: `SuccessIsEarned` speaks of any reader at any time, so it includes what
  is on disk after a crash. `VerdictsAreAssessed`: no verdict while a process may be
  alive, no REJECTED without an assessment. `RepliesAreRecorded`: what is
  returned is what the record says, and an error leaves no success visible that it does
  not speak of; a Ctrl+C outside the try blocks (between those of `finalize`, or in
  `fail_finalization` before its own) may, but only of evidence that passed validation.
  `DeadlineHolds`, `KeepsPromise`.
* `supervisor`: `ObservationKeepsContract`, `ConfirmedIsGone` (confirmed cleanup means
  gone), `InterruptEndsTheRun` (Ctrl+C is never lost), `NothingIsLeftRunning` (doubt
  follows a kill; on Windows nothing runs outside the kill-on-close job, and only a
  Ctrl+C outside the `try` or in `close` leaves that job open, until apmx ends),
  `OvertimeIsBounded`, `SupervisionEnds`.
* `session`: `CleanSessionIsWhole` (a stream that lets the run go on announced its
  completion and said nothing else that speaks against it, however late), `AcceptedWorkIsSettled` (outputs are accepted only
  if no tool call was left half done and none failed from the agent's point of view), `QuietMirrorIsComplete` (a mirror that ended
  without a notice showed every byte of every log once and in order), `OnlyOwnServerIsEnabled` (as of the last
  look), `PrivateStaysPrivate` (no step shows private text).
* `repair`: `SelectionIsEarned`, `EveryStartIsLinked`, `RetryIsJustified`,
  `KeepsPromise`.
* `chain`: `CompleteIsWhole`, `NodesRunOnAdmittedWork` (nodes run in order, on bytes
  that were admitted), `KeepsPromise`.
* `completion`: `ExitIsAccounted` (exit 0 means delivered, and a command that leaves
  a private root behind does not end as if all were well), `ExitAgreesWithRecord`, `BundleIsLast`, `PinHoldsAcrossSteps` (what is
  captured, what the lock names and the program that ran are those recorded, unless somebody
  put something back),
  `ResolvedGraphRuns` (what is resolved is `Sound`, and an error of the search is
  justified).
* `keeping`: `AcknowledgedSurvives` (what a loss of power leaves of a durable write is whole, and on POSIX
  as recent as the last write that returned), `TranscriptIsExact` (the beginning and the end
  of what was said, and the exact size of what is missing), `TranscriptIgnoresTheScreen`, `ScreenTellsTheTruth` (what a screen says
  of handoffs, progress and ends is so), `CarriedBytesAreAdmitted` (the agent starts from what was admitted
  and planned, but for the caller's lock beside a package, which is compared once and read again; the program shows a
  delivery whole or not at all; a verdict stands on the captured bytes if nobody edits from the end of the check
  on), `ReceiptIsOneStory` (what a receipt is made from belongs together).
* `audit`: `GateIsEarned`, `ReceiptIsWhole`, `AuthenticatedIsBound`,
  `HonestDeliveryPasses` (an unedited signed delivery of some file passes when all is answered, and is
  called invalid only where git left open whether its commit is in the history of the base), `InvalidIsDefinite` (a lookup
  that failed never reads as one that found nothing: *no delivery* and *no summary* are true of the page that
  was read), `ChainTightens` (a level never loosens those above it).

## 5. Proofs

TLAPS checks the theorems of eight modules. Each is about the specification a run
checks, for every behaviour and for all values of the constants that satisfy the
assumptions of the module that declares them; most state a property a run checks.

| Module | For every | Theorems |
| --- | --- | --- |
| `AttemptProofs` | number of checks | `AttemptTypes`, `AttemptSuccessIsEarned`, `AttemptReplyIsRecorded`, `AttemptNoStraySuccess`, `AttemptRepliesAreRecorded`, `AttemptVerdictsAreAssessed`, `AttemptDeadlineHolds`, `AttemptKeepsItsRecordPromise` |
| `RepairProofs` | budget of 1 to 16 attempts, set of candidates | `SelectionEarned`, `StartsLinked`, `RetriesJustified`, `RepairKeepsItsRecordPromise` |
| `ChainProofs` | number of contracts, graph whose edges go forward | `FactoryIsWhole`, `WorkIsAdmitted`, `FactoryKeepsItsRecordPromise` |
| `SupervisorProofs` | timeout, cleanup allowance, number of Ctrl+C; both platforms | `ContractKept`, `CleanupIsTrue`, `InterruptIsKept`, `DoubtIsSettled`, `OvertimeBounded` |
| `SessionProofs` | number of frames, operations, server starts, log files and bytes in them; any limits and foreign servers | `CleanIsWhole`, `WorkIsSettled`, `ForeignStaysOut`, `ProseStaysPrivate`, `QuietMirrorShowsAll` |
| `KeepingProofs` | invocation, task and number of edits; number of writes; number and length of lines; screens, factory and budget | `ReceiptTellsOneStory`, `BytesStayAdmitted`, `AtomicAcknowledgedSurvives`, `AtomicResultsAreThree`, `TranscriptAccounts`, `KeptSideBySide`, `RetainedOnEveryScreen`, `ScreensTellTheTruth` |
| `AuditProofs` | run, repository, store, pull request, policy chain and its length, limits of lookups | `ChainOnlyTightens`, `GateEarned`, `SignatureBound`, `GateIsPassedByRun`, `ReceiptWhole`, `AuthenticatedBound`, `InvalidDefinite`, `HonestPasses` |
| `CommandProofs` | world of the preparation: catalog, package, answers of APM, number of edits | `ExitAccounted`, `ExitAgrees`, `BundleComesLast`, `PinHolds`, `ResolvesWhatIsSound`, `ResolvedFactoryRuns` |

None of these properties is inductive by itself. They speak of an end (an outcome, a
selection, a receipt) and what makes them true was decided many steps before, in
variables that the end does not look at; each inductive invariant adds those
decisions. TLC checked every invariant on the run's instance before it was proved.
The proofs have one lemma per part of the invariant and one step per action.

*Attempt.* `IInv`: the checks observed so far are counted and the rest is
empty (`ChecksCounted`), an assessment happens only at the validation steps and
their number is known at each step (`ValidationsCounted`), a passing check had
an unchanged subject at both ends (`PassesWereJudged`), after a validation the
facts it established no longer change (`ValidationIsFinal`), the record never
claims more than that (`RecordsAreHonest`), and neither does an answer
(`RepliesAreHonest`). For the verdicts, `VInv` adds what the failures leave behind: the
record counts the checks (`RowsAreCounted`), a run that goes on without a stop reason
has everything behind it (`NothingIsSkipped`), a process in doubt has stopped the
attempt (`DoubtStops`), and a stopped attempt is HALTED while a rejection
saw all checks (`VerdictsAreGrounded`).

*The record promise.* The three refinement theorems prove the safety part of `RecordPromise`,
`Record!PromiseInit` and `[][Record!PromiseNext]_(Record!promiseVars)`, under
each mapping. What they need beyond the invariants is an invariant on what a
reader sees at each program point: `SightIsOrdered` for the attempt,
`ProgressIsOrdered` for the controller and the factory.

*Repair.* Until a write fails, the file is what is in memory (`DiskIsCurrent`); the
recorded rows are the attempts, in order and before their producers start (`RowsAreAttempts`), all but the last assessed rejections of different
candidates (`EarlierAreRejections`); a stop was judged on the last one
(`StopIsJudged`), and a selection is that one (`SelectedIsCurrent`). The
assumption `MaxAttempts \in 1 .. 16` is the code's own bound on budgets. The
candidates may be infinitely many.

*Chain.* Contracts before the current one were accepted, those after it have not been
touched, and a stop leaves everything after it unstarted (`WorkIsOrdered`); nothing is
judged before the capture (`CaptureComesFirst`); the aggregate names what the nodes
came to (`EndIsWhole`) and success is visible only of a whole (`ShownIsWhole`). The
graph is any that `resolution.discover` can order (`ChainAssumption`).

*Supervisor.* One invariant for both platforms: who can be alive, and in whose
hands (`TreeIsOwned`), nothing follows a confirmed cleanup (`ConfirmationIsLast`), what
an iteration sampled is still so when it decides (`SampleIsPast`), an end without
a reason was a clean one (`EndIsExplained`), which signals were sent by when
(`SignalsAreOrdered`). `OvertimeBounded` is a theorem about time: its invariant
`OverdueIsNoticed` says that a bound that was passed is noticed by the next
iteration, and how many ticks the present one can already hold. The ages saturate
in the model; the theorem covers that, as it holds for every `Timeout` and `Unit`.

*Session.* The decoder (`AskedOnce`, `HeardIsReported`): whatever
speaks against a clean end becomes a protocol error and stays one, in either
vocabulary. The artifact server (`LogTypes`, `LogKnows`): the log on disk knows of an
operation before anything happens, so an effect without its end in the log shows.
The agent (`CallTypes`, `CallIsKnown`, `WrongIsHeard`): a call that failed is in the
decoder or in the line it has still to read. The preparation (`ForeignIsDenied`): what
was denied is what was last seen. Together they give what is accepted
(`AcceptedLog`). `ProseStaysPrivate` is an action property: every frame and the
last flush are `Discreet`, whatever `Feed` makes of a text, because a message
that is not public feeds nothing. The mirror (`MirrorInv`): as long as there was no notice, what
was read of a file is its beginning, and its lines follow that text (`Follows`), or it can
be seen for good that the file is another one (`Mirrors`); a last poll in which nothing moved read
everything (`NothingMoved`), because a read of no bytes is the end of the file: `ChunkLimit` is not
0 (`LogAssumption`) and the byte limit was not met.

*Evidence* (in `KeepingProofs`). `EvidenceInv`: a pass reads each thing once and what speaks of it
before it (`PassProgress`), what was found replaced is still so
(`Remembrance`), what a pass read agrees with itself and the sealed records
(`SeenAgrees`, `SealAgrees`), the root does not contradict itself (`RootIsJudged`),
the receipt agrees with the documents (`ReceiptAgrees`), and the last pass has seen
again what both were made from (`ConfirmedStory`). The invocation is any that
satisfies `InvocationAssumption`: the forms a finalized result can have.

*Workspace* (in `KeepingProofs`). `WorkspaceInv` follows the bytes from place to place: the snapshot and
its copy (`SnapshotOk`, `SourceCopied`), the mapping and the admitted inventory
(`MappedOk`, `AdmittedOk`), baseline and producer (`BaselineCopied`,
`ProducerCopied`), the delivery (`DeliveryWhole`), the subject of a check and a view of it
(`VerdictOk`, `ViewCopied`). `TaskAssumption` states what `frontend.py:293-345`
refuses: outputs that overlap inputs or what the run needs beside them, and
supplies that nobody asked for.

*Transcript* (in `KeepingProofs`). What was said is what the transcript holds of its beginning, a
gap, and what it holds of its end, and the counted lines and bytes are those of the gap
(`TranscriptInv`). `KeptSideBySide` carries what `KeepingProofs` shows of each part over to
`KeepingSpec`, which the run checks.

*Screens* (in `KeepingProofs`). `RetainedOnEveryScreen`: that the last call retained the same everywhere (`agree`)
is not inductive. `Alike` says what two screens must have in common so that the next call retains the same too:
what was disclosed, noticed and told of the factory, and of each logger all but the clock of what the screen
showed last (`spoke`); of the attempts and the contract, which lines were given but not when.
Verbosity, animation, the pipe and that clock are free. Each method of the logger takes alike screens to alike
ones (`...Alike`), the two that only show leave a screen alike to itself (`...IsQuiet`), so each call agrees
(`...Agrees`). `ScreensTellTheTruth`: most methods are `Steady`, that is they keep what is said of the factory and which
loggers are closed, and `CloseLasts`, `ResultTells`, `FlushHandoffHands`, `ChainNodeHands`, `ChainStoppedWaits` and
`ChainResultHands` say what the others change. `Truth` follows outputs that wait (`pending`) to
the admission: they are of the contract that has just ended, of an admitted one, or of a chain that
stops; what is admitted counts as complete, so nothing waits for it; the root logger
is open before the run and the logger of a contract has not told its result before it ends, without which the
animation could survive the end. `LoggerAssumption` (a budget is not 0, contracts are numbered from 1) and
`RequestsAssumption` (the options a command is asked with) are all that is assumed.

*The whole command.* `EndInv`: what is recorded is the result until a stop rewrote it
(`RecordIsResult`), a receipt and an announcement stand for a sealed, complete one (`Delivered`), what
remains of the private roots is what a failed removal left (`RootsAreLeft`), and how a
command may end with each code (`Ends`). `PinInv` follows a pin: the
source is of the lock that was read (`SourceIsOf`), the tree of the lock (`TreeIsLocked`), the stage and the
lock are as they were prepared unless somebody moved them (`LockIsKept`, `ProgramIsKept`, `CaptureIsPrepared`).

*The search of `Resolution`.* `SearchInv` is an invariant of `Visit`, and by induction on the number of
steps of `Search`: the stack is a chain of contracts each of which needs what the next
one makes, all its finished contracts are in the order behind what they need, and an error is a
reason (a ring, a missing or a misspelled name). Each step does one of finitely many chores that is never
done again, and `Steps` is their number, so the search ends; it ends with everything in order or with an
error, and a ring cannot be ordered. `ResolvesWhatIsSound` says so for every catalog
and every set of the caller's files; `ResolvedFactoryRuns` adds that the command runs the catalog it resolved and
the user confirmed (`GraphInv`).

*Audit.* A merged policy is at least as strict as each level (`PolicyIsMerged`,
`MergeTightens`); this is `ChainOnlyTightens`, an action of the discovery at a time,
for chains of any length. For the gate, `SignedInv` adds that a lookup holds only what the store
vouches for by a signer of the merged list (`LookIsHonest`), that a row that reads
valid was judged on those statements (`GateIsPassed`), and that the chain is the one of the base
(`ChainIsOfBase`). `GateEarned` then says, for any store, chain and pull request, what a
pass is worth: the summary is vouched for by a signer that every list of every level accepts, each
changed file has the bytes it names, each deletion is the run's, each file before was what the
run started from, and the run is allowed. `SignatureBound` needs one conjunct more,
`SignerIsFound`: a signer is reported only once a summary was found, beside a receipt
only of a summary that binds it, and what a pull request is judged on was fetched by that
summary.

Both speak of the statements under audit. The properties of the run go on to the run that made
them, which needs what the signing platform wrote. `FlattenIs` (a flattened list is one list after the other),
`ExportIsReceipt` (a provenance, then results and one inventory), `Selected` and `SummaryLast` (what the verifier
finds in such a list, also with the summary appended) say what a receipt is;
`BundleSays` says of both runs in the store that their provenance tells the delivery, the definition and
the images before. `StoreIsSigned`: every summary in the store names one of the two. So a
fetched receipt has the provenance of the run that was signed (`NamedStatements`), and where the audit believes
the delivery to lie is where it was signed (`PlacedWhereSigned`: all files of a placement
share one prefix, `OnePrefix`). `GateIsPassedByRun` follows from `PassedIsEarned`, and `AuthenticatedBound` from
`SignatureIsBound`. `ReportIsEarned` is the invariant behind `ReceiptWhole`: a report that is still
valid past a row has what the row asks for (sound statements, unchanged files, an allowed definition,
dependencies that install); `OnDiskTells` says of each way a receipt file can be damaged that what is
left still tells the run's definition and skills when it is sound, so that what the lists allow is
what they allow of the run (`AllowedIsPermitted`).

`InvalidDefinite` is about the other verdict. `LookupIsTrue`: of each content that was answered, nothing is
attested in that repository, and what is neither answered nor left stayed unanswered;
`CheckIsTrue`: a signer no longer asked has no summary that covers the change, or something was left
open. `EveryContentIsAsked` needs the first file of each content, which exists because positions are
well founded; that all files of a pull request have one (`PullIsKnown`) holds because authors, bases and
rebases only write known names. `ReportIsTrue` then says that a row that reads *fail* was put there by one of these two. All of it speaks of what
is `Shown`, the page the code reads, in whatever order the store lists.

`HonestPasses` is the converse of `GateIsPassedByRun`: the factory's own work gets through. `HonestChange` and
`HonestStore` say what an unedited delivery touches and what the store has of it. `HonestGoesOn` follows the
audit from place to place: while it looks, no question was spent twice and one that would have found the
summary stayed unanswered (`Asking`; so `MAX_LOOKUPS` is not reached when there are not more questions than
that); while it checks, the summary is found, or a signer who vouches for it is
still to be asked, or a question stayed open (`Finding`); from then on it judges the run's own
statements, which pass each comparison of the verifier: what the platform verified before
it signed (`CarrierIsSound`) still holds with the summary appended (`SummaryKeepsSound`), and a delivery in
which no file's path ends another one with the same bytes has its place (`PlacedSomewhere`, from `SuffixesOfOne`:
of two tails of a path one is the tail of the other). What every level allows, the merged rules allow (`PermittedIsAllowed`). The two
attestations of a run fit on a page (`FewerThanAPage`), so the store shows them. So only
what stayed unanswered keeps the report from being valid, and only the question about the commit makes it invalid
(`Open`).

`WorldsAssumption`: the gate is asked about pull requests, stages and policies have the shape the
code parses, and what the store held before is one of the three rivals. `NamesAssumption`: the files of base and
deliveries are among `Names`. `RunAssumption`: deliveries are of regular files (`REGULAR` in
`patches.py`; a plain output becomes one).

*AtomicWrite.* A durable
replacement was synced, nothing the path may show is older than what was acknowledged
(`StoredIsRecent`), and where a write stands decides which of two versions is there
(`TargetIsOneOfTwo`). `AtomicResultsAreThree` is what
lets the other modules take `WriteResults` for granted.

*Induction over data.* The library's induction theorems take an operator as a parameter, which the
installed provers cannot instantiate. Where a proof needs induction (the search, the size of lines, what a text shows
and what `Feed` makes of a chunk), `LeastOf` derives it from the theorem that `<` on the
natural numbers is well founded, which takes a set, and `Induct` and `ListInduct` state it for a *set* of numbers or of
lists that is defined on the spot. A fold of the community modules is a table over
the subsets of a list's positions, and is read off row by row (`PartialIs`, `SeenIs`, `FedIs`).

What proving changed in the models: in `Receipt` and `Audit`, what is selected of a receipt keeps its places
(`Of`, `Lines`) and a statement of which there is one is chosen (`The`), as the verifier does; the older run of `Aged` is of all contracts; what worlds take for
granted is spelled out, and generalising `HonestDeliveryPasses` showed that a run that only deletes is refused. In `Logger`, what a line retains and what it shows are operators of their own
(`Retain`, `Show`), because each has a law of its own; the search of a factory was recursive operators and is
now the iteration of a step; `Sound` did not require of a needed name that somebody makes it in this
spelling; what the preparation takes for granted of its worlds became
`SupplyAssumption`, `ContentsAssumption` and `SortingAssumption`, which showed that `MCSorting` had left out names
and led to one more world of `MCCommand`; `ChunkLimit` must not be 0; `Size`, `Visible` and the entries of
the log mirror are written so that they can be reasoned about.

### What is only model-checked

Liveness: `SupervisionEnds` and the part of the three `KeepsPromise` that says every
invocation is answered. Liveness under fairness is out of the prover's reach. Every other property of a
passing run is the subject of a theorem.

## 6. Findings

1. `ReceiptOnlyOfComplete` (run `receipt`). `docs/results.md:21-22` says that
   HALTED runs never have a receipt, but an error or Ctrl+C while
   `evidence_package` reports a published receipt (`cli.py:93`) reaches the
   handlers of `main`, which rewrite the COMPLETE record to HALTED.
2. `StopIsRecorded` (run `stop_recorded`). `halt_chain` compares the recorded
   result with one that carries the controller reference of a repair
   (`records.py:1532`), which no leaf record holds. A repaired run that fails in
   teardown therefore always reports "stop persistence is unconfirmed" and stays
   COMPLETE on disk, with exit 22.
3. `NothingIsLeftBehind` (run `atomic_temp`). The docstring of
   `atomic_write_text` promises that the temporary file is removed on any
   failure, but `except Exception` (`utils/atomic_io.py:125`) does not see Ctrl+C.
4. `SignedDeliveryIsAccepted` (run `twins`). `vsa_prefix` (`audit/verifier.py:794`)
   takes the directory of a delivery from the first delivered file with the
   subject's digest whose path is a tail of the subject's. With two equal files, one
   path the tail of the other, an unedited signed delivery can be refused, although
   `docs/audit.md:91-94` asks only for what it has.

Three more places where the audit says something else than `docs/audit.md` are in the model as the code
has them, and limit what the properties of the run `audit` claim:

* `is_ancestor` (`audit/change.py:194`) reads every failure of `git merge-base` as *no*, so an unedited signed
  delivery is stale and INVALID, exit 1, when git did not answer; `docs/audit.md:326` gives exit 2 to "a PR
  change that could not be read". `HonestDeliveryPasses` allows this refusal and no other.
* `run_gate` reads the changed files outside any `try` (`audit/command.py:419`), and the handler around
  `statements` (`audit/command.py:484`) does not take the timeout of `gh`. The audit then ends in a traceback,
  whose exit code is 1, where `docs/audit.md:326` gives exit 2 (`GateRaises`, `FetchFails`).
* `_attestations` and `carries` (`audit/identity.py:220`, `audit/identity.py:180`) ask for one page of 100 and
  never for the next; the contents of a file that does not change gather two attestations with every run. A summary
  behind the page is not found and the gate says INVALID. `InvalidIsDefinite` therefore speaks of that page.

## 7. Not modelled

* Bytes. Hashing, JSON, sizes and byte limits of captures, modes, links and the layout of
  statements are abstracted to "unchanged" or "changed", or to which thing refers
  to which. The repository made in each workspace copy is left out.
* Wording, widths, gaps between blocks, tails and excerpts of output in the logger.
  `_CheckEvidence.excerpt` has no caller outside tests.
* The grammar of contracts, the quoting of check commands, the vocabulary of the
  adapters' command lines; the construction of a git package inside
  `contracts/patches.py` beyond what a replay of a patch needs.
* `core/auth.py`, tokens, TLS (credentials for external hosts), `models/` and
  `deps/lockfile.py` (data and parsers), `commands/check.py` (a stateless helper),
  `scripts/` of the release.
* The re-load of the result by the history view.
* A git that does not answer while the policy at the base is looked for: `policy.py:484` reads it as a policy that is
  not there. In the model git answers that question.
* The reuse of a process group's number by the kernel, concurrent apmx commands on one
  project (every run allocates a directory of its own), and a second command that exports
  again after an export failed.
* In `Evidence` nothing that was replaced is put back: the code itself claims nothing
  against mutation and restoration by the same user.

## 8. Plan

Done: in the first stage `ProcessContract`, `RecordPromise`, `Attempt` with its
refinement and proofs, `Supervisor`, `Repair`, `Chain`, `Completion`,
`AtomicWrite`; in the second the session, `WindowsSupervisor`, the audit,
`Supply`, `Resolution`, `Command`, and `Keeping`, and a promise that includes that
every invocation is answered; in the third the theorems about the controller, the
factory, both supervisors, the session, the evidence, the captures and the audit; in the
fourth those about the whole command, the search of a factory, the transcript, the log mirror, and
what the audit's verdict says of the run that was signed.

Next, models: the export of a git package beyond `export_changes`; the check
subcommand; a second command after a failed export.
