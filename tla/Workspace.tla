------------------------------- MODULE Workspace -------------------------------
(***************************************************************************)
(* How the bytes of one contract travel (contracts/workspace.py): from the *)
(* caller's tree into a snapshot of the project, the inventory, the        *)
(* baseline and the agent's directory, from there into the retained        *)
(* delivery, the subject of a check and the view of a factory.  Every copy *)
(* reads file by file while the caller goes on editing, and while the      *)
(* agent and the check, which are not confined, may edit what they reach.  *)
(*                                                                         *)
(* A file is its bytes and a stamp that every write renews (device, inode, *)
(* size and times).  Names stand for their destinations.  The repository   *)
(* in each copy and the sizes of files are left out.                       *)
(***************************************************************************)
EXTENDS Integers, FiniteSets, Functions

CONSTANTS
  Absent,      \* not an element of the other sets
  FileNames,     \* files of the trees
  Kind,      \* what a name is: [FileNames -> Kinds]
  Folded,    \* a name without its case: [FileNames -> names]
  Contents,  \* bytes of a file
  MaxFiles,  \* baseline_files
  Tasks,     \* what is run
  Callers,   \* trees of the caller, before they change
  MaxEdits   \* bound: edits by others

Kinds == {"source", "lock", "check", "input", "skill", "native", "excluded", "nested"}

Files == [bytes : Contents, stamp : Nat]
IsMapping(f) == DOMAIN f \subseteq FileNames /\ f \in [DOMAIN f -> Contents]

Places == {"caller", "package", "imports", "upstream", "rejected", "project", "baseline",
           "producer", "references", "source", "pending", "artifacts", "subject", "view"}

ASSUME WorkspaceAssumption ==
  /\ Kind \in [FileNames -> Kinds] /\ DOMAIN Folded = FileNames
  /\ Absent \notin Places \cup FileNames \cup Contents \cup Files \cup [name : FileNames, file : Files]
  /\ \A names \in SUBSET FileNames : Absent \notin [names -> Contents]
  /\ MaxFiles \in Nat /\ MaxEdits \in Nat

\* What the front end admits: outputs overlap neither inputs nor what the run needs
\* beside them, an earlier contract supplies inputs, and imports have places of their own
ASSUME TaskAssumption ==
  /\ \A files \in Callers : IsMapping(files)
  /\ \A t \in Tasks :
       /\ IsMapping(t.package) /\ IsMapping(t.imports)
       /\ IsMapping(t.upstream) /\ IsMapping(t.rejected)
       /\ t.needs \cup t.outputs \subseteq FileNames /\ t.outputs \cap t.needs = {}
       /\ \A n \in t.outputs : Kind[n] \in {"input", "excluded", "nested"}
       /\ DOMAIN t.upstream \subseteq t.needs
       /\ \A n \in DOMAIN t.imports : Kind[n] = "skill"

VARIABLES
  tree,       \* the files of each place
  task,       \* what is run
  job,        \* the files still to carry, and from where
  open,       \* the file that is being read, or that was just written
  entries,    \* what the present job has read
  planned,    \* digests of the sources when the plan was made
  project,    \* entries of the project snapshot
  inventory,  \* entries the plan admits, once it has them
  taken,      \* the delivery as it was captured
  verdict,    \* what the check and its integrity came to
  meddled,    \* edits by others so far
  ended       \* history: edits by others when the check ended

workspaceVars ==
  <<tree, task, job, open, entries, planned, project, inventory, taken, verdict, meddled, ended>>

Empty == [n \in FileNames |-> Absent]
Held(place) == {n \in FileNames : tree[place][n] # Absent}
Bytes(place) == [n \in Held(place) |-> tree[place][n].bytes]
NoBytes == [n \in {} |-> Absent]

-----------------------------------------------------------------------------
(* Which files are carried *)

Application == {n \in FileNames : Kind[n] = "input"}
Resources == {n \in FileNames : Kind[n] \in {"source", "lock", "check"}}
Collides(names) == \E m, n \in names : m # n /\ Folded[m] = Folded[n]

\* _project_names: what is tracked or not ignored, save outputs, skills, excluded
\* directories and resources.  With a snapshot its own names, when it is unchanged.
Supplied == DOMAIN task.upstream
Produced == {n \in FileNames : \E output \in task.outputs \cup Supplied : Folded[n] = Folded[output]}
Listed == (task.listed \cap Held("caller")) \ Produced
ProjectUnsound ==
  IF task.frozen /\ project # Absent THEN Bytes("project") # project
  ELSE \/ \E n \in Listed : Kind[n] = "nested"
       \/ Cardinality(Listed \cap Application) > MaxFiles
ProjectNames == IF task.frozen /\ project # Absent THEN DOMAIN project ELSE Listed \cap Application

\* validate_project and inspect_artifact_view: nothing changed, nothing added
ViewHolds(place, recorded) == Bytes(place) = recorded

\* _check_names, of the caller or of the package
CheckNames(place) == {n \in Held(place) : Kind[n] = "check"}

\* _selected_names
Own == task.needs \ Supplied
NeedsUnsound ==
  \E n \in Own : Kind[n] \in {"native", "excluded"} \/ (n \notin ProjectNames /\ n \notin Resources)
SourceNames == IF task.packaged THEN {} ELSE {n \in FileNames : Kind[n] = "source"}
LockNames == {n \in Held("caller") : Kind[n] = "lock"}
SelectedNames ==
  (ProjectNames \cup Own \cup SourceNames \cup LockNames \cup CheckNames("caller"))
    \ Produced

\* _capture_mapping: where each file comes from
PackageNames ==
  IF task.packaged THEN CheckNames("package") \cup {n \in FileNames : Kind[n] = "source"} ELSE {}
Mapped == SelectedNames \cup Supplied \cup Held("imports") \cup PackageNames
Origin(n) ==
  IF n \in PackageNames THEN "package"
  ELSE IF n \in Supplied THEN "upstream"
  ELSE IF n \in Held("imports") THEN "imports"
  ELSE IF task.frozen /\ project # Absent /\ n \in Application THEN "project" ELSE "caller"
MappingUnsound ==
  \/ ProjectUnsound \/ NeedsUnsound \/ Collides(Mapped) \/ Cardinality(Mapped) > MaxFiles
  \/ task.packaged /\ CheckNames("caller") # {}

\* Sources that were digested when the plan was made, and outputs that were admitted
\* from an earlier contract, must still read the same.  The caller's own lock is not
\* compared here when the contract is of a package: capture_provenance alone does that.
Beside(n) == task.packaged /\ Kind[n] = "lock"
Expected(n) ==
  IF n \in DOMAIN planned /\ ~Beside(n) THEN planned[n]
  ELSE IF n \in Supplied THEN task.upstream[n] ELSE Absent

-----------------------------------------------------------------------------
(* Reading and writing one file at a time *)

Carry(stage, from) == job' = [stage |-> stage, from |-> from, left |-> DOMAIN from] /\ entries' = NoBytes
In(stage) == job.stage = stage /\ open = Absent
Carried(stage) == In(stage) /\ job.left = {}
Turn(stage) == Carry(stage, NoBytes)
GiveUp == job' = [stage |-> "stopped", from |-> NoBytes, left |-> {}] /\ entries' = NoBytes /\ open' = Absent

NextName == CHOOSE n \in job.left : TRUE

\* Where each job writes, and what it requires of the bytes it has read
Target ==
  CASE job.stage = "freeze_copy" -> "project"    [] job.stage = "provenance" -> "source"
    [] job.stage = "baseline"    -> "baseline"   [] job.stage = "producer"   -> "producer"
    [] job.stage = "references"  -> "references" [] job.stage = "view"       -> "view"
    [] job.stage \in {"supply", "deliver"} -> "subject"
    [] OTHER -> Absent

\* Mutated: the copy trusts that what was inventoried is still there
RequiredOnce(n) ==
  CASE job.stage = "provenance" -> planned[n]
    [] job.stage \in {"inspect", "map"} -> Expected(n)
    [] job.stage \in {"producer", "supply"} -> inventory[n]
    [] job.stage = "deliver" -> taken[n]
    [] OTHER -> Absent

Required(n) ==
  CASE job.stage = "provenance" -> planned[n]
    [] job.stage \in {"inspect", "map"} -> Expected(n)
    [] job.stage = "freeze_copy" -> project[n]
    [] job.stage \in {"baseline", "producer", "supply"} -> inventory[n]
    [] job.stage = "deliver" -> taken[n]
    [] job.stage = "view" -> IF n \in task.outputs THEN taken[n] ELSE inventory[n]
    [] OTHER -> Absent

Fixed == UNCHANGED <<task, planned, project, inventory, taken, verdict, meddled, ended>>

\* _read, before: the descriptor and its identity
OpenFile ==
  /\ open = Absent /\ job.left # {} /\ job.stage \notin {"publish", "before", "after"}
  /\ LET n == NextName file == tree[job.from[n]][n]
     IN IF file = Absent
        THEN IF job.stage = "collect" THEN Carry("no_delivery", NoBytes) /\ UNCHANGED open ELSE GiveUp
        ELSE open' = [name |-> n, file |-> file] /\ UNCHANGED <<job, entries>>
  /\ UNCHANGED tree /\ Fixed

\* _read, after, and _copy_captures: bytes that changed meanwhile are refused
ReadFile ==
  /\ open # Absent /\ job.stage # "publish"
  /\ LET n == open.name bytes == open.file.bytes
     IN IF \/ tree[job.from[n]][n] # open.file
           \/ Required(n) # Absent /\ Required(n) # bytes
        THEN GiveUp /\ UNCHANGED tree
        ELSE /\ open' = Absent
             /\ job' = [job EXCEPT !.left = @ \ {n}]
             /\ entries' = [m \in DOMAIN entries \cup {n} |-> IF m = n THEN bytes ELSE entries[m]]
             /\ tree' = IF Target = Absent THEN tree
                        ELSE [tree EXCEPT ![Target][n] = [bytes |-> bytes, stamp |-> 0]]
  /\ Fixed

\* What was read into memory is written where nothing is yet
WriteOutput ==
  /\ In("publish") /\ job.left # {}
  /\ LET n == NextName file == [bytes |-> taken[n], stamp |-> 0]
     IN IF tree["pending"][n] # Absent THEN GiveUp /\ UNCHANGED tree
        ELSE /\ tree' = [tree EXCEPT !["pending"][n] = file]
             /\ open' = [name |-> n, file |-> file] /\ UNCHANGED <<job, entries>>
  /\ Fixed

\* and read back, before the next is written
ReadBack ==
  /\ open # Absent /\ job.stage = "publish"
  /\ LET n == open.name found == tree["pending"][n]
     IN IF found # Absent /\ found.bytes = taken[n]
        THEN job' = [job EXCEPT !.left = @ \ {n}] /\ open' = Absent /\ UNCHANGED entries
        ELSE GiveUp
  /\ UNCHANGED tree /\ Fixed

\* verify_check_integrity, one file at a time: an output as it was delivered and as the
\* check was given it, or a file of the checks themselves
Unchanged(place, n, bytes) == tree[place][n] # Absent /\ tree[place][n].bytes = bytes
Intact(n) ==
  IF n \in task.outputs
  THEN Unchanged("artifacts", n, taken[n]) /\ Unchanged("subject", n, taken[n])
  ELSE Unchanged("subject", n, inventory[n])

\* Mutated: the files of the checks are not compared
VerifyOutput ==
  /\ job.stage \in {"before", "after"} /\ open = Absent /\ job.left # {}
  /\ IF NextName \in task.outputs => Intact(NextName)
     THEN job' = [job EXCEPT !.left = @ \ {NextName}] /\ UNCHANGED <<entries, verdict>>
     ELSE Turn("checked") /\ verdict' = "broken"
  /\ UNCHANGED <<tree, task, open, planned, project, inventory, taken, meddled, ended>>

VerifyFile ==
  /\ job.stage \in {"before", "after"} /\ open = Absent /\ job.left # {}
  /\ IF Intact(NextName)
     THEN job' = [job EXCEPT !.left = @ \ {NextName}] /\ UNCHANGED <<entries, verdict>>
     ELSE Turn("checked") /\ verdict' = "broken"
  /\ UNCHANGED <<tree, task, open, planned, project, inventory, taken, meddled, ended>>

-----------------------------------------------------------------------------
(* The stages of a contract *)

From(names, place) == [n \in names |-> place]

\* capture_project: read once, copied with a second read, and inspected
Freeze ==
  /\ In("planned") /\ task.frozen
  /\ IF ProjectUnsound \/ Collides(ProjectNames) THEN GiveUp
     ELSE Carry("freeze", From(ProjectNames, "caller")) /\ UNCHANGED open
  /\ UNCHANGED tree /\ Fixed

Frozen ==
  /\ Carried("freeze") /\ project' = entries
  /\ Carry("freeze_copy", job.from)
  /\ UNCHANGED <<tree, task, open, planned, inventory, taken, verdict, meddled, ended>>

\* inspect_workspace, of a budget or a factory: what it reads is what is admitted
Inspect ==
  /\ Carried("freeze_copy")
  /\ IF ~ViewHolds("project", project) \/ MappingUnsound THEN GiveUp
     ELSE Carry("inspect", [n \in Mapped |-> Origin(n)]) /\ UNCHANGED open
  /\ UNCHANGED tree /\ Fixed

Inspected ==
  /\ Carried("inspect") /\ inventory' = entries /\ Turn("admitted")
  /\ UNCHANGED <<tree, task, open, planned, project, taken, verdict, meddled, ended>>

\* capture_provenance: the sources, as they were planned
Provenance ==
  /\ \/ In("planned") /\ ~task.frozen
     \/ In("admitted")
  /\ Carry("provenance", [n \in DOMAIN planned |-> Origin(n)])
  /\ UNCHANGED <<tree, open>> /\ Fixed

\* capture_workspace: mapped again, compared, copied, and copied once more for the agent
Map ==
  /\ Carried("provenance")
  /\ IF MappingUnsound THEN GiveUp
     ELSE Carry("map", [n \in Mapped |-> Origin(n)]) /\ UNCHANGED open
  /\ UNCHANGED tree /\ Fixed

CaptureBaseline ==
  /\ Carried("map")
  /\ IF inventory # Absent /\ inventory # entries THEN GiveUp /\ UNCHANGED inventory
     ELSE inventory' = entries /\ Carry("baseline", job.from) /\ UNCHANGED open
  /\ UNCHANGED <<tree, task, planned, project, taken, verdict, meddled, ended>>

CaptureProducer ==
  /\ Carried("baseline") /\ Carry("producer", From(DOMAIN inventory, "baseline"))
  /\ UNCHANGED <<tree, open>> /\ Fixed

\* prepare_repair_context: the rejected files beside the project, never in it
RepairContext ==
  /\ Carried("producer") /\ Carry("references", From(Held("rejected"), "rejected"))
  /\ UNCHANGED <<tree, open>> /\ Fixed

StartAgent == Carried("references") /\ Turn("agent") /\ UNCHANGED <<tree, open>> /\ Fixed

\* The agent ends, having produced what it wanted
EndAgent ==
  /\ In("agent")
  /\ \E made \in [task.outputs -> Contents \cup {Absent}] :
       tree' = [tree EXCEPT !["producer"] =
                  [n \in FileNames |-> IF n \in task.outputs /\ made[n] # Absent
                                   THEN [bytes |-> made[n], stamp |-> 0] ELSE @[n]]]
  /\ Carry("collect", From(task.outputs, "producer")) /\ UNCHANGED open /\ Fixed

\* capture_output: all outputs are read before the first is written; one rename shows them
Collected ==
  /\ Carried("collect") /\ taken' = entries /\ Carry("publish", From(task.outputs, "pending"))
  /\ UNCHANGED <<tree, task, open, planned, project, inventory, verdict, meddled, ended>>

\* Mutated: the directory is shown first and filled afterwards
ShowDeliveryOpenly ==
  /\ In("publish")
  /\ tree' = [tree EXCEPT !["artifacts"][CHOOSE n \in task.outputs : TRUE] =
                [bytes |-> taken[CHOOSE n \in task.outputs : TRUE], stamp |-> 0]]
  /\ Turn("published") /\ UNCHANGED open /\ Fixed

\* The rename takes the directory as it is by then
ShowDelivery ==
  /\ Carried("publish")
  /\ tree' = [tree EXCEPT !["artifacts"] = tree["pending"], !["pending"] = Empty]
  /\ Turn("published") /\ UNCHANGED open /\ Fixed

\* prepare_check_workspace: the baseline, then the delivery, each compared
PrepareCheck ==
  /\ Carried("published") /\ Carry("supply", From(DOMAIN inventory, "baseline"))
  /\ UNCHANGED <<tree, open>> /\ Fixed

SupplyDelivery ==
  /\ Carried("supply") /\ Carry("deliver", From(task.outputs, "artifacts"))
  /\ UNCHANGED <<tree, open>> /\ Fixed

\* _run_checks: nothing runs when something had changed before
Verified == From(task.outputs \cup {n \in DOMAIN inventory : Kind[n] = "check"}, "subject")

StartCheck ==
  /\ Carried("deliver") /\ Carry("before", Verified)
  /\ UNCHANGED <<tree, open>> /\ Fixed

RunCheck == Carried("before") /\ Turn("check") /\ UNCHANGED <<tree, open>> /\ Fixed

EndCheck ==
  /\ In("check") /\ Carry("after", Verified) /\ ended' = meddled
  /\ UNCHANGED <<tree, task, open, planned, project, inventory, taken, verdict, meddled>>

Judge ==
  /\ Carried("after") /\ Turn("checked") /\ verdict' = "passed"
  /\ UNCHANGED <<tree, task, open, planned, project, inventory, taken, meddled, ended>>

\* capture_chain_view: inputs, checks and outputs that were admitted, shown by one rename
ViewNames == {n \in DOMAIN inventory : Kind[n] = "check" \/ n \in Application} \cup task.outputs
ChainView ==
  /\ Carried("checked") /\ task.frozen /\ verdict = "passed"
  /\ Carry("view", [n \in ViewNames |-> IF n \in task.outputs THEN "artifacts" ELSE "baseline"])
  /\ UNCHANGED <<tree, open>> /\ Fixed

Viewed ==
  /\ Carried("view")
  /\ IF ViewHolds("view", entries) THEN Turn("viewed") /\ UNCHANGED open ELSE GiveUp
  /\ UNCHANGED tree /\ Fixed

\* An error, a limit, Ctrl+C or a crash: nothing of the run is taken up again
Abandon == job.stage # "stopped" /\ GiveUp /\ UNCHANGED tree /\ Fixed

-----------------------------------------------------------------------------
(* Others *)

\* The caller edits at any time; agent and check also what lies beside their directory,
\* and a process that left the agent's group what is being delivered and judged
Reached ==
  {"caller"} \cup CASE job.stage = "agent" -> {"producer", "baseline"}
                    [] job.stage = "publish" -> {"pending"}
                    [] job.stage \in {"published", "supply", "deliver"} -> {"artifacts"}
                    [] job.stage \in {"before", "check", "after"} -> {"subject", "artifacts", "baseline"}
                    [] OTHER -> {}

EditFiles ==
  /\ meddled < MaxEdits /\ job.stage # "stopped" /\ meddled' = meddled + 1
  /\ \E place \in Reached, n \in FileNames, bytes \in Contents \cup {Absent} :
       /\ IF tree[place][n] = Absent THEN bytes # Absent ELSE bytes # tree[place][n].bytes
       /\ tree' = [tree EXCEPT ![place][n] = IF bytes = Absent THEN Absent
                                             ELSE [bytes |-> bytes, stamp |-> meddled + 1]]
  /\ UNCHANGED <<task, job, open, entries, planned, project, inventory, taken, verdict, ended>>

AsFiles(files) == [n \in FileNames |-> IF n \in DOMAIN files THEN [bytes |-> files[n], stamp |-> 0] ELSE Absent]

WorkspaceInit ==
  /\ task \in Tasks
  /\ \E files \in Callers :
       tree = [p \in Places |->
                 CASE p = "caller" -> AsFiles(files) [] p = "package" -> AsFiles(task.package)
                   [] p = "imports" -> AsFiles(task.imports) [] p = "upstream" -> AsFiles(task.upstream)
                   [] p = "rejected" -> AsFiles(task.rejected) [] OTHER -> Empty]
  /\ LET from == IF task.packaged THEN task.package ELSE Bytes("caller")
         sources == {n \in DOMAIN from : Kind[n] = "source"} \cup DOMAIN task.imports \cup LockNames
     IN planned = [n \in sources |-> IF n \in DOMAIN task.imports THEN task.imports[n]
                                     ELSE IF Kind[n] = "lock" THEN tree["caller"][n].bytes ELSE from[n]]
  /\ job = [stage |-> "planned", from |-> NoBytes, left |-> {}]
  /\ open = Absent /\ entries = NoBytes /\ project = Absent /\ inventory = Absent
  /\ taken = NoBytes /\ verdict = "none" /\ meddled = 0 /\ ended = 0

WorkspaceNext ==
  \/ OpenFile \/ ReadFile \/ WriteOutput \/ ReadBack \/ VerifyFile
  \/ Freeze \/ Frozen \/ Inspect \/ Inspected \/ Provenance \/ Map \/ CaptureBaseline
  \/ CaptureProducer \/ RepairContext \/ StartAgent \/ EndAgent \/ Collected \/ ShowDelivery
  \/ PrepareCheck \/ SupplyDelivery \/ StartCheck \/ RunCheck \/ EndCheck \/ Judge
  \/ ChainView \/ Viewed \/ Abandon \/ EditFiles

WorkspaceSpec == WorkspaceInit /\ [][WorkspaceNext]_workspaceVars

-----------------------------------------------------------------------------
(* Properties *)

\* Hazard: the caller's tree changes between the inventory and the copies, and the
\* agent, the checks and what they leave behind reach the copies.  The agent starts from
\* exactly the bytes that were admitted, from the sources that were planned (save the
\* caller's lock beside a package, which is compared once and read again afterwards).
\* The program itself never shows a delivery in part, and what it shows is what it
\* captured.  A verdict counts only when, from the end of the check on, everything that
\* was judged and that judged has the captured bytes as long as nobody writes any more.
\* And a factory's view shows those same bytes.
CarriedBytesAreAdmitted ==
  /\ Carried("references") =>
       /\ Bytes("producer") = inventory /\ Bytes("baseline") = inventory
       /\ Bytes("source") = planned
       /\ \A n \in DOMAIN planned \cap DOMAIN inventory : ~Beside(n) => inventory[n] = planned[n]
       /\ project # Absent => \A n \in DOMAIN inventory \cap DOMAIN project : inventory[n] = project[n]
       /\ DOMAIN inventory \cap task.outputs = {}
  /\ meddled = 0 => Bytes("artifacts") \in {NoBytes, taken} /\ DOMAIN taken \in {{}, task.outputs}
  /\ \A n \in Held("artifacts") : tree["artifacts"][n].stamp = 0 =>
       n \in DOMAIN taken /\ tree["artifacts"][n].bytes = taken[n]
  /\ verdict = "passed" /\ meddled = ended =>
       /\ \A n \in task.outputs :
            Unchanged("artifacts", n, taken[n]) /\ Unchanged("subject", n, taken[n])
       /\ \A n \in DOMAIN inventory : Kind[n] = "check" => Unchanged("subject", n, inventory[n])
  /\ In("viewed") => \A n \in Held("view") :
       tree["view"][n].bytes = IF n \in task.outputs THEN taken[n] ELSE inventory[n]
=============================================================================
