-------------------------------- MODULE Supply --------------------------------
(***************************************************************************)
(* Everything a command does before a run: the admission by policy and     *)
(* consent in cli.py and commands/contracts.py, prepare_contract_source    *)
(* and prepare_imports of install/contract_source.py, the calls of the     *)
(* bundled APM in install/apm_backend.py, the resolution of a factory, the *)
(* plan (contracts/frontend.py) and the inspection of what will be         *)
(* captured (contracts/workspace.py).                                      *)
(*                                                                         *)
(* The caller's manifest and lock, the package's original directory, the   *)
(* package installed in the caller, the files APM staged and the APM       *)
(* program itself are all on a disk that other processes write.  Every     *)
(* comparison with the disk is a step of its own, and what is kept is what *)
(* the code keeps: a digest, a hash or a parsed lock.                      *)
(*                                                                         *)
(* The tree of a package is one content; world.catalogs says which         *)
(* contracts lie in it.  A lock has an entry for the package that is asked *)
(* for, p, and one for another dependency of the caller, q.                *)
(***************************************************************************)
EXTENDS Resolution, TLC

CONSTANTS
  None,
  Contents,   \* what a package's tree may hold
  Worlds      \* the commands, and the disks they start on

\* None is no manifest and no code, and a disk has these files
ASSUME SupplyAssumption ==
  /\ None \notin {"asks", "plain", "other", "twice", "policed",
                 "source_cleanup", "preview_source_unavailable"}
  /\ \A w \in Worlds :
       w.disk = [manifest |-> w.disk.manifest, lock |-> w.disk.lock, original |-> w.disk.original,
                 installed |-> w.disk.installed, backend |-> w.disk.backend]

\* What trees may hold is known, and which contracts lie in it
ASSUME ContentsAssumption ==
  \A w \in Worlds :
    /\ {w.disk.original, w.disk.installed} \subseteq Contents \cup {None}
    /\ \A answer \in w.answers : answer.tree \in Contents \cup {None}
    /\ \A thing \in DOMAIN w.changes \cap {"original", "installed"} :
         w.changes[thing] \subseteq Contents \cup {None}
    /\ \A content \in Contents : IsCatalog(w.catalogs[content])

\* Manifests: without dependencies, with p at the ref that is asked for or at
\* another one, with p twice, with a policy section
Manifests == {None, "plain", "asks", "other", "twice", "policed"}

VARIABLES
  world,        \* the command, what its disk was like and what APM may answer
  at,           \* the next step
  disk,         \* what others write: manifest, lock, original, installed, backend
  seen,         \* the caller's manifest and lock and the original's hash, as first read
  stage,        \* the private root: manifest, lock and the installed tree
  established,  \* the pins of the snapshot
  frozen,       \* APM runs with --frozen
  scope,        \* what is being installed: "package" or "imports"
  before,       \* manifest and lock when the imports' own stage was opened
  identity,     \* digest of the APM program before it ran
  source,       \* ContractSource
  graph,        \* the resolved factory with its catalog
  consent,      \* allow_advisory: by flag or by an answer
  importsFrom,  \* imports_root: "caller", "source" or "own"
  plan,         \* the contracts and the consumer's digests in the plan
  captured,     \* the content the inspection read
  open,         \* private roots that are open
  failure,      \* code of the error that ended the preparation
  edits,        \* changes others may still make
  past,         \* history: values that things on the disk have had
  restored,     \* history: something got a value back
  touched,      \* history: others wrote the stage before its hash was taken
  ran           \* history: the APM program that ran

kept == <<seen, stage, established, frozen, scope, before, identity>>
work == <<source, graph, consent, importsFrom, plan, captured>>
others == <<disk, edits, past, restored, touched>>
supplyVars == <<world, at, kept, work, others, open, failure, ran>>

Identified(s) == s # None /\ s.identity # None

Refuse(code) == at' = "refused" /\ failure' = code

\* Go on, or end with an error
Require(condition, next, code) ==
  IF condition THEN at' = next /\ UNCHANGED failure ELSE Refuse(code)

Consumer == [manifest |-> disk.manifest, lock |-> disk.lock]

-----------------------------------------------------------------------------
(* What the steps ask about *)

\* admit_caller_policy: a policy section, a git remote or APM_NO_SCRIPTS
Governed == disk.manifest = "policed" \/ world.governed

\* The ref at which a manifest declares p, select_manifest_dependency
Declared(manifest) == CASE manifest = "asks" -> "asked" [] manifest = "other" -> "other"
                        [] OTHER -> None

\* The caller has dependencies of its own
Declares(consumer) ==
  Declared(consumer.manifest) # None \/ consumer.manifest = "twice" \/ consumer.lock # None

\* _validate_source_pin: the lock has the requested ref and, unless the package is
\* local, a commit and a hash
Pinned(ref, entry) == entry.ref = ref /\ (world.local \/ entry.hash # None)

\* verify_inventory_package: the installed bytes are the locked ones
Verified(entry, tree) == entry.hash \in {None, tree}

\* _selected_source: one entry for the package, with its pin, and the locked bytes
Selected(lock, tree) ==
  /\ lock # None /\ lock.p # None
  /\ Pinned("asked", lock.p)
  /\ tree # None /\ Verified(lock.p, tree)

\* resolve_installed_skills, when p is what is imported: it is installed, declared
\* at the locked ref, and unless it is local it has the locked bytes
Importable(manifest, lock, tree) ==
  /\ lock # None /\ lock.p # None /\ tree # None
  /\ Declared(manifest) = lock.p.ref
  /\ world.local \/ (lock.p.hash # None /\ Verified(lock.p, tree))

\* Mutated: only the package that was asked for is compared
PreservedForPackage(old, new) == old # None /\ old.p # None => new # None /\ new.p = old.p

\* require_preserved_pins
Preserved(old, new) ==
  old # None => \A k \in DOMAIN old : old[k] # None => new # None /\ new[k] = old[k]

\* Where the contracts are
Tree ==
  CASE source = None                        -> disk.original
    [] source # None /\ source.kind = "staged"    -> stage.tree
    [] source # None /\ source.kind = "installed" -> disk.installed
    [] source # None /\ source.kind = "original"  -> disk.original

\* validate_source: the prepared bytes, and those of the original directory
Unchanged ==
  source # None =>
    /\ Tree = source.prepared
    /\ source.kind = "staged" /\ world.local => disk.original = source.original

Catalog == IF Tree = None THEN <<>> ELSE world.catalogs[Tree]

\* The contract that was selected, without a factory
Selection == SubSeq(Catalog, 1, 1)

\* resolve_factory, at this moment
ResolvedNow == [catalog |-> Catalog, resolved |-> Resolve(Catalog, world.files)]

\* The skills of the contracts, from imports_root; a package that is previewed in
\* place brings its own
ImportsResolved ==
  world.imports =>
    IF importsFrom = "own" \/ Identified(source)
      THEN Importable(stage.manifest, stage.lock, stage.tree)
      ELSE importsFrom = "caller" => Importable(disk.manifest, disk.lock, disk.installed)

-----------------------------------------------------------------------------
(* prepare_contract_source *)

\* main admits the policy of the caller and asks for consent; a confirmation
\* here permits the preparation only
AdmitPackage ==
  /\ at = "admit"
  /\ IF Governed THEN Refuse("policy")
     ELSE IF world.planning \/ world.flag THEN at' = "read" /\ UNCHANGED failure
     ELSE \E yes \in BOOLEAN : Require(yes /\ world.factory /\ world.interactive /\ ~world.inputs,
                                       "read", "advisory_consent_required")
  /\ UNCHANGED <<world, kept, work, others, open, ran>>

\* The policy is admitted again, and the manifest read
ReadManifest ==
  /\ at = "read"
  /\ seen' = [seen EXCEPT !.manifest = disk.manifest]
  /\ Require(~Governed, "read_lock", "policy")
  /\ UNCHANGED <<world, stage, established, frozen, scope, before, identity, work, others, open,
                 ran>>

\* read_lock, and what the declaration and the lock say about the package
ReadLock ==
  /\ at = "read_lock"
  /\ seen' = [seen EXCEPT !.lock = disk.lock]
  /\ LET ref     == Declared(seen.manifest)
         matched == ref # None /\ disk.lock # None
     IN  CASE seen.manifest = "twice"       -> Refuse("unresolved_source")
           [] matched /\ disk.lock.p = None -> Refuse("invalid_lock")
           [] OTHER ->
                Require(matched => Pinned("asked", disk.lock.p) /\ Pinned(ref, disk.lock.p),
                        IF matched /\ ~world.local THEN "installed" ELSE "locate",
                        "unresolved_source")
  /\ UNCHANGED <<world, stage, established, frozen, scope, before, identity, work, others, open,
                 ran>>

\* What is installed in the caller has to be what its lock says
CheckInstalled ==
  /\ at = "installed"
  /\ Require(disk.installed # None => Selected(disk.lock, disk.installed), "locate",
             "source_changed")
  /\ UNCHANGED <<world, kept, work, others, open, ran>>

\* A preview needs no stage for a local package, nor for one that is installed
Offline == world.planning
           /\ (world.local \/ (Declared(seen.manifest) # None /\ seen.lock # None))

\* The original directory is hashed; the context of a preview has to be resolved
Locate ==
  /\ at = "locate"
  /\ seen' = [seen EXCEPT !.original = IF world.local THEN disk.original ELSE None]
  /\ IF ~Offline THEN at' = "stage" /\ UNCHANGED failure
     ELSE Require(IF world.local
                  THEN world.imports /\ Declares(seen) =>
                         Importable(disk.manifest, disk.lock, disk.installed)
                  ELSE Selected(disk.lock, disk.installed),
                  "offer", "unresolved_source")
  /\ UNCHANGED <<world, stage, established, frozen, scope, before, identity, work, others, open,
                 ran>>

\* The source of a preview without a stage
Offer ==
  /\ at = "offer"
  /\ source' = [kind     |-> IF world.local THEN "original" ELSE "installed",
                prepared |-> IF world.local THEN seen.original ELSE disk.installed,
                original |-> seen.original, identity |-> None, consumer |-> None]
  /\ at' = "invoke"
  /\ UNCHANGED <<world, kept, graph, consent, importsFrom, plan, captured, others, open, failure,
                 ran>>

\* _private_root: without a manifest there is nothing to copy into it
OpenStage ==
  /\ at = "stage"
  /\ IF seen.manifest # None THEN at' = "snapshot" /\ UNCHANGED failure
     ELSE Require(seen.lock = None, "identify", "invalid_manifest")
  /\ scope' = "package" /\ open' = open \cup {"source"}
  /\ stage' = [manifest |-> "asks", lock |-> None, tree |-> None]
  /\ UNCHANGED <<world, seen, established, frozen, before, identity, work, others, ran>>

\* snapshot_manifest reads the caller's manifest again
Snapshot ==
  /\ at = "snapshot"
  /\ stage' = [stage EXCEPT !.manifest = disk.manifest]
  /\ Require(disk.manifest # None, "snapshot_lock", "import_source")
  /\ UNCHANGED <<world, seen, established, frozen, scope, before, identity, work, others, open,
                 ran>>

\* ... and its lock; a package the snapshot does not declare is added to it, and
\* then APM may not be frozen
SnapshotLock ==
  /\ at = "snapshot_lock"
  /\ LET declares == scope = "imports" \/ Declared(stage.manifest) # None
     IN  /\ stage' = [stage EXCEPT !.lock = disk.lock,
                                   !.manifest = IF declares THEN @ ELSE "asks"]
         /\ frozen' = (disk.lock # None /\ declares)
         /\ established' = disk.lock
         /\ Require(scope = "package" => stage.manifest # "twice", "identify",
                    "unresolved_source")
  /\ UNCHANGED <<world, seen, scope, before, identity, work, others, open, ran>>

-----------------------------------------------------------------------------
(* _run_backend: install, or resolve for a preview *)

\* backend_identity: the bundled pin, and the digest of the program
Identify ==
  /\ at = "identify"
  /\ identity' = disk.backend
  /\ at' = "version"
  /\ UNCHANGED <<world, seen, stage, established, frozen, scope, before, work, others, open,
                 failure, ran>>

\* _check_backend_version runs the program: "foreign" says another version
CheckVersion ==
  /\ at = "version"
  /\ Require(disk.backend # "foreign", "apm", "apm_backend_identity")
  /\ UNCHANGED <<world, kept, work, others, open, ran>>

\* A frozen install leaves the lock as it is
Installed(answer) ==
  [stage EXCEPT !.lock = IF frozen THEN @ ELSE answer.lock, !.tree = answer.tree]

\* A preview tells a source that cannot be fetched from one that is refused
ApmFailure ==
  IF scope = "package" /\ world.planning THEN "preview_source_unavailable"
  ELSE "apm_install_failed"

\* APM runs in the stage: it may fail at any point, install any bytes, and unless
\* it is frozen lock anything
RunApm ==
  /\ at = "apm"
  /\ ran' = disk.backend
  /\ \/ /\ \E answer \in world.answers :
             stage' = Installed(answer)
        /\ at' = "identified" /\ UNCHANGED failure
     \/ /\ Refuse(ApmFailure)
        /\ UNCHANGED stage
  /\ UNCHANGED <<world, seen, established, frozen, scope, before, identity, work, others, open>>

\* The program is the one whose digest was taken
ConfirmIdentity ==
  /\ at = "identified"
  /\ Require(disk.backend = identity, IF scope = "imports" THEN "imported" ELSE "pins",
             "apm_backend_changed")
  /\ UNCHANGED <<world, kept, work, others, open, ran>>

-----------------------------------------------------------------------------

\* The package may extend the caller's lock, never replace its pins
CheckPins ==
  /\ at = "pins"
  /\ Require(seen.manifest # None => Preserved(established, stage.lock), "recheck",
             "import_drift")
  /\ UNCHANGED <<world, kept, work, others, open, ran>>

Recheck ==
  /\ at = "recheck"
  /\ Require(Consumer = [manifest |-> seen.manifest, lock |-> seen.lock], "select",
             "plan_changed")
  /\ UNCHANGED <<world, kept, work, others, open, ran>>

SelectStaged ==
  /\ at = "select"
  /\ Require(Selected(stage.lock, stage.tree), "bind", "source_changed")
  /\ UNCHANGED <<world, kept, work, others, open, ran>>

\* The original is hashed again, and the hash of what is staged taken
Bind ==
  /\ at = "bind"
  /\ Require(world.local => disk.original = seen.original, "invoke", "source_changed")
  /\ source' = IF at' = "refused" THEN None
               ELSE [kind |-> "staged", prepared |-> stage.tree, original |-> seen.original,
                     identity |-> identity,
                     consumer |-> [manifest |-> seen.manifest, lock |-> seen.lock]]
  /\ UNCHANGED <<world, kept, graph, consent, importsFrom, plan, captured, others, open, ran>>

-----------------------------------------------------------------------------
(* invoke_contract *)

\* The policy of the root, which for a local factory is the factory
AdmitRoot ==
  /\ at = "invoke"
  /\ Require(~Governed, IF world.factory THEN "resolve" ELSE "consent", "policy")
  /\ UNCHANGED <<world, kept, work, others, open, ran>>

MayAsk == ~world.planning /\ ~world.flag /\ ~world.inputs /\ world.interactive

ResolveFactory ==
  /\ at = "resolve"
  /\ graph' = ResolvedNow
  /\ Require(graph'.resolved.error = "none", IF MayAsk THEN "confirm" ELSE "consent",
             graph'.resolved.error)
  /\ UNCHANGED <<world, kept, source, consent, importsFrom, plan, captured, others, open, ran>>

\* The user sees the factory and answers
Confirm ==
  /\ at = "confirm"
  /\ \E yes \in BOOLEAN : consent' = yes /\ Require(yes, "again", "consent_declined")
  /\ UNCHANGED <<world, kept, source, graph, importsFrom, plan, captured, others, open, ran>>

ResolveAgain ==
  /\ at = "again"
  /\ Require(ResolvedNow = graph, "consent", "plan_changed")
  /\ UNCHANGED <<world, kept, work, others, open, ran>>

CheckConsent ==
  /\ at = "consent"
  /\ Require(world.planning \/ consent, "imports", "advisory_consent_required")
  /\ UNCHANGED <<world, kept, work, others, open, ran>>

\* prepare_imports: of a staged package the consumer has to be the same still;
\* a preview, contracts without imports and callers that declare nothing need no
\* stage; the rest is installed in one of its own
PrepareImports ==
  /\ at = "imports"
  /\ LET consumer == Declares(Consumer)
         own      == ~Identified(source) /\ ~world.planning /\ world.imports /\ consumer
     IN  /\ importsFrom' = CASE Identified(source) -> "source" [] own -> "own"
                             [] OTHER -> IF consumer \/ source = None THEN "caller" ELSE "source"
         /\ CASE Governed           -> Refuse("policy")
              [] ~Governed /\ ~own -> Require(Identified(source) => source.consumer = Consumer,
                                              "plan", "plan_changed")
              [] OTHER -> Require(disk.manifest # None, "snapshot", "invalid_manifest")
         /\ IF own /\ ~Governed /\ disk.manifest # None
            THEN /\ before' = Consumer /\ scope' = "imports" /\ open' = open \cup {"imports"}
                 /\ stage' = [manifest |-> None, lock |-> None, tree |-> None]
            ELSE UNCHANGED <<before, scope, open, stage>>
  /\ UNCHANGED <<world, seen, established, frozen, identity, source, graph, consent, plan,
                 captured, others, ran>>

\* The caller's files are those the imports were prepared from
CompareImports ==
  /\ at = "imported"
  /\ Require(Consumer = before, "plan", "plan_changed")
  /\ UNCHANGED <<world, kept, work, others, open, ran>>

\* plan_contract, for each contract of a graph: policy, digests of the consumer,
\* the prepared bytes, the imported skills; and the contract is the graph's
Plan ==
  /\ at = "plan"
  /\ plan' = [contracts |-> IF world.factory THEN graph.catalog ELSE Selection,
              consumer  |-> Consumer]
  /\ Require(/\ ~Governed /\ Catalog # <<>> /\ Unchanged
             /\ ImportsResolved
             /\ world.factory => Range(graph.catalog) \subseteq Range(Catalog),
             "inspect", "plan_changed")
  /\ UNCHANGED <<world, kept, source, graph, consent, importsFrom, captured, others, open, ran>>

\* _capture_mapping: the prepared bytes are validated, ...
Inspect ==
  /\ at = "inspect"
  /\ Require(Unchanged, "capture", "source_changed")
  /\ UNCHANGED <<world, kept, work, others, open, ran>>

\* ... read, compared with the plan's digests, ...
CaptureSource ==
  /\ at = "capture"
  /\ captured' = Tree
  /\ Require(/\ Range(plan.contracts) \subseteq Range(Catalog)
             /\ source = None => \A file \in DOMAIN Consumer :
                  Consumer[file] \in {None, plan.consumer[file]} \/ plan.consumer[file] = None,
             "validate", "plan_changed")
  /\ UNCHANGED <<world, kept, source, graph, consent, importsFrom, plan, others, open, ran>>

\* ... and validated again.  preflight ends with a look at the whole catalog.
ValidateAgain ==
  /\ at = "validate"
  /\ Require(Unchanged /\ (world.factory => Catalog = graph.catalog), "ready", "plan_changed")
  /\ UNCHANGED <<world, kept, work, others, open, ran>>

-----------------------------------------------------------------------------

\* Ctrl+C, an error of the file system, a malformed file, a pin that stays locked
\* for the whole time read_pin retries
Fail ==
  /\ at \notin {"ready", "refused"}
  /\ Refuse("other")
  /\ UNCHANGED <<world, kept, work, others, open, ran>>

\* Other processes change something on the disk
Edit ==
  /\ at \notin {"ready", "refused"} /\ edits > 0
  /\ \E thing \in DOMAIN world.changes : \E value \in world.changes[thing] \ {disk[thing]} :
       /\ disk' = [disk EXCEPT ![thing] = value]
       /\ past' = past \cup {<<thing, disk[thing]>>}
       /\ restored' = (restored \/ <<thing, value>> \in past)
  /\ edits' = edits - 1
  /\ UNCHANGED <<world, at, kept, work, touched, open, failure, ran>>

\* ... or in the private root
EditStage ==
  /\ at \notin {"ready", "refused"} /\ edits > 0 /\ world.meddling /\ stage.tree # None
  /\ \E tree \in Contents \ {stage.tree} :
       /\ stage' = [stage EXCEPT !.tree = tree]
       /\ restored' = (restored \/ <<"stage", tree>> \in past)
  /\ past' = past \cup {<<"stage", stage.tree>>}
  /\ touched' = (touched \/ source = None)
  /\ edits' = edits - 1
  /\ UNCHANGED <<world, at, seen, established, frozen, scope, before, identity, work, disk, open,
                 failure, ran>>

SupplyInit ==
  /\ world \in Worlds
  /\ at = IF world.packaged THEN "admit" ELSE "invoke"
  /\ disk = world.disk /\ edits = world.edits
  /\ seen = [manifest |-> None, lock |-> None, original |-> None]
  /\ stage = [manifest |-> None, lock |-> None, tree |-> None]
  /\ established = None /\ frozen = FALSE /\ scope = "package" /\ before = None
  /\ identity = None /\ source = None /\ graph = None /\ consent = world.flag
  /\ importsFrom = None /\ plan = None /\ captured = None /\ open = {} /\ failure = None
  /\ past = {} /\ restored = FALSE /\ touched = FALSE /\ ran = None

SupplyNext ==
  \/ AdmitPackage \/ ReadManifest \/ ReadLock \/ CheckInstalled \/ Locate \/ Offer
  \/ OpenStage \/ Snapshot \/ SnapshotLock
  \/ Identify \/ CheckVersion \/ RunApm \/ ConfirmIdentity
  \/ CheckPins \/ Recheck \/ SelectStaged \/ Bind
  \/ AdmitRoot \/ ResolveFactory \/ Confirm \/ ResolveAgain \/ CheckConsent
  \/ PrepareImports \/ CompareImports \/ Plan \/ Inspect \/ CaptureSource \/ ValidateAgain
  \/ Fail \/ Edit \/ EditStage

-----------------------------------------------------------------------------
(* Properties *)

\* The pin of a package holds from the first look at the lock to the bytes the
\* run will use.  APM never replaced a pin of the consumer; the prepared bytes
\* are those the lock names, unless somebody wrote the private root before they
\* were hashed; and unless somebody put something back, the bytes captured are
\* the prepared ones, the pins kept are those of the consumer that is recorded,
\* and the APM program recorded is the one that ran.
PinHoldsAcrossSteps ==
  at = "ready" /\ Identified(source) =>
    /\ established # None => \A k \in DOMAIN established :
         established[k] # None => stage.lock # None /\ stage.lock[k] = established[k]
    /\ touched \/ stage.lock.p.hash \in {None, source.prepared}
    /\ restored \/ (captured = source.prepared /\ established = source.consumer.lock
                    /\ source.identity = ran)

\* A factory is resolved exactly when nothing speaks against running it, and then
\* its order runs every contract once, after the producers of all it needs.  The
\* factory that was resolved, and confirmed, is the one that is captured, however
\* its files changed meanwhile.
ResolvedGraphRuns ==
  graph # None =>
    /\ graph.resolved.error = "none" <=> Sound(graph.catalog, world.files)
    /\ graph.resolved.error = "none" => Runnable(graph.resolved, graph.catalog, world.files)
    /\ at = "ready" => Range(graph.catalog) \subseteq Range(world.catalogs[captured])
=============================================================================
