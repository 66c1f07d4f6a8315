-------------------------------- MODULE Receipt --------------------------------
(***************************************************************************)
(* The receipt of a delivery: what contracts/evidence.py writes of the     *)
(* selected runs (export_package), what audit/verifier.py accepts          *)
(* (_inspect) and how audit/change.py binds a pull request to it (bind).   *)
(*                                                                         *)
(* A digest is the content it names, so a digest of a statement is the     *)
(* statement.  A file name is a sequence of directories and a name; Names  *)
(* lists the names of the project in their order.  Files are functions     *)
(* from the names that exist.                                              *)
(***************************************************************************)
EXTENDS Integers, Sequences, FiniteSets, SequencesExt

CONSTANTS
  Names,     \* the names of the project in sorted order
  Contents   \* what a file may hold

ASSUME ReceiptAssumption == Names \in Seq(Seq(STRING)) /\ "none" \notin Contents

Absent == "none"

At(files, name) == IF name \in DOMAIN files THEN files[name] ELSE Absent

\* changes: from names to contents, or Absent where the file goes
Overlay(files, changes) ==
  LET After(name) == IF name \in DOMAIN changes THEN changes[name] ELSE At(files, name)
  IN [name \in {n \in DOMAIN files \cup DOMAIN changes : After(n) # Absent} |-> After(name)]

Under(prefix, files) ==
  LET Local(name) == SubSeq(name, Len(prefix) + 1, Len(name))
  IN [name \in {prefix \o n : n \in DOMAIN files} |-> files[Local(name)]]

Occurrences(s) == [x \in Range(s) |-> Cardinality({i \in DOMAIN s : s[i] = x})]

-----------------------------------------------------------------------------
(* _delivery: what the selected runs deliver, and what was there before.   *)
(* A stage is [contract, baseline, outputs, checks, skills]; an output is  *)
(* [name, content, changes] with changes = <<>> unless it parses as a      *)
(* patch, else from names to [old, new].                                   *)

\* _patch: every pre-image is the attempt's baseline
IsPatch(output, baseline) ==
  /\ output.changes # <<>>
  /\ \A name \in DOMAIN output.changes : output.changes[name].old = At(baseline, name)

PatchesOf(stage) ==
  LET found == SelectSeq(stage.outputs, LAMBDA o : IsPatch(o, stage.baseline))
  IN [i \in DOMAIN found |-> [changes |-> found[i].changes, baseline |-> stage.baseline]]

\* patches.apply: each file must be as the patch found it
Replay(done, patch) ==
  LET touched     == DOMAIN patch.changes
      First(name) == IF name \in DOMAIN done.state THEN done.state[name] ELSE At(patch.baseline, name)
      Old(name)   == IF name \in DOMAIN done.before THEN done.before[name] ELSE At(patch.baseline, name)
  IN [ok     |-> done.ok /\ \A n \in touched : First(n) = patch.changes[n].old,
      state  |-> [n \in DOMAIN done.state \cup touched |->
                    IF n \in touched THEN patch.changes[n].new ELSE done.state[n]],
      before |-> [n \in DOMAIN done.before \cup touched |->
                    IF n \in touched THEN Old(n) ELSE done.before[n]]]

Combined(patches) ==
  LET done == FoldLeft(Replay, [ok |-> TRUE, state |-> <<>>, before |-> <<>>], patches)
      delivered == Overlay(<<>>, done.state)
  IN [ok |-> done.ok, files |-> delivered,
      before |-> [n \in {m \in DOMAIN done.before : m \in DOMAIN delivered \/ done.before[m] # Absent}
                    |-> done.before[n]]]

\* Plain outputs are files; two contracts may not differ about one
Plain(outputs, base) ==
  LET names == {o.name : o \in outputs} IN
  [ok     |-> \A o, p \in outputs : o.name = p.name => o.content = p.content,
   files  |-> [n \in names |-> (CHOOSE o \in outputs : o.name = n).content],
   before |-> [n \in names |-> At(base, n)]]

Outputs(stages) == UNION {Range(stages[i].outputs) : i \in DOMAIN stages}

Delivery(stages, base) ==
  LET patches == FlattenSeq([i \in DOMAIN stages |-> PatchesOf(stages[i])])
  IN IF patches # <<>> THEN Combined(patches) ELSE Plain(Outputs(stages), base)

Removed(delivery) ==
  {n \in DOMAIN delivery.before : n \notin DOMAIN delivery.files /\ delivery.before[n] # Absent}

-----------------------------------------------------------------------------
(* export_package: the statements.  lock is the set of packages of the     *)
(* retained lock as a list, or <<>> when none was retained.                *)

Skills(stages) == UNION {stages[i].skills : i \in DOMAIN stages}

Definition(stages, lock) ==
  [stages |-> [i \in DOMAIN stages |->
                 [contract |-> stages[i].contract, checks |-> stages[i].checks,
                  produces |-> {o.name : o \in Range(stages[i].outputs)}]],
   skills |-> Skills(stages), packages |-> UNION Range(lock)]

Provenance(stages, delivery, lock, commit) ==
  [kind |-> "provenance", sound |-> TRUE, subjects |-> delivery.files,
   definition |-> Definition(stages, lock), stages |-> Definition(stages, lock).stages,
   skills |-> Skills(stages), before |-> [n \in {m \in DOMAIN delivery.before :
     delivery.before[m] # Absent} |-> delivery.before[n]],
   created |-> {n \in DOMAIN delivery.before : delivery.before[n] = Absent},
   deleted |-> [n \in Removed(delivery) |-> delivery.before[n]],
   commit |-> commit, lock |-> lock]

TestResult(stages, delivery, lock, contract, check) ==
  [kind |-> "test", sound |-> TRUE, subjects |-> delivery.files, contract |-> contract,
   check |-> check, definition |-> Definition(stages, lock), result |-> "PASSED"]

Inventory(delivery, lock) ==
  [kind |-> "bom", sound |-> TRUE, subjects |-> delivery.files, components |-> UNION Range(lock)]

\* A completed run passed every check; no file delivered, or a conflict: no receipt
Export(stages, base, lock, commit) ==
  LET delivery == Delivery(stages, base)
      Tests(i) == [k \in DOMAIN stages[i].checks |->
                     TestResult(stages, delivery, lock, stages[i].contract, stages[i].checks[k])]
  IN IF ~delivery.ok \/ DOMAIN delivery.files = {} THEN <<>>
     ELSE <<Provenance(stages, delivery, lock, commit)>>
            \o FlattenSeq([i \in DOMAIN stages |-> Tests(i)])
            \o <<Inventory(delivery, lock)>>

-----------------------------------------------------------------------------
(* _inspect: the rows in order; retained says whether the definition is    *)
(* at hand, as it is beside a bundle and is not in an attestation store.   *)

\* The statements of a kind, each at its place in the bundle
Of(bundle, kind) == RestrictValues(bundle, LAMBDA s : s.kind = kind)
Number(bundle, kind) == Cardinality(DOMAIN Of(bundle, kind))

\* The statement of a kind of which there is one
The(bundle, kind) == CHOOSE s \in Range(bundle) : s.kind = kind

Prov(bundle) == The(bundle, "provenance")
Lines(bundle) == RestrictValues(bundle, LAMBDA s : s.kind # "vsa")

Integrity(bundle) ==
  /\ \A i \in DOMAIN bundle : bundle[i].sound
  /\ Number(bundle, "provenance") = 1 /\ Number(bundle, "bom") = 1
  /\ Number(bundle, "vsa") <= 1
  /\ \A s \in Range(Of(bundle, "vsa")) : Occurrences(s.inputs) = Occurrences(Lines(bundle))

Factory(bundle, retained) ==
  LET p == Prov(bundle) IN
  /\ p.stages # <<>>
  /\ retained => p.definition.stages = p.stages /\ p.definition.skills = p.skills
  /\ \A s \in Range(Of(bundle, "vsa")) : s.policy = p.definition
  /\ \A skill \in p.skills : skill.package \in The(bundle, "bom").components

Declared(stages) ==
  FlattenSeq([i \in DOMAIN stages |->
    [k \in DOMAIN stages[i].checks |-> <<stages[i].contract, stages[i].checks[k]>>]])

\* Mutated: a check that was not run is not missed
ChecksOfThoseRun(bundle) ==
  \A i \in DOMAIN Of(bundle, "test") : Of(bundle, "test")[i].result = "PASSED"

Checks(bundle) ==
  LET tests == Of(bundle, "test") IN
  /\ \A i \in DOMAIN tests :
       tests[i].definition = Prov(bundle).definition /\ tests[i].result = "PASSED"
  /\ Occurrences([i \in DOMAIN tests |-> <<tests[i].contract, tests[i].check>>])
       = Occurrences(Declared(Prov(bundle).stages))

\* vsa_prefix: of the names a subject may stand for the first one counts
Placements(names, subjects) ==
  LET Matches(n) == {i \in DOMAIN Names : /\ Names[i] \in DOMAIN subjects
                                          /\ subjects[Names[i]] = names[n] /\ IsSuffix(Names[i], n)}
      Before(n)  == SubSeq(n, 1, Len(n) - Len(Names[Min(Matches(n))]))
      found      == {Before(n) : n \in DOMAIN names}
  IN IF /\ Cardinality(DOMAIN names) = Cardinality(DOMAIN subjects)
        /\ \A n \in DOMAIN names : Matches(n) # {}
        /\ Cardinality(found) = 1
     THEN {p \in found : Under(p, subjects) = names} ELSE {}

PrefixOf(bundle) ==
  IF Number(bundle, "vsa") = 0 THEN {<<>>}
  ELSE Placements(The(bundle, "vsa").subjects, Prov(bundle).subjects)

BeforeImages(p) ==
  [n \in DOMAIN p.before \cup p.created |-> At(p.before, n)]

OutputsRow(bundle) ==
  LET p == Prov(bundle) IN
  /\ \A i \in DOMAIN bundle : bundle[i].kind # "vsa" => bundle[i].subjects = p.subjects
  /\ PrefixOf(bundle) # {}
  /\ p.created \cap DOMAIN p.before = {}
  /\ DOMAIN p.deleted \cap DOMAIN p.subjects = {}
  /\ \A n \in DOMAIN p.deleted : At(p.before, n) = p.deleted[n]
  /\ DOMAIN p.subjects \cup DOMAIN p.deleted = DOMAIN BeforeImages(p)

\* The first row that fails, or "none"
Inspect(bundle, retained) ==
  CASE bundle = <<>> \/ ~Integrity(bundle) -> "Integrity"
    [] OTHER -> IF ~Factory(bundle, retained) THEN "Factory"
                ELSE IF ~Checks(bundle) THEN "Checks"
                ELSE IF ~OutputsRow(bundle) THEN "Outputs" ELSE "none"

-----------------------------------------------------------------------------
(* bind: a pull request is [mergeBase, base, head] with the files of each  *)

Changed(pull) ==
  {n \in DOMAIN pull.mergeBase \cup DOMAIN pull.head : At(pull.mergeBase, n) # At(pull.head, n)}

Present(pull) == {n \in Changed(pull) : n \in DOMAIN pull.head}

Bound(pull, bundle, prefix) ==
  LET p == Prov(bundle)
      subjects == Under(prefix, p.subjects)
      deleted  == Under(prefix, p.deleted)
  IN /\ Changed(pull) # {}
     /\ \A n \in Changed(pull) :
          IF n \in DOMAIN pull.head THEN At(subjects, n) = pull.head[n] ELSE n \in DOMAIN deleted

\* Mutated: only the files that existed need be as they were
FreshWhereItWas(pull, bundle, prefix) ==
  \A n \in Changed(pull) :
    LET before == Under(prefix, Prov(bundle).before) IN
    n \in DOMAIN before => At(pull.base, n) = before[n]

\* Every file the pull request touches is at its base what the factory started from
Fresh(pull, bundle, prefix) ==
  LET before == Under(prefix, BeforeImages(Prov(bundle)))
  IN \A n \in Changed(pull) : n \in DOMAIN before /\ At(pull.base, n) = before[n]
=============================================================================
