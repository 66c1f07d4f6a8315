--------------------------------- MODULE Audit ---------------------------------
(***************************************************************************)
(* apmx audit, from the run that is signed to the verdict on it: the       *)
(* platform signs the receipt and delivers its files as a pull request     *)
(* (.github/actions/attest, scripts/run_deliver.py), its author and its    *)
(* base go on, and audit/command.py judges what it finds - a pull request  *)
(* from the attestation store (run_gate) or a receipt file (run_audit).    *)
(*                                                                         *)
(* A question put to GitHub or to APM may stay unanswered where the world  *)
(* is flaky; doubt remembers that one did.  GitHub's store, its CLI and    *)
(* APM are external: an attestation is stored for every content its        *)
(* statement names, and listed page by page, of which identity.py reads    *)
(* the first.                                                              *)
(***************************************************************************)
EXTENDS AuditPolicy, Receipt

CONSTANTS
  Worlds,      \* a sequence of sets: the runs, repositories and policies audited
  MaxLookups,  \* MAX_LOOKUPS
  MaxFirst,    \* the files a summary is looked up by (10)
  PerPage      \* the attestations of one page (100)

\* A page has room for what one run stores
ASSUME AuditAssumption ==
  MaxLookups \in Nat /\ MaxFirst \in Nat \ {0} /\ PerPage \in Nat /\ PerPage > 2

\* The same outputs of the stages on a base that had none of the files
Aged(stages) ==
  LET Made(changes) == {n \in DOMAIN changes : changes[n].new # Absent}
      Aged1(o) == [o EXCEPT !.changes = [n \in Made(@) |-> [old |-> Absent, new |-> @[n].new]]]
  IN [i \in DOMAIN stages |->
        [stages[i] EXCEPT !.baseline = <<>>, !.outputs = [k \in DOMAIN @ |-> Aged1(@[k])]]]

\* A stage as Receipt describes it, each output with a name
IsStage(stage) ==
  /\ stage = [contract |-> stage.contract, baseline |-> stage.baseline, outputs |-> stage.outputs,
              checks |-> stage.checks, skills |-> stage.skills]
  /\ stage.checks \in Seq(Range(stage.checks))
  /\ \A o \in Range(stage.outputs) : o = [name |-> o.name, content |-> o.content, changes |-> o.changes]

\* run_gate is asked about pull requests only; what a level names can be read or
\* not, and it says nothing of skills unless it has the section
ASSUME WorldsAssumption ==
  \A i \in DOMAIN Worlds : \A w \in Worlds[i] :
    /\ w.route = "gate" => w.inquiry.pull
    /\ w.prefix \in Seq(STRING) /\ w.stages \in Seq(Range(w.stages))
    /\ \A stage \in Range(w.stages) : IsStage(stage)
    /\ w.rivals \subseteq {"foreign", "failed", "older"}
    /\ w.apm \in {"clean", "fail", "unavailable", "unenforced"}
    /\ {w.inquiry.override, "base", "tree", "org"} \ {None} \subseteq DOMAIN w.inquiry.documents
    /\ \A level \in Range(w.inquiry.documents) :
         /\ level.extends \in DOMAIN w.inquiry.documents \cup {None}
         /\ level.revoked # {} => level.present

\* The files of a repository and of what runs deliver there are among Names
ASSUME NamesAssumption ==
  \A i \in DOMAIN Worlds : \A w \in Worlds[i] :
    /\ DOMAIN w.base \subseteq Range(Names)
    /\ \A run \in {Delivery(w.stages, w.base), Delivery(Aged(w.stages), <<>>)} :
         DOMAIN run.files \cup DOMAIN run.before \subseteq Range(Names)

\* What is delivered are regular files (REGULAR, OutputBinding)
ASSUME RunAssumption ==
  \A i \in DOMAIN Worlds : \A w \in Worlds[i] :
    {Absent, "link"} \cap Range(Delivery(w.stages, w.base).files) = {}

VARIABLES
  world,     \* what is audited; constant
  store,     \* the attestations
  pull,      \* [mergeBase, base, head]: the files of the pull request
  place,     \* where the platform, then the audit, is
  audit,     \* [result, reason, rows, signer]: class Audit
  receipt,   \* the statements under audit
  look,      \* the lookup of a summary so far
  doubt      \* history: a question stayed unanswered

vars == <<policyVars, world, store, pull, place, audit, receipt, look, doubt>>

Display == {"Policy", "Integrity", "Factory", "Checks", "Dependencies", "Revocation",
            "Outputs", "Identity"}

Structure == <<"Integrity", "Factory", "Checks", "Outputs">>

-----------------------------------------------------------------------------
(* The run and what is signed of it *)

Delivered == Delivery(world.stages, world.base)

Bundle == Export(world.stages, world.base, world.lock, world.commit)

\* predicate.py: the summary of a bundle under the repository directory
SummaryOf(bundle, result) ==
  [kind |-> "vsa", sound |-> TRUE, subjects |-> Under(world.prefix, Prov(bundle).subjects),
   policy |-> Prov(bundle).definition, inputs |-> bundle, result |-> result]

CarrierOf(bundle) ==
  [kind |-> "carrier", subjects |-> Under(world.prefix, Prov(bundle).subjects), lines |-> bundle]

\* cert: the workflow, its ref and the commit or tag object it signed at; nr: the
\* order in which they are stored
Attestation(doc, cert, nr) == [doc |-> doc, cert |-> cert, repo |-> "home", nr |-> nr]

OlderBundle == Export(Aged(world.stages), <<>>, world.lock, world.commit)

\* What was stored before: summaries that are no reason to pass
Rivals ==
  {CASE rival = "foreign" ->
          Attestation(SummaryOf(Bundle, "PASSED"), [world.cert EXCEPT !.workflow = "other"], 1)
     [] rival = "failed"  -> Attestation(SummaryOf(Bundle, "FAILED"), world.cert, 2)
     [] rival = "older"   -> Attestation(SummaryOf(OlderBundle, "PASSED"), world.cert, 3)
   : rival \in world.rivals}

\* The two uploads of action.yml; the job may stop before either
AttestBundle ==
  /\ place = "run" /\ Bundle # <<>> /\ Inspect(Bundle, TRUE) = "none"
  /\ store' = store \cup {Attestation(CarrierOf(Bundle), world.cert, 4)}
  /\ place' = "bundled"
  /\ UNCHANGED <<policyVars, world, pull, audit, receipt, look, doubt>>

AttestSummary ==
  /\ place = "bundled"
  /\ store' = store \cup {Attestation(SummaryOf(Bundle, "PASSED"), world.cert, 5)}
  /\ place' = "attested"
  /\ UNCHANGED <<policyVars, world, pull, audit, receipt, look, doubt>>

-----------------------------------------------------------------------------
(* The pull request *)

\* The delivery as changes of the repository
Changes ==
  LET names == {world.prefix \o n : n \in DOMAIN Delivered.files \cup Removed(Delivered)}
  IN [n \in names |-> At(Under(world.prefix, Delivered.files), n)]

Repository == Under(world.prefix, world.base)

\* build_commit: on the base the run was built on, and it must change something
Deliver ==
  /\ place \in {"run", "bundled", "attested"}
  /\ Bundle # <<>> /\ Overlay(Repository, Changes) # Repository
  /\ pull' = [mergeBase |-> Repository, base |-> Repository, head |-> Overlay(Repository, Changes)]
  /\ place' = "open"
  /\ UNCHANGED <<policyVars, world, store, audit, receipt, look, doubt>>

Edit(files) ==
  LET names == DOMAIN Repository \cup DOMAIN Changes \cup {world.prefix \o Names[1]}
  IN {Overlay(files, change) : change \in UNION {[{n} -> Contents \cup {Absent}] : n \in names}}

\* external: the author edits a file of the branch, or the base branch goes on
Amend ==
  /\ place = "open" /\ world.lively
  /\ \E head \in Edit(pull.head) : pull' = [pull EXCEPT !.head = head]
  /\ place' = "final"
  /\ UNCHANGED <<policyVars, world, store, audit, receipt, look, doubt>>

Advance ==
  /\ place = "open" /\ world.lively
  /\ \E base \in Edit(pull.base) : pull' = [pull EXCEPT !.base = base]
  /\ place' = "moved"
  /\ UNCHANGED <<policyVars, world, store, audit, receipt, look, doubt>>

\* external: the branch is brought up to its base
Rebase ==
  /\ place = "moved"
  /\ pull' = [pull EXCEPT !.mergeBase = pull.base,
                          !.head = Overlay(pull.base, [n \in Changed(pull) |-> At(pull.head, n)])]
  /\ place' = "final"
  /\ UNCHANGED <<policyVars, world, store, audit, receipt, look, doubt>>

-----------------------------------------------------------------------------
(* The report *)

Unjudged == [result |-> "valid", reason |-> None, rows |-> [n \in Display |-> "unset"],
           signer |-> None]

Put(a, name, status) == [a EXCEPT !.rows[name] = status]

Fail(a, name) ==
  LET failed == Put(a, name, "fail")
  IN IF a.result = "invalid" THEN failed
     ELSE [failed EXCEPT !.result = "invalid", !.reason = name]

Incomplete(a, name) ==
  LET warned == Put(a, name, "warn")
  IN IF a.result = "valid" THEN [warned EXCEPT !.result = "incomplete", !.reason = name]
     ELSE warned

Judge(a, name, verdict) == IF verdict = "fail" THEN Fail(a, name) ELSE Put(a, name, verdict)

NotEvaluated(a) ==
  [a EXCEPT !.rows = [n \in Display |-> IF a.rows[n] = "unset" THEN "skipped" ELSE a.rows[n]]]

PolicyRow(a) ==
  CASE resolution.status = "unloadable" -> Incomplete(a, "Policy")
    [] resolution.status = "partial"    -> Put(a, "Policy", "warn")
    [] resolution.status # "partial" /\ ~Applies /\ resolution.status # "unloadable"
                                        -> Put(a, "Policy", "info")
    [] OTHER                            -> Put(a, "Policy", "pass")

\* The rows up to the first that fails; the later ones are not evaluated
Structural(a, failure) ==
  LET Rank(n) == CHOOSE i \in DOMAIN Structure : Structure[i] = n
      Status(n) == CASE failure = "none" \/ Rank(n) < Rank(failure) -> "pass"
                     [] OTHER -> "skipped"
      rows == [n \in Display |-> IF n \in Range(Structure) THEN Status(n) ELSE a.rows[n]]
      told == [a EXCEPT !.rows = rows]
  IN IF failure = "none" THEN told ELSE Fail(told, failure)

\* The summary found
Summed == CHOOSE a \in look.summary : TRUE

IdentityRow(a, status) ==
  CASE status = "signed"   -> [Put(a, "Identity", "pass") EXCEPT !.signer = Summed.cert.workflow]
    [] status = "unsigned" -> Judge(a, "Identity", EvaluateUnsigned)
    [] status = "mismatch" -> Judge(a, "Identity", Violation)
    [] status = "unresolved" \/ (status = "unavailable" /\ Rules.signed)
                           -> Incomplete(a, "Identity")
    [] OTHER               -> Put(a, "Identity", "warn")

-----------------------------------------------------------------------------
(* The lookup of a summary.  GitHub lists, for one content in one          *)
(* repository, the attestations about it, in an order of its own; a        *)
(* repository it does not show is answered 404, which reads as none.  gh   *)
(* verifies what is listed.                                                *)

Home(signer) == IF signer.repo = None THEN world.default ELSE signer.repo

Stored(content, repo) == {a \in store : a.repo = repo /\ content \in Range(a.doc.subjects)}

\* What comes before an attestation in the list
Ahead(a, content, repo) ==
  {b \in Stored(content, repo) : IF world.newest THEN b.nr > a.nr ELSE b.nr < a.nr}

\* One page is asked for, and never the next
Listed(content, repo) ==
  IF repo \in world.concealed THEN {}
  ELSE {a \in Stored(content, repo) : Cardinality(Ahead(a, content, repo)) < PerPage}

\* The files looked for: those at head that are regular
Sought == {n \in Present(pull) : pull.head[n] # "link"}

Position(name) ==
  CHOOSE i \in DOMAIN Names : world.prefix \o Names[i] = name

\* Every content once, in every repository of a signer
Questions ==
  LET First(n) == \A m \in Sought :
                    pull.head[m] = pull.head[n] => Position(n) <= Position(m)
  IN [path : {n \in Sought : First(n)}, repo : {Home(s) : s \in Signers} \ {None}]

Least(names) == CHOOSE n \in names : \A m \in names : Position(n) <= Position(m)

NothingAsked ==
  [left |-> {}, asked |-> 0, unanswered |-> FALSE, files |-> <<>>, signers |-> {},
   ignored |-> FALSE, unresolved |-> FALSE, wrong |-> FALSE, summary |-> {}]

\* A signer without a repository cannot be asked about
LookingUp ==
  [NothingAsked EXCEPT !.left = Questions,
                       !.unanswered = \E s \in Signers : Home(s) = None]

\* The changed files, the attested one first; only so many are looked up by
FilesFrom(attested) ==
  LET rest      == {n \in Present(pull) : n # attested}
      Ranked(k) == CHOOSE n \in rest : Cardinality({m \in rest : Position(m) < Position(n)}) = k
      most      == IF Cardinality(rest) < MaxFirst THEN Cardinality(rest) + 1 ELSE MaxFirst
  IN [i \in 1 .. most |-> IF i = 1 THEN attested ELSE Ranked(i - 2)]

AskOf(files) == [NothingAsked EXCEPT !.files = files, !.signers = Signers]

\* _tag_target: the commit a tag object names, None when it is no tag object
TagTarget(at) == IF at = "tag1" THEN "c1" ELSE None

\* covers: every file looked for is a subject with its bytes
Covers(doc) == \A n \in Sought : At(doc.subjects, n) = pull.head[n]

\* Mutated: the same files are enough
BindsFiles(doc) == Placements(doc.subjects, Prov(receipt).subjects) # {}

\* _bundle_binding: exactly these statements, files and definition
Binds(doc) ==
  /\ Placements(doc.subjects, Prov(receipt).subjects) # {}
  /\ Occurrences(doc.inputs) = Occurrences(Lines(receipt))
  /\ doc.policy = Prov(receipt).definition

Gate == world.route = "gate"

\* _check and the pinned ref
Passes(a, signer) ==
  /\ a.doc.result = "PASSED"
  /\ IF Gate THEN Covers(a.doc) ELSE Binds(a.doc)
  /\ signer.ref \in {None, a.cert.ref}

\* What gh verifies of the attestations listed for a content
Verified(content, signer) ==
  {a \in Listed(content, Home(signer)) : a.doc.kind = "vsa" /\ a.cert.workflow = signer.workflow}

Pinned(a, signer) == signer.sha \in {None, a.cert.at, TagTarget(a.cert.at)}

\* The signer answered; tags: GitHub resolves a tag object
Weigh(content, signer, tags) ==
  LET found      == Verified(content, signer)
      listed     == {a \in Listed(content, Home(signer)) : a.doc.kind = "vsa"}
      good       == {a \in found : Passes(a, signer)}
      Direct(a)  == signer.sha \in {None, a.cert.at}
      accepted   == {a \in good : Direct(a) \/ (tags /\ Pinned(a, signer))}
      ignored    == found # good \/ (found = {} /\ listed # {})
  IN IF accepted # {}
       THEN {[look EXCEPT !.summary = {a}, !.signers = {}] : a \in accepted}
       ELSE {[look EXCEPT !.signers = @ \ {signer},
                          !.ignored = @ \/ ignored,
                          !.unresolved = @ \/ (~tags /\ good # {}),
                          !.wrong = @ \/ (tags /\ good # {})]}

\* verify: the first summary that passes wins; what stays open outranks what is wrong
IdentityStatus ==
  IF look.summary # {} THEN "signed"
  ELSE IF look.unresolved THEN "unresolved"
  ELSE IF look.unanswered THEN "unavailable"
  ELSE IF look.wrong THEN "mismatch" ELSE "unsigned"

-----------------------------------------------------------------------------
(* run_gate: a pull request, from the attestation store *)

Audited == UNCHANGED <<policyVars, world, store, pull>>

Finish(a) == audit' = a /\ place' = "done" /\ UNCHANGED <<receipt, look>>

Go(next, a) == audit' = a /\ place' = next

\* A receipt file is read where it lies, a pull request as it is now
StartAudit ==
  /\ place \in IF InPull THEN {"open", "moved", "final"} ELSE {"run", "bundled", "attested"}
  /\ Bundle # <<>>
  /\ place' = "resolve"
  /\ UNCHANGED <<policyVars, world, store, pull, audit, receipt, look, doubt>>

ResolvePolicy ==
  /\ place = "resolve" /\ Resolve
  /\ UNCHANGED <<world, store, pull, place, audit, receipt, look, doubt>>

Resolved == place = "resolve" /\ resolution.status # "open"

\* The policy does not load, names no signer, or GitHub may not be asked
GateClosed ==
  /\ Resolved /\ Gate /\ Audited
  /\ LET a == PolicyRow(Unjudged) IN
       \/ resolution.status = "unloadable" /\ Finish(NotEvaluated(a))
       \/ /\ resolution.status # "unloadable" /\ (Signers = {} \/ inquiry.offline)
          /\ Finish(NotEvaluated(Incomplete(a, "Identity")))
  /\ UNCHANGED doubt

StartGate ==
  /\ Resolved /\ Gate /\ Audited
  /\ resolution.status # "unloadable" /\ Signers # {} /\ ~inquiry.offline
  /\ Go("lookup", PolicyRow(Unjudged)) /\ look' = LookingUp
  /\ UNCHANGED <<receipt, doubt>>

\* The bytes at head cannot be read: nothing catches it, a traceback ends the audit
GateRaises ==
  /\ Resolved /\ Gate /\ Audited
  /\ resolution.status # "unloadable" /\ Signers # {} /\ Present(pull) # {} /\ world.flaky
  /\ place' = "raised" /\ doubt' = TRUE
  /\ UNCHANGED <<audit, receipt, look>>

\* The question after the last may not be asked any more
TooMany ==
  /\ place = "lookup" /\ Audited
  /\ look.left # {} /\ look.asked = MaxLookups
  /\ Finish(NotEvaluated(Incomplete(audit, "Identity")))
  /\ UNCHANGED doubt

\* Mutated: a question that stays unanswered is answered no
AnsweredNo(progress) == progress

Unanswered(progress) == [progress EXCEPT !.unanswered = TRUE]

\* carries: any factory attestation, of any workflow, makes the file the first
LookUp(question) ==
  /\ place = "lookup" /\ Audited
  /\ look.asked < MaxLookups
  /\ question \in look.left /\ question.path = Least({q.path : q \in look.left})
  /\ LET asked == [look EXCEPT !.left = @ \ {question}, !.asked = @ + 1] IN
       \/ /\ Listed(pull.head[question.path], question.repo) # {}
          /\ IF Sought = Present(pull)
               THEN Go("check", audit) /\ look' = AskOf(FilesFrom(question.path))
               ELSE /\ Go("done", NotEvaluated(Fail(audit, "Outputs"))) /\ UNCHANGED look
          /\ UNCHANGED doubt
       \/ /\ Listed(pull.head[question.path], question.repo) = {}
          /\ look' = asked /\ UNCHANGED <<audit, place, doubt>>
       \/ /\ world.flaky
          /\ look' = Unanswered(asked) /\ doubt' = TRUE /\ UNCHANGED <<audit, place>>
  /\ UNCHANGED receipt

NotDelivered ==
  /\ place = "lookup" /\ look.left = {} /\ Audited
  /\ Finish(NotEvaluated(IF look.unanswered THEN Incomplete(audit, "Identity")
                         ELSE [Fail(audit, "Identity") EXCEPT !.reason = "not_a_delivery"]))
  /\ UNCHANGED doubt

Content(name) == IF Gate THEN pull.head[name] ELSE Prov(receipt).subjects[name]

CheckSigner(signer) ==
  /\ place = "check" /\ Audited
  /\ signer \in look.signers
  /\ \/ /\ Home(signer) # None
        /\ \E tags \in IF world.flaky /\ signer.sha # None THEN BOOLEAN ELSE {TRUE} :
             /\ look' \in Weigh(Content(look.files[1]), signer, tags)
             /\ doubt' = (doubt \/ ~tags)
     \/ /\ Home(signer) = None \/ world.flaky
        /\ look' = [Unanswered(look) EXCEPT !.signers = @ \ {signer}]
        /\ doubt' = TRUE
  /\ UNCHANGED <<place, audit, receipt>>

AllAsked == place = "check" /\ look.signers = {} /\ Audited /\ UNCHANGED doubt

\* A file no summary is about says nothing of the others
TryNextFile ==
  /\ AllAsked /\ Gate
  /\ IdentityStatus = "unsigned" /\ ~look.ignored /\ Len(look.files) > 1
  /\ look' = AskOf(Tail(look.files))
  /\ UNCHANGED <<place, audit, receipt>>

GateUnsigned ==
  /\ AllAsked /\ Gate
  /\ IdentityStatus = "unsigned" /\ (look.ignored \/ Len(look.files) = 1)
  /\ Finish(NotEvaluated(Fail(audit, "Identity")))

GateUndecided ==
  /\ AllAsked /\ Gate
  /\ IdentityStatus \notin {"signed", "unsigned"}
  /\ LET a == IdentityRow(audit, IdentityStatus)
     IN Finish(NotEvaluated(IF a.result = "valid" THEN Incomplete(a, "Identity") ELSE a))

\* statements: what the same signer attested at the same commit about the file
Carried ==
  LET s == Summed IN
  UNION {Range(a.doc.lines) : a \in {b \in Listed(Content(look.files[1]), s.repo) :
           b.doc.kind = "carrier" /\ b.cert.workflow = s.cert.workflow /\ b.cert.at = s.cert.at}}

GateFetches ==
  /\ AllAsked /\ Gate /\ IdentityStatus = "signed"
  /\ LET a == IdentityRow(audit, "signed") IN
     IF Range(Summed.doc.inputs) \subseteq Carried
       THEN /\ Go("inspect", a)
            /\ receipt' = Append(Summed.doc.inputs, Summed.doc)
            /\ UNCHANGED look
       ELSE Finish(NotEvaluated(Fail(a, "Integrity")))

\* Nothing catches it when gh takes too long
FetchFails ==
  /\ place = "check" /\ Gate /\ IdentityStatus = "signed" /\ world.flaky /\ Audited
  /\ \/ Finish(NotEvaluated(Incomplete(IdentityRow(audit, "signed"), "Integrity")))
     \/ place' = "raised" /\ UNCHANGED <<audit, receipt, look>>
  /\ doubt' = TRUE

-----------------------------------------------------------------------------
(* run_audit: a receipt file as it lies on disk; then the rows of both     *)

\* What became of the receipt file since it was exported
OnDisk ==
  LET p   == Prov(Bundle)
      Cut == [p EXCEPT !.stages = [i \in DOMAIN @ |-> [@[i] EXCEPT !.checks = <<>>]]]
  IN CASE world.damage = "cut"       -> RemoveAt(Bundle, 2)
       [] world.damage = "doubled"   -> Append(Bundle, Bundle[2])
       [] world.damage = "broken"    -> Append(Tail(Bundle), [Bundle[1] EXCEPT !.sound = FALSE])
       [] world.damage = "unchecked" -> <<Cut, Last(Bundle)>>
       [] world.damage = "rebased"   -> <<[p EXCEPT !.commit = "stray"]>> \o Tail(Bundle)
       [] OTHER                      -> Bundle

StartBundle ==
  /\ Resolved /\ ~Gate /\ Audited
  /\ Go("inspect", PolicyRow(Unjudged)) /\ receipt' = OnDisk
  /\ UNCHANGED <<look, doubt>>

\* Beside a receipt the definition may be retained; the store has none
Retained == ~Gate /\ world.evidence

Sound == Inspect(receipt, Retained) = "none"

\* Which bytes the receipt is held against: a directory, a change, or none
Rehashes == ~Gate /\ world.outputs = "given"
Binding  == Gate \/ (InPull /\ ~Rehashes)

\* Mutated: a receipt is of the repository, never of a directory in it
RootOfRepository == <<>>

\* Where the delivered files lie in the repository
Root == IF Gate THEN CHOOSE p \in PrefixOf(receipt) : TRUE ELSE world.prefix

\* bind: unbound, then not in this checkout, then stale
ChangeRow(a) ==
  LET commit == Prov(receipt).commit IN
  CASE ~Bound(pull, receipt, Root)                         -> Fail(a, "Outputs")
    [] Bound(pull, receipt, Root) /\ commit = "missing"    -> Incomplete(a, "Outputs")
    [] OTHER -> IF Fresh(pull, receipt, Root) /\ commit # "stray" THEN Put(a, "Outputs", "pass")
                ELSE Fail(a, "Outputs")

\* is_ancestor: git merge-base fails, for whatever reason, and that reads as no
AncestorUnanswered ==
  /\ world.flaky /\ Bound(pull, receipt, Root)
  /\ Prov(receipt).commit \notin {None, "missing"}

InspectReceipt ==
  /\ place = "inspect" /\ Audited
  /\ LET a == Structural(audit, Inspect(receipt, Retained)) IN
     \/ ~Sound /\ Go("rules", a) /\ UNCHANGED doubt
     \/ /\ Sound /\ Rehashes /\ UNCHANGED doubt
        /\ Go("rules", IF world.intact = "all" THEN a ELSE Fail(a, "Outputs"))
     \/ Sound /\ Binding /\ Go("rules", ChangeRow(a)) /\ UNCHANGED doubt
     \/ Sound /\ Binding /\ world.flaky /\ Go("rules", Incomplete(a, "Outputs")) /\ doubt' = TRUE
     \/ Sound /\ Binding /\ AncestorUnanswered /\ Go("rules", Fail(a, "Outputs")) /\ doubt' = TRUE
     \/ Sound /\ ~Rehashes /\ ~Binding /\ Go("rules", a) /\ UNCHANGED doubt
  /\ UNCHANGED <<receipt, look>>

FactoryRow(a) ==
  IF Sound /\ Applies THEN Judge(a, "Factory", EvaluateFactory(Prov(receipt).definition)) ELSE a

\* audit_dependencies; answer: what reinstalling and auditing with APM shows.  What is
\* exported lists components only with a lock: the code has no words for other receipts
Dependencies(answer) ==
  LET p    == Prov(receipt)
      lock == UNION Range(p.lock)
  IN CASE p.lock = <<>> -> IF The(receipt, "bom").components = {} THEN "pass" ELSE "fail"
       [] p.lock # <<>> /\ Retained /\ p.definition.packages # lock -> "fail"
       [] OTHER -> CASE lock = {} -> "pass"
                     [] lock # {} /\ inquiry.offline -> "warn"
                     [] OTHER -> CASE answer = "clean" \/ (answer = "unenforced" /\ ~resolution.apm) -> "pass"
                                   [] answer = "unenforced" /\ resolution.apm -> "unavailable"
                                   [] OTHER -> answer

DependenciesRow(a, answer) ==
  CASE a.result = "invalid" \/ resolution.status = "unloadable" -> Put(a, "Dependencies", "skipped")
    [] OTHER -> CASE Dependencies(answer) = "unavailable" -> Incomplete(a, "Dependencies")
                  [] OTHER -> Judge(a, "Dependencies", Dependencies(answer))

RevocationRow(a) ==
  Judge(a, "Revocation",
        CASE ~Sound -> "skipped"
          [] Sound /\ ~(Applies /\ Rules.present) -> "info"
          [] OTHER -> EvaluateRevocation(Prov(receipt).skills))

PolicyRows(a, answer) == RevocationRow(DependenciesRow(FactoryRow(a), answer))

\* A delivered file beside the receipt, to look a signature up by
Artifacts ==
  IF world.outputs = None \/ world.intact = "none" THEN {}
  ELSE {CHOOSE n \in DOMAIN Prov(receipt).subjects : TRUE}

\* _identity up to the questions it asks of GitHub
Unasked(a) ==
  CASE ~Applies               -> Put(a, "Identity", "warn")
    [] Applies /\ ~Sound      -> Put(a, "Identity", "skipped")
    [] OTHER -> IF Signers = {} THEN Judge(a, "Identity", EvaluateUnsigned)
                ELSE IdentityRow(a, "unavailable")

JudgeRules ==
  /\ place = "rules" /\ Audited
  /\ \E answer \in {world.apm} \cup (IF world.flaky THEN {"unavailable"} ELSE {}) :
       LET a    == PolicyRows(audit, answer)
           asks == Applies /\ Sound /\ Signers # {} /\ ~inquiry.offline /\ Artifacts # {}
       IN /\ doubt' = (doubt \/ answer # world.apm)
          /\ CASE Gate -> Go("done", a) /\ UNCHANGED look
               [] ~Gate /\ asks -> Go("check", a) /\ look' = AskOf(SetToSeq(Artifacts))
               [] OTHER -> Go("done", Unasked(a)) /\ UNCHANGED look
  /\ UNCHANGED receipt

BundleIdentity ==
  /\ AllAsked /\ ~Gate
  /\ Finish(IdentityRow(audit, IdentityStatus))

-----------------------------------------------------------------------------
Init ==
  /\ \E i \in DOMAIN Worlds : world \in Worlds[i]
  /\ inquiry = world.inquiry
  /\ InitPolicy
  /\ store = Rivals
  /\ pull = [mergeBase |-> <<>>, base |-> <<>>, head |-> <<>>]
  /\ place = "run" /\ audit = Unjudged /\ receipt = <<>> /\ look = NothingAsked
  /\ doubt = FALSE

Next ==
  \/ AttestBundle \/ AttestSummary \/ Deliver \/ Amend \/ Advance \/ Rebase
  \/ StartAudit \/ ResolvePolicy
  \/ GateClosed \/ StartGate \/ GateRaises \/ TooMany \/ NotDelivered
  \/ \E question \in look.left : LookUp(question)
  \/ \E signer \in look.signers : CheckSigner(signer)
  \/ TryNextFile \/ GateUnsigned \/ GateUndecided \/ GateFetches \/ FetchFails
  \/ StartBundle \/ InspectReceipt \/ JudgeRules \/ BundleIdentity

Spec == Init /\ [][Next]_vars

-----------------------------------------------------------------------------
(* What must hold *)

Over(result) == place = "done" /\ audit.result = result

\* A PASSED summary that one of the entries accepts
Vouched(a, entries) ==
  /\ a.doc.kind = "vsa" /\ a.doc.result = "PASSED"
  /\ \E s \in entries : /\ s.workflow = a.cert.workflow /\ Home(s) = a.repo
                        /\ s.ref \in {None, a.cert.ref} /\ Pinned(a, s)

\* The run a summary was signed of
RunOf(a) ==
  IF a.doc.inputs = Bundle THEN Delivered
  ELSE Delivery(Aged(world.stages), <<>>)

\* What no level that blocks refuses of the run
Permitted ==
  \A level \in {l \in Levels : Applies /\ Rules.enforcement = "block"} :
    /\ \A list \in level.allow : Definition(world.stages, world.lock) \in list
    /\ level.revoked \cap Skills(world.stages) = {}

Installable == UNION Range(world.lock) = {} \/ inquiry.offline \/ world.apm = "clean"
                 \/ (world.apm = "unenforced" /\ ~resolution.apm)

(* Hazard: the change is read, the policy found, the store asked and the   *)
(* statements fetched in separate steps, while the branch, its base and    *)
(* the store are written by others.  A pull request passes only if one     *)
(* PASSED summary, by a signer every level that lists signers accepts,     *)
(* names each file it adds or changes with its bytes; the signed run       *)
(* deleted each file it deletes; each was at its base what that run        *)
(* started from; and no rule of the base's own chain refuses the run.      *)
GateIsEarned ==
  Gate /\ Over("valid") =>
    /\ inquiry.override # "tree" /\ (inquiry.override = None => chain[1] # "tree")
    /\ Permitted /\ Installable
    /\ \E a \in store :
         LET run == RunOf(a)
             before  == Under(world.prefix, run.before)
             removed == {world.prefix \o n : n \in Removed(run)}
         IN /\ Vouched(a, Signers)
            /\ \A level \in Levels : \A list \in level.signers : Vouched(a, list)
            /\ \A n \in Changed(pull) :
                 /\ IF n \in DOMAIN pull.head THEN At(a.doc.subjects, n) = pull.head[n]
                    ELSE n \in removed
                 /\ n \in DOMAIN before /\ At(pull.base, n) = before[n]

(* Hazard: a receipt is a file anyone can edit, and evidence is optional.  *)
(* One that audits as valid with its definition beside it has a PASSED     *)
(* result for every check of that definition, as often as it is declared,  *)
(* re-hashed files are the delivered ones, and no rule refuses it.         *)
ReceiptIsWhole ==
  ~Gate /\ Over("valid") =>
    /\ world.evidence =>
         Occurrences([i \in DOMAIN Of(receipt, "test") |->
             <<Of(receipt, "test")[i].contract, Of(receipt, "test")[i].check>>])
           = Occurrences(Declared(world.stages))
    /\ Rehashes => world.intact = "all"
    /\ Permitted /\ Installable
    /\ \A i \in DOMAIN receipt : receipt[i].sound

(* Hazard: the signature covers a summary, and the summary the statements  *)
(* by digest; a check of the files alone would authenticate an edited      *)
(* receipt.  A receipt that is reported as authenticated is, statement by  *)
(* statement, the one a PASSED summary of a trusted signer names.          *)
AuthenticatedIsBound ==
  place = "done" /\ audit.signer # None /\ receipt # <<>> =>
    \E a \in store : /\ Vouched(a, Signers)
                     /\ Occurrences(a.doc.inputs) = Occurrences(Lines(receipt))

\* Two delivered files with the same bytes, one name the tail of the other
Ambiguous ==
  \E m, n \in DOMAIN Delivered.files :
    m # n /\ IsSuffix(m, n) /\ Delivered.files[m] = Delivered.files[n]

\* The factory's own pull request, unedited, on its base, signed as the policy asks, in
\* a repository whose store GitHub shows
Honest ==
  /\ Gate /\ ~inquiry.offline /\ resolution.status = "found" /\ Permitted
  /\ pull.base = Repository /\ pull.mergeBase = Repository
  /\ pull.head = Overlay(Repository, Changes)
  /\ \A n \in DOMAIN Delivered.before : Delivered.before[n] = At(world.base, n)
  /\ store = {Attestation(CarrierOf(Bundle), world.cert, 4),
              Attestation(SummaryOf(Bundle, "PASSED"), world.cert, 5)}
  /\ \E a \in store : Vouched(a, Signers)
  /\ "home" \notin world.concealed
  /\ world.commit \in {None, "c0"} /\ world.apm = "clean"
  /\ IsFiniteSet(Questions) /\ Cardinality(Questions) <= MaxLookups

(* Hazard: the gate refuses by default, so an error of its own blocks the  *)
(* merges of a whole repository and looks like an attack.  An unedited     *)
(* delivery of some file is valid when everything is answered, and called  *)
(* invalid only where git left one question open, whether the commit the   *)
(* run was built on is in the history of the base, which is_ancestor reads *)
(* as no (docs/audit.md:326 gives exit 2 to a change that could not be     *)
(* read); no other open question reads as a refusal.  A delivery that only *)
(* deletes files leaves none to look a summary up by, and is refused.      *)
HonestDeliveryPasses ==
  place = "done" /\ Honest /\ ~Ambiguous /\ Present(pull) # {} =>
    /\ ~doubt => audit.result = "valid"
    /\ audit.result = "invalid" => audit.reason = "Outputs" /\ world.commit # None

(* docs/audit.md:91-105 and the finding: what the gate asks of a pull      *)
(* request, an unedited signed delivery has, whatever its files are named. *)
SignedDeliveryIsAccepted ==
  place = "done" /\ Honest => audit.result # "invalid"

\* On the first page of each file
Shown(a) == \A n \in Sought : a \in Listed(pull.head[n], a.repo)

(* Hazard: a lookup that fails must not read as a lookup that found        *)
(* nothing.  The gate says that a pull request is no delivery only if the  *)
(* first page is empty for every file, and that no summary covers it only  *)
(* if none is on the first page of each, whatever stayed unanswered.       *)
InvalidIsDefinite ==
  Gate /\ place = "done" /\ audit.rows["Identity"] = "fail" =>
    /\ audit.reason = "not_a_delivery" =>
         \A n \in Sought, s \in Signers : Listed(pull.head[n], Home(s)) = {}
    /\ ~\E a \in store : Vouched(a, Signers) /\ Covers(a.doc) /\ Shown(a) /\ Sought # {}
=============================================================================
