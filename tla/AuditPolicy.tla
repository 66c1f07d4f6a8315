------------------------------ MODULE AuditPolicy ------------------------------
(***************************************************************************)
(* audit/policy.py: where the policy of an audit is found, how the levels  *)
(* of one extends chain are merged, and what the merged rules say of a     *)
(* delivery.  A level is one apm-policy.yml as document_keys returns it;   *)
(* an optional list is a set that holds the list or is empty.  APM, which  *)
(* locates and loads policies, answers as inquiry.apm says.                *)
(***************************************************************************)
EXTENDS Integers, Sequences, FiniteSets, SequencesExt

CONSTANTS
  MaxChain,      \* _MAX_CHAIN: the levels of one extends chain
  Certificates   \* who may have signed: [workflow, repo, ref, at]

ASSUME PolicyAssumption == MaxChain \in Nat \ {0}

VARIABLES
  inquiry,    \* what the audit is asked about and where policies lie; constant
  chain,      \* the references read so far
  resolution  \* [status, policy, apm]: "open" while the policy is looked for

policyVars == <<inquiry, chain, resolution>>

None == "none"

-----------------------------------------------------------------------------
(* One level *)

\* A document that says nothing
Silent == [readable |-> TRUE, present |-> FALSE, top |-> None, enforcement |-> None, allow |-> {},
           signers |-> {}, signed |-> FALSE, revoked |-> {}, extends |-> None]

\* Every receipt other accepts is also accepted by rule
Allows(rule, other) ==
  /\ rule.workflow = other.workflow /\ rule.repo = other.repo
  /\ rule.ref \in {None, other.ref} /\ rule.sha \in {None, other.sha}

\* verify: what an entry of factories.signers asks of a certificate
Accepts(rule, certificate) ==
  /\ rule.workflow = certificate.workflow /\ rule.repo = certificate.repo
  /\ rule.ref \in {None, certificate.ref} /\ rule.sha \in {None, certificate.at}

-----------------------------------------------------------------------------
(* The chain *)

InAll(lists) == {x \in UNION lists : \A list \in lists : x \in list}

Meet(lists) == IF lists = {} THEN {} ELSE {InAll(lists)}

\* Mutated: a signer of any level is trusted
TrustedByAny(lists) == UNION lists

\* A signer that some level lists and every level with signers allows
Trusted(lists) == {s \in UNION lists : \A list \in lists : \E rule \in list : Allows(rule, s)}

Merge(levels) ==
  LET Said(field) == UNION {l[field] : l \in levels}
      tops        == {l.top : l \in levels} \ {None}
      stated      == {l \in levels : l.present}
      warns       == stated # {} /\ \A l \in stated : l.enforcement = "warn"
  IN [present     |-> stated # {},
      enforcement |-> CASE tops = {"off"} -> "off" [] tops # {"off"} /\ warns -> "warn"
                        [] OTHER -> "block",
      allow       |-> Meet(Said("allow")),
      signers     |-> LET lists == Said("signers") IN
                        IF lists = {} THEN {} ELSE {Trusted(lists)},
      signed      |-> \E l \in levels : l.signed,
      revoked     |-> Said("revoked")]

NoPolicy == [Merge({}) EXCEPT !.enforcement = "off"]

Applies == resolution.policy.enforcement # "off"

Rules == IF Applies THEN resolution.policy ELSE NoPolicy

\* The signers the rules name; none when they leave them open
Signers == UNION Rules.signers

-----------------------------------------------------------------------------
(* What the rules say *)

Violation == IF Rules.enforcement = "block" THEN "fail" ELSE "warn"

EvaluateFactory(definition) ==
  IF \A list \in Rules.allow : definition \in list THEN "pass" ELSE Violation

EvaluateRevocation(skills) ==
  IF skills \cap Rules.revoked = {} THEN "pass" ELSE Violation

\* None: nothing requires a signature
EvaluateUnsigned == IF Rules.signed THEN Violation ELSE "warn"

-----------------------------------------------------------------------------
(* resolve *)

InPull == inquiry.pull

\* A pull request may not name a file of its own checkout
Refused == InPull /\ inquiry.override = "tree"

\* The leaf document; a pull request is judged by the policy of its base.  files are the
\* ones git and the system answer for: a read that fails is a file that is not there
Leaf ==
  CASE inquiry.override # None           -> inquiry.override
    [] inquiry.override = None /\ InPull /\ "base" \in inquiry.files    -> "base"
    [] inquiry.override = None /\ ~InPull /\ "tree" \in inquiry.files   -> "tree"
    [] OTHER                             -> IF inquiry.origin THEN "org" ELSE None

Settle(status, policy, apm) ==
  resolution' = [status |-> status, policy |-> policy, apm |-> apm]

Unloadable == Settle("unloadable", NoPolicy, FALSE)

Opened == resolution.status = "open" /\ UNCHANGED inquiry

InitPolicy ==
  /\ chain = <<>>
  /\ resolution = [status |-> "open", policy |-> NoPolicy, apm |-> FALSE]

\* APM's answer: no policy applies, or it is not loaded
NoneApplies == inquiry.apm = "disabled" \/ (inquiry.apm = "absent" /\ Leaf = "org")
NotLoaded   == inquiry.apm = "error" \/ (inquiry.apm = "absent" /\ Leaf # "org")

Asked == ~inquiry.offline /\ Leaf # None /\ ~Refused

\* Nothing to read, nothing that may be read, or APM's answer ends the search
SettleEarly ==
  /\ Opened /\ chain = <<>> /\ UNCHANGED chain
  /\ \/ Leaf = None /\ Settle("none", NoPolicy, FALSE)
     \/ Leaf = "org" /\ inquiry.offline /\ Settle("partial", NoPolicy, FALSE)
     \/ Refused /\ Unloadable
     \/ Asked /\ NoneApplies /\ Settle("none", NoPolicy, FALSE)
     \/ Asked /\ NotLoaded /\ Unloadable

MayRead ==
  /\ Leaf # None /\ ~Refused
  /\ IF inquiry.offline THEN Leaf # "org" ELSE ~NoneApplies /\ ~NotLoaded

Extends(ref) == inquiry.documents[ref].extends

\* The levels read so far, and the reference to read
Levels == {inquiry.documents[chain[i]] : i \in DOMAIN chain}
Wanted == IF chain = <<>> THEN Leaf ELSE Extends(Last(chain))

\* A relative reference of a pull request is looked for in an empty project
Readable(ref) ==
  /\ ref = "relative" => ~InPull
  /\ ref = "org" /\ chain # <<>> => inquiry.orgFound
  /\ inquiry.documents[ref].readable

\* _chain, one level at a time
ReadLevel ==
  /\ Opened /\ MayRead /\ Wanted # None
  /\ inquiry.offline => chain = <<>>
  /\ IF Len(chain) >= MaxChain \/ Contains(chain, Wanted) \/ ~Readable(Wanted)
       THEN Unloadable /\ UNCHANGED chain
       ELSE chain' = Append(chain, Wanted) /\ UNCHANGED resolution

\* Offline only the leaf is read; an empty policy without the section is none
MergeLevels ==
  /\ Opened /\ chain # <<>> /\ (inquiry.offline \/ Wanted = None)
  /\ LET policy == Merge(Levels) IN
       IF ~inquiry.offline /\ inquiry.apm = "empty" /\ ~policy.present
         THEN Settle("none", NoPolicy, FALSE)
         ELSE Settle(IF Wanted = None THEN "found" ELSE "partial", policy,
                     ~inquiry.offline /\ inquiry.apm = "found")
  /\ UNCHANGED chain

Resolve == SettleEarly \/ ReadLevel \/ MergeLevels

-----------------------------------------------------------------------------
(* Hazard: levels of an extends chain are written by different owners and  *)
(* merged in any order; one that loosens what another asks for passes      *)
(* every delivery, and no single policy file shows it.  What a level that  *)
(* blocks asks for, the merged rules ask for as well, unless every level   *)
(* that sets the top-level switch turns the rules off (merge).             *)
Asks(level, rules) ==
  /\ rules.enforcement = "block"
  /\ \A list \in level.allow : rules.allow # {} /\ \A merged \in rules.allow : merged \subseteq list
  /\ level.revoked \subseteq rules.revoked
  /\ level.signed => rules.signed
  /\ \A list \in level.signers :
       /\ rules.signers # {}
       /\ \A certificate \in Certificates :
            (\E s \in UNION rules.signers : Accepts(s, certificate))
              => \E rule \in list : Accepts(rule, certificate)

Blocks(level) == level.present /\ level.enforcement # "warn"

ChainTightens ==
  resolution.status \in {"found", "partial"} /\ Applies =>
    \A level \in Levels : Blocks(level) => Asks(level, Rules)
=============================================================================
