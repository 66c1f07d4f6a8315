------------------------------ MODULE AuditProofs ------------------------------
(***************************************************************************)
(* Proofs about the audit, for every policy chain, store and pull request. *)
(***************************************************************************)
EXTENDS Audit, FiniteSetTheorems, NaturalsInduction, SequenceTheorems, WellFoundedInduction, TLAPS

-----------------------------------------------------------------------------
(* Merging levels *)

\* A certificate that satisfies a signer satisfies every entry that allows the signer
LEMMA AllowedIsAccepted ==
  ASSUME NEW rule, NEW s, NEW certificate, Allows(rule, s), Accepts(s, certificate)
  PROVE  Accepts(rule, certificate)
BY DEF Allows, Accepts

\* A signer of the merged list is accepted by some entry of every list
LEMMA TrustedByAll ==
  ASSUME NEW lists, NEW s \in Trusted(lists), NEW list \in lists
  PROVE  \E rule \in list : Allows(rule, s)
BY DEF Trusted

\* Whatever a blocking level asks for, the merged levels ask for
LEMMA MergeTightens ==
  ASSUME NEW levels, NEW level \in levels, Blocks(level), Merge(levels).enforcement # "off"
  PROVE  Asks(level, Merge(levels))
<1> DEFINE allowed == UNION {l.allow : l \in levels}
           lists == UNION {l.signers : l \in levels}
           rules == Merge(levels)
<1>1. level \in {l \in levels : l.present} /\ level.enforcement # "warn" BY DEF Blocks
<1>2. /\ rules.allow = Meet(allowed)
      /\ rules.signers = IF lists = {} THEN {} ELSE {Trusted(lists)}
      /\ rules.signed <=> \E l \in levels : l.signed
      /\ rules.revoked = UNION {l.revoked : l \in levels}
  BY DEF Merge
<1>3. rules.enforcement = "block"
  BY <1>1 DEF Merge
<1>4. ASSUME NEW list \in level.allow
      PROVE  rules.allow # {} /\ \A merged \in rules.allow : merged \subseteq list
  <2>1. list \in allowed BY <1>4
  <2> HIDE DEF allowed, rules
  <2>2. rules.allow = {InAll(allowed)} BY <1>2, <2>1 DEF Meet
  <2>3. InAll(allowed) \subseteq list BY <2>1 DEF InAll
  <2> QED BY <2>2, <2>3
<1>5. level.revoked \subseteq rules.revoked BY <1>2
<1>6. level.signed => rules.signed BY <1>2
<1>7. ASSUME NEW list \in level.signers
      PROVE  /\ rules.signers # {}
             /\ \A certificate \in Certificates :
                  (\E s \in UNION rules.signers : Accepts(s, certificate))
                    => \E rule \in list : Accepts(rule, certificate)
  <2>1. list \in lists BY <1>7
  <2> HIDE DEF lists, rules
  <2>2. rules.signers = {Trusted(lists)} BY <1>2, <2>1
  <2>3. ASSUME NEW certificate, NEW s \in UNION rules.signers, Accepts(s, certificate)
        PROVE  \E rule \in list : Accepts(rule, certificate)
    <3>1. s \in Trusted(lists) BY <2>2, <2>3
    <3>2. PICK rule \in list : Allows(rule, s) BY <2>1, <3>1, TrustedByAll
    <3> QED BY <2>3, <3>2, AllowedIsAccepted
  <2> QED BY <2>2, <2>3
<1> QED BY <1>3, <1>4, <1>5, <1>6, <1>7 DEF Asks

\* The policy is what the levels read so far merge to, or none at all
PolicyIsMerged ==
  \/ resolution.policy = NoPolicy
  \/ resolution.status # "open" /\ resolution.policy = Merge(Levels)

LEMMA NoPolicyIsOff == NoPolicy.enforcement = "off"
BY DEF NoPolicy, Merge

LEMMA PolicyStays ==
  ASSUME PolicyIsMerged, UNCHANGED policyVars
  PROVE  PolicyIsMerged'
<1>1. UNCHANGED <<inquiry, chain, resolution>> BY DEF policyVars
<1>2. Levels' = Levels BY <1>1 DEF Levels
<1> QED BY <1>1, <1>2 DEF PolicyIsMerged

LEMMA ResolveStep ==
  ASSUME PolicyIsMerged, Resolve
  PROVE  PolicyIsMerged'
<1>1. CASE SettleEarly BY <1>1 DEF SettleEarly, Settle, Unloadable, PolicyIsMerged
<1>2. CASE ReadLevel BY <1>2 DEF ReadLevel, Opened, Settle, Unloadable, PolicyIsMerged
<1>3. CASE MergeLevels
  <2>1. UNCHANGED <<inquiry, chain>> BY <1>3 DEF MergeLevels, Opened
  <2>2. Levels' = Levels BY <2>1 DEF Levels
  <2>3. /\ resolution'.policy = NoPolicy \/ resolution'.policy = Merge(Levels)
        /\ resolution'.status # "open"
    BY <1>3 DEF MergeLevels, Settle
  <2> QED BY <2>2, <2>3 DEF PolicyIsMerged
<1> QED BY <1>1, <1>2, <1>3 DEF Resolve

\* Only the search for the policy reads it
LEMMA PolicyMoves ==
  ASSUME [Next]_vars
  PROVE  (place = "resolve" /\ Resolve) \/ UNCHANGED policyVars
BY DEF Next, vars, Audited, AttestBundle, AttestSummary, Deliver, Amend, Advance, Rebase,
       StartAudit, ResolvePolicy, GateClosed, StartGate, GateRaises, TooMany, NotDelivered, LookUp,
       CheckSigner, TryNextFile, GateUnsigned, GateUndecided, GateFetches, FetchFails, StartBundle,
       InspectReceipt, JudgeRules, BundleIdentity, AllAsked

LEMMA PolicyStep ==
  ASSUME PolicyIsMerged, [Next]_vars
  PROVE  PolicyIsMerged'
BY PolicyMoves, PolicyStays, ResolveStep

\* However the levels of a chain are written and whoever may have signed: what a
\* level that blocks asks for, the rules of the audit ask for as well (merge).
THEOREM ChainOnlyTightens == Spec => []ChainTightens
<1>1. Init => PolicyIsMerged BY DEF Init, InitPolicy, PolicyIsMerged
<1>2. PolicyIsMerged /\ [Next]_vars => PolicyIsMerged' BY PolicyStep
<1>3. PolicyIsMerged => ChainTightens
  BY NoPolicyIsOff, MergeTightens DEF PolicyIsMerged, ChainTightens, Applies, Rules
<1> QED BY <1>1, <1>2, <1>3, PTL DEF Spec

-----------------------------------------------------------------------------
(* Reports *)

IsReport(a) == a = [result |-> a.result, reason |-> a.reason, rows |-> a.rows, signer |-> a.signer]

LEMMA PutReport ==
  ASSUME NEW a, IsReport(a), NEW name, NEW status
  PROVE  IsReport(Put(a, name, status)) /\ Put(a, name, status).result = a.result
BY DEF IsReport, Put

LEMMA FailReport ==
  ASSUME NEW a, IsReport(a), NEW name
  PROVE  IsReport(Fail(a, name)) /\ Fail(a, name).result = "invalid"
<1> DEFINE failed == Put(a, name, "fail")
<1>1. IsReport(failed) /\ failed.result = a.result BY PutReport
<1>2. Fail(a, name) = IF a.result = "invalid" THEN failed
                      ELSE [failed EXCEPT !.result = "invalid", !.reason = name]
  BY DEF Fail
<1> HIDE DEF failed
<1> QED BY <1>1, <1>2 DEF IsReport

LEMMA IncompleteReport ==
  ASSUME NEW a, IsReport(a), NEW name
  PROVE  IsReport(Incomplete(a, name)) /\ Incomplete(a, name).result # "valid"
<1> DEFINE warned == Put(a, name, "warn")
<1>1. IsReport(warned) /\ warned.result = a.result BY PutReport
<1>2. Incomplete(a, name) =
        IF a.result = "valid" THEN [warned EXCEPT !.result = "incomplete", !.reason = name] ELSE warned
  BY DEF Incomplete
<1> HIDE DEF warned
<1> QED BY <1>1, <1>2 DEF IsReport

LEMMA JudgeReport ==
  ASSUME NEW a, IsReport(a), NEW name, NEW verdict
  PROVE  /\ IsReport(Judge(a, name, verdict))
         /\ Judge(a, name, verdict).result = "valid" => a.result = "valid" /\ verdict # "fail"
BY PutReport, FailReport DEF Judge

LEMMA NotEvaluatedReport ==
  ASSUME NEW a, IsReport(a)
  PROVE  IsReport(NotEvaluated(a)) /\ NotEvaluated(a).result = a.result
BY DEF IsReport, NotEvaluated

LEMMA UnjudgedReport == IsReport(Unjudged)
BY DEF IsReport, Unjudged

\* A policy that does not load leaves a report that is not valid
LEMMA PolicyRowReport ==
  ASSUME NEW a, IsReport(a)
  PROVE  /\ IsReport(PolicyRow(a))
         /\ resolution.status = "unloadable" => PolicyRow(a).result # "valid"
<1>1. CASE resolution.status = "unloadable"
  <2>1. PolicyRow(a) = Incomplete(a, "Policy") BY <1>1 DEF PolicyRow
  <2> QED BY <2>1, IncompleteReport
<1>2. CASE resolution.status # "unloadable"
  <2>1. \E status \in {"warn", "info", "pass"} : PolicyRow(a) = Put(a, "Policy", status)
    BY <1>2 DEF PolicyRow
  <2> QED BY <1>2, <2>1, PutReport
<1> QED BY <1>1, <1>2

LEMMA StructuralReport ==
  ASSUME NEW a, IsReport(a), NEW failure
  PROVE  /\ IsReport(Structural(a, failure))
         /\ Structural(a, failure).result = "valid" => failure = "none"
<1>1. ASSUME NEW rows PROVE IsReport([a EXCEPT !.rows = rows]) BY DEF IsReport
<1>2. PICK rows : Structural(a, failure) =
        IF failure = "none" THEN [a EXCEPT !.rows = rows] ELSE Fail([a EXCEPT !.rows = rows], failure)
  BY DEF Structural
<1> QED BY <1>1, <1>2, FailReport

LEMMA IdentityRowReport ==
  ASSUME NEW a, IsReport(a), NEW status
  PROVE  IsReport(IdentityRow(a, status))
<1>1. IsReport([Put(a, "Identity", "pass") EXCEPT !.signer = Summed.cert.workflow])
  <2>1. IsReport(Put(a, "Identity", "pass")) BY PutReport
  <2> QED BY <2>1 DEF IsReport
<1>2. \/ IdentityRow(a, status) = [Put(a, "Identity", "pass") EXCEPT !.signer = Summed.cert.workflow]
      \/ \E verdict : IdentityRow(a, status) = Judge(a, "Identity", verdict)
      \/ IdentityRow(a, status) = Incomplete(a, "Identity")
      \/ IdentityRow(a, status) = Put(a, "Identity", "warn")
  BY DEF IdentityRow
<1> QED BY <1>1, <1>2, JudgeReport, IncompleteReport, PutReport

\* The delivery is in this pull request, on the files and the commit it was built on
IsBound ==
  /\ Bound(pull, receipt, Root) /\ Fresh(pull, receipt, Root)
  /\ Prov(receipt).commit \notin {"missing", "stray"}

LEMMA ChangeRowReport ==
  ASSUME NEW a, IsReport(a)
  PROVE  /\ IsReport(ChangeRow(a))
         /\ ChangeRow(a).result = "valid" => IsBound
<1>1. \/ ChangeRow(a) \in {Fail(a, "Outputs"), Incomplete(a, "Outputs")}
      \/ ChangeRow(a) = Put(a, "Outputs", "pass") /\ IsBound
  BY DEF ChangeRow, IsBound
<1> QED BY <1>1, FailReport, IncompleteReport, PutReport

\* What the rules refuse is not valid
LEMMA PolicyRowsReport ==
  ASSUME NEW a, IsReport(a), NEW answer
  PROVE  /\ IsReport(PolicyRows(a, answer))
         /\ PolicyRows(a, answer).result = "valid" =>
              /\ a.result = "valid"
              /\ Sound /\ Applies => EvaluateFactory(Prov(receipt).definition) # "fail"
              /\ Sound /\ Applies /\ Rules.present => EvaluateRevocation(Prov(receipt).skills) # "fail"
<1> DEFINE factory == FactoryRow(a)
           dependencies == DependenciesRow(factory, answer)
<1>1. /\ IsReport(factory)
      /\ factory.result = "valid" =>
           /\ a.result = "valid"
           /\ Sound /\ Applies => EvaluateFactory(Prov(receipt).definition) # "fail"
  BY JudgeReport DEF FactoryRow
<1> HIDE DEF factory
<1>2. IsReport(dependencies) /\ (dependencies.result = "valid" => factory.result = "valid")
  BY <1>1, PutReport, IncompleteReport, JudgeReport DEF DependenciesRow
<1> HIDE DEF dependencies
<1>3. PICK verdict :
        /\ RevocationRow(dependencies) = Judge(dependencies, "Revocation", verdict)
        /\ Sound /\ Applies /\ Rules.present => verdict = EvaluateRevocation(Prov(receipt).skills)
  BY DEF RevocationRow
<1>4. PolicyRows(a, answer) = RevocationRow(dependencies) BY DEF PolicyRows, dependencies, factory
<1> QED BY <1>1, <1>2, <1>3, <1>4, JudgeReport

LEMMA UnaskedReport ==
  ASSUME NEW a, IsReport(a)
  PROVE  IsReport(Unasked(a))
BY PutReport, JudgeReport, IdentityRowReport DEF Unasked

-----------------------------------------------------------------------------
(* The summary that was found *)

Early == {"run", "bundled", "attested", "open", "moved", "final", "resolve"}

LookIsRecord ==
  look = [left |-> look.left, asked |-> look.asked, unanswered |-> look.unanswered,
          files |-> look.files, signers |-> look.signers, ignored |-> look.ignored,
          unresolved |-> look.unresolved, wrong |-> look.wrong, summary |-> look.summary]

\* All that is sought lies at head as a file
AllSought == Sought = Present(pull)

\* Someone the policy trusts signed the summary, and it names what is looked for
Trustworthy(a) == a \in store /\ Vouched(a, Signers) /\ (Gate => Covers(a.doc))

\* The statements under audit are those the summary names
Fetched == look.summary # {} /\ receipt = Append(Summed.doc.inputs, Summed.doc)

\* The rules name the delivery's definition and revoke no skill of it
Allowed ==
  Applies /\ Rules.enforcement = "block" =>
    /\ \A list \in Rules.allow : Prov(receipt).definition \in list
    /\ Rules.present => Prov(receipt).skills \cap Rules.revoked = {}

LookIsHonest ==
  /\ LookIsRecord
  /\ place \in Early => look = NothingAsked
  /\ look.signers \subseteq Signers
  /\ \A a \in look.summary : Trustworthy(a)

\* A pull request gets past its signature only with a summary of all its files
GateIsPassed ==
  /\ IsReport(audit)
  /\ Gate /\ place \in {"check", "inspect", "rules"} => AllSought
  /\ Gate /\ place \in {"inspect", "rules"} => Fetched
  /\ Gate /\ place = "rules" /\ audit.result = "valid" => Sound /\ IsBound
  /\ Gate /\ Over("valid") => AllSought /\ Fetched /\ Sound /\ IsBound /\ Allowed

\* The chain begins with the policy of the base, and is empty where it may not be read
ChainIsOfBase ==
  /\ inquiry = world.inquiry /\ (Gate => InPull)
  /\ chain \in Seq({chain[i] : i \in DOMAIN chain})
  /\ chain # <<>> => ~Refused /\ chain[1] = Leaf

SignedInv == PolicyIsMerged /\ LookIsHonest /\ GateIsPassed /\ ChainIsOfBase

LEMMA NothingAskedIsHonest ==
  ASSUME NEW files, NEW signers, NEW left, NEW unanswered
  PROVE  /\ NothingAsked.summary = {} /\ NothingAsked.signers = {}
         /\ AskOf(files).signers = Signers /\ AskOf(files).summary = {}
         /\ LookingUp.signers = {} /\ LookingUp.summary = {}
BY DEF NothingAsked, AskOf, LookingUp

\* What stays as it is while the audit looks and judges
Same == UNCHANGED <<policyVars, world, store, pull>>

LEMMA SameMeaning ==
  ASSUME Same
  PROVE  /\ Signers' = Signers /\ Gate' = Gate /\ AllSought' = AllSought /\ Rules' = Rules
         /\ \A a : Trustworthy(a)' <=> Trustworthy(a)
<1>1. Signers' = Signers BY DEF Same, policyVars, Signers, Rules, Applies
<1>2. Gate' = Gate BY DEF Same, Gate
<1>3. AllSought' = AllSought BY DEF Same, AllSought, Sought, Present, Changed
<1>4. Rules' = Rules BY DEF Same, policyVars, Rules, Applies
<1>5. ASSUME NEW a PROVE Trustworthy(a)' <=> Trustworthy(a)
  <2>1. Vouched(a, Signers)' <=> Vouched(a, Signers)
    BY <1>1 DEF Vouched, Home, Pinned, Same
  <2>2. Covers(a.doc)' <=> Covers(a.doc) BY DEF Covers, Sought, Present, Changed, Same
  <2> QED BY <1>2, <2>1, <2>2 DEF Trustworthy, Same
<1> QED BY <1>1, <1>2, <1>3, <1>4, <1>5

\* The statements say what they said
LEMMA ReceiptMeaning ==
  ASSUME Same, UNCHANGED receipt
  PROVE  Sound' = Sound /\ IsBound' = IsBound /\ Allowed' = Allowed
<1>1. Gate' = Gate /\ Rules' = Rules BY SameMeaning
<1>2. Applies' = Applies BY DEF Same, policyVars, Applies
<1>3. Sound' = Sound BY <1>1 DEF Sound, Retained, Same
<1>4. Root' = Root BY <1>1 DEF Root, Same
<1>5. IsBound' = IsBound BY <1>4 DEF IsBound, Same
<1>6. Allowed' = Allowed BY <1>1, <1>2 DEF Allowed
<1> QED BY <1>3, <1>5, <1>6

LEMMA FetchedStays ==
  ASSUME Fetched, UNCHANGED <<receipt, look>>
  PROVE  Fetched'
BY DEF Fetched, Summed

\* Weighing finds only summaries that can be trusted
LEMMA WeighIsHonest ==
  ASSUME LookIsHonest, NEW content, NEW signer \in look.signers, NEW tags \in BOOLEAN,
         NEW after \in Weigh(content, signer, tags)
  PROVE  /\ after.signers \subseteq look.signers
         /\ \A a \in after.summary : Trustworthy(a)
         /\ after = [left |-> after.left, asked |-> after.asked, unanswered |-> after.unanswered,
                     files |-> after.files, signers |-> after.signers, ignored |-> after.ignored,
                     unresolved |-> after.unresolved, wrong |-> after.wrong, summary |-> after.summary]
<1> DEFINE found == Verified(content, signer)
           good == {a \in found : Passes(a, signer)}
           accepted == {a \in good : signer.sha \in {None, a.cert.at} \/ (tags /\ Pinned(a, signer))}
<1>1. signer \in Signers BY DEF LookIsHonest
<1>2. ASSUME NEW a \in accepted PROVE Trustworthy(a)
  <2>1. a \in store /\ a.repo = Home(signer) /\ a.doc.kind = "vsa"
        /\ a.cert.workflow = signer.workflow
    BY DEF Verified, Listed, Stored
  <2>2. /\ a.doc.result = "PASSED" /\ signer.ref \in {None, a.cert.ref}
        /\ Gate => Covers(a.doc)
    BY DEF Passes
  <2>3. Pinned(a, signer) BY DEF Pinned
  <2> QED BY <1>1, <2>1, <2>2, <2>3 DEF Trustworthy, Vouched
<1>3. CASE accepted # {}
  <2>1. \E a \in accepted : after = [look EXCEPT !.summary = {a}, !.signers = {}]
    BY <1>3, Zenon DEF Weigh
  <2> HIDE DEF accepted
  <2> QED BY <1>2, <2>1, ZenonT(40) DEF LookIsHonest, LookIsRecord
<1>4. CASE accepted = {}
  <2> DEFINE listed == {a \in Listed(content, Home(signer)) : a.doc.kind = "vsa"}
             ignored == found # good \/ (found = {} /\ listed # {})
  <2>1. after = [look EXCEPT !.signers = @ \ {signer},
                             !.ignored = @ \/ ignored,
                             !.unresolved = @ \/ (~tags /\ good # {}),
                             !.wrong = @ \/ (tags /\ good # {})]
    BY <1>4, Zenon DEF Weigh
  <2> HIDE DEF ignored, good
  <2> QED BY <2>1 DEF LookIsHonest, LookIsRecord
<1> QED BY <1>3, <1>4

\* Nothing is asked before the policy is found
LEMMA EarlyStep ==
  ASSUME LookIsHonest, GateIsPassed, place \in Early, place' \in Early, UNCHANGED <<look, audit>>
  PROVE  LookIsHonest' /\ GateIsPassed'
<1>1. look' = NothingAsked BY DEF LookIsHonest
<1>2. look'.summary = {} /\ look'.signers = {} BY <1>1, NothingAskedIsHonest
<1>3. LookIsRecord' BY <1>1 DEF LookIsRecord, NothingAsked
<1>4. LookIsHonest' BY <1>1, <1>2, <1>3 DEF LookIsHonest
<1>5. IsReport(audit)' BY DEF GateIsPassed
<1>6. place' \notin {"check", "inspect", "rules", "done"} BY DEF Early
<1> QED BY <1>4, <1>5, <1>6 DEF GateIsPassed, Over

\* What was found stays as trustworthy as it was
LEMMA LookStays ==
  ASSUME LookIsHonest, Same, UNCHANGED look, place' \notin Early
  PROVE  LookIsHonest'
BY SameMeaning DEF LookIsHonest, LookIsRecord

LEMMA AskedAfresh ==
  ASSUME NEW files, look' = AskOf(files), Same, place' \notin Early
  PROVE  LookIsHonest'
<1>1. look'.signers = Signers /\ look'.summary = {} BY NothingAskedIsHonest
<1>2. LookIsRecord' BY DEF LookIsRecord, AskOf, NothingAsked
<1> QED BY <1>1, <1>2, SameMeaning DEF LookIsHonest

\* A question that is asked only leaves traces
LEMMA AskedFurther ==
  ASSUME LookIsHonest, Same, place' \notin Early, LookIsRecord',
         look'.signers \subseteq look.signers, look'.summary = look.summary
  PROVE  LookIsHonest'
BY SameMeaning DEF LookIsHonest

\* A report that is not valid shows nothing
LEMMA NotValid ==
  ASSUME NEW a, IsReport(a), a.result # "valid", audit' = a, place' = "done"
  PROVE  GateIsPassed'
BY DEF GateIsPassed, Over

LEMMA NotEvaluatedIsNotValid ==
  ASSUME NEW a, IsReport(a), a.result # "valid", Finish(NotEvaluated(a))
  PROVE  GateIsPassed' /\ place' = "done" /\ UNCHANGED look
BY NotValid, NotEvaluatedReport DEF Finish

\* Beside a receipt file, reports are all there is to keep
LEMMA OutsideGate ==
  ASSUME NEW a, IsReport(a), audit' = a, ~Gate, Same
  PROVE  GateIsPassed'
BY SameMeaning DEF GateIsPassed

LEMMA SignedHasSummary ==
  ASSUME IdentityStatus = "signed"
  PROVE  look.summary # {}
BY DEF IdentityStatus

LEMMA LookUpStep ==
  ASSUME LookIsHonest, GateIsPassed, NEW question \in look.left, LookUp(question)
  PROVE  LookIsHonest' /\ GateIsPassed'
<1> DEFINE asked == [look EXCEPT !.left = @ \ {question}, !.asked = @ + 1]
<1>1. place = "lookup" /\ Same BY DEF LookUp, Audited, Same
<1>2. CASE Go("check", audit) /\ look' = AskOf(FilesFrom(question.path)) /\ Sought = Present(pull)
  <2>1. place' = "check" /\ audit' = audit BY <1>2 DEF Go
  <2>2. LookIsHonest' BY <1>1, <1>2, <2>1, AskedAfresh DEF Early
  <2>3. AllSought' BY <1>1, <1>2, SameMeaning DEF AllSought
  <2> QED BY <2>1, <2>2, <2>3 DEF GateIsPassed, Over
<1>3. CASE Go("done", NotEvaluated(Fail(audit, "Outputs"))) /\ UNCHANGED look
  <2>1. /\ IsReport(NotEvaluated(Fail(audit, "Outputs")))
        /\ NotEvaluated(Fail(audit, "Outputs")).result # "valid"
    BY FailReport, NotEvaluatedReport DEF GateIsPassed
  <2>2. GateIsPassed' BY <1>3, <2>1, NotValid DEF Go
  <2>3. LookIsHonest' BY <1>1, <1>3, LookStays DEF Go, Early
  <2> QED BY <2>2, <2>3
<1>4. CASE look' \in {asked, Unanswered(asked)} /\ UNCHANGED <<audit, place>>
  <2>1. LookIsRecord' /\ look'.signers = look.signers /\ look'.summary = look.summary
    BY <1>4 DEF LookIsHonest, LookIsRecord, Unanswered
  <2>2. LookIsHonest' BY <1>1, <1>4, <2>1, AskedFurther DEF Early
  <2>3. GateIsPassed' BY <1>1, <1>4 DEF GateIsPassed, Over
  <2> QED BY <2>2, <2>3
<1> QED BY <1>2, <1>3, <1>4 DEF LookUp

LEMMA CheckSignerStep ==
  ASSUME LookIsHonest, GateIsPassed, NEW signer \in look.signers, CheckSigner(signer)
  PROVE  LookIsHonest' /\ GateIsPassed'
<1>1. place = "check" /\ Same /\ UNCHANGED <<place, audit>> BY DEF CheckSigner, Audited, Same
<1>2. GateIsPassed' BY <1>1, SameMeaning DEF GateIsPassed, Over
<1>3. CASE look' = [Unanswered(look) EXCEPT !.signers = @ \ {signer}]
  <2>1. LookIsRecord' /\ look'.signers \subseteq look.signers /\ look'.summary = look.summary
    BY <1>3 DEF LookIsHonest, LookIsRecord, Unanswered
  <2> QED BY <1>1, <1>2, <2>1, AskedFurther DEF Early
<1>4. CASE \E tags \in BOOLEAN : look' \in Weigh(Content(look.files[1]), signer, tags)
  <2>1. PICK tags \in BOOLEAN : look' \in Weigh(Content(look.files[1]), signer, tags) BY <1>4
  <2>2. /\ look'.signers \subseteq look.signers
        /\ \A a \in look'.summary : Trustworthy(a)
        /\ LookIsRecord'
    BY <2>1, WeighIsHonest DEF LookIsRecord
  <2>3. LookIsHonest' BY <1>1, <2>2, SameMeaning DEF LookIsHonest, Early
  <2> QED BY <1>2, <2>3
<1> QED BY <1>3, <1>4 DEF CheckSigner

LEMMA InspectStep ==
  ASSUME LookIsHonest, GateIsPassed, InspectReceipt
  PROVE  LookIsHonest' /\ GateIsPassed'
<1> DEFINE row == Structural(audit, Inspect(receipt, Retained))
<1>1. IsReport(row) /\ (row.result = "valid" => Sound)
  BY StructuralReport DEF GateIsPassed, Sound
<1>2. Same /\ place = "inspect" /\ UNCHANGED <<receipt, look>>
  BY DEF InspectReceipt, Audited, Same
<1>3. \/ ~Sound /\ Go("rules", row)
      \/ Sound /\ Rehashes /\ \E a \in {row, Fail(row, "Outputs")} : Go("rules", a)
      \/ \E a \in {ChangeRow(row), Incomplete(row, "Outputs"), Fail(row, "Outputs")} : Sound /\ Go("rules", a)
      \/ Sound /\ ~Binding /\ Go("rules", row)
  BY DEF InspectReceipt
<1>4. Gate => ~Rehashes /\ Binding BY DEF Rehashes, Binding
<1> HIDE DEF row
<1>5. /\ IsReport(audit') /\ place' = "rules"
      /\ Gate /\ audit'.result = "valid" => Sound /\ IsBound
  BY <1>1, <1>3, <1>4, FailReport, ChangeRowReport, IncompleteReport DEF Go
<1>6. Gate => AllSought' /\ Fetched' BY <1>2, SameMeaning, FetchedStays DEF GateIsPassed
<1> QED BY <1>2, <1>5, <1>6, SameMeaning, ReceiptMeaning, LookStays DEF GateIsPassed, Over, Early

\* What is left to judge a pull request by are the rules
LEMMA JudgeStep ==
  ASSUME LookIsHonest, GateIsPassed, JudgeRules
  PROVE  LookIsHonest' /\ GateIsPassed'
<1>1. PICK answer : LET a == PolicyRows(audit, answer)
                        asks == Applies /\ Sound /\ Signers # {} /\ ~inquiry.offline /\ Artifacts # {}
                    IN CASE Gate -> Go("done", a) /\ UNCHANGED look
                         [] ~Gate /\ asks -> Go("check", a) /\ look' = AskOf(SetToSeq(Artifacts))
                         [] OTHER -> Go("done", Unasked(a)) /\ UNCHANGED look
  BY DEF JudgeRules
<1>2. Same /\ place = "rules" /\ UNCHANGED receipt BY DEF JudgeRules, Audited, Same
<1> DEFINE row == PolicyRows(audit, answer)
<1>3. /\ IsReport(row) /\ IsReport(Unasked(row))
      /\ row.result = "valid" =>
           /\ audit.result = "valid"
           /\ Sound /\ Applies => EvaluateFactory(Prov(receipt).definition) # "fail"
           /\ Sound /\ Applies /\ Rules.present => EvaluateRevocation(Prov(receipt).skills) # "fail"
  BY PolicyRowsReport, UnaskedReport DEF GateIsPassed
<1>4. \/ Gate /\ Go("done", row) /\ UNCHANGED look
      \/ ~Gate /\ Go("check", row) /\ look' = AskOf(SetToSeq(Artifacts))
      \/ ~Gate /\ Go("done", Unasked(row)) /\ UNCHANGED look
  BY <1>1, Zenon
<1> HIDE DEF row
<1>5. CASE Gate /\ Go("done", row) /\ UNCHANGED look
  <2>1. IsReport(audit') /\ place' = "done" /\ audit' = row BY <1>3, <1>5 DEF Go
  <2>2. AllSought' /\ Fetched' BY <1>2, <1>5, SameMeaning, FetchedStays DEF GateIsPassed
  <2>3. row.result = "valid" => Sound /\ IsBound BY <1>2, <1>3, <1>5 DEF GateIsPassed
  <2>4. row.result = "valid" => Allowed
    BY <1>3, <2>3 DEF Allowed, EvaluateFactory, EvaluateRevocation, Violation
  <2>5. LookIsHonest' BY <1>2, <1>5, <2>1, LookStays DEF Early
  <2> QED BY <1>2, <2>1, <2>2, <2>3, <2>4, <2>5, ReceiptMeaning DEF GateIsPassed, Over
<1>6. CASE ~Gate /\ Go("check", row) /\ look' = AskOf(SetToSeq(Artifacts))
  BY <1>2, <1>3, <1>6, OutsideGate, AskedAfresh DEF Go, Early
<1>7. CASE ~Gate /\ Go("done", Unasked(row)) /\ UNCHANGED look
  BY <1>2, <1>3, <1>7, OutsideGate, LookStays DEF Go, Early
<1> QED BY <1>4, <1>5, <1>6, <1>7

LEMMA SignedStep ==
  ASSUME LookIsHonest, GateIsPassed, [Next]_vars
  PROVE  LookIsHonest' /\ GateIsPassed'
<1>0. IsReport(audit) BY DEF GateIsPassed
<1>1. CASE AttestBundle BY <1>1, EarlyStep DEF AttestBundle, Early
<1>2. CASE AttestSummary BY <1>2, EarlyStep DEF AttestSummary, Early
<1>3. CASE Deliver BY <1>3, EarlyStep DEF Deliver, Early
<1>4. CASE Amend BY <1>4, EarlyStep DEF Amend, Early
<1>5. CASE Advance BY <1>5, EarlyStep DEF Advance, Early
<1>6. CASE Rebase BY <1>6, EarlyStep DEF Rebase, Early
<1>7. CASE StartAudit BY <1>7, EarlyStep DEF StartAudit, Early
<1>8. CASE ResolvePolicy BY <1>8, EarlyStep DEF ResolvePolicy, Early
<1>9. CASE GateClosed
  <2> DEFINE row == PolicyRow(Unjudged)
  <2>1. IsReport(row) /\ (resolution.status = "unloadable" => row.result # "valid")
    BY UnjudgedReport, PolicyRowReport
  <2>2. IsReport(Incomplete(row, "Identity")) /\ Incomplete(row, "Identity").result # "valid"
    BY <2>1, IncompleteReport
  <2>3. \/ row.result # "valid" /\ Finish(NotEvaluated(row))
        \/ Finish(NotEvaluated(Incomplete(row, "Identity")))
    BY <1>9, <2>1 DEF GateClosed
  <2> HIDE DEF row
  <2>4. GateIsPassed' /\ place' = "done" /\ UNCHANGED look
    BY <2>1, <2>2, <2>3, NotEvaluatedIsNotValid
  <2> QED BY <1>9, <2>4, LookStays DEF GateClosed, Audited, Same, Early
<1>10. CASE StartGate
  <2>1. /\ Same /\ place' = "lookup" /\ audit' = PolicyRow(Unjudged) /\ look' = LookingUp
    BY <1>10 DEF StartGate, Audited, Same, Go
  <2>2. IsReport(audit') BY <2>1, UnjudgedReport, PolicyRowReport
  <2>3. LookIsRecord' BY <2>1 DEF LookIsRecord, LookingUp, NothingAsked
  <2>4. LookIsHonest' BY <2>1, <2>3, NothingAskedIsHonest DEF LookIsHonest, Early
  <2> QED BY <2>1, <2>2, <2>4 DEF GateIsPassed, Over
<1>11. CASE GateRaises
  <2>1. Same /\ place' = "raised" /\ UNCHANGED <<look, audit>> BY <1>11 DEF GateRaises, Audited, Same
  <2> QED BY <1>0, <2>1, LookStays DEF GateIsPassed, Over, Early
<1>12. CASE TooMany
  <2>1. GateIsPassed' /\ place' = "done" /\ UNCHANGED look
    BY <1>0, <1>12, IncompleteReport, NotEvaluatedIsNotValid DEF TooMany
  <2> QED BY <1>12, <2>1, LookStays DEF TooMany, Audited, Same, Early
<1>13. CASE NotDelivered
  <2> DEFINE refused == [Fail(audit, "Identity") EXCEPT !.reason = "not_a_delivery"]
  <2>1. IsReport(refused) /\ refused.result # "valid"
    <3>1. IsReport(Fail(audit, "Identity")) /\ Fail(audit, "Identity").result = "invalid"
      BY <1>0, FailReport
    <3> QED BY <3>1 DEF IsReport
  <2>2. Finish(NotEvaluated(refused)) \/ Finish(NotEvaluated(Incomplete(audit, "Identity")))
    BY <1>13 DEF NotDelivered
  <2> HIDE DEF refused
  <2>3. GateIsPassed' /\ place' = "done" /\ UNCHANGED look
    BY <1>0, <2>1, <2>2, IncompleteReport, NotEvaluatedIsNotValid
  <2> QED BY <1>13, <2>3, LookStays DEF NotDelivered, Audited, Same, Early
<1>14. CASE \E question \in look.left : LookUp(question) BY <1>14, LookUpStep
<1>15. CASE \E signer \in look.signers : CheckSigner(signer) BY <1>15, CheckSignerStep
<1>16. CASE TryNextFile
  <2>1. Same /\ place = "check" /\ place' = "check" /\ audit' = audit
    BY <1>16 DEF TryNextFile, AllAsked, Audited, Same
  <2>2. LookIsHonest' BY <1>16, <2>1, AskedAfresh DEF TryNextFile, Early
  <2> QED BY <2>1, <2>2, SameMeaning DEF GateIsPassed, Over
<1>17. CASE GateUnsigned
  <2>1. GateIsPassed' /\ place' = "done" /\ UNCHANGED look
    BY <1>0, <1>17, FailReport, NotEvaluatedIsNotValid DEF GateUnsigned
  <2> QED BY <1>17, <2>1, LookStays DEF GateUnsigned, AllAsked, Audited, Same, Early
<1>18. CASE GateUndecided
  <2> DEFINE row == IdentityRow(audit, IdentityStatus)
  <2>1. IsReport(row) BY <1>0, IdentityRowReport
  <2>2. Finish(NotEvaluated(IF row.result = "valid" THEN Incomplete(row, "Identity") ELSE row))
    BY <1>18 DEF GateUndecided
  <2> HIDE DEF row
  <2>3. GateIsPassed' /\ place' = "done" /\ UNCHANGED look
    BY <2>1, <2>2, IncompleteReport, NotEvaluatedIsNotValid
  <2> QED BY <1>18, <2>3, LookStays DEF GateUndecided, AllAsked, Audited, Same, Early
<1>19. CASE GateFetches
  <2> DEFINE row == IdentityRow(audit, "signed")
  <2>1. IsReport(row) BY <1>0, IdentityRowReport
  <2>2. Same /\ place = "check" /\ Gate /\ UNCHANGED look /\ look.summary # {}
    BY <1>19, SignedHasSummary DEF GateFetches, AllAsked, Audited, Same, Finish
  <2>3. Go("inspect", row) \/ Finish(NotEvaluated(Fail(row, "Integrity")))
    BY <1>19 DEF GateFetches
  <2> HIDE DEF row
  <2>4. CASE Go("inspect", row)
    <3>1. place' = "inspect" /\ IsReport(audit') BY <2>1, <2>4 DEF Go
    <3>2. AllSought' BY <2>2, SameMeaning DEF GateIsPassed
    <3>3. receipt' = Append(Summed.doc.inputs, Summed.doc) BY <1>19, <2>4 DEF GateFetches, Go, Finish
    <3>4. Summed' = Summed BY <2>2 DEF Summed
    <3>5. Fetched' BY <2>2, <3>3, <3>4 DEF Fetched
    <3> QED BY <2>2, <3>1, <3>2, <3>5, LookStays DEF GateIsPassed, Over, Early
  <2>5. CASE Finish(NotEvaluated(Fail(row, "Integrity")))
    <3>1. GateIsPassed' /\ place' = "done" BY <2>1, <2>5, FailReport, NotEvaluatedIsNotValid
    <3> QED BY <2>2, <3>1, LookStays DEF Early
  <2> QED BY <2>3, <2>4, <2>5
<1>20. CASE FetchFails
  <2> DEFINE row == Incomplete(IdentityRow(audit, "signed"), "Integrity")
  <2>1. IsReport(row) /\ row.result # "valid" BY <1>0, IdentityRowReport, IncompleteReport
  <2>2. /\ Same
        /\ Finish(NotEvaluated(row)) \/ (place' = "raised" /\ UNCHANGED <<audit, receipt, look>>)
    BY <1>20 DEF FetchFails, Audited, Same
  <2> HIDE DEF row
  <2>3. CASE Finish(NotEvaluated(row))
    <3>1. GateIsPassed' /\ place' = "done" /\ UNCHANGED look BY <2>1, <2>3, NotEvaluatedIsNotValid
    <3> QED BY <2>2, <3>1, LookStays DEF Early
  <2>4. CASE place' = "raised" /\ UNCHANGED <<audit, receipt, look>>
    BY <1>0, <2>2, <2>4, LookStays DEF GateIsPassed, Over, Early
  <2> QED BY <2>2, <2>3, <2>4
<1>21. CASE StartBundle
  <2>1. Same /\ ~Gate /\ place' = "inspect" /\ audit' = PolicyRow(Unjudged) /\ UNCHANGED look
    BY <1>21 DEF StartBundle, Audited, Same, Go
  <2> QED BY <2>1, UnjudgedReport, PolicyRowReport, OutsideGate, LookStays DEF Early
<1>22. CASE InspectReceipt BY <1>22, InspectStep
<1>23. CASE JudgeRules BY <1>23, JudgeStep
<1>24. CASE BundleIdentity
  <2>1. Same /\ ~Gate /\ place' = "done" /\ audit' = IdentityRow(audit, IdentityStatus) /\ UNCHANGED look
    BY <1>24 DEF BundleIdentity, AllAsked, Audited, Same, Finish
  <2> QED BY <1>0, <2>1, IdentityRowReport, OutsideGate, LookStays DEF Early
<1>25. CASE UNCHANGED vars
  <2>1. Same /\ UNCHANGED <<receipt, look, audit, place>> BY <1>25 DEF vars, Same, policyVars
  <2>2. LookIsHonest' BY <2>1, SameMeaning DEF LookIsHonest, LookIsRecord
  <2>3. Fetched => Fetched' BY <2>1, FetchedStays
  <2> QED BY <2>1, <2>2, <2>3, SameMeaning, ReceiptMeaning DEF GateIsPassed, Over
<1> QED BY <1>1, <1>2, <1>3, <1>4, <1>5, <1>6, <1>7, <1>8, <1>9, <1>10, <1>11, <1>12, <1>13, <1>14,
           <1>15, <1>16, <1>17, <1>18, <1>19, <1>20, <1>21, <1>22, <1>23, <1>24, <1>25 DEF Next

-----------------------------------------------------------------------------
(* The policy of a pull request is the one its base names *)

LEMMA ChainStep ==
  ASSUME ChainIsOfBase, [Next]_vars
  PROVE  ChainIsOfBase'
<1>1. world' = world
  BY DEF Next, vars, Audited, AttestBundle, AttestSummary, Deliver, Amend, Advance, Rebase,
         StartAudit, ResolvePolicy, GateClosed, StartGate, GateRaises, TooMany, NotDelivered, LookUp,
         CheckSigner, TryNextFile, GateUnsigned, GateUndecided, GateFetches, FetchFails, StartBundle,
         InspectReceipt, JudgeRules, BundleIdentity, AllAsked
<1>2. inquiry' = inquiry
  BY PolicyMoves DEF policyVars, Resolve, SettleEarly, ReadLevel, MergeLevels, Opened
<1>3. Leaf' = Leaf /\ Refused' = Refused /\ InPull' = InPull /\ Gate' = Gate
  BY <1>1, <1>2 DEF Leaf, Refused, InPull, Gate
<1>4. CASE UNCHANGED chain BY <1>1, <1>2, <1>3, <1>4 DEF ChainIsOfBase
<1>5. CASE chain' = Append(chain, Wanted) /\ MayRead
  <2> DEFINE S == {chain[i] : i \in DOMAIN chain} \cup {Wanted}
  <2>1. chain \in Seq(S) /\ Wanted \in S BY DEF ChainIsOfBase
  <2>2. ~Refused BY <1>5 DEF MayRead
  <2>3. chain = <<>> => Wanted = Leaf BY DEF Wanted
  <2>4. chain # <<>> => chain[1] = Leaf BY DEF ChainIsOfBase
  <2> HIDE DEF S
  <2>5. chain'[1] = Leaf BY <1>5, <2>1, <2>3, <2>4
  <2>6. chain' \in Seq({chain'[i] : i \in DOMAIN chain'}) BY <1>5, <2>1
  <2> QED BY <1>1, <1>2, <1>3, <2>2, <2>5, <2>6 DEF ChainIsOfBase
<1>6. UNCHANGED chain \/ (chain' = Append(chain, Wanted) /\ MayRead)
  BY PolicyMoves DEF policyVars, Resolve, SettleEarly, ReadLevel, MergeLevels
<1> QED BY <1>4, <1>5, <1>6

LEMMA SignedInit == Init => SignedInv
<1> SUFFICES ASSUME Init PROVE SignedInv OBVIOUS
<1>1. PolicyIsMerged BY DEF Init, InitPolicy, PolicyIsMerged
<1>2. LookIsHonest
  <2>1. look = NothingAsked BY DEF Init
  <2>2. LookIsRecord BY <2>1 DEF LookIsRecord, NothingAsked
  <2> QED BY <2>1, <2>2, NothingAskedIsHonest DEF LookIsHonest
<1>3. GateIsPassed BY UnjudgedReport DEF Init, GateIsPassed, Over
<1>4. ChainIsOfBase
  <2>1. inquiry = world.inquiry /\ (Gate => InPull) BY WorldsAssumption DEF Init, Gate, InPull
  <2> QED BY <2>1 DEF Init, InitPolicy, ChainIsOfBase
<1> QED BY <1>1, <1>2, <1>3, <1>4 DEF SignedInv

-----------------------------------------------------------------------------
(* What a pull request that passes has *)

\* Whoever the merged list trusts, every list of the chain vouches for
LEMMA VouchedByAll ==
  ASSUME NEW a, NEW lists, Vouched(a, Trusted(lists)), NEW list \in lists
  PROVE  Vouched(a, list)
<1>1. PICK s \in Trusted(lists) :
        /\ s.workflow = a.cert.workflow /\ Home(s) = a.repo
        /\ s.ref \in {None, a.cert.ref} /\ Pinned(a, s)
  BY DEF Vouched
<1>2. PICK rule \in list : Allows(rule, s) BY TrustedByAll
<1>3. /\ rule.workflow = a.cert.workflow /\ Home(rule) = a.repo
      /\ rule.ref \in {None, a.cert.ref} /\ Pinned(a, rule)
  BY <1>1, <1>2 DEF Allows, Home, Pinned
<1> QED BY <1>3 DEF Vouched

\* Rules that name a signer are the merged levels
LEMMA SignersAreMerged ==
  ASSUME PolicyIsMerged, Signers # {}
  PROVE  /\ Applies /\ Rules = Merge(Levels)
         /\ UNION {l.signers : l \in Levels} # {}
         /\ Signers = Trusted(UNION {l.signers : l \in Levels})
<1> DEFINE lists == UNION {l.signers : l \in Levels}
<1>1. NoPolicy.signers = {} BY DEF NoPolicy, Merge
<1>2. Applies /\ Rules = Merge(Levels) BY <1>1 DEF Signers, Rules, PolicyIsMerged
<1>3. Merge(Levels).signers = IF lists = {} THEN {} ELSE {Trusted(lists)} BY DEF Merge
<1> HIDE DEF lists
<1>4. lists # {} /\ Signers = Trusted(lists) BY <1>2, <1>3 DEF Signers
<1> QED BY <1>2, <1>4 DEF lists

\* A definition in the merged list is in every list, and what is revoked stays so
LEMMA AllowedByAll ==
  ASSUME PolicyIsMerged, Signers # {}, Allowed, NEW level \in Levels, Rules.enforcement = "block"
  PROVE  /\ \A list \in level.allow : Prov(receipt).definition \in list
         /\ level.present => level.revoked \cap Prov(receipt).skills = {}
<1> DEFINE allowed == UNION {l.allow : l \in Levels}
<1>1. Applies /\ Rules = Merge(Levels) BY SignersAreMerged
<1>2. /\ Rules.allow = Meet(allowed)
      /\ Rules.revoked = UNION {l.revoked : l \in Levels}
      /\ Rules.present <=> {l \in Levels : l.present} # {}
  BY <1>1 DEF Merge
<1>3. ASSUME NEW list \in level.allow PROVE Prov(receipt).definition \in list
  <2>1. list \in allowed BY <1>3
  <2> HIDE DEF allowed
  <2>2. Rules.allow = {InAll(allowed)} BY <1>2, <2>1 DEF Meet
  <2>3. Prov(receipt).definition \in InAll(allowed) BY <1>1, <2>2 DEF Allowed
  <2> QED BY <2>1, <2>3 DEF InAll
<1>4. level.present => level.revoked \cap Prov(receipt).skills = {}
  BY <1>1, <1>2 DEF Allowed
<1> QED BY <1>3, <1>4

\* run_gate, whatever the repository, the policies and the store hold and whoever
\* writes them meanwhile: a pull request that passes is judged by the policy of its
\* base; a PASSED summary in the store, by a signer that every list of the chain
\* accepts, names each file it adds or changes with its bytes; the statements are
\* those the summary names and hold together; by them each file the pull request
\* deletes was deleted by the run, and each it touches is at its base what the run
\* started from; and every level of the chain allows the run they describe.
PassedIsEarned ==
  Gate /\ Over("valid") =>
    /\ inquiry.override # "tree" /\ (inquiry.override = None => chain[1] # "tree")
    /\ \E a \in store :
         /\ Vouched(a, Signers)
         /\ receipt = Append(a.doc.inputs, a.doc) /\ Sound
         /\ \A level \in Levels : \A list \in level.signers : Vouched(a, list)
         /\ \A n \in Changed(pull) : n \in DOMAIN pull.head => At(a.doc.subjects, n) = pull.head[n]
    /\ LET run == Prov(receipt)
           deleted == Under(Root, run.deleted)
           before  == Under(Root, BeforeImages(run))
       IN /\ \A n \in Changed(pull) :
               /\ n \in DOMAIN pull.head \/ n \in DOMAIN deleted
               /\ n \in DOMAIN before /\ At(pull.base, n) = before[n]
          /\ run.commit \notin {"missing", "stray"}
          /\ Rules.enforcement = "block" =>
               \A level \in Levels :
                 /\ \A list \in level.allow : run.definition \in list
                 /\ level.present => level.revoked \cap run.skills = {}

LEMMA SignedIsEarned == SignedInv => PassedIsEarned
<1> SUFFICES ASSUME SignedInv, Gate, Over("valid") PROVE PassedIsEarned
  BY DEF PassedIsEarned
<1>1. AllSought /\ Fetched /\ Sound /\ IsBound /\ Allowed BY DEF SignedInv, GateIsPassed
<1>2. Summed \in look.summary BY <1>1 DEF Fetched, Summed
<1>3. Summed \in store /\ Vouched(Summed, Signers) /\ Covers(Summed.doc)
  BY <1>2 DEF SignedInv, LookIsHonest, Trustworthy
<1>4. Signers # {} BY <1>3 DEF Vouched
<1> DEFINE lists == UNION {l.signers : l \in Levels}
<1>5. lists # {} /\ Signers = Trusted(lists) BY <1>4, SignersAreMerged DEF SignedInv
<1>6. ASSUME NEW level \in Levels, NEW list \in level.signers PROVE Vouched(Summed, list)
  <2>1. list \in lists BY <1>6
  <2> QED BY <1>3, <1>5, <2>1, VouchedByAll
<1>7. \A n \in Changed(pull) : n \in DOMAIN pull.head => At(Summed.doc.subjects, n) = pull.head[n]
  BY <1>1, <1>3 DEF AllSought, Covers, Sought, Present
<1>8. inquiry.override # "tree" /\ (inquiry.override = None => chain[1] # "tree")
  <2>1. chain # <<>> BY <1>5 DEF Levels
  <2>2. InPull /\ ~Refused /\ chain[1] = Leaf BY <2>1 DEF SignedInv, ChainIsOfBase
  <2> QED BY <2>2 DEF Refused, Leaf, None
<1>9. LET deleted == Under(Root, Prov(receipt).deleted)
          before  == Under(Root, BeforeImages(Prov(receipt)))
      IN \A n \in Changed(pull) :
           /\ n \in DOMAIN pull.head \/ n \in DOMAIN deleted
           /\ n \in DOMAIN before /\ At(pull.base, n) = before[n]
  BY <1>1 DEF IsBound, Bound, Fresh
<1>10. Prov(receipt).commit \notin {"missing", "stray"} BY <1>1 DEF IsBound
<1>11. ASSUME NEW level \in Levels, Rules.enforcement = "block"
       PROVE  /\ \A list \in level.allow : Prov(receipt).definition \in list
              /\ level.present => level.revoked \cap Prov(receipt).skills = {}
  BY <1>1, <1>4, <1>11, AllowedByAll DEF SignedInv
<1>12. receipt = Append(Summed.doc.inputs, Summed.doc) BY <1>1 DEF Fetched
<1> QED BY <1>1, <1>3, <1>6, <1>7, <1>8, <1>9, <1>10, <1>11, <1>12 DEF PassedIsEarned

\* The gate passes nothing unsigned: see PassedIsEarned (run_gate, resolve, verify, bind).
THEOREM GateEarned == Spec => []PassedIsEarned
<1>1. Init => SignedInv BY SignedInit
<1>2. SignedInv /\ [Next]_vars => SignedInv' BY PolicyStep, SignedStep, ChainStep DEF SignedInv
<1>3. SignedInv => PassedIsEarned BY SignedIsEarned
<1> QED BY <1>1, <1>2, <1>3, PTL DEF Spec

-----------------------------------------------------------------------------
(* The signer that is reported *)

\* Rows say what was found, not by whom
LEMMA RowsKeepSigner ==
  ASSUME NEW a, IsReport(a), NEW name, NEW status
  PROVE  /\ Put(a, name, status).signer = a.signer
         /\ Fail(a, name).signer = a.signer
         /\ Incomplete(a, name).signer = a.signer
         /\ Judge(a, name, status).signer = a.signer
         /\ NotEvaluated(a).signer = a.signer
<1>1. \A s : Put(a, name, s).signer = a.signer /\ IsReport(Put(a, name, s)) BY DEF IsReport, Put
<1>2. Fail(a, name).signer = a.signer
  <2> DEFINE failed == Put(a, name, "fail")
  <2>1. failed.signer = a.signer /\ IsReport(failed) BY <1>1
  <2>2. Fail(a, name) = IF a.result = "invalid" THEN failed
                        ELSE [failed EXCEPT !.result = "invalid", !.reason = name]
    BY DEF Fail
  <2> HIDE DEF failed
  <2> QED BY <2>1, <2>2 DEF IsReport
<1>3. Incomplete(a, name).signer = a.signer
  <2> DEFINE warned == Put(a, name, "warn")
  <2>1. warned.signer = a.signer /\ IsReport(warned) BY <1>1
  <2>2. Incomplete(a, name) =
          IF a.result = "valid" THEN [warned EXCEPT !.result = "incomplete", !.reason = name] ELSE warned
    BY DEF Incomplete
  <2> HIDE DEF warned
  <2> QED BY <2>1, <2>2 DEF IsReport
<1>4. NotEvaluated(a).signer = a.signer BY DEF IsReport, NotEvaluated
<1> QED BY <1>1, <1>2, <1>3, <1>4 DEF Judge

LEMMA ReportsKeepSigner ==
  ASSUME NEW a, IsReport(a), NEW failure
  PROVE  /\ PolicyRow(a).signer = a.signer
         /\ Structural(a, failure).signer = a.signer
         /\ ChangeRow(a).signer = a.signer
<1>1. PolicyRow(a).signer = a.signer
  <2>1. CASE resolution.status = "unloadable"
    <3>1. PolicyRow(a) = Incomplete(a, "Policy") BY <2>1 DEF PolicyRow
    <3>2. \A status : /\ Incomplete(a, "Policy").signer = a.signer
                     /\ Put(a, "Policy", status).signer = a.signer
      BY RowsKeepSigner
    <3> QED BY <3>1, <3>2
  <2>2. CASE resolution.status # "unloadable"
    <3>1. \E status \in {"warn", "info", "pass"} : PolicyRow(a) = Put(a, "Policy", status)
      BY <2>2 DEF PolicyRow
    <3>2. PICK status \in {"warn", "info", "pass"} : PolicyRow(a) = Put(a, "Policy", status) BY <3>1
    <3> QED BY <3>2, RowsKeepSigner
  <2> QED BY <2>1, <2>2
<1>2. Structural(a, failure).signer = a.signer
  <2>1. PICK rows : Structural(a, failure) =
          IF failure = "none" THEN [a EXCEPT !.rows = rows] ELSE Fail([a EXCEPT !.rows = rows], failure)
    BY DEF Structural
  <2> DEFINE told == [a EXCEPT !.rows = rows]
  <2>2. IsReport(told) /\ told.signer = a.signer BY DEF IsReport
  <2>3. Structural(a, failure) = told \/ Structural(a, failure) = Fail(told, failure) BY <2>1
  <2> HIDE DEF told
  <2>4. \A status : Fail(told, failure).signer = told.signer /\ Put(told, failure, status).signer = told.signer
    BY <2>2, RowsKeepSigner
  <2> QED BY <2>2, <2>3, <2>4
<1>3. ChangeRow(a) \in {Fail(a, "Outputs"), Incomplete(a, "Outputs"), Put(a, "Outputs", "pass")}
  BY DEF ChangeRow
<1> QED BY <1>1, <1>2, <1>3, RowsKeepSigner

LEMMA RulesKeepSigner ==
  ASSUME NEW a, IsReport(a), NEW answer
  PROVE  PolicyRows(a, answer).signer = a.signer
<1> DEFINE factory == FactoryRow(a)
           dependencies == DependenciesRow(factory, answer)
<1>1. IsReport(factory) /\ factory.signer = a.signer BY JudgeReport, RowsKeepSigner DEF FactoryRow
<1> HIDE DEF factory
<1>2. IsReport(dependencies) /\ dependencies.signer = factory.signer
  BY <1>1, PutReport, IncompleteReport, JudgeReport, RowsKeepSigner DEF DependenciesRow
<1> HIDE DEF dependencies
<1>3. PICK verdict : RevocationRow(dependencies) = Judge(dependencies, "Revocation", verdict)
  BY DEF RevocationRow
<1>4. PolicyRows(a, answer) = RevocationRow(dependencies) BY DEF PolicyRows, dependencies, factory
<1> QED BY <1>1, <1>2, <1>3, <1>4, RowsKeepSigner

\* Only a summary names a signer
LEMMA IdentityKeepsSigner ==
  ASSUME NEW a, IsReport(a), NEW status, status # "signed"
  PROVE  IdentityRow(a, status).signer = a.signer
<1>1. \/ \E verdict : IdentityRow(a, status) = Judge(a, "Identity", verdict)
      \/ IdentityRow(a, status) = Incomplete(a, "Identity")
      \/ IdentityRow(a, status) = Put(a, "Identity", "warn")
  BY DEF IdentityRow
<1> QED BY <1>1, RowsKeepSigner

LEMMA UnaskedKeepsSigner ==
  ASSUME NEW a, IsReport(a)
  PROVE  Unasked(a).signer = a.signer
BY IdentityKeepsSigner, RowsKeepSigner DEF Unasked

Unread == Early \cup {"lookup", "check"}

\* A signer is reported of a summary that was found, which binds the receipt, and
\* what a pull request is judged on was fetched by that summary
SignerIsFound ==
  /\ audit.signer # None =>
       /\ look.summary # {}
       /\ place = "done" \/ (Gate /\ place \in {"inspect", "rules"})
  /\ ~Gate => \A a \in look.summary : Binds(a.doc)
  /\ Gate => receipt = <<>> \/ Fetched
  /\ Gate /\ place \in Unread => receipt = <<>>

LEMMA BindsStays ==
  ASSUME UNCHANGED receipt
  PROVE  \A doc : Binds(doc)' <=> Binds(doc)
BY DEF Binds

\* A step that finds no signer
LEMMA AnonymousStep ==
  ASSUME SignerIsFound, Gate' = Gate, UNCHANGED receipt, audit'.signer = None,
         Gate /\ place' \in Unread => place \in Unread,
         UNCHANGED look \/ (look'.summary = {} /\ (Gate => place \in Unread))
  PROVE  SignerIsFound'
<1>1. CASE UNCHANGED look BY <1>1, FetchedStays, BindsStays DEF SignerIsFound
<1>2. CASE look'.summary = {} /\ (Gate => place \in Unread) BY <1>2 DEF SignerIsFound
<1> QED BY <1>1, <1>2

\* An audit ends with the signer it has, or with one it has found
LEMMA EndsWithSigner ==
  ASSUME SignerIsFound, Same, UNCHANGED <<look, receipt>>, place' = "done",
         audit'.signer # None => look.summary # {}
  PROVE  SignerIsFound'
BY SameMeaning, FetchedStays, BindsStays DEF SignerIsFound, Unread, Early

LEMMA FinishWithSigner ==
  ASSUME SignerIsFound, NEW a, IsReport(a), Same, Finish(NotEvaluated(a)),
         a.signer # None => look.summary # {}
  PROVE  SignerIsFound'
BY RowsKeepSigner, EndsWithSigner DEF Finish

\* A summary that passes beside a receipt binds it
LEMMA WeighIsBound ==
  ASSUME LookIsHonest, ~Gate, NEW content, NEW signer, NEW tags \in BOOLEAN,
         NEW after \in Weigh(content, signer, tags), NEW a \in after.summary
  PROVE  a \in look.summary \/ Binds(a.doc)
<1> DEFINE found == Verified(content, signer)
           good == {b \in found : Passes(b, signer)}
           accepted == {b \in good : signer.sha \in {None, b.cert.at} \/ (tags /\ Pinned(b, signer))}
<1>1. CASE accepted # {}
  <2>1. PICK b \in accepted : after = [look EXCEPT !.summary = {b}, !.signers = {}]
    BY <1>1, Zenon DEF Weigh
  <2>2. Binds(b.doc) BY DEF Passes
  <2> HIDE DEF accepted
  <2>3. after.summary = {b} BY <2>1 DEF LookIsHonest, LookIsRecord
  <2> QED BY <2>2, <2>3
<1>2. CASE accepted = {}
  <2> DEFINE listed == {b \in Listed(content, Home(signer)) : b.doc.kind = "vsa"}
             ignored == found # good \/ (found = {} /\ listed # {})
  <2>1. after = [look EXCEPT !.signers = @ \ {signer},
                             !.ignored = @ \/ ignored,
                             !.unresolved = @ \/ (~tags /\ good # {}),
                             !.wrong = @ \/ (tags /\ good # {})]
    BY <1>2, Zenon DEF Weigh
  <2> HIDE DEF ignored, good
  <2> QED BY <2>1 DEF LookIsHonest, LookIsRecord
<1> QED BY <1>1, <1>2

LEMMA SignerStep ==
  ASSUME LookIsHonest, GateIsPassed, SignerIsFound, [Next]_vars
  PROVE  SignerIsFound'
<1>0. IsReport(audit) /\ PolicyRow(Unjudged).signer = None /\ IsReport(PolicyRow(Unjudged))
  BY UnjudgedReport, ReportsKeepSigner, PolicyRowReport DEF GateIsPassed, Unjudged
<1>1. CASE \/ AttestBundle \/ AttestSummary \/ Deliver \/ Amend \/ Advance \/ Rebase
           \/ StartAudit \/ ResolvePolicy
  <2>1. place \in Early /\ UNCHANGED <<world, look, audit, receipt>>
    BY <1>1 DEF Early, AttestBundle, AttestSummary, Deliver, Amend, Advance, Rebase, StartAudit,
                ResolvePolicy
  <2>2. audit.signer = None BY <2>1 DEF SignerIsFound, Early
  <2>3. Gate' = Gate BY <2>1 DEF Gate
  <2> QED BY <2>1, <2>2, <2>3, AnonymousStep DEF Unread
<1>2. CASE GateClosed
  <2>1. Same /\ UNCHANGED receipt /\ place = "resolve"
    BY <1>2 DEF GateClosed, Finish, Audited, Same, Resolved
  <2>2. Finish(NotEvaluated(PolicyRow(Unjudged))) \/ Finish(NotEvaluated(Incomplete(PolicyRow(Unjudged), "Identity")))
    BY <1>2 DEF GateClosed
  <2> QED BY <1>0, <2>1, <2>2, FinishWithSigner, IncompleteReport, RowsKeepSigner
<1>3. CASE StartGate
  <2>1. /\ Same /\ place = "resolve" /\ place' = "lookup" /\ audit'.signer = None
        /\ look' = LookingUp /\ UNCHANGED receipt
    BY <1>0, <1>3 DEF StartGate, Audited, Same, Go, Resolved
  <2> QED BY <2>1, NothingAskedIsHonest, SameMeaning, AnonymousStep DEF Unread, Early
<1>4. CASE GateRaises
  <2>1. Same /\ place = "resolve" /\ place' = "raised" /\ UNCHANGED <<audit, look, receipt>>
    BY <1>4 DEF GateRaises, Audited, Same, Resolved
  <2>2. audit.signer = None BY <2>1 DEF SignerIsFound
  <2> QED BY <2>1, <2>2, SameMeaning, AnonymousStep DEF Unread, Early
<1>5. CASE TooMany
  <2>1. Same /\ UNCHANGED receipt /\ place = "lookup" BY <1>5 DEF TooMany, Audited, Same, Finish
  <2>2. audit.signer = None BY <2>1 DEF SignerIsFound
  <2> QED BY <1>0, <1>5, <2>1, <2>2, FinishWithSigner, IncompleteReport, RowsKeepSigner DEF TooMany
<1>6. CASE NotDelivered
  <2> DEFINE refused == [Fail(audit, "Identity") EXCEPT !.reason = "not_a_delivery"]
  <2>1. Same /\ UNCHANGED receipt /\ place = "lookup" BY <1>6 DEF NotDelivered, Audited, Same, Finish
  <2>2. audit.signer = None BY <2>1 DEF SignerIsFound
  <2>3. IsReport(refused) /\ refused.signer = None
    <3>1. IsReport(Fail(audit, "Identity")) /\ Fail(audit, "Identity").signer = None
      BY <1>0, <2>2, FailReport, RowsKeepSigner
    <3> QED BY <3>1 DEF IsReport
  <2>4. Finish(NotEvaluated(refused)) \/ Finish(NotEvaluated(Incomplete(audit, "Identity")))
    BY <1>6 DEF NotDelivered
  <2> HIDE DEF refused
  <2> QED BY <1>0, <2>1, <2>2, <2>3, <2>4, FinishWithSigner, IncompleteReport, RowsKeepSigner
<1>7. CASE \E question \in look.left : LookUp(question)
  <2>1. PICK question \in look.left : LookUp(question) BY <1>7
  <2> DEFINE asked == [look EXCEPT !.left = @ \ {question}, !.asked = @ + 1]
  <2>2. Same /\ UNCHANGED receipt /\ place = "lookup" BY <2>1 DEF LookUp, Audited, Same
  <2>3. audit.signer = None BY <2>2 DEF SignerIsFound
  <2>4. CASE Go("check", audit) /\ look' = AskOf(FilesFrom(question.path))
    BY <2>2, <2>3, <2>4, NothingAskedIsHonest, SameMeaning, AnonymousStep DEF Go, Unread
  <2>5. CASE Go("done", NotEvaluated(Fail(audit, "Outputs"))) /\ UNCHANGED look
    <3>1. audit'.signer = None BY <1>0, <2>3, <2>5, FailReport, RowsKeepSigner DEF Go
    <3> QED BY <2>2, <2>5, <3>1, EndsWithSigner DEF Go
  <2>6. CASE look' \in {asked, Unanswered(asked)} /\ UNCHANGED <<audit, place>>
    <3>1. look'.summary = look.summary BY <2>6 DEF LookIsHonest, LookIsRecord, Unanswered
    <3>2. ~Gate => \A a \in look'.summary : Binds(a.doc)' BY <2>2, <3>1, BindsStays DEF SignerIsFound
    <3>3. Gate => receipt' = <<>> BY <2>2 DEF SignerIsFound, Unread
    <3> QED BY <2>2, <2>3, <2>6, <3>2, <3>3, SameMeaning DEF SignerIsFound
  <2> QED BY <2>1, <2>4, <2>5, <2>6 DEF LookUp
<1>8. CASE \E signer \in look.signers : CheckSigner(signer)
  <2>1. PICK signer \in look.signers : CheckSigner(signer) BY <1>8
  <2>2. Same /\ UNCHANGED <<receipt, audit, place>> /\ place = "check"
    BY <2>1 DEF CheckSigner, Audited, Same
  <2>3. audit.signer = None BY <2>2 DEF SignerIsFound
  <2>4. ASSUME ~Gate, NEW a \in look'.summary PROVE Binds(a.doc)'
    <3>1. CASE look' = [Unanswered(look) EXCEPT !.signers = @ \ {signer}]
      <4>1. look'.summary = look.summary BY <3>1 DEF LookIsHonest, LookIsRecord, Unanswered
      <4> QED BY <2>2, <2>4, <4>1, BindsStays DEF SignerIsFound
    <3>2. CASE \E tags \in BOOLEAN : look' \in Weigh(Content(look.files[1]), signer, tags)
      BY <2>2, <2>4, <3>2, WeighIsBound, BindsStays DEF SignerIsFound
    <3> QED BY <2>1, <3>1, <3>2 DEF CheckSigner
  <2>5. Gate => receipt' = <<>> BY <2>2 DEF SignerIsFound, Unread
  <2> QED BY <2>2, <2>3, <2>4, <2>5, SameMeaning DEF SignerIsFound
<1>9. CASE TryNextFile
  <2>1. /\ Same /\ UNCHANGED <<receipt, audit, place>> /\ place = "check"
        /\ look' = AskOf(Tail(look.files))
    BY <1>9 DEF TryNextFile, AllAsked, Audited, Same
  <2>2. audit.signer = None BY <2>1 DEF SignerIsFound
  <2> QED BY <2>1, <2>2, NothingAskedIsHonest, SameMeaning, AnonymousStep DEF Unread
<1>10. CASE GateUnsigned
  <2>1. Same /\ place = "check" BY <1>10 DEF GateUnsigned, AllAsked, Audited, Same
  <2>2. audit.signer = None BY <2>1 DEF SignerIsFound
  <2> QED BY <1>0, <1>10, <2>1, <2>2, FinishWithSigner, FailReport, RowsKeepSigner DEF GateUnsigned
<1>11. CASE GateUndecided
  <2> DEFINE row == IdentityRow(audit, IdentityStatus)
  <2>1. Same /\ place = "check" BY <1>11 DEF GateUndecided, AllAsked, Audited, Same
  <2>2. audit.signer = None BY <2>1 DEF SignerIsFound
  <2>3. IsReport(row) /\ row.signer = None
    BY <1>0, <1>11, <2>2, IdentityRowReport, IdentityKeepsSigner DEF GateUndecided
  <2>4. Finish(NotEvaluated(IF row.result = "valid" THEN Incomplete(row, "Identity") ELSE row))
    BY <1>11 DEF GateUndecided
  <2> HIDE DEF row
  <2> QED BY <2>1, <2>3, <2>4, FinishWithSigner, IncompleteReport, RowsKeepSigner
<1>12. CASE GateFetches
  <2> DEFINE row == IdentityRow(audit, "signed")
  <2>1. IsReport(row) BY <1>0, IdentityRowReport
  <2>2. Same /\ Gate /\ UNCHANGED look /\ look.summary # {}
    BY <1>12, SignedHasSummary DEF GateFetches, AllAsked, Audited, Same, Finish
  <2>3. \/ Go("inspect", row) /\ receipt' = Append(Summed.doc.inputs, Summed.doc)
        \/ Finish(NotEvaluated(Fail(row, "Integrity")))
    BY <1>12 DEF GateFetches
  <2> HIDE DEF row
  <2>4. CASE Go("inspect", row) /\ receipt' = Append(Summed.doc.inputs, Summed.doc)
    <3>1. Fetched'
      <4>1. Summed' = Summed BY <2>2 DEF Summed
      <4> QED BY <2>2, <2>4, <4>1 DEF Fetched
    <3>2. place' = "inspect" /\ Gate' BY <2>2, <2>4, SameMeaning DEF Go
    <3> QED BY <2>2, <3>1, <3>2 DEF SignerIsFound, Unread, Early
  <2>5. CASE Finish(NotEvaluated(Fail(row, "Integrity")))
    BY <2>1, <2>2, <2>5, FinishWithSigner, FailReport
  <2> QED BY <2>3, <2>4, <2>5
<1>13. CASE FetchFails
  <2>1. Same /\ look.summary # {} BY <1>13, SignedHasSummary DEF FetchFails, Audited, Same
  <2>2. IsReport(Incomplete(IdentityRow(audit, "signed"), "Integrity"))
    BY <1>0, IdentityRowReport, IncompleteReport
  <2>3. CASE place' = "raised" /\ UNCHANGED <<audit, receipt, look>>
    <3>1. place = "check" /\ audit.signer = None BY <1>0, <1>13 DEF FetchFails, SignerIsFound
    <3>2. Gate' = Gate BY <2>1, SameMeaning
    <3>3. place' \notin Unread BY <2>3 DEF Unread, Early
    <3>4. audit'.signer = None BY <2>3, <3>1
    <3>5. UNCHANGED receipt /\ UNCHANGED look BY <2>3
    <3> QED BY <3>2, <3>3, <3>4, <3>5, AnonymousStep
  <2> QED BY <1>13, <2>1, <2>2, <2>3, FinishWithSigner DEF FetchFails
<1>14. CASE StartBundle
  <2>1. Same /\ ~Gate /\ place \in Early /\ UNCHANGED look /\ audit'.signer = None
    BY <1>0, <1>14 DEF StartBundle, Audited, Same, Go, Resolved, Early
  <2>2. look'.summary = {} BY <2>1, NothingAskedIsHonest DEF LookIsHonest
  <2> QED BY <2>1, <2>2, SameMeaning DEF SignerIsFound
<1>15. CASE InspectReceipt
  <2> DEFINE row == Structural(audit, Inspect(receipt, Retained))
  <2>1. IsReport(row) /\ row.signer = audit.signer BY <1>0, StructuralReport, ReportsKeepSigner
  <2>2. Same /\ place = "inspect" /\ UNCHANGED <<receipt, look>>
    BY <1>15 DEF InspectReceipt, Audited, Same
  <2>3. \E a \in {row, Fail(row, "Outputs"), ChangeRow(row), Incomplete(row, "Outputs")} : Go("rules", a)
    BY <1>15 DEF InspectReceipt
  <2> HIDE DEF row
  <2>4. audit'.signer = audit.signer /\ place' = "rules"
    BY <2>1, <2>3, RowsKeepSigner, ReportsKeepSigner DEF Go
  <2> QED BY <2>2, <2>4, SameMeaning, FetchedStays, BindsStays DEF SignerIsFound, Unread, Early
<1>16. CASE JudgeRules
  <2>1. PICK answer : LET a == PolicyRows(audit, answer)
                          asks == Applies /\ Sound /\ Signers # {} /\ ~inquiry.offline /\ Artifacts # {}
                      IN CASE Gate -> Go("done", a) /\ UNCHANGED look
                           [] ~Gate /\ asks -> Go("check", a) /\ look' = AskOf(SetToSeq(Artifacts))
                           [] OTHER -> Go("done", Unasked(a)) /\ UNCHANGED look
    BY <1>16 DEF JudgeRules
  <2>2. Same /\ place = "rules" /\ UNCHANGED receipt BY <1>16 DEF JudgeRules, Audited, Same
  <2> DEFINE row == PolicyRows(audit, answer)
  <2>3. IsReport(row) /\ row.signer = audit.signer /\ Unasked(row).signer = audit.signer
    BY <1>0, PolicyRowsReport, RulesKeepSigner, UnaskedKeepsSigner
  <2>4. \/ ~Gate /\ Go("check", row) /\ look' = AskOf(SetToSeq(Artifacts))
        \/ (Go("done", row) \/ Go("done", Unasked(row))) /\ UNCHANGED look
    BY <2>1, Zenon
  <2> HIDE DEF row
  <2>5. CASE ~Gate /\ Go("check", row) /\ look' = AskOf(SetToSeq(Artifacts))
    <3>1. audit'.signer = None BY <2>2, <2>3, <2>5 DEF Go, SignerIsFound
    <3> QED BY <2>2, <2>5, <3>1, NothingAskedIsHonest, SameMeaning, AnonymousStep
  <2>6. CASE (Go("done", row) \/ Go("done", Unasked(row))) /\ UNCHANGED look
    <3>1. place' = "done" /\ audit'.signer = audit.signer BY <2>3, <2>6 DEF Go
    <3> QED BY <2>2, <2>6, <3>1, EndsWithSigner DEF SignerIsFound
  <2> QED BY <2>4, <2>5, <2>6
<1>17. CASE BundleIdentity
  <2>1. Same /\ place = "check" /\ Finish(IdentityRow(audit, IdentityStatus)) /\ UNCHANGED receipt
    BY <1>17 DEF BundleIdentity, AllAsked, Audited, Same, Finish
  <2>2. audit.signer = None BY <2>1 DEF SignerIsFound
  <2>3. audit'.signer # None => look.summary # {}
    BY <1>0, <2>1, <2>2, SignedHasSummary, IdentityKeepsSigner DEF Finish
  <2> QED BY <2>1, <2>3, EndsWithSigner DEF Finish
<1>18. CASE UNCHANGED vars
  <2>1. Same /\ UNCHANGED <<receipt, look, audit, place>> BY <1>18 DEF vars, Same, policyVars
  <2> QED BY <2>1, SameMeaning, FetchedStays, BindsStays DEF SignerIsFound
<1> QED BY <1>1, <1>2, <1>3, <1>4, <1>5, <1>6, <1>7, <1>8, <1>9, <1>10, <1>11, <1>12, <1>13, <1>14,
           <1>15, <1>16, <1>17, <1>18 DEF Next

\* A receipt that is reported as authenticated is bound to a PASSED summary of a
\* trusted signer: beside a receipt file the summary names exactly its statements,
\* its files and its definition, and a pull request is judged on what it names
\* (_identity, verify and _bundle_binding of audit/identity.py; run_gate).
SignatureIsBound ==
  place = "done" /\ audit.signer # None =>
    \E a \in store :
      /\ Vouched(a, Signers)
      /\ ~Gate => Binds(a.doc)
      /\ Gate => receipt \in {<<>>, Append(a.doc.inputs, a.doc)}

\* Nobody is named who did not sign what was audited: see SignatureIsBound
\* (_identity and verify of audit/identity.py).
THEOREM SignatureBound == Spec => []SignatureIsBound
<1>1. Init => SignedInv /\ SignerIsFound
  <2>1. Init => NothingAsked.summary = {} /\ Unjudged.signer = None
    BY NothingAskedIsHonest DEF Unjudged
  <2> QED BY <2>1, SignedInit DEF Init, SignerIsFound
<1>2. SignedInv /\ SignerIsFound /\ [Next]_vars => SignedInv' /\ SignerIsFound'
  BY PolicyStep, SignedStep, ChainStep, SignerStep DEF SignedInv
<1>3. SignedInv /\ SignerIsFound => SignatureIsBound
  <2> SUFFICES ASSUME SignedInv, SignerIsFound, place = "done", audit.signer # None
               PROVE  SignatureIsBound
    BY DEF SignatureIsBound
  <2>1. Summed \in look.summary BY DEF SignerIsFound, Summed
  <2>2. Summed \in store /\ Vouched(Summed, Signers)
    BY <2>1 DEF SignedInv, LookIsHonest, Trustworthy
  <2>3. ~Gate => Binds(Summed.doc) BY <2>1 DEF SignerIsFound
  <2>4. Gate => receipt \in {<<>>, Append(Summed.doc.inputs, Summed.doc)} BY DEF SignerIsFound, Fetched
  <2> QED BY <2>2, <2>3, <2>4 DEF SignatureIsBound
<1> QED BY <1>1, <1>2, <1>3, PTL DEF Spec

-----------------------------------------------------------------------------
(* The least of a set of numbers *)

LEMMA LeastOf ==
  ASSUME NEW T, T \subseteq Nat, T # {}
  PROVE  \E n \in T : \A m \in T : n <= m
<1> DEFINE R == OpToRel(<, Nat)
<1>1. IsWellFoundedOn(R, Nat) BY NatLessThanWellFounded
<1>2. \A x, y \in Nat : x < y => <<x, y>> \in R BY DEF OpToRel
<1> HIDE DEF R
<1>3. PICK n \in T : \A m \in T : ~ (<<m, n>> \in R) BY <1>1, WFMin
<1>4. ASSUME NEW m \in T PROVE n <= m
  <2>1. ~ (<<m, n>> \in R) /\ m \in Nat /\ n \in Nat BY <1>3
  <2>2. ~ (m < n) BY <2>1, <1>2
  <2> QED BY <2>1, <2>2
<1> QED BY <1>4

-----------------------------------------------------------------------------
(* The files of the pull request *)

\* The names of the project as the repository has them
Known == {world.prefix \o Names[i] : i \in DOMAIN Names}

PullIsKnown ==
  /\ \E i \in DOMAIN Worlds : world \in Worlds[i]
  /\ pull = [mergeBase |-> pull.mergeBase, base |-> pull.base, head |-> pull.head]
  /\ DOMAIN pull.mergeBase \cup DOMAIN pull.base \cup DOMAIN pull.head \subseteq Known
  /\ \A n \in DOMAIN pull.head : pull.head[n] # Absent
  /\ place \in {"open", "moved"} => Names # <<>>

LEMMA OverlayFiles ==
  ASSUME NEW files, NEW changes
  PROVE  /\ DOMAIN Overlay(files, changes) \subseteq DOMAIN files \cup DOMAIN changes
         /\ \A n \in DOMAIN Overlay(files, changes) : Overlay(files, changes)[n] # Absent
BY DEF Overlay

LEMMA KnownFiles ==
  ASSUME NEW i \in DOMAIN Worlds, world \in Worlds[i]
  PROVE  DOMAIN Repository \subseteq Known /\ DOMAIN Changes \subseteq Known
<1>1. DOMAIN world.base \cup DOMAIN Delivered.files \cup DOMAIN Delivered.before \subseteq Range(Names)
  BY NamesAssumption DEF Delivered
<1>2. \A n \in Range(Names) : world.prefix \o n \in Known BY DEF Range, Known
<1>3. DOMAIN Repository \subseteq Known BY <1>1, <1>2 DEF Repository, Under
<1>4. Removed(Delivered) \subseteq Range(Names) BY <1>1 DEF Removed
<1>5. DOMAIN Changes \subseteq Known BY <1>1, <1>2, <1>4 DEF Changes
<1> QED BY <1>3, <1>5

LEMMA EditedFiles ==
  ASSUME NEW i \in DOMAIN Worlds, world \in Worlds[i], Names # <<>>,
         NEW files, DOMAIN files \subseteq Known, NEW edited \in Edit(files)
  PROVE  DOMAIN edited \subseteq Known /\ \A n \in DOMAIN edited : edited[n] # Absent
<1>1. world.prefix \o Names[1] \in Known
  <2>1. 1 \in DOMAIN Names BY ReceiptAssumption
  <2> QED BY <2>1 DEF Known
<1> DEFINE names == DOMAIN Repository \cup DOMAIN Changes \cup {world.prefix \o Names[1]}
<1>2. PICK change \in UNION {[{n} -> Contents \cup {Absent}] : n \in names} : edited = Overlay(files, change)
  BY DEF Edit
<1>3. PICK n \in names : change \in [{n} -> Contents \cup {Absent}] BY <1>2
<1>4. DOMAIN change = {n} /\ n \in Known BY <1>1, <1>3, KnownFiles
<1> QED BY <1>2, <1>4, OverlayFiles

LEMMA WorldStays == [Next]_vars => world' = world
BY DEF Next, vars, Audited, AttestBundle, AttestSummary, Deliver, Amend, Advance, Rebase,
       StartAudit, ResolvePolicy, GateClosed, StartGate, GateRaises, TooMany, NotDelivered, LookUp,
       CheckSigner, TryNextFile, GateUnsigned, GateUndecided, GateFetches, FetchFails, StartBundle,
       InspectReceipt, JudgeRules, BundleIdentity, AllAsked

\* Only the author, the base and the delivery itself write files of the pull request
LEMMA PullWriters ==
  [Next]_vars =>
    \/ Deliver \/ Amend \/ Advance \/ Rebase
    \/ UNCHANGED pull /\ (UNCHANGED place \/ place' \notin {"open", "moved"})
BY DEF Next, vars, Audited, AttestBundle, AttestSummary,
       StartAudit, ResolvePolicy, GateClosed, StartGate, GateRaises, TooMany, NotDelivered, LookUp,
       CheckSigner, TryNextFile, GateUnsigned, GateUndecided, GateFetches, FetchFails, StartBundle,
       InspectReceipt, JudgeRules, BundleIdentity, AllAsked, Go, Finish

LEMMA PullStep ==
  ASSUME PullIsKnown, [Next]_vars
  PROVE  PullIsKnown'
<1>1. world' = world /\ Known' = Known BY WorldStays DEF Known
<1>2. PICK i \in DOMAIN Worlds : world \in Worlds[i] BY DEF PullIsKnown
<1>3. CASE Deliver
  <2>1. Names # <<>>
    <3>1. DOMAIN Delivered.files # {} BY <1>3 DEF Deliver, Bundle, Export, Delivered
    <3>2. DOMAIN Delivered.files \subseteq Range(Names) BY <1>2, NamesAssumption DEF Delivered
    <3>3. DOMAIN Names # {} BY <3>1, <3>2 DEF Range
    <3> QED BY <3>3
  <2>2. pull' = [mergeBase |-> Repository, base |-> Repository, head |-> Overlay(Repository, Changes)]
    BY <1>3 DEF Deliver
  <2> QED BY <1>1, <1>2, <2>1, <2>2, KnownFiles, OverlayFiles DEF PullIsKnown
<1>4. CASE Amend
  <2>1. PICK head \in Edit(pull.head) : pull' = [pull EXCEPT !.head = head] BY <1>4 DEF Amend
  <2>2. DOMAIN head \subseteq Known /\ \A n \in DOMAIN head : head[n] # Absent
    BY <1>2, <1>4, EditedFiles DEF PullIsKnown, Amend
  <2>3. place' = "final" BY <1>4 DEF Amend
  <2> QED BY <1>1, <1>2, <2>1, <2>2, <2>3 DEF PullIsKnown
<1>5. CASE Advance
  <2>1. PICK base \in Edit(pull.base) : pull' = [pull EXCEPT !.base = base] BY <1>5 DEF Advance
  <2>2. DOMAIN base \subseteq Known BY <1>2, <1>5, EditedFiles DEF PullIsKnown, Advance
  <2>3. place = "open" BY <1>5 DEF Advance
  <2> QED BY <1>1, <1>2, <2>1, <2>2, <2>3 DEF PullIsKnown
<1>6. CASE Rebase
  <2> DEFINE head == Overlay(pull.base, [n \in Changed(pull) |-> At(pull.head, n)])
  <2>1. pull' = [pull EXCEPT !.mergeBase = pull.base, !.head = head] /\ place' = "final"
    BY <1>6 DEF Rebase
  <2>2. DOMAIN head \subseteq DOMAIN pull.base \cup Changed(pull) /\ \A n \in DOMAIN head : head[n] # Absent
    BY OverlayFiles
  <2>3. Changed(pull) \subseteq Known BY DEF Changed, PullIsKnown
  <2> HIDE DEF head
  <2> QED BY <1>1, <1>2, <2>1, <2>2, <2>3 DEF PullIsKnown
<1>7. CASE UNCHANGED pull /\ (UNCHANGED place \/ place' \notin {"open", "moved"})
  BY <1>1, <1>2, <1>7 DEF PullIsKnown
<1> QED BY <1>3, <1>4, <1>5, <1>6, <1>7, PullWriters

LEMMA PositionOf ==
  ASSUME PullIsKnown, NEW n \in Sought
  PROVE  Position(n) \in Nat
<1>1. n \in Known BY DEF Sought, Present, PullIsKnown
<1>2. Position(n) \in DOMAIN Names BY <1>1 DEF Known, Position
<1> QED BY <1>2, ReceiptAssumption

\* Of the files that hold the same bytes one is asked about
LEMMA EveryContentIsAsked ==
  ASSUME PullIsKnown, NEW n \in Sought, NEW s \in Signers, Home(s) # None
  PROVE  \E q \in Questions : pull.head[q.path] = pull.head[n] /\ q.repo = Home(s)
<1> DEFINE alike == {m \in Sought : pull.head[m] = pull.head[n]}
           places == {Position(m) : m \in alike}
<1>1. places \subseteq Nat /\ places # {} BY PositionOf
<1>2. PICK p \in places : \A o \in places : p <= o BY <1>1, LeastOf
<1>3. PICK m \in alike : p = Position(m) BY <1>2
<1>4. \A k \in Sought : pull.head[m] = pull.head[k] => Position(m) <= Position(k) BY <1>2, <1>3
<1>5. [path |-> m, repo |-> Home(s)] \in Questions BY <1>3, <1>4 DEF Questions
<1> QED BY <1>3, <1>5

LEMMA FirstOfFiles ==
  ASSUME PullIsKnown, NEW n
  PROVE  /\ FilesFrom(n)[1] = n
         /\ Len(FilesFrom(n)) \in Nat \ {0}
<1> DEFINE rest == {m \in Present(pull) : m # n}
<1>1. IsFiniteSet(rest)
  <2>1. Names \in Seq(Seq(STRING)) BY ReceiptAssumption
  <2>2. DOMAIN Names = 1 .. Len(Names) /\ Len(Names) \in Nat BY <2>1
  <2>3. IsFiniteSet(1 .. Len(Names)) BY <2>2, FS_Interval
  <2>4. IsFiniteSet(DOMAIN Names) BY <2>2, <2>3
  <2> DEFINE name == [i \in DOMAIN Names |-> world.prefix \o Names[i]]
  <2>5. IsFiniteSet(Known)
    <3>1. name \in Surjection(DOMAIN Names, Known) BY DEF Surjection, Known
    <3> QED BY <2>4, <3>1, FS_Surjection
  <2>6. rest \subseteq Known BY DEF Present, PullIsKnown
  <2> QED BY <2>5, <2>6, FS_Subset
<1>2. Cardinality(rest) \in Nat BY <1>1, FS_CardinalityType
<1> DEFINE size == Cardinality(rest)
           most == IF size < MaxFirst THEN size + 1 ELSE MaxFirst
           Ranked(k) == CHOOSE m \in rest : Cardinality({o \in rest : Position(o) < Position(m)}) = k
<1>3. FilesFrom(n) = [i \in 1 .. most |-> IF i = 1 THEN n ELSE Ranked(i - 2)] BY Zenon DEF FilesFrom
<1>4. most \in Nat \ {0} BY <1>2, AuditAssumption
<1> HIDE DEF most, Ranked, rest
<1> QED BY <1>3, <1>4

-----------------------------------------------------------------------------
(* What the store says *)

\* No summary that is shown and that s vouches for names all that is sought
NoneOf(s) == ~\E a \in store : Vouched(a, {s}) /\ Covers(a.doc) /\ Shown(a)

NoneCovers == \A s \in Signers : NoneOf(s)

NoneAttested == \A n \in Sought, s \in Signers : Listed(pull.head[n], Home(s)) = {}

\* A question that was answered was answered no
LookupIsTrue ==
  Gate /\ place = "lookup" =>
    /\ look.left \subseteq Questions
    /\ ~look.unanswered =>
         /\ \A s \in Signers : Home(s) # None
         /\ \A q \in Questions \ look.left : Listed(pull.head[q.path], q.repo) = {}

\* A signer that was asked about a file and answered has no summary of it
CheckIsTrue ==
  Gate /\ place = "check" =>
    \/ NoneCovers
    \/ /\ look.files[1] \in Sought
       /\ look.summary = {} =>
            \A s \in Signers \ look.signers : look.unanswered \/ look.unresolved \/ NoneOf(s)

LEMMA SameStore ==
  ASSUME Same
  PROVE  /\ Sought' = Sought /\ Questions' = Questions /\ Signers' = Signers /\ Gate' = Gate
         /\ \A s : Home(s)' = Home(s) /\ NoneOf(s)' = NoneOf(s)
         /\ \A content, repo : Listed(content, repo)' = Listed(content, repo)
         /\ NoneCovers' = NoneCovers /\ NoneAttested' = NoneAttested
<1>1. Signers' = Signers /\ Gate' = Gate BY SameMeaning
<1>2. Sought' = Sought BY DEF Same, Sought, Present, Changed
<1>3. \A s : Home(s)' = Home(s) BY DEF Same, Home
<1>4. \A n : Position(n)' = Position(n) BY DEF Same, Position
<1>5. Questions' = Questions BY <1>1, <1>2, <1>3, <1>4 DEF Questions, Same
<1>6. \A content, repo : Listed(content, repo)' = Listed(content, repo) BY DEF Listed, Stored, Ahead, Same
<1>7. ASSUME NEW s PROVE NoneOf(s)' = NoneOf(s)
  <2>1. \A a : Vouched(a, {s})' <=> Vouched(a, {s}) BY <1>3 DEF Vouched, Pinned
  <2>2. \A doc : Covers(doc)' <=> Covers(doc) BY <1>2 DEF Covers, Same
  <2>3. \A a : Shown(a)' <=> Shown(a) BY <1>2, <1>6 DEF Shown, Same
  <2> QED BY <2>1, <2>2, <2>3 DEF NoneOf, Same
<1>8. NoneCovers' = NoneCovers BY <1>1, <1>7 DEF NoneCovers
<1>9. NoneAttested' = NoneAttested BY <1>1, <1>2, <1>3, <1>6 DEF NoneAttested, Same
<1> QED BY <1>1, <1>2, <1>3, <1>5, <1>6, <1>7, <1>8, <1>9

\* With every question answered no, there is nothing to be found
LEMMA NothingAttested ==
  ASSUME PullIsKnown, LookupIsTrue, Gate, place = "lookup", look.left = {}, ~look.unanswered
  PROVE  NoneAttested /\ (Sought # {} => NoneCovers)
<1>1. ASSUME NEW n \in Sought, NEW s \in Signers PROVE Listed(pull.head[n], Home(s)) = {}
  <2>1. Home(s) # None BY DEF LookupIsTrue
  <2>2. PICK q \in Questions : pull.head[q.path] = pull.head[n] /\ q.repo = Home(s)
    BY <2>1, EveryContentIsAsked
  <2> QED BY <2>2 DEF LookupIsTrue
<1>2. ASSUME NEW n \in Sought, NEW s \in Signers PROVE NoneOf(s)
  <2>1. SUFFICES ASSUME NEW a \in store, Vouched(a, {s}), Shown(a) PROVE FALSE BY DEF NoneOf
  <2>2. Home(s) = a.repo BY <2>1 DEF Vouched
  <2> QED BY <1>1, <2>1, <2>2 DEF Shown
<1> QED BY <1>1, <1>2 DEF NoneAttested, NoneCovers

\* A signer that answers, and has nothing that passes, has no summary that covers
LEMMA WeighIsTrue ==
  ASSUME LookIsHonest, PullIsKnown, Gate, NEW n \in Sought, NEW signer, NEW tags \in BOOLEAN,
         NEW after \in Weigh(pull.head[n], signer, tags), after.summary = {}
  PROVE  /\ look.summary = {} /\ after.signers = look.signers \ {signer} /\ after.files = look.files
         /\ look.unanswered => after.unanswered
         /\ look.unresolved => after.unresolved
         /\ after.unresolved \/ NoneOf(signer)
<1> DEFINE found == Verified(pull.head[n], signer)
           good == {a \in found : Passes(a, signer)}
           accepted == {a \in good : signer.sha \in {None, a.cert.at} \/ (tags /\ Pinned(a, signer))}
           listed == {a \in Listed(pull.head[n], Home(signer)) : a.doc.kind = "vsa"}
           ignored == found # good \/ (found = {} /\ listed # {})
<1>1. ASSUME NEW a \in store, Vouched(a, {signer}), Covers(a.doc), Shown(a)
      PROVE  a \in good /\ (tags => a \in accepted)
  <2>1. /\ a.doc.kind = "vsa" /\ a.doc.result = "PASSED" /\ signer.workflow = a.cert.workflow
        /\ Home(signer) = a.repo /\ signer.ref \in {None, a.cert.ref} /\ Pinned(a, signer)
    BY <1>1 DEF Vouched
  <2>2. a \in found BY <1>1, <2>1 DEF Verified, Shown
  <2>3. Passes(a, signer) BY <1>1, <2>1 DEF Passes
  <2> QED BY <2>1, <2>2, <2>3
<1>2. CASE accepted # {}
  <2>1. \E a \in accepted : after = [look EXCEPT !.summary = {a}, !.signers = {}]
    BY <1>2, Zenon DEF Weigh
  <2> HIDE DEF accepted
  <2> QED BY <2>1 DEF LookIsHonest, LookIsRecord
<1>3. CASE accepted = {}
  <2>1. after = [look EXCEPT !.signers = @ \ {signer},
                             !.ignored = @ \/ ignored,
                             !.unresolved = @ \/ (~tags /\ good # {}),
                             !.wrong = @ \/ (tags /\ good # {})]
    BY <1>3, Zenon DEF Weigh
  <2>2. NoneOf(signer) \/ (~tags /\ good # {})
    <3>1. CASE NoneOf(signer) BY <3>1
    <3>2. CASE ~NoneOf(signer)
      <4>1. PICK a \in store : Vouched(a, {signer}) /\ Covers(a.doc) /\ Shown(a) BY <3>2 DEF NoneOf
      <4>2. a \in good /\ (tags => a \in accepted) BY <1>1, <4>1
      <4> QED BY <1>3, <4>2
    <3> QED BY <3>1, <3>2
  <2> HIDE DEF ignored, good
  <2> QED BY <2>1, <2>2 DEF LookIsHonest, LookIsRecord
<1> QED BY <1>2, <1>3

LEMMA WeighKeepsFiles ==
  ASSUME LookIsHonest, NEW content, NEW signer, NEW tags \in BOOLEAN,
         NEW after \in Weigh(content, signer, tags)
  PROVE  after.files = look.files
<1> DEFINE found == Verified(content, signer)
           good == {a \in found : Passes(a, signer)}
           listed == {a \in Listed(content, Home(signer)) : a.doc.kind = "vsa"}
           ignored == found # good \/ (found = {} /\ listed # {})
<1>1. \/ \E a : after = [look EXCEPT !.summary = {a}, !.signers = {}]
      \/ after = [look EXCEPT !.signers = @ \ {signer},
                              !.ignored = @ \/ ignored,
                              !.unresolved = @ \/ (~tags /\ good # {}),
                              !.wrong = @ \/ (tags /\ good # {})]
  BY Zenon DEF Weigh
<1> HIDE DEF ignored, good
<1> QED BY <1>1 DEF LookIsHonest, LookIsRecord

-----------------------------------------------------------------------------
(* The row of the signature *)

\* A report that does not call the pull request no delivery
Named(a) == IsReport(a) /\ a.reason # "not_a_delivery"

\* Nor has it found the signature wanting
Unfailed(a) ==
  /\ Named(a) /\ a.rows = [n \in Display |-> a.rows[n]] /\ a.rows["Identity"] # "fail"

Others == Display \ {"Identity"}

LEMMA RowsAreNamed ==
  ASSUME NEW a, Named(a), NEW name \in Display, NEW status
  PROVE  /\ Named(Put(a, name, status)) /\ Named(Fail(a, name)) /\ Named(Incomplete(a, name))
         /\ Named(Judge(a, name, status)) /\ Named(NotEvaluated(a))
<1>1. name # "not_a_delivery" BY DEF Display
<1>2. \A s : Named(Put(a, name, s)) BY DEF Named, IsReport, Put
<1>3. Named(Fail(a, name))
  <2> DEFINE failed == Put(a, name, "fail")
  <2>1. Named(failed) BY <1>2
  <2>2. Fail(a, name) = IF a.result = "invalid" THEN failed
                        ELSE [failed EXCEPT !.result = "invalid", !.reason = name]
    BY DEF Fail
  <2> HIDE DEF failed
  <2> QED BY <1>1, <2>1, <2>2 DEF Named, IsReport
<1>4. Named(Incomplete(a, name))
  <2> DEFINE warned == Put(a, name, "warn")
  <2>1. Named(warned) BY <1>2
  <2>2. Incomplete(a, name) =
          IF a.result = "valid" THEN [warned EXCEPT !.result = "incomplete", !.reason = name] ELSE warned
    BY DEF Incomplete
  <2> HIDE DEF warned
  <2> QED BY <1>1, <2>1, <2>2 DEF Named, IsReport
<1>5. Named(NotEvaluated(a)) BY DEF Named, IsReport, NotEvaluated
<1> QED BY <1>2, <1>3, <1>4, <1>5 DEF Judge

LEMMA RowsAreUnfailed ==
  ASSUME NEW a, Unfailed(a)
  PROVE  /\ \A name \in Display : \A status :
              name # "Identity" \/ status # "fail" => Unfailed(Put(a, name, status))
         /\ \A name \in Others : Unfailed(Fail(a, name))
         /\ \A name \in Display : Unfailed(Incomplete(a, name))
         /\ \A name \in Others : \A status : Unfailed(Judge(a, name, status))
         /\ Unfailed(NotEvaluated(a))
<1>1. ASSUME NEW name \in Display, NEW status, name # "Identity" \/ status # "fail"
      PROVE  Unfailed(Put(a, name, status))
  <2>1. Named(Put(a, name, status)) BY RowsAreNamed DEF Unfailed
  <2>2. Put(a, name, status).rows = [a.rows EXCEPT ![name] = status] BY DEF Put, Unfailed, Named, IsReport
  <2> QED BY <1>1, <2>1, <2>2 DEF Unfailed, Display
<1>2. ASSUME NEW name \in Others PROVE Unfailed(Fail(a, name))
  <2>1. Named(Fail(a, name)) BY RowsAreNamed DEF Unfailed, Others
  <2> DEFINE failed == Put(a, name, "fail")
  <2>2. Unfailed(failed) BY <1>1 DEF Others
  <2>3. Fail(a, name) = IF a.result = "invalid" THEN failed
                        ELSE [failed EXCEPT !.result = "invalid", !.reason = name]
    BY DEF Fail
  <2> HIDE DEF failed
  <2>4. Fail(a, name).rows = failed.rows BY <2>2, <2>3 DEF Unfailed, Named, IsReport
  <2> QED BY <2>1, <2>2, <2>4 DEF Unfailed
<1>3. ASSUME NEW name \in Display PROVE Unfailed(Incomplete(a, name))
  <2>1. Named(Incomplete(a, name)) BY RowsAreNamed DEF Unfailed
  <2> DEFINE warned == Put(a, name, "warn")
  <2>2. Unfailed(warned) BY <1>1
  <2>3. Incomplete(a, name) =
          IF a.result = "valid" THEN [warned EXCEPT !.result = "incomplete", !.reason = name] ELSE warned
    BY DEF Incomplete
  <2> HIDE DEF warned
  <2>4. Incomplete(a, name).rows = warned.rows BY <2>2, <2>3 DEF Unfailed, Named, IsReport
  <2> QED BY <2>1, <2>2, <2>4 DEF Unfailed
<1>4. Unfailed(NotEvaluated(a))
  <2>1. Named(NotEvaluated(a)) BY RowsAreNamed DEF Unfailed, Display
  <2>2. NotEvaluated(a).rows = [n \in Display |-> IF a.rows[n] = "unset" THEN "skipped" ELSE a.rows[n]]
    BY DEF NotEvaluated, Unfailed, Named, IsReport
  <2> QED BY <2>1, <2>2 DEF Unfailed, Display
<1>5. ASSUME NEW name \in Others, NEW status PROVE Unfailed(Judge(a, name, status))
  <2>1. name \in Display /\ name # "Identity" BY DEF Others
  <2>2. Unfailed(Put(a, name, status)) BY <1>1, <2>1
  <2>3. Unfailed(Fail(a, name)) BY <1>2
  <2> QED BY <2>2, <2>3 DEF Judge
<1> QED BY <1>1, <1>2, <1>3, <1>4, <1>5

LEMMA UnjudgedIsUnfailed == Unfailed(Unjudged)
BY DEF Unfailed, Named, IsReport, Unjudged, None, Display

LEMMA ReportsAreUnfailed ==
  ASSUME NEW a, Unfailed(a), NEW failure \in {"none", "Integrity", "Factory", "Checks", "Outputs"}
  PROVE  Unfailed(PolicyRow(a)) /\ Unfailed(Structural(a, failure)) /\ Unfailed(ChangeRow(a))
<1>1. Unfailed(PolicyRow(a))
  <2>1. PolicyRow(a) = Incomplete(a, "Policy")
        \/ \E status \in {"warn", "info", "pass"} : PolicyRow(a) = Put(a, "Policy", status)
    BY DEF PolicyRow
  <2> QED BY <2>1, RowsAreUnfailed DEF Display
<1>2. Unfailed(Structural(a, failure))
  <2> DEFINE Rank(n) == CHOOSE i \in DOMAIN Structure : Structure[i] = n
             Status(n) == CASE failure = "none" \/ Rank(n) < Rank(failure) -> "pass"
                            [] OTHER -> "skipped"
             rows == [n \in Display |-> IF n \in Range(Structure) THEN Status(n) ELSE a.rows[n]]
             told == [a EXCEPT !.rows = rows]
  <2>1. Structural(a, failure) = IF failure = "none" THEN told ELSE Fail(told, failure)
    BY Zenon DEF Structural
  <2>2. "Identity" \notin Range(Structure) BY DEF Range, Structure
  <2>3. rows = [n \in Display |-> rows[n]] /\ rows["Identity"] = a.rows["Identity"]
    BY <2>2 DEF Display
  <2> HIDE DEF rows
  <2>4. Unfailed(told) BY <2>3 DEF Unfailed, Named, IsReport
  <2> HIDE DEF told
  <2>5. failure # "none" => failure \in Others BY DEF Others, Display
  <2> QED BY <2>1, <2>4, <2>5, RowsAreUnfailed
<1>3. Unfailed(ChangeRow(a))
  <2>1. ChangeRow(a) \in {Fail(a, "Outputs"), Incomplete(a, "Outputs"), Put(a, "Outputs", "pass")}
    BY DEF ChangeRow
  <2> QED BY <2>1, RowsAreUnfailed DEF Others, Display
<1> QED BY <1>1, <1>2, <1>3

LEMMA RulesAreUnfailed ==
  ASSUME NEW a, Unfailed(a), NEW answer
  PROVE  Unfailed(PolicyRows(a, answer))
<1> DEFINE factory == FactoryRow(a)
           dependencies == DependenciesRow(factory, answer)
<1>1. Unfailed(factory) BY RowsAreUnfailed DEF FactoryRow, Others, Display
<1> HIDE DEF factory
<1>2. Unfailed(dependencies)
  <2>1. \/ dependencies = Put(factory, "Dependencies", "skipped")
        \/ dependencies = Incomplete(factory, "Dependencies")
        \/ dependencies = Judge(factory, "Dependencies", Dependencies(answer))
    BY DEF DependenciesRow
  <2> HIDE DEF dependencies
  <2> QED BY <1>1, <2>1, RowsAreUnfailed DEF Others, Display
<1> HIDE DEF dependencies
<1>3. PICK verdict : RevocationRow(dependencies) = Judge(dependencies, "Revocation", verdict)
  BY DEF RevocationRow
<1>4. PolicyRows(a, answer) = RevocationRow(dependencies) BY DEF PolicyRows, dependencies, factory
<1> QED BY <1>2, <1>3, <1>4, RowsAreUnfailed DEF Others, Display

\* Only a signature that is wanting, or the wrong one, fails the row
LEMMA IdentityIsUnfailed ==
  ASSUME NEW a, Unfailed(a), NEW status
  PROVE  /\ Named(IdentityRow(a, status))
         /\ status \notin {"unsigned", "mismatch"} => Unfailed(IdentityRow(a, status))
<1> DEFINE put == Put(a, "Identity", "pass")
<1>1. Unfailed(put) BY RowsAreUnfailed DEF Display
<1>2. Unfailed([put EXCEPT !.signer = Summed.cert.workflow])
  <2> HIDE DEF put
  <2> QED BY <1>1 DEF Unfailed, Named, IsReport
<1>3. CASE status = "signed"
  <2>1. IdentityRow(a, status) = [put EXCEPT !.signer = Summed.cert.workflow] BY <1>3 DEF IdentityRow
  <2> QED BY <1>2, <2>1 DEF Unfailed
<1>4. CASE status \in {"unsigned", "mismatch"}
  <2>1. \E verdict : IdentityRow(a, status) = Judge(a, "Identity", verdict) BY <1>4 DEF IdentityRow
  <2> QED BY <1>4, <2>1, RowsAreNamed DEF Unfailed, Display
<1>5. CASE status \notin {"signed", "unsigned", "mismatch"}
  <2>1. IdentityRow(a, status) \in {Incomplete(a, "Identity"), Put(a, "Identity", "warn")}
    BY <1>5 DEF IdentityRow
  <2>2. Unfailed(IdentityRow(a, status)) BY <2>1, RowsAreUnfailed DEF Display
  <2> QED BY <2>2 DEF Unfailed
<1> QED BY <1>3, <1>4, <1>5

-----------------------------------------------------------------------------
(* What is called invalid *)

\* What a report says of the signature is so in the store
ReportIsTrue ==
  Gate =>
    /\ place # "done" => Unfailed(audit)
    /\ place = "done" /\ audit.rows["Identity"] = "fail" /\ Sought # {} => NoneCovers
    /\ place = "done" /\ audit.reason = "not_a_delivery" => NoneAttested

DefiniteInv == PullIsKnown /\ LookupIsTrue /\ CheckIsTrue /\ ReportIsTrue

\* A report ends the audit that says nothing of the signature, or what is so
LEMMA EndsUnfailed ==
  ASSUME NEW a, Unfailed(a), audit' = a, place' = "done"
  PROVE  ReportIsTrue' /\ LookupIsTrue' /\ CheckIsTrue'
BY DEF Unfailed, Named, ReportIsTrue, LookupIsTrue, CheckIsTrue

LEMMA EndsTrue ==
  ASSUME NEW a, Named(a), audit' = a, place' = "done", Same, NoneCovers
  PROVE  ReportIsTrue' /\ LookupIsTrue' /\ CheckIsTrue'
BY SameStore DEF Named, ReportIsTrue, LookupIsTrue, CheckIsTrue

\* A step that only judges
LEMMA GoesOn ==
  ASSUME NEW a, Unfailed(a), audit' = a, place' \notin {"done", "lookup", "check"}
  PROVE  ReportIsTrue' /\ LookupIsTrue' /\ CheckIsTrue'
BY DEF ReportIsTrue, LookupIsTrue, CheckIsTrue

\* Outside of the gate nothing is said of it
LEMMA NotOfGate ==
  ASSUME ~Gate, world' = world
  PROVE  ReportIsTrue' /\ LookupIsTrue' /\ CheckIsTrue'
BY DEF Gate, ReportIsTrue, LookupIsTrue, CheckIsTrue

LEMMA LookUpIsTrue ==
  ASSUME DefiniteInv, LookIsHonest, Gate, NEW question \in look.left, LookUp(question)
  PROVE  ReportIsTrue' /\ LookupIsTrue' /\ CheckIsTrue'
<1> DEFINE asked == [look EXCEPT !.left = @ \ {question}, !.asked = @ + 1]
<1>1. place = "lookup" /\ Same BY DEF LookUp, Audited, Same
<1>2. Unfailed(audit) BY <1>1 DEF DefiniteInv, ReportIsTrue
<1>3. CASE Go("check", audit) /\ look' = AskOf(FilesFrom(question.path))
  <2>1. look'.files = FilesFrom(question.path) /\ look'.signers = Signers
    BY <1>3 DEF AskOf, NothingAsked
  <2>2. question.path \in Sought BY <1>1 DEF DefiniteInv, LookupIsTrue, Questions
  <2>3. look'.files[1] \in Sought' BY <1>1, <2>1, <2>2, FirstOfFiles, SameStore DEF DefiniteInv
  <2>4. CheckIsTrue' BY <1>1, <2>1, <2>3, SameStore DEF CheckIsTrue
  <2> QED BY <1>2, <1>3, <2>4 DEF Go, ReportIsTrue, LookupIsTrue
<1>4. CASE Go("done", NotEvaluated(Fail(audit, "Outputs")))
  <2>1. Unfailed(Fail(audit, "Outputs")) BY <1>2, RowsAreUnfailed DEF Others, Display
  <2>2. Unfailed(NotEvaluated(Fail(audit, "Outputs"))) BY <2>1, RowsAreUnfailed
  <2> QED BY <1>4, <2>2, EndsUnfailed DEF Go
<1>5. CASE /\ Listed(pull.head[question.path], question.repo) = {}
           /\ look' = asked /\ UNCHANGED <<audit, place>>
  <2>1. look'.left = look.left \ {question} /\ look'.unanswered = look.unanswered
    BY <1>5 DEF LookIsHonest, LookIsRecord
  <2>2. LookupIsTrue'
    <3>1. SUFFICES ASSUME TRUE
                   PROVE  /\ look'.left \subseteq Questions
                          /\ ~look'.unanswered =>
                               /\ \A s \in Signers : Home(s) # None
                               /\ \A q \in Questions \ look'.left : Listed(pull.head[q.path], q.repo) = {}
      BY <1>1, SameStore DEF LookupIsTrue, Same
    <3> QED BY <1>1, <1>5, <2>1 DEF DefiniteInv, LookupIsTrue
  <2> QED BY <1>1, <1>2, <1>5, <2>2 DEF ReportIsTrue, CheckIsTrue
<1>6. CASE look' = Unanswered(asked) /\ UNCHANGED <<audit, place>>
  <2>1. look'.left = look.left \ {question} /\ look'.unanswered
    BY <1>6 DEF LookIsHonest, LookIsRecord, Unanswered
  <2>2. LookupIsTrue' BY <1>1, <2>1, SameStore DEF DefiniteInv, LookupIsTrue
  <2> QED BY <1>1, <1>2, <1>6, <2>2 DEF ReportIsTrue, CheckIsTrue
<1> QED BY <1>3, <1>4, <1>5, <1>6 DEF LookUp

LEMMA CheckSignerIsTrue ==
  ASSUME DefiniteInv, LookIsHonest, Gate, NEW signer \in look.signers, CheckSigner(signer)
  PROVE  ReportIsTrue' /\ LookupIsTrue' /\ CheckIsTrue'
<1>1. place = "check" /\ Same /\ UNCHANGED <<place, audit>> BY DEF CheckSigner, Audited, Same
<1>2. ReportIsTrue' /\ LookupIsTrue' BY <1>1, SameStore DEF DefiniteInv, ReportIsTrue, LookupIsTrue
<1>3. CASE NoneCovers BY <1>1, <1>2, <1>3, SameStore DEF CheckIsTrue
<1>4. CASE ~NoneCovers
  <2>1. /\ look.files[1] \in Sought
        /\ look.summary = {} =>
             \A s \in Signers \ look.signers : look.unanswered \/ look.unresolved \/ NoneOf(s)
    BY <1>1, <1>4 DEF DefiniteInv, CheckIsTrue
  <2>2. CASE look' = [Unanswered(look) EXCEPT !.signers = @ \ {signer}]
    <3>1. look'.unanswered /\ look'.files = look.files
      BY <2>2 DEF LookIsHonest, LookIsRecord, Unanswered
    <3> QED BY <1>1, <1>2, <2>1, <3>1, SameStore DEF CheckIsTrue
  <2>3. CASE \E tags \in BOOLEAN : look' \in Weigh(Content(look.files[1]), signer, tags)
    <3>1. PICK tags \in BOOLEAN : look' \in Weigh(pull.head[look.files[1]], signer, tags)
      BY <2>3 DEF Content
    <3>2. look'.summary = {} =>
            /\ look.summary = {} /\ look'.signers = look.signers \ {signer} /\ look'.files = look.files
            /\ look.unanswered => look'.unanswered
            /\ look.unresolved => look'.unresolved
            /\ look'.unresolved \/ NoneOf(signer)
      BY <2>1, <3>1, WeighIsTrue DEF DefiniteInv
    <3>3. look'.files = look.files BY <3>1, WeighKeepsFiles
    <3>4. look'.summary = {} =>
            \A s \in Signers \ look'.signers : look'.unanswered \/ look'.unresolved \/ NoneOf(s)
      BY <2>1, <3>2
    <3> QED BY <1>1, <1>2, <2>1, <3>3, <3>4, SameStore DEF CheckIsTrue
  <2> QED BY <2>2, <2>3 DEF CheckSigner
<1> QED BY <1>3, <1>4

\* When every signer answered, and none has a summary that passes, none has any
LEMMA AllAnswered ==
  ASSUME DefiniteInv, Gate, place = "check", look.signers = {}, IdentityStatus \in {"unsigned", "mismatch"}
  PROVE  NoneCovers
<1>1. look.summary = {} /\ ~look.unanswered /\ ~look.unresolved BY DEF IdentityStatus
<1> QED BY <1>1 DEF DefiniteInv, CheckIsTrue, NoneCovers

LEMMA TrueStep ==
  ASSUME DefiniteInv, LookIsHonest, [Next]_vars
  PROVE  ReportIsTrue' /\ LookupIsTrue' /\ CheckIsTrue'
<1>0. SUFFICES ASSUME Gate PROVE ReportIsTrue' /\ LookupIsTrue' /\ CheckIsTrue'
  BY WorldStays, NotOfGate
<1>1. CASE /\ UNCHANGED audit /\ place # "done"
           /\ place' \notin {"done", "lookup", "check"}
  BY <1>0, <1>1, GoesOn DEF DefiniteInv, ReportIsTrue
<1>2. AttestBundle \/ AttestSummary \/ Deliver \/ Amend \/ Advance \/ Rebase \/ StartAudit
        \/ ResolvePolicy \/ GateRaises => ReportIsTrue' /\ LookupIsTrue' /\ CheckIsTrue'
  BY <1>1 DEF AttestBundle, AttestSummary, Deliver, Amend, Advance, Rebase, StartAudit, ResolvePolicy,
              GateRaises, Resolved
<1>3. CASE GateClosed
  <2> DEFINE row == PolicyRow(Unjudged)
  <2>1. Unfailed(row) BY UnjudgedIsUnfailed, ReportsAreUnfailed
  <2>2. Finish(NotEvaluated(row)) \/ Finish(NotEvaluated(Incomplete(row, "Identity")))
    BY <1>3 DEF GateClosed
  <2> HIDE DEF row
  <2>3. Unfailed(Incomplete(row, "Identity")) BY <2>1, RowsAreUnfailed DEF Display
  <2> QED BY <2>1, <2>2, <2>3, RowsAreUnfailed, EndsUnfailed DEF Finish
<1>4. CASE StartGate
  <2>1. Same /\ place' = "lookup" /\ audit' = PolicyRow(Unjudged) /\ look' = LookingUp
    BY <1>4 DEF StartGate, Audited, Same, Go
  <2>2. Unfailed(audit') BY <2>1, UnjudgedIsUnfailed, ReportsAreUnfailed
  <2>3. look'.left = Questions /\ look'.unanswered = (\E s \in Signers : Home(s) = None)
    BY <2>1 DEF LookingUp, NothingAsked
  <2>4. LookupIsTrue' BY <2>1, <2>3, SameStore DEF LookupIsTrue
  <2> QED BY <2>1, <2>2, <2>4 DEF ReportIsTrue, CheckIsTrue
<1>5. CASE TooMany
  <2>1. Unfailed(audit) BY <1>0, <1>5 DEF TooMany, DefiniteInv, ReportIsTrue
  <2>2. Unfailed(Incomplete(audit, "Identity")) BY <2>1, RowsAreUnfailed DEF Display
  <2> QED BY <1>5, <2>2, RowsAreUnfailed, EndsUnfailed DEF TooMany, Finish
<1>6. CASE NotDelivered
  <2> DEFINE refused == [Fail(audit, "Identity") EXCEPT !.reason = "not_a_delivery"]
  <2>1. /\ place = "lookup" /\ look.left = {} /\ Same
        /\ Finish(NotEvaluated(IF look.unanswered THEN Incomplete(audit, "Identity") ELSE refused))
    BY <1>6 DEF NotDelivered, Audited, Same
  <2>2. Unfailed(audit) BY <1>0, <2>1 DEF DefiniteInv, ReportIsTrue
  <2> HIDE DEF refused
  <2>3. CASE look.unanswered
    <3>1. Unfailed(Incomplete(audit, "Identity")) BY <2>2, RowsAreUnfailed DEF Display
    <3> QED BY <2>1, <2>3, <3>1, RowsAreUnfailed, EndsUnfailed DEF Finish
  <2>4. CASE ~look.unanswered
    <3>1. NoneAttested /\ (Sought # {} => NoneCovers)
      BY <1>0, <2>1, <2>4, NothingAttested DEF DefiniteInv
    <3> QED BY <2>1, <3>1, SameStore DEF Finish, ReportIsTrue, LookupIsTrue, CheckIsTrue
  <2> QED BY <2>3, <2>4
<1>7. CASE \E question \in look.left : LookUp(question) BY <1>0, <1>7, LookUpIsTrue
<1>8. CASE \E signer \in look.signers : CheckSigner(signer) BY <1>0, <1>8, CheckSignerIsTrue
<1>9. CASE TryNextFile
  <2>1. Same /\ place = "check" /\ UNCHANGED <<place, audit>> /\ look.signers = {}
    BY <1>9 DEF TryNextFile, AllAsked, Audited, Same
  <2>2. NoneCovers BY <1>0, <1>9, <2>1, AllAnswered DEF TryNextFile
  <2> QED BY <2>1, <2>2, SameStore DEF DefiniteInv, ReportIsTrue, LookupIsTrue, CheckIsTrue
<1>10. CASE GateUnsigned
  <2>1. Same /\ place = "check" /\ look.signers = {} /\ Finish(NotEvaluated(Fail(audit, "Identity")))
    BY <1>10 DEF GateUnsigned, AllAsked, Audited, Same
  <2>2. NoneCovers BY <1>0, <1>10, <2>1, AllAnswered DEF GateUnsigned
  <2>3. Named(audit) BY <1>0, <2>1 DEF DefiniteInv, ReportIsTrue, Unfailed
  <2>4. Named(NotEvaluated(Fail(audit, "Identity"))) BY <2>3, RowsAreNamed DEF Display
  <2> QED BY <2>1, <2>2, <2>4, EndsTrue DEF Finish
<1>11. CASE GateUndecided
  <2> DEFINE row == IdentityRow(audit, IdentityStatus)
             last == IF row.result = "valid" THEN Incomplete(row, "Identity") ELSE row
  <2>1. Same /\ place = "check" /\ look.signers = {} /\ Finish(NotEvaluated(last))
    BY <1>11 DEF GateUndecided, AllAsked, Audited, Same
  <2>2. Unfailed(audit) BY <1>0, <2>1 DEF DefiniteInv, ReportIsTrue
  <2>3. IdentityStatus \notin {"signed", "unsigned"} BY <1>11 DEF GateUndecided
  <2>4. CASE IdentityStatus = "mismatch"
    <3>1. NoneCovers BY <1>0, <2>1, <2>4, AllAnswered
    <3>2. Named(row) BY <2>2, IdentityIsUnfailed
    <3> HIDE DEF row
    <3>3. Named(NotEvaluated(last)) BY <3>2, RowsAreNamed DEF Display
    <3> QED BY <2>1, <3>1, <3>3, EndsTrue DEF Finish
  <2>5. CASE IdentityStatus # "mismatch"
    <3>1. Unfailed(row) BY <2>2, <2>3, <2>5, IdentityIsUnfailed
    <3> HIDE DEF row
    <3>2. Unfailed(last) BY <3>1, RowsAreUnfailed DEF Display
    <3>3. Unfailed(NotEvaluated(last)) BY <3>2, RowsAreUnfailed
    <3> QED BY <2>1, <3>3, EndsUnfailed DEF Finish
  <2> QED BY <2>4, <2>5
<1>12. CASE GateFetches
  <2> DEFINE row == IdentityRow(audit, "signed")
  <2>1. Unfailed(audit) BY <1>0, <1>12 DEF GateFetches, AllAsked, DefiniteInv, ReportIsTrue
  <2>2. Unfailed(row) BY <2>1, IdentityIsUnfailed
  <2>3. Go("inspect", row) \/ Finish(NotEvaluated(Fail(row, "Integrity"))) BY <1>12 DEF GateFetches
  <2> HIDE DEF row
  <2>4. Unfailed(Fail(row, "Integrity")) BY <2>2, RowsAreUnfailed DEF Others, Display
  <2>5. Unfailed(NotEvaluated(Fail(row, "Integrity"))) BY <2>4, RowsAreUnfailed
  <2> QED BY <2>2, <2>3, <2>5, GoesOn, EndsUnfailed DEF Go, Finish
<1>13. CASE FetchFails
  <2> DEFINE row == IdentityRow(audit, "signed")
  <2>1. Unfailed(audit) BY <1>0, <1>13 DEF FetchFails, DefiniteInv, ReportIsTrue
  <2>2. Unfailed(row) BY <2>1, IdentityIsUnfailed
  <2>3. \/ Finish(NotEvaluated(Incomplete(row, "Integrity")))
        \/ place' = "raised" /\ audit' = audit
    BY <1>13 DEF FetchFails
  <2> HIDE DEF row
  <2>4. Unfailed(Incomplete(row, "Integrity")) BY <2>2, RowsAreUnfailed DEF Display
  <2>5. Unfailed(NotEvaluated(Incomplete(row, "Integrity"))) BY <2>4, RowsAreUnfailed
  <2> QED BY <2>1, <2>3, <2>5, EndsUnfailed, GoesOn DEF Finish
<1>14. CASE InspectReceipt
  <2> DEFINE failure == Inspect(receipt, Retained)
             row == Structural(audit, failure)
  <2>1. Unfailed(audit) BY <1>0, <1>14 DEF InspectReceipt, DefiniteInv, ReportIsTrue
  <2>2. failure \in {"none", "Integrity", "Factory", "Checks", "Outputs"} BY DEF Inspect
  <2> HIDE DEF failure
  <2>3. Unfailed(row) BY <2>1, <2>2, ReportsAreUnfailed
  <2>4. place' = "rules" /\ audit' \in {row, Fail(row, "Outputs"), ChangeRow(row), Incomplete(row, "Outputs")}
    BY <1>14 DEF InspectReceipt, Go, failure
  <2> HIDE DEF row
  <2>5. Unfailed(ChangeRow(row)) BY <2>3, ReportsAreUnfailed
  <2>6. Unfailed(Fail(row, "Outputs")) /\ Unfailed(Incomplete(row, "Outputs"))
    BY <2>3, RowsAreUnfailed DEF Others, Display
  <2>7. Unfailed(audit') BY <2>3, <2>4, <2>5, <2>6
  <2> QED BY <2>4, <2>7, GoesOn
<1>15. CASE JudgeRules
  <2>1. PICK answer : audit' = PolicyRows(audit, answer) /\ place' = "done"
    BY <1>0, <1>15 DEF JudgeRules, Go
  <2>2. Unfailed(audit) BY <1>0, <1>15 DEF JudgeRules, DefiniteInv, ReportIsTrue
  <2> QED BY <2>1, <2>2, RulesAreUnfailed, EndsUnfailed
<1>16. CASE UNCHANGED vars
  <2>1. Same /\ UNCHANGED <<look, audit, place>> BY <1>16 DEF vars, Same, policyVars
  <2>2. LookupIsTrue' BY <2>1, SameStore DEF DefiniteInv, LookupIsTrue, Same
  <2>3. CheckIsTrue' BY <2>1, SameStore DEF DefiniteInv, CheckIsTrue
  <2>4. ReportIsTrue' BY <2>1, SameStore DEF DefiniteInv, ReportIsTrue
  <2> QED BY <2>2, <2>3, <2>4
<1>17. ~StartBundle /\ ~BundleIdentity BY <1>0 DEF StartBundle, BundleIdentity
<1> QED BY <1>2, <1>3, <1>4, <1>5, <1>6, <1>7, <1>8, <1>9, <1>10, <1>11, <1>12, <1>13, <1>14, <1>15,
           <1>16, <1>17 DEF Next

\* A summary that someone trusted vouches for, one of the trusted does
LEMMA VouchedByOne ==
  ASSUME NEW a, Vouched(a, Signers)
  PROVE  \E s \in Signers : Vouched(a, {s})
BY DEF Vouched

LEMMA DefiniteInit == Init => DefiniteInv
<1> SUFFICES ASSUME Init PROVE DefiniteInv OBVIOUS
<1>1. PullIsKnown BY DEF Init, PullIsKnown
<1> QED BY <1>1, UnjudgedIsUnfailed DEF Init, DefiniteInv, LookupIsTrue, CheckIsTrue, ReportIsTrue

\* A lookup that stayed unanswered is no reason to refuse: the gate calls a pull
\* request no delivery only if GitHub shows nothing of any file, and its signature
\* wanting only if no summary that covers it is on the first page of each (carries,
\* _attestations, verify and the last lines of run_gate).
THEOREM InvalidDefinite == Spec => []InvalidIsDefinite
<1>1. Init => SignedInv /\ DefiniteInv BY SignedInit, DefiniteInit
<1>2. SignedInv /\ DefiniteInv /\ [Next]_vars => SignedInv' /\ DefiniteInv'
  BY PolicyStep, SignedStep, ChainStep, PullStep, TrueStep DEF SignedInv, DefiniteInv
<1>3. DefiniteInv => InvalidIsDefinite
  <2>1. SUFFICES ASSUME DefiniteInv, Gate, place = "done", audit.rows["Identity"] = "fail"
                 PROVE  /\ audit.reason = "not_a_delivery" => NoneAttested
                        /\ ~\E a \in store : /\ Vouched(a, Signers) /\ Covers(a.doc)
                                             /\ Shown(a) /\ Sought # {}
    BY DEF InvalidIsDefinite, NoneAttested
  <2>2. audit.reason = "not_a_delivery" => NoneAttested BY <2>1 DEF DefiniteInv, ReportIsTrue
  <2>3. ASSUME NEW a \in store, Vouched(a, Signers), Covers(a.doc), Shown(a), Sought # {} PROVE FALSE
    <3>1. NoneCovers BY <2>1, <2>3 DEF DefiniteInv, ReportIsTrue
    <3> QED BY <2>3, <3>1, VouchedByOne DEF NoneCovers, NoneOf
  <2> QED BY <2>2, <2>3
<1> QED BY <1>1, <1>2, <1>3, PTL DEF Spec

-----------------------------------------------------------------------------
(* Induction over the naturals, as a set of numbers *)

LEMMA Induct ==
  ASSUME NEW S, 0 \in S, \A n \in Nat : n \in S => n + 1 \in S
  PROVE  Nat \subseteq S
<1> SUFFICES ASSUME Nat \ S # {} PROVE FALSE OBVIOUS
<1>1. PICK n \in Nat \ S : \A m \in Nat \ S : n <= m BY LeastOf
<1>2. n - 1 \in Nat /\ n - 1 \notin Nat \ S BY <1>1
<1> QED BY <1>1, <1>2

-----------------------------------------------------------------------------
(* The statements of a receipt *)

\* Sequences of elements of E, one after another, have elements of E
LEMMA FlattenIs ==
  ASSUME NEW E, NEW seqs \in Seq(Seq(E))
  PROVE  FlattenSeq(seqs) \in Seq(E)
<1> DEFINE V(f, i) == IF i = 1 THEN seqs[i] ELSE f[i - 1] \o seqs[i]
           Is(f, n) == f = [i \in 1 .. n |-> V(f, i)]
           upTo(n) == CHOOSE f : Is(f, n)
           S == {n \in Nat : Is(upTo(n), n)}
<1>1. 0 \in S
  <2> DEFINE g == [i \in 1 .. 0 |-> 0]
  <2>1. Is(g, 0) OBVIOUS
  <2> HIDE DEF Is
  <2> QED BY <2>1
<1>2. ASSUME NEW n \in Nat, n \in S PROVE n + 1 \in S
  <2> DEFINE g == upTo(n)
             h == [i \in 1 .. n + 1 |-> V(g, i)]
  <2>1. Is(g, n) BY <1>2
  <2> HIDE DEF g
  <2>2. \A i \in 1 .. n : g[i] = V(g, i) BY <2>1
  <2>3. \A i \in 1 .. n : h[i] = g[i]
    <3> TAKE i \in 1 .. n
    <3>1. i \in 1 .. n + 1 OBVIOUS
    <3> HIDE DEF V
    <3> QED BY <2>2, <3>1
  <2>4. \A i \in 1 .. n + 1 : V(h, i) = V(g, i)
    <3> TAKE i \in 1 .. n + 1
    <3>1. CASE i = 1 BY <3>1
    <3>2. CASE i # 1
      <4>1. i - 1 \in 1 .. n BY <3>2
      <4>2. h[i - 1] = g[i - 1] BY <2>3, <4>1
      <4> HIDE DEF h
      <4> QED BY <4>2
    <3> QED BY <3>1, <3>2
  <2>5. Is(h, n + 1)
    <3>1. h = [i \in 1 .. n + 1 |-> h[i]] /\ \A i \in 1 .. n + 1 : h[i] = V(g, i) OBVIOUS
    <3> HIDE DEF h, V
    <3> QED BY <2>4, <3>1
  <2> HIDE DEF h, Is
  <2>6. Is(upTo(n + 1), n + 1) BY <2>5
  <2> HIDE DEF upTo
  <2> QED BY <2>6
<1>3. Nat \subseteq S BY <1>1, <1>2, Induct
<1> DEFINE size == Len(seqs)
           flat == upTo(size)
<1>4. size \in Nat OBVIOUS
<1>5. \A i \in 1 .. size : flat[i] = V(flat, i)
  <2>1. Is(flat, size)
    <3> HIDE DEF Is, upTo
    <3> QED BY <1>3, <1>4
  <2> HIDE DEF flat
  <2> QED BY <2>1
<1> DEFINE A == {k \in Nat : k + 1 <= size => flat[k + 1] \in Seq(E)}
<1> HIDE DEF flat
<1>6. 0 \in A
  <2>1. 1 <= size => flat[1] = seqs[1] BY <1>4, <1>5
  <2> QED BY <2>1
<1>7. ASSUME NEW k \in Nat, k \in A PROVE k + 1 \in A
  <2>1. SUFFICES ASSUME k + 2 <= size PROVE flat[k + 2] \in Seq(E) BY <1>4
  <2>2. flat[k + 1] \in Seq(E) BY <1>4, <1>7, <2>1
  <2>3. k + 2 \in 1 .. size /\ k + 2 # 1 /\ (k + 2) - 1 = k + 1 BY <1>4, <2>1
  <2>4. flat[k + 2] = flat[k + 1] \o seqs[k + 2] BY <1>5, <2>3
  <2>5. seqs[k + 2] \in Seq(E) BY <2>3
  <2> QED BY <2>2, <2>4, <2>5
<1>8. Nat \subseteq A BY <1>6, <1>7, Induct
<1>9. CASE size = 0
  <2>1. FlattenSeq(seqs) = seqs /\ seqs = <<>> BY <1>9 DEF FlattenSeq
  <2> QED BY <2>1
<1>10. CASE size # 0
  <2>1. FlattenSeq(seqs) = flat[size]
    <3>1. Len(seqs) # 0 BY <1>10
    <3>2. FlattenSeq(seqs) = (CHOOSE f : f = [i \in 1 .. Len(seqs) |-> IF i = 1 THEN seqs[i] ELSE f[i - 1] \o seqs[i]])[Len(seqs)]
      BY <3>1, Zenon DEF FlattenSeq
    <3> QED BY <3>2 DEF flat
  <2>2. size - 1 \in Nat BY <1>4, <1>10
  <2>3. size - 1 \in A BY <1>8, <2>2
  <2> HIDE DEF size
  <2>4. (size - 1) + 1 <= size => flat[(size - 1) + 1] \in Seq(E) BY <2>3
  <2>5. (size - 1) + 1 = size BY <1>4
  <2>6. flat[size] \in Seq(E) BY <1>4, <2>4, <2>5
  <2> QED BY <2>1, <2>6
<1> QED BY <1>9, <1>10


LEMMA IsSequence ==
  ASSUME NEW E, NEW n \in Nat, NEW f, f = [i \in 1 .. n |-> f[i]], \A i \in 1 .. n : f[i] \in E
  PROVE  f \in Seq(E)
OBVIOUS

\* A receipt begins with its provenance and has no summary
IsReceiptOf(bundle, provenance) ==
  /\ bundle \in Seq(Range(bundle)) /\ Len(bundle) >= 2
  /\ bundle[1] = provenance /\ provenance.kind = "provenance"
  /\ \A i \in 2 .. Len(bundle) : bundle[i].kind \in {"test", "bom"}

LEMMA ExportIsReceipt ==
  ASSUME NEW stages, stages \in Seq(Range(stages)),
         \A stage \in Range(stages) : stage.checks \in Seq(Range(stage.checks)),
         NEW base, NEW lock, NEW commit, Export(stages, base, lock, commit) # <<>>
  PROVE  /\ IsReceiptOf(Export(stages, base, lock, commit),
                        Provenance(stages, Delivery(stages, base), lock, commit))
         /\ DOMAIN Delivery(stages, base).files # {}
         /\ Last(Export(stages, base, lock, commit)) = Inventory(Delivery(stages, base), lock)
         /\ \A s \in Range(Export(stages, base, lock, commit)) :
              s.kind = "bom" => s = Inventory(Delivery(stages, base), lock)
<1> DEFINE delivery == Delivery(stages, base)
           Tests(i) == [k \in DOMAIN stages[i].checks |->
                          TestResult(stages, delivery, lock, stages[i].contract, stages[i].checks[k])]
           E == UNION {Range(Tests(i)) : i \in DOMAIN stages}
           tests == FlattenSeq([i \in DOMAIN stages |-> Tests(i)])
           first == Provenance(stages, delivery, lock, commit)
           last == Inventory(delivery, lock)
           bundle == Export(stages, base, lock, commit)
<1>1. DOMAIN delivery.files # {} /\ bundle = <<first>> \o tests \o <<last>> BY Zenon DEF Export
<1>2. ASSUME NEW e \in E PROVE e.kind = "test"
  <2>1. PICK i \in DOMAIN stages : e \in Range(Tests(i)) OBVIOUS
  <2>2. PICK k \in DOMAIN Tests(i) : e = Tests(i)[k] BY <2>1 DEF Range
  <2> QED BY <2>2 DEF TestResult
<1>3. first.kind = "provenance" /\ last.kind = "bom" BY DEF Provenance, Inventory
<1>4. ASSUME NEW i \in DOMAIN stages PROVE Tests(i) \in Seq(E)
  <2>1. stages[i] \in Range(stages) BY DEF Range
  <2>2. stages[i].checks \in Seq(Range(stages[i].checks)) BY <2>1
  <2>3. DOMAIN Tests(i) = 1 .. Len(stages[i].checks) /\ Len(stages[i].checks) \in Nat BY <2>2
  <2>4. \A k \in DOMAIN Tests(i) : Tests(i)[k] \in Range(Tests(i)) BY DEF Range
  <2>5. \A k \in DOMAIN Tests(i) : Tests(i)[k] \in E BY <2>4
  <2>6. Tests(i) = [k \in DOMAIN Tests(i) |-> Tests(i)[k]] OBVIOUS
  <2> DEFINE n == Len(stages[i].checks)
  <2>7. /\ n \in Nat /\ Tests(i) = [k \in 1 .. n |-> Tests(i)[k]]
        /\ \A k \in 1 .. n : Tests(i)[k] \in E
    <3> HIDE DEF Tests, E
    <3> QED BY <2>3, <2>5, <2>6
  <2> HIDE DEF Tests, E, n
  <2> QED BY <2>7, IsSequence
<1>5. [i \in DOMAIN stages |-> Tests(i)] \in Seq(Seq(E))
  <2>1. DOMAIN stages = 1 .. Len(stages) /\ Len(stages) \in Nat OBVIOUS
  <2> HIDE DEF Tests, E
  <2> QED BY <1>4, <2>1
<1>6. tests \in Seq(E)
  <2> HIDE DEF E, Tests
  <2> QED BY <1>5, FlattenIs
<1> HIDE DEF tests, first, last, bundle, E, delivery
<1> DEFINE F == E \cup {first, last}
<1>7. bundle \in Seq(F) /\ Len(bundle) = Len(tests) + 2 /\ bundle[1] = first BY <1>1, <1>6
<1>8. ASSUME NEW i \in 2 .. Len(bundle)
      PROVE  bundle[i].kind \in {"test", "bom"} /\ (bundle[i].kind = "bom" => bundle[i] = last)
  <2>1. i = Len(bundle) => bundle[i] = last BY <1>1, <1>6, <1>7
  <2>2. i # Len(bundle) => bundle[i] \in E
    <3>1. SUFFICES ASSUME i # Len(bundle) PROVE bundle[i] \in E OBVIOUS
    <3>2. i - 1 \in 1 .. Len(tests) BY <1>6, <1>7, <3>1
    <3>3. (<<first>> \o tests) \in Seq(F) /\ Len(<<first>> \o tests) = Len(tests) + 1
          /\ (<<first>> \o tests)[i] = tests[i - 1]
      BY <1>6, <3>2
    <3>4. bundle[i] = tests[i - 1] BY <1>1, <3>2, <3>3
    <3> QED BY <1>6, <3>2, <3>4
  <2> QED BY <1>2, <1>3, <2>1, <2>2
<1>9. bundle \in Seq(Range(bundle)) /\ Len(bundle) >= 2
  <2>1. DOMAIN bundle = 1 .. Len(bundle) /\ Len(bundle) \in Nat /\ Len(bundle) >= 2 BY <1>6, <1>7
  <2>2. \A i \in DOMAIN bundle : bundle[i] \in Range(bundle) BY DEF Range
  <2>3. bundle = [i \in 1 .. Len(bundle) |-> bundle[i]] BY <1>7
  <2> QED BY <2>1, <2>2, <2>3
<1>10. IsReceiptOf(bundle, first) BY <1>3, <1>7, <1>8, <1>9 DEF IsReceiptOf
<1>11. Last(bundle) = last
  <2>1. Len(bundle) \in Nat /\ Last(bundle) = bundle[Len(bundle)] BY <1>7 DEF Last
  <2>2. bundle[Len(bundle)] = last BY <1>1, <1>6, <1>7
  <2> QED BY <2>1, <2>2
<1>12. ASSUME NEW s \in Range(bundle), s.kind = "bom" PROVE s = last
  <2>1. PICK i \in 1 .. Len(bundle) : s = bundle[i] BY <1>7 DEF Range
  <2>2. i # 1 BY <1>3, <1>7, <1>12, <2>1
  <2> QED BY <1>8, <1>12, <2>1, <2>2
<1> QED BY <1>1, <1>10, <1>11, <1>12 DEF bundle, first, last, delivery

\* Where a delivery came from a base without the files, its checks and skills are the same
LEMMA AgedIs ==
  ASSUME NEW stages, stages \in Seq(Range(stages)), \A stage \in Range(stages) : IsStage(stage),
         NEW lock
  PROVE  /\ Aged(stages) \in Seq(Range(Aged(stages)))
         /\ \A stage \in Range(Aged(stages)) : stage.checks \in Seq(Range(stage.checks))
         /\ Definition(Aged(stages), lock) = Definition(stages, lock)
         /\ Skills(Aged(stages)) = Skills(stages)
<1> DEFINE aged == Aged(stages)
<1>1. DOMAIN aged = 1 .. Len(stages) /\ DOMAIN stages = 1 .. Len(stages) /\ Len(stages) \in Nat
  BY DEF Aged
<1>2. ASSUME NEW i \in DOMAIN stages
      PROVE  /\ aged[i].checks = stages[i].checks /\ aged[i].contract = stages[i].contract
             /\ aged[i].skills = stages[i].skills
             /\ {o.name : o \in Range(aged[i].outputs)} = {o.name : o \in Range(stages[i].outputs)}
  <2> DEFINE stage == stages[i]
             Made(changes) == {n \in DOMAIN changes : changes[n].new # Absent}
             Aged1(o) == [o EXCEPT !.changes = [n \in Made(@) |-> [old |-> Absent, new |-> @[n].new]]]
             outputs == [k \in DOMAIN stage.outputs |-> Aged1(stage.outputs[k])]
  <2>1. IsStage(stage) BY DEF Range
  <2>2. aged[i] = [stage EXCEPT !.baseline = <<>>, !.outputs = outputs] BY DEF Aged
  <2>3. \A k \in DOMAIN stage.outputs : outputs[k].name = stage.outputs[k].name
    <3> TAKE k \in DOMAIN stage.outputs
    <3>1. stage.outputs[k] = [name |-> stage.outputs[k].name, content |-> stage.outputs[k].content,
                              changes |-> stage.outputs[k].changes]
      BY <2>1 DEF IsStage, Range
    <3>2. outputs[k] = Aged1(stage.outputs[k]) OBVIOUS
    <3>3. \A o, x : o = [name |-> o.name, content |-> o.content, changes |-> o.changes]
                      => [o EXCEPT !.changes = x].name = o.name OBVIOUS
    <3>4. PICK x : Aged1(stage.outputs[k]) = [stage.outputs[k] EXCEPT !.changes = x] OBVIOUS
    <3> QED BY <3>1, <3>2, <3>3, <3>4
  <2>4. DOMAIN outputs = DOMAIN stage.outputs OBVIOUS
  <2> HIDE DEF outputs, stage
  <2>5. /\ aged[i].checks = stage.checks /\ aged[i].contract = stage.contract
        /\ aged[i].skills = stage.skills /\ aged[i].outputs = outputs
    BY <2>1, <2>2 DEF IsStage
  <2>6. {o.name : o \in Range(outputs)} = {o.name : o \in Range(stage.outputs)}
    BY <2>3, <2>4 DEF Range
  <2> QED BY <2>5, <2>6 DEF stage
<1> HIDE DEF aged
<1>3. DOMAIN aged = DOMAIN stages BY <1>1
<1>4. Skills(aged) = Skills(stages) BY <1>2, <1>3 DEF Skills
<1>5. Definition(aged, lock) = Definition(stages, lock)
  <2> DEFINE Of1(s, i) == [contract |-> s[i].contract, checks |-> s[i].checks,
                           produces |-> {o.name : o \in Range(s[i].outputs)}]
  <2>1. \A i \in DOMAIN stages : Of1(aged, i) = Of1(stages, i) BY <1>2
  <2>2. /\ Definition(aged, lock) = [stages |-> [i \in DOMAIN aged |-> Of1(aged, i)],
                                     skills |-> Skills(aged), packages |-> UNION Range(lock)]
        /\ Definition(stages, lock) = [stages |-> [i \in DOMAIN stages |-> Of1(stages, i)],
                                       skills |-> Skills(stages), packages |-> UNION Range(lock)]
    BY DEF Definition
  <2> HIDE DEF Of1
  <2>3. [i \in DOMAIN aged |-> Of1(aged, i)] = [i \in DOMAIN stages |-> Of1(stages, i)]
    BY <1>3, <2>1
  <2> QED BY <1>4, <2>2, <2>3
<1>6. aged \in Seq(Range(aged))
  <2>1. \A i \in DOMAIN aged : aged[i] \in Range(aged) BY DEF Range
  <2>2. aged = [i \in 1 .. Len(stages) |-> aged[i]] BY <1>1 DEF aged, Aged
  <2> QED BY <1>1, <2>1, <2>2
<1>7. ASSUME NEW stage \in Range(aged) PROVE stage.checks \in Seq(Range(stage.checks))
  <2>1. PICK i \in DOMAIN stages : stage = aged[i] BY <1>3 DEF Range
  <2>2. stages[i].checks \in Seq(Range(stages[i].checks)) BY DEF IsStage, Range
  <2> QED BY <1>2, <2>1, <2>2
<1> QED BY <1>4, <1>5, <1>6, <1>7 DEF aged


\* What Of and Lines select, place by place
LEMMA Selected ==
  ASSUME NEW bundle, NEW kind
  PROVE  /\ DOMAIN Of(bundle, kind) = {i \in DOMAIN bundle : bundle[i].kind = kind}
         /\ \A i \in DOMAIN Of(bundle, kind) : Of(bundle, kind)[i] = bundle[i]
         /\ Lines(bundle) = [i \in {j \in DOMAIN bundle : bundle[j].kind # "vsa"} |-> bundle[i]]
<1>1. Of(bundle, kind) = [i \in {j \in DOMAIN bundle : bundle[j].kind = kind} |-> bundle[i]]
  BY DEF Of, RestrictValues, Restrict
<1>2. Lines(bundle) = [i \in {j \in DOMAIN bundle : bundle[j].kind # "vsa"} |-> bundle[i]]
  BY DEF Lines, RestrictValues, Restrict
<1> QED BY <1>1, <1>2

LEMMA ProvenanceOf ==
  ASSUME NEW bundle, NEW provenance, IsReceiptOf(bundle, provenance)
  PROVE  /\ bundle \in Seq(Range(bundle)) /\ Prov(bundle) = provenance
         /\ \A i \in DOMAIN bundle : bundle[i].kind # "vsa"
<1>1. /\ bundle \in Seq(Range(bundle)) /\ Len(bundle) >= 2 /\ bundle[1] = provenance
      /\ provenance.kind = "provenance" /\ \A i \in 2 .. Len(bundle) : bundle[i].kind \in {"test", "bom"}
  BY DEF IsReceiptOf
<1>2. DOMAIN bundle = 1 .. Len(bundle) /\ Len(bundle) \in Nat BY <1>1
<1>3. provenance \in Range(bundle) BY <1>1, <1>2 DEF Range
<1>4. ASSUME NEW i \in DOMAIN bundle
      PROVE  bundle[i].kind # "vsa" /\ (bundle[i].kind = "provenance" => bundle[i] = provenance)
  BY <1>1, <1>2
<1>5. \A s \in Range(bundle) : s.kind = "provenance" => s = provenance BY <1>4 DEF Range
<1>6. Prov(bundle) = provenance BY <1>1, <1>3, <1>5 DEF Prov, The
<1> QED BY <1>1, <1>4, <1>6

\* A summary after the statements that it names
LEMMA SummaryLast ==
  ASSUME NEW bundle, bundle \in Seq(Range(bundle)), \A i \in DOMAIN bundle : bundle[i].kind # "vsa",
         NEW doc, doc.kind = "vsa"
  PROVE  /\ Lines(Append(bundle, doc)) = bundle
         /\ The(Append(bundle, doc), "vsa") = doc
         /\ Number(Append(bundle, doc), "vsa") = 1
         /\ \A provenance : IsReceiptOf(bundle, provenance) => Prov(Append(bundle, doc)) = provenance
<1> DEFINE all == Append(bundle, doc)
           last == Len(bundle) + 1
<1>1. /\ DOMAIN all = 1 .. last /\ last \in Nat \ {0} /\ all[last] = doc
      /\ DOMAIN bundle = 1 .. last - 1
      /\ \A i \in DOMAIN bundle : all[i] = bundle[i]
  OBVIOUS
<1>2. bundle = [i \in DOMAIN bundle |-> bundle[i]] OBVIOUS
<1> HIDE DEF all, last
<1>3. DOMAIN all = DOMAIN bundle \cup {last} /\ last \notin DOMAIN bundle BY <1>1
<1>4. \A i \in DOMAIN all : all[i].kind = "vsa" <=> i = last BY <1>1, <1>3
<1>5. Lines(all) = bundle
  <2>1. {j \in DOMAIN all : all[j].kind # "vsa"} = DOMAIN bundle BY <1>3, <1>4
  <2>2. Lines(all) = [i \in DOMAIN bundle |-> all[i]] BY <2>1, Selected
  <2>3. [i \in DOMAIN bundle |-> all[i]] = [i \in DOMAIN bundle |-> bundle[i]] BY <1>1
  <2> QED BY ONLY <1>2, <2>2, <2>3
<1>6. The(all, "vsa") = doc
  <2>1. doc \in Range(all) BY <1>1, <1>3 DEF Range
  <2>2. \A s \in Range(all) : s.kind = "vsa" => s = doc BY <1>1, <1>4 DEF Range
  <2> QED BY <2>1, <2>2 DEF The
<1>7. Number(all, "vsa") = 1
  <2>1. {i \in DOMAIN all : all[i].kind = "vsa"} = {last} BY ONLY <1>3, <1>4
  <2>2. DOMAIN Of(all, "vsa") = {last} BY ONLY <2>1, Selected
  <2> QED BY <2>2, FS_Singleton DEF Number
<1>8. ASSUME NEW provenance, IsReceiptOf(bundle, provenance) PROVE Prov(all) = provenance
  <2>1. /\ Len(bundle) >= 2 /\ bundle[1] = provenance /\ provenance.kind = "provenance"
        /\ \A i \in 2 .. Len(bundle) : bundle[i].kind \in {"test", "bom"}
    BY <1>8 DEF IsReceiptOf
  <2>2. 1 \in DOMAIN bundle /\ all[1] = provenance /\ DOMAIN bundle = 1 .. Len(bundle)
    BY <1>1, <2>1 DEF last
  <2>3. provenance \in Range(all) BY <1>3, <2>2 DEF Range
  <2>4. ASSUME NEW i \in DOMAIN all, all[i].kind = "provenance" PROVE all[i] = provenance
    <3>1. i \in DOMAIN bundle /\ all[i] = bundle[i] BY <1>1, <1>3, <1>4, <2>4
    <3>2. i \in 2 .. Len(bundle) \/ i = 1 BY <2>2, <3>1
    <3> QED BY <2>1, <2>2, <2>4, <3>1, <3>2
  <2>5. \A s \in Range(all) : s.kind = "provenance" => s = provenance BY <2>4 DEF Range
  <2> QED BY <2>1, <2>3, <2>5 DEF Prov, The
<1> QED BY <1>5, <1>6, <1>7, <1>8 DEF all

-----------------------------------------------------------------------------
(* The store *)

\* A summary was signed of the run, or of the run on an empty base
Signed(a) == \E run \in {Bundle, OlderBundle} : a.doc = SummaryOf(run, a.doc.result)

StoreIsSigned == \A a \in store : a.doc.kind = "vsa" => Signed(a)

InWorlds == \E i \in DOMAIN Worlds : world \in Worlds[i]

LEMMA SignedStays ==
  ASSUME world' = world
  PROVE  /\ Bundle' = Bundle /\ OlderBundle' = OlderBundle
         /\ \A a : Signed(a)' <=> Signed(a)
<1>1. Bundle' = Bundle /\ OlderBundle' = OlderBundle BY DEF Bundle, OlderBundle
<1> QED BY <1>1 DEF Signed, SummaryOf

LEMMA SummaryIsSigned ==
  ASSUME NEW run \in {Bundle, OlderBundle}, NEW result, NEW cert, NEW nr
  PROVE  Signed(Attestation(SummaryOf(run, result), cert, nr))
BY DEF Signed, Attestation, SummaryOf

LEMMA StoreInit == Init => StoreIsSigned /\ InWorlds
<1> SUFFICES ASSUME Init PROVE StoreIsSigned /\ InWorlds OBVIOUS
<1>1. store = Rivals /\ InWorlds BY DEF Init, InWorlds
<1>2. ASSUME NEW a \in Rivals, a.doc.kind = "vsa" PROVE Signed(a)
  <2>1. PICK rival \in world.rivals : a =
          CASE rival = "foreign" ->
                 Attestation(SummaryOf(Bundle, "PASSED"), [world.cert EXCEPT !.workflow = "other"], 1)
            [] rival = "failed"  -> Attestation(SummaryOf(Bundle, "FAILED"), world.cert, 2)
            [] rival = "older"   -> Attestation(SummaryOf(OlderBundle, "PASSED"), world.cert, 3)
    BY DEF Rivals
  <2>2. rival \in {"foreign", "failed", "older"} BY <1>1, WorldsAssumption DEF InWorlds
  <2> QED BY <2>1, <2>2, SummaryIsSigned
<1> QED BY <1>1, <1>2 DEF StoreIsSigned

LEMMA StoreWriters ==
  [Next]_vars => AttestBundle \/ AttestSummary \/ UNCHANGED store
BY DEF Next, vars, Audited, Deliver, Amend, Advance, Rebase,
       StartAudit, ResolvePolicy, GateClosed, StartGate, GateRaises, TooMany, NotDelivered, LookUp,
       CheckSigner, TryNextFile, GateUnsigned, GateUndecided, GateFetches, FetchFails, StartBundle,
       InspectReceipt, JudgeRules, BundleIdentity, AllAsked

LEMMA StoreStep ==
  ASSUME StoreIsSigned, InWorlds, [Next]_vars
  PROVE  StoreIsSigned' /\ InWorlds'
<1>1. world' = world BY WorldStays
<1>2. \A a : Signed(a)' <=> Signed(a) BY <1>1, SignedStays
<1>3. ASSUME NEW a \in store', a.doc.kind = "vsa" PROVE Signed(a)
  <2>1. CASE a \in store BY <1>3, <2>1 DEF StoreIsSigned
  <2>2. CASE a = Attestation(CarrierOf(Bundle), world.cert, 4)
    BY <1>3, <2>2 DEF Attestation, CarrierOf
  <2>3. CASE a = Attestation(SummaryOf(Bundle, "PASSED"), world.cert, 5) BY <2>3, SummaryIsSigned
  <2> QED BY <1>3, <2>1, <2>2, <2>3, StoreWriters DEF AttestBundle, AttestSummary
<1> QED BY <1>1, <1>2, <1>3 DEF StoreIsSigned, InWorlds


-----------------------------------------------------------------------------
(* What a signed receipt says *)

\* What a provenance tells of a delivery of the world's run
Says(p, delivery) ==
  /\ p.definition = Definition(world.stages, world.lock) /\ p.stages = p.definition.stages
  /\ p.skills = Skills(world.stages) /\ p.lock = world.lock
  /\ p.subjects = delivery.files /\ DOMAIN p.deleted = Removed(delivery)
  /\ BeforeImages(p) = delivery.before

LEMMA ImagesBefore ==
  ASSUME NEW stages, NEW base, NEW lock, NEW commit
  PROVE  BeforeImages(Provenance(stages, Delivery(stages, base), lock, commit)) = Delivery(stages, base).before
<1> DEFINE before == Delivery(stages, base).before
           p == Provenance(stages, Delivery(stages, base), lock, commit)
<1>1. before = [n \in DOMAIN before |-> before[n]]
  <2>1. ASSUME NEW patches
        PROVE  Combined(patches).before = [n \in DOMAIN Combined(patches).before |-> Combined(patches).before[n]]
    BY DEF Combined
  <2>2. ASSUME NEW outputs
        PROVE  Plain(outputs, base).before = [n \in DOMAIN Plain(outputs, base).before |-> Plain(outputs, base).before[n]]
    BY DEF Plain
  <2>3. (\E patches : Delivery(stages, base) = Combined(patches))
          \/ (\E outputs : Delivery(stages, base) = Plain(outputs, base))
    BY Zenon DEF Delivery
  <2> QED BY <2>1, <2>2, <2>3
<1>2. /\ p.before = [n \in {m \in DOMAIN before : before[m] # Absent} |-> before[n]]
      /\ p.created = {n \in DOMAIN before : before[n] = Absent}
  BY DEF Provenance
<1> HIDE DEF before, p
<1>3. DOMAIN p.before \cup p.created = DOMAIN before BY <1>2
<1>4. \A n \in DOMAIN before : At(p.before, n) = before[n] BY <1>2 DEF At
<1>5. BeforeImages(p) = [n \in DOMAIN before |-> before[n]] BY <1>3, <1>4 DEF BeforeImages
<1> QED BY <1>1, <1>5 DEF before, p

LEMMA ProvenanceSays ==
  ASSUME NEW stages, NEW base, NEW commit,
         Definition(stages, world.lock) = Definition(world.stages, world.lock),
         Skills(stages) = Skills(world.stages)
  PROVE  Says(Provenance(stages, Delivery(stages, base), world.lock, commit), Delivery(stages, base))
BY ImagesBefore DEF Says, Provenance

\* The delivery a bundle was exported of
RunSigned(run) == IF run = Bundle THEN Delivered ELSE Delivery(Aged(world.stages), <<>>)

LEMMA BundleSays ==
  ASSUME InWorlds, NEW run \in {Bundle, OlderBundle}, run # <<>>
  PROVE  /\ IsReceiptOf(run, run[1]) /\ Says(run[1], RunSigned(run))
         /\ DOMAIN run[1].subjects # {} /\ DOMAIN run[1].subjects \subseteq Range(Names)
<1>1. /\ world.stages \in Seq(Range(world.stages)) /\ \A stage \in Range(world.stages) : IsStage(stage)
      /\ \A d \in {Delivered, Delivery(Aged(world.stages), <<>>)} : DOMAIN d.files \subseteq Range(Names)
  BY WorldsAssumption, NamesAssumption DEF InWorlds, Delivered
<1>2. \A stage \in Range(world.stages) : stage.checks \in Seq(Range(stage.checks)) BY <1>1 DEF IsStage
<1>3. CASE run = Bundle
  <2> DEFINE p == Provenance(world.stages, Delivered, world.lock, world.commit)
  <2>1. IsReceiptOf(run, p) /\ DOMAIN Delivered.files # {}
    BY <1>1, <1>2, <1>3, ExportIsReceipt DEF Bundle, Delivered
  <2>2. Says(p, Delivered) BY ProvenanceSays DEF Delivered
  <2>3. run[1] = p BY <2>1 DEF IsReceiptOf
  <2>4. p.subjects = Delivered.files BY DEF Provenance
  <2> HIDE DEF p
  <2> QED BY <1>1, <1>3, <2>1, <2>2, <2>3, <2>4 DEF RunSigned
<1>4. CASE run # Bundle
  <2> DEFINE aged == Aged(world.stages)
             delivery == Delivery(aged, <<>>)
             p == Provenance(aged, delivery, world.lock, world.commit)
  <2>1. /\ aged \in Seq(Range(aged)) /\ \A stage \in Range(aged) : stage.checks \in Seq(Range(stage.checks))
        /\ Definition(aged, world.lock) = Definition(world.stages, world.lock)
        /\ Skills(aged) = Skills(world.stages)
    BY <1>1, AgedIs
  <2>2. run = Export(aged, <<>>, world.lock, world.commit) BY <1>4 DEF OlderBundle
  <2>3. Says(p, delivery) BY <2>1, ProvenanceSays
  <2>4. p.subjects = delivery.files BY DEF Provenance
  <2>5. IsReceiptOf(run, p) /\ DOMAIN delivery.files # {} BY <2>1, <2>2, ExportIsReceipt
  <2>6. RunSigned(run) = delivery /\ DOMAIN delivery.files \subseteq Range(Names) BY <1>1, <1>4 DEF RunSigned
  <2> HIDE DEF p, delivery, aged
  <2>7. run[1] = p BY <2>5 DEF IsReceiptOf
  <2> QED BY <2>3, <2>4, <2>5, <2>6, <2>7
<1> QED BY <1>3, <1>4

\* The statements that a trusted summary names are those it came with
LEMMA NamedStatements ==
  ASSUME InWorlds, StoreIsSigned, NEW a \in store, a.doc.kind = "vsa"
  PROVE  /\ a.doc.inputs \in {Bundle, OlderBundle}
         /\ a.doc = SummaryOf(a.doc.inputs, a.doc.result)
         /\ Lines(Append(a.doc.inputs, a.doc)) = a.doc.inputs
         /\ a.doc.inputs # <<>> => Prov(Append(a.doc.inputs, a.doc)) = a.doc.inputs[1]
<1> DEFINE run == a.doc.inputs
<1>1. run \in {Bundle, OlderBundle} /\ a.doc = SummaryOf(run, a.doc.result)
  <2>1. PICK r \in {Bundle, OlderBundle} : a.doc = SummaryOf(r, a.doc.result)
    BY DEF StoreIsSigned, Signed
  <2>2. SummaryOf(r, a.doc.result).inputs = r BY DEF SummaryOf
  <2> QED BY <2>1, <2>2
<1>2. run \in Seq(Range(run)) /\ \A i \in DOMAIN run : run[i].kind # "vsa"
  <2>1. CASE run = <<>> BY <2>1
  <2>2. CASE run # <<>> BY <1>1, <2>2, BundleSays, ProvenanceOf
  <2> QED BY <2>1, <2>2
<1>3. run # <<>> => IsReceiptOf(run, run[1]) BY <1>1, BundleSays
<1> HIDE DEF run
<1>4. Lines(Append(run, a.doc)) = run /\ (run # <<>> => Prov(Append(run, a.doc)) = run[1])
  BY <1>2, <1>3, SummaryLast
<1> QED BY <1>1, <1>4 DEF run

\* A receipt reported as authenticated is, statement by statement, the one that a
\* PASSED summary of a trusted signer names (_identity, _bundle_binding, statements).
THEOREM AuthenticatedBound == Spec => []AuthenticatedIsBound
<1>1. Init => StoreIsSigned /\ InWorlds BY StoreInit
<1>2. StoreIsSigned /\ InWorlds /\ [Next]_vars => StoreIsSigned' /\ InWorlds' BY StoreStep
<1>3. SignatureIsBound /\ StoreIsSigned /\ InWorlds => AuthenticatedIsBound
  <2> SUFFICES ASSUME SignatureIsBound, StoreIsSigned, InWorlds,
                      place = "done", audit.signer # None, receipt # <<>>
               PROVE  AuthenticatedIsBound
    BY DEF AuthenticatedIsBound
  <2>1. PICK a \in store : /\ Vouched(a, Signers)
                           /\ ~Gate => Binds(a.doc)
                           /\ Gate => receipt \in {<<>>, Append(a.doc.inputs, a.doc)}
    BY DEF SignatureIsBound
  <2>2. Occurrences(a.doc.inputs) = Occurrences(Lines(receipt))
    <3>1. CASE ~Gate BY <2>1, <3>1 DEF Binds
    <3>2. CASE Gate
      <4>1. receipt = Append(a.doc.inputs, a.doc) /\ a.doc.kind = "vsa" BY <2>1, <3>2 DEF Vouched
      <4>2. Lines(receipt) = a.doc.inputs BY <4>1, NamedStatements
      <4> QED BY <4>2
    <3> QED BY <3>1, <3>2
  <2> QED BY <2>1, <2>2 DEF AuthenticatedIsBound
<1> QED BY <1>1, <1>2, <1>3, SignatureBound, PTL DEF Spec


-----------------------------------------------------------------------------
(* What a report that is valid rests on *)

\* What is installed from the lock is clean, or nothing could be asked of it
Payable ==
  \/ UNION Range(Prov(receipt).lock) = {} \/ inquiry.offline \/ world.apm = "clean"
  \/ world.apm = "unenforced" /\ ~resolution.apm

Rehashed == Rehashes => world.intact = "all"

Met == Sound /\ Rehashed /\ Allowed /\ Payable

\* Each row leaves the report valid only for what it has found
ReportIsEarned ==
  /\ place = "lookup" => Gate
  /\ place \in {"lookup", "check", "inspect", "rules"} /\ audit.result = "valid"
       => resolution.status # "unloadable"
  /\ place = "rules" /\ audit.result = "valid" => Sound /\ Rehashed
  /\ Over("valid") \/ (~Gate /\ place = "check" /\ audit.result = "valid") => Met
  /\ ~Gate /\ place \notin Early => receipt = OnDisk

LEMMA MetStays ==
  ASSUME Same, UNCHANGED receipt
  PROVE  Sound' = Sound /\ Rehashed' = Rehashed /\ Met' = Met /\ Gate' = Gate /\ OnDisk' = OnDisk
<1>1. Gate' = Gate /\ Sound' = Sound /\ Allowed' = Allowed BY SameMeaning, ReceiptMeaning
<1>2. Rehashed' = Rehashed BY <1>1 DEF Rehashed, Rehashes, Same
<1>3. Payable' = Payable BY DEF Payable, Same, policyVars
<1>4. OnDisk' = OnDisk BY DEF OnDisk, Bundle, Same
<1> QED BY <1>1, <1>2, <1>3, <1>4 DEF Met

\* A report that ends an audit and is not valid rests on nothing
LEMMA EndsUnearned ==
  ASSUME ReportIsEarned, Same, UNCHANGED receipt, place' = "done", audit'.result # "valid",
         place \notin Early \/ Gate
  PROVE  ReportIsEarned'
BY MetStays DEF ReportIsEarned, Over, Early

LEMMA FinishUnearned ==
  ASSUME ReportIsEarned, Same, NEW a, IsReport(a), a.result # "valid", Finish(NotEvaluated(a)),
         place \notin Early \/ Gate
  PROVE  ReportIsEarned'
BY NotEvaluatedReport, EndsUnearned DEF Finish

\* Dependencies that are neither refused nor left open are paid for
LEMMA DependenciesEarned ==
  ASSUME NEW a, IsReport(a), NEW answer, InWorlds, answer \in {world.apm, "unavailable"},
         resolution.status # "unloadable", DependenciesRow(a, answer).result = "valid"
  PROVE  a.result = "valid" /\ Payable
<1> DEFINE found == Dependencies(answer)
           p == Prov(receipt)
           lock == UNION Range(p.lock)
<1>1. world.apm \in {"clean", "fail", "unavailable", "unenforced"} BY WorldsAssumption DEF InWorlds
<1>2. CASE a.result = "invalid"
  <2>1. DependenciesRow(a, answer) = Put(a, "Dependencies", "skipped") BY <1>2 DEF DependenciesRow
  <2> QED BY <1>2, <2>1, PutReport
<1>3. CASE a.result # "invalid"
  <2>1. DependenciesRow(a, answer) = IF found = "unavailable" THEN Incomplete(a, "Dependencies")
                                     ELSE Judge(a, "Dependencies", found)
    BY <1>3 DEF DependenciesRow
  <2> HIDE DEF found
  <2>2. found # "unavailable" /\ a.result = "valid" /\ found # "fail"
    BY <2>1, IncompleteReport, JudgeReport
  <2>3. CASE p.lock = <<>>
    <3>1. lock = {} BY <2>3 DEF Range
    <3> QED BY <2>2, <3>1 DEF Payable
  <2>4. CASE p.lock # <<>> /\ ~(lock = {} \/ inquiry.offline)
    <3>1. answer = "clean" \/ (answer = "unenforced" /\ ~resolution.apm)
            \/ (found = IF answer = "unenforced" /\ resolution.apm THEN "unavailable" ELSE answer)
            \/ found = "fail"
      BY <2>4 DEF found, Dependencies
    <3> QED BY <1>1, <2>2, <3>1 DEF Payable
  <2>5. CASE lock = {} \/ inquiry.offline BY <2>2, <2>5 DEF Payable
  <2> QED BY <2>3, <2>4, <2>5
<1> QED BY <1>2, <1>3

LEMMA PolicyRowsEarned ==
  ASSUME NEW a, IsReport(a), NEW answer, InWorlds, answer \in {world.apm, "unavailable"},
         resolution.status # "unloadable", PolicyRows(a, answer).result = "valid"
  PROVE  a.result = "valid" /\ Payable /\ (Sound => Allowed)
<1> DEFINE factory == FactoryRow(a)
           dependencies == DependenciesRow(factory, answer)
<1>1. IsReport(factory) BY JudgeReport DEF FactoryRow
<1> HIDE DEF factory
<1>2. IsReport(dependencies)
  BY <1>1, PutReport, IncompleteReport, JudgeReport DEF DependenciesRow
<1> HIDE DEF dependencies
<1>3. PICK verdict : RevocationRow(dependencies) = Judge(dependencies, "Revocation", verdict)
  BY DEF RevocationRow
<1>4. PolicyRows(a, answer) = RevocationRow(dependencies) BY DEF PolicyRows, dependencies, factory
<1>5. dependencies.result = "valid" BY <1>2, <1>3, <1>4, JudgeReport
<1>6. Payable BY <1>1, <1>5, DependenciesEarned DEF dependencies
<1>7. /\ a.result = "valid"
      /\ Sound /\ Applies => EvaluateFactory(Prov(receipt).definition) # "fail"
      /\ Sound /\ Applies /\ Rules.present => EvaluateRevocation(Prov(receipt).skills) # "fail"
  BY PolicyRowsReport
<1>8. Sound => Allowed BY <1>7 DEF Allowed, EvaluateFactory, EvaluateRevocation, Violation
<1> QED BY <1>6, <1>7, <1>8

LEMMA IdentityRowKeeps ==
  ASSUME NEW a, IsReport(a), NEW status, IdentityRow(a, status).result = "valid"
  PROVE  a.result = "valid"
<1>1. CASE status = "signed"
  <2>1. IdentityRow(a, status) = [Put(a, "Identity", "pass") EXCEPT !.signer = Summed.cert.workflow]
    BY <1>1 DEF IdentityRow
  <2>2. IsReport(Put(a, "Identity", "pass")) /\ Put(a, "Identity", "pass").result = a.result BY PutReport
  <2> QED BY <2>1, <2>2 DEF IsReport
<1>2. CASE status # "signed"
  <2>1. \/ \E verdict : IdentityRow(a, status) = Judge(a, "Identity", verdict)
        \/ IdentityRow(a, status) = Incomplete(a, "Identity")
        \/ IdentityRow(a, status) = Put(a, "Identity", "warn")
    BY <1>2 DEF IdentityRow
  <2> QED BY <2>1, JudgeReport, IncompleteReport, PutReport
<1> QED BY <1>1, <1>2

LEMMA UnaskedKeeps ==
  ASSUME NEW a, IsReport(a), Unasked(a).result = "valid"
  PROVE  a.result = "valid"
<1>1. \/ \E verdict : Unasked(a) = Judge(a, "Identity", verdict)
      \/ \E status : Unasked(a) = Put(a, "Identity", status)
      \/ Unasked(a) = IdentityRow(a, "unavailable")
  BY DEF Unasked
<1> QED BY <1>1, JudgeReport, PutReport, IdentityRowKeeps


LEMMA InspectEarned ==
  ASSUME IsReport(audit), ReportIsEarned, InspectReceipt
  PROVE  ReportIsEarned'
<1> DEFINE row == Structural(audit, Inspect(receipt, Retained))
<1>1. /\ IsReport(row) /\ (row.result = "valid" => Sound /\ audit.result = "valid")
  <2>1. PICK rows : row = IF Inspect(receipt, Retained) = "none" THEN [audit EXCEPT !.rows = rows]
                          ELSE Fail([audit EXCEPT !.rows = rows], Inspect(receipt, Retained))
    BY DEF Structural
  <2>2. Inspect(receipt, Retained) = "none" => row.result = audit.result BY <2>1 DEF IsReport
  <2> QED BY <2>2, StructuralReport DEF Sound
<1>2. Same /\ place = "inspect" /\ UNCHANGED receipt BY DEF InspectReceipt, Audited, Same
<1>3. \/ ~Sound /\ Go("rules", row)
      \/ Sound /\ Rehashes /\ Go("rules", IF world.intact = "all" THEN row ELSE Fail(row, "Outputs"))
      \/ \E a \in {ChangeRow(row), Incomplete(row, "Outputs"), Fail(row, "Outputs")} : Binding /\ Go("rules", a)
      \/ ~Rehashes /\ Go("rules", row)
  BY DEF InspectReceipt
<1>4. Binding => ~Rehashes BY DEF Binding, Rehashes
<1> HIDE DEF row
<1>5. ChangeRow(row) \in {Fail(row, "Outputs"), Incomplete(row, "Outputs"), Put(row, "Outputs", "pass")}
  BY DEF ChangeRow
<1>6. \A a \in {ChangeRow(row), Incomplete(row, "Outputs"), Fail(row, "Outputs")} :
        a.result = "valid" => row.result = "valid"
  BY <1>1, <1>5, FailReport, IncompleteReport, PutReport
<1>7. Fail(row, "Outputs").result = "invalid" BY <1>1, FailReport
<1>8. place' = "rules" /\ (audit'.result = "valid" => Sound /\ Rehashed /\ audit.result = "valid")
  BY <1>1, <1>3, <1>4, <1>6, <1>7 DEF Go, Rehashed
<1>9. resolution' = resolution BY <1>2 DEF Same, policyVars
<1> QED BY <1>2, <1>8, <1>9, MetStays DEF ReportIsEarned, Over, Early

LEMMA JudgeEarned ==
  ASSUME IsReport(audit), ReportIsEarned, InWorlds, JudgeRules
  PROVE  ReportIsEarned'
<1>1. PICK answer \in {world.apm} \cup (IF world.flaky THEN {"unavailable"} ELSE {}) :
        LET a == PolicyRows(audit, answer)
            asks == Applies /\ Sound /\ Signers # {} /\ ~inquiry.offline /\ Artifacts # {}
        IN CASE Gate -> Go("done", a) /\ UNCHANGED look
             [] ~Gate /\ asks -> Go("check", a) /\ look' = AskOf(SetToSeq(Artifacts))
             [] OTHER -> Go("done", Unasked(a)) /\ UNCHANGED look
  BY DEF JudgeRules
<1>2. Same /\ place = "rules" /\ UNCHANGED receipt BY DEF JudgeRules, Audited, Same
<1> DEFINE row == PolicyRows(audit, answer)
<1>3. \/ Go("done", row)
      \/ ~Gate /\ Go("check", row)
      \/ ~Gate /\ Go("done", Unasked(row))
  BY <1>1, Zenon
<1>4. IsReport(row) BY PolicyRowsReport
<1>5. row.result = "valid" => Met
  <2>1. SUFFICES ASSUME row.result = "valid" PROVE Met OBVIOUS
  <2>2. audit.result = "valid"
    BY <2>1, PolicyRowsReport
  <2>3. resolution.status # "unloadable" /\ Sound /\ Rehashed BY <1>2, <2>2 DEF ReportIsEarned
  <2>4. answer \in {world.apm, "unavailable"} BY <1>1
  <2>5. Payable /\ Allowed BY <2>1, <2>3, <2>4, PolicyRowsEarned
  <2> QED BY <2>3, <2>5 DEF Met
<1>6. row.result = "valid" => resolution.status # "unloadable"
  BY <1>2, PolicyRowsReport DEF ReportIsEarned
<1> HIDE DEF row
<1>7. Unasked(row).result = "valid" => row.result = "valid" BY <1>4, UnaskedKeeps
<1>8. /\ place' \in {"done", "check"} /\ (audit'.result = "valid" => Met /\ resolution.status # "unloadable")
  BY <1>3, <1>5, <1>6, <1>7 DEF Go
<1>9. resolution' = resolution BY <1>2 DEF Same, policyVars
<1> QED BY <1>2, <1>8, <1>9, MetStays DEF ReportIsEarned, Over, Early

LEMMA EarnedStep ==
  ASSUME IsReport(audit), ReportIsEarned, InWorlds, [Next]_vars
  PROVE  ReportIsEarned'
<1>1. CASE \/ AttestBundle \/ AttestSummary \/ Deliver \/ Amend \/ Advance \/ Rebase
           \/ StartAudit \/ ResolvePolicy
  <2>1. place' \in Early
    BY <1>1 DEF Early, AttestBundle, AttestSummary, Deliver, Amend, Advance, Rebase, StartAudit,
                ResolvePolicy
  <2> QED BY <2>1 DEF ReportIsEarned, Early, Over
<1>2. CASE GateClosed
  <2> DEFINE row == PolicyRow(Unjudged)
  <2>1. IsReport(row) /\ (resolution.status = "unloadable" => row.result # "valid")
    BY UnjudgedReport, PolicyRowReport
  <2>2. IsReport(Incomplete(row, "Identity")) /\ Incomplete(row, "Identity").result # "valid"
    BY <2>1, IncompleteReport
  <2>3. \/ row.result # "valid" /\ Finish(NotEvaluated(row))
        \/ Finish(NotEvaluated(Incomplete(row, "Identity")))
    BY <1>2, <2>1 DEF GateClosed
  <2>4. Same /\ Gate BY <1>2 DEF GateClosed, Audited, Same
  <2> HIDE DEF row
  <2> QED BY <2>1, <2>2, <2>3, <2>4, FinishUnearned
<1>3. CASE StartGate
  <2>1. Same /\ Gate /\ place' = "lookup" /\ resolution.status # "unloadable" /\ UNCHANGED receipt
    BY <1>3 DEF StartGate, Audited, Same, Go
  <2>2. resolution' = resolution BY <2>1 DEF Same, policyVars
  <2> QED BY <2>1, <2>2, MetStays DEF ReportIsEarned, Over
<1>4. CASE GateRaises
  <2>1. Same /\ Gate /\ place' = "raised" /\ UNCHANGED receipt BY <1>4 DEF GateRaises, Audited, Same
  <2> QED BY <2>1, MetStays DEF ReportIsEarned, Over
<1>5. CASE TooMany
  <2>1. Same /\ place = "lookup" BY <1>5 DEF TooMany, Audited, Same
  <2> QED BY <1>5, <2>1, IncompleteReport, FinishUnearned DEF TooMany, Early
<1>6. CASE NotDelivered
  <2> DEFINE refused == [Fail(audit, "Identity") EXCEPT !.reason = "not_a_delivery"]
  <2>1. IsReport(refused) /\ refused.result # "valid"
    <3>1. IsReport(Fail(audit, "Identity")) /\ Fail(audit, "Identity").result = "invalid" BY FailReport
    <3> QED BY <3>1 DEF IsReport
  <2>2. Finish(NotEvaluated(refused)) \/ Finish(NotEvaluated(Incomplete(audit, "Identity")))
    BY <1>6 DEF NotDelivered
  <2>3. Same /\ place = "lookup" BY <1>6 DEF NotDelivered, Audited, Same
  <2> HIDE DEF refused
  <2> QED BY <2>1, <2>2, <2>3, IncompleteReport, FinishUnearned DEF Early
<1>7. CASE \E question \in look.left : LookUp(question)
  <2>1. Same /\ place = "lookup" /\ UNCHANGED receipt BY <1>7 DEF LookUp, Audited, Same
  <2>2. \/ audit' = audit /\ place' \in {"lookup", "check"}
        \/ place' = "done" /\ audit' = NotEvaluated(Fail(audit, "Outputs"))
    BY <1>7, <2>1 DEF LookUp, Go
  <2>3. NotEvaluated(Fail(audit, "Outputs")).result # "valid" BY FailReport, NotEvaluatedReport
  <2>4. Gate /\ resolution' = resolution BY <2>1 DEF ReportIsEarned, Same, policyVars
  <2> QED BY <2>1, <2>2, <2>3, <2>4, MetStays DEF ReportIsEarned, Over
<1>8. CASE (\E signer \in look.signers : CheckSigner(signer)) \/ TryNextFile
  <2>1. Same /\ place = "check" /\ UNCHANGED <<place, audit, receipt>>
    BY <1>8 DEF CheckSigner, TryNextFile, AllAsked, Audited, Same
  <2>2. resolution' = resolution BY <2>1 DEF Same, policyVars
  <2> QED BY <2>1, <2>2, MetStays DEF ReportIsEarned, Over
<1>9. CASE GateUnsigned
  <2>1. Same /\ Gate BY <1>9 DEF GateUnsigned, AllAsked, Audited, Same
  <2> QED BY <1>9, <2>1, FailReport, FinishUnearned DEF GateUnsigned
<1>10. CASE GateUndecided
  <2> DEFINE row == IdentityRow(audit, IdentityStatus)
  <2>1. IsReport(row) BY IdentityRowReport
  <2>2. Finish(NotEvaluated(IF row.result = "valid" THEN Incomplete(row, "Identity") ELSE row))
    BY <1>10 DEF GateUndecided
  <2>3. Same /\ Gate BY <1>10 DEF GateUndecided, AllAsked, Audited, Same
  <2> HIDE DEF row
  <2> QED BY <2>1, <2>2, <2>3, IncompleteReport, FinishUnearned
<1>11. CASE GateFetches
  <2> DEFINE row == IdentityRow(audit, "signed")
  <2>1. IsReport(row) /\ (row.result = "valid" => audit.result = "valid")
    BY IdentityRowReport, IdentityRowKeeps
  <2>2. Same /\ place = "check" /\ Gate BY <1>11 DEF GateFetches, AllAsked, Audited, Same
  <2>3. Go("inspect", row) \/ Finish(NotEvaluated(Fail(row, "Integrity")))
    BY <1>11 DEF GateFetches
  <2>4. Gate' = Gate /\ resolution' = resolution BY <2>2 DEF Same, policyVars, Gate
  <2> HIDE DEF row
  <2>5. CASE Go("inspect", row) BY <2>1, <2>2, <2>4, <2>5 DEF Go, ReportIsEarned, Over
  <2>6. CASE Finish(NotEvaluated(Fail(row, "Integrity")))
    BY <2>1, <2>2, <2>6, FailReport, FinishUnearned
  <2> QED BY <2>3, <2>5, <2>6
<1>12. CASE FetchFails
  <2>1. IsReport(IdentityRow(audit, "signed")) BY IdentityRowReport
  <2>2. Same /\ Gate BY <1>12 DEF FetchFails, Audited, Same
  <2>3. CASE place' = "raised" /\ UNCHANGED <<audit, receipt, look>>
    BY <2>2, <2>3, MetStays DEF ReportIsEarned, Over
  <2> QED BY <1>12, <2>1, <2>2, <2>3, IncompleteReport, FinishUnearned DEF FetchFails
<1>13. CASE StartBundle
  <2>1. /\ Same /\ ~Gate /\ place' = "inspect" /\ audit' = PolicyRow(Unjudged) /\ receipt' = OnDisk
    BY <1>13 DEF StartBundle, Audited, Same, Go
  <2>2. resolution' = resolution /\ Gate' = Gate /\ OnDisk' = OnDisk
    BY <2>1 DEF Same, policyVars, Gate, OnDisk, Bundle
  <2> QED BY <2>1, <2>2, UnjudgedReport, PolicyRowReport DEF ReportIsEarned, Over
<1>14. CASE InspectReceipt BY <1>14, InspectEarned
<1>15. CASE JudgeRules BY <1>15, JudgeEarned
<1>16. CASE BundleIdentity
  <2>1. /\ Same /\ ~Gate /\ place = "check" /\ place' = "done" /\ UNCHANGED receipt
        /\ audit' = IdentityRow(audit, IdentityStatus)
    BY <1>16 DEF BundleIdentity, AllAsked, Audited, Same, Finish
  <2>2. audit'.result = "valid" => audit.result = "valid" BY <2>1, IdentityRowKeeps
  <2> QED BY <2>1, <2>2, MetStays DEF ReportIsEarned, Over, Early
<1>17. CASE UNCHANGED vars
  <2>1. Same /\ UNCHANGED <<receipt, audit, place>> BY <1>17 DEF vars, Same, policyVars
  <2>2. resolution' = resolution BY <2>1 DEF Same, policyVars
  <2> QED BY <2>1, <2>2, MetStays DEF ReportIsEarned, Over
<1> QED BY <1>1, <1>2, <1>3, <1>4, <1>5, <1>6, <1>7, <1>8, <1>9, <1>10, <1>11, <1>12, <1>13, <1>14,
           <1>15, <1>16, <1>17 DEF Next


-----------------------------------------------------------------------------
(* What a receipt file says *)

\* What no damage to the file changes in its provenance
Told(s) ==
  s.kind = "provenance" =>
    /\ s.definition = Definition(world.stages, world.lock)
    /\ s.skills = Skills(world.stages) /\ s.lock = world.lock

LEMMA OnDiskTells ==
  ASSUME InWorlds, Bundle # <<>>, NEW s \in Range(OnDisk)
  PROVE  Told(s)
<1> DEFINE p == Provenance(world.stages, Delivered, world.lock, world.commit)
           cut == [p EXCEPT !.stages = [i \in DOMAIN @ |-> [@[i] EXCEPT !.checks = <<>>]]]
           broken == [p EXCEPT !.sound = FALSE]
           rebased == [p EXCEPT !.commit = "stray"]
           size == Len(Bundle)
<1>1. IsReceiptOf(Bundle, p)
  <2>1. /\ world.stages \in Seq(Range(world.stages))
        /\ \A stage \in Range(world.stages) : IsStage(stage)
    BY WorldsAssumption DEF InWorlds
  <2>2. \A stage \in Range(world.stages) : stage.checks \in Seq(Range(stage.checks))
    BY <2>1 DEF IsStage
  <2> QED BY <2>1, <2>2, ExportIsReceipt DEF Bundle, Delivered
<1>2. /\ p.definition = Definition(world.stages, world.lock) /\ p.skills = Skills(world.stages)
      /\ p.lock = world.lock
  BY DEF Provenance
<1>3. Told(p) /\ Told(cut) /\ Told(broken) /\ Told(rebased)
  <2>1. /\ cut.definition = p.definition /\ cut.skills = p.skills /\ cut.lock = p.lock
        /\ broken.definition = p.definition /\ broken.skills = p.skills /\ broken.lock = p.lock
        /\ rebased.definition = p.definition /\ rebased.skills = p.skills /\ rebased.lock = p.lock
    BY DEF Provenance
  <2> HIDE DEF p, cut, broken, rebased
  <2> QED BY <1>2, <2>1 DEF Told
<1>4. Prov(Bundle) = p BY <1>1, ProvenanceOf
<1>5. Bundle[1] = p /\ size \in Nat /\ size >= 2 /\ Bundle \in Seq(Range(Bundle)) BY <1>1 DEF IsReceiptOf
<1> HIDE DEF p
<1>6. \A i \in 1 .. size : Told(Bundle[i])
  <2> TAKE i \in 1 .. size
  <2>1. CASE i = 1 BY <1>3, <1>5, <2>1
  <2>2. CASE i # 1
    <3>1. i \in 2 .. size BY <1>5, <2>2
    <3>2. Bundle[i].kind \in {"test", "bom"} BY <1>1, <3>1 DEF IsReceiptOf
    <3> QED BY <3>2 DEF Told
  <2> QED BY <2>1, <2>2
<1> HIDE DEF cut, broken, rebased, size
<1>7. PICK i \in DOMAIN OnDisk : s = OnDisk[i] BY DEF Range
<1>8. CASE world.damage = "cut"
  <2>1. OnDisk = SubSeq(Bundle, 1, 2 - 1) \o SubSeq(Bundle, 2 + 1, Len(Bundle))
    BY <1>8 DEF OnDisk, RemoveAt
  <2>2. OnDisk = SubSeq(Bundle, 1, 1) \o SubSeq(Bundle, 3, size) BY <2>1 DEF size
  <2>3. /\ SubSeq(Bundle, 1, 1) \in Seq(Range(Bundle)) /\ Len(SubSeq(Bundle, 1, 1)) = 1
        /\ SubSeq(Bundle, 1, 1)[1] = Bundle[1]
    BY <1>5 DEF size
  <2>4. /\ SubSeq(Bundle, 3, size) \in Seq(Range(Bundle)) /\ Len(SubSeq(Bundle, 3, size)) = size - 2
        /\ \A k \in 1 .. size - 2 : SubSeq(Bundle, 3, size)[k] = Bundle[k + 2]
    <3>1. \A k \in 3 .. size : Bundle[k] \in Range(Bundle) BY <1>5 DEF Range, size
    <3>2. /\ SubSeq(Bundle, 3, size) \in Seq(Range(Bundle))
          /\ Len(SubSeq(Bundle, 3, size)) = IF 3 <= size THEN size - 3 + 1 ELSE 0
          /\ \A k \in 1 .. size - 3 + 1 : SubSeq(Bundle, 3, size)[k] = Bundle[3 + k - 1]
      BY <1>5, <3>1, SubSeqProperties
    <3> QED BY <1>5, <3>2
  <2> DEFINE one == SubSeq(Bundle, 1, 1)
             rest == SubSeq(Bundle, 3, size)
  <2> HIDE DEF one, rest
  <2>5. i \in 1 .. size - 1 BY <1>5, <1>7, <2>2, <2>3, <2>4 DEF one, rest
  <2>6. i = 1 => s = Bundle[1] BY <1>5, <1>7, <2>2, <2>3, <2>4 DEF one, rest
  <2>7. i # 1 => s = Bundle[i + 1]
    <3>1. SUFFICES ASSUME i # 1 PROVE s = Bundle[i + 1] OBVIOUS
    <3>2. i - 1 \in 1 .. size - 2 BY <1>5, <2>5, <3>1
    <3>3. s = rest[i - 1] BY <1>5, <1>7, <2>2, <2>3, <2>4, <2>5, <3>1 DEF one, rest
    <3>4. rest[i - 1] = Bundle[(i - 1) + 2] BY <2>4, <3>2 DEF rest
    <3>5. (i - 1) + 2 = i + 1 BY <2>5
    <3> QED BY <3>3, <3>4, <3>5
  <2>8. i + 1 \in 1 .. size /\ 1 \in 1 .. size BY <1>5, <2>5
  <2> QED BY <1>6, <2>6, <2>7, <2>8
<1>9. CASE world.damage = "doubled"
  <2>1. OnDisk = Append(Bundle, Bundle[2]) BY <1>9 DEF OnDisk
  <2>2. s = Bundle[2] \/ \E k \in 1 .. size : s = Bundle[k] BY <1>5, <1>7, <2>1 DEF size
  <2>3. 2 \in 1 .. size BY <1>5
  <2> QED BY <1>6, <2>2, <2>3
<1>10. CASE world.damage = "broken"
  <2>1. OnDisk = Append(Tail(Bundle), broken) BY <1>4, <1>5, <1>10 DEF OnDisk, broken
  <2>2. s = broken \/ \E k \in 1 .. size : s = Bundle[k]
    <3>1. /\ Tail(Bundle) \in Seq(Range(Bundle)) /\ Len(Tail(Bundle)) = size - 1
          /\ \A k \in 1 .. size - 1 : Tail(Bundle)[k] = Bundle[k + 1]
      BY <1>5 DEF size
    <3> DEFINE rest == Tail(Bundle)
    <3> HIDE DEF rest
    <3> DEFINE F == Range(Bundle) \cup {broken}
    <3>2. rest \in Seq(F) /\ Len(rest) = size - 1 /\ OnDisk = Append(rest, broken)
      BY <2>1, <3>1 DEF rest
    <3>3. i \in 1 .. size /\ (i = size => s = broken) /\ (i # size => s = rest[i])
      BY <1>5, <1>7, <3>2
    <3>4. i # size => i \in 1 .. size - 1 /\ i + 1 \in 1 .. size BY <1>5, <3>3
    <3> QED BY <3>1, <3>3, <3>4 DEF rest
  <2> QED BY <1>3, <1>6, <2>2
<1>11. CASE world.damage = "unchecked"
  <2>1. OnDisk = <<cut, Bundle[size]>> BY <1>4, <1>11 DEF OnDisk, cut, Last, size
  <2>2. s \in {cut, Bundle[size]} BY <1>7, <2>1
  <2>3. size \in 1 .. size BY <1>5
  <2> QED BY <1>3, <1>6, <2>2, <2>3
<1>12. CASE world.damage = "rebased"
  <2>1. OnDisk = <<rebased>> \o Tail(Bundle) BY <1>4, <1>12 DEF OnDisk, rebased
  <2>2. s = rebased \/ \E k \in 1 .. size : s = Bundle[k]
    <3>1. /\ Tail(Bundle) \in Seq(Range(Bundle)) /\ Len(Tail(Bundle)) = size - 1
          /\ \A k \in 1 .. size - 1 : Tail(Bundle)[k] = Bundle[k + 1]
      BY <1>5 DEF size
    <3> DEFINE rest == Tail(Bundle)
    <3> HIDE DEF rest
    <3>2. i \in 1 .. size /\ (i = 1 => s = rebased) /\ (i # 1 => s = rest[i - 1])
      BY <1>5, <1>7, <2>1, <3>1 DEF rest
    <3>3. i # 1 => i - 1 \in 1 .. size - 1 /\ (i - 1) + 1 = i BY <1>5, <3>2
    <3>4. i # 1 => s = Bundle[i] BY <3>1, <3>2, <3>3 DEF rest
    <3> QED BY <3>2, <3>4
  <2> QED BY <1>3, <1>6, <2>2
<1>13. CASE world.damage \notin {"cut", "doubled", "broken", "unchecked", "rebased"}
  <2>1. OnDisk = Bundle BY <1>13 DEF OnDisk
  <2> QED BY <1>5, <1>6, <1>7, <2>1 DEF size
<1> QED BY <1>8, <1>9, <1>10, <1>11, <1>12, <1>13

\* A receipt that holds together has a provenance
LEMMA SoundHasProvenance ==
  ASSUME Sound
  PROVE  /\ receipt # <<>> /\ Integrity(receipt) /\ Factory(receipt, Retained) /\ Checks(receipt)
         /\ OutputsRow(receipt)
         /\ Prov(receipt) \in Range(receipt) /\ Prov(receipt).kind = "provenance"
<1>1. /\ receipt # <<>> /\ Integrity(receipt) /\ Factory(receipt, Retained) /\ Checks(receipt)
      /\ OutputsRow(receipt)
  BY DEF Sound, Inspect
<1>2. Number(receipt, "provenance") = 1 BY <1>1 DEF Integrity
<1>3. DOMAIN Of(receipt, "provenance") # {} BY <1>2, FS_EmptySet DEF Number
<1>4. \E s \in Range(receipt) : s.kind = "provenance"
  <2>1. DOMAIN Of(receipt, "provenance") = {i \in DOMAIN receipt : receipt[i].kind = "provenance"}
    BY Selected
  <2>2. PICK i \in DOMAIN receipt : receipt[i].kind = "provenance" BY <1>3, <2>1
  <2> QED BY <2>2 DEF Range
<1> QED BY <1>1, <1>4 DEF Prov, The


\* An audit begins with something to audit
BundleIsThere ==
  place \notin {"run", "bundled", "attested", "open", "moved", "final"} => Bundle # <<>>

LEMMA BundleStep ==
  ASSUME BundleIsThere, [Next]_vars
  PROVE  BundleIsThere'
<1>1. Bundle' = Bundle BY WorldStays DEF Bundle
<1>2. \/ StartAudit
      \/ place' \in {"run", "bundled", "attested", "open", "moved", "final"}
      \/ place \notin {"run", "bundled", "attested", "open", "moved", "final"}
  BY DEF Next, vars, AttestBundle, AttestSummary, Deliver, Amend, Advance, Rebase,
         StartAudit, ResolvePolicy, GateClosed, StartGate, GateRaises, TooMany, NotDelivered, LookUp,
         CheckSigner, TryNextFile, GateUnsigned, GateUndecided, GateFetches, FetchFails, StartBundle,
         InspectReceipt, JudgeRules, BundleIdentity, AllAsked, Resolved
<1> QED BY <1>1, <1>2 DEF BundleIsThere, StartAudit

\* Every level of the chain is a document of the world
ChainIsRead == chain \in Seq(DOMAIN world.inquiry.documents)

LEMMA ChainIsReadStep ==
  ASSUME ChainIsRead, InWorlds, inquiry = world.inquiry, [Next]_vars
  PROVE  ChainIsRead'
<1> DEFINE documents == world.inquiry.documents
<1>1. world' = world BY WorldStays
<1>2. UNCHANGED chain \/ (chain' = Append(chain, Wanted) /\ Wanted # None)
  BY PolicyMoves DEF policyVars, Resolve, SettleEarly, ReadLevel, MergeLevels
<1>3. /\ {inquiry.override, "base", "tree", "org"} \ {None} \subseteq DOMAIN documents
      /\ \A level \in Range(documents) : level.extends \in DOMAIN documents \cup {None}
  BY WorldsAssumption DEF InWorlds
<1>4. Wanted # None => Wanted \in DOMAIN documents
  <2>1. CASE chain = <<>>
    <3>1. Wanted = Leaf BY <2>1 DEF Wanted
    <3>2. Leaf \in {inquiry.override, "base", "tree", "org", None} BY DEF Leaf
    <3> QED BY <1>3, <3>1, <3>2
  <2>2. CASE chain # <<>>
    <3>1. Last(chain) \in DOMAIN documents BY <2>2 DEF ChainIsRead, Last
    <3>2. documents[Last(chain)] \in Range(documents) BY <3>1 DEF Range
    <3>3. Wanted = documents[Last(chain)].extends BY <2>2 DEF Wanted, Extends
    <3> HIDE DEF documents
    <3> QED BY <1>3, <3>2, <3>3
  <2> QED BY <2>1, <2>2
<1> QED BY <1>1, <1>2, <1>4 DEF ChainIsRead

\* What a level that is read revokes, it revokes in a section
LEMMA RevokedIsPresent ==
  ASSUME ChainIsRead, InWorlds, inquiry = world.inquiry, NEW level \in Levels, level.revoked # {}
  PROVE  level.present
<1>1. PICK i \in DOMAIN chain : level = world.inquiry.documents[chain[i]] BY DEF Levels
<1>2. chain[i] \in DOMAIN world.inquiry.documents BY DEF ChainIsRead
<1>3. level \in Range(world.inquiry.documents) BY <1>1, <1>2 DEF Range
<1> QED BY <1>3, WorldsAssumption DEF InWorlds

\* The rules, where they apply, name the definition for every level and revoke no skill of any
LEMMA AllowedIsPermitted ==
  ASSUME PolicyIsMerged, ChainIsRead, InWorlds, inquiry = world.inquiry, Allowed,
         Prov(receipt).definition = Definition(world.stages, world.lock),
         Prov(receipt).skills = Skills(world.stages)
  PROVE  Permitted
<1> SUFFICES ASSUME Applies, Rules.enforcement = "block", NEW level \in Levels
             PROVE  /\ \A list \in level.allow : Definition(world.stages, world.lock) \in list
                    /\ level.revoked \cap Skills(world.stages) = {}
  BY DEF Permitted
<1> DEFINE allowed == UNION {l.allow : l \in Levels}
<1>1. Rules = Merge(Levels) BY NoPolicyIsOff DEF PolicyIsMerged, Applies, Rules
<1>2. /\ Rules.allow = Meet(allowed)
      /\ Rules.revoked = UNION {l.revoked : l \in Levels}
      /\ Rules.present <=> {l \in Levels : l.present} # {}
  BY <1>1 DEF Merge
<1>3. ASSUME NEW list \in level.allow PROVE Prov(receipt).definition \in list
  <2>1. list \in allowed BY <1>3
  <2> HIDE DEF allowed
  <2>2. Rules.allow = {InAll(allowed)} BY <1>2, <2>1 DEF Meet
  <2>3. Prov(receipt).definition \in InAll(allowed) BY <2>2 DEF Allowed
  <2> QED BY <2>1, <2>3 DEF InAll
<1>4. level.revoked \cap Prov(receipt).skills = {}
  <2>1. CASE level.revoked = {} BY <2>1
  <2>2. CASE level.revoked # {}
    <3>1. Rules.present BY <1>2, <2>2, RevokedIsPresent
    <3> QED BY <1>2, <3>1 DEF Allowed
  <2> QED BY <2>1, <2>2
<1> QED BY <1>3, <1>4

EarnedInv ==
  /\ SignedInv /\ ReportIsEarned /\ InWorlds /\ StoreIsSigned /\ BundleIsThere /\ ChainIsRead

LEMMA EarnedInit == Init => EarnedInv
<1> SUFFICES ASSUME Init PROVE EarnedInv OBVIOUS
<1>1. SignedInv /\ StoreIsSigned /\ InWorlds BY SignedInit, StoreInit
<1>2. place = "run" /\ chain = <<>> BY DEF Init, InitPolicy
<1> QED BY <1>1, <1>2 DEF EarnedInv, ReportIsEarned, Over, Early, BundleIsThere, ChainIsRead

LEMMA EarnedInvStep == EarnedInv /\ [Next]_vars => EarnedInv'
<1> SUFFICES ASSUME EarnedInv, [Next]_vars PROVE EarnedInv' OBVIOUS
<1>1. SignedInv' BY PolicyStep, SignedStep, ChainStep DEF EarnedInv, SignedInv
<1>2. IsReport(audit) /\ inquiry = world.inquiry
  BY DEF EarnedInv, SignedInv, GateIsPassed, ChainIsOfBase
<1> QED BY <1>1, <1>2, EarnedStep, StoreStep, BundleStep, ChainIsReadStep DEF EarnedInv

\* Whatever was done to the file, a receipt that audits as valid with its definition beside
\* it has a PASSED result for every check, as often as it is declared; re-hashed files are
\* those delivered, and no rule refuses it (run_audit, _inspect, audit_dependencies).
THEOREM ReceiptWhole == Spec => []ReceiptIsWhole
<1>1. EarnedInv => ReceiptIsWhole
  <2> SUFFICES ASSUME EarnedInv, ~Gate, Over("valid") PROVE ReceiptIsWhole
    BY DEF ReceiptIsWhole
  <2> DEFINE p == Prov(receipt)
  <2>1. Sound /\ Rehashed /\ Allowed /\ Payable BY DEF EarnedInv, ReportIsEarned, Met
  <2>2. receipt = OnDisk /\ Bundle # <<>>
    BY DEF EarnedInv, ReportIsEarned, BundleIsThere, Over, Early
  <2>3. Told(p) /\ p.kind = "provenance"
    BY <2>1, <2>2, SoundHasProvenance, OnDiskTells DEF EarnedInv
  <2>4. /\ p.definition = Definition(world.stages, world.lock)
        /\ p.skills = Skills(world.stages) /\ p.lock = world.lock
    BY <2>3 DEF Told
  <2>5. Permitted
    BY <2>1, <2>4, AllowedIsPermitted DEF EarnedInv, SignedInv, ChainIsOfBase
  <2>6. Installable BY <2>1, <2>4 DEF Payable, Installable
  <2>7. \A i \in DOMAIN receipt : receipt[i].sound BY <2>1, SoundHasProvenance DEF Integrity
  <2>8. ASSUME world.evidence
        PROVE  Occurrences([i \in DOMAIN Of(receipt, "test") |->
                   <<Of(receipt, "test")[i].contract, Of(receipt, "test")[i].check>>])
                 = Occurrences(Declared(world.stages))
    <3>1. p.stages = Definition(world.stages, world.lock).stages
      BY <2>1, <2>4, <2>8, SoundHasProvenance DEF Factory, Retained
    <3>2. Declared(p.stages) = Declared(world.stages)
      <4> DEFINE Pairs(s) == [i \in DOMAIN s |-> [k \in DOMAIN s[i].checks |-> <<s[i].contract, s[i].checks[k]>>]]
      <4>1. /\ DOMAIN p.stages = DOMAIN world.stages
            /\ \A i \in DOMAIN world.stages : /\ p.stages[i].checks = world.stages[i].checks
                                              /\ p.stages[i].contract = world.stages[i].contract
        BY <3>1 DEF Definition
      <4>2. Pairs(p.stages) = Pairs(world.stages) BY <4>1
      <4>3. Declared(p.stages) = FlattenSeq(Pairs(p.stages))
            /\ Declared(world.stages) = FlattenSeq(Pairs(world.stages))
        BY DEF Declared
      <4> HIDE DEF Pairs
      <4> QED BY <4>2, <4>3
    <3>3. Checks(receipt) BY <2>1, SoundHasProvenance
    <3> QED BY <3>2, <3>3 DEF Checks
  <2> QED BY <2>1, <2>5, <2>6, <2>7, <2>8 DEF ReceiptIsWhole, Rehashed
<1> QED BY <1>1, EarnedInit, EarnedInvStep, PTL DEF Spec


-----------------------------------------------------------------------------
(* What a pull request that passes was built from *)

\* The same names under two prefixes are under one
LEMMA OnePrefix ==
  ASSUME NEW one \in Seq(STRING), NEW other \in Seq(STRING),
         NEW names, names \subseteq Seq(STRING), names # {},
         {one \o n : n \in names} = {other \o n : n \in names}
  PROVE  one = other
<1>1. PICK m \in names : \A n \in names : Len(m) <= Len(n)
  <2> DEFINE sizes == {Len(n) : n \in names}
  <2>1. \A n \in names : Len(n) \in Nat
    <3>1. \A s \in Seq(STRING) : Len(s) \in Nat OBVIOUS
    <3> QED BY <3>1
  <2> HIDE DEF sizes
  <2>2. sizes \subseteq Nat /\ sizes # {} BY <2>1 DEF sizes
  <2>3. PICK k \in sizes : \A j \in sizes : k <= j BY <2>2, LeastOf
  <2> QED BY <2>3 DEF sizes
<1>2. PICK n \in names : one \o m = other \o n OBVIOUS
<1>3. PICK l \in names : other \o m = one \o l
  <2>1. other \o m \in {one \o k : k \in names} OBVIOUS
  <2> QED BY <2>1
<1>4. Len(one) + Len(m) = Len(other) + Len(n) /\ Len(other) + Len(m) = Len(one) + Len(l)
  <2>1. \A s, t \in Seq(STRING) : Len(s \o t) = Len(s) + Len(t) OBVIOUS
  <2>2. m \in Seq(STRING) /\ n \in Seq(STRING) /\ l \in Seq(STRING) OBVIOUS
  <2> QED BY <1>2, <1>3, <2>1, <2>2
<1>5. Len(one) = Len(other) BY <1>1, <1>4
<1>6. \A i \in 1 .. Len(one) : one[i] = other[i]
  <2> TAKE i \in 1 .. Len(one)
  <2>1. m \in Seq(STRING) /\ n \in Seq(STRING) OBVIOUS
  <2>2. (one \o m)[i] = one[i] BY <2>1
  <2>3. (other \o n)[i] = other[i] BY <1>5, <2>1
  <2> QED BY <1>2, <2>2, <2>3
<1>7. one = [i \in 1 .. Len(one) |-> one[i]] /\ other = [i \in 1 .. Len(other) |-> other[i]] OBVIOUS
<1> QED BY <1>5, <1>6, <1>7

\* Where a summary's files can be placed is the directory it was made for
LEMMA PlacedWhereSigned ==
  ASSUME NEW prefix \in Seq(STRING), NEW subjects, DOMAIN subjects # {},
         DOMAIN subjects \subseteq Range(Names),
         NEW p \in Placements(Under(prefix, subjects), subjects)
  PROVE  p = prefix
<1> DEFINE names == Under(prefix, subjects)
           Matches(n) == {i \in DOMAIN Names : /\ Names[i] \in DOMAIN subjects
                                               /\ subjects[Names[i]] = names[n] /\ IsSuffix(Names[i], n)}
           Before(n) == SubSeq(n, 1, Len(n) - Len(Names[Min(Matches(n))]))
<1>1. Names \in Seq(Seq(STRING)) /\ Range(Names) \subseteq Seq(STRING) BY ReceiptAssumption DEF Range
<1>2. /\ DOMAIN names = {prefix \o n : n \in DOMAIN subjects}
      /\ DOMAIN Under(p, subjects) = {p \o n : n \in DOMAIN subjects}
  BY DEF Under
<1>3. /\ \A n \in DOMAIN names : Matches(n) # {}
      /\ p \in {Before(n) : n \in DOMAIN names} /\ Under(p, subjects) = names
  <2> HIDE DEF names
  <2>1. p \in Placements(names, subjects) BY DEF names
  <2>2. Placements(names, subjects) =
          IF /\ Cardinality(DOMAIN names) = Cardinality(DOMAIN subjects)
             /\ \A n \in DOMAIN names : Matches(n) # {}
             /\ Cardinality({Before(n) : n \in DOMAIN names}) = 1
          THEN {q \in {Before(n) : n \in DOMAIN names} : Under(q, subjects) = names} ELSE {}
    BY Zenon DEF Placements
  <2> HIDE DEF Matches, Before
  <2> QED BY <2>1, <2>2
<1>4. PICK n \in DOMAIN names : p = Before(n) BY <1>3
<1>5. n \in Seq(STRING)
  <2>1. PICK m \in DOMAIN subjects : n = prefix \o m BY <1>2
  <2>2. m \in Seq(STRING) BY <1>1
  <2> QED BY <2>1, <2>2
<1>6. Min(Matches(n)) \in DOMAIN Names
  <2>1. Matches(n) \subseteq Nat /\ Matches(n) # {}
    <3>1. DOMAIN Names \subseteq Nat BY <1>1
    <3>2. Matches(n) \subseteq DOMAIN Names OBVIOUS
    <3> QED BY <1>3, <3>1, <3>2
  <2>2. Matches(n) \subseteq DOMAIN Names OBVIOUS
  <2> HIDE DEF Matches
  <2>3. \E i \in Matches(n) : \A j \in Matches(n) : i <= j BY <2>1, LeastOf
  <2>4. Min(Matches(n)) \in Matches(n) BY <2>3 DEF Min
  <2> QED BY <2>2, <2>4
<1>7. p \in Seq(STRING)
  <2> DEFINE size == Len(Names[Min(Matches(n))])
             end == Len(n) - size
  <2>1. size \in Nat
    <3> HIDE DEF Matches
    <3> QED BY <1>1, <1>6
  <2>2. p = SubSeq(n, 1, end) BY <1>4
  <2> HIDE DEF size
  <2>3. end \in Int /\ end <= Len(n) BY <1>5, <2>1
  <2>4. \A i \in 1 .. end : n[i] \in STRING BY <1>5, <2>3
  <2> HIDE DEF end
  <2> QED BY <2>2, <2>3, <2>4, SubSeqProperties
<1>8. {p \o m : m \in DOMAIN subjects} = {prefix \o m : m \in DOMAIN subjects} BY <1>2, <1>3
<1>9. DOMAIN subjects \subseteq Seq(STRING) BY <1>1
<1> QED BY <1>7, <1>8, <1>9, OnePrefix

\* A pull request that passes the gate has, for each file it adds or changes, a PASSED summary
\* of a signer that every level trusts that names the file with its bytes; the signed run itself
\* deleted each file it deletes and started from what its base has; and no rule of the base's
\* own chain refuses that run (run_gate, resolve, verify, bind, vsa_prefix).
THEOREM GateIsPassedByRun == Spec => []GateIsEarned
<1>1. EarnedInv => GateIsEarned
  <2> SUFFICES ASSUME EarnedInv, Gate, Over("valid") PROVE GateIsEarned
    BY DEF GateIsEarned
  <2>1. PassedIsEarned BY SignedIsEarned DEF EarnedInv
  <2>2. PICK a \in store :
          /\ Vouched(a, Signers)
          /\ receipt = Append(a.doc.inputs, a.doc) /\ Sound
          /\ \A level \in Levels : \A list \in level.signers : Vouched(a, list)
          /\ \A n \in Changed(pull) : n \in DOMAIN pull.head => At(a.doc.subjects, n) = pull.head[n]
    BY <2>1 DEF PassedIsEarned
  <2> DEFINE run == a.doc.inputs
             p == Prov(receipt)
             signed == RunSigned(run)
  <2>3. a.doc.kind = "vsa" BY <2>2 DEF Vouched
  <2>4. /\ run \in {Bundle, OlderBundle} /\ a.doc = SummaryOf(run, a.doc.result)
        /\ Lines(receipt) = run /\ (run # <<>> => p = run[1])
    BY <2>2, <2>3, NamedStatements DEF EarnedInv
  <2>5. run # <<>>
    <3> SUFFICES ASSUME run = <<>> PROVE FALSE OBVIOUS
    <3>1. receipt = <<a.doc>> BY <2>2
    <3>2. \A s \in Range(receipt) : s = a.doc BY <3>1 DEF Range
    <3> QED BY <2>2, <2>3, <3>2, SoundHasProvenance
  <2>6. /\ IsReceiptOf(run, p) /\ Says(p, signed)
        /\ DOMAIN p.subjects # {} /\ DOMAIN p.subjects \subseteq Range(Names)
    BY <2>4, <2>5, BundleSays DEF EarnedInv
  <2>7. Root = world.prefix
    <3>1. PrefixOf(receipt) # {} BY <2>2, SoundHasProvenance DEF OutputsRow
    <3>2. Root \in PrefixOf(receipt) BY <3>1 DEF Root
    <3>3. /\ run \in Seq(Range(run)) /\ Prov(run) = p
          /\ \A i \in DOMAIN run : run[i].kind # "vsa"
      BY <2>6, ProvenanceOf
    <3>4. The(receipt, "vsa") = a.doc /\ Number(receipt, "vsa") = 1
      BY <2>2, <2>3, <3>3, SummaryLast
    <3>5. a.doc.subjects = Under(world.prefix, p.subjects)
      <4>1. SummaryOf(run, a.doc.result).subjects = Under(world.prefix, p.subjects)
        BY <3>3 DEF SummaryOf
      <4> QED BY <2>4, <4>1
    <3>6. Root \in Placements(Under(world.prefix, p.subjects), p.subjects)
      BY <3>2, <3>4, <3>5 DEF PrefixOf
    <3>7. world.prefix \in Seq(STRING) BY WorldsAssumption DEF EarnedInv, InWorlds
    <3> QED BY <2>6, <3>6, <3>7, PlacedWhereSigned
  <2>8. LET deleted == Under(world.prefix, p.deleted)
            before  == Under(world.prefix, BeforeImages(p))
        IN \A n \in Changed(pull) :
             /\ n \in DOMAIN pull.head \/ n \in DOMAIN deleted
             /\ n \in DOMAIN before /\ At(pull.base, n) = before[n]
    BY <2>1, <2>7 DEF PassedIsEarned
  <2>9. DOMAIN Under(world.prefix, p.deleted) = {world.prefix \o n : n \in Removed(signed)}
    BY <2>6 DEF Under, Says
  <2>10. BeforeImages(p) = signed.before BY <2>6 DEF Says
  <2>11. RunOf(a) = signed BY DEF RunOf, RunSigned
  <2>12. Permitted /\ Installable
    <3>1. Allowed /\ Payable BY DEF EarnedInv, ReportIsEarned, Met
    <3>2. /\ p.definition = Definition(world.stages, world.lock)
          /\ p.skills = Skills(world.stages) /\ p.lock = world.lock
      BY <2>6 DEF Says
    <3>3. Permitted
      BY <3>1, <3>2, AllowedIsPermitted DEF EarnedInv, SignedInv, ChainIsOfBase
    <3> QED BY <3>1, <3>2, <3>3 DEF Payable, Installable
  <2>13. inquiry.override # "tree" /\ (inquiry.override = None => chain[1] # "tree")
    BY <2>1 DEF PassedIsEarned
  <2>14. LET before  == Under(world.prefix, signed.before)
             removed == {world.prefix \o n : n \in Removed(signed)}
         IN \A n \in Changed(pull) :
              /\ IF n \in DOMAIN pull.head THEN At(a.doc.subjects, n) = pull.head[n] ELSE n \in removed
              /\ n \in DOMAIN before /\ At(pull.base, n) = before[n]
    BY <2>2, <2>8, <2>9, <2>10
  <2> HIDE DEF signed
  <2> QED BY <2>2, <2>11, <2>12, <2>13, <2>14 DEF GateIsEarned
<1> QED BY <1>1, EarnedInit, EarnedInvStep, PTL DEF Spec

-----------------------------------------------------------------------------
(* Names under a directory *)

\* One list ends with another when it agrees with it from the end
LEMMA SuffixIs ==
  ASSUME NEW s \in Seq(STRING), NEW t \in Seq(STRING)
  PROVE  IsSuffix(s, t) <=>
           Len(s) <= Len(t) /\ \A i \in 1 .. Len(s) : s[Len(s) - i + 1] = t[Len(t) - i + 1]
<1> DEFINE r == Reverse(s)
           q == Reverse(t)
           n == Len(s)
<1>1. n \in Nat /\ Len(t) \in Nat OBVIOUS
<1>2. r \in Seq(STRING) /\ Len(r) = n /\ \A i \in 1 .. n : r[i] = s[n - i + 1]
  <2>1. r = [i \in 1 .. n |-> s[(n - i) + 1]] BY DEF Reverse
  <2>2. \A i \in 1 .. n : s[(n - i) + 1] \in STRING BY <1>1
  <2> QED BY <1>1, <2>1, <2>2
<1>3. q \in Seq(STRING) /\ Len(q) = Len(t) /\ \A i \in 1 .. Len(t) : q[i] = t[Len(t) - i + 1]
  <2>1. q = [i \in 1 .. Len(t) |-> t[(Len(t) - i) + 1]] BY DEF Reverse
  <2>2. \A i \in 1 .. Len(t) : t[(Len(t) - i) + 1] \in STRING BY <1>1
  <2> QED BY <1>1, <2>1, <2>2
<1>4. IsSuffix(s, t) <=> Len(r) <= Len(q) /\ SubSeq(r, 1, Len(r)) = SubSeq(q, 1, Len(r))
  BY DEF IsSuffix, IsPrefix
<1> HIDE DEF r, q, n
<1>5. ASSUME n <= Len(t)
      PROVE  SubSeq(r, 1, n) = SubSeq(q, 1, n) <=> \A i \in 1 .. n : r[i] = q[i]
  <2>1. \A i \in 1 .. n : r[i] \in STRING /\ q[i] \in STRING BY <1>1, <1>2, <1>3, <1>5
  <2>2. /\ SubSeq(r, 1, n) \in Seq(STRING) /\ Len(SubSeq(r, 1, n)) = n
        /\ \A i \in 1 .. n : SubSeq(r, 1, n)[i] = r[i]
    <3>1. 1 \in Int /\ n \in Int /\ (n - 1) + 1 = n /\ \A i \in 1 .. n : 1 + i - 1 = i BY <1>1
    <3> QED BY <1>1, <2>1, <3>1, SubSeqProperties
  <2>3. /\ SubSeq(q, 1, n) \in Seq(STRING) /\ Len(SubSeq(q, 1, n)) = n
        /\ \A i \in 1 .. n : SubSeq(q, 1, n)[i] = q[i]
    <3>1. 1 \in Int /\ n \in Int /\ (n - 1) + 1 = n /\ \A i \in 1 .. n : 1 + i - 1 = i BY <1>1
    <3> QED BY <1>1, <2>1, <3>1, SubSeqProperties
  <2> QED BY <1>1, <2>2, <2>3
<1>6. n <= Len(t) => \A i \in 1 .. n : q[i] = t[Len(t) - i + 1] BY <1>1, <1>3
<1>7. \A i \in 1 .. n : r[i] = s[n - i + 1] BY <1>2
<1>8. ASSUME n <= Len(t)
      PROVE  SubSeq(r, 1, n) = SubSeq(q, 1, n) <=> \A i \in 1 .. n : s[n - i + 1] = t[Len(t) - i + 1]
  <2>1. (\A i \in 1 .. n : r[i] = q[i]) <=> \A i \in 1 .. n : s[n - i + 1] = t[Len(t) - i + 1]
    <3>1. ASSUME NEW i \in 1 .. n PROVE r[i] = q[i] <=> s[n - i + 1] = t[Len(t) - i + 1]
      <4>1. r[i] = s[n - i + 1] /\ q[i] = t[Len(t) - i + 1] BY <1>6, <1>7, <1>8
      <4> QED BY <4>1, Zenon
    <3> QED BY <3>1, Zenon
  <2> QED BY <1>5, <1>8, <2>1
<1>9. IsSuffix(s, t) <=> n <= Len(t) /\ SubSeq(r, 1, n) = SubSeq(q, 1, n)
  <2>1. Len(r) = n /\ Len(q) = Len(t) BY <1>2, <1>3
  <2> QED BY <1>4, <2>1
<1>10. n = Len(s) BY DEF n
<1>11. IsSuffix(s, t) <=> n <= Len(t) /\ \A i \in 1 .. n : s[n - i + 1] = t[Len(t) - i + 1]
  BY <1>8, <1>9
<1> QED BY <1>10, <1>11

\* Of two names that end the same file one ends the other
LEMMA SuffixesOfOne ==
  ASSUME NEW m \in Seq(STRING), NEW n \in Seq(STRING), NEW t \in Seq(STRING),
         IsSuffix(m, t), IsSuffix(n, t)
  PROVE  IsSuffix(m, n) \/ IsSuffix(n, m)
<1>1. Len(m) \in Nat /\ Len(n) \in Nat OBVIOUS
<1>2. /\ \A i \in 1 .. Len(m) : m[Len(m) - i + 1] = t[Len(t) - i + 1]
      /\ \A i \in 1 .. Len(n) : n[Len(n) - i + 1] = t[Len(t) - i + 1]
  BY SuffixIs
<1>3. CASE Len(m) <= Len(n)
  <2>1. \A i \in 1 .. Len(m) : i \in 1 .. Len(n) BY <1>1, <1>3
  <2> QED BY <1>2, <1>3, <2>1, SuffixIs
<1>4. CASE Len(n) <= Len(m)
  <2>1. \A i \in 1 .. Len(n) : i \in 1 .. Len(m) BY <1>1, <1>4
  <2> QED BY <1>2, <1>4, <2>1, SuffixIs
<1> QED BY <1>1, <1>3, <1>4

\* A name under a directory, taken apart again
LEMMA NameUnder ==
  ASSUME NEW prefix \in Seq(STRING), NEW m \in Seq(STRING)
  PROVE  /\ prefix \o m \in Seq(STRING) /\ Len(prefix \o m) = Len(prefix) + Len(m)
         /\ SubSeq(prefix \o m, Len(prefix) + 1, Len(prefix \o m)) = m
         /\ SubSeq(prefix \o m, 1, Len(prefix)) = prefix
         /\ IsSuffix(m, prefix \o m)
<1> DEFINE whole == prefix \o m
           p == Len(prefix)
           k == Len(m)
<1>1. /\ p \in Nat /\ k \in Nat /\ whole \in Seq(STRING) /\ Len(whole) = p + k
      /\ \A i \in 1 .. p + k : whole[i] = IF i <= p THEN prefix[i] ELSE m[i - p]
  BY ConcatProperties
<1> HIDE DEF whole
<1>2. SubSeq(whole, p + 1, p + k) = m
  <2>1. \A i \in p + 1 .. p + k : whole[i] \in STRING BY <1>1
  <2>2. /\ SubSeq(whole, p + 1, p + k) \in Seq(STRING)
        /\ Len(SubSeq(whole, p + 1, p + k)) = k
        /\ \A i \in 1 .. k : SubSeq(whole, p + 1, p + k)[i] = whole[p + i]
    <3>1. /\ p + 1 \in Int /\ p + k \in Int /\ (p + k) - (p + 1) + 1 = k
          /\ \A i \in 1 .. k : (p + 1) + i - 1 = p + i
          /\ (IF p + 1 <= p + k THEN k ELSE 0) = k
      BY <1>1
    <3> QED BY <1>1, <2>1, <3>1, SubSeqProperties
  <2>3. \A i \in 1 .. k : whole[p + i] = m[i] BY <1>1
  <2> QED BY <1>1, <2>2, <2>3
<1>3. SubSeq(whole, 1, p) = prefix
  <2>1. \A i \in 1 .. p : whole[i] \in STRING BY <1>1
  <2>2. /\ SubSeq(whole, 1, p) \in Seq(STRING) /\ Len(SubSeq(whole, 1, p)) = p
        /\ \A i \in 1 .. p : SubSeq(whole, 1, p)[i] = whole[i]
    <3>1. 1 \in Int /\ p \in Int /\ (p - 1) + 1 = p /\ (\A i \in 1 .. p : 1 + i - 1 = i)
          /\ (IF 1 <= p THEN p ELSE 0) = p
      BY <1>1
    <3> QED BY <1>1, <2>1, <3>1, SubSeqProperties
  <2>3. \A i \in 1 .. p : whole[i] = prefix[i] BY <1>1
  <2> QED BY <1>1, <2>2, <2>3
<1>4. IsSuffix(m, whole)
  <2>1. \A i \in 1 .. k : /\ Len(whole) - i + 1 \in 1 .. p + k /\ ~(Len(whole) - i + 1 <= p)
                          /\ (Len(whole) - i + 1) - p = k - i + 1
    BY <1>1
  <2>2. \A i \in 1 .. k : m[k - i + 1] = whole[Len(whole) - i + 1] BY <1>1, <2>1
  <2>3. k <= Len(whole) BY <1>1
  <2> QED BY <1>1, <2>2, <2>3, SuffixIs
<1> QED BY <1>1, <1>2, <1>3, <1>4 DEF whole

\* Files under a directory are those of the project
LEMMA UnderIs ==
  ASSUME NEW prefix \in Seq(STRING), NEW files, DOMAIN files \subseteq Seq(STRING),
         NEW m \in Seq(STRING)
  PROVE  /\ prefix \o m \in DOMAIN Under(prefix, files) <=> m \in DOMAIN files
         /\ m \in DOMAIN files => Under(prefix, files)[prefix \o m] = files[m]
         /\ At(Under(prefix, files), prefix \o m) = At(files, m)
<1> DEFINE Local(n) == SubSeq(n, Len(prefix) + 1, Len(n))
<1>1. /\ DOMAIN Under(prefix, files) = {prefix \o n : n \in DOMAIN files}
      /\ \A n \in DOMAIN Under(prefix, files) : Under(prefix, files)[n] = files[Local(n)]
  BY DEF Under
<1>2. \A n \in Seq(STRING) : Local(prefix \o n) = n BY NameUnder
<1> HIDE DEF Local
<1>3. prefix \o m \in DOMAIN Under(prefix, files) <=> m \in DOMAIN files
  <2>1. ASSUME NEW n \in DOMAIN files, prefix \o m = prefix \o n PROVE m = n
    BY <1>2, <2>1
  <2> QED BY <1>1, <2>1
<1>4. m \in DOMAIN files => Under(prefix, files)[prefix \o m] = files[m] BY <1>1, <1>2, <1>3
<1> QED BY <1>3, <1>4 DEF At

\* A delivery in which no file ends another one with the same bytes has its place
LEMMA PlacedSomewhere ==
  ASSUME NEW prefix \in Seq(STRING), NEW subjects, DOMAIN subjects # {},
         DOMAIN subjects \subseteq Range(Names),
         \A m, n \in DOMAIN subjects : m # n /\ IsSuffix(m, n) => subjects[m] # subjects[n]
  PROVE  Placements(Under(prefix, subjects), subjects) # {}
<1> DEFINE names == Under(prefix, subjects)
           Matches(n) == {i \in DOMAIN Names : /\ Names[i] \in DOMAIN subjects
                                               /\ subjects[Names[i]] = names[n] /\ IsSuffix(Names[i], n)}
           Before(n) == SubSeq(n, 1, Len(n) - Len(Names[Min(Matches(n))]))
           found == {Before(n) : n \in DOMAIN names}
<1>1. Names \in Seq(Seq(STRING)) /\ DOMAIN subjects \subseteq Seq(STRING)
  BY ReceiptAssumption DEF Range
<1>2. DOMAIN names = {prefix \o n : n \in DOMAIN subjects} BY DEF Under
<1>3. ASSUME NEW m \in DOMAIN subjects
      PROVE  prefix \o m \in DOMAIN names /\ names[prefix \o m] = subjects[m] /\ m \in Seq(STRING)
  BY <1>1, UnderIs
<1> HIDE DEF names
<1>4. ASSUME NEW m \in DOMAIN subjects
      PROVE  Matches(prefix \o m) = {i \in DOMAIN Names : Names[i] = m}
  <2>1. m \in Seq(STRING) /\ prefix \o m \in Seq(STRING) /\ IsSuffix(m, prefix \o m)
    BY <1>3, NameUnder
  <2>2. ASSUME NEW i \in DOMAIN Names, Names[i] \in DOMAIN subjects,
               subjects[Names[i]] = subjects[m], IsSuffix(Names[i], prefix \o m)
        PROVE  Names[i] = m
    <3>1. Names[i] \in Seq(STRING) BY <1>1, <2>2
    <3>2. IsSuffix(Names[i], m) \/ IsSuffix(m, Names[i]) BY <2>1, <2>2, <3>1, SuffixesOfOne
    <3> QED BY <2>2, <3>2
  <2> QED BY <1>3, <2>1, <2>2
<1>5. ASSUME NEW m \in DOMAIN subjects
      PROVE  Matches(prefix \o m) # {} /\ Before(prefix \o m) = prefix
  <2> DEFINE same == {i \in DOMAIN Names : Names[i] = m}
  <2>1. same # {} /\ same \subseteq Nat BY <1>1 DEF Range
  <2>2. \E i \in same : \A j \in same : i <= j
    <3> HIDE DEF same
    <3> QED BY <2>1, LeastOf
  <2>3. Min(same) \in same BY <2>2 DEF Min
  <2>4. Matches(prefix \o m) = same BY <1>4
  <2>5. Names[Min(same)] = m BY <2>3
  <2> HIDE DEF same, Matches
  <2>6. Before(prefix \o m) = SubSeq(prefix \o m, 1, Len(prefix \o m) - Len(m)) BY <2>4, <2>5
  <2>7. Len(prefix \o m) - Len(m) = Len(prefix)
    <3>1. Len(prefix) \in Nat /\ Len(m) \in Nat /\ Len(prefix \o m) = Len(prefix) + Len(m)
      BY <1>3, NameUnder
    <3> QED BY <3>1
  <2>8. SubSeq(prefix \o m, 1, Len(prefix)) = prefix BY <1>3, NameUnder
  <2> QED BY <2>1, <2>4, <2>6, <2>7, <2>8
<1> HIDE DEF Matches, Before
<1>6. found = {prefix} /\ \A n \in DOMAIN names : Matches(n) # {} BY <1>2, <1>5
<1> HIDE DEF found
<1>7. Cardinality(found) = 1 BY <1>6, FS_Singleton
<1>8. Cardinality(DOMAIN names) = Cardinality(DOMAIN subjects)
  <2> DEFINE move == [m \in DOMAIN subjects |-> prefix \o m]
  <2>1. IsFiniteSet(DOMAIN subjects)
    <3>1. DOMAIN Names = 1 .. Len(Names) /\ Len(Names) \in Nat BY <1>1
    <3>2. IsFiniteSet(DOMAIN Names) BY <3>1, FS_Interval
    <3> DEFINE name == [i \in DOMAIN Names |-> Names[i]]
    <3>3. name \in Surjection(DOMAIN Names, Range(Names)) BY DEF Surjection, Range
    <3>4. IsFiniteSet(Range(Names)) BY <3>2, <3>3, FS_Surjection
    <3> QED BY <3>4, FS_Subset
  <2>2. \A m, n \in DOMAIN subjects : prefix \o m = prefix \o n => m = n
    <3> TAKE m, n \in DOMAIN subjects
    <3> HAVE prefix \o m = prefix \o n
    <3>1. /\ SubSeq(prefix \o m, Len(prefix) + 1, Len(prefix \o m)) = m
          /\ SubSeq(prefix \o n, Len(prefix) + 1, Len(prefix \o n)) = n
      BY <1>3, NameUnder
    <3> QED BY <3>1
  <2>3. move \in Bijection(DOMAIN subjects, DOMAIN names)
    <3>1. /\ move \in [DOMAIN subjects -> DOMAIN names]
          /\ \A n \in DOMAIN names : \E m \in DOMAIN subjects : move[m] = n
      BY <1>2
    <3>2. ASSUME NEW m \in DOMAIN subjects, NEW n \in DOMAIN subjects, move[m] = move[n]
          PROVE  m = n
      <4>1. move[m] = prefix \o m /\ move[n] = prefix \o n OBVIOUS
      <4> HIDE DEF move
      <4> QED BY <2>2, <3>2, <4>1
    <3> HIDE DEF move
    <3>3. move \in Injection(DOMAIN subjects, DOMAIN names) BY <3>1, <3>2 DEF Injection, IsInjective
    <3>4. move \in Surjection(DOMAIN subjects, DOMAIN names) BY <3>1 DEF Surjection
    <3> QED BY <3>3, <3>4 DEF Bijection
  <2>4. ExistsBijection(DOMAIN subjects, DOMAIN names) BY <2>3 DEF ExistsBijection
  <2> QED BY <2>1, <2>4, FS_Bijection
<1>9. Placements(names, subjects) =
        IF /\ Cardinality(DOMAIN names) = Cardinality(DOMAIN subjects)
           /\ \A n \in DOMAIN names : Matches(n) # {}
           /\ Cardinality(found) = 1
        THEN {q \in found : Under(q, subjects) = names} ELSE {}
  BY Zenon DEF Placements, found, Matches, Before
<1>10. prefix \in Placements(names, subjects) BY <1>6, <1>7, <1>8, <1>9 DEF names
<1> QED BY <1>10 DEF names

\* A receipt that is accepted beside its definition is accepted with the summary of it
LEMMA SummaryKeepsSound ==
  ASSUME InWorlds, Bundle # <<>>, Inspect(Bundle, TRUE) = "none",
         Placements(Under(world.prefix, Prov(Bundle).subjects), Prov(Bundle).subjects) # {}
  PROVE  Inspect(Append(Bundle, SummaryOf(Bundle, "PASSED")), FALSE) = "none"
<1> DEFINE b == Bundle
           doc == SummaryOf(Bundle, "PASSED")
           all == Append(b, doc)
           p == Prov(b)
           last == Len(b) + 1
<1>1. /\ b \in Seq(Range(b)) /\ IsReceiptOf(b, b[1]) /\ p = b[1]
      /\ \A i \in DOMAIN b : b[i].kind # "vsa"
  BY BundleSays, ProvenanceOf
<1>2. Integrity(b) /\ Factory(b, TRUE) /\ Checks(b) /\ OutputsRow(b) BY DEF Inspect
<1>3. /\ doc.kind = "vsa" /\ doc.sound /\ doc.inputs = b /\ doc.policy = p.definition
      /\ doc.subjects = Under(world.prefix, p.subjects)
  BY DEF SummaryOf
<1> HIDE DEF b, doc
<1>4. /\ Prov(all) = p /\ Lines(all) = b /\ The(all, "vsa") = doc /\ Number(all, "vsa") = 1
  BY <1>1, <1>3, SummaryLast
<1>5. /\ DOMAIN all = DOMAIN b \cup {last} /\ last \notin DOMAIN b /\ all[last] = doc
      /\ \A i \in DOMAIN b : all[i] = b[i]
  BY <1>1
<1> HIDE DEF all, last
<1>6. ASSUME NEW kind, kind # "vsa" PROVE Of(all, kind) = Of(b, kind)
  <2>1. {i \in DOMAIN all : all[i].kind = kind} = {i \in DOMAIN b : b[i].kind = kind}
    BY <1>3, <1>5, <1>6
  <2>2. /\ Of(all, kind) = [i \in {j \in DOMAIN all : all[j].kind = kind} |-> all[i]]
        /\ Of(b, kind) = [i \in {j \in DOMAIN b : b[j].kind = kind} |-> b[i]]
    BY DEF Of, RestrictValues, Restrict
  <2> DEFINE places == {j \in DOMAIN b : b[j].kind = kind}
  <2>3. Of(all, kind) = [i \in places |-> all[i]] /\ Of(b, kind) = [i \in places |-> b[i]]
    BY <2>1, <2>2
  <2>4. \A i \in places : all[i] = b[i] BY <1>5
  <2> HIDE DEF places
  <2>5. [i \in places |-> all[i]] = [i \in places |-> b[i]] BY <2>4
  <2> QED BY <2>3, <2>5
<1>7. \A s \in Range(Of(all, "vsa")) : s = doc
  <2> DEFINE found == Of(all, "vsa")
  <2>0. /\ DOMAIN found = {i \in DOMAIN all : all[i].kind = "vsa"}
        /\ \A i \in DOMAIN found : found[i] = all[i]
    BY Selected
  <2> HIDE DEF found
  <2>1. \A i \in DOMAIN found : i \in DOMAIN all /\ all[i].kind = "vsa" /\ found[i] = all[i]
    BY <2>0
  <2>2. \A s \in Range(found) : \E i \in DOMAIN found : s = found[i] BY DEF Range
  <2>3. \A s \in Range(found) : s = doc BY <1>1, <1>5, <2>1, <2>2
  <2> QED BY <2>3 DEF found
<1>8. The(all, "bom") = The(b, "bom")
  <2>1. PICK bom : Last(b) = bom /\ bom.kind = "bom" /\ \A s \in Range(b) : s.kind = "bom" => s = bom
    <3>1. /\ world.stages \in Seq(Range(world.stages))
          /\ \A stage \in Range(world.stages) : stage.checks \in Seq(Range(stage.checks))
      BY WorldsAssumption DEF InWorlds, IsStage
    <3>2. Inventory(Delivery(world.stages, world.base), world.lock).kind = "bom" BY DEF Inventory
    <3>3. /\ Last(b) = Inventory(Delivery(world.stages, world.base), world.lock)
          /\ \A s \in Range(b) : s.kind = "bom" => s = Inventory(Delivery(world.stages, world.base), world.lock)
      BY <3>1, ExportIsReceipt DEF Bundle, b
    <3> QED BY <3>2, <3>3
  <2>2. Last(b) \in Range(b)
    <3>1. Len(b) \in DOMAIN b BY <1>1 DEF IsReceiptOf
    <3> QED BY <3>1 DEF Last, Range
  <2>3. \A s : s \in Range(all) <=> s \in Range(b) \/ s = doc BY <1>5 DEF Range
  <2>4. bom \in Range(all) /\ \A s \in Range(all) : s.kind = "bom" => s = bom
    BY <1>3, <2>1, <2>2, <2>3
  <2>5. The(all, "bom") = bom BY <2>1, <2>4 DEF The
  <2>6. The(b, "bom") = bom BY <2>1, <2>2 DEF The
  <2> QED BY <2>5, <2>6
<1>9. Integrity(all)
  <2>1. \A i \in DOMAIN all : all[i].sound BY <1>2, <1>3, <1>5 DEF Integrity
  <2>2. Number(all, "provenance") = 1 /\ Number(all, "bom") = 1
    BY <1>2, <1>6 DEF Integrity, Number
  <2> QED BY <1>3, <1>4, <1>7, <2>1, <2>2 DEF Integrity
<1>10. Factory(all, FALSE) BY <1>2, <1>3, <1>4, <1>7, <1>8 DEF Factory, p
<1>11. Checks(all) BY <1>2, <1>4, <1>6 DEF Checks, p
<1>12. OutputsRow(all)
  <2>1. PrefixOf(all) # {} BY <1>3, <1>4 DEF PrefixOf, b
  <2>2. \A i \in DOMAIN all : all[i].kind # "vsa" => all[i].subjects = p.subjects
    BY <1>2, <1>3, <1>5 DEF OutputsRow
  <2> QED BY <1>2, <1>4, <2>1, <2>2 DEF OutputsRow, p
<1>13. all # <<>> BY <1>5 DEF last
<1>14. Inspect(all, FALSE) = "none" BY <1>9, <1>10, <1>11, <1>12, <1>13 DEF Inspect
<1> QED BY <1>14 DEF all, b, doc

-----------------------------------------------------------------------------
(* The factory's own pull request *)

TheSummary == Attestation(SummaryOf(Bundle, "PASSED"), world.cert, 5)
TheCarrier == Attestation(CarrierOf(Bundle), world.cert, 4)

LEMMA OverlayIs ==
  ASSUME NEW files, NEW changes, NEW n
  PROVE  /\ At(Overlay(files, changes), n) = IF n \in DOMAIN changes THEN changes[n] ELSE At(files, n)
         /\ n \in DOMAIN Overlay(files, changes) <=> At(Overlay(files, changes), n) # Absent
         /\ n \in DOMAIN Overlay(files, changes)
              => Overlay(files, changes)[n] = At(Overlay(files, changes), n)
<1> DEFINE After(name) == IF name \in DOMAIN changes THEN changes[name] ELSE At(files, name)
           kept == {m \in DOMAIN files \cup DOMAIN changes : After(m) # Absent}
<1>1. Overlay(files, changes) = [m \in kept |-> After(m)] BY Zenon DEF Overlay
<1>2. n \in kept <=> After(n) # Absent BY DEF At
<1> HIDE DEF After, kept
<1>3. /\ At(Overlay(files, changes), n) = After(n)
      /\ n \in DOMAIN Overlay(files, changes) <=> After(n) # Absent
      /\ n \in DOMAIN Overlay(files, changes) => Overlay(files, changes)[n] = After(n)
  BY <1>1, <1>2 DEF At
<1> QED BY <1>3 DEF After

\* What is assumed of the files of a world
LEMMA WorldFiles ==
  ASSUME InWorlds
  PROVE  /\ world.prefix \in Seq(STRING) /\ Range(Names) \subseteq Seq(STRING)
         /\ DOMAIN world.base \cup DOMAIN Delivered.files \cup DOMAIN Delivered.before \subseteq Range(Names)
         /\ \A n \in DOMAIN Delivered.files : Delivered.files[n] \notin {Absent, "link"}
         /\ world.stages \in Seq(Range(world.stages))
         /\ \A stage \in Range(world.stages) : stage.checks \in Seq(Range(stage.checks))
<1>1. PICK i \in DOMAIN Worlds : world \in Worlds[i] BY DEF InWorlds
<1>2. /\ world.prefix \in Seq(STRING) /\ world.stages \in Seq(Range(world.stages))
      /\ \A stage \in Range(world.stages) : IsStage(stage)
  BY <1>1, WorldsAssumption
<1>3. /\ DOMAIN world.base \subseteq Range(Names)
      /\ DOMAIN Delivered.files \cup DOMAIN Delivered.before \subseteq Range(Names)
  BY <1>1, NamesAssumption DEF Delivered
<1>4. \A n \in DOMAIN Delivered.files : Delivered.files[n] \notin {Absent, "link"}
  BY <1>1, RunAssumption DEF Delivered, Range
<1>5. Range(Names) \subseteq Seq(STRING) BY ReceiptAssumption DEF Range
<1> QED BY <1>2, <1>3, <1>4, <1>5 DEF IsStage

\* What it touches are the files of the run, as the run left them and as it found them
LEMMA HonestChange ==
  ASSUME InWorlds, Honest
  PROVE  /\ \A n \in Changed(pull) : \E m \in Seq(STRING) :
              /\ n = world.prefix \o m /\ m \in DOMAIN Delivered.files \cup Removed(Delivered)
              /\ n \in DOMAIN pull.head <=> m \in DOMAIN Delivered.files
              /\ n \in DOMAIN pull.head => pull.head[n] = Delivered.files[m]
              /\ At(pull.base, n) = At(world.base, m)
         /\ Sought = Present(pull)
<1>2. /\ world.prefix \in Seq(STRING) /\ Range(Names) \subseteq Seq(STRING)
      /\ DOMAIN world.base \cup DOMAIN Delivered.files \cup DOMAIN Delivered.before \subseteq Range(Names)
      /\ \A n \in DOMAIN Delivered.files : Delivered.files[n] \notin {Absent, "link"}
  BY WorldFiles
<1>3. pull.mergeBase = Repository /\ pull.base = Repository /\ pull.head = Overlay(Repository, Changes)
  BY DEF Honest
<1>4. ASSUME NEW n \in Changed(pull)
      PROVE  \E m \in Seq(STRING) :
              /\ n = world.prefix \o m /\ m \in DOMAIN Delivered.files \cup Removed(Delivered)
              /\ n \in DOMAIN pull.head <=> m \in DOMAIN Delivered.files
              /\ n \in DOMAIN pull.head => pull.head[n] = Delivered.files[m]
              /\ At(pull.base, n) = At(world.base, m)
  <2>1. At(Repository, n) # At(Overlay(Repository, Changes), n) BY <1>3 DEF Changed
  <2>2. n \in DOMAIN Changes BY <2>1, OverlayIs
  <2>3. PICK m \in DOMAIN Delivered.files \cup Removed(Delivered) : n = world.prefix \o m
    BY <2>2 DEF Changes
  <2>4. m \in Seq(STRING) BY <1>2 DEF Removed
  <2>5. Changes[n] = At(Under(world.prefix, Delivered.files), n) BY <2>2 DEF Changes
  <2>6. Changes[n] = At(Delivered.files, m)
    <3>1. DOMAIN Delivered.files \subseteq Seq(STRING) BY <1>2
    <3> QED BY <1>2, <2>3, <2>4, <2>5, <3>1, UnderIs
  <2>7. At(Repository, n) = At(world.base, m)
    <3>1. DOMAIN world.base \subseteq Seq(STRING) BY <1>2
    <3> QED BY <1>2, <2>3, <2>4, <3>1, UnderIs DEF Repository
  <2>8. At(pull.head, n) = At(Delivered.files, m) /\ (n \in DOMAIN pull.head <=> At(pull.head, n) # Absent)
    BY <1>3, <2>2, <2>6, OverlayIs
  <2>9. m \in DOMAIN Delivered.files <=> At(Delivered.files, m) # Absent BY <1>2 DEF At
  <2>10. n \in DOMAIN pull.head => pull.head[n] = Delivered.files[m] BY <2>8, <2>9 DEF At
  <2> QED BY <1>3, <2>3, <2>4, <2>7, <2>8, <2>9, <2>10
<1>5. ASSUME NEW n \in Present(pull) PROVE pull.head[n] # "link"
  <2>1. n \in Changed(pull) /\ n \in DOMAIN pull.head BY DEF Present
  <2>2. PICK m \in Seq(STRING) :
          /\ n \in DOMAIN pull.head <=> m \in DOMAIN Delivered.files
          /\ n \in DOMAIN pull.head => pull.head[n] = Delivered.files[m]
    BY <1>4, <2>1
  <2> QED BY <1>2, <2>1, <2>2
<1> QED BY <1>4, <1>5 DEF Sought

\* What one run stores fits on a page
LEMMA FewerThanAPage ==
  ASSUME NEW a, NEW b, NEW S, S \subseteq {a, b}
  PROVE  Cardinality(S) < PerPage
<1>1. IsFiniteSet({a}) /\ Cardinality({a}) = 1 BY FS_Singleton
<1>2. {a} \cup {b} = {a, b} OBVIOUS
<1>3. IsFiniteSet({a, b}) /\ Cardinality({a, b}) <= 2
  <2>1. IsFiniteSet({a} \cup {b}) /\ Cardinality({a} \cup {b}) \in {1, 2}
    BY <1>1, FS_AddElement
  <2> QED BY <1>2, <2>1
<1>4. Cardinality(S) \in Nat /\ Cardinality({a, b}) \in Nat /\ Cardinality(S) <= Cardinality({a, b})
  BY <1>3, FS_Subset, FS_CardinalityType
<1> QED BY <1>3, <1>4, AuditAssumption

\* Its summary is the only one, is vouched for and names each of its files with its bytes
LEMMA HonestStore ==
  ASSUME InWorlds, Honest, Bundle # <<>>
  PROVE  /\ Vouched(TheSummary, Signers) /\ Covers(TheSummary.doc)
         /\ \A n \in Sought : {TheSummary, TheCarrier} \subseteq Listed(pull.head[n], "home")
         /\ \A a \in store : a.doc.kind = "vsa" => a = TheSummary
<1>1. store = {TheCarrier, TheSummary} BY DEF Honest, TheSummary, TheCarrier
<1>2. /\ TheCarrier.doc.kind = "carrier" /\ TheCarrier.repo = "home" /\ TheSummary.repo = "home"
      /\ TheSummary.doc.subjects = Under(world.prefix, Prov(Bundle).subjects)
      /\ TheCarrier.doc.subjects = Under(world.prefix, Prov(Bundle).subjects)
  BY DEF TheCarrier, TheSummary, Attestation, CarrierOf, SummaryOf
<1>3. \A a \in store : a.doc.kind = "vsa" => a = TheSummary BY <1>1, <1>2
<1>4. Vouched(TheSummary, Signers)
  <2>1. PICK a \in store : Vouched(a, Signers) BY DEF Honest
  <2> QED BY <1>3, <2>1 DEF Vouched
<1>5. Prov(Bundle).subjects = Delivered.files
  <2>1. IsReceiptOf(Bundle, Bundle[1]) /\ Says(Bundle[1], Delivered) BY BundleSays DEF RunSigned
  <2>2. Prov(Bundle) = Bundle[1] BY <2>1, ProvenanceOf
  <2> QED BY <2>1, <2>2 DEF Says
<1> DEFINE subjects == Under(world.prefix, Delivered.files)
<1>6. ASSUME NEW n \in Sought
      PROVE  n \in DOMAIN subjects /\ subjects[n] = pull.head[n]
  <2>1. n \in Changed(pull) /\ n \in DOMAIN pull.head BY DEF Sought, Present
  <2>2. PICK m \in Seq(STRING) :
          /\ n = world.prefix \o m
          /\ n \in DOMAIN pull.head <=> m \in DOMAIN Delivered.files
          /\ n \in DOMAIN pull.head => pull.head[n] = Delivered.files[m]
    BY <2>1, HonestChange
  <2>3. world.prefix \in Seq(STRING) /\ DOMAIN Delivered.files \subseteq Seq(STRING)
    BY WorldFiles
  <2> QED BY <2>1, <2>2, <2>3, UnderIs
<1> HIDE DEF subjects
<1>7. Covers(TheSummary.doc) BY <1>2, <1>5, <1>6 DEF Covers, At, subjects
<1>8. ASSUME NEW n \in Sought PROVE {TheSummary, TheCarrier} \subseteq Listed(pull.head[n], "home")
  <2>1. pull.head[n] \in Range(subjects) BY <1>6 DEF Range
  <2>2. {TheSummary, TheCarrier} \subseteq Stored(pull.head[n], "home")
    BY <1>1, <1>2, <1>5, <2>1 DEF Stored, subjects
  <2>3. ASSUME NEW a PROVE Cardinality(Ahead(a, pull.head[n], "home")) < PerPage
    <3>1. Ahead(a, pull.head[n], "home") \subseteq {TheCarrier, TheSummary} BY <1>1 DEF Ahead, Stored
    <3> QED BY <3>1, FewerThanAPage
  <2>4. "home" \notin world.concealed BY DEF Honest
  <2> QED BY <2>2, <2>3, <2>4 DEF Listed
<1> QED BY <1>3, <1>4, <1>7, <1>8

\* Its receipt holds together, is bound to it and fresh
LEMMA HonestReceipt ==
  ASSUME InWorlds, Honest, ~Ambiguous, Present(pull) # {}, Bundle # <<>>, Inspect(Bundle, TRUE) = "none",
         receipt = Append(Bundle, TheSummary.doc)
  PROVE  /\ Sound /\ IsBound
         /\ Prov(receipt).definition = Definition(world.stages, world.lock)
         /\ Prov(receipt).skills = Skills(world.stages) /\ Prov(receipt).commit = world.commit
         /\ Prov(receipt).lock = <<>> => The(receipt, "bom").components = {}
<1> DEFINE p == Prov(Bundle)
           doc == TheSummary.doc
<1>1. doc = SummaryOf(Bundle, "PASSED") /\ doc.kind = "vsa" /\ doc.subjects = Under(world.prefix, p.subjects)
  BY DEF TheSummary, Attestation, SummaryOf
<1>2. /\ IsReceiptOf(Bundle, p) /\ Says(p, Delivered)
      /\ DOMAIN p.subjects # {} /\ DOMAIN p.subjects \subseteq Range(Names)
  <2>1. /\ IsReceiptOf(Bundle, Bundle[1]) /\ Says(Bundle[1], Delivered)
        /\ DOMAIN Bundle[1].subjects # {} /\ DOMAIN Bundle[1].subjects \subseteq Range(Names)
    BY BundleSays DEF RunSigned
  <2>2. p = Bundle[1] BY <2>1, ProvenanceOf
  <2> QED BY <2>1, <2>2
<1> HIDE DEF doc
<1>3. /\ Bundle \in Seq(Range(Bundle)) /\ \A i \in DOMAIN Bundle : Bundle[i].kind # "vsa"
  BY <1>2, ProvenanceOf
<1>4. Prov(receipt) = p /\ The(receipt, "vsa") = doc /\ Number(receipt, "vsa") = 1
  BY <1>1, <1>2, <1>3, SummaryLast DEF doc
<1>5. /\ p.subjects = Delivered.files /\ DOMAIN p.deleted = Removed(Delivered)
      /\ BeforeImages(p) = Delivered.before
      /\ p.definition = Definition(world.stages, world.lock) /\ p.skills = Skills(world.stages)
      /\ p.lock = world.lock
  BY <1>2 DEF Says
<1>6. /\ world.prefix \in Seq(STRING) /\ Range(Names) \subseteq Seq(STRING)
      /\ DOMAIN Delivered.files \cup DOMAIN Delivered.before \subseteq Range(Names)
      /\ \A n \in DOMAIN Delivered.before : Delivered.before[n] = At(world.base, n)
  BY WorldFiles DEF Honest
<1>7. Placements(Under(world.prefix, p.subjects), p.subjects) # {}
  <2>1. \A m, n \in DOMAIN p.subjects : m # n /\ IsSuffix(m, n) => p.subjects[m] # p.subjects[n]
    BY <1>5 DEF Ambiguous
  <2> QED BY <1>2, <1>6, <2>1, PlacedSomewhere
<1>8. Sound
  <2>1. Retained = FALSE BY DEF Retained, Honest
  <2>2. Inspect(receipt, FALSE) = "none" BY <1>1, <1>7, SummaryKeepsSound DEF doc
  <2> QED BY <2>1, <2>2 DEF Sound
<1>9. Root = world.prefix
  <2>1. PrefixOf(receipt) = Placements(Under(world.prefix, p.subjects), p.subjects)
    BY <1>1, <1>4 DEF PrefixOf
  <2>2. Root \in PrefixOf(receipt) BY <1>7, <2>1 DEF Root, Honest
  <2> QED BY <1>2, <1>6, <2>1, <2>2, PlacedWhereSigned
<1>10. \A m \in DOMAIN Delivered.files \cup Removed(Delivered) : m \in DOMAIN Delivered.before
  <2>1. OutputsRow(receipt) BY <1>8, SoundHasProvenance
  <2>2. DOMAIN p.subjects \cup DOMAIN p.deleted = DOMAIN BeforeImages(p) BY <1>4, <2>1 DEF OutputsRow
  <2> QED BY <1>5, <2>2
<1>11. ASSUME NEW n \in Changed(pull)
       PROVE  /\ IF n \in DOMAIN pull.head THEN At(Under(world.prefix, p.subjects), n) = pull.head[n]
                 ELSE n \in DOMAIN Under(world.prefix, p.deleted)
              /\ n \in DOMAIN Under(world.prefix, BeforeImages(p))
              /\ At(pull.base, n) = Under(world.prefix, BeforeImages(p))[n]
  <2>1. PICK m \in Seq(STRING) :
          /\ n = world.prefix \o m /\ m \in DOMAIN Delivered.files \cup Removed(Delivered)
          /\ n \in DOMAIN pull.head <=> m \in DOMAIN Delivered.files
          /\ n \in DOMAIN pull.head => pull.head[n] = Delivered.files[m]
          /\ At(pull.base, n) = At(world.base, m)
    BY <1>11, HonestChange
  <2>2. At(Under(world.prefix, p.subjects), n) = At(Delivered.files, m)
    <3>1. DOMAIN p.subjects \subseteq Seq(STRING) BY <1>2, <1>6
    <3> QED BY <1>5, <1>6, <2>1, <3>1, UnderIs
  <2>3. m \in Removed(Delivered) => n \in DOMAIN Under(world.prefix, p.deleted)
    <3>1. DOMAIN Under(world.prefix, p.deleted) = {world.prefix \o k : k \in Removed(Delivered)}
      BY <1>5 DEF Under
    <3> QED BY <2>1, <3>1
  <2>4. /\ n \in DOMAIN Under(world.prefix, Delivered.before)
        /\ Under(world.prefix, Delivered.before)[n] = Delivered.before[m]
    <3>1. DOMAIN Delivered.before \subseteq Seq(STRING) /\ m \in DOMAIN Delivered.before
      BY <1>6, <1>10, <2>1
    <3> DEFINE before == Delivered.before
    <3>2. world.prefix \in Seq(STRING) /\ DOMAIN before \subseteq Seq(STRING) /\ m \in DOMAIN before
      BY <1>6, <3>1
    <3> HIDE DEF before
    <3>3. /\ world.prefix \o m \in DOMAIN Under(world.prefix, before)
          /\ Under(world.prefix, before)[world.prefix \o m] = before[m]
      BY <3>2, UnderIs
    <3> QED BY <2>1, <3>3 DEF before
  <2>5. Delivered.before[m] = At(world.base, m) BY <1>6, <1>10, <2>1
  <2> QED BY <1>5, <2>1, <2>2, <2>3, <2>4, <2>5 DEF At
<1>12. p.commit = world.commit
  <2> DEFINE first == Provenance(world.stages, Delivery(world.stages, world.base), world.lock, world.commit)
  <2>1. /\ world.stages \in Seq(Range(world.stages))
        /\ \A stage \in Range(world.stages) : stage.checks \in Seq(Range(stage.checks))
    BY WorldFiles
  <2>2. IsReceiptOf(Bundle, first) BY <2>1, ExportIsReceipt DEF Bundle
  <2>3. first.commit = world.commit BY DEF Provenance
  <2> HIDE DEF first
  <2> QED BY <2>2, <2>3, ProvenanceOf
<1>14. IsBound
  <2>1. Changed(pull) # {} BY DEF Present
  <2>2. Bound(pull, receipt, Root) BY <1>4, <1>9, <1>11, <2>1 DEF Bound
  <2>3. Fresh(pull, receipt, Root) BY <1>4, <1>9, <1>11 DEF Fresh
  <2>4. p.commit \notin {"missing", "stray"} BY <1>12 DEF Honest, None
  <2> QED BY <1>4, <2>2, <2>3, <2>4 DEF IsBound
<1>13. p.lock = <<>> => The(receipt, "bom").components = {}
  <2> DEFINE bom == Inventory(Delivery(world.stages, world.base), world.lock)
  <2>1. /\ world.stages \in Seq(Range(world.stages))
        /\ \A stage \in Range(world.stages) : stage.checks \in Seq(Range(stage.checks))
    BY WorldFiles
  <2>2. Last(Bundle) = bom /\ \A s \in Range(Bundle) : s.kind = "bom" => s = bom
    BY <2>1, ExportIsReceipt DEF Bundle
  <2>3. bom.kind = "bom" /\ bom.components = UNION Range(world.lock) BY DEF Inventory
  <2> HIDE DEF bom
  <2>4. Last(Bundle) \in Range(Bundle)
    <3>1. Len(Bundle) \in DOMAIN Bundle BY <1>2 DEF IsReceiptOf
    <3> QED BY <3>1 DEF Last, Range
  <2>5. \A s : s \in Range(receipt) <=> s \in Range(Bundle) \/ s = doc
    <3>1. /\ DOMAIN receipt = DOMAIN Bundle \cup {Len(Bundle) + 1} /\ receipt[Len(Bundle) + 1] = doc
          /\ \A i \in DOMAIN Bundle : receipt[i] = Bundle[i]
      BY <1>3 DEF doc
    <3> QED BY <3>1 DEF Range
  <2>6. bom \in Range(receipt) /\ \A s \in Range(receipt) : s.kind = "bom" => s = bom
    BY <1>1, <2>2, <2>4, <2>5 DEF doc
  <2>7. The(receipt, "bom") = bom BY <2>3, <2>6 DEF The
  <2>8. world.lock = <<>> => UNION Range(world.lock) = {} BY DEF Range
  <2> QED BY <1>5, <2>3, <2>7, <2>8
<1> QED BY <1>4, <1>5, <1>8, <1>12, <1>13, <1>14

-----------------------------------------------------------------------------
(* What becomes of it *)

\* The delivery of some file, as the property speaks of it
Faithful == Honest /\ ~Ambiguous /\ Present(pull) # {}

\* Nothing that was answered is open, and nothing was refused but for the open question
\* of the commit it was built on
Open(a) ==
  \/ a.result = "valid"
  \/ a.result = "incomplete" /\ doubt
  \/ a.result = "invalid" /\ doubt /\ a.reason = "Outputs" /\ world.commit # None

\* No question was spent twice, and one that would have found the summary stayed unanswered
Asking ==
  /\ look.left \subseteq Questions /\ look.asked = Cardinality(Questions \ look.left)
  /\ \A q \in Questions \ look.left : q.repo = "home" => look.unanswered /\ doubt

\* The summary is found, or who vouches for it is still to be asked, or could not be
Finding ==
  \/ look.summary = {TheSummary}
  \/ /\ look.summary = {}
     /\ \/ \E s \in look.signers : Vouched(TheSummary, {s})
        \/ doubt /\ (look.unresolved \/ look.unanswered)

HonestGoesOn ==
  Faithful /\ place \in {"lookup", "check", "inspect", "rules", "done"} =>
    /\ Open(audit)
    /\ place \in {"lookup", "check", "inspect"} => audit.result = "valid"
    /\ place = "lookup" => Asking
    /\ place = "check" => look.files[1] \in Sought /\ Finding
    /\ place \in {"inspect", "rules"} => receipt = Append(Bundle, TheSummary.doc)

\* The platform signs what it has verified (action.yml)
CarrierIsSound == (\E a \in store : a.doc.kind = "carrier") => Inspect(Bundle, TRUE) = "none"

LEMMA CarrierInit == Init => CarrierIsSound
<1> SUFFICES ASSUME Init, NEW a \in store, a.doc.kind = "carrier" PROVE FALSE BY DEF CarrierIsSound
<1>1. PICK rival \in world.rivals : a =
        CASE rival = "foreign" ->
               Attestation(SummaryOf(Bundle, "PASSED"), [world.cert EXCEPT !.workflow = "other"], 1)
          [] rival = "failed"  -> Attestation(SummaryOf(Bundle, "FAILED"), world.cert, 2)
          [] rival = "older"   -> Attestation(SummaryOf(OlderBundle, "PASSED"), world.cert, 3)
  BY DEF Rivals, Init
<1>2. rival \in {"foreign", "failed", "older"} BY WorldsAssumption DEF Init
<1> QED BY <1>1, <1>2 DEF Attestation, SummaryOf

LEMMA CarrierStep ==
  ASSUME CarrierIsSound, [Next]_vars
  PROVE  CarrierIsSound'
<1>1. Bundle' = Bundle BY WorldStays DEF Bundle
<1>2. CASE AttestBundle BY <1>1, <1>2 DEF AttestBundle, CarrierIsSound
<1>3. CASE AttestSummary
  <2>1. Attestation(SummaryOf(Bundle, "PASSED"), world.cert, 5).doc.kind = "vsa"
    BY DEF Attestation, SummaryOf
  <2> QED BY <1>1, <1>3, <2>1 DEF AttestSummary, CarrierIsSound
<1>4. CASE UNCHANGED store BY <1>1, <1>4 DEF CarrierIsSound
<1> QED BY <1>2, <1>3, <1>4, StoreWriters

LEMMA IncompleteResult ==
  ASSUME NEW a, IsReport(a), NEW name
  PROVE  /\ IsReport(Incomplete(a, name))
         /\ Incomplete(a, name).result = IF a.result = "valid" THEN "incomplete" ELSE a.result
<1> DEFINE warned == Put(a, name, "warn")
<1>1. IsReport(warned) /\ warned.result = a.result BY PutReport
<1>2. Incomplete(a, name) =
        IF a.result = "valid" THEN [warned EXCEPT !.result = "incomplete", !.reason = name] ELSE warned
  BY DEF Incomplete
<1> HIDE DEF warned
<1> QED BY <1>1, <1>2, IncompleteReport DEF IsReport

\* While the audit looks and judges, nothing of this changes
LEMMA FaithfulStays ==
  ASSUME Same
  PROVE  /\ Faithful' = Faithful /\ Sought' = Sought /\ Questions' = Questions
         /\ Bundle' = Bundle /\ TheSummary' = TheSummary
         /\ \A s : Vouched(TheSummary, {s})' <=> Vouched(TheSummary, {s})
<1>1. /\ UNCHANGED <<inquiry, chain, resolution, world, store, pull>> BY DEF Same, policyVars
<1>2. Bundle' = Bundle /\ Delivered' = Delivered BY <1>1 DEF Bundle, Delivered
<1>3. TheSummary' = TheSummary BY <1>1, <1>2 DEF TheSummary, SummaryOf
<1>4. Present(pull)' = Present(pull) /\ Sought' = Sought BY <1>1 DEF Sought, Present, Changed
<1>5. Signers' = Signers /\ Rules' = Rules /\ Gate' = Gate BY SameMeaning
<1>6. Questions' = Questions BY <1>1, <1>4, <1>5 DEF Questions, Home, Position
<1>7. \A a, entries : Vouched(a, entries)' <=> Vouched(a, entries)
  BY <1>1 DEF Vouched, Home, Pinned
<1>8. Ambiguous' = Ambiguous BY <1>2 DEF Ambiguous
<1>9. Permitted' = Permitted
  <2>1. Levels' = Levels /\ Applies' = Applies BY <1>1 DEF Levels, Applies
  <2> QED BY <1>1, <1>5, <2>1 DEF Permitted
<1>10. Repository' = Repository /\ Changes' = Changes BY <1>1, <1>2 DEF Repository, Changes
<1>11. Honest' = Honest
  <2>1. (\E a \in store : Vouched(a, Signers))' <=> \E a \in store : Vouched(a, Signers)
    BY <1>1, <1>5, <1>7
  <2>2. (store = {Attestation(CarrierOf(Bundle), world.cert, 4), Attestation(SummaryOf(Bundle, "PASSED"), world.cert, 5)})'
          <=> store = {Attestation(CarrierOf(Bundle), world.cert, 4), Attestation(SummaryOf(Bundle, "PASSED"), world.cert, 5)}
    BY <1>1, <1>2 DEF CarrierOf, SummaryOf
  <2>3. (\A n \in DOMAIN Delivered.before : Delivered.before[n] = At(world.base, n))'
          <=> \A n \in DOMAIN Delivered.before : Delivered.before[n] = At(world.base, n)
    BY <1>1, <1>2
  <2> QED BY <1>1, <1>5, <1>6, <1>9, <1>10, <2>1, <2>2, <2>3 DEF Honest
<1> QED BY <1>2, <1>3, <1>4, <1>6, <1>7, <1>8, <1>11 DEF Faithful

\* So a delivery ends
LEMMA EndsOpen ==
  ASSUME Same, place' = "done",
         Faithful => \/ audit'.result = "valid"
                     \/ audit'.result = "incomplete" /\ doubt'
                     \/ /\ audit'.result = "invalid" /\ doubt'
                        /\ audit'.reason = "Outputs" /\ world.commit # None
  PROVE  HonestGoesOn'
BY FaithfulStays DEF HonestGoesOn, Open, Same

\* A question to the repository of the summary finds it
LEMMA HomeIsListed ==
  ASSUME InWorlds, Faithful, Bundle # <<>>, NEW q \in Questions, q.repo = "home"
  PROVE  Listed(pull.head[q.path], q.repo) # {}
<1>1. q.path \in Sought BY DEF Questions
<1> QED BY <1>1, HonestStore DEF Faithful

\* There is such a question
LEMMA HomeIsAsked ==
  ASSUME InWorlds, PullIsKnown, Faithful, Bundle # <<>>
  PROVE  \E q \in Questions : q.repo = "home"
<1>1. PICK s \in Signers : Home(s) = TheSummary.repo BY HonestStore DEF Vouched, Faithful
<1>2. Home(s) = "home" BY <1>1 DEF TheSummary, Attestation
<1>3. PICK n \in Sought : TRUE BY HonestChange DEF Faithful
<1> QED BY <1>2, <1>3, EveryContentIsAsked DEF None

LEMMA AskingStep ==
  ASSUME InWorlds, PullIsKnown, LookIsRecord, IsReport(audit), Bundle # <<>>, HonestGoesOn,
         NEW question \in look.left, LookUp(question)
  PROVE  HonestGoesOn'
<1>1. Same /\ place = "lookup" BY DEF LookUp, Audited, Same
<1> DEFINE asked == [look EXCEPT !.left = @ \ {question}, !.asked = @ + 1]
<1>2. /\ asked.left = look.left \ {question} /\ asked.asked = look.asked + 1
      /\ asked.unanswered = look.unanswered
      /\ Unanswered(asked).left = look.left \ {question} /\ Unanswered(asked).asked = look.asked + 1
      /\ Unanswered(asked).unanswered
  BY DEF LookIsRecord, Unanswered
<1>3. SUFFICES ASSUME Faithful PROVE HonestGoesOn' BY <1>1, FaithfulStays DEF HonestGoesOn
<1>4. Asking /\ audit.result = "valid" /\ Sought = Present(pull) BY <1>1, <1>3, HonestChange DEF HonestGoesOn, Faithful
<1>5. question \in Questions /\ question.path \in Sought BY <1>4 DEF Asking, Questions
<1>6. Questions \ (look.left \ {question}) = (Questions \ look.left) \cup {question}
      /\ question \notin Questions \ look.left
  BY <1>5
<1>7. Cardinality(Questions \ (look.left \ {question})) = look.asked + 1
  <2>1. IsFiniteSet(Questions) BY <1>3 DEF Faithful, Honest
  <2> DEFINE spent == Questions \ look.left
  <2>2. IsFiniteSet(spent) BY <2>1, FS_Subset
  <2>3. look.asked = Cardinality(spent) BY <1>4 DEF Asking
  <2>4. Questions \ (look.left \ {question}) = spent \cup {question} /\ question \notin spent
    BY <1>6
  <2> HIDE DEF spent
  <2>5. Cardinality(spent \cup {question}) = Cardinality(spent) + 1 BY <2>2, <2>4, FS_AddElement
  <2> QED BY <2>3, <2>4, <2>5
<1>8. CASE /\ Go("check", audit) /\ look' = AskOf(FilesFrom(question.path)) /\ UNCHANGED doubt
  <2>1. look'.files[1] = question.path BY <1>8, FirstOfFiles DEF AskOf, NothingAsked
  <2>2. look'.summary = {} /\ look'.signers = Signers BY <1>8, NothingAskedIsHonest
  <2>3. \E s \in Signers : Vouched(TheSummary, {s}) BY <1>3, HonestStore DEF Vouched, Faithful
  <2>4. place' = "check" /\ audit' = audit BY <1>8 DEF Go
  <2>5. Sought' = Sought /\ TheSummary' = TheSummary
        /\ \A s : Vouched(TheSummary, {s})' <=> Vouched(TheSummary, {s})
    BY <1>1, FaithfulStays
  <2>6. Finding' BY <2>2, <2>3, <2>5 DEF Finding
  <2> QED BY <1>4, <1>5, <2>1, <2>4, <2>5, <2>6 DEF HonestGoesOn, Open
<1>9. CASE /\ Listed(pull.head[question.path], question.repo) = {}
           /\ look' = asked /\ UNCHANGED <<audit, place, doubt>>
  <2>1. question.repo # "home" BY <1>3, <1>5, <1>9, HomeIsListed
  <2>2. look'.left = look.left \ {question} /\ look'.asked = look.asked + 1
        /\ look'.unanswered = look.unanswered
    BY <1>2, <1>9
  <2>3. Asking' BY <1>1, <1>4, <1>6, <1>7, <1>9, <2>1, <2>2, FaithfulStays DEF Asking
  <2> QED BY <1>1, <1>4, <1>9, <2>3 DEF HonestGoesOn, Open
<1>10. CASE look' = Unanswered(asked) /\ doubt' = TRUE /\ UNCHANGED <<audit, place>>
  <2>1. look'.left = look.left \ {question} /\ look'.asked = look.asked + 1 /\ look'.unanswered
    BY <1>2, <1>10
  <2>2. Asking' BY <1>1, <1>4, <1>6, <1>7, <1>10, <2>1, FaithfulStays DEF Asking
  <2> QED BY <1>1, <1>4, <1>10, <2>2 DEF HonestGoesOn, Open
<1> HIDE DEF asked
<1> QED BY <1>4, <1>8, <1>9, <1>10 DEF LookUp, asked

LEMMA NotDeliveredStep ==
  ASSUME InWorlds, PullIsKnown, IsReport(audit), Bundle # <<>>, HonestGoesOn, NotDelivered
  PROVE  HonestGoesOn'
<1>1. Same /\ place = "lookup" /\ look.left = {} BY DEF NotDelivered, Audited, Same
<1>2. ASSUME Faithful PROVE audit'.result = "incomplete" /\ doubt'
  <2>1. Asking /\ audit.result = "valid" BY <1>1, <1>2 DEF HonestGoesOn
  <2>2. look.unanswered /\ doubt BY <1>1, <1>2, <2>1, HomeIsAsked DEF Asking
  <2>3. audit' = NotEvaluated(Incomplete(audit, "Identity")) /\ doubt' = doubt
    BY <2>2 DEF NotDelivered, Finish
  <2> QED BY <2>1, <2>2, <2>3, NotEvaluatedReport, IncompleteResult
<1>3. place' = "done" BY DEF NotDelivered, Finish
<1> QED BY <1>1, <1>2, <1>3, EndsOpen

\* The questions are enough
LEMMA TooManyStep ==
  ASSUME HonestGoesOn, TooMany
  PROVE  HonestGoesOn'
<1>1. Same /\ place = "lookup" BY DEF TooMany, Audited, Same
<1>2. ~Faithful
  <2> SUFFICES ASSUME Faithful PROVE FALSE OBVIOUS
  <2>1. Asking BY <1>1 DEF HonestGoesOn
  <2>2. IsFiniteSet(Questions) /\ Cardinality(Questions) <= MaxLookups BY DEF Faithful, Honest
  <2>3. look.left # {} /\ Cardinality(Questions \ look.left) = MaxLookups BY <2>1 DEF TooMany, Asking
  <2>4. Cardinality(Questions) \in Nat /\ MaxLookups \in Nat BY <2>2, FS_CardinalityType, AuditAssumption
  <2>5. Cardinality(Questions \ look.left) <= Cardinality(Questions) BY <2>2, FS_Subset
  <2>6. Questions = Questions \ look.left BY <2>2, <2>3, <2>4, <2>5, FS_Subset
  <2> QED BY <2>1, <2>3, <2>6 DEF Asking
<1> QED BY <1>1, <1>2, FaithfulStays DEF HonestGoesOn

\* A signer that is asked finds the summary, or leaves what is known as it was
LEMMA WeighFinds ==
  ASSUME InWorlds, Faithful, Bundle # <<>>, LookIsRecord, look.files[1] \in Sought,
         NEW signer, NEW tags \in BOOLEAN,
         NEW after \in Weigh(pull.head[look.files[1]], signer, tags)
  PROVE  /\ after.files = look.files
         /\ \/ after.summary = {TheSummary}
            \/ /\ after.summary = look.summary /\ after.signers = look.signers \ {signer}
               /\ look.unanswered => after.unanswered
               /\ look.unresolved => after.unresolved
               /\ Vouched(TheSummary, {signer}) => ~tags /\ after.unresolved
<1> DEFINE content == pull.head[look.files[1]]
           found == Verified(content, signer)
           good == {a \in found : Passes(a, signer)}
           accepted == {a \in good : signer.sha \in {None, a.cert.at} \/ (tags /\ Pinned(a, signer))}
           listed == {a \in Listed(content, Home(signer)) : a.doc.kind = "vsa"}
           ignored == found # good \/ (found = {} /\ listed # {})
<1>1. /\ Gate /\ Covers(TheSummary.doc) /\ TheSummary \in Listed(content, "home")
      /\ \A a \in store : a.doc.kind = "vsa" => a = TheSummary
  BY HonestStore DEF Faithful, Honest
<1>2. \A a \in accepted : a = TheSummary BY <1>1 DEF Verified, Listed, Stored
<1>3. Vouched(TheSummary, {signer}) => TheSummary \in good /\ (tags => TheSummary \in accepted)
  <2> SUFFICES ASSUME Vouched(TheSummary, {signer})
               PROVE  TheSummary \in good /\ (tags => TheSummary \in accepted)
    OBVIOUS
  <2>1. /\ TheSummary.doc.kind = "vsa" /\ TheSummary.doc.result = "PASSED"
        /\ signer.workflow = TheSummary.cert.workflow /\ Home(signer) = TheSummary.repo
        /\ signer.ref \in {None, TheSummary.cert.ref} /\ Pinned(TheSummary, signer)
    BY DEF Vouched
  <2>2. TheSummary.repo = "home" BY DEF TheSummary, Attestation
  <2>3. TheSummary \in found BY <1>1, <2>1, <2>2 DEF Verified
  <2>4. Passes(TheSummary, signer) BY <1>1, <2>1 DEF Passes
  <2> QED BY <2>1, <2>3, <2>4
<1>4. CASE accepted # {}
  <2>1. PICK a \in accepted : after = [look EXCEPT !.summary = {a}, !.signers = {}]
    BY <1>4, Zenon DEF Weigh
  <2>2. a = TheSummary BY <1>2, <2>1
  <2> HIDE DEF accepted
  <2> QED BY <2>1, <2>2 DEF LookIsRecord
<1>5. CASE accepted = {}
  <2>1. after = [look EXCEPT !.signers = @ \ {signer},
                             !.ignored = @ \/ ignored,
                             !.unresolved = @ \/ (~tags /\ good # {}),
                             !.wrong = @ \/ (tags /\ good # {})]
    BY <1>5, Zenon DEF Weigh
  <2>2. Vouched(TheSummary, {signer}) => ~tags /\ good # {} BY <1>3, <1>5
  <2> HIDE DEF ignored, good
  <2> QED BY <2>1, <2>2 DEF LookIsRecord
<1> QED BY <1>4, <1>5

LEMMA HonestCheckStep ==
  ASSUME InWorlds, LookIsHonest, Bundle # <<>>, HonestGoesOn,
         NEW signer \in look.signers, CheckSigner(signer)
  PROVE  HonestGoesOn'
<1>1. Same /\ place = "check" /\ UNCHANGED <<place, audit>> BY DEF CheckSigner, Audited, Same
<1>2. SUFFICES ASSUME Faithful PROVE HonestGoesOn' BY <1>1, FaithfulStays DEF HonestGoesOn
<1>3. audit.result = "valid" /\ look.files[1] \in Sought /\ Finding BY <1>1, <1>2 DEF HonestGoesOn
<1>4. LookIsRecord BY DEF LookIsHonest
<1>5. SUFFICES look'.files = look.files /\ Finding'
  BY <1>1, <1>3, FaithfulStays DEF HonestGoesOn, Open
<1>6. TheSummary' = TheSummary /\ \A s : Vouched(TheSummary, {s})' <=> Vouched(TheSummary, {s})
  BY <1>1, FaithfulStays
<1>7. CASE look' = [Unanswered(look) EXCEPT !.signers = @ \ {signer}] /\ doubt' = TRUE
  <2>1. look'.files = look.files /\ look'.summary = look.summary /\ look'.unanswered
    BY <1>4, <1>7 DEF LookIsRecord, Unanswered
  <2> QED BY <1>3, <1>6, <1>7, <2>1 DEF Finding
<1>8. CASE \E tags \in BOOLEAN : /\ look' \in Weigh(Content(look.files[1]), signer, tags)
                                 /\ doubt' = (doubt \/ ~tags)
  <2>1. PICK tags \in BOOLEAN : /\ look' \in Weigh(pull.head[look.files[1]], signer, tags)
                                /\ doubt' = (doubt \/ ~tags)
    BY <1>2, <1>8 DEF Content, Faithful, Honest
  <2>2. /\ look'.files = look.files
        /\ \/ look'.summary = {TheSummary}
           \/ /\ look'.summary = look.summary /\ look'.signers = look.signers \ {signer}
              /\ look.unanswered => look'.unanswered
              /\ look.unresolved => look'.unresolved
              /\ Vouched(TheSummary, {signer}) => ~tags /\ look'.unresolved
    BY <1>2, <1>3, <1>4, <2>1, WeighFinds
  <2>3. CASE look'.summary = {TheSummary} \/ look.summary = {TheSummary}
    BY <1>6, <2>2, <2>3 DEF Finding
  <2>4. CASE look'.summary # {TheSummary} /\ look.summary # {TheSummary}
    <3>0. look'.files = look.files BY <2>2
    <3>1. /\ look'.summary = {} /\ look'.signers = look.signers \ {signer}
          /\ look.unanswered => look'.unanswered
          /\ look.unresolved => look'.unresolved
          /\ Vouched(TheSummary, {signer}) => ~tags /\ look'.unresolved
          /\ \/ \E s \in look.signers : Vouched(TheSummary, {s})
             \/ doubt /\ (look.unresolved \/ look.unanswered)
      BY <1>3, <2>2, <2>4 DEF Finding
    <3>2. CASE doubt /\ (look.unresolved \/ look.unanswered)
      <4>1. doubt' = TRUE BY <2>1, <3>2
      <4>2. look'.unresolved \/ look'.unanswered BY <3>1, <3>2, Zenon
      <4> QED BY <3>0, <3>1, <4>1, <4>2, Zenon DEF Finding
    <3>3. CASE Vouched(TheSummary, {signer})
      <4>1. look'.unresolved /\ doubt' = TRUE BY <2>1, <3>1, <3>3
      <4> QED BY <3>0, <3>1, <4>1, Zenon DEF Finding
    <3>4. CASE \E s \in look.signers : s # signer /\ Vouched(TheSummary, {s})
      <4>1. PICK s \in look.signers : s # signer /\ Vouched(TheSummary, {s}) BY <3>4
      <4>2. s \in look'.signers /\ Vouched(TheSummary, {s})' BY <1>6, <3>1, <4>1
      <4> QED BY <3>0, <3>1, <4>2, Zenon DEF Finding
    <3> QED BY <3>1, <3>2, <3>3, <3>4
  <2> QED BY <2>2, <2>3, <2>4
<1> QED BY <1>7, <1>8 DEF CheckSigner

\* When every signer was asked, the summary is there, or a question stayed open
LEMMA AllAskedOfFaithful ==
  ASSUME Faithful, HonestGoesOn, place = "check", look.signers = {}
  PROVE  \/ look.summary = {TheSummary} /\ IdentityStatus = "signed"
         \/ doubt /\ IdentityStatus \in {"unresolved", "unavailable"}
<1>1. Finding BY DEF HonestGoesOn
<1>2. CASE look.summary = {TheSummary} BY <1>2 DEF IdentityStatus
<1>3. ASSUME look.summary = {}, doubt, look.unresolved \/ look.unanswered
      PROVE  IdentityStatus \in {"unresolved", "unavailable"}
  <2>1. look.unresolved => IdentityStatus = "unresolved" BY <1>3 DEF IdentityStatus
  <2>2. ~look.unresolved /\ look.unanswered => IdentityStatus = "unavailable"
    BY <1>3 DEF IdentityStatus
  <2> QED BY <1>3, <2>1, <2>2, Zenon
<1> QED BY <1>1, <1>2, <1>3, Zenon DEF Finding

LEMMA IdentityResults ==
  ASSUME NEW a, IsReport(a), a.result = "valid"
  PROVE  /\ IdentityRow(a, "signed").result = "valid"
         /\ \A status \in {"unresolved", "unavailable"} :
              IdentityRow(a, status).result \in {"valid", "incomplete"}
<1>1. IsReport(Put(a, "Identity", "pass")) /\ Put(a, "Identity", "pass").result = "valid" BY PutReport
<1>2. IdentityRow(a, "signed") = [Put(a, "Identity", "pass") EXCEPT !.signer = Summed.cert.workflow]
  BY DEF IdentityRow
<1>3. IdentityRow(a, "signed").result = "valid" BY <1>1, <1>2 DEF IsReport
<1>4. ASSUME NEW status \in {"unresolved", "unavailable"}
      PROVE  IdentityRow(a, status) \in {Incomplete(a, "Identity"), Put(a, "Identity", "warn")}
  BY DEF IdentityRow
<1>5. Put(a, "Identity", "warn").result = "valid" BY PutReport
<1>6. Incomplete(a, "Identity").result = "incomplete" BY IncompleteResult
<1> QED BY <1>3, <1>4, <1>5, <1>6

LEMMA UndecidedStep ==
  ASSUME IsReport(audit), HonestGoesOn, GateUndecided
  PROVE  HonestGoesOn'
<1>1. /\ Same /\ place = "check" /\ look.signers = {} /\ place' = "done" /\ doubt' = doubt
  BY DEF GateUndecided, AllAsked, Audited, Same, Finish
<1>2. ASSUME Faithful PROVE audit'.result = "incomplete" /\ doubt'
  <2> DEFINE row == IdentityRow(audit, IdentityStatus)
  <2>1. audit.result = "valid" BY <1>1, <1>2 DEF HonestGoesOn
  <2>2. doubt /\ IdentityStatus \in {"unresolved", "unavailable"}
    BY <1>1, <1>2, AllAskedOfFaithful DEF GateUndecided
  <2>3. IsReport(row) /\ row.result \in {"valid", "incomplete"}
    BY <2>1, <2>2, IdentityResults, IdentityRowReport
  <2>4. audit' = NotEvaluated(IF row.result = "valid" THEN Incomplete(row, "Identity") ELSE row)
    BY DEF GateUndecided, Finish
  <2> HIDE DEF row
  <2>5. CASE row.result = "valid"
    <3>1. audit' = NotEvaluated(Incomplete(row, "Identity")) BY <2>4, <2>5
    <3>2. IsReport(Incomplete(row, "Identity")) /\ Incomplete(row, "Identity").result = "incomplete"
      BY <2>3, <2>5, IncompleteResult
    <3> QED BY <1>1, <2>2, <3>1, <3>2, NotEvaluatedReport
  <2>6. CASE row.result = "incomplete"
    BY <1>1, <2>2, <2>3, <2>4, <2>6, NotEvaluatedReport
  <2> QED BY <2>3, <2>5, <2>6
<1> QED BY <1>1, <1>2, EndsOpen

\* The statements the summary names are those the platform uploaded
LEMMA FetchesStep ==
  ASSUME InWorlds, IsReport(audit), Bundle # <<>>, HonestGoesOn, GateFetches
  PROVE  HonestGoesOn'
<1>1. Same /\ place = "check" /\ look.signers = {} /\ IdentityStatus = "signed"
  BY DEF GateFetches, AllAsked, Audited, Same
<1>2. SUFFICES ASSUME Faithful PROVE HonestGoesOn' BY <1>1, FaithfulStays DEF HonestGoesOn
<1>3. audit.result = "valid" /\ look.files[1] \in Sought BY <1>1, <1>2 DEF HonestGoesOn
<1>4. look.summary = {TheSummary} BY <1>1, <1>2, AllAskedOfFaithful
<1>5. Summed = TheSummary BY <1>4 DEF Summed
<1>6. /\ Summed.doc.inputs = Bundle /\ Summed.repo = "home" /\ Summed.cert = world.cert
      /\ TheCarrier.doc.kind = "carrier" /\ TheCarrier.cert = world.cert /\ TheCarrier.doc.lines = Bundle
  BY <1>5 DEF TheSummary, TheCarrier, Attestation, SummaryOf, CarrierOf
<1>7. TheCarrier \in Listed(Content(look.files[1]), "home")
  BY <1>2, <1>3, HonestStore DEF Content, Faithful, Honest
<1>8. Range(Summed.doc.inputs) \subseteq Carried BY <1>6, <1>7 DEF Carried
<1>9. /\ place' = "inspect" /\ audit' = IdentityRow(audit, "signed")
      /\ receipt' = Append(Summed.doc.inputs, Summed.doc)
  BY <1>8 DEF GateFetches, Go
<1>10. audit'.result = "valid" BY <1>3, <1>9, IdentityResults
<1>11. receipt' = Append(Bundle', TheSummary'.doc) BY <1>1, <1>5, <1>6, <1>9, FaithfulStays
<1> QED BY <1>9, <1>10, <1>11 DEF HonestGoesOn, Open

LEMMA FetchFailsStep ==
  ASSUME IsReport(audit), HonestGoesOn, FetchFails
  PROVE  HonestGoesOn'
<1>1. Same /\ place = "check" /\ doubt' /\ (place' = "raised" \/ place' = "done")
  BY DEF FetchFails, Audited, Same, Finish
<1>2. ASSUME Faithful, place' = "done" PROVE audit'.result = "incomplete"
  <2> DEFINE row == IdentityRow(audit, "signed")
  <2>1. audit.result = "valid" BY <1>1, <1>2 DEF HonestGoesOn
  <2>2. IsReport(row) /\ row.result = "valid" BY <2>1, IdentityResults, IdentityRowReport
  <2>3. audit' = NotEvaluated(Incomplete(row, "Integrity")) BY <1>2 DEF FetchFails, Finish
  <2> HIDE DEF row
  <2>4. IsReport(Incomplete(row, "Integrity")) /\ Incomplete(row, "Integrity").result = "incomplete"
    BY <2>2, IncompleteResult
  <2> QED BY <2>3, <2>4, NotEvaluatedReport
<1>3. CASE place' = "raised" BY <1>3 DEF HonestGoesOn
<1> QED BY <1>1, <1>2, <1>3, EndsOpen

\* What was signed had been verified
LEMMA CarrierIsThere ==
  ASSUME Faithful, CarrierIsSound
  PROVE  Inspect(Bundle, TRUE) = "none"
<1>1. TheCarrier \in store BY DEF Faithful, Honest, TheCarrier
<1>2. TheCarrier.doc.kind = "carrier" BY DEF TheCarrier, Attestation, CarrierOf
<1> QED BY <1>1, <1>2 DEF CarrierIsSound

LEMMA FailReason ==
  ASSUME NEW a, IsReport(a), NEW name
  PROVE  /\ Fail(a, name).result = "invalid"
         /\ Fail(a, name).reason = IF a.result = "invalid" THEN a.reason ELSE name
<1> DEFINE failed == Put(a, name, "fail")
<1>1. IsReport(failed) /\ failed.result = a.result /\ failed.reason = a.reason
  BY PutReport DEF IsReport, Put
<1>2. Fail(a, name) = IF a.result = "invalid" THEN failed
                      ELSE [failed EXCEPT !.result = "invalid", !.reason = name]
  BY DEF Fail
<1> HIDE DEF failed
<1> QED BY <1>1, <1>2 DEF IsReport

\* The first refusal gives the reason: later rows leave it as it is
LEMMA RefusalStays ==
  ASSUME NEW a, IsReport(a), a.result = "invalid", NEW answer
  PROVE  PolicyRows(a, answer).result = "invalid" /\ PolicyRows(a, answer).reason = a.reason
<1> DEFINE Kept(b) == IsReport(b) /\ b.result = "invalid" /\ b.reason = a.reason
<1>1. ASSUME NEW b, Kept(b), NEW name, NEW status PROVE Kept(Put(b, name, status))
  BY <1>1, PutReport DEF IsReport, Put
<1>2. ASSUME NEW b, Kept(b), NEW name, NEW verdict PROVE Kept(Judge(b, name, verdict))
  <2>1. Kept(Fail(b, name)) BY <1>2, FailReport, FailReason
  <2> QED BY <1>1, <1>2, <2>1 DEF Judge
<1> DEFINE factory == FactoryRow(a)
           dependencies == DependenciesRow(factory, answer)
<1>3. Kept(factory) BY <1>2 DEF FactoryRow
<1> HIDE DEF factory
<1>4. Kept(dependencies)
  <2>1. dependencies = Put(factory, "Dependencies", "skipped") BY <1>3 DEF DependenciesRow
  <2> QED BY <1>1, <1>3, <2>1
<1> HIDE DEF dependencies
<1>5. PICK verdict : RevocationRow(dependencies) = Judge(dependencies, "Revocation", verdict)
  BY DEF RevocationRow
<1>6. PolicyRows(a, answer) = RevocationRow(dependencies) BY DEF PolicyRows, dependencies, factory
<1>7. Kept(Judge(dependencies, "Revocation", verdict)) BY <1>2, <1>4
<1> QED BY <1>5, <1>6, <1>7

LEMMA HonestInspectStep ==
  ASSUME InWorlds, IsReport(audit), Bundle # <<>>, CarrierIsSound, HonestGoesOn, InspectReceipt
  PROVE  HonestGoesOn'
<1>1. Same /\ place = "inspect" /\ UNCHANGED <<receipt, look>>
  BY DEF InspectReceipt, Audited, Same
<1>2. SUFFICES ASSUME Faithful PROVE HonestGoesOn'
  <2>1. Faithful' = Faithful BY <1>1, FaithfulStays
  <2> QED BY <2>1 DEF HonestGoesOn
<1>3. audit.result = "valid" /\ receipt = Append(Bundle, TheSummary.doc) BY <1>1, <1>2 DEF HonestGoesOn
<1>4. Inspect(Bundle, TRUE) = "none" BY <1>2, CarrierIsThere
<1>5. Sound /\ IsBound /\ Prov(receipt).commit = world.commit
  BY <1>2, <1>3, <1>4, HonestReceipt DEF Faithful
<1>6. Binding /\ ~Rehashes BY <1>2 DEF Binding, Rehashes, Faithful, Honest
<1> DEFINE row == Structural(audit, Inspect(receipt, Retained))
<1>7. IsReport(row) /\ row.result = "valid"
  <2>1. PICK rows : row = [audit EXCEPT !.rows = rows] BY <1>5 DEF Structural, Sound
  <2> HIDE DEF row
  <2> QED BY <1>3, <2>1 DEF IsReport
<1>8. \/ Go("rules", ChangeRow(row))
      \/ Go("rules", Incomplete(row, "Outputs")) /\ doubt'
      \/ Go("rules", Fail(row, "Outputs")) /\ doubt' /\ AncestorUnanswered
  <2>1. \/ ~Sound
        \/ Rehashes
        \/ Go("rules", ChangeRow(row))
        \/ Go("rules", Incomplete(row, "Outputs")) /\ doubt' = TRUE
        \/ Go("rules", Fail(row, "Outputs")) /\ doubt' = TRUE /\ AncestorUnanswered
        \/ ~Binding
    BY Zenon DEF InspectReceipt
  <2> HIDE DEF row
  <2> QED BY <1>5, <1>6, <2>1
<1> HIDE DEF row
<1>9. ChangeRow(row) = Put(row, "Outputs", "pass") BY <1>5 DEF ChangeRow, IsBound
<1>10. /\ place' = "rules"
       /\ \/ audit'.result = "valid"
          \/ audit'.result = "incomplete" /\ doubt'
          \/ audit'.result = "invalid" /\ doubt' /\ audit'.reason = "Outputs" /\ world'.commit # None
  <2>1. Put(row, "Outputs", "pass").result = "valid" BY <1>7, PutReport
  <2>2. Incomplete(row, "Outputs").result = "incomplete" BY <1>7, IncompleteResult
  <2>3. Fail(row, "Outputs").result = "invalid" /\ Fail(row, "Outputs").reason = "Outputs"
    BY <1>7, FailReason
  <2>4. AncestorUnanswered => world'.commit # None BY <1>1, <1>5 DEF AncestorUnanswered, Same
  <2> QED BY <1>8, <1>9, <2>1, <2>2, <2>3, <2>4 DEF Go
<1>11. receipt' = Append(Bundle', TheSummary'.doc) BY <1>1, <1>3, FaithfulStays
<1> QED BY <1>10, <1>11 DEF HonestGoesOn, Open

\* What every level allows, the merged rules allow
LEMMA PermittedIsAllowed ==
  ASSUME PolicyIsMerged, Permitted, Applies, Rules.enforcement = "block"
  PROVE  /\ \A list \in Rules.allow : Definition(world.stages, world.lock) \in list
         /\ Rules.revoked \cap Skills(world.stages) = {}
<1> DEFINE lists == UNION {l.allow : l \in Levels}
           defined == Definition(world.stages, world.lock)
<1>1. Rules = Merge(Levels) BY NoPolicyIsOff DEF PolicyIsMerged, Applies, Rules
<1>2. Rules.allow = Meet(lists) /\ Rules.revoked = UNION {l.revoked : l \in Levels}
  BY <1>1 DEF Merge
<1>3. \A level \in Levels : /\ \A list \in level.allow : defined \in list
                            /\ level.revoked \cap Skills(world.stages) = {}
  BY DEF Permitted
<1> HIDE DEF defined
<1>4. \A list \in lists : defined \in list BY <1>3
<1>5. Rules.revoked \cap Skills(world.stages) = {} BY <1>2, <1>3
<1> HIDE DEF lists
<1>6. ASSUME NEW list \in Rules.allow PROVE defined \in list
  <2>1. lists # {} /\ list = InAll(lists) BY <1>2, <1>6 DEF Meet
  <2> QED BY <1>4, <2>1 DEF InAll
<1> QED BY <1>5, <1>6 DEF defined

LEMMA VerdictResult ==
  ASSUME NEW a, IsReport(a), NEW name, NEW verdict, verdict # "fail"
  PROVE  IsReport(Judge(a, name, verdict)) /\ Judge(a, name, verdict).result = a.result
BY PutReport DEF Judge

\* The rules refuse nothing of it; only APM may leave the dependencies open
LEMMA HonestRows ==
  ASSUME PolicyIsMerged, Faithful, Sound, NEW a, IsReport(a), a.result # "invalid",
         NEW answer \in {"clean", "unavailable"},
         Prov(receipt).definition = Definition(world.stages, world.lock),
         Prov(receipt).skills = Skills(world.stages),
         Prov(receipt).lock = <<>> => The(receipt, "bom").components = {}
  PROVE  PolicyRows(a, answer).result =
           IF a.result = "valid" /\ Dependencies(answer) = "unavailable" THEN "incomplete" ELSE a.result
<1>1. Applies => EvaluateFactory(Prov(receipt).definition) # "fail"
  <2> SUFFICES ASSUME Applies, EvaluateFactory(Prov(receipt).definition) = "fail" PROVE FALSE OBVIOUS
  <2>1. Rules.enforcement = "block" BY DEF EvaluateFactory, Violation
  <2>2. \A list \in Rules.allow : Prov(receipt).definition \in list
    BY <2>1, PermittedIsAllowed DEF Faithful, Honest
  <2> QED BY <2>2 DEF EvaluateFactory
<1>2. Applies => EvaluateRevocation(Prov(receipt).skills) # "fail"
  <2> SUFFICES ASSUME Applies, EvaluateRevocation(Prov(receipt).skills) = "fail" PROVE FALSE OBVIOUS
  <2>1. Rules.enforcement = "block" BY DEF EvaluateRevocation, Violation
  <2>2. Prov(receipt).skills \cap Rules.revoked = {}
    BY <2>1, PermittedIsAllowed DEF Faithful, Honest
  <2> QED BY <2>2 DEF EvaluateRevocation
<1>3. Dependencies(answer) \in {"pass", "unavailable"}
  <2>1. ~Retained /\ ~inquiry.offline BY DEF Faithful, Honest, Retained
  <2>2. CASE Prov(receipt).lock = <<>> BY <2>2 DEF Dependencies
  <2>3. CASE Prov(receipt).lock # <<>>
    <3> DEFINE lock == UNION Range(Prov(receipt).lock)
    <3>1. Dependencies(answer) =
            CASE lock = {} -> "pass"
              [] lock # {} /\ inquiry.offline -> "warn"
              [] OTHER -> CASE answer = "clean" \/ (answer = "unenforced" /\ ~resolution.apm) -> "pass"
                            [] answer = "unenforced" /\ resolution.apm -> "unavailable"
                            [] OTHER -> answer
      BY <2>1, <2>3, Zenon DEF Dependencies
    <3> HIDE DEF lock
    <3> QED BY <2>1, <3>1
  <2> QED BY <2>2, <2>3
<1> DEFINE factory == FactoryRow(a)
           dependencies == DependenciesRow(factory, answer)
<1>4. IsReport(factory) /\ factory.result = a.result BY <1>1, VerdictResult DEF FactoryRow
<1> HIDE DEF factory
<1>5. /\ IsReport(dependencies)
      /\ dependencies.result =
           IF a.result = "valid" /\ Dependencies(answer) = "unavailable" THEN "incomplete" ELSE a.result
  <2>1. resolution.status # "unloadable" BY DEF Faithful, Honest
  <2>2. dependencies = IF Dependencies(answer) = "unavailable" THEN Incomplete(factory, "Dependencies")
                       ELSE Judge(factory, "Dependencies", Dependencies(answer))
    BY <1>4, <2>1 DEF DependenciesRow
  <2> HIDE DEF dependencies
  <2>3. CASE Dependencies(answer) = "unavailable" BY <1>4, <2>2, <2>3, IncompleteResult
  <2>4. CASE Dependencies(answer) = "pass" BY <1>4, <2>2, <2>4, VerdictResult
  <2> QED BY <1>3, <2>3, <2>4
<1> HIDE DEF dependencies
<1>6. PICK verdict : verdict # "fail" /\ RevocationRow(dependencies) = Judge(dependencies, "Revocation", verdict)
  BY <1>2 DEF RevocationRow
<1>7. PolicyRows(a, answer) = RevocationRow(dependencies) BY DEF PolicyRows, dependencies, factory
<1> QED BY <1>5, <1>6, <1>7, VerdictResult

LEMMA HonestJudgeStep ==
  ASSUME InWorlds, PolicyIsMerged, IsReport(audit), Bundle # <<>>, CarrierIsSound, HonestGoesOn, JudgeRules
  PROVE  HonestGoesOn'
<1>1. Same /\ place = "rules" /\ UNCHANGED receipt BY DEF JudgeRules, Audited, Same
<1>2. SUFFICES ASSUME Faithful PROVE HonestGoesOn'
  <2>1. Faithful' = Faithful BY <1>1, FaithfulStays
  <2> QED BY <2>1 DEF HonestGoesOn
<1>3. Open(audit) /\ receipt = Append(Bundle, TheSummary.doc) BY <1>1, <1>2 DEF HonestGoesOn
<1>4. Inspect(Bundle, TRUE) = "none" BY <1>2, CarrierIsThere
<1>5. /\ Sound
      /\ Prov(receipt).definition = Definition(world.stages, world.lock)
      /\ Prov(receipt).skills = Skills(world.stages)
      /\ Prov(receipt).lock = <<>> => The(receipt, "bom").components = {}
  BY <1>2, <1>3, <1>4, HonestReceipt DEF Faithful
<1>6. Gate /\ world.apm = "clean" BY <1>2 DEF Faithful, Honest
<1>7. PICK answer \in {"clean", "unavailable"} :
        /\ doubt' = (doubt \/ answer # "clean")
        /\ place' = "done" /\ audit' = PolicyRows(audit, answer)
  <2>1. PICK answer \in {world.apm} \cup (IF world.flaky THEN {"unavailable"} ELSE {}) :
          /\ doubt' = (doubt \/ answer # world.apm)
          /\ Gate => Go("done", PolicyRows(audit, answer))
    BY Zenon DEF JudgeRules
  <2> QED BY <1>6, <2>1 DEF Go
<1>8. CASE audit.result = "invalid"
  <2>1. audit'.result = "invalid" /\ audit'.reason = audit.reason BY <1>7, <1>8, RefusalStays
  <2>2. doubt /\ audit.reason = "Outputs" /\ world.commit # None BY <1>3, <1>8 DEF Open
  <2> QED BY <1>1, <1>7, <2>1, <2>2, EndsOpen
<1> SUFFICES ASSUME audit.result # "invalid" PROVE HonestGoesOn' BY <1>8
<1>9. audit'.result =
        IF audit.result = "valid" /\ Dependencies(answer) = "unavailable" THEN "incomplete" ELSE audit.result
  BY <1>2, <1>5, <1>7, HonestRows
<1>10. Dependencies(answer) = "unavailable" => doubt' = TRUE
  <2> SUFFICES ASSUME answer = "clean" PROVE Dependencies(answer) # "unavailable" BY <1>7
  <2>1. ~Retained /\ ~inquiry.offline BY <1>2 DEF Faithful, Honest, Retained
  <2>2. CASE Prov(receipt).lock = <<>> BY <1>5, <2>2 DEF Dependencies
  <2>3. CASE Prov(receipt).lock # <<>> BY <2>1, <2>3 DEF Dependencies
  <2> QED BY <2>2, <2>3
<1>11. doubt => doubt' = TRUE BY <1>7
<1>12. audit'.result = "valid" \/ (audit'.result = "incomplete" /\ doubt')
  <2>1. audit.result = "valid" \/ (audit.result = "incomplete" /\ doubt) BY <1>3 DEF Open
  <2> QED BY <1>9, <1>10, <1>11, <2>1
<1> QED BY <1>1, <1>7, <1>12, EndsOpen

\* The gate is open to it: the policy was found and names whoever vouches for it
LEMMA HonestStart ==
  ASSUME Faithful
  PROVE  /\ Gate /\ Signers # {} /\ ~inquiry.offline /\ resolution.status = "found"
         /\ IsReport(PolicyRow(Unjudged)) /\ PolicyRow(Unjudged).result = "valid"
<1>1. Gate /\ Signers # {} /\ ~inquiry.offline /\ resolution.status = "found"
  BY DEF Faithful, Honest, Vouched
<1>2. \E status \in {"info", "pass"} : PolicyRow(Unjudged) = Put(Unjudged, "Policy", status)
  BY <1>1 DEF PolicyRow
<1>3. Unjudged.result = "valid" BY DEF Unjudged
<1> QED BY <1>1, <1>2, <1>3, UnjudgedReport, PutReport

LEMMA StartStep ==
  ASSUME StartGate
  PROVE  HonestGoesOn'
<1>1. Same /\ place' = "lookup" /\ audit' = PolicyRow(Unjudged) /\ look' = LookingUp
  BY DEF StartGate, Audited, Same, Go
<1>2. SUFFICES ASSUME Faithful PROVE HonestGoesOn' BY <1>1, FaithfulStays DEF HonestGoesOn
<1>3. audit'.result = "valid" BY <1>1, <1>2, HonestStart
<1>4. look'.left = Questions /\ look'.asked = 0 BY <1>1 DEF LookingUp, NothingAsked
<1>5. Questions' = Questions BY <1>1, FaithfulStays
<1>6. Cardinality({}) = 0 BY FS_EmptySet
<1>7. Asking' BY <1>4, <1>5, <1>6 DEF Asking
<1> QED BY <1>1, <1>3, <1>7 DEF HonestGoesOn, Open

Late == {"lookup", "check", "inspect", "rules", "done"}

LEMMA HonestStep ==
  ASSUME InWorlds, SignedInv, PullIsKnown, BundleIsThere, CarrierIsSound, HonestGoesOn, [Next]_vars
  PROVE  HonestGoesOn'
<1>0. /\ IsReport(audit) /\ LookIsHonest /\ LookIsRecord /\ PolicyIsMerged
      /\ place \in Late => Bundle # <<>>
  BY DEF SignedInv, GateIsPassed, LookIsHonest, BundleIsThere, Late
<1>1. place' \notin Late => HonestGoesOn' BY DEF HonestGoesOn, Late
<1>2. Same /\ ~Faithful => HonestGoesOn' BY FaithfulStays DEF HonestGoesOn
<1>3. CASE AttestBundle \/ AttestSummary \/ Deliver \/ Amend \/ Advance \/ Rebase \/ StartAudit
             \/ ResolvePolicy \/ GateRaises
  BY <1>1, <1>3 DEF Late, AttestBundle, AttestSummary, Deliver, Amend, Advance, Rebase, StartAudit,
                    ResolvePolicy, GateRaises
<1>4. CASE GateClosed
  <2>1. Same BY <1>4 DEF GateClosed, Audited, Same
  <2>2. ~Faithful
    <3>1. resolution.status = "unloadable" \/ Signers = {} \/ inquiry.offline BY <1>4 DEF GateClosed
    <3> QED BY <3>1, HonestStart
  <2> QED BY <1>2, <2>1, <2>2
<1>5. CASE StartGate BY <1>5, StartStep
<1>6. CASE TooMany BY <1>6, TooManyStep
<1>7. CASE NotDelivered
  <2>1. Bundle # <<>> BY <1>0, <1>7 DEF NotDelivered, Late
  <2> QED BY <1>0, <1>7, <2>1, NotDeliveredStep
<1>8. CASE \E question \in look.left : LookUp(question)
  <2>1. PICK question \in look.left : LookUp(question) BY <1>8
  <2>2. Bundle # <<>> BY <1>0, <2>1 DEF LookUp, Late
  <2> QED BY <1>0, <2>1, <2>2, AskingStep
<1>9. CASE \E signer \in look.signers : CheckSigner(signer)
  <2>1. PICK signer \in look.signers : CheckSigner(signer) BY <1>9
  <2>2. Bundle # <<>> BY <1>0, <2>1 DEF CheckSigner, Late
  <2> QED BY <1>0, <2>1, <2>2, HonestCheckStep
<1>10. CASE TryNextFile \/ GateUnsigned
  <2>1. Same /\ place = "check" /\ look.signers = {} /\ IdentityStatus = "unsigned"
    BY <1>10 DEF TryNextFile, GateUnsigned, AllAsked, Audited, Same
  <2>2. ~Faithful BY <2>1, AllAskedOfFaithful
  <2> QED BY <1>2, <2>1, <2>2
<1>11. CASE GateUndecided BY <1>0, <1>11, UndecidedStep
<1>12. CASE GateFetches
  <2>1. Bundle # <<>> BY <1>0, <1>12 DEF GateFetches, AllAsked, Late
  <2> QED BY <1>0, <1>12, <2>1, FetchesStep
<1>13. CASE FetchFails BY <1>0, <1>13, FetchFailsStep
<1>14. CASE StartBundle \/ BundleIdentity
  <2>1. Same /\ ~Gate BY <1>14 DEF StartBundle, BundleIdentity, AllAsked, Audited, Same
  <2>2. ~Faithful BY <2>1 DEF Faithful, Honest
  <2> QED BY <1>2, <2>1, <2>2
<1>15. CASE InspectReceipt
  <2>1. Bundle # <<>> BY <1>0, <1>15 DEF InspectReceipt, Late
  <2> QED BY <1>0, <1>15, <2>1, HonestInspectStep
<1>16. CASE JudgeRules
  <2>1. Bundle # <<>> BY <1>0, <1>16 DEF JudgeRules, Late
  <2> QED BY <1>0, <1>16, <2>1, HonestJudgeStep
<1>17. CASE UNCHANGED vars
  <2>1. Same /\ UNCHANGED <<place, audit, receipt, look, doubt>> BY <1>17 DEF vars, Same, policyVars
  <2>2. Asking => Asking' BY <2>1, FaithfulStays DEF Asking
  <2>3. Finding => Finding'
    <3>1. TheSummary' = TheSummary /\ \A s : Vouched(TheSummary, {s})' <=> Vouched(TheSummary, {s})
      BY <2>1, FaithfulStays
    <3> QED BY <2>1, <3>1 DEF Finding
  <2>4. Open(audit) => Open(audit)' BY <2>1 DEF Open, Same
  <2>5. Faithful' = Faithful /\ Sought' = Sought /\ Bundle' = Bundle /\ TheSummary' = TheSummary
    BY <2>1, FaithfulStays
  <2>6. UNCHANGED <<place, audit, receipt, look>> BY <2>1
  <2> HIDE DEF Same
  <2> QED BY <2>2, <2>3, <2>4, <2>5, <2>6 DEF HonestGoesOn
<1> QED BY <1>3, <1>4, <1>5, <1>6, <1>7, <1>8, <1>9, <1>10, <1>11, <1>12, <1>13, <1>14, <1>15,
           <1>16, <1>17 DEF Next

\* The gate refuses by default, and not the factory's own work: whatever the project, the
\* policies and the signers, an unedited delivery of some file, signed as every rule asks,
\* is valid when every question was answered, and called invalid only where git left open
\* whether the commit it was built on is in the history of the base (run_gate, bind).
THEOREM HonestPasses == Spec => []HonestDeliveryPasses
<1> DEFINE Inv == EarnedInv /\ DefiniteInv /\ CarrierIsSound /\ HonestGoesOn
<1>1. Init => Inv
  <2> SUFFICES ASSUME Init PROVE Inv OBVIOUS
  <2>1. EarnedInv /\ CarrierIsSound BY EarnedInit, CarrierInit
  <2>2. DefiniteInv BY DefiniteInit
  <2>3. HonestGoesOn BY DEF Init, HonestGoesOn
  <2> QED BY <2>1, <2>2, <2>3
<1>2. Inv /\ [Next]_vars => Inv'
  <2> SUFFICES ASSUME Inv, [Next]_vars PROVE Inv' OBVIOUS
  <2>1. EarnedInv' /\ CarrierIsSound' BY EarnedInvStep, CarrierStep
  <2>2. DefiniteInv' BY PullStep, TrueStep DEF EarnedInv, SignedInv, DefiniteInv
  <2>3. HonestGoesOn' BY HonestStep DEF EarnedInv, DefiniteInv
  <2> QED BY <2>1, <2>2, <2>3
<1>3. Inv => HonestDeliveryPasses
  <2> SUFFICES ASSUME HonestGoesOn, place = "done", Faithful
               PROVE  /\ ~doubt => audit.result = "valid"
                      /\ audit.result = "invalid" => audit.reason = "Outputs" /\ world.commit # None
    BY DEF HonestDeliveryPasses, Faithful
  <2> QED BY DEF HonestGoesOn, Open
<1> QED BY <1>1, <1>2, <1>3, PTL DEF Spec
=============================================================================
