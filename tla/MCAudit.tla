-------------------------------- MODULE MCAudit --------------------------------
(***************************************************************************)
(* The audit over small repositories.  Each set of worlds varies what one  *)
(* part of the audit depends on and keeps the rest of the ordinary world:  *)
(* the files of the pull request, the store and its signers, the policy    *)
(* chain, the receipt file, the dependencies.                              *)
(***************************************************************************)
EXTENDS Audit

a == <<"a">>
b == <<"b">>
sb == <<"s", "b">>

MCNames == <<a, b, sb>>
MCContents == {"x", "y", "link"}

Base == (a :> "x") @@ (b :> "x")

Skill == [name |-> "skill", package |-> "p"]

Stage(name, baseline, outputs, skills) ==
  [contract |-> name, baseline |-> baseline, outputs |-> outputs, checks |-> <<"lint", "test">>,
   skills |-> skills]

Patch(changes) == <<[name |-> <<"patch">>, content |-> "x", changes |-> changes]>>
File(name, content) == [name |-> name, content |-> content, changes |-> <<>>]

\* Changes a, deletes b and creates s/b
Patching ==
  <<Stage("one", Base, Patch((a :> [old |-> "x", new |-> "y"])
                              @@ (b :> [old |-> "x", new |-> Absent])
                              @@ (sb :> [old |-> Absent, new |-> "x"])), {Skill})>>

\* The second contract works on what the first leaves
Chained ==
  <<Stage("one", Base, Patch(a :> [old |-> "x", new |-> "y"]), {Skill}),
    Stage("two", (a :> "y") @@ (b :> "x"),
          Patch((a :> [old |-> "y", new |-> Absent]) @@ (b :> [old |-> "x", new |-> "y"])), {})>>

\* The second contract undoes what the first did and deletes a file
Reverting ==
  <<Stage("one", Base, Patch(a :> [old |-> "x", new |-> "y"]), {Skill}),
    Stage("two", (a :> "y") @@ (b :> "x"),
          Patch((a :> [old |-> "y", new |-> "x"]) @@ (b :> [old |-> "x", new |-> Absent])), {})>>

Writing == <<Stage("one", Base, <<File(a, "y"), File(sb, "x")>>, {Skill})>>

\* Two files of one name and the same bytes in two directories
Twins == <<Stage("one", Base, <<File(b, "y"), File(sb, "y")>>, {Skill})>>

Signer == [workflow |-> "w", repo |-> None, ref |-> None, sha |-> "c1"]

Signed(signers) == [Silent EXCEPT !.present = TRUE, !.signers = {signers}, !.signed = TRUE]

Documents(base, org, other) ==
  [ref \in {"base", "tree", "file", "remote", "org", "relative"} |->
     CASE ref = "base" -> base [] ref = "org" -> org [] OTHER -> other]

Ordinary ==
  [route |-> "gate", stages |-> Patching, base |-> Base, lock |-> <<{"p"}>>, prefix |-> <<>>,
   commit |-> "c0", cert |-> [workflow |-> "w", ref |-> "main", at |-> "c1"], default |-> "home",
   rivals |-> {}, lively |-> FALSE, flaky |-> FALSE, outputs |-> None, intact |-> "all",
   evidence |-> TRUE, damage |-> None, apm |-> "clean", newest |-> TRUE, concealed |-> {},
   inquiry |-> [pull |-> TRUE, offline |-> FALSE, override |-> None, files |-> {"base"},
                origin |-> TRUE, apm |-> "found", orgFound |-> TRUE,
                documents |-> Documents(Signed({Signer}), Silent, Silent)]]

-----------------------------------------------------------------------------
ChangeWorlds ==
  {[Ordinary EXCEPT !.lively = TRUE, !.stages = stages, !.prefix = prefix, !.commit = commit,
                    !.rivals = rivals]
   : stages \in {Patching, Chained, Writing}, prefix \in {<<>>, <<"p">>},
     commit \in {None, "c0", "stray", "missing"}, rivals \in {{}, {"older"}}}
  \cup {[Ordinary EXCEPT !.stages = Reverting, !.flaky = flaky] : flaky \in BOOLEAN}

SignerLists ==
  LET Some == {[workflow |-> w, repo |-> repo, ref |-> ref, sha |-> sha]
               : w \in {"w", "other"}, repo \in {None, "home", "away"}, ref \in {None, "main", "v1"},
                 sha \in {None, "c1", "c2"}}
      Few  == {s \in Some : s.workflow = "w" \/ (s.ref = None /\ s.sha = None)}
      Main == {s \in Few : s.repo = None /\ s.ref \in {None, "main"}}
  IN {{s} : s \in Few} \cup {{s, t} : s \in Main, t \in Few}

StoreWorlds ==
  {[Ordinary EXCEPT !.flaky = TRUE, !.default = default, !.cert.at = at, !.rivals = rivals,
                    !.inquiry.documents = Documents(Signed(signers), Silent, Silent)]
   : default \in {None, "home"}, at \in {"c1", "tag1"},
     rivals \in {{}, {"foreign", "failed"}}, signers \in SignerLists}

\* More is stored than a page has room for, in either order, or GitHub hides a repository
PageWorlds ==
  LET Rules1(signers) == Documents(Signed(signers), Silent, Silent)
      Away == [Signer EXCEPT !.repo = "away", !.sha = None]
  IN {[Ordinary EXCEPT !.stages = stages, !.rivals = rivals, !.newest = newest, !.flaky = flaky,
                       !.concealed = concealed, !.inquiry.documents = Rules1(signers)]
      : stages \in {Patching, Writing}, rivals \in SUBSET {"foreign", "failed", "older"},
        newest \in BOOLEAN, flaky \in BOOLEAN, concealed \in SUBSET {"home", "away"},
        signers \in {{Signer}, {Signer, Away}, {[Signer EXCEPT !.workflow = "other", !.sha = None]}}}

Another == [Definition(Writing, <<>>) EXCEPT !.skills = {}]

Levels0 ==
  LET Stated == [Silent EXCEPT !.present = TRUE] IN
  {Silent, Stated, Signed({Signer}), Signed({}), [Silent EXCEPT !.readable = FALSE],
   [Signed({[Signer EXCEPT !.sha = None]}) EXCEPT !.enforcement = "warn"],
   [Signed({[Signer EXCEPT !.sha = None, !.ref = "main"], [Signer EXCEPT !.sha = "c2"]})
      EXCEPT !.signed = FALSE],
   [Stated EXCEPT !.allow = {{Definition(Patching, <<{"p"}>>)}}, !.top = "warn"],
   [Stated EXCEPT !.allow = {{Another}}, !.enforcement = "warn"],
   [Stated EXCEPT !.allow = {{Another, Definition(Patching, <<{"p"}>>)}}, !.revoked = {Skill}],
   [Stated EXCEPT !.revoked = {Skill}, !.top = "off"], [Silent EXCEPT !.top = "off"]}

Extending(level, ref) == [level EXCEPT !.extends = ref]

ChainWorlds ==
  {[Ordinary EXCEPT !.inquiry.documents =
      Documents(Extending(one, "org"), Extending(two, next), three)]
   : one \in Levels0, two \in Levels0, three \in Levels0,
     next \in {None, "remote", "base", "relative"}}

FindingWorlds ==
  {[Ordinary EXCEPT !.route = route, !.stages = Patching, !.inquiry =
      [Ordinary.inquiry EXCEPT !.pull = (route = "gate"), !.offline = offline, !.override = override,
         !.files = files, !.origin = origin, !.apm = apm, !.orgFound = orgFound,
         !.documents = [Documents(Extending(Signed({Signer}), next), Signed({Signer}),
                                  Extending([Silent EXCEPT !.present = present], next))
                        EXCEPT !["tree"] = Signed({Signer})]]]
   : route \in {"gate", "bundle"}, offline \in BOOLEAN,
     override \in {None, "file", "tree"}, files \in SUBSET {"base", "tree"}, origin \in BOOLEAN,
     apm \in {"found", "empty", "absent", "disabled", "error"}, orgFound \in BOOLEAN,
     next \in {None, "org", "relative"}, present \in BOOLEAN}

ReceiptWorlds ==
  {[Ordinary EXCEPT !.route = "bundle", !.damage = damage, !.outputs = outputs, !.intact = intact,
                    !.evidence = evidence, !.flaky = flaky, !.rivals = rivals,
                    !.inquiry.pull = pulled, !.inquiry.offline = offline,
                    !.inquiry.files = {"base", "tree"},
                    !.inquiry.documents = [Documents(level, Silent, Silent) EXCEPT !["tree"] = level]]
   : damage \in {None, "cut", "doubled", "broken", "unchecked", "rebased"},
     outputs \in {None, "given", "sibling"}, intact \in {"all", "some", "none"},
     evidence \in BOOLEAN, flaky \in BOOLEAN, pulled \in BOOLEAN, offline \in BOOLEAN,
     rivals \in {{}, {"foreign"}},
     level \in {Silent, Signed({Signer}), [Signed({Signer}) EXCEPT !.signed = FALSE], Signed({}),
                [Signed({Signer}) EXCEPT !.enforcement = "warn"]}}

InstallWorlds ==
  {[Ordinary EXCEPT !.route = route, !.inquiry.pull = (route = "gate"), !.inquiry.offline = offline,
                    !.inquiry.files = {"base", "tree"}, !.inquiry.apm = status,
                    !.lock = lock, !.stages = stages, !.apm = answer]
   : route \in {"gate", "bundle"}, offline \in BOOLEAN, status \in {"found", "empty"},
     lock \in {<<>>, <<{}>>, <<{"p"}>>},
     stages \in {Patching, [Patching EXCEPT ![1].skills = {}]},
     answer \in {"clean", "fail", "unavailable", "unenforced"}}

MCWorlds ==
  <<ChangeWorlds, StoreWorlds, PageWorlds, ChainWorlds, FindingWorlds, ReceiptWorlds, InstallWorlds>>

MCCertificates ==
  [workflow : {"w", "other"}, repo : {None}, ref : {"main", "v1"}, at : {"c1", "c2", "tag1"}]

MCTwins ==
  <<{[Ordinary EXCEPT !.stages = stages, !.prefix = prefix, !.lively = TRUE]
     : stages \in {Twins, Writing}, prefix \in {<<>>, <<"p">>}}>>
=============================================================================
