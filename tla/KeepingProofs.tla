----------------------------- MODULE KeepingProofs -----------------------------
(***************************************************************************)
(* Proofs about what a command keeps: files that are replaced, the         *)
(* evidence a receipt is made of, the bytes that travel through the        *)
(* captures, the transcript of a run, and the parts side by side.          *)
(***************************************************************************)
EXTENDS Keeping, SequenceTheorems, NaturalsInduction, WellFoundedInduction, TLAPS

-----------------------------------------------------------------------------
(* The replacement of one file *)

WriteSteps == {"idle", "create", "write", "sync", "replace", "syncdir", "cleanup", "return", "down"}

\* What the variables are, and that no version is ahead of the one being written
WriteTypes ==
  /\ pc \in WriteSteps /\ durable \in BOOLEAN /\ synced \in BOOLEAN
  /\ version \in Nat /\ target \in Int /\ stored \subseteq Int
  /\ last \in {"none", "written", "error", "interrupted"}
  /\ acked \in 0 .. version

\* A durable replacement was synced before, and nothing the path may show after a
\* loss of power is torn or, where the directory is synced, older than what was
\* acknowledged
StoredIsRecent ==
  durable =>
    /\ pc = "replace" => synced
    /\ target \in stored /\ Torn \notin stored
    /\ posix => /\ \A s \in stored : s >= acked
                /\ pc = "return" => stored = {version}

\* Where a write stands decides which of the two versions readers see
TargetIsOneOfTwo ==
  /\ pc \in {"create", "write", "sync", "replace"} => target = kept
  /\ pc \in {"syncdir", "return"} => target = version
  /\ pc = "cleanup" => target \in {kept, version}
  /\ pc = "syncdir" => durable
  /\ ResultsAreThree

WriteInv == WriteTypes /\ StoredIsRecent /\ TargetIsOneOfTwo

\* No write has begun, and the file is the one that was there
LEMMA WriteStarts == Init => WriteInv
<1> SUFFICES ASSUME Init PROVE WriteInv
  OBVIOUS
<1>1. WriteTypes
  <2>1. stored \subseteq Int
    BY DEF Init
  <2>2. acked \in 0 .. version /\ version \in Nat /\ target \in Int
    BY DEF Init
  <2>3. /\ pc \in WriteSteps /\ durable \in BOOLEAN /\ synced \in BOOLEAN
        /\ last \in {"none", "written", "error", "interrupted"}
    BY DEF Init, WriteSteps
  <2>4. QED
    BY <2>1, <2>2, <2>3 DEF WriteTypes
<1>2. StoredIsRecent
  BY DEF Init, StoredIsRecent, Torn
<1>3. TargetIsOneOfTwo
  BY DEF Init, TargetIsOneOfTwo, ResultsAreThree
<1>4. QED
  BY <1>1, <1>2, <1>3 DEF WriteInv

LEMMA WriteTypesStep == WriteTypes /\ TargetIsOneOfTwo /\ [Next]_vars => WriteTypes'
<1> SUFFICES ASSUME WriteTypes, TargetIsOneOfTwo, [Next]_vars PROVE WriteTypes'
  OBVIOUS
<1> USE DEF WriteTypes, WriteSteps
<1>1. CASE Begin
  BY <1>1 DEF Begin
<1>2. CASE Create \/ Write \/ Sync \/ Cleanup \/ Interrupt
  BY <1>2 DEF Create, Write, Sync, Cleanup, Interrupt, Fail
<1>3. CASE Replace
  <2>1. target' \in {target, version}
    BY <1>3 DEF Replace, Fail
  <2>2. \A s \in stored' : s \in stored \/ s = version \/ s = Torn
    BY <1>3 DEF Replace, Fail
  <2>3. stored' \subseteq Int
    <3>1. Torn \in Int
      BY DEF Torn
    <3>2. version \in Int /\ \A s \in stored : s \in Int
      OBVIOUS
    <3>3. QED
      BY <2>2, <3>1, <3>2
  <2>4. /\ version' = version /\ acked' = acked /\ durable' = durable /\ synced' = synced
        /\ last' = last /\ pc' \in {"syncdir", "return", "cleanup"}
    BY <1>3 DEF Replace, Fail
  <2>5. QED
    BY <2>1, <2>3, <2>4
<1>4. CASE SyncDirectory
  BY <1>4 DEF SyncDirectory, Fail
<1>5. CASE Return
  BY <1>5 DEF Return
<1>6. CASE PowerLoss
  BY <1>6 DEF PowerLoss
<1>7. CASE UNCHANGED vars
  BY <1>7 DEF vars
<1>8. QED
  BY <1>1, <1>2, <1>3, <1>4, <1>5, <1>6, <1>7 DEF Next

LEMMA RecentStep == WriteInv /\ [Next]_vars => StoredIsRecent'
<1> SUFFICES ASSUME WriteInv, [Next]_vars, durable'
             PROVE  /\ pc' = "replace" => synced'
                    /\ target' \in stored' /\ Torn \notin stored'
                    /\ posix' => /\ \A s \in stored' : s >= acked'
                                 /\ pc' = "return" => stored' = {version'}
  BY DEF StoredIsRecent, Torn
<1>1. /\ durable
      /\ pc = "replace" => synced
      /\ target \in stored /\ Torn \notin stored
      /\ posix => /\ \A s \in stored : s >= acked
                  /\ pc = "return" => stored = {version}
  BY DEF WriteInv, StoredIsRecent, Next, vars, Begin, Create, Write, Sync, Replace, SyncDirectory,
         Cleanup, Return, Interrupt, PowerLoss
<1>2. /\ version \in Nat /\ acked \in 0 .. version /\ version # Torn
      /\ pc = "syncdir" => target = version
  BY DEF WriteInv, WriteTypes, TargetIsOneOfTwo, Torn
<1>3. CASE Begin \/ Create \/ Cleanup \/ Interrupt
  BY <1>1, <1>3 DEF Begin, Create, Cleanup, Interrupt
<1>4. CASE Write \/ Sync
  BY <1>1, <1>4 DEF Write, Sync, Fail
\* what becomes visible was synced, and is no older than what was acknowledged
<1>5. CASE Replace
  BY <1>1, <1>2, <1>5 DEF Replace, Fail
\* after the directory was synced, nothing but the new version can be found
<1>6. CASE SyncDirectory
  BY <1>1, <1>2, <1>6 DEF SyncDirectory, Fail
<1>7. CASE Return
  BY <1>1, <1>2, <1>7 DEF Return
<1>8. CASE PowerLoss
  BY <1>1, <1>8 DEF PowerLoss
<1>9. CASE UNCHANGED vars
  BY <1>1, <1>9 DEF vars
<1>10. QED
  BY <1>3, <1>4, <1>5, <1>6, <1>7, <1>8, <1>9 DEF Next

LEMMA OneOfTwoStep == WriteTypes /\ TargetIsOneOfTwo /\ [Next]_vars => TargetIsOneOfTwo'
<1> SUFFICES ASSUME WriteTypes, TargetIsOneOfTwo, [Next]_vars PROVE TargetIsOneOfTwo'
  OBVIOUS
<1> USE DEF WriteTypes, WriteSteps, TargetIsOneOfTwo, ResultsAreThree
<1>1. CASE Begin
  BY <1>1 DEF Begin
<1>2. CASE Create
  BY <1>2 DEF Create
<1>3. CASE Write \/ Sync
  BY <1>3 DEF Write, Sync, Fail
<1>4. CASE Replace
  BY <1>4 DEF Replace, Fail
<1>5. CASE SyncDirectory
  BY <1>5 DEF SyncDirectory, Fail
<1>6. CASE Cleanup \/ Return \/ Interrupt
  BY <1>6 DEF Cleanup, Return, Interrupt
<1>7. CASE PowerLoss
  BY <1>7 DEF PowerLoss
<1>8. CASE UNCHANGED vars
  BY <1>8 DEF vars
<1>9. QED
  BY <1>1, <1>2, <1>3, <1>4, <1>5, <1>6, <1>7, <1>8 DEF Next

LEMMA WriteIsInvariant == Spec => []WriteInv
<1>1. WriteInv /\ [Next]_vars => WriteInv'
  BY WriteTypesStep, RecentStep, OneOfTwoStep DEF WriteInv
<1>2. QED
  BY WriteStarts, <1>1, PTL DEF Spec

\* However many writes fail or are interrupted, what is found after a loss of power is
\* never torn where writes are durable, and on POSIX, where the directory is synced, no
\* older than the last version whose durable write returned (atomic_write_text).
THEOREM AtomicAcknowledgedSurvives == Spec => []AcknowledgedSurvives
<1>1. WriteInv => AcknowledgedSurvives
  BY DEF WriteInv, StoredIsRecent, AcknowledgedSurvives
<1>2. QED
  BY WriteIsInvariant, <1>1, PTL

\* The record stores of the other modules may take it that a write has no fourth
\* result.
THEOREM AtomicResultsAreThree == Spec => []ResultsAreThree
<1>1. WriteInv => ResultsAreThree
  BY DEF WriteInv, TargetIsOneOfTwo
<1>2. QED
  BY WriteIsInvariant, <1>1, PTL

-----------------------------------------------------------------------------
(* What is retained, and what speaks of what *)

States == {"own", "other", "odd"}
Reading == {"capture", "assess", "validate", "history", "seal", "documents", "gather", "confirm"}

InvocationOk ==
  /\ invocation.form \in {"run", "controller", "chain"}
  /\ invocation.selected \subseteq Runs /\ invocation.budgeted \subseteq invocation.selected
  /\ invocation.form # "chain" => \E r \in Runs : invocation.selected = {r}
  /\ invocation.form = "controller" => invocation.budgeted = invocation.selected

\* Nothing above speaks of these: the root, and a controller that a run found itself
Unspoken(t) == (t = Root /\ Above(t) = Root) \/ (t.kind = "controller" /\ Root.kind = "record")

LEMMA PassesAre ==
  /\ {Passes[i] : i \in DOMAIN Passes} = Reading
  /\ After("capture") = "assess" /\ After("assess") = "validate" /\ After("validate") = "history"
  /\ After("history") = "seal" /\ After("seal") = "documents" /\ After("documents") = "gather"
  /\ After("gather") = "confirm" /\ After("confirm") = "publish"
<1>1. Len(Passes) = 8 /\ DOMAIN Passes = 1 .. 8 BY DEF Passes
<1>2. /\ Passes[1] = "capture" /\ Passes[2] = "assess" /\ Passes[3] = "validate"
      /\ Passes[4] = "history" /\ Passes[5] = "seal" /\ Passes[6] = "documents"
      /\ Passes[7] = "gather" /\ Passes[8] = "confirm"
  BY DEF Passes
<1>3. \A i \in 1 .. 8 : i = 1 \/ i = 2 \/ i = 3 \/ i = 4 \/ i = 5 \/ i = 6 \/ i = 7 \/ i = 8
  OBVIOUS
<1>4. ASSUME NEW i \in 1 .. 8
      PROVE  After(Passes[i]) = IF i = 8 THEN "publish" ELSE Passes[i + 1]
  <2>1. \A j \in 1 .. 8 : Passes[j] = Passes[i] => j = i BY <1>2, <1>3
  <2>2. (CHOOSE j \in DOMAIN Passes : Passes[j] = Passes[i]) = i BY <1>1, <2>1
  <2> QED BY <1>1, <2>2 DEF After
<1>5. {Passes[i] : i \in DOMAIN Passes} = Reading BY <1>1, <1>2, <1>3 DEF Reading
<1> QED BY <1>2, <1>4, <1>5

LEMMA SelectorSelects ==
  ASSUME InvocationOk, NEW r \in History
  PROVE  /\ Selector(r) \in invocation.selected
         /\ r = Selector(r) \/ (Selector(r) \in invocation.budgeted)
<1>1. \E s \in invocation.selected : r = s \/ r \in TriedBy(s) BY DEF History
<1>2. Selector(r) \in invocation.selected /\ (r = Selector(r) \/ r \in TriedBy(Selector(r)))
  BY <1>1 DEF Selector
<1> QED BY <1>2 DEF TriedBy

LEMMA ThingsAre ==
  ASSUME NEW t \in All
  PROVE  /\ t = Thing(t.kind, t.run)
         /\ t.kind \in {"chain", "chain_transcript", "view", "project", "controller", "record"} \cup LeafKinds
         /\ t.kind \in LeafKinds \cup {"record"} => t.run \in History
         /\ t.kind = "controller" => t.run \in invocation.budgeted
         /\ t.kind \in {"chain", "chain_transcript", "view"} => invocation.form = "chain" /\ t.run = NoRun
         /\ t.kind = "project" => (invocation.form = "chain" /\ t.run = NoRun) \/ t.run \in invocation.budgeted
BY DEF All, Aggregate, Controllers, Records, Leaves, LeafKinds, Thing

LEMMA RootIs ==
  ASSUME InvocationOk
  PROVE  /\ Root \in All
         /\ invocation.form = "chain" => Root = Thing("chain", NoRun)
         /\ invocation.form # "chain" =>
              \E r \in Runs : /\ invocation.selected = {r}
                              /\ invocation.form = "controller" => Root = Thing("controller", r)
                              /\ invocation.form = "run" => Root = Thing("record", r)
<1>1. CASE invocation.form = "chain"
  BY <1>1 DEF Root, All, Aggregate
<1>2. CASE invocation.form # "chain"
  <2>1. PICK r \in Runs : invocation.selected = {r} BY <1>2 DEF InvocationOk
  <2>2. (CHOOSE q \in invocation.selected : TRUE) = r BY <2>1
  <2>3. CASE invocation.form = "controller"
    BY <1>2, <2>1, <2>2, <2>3 DEF Root, All, Controllers, InvocationOk
  <2>4. CASE invocation.form = "run"
    BY <1>2, <2>1, <2>2, <2>4 DEF Root, All, Records, History, InvocationOk
  <2> QED BY <1>2, <2>1, <2>3, <2>4 DEF InvocationOk
<1> QED BY <1>1, <1>2

\* What speaks of a thing is retained as well, and it is read before the thing
LEMMA AboveIsRead ==
  ASSUME InvocationOk, NEW t \in All, ~Unspoken(t)
  PROVE  Above(t) \in All /\ Level(Above(t)) < Level(t)
<1> USE RootIs DEF Thing, Level
<1>1. CASE t.kind \in LeafKinds
  <2>1. Above(t) = Thing("record", t.run) BY <1>1 DEF Above, LeafKinds
  <2>2. t.run \in History BY <1>1, ThingsAre
  <2> QED BY <1>1, <2>1, <2>2 DEF All, Records, LeafKinds
<1>2. CASE t.kind = "record"
  <2>1. t.run \in History BY <1>2, ThingsAre
  <2>2. CASE Selector(t.run) \in invocation.budgeted
    <3>1. Above(t) = Thing("controller", Selector(t.run)) BY <1>2, <2>2 DEF Above, LeafKinds
    <3> QED BY <1>2, <2>2, <3>1 DEF All, Controllers
  <2>3. CASE Selector(t.run) \notin invocation.budgeted
    <3>1. Above(t) = Root BY <1>2, <2>3 DEF Above, LeafKinds
    <3>2. t.run = Selector(t.run) /\ Selector(t.run) \in invocation.selected
      BY <2>1, <2>3, SelectorSelects
    <3>3. CASE invocation.form = "chain" BY <1>2, <3>1, <3>3
    <3>4. CASE invocation.form = "run"
      <4>1. t = Root BY <1>2, <3>2, <3>4, ThingsAre
      <4> QED BY <3>1, <4>1 DEF Unspoken
    <3>5. CASE invocation.form = "controller" BY <2>3, <3>2, <3>5 DEF InvocationOk
    <3> QED BY <3>3, <3>4, <3>5 DEF InvocationOk
  <2> QED BY <2>2, <2>3
<1>3. CASE t.kind = "controller"
  <2>1. Above(t) = Root BY <1>3 DEF Above, LeafKinds
  <2>2. CASE invocation.form = "chain" BY <1>3, <2>1, <2>2
  <2>3. CASE invocation.form = "run" BY <1>3, <2>3 DEF Unspoken
  <2>4. CASE invocation.form = "controller"
    <3>1. t = Root BY <1>3, <2>4, ThingsAre DEF InvocationOk
    <3> QED BY <2>1, <3>1 DEF Unspoken
  <2> QED BY <2>2, <2>3, <2>4 DEF InvocationOk
<1>4. CASE t.kind = "project"
  <2>1. CASE t.run = NoRun
    <3>1. Above(t) = Root BY <1>4, <2>1 DEF Above, LeafKinds
    <3>2. invocation.form = "chain" BY <1>4, <2>1, ThingsAre, EvidenceAssumption DEF InvocationOk
    <3> QED BY <1>4, <3>1, <3>2
  <2>2. CASE t.run # NoRun
    <3>1. Above(t) = Thing("controller", t.run) BY <1>4, <2>2 DEF Above, LeafKinds
    <3>2. t.run \in invocation.budgeted BY <1>4, <2>2, ThingsAre
    <3> QED BY <1>4, <3>1, <3>2 DEF All, Controllers
  <2> QED BY <2>1, <2>2
<1>5. CASE t.kind \in {"chain", "chain_transcript", "view"}
  <2>1. Above(t) = Root BY <1>5 DEF Above, LeafKinds
  <2>2. invocation.form = "chain" /\ t.run = NoRun BY <1>5, ThingsAre
  <2>3. CASE t.kind = "chain"
    <3>1. t = Root BY <2>2, <2>3, ThingsAre
    <3> QED BY <2>1, <3>1 DEF Unspoken
  <2> QED BY <1>5, <2>1, <2>2, <2>3
<1> QED BY <1>1, <1>2, <1>3, <1>4, <1>5, ThingsAre

LEMMA SameThings ==
  ASSUME invocation' = invocation
  PROVE  /\ All' = All /\ Root' = Root /\ Records' = Records /\ InvocationOk' = InvocationOk
         /\ \A t : Above(t)' = Above(t)
         /\ \A pass : Reads(pass)' = Reads(pass)
<1>1. Root' = Root BY DEF Root
<1>2. \A r : TriedBy(r)' = TriedBy(r) BY DEF TriedBy
<1>3. History' = History BY <1>2 DEF History
<1>4. Records' = Records /\ Controllers' = Controllers /\ Aggregate' = Aggregate
  BY <1>3 DEF Records, Controllers, Aggregate
<1>5. All' = All BY <1>3, <1>4 DEF All
<1>6. InvocationOk' = InvocationOk BY DEF InvocationOk
<1>7. \A r : Selector(r)' = Selector(r)
  <2> TAKE r
  <2>1. TriedBy(r)' = TriedBy(r) BY <1>2
  <2> QED BY <1>2 DEF Selector
<1>8. \A t : Above(t)' = Above(t) BY <1>1, <1>7 DEF Above
<1>9. \A runs : AssessedThings(runs)' = AssessedThings(runs) BY <1>7 DEF AssessedThings
<1>10. \A pass : Reads(pass)' = Reads(pass)
  BY <1>3, <1>4, <1>5, <1>9 DEF Reads, DeliveryReads, StageReads, AttemptReads
<1> QED BY <1>1, <1>4, <1>5, <1>6, <1>8, <1>10

LEMMA NotedIs ==
  ASSUME NEW f, NEW t, NEW state
  PROVE  /\ DOMAIN Noted(f, t, state) = DOMAIN f \cup {t}
         /\ Noted(f, t, state)[t] = state
         /\ \A u \in DOMAIN f : u # t => Noted(f, t, state)[u] = f[u]
BY DEF Noted

LEMMA NextIsLeast ==
  ASSUME left # {}
  PROVE  NextThing \in left /\ \A u \in left : Level(NextThing) <= Level(u)
<1>1. \A t : Level(t) \in 0 .. 3 BY DEF Level
<1>2. \E t \in left : \A u \in left : Level(t) <= Level(u)
  <2>1. CASE \E t \in left : Level(t) = 0 BY <1>1, <2>1
  <2>2. CASE (\A t \in left : Level(t) # 0) /\ \E t \in left : Level(t) = 1 BY <1>1, <2>2
  <2>3. CASE (\A t \in left : Level(t) \notin {0, 1}) /\ \E t \in left : Level(t) = 2 BY <1>1, <2>3
  <2>4. CASE \A t \in left : Level(t) \notin {0, 1, 2} BY <1>1, <2>4
  <2> QED BY <2>1, <2>2, <2>3, <2>4
<1> QED BY <1>2 DEF NextThing

LEMMA ReadsAreRetained ==
  ASSUME InvocationOk, NEW pass \in Reading
  PROVE  Reads(pass) \subseteq All
<1>1. AssessedThings(History) \subseteq All
  BY DEF AssessedThings, All, Records, Controllers, Leaves, LeafKinds
<1>2. invocation.selected \subseteq History BY DEF History
<1>3. AssessedThings(invocation.selected) \subseteq All
  BY <1>2 DEF AssessedThings, All, Records, Controllers, Leaves, LeafKinds
<1>4. DeliveryReads \cup StageReads \cup AttemptReads \subseteq All
  BY <1>2 DEF DeliveryReads, StageReads, AttemptReads, All, Leaves, LeafKinds
<1>5. Records \subseteq All BY DEF All
<1> QED BY <1>1, <1>3, <1>4, <1>5 DEF Reads, Reading

-----------------------------------------------------------------------------
(* Reading and being read *)

EvidenceTypes ==
  /\ InvocationOk
  /\ stage \in Reading \cup {"loading", "publish", "published", "refused"}
  /\ stage \notin Reading => left = {}
  /\ disk \in [All -> States]
  /\ \A t \in All : disk[t] = "odd" => t.kind = "record"

\* A pass reads each thing once, and what speaks of it before it
PassProgress ==
  /\ stage \in Reading => left \cup DOMAIN seen = Reads(stage)
  /\ left \cap DOMAIN seen = {}
  /\ \A t \in DOMAIN seen, u \in left : Level(t) <= Level(u)

\* What was found replaced is still so
Remembered(f) == \A t \in DOMAIN f : t \in All /\ (f[t] # "own" => disk[t] = f[t])

Unread == {"loading", "capture", "assess", "validate", "history", "seal"}

Remembrance ==
  /\ Remembered(seen) /\ Remembered(sealed) /\ Remembered(documents) /\ Remembered(receipt)
  /\ result # "own" => disk[Root] = result
  /\ stage \in Unread => documents = NoThing
  /\ stage \in Unread \cup {"documents"} => receipt = NoThing
  /\ DOMAIN documents \subseteq Records /\ DOMAIN receipt \subseteq Reads("gather")

LEMMA NothingIsRemembered == DOMAIN NoThing = {} /\ Remembered(NoThing)
BY DEF NoThing, Remembered

\* What one reading does: the export is refused, or a thing is accepted as it lies there
LEMMA ReadStep ==
  ASSUME ReadThing, EvidenceTypes
  PROVE  /\ stage \in Reading /\ UNCHANGED <<invocation, disk, result, sealed, writes>>
         /\ \/ RefuseExport /\ UNCHANGED <<documents, receipt>>
            \/ \E t \in left :
                 /\ \A u \in left : Level(t) <= Level(u)
                 /\ Accepts(t, disk[t])
                 /\ left' = left \ {t} /\ seen' = Noted(seen, t, disk[t]) /\ UNCHANGED stage
                 /\ documents' = IF stage = "documents" THEN Noted(documents, t, disk[t]) ELSE documents
                 /\ receipt' = IF stage = "gather" THEN Noted(receipt, t, disk[t]) ELSE receipt
<1>1. left # {} /\ stage \in Reading BY DEF ReadThing, EvidenceTypes
<1>2. NextThing \in left /\ \A u \in left : Level(NextThing) <= Level(u) BY <1>1, NextIsLeast
<1> QED BY <1>1, <1>2 DEF ReadThing

LEMMA OverwriteStep ==
  ASSUME Overwrite, EvidenceTypes
  PROVE  /\ \A t \in All : disk[t] # "own" => disk'[t] = disk[t]
         /\ UNCHANGED <<invocation, stage, left, seen, result, sealed, documents, receipt>>
         /\ disk' \in [All -> States] /\ \A t \in All : disk'[t] = "odd" => t.kind = "record"
BY DEF Overwrite, EvidenceTypes, States

LEMMA TypesStep ==
  ASSUME EvidenceTypes, PassProgress, [EvidenceNext]_evidenceVars
  PROVE  EvidenceTypes'
<1>1. CASE Decode
  BY <1>1, SameThings DEF Decode, EvidenceTypes, StartPass, RefuseExport, Reading
<1>2. CASE ReadThing
  <2>1. UNCHANGED <<invocation, disk>> /\ stage \in Reading BY <1>2, ReadStep
  <2>2. stage' = stage \/ (stage' = "refused" /\ left' = {}) BY <1>2, ReadStep DEF RefuseExport
  <2> QED BY <2>1, <2>2, SameThings DEF EvidenceTypes, Reading
<1>3. CASE EndPass
  <2>1. UNCHANGED <<invocation, disk>> /\ stage \in Reading BY <1>3, PassesAre DEF EndPass
  <2>2. stage' = After(stage) /\ (stage' = "publish" => left' = {}) BY <1>3 DEF EndPass, StartPass
  <2>3. stage' \in Reading \cup {"publish"} BY <2>1, <2>2, PassesAre DEF Reading
  <2> QED BY <2>1, <2>2, <2>3, SameThings DEF EvidenceTypes, Reading
<1>4. CASE PublishReceipt BY <1>4, SameThings DEF PublishReceipt, EvidenceTypes, Reading
<1>5. CASE Overwrite BY <1>5, OverwriteStep, SameThings DEF EvidenceTypes
<1>6. CASE UNCHANGED evidenceVars BY <1>6, SameThings DEF evidenceVars, EvidenceTypes
<1> QED BY <1>1, <1>2, <1>3, <1>4, <1>5, <1>6 DEF EvidenceNext

LEMMA ProgressStep ==
  ASSUME EvidenceTypes, PassProgress, [EvidenceNext]_evidenceVars
  PROVE  PassProgress'
<1>1. CASE Decode
  <2>1. UNCHANGED invocation /\ seen' = NoThing BY <1>1 DEF Decode, StartPass, RefuseExport
  <2>2. (stage' = "capture" /\ left' = Reads("capture")) \/ (stage' = "refused" /\ left' = {})
    BY <1>1 DEF Decode, StartPass, RefuseExport
  <2> QED BY <2>1, <2>2, SameThings, NothingIsRemembered DEF PassProgress, Reading
<1>2. CASE ReadThing
  <2>1. stage \in Reading /\ UNCHANGED invocation BY <1>2, ReadStep
  <2>2. CASE RefuseExport BY <2>2, NothingIsRemembered DEF RefuseExport, PassProgress, Reading
  <2>3. CASE ~RefuseExport
    <3>1. PICK t \in left :
            /\ \A u \in left : Level(t) <= Level(u)
            /\ left' = left \ {t} /\ seen' = Noted(seen, t, disk[t]) /\ UNCHANGED stage
      BY <1>2, <2>3, ReadStep
    <3>2. DOMAIN seen' = DOMAIN seen \cup {t} BY <3>1, NotedIs
    <3> QED BY <2>1, <3>1, <3>2, SameThings DEF PassProgress
  <2> QED BY <2>2, <2>3
<1>3. CASE EndPass
  <2>1. UNCHANGED invocation /\ seen' = NoThing BY <1>3 DEF EndPass, StartPass
  <2>2. left' = IF stage' = "publish" THEN {} ELSE Reads(stage') BY <1>3 DEF EndPass, StartPass
  <2> QED BY <2>1, <2>2, SameThings, NothingIsRemembered DEF PassProgress, Reading
<1>4. CASE PublishReceipt BY <1>4 DEF PublishReceipt, PassProgress, Reading
<1>5. CASE Overwrite BY <1>5, OverwriteStep, SameThings DEF PassProgress
<1>6. CASE UNCHANGED evidenceVars BY <1>6, SameThings DEF evidenceVars, PassProgress
<1> QED BY <1>1, <1>2, <1>3, <1>4, <1>5, <1>6 DEF EvidenceNext

\* What is noted as it lies there is remembered
LEMMA NotedIsRemembered ==
  ASSUME NEW f, Remembered(f), NEW t \in All
  PROVE  Remembered(Noted(f, t, disk[t]))
<1> DEFINE g == Noted(f, t, disk[t])
<1>1. DOMAIN g = DOMAIN f \cup {t} /\ g[t] = disk[t] BY DEF Noted
<1>2. \A u \in DOMAIN f : u # t => g[u] = f[u] BY DEF Noted
<1> HIDE DEF g
<1>3. Remembered(g) BY <1>1, <1>2 DEF Remembered
<1> QED BY <1>3 DEF g

LEMMA RemembranceStep ==
  ASSUME EvidenceTypes, PassProgress, Remembrance, [EvidenceNext]_evidenceVars
  PROVE  Remembrance'
<1>1. CASE Decode
  <2>1. /\ UNCHANGED <<invocation, disk, sealed, documents, receipt>> /\ seen' = NoThing
        /\ stage = "loading" /\ stage' \in {"capture", "refused"}
        /\ result' = result \/ result' = disk[Root]
    BY <1>1 DEF Decode, StartPass, RefuseExport
  <2> QED BY <2>1, SameThings, NothingIsRemembered DEF Remembrance, Remembered, Unread
<1>2. CASE ReadThing
  <2>1. /\ stage \in Reading /\ UNCHANGED <<invocation, disk, result, sealed>>
    BY <1>2, ReadStep
  <2>2. CASE RefuseExport /\ UNCHANGED <<documents, receipt>>
    BY <2>1, <2>2, SameThings, NothingIsRemembered DEF RefuseExport, Remembrance, Remembered, Unread
  <2>3. CASE ~(RefuseExport /\ UNCHANGED <<documents, receipt>>)
    <3>1. PICK t \in left :
            /\ left' = left \ {t} /\ seen' = Noted(seen, t, disk[t]) /\ UNCHANGED stage
            /\ documents' = IF stage = "documents" THEN Noted(documents, t, disk[t]) ELSE documents
            /\ receipt' = IF stage = "gather" THEN Noted(receipt, t, disk[t]) ELSE receipt
      BY <1>2, <2>3, ReadStep
    <3>2. t \in Reads(stage) /\ t \in All
      BY <2>1, ReadsAreRetained DEF PassProgress, EvidenceTypes
    <3>3. Remembered(seen') /\ Remembered(documents') /\ Remembered(receipt')
      BY <3>1, <3>2, NotedIsRemembered DEF Remembrance
    <3>4. DOMAIN documents' \subseteq Records
      <4>1. DOMAIN documents' = DOMAIN documents \/ DOMAIN documents' = DOMAIN documents \cup {t}
        BY <3>1, NotedIs
      <4>2. stage = "documents" => t \in Records BY <3>2 DEF Reads
      <4> QED BY <3>1, <4>1, <4>2 DEF Remembrance
    <3>5. DOMAIN receipt' \subseteq Reads("gather")
      <4>1. DOMAIN receipt' = DOMAIN receipt \/ DOMAIN receipt' = DOMAIN receipt \cup {t}
        BY <3>1, NotedIs
      <4> QED BY <3>1, <3>2, <4>1 DEF Remembrance
    <3>6. /\ stage \in Unread => documents' = NoThing
          /\ stage \in Unread \cup {"documents"} => receipt' = NoThing
      BY <3>1 DEF Remembrance, Unread
    <3> QED BY <2>1, <3>1, <3>3, <3>4, <3>5, <3>6, SameThings DEF Remembrance, Remembered
  <2> QED BY <2>2, <2>3
<1>3. CASE EndPass
  <2>1. /\ UNCHANGED <<invocation, disk, result, documents, receipt>> /\ seen' = NoThing
        /\ stage \in Reading /\ stage' = After(stage)
        /\ sealed' = IF stage \in {"capture", "seal"}
                     THEN [t \in {u \in DOMAIN seen : Level(u) < 3} |-> seen[t]] ELSE sealed
    BY <1>3, PassesAre DEF EndPass, StartPass
  <2>2. Remembered(sealed') BY <2>1 DEF Remembrance, Remembered
  <2>3. /\ stage' \in Unread => stage \in Unread
        /\ stage' \in Unread \cup {"documents"} => stage \in Unread \cup {"documents"}
    BY <2>1, PassesAre DEF Reading, Unread
  <2> QED BY <2>1, <2>2, <2>3, SameThings, NothingIsRemembered DEF Remembrance, Remembered
<1>4. CASE PublishReceipt
  BY <1>4, SameThings DEF PublishReceipt, Remembrance, Remembered, Unread
<1>5. CASE Overwrite
  <2>1. Root \in All BY RootIs DEF EvidenceTypes
  <2> QED BY <1>5, <2>1, OverwriteStep, SameThings DEF Remembrance, Remembered
<1>6. CASE UNCHANGED evidenceVars
  BY <1>6, SameThings DEF evidenceVars, Remembrance, Remembered
<1> QED BY <1>1, <1>2, <1>3, <1>4, <1>5, <1>6 DEF EvidenceNext

-----------------------------------------------------------------------------
(* One story *)

Told(f) == \A t \in DOMAIN f : Unspoken(t) \/ f[t] = Says(f[Above(t)], t)

Linking == {"capture", "validate", "seal", "confirm"}
Judged  == {"validate", "history", "seal", "documents", "gather", "confirm", "publish", "published"}
Sealed  == {"documents", "gather", "confirm", "publish", "published"}

\* What a pass has read agrees with itself, with the result and with what was sealed
SeenAgrees ==
  /\ stage \in Linking => Told(seen) /\ (Root \in DOMAIN seen => seen[Root] = result)
  /\ stage = "confirm" => \A t \in DOMAIN seen \cap DOMAIN sealed : seen[t] = sealed[t]

\* The record the run was loaded from does not contradict itself
RootIsJudged ==
  /\ result # "own" /\ Root \in DOMAIN seen => seen[Root] = result
  /\ stage = "assess" => \A t \in DOMAIN seen : t.kind = "record" => seen[t] # "odd"
  /\ stage \in Judged /\ Root.kind = "record" => result # "odd"

\* The seal covers every record, and what was found later is not older
SealAgrees ==
  /\ stage \in Sealed =>
       /\ DOMAIN sealed = {t \in All : Level(t) < 3}
       /\ Told(sealed) /\ sealed[Root] = result
  /\ \A t \in DOMAIN documents \cap DOMAIN sealed : sealed[t] # "own" => documents[t] = sealed[t]

\* What was delivered is what the documents say
ReceiptAgrees ==
  \A t \in DOMAIN receipt :
    /\ t.kind \in {"artifacts", "baseline"} => receipt[t] = Says(documents[Above(t)], t)
    /\ t.kind = "project" => receipt[t] = "own"

\* What the last pass has read again
OneStory(t) ==
  /\ t \in DOMAIN documents => documents[t] = sealed[t]
  /\ t \in DOMAIN receipt /\ t.kind \in {"source", "transcript"} => receipt[t] = "own"

ConfirmedStory ==
  /\ stage = "confirm" => \A t \in DOMAIN seen : OneStory(t)
  /\ stage \in {"publish", "published"} => \A t \in All : OneStory(t)

EvidenceInv ==
  /\ EvidenceTypes /\ PassProgress /\ Remembrance
  /\ SeenAgrees /\ RootIsJudged /\ SealAgrees /\ ReceiptAgrees /\ ConfirmedStory

LEMMA MatchesIs ==
  ASSUME NEW t, NEW state, NEW known, Matches(t, state, known)
  PROVE  Unspoken(t) \/ state = Says(known[Above(t)], t)
BY DEF Matches, Unspoken

LEMMA SameSpeakers ==
  ASSUME invocation' = invocation
  PROVE  \A t : Unspoken(t)' <=> Unspoken(t)
BY SameThings DEF Unspoken

LEMMA ToldStays ==
  ASSUME invocation' = invocation, NEW f
  PROVE  Told(f)' <=> Told(f)
BY SameThings, SameSpeakers DEF Told

LEMMA NothingIsTold == Told(NoThing)
BY NothingIsRemembered DEF Told

\* A thing that is read after what speaks of it
LEMMA ToldGrows ==
  ASSUME InvocationOk, NEW f, Told(f), NEW t \in All, t \notin DOMAIN f,
         Unspoken(t) \/ (Above(t) \in DOMAIN f /\ disk[t] = Says(f[Above(t)], t)),
         \A u \in DOMAIN f : Unspoken(u) \/ Above(u) \in DOMAIN f
  PROVE  Told(Noted(f, t, disk[t]))
<1> DEFINE g == Noted(f, t, disk[t])
<1>1. DOMAIN g = DOMAIN f \cup {t} /\ g[t] = disk[t] BY DEF Noted
<1>2. \A u \in DOMAIN f : u # t => g[u] = f[u] BY DEF Noted
<1> HIDE DEF g
<1>3. Told(g) BY <1>1, <1>2 DEF Told
<1> QED BY <1>3 DEF g

\* In a pass over everything, what speaks of a thing was read before it
LEMMA SpeakersAreSeen ==
  ASSUME EvidenceTypes, PassProgress, stage \in Linking, NEW t \in All, ~Unspoken(t),
         \/ t \in DOMAIN seen
         \/ t \in left /\ \A u \in left : Level(t) <= Level(u)
  PROVE  Above(t) \in DOMAIN seen
<1>1. Above(t) \in All /\ Level(Above(t)) < Level(t) BY AboveIsRead DEF EvidenceTypes
<1>2. left \cup DOMAIN seen = All BY DEF PassProgress, Linking, Reading, Reads
<1>3. Level(t) \in 0 .. 3 /\ Level(Above(t)) \in 0 .. 3 BY DEF Level
<1> QED BY <1>1, <1>2, <1>3 DEF PassProgress

LEMMA SeenStep ==
  ASSUME EvidenceInv, [EvidenceNext]_evidenceVars
  PROVE  SeenAgrees'
<1> USE DEF EvidenceInv
<1>1. CASE seen' = NoThing /\ UNCHANGED invocation
  BY <1>1, ToldStays, NothingIsTold, NothingIsRemembered DEF SeenAgrees
<1>2. CASE ReadThing
  <2>1. stage \in Reading /\ UNCHANGED <<invocation, disk, result, sealed>> BY <1>2, ReadStep
  <2>2. CASE RefuseExport BY <1>1, <2>1, <2>2 DEF RefuseExport
  <2>3. CASE ~RefuseExport
    <3>1. PICK t \in left :
            /\ \A u \in left : Level(t) <= Level(u)
            /\ Accepts(t, disk[t])
            /\ left' = left \ {t} /\ seen' = Noted(seen, t, disk[t]) /\ UNCHANGED stage
      BY <1>2, <2>3, ReadStep
    <3>2. t \in All /\ t \notin DOMAIN seen
      BY <2>1, ReadsAreRetained DEF PassProgress, EvidenceTypes
    <3>3. DOMAIN seen' = DOMAIN seen \cup {t} /\ seen'[t] = disk[t] BY <3>1 DEF Noted
    <3>4. \A u \in DOMAIN seen : seen'[u] = seen[u] BY <3>1, <3>2 DEF Noted
    <3>5. ASSUME stage \in Linking
          PROVE  Told(seen)' /\ (Root \in DOMAIN seen' => seen'[Root] = result)
      <4>1. Matches(t, disk[t], seen) /\ (t = Root => disk[t] = result)
        BY <3>1, <3>5 DEF Accepts, Linking
      <4>2. Unspoken(t) \/ (Above(t) \in DOMAIN seen /\ disk[t] = Says(seen[Above(t)], t))
        BY <3>1, <3>2, <3>5, <4>1, MatchesIs, SpeakersAreSeen
      <4>3. \A u \in DOMAIN seen : Unspoken(u) \/ Above(u) \in DOMAIN seen
        BY <3>5, SpeakersAreSeen DEF Remembrance, Remembered
      <4>4. Told(Noted(seen, t, disk[t]))
        BY <3>2, <3>5, <4>2, <4>3, ToldGrows DEF SeenAgrees, EvidenceTypes
      <4>5. \A u \in DOMAIN seen' : Unspoken(u) \/ seen'[u] = Says(seen'[Above(u)], u)
        BY <3>1, <4>4 DEF Told
      <4>6. Told(seen)' BY <2>1, <4>5, SameThings, SameSpeakers DEF Told
      <4> QED BY <3>3, <3>4, <3>5, <4>1, <4>6 DEF SeenAgrees
    <3>6. ASSUME stage = "confirm", NEW u \in DOMAIN seen' \cap DOMAIN sealed
          PROVE  seen'[u] = sealed[u]
      <4>1. t \in DOMAIN sealed => disk[t] = sealed[t] BY <3>1, <3>6 DEF Accepts
      <4> QED BY <3>3, <3>4, <3>6, <4>1 DEF SeenAgrees
    <3> QED BY <2>1, <3>1, <3>5, <3>6, SameThings DEF SeenAgrees
  <2> QED BY <2>2, <2>3
<1>3. CASE Decode BY <1>1, <1>3 DEF Decode, StartPass, RefuseExport
<1>4. CASE EndPass BY <1>1, <1>4 DEF EndPass, StartPass
<1>5. CASE PublishReceipt BY <1>5 DEF PublishReceipt, SeenAgrees, Linking
<1>6. CASE Overwrite
  <2>1. UNCHANGED <<invocation, stage, seen, result, sealed>> BY <1>6, OverwriteStep
  <2> QED BY <2>1, SameThings, SameSpeakers DEF SeenAgrees, Told
<1>7. CASE UNCHANGED evidenceVars
  BY <1>7, SameThings, SameSpeakers DEF evidenceVars, SeenAgrees, Told
<1> QED BY <1>2, <1>3, <1>4, <1>5, <1>6, <1>7 DEF EvidenceNext

LEMMA RootJudgedStep ==
  ASSUME EvidenceInv, [EvidenceNext]_evidenceVars
  PROVE  RootIsJudged'
<1> USE DEF EvidenceInv
<1>1. CASE Decode
  <2>1. seen' = NoThing /\ stage' \in {"capture", "refused"}
    BY <1>1 DEF Decode, StartPass, RefuseExport
  <2> QED BY <2>1, NothingIsRemembered DEF RootIsJudged, Judged
<1>2. CASE ReadThing
  <2>1. stage \in Reading /\ UNCHANGED <<invocation, disk, result, sealed>> BY <1>2, ReadStep
  <2>2. CASE RefuseExport BY <2>2, NothingIsRemembered DEF RefuseExport, RootIsJudged, Judged
  <2>3. CASE ~RefuseExport
    <3>1. PICK t \in left :
            /\ Accepts(t, disk[t])
            /\ seen' = Noted(seen, t, disk[t]) /\ UNCHANGED stage
      BY <1>2, <2>3, ReadStep
    <3>2. DOMAIN seen' = DOMAIN seen \cup {t} /\ seen'[t] = disk[t] BY <3>1 DEF Noted
    <3>3. \A u \in DOMAIN seen : u # t => seen'[u] = seen[u] BY <3>1 DEF Noted
    <3>4. result # "own" /\ Root \in DOMAIN seen' => seen'[Root] = result
      BY <3>2, <3>3 DEF RootIsJudged, Remembrance
    <3>5. stage = "assess" => (t.kind = "record" => disk[t] # "odd")
      BY <3>1 DEF Accepts, Assessed
    <3> QED BY <2>1, <3>1, <3>2, <3>3, <3>4, <3>5, SameThings DEF RootIsJudged
  <2> QED BY <2>2, <2>3
<1>3. CASE EndPass
  <2>1. /\ UNCHANGED <<invocation, result>> /\ seen' = NoThing /\ left = {}
        /\ stage \in Reading /\ stage' = After(stage)
    BY <1>3, PassesAre DEF EndPass, StartPass
  <2>2. stage' # "assess" \/ stage = "capture" BY <2>1, PassesAre DEF Reading
  <2>3. stage' \in Judged => stage \in Judged \/ stage = "assess"
    BY <2>1, PassesAre DEF Reading, Judged
  <2>4. ASSUME stage = "assess", Root.kind = "record" PROVE result # "odd"
    <3>1. PICK r \in Runs : invocation.selected = {r} /\ Root = Thing("record", r)
      BY <2>4, RootIs DEF EvidenceTypes, InvocationOk, Thing
    <3>2. Root \in Reads("assess") BY <3>1 DEF Reads, AssessedThings
    <3>3. Root \in DOMAIN seen BY <2>1, <2>4, <3>2 DEF PassProgress
    <3> QED BY <2>4, <3>3 DEF RootIsJudged
  <2> QED BY <2>1, <2>3, <2>4, NothingIsRemembered, SameThings DEF RootIsJudged
<1>4. CASE PublishReceipt BY <1>4, SameThings DEF PublishReceipt, RootIsJudged, Judged
<1>5. CASE Overwrite
  <2>1. UNCHANGED <<invocation, stage, seen, result>> BY <1>5, OverwriteStep
  <2> QED BY <2>1, SameThings DEF RootIsJudged
<1>6. CASE UNCHANGED evidenceVars BY <1>6, SameThings DEF evidenceVars, RootIsJudged
<1> QED BY <1>1, <1>2, <1>3, <1>4, <1>5, <1>6 DEF EvidenceNext

\* The seal is what a pass over everything has read
LEMMA SealHolds ==
  ASSUME EvidenceInv, stage = "seal", left = {},
         NEW f, f = [t \in {u \in DOMAIN seen : Level(u) < 3} |-> seen[t]]
  PROVE  DOMAIN f = {t \in All : Level(t) < 3} /\ Told(f) /\ f[Root] = result
<1> USE DEF EvidenceInv
<1>1. DOMAIN seen = All BY DEF PassProgress, Reading, Reads
<1>2. DOMAIN f = {t \in All : Level(t) < 3} /\ \A t \in DOMAIN f : f[t] = seen[t] BY <1>1
<1>3. ASSUME NEW t \in DOMAIN f, ~Unspoken(t) PROVE f[t] = Says(f[Above(t)], t)
  <2>1. Above(t) \in All /\ Level(Above(t)) < Level(t)
    BY <1>2, <1>3, AboveIsRead DEF EvidenceTypes
  <2>2. Level(t) \in 0 .. 2 /\ Level(Above(t)) \in 0 .. 3 BY <1>2 DEF Level
  <2>3. Above(t) \in DOMAIN f BY <1>2, <2>1, <2>2
  <2>4. seen[t] = Says(seen[Above(t)], t) BY <1>1, <1>2, <1>3 DEF SeenAgrees, Linking, Told
  <2> QED BY <1>2, <2>3, <2>4
<1>4. Root \in All /\ Level(Root) < 3
  BY RootIs DEF EvidenceTypes, InvocationOk, Thing, Level
<1>5. f[Root] = result BY <1>1, <1>2, <1>4 DEF SeenAgrees, Linking
<1> QED BY <1>2, <1>3, <1>5 DEF Told

LEMMA SealStep ==
  ASSUME EvidenceInv, [EvidenceNext]_evidenceVars
  PROVE  SealAgrees'
<1> USE DEF EvidenceInv
<1>1. CASE Decode
  <2>1. UNCHANGED <<documents, sealed>> /\ stage' \in {"capture", "refused"}
    BY <1>1 DEF Decode, StartPass, RefuseExport
  <2> QED BY <2>1 DEF SealAgrees, Sealed
<1>2. CASE ReadThing
  <2>1. stage \in Reading /\ UNCHANGED <<invocation, disk, result, sealed>> BY <1>2, ReadStep
  <2>2. CASE RefuseExport /\ UNCHANGED documents BY <2>1, <2>2 DEF RefuseExport, SealAgrees, Sealed
  <2>3. CASE ~(RefuseExport /\ UNCHANGED documents)
    <3>1. PICK t \in left :
            /\ UNCHANGED stage
            /\ documents' = IF stage = "documents" THEN Noted(documents, t, disk[t]) ELSE documents
      BY <1>2, <2>3, ReadStep
    <3>2. t \in DOMAIN sealed /\ sealed[t] # "own" => disk[t] = sealed[t]
      BY DEF Remembrance, Remembered
    <3>3. CASE stage = "documents"
      <4>1. DOMAIN documents' = DOMAIN documents \cup {t} /\ documents'[t] = disk[t]
        BY <3>1, <3>3 DEF Noted
      <4>2. \A u \in DOMAIN documents : u # t => documents'[u] = documents[u]
        BY <3>1, <3>3 DEF Noted
      <4>3. \A u \in DOMAIN documents' \cap DOMAIN sealed : sealed[u] # "own" => documents'[u] = sealed[u]
        BY <3>2, <4>1, <4>2 DEF SealAgrees
      <4> QED BY <2>1, <3>1, <4>3, SameThings, SameSpeakers DEF SealAgrees, Told
    <3>4. CASE stage # "documents"
      BY <2>1, <3>1, <3>4, SameThings, SameSpeakers DEF SealAgrees, Told
    <3> QED BY <3>3, <3>4
  <2> QED BY <2>2, <2>3
<1>3. CASE EndPass
  <2>1. /\ UNCHANGED <<invocation, result, documents>> /\ left = {}
        /\ stage \in Reading /\ stage' = After(stage)
        /\ sealed' = IF stage \in {"capture", "seal"}
                     THEN [t \in {u \in DOMAIN seen : Level(u) < 3} |-> seen[t]] ELSE sealed
    BY <1>3, PassesAre DEF EndPass, StartPass
  <2>2. stage' \in Sealed => stage \in Sealed \/ stage = "seal" BY <2>1, PassesAre DEF Reading, Sealed
  <2>3. CASE stage = "seal"
    <3>1. /\ DOMAIN sealed' = {t \in All : Level(t) < 3} /\ sealed'[Root] = result
          /\ \A t \in DOMAIN sealed' : Unspoken(t) \/ sealed'[t] = Says(sealed'[Above(t)], t)
      BY <2>1, <2>3, SealHolds DEF Told
    <3>2. DOMAIN documents = {} BY <2>3, NothingIsRemembered DEF Remembrance, Unread
    <3>3. Told(sealed)' BY <2>1, <3>1, SameThings, SameSpeakers DEF Told
    <3> QED BY <2>1, <3>1, <3>2, <3>3, SameThings DEF SealAgrees
  <2>4. CASE stage = "capture"
    <3>1. DOMAIN documents = {} BY <2>4, NothingIsRemembered DEF Remembrance, Unread
    <3>2. stage' \notin Sealed BY <2>2, <2>4 DEF Sealed
    <3> QED BY <2>1, <3>1, <3>2 DEF SealAgrees
  <2>5. CASE stage \notin {"seal", "capture"}
    BY <2>1, <2>2, <2>5, SameThings, SameSpeakers DEF SealAgrees, Told
  <2> QED BY <2>3, <2>4, <2>5
<1>4. CASE PublishReceipt BY <1>4, SameThings, SameSpeakers DEF PublishReceipt, SealAgrees, Sealed, Told
<1>5. CASE Overwrite
  <2>1. UNCHANGED <<invocation, stage, result, sealed, documents>> BY <1>5, OverwriteStep
  <2> QED BY <2>1, SameThings, SameSpeakers DEF SealAgrees, Told
<1>6. CASE UNCHANGED evidenceVars BY <1>6, SameThings, SameSpeakers DEF evidenceVars, SealAgrees, Told
<1> QED BY <1>1, <1>2, <1>3, <1>4, <1>5, <1>6 DEF EvidenceNext

LEMMA ReceiptStep ==
  ASSUME EvidenceInv, [EvidenceNext]_evidenceVars
  PROVE  ReceiptAgrees'
<1> USE DEF EvidenceInv
<1>1. CASE UNCHANGED <<invocation, documents, receipt>>
  BY <1>1, SameThings DEF ReceiptAgrees
<1>2. CASE ReadThing
  <2>1. stage \in Reading /\ UNCHANGED <<invocation, disk, result, sealed>> BY <1>2, ReadStep
  <2>2. CASE UNCHANGED <<documents, receipt>> BY <1>1, <2>1, <2>2
  <2>3. CASE ~UNCHANGED <<documents, receipt>>
    <3>1. PICK t \in left :
            /\ Accepts(t, disk[t])
            /\ documents' = IF stage = "documents" THEN Noted(documents, t, disk[t]) ELSE documents
            /\ receipt' = IF stage = "gather" THEN Noted(receipt, t, disk[t]) ELSE receipt
      BY <1>2, <2>3, ReadStep
    <3>2. CASE stage # "gather"
      <4>1. stage = "documents" BY <2>3, <3>1, <3>2
      <4>2. DOMAIN receipt' = {} BY <3>1, <4>1, NothingIsRemembered DEF Remembrance
      <4> QED BY <4>2 DEF ReceiptAgrees
    <3>3. CASE stage = "gather"
      <4>1. DOMAIN receipt' = DOMAIN receipt \cup {t} /\ receipt'[t] = disk[t]
        BY <3>1, <3>3 DEF Noted
      <4>2. \A u \in DOMAIN receipt : u # t => receipt'[u] = receipt[u] BY <3>1, <3>3 DEF Noted
      <4>3. documents' = documents BY <3>1, <3>3
      <4>4. /\ t.kind \in {"artifacts", "baseline"} => disk[t] = Says(documents[Above(t)], t)
            /\ t.kind = "project" => disk[t] = "own"
        BY <3>1, <3>3 DEF Accepts
      <4> QED BY <2>1, <4>1, <4>2, <4>3, <4>4, SameThings DEF ReceiptAgrees
    <3> QED BY <3>2, <3>3
  <2> QED BY <2>2, <2>3
<1>3. CASE Decode BY <1>1, <1>3 DEF Decode
<1>4. CASE EndPass BY <1>1, <1>4 DEF EndPass
<1>5. CASE PublishReceipt BY <1>1, <1>5 DEF PublishReceipt
<1>6. CASE Overwrite BY <1>1, <1>6, OverwriteStep
<1>7. CASE UNCHANGED evidenceVars BY <1>1, <1>7 DEF evidenceVars
<1> QED BY <1>2, <1>3, <1>4, <1>5, <1>6, <1>7 DEF EvidenceNext

LEMMA StoryStays ==
  ASSUME UNCHANGED <<sealed, documents, receipt>>, NEW t
  PROVE  OneStory(t)' <=> OneStory(t)
BY DEF OneStory

LEMMA ConfirmedStep ==
  ASSUME EvidenceInv, [EvidenceNext]_evidenceVars
  PROVE  ConfirmedStory'
<1> USE DEF EvidenceInv
<1>1. CASE Decode
  BY <1>1 DEF Decode, StartPass, RefuseExport, ConfirmedStory
<1>2. CASE ReadThing
  <2>1. stage \in Reading /\ UNCHANGED <<invocation, disk, result, sealed>> BY <1>2, ReadStep
  <2>2. CASE RefuseExport BY <2>2 DEF RefuseExport, ConfirmedStory
  <2>3. CASE ~RefuseExport
    <3>1. PICK t \in left :
            /\ \A u \in left : Level(t) <= Level(u)
            /\ Accepts(t, disk[t])
            /\ seen' = Noted(seen, t, disk[t]) /\ UNCHANGED stage
            /\ documents' = IF stage = "documents" THEN Noted(documents, t, disk[t]) ELSE documents
            /\ receipt' = IF stage = "gather" THEN Noted(receipt, t, disk[t]) ELSE receipt
      BY <1>2, <2>3, ReadStep
    <3>2. CASE stage = "confirm"
      <4>1. UNCHANGED <<sealed, documents, receipt>> BY <2>1, <3>1, <3>2
      <4>2. Matches(t, disk[t], seen) /\ (t \in DOMAIN sealed => disk[t] = sealed[t])
        BY <3>1, <3>2 DEF Accepts
      <4>3. t \in All BY <2>1, ReadsAreRetained DEF PassProgress, EvidenceTypes
      <4>4. t \in DOMAIN documents => documents[t] = sealed[t]
        <5> SUFFICES ASSUME t \in DOMAIN documents PROVE documents[t] = sealed[t] OBVIOUS
        <5>1. t.kind = "record" BY DEF Remembrance, Records, Thing
        <5>2. t \in DOMAIN sealed BY <3>2, <4>3, <5>1 DEF SealAgrees, Sealed, Level
        <5>3. documents[t] # "own" => disk[t] = documents[t] BY DEF Remembrance, Remembered
        <5> QED BY <4>2, <5>2, <5>3 DEF SealAgrees
      <4>5. ASSUME t \in DOMAIN receipt, t.kind \in {"source", "transcript"} PROVE receipt[t] = "own"
        <5>1. ~Unspoken(t)
          BY <4>5, RootIs DEF Unspoken, EvidenceTypes, InvocationOk, Thing
        <5>2. disk[t] = "own" BY <4>2, <4>5, <5>1, MatchesIs DEF Says
        <5> QED BY <4>5, <5>2 DEF Remembrance, Remembered
      <4>6. OneStory(t) BY <4>4, <4>5 DEF OneStory
      <4>7. DOMAIN seen' = DOMAIN seen \cup {t} BY <3>1 DEF Noted
      <4> QED BY <3>1, <3>2, <4>1, <4>6, <4>7, StoryStays DEF ConfirmedStory
    <3>3. CASE stage # "confirm" BY <2>1, <3>1, <3>3 DEF ConfirmedStory, Reading
    <3> QED BY <3>2, <3>3
  <2> QED BY <2>2, <2>3
<1>3. CASE EndPass
  <2>1. /\ UNCHANGED <<invocation, documents, receipt>> /\ seen' = NoThing /\ left = {}
        /\ stage \in Reading /\ stage' = After(stage)
        /\ stage = "confirm" => UNCHANGED sealed
    BY <1>3, PassesAre DEF EndPass, StartPass
  <2>2. stage' \in {"publish", "published"} => stage = "confirm" BY <2>1, PassesAre DEF Reading
  <2>3. stage = "confirm" => DOMAIN seen = All BY <2>1 DEF PassProgress, Reads, Reading
  <2> QED BY <2>1, <2>2, <2>3, NothingIsRemembered, SameThings, StoryStays DEF ConfirmedStory
<1>4. CASE PublishReceipt
  BY <1>4, SameThings, StoryStays DEF PublishReceipt, ConfirmedStory
<1>5. CASE Overwrite
  <2>1. UNCHANGED <<invocation, stage, seen, sealed, documents, receipt>> BY <1>5, OverwriteStep
  <2> QED BY <2>1, SameThings, StoryStays DEF ConfirmedStory
<1>6. CASE UNCHANGED evidenceVars BY <1>6, SameThings, StoryStays DEF evidenceVars, ConfirmedStory
<1> QED BY <1>1, <1>2, <1>3, <1>4, <1>5, <1>6 DEF EvidenceNext

LEMMA EvidenceStarts == EvidenceInit => EvidenceInv
<1> SUFFICES ASSUME EvidenceInit PROVE EvidenceInv OBVIOUS
<1> USE NothingIsRemembered, NothingIsTold DEF EvidenceInit
<1>1. InvocationOk BY InvocationAssumption DEF InvocationOk
<1>2. EvidenceTypes BY <1>1 DEF EvidenceTypes, States, Reading
<1>3. PassProgress BY DEF PassProgress, Reading
<1>4. Remembrance BY DEF Remembrance, Unread
<1>5. SeenAgrees /\ RootIsJudged BY DEF SeenAgrees, RootIsJudged, Linking, Judged
<1>6. SealAgrees /\ ReceiptAgrees /\ ConfirmedStory
  BY DEF SealAgrees, ReceiptAgrees, ConfirmedStory, Sealed
<1> QED BY <1>2, <1>3, <1>4, <1>5, <1>6 DEF EvidenceInv

LEMMA StoryIsOne == EvidenceInv => ReceiptIsOneStory
<1> SUFFICES ASSUME EvidenceInv, stage = "published" PROVE ReceiptIsOneStory
  BY DEF ReceiptIsOneStory
<1> USE DEF EvidenceInv
<1>1. ASSUME NEW t \in DOMAIN receipt
      PROVE  receipt[t] = IF t.kind = "project" THEN "own" ELSE Says(documents[Thing("record", t.run)], t)
  <2>1. t \in All BY DEF Remembrance, Remembered
  <2>2. t \in Reads("gather") BY DEF Remembrance
  <2>3. t.kind \in {"baseline", "artifacts", "source", "transcript", "project"}
    BY <2>2 DEF Reads, DeliveryReads, StageReads, AttemptReads, Thing
  <2>4. t.kind \in {"artifacts", "baseline"} => Above(t) = Thing("record", t.run)
    BY DEF Above, LeafKinds
  <2>5. t.kind \in {"source", "transcript"} => receipt[t] = "own"
    BY <2>1 DEF ConfirmedStory, OneStory
  <2> QED BY <2>3, <2>4, <2>5 DEF ReceiptAgrees, Says
<1>2. ASSUME NEW t \in DOMAIN documents
      PROVE  /\ documents[t] # "odd"
             /\ t # Root => documents[t] = Says(IF Above(t) = Root THEN result ELSE sealed[Above(t)], t)
  <2>1. t \in All /\ t.kind = "record" BY DEF Remembrance, Remembered, Records, Thing
  <2>2. documents[t] = sealed[t] BY <2>1 DEF ConfirmedStory, OneStory
  <2>3. t \in DOMAIN sealed BY <2>1 DEF SealAgrees, Sealed, Level
  <2>4. t = Root => documents[t] # "odd"
    BY <2>1, <2>2 DEF SealAgrees, Sealed, RootIsJudged, Judged
  <2>5. t # Root => documents[t] = Says(sealed[Above(t)], t)
    BY <2>1, <2>2, <2>3 DEF SealAgrees, Sealed, Told, Unspoken
  <2>6. sealed[Root] = result BY DEF SealAgrees, Sealed
  <2> QED BY <2>4, <2>5, <2>6 DEF Says
<1> QED BY <1>1, <1>2 DEF ReceiptIsOneStory

\* Whatever was finalized and whoever replaces any of it, any number of times, while it
\* is read: a receipt that is published tells one story (load_completed_result,
\* export_package).
THEOREM ReceiptTellsOneStory == EvidenceSpec => []ReceiptIsOneStory
<1>1. EvidenceInit => EvidenceInv BY EvidenceStarts
<1>2. EvidenceInv /\ [EvidenceNext]_evidenceVars => EvidenceInv'
  <2> SUFFICES ASSUME EvidenceInv, [EvidenceNext]_evidenceVars PROVE EvidenceInv' OBVIOUS
  <2>1. EvidenceTypes' /\ PassProgress' /\ Remembrance'
    BY TypesStep, ProgressStep, RemembranceStep DEF EvidenceInv
  <2> QED BY <2>1, SeenStep, RootJudgedStep, SealStep, ReceiptStep, ConfirmedStep DEF EvidenceInv
<1>3. EvidenceInv => ReceiptIsOneStory BY StoryIsOne
<1> QED BY <1>1, <1>2, <1>3, PTL DEF EvidenceSpec

-----------------------------------------------------------------------------
(* The bytes of a contract *)

Idle == {"planned", "admitted", "agent", "published", "check", "checked", "viewed", "stopped",
         "no_delivery"}
Busy == {"freeze", "freeze_copy", "inspect", "provenance", "map", "baseline", "producer",
         "references", "collect", "publish", "supply", "deliver", "before", "after", "view"}
Comparing == {"publish", "before", "after"}

WorkTypes ==
  /\ task \in Tasks
  /\ tree \in [Places -> [FileNames -> Files \cup {Absent}]]
  /\ job.stage \in Idle \cup Busy
  /\ job = [stage |-> job.stage, from |-> job.from, left |-> job.left]
  /\ DOMAIN job.from \subseteq FileNames /\ job.left \subseteq DOMAIN job.from
  /\ \A n \in DOMAIN job.from : job.from[n] \in Places
  /\ job.stage \in Idle => job.left = {}
  /\ IsMapping(entries) /\ IsMapping(planned) /\ IsMapping(taken)
  /\ project # Absent => IsMapping(project)
  /\ inventory # Absent => IsMapping(inventory)
  /\ open # Absent =>
       open.name \in job.left /\ open.file \in Files /\ job.stage \notin {"before", "after"}
  /\ meddled \in Nat /\ ended \in Nat /\ ended <= meddled
  /\ job.stage \in Busy \ Comparing => DOMAIN entries = DOMAIN job.from \ job.left

\* What a copy shows of the names that were carried so far
Copied(place, m, names) ==
  \A n \in FileNames :
    IF n \in names THEN tree[place][n] # Absent /\ tree[place][n].bytes = m[n]
    ELSE tree[place][n] = Absent

Planning == {"planned", "freeze", "freeze_copy", "inspect", "admitted"}
Capturing == {"map", "baseline", "producer", "references"}
Producing == {"agent", "collect"}
Undelivered == Planning \cup {"provenance"} \cup Capturing \cup Producing \cup {"no_delivery"}
Delivered == {"published", "supply", "deliver"}
Judging == {"before", "check", "after", "checked", "view", "viewed"}

\* The snapshot is of a frozen project, and holds application files of its own
SnapshotOk ==
  /\ project # Absent => task.frozen /\ DOMAIN project \subseteq Application \ Supplied
  /\ job.stage \in {"planned", "freeze"} => project = Absent
  /\ job.stage \in {"freeze", "freeze_copy"} =>
       task.frozen /\ DOMAIN job.from \subseteq Application \ Supplied
  /\ Held("imports") \subseteq DOMAIN task.imports

SourceCopied ==
  /\ job.stage \in Planning => tree["source"] = Empty
  /\ job.stage = "provenance" =>
       DOMAIN job.from = DOMAIN planned /\ Copied("source", planned, DOMAIN planned \ job.left)
  /\ job.stage \in Capturing => Copied("source", planned, DOMAIN planned)

\* The second mapping reads the sources as planned, the project from its snapshot,
\* and nothing at the place of an output
MappedOk ==
  job.stage = "map" =>
    /\ DOMAIN job.from \cap task.outputs = {}
    /\ \A n \in DOMAIN entries \cap DOMAIN planned : ~Beside(n) => entries[n] = planned[n]
    /\ project # Absent =>
         /\ Bytes("project") = project
         /\ \A n \in DOMAIN job.from \cap DOMAIN project : job.from[n] = "project"
         /\ \A n \in DOMAIN entries \cap DOMAIN project : entries[n] = project[n]

AdmittedOk ==
  /\ job.stage \in (Capturing \ {"map"}) \cup Producing \cup {"publish"} \cup Delivered \cup Judging =>
       inventory # Absent
  /\ job.stage \in Capturing \ {"map"} =>
       /\ DOMAIN inventory \cap task.outputs = {}
       /\ \A n \in DOMAIN inventory \cap DOMAIN planned : ~Beside(n) => inventory[n] = planned[n]
       /\ project # Absent => \A n \in DOMAIN inventory \cap DOMAIN project : inventory[n] = project[n]

BaselineCopied ==
  /\ job.stage \in Planning \cup {"provenance", "map"} => tree["baseline"] = Empty
  /\ job.stage = "baseline" =>
       DOMAIN job.from = DOMAIN inventory /\ Copied("baseline", inventory, DOMAIN inventory \ job.left)
  /\ job.stage \in {"producer", "references"} => Copied("baseline", inventory, DOMAIN inventory)

ProducerCopied ==
  /\ job.stage \in Planning \cup {"provenance", "map", "baseline"} => tree["producer"] = Empty
  /\ job.stage = "producer" =>
       DOMAIN job.from = DOMAIN inventory /\ Copied("producer", inventory, DOMAIN inventory \ job.left)
  /\ job.stage = "references" => Copied("producer", inventory, DOMAIN inventory)

DeliveryStages ==
  /\ DOMAIN taken \in {{}, task.outputs}
  /\ job.stage \in Undelivered => DOMAIN taken = {}
  /\ job.stage \in {"collect", "publish"} => DOMAIN job.from = task.outputs
  /\ job.stage \in {"publish"} \cup Delivered \cup Judging => DOMAIN taken = task.outputs

\* Nothing is shown before all outputs are captured and written, and then all of them,
\* unless others write there
WrittenOut == (DOMAIN job.from \ job.left) \cup (IF open = Absent THEN {} ELSE {open.name})
Unedited(place) ==
  \A n \in FileNames : tree[place][n] # Absent /\ tree[place][n].stamp = 0 =>
    n \in DOMAIN taken /\ tree[place][n].bytes = taken[n]

DeliveryWhole ==
  /\ job.stage \in Undelivered => tree["artifacts"] = Empty /\ tree["pending"] = Empty
  /\ job.stage = "publish" => tree["artifacts"] = Empty
  /\ meddled = 0 => /\ job.stage = "publish" => Copied("pending", taken, WrittenOut)
                    /\ Bytes("artifacts") \in {NoBytes, taken}
  /\ Unedited("pending") /\ Unedited("artifacts")

\* What was compared is as it was captured until somebody writes again
Compared == task.outputs \cup {n \in DOMAIN inventory : Kind[n] = "check"}

VerdictOk ==
  /\ job.stage \notin {"checked", "view", "viewed", "stopped"} => verdict = "none"
  /\ job.stage \in {"before", "after"} => DOMAIN job.from = Compared
  /\ job.stage = "after" /\ meddled = ended => \A n \in Compared \ job.left : Intact(n)
  /\ verdict = "passed" =>
       /\ job.stage \in {"checked", "view", "viewed", "stopped"}
       /\ meddled = ended => \A n \in Compared : Intact(n)

ViewCopied ==
  /\ job.stage \notin {"view", "viewed", "stopped"} => tree["view"] = Empty
  /\ job.stage = "view" => DOMAIN job.from \subseteq DOMAIN inventory \cup task.outputs
  /\ job.stage \in {"view", "viewed"} =>
       \A n \in FileNames : tree["view"][n] # Absent =>
         tree["view"][n].bytes = IF n \in task.outputs THEN taken[n] ELSE inventory[n]

WorkspaceInv ==
  /\ WorkTypes /\ SnapshotOk /\ SourceCopied /\ MappedOk /\ AdmittedOk
  /\ BaselineCopied /\ ProducerCopied /\ DeliveryStages /\ DeliveryWhole /\ VerdictOk /\ ViewCopied

LEMMA NothingIsMapped == IsMapping(NoBytes) /\ DOMAIN NoBytes = {}
BY DEF IsMapping, NoBytes

LEMMA MappingIsThere == \A f : IsMapping(f) => f # Absent
BY WorkspaceAssumption DEF IsMapping

LEMMA FileIsThere == \A f \in Files : f # Absent /\ f.bytes \in Contents /\ f.bytes # Absent
BY WorkspaceAssumption DEF Files

\* The run ends here, with everything as it is
Stopping == GiveUp /\ UNCHANGED tree /\ Fixed

\* One file was read as it was admitted
ReadsWell(n, bytes) ==
  /\ n \in job.left /\ bytes \in Contents /\ bytes = tree[job.from[n]][n].bytes
  /\ tree[job.from[n]][n] \in Files
  /\ Required(n) # Absent => Required(n) = bytes
  /\ open' = Absent /\ job.stage \in Busy \ Comparing
  /\ job' = [stage |-> job.stage, from |-> job.from, left |-> job.left \ {n}]
  /\ entries' = [m \in DOMAIN entries \cup {n} |-> IF m = n THEN bytes ELSE entries[m]]
  /\ tree' = IF Target = Absent THEN tree
             ELSE [tree EXCEPT ![Target][n] = [bytes |-> bytes, stamp |-> 0]]
  /\ Fixed

LEMMA ReadFileStep ==
  ASSUME WorkTypes, ReadFile
  PROVE  Stopping \/ \E n \in FileNames, bytes \in Contents : ReadsWell(n, bytes)
<1> DEFINE n == open.name
           bytes == open.file.bytes
<1>1. n \in job.left /\ open.file \in Files /\ job.stage \notin Comparing
  BY DEF ReadFile, WorkTypes, Comparing
<1>2. n \in FileNames /\ bytes \in Contents /\ job.stage \in Busy
  BY <1>1, FileIsThere DEF WorkTypes
<1>3. CASE tree[job.from[n]][n] # open.file \/ (Required(n) # Absent /\ Required(n) # bytes)
  BY <1>3 DEF ReadFile, Stopping
<1>4. CASE ~(tree[job.from[n]][n] # open.file \/ (Required(n) # Absent /\ Required(n) # bytes))
  <2>1. /\ open' = Absent /\ job' = [job EXCEPT !.left = @ \ {n}] /\ Fixed
        /\ entries' = [m \in DOMAIN entries \cup {n} |-> IF m = n THEN bytes ELSE entries[m]]
        /\ tree' = IF Target = Absent THEN tree
                   ELSE [tree EXCEPT ![Target][n] = [bytes |-> bytes, stamp |-> 0]]
    BY <1>4 DEF ReadFile
  <2>2. job' = [stage |-> job.stage, from |-> job.from, left |-> job.left \ {n}]
    BY <2>1 DEF WorkTypes
  <2>3. ReadsWell(n, bytes) BY <1>1, <1>2, <1>4, <2>1, <2>2 DEF ReadsWell
  <2> QED BY <1>2, <2>3
<1> QED BY <1>3, <1>4

\* Everything a job carries is carried
LEMMA StoppingTypes ==
  ASSUME WorkTypes, Stopping
  PROVE  WorkTypes'
BY NothingIsMapped DEF Stopping, GiveUp, Fixed, WorkTypes, Idle, Busy, NoBytes, Files, IsMapping

LEMMA TargetIsPlace ==
  ASSUME Target # Absent
  PROVE  /\ Target \in {"project", "source", "baseline", "producer", "references", "pending",
                        "subject", "view"}
         /\ Target \in Places
BY DEF Target, Places

LEMMA ReadTypes ==
  ASSUME WorkTypes, NEW n \in FileNames, NEW bytes \in Contents, ReadsWell(n, bytes)
  PROVE  WorkTypes'
<1>1. tree' \in [Places -> [FileNames -> Files \cup {Absent}]]
  <2>1. [bytes |-> bytes, stamp |-> 0] \in Files BY DEF Files
  <2> QED BY <2>1, TargetIsPlace DEF ReadsWell, WorkTypes
<1>2. IsMapping(entries') BY DEF ReadsWell, WorkTypes, IsMapping
<1>3. DOMAIN entries' = DOMAIN entries \cup {n} BY DEF ReadsWell
<1>4. DOMAIN entries' = DOMAIN job'.from \ job'.left BY <1>3 DEF ReadsWell, WorkTypes
<1>5. job'.stage = job.stage /\ job'.from = job.from /\ job'.left = job.left \ {n}
      /\ job' = [stage |-> job'.stage, from |-> job'.from, left |-> job'.left]
  BY DEF ReadsWell
<1>6. job'.stage \notin Idle BY <1>5 DEF ReadsWell, Idle, Busy
<1> QED BY <1>1, <1>2, <1>4, <1>5, <1>6 DEF ReadsWell, WorkTypes, Fixed

\* A job begins
LEMMA CarryTypes ==
  ASSUME WorkTypes, NEW s \in Idle \cup Busy, NEW from, Carry(s, from),
         s \in Idle => DOMAIN from = {},
         DOMAIN from \subseteq FileNames, \A n \in DOMAIN from : from[n] \in Places,
         open = Absent, open' = Absent,
         tree' \in [Places -> [FileNames -> Files \cup {Absent}]],
         task' = task, planned' = planned, meddled' = meddled, ended' \in {ended, meddled},
         IsMapping(taken'), project' # Absent => IsMapping(project'),
         inventory' # Absent => IsMapping(inventory')
  PROVE  WorkTypes'
<1>1. job'.stage = s /\ job'.from = from /\ job'.left = DOMAIN from /\ entries' = NoBytes
  BY DEF Carry
<1>2. job' = [stage |-> job'.stage, from |-> job'.from, left |-> job'.left] BY <1>1 DEF Carry
<1>3. IsMapping(entries') /\ DOMAIN entries' = DOMAIN job'.from \ job'.left
  BY <1>1, NothingIsMapped
<1> QED BY <1>1, <1>2, <1>3 DEF WorkTypes, IsMapping

LEMMA OriginIsPlace == \A n : Origin(n) \in Places
BY DEF Origin, Places

LEMMA NextIsLeft == job.left # {} => NextName \in job.left
BY DEF NextName

LEMMA MappedAreFiles ==
  ASSUME WorkTypes
  PROVE  Mapped \subseteq FileNames
<1>1. Supplied \subseteq FileNames BY TaskAssumption DEF WorkTypes, Supplied, IsMapping
<1>2. ProjectNames \subseteq FileNames
  BY DEF ProjectNames, Application, WorkTypes, IsMapping
<1>3. SelectedNames \subseteq FileNames
  BY <1>2, TaskAssumption DEF SelectedNames, WorkTypes, Own, SourceNames, LockNames, CheckNames, Held
<1> QED BY <1>1, <1>3 DEF Mapped, Held, PackageNames, CheckNames

LEMMA OutputsAreFiles ==
  ASSUME WorkTypes
  PROVE  task.outputs \subseteq FileNames /\ IsMapping(task.imports) /\ IsMapping(task.upstream)
BY TaskAssumption DEF WorkTypes

\* Opening a file changes nothing, ends the run, or finds that an output is missing
LEMMA OpenFileStep ==
  ASSUME WorkTypes, OpenFile
  PROVE  \/ Stopping
         \/ /\ job.stage = "collect" /\ Carry("no_delivery", NoBytes)
            /\ open = Absent /\ open' = Absent /\ UNCHANGED tree /\ Fixed
         \/ /\ UNCHANGED <<tree, job, entries>> /\ Fixed /\ open = Absent
            /\ job.stage \notin Comparing /\ open'.name \in job.left /\ open'.file \in Files
<1> DEFINE n == NextName
           file == tree[job.from[n]][n]
<1>1. n \in job.left BY NextIsLeft DEF OpenFile
<1>2. file \in Files \cup {Absent} BY <1>1 DEF WorkTypes
<1>3. CASE file = Absent /\ job.stage = "collect" BY <1>3 DEF OpenFile
<1>4. CASE file = Absent /\ job.stage # "collect" BY <1>4 DEF OpenFile, Stopping
<1>5. CASE file # Absent
  <2>1. open' = [name |-> n, file |-> file] /\ UNCHANGED <<job, entries, tree>> /\ Fixed
        /\ open = Absent /\ job.stage \notin Comparing
    BY <1>5 DEF OpenFile, Comparing
  <2> QED BY <1>1, <1>2, <1>5, <2>1
<1> QED BY <1>3, <1>4, <1>5

LEMMA OpenFileTypes ==
  ASSUME WorkTypes, OpenFile
  PROVE  WorkTypes'
<1>1. CASE Stopping BY <1>1, StoppingTypes
<1>2. CASE /\ job.stage = "collect" /\ Carry("no_delivery", NoBytes)
           /\ open = Absent /\ open' = Absent /\ UNCHANGED tree /\ Fixed
  BY <1>2, CarryTypes, NothingIsMapped DEF Fixed, Idle, WorkTypes
<1>3. CASE /\ UNCHANGED <<tree, job, entries>> /\ Fixed /\ open = Absent
           /\ job.stage \notin Comparing /\ open'.name \in job.left /\ open'.file \in Files
  BY <1>3 DEF WorkTypes, Fixed, IsMapping, Comparing
<1> QED BY <1>1, <1>2, <1>3, OpenFileStep

\* The delivery is written and read back one output after the other
Wrote(n) ==
  /\ open = Absent /\ n \in job.left /\ tree["pending"][n] = Absent
  /\ open' = [name |-> n, file |-> [bytes |-> taken[n], stamp |-> 0]]
  /\ tree' = [tree EXCEPT !["pending"][n] = [bytes |-> taken[n], stamp |-> 0]]
  /\ UNCHANGED job
Reread ==
  /\ open # Absent /\ open' = Absent /\ UNCHANGED tree
  /\ job' = [stage |-> "publish", from |-> job.from, left |-> job.left \ {open.name}]
Publishing ==
  /\ job.stage = "publish" /\ Fixed /\ UNCHANGED entries
  /\ Reread \/ \E n \in FileNames : Wrote(n)

LEMMA PublishingIs ==
  ASSUME WorkTypes, WriteOutput \/ ReadBack
  PROVE  Stopping \/ Publishing
<1>1. CASE WriteOutput
  <2> DEFINE n == NextName
             file == [bytes |-> taken[n], stamp |-> 0]
  <2>1. n \in job.left /\ n \in FileNames /\ open = Absent /\ job.stage = "publish" /\ Fixed
    BY <1>1, NextIsLeft DEF WriteOutput, In, WorkTypes
  <2>2. CASE tree["pending"][n] # Absent BY <1>1, <2>1, <2>2 DEF WriteOutput, Stopping
  <2>3. CASE tree["pending"][n] = Absent
    <3>1. /\ tree' = [tree EXCEPT !["pending"][n] = file]
          /\ open' = [name |-> n, file |-> file] /\ UNCHANGED <<job, entries>>
      BY <1>1, <2>3 DEF WriteOutput
    <3>2. Wrote(n) BY <2>1, <2>3, <3>1 DEF Wrote
    <3> QED BY <2>1, <3>1, <3>2 DEF Publishing
  <2> QED BY <2>2, <2>3
<1>2. CASE ReadBack
  <2> DEFINE n == open.name
             found == tree["pending"][n]
  <2>1. open # Absent /\ job.stage = "publish" /\ Fixed /\ UNCHANGED tree BY <1>2 DEF ReadBack
  <2>2. CASE found # Absent /\ found.bytes = taken[n]
    <3>1. job' = [job EXCEPT !.left = @ \ {n}] /\ open' = Absent /\ UNCHANGED entries
      BY <1>2, <2>2 DEF ReadBack
    <3>2. job' = [stage |-> "publish", from |-> job.from, left |-> job.left \ {n}]
      BY <2>1, <3>1 DEF WorkTypes
    <3> QED BY <2>1, <3>1, <3>2 DEF Publishing, Reread
  <2>3. CASE ~(found # Absent /\ found.bytes = taken[n])
    BY <1>2, <2>1, <2>3 DEF ReadBack, Stopping
  <2> QED BY <2>2, <2>3
<1> QED BY <1>1, <1>2

LEMMA PublishTypes ==
  ASSUME WorkTypes, DeliveryStages, Publishing
  PROVE  WorkTypes'
<1>1. CASE Reread
  <2>1. job'.stage = "publish" /\ job'.from = job.from /\ job'.left = job.left \ {open.name}
        /\ job' = [stage |-> job'.stage, from |-> job'.from, left |-> job'.left]
    BY <1>1 DEF Reread
  <2> QED BY <1>1, <2>1 DEF Publishing, Reread, WorkTypes, Fixed, Idle, Busy, Comparing, IsMapping
<1>2. ASSUME NEW n \in FileNames, Wrote(n) PROVE WorkTypes'
  <2> DEFINE file == [bytes |-> taken[n], stamp |-> 0]
  <2>1. n \in DOMAIN taken
    BY <1>2 DEF Publishing, Wrote, DeliveryStages, WorkTypes
  <2>2. file \in Files BY <2>1 DEF WorkTypes, IsMapping, Files
  <2>3. tree' \in [Places -> [FileNames -> Files \cup {Absent}]]
    BY <1>2, <2>2 DEF Wrote, WorkTypes, Places
  <2>4. open'.name = n /\ open'.file = file BY <1>2 DEF Wrote
  <2> QED BY <1>2, <2>2, <2>3, <2>4 DEF Publishing, Wrote, WorkTypes, Fixed, Comparing, IsMapping
<1> QED BY <1>1, <1>2 DEF Publishing

\* A file was found as it was captured, or the judgement ends here
Comparison(n) ==
  /\ job.stage \in {"before", "after"} /\ open = Absent /\ n \in job.left /\ Intact(n)
  /\ job' = [stage |-> job.stage, from |-> job.from, left |-> job.left \ {n}]
  /\ UNCHANGED <<tree, open, entries>> /\ Fixed
Condemn ==
  /\ job.stage \in {"before", "after"} /\ open = Absent /\ Turn("checked") /\ verdict' = "broken"
  /\ UNCHANGED <<tree, task, open, planned, project, inventory, taken, meddled, ended>>

LEMMA VerifyFileIs ==
  ASSUME WorkTypes, VerifyFile
  PROVE  Condemn \/ \E n \in FileNames : Comparison(n)
<1> DEFINE n == NextName
<1>1. n \in job.left /\ n \in FileNames BY NextIsLeft DEF VerifyFile, WorkTypes
<1>2. CASE Intact(n)
  <2>1. job' = [job EXCEPT !.left = @ \ {n}] /\ UNCHANGED <<entries, verdict>>
    BY <1>2 DEF VerifyFile
  <2>2. job' = [stage |-> job.stage, from |-> job.from, left |-> job.left \ {n}]
    BY <2>1 DEF WorkTypes
  <2>3. Comparison(n) BY <1>1, <1>2, <2>1, <2>2 DEF VerifyFile, Comparison, Fixed
  <2> QED BY <1>1, <2>3
<1>3. CASE ~Intact(n) BY <1>3 DEF VerifyFile, Condemn
<1> QED BY <1>2, <1>3

LEMMA ComparisonTypes ==
  ASSUME WorkTypes, NEW n \in FileNames, Comparison(n)
  PROVE  WorkTypes'
<1>1. job'.stage = job.stage /\ job'.from = job.from /\ job'.left = job.left \ {n}
      /\ job' = [stage |-> job'.stage, from |-> job'.from, left |-> job'.left]
  BY DEF Comparison
<1> QED BY <1>1 DEF Comparison, WorkTypes, Fixed, Idle, Busy, Comparing, IsMapping

\* What a stage begins with
LEMMA FromTypes ==
  \A names, place : /\ DOMAIN From(names, place) = names
                   /\ \A n \in names : From(names, place)[n] = place
BY DEF From

LEMMA MadeTypes ==
  ASSUME WorkTypes, EndAgent
  PROVE  tree' \in [Places -> [FileNames -> Files \cup {Absent}]]
<1>1. PICK made \in [task.outputs -> Contents \cup {Absent}] :
        tree' = [tree EXCEPT !["producer"] =
                  [n \in FileNames |-> IF n \in task.outputs /\ made[n] # Absent
                                   THEN [bytes |-> made[n], stamp |-> 0] ELSE @[n]]]
  BY DEF EndAgent
<1> DEFINE final == [n \in FileNames |-> IF n \in task.outputs /\ made[n] # Absent
                                   THEN [bytes |-> made[n], stamp |-> 0] ELSE tree["producer"][n]]
<1>2. final \in [FileNames -> Files \cup {Absent}]
  BY DEF WorkTypes, Files, Places
<1>3. tree' = [tree EXCEPT !["producer"] = final] BY <1>1 DEF WorkTypes, Places
<1> HIDE DEF final
<1> QED BY <1>2, <1>3 DEF WorkTypes

LEMMA EditTypes ==
  ASSUME WorkTypes, EditFiles
  PROVE  WorkTypes'
<1>1. PICK place \in Reached, n \in FileNames, bytes \in Contents \cup {Absent} :
        tree' = [tree EXCEPT ![place][n] = IF bytes = Absent THEN Absent
                                           ELSE [bytes |-> bytes, stamp |-> meddled + 1]]
  BY DEF EditFiles
<1>2. place \in Places BY DEF Reached, Places
<1>3. meddled + 1 \in Nat BY DEF WorkTypes
<1>4. (IF bytes = Absent THEN Absent ELSE [bytes |-> bytes, stamp |-> meddled + 1]) \in Files \cup {Absent}
  BY <1>3 DEF Files
<1>5. tree' \in [Places -> [FileNames -> Files \cup {Absent}]]
  BY <1>1, <1>2, <1>4 DEF WorkTypes
<1> QED BY <1>5, <1>3 DEF WorkTypes, EditFiles, IsMapping

\* A stage is done and another begins, with what was read in a place of its own
CarriesOn ==
  /\ UNCHANGED <<tree, task, planned, meddled>> /\ ended' \in {ended, meddled}
  /\ taken' \in {taken, entries} /\ project' \in {project, entries}
  /\ inventory' \in {inventory, entries}

LEMMA TurnTypes ==
  ASSUME WorkTypes, NEW s \in Idle \cup Busy, NEW from, Carry(s, from),
         s \in Idle => DOMAIN from = {},
         DOMAIN from \subseteq FileNames, \A n \in DOMAIN from : from[n] \in Places,
         open = Absent, open' = Absent, CarriesOn
  PROVE  WorkTypes'
<1>1. IsMapping(taken') BY DEF WorkTypes, CarriesOn
<1>2. project' # Absent => IsMapping(project') BY DEF WorkTypes, CarriesOn
<1>3. inventory' # Absent => IsMapping(inventory') BY DEF WorkTypes, CarriesOn
<1>4. tree' \in [Places -> [FileNames -> Files \cup {Absent}]] BY DEF WorkTypes, CarriesOn
<1>5. task' = task /\ planned' = planned /\ meddled' = meddled /\ ended' \in {ended, meddled}
  BY DEF CarriesOn
<1> QED BY <1>1, <1>2, <1>3, <1>4, <1>5, CarryTypes

LEMMA InventoryNames ==
  ASSUME WorkspaceInv, job.stage \in {"baseline", "published", "deliver", "check", "checked"}
  PROVE  DOMAIN inventory \subseteq FileNames
<1>1. inventory # Absent BY DEF WorkspaceInv, AdmittedOk, Capturing, Delivered, Judging
<1> QED BY <1>1 DEF WorkspaceInv, WorkTypes, IsMapping

LEMMA WorkTypesStep ==
  ASSUME WorkspaceInv, [WorkspaceNext]_workspaceVars
  PROVE  WorkTypes'
<1>w. WorkTypes /\ DeliveryStages BY DEF WorkspaceInv
<1>s. /\ {"admitted", "agent", "published", "check", "checked", "viewed"} \subseteq Idle
      /\ {"freeze", "freeze_copy", "inspect", "provenance", "map", "baseline", "producer",
          "references", "collect", "publish", "supply", "deliver", "before", "after",
          "view"} \subseteq Busy
      /\ Idle \cap Busy = {}
  BY DEF Idle, Busy
<1>1. CASE OpenFile BY <1>1, <1>w, OpenFileTypes
<1>2. CASE ReadFile BY <1>2, <1>w, ReadFileStep, StoppingTypes, ReadTypes
<1>3. CASE WriteOutput \/ ReadBack BY <1>3, <1>w, PublishingIs, StoppingTypes, PublishTypes
<1>4. CASE Freeze
  <2>1. CASE ProjectUnsound \/ Collides(ProjectNames)
    BY <1>4, <1>w, <2>1, StoppingTypes DEF Freeze, Stopping
  <2>2. CASE ~(ProjectUnsound \/ Collides(ProjectNames))
    <3> DEFINE from == From(ProjectNames, "caller")
    <3>1. ProjectNames \subseteq FileNames
      BY <1>w DEF ProjectNames, Application, WorkTypes, IsMapping
    <3>2. DOMAIN from \subseteq FileNames /\ \A n \in DOMAIN from : from[n] \in Places
      BY <3>1, FromTypes DEF Places
    <3>3. Carry("freeze", from) /\ open = Absent /\ open' = Absent /\ CarriesOn
      BY <1>4, <2>2 DEF Freeze, In, Fixed, CarriesOn
    <3> HIDE DEF from
    <3> QED BY <1>w, <1>s, <3>2, <3>3, TurnTypes
  <2> QED BY <2>1, <2>2
<1>5. CASE Frozen
  <2> DEFINE from == job.from
  <2>1. DOMAIN from \subseteq FileNames /\ \A n \in DOMAIN from : from[n] \in Places
    BY <1>w DEF WorkTypes
  <2>2. Carry("freeze_copy", from) /\ open = Absent /\ open' = Absent /\ CarriesOn
    BY <1>5 DEF Frozen, Carried, In, CarriesOn
  <2> HIDE DEF from
  <2> QED BY <1>w, <1>s, <2>1, <2>2, TurnTypes
<1>6. CASE Inspect
  <2>1. CASE ~ViewHolds("project", project) \/ MappingUnsound BY <1>6, <1>w, <2>1, StoppingTypes DEF Inspect, Stopping
  <2>2. CASE ~(~ViewHolds("project", project) \/ MappingUnsound)
    <3> DEFINE from == [n \in Mapped |-> Origin(n)]
    <3>1. DOMAIN from \subseteq FileNames /\ \A n \in DOMAIN from : from[n] \in Places
      BY <1>w, MappedAreFiles, OriginIsPlace
    <3>2. Carry("inspect", from) /\ open = Absent /\ open' = Absent /\ CarriesOn
      BY <1>6, <2>2 DEF Inspect, Carried, In, Fixed, CarriesOn
    <3> HIDE DEF from
    <3> QED BY <1>w, <1>s, <3>1, <3>2, TurnTypes
  <2> QED BY <2>1, <2>2
<1>7. CASE Inspected
  <2>1. Carry("admitted", NoBytes) /\ open = Absent /\ open' = Absent /\ CarriesOn
    BY <1>7 DEF Inspected, Carried, In, Turn, CarriesOn
  <2> QED BY <1>w, <1>s, <2>1, NothingIsMapped, TurnTypes
<1>8. CASE Provenance
  <2> DEFINE from == [n \in DOMAIN planned |-> Origin(n)]
  <2>1. DOMAIN from \subseteq FileNames /\ \A n \in DOMAIN from : from[n] \in Places
    BY <1>w, OriginIsPlace DEF WorkTypes, IsMapping
  <2>2. Carry("provenance", from) /\ open = Absent /\ open' = Absent /\ CarriesOn
    BY <1>8 DEF Provenance, In, Fixed, CarriesOn
  <2> HIDE DEF from
  <2> QED BY <1>w, <1>s, <2>1, <2>2, TurnTypes
<1>9. CASE Map
  <2>1. CASE MappingUnsound BY <1>9, <1>w, <2>1, StoppingTypes DEF Map, Stopping
  <2>2. CASE ~(MappingUnsound)
    <3> DEFINE from == [n \in Mapped |-> Origin(n)]
    <3>1. DOMAIN from \subseteq FileNames /\ \A n \in DOMAIN from : from[n] \in Places
      BY <1>w, MappedAreFiles, OriginIsPlace
    <3>2. Carry("map", from) /\ open = Absent /\ open' = Absent /\ CarriesOn
      BY <1>9, <2>2 DEF Map, Carried, In, Fixed, CarriesOn
    <3> HIDE DEF from
    <3> QED BY <1>w, <1>s, <3>1, <3>2, TurnTypes
  <2> QED BY <2>1, <2>2
<1>10. CASE CaptureBaseline
  <2>1. CASE inventory # Absent /\ inventory # entries BY <1>10, <1>w, <2>1, StoppingTypes DEF CaptureBaseline, Stopping, Fixed
  <2>2. CASE ~(inventory # Absent /\ inventory # entries)
    <3> DEFINE from == job.from
    <3>1. DOMAIN from \subseteq FileNames /\ \A n \in DOMAIN from : from[n] \in Places
      BY <1>w DEF WorkTypes
    <3>2. Carry("baseline", from) /\ open = Absent /\ open' = Absent /\ CarriesOn
      BY <1>10, <2>2 DEF CaptureBaseline, Carried, In, CarriesOn
    <3> HIDE DEF from
    <3> QED BY <1>w, <1>s, <3>1, <3>2, TurnTypes
  <2> QED BY <2>1, <2>2
<1>11. CASE CaptureProducer
  <2> DEFINE from == From(DOMAIN inventory, "baseline")
  <2>1. DOMAIN from \subseteq FileNames /\ \A n \in DOMAIN from : from[n] \in Places
    BY <1>11, InventoryNames, FromTypes DEF CaptureProducer, Carried, In, Places
  <2>2. Carry("producer", from) /\ open = Absent /\ open' = Absent /\ CarriesOn
    BY <1>11 DEF CaptureProducer, Carried, In, Fixed, CarriesOn
  <2> HIDE DEF from
  <2> QED BY <1>w, <1>s, <2>1, <2>2, TurnTypes
<1>12. CASE RepairContext
  <2> DEFINE from == From(Held("rejected"), "rejected")
  <2>1. DOMAIN from \subseteq FileNames /\ \A n \in DOMAIN from : from[n] \in Places
    BY FromTypes DEF Held, Places
  <2>2. Carry("references", from) /\ open = Absent /\ open' = Absent /\ CarriesOn
    BY <1>12 DEF RepairContext, Carried, In, Fixed, CarriesOn
  <2> HIDE DEF from
  <2> QED BY <1>w, <1>s, <2>1, <2>2, TurnTypes
<1>13. CASE StartAgent
  <2>1. Carry("agent", NoBytes) /\ open = Absent /\ open' = Absent /\ CarriesOn
    BY <1>13 DEF StartAgent, Carried, In, Fixed, Turn, CarriesOn
  <2> QED BY <1>w, <1>s, <2>1, NothingIsMapped, TurnTypes
<1>14. CASE EndAgent
  <2> DEFINE from == From(task.outputs, "producer")
  <2>1. DOMAIN from \subseteq FileNames /\ \A n \in DOMAIN from : from[n] \in Places
    BY <1>w, OutputsAreFiles, FromTypes DEF Places
  <2>2. Carry("collect", from) /\ open = Absent /\ open' = Absent /\ Fixed
    BY <1>14 DEF EndAgent, In
  <2>3. tree' \in [Places -> [FileNames -> Files \cup {Absent}]] BY <1>14, <1>w, MadeTypes
  <2>4. /\ IsMapping(taken') /\ (project' # Absent => IsMapping(project'))
        /\ (inventory' # Absent => IsMapping(inventory'))
        /\ task' = task /\ planned' = planned /\ meddled' = meddled /\ ended' = ended
    BY <1>w, <2>2 DEF WorkTypes, Fixed
  <2> HIDE DEF from
  <2> QED BY <1>w, <1>s, <2>1, <2>2, <2>3, <2>4, CarryTypes
<1>15. CASE Collected
  <2> DEFINE from == From(task.outputs, "pending")
  <2>1. DOMAIN from \subseteq FileNames /\ \A n \in DOMAIN from : from[n] \in Places
    BY <1>w, OutputsAreFiles, FromTypes DEF Places
  <2>2. Carry("publish", from) /\ open = Absent /\ open' = Absent /\ CarriesOn
    BY <1>15 DEF Collected, Carried, In, CarriesOn
  <2> HIDE DEF from
  <2> QED BY <1>w, <1>s, <2>1, <2>2, TurnTypes
<1>16. CASE ShowDelivery
  <2>1. tree' \in [Places -> [FileNames -> Files \cup {Absent}]]
    BY <1>16, <1>w DEF ShowDelivery, WorkTypes, Places, Empty
  <2>2. Carry("published", NoBytes) /\ open = Absent /\ open' = Absent /\ Fixed
    BY <1>16 DEF ShowDelivery, Carried, In, Turn
  <2>3. /\ IsMapping(taken') /\ (project' # Absent => IsMapping(project'))
        /\ (inventory' # Absent => IsMapping(inventory'))
        /\ task' = task /\ planned' = planned /\ meddled' = meddled /\ ended' = ended
    BY <1>w, <2>2 DEF WorkTypes, Fixed
  <2> QED BY <1>w, <1>s, <2>1, <2>2, <2>3, NothingIsMapped, CarryTypes
<1>17. CASE PrepareCheck
  <2> DEFINE from == From(DOMAIN inventory, "baseline")
  <2>1. DOMAIN from \subseteq FileNames /\ \A n \in DOMAIN from : from[n] \in Places
    BY <1>17, InventoryNames, FromTypes DEF PrepareCheck, Carried, In, Places
  <2>2. Carry("supply", from) /\ open = Absent /\ open' = Absent /\ CarriesOn
    BY <1>17 DEF PrepareCheck, Carried, In, Fixed, CarriesOn
  <2> HIDE DEF from
  <2> QED BY <1>w, <1>s, <2>1, <2>2, TurnTypes
<1>18. CASE SupplyDelivery
  <2> DEFINE from == From(task.outputs, "artifacts")
  <2>1. DOMAIN from \subseteq FileNames /\ \A n \in DOMAIN from : from[n] \in Places
    BY <1>w, OutputsAreFiles, FromTypes DEF Places
  <2>2. Carry("deliver", from) /\ open = Absent /\ open' = Absent /\ CarriesOn
    BY <1>18 DEF SupplyDelivery, Carried, In, Fixed, CarriesOn
  <2> HIDE DEF from
  <2> QED BY <1>w, <1>s, <2>1, <2>2, TurnTypes
<1>v. ASSUME job.stage \in {"deliver", "check"}
      PROVE  DOMAIN Verified \subseteq FileNames /\ \A n \in DOMAIN Verified : Verified[n] \in Places
  BY <1>v, <1>w, InventoryNames, OutputsAreFiles, FromTypes DEF Verified, Places
<1>19. CASE StartCheck
  <2>1. Carry("before", Verified) /\ open = Absent /\ open' = Absent /\ CarriesOn
        /\ job.stage = "deliver"
    BY <1>19 DEF StartCheck, Carried, In, Fixed, CarriesOn
  <2> QED BY <1>w, <1>s, <1>v, <2>1, TurnTypes
<1>20. CASE EndCheck
  <2>1. Carry("after", Verified) /\ open = Absent /\ open' = Absent /\ CarriesOn
        /\ job.stage = "check"
    BY <1>20 DEF EndCheck, In, CarriesOn
  <2> QED BY <1>w, <1>s, <1>v, <2>1, TurnTypes
<1>26. CASE RunCheck
  <2>1. Carry("check", NoBytes) /\ open = Absent /\ open' = Absent /\ CarriesOn
    BY <1>26 DEF RunCheck, Carried, In, Turn, Fixed, CarriesOn
  <2> QED BY <1>w, <1>s, <2>1, NothingIsMapped, TurnTypes
<1>27. CASE Judge \/ Condemn
  <2>1. Carry("checked", NoBytes) /\ open = Absent /\ open' = Absent /\ CarriesOn
    BY <1>27 DEF Judge, Condemn, Carried, In, Turn, CarriesOn
  <2> QED BY <1>w, <1>s, <2>1, NothingIsMapped, TurnTypes
<1>28. CASE VerifyFile BY <1>28, <1>27, <1>w, VerifyFileIs, ComparisonTypes
<1>21. CASE ChainView
  <2> DEFINE from == [n \in ViewNames |-> IF n \in task.outputs THEN "artifacts" ELSE "baseline"]
  <2>0. DOMAIN inventory \subseteq FileNames BY <1>21, InventoryNames DEF ChainView, Carried, In
  <2>1. DOMAIN from \subseteq FileNames /\ \A n \in DOMAIN from : from[n] \in Places
    BY <1>w, <2>0, OutputsAreFiles DEF ViewNames, Places
  <2>2. Carry("view", from) /\ open = Absent /\ open' = Absent /\ CarriesOn
    BY <1>21 DEF ChainView, Carried, In, Fixed, CarriesOn
  <2> HIDE DEF from
  <2> QED BY <1>w, <1>s, <2>1, <2>2, TurnTypes
<1>22. CASE Viewed
  <2>1. CASE ViewHolds("view", entries)
    <3>1. Carry("viewed", NoBytes) /\ open = Absent /\ open' = Absent /\ CarriesOn
      BY <1>22, <2>1 DEF Viewed, Carried, In, Turn, Fixed, CarriesOn
    <3> QED BY <1>w, <1>s, <3>1, NothingIsMapped, TurnTypes
  <2>2. CASE ~ViewHolds("view", entries) BY <1>22, <1>w, <2>2, StoppingTypes DEF Viewed, Stopping
  <2> QED BY <2>1, <2>2
<1>23. CASE Abandon BY <1>23, <1>w, StoppingTypes DEF Abandon, Stopping
<1>24. CASE EditFiles BY <1>24, <1>w, EditTypes
<1>25. CASE UNCHANGED workspaceVars BY <1>25, <1>w DEF workspaceVars, WorkTypes, IsMapping
<1> QED
  BY <1>1, <1>2, <1>3, <1>4, <1>5, <1>6, <1>7, <1>8, <1>9, <1>10, <1>11, <1>12, <1>13, <1>14,
     <1>15, <1>16, <1>17, <1>18, <1>19, <1>20, <1>21, <1>22, <1>23, <1>24, <1>25, <1>26, <1>27,
     <1>28
  DEF WorkspaceNext

-----------------------------------------------------------------------------
(* What a step can reach *)

\* Which stage writes which place
LEMMA PlacesStay ==
  ASSUME WorkspaceInv, [WorkspaceNext]_workspaceVars
  PROVE  /\ tree'["imports"] = tree["imports"]
         /\ job.stage # "freeze_copy" => tree'["project"] = tree["project"]
         /\ job.stage # "provenance" => tree'["source"] = tree["source"]
         /\ job.stage \notin {"baseline", "agent", "before", "check", "after"} =>
              tree'["baseline"] = tree["baseline"]
         /\ job.stage \notin {"producer", "agent"} => tree'["producer"] = tree["producer"]
         /\ job.stage # "publish" => tree'["pending"] = tree["pending"]
         /\ job.stage \notin {"publish", "before", "check", "after"} \cup Delivered =>
              tree'["artifacts"] = tree["artifacts"]
         /\ job.stage \notin {"supply", "deliver", "before", "check", "after"} =>
              tree'["subject"] = tree["subject"]
         /\ job.stage # "view" => tree'["view"] = tree["view"]
<1> USE DEF WorkspaceInv
<1>t. tree \in [Places -> [FileNames -> Files \cup {Absent}]] BY DEF WorkTypes
<1>1. CASE Stopping BY <1>1 DEF Stopping
<1>2. ASSUME NEW n \in FileNames, NEW bytes \in Contents, ReadsWell(n, bytes), Target # Absent
      PROVE  /\ \A p \in Places : Target # p => tree'[p] = tree[p]
             /\ Target \notin {"imports", "artifacts", "pending"}
             /\ Target = "project" => job.stage = "freeze_copy"
             /\ Target = "source" => job.stage = "provenance"
             /\ Target = "baseline" => job.stage = "baseline"
             /\ Target = "producer" => job.stage = "producer"
             /\ Target = "subject" => job.stage \in {"supply", "deliver"}
             /\ Target = "view" => job.stage = "view"
  <2>1. tree' = [tree EXCEPT ![Target][n] = [bytes |-> bytes, stamp |-> 0]]
    BY <1>2 DEF ReadsWell
  <2>2. \A p \in Places : Target # p => tree'[p] = tree[p]
    BY <1>t, <1>2, <2>1, TargetIsPlace
  <2> QED BY <1>2, <2>2, TargetIsPlace DEF Target
<1>9. CASE ReadFile
  <2>1. CASE \E n \in FileNames, bytes \in Contents : ReadsWell(n, bytes)
    <3>1. CASE Target = Absent BY <2>1, <3>1 DEF ReadsWell
    <3>2. CASE Target # Absent
      <4>1. PICK n \in FileNames, bytes \in Contents : ReadsWell(n, bytes) BY <2>1
      <4> QED BY <4>1, <3>2, <1>2 DEF Places
    <3> QED BY <3>1, <3>2
  <2> QED BY <1>1, <1>9, <2>1, ReadFileStep
<1>3. CASE WriteOutput \/ ReadBack
  <2>1. CASE \E n \in FileNames : Wrote(n) /\ job.stage = "publish"
    BY <1>t, <2>1 DEF Wrote, Places
  <2> QED BY <1>1, <1>3, <2>1, PublishingIs DEF Publishing, Reread
<1>4. CASE EndAgent BY <1>4, <1>t DEF EndAgent, In, Places
<1>5. CASE ShowDelivery BY <1>5, <1>t DEF ShowDelivery, Carried, In, Places
<1>6. CASE EditFiles
  <2>1. PICK place \in Reached, n \in FileNames :
          \E file : tree' = [tree EXCEPT ![place][n] = file]
    BY <1>6 DEF EditFiles
  <2>2. place \in Places BY DEF Reached, Places
  <2>3. ASSUME NEW p \in Places, place # p PROVE tree'[p] = tree[p]
    BY <1>t, <2>1, <2>2, <2>3
  <2>4. /\ place = "baseline" => job.stage \in {"agent", "before", "check", "after"}
        /\ place = "producer" => job.stage = "agent"
        /\ place = "pending" => job.stage = "publish"
        /\ place = "artifacts" => job.stage \in {"before", "check", "after"} \cup Delivered
        /\ place = "subject" => job.stage \in {"before", "check", "after"}
        /\ place \notin {"imports", "project", "source", "view"}
    BY DEF Reached, Delivered
  <2> QED BY <2>3, <2>4 DEF Places
<1>7. CASE UNCHANGED workspaceVars BY <1>7 DEF workspaceVars
<1>8. CASE OpenFile \/ Freeze \/ Frozen \/ Inspect \/ Inspected \/ Provenance \/ Map
           \/ CaptureBaseline \/ CaptureProducer \/ RepairContext \/ StartAgent \/ Collected
           \/ PrepareCheck \/ SupplyDelivery \/ StartCheck \/ RunCheck \/ EndCheck \/ VerifyFile
           \/ Judge \/ ChainView \/ Viewed \/ Abandon
  <2>1. tree' = tree
    BY <1>8 DEF OpenFile, Freeze, Frozen, Inspect, Inspected, Provenance, Map, CaptureBaseline,
       CaptureProducer, RepairContext, StartAgent, Collected, PrepareCheck, SupplyDelivery,
       StartCheck, RunCheck, EndCheck, VerifyFile, Judge, ChainView, Viewed, Abandon
  <2> QED BY <2>1
<1> QED BY <1>3, <1>4, <1>5, <1>6, <1>7, <1>8, <1>9 DEF WorkspaceNext

\* Which stage decides what
LEMMA DataStays ==
  ASSUME WorkspaceInv, [WorkspaceNext]_workspaceVars
  PROVE  /\ task' = task /\ planned' = planned
         /\ job.stage # "freeze" => project' = project
         /\ job.stage \notin {"inspect", "map"} => inventory' = inventory
         /\ job.stage # "collect" => taken' = taken
         /\ job.stage \notin {"before", "after"} => verdict' = verdict
         /\ job.stage # "check" => ended' = ended
BY DEF WorkspaceNext, workspaceVars, OpenFile, ReadFile, WriteOutput, ReadBack, VerifyFile, Freeze,
   Frozen, Inspect, Inspected, Provenance, Map, CaptureBaseline, CaptureProducer, RepairContext,
   StartAgent, EndAgent, Collected, ShowDelivery, PrepareCheck, SupplyDelivery, StartCheck, RunCheck,
   EndCheck, Judge, ChainView, Viewed, Abandon, EditFiles, Fixed, Carried, In

\* Somebody wrote somewhere
Edited ==
  /\ meddled' = meddled + 1
  /\ \E place \in Reached, n \in FileNames :
       \E file : /\ tree' = [tree EXCEPT ![place][n] = file]
                 /\ file # Absent => file.stamp = meddled + 1

\* Nothing happens to the job, a file is carried, the run ends, or a stage is done
Quiet ==
  /\ UNCHANGED <<job, entries, task, planned, project, inventory, taken, verdict, ended>>
  /\ \A p \in Places \ Reached : tree'[p] = tree[p]
  /\ job.stage = "publish" => open' = open
  /\ (UNCHANGED <<tree, meddled>>) \/ Edited

Turning ==
  \/ Freeze \/ Frozen \/ Inspect \/ Inspected \/ Provenance \/ Map \/ CaptureBaseline
  \/ CaptureProducer \/ RepairContext \/ StartAgent \/ EndAgent \/ Collected \/ ShowDelivery
  \/ PrepareCheck \/ SupplyDelivery \/ StartCheck \/ RunCheck \/ EndCheck \/ Judge \/ Condemn
  \/ ChainView \/ Viewed
NoDelivery ==
  /\ job.stage = "collect" /\ Carry("no_delivery", NoBytes) /\ open = Absent /\ open' = Absent
  /\ UNCHANGED tree /\ Fixed

LEMMA StepIs ==
  ASSUME WorkspaceInv, [WorkspaceNext]_workspaceVars
  PROVE  \/ Stopping \/ Quiet \/ Publishing \/ NoDelivery \/ (Turning /\ ~Stopping)
         \/ \E n \in FileNames, bytes \in Contents : ReadsWell(n, bytes)
         \/ \E n \in FileNames : Comparison(n)
<1>1. CASE OpenFile BY <1>1, OpenFileStep DEF WorkspaceInv, Quiet, NoDelivery, Fixed, Comparing
<1>6. CASE WriteOutput \/ ReadBack BY <1>6, PublishingIs DEF WorkspaceInv
<1>7. CASE VerifyFile BY <1>7, VerifyFileIs DEF WorkspaceInv, Turning, Condemn, Stopping, Turn, Carry, GiveUp
<1>2. CASE ReadFile BY <1>2, ReadFileStep DEF WorkspaceInv
<1>3. CASE EditFiles
  <2>1. \E where \in Reached, m \in FileNames :
          \E file : tree' = [tree EXCEPT ![where][m] = file]
    BY <1>3 DEF EditFiles
  <2>2. \A p \in Places \ Reached : tree'[p] = tree[p]
    BY <2>1 DEF WorkspaceInv, WorkTypes
  <2>3. Edited
    <3>1. PICK place \in Reached, n \in FileNames, bytes \in Contents \cup {Absent} :
            tree' = [tree EXCEPT ![place][n] = IF bytes = Absent THEN Absent
                                               ELSE [bytes |-> bytes, stamp |-> meddled + 1]]
      BY <1>3 DEF EditFiles
    <3> DEFINE file == IF bytes = Absent THEN Absent ELSE [bytes |-> bytes, stamp |-> meddled + 1]
    <3>2. tree' = [tree EXCEPT ![place][n] = file] /\ (file # Absent => file.stamp = meddled + 1)
      BY <3>1
    <3>3. meddled' = meddled + 1 BY <1>3 DEF EditFiles
    <3> HIDE DEF file
    <3> QED BY <3>2, <3>3 DEF Edited
  <2> QED BY <1>3, <2>2, <2>3 DEF EditFiles, Quiet
<1>4. CASE Abandon BY <1>4 DEF Abandon, Stopping
<1>5. CASE UNCHANGED workspaceVars BY <1>5 DEF workspaceVars, Quiet
<1> QED BY <1>1, <1>2, <1>3, <1>4, <1>5, <1>6, <1>7 DEF WorkspaceNext, Turning

\* The order of the stages
LEMMA TurnIs ==
  ASSUME WorkspaceInv, Turning, ~Stopping
  PROVE  /\ job'.left = DOMAIN job'.from /\ entries' = NoBytes
         /\ job.stage \notin {"check", "agent"} => job.left = {} \/ Condemn
         /\ \/ Freeze /\ job.stage = "planned" /\ job'.stage = "freeze"
            \/ Frozen /\ job.stage = "freeze" /\ job'.stage = "freeze_copy"
            \/ Inspect /\ job.stage = "freeze_copy" /\ job'.stage = "inspect"
            \/ Inspected /\ job.stage = "inspect" /\ job'.stage = "admitted"
            \/ Provenance /\ job.stage \in {"planned", "admitted"} /\ job'.stage = "provenance"
            \/ Map /\ job.stage = "provenance" /\ job'.stage = "map"
            \/ CaptureBaseline /\ job.stage = "map" /\ job'.stage = "baseline"
            \/ CaptureProducer /\ job.stage = "baseline" /\ job'.stage = "producer"
            \/ RepairContext /\ job.stage = "producer" /\ job'.stage = "references"
            \/ StartAgent /\ job.stage = "references" /\ job'.stage = "agent"
            \/ EndAgent /\ job.stage = "agent" /\ job'.stage = "collect"
            \/ Collected /\ job.stage = "collect" /\ job'.stage = "publish"
            \/ ShowDelivery /\ job.stage = "publish" /\ job'.stage = "published"
            \/ PrepareCheck /\ job.stage = "published" /\ job'.stage = "supply"
            \/ SupplyDelivery /\ job.stage = "supply" /\ job'.stage = "deliver"
            \/ StartCheck /\ job.stage = "deliver" /\ job'.stage = "before"
            \/ RunCheck /\ job.stage = "before" /\ job'.stage = "check"
            \/ EndCheck /\ job.stage = "check" /\ job'.stage = "after"
            \/ Judge /\ job.stage = "after" /\ job'.stage = "checked"
            \/ Condemn /\ job.stage \in {"before", "after"} /\ job'.stage = "checked"
            \/ ChainView /\ job.stage = "checked" /\ job'.stage = "view"
            \/ Viewed /\ job.stage = "view" /\ job'.stage = "viewed"
<1> USE DEF Carried, In, Carry, Turn, NoBytes
<1>0. job.stage \in Idle => job.left = {} BY DEF WorkspaceInv, WorkTypes
<1>1. CASE Freeze BY <1>1, <1>0 DEF Freeze, Stopping, Idle
<1>2. CASE Frozen BY <1>2 DEF Frozen
<1>3. CASE Inspect BY <1>3 DEF Inspect, Stopping
<1>4. CASE Inspected BY <1>4 DEF Inspected
<1>5. CASE Provenance BY <1>5, <1>0 DEF Provenance, Idle
<1>6. CASE Map BY <1>6 DEF Map, Stopping
<1>7. CASE CaptureBaseline BY <1>7 DEF CaptureBaseline, Stopping, Fixed
<1>8. CASE CaptureProducer BY <1>8 DEF CaptureProducer
<1>9. CASE RepairContext BY <1>9 DEF RepairContext
<1>10. CASE StartAgent BY <1>10 DEF StartAgent
<1>11. CASE EndAgent BY <1>11 DEF EndAgent
<1>12. CASE Collected BY <1>12 DEF Collected
<1>13. CASE ShowDelivery BY <1>13 DEF ShowDelivery
<1>14. CASE PrepareCheck BY <1>14 DEF PrepareCheck
<1>15. CASE SupplyDelivery BY <1>15 DEF SupplyDelivery
<1>16. CASE StartCheck BY <1>16 DEF StartCheck
<1>17. CASE EndCheck BY <1>17 DEF EndCheck
<1>18. CASE ChainView BY <1>18 DEF ChainView
<1>19. CASE Viewed BY <1>19 DEF Viewed, Stopping
<1>20. CASE RunCheck BY <1>20 DEF RunCheck
<1>21. CASE Judge BY <1>21 DEF Judge
<1>22. CASE Condemn BY <1>22 DEF Condemn
<1> QED
  BY <1>1, <1>2, <1>3, <1>4, <1>5, <1>6, <1>7, <1>8, <1>9, <1>10, <1>11, <1>12, <1>13, <1>14,
     <1>15, <1>16, <1>17, <1>18, <1>19, <1>20, <1>21, <1>22 DEF Turning

\* A stop, a publication and a missing output, for what depends on the stage
LEMMA EndsAre ==
  /\ Stopping => job'.stage = "stopped"
  /\ NoDelivery => job.stage = "collect" /\ job'.stage = "no_delivery"
  /\ Publishing => job.stage = "publish" /\ job'.stage = "publish" /\ job'.from = job.from
  /\ \A n \in FileNames : Comparison(n) =>
       /\ job.stage \in {"before", "after"} /\ job'.stage = job.stage /\ job'.from = job.from
       /\ UNCHANGED tree /\ Fixed
BY DEF Stopping, GiveUp, NoDelivery, Carry, Publishing, Wrote, Reread, Comparison

LEMMA SnapshotStep ==
  ASSUME WorkspaceInv, [WorkspaceNext]_workspaceVars
  PROVE  SnapshotOk'
<1> USE DEF WorkspaceInv
<1>i. Held("imports")' \subseteq (DOMAIN task.imports)'
  BY PlacesStay, DataStays DEF SnapshotOk, Held
<1>a. UNCHANGED <<Application, Supplied>> BY DataStays DEF Application, Supplied
<1>1. CASE Stopping BY <1>1, <1>i, <1>a, EndsAre DEF SnapshotOk, Stopping, Fixed
<1>2. CASE Quiet BY <1>2, <1>i, <1>a DEF SnapshotOk, Quiet
<1>3. CASE Publishing BY <1>3, <1>i, <1>a, EndsAre, DataStays DEF SnapshotOk
<1>4. CASE NoDelivery BY <1>4, <1>i, <1>a, EndsAre, DataStays DEF SnapshotOk
<1>5. CASE \E n \in FileNames, bytes \in Contents : ReadsWell(n, bytes)
  BY <1>5, <1>i, <1>a DEF SnapshotOk, ReadsWell, Fixed
<1>7. CASE \E n \in FileNames : Comparison(n)
  BY <1>7, <1>i, <1>a, EndsAre, DataStays DEF SnapshotOk
<1>6. CASE Turning /\ ~Stopping
  <2>1. CASE Freeze
    <3>1. project = Absent /\ task.frozen /\ project' = project /\ job'.stage = "freeze"
          /\ DOMAIN job'.from = ProjectNames
      BY <1>6, <2>1, DataStays, FromTypes DEF Freeze, In, SnapshotOk, Carry, Stopping
    <3>2. ProjectNames \subseteq Application \ Supplied
      BY <3>1, OutputsAreFiles
      DEF ProjectNames, Listed, Produced, Application, Supplied, Held, IsMapping
    <3> QED BY <3>1, <3>2, <1>i, <1>a, DataStays DEF SnapshotOk
  <2>2. CASE Frozen
    <3>1. project' = entries /\ DOMAIN job'.from = DOMAIN job.from /\ job'.stage = "freeze_copy"
          /\ job.stage = "freeze" /\ DOMAIN entries = DOMAIN job.from
      BY <2>2 DEF Frozen, Carried, In, Carry, WorkTypes, Busy, Comparing
    <3> QED BY <3>1, <1>i, <1>a, DataStays DEF SnapshotOk
  <2>3. CASE job.stage # "freeze" /\ job'.stage \notin {"planned", "freeze", "freeze_copy"}
    BY <2>3, <1>i, <1>a, DataStays DEF SnapshotOk
  <2> QED BY <1>6, <2>1, <2>2, <2>3, TurnIs
<1> QED BY <1>1, <1>2, <1>3, <1>4, <1>5, <1>6, <1>7, StepIs

\* One more file of a copy
LEMMA CopyGrows ==
  ASSUME WorkspaceInv, NEW n \in FileNames, NEW bytes \in Contents, ReadsWell(n, bytes),
         Target # Absent, NEW m, n \in DOMAIN m, bytes = m[n],
         Copied(Target, m, DOMAIN m \ job.left)
  PROVE  \A k \in FileNames :
           IF k \in DOMAIN m \ job'.left THEN tree'[Target][k] # Absent /\ tree'[Target][k].bytes = m[k]
           ELSE tree'[Target][k] = Absent
<1>1. tree' = [tree EXCEPT ![Target][n] = [bytes |-> bytes, stamp |-> 0]] BY DEF ReadsWell
<1>2. tree \in [Places -> [FileNames -> Files \cup {Absent}]] BY DEF WorkspaceInv, WorkTypes
<1>3. [bytes |-> bytes, stamp |-> 0] # Absent BY WorkspaceAssumption DEF Files
<1>4. tree'[Target][n] = [bytes |-> bytes, stamp |-> 0]
      /\ \A k \in FileNames \ {n} : tree'[Target][k] = tree[Target][k]
  BY <1>1, <1>2, TargetIsPlace
<1>5. job'.left = job.left \ {n} BY DEF ReadsWell
<1> QED BY <1>3, <1>4, <1>5 DEF Copied

LEMMA PlannedIsThere ==
  /\ WorkTypes => \A n \in DOMAIN planned : planned[n] \in Contents /\ planned[n] # Absent
  /\ WorkTypes /\ inventory # Absent =>
       \A n \in DOMAIN inventory : inventory[n] \in Contents /\ inventory[n] # Absent
  /\ WorkTypes => \A n \in DOMAIN taken : taken[n] \in Contents /\ taken[n] # Absent
BY WorkspaceAssumption DEF WorkTypes, IsMapping

LEMMA NothingCopied ==
  \A place, m : tree[place] = Empty => Copied(place, m, {})
BY DEF Copied, Empty

LEMMA SourceStep ==
  ASSUME WorkspaceInv, [WorkspaceNext]_workspaceVars
  PROVE  SourceCopied'
<1> USE DataStays DEF WorkspaceInv
<1>a. UNCHANGED Empty BY DEF Empty
<1>b. job.stage # "provenance" => tree'["source"] = tree["source"] BY PlacesStay
<1>1. CASE Stopping BY <1>1, EndsAre DEF SourceCopied, Planning, Capturing
<1>2. CASE Quiet
  <2>1. tree'["source"] = tree["source"] BY <1>2 DEF Quiet, Reached, Places
  <2> QED BY <1>2, <1>a, <2>1 DEF SourceCopied, Copied, Quiet
<1>3. CASE Publishing BY <1>3, EndsAre DEF SourceCopied, Planning, Capturing
<1>4. CASE NoDelivery BY <1>4, EndsAre DEF SourceCopied, Planning, Capturing
<1>5. ASSUME NEW n \in FileNames, NEW bytes \in Contents, ReadsWell(n, bytes) PROVE SourceCopied'
  <2>1. job'.stage = job.stage /\ job'.from = job.from BY <1>5 DEF ReadsWell
  <2>2. CASE job.stage = "provenance"
    <3>1. n \in DOMAIN planned BY <1>5, <2>2 DEF ReadsWell, SourceCopied, WorkTypes
    <3>2. Target = "source" /\ Target # Absent
      BY <2>2, WorkspaceAssumption DEF Target, Places
    <3>3. bytes = planned[n]
      BY <1>5, <2>2, <3>1, PlannedIsThere DEF ReadsWell, Required, Expected
    <3> QED BY <1>5, <2>1, <2>2, <3>1, <3>2, <3>3, CopyGrows DEF SourceCopied, Copied, Planning, Capturing
  <2>3. CASE job.stage # "provenance"
    BY <1>a, <1>b, <2>1, <2>3 DEF SourceCopied, Copied
  <2> QED BY <2>2, <2>3
<1>7. CASE \E n \in FileNames : Comparison(n)
  BY <1>7, EndsAre DEF SourceCopied, Planning, Capturing
<1>6. CASE Turning /\ ~Stopping
  <2>1. CASE Provenance
    <3>1. DOMAIN job'.from = DOMAIN planned /\ job'.stage = "provenance" /\ job'.left = DOMAIN planned
          /\ job.stage \in Planning
      BY <2>1 DEF Provenance, Carry, In, Planning
    <3>2. tree'["source"] = Empty BY <1>b, <3>1 DEF SourceCopied, Planning
    <3> QED BY <3>1, <3>2 DEF SourceCopied, Copied, Empty, Planning, Capturing
  <2>2. CASE Map
    <3>1. job.stage = "provenance" /\ job.left = {} /\ UNCHANGED tree
      BY <2>2 DEF Map, Carried, In
    <3>2. job'.stage = "map" BY <1>6, <3>1, TurnIs
    <3> QED BY <3>1, <3>2 DEF SourceCopied, Copied, Planning, Capturing
  <2>3. CASE job.stage # "provenance" /\ job'.stage # "provenance"
             /\ (job'.stage \in Planning => job.stage \in Planning)
             /\ (job'.stage \in Capturing => job.stage \in Capturing)
    BY <1>a, <1>b, <2>3 DEF SourceCopied, Copied
  <2> QED BY <1>6, <2>1, <2>2, <2>3, TurnIs DEF Planning, Capturing
<1> QED BY <1>1, <1>2, <1>3, <1>4, <1>5, <1>6, <1>7, StepIs

LEMMA BytesStay ==
  ASSUME NEW p, tree'[p] = tree[p]
  PROVE  Held(p)' = Held(p) /\ Bytes(p)' = Bytes(p)
BY DEF Held, Bytes

\* An output is nothing that a run is given
LEMMA OutputsAreNew ==
  ASSUME WorkTypes, SnapshotOk
  PROVE  Mapped \cap task.outputs = {}
<1> SUFFICES ASSUME NEW n \in Mapped, n \in task.outputs PROVE FALSE OBVIOUS
<1>1. n \in FileNames /\ n \notin task.needs /\ Kind[n] \in {"input", "excluded", "nested"}
      /\ Supplied \subseteq task.needs /\ \A k \in DOMAIN task.imports : Kind[k] = "skill"
  BY TaskAssumption DEF WorkTypes, Supplied
<1>2. n \in Produced BY <1>1 DEF Produced
<1>3. n \notin SelectedNames BY <1>2 DEF SelectedNames
<1>4. n \notin Held("imports") BY <1>1 DEF SnapshotOk
<1>5. n \notin PackageNames BY <1>1 DEF PackageNames, CheckNames
<1> QED BY <1>1, <1>3, <1>4, <1>5 DEF Mapped

LEMMA SnapshotIsOrigin ==
  ASSUME WorkTypes, SnapshotOk, project # Absent, NEW n \in DOMAIN project
  PROVE  Origin(n) = "project"
<1>1. task.frozen /\ n \in Application /\ n \notin Supplied /\ Kind[n] = "input" /\ n \in FileNames
  BY DEF SnapshotOk, Application
<1>2. n \notin PackageNames BY <1>1 DEF PackageNames, CheckNames
<1>3. \A k \in DOMAIN task.imports : Kind[k] = "skill" BY TaskAssumption DEF WorkTypes
<1>4. n \notin Held("imports") BY <1>1, <1>3 DEF SnapshotOk
<1> QED BY <1>1, <1>2, <1>4 DEF Origin

LEMMA MappedStep ==
  ASSUME WorkspaceInv, [WorkspaceNext]_workspaceVars
  PROVE  MappedOk'
<1> USE DataStays DEF WorkspaceInv
<1>1. CASE Stopping BY <1>1, EndsAre DEF MappedOk
<1>2. CASE Quiet
  <2>1. tree'["project"] = tree["project"] BY <1>2 DEF Quiet, Reached, Places
  <2>2. Bytes("project")' = Bytes("project") BY <2>1, BytesStay
  <2> QED BY <1>2, <2>2 DEF MappedOk, Beside, Quiet
<1>3. CASE Publishing BY <1>3, EndsAre DEF MappedOk
<1>4. CASE NoDelivery BY <1>4, EndsAre DEF MappedOk
<1>5. ASSUME NEW n \in FileNames, NEW bytes \in Contents, ReadsWell(n, bytes) PROVE MappedOk'
  <2>1. job'.stage = job.stage /\ job'.from = job.from BY <1>5 DEF ReadsWell
  <2> SUFFICES ASSUME job.stage = "map" PROVE MappedOk'
    BY <2>1 DEF MappedOk
  <2>2. Bytes("project")' = Bytes("project") BY PlacesStay, BytesStay
  <2>3. /\ DOMAIN entries' = DOMAIN entries \cup {n} /\ entries'[n] = bytes
        /\ \A k \in DOMAIN entries \ {n} : entries'[k] = entries[k]
        /\ n \in DOMAIN job.from
    BY <1>5 DEF ReadsWell, WorkTypes
  <2>4. n \in DOMAIN planned /\ ~Beside(n) => bytes = planned[n]
    BY <1>5, PlannedIsThere DEF ReadsWell, Required, Expected
  <2>5. ASSUME project # Absent, n \in DOMAIN project PROVE bytes = project[n]
    <3>1. job.from[n] = "project" /\ Bytes("project") = project BY <2>3, <2>5 DEF MappedOk
    <3>2. bytes = tree["project"][n].bytes BY <1>5, <3>1 DEF ReadsWell
    <3> QED BY <2>5, <3>1, <3>2 DEF Bytes
  <2>6. \A k \in DOMAIN entries' \cap DOMAIN planned : ~Beside(k) => entries'[k] = planned[k]
    BY <2>3, <2>4 DEF MappedOk
  <2>7. project # Absent => \A k \in DOMAIN entries' \cap DOMAIN project : entries'[k] = project[k]
    BY <2>3, <2>5 DEF MappedOk
  <2> QED BY <2>1, <2>2, <2>6, <2>7 DEF MappedOk, Beside
<1>7. CASE \E n \in FileNames : Comparison(n) BY <1>7, EndsAre DEF MappedOk
<1>6. CASE Turning /\ ~Stopping
  <2>1. CASE Map
    <3>1. DOMAIN job'.from = Mapped /\ (\A n \in Mapped : job'.from[n] = Origin(n))
          /\ ~MappingUnsound /\ UNCHANGED tree
      BY <1>6, <2>1 DEF Map, Stopping, Carry
    <3>2. DOMAIN entries' = {} BY <1>6, TurnIs, NothingIsMapped
    <3>7. project' = project /\ task' = task BY <2>1 DEF Map, Carried, In
    <3>3. Bytes("project")' = Bytes("project") BY <3>1, BytesStay
    <3>4. project # Absent => Bytes("project") = project
      BY <3>1 DEF MappingUnsound, ProjectUnsound, SnapshotOk
    <3>5. Mapped \cap task.outputs = {} BY OutputsAreNew
    <3>6. project # Absent => \A n \in DOMAIN project : Origin(n) = "project" BY SnapshotIsOrigin
    <3> QED BY <3>1, <3>2, <3>3, <3>4, <3>5, <3>6, <3>7 DEF MappedOk
  <2>2. CASE job'.stage # "map" BY <2>2 DEF MappedOk
  <2> QED BY <1>6, <2>1, <2>2, TurnIs
<1> QED BY <1>1, <1>2, <1>3, <1>4, <1>5, <1>6, <1>7, StepIs

LEMMA AdmittedStep ==
  ASSUME WorkspaceInv, [WorkspaceNext]_workspaceVars
  PROVE  AdmittedOk'
<1> USE DataStays DEF WorkspaceInv
<1> DEFINE Later == (Capturing \ {"map"}) \cup Producing \cup {"publish"} \cup Delivered \cup Judging
<1>1. CASE Stopping
  BY <1>1, EndsAre DEF AdmittedOk, Capturing, Producing, Delivered, Judging
<1>2. CASE job'.stage = job.stage /\ job.stage \notin {"inspect", "map"}
  <2>1. UNCHANGED <<inventory, task, planned>> BY <1>2
  <2>2. job.stage \in Capturing \ {"map"} => project' = project BY <1>2 DEF Capturing
  <2> QED BY <1>2, <2>1, <2>2 DEF AdmittedOk, Beside
<1>3. CASE job'.stage \in {"inspect", "map", "no_delivery"}
  BY <1>3 DEF AdmittedOk, Capturing, Producing, Delivered, Judging
<1>4. CASE Turning /\ ~Stopping
  <2>1. CASE CaptureBaseline
    <3>1. inventory' = entries /\ job'.stage = "baseline" /\ job.stage = "map"
          /\ DOMAIN entries = DOMAIN job.from
      BY <1>4, <2>1 DEF CaptureBaseline, Carried, In, Carry, Stopping, Fixed, WorkTypes, Busy,
         Comparing
    <3>2. inventory' # Absent BY <3>1, MappingIsThere DEF WorkTypes
    <3> QED BY <3>1, <3>2 DEF AdmittedOk, MappedOk, Capturing, Beside
  <2>2. CASE /\ job.stage \notin {"map", "inspect", "freeze"}
             /\ (job'.stage \in Capturing \ {"map"} => job.stage \in Capturing \ {"map"})
             /\ (job'.stage \in Later => job.stage \in Later)
    BY <2>2 DEF AdmittedOk, Beside
  <2>3. CASE job.stage \in {"inspect", "freeze"}
    <3>1. job'.stage \in {"admitted", "freeze_copy"} BY <1>4, <2>3, TurnIs
    <3> QED BY <3>1 DEF AdmittedOk, Capturing, Producing, Delivered, Judging
  <2>4. CASE job'.stage = "freeze"
    BY <2>4 DEF AdmittedOk, Capturing, Producing, Delivered, Judging
  <2> HIDE DEF Later
  <2>5. /\ job'.stage \in {"freeze", "freeze_copy", "inspect", "admitted", "provenance", "map"} =>
             job'.stage \notin Later \cup (Capturing \ {"map"})
        /\ {"baseline", "producer", "references"} \subseteq Capturing \ {"map"}
        /\ {"baseline", "producer", "references", "agent", "collect", "publish", "published", "supply",
            "deliver", "before", "check", "after", "checked", "view", "viewed"} \subseteq Later
        /\ {"agent", "collect", "publish", "published", "supply",
            "deliver", "before", "check", "after", "checked", "view", "viewed"} \cap Capturing = {}
    BY DEF Later, Capturing, Producing, Delivered, Judging
  <2> QED BY <1>4, <2>1, <2>2, <2>3, <2>4, <2>5, TurnIs
<1>5. CASE Quiet BY <1>2, <1>3, <1>5 DEF Quiet
<1>6. CASE Publishing BY <1>2, <1>6, EndsAre
<1>7. CASE NoDelivery BY <1>3, <1>7, EndsAre
<1>9. CASE \E n \in FileNames : Comparison(n) BY <1>2, <1>9, EndsAre
<1>8. CASE \E n \in FileNames, bytes \in Contents : ReadsWell(n, bytes)
  <2>1. job'.stage = job.stage BY <1>8 DEF ReadsWell
  <2> QED BY <1>2, <1>3, <2>1
<1> QED BY <1>1, <1>4, <1>5, <1>6, <1>7, <1>8, <1>9, StepIs

LEMMA BaselineStep ==
  ASSUME WorkspaceInv, [WorkspaceNext]_workspaceVars
  PROVE  BaselineCopied'
<1> USE DataStays DEF WorkspaceInv
<1>a. UNCHANGED Empty BY DEF Empty
<1>b. job.stage \notin {"baseline", "agent", "before", "check", "after"} =>
        tree'["baseline"] = tree["baseline"]
  BY PlacesStay
<1>1. CASE Stopping BY <1>1, EndsAre DEF BaselineCopied, Planning
<1>2. CASE Quiet
  <2>1. job.stage \in Planning \cup {"provenance", "map", "baseline", "producer", "references"} =>
          tree'["baseline"] = tree["baseline"]
    BY <1>2 DEF Quiet, Reached, Places, Planning
  <2>2. /\ job'.stage = job.stage /\ job'.from = job.from /\ job'.left = job.left
        /\ inventory' = inventory
    BY <1>2 DEF Quiet
  <2> QED BY <1>a, <2>1, <2>2 DEF BaselineCopied, Copied
<1>3. CASE Publishing BY <1>3, EndsAre DEF BaselineCopied, Planning
<1>4. CASE NoDelivery BY <1>4, EndsAre DEF BaselineCopied, Planning
<1>5. ASSUME NEW n \in FileNames, NEW bytes \in Contents, ReadsWell(n, bytes) PROVE BaselineCopied'
  <2>1. job'.stage = job.stage /\ job'.from = job.from /\ inventory' = inventory
    BY <1>5 DEF ReadsWell, Fixed
  <2>2. CASE job.stage = "baseline"
    <3>1. n \in DOMAIN inventory BY <1>5, <2>2 DEF ReadsWell, BaselineCopied, WorkTypes
    <3>2. Target = "baseline" /\ Target # Absent BY <2>2, WorkspaceAssumption DEF Target, Places
    <3>3. inventory # Absent BY <2>2 DEF AdmittedOk, Capturing
    <3>4. bytes = inventory[n]
      BY <1>5, <2>2, <3>1, <3>3, PlannedIsThere DEF ReadsWell, Required
    <3> QED BY <1>5, <2>1, <2>2, <3>1, <3>2, <3>4, CopyGrows DEF BaselineCopied, Copied, Planning
  <2>3. CASE job.stage # "baseline"
    <3>1. job.stage \in Planning \cup {"provenance", "map", "baseline", "producer", "references"} =>
            tree'["baseline"] = tree["baseline"]
      BY <1>b, <2>3 DEF Planning
    <3> QED BY <1>a, <2>1, <2>3, <3>1 DEF BaselineCopied, Copied
  <2> QED BY <2>2, <2>3
<1>7. CASE \E n \in FileNames : Comparison(n) BY <1>7, EndsAre DEF BaselineCopied, Planning
<1>6. CASE Turning /\ ~Stopping
  <2>0. job'.left = DOMAIN job'.from BY <1>6, TurnIs
  <2>1. CASE CaptureBaseline
    <3>1. inventory' = entries /\ job.stage = "map" /\ job'.stage = "baseline"
          /\ DOMAIN entries = DOMAIN job.from /\ DOMAIN job'.from = DOMAIN job.from
      BY <1>6, <2>1 DEF CaptureBaseline, Carried, In, Carry, Stopping, Fixed, WorkTypes, Busy,
         Comparing
    <3>2. tree'["baseline"] = Empty BY <1>b, <3>1 DEF BaselineCopied
    <3> QED BY <2>0, <3>1, <3>2 DEF BaselineCopied, Copied, Empty, Planning
  <2>2. CASE CaptureProducer
    <3>1. job.stage = "baseline" /\ job.left = {} /\ UNCHANGED <<tree, inventory>>
      BY <2>2 DEF CaptureProducer, Carried, In, Fixed
    <3>2. job'.stage = "producer" BY <1>6, <3>1, TurnIs
    <3> QED BY <3>1, <3>2 DEF BaselineCopied, Copied, Planning
  <2>3. CASE RepairContext
    <3>1. job.stage = "producer" /\ UNCHANGED <<tree, inventory>>
      BY <2>3 DEF RepairContext, Carried, In, Fixed
    <3>2. job'.stage = "references" BY <1>6, <3>1, TurnIs
    <3> QED BY <3>1, <3>2 DEF BaselineCopied, Copied, Planning
  <2>4. CASE job'.stage \in Planning \cup {"provenance", "map"}
    <3>1. job.stage \in Planning \cup {"provenance", "map"} BY <1>6, <2>4, TurnIs DEF Planning
    <3>2. tree'["baseline"] = Empty BY <1>b, <3>1 DEF BaselineCopied, Planning
    <3> QED BY <1>a, <2>4, <3>2 DEF BaselineCopied, Planning
  <2>5. CASE job'.stage \notin Planning \cup {"provenance", "map", "baseline", "producer", "references"}
    BY <2>5 DEF BaselineCopied
  <2> QED BY <1>6, <2>1, <2>2, <2>3, <2>4, <2>5, TurnIs DEF Planning
<1> QED BY <1>1, <1>2, <1>3, <1>4, <1>5, <1>6, <1>7, StepIs


LEMMA ProducerStep ==
  ASSUME WorkspaceInv, [WorkspaceNext]_workspaceVars
  PROVE  ProducerCopied'
<1> USE DataStays DEF WorkspaceInv
<1>a. UNCHANGED Empty BY DEF Empty
<1>b. job.stage \notin {"producer", "agent"} => tree'["producer"] = tree["producer"] BY PlacesStay
<1>1. CASE Stopping BY <1>1, EndsAre DEF ProducerCopied, Planning
<1>2. CASE Quiet
  <2>1. job.stage \in Planning \cup {"provenance", "map", "baseline", "producer", "references"} =>
          tree'["producer"] = tree["producer"]
    BY <1>2 DEF Quiet, Reached, Places, Planning
  <2>2. /\ job'.stage = job.stage /\ job'.from = job.from /\ job'.left = job.left
        /\ inventory' = inventory
    BY <1>2 DEF Quiet
  <2> QED BY <1>a, <2>1, <2>2 DEF ProducerCopied, Copied
<1>3. CASE Publishing BY <1>3, EndsAre DEF ProducerCopied, Planning
<1>4. CASE NoDelivery BY <1>4, EndsAre DEF ProducerCopied, Planning
<1>5. ASSUME NEW n \in FileNames, NEW bytes \in Contents, ReadsWell(n, bytes) PROVE ProducerCopied'
  <2>1. job'.stage = job.stage /\ job'.from = job.from /\ inventory' = inventory
    BY <1>5 DEF ReadsWell, Fixed
  <2>2. CASE job.stage = "producer"
    <3>1. n \in DOMAIN inventory BY <1>5, <2>2 DEF ReadsWell, ProducerCopied, WorkTypes
    <3>2. Target = "producer" /\ Target # Absent BY <2>2, WorkspaceAssumption DEF Target, Places
    <3>3. inventory # Absent BY <2>2 DEF AdmittedOk, Capturing
    <3>4. bytes = inventory[n]
      BY <1>5, <2>2, <3>1, <3>3, PlannedIsThere DEF ReadsWell, Required
    <3> QED BY <1>5, <2>1, <2>2, <3>1, <3>2, <3>4, CopyGrows DEF ProducerCopied, Copied, Planning
  <2>3. CASE job.stage # "producer"
    <3>1. job.stage \in Planning \cup {"provenance", "map", "baseline", "producer", "references"} =>
            tree'["producer"] = tree["producer"]
      BY <1>b, <2>3 DEF Planning
    <3> QED BY <1>a, <2>1, <2>3, <3>1 DEF ProducerCopied, Copied
  <2> QED BY <2>2, <2>3
<1>7. CASE \E n \in FileNames : Comparison(n) BY <1>7, EndsAre DEF ProducerCopied, Planning
<1>6. CASE Turning /\ ~Stopping
  <2>0. job'.left = DOMAIN job'.from BY <1>6, TurnIs
  <2>1. CASE CaptureProducer
    <3>1. job.stage = "baseline" /\ UNCHANGED <<tree, inventory>> /\ DOMAIN job'.from = DOMAIN inventory
      BY <2>1, FromTypes DEF CaptureProducer, Carried, In, Fixed, Carry
    <3>2. job'.stage = "producer" BY <1>6, <3>1, TurnIs
    <3>3. tree'["producer"] = Empty BY <3>1 DEF ProducerCopied
    <3> QED BY <2>0, <3>1, <3>2, <3>3 DEF ProducerCopied, Copied, Empty, Planning
  <2>2. CASE RepairContext
    <3>1. job.stage = "producer" /\ job.left = {} /\ UNCHANGED <<tree, inventory>>
      BY <2>2 DEF RepairContext, Carried, In, Fixed
    <3>2. job'.stage = "references" BY <1>6, <3>1, TurnIs
    <3> QED BY <3>1, <3>2 DEF ProducerCopied, Copied, Planning
  <2>3. CASE job'.stage \in Planning \cup {"provenance", "map", "baseline"}
    <3>1. job.stage \in Planning \cup {"provenance", "map", "baseline"} BY <1>6, <2>3, TurnIs DEF Planning
    <3>2. tree'["producer"] = Empty BY <1>b, <3>1 DEF ProducerCopied, Planning
    <3> QED BY <1>a, <2>3, <3>2 DEF ProducerCopied, Planning
  <2>4. CASE job'.stage \notin Planning \cup {"provenance", "map", "baseline", "producer", "references"}
    BY <2>4 DEF ProducerCopied
  <2> QED BY <1>6, <2>1, <2>2, <2>3, <2>4, TurnIs DEF Planning
<1> QED BY <1>1, <1>2, <1>3, <1>4, <1>5, <1>6, <1>7, StepIs

LEMMA EmptyBytes == \A p : tree[p] = Empty => Bytes(p) = NoBytes
<1> SUFFICES ASSUME NEW p, tree[p] = Empty PROVE Bytes(p) = NoBytes OBVIOUS
<1>1. Held(p) = {} BY DEF Held, Empty
<1> QED BY <1>1 DEF Bytes, NoBytes

LEMMA CopyIsExact ==
  ASSUME WorkTypes, NEW place \in Places, NEW m, IsMapping(m), Copied(place, m, DOMAIN m)
  PROVE  Bytes(place) = m
<1>1. Held(place) = DOMAIN m BY DEF Copied, Held, IsMapping
<1>2. \A n \in DOMAIN m : tree[place][n].bytes = m[n] BY DEF Copied, IsMapping
<1>3. m = [n \in DOMAIN m |-> m[n]] BY DEF IsMapping
<1> QED BY <1>1, <1>2, <1>3 DEF Bytes

LEMMA StagesStep ==
  ASSUME WorkspaceInv, [WorkspaceNext]_workspaceVars
  PROVE  DeliveryStages'
<1> USE DataStays DEF WorkspaceInv
<1> DEFINE Since == {"publish"} \cup Delivered \cup Judging
<1>s. /\ Undelivered = {"planned", "freeze", "freeze_copy", "inspect", "admitted", "provenance", "map",
                         "baseline", "producer", "references", "agent", "collect", "no_delivery"}
      /\ Since = {"publish", "published", "supply", "deliver", "before", "check", "after", "checked",
                  "view", "viewed"}
  BY DEF Undelivered, Planning, Capturing, Producing, Delivered, Judging
<1> HIDE DEF Since
<1>c. ASSUME UNCHANGED taken, job'.stage = job.stage, job'.from = job.from
      PROVE  DeliveryStages'
  BY <1>c DEF DeliveryStages
<1>1. CASE Stopping
  BY <1>1, <1>s, EndsAre DEF DeliveryStages, Stopping, Fixed, Since
<1>2. CASE Quiet BY <1>2, <1>c DEF Quiet
<1>3. CASE Publishing BY <1>3, <1>c, EndsAre DEF Publishing, Fixed
<1>4. CASE NoDelivery
  BY <1>4, <1>s, EndsAre DEF DeliveryStages, NoDelivery, Fixed, Since
<1>5. CASE \E n \in FileNames, bytes \in Contents : ReadsWell(n, bytes)
  BY <1>5, <1>c DEF ReadsWell, Fixed
<1>7. CASE \E n \in FileNames : Comparison(n) BY <1>7, <1>c, EndsAre DEF Fixed
<1>6. CASE Turning /\ ~Stopping
  <2>1. CASE EndAgent
    <3>1. job.stage = "agent" /\ UNCHANGED taken /\ DOMAIN job'.from = task.outputs
      BY <2>1, FromTypes DEF EndAgent, In, Fixed, Carry
    <3>2. job'.stage = "collect" BY <1>6, <3>1, TurnIs
    <3> QED BY <1>s, <3>1, <3>2 DEF DeliveryStages, Since
  <2>2. CASE Collected
    <3>1. job.stage = "collect" /\ taken' = entries
          /\ DOMAIN entries = DOMAIN job.from /\ DOMAIN job'.from = task.outputs
      BY <2>2, FromTypes DEF Collected, Carried, In, Carry, WorkTypes, Busy, Comparing
    <3>2. job'.stage = "publish" BY <1>6, <3>1, TurnIs
    <3> QED BY <1>s, <3>1, <3>2 DEF DeliveryStages, Since
  <2>3. CASE /\ job.stage \notin {"agent", "collect"} /\ job'.stage \notin {"collect", "publish"}
             /\ job'.stage \in Undelivered => job.stage \in Undelivered
             /\ job'.stage \in Since => job.stage \in Since
    BY <2>3 DEF DeliveryStages, Since
  <2> QED BY <1>6, <1>s, <2>1, <2>2, <2>3, TurnIs
<1> QED BY <1>1, <1>2, <1>3, <1>4, <1>5, <1>6, <1>7, StepIs

LEMMA UneditedStays ==
  ASSUME NEW p, tree'[p] = tree[p], UNCHANGED taken, Unedited(p)
  PROVE  Unedited(p)'
BY DEF Unedited

\* The program writes what it captured, and others leave their mark
LEMMA UneditedStep ==
  ASSUME WorkspaceInv, [WorkspaceNext]_workspaceVars
  PROVE  Unedited("pending")' /\ Unedited("artifacts")'
<1> USE DataStays DEF WorkspaceInv
<1>p. /\ tree \in [Places -> [FileNames -> Files \cup {Absent}]]
      /\ Unedited("pending") /\ Unedited("artifacts")
      /\ "pending" \in Places /\ "artifacts" \in Places
  BY DEF DeliveryWhole, WorkTypes, Places
<1>1. CASE UNCHANGED <<tree, taken>> BY <1>1, <1>p DEF Unedited
<1>2. CASE Edited /\ UNCHANGED taken
  <2>1. PICK place \in Reached, n \in FileNames :
          \E file : /\ tree' = [tree EXCEPT ![place][n] = file]
                    /\ file # Absent => file.stamp = meddled + 1
    BY <1>2 DEF Edited
  <2>2. PICK file : /\ tree' = [tree EXCEPT ![place][n] = file]
                    /\ file # Absent => file.stamp = meddled + 1
    BY <2>1
  <2>3. place \in Places /\ meddled + 1 # 0 BY DEF Reached, Places, WorkTypes
  <2>4. \A p \in Places, k \in FileNames :
          tree'[p][k] = IF p = place /\ k = n THEN file ELSE tree[p][k]
    BY <1>p, <2>2, <2>3
  <2> QED BY <1>2, <1>p, <2>2, <2>3, <2>4 DEF Unedited
<1>3. CASE Publishing
  <2>1. UNCHANGED taken BY <1>3 DEF Publishing, Fixed
  <2>2. ASSUME NEW n \in FileNames, Wrote(n) PROVE Unedited("pending")' /\ Unedited("artifacts")'
    <3>1. n \in DOMAIN taken
      BY <1>3, <2>2 DEF Publishing, Wrote, DeliveryStages, WorkTypes
    <3>2. \A p \in Places, k \in FileNames :
            tree'[p][k] = IF p = "pending" /\ k = n THEN [bytes |-> taken[n], stamp |-> 0]
                          ELSE tree[p][k]
      BY <1>p, <2>2 DEF Wrote
    <3> QED BY <1>p, <2>1, <3>1, <3>2 DEF Unedited
  <2> QED BY <1>1, <1>3, <2>1, <2>2 DEF Publishing, Reread
<1>4. CASE ShowDelivery
  <2>1. tree' = [tree EXCEPT !["artifacts"] = tree["pending"], !["pending"] = Empty] /\ UNCHANGED taken
    BY <1>4 DEF ShowDelivery, Fixed
  <2>2. tree'["artifacts"] = tree["pending"] /\ tree'["pending"] = Empty BY <1>p, <2>1
  <2> QED BY <1>p, <2>1, <2>2 DEF Unedited, Empty
<1>5. CASE Collected
  <2>1. job.stage = "collect" /\ UNCHANGED tree BY <1>5 DEF Collected, Carried, In
  <2>2. tree["artifacts"] = Empty /\ tree["pending"] = Empty
    BY <2>1 DEF DeliveryWhole, Undelivered, Producing
  <2> QED BY <2>1, <2>2 DEF Unedited, Empty
<1>6. CASE /\ job.stage # "collect" \/ UNCHANGED taken
           /\ tree'["pending"] = tree["pending"] /\ tree'["artifacts"] = tree["artifacts"]
  BY <1>6, <1>p, UneditedStays
<1>7. CASE \E n \in FileNames, bytes \in Contents : ReadsWell(n, bytes)
  <2>1. PICK n \in FileNames, bytes \in Contents : ReadsWell(n, bytes) BY <1>7
  <2>2. UNCHANGED taken BY <2>1 DEF ReadsWell, Fixed
  <2>3. Target \notin {"pending", "artifacts"} BY WorkspaceAssumption DEF Target, Places
  <2>4. tree'["pending"] = tree["pending"] /\ tree'["artifacts"] = tree["artifacts"]
    BY <1>p, <2>1, <2>3, TargetIsPlace DEF ReadsWell
  <2> QED BY <1>6, <2>2, <2>4
<1>8. CASE Turning /\ ~ShowDelivery /\ ~Collected
  <2>1. UNCHANGED taken
    BY <1>8 DEF Turning, Freeze, Frozen, Inspect, Inspected, Provenance, Map, CaptureBaseline,
       CaptureProducer, RepairContext, StartAgent, EndAgent, PrepareCheck, SupplyDelivery, StartCheck,
       RunCheck, EndCheck, Judge, Condemn, ChainView, Viewed, Fixed
  <2>2. CASE EndAgent
    <3>1. tree'["pending"] = tree["pending"] /\ tree'["artifacts"] = tree["artifacts"]
      BY <2>2, PlacesStay DEF EndAgent, In, Delivered
    <3> QED BY <1>6, <2>1, <3>1
  <2>3. CASE ~EndAgent
    <3>1. UNCHANGED tree
      BY <1>8, <2>3 DEF Turning, Freeze, Frozen, Inspect, Inspected, Provenance, Map, CaptureBaseline,
         CaptureProducer, RepairContext, StartAgent, PrepareCheck, SupplyDelivery, StartCheck,
         RunCheck, EndCheck, Judge, Condemn, ChainView, Viewed
    <3> QED BY <1>1, <2>1, <3>1
  <2> QED BY <2>2, <2>3
<1> QED
  BY <1>1, <1>2, <1>3, <1>4, <1>5, <1>7, <1>8, EndsAre, StepIs
  DEF Quiet, Stopping, NoDelivery, Fixed

LEMMA DeliveryStep ==
  ASSUME WorkspaceInv, [WorkspaceNext]_workspaceVars
  PROVE  DeliveryWhole'
<1> USE DataStays DEF WorkspaceInv
<1>a. UNCHANGED <<Empty, NoBytes>> BY DEF Empty, NoBytes
<1>b. DOMAIN NoBytes = {} BY DEF NoBytes
<1>u. Unedited("pending")' /\ Unedited("artifacts")' BY UneditedStep
<1>s. Undelivered = {"planned", "freeze", "freeze_copy", "inspect", "admitted", "provenance", "map",
                     "baseline", "producer", "references", "agent", "collect", "no_delivery"}
  BY DEF Undelivered, Planning, Capturing, Producing
<1>c. ASSUME tree'["artifacts"] = tree["artifacts"], tree'["pending"] = tree["pending"],
             UNCHANGED <<taken, meddled>>, job'.stage # "publish",
             job'.stage \in Undelivered => job.stage \in Undelivered
      PROVE  DeliveryWhole'
  <2>1. Bytes("artifacts")' = Bytes("artifacts") BY <1>c, BytesStay
  <2> QED BY <1>a, <1>c, <1>u, <2>1 DEF DeliveryWhole
<1>1. CASE Stopping
  <2>1. UNCHANGED <<tree, taken, meddled>> /\ job'.stage = "stopped"
    BY <1>1, EndsAre DEF Stopping, Fixed
  <2> QED BY <1>c, <1>s, <2>1
<1>2. CASE Quiet
  <2>1. job.stage \in Undelivered =>
          tree'["artifacts"] = tree["artifacts"] /\ tree'["pending"] = tree["pending"]
    BY <1>2, <1>s, PlacesStay DEF Delivered
  <2>2. job.stage = "publish" => tree'["artifacts"] = tree["artifacts"]
    BY <1>2 DEF Quiet, Reached, Places
  <2>3. meddled' = 0 => UNCHANGED <<tree, meddled>> BY <1>2 DEF Quiet, Edited, WorkTypes
  <2>4. UNCHANGED tree => Bytes("artifacts")' = Bytes("artifacts") BY BytesStay
  <2>5. job.stage = "publish" => WrittenOut' = WrittenOut BY <1>2 DEF Quiet, WrittenOut
  <2>6. job' = job /\ taken' = taken BY <1>2 DEF Quiet
  <2> QED BY <1>a, <1>u, <2>1, <2>2, <2>3, <2>4, <2>5, <2>6 DEF DeliveryWhole, Copied
<1>3. CASE Publishing
  <2>1. job.stage = "publish" /\ job'.stage = "publish" /\ UNCHANGED <<taken, meddled>>
        /\ job'.from = job.from
    BY <1>3, EndsAre DEF Publishing, Fixed
  <2>2. tree'["artifacts"] = tree["artifacts"]
    BY <1>3 DEF Publishing, Wrote, Reread, WorkTypes, Places
  <2>3. Bytes("artifacts")' = Bytes("artifacts") BY <2>2, BytesStay
  <2>4. ASSUME meddled = 0 PROVE Copied("pending", taken, WrittenOut)'
    <3>0. Copied("pending", taken, WrittenOut) BY <2>1, <2>4 DEF DeliveryWhole
    <3>1. CASE Reread
      <4>1. WrittenOut' = WrittenOut BY <3>1, <2>1 DEF Reread, WrittenOut, WorkTypes
      <4> QED BY <2>1, <3>0, <3>1, <4>1 DEF Reread, Copied
    <3>2. ASSUME NEW n \in FileNames, Wrote(n) PROVE Copied("pending", taken, WrittenOut)'
      <4>0. open' # Absent /\ open'.name = n
        <5>1. n \in DOMAIN taken BY <2>1, <3>2 DEF Wrote, DeliveryStages, WorkTypes
        <5>2. open' \in [name : FileNames, file : Files]
          BY <3>2, <5>1 DEF Wrote, Files, WorkTypes, IsMapping
        <5> QED BY <3>2, <5>2, WorkspaceAssumption DEF Wrote
      <4>1. WrittenOut' = WrittenOut \cup {n} BY <3>2, <2>1, <4>0 DEF Wrote, WrittenOut, WorkTypes
      <4>2. tree'["pending"][n] = [bytes |-> taken[n], stamp |-> 0]
            /\ \A k \in FileNames \ {n} : tree'["pending"][k] = tree["pending"][k]
        BY <3>2 DEF Wrote, WorkTypes, Places
      <4>3. n \in DOMAIN taken BY <2>1, <3>2 DEF Wrote, DeliveryStages, WorkTypes
      <4>4. [bytes |-> taken[n], stamp |-> 0] # Absent
        <5>1. [bytes |-> taken[n], stamp |-> 0] \in Files
          BY <4>3 DEF WorkTypes, IsMapping, Files
        <5> QED BY <5>1, FileIsThere
      <4> QED BY <2>1, <3>0, <4>1, <4>2, <4>4 DEF Copied
    <3> QED BY <1>3, <3>1, <3>2 DEF Publishing
  <2> QED BY <1>a, <1>s, <1>u, <2>1, <2>2, <2>3, <2>4 DEF DeliveryWhole
<1>4. CASE NoDelivery
  <2>1. UNCHANGED <<tree, taken, meddled>> /\ job.stage = "collect" /\ job'.stage = "no_delivery"
    BY <1>4, EndsAre DEF NoDelivery, Fixed
  <2> QED BY <1>c, <1>s, <2>1
<1>5. CASE \E n \in FileNames, bytes \in Contents : ReadsWell(n, bytes)
  <2>1. PICK n \in FileNames, bytes \in Contents : ReadsWell(n, bytes) BY <1>5
  <2>2. job'.stage = job.stage /\ UNCHANGED <<taken, meddled>> /\ job.stage # "publish"
    BY <2>1 DEF ReadsWell, Fixed, Comparing
  <2>3. Target \notin {"pending", "artifacts"} BY WorkspaceAssumption DEF Target, Places
  <2>4. tree'["pending"] = tree["pending"] /\ tree'["artifacts"] = tree["artifacts"]
    BY <2>1, <2>3, TargetIsPlace DEF ReadsWell, WorkTypes, Places
  <2> QED BY <1>c, <2>2, <2>4
<1>7. CASE \E n \in FileNames : Comparison(n)
  <2>1. UNCHANGED <<tree, taken, meddled>> /\ job'.stage = job.stage /\ job.stage # "publish"
    BY <1>7, EndsAre DEF Fixed
  <2> QED BY <1>c, <2>1
<1>6. CASE Turning /\ ~Stopping
  <2>m. meddled' = meddled
    BY <1>6 DEF Turning, Freeze, Frozen, Inspect, Inspected, Provenance, Map, CaptureBaseline,
       CaptureProducer, RepairContext, StartAgent, EndAgent, Collected, ShowDelivery, PrepareCheck,
       SupplyDelivery, StartCheck, RunCheck, EndCheck, Judge, Condemn, ChainView, Viewed, Fixed
  <2>1. CASE Collected
    <3>1. job.stage = "collect" /\ UNCHANGED tree /\ job'.left = DOMAIN job'.from /\ open' = Absent
      BY <2>1 DEF Collected, Carried, In, Carry
    <3>2. job'.stage = "publish" BY <1>6, <3>1, TurnIs
    <3>3. tree["artifacts"] = Empty /\ tree["pending"] = Empty
      BY <1>s, <3>1 DEF DeliveryWhole
    <3>4. Bytes("artifacts")' = NoBytes BY <3>1, <3>3, BytesStay, EmptyBytes
    <3>5. WrittenOut' = {} BY <3>1 DEF WrittenOut
    <3>6. Copied("pending", taken, WrittenOut)' BY <3>1, <3>3, <3>5 DEF Copied, Empty
    <3> QED BY <1>a, <1>s, <1>u, <3>1, <3>2, <3>3, <3>4, <3>6 DEF DeliveryWhole
  <2>2. CASE ShowDelivery
    <3>1. job.stage = "publish" /\ UNCHANGED taken /\ job.left = {} /\ open = Absent
          /\ tree' = [tree EXCEPT !["artifacts"] = tree["pending"], !["pending"] = Empty]
      BY <2>2 DEF ShowDelivery, Carried, In, Fixed
    <3>2. job'.stage = "published" BY <1>6, <3>1, TurnIs
    <3>3. tree'["artifacts"] = tree["pending"] BY <3>1 DEF WorkTypes, Places
    <3>4. Bytes("artifacts")' = Bytes("pending") BY <3>3 DEF Bytes, Held
    <3>5. ASSUME meddled = 0 PROVE Bytes("pending") = taken
      <4>1. DOMAIN taken = DOMAIN job.from BY <3>1 DEF DeliveryStages
      <4>2. WrittenOut = DOMAIN taken BY <3>1, <4>1 DEF WrittenOut
      <4>3. Copied("pending", taken, DOMAIN taken) BY <3>1, <3>5, <4>2 DEF DeliveryWhole
      <4>4. IsMapping(taken) BY DEF WorkTypes
      <4> QED BY <4>3, <4>4, CopyIsExact DEF Places
    <3> QED BY <1>a, <1>s, <1>u, <2>m, <3>1, <3>2, <3>4, <3>5 DEF DeliveryWhole
  <2>3. CASE job.stage \notin {"collect", "publish"}
    <3>1. job'.stage # "publish" /\ (job'.stage \in Undelivered => job.stage \in Undelivered)
      BY <1>6, <1>s, <2>3, TurnIs
    <3>2. UNCHANGED taken BY <2>3
    <3>3. tree'["pending"] = tree["pending"] /\ tree'["artifacts"] = tree["artifacts"]
      <4>1. CASE EndAgent BY <4>1, PlacesStay DEF EndAgent, In, Delivered
      <4>2. CASE ~EndAgent
        BY <1>6, <2>3, <4>2 DEF Turning, Freeze, Frozen, Inspect, Inspected, Provenance, Map,
           CaptureBaseline, CaptureProducer, RepairContext, StartAgent, Collected, ShowDelivery,
           PrepareCheck, SupplyDelivery, StartCheck, RunCheck, EndCheck, Judge, Condemn, ChainView,
           Viewed, Carried, In
      <4> QED BY <4>1, <4>2
    <3> QED BY <1>c, <2>m, <3>1, <3>2, <3>3
  <2>4. job.stage = "collect" => Collected BY <1>6, TurnIs
  <2>5. job.stage = "publish" => ShowDelivery BY <1>6, TurnIs
  <2> QED BY <2>1, <2>2, <2>3, <2>4, <2>5
<1> QED BY <1>1, <1>2, <1>3, <1>4, <1>5, <1>6, <1>7, StepIs

LEMMA IntactStays ==
  ASSUME UNCHANGED <<tree, task, inventory, taken>>
  PROVE  Compared' = Compared /\ \A n : Intact(n)' = Intact(n)
BY DEF Compared, Intact, Unchanged

LEMMA VerdictStep ==
  ASSUME WorkspaceInv, [WorkspaceNext]_workspaceVars
  PROVE  VerdictOk'
<1> USE DataStays DEF WorkspaceInv
<1>m. meddled \in Nat /\ ended \in Nat /\ ended <= meddled BY DEF WorkTypes
<1>n. job.stage \notin {"inspect", "map", "collect"} => UNCHANGED <<task, inventory, taken>>
  OBVIOUS
<1>a. ASSUME job.stage \in {"checked", "view", "viewed", "stopped"}
      PROVE  Compared' = Compared /\ \A n : Intact(n)' = Intact(n)
  <2>1. tree'["artifacts"] = tree["artifacts"] /\ tree'["subject"] = tree["subject"]
    BY <1>a, PlacesStay DEF Delivered
  <2> QED BY <1>a, <1>n, <2>1 DEF Compared, Intact, Unchanged
<1>b. ASSUME job.stage \notin {"before", "check", "after"}, UNCHANGED <<meddled, ended>>,
             \/ job'.stage = "stopped"
             \/ job.stage \notin Judging \cup {"stopped"} /\ job'.stage \notin Judging
             \/ job.stage \in {"checked", "view"} /\ job'.stage \in {"view", "viewed"}
             \/ job'.stage = job.stage
      PROVE  VerdictOk'
  <2>1. verdict' = verdict BY <1>b
  <2> QED BY <1>a, <1>b, <2>1 DEF VerdictOk, Judging
<1>1. CASE Stopping
  <2>1. job'.stage = "stopped" /\ UNCHANGED <<tree, task, inventory, taken, verdict, meddled, ended>>
    BY <1>1, EndsAre DEF Stopping, Fixed
  <2> QED BY <2>1, IntactStays DEF VerdictOk
<1>2. CASE Quiet
  <2>1. UNCHANGED <<job, verdict, ended, task, inventory, taken>> BY <1>2 DEF Quiet
  <2>2. CASE UNCHANGED <<tree, meddled>> BY <2>1, <2>2, IntactStays DEF VerdictOk
  <2>3. CASE Edited
    <3>1. meddled' # ended' BY <1>m, <2>1, <2>3 DEF Edited
    <3>2. Compared' = Compared BY <2>1 DEF Compared
    <3> QED BY <2>1, <3>1, <3>2 DEF VerdictOk
  <2> QED BY <1>2, <2>2, <2>3 DEF Quiet
<1>3. CASE Publishing BY <1>3, <1>b, EndsAre DEF Publishing, Fixed
<1>4. CASE NoDelivery BY <1>4, <1>b, EndsAre DEF Judging, NoDelivery, Fixed
<1>5. CASE \E n \in FileNames, bytes \in Contents : ReadsWell(n, bytes)
  <2>1. job'.stage = job.stage /\ UNCHANGED <<meddled, ended>>
        /\ job.stage \notin {"before", "check", "after"}
    BY <1>5 DEF ReadsWell, Fixed, Busy, Comparing
  <2> QED BY <1>b, <2>1
<1>7. CASE \E n \in FileNames : Comparison(n)
  <2>1. PICK n \in FileNames : Comparison(n) BY <1>7
  <2>2. /\ UNCHANGED <<tree, task, inventory, taken, verdict, meddled, ended>> /\ Intact(n)
        /\ job'.stage = job.stage /\ job'.from = job.from /\ job'.left = job.left \ {n}
        /\ job.stage \in {"before", "after"}
    BY <2>1 DEF Comparison, Fixed
  <2> QED BY <2>2, IntactStays DEF VerdictOk
<1>6. CASE Turning /\ ~Stopping
  <2>1. CASE StartCheck
    <3>1. job.stage = "deliver" /\ UNCHANGED verdict /\ DOMAIN job'.from = Compared
          /\ UNCHANGED <<task, inventory>>
      BY <2>1, FromTypes DEF StartCheck, Carried, In, Fixed, Carry, Verified, Compared
    <3>2. job'.stage = "before" BY <1>6, <3>1, TurnIs
    <3>3. Compared' = Compared BY <3>1 DEF Compared
    <3> QED BY <3>1, <3>2, <3>3 DEF VerdictOk
  <2>2. CASE RunCheck
    <3>1. job.stage = "before" /\ UNCHANGED verdict BY <2>2 DEF RunCheck, Carried, In, Fixed
    <3>2. job'.stage = "check" BY <1>6, <2>2 DEF RunCheck, Turn, Carry
    <3> QED BY <3>1, <3>2 DEF VerdictOk
  <2>3. CASE EndCheck
    <3>1. job.stage = "check" /\ UNCHANGED <<verdict, task, inventory, tree, taken>>
          /\ DOMAIN job'.from = Compared /\ job'.left = DOMAIN job'.from
      BY <2>3, FromTypes DEF EndCheck, In, Carry, Verified, Compared
    <3>2. job'.stage = "after" BY <1>6, <3>1, TurnIs
    <3> QED BY <3>1, <3>2, IntactStays DEF VerdictOk
  <2>4. CASE Judge
    <3>1. job.stage = "after" /\ job.left = {} /\ job'.stage = "checked"
          /\ UNCHANGED <<tree, task, inventory, taken, meddled, ended>>
      BY <2>4 DEF Judge, Carried, In, Turn, Carry
    <3> QED BY <3>1, IntactStays DEF VerdictOk
  <2>5. CASE Condemn
    <3>1. job'.stage = "checked" /\ verdict' = "broken" BY <2>5 DEF Condemn, Turn, Carry
    <3> QED BY <3>1 DEF VerdictOk
  <2>6. CASE ~StartCheck /\ ~RunCheck /\ ~EndCheck /\ ~Judge /\ ~Condemn
    <3>1. UNCHANGED <<meddled, ended>>
      BY <1>6, <2>6 DEF Turning, Freeze, Frozen, Inspect, Inspected, Provenance, Map, CaptureBaseline,
         CaptureProducer, RepairContext, StartAgent, EndAgent, Collected, ShowDelivery, PrepareCheck,
         SupplyDelivery, ChainView, Viewed, Fixed
    <3>2. \/ job.stage \notin Judging \cup {"stopped"} /\ job'.stage \notin Judging
          \/ job.stage \in {"checked", "view"} /\ job'.stage \in {"view", "viewed"}
      BY <1>6, <2>6, TurnIs DEF Judging
    <3>3. job.stage \notin {"before", "check", "after"} BY <3>2 DEF Judging
    <3> QED BY <1>b, <3>1, <3>2, <3>3
  <2> QED BY <2>1, <2>2, <2>3, <2>4, <2>5, <2>6
<1> QED BY <1>1, <1>2, <1>3, <1>4, <1>5, <1>6, <1>7, StepIs

LEMMA ViewStep ==
  ASSUME WorkspaceInv, [WorkspaceNext]_workspaceVars
  PROVE  ViewCopied'
<1> USE DataStays DEF WorkspaceInv
<1>a. UNCHANGED Empty BY DEF Empty
<1>b. job.stage # "view" => tree'["view"] = tree["view"] BY PlacesStay
<1>c. ASSUME UNCHANGED <<taken, inventory>>, job'.stage = job.stage, job'.from = job.from,
             tree'["view"] = tree["view"]
      PROVE  ViewCopied'
  BY <1>a, <1>c DEF ViewCopied
<1>d. ASSUME job.stage \notin {"view", "viewed", "stopped"}, job'.stage \notin {"view", "viewed"}
      PROVE  ViewCopied'
  BY <1>a, <1>b, <1>d DEF ViewCopied
<1>1. CASE Stopping BY <1>1, EndsAre DEF ViewCopied
<1>2. CASE Quiet
  <2>1. tree'["view"] = tree["view"] BY <1>2 DEF Quiet, Reached, Places
  <2> QED BY <1>2, <1>c, <2>1 DEF Quiet
<1>3. CASE Publishing BY <1>3, <1>d, EndsAre
<1>4. CASE NoDelivery BY <1>4, <1>d, EndsAre
<1>5. ASSUME NEW n \in FileNames, NEW bytes \in Contents, ReadsWell(n, bytes) PROVE ViewCopied'
  <2>1. job'.stage = job.stage /\ job'.from = job.from /\ UNCHANGED <<taken, inventory>>
    BY <1>5 DEF ReadsWell, Fixed
  <2>2. CASE job.stage # "view" BY <1>b, <1>c, <2>1, <2>2
  <2>3. CASE job.stage = "view"
    <3>1. Target = "view" /\ Target # Absent BY <2>3, WorkspaceAssumption DEF Target, Places
    <3>2. n \in DOMAIN inventory \cup task.outputs BY <1>5, <2>3 DEF ReadsWell, ViewCopied, WorkTypes
    <3>3. inventory # Absent /\ DOMAIN taken = task.outputs
      BY <2>3 DEF AdmittedOk, DeliveryStages, Judging
    <3>4. bytes = IF n \in task.outputs THEN taken[n] ELSE inventory[n]
      BY <1>5, <2>3, <3>2, <3>3, PlannedIsThere DEF ReadsWell, Required
    <3>5. tree'["view"] = [tree["view"] EXCEPT ![n] = [bytes |-> bytes, stamp |-> 0]]
      BY <1>5, <3>1 DEF ReadsWell, WorkTypes, Places
    <3>6. tree["view"] \in [FileNames -> Files \cup {Absent}] BY DEF WorkTypes, Places
    <3>7. tree'["view"][n] = [bytes |-> bytes, stamp |-> 0]
          /\ \A k \in FileNames \ {n} : tree'["view"][k] = tree["view"][k]
      BY <3>5, <3>6
    <3>8. \A k \in FileNames : tree'["view"][k] # Absent =>
            tree'["view"][k].bytes = IF k \in task.outputs THEN taken[k] ELSE inventory[k]
      BY <2>3, <3>4, <3>7 DEF ViewCopied
    <3> QED BY <2>1, <2>3, <3>8 DEF ViewCopied
  <2> QED BY <2>2, <2>3
<1>7. CASE \E n \in FileNames : Comparison(n) BY <1>7, <1>d, EndsAre
<1>6. CASE Turning /\ ~Stopping
  <2>1. CASE ChainView
    <3>1. job.stage = "checked" /\ DOMAIN job'.from = ViewNames /\ UNCHANGED inventory
      BY <2>1 DEF ChainView, Carried, In, Carry, Fixed
    <3>2. job'.stage = "view" BY <1>6, <3>1, TurnIs
    <3>3. tree'["view"] = Empty BY <1>b, <3>1 DEF ViewCopied
    <3>4. \A n \in FileNames : tree'["view"][n] = Absent BY <3>3 DEF Empty
    <3> QED BY <3>1, <3>2, <3>4 DEF ViewCopied, ViewNames
  <2>2. CASE Viewed
    <3>1. job.stage = "view" /\ UNCHANGED <<tree, inventory, taken>>
      BY <2>2 DEF Viewed, Carried, In, Fixed
    <3>2. job'.stage = "viewed" BY <1>6, <3>1, TurnIs
    <3> QED BY <3>1, <3>2 DEF ViewCopied
  <2>3. CASE job.stage \notin {"checked", "view"}
    <3>1. job.stage \notin {"view", "viewed", "stopped"} /\ job'.stage \notin {"view", "viewed"}
      BY <1>6, <2>3, TurnIs
    <3> QED BY <1>d, <3>1
  <2> QED BY <1>6, <2>1, <2>2, <2>3, TurnIs
<1> QED BY <1>1, <1>2, <1>3, <1>4, <1>5, <1>6, <1>7, StepIs

-----------------------------------------------------------------------------
(* From the caller's tree to the delivery *)

LEMMA AsFilesAre ==
  ASSUME NEW files, IsMapping(files)
  PROVE  AsFiles(files) \in [FileNames -> Files \cup {Absent}]
BY DEF AsFiles, IsMapping, Files

LEMMA WorkspaceStarts == WorkspaceInit => WorkspaceInv
<1> SUFFICES ASSUME WorkspaceInit PROVE WorkspaceInv OBVIOUS
<1>1. PICK files \in Callers :
        tree = [p \in Places |->
                 CASE p = "caller" -> AsFiles(files) [] p = "package" -> AsFiles(task.package)
                   [] p = "imports" -> AsFiles(task.imports) [] p = "upstream" -> AsFiles(task.upstream)
                   [] p = "rejected" -> AsFiles(task.rejected) [] OTHER -> Empty]
  BY DEF WorkspaceInit
<1>2. task \in Tasks /\ job = [stage |-> "planned", from |-> NoBytes, left |-> {}]
      /\ open = Absent /\ entries = NoBytes /\ project = Absent /\ inventory = Absent
      /\ taken = NoBytes /\ verdict = "none" /\ meddled = 0 /\ ended = 0
  BY DEF WorkspaceInit
<1>3. IsMapping(files) /\ IsMapping(task.package) /\ IsMapping(task.imports)
      /\ IsMapping(task.upstream) /\ IsMapping(task.rejected)
  BY <1>2, TaskAssumption
<1>4. Empty \in [FileNames -> Files \cup {Absent}] BY DEF Empty
<1>5. tree \in [Places -> [FileNames -> Files \cup {Absent}]]
  BY <1>1, <1>3, <1>4, AsFilesAre
<1>6. /\ tree["caller"] = AsFiles(files) /\ tree["imports"] = AsFiles(task.imports)
      /\ tree["source"] = Empty /\ tree["baseline"] = Empty /\ tree["producer"] = Empty
      /\ tree["pending"] = Empty /\ tree["artifacts"] = Empty /\ tree["view"] = Empty
  BY <1>1 DEF Places
<1>7. IsMapping(planned)
  <2>1. IsMapping(Bytes("caller"))
    BY <1>5, FileIsThere DEF Bytes, Held, IsMapping, Places
  <2> DEFINE from == IF task.packaged THEN task.package ELSE Bytes("caller")
             sources == {n \in DOMAIN from : Kind[n] = "source"} \cup DOMAIN task.imports \cup LockNames
  <2>2. IsMapping(from) BY <1>3, <2>1
  <2>3. planned = [n \in sources |-> IF n \in DOMAIN task.imports THEN task.imports[n]
                                     ELSE IF Kind[n] = "lock" THEN tree["caller"][n].bytes ELSE from[n]]
    BY DEF WorkspaceInit
  <2>4. sources \subseteq FileNames BY <1>3, <2>2 DEF IsMapping, LockNames, Held
  <2>5. ASSUME NEW n \in sources PROVE planned[n] \in Contents
    <3>1. CASE n \in DOMAIN task.imports BY <1>3, <2>3, <3>1 DEF IsMapping
    <3>2. CASE n \notin DOMAIN task.imports /\ Kind[n] = "lock"
      <4>1. tree["caller"][n] # Absent \/ n \in {k \in DOMAIN from : Kind[k] = "source"}
        BY <3>2 DEF LockNames, Held
      <4>2. tree["caller"][n] \in Files BY <1>5, <2>4, <3>2, <4>1 DEF Places
      <4> QED BY <2>3, <3>2, <4>2, FileIsThere
    <3>3. CASE n \notin DOMAIN task.imports /\ Kind[n] # "lock"
      <4>1. n \in DOMAIN from BY <3>3 DEF LockNames
      <4> QED BY <2>2, <2>3, <3>3, <4>1 DEF IsMapping
    <3> QED BY <3>1, <3>2, <3>3
  <2>6. DOMAIN planned = sources BY <2>3
  <2>7. planned = [n \in DOMAIN planned |-> planned[n]] BY <2>3
  <2> HIDE DEF sources, from
  <2> QED BY <2>4, <2>5, <2>6, <2>7 DEF IsMapping
<1>8. WorkTypes BY <1>2, <1>5, <1>7, NothingIsMapped DEF WorkTypes, Idle, Busy
<1>9. SnapshotOk BY <1>2, <1>6 DEF SnapshotOk, Held, AsFiles
<1>10. DeliveryStages /\ DeliveryWhole
  <2>1. Bytes("artifacts") = NoBytes BY <1>6, EmptyBytes
  <2>2. job.stage = "planned" /\ DOMAIN taken = {} BY <1>2, NothingIsMapped
  <2> QED BY <1>2, <1>6, <2>1, <2>2
      DEF DeliveryStages, DeliveryWhole, Unedited, Empty, Planning, Delivered, Judging
<1>11. SourceCopied /\ BaselineCopied /\ ProducerCopied
  BY <1>2, <1>6 DEF SourceCopied, BaselineCopied, ProducerCopied, Planning, Capturing
<1>12. MappedOk /\ AdmittedOk
  BY <1>2 DEF MappedOk, AdmittedOk, Capturing, Producing, Delivered, Judging
<1>13. VerdictOk /\ ViewCopied BY <1>2, <1>6 DEF VerdictOk, ViewCopied, Judging
<1> QED BY <1>8, <1>9, <1>10, <1>11, <1>12, <1>13 DEF WorkspaceInv

LEMMA InvariantCarries == WorkspaceInv => CarriedBytesAreAdmitted
<1> SUFFICES ASSUME WorkspaceInv PROVE CarriedBytesAreAdmitted OBVIOUS
<1> USE DEF WorkspaceInv
<1>1. ASSUME Carried("references")
      PROVE  /\ Bytes("producer") = inventory /\ Bytes("baseline") = inventory
             /\ Bytes("source") = planned
             /\ \A n \in DOMAIN planned \cap DOMAIN inventory : ~Beside(n) => inventory[n] = planned[n]
             /\ project # Absent => \A n \in DOMAIN inventory \cap DOMAIN project : inventory[n] = project[n]
             /\ DOMAIN inventory \cap task.outputs = {}
  <2>1. job.stage = "references" BY <1>1 DEF Carried, In
  <2>2. inventory # Absent /\ IsMapping(inventory) /\ IsMapping(planned)
    BY <2>1 DEF AdmittedOk, Capturing, WorkTypes
  <2>3. Bytes("producer") = inventory
    BY <2>1, <2>2, CopyIsExact DEF ProducerCopied, Places
  <2>4. Bytes("baseline") = inventory
    BY <2>1, <2>2, CopyIsExact DEF BaselineCopied, Places
  <2>5. Bytes("source") = planned
    BY <2>1, <2>2, CopyIsExact DEF SourceCopied, Places, Capturing
  <2> QED BY <2>1, <2>3, <2>4, <2>5 DEF AdmittedOk, Capturing
<1>2. /\ meddled = 0 => Bytes("artifacts") \in {NoBytes, taken} /\ DOMAIN taken \in {{}, task.outputs}
      /\ \A n \in Held("artifacts") : tree["artifacts"][n].stamp = 0 =>
           n \in DOMAIN taken /\ tree["artifacts"][n].bytes = taken[n]
  BY DEF DeliveryStages, DeliveryWhole, Unedited, Held
<1>3. verdict = "passed" /\ meddled = ended =>
       /\ \A n \in task.outputs :
            Unchanged("artifacts", n, taken[n]) /\ Unchanged("subject", n, taken[n])
       /\ \A n \in DOMAIN inventory : Kind[n] = "check" => Unchanged("subject", n, inventory[n])
  <2>1. \A n \in task.outputs : Kind[n] # "check" BY TaskAssumption DEF WorkTypes
  <2> QED BY <2>1 DEF VerdictOk, Compared, Intact
<1>4. In("viewed") => \A n \in Held("view") :
       tree["view"][n].bytes = IF n \in task.outputs THEN taken[n] ELSE inventory[n]
  BY DEF ViewCopied, In, Held
<1> QED BY <1>1, <1>2, <1>3, <1>4 DEF CarriedBytesAreAdmitted

\* Whatever the caller, the agent, the check and what they leave behind edit and whenever:
\* the agent starts from the admitted bytes, the program shows no delivery in part, a
\* verdict is of the captured bytes unless somebody writes after the check, and a view is
\* of what was delivered (capture_workspace, capture_output, verify_check_integrity).
THEOREM BytesStayAdmitted == WorkspaceSpec => []CarriedBytesAreAdmitted
<1>1. WorkspaceInit => WorkspaceInv BY WorkspaceStarts
<1>2. WorkspaceInv /\ [WorkspaceNext]_workspaceVars => WorkspaceInv'
  <2> SUFFICES ASSUME WorkspaceInv, [WorkspaceNext]_workspaceVars PROVE WorkspaceInv' OBVIOUS
  <2>1. WorkTypes' /\ SnapshotOk' /\ SourceCopied' /\ MappedOk' /\ AdmittedOk'
    BY WorkTypesStep, SnapshotStep, SourceStep, MappedStep, AdmittedStep
  <2>2. /\ BaselineCopied' /\ ProducerCopied' /\ DeliveryStages' /\ DeliveryWhole'
        /\ VerdictOk' /\ ViewCopied'
    BY BaselineStep, ProducerStep, StagesStep, DeliveryStep, VerdictStep, ViewStep
  <2> QED BY <2>1, <2>2 DEF WorkspaceInv
<1>3. WorkspaceInv => CarriedBytesAreAdmitted BY InvariantCarries
<1> QED BY <1>1, <1>2, <1>3, PTL DEF WorkspaceSpec

-----------------------------------------------------------------------------
(* Induction over numbers and lists: the theorem on well-founded relations *)
(* without an operator                                                     *)

LEMMA LeastOf ==
  ASSUME NEW T, T \subseteq Nat, T # {}
  PROVE  \E n \in T : \A m \in T : n <= m
<1> DEFINE R == OpToRel(<, Nat)
<1>1. IsWellFoundedOn(R, Nat) BY NatLessThanWellFounded
<1>2. \A x, y \in Nat : x < y => <<x, y>> \in R BY DEF OpToRel
<1> HIDE DEF R
<1>3. PICK n \in T : \A m \in T : ~ (<<m, n>> \in R) BY <1>1, WFMin
<1>4. ASSUME NEW m \in T PROVE n <= m
  <2>1. ~ (<<m, n>> \in R) /\ m \in Nat /\ n \in Nat BY <1>3
  <2>2. ~ (m < n) BY <2>1, <1>2
  <2> QED BY <2>1, <2>2
<1> QED BY <1>4

LEMMA Induct ==
  ASSUME NEW S, 0 \in S, \A n \in Nat : n \in S => n + 1 \in S
  PROVE  Nat \subseteq S
<1> SUFFICES ASSUME Nat \ S # {} PROVE FALSE OBVIOUS
<1>1. PICK n \in Nat \ S : \A m \in Nat \ S : n <= m BY LeastOf
<1>2. n - 1 \in Nat /\ n - 1 \notin Nat \ S BY <1>1
<1> QED BY <1>1, <1>2

-----------------------------------------------------------------------------
(* The size of the lines of a sequence *)

\* the sum over the first k elements, as the fold computes it
Partial(s) ==
  CHOOSE iter : iter = [t \in SUBSET DOMAIN s |->
                          IF t = {} THEN 0 ELSE iter[t \ {Max(t)}] + s[Max(t)]]

LEMMA SizeIs == \A s : Size(s) = Partial(s)[DOMAIN s]
BY DEF Size, FoldLeft, MapThenFoldSet, Partial

LEMMA LastIsMax == \A n \in Nat : \A t \in SUBSET (1 .. n + 1) : n + 1 \in t => Max(t) = n + 1
<1> SUFFICES ASSUME NEW n \in Nat, NEW t \in SUBSET (1 .. n + 1), n + 1 \in t
             PROVE  Max(t) = n + 1
  OBVIOUS
<1>1. \A y \in t : n + 1 >= y OBVIOUS
<1>2. \A x \in t : (\A y \in t : x >= y) => x = n + 1
  <2> TAKE x \in t
  <2>1. x \in Int /\ x <= n + 1 OBVIOUS
  <2> QED BY <2>1
<1> QED BY <1>1, <1>2 DEF Max

LEMMA PartialIs ==
  ASSUME NEW E, NEW s \in Seq(E)
  PROVE  /\ Partial(s)[{}] = 0
         /\ \A k \in Nat : k < Len(s) => Partial(s)[1 .. k + 1] = Partial(s)[1 .. k] + s[k + 1]
<1> DEFINE V(f, t) == IF t = {} THEN 0 ELSE f[t \ {Max(t)}] + s[Max(t)]
           Is(f, sets) == f = [t \in sets |-> V(f, t)]
           upTo(n) == CHOOSE f : Is(f, SUBSET (1 .. n))
           S == {n \in Nat : Is(upTo(n), SUBSET (1 .. n))}
<1>1. 0 \in S
  <2> DEFINE g == [t \in SUBSET (1 .. 0) |-> 0]
  <2>1. \A t \in SUBSET (1 .. 0) : t = {} OBVIOUS
  <2>2. Is(g, SUBSET (1 .. 0))
    <3>1. \A t \in SUBSET (1 .. 0) : V(g, t) = 0 BY <2>1
    <3> HIDE DEF V
    <3> QED BY <3>1
  <2> HIDE DEF Is
  <2> QED BY <2>2
<1>2. ASSUME NEW n \in Nat, n \in S PROVE n + 1 \in S
  <2> DEFINE g == upTo(n)
             h == [t \in SUBSET (1 .. n + 1) |->
                     IF t \in SUBSET (1 .. n) THEN g[t] ELSE g[t \ {n + 1}] + s[n + 1]]
  <2>1. Is(g, SUBSET (1 .. n)) BY <1>2
  <2> HIDE DEF g
  <2>2. \A t \in SUBSET (1 .. n) : g[t] = V(g, t) BY <2>1
  <2>3. \A t \in SUBSET (1 .. n) : t \in SUBSET (1 .. n + 1) OBVIOUS
  <2>4. \A t \in SUBSET (1 .. n) : h[t] = g[t] BY <2>3
  <2>5. \A t \in SUBSET (1 .. n + 1) : h[t] = V(h, t)
    <3> TAKE t \in SUBSET (1 .. n + 1)
    <3>1. CASE t \in SUBSET (1 .. n)
      <4>1. h[t] = V(g, t) BY <2>2, <2>4, <3>1
      <4>2. t \ {Max(t)} \in SUBSET (1 .. n) BY <3>1
      <4>3. h[t \ {Max(t)}] = g[t \ {Max(t)}] BY <2>4, <4>2
      <4> HIDE DEF h
      <4> QED BY <4>1, <4>3
    <3>2. CASE t \notin SUBSET (1 .. n)
      <4>1. n + 1 \in t /\ t \ {n + 1} \in SUBSET (1 .. n) /\ t # {} BY <3>2
      <4>2. Max(t) = n + 1 BY <4>1, LastIsMax
      <4>3. h[t] = g[t \ {n + 1}] + s[n + 1] BY <3>2
      <4>4. h[t \ {n + 1}] = g[t \ {n + 1}] BY <2>4, <4>1
      <4> HIDE DEF h
      <4> QED BY <4>1, <4>2, <4>3, <4>4
    <3> QED BY <3>1, <3>2
  <2>6. Is(h, SUBSET (1 .. n + 1))
    <3>1. h = [t \in SUBSET (1 .. n + 1) |-> h[t]] OBVIOUS
    <3> HIDE DEF h, V
    <3>2. [t \in SUBSET (1 .. n + 1) |-> h[t]] = [t \in SUBSET (1 .. n + 1) |-> V(h, t)] BY <2>5
    <3> QED BY <3>1, <3>2
  <2> HIDE DEF h, Is
  <2>7. Is(upTo(n + 1), SUBSET (1 .. n + 1)) BY <2>6
  <2> HIDE DEF upTo
  <2> QED BY <2>7
<1>3. Nat \subseteq S BY <1>1, <1>2, Induct
<1>4. Partial(s) = upTo(Len(s))
  <2>1. DOMAIN s = 1 .. Len(s) OBVIOUS
  <2> QED BY <2>1 DEF Partial
<1>5. Is(Partial(s), SUBSET (1 .. Len(s)))
  <2>1. Len(s) \in Nat OBVIOUS
  <2> HIDE DEF Is, upTo
  <2> QED BY <1>3, <1>4, <2>1
<1>6. \A t \in SUBSET (1 .. Len(s)) : Partial(s)[t] = V(Partial(s), t) BY <1>5
<1>7. Partial(s)[{}] = 0 BY <1>6
<1>8. ASSUME NEW k \in Nat, k < Len(s)
      PROVE  Partial(s)[1 .. k + 1] = Partial(s)[1 .. k] + s[k + 1]
  <2>1. 1 .. k + 1 \in SUBSET (1 .. Len(s)) BY <1>8
  <2>2. (1 .. k + 1) \ {k + 1} = 1 .. k /\ k + 1 \in 1 .. k + 1 OBVIOUS
  <2>3. Max(1 .. k + 1) = k + 1 BY <2>2, LastIsMax
  <2>4. Partial(s)[1 .. k + 1] = V(Partial(s), 1 .. k + 1) BY <1>6, <2>1
  <2>5. 1 .. k + 1 # {} BY <2>2
  <2> QED BY <2>2, <2>3, <2>4, <2>5
<1> QED BY <1>7, <1>8

LEMMA SizeOfNone == Size(<<>>) = 0
<1>1. DOMAIN <<>> = {} OBVIOUS
<1>2. <<>> \in Seq(Nat) OBVIOUS
<1> QED BY <1>1, <1>2, SizeIs, PartialIs

LEMMA SizeOfMore ==
  ASSUME NEW s \in Seq(Nat), NEW x \in Nat
  PROVE  Size(Append(s, x)) = Size(s) + x
<1> DEFINE more == Append(s, x)
           A == {k \in Nat : k <= Len(s) => Partial(more)[1 .. k] = Partial(s)[1 .. k]}
<1>1. more \in Seq(Nat) /\ Len(more) = Len(s) + 1 /\ more[Len(s) + 1] = x
      /\ \A k \in 1 .. Len(s) : more[k] = s[k]
  OBVIOUS
<1> HIDE DEF more
<1>2. 0 \in A
  <2>1. 1 .. 0 = {} OBVIOUS
  <2>2. Partial(more)[{}] = 0 /\ Partial(s)[{}] = 0 BY <1>1, PartialIs
  <2> QED BY <2>1, <2>2
<1>3. ASSUME NEW k \in Nat, k \in A PROVE k + 1 \in A
  <2> SUFFICES ASSUME k + 1 <= Len(s)
               PROVE  Partial(more)[1 .. k + 1] = Partial(s)[1 .. k + 1]
    OBVIOUS
  <2>1. Partial(more)[1 .. k] = Partial(s)[1 .. k] BY <1>3
  <2>2. k < Len(s) /\ k < Len(more) /\ k + 1 \in 1 .. Len(s) BY <1>1
  <2>3. Partial(more)[1 .. k + 1] = Partial(more)[1 .. k] + more[k + 1] BY <1>1, <2>2, PartialIs
  <2>4. Partial(s)[1 .. k + 1] = Partial(s)[1 .. k] + s[k + 1] BY <2>2, PartialIs
  <2> QED BY <1>1, <2>1, <2>2, <2>3, <2>4
<1>4. Nat \subseteq A BY <1>2, <1>3, Induct
<1>5. Len(s) \in Nat /\ DOMAIN s = 1 .. Len(s) /\ DOMAIN more = 1 .. Len(s) + 1
  BY <1>1
<1>6. Partial(more)[1 .. Len(s)] = Partial(s)[1 .. Len(s)] BY <1>4, <1>5
<1>7. Partial(more)[1 .. Len(s) + 1] = Partial(more)[1 .. Len(s)] + more[Len(s) + 1]
  BY <1>1, <1>5, PartialIs
<1>8. Size(more) = Partial(more)[DOMAIN more] /\ Size(s) = Partial(s)[DOMAIN s] BY SizeIs
<1>9. Size(more) = Size(s) + x BY <1>1, <1>5, <1>6, <1>7, <1>8
<1> QED BY <1>9 DEF more

LEMMA ListInduct ==
  ASSUME NEW E, NEW B, <<>> \in B,
         \A s \in Seq(E) : \A x \in E : s \in B => Append(s, x) \in B
  PROVE  Seq(E) \subseteq B
<1> DEFINE A == {n \in Nat : \A s \in Seq(E) : Len(s) = n => s \in B}
<1>1. 0 \in A
  <2>1. \A s \in Seq(E) : Len(s) = 0 => s = <<>> BY EmptySeq
  <2> QED BY <2>1
<1>2. ASSUME NEW n \in Nat, n \in A PROVE n + 1 \in A
  <2> SUFFICES ASSUME NEW s \in Seq(E), Len(s) = n + 1 PROVE s \in B OBVIOUS
  <2> DEFINE front == SubSeq(s, 1, n)
  <2>1. front \in Seq(E) /\ Len(front) = n /\ s[n + 1] \in E
        /\ \A i \in 1 .. n : front[i] = s[i]
    <3>1. \A i \in 1 .. n : i \in 1 .. Len(s) OBVIOUS
    <3> QED BY <3>1, SubSeqProperties, ElementOfSeq
  <2> HIDE DEF front
  <2>2. s = Append(front, s[n + 1])
    <3>1. Append(front, s[n + 1]) \in Seq(E) /\ Len(Append(front, s[n + 1])) = n + 1 BY <2>1
    <3>2. \A i \in 1 .. n + 1 : s[i] = Append(front, s[n + 1])[i]
      <4> TAKE i \in 1 .. n + 1
      <4>1. CASE i = n + 1 BY <2>1, <4>1
      <4>2. CASE i # n + 1
        <5>1. i \in 1 .. n BY <4>2
        <5> QED BY <2>1, <5>1
      <4> QED BY <4>1, <4>2
    <3> QED BY <3>1, <3>2, SeqEqual
  <2>3. front \in B BY <1>2, <2>1
  <2>4. Append(front, s[n + 1]) \in B BY <2>1, <2>3
  <2> QED BY <2>2, <2>4
<1>3. Nat \subseteq A BY <1>1, <1>2, Induct
<1>4. \A s \in Seq(E) : Len(s) \in Nat OBVIOUS
<1> QED BY <1>3, <1>4

LEMMA AppendOutside ==
  ASSUME NEW s \in Seq(Nat), NEW t \in Seq(Nat), NEW x \in Nat
  PROVE  s \o Append(t, x) = Append(s \o t, x) /\ s \o t \in Seq(Nat)
OBVIOUS

LEMMA SizeIsNatural == \A s \in Seq(Nat) : Size(s) \in Nat
<1> DEFINE B == {s \in Seq(Nat) : Size(s) \in Nat}
<1>1. <<>> \in B BY SizeOfNone
<1>2. \A s \in Seq(Nat) : \A x \in Nat : s \in B => Append(s, x) \in B
  <2> TAKE s \in Seq(Nat)
  <2> TAKE x \in Nat
  <2> HAVE s \in B
  <2>1. Size(Append(s, x)) = Size(s) + x BY SizeOfMore
  <2> QED BY <2>1
<1> HIDE DEF B
<1>3. Seq(Nat) \subseteq B BY <1>1, <1>2, ListInduct
<1> QED BY <1>3 DEF B

LEMMA SizeOfBoth ==
  ASSUME NEW s \in Seq(Nat), NEW t \in Seq(Nat)
  PROVE  Size(s \o t) = Size(s) + Size(t)
<1> DEFINE B == {u \in Seq(Nat) : Size(s \o u) = Size(s) + Size(u)}
<1>1. <<>> \in B
  <2>1. s \o <<>> = s /\ Size(s) \in Nat BY SizeIsNatural
  <2> QED BY <2>1, SizeOfNone
<1>2. \A u \in Seq(Nat) : \A x \in Nat : u \in B => Append(u, x) \in B
  <2> TAKE u \in Seq(Nat)
  <2> TAKE x \in Nat
  <2> HAVE u \in B
  <2>1. s \o Append(u, x) = Append(s \o u, x) /\ s \o u \in Seq(Nat) BY AppendOutside
  <2>2. Size(Append(s \o u, x)) = Size(s \o u) + x BY <2>1, SizeOfMore
  <2>3. Size(Append(u, x)) = Size(u) + x BY SizeOfMore
  <2>4. Size(s) \in Nat /\ Size(u) \in Nat BY SizeIsNatural
  <2>5. Append(u, x) \in Seq(Nat) /\ Size(s \o u) = Size(s) + Size(u) OBVIOUS
  <2>6. Size(s \o Append(u, x)) = Size(s) + Size(Append(u, x)) BY <2>1, <2>2, <2>3, <2>4, <2>5
  <2> QED BY <2>5, <2>6
<1> HIDE DEF B
<1>3. Seq(Nat) \subseteq B BY <1>1, <1>2, ListInduct
<1> QED BY <1>3 DEF B

-----------------------------------------------------------------------------
(* The transcript *)

\* Opaque to the provers, which do not stop rearranging brackets
Join(head, gap, tail) == (head \o gap) \o tail

\* The beginning of the end can be moved to the gap
LEMMA JoinMore ==
  ASSUME NEW s \in Seq(Nat), NEW t \in Seq(Nat), NEW u \in Seq(Nat), NEW v \in Seq(Nat)
  PROVE  Join(s, t, u \o v) = Join(s, t \o u, v)
BY DEF Join

LEMMA JoinAppend ==
  ASSUME NEW s \in Seq(Nat), NEW t \in Seq(Nat), NEW u \in Seq(Nat), NEW x \in Nat
  PROVE  Append(Join(s, t, u), x) = Join(s, t, Append(u, x))
<1>1. s \o t \in Seq(Nat) OBVIOUS
<1> QED BY <1>1, AppendOutside DEF Join

\* What was said is the beginning that is kept, a gap of the lines and bytes that
\* are reported as missing, and the end that is kept
Gap(gap) ==
  /\ gap \in Seq(Nat)
  /\ said = Join(transcript.head, gap, transcript.tail)
  /\ Len(gap) = transcript.lines /\ Size(gap) = transcript.bytes

\* What the file shows is all that was said but a gap; before the first line that does not
\* fit there is none, and the beginning leaves half of the room to the end
TranscriptInv ==
  /\ transcript \in [head: Seq(Nat), tail: Seq(Nat), lines: Nat, bytes: Nat, full: BOOLEAN]
  /\ said \in Seq(Nat)
  /\ \E gap \in Seq(Nat) : Gap(gap)
  /\ Size(transcript.head) <= Budget \div 2
  /\ Size(transcript.head) + Size(transcript.tail) <= Budget
  /\ ~transcript.full => transcript.tail = <<>> /\ transcript.lines = 0

LEMMA HalfIsLess == Budget \div 2 \in Nat /\ Budget \div 2 <= Budget
BY TranscriptAssumption

LEMMA TranscriptStarts == TranscriptInit => TranscriptInv
<1> SUFFICES ASSUME TranscriptInit PROVE TranscriptInv OBVIOUS
<1>1. /\ transcript = [head |-> <<>>, tail |-> <<>>, lines |-> 0, bytes |-> 0, full |-> FALSE]
      /\ said = <<>>
  BY DEF TranscriptInit, EmptyTranscript
<1>2. <<>> \in Seq(Nat) /\ <<>> \o <<>> \o <<>> = <<>> /\ Len(<<>>) = 0 OBVIOUS
<1>3. Gap(<<>>) BY <1>1, <1>2, SizeOfNone DEF Gap, Join
<1>4. transcript \in [head: Seq(Nat), tail: Seq(Nat), lines: Nat, bytes: Nat, full: BOOLEAN]
  BY <1>1, <1>2
<1>5. /\ Size(transcript.head) <= Budget \div 2
      /\ Size(transcript.head) + Size(transcript.tail) <= Budget
  BY <1>1, SizeOfNone, HalfIsLess, TranscriptAssumption
<1>6. said \in Seq(Nat) /\ \E gap \in Seq(Nat) : Gap(gap) BY <1>1, <1>2, <1>3
<1>7. ~transcript.full => transcript.tail = <<>> /\ transcript.lines = 0 BY <1>1
<1> QED BY <1>4, <1>5, <1>6, <1>7 DEF TranscriptInv

\* Enough of the tail can be dropped: at worst all of it
LEMMA ExcessIs ==
  ASSUME NEW head \in Seq(Nat), NEW tail \in Seq(Nat), Size(head) <= Budget
  PROVE  LET n == Excess(head, tail)
         IN  n \in 0 .. Len(tail) /\ Size(head) + Size(SubSeq(tail, n + 1, Len(tail))) <= Budget
<1> DEFINE Rest(n) == Size(head) + Size(SubSeq(tail, n + 1, Len(tail)))
           T == {n \in Nat : n <= Len(tail) /\ Rest(n) <= Budget}
<1>1. Len(tail) \in T
  <2>1. SubSeq(tail, Len(tail) + 1, Len(tail)) = <<>> BY SubSeqEmpty
  <2>2. Size(head) \in Nat BY SizeIsNatural
  <2>3. Rest(Len(tail)) <= Budget
    <3>1. Size(SubSeq(tail, Len(tail) + 1, Len(tail))) = 0 BY <2>1, SizeOfNone
    <3>2. Rest(Len(tail)) = Size(head) + 0 BY <3>1
    <3> HIDE DEF Rest
    <3> QED BY <2>2, <3>2, TranscriptAssumption
  <2>4. Len(tail) \in Nat OBVIOUS
  <2> HIDE DEF Rest
  <2> QED BY <2>3, <2>4
<1>2. \A m \in 0 .. Len(tail) : Rest(m) \in Nat
  <2> TAKE m \in 0 .. Len(tail)
  <2>1. SubSeq(tail, m + 1, Len(tail)) \in Seq(Nat) BY SubSeqProperties
  <2>2. Size(SubSeq(tail, m + 1, Len(tail))) \in Nat BY <2>1, SizeIsNatural
  <2>3. Size(head) \in Nat BY SizeIsNatural
  <2> QED BY <2>2, <2>3
<1> HIDE DEF Rest
<1>3. PICK n \in T : \A m \in T : n <= m BY <1>1, LeastOf
<1>4. n \in 0 .. Len(tail) /\ Rest(n) <= Budget BY <1>3
<1>5. \A m \in 0 .. n - 1 : Rest(m) > Budget
  <2> TAKE m \in 0 .. n - 1
  <2>1. m \in Nat /\ m < n /\ m \in 0 .. Len(tail) BY <1>4
  <2>2. m \notin T BY <1>3, <2>1
  <2>3. Rest(m) \in Nat /\ Budget \in Nat BY <1>2, <2>1, TranscriptAssumption
  <2> QED BY <2>1, <2>2, <2>3
<1> DEFINE Fits(k) == Rest(k) <= Budget /\ \A m \in 0 .. k - 1 : Rest(m) > Budget
<1>6. Excess(head, tail) = CHOOSE k \in 0 .. Len(tail) : Fits(k) BY DEF Excess, Rest
<1>7. Fits(n) BY <1>4, <1>5
<1> HIDE DEF Fits
<1>8. Excess(head, tail) \in 0 .. Len(tail) /\ Fits(Excess(head, tail)) BY <1>4, <1>6, <1>7
<1> QED BY <1>8 DEF Fits, Rest

\* What is dropped of the tail widens the gap
Widens(head, gap, tail, n) ==
  \E cut, rest, more \in Seq(Nat) :
    /\ cut = SubSeq(tail, 1, n) /\ rest = SubSeq(tail, n + 1, Len(tail))
    /\ Size(more) = Size(gap) + Size(cut)
    /\ Join(head, gap, tail) = Join(head, more, rest)
    /\ Len(more) = Len(gap) + n

LEMMA GapGrows ==
  ASSUME NEW head \in Seq(Nat), NEW gap \in Seq(Nat), NEW tail \in Seq(Nat), NEW n \in Nat,
         n <= Len(tail)
  PROVE  Widens(head, gap, tail, n)
<1>1. PICK cut \in Seq(Nat) : cut = SubSeq(tail, 1, n) /\ Len(cut) = n
  <2>1. \A i \in 1 .. n : tail[i] \in Nat
    <3>1. \A i \in 1 .. n : i \in 1 .. Len(tail) OBVIOUS
    <3> QED BY <3>1, ElementOfSeq
  <2>2. SubSeq(tail, 1, n) \in Seq(Nat) /\ Len(SubSeq(tail, 1, n)) = n
    BY <2>1, SubSeqProperties
  <2> QED BY <2>2
<1>2. PICK rest \in Seq(Nat) : rest = SubSeq(tail, n + 1, Len(tail))
  <2>1. \A i \in n + 1 .. Len(tail) : tail[i] \in Nat
    <3>1. \A i \in n + 1 .. Len(tail) : i \in 1 .. Len(tail) OBVIOUS
    <3> QED BY <3>1, ElementOfSeq
  <2>2. n + 1 \in Int /\ Len(tail) \in Int OBVIOUS
  <2> QED BY <2>1, <2>2, SubSeqProperties
<1>3. tail = cut \o rest
  <2>1. SubSeq(tail, 1, Len(tail)) = tail BY SubSeqFull
  <2>2. 1 \in 1 .. Len(tail) + 1 /\ n \in 1 - 1 .. Len(tail) /\ Len(tail) \in n .. Len(tail)
    OBVIOUS
  <2> QED BY <1>1, <1>2, <2>1, <2>2, ConcatAdjacentSubSeq
<1>4. gap \o cut \in Seq(Nat) /\ Len(gap \o cut) = Len(gap) + Len(cut) OBVIOUS
<1>5. PICK more \in Seq(Nat) : more = gap \o cut BY <1>4
<1>6. Join(head, gap, tail) = Join(head, more, rest) BY <1>3, <1>5, JoinMore
<1>7. Len(more) = Len(gap) + n BY <1>1, <1>4, <1>5
<1>8. Size(more) = Size(gap) + Size(cut) BY <1>5, SizeOfBoth
<1> QED BY <1>1, <1>2, <1>6, <1>7, <1>8 DEF Widens

LEMMA SayLineStep == TranscriptInv /\ SayLine => TranscriptInv'
<1> SUFFICES ASSUME TranscriptInv, SayLine PROVE TranscriptInv' OBVIOUS
<1> DEFINE t == transcript
<1>1. PICK line \in Nat : transcript' = Keep(transcript, line) /\ said' = Append(said, line)
  BY TranscriptAssumption DEF SayLine
<1>2. PICK gap \in Seq(Nat) : Gap(gap) BY DEF TranscriptInv
<1>3. /\ t.head \in Seq(Nat) /\ t.tail \in Seq(Nat) /\ t.lines \in Nat /\ t.bytes \in Nat
      /\ t.full \in BOOLEAN
      /\ t = [head |-> t.head, tail |-> t.tail, lines |-> t.lines, bytes |-> t.bytes,
              full |-> t.full]
      /\ said \in Seq(Nat) /\ said' \in Seq(Nat)
  BY <1>1 DEF TranscriptInv
<1>4. /\ Size(t.head) <= Budget \div 2 /\ Size(t.head) + Size(t.tail) <= Budget
      /\ Size(t.head) \in Nat /\ Size(t.tail) \in Nat
  BY <1>3, SizeIsNatural DEF TranscriptInv
<1>5. said = Join(t.head, gap, t.tail) /\ Len(gap) = t.lines /\ Size(gap) = t.bytes
  BY <1>2 DEF Gap
<1>6. CASE ~t.full /\ Size(t.head) + line <= Budget \div 2
  <2>1. t.tail = <<>> /\ t.lines = 0 /\ gap = <<>>
    <3>1. t.tail = <<>> /\ t.lines = 0 BY <1>6 DEF TranscriptInv
    <3> QED BY <3>1, <1>5, EmptySeq
  <2> DEFINE head == Append(t.head, line)
  <2>2. transcript' = [head |-> head, tail |-> t.tail, lines |-> t.lines, bytes |-> t.bytes,
                       full |-> t.full]
    BY <1>1, <1>3, <1>6 DEF Keep
  <2>3. head \in Seq(Nat) /\ said' = Join(head, <<>>, <<>>) /\ <<>> \in Seq(Nat)
    <3>1. said = t.head BY <1>3, <1>5, <2>1, ConcatEmptySeq DEF Join
    <3> QED BY <1>1, <1>3, <3>1, ConcatEmptySeq DEF Join
  <2>4. Size(head) <= Budget \div 2 BY <1>3, <1>6, SizeOfMore
  <2>5. Gap(<<>>)' BY <1>5, <2>1, <2>2, <2>3 DEF Gap
  <2>6. Size(head) + Size(t.tail) <= Budget
    <3>1. Size(head) \in Nat BY <2>3, SizeIsNatural
    <3> QED BY <2>1, <2>4, <3>1, SizeOfNone, HalfIsLess, TranscriptAssumption
  <2> HIDE DEF head
  <2>7. transcript' \in [head: Seq(Nat), tail: Seq(Nat), lines: Nat, bytes: Nat, full: BOOLEAN]
    BY <1>3, <2>2, <2>3
  <2>8. /\ Size(transcript'.head) <= Budget \div 2
        /\ Size(transcript'.head) + Size(transcript'.tail) <= Budget
        /\ transcript'.tail = <<>> /\ transcript'.lines = 0
    BY <2>1, <2>2, <2>4, <2>6
  <2>9. <<>> \in Seq(Nat) BY <2>3
  <2> QED BY <1>3, <2>5, <2>7, <2>8, <2>9 DEF TranscriptInv
<1>7. CASE ~(~t.full /\ Size(t.head) + line <= Budget \div 2)
  <2> DEFINE tail == Append(t.tail, line)
             n == Excess(t.head, tail)
  <2>1. tail \in Seq(Nat) /\ Len(tail) \in Nat BY <1>3
  <2>2. Size(t.head) <= Budget BY <1>4, HalfIsLess, TranscriptAssumption
  <2>3. n \in 0 .. Len(tail) /\ Size(t.head) + Size(SubSeq(tail, n + 1, Len(tail))) <= Budget
    <3> HIDE DEF tail
    <3> QED BY <1>3, <2>1, <2>2, ExcessIs
  <2>4. said' = Join(t.head, gap, tail)
    <3>1. t.head \in Seq(Nat) /\ t.tail \in Seq(Nat) BY <1>3
    <3>2. said = Join(t.head, gap, t.tail) /\ said' = Append(said, line) BY <1>1, <1>5
    <3>3. Append(Join(t.head, gap, t.tail), line) = Join(t.head, gap, Append(t.tail, line))
      BY <3>1, JoinAppend, Zenon
    <3> QED BY <3>2, <3>3, Zenon
  <2>5. transcript' = [head |-> t.head, tail |-> SubSeq(tail, n + 1, Len(tail)),
                       lines |-> t.lines + n, bytes |-> t.bytes + Size(SubSeq(tail, 1, n)),
                       full |-> TRUE]
    BY <1>1, <1>3, <1>7 DEF Keep
  <2> HIDE DEF n, tail
  <2>6. n \in Nat /\ n <= Len(tail) BY <2>1, <2>3
  <2>7. PICK cut, rest, more \in Seq(Nat) :
          /\ cut = SubSeq(tail, 1, n) /\ rest = SubSeq(tail, n + 1, Len(tail))
          /\ Size(more) = Size(gap) + Size(cut)
          /\ Join(t.head, gap, tail) = Join(t.head, more, rest)
          /\ Len(more) = Len(gap) + n
    <3>1. t.head \in Seq(Nat) BY <1>3
    <3>2. tail \in Seq(Nat) BY <2>1
    <3>3. n \in Nat /\ n <= Len(tail) BY <2>6
    <3>4. Widens(t.head, gap, tail, n) BY <3>1, <3>2, <3>3, GapGrows, Zenon
    <3> QED BY <3>4 DEF Widens
  <2>8. transcript' = [head |-> t.head, tail |-> rest, lines |-> t.lines + n,
                       bytes |-> t.bytes + Size(cut), full |-> TRUE]
    BY <2>5, <2>7
  <2>9. Gap(more)'
    <3>1. Size(more) = Size(gap) + Size(cut) BY <2>7
    <3>2. said' = Join(t.head, more, rest) BY <2>4, <2>7
    <3>3. /\ transcript'.head = t.head /\ transcript'.tail = rest
          /\ transcript'.lines = t.lines + n /\ transcript'.bytes = t.bytes + Size(cut)
      BY <2>8
    <3>4. said' = Join(transcript'.head, more, transcript'.tail) BY <3>2, <3>3
    <3>5. Len(more) = transcript'.lines /\ Size(more) = transcript'.bytes
      BY <1>5, <2>7, <3>1, <3>3
    <3> QED BY <3>4, <3>5 DEF Gap
  <2>10. transcript' \in [head: Seq(Nat), tail: Seq(Nat), lines: Nat, bytes: Nat, full: BOOLEAN]
    <3>1. Size(cut) \in Nat BY SizeIsNatural
    <3> QED BY <1>3, <2>6, <2>8, <3>1
  <2>11. /\ Size(transcript'.head) <= Budget \div 2
         /\ Size(transcript'.head) + Size(transcript'.tail) <= Budget
         /\ transcript'.full
    BY <1>4, <2>3, <2>7, <2>8
  <2> QED BY <1>3, <2>9, <2>10, <2>11 DEF TranscriptInv
<1> QED BY <1>6, <1>7

LEMMA BeginningIsPrefix ==
  ASSUME NEW a \in Seq(Nat), NEW b \in Seq(Nat) PROVE IsPrefix(a, a \o b)
<1>1. Len(a) <= Len(a \o b) /\ Len(a) \in Nat OBVIOUS
<1>2. SubSeq(a, 1, Len(a)) = a BY SubSeqFull
<1>3. SubSeq(a \o b, 1, Len(a)) = a BY SubSeqOfConcat1, SubSeqFull
<1> QED BY <1>1, <1>2, <1>3 DEF IsPrefix

LEMMA BackwardsIs ==
  ASSUME NEW a \in Seq(Nat)
  PROVE  Reverse(a) \in Seq(Nat) /\ Len(Reverse(a)) = Len(a)
         /\ \A i \in 1 .. Len(a) : Reverse(a)[i] = a[(Len(a) - i) + 1]
<1>1. \A i \in 1 .. Len(a) : (Len(a) - i) + 1 \in 1 .. Len(a) OBVIOUS
<1>2. \A i \in 1 .. Len(a) : a[(Len(a) - i) + 1] \in Nat BY <1>1, ElementOfSeq
<1>3. Len(a) \in Nat OBVIOUS
<1>4. Reverse(a) \in [1 .. Len(a) -> Nat] BY <1>2 DEF Reverse
<1> QED BY <1>3, <1>4 DEF Reverse

LEMMA EndIsSuffix ==
  ASSUME NEW a \in Seq(Nat), NEW b \in Seq(Nat) PROVE IsSuffix(b, a \o b)
<1> DEFINE all == a \o b
           x == Reverse(b)
           y == Reverse(all)
<1>1. all \in Seq(Nat) /\ Len(all) = Len(a) + Len(b) /\ Len(a) \in Nat /\ Len(b) \in Nat
      /\ \A i \in 1 .. Len(b) : all[Len(a) + i] = b[i]
  BY ConcatProperties
<1> HIDE DEF all
<1>2. x \in Seq(Nat) /\ Len(x) = Len(b) /\ \A i \in 1 .. Len(b) : x[i] = b[(Len(b) - i) + 1]
  BY BackwardsIs
<1>3. y \in Seq(Nat) /\ Len(y) = Len(all)
      /\ \A i \in 1 .. Len(all) : y[i] = all[(Len(all) - i) + 1]
  BY <1>1, BackwardsIs
<1> HIDE DEF x, y
<1>4. \A i \in 1 .. Len(b) : x[i] = y[i]
  <2> TAKE i \in 1 .. Len(b)
  <2>1. (Len(b) - i) + 1 \in 1 .. Len(b) /\ i \in 1 .. Len(all)
        /\ (Len(all) - i) + 1 = Len(a) + ((Len(b) - i) + 1)
    BY <1>1
  <2>2. y[i] = all[Len(a) + ((Len(b) - i) + 1)] BY <1>3, <2>1
  <2> QED BY <1>1, <1>2, <2>1, <2>2
<1>5. SubSeq(x, 1, Len(x)) = x BY <1>2, SubSeqFull
<1>6. SubSeq(y, 1, Len(x)) = x
  <2> DEFINE z == SubSeq(y, 1, Len(x))
  <2>1. \A i \in 1 .. Len(x) : i \in 1 .. Len(y) BY <1>1, <1>2, <1>3
  <2>2. z \in Seq(Nat) /\ Len(z) = Len(x) /\ \A i \in 1 .. Len(x) : z[i] = y[i]
    <3>1. \A i \in 1 .. Len(x) : y[i] \in Nat BY <1>3, <2>1, ElementOfSeq
    <3>2. Len(x) \in Nat BY <1>1, <1>2
    <3> QED BY <3>1, <3>2, SubSeqProperties
  <2> HIDE DEF z
  <2>3. z = x BY <1>2, <1>4, <2>2, SeqEqual
  <2> QED BY <2>3 DEF z
<1>7. Len(x) <= Len(y) BY <1>1, <1>2, <1>3
<1>8. IsPrefix(x, y) BY <1>5, <1>6, <1>7 DEF IsPrefix
<1> QED BY <1>8 DEF IsSuffix, x, y, all

LEMMA TranscriptAddsUp == TranscriptInv => TranscriptIsExact
<1> SUFFICES ASSUME TranscriptInv PROVE TranscriptIsExact OBVIOUS
<1> DEFINE head == transcript.head
           tail == transcript.tail
<1>1. PICK gap \in Seq(Nat) : Gap(gap) BY DEF TranscriptInv
<1>2. head \in Seq(Nat) /\ tail \in Seq(Nat) /\ transcript.lines \in Nat
      /\ Size(head) + Size(tail) <= Budget
  BY DEF TranscriptInv
<1>3. said = head \o gap \o tail /\ Len(gap) = transcript.lines /\ Size(gap) = transcript.bytes
  BY <1>1 DEF Gap, Join
<1> HIDE DEF head, tail
<1>4. Size(head) \in Nat /\ Size(tail) \in Nat /\ Size(gap) \in Nat BY <1>2, SizeIsNatural
<1>5. Size(said) = Size(head) + Size(gap) + Size(tail)
  <2>1. head \o gap \in Seq(Nat) /\ Size(head \o gap) = Size(head) + Size(gap)
    BY <1>2, SizeOfBoth
  <2> QED BY <1>2, <1>3, <2>1, SizeOfBoth
<1>6. Len(said) = Len(head) + Len(gap) + Len(tail) /\ Len(head) \in Nat /\ Len(tail) \in Nat
  BY <1>2, <1>3
<1>7. IsPrefix(head, said)
  <2>1. said = head \o (gap \o tail) /\ gap \o tail \in Seq(Nat) BY <1>2, <1>3, ConcatAssociative
  <2> QED BY <1>2, <2>1, BeginningIsPrefix
<1>8. IsSuffix(tail, said)
  <2>1. head \o gap \in Seq(Nat) BY <1>2
  <2> QED BY <1>2, <1>3, <2>1, EndIsSuffix
<1>9. /\ Written(transcript).before = head /\ Written(transcript).after = tail
      /\ Written(transcript).noticed = (transcript.lines > 0)
  BY DEF Written, head, tail
<1>10. transcript.lines = Len(said) - (Len(head) + Len(tail)) BY <1>2, <1>3, <1>6
<1>11. transcript.bytes = Size(said) - Size(head) - Size(tail) BY <1>3, <1>4, <1>5
<1>12. (transcript.lines > 0) <=> (Len(head) + Len(tail) < Len(said)) BY <1>2, <1>3, <1>6
<1> QED BY <1>2, <1>7, <1>8, <1>9, <1>10, <1>11, <1>12 DEF TranscriptIsExact

\* A transcript is within its limit, is the beginning and the end of what was said, and
\* reports exactly the lines and bytes between them as missing, for every limit and every
\* sequence of lines (_Transcript.append, _Transcript.write).
THEOREM TranscriptAccounts == TranscriptSpec => []TranscriptIsExact
<1>1. TranscriptInit => TranscriptInv BY TranscriptStarts
<1>2. TranscriptInv /\ [SayLine]_transcriptVars => TranscriptInv'
  <2>1. TranscriptInv /\ UNCHANGED transcriptVars => TranscriptInv'
    BY DEF TranscriptInv, transcriptVars, Gap
  <2> QED BY <2>1, SayLineStep
<1>3. TranscriptInv => TranscriptIsExact BY TranscriptAddsUp
<1> QED BY <1>1, <1>2, <1>3, PTL DEF TranscriptSpec

-----------------------------------------------------------------------------
(* Screens: what is retained does not depend on them *)

\* What the loggers keep about a command, on whatever screen
AppFields == {"disclosed", "identified", "models", "noticed", "wrote", "pending", "started"}
ScreenFields == {"verbose", "animated", "enabled", "active", "breaks", "moved"}
LoggerFields ==
  {"closed", "finished", "attached", "phase", "noted", "prepared", "heading", "check", "view", "step"}

\* The form of the state of one screen and of its loggers
IsApp(a) ==
  /\ DOMAIN a = AppFields \cup ScreenFields
                  \cup {"log", "views", "leaf", "complete", "handed", "waiting"}
  /\ DOMAIN a.log = Names /\ DOMAIN a.views = 1 .. MaxAttempts
  /\ DOMAIN a.leaf = {"header", "last"}
  /\ \A n \in Names : DOMAIN a.log[n] = LoggerFields \cup {"spoke"} /\ a.log[n].view \in 0 .. MaxAttempts
  /\ \A i \in 1 .. MaxAttempts : DOMAIN a.views[i] = {"summarized", "liveness"}

\* Two screens on which the same calls retain the same
Alike(a, b) ==
  /\ IsApp(a) /\ IsApp(b)
  /\ \A f \in AppFields : a[f] = b[f]
  /\ \A n \in Names : \A f \in LoggerFields : a.log[n][f] = b.log[n][f]
  /\ \A i \in 1 .. MaxAttempts : a.views[i].summarized = b.views[i].summarized
  /\ a.leaf.header = b.leaf.header

LEMMA AlikeFields ==
  ASSUME NEW a, NEW b, Alike(a, b)
  PROVE  /\ a.disclosed = b.disclosed /\ a.identified = b.identified /\ a.models = b.models
         /\ a.noticed = b.noticed /\ a.pending = b.pending /\ a.started = b.started
         /\ a.wrote = b.wrote /\ a.leaf.header = b.leaf.header
         /\ \A n \in Names :
              LET l == a.log[n]
                  m == b.log[n]
              IN  /\ l.closed = m.closed /\ l.finished = m.finished /\ l.phase = m.phase
                  /\ l.noted = m.noted /\ l.prepared = m.prepared /\ l.heading = m.heading
                  /\ l.check = m.check /\ l.view = m.view /\ l.step = m.step
                  /\ l.view \in 0 .. MaxAttempts
         /\ \A i \in 1 .. MaxAttempts : a.views[i].summarized = b.views[i].summarized
BY DEF Alike, IsApp, AppFields, LoggerFields

\* What only the screen sees may come between
LEMMA AlikeAfter ==
  ASSUME NEW a, NEW b, Alike(a, b), NEW c, Alike(a, c), NEW d, Alike(b, d)
  PROVE  Alike(c, d)
BY DEF Alike

LEMMA ShowIsQuiet ==
  ASSUME NEW a, IsApp(a), NEW lines
  PROVE  Alike(a, Show(a, lines))
BY DEF Alike, IsApp, Show, Disable, AppFields, ScreenFields, LoggerFields

LEMMA ShowActivityIsQuiet == \A a : IsApp(a) => Alike(a, ShowActivity(a))
BY DEF Alike, IsApp, ShowActivity, Animates, Disable, AppFields, ScreenFields, LoggerFields

LEMMA StopActivityIsQuiet == \A a : IsApp(a) => Alike(a, StopActivity(a))
BY DEF Alike, IsApp, StopActivity, Disable, AppFields, ScreenFields, LoggerFields

LEMMA ShowAlike ==
  ASSUME NEW a, NEW b, Alike(a, b), NEW lines
  PROVE  Alike(Show(a, lines), Show(b, lines))
<1>1. IsApp(a) /\ IsApp(b) BY DEF Alike
<1>2. Alike(a, Show(a, lines)) /\ Alike(b, Show(b, lines)) BY <1>1, ShowIsQuiet
<1> QED BY <1>2, AlikeAfter

LEMMA ActivityAlike ==
  ASSUME NEW a, NEW b, Alike(a, b)
  PROVE  /\ Alike(ShowActivity(a), ShowActivity(b)) /\ Alike(StopActivity(a), StopActivity(b))
         /\ \A n \in Names : Alike(StartActivity(a, n), StartActivity(b, n))
<1>1. IsApp(a) /\ IsApp(b) BY DEF Alike
<1>2. Alike(ShowActivity(a), ShowActivity(b)) BY <1>1, ShowActivityIsQuiet, AlikeAfter
<1>3. Alike(StopActivity(a), StopActivity(b)) BY <1>1, StopActivityIsQuiet, AlikeAfter
<1>4. ASSUME NEW n \in Names PROVE Alike(StartActivity(a, n), StartActivity(b, n))
  BY <1>2, AlikeFields DEF StartActivity
<1> QED BY <1>2, <1>3, <1>4

LEMMA RetainAlike ==
  ASSUME NEW a, NEW b, Alike(a, b), NEW n \in Names, NEW lines
  PROVE  Alike(Retain(a, n, lines), Retain(b, n, lines))
BY DEF Alike, IsApp, Retain, AppFields, ScreenFields, LoggerFields

LEMMA PutAlike ==
  ASSUME NEW a, NEW b, Alike(a, b), NEW n \in Names, NEW lines
  PROVE  Alike(Put(a, n, lines), Put(b, n, lines))
BY RetainAlike, ShowAlike DEF Put

-----------------------------------------------------------------------------
(* Every method of a logger retains the same on screens that are alike *)

\* A part of the state that is set to the same value on both
LEMMA SetAppAlike ==
  ASSUME NEW a, NEW b, Alike(a, b), NEW f \in AppFields, NEW v
  PROVE  Alike([a EXCEPT ![f] = v], [b EXCEPT ![f] = v])
BY DEF Alike, IsApp, AppFields, ScreenFields, LoggerFields

LEMMA SetLoggerAlike ==
  ASSUME NEW a, NEW b, Alike(a, b), NEW n \in Names,
         NEW l, DOMAIN l = LoggerFields \cup {"spoke"}, l.view \in 0 .. MaxAttempts,
         NEW m, DOMAIN m = LoggerFields \cup {"spoke"}, \A f \in LoggerFields : l[f] = m[f]
  PROVE  Alike([a EXCEPT !.log = [@ EXCEPT ![n] = l]], [b EXCEPT !.log = [@ EXCEPT ![n] = m]])
<1>1. m.view \in 0 .. MaxAttempts BY DEF LoggerFields
<1> DEFINE c == [a EXCEPT !.log = [@ EXCEPT ![n] = l]]
           d == [b EXCEPT !.log = [@ EXCEPT ![n] = m]]
<1>2. \A f \in AppFields \cup ScreenFields \cup {"views", "leaf"} : c[f] = a[f] /\ d[f] = b[f]
  BY DEF Alike, IsApp, AppFields, ScreenFields
<1>3. /\ c.log = [a.log EXCEPT ![n] = l] /\ d.log = [b.log EXCEPT ![n] = m]
      /\ DOMAIN c = DOMAIN a /\ DOMAIN d = DOMAIN b
  BY DEF Alike, IsApp
<1> HIDE DEF c, d
<1>4. IsApp(c) BY <1>2, <1>3 DEF Alike, IsApp
<1>5. IsApp(d) BY <1>1, <1>2, <1>3 DEF Alike, IsApp
<1>6. ASSUME NEW x \in Names, NEW f \in LoggerFields PROVE c.log[x][f] = d.log[x][f]
  BY <1>3 DEF Alike, IsApp
<1> QED BY <1>2, <1>4, <1>5, <1>6 DEF Alike, c, d

LEMMA SetLogAlike ==
  ASSUME NEW a, NEW b, Alike(a, b), NEW n \in Names, NEW f \in LoggerFields, NEW v,
         f = "view" => v \in 0 .. MaxAttempts
  PROVE  Alike([a EXCEPT !.log[n][f] = v], [b EXCEPT !.log[n][f] = v])
<1> DEFINE l == [a.log[n] EXCEPT ![f] = v]
           m == [b.log[n] EXCEPT ![f] = v]
<1>1. /\ DOMAIN l = LoggerFields \cup {"spoke"} /\ DOMAIN m = LoggerFields \cup {"spoke"}
      /\ l.view \in 0 .. MaxAttempts
  BY DEF Alike, IsApp, LoggerFields
<1>2. \A g \in LoggerFields : l[g] = m[g] BY DEF Alike, IsApp
<1> HIDE DEF l, m
<1>3. Alike([a EXCEPT !.log = [@ EXCEPT ![n] = l]], [b EXCEPT !.log = [@ EXCEPT ![n] = m]])
  BY <1>1, <1>2, SetLoggerAlike
<1> QED BY <1>3 DEF l, m

LEMMA SetViewAlike ==
  ASSUME NEW a, NEW b, Alike(a, b), NEW i \in 1 .. MaxAttempts,
         NEW u, DOMAIN u = {"summarized", "liveness"},
         NEW v, DOMAIN v = {"summarized", "liveness"}, u.summarized = v.summarized
  PROVE  Alike([a EXCEPT !.views = [@ EXCEPT ![i] = u]], [b EXCEPT !.views = [@ EXCEPT ![i] = v]])
<1> DEFINE c == [a EXCEPT !.views = [@ EXCEPT ![i] = u]]
           d == [b EXCEPT !.views = [@ EXCEPT ![i] = v]]
<1>2. \A f \in AppFields \cup ScreenFields \cup {"log", "leaf"} : c[f] = a[f] /\ d[f] = b[f]
  BY DEF Alike, IsApp, AppFields, ScreenFields
<1>3. /\ c.views = [a.views EXCEPT ![i] = u] /\ d.views = [b.views EXCEPT ![i] = v]
      /\ DOMAIN c = DOMAIN a /\ DOMAIN d = DOMAIN b
  BY DEF Alike, IsApp
<1> HIDE DEF c, d
<1>4. IsApp(c) BY <1>2, <1>3 DEF Alike, IsApp
<1>5. IsApp(d) BY <1>2, <1>3 DEF Alike, IsApp
<1>6. ASSUME NEW x \in 1 .. MaxAttempts PROVE c.views[x].summarized = d.views[x].summarized
  BY <1>3 DEF Alike, IsApp
<1> QED BY <1>2, <1>4, <1>5, <1>6 DEF Alike, c, d

LEMMA SetLeafAlike ==
  ASSUME NEW a, NEW b, Alike(a, b), NEW u, NEW v, u.header = v.header,
         DOMAIN u = {"header", "last"}, DOMAIN v = {"header", "last"}
  PROVE  Alike([a EXCEPT !.leaf = u], [b EXCEPT !.leaf = v])
<1> DEFINE c == [a EXCEPT !.leaf = u]
           d == [b EXCEPT !.leaf = v]
<1>1. \A f \in AppFields \cup ScreenFields \cup {"log", "views"} : c[f] = a[f] /\ d[f] = b[f]
  BY DEF Alike, IsApp, AppFields, ScreenFields
<1>2. c.leaf = u /\ d.leaf = v /\ DOMAIN c = DOMAIN a /\ DOMAIN d = DOMAIN b BY DEF Alike, IsApp
<1> HIDE DEF c, d
<1>3. IsApp(c) /\ IsApp(d) BY <1>1, <1>2 DEF Alike, IsApp
<1>4. \A f \in AppFields : c[f] = d[f] BY <1>1 DEF Alike
<1>5. c.log = a.log /\ d.log = b.log /\ c.views = a.views /\ d.views = b.views BY <1>1
<1>6. Alike(c, d) BY <1>2, <1>3, <1>4, <1>5 DEF Alike
<1> QED BY <1>6 DEF c, d

\* What the screen saw last is not compared
LEMMA LivenessIsQuiet ==
  ASSUME NEW a, IsApp(a), NEW i \in 1 .. MaxAttempts, NEW v
  PROVE  Alike(a, [a EXCEPT !.views[i].liveness = v])
<1> DEFINE u == [a.views[i] EXCEPT !.liveness = v]
           c == [a EXCEPT !.views = [@ EXCEPT ![i] = u]]
<1>1. DOMAIN u = {"summarized", "liveness"} /\ u.summarized = a.views[i].summarized BY DEF IsApp
<1> HIDE DEF u
<1>2. \A f \in AppFields \cup ScreenFields \cup {"log", "leaf"} : c[f] = a[f]
  BY DEF IsApp, AppFields, ScreenFields
<1>3. c.views = [a.views EXCEPT ![i] = u] /\ DOMAIN c = DOMAIN a BY DEF IsApp
<1> HIDE DEF c
<1>4. IsApp(c) BY <1>1, <1>2, <1>3 DEF IsApp
<1>5. \A x \in 1 .. MaxAttempts : c.views[x].summarized = a.views[x].summarized BY <1>1, <1>3 DEF IsApp
<1>6. Alike(a, c) BY <1>2, <1>4, <1>5 DEF Alike
<1> QED BY <1>6 DEF c, u

LEMMA SpokeIsQuiet ==
  ASSUME NEW a, IsApp(a), NEW n \in Names, NEW v
  PROVE  Alike(a, [a EXCEPT !.log[n].spoke = v])
<1> DEFINE l == [a.log[n] EXCEPT !.spoke = v]
           c == [a EXCEPT !.log = [@ EXCEPT ![n] = l]]
<1>1. /\ DOMAIN l = LoggerFields \cup {"spoke"}
      /\ \A f \in LoggerFields : l[f] = a.log[n][f]
  BY DEF IsApp, LoggerFields
<1> HIDE DEF l
<1>2. \A f \in AppFields \cup ScreenFields \cup {"views", "leaf"} : c[f] = a[f]
  BY DEF IsApp, AppFields, ScreenFields
<1>3. c.log = [a.log EXCEPT ![n] = l] /\ DOMAIN c = DOMAIN a BY DEF IsApp
<1> HIDE DEF c
<1>4. l.view = a.log[n].view BY <1>1 DEF LoggerFields
<1>5. IsApp(c) BY <1>1, <1>2, <1>3, <1>4 DEF IsApp
<1>6. \A x \in Names : \A f \in LoggerFields : c.log[x][f] = a.log[x][f] BY <1>1, <1>3 DEF IsApp
<1>7. Alike(a, c) BY <1>2, <1>5, <1>6 DEF Alike
<1> QED BY <1>7 DEF c, l

\* Nor is what it says of the contracts of a factory
LEMMA SetFactoryAlike ==
  ASSUME NEW a, NEW b, Alike(a, b), NEW f \in {"complete", "handed", "waiting"}, NEW u, NEW v
  PROVE  Alike([a EXCEPT ![f] = u], [b EXCEPT ![f] = v])
BY DEF Alike, IsApp, AppFields, ScreenFields, LoggerFields

LEMMA ConstantNames ==
  /\ {"disclosed", "identified", "models", "noticed", "wrote", "pending", "started"} \subseteq AppFields
  /\ {"closed", "finished", "attached", "phase", "noted", "prepared", "heading", "check", "view", "step"}
       \subseteq LoggerFields
  /\ "root" \in Names /\ "leaf" \in Names /\ "attempt" \in Names
BY DEF AppFields, LoggerFields, Names

LEMMA FreshIsWhole ==
  \A view \in 0 .. MaxAttempts : \A step :
     /\ DOMAIN FreshLogger(view, step) = LoggerFields \cup {"spoke"}
     /\ FreshLogger(view, step).view \in 0 .. MaxAttempts
BY DEF FreshLogger, LoggerFields

LEMMA NewLeafAlike ==
  ASSUME NEW a, NEW b, Alike(a, b)
  PROVE  Alike(NewLeaf(a), NewLeaf(b))
<1> DEFINE l == FreshLogger(0, TRUE)
           c == [a EXCEPT !.log = [@ EXCEPT !["leaf"] = l]]
           d == [b EXCEPT !.log = [@ EXCEPT !["leaf"] = l]]
           views == [i \in 1 .. MaxAttempts |-> FreshView]
<1>1. 0 \in 0 .. MaxAttempts BY LoggerAssumption
<1>2. DOMAIN l = LoggerFields \cup {"spoke"} /\ l.view \in 0 .. MaxAttempts BY <1>1, FreshIsWhole
<1> HIDE DEF l
<1>3. Alike(c, d) BY <1>2, ConstantNames, SetLoggerAlike
<1>4. NewLeaf(a) = [c EXCEPT !.views = views] /\ NewLeaf(b) = [d EXCEPT !.views = views]
  BY DEF NewLeaf, l
<1> HIDE DEF c, d
<1>5. Alike([c EXCEPT !.views = views], [d EXCEPT !.views = views])
  BY <1>3 DEF Alike, IsApp, FreshView, AppFields, ScreenFields
<1> QED BY <1>4, <1>5

LEMMA NewAttemptAlike ==
  ASSUME NEW a, NEW b, Alike(a, b), NEW n \in Names, NEW index \in 1 .. MaxAttempts
  PROVE  Alike(NewAttempt(a, n, index), NewAttempt(b, n, index))
<1> DEFINE p == Put(a, n, <<Detail("attempt")>>)
           q == Put(b, n, <<Detail("attempt")>>)
           l == FreshLogger(index, a.log[n].step)
           c == [p EXCEPT !.log = [@ EXCEPT !["attempt"] = l]]
           d == [q EXCEPT !.log = [@ EXCEPT !["attempt"] = l]]
<1>1. Alike(p, q) BY PutAlike
<1>2. a.log[n].step = b.log[n].step BY AlikeFields
<1>3. DOMAIN l = LoggerFields \cup {"spoke"} /\ l.view \in 0 .. MaxAttempts
  BY LoggerAssumption, FreshIsWhole
<1>4. /\ NewAttempt(a, n, index) = [c EXCEPT !.views = [@ EXCEPT ![index] = FreshView]]
      /\ NewAttempt(b, n, index) = [d EXCEPT !.views = [@ EXCEPT ![index] = FreshView]]
  BY <1>2 DEF NewAttempt
<1> HIDE DEF p, q, l
<1>5. Alike(c, d) BY <1>1, <1>3, ConstantNames, SetLoggerAlike
<1> HIDE DEF c, d
<1>6. DOMAIN FreshView = {"summarized", "liveness"} BY DEF FreshView
<1> QED BY <1>4, <1>5, <1>6, SetViewAlike

LEMMA AttachAlike ==
  ASSUME NEW a, NEW b, Alike(a, b), NEW n \in Names
  PROVE  Alike(Attach(a, n), Attach(b, n))
BY SetLogAlike, ConstantNames DEF Attach

LEMMA FlushCheckAlike ==
  ASSUME NEW a, NEW b, Alike(a, b), NEW n \in Names, NEW observed
  PROVE  Alike(FlushCheck(a, n, observed), FlushCheck(b, n, observed))
<1> DEFINE c == [a EXCEPT !.log[n].check = "none"]
           d == [b EXCEPT !.log[n].check = "none"]
<1>1. Alike(c, d) BY SetLogAlike, ConstantNames
<1>2. a.log[n].check = b.log[n].check BY AlikeFields
<1> HIDE DEF c, d
<1>3. Alike(Put(c, n, <<Seen("unobserved")>>), Put(d, n, <<Seen("unobserved")>>)) BY <1>1, PutAlike
<1> QED BY <1>1, <1>2, <1>3 DEF FlushCheck, c, d

LEMMA CloseAlike ==
  ASSUME NEW a, NEW b, Alike(a, b), NEW n \in Names
  PROVE  Alike(Close(a, n), Close(b, n))
<1> DEFINE c == [a EXCEPT !.log[n].closed = TRUE]
           d == [b EXCEPT !.log[n].closed = TRUE]
<1>1. Alike(c, d) BY SetLogAlike, ConstantNames
<1>2. a.log[n].closed = b.log[n].closed BY AlikeFields
<1> HIDE DEF c, d
<1>3. Alike(StopActivity(c), StopActivity(d)) BY <1>1, ActivityAlike
<1>4. Alike(FlushCheck(StopActivity(c), n, FALSE), FlushCheck(StopActivity(d), n, FALSE))
  BY <1>3, FlushCheckAlike
<1> QED BY <1>2, <1>4 DEF Close, c, d

LEMMA SummarizeAlike ==
  ASSUME NEW a, NEW b, Alike(a, b), NEW n \in Names
  PROVE  Alike(Summarize(a, n), Summarize(b, n))
<1> DEFINE view == a.log[n].view
<1>1. view = b.log[n].view /\ view \in 0 .. MaxAttempts BY AlikeFields
<1>2. CASE view = 0
  BY <1>1, <1>2 DEF Summarize
<1>3. CASE view # 0
  <2> DEFINE u == [a.views[view] EXCEPT !.summarized = TRUE]
             v == [b.views[view] EXCEPT !.summarized = TRUE]
             c == [a EXCEPT !.views = [@ EXCEPT ![view] = u]]
             d == [b EXCEPT !.views = [@ EXCEPT ![view] = v]]
  <2>1. view \in 1 .. MaxAttempts BY <1>1, <1>3, LoggerAssumption
  <2>2. a.views[view].summarized = b.views[view].summarized BY <2>1, AlikeFields
  <2>3. /\ Summarize(a, n) = IF a.views[view].summarized THEN a ELSE Put(c, n, <<Seen("attempt line")>>)
        /\ Summarize(b, n) = IF b.views[view].summarized THEN b ELSE Put(d, n, <<Seen("attempt line")>>)
    BY <1>1, <1>3 DEF Summarize
  <2>4. /\ DOMAIN u = {"summarized", "liveness"} /\ DOMAIN v = {"summarized", "liveness"}
        /\ u.summarized = v.summarized
    BY <2>1 DEF Alike, IsApp
  <2> HIDE DEF view, u, v
  <2>5. Alike(c, d) BY <2>1, <2>4, SetViewAlike
  <2> HIDE DEF c, d
  <2>6. Alike(Put(c, n, <<Seen("attempt line")>>), Put(d, n, <<Seen("attempt line")>>)) BY <2>5, PutAlike
  <2> QED BY <2>2, <2>3, <2>6
<1> QED BY <1>2, <1>3

LEMMA DiscloseAlike ==
  ASSUME NEW a, NEW b, Alike(a, b), NEW n \in Names
  PROVE  Alike(Disclose(a, n), Disclose(b, n))
<1>1. Alike([a EXCEPT !.disclosed = TRUE], [b EXCEPT !.disclosed = TRUE]) BY SetAppAlike, ConstantNames
<1>2. a.disclosed = b.disclosed BY AlikeFields
<1> QED BY <1>1, <1>2, PutAlike DEF Disclose

LEMMA ChecksHeadingAlike ==
  ASSUME NEW a, NEW b, Alike(a, b), NEW n \in Names
  PROVE  Alike(ChecksHeading(a, n), ChecksHeading(b, n))
<1>1. Alike([a EXCEPT !.log[n].heading = TRUE], [b EXCEPT !.log[n].heading = TRUE])
  BY SetLogAlike, ConstantNames
<1>2. a.log[n].heading = b.log[n].heading BY AlikeFields
<1> QED BY <1>1, <1>2, PutAlike DEF ChecksHeading

LEMMA PreparationAlike ==
  ASSUME NEW a, NEW b, Alike(a, b), NEW n \in Names, NEW event
  PROVE  /\ Alike(Installing(a, n, event), Installing(b, n, event))
         /\ Alike(Installed(a, n), Installed(b, n))
         /\ Alike(ApmOutput(a, n, event), ApmOutput(b, n, event))
<1>1. Alike(Installing(a, n, event), Installing(b, n, event))
  <2> DEFINE started(x) == StartActivity(Put(x, n, <<Both("installing")>>), n)
             c == started(a)
             d == started(b)
             prepared(x) == [x EXCEPT !.log[n].prepared = TRUE]
             lines == When(~a.log[n].prepared, <<Both("temporary workspace")>>)
  <2>1. a.log[n].prepared = b.log[n].prepared BY AlikeFields
  <2>2. Alike(c, d) BY PutAlike, ActivityAlike
  <2> HIDE DEF started, c, d
  <2>3. Alike(prepared(c), prepared(d)) BY <2>2, SetLogAlike, ConstantNames
  <2> HIDE DEF prepared, lines
  <2>4. Alike(Put(prepared(c), n, lines), Put(prepared(d), n, lines)) BY <2>3, PutAlike
  <2> DEFINE rest == When(event.frozen /\ ~event.preview, <<Both("locked")>>)
                       \o <<Detail("running"), Detail("options")>>
  <2>5. /\ Installing(a, n, event) = Put(Put(prepared(c), n, lines), n, rest)
        /\ Installing(b, n, event) = Put(Put(prepared(d), n, lines), n, rest)
    BY <2>1 DEF Installing, prepared, c, d, started, lines
  <2> HIDE DEF rest
  <2> QED BY <2>4, <2>5, PutAlike
<1>2. Alike(Installed(a, n), Installed(b, n))
  BY ActivityAlike, PutAlike DEF Installed
<1> QED BY <1>1, <1>2, PutAlike DEF ApmOutput

\* Methods that only add lines, the same on every screen
LEMMA LinesAlike ==
  ASSUME NEW a, NEW b, Alike(a, b), NEW n \in Names
  PROVE  /\ \A some : Alike(Imports(a, n, some), Imports(b, n, some))
         /\ \A handed : Alike(InputCaptured(a, n, handed), InputCaptured(b, n, handed))
         /\ Alike(WorkspaceCaptured(a, n), WorkspaceCaptured(b, n))
         /\ Alike(NativeDebug(a, n), NativeDebug(b, n))
         /\ Alike(SkillLoaded(a, n), SkillLoaded(b, n))
         /\ Alike(ProcessStarted(a, n), ProcessStarted(b, n))
         /\ \A confirmed : Alike(StopObserved(a, n, confirmed), StopObserved(b, n, confirmed))
         /\ Alike(RepairBudget(a, n), RepairBudget(b, n))
         /\ Alike(RepairFinished(a, n), RepairFinished(b, n))
         /\ Alike(Tails(a, n), Tails(b, n))
         /\ Alike(FinalLeaf(a, n), FinalLeaf(b, n))
<1>1. \A lines : Alike(Put(a, n, lines), Put(b, n, lines)) BY PutAlike
<1> QED BY <1>1 DEF Imports, InputCaptured, WorkspaceCaptured, NativeDebug, SkillLoaded, ProcessStarted,
          StopObserved, RepairBudget, RepairFinished, Tails, FinalLeaf

LEMMA SelectedAlike ==
  ASSUME NEW a, NEW b, Alike(a, b), NEW n \in Names
  PROVE  Alike(Selected(a, n), Selected(b, n))
<1> DEFINE begun(x) == Put(Disclose(x, n), n, When(x.log[n].prepared, <<Kept("gap")>>))
           viewOf(x) == IF x.log[n].view = 0 THEN 1 ELSE x.log[n].view
           looked(x) == [[x EXCEPT !.log[n].view = viewOf(x)] EXCEPT !.leaf.last = viewOf(x)]
           headed(x) == Put([x EXCEPT !.leaf.header = TRUE], n,
                            When(~x.leaf.header, <<Seen("header")>>))
           told(x) == Put([x EXCEPT !.identified = TRUE], n,
                          When(~x.log[n].step, <<Kept("contract")>>)
                            \o <<Kept("produces"), Kept("needs")>>
                            \o When(~x.identified, <<Kept("harness")>>)
                            \o <<Detail("source"), Detail("run"), Detail("directory")>>)
<1>1. ASSUME NEW x, NEW y, Alike(x, y) PROVE Alike(begun(x), begun(y))
  <2>1. x.log[n].prepared = y.log[n].prepared BY <1>1, AlikeFields
  <2>2. Alike(Disclose(x, n), Disclose(y, n)) BY <1>1, DiscloseAlike
  <2> QED BY <2>1, <2>2, PutAlike
<1>2. ASSUME NEW x, NEW y, Alike(x, y) PROVE Alike(looked(x), looked(y))
  <2> DEFINE v == viewOf(x)
             p == [x EXCEPT !.log[n].view = v]
             q == [y EXCEPT !.log[n].view = v]
  <2>1. viewOf(x) = viewOf(y) /\ v \in 0 .. MaxAttempts BY <1>2, AlikeFields, LoggerAssumption
  <2> HIDE DEF v
  <2>2. Alike(p, q) BY <1>2, <2>1, SetLogAlike, ConstantNames
  <2>3. looked(x) = [p EXCEPT !.leaf.last = v] /\ looked(y) = [q EXCEPT !.leaf.last = v] BY <2>1 DEF v
  <2> HIDE DEF p, q, looked
  <2>4. /\ [p.leaf EXCEPT !.last = v].header = [q.leaf EXCEPT !.last = v].header
        /\ DOMAIN [p.leaf EXCEPT !.last = v] = {"header", "last"}
        /\ DOMAIN [q.leaf EXCEPT !.last = v] = {"header", "last"}
    BY <2>2 DEF Alike, IsApp
  <2> QED BY <2>2, <2>3, <2>4, SetLeafAlike
<1>3. ASSUME NEW x, NEW y, Alike(x, y) PROVE Alike(headed(x), headed(y))
  <2> DEFINE p == [x EXCEPT !.leaf.header = TRUE]
             q == [y EXCEPT !.leaf.header = TRUE]
  <2>1. x.leaf.header = y.leaf.header BY <1>3, AlikeFields
  <2>2. /\ [x.leaf EXCEPT !.header = TRUE].header = [y.leaf EXCEPT !.header = TRUE].header
        /\ DOMAIN [x.leaf EXCEPT !.header = TRUE] = {"header", "last"}
        /\ DOMAIN [y.leaf EXCEPT !.header = TRUE] = {"header", "last"}
    BY <1>3 DEF Alike, IsApp
  <2>4. Alike(p, q) BY <1>3, <2>2, SetLeafAlike
  <2> HIDE DEF p, q
  <2>3. \A lines : Alike(Put(p, n, lines), Put(q, n, lines)) BY <2>4, PutAlike
  <2> QED BY <2>1, <2>3 DEF p, q
<1>4. ASSUME NEW x, NEW y, Alike(x, y) PROVE Alike(told(x), told(y))
  <2> DEFINE p == [x EXCEPT !.identified = TRUE]
             q == [y EXCEPT !.identified = TRUE]
  <2>1. x.identified = y.identified /\ x.log[n].step = y.log[n].step BY <1>4, AlikeFields
  <2>2. Alike(p, q) BY <1>4, SetAppAlike, ConstantNames
  <2> HIDE DEF p, q
  <2>3. \A lines : Alike(Put(p, n, lines), Put(q, n, lines)) BY <2>2, PutAlike
  <2> QED BY <2>1, <2>3 DEF p, q
<1>5. \A x : Selected(x, n) = told(headed(looked(begun(x)))) BY DEF Selected
<1> HIDE DEF begun, looked, headed, told
<1> QED BY <1>1, <1>2, <1>3, <1>4, <1>5

LEMMA PhaseAlike ==
  ASSUME NEW a, NEW b, Alike(a, b), NEW n \in Names, NEW name
  PROVE  Alike(Phase(a, n, name), Phase(b, n, name))
<1> DEFINE begun(x) == [x EXCEPT !.log[n].phase = name]
           headed(x) == IF name = "checks" THEN ChecksHeading(x, n) ELSE x
           shown(x) == Put(IF name = "record" THEN Summarize(StopActivity(x), n) ELSE ShowActivity(x),
                           n, <<Detail(name)>>)
<1>1. Alike(begun(a), begun(b)) BY SetLogAlike, ConstantNames
<1>2. \A x, y : Alike(x, y) => Alike(headed(x), headed(y)) BY ChecksHeadingAlike
<1>3. \A x, y : Alike(x, y) => Alike(shown(x), shown(y))
  BY ActivityAlike, SummarizeAlike, PutAlike
<1>4. \A x : Phase(x, n, name) = IF name = x.log[n].phase THEN x ELSE shown(headed(begun(x)))
  BY DEF Phase
<1>5. a.log[n].phase = b.log[n].phase BY AlikeFields
<1> HIDE DEF begun, headed, shown
<1>6. Alike(shown(headed(begun(a))), shown(headed(begun(b)))) BY <1>1, <1>2, <1>3
<1> QED BY <1>4, <1>5, <1>6

LEMMA ActivityLineAlike ==
  ASSUME NEW a, NEW b, Alike(a, b), NEW n \in Names, NEW event
  PROVE  Alike(Activity(a, n, event), Activity(b, n, event))
<1> DEFINE told(x) == IF x.log[n].check # "lines" THEN Put(x, n, <<Extra("stdout")>>) ELSE x
           c == told(a)
           d == told(b)
<1>1. Alike(c, d) BY AlikeFields, PutAlike
<1>2. /\ HearCheck(a, n) = [c EXCEPT !.log[n].check = "lines"]
      /\ HearCheck(b, n) = [d EXCEPT !.log[n].check = "lines"]
  BY DEF HearCheck
<1> HIDE DEF told, c, d
<1>3. Alike([c EXCEPT !.log[n].check = "lines"], [d EXCEPT !.log[n].check = "lines"])
  BY <1>1, SetLogAlike, ConstantNames
<1> QED BY <1>2, <1>3, PutAlike DEF Activity

LEMMA MetadataAlike ==
  ASSUME NEW a, NEW b, Alike(a, b), NEW n \in Names, NEW model
  PROVE  Alike(Metadata(a, n, model), Metadata(b, n, model))
<1> DEFINE v == a.models \/ model
           p == [a EXCEPT !.models = v]
           q == [b EXCEPT !.models = v]
<1>1. a.models = b.models BY AlikeFields
<1>2. Alike(p, q) BY SetAppAlike, ConstantNames
<1>3. p = [a EXCEPT !.models = @ \/ model] /\ q = [b EXCEPT !.models = @ \/ model] BY <1>1, Zenon
<1> HIDE DEF p, q
<1>4. \A lines : Alike(Put(p, n, lines), Put(q, n, lines)) BY <1>2, PutAlike
<1> QED BY <1>1, <1>3, <1>4 DEF Metadata

LEMMA DiagnosticAlike ==
  ASSUME NEW a, NEW b, Alike(a, b), NEW n \in Names, NEW native
  PROVE  Alike(Diagnostic(a, n, native), Diagnostic(b, n, native))
<1> DEFINE v == a.noticed \/ native
           p == [a EXCEPT !.noticed = v]
           q == [b EXCEPT !.noticed = v]
<1>1. a.noticed = b.noticed BY AlikeFields
<1>2. Alike(p, q) BY SetAppAlike, ConstantNames
<1>3. p = [a EXCEPT !.noticed = @ \/ native] /\ q = [b EXCEPT !.noticed = @ \/ native] BY <1>1, Zenon
<1> HIDE DEF p, q
<1>4. \A lines : Alike(Put(p, n, lines), Put(q, n, lines)) BY <1>2, PutAlike
<1> QED BY <1>1, <1>3, <1>4 DEF Diagnostic

LEMMA StopRequestedAlike ==
  ASSUME NEW a, NEW b, Alike(a, b), NEW n \in Names
  PROVE  Alike(StopRequested(a, n), StopRequested(b, n))
BY ActivityAlike, PutAlike DEF StopRequested

LEMMA CheckStartedAlike ==
  ASSUME NEW a, NEW b, Alike(a, b), NEW n \in Names
  PROVE  Alike(CheckStarted(a, n), CheckStarted(b, n))
<1> DEFINE c == FlushCheck(a, n, FALSE)
           d == FlushCheck(b, n, FALSE)
           p == [c EXCEPT !.log[n].check = "silent"]
           q == [d EXCEPT !.log[n].check = "silent"]
<1>1. Alike(c, d) BY FlushCheckAlike
<1>2. /\ CheckStarted(a, n) = ShowActivity(Put(ChecksHeading(p, n), n, <<Detail("check")>>))
      /\ CheckStarted(b, n) = ShowActivity(Put(ChecksHeading(q, n), n, <<Detail("check")>>))
  BY DEF CheckStarted
<1> HIDE DEF c, d
<1>3. Alike(p, q) BY <1>1, SetLogAlike, ConstantNames
<1> HIDE DEF p, q
<1>4. Alike(ChecksHeading(p, n), ChecksHeading(q, n)) BY <1>3, ChecksHeadingAlike
<1>5. Alike(Put(ChecksHeading(p, n), n, <<Detail("check")>>), Put(ChecksHeading(q, n), n, <<Detail("check")>>))
  BY <1>4, PutAlike
<1> QED BY <1>2, <1>5, ActivityAlike

LEMMA CheckFinishedAlike ==
  ASSUME NEW a, NEW b, Alike(a, b), NEW n \in Names, NEW outcome
  PROVE  Alike(CheckFinished(a, n, outcome), CheckFinished(b, n, outcome))
<1> DEFINE folded(x, text) == IF x.log[n].view # 0 THEN Detail(text) ELSE Both(text)
           lines(x) == <<folded(x, outcome), Detail("exit")>>
                         \o When(outcome = "incomplete", <<folded(x, "why")>>)
                         \o When(outcome # "pass", <<Detail("reason")>>)
<1>1. a.log[n].view = b.log[n].view BY AlikeFields
<1>2. lines(a) = lines(b) BY <1>1
<1>3. \A x : CheckFinished(x, n, outcome) = FlushCheck(Put(x, n, lines(x)), n, TRUE) BY DEF CheckFinished
<1> HIDE DEF lines, folded
<1>4. Alike(Put(a, n, lines(a)), Put(b, n, lines(a))) BY PutAlike
<1> QED BY <1>2, <1>3, <1>4, FlushCheckAlike

\* The clock of what is retained is the same; the clock of the screen is not
LEMMA HeartbeatAlike ==
  ASSUME NEW a, NEW b, Alike(a, b), NEW n \in Names, NEW now_
  PROVE  Alike(Heartbeat(a, n, now_), Heartbeat(b, n, now_))
<1> DEFINE due(x) == now_ - x.log[n].noted >= Beat
           noted(x) == IF due(x) THEN now_ ELSE x.log[n].noted
           beaten(x) == Put([x EXCEPT !.log[n].noted = noted(x)], n, When(due(x), <<Kept("beat")>>))
           sparse(x) == ~x.verbose /\ x.log[n].view # 0
           quiet(x) == IF sparse(x) THEN [beaten(x) EXCEPT !.views[x.log[n].view].liveness = now_]
                       ELSE [beaten(x) EXCEPT !.log[n].spoke = now_]
<1>1. noted(a) = noted(b) /\ due(a) = due(b) BY AlikeFields
<1>2. Alike(beaten(a), beaten(b))
  <2> DEFINE p == [a EXCEPT !.log[n].noted = noted(a)]
             q == [b EXCEPT !.log[n].noted = noted(a)]
             lines == When(due(a), <<Kept("beat")>>)
  <2>1. beaten(a) = Put(p, n, lines) /\ beaten(b) = Put(q, n, lines) BY <1>1
  <2> HIDE DEF noted, due, beaten
  <2>2. Alike(p, q) BY SetLogAlike, ConstantNames
  <2> QED BY <2>1, <2>2, PutAlike
<1>3. ASSUME NEW x, Alike(x, x), Alike(beaten(x), beaten(x))
      PROVE  Alike(beaten(x), Heartbeat(x, n, now_))
  <2> DEFINE p == beaten(x)
             i == x.log[n].view
             still == IF sparse(x) THEN now_ - x.views[i].liveness >= Sparse ELSE now_ - x.log[n].spoke >= Beat
             c == IF sparse(x) THEN [p EXCEPT !.views[i].liveness = now_] ELSE [p EXCEPT !.log[n].spoke = now_]
  <2>1. Heartbeat(x, n, now_) = IF ~x.active /\ still THEN Show(c, <<Seen("still")>>) ELSE p
    BY DEF Heartbeat
  <2>2. sparse(x) => i \in 1 .. MaxAttempts BY <1>3, AlikeFields, LoggerAssumption
  <2>3. IsApp(p) BY <1>3 DEF Alike
  <2> HIDE DEF beaten, p, i, sparse, still
  <2>4. Alike(p, c) BY <2>2, <2>3, LivenessIsQuiet, SpokeIsQuiet
  <2> HIDE DEF c
  <2>5. Alike(c, Show(c, <<Seen("still")>>)) BY <2>4, ShowIsQuiet DEF Alike
  <2>6. Alike(p, Show(c, <<Seen("still")>>)) BY <2>4, <2>5 DEF Alike
  <2>7. Alike(p, p) BY <2>3 DEF Alike
  <2> QED BY <2>1, <2>6, <2>7 DEF p
<1>4. /\ Alike(a, a) /\ Alike(b, b) /\ Alike(beaten(a), beaten(a)) /\ Alike(beaten(b), beaten(b))
  BY <1>2 DEF Alike
<1> HIDE DEF beaten
<1>5. Alike(beaten(a), Heartbeat(a, n, now_)) /\ Alike(beaten(b), Heartbeat(b, n, now_)) BY <1>3, <1>4
<1> QED BY <1>2, <1>5, AlikeAfter

LEMMA ResultAlike ==
  ASSUME NEW a, NEW b, Alike(a, b), NEW n \in Names, NEW complete, NEW index, NEW feeds
  PROVE  Alike(Result(a, n, complete, index, feeds), Result(b, n, complete, index, feeds))
<1> DEFINE begun(x) == [x EXCEPT !.log[n].finished = TRUE]
           over(x) == Summarize(FlushCheck(StopActivity(x), n, FALSE), n)
           inFactory == a.log[n].step
           told(x) == IF ~complete THEN Tails(x, n)
                      ELSE IF inFactory /\ feeds THEN [x EXCEPT !.pending = index]
                      ELSE Put(x, n, <<Seen("outputs")>>)
           done(x) == IF complete /\ inFactory THEN [x EXCEPT !.complete = @ \cup {index}] ELSE x
           recorded(x) == Put(IF inFactory THEN x ELSE FinalLeaf(x, n), n,
                              <<Detail("record file"), Detail("artifact"), Detail("observed model"),
                                Detail("logs"), Detail("sensitive")>>)
<1>1. a.log[n].finished = b.log[n].finished /\ b.log[n].step = inFactory BY AlikeFields
<1>2. /\ Result(a, n, complete, index, feeds)
           = IF a.log[n].finished THEN a ELSE recorded(done(told(over(begun(a)))))
      /\ Result(b, n, complete, index, feeds)
           = IF b.log[n].finished THEN b ELSE recorded(done(told(over(begun(b)))))
  BY <1>1 DEF Result
<1>3. Alike(begun(a), begun(b)) BY SetLogAlike, ConstantNames
<1>4. \A x, y : Alike(x, y) => Alike(over(x), over(y))
  BY ActivityAlike, FlushCheckAlike, SummarizeAlike
<1> HIDE DEF inFactory
<1>5. \A x, y : Alike(x, y) => Alike(told(x), told(y))
  BY LinesAlike, PutAlike, SetAppAlike, ConstantNames
<1>6. \A x, y : Alike(x, y) => Alike(done(x), done(y))
  BY SetFactoryAlike
<1>7. \A x, y : Alike(x, y) => Alike(recorded(x), recorded(y)) BY LinesAlike, PutAlike
<1> HIDE DEF begun, over, told, done, recorded
<1> QED BY <1>1, <1>2, <1>3, <1>4, <1>5, <1>6, <1>7

\* The events of a run
EventKinds ==
  {"activity", "metadata", "debug", "skill", "diagnostic", "process", "stop", "stopped", "selected",
   "input", "workspace", "phase", "check", "checked", "finished", "heartbeat"}

LEMMA HeardAlike ==
  ASSUME NEW a, NEW b, Alike(a, b), NEW n \in Names, NEW event, event.kind \in EventKinds, NEW now_
  PROVE  Alike(Heard(a, n, event, now_), Heard(b, n, event, now_))
<1>1. CASE event.kind = "activity" BY <1>1, ActivityLineAlike DEF Heard
<1>2. CASE event.kind = "metadata" BY <1>2, MetadataAlike DEF Heard
<1>3. CASE event.kind = "debug" BY <1>3, LinesAlike DEF Heard
<1>4. CASE event.kind = "skill" BY <1>4, LinesAlike DEF Heard
<1>5. CASE event.kind = "diagnostic" BY <1>5, DiagnosticAlike DEF Heard
<1>6. CASE event.kind = "process" BY <1>6, LinesAlike DEF Heard
<1>7. CASE event.kind = "stop" BY <1>7, StopRequestedAlike DEF Heard
<1>8. CASE event.kind = "stopped" BY <1>8, LinesAlike DEF Heard
<1>9. CASE event.kind = "selected" BY <1>9, SelectedAlike DEF Heard
<1>10. CASE event.kind = "input" BY <1>10, LinesAlike DEF Heard
<1>11. CASE event.kind = "workspace" BY <1>11, LinesAlike DEF Heard
<1>12. CASE event.kind = "phase" BY <1>12, PhaseAlike DEF Heard
<1>13. CASE event.kind = "check" BY <1>13, CheckStartedAlike DEF Heard
<1>14. CASE event.kind = "checked" BY <1>14, CheckFinishedAlike DEF Heard
<1>15. CASE event.kind = "finished" BY <1>15, ResultAlike DEF Heard
<1>16. CASE event.kind = "heartbeat" BY <1>16, HeartbeatAlike DEF Heard
<1> QED BY <1>1, <1>2, <1>3, <1>4, <1>5, <1>6, <1>7, <1>8, <1>9, <1>10, <1>11, <1>12, <1>13, <1>14,
           <1>15, <1>16 DEF EventKinds

LEMMA OnEventAlike ==
  ASSUME NEW a, NEW b, Alike(a, b), NEW n \in Names, NEW event, event.kind \in EventKinds, NEW now_
  PROVE  Alike(OnEvent(a, n, event, now_), OnEvent(b, n, event, now_))
<1> DEFINE c == Heard(a, n, event, now_)
           d == Heard(b, n, event, now_)
           noted == event.kind \notin {"heartbeat", "metadata", "process"}
           value == IF noted THEN now_ ELSE c.log[n].noted
           p == [c EXCEPT !.log[n].noted = value]
           q == [d EXCEPT !.log[n].noted = value]
           spoke(x, y) == IF event.kind # "heartbeat" /\ x.moved THEN now_ ELSE y.log[n].spoke
<1>1. Alike(c, d) BY HeardAlike
<1>2. c.log[n].noted = d.log[n].noted BY <1>1, AlikeFields
<1>3. /\ OnEvent(a, n, event, now_) = [p EXCEPT !.log[n].spoke = spoke(c, p)]
      /\ OnEvent(b, n, event, now_) = [q EXCEPT !.log[n].spoke = spoke(d, q)]
  BY <1>2 DEF OnEvent
<1> HIDE DEF c, d, value
<1>4. Alike(p, q) BY <1>1, SetLogAlike, ConstantNames
<1> HIDE DEF p, q, spoke
<1>5. IsApp(p) /\ IsApp(q) BY <1>4 DEF Alike
<1>6. /\ Alike(p, [p EXCEPT !.log[n].spoke = spoke(c, p)])
      /\ Alike(q, [q EXCEPT !.log[n].spoke = spoke(d, q)])
  BY <1>5, SpokeIsQuiet
<1> QED BY <1>3, <1>4, <1>6, AlikeAfter

LEMMA PreviewAlike ==
  ASSUME NEW a, NEW b, Alike(a, b)
  PROVE  /\ Alike(FactoryWork(a), FactoryWork(b))
         /\ Alike(Plan(a), Plan(b))
         /\ Alike(ChainPlan(a), ChainPlan(b))
         /\ Alike(Prompt(a), Prompt(b))
         /\ Alike(RenderError(a), RenderError(b))
         /\ Alike(FactoryStarted(a), FactoryStarted(b))
         /\ \A exported : Alike(Receipt(a, exported), Receipt(b, exported))
<1>1. \A x, y, lines : Alike(x, y) => Alike(Put(x, "root", lines), Put(y, "root", lines))
  BY PutAlike, ConstantNames
<1>2. Alike(StopActivity(a), StopActivity(b)) BY ActivityAlike
<1>3. Alike(FactoryWork(a), FactoryWork(b)) BY <1>1, <1>2 DEF FactoryWork
<1>4. Alike(FlushCheck(StopActivity(a), "root", FALSE), FlushCheck(StopActivity(b), "root", FALSE))
  BY <1>2, FlushCheckAlike, ConstantNames
<1>5. Alike(Plan(a), Plan(b)) BY <1>1 DEF Plan
<1>6. Alike(ChainPlan(a), ChainPlan(b)) BY <1>1, <1>3 DEF ChainPlan
<1>7. Alike(Prompt(a), Prompt(b)) BY <1>1 DEF Prompt
<1>8. Alike(RenderError(a), RenderError(b)) BY <1>1, <1>4 DEF RenderError
<1>9. Alike(FactoryStarted(a), FactoryStarted(b)) BY <1>1 DEF FactoryStarted
<1>10. \A exported : Alike(Receipt(a, exported), Receipt(b, exported)) BY <1>1 DEF Receipt
<1> QED BY <1>3, <1>5, <1>6, <1>7, <1>8, <1>9, <1>10

LEMMA FlushHandoffAlike ==
  ASSUME NEW a, NEW b, Alike(a, b), NEW n \in Names, NEW done
  PROVE  Alike(FlushHandoff(a, n, done), FlushHandoff(b, n, done))
<1> DEFINE handed(x) == IF done THEN x.handed \cup {x.pending} ELSE x.handed
           p == [a EXCEPT !.handed = handed(a)]
           q == [b EXCEPT !.handed = handed(b)]
           r == [p EXCEPT !.pending = 0]
           s == [q EXCEPT !.pending = 0]
<1>1. a.pending = b.pending BY AlikeFields
<1>2. /\ FlushHandoff(a, n, done) = IF a.pending = 0 THEN a ELSE Put(r, n, <<Seen("outputs")>>)
      /\ FlushHandoff(b, n, done) = IF b.pending = 0 THEN b ELSE Put(s, n, <<Seen("outputs")>>)
  BY DEF FlushHandoff
<1> HIDE DEF handed
<1>3. Alike(p, q) BY SetFactoryAlike
<1> HIDE DEF p, q
<1>4. Alike(r, s) BY <1>3, SetAppAlike, ConstantNames
<1> HIDE DEF r, s
<1> QED BY <1>1, <1>2, <1>4, PutAlike

LEMMA ChainNodeAlike ==
  ASSUME NEW a, NEW b, Alike(a, b), NEW node_
  PROVE  Alike(ChainNode(a, node_), ChainNode(b, node_))
<1> DEFINE told(x) == Put(FlushHandoff(x, "root", TRUE), "root", <<Kept("contract"), Seen("header")>>)
           c == told(a)
           d == told(b)
           started == c.started \cup {node_}
           p == [c EXCEPT !.started = started]
           q == [d EXCEPT !.started = started]
           leaf == [FreshLeaf EXCEPT !.header = TRUE]
<1>1. Alike(c, d) BY FlushHandoffAlike, PutAlike, ConstantNames
<1>2. c.started = d.started BY <1>1, AlikeFields
<1>3. ChainNode(a, node_) = [p EXCEPT !.leaf = leaf] /\ ChainNode(b, node_) = [q EXCEPT !.leaf = leaf]
  BY <1>2 DEF ChainNode
<1> HIDE DEF c, d, started
<1>4. Alike(p, q) BY <1>1, SetAppAlike, ConstantNames
<1> HIDE DEF p, q
<1>5. DOMAIN leaf = {"header", "last"} BY DEF FreshLeaf
<1> HIDE DEF leaf
<1> QED BY <1>3, <1>4, <1>5, SetLeafAlike

LEMMA ChainStoppedAlike ==
  ASSUME NEW a, NEW b, Alike(a, b), NEW producers
  PROVE  Alike(ChainStopped(a, producers), ChainStopped(b, producers))
<1> DEFINE told(x) == FlushHandoff(Put(StopActivity(x), "root", <<Kept("stopped")>>), "root", FALSE)
           waiting(x) == UNION {producers[n] \ x.complete : n \in Nodes \ x.started}
           c == told(a)
           d == told(b)
           p == [c EXCEPT !.waiting = waiting(c)]
           q == [d EXCEPT !.waiting = waiting(d)]
<1>1. Alike(c, d) BY ActivityAlike, PutAlike, FlushHandoffAlike, ConstantNames
<1>2. c.started = d.started BY <1>1, AlikeFields
<1>3. /\ ChainStopped(a, producers) = Put(p, "root", When(Nodes # c.started, <<Seen("not started")>>))
      /\ ChainStopped(b, producers) = Put(q, "root", When(Nodes # d.started, <<Seen("not started")>>))
  BY Zenon DEF ChainStopped
<1> HIDE DEF c, d, waiting
<1>4. Alike(p, q) BY <1>1, SetFactoryAlike
<1> HIDE DEF p, q
<1> QED BY <1>2, <1>3, <1>4, PutAlike, ConstantNames

LEMMA ChainResultAlike ==
  ASSUME NEW a, NEW b, Alike(a, b), NEW complete
  PROVE  Alike(ChainResult(a, complete), ChainResult(b, complete))
<1>1. \A x, y, lines : Alike(x, y) => Alike(Put(x, "root", lines), Put(y, "root", lines))
  BY PutAlike, ConstantNames
<1>2. Alike(FlushHandoff(StopActivity(a), "root", complete), FlushHandoff(StopActivity(b), "root", complete))
  BY ActivityAlike, FlushHandoffAlike, ConstantNames
<1> QED BY <1>1, <1>2 DEF ChainResult

-----------------------------------------------------------------------------
(* Every call retains the same on every screen *)

AllAlike == \A s, t \in Screens : Alike(screen[s], screen[t])

ScreenInv == agree /\ AllAlike /\ attempt \in 0 .. MaxAttempts

\* A screen as a call finds it, and what becomes of the screens after it
Faced(broken, s) == [screen[s] EXCEPT !.breaks = s \in broken]
Answered(shown) ==
  /\ screen' = [s \in Screens |-> [shown[s] EXCEPT !.breaks = FALSE, !.moved = FALSE, !.wrote = <<>>]]
  /\ agree' = \A s, t \in Screens : shown[s].wrote = shown[t].wrote

LEMMA FacedAlike ==
  ASSUME AllAlike, NEW broken
  PROVE  \A s, t \in Screens : Alike(Faced(broken, s), Faced(broken, t))
BY DEF AllAlike, Faced, Alike, IsApp, AppFields, ScreenFields

\* Between two calls
AtRest(a) == [a EXCEPT !.breaks = FALSE, !.moved = FALSE, !.wrote = <<>>]

LEMMA AtRestAlike ==
  ASSUME NEW a, NEW b, Alike(a, b)
  PROVE  Alike(AtRest(a), AtRest(b))
<1> DEFINE c == [[a EXCEPT !.breaks = FALSE] EXCEPT !.moved = FALSE]
           d == [[b EXCEPT !.breaks = FALSE] EXCEPT !.moved = FALSE]
<1>1. Alike(c, d) BY DEF Alike, IsApp, AppFields, ScreenFields
<1> HIDE DEF c, d
<1>2. Alike([c EXCEPT !.wrote = <<>>], [d EXCEPT !.wrote = <<>>]) BY <1>1, SetAppAlike, ConstantNames
<1> QED BY <1>2 DEF AtRest, c, d

LEMMA AnsweredAgrees ==
  ASSUME NEW shown, Answered(shown), \A s, t \in Screens : Alike(shown[s], shown[t])
  PROVE  agree' /\ AllAlike'
<1>1. \A s, t \in Screens : shown[s].wrote = shown[t].wrote BY AlikeFields
<1>2. agree' BY <1>1, Zenon DEF Answered
<1>3. \A s \in Screens : screen'[s] = AtRest(shown[s]) BY DEF Answered, AtRest
<1>4. \A s, t \in Screens : Alike(screen'[s], screen'[t]) BY <1>3, AtRestAlike
<1> QED BY <1>2, <1>4 DEF AllAlike

LEMMA IdleAgrees ==
  ASSUME ScreenInv, Call(LAMBDA a : a)
  PROVE  agree' /\ AllAlike'
<1>1. PICK broken : Answered([s \in Screens |-> Faced(broken, s)]) BY DEF Call, Answered, Faced
<1> QED BY <1>1, FacedAlike, AnsweredAgrees DEF ScreenInv

LEMMA NamesOfRun == Leaf \in Names /\ Runner \in Names
BY DEF Leaf, Runner, Names

LEMMA SelectAgrees ==
  ASSUME ScreenInv, Select
  PROVE  agree' /\ AllAlike'
<1> DEFINE shown(x) == IF request.planning \/ request.factory THEN x ELSE Disclose(x, "root")
<1>1. PICK broken : Answered([s \in Screens |-> shown(Faced(broken, s))])
  BY DEF Select, Call, Answered, Faced
<1>2. \A x, y : Alike(x, y) => Alike(shown(x), shown(y))
  BY DiscloseAlike, ConstantNames
<1> HIDE DEF shown
<1> QED BY <1>1, <1>2, FacedAlike, AnsweredAgrees DEF ScreenInv

LEMMA ApproveAgrees ==
  ASSUME ScreenInv, Approve
  PROVE  agree' /\ AllAlike'
<1> DEFINE shown(x) == Prompt(IF at = "ask_factory" THEN Disclose(x, "root") ELSE x)
<1>1. PICK broken : Answered([s \in Screens |-> shown(Faced(broken, s))])
  BY DEF Approve, Call, Answered, Faced
<1>2. \A x, y : Alike(x, y) => Alike(shown(x), shown(y))
  BY DiscloseAlike, PreviewAlike, ConstantNames
<1> HIDE DEF shown
<1> QED BY <1>1, <1>2, FacedAlike, AnsweredAgrees DEF ScreenInv

LEMMA PrepareAgrees ==
  ASSUME ScreenInv, NEW from, NEW to, Prepare(from, to)
  PROVE  agree' /\ AllAlike'
<1>1. CASE Call(LAMBDA a : Installing(a, "root", [frozen |-> request.package, preview |-> request.planning]))
  <2> DEFINE shown(x) == Installing(x, "root", [frozen |-> request.package, preview |-> request.planning])
  <2>1. PICK broken : Answered([s \in Screens |-> shown(Faced(broken, s))])
    BY <1>1 DEF Call, Answered, Faced
  <2>2. \A x, y : Alike(x, y) => Alike(shown(x), shown(y))
    BY PreparationAlike, ConstantNames
  <2> HIDE DEF shown
  <2> QED BY <2>1, <2>2, FacedAlike, AnsweredAgrees DEF ScreenInv
<1>2. CASE \E routine \in BOOLEAN : Call(LAMBDA a : ApmOutput(a, "root", [routine |-> routine]))
  <2>1. PICK routine \in BOOLEAN : Call(LAMBDA a : ApmOutput(a, "root", [routine |-> routine])) BY <1>2
  <2> DEFINE shown(x) == ApmOutput(x, "root", [routine |-> routine])
  <2>2. PICK broken : Answered([s \in Screens |-> shown(Faced(broken, s))])
    BY <2>1 DEF Call, Answered, Faced
  <2>3. \A x, y : Alike(x, y) => Alike(shown(x), shown(y))
    BY PreparationAlike, ConstantNames
  <2> HIDE DEF shown
  <2> QED BY <2>2, <2>3, FacedAlike, AnsweredAgrees DEF ScreenInv
<1>3. CASE Call(LAMBDA a : Installed(a, "root"))
  <2> DEFINE shown(x) == Installed(x, "root")
  <2>1. PICK broken : Answered([s \in Screens |-> shown(Faced(broken, s))])
    BY <1>3 DEF Call, Answered, Faced
  <2>2. \A x, y : Alike(x, y) => Alike(shown(x), shown(y))
    BY PreparationAlike, ConstantNames
  <2> HIDE DEF shown
  <2> QED BY <2>1, <2>2, FacedAlike, AnsweredAgrees DEF ScreenInv
<1>4. CASE Call(LAMBDA a : StopActivity(a))
  <2> DEFINE shown(x) == StopActivity(x)
  <2>1. PICK broken : Answered([s \in Screens |-> shown(Faced(broken, s))])
    BY <1>4 DEF Call, Answered, Faced
  <2>2. \A x, y : Alike(x, y) => Alike(shown(x), shown(y))
    BY ActivityAlike
  <2> HIDE DEF shown
  <2> QED BY <2>1, <2>2, FacedAlike, AnsweredAgrees DEF ScreenInv
<1>5. CASE Call(LAMBDA a : a) BY <1>5, IdleAgrees
<1> QED BY <1>1, <1>2, <1>3, <1>4, <1>5 DEF Prepare

LEMMA LoadAgrees ==
  ASSUME ScreenInv, Load
  PROVE  agree' /\ AllAlike'
<1> DEFINE shown(x) == StartActivity(x, "root")
<1>1. PICK broken : Answered([s \in Screens |-> shown(Faced(broken, s))])
  BY DEF Load, Call, Answered, Faced
<1>2. \A x, y : Alike(x, y) => Alike(shown(x), shown(y))
  BY ActivityAlike, ConstantNames
<1> HIDE DEF shown
<1> QED BY <1>1, <1>2, FacedAlike, AnsweredAgrees DEF ScreenInv

LEMMA UnavailableAgrees ==
  ASSUME ScreenInv, Unavailable
  PROVE  agree' /\ AllAlike'
<1> DEFINE shown(x) == Close(StopActivity(x), "root")
<1>1. PICK broken : Answered([s \in Screens |-> shown(Faced(broken, s))])
  BY DEF Unavailable, Call, Answered, Faced
<1>2. \A x, y : Alike(x, y) => Alike(shown(x), shown(y))
  BY ActivityAlike, CloseAlike, ConstantNames
<1> HIDE DEF shown
<1> QED BY <1>1, <1>2, FacedAlike, AnsweredAgrees DEF ScreenInv

LEMMA InvokeAgrees ==
  ASSUME ScreenInv, Invoke
  PROVE  agree' /\ AllAlike'
<1> DEFINE shown(x) == StartActivity(IF request.planning \/ request.factory THEN x
                       ELSE Disclose(x, "root"), "root")
<1>1. PICK broken : Answered([s \in Screens |-> shown(Faced(broken, s))])
  BY DEF Invoke, Call, Answered, Faced
<1>2. \A x, y : Alike(x, y) => Alike(shown(x), shown(y))
  BY ActivityAlike, DiscloseAlike, ConstantNames
<1> HIDE DEF shown
<1> QED BY <1>1, <1>2, FacedAlike, AnsweredAgrees DEF ScreenInv

LEMMA ReadAgrees ==
  ASSUME ScreenInv, Read
  PROVE  agree' /\ AllAlike'
<1>1. CASE Call(LAMBDA a : FactoryWork(a))
  <2> DEFINE shown(x) == FactoryWork(x)
  <2>1. PICK broken : Answered([s \in Screens |-> shown(Faced(broken, s))])
    BY <1>1 DEF Call, Answered, Faced
  <2>2. \A x, y : Alike(x, y) => Alike(shown(x), shown(y))
    BY PreviewAlike
  <2> HIDE DEF shown
  <2> QED BY <2>1, <2>2, FacedAlike, AnsweredAgrees DEF ScreenInv
<1>2. CASE Call(LAMBDA a : a) BY <1>2, IdleAgrees
<1> QED BY <1>1, <1>2 DEF Read

LEMMA ContextAgrees ==
  ASSUME ScreenInv, Context
  PROVE  agree' /\ AllAlike'
<1> DEFINE shown(x) == IF request.factory /\ ~request.planning THEN Disclose(x, "root") ELSE x
<1>1. PICK broken : Answered([s \in Screens |-> shown(Faced(broken, s))])
  BY DEF Context, Call, Answered, Faced
<1>2. \A x, y : Alike(x, y) => Alike(shown(x), shown(y))
  BY DiscloseAlike, ConstantNames
<1> HIDE DEF shown
<1> QED BY <1>1, <1>2, FacedAlike, AnsweredAgrees DEF ScreenInv

LEMMA StartAgrees ==
  ASSUME ScreenInv, Start
  PROVE  agree' /\ AllAlike'
<1>1. CASE Call(LAMBDA a : Close(IF request.factory THEN ChainPlan(a) ELSE Plan(a), "root"))
  <2> DEFINE shown(x) == Close(IF request.factory THEN ChainPlan(x) ELSE Plan(x), "root")
  <2>1. PICK broken : Answered([s \in Screens |-> shown(Faced(broken, s))])
    BY <1>1 DEF Call, Answered, Faced
  <2>2. \A x, y : Alike(x, y) => Alike(shown(x), shown(y))
    BY PreviewAlike, CloseAlike, ConstantNames
  <2> HIDE DEF shown
  <2> QED BY <2>1, <2>2, FacedAlike, AnsweredAgrees DEF ScreenInv
<1>2. CASE Call(LAMBDA a : IF request.factory THEN Attach(FactoryStarted(Disclose(a, "root")), "root") ELSE Imports(a, "root", request.imports))
  <2> DEFINE shown(x) == IF request.factory THEN Attach(FactoryStarted(Disclose(x, "root")), "root")
                         ELSE Imports(x, "root", request.imports)
  <2>1. PICK broken : Answered([s \in Screens |-> shown(Faced(broken, s))])
    BY <1>2 DEF Call, Answered, Faced
  <2>2. \A x, y : Alike(x, y) => Alike(shown(x), shown(y))
    BY DiscloseAlike, PreviewAlike, AttachAlike, LinesAlike, ConstantNames
  <2> HIDE DEF shown
  <2> QED BY <2>1, <2>2, FacedAlike, AnsweredAgrees DEF ScreenInv
<1> QED BY <1>1, <1>2 DEF Start

LEMMA RefuseCommandAgrees ==
  ASSUME ScreenInv, RefuseCommand
  PROVE  agree' /\ AllAlike'
<1> DEFINE shown(x) == Close(RenderError(x), "root")
<1>1. PICK broken : Answered([s \in Screens |-> shown(Faced(broken, s))])
  BY DEF RefuseCommand, Call, Answered, Faced
<1>2. \A x, y : Alike(x, y) => Alike(shown(x), shown(y))
  BY PreviewAlike, CloseAlike, ConstantNames
<1> HIDE DEF shown
<1> QED BY <1>1, <1>2, FacedAlike, AnsweredAgrees DEF ScreenInv

LEMMA ChainStepAgrees ==
  ASSUME ScreenInv, ChainStep
  PROVE  agree' /\ AllAlike'
<1>1. CASE Call(LAMBDA a : Imports(NewLeaf(ChainNode(a, node + 1)), "leaf", request.imports))
  <2> DEFINE shown(x) == Imports(NewLeaf(ChainNode(x, node + 1)), "leaf", request.imports)
  <2>1. PICK broken : Answered([s \in Screens |-> shown(Faced(broken, s))])
    BY <1>1 DEF Call, Answered, Faced
  <2>2. \A x, y : Alike(x, y) => Alike(shown(x), shown(y))
    BY ChainNodeAlike, NewLeafAlike, LinesAlike, ConstantNames
  <2> HIDE DEF shown
  <2> QED BY <2>1, <2>2, FacedAlike, AnsweredAgrees DEF ScreenInv
<1>2. CASE Call(LAMBDA a : a) BY <1>2, IdleAgrees
<1> QED BY <1>1, <1>2 DEF ChainStep

LEMMA ContractAgrees ==
  ASSUME ScreenInv, Contract
  PROVE  agree' /\ AllAlike'
<1> DEFINE shown(x) == IF request.repaired THEN RepairBudget(x, Leaf) ELSE x
<1>1. PICK broken : Answered([s \in Screens |-> shown(Faced(broken, s))])
  BY DEF Contract, Call, Answered, Faced
<1>2. \A x, y : Alike(x, y) => Alike(shown(x), shown(y))
  BY LinesAlike, NamesOfRun
<1> HIDE DEF shown
<1> QED BY <1>1, <1>2, FacedAlike, AnsweredAgrees DEF ScreenInv

LEMMA FailContractAgrees ==
  ASSUME ScreenInv, FailContract
  PROVE  agree' /\ AllAlike'
<1> DEFINE shown(x) == IF request.factory THEN Close(x, "leaf") ELSE x
<1>1. PICK broken : Answered([s \in Screens |-> shown(Faced(broken, s))])
  BY DEF FailContract, Call, Answered, Faced
<1>2. \A x, y : Alike(x, y) => Alike(shown(x), shown(y))
  BY CloseAlike, ConstantNames
<1> HIDE DEF shown
<1> QED BY <1>1, <1>2, FacedAlike, AnsweredAgrees DEF ScreenInv

LEMMA LeafDoneAgrees ==
  ASSUME ScreenInv, LeafDone
  PROVE  agree' /\ AllAlike'
<1> DEFINE shown(x) == Close(x, "leaf")
<1>1. PICK broken : Answered([s \in Screens |-> shown(Faced(broken, s))])
  BY DEF LeafDone, Call, Answered, Faced
<1>2. \A x, y : Alike(x, y) => Alike(shown(x), shown(y))
  BY CloseAlike, ConstantNames
<1> HIDE DEF shown
<1> QED BY <1>1, <1>2, FacedAlike, AnsweredAgrees DEF ScreenInv

LEMMA StopAgrees ==
  ASSUME ScreenInv, Stop
  PROVE  agree' /\ AllAlike'
<1> DEFINE shown(x) == Close(ChainStopped(x, [n \in Nodes |-> Producers(n)]), "root")
<1>1. PICK broken : Answered([s \in Screens |-> shown(Faced(broken, s))])
  BY DEF Stop, Call, Answered, Faced
<1>2. \A x, y : Alike(x, y) => Alike(shown(x), shown(y))
  BY ChainStoppedAlike, CloseAlike, ConstantNames
<1> HIDE DEF shown
<1> QED BY <1>1, <1>2, FacedAlike, AnsweredAgrees DEF ScreenInv

LEMMA WholeChainAgrees ==
  ASSUME ScreenInv, WholeChain
  PROVE  agree' /\ AllAlike'
<1> DEFINE shown(x) == Close(x, "root")
<1>1. PICK broken : Answered([s \in Screens |-> shown(Faced(broken, s))])
  BY DEF WholeChain, Call, Answered, Faced
<1>2. \A x, y : Alike(x, y) => Alike(shown(x), shown(y))
  BY CloseAlike, ConstantNames
<1> HIDE DEF shown
<1> QED BY <1>1, <1>2, FacedAlike, AnsweredAgrees DEF ScreenInv

LEMMA TryAgainAgrees ==
  ASSUME ScreenInv, TryAgain
  PROVE  agree' /\ AllAlike'
<1>1. CASE attempt < MaxAttempts /\ Call(LAMBDA a : NewAttempt(a, Leaf, attempt + 1))
  <2> DEFINE shown(x) == NewAttempt(x, Leaf, attempt + 1)
  <2>1. PICK broken : Answered([s \in Screens |-> shown(Faced(broken, s))])
    BY <1>1 DEF Call, Answered, Faced
  <2>2. attempt + 1 \in 1 .. MaxAttempts BY <1>1, LoggerAssumption DEF ScreenInv
  <2>3. \A x, y : Alike(x, y) => Alike(shown(x), shown(y))
    BY <2>2, NewAttemptAlike, NamesOfRun
  <2> HIDE DEF shown
  <2> QED BY <2>1, <2>3, FacedAlike, AnsweredAgrees DEF ScreenInv
<1>2. CASE Call(LAMBDA a : a) BY <1>2, IdleAgrees
<1> QED BY <1>1, <1>2 DEF TryAgain

LEMMA AttemptedAgrees ==
  ASSUME ScreenInv, Attempted
  PROVE  agree' /\ AllAlike'
<1> DEFINE done(x) == Result(x, Runner, fate = "complete", node, Feeds(node))
           shown(x) == IF request.repaired THEN RepairFinished(done(x), "leaf") ELSE done(x)
<1>1. CASE Call(LAMBDA a : shown(a))
  <2>1. PICK broken : Answered([s \in Screens |-> shown(Faced(broken, s))])
    BY <1>1 DEF Call, Answered, Faced
  <2>2. \A x, y : Alike(x, y) => Alike(shown(x), shown(y))
    BY ResultAlike, LinesAlike, NamesOfRun, ConstantNames
  <2> HIDE DEF shown, done
  <2> QED BY <2>1, <2>2, FacedAlike, AnsweredAgrees DEF ScreenInv
<1>2. CASE Call(LAMBDA a : a) BY <1>2, IdleAgrees
<1> QED BY <1>1, <1>2 DEF Attempted

LEMMA ReportAgrees ==
  ASSUME ScreenInv, Report
  PROVE  agree' /\ AllAlike'
<1> DEFINE complete == fate = "complete"
           told(x) == IF request.factory THEN ChainResult(x, complete)
                      ELSE Result(Close(x, "root"), "root", complete, 0, FALSE)
           failed(x) == RenderError(Close(x, "root"))
<1>1. \A x, y : Alike(x, y) => Alike(told(x), told(y))
  BY ChainResultAlike, CloseAlike, ResultAlike, ConstantNames
<1>2. CASE \E exported \in BOOLEAN :
             Call(LAMBDA a : IF complete THEN Receipt(told(a), exported) ELSE told(a))
  <2>1. PICK exported \in BOOLEAN :
          Call(LAMBDA a : IF complete THEN Receipt(told(a), exported) ELSE told(a))
    BY <1>2
  <2> DEFINE shown(x) == IF complete THEN Receipt(told(x), exported) ELSE told(x)
  <2>2. PICK broken : Answered([s \in Screens |-> shown(Faced(broken, s))])
    BY <2>1 DEF Call, Answered, Faced
  <2> HIDE DEF told
  <2>3. \A x, y : Alike(x, y) => Alike(shown(x), shown(y)) BY <1>1, PreviewAlike
  <2> HIDE DEF shown
  <2> QED BY <2>2, <2>3, FacedAlike, AnsweredAgrees DEF ScreenInv
<1>3. CASE Call(LAMBDA a : failed(a))
  <2>1. PICK broken : Answered([s \in Screens |-> failed(Faced(broken, s))])
    BY <1>3 DEF Call, Answered, Faced
  <2>2. \A x, y : Alike(x, y) => Alike(failed(x), failed(y)) BY PreviewAlike, CloseAlike, ConstantNames
  <2> HIDE DEF failed
  <2> QED BY <2>1, <2>2, FacedAlike, AnsweredAgrees DEF ScreenInv
<1> QED BY <1>2, <1>3 DEF Report

LEMMA TellAgrees ==
  ASSUME ScreenInv, NEW n \in Names, NEW event, event.kind \in EventKinds, Tell(n, event)
  PROVE  agree' /\ AllAlike'
<1> DEFINE shown(x) == OnEvent(x, n, event, now)
<1>1. PICK broken : Answered([s \in Screens |-> shown(Faced(broken, s))])
  BY DEF Tell, Call, Answered, Faced
<1>2. \A x, y : Alike(x, y) => Alike(shown(x), shown(y)) BY OnEventAlike
<1> HIDE DEF shown
<1> QED BY <1>1, <1>2, FacedAlike, AnsweredAgrees DEF ScreenInv

LEMMA SelectionAgrees ==
  ASSUME ScreenInv, Selection
  PROVE  agree' /\ AllAlike'
<1> DEFINE shown(x) == OnEvent(Attach(x, Runner), Runner, [kind |-> "selected"], now)
<1>1. PICK broken : Answered([s \in Screens |-> shown(Faced(broken, s))])
  BY DEF Selection, Call, Answered, Faced
<1>2. [kind |-> "selected"].kind \in EventKinds BY DEF EventKinds
<1>3. \A x, y : Alike(x, y) => Alike(shown(x), shown(y)) BY <1>2, AttachAlike, OnEventAlike, NamesOfRun
<1> HIDE DEF shown
<1> QED BY <1>1, <1>3, FacedAlike, AnsweredAgrees DEF ScreenInv

LEMMA StagesAgree ==
  ASSUME ScreenInv, Stages
  PROVE  agree' /\ AllAlike'
<1> DEFINE told == {PhaseEvent("preflight"), [kind |-> "input", handed |-> node # 0 /\ Producers(node) # {}],
                    [kind |-> "workspace"], PhaseEvent("execution"), [kind |-> "process"],
                    PhaseEvent("capture"), PhaseEvent("checks"), [kind |-> "check"]}
<1>1. PICK event \in told : Tell(Runner, event) BY Zenon DEF Stages, Step
<1>2. event.kind \in EventKinds BY DEF PhaseEvent, EventKinds
<1> QED BY <1>1, <1>2, TellAgrees, NamesOfRun

LEMMA RunningAgrees ==
  ASSUME ScreenInv, Running
  PROVE  agree' /\ AllAlike'
<1>1. PICK event \in AgentEvents \cup CheckEvents : Tell(Runner, event) BY Zenon DEF Running, Reports
<1>2. event.kind \in EventKinds BY DEF AgentEvents, CheckEvents, EventKinds
<1> QED BY <1>1, <1>2, TellAgrees, NamesOfRun

LEMMA BeatsAgree ==
  ASSUME ScreenInv, Beats
  PROVE  agree' /\ AllAlike'
<1> DEFINE shown(x) == OnEvent(x, Runner, [kind |-> "heartbeat"], now + 1)
<1>1. PICK broken : Answered([s \in Screens |-> shown(Faced(broken, s))])
  BY DEF Beats, Call, Answered, Faced
<1>2. [kind |-> "heartbeat"].kind \in EventKinds BY DEF EventKinds
<1>3. \A x, y : Alike(x, y) => Alike(shown(x), shown(y)) BY <1>2, OnEventAlike, NamesOfRun
<1> HIDE DEF shown
<1> QED BY <1>1, <1>3, FacedAlike, AnsweredAgrees DEF ScreenInv

LEMMA CheckedAgrees ==
  ASSUME ScreenInv, Checked
  PROVE  agree' /\ AllAlike'
<1>1. PICK outcome : Tell(Runner, [kind |-> "checked", verdict |-> outcome]) BY DEF Checked
<1>2. [kind |-> "checked", verdict |-> outcome].kind \in EventKinds BY DEF EventKinds
<1> QED BY <1>1, <1>2, TellAgrees, NamesOfRun

LEMMA BrokenAgrees ==
  ASSUME ScreenInv, Broken
  PROVE  agree' /\ AllAlike'
<1>1. CASE Tell(Runner, [kind |-> "diagnostic", native |-> FALSE])
  <2>1. [kind |-> "diagnostic", native |-> FALSE].kind \in EventKinds BY DEF EventKinds
  <2> QED BY <1>1, <2>1, TellAgrees, NamesOfRun
<1>2. CASE \E confirmed \in BOOLEAN :
             Call(LAMBDA a : OnEvent(OnEvent(a, Runner, [kind |-> "stop"], now), Runner,
                                     [kind |-> "stopped", confirmed |-> confirmed], now))
  <2>1. PICK confirmed \in BOOLEAN :
             Call(LAMBDA a : OnEvent(OnEvent(a, Runner, [kind |-> "stop"], now), Runner,
                                     [kind |-> "stopped", confirmed |-> confirmed], now))
    BY <1>2
  <2> DEFINE stop == [kind |-> "stop"]
             stopped == [kind |-> "stopped", confirmed |-> confirmed]
             shown(x) == OnEvent(OnEvent(x, Runner, stop, now), Runner, stopped, now)
  <2>2. PICK broken : Answered([s \in Screens |-> shown(Faced(broken, s))])
    BY <2>1 DEF Call, Answered, Faced
  <2>3. stop.kind \in EventKinds /\ stopped.kind \in EventKinds BY DEF EventKinds
  <2> HIDE DEF stop, stopped
  <2>4. \A x, y : Alike(x, y) => Alike(shown(x), shown(y)) BY <2>3, OnEventAlike, NamesOfRun
  <2> HIDE DEF shown
  <2> QED BY <2>2, <2>4, FacedAlike, AnsweredAgrees DEF ScreenInv
<1> QED BY <1>1, <1>2 DEF Broken

LEMMA RecordAgrees ==
  ASSUME ScreenInv, Record
  PROVE  agree' /\ AllAlike'
<1> DEFINE event == PhaseEvent("record")
           shown(x) == Close(OnEvent(x, Runner, event, now), Runner)
<1>1. PICK broken : Answered([s \in Screens |-> shown(Faced(broken, s))])
  BY DEF Record, Call, Answered, Faced
<1>2. event.kind \in EventKinds BY DEF PhaseEvent, EventKinds
<1> HIDE DEF event
<1>3. \A x, y : Alike(x, y) => Alike(shown(x), shown(y)) BY <1>2, OnEventAlike, CloseAlike, NamesOfRun
<1> HIDE DEF shown
<1> QED BY <1>1, <1>3, FacedAlike, AnsweredAgrees DEF ScreenInv

LEMMA AttemptBounded ==
  ASSUME attempt \in 0 .. MaxAttempts, ScreenNext
  PROVE  attempt' \in 0 .. MaxAttempts
<1>1. CASE attempt' = attempt BY <1>1
<1>2. CASE TryAgain
  <2>1. attempt' = attempt \/ (attempt < MaxAttempts /\ attempt' = attempt + 1) BY <1>2, Zenon DEF TryAgain
  <2> QED BY <2>1, LoggerAssumption
<1>3. CASE LeafDone
  <2>1. attempt' = 0 BY <1>3, Zenon DEF LeafDone
  <2> QED BY <2>1, LoggerAssumption
<1>4. CASE ~TryAgain /\ ~LeafDone
  <2>1. CASE Select \/ Approve \/ Load \/ Unavailable \/ Invoke \/ Read \/ Context \/ RefuseCommand
               \/ \E from, to : Prepare(from, to)
    BY <1>1, <2>1, Zenon DEF Select, Approve, Load, Unavailable, Invoke, Read, Context, RefuseCommand, Prepare,
              Still, Before
  <2>2. CASE Start \/ ChainStep \/ Contract \/ Attempted \/ FailContract \/ Stop \/ WholeChain \/ Report
    BY <1>1, <2>2, Zenon DEF Start, ChainStep, Contract, Attempted, FailContract, Stop, WholeChain, Report, Still, Before
  <2>3. CASE Selection \/ Stages \/ Running \/ Beats \/ Checked \/ Broken \/ Record
    BY <1>1, <2>3, Zenon DEF Selection, Stages, Step, Running, Reports, Beats, Checked, Broken, Record, Still
  <2> QED BY <1>4, <2>1, <2>2, <2>3 DEF ScreenNext
<1> QED BY <1>2, <1>3, <1>4

LEMMA ScreenStepAgrees ==
  ASSUME ScreenInv, ScreenNext
  PROVE  ScreenInv'
<1>1. CASE Select \/ Approve \/ Load \/ Unavailable \/ Invoke \/ Read \/ Context \/ Start \/ RefuseCommand
             \/ Prepare("source", "invoke") \/ Prepare("imports", "admitted")
  BY <1>1, SelectAgrees, ApproveAgrees, LoadAgrees, UnavailableAgrees, InvokeAgrees, ReadAgrees, ContextAgrees,
     StartAgrees, RefuseCommandAgrees, PrepareAgrees, AttemptBounded DEF ScreenInv
<1>2. CASE ChainStep \/ Contract \/ TryAgain \/ Attempted \/ LeafDone \/ FailContract \/ Stop \/ WholeChain
             \/ Report
  BY <1>2, ChainStepAgrees, ContractAgrees, TryAgainAgrees, AttemptedAgrees, LeafDoneAgrees, FailContractAgrees,
     StopAgrees, WholeChainAgrees, ReportAgrees, AttemptBounded DEF ScreenInv
<1>3. CASE Selection \/ Stages \/ Running \/ Beats \/ Checked \/ Broken \/ Record
  BY <1>3, SelectionAgrees, StagesAgree, RunningAgrees, BeatsAgree, CheckedAgrees, BrokenAgrees, RecordAgrees,
     AttemptBounded DEF ScreenInv
<1> QED BY <1>1, <1>2, <1>3 DEF ScreenNext

LEMMA FreshAlike ==
  \A v, w, x, y : Alike(FreshApp(v, w), FreshApp(x, y))
BY LoggerAssumption
   DEF Alike, IsApp, FreshApp, FreshLogger, FreshView, FreshLeaf, AppFields, ScreenFields, LoggerFields, Names

LEMMA ScreenBegins == ScreenInit => ScreenInv
<1> SUFFICES ASSUME ScreenInit PROVE ScreenInv OBVIOUS
<1>1. \A s, t \in Screens : Alike(screen[s], screen[t]) BY FreshAlike DEF ScreenInit
<1> QED BY <1>1, LoggerAssumption DEF ScreenInit, ScreenInv, AllAlike

-----------------------------------------------------------------------------
(* Screens: what is shown is settled *)

\* What the factory says of its contracts stays, and no logger is made or ends
Lasts(a, b) ==
  /\ IsApp(a) /\ IsApp(b)
  /\ b.handed = a.handed /\ b.waiting = a.waiting /\ b.pending = a.pending /\ b.complete = a.complete
  /\ a.disclosed => b.disclosed
  /\ \A n \in Names : b.log[n].step = a.log[n].step /\ b.log[n].finished = a.log[n].finished

\* Nor is a logger closed
Steady(a, b) == Lasts(a, b) /\ \A n \in Names : b.log[n].closed = a.log[n].closed

LEMMA Whole == \A a : IsApp(a) <=> Alike(a, a)
BY DEF Alike

LEMMA LastsOn ==
  /\ \A a, b, c : Lasts(a, b) /\ Lasts(b, c) => Lasts(a, c)
  /\ \A a, b, c : Steady(a, b) /\ Steady(b, c) => Steady(a, c)
  /\ \A a, b : Steady(a, b) => Lasts(a, b)
  /\ \A a : IsApp(a) => Steady(a, a)
  /\ \A a, b : Lasts(a, b) => IsApp(b)
BY DEF Lasts, Steady

LEMMA SetAppSteady ==
  ASSUME NEW a, IsApp(a),
         NEW f \in (AppFields \cup ScreenFields) \ {"disclosed", "pending"}, NEW v
  PROVE  Steady(a, [a EXCEPT ![f] = v])
BY DEF Steady, Lasts, IsApp, AppFields, ScreenFields

LEMMA SetLogSteady ==
  ASSUME NEW a, IsApp(a), NEW n \in Names, NEW v,
         NEW f \in LoggerFields \ {"step", "finished", "closed"}, f = "view" => v \in 0 .. MaxAttempts
  PROVE  Steady(a, [a EXCEPT !.log[n][f] = v])
<1> DEFINE c == [a EXCEPT !.log[n][f] = v]
<1>1. IsApp(c) BY Whole, SetLogAlike
<1>2. /\ \A g \in {"handed", "waiting", "pending", "complete", "disclosed"} : c[g] = a[g]
      /\ c.log = [a.log EXCEPT ![n] = [@ EXCEPT ![f] = v]]
  BY DEF IsApp, AppFields, ScreenFields
<1> HIDE DEF c
<1>3. \A m \in Names : \A g \in {"step", "finished", "closed"} : c.log[m][g] = a.log[m][g]
  BY <1>2 DEF IsApp, LoggerFields
<1>4. Steady(a, c) BY <1>1, <1>2, <1>3 DEF Steady, Lasts
<1> QED BY <1>4 DEF c

LEMMA SpokeSteady ==
  ASSUME NEW a, IsApp(a), NEW n \in Names, NEW v
  PROVE  Steady(a, [a EXCEPT !.log[n].spoke = v])
<1> DEFINE c == [a EXCEPT !.log[n].spoke = v]
<1>1. IsApp(c) BY SpokeIsQuiet DEF Alike
<1>2. /\ \A g \in {"handed", "waiting", "pending", "complete", "disclosed"} : c[g] = a[g]
      /\ c.log = [a.log EXCEPT ![n] = [@ EXCEPT !.spoke = v]]
  BY DEF IsApp, AppFields, ScreenFields
<1> HIDE DEF c
<1>3. \A m \in Names : \A g \in {"step", "finished", "closed"} : c.log[m][g] = a.log[m][g]
  BY <1>2 DEF IsApp, LoggerFields
<1>4. Steady(a, c) BY <1>1, <1>2, <1>3 DEF Steady, Lasts
<1> QED BY <1>4 DEF c

LEMMA ActivitySteady ==
  ASSUME NEW a, IsApp(a)
  PROVE  /\ Steady(a, ShowActivity(a)) /\ Steady(a, StopActivity(a))
         /\ \A n \in Names : Steady(a, StartActivity(a, n))
<1>1. Steady(a, ShowActivity(a))
  BY ShowActivityIsQuiet DEF Alike, Steady, Lasts, IsApp, ShowActivity, Animates, Disable, AppFields, ScreenFields
<1>2. Steady(a, StopActivity(a))
  BY StopActivityIsQuiet DEF Alike, Steady, Lasts, IsApp, StopActivity, Disable, AppFields, ScreenFields
<1> QED BY <1>1, <1>2, LastsOn DEF StartActivity

\* Lines come and go; an animation is not begun by one
LEMMA ShowSteady ==
  ASSUME NEW a, IsApp(a), NEW lines
  PROVE  Steady(a, Show(a, lines)) /\ (Show(a, lines).active => a.active)
<1>1. IsApp(Show(a, lines)) BY ShowIsQuiet DEF Alike
<1> QED BY <1>1 DEF Steady, Lasts, IsApp, Show, Disable, AppFields, ScreenFields

LEMMA PutSteady ==
  ASSUME NEW a, IsApp(a), NEW n \in Names, NEW lines
  PROVE  Steady(a, Put(a, n, lines)) /\ (Put(a, n, lines).active => a.active)
<1> DEFINE c == Retain(a, n, lines)
<1>1. IsApp(c) BY RetainAlike, Whole
<1>2. Steady(a, c) /\ c.active = a.active
  BY <1>1 DEF Steady, Lasts, IsApp, Retain, AppFields, ScreenFields
<1> HIDE DEF c
<1>3. Steady(c, Show(c, lines)) /\ (Show(c, lines).active => c.active) BY <1>1, ShowSteady
<1>4. Steady(a, Show(c, lines)) BY <1>2, <1>3, LastsOn
<1> QED BY <1>2, <1>3, <1>4 DEF Put, c

\* The names of the parts that every method may set
LEMMA FreeParts ==
  /\ {"identified", "models", "noticed", "wrote", "started", "enabled", "active", "breaks", "moved"}
       \subseteq (AppFields \cup ScreenFields) \ {"disclosed", "pending"}
  /\ {"attached", "phase", "noted", "prepared", "heading", "check", "view"}
       \subseteq LoggerFields \ {"step", "finished", "closed"}
BY DEF AppFields, ScreenFields, LoggerFields

LEMMA AttachSteady ==
  ASSUME NEW a, IsApp(a), NEW n \in Names
  PROVE  Steady(a, Attach(a, n))
BY SetLogSteady, FreeParts DEF Attach

LEMMA FlushCheckSteady ==
  ASSUME NEW a, IsApp(a), NEW n \in Names, NEW observed
  PROVE  Steady(a, FlushCheck(a, n, observed)) /\ (FlushCheck(a, n, observed).active => a.active)
<1> DEFINE c == [a EXCEPT !.log[n].check = "none"]
<1>1. Steady(a, c) BY SetLogSteady, FreeParts
<1>2. c.active = a.active BY DEF IsApp, AppFields, ScreenFields
<1>3. FlushCheck(a, n, observed) \in {c, Put(c, n, <<Seen("unobserved")>>)} BY DEF FlushCheck
<1> HIDE DEF c
<1>4. IsApp(c) BY <1>1, LastsOn
<1>5. /\ Steady(c, Put(c, n, <<Seen("unobserved")>>))
      /\ Put(c, n, <<Seen("unobserved")>>).active => c.active
  BY <1>4, PutSteady
<1>6. Steady(a, Put(c, n, <<Seen("unobserved")>>)) BY <1>1, <1>5, LastsOn
<1> QED BY <1>1, <1>2, <1>3, <1>5, <1>6

LEMMA StopIsStill == \A a : IsApp(a) => ~StopActivity(a).active
BY DEF StopActivity, Disable, IsApp, AppFields, ScreenFields

\* A logger that closes stops the animation
LEMMA CloseLasts ==
  ASSUME NEW a, IsApp(a), NEW n \in Names
  PROVE  Lasts(a, Close(a, n)) /\ (Close(a, n).active => a.active /\ a.log[n].closed)
<1>1. CASE a.log[n].closed BY <1>1, LastsOn DEF Close
<1>2. CASE ~a.log[n].closed
  <2> DEFINE c == [a EXCEPT !.log[n].closed = TRUE]
             d == StopActivity(c)
  <2>1. IsApp(c) BY Whole, SetLogAlike, ConstantNames
  <2>2. /\ \A g \in {"handed", "waiting", "pending", "complete", "disclosed"} : c[g] = a[g]
        /\ c.log = [a.log EXCEPT ![n] = [@ EXCEPT !.closed = TRUE]]
    BY DEF IsApp, AppFields, ScreenFields
  <2>3. Close(a, n) = FlushCheck(d, n, FALSE) BY <1>2 DEF Close
  <2> HIDE DEF c
  <2>4. \A m \in Names : \A g \in {"step", "finished"} : c.log[m][g] = a.log[m][g]
    BY <2>2 DEF IsApp, LoggerFields
  <2>5. Lasts(a, c) BY <2>1, <2>2, <2>4 DEF Lasts
  <2>6. Steady(c, d) /\ ~d.active BY <2>1, ActivitySteady, StopIsStill
  <2> HIDE DEF d
  <2>7. Steady(d, FlushCheck(d, n, FALSE)) /\ (FlushCheck(d, n, FALSE).active => d.active)
    BY <2>6, FlushCheckSteady, LastsOn
  <2>8. Lasts(a, FlushCheck(d, n, FALSE)) BY <2>5, <2>6, <2>7, LastsOn
  <2> QED BY <2>3, <2>6, <2>7, <2>8
<1> QED BY <1>1, <1>2

LEMMA SummarizeSteady ==
  ASSUME NEW a, IsApp(a), NEW n \in Names
  PROVE  Steady(a, Summarize(a, n)) /\ (Summarize(a, n).active => a.active)
<1> DEFINE view == a.log[n].view
           told == [a EXCEPT !.views[view].summarized = TRUE]
<1>1. CASE view = 0 BY <1>1, LastsOn DEF Summarize
<1>2. CASE view # 0
  <2>1. view \in 1 .. MaxAttempts BY <1>2, LoggerAssumption DEF IsApp
  <2>2. Summarize(a, n) \in {a, Put(told, n, <<Seen("attempt line")>>)} BY <1>2 DEF Summarize
  <2>3. DOMAIN [a.views[view] EXCEPT !.summarized = TRUE] = {"summarized", "liveness"}
    BY <2>1 DEF IsApp
  <2>4. IsApp(told) BY <2>1, <2>3, Whole, SetViewAlike
  <2>5. /\ \A g \in {"handed", "waiting", "pending", "complete", "disclosed", "active"} : told[g] = a[g]
        /\ told.log = a.log
    BY DEF IsApp, AppFields, ScreenFields
  <2> HIDE DEF told
  <2>6. Steady(a, told) BY <2>4, <2>5 DEF Steady, Lasts
  <2>7. /\ Steady(told, Put(told, n, <<Seen("attempt line")>>))
        /\ Put(told, n, <<Seen("attempt line")>>).active => told.active
    BY <2>4, PutSteady
  <2>8. Steady(a, Put(told, n, <<Seen("attempt line")>>)) BY <2>6, <2>7, LastsOn
  <2>9. Put(told, n, <<Seen("attempt line")>>).active => a.active BY <2>5, <2>7
  <2>10. Steady(a, a) BY LastsOn
  <2>11. CASE Summarize(a, n) = a BY <2>10, <2>11
  <2>12. CASE Summarize(a, n) = Put(told, n, <<Seen("attempt line")>>) BY <2>8, <2>9, <2>12
  <2> QED BY <2>2, <2>11, <2>12
<1> QED BY <1>1, <1>2

\* The profile is disclosed from then on
LEMMA DiscloseSteady ==
  ASSUME NEW a, IsApp(a), NEW n \in Names
  PROVE  /\ Steady(a, Disclose(a, n)) /\ Disclose(a, n).disclosed
         /\ Disclose(a, n).active => a.active
<1> DEFINE c == [a EXCEPT !.disclosed = TRUE]
           d == Put(c, n, <<Both("not sandboxed"), Both("cost")>>)
<1>1. IsApp(c) BY Whole, SetAppAlike, ConstantNames
<1>2. Steady(a, c) /\ c.disclosed /\ c.active = a.active
  BY <1>1 DEF Steady, Lasts, IsApp, AppFields, ScreenFields
<1> HIDE DEF c
<1>3. Steady(c, d) /\ (d.active => c.active) BY <1>1, PutSteady
<1>4. d.disclosed BY <1>2, <1>3 DEF Steady, Lasts
<1>5. Steady(a, d) BY <1>2, <1>3, LastsOn
<1>6. Disclose(a, n) = IF a.disclosed THEN a ELSE d BY DEF Disclose, c
<1> HIDE DEF d
<1> QED BY <1>2, <1>3, <1>4, <1>5, <1>6, LastsOn

LEMMA ChecksHeadingSteady ==
  ASSUME NEW a, IsApp(a), NEW n \in Names
  PROVE  Steady(a, ChecksHeading(a, n))
<1> DEFINE c == [a EXCEPT !.log[n].heading = TRUE]
<1>1. Steady(a, c) BY SetLogSteady, FreeParts
<1>2. ChecksHeading(a, n) \in {a, Put(c, n, <<Detail("checks")>>)} BY DEF ChecksHeading
<1> HIDE DEF c
<1>3. Steady(c, Put(c, n, <<Detail("checks")>>)) BY <1>1, PutSteady, LastsOn
<1> QED BY <1>1, <1>2, <1>3, LastsOn

LEMMA LinesSteady ==
  ASSUME NEW a, IsApp(a), NEW n \in Names
  PROVE  /\ \A some : Steady(a, Imports(a, n, some))
         /\ \A handed : Steady(a, InputCaptured(a, n, handed))
         /\ Steady(a, WorkspaceCaptured(a, n)) /\ Steady(a, NativeDebug(a, n))
         /\ Steady(a, SkillLoaded(a, n)) /\ Steady(a, ProcessStarted(a, n))
         /\ \A confirmed : Steady(a, StopObserved(a, n, confirmed))
         /\ Steady(a, RepairBudget(a, n)) /\ Steady(a, RepairFinished(a, n))
         /\ \A event : Steady(a, ApmOutput(a, n, event))
<1>1. \A lines : Steady(a, Put(a, n, lines)) BY PutSteady
<1> QED BY <1>1 DEF Imports, InputCaptured, WorkspaceCaptured, NativeDebug, SkillLoaded, ProcessStarted,
          StopObserved, RepairBudget, RepairFinished, ApmOutput

LEMMA PreparationSteady ==
  ASSUME NEW a, IsApp(a), NEW n \in Names
  PROVE  /\ \A event : Steady(a, Installing(a, n, event))
         /\ Steady(a, Installed(a, n))
<1>1. ASSUME NEW event PROVE Steady(a, Installing(a, n, event))
  <2> DEFINE b == Put(a, n, <<Both("installing")>>)
             c == StartActivity(b, n)
             d == [c EXCEPT !.log[n].prepared = TRUE]
             lines == When(~a.log[n].prepared, <<Both("temporary workspace")>>)
             rest == When(event.frozen /\ ~event.preview, <<Both("locked")>>)
                       \o <<Detail("running"), Detail("options")>>
  <2>1. Installing(a, n, event) = Put(Put(d, n, lines), n, rest) BY DEF Installing
  <2> HIDE DEF lines, rest
  <2>2. Steady(a, b) BY PutSteady
  <2> HIDE DEF b
  <2>3. Steady(b, c) BY <2>2, ActivitySteady, LastsOn
  <2> HIDE DEF c
  <2>4. Steady(c, d) BY <2>3, SetLogSteady, FreeParts, LastsOn
  <2> HIDE DEF d
  <2>5. Steady(d, Put(d, n, lines)) BY <2>4, PutSteady, LastsOn
  <2>6. Steady(Put(d, n, lines), Put(Put(d, n, lines), n, rest)) BY <2>5, PutSteady, LastsOn
  <2>7. Steady(a, c) BY <2>2, <2>3, LastsOn
  <2>8. Steady(a, d) BY <2>7, <2>4, LastsOn
  <2>9. Steady(a, Put(d, n, lines)) BY <2>8, <2>5, LastsOn
  <2> QED BY <2>1, <2>9, <2>6, LastsOn
<1>2. Steady(a, Installed(a, n))
  <2>1. Steady(a, StopActivity(a)) BY ActivitySteady
  <2>2. Steady(StopActivity(a), Installed(a, n)) BY <2>1, PutSteady, LastsOn DEF Installed
  <2> QED BY <2>1, <2>2, LastsOn
<1> QED BY <1>1, <1>2

\* Wherever a run is selected, the profile is disclosed
LEMMA SelectedSteady ==
  ASSUME NEW a, IsApp(a), NEW n \in Names
  PROVE  Steady(a, Selected(a, n)) /\ Selected(a, n).disclosed
<1> DEFINE b == Put(Disclose(a, n), n, When(a.log[n].prepared, <<Kept("gap")>>))
           view == IF b.log[n].view = 0 THEN 1 ELSE b.log[n].view
           c == [b EXCEPT !.log[n].view = view]
           d == [c EXCEPT !.leaf.last = view]
           e == [d EXCEPT !.leaf.header = TRUE]
           f == Put(e, n, When(~d.leaf.header, <<Seen("header")>>))
           g == [f EXCEPT !.identified = TRUE]
           lines == When(~f.log[n].step, <<Kept("contract")>>)
                      \o <<Kept("produces"), Kept("needs")>>
                      \o When(~f.identified, <<Kept("harness")>>)
                      \o <<Detail("source"), Detail("run"), Detail("directory")>>
<1>1. Selected(a, n) = Put(g, n, lines) BY DEF Selected
<1> HIDE DEF lines
<1>2. Steady(a, Disclose(a, n)) /\ Disclose(a, n).disclosed BY DiscloseSteady
<1>3. Steady(Disclose(a, n), b) BY <1>2, PutSteady, LastsOn
<1>4. IsApp(b) BY <1>3, LastsOn
<1> HIDE DEF b
<1>5. view \in 0 .. MaxAttempts BY <1>4, LoggerAssumption DEF IsApp
<1> HIDE DEF view
<1>6. Steady(b, c) BY <1>4, <1>5, SetLogSteady, FreeParts
<1> HIDE DEF c
<1>7. IsApp(c) BY <1>6, LastsOn
<1>8. DOMAIN [c.leaf EXCEPT !.last = view] = {"header", "last"} BY <1>7 DEF IsApp
<1>9. IsApp(d) BY <1>7, <1>8, Whole, SetLeafAlike
<1>10. Steady(c, d) BY <1>7, <1>9 DEF Steady, Lasts, IsApp, AppFields, ScreenFields
<1> HIDE DEF d
<1>11. DOMAIN [d.leaf EXCEPT !.header = TRUE] = {"header", "last"} BY <1>9 DEF IsApp
<1>12. IsApp(e) BY <1>9, <1>11, Whole, SetLeafAlike
<1>13. Steady(d, e) BY <1>9, <1>12 DEF Steady, Lasts, IsApp, AppFields, ScreenFields
<1> HIDE DEF e
<1>14. Steady(e, f) BY <1>12, PutSteady
<1> HIDE DEF f
<1>15. Steady(f, g) BY <1>14, SetAppSteady, FreeParts, LastsOn
<1> HIDE DEF g
<1>16. Steady(g, Put(g, n, lines)) BY <1>15, PutSteady, LastsOn
<1>17. Steady(Disclose(a, n), c) BY <1>3, <1>6, LastsOn
<1>18. Steady(Disclose(a, n), e) BY <1>17, <1>10, <1>13, LastsOn
<1>19. Steady(Disclose(a, n), g) BY <1>18, <1>14, <1>15, LastsOn
<1>20. Steady(Disclose(a, n), Put(g, n, lines)) BY <1>19, <1>16, LastsOn
<1> QED BY <1>1, <1>2, <1>20, LastsOn DEF Steady, Lasts

LEMMA PhaseSteady ==
  ASSUME NEW a, IsApp(a), NEW n \in Names, NEW name
  PROVE  Steady(a, Phase(a, n, name))
<1> DEFINE b == [a EXCEPT !.log[n].phase = name]
           c == IF name = "checks" THEN ChecksHeading(b, n) ELSE b
           d == IF name = "record" THEN Summarize(StopActivity(c), n) ELSE ShowActivity(c)
<1>1. Phase(a, n, name) \in {a, Put(d, n, <<Detail(name)>>)} BY DEF Phase
<1>2. Steady(a, b) BY SetLogSteady, FreeParts
<1> HIDE DEF b
<1>3. Steady(b, c) BY <1>2, ChecksHeadingSteady, LastsOn
<1> HIDE DEF c
<1>4. Steady(c, StopActivity(c)) /\ Steady(c, ShowActivity(c)) BY <1>3, ActivitySteady, LastsOn
<1>5. Steady(StopActivity(c), Summarize(StopActivity(c), n)) BY <1>4, SummarizeSteady, LastsOn
<1>6. Steady(c, d) BY <1>4, <1>5, LastsOn
<1> HIDE DEF d
<1>7. Steady(d, Put(d, n, <<Detail(name)>>)) BY <1>6, PutSteady, LastsOn
<1>8. Steady(a, d) BY <1>2, <1>3, <1>6, LastsOn
<1> QED BY <1>1, <1>7, <1>8, LastsOn

LEMMA ActivityLineSteady ==
  ASSUME NEW a, IsApp(a), NEW n \in Names, NEW event
  PROVE  Steady(a, Activity(a, n, event))
<1> DEFINE b == IF a.log[n].check # "lines" THEN Put(a, n, <<Extra("stdout")>>) ELSE a
           c == [b EXCEPT !.log[n].check = "lines"]
<1>1. Steady(a, b) BY PutSteady, LastsOn
<1>2. HearCheck(a, n) = c BY DEF HearCheck
<1> HIDE DEF b
<1>3. Steady(b, c) BY <1>1, SetLogSteady, FreeParts, LastsOn
<1>4. Steady(a, HearCheck(a, n)) BY <1>1, <1>2, <1>3, LastsOn
<1> DEFINE d == IF event.source = "checker" /\ event.stream = "stdout" THEN HearCheck(a, n) ELSE a
<1>5. Steady(a, d) BY <1>4, LastsOn
<1>6. \E lines : Activity(a, n, event) = Put(d, n, lines) BY DEF Activity
<1> HIDE DEF d
<1>7. \A lines : Steady(d, Put(d, n, lines)) BY <1>5, PutSteady, LastsOn
<1> QED BY <1>5, <1>6, <1>7, LastsOn

LEMMA MetadataSteady ==
  ASSUME NEW a, IsApp(a), NEW n \in Names, NEW model
  PROVE  Steady(a, Metadata(a, n, model))
<1> DEFINE v == a.models \/ model
           c == [a EXCEPT !.models = v]
<1>1. \E lines : Metadata(a, n, model) = Put(c, n, lines) BY Zenon DEF Metadata
<1> HIDE DEF v
<1>2. Steady(a, c) BY SetAppSteady, FreeParts
<1> HIDE DEF c
<1>3. \A lines : Steady(c, Put(c, n, lines)) BY <1>2, PutSteady, LastsOn
<1> QED BY <1>1, <1>2, <1>3, LastsOn

LEMMA DiagnosticSteady ==
  ASSUME NEW a, IsApp(a), NEW n \in Names, NEW native
  PROVE  Steady(a, Diagnostic(a, n, native))
<1> DEFINE v == a.noticed \/ native
           c == [a EXCEPT !.noticed = v]
<1>1. \E lines : Diagnostic(a, n, native) = Put(c, n, lines) BY Zenon DEF Diagnostic
<1> HIDE DEF v
<1>2. Steady(a, c) BY SetAppSteady, FreeParts
<1> HIDE DEF c
<1>3. \A lines : Steady(c, Put(c, n, lines)) BY <1>2, PutSteady, LastsOn
<1> QED BY <1>1, <1>2, <1>3, LastsOn

LEMMA StopRequestedSteady ==
  ASSUME NEW a, IsApp(a), NEW n \in Names
  PROVE  Steady(a, StopRequested(a, n))
<1>1. Steady(a, StartActivity(a, n)) BY ActivitySteady
<1>2. Steady(StartActivity(a, n), StopRequested(a, n)) BY <1>1, PutSteady, LastsOn DEF StopRequested
<1> QED BY <1>1, <1>2, LastsOn

LEMMA CheckStartedSteady ==
  ASSUME NEW a, IsApp(a), NEW n \in Names
  PROVE  Steady(a, CheckStarted(a, n))
<1> DEFINE b == FlushCheck(a, n, FALSE)
           c == [b EXCEPT !.log[n].check = "silent"]
           d == ChecksHeading(c, n)
           e == Put(d, n, <<Detail("check")>>)
<1>1. CheckStarted(a, n) = ShowActivity(e) BY DEF CheckStarted
<1>2. Steady(a, b) BY FlushCheckSteady
<1> HIDE DEF b
<1>3. Steady(b, c) BY <1>2, SetLogSteady, FreeParts, LastsOn
<1> HIDE DEF c
<1>4. Steady(c, d) BY <1>3, ChecksHeadingSteady, LastsOn
<1> HIDE DEF d
<1>5. Steady(d, e) BY <1>4, PutSteady, LastsOn
<1> HIDE DEF e
<1>6. Steady(e, ShowActivity(e)) BY <1>5, ActivitySteady, LastsOn
<1>7. Steady(a, d) BY <1>2, <1>3, <1>4, LastsOn
<1> QED BY <1>1, <1>5, <1>6, <1>7, LastsOn

LEMMA CheckFinishedSteady ==
  ASSUME NEW a, IsApp(a), NEW n \in Names, NEW outcome
  PROVE  Steady(a, CheckFinished(a, n, outcome))
<1>1. PICK lines : CheckFinished(a, n, outcome) = FlushCheck(Put(a, n, lines), n, TRUE)
  BY DEF CheckFinished
<1>2. Steady(a, Put(a, n, lines)) BY PutSteady
<1>3. Steady(Put(a, n, lines), FlushCheck(Put(a, n, lines), n, TRUE)) BY <1>2, FlushCheckSteady, LastsOn
<1> QED BY <1>1, <1>2, <1>3, LastsOn

LEMMA HeartbeatSteady ==
  ASSUME NEW a, IsApp(a), NEW n \in Names, NEW time
  PROVE  Steady(a, Heartbeat(a, n, time))
<1> DEFINE due == time - a.log[n].noted >= Beat
           noted == IF due THEN time ELSE a.log[n].noted
           b == [a EXCEPT !.log[n].noted = noted]
           c == Put(b, n, When(due, <<Kept("beat")>>))
           i == a.log[n].view
           lived == IF ~a.verbose /\ i # 0 THEN [c EXCEPT !.views[i].liveness = time]
                   ELSE [c EXCEPT !.log[n].spoke = time]
<1>1. Heartbeat(a, n, time) \in {c, Show(lived, <<Seen("still")>>)} BY DEF Heartbeat
<1>2. i # 0 => i \in 1 .. MaxAttempts BY LoggerAssumption DEF IsApp
<1> HIDE DEF noted
<1>3. Steady(a, b) BY SetLogSteady, FreeParts
<1> HIDE DEF b, due
<1>4. Steady(b, c) BY <1>3, PutSteady, LastsOn
<1>5. IsApp(c) BY <1>4, LastsOn
<1> HIDE DEF c
<1>6. ASSUME NEW j \in 1 .. MaxAttempts PROVE Steady(c, [c EXCEPT !.views[j].liveness = time])
  <2>1. IsApp([c EXCEPT !.views[j].liveness = time]) BY <1>5, LivenessIsQuiet DEF Alike
  <2> QED BY <1>5, <2>1 DEF Steady, Lasts, IsApp, AppFields, ScreenFields
<1>7. Steady(c, [c EXCEPT !.log[n].spoke = time]) BY <1>5, SpokeSteady
<1>8. Steady(c, lived) BY <1>2, <1>6, <1>7
<1> HIDE DEF lived
<1>9. Steady(lived, Show(lived, <<Seen("still")>>)) BY <1>8, ShowSteady, LastsOn
<1>10. Steady(a, c) BY <1>3, <1>4, LastsOn
<1>11. Steady(a, Show(lived, <<Seen("still")>>)) BY <1>10, <1>8, <1>9, LastsOn
<1> QED BY <1>1, <1>10, <1>11

LEMMA OnEventSteady ==
  ASSUME NEW a, IsApp(a), NEW n \in Names, NEW event, event.kind \in EventKinds \ {"finished"}, NEW time
  PROVE  /\ Steady(a, OnEvent(a, n, event, time))
         /\ event.kind = "selected" => OnEvent(a, n, event, time).disclosed
<1> DEFINE b == Heard(a, n, event, time)
           noted == IF event.kind \notin {"heartbeat", "metadata", "process"} THEN time ELSE b.log[n].noted
           c == [b EXCEPT !.log[n].noted = noted]
           spoke == IF event.kind # "heartbeat" /\ b.moved THEN time ELSE c.log[n].spoke
           d == [c EXCEPT !.log[n].spoke = spoke]
<1>1. Steady(a, b) /\ (event.kind = "selected" => b.disclosed)
  <2>1. CASE event.kind = "activity" BY <2>1, ActivityLineSteady DEF Heard
  <2>2. CASE event.kind = "metadata" BY <2>2, MetadataSteady DEF Heard
  <2>3. CASE event.kind = "debug" BY <2>3, LinesSteady DEF Heard
  <2>4. CASE event.kind = "skill" BY <2>4, LinesSteady DEF Heard
  <2>5. CASE event.kind = "diagnostic" BY <2>5, DiagnosticSteady DEF Heard
  <2>6. CASE event.kind = "process" BY <2>6, LinesSteady DEF Heard
  <2>7. CASE event.kind = "stop" BY <2>7, StopRequestedSteady DEF Heard
  <2>8. CASE event.kind = "stopped" BY <2>8, LinesSteady DEF Heard
  <2>9. CASE event.kind = "selected" BY <2>9, SelectedSteady DEF Heard
  <2>10. CASE event.kind = "input" BY <2>10, LinesSteady DEF Heard
  <2>11. CASE event.kind = "workspace" BY <2>11, LinesSteady DEF Heard
  <2>12. CASE event.kind = "phase" BY <2>12, PhaseSteady DEF Heard
  <2>13. CASE event.kind = "check" BY <2>13, CheckStartedSteady DEF Heard
  <2>14. CASE event.kind = "checked" BY <2>14, CheckFinishedSteady DEF Heard
  <2>15. CASE event.kind = "heartbeat" BY <2>15, HeartbeatSteady DEF Heard
  <2> QED BY <2>1, <2>2, <2>3, <2>4, <2>5, <2>6, <2>7, <2>8, <2>9, <2>10, <2>11, <2>12, <2>13, <2>14,
             <2>15 DEF EventKinds
<1>2. OnEvent(a, n, event, time) = d BY DEF OnEvent
<1> HIDE DEF b, noted
<1>3. Steady(b, c) BY <1>1, SetLogSteady, FreeParts, LastsOn
<1> HIDE DEF c, spoke
<1>4. Steady(c, d) BY <1>3, SpokeSteady, LastsOn
<1> HIDE DEF d
<1>5. Steady(b, d) BY <1>3, <1>4, LastsOn
<1>6. Steady(a, d) BY <1>1, <1>5, LastsOn
<1>7. b.disclosed => d.disclosed BY <1>5 DEF Steady, Lasts
<1> QED BY <1>1, <1>2, <1>6, <1>7

\* What the command shows of a factory before it runs leaves no animation
LEMMA PreviewSteady ==
  ASSUME NEW a, IsApp(a)
  PROVE  /\ Steady(a, FactoryWork(a)) /\ ~FactoryWork(a).active
         /\ Steady(a, Plan(a)) /\ Steady(a, ChainPlan(a))
         /\ Steady(a, Prompt(a)) /\ Steady(a, FactoryStarted(a))
         /\ Steady(a, RenderError(a)) /\ ~RenderError(a).active
         /\ \A exported : Steady(a, Receipt(a, exported)) /\ (Receipt(a, exported).active => a.active)
<1>1. \A x, lines : IsApp(x) => /\ Steady(x, Put(x, "root", lines))
                                /\ Put(x, "root", lines).active => x.active
  BY PutSteady, ConstantNames
<1> DEFINE b == StopActivity(a)
           c == FlushCheck(b, "root", FALSE)
<1>2. Steady(a, b) /\ ~b.active /\ IsApp(b) BY ActivitySteady, StopIsStill, LastsOn
<1>3. Steady(b, FactoryWork(a)) /\ (FactoryWork(a).active => b.active) BY <1>1, <1>2 DEF FactoryWork
<1>4. Steady(a, FactoryWork(a)) BY <1>2, <1>3, LastsOn
<1>5. Steady(a, Plan(a)) BY <1>1 DEF Plan
<1>6. Steady(FactoryWork(a), ChainPlan(a)) BY <1>1, <1>4, LastsOn DEF ChainPlan
<1>7. Steady(a, ChainPlan(a)) BY <1>4, <1>6, LastsOn
<1>8. Steady(a, Prompt(a)) BY <1>1 DEF Prompt
<1>9. Steady(a, FactoryStarted(a)) BY <1>1 DEF FactoryStarted
<1>10. RenderError(a) = Put(c, "root", <<Both("error"), Both("message"), Detail("code")>>) BY DEF RenderError
<1> HIDE DEF b
<1>11. Steady(b, c) /\ (c.active => b.active) /\ IsApp(c) BY <1>2, FlushCheckSteady, ConstantNames, LastsOn
<1> HIDE DEF c
<1>12. Steady(c, RenderError(a)) /\ (RenderError(a).active => c.active) BY <1>1, <1>10, <1>11
<1>13. Steady(a, c) BY <1>2, <1>11, LastsOn
<1>14. Steady(a, RenderError(a)) BY <1>12, <1>13, LastsOn
<1>15. \A exported : Steady(a, Receipt(a, exported)) /\ (Receipt(a, exported).active => a.active)
  BY <1>1 DEF Receipt
<1> QED BY <1>2, <1>3, <1>4, <1>5, <1>7, <1>8, <1>9, <1>11, <1>12, <1>14, <1>15

\* The result of a contract is told once: its outputs wait for the admission, and the
\* contract counts as complete
LEMMA ResultTells ==
  ASSUME NEW a, IsApp(a), NEW n \in Names, NEW complete, NEW index, NEW feeds
  PROVE  LET r == Result(a, n, complete, index, feeds)
         IN  /\ IsApp(r) /\ r.handed = a.handed /\ r.waiting = a.waiting
             /\ a.disclosed => r.disclosed
             /\ r.pending = a.pending \/ (complete /\ r.pending = index)
             /\ a.complete \subseteq r.complete
             /\ complete /\ a.log[n].step /\ ~a.log[n].finished => index \in r.complete
             /\ ~a.log[n].finished => ~r.active
<1> DEFINE b == [a EXCEPT !.log[n].finished = TRUE]
           c == StopActivity(b)
           d == FlushCheck(c, n, FALSE)
           e == Summarize(d, n)
           inFactory == a.log[n].step
           f == IF ~complete THEN Tails(e, n)
                ELSE IF inFactory /\ feeds THEN [e EXCEPT !.pending = index]
                ELSE Put(e, n, <<Seen("outputs")>>)
           g == IF complete /\ inFactory THEN [f EXCEPT !.complete = @ \cup {index}] ELSE f
           h == IF inFactory THEN g ELSE FinalLeaf(g, n)
           lines == <<Detail("record file"), Detail("artifact"), Detail("observed model"),
                      Detail("logs"), Detail("sensitive")>>
<1>1. Result(a, n, complete, index, feeds) = IF a.log[n].finished THEN a ELSE Put(h, n, lines)
  BY DEF Result
<1> HIDE DEF lines
<1> DEFINE Same(x) == /\ IsApp(x) /\ x.handed = a.handed /\ x.waiting = a.waiting
                      /\ a.disclosed => x.disclosed
                      /\ ~x.active
<1>2. /\ IsApp(b)
      /\ \A p \in {"handed", "waiting", "pending", "complete", "disclosed"} : b[p] = a[p]
  <2>1. IsApp(b) BY Whole, SetLogAlike, ConstantNames
  <2> QED BY <2>1 DEF IsApp, AppFields, ScreenFields
<1> HIDE DEF b, inFactory
<1>3. Steady(b, c) /\ ~c.active /\ IsApp(c) BY <1>2, ActivitySteady, StopIsStill, LastsOn
<1> HIDE DEF c
<1>4. Steady(c, d) /\ (d.active => c.active) /\ IsApp(d) BY <1>3, FlushCheckSteady, LastsOn
<1> HIDE DEF d
<1>5. Steady(d, e) /\ (e.active => d.active) /\ IsApp(e) BY <1>4, SummarizeSteady, LastsOn
<1> HIDE DEF e
<1>6. Steady(b, e) BY <1>3, <1>4, <1>5, LastsOn
<1>7. Same(e) /\ e.pending = a.pending /\ e.complete = a.complete
  BY <1>2, <1>3, <1>4, <1>5, <1>6 DEF Steady, Lasts
<1>8. \A x, text : IsApp(x) => /\ Steady(x, Put(x, n, text)) /\ IsApp(Put(x, n, text))
                               /\ Put(x, n, text).active => x.active
  BY PutSteady, LastsOn
<1>9. Same(f) /\ (f.pending = a.pending \/ (complete /\ f.pending = index)) /\ f.complete = a.complete
  <2>1. CASE complete /\ inFactory /\ feeds
    <3>1. IsApp([e EXCEPT !.pending = index]) BY <1>7, Whole, SetAppAlike, ConstantNames
    <3>2. f = [e EXCEPT !.pending = index] BY <2>1
    <3> HIDE DEF f
    <3> QED BY <1>7, <2>1, <3>1, <3>2 DEF IsApp, AppFields, ScreenFields
  <2>2. CASE ~(complete /\ inFactory /\ feeds)
    <3>1. \E text : f = Put(e, n, text) BY <2>2 DEF Tails
    <3> HIDE DEF f
    <3>2. PICK text : f = Put(e, n, text) BY <3>1
    <3>3. Steady(e, f) /\ IsApp(f) /\ (f.active => e.active) BY <1>7, <1>8, <3>2
    <3> QED BY <1>7, <3>3 DEF Steady, Lasts
  <2> QED BY <2>1, <2>2
<1> HIDE DEF f
<1>10. /\ Same(g) /\ g.pending = f.pending /\ a.complete \subseteq g.complete
       /\ complete /\ inFactory => index \in g.complete
  <2>1. CASE complete /\ inFactory
    <3>1. g = [f EXCEPT !.complete = @ \cup {index}] BY <2>1
    <3> HIDE DEF g
    <3>2. IsApp(g) BY <1>9, <3>1, Whole, SetFactoryAlike
    <3> QED BY <1>9, <3>1, <3>2 DEF IsApp, AppFields, ScreenFields
  <2>2. CASE ~(complete /\ inFactory) BY <1>9, <2>2
  <2> QED BY <2>1, <2>2
<1> HIDE DEF g
<1>11. /\ Same(h) /\ h.pending = g.pending /\ h.complete = g.complete
  <2>1. CASE inFactory BY <1>10, <2>1
  <2>2. CASE ~inFactory
    <3>1. h = Put(g, n, <<Seen("headline")>>) BY <2>2 DEF FinalLeaf
    <3> HIDE DEF h
    <3>2. Steady(g, h) /\ IsApp(h) /\ (h.active => g.active) BY <1>8, <1>10, <3>1
    <3> QED BY <1>10, <3>2 DEF Steady, Lasts
  <2> QED BY <2>1, <2>2
<1> HIDE DEF h
<1> DEFINE r == Put(h, n, lines)
<1>12. Steady(h, r) /\ IsApp(r) /\ (r.active => h.active) BY <1>8, <1>11
<1> HIDE DEF r
<1>13. Same(r) /\ r.pending = h.pending /\ r.complete = h.complete BY <1>11, <1>12 DEF Steady, Lasts
<1>14. CASE a.log[n].finished BY <1>1, <1>14
<1>15. CASE ~a.log[n].finished
  <2>1. Result(a, n, complete, index, feeds) = r BY <1>1, <1>15 DEF r
  <2> QED BY <1>9, <1>10, <1>11, <1>13, <1>15, <2>1 DEF inFactory
<1> QED BY <1>14, <1>15

LEMMA NewLeafLasts ==
  ASSUME NEW a, IsApp(a)
  PROVE  LET r == NewLeaf(a)
         IN  /\ IsApp(r) /\ r.handed = a.handed /\ r.waiting = a.waiting /\ r.pending = a.pending
             /\ r.complete = a.complete /\ (a.disclosed => r.disclosed)
             /\ r.log["leaf"].step /\ ~r.log["leaf"].finished
             /\ r.log["root"].finished = a.log["root"].finished
<1>1. IsApp(NewLeaf(a)) BY NewLeafAlike, Whole
<1> QED BY <1>1, ConstantNames DEF NewLeaf, FreshLogger, IsApp, AppFields, ScreenFields

LEMMA NewAttemptLasts ==
  ASSUME NEW a, IsApp(a), NEW n \in Names \ {"attempt"}, NEW index \in 1 .. MaxAttempts
  PROVE  LET r == NewAttempt(a, n, index)
         IN  /\ IsApp(r) /\ r.handed = a.handed /\ r.waiting = a.waiting /\ r.pending = a.pending
             /\ r.complete = a.complete /\ (a.disclosed => r.disclosed)
             /\ r.log["attempt"].step = a.log[n].step /\ ~r.log["attempt"].finished
             /\ \A m \in Names \ {"attempt"} :
                  r.log[m].step = a.log[m].step /\ r.log[m].finished = a.log[m].finished
<1> DEFINE b == Put(a, n, <<Detail("attempt")>>)
           l == FreshLogger(index, a.log[n].step)
           r == NewAttempt(a, n, index)
<1>1. IsApp(r) BY NewAttemptAlike, Whole
<1>2. Steady(a, b) /\ IsApp(b) BY PutSteady, LastsOn
<1>3. r = [[b EXCEPT !.log["attempt"] = l] EXCEPT !.views[index] = FreshView] BY DEF NewAttempt
<1>4. l.step = a.log[n].step /\ ~l.finished BY DEF FreshLogger
<1> HIDE DEF b, l, r
<1>5. /\ r.log = [b.log EXCEPT !["attempt"] = l]
      /\ \A g \in {"handed", "waiting", "pending", "complete", "disclosed"} : r[g] = b[g]
  BY <1>2, <1>3 DEF IsApp, AppFields, ScreenFields
<1>6. r.log["attempt"] = l /\ \A m \in Names \ {"attempt"} : r.log[m] = b.log[m]
  BY <1>2, <1>5, ConstantNames DEF IsApp
<1>7. \A m \in Names : b.log[m].step = a.log[m].step /\ b.log[m].finished = a.log[m].finished
  BY <1>2 DEF Steady, Lasts
<1>8. /\ r.handed = a.handed /\ r.waiting = a.waiting /\ r.pending = a.pending
      /\ r.complete = a.complete /\ (a.disclosed => r.disclosed)
  BY <1>2, <1>5 DEF Steady, Lasts
<1> QED BY <1>1, <1>4, <1>6, <1>7, <1>8 DEF r

\* What waits is handed on when it was admitted, and waits no longer
LEMMA FlushHandoffHands ==
  ASSUME NEW a, IsApp(a), NEW n \in Names, NEW done
  PROVE  LET r == FlushHandoff(a, n, done)
         IN  /\ IsApp(r) /\ r.waiting = a.waiting /\ r.complete = a.complete /\ (a.disclosed => r.disclosed)
             /\ r.handed \subseteq a.handed \cup (IF done THEN {a.pending} \ {0} ELSE {})
             /\ r.pending = 0 /\ (r.active => a.active)
             /\ r.log["root"].finished = a.log["root"].finished
<1>1. CASE a.pending = 0 BY <1>1 DEF FlushHandoff
<1>2. CASE a.pending # 0
  <2> DEFINE handed == IF done THEN a.handed \cup {a.pending} ELSE a.handed
             b == [a EXCEPT !.handed = handed]
             c == [b EXCEPT !.pending = 0]
             r == Put(c, n, <<Seen("outputs")>>)
  <2>1. FlushHandoff(a, n, done) = r BY <1>2 DEF FlushHandoff
  <2>2. handed \subseteq a.handed \cup (IF done THEN {a.pending} \ {0} ELSE {}) BY <1>2
  <2> HIDE DEF handed
  <2>3. IsApp(b) BY Whole, SetFactoryAlike
  <2>4. b.handed = handed /\ \A g \in {"waiting", "complete", "disclosed", "active", "log"} : b[g] = a[g]
    BY DEF IsApp, AppFields, ScreenFields
  <2> HIDE DEF b
  <2>5. IsApp(c) BY <2>3, Whole, SetAppAlike, ConstantNames
  <2>6. c.pending = 0 /\ \A g \in {"handed", "waiting", "complete", "disclosed", "active", "log"} : c[g] = b[g]
    BY <2>3 DEF IsApp, AppFields, ScreenFields
  <2> HIDE DEF c
  <2>7. Steady(c, r) /\ (r.active => c.active) /\ IsApp(r) BY <2>5, PutSteady, LastsOn
  <2> HIDE DEF r
  <2>8. /\ r.handed = c.handed /\ r.waiting = c.waiting /\ r.pending = c.pending /\ r.complete = c.complete
        /\ c.disclosed => r.disclosed
        /\ r.log["root"].finished = c.log["root"].finished
    BY <2>7, ConstantNames DEF Steady, Lasts
  <2> QED BY <2>1, <2>2, <2>4, <2>6, <2>7, <2>8
<1> QED BY <1>1, <1>2

LEMMA ChainNodeHands ==
  ASSUME NEW a, IsApp(a), NEW index
  PROVE  LET r == ChainNode(a, index)
         IN  /\ IsApp(r) /\ r.waiting = a.waiting /\ r.complete = a.complete /\ (a.disclosed => r.disclosed)
             /\ r.handed \subseteq a.handed \cup ({a.pending} \ {0}) /\ r.pending = 0
             /\ r.log["root"].finished = a.log["root"].finished
<1> DEFINE b == FlushHandoff(a, "root", TRUE)
           c == Put(b, "root", <<Kept("contract"), Seen("header")>>)
           started == c.started \cup {index}
           leaf == [FreshLeaf EXCEPT !.header = TRUE]
           r == ChainNode(a, index)
<1>1. IsApp(r) BY ChainNodeAlike, Whole
<1>2. r = [[c EXCEPT !.started = started] EXCEPT !.leaf = leaf] BY DEF ChainNode
<1>3. /\ IsApp(b) /\ b.waiting = a.waiting /\ b.complete = a.complete /\ (a.disclosed => b.disclosed)
      /\ b.handed \subseteq a.handed \cup ({a.pending} \ {0}) /\ b.pending = 0
      /\ b.log["root"].finished = a.log["root"].finished
  BY FlushHandoffHands, ConstantNames
<1> HIDE DEF b, started, leaf, r
<1>4. Steady(b, c) /\ IsApp(c) BY <1>3, PutSteady, ConstantNames, LastsOn
<1> HIDE DEF c
<1>5. \A g \in {"handed", "waiting", "pending", "complete", "disclosed", "log"} : r[g] = c[g]
  BY <1>2, <1>4 DEF IsApp, AppFields, ScreenFields
<1>6. /\ c.handed = b.handed /\ c.waiting = b.waiting /\ c.pending = b.pending /\ c.complete = b.complete
      /\ b.disclosed => c.disclosed
      /\ c.log["root"].finished = b.log["root"].finished
  BY <1>4, ConstantNames DEF Steady, Lasts
<1> QED BY <1>1, <1>3, <1>5, <1>6 DEF r

\* Nothing is said to wait for what is complete
LEMMA ChainStoppedWaits ==
  ASSUME NEW a, IsApp(a), NEW producers
  PROVE  LET r == ChainStopped(a, producers)
         IN  /\ IsApp(r) /\ r.complete = a.complete /\ r.handed \subseteq a.handed /\ r.pending = 0
             /\ r.waiting \cap a.complete = {} /\ (a.disclosed => r.disclosed)
             /\ r.log["root"].finished = a.log["root"].finished
<1> DEFINE b == StopActivity(a)
           c == Put(b, "root", <<Kept("stopped")>>)
           d == FlushHandoff(c, "root", FALSE)
           waiting == UNION {producers[n] \ d.complete : n \in Nodes \ d.started}
           e == [d EXCEPT !.waiting = waiting]
           lines == When(Nodes # d.started, <<Seen("not started")>>)
           r == Put(e, "root", lines)
<1>1. ChainStopped(a, producers) = r BY Zenon DEF ChainStopped
<1>2. waiting \cap d.complete = {} OBVIOUS
<1> HIDE DEF waiting, lines
<1>3. Steady(a, b) /\ IsApp(b) BY ActivitySteady, LastsOn
<1> HIDE DEF b
<1>4. Steady(b, c) /\ IsApp(c) BY <1>3, PutSteady, ConstantNames, LastsOn
<1>5. Steady(a, c) BY <1>3, <1>4, LastsOn
<1> HIDE DEF c
<1>6. /\ IsApp(d) /\ d.complete = c.complete /\ (c.disclosed => d.disclosed)
      /\ d.handed \subseteq c.handed /\ d.pending = 0 /\ d.log["root"].finished = c.log["root"].finished
  BY <1>4, FlushHandoffHands, ConstantNames
<1> HIDE DEF d
<1>7. IsApp(e) BY <1>6, Whole, SetFactoryAlike
<1>8. e.waiting = waiting /\ \A g \in {"handed", "pending", "complete", "disclosed", "log"} : e[g] = d[g]
  BY <1>6 DEF IsApp, AppFields, ScreenFields
<1> HIDE DEF e
<1>9. Steady(e, r) /\ IsApp(r) BY <1>7, PutSteady, ConstantNames, LastsOn
<1> HIDE DEF r
<1>10. /\ r.handed = e.handed /\ r.waiting = e.waiting /\ r.pending = e.pending /\ r.complete = e.complete
       /\ e.disclosed => r.disclosed
       /\ r.log["root"].finished = e.log["root"].finished
  BY <1>9, ConstantNames DEF Steady, Lasts
<1>11. /\ c.handed = a.handed /\ c.complete = a.complete /\ (a.disclosed => c.disclosed)
       /\ c.log["root"].finished = a.log["root"].finished
  BY <1>5, ConstantNames DEF Steady, Lasts
<1> QED BY <1>1, <1>2, <1>6, <1>8, <1>9, <1>10, <1>11

LEMMA ChainResultHands ==
  ASSUME NEW a, IsApp(a), NEW complete
  PROVE  LET r == ChainResult(a, complete)
         IN  /\ IsApp(r) /\ r.waiting = a.waiting /\ r.complete = a.complete /\ ~r.active
             /\ r.handed \subseteq a.handed \cup (IF complete THEN {a.pending} \ {0} ELSE {})
<1> DEFINE b == StopActivity(a)
           c == FlushHandoff(b, "root", complete)
           d == Put(c, "root", <<Seen("headline")>>)
           lines == When(~complete, <<Detail("stop reason")>>) \o <<Detail("record file")>>
           r == Put(d, "root", lines)
<1>1. ChainResult(a, complete) = r BY DEF ChainResult
<1> HIDE DEF lines
<1>2. Steady(a, b) /\ IsApp(b) /\ ~b.active BY ActivitySteady, StopIsStill, LastsOn
<1> HIDE DEF b
<1>3. /\ IsApp(c) /\ c.waiting = b.waiting /\ c.complete = b.complete /\ (c.active => b.active)
      /\ c.handed \subseteq b.handed \cup (IF complete THEN {b.pending} \ {0} ELSE {})
  BY <1>2, FlushHandoffHands, ConstantNames
<1> HIDE DEF c
<1>4. Steady(c, d) /\ IsApp(d) /\ (d.active => c.active) BY <1>3, PutSteady, ConstantNames, LastsOn
<1> HIDE DEF d
<1>5. Steady(d, r) /\ IsApp(r) /\ (r.active => d.active) BY <1>4, PutSteady, ConstantNames, LastsOn
<1> HIDE DEF r
<1>6. /\ b.handed = a.handed /\ b.waiting = a.waiting /\ b.pending = a.pending
      /\ d.handed = c.handed /\ d.waiting = c.waiting /\ r.handed = d.handed /\ r.waiting = d.waiting
      /\ b.complete = a.complete /\ d.complete = c.complete /\ r.complete = d.complete
  BY <1>2, <1>4, <1>5 DEF Steady, Lasts
<1> QED BY <1>1, <1>2, <1>3, <1>4, <1>5, <1>6

-----------------------------------------------------------------------------
(* The steps of a command *)

\* Before the run the command's own logger is open
Early == {"select", "ask_preparation", "ask_factory", "load", "source", "invoke", "read", "context",
          "imports", "admitted"}
\* While an agent may run or has run
AgentSteps == {"preflight", "inputs", "workspace", "execution", "agent"}
AttemptSteps == AgentSteps \cup {"attach", "captured", "check", "checking", "record", "attempted"}

Truth(a) ==
  /\ IsApp(a)
  /\ a.handed \subseteq admitted
  /\ a.waiting \cap admitted = {} /\ (at \notin {"report", "end"} => a.waiting = {})
  /\ \/ a.pending \in {0} \cup admitted
     \/ at = "leaf_done" /\ fate = "complete" /\ a.pending = node
     \/ at \in {"stop", "end"}
  /\ admitted \subseteq a.complete /\ (at = "leaf_done" /\ fate = "complete" => node \in a.complete)
  /\ at \in {"select", "ask_preparation", "ask_factory", "end"} => ~a.active
  /\ at \in AgentSteps => a.disclosed
  /\ at \in Early => ~a.log["root"].closed
  /\ ~request.factory /\ at # "end" => ~a.log["root"].finished
  /\ request.factory /\ at \in AttemptSteps \cup {"contract", "attempt"}
       => a.log["leaf"].step /\ ~a.log["leaf"].finished
  /\ request.factory /\ request.repaired /\ at \in AttemptSteps
       => a.log["attempt"].step /\ ~a.log["attempt"].finished

TruthInv ==
  /\ {"package", "interactive", "allowed", "factory", "repaired"} \subseteq DOMAIN request
  /\ attempt \in 0 .. MaxAttempts
  /\ \A s \in Screens : Truth(screen[s])

LEMMA AtRestSteady ==
  ASSUME NEW a, IsApp(a)
  PROVE  Steady(a, AtRest(a)) /\ AtRest(a).active = a.active
<1> DEFINE b == [a EXCEPT !.breaks = FALSE]
           c == [b EXCEPT !.moved = FALSE]
           d == [c EXCEPT !.wrote = <<>>]
<1>1. AtRest(a) = d BY DEF AtRest
<1>2. d.active = a.active BY DEF IsApp, AppFields, ScreenFields
<1>3. Steady(a, b) BY SetAppSteady, FreeParts
<1> HIDE DEF b
<1>4. Steady(b, c) BY <1>3, SetAppSteady, FreeParts, LastsOn
<1> HIDE DEF c
<1>5. Steady(c, d) BY <1>4, SetAppSteady, FreeParts, LastsOn
<1> HIDE DEF d
<1> QED BY <1>1, <1>2, <1>3, <1>4, <1>5, LastsOn

LEMMA FacedSteady ==
  ASSUME NEW s \in Screens, IsApp(screen[s]), NEW broken
  PROVE  Steady(screen[s], Faced(broken, s)) /\ Faced(broken, s).active = screen[s].active
         /\ IsApp(Faced(broken, s))
<1> DEFINE v == s \in broken
           a == screen[s]
           b == [a EXCEPT !.breaks = v]
<1>1. Faced(broken, s) = b BY DEF Faced
<1> HIDE DEF v
<1>2. b.active = a.active BY DEF IsApp, AppFields, ScreenFields
<1>3. Steady(a, b) BY SetAppSteady, FreeParts
<1> QED BY <1>1, <1>2, <1>3, LastsOn

\* What a call does to a screen is what its methods do
LEMMA AnsweredReaches ==
  ASSUME NEW shown, Answered(shown), NEW s \in Screens, IsApp(shown[s])
  PROVE  Steady(shown[s], screen'[s]) /\ screen'[s].active = shown[s].active /\ IsApp(screen'[s])
<1>1. screen'[s] = AtRest(shown[s]) BY DEF Answered, AtRest
<1> QED BY <1>1, AtRestSteady, LastsOn

LEMMA AnsweredSteady ==
  ASSUME TruthInv, NEW broken, NEW shown, Answered(shown),
         \A s \in Screens : Steady(Faced(broken, s), shown[s])
  PROVE  \A s \in Screens : Steady(screen[s], screen'[s])
<1> SUFFICES ASSUME NEW s \in Screens PROVE Steady(screen[s], screen'[s]) OBVIOUS
<1>1. Steady(screen[s], Faced(broken, s)) BY FacedSteady DEF TruthInv, Truth
<1>2. Steady(Faced(broken, s), shown[s]) /\ IsApp(shown[s]) BY LastsOn
<1>3. Steady(shown[s], screen'[s]) BY <1>2, AnsweredReaches
<1> QED BY <1>1, <1>2, <1>3, LastsOn

LEMMA FacedWhole ==
  ASSUME TruthInv, NEW broken
  PROVE  \A s \in Screens : IsApp(Faced(broken, s))
BY FacedSteady DEF TruthInv, Truth

LEMMA IdleSteady ==
  ASSUME TruthInv, Call(LAMBDA a : a)
  PROVE  \A s \in Screens : Steady(screen[s], screen'[s]) /\ screen'[s].active = screen[s].active
<1>1. PICK broken : Answered([s \in Screens |-> Faced(broken, s)]) BY DEF Call, Answered, Faced
<1>2. \A s \in Screens : Steady(Faced(broken, s), Faced(broken, s)) BY FacedWhole, LastsOn
<1>3. \A s \in Screens : Steady(screen[s], screen'[s]) BY <1>1, <1>2, AnsweredSteady
<1>4. ASSUME NEW s \in Screens PROVE screen'[s].active = screen[s].active
  BY <1>1, FacedWhole, FacedSteady, AnsweredReaches DEF TruthInv, Truth
<1> QED BY <1>3, <1>4

LEMMA NamesOfLeaf == Leaf \in Names \ {"attempt"} BY DEF Leaf, Names

\* A step whose calls change nothing of what is told, from and to states where nothing
\* more is asked of it
LEMMA TruthLasts ==
  ASSUME TruthInv, NEW s \in Screens, Lasts(screen[s], screen'[s]),
         UNCHANGED <<request, admitted>>,
         at \notin {"leaf_done", "stop", "end"}, at' # "leaf_done",
         at' \notin {"report", "end"} => at # "report",
         at' \in {"select", "ask_preparation", "ask_factory", "end"} => ~screen'[s].active,
         at' \in AgentSteps => at \in AgentSteps \/ screen'[s].disclosed,
         at' \in Early => at \in Early /\ Steady(screen[s], screen'[s]),
         request.factory /\ at' \in AttemptSteps \cup {"contract", "attempt"}
           => at \in AttemptSteps \cup {"contract", "attempt"},
         request.factory /\ request.repaired /\ at' \in AttemptSteps => at \in AttemptSteps
  PROVE  Truth(screen[s])'
<1> DEFINE a == screen[s]
           b == screen'[s]
<1>1. Truth(a) BY DEF TruthInv
<1>2. /\ IsApp(b) /\ b.handed = a.handed /\ b.waiting = a.waiting /\ b.pending = a.pending
      /\ b.complete = a.complete /\ (a.disclosed => b.disclosed)
      /\ \A n \in Names : b.log[n].step = a.log[n].step /\ b.log[n].finished = a.log[n].finished
  BY DEF Lasts
<1>3. at' \in Early => ~b.log["root"].closed
  BY <1>1, ConstantNames DEF Truth, Steady
<1> HIDE DEF a, b
<1>4. /\ b.handed \subseteq admitted'
      /\ b.waiting \cap admitted' = {} /\ (at' \notin {"report", "end"} => b.waiting = {})
      /\ b.pending \in {0} \cup admitted' /\ admitted' \subseteq b.complete
  BY <1>1, <1>2 DEF Truth
<1>5. at' \in AgentSteps => b.disclosed BY <1>1, <1>2 DEF Truth, b
<1>6. /\ ~request'.factory /\ at' # "end" => ~b.log["root"].finished
      /\ request'.factory /\ at' \in AttemptSteps \cup {"contract", "attempt"}
           => b.log["leaf"].step /\ ~b.log["leaf"].finished
      /\ request'.factory /\ request'.repaired /\ at' \in AttemptSteps
           => b.log["attempt"].step /\ ~b.log["attempt"].finished
  BY <1>1, <1>2, ConstantNames DEF Truth
<1> QED BY <1>2, <1>3, <1>4, <1>5, <1>6 DEF Truth, b

LEMMA SelectTells ==
  ASSUME TruthInv, Select
  PROVE  TruthInv'
<1> DEFINE shown(x) == IF request.planning \/ request.factory THEN x ELSE Disclose(x, "root")
<1>1. PICK broken : Answered([s \in Screens |-> shown(Faced(broken, s))])
  BY DEF Select, Call, Answered, Faced
<1>2. \A x : IsApp(x) => Steady(x, shown(x)) /\ IsApp(shown(x)) /\ (shown(x).active => x.active)
  BY DiscloseSteady, ConstantNames, LastsOn
<1> HIDE DEF shown
<1>3. \A s \in Screens : Steady(screen[s], screen'[s]) BY <1>1, <1>2, FacedWhole, AnsweredSteady
<1>4. ASSUME NEW s \in Screens PROVE screen'[s].active => screen[s].active
  BY <1>1, <1>2, FacedWhole, FacedSteady, AnsweredReaches DEF TruthInv, Truth
<1>5. /\ at = "select" /\ at' \in {"invoke", "load", "ask_preparation", "refused"}
      /\ UNCHANGED <<request, attempt, admitted>>
  BY DEF Select, Go, Still, Before
<1>6. ASSUME NEW s \in Screens PROVE Truth(screen[s])'
  BY <1>3, <1>4, <1>5, LastsOn, TruthLasts DEF TruthInv, Truth, Early, AgentSteps, AttemptSteps
<1> QED BY <1>5, <1>6 DEF TruthInv

LEMMA ApproveTells ==
  ASSUME TruthInv, Approve
  PROVE  TruthInv'
<1>1. \A s \in Screens : Steady(screen[s], screen'[s])
  <2> DEFINE shown(x) == Prompt(IF at = "ask_factory" THEN Disclose(x, "root") ELSE x)
  <2>1. PICK broken : Answered([s \in Screens |-> shown(Faced(broken, s))])
    BY DEF Approve, Call, Answered, Faced
  <2>2. \A x : IsApp(x) => Steady(x, shown(x))
    BY DiscloseSteady, PreviewSteady, ConstantNames, LastsOn
  <2> HIDE DEF shown
  <2> QED BY <2>1, <2>2, FacedWhole, AnsweredSteady
<1>2. at \in {"ask_preparation", "ask_factory"} /\ at' \in {"refused", "context", "load"} /\ UNCHANGED <<request, attempt, admitted>>
  BY DEF Approve, Go, Still, Before
<1>3. ASSUME NEW s \in Screens PROVE Truth(screen[s])'
  BY <1>1, <1>2, LastsOn, TruthLasts DEF TruthInv, Early, AgentSteps, AttemptSteps
<1> QED BY <1>2, <1>3 DEF TruthInv

LEMMA PrepareTells ==
  ASSUME TruthInv, NEW from \in {"source", "imports"}, NEW to \in {"invoke", "admitted"},
         Prepare(from, to)
  PROVE  TruthInv'
<1>1. \A s \in Screens : Steady(screen[s], screen'[s])
  <2>1. CASE Call(LAMBDA a : Installing(a, "root", [frozen |-> request.package, preview |-> request.planning]))
    <3> DEFINE shown(x) == Installing(x, "root", [frozen |-> request.package, preview |-> request.planning])
    <3>1. PICK broken : Answered([s \in Screens |-> shown(Faced(broken, s))])
      BY <2>1 DEF Call, Answered, Faced
    <3>2. \A x : IsApp(x) => Steady(x, shown(x))
      BY PreparationSteady, ConstantNames
    <3> HIDE DEF shown
    <3> QED BY <3>1, <3>2, FacedWhole, AnsweredSteady
  <2>2. CASE \E routine \in BOOLEAN : Call(LAMBDA a : ApmOutput(a, "root", [routine |-> routine]))
    <3>1. PICK routine \in BOOLEAN : Call(LAMBDA a : ApmOutput(a, "root", [routine |-> routine])) BY <2>2
    <3> DEFINE shown(x) == ApmOutput(x, "root", [routine |-> routine])
    <3>2. PICK broken : Answered([s \in Screens |-> shown(Faced(broken, s))])
      BY <3>1 DEF Call, Answered, Faced
    <3>3. \A x : IsApp(x) => Steady(x, shown(x))
      BY LinesSteady, ConstantNames
    <3> HIDE DEF shown
    <3> QED BY <3>2, <3>3, FacedWhole, AnsweredSteady
  <2>3. CASE Call(LAMBDA a : Installed(a, "root"))
    <3> DEFINE shown(x) == Installed(x, "root")
    <3>1. PICK broken : Answered([s \in Screens |-> shown(Faced(broken, s))])
      BY <2>3 DEF Call, Answered, Faced
    <3>2. \A x : IsApp(x) => Steady(x, shown(x))
      BY PreparationSteady, ConstantNames
    <3> HIDE DEF shown
    <3> QED BY <3>1, <3>2, FacedWhole, AnsweredSteady
  <2>4. CASE Call(LAMBDA a : StopActivity(a))
    <3> DEFINE shown(x) == StopActivity(x)
    <3>1. PICK broken : Answered([s \in Screens |-> shown(Faced(broken, s))])
      BY <2>4 DEF Call, Answered, Faced
    <3>2. \A x : IsApp(x) => Steady(x, shown(x))
      BY ActivitySteady
    <3> HIDE DEF shown
    <3> QED BY <3>1, <3>2, FacedWhole, AnsweredSteady
  <2>5. CASE Call(LAMBDA a : a) BY <2>5, IdleSteady
  <2> QED BY <2>1, <2>2, <2>3, <2>4, <2>5 DEF Prepare
<1>2. at = from /\ at' \in {from, to, "refused"} /\ UNCHANGED <<request, attempt, admitted>>
  BY DEF Prepare, Go, Still, Before
<1>3. ASSUME NEW s \in Screens PROVE Truth(screen[s])'
  BY <1>1, <1>2, LastsOn, TruthLasts DEF TruthInv, Early, AgentSteps, AttemptSteps
<1> QED BY <1>2, <1>3 DEF TruthInv

LEMMA LoadTells ==
  ASSUME TruthInv, Load
  PROVE  TruthInv'
<1>1. \A s \in Screens : Steady(screen[s], screen'[s])
  <2> DEFINE shown(x) == StartActivity(x, "root")
  <2>1. PICK broken : Answered([s \in Screens |-> shown(Faced(broken, s))])
    BY DEF Load, Call, Answered, Faced
  <2>2. \A x : IsApp(x) => Steady(x, shown(x))
    BY ActivitySteady, ConstantNames
  <2> HIDE DEF shown
  <2> QED BY <2>1, <2>2, FacedWhole, AnsweredSteady
<1>2. at = "load" /\ at' = "source" /\ UNCHANGED <<request, attempt, admitted>>
  BY DEF Load, Go, Still, Before
<1>3. ASSUME NEW s \in Screens PROVE Truth(screen[s])'
  BY <1>1, <1>2, LastsOn, TruthLasts DEF TruthInv, Early, AgentSteps, AttemptSteps
<1> QED BY <1>2, <1>3 DEF TruthInv

LEMMA InvokeTells ==
  ASSUME TruthInv, Invoke
  PROVE  TruthInv'
<1>1. \A s \in Screens : Steady(screen[s], screen'[s])
  <2> DEFINE shown(x) == StartActivity(IF request.planning \/ request.factory THEN x
                         ELSE Disclose(x, "root"), "root")
  <2>1. PICK broken : Answered([s \in Screens |-> shown(Faced(broken, s))])
    BY DEF Invoke, Call, Answered, Faced
  <2>2. \A x : IsApp(x) => Steady(x, shown(x))
    BY ActivitySteady, DiscloseSteady, ConstantNames, LastsOn
  <2> HIDE DEF shown
  <2> QED BY <2>1, <2>2, FacedWhole, AnsweredSteady
<1>2. at = "invoke" /\ at' = "read" /\ UNCHANGED <<request, attempt, admitted>>
  BY DEF Invoke, Go, Still, Before
<1>3. ASSUME NEW s \in Screens PROVE Truth(screen[s])'
  BY <1>1, <1>2, LastsOn, TruthLasts DEF TruthInv, Early, AgentSteps, AttemptSteps
<1> QED BY <1>2, <1>3 DEF TruthInv

LEMMA ContextTells ==
  ASSUME TruthInv, Context
  PROVE  TruthInv'
<1>1. \A s \in Screens : Steady(screen[s], screen'[s])
  <2> DEFINE shown(x) == IF request.factory /\ ~request.planning THEN Disclose(x, "root") ELSE x
  <2>1. PICK broken : Answered([s \in Screens |-> shown(Faced(broken, s))])
    BY DEF Context, Call, Answered, Faced
  <2>2. \A x : IsApp(x) => Steady(x, shown(x))
    BY DiscloseSteady, ConstantNames, LastsOn
  <2> HIDE DEF shown
  <2> QED BY <2>1, <2>2, FacedWhole, AnsweredSteady
<1>2. at = "context" /\ at' = "imports" /\ UNCHANGED <<request, attempt, admitted>>
  BY DEF Context, Go, Still, Before
<1>3. ASSUME NEW s \in Screens PROVE Truth(screen[s])'
  BY <1>1, <1>2, LastsOn, TruthLasts DEF TruthInv, Early, AgentSteps, AttemptSteps
<1> QED BY <1>2, <1>3 DEF TruthInv

LEMMA ReadTells ==
  ASSUME TruthInv, Read
  PROVE  TruthInv'
<1>1. /\ at = "read" /\ at' \in {"ask_factory", "context", "refused"}
      /\ UNCHANGED <<request, attempt, admitted>>
  BY DEF Read, Go, Still, Before
<1>2. CASE Call(LAMBDA a : FactoryWork(a))
  <2>1. PICK broken : Answered([s \in Screens |-> FactoryWork(Faced(broken, s))])
    BY <1>2 DEF Call, Answered, Faced
  <2>2. \A x : IsApp(x) => Steady(x, FactoryWork(x)) /\ IsApp(FactoryWork(x)) /\ ~FactoryWork(x).active
    BY PreviewSteady, LastsOn
  <2>3. \A s \in Screens : Steady(screen[s], screen'[s]) BY <2>1, <2>2, FacedWhole, AnsweredSteady
  <2>4. \A s \in Screens : ~screen'[s].active BY <2>1, <2>2, FacedWhole, AnsweredReaches
  <2>5. ASSUME NEW s \in Screens PROVE Truth(screen[s])'
    BY <1>1, <2>3, <2>4, LastsOn, TruthLasts DEF TruthInv, Early, AgentSteps, AttemptSteps
  <2> QED BY <1>1, <2>5 DEF TruthInv
<1>3. CASE Call(LAMBDA a : a) /\ at' # "ask_factory"
  <2>1. \A s \in Screens : Steady(screen[s], screen'[s]) BY <1>3, IdleSteady
  <2>2. ASSUME NEW s \in Screens PROVE Truth(screen[s])'
    BY <1>1, <1>3, <2>1, LastsOn, TruthLasts DEF TruthInv, Early, AgentSteps, AttemptSteps
  <2> QED BY <1>1, <2>2 DEF TruthInv
<1> QED BY <1>2, <1>3 DEF Read, Go

\* A command that ends, or an attempt, closes its logger last
LEMMA ClosedLasts ==
  ASSUME TruthInv, NEW broken, NEW shown, NEW n \in Names,
         Answered([s \in Screens |-> Close(shown[s], n)]),
         \A s \in Screens : Lasts(Faced(broken, s), shown[s])
  PROVE  \A s \in Screens : /\ Lasts(screen[s], screen'[s])
                            /\ screen'[s].active => shown[s].active /\ shown[s].log[n].closed
<1> SUFFICES ASSUME NEW s \in Screens
             PROVE  /\ Lasts(screen[s], screen'[s])
                    /\ screen'[s].active => shown[s].active /\ shown[s].log[n].closed
  OBVIOUS
<1> DEFINE r == Close(shown[s], n)
<1>1. Lasts(screen[s], Faced(broken, s)) BY FacedSteady, LastsOn DEF TruthInv, Truth
<1>2. Lasts(shown[s], r) /\ (r.active => shown[s].active /\ shown[s].log[n].closed) /\ IsApp(r)
  BY CloseLasts, LastsOn
<1>3. Lasts(r, screen'[s]) /\ screen'[s].active = r.active
  <2> DEFINE told == [t \in Screens |-> Close(shown[t], n)]
  <2>1. Answered(told) /\ told[s] = r OBVIOUS
  <2> HIDE DEF told, r
  <2> QED BY <1>2, <2>1, AnsweredReaches, LastsOn
<1> QED BY <1>1, <1>2, <1>3, LastsOn

LEMMA UnavailableTells ==
  ASSUME TruthInv, Unavailable
  PROVE  TruthInv'
<1>1. at = "source" /\ at' = "end" /\ UNCHANGED <<request, attempt, admitted>>
  BY DEF Unavailable, Go, Still, Before
<1>2. PICK broken : Answered([s \in Screens |-> Close(StopActivity(Faced(broken, s)), "root")])
  BY DEF Unavailable, Call, Answered, Faced
<1> DEFINE shown == [s \in Screens |-> StopActivity(Faced(broken, s))]
<1>3. \A s \in Screens : Lasts(Faced(broken, s), shown[s]) /\ ~shown[s].active
  BY FacedWhole, ActivitySteady, StopIsStill, LastsOn
<1>4. Answered([s \in Screens |-> Close(shown[s], "root")]) BY <1>2 DEF Answered
<1> HIDE DEF shown
<1>5. \A s \in Screens : Lasts(screen[s], screen'[s]) /\ ~screen'[s].active
  BY <1>3, <1>4, ClosedLasts, ConstantNames
<1>6. ASSUME NEW s \in Screens PROVE Truth(screen[s])'
  BY <1>1, <1>5, TruthLasts DEF TruthInv, Early, AgentSteps, AttemptSteps
<1> QED BY <1>1, <1>6 DEF TruthInv

LEMMA RefuseCommandTells ==
  ASSUME TruthInv, RefuseCommand
  PROVE  TruthInv'
<1>1. at = "refused" /\ at' = "end" /\ UNCHANGED <<request, attempt, admitted>>
  BY DEF RefuseCommand, Go, Still, Before
<1>2. PICK broken : Answered([s \in Screens |-> Close(RenderError(Faced(broken, s)), "root")])
  BY DEF RefuseCommand, Call, Answered, Faced
<1> DEFINE shown == [s \in Screens |-> RenderError(Faced(broken, s))]
<1>3. \A s \in Screens : Lasts(Faced(broken, s), shown[s]) /\ ~shown[s].active
  BY FacedWhole, PreviewSteady, LastsOn
<1>4. Answered([s \in Screens |-> Close(shown[s], "root")]) BY <1>2 DEF Answered
<1> HIDE DEF shown
<1>5. \A s \in Screens : Lasts(screen[s], screen'[s]) /\ ~screen'[s].active
  BY <1>3, <1>4, ClosedLasts, ConstantNames
<1>6. ASSUME NEW s \in Screens PROVE Truth(screen[s])'
  BY <1>1, <1>5, TruthLasts DEF TruthInv, Early, AgentSteps, AttemptSteps
<1> QED BY <1>1, <1>6 DEF TruthInv

\* From here on the options are not read again: what the run is stays
LEMMA StartTells ==
  ASSUME TruthInv, Start
  PROVE  TruthInv'
<1>1. /\ at = "admitted" /\ UNCHANGED <<attempt, admitted>>
      /\ request' = [request EXCEPT !.package = FALSE, !.interactive = FALSE, !.allowed = FALSE]
  BY Zenon DEF Start, Before
<1>2. request'.factory = request.factory /\ request'.repaired = request.repaired
      /\ DOMAIN request' = DOMAIN request
  BY <1>1 DEF TruthInv
<1>3. CASE at' = "end" /\ Call(LAMBDA a : Close(IF request.factory THEN ChainPlan(a) ELSE Plan(a), "root"))
  <2> DEFINE told(x) == IF request.factory THEN ChainPlan(x) ELSE Plan(x)
  <2>1. PICK broken : Answered([s \in Screens |-> Close(told(Faced(broken, s)), "root")])
    BY <1>3 DEF Call, Answered, Faced
  <2> DEFINE shown == [s \in Screens |-> told(Faced(broken, s))]
  <2>2. \A x : IsApp(x) => Steady(x, told(x)) BY PreviewSteady
  <2> HIDE DEF told
  <2>3. \A s \in Screens : Steady(Faced(broken, s), shown[s]) BY <2>2, FacedWhole
  <2>4. Answered([s \in Screens |-> Close(shown[s], "root")]) BY <2>1 DEF Answered
  <2> HIDE DEF shown
  <2>5. \A s \in Screens : /\ Lasts(screen[s], screen'[s])
                           /\ screen'[s].active => shown[s].log["root"].closed
    BY <2>3, <2>4, ClosedLasts, LastsOn, ConstantNames
  <2>6. ASSUME NEW s \in Screens PROVE ~screen'[s].active
    <3>1. Steady(screen[s], shown[s]) BY <2>3, FacedSteady, LastsOn DEF TruthInv, Truth
    <3>2. ~screen[s].log["root"].closed BY <1>1 DEF TruthInv, Truth, Early
    <3> QED BY <2>5, <3>1, <3>2, ConstantNames DEF Steady
  <2>7. ASSUME NEW s \in Screens PROVE Truth(screen[s])'
    BY <1>1, <1>2, <1>3, <2>5, <2>6, ConstantNames
       DEF TruthInv, Truth, Lasts, Early, AgentSteps, AttemptSteps
  <2> QED BY <1>1, <1>2, <2>7 DEF TruthInv
<1>4. CASE /\ at' = IF request.factory THEN "node" ELSE "contract"
           /\ Call(LAMBDA a : IF request.factory THEN Attach(FactoryStarted(Disclose(a, "root")), "root")
                              ELSE Imports(a, "root", request.imports))
  <2> DEFINE shown(x) == IF request.factory THEN Attach(FactoryStarted(Disclose(x, "root")), "root")
                         ELSE Imports(x, "root", request.imports)
  <2>1. PICK broken : Answered([s \in Screens |-> shown(Faced(broken, s))])
    BY <1>4 DEF Call, Answered, Faced
  <2>2. ASSUME NEW x, IsApp(x) PROVE Steady(x, shown(x))
    <3>1. Steady(x, Imports(x, "root", request.imports)) BY <2>2, LinesSteady, ConstantNames
    <3>2. Steady(x, Disclose(x, "root")) BY <2>2, DiscloseSteady, ConstantNames
    <3>3. Steady(Disclose(x, "root"), FactoryStarted(Disclose(x, "root"))) BY <3>2, PreviewSteady, LastsOn
    <3>4. Steady(x, FactoryStarted(Disclose(x, "root"))) BY <3>2, <3>3, LastsOn
    <3>5. Steady(FactoryStarted(Disclose(x, "root")), Attach(FactoryStarted(Disclose(x, "root")), "root"))
      BY <3>4, AttachSteady, ConstantNames, LastsOn
    <3> QED BY <3>1, <3>4, <3>5, LastsOn
  <2> HIDE DEF shown
  <2>3. \A s \in Screens : Steady(screen[s], screen'[s]) BY <2>1, <2>2, FacedWhole, AnsweredSteady
  <2>4. ASSUME NEW s \in Screens PROVE Truth(screen[s])'
    BY <1>1, <1>2, <1>4, <2>3, ConstantNames
       DEF TruthInv, Truth, Lasts, Steady, Early, AgentSteps, AttemptSteps
  <2> QED BY <1>1, <1>2, <2>4 DEF TruthInv
<1> QED BY <1>3, <1>4 DEF Start, Go

LEMMA TellSteady ==
  ASSUME TruthInv, NEW n \in Names, NEW event, event.kind \in EventKinds \ {"finished"}, Tell(n, event)
  PROVE  \A s \in Screens : Steady(screen[s], screen'[s])
<1> DEFINE shown(x) == OnEvent(x, n, event, now)
<1>1. PICK broken : Answered([s \in Screens |-> shown(Faced(broken, s))])
  BY DEF Tell, Call, Answered, Faced
<1>2. \A x : IsApp(x) => Steady(x, shown(x)) BY OnEventSteady
<1> HIDE DEF shown
<1> QED BY <1>1, <1>2, FacedWhole, AnsweredSteady

\* A step of an attempt that tells nothing of the factory
LEMMA AttemptTells ==
  ASSUME TruthInv, \A s \in Screens : Steady(screen[s], screen'[s]),
         UNCHANGED <<request, attempt, admitted>>,
         at \in AttemptSteps, at' \in AttemptSteps, at' \in AgentSteps => at \in AgentSteps
  PROVE  TruthInv'
<1>1. ASSUME NEW s \in Screens PROVE Truth(screen[s])'
  BY LastsOn, TruthLasts DEF TruthInv, Early, AgentSteps, AttemptSteps
<1> QED BY <1>1 DEF TruthInv

\* Wherever an agent may run, the profile was disclosed when the run was selected
LEMMA SelectionTells ==
  ASSUME TruthInv, Selection
  PROVE  TruthInv'
<1> DEFINE event == [kind |-> "selected"]
           shown(x) == OnEvent(Attach(x, Runner), Runner, event, now)
<1>1. PICK broken : Answered([s \in Screens |-> shown(Faced(broken, s))])
  BY DEF Selection, Call, Answered, Faced
<1>2. event.kind \in EventKinds \ {"finished"} /\ event.kind = "selected" BY DEF EventKinds
<1> HIDE DEF event
<1>3. ASSUME NEW x, IsApp(x) PROVE Steady(x, shown(x)) /\ shown(x).disclosed /\ IsApp(shown(x))
  <2>1. Steady(x, Attach(x, Runner)) /\ IsApp(Attach(x, Runner)) BY <1>3, AttachSteady, NamesOfRun, LastsOn
  <2>2. Steady(Attach(x, Runner), shown(x)) /\ shown(x).disclosed BY <1>2, <2>1, OnEventSteady, NamesOfRun
  <2> QED BY <2>1, <2>2, LastsOn
<1> HIDE DEF shown
<1>4. \A s \in Screens : Steady(screen[s], screen'[s]) BY <1>1, <1>3, FacedWhole, AnsweredSteady
<1>5. ASSUME NEW s \in Screens PROVE screen'[s].disclosed
  <2> DEFINE told == [t \in Screens |-> shown(Faced(broken, t))]
  <2>1. Answered(told) /\ told[s].disclosed /\ IsApp(told[s]) BY <1>1, <1>3, FacedWhole
  <2> HIDE DEF told
  <2>2. Steady(told[s], screen'[s]) BY <2>1, AnsweredReaches
  <2> QED BY <2>1, <2>2 DEF Steady, Lasts
<1>6. at = "attach" /\ at' = "preflight" /\ UNCHANGED <<request, attempt, admitted>>
  BY DEF Selection, Go, Still
<1>7. ASSUME NEW s \in Screens PROVE Truth(screen[s])'
  BY <1>4, <1>5, <1>6, LastsOn, TruthLasts DEF TruthInv, Early, AgentSteps, AttemptSteps
<1> QED BY <1>6, <1>7 DEF TruthInv

LEMMA StagesTell ==
  ASSUME TruthInv, Stages
  PROVE  TruthInv'
<1> DEFINE told == {PhaseEvent("preflight"), [kind |-> "input", handed |-> node # 0 /\ Producers(node) # {}],
                    [kind |-> "workspace"], PhaseEvent("execution"), [kind |-> "process"],
                    PhaseEvent("capture"), PhaseEvent("checks"), [kind |-> "check"]}
<1>1. PICK event \in told : Tell(Runner, event) BY Zenon DEF Stages, Step
<1>2. event.kind \in EventKinds \ {"finished"} BY DEF PhaseEvent, EventKinds
<1>3. \A s \in Screens : Steady(screen[s], screen'[s]) BY <1>1, <1>2, TellSteady, NamesOfRun
<1>4. UNCHANGED <<request, attempt, admitted>> BY Zenon DEF Stages, Step, Still
<1>5. <<at, at'>> \in {<<"preflight", "inputs">>, <<"inputs", "workspace">>, <<"workspace", "execution">>,
                        <<"execution", "agent">>, <<"agent", "agent">>, <<"agent", "captured">>,
                        <<"captured", "check">>, <<"check", "checking">>}
  BY Zenon DEF Stages, Step, Go
<1>6. at \in AttemptSteps /\ at' \in AttemptSteps /\ (at' \in AgentSteps => at \in AgentSteps)
  BY <1>5 DEF AttemptSteps, AgentSteps
<1> QED BY <1>3, <1>4, <1>6, AttemptTells

LEMMA RunningTells ==
  ASSUME TruthInv, Running
  PROVE  TruthInv'
<1>1. PICK event \in AgentEvents \cup CheckEvents : Tell(Runner, event) BY Zenon DEF Running, Reports
<1>2. event.kind \in EventKinds \ {"finished"} BY DEF AgentEvents, CheckEvents, EventKinds
<1>3. \A s \in Screens : Steady(screen[s], screen'[s]) BY <1>1, <1>2, TellSteady, NamesOfRun
<1>4. /\ at \in {"agent", "checking"} /\ at' = at /\ UNCHANGED <<request, attempt, admitted>>
  BY DEF Running, Reports, Still, Go
<1> QED BY <1>3, <1>4, AttemptTells DEF AttemptSteps, AgentSteps

LEMMA BeatsTell ==
  ASSUME TruthInv, Beats
  PROVE  TruthInv'
<1> DEFINE event == [kind |-> "heartbeat"]
           shown(x) == OnEvent(x, Runner, event, now + 1)
<1>1. PICK broken : Answered([s \in Screens |-> shown(Faced(broken, s))])
  BY DEF Beats, Call, Answered, Faced
<1>2. event.kind \in EventKinds \ {"finished"} BY DEF EventKinds
<1> HIDE DEF event
<1>3. \A x : IsApp(x) => Steady(x, shown(x)) BY <1>2, OnEventSteady, NamesOfRun
<1> HIDE DEF shown
<1>4. \A s \in Screens : Steady(screen[s], screen'[s]) BY <1>1, <1>3, FacedWhole, AnsweredSteady
<1>5. /\ at \in {"agent", "checking"} /\ at' = at /\ UNCHANGED <<request, attempt, admitted>>
  BY DEF Beats, Still, Go
<1> QED BY <1>4, <1>5, AttemptTells DEF AttemptSteps, AgentSteps

LEMMA CheckedTells ==
  ASSUME TruthInv, Checked
  PROVE  TruthInv'
<1>1. PICK outcome : Tell(Runner, [kind |-> "checked", verdict |-> outcome]) BY DEF Checked
<1>2. [kind |-> "checked", verdict |-> outcome].kind \in EventKinds \ {"finished"} BY DEF EventKinds
<1>3. \A s \in Screens : Steady(screen[s], screen'[s]) BY <1>1, <1>2, TellSteady, NamesOfRun
<1>4. at = "checking" /\ at' = "record" /\ UNCHANGED <<request, attempt, admitted>>
  BY Zenon DEF Checked, Still, Go
<1> QED BY <1>3, <1>4, AttemptTells DEF AttemptSteps, AgentSteps

LEMMA BrokenTells ==
  ASSUME TruthInv, Broken
  PROVE  TruthInv'
<1>1. \A s \in Screens : Steady(screen[s], screen'[s])
  <2>1. CASE Tell(Runner, [kind |-> "diagnostic", native |-> FALSE])
    <3>1. [kind |-> "diagnostic", native |-> FALSE].kind \in EventKinds \ {"finished"} BY DEF EventKinds
    <3> QED BY <2>1, <3>1, TellSteady, NamesOfRun
  <2>2. CASE \E confirmed \in BOOLEAN :
               Call(LAMBDA a : OnEvent(OnEvent(a, Runner, [kind |-> "stop"], now), Runner,
                                       [kind |-> "stopped", confirmed |-> confirmed], now))
    <3>1. PICK confirmed \in BOOLEAN :
               Call(LAMBDA a : OnEvent(OnEvent(a, Runner, [kind |-> "stop"], now), Runner,
                                       [kind |-> "stopped", confirmed |-> confirmed], now))
      BY <2>2
    <3> DEFINE stop == [kind |-> "stop"]
               stopped == [kind |-> "stopped", confirmed |-> confirmed]
               told(x) == OnEvent(x, Runner, stop, now)
               shown(x) == OnEvent(told(x), Runner, stopped, now)
    <3>2. PICK broken : Answered([s \in Screens |-> shown(Faced(broken, s))])
      BY <3>1 DEF Call, Answered, Faced
    <3>3. stop.kind \in EventKinds \ {"finished"} /\ stopped.kind \in EventKinds \ {"finished"}
      BY DEF EventKinds
    <3> HIDE DEF stop, stopped
    <3>4. \A x : IsApp(x) => Steady(x, told(x)) BY <3>3, OnEventSteady, NamesOfRun
    <3> HIDE DEF told
    <3>5. \A x : IsApp(x) => Steady(told(x), shown(x)) BY <3>3, <3>4, OnEventSteady, NamesOfRun, LastsOn
    <3>6. \A x : IsApp(x) => Steady(x, shown(x)) BY <3>4, <3>5, LastsOn
    <3> HIDE DEF shown
    <3> QED BY <3>2, <3>6, FacedWhole, AnsweredSteady
  <2> QED BY <2>1, <2>2 DEF Broken
<1>2. /\ at \in {"preflight", "inputs", "workspace", "execution", "agent", "captured", "check", "checking"}
      /\ at' = "record" /\ UNCHANGED <<request, attempt, admitted>>
  BY Zenon DEF Broken, Still, Go
<1> QED BY <1>1, <1>2, AttemptTells DEF AttemptSteps, AgentSteps

LEMMA RecordTells ==
  ASSUME TruthInv, Record
  PROVE  TruthInv'
<1> DEFINE event == PhaseEvent("record")
           told(x) == OnEvent(x, Runner, event, now)
<1>1. PICK broken : Answered([s \in Screens |-> Close(told(Faced(broken, s)), Runner)])
  BY DEF Record, Call, Answered, Faced
<1>2. event.kind \in EventKinds \ {"finished"} BY DEF PhaseEvent, EventKinds
<1> HIDE DEF event
<1>3. \A x : IsApp(x) => Steady(x, told(x)) BY <1>2, OnEventSteady, NamesOfRun
<1> HIDE DEF told
<1> DEFINE shown == [s \in Screens |-> told(Faced(broken, s))]
<1>4. \A s \in Screens : Lasts(Faced(broken, s), shown[s]) BY <1>3, FacedWhole, LastsOn
<1>5. Answered([s \in Screens |-> Close(shown[s], Runner)]) BY <1>1 DEF Answered
<1> HIDE DEF shown
<1>6. \A s \in Screens : Lasts(screen[s], screen'[s]) BY <1>4, <1>5, ClosedLasts, NamesOfRun
<1>7. at = "record" /\ at' = "attempted" /\ UNCHANGED <<request, attempt, admitted>>
  BY Zenon DEF Record, Still, Go
<1>8. ASSUME NEW s \in Screens PROVE Truth(screen[s])'
  BY <1>6, <1>7, TruthLasts DEF TruthInv, Early, AgentSteps, AttemptSteps
<1> QED BY <1>7, <1>8 DEF TruthInv

LEMMA ContractTells ==
  ASSUME TruthInv, Contract
  PROVE  TruthInv'
<1>1. \A s \in Screens : Steady(screen[s], screen'[s])
  <2> DEFINE shown(x) == IF request.repaired THEN RepairBudget(x, Leaf) ELSE x
  <2>1. PICK broken : Answered([s \in Screens |-> shown(Faced(broken, s))])
    BY DEF Contract, Call, Answered, Faced
  <2>2. \A x : IsApp(x) => Steady(x, shown(x)) BY LinesSteady, NamesOfRun, LastsOn
  <2> HIDE DEF shown
  <2> QED BY <2>1, <2>2, FacedWhole, AnsweredSteady
<1>2. /\ at = "contract" /\ at' = (IF request.repaired THEN "attempt" ELSE "attach")
      /\ UNCHANGED <<request, attempt, admitted>>
  BY Zenon DEF Contract, Go, Still, Before
<1>3. ASSUME NEW s \in Screens PROVE Truth(screen[s])'
  BY <1>1, <1>2, LastsOn, TruthLasts DEF TruthInv, Early, AgentSteps, AttemptSteps
<1> QED BY <1>2, <1>3 DEF TruthInv

LEMMA FailContractTells ==
  ASSUME TruthInv, FailContract
  PROVE  TruthInv'
<1>1. /\ at = "failed" /\ at' = (IF request.factory THEN "stop" ELSE "refused")
      /\ UNCHANGED <<request, attempt, admitted>>
  BY Zenon DEF FailContract, Go, Still, Before
<1> DEFINE shown(x) == IF request.factory THEN Close(x, "leaf") ELSE x
<1>2. PICK broken : Answered([s \in Screens |-> shown(Faced(broken, s))])
  BY DEF FailContract, Call, Answered, Faced
<1>3. \A x : IsApp(x) => Lasts(x, shown(x)) /\ IsApp(shown(x)) BY CloseLasts, ConstantNames, LastsOn
<1> HIDE DEF shown
<1>4. ASSUME NEW s \in Screens PROVE Truth(screen[s])'
  <2>1. Lasts(screen[s], shown(Faced(broken, s))) /\ IsApp(shown(Faced(broken, s)))
    BY <1>3, FacedWhole, FacedSteady, LastsOn DEF TruthInv, Truth
  <2> DEFINE told == [t \in Screens |-> shown(Faced(broken, t))]
  <2>2. Answered(told) /\ told[s] = shown(Faced(broken, s)) BY <1>2
  <2> HIDE DEF told
  <2>3. Lasts(screen[s], screen'[s]) BY <2>1, <2>2, AnsweredReaches, LastsOn
  <2> QED BY <1>1, <2>3, TruthLasts DEF TruthInv, Early, AgentSteps, AttemptSteps
<1> QED BY <1>1, <1>4 DEF TruthInv

LEMMA WholeChainTells ==
  ASSUME TruthInv, WholeChain
  PROVE  TruthInv'
<1>1. at = "whole" /\ at' = "report" /\ UNCHANGED <<request, attempt, admitted>>
  BY Zenon DEF WholeChain, Go, Still, Before
<1>2. PICK broken : Answered([s \in Screens |-> Close(Faced(broken, s), "root")])
  BY DEF WholeChain, Call, Answered, Faced
<1> DEFINE shown == [s \in Screens |-> Faced(broken, s)]
<1>3. \A s \in Screens : Lasts(Faced(broken, s), shown[s]) BY FacedWhole, LastsOn
<1>4. Answered([s \in Screens |-> Close(shown[s], "root")]) BY <1>2 DEF Answered
<1> HIDE DEF shown
<1>5. \A s \in Screens : Lasts(screen[s], screen'[s]) BY <1>3, <1>4, ClosedLasts, ConstantNames
<1>6. ASSUME NEW s \in Screens PROVE Truth(screen[s])'
  BY <1>1, <1>5, TruthLasts DEF TruthInv, Early, AgentSteps, AttemptSteps
<1> QED BY <1>1, <1>6 DEF TruthInv

\* A contract of a factory begins: what waited is handed on, for its producer was admitted
LEMMA ChainStepTells ==
  ASSUME TruthInv, ChainStep
  PROVE  TruthInv'
<1>1. at = "node" /\ UNCHANGED <<request, attempt, admitted, fate>>
  BY Zenon DEF ChainStep, Still
<1>2. CASE at' = "stop" /\ Call(LAMBDA a : a)
  <2>1. \A s \in Screens : Steady(screen[s], screen'[s]) BY <1>2, IdleSteady
  <2>2. ASSUME NEW s \in Screens PROVE Truth(screen[s])'
    BY <1>1, <1>2, <2>1, LastsOn, TruthLasts DEF TruthInv, Early, AgentSteps, AttemptSteps
  <2> QED BY <1>1, <2>2 DEF TruthInv
<1>3. CASE /\ at' = "contract"
           /\ Call(LAMBDA a : Imports(NewLeaf(ChainNode(a, node + 1)), "leaf", request.imports))
  <2> DEFINE b(x) == ChainNode(x, node + 1)
             c(x) == NewLeaf(b(x))
             shown(x) == Imports(c(x), "leaf", request.imports)
  <2>1. PICK broken : Answered([s \in Screens |-> shown(Faced(broken, s))])
    BY <1>3 DEF Call, Answered, Faced
  <2>2. ASSUME NEW x, IsApp(x)
        PROVE  LET r == shown(x)
               IN  /\ IsApp(r) /\ r.waiting = x.waiting /\ r.complete = x.complete
                   /\ r.handed \subseteq x.handed \cup ({x.pending} \ {0}) /\ r.pending = 0
                   /\ r.log["root"].finished = x.log["root"].finished
                   /\ r.log["leaf"].step /\ ~r.log["leaf"].finished
    <3>1. /\ IsApp(b(x)) /\ b(x).waiting = x.waiting /\ b(x).complete = x.complete
          /\ b(x).handed \subseteq x.handed \cup ({x.pending} \ {0}) /\ b(x).pending = 0
          /\ b(x).log["root"].finished = x.log["root"].finished
      BY <2>2, ChainNodeHands
    <3> HIDE DEF b
    <3>2. /\ IsApp(c(x)) /\ c(x).handed = b(x).handed /\ c(x).waiting = b(x).waiting
          /\ c(x).pending = b(x).pending /\ c(x).complete = b(x).complete
          /\ c(x).log["leaf"].step /\ ~c(x).log["leaf"].finished
          /\ c(x).log["root"].finished = b(x).log["root"].finished
      BY <3>1, NewLeafLasts
    <3> HIDE DEF c
    <3>3. Steady(c(x), shown(x)) /\ IsApp(shown(x)) BY <3>2, LinesSteady, ConstantNames, LastsOn
    <3> HIDE DEF shown
    <3>4. /\ shown(x).handed = c(x).handed /\ shown(x).waiting = c(x).waiting
          /\ shown(x).pending = c(x).pending /\ shown(x).complete = c(x).complete
          /\ \A n \in {"root", "leaf"} : shown(x).log[n].step = c(x).log[n].step
                                         /\ shown(x).log[n].finished = c(x).log[n].finished
      BY <3>3, ConstantNames DEF Steady, Lasts
    <3> QED BY <3>1, <3>2, <3>3, <3>4
  <2> HIDE DEF b, c, shown
  <2>3. ASSUME NEW s \in Screens PROVE Truth(screen[s])'
    <3> DEFINE a == screen[s]
               f == Faced(broken, s)
               r == shown(f)
    <3>1. Steady(a, f) /\ IsApp(f) BY FacedSteady DEF TruthInv, Truth
    <3>2. /\ IsApp(r) /\ r.waiting = f.waiting /\ r.complete = f.complete
          /\ r.handed \subseteq f.handed \cup ({f.pending} \ {0}) /\ r.pending = 0
          /\ r.log["root"].finished = f.log["root"].finished
          /\ r.log["leaf"].step /\ ~r.log["leaf"].finished
      BY <2>2, <3>1
    <3>3. Steady(r, screen'[s]) /\ IsApp(screen'[s])
      <4> DEFINE told == [t \in Screens |-> shown(Faced(broken, t))]
      <4>1. Answered(told) /\ told[s] = r BY <2>1
      <4> HIDE DEF told, r
      <4> QED BY <3>2, <4>1, AnsweredReaches
    <3> DEFINE e == screen'[s]
    <3> HIDE DEF r, f
    <3>4. /\ e.waiting = a.waiting /\ e.complete = a.complete
          /\ e.handed \subseteq a.handed \cup ({a.pending} \ {0}) /\ e.pending = 0
          /\ e.log["root"].finished = a.log["root"].finished
          /\ e.log["leaf"].step /\ ~e.log["leaf"].finished
      BY <3>1, <3>2, <3>3, ConstantNames DEF Steady, Lasts
    <3>5. Truth(a) BY DEF TruthInv
    <3> HIDE DEF a
    <3>6. a.pending \in {0} \cup admitted BY <1>1, <3>5 DEF Truth
    <3> QED BY <1>1, <1>3, <3>3, <3>4, <3>5, <3>6 DEF Truth, Early, AgentSteps, AttemptSteps
  <2> QED BY <1>1, <2>3 DEF TruthInv
<1> QED BY <1>2, <1>3, Zenon DEF ChainStep, Go

LEMMA TryAgainTells ==
  ASSUME TruthInv, TryAgain
  PROVE  TruthInv'
<1>1. at = "attempt" /\ UNCHANGED <<request, admitted, fate, node>>
  BY Zenon DEF TryAgain, Still
<1>2. CASE at' = "failed" /\ UNCHANGED attempt /\ Call(LAMBDA a : a)
  <2>1. \A s \in Screens : Steady(screen[s], screen'[s]) BY <1>2, IdleSteady
  <2>2. ASSUME NEW s \in Screens PROVE Truth(screen[s])'
    BY <1>1, <1>2, <2>1, LastsOn, TruthLasts DEF TruthInv, Early, AgentSteps, AttemptSteps
  <2> QED BY <1>1, <1>2, <2>2 DEF TruthInv
<1>3. CASE /\ attempt < MaxAttempts /\ attempt' = attempt + 1 /\ at' = "attach"
           /\ Call(LAMBDA a : NewAttempt(a, Leaf, attempt + 1))
  <2> DEFINE index == attempt + 1
             shown(x) == NewAttempt(x, Leaf, index)
  <2>1. PICK broken : Answered([s \in Screens |-> shown(Faced(broken, s))])
    BY <1>3 DEF Call, Answered, Faced
  <2>2. index \in 1 .. MaxAttempts /\ attempt' \in 0 .. MaxAttempts
    BY <1>3, LoggerAssumption DEF TruthInv
  <2> HIDE DEF index
  <2>3. ASSUME NEW s \in Screens PROVE Truth(screen[s])'
    <3> DEFINE a == screen[s]
               f == Faced(broken, s)
               r == shown(f)
               e == screen'[s]
    <3>1. Steady(a, f) /\ IsApp(f) BY FacedSteady DEF TruthInv, Truth
    <3>2. /\ IsApp(r) /\ r.handed = f.handed /\ r.waiting = f.waiting /\ r.pending = f.pending
          /\ r.complete = f.complete
          /\ r.log["attempt"].step = f.log[Leaf].step /\ ~r.log["attempt"].finished
          /\ \A m \in Names \ {"attempt"} :
               r.log[m].step = f.log[m].step /\ r.log[m].finished = f.log[m].finished
      BY <2>2, <3>1, NewAttemptLasts, NamesOfLeaf
    <3>3. Steady(r, e) /\ IsApp(e)
      <4> DEFINE told == [t \in Screens |-> shown(Faced(broken, t))]
      <4>1. Answered(told) /\ told[s] = r BY <2>1
      <4> HIDE DEF told, r
      <4> QED BY <3>2, <4>1, AnsweredReaches
    <3> HIDE DEF r, f
    <3>4. /\ e.handed = a.handed /\ e.waiting = a.waiting /\ e.pending = a.pending
          /\ e.complete = a.complete
          /\ e.log["attempt"].step = a.log[Leaf].step /\ ~e.log["attempt"].finished
          /\ \A m \in {"root", "leaf"} :
               e.log[m].step = a.log[m].step /\ e.log[m].finished = a.log[m].finished
      BY <3>1, <3>2, <3>3, ConstantNames, NamesOfLeaf DEF Steady, Lasts
    <3>5. Truth(a) BY DEF TruthInv
    <3>6. request.factory => Leaf = "leaf" BY DEF Leaf
    <3> HIDE DEF a
    <3> QED BY <1>1, <1>3, <3>3, <3>4, <3>5, <3>6 DEF Truth, Early, AgentSteps, AttemptSteps
  <2> QED BY <1>1, <2>2, <2>3 DEF TruthInv
<1> QED BY <1>2, <1>3, Zenon DEF TryAgain, Go

\* A finished contract: its outputs wait for the chain, which has not admitted them yet
LEMMA AttemptedTells ==
  ASSUME TruthInv, Attempted
  PROVE  TruthInv'
<1>1. at = "attempted" /\ UNCHANGED <<request, attempt, admitted, fate, node>>
  BY Zenon DEF Attempted, Still, Before
<1>2. CASE (at' = "attempt" \/ (at' = "report" /\ ~request.factory)) /\ Call(LAMBDA a : a)
  <2>1. \A s \in Screens : Steady(screen[s], screen'[s]) BY <1>2, IdleSteady
  <2>2. ASSUME NEW s \in Screens PROVE Truth(screen[s])'
    BY <1>1, <1>2, <2>1, LastsOn, TruthLasts DEF TruthInv, Early, AgentSteps, AttemptSteps
  <2> QED BY <1>1, <2>2 DEF TruthInv
<1>3. CASE /\ request.factory /\ at' = "leaf_done"
           /\ Call(LAMBDA a : LET told == Result(a, Runner, fate = "complete", node, Feeds(node))
                              IN IF request.repaired THEN RepairFinished(told, "leaf") ELSE told)
  <2> DEFINE complete == fate = "complete"
             feeds == Feeds(node)
             told(x) == Result(x, Runner, complete, node, feeds)
             shown(x) == IF request.repaired THEN RepairFinished(told(x), "leaf") ELSE told(x)
  <2>1. PICK broken : Answered([s \in Screens |-> shown(Faced(broken, s))])
    BY <1>3 DEF Call, Answered, Faced
  <2> HIDE DEF feeds, complete
  <2>2. ASSUME NEW x, IsApp(x)
        PROVE  LET r == told(x)
               IN  /\ IsApp(r) /\ r.handed = x.handed /\ r.waiting = x.waiting
                   /\ r.pending = x.pending \/ (complete /\ r.pending = node)
                   /\ x.complete \subseteq r.complete
                   /\ complete /\ x.log[Runner].step /\ ~x.log[Runner].finished => node \in r.complete
    BY <2>2, ResultTells, NamesOfRun
  <2> HIDE DEF told
  <2>3. \A x : IsApp(told(x)) => Steady(told(x), shown(x)) BY LinesSteady, ConstantNames, LastsOn
  <2> HIDE DEF shown
  <2>4. ASSUME NEW s \in Screens PROVE Truth(screen[s])'
    <3> DEFINE a == screen[s]
               f == Faced(broken, s)
               r == told(f)
               e == screen'[s]
    <3>1. Steady(a, f) /\ IsApp(f) BY FacedSteady DEF TruthInv, Truth
    <3>2. /\ IsApp(r) /\ r.handed = f.handed /\ r.waiting = f.waiting
          /\ r.pending = f.pending \/ (complete /\ r.pending = node)
          /\ f.complete \subseteq r.complete
          /\ complete /\ f.log[Runner].step /\ ~f.log[Runner].finished => node \in r.complete
      BY <2>2, <3>1
    <3>3. Steady(r, e) /\ IsApp(e)
      <4> DEFINE both == [t \in Screens |-> shown(Faced(broken, t))]
      <4>1. Answered(both) /\ both[s] = shown(f) BY <2>1
      <4>2. Steady(r, shown(f)) /\ IsApp(shown(f)) BY <2>3, <3>2, LastsOn
      <4> HIDE DEF both, r, f
      <4>3. Steady(shown(f), e) /\ IsApp(e) BY <4>1, <4>2, AnsweredReaches
      <4> QED BY <4>2, <4>3, LastsOn
    <3> HIDE DEF r, f
    <3>4. /\ e.handed = a.handed /\ e.waiting = a.waiting
          /\ e.pending = a.pending \/ (complete /\ e.pending = node)
          /\ a.complete \subseteq e.complete
          /\ complete /\ a.log[Runner].step /\ ~a.log[Runner].finished => node \in e.complete
      BY <3>1, <3>2, <3>3, NamesOfRun DEF Steady, Lasts
    <3>5. Truth(a) BY DEF TruthInv
    <3> HIDE DEF a
    <3>6. a.log[Runner].step /\ ~a.log[Runner].finished
      BY <1>1, <1>3, <3>5 DEF Truth, Runner, Leaf, AttemptSteps
    <3> QED BY <1>1, <1>3, <3>3, <3>4, <3>5, <3>6 DEF Truth, complete, Early, AgentSteps, AttemptSteps
  <2> QED BY <1>1, <2>4 DEF TruthInv
<1> QED BY <1>2, <1>3, Zenon DEF Attempted, Go

\* Only now are the outputs admitted
LEMMA LeafDoneTells ==
  ASSUME TruthInv, LeafDone
  PROVE  TruthInv'
<1>1. at = "leaf_done" /\ attempt' = 0 /\ UNCHANGED <<request, node>>
  BY Zenon DEF LeafDone, Still
<1>2. \/ fate = "complete" /\ admitted' = admitted \cup {node} /\ at' \in {"node", "whole", "stop"}
      \/ admitted' = admitted /\ at' = "stop"
  BY Zenon DEF LeafDone, Go
<1>3. PICK broken : Answered([s \in Screens |-> Close(Faced(broken, s), "leaf")])
  BY DEF LeafDone, Call, Answered, Faced
<1> DEFINE shown == [s \in Screens |-> Faced(broken, s)]
<1>4. \A s \in Screens : Lasts(Faced(broken, s), shown[s]) BY FacedWhole, LastsOn
<1>5. Answered([s \in Screens |-> Close(shown[s], "leaf")]) BY <1>3 DEF Answered
<1> HIDE DEF shown
<1>6. \A s \in Screens : Lasts(screen[s], screen'[s]) BY <1>4, <1>5, ClosedLasts, ConstantNames
<1>7. ASSUME NEW s \in Screens PROVE Truth(screen[s])'
  <2> DEFINE a == screen[s]
             e == screen'[s]
  <2>1. /\ IsApp(e) /\ e.handed = a.handed /\ e.waiting = a.waiting /\ e.pending = a.pending
        /\ e.complete = a.complete /\ e.log["root"].finished = a.log["root"].finished
    BY <1>6, ConstantNames DEF Lasts
  <2>2. Truth(a) BY DEF TruthInv
  <2> HIDE DEF a
  <2> QED BY <1>1, <1>2, <2>1, <2>2 DEF Truth, Early, AgentSteps, AttemptSteps
<1>8. attempt' \in 0 .. MaxAttempts BY <1>1, LoggerAssumption
<1> QED BY <1>1, <1>7, <1>8 DEF TruthInv

\* A chain that stops hands nothing on, and lists as awaited what is not complete
LEMMA StopTells ==
  ASSUME TruthInv, Stop
  PROVE  TruthInv'
<1>1. at = "stop" /\ at' = "report" /\ UNCHANGED <<request, attempt, admitted, node>>
  BY Zenon DEF Stop, Go, Still
<1> DEFINE producers == [n \in Nodes |-> Producers(n)]
           shown(x) == ChainStopped(x, producers)
<1>2. PICK broken : Answered([s \in Screens |-> Close(shown(Faced(broken, s)), "root")])
  BY DEF Stop, Call, Answered, Faced
<1> HIDE DEF producers
<1>3. ASSUME NEW x, IsApp(x)
      PROVE  LET r == shown(x)
             IN  /\ IsApp(r) /\ r.complete = x.complete /\ r.handed \subseteq x.handed /\ r.pending = 0
                 /\ r.waiting \cap x.complete = {} /\ r.log["root"].finished = x.log["root"].finished
  BY <1>3, ChainStoppedWaits
<1> HIDE DEF shown
<1>4. ASSUME NEW s \in Screens PROVE Truth(screen[s])'
  <2> DEFINE a == screen[s]
             f == Faced(broken, s)
             r == shown(f)
             c == Close(r, "root")
             e == screen'[s]
  <2>1. Steady(a, f) /\ IsApp(f) BY FacedSteady DEF TruthInv, Truth
  <2>2. /\ IsApp(r) /\ r.complete = f.complete /\ r.handed \subseteq f.handed /\ r.pending = 0
        /\ r.waiting \cap f.complete = {} /\ r.log["root"].finished = f.log["root"].finished
    BY <1>3, <2>1
  <2>3. Lasts(r, c) /\ IsApp(c) BY <2>2, CloseLasts, ConstantNames, LastsOn
  <2>4. Lasts(r, e)
    <3> DEFINE told == [t \in Screens |-> Close(shown(Faced(broken, t)), "root")]
    <3>1. Answered(told) /\ told[s] = c BY <1>2
    <3> HIDE DEF told, c, r
    <3>2. Steady(c, e) BY <2>3, <3>1, AnsweredReaches
    <3> QED BY <2>3, <3>2, LastsOn
  <2> HIDE DEF r, f, c
  <2>5. /\ IsApp(e) /\ e.complete = a.complete /\ e.handed \subseteq a.handed /\ e.pending = 0
        /\ e.waiting \cap a.complete = {} /\ e.log["root"].finished = a.log["root"].finished
    BY <2>1, <2>2, <2>4, ConstantNames DEF Steady, Lasts
  <2>6. Truth(a) BY DEF TruthInv
  <2> HIDE DEF a
  <2>7. e.waiting \cap admitted = {} BY <2>5, <2>6 DEF Truth
  <2> QED BY <1>1, <2>5, <2>6, <2>7 DEF Truth, Early, AgentSteps, AttemptSteps
<1> QED BY <1>1, <1>4 DEF TruthInv

\* The report: what still waits is handed on when the whole chain was admitted
LEMMA ReportTells ==
  ASSUME TruthInv, Report
  PROVE  TruthInv'
<1>1. at = "report" /\ at' = "end" /\ UNCHANGED <<request, attempt, admitted, node, fate>>
  BY Zenon DEF Report, Go, Still, Before
<1> DEFINE complete == fate = "complete"
           told(x) == IF request.factory THEN ChainResult(x, complete)
                      ELSE Result(Close(x, "root"), "root", complete, 0, FALSE)
           failed(x) == RenderError(Close(x, "root"))
           \* What the last call may change, where the root was not finished before
           Reported(x, r) == /\ IsApp(r) /\ r.waiting = x.waiting /\ ~r.active
                         /\ r.handed \subseteq x.handed \cup ({x.pending} \ {0})
                         /\ x.complete \subseteq r.complete
<1>2. ASSUME NEW x, IsApp(x), ~request.factory => ~x.log["root"].finished PROVE Reported(x, told(x))
  <2>1. CASE request.factory BY <1>2, <2>1, ChainResultHands
  <2>2. CASE ~request.factory
    <3> DEFINE c == Close(x, "root")
               feeds == FALSE
               r == Result(c, "root", complete, 0, feeds)
    <3>1. Lasts(x, c) BY <1>2, CloseLasts, ConstantNames
    <3> HIDE DEF c
    <3>2. /\ IsApp(c) /\ ~c.log["root"].finished /\ c.waiting = x.waiting /\ c.handed = x.handed
          /\ c.complete = x.complete
      BY <1>2, <2>2, <3>1, ConstantNames DEF Lasts
    <3> HIDE DEF complete, feeds
    <3>3. /\ IsApp(r) /\ r.handed = c.handed /\ r.waiting = c.waiting /\ c.complete \subseteq r.complete
          /\ ~r.active
      BY <3>2, ResultTells, ConstantNames
    <3> HIDE DEF r
    <3>4. Reported(x, r) BY <3>2, <3>3
    <3> QED BY <2>2, <3>4 DEF r, c, feeds
  <2> QED BY <2>1, <2>2
<1> HIDE DEF told
<1>3. ASSUME NEW x, NEW r, Reported(x, r), NEW t, Steady(r, t), t.active => r.active PROVE Reported(x, t)
  BY <1>3 DEF Steady, Lasts
<1>4. ASSUME NEW x, IsApp(x) PROVE Reported(x, failed(x))
  <2> DEFINE c == Close(x, "root")
  <2>1. Lasts(x, c) /\ IsApp(c) BY <1>4, CloseLasts, ConstantNames, LastsOn
  <2> HIDE DEF c
  <2>2. Steady(c, RenderError(c)) /\ ~RenderError(c).active BY <2>1, PreviewSteady
  <2>3. Reported(x, RenderError(c)) BY <2>1, <2>2 DEF Steady, Lasts
  <2> QED BY <2>3 DEF c
<1> HIDE DEF failed
\* What one of the calls shows, and the screens after it
<1>5. ASSUME NEW broken, NEW shown, Answered(shown), \A s \in Screens : Reported(Faced(broken, s), shown[s])
      PROVE  TruthInv'
  <2>1. ASSUME NEW s \in Screens PROVE Truth(screen[s])'
    <3> DEFINE a == screen[s]
               f == Faced(broken, s)
               r == shown[s]
               e == screen'[s]
    <3>1. Steady(a, f) /\ IsApp(f) BY FacedSteady DEF TruthInv, Truth
    <3>2. Reported(f, r) BY <1>5
    <3>3. Steady(r, e) /\ e.active = r.active BY <1>5, <3>2, AnsweredReaches
    <3> HIDE DEF r, f
    <3>4. Reported(f, e) BY <1>3, <3>2, <3>3
    <3>5. /\ IsApp(e) /\ e.waiting = a.waiting /\ ~e.active
          /\ e.handed \subseteq a.handed \cup ({a.pending} \ {0})
          /\ a.complete \subseteq e.complete
      BY <3>1, <3>4 DEF Steady, Lasts
    <3>6. Truth(a) BY DEF TruthInv
    <3> HIDE DEF a
    <3>7. a.pending \in {0} \cup admitted BY <1>1, <3>6 DEF Truth
    <3> QED BY <1>1, <3>5, <3>6, <3>7 DEF Truth, Early, AgentSteps, AttemptSteps
  <2> QED BY <1>1, <2>1 DEF TruthInv
<1>6. ASSUME NEW broken, NEW s \in Screens PROVE Reported(Faced(broken, s), told(Faced(broken, s)))
  <2>1. Steady(screen[s], Faced(broken, s)) /\ IsApp(Faced(broken, s)) BY FacedSteady DEF TruthInv, Truth
  <2>2. ~request.factory => ~screen[s].log["root"].finished BY <1>1 DEF TruthInv, Truth
  <2>3. ~request.factory => ~Faced(broken, s).log["root"].finished
    BY <2>1, <2>2, ConstantNames DEF Steady, Lasts
  <2> HIDE DEF Reported
  <2> QED BY <1>2, <2>1, <2>3
<1>7. CASE \E exported \in BOOLEAN :
             Call(LAMBDA a : IF complete THEN Receipt(told(a), exported) ELSE told(a))
  <2>1. PICK exported \in BOOLEAN :
          Call(LAMBDA a : IF complete THEN Receipt(told(a), exported) ELSE told(a))
    BY <1>7
  <2> DEFINE finally(x) == IF complete THEN Receipt(told(x), exported) ELSE told(x)
  <2>2. PICK broken : Answered([s \in Screens |-> finally(Faced(broken, s))])
    BY <2>1 DEF Call, Answered, Faced
  <2>3. ASSUME NEW s \in Screens
        PROVE  Reported(Faced(broken, s), finally(Faced(broken, s)))
    <3> DEFINE f == Faced(broken, s)
               r == told(f)
    <3>1. Reported(f, r) BY <1>6
    <3> HIDE DEF f, r
    <3>2. /\ Steady(r, Receipt(r, exported)) /\ (Receipt(r, exported).active => r.active)
      BY <3>1, PreviewSteady
    <3>3. Reported(f, Receipt(r, exported)) BY <1>3, <3>1, <3>2
    <3> HIDE DEF Reported
    <3> QED BY <3>1, <3>3 DEF f, r
  <2> HIDE DEF finally, Reported
  <2> DEFINE both == [s \in Screens |-> finally(Faced(broken, s))]
  <2>4. Answered(both) /\ \A s \in Screens : Reported(Faced(broken, s), both[s]) BY <2>2, <2>3
  <2> HIDE DEF both
  <2> QED BY <1>5, <2>4
<1>8. CASE Call(LAMBDA a : failed(a))
  <2>1. PICK broken : Answered([s \in Screens |-> failed(Faced(broken, s))])
    BY <1>8 DEF Call, Answered, Faced
  <2> DEFINE both == [s \in Screens |-> failed(Faced(broken, s))]
  <2> HIDE DEF Reported
  <2>2. Answered(both) /\ \A s \in Screens : Reported(Faced(broken, s), both[s]) BY <1>4, <2>1, FacedWhole
  <2> HIDE DEF both
  <2> QED BY <1>5, <2>2
<1> QED BY <1>7, <1>8 DEF Report, told, failed

LEMMA TruthStep ==
  ASSUME TruthInv, ScreenNext
  PROVE  TruthInv'
<1>1. CASE Select \/ Approve \/ Load \/ Unavailable \/ Invoke \/ Read \/ Context \/ Start \/ RefuseCommand
  BY <1>1, SelectTells, ApproveTells, LoadTells, UnavailableTells, InvokeTells, ReadTells, ContextTells,
     StartTells, RefuseCommandTells
<1>2. CASE Prepare("source", "invoke") \/ Prepare("imports", "admitted")
  BY <1>2, PrepareTells
<1>3. CASE ChainStep \/ Contract \/ TryAgain \/ Attempted \/ LeafDone \/ FailContract \/ Stop \/ WholeChain
             \/ Report
  BY <1>3, ChainStepTells, ContractTells, TryAgainTells, AttemptedTells, LeafDoneTells, FailContractTells,
     StopTells, WholeChainTells, ReportTells
<1>4. CASE Selection \/ Stages \/ Running \/ Beats \/ Checked \/ Broken \/ Record
  BY <1>4, SelectionTells, StagesTell, RunningTells, BeatsTell, CheckedTells, BrokenTells, RecordTells
<1> QED BY <1>1, <1>2, <1>3, <1>4 DEF ScreenNext

LEMMA TruthStutters == TruthInv /\ UNCHANGED screenVars => TruthInv'
BY DEF screenVars, TruthInv, Truth

LEMMA FreshTells ==
  \A v, w : LET a == FreshApp(v, w)
            IN  /\ IsApp(a) /\ a.handed = {} /\ a.waiting = {} /\ a.pending = 0 /\ ~a.active
                /\ ~a.log["root"].closed /\ ~a.log["root"].finished
BY FreshAlike, ConstantNames DEF Alike, FreshApp, FreshLogger

\* Nothing is shown, nothing waits
LEMMA TruthBegins == ScreenInit => TruthInv
<1> SUFFICES ASSUME ScreenInit PROVE TruthInv OBVIOUS
<1>1. ASSUME NEW s \in Screens PROVE Truth(screen[s])
  <2>1. PICK v, w : screen[s] = FreshApp(v, w) BY DEF ScreenInit
  <2> DEFINE a == screen[s]
  <2>2. /\ IsApp(a) /\ a.handed = {} /\ a.waiting = {} /\ a.pending = 0 /\ ~a.active
        /\ ~a.log["root"].closed /\ ~a.log["root"].finished
    BY <2>1, FreshTells
  <2> HIDE DEF a
  <2>3. at = "select" /\ admitted = {} BY DEF ScreenInit
  <2>4. Truth(a) BY <2>2, <2>3 DEF Truth, Early, AgentSteps, AttemptSteps
  <2> QED BY <2>4 DEF a
<1>2. attempt \in 0 .. MaxAttempts BY LoggerAssumption DEF ScreenInit
<1> QED BY <1>1, <1>2, RequestsAssumption DEF ScreenInit, TruthInv

LEMMA TruthIsTold == TruthInv => ScreenTellsTheTruth
BY DEF TruthInv, Truth, ScreenTellsTheTruth, AgentSteps

-----------------------------------------------------------------------------
(* Side by side *)

\* What holds of a part holds of it in the command that keeps all of them: no other part
\* touches the files that are replaced, the transcript, the captures or the evidence.
THEOREM KeptSideBySide ==
  KeepingSpec => [](/\ AcknowledgedSurvives /\ ResultsAreThree /\ TranscriptIsExact
                    /\ CarriedBytesAreAdmitted /\ ReceiptIsOneStory)
<1>1. KeepingInit => Init /\ TranscriptInit /\ WorkspaceInit /\ EvidenceInit BY DEF KeepingInit
<1>2. [KeepingNext]_keepingVars =>
        /\ [Next]_vars /\ [SayLine]_transcriptVars
        /\ [WorkspaceNext]_workspaceVars /\ [EvidenceNext]_evidenceVars
  <2> SUFFICES ASSUME [KeepingNext]_keepingVars
               PROVE  /\ Next \/ UNCHANGED vars
                      /\ SayLine \/ UNCHANGED transcriptVars
                      /\ WorkspaceNext \/ UNCHANGED workspaceVars
                      /\ EvidenceNext \/ UNCHANGED evidenceVars
    OBVIOUS
  <2>1. CASE KeepingNext BY <2>1 DEF KeepingNext
  <2>2. CASE UNCHANGED keepingVars BY <2>2 DEF keepingVars
  <2> QED BY <2>1, <2>2
<1>3. KeepingSpec => Spec /\ TranscriptSpec /\ WorkspaceSpec /\ EvidenceSpec
  BY <1>1, <1>2, PTL DEF KeepingSpec, Spec, TranscriptSpec, WorkspaceSpec, EvidenceSpec
<1> QED
  BY <1>3, AtomicAcknowledgedSurvives, AtomicResultsAreThree, BytesStayAdmitted,
     ReceiptTellsOneStory, TranscriptAccounts, PTL

\* A step of the command is a step of its screens, or none of theirs
LEMMA KeepingOfScreens ==
  /\ KeepingInit => ScreenInit
  /\ [KeepingNext]_keepingVars => [ScreenNext]_screenVars
<1>1. KeepingInit => ScreenInit BY DEF KeepingInit
<1>2. [KeepingNext]_keepingVars => [ScreenNext]_screenVars
  <2> SUFFICES ASSUME [KeepingNext]_keepingVars PROVE ScreenNext \/ UNCHANGED screenVars
    OBVIOUS
  <2>1. CASE KeepingNext BY <2>1 DEF KeepingNext
  <2>2. CASE UNCHANGED keepingVars BY <2>2 DEF keepingVars
  <2> QED BY <2>1, <2>2
<1> QED BY <1>1, <1>2

\* Whatever the verbosity, the animation and the calls in which the pipe of a screen
\* breaks, every call of a command retains the same lines: the states of the loggers that
\* share a screen differ only in what no retained line depends on.
THEOREM RetainedOnEveryScreen == KeepingSpec => []TranscriptIgnoresTheScreen
<1>1. ScreenInv /\ [ScreenNext]_screenVars => ScreenInv'
  <2>1. ScreenInv /\ UNCHANGED screenVars => ScreenInv' BY DEF ScreenInv, AllAlike, screenVars
  <2> QED BY <2>1, ScreenStepAgrees
<1>2. ScreenInv => TranscriptIgnoresTheScreen BY DEF ScreenInv, TranscriptIgnoresTheScreen
<1> QED BY <1>1, <1>2, ScreenBegins, KeepingOfScreens, PTL DEF KeepingSpec

\* For any factory, any budget and any options: no screen says that outputs were handed on
\* before the chain admitted them, or that a contract waits for admitted ones; no animation
\* runs over a question or after the end, and no agent runs before the disclosure.
THEOREM ScreensTellTheTruth == KeepingSpec => []ScreenTellsTheTruth
<1>1. TruthInv /\ [ScreenNext]_screenVars => TruthInv'
  BY TruthStep, TruthStutters
<1> QED BY <1>1, TruthBegins, TruthIsTold, KeepingOfScreens, PTL DEF KeepingSpec
=============================================================================
