------------------------------- MODULE Evidence -------------------------------
(***************************************************************************)
(* Reading a finalized invocation back for its receipt: the records of     *)
(* contracts/records.py, and the parts of export_package of                *)
(* contracts/evidence.py that read what was retained.  Everything is read  *)
(* several times (decoded, captured, assessed, validated, gathered and     *)
(* validated again), thing by thing, while others write what they reach.   *)
(* That the history loads the result once more is left out.                *)
(*                                                                         *)
(* A retained thing is as it was written ("own"), replaced ("other"), or,  *)
(* for a record, rewritten so that its own observations disagree ("odd").  *)
(* A replaced record can be consistent with replaced outputs: it says of   *)
(* the outputs and the records below it that they are the other ones, and  *)
(* of everything else what was written.  Nothing is put back once replaced *)
(* ("no claim against same-user mutation-and-restore").                    *)
(***************************************************************************)
EXTENDS Integers, Sequences

CONSTANTS
  NoRun,         \* no run
  Runs,          \* attempts that were recorded
  Invocations,  \* what was finalized
  MaxReplaced    \* bound: things that others write

ASSUME EvidenceAssumption == NoRun \notin Runs /\ MaxReplaced \in Nat

\* An invocation: its form, its COMPLETE runs, those under a budget, and for these
\* the rejected attempts before the one that was selected
ASSUME InvocationAssumption ==
  \A i \in Invocations :
    /\ i.form \in {"run", "controller", "chain"} /\ i.complete \in BOOLEAN
    /\ i.selected \subseteq Runs /\ i.budgeted \subseteq i.selected
    /\ i.tried \in [i.budgeted -> SUBSET (Runs \ i.selected)]
    /\ i.form # "chain" => \E r \in Runs : i.selected = {r}
    /\ i.form = "controller" => i.budgeted = i.selected

VARIABLES
  invocation,  \* what was finalized
  disk,        \* the state of each retained thing
  stage,       \* the pass over them, "loading" before and "published" or "refused" after
  left,        \* things this pass has still to read
  seen,        \* what this pass has read
  result,      \* the root record, as it was decoded
  sealed,      \* records as the boundary identified them
  documents,   \* records the export has parsed
  receipt,     \* what the export has read into the receipt
  writes       \* things others have written

evidenceVars ==
  <<invocation, disk, stage, left, seen, result, sealed, documents, receipt, writes>>

-----------------------------------------------------------------------------
(* What is retained, and what speaks of what *)

Thing(kind, run) == [kind |-> kind, run |-> run]
LeafKinds == {"artifacts", "exports", "source", "baseline", "transcript"}

Root ==
  CASE invocation.form = "chain" -> Thing("chain", NoRun)
    [] invocation.form = "controller" -> Thing("controller", CHOOSE r \in invocation.selected : TRUE)
    [] OTHER -> Thing("record", CHOOSE r \in invocation.selected : TRUE)

Controllers == {Thing("controller", r) : r \in invocation.budgeted}
TriedBy(r) == IF r \in invocation.budgeted THEN invocation.tried[r] ELSE {}
History == invocation.selected \cup UNION {TriedBy(r) : r \in invocation.selected}
Records == {Thing("record", r) : r \in History}
Leaves(runs) == {Thing(kind, r) : kind \in LeafKinds, r \in runs}
Aggregate ==
  IF invocation.form = "chain"
  THEN {Thing("chain", NoRun), Thing("chain_transcript", NoRun), Thing("view", NoRun), Thing("project", NoRun)}
  ELSE {Thing("project", r) : r \in invocation.budgeted}
All == Aggregate \cup Controllers \cup Records \cup Leaves(History)

\* Parents are read first
Level(thing) ==
  CASE thing.kind = "chain" -> 0 [] thing.kind = "controller" -> 1 [] thing.kind = "record" -> 2 [] OTHER -> 3

\* What a record in some state says of a thing below it
Says(state, thing) ==
  IF state = "other" /\ thing.kind \in {"controller", "record", "artifacts", "view"} THEN "other" ELSE "own"

\* The record that speaks of a thing
Selector(r) == CHOOSE s \in invocation.selected : r = s \/ r \in TriedBy(s)
Above(thing) ==
  CASE thing.kind \in LeafKinds -> Thing("record", thing.run)
    [] thing.kind = "record" /\ Selector(thing.run) \in invocation.budgeted ->
         Thing("controller", Selector(thing.run))
    [] thing.kind = "project" /\ thing.run # NoRun -> Thing("controller", thing.run)
    [] OTHER -> Root

\* Mutated: an attempt is found by its name alone
MatchesUnlinked(thing, state, known) ==
  thing = Root \/ thing.kind \in {"record", "controller"} \/ state = Says(known[Above(thing)], thing)

\* A digest that a record above holds, compared where that record was read.  A run
\* loaded by its own path takes its controller's digest as it finds it.
Matches(thing, state, known) ==
  CASE thing = Root /\ Above(thing) = Root -> TRUE
    [] thing.kind = "controller" /\ Root.kind = "record" -> TRUE
    [] OTHER -> state = Says(known[Above(thing)], thing)

-----------------------------------------------------------------------------
(* The passes *)

Passes == <<"capture", "assess", "validate", "history", "seal", "documents", "gather", "confirm">>
After(pass) ==
  LET i == CHOOSE i \in DOMAIN Passes : Passes[i] = pass
  IN IF i = Len(Passes) THEN "publish" ELSE Passes[i + 1]

\* _validate_loaded_assessment of a selected run; of every attempt for the history
AssessedThings(runs) ==
  {Thing("record", r) : r \in runs} \cup {Thing("source", r) : r \in runs}
    \cup {Thing("controller", s) : s \in {Selector(r) : r \in runs} \cap invocation.budgeted}

\* What the receipt is made of: the base and what was delivered over it, the stages
\* of the selected runs, the attempts before them and every transcript
DeliveryReads ==
  {Thing(kind, r) : kind \in {"baseline", "artifacts"}, r \in invocation.selected}
    \cup (Aggregate \cap {Thing("project", NoRun)})
StageReads == {Thing("source", r) : r \in invocation.selected}
AttemptReads == {Thing(kind, r) : kind \in {"artifacts", "transcript"}, r \in History}

Reads(pass) ==
  CASE pass \in {"capture", "validate", "seal", "confirm"} -> All
    [] pass = "assess"    -> AssessedThings(invocation.selected)
    [] pass = "history"   -> AssessedThings(History)
    [] pass = "documents" -> Records
    [] OTHER              -> DeliveryReads \cup StageReads \cup AttemptReads

\* Raw and normalized observations of the checks, of the producer, and the declaration
Assessed(thing, state) == thing.kind = "record" => state # "odd"

NoThing == [thing \in {} |-> "own"]
StartPass(pass) == stage' = pass /\ left' = (IF pass = "publish" THEN {} ELSE Reads(pass)) /\ seen' = NoThing
RefuseExport == stage' = "refused" /\ left' = {} /\ seen' = NoThing

NextThing == CHOOSE t \in left : \A u \in left : Level(t) <= Level(u)

\* What a pass requires of a thing it has read
Accepts(thing, state) ==
  CASE stage \in {"capture", "seal"} ->
         Matches(thing, state, seen) /\ (thing = Root => state = result)
    [] stage \in {"validate", "confirm"} ->
         /\ Matches(thing, state, seen) /\ (thing = Root => state = result)
         /\ thing \in DOMAIN sealed => state = sealed[thing]
    [] stage \in {"assess", "history"} ->
         /\ Assessed(thing, state)
         /\ thing.kind = "source" => state = Says(seen[Above(thing)], thing)
         /\ thing.kind = "controller" /\ thing \in DOMAIN sealed => state = sealed[thing]
    [] stage = "gather" ->
         CASE thing.kind \in {"artifacts", "baseline"} ->
                state = Says(documents[Above(thing)], thing)
           [] thing.kind = "project" -> state = "own"
           [] OTHER -> TRUE
    [] OTHER -> TRUE

Noted(function, thing, state) ==
  [t \in DOMAIN function \cup {thing} |-> IF t = thing THEN state ELSE function[t]]

\* load_completed_result: decoding, before anything is compared
Decode ==
  /\ stage = "loading"
  /\ IF invocation.complete THEN StartPass("capture") /\ result' = disk[Root] ELSE RefuseExport /\ UNCHANGED result
  /\ UNCHANGED <<invocation, disk, sealed, documents, receipt, writes>>

ReadThing ==
  /\ left # {}
  /\ LET t == NextThing state == disk[t]
     IN IF ~Accepts(t, state) THEN RefuseExport /\ UNCHANGED <<documents, receipt>>
        ELSE /\ left' = left \ {t} /\ seen' = Noted(seen, t, state) /\ UNCHANGED stage
             /\ documents' = IF stage = "documents" THEN Noted(documents, t, state) ELSE documents
             /\ receipt' = IF stage = "gather" THEN Noted(receipt, t, state) ELSE receipt
  /\ UNCHANGED <<invocation, disk, result, sealed, writes>>

\* capture of a boundary keeps the digests of the records; the next pass begins
EndPass ==
  /\ stage \in {Passes[i] : i \in DOMAIN Passes} /\ left = {}
  /\ StartPass(After(stage))
  /\ sealed' = IF stage \in {"capture", "seal"}
               THEN [t \in {u \in DOMAIN seen : Level(u) < 3} |-> seen[t]] ELSE sealed
  /\ UNCHANGED <<invocation, disk, result, documents, receipt, writes>>

PublishReceipt ==
  /\ stage = "publish" /\ stage' = "published"
  /\ UNCHANGED <<invocation, disk, left, seen, result, sealed, documents, receipt, writes>>

\* Someone else replaces a retained file
Overwrite ==
  /\ writes < MaxReplaced /\ writes' = writes + 1 /\ stage \notin {"published", "refused"}
  /\ \E t \in All, state \in {"other", "odd"} :
       /\ disk[t] = "own" /\ (state = "odd" => t.kind = "record")
       /\ disk' = [disk EXCEPT ![t] = state]
  /\ UNCHANGED <<invocation, stage, left, seen, result, sealed, documents, receipt>>

EvidenceInit ==
  /\ invocation \in Invocations
  /\ disk = [t \in All |-> "own"] /\ stage = "loading" /\ left = {} /\ seen = NoThing
  /\ result = "own" /\ sealed = NoThing /\ documents = NoThing /\ receipt = NoThing /\ writes = 0

EvidenceNext == Decode \/ ReadThing \/ EndPass \/ PublishReceipt \/ Overwrite

EvidenceSpec == EvidenceInit /\ [][EvidenceNext]_evidenceVars

-----------------------------------------------------------------------------
(* Properties *)

\* Hazard: what a receipt is made of is read in many steps from files that others can
\* write.  A published receipt tells one story: all it contains is what
\* the record it was loaded from says of it, through the records between them, and no
\* record of it contradicts itself.  With an untouched root record, all of it is untouched.
ReceiptIsOneStory ==
  stage = "published" =>
    /\ \A t \in DOMAIN receipt :
         receipt[t] = IF t.kind = "project" THEN "own" ELSE Says(documents[Thing("record", t.run)], t)
    /\ \A t \in DOMAIN documents :
         /\ documents[t] # "odd"
         /\ t # Root => documents[t] = Says(IF Above(t) = Root THEN result ELSE sealed[Above(t)], t)
=============================================================================
