-------------------------------- MODULE Chain --------------------------------
(***************************************************************************)
(* One factory: run_chain of contracts/chain.py with the ChainStore of     *)
(* contracts/records.py.  The contracts of the graph run once each, in the *)
(* inferred order; a consumer gets the retained bytes of its producers,    *)
(* and only those the record owner admitted; the first failure stops the   *)
(* rest.  The factory is COMPLETE when every contract is.                  *)
(*                                                                         *)
(* A contract's own run is what RecordPromise says of Attempt and Repair.  *)
(* Around it other processes change the admitted sources, the records and  *)
(* bytes that finished runs retained, and writes fail.                     *)
(***************************************************************************)
EXTENDS Naturals

CONSTANTS
  NumNodes,   \* contracts of the factory, numbered in graph order
  Edges       \* <<producer, consumer>>: an output that a later contract needs

\* resolution.discover orders the graph and refuses cycles
ASSUME ChainAssumption ==
  /\ NumNodes \in Nat \ {0}
  /\ Edges \subseteq (1 .. NumNodes) \X (1 .. NumNodes)
  /\ \A e \in Edges : e[1] < e[2]

Nodes == 1 .. NumNodes
Outcomes == {"COMPLETE", "REJECTED", "UNPROVEN", "HALTED"}
StopOutcomes == Outcomes \ {"COMPLETE"}
NodeStates == {"pending", "running", "completed", "stopped", "blocked"}
WriteResults == {"written", "kept", "unsynced"}

Records == [phase: {"absent", "admitted", "capture", "execution", "artifacts", "record",
                    "finished", "finalization_failed"},
            complete: BOOLEAN, nodes: [Nodes -> NodeStates]]
NoRecord == [phase |-> "absent", complete |-> FALSE, nodes |-> [n \in Nodes |-> "pending"]]

VARIABLES
  pc,         \* the next step of run_chain
  allowed,    \* --allow-unproven-inputs
  current,    \* the contract in progress
  states,     \* the node states of this invocation
  runs,       \* contracts whose result was received
  outcome,    \* outcome
  complete,   \* complete
  data,       \* ChainStore._data
  disk,       \* the factory's record.json
  reply,      \* how run_chain ended
  leaf,       \* contract -> what its own record shows
  inputs,     \* catalog, contracts and captured project are as admitted
  tampered,   \* what changed of the retained records and bytes of finished runs
  view,       \* the aggregate artifact view is as it was published
  consumed,   \* history: edges whose consumer captured unchanged producer bytes
  validated   \* history: how often a complete factory was validated

world == <<leaf, inputs, tampered, view>>
history == <<consumed, validated>>
vars == <<pc, allowed, current, states, runs, outcome, complete, data, disk, reply,
          world, history>>

Producers(n) == {p \in Nodes : <<p, n>> \in Edges}

\* Mutated: no handoff is noticed
FeedsNobody(n) == FALSE

Feeds(n) == \E c \in Nodes : <<n, c>> \in Edges

\* records.validate_binding: the record and the bytes are those that were admitted
Binds(n) == <<n, "record">> \notin tampered /\ <<n, "bytes">> \notin tampered

-----------------------------------------------------------------------------

Write(new, w) ==
  /\ data' = new
  /\ disk' = IF w = "kept" THEN disk ELSE new

End(why) == pc' = "done" /\ reply' = why

\* The except clause: the node in progress stopped, the later ones are blocked.
\* Reporting it may raise, and then nothing records the end.
StoppedStates ==
  [n \in Nodes |-> IF n = current THEN "stopped" ELSE IF n > current THEN "blocked" ELSE states[n]]

Stop(o) ==
  /\ outcome' = o
  /\ states' = StoppedStates
  /\ \/ pc' = "close" /\ UNCHANGED reply
     \/ End("raised")

\* ChainStore.update inside the try block, with the node states s
Update(phase, s, next) ==
  \E w \in WriteResults :
    /\ Write([data EXCEPT !.phase = phase, !.nodes = s], w)
    /\ IF w = "written" THEN pc' = next /\ states' = s /\ UNCHANGED <<outcome, reply>>
       ELSE Stop("HALTED")

Refuse(outcomes) == \E o \in outcomes : Stop(o) /\ UNCHANGED <<data, disk>>

\* Consent and the first revalidation, before anything is created
Admit ==
  /\ pc = "admit"
  /\ \/ inputs /\ pc' = "create" /\ UNCHANGED reply
     \/ End("refused")
  /\ UNCHANGED <<allowed, current, states, runs, outcome, complete, data, disk, world, history>>

Create ==
  /\ pc = "create"
  /\ \E w \in WriteResults :
       /\ Write([NoRecord EXCEPT !.phase = "admitted"], w)
       /\ IF w = "written" THEN pc' = "capture" /\ UNCHANGED reply ELSE End("raised")
  /\ UNCHANGED <<allowed, current, states, runs, outcome, complete, world, history>>

\* Capture the project once for all contracts, and revalidate against it
Capture ==
  /\ pc = "capture"
  /\ \/ inputs /\ Update("capture", states, "enter")
     \/ Refuse({"HALTED"})
  /\ UNCHANGED <<allowed, current, runs, complete, world, history>>

Enter ==
  /\ pc = "enter"
  /\ Update("execution", states, "begin")
  /\ UNCHANGED <<allowed, current, runs, complete, world, history>>

Begin ==
  /\ pc = "begin"
  /\ Update("execution", [states EXCEPT ![current] = "running"], "bind")
  /\ UNCHANGED <<allowed, current, runs, complete, world, history>>

\* _bound: the producers' bytes are read back, the rest is as admitted
Bind ==
  /\ pc = "bind"
  /\ \/ /\ inputs /\ \A p \in Producers(current) : Binds(p)
        /\ pc' = "leaf"
        /\ UNCHANGED <<states, outcome, data, disk, reply>>
     \/ Refuse({"HALTED"})
  /\ UNCHANGED <<allowed, current, runs, complete, world, history>>

\* Mutated: the producers' bytes are used as they are
StartLeafUnchecked ==
  /\ pc = "leaf"
  /\ leaf' = [leaf EXCEPT ![current] = "open"]
  /\ consumed' = consumed \cup {<<p, current>> : p \in {q \in Producers(current) : Binds(q)}}
  /\ pc' = "run"
  /\ UNCHANGED <<states, runs, outcome, data, disk, reply, allowed, current, complete, inputs,
                 tampered, view, validated>>

\* run_contract admits again and captures its inputs; a binding that changed
\* since makes it refuse, or halt once its record exists
StartLeaf ==
  /\ pc = "leaf"
  /\ \/ /\ inputs /\ \A p \in Producers(current) : Binds(p)
        /\ leaf' = [leaf EXCEPT ![current] = "open"]
        /\ consumed' = consumed \cup {<<p, current>> : p \in {q \in Producers(current) : Binds(q)}}
        /\ pc' = "run"
        /\ UNCHANGED <<states, runs, outcome, data, disk, reply>>
     \/ /\ leaf' = [leaf EXCEPT ![current] = "HALTED"]
        /\ runs' = runs \cup {current} /\ pc' = "accept"
        /\ UNCHANGED <<states, outcome, data, disk, reply, consumed>>
     \/ /\ leaf' \in {leaf, [leaf EXCEPT ![current] = "open"]}
        /\ Refuse(StopOutcomes) /\ UNCHANGED <<runs, consumed>>
  /\ UNCHANGED <<allowed, current, complete, inputs, tampered, view, validated>>

\* The rest of run_contract: an outcome, or an exception that left any record
RunLeaf ==
  /\ pc = "run"
  /\ \E s \in Outcomes \cup {"open"} : leaf' = [leaf EXCEPT ![current] = s]
  /\ \/ /\ leaf'[current] # "open"
        /\ runs' = runs \cup {current} /\ pc' = "accept"
        /\ UNCHANGED <<states, outcome, data, disk, reply>>
     \/ Refuse(StopOutcomes) /\ UNCHANGED runs
  /\ UNCHANGED <<allowed, current, complete, inputs, tampered, view, history>>

\* Mutated: any result is accepted
AcceptAny ==
  /\ pc = "accept"
  /\ Update("execution", [states EXCEPT ![current] = "completed"],
            IF current = NumNodes THEN "assemble" ELSE "begin")
  /\ current' = IF pc' = "begin" THEN current + 1 ELSE current
  /\ UNCHANGED <<allowed, runs, complete, world, history>>

\* finalized_inputs: a COMPLETE leaf whose retained evidence still validates
Finalized(n) == leaf[n] = "COMPLETE" /\ Binds(n)

\* admit_handoffs: outputs go on to a consumer only with --allow-unproven-inputs
Admitted(n) == Finalized(n) /\ (Feeds(n) => allowed)

\* Revalidate, then accept what the leaf delivered
Accept ==
  /\ pc = "accept"
  /\ \/ /\ inputs /\ Admitted(current)
        /\ Update("execution", [states EXCEPT ![current] = "completed"],
                  IF current = NumNodes THEN "assemble" ELSE "begin")
        /\ current' = IF pc' = "begin" THEN current + 1 ELSE current
     \/ Refuse(StopOutcomes) /\ UNCHANGED current
  /\ UNCHANGED <<allowed, runs, complete, world, history>>

\* Read every accepted output once more and publish the aggregate view
Assemble ==
  /\ pc = "assemble"
  /\ \/ /\ \A n \in Nodes : Binds(n)
        /\ view' = TRUE
        /\ Update("artifacts", states, "claim")
     \/ Refuse({"HALTED"}) /\ UNCHANGED view
  /\ UNCHANGED <<allowed, current, runs, complete, leaf, inputs, tampered, history>>

\* complete and outcome are two assignments; Ctrl+C may come between or after
Claim ==
  /\ pc = "claim"
  /\ complete' = TRUE
  /\ \/ outcome' = "COMPLETE" /\ pc' = "close" /\ UNCHANGED <<states, reply>>
     \/ Stop("HALTED")
  /\ UNCHANGED <<allowed, current, runs, data, disk, world, history>>

\* Ctrl+C or an error anywhere else in the try block
Interrupt ==
  /\ pc \in {"capture", "enter", "begin", "bind", "leaf", "run", "accept", "assemble", "claim"}
  /\ Refuse({"HALTED"})
  /\ UNCHANGED <<allowed, current, runs, complete, world, history>>

-----------------------------------------------------------------------------

\* Once update stored the node list, the record in memory shares it
Shared == IF data.phase \in {"admitted", "capture"} THEN data.nodes ELSE states

Commit(new, next) ==
  \E w \in WriteResults :
    /\ Write(new, w)
    /\ pc' = IF w = "written" THEN next ELSE "failing"

Close ==
  /\ pc = "close"
  /\ \/ pc' = "failing" /\ UNCHANGED <<data, disk>>
     \/ Commit([data EXCEPT !.phase = "record", !.nodes = Shared], "validate")
  /\ UNCHANGED <<allowed, current, states, runs, outcome, complete, reply, world, history>>

\* _validate_chain_completion: every contract is there once, in order, completed,
\* and its record is the one that was accepted
ChainHolds ==
  /\ view /\ outcome = "COMPLETE" /\ runs = Nodes
  /\ \A n \in Nodes : /\ states[n] = "completed" /\ leaf[n] = "COMPLETE"
                      /\ <<n, "record">> \notin tampered

Validate ==
  /\ pc = "validate"
  /\ \/ /\ complete => ChainHolds
        /\ validated' = IF complete THEN validated + 1 ELSE validated
        /\ pc' = "finish"
     \/ pc' = "failing" /\ UNCHANGED validated
  /\ UNCHANGED <<allowed, current, states, runs, outcome, complete, data, disk, reply,
                 world, consumed>>

Finish ==
  /\ pc = "finish"
  /\ Commit([data EXCEPT !.phase = "finished", !.complete = complete, !.nodes = states],
            "readback")
  /\ UNCHANGED <<allowed, current, states, runs, outcome, complete, reply, world, history>>

\* The record on disk is compared with the one in memory
ReadBack ==
  /\ pc = "readback"
  /\ \/ /\ disk = data
        /\ validated' = IF complete THEN validated + 1 ELSE validated
        /\ pc' = "return"
     \/ pc' = "failing" /\ UNCHANGED validated
  /\ UNCHANGED <<allowed, current, states, runs, outcome, complete, data, disk, reply,
                 world, consumed>>

\* Mutated: the failed record still says complete
FailFinalizationVisible ==
  /\ pc = "failing"
  /\ \E w \in WriteResults :
       /\ Write([data EXCEPT !.phase = "finalization_failed", !.nodes = Shared], w)
       /\ End(IF w = "written" THEN "unfinalized" ELSE "unpersisted")
  /\ UNCHANGED <<allowed, current, states, runs, outcome, complete, world, history>>

FailFinalization ==
  /\ pc = "failing"
  /\ \E w \in WriteResults :
       /\ Write([data EXCEPT !.phase = "finalization_failed", !.complete = FALSE,
                            !.nodes = Shared], w)
       /\ \E why \in {IF w = "written" THEN "unfinalized" ELSE "unpersisted", "interrupted"} :
            End(why)
  /\ UNCHANGED <<allowed, current, states, runs, outcome, complete, world, history>>

Return ==
  /\ pc = "return"
  /\ End(outcome)
  /\ UNCHANGED <<allowed, current, states, runs, outcome, complete, data, disk, world, history>>

\* Ctrl+C outside the try blocks, in the handlers and in fail_finalization before
\* its own try block
Propagate ==
  /\ pc \in {"admit", "create", "close", "validate", "failing", "return"}
  /\ End("interrupted")
  /\ UNCHANGED <<allowed, current, states, runs, outcome, complete, data, disk, world, history>>

-----------------------------------------------------------------------------
(* The world *)

Toggle(set, x) == IF x \in set THEN set \ {x} ELSE set \cup {x}

Meddle ==
  /\ pc # "done"
  /\ \/ inputs' = ~inputs /\ UNCHANGED <<tampered, view>>
     \/ /\ \E n \in Nodes, part \in {"record", "bytes"} :
             leaf[n] \in Outcomes /\ tampered' = Toggle(tampered, <<n, part>>)
        /\ UNCHANGED <<inputs, view>>
     \/ view /\ view' = FALSE /\ UNCHANGED <<inputs, tampered>>
  /\ UNCHANGED <<pc, allowed, current, states, runs, outcome, complete, data, disk, reply,
                 leaf, history>>

Crash ==
  /\ pc # "done"
  /\ End("crashed")
  /\ UNCHANGED <<allowed, current, states, runs, outcome, complete, data, disk, world, history>>

Init ==
  /\ pc = "admit" /\ allowed \in BOOLEAN /\ current = 1
  /\ states = [n \in Nodes |-> "pending"] /\ runs = {}
  /\ outcome = "UNPROVEN" /\ complete = FALSE
  /\ data = NoRecord /\ disk = NoRecord /\ reply = "none"
  /\ leaf = [n \in Nodes |-> "absent"] /\ inputs = TRUE /\ tampered = {} /\ view = FALSE
  /\ consumed = {} /\ validated = 0

Step ==
  \/ Admit \/ Create \/ Capture \/ Enter \/ Begin \/ Bind \/ StartLeaf \/ RunLeaf \/ Accept
  \/ Assemble \/ Claim \/ Close \/ Validate \/ Finish \/ ReadBack \/ FailFinalization \/ Return

Next == Step \/ Interrupt \/ Propagate \/ Meddle \/ Crash

Spec == Init /\ [][Next]_vars
FairSpec == Spec /\ WF_vars(Step)

-----------------------------------------------------------------------------
(* Properties *)

\* A factory record that shows complete: every contract ran, is COMPLETE and was
\* accepted, every consumer captured the bytes its producer retained, handoffs
\* were allowed, and the whole was validated before it became visible.
CompleteIsWhole ==
  disk.complete =>
    /\ \A n \in Nodes : disk.nodes[n] = "completed" /\ leaf[n] = "COMPLETE"
    /\ runs = Nodes /\ outcome = "COMPLETE"
    /\ consumed = Edges /\ (Edges # {} => allowed)
    /\ validated > 0

\* A contract starts only after all earlier ones were accepted, and one whose
\* producer was not accepted, or that is reported as blocked, never starts.
NodesRunInOrder ==
  \A n \in Nodes : leaf[n] # "absent" =>
    /\ states[n] \notin {"pending", "blocked"}
    /\ \A m \in 1 .. n - 1 : states[m] = "completed" /\ leaf[m] = "COMPLETE"
    /\ Producers(n) # {} => allowed

\* A verdict of a consumer is about the bytes its producers retained: changed
\* bytes are refused, or the consumer halts.
VerdictsUseAdmittedBytes ==
  \A n \in runs : leaf[n] \in {"COMPLETE", "REJECTED", "UNPROVEN"} =>
    \A p \in Producers(n) : <<p, n>> \in consumed

\* A contract runs in its order, on the bytes its producers handed on.
NodesRunOnAdmittedWork == NodesRunInOrder /\ VerdictsUseAdmittedBytes
=============================================================================
