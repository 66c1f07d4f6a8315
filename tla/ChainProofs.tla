------------------------------ MODULE ChainProofs ------------------------------
(***************************************************************************)
(* Proofs about one factory, for every number of contracts and every graph *)
(* of handoffs that discover can order: a factory that shows complete is   *)
(* whole, contracts run on admitted work only, and the factory keeps the   *)
(* safety part of the record promise.                                      *)
(***************************************************************************)
EXTENDS ChainPromise, TLAPS

-----------------------------------------------------------------------------
(* The inductive invariant *)

Outside == {"admit", "create"}
Opening == {"capture", "enter"}
Running == {"begin", "bind", "leaf", "run", "accept"}
Gathering == {"assemble", "claim"}
InTry == Opening \cup Running \cup Gathering
Closing == {"close", "validate", "finish", "readback", "return", "failing"}
Steps == Outside \cup InTry \cup Closing \cup {"done"}

Replies == Outcomes \cup {"none", "refused", "raised", "unfinalized", "unpersisted",
                          "interrupted", "crashed"}

TypeOK ==
  /\ pc \in Steps /\ allowed \in BOOLEAN /\ current \in Nodes
  /\ states \in [Nodes -> NodeStates] /\ runs \subseteq Nodes
  /\ outcome \in Outcomes /\ complete \in BOOLEAN
  /\ data \in Records /\ disk \in Records /\ reply \in Replies
  /\ leaf \in [Nodes -> Outcomes \cup {"absent", "open"}]
  /\ inputs \in BOOLEAN /\ view \in BOOLEAN
  /\ consumed \subseteq Edges /\ validated \in 0 .. 2

\* What is known of a contract whose result was accepted
Accepted(n) ==
  /\ leaf[n] = "COMPLETE" /\ n \in runs /\ (Feeds(n) => allowed)
  /\ \A p \in Producers(n) : <<p, n>> \in consumed

\* The contracts before the one in progress were accepted, the later ones never ran
WorkIsOrdered ==
  /\ \A n \in Nodes : n < current => Accepted(n) /\ states[n] = "completed"
  /\ \A n \in Nodes : n > current =>
       leaf[n] = "absent" /\ n \notin runs /\ states[n] \in {"pending", "blocked"}
  /\ pc \in Outside \cup Opening => current = 1
  /\ pc \in Outside \cup Opening \cup {"begin", "bind", "leaf"} =>
       leaf[current] = "absent"
  /\ pc \in Outside \cup Opening \cup {"begin", "bind", "leaf", "run"} => current \notin runs
  /\ pc \in Running \ {"begin"} => states[current] = "running"
  /\ leaf[current] # "absent" => states[current] \in {"running", "completed", "stopped"}

\* The contract in progress has captured what its producers retained when it runs,
\* and a verdict is never about anything else
CaptureComesFirst ==
  /\ pc = "run" => \A p \in Producers(current) : <<p, current>> \in consumed
  /\ pc = "accept" => current \in runs
  /\ VerdictsUseAdmittedBytes

\* The loop is left with every contract accepted, or the factory is not complete
EndIsWhole ==
  /\ pc \in Gathering => /\ current = NumNodes /\ Accepted(current)
                         /\ states[current] = "completed"
  /\ pc \in Outside \cup InTry => ~complete /\ outcome # "COMPLETE"
  /\ complete => current = NumNodes /\ Accepted(current)
  /\ outcome = "COMPLETE" => complete /\ states[current] = "completed"
  /\ pc \in {"finish", "readback", "return"} => (complete => outcome = "COMPLETE")

\* A record that shows complete, in memory or on disk, shows what this invocation
\* validated
ShownIsWhole ==
  \A record \in {data, disk} :
    record.complete => /\ outcome = "COMPLETE" /\ validated > 0
                       /\ \A n \in Nodes : record.nodes[n] = "completed"

\* How often the factory was validated, what its record shows and what the caller
\* has, at each step
ProgressIsOrdered ==
  /\ pc \in Outside \cup InTry \cup {"close", "validate"} => validated = 0
  /\ pc \in {"finish", "readback"} => validated = IF complete THEN 1 ELSE 0
  /\ pc = "return" => validated = IF complete THEN 2 ELSE 0
  /\ pc \in Outside => disk.phase = "absent"
  /\ pc \in InTry \cup Closing => disk.phase # "absent" /\ data.phase # "absent"
  /\ pc \in Outside \cup InTry \cup {"close", "validate", "finish"}
       => /\ ~disk.complete /\ disk.phase # "finished"
          /\ ~data.complete /\ data.phase # "finished"
  /\ pc \in {"readback", "return"} => disk.phase = "finished" /\ disk.complete = complete
  /\ pc # "done" => reply = "none"

IInv ==
  /\ TypeOK /\ WorkIsOrdered /\ CaptureComesFirst /\ EndIsWhole
  /\ ShownIsWhole /\ ProgressIsOrdered

-----------------------------------------------------------------------------
(* What the steps do to the record and to the node states *)

LEMMA StatesTyped ==
  ASSUME TypeOK
  PROVE  /\ StoppedStates \in [Nodes -> NodeStates]
         /\ \A s \in NodeStates : [states EXCEPT ![current] = s] \in [Nodes -> NodeStates]
         /\ "running" \in NodeStates /\ "completed" \in NodeStates
<1>1. states \in [Nodes -> NodeStates] /\ current \in Nodes BY DEF TypeOK
<1>2. {"stopped", "blocked", "running", "completed"} \subseteq NodeStates BY DEF NodeStates
<1> QED BY <1>1, <1>2 DEF StoppedStates

\* An update records the states it was given and the step goes on, or the loop stops
LEMMA UpdateDoes ==
  ASSUME TypeOK, NEW phase \in {"capture", "execution", "artifacts"},
         NEW s \in [Nodes -> NodeStates], NEW next, Update(phase, s, next)
  PROVE  /\ data' \in Records /\ disk' \in {disk, data'}
         /\ data'.phase = phase /\ data'.complete = data.complete
         /\ \/ pc' = next /\ disk' = data' /\ states' = s /\ outcome' = outcome /\ reply' = reply
            \/ Stop("HALTED")
<1>1. data \in Records BY DEF TypeOK
<1>2. data' = [data EXCEPT !.phase = phase, !.nodes = s] BY DEF Update, Write
<1>3. data' \in Records /\ data'.phase = phase /\ data'.complete = data.complete
  BY <1>1, <1>2 DEF Records
<1>4. disk' \in {disk, data'} BY DEF Update, Write
<1>5. \/ pc' = next /\ disk' = data' /\ states' = s /\ outcome' = outcome /\ reply' = reply
      \/ Stop("HALTED")
  BY DEF Update, Write
<1> QED BY <1>3, <1>4, <1>5

LEMMA StopDoes ==
  ASSUME NEW o \in StopOutcomes, Stop(o)
  PROVE  /\ outcome' = o /\ states' = StoppedStates
         /\ \/ pc' = "close" /\ reply' = reply
            \/ pc' = "done" /\ reply' = "raised"
BY DEF Stop, End

LEMMA StopKinds == "HALTED" \in StopOutcomes /\ StopOutcomes \subseteq Outcomes \ {"COMPLETE"}
BY DEF StopOutcomes, Outcomes

\* A write of the end goes on only when it is durable
LEMMA CommitDoes ==
  ASSUME NEW new, NEW next, Commit(new, next)
  PROVE  /\ data' = new /\ disk' \in {disk, data'} /\ pc' \in {next, "failing"}
         /\ pc' # "failing" => disk' = data'
BY DEF Commit, Write

LEMMA EndWrites ==
  ASSUME TypeOK
  PROVE  /\ NoRecord \in Records /\ [NoRecord EXCEPT !.phase = "admitted"] \in Records
         /\ [data EXCEPT !.phase = "record", !.nodes = Shared] \in Records
         /\ [data EXCEPT !.phase = "finished", !.complete = complete, !.nodes = states] \in Records
         /\ [data EXCEPT !.phase = "finalization_failed", !.complete = FALSE, !.nodes = Shared]
              \in Records
<1> USE DEF Records
<1>1. data \in Records /\ complete \in BOOLEAN /\ states \in [Nodes -> NodeStates]
  BY DEF TypeOK
<1>2. Shared \in [Nodes -> NodeStates] BY <1>1 DEF Shared
<1>3. NoRecord \in Records BY DEF NoRecord, NodeStates
<1>4. [NoRecord EXCEPT !.phase = "admitted"] \in Records BY <1>3
<1>5. [data EXCEPT !.phase = "record", !.nodes = Shared] \in Records BY <1>1, <1>2
<1>6. [data EXCEPT !.phase = "finished", !.complete = complete, !.nodes = states] \in Records
  BY <1>1
<1>7. [data EXCEPT !.phase = "finalization_failed", !.complete = FALSE, !.nodes = Shared]
        \in Records
  BY <1>1, <1>2
<1> QED BY <1>3, <1>4, <1>5, <1>6, <1>7

\* The steps of the try block write records of the same completeness, or stop
LEMMA LoopStep ==
  ASSUME TypeOK, \/ Capture \/ Enter \/ Begin \/ Bind \/ StartLeaf
                 \/ RunLeaf \/ Accept \/ Assemble \/ Interrupt
  PROVE  /\ data' \in Records /\ disk' \in {disk, data'} /\ data'.complete = data.complete
         /\ (data' = data \/ data'.phase \in {"capture", "execution", "artifacts"})
         /\ states' \in [Nodes -> NodeStates] /\ complete' = complete /\ validated' = validated
         /\ \/ pc' \in InTry /\ outcome' = outcome /\ reply' = reply /\ (disk' = data' \/ data' = data)
            \/ /\ outcome' \in StopOutcomes /\ states' = StoppedStates
               /\ \/ pc' = "close" /\ reply' = reply
                  \/ pc' = "done" /\ reply' = "raised"
<1> DEFINE Does ==
      /\ data' \in Records /\ disk' \in {disk, data'} /\ data'.complete = data.complete
      /\ (data' = data \/ data'.phase \in {"capture", "execution", "artifacts"})
      /\ states' \in [Nodes -> NodeStates]
      /\ \/ pc' \in InTry /\ outcome' = outcome /\ reply' = reply /\ (disk' = data' \/ data' = data)
         \/ /\ outcome' \in StopOutcomes /\ states' = StoppedStates
            /\ \/ pc' = "close" /\ reply' = reply
               \/ pc' = "done" /\ reply' = "raised"
<1>1. data \in Records /\ states \in [Nodes -> NodeStates] BY DEF TypeOK
<1>2. ASSUME Refuse(StopOutcomes) \/ Refuse({"HALTED"}) PROVE Does
  BY <1>1, <1>2, StopDoes, StopKinds, StatesTyped DEF Refuse
<1>3. ASSUME NEW phase \in {"capture", "execution", "artifacts"},
             NEW s \in [Nodes -> NodeStates], NEW next \in InTry, Update(phase, s, next)
      PROVE  Does
  BY <1>3, UpdateDoes, StopDoes, StopKinds, StatesTyped
<1>4. ASSUME UNCHANGED <<data, disk, states, outcome, reply>>, pc' \in InTry PROVE Does
  BY <1>1, <1>4
<1>5. {"enter", "begin", "bind", "leaf", "run", "accept", "assemble", "claim"} \subseteq InTry
  BY DEF InTry, Opening, Running, Gathering
<1>0. UNCHANGED <<complete, validated>>
  BY DEF Capture, Enter, Begin, Bind, StartLeaf, RunLeaf, Accept, Assemble, Interrupt, history
<1> SUFFICES Does
  BY <1>0
<1> HIDE DEF Does
<1>6. CASE Capture \/ Enter
  BY <1>1, <1>2, <1>3, <1>5, <1>6 DEF Capture, Enter
<1>7. CASE Begin BY <1>3, <1>5, <1>7, StatesTyped DEF Begin
<1>8. CASE Bind \/ StartLeaf \/ RunLeaf
  BY <1>2, <1>4, <1>5, <1>8 DEF Bind, StartLeaf, RunLeaf
<1>9. CASE Accept
  <2>1. (IF current = NumNodes THEN "assemble" ELSE "begin") \in InTry BY <1>5
  <2> QED BY <1>2, <1>3, <1>9, <2>1, StatesTyped DEF Accept
<1>10. CASE Assemble \/ Interrupt BY <1>1, <1>2, <1>3, <1>5, <1>10 DEF Assemble, Interrupt
<1> QED BY <1>6, <1>7, <1>8, <1>9, <1>10

\* Every write is a record, and the disk keeps the old one or has the new one
LEMMA RecordsStep ==
  ASSUME TypeOK, [Next]_vars
  PROVE  data' \in Records /\ disk' \in {disk, data'} /\ states' \in [Nodes -> NodeStates]
<1> USE DEF vars, history, world, End
<1>0. data \in Records /\ states \in [Nodes -> NodeStates] BY DEF TypeOK
<1>1. CASE \/ Capture \/ Enter \/ Begin \/ Bind \/ StartLeaf \/ RunLeaf \/ Accept
           \/ Assemble \/ Interrupt
  BY <1>1, LoopStep
<1>2. CASE Create BY <1>0, <1>2, EndWrites DEF Create, Write
<1>3. CASE Claim BY <1>0, <1>3, StopDoes, StopKinds, StatesTyped DEF Claim
<1>4. CASE Close BY <1>0, <1>4, EndWrites, CommitDoes DEF Close
<1>5. CASE Finish BY <1>0, <1>5, EndWrites, CommitDoes DEF Finish
<1>6. CASE FailFinalization BY <1>0, <1>6, EndWrites DEF FailFinalization, Write
<1>7. CASE Admit \/ Validate \/ ReadBack \/ Return \/ Propagate \/ Meddle \/ Crash
  BY <1>0, <1>7 DEF Admit, Validate, ReadBack, Return, Propagate, Meddle, Crash
<1>8. CASE UNCHANGED vars BY <1>0, <1>8
<1> QED BY <1>1, <1>2, <1>3, <1>4, <1>5, <1>6, <1>7, <1>8 DEF Next, Step

-----------------------------------------------------------------------------
(* Every step keeps each part *)

LEMMA TypeStep ==
  ASSUME TypeOK, ProgressIsOrdered, [Next]_vars
  PROVE  TypeOK'
<1> USE DEF vars, history, world, Write, Update, Refuse, Stop, End, Commit
<1>1. pc' \in Steps /\ outcome' \in Outcomes /\ reply' \in Replies /\ complete' \in BOOLEAN
  <2> USE DEF TypeOK, Replies, StopOutcomes, Outcomes, Outside, Opening, Running, Gathering, InTry, Closing, Steps
  <2>1. CASE Admit BY <2>1 DEF Admit
  <2>2. CASE Create BY <2>2 DEF Create
  <2>3. CASE Capture BY <2>3 DEF Capture
  <2>4. CASE Enter BY <2>4 DEF Enter
  <2>5. CASE Begin BY <2>5 DEF Begin
  <2>6. CASE Bind BY <2>6 DEF Bind
  <2>7. CASE StartLeaf BY <2>7 DEF StartLeaf
  <2>8. CASE RunLeaf BY <2>8 DEF RunLeaf
  <2>9. CASE Accept BY <2>9 DEF Accept
  <2>10. CASE Assemble BY <2>10 DEF Assemble
  <2>11. CASE Claim BY <2>11 DEF Claim
  <2>12. CASE Close BY <2>12 DEF Close
  <2>13. CASE Validate BY <2>13 DEF Validate
  <2>14. CASE Finish BY <2>14 DEF Finish
  <2>15. CASE ReadBack BY <2>15 DEF ReadBack
  <2>16. CASE FailFinalization BY <2>16 DEF FailFinalization
  <2>17. CASE Return BY <2>17 DEF Return
  <2>18. CASE Interrupt BY <2>18 DEF Interrupt
  <2>19. CASE Propagate BY <2>19 DEF Propagate
  <2>20. CASE Meddle BY <2>20 DEF Meddle
  <2>21. CASE Crash BY <2>21 DEF Crash
  <2>22. CASE UNCHANGED vars BY <2>22
  <2> QED
    BY <2>1, <2>2, <2>3, <2>4, <2>5, <2>6, <2>7, <2>8, <2>9, <2>10, <2>11,
       <2>12, <2>13, <2>14, <2>15, <2>16, <2>17, <2>18, <2>19, <2>20, <2>21, <2>22
       DEF Next, Step
<1>2. allowed' \in BOOLEAN /\ current' \in Nodes /\ inputs' \in BOOLEAN /\ view' \in BOOLEAN
      /\ validated' \in 0 .. 2 /\ runs' \subseteq Nodes
  <2> USE DEF TypeOK, ProgressIsOrdered, Nodes, Outside, Opening, Running, Gathering, InTry, Closing, Steps
  <2>1. CASE Admit BY <2>1 DEF Admit
  <2>2. CASE Create BY <2>2 DEF Create
  <2>3. CASE Capture BY <2>3 DEF Capture
  <2>4. CASE Enter BY <2>4 DEF Enter
  <2>5. CASE Begin BY <2>5 DEF Begin
  <2>6. CASE Bind BY <2>6 DEF Bind
  <2>7. CASE StartLeaf BY <2>7 DEF StartLeaf
  <2>8. CASE RunLeaf BY <2>8 DEF RunLeaf
  <2>9. CASE Accept
    <3>1. current' \in {current, current + 1} /\ (current' # current => current # NumNodes)
      BY <2>9 DEF Accept
    <3>2. NumNodes \in Nat BY ChainAssumption
    <3> QED BY <2>9, <3>1, <3>2 DEF Accept
  <2>10. CASE Assemble BY <2>10 DEF Assemble
  <2>11. CASE Claim BY <2>11 DEF Claim
  <2>12. CASE Close BY <2>12 DEF Close
  <2>13. CASE Validate BY <2>13 DEF Validate
  <2>14. CASE Finish BY <2>14 DEF Finish
  <2>15. CASE ReadBack BY <2>15 DEF ReadBack
  <2>16. CASE FailFinalization BY <2>16 DEF FailFinalization
  <2>17. CASE Return BY <2>17 DEF Return
  <2>18. CASE Interrupt BY <2>18 DEF Interrupt
  <2>19. CASE Propagate BY <2>19 DEF Propagate
  <2>20. CASE Meddle BY <2>20 DEF Meddle
  <2>21. CASE Crash BY <2>21 DEF Crash
  <2>22. CASE UNCHANGED vars BY <2>22
  <2> QED
    BY <2>1, <2>2, <2>3, <2>4, <2>5, <2>6, <2>7, <2>8, <2>9, <2>10, <2>11,
       <2>12, <2>13, <2>14, <2>15, <2>16, <2>17, <2>18, <2>19, <2>20, <2>21, <2>22
       DEF Next, Step
<1>3. consumed' \subseteq Edges
  <2>0. consumed \subseteq Edges BY DEF TypeOK
  <2>1. CASE Admit BY <2>0, <2>1 DEF Admit
  <2>2. CASE Create BY <2>0, <2>2 DEF Create
  <2>3. CASE Capture BY <2>0, <2>3 DEF Capture
  <2>4. CASE Enter BY <2>0, <2>4 DEF Enter
  <2>5. CASE Begin BY <2>0, <2>5 DEF Begin
  <2>6. CASE Bind BY <2>0, <2>6 DEF Bind
  <2>7. CASE StartLeaf
    <3>1. consumed' = consumed \/ consumed' \subseteq consumed \cup {<<p, current>> : p \in Producers(current)}
      BY <2>0, <2>7 DEF StartLeaf
    <3>2. \A p \in Producers(current) : <<p, current>> \in Edges BY DEF Producers
    <3> QED BY <2>0, <2>0, <3>1, <3>2
  <2>8. CASE RunLeaf BY <2>0, <2>8 DEF RunLeaf
  <2>9. CASE Accept BY <2>0, <2>9 DEF Accept
  <2>10. CASE Assemble BY <2>0, <2>10 DEF Assemble
  <2>11. CASE Claim BY <2>0, <2>11 DEF Claim
  <2>12. CASE Close BY <2>0, <2>12 DEF Close
  <2>13. CASE Validate BY <2>0, <2>13 DEF Validate
  <2>14. CASE Finish BY <2>0, <2>14 DEF Finish
  <2>15. CASE ReadBack BY <2>0, <2>15 DEF ReadBack
  <2>16. CASE FailFinalization BY <2>0, <2>16 DEF FailFinalization
  <2>17. CASE Return BY <2>0, <2>17 DEF Return
  <2>18. CASE Interrupt BY <2>0, <2>18 DEF Interrupt
  <2>19. CASE Propagate BY <2>0, <2>19 DEF Propagate
  <2>20. CASE Meddle BY <2>0, <2>20 DEF Meddle
  <2>21. CASE Crash BY <2>0, <2>21 DEF Crash
  <2>22. CASE UNCHANGED vars BY <2>0, <2>22
  <2> QED
    BY <2>0, <2>1, <2>2, <2>3, <2>4, <2>5, <2>6, <2>7, <2>8, <2>9, <2>10, <2>11,
       <2>12, <2>13, <2>14, <2>15, <2>16, <2>17, <2>18, <2>19, <2>20, <2>21, <2>22
       DEF Next, Step
<1>4. leaf' \in [Nodes -> Outcomes \cup {"absent", "open"}]
  <2>0. leaf \in [Nodes -> Outcomes \cup {"absent", "open"}] /\ "HALTED" \in Outcomes
    BY DEF TypeOK, Outcomes
  <2>1. CASE Admit BY <2>0, <2>1 DEF Admit
  <2>2. CASE Create BY <2>0, <2>2 DEF Create
  <2>3. CASE Capture BY <2>0, <2>3 DEF Capture
  <2>4. CASE Enter BY <2>0, <2>4 DEF Enter
  <2>5. CASE Begin BY <2>0, <2>5 DEF Begin
  <2>6. CASE Bind BY <2>0, <2>6 DEF Bind
  <2>7. CASE StartLeaf BY <2>0, <2>7 DEF StartLeaf
  <2>8. CASE RunLeaf BY <2>0, <2>8 DEF RunLeaf
  <2>9. CASE Accept BY <2>0, <2>9 DEF Accept
  <2>10. CASE Assemble BY <2>0, <2>10 DEF Assemble
  <2>11. CASE Claim BY <2>0, <2>11 DEF Claim
  <2>12. CASE Close BY <2>0, <2>12 DEF Close
  <2>13. CASE Validate BY <2>0, <2>13 DEF Validate
  <2>14. CASE Finish BY <2>0, <2>14 DEF Finish
  <2>15. CASE ReadBack BY <2>0, <2>15 DEF ReadBack
  <2>16. CASE FailFinalization BY <2>0, <2>16 DEF FailFinalization
  <2>17. CASE Return BY <2>0, <2>17 DEF Return
  <2>18. CASE Interrupt BY <2>0, <2>18 DEF Interrupt
  <2>19. CASE Propagate BY <2>0, <2>19 DEF Propagate
  <2>20. CASE Meddle BY <2>0, <2>20 DEF Meddle
  <2>21. CASE Crash BY <2>0, <2>21 DEF Crash
  <2>22. CASE UNCHANGED vars BY <2>0, <2>22
  <2> QED
    BY <2>0, <2>1, <2>2, <2>3, <2>4, <2>5, <2>6, <2>7, <2>8, <2>9, <2>10, <2>11,
       <2>12, <2>13, <2>14, <2>15, <2>16, <2>17, <2>18, <2>19, <2>20, <2>21, <2>22
       DEF Next, Step
<1> QED BY <1>1, <1>2, <1>3, <1>4, RecordsStep DEF TypeOK

LEMMA WorkStep ==
  ASSUME TypeOK, WorkIsOrdered, CaptureComesFirst, EndIsWhole, [Next]_vars
  PROVE  WorkIsOrdered'
<1> USE DEF WorkIsOrdered, Accepted, EndIsWhole, StoppedStates, Nodes, Outcomes, Outside, Opening, Running, Gathering, InTry, Closing, Steps, vars, world, history, Write, Update, Refuse, Stop, End, Commit
<1>0. /\ current \in Nodes /\ states \in [Nodes -> NodeStates]
      /\ leaf \in [Nodes -> Outcomes \cup {"absent", "open"}] /\ NumNodes \in Nat
  BY ChainAssumption DEF TypeOK
<1>1. CASE Admit BY <1>1, <1>0 DEF Admit
<1>2. CASE Create BY <1>2, <1>0 DEF Create
<1>3. CASE Capture BY <1>3, <1>0 DEF Capture
<1>4. CASE Enter BY <1>4, <1>0 DEF Enter
<1>5. CASE Begin
  <2>1. UNCHANGED <<leaf, runs, allowed, consumed, current>> BY <1>5 DEF Begin
  <2>2. \/ pc' = "bind" /\ states' = [states EXCEPT ![current] = "running"]
        \/ pc' \in {"close", "done"} /\ states' = StoppedStates
    BY <1>5 DEF Begin
  <2> QED BY <1>5, <1>0, <2>1, <2>2 DEF Begin
<1>6. CASE Bind BY <1>6, <1>0 DEF Bind
<1>7. CASE StartLeaf BY <1>7, <1>0 DEF StartLeaf
<1>8. CASE RunLeaf BY <1>8, <1>0 DEF RunLeaf
<1>9. CASE Accept
  <2>1. CASE Refuse(StopOutcomes)
    BY <1>9, <1>0, <2>1 DEF Accept
  <2>2. CASE ~Refuse(StopOutcomes)
    <3>1. inputs /\ Admitted(current) /\ Accepted(current)
      BY <1>9, <2>2 DEF Accept, Admitted, Finalized, CaptureComesFirst, VerdictsUseAdmittedBytes
    <3>2. UNCHANGED <<leaf, runs, allowed, consumed>> BY <1>9 DEF Accept
    <3>3. CASE pc' = "begin"
      <4>1. current' = current + 1 /\ states' = [states EXCEPT ![current] = "completed"]
        BY <1>9, <2>2, <3>3 DEF Accept
      <4> QED BY <1>9, <1>0, <3>1, <3>2, <3>3, <4>1 DEF Accept
    <3>4. CASE pc' # "begin"
      BY <1>9, <1>0, <2>2, <3>1, <3>2, <3>4 DEF Accept
    <3> QED BY <3>3, <3>4
  <2> QED BY <2>1, <2>2
<1>10. CASE Assemble BY <1>10, <1>0 DEF Assemble
<1>11. CASE Claim BY <1>11, <1>0 DEF Claim
<1>12. CASE Close BY <1>12, <1>0 DEF Close
<1>13. CASE Validate BY <1>13, <1>0 DEF Validate
<1>14. CASE Finish BY <1>14, <1>0 DEF Finish
<1>15. CASE ReadBack BY <1>15, <1>0 DEF ReadBack
<1>16. CASE FailFinalization BY <1>16, <1>0 DEF FailFinalization
<1>17. CASE Return BY <1>17, <1>0 DEF Return
<1>18. CASE Interrupt BY <1>18, <1>0 DEF Interrupt
<1>19. CASE Propagate BY <1>19, <1>0 DEF Propagate
<1>20. CASE Meddle BY <1>20, <1>0 DEF Meddle
<1>21. CASE Crash BY <1>21, <1>0 DEF Crash
<1>22. CASE UNCHANGED vars BY <1>22, <1>0
<1> QED
  BY <1>1, <1>2, <1>3, <1>4, <1>5, <1>6, <1>7, <1>8, <1>9, <1>10, <1>11,
     <1>12, <1>13, <1>14, <1>15, <1>16, <1>17, <1>18, <1>19, <1>20, <1>21, <1>22
     DEF Next, Step

LEMMA CaptureStep ==
  ASSUME TypeOK, WorkIsOrdered, CaptureComesFirst, [Next]_vars
  PROVE  CaptureComesFirst'
<1> USE DEF WorkIsOrdered, CaptureComesFirst, VerdictsUseAdmittedBytes, Outside, Opening, Running, Gathering, InTry, Closing, Steps, vars, world, history, Write, Update, Refuse, Stop, End, Commit
<1>0. /\ current \in Nodes /\ states \in [Nodes -> NodeStates]
      /\ leaf \in [Nodes -> Outcomes \cup {"absent", "open"}] /\ NumNodes \in Nat
  BY ChainAssumption DEF TypeOK
<1>1. CASE Admit BY <1>1, <1>0 DEF Admit
<1>2. CASE Create BY <1>2, <1>0 DEF Create
<1>3. CASE Capture BY <1>3, <1>0 DEF Capture
<1>4. CASE Enter BY <1>4, <1>0 DEF Enter
<1>5. CASE Begin BY <1>5, <1>0 DEF Begin
<1>6. CASE Bind BY <1>6, <1>0 DEF Bind
<1>7. CASE StartLeaf
  <2>1. consumed \subseteq consumed' /\ UNCHANGED current BY <1>7 DEF StartLeaf
  <2>2. /\ runs' = runs \/ (runs' = runs \cup {current} /\ leaf'[current] = "HALTED" /\ pc' = "accept")
        /\ \A n \in Nodes : n # current => leaf'[n] = leaf[n]
        /\ pc' \in {"run", "accept", "close", "done"}
        /\ pc' = "accept" => current \in runs'
    BY <1>7, <1>0 DEF StartLeaf
  <2>3. pc' = "run" => \A p \in Producers(current) : Binds(p) /\ <<p, current>> \in consumed'
    BY <1>7 DEF StartLeaf
  <2>4. current \notin runs /\ runs \subseteq Nodes BY <1>7 DEF StartLeaf, TypeOK
  <2> QED BY <1>0, <2>1, <2>2, <2>3, <2>4
<1>8. CASE RunLeaf BY <1>8, <1>0 DEF RunLeaf
<1>9. CASE Accept BY <1>9, <1>0 DEF Accept
<1>10. CASE Assemble BY <1>10, <1>0 DEF Assemble
<1>11. CASE Claim BY <1>11, <1>0 DEF Claim
<1>12. CASE Close BY <1>12, <1>0 DEF Close
<1>13. CASE Validate BY <1>13, <1>0 DEF Validate
<1>14. CASE Finish BY <1>14, <1>0 DEF Finish
<1>15. CASE ReadBack BY <1>15, <1>0 DEF ReadBack
<1>16. CASE FailFinalization BY <1>16, <1>0 DEF FailFinalization
<1>17. CASE Return BY <1>17, <1>0 DEF Return
<1>18. CASE Interrupt BY <1>18, <1>0 DEF Interrupt
<1>19. CASE Propagate BY <1>19, <1>0 DEF Propagate
<1>20. CASE Meddle BY <1>20, <1>0 DEF Meddle
<1>21. CASE Crash BY <1>21, <1>0 DEF Crash
<1>22. CASE UNCHANGED vars BY <1>22, <1>0
<1> QED
  BY <1>1, <1>2, <1>3, <1>4, <1>5, <1>6, <1>7, <1>8, <1>9, <1>10, <1>11,
     <1>12, <1>13, <1>14, <1>15, <1>16, <1>17, <1>18, <1>19, <1>20, <1>21, <1>22
     DEF Next, Step

LEMMA EndStep ==
  ASSUME TypeOK, WorkIsOrdered, CaptureComesFirst, EndIsWhole, [Next]_vars
  PROVE  EndIsWhole'
<1> USE DEF WorkIsOrdered, CaptureComesFirst, EndIsWhole, Accepted, StoppedStates, StopOutcomes, Outside, Opening, Running, Gathering, InTry, Closing, Steps, vars, world, history, Write, Update, Refuse, Stop, End, Commit
<1>0. /\ current \in Nodes /\ states \in [Nodes -> NodeStates]
      /\ leaf \in [Nodes -> Outcomes \cup {"absent", "open"}] /\ NumNodes \in Nat
  BY ChainAssumption DEF TypeOK
<1>1. CASE Admit BY <1>1, <1>0 DEF Admit
<1>2. CASE Create BY <1>2, <1>0 DEF Create
<1>3. CASE Capture BY <1>3, <1>0 DEF Capture
<1>4. CASE Enter BY <1>4, <1>0 DEF Enter
<1>5. CASE Begin BY <1>5, <1>0 DEF Begin
<1>6. CASE Bind BY <1>6, <1>0 DEF Bind
<1>7. CASE StartLeaf BY <1>7, <1>0 DEF StartLeaf
<1>8. CASE RunLeaf BY <1>8, <1>0 DEF RunLeaf
<1>9. CASE Accept
  <2>1. ~complete /\ outcome # "COMPLETE" /\ UNCHANGED complete BY <1>9 DEF Accept
  <2>2. CASE Refuse(StopOutcomes)
    BY <1>9, <1>0, <2>1, <2>2, StopKinds DEF Accept
  <2>3. CASE ~Refuse(StopOutcomes)
    <3>1. Accepted(current)
      BY <1>9, <1>0, <2>3 DEF Accept, Admitted, Finalized, VerdictsUseAdmittedBytes
    <3>2. UNCHANGED <<leaf, runs, allowed, consumed>> BY <1>9 DEF Accept
    <3>3. \/ UNCHANGED outcome /\ pc' = "begin"
          \/ UNCHANGED outcome /\ pc' = "assemble" /\ current' = current /\ current = NumNodes
             /\ states' = [states EXCEPT ![current] = "completed"]
          \/ pc' \in {"close", "done"} /\ outcome' # "COMPLETE"
      BY <1>9, <2>3, StopKinds DEF Accept
    <3> QED BY <1>9, <1>0, <2>1, <3>1, <3>2, <3>3
  <2> QED BY <2>2, <2>3
<1>10. CASE Assemble BY <1>10, <1>0 DEF Assemble
<1>11. CASE Claim BY <1>11, <1>0 DEF Claim
<1>12. CASE Close BY <1>12, <1>0 DEF Close
<1>13. CASE Validate BY <1>13, <1>0 DEF Validate, ChainHolds
<1>14. CASE Finish BY <1>14, <1>0 DEF Finish
<1>15. CASE ReadBack BY <1>15, <1>0 DEF ReadBack
<1>16. CASE FailFinalization BY <1>16, <1>0 DEF FailFinalization
<1>17. CASE Return BY <1>17, <1>0 DEF Return
<1>18. CASE Interrupt BY <1>18, <1>0 DEF Interrupt
<1>19. CASE Propagate BY <1>19, <1>0 DEF Propagate
<1>20. CASE Meddle BY <1>20, <1>0 DEF Meddle
<1>21. CASE Crash BY <1>21, <1>0 DEF Crash
<1>22. CASE UNCHANGED vars BY <1>22, <1>0
<1> QED
  BY <1>1, <1>2, <1>3, <1>4, <1>5, <1>6, <1>7, <1>8, <1>9, <1>10, <1>11,
     <1>12, <1>13, <1>14, <1>15, <1>16, <1>17, <1>18, <1>19, <1>20, <1>21, <1>22
     DEF Next, Step

LEMMA ShownStep ==
  ASSUME TypeOK, WorkIsOrdered, EndIsWhole, ProgressIsOrdered, ShownIsWhole, [Next]_vars
  PROVE  ShownIsWhole'
<1> USE DEF EndIsWhole, ProgressIsOrdered, ShownIsWhole, Outside, Opening, Running, Gathering, InTry, Closing, Steps, vars, world, history, Write, Update, Refuse, Stop, End, Commit
<1>1. CASE Admit BY <1>1 DEF Admit
<1>2. CASE Create
  <2>1. ~data.complete /\ ~disk.complete BY <1>2 DEF Create
  <2>2. ~data'.complete /\ disk' \in {disk, data'} BY <1>2 DEF Create, NoRecord
  <2> QED BY <2>1, <2>2
<1>3. CASE Capture
  <2>1. ~data.complete /\ ~disk.complete BY <1>3 DEF Capture
  <2>2. ~data'.complete /\ ~disk'.complete BY <1>3, <2>1, LoopStep
  <2> QED BY <2>2
<1>4. CASE Enter
  <2>1. ~data.complete /\ ~disk.complete BY <1>4 DEF Enter
  <2>2. ~data'.complete /\ ~disk'.complete BY <1>4, <2>1, LoopStep
  <2> QED BY <2>2
<1>5. CASE Begin
  <2>1. ~data.complete /\ ~disk.complete BY <1>5 DEF Begin
  <2>2. ~data'.complete /\ ~disk'.complete BY <1>5, <2>1, LoopStep
  <2> QED BY <2>2
<1>6. CASE Bind
  <2>1. ~data.complete /\ ~disk.complete BY <1>6 DEF Bind
  <2>2. ~data'.complete /\ ~disk'.complete BY <1>6, <2>1, LoopStep
  <2> QED BY <2>2
<1>7. CASE StartLeaf
  <2>1. ~data.complete /\ ~disk.complete BY <1>7 DEF StartLeaf
  <2>2. ~data'.complete /\ ~disk'.complete BY <1>7, <2>1, LoopStep
  <2> QED BY <2>2
<1>8. CASE RunLeaf
  <2>1. ~data.complete /\ ~disk.complete BY <1>8 DEF RunLeaf
  <2>2. ~data'.complete /\ ~disk'.complete BY <1>8, <2>1, LoopStep
  <2> QED BY <2>2
<1>9. CASE Accept
  <2>1. ~data.complete /\ ~disk.complete BY <1>9 DEF Accept
  <2>2. ~data'.complete /\ ~disk'.complete BY <1>9, <2>1, LoopStep
  <2> QED BY <2>2
<1>10. CASE Assemble
  <2>1. ~data.complete /\ ~disk.complete BY <1>10 DEF Assemble
  <2>2. ~data'.complete /\ ~disk'.complete BY <1>10, <2>1, LoopStep
  <2> QED BY <2>2
<1>11. CASE Claim BY <1>11 DEF Claim
<1>12. CASE Close
  <2>1. ~data.complete /\ ~disk.complete BY <1>12 DEF Close
  <2>2. data' = data \/ data' = [data EXCEPT !.phase = "record", !.nodes = Shared] BY <1>12 DEF Close
  <2>3. data \in Records BY DEF TypeOK
  <2>4. ~data'.complete BY <2>1, <2>2, <2>3 DEF Records
  <2>5. disk' \in {disk, data'} BY RecordsStep
  <2> QED BY <2>1, <2>4, <2>5
<1>13. CASE Validate BY <1>13 DEF Validate
<1>14. CASE Finish
  <2>1. ~data.complete /\ ~disk.complete /\ UNCHANGED <<outcome, validated>> BY <1>14 DEF Finish
  <2>2. data' = [data EXCEPT !.phase = "finished", !.complete = complete, !.nodes = states]
        /\ disk' \in {disk, data'}
    BY <1>14 DEF Finish
  <2>3. data'.complete = complete /\ data'.nodes = states BY <2>2 DEF TypeOK, Records
  <2>4. complete => /\ outcome = "COMPLETE" /\ validated > 0
                    /\ \A n \in Nodes : states[n] = "completed"
    <3>1. \A n \in Nodes : n < NumNodes \/ n = NumNodes BY ChainAssumption DEF Nodes
    <3> QED BY <1>14, <3>1 DEF Finish, WorkIsOrdered
  <2>5. \A record \in {data', disk'} : record.complete => record = data' /\ complete
    BY <2>1, <2>2, <2>3
  <2>6. data'.complete => /\ outcome' = "COMPLETE" /\ validated' > 0
                          /\ \A n \in Nodes : data'.nodes[n] = "completed"
    BY <2>1, <2>3, <2>4
  <2> HIDE DEF ProgressIsOrdered, EndIsWhole
  <2> QED BY <2>5, <2>6
<1>15. CASE ReadBack BY <1>15 DEF ReadBack
<1>16. CASE FailFinalization
  <2>1. UNCHANGED <<outcome, validated>> /\ disk' \in {disk, data'} BY <1>16 DEF FailFinalization
  <2>2. ~data'.complete BY <1>16 DEF FailFinalization, TypeOK, Records
  <2> QED BY <2>1, <2>2
<1>17. CASE Return BY <1>17 DEF Return
<1>18. CASE Interrupt
  <2>1. ~data.complete /\ ~disk.complete BY <1>18 DEF Interrupt
  <2>2. ~data'.complete /\ ~disk'.complete BY <1>18, <2>1, LoopStep
  <2> QED BY <2>2
<1>19. CASE Propagate BY <1>19 DEF Propagate
<1>20. CASE Meddle BY <1>20 DEF Meddle
<1>21. CASE Crash BY <1>21 DEF Crash
<1>22. CASE UNCHANGED vars BY <1>22
<1> QED
  BY <1>1, <1>2, <1>3, <1>4, <1>5, <1>6, <1>7, <1>8, <1>9, <1>10, <1>11,
     <1>12, <1>13, <1>14, <1>15, <1>16, <1>17, <1>18, <1>19, <1>20, <1>21, <1>22
     DEF Next, Step

LEMMA ProgressStep ==
  ASSUME TypeOK, EndIsWhole, ProgressIsOrdered, [Next]_vars
  PROVE  ProgressIsOrdered'
<1> USE DEF EndIsWhole, ProgressIsOrdered, Records, TypeOK, Outside, Opening, Running, Gathering, InTry, Closing, Steps, vars, world, history, Write, Update, Refuse, Stop, End, Commit
<1>1. CASE Admit BY <1>1 DEF Admit
<1>2. CASE Create BY <1>2 DEF Create, NoRecord
<1>3. CASE Capture BY <1>3 DEF Capture
<1>4. CASE Enter BY <1>4 DEF Enter
<1>5. CASE Begin BY <1>5 DEF Begin
<1>6. CASE Bind BY <1>6 DEF Bind
<1>7. CASE StartLeaf BY <1>7 DEF StartLeaf
<1>8. CASE RunLeaf BY <1>8 DEF RunLeaf
<1>9. CASE Accept BY <1>9 DEF Accept
<1>10. CASE Assemble BY <1>10 DEF Assemble
<1>11. CASE Claim BY <1>11 DEF Claim
<1>12. CASE Close BY <1>12 DEF Close
<1>13. CASE Validate BY <1>13 DEF Validate
<1>14. CASE Finish BY <1>14 DEF Finish
<1>15. CASE ReadBack BY <1>15 DEF ReadBack
<1>16. CASE FailFinalization BY <1>16 DEF FailFinalization
<1>17. CASE Return BY <1>17 DEF Return
<1>18. CASE Interrupt BY <1>18 DEF Interrupt
<1>19. CASE Propagate BY <1>19 DEF Propagate
<1>20. CASE Meddle BY <1>20 DEF Meddle
<1>21. CASE Crash BY <1>21 DEF Crash
<1>22. CASE UNCHANGED vars BY <1>22
<1> QED
  BY <1>1, <1>2, <1>3, <1>4, <1>5, <1>6, <1>7, <1>8, <1>9, <1>10, <1>11,
     <1>12, <1>13, <1>14, <1>15, <1>16, <1>17, <1>18, <1>19, <1>20, <1>21, <1>22
     DEF Next, Step

-----------------------------------------------------------------------------
(* The theorems *)

\* A factory starts with nothing run, recorded or validated
LEMMA InitHolds == Init => IInv
<1> SUFFICES ASSUME Init PROVE IInv
  OBVIOUS
<1> USE DEF Init, Outside, Opening, Running, Gathering, InTry, Closing, Steps
<1>0. NumNodes \in Nat /\ NumNodes > 0 /\ 1 \in Nodes BY ChainAssumption DEF Nodes
<1>1. TypeOK
  <2>1. data \in Records /\ disk \in Records BY DEF NoRecord, Records, NodeStates
  <2>2. states \in [Nodes -> NodeStates] BY DEF NodeStates
  <2>3. leaf \in [Nodes -> Outcomes \cup {"absent", "open"}] OBVIOUS
  <2>4. outcome \in Outcomes /\ reply \in Replies BY DEF Outcomes, Replies
  <2>5. runs \subseteq Nodes /\ consumed \subseteq Edges /\ validated \in 0 .. 2 OBVIOUS
  <2>6. pc \in Steps /\ allowed \in BOOLEAN /\ complete \in BOOLEAN /\ current \in Nodes
        /\ inputs \in BOOLEAN /\ view \in BOOLEAN
    BY <1>0
  <2> QED BY <2>1, <2>2, <2>3, <2>4, <2>5, <2>6 DEF TypeOK
<1>2. WorkIsOrdered BY <1>0 DEF WorkIsOrdered, Nodes
<1>3. CaptureComesFirst BY DEF CaptureComesFirst, VerdictsUseAdmittedBytes
<1>4. EndIsWhole BY DEF EndIsWhole
<1>5. ShownIsWhole BY DEF ShownIsWhole, NoRecord
<1>6. ProgressIsOrdered BY DEF ProgressIsOrdered, NoRecord
<1> QED BY <1>1, <1>2, <1>3, <1>4, <1>5, <1>6 DEF IInv

\* The parts of the invariant hold together in every reachable state of a factory
THEOREM InvariantHolds == Spec => []IInv
<1>1. IInv /\ [Next]_vars => IInv'
  BY TypeStep, WorkStep, CaptureStep, EndStep, ShownStep, ProgressStep DEF IInv
<1> QED BY <1>1, InitHolds, PTL DEF Spec

\* What is accepted is accepted from the first contract to the last
LEMMA AllAccepted ==
  ASSUME TypeOK, WorkIsOrdered, EndIsWhole, complete
  PROVE  \A n \in Nodes : Accepted(n) /\ (outcome = "COMPLETE" => states[n] = "completed")
<1>1. \A n \in Nodes : n < current \/ n = current
  BY ChainAssumption DEF EndIsWhole, Nodes
<1> QED BY <1>1 DEF EndIsWhole, WorkIsOrdered

\* A factory record that shows complete is about every contract and every handoff.
THEOREM FactoryIsWhole == Spec => []CompleteIsWhole
<1>1. IInv => CompleteIsWhole
  <2> SUFFICES ASSUME IInv, disk.complete PROVE CompleteIsWhole
    BY DEF CompleteIsWhole
  <2>1. /\ outcome = "COMPLETE" /\ validated > 0 /\ complete
        /\ \A n \in Nodes : disk.nodes[n] = "completed"
    BY DEF IInv, ShownIsWhole, EndIsWhole
  <2>2. \A n \in Nodes : Accepted(n)
    BY <2>1, AllAccepted DEF IInv
  <2>3. runs = Nodes
    BY <2>2 DEF Accepted, IInv, TypeOK
  <2>4. \A e \in Edges : /\ e = <<e[1], e[2]>> /\ e[1] \in Nodes /\ e[2] \in Nodes
    BY ChainAssumption DEF Nodes
  <2>5. \A e \in Edges : e[1] \in Producers(e[2]) /\ Feeds(e[1])
    BY <2>4 DEF Producers, Feeds
  <2>6. Edges \subseteq consumed
    BY <2>2, <2>4, <2>5 DEF Accepted
  <2>7. Edges # {} => allowed
    BY <2>2, <2>4, <2>5 DEF Accepted
  <2>8. consumed = Edges
    BY <2>6 DEF IInv, TypeOK
  <2>9. \A n \in Nodes : leaf[n] = "COMPLETE" BY <2>2 DEF Accepted
  <2> QED BY <2>1, <2>3, <2>7, <2>8, <2>9 DEF CompleteIsWhole
<1> QED BY <1>1, InvariantHolds, PTL

\* A contract runs after all earlier ones were accepted, on the bytes its producers
\* handed on, and only with consent when it has producers.
THEOREM WorkIsAdmitted == Spec => []NodesRunOnAdmittedWork
<1>1. IInv => NodesRunOnAdmittedWork
  <2> SUFFICES ASSUME IInv PROVE NodesRunInOrder
    BY DEF NodesRunOnAdmittedWork, IInv, CaptureComesFirst
  <2> SUFFICES ASSUME NEW n \in Nodes, leaf[n] # "absent"
               PROVE  /\ states[n] \notin {"pending", "blocked"}
                      /\ \A m \in 1 .. n - 1 : states[m] = "completed" /\ leaf[m] = "COMPLETE"
                      /\ Producers(n) # {} => allowed
    BY DEF NodesRunInOrder
  <2>1. NumNodes \in Nat /\ n \in 1 .. NumNodes /\ current \in 1 .. NumNodes
    BY ChainAssumption DEF Nodes, IInv, TypeOK
  <2>2. n < current \/ n = current
    BY <2>1 DEF IInv, WorkIsOrdered
  <2>3. \A m \in 1 .. n - 1 : m \in Nodes /\ m < current
    BY <2>1, <2>2 DEF Nodes
  <2>4. states[n] \notin {"pending", "blocked"}
    BY <2>2 DEF IInv, WorkIsOrdered
  <2>5. \A m \in 1 .. n - 1 : states[m] = "completed" /\ Accepted(m)
    BY <2>3 DEF IInv, WorkIsOrdered
  <2>6. \A p \in Producers(n) : p \in 1 .. n - 1 /\ Feeds(p)
    <3> TAKE p \in Producers(n)
    <3>1. <<p, n>> \in Edges /\ p \in Nodes BY DEF Producers
    <3>2. p < n BY <3>1, ChainAssumption
    <3> QED BY <2>1, <3>1, <3>2 DEF Feeds, Nodes
  <2> QED BY <2>4, <2>5, <2>6 DEF Accepted
<1> QED BY <1>1, InvariantHolds, PTL

-----------------------------------------------------------------------------
(* The factory keeps the safety part of the record promise *)

\* A factory starts as the promise does
LEMMA PromisedInit == ASSUME Init PROVE Aggregate!PromiseInit
BY DEF Init, Aggregate!PromiseInit, Sight, CallerAnswer, NoRecord, StopOutcomes, Outcomes

\* Every step is one of the promise, or changes nothing of what it speaks of
LEMMA PromisedStep ==
  ASSUME IInv, IInv', [Next]_vars
  PROVE  [Aggregate!PromiseNext]_(Aggregate!promiseVars)
<1> USE DEF Aggregate!promiseVars, history, Outside, InTry, Closing, Opening, Running, Gathering
<1>1. CASE UNCHANGED <<disk, validated, reply>>
  BY <1>1 DEF Sight, CallerAnswer
<1> SUFFICES ASSUME Next, ~UNCHANGED <<disk, validated, reply>>
             PROVE  Aggregate!PromiseNext
  BY <1>1 DEF vars
<1>2. pc # "done"
  <2>1. \/ ~(\/ Admit \/ Create \/ Capture \/ Enter \/ Begin \/ Bind \/ StartLeaf \/ RunLeaf
             \/ Accept \/ Assemble \/ Claim)
        \/ pc # "done"
    BY DEF Admit, Create, Capture, Enter, Begin, Bind, StartLeaf, RunLeaf, Accept, Assemble, Claim
  <2>2. \/ ~(\/ Close \/ Validate \/ Finish \/ ReadBack \/ FailFinalization \/ Return
             \/ Interrupt \/ Propagate \/ Meddle \/ Crash)
        \/ pc # "done"
    BY DEF Close, Validate, Finish, ReadBack, FailFinalization, Return, Interrupt, Propagate,
       Meddle, Crash
  <2> QED BY <2>1, <2>2 DEF Next, Step
<1>3. reply = "none" /\ CallerAnswer = "none"
  BY <1>2 DEF IInv, ProgressIsOrdered, CallerAnswer, StopOutcomes, Outcomes
<1>4. ASSUME Aggregate!Observe \/ Aggregate!Settle \/ Aggregate!Validate \/ Aggregate!Succeed
             \/ Aggregate!Answer \/ Aggregate!Raise \/ Aggregate!Lose
      PROVE  Aggregate!PromiseNext
  BY <1>3, <1>4 DEF Aggregate!PromiseNext
\* what is seen of a record
<1>5. /\ disk.phase = "absent" => Sight = "absent"
      /\ disk.phase \notin {"absent", "finished"} /\ ~disk.complete => Sight = "open"
      /\ disk.phase = "finished" /\ ~disk.complete => Sight = "settled"
      /\ disk.phase # "absent" /\ disk.complete => Sight = "success"
  BY DEF Sight
<1>6. /\ disk'.phase = "absent" => Sight' = "absent"
      /\ disk'.phase \notin {"absent", "finished"} /\ ~disk'.complete => Sight' = "open"
      /\ disk'.phase = "finished" /\ ~disk'.complete => Sight' = "settled"
      /\ disk'.phase # "absent" /\ disk'.complete => Sight' = "success"
  BY DEF Sight
<1>7. disk' = disk => Sight' = Sight
  BY DEF Sight
<1>8. reply' = reply => CallerAnswer' = CallerAnswer
  BY DEF CallerAnswer
<1>9. disk \in Records /\ data \in Records BY DEF IInv, TypeOK
<1>10. CASE Admit
  <2>1. disk' = disk /\ validated' = validated /\ reply' = "refused" /\ disk.phase = "absent"
    BY <1>10 DEF Admit, End, world, IInv, ProgressIsOrdered
  <2>2. CallerAnswer' = "exception" BY <2>1 DEF CallerAnswer, StopOutcomes, Outcomes
  <2> QED BY <2>1, <2>2, <1>4, <1>5, <1>7 DEF Aggregate!Raise
<1>11. CASE Create
  <2>1. disk.phase = "absent" /\ validated' = validated
    BY <1>11 DEF Create, IInv, ProgressIsOrdered
  <2>2. disk' \in {disk, data'} /\ data'.phase = "admitted" /\ ~data'.complete
    BY <1>11 DEF Create, Write, NoRecord
  <2>3. \/ reply' = reply /\ disk' = data'
        \/ reply' = "raised"
    BY <1>11 DEF Create, Write, End
  <2>4. CASE reply' = reply /\ disk' = data'
    BY <2>1, <2>2, <2>4, <1>4, <1>6, <1>8 DEF Aggregate!Observe
  <2>5. CASE reply' = "raised"
    <3>1. CallerAnswer' = "exception" BY <2>5 DEF CallerAnswer, StopOutcomes, Outcomes
    <3> QED BY <2>1, <2>2, <3>1, <1>4, <1>5, <1>6, <1>7 DEF Aggregate!Raise
  <2> QED BY <2>3, <2>4, <2>5
\* the try block leaves an open record, whether it goes on, stops or raises
<1>12. CASE \/ Capture \/ Enter \/ Begin \/ Bind \/ StartLeaf \/ RunLeaf \/ Accept
            \/ Assemble \/ Interrupt
  <2>1. /\ pc \in InTry /\ validated' = validated /\ disk' \in {disk, data'}
        /\ data'.complete = data.complete
        /\ data' = data \/ data'.phase \in {"capture", "execution", "artifacts"}
        /\ reply' = reply \/ reply' = "raised"
    <3>1. pc \in InTry
      BY <1>12 DEF Capture, Enter, Begin, Bind, StartLeaf, RunLeaf, Accept, Assemble, Interrupt
    <3> QED BY <1>12, <3>1, LoopStep DEF IInv
  <2>2. /\ ~disk.complete /\ disk.phase \notin {"absent", "finished"}
        /\ ~data.complete /\ data.phase \notin {"absent", "finished"}
    BY <2>1 DEF IInv, ProgressIsOrdered
  <2>3. Sight' = "open" BY <2>1, <2>2, <1>6
  <2>4. CASE reply' = reply BY <2>1, <2>3, <2>4, <1>4, <1>8 DEF Aggregate!Observe
  <2>5. CASE reply' = "raised"
    <3>1. CallerAnswer' = "exception" BY <2>5 DEF CallerAnswer, StopOutcomes, Outcomes
    <3> QED BY <2>1, <2>3, <3>1, <1>4 DEF Aggregate!Raise
  <2> QED BY <2>1, <2>4, <2>5
<1>13. CASE Claim
  <2>1. /\ disk' = disk /\ validated' = validated /\ (reply' = reply \/ reply' = "raised")
        /\ disk.phase \notin {"absent", "finished"} /\ ~disk.complete
    BY <1>13 DEF Claim, Stop, End, IInv, ProgressIsOrdered
  <2>2. Sight' = "open" BY <2>1, <1>5, <1>7
  <2>3. CASE reply' = reply BY <2>1, <2>2, <2>3, <1>4, <1>8 DEF Aggregate!Observe
  <2>4. CASE reply' = "raised"
    <3>1. CallerAnswer' = "exception" BY <2>4 DEF CallerAnswer, StopOutcomes, Outcomes
    <3> QED BY <2>1, <2>2, <3>1, <1>4 DEF Aggregate!Raise
  <2> QED BY <2>1, <2>3, <2>4
<1>14. CASE Close
  <2>1. /\ validated' = validated /\ reply' = reply /\ ~disk.complete /\ ~data.complete
        /\ disk.phase \notin {"absent", "finished"}
    BY <1>14 DEF Close, IInv, ProgressIsOrdered
  <2>2. disk' = disk \/ (disk' = data' /\ data' = [data EXCEPT !.phase = "record", !.nodes = Shared])
    BY <1>14, CommitDoes DEF Close
  <2>3. disk'.phase \notin {"absent", "finished"} /\ ~disk'.complete
    BY <2>1, <2>2, <1>9 DEF Records
  <2> QED BY <2>1, <2>3, <1>4, <1>6, <1>8 DEF Aggregate!Observe
<1>15. CASE Validate
  <2>1. /\ complete /\ validated = 0 /\ validated' = 1 /\ reply' = reply /\ disk' = disk
        /\ disk.phase \notin {"absent", "finished"} /\ ~disk.complete
    BY <1>15 DEF Validate, IInv, ProgressIsOrdered
  <2>2. Sight = "open" BY <2>1, <1>5
  <2> QED BY <2>1, <2>2, <1>4, <1>7, <1>8 DEF Aggregate!Validate
\* the finished record is a success exactly when the factory was validated
<1>16. CASE Finish
  <2>1. /\ validated = (IF complete THEN 1 ELSE 0) /\ validated' = validated /\ reply' = reply
        /\ disk.phase \notin {"absent", "finished"} /\ ~disk.complete
    BY <1>16 DEF Finish, IInv, ProgressIsOrdered
  <2>2. /\ disk' \in {disk, data'}
        /\ data' = [data EXCEPT !.phase = "finished", !.complete = complete, !.nodes = states]
    BY <1>16, CommitDoes DEF Finish
  <2>3. disk' = data' BY <1>7, <1>8, <2>1, <2>2
  <2>4. disk'.phase = "finished" /\ disk'.complete = complete
    BY <2>2, <2>3, <1>9 DEF Records
  <2>5. Sight = "open" BY <2>1, <1>5
  <2>6. CASE complete
    <3>1. Sight' = "success" BY <2>4, <2>6, <1>6
    <3> QED BY <2>1, <2>5, <2>6, <3>1, <1>4, <1>8 DEF Aggregate!Succeed
  <2>7. CASE ~complete
    <3>1. Sight' = "settled" BY <2>4, <2>7, <1>6
    <3> QED BY <2>1, <2>5, <2>7, <3>1, <1>4, <1>8 DEF Aggregate!Settle
  <2> QED BY <2>6, <2>7
<1>17. CASE ReadBack
  <2>1. /\ complete /\ validated = 1 /\ validated' = 2 /\ reply' = reply /\ disk' = disk
        /\ disk.phase = "finished" /\ disk.complete
    BY <1>17 DEF ReadBack, IInv, ProgressIsOrdered
  <2>2. Sight = "success" BY <2>1, <1>5
  <2> QED BY <2>1, <2>2, <1>4, <1>7, <1>8 DEF Aggregate!Validate
\* a failed finalization withdraws the success, or says that it could not
<1>18. CASE FailFinalization
  <2>1. validated' = validated BY <1>18 DEF FailFinalization
  <2>2. data' = [data EXCEPT !.phase = "finalization_failed", !.complete = FALSE, !.nodes = Shared]
    BY <1>18 DEF FailFinalization, Write
  <2>3. data'.phase = "finalization_failed" /\ ~data'.complete BY <2>2, <1>9 DEF Records
  <2>4. \/ reply' = "unfinalized" /\ disk' = data'
        \/ reply' \in {"unpersisted", "interrupted"} /\ disk' \in {disk, data'}
    BY <1>18 DEF FailFinalization, Write, End
  <2>5. disk' = data' => Sight' = "open" BY <2>3, <1>6
  <2>6. CASE reply' = "unfinalized" /\ disk' = data'
    <3>1. CallerAnswer' = "exception" BY <2>6 DEF CallerAnswer, StopOutcomes, Outcomes
    <3> QED BY <2>1, <2>5, <2>6, <3>1, <1>4 DEF Aggregate!Raise
  <2>7. CASE reply' \in {"unpersisted", "interrupted"} /\ disk' \in {disk, data'}
    <3>1. CallerAnswer' = "lost" BY <2>7 DEF CallerAnswer, StopOutcomes, Outcomes
    <3> QED BY <2>1, <2>5, <2>7, <3>1, <1>4, <1>7 DEF Aggregate!Lose
  <2> QED BY <2>4, <2>6, <2>7
<1>19. CASE Return
  <2>1. /\ validated' = validated /\ disk' = disk /\ reply' = outcome /\ outcome \in Outcomes
        /\ (complete <=> outcome = "COMPLETE")
        /\ validated = (IF complete THEN 2 ELSE 0)
        /\ disk.phase = "finished" /\ disk.complete = complete
    BY <1>19 DEF Return, End, world, IInv, TypeOK, ProgressIsOrdered, EndIsWhole
  <2>2. CASE complete
    <3>1. Sight = "success" BY <2>1, <2>2, <1>5
    <3>2. reply' = "COMPLETE" BY <2>1, <2>2
    <3>3. CallerAnswer' = "success" BY <3>2 DEF CallerAnswer, StopOutcomes
    <3> QED BY <2>1, <2>2, <3>1, <3>3, <1>4, <1>7 DEF Aggregate!Answer
  <2>3. CASE ~complete
    <3>1. Sight = "settled" BY <2>1, <2>3, <1>5
    <3>2. reply' # "COMPLETE" /\ reply' \in StopOutcomes BY <2>1, <2>3 DEF StopOutcomes
    <3>3. CallerAnswer' = "settled" BY <3>2 DEF CallerAnswer, StopOutcomes, Outcomes
    <3> QED BY <2>1, <2>3, <3>1, <3>3, <1>4, <1>7 DEF Aggregate!Answer
  <2> QED BY <2>2, <2>3
<1>20. CASE Propagate \/ Crash
  <2>1. validated' = validated /\ disk' = disk /\ reply' \in {"interrupted", "crashed"}
    BY <1>20 DEF Propagate, Crash, End
  <2>2. CallerAnswer' = "lost" BY <2>1 DEF CallerAnswer, StopOutcomes, Outcomes
  <2> QED BY <2>1, <2>2, <1>4, <1>7 DEF Aggregate!Lose
<1>21. CASE Meddle
  BY <1>21 DEF Meddle
<1> QED
  BY <1>10, <1>11, <1>12, <1>13, <1>14, <1>15, <1>16, <1>17, <1>18, <1>19, <1>20, <1>21
     DEF Next, Step

\* Whatever fails around it, a factory shows success only after it validated its
\* contracts, answers COMPLETE only after it read its record back, raises only after
\* it withdrew what it showed, and changes nothing after its answer.
THEOREM FactoryKeepsItsRecordPromise ==
  Spec => Aggregate!PromiseInit /\ [][Aggregate!PromiseNext]_(Aggregate!promiseVars)
<1>1. Init => Aggregate!PromiseInit BY PromisedInit
<1>2. IInv /\ IInv' /\ [Next]_vars => [Aggregate!PromiseNext]_(Aggregate!promiseVars)
  BY PromisedStep
<1> QED BY <1>1, <1>2, InvariantHolds, PTL DEF Spec
=============================================================================
