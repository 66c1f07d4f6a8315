------------------------------- MODULE MCKeeping -------------------------------
(***************************************************************************)
(* A plain, quiet screen beside a verbose or an animated one, with every   *)
(* combination of the options before a run, and one contract, one under a  *)
(* budget and a factory of two with a handoff in the run; a contract of    *)
(* two outputs, one in a frozen project, one of a package, and one of a    *)
(* package with an import, an admitted input and rejected references; and  *)
(* every form of a finalized invocation.                                   *)
(***************************************************************************)
EXTENDS Keeping

\* Screens
Look(v, a) == [verbose |-> v, animated |-> a]
MCLooks == {[s \in Screens |-> IF s = 1 THEN Look(FALSE, FALSE) ELSE other] :
              other \in {Look(TRUE, FALSE), Look(FALSE, TRUE)}}

Ask(package, factory, planning, allowed, interactive, repaired, pairs) ==
  [package |-> package, factory |-> factory, planning |-> planning, allowed |-> allowed,
   interactive |-> interactive, repaired |-> repaired, edges |-> pairs, imports |-> TRUE]
Pairs(factory) == IF factory THEN {<<1, 2>>} ELSE {}
MCRequests ==
  {Ask(p, f, pl, al, i, FALSE, Pairs(f)) : p, f, pl, al, i \in BOOLEAN}
  \cup {Ask(FALSE, f, FALSE, TRUE, FALSE, TRUE, Pairs(f)) : f \in BOOLEAN}

\* Trees
MCKind == [n \in FileNames |->
  CASE n = "a.contract" -> "source" [] n = "lock" -> "lock" [] n = "checks/run" -> "check"
    [] n = "skill" -> "skill" [] n = "module" -> "nested" [] OTHER -> "input"]
MCFolded == [n \in FileNames |-> n]
Same(names) == [n \in names |-> "x"]
Run(frozen, packaged, needs, outputs, imports, upstream, rejected) ==
  [frozen |-> frozen, packaged |-> packaged, needs |-> needs, outputs |-> outputs,
   listed |-> {"data", "out", "given", "module", "a.contract", "checks/run"},
   package |-> Same(IF packaged THEN {"a.contract", "checks/run"} ELSE {}),
   imports |-> Same(imports), upstream |-> Same(upstream), rejected |-> Same(rejected)]
MCTasks == {
  Run(FALSE, FALSE, {"data"}, {"out", "two"}, {}, {}, {}),
  Run(TRUE, FALSE, {"data"}, {"out"}, {}, {}, {}),
  Run(FALSE, TRUE, {"data"}, {"out"}, {}, {}, {}),
  Run(TRUE, TRUE, {"given"}, {"out"}, {"skill"}, {"given"}, {"out"})}
MCCallers == {Same({"a.contract", "data", "checks/run"}), Same({"data", "out", "lock"}),
              Same({"a.contract", "data", "module"})}

\* Finalized invocations
Finalized(form, selected, budgeted, complete) ==
  [form |-> form, selected |-> selected, budgeted |-> budgeted, complete |-> complete,
   tried |-> [r \in budgeted |-> {"q"}]]
MCInvocations ==
  {Finalized("run", {"r"}, {}, c) : c \in BOOLEAN}
  \cup {Finalized(f, {"r"}, {"r"}, TRUE) : f \in {"run", "controller"}}
  \cup {Finalized("chain", {"r", "s"}, {"r"}, TRUE)}
=============================================================================
