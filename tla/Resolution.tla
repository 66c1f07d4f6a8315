------------------------------ MODULE Resolution ------------------------------
(***************************************************************************)
(* The graph of a factory: resolve_factory and _resolve_catalog of         *)
(* contracts/resolution.py as operators on a catalog.                      *)
(*                                                                         *)
(* A catalog is the sequence of the discovered contracts, by path; each    *)
(* has a path, the files it needs and the files it outputs.  Who produces  *)
(* what is inferred from the declared names alone.  A path is a sequence   *)
(* of parts.                                                               *)
(***************************************************************************)
EXTENDS Naturals, Sequences, FiniteSets, SequencesExt

CONSTANTS
  Lower,    \* part of a path -> the part without case
  Sorting   \* the paths in the order in which sorted() has them

ASSUME SortingAssumption == Sorting \in Seq(Range(Sorting))

\* A catalog as it is discovered, all the names in it known
IsCatalog(catalog) ==
  /\ catalog \in Seq(Range(catalog))
  /\ \A c \in Range(catalog) : c.needs \cup c.outputs \subseteq Range(Sorting)

Folded(path) == [i \in DOMAIN path |-> Lower[path[i]]]

Overlap(p, q) == IsPrefix(Folded(p), Folded(q)) \/ IsPrefix(Folded(q), Folded(p))

\* The positions of the contracts that output this name, in any case
Makers(catalog, name) ==
  {i \in DOMAIN catalog : \E o \in catalog[i].outputs : Folded(o) = Folded(name)}

\* Every output of every contract
Outputs(catalog) ==
  {made \in (DOMAIN catalog) \X Range(Sorting) : made[2] \in catalog[made[1]].outputs}

AmbiguousOutputs(catalog) ==
  \E x, y \in Outputs(catalog) : x # y /\ Folded(x[2]) = Folded(y[2])

Consumed(catalog) ==
  UNION {Makers(catalog, n) : n \in UNION {c.needs : c \in Range(catalog)}}

\* What the depth-first search has found
Unvisited == [error |-> "none", order |-> <<>>, edges |-> {}]

Stop(walk, code) == [walk EXCEPT !.error = code]

\* The calls of visit that have not returned, the innermost last, each with the
\* needs its loop has not done; and the contracts that are still to be visited,
\* first the targets, then all of them
Searching(targets, rest) ==
  [walk |-> Unvisited, calls |-> <<>>, targets |-> targets, rest |-> rest]

Active(s) == {s.calls[i].contract : i \in DOMAIN s.calls}

First(contracts) == CHOOSE c \in contracts : \A d \in contracts : c <= d

\* The next name of a loop over sorted(needs)
NextNeed(needs) ==
  LET places == {i \in DOMAIN Sorting : Sorting[i] \in needs} IN Sorting[First(places)]

\* The loop of the innermost call goes on, with what it did in this round
Advanced(s, edges) ==
  LET call == Last(s.calls)
  IN  [s EXCEPT !.walk.edges = @ \cup edges,
                !.calls = Append(Front(@), [call EXCEPT !.needs = @ \ {NextNeed(@)}])]

\* visit(c) has returned, to the loop that called it, if there is one
Return(s, c) ==
  IF s.calls = <<>> THEN s
  ELSE LET call == Last(s.calls) IN Advanced(s, {<<call.contract, NextNeed(call.needs), c>>})

Call(catalog, s, c) ==
  [s EXCEPT !.calls = Append(@, [contract |-> c, needs |-> catalog[c].needs])]

\* The search ends with an error
Halted(s, code) == [s EXCEPT !.walk = Stop(@, code)]

Enter(catalog, s, c) ==
  CASE c \in Active(s)                                 -> Halted(s, "contract_cycle")
    [] c \notin Active(s) /\ c \in Range(s.walk.order) -> Return(s, c)
    [] OTHER                                           -> Call(catalog, s, c)

\* One need of the innermost call: its producer is visited first; without a producer
\* it must be a file of the caller
Follow(catalog, files, s) ==
  LET n      == NextNeed(Last(s.calls).needs)
      makers == Makers(catalog, n)
      p      == CHOOSE i \in makers : TRUE
  IN  CASE makers = {} ->
             IF n \in files THEN Advanced(s, {}) ELSE Halted(s, "missing_input")
        [] OTHER ->
             IF n \notin catalog[p].outputs THEN Halted(s, "source_collision")
             ELSE Enter(catalog, s, p)

\* The end of visit
Visited(s) ==
  [s EXCEPT !.calls = Front(@), !.walk.order = Append(@, Last(s.calls).contract)]

EndVisit(s) == Return(Visited(s), Last(s.calls).contract)

Searched(s) == s.walk.error # "none" \/ (s.calls = <<>> /\ s.targets = {} /\ s.rest = {})

\* The two loops around the calls of visit
TakeTarget(s) == [s EXCEPT !.targets = @ \ {First(@)}]

TakeAny(s) == [s EXCEPT !.rest = @ \ {First(@)}]

Visit(catalog, files, s) ==
  CASE Searched(s) -> s
    [] ~Searched(s) /\ s.calls # <<>> ->
         IF Last(s.calls).needs = {} THEN EndVisit(s) ELSE Follow(catalog, files, s)
    [] OTHER ->
         IF s.targets # {} THEN Enter(catalog, TakeTarget(s), First(s.targets))
         ELSE Enter(catalog, TakeAny(s), First(s.rest))

\* The search after so many steps
Search(catalog, files, start) ==
  LET after[k \in Nat] == IF k = 0 THEN start ELSE Visit(catalog, files, after[k - 1]) IN after

\* Enough steps: two calls for each contract, one return and a round for every name
Steps(catalog) == Len(catalog) * (Len(Sorting) + 4)

\* Mutated: only what leads to a target is visited, a ring of contracts disappears
WalkOfTargets(catalog, files) ==
  Search(catalog, files, Searching(DOMAIN catalog \ Consumed(catalog), {}))[Steps(catalog)].walk

\* First the contracts nobody consumes, then all: a ring has no such contract
Walk(catalog, files) ==
  Search(catalog, files, Searching(DOMAIN catalog \ Consumed(catalog), DOMAIN catalog))
    [Steps(catalog)].walk

\* The inputs the caller has to have
Roots(catalog) ==
  {n \in UNION {c.needs : c \in Range(catalog)} : Makers(catalog, n) = {}}

Collides(catalog) ==
  \/ \E m, n \in Roots(catalog) : m # n /\ Folded(m) = Folded(n)
  \/ \E x, y \in Outputs(catalog) : x # y /\ Overlap(x[2], y[2])
  \/ \E x \in Outputs(catalog), n \in Roots(catalog) \cup {c.path : c \in Range(catalog)} :
       Overlap(x[2], n)

Resolve(catalog, files) ==
  LET walk == Walk(catalog, files)
  IN  CASE catalog = <<>>            -> Stop(Unvisited, "empty_factory")
        [] AmbiguousOutputs(catalog) -> Stop(Unvisited, "ambiguous_producer")
        [] OTHER -> IF walk.error = "none" /\ Collides(catalog)
                    THEN Stop(walk, "source_collision") ELSE walk

-----------------------------------------------------------------------------
(* What a resolved graph has to be, said without a search *)

\* Some contracts each need what another of them makes
Ring(catalog) ==
  \E some \in (SUBSET DOMAIN catalog) \ {{}} :
     \A c \in some : \E p \in some, n \in catalog[c].needs : p \in Makers(catalog, n)

Position(graph, c) == CHOOSE i \in DOMAIN graph.order : graph.order[i] = c

\* Every contract once, its producers before it, and a source for every need
Runnable(graph, catalog, files) ==
  /\ Len(graph.order) = Len(catalog) /\ Range(graph.order) = DOMAIN catalog
  /\ \A c \in DOMAIN catalog, n \in Range(Sorting) : n \in catalog[c].needs =>
       \/ n \in files /\ ~\E e \in graph.edges : e[1] = c /\ e[2] = n
       \/ \E p \in DOMAIN catalog :
            /\ <<c, n, p>> \in graph.edges /\ n \in catalog[p].outputs
            /\ \A q \in DOMAIN catalog : <<c, n, q>> \in graph.edges => q = p
            /\ Position(graph, p) < Position(graph, c)

\* Nothing in the catalog speaks against running it
Sound(catalog, files) ==
  /\ catalog # <<>> /\ ~AmbiguousOutputs(catalog) /\ ~Ring(catalog) /\ ~Collides(catalog)
  /\ \A c \in Range(catalog), n \in Range(Sorting) : n \in c.needs =>
       IF Makers(catalog, n) = {} THEN n \in files
       ELSE n \in UNION {d.outputs : d \in Range(catalog)}
=============================================================================
