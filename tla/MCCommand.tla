------------------------------- MODULE MCCommand -------------------------------
(***************************************************************************)
(* The command over families of worlds.  Each family varies what one part  *)
(* of the preparation depends on: the caller's manifest and lock, the pins *)
(* while others write, a local package, consent, a factory, the caller's   *)
(* imports, catalogs; and some worlds go through the run to the exit code. *)
(***************************************************************************)
EXTENDS Command

a == <<"a">>
capital == <<"A">>
ax == <<"a", "x">>
b == <<"b">>

MCLower == ("a" :> "a") @@ ("A" :> "a") @@ ("x" :> "x") @@ ("b" :> "b") @@ ("one" :> "one")
           @@ ("two" :> "two") @@ ("three" :> "three")
MCSorting == <<capital, a, ax, b, <<"one">>, <<"x">>>>
MCContents == {"c1", "c2"}

Contract(path, needs, outputs) == [path |-> <<path>>, needs |-> needs, outputs |-> outputs]

\* The second content has a contract more
Small == <<Contract("one", {b}, {a})>>
Catalogs == ("c1" :> Small) @@ ("c2" :> Append(Small, Contract("two", {b}, {ax})))

Entry(ref, hash) == [ref |-> ref, hash |-> hash]
Lock(p, q) == [p |-> p, q |-> q]

Good == Lock(Entry("asked", "c1"), None)
Shared == Lock(Entry("asked", "c1"), "v1")
Drifted == Lock(Entry("asked", "c1"), "v2")
Foreign == Lock(Entry("other", "c1"), "v1")
Unhashed == Lock(Entry("asked", None), None)
Lacking == Lock(None, "v1")

Answer(lock, tree) == [lock |-> lock, tree |-> tree]
Answers == {Answer(Good, "c1"), Answer(Shared, "c1"), Answer(Drifted, "c1"),
            Answer(Shared, "c2"), Answer(Unhashed, "c1"), Answer(None, None)}

Disk(manifest, lock, original, installed) ==
  [manifest |-> manifest, lock |-> lock, original |-> original, installed |-> installed,
   backend |-> "bundled"]

Base ==
  [packaged |-> TRUE, local |-> FALSE, factory |-> FALSE, planning |-> FALSE, flag |-> TRUE,
   inputs |-> TRUE, interactive |-> FALSE, imports |-> FALSE, governed |-> FALSE,
   files |-> {b}, catalogs |-> Catalogs, disk |-> Disk("asks", Shared, None, None),
   edits |-> 0, changes |-> <<>>, answers |-> Answers, meddling |-> FALSE, through |-> FALSE]

\* Every manifest and lock, for a run and for a preview
Declaring ==
  {[Base EXCEPT !.planning = p, !.governed = g, !.disk = Disk(m, l, None, i)] :
     p \in BOOLEAN, g \in BOOLEAN, m \in Manifests,
     l \in {None, Shared, Foreign, Unhashed, Lacking}, i \in {None, "c1", "c2"}}

\* Others write the caller's files, the program and the private root
Backends == "backend" :> {"bundled", "rebuilt", "foreign"}

Pinning ==
  {[Base EXCEPT !.edits = 2, !.planning = p, !.disk = Disk(m, Shared, None, None),
                !.changes = Backends @@ ("lock" :> {Shared, Drifted}) @@ ("manifest" :> {m, "twice"}),
                !.answers = {Answer(Shared, "c1"), Answer(Drifted, "c1")}] :
     p \in BOOLEAN, m \in {"asks", "plain"}}
  \cup {[Base EXCEPT !.edits = 2, !.meddling = TRUE, !.changes = "lock" :> {Shared, None},
                     !.answers = {Answer(Shared, "c1")}]}

\* A local package: its directory changes
Local ==
  {[Base EXCEPT !.local = TRUE, !.edits = 2, !.planning = p, !.imports = i,
                !.factory = f, !.disk = Disk(m, None, "c1", None),
                !.changes = "original" :> MCContents,
                !.answers = {Answer(Unhashed, "c1"), Answer(Good, "c1")}] :
     p \in BOOLEAN, i \in BOOLEAN, f \in BOOLEAN, m \in {None, "asks"}}

\* Flags and answers
Consents ==
  {[Base EXCEPT !.flag = FALSE, !.inputs = n, !.interactive = i, !.factory = f, !.planning = p,
                !.packaged = k, !.disk = Disk("asks", Shared, "c1", None),
                !.answers = {Answer(Shared, "c1")}] :
     n \in BOOLEAN, i \in BOOLEAN, f \in BOOLEAN, p \in BOOLEAN, k \in BOOLEAN}

\* A local factory that changes while the user reads it
Changing ==
  {[Base EXCEPT !.packaged = FALSE, !.factory = TRUE, !.flag = FALSE, !.inputs = FALSE,
                !.interactive = TRUE, !.edits = 3, !.disk = Disk("plain", None, "c1", None),
                !.catalogs = ("c1" :> Small) @@ ("c2" :> <<Contract("one", {b}, {ax})>>),
                !.changes = "original" :> MCContents]}

\* Imports of a contract of the caller
Importing ==
  {[Base EXCEPT !.packaged = FALSE, !.imports = TRUE, !.edits = 2,
                !.disk = Disk(m, l, "c1", None),
                !.changes = Backends @@ ("lock" :> {Good, Shared, None}) @@ ("manifest" :> {"asks", None}),
                !.answers = {Answer(Good, "c1")}] :
     m \in {None, "asks", "plain"}, l \in {None, Good}}

\* Factories: two contracts over all names, three in any connection
Graph(catalog, files) ==
  [Base EXCEPT !.packaged = FALSE, !.factory = TRUE, !.planning = TRUE, !.files = files,
               !.disk = Disk("plain", None, "c1", None),
               !.catalogs = [content \in MCContents |-> catalog]]

Names == {capital, a, ax, b}

Graphs ==
  {Graph(<<Contract("one", m, {o}), Contract("two", n, p)>>, {b}) :
     m \in SUBSET Names, n \in SUBSET Names, o \in Names, p \in SUBSET {capital, a, ax}}
  \cup {Graph(<<Contract("one", m, {a}), Contract("two", n, {b}),
                Contract("three", o, {<<"x">>})>>, {}) :
          m \in SUBSET {b, <<"x">>}, n \in SUBSET {a, <<"x">>}, o \in SUBSET {a, b}}
  \cup {Graph(<<>>, {}), Graph(<<Contract("one", {b}, {<<"one">>})>>, {b}),
         Graph(<<Contract("one", {a}, {b}), Contract("two", {}, {capital})>>, {a})}

\* To the exit code
Through ==
  {[Base EXCEPT !.through = TRUE, !.disk = Disk("asks", Shared, "c1", "c1"),
                !.factory = f, !.packaged = k, !.imports = i, !.planning = p,
                !.answers = {Answer(Shared, "c1")}] :
     f \in BOOLEAN, k \in BOOLEAN, i \in BOOLEAN, p \in BOOLEAN}

MCWorlds ==
  Declaring \cup Pinning \cup Local \cup Consents \cup Changing \cup Importing \cup Graphs
  \cup Through
=============================================================================
