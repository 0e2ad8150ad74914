---------------------------- MODULE SchemeDrafts ----------------------------
(* The drafts of assessment schemes, their history and their publication:      *)
(* schemes/service.py over persistence/draft_repository.py and the library of  *)
(* immutable versions. A request is served in one transaction, and requests    *)
(* are served one after the other, so a request is one action.                 *)
(*                                                                             *)
(* A draft is stored with the contents it shows and with one snapshot per      *)
(* place of its history. A transition between two snapshots says whether it    *)
(* changed the graph or the layout. Publication turns the candidates into      *)
(* versions under new identifiers and rebases the draft on them.               *)
EXTENDS SchemeGraph

CONSTANTS
  Draft,
  Library,          \* the versions of the starter: a function from keys to bodies
  Schemes,          \* its schemes: a function from names to pins and outputs
  Requests(_, _),   \* operation lists a client may send for a graph over a library
  Observations(_),  \* what may be observed in a network
  MaxVersion,       \* bound on the versions of a draft
  MaxSchemes        \* bound on the schemes there may be

\* The installed library holds schemes that can be executed (test_hover_starter_package.py:82).
ASSUME StarterAssumption == \A name \in DOMAIN Schemes : Compiles(Library, Schemes[name])

VARIABLES
  library,
  schemes,
  catalog,   \* the sources known when the application was composed
  drafts     \* those that are stored
vars == <<library, schemes, catalog, drafts>>

Keys(kind) == OfKind(DOMAIN library, kind)

Stored == DOMAIN drafts

Content(lib, g) == [graph |-> g, executable |-> Annotated(lib, g)]

-----------------------------------------------------------------------------
Init ==
  /\ library = Library /\ schemes = Schemes
  /\ catalog = OfKind(DOMAIN Library, "source")
  /\ drafts = [d \in {} |-> {}]

\* The application is closed and composed again.
Reopen ==
  /\ catalog' = Keys("source")
  /\ UNCHANGED <<library, schemes, drafts>>

GraphOf(lib, s) == Graph(s.pins, <<>>, Projected(lib, s.pins), s.outputs)

CreateDraft(d, name) ==
  /\ d \notin Stored
  /\ LET c == Content(library, GraphOf(library, schemes[name]))
         r == [base |-> name, content |-> c, graphVersion |-> 0, layoutVersion |-> 0,
               cursor |-> 0, snapshots |-> <<c>>, transitions |-> <<>>]
     IN  drafts' = Extended(drafts, [e \in {d} |-> r])
  /\ UNCHANGED <<library, schemes, catalog>>

\* Snapshots and transitions go with the draft.
DiscardDraft(d) ==
  /\ d \in Stored
  /\ drafts' = [e \in Stored \ {d} |-> drafts[e]]
  /\ UNCHANGED <<library, schemes, catalog>>

Bump(r, change) ==
  [r EXCEPT !.graphVersion = IF change.graph THEN @ + 1 ELSE @,
            !.layoutVersion = IF change.layout THEN @ + 1 ELSE @]

\* A bug to detect: only the next snapshot makes room for the new one.
SavedOverNext(r, c, change) ==
  [Bump(r, change) EXCEPT
     !.content = c,
     !.cursor = r.cursor + 1,
     !.snapshots = SubSeq(@, 1, r.cursor + 1) \o <<c>> \o SubSeq(@, r.cursor + 3, Len(@)),
     !.transitions = SubSeq(@, 1, r.cursor) \o <<change>> \o SubSeq(@, r.cursor + 2, Len(@))]

\* save(): what could be redone is removed.
Saved(r, c, change) ==
  [Bump(r, change) EXCEPT
     !.content = c,
     !.cursor = r.cursor + 1,
     !.snapshots = Append(SubSeq(@, 1, r.cursor + 1), c),
     !.transitions = Append(SubSeq(@, 1, r.cursor), change)]

Changes(operations) ==
  [graph  |-> \E i \in 1..Len(operations) : operations[i].op # "move",
   layout |-> \E i \in 1..Len(operations) : operations[i].op = "move"]

\* A list of operations is applied as a whole. It names the version of what it changes.
ApplyOperations(d, operations, expectedGraph, expectedLayout) ==
  LET r == drafts[d]
      change == Changes(operations)
  IN  /\ d \in Stored /\ Len(operations) \in Nat \ {0}
      /\ change.graph => expectedGraph = r.graphVersion
      /\ change.layout => expectedLayout = r.layoutVersion
      /\ \E g \in AppliedAll(library, r.content.graph, operations) :
           drafts' = [drafts EXCEPT ![d] = Saved(r, Content(library, g), change)]
      /\ UNCHANGED <<library, schemes, catalog>>

Expected(d, expectedGraph, expectedLayout) ==
  /\ d \in Stored
  /\ drafts[d].graphVersion = expectedGraph
  /\ drafts[d].layoutVersion = expectedLayout

\* A bug to detect: undo and redo bring the old versions back with the old contents.
TravelledBack(r, cursor, change) ==
  [r EXCEPT !.content = r.snapshots[cursor + 1], !.cursor = cursor,
            !.graphVersion = IF change.graph THEN IF cursor < r.cursor THEN @ - 1 ELSE @ + 1 ELSE @]

\* _travel(): what is shown is the old snapshot, under versions that go on.
Travelled(r, cursor, change) ==
  [Bump(r, change) EXCEPT !.content = r.snapshots[cursor + 1], !.cursor = cursor]

Undo(d, expectedGraph, expectedLayout) ==
  LET r == drafts[d]
  IN  /\ Expected(d, expectedGraph, expectedLayout)
      /\ r.cursor > 0
      /\ drafts' = [drafts EXCEPT ![d] = Travelled(r, r.cursor - 1, r.transitions[r.cursor])]
      /\ UNCHANGED <<library, schemes, catalog>>

Redo(d, expectedGraph, expectedLayout) ==
  LET r == drafts[d]
  IN  /\ Expected(d, expectedGraph, expectedLayout)
      /\ r.cursor + 1 < Len(r.snapshots)
      /\ drafts' = [drafts EXCEPT ![d] = Travelled(r, r.cursor + 1, r.transitions[r.cursor + 1])]
      /\ UNCHANGED <<library, schemes, catalog>>

-----------------------------------------------------------------------------
(* Publication.                                                                *)

NewName(i) == "v" \o ToString(Cardinality(DOMAIN library) + Cardinality(DOMAIN schemes) + i)

\* Candidates get fresh identifiers, in their order.
NewNames(g) ==
  FoldLeft(LAMBDA m, i : (g.candidates[i].key[2] :> NewName(i)) @@ m,
           [x \in {} |-> x], [i \in DOMAIN g.candidates |-> i])

\* What publish() and preview() have in common, under the names they choose.
Accepted(d, names) ==
  LET g == drafts[d].content.graph
      s == Prepared(g, names)
      new == Materialized(g, names)
  IN  /\ drafts[d].content.executable
      /\ Distinct(library, g, names)
      /\ WellMade(g, s)
      /\ Executable(Extended(library, new), catalog \cup OfKind(DOMAIN new, "source"), s)

\* A bug to detect: the versions are stored as they were when they were cloned.
StoredOriginals(g, names) ==
  FoldLeft(LAMBDA f, c : (RenamedKey(c.key, names) :>
                            (IF <<c.key[1], c.base>> \in DOMAIN library
                             THEN library[<<c.key[1], c.base>>] ELSE c.body)) @@ f,
           [k \in {} |-> k], g.candidates)

StoredVersions(g, names) == Materialized(g, names)

\* The history starts anew; the versions of the draft stay what they were.
Publish(d, expectedGraph, expectedLayout) ==
  LET r == drafts[d]
      g == r.content.graph
      names == NewNames(g)
      name == NewName(Len(g.candidates) + 1)
      s == Prepared(g, names)
      new == Extended(library, StoredVersions(g, names))
      c == Content(new, GraphOf(Extended(library, Materialized(g, names)), s))
  IN  /\ Expected(d, expectedGraph, expectedLayout)
      /\ Accepted(d, names)
      /\ name \notin DOMAIN schemes
      /\ library' = new
      /\ schemes' = Extended(schemes, [n \in {name} |-> s])
      /\ drafts' = [drafts EXCEPT ![d] = [r EXCEPT !.base = name, !.content = c, !.cursor = 0,
                                                   !.snapshots = <<c>>, !.transitions = <<>>]]
      /\ UNCHANGED catalog

Next ==
  \/ Reopen
  \/ \E d \in Draft :
       \/ \E name \in DOMAIN schemes : CreateDraft(d, name)
       \/ DiscardDraft(d)
       \/ \E v \in 0..MaxVersion, w \in 0..MaxVersion :
            \/ d \in Stored
               /\ \E operations \in Requests(library, drafts[d].content.graph) :
                    ApplyOperations(d, operations, v, w)
            \/ Undo(d, v, w)
            \/ Redo(d, v, w)
            \/ Cardinality(DOMAIN schemes) < MaxSchemes /\ Publish(d, v, w)

Spec == Init /\ [][Next]_vars

-----------------------------------------------------------------------------
(* A preview validates and answers under the names of the candidates.          *)

NoNames == [x \in {} |-> x]

Previewed(d) == Accepted(d, NoNames)

PreviewNetwork(d) ==
  LET g == drafts[d].content.graph
  IN  Network(Extended(library, Materialized(g, NoNames)), Prepared(g, NoNames))

-----------------------------------------------------------------------------
(* Properties.                                                                 *)

\* A candidate without the positions that it may hold.
Placeless(c) ==
  IF c.key[1] = "layout" THEN [key |-> c.key, base |-> c.base, body |-> [c.body EXCEPT !.data = 0]] ELSE c

Meaning(g) == [g EXCEPT !.candidates = [i \in DOMAIN @ |-> Placeless(@[i])]]

\* As long as a draft lives and is not published, its versions only grow, and whatever
\* changes its meaning, undo and redo included, raises graph_version; only new positions
\* leave it alone, and they raise layout_version. A client that names the versions of
\* its copy therefore edits what it sees. Publication is excepted: it replaces every
\* candidate and keeps both versions.
VersionsTellContents ==
  [][\A d \in Stored \cap Stored' :
       schemes' = schemes =>
         LET r == drafts[d]
             s == drafts'[d]
         IN  /\ s.graphVersion >= r.graphVersion /\ s.layoutVersion >= r.layoutVersion
             /\ Meaning(s.content.graph) # Meaning(r.content.graph) => s.graphVersion > r.graphVersion
             /\ s.content # r.content /\ s.graphVersion = r.graphVersion =>
                  s.layoutVersion > r.layoutVersion]_vars

\* Every scheme in the library can be replayed and run at any time: the versions it pins
\* are stored, and the inference engine, which checks them by itself, compiles them.
SchemesCompile == \A name \in DOMAIN schemes : Compiles(library, schemes[name])

SameNetwork(n, m, names) ==
  /\ {RenamedKey(v, names) : v \in DOMAIN n.card} = DOMAIN m.card
  /\ \A v \in DOMAIN n.card :
       LET w == RenamedKey(v, names)
       IN  /\ n.card[v] = m.card[w] /\ n.rows[v] = m.rows[w]
           /\ RenamedSeq(n.parents[v], names) = m.parents[w]

\* A preview is what publication would give: it is accepted exactly when publication is,
\* and the network it answers from is the published one under other names. A candidate
\* that has the name of a stored version is excepted: the preview of such a draft is
\* refused, or mixes the two up.
PreviewForetellsPublication ==
  \A d \in Stored :
    LET g == drafts[d].content.graph
        names == NewNames(g)
        Published == Network(Extended(library, Materialized(g, names)), Prepared(g, names))
    IN  DOMAIN names \cap {k[2] : k \in DOMAIN library} = {} =>
          /\ Previewed(d) <=> Accepted(d, names)
          /\ Previewed(d) => SameNetwork(PreviewNetwork(d), Published, names)

\* Whatever is observed of a newly published scheme, the engine answers for its outputs
\* with the conditional probability of each state, in every elimination order the
\* minimum-fill rule allows, and explain() finds a path for every influence it reports.
AnswersAreExact ==
  [][\A name \in DOMAIN schemes' \ DOMAIN schemes :
       LET net == Network(library', schemes'[name])
           queries == ToSet(schemes'[name].outputs)
       IN  \A observed \in Observations(net) :
             /\ \A joint \in Net!Joints(net, observed, queries), q \in queries :
                  Net!Distribution(net, joint, q) = Net!Enumerated(net, observed, q)
             /\ Net!Explainable(net, observed, queries)]_vars

Past(r) == Append(SubSeq(r.snapshots, 1, r.cursor), r.content)
Future(r) == SubSeq(r.snapshots, r.cursor + 2, Len(r.snapshots))

\* A draft is an EditTimeline: its snapshots and cursor behave as a past and a future,
\* which every edit cuts and publication ends.
Timeline == INSTANCE EditTimeline
              WITH Object <- Draft,
                   past <- [d \in Draft |-> IF d \in Stored THEN Past(drafts[d]) ELSE <<>>],
                   future <- [d \in Draft |-> IF d \in Stored THEN Future(drafts[d]) ELSE <<>>],
                   life <- [d \in Draft |-> IF d \in Stored THEN <<drafts[d].base>> ELSE <<>>]
DraftsAreTimelines == Timeline!Spec
=============================================================================
