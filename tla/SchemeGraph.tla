----------------------------- MODULE SchemeGraph -----------------------------
(* The contents of a scheme draft, the operations on them, and what makes them *)
(* executable, for models made of immutable versions.                          *)
(*                                                                             *)
(* A component is stored under a key, its kind with its identifier. Its body   *)
(* is one record for all kinds: parents are the ordered parents of a variable  *)
(* or a CPT; of is what it is about (the sources of Evidence and of a task     *)
(* profile, the Evidence of a binding, the child of a CPT); states are those   *)
(* of a variable, or what its CPT takes for them, and axes those of the CPT's  *)
(* parents; rows are weights that add up to Whole. data stands for what no     *)
(* rule here reads: recipes, scoring, reporting rules, positions.              *)
EXTENDS Naturals, SequencesExt

CONSTANT Whole

ASSUME WholeAssumption == Whole \in Nat \ {0}

Net == INSTANCE Inference

NoKey == <<"none", "none">>
NoName == "none"

VariableKinds == {"node", "binding"}
OfKind(keys, kind) == {k \in keys : k[1] = kind}
VariablesIn(keys) == {k \in keys : k[1] \in VariableKinds}

\* The function f with g added, which wins where both are defined.
Extended(f, g) == [x \in DOMAIN f \cup DOMAIN g |-> IF x \in DOMAIN g THEN g[x] ELSE f[x]]

Refs(b) == (ToSet(b.parents) \cup b.of \cup {b.cpt}) \ {NoKey}

(* Identifiers are replaced wherever the string occurs, whatever its kind.     *)

RenamedKey(k, names) == IF k[2] \in DOMAIN names THEN <<k[1], names[k[2]]>> ELSE k

RenamedSeq(s, names) == [i \in DOMAIN s |-> RenamedKey(s[i], names)]

Renamed(b, names) ==
  [b EXCEPT !.parents = RenamedSeq(@, names),
            !.of = {RenamedKey(k, names) : k \in @},
            !.cpt = RenamedKey(@, names)]

------------------------------------------------------------------------------
(* A draft: pinned versions, candidates in the order they were staged, the     *)
(* edges it shows, and its outputs. An edge has an identifier, its kind with   *)
(* what the client calls it, and edges is the function from these to its ends. *)

Graph(retained, candidates, edges, outputs) ==
  [retained |-> retained, candidates |-> candidates, edges |-> edges, outputs |-> outputs]

CandidateKeys(g) == {g.candidates[i].key : i \in DOMAIN g.candidates}
Selected(g) == g.retained \cup CandidateKeys(g)
Names(g) == {k[2] : k \in Selected(g)}

\* The graph with the body of the candidate under key k changed, if there is one.
WithBody(g, k, New(_)) ==
  {[g EXCEPT !.candidates[i] = [key |-> k, base |-> @.base, body |-> New(@.body)]] :
     i \in {j \in DOMAIN g.candidates : g.candidates[j].key = k}}

CloneComponent(library, g, o) ==
  LET new   == o.source[2] :> o.name
      based == FoldLeft(LAMBDA m, c : IF c.base = NoName THEN m ELSE (c.base :> c.key[2]) @@ m,
                        [x \in {} |-> x], g.candidates)
  IN  IF o.name \in Names(g) \/ o.source \notin DOMAIN library THEN {}
      ELSE {Graph(IF o.replace THEN g.retained \ {o.source} ELSE g.retained,
                  Append([i \in DOMAIN g.candidates |->
                            [g.candidates[i] EXCEPT !.body = Renamed(@, new)]],
                         [key |-> <<o.source[1], o.name>>, base |-> o.source[2],
                          body |-> Renamed(library[o.source], new @@ based)]),
                  [i \in DOMAIN g.edges |-> RenamedSeq(g.edges[i], new)],
                  RenamedSeq(g.outputs, new))}

StageNewComponent(g, o) ==
  IF o.key[2] \in Names(g) THEN {}
  ELSE {[g EXCEPT !.candidates = Append(@, [key |-> o.key, base |-> NoName, body |-> o.body])]}

\* The names of candidates are not compared with that of a version that is added.
AddExistingComponent(library, g, o) ==
  IF o.key \notin DOMAIN library \/ o.key \in g.retained THEN {}
  ELSE {[g EXCEPT !.retained = @ \cup {o.key}]}

\* The edges and outputs that name it stay.
RemoveComponent(g, o) ==
  IF o.key \notin Selected(g) THEN {}
  ELSE {[g EXCEPT !.retained = @ \ {o.key},
                  !.candidates = SelectSeq(@, LAMBDA c : c.key # o.key)]}

\* Recipe, scoring, states, probabilities and reporting rules are replaced alike. A new
\* recipe changes its sources and not the edges shown.
ReplaceFields(g, o) == WithBody(g, o.key, LAMBDA b : o.fields @@ b)

\* A node gets another position, in a candidate of the layout.
MoveLayout(g, o) ==
  IF o.key[1] = "layout" THEN WithBody(g, o.key, LAMBDA b : [b EXCEPT !.data = o.data]) ELSE {}

EdgeKind(e) == IF e[2][1] = "evidence" THEN "extraction" ELSE "bayesian"

Holds(b, e) == e[1] \in b.of \cup ToSet(b.parents)

\* The identifier of an edge is compared with those there are, its ends are not.
AddDependency(g, o) ==
  LET from == o.edge[1]
      Grown(b) == IF o.id[1] = "extraction" THEN [b EXCEPT !.of = @ \cup {from}]
                  ELSE [b EXCEPT !.parents = Append(@, from)]
  IN  IF \/ o.id \in DOMAIN g.edges \/ o.id[1] # EdgeKind(o.edge)
         \/ \E i \in DOMAIN g.candidates :
              g.candidates[i].key = o.edge[2] /\ Holds(g.candidates[i].body, o.edge)
      THEN {}
      ELSE {[h EXCEPT !.edges = Extended(@, [i \in {o.id} |-> o.edge])] :
              h \in WithBody(g, o.edge[2], Grown)}

RemoveDependency(g, o) ==
  LET e == g.edges[o.id]
      Shrunk(b) == IF o.id[1] = "extraction" THEN [b EXCEPT !.of = @ \ {e[1]}]
                   ELSE [b EXCEPT !.parents = SelectSeq(@, LAMBDA k : k # e[1])]
  IN  IF o.id \notin DOMAIN g.edges THEN {}
      ELSE {[h EXCEPT !.edges = [i \in DOMAIN @ \ {o.id} |-> @[i]]] : h \in WithBody(g, e[2], Shrunk)}

SetOutputNodes(g, o) == {[g EXCEPT !.outputs = o.outputs]}

\* The contents after one operation; none when it is refused.
Applied(library, g, o) ==
  CASE o.op = "clone"   -> CloneComponent(library, g, o)
    [] o.op = "stage"   -> StageNewComponent(g, o)
    [] o.op = "add"     -> AddExistingComponent(library, g, o)
    [] o.op = "remove"  -> RemoveComponent(g, o)
    [] o.op = "replace" -> ReplaceFields(g, o)
    [] o.op = "move"    -> MoveLayout(g, o)
    [] o.op = "join"    -> AddDependency(g, o)
    [] o.op = "part"    -> RemoveDependency(g, o)
    [] o.op = "outputs" -> SetOutputNodes(g, o)

\* What the contract of a stored draft adds.
Storable(g) ==
  /\ IsInjective(g.outputs)
  /\ ToSet(g.outputs) \subseteq VariablesIn(ToSet(g.outputs))
  /\ \A i, j \in DOMAIN g.edges : i[2] = j[2] => i = j

AppliedAll(library, g, operations) ==
  LET after[i \in 0..Len(operations)] ==
        IF i = 0 THEN {g} ELSE UNION {Applied(library, h, operations[i]) : h \in after[i - 1]}
  IN  {h \in after[Len(operations)] : Storable(h)}

------------------------------------------------------------------------------
(* Contracts and diagnostics of a draft.                                       *)

Contract(k, b) ==
  /\ IsInjective(b.parents)
  /\ k[1] \in VariableKinds =>
       /\ Len(b.states) >= 2 /\ IsInjective(b.states)
       /\ b.cpt[1] = "cpt"
  /\ k[1] = "node" => k \notin ToSet(b.parents) /\ ToSet(b.parents) = VariablesIn(ToSet(b.parents))
  /\ k[1] = "binding" =>
       b.of = OfKind(b.of, "evidence") /\ ToSet(b.parents) = OfKind(ToSet(b.parents), "node")
  /\ k[1] = "cpt" =>
       /\ b.of \cup ToSet(b.parents) = VariablesIn(b.of \cup ToSet(b.parents))
       /\ Len(b.states) >= 2 /\ IsInjective(b.states)
       /\ Len(b.axes) = Len(b.parents)
       /\ \A i \in DOMAIN b.axes : Len(b.axes[i]) >= 2 /\ IsInjective(b.axes[i])

\* _annotate_draft: nothing selected or shown is missing, and candidates meet their contract.
Annotated(library, g) ==
  LET candidates == ToSet(g.candidates)
  IN  /\ g.retained \subseteq DOMAIN library
      /\ \A i \in DOMAIN g.edges : ToSet(g.edges[i]) \subseteq Selected(g)
      /\ g.outputs # <<>> /\ ToSet(g.outputs) \subseteq Selected(g)
      /\ \A c \in candidates : Contract(c.key, c.body)
      /\ \A b \in {library[k] : k \in g.retained \cap DOMAIN library} \cup {c.body : c \in candidates} :
           Refs(b) \subseteq Selected(g)

\* The identifier of an edge that is projected is made of its ends at that time.
EdgeId(e) == <<EdgeKind(e), e>>

Ends(components, pins) ==
  UNION {{<<p, k>> : p \in components[k].of} : k \in OfKind(pins, "evidence")}
  \cup UNION {{<<p, k>> : p \in ToSet(components[k].parents)} : k \in VariablesIn(pins)}

\* The dependencies of the versions a scheme pins.
Projected(components, pins) ==
  [i \in {EdgeId(e) : e \in Ends(components, pins)} |-> i[2]]

------------------------------------------------------------------------------
(* A scheme pins versions and names its outputs. It is made from a draft under *)
(* the names its candidates get: new ones for publication, none for a preview. *)

Materialized(g, names) ==
  FoldLeft(LAMBDA f, c : (RenamedKey(c.key, names) :> Renamed(c.body, names)) @@ f,
           [k \in {} |-> k], g.candidates)

\* A bug to detect: the outputs keep the names of the candidates.
PreparedOldOutputs(g, names) ==
  [pins |-> g.retained \cup DOMAIN Materialized(g, names), outputs |-> g.outputs]

Prepared(g, names) ==
  [pins |-> g.retained \cup DOMAIN Materialized(g, names), outputs |-> RenamedSeq(g.outputs, names)]

\* The library a scheme is validated against, unless a candidate has a version's key.
Distinct(library, g, names) ==
  DOMAIN Materialized(g, names) \cap (DOMAIN library \cup g.retained) = {}

WellMade(g, s) ==
  /\ \A kind \in {"task", "policy", "layout"} : Cardinality(OfKind(s.pins, kind)) = 1
  /\ \A c \in ToSet(g.candidates) : Contract(c.key, c.body)

------------------------------------------------------------------------------
(* validate_cpt and validate_executable_scheme.                                *)

RowsFor(axes) == FoldLeft(LAMBDA n, states : n * Len(states), 1, axes)

Normalized(row, states) == Len(row) = Len(states) /\ FoldLeft(+, 0, row) = Whole

CptValid(components, variables, b) ==
  /\ b.of \subseteq variables /\ ToSet(b.parents) \subseteq variables
  /\ \A v \in b.of : components[v].states = b.states /\ components[v].parents = b.parents
  /\ b.axes = [i \in DOMAIN b.parents |-> components[b.parents[i]].states]
  /\ Len(b.rows) = RowsFor(b.axes)
  /\ \A row \in ToSet(b.rows) : Normalized(row, b.states)

Reached(nodes, Near(_)) ==
  LET step[i \in 0..Cardinality(nodes)] ==
        IF i = 0 THEN Near({}) ELSE Near(step[i - 1])
  IN  step[Cardinality(nodes)]

\* Variables are visited once all their parents were.
Orderable(parents) ==
  LET nodes == DOMAIN parents
  IN  Reached(nodes, LAMBDA S : S \cup {v \in nodes : parents[v] \subseteq S}) = nodes

Acyclic(components, variables) ==
  Orderable([v \in variables |-> ToSet(components[v].parents)])

AllReach(components, variables, outputs) ==
  LET Joined(v, w) == v \in ToSet(components[w].parents) \/ w \in ToSet(components[v].parents)
  IN  Reached(variables, LAMBDA S : S \cup outputs \cup {v \in variables : \E w \in S : Joined(v, w)})
        = variables

Executable(components, sources, s) ==
  LET variables == VariablesIn(s.pins)
      evidence  == OfKind(s.pins, "evidence")
      pinnedSources == OfKind(s.pins, "source")
      users     == evidence \cup OfKind(s.pins, "task")
      Cpt(v)    == components[components[v].cpt]
  IN  /\ s.pins \subseteq DOMAIN components
      /\ pinnedSources \subseteq sources
      /\ \A k \in users : components[k].of \subseteq pinnedSources
      /\ \A k \in OfKind(s.pins, "cpt") : CptValid(components, variables, components[k])
      /\ \A v \in variables :
           /\ ToSet(components[v].parents) \subseteq variables
           /\ components[v].cpt \in s.pins
           /\ Cpt(v).of = {v} /\ Cpt(v).parents = components[v].parents
           /\ Cpt(v).states = components[v].states
      /\ UNION {components[v].of : v \in OfKind(s.pins, "binding")} = evidence
      /\ Acyclic(components, variables)
      /\ s.outputs # <<>> /\ ToSet(s.outputs) \subseteq variables
      /\ AllReach(components, variables, ToSet(s.outputs))
      /\ OfKind(s.pins, "cpt") = {components[v].cpt : v \in variables}
      /\ pinnedSources = UNION {components[k].of : k \in users}

------------------------------------------------------------------------------
(* InferenceEngine.compile, which resolves the pins by itself.                 *)

Compiles(components, s) ==
  LET variables == VariablesIn(s.pins)
  IN  /\ s.pins \subseteq DOMAIN components
      /\ \A v \in variables :
           components[v].cpt \in s.pins /\ CptValid(components, variables, components[components[v].cpt])
      /\ OfKind(s.pins, "cpt") = {components[v].cpt : v \in variables}
      /\ Acyclic(components, variables)
      /\ ToSet(s.outputs) \subseteq variables

\* Factors stand under the variables their CPTs name, which are the owner and its parents.
Network(components, s) ==
  LET variables == VariablesIn(s.pins)
      Cpt(v) == components[components[v].cpt]
  IN  [card    |-> [v \in variables |-> Len(components[v].states)],
       parents |-> [v \in variables |-> Cpt(v).parents],
       rows    |-> [v \in variables |-> Cpt(v).rows]]
==============================================================================
