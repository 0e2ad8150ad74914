----------------------------- MODULE ModelGraph -----------------------------
(* The graph rules of the current model: activation closure, descendants,     *)
(* cycles, validation of an active closure, activation and deactivation       *)
(* plans, and the CPT of a node as its edges and states change.               *)
(*                                                                            *)
(* nodes is a function from the stored nodes to their complete contents.      *)
(* Edges are not stored: they are the parents that contents name. The         *)
(* probabilities of a CPT are one name out of Rows, or say how they were      *)
(* generated; the axes are the state versions of the ordered parents.         *)
EXTENDS Naturals, SequencesExt

CONSTANTS
  NodeId,
  RawInput, Evidence,  \* the identifiers of those kinds; the others are BN nodes
  Rows                 \* tables an expert may enter

ASSUME KindAssumption ==
  RawInput \subseteq NodeId /\ Evidence \subseteq NodeId /\ RawInput \cap Evidence = {}

None == "none"
Bn == NodeId \ (RawInput \cup Evidence)
SameKind(n, m) == \E K \in {RawInput, Evidence, Bn} : n \in K /\ m \in K

Table == Rows \cup {"uniform", "ranked", "incomplete"}

\* parents in order, with the axis the CPT declares for each; inputs are the Raw Input
\* nodes of the data bindings; recipe says whether validate_recipe accepts the recipe.
NodeContent ==
  [life : {"active", "archived"}, parents : Seq(NodeId), axes : Seq(Nat), states : Nat,
   table : Table, inputs : SUBSET RawInput, recipe : BOOLEAN]

\* The order of parents carries no repetition, and the CPT has one axis for each.
NodeContract(n, c) ==
  /\ Len(c.axes) = Len(c.parents)
  /\ IsInjective(c.parents)
  /\ ToSet(c.parents) \subseteq (IF n \in Evidence THEN Bn ELSE IF n \in Bn THEN Bn \cup Evidence ELSE {}) \ {n}
  /\ n \notin Evidence => c.inputs = {}

ParentsOf(c) == ToSet(c.parents) \cup c.inputs

------------------------------------------------------------------------------
(* Reachability. A path has fewer edges than there are nodes.                 *)

Stored(nodes) == DOMAIN nodes

Closure(nodes, explicit) ==
  LET step[i \in 0..Cardinality(NodeId)] ==
        IF i = 0 THEN explicit
        ELSE LET before == step[i - 1]
             IN  before \cup UNION {ParentsOf(nodes[n]) : n \in before \cap Stored(nodes)}
  IN  step[Cardinality(NodeId)]

\* Where activation_closure gives up: a node that names one that does not exist, or the
\* scheme itself (None). The code reports the first it meets.
Unresolved(nodes, explicit) ==
  LET reached == Closure(nodes, explicit)
  IN  {<<"missing", n>> : n \in {m \in reached \cap Stored(nodes) : ~(ParentsOf(nodes[m]) \subseteq Stored(nodes))}}
      \cup {<<"missing", None>> : n \in explicit \ Stored(nodes)}

\* Both ends of an active edge are active.
ActiveEdges(nodes, active) ==
  {e \in Stored(nodes) \X Stored(nodes) :
     e[1] \in active /\ e[2] \in active /\ e[1] \in ParentsOf(nodes[e[2]])}

\* A bug to detect: the children of a node are deactivated with it, not theirs.
DescendantsOneLevel(edges, n) == {e[2] : e \in {f \in edges : f[1] = n}}

Descendants(edges, n) ==
  LET step[i \in 0..Cardinality(NodeId)] ==
        IF i = 0 THEN {n}
        ELSE LET before == step[i - 1]
             IN  before \cup {e[2] : e \in {f \in edges : f[1] \in before}}
  IN  step[Cardinality(NodeId)] \ {n}

\* Nodes without an unvisited probabilistic parent are visited until none is left.
Cyclic(nodes, active) ==
  LET left[i \in 0..Cardinality(NodeId)] ==
        IF i = 0 THEN active
        ELSE LET before == left[i - 1]
             IN  {n \in before : ToSet(nodes[n].parents) \cap before # {}}
  IN  left[Cardinality(NodeId)] # {}

------------------------------------------------------------------------------
(* Validation: the errors of an active closure whose references resolve, each *)
(* with the node it is about.                                                 *)

When(condition, error) == IF condition THEN {error} ELSE {}

NodeErrors(nodes, n) ==
  LET c == nodes[n]
  IN  When(c.life = "archived", <<"archived", n>>)
      \cup When(c.table = "incomplete", <<"incomplete", n>>)
      \cup When(~c.recipe, <<"recipe", n>>)
      \cup When(\E i \in DOMAIN c.axes : nodes[c.parents[i]].states # c.axes[i], <<"axis", n>>)

GraphErrors(nodes, active) ==
  When(Cyclic(nodes, active), <<"cycle", None>>) \cup UNION {NodeErrors(nodes, n) : n \in active}

\* _normalize_node: what a node alone, with everything it depends on, lacks.
NodeNotes(nodes, n) ==
  IF Unresolved(nodes, {n}) # {} THEN Unresolved(nodes, {n})
  ELSE GraphErrors(nodes, Closure(nodes, {n}))

------------------------------------------------------------------------------
(* Schemes. *)

SchemeContent ==
  [life : {"active", "archived"}, explicit : SUBSET NodeId, closure : SUBSET NodeId,
   outputs : SUBSET NodeId]

\* The TaskScheme contract, which every write of a scheme passes.
SchemeContract(b) == b.explicit \subseteq b.closure /\ b.outputs \subseteq b.closure

\* _normalize_scheme: the closure is replaced only when it can be computed and contains the
\* outputs; otherwise the scheme keeps the one it has and is blocked.
Normalized(b, nodes) ==
  LET closure == Closure(nodes, b.explicit)
  IN  IF Unresolved(nodes, b.explicit) # {}
      THEN [content |-> b, notes |-> Unresolved(nodes, b.explicit)]
      ELSE IF ~(b.outputs \subseteq closure) THEN [content |-> b, notes |-> {<<"output", None>>}]
      ELSE [content |-> [b EXCEPT !.closure = closure], notes |-> GraphErrors(nodes, closure)]

\* plan_deactivation: the node and all that depends on it leave the explicit set, and the
\* closure is computed anew from what remains.
DeactivationPlan(b, nodes, n) ==
  LET edges     == ActiveEdges(nodes, b.closure)
      remaining == b.explicit \ (Descendants(edges, n) \cup {n})
      closure   == Closure(nodes, remaining)
  IN  [explicit |-> remaining, closure |-> closure, outputs |-> b.outputs \cap closure,
       nodes |-> b.closure \ closure, edges |-> edges \ ActiveEdges(nodes, closure)]

Deactivated(b, plan) ==
  [b EXCEPT !.explicit = plan.explicit, !.closure = plan.closure, !.outputs = plan.outputs]

------------------------------------------------------------------------------
(* CPTs. Complete tables follow their parents by row construction; a strategy *)
(* that cannot know the new rows leaves the table incomplete.                 *)

Complete(c) == c.table # "incomplete"

CanAddParent(nodes, child, p, strategy) ==
  /\ child \notin RawInput
  /\ p \notin RawInput /\ p # child /\ (child \in Evidence => p \in Bn)
  /\ p \notin ToSet(nodes[child].parents)
  /\ strategy = "preserve_independence" => Complete(nodes[child]) /\ p \in Bn

ParentAdded(nodes, child, p, strategy) ==
  [nodes[child] EXCEPT
     !.parents = Append(@, p),
     !.axes = Append(@, nodes[p].states),
     !.table = IF strategy = "preserve_independence" THEN @ ELSE strategy]

\* The places of a parent order that remain without p.
PlacesWithout(parents, p) == SelectSeq([i \in DOMAIN parents |-> i], LAMBDA i : parents[i] # p)

Reindexed(c, places) ==
  [c EXCEPT !.parents = [i \in DOMAIN places |-> c.parents[places[i]]],
            !.axes = [i \in DOMAIN places |-> c.axes[places[i]]]]

ParentRemoved(c, p, strategy) ==
  [Reindexed(c, PlacesWithout(c.parents, p)) EXCEPT
     !.table = IF strategy = "marginalize" THEN @ ELSE "incomplete"]

ParentsReordered(c, places) == Reindexed(c, places)

\* replace_node_states: the node has new states, and its CPT and those of its children an
\* axis without rows.
StatesReplaced(nodes, n, m) ==
  LET c == nodes[m]
      states == nodes[n].states + 1
  IN  [c EXCEPT !.states = IF m = n THEN states ELSE @,
                !.axes = [i \in DOMAIN @ |-> IF c.parents[i] = n THEN states ELSE @[i]],
                !.table = "incomplete"]

StateDependents(nodes, n) == {n} \cup {m \in Stored(nodes) : n \in ToSet(nodes[m].parents)}
=============================================================================
