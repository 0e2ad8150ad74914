-------------------------- MODULE CurrentWorkspace --------------------------
(* The current model library as an expert edits it: complete nodes, task      *)
(* schemes over them, and the runs prepared from a scheme. Every request is   *)
(* one transaction: it changes the object it is about, revalidates the active *)
(* schemes that use it, and writes one change event for each object.          *)
(*                                                                            *)
(* The requests carry the revisions the objects have; a request with another  *)
(* one is refused and changes nothing (ModelHistory is about that). What      *)
(* outlives its request is the confirmation of a deactivation and the         *)
(* preflight of a run: both are prepared from one state of the library and    *)
(* used in another.                                                           *)
EXTENDS ObjectHistory, ModelGraph

CONSTANTS
  SchemeId,
  Starter,       \* identifier -> content the library starts with, or Absent
  NodeDrafts,    \* <<node, content>>: complete nodes an expert submits
  SchemeDrafts,  \* <<scheme, content>>: task schemes an expert submits
  Movable,       \* objects whose layout is edited
  MaxChanges     \* bound on the change events after the starter library

\* A value of a row: the contracts of nodes and schemes, with what a validation notes.
Note == {"archived", "incomplete", "recipe", "axis", "cycle", "missing", "output"}
          \X (NodeId \cup {None})
Value ==
  [content : NodeContent \cup SchemeContent, notes : SUBSET Note, layout : Nat, sem : Nat, lay : Nat]
Row == [value : Value, head : Nat, redo : Nat]

ASSUME WorkspaceAssumption ==
  /\ Object = NodeId \cup SchemeId /\ NodeId \cap SchemeId = {}
  /\ IsFiniteSet(NodeId) /\ IsFiniteSet(SchemeId)
  /\ None \notin NodeId /\ Absent \notin Value \cup Row

\* What a client submits is parsed by the contracts before a request sees it.
ASSUME DraftAssumption ==
  NodeDrafts \subseteq NodeId \X NodeContent /\ SchemeDrafts \subseteq SchemeId \X SchemeContent

\* The library that is installed satisfies the contracts.
ASSUME StarterAssumption ==
  /\ DOMAIN Starter = Object
  /\ \A o \in Object : Starter[o] # Absent =>
       IF o \in NodeId THEN Starter[o] \in NodeContent /\ NodeContract(o, Starter[o])
       ELSE Starter[o] \in SchemeContent /\ SchemeContract(Starter[o])

VARIABLES
  held,          \* the deactivation impact or ready report a client holds, or Absent
  run            \* the model snapshot of a run that was created, or Absent
vars == <<historyVars, held, run>>

Expert == "expert"

Node(n) == Current(n).content
Scheme(s) == Current(s).content
Nodes == [n \in {m \in NodeId : Exists(m)} |-> Node(n)]
Schemes == {s \in SchemeId : Exists(s)}

\* The values of f, and where it has none those of g.
Over(f, g) == [x \in DOMAIN f \cup DOMAIN g |-> IF x \in DOMAIN f THEN f[x] ELSE g[x]]

With(nodes, n, c) == Over([m \in {n} |-> c], nodes)

\* What a validation yields, at its place on the canvas.
Placed(normalized, layout) ==
  [content |-> normalized.content, notes |-> normalized.notes, layout |-> layout]

\* A proposal of content whose layout stays.
Saved(o, c, notes) == [content |-> c, notes |-> notes, layout |-> Current(o).layout]
NewNode(nodes, n, c, layout) == [content |-> c, notes |-> NodeNotes(nodes, n), layout |-> layout]

Meaning(o, kind, c, notes) == Change(o, kind, Saved(o, c, notes), TRUE, FALSE, Expert)

StarterObjects == {o \in Object : Starter[o] # Absent}
StarterValue(o) ==
  LET nodes == [n \in StarterObjects \cap NodeId |-> Starter[n]]
  IN  Fresh(IF o \in NodeId THEN NewNode(nodes, o, Starter[o], 0)
            ELSE Placed(Normalized(Starter[o], nodes), 0))

\* The starter library: its nodes first, then its schemes, each with its creation.
Init ==
  LET order == SetToSeq(StarterObjects \cap NodeId) \o SetToSeq(StarterObjects \cap SchemeId)
      id(o) == CHOOSE i \in DOMAIN order : order[i] = o
  IN  /\ log = [i \in DOMAIN order |->
                  Event(order[i], "create", NoEvent, Absent, StarterValue(order[i]),
                        NoEvent, NoEvent, Expert)]
      /\ objects = [o \in Object |->
                      IF o \in StarterObjects
                      THEN [value |-> StarterValue(o), head |-> id(o), redo |-> NoEvent]
                      ELSE Absent]
      /\ held = Absent
      /\ run = Absent

------------------------------------------------------------------------------
(* Writing. *)

\* Every object a request writes satisfies its contract, or the request is refused.
Contract(e) ==
  /\ e.after \in Value
  /\ IF e.object \in NodeId
     THEN e.after.content \in NodeContent /\ NodeContract(e.object, e.after.content)
     ELSE e.after.content \in SchemeContent /\ SchemeContract(e.after.content)

Editable == Len(log) < Cardinality(StarterObjects) + MaxChanges

Write(events) ==
  /\ \A i \in DOMAIN events : Contract(events[i])
  /\ Commit(events)
  /\ UNCHANGED <<held, run>>

\* A bug to detect: schemes are found by their explicit nodes only.
AffectedExplicit(changed) ==
  {s \in Schemes : Scheme(s).life = "active" /\ changed \cap Scheme(s).explicit # {}}

\* The active schemes that use one of the nodes, by the closure they have stored.
Affected(changed) ==
  {s \in Schemes : /\ Scheme(s).life = "active"
                   /\ changed \cap (Scheme(s).closure \cup Scheme(s).explicit) # {}}

\* The affected schemes, normalised against the changed nodes; one that stays as it is
\* is not written.
Revalidation(changed, nodes) ==
  LET after(s) == Normalized(Scheme(s), nodes)
      differs == {s \in Affected(changed) :
                    <<after(s).content, after(s).notes>> # <<Scheme(s), Current(s).notes>>}
      order == SetToSeq(differs)
  IN  [i \in DOMAIN order |->
         Meaning(order[i], "update", after(order[i]).content, after(order[i]).notes)]

------------------------------------------------------------------------------
(* Nodes. *)

CreateNode(n, c) ==
  /\ ~Exists(n)
  /\ Write(<<Creation(n, NewNode(With(Nodes, n, c), n, c, 0), Expert)>>)

\* One complete node under a new identifier, active, a little aside; its parents are kept.
CopyOf(source, n, nodes) ==
  LET c == [Node(source) EXCEPT !.life = "active"]
  IN  NewNode(With(nodes, n, c), n, c, Current(source).layout + 1)

CopyNode(source, n) ==
  /\ Exists(source) /\ ~Exists(n) /\ SameKind(source, n)
  /\ Write(<<Creation(n, CopyOf(source, n, Nodes), Expert)>>)

\* An archived node is not edited. A change of meaning validates the node and the schemes
\* that use it, a move does neither.
UpdateNode(n, c, layout, semantic, moved) ==
  LET nodes == With(Nodes, n, c)
      p == NewNode(nodes, n, c, layout)
  IN  /\ Exists(n) /\ Node(n).life = "active"
      /\ semantic \/ moved
      /\ Write(<<Change(n, "update", p, semantic, moved, Expert)>>
                 \o (IF semantic THEN Revalidation({n}, nodes) ELSE <<>>))

\* An operation on an edge or a CPT is refused when the node it yields, or the graph,
\* has an error; what is left to do later, an incomplete table or recipe, may be allowed.
Operation(n, c, allowed) ==
  LET errors == {d \in NodeNotes(With(Nodes, n, c), n) : d[2] \in {n, None}}
  IN  /\ \A d \in errors : d[1] \in allowed
      /\ UpdateNode(n, c, 0, TRUE, FALSE)

Allowed(incomplete) == When(incomplete, "incomplete")

AddProbabilisticEdge(child, p, strategy) ==
  /\ Exists(child) /\ Exists(p)
  /\ CanAddParent(Nodes, child, p, strategy)
  /\ Operation(child, ParentAdded(Nodes, child, p, strategy), Allowed(strategy = "incomplete"))

RemoveProbabilisticEdge(child, p, strategy) ==
  /\ Exists(child) /\ p \in ToSet(Node(child).parents)
  /\ strategy = "marginalize" => Complete(Node(child))
  /\ Operation(child, ParentRemoved(Node(child), p, strategy), Allowed(strategy = "incomplete"))

ReorderProbabilisticParents(child) ==
  /\ Exists(child)
  /\ \E places \in SetToSeqs(DOMAIN Node(child).parents) :
       Operation(child, ParentsReordered(Node(child), places), Allowed(~Complete(Node(child))))

\* The recipe comes with the edge, and may be left unfinished.
AddExtractionEdge(n, r, recipe) ==
  /\ Exists(n) /\ Exists(r) /\ n \in Evidence /\ r \in RawInput \ Node(n).inputs
  /\ Operation(n, [Node(n) EXCEPT !.inputs = @ \cup {r}, !.recipe = recipe],
               Allowed(~Complete(Node(n))) \cup {"recipe"})

RemoveExtractionEdge(n, r, recipe) ==
  /\ Exists(n) /\ n \in Evidence /\ r \in Node(n).inputs
  /\ Operation(n, [Node(n) EXCEPT !.inputs = @ \ {r}, !.recipe = recipe],
               Allowed(~Complete(Node(n))) \cup {"recipe"})

UpdateCptRows(n, rows) ==
  /\ Exists(n) /\ n \notin RawInput
  /\ Operation(n, [Node(n) EXCEPT !.table = rows], {})

MaterializeCpt(n, strategy) ==
  /\ Exists(n) /\ n \notin RawInput
  /\ strategy = "ranked" => Node(n).parents # <<>>
  /\ Operation(n, [Node(n) EXCEPT !.table = strategy], {})

\* The node and all that has it as a parent, archived ones included, in one transaction.
ReplaceNodeStates(n) ==
  LET changed == StateDependents(Nodes, n)
      nodes == Over([m \in changed |-> StatesReplaced(Nodes, n, m)], Nodes)
      order == SetToSeq(changed)
  IN  /\ Exists(n) /\ n \notin RawInput
      /\ Write([i \in DOMAIN order |->
                  Meaning(order[i], "update", nodes[order[i]], NodeNotes(nodes, order[i]))]
               \o Revalidation(changed, nodes))

\* The schemes that use the node let go of it and of all that depends on it before it is
\* archived. A closure that cannot be computed is cleared. They are validated against the
\* nodes as they were.
ArchiveNode(n) ==
  LET remaining(s) ==
        LET plan == DeactivationPlan(Scheme(s), Nodes, n)
        IN  IF Unresolved(Nodes, plan.explicit) # {}
            THEN [Scheme(s) EXCEPT !.explicit = {}, !.closure = {}, !.outputs = {}]
            ELSE Deactivated(Scheme(s), plan)
      after(s) == Normalized(remaining(s), Nodes)
      order == SetToSeq(Affected({n}))
  IN  /\ Exists(n) /\ Node(n).life = "active"
      /\ \A s \in Affected({n}) : n \in Scheme(s).closure
      /\ Write([i \in DOMAIN order |->
                  Meaning(order[i], "cascade", after(order[i]).content, after(order[i]).notes)]
               \o <<Meaning(n, "archive", [Node(n) EXCEPT !.life = "archived"], Current(n).notes)>>)

\* Undo and redo of a node validate the schemes that use it like an update.
TravelNode(e) ==
  Write(<<e>> \o Revalidation({e.object}, With(Nodes, e.object, e.after.content)))

UndoNode(n) == Exists(n) /\ CanUndo(n) /\ TravelNode(UndoOf(n, Expert))
RedoNode(n) == Exists(n) /\ CanRedo(n) /\ TravelNode(RedoOf(n, Expert))

------------------------------------------------------------------------------
(* Task schemes. *)

CreateScheme(s, b) ==
  /\ ~Exists(s)
  /\ SchemeContract(b)
  /\ Write(<<Creation(s, Placed(Normalized(b, Nodes), 0), Expert)>>)

CopyScheme(source, s) ==
  /\ Exists(source) /\ ~Exists(s)
  /\ Write(<<Creation(s, Placed(Normalized([Scheme(source) EXCEPT !.life = "active"], Nodes),
                                  Current(source).layout), Expert)>>)

WriteScheme(s, kind, b) ==
  LET after == Normalized(b, Nodes)
  IN  Write(<<Meaning(s, kind, after.content, after.notes)>>)

Archived(nodes, S) == {n \in S : nodes[n].life = "archived"}

\* Nodes are copied into a scheme, activated and placed in one transaction.
ApplyGraphBatch(s, copied, activated, moved) ==
  LET nodes == Over([n \in DOMAIN copied |-> [Node(copied[n]) EXCEPT !.life = "active"]], Nodes)
      explicit == Scheme(s).explicit \cup activated \cup DOMAIN copied
      closure == Closure(nodes, explicit)
      semantic == <<explicit, closure>> # <<Scheme(s).explicit, Scheme(s).closure>>
      layout == moved \/ DOMAIN copied # {}
      after == Normalized([Scheme(s) EXCEPT !.explicit = explicit, !.closure = closure], nodes)
      p == Placed(after, Current(s).layout + 1)
      order == SetToSeq(DOMAIN copied)
  IN  /\ Exists(s) /\ Scheme(s).life = "active"
      /\ DOMAIN copied # {} \/ activated # {} \/ moved
      /\ \A n \in DOMAIN copied : ~Exists(n) /\ Exists(copied[n]) /\ SameKind(n, copied[n])
      /\ activated \subseteq Stored(Nodes)
      /\ Unresolved(nodes, explicit) = {}
      /\ Archived(nodes, closure) = {}
      /\ semantic \/ layout
      /\ Write([i \in DOMAIN order |-> Creation(order[i], CopyOf(copied[order[i]], order[i], nodes), Expert)]
               \o <<Change(s, "update", p, semantic, layout, Expert)>>)

ActivateNode(s, n) ==
  LET explicit == Scheme(s).explicit \cup {n}
      closure == Closure(Nodes, explicit)
  IN  /\ Exists(s) /\ Exists(n) /\ n \notin Scheme(s).explicit
      /\ Unresolved(Nodes, explicit) = {}
      /\ Archived(Nodes, closure) = {}
      /\ WriteScheme(s, "update", [Scheme(s) EXCEPT !.explicit = explicit, !.closure = closure])

\* A bug to detect: the confirmation only names the scheme at its revision.
ImpactHashOfScheme(s, n) == [sem |-> Current(s).sem, content |-> Scheme(s), node |-> n]

\* What the impact hash covers. Hashes are as distinct as what they are computed from.
ImpactHash(s, n) ==
  LET plan == DeactivationPlan(Scheme(s), Nodes, n)
  IN  [sem |-> Current(s).sem, content |-> Scheme(s), node |-> n,
       active |-> [m \in Scheme(s).closure |-> Node(m)],
       edges |-> ActiveEdges(Nodes, Scheme(s).closure), plan |-> plan]

Plannable(s, n) ==
  /\ Exists(s) /\ n \in Scheme(s).closure
  /\ Unresolved(Nodes, DeactivationPlan(Scheme(s), Nodes, n).explicit) = {}

Held(kind) == held # Absent /\ held.kind = kind

\* What the expert is shown, with the hash that confirms it.
PreviewDeactivation(s, n) ==
  /\ Plannable(s, n)
  /\ held' = [kind |-> "impact", scheme |-> s, node |-> n, hash |-> ImpactHash(s, n),
              shown |-> DeactivationPlan(Scheme(s), Nodes, n).nodes]
  /\ UNCHANGED <<historyVars, run>>

\* The impact is computed again and must be the one that was confirmed.
DeactivateNode ==
  LET s == held.scheme
      n == held.node
  IN  /\ Held("impact")
      /\ Plannable(s, n)
      /\ ImpactHash(s, n) = held.hash
      /\ WriteScheme(s, "deactivate", Deactivated(Scheme(s), DeactivationPlan(Scheme(s), Nodes, n)))

UpdateScheme(s, b, semantic, moved) ==
  LET after == Placed(Normalized(b, Nodes), Current(s).layout + 1)
  IN  /\ Exists(s) /\ Scheme(s).life = "active"
      /\ semantic \/ moved
      /\ SchemeContract(b)
      /\ Write(<<Change(s, "update", after, semantic, moved, Expert)>>)

ArchiveScheme(s) ==
  /\ Exists(s) /\ Scheme(s).life = "active"
  /\ Write(<<Meaning(s, "archive", [Scheme(s) EXCEPT !.life = "archived"], Current(s).notes)>>)

\* Undo and redo of a scheme put its closure and status back without validating them.
UndoScheme(s) == Exists(s) /\ CanUndo(s) /\ Write(<<UndoOf(s, Expert)>>)
RedoScheme(s) == Exists(s) /\ CanRedo(s) /\ Write(<<RedoOf(s, Expert)>>)

------------------------------------------------------------------------------
(* Runs. *)

\* Every parent of a node of the closure is in the closure.
ParentClosed(nodes, S) == \A n \in S : ParentsOf(nodes[n]) \subseteq S

\* A bug to detect: the stored status of the scheme is believed.
RunnableByStatus(s) == Scheme(s).life = "active" /\ Current(s).notes = {}

\* materialize, and the validation of the scheme it yields.
Runnable(s) ==
  LET closure == Scheme(s).closure
  IN  /\ Scheme(s).life = "active"
      /\ Current(s).notes = {}
      /\ closure \subseteq Stored(Nodes)
      /\ Archived(Nodes, closure) = {}
      /\ ParentClosed(Nodes, closure)
      /\ GraphErrors(Nodes, closure) = {}

Reference(o) == [sem |-> Current(o).sem, content |-> Current(o).content]

Preflight(s) ==
  /\ Exists(s)
  /\ Runnable(s)
  /\ held' = [kind |-> "report", scheme |-> s, reference |-> Reference(s),
              nodes |-> [n \in Scheme(s).closure |-> Reference(n)]]
  /\ UNCHANGED <<historyVars, run>>

\* A bug to detect: the nodes are not compared, only the scheme is.
NodesPresent(nodes) == \A n \in DOMAIN nodes : Exists(n)

\* A node that is archived, or has another revision or content, makes the report stale.
NodesUnchanged(nodes) ==
  \A n \in DOMAIN nodes : Node(n).life = "active" /\ Reference(n) = nodes[n]

CreateRun ==
  /\ Held("report")
  /\ Reference(held.scheme) = held.reference
  /\ NodesUnchanged(held.nodes)
  /\ run' = [scheme |-> Scheme(held.scheme), nodes |-> [n \in DOMAIN held.nodes |-> Node(n)]]
  /\ UNCHANGED <<historyVars, held>>

------------------------------------------------------------------------------
NodeRequest(n) ==
  \/ UndoNode(n)
  \/ RedoNode(n)
  \/ ArchiveNode(n)
  \/ ReplaceNodeStates(n)
  \/ ReorderProbabilisticParents(n)
  \/ \E rows \in Rows : UpdateCptRows(n, rows)
  \/ \E strategy \in {"uniform", "ranked"} : MaterializeCpt(n, strategy)
  \/ \E m \in NodeId : CopyNode(n, m)
  \/ \E p \in NodeId, strategy \in {"preserve_independence", "incomplete", "uniform"} :
       AddProbabilisticEdge(n, p, strategy)
  \/ \E p \in NodeId, strategy \in {"marginalize", "incomplete"} : RemoveProbabilisticEdge(n, p, strategy)
  \/ \E r \in RawInput, recipe \in BOOLEAN : AddExtractionEdge(n, r, recipe) \/ RemoveExtractionEdge(n, r, recipe)
  \/ n \in Movable /\ UpdateNode(n, Node(n), Current(n).layout + 1, FALSE, TRUE)

DraftRequest(d) ==
  \/ d \in NodeDrafts /\ CreateNode(d[1], d[2])
  \/ d \in NodeDrafts /\ UpdateNode(d[1], d[2], 0, TRUE, FALSE)
  \/ d \in SchemeDrafts /\ CreateScheme(d[1], d[2])
  \/ d \in SchemeDrafts /\ UpdateScheme(d[1], d[2], TRUE, FALSE)

SchemeRequest(s) ==
  \/ UndoScheme(s)
  \/ RedoScheme(s)
  \/ ArchiveScheme(s)
  \/ \E n \in NodeId : ActivateNode(s, n)
  \/ \E t \in SchemeId : CopyScheme(s, t)
  \/ \E n, m \in NodeId : n # m /\ ApplyGraphBatch(s, [x \in {n} |-> m], {}, FALSE)
  \/ s \in Movable /\ ApplyGraphBatch(s, <<>>, {}, TRUE)
  \/ \E n \in NodeId : s \in Movable /\ ApplyGraphBatch(s, <<>>, {n}, TRUE)

Edit ==
  \/ \E n \in NodeId : NodeRequest(n)
  \/ \E d \in NodeDrafts \cup SchemeDrafts : DraftRequest(d)
  \/ \E s \in SchemeId : SchemeRequest(s)
  \/ \E s \in SchemeId, n \in NodeId : PreviewDeactivation(s, n)
  \/ DeactivateNode

PrepareRun ==
  \/ \E s \in SchemeId : Preflight(s)
  \/ CreateRun

\* Bounds: so many events, and one run; what follows a run does not depend on it.
Next == run = Absent /\ ((Editable /\ Edit) \/ PrepareRun)

Spec == Init /\ [][Next]_vars

------------------------------------------------------------------------------
(* Properties. *)

\* The event wrote the status of its object: every event but a move does.
WritesStatus(e) ==
  e.before = Absent \/ e.after.sem # e.before.sem \/ e.kind \in {"undo", "redo"}

\* The status of s was last written by a validation of s against the nodes of that request.
StatusIsFresh(s) ==
  \E i \in EventId :
    /\ log[i].object = s /\ WritesStatus(log[i]) /\ log[i].kind \notin {"undo", "redo", "cascade"}
    /\ \A j \in i + 1 .. Len(log) : log[j].object = s => ~WritesStatus(log[j])

IsCurrent(s) == /\ Unresolved(Nodes, Scheme(s).explicit) = {}
                /\ Scheme(s).closure = Closure(Nodes, Scheme(s).explicit)

\* Every variable keeps its type; the objects keep their contracts.
TypeOK ==
  /\ \A o \in Object : Exists(o) =>
       /\ Current(o).content \in (IF o \in NodeId THEN NodeContent ELSE SchemeContent)
       /\ Current(o).sem \in Nat /\ Current(o).lay \in Nat
       /\ objects[o].head \in EventId /\ objects[o].redo \in EventId \cup {NoEvent}
  /\ held # Absent => held.kind \in {"impact", "report"}
  /\ run # Absent => DOMAIN run.nodes \subseteq NodeId

\* An active scheme that is shown as executable is: whatever was edited, undone or
\* archived since among the nodes, its closure is the one its explicit nodes have now and
\* holds no error. Excepted is a scheme whose status came back with its own undo or redo, and
\* one an archival left, until it is validated again: a move validates nothing.
ExecutableIsCurrent ==
  \A s \in Schemes :
    Scheme(s).life = "active" /\ Current(s).notes = {} /\ StatusIsFresh(s) =>
      /\ IsCurrent(s)
      /\ GraphErrors(Nodes, Scheme(s).closure) = {}

\* Scheme s when the step is done.
SchemeAfter(s) == objects'[s].value.content

\* The node whose archival is among the events of the step.
ArchivedBy(i) == log'[i].kind = "archive" /\ log'[i].object \in NodeId

\* Archiving a node takes it, and all that depends on it, out of every active scheme whose
\* closure was current, and takes nothing else out that other explicit nodes need.
ArchiveDeactivates ==
  [][\A i \in Len(log) + 1 .. Len(log') : ArchivedBy(i) =>
       \A s \in Schemes : Scheme(s).life = "active" /\ IsCurrent(s) =>
         LET n == log'[i].object
             gone == {n} \cup {m \in Scheme(s).closure : n \in Closure(Nodes, {m})}
         IN  SchemeAfter(s).closure = IF n \in Scheme(s).closure
                                  THEN Closure(Nodes, Scheme(s).explicit \ gone)
                                  ELSE Scheme(s).closure]_vars

\* A confirmed deactivation removes from the active closure what the expert was shown, no
\* more and no less, however the nodes changed since.
DeactivationAsPreviewed ==
  [][\A i \in Len(log) + 1 .. Len(log') : log'[i].kind = "deactivate" =>
       LET s == log'[i].object
       IN  Scheme(s).closure \ SchemeAfter(s).closure = held.shown]_vars

\* A run locks the contents that were validated when it was prepared.
RunAsPrepared ==
  run # Absent =>
    /\ run.scheme = held.reference.content
    /\ \A n \in DOMAIN run.nodes : run.nodes[n] = held.nodes[n].content

\* A run locks a graph that can be executed, also from a scheme whose status came back
\* with an undo: every parent is locked too, none is archived, and no table or recipe
\* lacks anything.
RunIsExecutable ==
  run # Absent =>
    /\ DOMAIN run.nodes = run.scheme.closure
    /\ ParentClosed(run.nodes, DOMAIN run.nodes)
    /\ run.scheme.outputs \subseteq DOMAIN run.nodes
    /\ GraphErrors(run.nodes, DOMAIN run.nodes) = {}

\* Nodes leave closures as the archival of a node implies and as the expert was shown, and
\* in no other way.
DeactivationIsExact == ArchiveDeactivates /\ DeactivationAsPreviewed

\* A run locks what was validated when it was prepared, and that can be executed.
RunLocksTheValidated == RunAsPrepared /\ RunIsExecutable

\* No active scheme has an archived node in its closure once model.node.archive answered.
ArchivedIsInactive ==
  [][\A i \in Len(log) + 1 .. Len(log') : ArchivedBy(i) =>
       \A s \in Schemes : Scheme(s).life = "active" => log'[i].object \notin SchemeAfter(s).closure]_vars
=============================================================================
