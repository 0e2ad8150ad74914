---------------------------- MODULE ObjectHistory ----------------------------
(* The rows and change events of the current model workspace: every node and  *)
(* task scheme is one row, with a semantic and a layout revision and two      *)
(* cursors into the log of change events, head for undo and redo for redo.    *)
(* A write of one object is one event; Commit applies the events of one       *)
(* request, which are one transaction.                                        *)
(*                                                                            *)
(* An event is named by its place in the log, as its row is by its event_id.  *)
(* What a value means is left to the modules that extend this one: content is *)
(* what the semantic hash covers (the lifecycle included), notes stand for    *)
(* technical_status and diagnostics, which no hash covers.                    *)
EXTENDS Naturals, Sequences

CONSTANTS
  Object,      \* node and scheme identifiers
  Absent       \* no row, or no snapshot in an event

VARIABLES
  objects,     \* Object -> [value, head, redo], or Absent
  log          \* the change events in the order of their insertion
historyVars == <<objects, log>>

\* No event: NULL in head_event_id, redo_event_id or parent_event_id.
NoEvent == 0

Exists(o) == objects[o] # Absent
Current(o) == objects[o].value

------------------------------------------------------------------------------
(* Values. *)

\* A new object starts at revision zero in both channels.
Fresh(p) ==
  [content |-> p.content, notes |-> p.notes, layout |-> p.layout, sem |-> 0, lay |-> 0]

Bump(n, changed) == IF changed THEN n + 1 ELSE n

\* A bug to detect: a layout update writes the whole proposal back.
MergedWhole(v, p, semantic, layout) ==
  [content |-> p.content, notes |-> p.notes, layout |-> p.layout,
   sem |-> Bump(v.sem, semantic), lay |-> Bump(v.lay, layout)]

\* Each channel an update names takes its fields from the proposal and moves its
\* revision; the other keeps the fields of the row, however old the proposal is.
Merged(v, p, semantic, layout) ==
  [content |-> IF semantic THEN p.content ELSE v.content,
   notes   |-> IF semantic THEN p.notes ELSE v.notes,
   layout  |-> IF layout THEN p.layout ELSE v.layout,
   sem     |-> Bump(v.sem, semantic),
   lay     |-> Bump(v.lay, layout)]

\* A bug to detect: undo and redo put the revisions of the snapshot back as well.
RestoredWithRevisions(v, t) == t

\* A cursor move puts an old snapshot back under new revisions, so that a revision
\* never stands for two contents; a channel that does not change keeps its number.
Restored(v, t) ==
  [content |-> t.content, notes |-> t.notes, layout |-> t.layout,
   sem     |-> Bump(v.sem, t.content # v.content),
   lay     |-> Bump(v.lay, t.layout # v.layout)]

------------------------------------------------------------------------------
(* Events. source is the event a cursor event moves over, pending the redo    *)
(* cursor it leaves for later; both are metadata of the event's diff.         *)

Event(o, kind, parent, before, after, source, pending, actor) ==
  [object |-> o, kind |-> kind, parent |-> parent, before |-> before, after |-> after,
   source |-> source, pending |-> pending, actor |-> actor]

Creation(o, p, actor) == Event(o, "create", NoEvent, Absent, Fresh(p), NoEvent, NoEvent, actor)

Change(o, kind, p, semantic, layout, actor) ==
  Event(o, kind, objects[o].head, Current(o), Merged(Current(o), p, semantic, layout),
        NoEvent, NoEvent, actor)

UndoSource(o) == objects[o].head
RedoSource(o) == log[objects[o].redo].source

CanUndo(o) == UndoSource(o) # NoEvent /\ log[UndoSource(o)].before # Absent
CanRedo(o) == objects[o].redo # NoEvent

UndoOf(o, actor) ==
  Event(o, "undo", objects[o].head, Current(o), Restored(Current(o), log[UndoSource(o)].before),
        UndoSource(o), objects[o].redo, actor)

RedoOf(o, actor) ==
  Event(o, "redo", objects[o].head, Current(o), Restored(Current(o), log[RedoSource(o)].after),
        RedoSource(o), NoEvent, actor)

\* Undo steps back to the parent of the event it undid, redo forward to the event it
\* redid; any other event becomes the head itself.
HeadAfter(e, id) ==
  CASE e.kind = "undo" -> log[e.source].parent
    [] e.kind = "redo" -> e.source
    [] OTHER -> id

\* A bug to detect: redo does not advance its cursor.
RedoAfterRepeating(e, id) ==
  CASE e.kind = "undo" -> id
    [] e.kind = "redo" -> objects[e.object].redo
    [] OTHER -> NoEvent

\* An undo is what the next redo follows, a redo goes on to the redo that was pending
\* when its event was undone, and any other change ends what can be redone.
RedoAfter(e, id) ==
  CASE e.kind = "undo" -> id
    [] e.kind = "redo" -> log[objects[e.object].redo].pending
    [] OTHER -> NoEvent

\* One transaction: its events are appended and the rows they are about rewritten. No
\* request writes one object twice.
Commit(events) ==
  /\ log' = log \o events
  /\ objects' = [o \in Object |->
       IF \E i \in DOMAIN events : events[i].object = o
       THEN LET i == CHOOSE i \in DOMAIN events : events[i].object = o
                id == Len(log) + i
            IN  [value |-> events[i].after,
                 head  |-> HeadAfter(events[i], id),
                 redo  |-> RedoAfter(events[i], id)]
       ELSE objects[o]]

------------------------------------------------------------------------------
(* What the rows and the log owe each other. *)

EventId == 1..Len(log)

\* For every object, two snapshots with one semantic revision have one content, and two
\* with one layout revision one layout: a revision a client compares names what it saw.
RevisionNamesContent ==
  \A i, j \in EventId :
    log[i].object = log[j].object =>
      /\ log[i].after.sem = log[j].after.sem => log[i].after.content = log[j].after.content
      /\ log[i].after.lay = log[j].after.lay => log[i].after.layout = log[j].after.layout

Same(v, w) == v.content = w.content /\ v.layout = w.layout /\ v.notes = w.notes

\* The row shows what its head event left, and the redo cursor is an undo of that
\* object whose event follows the head: undo and redo never skip or repeat a change.
CursorsAreSound ==
  \A o \in Object : Exists(o) =>
    LET head == objects[o].head
        redo == objects[o].redo
    IN  /\ head \in EventId /\ log[head].object = o /\ Same(log[head].after, Current(o))
        /\ redo # NoEvent =>
             /\ redo \in EventId /\ log[redo].object = o /\ log[redo].kind = "undo"
             /\ log[log[redo].source].parent = head
==============================================================================
