---------------------------- MODULE ModelHistory ----------------------------
(* Clients that read, edit, undo and redo current objects: the revision check *)
(* and the two channels of the repository, with clients that may hold an old  *)
(* copy of an object while another one changes it.                            *)
EXTENDS ObjectHistory

CONSTANTS
  Client,      \* windows and tools that edit the library
  Content,     \* contents of an object
  Layout,      \* its positions
  Notes,       \* technical status and diagnostics
  Proposal,    \* what clients propose an object to be
  MaxEvents    \* bound on the length of the log

ASSUME ProposalAssumption == Proposal \subseteq [content : Content, notes : Notes, layout : Layout]

VARIABLE held  \* Client -> Object -> the copy last answered to that client, or Absent
vars == <<historyVars, held>>

Value == [content : Content, notes : Notes, layout : Layout, sem : Nat, lay : Nat]

Init ==
  /\ objects = [o \in Object |-> Absent]
  /\ log = <<>>
  /\ held = [c \in Client |-> [o \in Object |-> Absent]]

Answered(c, o, v) == held' = [held EXCEPT ![c][o] = v]

Writable == Len(log) < MaxEvents

\* A copy that no write the bound permits could use is not fetched.
Fetch(c, o) ==
  /\ Exists(o)
  /\ Writable
  /\ Answered(c, o, Current(o))
  /\ UNCHANGED historyVars

Create(c, o, p) ==
  /\ ~Exists(o)
  /\ Writable
  /\ Commit(<<Creation(o, p, c)>>)
  /\ Answered(c, o, Fresh(p))

\* The revisions a request expects are those of the copy the client holds. An update
\* names one channel or both, and only those are compared.
Expected(c, o, semantic, layout) ==
  /\ held[c][o] # Absent
  /\ semantic => held[c][o].sem = Current(o).sem
  /\ layout => held[c][o].lay = Current(o).lay

Update(c, o, p, semantic, layout) ==
  /\ Exists(o)
  /\ Writable
  /\ semantic \/ layout
  /\ Expected(c, o, semantic, layout)
  /\ Commit(<<Change(o, "update", p, semantic, layout, c)>>)
  /\ Answered(c, o, Merged(Current(o), p, semantic, layout))

\* Undo and redo require both revisions.
Undo(c, o) ==
  /\ Exists(o)
  /\ Writable
  /\ Expected(c, o, TRUE, TRUE)
  /\ CanUndo(o)
  /\ Commit(<<UndoOf(o, c)>>)
  /\ Answered(c, o, UndoOf(o, c).after)

Redo(c, o) ==
  /\ Exists(o)
  /\ Writable
  /\ Expected(c, o, TRUE, TRUE)
  /\ CanRedo(o)
  /\ Commit(<<RedoOf(o, c)>>)
  /\ Answered(c, o, RedoOf(o, c).after)

Next ==
  \E c \in Client, o \in Object :
    \/ Fetch(c, o)
    \/ Undo(c, o)
    \/ Redo(c, o)
    \/ \E p \in Proposal :
         \/ Create(c, o, p)
         \/ \E semantic, layout \in BOOLEAN : Update(c, o, p, semantic, layout)

Spec == Init /\ [][Next]_vars

------------------------------------------------------------------------------
(* Properties. *)

Row == [value : Value, head : Nat, redo : Nat]
EventRecord ==
  [object : Object, kind : {"create", "update", "undo", "redo"}, parent : Nat,
   before : Value \cup {Absent}, after : Value, source : Nat, pending : Nat, actor : Client]

ASSUME AbsentAssumption == Absent \notin Value \cup Row \cup EventRecord

\* Every variable keeps its type, and events refer to earlier ones only.
TypeOK ==
  /\ objects \in [Object -> Row \cup {Absent}]
  /\ \A o \in Object : Exists(o) => objects[o].head \in EventId /\ objects[o].redo \in EventId \cup {NoEvent}
  /\ log \in Seq(EventRecord)
  /\ \A i \in EventId : log[i].parent < i /\ log[i].source < i /\ log[i].pending < i
  /\ held \in [Client -> [Object -> Value \cup {Absent}]]

\* A client that changes the content or the layout of an object had seen the content, or
\* the layout, that it replaces: no edit, undo or redo is lost under another one made
\* from an older copy, and moving a node never takes an edit of its meaning back.
EditsAreInformed ==
  [][\A i \in Len(log) + 1 .. Len(log') :
       LET e == log'[i]
           seen == held[e.actor][e.object]
       IN  e.kind # "create" =>
             /\ e.after.content # e.before.content => seen.content = e.before.content
             /\ e.after.layout # e.before.layout => seen.layout = e.before.layout]_vars

Text(e) == <<e.after.content, e.after.layout>>

\* What the parents of an event show, and it itself, oldest first.
Back(events) ==
  LET back[i \in 0..Len(events)] ==
        IF i = NoEvent THEN <<>> ELSE Append(back[events[i].parent], Text(events[i]))
  IN  back

\* What redo would bring back from an undo on, in the order it would.
Ahead(events) ==
  LET ahead[i \in 0..Len(events)] ==
        IF i = NoEvent \/ events[i].source = NoEvent THEN <<>>
        ELSE <<Text(events[events[i].source])>> \o ahead[events[i].pending]
  IN  ahead

Past(o) == IF Exists(o) THEN Back(log)[objects[o].head] ELSE <<>>
Future(o) == IF Exists(o) THEN Ahead(log)[objects[o].redo] ELSE <<>>

\* The objects are an EditTimeline: their cursors into the shared log behave as a past
\* and a future of their own, whatever other objects and clients do in between.
Timeline == INSTANCE EditTimeline
              WITH past <- [o \in Object |-> Past(o)], future <- [o \in Object |-> Future(o)],
                   life <- [o \in Object |-> 0]
ImplementsTimeline == Timeline!Spec
==============================================================================
