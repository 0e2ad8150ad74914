---------------------------- MODULE EditTimeline ----------------------------
(* What undo and redo of an object promise, without revisions, events or     *)
(* cursors: every object has a past, whose last element is what it shows,    *)
(* and a future that undo fills, redo consumes and an edit discards. An      *)
(* object may begin another life, which takes nothing over.                  *)
EXTENDS Naturals, Sequences

CONSTANT Object

VARIABLES
  past,        \* Object -> the sequence of what it showed
  future,
  life         \* Object -> what tells its lives apart
vars == <<past, future, life>>

Init ==
  /\ past = [o \in Object |-> <<>>]
  /\ future = [o \in Object |-> <<>>]

Move(o, p, f) ==
  /\ past' = [past EXCEPT ![o] = p]
  /\ future' = [future EXCEPT ![o] = f]

\* The object comes into being, or is changed: there is nothing left to redo.
Show(o) ==
  /\ past'[o] # <<>>
  /\ Move(o, Append(past[o], past'[o][Len(past'[o])]), <<>>)
  /\ UNCHANGED life

\* Creation itself cannot be undone.
Undo(o) ==
  LET p == past[o]
      n == Len(p)
  IN  n > 1 /\ Move(o, SubSeq(p, 1, n - 1), <<p[n]>> \o future[o]) /\ UNCHANGED life

Redo(o) ==
  LET f == future[o]
  IN  f # <<>> /\ Move(o, Append(past[o], Head(f)), Tail(f)) /\ UNCHANGED life

\* The object is gone, or shows something that nothing precedes.
Restart(o) ==
  /\ life'[o] # life[o]
  /\ Len(past'[o]) <= 1
  /\ Move(o, past'[o], <<>>)
  /\ life' = [life EXCEPT ![o] = life'[o]]

Next == \E o \in Object : Undo(o) \/ Redo(o) \/ Show(o) \/ Restart(o)

Spec == Init /\ [][Next]_vars
=============================================================================
