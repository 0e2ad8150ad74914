----------------------------- MODULE ContentStore -----------------------------
(***************************************************************************)
(* What a project promises of the content it manages: an artifact or a     *)
(* session revision appears whole, in one step, together with everything   *)
(* that refers to it, and no crash, failure or recovery takes it back.     *)
(***************************************************************************)
CONSTANTS Artifact, Holder, Revision, SessionName, Request, NamedSession(_),
          Nothing

VARIABLES stored,    \* artifacts that can be read
          bound,     \* [Holder -> artifact it holds, or Nothing]
          imported,  \* revisions that can be read
          current,   \* [SessionName -> current revision, or Nothing]
          receipts   \* [Request -> revision the request imported, or Nothing]

contents == <<stored, bound, imported, current, receipts>>

Init ==
  /\ stored = {} /\ imported = {}
  /\ bound = [h \in Holder |-> Nothing]
  /\ current = [s \in SessionName |-> Nothing]
  /\ receipts = [r \in Request |-> Nothing]

Store(a, h) ==
  /\ stored' = stored \union {a}
  /\ \/ h = Nothing /\ UNCHANGED bound
     \/ /\ h \in Holder
        /\ bound[h] \in {Nothing, a}
        /\ bound' = [bound EXCEPT ![h] = a]
  /\ UNCHANGED <<imported, current, receipts>>

Release(h) ==
  /\ bound' = [bound EXCEPT ![h] = Nothing]
  /\ h \notin imported
  /\ UNCHANGED <<stored, imported, current, receipts>>

\* A request imports once; its revision holds a report that can be read.
Import(r, v) ==
  /\ receipts[r] = Nothing
  /\ v \in stored
  /\ receipts' = [receipts EXCEPT ![r] = v]
  /\ imported' = imported \union {v}
  /\ bound' = [bound EXCEPT ![v] = v]
  /\ current' = [current EXCEPT ![NamedSession(v)] = v]
  /\ UNCHANGED stored

Next ==
  \/ \E a \in Artifact, h \in Holder \union {Nothing} : Store(a, h)
  \/ \E h \in Holder : Release(h)
  \/ \E r \in Request, v \in Revision : Import(r, v)

Spec == Init /\ [][Next]_contents
=============================================================================
