-------------------------------- MODULE Autosave --------------------------------
(******************************************************************************)
(* The autosave of the node windows (AutosaveCoordinator.cs,                   *)
(* CanonicalObjectStore.cs, NodeEditorWindow.xaml.cs). One model node is open  *)
(* in several windows, one per task scheme, and every window has a coordinator *)
(* of its own; the coordinators share the node's entry of the canonical store: *)
(* the canonical object last heard of and the gate that serialises its saves.  *)
(*                                                                             *)
(* Everything here runs on the UI thread, so a step goes from one await to the *)
(* next. An activity (a debounce, a flush, a retry, a reapply) is a task; an   *)
(* await of it that has been answered but not resumed is a state of its own,   *)
(* because other events of the window come between.                            *)
(*                                                                             *)
(* A revision of the node stands for the node: log[r] is the request that made *)
(* revision r, and revision 0 is the node as it was when it was opened.        *)
(* A draft is known by its generation.                                         *)
(******************************************************************************)
EXTENDS Integers, Sequences, SequencesExt

CONSTANTS
  Windows,   \* the windows open on the node
  MaxEdits,  \* bound: drafts queued by each window
  MaxAlone,  \* bound: activities started while this window alone is in use
  MaxTasks   \* bound: activities started when several windows are

ASSUME BoundsAssumption ==
  MaxEdits \in [Windows -> Nat] /\ MaxAlone \in [Windows -> Nat] /\ MaxTasks \in Nat

None == 0

VARIABLES
  form,       \* each window and its coordinator
  tasks,      \* the activities started, in order
  attempts,   \* the save attempts by transaction ID
  drains,     \* _drainGate of each window: its holder, then those that wait
  gate,       \* WriteGate of the node: its holder, then those that wait
  canonical,  \* Entry.Canonical
  wire,       \* requests on their way to the backend
  log         \* the backend's node: the requests that made its revisions

vars == <<form, tasks, attempts, drains, gate, canonical, wire, log>>

Phases == {"Saved", "Pending", "Saving", "OfflineRetry", "Conflict", "Blocked", "Stopped"}
Kinds  == {"debounce", "flush", "close", "retry", "reapply"}

NoDraft == 0
Unprepared == -1

TypeOK ==
  /\ form \in [Windows ->
       [phase : Phases, latest : Nat, generation : Nat,
        pending : BOOLEAN, retry : Nat, conflict : Nat, debounce : Nat,
        closing : BOOLEAN, disposed : BOOLEAN, wanted : Nat,
        shown : Nat, offered : Nat \cup {-1}, loading : BOOLEAN,
        banner : {"hidden", "offline", "conflict", "blocked"}]]
  /\ tasks \in Seq([window : Windows, kind : Kinds,
       pc : {"delay", "drain", "store", "sent", "answered", "dispose", "stop", "done"},
       tx : Nat, answer : {"none", "ok", "offline", "conflict", "blocked"}, cancelled : BOOLEAN])
  /\ attempts \in Seq([window : Windows, draft : Nat,
       prepared : Nat \cup {Unprepared}])
  /\ drains \in [Windows -> Seq(DOMAIN tasks)] /\ gate \in Seq(DOMAIN tasks)
  /\ wire \subseteq DOMAIN attempts /\ log \in Seq([tx : DOMAIN attempts, rev : Nat])
  /\ canonical \in 0..Len(log)

Fresh(w) ==
  [phase |-> "Saved", latest |-> NoDraft, generation |-> 0, pending |-> FALSE,
   retry |-> None, conflict |-> None, debounce |-> None, closing |-> FALSE,
   disposed |-> FALSE, wanted |-> 0, shown |-> 0, offered |-> -1, loading |-> FALSE,
   banner |-> "hidden"]

Init ==
  /\ form = [w \in Windows |-> Fresh(w)]
  /\ tasks = <<>> /\ attempts = <<>> /\ gate = <<>> /\ log = <<>>
  /\ drains = [w \in Windows |-> <<>>]
  /\ canonical = 0 /\ wire = {}

------------------------------------------------------------------------------
(* The window follows its coordinator until it is closed: the banner shows what the user can    *)
(* answer, and a conflict makes it load the graph. `offered` is the canonical object it would   *)
(* reload, `shown` the one its fields started from.                                             *)

Publish(c) ==
  IF c.closing THEN c
  ELSE CASE c.phase = "OfflineRetry" -> [c EXCEPT !.banner = "offline"]
         [] c.phase = "Conflict"     -> [c EXCEPT !.banner = "conflict", !.loading = TRUE]
         [] c.phase = "Blocked"      -> [c EXCEPT !.banner = "blocked"]
         [] OTHER                    -> [c EXCEPT !.banner = IF c.offered = -1 THEN "hidden" ELSE @]

InPhase(c, phase) == Publish([c EXCEPT !.phase = phase])

------------------------------------------------------------------------------
(* Tasks and the two gates. *)

Task(w, kind, pc) ==
  [window |-> w, kind |-> kind, pc |-> pc, tx |-> None, answer |-> "none", cancelled |-> FALSE]

Ended(task) == [task EXCEPT !.pc = "done", !.tx = None, !.answer = "none", !.cancelled = FALSE]

\* The holder of a gate is the head of its queue.
IsHead(t, queue) == queue # <<>> /\ Head(queue) = t

\* A queue that one of ts has left, if one of them is in it.
Without(queue, ts) ==
  LET places == {i \in DOMAIN queue : queue[i] \in ts}
  IN  IF places = {} THEN queue ELSE RemoveAt(queue, CHOOSE i \in places : TRUE)

\* What ends with a flush that a closing window waits for is the window.
Finished(task) ==
  IF task.kind = "close" THEN [Ended(task) EXCEPT !.pc = "dispose"] ELSE Ended(task)

\* A task that is answered, or at the head of the queue it waits in, has what it waits for.
Granted(t) ==
  \/ tasks[t].pc = "answered"
  \/ tasks[t].pc = "drain" /\ IsHead(t, drains[tasks[t].window])
  \/ tasks[t].pc = "store" /\ IsHead(t, gate)

\* The tasks among ts that are at an await which their token interrupts. Those that have what they
\* wait for go on, and find the token cancelled at their next await.
Interrupted(ts) ==
  {t \in ts : tasks[t].pc \in {"delay", "drain", "store", "sent"} /\ ~Granted(t)}

AfterCancel(ts) ==
  [t \in DOMAIN tasks |->
     IF t \in Interrupted(ts) THEN Ended(tasks[t])
     ELSE IF t \in ts /\ Granted(t) THEN [tasks[t] EXCEPT !.cancelled = TRUE]
     ELSE tasks[t]]

InDrain(t) == t \in Range(drains[tasks[t].window])

Debounced(w) == {form[w].debounce} \ {None}

\* A queued draft that no attempt has taken, with no answer of the user awaited.
TakingInPhase(c) == c.phase = "Pending" /\ c.latest # NoDraft

Taking(c) == c.pending /\ c.latest # NoDraft /\ c.retry = None /\ c.conflict = None

\* SerializeSaveAsync up to its await: the attempt is prepared by the holder of the gate, once,
\* on the canonical object of that moment.
PreparedAnew(a) == [a EXCEPT !.prepared = canonical']

Prepared(a) ==
  IF a.prepared # Unprepared THEN a ELSE [a EXCEPT !.prepared = canonical']

\* The attempt x of task t reaches the gate, whose queue is g by then.
Save(t, x, made, g) ==
  /\ gate' = Append(g, t)
  /\ IF g = <<>>
     THEN /\ attempts' = [made EXCEPT ![x] = Prepared(made[x])]
          /\ wire' = wire \cup {x}
     ELSE attempts' = made /\ UNCHANGED wire

SavePc(g) == IF g = <<>> THEN "sent" ELSE "store"

\* DrainAsync with the drain gate in hand: take the draft as a new attempt, or give the gate
\* back. By then c is the coordinator, d the queue of its drain gate and g that of the write
\* gate. A cancelled task takes the draft, and then its wait for the write gate throws.
DrainLoop(t, c, d, g) ==
  LET w  == tasks[t].window
      x  == Len(attempts) + 1
      begun == InPhase([c EXCEPT !.pending = FALSE], "Saving")
      made == Append(attempts, [window |-> w, draft |-> c.latest, prepared |-> Unprepared])
  IN  \/ /\ Taking(c) /\ ~tasks[t].cancelled
         /\ form' = [form EXCEPT ![w] = begun]
         /\ tasks' = [tasks EXCEPT ![t].pc = SavePc(g), ![t].tx = x, ![t].answer = "none"]
         /\ Save(t, x, made, g)
         /\ drains' = [drains EXCEPT ![w] = d]
      \/ /\ Taking(c) /\ tasks[t].cancelled
         /\ form' = [form EXCEPT ![w] = begun]
         /\ attempts' = made
         /\ tasks' = [tasks EXCEPT ![t] = Finished(@)]
         /\ drains' = [drains EXCEPT ![w] = Without(d, {t})]
         /\ gate' = g /\ UNCHANGED wire
      \/ /\ ~Taking(c)
         /\ form' = [form EXCEPT ![w] = c]
         /\ tasks' = [tasks EXCEPT ![t] = Finished(@)]
         /\ drains' = [drains EXCEPT ![w] = Without(d, {t})]
         /\ gate' = g /\ UNCHANGED <<attempts, wire>>

------------------------------------------------------------------------------
(* What the user does. *)

Open(w) == ~form[w].closing
CanStart(w) ==
  Len(tasks) < IF \A t \in DOMAIN tasks : tasks[t].window = w THEN MaxAlone[w] ELSE MaxTasks

\* Queue: the newest draft replaces an older one. Unless a failed save waits for the user, the
\* debounce starts again, and what the last one was doing is cancelled, a save included.
QueueEdit(w) ==
  LET c == form[w]
      typed == [c EXCEPT !.latest = c.generation + 1,
                         !.generation = @ + 1, !.pending = TRUE,
                         !.wanted = c.generation + 1]
  IN  /\ Open(w) /\ c.generation < MaxEdits[w]
      /\ \/ /\ c.retry = None /\ c.conflict = None /\ CanStart(w)
            /\ form' = [form EXCEPT ![w] =
                  InPhase([typed EXCEPT !.debounce = Len(tasks) + 1], "Pending")]
            /\ tasks' = Append(AfterCancel(Debounced(w)), Task(w, "debounce", "delay"))
            /\ drains' = [drains EXCEPT ![w] = Without(@, Interrupted(Debounced(w)))]
            /\ gate' = Without(gate, Interrupted(Debounced(w)))
         \/ /\ c.retry # None \/ c.conflict # None
            /\ form' = [form EXCEPT ![w] = Publish(typed)]
            /\ UNCHANGED <<tasks, drains, gate>>
      /\ UNCHANGED <<attempts, canonical, wire, log>>

\* FlushAsync: the debounce is cancelled, whatever it is doing, and what is pending is saved.
Flush(w, kind) ==
  /\ form' = [form EXCEPT ![w].debounce = None, ![w].closing = @ \/ kind = "close"]
  /\ tasks' = Append(AfterCancel(Debounced(w)), Task(w, kind, "drain"))
  /\ drains' = [drains EXCEPT ![w] =
        Append(Without(@, Interrupted(Debounced(w))), Len(tasks) + 1)]
  /\ gate' = Without(gate, Interrupted(Debounced(w)))
  /\ UNCHANGED <<attempts, canonical, wire, log>>

FlushAll(w) == Open(w) /\ CanStart(w) /\ Flush(w, "flush")

\* OnClosed: the window leaves its coordinator's events, flushes it and disposes of it.
Close(w) == Open(w) /\ CanStart(w) /\ Flush(w, "close")

\* RetryAsync: the attempt that found no backend goes to the gate again, outside the drain.
Retry(w) ==
  LET t == Len(tasks) + 1
      x == form[w].retry
  IN  /\ Open(w) /\ CanStart(w) /\ x # None /\ form[w].banner = "offline"
      /\ tasks' = Append(tasks, [Task(w, "retry", SavePc(gate)) EXCEPT !.tx = x])
      /\ form' = [form EXCEPT ![w] = InPhase(@, "Saving")]
      /\ UNCHANGED <<drains, canonical, log>>
      /\ Save(t, x, attempts, gate)

\* OnReloadCanonicalRequested and ReloadConflict: the local edits are given up.
Reload(w) ==
  /\ Open(w) /\ form[w].offered >= 0 /\ form[w].banner = "conflict"
  /\ canonical' = form[w].offered
  /\ form' = [form EXCEPT ![w] =
        [@ EXCEPT !.latest = NoDraft, !.pending = FALSE, !.retry = None, !.conflict = None,
                  !.phase = "Saved", !.shown = form[w].offered, !.offered = -1,
                  !.banner = "hidden", !.wanted = 0]]
  /\ UNCHANGED <<tasks, attempts, drains, gate, wire, log>>

\* OnReapplyCanonicalRequested and ReapplyConflictAsync: the newest draft is queued against the
\* object on offer. With no draft left it fails after it has accepted that object.
Reapply(w) ==
  LET c == form[w]
      seen == [c EXCEPT !.shown = c.offered, !.offered = -1]
      draft == IF c.latest # NoDraft \/ c.conflict = None THEN c.latest
               ELSE attempts[c.conflict].draft
  IN  /\ Open(w) /\ c.offered >= 0 /\ c.banner = "conflict" /\ CanStart(w)
      /\ canonical' = c.offered
      /\ \/ /\ draft = NoDraft
            /\ form' = [form EXCEPT ![w] = [seen EXCEPT !.banner = "blocked"]]
            /\ UNCHANGED <<tasks, drains>>
         \/ /\ draft # NoDraft
            /\ form' = [form EXCEPT ![w] =
                  InPhase([seen EXCEPT !.latest = draft, !.pending = TRUE, !.retry = None,
                                       !.conflict = None], "Pending")]
            /\ tasks' = Append(tasks, Task(w, "reapply", "drain"))
            /\ drains' = [drains EXCEPT ![w] = Append(@, Len(tasks) + 1)]
      /\ UNCHANGED <<attempts, gate, wire, log>>

------------------------------------------------------------------------------
(* What the tasks do. *)

\* The debounce has run out: drain, or wait for the drain gate.
Fire(t) ==
  LET w == tasks[t].window
  IN  /\ tasks[t].pc = "delay"
      /\ UNCHANGED <<canonical, log>>
      /\ \/ drains[w] = <<>> /\ DrainLoop(t, form[w], <<t>>, gate)
         \/ /\ drains[w] # <<>>
            /\ tasks' = [tasks EXCEPT ![t].pc = "drain"]
            /\ drains' = [drains EXCEPT ![w] = Append(@, t)]
            /\ UNCHANGED <<form, attempts, gate, wire>>

DrainGranted(t) ==
  LET w == tasks[t].window
  IN  /\ tasks[t].pc = "drain" /\ IsHead(t, drains[w])
      /\ UNCHANGED <<canonical, log>>
      /\ DrainLoop(t, form[w], drains[w], gate)

\* The attempt is prepared. The call looks at the token before it sends: of a cancelled task
\* nothing is sent, and both gates are given back.
StoreGranted(t) ==
  LET w == tasks[t].window
      x == tasks[t].tx
  IN  /\ tasks[t].pc = "store" /\ IsHead(t, gate)
      /\ UNCHANGED <<form, canonical, log>>
      /\ attempts' = [attempts EXCEPT ![x] = Prepared(@)]
      /\ \/ /\ ~tasks[t].cancelled
            /\ wire' = wire \cup {x}
            /\ tasks' = [tasks EXCEPT ![t].pc = "sent"]
            /\ UNCHANGED <<drains, gate>>
         \/ /\ tasks[t].cancelled
            /\ tasks' = [tasks EXCEPT ![t] = Finished(@)]
            /\ drains' = [drains EXCEPT ![w] = Without(@, {t})]
            /\ gate' = Tail(gate)
            /\ UNCHANGED wire

\* ExecuteAttemptAsync after a success: the canonical object is the answer, and the draft is
\* dropped unless a newer one waits.
SucceededForgetting(c, rev) ==
  InPhase([c EXCEPT !.retry = None, !.conflict = None, !.latest = NoDraft, !.pending = FALSE,
                    !.shown = IF c.closing THEN @ ELSE rev,
                    !.offered = IF c.closing THEN @ ELSE -1], "Saved")

Succeeded(c, rev) ==
  LET saved == [c EXCEPT !.retry = None, !.conflict = None,
                         !.latest = IF c.pending THEN @ ELSE NoDraft,
                         !.shown = IF c.closing THEN @ ELSE rev,
                         !.offered = IF c.closing THEN @ ELSE -1]
  IN  InPhase(saved, IF c.pending THEN "Pending" ELSE "Saved")

\* ... and after a failure: the draft comes back unless a newer one waits, and the attempt is
\* kept for the answer the user has to give.
FailurePhase == [offline |-> "OfflineRetry", conflict |-> "Conflict", blocked |-> "Blocked"]

Failed(c, x, answer) ==
  LET back == [c EXCEPT !.latest = IF c.pending THEN @ ELSE attempts[x].draft,
                        !.retry = IF answer = "offline" THEN x ELSE @,
                        !.conflict = IF answer = "conflict" THEN x ELSE @]
  IN  InPhase(back, FailurePhase[answer])

Resulting(x) == CHOOSE r \in DOMAIN log : log[r].tx = x

CompleteSuccess(t) ==
  LET w == tasks[t].window
      rev == Resulting(tasks[t].tx)
      c == Succeeded(form[w], rev)
  IN  /\ tasks[t].pc = "answered" /\ tasks[t].answer = "ok"
      /\ canonical' = rev /\ UNCHANGED log
      /\ \/ InDrain(t) /\ DrainLoop(t, c, drains[w], Tail(gate))
         \/ /\ ~InDrain(t)
            /\ form' = [form EXCEPT ![w] = c] /\ gate' = Tail(gate)
            /\ tasks' = [tasks EXCEPT ![t] =
                  IF c.disposed THEN Ended(@)
                  ELSE [@ EXCEPT !.pc = "drain", !.tx = None, !.answer = "none"]]
            /\ drains' = IF c.disposed THEN drains ELSE [drains EXCEPT ![w] = Append(@, t)]
            /\ UNCHANGED <<attempts, wire>>

CompleteFailure(t) ==
  LET w == tasks[t].window
  IN  /\ tasks[t].pc = "answered" /\ tasks[t].answer # "ok"
      /\ form' = [form EXCEPT ![w] = Failed(@, tasks[t].tx, tasks[t].answer)]
      /\ gate' = Tail(gate)
      /\ drains' = [drains EXCEPT ![w] = Without(@, {t})]
      /\ tasks' = [tasks EXCEPT ![t] = Finished(@)]
      /\ UNCHANGED <<attempts, canonical, wire, log>>

\* FlushAndDisposeAutosaveAsync and DisposeAsync: every task of the window that is linked to its
\* lifetime is cancelled; a retry is not. Of the drain gate's queue remains a holder that has
\* what it waits for.
Dispose(t) ==
  LET w == tasks[t].window
      linked == {u \in DOMAIN tasks : tasks[u].window = w /\ tasks[u].pc # "dispose"
                    /\ (tasks[u].pc = "delay" \/ InDrain(u))}
  IN  /\ tasks[t].pc = "dispose"
      /\ form' = [form EXCEPT ![w].disposed = TRUE]
      /\ tasks' = [AfterCancel(linked) EXCEPT ![t].pc = "stop"]
      /\ drains' = [drains EXCEPT ![w] =
            IF @ # <<>> /\ Head(@) \notin Interrupted(linked) THEN <<Head(@)>> ELSE <<>>]
      /\ gate' = Without(gate, Interrupted(linked))
      /\ UNCHANGED <<attempts, canonical, wire, log>>

Stop(t) ==
  LET w == tasks[t].window
  IN  /\ tasks[t].pc = "stop" /\ drains[w] = <<>>
      /\ form' = [form EXCEPT ![w].phase = "Stopped"]
      /\ tasks' = [tasks EXCEPT ![t] = Ended(@)]
      /\ UNCHANGED <<attempts, drains, gate, canonical, wire, log>>

------------------------------------------------------------------------------
(* The backend, the connection, and the graph as the windows hear of it. *)

Waiting(x) == {t \in DOMAIN tasks : tasks[t].pc = "sent" /\ tasks[t].tx = x}

Answered(x, answer) ==
  [t \in DOMAIN tasks |->
     IF t \in Waiting(x) THEN [tasks[t] EXCEPT !.pc = "answered", !.answer = answer] ELSE tasks[t]]

Request(x) == [tx |-> x, rev |-> attempts[x].prepared]
Applied(x) == \E r \in DOMAIN log : log[r].tx = x

\* A request is applied to the revision it was prepared on and to no other.
AppliesAnywhere(x) == attempts[x].prepared # Unprepared

Applies(x) == attempts[x].prepared = Len(log)

\* A transaction is applied once: the same request again gets its answer, another request under
\* its ID is refused. The contract may refuse a new request.
Answers(x) ==
  CASE Applied(x)                -> {IF Request(x) \in Range(log) THEN "ok" ELSE "blocked"}
    [] ~Applied(x) /\ Applies(x) -> {"ok", "blocked"}
    [] OTHER                     -> {"conflict"}

\* The answer reaches the task that waits for it, if one still does and the connection holds.
Serve(x) ==
  /\ x \in wire /\ wire' = wire \ {x}
  /\ \E answer \in Answers(x) :
       /\ log' = IF answer = "ok" /\ ~Applied(x) THEN Append(log, Request(x)) ELSE log
       /\ \/ tasks' = Answered(x, answer)
          \/ Waiting(x) # {} /\ tasks' = Answered(x, "offline")
  /\ UNCHANGED <<form, attempts, drains, gate, canonical>>

\* The connection breaks before the backend has seen the request.
Lose(x) ==
  /\ x \in wire /\ wire' = wire \ {x}
  /\ tasks' = Answered(x, "offline")
  /\ UNCHANGED <<form, attempts, drains, gate, canonical, log>>

Unsaved(c) == c.offered >= 0 \/ c.phase \notin {"Saved", "Stopped"}

\* ReconcileCanonicalNode: the canvas has loaded the graph again.
Reconcile(w) ==
  LET c == form[w]
  IN  /\ Open(w) /\ c.offered # Len(log)
      /\ c.shown # Len(log) \/ canonical # Len(log)
      /\ canonical' = Len(log)
      /\ form' = [form EXCEPT ![w] =
            IF c.shown # Len(log) /\ Unsaved(c)
            THEN [c EXCEPT !.offered = Len(log), !.banner = "conflict"]
            ELSE [c EXCEPT !.shown = Len(log), !.offered = -1, !.banner = "hidden"]]
      /\ UNCHANGED <<tasks, attempts, drains, gate, wire, log>>

\* LoadConflictCanonicalAsync, which fails when there is no connection.
LoadConflict(w) ==
  /\ form[w].loading
  /\ \/ /\ canonical' = Len(log)
        /\ form' = [form EXCEPT ![w].loading = FALSE, ![w].offered = Len(log),
                            ![w].banner = "conflict"]
     \/ /\ form' = [form EXCEPT ![w].loading = FALSE, ![w].banner = "blocked"]
        /\ UNCHANGED canonical
  /\ UNCHANGED <<tasks, attempts, drains, gate, wire, log>>

User(w) ==
  QueueEdit(w) \/ FlushAll(w) \/ Close(w) \/ Retry(w) \/ Reload(w) \/ Reapply(w)

Advance(t) ==
  \/ Fire(t) \/ DrainGranted(t) \/ StoreGranted(t) \/ CompleteSuccess(t) \/ CompleteFailure(t)
  \/ Dispose(t) \/ Stop(t)

Next ==
  \/ \E w \in Windows : User(w) \/ Reconcile(w) \/ LoadConflict(w)
  \/ \E t \in DOMAIN tasks : Advance(t)
  \/ \E x \in wire : Serve(x) \/ Lose(x)

TaskId == 1..Max({MaxTasks} \cup Range(MaxAlone))

Fairness ==
  /\ \A t \in TaskId : WF_vars(t \in DOMAIN tasks /\ Advance(t))
  /\ WF_vars(\E x \in wire : Serve(x) \/ Lose(x))

Spec == Init /\ [][Next]_vars /\ Fairness

------------------------------------------------------------------------------
(* What must hold. `wanted` is a history variable: the generation of the newest draft of the   *)
(* window, or 0 when the user has chosen to reload since.                                      *)

By(w) == {r \in DOMAIN log : attempts[log[r].tx].window = w}

NewestSaved(w) ==
  form[w].wanted = 0 \/ \E r \in By(w) : attempts[log[r].tx].draft = form[w].wanted

Retried(w) == \E t \in DOMAIN tasks : tasks[t].window = w /\ tasks[t].kind = "retry"

\* A window that says "Saved", and in which no save had to be retried, has its newest draft in
\* the backend, unless the user has chosen the canonical object instead. A save whose answer
\* nobody waited for is no exception: its window does not say "Saved" again before a later save.
SavedIsSaved ==
  \A w \in Windows : form[w].phase = "Saved" /\ ~Retried(w) => NewestSaved(w)

\* A save that was given up, or is repeated, is never applied after a later save of its window.
SavesStayInOrder ==
  \A w \in Windows : \A i, j \in By(w) : i < j => log[i].tx < log[j].tx

\* A save that the backend has applied is never reported to its window as refused.
AppliedIsNeverRefused ==
  \A t \in DOMAIN tasks :
    tasks[t].pc = "answered" /\ Applied(tasks[t].tx) => tasks[t].answer \in {"ok", "offline"}

\* A save that is repeated is neither applied late nor taken for a refused one.
SavesAreRepeatable == SavesStayInOrder /\ AppliedIsNeverRefused

\* A queued draft is taken up, unless the user is asked or closes the window.
EveryEditIsTaken ==
  \A w \in Windows : form[w].pending ~>
    (~form[w].pending \/ form[w].retry # None \/ form[w].conflict # None \/ form[w].closing)

=============================================================================
