--------------------------- MODULE Autosave_proofs ---------------------------
(* SavesAreRepeatable and SavedIsSaved for any windows, edits and activities,  *)
(* however the backend answers and whatever of the wire is lost.               *)
(*                                                                             *)
(* The first rests on where a save is made and where it is prepared (Delivery):*)
(* only the holder of a drain gate makes one, only the holder of the write     *)
(* gate prepares one, and both keep their gate as long as somebody waits for   *)
(* the answer. The second adds what a coordinator has in hand (Drafts).        *)
EXTENDS Autosave, SequenceTheorems, TLAPS

Coordinators ==
  [phase : Phases, latest : Nat, generation : Nat, pending : BOOLEAN, retry : Nat, conflict : Nat,
   debounce : Nat, closing : BOOLEAN, disposed : BOOLEAN, wanted : Nat, shown : Nat,
   offered : Nat \cup {-1}, loading : BOOLEAN, banner : {"hidden", "offline", "conflict", "blocked"}]

Waits == {"store", "sent", "answered"}
TaskPcs == {"delay", "drain", "dispose", "stop", "done"} \cup Waits
Tasks == [window : Windows, kind : Kinds, pc : TaskPcs, tx : Nat,
          answer : {"none", "ok", "offline", "conflict", "blocked"}, cancelled : BOOLEAN]
Attempts == [window : Windows, draft : Nat, prepared : Nat \cup {Unprepared}]
Requests == [tx : Nat, rev : Nat]

AutosaveTyped ==
  /\ form \in [Windows -> Coordinators]
  /\ tasks \in Seq(Tasks) /\ attempts \in Seq(Attempts) /\ log \in Seq(Requests)
  /\ drains \in [Windows -> Seq(Nat)] /\ gate \in Seq(Nat)
  /\ \A w \in Windows : Range(drains[w]) \subseteq DOMAIN tasks
  /\ wire \subseteq DOMAIN attempts
  /\ canonical \in 0 .. Len(log)
  /\ \A w \in Windows : form[w].offered <= Len(log)

\* A task that waits for a save, from the write gate on.
Flying(t) == tasks[t].pc \in Waits

\* What such a task holds: its attempt, the drain gate under which the attempt was made, unless a
\* retry brought it, and the write gate once the attempt is prepared and sent. An attempt that
\* has not been prepared is the last of its window.
FlightSound(t) ==
  LET w == tasks[t].window
      x == tasks[t].tx
  IN  /\ x \in DOMAIN attempts /\ attempts[x].window = w
      /\ tasks[t].pc # "store" => IsHead(t, gate) /\ attempts[x].prepared # Unprepared
      /\ InDrain(t) => IsHead(t, drains[w])
      /\ ~InDrain(t) => tasks[t].kind = "retry" /\ attempts[x].prepared # Unprepared
      /\ attempts[x].prepared = Unprepared =>
           \A y \in DOMAIN attempts : attempts[y].window = w => y <= x

\* What an answer says of the backend as long as nobody has resumed on it.
AnswerTrue(t) ==
  LET x == tasks[t].tx
  IN  /\ x \notin wire
      /\ tasks[t].answer \in {"ok", "offline", "conflict", "blocked"}
      /\ tasks[t].answer = "ok" => Applied(x)
      /\ tasks[t].answer \in {"conflict", "blocked"} => ~Applied(x)

\* The attempts a window would retry or reapply are its own, and have been sent.
KeptAttempt(w) ==
  \A x \in {form[w].retry, form[w].conflict} \ {None} :
    x \in DOMAIN attempts /\ attempts[x].window = w /\ attempts[x].prepared # Unprepared

\* The backend has what was prepared, once and in order; an attempt older than an applied one of
\* its window rests on an older revision, and no request finds that again.
BackendSound ==
  /\ \A x \in DOMAIN attempts : attempts[x].prepared <= Len(log)
  /\ \A x \in wire : attempts[x].prepared # Unprepared
  /\ \A r \in DOMAIN log :
       log[r].tx \in DOMAIN attempts /\ attempts[log[r].tx].prepared = log[r].rev
  /\ \A r \in DOMAIN log : \A x \in DOMAIN attempts :
       x < log[r].tx /\ attempts[x].window = attempts[log[r].tx].window => attempts[x].prepared < r
  /\ \A i, j \in DOMAIN log :
       i < j /\ attempts[log[i].tx].window = attempts[log[j].tx].window => log[i].tx < log[j].tx

Delivery ==
  /\ AutosaveTyped /\ BackendSound
  /\ \A w \in Windows : KeptAttempt(w)
  /\ \A t \in DOMAIN tasks : Flying(t) => FlightSound(t)
  /\ \A t \in DOMAIN tasks : tasks[t].pc = "answered" => AnswerTrue(t)

\* What a window has in hand: a pending draft is the latest, the latest is the one wanted, and so
\* is, with nothing pending, the draft that is being saved.
DraftSound(w) ==
  LET c == form[w]
  IN  /\ c.pending \/ c.conflict # None => c.latest # NoDraft
      /\ c.phase = "Saved" => c.retry = None /\ c.conflict = None
      /\ ~Retried(w) =>
           /\ c.latest # NoDraft /\ c.wanted # 0 => c.latest = c.wanted
           /\ \A t \in DOMAIN tasks :
                Flying(t) /\ tasks[t].window = w /\ ~c.pending =>
                  c.wanted \in {0, attempts[tasks[t].tx].draft}
           /\ c.phase = "Saved" => NewestSaved(w)

Drafts ==
  /\ \A x \in DOMAIN attempts : attempts[x].draft # NoDraft
  /\ \A w \in Windows : DraftSound(w)
-----------------------------------------------------------------------------
(* Operators of the model. *)

\* What the window shows of its coordinator leaves the rest of it alone.
LEMMA PhaseFacts ==
  ASSUME NEW c \in Coordinators, NEW phase \in Phases
  PROVE  LET n == InPhase(c, phase) IN
         /\ n \in Coordinators /\ n.phase = phase
         /\ n.latest = c.latest /\ n.pending = c.pending /\ n.wanted = c.wanted
         /\ n.retry = c.retry /\ n.conflict = c.conflict /\ n.offered = c.offered
         /\ n.closing = c.closing /\ n.disposed = c.disposed
  BY DEF InPhase, Publish, Coordinators, Phases

LEMMA PublishFacts ==
  ASSUME NEW c \in Coordinators
  PROVE  LET n == Publish(c) IN
         /\ n \in Coordinators /\ n.phase = c.phase
         /\ n.latest = c.latest /\ n.pending = c.pending /\ n.wanted = c.wanted
         /\ n.retry = c.retry /\ n.conflict = c.conflict /\ n.offered = c.offered
         /\ n.closing = c.closing /\ n.disposed = c.disposed
  BY DEF Publish, Coordinators, Phases

LEMMA FailurePhaseFacts ==
  ASSUME NEW answer \in {"offline", "conflict", "blocked"}
  PROVE  FailurePhase[answer] \in Phases \ {"Saved", "Pending", "Saving", "Stopped"}
  BY DEF FailurePhase, Phases

LEMMA RangeOfAppend ==
  ASSUME NEW S, NEW q \in Seq(S), NEW e \in S
  PROVE  Range(Append(q, e)) = Range(q) \cup {e}
<1>1. /\ Len(q) \in Nat /\ DOMAIN q = 1 .. Len(q) /\ DOMAIN Append(q, e) = 1 .. Len(q) + 1
      /\ \A i \in 1 .. Len(q) : Append(q, e)[i] = q[i]
      /\ Append(q, e)[Len(q) + 1] = e
  OBVIOUS
<1>2. QED
  BY <1>1 DEF Range

LEMMA RemoveAtFacts ==
  ASSUME NEW S, NEW q \in Seq(S), NEW i \in 1 .. Len(q)
  PROVE  /\ RemoveAt(q, i) \in Seq(S) /\ Len(RemoveAt(q, i)) = Len(q) - 1
         /\ \A j \in 1 .. Len(q) - 1 : RemoveAt(q, i)[j] = IF j < i THEN q[j] ELSE q[j + 1]
<1>1. PICK a : a = SubSeq(q, 1, i - 1)
  OBVIOUS
<1>2. PICK b : b = SubSeq(q, i + 1, Len(q))
  OBVIOUS
<1>3. Len(q) \in Nat
  OBVIOUS
<1>4. a \in Seq(S) /\ Len(a) = i - 1 /\ \A j \in 1 .. i - 1 : a[j] = q[j]
  BY <1>1, <1>3
<1>5. b \in Seq(S) /\ Len(b) = Len(q) - i /\ \A j \in 1 .. Len(q) - i : b[j] = q[j + i]
  BY <1>2, <1>3
<1>6. RemoveAt(q, i) = a \o b
  BY <1>1, <1>2 DEF RemoveAt
<1>7. /\ a \o b \in Seq(S) /\ Len(a \o b) = Len(a) + Len(b)
      /\ \A j \in 1 .. Len(a) + Len(b) : (a \o b)[j] = IF j <= Len(a) THEN a[j] ELSE b[j - Len(a)]
  BY <1>4, <1>5, ConcatProperties
<1>8. ASSUME NEW j \in 1 .. Len(q) - 1 PROVE (a \o b)[j] = IF j < i THEN q[j] ELSE q[j + 1]
  <2>1. CASE j < i
    BY <1>3, <1>4, <1>5, <1>7, <2>1
  <2>2. CASE ~(j < i)
    <3>1. j - Len(a) \in 1 .. Len(q) - i /\ (j - Len(a)) + i = j + 1
      BY <1>3, <1>4, <2>2
    <3>2. (a \o b)[j] = b[j - Len(a)]
      BY <1>3, <1>4, <1>5, <1>7, <2>2
    <3>3. QED
      BY <1>5, <2>2, <3>1, <3>2
  <2>3. QED
    BY <2>1, <2>2
<1>9. QED
  BY <1>3, <1>4, <1>5, <1>6, <1>7, <1>8

LEMMA RangeHead ==
  ASSUME NEW S, NEW q \in Seq(S), NEW e, IsHead(e, q)
  PROVE  e \in Range(q)
<1>1. Len(q) > 0 /\ DOMAIN q = 1 .. Len(q) /\ Len(q) \in Nat /\ q[1] = e
  BY DEF IsHead
<1>2. QED
  BY <1>1 DEF Range

\* Whoever leaves a queue, its head stays at the head unless it leaves.
LEMMA WithoutFacts ==
  ASSUME NEW S, NEW q \in Seq(S), NEW ts
  PROVE  /\ Without(q, ts) \in Seq(S) /\ Range(Without(q, ts)) \subseteq Range(q)
         /\ q # <<>> /\ Head(q) \notin ts => IsHead(Head(q), Without(q, ts))
<1>1. CASE {i \in DOMAIN q : q[i] \in ts} = {}
  BY <1>1 DEF Without, IsHead
<1>2. CASE {i \in DOMAIN q : q[i] \in ts} # {}
  <2>1. PICK i : i = CHOOSE j \in {k \in DOMAIN q : q[k] \in ts} : TRUE
    OBVIOUS
  <2>2. i \in 1 .. Len(q) /\ q[i] \in ts /\ Len(q) \in Nat
    BY <1>2, <2>1
  <2>3. PICK r : r = RemoveAt(q, i)
    OBVIOUS
  <2>4. Without(q, ts) = r
    BY <1>2, <2>1, <2>3 DEF Without
  <2>5. /\ r \in Seq(S) /\ Len(r) = Len(q) - 1
        /\ \A j \in 1 .. Len(q) - 1 : r[j] = IF j < i THEN q[j] ELSE q[j + 1]
    BY <2>2, <2>3, RemoveAtFacts
  <2>6. Range(r) \subseteq Range(q)
    <3>1. ASSUME NEW j \in 1 .. Len(q) - 1 PROVE \E k \in 1 .. Len(q) : r[j] = q[k]
      BY <2>2, <2>5
    <3>2. DOMAIN r = 1 .. Len(q) - 1 /\ DOMAIN q = 1 .. Len(q)
      BY <2>5
    <3>3. QED
      BY <3>1, <3>2 DEF Range
  <2>7. ASSUME q # <<>>, Head(q) \notin ts PROVE IsHead(Head(q), r)
    <3>1. i > 1 /\ Len(q) > 1 /\ Head(q) = q[1]
      BY <2>2, <2>7
    <3>2. r[1] = q[1] /\ Len(r) > 0
      BY <2>2, <2>5, <3>1
    <3>3. QED
      BY <2>5, <3>1, <3>2 DEF IsHead
  <2>8. QED
    BY <2>4, <2>5, <2>6, <2>7
<1>3. QED
  BY <1>1, <1>2
-----------------------------------------------------------------------------
(* Steps in which nobody begins to wait for a save. *)

LEMMA TaskTyped ==
  ASSUME AutosaveTyped, NEW t \in DOMAIN tasks
  PROVE  /\ tasks[t] \in Tasks /\ tasks[t].window \in Windows /\ tasks[t].tx \in Nat
         /\ t \in Nat /\ Len(tasks) \in Nat /\ DOMAIN tasks = 1 .. Len(tasks)
<1>1. tasks[t] \in Tasks
  BY DEF AutosaveTyped
<1>2. QED
  BY <1>1 DEF AutosaveTyped, Tasks

LEMMA InitialDelivery == Init => Delivery
<1> SUFFICES ASSUME Init PROVE Delivery
  OBVIOUS
<1>1. tasks = <<>> /\ attempts = <<>> /\ log = <<>> /\ gate = <<>> /\ wire = {} /\ canonical = 0
  BY DEF Init
<1>2. \A S : <<>> \in Seq(S)
  OBVIOUS
<1>3. Len(<<>>) = 0 /\ DOMAIN <<>> = {} /\ Range(<<>>) = {}
  <2>1. DOMAIN <<>> = {}
    OBVIOUS
  <2>2. QED
    BY <2>1 DEF Range
<1>4. \A w \in Windows : Fresh(w) \in Coordinators
  BY DEF Fresh, Coordinators, Phases, NoDraft, None
<1>5. form \in [Windows -> Coordinators] /\ drains \in [Windows -> Seq(Nat)]
  BY <1>2, <1>4 DEF Init
<1>6. AutosaveTyped
  <2>1. \A w \in Windows : form[w].offered <= 0 /\ drains[w] = <<>>
    BY DEF Init, Fresh
  <2>2. QED
    BY <1>1, <1>2, <1>3, <1>5, <2>1 DEF AutosaveTyped
<1>7. BackendSound
  BY <1>1, <1>3 DEF BackendSound
<1>8. \A w \in Windows : KeptAttempt(w)
  BY DEF KeptAttempt, Init, Fresh
<1>9. QED
  BY <1>1, <1>3, <1>6, <1>7, <1>8 DEF Delivery

\* Whoever waits after the step has waited before it, for the same answer or with the same.
StillWaiting ==
  \A t \in DOMAIN tasks' : tasks'[t].pc \in Waits =>
    /\ t \in DOMAIN tasks
    /\ tasks'[t].pc = tasks[t].pc /\ tasks'[t].tx = tasks[t].tx /\ tasks'[t].answer = tasks[t].answer
    /\ tasks'[t].window = tasks[t].window /\ tasks'[t].kind = tasks[t].kind

\* ... and has the gates it had.
GatesKept ==
  \A t \in DOMAIN tasks' : tasks'[t].pc \in Waits =>
    /\ IsHead(t, gate) => IsHead(t, gate')
    /\ \A w \in Windows : /\ IsHead(t, drains[w]) => IsHead(t, drains'[w])
                          /\ t \in Range(drains'[w]) => t \in Range(drains[w])

LEMMA CalmStep ==
  ASSUME Delivery, AutosaveTyped', StillWaiting, GatesKept, UNCHANGED <<attempts, log, wire>>,
         \A w \in Windows : KeptAttempt(w)'
  PROVE  Delivery'
<1>1. BackendSound'
  BY DEF Delivery, BackendSound
<1>2. ASSUME NEW t \in DOMAIN tasks', Flying(t)' PROVE FlightSound(t)'
  <2>1. /\ t \in DOMAIN tasks /\ Flying(t) /\ FlightSound(t)
        /\ tasks'[t].pc = tasks[t].pc /\ tasks'[t].tx = tasks[t].tx
        /\ tasks'[t].window = tasks[t].window /\ tasks'[t].kind = tasks[t].kind
    BY <1>2 DEF Delivery, Flying, StillWaiting
  <2>2. PICK w \in Windows : w = tasks[t].window
    BY <2>1, TaskTyped DEF Delivery
  <2>3. /\ IsHead(t, gate) => IsHead(t, gate')
        /\ IsHead(t, drains[w]) => IsHead(t, drains'[w])
        /\ t \in Range(drains'[w]) => t \in Range(drains[w])
    BY <1>2 DEF Flying, GatesKept
  <2>4. IsHead(t, drains[w]) => t \in Range(drains'[w])
    BY <2>3, RangeHead DEF AutosaveTyped
  <2>5. QED
    BY <2>1, <2>2, <2>3, <2>4 DEF FlightSound, InDrain
<1>3. ASSUME NEW t \in DOMAIN tasks', tasks'[t].pc = "answered" PROVE AnswerTrue(t)'
  BY <1>3 DEF Delivery, AnswerTrue, Applied, StillWaiting, Waits
<1>4. QED
  BY <1>1, <1>2, <1>3 DEF Delivery
-----------------------------------------------------------------------------
(* Cancelling. *)

\* Who has what he waits for goes on; the others have ended.
LEMMA AfterCancelFacts ==
  ASSUME AutosaveTyped, NEW ts
  PROVE  /\ AfterCancel(ts) \in Seq(Tasks) /\ Len(AfterCancel(ts)) = Len(tasks)
         /\ DOMAIN AfterCancel(ts) = DOMAIN tasks
         /\ \A t \in DOMAIN tasks :
              /\ AfterCancel(ts)[t].window = tasks[t].window
              /\ AfterCancel(ts)[t].kind = tasks[t].kind
              /\ AfterCancel(ts)[t].pc \in Waits =>
                   /\ t \notin Interrupted(ts)
                   /\ AfterCancel(ts)[t].pc = tasks[t].pc /\ AfterCancel(ts)[t].tx = tasks[t].tx
                   /\ AfterCancel(ts)[t].answer = tasks[t].answer
<1>1. ASSUME NEW t \in DOMAIN tasks
      PROVE  /\ AfterCancel(ts)[t] \in Tasks
             /\ AfterCancel(ts)[t].window = tasks[t].window
             /\ AfterCancel(ts)[t].kind = tasks[t].kind
             /\ AfterCancel(ts)[t].pc \in Waits =>
                  /\ t \notin Interrupted(ts)
                  /\ AfterCancel(ts)[t].pc = tasks[t].pc /\ AfterCancel(ts)[t].tx = tasks[t].tx
                  /\ AfterCancel(ts)[t].answer = tasks[t].answer
  <2>1. tasks[t] \in Tasks
    BY DEF AutosaveTyped
  <2>2. CASE t \in Interrupted(ts)
    BY <2>1, <2>2 DEF AfterCancel, Ended, Tasks, TaskPcs, Waits, None
  <2>3. CASE t \notin Interrupted(ts)
    BY <2>1, <2>3 DEF AfterCancel, Tasks, TaskPcs, Waits
  <2>4. QED
    BY <2>2, <2>3
<1>2. DOMAIN tasks = 1 .. Len(tasks) /\ Len(tasks) \in Nat /\ DOMAIN AfterCancel(ts) = DOMAIN tasks
  BY DEF AutosaveTyped, AfterCancel
<1>3. AfterCancel(ts) \in Seq(Tasks) /\ Len(AfterCancel(ts)) = Len(tasks)
  <2>1. AfterCancel(ts) \in [1 .. Len(tasks) -> Tasks]
    BY <1>1, <1>2 DEF AfterCancel
  <2>2. QED
    BY <1>2, <2>1
<1>4. QED
  BY <1>1, <1>2, <1>3

\* A new task that waits for no save begins as others are cancelled.
LEMMA CancelAndBegin ==
  ASSUME Delivery, NEW w \in Windows, NEW ts, NEW k \in Tasks, k.pc \notin Waits,
         tasks' = Append(AfterCancel(ts), k),
         gate' = Without(gate, Interrupted(ts)),
         NEW d, d = Without(drains[w], Interrupted(ts)),
         \/ drains' = [drains EXCEPT ![w] = d]
         \/ drains' = [drains EXCEPT ![w] = Append(d, Len(tasks) + 1)]
  PROVE  /\ StillWaiting /\ GatesKept
         /\ tasks' \in Seq(Tasks) /\ gate' \in Seq(Nat) /\ drains' \in [Windows -> Seq(Nat)]
         /\ \A v \in Windows : Range(drains'[v]) \subseteq DOMAIN tasks'
<1>1. AutosaveTyped
  BY DEF Delivery
<1>2. PICK cs : cs = AfterCancel(ts)
  OBVIOUS
<1>3. /\ cs \in Seq(Tasks) /\ Len(cs) = Len(tasks) /\ DOMAIN cs = 1 .. Len(tasks)
      /\ DOMAIN tasks = 1 .. Len(tasks) /\ Len(tasks) \in Nat
  BY <1>1, <1>2, AfterCancelFacts DEF AutosaveTyped
<1>4. tasks' = Append(cs, k)
  BY <1>2
<1>5. /\ tasks' \in Seq(Tasks) /\ DOMAIN tasks' = 1 .. Len(tasks) + 1
      /\ \A t \in DOMAIN tasks : tasks'[t] = cs[t]
      /\ tasks'[Len(tasks) + 1] = k
  BY <1>3, <1>4
<1>6. ASSUME NEW t \in DOMAIN tasks', tasks'[t].pc \in Waits
      PROVE  /\ t \in DOMAIN tasks /\ t \notin Interrupted(ts) /\ tasks'[t] = cs[t] /\ t # Len(tasks) + 1
             /\ cs[t].window = tasks[t].window /\ cs[t].kind = tasks[t].kind
             /\ cs[t].pc = tasks[t].pc /\ cs[t].tx = tasks[t].tx /\ cs[t].answer = tasks[t].answer
  <2>1. t \in DOMAIN tasks /\ t # Len(tasks) + 1
    BY <1>3, <1>5, <1>6
  <2>2. cs[t].pc \in Waits
    BY <1>5, <1>6, <2>1
  <2>3. QED
    BY <1>1, <1>2, <1>5, <2>1, <2>2, AfterCancelFacts
<1>7. StillWaiting
  BY <1>6 DEF StillWaiting
<1>8. drains[w] \in Seq(Nat) /\ gate \in Seq(Nat)
  BY <1>1 DEF AutosaveTyped
<1>9. /\ d \in Seq(Nat) /\ Range(d) \subseteq Range(drains[w])
      /\ \A t : IsHead(t, drains[w]) /\ t \notin Interrupted(ts) => IsHead(t, d)
  BY <1>8, WithoutFacts DEF IsHead
<1>10. /\ gate' \in Seq(Nat)
       /\ \A t : IsHead(t, gate) /\ t \notin Interrupted(ts) => IsHead(t, gate')
  <2>1. PICK g : g = Without(gate, Interrupted(ts))
    OBVIOUS
  <2>2. g \in Seq(Nat) /\ \A t : IsHead(t, gate) /\ t \notin Interrupted(ts) => IsHead(t, g)
    BY <1>8, <2>1, WithoutFacts DEF IsHead
  <2>3. QED
    BY <2>1, <2>2
<1>11. PICK e \in Seq(Nat) : /\ drains' = [drains EXCEPT ![w] = e]
                            /\ Range(e) \subseteq Range(drains[w]) \cup {Len(tasks) + 1}
                            /\ \A t : IsHead(t, d) => IsHead(t, e)
  <2>1. Append(d, Len(tasks) + 1) \in Seq(Nat) /\ \A t : IsHead(t, d) => IsHead(t, Append(d, Len(tasks) + 1))
    BY <1>3, <1>9 DEF IsHead
  <2>2. Range(Append(d, Len(tasks) + 1)) = Range(d) \cup {Len(tasks) + 1}
    BY <1>3, <1>9, RangeOfAppend
  <2>3. QED
    BY <1>9, <2>1, <2>2
<1>12. drains' \in [Windows -> Seq(Nat)] /\ drains'[w] = e /\ \A v \in Windows : v # w => drains'[v] = drains[v]
  BY <1>1, <1>11 DEF AutosaveTyped
<1>13. \A v \in Windows : Range(drains'[v]) \subseteq DOMAIN tasks'
  BY <1>1, <1>3, <1>5, <1>11, <1>12 DEF AutosaveTyped
<1>14. GatesKept
  <2> SUFFICES ASSUME NEW t \in DOMAIN tasks', tasks'[t].pc \in Waits, NEW v \in Windows
               PROVE  /\ IsHead(t, gate) => IsHead(t, gate')
                      /\ IsHead(t, drains[v]) => IsHead(t, drains'[v])
                      /\ t \in Range(drains'[v]) => t \in Range(drains[v])
    <3>1. Windows # {}
      OBVIOUS
    <3>2. QED
      BY <3>1 DEF GatesKept
  <2>1. t \notin Interrupted(ts) /\ t # Len(tasks) + 1
    BY <1>6
  <2>2. QED
    BY <1>9, <1>10, <1>11, <1>12, <2>1
<1>15. QED
  BY <1>5, <1>7, <1>10, <1>12, <1>13, <1>14

\* The attempts kept for an answer of the user stay what they are.
LEMMA KeptStays ==
  ASSUME Delivery, UNCHANGED attempts,
         \A w \in Windows : /\ form'[w].retry \in {form[w].retry, None}
                            /\ form'[w].conflict \in {form[w].conflict, None}
  PROVE  \A w \in Windows : KeptAttempt(w)'
  BY DEF Delivery, KeptAttempt

\* A window that is debounced cancels a task or none.
LEMMA QueueEditDelivers ==
  ASSUME Delivery, NEW w \in Windows, QueueEdit(w)
  PROVE  Delivery'
<1>1. PICK c \in Coordinators : c = form[w]
  BY DEF Delivery, AutosaveTyped
<1>2. PICK typed : typed = [c EXCEPT !.latest = c.generation + 1, !.generation = @ + 1,
                                      !.pending = TRUE, !.wanted = c.generation + 1]
  OBVIOUS
<1>3. /\ typed \in Coordinators /\ typed.retry = c.retry /\ typed.conflict = c.conflict
      /\ typed.offered = c.offered
  <2>1. c.generation + 1 \in Nat
    BY DEF Coordinators
  <2>2. typed \in Coordinators
    BY <1>2, <2>1 DEF Coordinators
  <2>3. QED
    BY <1>2, <2>2 DEF Coordinators
<1>4. UNCHANGED <<attempts, canonical, wire, log>>
  BY DEF QueueEdit
<1>5. CASE c.retry = None /\ c.conflict = None
  <2>1. PICK n : n = InPhase([typed EXCEPT !.debounce = Len(tasks) + 1], "Pending")
    OBVIOUS
  <2>2. n \in Coordinators /\ n.retry = c.retry /\ n.conflict = c.conflict /\ n.offered = c.offered
    <3>1. PICK m : m = [typed EXCEPT !.debounce = Len(tasks) + 1]
      OBVIOUS
    <3>2. /\ m \in Coordinators /\ m.retry = c.retry /\ m.conflict = c.conflict
          /\ m.offered = c.offered
      <4>1. Len(tasks) + 1 \in Nat
        BY DEF Delivery, AutosaveTyped
      <4>2. QED
        BY <1>3, <3>1, <4>1 DEF Coordinators
    <3>3. n = InPhase(m, "Pending") /\ "Pending" \in Phases
      BY <2>1, <3>1 DEF Phases
    <3>4. QED
      BY <3>2, <3>3, PhaseFacts
  <2>3. /\ form' = [form EXCEPT ![w] = n]
        /\ tasks' = Append(AfterCancel(Debounced(w)), Task(w, "debounce", "delay"))
        /\ drains' = [drains EXCEPT ![w] = Without(@, Interrupted(Debounced(w)))]
        /\ gate' = Without(gate, Interrupted(Debounced(w)))
    BY <1>1, <1>2, <1>5, <2>1 DEF QueueEdit
  <2>4. Task(w, "debounce", "delay") \in Tasks /\ Task(w, "debounce", "delay").pc \notin Waits
    BY DEF Task, Tasks, TaskPcs, Waits, Kinds, None
  <2>5. /\ StillWaiting /\ GatesKept
        /\ tasks' \in Seq(Tasks) /\ gate' \in Seq(Nat) /\ drains' \in [Windows -> Seq(Nat)]
        /\ \A v \in Windows : Range(drains'[v]) \subseteq DOMAIN tasks'
    BY <2>3, <2>4, CancelAndBegin
  <2>6. AutosaveTyped'
    BY <1>1, <1>4, <2>2, <2>3, <2>5 DEF Delivery, AutosaveTyped
  <2>7. \A v \in Windows : KeptAttempt(v)'
    BY <1>1, <1>4, <2>2, <2>3, KeptStays DEF Delivery, AutosaveTyped
  <2>8. QED
    BY <1>4, <2>5, <2>6, <2>7, CalmStep
<1>6. CASE ~(c.retry = None /\ c.conflict = None)
  <2>1. PICK n : n = Publish(typed)
    OBVIOUS
  <2>2. n \in Coordinators /\ n.retry = c.retry /\ n.conflict = c.conflict /\ n.offered = c.offered
    BY <1>3, <2>1, PublishFacts
  <2>3. form' = [form EXCEPT ![w] = n] /\ UNCHANGED <<tasks, drains, gate>>
    BY <1>1, <1>2, <1>6, <2>1 DEF QueueEdit
  <2>4. AutosaveTyped'
    BY <1>1, <1>4, <2>2, <2>3 DEF Delivery, AutosaveTyped
  <2>5. \A v \in Windows : KeptAttempt(v)'
    BY <1>1, <1>4, <2>2, <2>3, KeptStays DEF Delivery, AutosaveTyped
  <2>6. StillWaiting /\ GatesKept
    BY <2>3 DEF StillWaiting, GatesKept
  <2>7. QED
    BY <1>4, <2>4, <2>5, <2>6, CalmStep
<1>7. QED
  BY <1>5, <1>6

LEMMA FlushDelivers ==
  ASSUME Delivery, NEW w \in Windows, NEW kind \in {"flush", "close"}, Flush(w, kind)
  PROVE  Delivery'
<1>1. PICK c \in Coordinators : c = form[w]
  BY DEF Delivery, AutosaveTyped
<1>2. PICK n : n = [c EXCEPT !.debounce = None, !.closing = @ \/ kind = "close"]
  OBVIOUS
<1>3. n \in Coordinators /\ n.retry = c.retry /\ n.conflict = c.conflict /\ n.offered = c.offered
  BY <1>2 DEF Coordinators, None
<1>4. form' = [form EXCEPT ![w] = n] /\ UNCHANGED <<attempts, canonical, wire, log>>
  <2>1. form' = [form EXCEPT ![w].debounce = None, ![w].closing = @ \/ kind = "close"]
    BY DEF Flush
  <2>2. form \in [Windows -> Coordinators]
    BY DEF Delivery, AutosaveTyped
  <2>3. QED
    BY <1>1, <1>2, <2>1, <2>2 DEF Flush
<1>5. Task(w, kind, "drain") \in Tasks /\ Task(w, kind, "drain").pc \notin Waits
  BY DEF Task, Tasks, TaskPcs, Waits, Kinds, None
<1>6. PICK d : d = Without(drains[w], Interrupted(Debounced(w)))
  OBVIOUS
<1>7. drains' = [drains EXCEPT ![w] = Append(d, Len(tasks) + 1)]
  BY <1>6 DEF Flush, Delivery, AutosaveTyped
<1>8. /\ StillWaiting /\ GatesKept
      /\ tasks' \in Seq(Tasks) /\ gate' \in Seq(Nat) /\ drains' \in [Windows -> Seq(Nat)]
      /\ \A v \in Windows : Range(drains'[v]) \subseteq DOMAIN tasks'
  BY <1>5, <1>6, <1>7, CancelAndBegin DEF Flush
<1>9. AutosaveTyped'
  BY <1>1, <1>3, <1>4, <1>8 DEF Delivery, AutosaveTyped
<1>10. \A v \in Windows : KeptAttempt(v)'
  BY <1>1, <1>3, <1>4, KeptStays DEF Delivery, AutosaveTyped
<1>11. QED
  BY <1>4, <1>8, <1>9, <1>10, CalmStep

\* What only one window's coordinator and the canonical object hear of.
LEMMA WindowDelivers ==
  ASSUME Delivery, NEW w \in Windows, NEW n \in Coordinators, form' = [form EXCEPT ![w] = n],
         n.retry \in {form[w].retry, None}, n.conflict \in {form[w].conflict, None},
         n.offered <= Len(log), canonical' \in 0 .. Len(log),
         UNCHANGED <<tasks, attempts, drains, gate, wire, log>>
  PROVE  Delivery'
<1>1. AutosaveTyped'
  BY DEF Delivery, AutosaveTyped
<1>2. \A v \in Windows : KeptAttempt(v)'
  BY KeptStays DEF Delivery, AutosaveTyped
<1>3. StillWaiting /\ GatesKept
  BY DEF StillWaiting, GatesKept
<1>4. QED
  BY <1>1, <1>2, <1>3, CalmStep

LEMMA ReloadDelivers ==
  ASSUME Delivery, NEW w \in Windows, Reload(w)
  PROVE  Delivery'
<1>1. PICK c \in Coordinators : c = form[w]
  BY DEF Delivery, AutosaveTyped
<1>2. PICK n : n = [c EXCEPT !.latest = NoDraft, !.pending = FALSE, !.retry = None, !.conflict = None,
                              !.phase = "Saved", !.shown = c.offered, !.offered = -1,
                              !.banner = "hidden", !.wanted = 0]
  OBVIOUS
<1>3. c.offered \in 0 .. Len(log) /\ Len(log) \in Nat
  BY <1>1 DEF Reload, Delivery, AutosaveTyped, Coordinators
<1>4. /\ n \in Coordinators /\ n.retry = None /\ n.conflict = None /\ n.offered <= Len(log)
  <2>1. NoDraft \in Nat /\ None \in Nat /\ 0 \in Nat /\ -1 \in Nat \cup {-1} /\ c.offered \in Nat
        /\ -1 <= Len(log)
    BY <1>3 DEF NoDraft, None
  <2>2. n \in Coordinators
    BY <1>2, <2>1 DEF Coordinators, Phases
  <2>3. n.retry = None /\ n.conflict = None /\ n.offered = -1
    BY <1>2 DEF Coordinators
  <2>4. QED
    BY <2>1, <2>2, <2>3
<1>5. form' = [form EXCEPT ![w] = n]
  BY <1>1, <1>2 DEF Reload, Delivery, AutosaveTyped
<1>6. canonical' \in 0 .. Len(log) /\ UNCHANGED <<tasks, attempts, drains, gate, wire, log>>
  BY <1>1, <1>3 DEF Reload
<1>7. QED
  BY <1>1, <1>4, <1>5, <1>6, WindowDelivers

LEMMA ReconcileDelivers ==
  ASSUME Delivery, NEW w \in Windows, Reconcile(w)
  PROVE  Delivery'
<1>1. PICK c \in Coordinators : c = form[w]
  BY DEF Delivery, AutosaveTyped
<1>2. PICK n : n = IF c.shown # Len(log) /\ Unsaved(c)
                   THEN [c EXCEPT !.offered = Len(log), !.banner = "conflict"]
                   ELSE [c EXCEPT !.shown = Len(log), !.offered = -1, !.banner = "hidden"]
  OBVIOUS
<1>3. Len(log) \in Nat
  BY DEF Delivery, AutosaveTyped
<1>4. /\ n \in Coordinators /\ n.retry = c.retry /\ n.conflict = c.conflict /\ n.offered <= Len(log)
  <2>1. CASE n = [c EXCEPT !.offered = Len(log), !.banner = "conflict"]
    <3>1. Len(log) \in Nat \cup {-1} /\ Len(log) <= Len(log)
      BY <1>3
    <3>2. n \in Coordinators
      BY <2>1, <3>1 DEF Coordinators
    <3>3. n.retry = c.retry /\ n.conflict = c.conflict /\ n.offered = Len(log)
      BY <2>1 DEF Coordinators
    <3>4. QED
      BY <3>1, <3>2, <3>3
  <2>2. CASE n = [c EXCEPT !.shown = Len(log), !.offered = -1, !.banner = "hidden"]
    <3>1. -1 \in Nat \cup {-1} /\ -1 <= Len(log)
      BY <1>3
    <3>2. QED
      BY <1>3, <2>2, <3>1 DEF Coordinators
  <2>3. QED
    BY <1>2, <2>1, <2>2
<1>5. form' = [form EXCEPT ![w] = n]
  BY <1>1, <1>2 DEF Reconcile
<1>6. canonical' \in 0 .. Len(log) /\ UNCHANGED <<tasks, attempts, drains, gate, wire, log>>
  BY <1>3 DEF Reconcile
<1>7. QED
  BY <1>1, <1>4, <1>5, <1>6, WindowDelivers

LEMMA LoadConflictDelivers ==
  ASSUME Delivery, NEW w \in Windows, LoadConflict(w)
  PROVE  Delivery'
<1>1. PICK c \in Coordinators : c = form[w]
  BY DEF Delivery, AutosaveTyped
<1>2. Len(log) \in Nat /\ form \in [Windows -> Coordinators] /\ canonical \in 0 .. Len(log)
  BY DEF Delivery, AutosaveTyped
<1>3. PICK banner \in {"conflict", "blocked"}, offered \in {c.offered, Len(log)} :
        form' = [form EXCEPT ![w] = [c EXCEPT !.loading = FALSE, !.offered = offered, !.banner = banner]]
  <2>1. CASE form' = [form EXCEPT ![w].loading = FALSE, ![w].offered = Len(log), ![w].banner = "conflict"]
    BY <1>1, <2>1
  <2>2. CASE form' = [form EXCEPT ![w].loading = FALSE, ![w].banner = "blocked"]
    <3>1. form' = [form EXCEPT ![w] = [c EXCEPT !.loading = FALSE, !.banner = "blocked"]]
      BY <1>1, <2>2
    <3>2. c = [c EXCEPT !.offered = c.offered]
      BY DEF Coordinators
    <3>3. form' = [form EXCEPT ![w] = [[c EXCEPT !.offered = c.offered] EXCEPT !.loading = FALSE, !.banner = "blocked"]]
      BY <3>1, <3>2
    <3>4. [[c EXCEPT !.offered = c.offered] EXCEPT !.loading = FALSE, !.banner = "blocked"]
            = [c EXCEPT !.loading = FALSE, !.offered = c.offered, !.banner = "blocked"]
      BY DEF Coordinators
    <3>5. QED
      BY <3>3, <3>4
  <2>3. QED
    BY <2>1, <2>2 DEF LoadConflict
<1>4. PICK n : n = [c EXCEPT !.loading = FALSE, !.offered = offered, !.banner = banner]
  OBVIOUS
<1>5. offered \in Nat \cup {-1} /\ offered <= Len(log)
  BY <1>1, <1>2 DEF Coordinators, Delivery, AutosaveTyped
<1>6. n \in Coordinators /\ n.retry = c.retry /\ n.conflict = c.conflict /\ n.offered <= Len(log)
  BY <1>4, <1>5 DEF Coordinators
<1>7. canonical' \in 0 .. Len(log) /\ UNCHANGED <<tasks, attempts, drains, gate, wire, log>>
  BY <1>2 DEF LoadConflict
<1>8. QED
  BY <1>1, <1>3, <1>4, <1>6, <1>7, WindowDelivers

LEMMA EndedFacts ==
  ASSUME NEW k \in Tasks
  PROVE  /\ Ended(k) \in Tasks /\ Ended(k).pc \notin Waits
         /\ Ended(k).window = k.window /\ Ended(k).kind = k.kind
         /\ Finished(k) \in Tasks /\ Finished(k).pc \notin Waits
         /\ Finished(k).window = k.window /\ Finished(k).kind = k.kind
<1>1. /\ Ended(k) \in Tasks /\ Ended(k).pc \notin Waits
      /\ Ended(k).window = k.window /\ Ended(k).kind = k.kind
  BY DEF Ended, Tasks, TaskPcs, Waits, None
<1>2. PICK e : e = Ended(k)
  OBVIOUS
<1>3. Finished(k) = e \/ Finished(k) = [e EXCEPT !.pc = "dispose"]
  BY <1>2 DEF Finished
<1>4. QED
  BY <1>1, <1>2, <1>3 DEF Tasks, TaskPcs, Waits

\* A task that goes elsewhere than to a save, and leaves the others their gates.
LEMMA TaskLeaves ==
  ASSUME Delivery, NEW t \in DOMAIN tasks, NEW k \in Tasks, k.pc \notin Waits,
         tasks' = [tasks EXCEPT ![t] = k],
         \A u \in DOMAIN tasks \ {t} :
           /\ IsHead(u, gate) => IsHead(u, gate')
           /\ \A w \in Windows : /\ IsHead(u, drains[w]) => IsHead(u, drains'[w])
                                 /\ u \in Range(drains'[w]) => u \in Range(drains[w])
  PROVE  StillWaiting /\ GatesKept /\ tasks' \in Seq(Tasks) /\ DOMAIN tasks' = DOMAIN tasks
<1>1. /\ tasks' \in Seq(Tasks) /\ DOMAIN tasks' = DOMAIN tasks
      /\ tasks'[t] = k /\ \A u \in DOMAIN tasks \ {t} : tasks'[u] = tasks[u]
  BY DEF Delivery, AutosaveTyped
<1>2. \A u \in DOMAIN tasks' : tasks'[u].pc \in Waits => u \in DOMAIN tasks \ {t}
  BY <1>1
<1>3. StillWaiting
  BY <1>1, <1>2 DEF StillWaiting
<1>4. GatesKept
  BY <1>2 DEF GatesKept
<1>5. QED
  BY <1>1, <1>3, <1>4

LEMMA ReapplyDelivers ==
  ASSUME Delivery, NEW w \in Windows, Reapply(w)
  PROVE  Delivery'
<1>1. PICK c \in Coordinators : c = form[w]
  BY DEF Delivery, AutosaveTyped
<1>2. PICK seen : seen = [c EXCEPT !.shown = c.offered, !.offered = -1]
  OBVIOUS
<1>3. PICK draft : draft = IF c.latest # NoDraft \/ c.conflict = None THEN c.latest
                           ELSE attempts[c.conflict].draft
  OBVIOUS
<1>4. c.offered \in 0 .. Len(log) /\ Len(log) \in Nat /\ -1 \in Nat \cup {-1} /\ -1 <= Len(log)
  BY <1>1 DEF Reapply, Delivery, AutosaveTyped, Coordinators
<1>5. /\ seen \in Coordinators /\ seen.retry = c.retry /\ seen.conflict = c.conflict
      /\ seen.offered = -1
  <2>1. c.offered \in Nat
    BY <1>4
  <2>2. seen \in Coordinators
    BY <1>2, <1>4, <2>1 DEF Coordinators
  <2>3. QED
    BY <1>2, <2>2 DEF Coordinators
<1>6. draft \in Nat
  <2>1. c.latest \in Nat /\ c.conflict \in Nat
    BY DEF Coordinators
  <2>2. c.conflict # None => attempts[c.conflict] \in Attempts
    BY <1>1 DEF Delivery, KeptAttempt, AutosaveTyped
  <2>3. QED
    BY <1>3, <2>1, <2>2 DEF Attempts
<1>7. canonical' \in 0 .. Len(log) /\ UNCHANGED <<attempts, gate, wire, log>>
  BY <1>1, <1>4 DEF Reapply
<1>8. CASE draft = NoDraft
  <2>1. PICK n : n = [seen EXCEPT !.banner = "blocked"]
    OBVIOUS
  <2>2. form' = [form EXCEPT ![w] = n] /\ UNCHANGED <<tasks, drains>>
    BY <1>1, <1>2, <1>3, <1>8, <2>1 DEF Reapply
  <2>3. /\ n \in Coordinators /\ n.retry = c.retry /\ n.conflict = c.conflict /\ n.offered = -1
    BY <1>5, <2>1 DEF Coordinators
  <2>4. QED
    BY <1>1, <1>4, <1>7, <2>2, <2>3, WindowDelivers
<1>9. CASE draft # NoDraft
  <2>1. PICK m : m = [seen EXCEPT !.latest = draft, !.pending = TRUE, !.retry = None, !.conflict = None]
    OBVIOUS
  <2>2. m \in Coordinators /\ m.retry = None /\ m.conflict = None /\ m.offered = -1
    <3>1. None \in Nat
      BY DEF None
    <3>2. m \in Coordinators
      BY <1>5, <1>6, <2>1, <3>1 DEF Coordinators
    <3>3. QED
      BY <1>5, <2>1, <3>2 DEF Coordinators
  <2>3. PICK n : n = InPhase(m, "Pending")
    OBVIOUS
  <2>4. n \in Coordinators /\ n.retry = None /\ n.conflict = None /\ n.offered = -1
    BY <2>2, <2>3, PhaseFacts DEF Phases
  <2>5. /\ form' = [form EXCEPT ![w] = n]
        /\ tasks' = Append(tasks, Task(w, "reapply", "drain"))
        /\ drains' = [drains EXCEPT ![w] = Append(@, Len(tasks) + 1)]
    BY <1>1, <1>2, <1>3, <1>9, <2>1, <2>3 DEF Reapply
  <2>6. PICK k \in Tasks : k = Task(w, "reapply", "drain") /\ k.pc \notin Waits
    <3>1. Task(w, "reapply", "drain") \in Tasks /\ Task(w, "reapply", "drain").pc \notin Waits
      BY DEF Task, Tasks, TaskPcs, Waits, Kinds, None
    <3>2. QED
      BY <3>1
  <2>7. /\ tasks' \in Seq(Tasks) /\ DOMAIN tasks = 1 .. Len(tasks) /\ Len(tasks) \in Nat
        /\ DOMAIN tasks' = 1 .. Len(tasks) + 1
        /\ \A t \in DOMAIN tasks : tasks'[t] = tasks[t]
        /\ tasks'[Len(tasks) + 1] = k
    BY <2>5, <2>6 DEF Delivery, AutosaveTyped
  <2>8. \A t \in DOMAIN tasks' : tasks'[t].pc \in Waits => t \in DOMAIN tasks /\ t # Len(tasks) + 1
    BY <2>6, <2>7
  <2>9. StillWaiting
    BY <2>7, <2>8 DEF StillWaiting
  <2>10. PICK q \in Seq(Nat) : q = drains[w]
    BY DEF Delivery, AutosaveTyped
  <2>11. PICK e : e = Append(q, Len(tasks) + 1)
    OBVIOUS
  <2>12. /\ e \in Seq(Nat) /\ Range(e) = Range(q) \cup {Len(tasks) + 1}
         /\ \A t : IsHead(t, q) => IsHead(t, e)
    <3>1. e \in Seq(Nat) /\ \A t : IsHead(t, q) => IsHead(t, e)
      BY <2>7, <2>11 DEF IsHead
    <3>2. Len(tasks) + 1 \in Nat
      BY <2>7
    <3>3. QED
      BY <2>11, <3>1, <3>2, RangeOfAppend
  <2>13. drains' \in [Windows -> Seq(Nat)] /\ drains'[w] = e /\ \A v \in Windows : v # w => drains'[v] = drains[v]
    BY <2>5, <2>10, <2>11, <2>12 DEF Delivery, AutosaveTyped
  <2>14. GatesKept
    BY <1>7, <2>8, <2>10, <2>12, <2>13 DEF GatesKept
  <2>15. \A v \in Windows : Range(drains'[v]) \subseteq DOMAIN tasks'
    <3>1. \A v \in Windows : Range(drains[v]) \subseteq 1 .. Len(tasks)
      BY <2>7 DEF Delivery, AutosaveTyped
    <3>2. 1 .. Len(tasks) \subseteq DOMAIN tasks' /\ Len(tasks) + 1 \in DOMAIN tasks'
      BY <2>7
    <3>3. QED
      BY <2>10, <2>12, <2>13, <3>1, <3>2
  <2>16. AutosaveTyped'
    BY <1>1, <1>4, <1>7, <2>4, <2>5, <2>7, <2>13, <2>15 DEF Delivery, AutosaveTyped
  <2>17. \A v \in Windows : KeptAttempt(v)'
    BY <1>1, <1>7, <2>4, <2>5, KeptStays DEF Delivery, AutosaveTyped
  <2>18. QED
    BY <1>7, <2>9, <2>14, <2>16, <2>17, CalmStep
<1>10. QED
  BY <1>8, <1>9
-----------------------------------------------------------------------------
(* Tasks that end. *)

LEMMA StopDelivers ==
  ASSUME Delivery, NEW t \in DOMAIN tasks, Stop(t)
  PROVE  Delivery'
<1>1. PICK w \in Windows : w = tasks[t].window
  BY TaskTyped DEF Delivery
<1>2. PICK c \in Coordinators : c = form[w]
  BY DEF Delivery, AutosaveTyped
<1>3. form' = [form EXCEPT ![w] = [c EXCEPT !.phase = "Stopped"]]
  BY <1>1, <1>2 DEF Stop
<1>4. PICK n : n = [c EXCEPT !.phase = "Stopped"]
  OBVIOUS
<1>5. n \in Coordinators /\ n.retry = c.retry /\ n.conflict = c.conflict /\ n.offered = c.offered
  BY <1>4 DEF Coordinators, Phases
<1>6. PICK k \in Tasks : k = Ended(tasks[t]) /\ k.pc \notin Waits
  BY EndedFacts, TaskTyped DEF Delivery
<1>7. tasks' = [tasks EXCEPT ![t] = k] /\ UNCHANGED <<attempts, drains, gate, canonical, wire, log>>
  BY <1>6 DEF Stop
<1>8. StillWaiting /\ GatesKept /\ tasks' \in Seq(Tasks) /\ DOMAIN tasks' = DOMAIN tasks
  BY <1>6, <1>7, TaskLeaves
<1>9. AutosaveTyped'
  BY <1>2, <1>3, <1>4, <1>5, <1>7, <1>8 DEF Delivery, AutosaveTyped
<1>10. \A v \in Windows : KeptAttempt(v)'
  BY <1>2, <1>3, <1>4, <1>5, <1>7, KeptStays DEF Delivery, AutosaveTyped
<1>11. QED
  BY <1>7, <1>8, <1>9, <1>10, CalmStep

LEMMA DisposeDelivers ==
  ASSUME Delivery, NEW t \in DOMAIN tasks, Dispose(t)
  PROVE  Delivery'
<1>1. AutosaveTyped /\ tasks[t].pc = "dispose"
  BY DEF Delivery, Dispose
<1>2. PICK w \in Windows : w = tasks[t].window
  BY <1>1, TaskTyped
<1>3. PICK ts : ts = {u \in DOMAIN tasks : tasks[u].window = w /\ tasks[u].pc # "dispose"
                        /\ (tasks[u].pc = "delay" \/ InDrain(u))}
  OBVIOUS
<1>4. /\ form' = [form EXCEPT ![w].disposed = TRUE]
      /\ tasks' = [AfterCancel(ts) EXCEPT ![t].pc = "stop"]
      /\ drains' = [drains EXCEPT ![w] =
            IF @ # <<>> /\ Head(@) \notin Interrupted(ts) THEN <<Head(@)>> ELSE <<>>]
      /\ gate' = Without(gate, Interrupted(ts))
      /\ UNCHANGED <<attempts, canonical, wire, log>>
  BY <1>2, <1>3 DEF Dispose
<1>5. PICK c \in Coordinators : c = form[w]
  BY <1>1 DEF AutosaveTyped
<1>6. PICK n : n = [c EXCEPT !.disposed = TRUE]
  OBVIOUS
<1>7. /\ n \in Coordinators /\ n.retry = c.retry /\ n.conflict = c.conflict /\ n.offered = c.offered
      /\ form' = [form EXCEPT ![w] = n]
  BY <1>4, <1>5, <1>6 DEF Coordinators
<1>8. PICK cs : cs = AfterCancel(ts)
  OBVIOUS
<1>9. cs \in Seq(Tasks) /\ DOMAIN cs = DOMAIN tasks /\ cs[t] \in Tasks
  BY <1>1, <1>8, AfterCancelFacts
<1>10. PICK k : k = [cs[t] EXCEPT !.pc = "stop"]
  OBVIOUS
<1>11. k \in Tasks /\ k.pc = "stop"
  BY <1>9, <1>10 DEF Tasks, TaskPcs
<1>12. tasks' = [cs EXCEPT ![t] = k]
  BY <1>4, <1>8, <1>10
<1>13. /\ tasks' \in Seq(Tasks) /\ DOMAIN tasks' = DOMAIN tasks /\ tasks'[t].pc = "stop"
       /\ \A u \in DOMAIN tasks \ {t} : tasks'[u] = cs[u]
  BY <1>9, <1>11, <1>12
<1>14. ASSUME NEW u \in DOMAIN tasks', tasks'[u].pc \in Waits
       PROVE  /\ u \in DOMAIN tasks /\ u # t /\ u \notin Interrupted(ts) /\ tasks'[u] = cs[u]
              /\ cs[u].window = tasks[u].window /\ cs[u].kind = tasks[u].kind
              /\ cs[u].pc = tasks[u].pc /\ cs[u].tx = tasks[u].tx /\ cs[u].answer = tasks[u].answer
  <2>1. u \in DOMAIN tasks /\ u # t /\ cs[u].pc \in Waits /\ tasks'[u] = cs[u]
    BY <1>13, <1>14 DEF Waits
  <2>2. QED
    BY <1>1, <1>8, <2>1, AfterCancelFacts
<1>15. StillWaiting
  BY <1>14 DEF StillWaiting
<1>16. PICK g : g = Without(gate, Interrupted(ts))
  OBVIOUS
<1>17. g \in Seq(Nat) /\ \A u : IsHead(u, gate) /\ u \notin Interrupted(ts) => IsHead(u, g)
  BY <1>1, <1>16, WithoutFacts DEF IsHead, AutosaveTyped
<1>18. PICK q \in Seq(Nat) : q = drains[w]
  BY <1>1 DEF AutosaveTyped
<1>19. PICK e : e = IF q # <<>> /\ Head(q) \notin Interrupted(ts) THEN <<Head(q)>> ELSE <<>>
  OBVIOUS
<1>20. /\ e \in Seq(Nat) /\ Range(e) \subseteq Range(q)
       /\ \A u : IsHead(u, q) /\ u \notin Interrupted(ts) => IsHead(u, e)
  <2>1. CASE q # <<>> /\ Head(q) \notin Interrupted(ts)
    <3>1. PICK h : h = Head(q)
      OBVIOUS
    <3>2. e = <<h>> /\ h \in Nat /\ h \in Range(q)
      BY <1>19, <2>1, <3>1, RangeHead DEF IsHead
    <3>3. DOMAIN <<h>> = {1} /\ <<h>>[1] = h
      OBVIOUS
    <3>4. Range(e) = {h}
      BY <3>2, <3>3 DEF Range
    <3>5. QED
      BY <3>1, <3>2, <3>4 DEF IsHead
  <2>2. CASE ~(q # <<>> /\ Head(q) \notin Interrupted(ts))
    <3>1. e = <<>> /\ DOMAIN <<>> = {}
      BY <1>19, <2>2
    <3>2. QED
      BY <2>2, <3>1 DEF IsHead, Range
  <2>3. QED
    BY <2>1, <2>2
<1>21. /\ drains' \in [Windows -> Seq(Nat)] /\ drains'[w] = e
       /\ \A v \in Windows : v # w => drains'[v] = drains[v]
  BY <1>1, <1>4, <1>18, <1>19, <1>20 DEF AutosaveTyped
<1>22. GatesKept
  BY <1>4, <1>14, <1>16, <1>17, <1>18, <1>20, <1>21 DEF GatesKept
<1>23. AutosaveTyped'
  <2>1. \A v \in Windows : Range(drains'[v]) \subseteq DOMAIN tasks'
    BY <1>1, <1>13, <1>18, <1>20, <1>21 DEF AutosaveTyped
  <2>2. \A v \in Windows : form'[v].offered <= Len(log)
    BY <1>1, <1>5, <1>7 DEF AutosaveTyped
  <2>3. form' \in [Windows -> Coordinators]
    BY <1>1, <1>7 DEF AutosaveTyped
  <2>4. QED
    BY <1>1, <1>4, <1>13, <1>16, <1>17, <1>21, <2>1, <2>2, <2>3 DEF AutosaveTyped
<1>24. \A v \in Windows : KeptAttempt(v)'
  BY <1>1, <1>4, <1>5, <1>7, KeptStays DEF AutosaveTyped
<1>25. QED
  BY <1>4, <1>15, <1>22, <1>23, <1>24, CalmStep

\* What a coordinator is after a failed save: the attempt is its own.
LEMMA FailedFacts ==
  ASSUME AutosaveTyped, NEW c \in Coordinators, NEW x \in DOMAIN attempts,
         NEW answer \in {"offline", "conflict", "blocked"}
  PROVE  LET n == Failed(c, x, answer) IN
         /\ n \in Coordinators /\ n.offered = c.offered /\ n.phase = FailurePhase[answer]
         /\ n.retry \in {c.retry, x} /\ n.conflict \in {c.conflict, x}
         /\ n.pending = c.pending /\ n.wanted = c.wanted
         /\ n.latest = IF c.pending THEN c.latest ELSE attempts[x].draft
<1>1. attempts[x].draft \in Nat /\ x \in Nat
  <2>1. attempts[x] \in Attempts /\ x \in Nat
    BY DEF AutosaveTyped
  <2>2. QED
    BY <2>1 DEF Attempts
<1>2. PICK l \in Nat : l = IF c.pending THEN c.latest ELSE attempts[x].draft
  BY <1>1 DEF Coordinators
<1>3. PICK r \in {c.retry, x} : r = IF answer = "offline" THEN x ELSE c.retry
  OBVIOUS
<1>4. PICK f \in {c.conflict, x} : f = IF answer = "conflict" THEN x ELSE c.conflict
  OBVIOUS
<1>5. PICK back : back = [c EXCEPT !.latest = l, !.retry = r, !.conflict = f]
  OBVIOUS
<1>6. back \in Coordinators
  BY <1>1, <1>5 DEF Coordinators
<1>7. /\ back.retry = r /\ back.conflict = f /\ back.latest = l /\ back.offered = c.offered
      /\ back.pending = c.pending /\ back.wanted = c.wanted
  BY <1>5 DEF Coordinators
<1>8. Failed(c, x, answer) = InPhase(back, FailurePhase[answer])
  <2>1. back = [c EXCEPT !.latest = IF c.pending THEN c.latest ELSE attempts[x].draft,
                         !.retry = IF answer = "offline" THEN x ELSE c.retry,
                         !.conflict = IF answer = "conflict" THEN x ELSE c.conflict]
    BY <1>2, <1>3, <1>4, <1>5
  <2>2. QED
    BY <2>1 DEF Failed
<1>9. PICK phase \in Phases : phase = FailurePhase[answer]
  BY FailurePhaseFacts
<1>10. PICK n : n = InPhase(back, phase)
  OBVIOUS
<1>11. /\ n \in Coordinators /\ n.phase = phase /\ n.offered = back.offered
       /\ n.retry = back.retry /\ n.conflict = back.conflict /\ n.latest = back.latest
       /\ n.pending = back.pending /\ n.wanted = back.wanted
  BY <1>6, <1>10, PhaseFacts
<1>12. Failed(c, x, answer) = n
  BY <1>8, <1>9, <1>10
<1>13. QED
  BY <1>2, <1>3, <1>4, <1>7, <1>9, <1>11, <1>12

LEMMA CompleteFailureDelivers ==
  ASSUME Delivery, NEW t \in DOMAIN tasks, CompleteFailure(t)
  PROVE  Delivery'
<1>1. AutosaveTyped /\ tasks[t].pc = "answered" /\ tasks[t].answer \in {"offline", "conflict", "blocked"}
  BY DEF Delivery, CompleteFailure, AnswerTrue
<1>2. PICK w \in Windows : w = tasks[t].window
  BY <1>1, TaskTyped
<1>3. PICK x, answer : x = tasks[t].tx /\ answer = tasks[t].answer
  OBVIOUS
<1>4. FlightSound(t)
  BY <1>1 DEF Delivery, Flying, Waits
<1>5. x \in DOMAIN attempts /\ attempts[x].window = w /\ attempts[x].prepared # Unprepared /\ IsHead(t, gate)
  BY <1>1, <1>2, <1>3, <1>4 DEF FlightSound
<1>6. PICK c \in Coordinators : c = form[w]
  BY <1>1 DEF AutosaveTyped
<1>7. PICK n : n = Failed(c, x, answer)
  OBVIOUS
<1>8. /\ n \in Coordinators /\ n.offered = c.offered
      /\ n.retry \in {c.retry, x} /\ n.conflict \in {c.conflict, x}
  BY <1>1, <1>3, <1>5, <1>7, FailedFacts
<1>9. form' = [form EXCEPT ![w] = n]
  BY <1>2, <1>3, <1>6, <1>7 DEF CompleteFailure
<1>10. PICK k : k = Finished(tasks[t])
  OBVIOUS
<1>11. k \in Tasks /\ k.pc \notin Waits /\ tasks' = [tasks EXCEPT ![t] = k]
  BY <1>1, <1>10, EndedFacts, TaskTyped DEF CompleteFailure
<1>12. gate' \in Seq(Nat) /\ \A u : u # t => ~IsHead(u, gate)
  BY <1>1, <1>5 DEF CompleteFailure, AutosaveTyped, IsHead
<1>13. PICK q \in Seq(Nat) : q = drains[w]
  BY <1>1 DEF AutosaveTyped
<1>14. PICK e : e = Without(q, {t})
  OBVIOUS
<1>15. /\ e \in Seq(Nat) /\ Range(e) \subseteq Range(q)
       /\ \A u : IsHead(u, q) /\ u # t => IsHead(u, e)
  BY <1>14, WithoutFacts DEF IsHead
<1>16. /\ drains' \in [Windows -> Seq(Nat)] /\ drains'[w] = e
       /\ \A v \in Windows : v # w => drains'[v] = drains[v]
  BY <1>1, <1>2, <1>13, <1>14, <1>15 DEF AutosaveTyped, CompleteFailure
<1>17. StillWaiting /\ GatesKept /\ tasks' \in Seq(Tasks) /\ DOMAIN tasks' = DOMAIN tasks
  <2>1. ASSUME NEW u \in DOMAIN tasks \ {t}, NEW v \in Windows
        PROVE  /\ IsHead(u, gate) => IsHead(u, gate')
               /\ IsHead(u, drains[v]) => IsHead(u, drains'[v])
               /\ u \in Range(drains'[v]) => u \in Range(drains[v])
    BY <1>12, <1>13, <1>15, <1>16
  <2>2. QED
    BY <1>2, <1>11, <2>1, TaskLeaves
<1>18. UNCHANGED <<attempts, canonical, wire, log>>
  BY DEF CompleteFailure
<1>19. AutosaveTyped'
  BY <1>1, <1>6, <1>8, <1>9, <1>12, <1>13, <1>15, <1>16, <1>17, <1>18 DEF AutosaveTyped
<1>20. \A v \in Windows : KeptAttempt(v)'
  BY <1>1, <1>5, <1>6, <1>8, <1>9, <1>18 DEF Delivery, AutosaveTyped, KeptAttempt
<1>21. QED
  BY <1>17, <1>18, <1>19, <1>20, CalmStep
-----------------------------------------------------------------------------
(* The backend. *)

LEMMA AnsweredFacts ==
  ASSUME AutosaveTyped, NEW x, NEW answer \in {"ok", "offline", "conflict", "blocked"}
  PROVE  /\ Answered(x, answer) \in Seq(Tasks) /\ DOMAIN Answered(x, answer) = DOMAIN tasks
         /\ \A t \in DOMAIN tasks :
              /\ Answered(x, answer)[t].window = tasks[t].window
              /\ Answered(x, answer)[t].kind = tasks[t].kind
              /\ Answered(x, answer)[t].tx = tasks[t].tx
              /\ t \in Waiting(x) => /\ tasks[t].tx = x
                                     /\ Answered(x, answer)[t].pc = "answered"
                                     /\ Answered(x, answer)[t].answer = answer
              /\ t \notin Waiting(x) => Answered(x, answer)[t] = tasks[t]
<1>1. ASSUME NEW t \in DOMAIN tasks
      PROVE  /\ Answered(x, answer)[t] \in Tasks
             /\ Answered(x, answer)[t].window = tasks[t].window
             /\ Answered(x, answer)[t].kind = tasks[t].kind
             /\ Answered(x, answer)[t].tx = tasks[t].tx
             /\ t \in Waiting(x) => /\ tasks[t].tx = x
                                    /\ Answered(x, answer)[t].pc = "answered"
                                    /\ Answered(x, answer)[t].answer = answer
             /\ t \notin Waiting(x) => Answered(x, answer)[t] = tasks[t]
  <2>1. tasks[t] \in Tasks
    BY DEF AutosaveTyped
  <2>2. CASE t \in Waiting(x)
    BY <2>1, <2>2 DEF Answered, Waiting, Tasks, TaskPcs, Waits
  <2>3. CASE t \notin Waiting(x)
    BY <2>1, <2>3 DEF Answered
  <2>4. QED
    BY <2>2, <2>3
<1>2. DOMAIN tasks = 1 .. Len(tasks) /\ Len(tasks) \in Nat
  BY DEF AutosaveTyped
<1>3. DOMAIN Answered(x, answer) = DOMAIN tasks
  BY DEF Answered
<1>4. Answered(x, answer) \in Seq(Tasks)
  <2>1. Answered(x, answer) \in [1 .. Len(tasks) -> Tasks]
    BY <1>1, <1>2 DEF Answered
  <2>2. QED
    BY <1>2, <2>1
<1>5. QED
  BY <1>1, <1>3, <1>4

\* A request that is applied rests on the present revision, so that no later save of its window
\* has been applied yet: that one would have made an older revision of what it rests on.
LEMMA LogGrows ==
  ASSUME Delivery, NEW x \in wire, ~Applied(x), Applies(x), log' = Append(log, Request(x)),
         UNCHANGED attempts, wire' \subseteq wire
  PROVE  /\ BackendSound' /\ log' \in Seq(Requests)
         /\ Len(log) \in Nat /\ Len(log') = Len(log) + 1 /\ DOMAIN log' = 1 .. Len(log) + 1
         /\ DOMAIN log = 1 .. Len(log)
         /\ \A r \in DOMAIN log : log'[r] = log[r]
         /\ log'[Len(log) + 1].tx = x
<1>1. AutosaveTyped /\ BackendSound
  BY DEF Delivery
<1>2. x \in DOMAIN attempts /\ attempts[x].prepared = Len(log) /\ Len(log) \in Nat
  BY <1>1 DEF AutosaveTyped, Applies
<1>3. PICK q : q = Request(x)
  OBVIOUS
<1>4. q \in Requests /\ q.tx = x /\ q.rev = Len(log)
  <2>1. x \in Nat
    BY <1>1, <1>2 DEF AutosaveTyped
  <2>2. QED
    BY <1>2, <1>3, <2>1 DEF Request, Requests
<1>5. /\ log' \in Seq(Requests) /\ Len(log') = Len(log) + 1 /\ DOMAIN log' = 1 .. Len(log) + 1
      /\ DOMAIN log = 1 .. Len(log)
      /\ \A r \in DOMAIN log : log'[r] = log[r]
      /\ log'[Len(log) + 1] = q
  BY <1>1, <1>3, <1>4 DEF AutosaveTyped
<1>6. \A y \in DOMAIN attempts : attempts'[y] = attempts[y] /\ attempts[y].prepared \in Int
                                /\ attempts[y].prepared <= Len(log)
  <2>1. \A y \in DOMAIN attempts : attempts[y] \in Attempts
    BY <1>1 DEF AutosaveTyped
  <2>2. QED
    BY <1>1, <2>1 DEF BackendSound, Attempts, Unprepared
<1>7. \A y \in DOMAIN attempts' : attempts'[y].prepared <= Len(log')
  BY <1>2, <1>5, <1>6
<1>8. ASSUME NEW r \in DOMAIN log'
      PROVE  log'[r].tx \in DOMAIN attempts' /\ attempts'[log'[r].tx].prepared = log'[r].rev
  BY <1>1, <1>2, <1>4, <1>5 DEF BackendSound
<1>9. ASSUME NEW r \in DOMAIN log', NEW y \in DOMAIN attempts', y < log'[r].tx,
             attempts'[y].window = attempts'[log'[r].tx].window
      PROVE  attempts'[y].prepared < r
  <2>1. CASE r \in DOMAIN log
    BY <1>1, <1>5, <1>9, <2>1 DEF BackendSound
  <2>2. CASE r = Len(log) + 1
    BY <1>2, <1>6, <2>2
  <2>3. QED
    BY <1>5, <2>1, <2>2
<1>10. ASSUME NEW i \in DOMAIN log', NEW j \in DOMAIN log', i < j,
              attempts'[log'[i].tx].window = attempts'[log'[j].tx].window
       PROVE  log'[i].tx < log'[j].tx
  <2>1. i \in DOMAIN log /\ i <= Len(log)
    BY <1>2, <1>5, <1>10
  <2>2. CASE j \in DOMAIN log
    BY <1>1, <1>5, <1>10, <2>1, <2>2 DEF BackendSound
  <2>3. CASE j = Len(log) + 1
    <3>1. log'[j].tx = x /\ log'[i] = log[i]
      BY <1>4, <1>5, <2>1, <2>3
    <3>2. log[i].tx # x /\ log[i].tx \in DOMAIN attempts
      BY <1>1, <2>1 DEF Applied, BackendSound
    <3>3. ~(x < log[i].tx)
      <4>1. x < log[i].tx => attempts[x].prepared < i
        BY <1>1, <1>2, <1>10, <2>1, <3>1 DEF BackendSound
      <4>2. QED
        BY <1>2, <1>5, <2>1, <4>1
    <3>4. x \in Nat /\ log[i].tx \in Nat
      BY <1>1, <1>2, <3>2 DEF AutosaveTyped
    <3>5. QED
      BY <3>1, <3>2, <3>3, <3>4
  <2>4. QED
    BY <1>5, <2>2, <2>3
<1>11. \A y \in wire' : attempts'[y].prepared # Unprepared
  BY <1>1 DEF BackendSound
<1>12. BackendSound'
  BY <1>7, <1>8, <1>9, <1>10, <1>11 DEF BackendSound
<1>13. QED
  BY <1>2, <1>4, <1>5, <1>12

\* An answer that is true of the backend reaches whoever waits for it.
LEMMA AnswerDelivers ==
  ASSUME Delivery, NEW x \in wire, NEW answer \in {"ok", "offline", "conflict", "blocked"},
         tasks' = Answered(x, answer), wire' = wire \ {x},
         UNCHANGED <<form, attempts, drains, gate, canonical>>,
         BackendSound', log' \in Seq(Requests), Len(log) <= Len(log'),
         \A r \in DOMAIN log : r \in DOMAIN log' /\ log'[r] = log[r],
         \A r \in DOMAIN log' \ DOMAIN log : log'[r].tx = x,
         answer = "ok" => Applied(x)', answer \in {"conflict", "blocked"} => ~Applied(x)'
  PROVE  Delivery'
<1>1. AutosaveTyped
  BY DEF Delivery
<1>2. PICK ts : ts = Answered(x, answer)
  OBVIOUS
<1>3. /\ ts \in Seq(Tasks) /\ DOMAIN ts = DOMAIN tasks
      /\ \A t \in DOMAIN tasks :
           /\ ts[t].window = tasks[t].window /\ ts[t].kind = tasks[t].kind /\ ts[t].tx = tasks[t].tx
           /\ t \in Waiting(x) => /\ tasks[t].tx = x /\ ts[t].pc = "answered" /\ ts[t].answer = answer
           /\ t \notin Waiting(x) => ts[t] = tasks[t]
  BY <1>1, <1>2, AnsweredFacts
<1>4. tasks' = ts
  BY <1>2
<1>5. AutosaveTyped'
  <2>1. Len(log) \in Nat /\ Len(log') \in Nat
    BY <1>1 DEF AutosaveTyped
  <2>2. \A w \in Windows : form[w].offered \in Int
    BY <1>1 DEF AutosaveTyped, Coordinators
  <2>3. canonical' \in 0 .. Len(log') /\ \A w \in Windows : form'[w].offered <= Len(log')
    BY <1>1, <2>1, <2>2 DEF AutosaveTyped
  <2>4. QED
    BY <1>1, <1>3, <1>4, <2>3 DEF AutosaveTyped
<1>6. \A w \in Windows : KeptAttempt(w)'
  BY <1>1, KeptStays DEF AutosaveTyped, Delivery, KeptAttempt
<1>7. ASSUME NEW t \in DOMAIN tasks', Flying(t)' PROVE FlightSound(t)'
  <2>1. t \in DOMAIN tasks /\ tasks'[t].window = tasks[t].window /\ tasks'[t].kind = tasks[t].kind
        /\ tasks'[t].tx = tasks[t].tx
    BY <1>3, <1>4
  <2>2. CASE t \in Waiting(x)
    <3>1. tasks[t].pc = "sent"
      BY <2>2 DEF Waiting
    <3>2. FlightSound(t)
      BY <2>1, <3>1 DEF Delivery, Flying, Waits
    <3>3. QED
      BY <2>1, <3>1, <3>2 DEF FlightSound, InDrain
  <2>3. CASE t \notin Waiting(x)
    <3>1. tasks'[t] = tasks[t]
      BY <1>3, <1>4, <2>1, <2>3
    <3>2. FlightSound(t)
      BY <1>7, <2>1, <3>1 DEF Delivery, Flying
    <3>3. QED
      BY <2>1, <3>1, <3>2 DEF FlightSound, InDrain
  <2>4. QED
    BY <2>2, <2>3
<1>8. ASSUME NEW t \in DOMAIN tasks', tasks'[t].pc = "answered" PROVE AnswerTrue(t)'
  <2>1. t \in DOMAIN tasks
    BY <1>3, <1>4
  <2>2. CASE t \in Waiting(x)
    <3>1. tasks'[t].tx = x /\ tasks'[t].answer = answer /\ x \notin wire'
      BY <1>3, <1>4, <2>1, <2>2
    <3>2. QED
      BY <3>1 DEF AnswerTrue, Applied
  <2>3. CASE t \notin Waiting(x)
    <3>1. tasks'[t] = tasks[t]
      BY <1>3, <1>4, <2>1, <2>3
    <3>2. AnswerTrue(t)
      BY <1>8, <2>1, <3>1 DEF Delivery
    <3>3. tasks[t].tx # x
      BY <3>2 DEF AnswerTrue
    <3>4. Applied(tasks[t].tx)' <=> Applied(tasks[t].tx)
      <4>1. PICK y : y = tasks[t].tx
        OBVIOUS
      <4>2. (\E r \in DOMAIN log' : log'[r].tx = y) <=> (\E r \in DOMAIN log : log[r].tx = y)
        BY <3>3, <4>1
      <4>3. tasks'[t].tx = y
        BY <3>1, <4>1
      <4>4. QED
        BY <4>1, <4>2, <4>3 DEF Applied
    <3>5. QED
      BY <3>1, <3>2, <3>4 DEF AnswerTrue
  <2>4. QED
    BY <2>2, <2>3
<1>9. QED
  BY <1>5, <1>6, <1>7, <1>8 DEF Delivery

LEMMA ServeDelivers ==
  ASSUME Delivery, NEW x \in wire, Serve(x)
  PROVE  Delivery'
<1>1. AutosaveTyped /\ BackendSound
  BY DEF Delivery
<1>2. PICK answer \in Answers(x) :
        /\ log' = IF answer = "ok" /\ ~Applied(x) THEN Append(log, Request(x)) ELSE log
        /\ tasks' = Answered(x, answer) \/ tasks' = Answered(x, "offline")
  BY DEF Serve
<1>3. wire' = wire \ {x} /\ UNCHANGED <<form, attempts, drains, gate, canonical>>
  BY DEF Serve
<1>4. Applied(x) => answer = "ok"
  <2>1. ASSUME Applied(x) PROVE answer = "ok"
    <3>1. PICK r \in DOMAIN log : log[r].tx = x
      BY <2>1 DEF Applied
    <3>2. log[r] = Request(x)
      <4>1. log[r] \in Requests /\ attempts[x].prepared = log[r].rev
        BY <1>1, <3>1 DEF AutosaveTyped, BackendSound
      <4>2. QED
        BY <3>1, <4>1 DEF Request, Requests
    <3>3. Request(x) \in Range(log)
      BY <3>1, <3>2 DEF Range
    <3>4. QED
      BY <1>2, <2>1, <3>3 DEF Answers
  <2>2. QED
    BY <2>1
<1>5. answer \in {"ok", "conflict", "blocked"}
  BY <1>2, <1>4 DEF Answers
<1>6. CASE answer = "ok" /\ ~Applied(x)
  <2>1. Applies(x)
    BY <1>2, <1>6 DEF Answers
  <2>2. log' = Append(log, Request(x))
    BY <1>2, <1>6
  <2>3. /\ BackendSound' /\ log' \in Seq(Requests)
        /\ Len(log) \in Nat /\ Len(log') = Len(log) + 1 /\ DOMAIN log' = 1 .. Len(log) + 1
        /\ DOMAIN log = 1 .. Len(log)
        /\ \A r \in DOMAIN log : log'[r] = log[r]
        /\ log'[Len(log) + 1].tx = x
    BY <1>3, <1>6, <2>1, <2>2, LogGrows
  <2>4. /\ \A r \in DOMAIN log : r \in DOMAIN log' /\ log'[r] = log[r]
        /\ \A r \in DOMAIN log' \ DOMAIN log : log'[r].tx = x
        /\ Len(log) <= Len(log')
    BY <2>3
  <2>5. Applied(x)'
    <3>1. Len(log) + 1 \in DOMAIN log'
      BY <2>3
    <3>2. QED
      BY <2>3, <3>1 DEF Applied
  <2>6. CASE tasks' = Answered(x, answer)
    BY <1>3, <1>5, <1>6, <2>3, <2>4, <2>5, <2>6, AnswerDelivers
  <2>7. CASE tasks' = Answered(x, "offline")
    BY <1>3, <2>3, <2>4, <2>7, AnswerDelivers
  <2>8. QED
    BY <1>2, <2>6, <2>7
<1>7. CASE ~(answer = "ok" /\ ~Applied(x))
  <2>1. log' = log
    BY <1>2, <1>7
  <2>2. /\ log' \in Seq(Requests) /\ Len(log) <= Len(log')
        /\ \A r \in DOMAIN log : r \in DOMAIN log' /\ log'[r] = log[r]
        /\ \A r \in DOMAIN log' \ DOMAIN log : log'[r].tx = x
    BY <1>1, <2>1 DEF AutosaveTyped
  <2>3. BackendSound'
    BY <1>1, <1>3, <2>1 DEF BackendSound
  <2>4. (answer = "ok" => Applied(x)') /\ (answer \in {"conflict", "blocked"} => ~Applied(x)')
    BY <1>4, <1>5, <1>7, <2>1 DEF Applied
  <2>5. CASE tasks' = Answered(x, answer)
    BY <1>3, <1>5, <2>2, <2>3, <2>4, <2>5, AnswerDelivers
  <2>6. CASE tasks' = Answered(x, "offline")
    BY <1>3, <2>2, <2>3, <2>6, AnswerDelivers
  <2>7. QED
    BY <1>2, <2>5, <2>6
<1>8. QED
  BY <1>6, <1>7

LEMMA LoseDelivers ==
  ASSUME Delivery, NEW x \in wire, Lose(x)
  PROVE  Delivery'
<1>1. /\ log' = log /\ log' \in Seq(Requests) /\ Len(log) <= Len(log')
      /\ \A r \in DOMAIN log : r \in DOMAIN log' /\ log'[r] = log[r]
      /\ \A r \in DOMAIN log' \ DOMAIN log : log'[r].tx = x
  BY DEF Lose, Delivery, AutosaveTyped
<1>2. wire' = wire \ {x} /\ UNCHANGED <<form, attempts, drains, gate, canonical>>
      /\ tasks' = Answered(x, "offline")
  BY DEF Lose
<1>3. BackendSound'
  BY <1>1, <1>2 DEF Delivery, BackendSound
<1>4. QED
  BY <1>1, <1>2, <1>3, AnswerDelivers
-----------------------------------------------------------------------------
(* Making, preparing and sending a save. *)

\* An attempt is new, or it is the last of its window when it is prepared.
LEMMA PreparationIsSound ==
  ASSUME Delivery, UNCHANGED log, attempts' \in Seq(Attempts), NEW x \in DOMAIN attempts',
         \A y \in DOMAIN attempts' \ {x} : y \in DOMAIN attempts /\ attempts'[y] = attempts[y],
         \A y \in DOMAIN attempts : y \in DOMAIN attempts',
         attempts'[x].prepared <= Len(log),
         x \in DOMAIN attempts =>
           \/ attempts'[x] = attempts[x]
           \/ /\ attempts'[x].window = attempts[x].window /\ attempts[x].prepared = Unprepared
              /\ \A y \in DOMAIN attempts : attempts[y].window = attempts[x].window => y <= x,
         x \notin DOMAIN attempts => \A y \in DOMAIN attempts : y < x,
         \A y \in wire' : y \in wire \/ y = x,
         x \in wire' => attempts'[x].prepared # Unprepared
  PROVE  BackendSound'
<1>1. AutosaveTyped /\ BackendSound
  BY DEF Delivery
<1>2. /\ \A y \in DOMAIN attempts : y \in Nat
      /\ x \in Nat /\ wire \subseteq DOMAIN attempts
  BY <1>1 DEF AutosaveTyped
<1>3. \A r \in DOMAIN log :
        /\ log[r].tx \in DOMAIN attempts /\ attempts[log[r].tx].prepared = log[r].rev
        /\ attempts[log[r].tx].prepared # Unprepared
  <2>1. \A r \in DOMAIN log : log[r] \in Requests
    BY <1>1 DEF AutosaveTyped
  <2>2. QED
    BY <1>1, <2>1 DEF BackendSound, Requests, Unprepared
<1>4. \A r \in DOMAIN log :
        /\ attempts'[log[r].tx].window = attempts[log[r].tx].window
        /\ attempts'[log[r].tx].prepared = attempts[log[r].tx].prepared
  BY <1>3
<1>5. \A y \in DOMAIN attempts' : attempts'[y].prepared <= Len(log')
  BY <1>1 DEF BackendSound
<1>6. \A y \in wire' : attempts'[y].prepared # Unprepared
  BY <1>1, <1>2 DEF BackendSound
<1>7. \A r \in DOMAIN log' :
        log'[r].tx \in DOMAIN attempts' /\ attempts'[log'[r].tx].prepared = log'[r].rev
  BY <1>3, <1>4
<1>8. ASSUME NEW r \in DOMAIN log', NEW y \in DOMAIN attempts', y < log'[r].tx,
             attempts'[y].window = attempts'[log'[r].tx].window
      PROVE  attempts'[y].prepared < r
  <2>1. PICK z : z = log[r].tx
    OBVIOUS
  <2>2. r \in DOMAIN log /\ log'[r].tx = z /\ z \in DOMAIN attempts /\ z \in Nat /\ y < z
        /\ attempts'[z].window = attempts[z].window
    BY <1>2, <1>3, <1>4, <1>8, <2>1
  <2>3. y \in DOMAIN attempts
    <3>1. y = x => x \in DOMAIN attempts
      BY <1>2, <2>2
    <3>2. QED
      BY <3>1
  <2>4. attempts'[y].window = attempts[y].window /\ attempts[z].window = attempts[y].window
    BY <1>8, <2>2, <2>3
  <2>5. attempts'[y] = attempts[y]
    <3>1. CASE y = x
      <4>1. ~(z <= x)
        BY <1>2, <2>2, <3>1
      <4>2. QED
        BY <2>2, <2>3, <2>4, <3>1, <4>1
    <3>2. CASE y # x
      BY <3>2
    <3>3. QED
      BY <3>1, <3>2
  <2>6. QED
    BY <1>1, <2>1, <2>2, <2>3, <2>4, <2>5 DEF BackendSound
<1>9. \A i, j \in DOMAIN log' :
        i < j /\ attempts'[log'[i].tx].window = attempts'[log'[j].tx].window
          => log'[i].tx < log'[j].tx
  BY <1>1, <1>4 DEF BackendSound
<1>10. QED
  BY <1>5, <1>6, <1>7, <1>8, <1>9 DEF BackendSound

\* One task takes a step; for the others nothing changes that they rely on.
LEMMA OthersGoOn ==
  ASSUME Delivery, AutosaveTyped', BackendSound', \A w \in Windows : KeptAttempt(w)',
         UNCHANGED log, NEW t,
         \A u \in DOMAIN tasks' \ {t} : u \in DOMAIN tasks /\ tasks'[u] = tasks[u],
         \A u \in DOMAIN tasks' \ {t} : Flying(u) =>
           /\ IsHead(u, gate) => IsHead(u, gate')
           /\ \A v \in {tasks[u].window} : /\ IsHead(u, drains[v]) => IsHead(u, drains'[v])
                                           /\ u \in Range(drains'[v]) => u \in Range(drains[v]),
         \A y \in DOMAIN attempts :
           /\ y \in DOMAIN attempts' /\ attempts'[y].window = attempts[y].window
           /\ attempts[y].prepared # Unprepared => attempts'[y].prepared # Unprepared,
         \A u \in DOMAIN tasks' \ {t} : \A y \in DOMAIN attempts' \ DOMAIN attempts :
           Flying(u) /\ attempts[tasks[u].tx].prepared = Unprepared =>
             attempts'[y].window # tasks[u].window,
         wire' = wire \/ \A u \in DOMAIN tasks' \ {t} : tasks[u].pc # "answered",
         t \in DOMAIN tasks' => tasks'[t].pc # "answered" /\ (Flying(t)' => FlightSound(t)')
  PROVE  Delivery'
<1>1. AutosaveTyped
  BY DEF Delivery
<1>2. ASSUME NEW u \in DOMAIN tasks', Flying(u)' PROVE FlightSound(u)'
  <2>1. CASE u = t
    BY <1>2, <2>1
  <2>2. CASE u # t
    <3>1. u \in DOMAIN tasks /\ tasks'[u] = tasks[u] /\ Flying(u) /\ FlightSound(u)
      BY <1>2, <2>2 DEF Delivery, Flying
    <3>2. PICK w \in Windows : w = tasks[u].window
      BY <1>1, <3>1, TaskTyped
    <3>3. PICK x : x = tasks[u].tx
      OBVIOUS
    <3>4. /\ IsHead(u, gate) => IsHead(u, gate')
          /\ IsHead(u, drains[w]) => IsHead(u, drains'[w])
          /\ u \in Range(drains'[w]) => u \in Range(drains[w])
      BY <2>2, <3>1, <3>2
    <3>5. IsHead(u, drains[w]) => u \in Range(drains'[w])
      BY <3>4, RangeHead DEF AutosaveTyped
    <3>6. /\ x \in DOMAIN attempts /\ attempts[x].window = w
          /\ tasks[u].pc # "store" => IsHead(u, gate) /\ attempts[x].prepared # Unprepared
          /\ u \in Range(drains[w]) => IsHead(u, drains[w])
          /\ u \notin Range(drains[w]) => tasks[u].kind = "retry" /\ attempts[x].prepared # Unprepared
          /\ attempts[x].prepared = Unprepared =>
               \A y \in DOMAIN attempts : attempts[y].window = w => y <= x
      BY <3>1, <3>2, <3>3 DEF FlightSound, InDrain
    <3>7. /\ x \in DOMAIN attempts' /\ attempts'[x].window = w
          /\ attempts'[x].prepared = Unprepared => attempts[x].prepared = Unprepared
      BY <3>6
    <3>8. attempts'[x].prepared = Unprepared =>
            \A y \in DOMAIN attempts' : attempts'[y].window = w => y <= x
      BY <2>2, <3>1, <3>2, <3>3, <3>6, <3>7
    <3>9. QED
      BY <3>1, <3>2, <3>3, <3>4, <3>5, <3>6, <3>7, <3>8 DEF FlightSound, InDrain
  <2>3. QED
    BY <2>1, <2>2
<1>3. ASSUME NEW u \in DOMAIN tasks', tasks'[u].pc = "answered" PROVE AnswerTrue(u)'
  <2>1. u # t /\ u \in DOMAIN tasks /\ tasks'[u] = tasks[u] /\ AnswerTrue(u) /\ wire' = wire
    BY <1>3 DEF Delivery
  <2>2. QED
    BY <2>1 DEF AnswerTrue, Applied
<1>4. QED
  BY <1>2, <1>3 DEF Delivery

LEMMA StoreGrantedDelivers ==
  ASSUME Delivery, NEW t \in DOMAIN tasks, StoreGranted(t)
  PROVE  Delivery'
<1>1. AutosaveTyped /\ BackendSound
  BY DEF Delivery
<1>2. /\ tasks[t].pc = "store" /\ Head(gate) = t
      /\ UNCHANGED <<form, canonical, log>>
  BY DEF StoreGranted, IsHead
<1>3. PICK w \in Windows : w = tasks[t].window
  BY <1>1, TaskTyped
<1>4. PICK x : x = tasks[t].tx
  OBVIOUS
<1>5. FlightSound(t)
  BY <1>2 DEF Delivery, Flying, Waits
<1>6. /\ x \in DOMAIN attempts /\ attempts[x].window = w
      /\ attempts[x].prepared = Unprepared =>
           /\ IsHead(t, drains[w])
           /\ \A y \in DOMAIN attempts : attempts[y].window = w => y <= x
      /\ InDrain(t) => IsHead(t, drains[w])
      /\ ~InDrain(t) => tasks[t].kind = "retry" /\ attempts[x].prepared # Unprepared
  BY <1>3, <1>4, <1>5 DEF FlightSound
<1>7. PICK a \in Attempts : a = attempts[x]
  BY <1>1, <1>6 DEF AutosaveTyped
<1>8. PICK b : b = IF a.prepared # Unprepared THEN a ELSE [a EXCEPT !.prepared = canonical]
  OBVIOUS
<1>9. canonical \in Nat /\ canonical <= Len(log) /\ Len(log) \in Nat
  BY <1>1 DEF AutosaveTyped
<1>10. /\ b \in Attempts /\ b.window = w /\ b.prepared # Unprepared /\ b.prepared <= Len(log)
       /\ a.prepared # Unprepared => b = a
  <2>1. a.prepared <= Len(log)
    BY <1>1, <1>6, <1>7 DEF BackendSound
  <2>2. QED
    BY <1>6, <1>7, <1>8, <1>9, <2>1 DEF Attempts, Unprepared
<1>11. attempts' = [attempts EXCEPT ![x] = b] /\ wire' \in {wire, wire \cup {x}}
  BY <1>2, <1>4, <1>7, <1>8 DEF StoreGranted, Prepared
<1>12. /\ attempts' \in Seq(Attempts) /\ DOMAIN attempts' = DOMAIN attempts /\ attempts'[x] = b
       /\ \A y \in DOMAIN attempts \ {x} : attempts'[y] = attempts[y]
  BY <1>1, <1>6, <1>10, <1>11 DEF AutosaveTyped
<1>13. PICK o \in Tasks : o = tasks[t]
  BY <1>1, TaskTyped
<1>14. PICK q \in Seq(Nat) : q = drains[w]
  BY <1>1 DEF AutosaveTyped
<1>15. PICK k \in Tasks, e \in Seq(Nat), g \in Seq(Nat) :
         /\ tasks' = [tasks EXCEPT ![t] = k] /\ drains' = [drains EXCEPT ![w] = e] /\ gate' = g
         /\ k.window = w /\ k.pc # "answered" /\ Range(e) \subseteq Range(q)
         /\ \A u : u # t => /\ IsHead(u, q) => IsHead(u, e)
                            /\ IsHead(u, gate) => IsHead(u, g)
         /\ k.pc \in Waits => /\ k.pc = "sent" /\ k.tx = x /\ k.kind = o.kind
                              /\ e = q /\ g = gate
  <2>1. CASE ~o.cancelled
    <3>1. PICK k : k = [o EXCEPT !.pc = "sent"]
      OBVIOUS
    <3>2. k \in Tasks /\ k.pc = "sent" /\ k.tx = x /\ k.window = w /\ k.kind = o.kind
      BY <1>3, <1>4, <1>13, <3>1 DEF Tasks, TaskPcs, Waits
    <3>3. tasks' = [tasks EXCEPT ![t] = k] /\ UNCHANGED <<drains, gate>>
      BY <1>13, <2>1, <3>1 DEF StoreGranted
    <3>4. drains' = [drains EXCEPT ![w] = q] /\ gate \in Seq(Nat)
      BY <1>1, <1>14, <3>3 DEF AutosaveTyped
    <3>5. QED
      BY <3>2, <3>3, <3>4
  <2>2. CASE o.cancelled
    <3>1. PICK k : k = Finished(o)
      OBVIOUS
    <3>2. k \in Tasks /\ k.window = w /\ k.pc \notin Waits
      BY <1>3, <1>13, <3>1, EndedFacts
    <3>3. k.pc # "answered"
      BY <3>2 DEF Waits
    <3>4. PICK e : e = Without(q, {t})
      OBVIOUS
    <3>5. /\ e \in Seq(Nat) /\ Range(e) \subseteq Range(q)
          /\ \A u : IsHead(u, q) /\ u # t => IsHead(u, e)
      BY <3>4, WithoutFacts DEF IsHead
    <3>6. PICK g : g = Tail(gate)
      OBVIOUS
    <3>7. g \in Seq(Nat) /\ \A u : u # t => ~IsHead(u, gate)
      BY <1>1, <1>2, <3>6 DEF StoreGranted, AutosaveTyped, IsHead
    <3>8. tasks' = [tasks EXCEPT ![t] = k] /\ gate' = g
      BY <1>13, <2>2, <3>1, <3>6 DEF StoreGranted
    <3>9. drains' = [drains EXCEPT ![w] = e]
      BY <1>1, <1>3, <1>13, <1>14, <2>2, <3>4 DEF StoreGranted, AutosaveTyped
    <3>10. QED
      BY <3>2, <3>3, <3>5, <3>7, <3>8, <3>9
  <2>3. QED
    BY <2>1, <2>2
<1>16. /\ tasks' \in Seq(Tasks) /\ DOMAIN tasks' = DOMAIN tasks /\ tasks'[t] = k
       /\ \A u \in DOMAIN tasks \ {t} : tasks'[u] = tasks[u]
       /\ drains' \in [Windows -> Seq(Nat)] /\ drains'[w] = e
       /\ \A v \in Windows : v # w => drains'[v] = drains[v]
  BY <1>1, <1>15 DEF AutosaveTyped
<1>17. AutosaveTyped'
  <2>1. \A v \in Windows : Range(drains'[v]) \subseteq DOMAIN tasks'
    BY <1>1, <1>14, <1>15, <1>16 DEF AutosaveTyped
  <2>2. gate' \in Seq(Nat)
    BY <1>15
  <2>3. QED
    BY <1>1, <1>2, <1>6, <1>11, <1>12, <1>16, <2>1, <2>2 DEF AutosaveTyped
<1>18. BackendSound'
  BY <1>2, <1>6, <1>7, <1>10, <1>11, <1>12, PreparationIsSound
<1>19. \A y \in DOMAIN attempts :
         /\ attempts'[y].window = attempts[y].window
         /\ attempts[y].prepared # Unprepared => attempts'[y].prepared # Unprepared
  BY <1>6, <1>7, <1>10, <1>12
<1>20. \A v \in Windows : KeptAttempt(v)'
  BY <1>2, <1>12, <1>19 DEF Delivery, KeptAttempt
<1>21. IsHead(t, gate) /\ \A u \in DOMAIN tasks \ {t} : tasks[u].pc # "answered"
  <2>1. IsHead(t, gate)
    BY DEF StoreGranted
  <2>2. ASSUME NEW u \in DOMAIN tasks, tasks[u].pc = "answered" PROVE IsHead(u, gate)
    BY <2>2 DEF Delivery, Flying, Waits, FlightSound
  <2>3. QED
    BY <2>1, <2>2 DEF IsHead
<1>22. ASSUME Flying(t)' PROVE FlightSound(t)'
  <2>1. k.pc = "sent" /\ k.tx = x /\ k.kind = o.kind /\ UNCHANGED gate /\ e = q
    BY <1>15, <1>16, <1>22 DEF Flying
  <2>2. InDrain(t) <=> t \in Range(drains[w])
    BY <1>3 DEF InDrain
  <2>3. InDrain(t)' <=> t \in Range(drains[w])
    BY <1>14, <1>15, <1>16, <2>1 DEF InDrain
  <2>4. b.prepared # Unprepared
    BY <1>10
  <2>5. QED
    BY <1>6, <1>7, <1>10, <1>12, <1>13, <1>14, <1>15, <1>16, <1>21, <2>1, <2>2, <2>3, <2>4 DEF FlightSound
<1>23. ASSUME NEW u \in DOMAIN tasks' \ {t}, NEW v \in Windows
       PROVE  /\ IsHead(u, gate) => IsHead(u, gate')
              /\ IsHead(u, drains[v]) => IsHead(u, drains'[v])
              /\ u \in Range(drains'[v]) => u \in Range(drains[v])
  <2>1. u # t
    OBVIOUS
  <2>2. IsHead(u, gate) => IsHead(u, gate')
    BY <1>15, <2>1
  <2>3. CASE v = w
    <3>1. IsHead(u, q) => IsHead(u, e)
      BY <1>15, <2>1
    <3>2. u \in Range(e) => u \in Range(q)
      BY <1>15
    <3>3. drains[v] = q /\ drains'[v] = e
      BY <1>14, <1>16, <2>3
    <3>4. QED
      BY <2>2, <3>1, <3>2, <3>3
  <2>4. CASE v # w
    <3>1. drains'[v] = drains[v]
      BY <1>16, <2>4
    <3>2. QED
      BY <2>2, <3>1
  <2>5. QED
    BY <2>3, <2>4
<1>24. QED
  <2>1. tasks'[t].pc # "answered"
    BY <1>15, <1>16
  <2>2. \A u \in DOMAIN tasks' \ {t} : u \in DOMAIN tasks /\ tasks'[u] = tasks[u]
                                      /\ tasks[u].pc # "answered"
    BY <1>16, <1>21
  <2>3. DOMAIN attempts' \ DOMAIN attempts = {}
    BY <1>12
  <2>4. \A u \in DOMAIN tasks' \ {t} :
          /\ IsHead(u, gate) => IsHead(u, gate')
          /\ \A v \in {tasks[u].window} : /\ IsHead(u, drains[v]) => IsHead(u, drains'[v])
                                          /\ u \in Range(drains'[v]) => u \in Range(drains[v])
    <3>1. ASSUME NEW u \in DOMAIN tasks' \ {t} PROVE tasks[u].window \in Windows
      BY <1>1, <2>2, <3>1, TaskTyped
    <3>2. QED
      BY <1>23, <3>1
  <2>5. \A y \in DOMAIN attempts : y \in DOMAIN attempts'
    BY <1>12
  <2>6. UNCHANGED log
    BY <1>2
  <2>7. QED
    BY <1>17, <1>18, <1>19, <1>20, <1>22, <2>1, <2>2, <2>3, <2>4, <2>5, <2>6, OthersGoOn

\* What is repeated has been prepared, and is sent as it was.
LEMMA RetryDelivers ==
  ASSUME Delivery, NEW w \in Windows, Retry(w)
  PROVE  Delivery'
<1>1. AutosaveTyped /\ BackendSound
  BY DEF Delivery
<1>2. PICK t, x : t = Len(tasks) + 1 /\ x = form[w].retry
  OBVIOUS
<1>3. /\ x # None /\ UNCHANGED <<drains, canonical, log>> /\ Save(t, x, attempts, gate)
  BY <1>2 DEF Retry
<1>4. x \in DOMAIN attempts /\ attempts[x].window = w /\ attempts[x].prepared # Unprepared
  BY <1>2, <1>3 DEF Delivery, KeptAttempt
<1>5. attempts' = attempts
  <2>1. Prepared(attempts[x]) = attempts[x]
    BY <1>4 DEF Prepared
  <2>2. [attempts EXCEPT ![x] = attempts[x]] = attempts
    BY <1>1, <1>4 DEF AutosaveTyped
  <2>3. QED
    BY <1>3, <2>1, <2>2 DEF Save
<1>6. PICK k : k = [Task(w, "retry", SavePc(gate)) EXCEPT !.tx = x]
  OBVIOUS
<1>7. /\ k \in Tasks /\ k.pc = SavePc(gate) /\ k.tx = x /\ k.window = w /\ k.kind = "retry"
      /\ k.pc \in {"store", "sent"}
  <2>1. x \in Nat
    BY <1>1, <1>4 DEF AutosaveTyped
  <2>2. QED
    BY <1>6, <2>1 DEF Task, Tasks, TaskPcs, Waits, Kinds, None, SavePc
<1>8. tasks' = Append(tasks, k)
  BY <1>2, <1>6 DEF Retry
<1>9. /\ tasks' \in Seq(Tasks) /\ Len(tasks) \in Nat /\ DOMAIN tasks = 1 .. Len(tasks)
      /\ DOMAIN tasks' = 1 .. Len(tasks) + 1 /\ tasks'[t] = k
      /\ \A u \in DOMAIN tasks : tasks'[u] = tasks[u]
  BY <1>1, <1>2, <1>7, <1>8 DEF AutosaveTyped
<1>10. /\ t \notin DOMAIN tasks /\ t \in Nat /\ t \in DOMAIN tasks'
       /\ \A u \in DOMAIN tasks' \ {t} : u \in DOMAIN tasks /\ tasks'[u] = tasks[u]
  BY <1>2, <1>9
<1>11. PICK c \in Coordinators : c = form[w]
  BY <1>1 DEF AutosaveTyped
<1>12. PICK n : n = InPhase(c, "Saving")
  OBVIOUS
<1>13. n \in Coordinators /\ n.retry = c.retry /\ n.conflict = c.conflict /\ n.offered = c.offered
  BY <1>12, PhaseFacts DEF Phases
<1>14. form' = [form EXCEPT ![w] = n]
  BY <1>11, <1>12 DEF Retry
<1>15. /\ gate' \in Seq(Nat) /\ \A u : IsHead(u, gate) => IsHead(u, gate')
       /\ gate = <<>> => IsHead(t, gate')
  <2>1. gate' = Append(gate, t) /\ gate \in Seq(Nat)
    BY <1>1, <1>3 DEF Save, AutosaveTyped
  <2>2. QED
    BY <1>10, <2>1 DEF IsHead
<1>16. \A v \in Windows : form'[v].offered <= Len(log) /\ form'[v].retry = form[v].retry
                         /\ form'[v].conflict = form[v].conflict
  BY <1>1, <1>11, <1>13, <1>14 DEF AutosaveTyped
<1>17. \A y \in wire' : y \in wire \/ y = x
  BY <1>3 DEF Save
<1>18. \A v \in Windows : Range(drains'[v]) \subseteq DOMAIN tasks /\ DOMAIN tasks \subseteq DOMAIN tasks'
  BY <1>1, <1>3, <1>9 DEF AutosaveTyped
<1>19. AutosaveTyped'
  <2>1. form' \in [Windows -> Coordinators]
    BY <1>1, <1>13, <1>14 DEF AutosaveTyped
  <2>2. wire' \subseteq DOMAIN attempts'
    BY <1>1, <1>4, <1>5, <1>17 DEF AutosaveTyped
  <2>3. QED
    BY <1>1, <1>3, <1>5, <1>9, <1>15, <1>16, <1>18, <2>1, <2>2 DEF AutosaveTyped
<1>20. BackendSound'
  BY <1>1, <1>3, <1>4, <1>5, <1>17 DEF BackendSound
<1>21. \A v \in Windows : KeptAttempt(v)'
  BY <1>5, <1>16 DEF Delivery, KeptAttempt
<1>22. FlightSound(t)'
  <2>1. ~InDrain(t)'
    <3>1. tasks'[t].window = w /\ drains' = drains /\ t \notin Range(drains[w])
      BY <1>3, <1>7, <1>9, <1>10, <1>18
    <3>2. QED
      BY <3>1 DEF InDrain
  <2>2. tasks'[t].pc # "store" => IsHead(t, gate')
    BY <1>7, <1>9, <1>15 DEF SavePc
  <2>3. QED
    BY <1>4, <1>5, <1>7, <1>9, <2>1, <2>2 DEF FlightSound
<1>23. wire' = wire \/ \A u \in DOMAIN tasks' \ {t} : tasks[u].pc # "answered"
  <2>1. CASE gate # <<>>
    BY <1>3, <2>1 DEF Save
  <2>2. CASE gate = <<>>
    <3>1. ASSUME NEW u \in DOMAIN tasks, tasks[u].pc = "answered" PROVE IsHead(u, gate)
      BY <3>1 DEF Delivery, Flying, Waits, FlightSound
    <3>2. QED
      BY <1>10, <2>2, <3>1 DEF IsHead
  <2>3. QED
    BY <2>1, <2>2
<1>24. QED
  <2>1. tasks'[t].pc # "answered"
    BY <1>7, <1>9
  <2>2. UNCHANGED <<drains, log>>
    BY <1>3
  <2>3. \A u \in DOMAIN tasks' \ {t} : Flying(u) =>
           /\ IsHead(u, gate) => IsHead(u, gate')
           /\ \A v \in {tasks[u].window} : /\ IsHead(u, drains[v]) => IsHead(u, drains'[v])
                                           /\ u \in Range(drains'[v]) => u \in Range(drains[v])
    BY <1>15, <2>2
  <2>4. \A u \in DOMAIN tasks' \ {t} : \A y \in DOMAIN attempts' \ DOMAIN attempts :
           Flying(u) /\ attempts[tasks[u].tx].prepared = Unprepared =>
             attempts'[y].window # tasks[u].window
    BY <1>5
  <2>5. QED
    BY <1>5, <1>10, <1>19, <1>20, <1>21, <1>22, <1>23, <2>1, <2>2, <2>3, <2>4, OthersGoOn

\* The holder of a drain gate takes the draft for a new save, or gives the gate back. By then c
\* is its coordinator, d the queue of its drain gate and g that of the write gate.
LEMMA DrainLoopDelivers ==
  ASSUME Delivery, NEW t \in DOMAIN tasks, NEW w \in Windows, w = tasks[t].window,
         NEW c \in Coordinators, c.offered <= Len(log),
         \A y \in {c.retry, c.conflict} \ {None} :
           y \in DOMAIN attempts /\ attempts[y].window = w /\ attempts[y].prepared # Unprepared,
         NEW d \in Seq(Nat), IsHead(t, d), Range(d) \subseteq DOMAIN tasks,
         NEW g \in Seq(Nat),
         \A u \in DOMAIN tasks \ {t} : Flying(u) =>
           /\ IsHead(u, gate) => IsHead(u, g)
           /\ tasks[u].window = w => ~InDrain(u) /\ u \notin Range(d),
         canonical' \in 0 .. Len(log), UNCHANGED log,
         DrainLoop(t, c, d, g)
  PROVE  Delivery'
<1>1. AutosaveTyped /\ BackendSound /\ Len(log) \in Nat
  BY DEF Delivery, AutosaveTyped
<1>2. PICK x : x = Len(attempts) + 1
  OBVIOUS
<1>3. PICK m : m = [c EXCEPT !.pending = FALSE]
  OBVIOUS
<1>4. /\ m \in Coordinators /\ m.retry = c.retry /\ m.conflict = c.conflict /\ m.offered = c.offered
  BY <1>3 DEF Coordinators
<1>5. PICK begun : begun = InPhase(m, "Saving")
  OBVIOUS
<1>6. /\ begun \in Coordinators /\ begun.retry = c.retry /\ begun.conflict = c.conflict
      /\ begun.offered = c.offered
  BY <1>4, <1>5, PhaseFacts DEF Phases
<1>7. PICK a : a = [window |-> w, draft |-> c.latest, prepared |-> Unprepared]
  OBVIOUS
<1>8. a \in Attempts /\ a.window = w /\ a.prepared = Unprepared
  BY <1>7 DEF Attempts, Coordinators
<1>9. PICK made : made = Append(attempts, a)
  OBVIOUS
<1>10. /\ made \in Seq(Attempts) /\ DOMAIN made = 1 .. x /\ made[x] = a
       /\ DOMAIN attempts = 1 .. x - 1 /\ x \in Nat /\ x > 0
       /\ \A y \in DOMAIN attempts : made[y] = attempts[y]
  BY <1>1, <1>2, <1>8, <1>9 DEF AutosaveTyped
<1>11. t \in Range(d)
  BY RangeHead
<1>12. PICK n \in {begun, c} : form' = [form EXCEPT ![w] = n]
  BY <1>3, <1>5 DEF DrainLoop
<1>13. /\ form' \in [Windows -> Coordinators] /\ form'[w] = n
       /\ \A v \in Windows : v # w => form'[v] = form[v]
       /\ \A v \in Windows : form'[v].offered <= Len(log)
  BY <1>1, <1>6, <1>12 DEF AutosaveTyped
<1>14. ASSUME \A y \in DOMAIN attempts : y \in DOMAIN attempts' /\ attempts'[y] = attempts[y]
       PROVE  \A v \in Windows : KeptAttempt(v)'
  <2>1. n.retry = c.retry /\ n.conflict = c.conflict
    BY <1>6
  <2>2. KeptAttempt(w)'
    BY <1>13, <1>14, <2>1 DEF KeptAttempt
  <2>3. ASSUME NEW v \in Windows, v # w PROVE KeptAttempt(v)'
    BY <1>13, <1>14, <2>3 DEF Delivery, KeptAttempt
  <2>4. QED
    BY <2>2, <2>3
<1>15. ASSUME NEW e \in Seq(Nat), Range(e) \subseteq Range(d), drains' = [drains EXCEPT ![w] = e],
              NEW k \in Tasks, k.window = w, tasks' = [tasks EXCEPT ![t] = k],
              \A u \in DOMAIN tasks \ {t} : IsHead(u, g) => IsHead(u, gate')
       PROVE  /\ drains' \in [Windows -> Seq(Nat)] /\ drains'[w] = e
              /\ tasks' \in Seq(Tasks) /\ DOMAIN tasks' = DOMAIN tasks /\ tasks'[t] = k
              /\ \A v \in Windows : Range(drains'[v]) \subseteq DOMAIN tasks'
              /\ \A u \in DOMAIN tasks' \ {t} : u \in DOMAIN tasks /\ tasks'[u] = tasks[u]
              /\ \A u \in DOMAIN tasks' \ {t} : Flying(u) =>
                   /\ IsHead(u, gate) => IsHead(u, gate')
                   /\ \A v \in {tasks[u].window} :
                        /\ IsHead(u, drains[v]) => IsHead(u, drains'[v])
                        /\ u \in Range(drains'[v]) => u \in Range(drains[v])
  <2>1. /\ drains' \in [Windows -> Seq(Nat)] /\ drains'[w] = e
        /\ \A v \in Windows : v # w => drains'[v] = drains[v]
    BY <1>1, <1>15 DEF AutosaveTyped
  <2>2. /\ tasks' \in Seq(Tasks) /\ DOMAIN tasks' = DOMAIN tasks /\ tasks'[t] = k
        /\ \A u \in DOMAIN tasks \ {t} : tasks'[u] = tasks[u]
    BY <1>1, <1>15 DEF AutosaveTyped
  <2>3. \A v \in Windows : Range(drains'[v]) \subseteq DOMAIN tasks'
    BY <1>1, <1>15, <2>1, <2>2 DEF AutosaveTyped
  <2>4. ASSUME NEW u \in DOMAIN tasks' \ {t}, Flying(u)
        PROVE  /\ IsHead(u, gate) => IsHead(u, gate')
               /\ \A v \in {tasks[u].window} :
                    /\ IsHead(u, drains[v]) => IsHead(u, drains'[v])
                    /\ u \in Range(drains'[v]) => u \in Range(drains[v])
    <3>1. IsHead(u, gate) => IsHead(u, gate')
      BY <1>15, <2>2, <2>4
    <3>2. PICK v \in Windows : v = tasks[u].window
      BY <1>1, <2>2, <2>4, TaskTyped
    <3>3. CASE v = w
      <4>1. ~InDrain(u) /\ u \notin Range(d)
        BY <2>2, <2>4, <3>2, <3>3
      <4>2. u \notin Range(drains[w]) /\ u \notin Range(drains'[w])
        BY <1>15, <2>1, <3>2, <3>3, <4>1 DEF InDrain
      <4>3. ~IsHead(u, drains[w])
        BY <1>1, <4>2, RangeHead DEF AutosaveTyped
      <4>4. QED
        BY <3>1, <3>2, <3>3, <4>2, <4>3
    <3>4. CASE v # w
      BY <2>1, <3>1, <3>2, <3>4
    <3>5. QED
      BY <3>3, <3>4
  <2>5. QED
    BY <2>1, <2>2, <2>3, <2>4
<1>16. PICK o : o = tasks[t]
  OBVIOUS
<1>17. o \in Tasks /\ o.window = w
  BY <1>1, <1>16, TaskTyped
<1>18. Finished(o) \in Tasks /\ Finished(o).pc \notin Waits /\ Finished(o).window = w
  BY <1>17 DEF Finished, Ended, Tasks, TaskPcs, Waits, None
<1>19. PICK left : left = Without(d, {t})
  OBVIOUS
<1>20. left \in Seq(Nat) /\ Range(left) \subseteq Range(d)
  BY <1>19, WithoutFacts
<1>21. ASSUME NEW u \in DOMAIN tasks \ {t}, Flying(u), tasks[u].window = w
       PROVE  attempts[tasks[u].tx].prepared # Unprepared
  <2>1. ~InDrain(u) /\ FlightSound(u)
    BY <1>21 DEF Delivery
  <2>2. QED
    BY <2>1 DEF FlightSound
<1>22. CASE Taking(c) /\ ~o.cancelled /\ form' = [form EXCEPT ![w] = begun]
            /\ tasks' = [tasks EXCEPT ![t].pc = SavePc(g), ![t].tx = x, ![t].answer = "none"]
            /\ Save(t, x, made, g) /\ drains' = [drains EXCEPT ![w] = d]
  <2>1. PICK k : k = [o EXCEPT !.pc = SavePc(g), !.tx = x, !.answer = "none"]
    OBVIOUS
  <2>2. k \in Tasks /\ k.window = w /\ k.pc = SavePc(g) /\ k.tx = x /\ k.pc \in {"store", "sent"}
    BY <1>10, <1>17, <2>1 DEF Tasks, TaskPcs, Waits, SavePc
  <2>3. tasks' = [tasks EXCEPT ![t] = k]
    BY <1>1, <1>16, <1>22, <2>1 DEF AutosaveTyped
  <2>4. /\ gate' = Append(g, t) /\ t \in Nat
    BY <1>1, <1>22, TaskTyped DEF Save
  <2>5. /\ gate' \in Seq(Nat) /\ \A u : IsHead(u, g) => IsHead(u, gate')
        /\ g = <<>> => IsHead(t, gate')
    <3>1. PICK q : q = Append(g, t)
      OBVIOUS
    <3>2. q \in Seq(Nat) /\ q # <<>>
      BY <2>4, <3>1
    <3>3. g # <<>> => Head(q) = Head(g)
      BY <2>4, <3>1
    <3>4. g = <<>> => Head(q) = t
      BY <2>4, <3>1
    <3>5. QED
      BY <2>4, <3>1, <3>2, <3>3, <3>4 DEF IsHead
  <2>6. PICK b : b = IF g = <<>> THEN [a EXCEPT !.prepared = canonical'] ELSE a
    OBVIOUS
  <2>7. /\ b \in Attempts /\ b.window = w /\ b.prepared <= Len(log)
        /\ g = <<>> => b.prepared # Unprepared
    BY <1>1, <1>8, <2>6 DEF Attempts, Unprepared
  <2>8. attempts' = [made EXCEPT ![x] = b] /\ wire' = IF g = <<>> THEN wire \cup {x} ELSE wire
    <3>1. CASE g = <<>>
      <4>1. Prepared(made[x]) = b
        BY <1>8, <1>10, <2>6, <3>1 DEF Prepared
      <4>2. QED
        BY <1>22, <3>1, <4>1 DEF Save
    <3>2. CASE g # <<>>
      <4>1. [made EXCEPT ![x] = a] = made
        BY <1>10
      <4>2. QED
        BY <1>22, <2>6, <3>2, <4>1 DEF Save
    <3>3. QED
      BY <3>1, <3>2
  <2>9. /\ attempts' \in Seq(Attempts) /\ DOMAIN attempts' = 1 .. x /\ attempts'[x] = b
        /\ x \in DOMAIN attempts' /\ x \notin DOMAIN attempts
        /\ \A y \in DOMAIN attempts : y \in DOMAIN attempts' /\ attempts'[y] = attempts[y]
        /\ \A y \in DOMAIN attempts' \ {x} : y \in DOMAIN attempts /\ attempts'[y] = attempts[y]
        /\ \A y \in DOMAIN attempts' : y <= x
        /\ \A y \in DOMAIN attempts : y < x
    BY <1>10, <2>7, <2>8
  <2>10. BackendSound'
    <3>1. x \notin wire
      BY <1>1, <2>9 DEF AutosaveTyped
    <3>2. x \in wire' => attempts'[x].prepared # Unprepared
      BY <2>7, <2>8, <2>9, <3>1
    <3>3. \A y \in wire' : y \in wire \/ y = x
      BY <2>8
    <3>4. attempts'[x].prepared <= Len(log)
      BY <2>7, <2>9
    <3>5. QED
      BY <2>9, <3>2, <3>3, <3>4, PreparationIsSound
  <2>11. \A v \in Windows : KeptAttempt(v)'
    BY <1>14, <2>9
  <2>12. /\ drains' \in [Windows -> Seq(Nat)] /\ drains'[w] = d
         /\ tasks' \in Seq(Tasks) /\ DOMAIN tasks' = DOMAIN tasks /\ tasks'[t] = k
         /\ \A v \in Windows : Range(drains'[v]) \subseteq DOMAIN tasks'
         /\ \A u \in DOMAIN tasks' \ {t} : u \in DOMAIN tasks /\ tasks'[u] = tasks[u]
         /\ \A u \in DOMAIN tasks' \ {t} : Flying(u) =>
              /\ IsHead(u, gate) => IsHead(u, gate')
              /\ \A v \in {tasks[u].window} :
                   /\ IsHead(u, drains[v]) => IsHead(u, drains'[v])
                   /\ u \in Range(drains'[v]) => u \in Range(drains[v])
    BY <1>15, <1>22, <2>2, <2>3, <2>5
  <2>13. AutosaveTyped'
    <3>1. wire' \subseteq DOMAIN attempts'
      BY <1>1, <2>8, <2>9 DEF AutosaveTyped
    <3>2. QED
      BY <1>1, <1>13, <2>5, <2>9, <2>12, <3>1 DEF AutosaveTyped
  <2>14. FlightSound(t)'
    <3>1. InDrain(t)'
      BY <1>11, <2>2, <2>12 DEF InDrain
    <3>2. tasks'[t].pc # "store" => IsHead(t, gate') /\ attempts'[x].prepared # Unprepared
      BY <2>2, <2>5, <2>7, <2>9, <2>12 DEF SavePc
    <3>3. QED
      BY <2>2, <2>7, <2>9, <2>12, <3>1, <3>2 DEF FlightSound
  <2>15. wire' = wire \/ \A u \in DOMAIN tasks' \ {t} : tasks[u].pc # "answered"
    <3>1. ASSUME g = <<>>, NEW u \in DOMAIN tasks \ {t} PROVE tasks[u].pc # "answered"
      <4>1. tasks[u].pc = "answered" => IsHead(u, gate) /\ Flying(u)
        BY DEF Delivery, Flying, Waits, FlightSound
      <4>2. QED
        BY <3>1, <4>1 DEF IsHead
    <3>2. QED
      BY <2>8, <2>12, <3>1
  <2>16. tasks'[t].pc # "answered"
    BY <2>2, <2>12
  <2>17. \A u \in DOMAIN tasks' \ {t} : \A y \in DOMAIN attempts' \ DOMAIN attempts :
           Flying(u) /\ attempts[tasks[u].tx].prepared = Unprepared =>
             attempts'[y].window # tasks[u].window
    BY <1>21, <2>7, <2>9, <2>12
  <2>18. QED
    BY <2>9, <2>10, <2>11, <2>12, <2>13, <2>14, <2>15, <2>16, <2>17, OthersGoOn
<1>23. CASE /\ tasks' = [tasks EXCEPT ![t] = Finished(o)] /\ drains' = [drains EXCEPT ![w] = left]
            /\ gate' = g /\ wire' = wire /\ attempts' \in {attempts, made}
  <2>1. PICK k \in Tasks : k = Finished(o) /\ k.pc \notin Waits /\ k.window = w
    BY <1>18
  <2>2. /\ drains' \in [Windows -> Seq(Nat)] /\ drains'[w] = left
        /\ tasks' \in Seq(Tasks) /\ DOMAIN tasks' = DOMAIN tasks /\ tasks'[t] = k
        /\ \A v \in Windows : Range(drains'[v]) \subseteq DOMAIN tasks'
        /\ \A u \in DOMAIN tasks' \ {t} : u \in DOMAIN tasks /\ tasks'[u] = tasks[u]
        /\ \A u \in DOMAIN tasks' \ {t} : Flying(u) =>
             /\ IsHead(u, gate) => IsHead(u, gate')
             /\ \A v \in {tasks[u].window} :
                  /\ IsHead(u, drains[v]) => IsHead(u, drains'[v])
                  /\ u \in Range(drains'[v]) => u \in Range(drains[v])
    BY <1>15, <1>20, <1>23, <2>1
  <2>3. /\ attempts' \in Seq(Attempts)
        /\ \A y \in DOMAIN attempts : y \in DOMAIN attempts' /\ attempts'[y] = attempts[y]
        /\ \A y \in DOMAIN attempts' \ DOMAIN attempts : y = x /\ attempts' = made
    BY <1>1, <1>10, <1>23 DEF AutosaveTyped
  <2>4. BackendSound'
    <3>1. CASE attempts' = attempts
      BY <1>1, <1>23, <3>1 DEF BackendSound
    <3>2. CASE attempts' = made
      <4>1. /\ x \in DOMAIN attempts' /\ x \notin DOMAIN attempts /\ attempts'[x] = a
            /\ \A y \in DOMAIN attempts' \ {x} : y \in DOMAIN attempts /\ attempts'[y] = attempts[y]
            /\ \A y \in DOMAIN attempts : y < x
            /\ wire \subseteq DOMAIN attempts
        BY <1>1, <1>10, <3>2 DEF AutosaveTyped
      <4>2. a.prepared <= Len(log)
        BY <1>1, <1>8 DEF Unprepared
      <4>3. QED
        BY <1>23, <2>3, <4>1, <4>2, PreparationIsSound
    <3>3. QED
      BY <1>23, <3>1, <3>2
  <2>5. \A v \in Windows : KeptAttempt(v)'
    BY <1>14, <2>3
  <2>6. AutosaveTyped'
    BY <1>1, <1>13, <1>23, <2>2, <2>3 DEF AutosaveTyped
  <2>7. \A u \in DOMAIN tasks' \ {t} : \A y \in DOMAIN attempts' \ DOMAIN attempts :
          Flying(u) /\ attempts[tasks[u].tx].prepared = Unprepared =>
            attempts'[y].window # tasks[u].window
    BY <1>8, <1>10, <1>21, <2>2, <2>3
  <2>8. tasks'[t].pc # "answered" /\ ~Flying(t)'
    BY <2>1, <2>2 DEF Flying, Waits
  <2>9. QED
    BY <1>23, <2>2, <2>3, <2>4, <2>5, <2>6, <2>7, <2>8, OthersGoOn
<1>24. QED
  BY <1>2, <1>3, <1>5, <1>7, <1>9, <1>16, <1>19, <1>22, <1>23 DEF DrainLoop

LEMMA FireDelivers ==
  ASSUME Delivery, NEW t \in DOMAIN tasks, Fire(t)
  PROVE  Delivery'
<1>1. AutosaveTyped /\ tasks[t].pc = "delay" /\ UNCHANGED <<canonical, log>>
  BY DEF Delivery, Fire
<1>2. PICK w \in Windows : w = tasks[t].window
  BY <1>1, TaskTyped
<1>3. t \in Nat
  BY <1>1, TaskTyped
<1>4. CASE drains[w] = <<>> /\ DrainLoop(t, form[w], <<t>>, gate)
  <2>1. PICK c \in Coordinators : c = form[w] /\ c.offered <= Len(log)
    BY <1>1 DEF AutosaveTyped
  <2>2. \A y \in {c.retry, c.conflict} \ {None} :
          y \in DOMAIN attempts /\ attempts[y].window = w /\ attempts[y].prepared # Unprepared
    BY <2>1 DEF Delivery, KeptAttempt
  <2>3. PICK d \in Seq(Nat) : d = <<t>>
    <3>1. <<t>> \in Seq(Nat)
      BY <1>3
    <3>2. QED
      BY <3>1
  <2>4. IsHead(t, d) /\ Range(d) = {t}
    <3>1. DOMAIN d = {1} /\ d[1] = t /\ Head(d) = t /\ d # <<>>
      BY <2>3
    <3>2. IsHead(t, d)
      BY <3>1 DEF IsHead
    <3>3. Range(d) = {t}
      BY <3>1 DEF Range
    <3>4. QED
      BY <3>2, <3>3
  <2>5. ASSUME NEW u \in DOMAIN tasks \ {t}, tasks[u].window = w
        PROVE  ~InDrain(u) /\ u \notin Range(d)
    <3>1. Range(drains[w]) = {}
      <4>1. DOMAIN <<>> = {}
        OBVIOUS
      <4>2. QED
        BY <1>4, <4>1 DEF Range
    <3>2. QED
      BY <2>4, <2>5, <3>1 DEF InDrain
  <2>6. gate \in Seq(Nat) /\ canonical' \in 0 .. Len(log) /\ DrainLoop(t, c, d, gate)
    BY <1>1, <1>4, <2>1, <2>3 DEF AutosaveTyped
  <2>7. Range(d) \subseteq DOMAIN tasks /\ UNCHANGED log
    BY <1>1, <2>4
  <2>8. QED
    BY <1>2, <2>1, <2>2, <2>4, <2>5, <2>6, <2>7, DrainLoopDelivers
<1>5. CASE /\ drains[w] # <<>>
           /\ tasks' = [tasks EXCEPT ![t].pc = "drain"]
           /\ drains' = [drains EXCEPT ![w] = Append(@, t)]
           /\ UNCHANGED <<form, attempts, gate, wire>>
  <2>1. PICK k : k = [tasks[t] EXCEPT !.pc = "drain"]
    OBVIOUS
  <2>2. k \in Tasks /\ k.pc \notin Waits /\ tasks' = [tasks EXCEPT ![t] = k]
    BY <1>1, <1>5, <2>1, TaskTyped DEF Tasks, TaskPcs, Waits
  <2>3. PICK q \in Seq(Nat) : q = drains[w]
    BY <1>1 DEF AutosaveTyped
  <2>4. PICK e : e = Append(q, t)
    OBVIOUS
  <2>5. e \in Seq(Nat) /\ Range(e) = Range(q) \cup {t} /\ \A u : IsHead(u, q) => IsHead(u, e)
    <3>1. Range(e) = Range(q) \cup {t}
      BY <1>3, <2>4, RangeOfAppend
    <3>2. QED
      BY <1>3, <2>4, <3>1 DEF IsHead
  <2>6. /\ drains' \in [Windows -> Seq(Nat)] /\ drains'[w] = e
        /\ \A v \in Windows : v # w => drains'[v] = drains[v]
    BY <1>1, <1>5, <2>3, <2>4, <2>5 DEF AutosaveTyped
  <2>7. StillWaiting /\ GatesKept /\ tasks' \in Seq(Tasks) /\ DOMAIN tasks' = DOMAIN tasks
    <3>1. ASSUME NEW u \in DOMAIN tasks \ {t}, NEW v \in Windows
          PROVE  /\ IsHead(u, gate) => IsHead(u, gate')
                 /\ IsHead(u, drains[v]) => IsHead(u, drains'[v])
                 /\ u \in Range(drains'[v]) => u \in Range(drains[v])
      BY <1>5, <2>3, <2>5, <2>6
    <3>2. QED
      BY <1>1, <1>2, <2>2, <3>1, TaskLeaves
  <2>8. AutosaveTyped'
    <3>1. \A v \in Windows : Range(drains'[v]) \subseteq DOMAIN tasks'
      BY <1>1, <2>3, <2>5, <2>6, <2>7 DEF AutosaveTyped
    <3>2. QED
      BY <1>1, <1>5, <2>6, <2>7, <3>1 DEF AutosaveTyped
  <2>9. \A v \in Windows : KeptAttempt(v)'
    BY <1>5 DEF Delivery, KeptAttempt
  <2>10. QED
    BY <1>1, <1>5, <2>7, <2>8, <2>9, CalmStep
<1>6. QED
  BY <1>2, <1>4, <1>5 DEF Fire

\* In a drain gate whose holder is t nobody else waits for a save.
LEMMA HolderFliesAlone ==
  ASSUME Delivery, NEW t \in DOMAIN tasks, NEW w \in Windows, IsHead(t, drains[w]),
         NEW u \in DOMAIN tasks \ {t}, Flying(u), tasks[u].window = w
  PROVE  ~InDrain(u) /\ u \notin Range(drains[w])
<1>1. FlightSound(u)
  BY DEF Delivery
<1>2. InDrain(u) <=> u \in Range(drains[w])
  BY DEF InDrain
<1>3. InDrain(u) => IsHead(u, drains[w])
  BY <1>1 DEF FlightSound
<1>4. QED
  BY <1>2, <1>3 DEF IsHead

LEMMA DrainGrantedDelivers ==
  ASSUME Delivery, NEW t \in DOMAIN tasks, DrainGranted(t)
  PROVE  Delivery'
<1>1. AutosaveTyped /\ UNCHANGED <<canonical, log>>
  BY DEF Delivery, DrainGranted
<1>2. PICK w \in Windows : w = tasks[t].window
  BY <1>1, TaskTyped
<1>3. PICK c \in Coordinators : c = form[w] /\ c.offered <= Len(log)
  BY <1>1 DEF AutosaveTyped
<1>4. \A y \in {c.retry, c.conflict} \ {None} :
        y \in DOMAIN attempts /\ attempts[y].window = w /\ attempts[y].prepared # Unprepared
  BY <1>3 DEF Delivery, KeptAttempt
<1>5. PICK d \in Seq(Nat) : d = drains[w]
  BY <1>1 DEF AutosaveTyped
<1>6. IsHead(t, d) /\ DrainLoop(t, c, d, gate)
  BY <1>2, <1>3, <1>5 DEF DrainGranted
<1>7. Range(d) \subseteq DOMAIN tasks /\ gate \in Seq(Nat) /\ canonical' \in 0 .. Len(log)
      /\ UNCHANGED log
  BY <1>1, <1>5 DEF AutosaveTyped
<1>8. \A u \in DOMAIN tasks \ {t} : Flying(u) /\ tasks[u].window = w => ~InDrain(u) /\ u \notin Range(d)
  BY <1>5, <1>6, HolderFliesAlone
<1>9. QED
  BY <1>2, <1>3, <1>4, <1>6, <1>7, <1>8, DrainLoopDelivers

\* What a coordinator is after a save.
LEMMA SucceededFacts ==
  ASSUME NEW c \in Coordinators, NEW rev \in Nat
  PROVE  LET n == Succeeded(c, rev) IN
         /\ n \in Coordinators /\ n.retry = None /\ n.conflict = None
         /\ n.offered \in {c.offered, -1} /\ n.pending = c.pending /\ n.wanted = c.wanted
         /\ n.latest = IF c.pending THEN c.latest ELSE NoDraft
         /\ n.phase = IF c.pending THEN "Pending" ELSE "Saved"
<1>1. PICK l \in Nat : l = IF c.pending THEN c.latest ELSE NoDraft
  BY DEF Coordinators, NoDraft
<1>2. PICK s \in Nat : s = IF c.closing THEN c.shown ELSE rev
  BY DEF Coordinators
<1>3. PICK o \in {c.offered, -1} : o = IF c.closing THEN c.offered ELSE -1
  OBVIOUS
<1>4. PICK saved : saved = [c EXCEPT !.retry = None, !.conflict = None, !.latest = l, !.shown = s,
                                     !.offered = o]
  OBVIOUS
<1>5. saved \in Coordinators
  <2>1. o \in Nat \cup {-1} /\ None \in Nat
    BY <1>3 DEF Coordinators, None
  <2>2. QED
    BY <1>4, <2>1 DEF Coordinators
<1>6. /\ saved.retry = None /\ saved.conflict = None /\ saved.latest = l /\ saved.offered = o
      /\ saved.pending = c.pending /\ saved.wanted = c.wanted
  BY <1>4 DEF Coordinators
<1>7. PICK phase \in Phases : phase = IF c.pending THEN "Pending" ELSE "Saved"
  BY DEF Phases
<1>8. PICK n : n = InPhase(saved, phase)
  OBVIOUS
<1>9. Succeeded(c, rev) = n
  <2>1. saved = [c EXCEPT !.retry = None, !.conflict = None,
                          !.latest = IF c.pending THEN c.latest ELSE NoDraft,
                          !.shown = IF c.closing THEN c.shown ELSE rev,
                          !.offered = IF c.closing THEN c.offered ELSE -1]
    BY <1>1, <1>2, <1>3, <1>4
  <2>2. QED
    BY <1>7, <1>8, <2>1 DEF Succeeded
<1>10. /\ n \in Coordinators /\ n.phase = phase /\ n.offered = saved.offered
       /\ n.retry = saved.retry /\ n.conflict = saved.conflict /\ n.latest = saved.latest
       /\ n.pending = saved.pending /\ n.wanted = saved.wanted
  BY <1>5, <1>8, PhaseFacts
<1>11. QED
  BY <1>1, <1>3, <1>6, <1>7, <1>9, <1>10

LEMMA CompleteSuccessDelivers ==
  ASSUME Delivery, NEW t \in DOMAIN tasks, CompleteSuccess(t)
  PROVE  Delivery'
<1>1. AutosaveTyped /\ tasks[t].pc = "answered" /\ tasks[t].answer = "ok" /\ UNCHANGED log
  BY DEF Delivery, CompleteSuccess
<1>2. PICK w \in Windows : w = tasks[t].window
  BY <1>1, TaskTyped
<1>3. PICK rev : rev = Resulting(tasks[t].tx)
  OBVIOUS
<1>4. rev \in DOMAIN log /\ rev \in Nat /\ rev \in 0 .. Len(log) /\ Len(log) \in Nat
  <2>1. Applied(tasks[t].tx)
    BY <1>1 DEF Delivery, AnswerTrue
  <2>2. rev \in DOMAIN log
    BY <1>3, <2>1 DEF Applied, Resulting
  <2>3. QED
    BY <1>1, <2>2 DEF AutosaveTyped
<1>5. PICK c \in Coordinators : c = form[w] /\ c.offered <= Len(log)
  BY <1>1 DEF AutosaveTyped
<1>6. PICK n : n = Succeeded(c, rev)
  OBVIOUS
<1>7. n \in Coordinators /\ n.retry = None /\ n.conflict = None /\ n.offered \in {c.offered, -1}
  BY <1>4, <1>6, SucceededFacts
<1>8. n.offered <= Len(log)
  BY <1>4, <1>5, <1>7
<1>9. FlightSound(t)
  BY <1>1 DEF Delivery, Flying, Waits
<1>10. IsHead(t, gate) /\ \A u \in DOMAIN tasks \ {t} : ~IsHead(u, gate)
  BY <1>1, <1>9 DEF FlightSound, IsHead
<1>11. PICK g : g = Tail(gate)
  OBVIOUS
<1>12. g \in Seq(Nat) /\ canonical' \in 0 .. Len(log)
  BY <1>1, <1>3, <1>4, <1>10, <1>11 DEF AutosaveTyped, IsHead, CompleteSuccess
<1>13. PICK q \in Seq(Nat) : q = drains[w]
  BY <1>1 DEF AutosaveTyped
<1>14. CASE InDrain(t) /\ DrainLoop(t, n, q, g)
  <2>1. IsHead(t, q)
    BY <1>2, <1>9, <1>13, <1>14 DEF FlightSound
  <2>2. Range(q) \subseteq DOMAIN tasks
    BY <1>1, <1>13 DEF AutosaveTyped
  <2>3. \A u \in DOMAIN tasks \ {t} : Flying(u) =>
          /\ IsHead(u, gate) => IsHead(u, g)
          /\ tasks[u].window = w => ~InDrain(u) /\ u \notin Range(q)
    BY <1>10, <1>13, <2>1, HolderFliesAlone
  <2>4. \A y \in {n.retry, n.conflict} \ {None} :
          y \in DOMAIN attempts /\ attempts[y].window = w /\ attempts[y].prepared # Unprepared
    BY <1>7
  <2>5. QED
    BY <1>1, <1>2, <1>7, <1>8, <1>12, <1>14, <2>1, <2>2, <2>3, <2>4, DrainLoopDelivers
<1>15. CASE /\ form' = [form EXCEPT ![w] = n] /\ gate' = g
            /\ tasks' = [tasks EXCEPT ![t] =
                  IF n.disposed THEN Ended(@)
                  ELSE [@ EXCEPT !.pc = "drain", !.tx = None, !.answer = "none"]]
            /\ drains' = IF n.disposed THEN drains ELSE [drains EXCEPT ![w] = Append(q, t)]
            /\ UNCHANGED <<attempts, wire>>
  <2>1. PICK o \in Tasks : o = tasks[t]
    BY <1>1, TaskTyped
  <2>2. PICK k : k = IF n.disposed THEN Ended(o)
                     ELSE [o EXCEPT !.pc = "drain", !.tx = None, !.answer = "none"]
    OBVIOUS
  <2>3. k \in Tasks /\ k.pc \notin Waits
    <3>1. CASE n.disposed
      BY <2>2, <3>1, EndedFacts
    <3>2. CASE ~n.disposed
      BY <2>2, <3>2 DEF Tasks, TaskPcs, Waits, None
    <3>3. QED
      BY <3>1, <3>2
  <2>4. tasks' = [tasks EXCEPT ![t] = k]
    BY <1>15, <2>1, <2>2
  <2>5. t \in Nat
    BY <1>1, TaskTyped
  <2>6. PICK e : e = IF n.disposed THEN q ELSE Append(q, t)
    OBVIOUS
  <2>7. e \in Seq(Nat) /\ Range(e) \subseteq Range(q) \cup {t} /\ \A u : IsHead(u, q) => IsHead(u, e)
    <3>1. Range(Append(q, t)) = Range(q) \cup {t}
      BY <2>5, RangeOfAppend
    <3>2. Append(q, t) \in Seq(Nat) /\ \A u : IsHead(u, q) => IsHead(u, Append(q, t))
      BY <2>5 DEF IsHead
    <3>3. QED
      BY <2>6, <3>1, <3>2
  <2>8. drains' = [drains EXCEPT ![w] = e]
    BY <1>1, <1>13, <1>15, <2>6 DEF AutosaveTyped
  <2>9. /\ drains' \in [Windows -> Seq(Nat)] /\ drains'[w] = e
        /\ \A v \in Windows : v # w => drains'[v] = drains[v]
    BY <1>1, <2>7, <2>8 DEF AutosaveTyped
  <2>10. StillWaiting /\ GatesKept /\ tasks' \in Seq(Tasks) /\ DOMAIN tasks' = DOMAIN tasks
    <3>1. ASSUME NEW u \in DOMAIN tasks \ {t}, NEW v \in Windows
          PROVE  /\ IsHead(u, gate) => IsHead(u, gate')
                 /\ IsHead(u, drains[v]) => IsHead(u, drains'[v])
                 /\ u \in Range(drains'[v]) => u \in Range(drains[v])
      BY <1>10, <1>13, <2>7, <2>9
    <3>2. QED
      BY <1>2, <2>3, <2>4, <3>1, TaskLeaves
  <2>11. AutosaveTyped'
    <3>1. \A v \in Windows : Range(drains'[v]) \subseteq DOMAIN tasks'
      BY <1>1, <1>13, <2>7, <2>9, <2>10 DEF AutosaveTyped
    <3>2. \A v \in Windows : form'[v].offered <= Len(log)
      BY <1>1, <1>7, <1>8, <1>15 DEF AutosaveTyped
    <3>3. form' \in [Windows -> Coordinators]
      BY <1>1, <1>7, <1>15 DEF AutosaveTyped
    <3>4. QED
      BY <1>1, <1>12, <1>15, <2>9, <2>10, <3>1, <3>2, <3>3 DEF AutosaveTyped
  <2>12. \A v \in Windows : KeptAttempt(v)'
    BY <1>1, <1>7, <1>15, KeptStays DEF AutosaveTyped
  <2>13. QED
    BY <1>1, <1>15, <2>10, <2>11, <2>12, CalmStep
<1>16. QED
  BY <1>2, <1>3, <1>5, <1>6, <1>11, <1>13, <1>14, <1>15 DEF CompleteSuccess

LEMMA DeliveryStep == Delivery /\ [Next]_vars => Delivery'
<1> SUFFICES ASSUME Delivery, [Next]_vars PROVE Delivery'
  OBVIOUS
<1>1. ASSUME NEW w \in Windows, User(w) PROVE Delivery'
  <2>1. FlushAll(w) \/ Close(w) => Delivery'
    BY FlushDelivers DEF FlushAll, Close
  <2>2. QED
    BY <1>1, <2>1, QueueEditDelivers, RetryDelivers, ReloadDelivers, ReapplyDelivers DEF User
<1>2. ASSUME NEW w \in Windows, Reconcile(w) \/ LoadConflict(w) PROVE Delivery'
  BY <1>2, ReconcileDelivers, LoadConflictDelivers
<1>3. ASSUME NEW t \in DOMAIN tasks, Advance(t) PROVE Delivery'
  BY <1>3, FireDelivers, DrainGrantedDelivers, StoreGrantedDelivers, CompleteSuccessDelivers,
     CompleteFailureDelivers, DisposeDelivers, StopDelivers DEF Advance
<1>4. ASSUME NEW x \in wire, Serve(x) \/ Lose(x) PROVE Delivery'
  BY <1>4, ServeDelivers, LoseDelivers
<1>5. CASE UNCHANGED vars
  <2>1. AutosaveTyped'
    BY <1>5 DEF vars, Delivery, AutosaveTyped
  <2>2. StillWaiting /\ GatesKept /\ \A w \in Windows : KeptAttempt(w)'
    BY <1>5 DEF vars, StillWaiting, GatesKept, Delivery, KeptAttempt
  <2>3. QED
    BY <1>5, <2>1, <2>2, CalmStep DEF vars
<1>6. QED
  BY <1>1, <1>2, <1>3, <1>4, <1>5 DEF Next

\* Where saves are made, prepared and answered, however windows and connections behave.
THEOREM DeliveryInvariance == Spec => []Delivery
<1>1. Init => Delivery
  BY InitialDelivery
<1>2. Delivery /\ [Next]_vars => Delivery'
  BY DeliveryStep
<1>3. QED
  BY <1>1, <1>2, PTL DEF Spec

\* A save that the backend has applied is never taken for a refused one, and none is applied
\* after a later save of its window: canonical objects, attempts prepared once, and the
\* transaction ID that an attempt keeps (CanonicalObjectStore.cs, AutosaveCoordinator.cs).
THEOREM SavesRepeatSafely == Spec => []SavesAreRepeatable
<1>1. Delivery => SavesAreRepeatable
  <2> SUFFICES ASSUME Delivery PROVE SavesAreRepeatable
    OBVIOUS
  <2>1. SavesStayInOrder
    BY DEF Delivery, BackendSound, SavesStayInOrder, By
  <2>2. AppliedIsNeverRefused
    BY DEF Delivery, AnswerTrue, AppliedIsNeverRefused
  <2>3. QED
    BY <2>1, <2>2 DEF SavesAreRepeatable
<1>2. QED
  BY <1>1, DeliveryInvariance, PTL
-----------------------------------------------------------------------------
(* Drafts. *)

\* Nothing is forgotten: whose a task is and what brought it, whose attempt and draft a save is.
KindsKept ==
  \A t \in DOMAIN tasks :
    t \in DOMAIN tasks' /\ tasks'[t].window = tasks[t].window /\ tasks'[t].kind = tasks[t].kind

HistoryKept ==
  /\ \A x \in DOMAIN attempts :
       /\ x \in DOMAIN attempts'
       /\ attempts'[x].window = attempts[x].window /\ attempts'[x].draft = attempts[x].draft
  /\ \A r \in DOMAIN log : r \in DOMAIN log' /\ log'[r] = log[r]

\* Who waits for a save after the step has waited for it before.
FlightsKept ==
  \A t \in DOMAIN tasks' : Flying(t)' =>
    t \in DOMAIN tasks /\ Flying(t) /\ tasks'[t].tx = tasks[t].tx

LEMMA NewestStays ==
  ASSUME Delivery, HistoryKept, NEW w \in Windows, NewestSaved(w), form'[w].wanted = form[w].wanted
  PROVE  NewestSaved(w)'
<1>1. CASE form[w].wanted = 0
  BY <1>1 DEF NewestSaved
<1>2. CASE form[w].wanted # 0
  <2>1. PICK r \in By(w) : attempts[log[r].tx].draft = form[w].wanted
    BY <1>2 DEF NewestSaved
  <2>2. r \in DOMAIN log /\ attempts[log[r].tx].window = w /\ log[r].tx \in DOMAIN attempts
    BY <2>1 DEF By, Delivery, BackendSound
  <2>3. /\ r \in DOMAIN log' /\ attempts'[log'[r].tx].window = w
        /\ attempts'[log'[r].tx].draft = form'[w].wanted
    BY <2>1, <2>2 DEF HistoryKept
  <2>4. QED
    BY <2>3 DEF NewestSaved, By
<1>3. QED
  BY <1>1, <1>2

LEMMA RetriedStays ==
  ASSUME KindsKept, NEW w, ~Retried(w)'
  PROVE  ~Retried(w)
  BY DEF KindsKept, Retried

\* What one window does leaves the drafts of the others alone.
LEMMA DraftsStep ==
  ASSUME Delivery, Drafts, KindsKept, HistoryKept, NEW w \in Windows,
         \A x \in DOMAIN attempts' : attempts'[x].draft # NoDraft,
         \A t \in DOMAIN tasks' : Flying(t)' /\ tasks'[t].window # w =>
           t \in DOMAIN tasks /\ Flying(t) /\ tasks'[t].tx = tasks[t].tx,
         \A v \in Windows \ {w} : form'[v] = form[v],
         DraftSound(w)'
  PROVE  Drafts'
<1>1. ASSUME NEW v \in Windows \ {w} PROVE DraftSound(v)'
  <2>1. DraftSound(v) /\ form'[v] = form[v]
    BY DEF Drafts
  <2>2. ASSUME ~Retried(v)', NEW t \in DOMAIN tasks', Flying(t)', tasks'[t].window = v,
               ~form'[v].pending
        PROVE  form'[v].wanted \in {0, attempts'[tasks'[t].tx].draft}
    <3>1. t \in DOMAIN tasks /\ Flying(t) /\ tasks'[t].tx = tasks[t].tx /\ tasks[t].window = v
      BY <2>2 DEF KindsKept
    <3>2. tasks[t].tx \in DOMAIN attempts
      BY <3>1 DEF Delivery, FlightSound
    <3>3. ~Retried(v)
      BY <2>2, RetriedStays
    <3>4. form[v].wanted \in {0, attempts[tasks[t].tx].draft}
      BY <2>1, <2>2, <3>1, <3>3 DEF DraftSound
    <3>5. QED
      BY <2>1, <3>1, <3>2, <3>4 DEF HistoryKept
  <2>3. ASSUME ~Retried(v)', form'[v].phase = "Saved" PROVE NewestSaved(v)'
    <3>1. NewestSaved(v)
      BY <2>1, <2>3, RetriedStays DEF DraftSound
    <3>2. QED
      BY <2>1, <3>1, NewestStays
  <2>4. ASSUME ~Retried(v)', form'[v].latest # NoDraft, form'[v].wanted # 0
        PROVE  form'[v].latest = form'[v].wanted
    BY <2>1, <2>4, RetriedStays DEF DraftSound
  <2>5. /\ form'[v].pending \/ form'[v].conflict # None => form'[v].latest # NoDraft
        /\ form'[v].phase = "Saved" => form'[v].retry = None /\ form'[v].conflict = None
    BY <2>1 DEF DraftSound
  <2>6. QED
    BY <2>2, <2>3, <2>4, <2>5 DEF DraftSound
<1>2. QED
  BY <1>1 DEF Drafts

\* ... and so do its own steps in which nobody begins to wait for a save.
LEMMA CalmDrafts ==
  ASSUME Delivery, Drafts, KindsKept, HistoryKept, NEW w \in Windows, NEW c, NEW n,
         c = form[w], form' = [form EXCEPT ![w] = n],
         \A x \in DOMAIN attempts' : x \in DOMAIN attempts, FlightsKept,
         n.pending \/ n.conflict # None => n.latest # NoDraft,
         n.phase = "Saved" => n.retry = None /\ n.conflict = None,
         n.latest # NoDraft /\ n.wanted # 0 =>
           n.latest = n.wanted \/ (n.latest = c.latest /\ n.wanted = c.wanted),
         n.pending \/ n.wanted = 0 \/ (n.wanted = c.wanted /\ ~c.pending),
         n.phase = "Saved" => n.wanted = 0 \/ (c.phase = "Saved" /\ n.wanted = c.wanted)
  PROVE  Drafts'
<1>1. form'[w] = n /\ \A v \in Windows \ {w} : form'[v] = form[v]
  BY DEF Delivery, AutosaveTyped
<1>2. DraftSound(w)
  BY DEF Drafts
<1>3. ASSUME ~Retried(w)', n.latest # NoDraft, n.wanted # 0 PROVE n.latest = n.wanted
  BY <1>2, <1>3, RetriedStays DEF DraftSound
<1>4. ASSUME ~Retried(w)', NEW t \in DOMAIN tasks', Flying(t)', tasks'[t].window = w, ~n.pending
      PROVE  n.wanted \in {0, attempts'[tasks'[t].tx].draft}
  <2>1. t \in DOMAIN tasks /\ Flying(t) /\ tasks'[t].tx = tasks[t].tx /\ tasks[t].window = w
    BY <1>4 DEF KindsKept, FlightsKept
  <2>2. tasks[t].tx \in DOMAIN attempts
    BY <2>1 DEF Delivery, FlightSound
  <2>3. ~Retried(w)
    BY <1>4, RetriedStays
  <2>4. n.wanted = 0 \/ n.wanted \in {0, attempts[tasks[t].tx].draft}
    BY <1>2, <1>4, <2>1, <2>3 DEF DraftSound
  <2>5. QED
    BY <2>1, <2>2, <2>4 DEF HistoryKept
<1>5. ASSUME ~Retried(w)', n.phase = "Saved" PROVE NewestSaved(w)'
  <2>1. CASE n.wanted = 0
    BY <1>1, <2>1 DEF NewestSaved
  <2>2. CASE n.wanted # 0
    <3>1. NewestSaved(w)
      BY <1>2, <1>5, <2>2, RetriedStays DEF DraftSound
    <3>2. QED
      BY <1>1, <1>5, <2>2, <3>1, NewestStays
  <2>3. QED
    BY <2>1, <2>2
<1>6. DraftSound(w)'
  BY <1>1, <1>3, <1>4, <1>5 DEF DraftSound
<1>7. \A x \in DOMAIN attempts' : attempts'[x].draft # NoDraft
  BY DEF Drafts, HistoryKept
<1>8. QED
  BY <1>1, <1>6, <1>7, DraftsStep DEF FlightsKept

LEMMA InitialDrafts == Init => Drafts
<1> SUFFICES ASSUME Init PROVE Drafts
  OBVIOUS
<1>1. DOMAIN <<>> = {}
  OBVIOUS
<1>2. \A w \in Windows : /\ ~form[w].pending /\ form[w].conflict = None /\ form[w].retry = None
                         /\ form[w].latest = NoDraft /\ form[w].wanted = 0
  BY DEF Init, Fresh
<1>3. \A w \in Windows : DraftSound(w)
  BY <1>2 DEF DraftSound, NewestSaved
<1>4. QED
  BY <1>1, <1>3 DEF Drafts, Init

LEMMA BeginKeeps ==
  ASSUME AutosaveTyped, NEW cs \in Seq(Tasks), DOMAIN cs = DOMAIN tasks,
         \A t \in DOMAIN tasks :
           /\ cs[t].window = tasks[t].window /\ cs[t].kind = tasks[t].kind
           /\ cs[t].pc \in Waits => tasks[t].pc \in Waits /\ cs[t].tx = tasks[t].tx,
         NEW k \in Tasks, k.pc \notin Waits, tasks' = Append(cs, k)
  PROVE  KindsKept /\ FlightsKept
<1>1. /\ DOMAIN tasks' = 1 .. Len(cs) + 1 /\ DOMAIN cs = 1 .. Len(cs) /\ Len(cs) \in Nat
      /\ \A t \in DOMAIN cs : tasks'[t] = cs[t]
      /\ tasks'[Len(cs) + 1] = k
  OBVIOUS
<1>2. KindsKept
  BY <1>1 DEF KindsKept
<1>3. ASSUME NEW t \in DOMAIN tasks', Flying(t)' PROVE t \in DOMAIN cs
  BY <1>1, <1>3 DEF Flying
<1>4. FlightsKept
  BY <1>1, <1>3 DEF FlightsKept, Flying
<1>5. QED
  BY <1>2, <1>4

LEMMA CancelKeeps ==
  ASSUME AutosaveTyped, NEW ts, NEW k \in Tasks, k.pc \notin Waits,
         tasks' = Append(AfterCancel(ts), k)
  PROVE  KindsKept /\ FlightsKept
<1>1. PICK cs : cs = AfterCancel(ts)
  OBVIOUS
<1>2. /\ cs \in Seq(Tasks) /\ DOMAIN cs = DOMAIN tasks
      /\ \A t \in DOMAIN tasks :
           /\ cs[t].window = tasks[t].window /\ cs[t].kind = tasks[t].kind
           /\ cs[t].pc \in Waits => tasks[t].pc \in Waits /\ cs[t].tx = tasks[t].tx
  BY <1>1, AfterCancelFacts
<1>3. QED
  BY <1>1, <1>2, BeginKeeps

LEMMA MoveKeeps ==
  ASSUME AutosaveTyped, NEW t \in DOMAIN tasks, NEW k \in Tasks, tasks' = [tasks EXCEPT ![t] = k],
         k.window = tasks[t].window, k.kind = tasks[t].kind,
         k.pc \in Waits => Flying(t) /\ k.tx = tasks[t].tx
  PROVE  KindsKept /\ FlightsKept
<1>1. /\ DOMAIN tasks' = DOMAIN tasks /\ tasks'[t] = k
      /\ \A u \in DOMAIN tasks \ {t} : tasks'[u] = tasks[u]
  BY DEF AutosaveTyped
<1>2. QED
  BY <1>1 DEF KindsKept, FlightsKept, Flying

\* A coordinator that shows something else, and is otherwise what it was.
LEMMA ShownDrafts ==
  ASSUME Delivery, Drafts, KindsKept, HistoryKept, FlightsKept, NEW w \in Windows, NEW n,
         form' = [form EXCEPT ![w] = n], \A x \in DOMAIN attempts' : x \in DOMAIN attempts,
         n.latest = form[w].latest, n.wanted = form[w].wanted, n.pending = form[w].pending,
         n.conflict = form[w].conflict, n.retry = form[w].retry,
         n.phase \in {form[w].phase, "Stopped"}
  PROVE  Drafts'
<1>1. PICK c \in Coordinators : c = form[w]
  BY DEF Delivery, AutosaveTyped
<1>2. /\ c.pending \/ c.conflict # None => c.latest # NoDraft
      /\ c.phase = "Saved" => c.retry = None /\ c.conflict = None
  BY <1>1 DEF Drafts, DraftSound
<1>3. n.phase = "Saved" => c.phase = "Saved"
  BY <1>1
<1>4. c.pending \in BOOLEAN
  BY DEF Coordinators
<1>5. QED
  BY <1>1, <1>2, <1>3, <1>4, CalmDrafts

LEMMA QueueEditDrafts ==
  ASSUME Delivery, Drafts, NEW w \in Windows, QueueEdit(w)
  PROVE  Drafts'
<1>1. AutosaveTyped /\ UNCHANGED <<attempts, log>>
  BY DEF Delivery, QueueEdit
<1>2. PICK c \in Coordinators : c = form[w]
  BY <1>1 DEF AutosaveTyped
<1>3. PICK typed : typed = [c EXCEPT !.latest = c.generation + 1, !.generation = @ + 1,
                                     !.pending = TRUE, !.wanted = c.generation + 1]
  OBVIOUS
<1>4. /\ typed \in Coordinators /\ typed.pending /\ typed.latest # NoDraft
      /\ typed.wanted = typed.latest /\ typed.phase = c.phase
      /\ typed.retry = c.retry /\ typed.conflict = c.conflict
  <2>1. c.generation + 1 \in Nat \ {0}
    BY DEF Coordinators
  <2>2. typed \in Coordinators
    BY <1>3, <2>1 DEF Coordinators
  <2>3. QED
    BY <1>3, <2>1, <2>2 DEF Coordinators, NoDraft
<1>5. HistoryKept /\ \A x \in DOMAIN attempts' : x \in DOMAIN attempts
  BY <1>1 DEF HistoryKept
<1>6. CASE c.retry = None /\ c.conflict = None
  <2>1. PICK m : m = [typed EXCEPT !.debounce = Len(tasks) + 1]
    OBVIOUS
  <2>2. /\ m \in Coordinators /\ m.pending /\ m.latest # NoDraft /\ m.wanted = m.latest
    <3>1. Len(tasks) + 1 \in Nat
      BY <1>1 DEF AutosaveTyped
    <3>2. QED
      BY <1>4, <2>1, <3>1 DEF Coordinators
  <2>3. PICK n : n = InPhase(m, "Pending")
    OBVIOUS
  <2>4. n.phase = "Pending" /\ n.pending /\ n.latest # NoDraft /\ n.wanted = n.latest
    BY <2>2, <2>3, PhaseFacts DEF Phases
  <2>5. /\ form' = [form EXCEPT ![w] = n]
        /\ tasks' = Append(AfterCancel(Debounced(w)), Task(w, "debounce", "delay"))
    BY <1>2, <1>3, <1>6, <2>1, <2>3 DEF QueueEdit
  <2>6. Task(w, "debounce", "delay") \in Tasks /\ Task(w, "debounce", "delay").pc \notin Waits
    BY DEF Task, Tasks, TaskPcs, Waits, Kinds, None
  <2>7. KindsKept /\ FlightsKept
    BY <1>1, <2>5, <2>6, CancelKeeps
  <2>8. QED
    BY <1>2, <1>5, <2>4, <2>5, <2>7, CalmDrafts
<1>7. CASE ~(c.retry = None /\ c.conflict = None)
  <2>1. PICK n : n = Publish(typed)
    OBVIOUS
  <2>2. /\ n.phase = c.phase /\ n.pending /\ n.latest # NoDraft /\ n.wanted = n.latest
        /\ n.retry = c.retry /\ n.conflict = c.conflict
    BY <1>4, <2>1, PublishFacts
  <2>3. form' = [form EXCEPT ![w] = n] /\ UNCHANGED tasks
    BY <1>2, <1>3, <1>7, <2>1 DEF QueueEdit
  <2>4. c.phase # "Saved"
    BY <1>2, <1>7 DEF Drafts, DraftSound
  <2>5. KindsKept /\ FlightsKept
    BY <2>3 DEF KindsKept, FlightsKept, Flying
  <2>6. QED
    BY <1>2, <1>5, <2>2, <2>3, <2>4, <2>5, CalmDrafts
<1>8. QED
  BY <1>6, <1>7

LEMMA FlushDrafts ==
  ASSUME Delivery, Drafts, NEW w \in Windows, NEW kind \in {"flush", "close"}, Flush(w, kind)
  PROVE  Drafts'
<1>1. AutosaveTyped /\ UNCHANGED <<attempts, log>>
  BY DEF Delivery, Flush
<1>2. PICK c \in Coordinators : c = form[w]
  BY <1>1 DEF AutosaveTyped
<1>3. PICK n : n = [c EXCEPT !.debounce = None, !.closing = @ \/ kind = "close"]
  OBVIOUS
<1>4. /\ n.latest = c.latest /\ n.wanted = c.wanted /\ n.pending = c.pending
      /\ n.conflict = c.conflict /\ n.retry = c.retry /\ n.phase = c.phase
  BY <1>3 DEF Coordinators
<1>5. form' = [form EXCEPT ![w] = n]
  <2>1. form' = [form EXCEPT ![w].debounce = None, ![w].closing = @ \/ kind = "close"]
    BY DEF Flush
  <2>2. QED
    BY <1>1, <1>2, <1>3, <2>1 DEF AutosaveTyped
<1>6. Task(w, kind, "drain") \in Tasks /\ Task(w, kind, "drain").pc \notin Waits
  BY DEF Task, Tasks, TaskPcs, Waits, Kinds, None
<1>7. KindsKept /\ FlightsKept
  BY <1>1, <1>6, CancelKeeps DEF Flush
<1>8. HistoryKept
  BY <1>1 DEF HistoryKept
<1>9. QED
  BY <1>1, <1>2, <1>4, <1>5, <1>7, <1>8, ShownDrafts

LEMMA ReloadDrafts ==
  ASSUME Delivery, Drafts, NEW w \in Windows, Reload(w)
  PROVE  Drafts'
<1>1. AutosaveTyped /\ UNCHANGED <<tasks, attempts, log>>
  BY DEF Delivery, Reload
<1>2. PICK c \in Coordinators : c = form[w]
  BY <1>1 DEF AutosaveTyped
<1>3. PICK n : n = [c EXCEPT !.latest = NoDraft, !.pending = FALSE, !.retry = None, !.conflict = None,
                              !.phase = "Saved", !.shown = c.offered, !.offered = -1,
                              !.banner = "hidden", !.wanted = 0]
  OBVIOUS
<1>4. /\ n.latest = NoDraft /\ n.wanted = 0 /\ ~n.pending
      /\ n.conflict = None /\ n.retry = None
  BY <1>3 DEF Coordinators
<1>5. form' = [form EXCEPT ![w] = n]
  BY <1>1, <1>2, <1>3 DEF Reload, AutosaveTyped
<1>6. KindsKept /\ FlightsKept /\ HistoryKept
  BY <1>1 DEF KindsKept, FlightsKept, Flying, HistoryKept
<1>7. QED
  BY <1>1, <1>2, <1>4, <1>5, <1>6, CalmDrafts

\* With a conflict in hand there is a draft in hand too, and it is the one that is queued.
LEMMA ReapplyDrafts ==
  ASSUME Delivery, Drafts, NEW w \in Windows, Reapply(w)
  PROVE  Drafts'
<1>1. AutosaveTyped /\ UNCHANGED <<attempts, log>>
  BY DEF Delivery, Reapply
<1>2. PICK c \in Coordinators : c = form[w]
  BY <1>1 DEF AutosaveTyped
<1>3. PICK seen : seen = [c EXCEPT !.shown = c.offered, !.offered = -1]
  OBVIOUS
<1>4. PICK draft : draft = IF c.latest # NoDraft \/ c.conflict = None THEN c.latest
                           ELSE attempts[c.conflict].draft
  OBVIOUS
<1>5. draft = c.latest
  BY <1>2, <1>4 DEF Drafts, DraftSound
<1>6. HistoryKept /\ \A x \in DOMAIN attempts' : x \in DOMAIN attempts
  BY <1>1 DEF HistoryKept
<1>7. c.offered \in Nat
  BY <1>2 DEF Reapply, Coordinators
<1>8. CASE draft = NoDraft /\ form' = [form EXCEPT ![w] = [seen EXCEPT !.banner = "blocked"]]
           /\ UNCHANGED tasks
  <2>1. PICK n : n = [seen EXCEPT !.banner = "blocked"]
    OBVIOUS
  <2>2. /\ n.latest = c.latest /\ n.wanted = c.wanted /\ n.pending = c.pending
        /\ n.conflict = c.conflict /\ n.retry = c.retry /\ n.phase = c.phase
    BY <1>3, <2>1 DEF Coordinators
  <2>3. KindsKept /\ FlightsKept
    BY <1>8 DEF KindsKept, FlightsKept, Flying
  <2>4. QED
    BY <1>2, <1>6, <1>8, <2>1, <2>2, <2>3, ShownDrafts
<1>9. CASE draft # NoDraft /\ tasks' = Append(tasks, Task(w, "reapply", "drain"))
           /\ form' = [form EXCEPT ![w] =
                InPhase([seen EXCEPT !.latest = draft, !.pending = TRUE, !.retry = None,
                                     !.conflict = None], "Pending")]
  <2>1. PICK m : m = [seen EXCEPT !.latest = draft, !.pending = TRUE, !.retry = None,
                                  !.conflict = None]
    OBVIOUS
  <2>2. m \in Coordinators /\ m.latest = c.latest /\ m.wanted = c.wanted /\ m.pending
    <3>1. seen \in Coordinators /\ seen.wanted = c.wanted
      <4>1. c.offered \in Nat /\ -1 \in Nat \cup {-1}
        BY <1>7
      <4>2. QED
        BY <1>3, <4>1 DEF Coordinators
    <3>2. draft \in Nat /\ None \in Nat
      BY <1>5 DEF Coordinators, None
    <3>3. m \in Coordinators
      BY <2>1, <3>1, <3>2 DEF Coordinators
    <3>4. QED
      BY <1>5, <2>1, <3>1, <3>3 DEF Coordinators
  <2>3. PICK n : n = InPhase(m, "Pending")
    OBVIOUS
  <2>4. n.phase = "Pending" /\ n.latest = c.latest /\ n.wanted = c.wanted /\ n.pending
    BY <2>2, <2>3, PhaseFacts DEF Phases
  <2>5. form' = [form EXCEPT ![w] = n] /\ n.latest # NoDraft
    BY <1>5, <1>9, <2>1, <2>3, <2>4
  <2>6. Task(w, "reapply", "drain") \in Tasks /\ Task(w, "reapply", "drain").pc \notin Waits
    BY DEF Task, Tasks, TaskPcs, Waits, Kinds, None
  <2>7. KindsKept /\ FlightsKept
    BY <1>1, <1>9, <2>6, BeginKeeps DEF AutosaveTyped
  <2>8. QED
    BY <1>2, <1>6, <2>4, <2>5, <2>7, CalmDrafts
<1>10. QED
  BY <1>2, <1>3, <1>4, <1>8, <1>9 DEF Reapply

LEMMA ReconcileDrafts ==
  ASSUME Delivery, Drafts, NEW w \in Windows, Reconcile(w)
  PROVE  Drafts'
<1>1. AutosaveTyped /\ UNCHANGED <<tasks, attempts, log>>
  BY DEF Delivery, Reconcile
<1>2. PICK c \in Coordinators : c = form[w]
  BY <1>1 DEF AutosaveTyped
<1>3. PICK n : n = IF c.shown # Len(log) /\ Unsaved(c)
                   THEN [c EXCEPT !.offered = Len(log), !.banner = "conflict"]
                   ELSE [c EXCEPT !.shown = Len(log), !.offered = -1, !.banner = "hidden"]
  OBVIOUS
<1>4. /\ n.latest = c.latest /\ n.wanted = c.wanted /\ n.pending = c.pending
      /\ n.conflict = c.conflict /\ n.retry = c.retry /\ n.phase = c.phase
  <2>1. n \in {[c EXCEPT !.offered = Len(log), !.banner = "conflict"],
               [c EXCEPT !.shown = Len(log), !.offered = -1, !.banner = "hidden"]}
    BY <1>3
  <2>2. QED
    BY <2>1 DEF Coordinators
<1>5. form' = [form EXCEPT ![w] = n]
  BY <1>2, <1>3 DEF Reconcile
<1>6. KindsKept /\ FlightsKept /\ HistoryKept
  BY <1>1 DEF KindsKept, FlightsKept, Flying, HistoryKept
<1>7. QED
  BY <1>1, <1>2, <1>4, <1>5, <1>6, ShownDrafts

LEMMA LoadConflictDrafts ==
  ASSUME Delivery, Drafts, NEW w \in Windows, LoadConflict(w)
  PROVE  Drafts'
<1>1. AutosaveTyped /\ UNCHANGED <<tasks, attempts, log>>
  BY DEF Delivery, LoadConflict
<1>2. PICK c \in Coordinators : c = form[w]
  BY <1>1 DEF AutosaveTyped
<1>3. PICK n \in {[c EXCEPT !.loading = FALSE, !.offered = Len(log), !.banner = "conflict"],
                  [c EXCEPT !.loading = FALSE, !.banner = "blocked"]} :
        form' = [form EXCEPT ![w] = n]
  BY <1>1, <1>2 DEF LoadConflict, AutosaveTyped
<1>4. /\ n.latest = c.latest /\ n.wanted = c.wanted /\ n.pending = c.pending
      /\ n.conflict = c.conflict /\ n.retry = c.retry /\ n.phase = c.phase
  BY <1>3 DEF Coordinators
<1>5. KindsKept /\ FlightsKept /\ HistoryKept
  BY <1>1 DEF KindsKept, FlightsKept, Flying, HistoryKept
<1>6. QED
  BY <1>1, <1>2, <1>3, <1>4, <1>5, ShownDrafts

\* Steps in which no coordinator changes.
LEMMA FormKeptDrafts ==
  ASSUME Delivery, Drafts, KindsKept, HistoryKept, FlightsKept, UNCHANGED form, NEW w \in Windows,
         \A x \in DOMAIN attempts' : x \in DOMAIN attempts
  PROVE  Drafts'
<1>1. PICK n : n = form[w]
  OBVIOUS
<1>2. form' = [form EXCEPT ![w] = n]
  BY <1>1 DEF Delivery, AutosaveTyped
<1>3. QED
  BY <1>1, <1>2, ShownDrafts

LEMMA AnswerDrafts ==
  ASSUME Delivery, Drafts, NEW x \in wire, NEW answer \in {"ok", "offline", "conflict", "blocked"},
         tasks' = Answered(x, answer), UNCHANGED <<form, attempts>>,
         \A r \in DOMAIN log : r \in DOMAIN log' /\ log'[r] = log[r]
  PROVE  Drafts'
<1>1. AutosaveTyped
  BY DEF Delivery
<1>2. PICK w \in Windows : w = attempts[x].window
  <2>1. attempts[x] \in Attempts
    BY <1>1 DEF AutosaveTyped
  <2>2. QED
    BY <2>1 DEF Attempts
<1>3. PICK ts : ts = Answered(x, answer)
  OBVIOUS
<1>4. /\ DOMAIN ts = DOMAIN tasks
      /\ \A t \in DOMAIN tasks :
           /\ ts[t].window = tasks[t].window /\ ts[t].kind = tasks[t].kind /\ ts[t].tx = tasks[t].tx
           /\ ts[t].pc \in Waits => tasks[t].pc \in Waits
  <2>1. \A t \in DOMAIN tasks : t \in Waiting(x) => tasks[t].pc \in Waits
    BY DEF Waiting, Waits
  <2>2. QED
    BY <1>1, <1>3, <2>1, AnsweredFacts
<1>5. KindsKept /\ FlightsKept
  BY <1>3, <1>4 DEF KindsKept, FlightsKept, Flying
<1>6. HistoryKept
  BY DEF HistoryKept
<1>7. QED
  BY <1>2, <1>5, <1>6, FormKeptDrafts

LEMMA ServeDrafts ==
  ASSUME Delivery, Drafts, NEW x \in wire, Serve(x)
  PROVE  Drafts'
<1>1. UNCHANGED <<form, attempts>>
  BY DEF Serve
<1>2. PICK answer \in Answers(x) :
        /\ log' = IF answer = "ok" /\ ~Applied(x) THEN Append(log, Request(x)) ELSE log
        /\ tasks' = Answered(x, answer) \/ tasks' = Answered(x, "offline")
  BY DEF Serve
<1>3. answer \in {"ok", "conflict", "blocked"}
  BY <1>2 DEF Answers
<1>4. \A r \in DOMAIN log : r \in DOMAIN log' /\ log'[r] = log[r]
  <2>1. Request(x) \in Requests
    <3>1. x \in Nat /\ x \in DOMAIN attempts /\ attempts[x] \in Attempts
      BY DEF Delivery, AutosaveTyped
    <3>2. attempts[x].prepared \in Nat
      BY <3>1 DEF Delivery, BackendSound, Attempts
    <3>3. QED
      BY <3>1, <3>2 DEF Request, Requests
  <2>2. log \in Seq(Requests)
    BY DEF Delivery, AutosaveTyped
  <2>3. QED
    BY <1>2, <2>1, <2>2
<1>5. QED
  BY <1>1, <1>2, <1>3, <1>4, AnswerDrafts

LEMMA LoseDrafts ==
  ASSUME Delivery, Drafts, NEW x \in wire, Lose(x)
  PROVE  Drafts'
  BY AnswerDrafts DEF Lose

LEMMA StoreGrantedDrafts ==
  ASSUME Delivery, Drafts, NEW t \in DOMAIN tasks, StoreGranted(t)
  PROVE  Drafts'
<1>1. AutosaveTyped /\ UNCHANGED <<form, log>> /\ tasks[t].pc = "store"
  BY DEF Delivery, StoreGranted
<1>2. PICK w \in Windows : w = tasks[t].window
  BY <1>1, TaskTyped
<1>3. PICK x \in DOMAIN attempts : x = tasks[t].tx
  BY <1>1 DEF Delivery, Flying, Waits, FlightSound
<1>4. PICK a \in Attempts : a = attempts[x]
  BY <1>1 DEF AutosaveTyped
<1>5. PICK b : b = IF a.prepared # Unprepared THEN a ELSE [a EXCEPT !.prepared = canonical]
  OBVIOUS
<1>6. b.window = a.window /\ b.draft = a.draft
  BY <1>5 DEF Attempts
<1>7. attempts' = [attempts EXCEPT ![x] = b]
  BY <1>3, <1>4, <1>5 DEF StoreGranted, Prepared
<1>8. HistoryKept /\ \A y \in DOMAIN attempts' : y \in DOMAIN attempts
  BY <1>1, <1>4, <1>6, <1>7 DEF HistoryKept
<1>9. PICK o \in Tasks : o = tasks[t]
  BY <1>1, TaskTyped
<1>10. PICK k \in Tasks : /\ tasks' = [tasks EXCEPT ![t] = k]
                          /\ k.window = o.window /\ k.kind = o.kind
                          /\ k.pc \in Waits => k.tx = o.tx
  <2>1. CASE ~o.cancelled
    <3>1. PICK k : k = [o EXCEPT !.pc = "sent"]
      OBVIOUS
    <3>2. k \in Tasks /\ k.window = o.window /\ k.kind = o.kind /\ k.tx = o.tx
      BY <3>1 DEF Tasks, TaskPcs, Waits
    <3>3. tasks' = [tasks EXCEPT ![t] = k]
      BY <1>9, <2>1, <3>1 DEF StoreGranted
    <3>4. QED
      BY <3>2, <3>3
  <2>2. CASE o.cancelled
    <3>1. PICK k : k = Finished(o)
      OBVIOUS
    <3>2. k \in Tasks /\ k.window = o.window /\ k.kind = o.kind /\ k.pc \notin Waits
      BY <3>1, EndedFacts
    <3>3. tasks' = [tasks EXCEPT ![t] = k]
      BY <1>9, <2>2, <3>1 DEF StoreGranted
    <3>4. QED
      BY <3>2, <3>3
  <2>3. QED
    BY <2>1, <2>2
<1>11. Flying(t)
  BY <1>1 DEF Flying, Waits
<1>12. KindsKept /\ FlightsKept
  BY <1>1, <1>9, <1>10, <1>11, MoveKeeps
<1>13. QED
  BY <1>1, <1>2, <1>8, <1>12, FormKeptDrafts

LEMMA DisposeDrafts ==
  ASSUME Delivery, Drafts, NEW t \in DOMAIN tasks, Dispose(t)
  PROVE  Drafts'
<1>1. AutosaveTyped /\ UNCHANGED <<attempts, log>> /\ tasks[t].pc = "dispose"
  BY DEF Delivery, Dispose
<1>2. PICK w \in Windows : w = tasks[t].window
  BY <1>1, TaskTyped
<1>3. PICK ts : tasks' = [AfterCancel(ts) EXCEPT ![t].pc = "stop"]
  BY DEF Dispose
<1>4. PICK cs \in Seq(Tasks) : cs = AfterCancel(ts)
  BY <1>1, AfterCancelFacts
<1>5. /\ DOMAIN cs = DOMAIN tasks
      /\ \A u \in DOMAIN tasks :
           /\ cs[u].window = tasks[u].window /\ cs[u].kind = tasks[u].kind
           /\ cs[u].pc \in Waits => tasks[u].pc \in Waits /\ cs[u].tx = tasks[u].tx
  BY <1>1, <1>4, AfterCancelFacts
<1>6. PICK k : k = [cs[t] EXCEPT !.pc = "stop"]
  OBVIOUS
<1>7. k.window = tasks[t].window /\ k.kind = tasks[t].kind /\ k.pc \notin Waits
  <2>1. cs[t] \in Tasks
    BY <1>5
  <2>2. k.window = cs[t].window /\ k.kind = cs[t].kind /\ k.pc = "stop"
    BY <1>6, <2>1 DEF Tasks
  <2>3. QED
    BY <1>5, <2>2 DEF Waits
<1>8. /\ DOMAIN tasks' = DOMAIN tasks /\ tasks'[t] = k
      /\ \A u \in DOMAIN tasks \ {t} : tasks'[u] = cs[u]
  <2>1. tasks' = [cs EXCEPT ![t] = k]
    BY <1>3, <1>4, <1>6
  <2>2. QED
    BY <1>5, <2>1
<1>9. KindsKept /\ FlightsKept
  BY <1>5, <1>7, <1>8 DEF KindsKept, FlightsKept, Flying
<1>10. HistoryKept
  BY <1>1 DEF HistoryKept
<1>11. PICK c \in Coordinators : c = form[w]
  BY <1>1 DEF AutosaveTyped
<1>12. PICK n : n = [c EXCEPT !.disposed = TRUE]
  OBVIOUS
<1>13. /\ n.latest = c.latest /\ n.wanted = c.wanted /\ n.pending = c.pending
       /\ n.conflict = c.conflict /\ n.retry = c.retry /\ n.phase = c.phase
  BY <1>12 DEF Coordinators
<1>14. form' = [form EXCEPT ![w] = n]
  BY <1>1, <1>2, <1>11, <1>12 DEF Dispose, AutosaveTyped
<1>15. QED
  BY <1>1, <1>9, <1>10, <1>11, <1>13, <1>14, ShownDrafts

LEMMA StopDrafts ==
  ASSUME Delivery, Drafts, NEW t \in DOMAIN tasks, Stop(t)
  PROVE  Drafts'
<1>1. AutosaveTyped /\ UNCHANGED <<attempts, log>>
  BY DEF Delivery, Stop
<1>2. PICK w \in Windows : w = tasks[t].window
  BY <1>1, TaskTyped
<1>3. PICK k : k = Ended(tasks[t])
  OBVIOUS
<1>4. /\ k \in Tasks /\ k.window = tasks[t].window /\ k.kind = tasks[t].kind /\ k.pc \notin Waits
      /\ tasks' = [tasks EXCEPT ![t] = k]
  BY <1>1, <1>3, EndedFacts, TaskTyped DEF Stop
<1>5. KindsKept /\ FlightsKept
  BY <1>1, <1>4, MoveKeeps
<1>6. PICK c \in Coordinators : c = form[w]
  BY <1>1 DEF AutosaveTyped
<1>7. PICK n : n = [c EXCEPT !.phase = "Stopped"]
  OBVIOUS
<1>8. /\ n.latest = c.latest /\ n.wanted = c.wanted /\ n.pending = c.pending
      /\ n.conflict = c.conflict /\ n.retry = c.retry /\ n.phase = "Stopped"
  BY <1>7 DEF Coordinators
<1>9. form' = [form EXCEPT ![w] = n]
  BY <1>1, <1>2, <1>6, <1>7 DEF Stop, AutosaveTyped
<1>10. HistoryKept
  BY <1>1 DEF HistoryKept
<1>11. QED
  BY <1>1, <1>5, <1>6, <1>8, <1>9, <1>10, ShownDrafts

LEMMA RetryDrafts ==
  ASSUME Delivery, Drafts, NEW w \in Windows, Retry(w)
  PROVE  Drafts'
<1>1. AutosaveTyped /\ UNCHANGED log
  BY DEF Delivery, Retry
<1>2. PICK x : x = form[w].retry /\ x # None
  BY DEF Retry
<1>3. x \in DOMAIN attempts /\ attempts[x].prepared # Unprepared
  BY <1>2 DEF Delivery, KeptAttempt
<1>4. attempts' = attempts
  <2>1. Save(Len(tasks) + 1, x, attempts, gate)
    BY <1>2 DEF Retry
  <2>2. Prepared(attempts[x]) = attempts[x]
    BY <1>3 DEF Prepared
  <2>3. [attempts EXCEPT ![x] = attempts[x]] = attempts
    BY <1>1, <1>3 DEF AutosaveTyped
  <2>4. QED
    BY <2>1, <2>2, <2>3 DEF Save
<1>5. PICK k : k = [Task(w, "retry", SavePc(gate)) EXCEPT !.tx = x]
  OBVIOUS
<1>6. k \in Tasks /\ k.window = w /\ k.kind = "retry"
  <2>1. x \in Nat
    BY <1>1, <1>3 DEF AutosaveTyped
  <2>2. QED
    BY <1>5, <2>1 DEF Task, Tasks, TaskPcs, Waits, Kinds, None, SavePc
<1>7. tasks' = Append(tasks, k)
  BY <1>2, <1>5 DEF Retry
<1>8. /\ Len(tasks) \in Nat /\ DOMAIN tasks = 1 .. Len(tasks)
      /\ DOMAIN tasks' = 1 .. Len(tasks) + 1 /\ tasks'[Len(tasks) + 1] = k
      /\ \A u \in DOMAIN tasks : tasks'[u] = tasks[u]
  BY <1>1, <1>6, <1>7 DEF AutosaveTyped
<1>9. KindsKept /\ HistoryKept
  BY <1>1, <1>4, <1>8 DEF KindsKept, HistoryKept
<1>10. Retried(w)'
  <2>1. Len(tasks) + 1 \in DOMAIN tasks'
    BY <1>8
  <2>2. QED
    BY <1>6, <1>8, <2>1 DEF Retried
<1>11. \A u \in DOMAIN tasks' : Flying(u)' /\ tasks'[u].window # w =>
         u \in DOMAIN tasks /\ Flying(u) /\ tasks'[u].tx = tasks[u].tx
  BY <1>6, <1>8 DEF Flying
<1>12. PICK c \in Coordinators : c = form[w]
  BY <1>1 DEF AutosaveTyped
<1>13. PICK n : n = InPhase(c, "Saving")
  OBVIOUS
<1>14. /\ n.phase = "Saving" /\ n.latest = c.latest /\ n.pending = c.pending
       /\ n.conflict = c.conflict
  BY <1>13, PhaseFacts DEF Phases
<1>15. form' = [form EXCEPT ![w] = n]
  BY <1>12, <1>13 DEF Retry
<1>16. form'[w] = n /\ \A v \in Windows \ {w} : form'[v] = form[v]
  BY <1>1, <1>15 DEF AutosaveTyped
<1>17. DraftSound(w)'
  BY <1>10, <1>12, <1>14, <1>16 DEF Drafts, DraftSound
<1>18. \A y \in DOMAIN attempts' : attempts'[y].draft # NoDraft
  BY <1>4 DEF Drafts
<1>19. QED
  BY <1>9, <1>11, <1>16, <1>17, <1>18, DraftsStep

\* In a window without a retry, whoever waits for a save holds the drain gate.
LEMMA FlyingHolds ==
  ASSUME Delivery, NEW w \in Windows, ~Retried(w), NEW t \in DOMAIN tasks, Flying(t),
         tasks[t].window = w
  PROVE  InDrain(t) /\ IsHead(t, drains[w])
  BY DEF Delivery, FlightSound, Retried

LEMMA CompleteFailureDrafts ==
  ASSUME Delivery, Drafts, NEW t \in DOMAIN tasks, CompleteFailure(t)
  PROVE  Drafts'
<1>1. AutosaveTyped /\ tasks[t].pc = "answered" /\ UNCHANGED <<attempts, log>>
      /\ tasks[t].answer \in {"offline", "conflict", "blocked"}
  BY DEF Delivery, CompleteFailure, AnswerTrue
<1>2. PICK w \in Windows : w = tasks[t].window
  BY <1>1, TaskTyped
<1>3. PICK x, answer : x = tasks[t].tx /\ answer = tasks[t].answer
  OBVIOUS
<1>4. Flying(t) /\ x \in DOMAIN attempts
  BY <1>1, <1>3 DEF Delivery, Flying, Waits, FlightSound
<1>5. PICK c \in Coordinators : c = form[w]
  BY <1>1 DEF AutosaveTyped
<1>6. PICK n : n = Failed(c, x, answer)
  OBVIOUS
<1>7. /\ n.phase = FailurePhase[answer] /\ n.phase # "Saved"
      /\ n.conflict \in {c.conflict, x} /\ n.pending = c.pending /\ n.wanted = c.wanted
      /\ n.latest = IF c.pending THEN c.latest ELSE attempts[x].draft
  BY <1>1, <1>3, <1>4, <1>6, FailedFacts, FailurePhaseFacts
<1>8. form' = [form EXCEPT ![w] = n]
  BY <1>2, <1>3, <1>5, <1>6 DEF CompleteFailure
<1>9. PICK k : k = Finished(tasks[t])
  OBVIOUS
<1>10. /\ k \in Tasks /\ k.window = tasks[t].window /\ k.kind = tasks[t].kind /\ k.pc \notin Waits
       /\ tasks' = [tasks EXCEPT ![t] = k]
  BY <1>1, <1>9, EndedFacts, TaskTyped DEF CompleteFailure
<1>11. KindsKept /\ FlightsKept
  BY <1>1, <1>10, MoveKeeps
<1>12. HistoryKept
  BY <1>1 DEF HistoryKept
<1>13. form'[w] = n /\ \A v \in Windows \ {w} : form'[v] = form[v]
  BY <1>1, <1>8 DEF AutosaveTyped
<1>14. DraftSound(w) /\ attempts[x].draft # NoDraft
  BY <1>4 DEF Drafts
<1>15. n.latest # NoDraft
  BY <1>5, <1>7, <1>14 DEF DraftSound
<1>16. ASSUME ~Retried(w)' PROVE /\ n.wanted # 0 => n.latest = n.wanted
                                 /\ \A u \in DOMAIN tasks' : ~(Flying(u)' /\ tasks'[u].window = w)
  <2>1. ~Retried(w)
    BY <1>11, <1>16, RetriedStays
  <2>2. n.wanted # 0 => n.latest = n.wanted
    <3>1. CASE c.pending
      BY <1>5, <1>7, <1>14, <1>15, <2>1, <3>1 DEF DraftSound
    <3>2. CASE ~c.pending
      <4>1. c.wanted \in {0, attempts[x].draft}
        BY <1>2, <1>3, <1>4, <1>5, <1>14, <2>1, <3>2 DEF DraftSound
      <4>2. QED
        BY <1>7, <3>2, <4>1
    <3>3. QED
      BY <3>1, <3>2
  <2>3. ASSUME NEW u \in DOMAIN tasks', Flying(u)', tasks'[u].window = w PROVE FALSE
    <3>1. u \in DOMAIN tasks /\ Flying(u) /\ tasks[u].window = w
      BY <1>11, <2>3 DEF FlightsKept, KindsKept
    <3>2. IsHead(u, drains[w]) /\ IsHead(t, drains[w])
      BY <1>2, <1>4, <2>1, <3>1, FlyingHolds
    <3>3. u = t
      BY <3>2 DEF IsHead
    <3>4. tasks'[t] = k
      BY <1>1, <1>10 DEF AutosaveTyped
    <3>5. QED
      BY <1>10, <2>3, <3>3, <3>4 DEF Flying
  <2>4. QED
    BY <2>2, <2>3
<1>17. DraftSound(w)'
  BY <1>7, <1>13, <1>15, <1>16 DEF DraftSound
<1>18. \A y \in DOMAIN attempts' : attempts'[y].draft # NoDraft
  BY <1>1 DEF Drafts
<1>19. QED
  BY <1>11, <1>12, <1>13, <1>17, <1>18, DraftsStep DEF FlightsKept

LEMMA DrainLoopDrafts ==
  ASSUME Delivery, Drafts, NEW t \in DOMAIN tasks, NEW w \in Windows, w = tasks[t].window,
         NEW c \in Coordinators, NEW d, NEW g,
         \A u \in DOMAIN tasks \ {t} : Flying(u) /\ tasks[u].window = w => ~InDrain(u),
         UNCHANGED log, c.wanted = form[w].wanted,
         c.pending \/ c.conflict # None => c.latest # NoDraft,
         c.phase = "Saved" => c.retry = None /\ c.conflict = None,
         ~Retried(w) => /\ c.latest # NoDraft /\ c.wanted # 0 => c.latest = c.wanted
                        /\ c.phase = "Saved" => NewestSaved(w),
         DrainLoop(t, c, d, g)
  PROVE  Drafts'
<1>1. AutosaveTyped
  BY DEF Delivery
<1>2. PICK x : x = Len(attempts) + 1
  OBVIOUS
<1>3. PICK m : m = [c EXCEPT !.pending = FALSE]
  OBVIOUS
<1>4. /\ m \in Coordinators /\ ~m.pending /\ m.latest = c.latest /\ m.wanted = c.wanted
      /\ m.conflict = c.conflict
  BY <1>3 DEF Coordinators
<1>5. PICK begun : begun = InPhase(m, "Saving")
  OBVIOUS
<1>6. /\ begun.phase = "Saving" /\ ~begun.pending /\ begun.latest = c.latest
      /\ begun.wanted = c.wanted /\ begun.conflict = c.conflict
  BY <1>4, <1>5, PhaseFacts DEF Phases
<1>7. PICK a : a = [window |-> w, draft |-> c.latest, prepared |-> Unprepared]
  OBVIOUS
<1>8. a \in Attempts /\ a.window = w /\ a.draft = c.latest
  BY <1>7 DEF Attempts, Coordinators
<1>9. PICK made : made = Append(attempts, a)
  OBVIOUS
<1>10. /\ made \in Seq(Attempts) /\ DOMAIN made = 1 .. x /\ made[x] = a
       /\ DOMAIN attempts = 1 .. x - 1 /\ x \in Nat /\ x > 0
       /\ \A y \in DOMAIN attempts : made[y] = attempts[y]
  BY <1>1, <1>2, <1>8, <1>9 DEF AutosaveTyped
<1>11. PICK o \in Tasks : o = tasks[t]
  BY <1>1, TaskTyped
<1>12. PICK k \in Tasks : /\ tasks' = [tasks EXCEPT ![t] = k]
                          /\ k.window = o.window /\ k.kind = o.kind
                          /\ k.pc \in Waits => k.tx = x /\ Taking(c) /\ ~o.cancelled
  <2>1. CASE Taking(c) /\ ~o.cancelled
    <3>1. PICK k : k = [o EXCEPT !.pc = SavePc(g), !.tx = x, !.answer = "none"]
      OBVIOUS
    <3>2. k \in Tasks /\ k.window = o.window /\ k.kind = o.kind /\ k.tx = x
      BY <1>10, <3>1 DEF Tasks, TaskPcs, Waits, SavePc
    <3>3. tasks' = [tasks EXCEPT ![t].pc = SavePc(g), ![t].tx = x, ![t].answer = "none"]
      BY <1>2, <1>11, <2>1 DEF DrainLoop
    <3>4. tasks' = [tasks EXCEPT ![t] = k]
      BY <1>1, <1>11, <3>1, <3>3 DEF AutosaveTyped
    <3>5. QED
      BY <2>1, <3>2, <3>4
  <2>2. CASE ~(Taking(c) /\ ~o.cancelled)
    <3>1. PICK k : k = Finished(o)
      OBVIOUS
    <3>2. k \in Tasks /\ k.window = o.window /\ k.kind = o.kind /\ k.pc \notin Waits
      BY <3>1, EndedFacts
    <3>3. tasks' = [tasks EXCEPT ![t] = k]
      BY <1>11, <2>2, <3>1 DEF DrainLoop
    <3>4. QED
      BY <3>2, <3>3
  <2>3. QED
    BY <2>1, <2>2
<1>13. /\ DOMAIN tasks' = DOMAIN tasks /\ tasks'[t] = k
       /\ \A u \in DOMAIN tasks \ {t} : tasks'[u] = tasks[u]
  BY <1>1, <1>12 DEF AutosaveTyped
<1>14. /\ Taking(c) => /\ \A y \in DOMAIN attempts : y \in DOMAIN attempts' /\ attempts'[y] = attempts[y]
                       /\ \A y \in DOMAIN attempts' \ DOMAIN attempts : y = x
                       /\ x \in DOMAIN attempts' /\ attempts'[x].draft = c.latest
                       /\ attempts'[x].window = w
       /\ ~Taking(c) => attempts' = attempts
  <2>1. ASSUME Taking(c)
        PROVE  \E b : b.draft = c.latest /\ b.window = w /\ attempts' = [made EXCEPT ![x] = b]
    <3>1. [made EXCEPT ![x] = a] = made
      BY <1>10
    <3>2. CASE ~o.cancelled
      <4>1. Save(t, x, made, g)
        BY <1>2, <1>7, <1>9, <1>11, <2>1, <3>2 DEF DrainLoop
      <4>2. CASE g = <<>>
        <5>1. PICK b : b = Prepared(made[x])
          OBVIOUS
        <5>2. PICK e : e = [a EXCEPT !.prepared = canonical']
          OBVIOUS
        <5>3. e.draft = a.draft /\ e.window = a.window
          BY <1>8, <5>2 DEF Attempts
        <5>4. b \in {a, e}
          BY <1>10, <5>1, <5>2 DEF Prepared
        <5>5. attempts' = [made EXCEPT ![x] = b]
          BY <4>1, <4>2, <5>1 DEF Save
        <5>6. QED
          BY <1>8, <5>3, <5>4, <5>5
      <4>3. CASE g # <<>>
        <5>1. attempts' = made
          BY <4>1, <4>3 DEF Save
        <5>2. QED
          BY <1>8, <3>1, <5>1
      <4>4. QED
        BY <4>2, <4>3
    <3>3. CASE o.cancelled
      <4>1. attempts' = made
        BY <1>7, <1>9, <1>11, <2>1, <3>3 DEF DrainLoop
      <4>2. QED
        BY <1>8, <3>1, <4>1
    <3>4. o.cancelled \in BOOLEAN
      BY DEF Tasks
    <3>5. QED
      BY <3>2, <3>3, <3>4
  <2>2. ~Taking(c) => attempts' = attempts
    BY DEF DrainLoop
  <2>3. QED
    BY <1>10, <2>1, <2>2
<1>15. PICK n : form' = [form EXCEPT ![w] = n] /\ n = IF Taking(c) THEN begun ELSE c
  BY <1>3, <1>5 DEF DrainLoop
<1>16. form'[w] = n /\ \A v \in Windows \ {w} : form'[v] = form[v]
  BY <1>1, <1>15 DEF AutosaveTyped
<1>17. Taking(c) => c.latest # NoDraft /\ c.conflict = None
  BY DEF Taking
<1>18. KindsKept
  BY <1>11, <1>12, <1>13 DEF KindsKept
<1>19. HistoryKept
  BY <1>14 DEF HistoryKept
<1>20. \A y \in DOMAIN attempts' : attempts'[y].draft # NoDraft
  BY <1>14, <1>17 DEF Drafts
<1>21. \A u \in DOMAIN tasks' : Flying(u)' /\ tasks'[u].window # w =>
         u \in DOMAIN tasks /\ Flying(u) /\ tasks'[u].tx = tasks[u].tx
  BY <1>11, <1>12, <1>13 DEF Flying
<1>22. n.wanted = c.wanted /\ n.latest = c.latest
  BY <1>6, <1>15
<1>23. ASSUME ~Retried(w)', NEW u \in DOMAIN tasks', Flying(u)', tasks'[u].window = w
       PROVE  n.wanted \in {0, attempts'[tasks'[u].tx].draft}
  <2>1. ~Retried(w)
    BY <1>18, <1>23, RetriedStays
  <2>2. u = t
    <3>1. ASSUME u # t PROVE FALSE
      <4>1. u \in DOMAIN tasks \ {t} /\ Flying(u) /\ tasks[u].window = w
        BY <1>13, <1>23, <3>1 DEF Flying
      <4>2. QED
        BY <2>1, <4>1, FlyingHolds
    <3>2. QED
      BY <3>1
  <2>3. tasks'[u].tx = x /\ Taking(c)
    BY <1>12, <1>13, <1>23, <2>2 DEF Flying
  <2>4. QED
    BY <1>14, <1>17, <1>22, <2>1, <2>3
<1>24. ASSUME ~Retried(w)', n.phase = "Saved" PROVE NewestSaved(w)'
  <2>1. NewestSaved(w)
    BY <1>6, <1>15, <1>18, <1>24, RetriedStays
  <2>2. QED
    BY <1>16, <1>19, <1>22, <2>1, NewestStays
<1>25. ASSUME ~Retried(w)', n.latest # NoDraft, n.wanted # 0 PROVE n.latest = n.wanted
  BY <1>18, <1>22, <1>25, RetriedStays
<1>26. /\ n.pending \/ n.conflict # None => n.latest # NoDraft
       /\ n.phase = "Saved" => n.retry = None /\ n.conflict = None
  BY <1>6, <1>15, <1>17
<1>27. DraftSound(w)'
  BY <1>16, <1>23, <1>24, <1>25, <1>26 DEF DraftSound
<1>28. QED
  BY <1>16, <1>18, <1>19, <1>20, <1>21, <1>27, DraftsStep

LEMMA FireDrafts ==
  ASSUME Delivery, Drafts, NEW t \in DOMAIN tasks, Fire(t)
  PROVE  Drafts'
<1>1. AutosaveTyped /\ tasks[t].pc = "delay" /\ UNCHANGED log
  BY DEF Delivery, Fire
<1>2. PICK w \in Windows : w = tasks[t].window
  BY <1>1, TaskTyped
<1>3. CASE drains[w] = <<>> /\ DrainLoop(t, form[w], <<t>>, gate)
  <2>1. PICK c \in Coordinators : c = form[w]
    BY <1>1 DEF AutosaveTyped
  <2>2. DOMAIN <<>> = {}
    OBVIOUS
  <2>3. \A u \in DOMAIN tasks \ {t} : Flying(u) /\ tasks[u].window = w => ~InDrain(u)
    BY <1>3, <2>2 DEF InDrain, Range
  <2>4. DraftSound(w)
    BY DEF Drafts
  <2>5. /\ c.pending \/ c.conflict # None => c.latest # NoDraft
        /\ c.phase = "Saved" => c.retry = None /\ c.conflict = None
        /\ ~Retried(w) => /\ c.latest # NoDraft /\ c.wanted # 0 => c.latest = c.wanted
                          /\ c.phase = "Saved" => NewestSaved(w)
    BY <2>1, <2>4 DEF DraftSound
  <2>6. QED
    BY <1>1, <1>2, <1>3, <2>1, <2>3, <2>5, DrainLoopDrafts
<1>4. CASE UNCHANGED <<form, attempts>> /\ tasks' = [tasks EXCEPT ![t].pc = "drain"]
  <2>1. PICK k : k = [tasks[t] EXCEPT !.pc = "drain"]
    OBVIOUS
  <2>2. k \in Tasks /\ k.window = tasks[t].window /\ k.kind = tasks[t].kind /\ k.pc \notin Waits
        /\ tasks' = [tasks EXCEPT ![t] = k]
    BY <1>1, <1>4, <2>1, TaskTyped DEF Tasks, TaskPcs, Waits
  <2>3. KindsKept /\ FlightsKept
    BY <1>1, <2>2, MoveKeeps
  <2>4. HistoryKept
    BY <1>1, <1>4 DEF HistoryKept
  <2>5. QED
    BY <1>2, <1>4, <2>3, <2>4, FormKeptDrafts
<1>5. QED
  BY <1>2, <1>3, <1>4 DEF Fire

LEMMA DrainGrantedDrafts ==
  ASSUME Delivery, Drafts, NEW t \in DOMAIN tasks, DrainGranted(t)
  PROVE  Drafts'
<1>1. AutosaveTyped /\ UNCHANGED log
  BY DEF Delivery, DrainGranted
<1>2. PICK w \in Windows : w = tasks[t].window
  BY <1>1, TaskTyped
<1>3. PICK c \in Coordinators : c = form[w]
  BY <1>1 DEF AutosaveTyped
<1>4. IsHead(t, drains[w]) /\ DrainLoop(t, c, drains[w], gate)
  BY <1>2, <1>3 DEF DrainGranted
<1>5. \A u \in DOMAIN tasks \ {t} : Flying(u) /\ tasks[u].window = w => ~InDrain(u)
  BY <1>4, HolderFliesAlone
<1>6. DraftSound(w)
  BY DEF Drafts
<1>7. /\ c.pending \/ c.conflict # None => c.latest # NoDraft
      /\ c.phase = "Saved" => c.retry = None /\ c.conflict = None
      /\ ~Retried(w) => /\ c.latest # NoDraft /\ c.wanted # 0 => c.latest = c.wanted
                        /\ c.phase = "Saved" => NewestSaved(w)
  BY <1>3, <1>6 DEF DraftSound
<1>8. PICK d, g : d = drains[w] /\ g = gate
  OBVIOUS
<1>9. DrainLoop(t, c, d, g)
  BY <1>4, <1>8
<1>10. QED
  BY <1>1, <1>2, <1>3, <1>5, <1>7, <1>9, DrainLoopDrafts

\* With nothing pending, what has just been saved is what is wanted.
LEMMA CompleteSuccessDrafts ==
  ASSUME Delivery, Drafts, NEW t \in DOMAIN tasks, CompleteSuccess(t)
  PROVE  Drafts'
<1>1. AutosaveTyped /\ tasks[t].pc = "answered" /\ tasks[t].answer = "ok" /\ UNCHANGED log
  BY DEF Delivery, CompleteSuccess
<1>2. PICK w \in Windows : w = tasks[t].window
  BY <1>1, TaskTyped
<1>3. PICK x : x = tasks[t].tx
  OBVIOUS
<1>4. PICK r \in DOMAIN log : log[r].tx = x
  BY <1>1, <1>3 DEF Delivery, AnswerTrue, Applied
<1>5. PICK rev : rev = Resulting(x)
  OBVIOUS
<1>6. rev \in Nat
  <2>1. rev \in DOMAIN log
    BY <1>4, <1>5 DEF Resulting
  <2>2. QED
    BY <1>1, <2>1 DEF AutosaveTyped
<1>7. Flying(t) /\ FlightSound(t)
  BY <1>1 DEF Delivery, Flying, Waits
<1>8. x \in DOMAIN attempts /\ attempts[x].window = w
  BY <1>2, <1>3, <1>7 DEF FlightSound
<1>9. PICK c \in Coordinators : c = form[w]
  BY <1>1 DEF AutosaveTyped
<1>10. PICK n : n = Succeeded(c, rev)
  OBVIOUS
<1>11. /\ n \in Coordinators /\ n.retry = None /\ n.conflict = None
       /\ n.pending = c.pending /\ n.wanted = c.wanted
       /\ n.latest = IF c.pending THEN c.latest ELSE NoDraft
       /\ n.phase = IF c.pending THEN "Pending" ELSE "Saved"
  BY <1>6, <1>10, SucceededFacts
<1>12. DraftSound(w)
  BY DEF Drafts
<1>13. n.pending \/ n.conflict # None => n.latest # NoDraft
  BY <1>9, <1>11, <1>12 DEF DraftSound
<1>14. ~Retried(w) => /\ n.latest # NoDraft /\ n.wanted # 0 => n.latest = n.wanted
                      /\ n.phase = "Saved" => NewestSaved(w)
  <2>1. ASSUME ~Retried(w), n.latest # NoDraft, n.wanted # 0 PROVE n.latest = n.wanted
    BY <1>9, <1>11, <1>12, <2>1 DEF DraftSound
  <2>2. ASSUME ~Retried(w), n.phase = "Saved" PROVE NewestSaved(w)
    <3>1. ~c.pending
      BY <1>11, <2>2
    <3>2. c.wanted \in {0, attempts[x].draft}
      BY <1>2, <1>3, <1>7, <1>9, <1>12, <2>2, <3>1 DEF DraftSound
    <3>3. r \in By(w) /\ attempts[log[r].tx].draft = attempts[x].draft
      BY <1>4, <1>8 DEF By
    <3>4. QED
      BY <1>9, <3>2, <3>3 DEF NewestSaved
  <2>3. QED
    BY <2>1, <2>2
<1>15. CASE InDrain(t) /\ DrainLoop(t, n, drains[w], Tail(gate))
  <2>1. IsHead(t, drains[w])
    BY <1>2, <1>7, <1>15 DEF FlightSound
  <2>2. \A u \in DOMAIN tasks \ {t} : Flying(u) /\ tasks[u].window = w => ~InDrain(u)
    BY <2>1, HolderFliesAlone
  <2>3. PICK d, g : d = drains[w] /\ g = Tail(gate)
    OBVIOUS
  <2>4. DrainLoop(t, n, d, g)
    BY <1>15, <2>3
  <2>5. n.wanted = form[w].wanted
    BY <1>9, <1>11
  <2>6. QED
    BY <1>1, <1>2, <1>11, <1>13, <1>14, <2>2, <2>4, <2>5, DrainLoopDrafts
<1>16. CASE /\ ~InDrain(t) /\ form' = [form EXCEPT ![w] = n]
            /\ tasks' = [tasks EXCEPT ![t] =
                  IF n.disposed THEN Ended(@)
                  ELSE [@ EXCEPT !.pc = "drain", !.tx = None, !.answer = "none"]]
            /\ UNCHANGED attempts
  <2>1. PICK o \in Tasks : o = tasks[t]
    BY <1>1, TaskTyped
  <2>2. PICK k : k = IF n.disposed THEN Ended(o)
                     ELSE [o EXCEPT !.pc = "drain", !.tx = None, !.answer = "none"]
    OBVIOUS
  <2>3. k \in Tasks /\ k.window = o.window /\ k.kind = o.kind /\ k.pc \notin Waits
    <3>1. CASE n.disposed
      BY <2>2, <3>1, EndedFacts
    <3>2. CASE ~n.disposed
      BY <2>2, <3>2 DEF Tasks, TaskPcs, Waits, None
    <3>3. QED
      BY <3>1, <3>2
  <2>4. tasks' = [tasks EXCEPT ![t] = k]
    BY <1>16, <2>1, <2>2
  <2>5. KindsKept /\ FlightsKept
    BY <1>1, <2>1, <2>3, <2>4, MoveKeeps
  <2>6. HistoryKept
    BY <1>1, <1>16 DEF HistoryKept
  <2>7. Retried(w)'
    <3>1. Retried(w)
      BY <1>2, <1>7, <1>16 DEF FlightSound, Retried
    <3>2. QED
      BY <2>5, <3>1, RetriedStays
  <2>8. form'[w] = n /\ \A v \in Windows \ {w} : form'[v] = form[v]
    BY <1>1, <1>16 DEF AutosaveTyped
  <2>9. DraftSound(w)'
    BY <1>11, <1>13, <2>7, <2>8 DEF DraftSound
  <2>10. \A y \in DOMAIN attempts' : attempts'[y].draft # NoDraft
    BY <1>16 DEF Drafts
  <2>11. QED
    BY <2>5, <2>6, <2>8, <2>9, <2>10, DraftsStep DEF FlightsKept
<1>17. QED
  BY <1>2, <1>3, <1>5, <1>9, <1>10, <1>15, <1>16 DEF CompleteSuccess

LEMMA DraftsKeptByNext == Delivery /\ Drafts /\ [Next]_vars => Drafts'
<1> SUFFICES ASSUME Delivery, Drafts, [Next]_vars PROVE Drafts'
  OBVIOUS
<1>1. ASSUME NEW w \in Windows, User(w) PROVE Drafts'
  <2>1. FlushAll(w) \/ Close(w) => Drafts'
    BY FlushDrafts DEF FlushAll, Close
  <2>2. QED
    BY <1>1, <2>1, QueueEditDrafts, RetryDrafts, ReloadDrafts, ReapplyDrafts DEF User
<1>2. ASSUME NEW w \in Windows, Reconcile(w) \/ LoadConflict(w) PROVE Drafts'
  BY <1>2, ReconcileDrafts, LoadConflictDrafts
<1>3. ASSUME NEW t \in DOMAIN tasks, Advance(t) PROVE Drafts'
  BY <1>3, FireDrafts, DrainGrantedDrafts, StoreGrantedDrafts, CompleteSuccessDrafts,
     CompleteFailureDrafts, DisposeDrafts, StopDrafts DEF Advance
<1>4. ASSUME NEW x \in wire, Serve(x) \/ Lose(x) PROVE Drafts'
  BY <1>4, ServeDrafts, LoseDrafts
<1>5. CASE UNCHANGED vars
  BY <1>5 DEF vars, Drafts, DraftSound, Retried, Flying, NewestSaved, By
<1>6. QED
  BY <1>1, <1>2, <1>3, <1>4, <1>5 DEF Next

\* "Saved" is not said of a draft that only the window has: in a window in which no save had to
\* be retried, the newest draft is in the backend, unless the user chose the canonical object
\* (AutosaveCoordinator.ExecuteAttemptAsync).
THEOREM SavedMeansSaved == Spec => []SavedIsSaved
<1>1. Init => Drafts
  BY InitialDrafts
<1>2. Delivery /\ Drafts /\ [Next]_vars => Drafts'
  BY DraftsKeptByNext
<1>3. Drafts => SavedIsSaved
  BY DEF Drafts, DraftSound, SavedIsSaved
<1>4. QED
  BY <1>1, <1>2, <1>3, DeliveryInvariance, PTL DEF Spec
===============================================================================
