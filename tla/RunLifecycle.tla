---------------------------- MODULE RunLifecycle ----------------------------
(***************************************************************************)
(* What the runtime promises about assessment runs, whatever the threads,  *)
(* locks, transactions and restarts underneath: each run walks the state   *)
(* graph below once, at most one run is active at a time                   *)
(* (max_parallel_assessment_runs = 1), and a result is published exactly   *)
(* for the runs that were allowed to finish computing.                     *)
(*                                                                         *)
(*   queued -> running -> completed | failed | interrupted                 *)
(*                     -> cancelling -> cancelled | completed | failed     *)
(*                                      | interrupted                      *)
(*   queued -> cancelled          (withdrawn before its execution started) *)
(*                                                                         *)
(* Where the wall clock may regress, the completion of a run may be        *)
(* rejected after its result was published, and the run then fails.        *)
(***************************************************************************)
CONSTANT Run

VARIABLES
  status,       \* the durable state of every run
  published,    \* runs whose result envelope is durable
  regress       \* whether the wall clock may be set back; it never changes

lifecycleVars == <<status, published, regress>>

Idle == \A r \in Run : status[r] \notin {"running", "cancelling"}

Move(r, from, to) ==
  /\ status[r] \in from
  /\ status' = [status EXCEPT ![r] = to]
  /\ UNCHANGED <<published, regress>>

-----------------------------------------------------------------------------
Init ==
  /\ status = [r \in Run |-> "absent"]
  /\ published = {}
  /\ regress \in BOOLEAN

Submit(r)   == Move(r, {"absent"}, "queued")
Begin(r)    == Idle /\ Move(r, {"queued"}, "running")
Withdraw(r) == Move(r, {"queued"}, "cancelled")

RequestCancel(r) == Move(r, {"running"}, "cancelling")

Publish(r) ==
  /\ status[r] \in {"running", "cancelling"}
  /\ published' = published \cup {r}
  /\ UNCHANGED <<status, regress>>

(* Completion needs the result; cancellation and failure exclude it.       *)
Complete(r) == r \in published /\ Move(r, {"running", "cancelling"}, "completed")
Cancel(r)   == r \notin published /\ Move(r, {"cancelling"}, "cancelled")
Fail(r)     == /\ r \notin published \/ regress
               /\ Move(r, {"running", "cancelling"}, "failed")

Interrupt(r) == Move(r, {"running", "cancelling"}, "interrupted")

Next ==
  \E r \in Run :
    \/ Submit(r) \/ Begin(r) \/ Withdraw(r)
    \/ RequestCancel(r) \/ Publish(r)
    \/ Complete(r) \/ Cancel(r) \/ Fail(r) \/ Interrupt(r)

Spec == Init /\ [][Next]_lifecycleVars
=============================================================================
