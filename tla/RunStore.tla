------------------------------ MODULE RunStore ------------------------------
(***************************************************************************)
(* The durable row of one assessment run and the transitions that          *)
(* RunRepository applies to it (runtime/repository.py), together with the  *)
(* lifecycle rules every stored row must satisfy (contracts/run.py).       *)
(*                                                                         *)
(* A row holds the run's state and stage, whether its three lifecycle      *)
(* timestamps are set, and the run_events rows written for it, oldest      *)
(* first.  The column progress_sequence is the length of that sequence:    *)
(* each transition writes one event numbered progress_sequence + 1 and the *)
(* new row in one transaction.  Snapshots, hashes and the wall-clock       *)
(* values of the timestamps are abstracted away.                           *)
(***************************************************************************)
EXTENDS Naturals, Sequences

CONSTANT NEvidence      \* evidence recipes in the frozen execution closure

ASSUME NEvidenceAssumption == NEvidence \in Nat

-----------------------------------------------------------------------------
ActiveStates   == {"running", "cancelling"}
TerminalStates == {"cancelled", "completed", "failed", "interrupted"}
RunStates      == {"absent", "queued"} \cup ActiveStates \cup TerminalStates

ExecutionStages == {"snapshot_validation", "ingestion", "synchronization",
                    "evidence", "inference", "reporting"}
RunStages       == ExecutionStages \cup {"queued", "completed"}

StageOrder ==
  [queued |-> 0, snapshot_validation |-> 1, ingestion |-> 2,
   synchronization |-> 3, evidence |-> 4, inference |-> 5,
   reporting |-> 6, completed |-> 7]

(* run_total_units: the frozen evidence count plus five fixed stages.      *)
TotalUnits == NEvidence + 5

(* The stage the pipeline reports when it completes unit k.                *)
StageOfUnit(k) ==
  CASE k = 1             -> "snapshot_validation"
    [] k = 2             -> "ingestion"
    [] k = 3             -> "synchronization"
    [] k = NEvidence + 4 -> "inference"
    [] k = NEvidence + 5 -> "reporting"
    [] OTHER             -> "evidence"

-----------------------------------------------------------------------------
Event == [state : RunStates, stage : RunStages, units : Nat]

Row == [state : RunStates, stage : RunStages, started : BOOLEAN,
        finished : BOOLEAN, cancelRequested : BOOLEAN, events : Seq(Event)]

NoRow == [state |-> "absent", stage |-> "queued", started |-> FALSE,
          finished |-> FALSE, cancelRequested |-> FALSE, events |-> <<>>]

QueuedRow == [state |-> "queued", stage |-> "queued", started |-> FALSE,
              finished |-> FALSE, cancelRequested |-> FALSE, events |-> <<>>]

Terminal(row) == row.state \in TerminalStates
Active(row)   == row.state \in ActiveStates

(* _last_progress: the units of the newest event, 0 before the first one.  *)
LastUnits(row) ==
  IF row.events = <<>> THEN 0 ELSE row.events[Len(row.events)].units

(* AssessmentRun.validate_lifecycle, for rows that exist.                  *)
LifecycleValid(row) ==
  /\ row.state = "queued" =>
       /\ row.stage = "queued"
       /\ ~row.started /\ ~row.finished /\ ~row.cancelRequested
  /\ row.state = "running" =>
       /\ row.started /\ ~row.finished /\ ~row.cancelRequested
       /\ row.stage \in ExecutionStages
  /\ row.state = "cancelling" =>
       /\ row.started /\ ~row.finished /\ row.cancelRequested
       /\ row.stage \in ExecutionStages
  /\ row.state \in TerminalStates =>
       /\ row.started /\ row.finished
       /\ row.state = "completed" <=> row.stage = "completed"
       /\ row.state = "cancelled" => row.cancelRequested

(* The event log tells the row's history: it is empty until the run starts, *)
(* the newest event agrees with the row, stages and units never go back,   *)
(* nothing follows a terminal event, and the row obeys the contract.       *)
HistorySound(row) ==
  LET log == row.events IN
    /\ LifecycleValid(row)
    /\ log = <<>> <=> row.state \in {"absent", "queued"}
    /\ log # <<>> => /\ log[Len(log)].state = row.state
                     /\ log[Len(log)].stage = row.stage
    /\ \A i, j \in DOMAIN log : i < j =>
         /\ log[i].units <= log[j].units
         /\ StageOrder[log[i].stage] <= StageOrder[log[j].stage]
         /\ log[i].state \notin TerminalStates

-----------------------------------------------------------------------------
(* _apply raises unless the run is non-terminal, in an allowed state, and  *)
(* keeps its stage or moves to a later one.                                *)
Permitted(row, allowed, stage) ==
  /\ ~Terminal(row)
  /\ row.state \in allowed
  /\ StageOrder[row.stage] <= StageOrder[stage]

(* The row _apply leaves: one more event, and the timestamps in `set' set. *)
Applied(row, state, stage, units, set) ==
  [state |-> state, stage |-> stage,
   started |-> row.started \/ "started" \in set,
   finished |-> row.finished \/ "finished" \in set,
   cancelRequested |-> row.cancelRequested \/ "cancelRequested" \in set,
   events |-> Append(row.events,
                     [state |-> state, stage |-> stage, units |-> units])]

CanStart(row) == Permitted(row, {"queued"}, "snapshot_validation")
Start(row) ==
  Applied(row, "running", "snapshot_validation", 0, {"started"})

(* advance, with the coordinator's check that units never regress.         *)
CanAdvance(row, k) ==
  /\ Permitted(row, ActiveStates, StageOfUnit(k))
  /\ LastUnits(row) <= k
Advance(row, k) == Applied(row, row.state, StageOfUnit(k), k, {})

(* Mutant of RequestCancel: the event forgets the progress made.           *)
RequestCancelAtZero(row) ==
  Applied(row, "cancelling", row.stage, 0, {"cancelRequested"})

RequestCancel(row) ==
  Applied(row, "cancelling", row.stage, LastUnits(row), {"cancelRequested"})

CanComplete(row) == Permitted(row, ActiveStates, "completed")
Complete(row) ==
  Applied(row, "completed", "completed", TotalUnits, {"finished"})

(* Finishing without a result: the stage and the progress stay as they are. *)
Finished(row, state) ==
  Applied(row, state, row.stage, LastUnits(row), {"finished"})

CanFail(row) == Permitted(row, ActiveStates, row.stage)
Fail(row)    == Finished(row, "failed")

CanCancel(row) == Permitted(row, {"cancelling"}, row.stage)
Cancel(row)    == Finished(row, "cancelled")

Interrupt(row) == Finished(row, "interrupted")
=============================================================================
