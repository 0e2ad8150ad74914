----------------------- MODULE RunCoordinator_proofs -----------------------
(***************************************************************************)
(* The safety of the run scheduler for every set of runs, every number of  *)
(* evidence recipes and every number of crashes, clock steps and failed    *)
(* transactions, in three parts: what each transition of RunStore does to  *)
(* a row; the inductive invariant of RunCoordinator (locks, the open       *)
(* transaction, what the worker relies on at each position, the soundness  *)
(* of every event log); and, with OutcomeInvariant added to it, what a run *)
(* comes to: the scheduler implements RunLifecycle, results match          *)
(* outcomes, what is told is true, and no scheduled run is lost.           *)
(***************************************************************************)
EXTENDS RunCoordinator, TLAPS

-----------------------------------------------------------------------------
(* Rows.                                                                   *)

(* The units of the newest event are a natural number.                     *)
LEMMA LastUnitsNat ==
  ASSUME NEW row \in Row
  PROVE  LastUnits(row) \in Nat
<1>1. row.events \in Seq(Event)
  BY DEF Row
<1>2. CASE row.events = <<>>
  BY <1>2 DEF LastUnits
<1>3. CASE row.events # <<>>
  <2>1. row.events[Len(row.events)] \in Event
    BY <1>1, <1>3
  <2> QED
    BY <2>1, <1>3 DEF LastUnits, Event
<1> QED
  BY <1>2, <1>3

(* _STAGE_ORDER is a number for every stage.                               *)
LEMMA StageOrderNat ==
  ASSUME NEW stage \in RunStages PROVE StageOrder[stage] \in Nat
BY DEF RunStages, ExecutionStages, StageOrder

(* The facts every use of _apply rests on: the row it leaves.              *)
LEMMA AppliedFields ==
  ASSUME NEW row \in Row, NEW state \in RunStates, NEW stage \in RunStages,
         NEW units \in Nat, NEW set
  PROVE  LET new == Applied(row, state, stage, units, set)
             n   == Len(row.events)
         IN /\ new \in Row
            /\ new.state = state /\ new.stage = stage
            /\ new.started = (row.started \/ "started" \in set)
            /\ new.finished = (row.finished \/ "finished" \in set)
            /\ new.cancelRequested =
                 (row.cancelRequested \/ "cancelRequested" \in set)
            /\ new.events \in Seq(Event)
            /\ new.events # <<>> /\ Len(new.events) = n + 1
            /\ \A i \in 1 .. n : new.events[i] = row.events[i]
            /\ new.events[n + 1].state = state
            /\ new.events[n + 1].stage = stage
            /\ new.events[n + 1].units = units
            /\ LastUnits(new) = units
<1> DEFINE e   == [state |-> state, stage |-> stage, units |-> units]
           new == Applied(row, state, stage, units, set)
<1>1. e \in Event /\ row.events \in Seq(Event)
  BY DEF Event, Row
<1>2. /\ new.state = state /\ new.stage = stage
      /\ new.started = (row.started \/ "started" \in set)
      /\ new.finished = (row.finished \/ "finished" \in set)
      /\ new.cancelRequested =
           (row.cancelRequested \/ "cancelRequested" \in set)
      /\ new.events = Append(row.events, e)
  BY DEF Applied
<1>3. e.state = state /\ e.stage = stage /\ e.units = units
  OBVIOUS
<1>5. new \in Row
  <2> HIDE DEF e
  <2>1. new = [state |-> state, stage |-> stage,
               started |-> row.started \/ "started" \in set,
               finished |-> row.finished \/ "finished" \in set,
               cancelRequested |-> row.cancelRequested \/
                                     "cancelRequested" \in set,
               events |-> Append(row.events, e)]
    BY DEF Applied, e
  <2> QED
    BY <1>1, <2>1 DEF Row
<1> HIDE DEF e
<1>4. /\ Append(row.events, e) \in Seq(Event)
      /\ Len(Append(row.events, e)) = Len(row.events) + 1
      /\ \A i \in 1 .. Len(row.events) :
           Append(row.events, e)[i] = row.events[i]
      /\ Append(row.events, e)[Len(row.events) + 1] = e
      /\ Append(row.events, e) # <<>>
  BY <1>1
<1> HIDE DEF new
<1>6. LastUnits(new) = e.units
  BY <1>1, <1>2, <1>4 DEF LastUnits
<1> QED
  BY <1>2, <1>3, <1>4, <1>5, <1>6 DEF new

(* A transition that keeps the contract keeps the history sound, provided  *)
(* neither the stage nor the units go back.                                *)
LEMMA AppliedSound ==
  ASSUME NEW row \in Row, NEW state \in RunStates, NEW stage \in RunStages,
         NEW units \in Nat, NEW set,
         HistorySound(row), ~Terminal(row),
         state \notin {"absent", "queued"},
         StageOrder[row.stage] <= StageOrder[stage],
         LastUnits(row) <= units,
         LifecycleValid(Applied(row, state, stage, units, set))
  PROVE  HistorySound(Applied(row, state, stage, units, set))
<1> DEFINE new == Applied(row, state, stage, units, set)
           log == row.events
           n   == Len(log)
<1>1. /\ new \in Row /\ new.state = state /\ new.stage = stage
      /\ new.events \in Seq(Event)
      /\ new.events # <<>> /\ Len(new.events) = n + 1
      /\ \A i \in 1 .. n : new.events[i] = log[i]
      /\ new.events[n + 1].state = state
      /\ new.events[n + 1].stage = stage
      /\ new.events[n + 1].units = units
  BY AppliedFields
<1>2. log \in Seq(Event) /\ n \in Nat
  BY DEF Row
<1>3. \A i \in 1 .. n : /\ log[i].units \in Nat
                        /\ StageOrder[log[i].stage] \in Nat
  <2>1. \A i \in 1 .. n : log[i] \in Event
    BY <1>2
  <2> QED
    BY <2>1, StageOrderNat DEF Event
<1>4. StageOrder[stage] \in Nat
  BY StageOrderNat
<1>5. \A i \in 1 .. n : /\ log[i].units <= units
                        /\ StageOrder[log[i].stage] <= StageOrder[stage]
                        /\ log[i].state \notin TerminalStates
  <2>1. SUFFICES ASSUME NEW i \in 1 .. n
                 PROVE  /\ log[i].units <= units
                        /\ StageOrder[log[i].stage] <= StageOrder[stage]
                        /\ log[i].state \notin TerminalStates
    OBVIOUS
  <2>2. /\ log # <<>> /\ log[n].units = LastUnits(row)
        /\ log[n].state = row.state /\ log[n].stage = row.stage
        /\ n \in 1 .. n
    BY <1>2 DEF HistorySound, LastUnits
  <2>3. i < n => /\ log[i].units <= log[n].units
                 /\ StageOrder[log[i].stage] <= StageOrder[log[n].stage]
                 /\ log[i].state \notin TerminalStates
    BY <1>2, <2>2 DEF HistorySound
  <2>4. CASE i = n
    BY <2>2, <2>4 DEF Terminal
  <2>5. CASE i < n
    <3>1. log[i].units <= log[n].units /\ log[n].units <= units
      BY <2>2, <2>3, <2>5
    <3>2. log[i].units \in Nat /\ log[n].units \in Nat
      BY <1>3, <2>2
    <3>3. /\ StageOrder[log[i].stage] <= StageOrder[log[n].stage]
          /\ StageOrder[log[n].stage] <= StageOrder[stage]
      BY <2>2, <2>3, <2>5
    <3>4. /\ StageOrder[log[i].stage] \in Nat
          /\ StageOrder[log[n].stage] \in Nat
      BY <1>3, <2>2
    <3>5. log[i].units <= units
      BY <3>1, <3>2
    <3>6. StageOrder[log[i].stage] <= StageOrder[stage]
      BY <3>3, <3>4, <1>4
    <3> QED
      BY <3>5, <3>6, <2>3, <2>5
  <2> QED
    BY <1>2, <2>4, <2>5
<1>6. \A i, j \in DOMAIN log : i < j =>
        /\ log[i].units <= log[j].units
        /\ StageOrder[log[i].stage] <= StageOrder[log[j].stage]
        /\ log[i].state \notin TerminalStates
  BY DEF HistorySound
<1> HIDE DEF new
<1>7. ASSUME NEW i \in DOMAIN new.events, NEW j \in DOMAIN new.events, i < j
      PROVE  /\ new.events[i].units <= new.events[j].units
             /\ StageOrder[new.events[i].stage] <=
                  StageOrder[new.events[j].stage]
             /\ new.events[i].state \notin TerminalStates
  <2>1. i \in 1 .. n /\ j \in 1 .. n + 1 /\ DOMAIN log = 1 .. n
    BY <1>1, <1>2, <1>7
  <2>2. CASE j \in 1 .. n
    BY <1>1, <1>6, <1>7, <2>1, <2>2
  <2>3. CASE j = n + 1
    BY <1>1, <1>5, <2>1, <2>3
  <2> QED
    BY <1>2, <2>1, <2>2, <2>3
<1> QED
  BY <1>1, <1>2, <1>7 DEF HistorySound, new

-----------------------------------------------------------------------------
(* The row create writes, and no row, have a sound history.                *)
LEMMA QueuedRowSound ==
  /\ NoRow \in Row /\ QueuedRow \in Row
  /\ HistorySound(NoRow) /\ HistorySound(QueuedRow)
  /\ NoRow.state = "absent" /\ QueuedRow.state = "queued"
<1>1. /\ "absent" \in RunStates /\ "queued" \in RunStates
      /\ "queued" \in RunStages
  BY DEF RunStates, RunStages
<1>2. <<>> \in Seq(Event) /\ DOMAIN <<>> = {}
  OBVIOUS
<1>3. NoRow \in Row /\ QueuedRow \in Row
  BY <1>1, <1>2 DEF NoRow, QueuedRow, Row
<1>4. LifecycleValid(NoRow) /\ LifecycleValid(QueuedRow)
  BY DEF LifecycleValid, NoRow, QueuedRow, TerminalStates
<1> QED
  BY <1>2, <1>3, <1>4 DEF HistorySound, NoRow, QueuedRow

(* Every unit the pipeline reports names one of the six execution stages.  *)
LEMMA StageOfUnitStage ==
  ASSUME NEW k PROVE StageOfUnit(k) \in ExecutionStages
BY DEF StageOfUnit, ExecutionStages

(* What start leaves of a queued row.                                      *)
LEMMA StartRow ==
  ASSUME NEW row \in Row, HistorySound(row), row.state = "queued"
  PROVE  /\ Start(row) \in Row /\ HistorySound(Start(row))
         /\ Start(row).state = "running"
         /\ LastUnits(Start(row)) = 0
<1>1. /\ "running" \in RunStates /\ "snapshot_validation" \in RunStages
      /\ 0 \in Nat
  BY DEF RunStates, ActiveStates, RunStages, ExecutionStages
<1> DEFINE new == Applied(row, "running", "snapshot_validation", 0, {"started"})
<1>0. Start(row) = new
  BY DEF Start
<1> HIDE DEF new
<1>2. /\ Start(row) \in Row
      /\ Start(row).state = "running"
      /\ Start(row).stage = "snapshot_validation"
      /\ Start(row).started = (row.started \/ "started" \in {"started"})
      /\ Start(row).finished = (row.finished \/ "finished" \in {"started"})
      /\ Start(row).cancelRequested =
           (row.cancelRequested \/ "cancelRequested" \in {"started"})
      /\ LastUnits(Start(row)) = 0
  BY <1>0, <1>1, AppliedFields DEF new
<1>3. /\ ~row.finished /\ ~row.cancelRequested /\ row.stage = "queued"
      /\ row.events = <<>>
  BY DEF HistorySound, LifecycleValid
<1>4. LifecycleValid(Start(row))
  BY <1>2, <1>3 DEF LifecycleValid, ExecutionStages, TerminalStates
<1>5. StageOrder[row.stage] <= StageOrder["snapshot_validation"]
  BY <1>3 DEF StageOrder
<1>6. LastUnits(row) <= 0 /\ ~Terminal(row)
  BY <1>3 DEF LastUnits, Terminal, TerminalStates
<1>7. HistorySound(Start(row))
  BY <1>1, <1>4, <1>5, <1>6, AppliedSound DEF Start
<1> QED
  BY <1>2, <1>7

(* A progress report the coordinator lets through.                         *)
LEMMA AdvanceRow ==
  ASSUME NEW row \in Row, HistorySound(row), NEW k \in Nat, CanAdvance(row, k)
  PROVE  /\ Advance(row, k) \in Row /\ HistorySound(Advance(row, k))
         /\ Advance(row, k).state = row.state
         /\ LastUnits(Advance(row, k)) = k
<1>1. /\ row.state \in RunStates /\ StageOfUnit(k) \in RunStages
      /\ StageOfUnit(k) \in ExecutionStages
  BY StageOfUnitStage DEF Row, RunStages
<1>2. /\ Advance(row, k) \in Row
      /\ Advance(row, k).state = row.state
      /\ Advance(row, k).stage = StageOfUnit(k)
      /\ Advance(row, k).started = (row.started \/ "started" \in {})
      /\ Advance(row, k).finished = (row.finished \/ "finished" \in {})
      /\ Advance(row, k).cancelRequested =
           (row.cancelRequested \/ "cancelRequested" \in {})
      /\ LastUnits(Advance(row, k)) = k
  BY <1>1, AppliedFields DEF Advance
<1>3. /\ ~Terminal(row) /\ row.state \in ActiveStates
      /\ StageOrder[row.stage] <= StageOrder[StageOfUnit(k)]
      /\ LastUnits(row) <= k
  BY DEF CanAdvance, Permitted
<1>4. LifecycleValid(Advance(row, k))
  BY <1>1, <1>2, <1>3
     DEF HistorySound, LifecycleValid, ActiveStates, TerminalStates
<1>5. row.state \notin {"absent", "queued"}
  BY <1>3 DEF ActiveStates
<1>6. HistorySound(Advance(row, k))
  BY <1>1, <1>3, <1>4, <1>5, AppliedSound DEF Advance
<1> QED
  BY <1>2, <1>6

(* A stage is never later than itself, and completion is the last one.     *)
LEMMA StageOrderBounds ==
  ASSUME NEW stage \in RunStages
  PROVE  /\ StageOrder[stage] <= StageOrder[stage]
         /\ StageOrder[stage] <= StageOrder["completed"]
BY DEF RunStages, ExecutionStages, StageOrder

(* request_cancel on a running row appends one event and no units.         *)
LEMMA RequestCancelRow ==
  ASSUME NEW row \in Row, HistorySound(row), row.state = "running"
  PROVE  /\ RequestCancel(row) \in Row /\ HistorySound(RequestCancel(row))
         /\ RequestCancel(row).state = "cancelling"
         /\ LastUnits(RequestCancel(row)) = LastUnits(row)
<1> DEFINE set == {"cancelRequested"}
<1>1. /\ "cancelling" \in RunStates /\ row.stage \in RunStages
      /\ LastUnits(row) \in Nat /\ LastUnits(row) <= LastUnits(row)
  BY LastUnitsNat DEF RunStates, ActiveStates, Row
<1>2. /\ RequestCancel(row) \in Row
      /\ RequestCancel(row).state = "cancelling"
      /\ RequestCancel(row).stage = row.stage
      /\ RequestCancel(row).started = (row.started \/ "started" \in set)
      /\ RequestCancel(row).finished = (row.finished \/ "finished" \in set)
      /\ RequestCancel(row).cancelRequested =
           (row.cancelRequested \/ "cancelRequested" \in set)
      /\ LastUnits(RequestCancel(row)) = LastUnits(row)
  BY <1>1, AppliedFields DEF RequestCancel
<1>3. LifecycleValid(RequestCancel(row)) /\ ~Terminal(row)
  BY <1>2 DEF HistorySound, LifecycleValid, Terminal, TerminalStates
<1>4. HistorySound(RequestCancel(row))
  BY <1>1, <1>3, StageOrderBounds, AppliedSound DEF RequestCancel
<1> QED
  BY <1>2, <1>4

(* complete on an active row leaves a completed one with a sound history.  *)
LEMMA CompleteRow ==
  ASSUME NEW row \in Row, HistorySound(row), Active(row),
         LastUnits(row) <= TotalUnits
  PROVE  /\ Complete(row) \in Row /\ HistorySound(Complete(row))
         /\ Complete(row).state = "completed"
<1> DEFINE set == {"finished"}
<1>1. /\ "completed" \in RunStates /\ "completed" \in RunStages
      /\ TotalUnits \in Nat /\ row.stage \in RunStages
  BY NEvidenceAssumption
     DEF RunStates, TerminalStates, RunStages, TotalUnits, Row
<1>2. /\ Complete(row) \in Row
      /\ Complete(row).state = "completed" /\ Complete(row).stage = "completed"
      /\ Complete(row).started = (row.started \/ "started" \in set)
      /\ Complete(row).finished = (row.finished \/ "finished" \in set)
  BY <1>1, AppliedFields DEF Complete
<1>3. LifecycleValid(Complete(row)) /\ ~Terminal(row)
  BY <1>2 DEF HistorySound, LifecycleValid, Terminal, Active, ActiveStates,
              TerminalStates
<1>4. HistorySound(Complete(row))
  BY <1>1, <1>3, StageOrderBounds, AppliedSound
     DEF Complete, Active, ActiveStates
<1> QED
  BY <1>2, <1>4

(* Ending a run without a result; only a cancelling run may end cancelled. *)
LEMMA FinishedRow ==
  ASSUME NEW row \in Row, HistorySound(row), Active(row),
         NEW state \in {"failed", "cancelled", "interrupted"},
         state = "cancelled" => row.state = "cancelling"
  PROVE  /\ Finished(row, state) \in Row /\ HistorySound(Finished(row, state))
         /\ Finished(row, state).state = state
<1> DEFINE set == {"finished"}
<1>1. /\ state \in RunStates /\ row.stage \in RunStages
      /\ LastUnits(row) \in Nat /\ LastUnits(row) <= LastUnits(row)
      /\ state \notin {"absent", "queued"}
  BY LastUnitsNat DEF RunStates, TerminalStates, Row
<1>2. /\ Finished(row, state) \in Row
      /\ Finished(row, state).state = state
      /\ Finished(row, state).stage = row.stage
      /\ Finished(row, state).started = (row.started \/ "started" \in set)
      /\ Finished(row, state).finished = (row.finished \/ "finished" \in set)
      /\ Finished(row, state).cancelRequested =
           (row.cancelRequested \/ "cancelRequested" \in set)
  BY <1>1, AppliedFields DEF Finished
<1>3. /\ row.stage \in ExecutionStages /\ row.started
      /\ row.state = "cancelling" => row.cancelRequested
      /\ ~Terminal(row)
  BY DEF HistorySound, LifecycleValid, Terminal, Active, ActiveStates,
         TerminalStates
<1>4. LifecycleValid(Finished(row, state))
  BY <1>2, <1>3 DEF LifecycleValid, ExecutionStages, TerminalStates
<1>5. HistorySound(Finished(row, state))
  BY <1>1, <1>3, <1>4, StageOrderBounds, AppliedSound DEF Finished
<1> QED
  BY <1>2, <1>5

(* fail, cancel and interrupt.                                             *)
LEMMA EndRow ==
  ASSUME NEW row \in Row, HistorySound(row), Active(row)
  PROVE  /\ Fail(row) \in Row /\ HistorySound(Fail(row))
         /\ Fail(row).state = "failed"
         /\ Interrupt(row) \in Row /\ HistorySound(Interrupt(row))
         /\ Interrupt(row).state = "interrupted"
         /\ row.state = "cancelling" => /\ Cancel(row) \in Row
                                        /\ HistorySound(Cancel(row))
                                        /\ Cancel(row).state = "cancelled"
BY FinishedRow DEF Fail, Cancel, Interrupt

-----------------------------------------------------------------------------
(* The stage of a run never has to go back: a later unit is reported under *)
(* the same or a later stage, so _apply never rejects it for its stage.    *)
LEMMA StageOfUnitMonotone ==
  ASSUME NEW j \in 1 .. TotalUnits, NEW k \in 1 .. TotalUnits, j <= k
  PROVE  StageOrder[StageOfUnit(j)] <= StageOrder[StageOfUnit(k)]
<1>1. \A i \in 1 .. TotalUnits :
        StageOrder[StageOfUnit(i)] =
          IF i <= 3 THEN i ELSE IF i <= NEvidence + 3 THEN 4
          ELSE IF i = NEvidence + 4 THEN 5 ELSE 6
  BY NEvidenceAssumption, SMTT(30) DEF StageOrder, StageOfUnit, TotalUnits
<1> QED
  BY <1>1, NEvidenceAssumption DEF TotalUnits

-----------------------------------------------------------------------------
(* The scheduler.                                                          *)

(* What coordinator.cancel makes of a row.                                 *)
LEMMA CancelOutcomeRow ==
  ASSUME NEW row \in Row, HistorySound(row), row.state # "absent"
  PROVE  /\ CancelOutcome(row) \in Row /\ HistorySound(CancelOutcome(row))
         /\ row.state = "queued" => CancelOutcome(row).state = "cancelled"
         /\ row.state = "running" =>
              /\ CancelOutcome(row).state = "cancelling"
              /\ LastUnits(CancelOutcome(row)) = LastUnits(row)
         /\ row.state \notin {"queued", "running"} => CancelOutcome(row) = row
<1>1. CASE row.state = "queued"
  <2> DEFINE started == Start(row)
             asked   == RequestCancel(started)
  <2>1. /\ started \in Row /\ HistorySound(started)
        /\ started.state = "running"
    BY <1>1, StartRow
  <2> HIDE DEF started
  <2>2. /\ asked \in Row /\ HistorySound(asked)
        /\ asked.state = "cancelling"
    BY <2>1, RequestCancelRow
  <2> HIDE DEF asked
  <2>3. /\ Cancel(asked) \in Row /\ HistorySound(Cancel(asked))
        /\ Cancel(asked).state = "cancelled"
    BY <2>2, EndRow DEF Active, ActiveStates
  <2>4. CancelOutcome(row) = Cancel(asked)
    BY <1>1 DEF CancelOutcome, asked, started
  <2> QED
    BY <1>1, <2>3, <2>4
<1>2. CASE row.state = "running"
  <2>1. CancelOutcome(row) = RequestCancel(row)
    BY <1>2 DEF CancelOutcome
  <2> QED
    BY <1>2, <2>1, RequestCancelRow
<1>3. CASE row.state \notin {"queued", "running"}
  <2>1. CancelOutcome(row) = row
    BY <1>3 DEF CancelOutcome
  <2> QED
    BY <1>3, <2>1
<1> QED
  BY <1>1, <1>2, <1>3

(* The one row a step changes, and what the change keeps.                  *)
Rewrites(q, new) ==
  /\ q \in Run
  /\ runs' = [runs EXCEPT ![q] = new]
  /\ new \in Row /\ HistorySound(new) /\ new.state # "absent"
  /\ ~Terminal(runs[q]) \/ new = runs[q]

(* A step rewrites at most one row, and no row that is terminal.           *)
LEMMA RowChange ==
  ASSUME InductiveInvariant, [Next]_vars
  PROVE  runs' = runs \/ \E q, new : Rewrites(q, new)
<1> USE DEF durable, vars
<1>1. /\ runs \in [Run -> Row] /\ \A r \in Run : HistorySound(runs[r])
      /\ wunit \in 0 .. TotalUnits
  BY DEF InductiveInvariant, TypeOK, EventLogSound
<1>2. wpc \notin IdlePCs => wrun \in Run
  BY DEF InductiveInvariant, TypeOK, WorkerPosition
<1>3. /\ wpc = "start" => runs[wrun].state = "queued"
      /\ wpc \in ExecutePCs =>
           Active(runs[wrun]) /\ LastUnits(runs[wrun]) = wunit
      /\ wpc = "cancel" => runs[wrun].state = "cancelling"
  BY DEF InductiveInvariant, WorkerPosition, ProgressAgrees, WithdrawPCs
<1>4. wunit + 1 \in Nat /\ wunit <= TotalUnits
  BY <1>1, NEvidenceAssumption DEF TotalUnits
<1>5. ASSUME NEW r \in Run, MRecoverRun(r)
      PROVE  Rewrites(r, Interrupt(runs[r]))
  <2>1. Active(runs[r]) /\ runs' = [runs EXCEPT ![r] = Interrupt(runs[r])]
    BY <1>5 DEF MRecoverRun
  <2> QED
    BY <1>1, <2>1, EndRow
       DEF Rewrites, Active, ActiveStates, Terminal, TerminalStates
<1>6. ASSUME NEW r \in Run, MRunStart(r)
      PROVE  runs' = runs \/ Rewrites(r, QueuedRow)
  BY <1>1, <1>6, QueuedRowSound DEF MRunStart, Rewrites, Terminal, TerminalStates
<1>7. MCancelCommit => Rewrites(mrun, CancelOutcome(runs[mrun]))
  <2>1. SUFFICES ASSUME MCancelCommit
                 PROVE  Rewrites(mrun, CancelOutcome(runs[mrun]))
    OBVIOUS
  <2>2. /\ mrun \in Run /\ runs[mrun].state # "absent"
        /\ runs' = [runs EXCEPT ![mrun] = CancelOutcome(runs[mrun])]
    BY <2>1 DEF MCancelCommit, InductiveInvariant, OpenTransaction
  <2> QED
    BY <1>1, <2>2, CancelOutcomeRow DEF Rewrites, Terminal, TerminalStates
<1>8. WStart => Rewrites(wrun, Start(runs[wrun]))
  BY <1>1, <1>2, <1>3, StartRow
     DEF WStart, WPersist, Rewrites, IdlePCs, Terminal, TerminalStates
<1>9. WAdvance =>
        runs' = runs \/ Rewrites(wrun, Advance(runs[wrun], wunit + 1))
  BY <1>1, <1>2, <1>3, <1>4, AdvanceRow
     DEF WAdvance, WPersist, WLeave, Rewrites, IdlePCs, ExecutePCs,
         Active, ActiveStates, Terminal, TerminalStates
<1>10. WComplete => runs' = runs \/ Rewrites(wrun, Complete(runs[wrun]))
  BY <1>1, <1>2, <1>3, <1>4, CompleteRow
     DEF WComplete, WPersist, WLeave, Rewrites, IdlePCs, ExecutePCs,
         Active, ActiveStates, Terminal, TerminalStates
<1>11. WRequest => runs' = runs \/ Rewrites(wrun, RequestCancel(runs[wrun]))
  BY <1>1, <1>2, RequestCancelRow
     DEF WRequest, WPersist, WLeave, Rewrites, IdlePCs, Terminal,
         TerminalStates
<1>12. WCancel => Rewrites(wrun, Cancel(runs[wrun]))
  BY <1>1, <1>2, <1>3, EndRow
     DEF WCancel, WPersist, Rewrites, IdlePCs, Active, ActiveStates,
         Terminal, TerminalStates
<1>13. WFail => runs' = runs \/ Rewrites(wrun, Fail(runs[wrun]))
  BY <1>1, <1>2, <1>3, EndRow
     DEF WFail, WPersist, WLeave, Rewrites, IdlePCs, ExecutePCs, Active,
         ActiveStates, Terminal, TerminalStates
<1>14. (Request \/ MainStep \/ Failure \/ Crash) =>
         \/ runs' = runs \/ MCancelCommit
         \/ \E r \in Run : MRecoverRun(r) \/ MRunStart(r)
  BY DEF Request, MainStep, Failure, MOpen, MRecoverRejected, MServe,
         MEnqueue, MCancelBegin, MCancelApply, MCancelRollBack,
         MCancelRejected, MClose, MCloseLock, MJoin, Crash, WRejected,
         WLeave, EndCancel
<1>15. WorkerStep => \/ runs' = runs \/ WStart \/ WAdvance \/ WComplete
                     \/ WRequest \/ WCancel \/ WFail
  BY DEF WorkerStep, WGet, WLock, WLook, WLeave, WEnterExecutor, WWork,
         WPrecheck, WToken, WPublish, WAdvanceNotify, WNotify,
         WRequestNotify, WSignal
<1> QED
  BY <1>5, <1>6, <1>7, <1>8, <1>9, <1>10, <1>11, <1>12, <1>13, <1>14, <1>15
     DEF Next

(* What every step leaves true of the rows.                                *)
LEMMA RowFacts ==
  ASSUME InductiveInvariant, [Next]_vars
  PROVE  /\ runs' \in [Run -> Row]
         /\ EventLogSound'
         /\ \A r \in Run : runs[r].state # "absent" => runs'[r].state # "absent"
         /\ \A r \in Run : Terminal(runs[r]) => runs'[r] = runs[r]
<1>1. runs \in [Run -> Row] /\ EventLogSound
  BY DEF InductiveInvariant, TypeOK
<1>2. CASE runs' = runs
  BY <1>1, <1>2 DEF EventLogSound
<1>3. ASSUME NEW q, NEW new, Rewrites(q, new)
      PROVE  /\ runs' \in [Run -> Row]
             /\ EventLogSound'
             /\ \A r \in Run :
                  runs[r].state # "absent" => runs'[r].state # "absent"
             /\ \A r \in Run : Terminal(runs[r]) => runs'[r] = runs[r]
  <2>1. /\ q \in Run /\ runs' = [runs EXCEPT ![q] = new]
        /\ new \in Row /\ HistorySound(new) /\ new.state # "absent"
        /\ ~Terminal(runs[q]) \/ new = runs[q]
    BY <1>3 DEF Rewrites
  <2>2. /\ runs'[q] = new
        /\ \A r \in Run : r # q => runs'[r] = runs[r]
        /\ runs' \in [Run -> Row]
    BY <1>1, <2>1
  <2> QED
    BY <1>1, <2>1, <2>2 DEF EventLogSound
<1> QED
  BY <1>2, <1>3, RowChange

-----------------------------------------------------------------------------
(* Locks and positions: every step keeps the control part of the invariant. *)

(* Every step keeps the two locks with the thread whose position holds them. *)
LEMMA LocksStep ==
  ASSUME InductiveInvariant, Next
  PROVE  LocksHeld'
<1> USE DEF durable, lockVars, mainVars, workerVars, memoryVars
<1>1. /\ LocksHeld /\ database \in {"main", None} /\ coord \in {"worker", None}
      /\ \A r \in Run : runs[r] \in Row
      /\ mpc = "recover" => wpc = "none"
  BY DEF InductiveInvariant, TypeOK, WorkerPosition, Serving
<1>2. None \notin {"main", "worker"} /\ None \notin Row
  BY RunAssumption
<1>3. mpc = "cancelLock" => CancelOutcome(tx) \in Row
  BY <1>1, CancelOutcomeRow
     DEF InductiveInvariant, OpenTransaction, EventLogSound
<1>4. Request \/ Crash => LocksHeld'
  BY <1>1, <1>2
     DEF Request, MOpen, MClose, MRunStart, MCancelBegin, Crash, DropMemory,
         LocksHeld, LockedPCs
<1>5. MainStep => LocksHeld'
  BY <1>1, <1>2, <1>3
     DEF MainStep, MRecoverRun, MServe, MEnqueue, MCancelApply,
         MCancelCommit, EndCancel, MCloseLock, MJoin, DropMemory, LocksHeld,
         LockedPCs
<1>6. WorkerStep => LocksHeld'
  BY <1>1, <1>2
     DEF WorkerStep, WGet, WLock, WLook, WLeave, WEnterExecutor, WWork,
         WPrecheck, WToken, WPublish, WAdvanceNotify, WNotify,
         WRequestNotify, WSignal, WStart, WAdvance, WComplete, WRequest,
         WCancel, WFail, WPersist, LocksHeld, LockedPCs
<1>7. Failure => LocksHeld'
  BY <1>1, <1>2
     DEF Failure, MRecoverRejected, MCancelRollBack, MCancelRejected,
         EndCancel, WRejected, WLeave, LocksHeld, LockedPCs
<1> QED
  BY <1>4, <1>5, <1>6, <1>7 DEF Next

(* The rows change under the open transaction only by its own commit.      *)
LEMMA TransactionStep ==
  ASSUME InductiveInvariant, Next
  PROVE  OpenTransaction'
<1> USE DEF durable, lockVars, mainVars, workerVars, memoryVars
<1>1. /\ OpenTransaction
      /\ database = "main" <=> mpc \in {"cancelLock", "cancelCommit"}
      /\ \A r \in Run : runs[r] \in Row
      /\ runs \in [Run -> Row]
  BY DEF InductiveInvariant, TypeOK, LocksHeld
<1>2. /\ None \notin {"main", "worker"}
      /\ \A r \in Run : runs[r].state # "absent" => runs'[r].state # "absent"
  BY RunAssumption, RowFacts
<1>3. Request \/ Crash => OpenTransaction'
  <2>1. ASSUME NEW r \in Run, MRunStart(r) PROVE runs'[r].state # "absent"
    BY <1>1, <2>1, QueuedRowSound DEF MRunStart
  <2> QED
    BY <1>1, <1>2, <2>1
       DEF Request, MOpen, MClose, MRunStart, MCancelBegin, Crash,
           OpenTransaction
<1>4. MainStep => OpenTransaction'
  BY <1>1, <1>2
     DEF MainStep, MRecoverRun, MServe, MEnqueue, MCancelApply,
         MCancelCommit, EndCancel, MCloseLock, MJoin, OpenTransaction
<1>5. WorkerStep => mpc' = mpc /\ mrun' = mrun /\ tx' = tx
                    /\ (runs' = runs \/ database = None)
  BY DEF WorkerStep, WGet, WLock, WLook, WLeave, WEnterExecutor, WWork,
         WPrecheck, WToken, WPublish, WAdvanceNotify, WNotify,
         WRequestNotify, WSignal, WStart, WAdvance, WComplete, WRequest,
         WCancel, WFail
<1>6. WorkerStep => OpenTransaction'
  BY <1>1, <1>2, <1>5 DEF OpenTransaction
<1>7. Failure => OpenTransaction'
  BY <1>1, <1>2
     DEF Failure, MRecoverRejected, MCancelRollBack, MCancelRejected,
         EndCancel, WRejected, WLeave, OpenTransaction
<1> QED
  BY <1>3, <1>4, <1>6, <1>7 DEF Next

(* What is scheduled or queued exists, and stays so.                       *)
LEMMA ScheduledStep ==
  ASSUME InductiveInvariant, Next
  PROVE  ScheduledExist'
<1> USE DEF durable, lockVars, mainVars, workerVars, memoryVars
<1>1. /\ queue \in Seq(scheduled \cup {Stop}) /\ scheduled \subseteq Run
      /\ \A r \in scheduled : runs[r].state # "absent"
      /\ mpc = "enqueue" => mrun \in Run /\ runs[mrun].state # "absent"
      /\ \A r \in Run : runs[r].state # "absent" => runs'[r].state # "absent"
  BY RowFacts DEF InductiveInvariant, TypeOK, ScheduledExist, OpenTransaction
<1>2. CASE UNCHANGED <<queue, scheduled>>
  BY <1>1, <1>2 DEF ScheduledExist
<1>3. CASE queue' = <<>> /\ scheduled' = {}
  BY <1>3 DEF ScheduledExist
<1>4. CASE MEnqueue
  <2>1. CASE UNCHANGED <<queue, scheduled>>
    BY <1>2, <2>1
  <2>2. CASE scheduled' = scheduled \cup {mrun} /\ queue' = Append(queue, mrun)
    <3>1. queue \in Seq(scheduled' \cup {Stop}) /\ mrun \in scheduled'
      BY <1>1, <2>2
    <3>2. queue' \in Seq(scheduled' \cup {Stop})
      BY <2>2, <3>1
    <3> QED
      BY <1>1, <1>4, <2>2, <3>2 DEF ScheduledExist, MEnqueue
  <2> QED
    BY <1>4, <2>1, <2>2 DEF MEnqueue
<1>5. CASE MCloseLock
  BY <1>1, <1>5 DEF ScheduledExist, MCloseLock
<1>6. CASE WGet
  BY <1>1, <1>6 DEF ScheduledExist, WGet
<1>7. \/ UNCHANGED <<queue, scheduled>>
      \/ queue' = <<>> /\ scheduled' = {}
      \/ MEnqueue \/ MCloseLock \/ WGet
  BY DEF Next, Request, MOpen, MClose, MRunStart, MCancelBegin, Crash,
         DropMemory, MainStep, MRecoverRun, MServe, MCancelApply,
         MCancelCommit, EndCancel, MJoin, Failure, MRecoverRejected,
         MCancelRollBack, MCancelRejected, WRejected, WLeave, WorkerStep,
         WLock, WLook, WEnterExecutor, WWork, WPrecheck, WToken, WPublish,
         WAdvanceNotify, WNotify, WRequestNotify, WSignal, WStart, WAdvance,
         WComplete, WRequest, WCancel, WFail
<1> QED
  BY <1>2, <1>3, <1>4, <1>5, <1>6, <1>7

-----------------------------------------------------------------------------
(* The worker's assumptions.                                               *)

(* While the main thread may commit a cancellation, the worker is not past *)
(* a step that would have needed the database lock.                        *)
LEMMA PastDatabaseStep ==
  ASSUME InductiveInvariant, Next
  PROVE  wpc' \in PastDatabasePCs => mpc' # "cancelCommit"
<1> USE DEF durable, lockVars, mainVars, workerVars
<1>1. /\ wpc \in PastDatabasePCs => mpc # "cancelCommit"
      /\ coord = "worker" <=> wpc \in LockedPCs
      /\ database = "main" <=> mpc \in {"cancelLock", "cancelCommit"}
      /\ None \notin {"main", "worker"}
  BY RunAssumption DEF InductiveInvariant, WorkerPosition, LocksHeld
<1>2. CASE Request \/ MainStep \/ Failure \/ Crash
  BY <1>1, <1>2
     DEF Request, MOpen, MClose, MRunStart, MCancelBegin, Crash, DropMemory,
         MainStep, MRecoverRun, MServe, MEnqueue, MCancelApply,
         MCancelCommit, EndCancel, MCloseLock, MJoin, Failure,
         MRecoverRejected, MCancelRollBack, MCancelRejected, WRejected,
         WLeave, PastDatabasePCs, LockedPCs
<1>3. CASE WorkerStep
  BY <1>1, <1>3
     DEF WorkerStep, WGet, WLock, WLook, WLeave, WEnterExecutor, WWork,
         WPrecheck, WToken, WPublish, WAdvanceNotify, WNotify,
         WRequestNotify, WSignal, WStart, WAdvance, WComplete, WRequest,
         WCancel, WFail, WPersist, PastDatabasePCs, LockedPCs
<1> QED
  BY <1>2, <1>3 DEF Next

(* What the worker relies on survives a step of the main thread: a commit  *)
(* that meets it outside its blocks only turns running into cancelling.    *)
LEMMA MainKeepsPosition ==
  ASSUME InductiveInvariant, Request \/ MainStep \/ Crash \/
           MRecoverRejected \/ MCancelRollBack \/ MCancelRejected
  PROVE  WorkerPosition' /\ ProgressAgrees'
<1> USE DEF durable, lockVars, mainVars, workerVars, memoryVars
<1> DEFINE Position == /\ wpc \notin IdlePCs => wrun \in scheduled
                       /\ wpc = "start"      => runs[wrun].state = "queued"
                       /\ wpc \in ExecutePCs => /\ Active(runs[wrun])
                                               /\ LastUnits(runs[wrun]) = wunit
                       /\ wpc \in WithdrawPCs => runs[wrun].state = "cancelling"
                       /\ wpc \in EndedPCs   => Terminal(runs[wrun])
<1>1. /\ WorkerPosition /\ ProgressAgrees /\ Position
      /\ runs \in [Run -> Row] /\ scheduled \subseteq Run
  BY DEF InductiveInvariant, WorkerPosition, ProgressAgrees, TypeOK
<1>2. wpc' \in PastDatabasePCs => mpc' # "cancelCommit"
  BY PastDatabaseStep DEF Next, Failure
<1> DEFINE Kept == wpc' = wpc /\ wrun' = wrun /\ wunit' = wunit
                   /\ scheduled \subseteq scheduled'
           Dropped == wpc' = "none" /\ mpc' \in {"down", "recover"}
<1>3. CASE Dropped
  BY <1>3, <1>2 DEF WorkerPosition, ProgressAgrees, Serving, IdlePCs, ExecutePCs,
                    WithdrawPCs, EndedPCs
<1>4. CASE MServe
  BY <1>4, <1>2 DEF MServe, WorkerPosition, ProgressAgrees, Serving, IdlePCs,
                    ExecutePCs, WithdrawPCs, EndedPCs
<1>5. CASE Kept /\ Serving' = Serving /\ runs' = runs
  BY <1>1, <1>2, <1>5 DEF WorkerPosition, ProgressAgrees
<1>6. CASE MCancelCommit
  <2>1. /\ Kept /\ Serving' = Serving
        /\ mrun \in Run /\ runs[mrun].state # "absent"
        /\ runs' = [runs EXCEPT ![mrun] = CancelOutcome(runs[mrun])]
        /\ wpc \notin PastDatabasePCs
    BY <1>1, <1>6 DEF MCancelCommit, EndCancel, Serving, InductiveInvariant,
                      OpenTransaction, WorkerPosition
  <2>2. HistorySound(runs[mrun])
    BY <2>1 DEF InductiveInvariant, EventLogSound
  <2>3. Active(runs[mrun]) =>
          /\ Active(runs'[mrun])
          /\ LastUnits(runs'[mrun]) = LastUnits(runs[mrun])
    BY <1>1, <2>1, <2>2, CancelOutcomeRow DEF Active, ActiveStates
  <2>4. runs[mrun].state \notin {"queued", "running"} =>
          runs'[mrun] = runs[mrun]
    BY <1>1, <2>1, <2>2, CancelOutcomeRow
  <2>5. \A r \in Run : r # mrun => runs'[r] = runs[r]
    BY <1>1, <2>1
  <2>6. wrun \notin Run => wpc \in IdlePCs
    BY <1>1
  <2>7. Position'
    BY <1>1, <2>1, <2>3, <2>4, <2>5, <2>6
       DEF IdlePCs, ExecutePCs, WithdrawPCs, EndedPCs, PastDatabasePCs,
           Terminal, TerminalStates
  <2> QED
    BY <1>1, <1>2, <2>1, <2>7 DEF WorkerPosition, ProgressAgrees
<1>7. CASE \E r \in Run : MRunStart(r)
  <2>1. PICK r \in Run : MRunStart(r)
    BY <1>7
  <2>2. /\ Kept /\ Serving' = Serving
        /\ runs' = runs \/ (/\ runs[r].state = "absent"
                            /\ runs' = [runs EXCEPT ![r] = QueuedRow])
    BY <2>1 DEF MRunStart, Serving
  <2>3. CASE runs' = runs
    BY <1>5, <2>2, <2>3
  <2>4. CASE runs[r].state = "absent" /\ runs' = [runs EXCEPT ![r] = QueuedRow]
    <3>1. r \notin scheduled /\ \A q \in scheduled : runs'[q] = runs[q]
      BY <1>1, <2>4 DEF InductiveInvariant, ScheduledExist
    <3>2. Position'
      BY <1>1, <2>2, <3>1 DEF IdlePCs, ExecutePCs, WithdrawPCs, EndedPCs
    <3> QED
      BY <1>1, <1>2, <2>2, <3>2 DEF WorkerPosition, ProgressAgrees
  <2> QED
    BY <2>2, <2>3, <2>4
<1>8. CASE \E r \in Run : MRecoverRun(r)
  <2>1. Dropped
    BY <1>1, <1>8 DEF MRecoverRun, WorkerPosition, Serving
  <2> QED
    BY <1>3, <2>1
<1>9. \/ Dropped \/ (Kept /\ Serving' = Serving /\ runs' = runs)
      \/ MServe \/ MCancelCommit
      \/ \E r \in Run : MRunStart(r) \/ MRecoverRun(r)
  BY <1>1
     DEF Request, MOpen, MClose, MCancelBegin, Crash, DropMemory, MainStep,
         MEnqueue, MCancelApply, EndCancel, MCloseLock, MJoin,
         MRecoverRejected, MCancelRollBack, MCancelRejected, Serving,
         WorkerPosition
<1> QED
  BY <1>3, <1>4, <1>5, <1>6, <1>7, <1>8, <1>9

(* A step of the worker: a change of one row leads to the position that    *)
(* relies on it.                                                           *)
LEMMA WorkerKeepsPosition ==
  ASSUME InductiveInvariant, WorkerStep \/ WRejected
  PROVE  WorkerPosition' /\ ProgressAgrees'
<1> USE DEF durable, lockVars, mainVars, memoryVars, IdlePCs, TakenPCs,
            ExecutePCs, WithdrawPCs, EndedPCs
<1> DEFINE row == runs[wrun]
<1>1. /\ wpc \notin IdlePCs => wrun \in scheduled
      /\ wpc = "start"       => row.state = "queued"
      /\ wpc \in ExecutePCs  => Active(row) /\ LastUnits(row) = wunit
      /\ wpc \in WithdrawPCs => row.state = "cancelling"
      /\ wpc \in EndedPCs    => Terminal(row)
      /\ wpc = "none" <=> ~Serving
      /\ wpc \in {"beginWait", "look", "start", "startNotify"} => wunit = 0
      /\ wpc \in {"exec", "work", "precheck", "publish", "reportWait",
                  "advance"} => wunit < TotalUnits
  BY DEF InductiveInvariant, WorkerPosition, ProgressAgrees
<1>2. /\ runs \in [Run -> Row] /\ wunit \in 0 .. TotalUnits
      /\ scheduled \subseteq Run /\ Stop \notin Run
      /\ queue \in Seq(scheduled \cup {Stop})
      /\ \A r \in Run : HistorySound(runs[r])
  BY RunAssumption
     DEF InductiveInvariant, TypeOK, ScheduledExist, EventLogSound
<1>3. TotalUnits \in Nat /\ 5 <= TotalUnits
  BY NEvidenceAssumption DEF TotalUnits
<1>4. /\ wpc \in {"beginWait", "look"} => /\ row.state # "absent"
                                          /\ ~Active(row)
  BY <1>1, <1>2 DEF InductiveInvariant, ScheduledExist, ActiveRunIsOwned, Serving
<1>5. wpc' \in PastDatabasePCs => mpc' # "cancelCommit"
  BY PastDatabaseStep DEF Next, Failure
<1>6. mpc' = mpc /\ scheduled' = scheduled
  BY DEF WorkerStep, WGet, WLock, WLook, WLeave, WEnterExecutor, WWork,
         WPrecheck, WToken, WPublish, WAdvanceNotify, WNotify,
         WRequestNotify, WSignal, WStart, WAdvance, WComplete, WRequest,
         WCancel, WFail, WRejected
<1> DEFINE Goal == /\ wpc' # "none"
                   /\ wpc' \notin IdlePCs => wrun' \in scheduled
                   /\ wpc' = "start" => runs'[wrun'].state = "queued"
                   /\ wpc' \in ExecutePCs =>
                        Active(runs'[wrun']) /\ LastUnits(runs'[wrun']) = wunit'
                   /\ wpc' \in WithdrawPCs => runs'[wrun'].state = "cancelling"
                   /\ wpc' \in EndedPCs => Terminal(runs'[wrun'])
                   /\ wpc' \in {"beginWait", "look", "start", "startNotify"} =>
                        wunit' = 0
                   /\ wpc' \in {"exec", "work", "precheck", "publish",
                                "reportWait", "advance"} => wunit' < TotalUnits
<1>7. WGet => Goal
  <2>1. SUFFICES ASSUME WGet PROVE Goal
    OBVIOUS
  <2>2. Head(queue) \in scheduled \cup {Stop}
    BY <1>2, <2>1 DEF WGet
  <2> QED
    BY <2>1, <2>2 DEF WGet
<1>8. WLook => Goal
  BY <1>1, <1>2, <1>4
     DEF WLook, WLeave, Active, Terminal, Row, RunStates
<1>9. WStart => Goal
  BY <1>1, <1>2, StartRow DEF WStart, WPersist, Active, ActiveStates
<1>10. WEnterExecutor => Goal
  BY <1>1 DEF WEnterExecutor, WToken
<1>11. WWork => Goal
  BY <1>1 DEF WWork
<1>12. WPrecheck => Goal
  BY <1>1 DEF WPrecheck, WToken
<1>13. WPublish => Goal
  BY <1>1 DEF WPublish
<1>14. WAdvance => Goal
  <2> SUFFICES ASSUME WAdvance PROVE Goal
    OBVIOUS
  <2>0. wrun \in scheduled /\ wunit + 1 \in Nat /\ Active(row)
    BY <1>1, <1>2, <1>3 DEF WAdvance
  <2>1. CASE CanAdvance(row, wunit + 1)
    <3>1. /\ Advance(row, wunit + 1).state = row.state
          /\ LastUnits(Advance(row, wunit + 1)) = wunit + 1
      BY <1>2, <2>0, <2>1, AdvanceRow
    <3> QED
      BY <1>1, <1>2, <2>0, <2>1, <3>1 DEF WAdvance, WPersist, Active
  <2>2. CASE ~CanAdvance(row, wunit + 1)
    BY <1>1, <2>2 DEF WAdvance, WLeave
  <2> QED
    BY <2>1, <2>2
<1>15. WAdvanceNotify => Goal
  BY <1>1, <1>2, <1>3 DEF WAdvanceNotify, WNotify
<1>16. WComplete => Goal
  <2>1. WComplete => /\ wpc' = "completeNotify" /\ wrun' = wrun
                     /\ runs' = [runs EXCEPT ![wrun] = Complete(row)]
                     /\ wrun \in Run /\ Active(row) /\ LastUnits(row) <= TotalUnits
    BY <1>1, <1>2, <1>3
       DEF WComplete, WPersist, WLeave, Active, ActiveStates, Terminal,
           TerminalStates
  <2>2. WComplete => Terminal(runs'[wrun])
    BY <1>2, <2>1, CompleteRow DEF Terminal, TerminalStates
  <2> QED
    BY <1>1, <2>1, <2>2 DEF WComplete
<1>17. WRequest => Goal
  <2>1. CASE row.state = "running"
    <3>1. WRequest => /\ wpc' = "requestNotify" /\ wrun' = wrun
                      /\ runs' = [runs EXCEPT ![wrun] = RequestCancel(row)]
                      /\ wrun \in Run /\ wrun \in scheduled
      BY <1>1, <1>2, <2>1 DEF WRequest, WPersist
    <3>2. WRequest => runs'[wrun].state = "cancelling"
      BY <1>2, <2>1, <3>1, RequestCancelRow
    <3> QED
      BY <3>1, <3>2
  <2>2. CASE row.state = "cancelling"
    BY <1>1, <2>2 DEF WRequest
  <2>3. WRequest => row.state \in {"running", "cancelling"}
    BY <1>1 DEF WRequest, Active, ActiveStates
  <2> QED
    BY <2>1, <2>2, <2>3
<1>18. WRequestNotify => Goal
  BY <1>1 DEF WRequestNotify
<1>19. WCancel => Goal
  <2>1. WCancel => /\ wpc' = "cancelNotify" /\ wrun' = wrun
                   /\ runs' = [runs EXCEPT ![wrun] = Cancel(row)]
                   /\ wrun \in Run /\ wrun \in scheduled /\ Active(row)
                   /\ row.state = "cancelling"
    BY <1>1, <1>2 DEF WCancel, WPersist, Active, ActiveStates
  <2>2. WCancel => Terminal(runs'[wrun])
    BY <1>2, <2>1, EndRow DEF Terminal, TerminalStates
  <2> QED
    BY <1>1, <2>1, <2>2
<1>20. WFail => Goal
  <2>1. WFail => /\ wpc' = "failNotify" /\ wrun' = wrun
                 /\ runs' = [runs EXCEPT ![wrun] = Fail(row)]
                 /\ wrun \in Run /\ wrun \in scheduled /\ Active(row)
    BY <1>1, <1>2
       DEF WFail, WPersist, WLeave, Active, ActiveStates, Terminal,
           TerminalStates
  <2>2. WFail => Terminal(runs'[wrun])
    BY <1>2, <2>1, EndRow DEF Terminal, TerminalStates
  <2> QED
    BY <1>1, <2>1, <2>2
<1>21. WSignal => Goal
  BY <1>1 DEF WSignal, WLeave
<1>22. WRejected => Goal
  BY <1>1 DEF WRejected, WLeave
<1>23. ASSUME NEW from, NEW to, WLock(from, to),
              <<from, to>> \in {<<"beginWait", "look">>,
                <<"reportWait", "advance">>, <<"finishWait", "complete">>,
                <<"cancelWait", "request">>, <<"failWait", "fail">>,
                <<"signalWait", "signal">>}
       PROVE  Goal
  BY <1>1, <1>23 DEF WLock
<1>24. ASSUME NEW from, NEW to, WNotify(from, to),
              <<from, to>> \in {<<"startNotify", "exec">>,
                <<"completeNotify", "signalWait">>,
                <<"cancelNotify", "signalWait">>,
                <<"failNotify", "signalWait">>}
       PROVE  Goal
  BY <1>1, <1>3, <1>24 DEF WNotify
<1>25. Goal
  BY <1>7, <1>8, <1>9, <1>10, <1>11, <1>12, <1>13, <1>14, <1>15, <1>16,
     <1>17, <1>18, <1>19, <1>20, <1>21, <1>22, <1>23, <1>24
     DEF WorkerStep
<1>26. wpc # "none"
  BY DEF WorkerStep, WGet, WLock, WLook, WEnterExecutor, WWork, WPrecheck,
         WToken, WPublish, WAdvanceNotify, WNotify, WRequestNotify, WSignal,
         WStart, WAdvance, WComplete, WRequest, WCancel, WFail, WRejected
<1> QED
  BY <1>1, <1>5, <1>6, <1>25, <1>26
     DEF WorkerPosition, ProgressAgrees, Serving

-----------------------------------------------------------------------------
(* One run at a time: the only step that activates a run is WStart, at a   *)
(* position where no run is active; the worker leaves the positions that   *)
(* own a run only after a terminal row, or with the whole process.         *)
LEMMA ActiveStep ==
  ASSUME InductiveInvariant, Next
  PROVE  SingleActiveRun' /\ ActiveRunIsOwned'
<1> USE DEF durable, lockVars, mainVars, workerVars, memoryVars
<1> DEFINE Away == {"none", "get", "beginWait", "look", "start", "exited"}
           NewActive == \A r \in Run : Active(runs'[r]) => Active(runs[r])
<1>1. /\ SingleActiveRun
      /\ Serving => \A r \in Run : Active(runs[r]) => wrun = r /\ wpc \notin Away
      /\ wpc = "none" <=> ~Serving
      /\ wpc \notin IdlePCs => wrun \in Run
      /\ wpc \in EndedPCs => Terminal(runs[wrun])
      /\ runs \in [Run -> Row] /\ \A r \in Run : HistorySound(runs[r])
  BY DEF InductiveInvariant, TypeOK, WorkerPosition, ActiveRunIsOwned,
         EventLogSound
<1>2. CASE NewActive /\ ~Serving'
  BY <1>1, <1>2 DEF SingleActiveRun, ActiveRunIsOwned
<1>3. CASE NewActive /\ Serving /\ wpc' = wpc /\ wrun' = wrun
  BY <1>1, <1>3 DEF SingleActiveRun, ActiveRunIsOwned
<1>4. CASE NewActive /\ Serving /\ wrun' = wrun /\ wpc' \notin Away
  BY <1>1, <1>4 DEF SingleActiveRun, ActiveRunIsOwned
<1>5. CASE \A r \in Run : ~Active(runs'[r])
  BY <1>5 DEF SingleActiveRun, ActiveRunIsOwned
<1>6. CASE MServe
  BY <1>5, <1>6 DEF MServe
<1>7. CASE \E r \in Run : MRecoverRun(r)
  <2>1. PICK r \in Run : MRecoverRun(r)
    BY <1>7
  <2>2. /\ ~Active(Interrupt(runs[r]))
        /\ runs' = [runs EXCEPT ![r] = Interrupt(runs[r])]
    BY <1>1, <2>1, EndRow DEF MRecoverRun, Active, ActiveStates
  <2>3. NewActive
    BY <1>1, <2>2
  <2> QED
    BY <1>2, <2>1, <2>3 DEF MRecoverRun, Serving
<1>8. CASE \E r \in Run : MRunStart(r)
  <2>1. PICK r \in Run : MRunStart(r)
    BY <1>8
  <2>2. ~Active(QueuedRow)
    BY QueuedRowSound DEF Active, ActiveStates
  <2>3. NewActive /\ Serving /\ wpc' = wpc /\ wrun' = wrun
    BY <1>1, <2>1, <2>2 DEF MRunStart, Serving
  <2> QED
    BY <1>3, <2>3
<1>9. CASE MCancelCommit
  <2>1. /\ mrun \in Run /\ runs[mrun].state # "absent"
        /\ runs' = [runs EXCEPT ![mrun] = CancelOutcome(runs[mrun])]
    BY <1>9 DEF MCancelCommit, InductiveInvariant, OpenTransaction
  <2>2. Active(CancelOutcome(runs[mrun])) => Active(runs[mrun])
    BY <1>1, <2>1, CancelOutcomeRow DEF Active, ActiveStates
  <2>3. NewActive /\ Serving /\ wpc' = wpc /\ wrun' = wrun
    BY <1>1, <1>9, <2>1, <2>2 DEF MCancelCommit, EndCancel, Serving
  <2> QED
    BY <1>3, <2>3
<1>10. CASE WStart
  <2>1. /\ \A r \in Run : ~Active(runs[r])
        /\ runs' = [runs EXCEPT ![wrun] = Start(runs[wrun])]
        /\ wrun' = wrun /\ wpc' \notin Away
    BY <1>1, <1>10 DEF WStart, WPersist, Serving
  <2>2. \A r \in Run : r # wrun => ~Active(runs'[r])
    BY <1>1, <2>1
  <2> QED
    BY <2>1, <2>2 DEF SingleActiveRun, ActiveRunIsOwned
<1>11. CASE WAdvance \/ WComplete \/ WRequest \/ WCancel \/ WFail
  <2>1. Serving /\ wrun' = wrun /\ wpc' \notin Away /\ wrun \in Run
        /\ wpc \in ExecutePCs \cup WithdrawPCs
    BY <1>1, <1>11
       DEF WAdvance, WComplete, WRequest, WCancel, WFail, WPersist, WLeave,
           IdlePCs, ExecutePCs, WithdrawPCs
  <2>2. Active(runs[wrun])
    BY <2>1 DEF InductiveInvariant, WorkerPosition, Active, ActiveStates,
                WithdrawPCs
  <2>3. \A r \in Run : r # wrun => runs'[r] = runs[r]
    BY <1>1, <1>11
       DEF WAdvance, WComplete, WRequest, WCancel, WFail, WPersist, WLeave
  <2> QED
    BY <1>4, <2>1, <2>2, <2>3
<1>12. CASE WGet
  <2>1. \A r \in Run : ~Active(runs'[r])
    BY <1>1, <1>12 DEF WGet, Serving
  <2> QED
    BY <1>5, <2>1
<1>13. CASE WLook
  <2>1. \A r \in Run : ~Active(runs'[r])
    BY <1>1, <1>13 DEF WLook, WLeave, Serving
  <2> QED
    BY <1>5, <2>1
<1>14. CASE WLock("beginWait", "look")
  <2>1. \A r \in Run : ~Active(runs'[r])
    BY <1>1, <1>14 DEF WLock, Serving
  <2> QED
    BY <1>5, <2>1
<1>15. CASE WSignal
  <2>1. Serving /\ Terminal(runs[wrun]) /\ runs' = runs
    BY <1>1, <1>15 DEF WSignal, WLeave, EndedPCs
  <2>2. \A r \in Run : ~Active(runs'[r])
    BY <1>1, <2>1 DEF Terminal, TerminalStates, Active, ActiveStates
  <2> QED
    BY <1>5, <2>2
<1>16. Request \/ MainStep \/ Failure \/ Crash =>
         \/ NewActive /\ ~Serving'
         \/ NewActive /\ Serving /\ wpc' = wpc /\ wrun' = wrun
         \/ NewActive /\ Serving /\ wrun' = wrun /\ wpc' \notin Away
         \/ MServe \/ MCancelCommit
         \/ \E r \in Run : MRecoverRun(r) \/ MRunStart(r)
  BY <1>1
     DEF Request, MOpen, MClose, MCancelBegin, Crash, DropMemory, MainStep,
         MEnqueue, MCancelApply, MCloseLock, MJoin, Failure,
         MRecoverRejected, MCancelRollBack, MCancelRejected, EndCancel,
         WRejected, WLeave, Serving
<1>17. WorkerStep =>
         \/ NewActive /\ Serving /\ wrun' = wrun /\ wpc' \notin Away
         \/ WStart \/ WAdvance \/ WComplete \/ WRequest \/ WCancel \/ WFail
         \/ WGet \/ WLook \/ WSignal \/ WLock("beginWait", "look")
  BY <1>1
     DEF WorkerStep, WLock, WEnterExecutor, WWork, WPrecheck, WToken,
         WPublish, WAdvanceNotify, WNotify, WRequestNotify
<1> QED
  BY <1>2, <1>3, <1>4, <1>6, <1>7, <1>8, <1>9, <1>10, <1>11, <1>12, <1>13,
     <1>14, <1>15, <1>16, <1>17 DEF Next

-----------------------------------------------------------------------------
(* Types.  Only the notices need a reason: an event the client is told of  *)
(* exists in the log it is taken from.                                     *)
LEMMA NoticesTyped ==
  ASSUME NEW r \in Run, NEW before \in Row, NEW after \in Row
  PROVE  NewNotices(r, before, after) \subseteq Notice
<1>1. before.events \in Seq(Event) /\ after.events \in Seq(Event)
  BY DEF Row
<1>2. \A n \in (Len(before.events) + 1) .. Len(after.events) :
        n \in Nat /\ after.events[n] \in Event
  BY <1>1
<1> QED
  BY <1>2 DEF NewNotices, Notice

(* The notification of the newest event is one the client can get.         *)
LEMMA LastNoticeTyped ==
  ASSUME NEW r \in Run, runs[r] \in Row, HistorySound(runs[r]),
         runs[r].state \notin {"absent", "queued"}
  PROVE  LastNotice(r) \in Notice
<1>1. runs[r].events \in Seq(Event) /\ runs[r].events # <<>>
  BY DEF Row, HistorySound
<1>2. Len(runs[r].events) \in Nat /\ runs[r].events[Len(runs[r].events)] \in Event
  BY <1>1
<1> QED
  BY <1>2 DEF LastNotice, Notice

(* Every step keeps the types.                                             *)
LEMMA TypeStep ==
  ASSUME InductiveInvariant, Next
  PROVE  TypeOK'
<1> USE DEF durable, lockVars, mainVars, workerVars, memoryVars
<1>1. /\ results \subseteq Run
      /\ tx \in Row \cup {None}
      /\ database \in {"main", None} /\ coord \in {"worker", None}
      /\ mpc \in MainPCs /\ mrun \in Run \cup {None}
      /\ wpc \in WorkerPCs /\ wrun \in Run \cup {None}
      /\ wunit \in 0 .. TotalUnits
      /\ queue \in Seq(scheduled \cup {Stop})
      /\ scheduled \subseteq Run /\ token \subseteq Run /\ signalled \subseteq Run
      /\ notified \subseteq Notice
      /\ crashes \in 0 .. MaxCrashes /\ setting \in Settings
      /\ runs \in [Run -> Row] /\ \A r \in Run : HistorySound(runs[r])
  BY DEF InductiveInvariant, TypeOK, ScheduledExist, EventLogSound
<1>2. /\ mpc \in {"enqueue", "cancelLock", "cancelCommit"} => mrun \in Run
      /\ mpc = "cancelLock" => /\ tx = runs[mrun]
                               /\ CancelOutcome(tx) \in Row
  BY <1>1, CancelOutcomeRow DEF InductiveInvariant, OpenTransaction
<1>3. /\ wpc \notin IdlePCs => wrun \in scheduled
      /\ wpc \in {"startNotify", "requestNotify", "advanceNotify",
                  "completeNotify", "cancelNotify", "failNotify"} =>
           LastNotice(wrun) \in Notice
      /\ wpc \in {"exec", "work", "precheck", "publish", "reportWait",
                  "advance"} => wunit < TotalUnits
  <2>1. wpc \notin IdlePCs => wrun \in scheduled
    BY DEF InductiveInvariant, WorkerPosition
  <2>2. wpc \in {"startNotify", "requestNotify", "advanceNotify",
                 "completeNotify", "cancelNotify", "failNotify"} =>
          /\ wrun \in Run
          /\ runs[wrun].state \notin {"absent", "queued"}
    BY <1>1, <2>1
       DEF InductiveInvariant, WorkerPosition, IdlePCs, ExecutePCs,
           WithdrawPCs, EndedPCs, Active, ActiveStates, Terminal,
           TerminalStates
  <2> QED
    BY <1>1, <2>1, <2>2, LastNoticeTyped DEF InductiveInvariant, ProgressAgrees
<1>4. NEvidence \in Nat /\ MaxCrashes \in Nat /\ 0 \in 0 .. TotalUnits
  BY NEvidenceAssumption, RunAssumption DEF TotalUnits
<1>5. runs' \in [Run -> Row]
  BY RowFacts
<1>6. queue' \in Seq(Run \cup {Stop})
  <2>1. queue' \in Seq(scheduled' \cup {Stop}) /\ scheduled' \subseteq Run
    BY <1>1, <1>2, ScheduledStep
       DEF ScheduledExist, Next, Request, MOpen, MClose, MRunStart,
           MCancelBegin, Crash, DropMemory, MainStep, MRecoverRun, MServe,
           MEnqueue, MCancelApply, MCancelCommit, EndCancel, MCloseLock,
           MJoin, Failure, MRecoverRejected, MCancelRollBack,
           MCancelRejected, WRejected, WLeave, WorkerStep, WGet, WLock,
           WLook, WEnterExecutor, WWork, WPrecheck, WToken, WPublish,
           WAdvanceNotify, WNotify, WRequestNotify, WSignal, WStart,
           WAdvance, WComplete, WRequest, WCancel, WFail
  <2> QED
    BY <2>1
<1>7. Request \/ Crash => TypeOK'
  BY <1>1, <1>4, <1>5, <1>6
     DEF Request, MOpen, MClose, MRunStart, MCancelBegin, Crash, DropMemory,
         MainPCs, WorkerPCs, UnlockedPCs, TypeOK
<1>8. MainStep => TypeOK'
  <2>1. mpc = "cancelLock" /\ tx' = CancelOutcome(tx) =>
          NewNotices(mrun, tx, tx') \subseteq Notice
    BY <1>1, <1>2, NoticesTyped
  <2> QED
    BY <1>1, <1>2, <1>4, <1>5, <1>6, <2>1
       DEF MainStep, MRecoverRun, MServe, MEnqueue, MCancelApply,
           MCancelCommit, EndCancel, MCloseLock, MJoin, DropMemory, MainPCs,
           WorkerPCs, UnlockedPCs, TypeOK
<1>9. Failure => TypeOK'
  BY <1>1, <1>2, <1>4, <1>5, <1>6
     DEF Failure, MRecoverRejected, MCancelRollBack, MCancelRejected,
         EndCancel, WRejected, WLeave, MainPCs, WorkerPCs, UnlockedPCs,
         TypeOK
<1>10. WorkerStep => TypeOK'
  <2>1. WGet => TypeOK'
    <3>1. WGet => Head(queue) \in Run \cup {Stop}
      BY <1>1 DEF WGet
    <3> QED
      BY <1>1, <1>4, <1>5, <1>6, <3>1
         DEF WGet, WorkerPCs, UnlockedPCs, TypeOK
  <2>2. WLook \/ WStart \/ WEnterExecutor \/ WWork \/ WPrecheck \/ WPublish
          => TypeOK'
    BY <1>1, <1>3, <1>5, <1>6
       DEF WLook, WStart, WEnterExecutor, WWork, WPrecheck, WPublish, WLeave,
           WPersist, WToken, IdlePCs, WorkerPCs, UnlockedPCs, LockedPCs,
           TypeOK
  <2>3. WAdvance => TypeOK'
    BY <1>1, <1>3, <1>4, <1>5, <1>6
       DEF WAdvance, WLeave, WPersist, TotalUnits, WorkerPCs, UnlockedPCs,
           LockedPCs, TypeOK
  <2>4. WComplete \/ WRequest \/ WCancel \/ WFail \/ WSignal => TypeOK'
    BY <1>1, <1>3, <1>5, <1>6
       DEF WComplete, WRequest, WCancel, WFail, WSignal, WLeave, WPersist,
           IdlePCs, WorkerPCs, UnlockedPCs, LockedPCs, TypeOK
  <2>5. WAdvanceNotify \/ WRequestNotify => TypeOK'
    BY <1>1, <1>3, <1>5, <1>6
       DEF WAdvanceNotify, WRequestNotify, WNotify, WorkerPCs, UnlockedPCs,
           LockedPCs, TypeOK
  <2>6. ASSUME NEW from, NEW to \in WorkerPCs, WLock(from, to) PROVE TypeOK'
    BY <1>1, <1>5, <1>6, <2>6 DEF WLock, TypeOK
  <2>7. ASSUME NEW from \in {"startNotify", "completeNotify", "cancelNotify",
                             "failNotify"},
               NEW to \in WorkerPCs, WNotify(from, to)
        PROVE  TypeOK'
    BY <1>1, <1>3, <1>5, <1>6, <2>7 DEF WNotify, TypeOK
  <2>8. {"look", "advance", "complete", "request", "fail", "signal", "exec",
         "signalWait"} \subseteq WorkerPCs
    BY DEF WorkerPCs, UnlockedPCs, LockedPCs
  <2> QED
    BY <2>1, <2>2, <2>3, <2>4, <2>5, <2>6, <2>7, <2>8 DEF WorkerStep
<1> QED
  BY <1>7, <1>8, <1>9, <1>10 DEF Next

-----------------------------------------------------------------------------
(* The inductive invariant.                                                *)

(* A store without runs satisfies the invariant.                           *)
LEMMA InitInvariant == Init => InductiveInvariant
<1> SUFFICES ASSUME Init PROVE InductiveInvariant
  OBVIOUS
<1>1. /\ NoRow \in Row /\ HistorySound(NoRow) /\ ~Active(NoRow)
      /\ None \notin {"main", "worker"}
      /\ 0 \in 0 .. TotalUnits /\ 0 \in 0 .. MaxCrashes
  BY QueuedRowSound, RunAssumption, NEvidenceAssumption
     DEF Active, ActiveStates, TotalUnits
<1>2. TypeOK
  BY <1>1 DEF Init, TypeOK, MainPCs, WorkerPCs, UnlockedPCs
<1>3. LocksHeld /\ OpenTransaction
  BY <1>1 DEF Init, LocksHeld, OpenTransaction, LockedPCs
<1>4. WorkerPosition /\ ProgressAgrees /\ ScheduledExist
  BY DEF Init, WorkerPosition, ProgressAgrees, ScheduledExist, Serving,
         PastDatabasePCs, IdlePCs, ExecutePCs, WithdrawPCs, EndedPCs
<1>5. EventLogSound /\ SingleActiveRun /\ ActiveRunIsOwned
  BY <1>1 DEF Init, EventLogSound, SingleActiveRun, ActiveRunIsOwned
<1> QED
  BY <1>2, <1>3, <1>4, <1>5 DEF InductiveInvariant

(* Every step, of either thread or a crash, keeps the invariant.           *)
LEMMA StepInvariant == InductiveInvariant /\ [Next]_vars => InductiveInvariant'
<1>1. CASE UNCHANGED vars
  BY <1>1 DEF InductiveInvariant, TypeOK, LocksHeld, OpenTransaction,
              WorkerPosition, ProgressAgrees, ScheduledExist, EventLogSound,
              SingleActiveRun, ActiveRunIsOwned, Serving, vars
<1>2. CASE Next
  <2>1. ASSUME InductiveInvariant PROVE WorkerPosition' /\ ProgressAgrees'
    BY <1>2, <2>1, MainKeepsPosition, WorkerKeepsPosition DEF Next, Failure
  <2> QED
    BY <1>2, <2>1, TypeStep, LocksStep, TransactionStep, ScheduledStep,
       RowFacts, ActiveStep DEF InductiveInvariant
<1> QED
  BY <1>1, <1>2

(* Every reachable state satisfies the inductive invariant.                *)
THEOREM Invariance == Spec => []InductiveInvariant
<1> QED
  BY InitInvariant, StepInvariant, PTL DEF Spec

(* Every variable keeps its type, whatever the number of runs, recipes,    *)
(* crashes and clock steps.                                                *)
THEOREM TypeCorrect == Spec => []TypeOK
<1>1. InductiveInvariant => TypeOK
  BY DEF InductiveInvariant
<1> QED
  BY <1>1, Invariance, PTL

(* At most one run is active in the store, in the hands of the worker      *)
(* while the project is open (RunCoordinator, max_parallel 1).             *)
THEOREM OneActiveRun == Spec => [](SingleActiveRun /\ ActiveRunIsOwned)
<1>1. InductiveInvariant => SingleActiveRun /\ ActiveRunIsOwned
  BY DEF InductiveInvariant
<1> QED
  BY <1>1, Invariance, PTL

(* The run_events rows of a run tell its history (RunRepository._apply).   *)
THEOREM HistoriesSound == Spec => []EventLogSound
<1>1. InductiveInvariant => EventLogSound
  BY DEF InductiveInvariant
<1> QED
  BY <1>1, Invariance, PTL

(* No step changes a terminal row: late reports, late cancellations,       *)
(* repeated starts and recovery leave it as it is.                         *)
THEOREM TerminalRowsFinal == Spec => TerminalIsFinal
<1>1. InductiveInvariant /\ [Next]_vars =>
        [\A r \in Run : Terminal(runs[r]) => runs'[r] = runs[r]]_vars
  BY RowFacts
<1> QED
  BY <1>1, Invariance, PTL DEF Spec, TerminalIsFinal

-----------------------------------------------------------------------------
(* Outcomes.                                                               *)

(* The typed facts that the steps below rely on.                               *)
LEMMA Bearings ==
  ASSUME InductiveInvariant
  PROVE  /\ runs \in [Run -> Row] /\ results \subseteq Run /\ scheduled \subseteq Run
         /\ wunit \in 0 .. TotalUnits /\ TotalUnits \in Nat /\ 5 <= TotalUnits
         /\ \A r \in Run : HistorySound(runs[r])
         /\ wpc \notin IdlePCs => wrun \in scheduled /\ wrun \in Run
         /\ mpc \in {"enqueue", "cancelLock", "cancelCommit"} => mrun \in Run
BY NEvidenceAssumption
   DEF InductiveInvariant, TypeOK, WorkerPosition, OpenTransaction, EventLogSound,
       TotalUnits

(* The last unit's report is always accepted: no stage of an execution is      *)
(* later than reporting.                                                       *)
LEMMA LastAdvanceAccepted ==
  ASSUME NEW row \in Row, HistorySound(row), Active(row),
         LastUnits(row) <= TotalUnits
  PROVE  CanAdvance(row, TotalUnits)
<1>1. row.stage \in ExecutionStages /\ row.state \in ActiveStates
  BY DEF HistorySound, LifecycleValid, Active, ActiveStates
<1>2. StageOfUnit(TotalUnits) = "reporting"
  BY NEvidenceAssumption DEF StageOfUnit, TotalUnits
<1>3. StageOrder[row.stage] <= StageOrder["reporting"]
  BY <1>1 DEF StageOrder, ExecutionStages
<1> QED
  BY <1>1, <1>2, <1>3
     DEF CanAdvance, Permitted, Terminal, TerminalStates, ActiveStates

-----------------------------------------------------------------------------
(* Results.                                                                    *)

(* The main thread leaves the worker's knowledge of its result as it is.       *)
LEMMA MainKeepsResult ==
  ASSUME InductiveInvariant, ResultInHand,
         Request \/ MainStep \/ Crash \/ MRecoverRejected \/ MCancelRollBack
           \/ MCancelRejected
  PROVE  ResultInHand'
<1> USE DEF durable, lockVars, mainVars, workerVars, memoryVars
<1>1. CASE UNCHANGED <<wpc, wrun, wunit, results, setting>>
  BY <1>1 DEF ResultInHand
<1>2. CASE wpc' \in {"none", "get"}
  BY <1>2 DEF ResultInHand
<1> QED
  BY <1>1, <1>2
     DEF Request, MOpen, MClose, MRunStart, MCancelBegin, Crash, DropMemory, MainStep,
         MRecoverRun, MServe, MEnqueue, MCancelApply, MCancelCommit, EndCancel,
         MCloseLock, MJoin, MRecoverRejected, MCancelRollBack, MCancelRejected

(* The worker knows what it has stored.                                        *)
LEMMA WorkerKeepsResult ==
  ASSUME InductiveInvariant, ResultInHand, ResultMatchesOutcome,
         WorkerStep \/ WRejected
  PROVE  ResultInHand'
<1> USE DEF durable, lockVars, mainVars, memoryVars, ResultInHand
<1>1. /\ runs \in [Run -> Row] /\ wunit \in 0 .. TotalUnits
      /\ TotalUnits \in Nat /\ 5 <= TotalUnits
      /\ \A r \in Run : HistorySound(runs[r])
      /\ wpc \notin IdlePCs => wrun \in Run
  BY Bearings
<1>2. /\ wpc = "start" => runs[wrun].state = "queued"
      /\ wpc \in ExecutePCs => Active(runs[wrun]) /\ LastUnits(runs[wrun]) = wunit
      /\ wpc \in {"beginWait", "look"} =>
           runs[wrun].state # "absent" /\ ~Active(runs[wrun])
      /\ wpc = "startNotify" => wunit = 0
      /\ wpc \in {"exec", "work", "precheck", "publish", "reportWait", "advance"} =>
           wunit < TotalUnits
  BY <1>1 DEF InductiveInvariant, WorkerPosition, ProgressAgrees, ScheduledExist,
              ActiveRunIsOwned, Serving, IdlePCs
<1>3. WGet => ResultInHand'
  BY DEF WGet
<1>4. WLook => ResultInHand'
  BY <1>1, <1>2 DEF WLook, WLeave, IdlePCs, Active, Terminal, Row, RunStates
<1>5. WStart => ResultInHand'
  BY <1>1, <1>2 DEF WStart, WPersist, IdlePCs, ResultMatchesOutcome
<1>6. WEnterExecutor \/ WWork \/ WPrecheck => ResultInHand'
  BY <1>1, <1>2 DEF WEnterExecutor, WWork, WPrecheck, WToken
<1>7. WPublish => ResultInHand'
  BY <1>1, <1>2 DEF WPublish
<1>8. WAdvance => ResultInHand'
  <2> SUFFICES ASSUME WAdvance PROVE ResultInHand'
    OBVIOUS
  <2>1. /\ wrun \in Run /\ Active(runs[wrun]) /\ LastUnits(runs[wrun]) = wunit
        /\ wunit < TotalUnits
        /\ wrun \in results <=> wunit + 1 = TotalUnits
        /\ wrun' = wrun /\ results' = results
    BY <1>1, <1>2 DEF WAdvance, IdlePCs, ExecutePCs
  <2>2. CASE CanAdvance(runs[wrun], wunit + 1)
    <3>1. wpc' = "advanceNotify" /\ wunit' = wunit + 1
      BY <2>2 DEF WAdvance, WPersist
    <3> QED
      BY <2>1, <3>1
  <2>3. CASE ~CanAdvance(runs[wrun], wunit + 1)
    <3>1. wpc' = "failWait"
      BY <2>3 DEF WAdvance, WLeave
    <3>2. wunit + 1 # TotalUnits
      BY <1>1, <2>1, <2>3, LastAdvanceAccepted
    <3> QED
      BY <2>1, <3>1, <3>2
  <2> QED
    BY <2>2, <2>3
<1>9. WAdvanceNotify => ResultInHand'
  BY <1>1, <1>2 DEF WAdvanceNotify, WNotify
<1>10. WComplete \/ WRequest \/ WRequestNotify \/ WCancel \/ WFail \/ WSignal =>
         ResultInHand'
  BY DEF WComplete, WRequest, WRequestNotify, WCancel, WFail, WSignal, WPersist, WLeave
<1>11. WRejected => ResultInHand'
  BY DEF WRejected, WLeave
<1>12. ASSUME NEW from, NEW to, WLock(from, to),
              <<from, to>> \in {<<"beginWait", "look">>, <<"reportWait", "advance">>,
                <<"finishWait", "complete">>, <<"cancelWait", "request">>,
                <<"failWait", "fail">>, <<"signalWait", "signal">>}
       PROVE  ResultInHand'
  BY <1>12 DEF WLock
<1>13. ASSUME NEW from, NEW to, WNotify(from, to),
              <<from, to>> \in {<<"startNotify", "exec">>,
                <<"completeNotify", "signalWait">>, <<"cancelNotify", "signalWait">>,
                <<"failNotify", "signalWait">>}
       PROVE  ResultInHand'
  BY <1>13 DEF WNotify
<1> QED
  BY <1>3, <1>4, <1>5, <1>6, <1>7, <1>8, <1>9, <1>10, <1>11, <1>12, <1>13
     DEF WorkerStep

-----------------------------------------------------------------------------
(* The refinement.                                                             *)

(* A change of one row moves the abstract status of that run.                  *)
LEMMA Moves ==
  ASSUME runs \in [Run -> Row], NEW q \in Run, NEW new \in Row,
         runs' = [runs EXCEPT ![q] = new],
         UNCHANGED <<results, setting>>, NEW from, runs[q].state \in from,
         NEW to, new.state = to
  PROVE  Lifecycle!Move(q, from, to)
<1>1. [r \in Run |-> runs'[r].state] =
        [[r \in Run |-> runs[r].state] EXCEPT ![q] = new.state]
  OBVIOUS
<1> QED
  BY <1>1 DEF Lifecycle!Move

(* Every step of the scheduler is one of the lifecycle, or changes nothing in  *)
(* it: recovery interrupts, a committed run.cancel withdraws or requests, the  *)
(* worker does the rest.                                                       *)
LEMMA StepRefines ==
  ASSUME InductiveInvariant, ResultInHand, Next
  PROVE  [Lifecycle!Next]_(Lifecycle!lifecycleVars)
<1> USE DEF durable, lockVars, mainVars, workerVars, memoryVars
<1> DEFINE Goal == [Lifecycle!Next]_(Lifecycle!lifecycleVars)
<1>1. /\ runs \in [Run -> Row] /\ results \subseteq Run
      /\ wunit \in 0 .. TotalUnits /\ wunit + 1 \in Nat
      /\ \A r \in Run : HistorySound(runs[r])
      /\ wpc \notin IdlePCs => wrun \in Run
  BY Bearings
<1>2. /\ wpc = "start" => runs[wrun].state = "queued"
      /\ wpc \in ExecutePCs => runs[wrun].state \in {"running", "cancelling"}
      /\ wpc = "cancel" => runs[wrun].state = "cancelling"
      /\ wpc = "complete" => LastUnits(runs[wrun]) <= TotalUnits
  BY <1>1 DEF InductiveInvariant, WorkerPosition, ProgressAgrees, WithdrawPCs,
              ExecutePCs, Active, ActiveStates
<1>3. CASE UNCHANGED <<runs, results, setting>>
  BY <1>3 DEF Lifecycle!lifecycleVars
<1>4. ASSUME NEW r \in Run, MRecoverRun(r) PROVE Goal
  <2>1. /\ runs[r].state \in {"running", "cancelling"}
        /\ runs' = [runs EXCEPT ![r] = Interrupt(runs[r])]
        /\ UNCHANGED <<results, setting>>
    BY <1>4 DEF MRecoverRun, Active, ActiveStates
  <2>2. Interrupt(runs[r]) \in Row /\ Interrupt(runs[r]).state = "interrupted"
    BY <1>1, <2>1, EndRow DEF Active, ActiveStates
  <2>3. Lifecycle!Interrupt(r)
    BY <1>1, <2>1, <2>2, Moves DEF Lifecycle!Interrupt
  <2> QED
    BY <2>3 DEF Lifecycle!Next, Lifecycle!Interrupt
<1>5. ASSUME NEW r \in Run, MRunStart(r) PROVE Goal
  <2>1. CASE runs[r].state = "absent"
    <3>1. Lifecycle!Submit(r)
      BY <1>1, <1>5, <2>1, Moves, QueuedRowSound DEF MRunStart, Lifecycle!Submit
    <3> QED
      BY <3>1 DEF Lifecycle!Next, Lifecycle!Submit
  <2>2. CASE runs[r].state # "absent"
    BY <1>3, <1>5, <2>2 DEF MRunStart
  <2> QED
    BY <2>1, <2>2
<1>6. ASSUME MCancelCommit PROVE Goal
  <2> DEFINE new == CancelOutcome(runs[mrun])
  <2>1. /\ mrun \in Run /\ runs[mrun].state # "absent"
        /\ runs' = [runs EXCEPT ![mrun] = new]
        /\ UNCHANGED <<results, setting>>
    BY <1>6 DEF MCancelCommit, EndCancel, InductiveInvariant, OpenTransaction
  <2>2. /\ new \in Row
        /\ runs[mrun].state = "queued" => new.state = "cancelled"
        /\ runs[mrun].state = "running" => new.state = "cancelling"
        /\ runs[mrun].state \notin {"queued", "running"} => new = runs[mrun]
    BY <1>1, <2>1, CancelOutcomeRow
  <2> HIDE DEF new
  <2>3. CASE runs[mrun].state = "queued"
    <3>1. Lifecycle!Withdraw(mrun)
      BY <1>1, <2>1, <2>2, <2>3, Moves DEF Lifecycle!Withdraw
    <3> QED
      BY <2>1, <3>1 DEF Lifecycle!Next, Lifecycle!Withdraw
  <2>4. CASE runs[mrun].state = "running"
    <3>1. Lifecycle!RequestCancel(mrun)
      BY <1>1, <2>1, <2>2, <2>4, Moves DEF Lifecycle!RequestCancel
    <3> QED
      BY <2>1, <3>1 DEF Lifecycle!Next, Lifecycle!RequestCancel
  <2>5. CASE runs[mrun].state \notin {"queued", "running"}
    <3>1. runs' = runs
      BY <1>1, <2>1, <2>2, <2>5
    <3> QED
      BY <1>3, <2>1, <3>1
  <2> QED
    BY <2>3, <2>4, <2>5
<1>7. ASSUME WStart PROVE Goal
  <2>1. /\ wrun \in Run /\ runs[wrun].state = "queued"
        /\ runs' = [runs EXCEPT ![wrun] = Start(runs[wrun])]
        /\ UNCHANGED <<results, setting>> /\ wpc = "start"
    BY <1>1, <1>2, <1>7 DEF WStart, WPersist, IdlePCs
  <2>2. Start(runs[wrun]) \in Row /\ Start(runs[wrun]).state = "running"
    BY <1>1, <2>1, StartRow
  <2>3. \A r \in Run : ~Active(runs[r])
    BY <2>1 DEF InductiveInvariant, ActiveRunIsOwned, WorkerPosition
  <2>4. Lifecycle!Begin(wrun)
    BY <1>1, <2>1, <2>2, <2>3, Moves
       DEF Lifecycle!Begin, Lifecycle!Idle, Active, ActiveStates
  <2> QED
    BY <2>1, <2>4 DEF Lifecycle!Next, Lifecycle!Begin
<1>8. ASSUME WAdvance PROVE Goal
  <2>1. CASE runs' = runs
    BY <1>3, <1>8, <2>1 DEF WAdvance
  <2>2. CASE CanAdvance(runs[wrun], wunit + 1)
    <3>1. /\ wrun \in Run
          /\ runs' = [runs EXCEPT ![wrun] = Advance(runs[wrun], wunit + 1)]
          /\ UNCHANGED <<results, setting>>
          /\ Advance(runs[wrun], wunit + 1).state = runs[wrun].state
      BY <1>1, <1>8, <2>2, AdvanceRow DEF WAdvance, WPersist, IdlePCs
    <3>2. [r \in Run |-> runs'[r].state] = [r \in Run |-> runs[r].state]
      BY <1>1, <3>1
    <3> QED
      BY <3>1, <3>2 DEF Lifecycle!lifecycleVars
  <2> QED
    BY <1>8, <2>1, <2>2 DEF WAdvance, WLeave
<1>9. ASSUME WPublish PROVE Goal
  <2>1. /\ wrun \in Run /\ runs[wrun].state \in {"running", "cancelling"}
        /\ results' = results \cup {wrun} /\ UNCHANGED <<runs, setting>>
    BY <1>1, <1>2, <1>9 DEF WPublish, IdlePCs, ExecutePCs
  <2>2. Lifecycle!Publish(wrun)
    BY <1>1, <2>1 DEF Lifecycle!Publish
  <2> QED
    BY <2>1, <2>2 DEF Lifecycle!Next, Lifecycle!Publish
<1>10. ASSUME WComplete PROVE Goal
  <2>1. /\ wrun \in Run /\ runs[wrun].state \in {"running", "cancelling"}
        /\ wrun \in results /\ LastUnits(runs[wrun]) <= TotalUnits
        /\ runs' = [runs EXCEPT ![wrun] = Complete(runs[wrun])]
        /\ UNCHANGED <<results, setting>>
    BY <1>1, <1>2, <1>10
       DEF WComplete, WPersist, WLeave, IdlePCs, ExecutePCs, Terminal, TerminalStates,
           ResultInHand
  <2>2. Complete(runs[wrun]) \in Row /\ Complete(runs[wrun]).state = "completed"
    BY <1>1, <2>1, CompleteRow DEF Active, ActiveStates
  <2>3. Lifecycle!Complete(wrun)
    BY <1>1, <2>1, <2>2, Moves DEF Lifecycle!Complete
  <2> QED
    BY <2>1, <2>3 DEF Lifecycle!Next, Lifecycle!Complete
<1>11. ASSUME WRequest PROVE Goal
  <2>1. CASE runs[wrun].state = "running"
    <3>1. /\ wrun \in Run
          /\ runs' = [runs EXCEPT ![wrun] = RequestCancel(runs[wrun])]
          /\ UNCHANGED <<results, setting>>
      BY <1>1, <1>11, <2>1 DEF WRequest, WPersist, IdlePCs
    <3>2. /\ RequestCancel(runs[wrun]) \in Row
          /\ RequestCancel(runs[wrun]).state = "cancelling"
      BY <1>1, <2>1, <3>1, RequestCancelRow
    <3>3. Lifecycle!RequestCancel(wrun)
      BY <1>1, <2>1, <3>1, <3>2, Moves DEF Lifecycle!RequestCancel
    <3> QED
      BY <3>1, <3>3 DEF Lifecycle!Next, Lifecycle!RequestCancel
  <2>2. CASE runs[wrun].state # "running"
    BY <1>3, <1>11, <2>2 DEF WRequest, WLeave
  <2> QED
    BY <2>1, <2>2
<1>12. ASSUME WCancel PROVE Goal
  <2>1. /\ wrun \in Run /\ runs[wrun].state = "cancelling" /\ wrun \notin results
        /\ runs' = [runs EXCEPT ![wrun] = Cancel(runs[wrun])]
        /\ UNCHANGED <<results, setting>>
    BY <1>1, <1>2, <1>12 DEF WCancel, WPersist, IdlePCs, ResultInHand
  <2>2. Cancel(runs[wrun]) \in Row /\ Cancel(runs[wrun]).state = "cancelled"
    BY <1>1, <2>1, EndRow DEF Active, ActiveStates
  <2>3. Lifecycle!Cancel(wrun)
    BY <1>1, <2>1, <2>2, Moves DEF Lifecycle!Cancel
  <2> QED
    BY <2>1, <2>3 DEF Lifecycle!Next, Lifecycle!Cancel
<1>13. ASSUME WFail PROVE Goal
  <2>1. /\ wrun \in Run /\ runs[wrun].state \in {"running", "cancelling"}
        /\ wrun \notin results \/ setting.stepClock
        /\ runs' = [runs EXCEPT ![wrun] = Fail(runs[wrun])]
        /\ UNCHANGED <<results, setting>>
    BY <1>1, <1>2, <1>13
       DEF WFail, WPersist, WLeave, IdlePCs, ExecutePCs, Terminal, TerminalStates,
           ResultInHand
  <2>2. Fail(runs[wrun]) \in Row /\ Fail(runs[wrun]).state = "failed"
    BY <1>1, <2>1, EndRow DEF Active, ActiveStates
  <2>3. Lifecycle!Fail(wrun)
    BY <1>1, <2>1, <2>2, Moves DEF Lifecycle!Fail
  <2> QED
    BY <2>1, <2>3 DEF Lifecycle!Next, Lifecycle!Fail
<1>14. Request \/ MainStep \/ Failure \/ Crash =>
         \/ UNCHANGED <<runs, results, setting>> \/ MCancelCommit
         \/ \E r \in Run : MRecoverRun(r) \/ MRunStart(r)
  BY DEF Request, MainStep, Failure, MOpen, MRecoverRejected, MServe, MEnqueue,
         MCancelBegin, MCancelApply, MCancelRollBack, MCancelRejected, MClose,
         MCloseLock, MJoin, Crash, WRejected, WLeave, EndCancel
<1>15. WorkerStep => \/ UNCHANGED <<runs, results, setting>>
                     \/ WStart \/ WAdvance \/ WPublish \/ WComplete
                     \/ WRequest \/ WCancel \/ WFail
  BY DEF WorkerStep, WGet, WLock, WLook, WLeave, WEnterExecutor, WWork, WPrecheck,
         WToken, WAdvanceNotify, WNotify, WRequestNotify, WSignal
<1> QED
  BY <1>3, <1>4, <1>5, <1>6, <1>7, <1>8, <1>9, <1>10, <1>11, <1>12, <1>13, <1>14,
     <1>15 DEF Next

(* What an abstract move says of the rows.                                     *)
LEMMA MoveTells ==
  ASSUME NEW q \in Run, NEW from, NEW to, Lifecycle!Move(q, from, to)
  PROVE  /\ runs[q].state \in from
         /\ \A r \in Run : runs'[r].state = IF r = q THEN to ELSE runs[r].state
         /\ results' = results /\ setting'.stepClock = setting.stepClock
<1> DEFINE status == [r \in Run |-> runs[r].state]
           after  == [r \in Run |-> runs'[r].state]
<1>1. /\ status[q] \in from
      /\ after = [status EXCEPT ![q] = to]
      /\ results' = results /\ setting'.stepClock = setting.stepClock
  BY DEF Lifecycle!Move
<1>2. \A r \in Run : after[r] = IF r = q THEN to ELSE status[r]
  BY <1>1
<1> QED
  BY <1>1, <1>2

(* A run is queued only when it is submitted.                                  *)
LEMMA QueuedOnce ==
  ASSUME InductiveInvariant, ResultInHand, Next
  PROVE  \A r \in Run :
           runs'[r].state = "queued" => runs[r].state \in {"absent", "queued"}
<1>1. [Lifecycle!Next]_(Lifecycle!lifecycleVars)
  BY StepRefines
<1>2. CASE [r \in Run |-> runs'[r].state] = [r \in Run |-> runs[r].state]
  <2> TAKE r \in Run
  <2>1. [x \in Run |-> runs'[x].state][r] = [x \in Run |-> runs[x].state][r]
    BY <1>2
  <2> QED
    BY <2>1
<1>3. ASSUME NEW q \in Run, NEW from, NEW to, Lifecycle!Move(q, from, to),
             to # "queued" \/ from = {"absent"}
      PROVE  \A r \in Run :
               runs'[r].state = "queued" => runs[r].state \in {"absent", "queued"}
  BY <1>3, MoveTells
<1> QED
  BY <1>1, <1>2, <1>3
     DEF Lifecycle!Next, Lifecycle!lifecycleVars, Lifecycle!Submit, Lifecycle!Begin,
         Lifecycle!Withdraw, Lifecycle!RequestCancel, Lifecycle!Publish,
         Lifecycle!Complete, Lifecycle!Cancel, Lifecycle!Fail, Lifecycle!Interrupt

(* Results match outcomes because the lifecycle is implemented: a step that    *)
(* completes a run finds its result, one that cancels or fails it finds none.  *)
LEMMA OutcomeStep ==
  ASSUME InductiveInvariant, ResultInHand, ResultMatchesOutcome, Next
  PROVE  ResultMatchesOutcome'
<1>1. [Lifecycle!Next]_(Lifecycle!lifecycleVars)
  BY StepRefines
<1>2. CASE UNCHANGED Lifecycle!lifecycleVars
  <2>1. /\ [r \in Run |-> runs'[r].state] = [r \in Run |-> runs[r].state]
        /\ results' = results /\ setting'.stepClock = setting.stepClock
    BY <1>2 DEF Lifecycle!lifecycleVars
  <2>2. \A r \in Run : runs'[r].state = runs[r].state
    <3> TAKE r \in Run
    <3>1. [x \in Run |-> runs'[x].state][r] = [x \in Run |-> runs[x].state][r]
      BY <2>1
    <3> QED
      BY <3>1
  <2> QED
    BY <2>1, <2>2 DEF ResultMatchesOutcome
<1>3. ASSUME NEW q \in Run, Lifecycle!Publish(q) PROVE ResultMatchesOutcome'
  <2>1. /\ [r \in Run |-> runs'[r].state] = [r \in Run |-> runs[r].state]
        /\ results' = results \cup {q} /\ setting'.stepClock = setting.stepClock
        /\ runs[q].state \in {"running", "cancelling"}
    BY <1>3 DEF Lifecycle!Publish
  <2>2. \A r \in Run : runs'[r].state = runs[r].state
    <3> TAKE r \in Run
    <3>1. [x \in Run |-> runs'[x].state][r] = [x \in Run |-> runs[x].state][r]
      BY <2>1
    <3> QED
      BY <3>1
  <2> QED
    BY <2>1, <2>2 DEF ResultMatchesOutcome
<1>4. ASSUME NEW q \in Run,
             Lifecycle!Submit(q) \/ Lifecycle!Begin(q) \/ Lifecycle!Withdraw(q)
               \/ Lifecycle!RequestCancel(q) \/ Lifecycle!Interrupt(q)
      PROVE  ResultMatchesOutcome'
  <2>1. \/ Lifecycle!Move(q, {"absent"}, "queued")
        \/ Lifecycle!Move(q, {"queued"}, "running")
        \/ Lifecycle!Move(q, {"queued"}, "cancelled")
        \/ Lifecycle!Move(q, {"running"}, "cancelling")
        \/ Lifecycle!Move(q, {"running", "cancelling"}, "interrupted")
    BY <1>4 DEF Lifecycle!Submit, Lifecycle!Begin, Lifecycle!Withdraw,
                Lifecycle!RequestCancel, Lifecycle!Interrupt
  <2>2. /\ \/ runs[q].state = "absent" /\ runs'[q].state = "queued"
           \/ runs[q].state = "queued" /\ runs'[q].state \in {"running", "cancelled"}
           \/ runs'[q].state \in {"cancelling", "interrupted"}
        /\ \A r \in Run : r # q => runs'[r].state = runs[r].state
        /\ results' = results /\ setting'.stepClock = setting.stepClock
    BY <2>1, MoveTells
  <2> QED
    BY <2>2 DEF ResultMatchesOutcome
<1>5. ASSUME NEW q \in Run,
             Lifecycle!Complete(q) \/ Lifecycle!Cancel(q) \/ Lifecycle!Fail(q)
      PROVE  ResultMatchesOutcome'
  <2>1. \/ /\ q \in results
           /\ Lifecycle!Move(q, {"running", "cancelling"}, "completed")
        \/ q \notin results /\ Lifecycle!Move(q, {"cancelling"}, "cancelled")
        \/ /\ q \notin results \/ setting.stepClock
           /\ Lifecycle!Move(q, {"running", "cancelling"}, "failed")
    BY <1>5 DEF Lifecycle!Complete, Lifecycle!Cancel, Lifecycle!Fail
  <2>2. /\ \/ q \in results /\ runs'[q].state = "completed"
           \/ q \notin results /\ runs'[q].state = "cancelled"
           \/ (q \notin results \/ setting.stepClock) /\ runs'[q].state = "failed"
        /\ \A r \in Run : r # q => runs'[r].state = runs[r].state
        /\ results' = results /\ setting'.stepClock = setting.stepClock
    BY <2>1, MoveTells
  <2> QED
    BY <2>2 DEF ResultMatchesOutcome
<1> QED
  BY <1>1, <1>2, <1>3, <1>4, <1>5 DEF Lifecycle!Next

-----------------------------------------------------------------------------
(* The queue.                                                                  *)

(* A run stands in a queue exactly once.                                       *)
Once(q, r) ==
  \E i \in DOMAIN q : q[i] = r /\ \A j \in DOMAIN q : q[j] = r => i = j

(* Putting something else into the queue leaves the run there once.            *)
LEMMA OnceAfterPut ==
  ASSUME NEW S, NEW q \in Seq(S), NEW x \in S, NEW r, r # x, Once(q, r)
  PROVE  Once(Append(q, x), r)
<1>1. PICK i \in DOMAIN q : q[i] = r /\ \A j \in DOMAIN q : q[j] = r => i = j
  BY DEF Once
<1>2. /\ DOMAIN Append(q, x) = 1 .. Len(q) + 1 /\ DOMAIN q = 1 .. Len(q)
      /\ \A j \in 1 .. Len(q) : Append(q, x)[j] = q[j]
      /\ Append(q, x)[Len(q) + 1] = x
  OBVIOUS
<1> QED
  BY <1>1, <1>2 DEF Once

(* A run put into a queue without it stands there once.                        *)
LEMMA OncePut ==
  ASSUME NEW S, NEW q \in Seq(S), NEW r \in S, \A j \in DOMAIN q : q[j] # r
  PROVE  Once(Append(q, r), r)
<1>1. /\ DOMAIN Append(q, r) = 1 .. Len(q) + 1 /\ DOMAIN q = 1 .. Len(q)
      /\ \A j \in 1 .. Len(q) : Append(q, r)[j] = q[j]
      /\ Append(q, r)[Len(q) + 1] = r /\ Len(q) \in Nat
  OBVIOUS
<1>2. Len(q) + 1 \in DOMAIN Append(q, r)
  BY <1>1
<1> QED
  BY <1>1, <1>2 DEF Once

(* Taking something else from the queue leaves the run there once.             *)
LEMMA OnceAfterGet ==
  ASSUME NEW S, NEW q \in Seq(S), q # <<>>, NEW r, r # Head(q), Once(q, r)
  PROVE  Once(Tail(q), r)
<1>1. PICK i \in DOMAIN q : q[i] = r /\ \A j \in DOMAIN q : q[j] = r => i = j
  BY DEF Once
<1>2. /\ DOMAIN Tail(q) = 1 .. Len(q) - 1 /\ DOMAIN q = 1 .. Len(q)
      /\ \A j \in 1 .. Len(q) - 1 : Tail(q)[j] = q[j + 1]
      /\ Head(q) = q[1] /\ Len(q) \in Nat /\ Len(q) > 0
  OBVIOUS
<1>3. i \in 2 .. Len(q) /\ i - 1 \in DOMAIN Tail(q) /\ Tail(q)[i - 1] = r
  BY <1>1, <1>2
<1>4. \A j \in DOMAIN Tail(q) : Tail(q)[j] = r => i - 1 = j
  <2> TAKE j \in DOMAIN Tail(q)
  <2>1. j + 1 \in DOMAIN q /\ Tail(q)[j] = q[j + 1]
    BY <1>2
  <2> QED
    BY <1>1, <1>2, <2>1
<1> QED
  BY <1>3, <1>4 DEF Once

(* No step loses a scheduled run: who takes it from the queue starts it, finds *)
(* it terminal, or dies with it in its hands.                                  *)
LEMMA QueueStep ==
  ASSUME InductiveInvariant, ResultInHand, NoScheduledRunIsLost, Next
  PROVE  NoScheduledRunIsLost'
<1> USE DEF durable, lockVars, mainVars, workerVars, memoryVars
<1> DEFINE Taken == {"beginWait", "look", "start", "dead"}
<1>1. /\ runs \in [Run -> Row] /\ scheduled \subseteq Run
      /\ queue \in Seq(scheduled \cup {Stop}) /\ Stop \notin Run
      /\ \A r \in scheduled : runs[r].state # "absent"
      /\ wpc = "start" => wrun \in Run /\ runs[wrun].state = "queued"
      /\ mpc = "enqueue" => mrun \in Run
      /\ mpc = "recover" => wpc = "none"
  <2>1. TypeOK /\ ScheduledExist /\ WorkerPosition /\ OpenTransaction
    BY DEF InductiveInvariant
  <2>2. wpc = "start" => wrun \in scheduled /\ runs[wrun].state = "queued"
    BY <2>1 DEF WorkerPosition, IdlePCs
  <2> QED
    BY <2>1, <2>2, RunAssumption
       DEF TypeOK, ScheduledExist, WorkerPosition, OpenTransaction, Serving
<1>2. \A r \in scheduled : runs[r].state = "queued" =>
        Once(queue, r) \/ (wrun = r /\ wpc \in Taken)
  BY DEF NoScheduledRunIsLost, Once
<1>3. \A r \in scheduled : runs'[r].state = "queued" => runs[r].state = "queued"
  BY <1>1, QueuedOnce
<1>4. CASE /\ UNCHANGED <<queue, scheduled, wrun>>
           /\ wpc \in Taken => wpc' \in Taken \/ runs'[wrun].state # "queued"
  BY <1>2, <1>3, <1>4 DEF NoScheduledRunIsLost, Once
<1>5. CASE scheduled' = {}
  BY <1>5 DEF NoScheduledRunIsLost
<1>6. CASE MEnqueue
  <2>1. CASE UNCHANGED <<queue, scheduled>>
    BY <1>4, <1>6, <2>1 DEF MEnqueue
  <2>2. CASE /\ mrun \notin scheduled /\ scheduled' = scheduled \cup {mrun}
             /\ queue' = Append(queue, mrun)
    <3> DEFINE S == Run \cup {Stop}
    <3>1. /\ mrun \in Run /\ queue \in Seq(S) /\ runs' = runs
          /\ UNCHANGED <<wpc, wrun>>
      BY <1>1, <1>6 DEF MEnqueue
    <3>2. \A j \in DOMAIN queue : queue[j] # mrun
      BY <1>1, <2>2, <3>1
    <3>3. Once(queue', mrun)
      BY <2>2, <3>1, <3>2, OncePut
    <3>4. ASSUME NEW r \in scheduled, Once(queue, r) PROVE Once(queue', r)
      BY <2>2, <3>1, <3>4, OnceAfterPut
    <3>5. \A r \in scheduled' : runs'[r].state = "queued" =>
            Once(queue', r) \/ (wrun' = r /\ wpc' \in Taken)
      BY <1>2, <2>2, <3>1, <3>3, <3>4
    <3> QED
      BY <3>5 DEF NoScheduledRunIsLost, Once
  <2> QED
    BY <1>6, <2>1, <2>2 DEF MEnqueue
<1>7. CASE MCloseLock
  <2> DEFINE S == Run \cup {Stop}
  <2>1. /\ queue \in Seq(S) /\ queue' = Append(queue, Stop)
        /\ UNCHANGED <<runs, scheduled, wpc, wrun>>
    BY <1>1, <1>7 DEF MCloseLock
  <2>2. ASSUME NEW r \in scheduled, Once(queue, r) PROVE Once(queue', r)
    BY <1>1, <2>1, <2>2, OnceAfterPut
  <2>3. \A r \in scheduled' : runs'[r].state = "queued" =>
          Once(queue', r) \/ (wrun' = r /\ wpc' \in Taken)
    BY <1>2, <2>1, <2>2
  <2> QED
    BY <2>3 DEF NoScheduledRunIsLost, Once
<1>8. CASE WGet
  <2>1. /\ queue # <<>> /\ queue' = Tail(queue) /\ wpc \notin Taken
        /\ UNCHANGED <<runs, scheduled>>
        /\ Head(queue) # Stop => wrun' = Head(queue) /\ wpc' = "beginWait"
    BY <1>8 DEF WGet
  <2>2. ASSUME NEW r \in scheduled, r # Head(queue), Once(queue, r)
        PROVE  Once(queue', r)
    BY <1>1, <2>1, <2>2, OnceAfterGet
  <2>3. \A r \in scheduled' : runs'[r].state = "queued" =>
          Once(queue', r) \/ (wrun' = r /\ wpc' \in Taken)
    BY <1>1, <1>2, <2>1, <2>2
  <2> QED
    BY <2>3 DEF NoScheduledRunIsLost, Once
<1>9. CASE WStart
  <2>1. /\ wrun \in Run /\ runs[wrun] \in Row /\ HistorySound(runs[wrun])
        /\ runs[wrun].state = "queued"
        /\ runs' = [runs EXCEPT ![wrun] = Start(runs[wrun])]
    BY <1>1, <1>9 DEF WStart, WPersist, InductiveInvariant, EventLogSound
  <2>2. runs'[wrun].state # "queued"
    BY <1>1, <2>1, StartRow
  <2> QED
    BY <1>4, <1>9, <2>2 DEF WStart
<1>10. CASE WLook
  <2>1. /\ UNCHANGED <<queue, scheduled, wrun, runs>>
        /\ Terminal(runs[wrun]) \/ wpc' = "start" \/ runs[wrun].state # "queued"
    BY <1>10 DEF WLook, WLeave
  <2> QED
    BY <1>4, <2>1 DEF Terminal, TerminalStates
<1>11. CASE /\ UNCHANGED <<queue, scheduled, wrun>>
            /\ wpc \in Taken => wpc' \in Taken
  BY <1>4, <1>11
<1>12. CASE Request \/ MainStep \/ Failure \/ Crash
  <2>1. \/ UNCHANGED <<queue, scheduled, wrun>> /\ (wpc \in Taken => wpc' \in Taken)
        \/ scheduled' = {} \/ MEnqueue \/ MCloseLock
    BY <1>1, <1>12
       DEF Request, MOpen, MClose, MRunStart, MCancelBegin, Crash, DropMemory,
           MainStep, MRecoverRun, MServe, MCancelApply, MCancelCommit, EndCancel,
           MJoin, Failure, MRecoverRejected, MCancelRollBack, MCancelRejected,
           WRejected, WLeave
  <2> QED
    BY <1>5, <1>6, <1>7, <1>11, <2>1
<1>13. CASE WorkerStep
  <2>1. \/ UNCHANGED <<queue, scheduled, wrun>> /\ (wpc \in Taken => wpc' \in Taken)
        \/ WGet \/ WStart \/ WLook
    BY <1>13
       DEF WorkerStep, WLock, WEnterExecutor, WWork, WPrecheck, WToken, WPublish,
           WAdvanceNotify, WNotify, WRequestNotify, WSignal, WAdvance, WComplete,
           WRequest, WCancel, WFail
  <2> QED
    BY <1>8, <1>9, <1>10, <1>11, <2>1
<1> QED
  BY <1>12, <1>13 DEF Next

-----------------------------------------------------------------------------
(* The event log and what was told of it.                                      *)

(* A log keeps what it holds.                                                  *)
Grows(old, new) ==
  \A i \in DOMAIN old.events :
    i \in DOMAIN new.events /\ new.events[i] = old.events[i]

(* _apply adds an event behind the others, whatever the transition.            *)
LEMMA TransitionsGrow ==
  ASSUME NEW row \in Row
  PROVE  /\ Grows(row, Start(row)) /\ Grows(row, RequestCancel(row))
         /\ Grows(row, Complete(row)) /\ Grows(row, Fail(row))
         /\ Grows(row, Cancel(row)) /\ Grows(row, Interrupt(row))
         /\ \A k \in Nat : Grows(row, Advance(row, k))
<1>1. ASSUME NEW state \in RunStates, NEW stage \in RunStages, NEW units \in Nat,
             NEW set
      PROVE  Grows(row, Applied(row, state, stage, units, set))
  <2> DEFINE new == Applied(row, state, stage, units, set)
  <2>1. /\ row.events \in Seq(Event) /\ new.events \in Seq(Event)
        /\ Len(new.events) = Len(row.events) + 1
        /\ \A i \in 1 .. Len(row.events) : new.events[i] = row.events[i]
    BY AppliedFields DEF Row
  <2> HIDE DEF new
  <2>2. Grows(row, new)
    BY <2>1 DEF Grows
  <2> QED
    BY <2>2 DEF new
<1>2. /\ row.state \in RunStates /\ row.stage \in RunStages
      /\ LastUnits(row) \in Nat /\ TotalUnits \in Nat /\ 0 \in Nat
      /\ {"running", "cancelling", "completed", "failed", "cancelled", "interrupted"}
           \subseteq RunStates
      /\ {"snapshot_validation", "completed"} \subseteq RunStages
      /\ \A k : StageOfUnit(k) \in RunStages
  BY LastUnitsNat, StageOfUnitStage, NEvidenceAssumption
     DEF Row, RunStates, ActiveStates, TerminalStates, RunStages, ExecutionStages,
         TotalUnits
<1> QED
  BY <1>1, <1>2
     DEF Start, RequestCancel, Complete, Fail, Cancel, Interrupt, Finished, Advance

(* So does a whole cancellation.                                               *)
LEMMA CancelOutcomeGrows ==
  ASSUME NEW row \in Row, HistorySound(row)
  PROVE  Grows(row, CancelOutcome(row))
<1>1. CASE row.state = "queued"
  <2> DEFINE started   == Start(row)
             requested == RequestCancel(started)
  <2>1. /\ started \in Row /\ HistorySound(started) /\ started.state = "running"
        /\ Grows(row, started)
    BY <1>1, StartRow, TransitionsGrow
  <2> HIDE DEF started
  <2>2. requested \in Row /\ Grows(started, requested)
    BY <2>1, RequestCancelRow, TransitionsGrow
  <2> HIDE DEF requested
  <2>3. Grows(requested, Cancel(requested))
    BY <2>2, TransitionsGrow
  <2>4. Grows(row, Cancel(requested))
    BY <2>1, <2>2, <2>3 DEF Grows
  <2>5. CancelOutcome(row) = Cancel(requested)
    BY <1>1 DEF CancelOutcome, started, requested
  <2> QED
    BY <2>4, <2>5
<1>2. CASE row.state = "running"
  BY <1>2, TransitionsGrow DEF CancelOutcome
<1>3. CASE row.state \notin {"queued", "running"}
  BY <1>3 DEF CancelOutcome, Grows
<1> QED
  BY <1>1, <1>2, <1>3

(* No step takes an event from a log.                                          *)
LEMMA LogsGrow ==
  ASSUME InductiveInvariant, Next
  PROVE  \A r \in Run : Grows(runs[r], runs'[r])
<1> USE DEF durable, lockVars, mainVars, workerVars, memoryVars
<1>1. /\ runs \in [Run -> Row] /\ wunit + 1 \in Nat
      /\ \A r \in Run : HistorySound(runs[r])
      /\ wpc \notin IdlePCs => wrun \in Run
  BY Bearings
<1>2. CASE runs' = runs
  BY <1>2 DEF Grows
<1>3. ASSUME NEW q \in Run, NEW new, runs' = [runs EXCEPT ![q] = new],
             Grows(runs[q], new)
      PROVE  \A r \in Run : Grows(runs[r], runs'[r])
  <2>1. runs'[q] = new /\ \A r \in Run : r # q => runs'[r] = runs[r]
    BY <1>1, <1>3
  <2> QED
    BY <1>3, <2>1 DEF Grows
<1>4. ASSUME NEW r \in Run, MRecoverRun(r) \/ MRunStart(r)
      PROVE  \A q \in Run : Grows(runs[q], runs'[q])
  <2>1. CASE MRecoverRun(r)
    BY <1>1, <1>3, <2>1, TransitionsGrow DEF MRecoverRun
  <2>2. CASE runs[r].state = "absent" /\ runs' = [runs EXCEPT ![r] = QueuedRow]
    <3>1. runs[r].events = <<>>
      BY <1>1, <2>2 DEF HistorySound
    <3>2. Grows(runs[r], QueuedRow)
      BY <3>1 DEF Grows
    <3> QED
      BY <1>3, <2>2, <3>2
  <2> QED
    BY <1>2, <1>4, <2>1, <2>2 DEF MRunStart
<1>5. CASE MCancelCommit
  <2>1. /\ mrun \in Run
        /\ runs' = [runs EXCEPT ![mrun] = CancelOutcome(runs[mrun])]
    BY <1>5 DEF MCancelCommit, InductiveInvariant, OpenTransaction
  <2> QED
    BY <1>1, <1>3, <2>1, CancelOutcomeGrows
<1>6. CASE WStart \/ WAdvance \/ WComplete \/ WRequest \/ WCancel \/ WFail
  <2>1. wrun \in Run /\ runs[wrun] \in Row
    BY <1>1, <1>6
       DEF WStart, WAdvance, WComplete, WRequest, WCancel, WFail, IdlePCs
  <2>2. \/ runs' = runs
        \/ runs' = [runs EXCEPT ![wrun] = Start(runs[wrun])]
        \/ runs' = [runs EXCEPT ![wrun] = Advance(runs[wrun], wunit + 1)]
        \/ runs' = [runs EXCEPT ![wrun] = Complete(runs[wrun])]
        \/ runs' = [runs EXCEPT ![wrun] = RequestCancel(runs[wrun])]
        \/ runs' = [runs EXCEPT ![wrun] = Cancel(runs[wrun])]
        \/ runs' = [runs EXCEPT ![wrun] = Fail(runs[wrun])]
    BY <1>6
       DEF WStart, WAdvance, WComplete, WRequest, WCancel, WFail, WPersist, WLeave
  <2> QED
    BY <1>1, <1>2, <1>3, <2>1, <2>2, TransitionsGrow
<1>7. Request \/ MainStep \/ Failure \/ Crash =>
        runs' = runs \/ MCancelCommit \/ \E r \in Run : MRecoverRun(r) \/ MRunStart(r)
  BY DEF Request, MainStep, Failure, MOpen, MRecoverRejected, MServe, MEnqueue,
         MCancelBegin, MCancelApply, MCancelRollBack, MCancelRejected, MClose,
         MCloseLock, MJoin, Crash, WRejected, WLeave, EndCancel
<1>8. WorkerStep => \/ runs' = runs
                    \/ WStart \/ WAdvance \/ WComplete \/ WRequest \/ WCancel \/ WFail
  BY DEF WorkerStep, WGet, WLock, WLook, WLeave, WEnterExecutor, WWork, WPrecheck,
         WToken, WPublish, WAdvanceNotify, WNotify, WRequestNotify, WSignal
<1> QED
  BY <1>2, <1>4, <1>5, <1>6, <1>7, <1>8 DEF Next

(* The notice the worker writes is the newest event of a row that has one.     *)
LEMMA LastNoticeCommitted ==
  ASSUME NEW r \in Run, runs \in [Run -> Row], HistorySound(runs[r]),
         runs[r].state \notin {"absent", "queued"}
  PROVE  Committed(LastNotice(r))
<1>1. runs[r].events \in Seq(Event) /\ runs[r].events # <<>>
  BY DEF Row, HistorySound
<1>2. Len(runs[r].events) \in DOMAIN runs[r].events
  BY <1>1
<1> QED
  BY <1>2 DEF Committed, LastNotice

(* What the client may cancel is all that run.cancel is about, and this never  *)
(* changes.                                                                    *)
LEMMA CancelStep ==
  ASSUME CancelIsAllowed, Next
  PROVE  CancelIsAllowed' /\ setting' = setting
<1> USE DEF durable, lockVars, mainVars, workerVars, memoryVars, CancelIsAllowed
<1>1. CASE Request \/ MainStep \/ Failure \/ Crash
  BY <1>1 DEF Request, MOpen, MClose, MRunStart, MCancelBegin, Crash, DropMemory, MainStep,
         MRecoverRun, MServe, MEnqueue, MCancelApply, MCancelCommit, EndCancel, MCloseLock,
         MJoin, Failure, MRecoverRejected, MCancelRollBack, MCancelRejected, WRejected,
         WLeave
<1>2. CASE WorkerStep
  <2>1. UNCHANGED <<mpc, mrun, setting>>
    BY <1>2
       DEF WorkerStep, WGet, WLock, WLook, WLeave, WEnterExecutor, WWork, WPrecheck,
           WToken, WPublish, WAdvanceNotify, WNotify, WRequestNotify, WSignal, WStart,
           WAdvance, WComplete, WRequest, WCancel, WFail
  <2> QED
    BY <2>1
<1> QED
  BY <1>1, <1>2 DEF Next

(* Every notice that stays committed: the worker writes notices of committed   *)
(* events, and the main thread only of a run that the client cancels.          *)
LEMMA ReportedStep ==
  ASSUME InductiveInvariant, ReportedIsDurable, CancelIsAllowed, Next
  PROVE  ReportedIsDurable'
<1> USE DEF durable, lockVars, mainVars, workerVars, memoryVars
<1>1. /\ runs \in [Run -> Row] /\ notified \subseteq Notice
      /\ \A r \in Run : HistorySound(runs[r])
      /\ wpc \notin IdlePCs => wrun \in Run
  BY Bearings DEF InductiveInvariant, TypeOK
<1>2. /\ wpc \in ExecutePCs  => Active(runs[wrun])
      /\ wpc \in WithdrawPCs => runs[wrun].state = "cancelling"
      /\ wpc \in EndedPCs    => Terminal(runs[wrun])
  BY DEF InductiveInvariant, WorkerPosition
<1>3. ASSUME NEW n \in Notice, Committed(n) PROVE Committed(n)'
  <2>1. n.run \in Run
    BY DEF Notice
  <2>2. Grows(runs[n.run], runs'[n.run])
    BY <2>1, LogsGrow
  <2> QED
    BY <1>3, <2>2 DEF Committed, Grows
<1>4. setting' = setting
  BY CancelStep
<1>5. CASE notified' = notified
  BY <1>1, <1>3, <1>4, <1>5 DEF ReportedIsDurable
<1>6. CASE MCancelApply
  <2>1. /\ mrun \in setting.cancellable
        /\ notified' = notified \cup NewNotices(mrun, tx, tx')
    BY <1>6 DEF MCancelApply, CancelIsAllowed
  <2>2. \A n \in NewNotices(mrun, tx, tx') : n.run = mrun
    BY DEF NewNotices
  <2> QED
    BY <1>1, <1>3, <1>4, <2>1, <2>2 DEF ReportedIsDurable
<1>7. ASSUME wpc \in {"startNotify", "advanceNotify", "completeNotify",
                      "requestNotify", "cancelNotify", "failNotify"},
             notified' = notified \cup {LastNotice(wrun)}, runs' = runs
      PROVE  ReportedIsDurable'
  <2>1. wrun \in Run /\ runs[wrun].state \notin {"absent", "queued"}
    BY <1>1, <1>2, <1>7
       DEF ExecutePCs, WithdrawPCs, EndedPCs, IdlePCs, Active, ActiveStates, Terminal,
           TerminalStates
  <2>2. Committed(LastNotice(wrun))
    BY <1>1, <2>1, LastNoticeCommitted
  <2>3. \A n : Committed(n)' <=> Committed(n)
    BY <1>7 DEF Committed
  <2> QED
    BY <1>4, <1>7, <2>2, <2>3 DEF ReportedIsDurable
<1>8. Request \/ MainStep \/ Failure \/ Crash => notified' = notified \/ MCancelApply
  BY DEF Request, MOpen, MClose, MRunStart, MCancelBegin, Crash, MainStep, MRecoverRun,
         MServe, MEnqueue, MCancelCommit, EndCancel, MCloseLock, MJoin, Failure,
         MRecoverRejected, MCancelRollBack, MCancelRejected, WRejected, WLeave
<1>9. WorkerStep =>
        \/ notified' = notified
        \/ /\ wpc \in {"startNotify", "advanceNotify", "completeNotify",
                       "requestNotify", "cancelNotify", "failNotify"}
           /\ notified' = notified \cup {LastNotice(wrun)} /\ runs' = runs
  BY DEF WorkerStep, WGet, WLock, WLook, WLeave, WEnterExecutor, WWork, WPrecheck,
         WToken, WPublish, WAdvanceNotify, WNotify, WRequestNotify, WSignal, WStart,
         WAdvance, WComplete, WRequest, WCancel, WFail
<1> QED
  BY <1>5, <1>6, <1>7, <1>8, <1>9 DEF Next

(* A terminal event is set for a run that has ended, or whose end the open     *)
(* transaction is about to commit.                                             *)
LEMMA SignalStep ==
  ASSUME InductiveInvariant, SignalIsEarned, Next
  PROVE  SignalIsEarned'
<1> USE DEF durable, lockVars, mainVars, workerVars, memoryVars
<1>1. /\ runs \in [Run -> Row] /\ signalled \subseteq Run
      /\ \A r \in Run : Terminal(runs[r]) => runs'[r] = runs[r]
      /\ mpc = "cancelCommit" => mrun \in Run
      /\ wpc \notin IdlePCs => wrun \in Run
  BY Bearings, RowFacts DEF InductiveInvariant, TypeOK
<1>2. CASE signalled' = {}
  BY <1>2 DEF SignalIsEarned
<1>3. CASE /\ signalled' \subseteq signalled /\ setting' = setting
           /\ mpc = "cancelCommit" => UNCHANGED <<mpc, mrun, tx>>
  BY <1>1, <1>3 DEF SignalIsEarned, Terminal
<1>4. CASE MCancelApply
  <2>1. /\ signalled' \subseteq signalled \cup {mrun}
        /\ signalled' # signalled => Terminal(tx')
        /\ mpc = "cancelLock" /\ mpc' = "cancelCommit"
        /\ UNCHANGED <<mrun, setting, runs>>
    BY <1>4 DEF MCancelApply
  <2> QED
    BY <2>1 DEF SignalIsEarned, Terminal
<1>5. CASE MCancelCommit
  <2>1. /\ mpc = "cancelCommit" /\ runs' = [runs EXCEPT ![mrun] = tx]
        /\ UNCHANGED <<signalled, setting>>
    BY <1>5 DEF MCancelCommit, EndCancel
  <2>2. runs'[mrun] = tx
    BY <1>1, <2>1
  <2> QED
    BY <1>1, <2>1, <2>2 DEF SignalIsEarned, Terminal
<1>6. CASE MCancelRollBack
  BY <1>6 DEF MCancelRollBack, EndCancel, SignalIsEarned
<1>7. CASE WLook \/ WSignal
  <2>1. /\ wrun \in Run /\ UNCHANGED <<mpc, mrun, tx, setting, runs>>
        /\ signalled' \subseteq signalled \cup {wrun}
        /\ signalled' # signalled => Terminal(runs[wrun])
    BY <1>1, <1>7 DEF WLook, WSignal, WLeave, IdlePCs
  <2> QED
    BY <2>1 DEF SignalIsEarned, Terminal
<1>8. Request \/ MainStep \/ Failure \/ Crash =>
        \/ signalled' = {} \/ MCancelApply \/ MCancelCommit \/ MCancelRollBack
        \/ /\ signalled' \subseteq signalled /\ setting' = setting
           /\ mpc = "cancelCommit" => UNCHANGED <<mpc, mrun, tx>>
  BY DEF Request, MOpen, MClose, MRunStart, MCancelBegin, Crash, DropMemory, MainStep,
         MRecoverRun, MServe, MEnqueue, EndCancel, MCloseLock, MJoin, Failure,
         MRecoverRejected, MCancelRejected, WRejected, WLeave
<1>9. WorkerStep =>
        WLook \/ WSignal \/ UNCHANGED <<signalled, setting, mpc, mrun, tx>>
  BY DEF WorkerStep, WGet, WLock, WLeave, WEnterExecutor, WWork, WPrecheck, WToken,
         WPublish, WAdvanceNotify, WNotify, WRequestNotify, WStart, WAdvance, WComplete,
         WRequest, WCancel, WFail
<1> QED
  BY <1>2, <1>3, <1>4, <1>5, <1>6, <1>7, <1>8, <1>9 DEF Next

-----------------------------------------------------------------------------
(* An empty project satisfies the invariant.                                 *)
LEMMA InitOutcome == Init => OutcomeInvariant
<1> SUFFICES ASSUME Init PROVE OutcomeInvariant
  OBVIOUS
<1>1. \A r \in Run : runs[r].state = "absent"
  BY QueuedRowSound DEF Init
<1> QED
  BY <1>1
     DEF Init, OutcomeInvariant, ResultInHand, ResultMatchesOutcome,
         NoScheduledRunIsLost, ReportedIsDurable, SignalIsEarned, CancelIsAllowed

(* No step of a client, the worker or the process breaks the invariant.      *)
LEMMA StepOutcome ==
  ASSUME InductiveInvariant, OutcomeInvariant, [Next]_vars
  PROVE  OutcomeInvariant'
<1>1. CASE UNCHANGED vars
  BY <1>1
     DEF OutcomeInvariant, ResultInHand, ResultMatchesOutcome, NoScheduledRunIsLost,
         ReportedIsDurable, SignalIsEarned, CancelIsAllowed, Committed, vars
<1>2. CASE Next
  <2>1. /\ ResultInHand /\ ResultMatchesOutcome /\ NoScheduledRunIsLost
        /\ ReportedIsDurable /\ SignalIsEarned /\ CancelIsAllowed
    BY DEF OutcomeInvariant
  <2>2. ResultInHand'
    BY <1>2, <2>1, MainKeepsResult, WorkerKeepsResult DEF Next, Failure
  <2> QED
    BY <1>2, <2>1, <2>2, OutcomeStep, QueueStep, ReportedStep, SignalStep, CancelStep
       DEF OutcomeInvariant
<1> QED
  BY <1>1, <1>2

(* The invariant of this module holds in every state of the scheduler.         *)
THEOREM OutcomeInvariance == Spec => []OutcomeInvariant
<1> QED
  BY Invariance, InitOutcome, StepOutcome, PTL DEF Spec

(* A completed run has its result and a withdrawn, cancelled or failed one has *)
(* none (AssessmentPipeline.execute, RunCoordinator._execute), whatever        *)
(* cancellation, crash or restart met the steps in between.                    *)
THEOREM ResultsMatchOutcomes == Spec => []ResultMatchesOutcome
<1>1. OutcomeInvariant => ResultMatchesOutcome
  BY DEF OutcomeInvariant
<1> QED
  BY <1>1, OutcomeInvariance, PTL

(* A scheduled run that is still queued is in the queue once or in the hands   *)
(* of the worker (RunCoordinator.enqueue, _work_loop).                         *)
THEOREM NoRunLost == Spec => []NoScheduledRunIsLost
<1>1. OutcomeInvariant => NoScheduledRunIsLost
  BY DEF OutcomeInvariant
<1> QED
  BY <1>1, OutcomeInvariance, PTL

(* What the client and the waiting threads are told is so: _notify_run_event   *)
(* tells of committed events except in a cancellation, and done.set() means    *)
(* the end of the run.                                                         *)
THEOREM ToldTrue == Spec => []ToldIsTrue
<1>1. InductiveInvariant /\ OutcomeInvariant => ToldIsTrue
  <2> SUFFICES ASSUME InductiveInvariant, OutcomeInvariant PROVE ToldIsTrue
    OBVIOUS
  <2>1. tx = None => mpc # "cancelCommit"
    BY RunAssumption DEF InductiveInvariant, LocksHeld
  <2> QED
    BY <2>1 DEF OutcomeInvariant, SignalIsEarned, ToldIsTrue, SignalledIsTerminal
<1> QED
  BY <1>1, Invariance, OutcomeInvariance, PTL

(* The scheduler implements the lifecycle: every step of the threads, the      *)
(* recovery and the faults is one move of one run along the state graph, with  *)
(* one run active at a time, or leaves the durable state alone.                *)
THEOREM LifecycleImplemented == Spec => ImplementsLifecycle
<1>1. Init => Lifecycle!Init
  <2> SUFFICES ASSUME Init PROVE Lifecycle!Init
    OBVIOUS
  <2>1. setting.stepClock \in BOOLEAN
    BY RunAssumption DEF Init
  <2>2. [r \in Run |-> runs[r].state] = [r \in Run |-> "absent"]
    BY QueuedRowSound DEF Init
  <2> QED
    BY <2>1, <2>2 DEF Init, Lifecycle!Init
<1>2. InductiveInvariant /\ OutcomeInvariant /\ [Next]_vars =>
        [Lifecycle!Next]_(Lifecycle!lifecycleVars)
  <2>1. ASSUME UNCHANGED vars PROVE UNCHANGED Lifecycle!lifecycleVars
    BY <2>1 DEF vars, Lifecycle!lifecycleVars
  <2> QED
    BY <2>1, StepRefines DEF OutcomeInvariant
<1> QED
  BY <1>1, <1>2, Invariance, OutcomeInvariance, PTL
     DEF Spec, ImplementsLifecycle, Lifecycle!Spec
=============================================================================
