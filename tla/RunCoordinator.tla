--------------------------- MODULE RunCoordinator ---------------------------
(***************************************************************************)
(* The run scheduler of the sidecar process: runtime/coordinator.py, the   *)
(* parts of runtime/pipeline.py it drives, the run.* and project.* request *)
(* handlers of sidecar/methods.py that call it, and the recovery done by   *)
(* runtime/application.py when a project is opened.                        *)
(*                                                                         *)
(* Two threads share the process.  MAIN serves one JSON-RPC request at a   *)
(* time; WORKER takes scheduled runs from a FIFO queue and executes them.  *)
(* They synchronise on two reentrant locks:                                *)
(*   coord    RunCoordinator._lock                                         *)
(*   database ProjectDatabase._lock, held for one statement or for a whole *)
(*            transaction (persistence/database.py)                        *)
(* The worker's transactions contain no other lock operation, so each of   *)
(* them is one step, enabled while the database lock is free.  The main    *)
(* thread keeps the database lock during all of run.cancel, because the    *)
(* handler runs inside the transaction of IdempotencyStore.execute.        *)
(*                                                                         *)
(* A crash may happen between any two steps; it loses everything but the   *)
(* committed rows and the notifications already written to stdout.         *)
(***************************************************************************)
EXTENDS RunStore

CONSTANTS
  Run,            \* run identifiers the client may use
  Settings,       \* what may happen in one history of the process:
                  \*   cancellable  runs for which the client may issue
                  \*                run.cancel
                  \*   rollBack     whether a run.cancel transaction may fail
                  \*                after the mutation (an illegal actor, a
                  \*                failed insert)
                  \*   stepClock    whether the wall clock may be set back
                  \*                during a run
  MaxCrashes,     \* bound on the number of crashes explored
  None,           \* no lock holder, no transaction
  Stop            \* the None that close() puts into the queue

ASSUME RunAssumption ==
  /\ Run # {} /\ Settings # {}
  /\ Settings \subseteq
       [cancellable : SUBSET Run, rollBack : BOOLEAN, stepClock : BOOLEAN]
  /\ MaxCrashes \in Nat
  /\ Stop \notin Run
  /\ None \notin {"main", "worker"} /\ None \notin Row

VARIABLES
  runs,        \* durable: the committed row of every run
  results,     \* durable: runs that own a result envelope
  tx,          \* the row as changed by run.cancel's open transaction, or None
  database,    \* holder of the database lock between two steps
  coord,       \* holder of the coordinator lock
  mpc,         \* what the main thread does next
  mrun,        \* the run its current request is about
  wpc,         \* what the worker thread does next
  wrun,        \* the run the worker took from the queue
  wunit,       \* units of that run reported so far
  queue,       \* RunCoordinator._queue
  scheduled,   \* RunCoordinator._scheduled
  token,       \* runs whose cancellation token is set
  signalled,   \* runs whose terminal event is set
  notified,    \* run events written to the client so far
  crashes,     \* number of crashes so far
  setting      \* what may happen in this history; it never changes

durable     == <<runs, results>>
mainVars    == <<mpc, mrun>>
workerVars  == <<wpc, wrun, wunit>>
memoryVars  == <<queue, scheduled, token, signalled>>
lockVars    == <<database, coord>>
vars == <<runs, results, tx, database, coord, mpc, mrun, wpc, wrun, wunit,
          queue, scheduled, token, signalled, notified, crashes, setting>>

MainPCs == {"down", "recover", "idle", "enqueue", "cancelLock",
            "cancelCommit", "closeLock", "join"}

(* The worker's positions.  At the first group it holds no lock; those     *)
(* ending in Wait are entries to a block guarded by coord.  At the second  *)
(* group it is inside such a block.                                        *)
UnlockedPCs == {"none", "get", "beginWait", "exec", "work", "precheck",
                "publish", "reportWait", "finishWait", "cancelWait",
                "failWait", "signalWait", "dead", "exited"}
LockedPCs == {"look", "start", "startNotify", "advance", "advanceNotify",
              "complete", "completeNotify", "request", "requestNotify",
              "cancel", "cancelNotify", "fail", "failNotify", "signal"}
WorkerPCs == UnlockedPCs \cup LockedPCs

Serving == mpc \notin {"down", "recover"}

(* An event as the client sees it: the run, its sequence number, content.  *)
Notice == [run : Run, seq : Nat, event : Event]

NewNotices(r, before, after) ==
  {[run |-> r, seq |-> n, event |-> after.events[n]] :
     n \in (Len(before.events) + 1) .. Len(after.events)}

LastNotice(r) ==
  [run |-> r, seq |-> Len(runs[r].events),
   event |-> runs[r].events[Len(runs[r].events)]]

-----------------------------------------------------------------------------
Init ==
  /\ runs = [r \in Run |-> NoRow]
  /\ results = {}
  /\ tx = None /\ database = None /\ coord = None
  /\ mpc = "down" /\ mrun = None
  /\ wpc = "none" /\ wrun = None /\ wunit = 0
  /\ queue = <<>> /\ scheduled = {} /\ token = {} /\ signalled = {}
  /\ notified = {}
  /\ crashes = 0
  /\ setting \in Settings

(* What leaves memory when the coordinator object goes away.               *)
DropMemory ==
  /\ mrun' = None /\ wpc' = "none" /\ wrun' = None /\ wunit' = 0
  /\ queue' = <<>> /\ scheduled' = {} /\ token' = {} /\ signalled' = {}

-----------------------------------------------------------------------------
(* Project open: recovery, then a fresh coordinator with a fresh worker.   *)

MOpen ==
  /\ mpc = "down"
  /\ mpc' = "recover"
  /\ UNCHANGED <<durable, tx, lockVars, mrun, workerVars, memoryVars,
                 notified, crashes, setting>>

(* Mutant of MRecoverRun: the run is queued again, its history dropped.     *)
MRecoverRequeues(r) ==
  /\ mpc = "recover"
  /\ Active(runs[r])
  /\ runs' = [runs EXCEPT ![r] = QueuedRow]
  /\ UNCHANGED <<results, tx, lockVars, mainVars, workerVars, memoryVars,
                 notified, crashes, setting>>

(* recover_interrupted: one transaction per row that was left active.      *)
MRecoverRun(r) ==
  /\ mpc = "recover"
  /\ Active(runs[r])
  /\ runs' = [runs EXCEPT ![r] = Interrupt(@)]
  /\ UNCHANGED <<results, tx, lockVars, mainVars, workerVars, memoryVars,
                 notified, crashes, setting>>

(* The clock is behind started_at: the interrupted row fails validation    *)
(* and project.open reports an error.                                      *)
MRecoverRejected ==
  /\ mpc = "recover"
  /\ setting.stepClock
  /\ \E r \in Run : Active(runs[r])
  /\ mpc' = "down"
  /\ UNCHANGED <<durable, tx, lockVars, mrun, workerVars, memoryVars,
                 notified, crashes, setting>>

MServe ==
  /\ mpc = "recover"
  /\ \A r \in Run : ~Active(runs[r])
  /\ mpc' = "idle" /\ wpc' = "get"
  /\ UNCHANGED <<durable, tx, lockVars, mrun, wrun, wunit, memoryVars,
                 notified, crashes, setting>>

-----------------------------------------------------------------------------
(* run.start / model.run.start: the row is created inside the idempotency  *)
(* transaction (a repeated request replays its receipt and creates         *)
(* nothing); the run is enqueued after the commit.                         *)

MRunStart(r) ==
  /\ mpc = "idle"
  /\ database = None
  /\ runs' = IF runs[r].state = "absent"
             THEN [runs EXCEPT ![r] = QueuedRow] ELSE runs
  /\ mpc' = "enqueue" /\ mrun' = r
  /\ UNCHANGED <<results, tx, lockVars, workerVars, memoryVars,
                 notified, crashes, setting>>

(* Mutant of MEnqueue: _scheduled is not consulted.                        *)
MEnqueueTwice ==
  /\ mpc = "enqueue"
  /\ coord = None /\ database = None
  /\ IF runs[mrun].state = "queued"
     THEN /\ scheduled' = scheduled \cup {mrun}
          /\ token' = token \ {mrun}
          /\ signalled' = signalled \ {mrun}
          /\ queue' = Append(queue, mrun)
     ELSE UNCHANGED memoryVars
  /\ mpc' = "idle" /\ mrun' = None
  /\ UNCHANGED <<durable, tx, lockVars, workerVars, notified, crashes, setting>>

(* Mutant of MEnqueue: the run is registered but never put into the queue. *)
MEnqueueForgetsPut ==
  /\ mpc = "enqueue"
  /\ coord = None /\ database = None
  /\ scheduled' = scheduled \cup {mrun}
  /\ mpc' = "idle" /\ mrun' = None
  /\ UNCHANGED <<durable, tx, lockVars, workerVars, queue, token, signalled,
                 notified, crashes, setting>>

MEnqueue ==
  /\ mpc = "enqueue"
  /\ coord = None /\ database = None
  /\ IF runs[mrun].state = "queued" /\ mrun \notin scheduled
     THEN /\ scheduled' = scheduled \cup {mrun}
          /\ token' = token \ {mrun}
          /\ signalled' = signalled \ {mrun}
          /\ queue' = Append(queue, mrun)
     ELSE UNCHANGED memoryVars
  /\ mpc' = "idle" /\ mrun' = None
  /\ UNCHANGED <<durable, tx, lockVars, workerVars, notified, crashes, setting>>

-----------------------------------------------------------------------------
(* run.cancel                                                              *)

(* The row coordinator.cancel leaves: a queued run walks the whole graph   *)
(* to cancelled, a running one becomes cancelling.                         *)
CancelOutcome(row) ==
  CASE row.state = "queued"  -> Cancel(RequestCancel(Start(row)))
    [] row.state = "running" -> RequestCancel(row)
    [] OTHER                 -> row

(* IdempotencyStore.execute begins its transaction around the mutation.    *)
MCancelBegin(r) ==
  /\ mpc = "idle"
  /\ r \in setting.cancellable
  /\ runs[r].state # "absent"
  /\ database = None
  /\ database' = "main" /\ tx' = runs[r]
  /\ mpc' = "cancelLock" /\ mrun' = r
  /\ UNCHANGED <<durable, coord, workerVars, memoryVars, notified, crashes, setting>>

(* Mutant of MCancelApply: token.request() is missing.                     *)
MCancelWithoutToken ==
  /\ mpc = "cancelLock"
  /\ coord = None
  /\ tx' = CancelOutcome(tx)
  /\ signalled' = IF Terminal(tx') THEN signalled \cup {mrun} ELSE signalled
  /\ notified' = notified \cup NewNotices(mrun, tx, tx')
  /\ mpc' = "cancelCommit"
  /\ UNCHANGED <<durable, lockVars, mrun, workerVars, queue, scheduled, token,
                 crashes, setting>>

(* Mutant of MCancelApply: done.set() for every cancellation.              *)
MCancelSignalsAlways ==
  /\ mpc = "cancelLock"
  /\ coord = None
  /\ tx' = CancelOutcome(tx)
  /\ token' = IF Terminal(tx) THEN token ELSE token \cup {mrun}
  /\ signalled' = signalled \cup {mrun}
  /\ notified' = notified \cup NewNotices(mrun, tx, tx')
  /\ mpc' = "cancelCommit"
  /\ UNCHANGED <<durable, lockVars, mrun, workerVars, queue, scheduled,
                 crashes, setting>>

(* coordinator.cancel under its lock, in the still open transaction; the   *)
(* events are written to the client before the transaction commits.        *)
MCancelApply ==
  /\ mpc = "cancelLock"
  /\ coord = None
  /\ tx' = CancelOutcome(tx)
  /\ token' = IF Terminal(tx) THEN token ELSE token \cup {mrun}
  /\ signalled' = IF Terminal(tx') THEN signalled \cup {mrun} ELSE signalled
  /\ notified' = notified \cup NewNotices(mrun, tx, tx')
  /\ mpc' = "cancelCommit"
  /\ UNCHANGED <<durable, lockVars, mrun, workerVars, queue, scheduled,
                 crashes, setting>>

EndCancel ==
  /\ tx' = None /\ database' = None
  /\ mpc' = "idle" /\ mrun' = None
  /\ UNCHANGED <<results, coord, workerVars, queue, scheduled, signalled,
                 notified, crashes, setting>>

MCancelCommit ==
  /\ mpc = "cancelCommit"
  /\ runs' = [runs EXCEPT ![mrun] = tx]
  /\ EndCancel
  /\ UNCHANGED token

(* The audit event is invalid, or the insert of it or the receipt fails.   *)
MCancelRollBack ==
  /\ mpc = "cancelCommit"
  /\ setting.rollBack
  /\ EndCancel
  /\ UNCHANGED <<runs, token>>

(* The clock is behind requested_at: the first transition fails validation *)
(* after the token was set.                                                *)
MCancelRejected ==
  /\ mpc = "cancelLock"
  /\ setting.stepClock
  /\ coord = None
  /\ ~Terminal(tx)
  /\ token' = token \cup {mrun}
  /\ EndCancel
  /\ UNCHANGED runs

-----------------------------------------------------------------------------
(* project.close: ProjectApplication.close, coordinator first.             *)

MClose ==
  /\ mpc = "idle"
  /\ mpc' = "closeLock"
  /\ UNCHANGED <<durable, tx, lockVars, mrun, workerVars, memoryVars,
                 notified, crashes, setting>>

(* Mutant of MCloseLock: the stop mark is not put into the queue.          *)
MCloseWithoutStop ==
  /\ mpc = "closeLock"
  /\ coord = None
  /\ token' = token \cup scheduled
  /\ mpc' = "join"
  /\ UNCHANGED <<durable, tx, lockVars, mrun, workerVars, queue, scheduled,
                 signalled, notified, crashes, setting>>

MCloseLock ==
  /\ mpc = "closeLock"
  /\ coord = None
  /\ token' = token \cup scheduled
  /\ queue' = Append(queue, Stop)
  /\ mpc' = "join"
  /\ UNCHANGED <<durable, tx, lockVars, mrun, workerVars, scheduled,
                 signalled, notified, crashes, setting>>

MJoin ==
  /\ mpc = "join"
  /\ wpc \in {"exited", "dead"}
  /\ mpc' = "down"
  /\ DropMemory
  /\ UNCHANGED <<durable, tx, lockVars, notified, crashes, setting>>

Crash ==
  /\ mpc # "down"
  /\ crashes < MaxCrashes
  /\ crashes' = crashes + 1
  /\ mpc' = "down" /\ tx' = None /\ database' = None /\ coord' = None
  /\ DropMemory
  /\ UNCHANGED <<durable, notified, setting>>

-----------------------------------------------------------------------------
(* The worker thread.                                                      *)

WGet ==
  /\ wpc = "get"
  /\ queue # <<>>
  /\ queue' = Tail(queue)
  /\ IF Head(queue) = Stop
     THEN wpc' = "exited" /\ UNCHANGED <<wrun, wunit>>
     ELSE wpc' = "beginWait" /\ wrun' = Head(queue) /\ wunit' = 0
  /\ UNCHANGED <<durable, tx, lockVars, mainVars, scheduled, token,
                 signalled, notified, crashes, setting>>

(* `with self._lock' at the head of a block.                               *)
WLock(from, to) ==
  /\ wpc = from
  /\ coord = None
  /\ coord' = "worker" /\ wpc' = to
  /\ UNCHANGED <<durable, tx, database, mainVars, wrun, wunit, memoryVars,
                 notified, crashes, setting>>

(* One database transaction inside such a block: the row becomes `row'.    *)
WPersist(row, to) ==
  /\ runs' = [runs EXCEPT ![wrun] = row]
  /\ wpc' = to
  /\ UNCHANGED coord

(* Leaving the block without a transition.                                 *)
WLeave(to) ==
  /\ coord' = None /\ wpc' = to
  /\ UNCHANGED runs

(* _persist_and_notify re-reads the event and writes it to the client; the *)
(* block ends there.                                                       *)
WNotify(from, to) ==
  /\ wpc = from
  /\ database = None
  /\ notified' = notified \cup {LastNotice(wrun)}
  /\ coord' = None /\ wpc' = to
  /\ UNCHANGED <<durable, tx, database, mainVars, wrun, wunit, memoryVars,
                 crashes, setting>>

(* _execute finds the run terminal, or queued.  A scheduled run that is    *)
(* already active would be failed.                                         *)
WLook ==
  /\ wpc = "look"
  /\ database = None
  /\ IF Terminal(runs[wrun])
     THEN WLeave("get") /\ signalled' = signalled \cup {wrun}
     ELSE /\ wpc' = IF runs[wrun].state = "queued" THEN "start" ELSE "fail"
          /\ UNCHANGED <<runs, coord, signalled>>
  /\ UNCHANGED <<results, tx, database, mainVars, wrun, wunit, queue,
                 scheduled, token, notified, crashes, setting>>

WStart ==
  /\ wpc = "start"
  /\ database = None
  /\ CanStart(runs[wrun])
  /\ WPersist(Start(runs[wrun]), "startNotify")
  /\ UNCHANGED <<results, tx, database, mainVars, wrun, wunit, memoryVars,
                 notified, crashes, setting>>

-----------------------------------------------------------------------------
(* The executor: for each unit a token check, the computation, a second    *)
(* check and a progress report.  Before the last unit (reporting) the      *)
(* result is persisted, and its report ignores the token.                  *)

WToken(from, to) ==
  /\ wpc = from
  /\ wpc' = IF wrun \in token THEN "cancelWait" ELSE to
  /\ UNCHANGED <<durable, tx, lockVars, mainVars, wrun, wunit, memoryVars,
                 notified, crashes, setting>>

(* AssessmentPipeline.execute returns a result that is already stored.     *)
WEnterExecutor ==
  WToken("exec",
         IF wunit = 0 /\ wrun \in results THEN "finishWait" ELSE "work")

WWork ==
  /\ wpc = "work"
  /\ wpc' \in {"precheck", "failWait"}
  /\ UNCHANGED <<durable, tx, lockVars, mainVars, wrun, wunit, memoryVars,
                 notified, crashes, setting>>

WPrecheck ==
  WToken("precheck", IF wunit + 1 = TotalUnits THEN "publish" ELSE "reportWait")

(* Mutant of WPublish: the envelope is built but not stored.               *)
WPublishNothing ==
  /\ wpc = "publish"
  /\ database = None
  /\ wpc' = "reportWait"
  /\ UNCHANGED <<durable, tx, lockVars, mainVars, wrun, wunit, memoryVars,
                 notified, crashes, setting>>

(* RunResultRepository.add                                                 *)
WPublish ==
  /\ wpc = "publish"
  /\ database = None
  /\ results' = results \cup {wrun}
  /\ wpc' = "reportWait"
  /\ UNCHANGED <<runs, tx, lockVars, mainVars, wrun, wunit, memoryVars,
                 notified, crashes, setting>>

(* _record_progress; an illegal advance is raised through the executor.    *)
WAdvance ==
  /\ wpc = "advance"
  /\ database = None
  /\ IF CanAdvance(runs[wrun], wunit + 1)
     THEN /\ WPersist(Advance(runs[wrun], wunit + 1), "advanceNotify")
          /\ wunit' = wunit + 1
     ELSE WLeave("failWait") /\ UNCHANGED wunit
  /\ UNCHANGED <<results, tx, database, mainVars, wrun, memoryVars,
                 notified, crashes, setting>>

(* Mutant of WAdvanceNotify: the token is also honoured after reporting.   *)
WAdvanceNotifyLateCheck ==
  WNotify("advanceNotify",
          IF wunit < TotalUnits THEN "exec"
          ELSE IF wrun \in token THEN "cancelWait" ELSE "finishWait")

WAdvanceNotify ==
  WNotify("advanceNotify", IF wunit = TotalUnits THEN "finishWait" ELSE "exec")

WComplete ==
  /\ wpc = "complete"
  /\ database = None
  /\ IF Terminal(runs[wrun])
     THEN WLeave("signalWait")
     ELSE /\ CanComplete(runs[wrun])
          /\ WPersist(Complete(runs[wrun]), "completeNotify")
  /\ UNCHANGED <<results, tx, database, mainVars, wrun, wunit, memoryVars,
                 notified, crashes, setting>>

-----------------------------------------------------------------------------
(* _cancel_if_active: running -> cancelling -> cancelled in one block.     *)
WRequest ==
  /\ wpc = "request"
  /\ database = None
  /\ CASE runs[wrun].state = "running" ->
            WPersist(RequestCancel(runs[wrun]), "requestNotify")
       [] runs[wrun].state = "cancelling" ->
            wpc' = "cancel" /\ UNCHANGED <<runs, coord>>
       [] OTHER -> WLeave("signalWait")
  /\ UNCHANGED <<results, tx, database, mainVars, wrun, wunit, memoryVars,
                 notified, crashes, setting>>

WRequestNotify ==
  /\ wpc = "requestNotify"
  /\ database = None
  /\ notified' = notified \cup {LastNotice(wrun)}
  /\ wpc' = "cancel"
  /\ UNCHANGED <<durable, tx, lockVars, mainVars, wrun, wunit, memoryVars,
                 crashes, setting>>

WCancel ==
  /\ wpc = "cancel"
  /\ database = None
  /\ CanCancel(runs[wrun])
  /\ WPersist(Cancel(runs[wrun]), "cancelNotify")
  /\ UNCHANGED <<results, tx, database, mainVars, wrun, wunit, memoryVars,
                 notified, crashes, setting>>

(* _fail_if_active                                                         *)
WFail ==
  /\ wpc = "fail"
  /\ database = None
  /\ IF Terminal(runs[wrun])
     THEN WLeave("signalWait")
     ELSE /\ CanFail(runs[wrun])
          /\ WPersist(Fail(runs[wrun]), "failNotify")
  /\ UNCHANGED <<results, tx, database, mainVars, wrun, wunit, memoryVars,
                 notified, crashes, setting>>

(* _signal_terminal, in the finally clause.                                *)
WSignal ==
  /\ wpc = "signal"
  /\ database = None
  /\ signalled' = IF Terminal(runs[wrun])
                  THEN signalled \cup {wrun} ELSE signalled
  /\ WLeave("get")
  /\ UNCHANGED <<results, tx, database, mainVars, wrun, wunit, queue,
                 scheduled, token, notified, crashes, setting>>

(* The clock is behind an earlier timestamp of the run: the new row fails  *)
(* validation.  A rejected completion is handled as a failure; any other   *)
(* rejection escapes _execute and ends the thread.                         *)
WRejected ==
  /\ wpc \in {"start", "complete", "request", "cancel", "fail"}
  /\ setting.stepClock
  /\ database = None
  /\ ~Terminal(runs[wrun])
  /\ wpc = "request" => runs[wrun].state = "running"
  /\ WLeave(IF wpc = "complete" THEN "failWait" ELSE "dead")
  /\ UNCHANGED <<results, tx, database, mainVars, wrun, wunit, memoryVars,
                 notified, crashes, setting>>
-----------------------------------------------------------------------------
(* Requests and crashes are the environment's choice; everything else is a *)
(* thread that keeps running.                                              *)
Request ==
  \/ MOpen \/ MClose
  \/ \E r \in Run : MRunStart(r) \/ MCancelBegin(r)

MainStep ==
  \/ \E r \in Run : MRecoverRun(r)
  \/ MServe \/ MEnqueue
  \/ MCancelApply \/ MCancelCommit
  \/ MCloseLock \/ MJoin

Failure == MRecoverRejected \/ MCancelRollBack \/ MCancelRejected \/ WRejected

WorkerStep ==
  \/ WGet \/ WLook \/ WStart
  \/ WEnterExecutor \/ WWork \/ WPrecheck \/ WPublish
  \/ WAdvance \/ WAdvanceNotify \/ WComplete
  \/ WRequest \/ WRequestNotify \/ WCancel \/ WFail \/ WSignal
  \/ WLock("beginWait", "look") \/ WLock("reportWait", "advance")
  \/ WLock("finishWait", "complete") \/ WLock("cancelWait", "request")
  \/ WLock("failWait", "fail") \/ WLock("signalWait", "signal")
  \/ WNotify("startNotify", "exec") \/ WNotify("completeNotify", "signalWait")
  \/ WNotify("cancelNotify", "signalWait") \/ WNotify("failNotify", "signalWait")

Next == Request \/ MainStep \/ WorkerStep \/ Failure \/ Crash

(* The operating system keeps scheduling both threads, so neither stops at *)
(* a step it can take.  Fairness is strong because the steps that need a   *)
(* lock are enabled only now and then: between two requests the main       *)
(* thread blocks on stdin with both locks free, so a waiting worker gets   *)
(* them, and a run has finitely many guarded blocks, so the main thread    *)
(* does.  Nothing obliges the client to send a request.                    *)
Fairness == SF_vars(MainStep) /\ SF_vars(WorkerStep)

Spec == Init /\ [][Next]_vars
FairSpec == Spec /\ Fairness

-----------------------------------------------------------------------------
(* Properties                                                              *)

(* The value every variable may hold.                                      *)
TypeOK ==
  /\ runs \in [Run -> Row]
  /\ results \subseteq Run
  /\ tx \in Row \cup {None}
  /\ database \in {"main", None} /\ coord \in {"worker", None}
  /\ mpc \in MainPCs /\ mrun \in Run \cup {None}
  /\ wpc \in WorkerPCs /\ wrun \in Run \cup {None} /\ wunit \in 0 .. TotalUnits
  /\ queue \in Seq(Run \cup {Stop})
  /\ scheduled \subseteq Run /\ token \subseteq Run /\ signalled \subseteq Run
  /\ notified \subseteq Notice
  /\ crashes \in 0 .. MaxCrashes
  /\ setting \in Settings

(* At most one run is running or cancelling in the durable store, also     *)
(* across crashes and restarts (max_parallel_assessment_runs is 1).        *)
SingleActiveRun ==
  \A q, r \in Run : Active(runs[q]) /\ Active(runs[r]) => q = r

(* While the project is open, an active run is the one in the worker's     *)
(* hands, past its start: recovery left none behind, and no path through   *)
(* the executor drops a run without a terminal state.                      *)
ActiveRunIsOwned ==
  Serving =>
    \A r \in Run : Active(runs[r]) =>
      /\ wrun = r
      /\ wpc \notin {"none", "get", "beginWait", "look", "start", "exited"}

(* A run that was scheduled and is still queued is either in the queue,    *)
(* exactly once, or has just been taken by the worker; only a worker that  *)
(* died of a clock step may leave it behind.                               *)
NoScheduledRunIsLost ==
  \A r \in scheduled : runs[r].state = "queued" =>
    \/ \E i \in DOMAIN queue : queue[i] = r /\ \A j \in DOMAIN queue :
                                                 queue[j] = r => i = j
    \/ wrun = r /\ wpc \in {"beginWait", "look", "start", "dead"}

(* A completed run owns a durable result, and a run that never computed,   *)
(* failed or was cancelled owns none, whatever crash or cancellation met   *)
(* the steps between storing the result and completing the run.  Only a    *)
(* clock set back in between makes a failure of a completion.              *)
ResultMatchesOutcome ==
  \A r \in Run :
    /\ runs[r].state = "completed" => r \in results
    /\ runs[r].state \in {"absent", "queued", "cancelled"} => r \notin results
    /\ runs[r].state = "failed" /\ ~setting.stepClock => r \notin results

(* The event log of every run tells its history, whichever thread wrote    *)
(* the events: no late report goes back behind a cancellation, and no      *)
(* event follows the terminal one.                                         *)
EventLogSound == \A r \in Run : HistorySound(runs[r])

(* The event a notice speaks of is committed under that number, so the     *)
(* client can recover from run.events.list.                                *)
Committed(notice) ==
  /\ notice.seq \in DOMAIN runs[notice.run].events
  /\ runs[notice.run].events[notice.seq] = notice.event

(* What the client is told of a run it does not cancel can no longer be    *)
(* lost, whatever happens to the process or to requests about other runs.  *)
ReportedIsDurable ==
  \A n \in notified : n.run \notin setting.cancellable => Committed(n)

(* The same of every event the client was told of, cancellations included. *)
NotifiedIsDurable == tx = None => \A n \in notified : Committed(n)

(* Whoever is released by the terminal event of a run finds the run in a   *)
(* terminal state, unless the cancellation that set it was rolled back.    *)
SignalledIsTerminal ==
  tx = None /\ ~setting.rollBack => \A r \in signalled : Terminal(runs[r])

(* What a client or a waiting thread has been told of a run is so: an       *)
(* answer cannot be lost any more, and the terminal event means the end.    *)
ToldIsTrue == ReportedIsDurable /\ SignalledIsTerminal

(* A terminal run never changes again: not by a late progress report, a    *)
(* late cancellation, a restart, or a repeated run.start.                  *)
TerminalIsFinal ==
  [][\A r \in Run : Terminal(runs[r]) => runs'[r] = runs[r]]_vars

(* The scheduler implements the lifecycle the runtime promises.            *)
Lifecycle == INSTANCE RunLifecycle
               WITH status <- [r \in Run |-> runs[r].state],
                    published <- results,
                    regress <- setting.stepClock

ImplementsLifecycle == Lifecycle!Spec

(* The main thread waits for coord holding the database lock, the worker   *)
(* holds coord and needs the database lock: neither moves again.           *)
LockCycle == mpc = "cancelLock" /\ wpc \in LockedPCs

(* A scheduled run reaches a terminal state, unless the process ends or    *)
(* the two locks are taken in opposite orders.                             *)
ScheduledRunsFinish ==
  \A r \in Run :
    r \in scheduled ~> Terminal(runs[r]) \/ mpc = "down" \/ LockCycle

(* A run that is cancelling before its result is stored ends without one,  *)
(* unless the worker had passed its last check.                            *)
CancelTakesEffect ==
  \A r \in Run :
    runs[r].state = "cancelling" /\ r \notin results /\ wpc # "publish" ~>
      runs[r].state \in {"cancelled", "failed", "interrupted"} \/ LockCycle

(* project.close ends: the worker drains the queue, cancelling what is     *)
(* left in it, and meets the stop mark.                                    *)
CloseReturns == mpc \in {"closeLock", "join"} ~> mpc = "down"

(* run.cancel answers: the request does not stay in the coordinator.       *)
CancelReturns == mpc = "cancelLock" ~> mpc # "cancelLock"

(* Opening a project leaves no run of an earlier process unfinished.       *)
OpenLeavesNoRunPending ==
  [][mpc = "recover" /\ mpc' = "idle" =>
       \A r \in Run : runs'[r].state = "absent" \/ Terminal(runs'[r])]_vars

(* Without the exceptions above: what is scheduled gets executed.          *)
QueuedRunsExecute ==
  \A r \in Run : r \in scheduled ~> Terminal(runs[r]) \/ mpc = "down"

-----------------------------------------------------------------------------
(* The inductive invariant: what makes the safety properties survive every *)
(* step, with the lock discipline and the worker's program as its reasons. *)

(* Who holds a lock is where its code says.                                *)
LocksHeld ==
  /\ coord = "worker" <=> wpc \in LockedPCs
  /\ database = "main" <=> mpc \in {"cancelLock", "cancelCommit"}
  /\ tx = None <=> database = None

(* The open transaction changes the row it began with and nothing else.    *)
OpenTransaction ==
  /\ mpc \in {"enqueue", "cancelLock", "cancelCommit"} =>
       mrun \in Run /\ runs[mrun].state # "absent"
  /\ mpc = "cancelLock" => tx = runs[mrun]
  /\ mpc = "cancelCommit" => tx = CancelOutcome(runs[mrun])

(* Positions the worker reaches only by a step that takes the database     *)
(* lock, within the block of coord it is still in.                         *)
PastDatabasePCs == {"start", "startNotify", "advanceNotify", "completeNotify",
                    "requestNotify", "cancel", "cancelNotify", "failNotify"}

IdlePCs     == {"none", "get", "exited", "dead"}
TakenPCs    == {"beginWait", "look"}
EndedPCs    == {"completeNotify", "cancelNotify", "failNotify",
                "signalWait", "signal"}
WithdrawPCs == {"requestNotify", "cancel"}
ExecutePCs  == {"startNotify", "exec", "work", "precheck", "publish",
                "reportWait", "advance", "advanceNotify", "finishWait",
                "complete", "cancelWait", "request", "failWait", "fail"}

(* What the worker may rely on at each position, though the main thread    *)
(* changes rows between its blocks.                                        *)
WorkerPosition ==
  /\ wpc = "none" <=> ~Serving
  /\ wpc \in PastDatabasePCs => mpc # "cancelCommit"
  /\ wpc \notin IdlePCs => wrun \in scheduled
  /\ wpc = "start"         => runs[wrun].state = "queued"
  /\ wpc \in ExecutePCs    => Active(runs[wrun])
  /\ wpc \in WithdrawPCs   => runs[wrun].state = "cancelling"
  /\ wpc \in EndedPCs      => Terminal(runs[wrun])

(* Only runs that exist are scheduled, and only those are in the queue.    *)
ScheduledExist ==
  /\ queue \in Seq(scheduled \cup {Stop})
  /\ \A r \in scheduled : runs[r].state # "absent"

(* The worker counts the units of the run in its hands from zero, and the  *)
(* row's newest event agrees with the count.                               *)
ProgressAgrees ==
  /\ wpc \in {"beginWait", "look", "start", "startNotify"} => wunit = 0
  /\ wpc \in {"exec", "work", "precheck", "publish", "reportWait", "advance"} =>
       wunit < TotalUnits
  /\ wpc \in ExecutePCs => LastUnits(runs[wrun]) = wunit

(* All of it together: a step from a state that satisfies it leads to one  *)
(* that satisfies it, which is what keeps one run active at a time.        *)
InductiveInvariant ==
  /\ TypeOK
  /\ LocksHeld
  /\ OpenTransaction
  /\ WorkerPosition
  /\ ScheduledExist
  /\ ProgressAgrees
  /\ EventLogSound
  /\ SingleActiveRun
  /\ ActiveRunIsOwned
-----------------------------------------------------------------------------
(* What the properties about outcomes rest on, beyond that invariant.       *)

(* At each position the worker knows whether the run in its hands has a     *)
(* stored result: it has one from the publication, in its last unit, on,    *)
(* and none before or on the way to a cancellation.  Only a completion that *)
(* the clock rejected brings one to the failure of the run.                 *)
ResultInHand ==
  /\ wpc \in {"startNotify", "exec", "work", "precheck", "publish",
              "cancelWait", "request", "requestNotify", "cancel"} =>
       wrun \notin results
  /\ wpc = "publish" => wunit + 1 = TotalUnits
  /\ wpc \in {"reportWait", "advance"} =>
       (wrun \in results <=> wunit + 1 = TotalUnits)
  /\ wpc = "advanceNotify" => (wrun \in results <=> wunit = TotalUnits)
  /\ wpc \in {"finishWait", "complete"} => wrun \in results
  /\ wpc \in {"failWait", "fail"} => wrun \notin results \/ setting.stepClock

(* A terminal event is set for a terminal run, or for one whose withdrawal  *)
(* is about to be committed.                                                *)
SignalIsEarned ==
  ~setting.rollBack =>
    \A r \in signalled :
      Terminal(runs[r]) \/ (mpc = "cancelCommit" /\ r = mrun /\ Terminal(tx))

(* A cancellation is about a run that the client may cancel.                *)
CancelIsAllowed ==
  mpc \in {"cancelLock", "cancelCommit"} => mrun \in setting.cancellable

OutcomeInvariant ==
  /\ ResultInHand
  /\ ResultMatchesOutcome
  /\ NoScheduledRunIsLost
  /\ ReportedIsDurable
  /\ SignalIsEarned
  /\ CancelIsAllowed
=============================================================================
