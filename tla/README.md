# Formal models of the pilot assessment system

This directory holds TLA+ modules that model parts of this repository, TLC
configurations that check them on small instances, and proofs that TLAPS checks
for every instance. `PROJECT.json` is the index: it names for every definition
the source lines it stands for, for every run the properties it checks, and for
every property a mutant of the model that must violate it.

    tlc -workers 2 -config runs.cfg MCRunCoordinator
    tlapm RunCoordinator_proofs.tla

## 1. The system

The product assesses flights of pilots. A Windows desktop application (C#)
starts a Python process, the *sidecar*, and talks JSON-RPC 2.0 to it over stdin
and stdout. The sidecar owns all state: a *system store* with the library of
models (nodes, edges, conditional tables, task schemes) and *project stores*
with imported flight sessions, artifacts, runs and results. A run assesses one
session with one scheme on a worker thread.

| Component | State it keeps | Operations | Interacts with | Hard behaviour | Correct when |
|---|---|---|---|---|---|
| Run rows and event log (`runtime/repository.py`, `contracts/run.py`) | `runs`, `run_events` in SQLite | create, start, advance, request_cancel, complete, fail, cancel, interrupt | coordinator, project opening | two writers of one row, crash | the event log is gapless and monotone, terminal rows are final |
| Run coordinator (`runtime/coordinator.py`) | queue, scheduled set, tokens, terminal events; one worker thread | enqueue, cancel, wait, close, work loop | database lock, pipeline, client notifications | lock order, races of cancel, pickup, completion and close | one active run, no lost run, cancel takes effect, close returns |
| Assessment pipeline (`runtime/pipeline.py`) | stored results | stages and units, publication | coordinator (token, progress) | cancellation between publication and completion | a result exists exactly for the runs that earned one |
| Project application (`runtime/application.py`, `persistence/project.py`) | open project, clean-shutdown flag | create, open, close | all project components | crash recovery | opening repairs what a crash left |
| Idempotent transactions, audit, database (`persistence/transactions.py`, `audit.py`, `database.py`) | receipts, audit rows, one connection behind one lock | execute, replay, roll back | every mutating handler | lost answers, retries, failing commits | a transaction ID has one effect |
| Staged edit session (`model_workspace/edit_session.py`) | a database file with a copy of the library, snapshots, cursor, receipts | open, edit, undo, redo, save all, discard all, close | library, import, run guard | crash between two databases, retries, history | no edit lost or duplicated, save atomic, opening succeeds |
| Import of project-owned models (`model_workspace/legacy_import.py`) | import receipts | import, recover a dirty edit | library, edit session | partial failure, repetition | imported once, nothing overwritten |
| Current workspace (`model_workspace/service.py` and its repository) | nodes, edges, tables, schemes, change events, two revision channels per object | 22 edit methods, activation, archiving, per-object undo | edit session | interleaved semantic and layout edits, stale impact | acyclic graph, closed activation, revisions detect stale edits |
| Content and workspace migrations | format versions | migrate at opening | edit session, stores | crash during migration | migration is idempotent |
| System store (`persistence/system.py`, `runtime/system_*.py`) | locator, metadata, writer lock | create, open, close | application | creation in several durable steps, errors and crashes between them | a store that served once can be served again |
| Managed artifacts (`persistence/artifacts.py`) | intents, staged and promoted files, references | put, reference, recover | session import, results | files and database are not atomic together | recovery removes only what nobody owns |
| Session import (`persistence/sessions.py`, `ingestion/`) | sessions, revisions, intents | inspect, import, recover | artifacts | crash at each step, repetition | one revision per content |
| Drafts and published versions (`schemes/`, `persistence/draft_repository.py`, `model_repository.py`) | drafts with snapshots and two version counters, immutable versions, the source catalog of the process | create, 15 kinds of edit, undo, redo, discard, publish, preview | sidecar, inference | references renamed by string on three paths, history cut by edits and by publication | a version names one content, a preview is what publication gives, schemes compile |
| Bayesian inference (`bayesian/`) | compiled networks | compile, observe, infer, explain | drafts, runs | factor axes, elimination order | answers are the conditional probabilities |
| JSON-RPC sidecar (`sidecar/`) | negotiated protocol, handler table | hello, dispatch, notify, shutdown | everything | notifications between responses | business calls only after the handshake |
| Desktop protocol and process host (C#) | pending requests, the child process | send, cancel, retry, start, stop | sidecar | response, cancellation and end of stream race | every request ends exactly once |
| Desktop autosave (C#) | latest draft, attempt, phase of every window; the shared canonical objects and their gates | queue, debounce, flush, retry, reload, reapply, close | protocol client, backend revisions | retry against newer edits, two windows on one node | "Saved" is true, saves stay in order |
| Desktop run view (C#) | list of runs, the run shown, busy flag | start, cancel, list, select, events | protocol client | answers and notifications overtake each other | what is shown of a run was once true of it |
| Model execution of a locked scheme (`model_workspace/execution.py`, `runtime/current_preflight.py`) | the ready report, the snapshot a run locks | preflight, lock | workspace, runs | the library changes in between | a run locks what was validated |
| Inspection and synchronization of streams (`ingestion/readiness.py`, `synchronization/`) | the readiness and the synchronization report, aligned tables | inspect, find the window, align, judge gaze, annotate, report | session import, runs | many streams in any mixture of states, rounded times, reports checked by their contracts | reports can be made, and what is aligned is what is reported |
| Views, anchors, evidence operators, contracts | data | computation | | numeric | not a model checker's subject, except what the plan names |

Sections 3 to 11 treat what is modelled, section 15 what is not, section 16 is
the plan for the rest.

## 2. Modules

| Module | Models | Composed by |
|---|---|---|
| `RunStore` | one run's row and event log: which transition `RunRepository` permits and what it leaves | `RunCoordinator` |
| `RunLifecycle` | abstract: what the runtime promises about a run's status and result | refined by `RunCoordinator` |
| `RunCoordinator` | the main thread, the worker thread, their two locks, the queue, tokens, notifications and crashes | `MCRunCoordinator` |
| `StagedEditing` | abstract: what staging promises to the expert | refined by `ModelEditSession` |
| `ModelEditSession` | the staged edit session and its file, save, discard, undo, redo, retries, import, crashes | `MCModelEditSession` |
| `ObjectHistory` | rows with two revision channels, the change log, undo and redo cursors, `Commit` of one request's events | `ModelHistory`, `CurrentWorkspace` |
| `EditTimeline` | abstract: a past and a future per object, and lives that follow each other | refined by `ModelHistory` and `SchemeDrafts` |
| `ModelHistory` | clients with copies of any age against the revision checks of `ObjectHistory` | `MCParts` |
| `ModelGraph` | pure: closure, cycles, validation, activation and deactivation plans, CPTs as edges and states change | `CurrentWorkspace` |
| `CurrentWorkspace` | every request on nodes and schemes, deactivation by confirmed impact, preparation of runs | `MCCurrentWorkspace` |
| `ContentStore` | abstract: content appears whole and is never taken back | refined by `SessionImport` |
| `ManagedArtifacts` | payload files, rows, references and intents of one project, two threads, faults | `SessionImport` |
| `SessionImport` | import of bundles and raw exports on top of it, with its own intents, trees and recovery | `MCSessionImport` |
| `StoreOpening` | creation, opening, migration, seeding, serving and closing of the system store by several processes | `MCParts` |
| `Autosave` | the autosave coordinators of several windows over one node, and the backend | `MCAutosave` |
| `JsonRpcClient` | callers, tokens, reader, write lock, host and sidecar loop of one connection | `MCDesktop` |
| `RunView` | what the run page shows while events and answers arrive | `MCDesktop` |
| `Inference` | pure: factors, minimum-fill elimination, influence, and the same answers by enumeration | `SchemeGraph`, `SchemeDrafts` |
| `SchemeGraph` | pure: the contents of a draft, its edit operations, contracts, validation, compilation | `SchemeDrafts` |
| `SchemeDrafts` | drafts with their history, publication, preview, the library of versions | `MCSchemeDrafts` |
| `SessionTime` | pure: clocks, bindings of tables to session time, metrics, gaze against frames | `SessionAnnotations` |
| `SessionAnnotations` | pure: the three annotation documents | `SessionAlignment` |
| `SessionAlignment` | inspection of a bundle, its report, synchronization and its report | `MCSessionAlignment` |
| `*_proofs` | lemmas and theorems about the module named | |
| `MC*` | model values, bounds that are functions, and symmetry for TLC | the runs |

## 3. The run core

`RunStore` has no variables. A row is a record with the state, the stage, the
timestamps (only whether they are set) and the event log of a run. For every
method of `RunRepository` there is a guard `CanX`, taken from `_apply` and from
the shape rules of `AssessmentRun.validate_lifecycle`, and a function `X` from a
row to the row it leaves. A stage consists of one unit, except evidence, which
has `NEvidence` of them; `TotalUnits` is `run_total_units`.

`RunCoordinator` has a main thread (the sidecar's request loop), with program
counter `mpc`, and a worker thread, with `wpc`. Their correspondence to the code:

| Variable | Code |
|---|---|
| `runs`, `results` | committed rows of `runs` with `run_events`, and of `run_results` |
| `tx` | the row as the open transaction of the main thread sees it (`IdempotencyStore.execute` around `run.cancel`) |
| `database` | `ProjectDatabase._lock` held across a transaction |
| `coord` | `RunCoordinator._lock` |
| `queue`, `scheduled`, `token`, `signalled` | `_queue`, `_scheduled`, the cancellation tokens, the terminal events |
| `notified` | notifications written to stdout |

Main-thread actions are named `M...`, worker actions `W...`; a worker action is
one block of code between two points where another thread can run, and takes
`coord` where the code enters `with self._lock`. A repository call of the worker
is possible only while `database` is free, and is atomic, because it opens and
commits its own transaction. `Crash` may happen anywhere, as often as
`MaxCrashes` allows; it drops everything in memory and the open transaction.
Opening interrupts the active rows (`MRecoverRun`) one by one.

What may go wrong in a history is chosen once, at its start, out of `Settings`
(`setting` never changes). `rollBack`: the transaction of `run.cancel` may fail
after the coordinator did its part, since the audit event is built and the
receipt written after the mutation. `stepClock`: the wall clock may be set back,
so that the next row is rejected by its contract; outside the `try` block of
`_execute` this ends the worker thread (`wpc = "dead"`). `cancellable`: the runs
the user may cancel. `RunLifecycle` carries along the one promise that depends
on this (`regress`, a variable that keeps its first value).

## 4. The edit session

The session is a database file of its own. `canonical` and `receipts` are in
the system library's database; `file`, `base`, `live`, `snaps`, `cursor`,
`latest` and `done` are in the session's file; `aside` is the set of workspaces
in `workspace.conflict` files. All of them are durable, `pc` is not. `asked`,
`shown` and `times` belong to the environment: what the client sent under each
transaction ID, the rows it has seen, and how often each transaction took
effect.

A node or a scheme is a row of a content and a semantic revision.
`base_fingerprint` includes revisions, so it is the workspace itself; the state
hash of `status()` does not, so it is `Contents` of it. SHA-256 is taken to be
free of collisions. One thread serves requests, so a request is one action as
far as its last durable step; save and discard are one canonical transaction
followed by `_rebuild`, which is three durable steps (`RemoveFile`,
`CreateFile`, `WriteBaseline`) with a possible crash between them. Opening
continues a compatible file, fails when its history does not pass the check of
`_open_or_rebuild`, and renames any other file to a conflict file.

`Requests(t)` lets the client send again what it sent under `t`
(`IdempotentRequestRetry` and the retry of the autosave do so), or a new request
prepared from any row it was ever shown, however old. `ChangeOutside` stands for
another writer of the library. In the product the writer lock of the system
store excludes a second process; the check at save exists for this case and is
modelled with it.

Layout and the events of single objects are left to `ModelHistory`, the
validation of edits to `CurrentWorkspace` (a validation error is a refused
request that changes nothing), the migration of old content to `StoreOpening`.

## 5. The current workspace

`ObjectHistory` holds what both modules about the library rest on. A row has a
value with a semantic and a layout revision, a head cursor and a redo cursor; the
log is the table of change events, and an event is named by its place in it.
Undo and redo write the old snapshot under *new* revisions (`Restored`, from
`_apply_snapshot`), which is what makes comparing revisions worth anything.
`Commit` applies the events of one request as one transaction.

`ModelHistory` lets clients act on copies of any age. A client holds what it was
last answered; the request names the revisions of that copy for the channels it
edits. `Past` and `Future` read an object's own history out of the shared log,
and are the refinement mapping to `EditTimeline`: however the events of objects
interleave, undo and redo of one object walk its own changes.

`CurrentWorkspace` has a request per method of `CurrentModelWorkspaceService`
that changes something: nodes are created, copied, replaced, archived, given
edges and states; schemes are created, copied, changed, activated, deactivated,
archived; graph batches; undo and redo of each. A request computes the new
contents with the operators of `ModelGraph`, and revalidates each active scheme
whose closure it touches. Two things outlive their request and are what the
properties are about: the impact of a deactivation, confirmed later by its hash,
and the ready report of a scheme, used later to lock a run. Probabilities are one
name out of a few tables, recipes one Boolean, hashes are the contents. Event
kinds `"cascade"` and `"deactivate"` stand for UPDATE events with that
`mutation` in their metadata.

## 6. The project's content

`ManagedArtifacts` takes a put apart into the steps between which a crash, an
error or another thread can come: intent row, staging file, promotion by rename,
registering transaction, tidying up. Each thread (requests, worker) has a program
counter; a transaction is atomic but for a `COMMIT` that fails, which leaves it
open (`stuck`), because `connection.commit()` is outside the `try` block of
`database.py`. Recovery is a loop over intents and files. `SessionImport` extends
it with the import: copy of the external folder, inspection, report, intent,
promotion of the tree, one idempotent transaction, and its own recovery, which
also runs before every import and after every failed one, beside the worker. The
external folder may change at every step (`Content` is what it may hold). What a
manifest contains is the identity of a bundle; annotations of a raw export are
separate, because the code reads them separately. `ContentStore` says what this
promises, without files, intents or recovery, and `ImplementsStore` maps to it.

A crash is one of the process: what was renamed stays renamed, what was committed
stays committed. No lock keeps two processes from one project; one is assumed.

## 7. Opening the system store

`StoreOpening` follows `open_or_create`, `create`, `open`, the migrations, the
composition in `system_application.py` (content migration, two seeds, the draft
of the last session) and `close`, one durable effect per step, for several
processes and packages of starter content. What is on disk is one record. `Fail`
is an I/O error at the step a process is at, `Crash` its end; both are possible
everywhere. The draft is known by the content its base fingerprint names, which
is what startup accepts or rejects.

## 8. Autosave

Everything in `Autosave` runs on the UI thread, so an action goes from one await
to the next; an await that has been answered but not resumed is a state of its
own. Cancelling interrupts those that wait; a semaphore that was granted, like an
answer that arrived, is not taken back (`Granted`), and such a task finds its
token cancelled at its next await. `form` is a window with its coordinator, `tasks` the activities started
(debounce, flush, close, retry, reapply), `drains` and `gate` the two semaphores,
`attempts` the save attempts by transaction ID, `wire` and `log` the backend: a
request may be served, its answer lost, refused for its revision, or never
arrive. Revisions of the node stand for the node. `wanted` is a history variable of the
properties.

## 9. The connection and the run view

`JsonRpcClient` models one connection from its handshake to the end of the
process: where each `InvokeAsync` is, its completion source, `_pending`,
`_cancelledRequestIds`, the write lock, the reader, the monitor, `StopAsync` and
`DisposeAsync`; an action is one operation on a concurrent dictionary, a stream
or a semaphore. A write cut between its payload and the newline leaves `torn`,
and the next request joins it as `Glued`. The sidecar serves one line at a time.

`RunView` models what the user sees of a run that is started, cancelled, listed
and selected. Notifications reach the UI in order; the answer of a call arrives
through the thread pool, whenever that gets to it. `shown` is
`RunWorkspaceState`, `items` the list, `log` the true history of every run.

## 10. Drafts, publication and inference

Before the current workspace there were drafts, and the sidecar still serves
them. `SchemeGraph` has what a draft contains: pinned versions, candidates with a
body of their own, the edges it shows by their identifiers, the outputs. An
identifier is what a client calls the edge, or stands for the hash of the ends an
edge had when the draft was made from a scheme; two edges may have the same ends. `Applied` is
`apply_scheme_operation`: an operation gives the set of graphs it leads to, which
is empty when it is refused. A component is known by its kind and identifier,
since the code keeps both, and renaming goes by the identifier alone, since
`_replace_strings` does. All kinds share one record for their bodies. `Contract`,
`Annotated`, `Executable` and `Compiles` are the four places where the code judges
a model: the contracts, the annotation of a draft, the validation of a scheme
before preview and publication, and `InferenceEngine.compile`, which trusts none
of them.

`SchemeDrafts` has one action per request. A draft carries its snapshots, its
transitions and a cursor between them, and the two version counters that a client
has to name; `Saved`, `Travelled` and `Publish` are the three ways they change.
Publication takes identifiers that no version has: the library refuses one that is
taken. A
preview changes nothing: it is `Previewed` and `PreviewNetwork`, over the same
`Accepted` as publication but under the candidates' own names. `catalog` is the
set of sources the process read when it was composed (`Reopen`). The refinement
mapping to `EditTimeline` reads the past and the future off the snapshots;
publication and discarding begin another life of the draft.

`Inference` computes with natural weights over a common total, so that "equal" is
exact and nothing has to be normalized: rounding and underflow are abstracted.
The code breaks ties of the minimum-fill rule by name; the model follows every
choice, and all of them must give what enumeration of the joint distribution
gives. A row of a CPT is found by the row-major index of its parents' states
(`RowOf`), in the reference by counting the combinations that come before it.

Not in these modules: two inputs of one Evidence from the same source (an input is
known by its source), rules about modalities and task semantics, warnings, the
hashes that pins carry, and cloning a component of kind scheme. Recipes, scoring,
reporting rules and positions are one field, `data`.

## 11. Preparing a session

`SessionTime` is the arithmetic: a source timestamp (counted in `1/Grain`
nanoseconds) becomes a session nanosecond by one exact product and sum, rounded
half to even once. It has the three bindings of the catalog (points, intervals,
rows that inherit the time of a parent), the order the code walks a stream's
tables in, the metrics of the report, and which frame a gaze sample falls to.
`SessionAnnotations` has the phases, events and baselines, in either schema, and
the gaps between phases.

`SessionAlignment` goes through a bundle the loader has accepted: the streams are
inspected one by one (X and U together when they share a file), gaze is related
to the scene, the report is made and checked by its own contract; then the clocks
of the ready streams are compared, X gives the window, every stream is aligned or
fails alone, gaze is judged against the frames, the reference must reach into the
window, the annotations are read, and the second report is made. What the tables
hold is chosen when a stream is inspected (`Contents`), what the documents hold
when they are read (`Documents`), because the code reads them only then. A report
its contract refuses is `"raised"` in the inspection and `internal` afterwards,
as in the code.

The 28 digits of `Decimal` are treated as exact, which they are for the clocks
the contract admits. The issue for a binding the catalog does not have cannot be
reached and is left out. A reference of the model bundle is put off by the code
and takes no part.

## 12. Runs

All bounds are in the `.cfg` files and the `MC` modules.

| Run | Instance | Question and answer |
|---|---|---|
| `runs` | 2 runs, 1 crash; either both cancellable and no fault, or rollbacks, clock steps and one run left to itself | Under every interleaving of start, cancel, close, crash and worker: results match outcomes; the event log is sound; no scheduled run is lost; what was told is true (events of a run nobody cancels are durable, who is released finds a terminal run); the whole implements `RunLifecycle`. |
| `run_progress` | 2 runs, one cancellable, one evidence unit, fair threads | Scheduled runs finish, cancellation takes effect, `project.close` returns, each unless the two locks are taken in opposite orders. |
| `run_cancel_deadlock` | 1 run | Violation: `run.cancel` holds the database lock and waits for the coordinator lock; the worker holds that and waits for the database lock. Neither moves again. |
| `edit_session` | 2 objects (one in the starter library), 2 contents, 3 requests each sent any number of times, 1 import, 1 outside change, 2 crashes | Opening succeeds, a clean session shows what runs read, a request takes effect once, a save overwrites nothing, and the whole implements `StagedEditing`. |
| `parts` | History: 1 object, 2 clients, 2 proposals that differ in both channels, 6 events. Opening: 2 processes, 2 packages, 2 migrations, 4 starts, new stores and stores of an earlier version. | A revision names one content, every change was made knowing what it replaced, the object implements `EditTimeline` (that the cursors are sound is proved). A store that served once can be served again, whole, with its identity and its draft. |
| `workspace` | 4 nodes and a scheme, one free node and one free scheme, 3 change events | Schemes shown as executable are, archiving deactivates, a deactivation does what was shown, a run locks what was validated and can be executed. |
| `project_store` | 2 transactions, 2 bundles, 1 raw export, 1 report of the worker with the bytes of another, 1 fault | Registered content is kept and held, revisions can be used, recovery leaves nothing behind, and the whole implements `ContentStore`. |
| `scheme_drafts` | a starter of three variables (two and three states, a CPT with two parents), 1 draft, versions up to 3, one publication, edges removed, added and doubled, 13 sets of observations | A draft's versions tell its contents, its history implements `EditTimeline`, a preview is accepted when publication is and answers from the same network, every scheme compiles, the answers for a published scheme are exact. |
| `session_alignment` | 5 core streams and an optional reference, 25 manifests, up to 8 tables a stream, 9 sets of documents, `Grain` 2, a window of at most 9 | Whatever the mixture of streams: the report can be made, exactly the streams it calls aligned are handed on, whole, streams of one clock share one time, gaze lies where its frame is shown, phases and gaps tile the session. |
| `readiness_report` | the same with a reference that is not applicable | Violation: the inspection makes a report that its contract refuses. |
| `autosave` | 2 windows; one alone with 2 edits and 4 activities, the other 1 and 2, both together 3 activities | "Saved" is true, saves stay in order, an applied save is never reported as refused, a queued edit is taken up. |
| `desktop` | Calls: 2, one cancellable, and the shutdown. View: 1 new run, 1 old one, 3 calls, 2 progress events | Everyone who calls hears of it. Every state the view shows of a run is one it was in. |

`parts` and `desktop` hold two models each that share nothing: `part`, chosen at
the start, says which of them moves, so that the behaviours are those of the two.

Why the bounds are enough for the interesting cases.

- Runs: two are needed for one to wait in the queue while the other is active,
  and for close to find both. One crash meets every step, the second opening
  included.
- Edit session: three requests are an edit, an undo and an edit that cuts the
  redo branch, or two edits and a save. A second crash can come during recovery.
- Histories: six events are a creation, two edits, two undos and the redo that
  must use the cursor the second undo kept. One object suffices, since `Commit`
  leaves the others alone, which the proofs show for any number. Fetching a copy
  that no further write could use is cut off (`Fetch`).
- Workspace: three events reach an edit under a held impact or report and the
  confirmation after it. The starter has what the rules tell apart: evidence on
  a raw input and a BN node, and a BN node that is explicit by itself.
- Project store: one fault meets every step of every put, import and recovery,
  and recovery after it is checked to be complete. Two bundles of one session
  with different participants, a raw export whose folder changes, and a payload
  two threads share are the collisions the code distinguishes.
- Drafts: requests are lists of operations, so a batch that clones all kinds in
  either order, with another policy staged, is one step. Three versions leave room
  for the clone, an edit of the clone and its undo or redo, then publication, and
  the edits of the published draft that the versions still allow. A network whose
  child has a parent with two and one with three states tells row-major from
  column-major, and leaves one or two variables to eliminate.
- Store opening: four starts are a first creation that breaks, a race of two, and
  one more of either after it.
- Sessions: two source ticks per nanosecond make every second time a half that is
  rounded to even, in both directions. Tables of two or three rows are late, early,
  unordered after rounding, torn, or too short; four clocks are exact, shifted,
  drifting and badly declared, two streams disagree about one, and each manifest and
  each set of documents departs from the usual one in one respect.
- Desktop: a cancelled call beside one that cannot be, an edit in one window
  during the save of another, and three calls for a run that is started,
  cancelled or listed, and looked up. That what is shown was so is proved for any
  number of calls.

Symmetry is used in safety runs only, for runs, transaction IDs, contents,
clients and proposals. `CHECK_DEADLOCK FALSE` is set where the process may have
ended for good or a bound is used up, and, in `run_cancel_deadlock`, where the
deadlock itself is what is looked for.

### Fairness

`run_progress` has strong fairness of the main thread's steps within a request
and of the worker's steps. The two are operating-system threads and keep being
scheduled. Fairness is strong because a step that needs a lock is enabled only
now and then: between two requests the main thread blocks on stdin with both
locks free, so a waiting worker gets them, and a run has finitely many guarded
blocks, so the main thread does. `autosave` has weak fairness of each activity on
the UI thread, whose semaphores are queues, and of the backend: a request is
served or the call fails, since `JsonRpcClient` shows that every call returns.
`desktop` has weak fairness of each caller, of the reader, of the host and of
the sidecar's loop, and of the timeout that cancels the shutdown. Nothing obliges
a user or a client to do anything, and no crash or fault has to happen.

## 13. Known disagreements

Found by reading or by a model against a document, a comment or a test of the
repository. Where a property below is stated with an exception, this is it. Some
are also stated in their module as a formula that the code violates, which no run
checks: its name is in brackets.

Runs. `run.cancel` against a busy worker deadlocks (`run_cancel_deadlock`). It
notifies before its transaction commits (`coordinator.py:172`), so after a
rollback the client knows an event that does not exist and waiters of a queued
run are released (`NotifiedIsDurable`); `ReportedIsDurable` is about runs that are not cancelled. A run
that is queued when the process dies stays queued (`repository.py:474`; `OpenLeavesNoRunPending`). A row
rejected because the wall clock went back ends the worker, and the runs queued
behind it are never executed (`coordinator.py:245`; `QueuedRunsExecute`).
The runtime design draws `cancelled` as the only successor of `cancelling`;
`complete` and `fail` accept a cancelling row, and `RunLifecycle` allows it.

Edit session. An edit sent again after a save is executed again, its receipt was
in the removed file (`edit_session.py:467`). A save sent again is answered from
its receipt and still rebuilds the session, without the edits made since (`:871`;
`RepeatKeepsEdits`).
Undo of the session restores old revision numbers (`:519`), unlike undo of an
object, so that a stale edit can pass (`StaleEditRefused`). `EffectOnceInSession` ends with the session for this reason.

Workspace. Archiving leaves an archived node in a closure that was not current
(`service.py:1377-1491`, against D-086 in `DECISIONS.md:635`; `ArchivedIsInactive`). Undo of a scheme
restores its status without validating it. `ArchiveDeactivates` therefore speaks
of schemes whose closure was current, and `ExecutableIsCurrent` of those whose
status a validation wrote last (`StatusIsFresh`): not of one that undo or redo put
back, or that the cascade of an archival left, until it is validated again, which
a move on the canvas does not do. The proof attempt found this boundary. An
earlier form took a scheme in as soon as its last event was neither, and a move
after an undo, one event beyond the bound of the run, would have refuted it.

Content. A `COMMIT` that fails leaves its transaction open (`database.py:165`) and
every transaction after it, `project.close` included, is refused. An import of a
raw export reads the annotations from the external folder after it verified its
copies (`raw_session.py:256`; `ImportedAsInspected`). A put that fails while tidying leaves a bound
reference that the cleanup does not know. Opening or creating a project that
fails writes `clean_shutdown = 1`.

Opening. A first creation that is cut between the staging directory and the
metadata row leaves a root that no start accepts (`system.py:257`); `create` only
releases the lock when it fails. A composition that fails closes the store as
clean, so that an earlier unclean end is not reported. `starter_seed_hash` is
never compared with the package that seeds: a creation cut before seeding can be
seeded by another package, and the right one is then refused. The loser of a race
to create gets `AlreadyExists` for a healthy store.

Drafts. Publication replaces every candidate and starts the history anew but keeps
`graph_version` and `layout_version` (`schemes/service.py:784`), so that a client
with a copy from before it passes the check the protocol design
(`07_RUNTIME_PROTOCOL_DESIGN.md:179`) describes; `VersionsTellContents` excepts
it. A clone that does not replace its source still redirects the edges and
outputs to the clone. A staged component, a new recipe, or a version added after
a clone leave the edges that the draft shows different from those that are
published. A candidate with the name of a stored version of its kind makes the
preview fail as a duplicate while publication works (excepted in
`PreviewForetellsPublication`). The source catalog is read once
(`system_application.py:351`): a scheme that keeps a source published since is
refused until the next start although the draft is shown as executable.

Autosave. `FlushAsync` and the close of a window cancel a save that is waiting or
in flight, with `_pending` already false: the edit is abandoned, against the
plan of 2026-07-17 (m7b, :576). A save is rebased on the shared store's newer object, so
that another window's unseen edit is overwritten. A cancelled task that had its
answer or its semaphore already takes the newer draft and then fails at its gate,
or fails in the call it was about to make: the phase stays "Saving". Retry works outside the drain gate, and with Reapply in between it can
drop a newer draft or bring an older one back. A blocked window may have no
button left. `SavedIsSaved` is therefore about windows without a retry; a window
whose save was cancelled does not say "Saved" before a later save.

Connection. `CancelPending` removes from `_pending` before it adds to
`_cancelledRequestIds`, and `HandleResponse` looks in the other order: an answer
in between kills the reader. A write lock disposed of under a waiting caller
leaves it for ever (excepted in `EveryCallReturns`). A write cancelled between
payload and newline joins the next request to it, and the error response without
an ID ends the reader.

Session. A bundle whose task reference is declared not applicable cannot be
inspected: the service calls it ready and the contract degraded
(`readiness_report`, `readiness.py:622`). A fixation of no length passes the
adapter and fails the whole gaze stream in synchronization. Two frames that round
to one nanosecond leave the earlier one shown for no time. An optional scene that
fails makes every gaze sample of the session invalid, so that a required gaze
stream blocks it.

Run view. An answer that is older than events already shown moves the view back,
against the "monotonic progress" of the plan (m7b, :650). `CancelAsync` reads the
result ID after its await from whatever run is selected then: a cancelled run is
shown with another run's result (`RunsViewModel.cs:243`). `UpsertRun` resets the
completed units after every event, so progress is never shown.

## 14. Proofs

`RunCoordinator_proofs` proves, for any finite or infinite set of runs, any
number of units and crashes and every set of settings:

- `Invariance`: `Spec => []InductiveInvariant`,
- `TypeCorrect`, `OneActiveRun`, `HistoriesSound`: type correctness,
  `SingleActiveRun` and `EventLogSound` as consequences,
- `TerminalRowsFinal`: `Spec => TerminalIsFinal`.

The assumptions are those of the modules (`NEvidence` is a natural number,
settings have the shape above, `None` and `Stop` are no runs). `SingleActiveRun`
and `TerminalIsFinal` are proved and need no run of their own: `RunLifecycle`,
which a run checks and `LifecycleImplemented` proves implemented, has both.

`SingleActiveRun` is not inductive: a step that starts a run keeps it only if no
other run is active at that moment. The reason is a chain. The row a worker may
start is queued and is the one in its hands; an active row is always the one in
the worker's hands (`ActiveRunIsOwned`), past its start; the worker has one run
in its hands and reaches `start` only without one it has begun. That needs what
each position of the worker may rely on although the main thread changes rows
between its blocks (`WorkerPosition`), that the worker's database calls and the
main thread's transaction exclude each other (`LocksHeld`), what an open
transaction may contain (`OpenTransaction`), that only existing runs are
scheduled (`ScheduledExist`), and, for the event log, that the worker's unit
count agrees with the newest event (`ProgressAgrees`). The module begins
with the facts about single transitions: the row that `_apply` leaves, and that each
permitted transition keeps the history sound.

It goes on from there to what runs come to:

- `OutcomeInvariance`: `Spec => []OutcomeInvariant`,
- `ResultsMatchOutcomes`, `NoRunLost`, `ToldTrue`: `ResultMatchesOutcome`,
  `NoScheduledRunIsLost` and `ToldIsTrue` as consequences,
- `LifecycleImplemented`: `Spec => ImplementsLifecycle`, the refinement of
  `RunLifecycle`.

A result is a row of its own, written before the row of its run is completed, so
what matters is what the worker may conclude at each position about the result of
the run in its hands (`ResultInHand`); the only way to a failed run with a result
is a completion that a clock stepping back has rejected. `StepRefines` shows that
every step moves one run along the abstract state graph or leaves the durable
state alone, and the results follow from the moves. A run is never lost because
one that is scheduled and still queued is in the queue once or in the worker's
hands (`QueueStep`). What was told stays true because logs only grow (`LogsGrow`)
and a terminal event is set only for what is, or is about to be committed as,
terminal (`SignalIsEarned`); this needs that a rolled-back withdrawal is not
among the settings, which the property says too.

`RunView_proofs` proves `Invariance` and `ShownRecorded`
(`Spec => []ShownIsRecorded`) for any number of runs, calls and progress events.
The history of a run only grows (`Later`), so an answer or event that told of a
state the run was in keeps doing so on its way (`InformedCall`, `Message`,
`RecordedEvent`), however late it is shown.

`ModelEditSession_proofs` proves, for any objects, contents and transaction IDs
and any number of imports, outside changes and crashes:

- `SessionInvariance`: `Spec => []InductiveInvariant`,
- `HistoryStored`, `OpeningAlwaysSucceeds`, `CleanIsCanonical`,
  `EndsTakeEffectOnce`: `HistoryIsStored`, `OpeningSucceeds`,
  `CleanShowsCanonical` and `EndsOnce` as consequences,
- `SavesOverwriteNothing`: `Spec => SaveOverwritesNothing`.

The assumptions are those of the module (`SessionAssumption`, `NoneAssumption`:
the starter objects are objects, the markers are no values, the bounds are
natural numbers).

`OpeningSucceeds` speaks of the file a crash leaves, so the invariant has to say
what the file holds at each position of the three steps that rebuild it
(`FileInPlace`) and what a file of a session holds (`HistoryIsStored`,
`SnapshotsAgree`). The step that needs an argument is the edit.
`capture_checkpoint` deletes the redo branch first, and then records nothing when
the workspace equals the current snapshot; on that path `latest_sequence` would
be left pointing behind a deleted snapshot and the next opening would fail.
`EditChangesRow` shows that an edit which passes its revision check always moves
the revision on, so the path is never taken. A save overwrites nothing because
it requires the baseline to be the library (`base = canonical`), and the first
snapshot is the baseline; what an import adds meanwhile was absent from it
(`BaselineIsOlder`). A save or discard takes effect once because its receipt is
written in the canonical database with it and is never removed
(`EndsAreReceipted`), unlike the receipts of edits.

A second invariant on top of that one is about edits and the draft:

- `StagingInvariance`: `Spec => []StagingInvariant`,
- `EditsTakeEffectOnce`: `Spec => []EffectOnceInSession`,
- `DraftsImplemented`: `Spec => ImplementsDrafts`, the refinement of
  `StagedEditing`.

Until the session is rebuilt, an edit that took effect has its receipt in the
session file (`EditsAreReceipted`), and the file is of a session exactly when it
can hold one (`ReceiptsInFile`). For the refinement, the library that unsaved
edits belong to is still the current one unless it was changed behind the session
(`DraftsAreCurrent`); opening, rebuilding, requests, changes of the library and
the ends of a session each refine a step or a stutter of the draft.

`ModelStore_proofs` is about the two modules of the store of models. Of
`ModelHistory` it proves, for any objects, clients, contents and proposals and a
log of any length:

- `Invariance`: `Spec => []InductiveInvariant`,
- `TypeCorrect`, `RevisionsNameContents`, `CursorsSound`: type correctness,
  `RevisionNamesContent` and `CursorsAreSound` as consequences,
- `EditsInformed`: `Spec => EditsAreInformed`,
- `TimelineImplemented`: `Spec => ImplementsTimeline`, the refinement of
  `EditTimeline`.

The assumptions are `ProposalAssumption` and `AbsentAssumption` (proposals have
the shape of contents; the marker of no row is no value). Every request that
changes something commits one event, so the proof is in three parts: what
`Commit` leaves (`CommitOne`), which events the four requests make (`Fits`), and
that committing an event that fits keeps the invariant (`CommitKeeps`). That two
snapshots with one revision have one content is not inductive, since nothing
relates the revision a commit assigns to those in the log. `LogIsOlder` does: no
snapshot is ahead of its object, and one with the object's revision shows what
the object shows (`Older`). The same of the copies clients hold (`HeldIsOlder`)
is why a revision check proves that the client saw what it replaces. The cursors
need the shape of the log: heads are edits (`HeadsAreEdits`), the parent of an
edit is an edit that shows what it replaced (`ParentSound`), and an undo keeps
pending the redo of the edit that followed (`UndoSound`).

The timeline is the refinement mapping with recursion in it: what undo and redo
would still bring back are recursive functions along the log (`Past`, `Future`).
That such a function exists and is the only one is an induction, which is done
without the library's induction theorems: a set of numbers has a least element
(`LeastNumber`), and a set that holds zero, and a number whenever it holds the
earlier one that this refers to, holds all (`AllUpTo`). Events refer to earlier events, so both functions exist
(`RecursionExists`, `BackEquations`, `AheadEquations`), and appending to the log
does not change them at the old events (`RecursionUnique`, `HistoriesStay`). Then
a change cuts the future of its own object, undo and redo move one entry across,
and other objects stutter.

`SessionImport_proofs` proves, for any threads, puts, folders and contents and any
number of faults and crashes:

- `Invariance`: `ImportSpec => []InductiveInvariant`,
- `PayloadsKept`, `RevisionsUsable`, `TreesAccounted`: `PayloadKept`,
  `RevisionUsable` and `TreesAreAccounted` as consequences,
- `RecoveryCleans`: `ImportSpec => RecoveredClean`,
- `StoreImplemented`: `ImportSpec => ImplementsStore`, the refinement of
  `ContentStore`.

The invariant has two layers. That of the artifacts says what a put, of any
thread, may rely on at each step (`PutsAreSound`), that no assessment holds what a
revision holds (`RevisionsHoldTheirOwn`), and how far a recovery has come
(`RecoveryIsSound`). That of the imports says the same of the import and its
cleanup: what is in the tree and final directories for each intent, that at most
one import has its intent stored (`IntentsAreSingle`), and what an open transaction may
contain (`OpenWritesAreSound`). A step of another thread keeps it because rows
only appear. The assumptions are the shapes of the constants, that a transaction
ID belongs to one thread, and `RevisionsBindThemselves`: `put_bytes` binds runs,
preflights, results or nobody, and the reference of a session revision is written
by its import alone (`sessions.py:722`). In the refinement, what is stored are
the registered artifacts and what is imported are the registered revisions.

`CurrentWorkspace_proofs` proves, for any finite set of nodes and schemes, any
starter library and drafts that satisfy the contracts, and a log of any length:

- `Invariance`: `Spec => []WorkspaceInvariant`,
- `TypeCorrect`, `CursorsSound`, `ExecutableSchemesAreCurrent`,
  `RunsLockTheValidated`: `TypeOK`, `CursorsAreSound`, `ExecutableIsCurrent` and
  `RunLocksTheValidated` as consequences,
- `DeactivationsAreExact`: `Spec => DeactivationIsExact`.

What is stored about a scheme was computed from the nodes of one moment, and the
argument is that every request recomputes it where it has to. `Closure` iterates
as often as there are nodes; by counting, that many steps saturate
(`Saturation`), so the closure is the least set with the explicit nodes and the
parents of its members (`ClosureIsLeast`). It and the errors of a scheme then
depend on the contents of its own members only (`ClosureIsLocal`,
`ErrorsAreLocal`), so a request that writes other nodes cannot make the stored
status wrong, and each request validates every active scheme that has a written
node among its members. One lemma per request shows this of every scheme
(`Argued`), and `StatusKept` turns it into the invariant. A run locks an
executable graph because the report it was confirmed against says so of the very
contents it holds (`ReportSound`), and the run is refused unless they are the
current ones. Of deactivation, the descendants along the active edges are the
members whose own closure contains the node (`DescendantsDepend`), which is what
makes the removal exact. The cursors rest on links between events, as in
`ModelHistory` (`EventsLinked`), here under requests that commit many events.
The assumptions are `WorkspaceAssumption` (nodes and schemes are finite, disjoint
and all objects there are), `DraftAssumption` (what a client submits was parsed
by the contracts) and `StarterAssumption` (the installed library satisfies them).

Of `StoreOpening`, `ModelStore_proofs` proves, for any processes, starter
packages, number of migrations and starts, and any crashes and I/O errors:

- `StoreInvariance`: `StoreSpec => []StoreInvariant`,
- `AlwaysStartsAgain`: `StoreSpec => []StartsAgain`.

The lock leaves one process past the door (`OneOwner`). What it may rely on at
each position (`Position`) is told apart from what any process may leave on disk
(`DiskSound`): a metadata row is that of the locator and of the first store that
served, the two seeds are of one package, and an old draft that the startup has
not rebased is still recognised, because either the content is old too or the
migration has left its events. That a refusal was justified speaks of a process
that stopped at it while others go on, so the cause is part of the invariant
(`Cause`): a root without a metadata row stays one, as creation refuses it and
opening does too.

`Autosave_proofs` proves, for any set of windows and any number of edits,
activities, losses and refusals:

- `DeliveryInvariance`: `Spec => []Delivery`,
- `SavesRepeatSafely`: `Spec => []SavesAreRepeatable`,
- `SavedMeansSaved`: `Spec => []SavedIsSaved`.

No task ever knows that it is the only one that saves. It follows from the two
semaphores: an attempt is made by the holder of its window's drain gate and gets
its base from the holder of the write gate, and both keep their gate until the
answer (`FlightSound`), so an unprepared attempt is the newest of its window, is
prepared after all older ones were answered, and an older one that was not
applied rests on a revision the backend has left behind (`BackendSound`). A retry
holds no drain gate; it brings an attempt that is prepared already
(`KeptAttempt`). An answer stays true between its arrival and the task's turn
(`AnswerTrue`). `Drafts`, on top of it, says that with nothing pending the draft
being saved is the one wanted; it holds of a window until its first retry, and
that is why the property ends there.

`SchemeDrafts_proofs` proves, for any library, starter schemes, drafts and lists of
operations and any number of publications:

- `SchemesAlwaysCompile`: `Spec => []SchemesCompile`,
- `DraftInvariance`: `Spec => []DraftInvariant`,
- `VersionsAlwaysTell`: `Spec => VersionsTellContents`,
- `TimelineImplemented`: `Spec => DraftsAreTimelines`, the refinement of
  `EditTimeline`.

`StarterAssumption` says that the engine compiles the installed schemes, which
`test_hover_starter_package.py` requires of the package; `WholeAssumption` says
that weights have a common total. That a published scheme goes on compiling is a
matter of locality: compilation reads the pinned versions and nothing else
(`CptValid`, `Acyclic` and the rest each have their lemma), and publication adds
versions under identifiers and never replaces one. That it compiles at all
follows from the validation that `Accepted` demands. `DraftInvariant` says that a
draft shows the snapshot at its cursor, and that every transition beside which
the meaning differs is marked as one of the graph (`Tells`); without the second
part, undo could bring old contents back under the `graph_version` they were
edited away from. A list of operations in which all move positions leaves the
meaning alone (`MovesKeepMeaning`, by least numbers over the list). For the
refinement, each of edit, undo and redo has a lemma on what it makes of past and
future (`SavedTimeline`, `UndoneTimeline`, `RedoneTimeline`); publication begins
another life because the identifier of the new scheme is not taken, while the one
the draft came from is.

Model-checked only: the liveness properties (the prover has no rules for fairness
and `ENABLED` here), and the properties of `JsonRpcClient` and `SessionAlignment`.
Of `SchemeDrafts`, `PreviewForetellsPublication` and `AnswersAreExact` are
model-checked only as well: the one compares two networks under a renaming, built
by folds over the candidates, and the other is about what folds over factors
compute. The library's induction theorems take an operator as a parameter, which no installed prover instantiates,
so induction is done with least elements as above where a proof needs it; what
the numeric functions of `Inference` and the pure functions of sessions compute
for every input is checked by TLC on bounded inputs. No module declares a
RECURSIVE operator.

## 15. Not modelled, and why

- Numeric code of anchors and evidence computes with floating-point
  numbers over sample data. What it keeps is not shared and it runs within one
  unit of the worker; its orders are in the plan. Of inference, rounding and the
  generators of CPTs are left out.
- Browsing of the library of versions (`model_library/`): queries, lineage and a
  lifecycle flag that nothing else reads.
- Preflight and the materialisation of a run's inputs, but for the report and the
  snapshot that `CurrentWorkspace` has: they read, and what they write goes
  through `ManagedArtifacts`.
- The handshake, protocol versions and the dispatch table of the sidecar; a
  second connection of the desktop after the first; pipe back-pressure.
- Request hashes that do not match a receipt, and receipts that cannot be read:
  both are refused.
- What a migration does to a record, the identifier plan of an import of old
  models, the fields of contracts and schemas: data.
- Views, graph drawing, preferences, launcher, documentation and release tools:
  presentation and packaging.

## 16. Plan

1. `PreviewForetellsPublication` for any batch of operations, with the renaming of
   references as its first lemma.
2. The autosave of a window composed with the two channels of `ModelHistory`.
3. Dispatcher handshake, preflight against a changing library.
4. Pure functions against reference definitions: the migration of a CPT's parents
   against `Inference`, clock mapping, format migrations.
