-------------------------- MODULE ModelEditSession --------------------------
(***************************************************************************)
(* The staged edit session of the model library                            *)
(* (model_workspace/edit_session.py).  The expert edits a copy of the      *)
(* canonical workspace kept in a database file of its own; Save all writes *)
(* the difference back in one canonical transaction, Discard all drops it, *)
(* undo and redo move along a list of whole-workspace snapshots.  After a  *)
(* save, a discard or an import the file is removed and built again.       *)
(*                                                                         *)
(* One thread serves the requests, so a request is interrupted only by a   *)
(* crash.  The crash points are the ends of SQLite transactions and of     *)
(* file operations: the canonical commit of save and discard, the removal  *)
(* of the file, its creation as a copy without session state, and the      *)
(* insertion of the session state.  Requests carry a transaction ID and    *)
(* may be sent again; receipts of edits are kept in the session's file,    *)
(* those of save and discard in the canonical database.                    *)
(*                                                                         *)
(* A node or scheme is a row of content and semantic revision.  Layout,    *)
(* the event history of an object and the validation of edits are not      *)
(* modelled here, nor is the migration of old content formats.             *)
(***************************************************************************)
EXTENDS Integers, Sequences

CONSTANTS
  Object,       \* node and scheme identifiers
  Starter,      \* those that exist in the canonical library at first
  Content,      \* what a node or scheme may say
  Absent,       \* the content of an object that does not exist
  Tx,           \* transaction IDs the client may use
  Kinds,        \* the kinds of request it sends
  MayRepeat,    \* whether it sends a request again
  MaxImports,   \* bound on imports of old projects
  MaxOutside,   \* bound on changes made to the library behind the session
  MaxCrashes,   \* bound on crashes
  None          \* a transaction ID that was not used yet

AllKinds == {"edit", "undo", "redo", "save", "discard"}

ASSUME SessionAssumption ==
  /\ Starter \subseteq Object
  /\ Content # {} /\ Absent \notin Content
  /\ Kinds \subseteq AllKinds
  /\ MayRepeat \in BOOLEAN
  /\ MaxImports \in Nat /\ MaxOutside \in Nat /\ MaxCrashes \in Nat

VARIABLES
  canonical,   \* durable: the canonical workspace
  receipts,    \* durable: save and discard requests with a receipt
  file,        \* durable: the session's file: missing, partial or session
  base,        \* in the file: base_fingerprint, the workspace it was built from
  live,        \* in the file: the workspace being edited
  snaps,       \* in the file: the snapshots, snaps[k + 1] numbered k
  cursor,      \* in the file: number of the current snapshot
  latest,      \* in the file: latest_sequence
  done,        \* in the file: edits, undos and redos with a receipt
  aside,       \* durable: workspaces in workspace.conflict files
  pc,          \* what the process does next
  asked,       \* the request the client sends under each transaction ID
  shown,       \* rows of each object the client has been shown
  times,       \* how often each transaction took effect
  imports,     \* imports so far
  outside,     \* changes made behind the session so far
  crashes      \* crashes so far

fileVars   == <<file, base, live, snaps, cursor, latest, done>>
clientVars == <<asked, shown, times>>
counters   == <<imports, outside, crashes>>
vars == <<canonical, receipts, fileVars, aside, pc, clientVars, counters>>

Row       == [content : Content \cup {Absent}, rev : Nat]
NoRow     == [content |-> Absent, rev |-> 0]
Workspace == [Object -> Row]
Empty     == [o \in Object |-> NoRow]

(* An edit names the object, the row it was prepared from and the content  *)
(* it proposes; the other requests carry nothing but their ID.             *)
Request ==
  [kind : {"edit"}, object : Object, seen : Row, content : Content]
    \cup [kind : AllKinds \ {"edit"}]

ASSUME NoneAssumption == None \notin Request

(* Effects of one transaction are counted up to here.                      *)
MaxTimes == 2

(* _workspace_fingerprint without revisions: two workspaces say the same.  *)
Contents(w) == [o \in Object |-> w[o].content]

(* status().dirty compares contents, so an edit that was taken back by     *)
(* hand leaves the session clean.                                          *)
Dirty == Contents(live) # Contents(base)

-----------------------------------------------------------------------------
Init ==
  \E c \in Content :
    /\ canonical = [o \in Object |->
                      IF o \in Starter THEN [content |-> c, rev |-> 0] ELSE NoRow]
    /\ receipts = {} /\ aside = {}
    /\ file = "missing"
    /\ base = Empty /\ live = Empty /\ snaps = <<>> /\ cursor = 0 /\ latest = 0
    /\ done = {}
    /\ pc = "down"
    /\ asked = [t \in Tx |-> None]
    /\ shown = [o \in Object |-> {}]
    /\ times = [t \in Tx |-> 0]
    /\ imports = 0 /\ outside = 0 /\ crashes = 0

-----------------------------------------------------------------------------
(* Opening the system application: _open_or_rebuild.                       *)

Open ==
  /\ pc = "down"
  /\ pc' = "opening"
  /\ UNCHANGED <<canonical, receipts, fileVars, aside, clientVars, counters>>

(* The file carries a session of this canonical workspace.                 *)
Compatible == file = "session" /\ base = canonical

(* The check made before such a session is continued.                      *)
HistoryUsable ==
  /\ cursor < Len(snaps) /\ latest < Len(snaps)
  /\ snaps[1] = canonical
  /\ snaps[cursor + 1] = live

(* Mutant of Recover: the session is continued without its receipts.       *)
RecoverForgetful ==
  /\ pc = "opening"
  /\ Compatible
  /\ pc' = IF HistoryUsable THEN "idle" ELSE "down"
  /\ done' = {}
  /\ UNCHANGED <<canonical, receipts, file, base, live, snaps, cursor, latest,
                 aside, clientVars, counters>>

(* A compatible session is continued; opening fails when its history does  *)
(* not pass the check.                                                     *)
Recover ==
  /\ pc = "opening"
  /\ Compatible
  /\ pc' = IF HistoryUsable THEN "idle" ELSE "down"
  /\ UNCHANGED <<canonical, receipts, fileVars, aside, clientVars, counters>>

ForgetFile ==
  /\ file' = "missing"
  /\ base' = Empty /\ live' = Empty /\ snaps' = <<>>
  /\ cursor' = 0 /\ latest' = 0 /\ done' = {}

(* Any other file is renamed to a conflict file, then a new one is built.  *)
Preserve ==
  /\ pc = "opening"
  /\ ~Compatible
  /\ aside' = IF file = "session" THEN aside \cup {Contents(live)} ELSE aside
  /\ ForgetFile
  /\ pc' = "create"
  /\ UNCHANGED <<canonical, receipts, clientVars, counters>>

(* _rebuild, in three durable steps.                                       *)
RemoveFile ==
  /\ pc = "remove"
  /\ ForgetFile
  /\ pc' = "create"
  /\ UNCHANGED <<canonical, receipts, aside, clientVars, counters>>

CreateFile ==
  /\ pc = "create"
  /\ file' = "partial" /\ live' = canonical
  /\ pc' = "baseline"
  /\ UNCHANGED <<canonical, receipts, base, snaps, cursor, latest, done, aside,
                 clientVars, counters>>

Show(w) == shown' = [o \in Object |-> shown[o] \cup {w[o]}]

WriteBaseline ==
  /\ pc = "baseline"
  /\ file' = "session"
  /\ base' = canonical /\ snaps' = <<live>> /\ cursor' = 0 /\ latest' = 0
  /\ Show(live)
  /\ pc' = "idle"
  /\ UNCHANGED <<canonical, receipts, live, done, aside, asked, times, counters>>

-----------------------------------------------------------------------------
(* Requests that change the staged workspace.                              *)

(* The client sends `request' under t, for the first time or again.        *)
Send(t, request) ==
  /\ pc = "idle"
  /\ request.kind \in Kinds
  /\ asked[t] \in {None, request}
  /\ asked[t] = request => MayRepeat
  /\ asked' = [asked EXCEPT ![t] = request]

(* IdempotencyStore.execute on the session's file: a request that has a    *)
(* receipt is answered from it.                                            *)
Replay(t, request) ==
  /\ Send(t, request)
  /\ request.kind \notin {"save", "discard"}
  /\ t \in done
  /\ UNCHANGED <<canonical, receipts, fileVars, aside, pc, shown, times,
                 counters>>

(* _check_expected; a new object is created only where there is none.      *)
SameRevision(row, seen) ==
  /\ row = NoRow <=> seen = NoRow
  /\ row.rev = seen.rev

(* A revision that moved on, or history that has no state to move to: the  *)
(* transaction is rolled back.                                             *)
EditRefused(request) ==
  CASE request.kind = "edit" -> ~SameRevision(live[request.object], request.seen)
    [] request.kind = "undo" -> cursor = 0
    [] request.kind = "redo" -> cursor + 1 > latest \/ cursor + 1 >= Len(snaps)
    [] OTHER -> FALSE

Refuse(t, request) ==
  /\ Send(t, request)
  /\ t \notin done
  /\ EditRefused(request)
  /\ UNCHANGED <<canonical, receipts, fileVars, aside, pc, shown, times,
                 counters>>

(* An edit or a move took effect under t.                                  *)
Staged(t) ==
  /\ done' = done \cup {t}
  /\ times' = [times EXCEPT ![t] = IF @ < MaxTimes THEN @ + 1 ELSE @]
  /\ Show(live')
  /\ UNCHANGED <<canonical, receipts, file, base, aside, pc, counters>>

(* The row an edit leaves: every update moves the revision on by one, and  *)
(* a new object starts at revision zero.                                   *)
Edited(row, content) ==
  [content |-> content, rev |-> IF row = NoRow THEN 0 ELSE row.rev + 1]

(* Mutant of Checkpoint: the redo branch is not deleted.                   *)
CheckpointKeepsBranch ==
  /\ snaps' = Append(snaps, live')
  /\ cursor' = cursor + 1 /\ latest' = cursor + 1

(* capture_checkpoint: later snapshots are deleted; a workspace equal to   *)
(* the current snapshot is not recorded again.                             *)
Checkpoint ==
  LET kept == SubSeq(snaps, 1, cursor + 1) IN
    IF live' = snaps[cursor + 1]
    THEN snaps' = kept /\ UNCHANGED <<cursor, latest>>
    ELSE /\ snaps' = Append(kept, live')
         /\ cursor' = cursor + 1 /\ latest' = cursor + 1

(* model.node.update, model.node.create and the other edits: the mutation, *)
(* its checkpoint and its receipt are one transaction.                     *)
Edit(t, request) ==
  /\ Send(t, request)
  /\ request.kind = "edit"
  /\ t \notin done
  /\ ~EditRefused(request)
  /\ live' = [live EXCEPT ![request.object] = Edited(@, request.content)]
  /\ Checkpoint
  /\ Staged(t)

(* model.edit.undo and model.edit.redo: the rows of another snapshot are   *)
(* put back, revisions included.                                           *)
Move(t, request) ==
  /\ Send(t, request)
  /\ request.kind \in {"undo", "redo"}
  /\ t \notin done
  /\ ~EditRefused(request)
  /\ cursor' = IF request.kind = "undo" THEN cursor - 1 ELSE cursor + 1
  /\ live' = snaps[cursor' + 1]
  /\ UNCHANGED <<snaps, latest>>
  /\ Staged(t)

-----------------------------------------------------------------------------
(* Requests that end the session.  Their receipts are canonical; answered  *)
(* from a receipt or not, they are followed by _rebuild.                   *)

(* Mutant of FinalState: objects created in the session are not written.   *)
FinalStateSkipsNew ==
  [o \in Object |->
     IF live[o].content = canonical[o].content \/ canonical[o] = NoRow
     THEN canonical[o] ELSE Edited(canonical[o], live[o].content)]

(* The workspace _apply_final_state writes: what is new starts at revision *)
(* zero, what changed moves on by one whatever the number of edits.        *)
FinalState ==
  [o \in Object |->
     IF live[o].content = canonical[o].content THEN canonical[o]
     ELSE Edited(canonical[o], live[o].content)]

(* Mutant of Receipt: a replayable save leaves no receipt.                 *)
ReceiptMissing(t) ==
  /\ UNCHANGED receipts
  /\ times' = [times EXCEPT ![t] = IF @ < MaxTimes THEN @ + 1 ELSE @]

Receipt(t) ==
  /\ receipts' = receipts \cup {t}
  /\ times' = [times EXCEPT ![t] = IF @ < MaxTimes THEN @ + 1 ELSE @]

(* Mutant of Save: the fingerprint is not compared.                        *)
SaveUnchecked(t, request) ==
  /\ Send(t, request)
  /\ request.kind = "save"
  /\ t \notin receipts
  /\ canonical' = FinalState
  /\ Receipt(t)
  /\ pc' = "remove"
  /\ UNCHANGED <<fileVars, aside, shown, counters>>

(* Mutant of Save: the session is not built again.                         *)
SaveWithoutRebuild(t, request) ==
  /\ Send(t, request)
  /\ request.kind = "save"
  /\ t \notin receipts
  /\ base = canonical
  /\ canonical' = FinalState
  /\ Receipt(t)
  /\ UNCHANGED <<fileVars, aside, pc, shown, counters>>

(* model.edit.commit                                                       *)
Save(t, request) ==
  /\ Send(t, request)
  /\ request.kind = "save"
  /\ t \notin receipts
  /\ base = canonical
  /\ canonical' = FinalState
  /\ Receipt(t)
  /\ pc' = "remove"
  /\ UNCHANGED <<fileVars, aside, shown, counters>>

(* The library changed behind the session: nothing is written.             *)
SaveRefused(t, request) ==
  /\ Send(t, request)
  /\ request.kind = "save"
  /\ t \notin receipts
  /\ base # canonical
  /\ UNCHANGED <<canonical, receipts, fileVars, aside, pc, shown, times,
                 counters>>

(* model.edit.discard                                                      *)
Discard(t, request) ==
  /\ Send(t, request)
  /\ request.kind = "discard"
  /\ t \notin receipts
  /\ Receipt(t)
  /\ pc' = "remove"
  /\ UNCHANGED <<canonical, fileVars, aside, shown, counters>>

(* A save or discard that has a receipt is answered from it, and the       *)
(* session is built again all the same.                                    *)
ReplayEnd(t, request) ==
  /\ Send(t, request)
  /\ request.kind \in {"save", "discard"}
  /\ t \in receipts
  /\ pc' = "remove"
  /\ UNCHANGED <<canonical, receipts, fileVars, aside, shown, times, counters>>

(* LegacyProjectModelImporter.import_project: the objects of an old        *)
(* project join the library while the session is clean, which is rebuilt.  *)
Import(o, content) ==
  /\ pc = "idle"
  /\ imports < MaxImports
  /\ ~Dirty
  /\ canonical[o] = NoRow
  /\ canonical' = [canonical EXCEPT ![o] = Edited(NoRow, content)]
  /\ imports' = imports + 1
  /\ pc' = "remove"
  /\ UNCHANGED <<receipts, fileVars, aside, clientVars, outside, crashes>>

-----------------------------------------------------------------------------
(* The library is changed by something else than this session.             *)
ChangeOutside(o, content) ==
  /\ pc \in {"idle", "down"}
  /\ outside < MaxOutside
  /\ canonical[o] # NoRow /\ canonical[o].content # content
  /\ canonical' = [canonical EXCEPT ![o] = Edited(@, content)]
  /\ outside' = outside + 1
  /\ UNCHANGED <<receipts, fileVars, aside, pc, clientVars, imports, crashes>>

Close ==
  /\ pc = "idle"
  /\ pc' = "down"
  /\ UNCHANGED <<canonical, receipts, fileVars, aside, clientVars, counters>>

Crash ==
  /\ pc # "down"
  /\ crashes < MaxCrashes
  /\ crashes' = crashes + 1
  /\ pc' = "down"
  /\ UNCHANGED <<canonical, receipts, fileVars, aside, clientVars, imports,
                 outside>>

(* What the client may send under t: what it sent before, or a new request *)
(* prepared from anything it has been shown.                               *)
Requests(t) ==
  IF asked[t] # None THEN {asked[t]}
  ELSE {[kind |-> k] : k \in AllKinds \ {"edit"}} \cup
       (UNION {{[kind |-> "edit", object |-> o, seen |-> s, content |-> c] :
                  s \in shown[o], c \in Content} : o \in Object})

Next ==
  \/ Open \/ Recover \/ Preserve
  \/ RemoveFile \/ CreateFile \/ WriteBaseline
  \/ \E t \in Tx : \E request \in Requests(t) :
        \/ Replay(t, request) \/ Refuse(t, request)
        \/ Edit(t, request) \/ Move(t, request)
        \/ Save(t, request) \/ SaveRefused(t, request)
        \/ Discard(t, request) \/ ReplayEnd(t, request)
  \/ \E o \in Object, c \in Content : Import(o, c) \/ ChangeOutside(o, c)
  \/ Close \/ Crash

Spec == Init /\ [][Next]_vars

-----------------------------------------------------------------------------
(* Properties                                                              *)

(* The value every variable may hold.                                      *)
TypeOK ==
  /\ canonical \in Workspace /\ base \in Workspace /\ live \in Workspace
  /\ receipts \subseteq Tx /\ done \subseteq Tx
  /\ file \in {"missing", "partial", "session"}
  /\ snaps \in Seq(Workspace) /\ cursor \in Nat /\ latest \in Nat
  /\ aside \subseteq [Object -> Content \cup {Absent}]
  /\ pc \in {"down", "opening", "remove", "create", "baseline", "idle"}
  /\ asked \in [Tx -> Request \cup {None}]
  /\ shown \in [Object -> SUBSET Row]
  /\ times \in [Tx -> 0 .. MaxTimes]
  /\ imports \in 0 .. MaxImports /\ outside \in 0 .. MaxOutside
  /\ crashes \in 0 .. MaxCrashes

(* Whatever step a crash came after, the file it leaves is either          *)
(* continued or set aside: no history the program wrote makes the next     *)
(* opening fail.                                                           *)
OpeningSucceeds == Compatible => HistoryUsable

(* What status() offers to undo or redo is stored: the snapshots are       *)
(* exactly those up to latest_sequence, also after a redo branch was cut   *)
(* by a new edit, and the cursor is one of them.                           *)
HistoryIsStored ==
  file = "session" => cursor <= latest /\ Len(snaps) = latest + 1

(* A clean session shows what a run would assess, as long as nothing but   *)
(* this session changes the library: the dirty guard of preflight and      *)
(* run.start compares with the baseline of the session, runs read the      *)
(* canonical library.                                                      *)
CleanShowsCanonical ==
  pc = "idle" /\ ~Dirty /\ outside = 0 => Contents(live) = Contents(canonical)

(* A save replaces only what the session was built from: a change made     *)
(* behind it is never overwritten.                                         *)
SaveOverwritesNothing ==
  [][\A o \in Object :
       pc = "idle" /\ pc' = "remove" /\ canonical'[o] # canonical[o] =>
         snaps[1][o] = canonical[o]]_vars

(* No request takes effect twice, however often it is sent and whether or  *)
(* not the process crashed in between.                                     *)
EffectOnce == \A t \in Tx : times[t] <= 1

(* Until the session is rebuilt, by its end, by an import or because the   *)
(* library changed behind it: the receipts of edits are in its file.       *)
EffectOnceInSession == receipts = {} /\ imports = 0 /\ outside = 0 => EffectOnce

(* The same of saves and discards alone, whose receipts outlive the        *)
(* session.                                                                *)
EndsOnce ==
  \A t \in Tx : asked[t] # None /\ asked[t].kind \in {"save", "discard"} =>
    times[t] <= 1

(* An edit prepared from content that is no longer there is refused.       *)
StaleEditRefused ==
  [][\A t \in Tx : t \in done' \ done /\ asked'[t].kind = "edit" =>
       asked'[t].seen = live[asked'[t].object]]_vars

(* A request that is answered from its receipt ends no session with        *)
(* unsaved edits.                                                          *)
RepeatKeepsEdits ==
  [][pc = "idle" /\ pc' = "remove" /\ Dirty =>
       receipts' # receipts]_vars

(* The baseline is the first snapshot and the workspace being edited is    *)
(* the current one.                                                        *)
SnapshotsAgree ==
  file = "session" => snaps[1] = base /\ snaps[cursor + 1] = live

(* A request is served only with a session's file in place, of the present *)
(* library unless that changed behind it.                                  *)
FileInPlace ==
  /\ pc \in {"idle", "remove"} => file = "session"
  /\ pc = "baseline" => live = canonical
  /\ pc = "idle" /\ outside = 0 => base = canonical

(* Nothing leaves the library, so what is new in it is new to a session    *)
(* built earlier.                                                          *)
BaselineIsOlder == \A o \in Object : canonical[o] = NoRow => base[o] = NoRow

(* A save or discard took effect only with its receipt, hence once.        *)
EndsAreReceipted ==
  \A t \in Tx : asked[t] = None \/ asked[t].kind \in {"save", "discard"} =>
    times[t] <= 1 /\ (t \notin receipts => times[t] = 0)

(* The strengthening under which what the session stores can be proved.    *)
InductiveInvariant ==
  /\ TypeOK
  /\ HistoryIsStored
  /\ SnapshotsAgree
  /\ FileInPlace
  /\ BaselineIsOlder
  /\ EndsAreReceipted

(* The receipts of edits go with the file they are in.                     *)
ReceiptsInFile ==
  /\ file # "session" => done = {}
  /\ pc = "create" => file = "missing"

(* Until the session is rebuilt, what took effect has its receipt.         *)
EditsAreReceipted ==
  receipts = {} /\ imports = 0 /\ outside = 0 =>
    /\ pc # "remove"
    /\ file = "session" => base = canonical
    /\ \A t \in Tx : times[t] <= 1 /\ (t \notin done => times[t] = 0)

(* Only a change behind the session parts unsaved edits from their library. *)
DraftsAreCurrent ==
  file = "session" /\ outside = 0 =>
    base = canonical \/ ~Dirty \/ Contents(live) = Contents(canonical)

(* What retries and the draft rest on, beyond InductiveInvariant.          *)
StagingInvariant == ReceiptsInFile /\ EditsAreReceipted /\ DraftsAreCurrent

(* Staging keeps its promise to the expert.                                *)
Drafts == INSTANCE StagedEditing
            WITH Text <- Content \cup {Absent},
                 saved <- Contents(canonical),
                 draft <- Contents(IF file = "session" THEN live ELSE canonical),
                 touched <- /\ file = "session" /\ Dirty
                            /\ Contents(live) # Contents(canonical),
                 ending <- pc = "remove",
                 kept <- aside,
                 disturbed <- outside > 0

ImplementsDrafts == Drafts!Spec
=============================================================================
