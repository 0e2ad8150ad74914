----------------------------- MODULE SessionImport -----------------------------
(***************************************************************************)
(* Import of recorded sessions into a project, as persistence/sessions.py  *)
(* does it on top of the managed artifacts: the external folder is copied  *)
(* to a staging tree, its readiness report is put as an artifact, an       *)
(* intent is recorded, the tree is promoted to its managed path, and one   *)
(* idempotent transaction registers revision, session, reference and       *)
(* receipt.  The same recover() runs at opening, before every import and   *)
(* after every failed one, while the worker thread puts result artifacts.  *)
(***************************************************************************)
EXTENDS ManagedArtifacts

CONSTANTS
  ImportTx,     \* transaction ids of import requests
  Content,      \* what the external folder may hold
  Raw,          \* the contents that are simulator exports, not bundles
  Asked,        \* the imports clients ask for: transaction and inspected content
  Session, Pilot,
  SessionOf, PilotOf,   \* what the manifest of a canonical bundle names
  Requester, Report     \* the thread of requests; metadata of reports

\* A managed bundle: the copied files and, for a raw export, the annotation
\* documents written beside them.  Its root hash names it, and its readiness
\* report; the manifest written for a raw export names the transaction.
Bundle == [tx : ImportTx, files : Raw, notes : Content]
            \union {[tx |-> None, files |-> c, notes |-> c] : c \in Content \ Raw}

ASSUME ImportShape ==
  /\ ImportTx \subseteq Tx
  /\ Asked \subseteq ImportTx \X Content
  /\ Raw \subseteq Content
  /\ Bundle \subseteq Digest
  /\ Bundle \subseteq Owner
  /\ Requester \in Thread /\ Report \in Meta
  /\ \A x \in ImportTx, b \in Bundle :
       [thread |-> Requester, tx |-> x, digest |-> b, owner |-> None,
        meta |-> Report] \in Put

\* Puts bind runs and preflights; what a revision holds is bound by its registration.
ASSUME RevisionsBindThemselves == \A p \in Put : p.owner \notin Bundle
ASSUME TreesDiffer == "whole" \notin {Absent, Partial}

VARIABLES
  tree,        \* [ImportTx -> staging tree: Absent, Partial or a bundle]
  final,       \* [Bundle -> managed tree: Absent, Partial or "whole"]
  importing,   \* [ImportTx -> bundle of its intent, or None]
  revisions,   \* registered session revisions
  current,     \* [session id -> its current revision, or None]
  receipts,    \* [ImportTx -> bundle of its receipt, or None]
  imp,         \* the import the request thread is in: its step, transaction,
               \* inspected content, folder as it is now, and bundle
  cleanup      \* what recover() has still to do

importVars == <<tree, final, importing, revisions, current, receipts,
                imp, cleanup>>
allVars == <<vars, importVars>>
BundleSession(b) == IF b.tx = None THEN SessionOf[b.files]
                    ELSE <<b.tx, b.files>>
BundlePilot(b) == IF b.tx = None THEN PilotOf[b.files] ELSE None
SessionId == {BundleSession(b) : b \in Bundle}
NoImport == [step |-> "idle", tx |-> None, content |-> None, folder |-> None,
             bundle |-> None]
NoCleanup == [at |-> "none", todo |-> {}, known |-> {}]
ReportOf(x, b) == [thread |-> Requester, tx |-> x, digest |-> b,
                   owner |-> None, meta |-> Report]

ImportInit ==
  /\ Init
  /\ tree = [x \in ImportTx |-> Absent]
  /\ final = [b \in Bundle |-> Absent]
  /\ importing = [x \in ImportTx |-> None]
  /\ revisions = {}
  /\ current = [s \in SessionId |-> None]
  /\ receipts = [x \in ImportTx |-> None]
  /\ imp = NoImport
  /\ cleanup = NoCleanup

Advance(s) == imp' = [imp EXCEPT !.step = s]
Serving == phase = "open" /\ cleanup.at = "none"

\* The external folder belongs to others: it may change while it is read.
ChangeFolder ==
  /\ imp.step \in {"inspect", "copy"}
  /\ \E c \in Content \ {imp.folder} : imp' = [imp EXCEPT !.folder = c]
  /\ UNCHANGED <<vars, tree, final, importing, revisions, current, receipts,
                 cleanup>>
-----------------------------------------------------------------------------
(* recover(): the intents and registered paths the connection sees, each   *)
(* intent's trees, then everything left in the staging directory.          *)

\* What the connection shows includes the writes of an open transaction.
Open(what) == stuck # None /\ stuck[1] = what
SeenIntents ==
  {x \in ImportTx : importing[x] # None /\ ~(Open("session") /\ stuck[2] = x)}
    \union (IF Open("session intent") THEN {stuck[2]} ELSE {})
SeenRevisions == revisions \union (IF Open("session") THEN {stuck[3]} ELSE {})

BeginRecover ==
  cleanup' = [at |-> "tree", todo |-> SeenIntents, known |-> SeenRevisions]

IntentBundle(x) == IF importing[x] # None THEN importing[x] ELSE stuck[3]

\* Mutant: the managed tree of an intent is left where it is.
CleanTreeOnly(x) ==
  /\ cleanup.at = "tree"
  /\ x \in cleanup.todo
  /\ tree' = [tree EXCEPT ![x] = Absent]
  /\ cleanup' = [cleanup EXCEPT !.at = "clear"]
  /\ UNCHANGED <<vars, final, importing, revisions, current, receipts,
                 imp>>

CleanTree(x) ==
  /\ cleanup.at = "tree"
  /\ x \in cleanup.todo
  /\ tree' = [tree EXCEPT ![x] = Absent]
  /\ cleanup' = [cleanup EXCEPT !.at = "orphan"]
  /\ UNCHANGED <<vars, final, importing, revisions, current, receipts,
                 imp>>

\* Mutant: the managed tree is removed although a revision owns it.
CleanOrphanAlways(x) ==
  /\ cleanup.at = "orphan"
  /\ x \in cleanup.todo
  /\ final' = [final EXCEPT ![IntentBundle(x)] = Absent]
  /\ cleanup' = [cleanup EXCEPT !.at = "clear"]
  /\ UNCHANGED <<vars, tree, importing, revisions, current, receipts,
                 imp>>

\* Removing a tree takes several steps: a part of it may be left.
CleanOrphan(x) ==
  /\ cleanup.at = "orphan"
  /\ x \in cleanup.todo
  /\ LET b == IntentBundle(x)
         owned == b \in cleanup.known IN
       \/ /\ ~owned
          /\ final[b] = "whole"
          /\ final' = [final EXCEPT ![b] = Partial]
          /\ UNCHANGED cleanup
       \/ /\ owned \/ final[b] # "whole"
          /\ final' = IF owned THEN final ELSE [final EXCEPT ![b] = Absent]
          /\ cleanup' = [cleanup EXCEPT !.at = "clear"]
  /\ UNCHANGED <<vars, tree, importing, revisions, current, receipts,
                 imp>>

CleanIntent(x) ==
  /\ cleanup.at = "clear"
  /\ x \in cleanup.todo
  /\ stuck = None
  /\ importing' = [importing EXCEPT ![x] = None]
  /\ cleanup' = [cleanup EXCEPT !.at = "tree", !.todo = @ \ {x}]
  /\ UNCHANGED <<vars, tree, final, revisions, current, receipts, imp>>

CleanSweep ==
  /\ cleanup.at = "tree"
  /\ cleanup.todo = {}
  /\ \/ \E x \in ImportTx :
          /\ tree[x] # Absent
          /\ tree' = [tree EXCEPT ![x] = Absent]
          /\ UNCHANGED <<cleanup, imp>>
     \/ /\ \A x \in ImportTx : tree[x] = Absent
        /\ cleanup' = NoCleanup
        /\ imp' = IF imp.step = "begin" THEN [imp EXCEPT !.step = "inspect"]
                  ELSE NoImport
        /\ UNCHANGED tree
  /\ UNCHANGED <<vars, final, importing, revisions, current, receipts>>

\* recover() itself fails: a file cannot be removed, or its transaction is
\* refused.  The import ends with the exception; the opening is given up.
CleanFails ==
  /\ cleanup.at # "none"
  /\ \/ /\ cleanup.at = "clear" /\ stuck # None
        /\ UNCHANGED faults
     \/ /\ faults < MaxFaults
        /\ faults' = faults + 1
  /\ cleanup' = NoCleanup
  /\ imp' = NoImport
  /\ phase' = IF imp.step = "opening" THEN "closed" ELSE phase
  /\ UNCHANGED <<artifactVars, stuck, tree, final, importing,
                 revisions, current, receipts>>

\* Opening: the artifacts have recovered, the imports follow.
OpeningRecovers ==
  /\ SweepPayloads
  /\ \/ /\ phase' = "open"
        /\ imp' = [NoImport EXCEPT !.step = "opening"]
        /\ BeginRecover
     \/ /\ phase' # "open"
        /\ UNCHANGED <<imp, cleanup>>
  /\ UNCHANGED <<tree, final, importing, revisions, current, receipts>>
-----------------------------------------------------------------------------
(* One import request.                                                     *)

\* import_source: a known transaction is owners from its receipt; otherwise
\* the folder must still hold what the client inspected.
RequestImport(x, inspected) ==
  /\ Serving
  /\ imp.step = "idle"
  /\ receipts[x] = None
  /\ ~(Open("session") /\ stuck[2] = x)
  /\ imp' = [step |-> "begin", tx |-> x, content |-> inspected,
              folder |-> inspected, bundle |-> None]
  /\ BeginRecover
  /\ UNCHANGED <<vars, tree, final, importing, revisions, current,
                 receipts>>

\* A raw import is inspected again against the same fingerprint; the import
\* of a bundle takes the folder as it is now.
Inspect ==
  /\ Serving
  /\ imp.step = "inspect"
  /\ \/ /\ imp.content \in Raw
        /\ imp.folder = imp.content
        /\ imp' = [imp EXCEPT !.step = "copy"]
        /\ tree' = [tree EXCEPT ![imp.tx] = Partial]
        /\ UNCHANGED cleanup
     \/ /\ imp.content \notin Raw
        /\ imp.folder \notin Raw
        /\ imp' = [imp EXCEPT !.step = "copy", !.content = imp.folder]
        /\ tree' = [tree EXCEPT ![imp.tx] = Partial]
        /\ UNCHANGED cleanup
     \/ /\ \/ imp.content \in Raw /\ imp.folder # imp.content
           \/ imp.content \notin Raw /\ imp.folder \in Raw
        /\ imp' = [NoImport EXCEPT !.step = "failed"]
        /\ BeginRecover
        /\ UNCHANGED tree
  /\ UNCHANGED <<vars, final, importing, revisions, current, receipts>>

\* Every copied file is hashed against the inventory.  The annotation
\* documents of a raw export are read from the external folder afterwards.
Copy ==
  /\ Serving
  /\ imp.step = "copy"
  /\ \/ LET b == IF imp.content \in Raw
                 THEN [tx |-> imp.tx, files |-> imp.content, notes |-> imp.folder]
                 ELSE [tx |-> None, files |-> imp.content,
                       notes |-> imp.content] IN
          /\ tree' = [tree EXCEPT ![imp.tx] = b]
          /\ imp' = [imp EXCEPT !.step = "report", !.bundle = b,
                                     !.folder = None]
          /\ UNCHANGED cleanup
     \/ /\ imp.folder # imp.content
        /\ imp' = [NoImport EXCEPT !.step = "failed"]
        /\ BeginRecover
        /\ UNCHANGED tree
  /\ UNCHANGED <<vars, final, importing, revisions, current, receipts>>

PutReport ==
  /\ Serving
  /\ imp.step = "report"
  /\ BeginPut(ReportOf(imp.tx, imp.bundle))
  /\ Advance("reporting")
  /\ UNCHANGED <<tree, final, importing, revisions, current, receipts,
                 cleanup>>

\* The put of the report runs inside the import.
ReportStep ==
  /\ imp.step = "reporting"
  /\ PutStep(Requester) \/ FailPut(Requester)
  /\ \/ /\ job'[Requester] # None
        /\ UNCHANGED <<imp, cleanup>>
     \/ /\ job'[Requester] = None
        /\ step[Requester] = "tidy" /\ faults' = faults
        /\ Advance("intent")
        /\ UNCHANGED cleanup
     \/ /\ job'[Requester] = None
        /\ step[Requester] # "tidy" \/ faults' # faults
        /\ imp' = [NoImport EXCEPT !.step = "failed"]
        /\ BeginRecover
  /\ UNCHANGED <<tree, final, importing, revisions, current, receipts>>

RecordImport ==
  /\ Serving
  /\ imp.step = "intent"
  /\ stuck = None
  /\ importing' = [importing EXCEPT ![imp.tx] = imp.bundle]
  /\ Advance("promote")
  /\ UNCHANGED <<vars, tree, final, revisions, current, receipts,
                 cleanup>>

\* A tree of the same root hash is verified and reused.
PromoteOrReuse ==
  /\ Serving
  /\ imp.step = "promote"
  /\ final[imp.bundle] \in {Absent, "whole"}
  /\ final' = [final EXCEPT ![imp.bundle] = "whole"]
  /\ tree' = [tree EXCEPT ![imp.tx] = Absent]
  /\ Advance("register")
  /\ UNCHANGED <<vars, importing, revisions, current, receipts,
                 cleanup>>

\* The session id is taken by another participant.
IdentityConflict(b) ==
  LET c == current[BundleSession(b)] IN
    c # None /\ BundlePilot(c) # BundlePilot(b)

\* Mutant: the session keeps its old current revision.
RegisterImportBehind ==
  /\ Serving
  /\ imp.step = "register"
  /\ stuck = None
  /\ ~IdentityConflict(imp.bundle)
  /\ revisions' = revisions \union {imp.bundle}
  /\ refs' = [refs EXCEPT ![imp.bundle] = imp.bundle]
  /\ DeriveLifecycle(imp.bundle, refs')
  /\ importing' = [importing EXCEPT ![imp.tx] = None]
  /\ receipts' = [receipts EXCEPT ![imp.tx] = imp.bundle]
  /\ imp' = NoImport
  /\ UNCHANGED <<phase, staging, payload, intents, rows, job, step, recovery,
                 stuck, owners, faults, tree, final, current, cleanup>>

RegisterImport ==
  /\ Serving
  /\ imp.step = "register"
  /\ stuck = None
  /\ LET b == imp.bundle IN
       \/ /\ ~IdentityConflict(b)
          /\ revisions' = revisions \union {b}
          /\ current' = [current EXCEPT ![BundleSession(b)] = b]
          /\ refs' = [refs EXCEPT ![b] = b]
          /\ DeriveLifecycle(b, refs')
          /\ importing' = [importing EXCEPT ![imp.tx] = None]
          /\ receipts' = [receipts EXCEPT ![imp.tx] = b]
          /\ imp' = NoImport
          /\ UNCHANGED cleanup
       \/ /\ IdentityConflict(b)
          /\ imp' = [NoImport EXCEPT !.step = "failed"]
          /\ BeginRecover
          /\ UNCHANGED <<refs, active, importing, revisions, current, receipts>>
  /\ UNCHANGED <<phase, staging, payload, intents, rows, job, step, recovery,
                 stuck, owners, faults, tree, final>>

\* A file operation or a transaction of the import fails; a COMMIT that
\* fails may stay open.
ImportFails ==
  /\ Serving
  /\ imp.step \in {"copy", "intent", "promote", "register"}
  /\ \/ /\ stuck # None
        /\ imp.step \in {"intent", "register"}
        /\ UNCHANGED <<stuck, faults>>
     \/ /\ faults < MaxFaults
        /\ faults' = faults + 1
        /\ \/ UNCHANGED stuck
           \/ /\ imp.step = "intent"
              /\ stuck = None
              /\ stuck' = <<"session intent", imp.tx, imp.bundle>>
           \/ /\ imp.step = "register"
              /\ stuck = None
              /\ ~IdentityConflict(imp.bundle)
              /\ stuck' = <<"session", imp.tx, imp.bundle>>
  /\ imp' = [NoImport EXCEPT !.step = "failed"]
  /\ cleanup' = [at |-> "read", todo |-> {}, known |-> {}]
  /\ UNCHANGED <<phase, artifactVars, tree, final, importing,
                 revisions, current, receipts>>

ReadIntents ==
  /\ cleanup.at = "read"
  /\ BeginRecover
  /\ UNCHANGED <<vars, tree, final, importing, revisions, current,
                 receipts, imp>>
-----------------------------------------------------------------------------
WorkerStep ==
  /\ Serving \/ imp.step # "opening"
  /\ \/ \E p \in Put : p.thread # Requester /\ BeginPut(p)
     \/ \E t \in Thread \ {Requester} : PutStep(t) \/ FailPut(t)
     \/ \E o \in Owner : RemoveReference(o)
     \/ FinishAssessment
  /\ UNCHANGED importVars

ImportCrash ==
  /\ Crash
  /\ imp' = NoImport
  /\ cleanup' = NoCleanup
  /\ UNCHANGED <<tree, final, importing, revisions, current, receipts>>

CloseProject ==
  /\ Close
  /\ imp.step = "idle"
  /\ UNCHANGED importVars

OpenProject ==
  /\ \/ StartRecovery
     \/ \E x \in Tx : RecoverStaging(x) \/ RecoverOrphan(x) \/ ClearIntent(x)
     \/ BeginSweep \/ SweepStaging
  /\ UNCHANGED importVars

ImportStep ==
  \/ \E a \in Asked : RequestImport(a[1], a[2])
  \/ Inspect \/ Copy \/ PutReport \/ ReportStep \/ RecordImport
  \/ PromoteOrReuse \/ RegisterImport \/ ImportFails

RecoverStep ==
  \/ ReadIntents
  \/ \E x \in ImportTx : CleanTree(x) \/ CleanOrphan(x) \/ CleanIntent(x)
  \/ CleanSweep \/ CleanFails

ImportNext ==
  \/ ChangeFolder \/ OpenProject \/ OpeningRecovers \/ CloseProject
  \/ ImportCrash \/ ImportStep \/ RecoverStep \/ WorkerStep

ImportSpec == ImportInit /\ [][ImportNext]_allVars
-----------------------------------------------------------------------------
(* Properties.                                                             *)

SessionTypeOK ==
  /\ TypeOK
  /\ tree \in [ImportTx -> {Absent, Partial} \union Bundle]
  /\ final \in [Bundle -> {Absent, Partial, "whole"}]
  /\ importing \in [ImportTx -> Bundle \union {None}]
  /\ revisions \subseteq Bundle
  /\ current \in [SessionId -> Bundle \union {None}]
  /\ receipts \in [ImportTx -> Bundle \union {None}]

(* A registered revision can be used: its tree is whole, its readiness     *)
(* report is registered, present and bound to it.  Import recovery, which  *)
(* removes trees, runs at any time and with any view of the database.  A   *)
(* receipt names a registered revision, the current revision of a session  *)
(* belongs to it, and its revisions are of one participant.  All of it     *)
(* rests on the types.                                                     *)
RevisionUsable ==
  /\ SessionTypeOK
  /\ \A b \in revisions :
       /\ final[b] = "whole" /\ rows[b] # None /\ b \in payload /\ refs[b] = b
       /\ current[BundleSession(b)] # None
  /\ \A x \in ImportTx : receipts[x] # None => receipts[x] \in revisions
  /\ \A s \in SessionId : current[s] # None =>
       current[s] \in revisions /\ BundleSession(current[s]) = s
  /\ \A b, c \in revisions :
       BundleSession(b) = BundleSession(c) => BundlePilot(b) = BundlePilot(c)

(* A managed tree that no revision owns is named by an intent, so a later  *)
(* recovery finds it; promotion never meets half a tree.                   *)
TreesAreAccounted ==
  /\ \A b \in Bundle : final[b] # Absent /\ b \notin revisions =>
       \E x \in ImportTx : importing[x] = b
  /\ imp.step = "promote" => final[imp.bundle] # Partial

(* The project implements ContentStore: artifacts and revisions appear at  *)
(* once and whole, and nothing takes them back.                            *)
Store == INSTANCE ContentStore WITH
  Artifact <- Digest, Holder <- Owner, Revision <- Bundle,
  SessionName <- SessionId, Request <- ImportTx,
  NamedSession <- BundleSession, Nothing <- None,
  stored <- {d \in payload : rows[d] # None}, bound <- refs,
  imported <- {b \in revisions : final[b] = "whole"}
ImplementsStore == Store!Spec

(* A raw export is imported as it was inspected: the annotation documents  *)
(* belong to the files beside them.                                        *)
ImportedAsInspected == \A b \in revisions : b.notes = b.files
=============================================================================
