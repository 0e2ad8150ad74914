--------------------------- MODULE ManagedArtifacts ---------------------------
(***************************************************************************)
(* The content-addressed payload store of one project, as               *)
(* persistence/artifacts.py keeps it: payload files named by their digest, *)
(* rows and owner references in the project database, and an intent row    *)
(* for every put that has begun.  The steps of a put are separate: the     *)
(* request thread (imports, preflight) and the worker thread (results) run *)
(* them side by side, any of them may fail, the process may stop after any *)
(* of them, and a COMMIT that fails may leave its transaction open.        *)
(*                                                                         *)
(* A digest stands for the bytes it names, and a rename is atomic.  The    *)
(* variables hold what is durable: what a transaction left open has        *)
(* written is lost with the process (sqlite rolls it back), and            *)
(* `stuck' names it while it lasts.                                        *)
(***************************************************************************)
EXTENDS Naturals, FiniteSets

CONSTANTS
  Thread,     \* threads that put artifacts
  Tx,         \* transaction ids of puts
  Digest,     \* payload contents
  Owner,      \* owner roles a payload can be bound to
  Meta,       \* media type and schema of a payload
  Put,        \* the puts callers make
  MaxFaults,  \* bound: failed file operations, failed commits and crashes
  Absent, Partial,  \* no file, and a file or tree that is not complete
  None

ASSUME NoneIsNothing ==
  None \notin Tx \union Digest \union Owner \union Meta \union Thread \union Put
ASSUME FilesDiffer == Absent # Partial /\ Absent \notin Digest /\ Partial \notin Digest
ASSUME PutShape ==
  Put \subseteq [thread : Thread, tx : Tx, digest : Digest,
                 owner : Owner \union {None}, meta : Meta]
\* A transaction id belongs to one thread: the names the callers derive
\* from runs, preflights and imports do not meet.
ASSUME TxOfOneThread ==
  \A p, q \in Put : p.tx = q.tx => p.thread = q.thread
ASSUME FaultBound == MaxFaults \in Nat

VARIABLES
  phase,      \* "closed", "recovering" or "open"
  staging,    \* [Tx -> file of the put: Absent, Partial or its bytes]
  payload,    \* digests whose final file exists
  intents,    \* [Tx -> digest of the put that has begun, or None]
  rows,       \* [Digest -> metadata of the registered artifact, or None]
  refs,       \* [Owner -> digest it is bound to, or None]
  active,     \* artifacts whose stored lifecycle is ACTIVE
  job,        \* [Thread -> the put it is in, or None]
  step,       \* [Thread -> the next step of that put]
  recovery,   \* what recover() has still to do
  stuck,      \* transaction whose COMMIT failed and which is still open, or None
  owners,     \* owner roles the running assessment has bound so far
  faults

artifactVars == <<staging, payload, intents, rows, refs, active, job, step,
                  recovery, owners>>
vars == <<phase, artifactVars, stuck, faults>>

Steps == {"idle", "stage", "write", "intent", "promote", "register", "tidy"}
Registered == {d \in Digest : rows[d] # None}
Referenced == {d \in Digest : \E o \in Owner : refs[o] = d}
NoRecovery == [at |-> "none", todo |-> {}, intended |-> {}, known |-> {}]

TypeOK ==
  /\ phase \in {"closed", "recovering", "open"}
  /\ staging \in [Tx -> {Absent, Partial} \union Digest]
  /\ payload \subseteq Digest
  /\ intents \in [Tx -> Digest \union {None}]
  /\ rows \in [Digest -> Meta \union {None}]
  /\ refs \in [Owner -> Digest \union {None}]
  /\ active \subseteq Digest
  /\ job \in [Thread -> Put \union {None}]
  /\ step \in [Thread -> Steps]
  /\ recovery \in [at : {"none", "intents", "orphan", "clear", "staging",
                         "payloads"},
                   todo : SUBSET Tx, intended : SUBSET Tx,
                   known : SUBSET Digest]
  /\ owners \subseteq Owner
  /\ faults \in 0..MaxFaults

Init ==
  /\ phase = "closed"
  /\ staging = [x \in Tx |-> Absent]
  /\ payload = {}
  /\ intents = [x \in Tx |-> None]
  /\ rows = [d \in Digest |-> None]
  /\ refs = [o \in Owner |-> None]
  /\ active = {}
  /\ job = [t \in Thread |-> None]
  /\ step = [t \in Thread |-> "idle"]
  /\ recovery = NoRecovery
  /\ stuck = None
  /\ owners = {}
  /\ faults = 0
-----------------------------------------------------------------------------
(* A put.                                                                  *)

At(t, s) == phase = "open" /\ job[t] # None /\ step[t] = s
Goto(t, s) == step' = [step EXCEPT ![t] = s]

\* The caller gets an exception; the files and rows stay as they are.
Abandon(t) ==
  /\ job' = [job EXCEPT ![t] = None]
  /\ Goto(t, "idle")

BeginPut(p) ==
  /\ phase = "open"
  /\ job[p.thread] = None
  /\ job' = [job EXCEPT ![p.thread] = p]
  /\ Goto(p.thread, "stage")
  /\ UNCHANGED <<phase, staging, payload, intents, rows, refs, active,
                 recovery, stuck, owners, faults>>

\* A staging file that is already there must hold the same bytes.
Stage(t) ==
  /\ At(t, "stage")
  /\ LET x == job[t].tx IN
       \/ /\ staging[x] = Absent
          /\ staging' = [staging EXCEPT ![x] = Partial]
          /\ Goto(t, "write")
          /\ UNCHANGED job
       \/ /\ staging[x] = job[t].digest
          /\ Goto(t, "intent")
          /\ UNCHANGED <<staging, job>>
       \/ /\ staging[x] \notin {Absent, job[t].digest}
          /\ Abandon(t)
          /\ UNCHANGED staging
  /\ UNCHANGED <<phase, payload, intents, rows, refs, active, recovery, stuck,
                 owners, faults>>

Write(t) ==
  /\ At(t, "write")
  /\ staging' = [staging EXCEPT ![job[t].tx] = job[t].digest]
  /\ Goto(t, "intent")
  /\ UNCHANGED <<phase, payload, intents, rows, refs, active, job, recovery,
                 stuck, owners, faults>>

\* While a transaction is open every other one is refused as nested.
Refused(t) ==
  /\ stuck # None
  /\ At(t, "intent") \/ At(t, "register")
  /\ Abandon(t)
  /\ UNCHANGED <<phase, staging, payload, intents, rows, refs, active,
                 recovery, stuck, owners, faults>>

RecordIntent(t) ==
  /\ At(t, "intent")
  /\ stuck = None
  /\ LET x == job[t].tx IN
       \/ /\ intents[x] \in {None, job[t].digest}
          /\ intents' = [intents EXCEPT ![x] = job[t].digest]
          /\ Goto(t, "promote")
          /\ UNCHANGED job
       \/ /\ intents[x] \notin {None, job[t].digest}
          /\ Abandon(t)
          /\ UNCHANGED intents
  /\ UNCHANGED <<phase, staging, payload, rows, refs, active, recovery, stuck,
                 owners, faults>>

\* A payload of this digest is verified and kept; otherwise the staged file
\* becomes the payload.
Promote(t) ==
  /\ At(t, "promote")
  /\ LET d == job[t].digest IN
       \/ /\ d \in payload
          /\ UNCHANGED <<staging, payload>>
       \/ /\ d \notin payload
          /\ payload' = payload \union {d}
          /\ staging' = [staging EXCEPT ![job[t].tx] = Absent]
  /\ Goto(t, "register")
  /\ UNCHANGED <<phase, intents, rows, refs, active, job, recovery, stuck,
                 owners, faults>>

Conflicts(p) ==
  \/ rows[p.digest] \notin {None, p.meta}
  \/ p.owner # None /\ refs[p.owner] \notin {None, p.digest}

\* _set_derived_lifecycle: ACTIVE exactly when some owner is bound to it.
DeriveLifecycle(d, bound) ==
  active' = IF \E o \in Owner : bound[o] = d THEN active \union {d}
            ELSE active \ {d}

Register(t) ==
  /\ At(t, "register")
  /\ stuck = None
  /\ LET p == job[t] IN
       \/ /\ ~Conflicts(p)
          /\ rows' = [rows EXCEPT ![p.digest] = p.meta]
          /\ refs' = IF p.owner = None THEN refs
                     ELSE [refs EXCEPT ![p.owner] = p.digest]
          /\ DeriveLifecycle(p.digest, refs')
          /\ intents' = [intents EXCEPT ![p.tx] = None]
          /\ Goto(t, "tidy")
          /\ UNCHANGED job
       \/ /\ Conflicts(p)
          /\ Abandon(t)
          /\ UNCHANGED <<rows, refs, active, intents>>
  /\ UNCHANGED <<phase, staging, payload, recovery, stuck, owners, faults>>

\* The staging file of a deduplicated put is removed before it returns.
Tidy(t) ==
  /\ At(t, "tidy")
  /\ staging' = [staging EXCEPT ![job[t].tx] = Absent]
  /\ owners' = owners \union ({job[t].owner} \ {None})
  /\ Abandon(t)
  /\ UNCHANGED <<phase, payload, intents, rows, refs, active, recovery, stuck,
                 faults>>

PutStep(t) ==
  \/ Stage(t) \/ Write(t) \/ Refused(t) \/ RecordIntent(t)
  \/ Promote(t) \/ Register(t) \/ Tidy(t)

\* Any step of a put may fail before it takes effect.  A failed COMMIT is
\* outside the try block of transaction(): sqlite may have rolled it back,
\* or it stays open.
FailPut(t) ==
  /\ phase = "open"
  /\ job[t] # None
  /\ faults < MaxFaults
  /\ faults' = faults + 1
  /\ Abandon(t)
  /\ \/ UNCHANGED stuck
     \/ /\ step[t] \in {"intent", "register"}
        /\ stuck = None
        /\ stuck' = <<step[t]>>
  /\ UNCHANGED <<phase, staging, payload, intents, rows, refs, active,
                 recovery, owners>>

\* A failed assessment removes the references of the results it has put,
\* one transaction each; a finished one keeps them.
RemoveReference(o) ==
  /\ phase = "open"
  /\ stuck = None
  /\ o \in owners
  /\ \A t \in Thread : job[t] # None => job[t].owner = None
  /\ refs' = [refs EXCEPT ![o] = None]
  /\ DeriveLifecycle(refs[o], refs')
  /\ owners' = owners \ {o}
  /\ UNCHANGED <<phase, staging, payload, intents, rows, job, step, recovery,
                 stuck, faults>>

FinishAssessment ==
  /\ phase = "open"
  /\ owners # {}
  /\ \A t \in Thread : job[t] # None => job[t].owner = None
  /\ owners' = {}
  /\ UNCHANGED <<phase, staging, payload, intents, rows, refs, active, job,
                 step, recovery, stuck, faults>>
-----------------------------------------------------------------------------
(* Opening: recover() runs alone, before a worker or a request exists.     *)

StartRecovery ==
  /\ phase = "closed"
  /\ phase' = "recovering"
  /\ LET begun == {x \in Tx : intents[x] # None} IN
       recovery' = [at |-> "intents", todo |-> begun, intended |-> begun,
                    known |-> Registered]
  /\ UNCHANGED <<staging, payload, intents, rows, refs, active, job, step,
                 stuck, owners, faults>>

Recovering(s) == phase = "recovering" /\ recovery.at = s
Continue(s, rest) ==
  recovery' = [at |-> s, todo |-> rest, intended |-> recovery.intended,
               known |-> recovery.known]

\* One intent: unlink its staging file, then its payload unless a row owns
\* it, then delete the intent.
RecoverStaging(x) ==
  /\ Recovering("intents")
  /\ x \in recovery.todo
  /\ staging' = [staging EXCEPT ![x] = Absent]
  /\ Continue("orphan", {x})
  /\ UNCHANGED <<phase, payload, intents, rows, refs, active, job, step,
                 stuck, owners, faults>>

\* Mutant: the payload of an intent is removed even when a row owns it.
RecoverOrphanAlways(x) ==
  /\ Recovering("orphan")
  /\ x \in recovery.todo
  /\ payload' = payload \ {intents[x]}
  /\ Continue("clear", {x})
  /\ UNCHANGED <<phase, staging, intents, rows, refs, active, job, step,
                 stuck, owners, faults>>

RecoverOrphan(x) ==
  /\ Recovering("orphan")
  /\ x \in recovery.todo
  /\ payload' = IF intents[x] \in recovery.known THEN payload
                ELSE payload \ {intents[x]}
  /\ Continue("clear", {x})
  /\ UNCHANGED <<phase, staging, intents, rows, refs, active, job, step,
                 stuck, owners, faults>>

ClearIntent(x) ==
  /\ Recovering("clear")
  /\ x \in recovery.todo
  /\ intents' = [intents EXCEPT ![x] = None]
  /\ LET rest == {y \in recovery.intended : intents'[y] # None} IN
       Continue("intents", rest)
  /\ UNCHANGED <<phase, staging, payload, rows, refs, active, job, step,
                 stuck, owners, faults>>

\* Mutant: staging files without an intent are left.
BeginSweepOfPayloads ==
  /\ Recovering("intents")
  /\ recovery.todo = {}
  /\ Continue("payloads", {})
  /\ UNCHANGED <<phase, staging, payload, intents, rows, refs, active, job,
                 step, stuck, owners, faults>>

\* The sweeps: staging files that had no intent, then payloads without row.
BeginSweep ==
  /\ Recovering("intents")
  /\ recovery.todo = {}
  /\ Continue("staging", {})
  /\ UNCHANGED <<phase, staging, payload, intents, rows, refs, active, job,
                 step, stuck, owners, faults>>

SweepStaging ==
  /\ Recovering("staging")
  /\ \/ \E x \in Tx \ recovery.intended :
          /\ staging[x] # Absent
          /\ staging' = [staging EXCEPT ![x] = Absent]
          /\ UNCHANGED recovery
     \/ /\ \A x \in Tx \ recovery.intended : staging[x] = Absent
        /\ Continue("payloads", {})
        /\ UNCHANGED staging
  /\ UNCHANGED <<phase, payload, intents, rows, refs, active, job, step,
                 stuck, owners, faults>>

SweepPayloads ==
  /\ Recovering("payloads")
  /\ \/ \E d \in payload \ recovery.known :
          /\ payload' = payload \ {d}
          /\ UNCHANGED <<phase, recovery>>
     \/ /\ payload \subseteq recovery.known
        /\ phase' = "open"
        /\ recovery' = NoRecovery
        /\ UNCHANGED payload
  /\ UNCHANGED <<staging, intents, rows, refs, active, job, step, stuck,
                 owners, faults>>

RecoveryStep ==
  \/ \E x \in Tx : RecoverStaging(x) \/ RecoverOrphan(x) \/ ClearIntent(x)
  \/ BeginSweep \/ SweepStaging \/ SweepPayloads

\* Closing waits for the worker; it writes the clean-shutdown flag in a
\* transaction of its own, so it is refused while another one is open.
Close ==
  /\ phase = "open"
  /\ stuck = None
  /\ \A t \in Thread : job[t] = None
  /\ phase' = "closed"
  /\ UNCHANGED <<artifactVars, stuck, faults>>

\* The process stops between two steps.  An open transaction is rolled
\* back; the rest is durable.
Crash ==
  /\ phase # "closed"
  /\ faults < MaxFaults
  /\ faults' = faults + 1
  /\ phase' = "closed"
  /\ job' = [t \in Thread |-> None]
  /\ step' = [t \in Thread |-> "idle"]
  /\ recovery' = NoRecovery
  /\ stuck' = None
  /\ owners' = {}
  /\ UNCHANGED <<staging, payload, intents, rows, refs, active>>

Next ==
  \/ \E p \in Put : BeginPut(p)
  \/ \E t \in Thread : PutStep(t) \/ FailPut(t)
  \/ \E o \in Owner : RemoveReference(o)
  \/ FinishAssessment
  \/ StartRecovery \/ RecoveryStep \/ Close \/ Crash

Spec == Init /\ [][Next]_vars
-----------------------------------------------------------------------------
(* Properties.                                                             *)

(* The results a running assessment has put stay bound to it: no other     *)
(* put, import or failed COMMIT takes one away, and what the cleanup of a  *)
(* failure removes is exactly what was put.                                *)
ResultsAreHeld == \A o \in owners : refs[o] # None /\ refs[o] \in Registered

(* The stored lifecycle of an artifact says whether an owner is bound to   *)
(* it, although lifecycle, references and rows are written separately.     *)
LifecycleIsDerived == active = Referenced /\ Referenced \subseteq Registered

(* A payload that no row owns is still in the hands of a put, or named by  *)
(* the intent of one that failed, so that recovery can attribute it.       *)
OrphansAreIntended ==
  \A d \in payload \ Registered : \E x \in Tx : intents[x] = d

(* Every registered artifact has its payload, whichever thread promoted    *)
(* it, whatever put failed beside it and whatever recovery swept away      *)
(* (artifacts.recover removes payloads; open_verified must find them), and *)
(* rows, owners, lifecycle and intents agree about what is stored.         *)
PayloadKept ==
  /\ Registered \subseteq payload
  /\ ResultsAreHeld
  /\ LifecycleIsDerived
  /\ OrphansAreIntended

(* When recovery is over, no staging file, intent or unowned payload of an *)
(* earlier process is left: a put that failed can be repeated.             *)
RecoveredClean ==
  [][(phase = "recovering" /\ phase' = "open") =>
       /\ payload' = Registered'
       /\ \A x \in Tx : staging'[x] = Absent /\ intents'[x] = None]_vars
=============================================================================
