-------------------------- MODULE SessionImport_proofs --------------------------
(* Invariance theorems of SessionImport, for any threads, artifacts, imports  *)
(* and any number of faults.                                                  *)
(*                                                                            *)
(* The argument is in two layers. ArtifactInvariant speaks of the artifact    *)
(* store alone and is kept by every step of a put, of the artifact recovery   *)
(* and of the import; ImportInvariant relates trees, intents and revisions to *)
(* the import and to its cleanup, and a step of another thread keeps it       *)
(* because rows only ever appear, and no put binds what a revision holds.     *)
EXTENDS SessionImport, TLAPS

------------------------------------------------------------------------------
(* The artifact store. *)

Held(t) == job[t] # None

\* A put is in the hands of its own thread, of an open project, and its intent, payload
\* and row are there once their steps are over.
PutsAreSound ==
  \A t \in Thread : Held(t) =>
    LET p == job[t]
    IN  /\ phase = "open" /\ p.thread = t
        /\ step[t] \in {"promote", "register"} => intents[p.tx] = p.digest
        /\ step[t] = "register" => p.digest \in payload
        /\ step[t] = "tidy" => /\ rows[p.digest] # None
                               /\ p.owner # None => refs[p.owner] = p.digest

\* What a revision holds is bound to the revision only, and to no assessment.
RevisionsHoldTheirOwn ==
  /\ owners \intersect Bundle = {}
  /\ \A b \in Bundle : refs[b] \in {None, b}

Intended(x) == intents[x] # None

\* The recovery knows the rows and the intents there are, and each of its parts leaves
\* what it was for.
RecoveryIsSound ==
  phase = "recovering" =>
    /\ recovery.known = Registered
    /\ \A x \in Tx : Intended(x) => x \in recovery.intended
    /\ \A x \in recovery.intended : ~Intended(x) => staging[x] = Absent
    /\ recovery.at \in {"intents", "orphan", "clear", "staging", "payloads"}
    /\ recovery.at = "intents" => \A x \in Tx : Intended(x) => x \in recovery.todo
    /\ recovery.at \in {"orphan", "clear"} => \A x \in recovery.todo : staging[x] = Absent
    /\ recovery.at = "clear" =>
         \A x \in recovery.todo : intents[x] \in Registered \/ intents[x] \notin payload
    /\ recovery.at \in {"staging", "payloads"} => \A x \in Tx : ~Intended(x)
    /\ recovery.at = "payloads" => \A x \in Tx : staging[x] = Absent

ArtifactInvariant ==
  TypeOK /\ PayloadKept /\ PutsAreSound /\ RevisionsHoldTheirOwn /\ RecoveryIsSound

------------------------------------------------------------------------------
(* The imports. *)

Idle == {"idle", "failed", "opening"}
Chosen == {"begin", "inspect", "copy"}
Copied == {"report", "reporting", "intent", "promote", "register"}

\* The import in hand: what it has of its request, of the folder and of its copy.
ImportTyped ==
  /\ imp.step \in Idle \cup Chosen \cup Copied
  /\ imp = [step |-> imp.step, tx |-> imp.tx, content |-> imp.content,
            folder |-> imp.folder, bundle |-> imp.bundle]
  /\ imp.step \notin Idle => imp.tx \in ImportTx /\ receipts[imp.tx] = None
  /\ imp.step \in Chosen => imp.content \in Content /\ imp.folder \in Content
  /\ imp.step \in Copied => imp.bundle \in Bundle

CleanupTyped ==
  cleanup \in [at : {"none", "read", "tree", "orphan", "clear"},
               todo : SUBSET ImportTx, known : SUBSET Bundle]

Cleaning == cleanup.at \in {"tree", "orphan", "clear"}

\* What a COMMIT of an import that stays open has written.
OpenWritesAreSound ==
  /\ Open("session") => /\ stuck[2] \in ImportTx /\ stuck[3] \in Bundle
                        /\ importing[stuck[2]] = stuck[3]
  /\ Open("session intent") => /\ stuck[2] \in ImportTx /\ stuck[3] \in Bundle
                               /\ \A x \in ImportTx : importing[x] = None

\* Only an import that begins, failed or opens the project is cleaned up; the put of the
\* request thread is that of the report; the copy is registered, intended and promoted in
\* this order.
ImportIsSound ==
  /\ cleanup.at # "none" <=> imp.step \in {"begin", "failed", "opening"}
  /\ Held(Requester) => imp.step = "reporting" /\ job[Requester] = ReportOf(imp.tx, imp.bundle)
  /\ imp.step = "opening" => \A t \in Thread : ~Held(t)
  /\ imp.step \in {"intent", "promote", "register"} => rows[imp.bundle] # None
  /\ imp.step \in {"promote", "register"} => importing[imp.tx] = imp.bundle
  /\ imp.step = "register" => final[imp.bundle] = "whole"

\* There is one intent at most, and none before an import records its own: the cleanup
\* that begins an import has removed what an earlier one left.
IntentsAreSingle ==
  /\ \A x, y \in ImportTx : importing[x] # None /\ importing[y] # None => x = y
  /\ imp.step \in {"inspect", "copy", "report", "reporting", "intent"} /\ stuck = None =>
       \A x \in ImportTx : importing[x] = None

\* A cleanup knows every revision. Unless a transaction is open it sees the intents there
\* are, and an intent that it clears leaves no tree behind that no revision owns.
CleanupIsSound ==
  Cleaning =>
    /\ revisions \subseteq cleanup.known
    /\ stuck = None => /\ cleanup.known = revisions
                       /\ cleanup.todo = {x \in ImportTx : importing[x] # None}
    /\ cleanup.at = "clear" /\ stuck = None =>
         \A x \in cleanup.todo : final[importing[x]] = Absent \/ importing[x] \in revisions

ImportInvariant ==
  /\ RevisionUsable /\ TreesAreAccounted
  /\ ImportTyped /\ CleanupTyped /\ OpenWritesAreSound /\ ImportIsSound
  /\ IntentsAreSingle /\ CleanupIsSound

InductiveInvariant == ArtifactInvariant /\ ImportInvariant

------------------------------------------------------------------------------
(* What a put in the hands of a thread is.                                    *)
LEMMA HeldPut ==
  ASSUME TypeOK, NEW t \in Thread, Held(t)
  PROVE  /\ job[t] \in Put /\ job[t].tx \in Tx /\ job[t].digest \in Digest
         /\ job[t].owner \in Owner \union {None} /\ job[t].owner \notin Bundle
         /\ job[t].meta \in Meta /\ job[t].meta # None /\ job[t].digest # None
<1>1. job[t] \in Put
  BY DEF TypeOK, Held
<1>2. job[t] \in [thread : Thread, tx : Tx, digest : Digest, owner : Owner \union {None}, meta : Meta]
  BY <1>1, PutShape
<1> QED
  BY <1>1, <1>2, NoneIsNothing, RevisionsBindThemselves

(* Two threads that are in a put write under different transactions.          *)
LEMMA TxsDiffer ==
  ASSUME TypeOK, PutsAreSound, NEW t \in Thread, NEW u \in Thread, t # u, Held(t), Held(u)
  PROVE  job[t].tx # job[u].tx
BY HeldPut, TxOfOneThread DEF PutsAreSound

(* A step at s is a step of an open project.                                  *)
LEMMA AtHeld ==
  ASSUME NEW t \in Thread, NEW s, At(t, s)
  PROVE  phase = "open" /\ Held(t) /\ step[t] = s
BY DEF At, Held

(* What the two threads share is untouched by a step that writes none of it.  *)
LEMMA StoreStays ==
  ASSUME PayloadKept, UNCHANGED <<payload, intents, rows, refs, active, owners>>
  PROVE  PayloadKept'
BY DEF PayloadKept, ResultsAreHeld, LifecycleIsDerived, OrphansAreIntended, Registered, Referenced

(* A thread that begins its next step, or has given up, leaves the puts of    *)
(* others alone.                                                              *)
LEMMA BeginPutKeeps ==
  ASSUME ArtifactInvariant, NEW p \in Put, BeginPut(p)
  PROVE  ArtifactInvariant'
<1>1. p.thread \in Thread
  BY PutShape
<1>2. TypeOK'
  BY <1>1 DEF ArtifactInvariant, TypeOK, BeginPut, Goto, Steps
<1>3. PayloadKept'
  BY StoreStays DEF ArtifactInvariant, BeginPut
<1>4. PutsAreSound'
  BY <1>1 DEF ArtifactInvariant, PutsAreSound, Held, TypeOK, BeginPut, Goto
<1>5. RevisionsHoldTheirOwn' /\ RecoveryIsSound'
  BY DEF ArtifactInvariant, RevisionsHoldTheirOwn, RecoveryIsSound, BeginPut
<1> QED
  BY <1>2, <1>3, <1>4, <1>5 DEF ArtifactInvariant

(* Staging a payload writes the file of its own transaction.                  *)
LEMMA StageKeeps ==
  ASSUME ArtifactInvariant, NEW t \in Thread, Stage(t) \/ Write(t)
  PROVE  ArtifactInvariant'
<1>1. phase = "open" /\ Held(t) /\ job[t].tx \in Tx /\ job[t].digest \in Digest
  BY HeldPut, AtHeld DEF ArtifactInvariant, Stage, Write
<1>2. TypeOK'
  BY <1>1 DEF ArtifactInvariant, TypeOK, Stage, Write, Goto, Abandon, Steps
<1>3. PayloadKept'
  BY StoreStays DEF ArtifactInvariant, Stage, Write
<1>4. PutsAreSound'
  BY <1>1 DEF ArtifactInvariant, PutsAreSound, Held, TypeOK, Stage, Write, Goto, Abandon
<1>5. RevisionsHoldTheirOwn' /\ RecoveryIsSound'
  BY <1>1 DEF ArtifactInvariant, RevisionsHoldTheirOwn, RecoveryIsSound, Stage, Write
<1> QED
  BY <1>2, <1>3, <1>4, <1>5 DEF ArtifactInvariant

(* A put that is refused or fails leaves what it has done.                    *)
LEMMA FailureKeeps ==
  ASSUME ArtifactInvariant, NEW t \in Thread, Refused(t) \/ FailPut(t)
  PROVE  ArtifactInvariant'
<1>1. phase = "open"
  BY DEF Refused, FailPut, At
<1>2. TypeOK'
  BY FaultBound DEF ArtifactInvariant, TypeOK, Refused, FailPut, Goto, Abandon, Steps
<1>3. PayloadKept'
  BY StoreStays DEF ArtifactInvariant, Refused, FailPut
<1>4. PutsAreSound'
  BY <1>1 DEF ArtifactInvariant, PutsAreSound, Held, TypeOK, Refused, FailPut, Goto, Abandon
<1>5. RevisionsHoldTheirOwn' /\ RecoveryIsSound'
  BY <1>1 DEF ArtifactInvariant, RevisionsHoldTheirOwn, RecoveryIsSound, Refused, FailPut
<1> QED
  BY <1>2, <1>3, <1>4, <1>5 DEF ArtifactInvariant

(* An intent is recorded under the transaction of the put alone.              *)
LEMMA RecordIntentKeeps ==
  ASSUME ArtifactInvariant, NEW t \in Thread, RecordIntent(t)
  PROVE  ArtifactInvariant'
<1>1. phase = "open" /\ Held(t) /\ job[t].tx \in Tx /\ job[t].digest \in Digest
  BY HeldPut, AtHeld DEF ArtifactInvariant, RecordIntent
<1>2. TypeOK'
  BY <1>1 DEF ArtifactInvariant, TypeOK, RecordIntent, Goto, Abandon, Steps
<1>3. \A x \in Tx : intents[x] # None => intents'[x] = intents[x]
  BY <1>1 DEF ArtifactInvariant, TypeOK, RecordIntent
<1>4. PayloadKept'
  <2>1. OrphansAreIntended'
    <3>1. payload' \ Registered' = payload \ Registered /\ None \notin Digest
      BY NoneIsNothing DEF RecordIntent, Registered
    <3>2. payload \ Registered \subseteq Digest
      BY DEF ArtifactInvariant, TypeOK
    <3>3. \A d \in payload \ Registered : \E x \in Tx : intents[x] = d
      BY DEF ArtifactInvariant, PayloadKept, OrphansAreIntended
    <3>4. \A d \in payload \ Registered : \E x \in Tx : intents'[x] = d
      BY <1>3, <3>1, <3>2, <3>3
    <3> QED
      BY <3>1, <3>4 DEF OrphansAreIntended
  <2> QED
    BY <2>1 DEF ArtifactInvariant, PayloadKept, ResultsAreHeld, LifecycleIsDerived, Registered,
                Referenced, RecordIntent
<1>5. PutsAreSound'
  <2> SUFFICES ASSUME NEW u \in Thread, Held(u)'
               PROVE  LET p == job'[u]
                      IN  /\ phase' = "open" /\ p.thread = u
                          /\ step'[u] \in {"promote", "register"} => intents'[p.tx] = p.digest
                          /\ step'[u] = "register" => p.digest \in payload'
                          /\ step'[u] = "tidy" => /\ rows'[p.digest] # None
                                                  /\ p.owner # None => refs'[p.owner] = p.digest
    BY DEF PutsAreSound
  <2>1. Held(u) /\ job'[u] = job[u]
    BY DEF RecordIntent, Held, Abandon, ArtifactInvariant, TypeOK
  <2>2. CASE u = t
    BY <1>1, <2>1, <2>2 DEF ArtifactInvariant, TypeOK, PutsAreSound, RecordIntent, Goto, Abandon, Held
  <2>3. CASE u # t
    BY <1>1, <2>1, <2>3, TxsDiffer, HeldPut
    DEF ArtifactInvariant, TypeOK, PutsAreSound, RecordIntent, Goto, Abandon, Held
  <2> QED
    BY <2>2, <2>3
<1>6. RevisionsHoldTheirOwn' /\ RecoveryIsSound'
  BY <1>1 DEF ArtifactInvariant, RevisionsHoldTheirOwn, RecoveryIsSound, RecordIntent
<1> QED
  BY <1>2, <1>4, <1>5, <1>6 DEF ArtifactInvariant

(* A promoted payload is intended.                                            *)
LEMMA PromoteKeeps ==
  ASSUME ArtifactInvariant, NEW t \in Thread, Promote(t)
  PROVE  ArtifactInvariant'
<1>1. phase = "open" /\ Held(t) /\ job[t].tx \in Tx /\ job[t].digest \in Digest /\ step[t] = "promote"
  BY HeldPut, AtHeld DEF ArtifactInvariant, Promote
<1>2. TypeOK'
  BY <1>1 DEF ArtifactInvariant, TypeOK, Promote, Goto, Steps
<1>3. payload' = payload \union {job[t].digest} /\ intents[job[t].tx] = job[t].digest
  BY <1>1 DEF ArtifactInvariant, PutsAreSound, Promote
<1>4. PayloadKept'
  <2>1. OrphansAreIntended'
    BY <1>1, <1>3 DEF ArtifactInvariant, PayloadKept, OrphansAreIntended, Registered, Promote
  <2> QED
    BY <1>3, <2>1 DEF ArtifactInvariant, PayloadKept, ResultsAreHeld, LifecycleIsDerived, Registered,
                Referenced, Promote
<1>5. PutsAreSound'
  BY <1>1, <1>3 DEF ArtifactInvariant, PutsAreSound, Held, TypeOK, Promote, Goto
<1>6. RevisionsHoldTheirOwn' /\ RecoveryIsSound'
  BY <1>1 DEF ArtifactInvariant, RevisionsHoldTheirOwn, RecoveryIsSound, Promote
<1> QED
  BY <1>2, <1>4, <1>5, <1>6 DEF ArtifactInvariant

(* A row is registered for a payload that is there, and makes it active when  *)
(* it is bound.                                                               *)
LEMMA RegisterKeeps ==
  ASSUME ArtifactInvariant, NEW t \in Thread, Register(t)
  PROVE  ArtifactInvariant'
<1> DEFINE p == job[t]
<1>1. /\ phase = "open" /\ Held(t) /\ step[t] = "register"
      /\ p \in Put /\ p.tx \in Tx /\ p.digest \in Digest /\ p.owner \in Owner \union {None}
      /\ p.owner \notin Bundle /\ p.meta \in Meta /\ p.meta # None /\ p.digest # None
      /\ p.digest \in payload /\ intents[p.tx] = p.digest
  BY HeldPut, AtHeld DEF ArtifactInvariant, PutsAreSound, Register
<1>2. CASE Conflicts(p)
  <2>1. UNCHANGED <<phase, staging, payload, intents, rows, refs, active, recovery, stuck, owners, faults>>
    BY <1>2 DEF Register
  <2>2. job' = [job EXCEPT ![t] = None] /\ step' = [step EXCEPT ![t] = "idle"]
    BY <1>2 DEF Register, Abandon, Goto
  <2>3. TypeOK'
    BY <2>1, <2>2 DEF ArtifactInvariant, TypeOK, Steps
  <2>4. PayloadKept'
    BY <2>1, StoreStays DEF ArtifactInvariant
  <2>5. PutsAreSound'
    BY <2>1, <2>2 DEF ArtifactInvariant, PutsAreSound, Held, TypeOK
  <2>6. RevisionsHoldTheirOwn' /\ RecoveryIsSound'
    BY <1>1, <2>1 DEF ArtifactInvariant, RevisionsHoldTheirOwn, RecoveryIsSound
  <2> QED
    BY <2>3, <2>4, <2>5, <2>6 DEF ArtifactInvariant
<1>3. CASE ~Conflicts(p)
  <2>1. /\ rows' = [rows EXCEPT ![p.digest] = p.meta]
        /\ refs' = IF p.owner = None THEN refs ELSE [refs EXCEPT ![p.owner] = p.digest]
        /\ active' = IF \E o \in Owner : refs'[o] = p.digest THEN active \union {p.digest}
                     ELSE active \ {p.digest}
        /\ intents' = [intents EXCEPT ![p.tx] = None]
        /\ step' = [step EXCEPT ![t] = "tidy"] /\ job' = job
        /\ UNCHANGED <<phase, staging, payload, recovery, stuck, owners, faults>>
    BY <1>3 DEF Register, DeriveLifecycle, Goto
  <2>2. p.owner # None => refs[p.owner] \in {None, p.digest}
    BY <1>3 DEF Conflicts
  <2> HIDE DEF p
  <2>3. TypeOK'
    BY <1>1, <2>1 DEF ArtifactInvariant, TypeOK, Steps
  <2>4. Registered' = Registered \union {p.digest}
    BY <1>1, <2>1 DEF Registered, ArtifactInvariant, TypeOK
  <2>5. \A o \in Owner : /\ refs'[o] = IF o = p.owner THEN p.digest ELSE refs[o]
                         /\ refs'[o] # p.digest => refs'[o] = refs[o]
    BY <1>1, <2>1, NoneIsNothing DEF ArtifactInvariant, TypeOK
  <2>6. PayloadKept'
    <3>1. Registered' \subseteq payload'
      BY <1>1, <2>1, <2>4 DEF ArtifactInvariant, PayloadKept
    <3>2. ResultsAreHeld'
      BY <1>1, <2>1, <2>4, <2>5 DEF ArtifactInvariant, PayloadKept, ResultsAreHeld, TypeOK
    <3>3. LifecycleIsDerived'
      <4>1. \A d \in Digest : d # p.digest => (d \in Referenced' <=> d \in Referenced)
        BY <1>1, <2>2, <2>5, NoneIsNothing DEF Referenced
      <4>2. p.digest \in Referenced' <=> p.digest \in active'
        BY <1>1, <2>1 DEF Referenced
      <4>3. \A d \in Digest : d # p.digest => (d \in active' <=> d \in active)
        BY <2>1
      <4>4. active = Referenced /\ Referenced \subseteq Registered
        BY DEF ArtifactInvariant, PayloadKept, LifecycleIsDerived
      <4>5. active' \subseteq Digest /\ Referenced' \subseteq Digest
        BY <2>3 DEF TypeOK, Referenced
      <4>6. active' = Referenced'
        BY <4>1, <4>2, <4>3, <4>4, <4>5
      <4>7. Referenced' \subseteq Registered'
        BY <4>1, <4>4, <4>5, <2>4
      <4> QED
        BY <4>6, <4>7 DEF LifecycleIsDerived
    <3>4. OrphansAreIntended'
      <4>1. \A d \in payload \ Registered : \E x \in Tx : intents[x] = d
        BY DEF ArtifactInvariant, PayloadKept, OrphansAreIntended
      <4>2. \A d \in payload' \ Registered' : d \in payload \ Registered /\ d # p.digest
        BY <2>1, <2>4
      <4>3. \A x \in Tx : intents[x] # p.digest => intents'[x] = intents[x]
        BY <1>1, <2>1 DEF ArtifactInvariant, TypeOK
      <4>4. \A d \in payload' \ Registered' : \E x \in Tx : intents'[x] = d
        BY <4>1, <4>2, <4>3
      <4> QED
        BY <4>4 DEF OrphansAreIntended
    <3> QED
      BY <3>1, <3>2, <3>3, <3>4 DEF PayloadKept
  <2>7. PutsAreSound'
    <3> SUFFICES ASSUME NEW u \in Thread, Held(u)
                 PROVE  LET q == job[u]
                        IN  /\ phase = "open" /\ q.thread = u
                            /\ step'[u] \in {"promote", "register"} => intents'[q.tx] = q.digest
                            /\ step'[u] = "register" => q.digest \in payload
                            /\ step'[u] = "tidy" => /\ rows'[q.digest] # None
                                                    /\ q.owner # None => refs'[q.owner] = q.digest
      BY <2>1 DEF PutsAreSound, Held
    <3>1. job[u].digest \in Digest /\ job[u].owner \in Owner \union {None} /\ job[u].tx \in Tx
      BY HeldPut DEF ArtifactInvariant
    <3>2. CASE u = t
      <4>1. step'[u] = "tidy" /\ job[u] = p
        BY <1>1, <2>1, <3>2 DEF ArtifactInvariant, TypeOK, p
      <4>2. rows'[p.digest] # None
        BY <1>1, <2>1 DEF ArtifactInvariant, TypeOK
      <4>3. p.owner # None => refs'[p.owner] = p.digest
        BY <1>1, <2>5
      <4>4. phase = "open" /\ job[u].thread = u
        BY DEF ArtifactInvariant, PutsAreSound
      <4> QED
        BY <4>1, <4>2, <4>3, <4>4
    <3>3. CASE u # t
      <4>1. job[u].tx # p.tx
        BY <1>1, <3>3, TxsDiffer DEF ArtifactInvariant, p
      <4>2. step'[u] = step[u] /\ intents'[job[u].tx] = intents[job[u].tx]
        BY <2>1, <3>1, <3>3, <4>1, <1>1 DEF ArtifactInvariant, TypeOK
      <4>3. rows[job[u].digest] # None => rows'[job[u].digest] # None
        BY <1>1, <2>1, <3>1 DEF ArtifactInvariant, TypeOK
      <4>4. job[u].owner # None /\ refs[job[u].owner] = job[u].digest
              => refs'[job[u].owner] = job[u].digest
        <5>1. ASSUME job[u].owner = p.owner, p.owner # None, refs[job[u].owner] = job[u].digest
              PROVE  job[u].digest = p.digest
          BY <5>1, <2>2, <3>1, NoneIsNothing
        <5> QED
          BY <5>1, <2>5, <3>1
      <4> QED
        BY <4>2, <4>3, <4>4 DEF ArtifactInvariant, PutsAreSound
    <3> QED
      BY <3>2, <3>3
  <2>8. RevisionsHoldTheirOwn'
    <3>1. \A b \in Bundle : b # p.owner /\ refs'[b] = refs[b]
      BY <1>1, <2>5, ImportShape
    <3> QED
      BY <2>1, <3>1 DEF ArtifactInvariant, RevisionsHoldTheirOwn
  <2>9. RecoveryIsSound'
    BY <1>1, <2>1 DEF RecoveryIsSound
  <2> QED
    BY <2>3, <2>6, <2>7, <2>8, <2>9 DEF ArtifactInvariant
<1> QED
  BY <1>2, <1>3

(* What a put has bound is what its assessment holds.                         *)
LEMMA TidyKeeps ==
  ASSUME ArtifactInvariant, NEW t \in Thread, Tidy(t)
  PROVE  ArtifactInvariant'
<1> DEFINE p == job[t]
<1>1. /\ phase = "open" /\ Held(t) /\ step[t] = "tidy"
      /\ p.tx \in Tx /\ p.digest \in Digest /\ p.owner \in Owner \union {None} /\ p.owner \notin Bundle
      /\ p.digest # None /\ rows[p.digest] # None
      /\ p.owner # None => refs[p.owner] = p.digest
  BY HeldPut, AtHeld DEF ArtifactInvariant, PutsAreSound, Tidy
<1>2. /\ staging' = [staging EXCEPT ![p.tx] = Absent] /\ owners' = owners \union ({p.owner} \ {None})
      /\ job' = [job EXCEPT ![t] = None] /\ step' = [step EXCEPT ![t] = "idle"]
      /\ UNCHANGED <<phase, payload, intents, rows, refs, active, recovery, stuck, faults>>
  BY DEF Tidy, Abandon, Goto
<1> HIDE DEF p
<1>3. TypeOK'
  BY <1>1, <1>2 DEF ArtifactInvariant, TypeOK, Steps
<1>4. PayloadKept'
  <2>1. ResultsAreHeld'
    <3>1. \A o \in owners' : o \in owners \/ (o = p.owner /\ p.owner # None)
      BY <1>2
    <3>2. p.owner # None => refs[p.owner] # None /\ refs[p.owner] \in Registered
      BY <1>1 DEF Registered
    <3>3. \A o \in owners : refs[o] # None /\ refs[o] \in Registered
      BY DEF ArtifactInvariant, PayloadKept, ResultsAreHeld
    <3>4. Registered' = Registered
      BY <1>2 DEF Registered
    <3> QED
      BY <1>2, <3>1, <3>2, <3>3, <3>4 DEF ResultsAreHeld
  <2> QED
    BY <1>2, <2>1 DEF ArtifactInvariant, PayloadKept, LifecycleIsDerived, OrphansAreIntended,
                      Registered, Referenced
<1>5. PutsAreSound'
  BY <1>2 DEF ArtifactInvariant, PutsAreSound, Held, TypeOK
<1>6. RevisionsHoldTheirOwn' /\ RecoveryIsSound'
  BY <1>1, <1>2 DEF ArtifactInvariant, RevisionsHoldTheirOwn, RecoveryIsSound
<1> QED
  BY <1>3, <1>4, <1>5, <1>6 DEF ArtifactInvariant

(* A step of a put keeps the store as it should be.                           *)
LEMMA PutKeeps ==
  ASSUME ArtifactInvariant, NEW t \in Thread, PutStep(t) \/ FailPut(t)
  PROVE  ArtifactInvariant'
BY StageKeeps, FailureKeeps, RecordIntentKeeps, PromoteKeeps, RegisterKeeps, TidyKeeps DEF PutStep

(* An assessment that failed releases what it has put, and nothing else.      *)
LEMMA ReleaseKeeps ==
  ASSUME ArtifactInvariant, NEW o \in Owner, RemoveReference(o)
  PROVE  ArtifactInvariant'
<1> DEFINE d == refs[o]
<1>1. /\ phase = "open" /\ o \in owners /\ \A t \in Thread : Held(t) => job[t].owner = None
      /\ refs' = [refs EXCEPT ![o] = None] /\ owners' = owners \ {o}
      /\ active' = IF \E q \in Owner : refs'[q] = d THEN active \union {d} ELSE active \ {d}
      /\ UNCHANGED <<phase, staging, payload, intents, rows, job, step, recovery, stuck, faults>>
  BY DEF RemoveReference, DeriveLifecycle, Held
<1>2. d \in Digest /\ d \in Registered /\ d # None
  BY <1>1 DEF ArtifactInvariant, PayloadKept, ResultsAreHeld, Registered
<1> HIDE DEF d
<1>3. TypeOK'
  BY <1>1, <1>2 DEF ArtifactInvariant, TypeOK
<1>4. Registered' = Registered
  BY <1>1 DEF Registered
<1>5. \A q \in Owner : refs'[q] = IF q = o THEN None ELSE refs[q]
  BY <1>1 DEF ArtifactInvariant, TypeOK
<1>6. PayloadKept'
  <2>1. ResultsAreHeld'
    BY <1>1, <1>4, <1>5 DEF ArtifactInvariant, PayloadKept, ResultsAreHeld, TypeOK
  <2>2. LifecycleIsDerived'
    <3>1. \A e \in Digest : e # d => (e \in Referenced' <=> e \in Referenced)
      BY <1>5, NoneIsNothing DEF Referenced, d
    <3>2. d \in Referenced' <=> d \in active'
      BY <1>1, <1>2 DEF Referenced
    <3>3. \A e \in Digest : e # d => (e \in active' <=> e \in active)
      BY <1>1
    <3>4. active = Referenced /\ Referenced \subseteq Registered
      BY DEF ArtifactInvariant, PayloadKept, LifecycleIsDerived
    <3>5. active' \subseteq Digest /\ Referenced' \subseteq Digest
      BY <1>3 DEF TypeOK, Referenced
    <3>6. active' = Referenced'
      BY <3>1, <3>2, <3>3, <3>4, <3>5
    <3>7. Referenced' \subseteq Registered'
      BY <1>2, <1>4, <3>1, <3>4, <3>5
    <3> QED
      BY <3>6, <3>7 DEF LifecycleIsDerived
  <2> QED
    BY <1>1, <1>4, <2>1, <2>2 DEF ArtifactInvariant, PayloadKept, OrphansAreIntended
<1>7. PutsAreSound'
  BY <1>1 DEF ArtifactInvariant, PutsAreSound, Held
<1>8. RevisionsHoldTheirOwn'
  <2>1. o \notin Bundle
    BY <1>1 DEF ArtifactInvariant, RevisionsHoldTheirOwn
  <2> QED
    BY <1>1, <1>5, <2>1, ImportShape DEF ArtifactInvariant, RevisionsHoldTheirOwn
<1>9. RecoveryIsSound'
  BY <1>1 DEF RecoveryIsSound
<1> QED
  BY <1>3, <1>6, <1>7, <1>8, <1>9 DEF ArtifactInvariant

(* An assessment that is over keeps what it has put.                          *)
LEMMA FinishKeeps ==
  ASSUME ArtifactInvariant, FinishAssessment
  PROVE  ArtifactInvariant'
<1>1. /\ phase = "open" /\ owners' = {}
      /\ UNCHANGED <<phase, staging, payload, intents, rows, refs, active, job, step, recovery,
                     stuck, faults>>
  BY DEF FinishAssessment
<1>2. TypeOK' /\ PutsAreSound' /\ RevisionsHoldTheirOwn' /\ RecoveryIsSound'
  BY <1>1 DEF ArtifactInvariant, TypeOK, PutsAreSound, Held, RevisionsHoldTheirOwn, RecoveryIsSound
<1>3. PayloadKept'
  BY <1>1 DEF ArtifactInvariant, PayloadKept, ResultsAreHeld, LifecycleIsDerived, OrphansAreIntended,
              Registered, Referenced
<1> QED
  BY <1>2, <1>3 DEF ArtifactInvariant

------------------------------------------------------------------------------
(* The recovery of the artifacts, and the end of a process.                   *)

(* While the project is not open nothing is in hand.                          *)
LEMMA NothingInHand ==
  ASSUME PutsAreSound, phase # "open"
  PROVE  \A t \in Thread : ~Held(t)
BY DEF PutsAreSound

(* Steps outside an open project that keep rows, bindings and puts.           *)
LEMMA RecoveryKeeps ==
  ASSUME ArtifactInvariant, TypeOK', RecoveryIsSound', phase # "open",
         UNCHANGED <<rows, refs, active, job, owners>>,
         Registered \subseteq payload',
         \A d \in payload' \ Registered : d \in payload /\ \E x \in Tx : intents'[x] = d
  PROVE  ArtifactInvariant'
<1>1. PutsAreSound'
  BY NothingInHand DEF ArtifactInvariant, PutsAreSound, Held
<1>2. PayloadKept'
  BY DEF ArtifactInvariant, PayloadKept, ResultsAreHeld, LifecycleIsDerived, OrphansAreIntended,
         Registered, Referenced
<1>3. RevisionsHoldTheirOwn'
  BY DEF ArtifactInvariant, RevisionsHoldTheirOwn
<1> QED
  BY <1>1, <1>2, <1>3 DEF ArtifactInvariant

(* Orphans stay intended when neither payloads nor intents change.            *)
LEMMA StartKeeps ==
  ASSUME ArtifactInvariant, StartRecovery
  PROVE  ArtifactInvariant'
<1>1. /\ phase = "closed" /\ phase' = "recovering"
      /\ recovery' = [at |-> "intents", todo |-> {x \in Tx : intents[x] # None},
                      intended |-> {x \in Tx : intents[x] # None}, known |-> Registered]
      /\ UNCHANGED <<staging, payload, intents, rows, refs, active, job, step, stuck, owners, faults>>
  BY DEF StartRecovery
<1>2. TypeOK'
  BY <1>1 DEF ArtifactInvariant, TypeOK, Registered
<1>3. RecoveryIsSound'
  BY <1>1 DEF RecoveryIsSound, Intended, Registered
<1>4. Registered \subseteq payload' /\ \A d \in payload' \ Registered : \E x \in Tx : intents'[x] = d
  BY <1>1 DEF ArtifactInvariant, PayloadKept, OrphansAreIntended
<1> QED
  BY <1>1, <1>2, <1>3, <1>4, RecoveryKeeps

(* The staging file of an intent goes first.                                  *)
LEMMA RecoverStagingKeeps ==
  ASSUME ArtifactInvariant, NEW x \in Tx, RecoverStaging(x)
  PROVE  ArtifactInvariant'
<1>1. /\ phase = "recovering" /\ recovery.at = "intents" /\ x \in recovery.todo
      /\ staging' = [staging EXCEPT ![x] = Absent]
      /\ recovery' = [at |-> "orphan", todo |-> {x}, intended |-> recovery.intended,
                      known |-> recovery.known]
      /\ UNCHANGED <<phase, payload, intents, rows, refs, active, job, step, stuck, owners, faults>>
  BY DEF RecoverStaging, Recovering, Continue
<1>2. TypeOK'
  BY <1>1 DEF ArtifactInvariant, TypeOK
<1>3. RecoveryIsSound'
  BY <1>1 DEF ArtifactInvariant, TypeOK, RecoveryIsSound, Intended, Registered
<1>4. Registered \subseteq payload' /\ \A d \in payload' \ Registered : \E y \in Tx : intents'[y] = d
  BY <1>1 DEF ArtifactInvariant, PayloadKept, OrphansAreIntended
<1> QED
  BY <1>1, <1>2, <1>3, <1>4, RecoveryKeeps

(* Then its payload, unless a row owns it.                                    *)
LEMMA RecoverOrphanKeeps ==
  ASSUME ArtifactInvariant, NEW x \in Tx, RecoverOrphan(x)
  PROVE  ArtifactInvariant'
<1>1. /\ phase = "recovering" /\ recovery.at = "orphan" /\ x \in recovery.todo
      /\ payload' = IF intents[x] \in recovery.known THEN payload ELSE payload \ {intents[x]}
      /\ recovery' = [at |-> "clear", todo |-> {x}, intended |-> recovery.intended,
                      known |-> recovery.known]
      /\ UNCHANGED <<phase, staging, intents, rows, refs, active, job, step, stuck, owners, faults>>
  BY DEF RecoverOrphan, Recovering, Continue
<1>2. TypeOK'
  BY <1>1 DEF ArtifactInvariant, TypeOK
<1>3. recovery.known = Registered /\ Registered' = Registered
  BY <1>1 DEF ArtifactInvariant, RecoveryIsSound, Registered
<1>4. RecoveryIsSound'
  <2>1. /\ \A y \in Tx : Intended(y)' <=> Intended(y)
        /\ \A y \in recovery.intended : ~Intended(y) => staging[y] = Absent
        /\ \A y \in Tx : Intended(y) => y \in recovery.intended
        /\ staging[x] = Absent
    BY <1>1 DEF ArtifactInvariant, RecoveryIsSound, Intended
  <2>2. \A y \in {x} : intents'[y] \in Registered' \/ intents'[y] \notin payload'
    BY <1>1, <1>3
  <2>3. recovery.intended \subseteq Tx
    BY DEF ArtifactInvariant, TypeOK
  <2> QED
    BY <1>1, <1>3, <2>1, <2>2, <2>3 DEF RecoveryIsSound
<1>5. Registered \subseteq payload' /\ \A d \in payload' \ Registered : d \in payload /\ \E y \in Tx : intents'[y] = d
  BY <1>1, <1>3 DEF ArtifactInvariant, PayloadKept, OrphansAreIntended
<1> QED
  BY <1>1, <1>2, <1>4, <1>5, RecoveryKeeps

(* Then the intent, and the next one is read.                                 *)
LEMMA ClearIntentKeeps ==
  ASSUME ArtifactInvariant, NEW x \in Tx, ClearIntent(x)
  PROVE  ArtifactInvariant'
<1>1. /\ phase = "recovering" /\ recovery.at = "clear" /\ x \in recovery.todo
      /\ intents' = [intents EXCEPT ![x] = None]
      /\ recovery' = [at |-> "intents", todo |-> {y \in recovery.intended : intents'[y] # None},
                      intended |-> recovery.intended, known |-> recovery.known]
      /\ UNCHANGED <<phase, staging, payload, rows, refs, active, job, step, stuck, owners, faults>>
  BY DEF ClearIntent, Recovering, Continue
<1>2. /\ recovery.intended \subseteq Tx
      /\ \A y \in Tx : intents'[y] = IF y = x THEN None ELSE intents[y]
  BY <1>1 DEF ArtifactInvariant, TypeOK
<1>3. TypeOK'
  BY <1>1, <1>2 DEF ArtifactInvariant, TypeOK
<1>4. /\ recovery.known = Registered /\ Registered' = Registered
      /\ \A y \in Tx : Intended(y) => y \in recovery.intended
      /\ \A y \in recovery.intended : ~Intended(y) => staging[y] = Absent
      /\ staging[x] = Absent /\ (intents[x] \in Registered \/ intents[x] \notin payload)
  BY <1>1 DEF ArtifactInvariant, RecoveryIsSound, Registered
<1>5. RecoveryIsSound'
  BY <1>1, <1>2, <1>4 DEF RecoveryIsSound, Intended
<1>6. Registered \subseteq payload' /\ \A d \in payload' \ Registered : d \in payload /\ \E y \in Tx : intents'[y] = d
  BY <1>1, <1>2, <1>4 DEF ArtifactInvariant, PayloadKept, OrphansAreIntended
<1> QED
  BY <1>1, <1>3, <1>5, <1>6, RecoveryKeeps

(* The sweeps remove what nothing accounts for.                               *)
LEMMA SweepsKeep ==
  ASSUME ArtifactInvariant, BeginSweep \/ SweepStaging
  PROVE  ArtifactInvariant'
<1>1. /\ phase = "recovering"
      /\ UNCHANGED <<phase, payload, intents, rows, refs, active, job, step, stuck, owners, faults>>
  BY DEF BeginSweep, SweepStaging, Recovering
<1>2. TypeOK'
  BY DEF ArtifactInvariant, TypeOK, BeginSweep, SweepStaging, Continue
<1>3. /\ recovery.intended \subseteq Tx /\ recovery.known = Registered /\ Registered' = Registered
      /\ \A y \in Tx : Intended(y) => y \in recovery.intended
      /\ \A y \in recovery.intended : ~Intended(y) => staging[y] = Absent
      /\ recovery.at = "intents" => \A x \in Tx : Intended(x) => x \in recovery.todo
      /\ recovery.at = "staging" => \A x \in Tx : ~Intended(x)
      /\ \A x \in Tx : Intended(x)' <=> Intended(x)
  BY <1>1 DEF ArtifactInvariant, TypeOK, RecoveryIsSound, Registered, Intended
<1>4. RecoveryIsSound'
  <2>1. CASE BeginSweep
    BY <1>1, <1>3, <2>1 DEF RecoveryIsSound, BeginSweep, Recovering, Continue
  <2>2. CASE SweepStaging
    <3>1. recovery.at = "staging" /\ recovery'.known = recovery.known /\ recovery'.intended = recovery.intended
      BY <2>2 DEF SweepStaging, Recovering, Continue
    <3>2. \A x \in Tx : staging[x] = Absent => staging'[x] = Absent
      BY <2>2 DEF SweepStaging, ArtifactInvariant, TypeOK
    <3>3. \/ recovery' = recovery
          \/ recovery'.at = "payloads" /\ \A x \in Tx \ recovery.intended : staging'[x] = Absent
      BY <2>2 DEF SweepStaging, Continue
    <3> QED
      BY <1>1, <1>3, <3>1, <3>2, <3>3 DEF RecoveryIsSound
  <2> QED
    BY <2>1, <2>2
<1>5. Registered \subseteq payload' /\ \A d \in payload' \ Registered : d \in payload /\ \E y \in Tx : intents'[y] = d
  BY <1>1 DEF ArtifactInvariant, PayloadKept, OrphansAreIntended
<1> QED
  BY <1>1, <1>2, <1>4, <1>5, RecoveryKeeps

(* When the last payload without a row is gone the store is open, and clean.  *)
LEMMA SweepPayloadsKeeps ==
  ASSUME ArtifactInvariant, SweepPayloads
  PROVE  /\ ArtifactInvariant'
         /\ phase' = "open" => /\ payload' = Registered'
                               /\ \A x \in Tx : staging'[x] = Absent /\ intents'[x] = None
<1>1. /\ phase = "recovering" /\ recovery.at = "payloads"
      /\ UNCHANGED <<staging, intents, rows, refs, active, job, step, stuck, owners, faults>>
  BY DEF SweepPayloads, Recovering
<1>2. /\ recovery.known = Registered /\ Registered' = Registered
      /\ \A x \in Tx : ~Intended(x) /\ staging[x] = Absent
  BY <1>1 DEF ArtifactInvariant, RecoveryIsSound, Registered
<1>3. \/ /\ \E d \in payload \ Registered : payload' = payload \ {d}
         /\ UNCHANGED <<phase, recovery>>
      \/ payload \subseteq Registered /\ phase' = "open" /\ recovery' = NoRecovery /\ payload' = payload
  BY <1>2 DEF SweepPayloads
<1>4. TypeOK'
  BY <1>1, <1>3 DEF ArtifactInvariant, TypeOK, NoRecovery
<1>5. RecoveryIsSound'
  BY <1>1, <1>2, <1>3 DEF ArtifactInvariant, RecoveryIsSound, Intended
<1>6. Registered \subseteq payload' /\ \A d \in payload' \ Registered : d \in payload /\ \E y \in Tx : intents'[y] = d
  BY <1>1, <1>3 DEF ArtifactInvariant, PayloadKept, OrphansAreIntended
<1>7. ArtifactInvariant'
  BY <1>1, <1>4, <1>5, <1>6, RecoveryKeeps
<1>8. phase' = "open" => payload' = Registered'
  BY <1>1, <1>2, <1>3, <1>6
<1> QED
  BY <1>1, <1>2, <1>7, <1>8 DEF Intended

(* A project that closes, or a process that stops, leaves what is durable.    *)
LEMMA EndKeeps ==
  ASSUME ArtifactInvariant, Close \/ Crash
  PROVE  ArtifactInvariant'
<1>1. /\ phase' = "closed" /\ \A t \in Thread : ~Held(t)'
      /\ UNCHANGED <<staging, payload, intents, rows, refs, active>>
      /\ owners' \subseteq owners
  BY DEF Close, Crash, artifactVars, Held
<1>2. TypeOK'
  BY FaultBound DEF ArtifactInvariant, TypeOK, Close, Crash, artifactVars, NoRecovery, Steps
<1>3. PayloadKept'
  BY <1>1 DEF ArtifactInvariant, PayloadKept, ResultsAreHeld, LifecycleIsDerived, OrphansAreIntended,
              Registered, Referenced
<1>4. PutsAreSound' /\ RevisionsHoldTheirOwn' /\ RecoveryIsSound'
  BY <1>1 DEF ArtifactInvariant, PutsAreSound, RevisionsHoldTheirOwn, RecoveryIsSound
<1> QED
  BY <1>2, <1>3, <1>4 DEF ArtifactInvariant

(* What the import does beside the artifacts leaves them alone.               *)
LEMMA ArtifactsStay ==
  ASSUME ArtifactInvariant, UNCHANGED <<artifactVars, phase>>, faults' \in 0 .. MaxFaults
  PROVE  ArtifactInvariant'
<1>1. TypeOK' /\ PutsAreSound' /\ RevisionsHoldTheirOwn' /\ RecoveryIsSound'
  BY DEF ArtifactInvariant, TypeOK, PutsAreSound, Held, RevisionsHoldTheirOwn, RecoveryIsSound,
         Registered, Intended, artifactVars
<1>2. PayloadKept'
  BY StoreStays DEF ArtifactInvariant, artifactVars
<1> QED
  BY <1>1, <1>2 DEF ArtifactInvariant

------------------------------------------------------------------------------
(* The imports. A step of another thread, of a put or of the artifact recovery *)
(* changes nothing that an import relies on.                                   *)

\* What a step outside the imports does with what they read.
Elsewhere ==
  /\ UNCHANGED importVars
  /\ \A d \in Digest : rows[d] # None => rows'[d] # None
  /\ \A b \in Bundle : refs'[b] = refs[b]
  /\ job'[Requester] = job[Requester]
  /\ imp.step = "opening" => \A t \in Thread : ~Held(t)'
  /\ \/ stuck' = stuck
     \/ stuck = None /\ \E s \in {"intent", "register"} : stuck' = <<s>>

(* Such a step keeps the invariant of the imports.                             *)
LEMMA ElsewhereKeeps ==
  ASSUME InductiveInvariant, ArtifactInvariant', Elsewhere
  PROVE  ImportInvariant'
<1>1. /\ tree' = tree /\ final' = final /\ importing' = importing /\ revisions' = revisions
      /\ current' = current /\ receipts' = receipts /\ imp' = imp /\ cleanup' = cleanup
  BY DEF Elsewhere, importVars
<1>2. RevisionUsable'
  <2>1. SessionTypeOK'
    BY <1>1 DEF InductiveInvariant, ArtifactInvariant, ImportInvariant, RevisionUsable, SessionTypeOK
  <2>2. \A b \in revisions : /\ final[b] = "whole" /\ rows'[b] # None /\ b \in payload' /\ refs'[b] = b
                             /\ current[BundleSession(b)] # None
    <3>1. revisions \subseteq Bundle /\ Bundle \subseteq Digest
      BY ImportShape DEF InductiveInvariant, ImportInvariant, RevisionUsable, SessionTypeOK
    <3>2. \A d \in Digest : rows'[d] # None => d \in payload'
      BY DEF ArtifactInvariant, PayloadKept, Registered
    <3> QED
      BY <3>1, <3>2 DEF InductiveInvariant, ImportInvariant, RevisionUsable, Elsewhere
  <2> QED
    BY <1>1, <2>1, <2>2 DEF InductiveInvariant, ImportInvariant, RevisionUsable
<1>3. TreesAreAccounted' /\ ImportTyped' /\ CleanupTyped'
  BY <1>1 DEF InductiveInvariant, ImportInvariant, TreesAreAccounted, ImportTyped, CleanupTyped
<1>4. \/ stuck' = stuck
      \/ ~Open("session")' /\ ~Open("session intent")'
  <2>1. ASSUME NEW s \in {"intent", "register"}, stuck' = <<s>>
        PROVE  ~Open("session")' /\ ~Open("session intent")'
    <3>1. stuck'[1] = s
      BY <2>1
    <3> QED
      BY <3>1 DEF Open
  <2> QED
    BY <2>1 DEF Elsewhere
<1>5. OpenWritesAreSound'
  <2>1. CASE stuck' = stuck
    BY <1>1, <2>1 DEF InductiveInvariant, ImportInvariant, OpenWritesAreSound, Open
  <2>2. CASE ~(stuck' = stuck)
    BY <1>4, <2>2 DEF OpenWritesAreSound
  <2> QED
    BY <2>1, <2>2
<1>6. ImportIsSound'
  <2>1. imp.step \in {"intent", "promote", "register"} => imp.bundle \in Digest
    BY ImportShape DEF InductiveInvariant, ImportInvariant, ImportTyped, Copied
  <2> QED
    BY <1>1, <2>1 DEF InductiveInvariant, ImportInvariant, ImportIsSound, Elsewhere, Held, ReportOf
<1>7. stuck' = None => stuck = None
  BY DEF Elsewhere
<1>8. IntentsAreSingle' /\ CleanupIsSound'
  BY <1>1, <1>7 DEF InductiveInvariant, ImportInvariant, IntentsAreSingle, CleanupIsSound, Cleaning
<1> QED
  BY <1>2, <1>3, <1>5, <1>6, <1>8 DEF ImportInvariant

(* A put keeps rows and what revisions hold, and leaves other puts alone.      *)
LEMMA PutsElsewhere ==
  ASSUME ArtifactInvariant, NEW t \in Thread, PutStep(t) \/ FailPut(t)
  PROVE  /\ \A d \in Digest : rows[d] # None => rows'[d] # None
         /\ \A b \in Bundle : refs'[b] = refs[b]
         /\ \A u \in Thread : u # t => job'[u] = job[u]
         /\ \A u \in Thread : Held(u)' => Held(u)
         /\ phase = "open" /\ phase' = phase /\ Held(t)
         /\ \/ stuck' = stuck
            \/ stuck = None /\ \E s \in {"intent", "register"} : stuck' = <<s>>
<1>1. Held(t) /\ phase = "open"
  BY AtHeld DEF PutStep, FailPut, Stage, Write, Refused, RecordIntent, Promote, Register, Tidy, At, Held
<1>2. /\ job[t].digest \in Digest /\ job[t].meta # None /\ job[t].owner \notin Bundle
  BY <1>1, HeldPut DEF ArtifactInvariant
<1>3. job' = job \/ job' = [job EXCEPT ![t] = None]
  BY DEF PutStep, FailPut, Stage, Write, Refused, RecordIntent, Promote, Register, Tidy, Abandon
<1>4. /\ \A u \in Thread : u # t => job'[u] = job[u]
      /\ \A u \in Thread : Held(u)' => Held(u)
  BY <1>3 DEF ArtifactInvariant, TypeOK, Held
<1>5. rows' = rows \/ rows' = [rows EXCEPT ![job[t].digest] = job[t].meta]
  BY DEF PutStep, FailPut, Stage, Write, Refused, RecordIntent, Promote, Register, Tidy, Abandon
<1>6. refs' = refs \/ refs' = [refs EXCEPT ![job[t].owner] = job[t].digest]
  BY DEF PutStep, FailPut, Stage, Write, Refused, RecordIntent, Promote, Register, Tidy, Abandon
<1>7. phase' = phase
  BY DEF PutStep, FailPut, Stage, Write, Refused, RecordIntent, Promote, Register, Tidy, Abandon
<1>8. \/ stuck' = stuck
      \/ stuck = None /\ \E s \in {"intent", "register"} : stuck' = <<s>>
  BY DEF PutStep, FailPut, Stage, Write, Refused, RecordIntent, Promote, Register, Tidy, Abandon
<1>9. \A d \in Digest : rows[d] # None => rows'[d] # None
  BY <1>2, <1>5 DEF ArtifactInvariant, TypeOK
<1>10. \A b \in Bundle : refs'[b] = refs[b]
  BY <1>2, <1>6, ImportShape DEF ArtifactInvariant, TypeOK
<1> QED
  BY <1>1, <1>4, <1>7, <1>8, <1>9, <1>10

(* The steps of the worker thread keep everything.                             *)
LEMMA WorkerKeeps ==
  ASSUME InductiveInvariant, WorkerStep
  PROVE  InductiveInvariant'
<1>1. UNCHANGED importVars /\ (Serving \/ imp.step # "opening")
  BY DEF WorkerStep
<1>2. imp.step # "opening"
  BY <1>1 DEF Serving, InductiveInvariant, ImportInvariant, ImportIsSound
<1>3. ASSUME NEW p \in Put, p.thread # Requester, BeginPut(p)
      PROVE  InductiveInvariant'
  <2>1. ArtifactInvariant'
    BY <1>3, BeginPutKeeps DEF InductiveInvariant
  <2>2. Elsewhere
    BY <1>1, <1>2, <1>3, ImportShape DEF Elsewhere, BeginPut, InductiveInvariant, ArtifactInvariant, TypeOK
  <2> QED
    BY <2>1, <2>2, ElsewhereKeeps DEF InductiveInvariant
<1>4. ASSUME NEW t \in Thread \ {Requester}, PutStep(t) \/ FailPut(t)
      PROVE  InductiveInvariant'
  <2>1. ArtifactInvariant'
    BY <1>4, PutKeeps DEF InductiveInvariant
  <2>2. Elsewhere
    BY <1>1, <1>2, <1>4, PutsElsewhere, ImportShape DEF Elsewhere, InductiveInvariant
  <2> QED
    BY <2>1, <2>2, ElsewhereKeeps DEF InductiveInvariant
<1>5. ASSUME NEW o \in Owner, RemoveReference(o)
      PROVE  InductiveInvariant'
  <2>1. ArtifactInvariant'
    BY <1>5, ReleaseKeeps DEF InductiveInvariant
  <2>2. o \notin Bundle
    BY <1>5 DEF RemoveReference, InductiveInvariant, ArtifactInvariant, RevisionsHoldTheirOwn
  <2>3. Elsewhere
    BY <1>1, <1>2, <1>5, <2>2, ImportShape
    DEF Elsewhere, RemoveReference, InductiveInvariant, ArtifactInvariant, TypeOK
  <2> QED
    BY <2>1, <2>3, ElsewhereKeeps DEF InductiveInvariant
<1>6. ASSUME FinishAssessment PROVE InductiveInvariant'
  <2>1. ArtifactInvariant'
    BY <1>6, FinishKeeps DEF InductiveInvariant
  <2>2. Elsewhere
    BY <1>1, <1>2, <1>6 DEF Elsewhere, FinishAssessment
  <2> QED
    BY <2>1, <2>2, ElsewhereKeeps DEF InductiveInvariant
<1> QED
  BY <1>3, <1>4, <1>5, <1>6 DEF WorkerStep

------------------------------------------------------------------------------
(* Opening and closing a project, and the steps of the cleanup.                *)

\* What the steps of the import and of its cleanup do with the artifacts: nothing.
ArtifactsAside ==
  UNCHANGED <<artifactVars, phase>> /\ faults' \in 0 .. MaxFaults

(* Where the artifacts stay, their part of the invariant does.                 *)
LEMMA AsideKeeps ==
  ASSUME InductiveInvariant, ArtifactsAside, ImportInvariant'
  PROVE  InductiveInvariant'
BY ArtifactsStay DEF ArtifactsAside, InductiveInvariant

(* Without a step of the artifacts the bound on faults stays as it was.        *)
LEMMA NothingElsewhere ==
  ASSUME InductiveInvariant, UNCHANGED vars
  PROVE  ArtifactsAside /\ stuck' = stuck
BY DEF InductiveInvariant, ArtifactInvariant, TypeOK, ArtifactsAside, vars, artifactVars

(* What a revision needs of the artifacts, it has as long as they stay.        *)
LEMMA RevisionsStay ==
  ASSUME InductiveInvariant, ArtifactsAside, UNCHANGED <<revisions, current>>,
         \A b \in revisions : final'[b] = "whole",
         tree' \in [ImportTx -> {Absent, Partial} \union Bundle],
         final' \in [Bundle -> {Absent, Partial, "whole"}],
         importing' \in [ImportTx -> Bundle \union {None}],
         receipts' = receipts
  PROVE  RevisionUsable'
<1>1. SessionTypeOK'
  BY ArtifactsStay DEF ArtifactsAside, InductiveInvariant, ArtifactInvariant, ImportInvariant,
                       RevisionUsable, SessionTypeOK
<1>2. rows' = rows /\ payload' = payload /\ refs' = refs
  BY DEF ArtifactsAside, artifactVars
<1> QED
  BY <1>1, <1>2 DEF InductiveInvariant, ImportInvariant, RevisionUsable

(* A cleanup starts from what its connection sees: every revision, and unless  *)
(* a transaction is open the revisions and intents there are.                  *)
LEMMA SeenIsSound ==
  ASSUME InductiveInvariant
  PROVE  /\ SeenIntents \subseteq ImportTx /\ SeenRevisions \subseteq Bundle
         /\ revisions \subseteq SeenRevisions
         /\ stuck = None => /\ SeenRevisions = revisions
                            /\ SeenIntents = {x \in ImportTx : importing[x] # None}
<1>1. revisions \subseteq Bundle /\ OpenWritesAreSound
  BY DEF InductiveInvariant, ImportInvariant, RevisionUsable, SessionTypeOK
<1>2. stuck = None => ~Open("session") /\ ~Open("session intent")
  BY DEF Open
<1> QED
  BY <1>1, <1>2 DEF SeenIntents, SeenRevisions, OpenWritesAreSound

(* So the step that begins a cleanup makes it sound.                           *)
LEMMA BeginRecoverKeeps ==
  ASSUME InductiveInvariant, BeginRecover, UNCHANGED <<stuck, importing, revisions>>
  PROVE  CleanupTyped' /\ CleanupIsSound'
<1>1. cleanup' = [at |-> "tree", todo |-> SeenIntents, known |-> SeenRevisions]
  BY DEF BeginRecover
<1>2. CleanupTyped'
  BY <1>1, SeenIsSound DEF CleanupTyped
<1>3. CleanupIsSound'
  BY <1>1, SeenIsSound DEF CleanupIsSound, Cleaning
<1> QED
  BY <1>2, <1>3

(* The invariant of the imports, said of what one step may change.             *)
LEMMA NoImportKeeps ==
  ASSUME imp'.step \in Idle, imp' = [NoImport EXCEPT !.step = imp'.step]
  PROVE  ImportTyped'
BY DEF ImportTyped, NoImport, Idle, Chosen, Copied

(* Opening the project recovers the artifacts first.                           *)
LEMMA OpenProjectKeeps ==
  ASSUME InductiveInvariant, OpenProject
  PROVE  InductiveInvariant'
<1>1. ArtifactInvariant'
  BY StartKeeps, RecoverStagingKeeps, RecoverOrphanKeeps, ClearIntentKeeps, SweepsKeep
  DEF OpenProject, InductiveInvariant
<1>2. /\ phase # "open" /\ UNCHANGED <<rows, refs, job, stuck>> /\ UNCHANGED importVars
  BY DEF OpenProject, StartRecovery, RecoverStaging, RecoverOrphan, ClearIntent, BeginSweep,
         SweepStaging, Recovering
<1>3. Elsewhere
  BY <1>2, NothingInHand DEF Elsewhere, InductiveInvariant, ArtifactInvariant, Held
<1> QED
  BY <1>1, <1>3, ElsewhereKeeps DEF InductiveInvariant

(* Then the imports, with nothing in hand.                                     *)
LEMMA OpeningRecoversKeeps ==
  ASSUME InductiveInvariant, OpeningRecovers
  PROVE  InductiveInvariant'
<1>1. ArtifactInvariant'
  BY SweepPayloadsKeeps DEF OpeningRecovers, InductiveInvariant
<1>2. /\ phase # "open" /\ UNCHANGED <<rows, refs, job, stuck>>
      /\ UNCHANGED <<tree, final, importing, revisions, current, receipts>>
  BY DEF OpeningRecovers, SweepPayloads, Recovering
<1>3. \A t \in Thread : ~Held(t)'
  BY <1>2, NothingInHand DEF InductiveInvariant, ArtifactInvariant, Held
<1>4. CASE UNCHANGED <<imp, cleanup>>
  <2>1. Elsewhere
    BY <1>2, <1>3, <1>4 DEF Elsewhere, importVars
  <2> QED
    BY <1>1, <2>1, ElsewhereKeeps DEF InductiveInvariant
<1>5. CASE imp' = [NoImport EXCEPT !.step = "opening"] /\ BeginRecover
  <2>1. cleanup' = [at |-> "tree", todo |-> SeenIntents, known |-> SeenRevisions] /\ imp'.step = "opening"
    BY <1>5 DEF BeginRecover, NoImport
  <2>2. RevisionUsable'
    <3>1. SessionTypeOK'
      BY <1>1, <1>2 DEF InductiveInvariant, ArtifactInvariant, ImportInvariant, RevisionUsable, SessionTypeOK
    <3>2. \A b \in Bundle : rows[b] # None => b \in payload'
      BY <1>1, <1>2, ImportShape DEF ArtifactInvariant, PayloadKept, Registered
    <3>3. revisions \subseteq Bundle
      BY DEF InductiveInvariant, ImportInvariant, RevisionUsable, SessionTypeOK
    <3> QED
      BY <1>2, <3>1, <3>2, <3>3 DEF InductiveInvariant, ImportInvariant, RevisionUsable
  <2>3. TreesAreAccounted'
    BY <1>2, <2>1 DEF InductiveInvariant, ImportInvariant, TreesAreAccounted
  <2>4. ImportTyped'
    BY <1>5, <2>1, NoImportKeeps DEF Idle
  <2>5. CleanupTyped' /\ CleanupIsSound'
    BY <1>2, <1>5, BeginRecoverKeeps
  <2>6. OpenWritesAreSound'
    BY <1>2 DEF InductiveInvariant, ImportInvariant, OpenWritesAreSound, Open
  <2>7. ImportIsSound'
    BY <1>3, <2>1, ImportShape DEF ImportIsSound, Held
  <2>8. IntentsAreSingle'
    BY <1>2, <2>1 DEF InductiveInvariant, ImportInvariant, IntentsAreSingle
  <2> QED
    BY <1>1, <2>2, <2>3, <2>4, <2>5, <2>6, <2>7, <2>8 DEF InductiveInvariant, ImportInvariant
<1> QED
  BY <1>4, <1>5 DEF OpeningRecovers

(* A project closes between imports; a process stops anywhere, and what it     *)
(* had in hand and in an open transaction is gone.                             *)
LEMMA EndingKeeps ==
  ASSUME InductiveInvariant, CloseProject \/ ImportCrash
  PROVE  InductiveInvariant'
<1>1. ArtifactInvariant'
  BY EndKeeps DEF CloseProject, ImportCrash, InductiveInvariant
<1>2. CASE CloseProject
  <2>1. Elsewhere
    BY <1>2 DEF CloseProject, Close, artifactVars, Elsewhere, Held
  <2> QED
    BY <1>1, <2>1, ElsewhereKeeps DEF InductiveInvariant
<1>3. CASE ImportCrash
  <2>1. /\ UNCHANGED <<rows, refs, payload, tree, final, importing, revisions, current, receipts>>
        /\ imp' = NoImport /\ cleanup' = NoCleanup /\ stuck' = None
        /\ \A t \in Thread : ~Held(t)'
    BY <1>3 DEF ImportCrash, Crash, Held
  <2>2. imp'.step = "idle" /\ cleanup'.at = "none"
    BY <2>1 DEF NoImport, NoCleanup
  <2>3. RevisionUsable' /\ TreesAreAccounted'
    BY <1>1, <2>1, <2>2
    DEF InductiveInvariant, ArtifactInvariant, ImportInvariant, RevisionUsable, SessionTypeOK,
        TreesAreAccounted
  <2>4. ImportTyped' /\ CleanupTyped'
    BY <2>1, <2>2 DEF ImportTyped, CleanupTyped, NoImport, NoCleanup, Idle, Chosen, Copied
  <2>5. OpenWritesAreSound' /\ CleanupIsSound'
    BY <2>1, <2>2 DEF OpenWritesAreSound, Open, CleanupIsSound, Cleaning
  <2>6. ImportIsSound' /\ IntentsAreSingle'
    BY <2>1, <2>2, ImportShape
    DEF InductiveInvariant, ImportInvariant, ImportIsSound, IntentsAreSingle, Held
  <2> QED
    BY <1>1, <2>3, <2>4, <2>5, <2>6 DEF InductiveInvariant, ImportInvariant
<1> QED
  BY <1>2, <1>3

(* A staging tree is removed; what revisions own is elsewhere.                 *)
LEMMA CleanTreeKeeps ==
  ASSUME InductiveInvariant, NEW x \in ImportTx, CleanTree(x)
  PROVE  InductiveInvariant'
<1>1. /\ cleanup.at = "tree" /\ tree' = [tree EXCEPT ![x] = Absent]
      /\ cleanup' = [cleanup EXCEPT !.at = "orphan"]
      /\ UNCHANGED <<vars, stuck, final, importing, revisions, current, receipts, imp>>
  BY DEF CleanTree, vars
<1>2. ArtifactsAside /\ rows' = rows /\ job' = job
  BY <1>1, NothingElsewhere DEF ArtifactsAside, artifactVars
<1>3. cleanup'.at = "orphan" /\ cleanup'.todo = cleanup.todo /\ cleanup'.known = cleanup.known /\ CleanupTyped'
  BY <1>1 DEF InductiveInvariant, ImportInvariant, CleanupTyped
<1>4. RevisionUsable'
  <2>1. tree' \in [ImportTx -> {Absent, Partial} \union Bundle]
    BY <1>1 DEF InductiveInvariant, ImportInvariant, RevisionUsable, SessionTypeOK
  <2> QED
    BY <1>1, <1>2, <2>1, RevisionsStay DEF InductiveInvariant, ImportInvariant, RevisionUsable, SessionTypeOK
<1>5. TreesAreAccounted' /\ ImportTyped'
  BY <1>1 DEF InductiveInvariant, ImportInvariant, TreesAreAccounted, ImportTyped
<1>6. OpenWritesAreSound' /\ ImportIsSound' /\ IntentsAreSingle'
  BY <1>1, <1>2, <1>3
  DEF InductiveInvariant, ImportInvariant, OpenWritesAreSound, Open, ImportIsSound, Held,
      IntentsAreSingle
<1>7. CleanupIsSound'
  BY <1>1, <1>3 DEF InductiveInvariant, ImportInvariant, CleanupIsSound, Cleaning
<1> QED
  BY <1>2, <1>3, <1>4, <1>5, <1>6, <1>7, AsideKeeps DEF ImportInvariant

(* The managed tree of an intent is removed, in steps, unless a revision owns it. *)
LEMMA CleanOrphanKeeps ==
  ASSUME InductiveInvariant, NEW x \in ImportTx, CleanOrphan(x)
  PROVE  InductiveInvariant'
<1> DEFINE b == IntentBundle(x)
<1>1. /\ cleanup.at = "orphan" /\ x \in cleanup.todo
      /\ UNCHANGED <<vars, stuck, tree, importing, revisions, current, receipts, imp>>
  BY DEF CleanOrphan, vars
<1>2. \/ b \notin cleanup.known /\ final[b] = "whole" /\ final' = [final EXCEPT ![b] = Partial]
         /\ cleanup' = cleanup
      \/ b \in cleanup.known /\ final' = final /\ cleanup' = [cleanup EXCEPT !.at = "clear"]
      \/ b \notin cleanup.known /\ final' = [final EXCEPT ![b] = Absent]
         /\ cleanup' = [cleanup EXCEPT !.at = "clear"]
  BY DEF CleanOrphan
<1>3. ArtifactsAside /\ rows' = rows /\ job' = job
  BY <1>1, NothingElsewhere DEF ArtifactsAside, artifactVars
<1>4. /\ revisions \subseteq cleanup.known /\ revisions \subseteq Bundle
      /\ stuck = None => cleanup.known = revisions /\ cleanup.todo = {y \in ImportTx : importing[y] # None}
      /\ \A y, z \in ImportTx : importing[y] # None /\ importing[z] # None => y = z
      /\ final \in [Bundle -> {Absent, Partial, "whole"}]
  BY <1>1 DEF InductiveInvariant, ImportInvariant, CleanupIsSound, Cleaning, IntentsAreSingle,
              RevisionUsable, SessionTypeOK
<1>5. /\ cleanup'.at \in {"orphan", "clear"} /\ CleanupTyped'
      /\ cleanup'.todo = cleanup.todo /\ cleanup'.known = cleanup.known
  BY <1>1, <1>2 DEF InductiveInvariant, ImportInvariant, CleanupTyped
<1>6. stuck = None => b = importing[x] /\ importing[x] # None
  BY <1>1, <1>4 DEF IntentBundle
<1> HIDE DEF b
<1>7. /\ final' \in [Bundle -> {Absent, Partial, "whole"}]
      /\ \A c \in Bundle : c \in cleanup.known \/ c # b => final'[c] = final[c]
      /\ \A c \in Bundle : final'[c] # Absent => final[c] # Absent
      /\ cleanup'.at = "clear" /\ b \in Bundle => b \in cleanup.known \/ final'[b] = Absent
  <2>1. "whole" # Absent
    BY TreesDiffer
  <2> QED
    BY <1>1, <1>2, <1>4, <1>5, <2>1
<1>8. RevisionUsable'
  <2>1. \A c \in revisions : final'[c] = "whole"
    BY <1>4, <1>7 DEF InductiveInvariant, ImportInvariant, RevisionUsable
  <2> QED
    BY <1>1, <1>3, <1>7, <2>1, RevisionsStay
    DEF InductiveInvariant, ImportInvariant, RevisionUsable, SessionTypeOK
<1>9. imp.step \in {"begin", "failed", "opening"}
  BY <1>1 DEF InductiveInvariant, ImportInvariant, ImportIsSound
<1>10. TreesAreAccounted' /\ ImportTyped'
  BY <1>1, <1>7, <1>9 DEF InductiveInvariant, ImportInvariant, TreesAreAccounted, ImportTyped
<1>11. OpenWritesAreSound' /\ ImportIsSound' /\ IntentsAreSingle'
  BY <1>1, <1>3, <1>5, <1>9
  DEF InductiveInvariant, ImportInvariant, OpenWritesAreSound, Open, ImportIsSound, Held,
      IntentsAreSingle
<1>12. CleanupIsSound'
  <2>1. ASSUME cleanup'.at = "clear", stuck = None, NEW y \in cleanup.todo
        PROVE  final'[importing[y]] = Absent \/ importing[y] \in revisions
    <3>1. importing[y] = b /\ b \in Bundle
      BY <1>1, <1>4, <1>6, <2>1 DEF InductiveInvariant, ImportInvariant, RevisionUsable, SessionTypeOK
    <3> QED
      BY <1>4, <1>7, <2>1, <3>1
  <2> QED
    BY <1>1, <1>4, <1>5, <2>1 DEF CleanupIsSound, Cleaning
<1> QED
  BY <1>3, <1>5, <1>8, <1>10, <1>11, <1>12, AsideKeeps DEF ImportInvariant

(* The intent goes when its tree is gone, or a revision's.                     *)
LEMMA CleanIntentKeeps ==
  ASSUME InductiveInvariant, NEW x \in ImportTx, CleanIntent(x)
  PROVE  InductiveInvariant'
<1>1. /\ cleanup.at = "clear" /\ x \in cleanup.todo /\ stuck = None
      /\ importing' = [importing EXCEPT ![x] = None]
      /\ cleanup' = [cleanup EXCEPT !.at = "tree", !.todo = cleanup.todo \ {x}]
      /\ UNCHANGED <<vars, stuck, tree, final, revisions, current, receipts, imp>>
  BY DEF CleanIntent, vars
<1>2. ArtifactsAside /\ rows' = rows /\ job' = job
  BY <1>1, NothingElsewhere DEF ArtifactsAside, artifactVars
<1>3. /\ cleanup.known = revisions /\ cleanup.todo = {y \in ImportTx : importing[y] # None}
      /\ final[importing[x]] = Absent \/ importing[x] \in revisions
      /\ importing \in [ImportTx -> Bundle \union {None}] /\ None \notin Bundle
  BY <1>1, ImportShape, NoneIsNothing
  DEF InductiveInvariant, ImportInvariant, CleanupIsSound, Cleaning, RevisionUsable, SessionTypeOK
<1>4. /\ importing' \in [ImportTx -> Bundle \union {None}]
      /\ \A y \in ImportTx : importing'[y] = IF y = x THEN None ELSE importing[y]
  BY <1>1, <1>3
<1>5. /\ cleanup'.at = "tree" /\ CleanupTyped'
      /\ cleanup'.todo = cleanup.todo \ {x} /\ cleanup'.known = cleanup.known
  BY <1>1 DEF InductiveInvariant, ImportInvariant, CleanupTyped
<1>6. RevisionUsable'
  BY <1>1, <1>2, <1>4, RevisionsStay
  DEF InductiveInvariant, ImportInvariant, RevisionUsable, SessionTypeOK
<1>7. imp.step \in {"begin", "failed", "opening"}
  BY <1>1 DEF InductiveInvariant, ImportInvariant, ImportIsSound
<1>8. TreesAreAccounted' /\ ImportTyped'
  BY <1>1, <1>3, <1>4, <1>7 DEF InductiveInvariant, ImportInvariant, TreesAreAccounted, ImportTyped
<1>9. OpenWritesAreSound' /\ ImportIsSound' /\ IntentsAreSingle'
  <2>1. OpenWritesAreSound'
    BY <1>1 DEF OpenWritesAreSound, Open
  <2>2. ImportIsSound' /\ IntentsAreSingle'
    BY <1>1, <1>2, <1>4, <1>5, <1>7
    DEF InductiveInvariant, ImportInvariant, ImportIsSound, Held, IntentsAreSingle
  <2> QED
    BY <2>1, <2>2
<1>10. CleanupIsSound'
  BY <1>1, <1>3, <1>4, <1>5 DEF CleanupIsSound, Cleaning
<1> QED
  BY <1>2, <1>5, <1>6, <1>8, <1>9, <1>10, AsideKeeps DEF ImportInvariant

(* When nothing is left to clean the import goes on, or is over.               *)
LEMMA CleanSweepKeeps ==
  ASSUME InductiveInvariant, CleanSweep
  PROVE  InductiveInvariant'
<1>1. /\ cleanup.at = "tree" /\ cleanup.todo = {}
      /\ UNCHANGED <<vars, stuck, final, importing, revisions, current, receipts>>
  BY DEF CleanSweep, vars
<1>2. ArtifactsAside /\ rows' = rows /\ job' = job
  BY <1>1, NothingElsewhere DEF ArtifactsAside, artifactVars
<1>3. \/ cleanup' = cleanup /\ imp' = imp
      \/ /\ cleanup' = NoCleanup
         /\ imp' = IF imp.step = "begin" THEN [imp EXCEPT !.step = "inspect"] ELSE NoImport
  BY DEF CleanSweep
<1>4. RevisionUsable'
  <2>1. tree' \in [ImportTx -> {Absent, Partial} \union Bundle]
    BY DEF CleanSweep, InductiveInvariant, ImportInvariant, RevisionUsable, SessionTypeOK
  <2> QED
    BY <1>1, <1>2, <2>1, RevisionsStay
    DEF InductiveInvariant, ImportInvariant, RevisionUsable, SessionTypeOK
<1>5. /\ imp.step \in {"begin", "failed", "opening"}
      /\ stuck = None => \A x \in ImportTx : importing[x] = None
  BY <1>1 DEF InductiveInvariant, ImportInvariant, ImportIsSound, CleanupIsSound, Cleaning
<1>6. OpenWritesAreSound'
  BY <1>1 DEF InductiveInvariant, ImportInvariant, OpenWritesAreSound, Open
<1>7. CASE cleanup' = cleanup /\ imp' = imp
  BY <1>1, <1>2, <1>4, <1>6, <1>7, AsideKeeps
  DEF InductiveInvariant, ImportInvariant, TreesAreAccounted, ImportTyped, CleanupTyped,
      ImportIsSound, Held, IntentsAreSingle, CleanupIsSound, Cleaning
<1>8. CASE /\ cleanup' = NoCleanup
           /\ imp' = IF imp.step = "begin" THEN [imp EXCEPT !.step = "inspect"] ELSE NoImport
  <2>1. CleanupTyped' /\ CleanupIsSound' /\ cleanup'.at = "none"
    BY <1>8 DEF CleanupTyped, CleanupIsSound, Cleaning, NoCleanup
  <2>2. imp'.step \in {"idle", "inspect"} /\ ImportTyped'
    <3>1. CASE imp.step = "begin"
      <4>1. imp' = [step |-> "inspect", tx |-> imp.tx, content |-> imp.content,
                    folder |-> imp.folder, bundle |-> imp.bundle]
        BY <1>8, <3>1 DEF InductiveInvariant, ImportInvariant, ImportTyped
      <4> QED
        BY <1>1, <3>1, <4>1 DEF InductiveInvariant, ImportInvariant, ImportTyped, Idle, Chosen, Copied
    <3>2. CASE imp.step # "begin"
      BY <1>8, <3>2 DEF ImportTyped, NoImport, Idle, Chosen, Copied
    <3> QED
      BY <3>1, <3>2
  <2>3. TreesAreAccounted'
    BY <1>1, <2>2 DEF InductiveInvariant, ImportInvariant, TreesAreAccounted
  <2>4. ImportIsSound'
    BY <1>2, <1>5, <2>1, <2>2 DEF InductiveInvariant, ImportInvariant, ImportIsSound, Held
  <2>5. IntentsAreSingle'
    BY <1>1, <1>5 DEF InductiveInvariant, ImportInvariant, IntentsAreSingle
  <2> QED
    BY <1>2, <1>4, <1>6, <2>1, <2>2, <2>3, <2>4, <2>5, AsideKeeps DEF ImportInvariant
<1> QED
  BY <1>3, <1>7, <1>8

(* A cleanup that fails ends the import, or the opening.                       *)
LEMMA CleanFailsKeeps ==
  ASSUME InductiveInvariant, CleanFails
  PROVE  InductiveInvariant'
<1>1. /\ cleanup.at # "none" /\ cleanup' = NoCleanup /\ imp' = NoImport
      /\ phase' = IF imp.step = "opening" THEN "closed" ELSE phase
      /\ UNCHANGED <<artifactVars, stuck, tree, final, importing, revisions, current, receipts>>
      /\ faults' \in 0 .. MaxFaults
  BY FaultBound DEF CleanFails, InductiveInvariant, ArtifactInvariant, TypeOK
<1>2. /\ imp'.step = "idle" /\ cleanup'.at = "none" /\ \A t \in Thread : Held(t)' <=> Held(t)
      /\ rows' = rows /\ refs' = refs /\ payload' = payload /\ job' = job
  BY <1>1 DEF NoImport, NoCleanup, Held, artifactVars
<1>3. ArtifactInvariant'
  <2>1. CASE phase' = phase
    BY <1>1, <2>1, ArtifactsStay DEF InductiveInvariant
  <2>2. CASE imp.step = "opening"
    <3>1. \A t \in Thread : ~Held(t)'
      BY <1>2, <2>2 DEF InductiveInvariant, ImportInvariant, ImportIsSound
    <3>2. phase' = "closed" /\ UNCHANGED artifactVars
      BY <1>1, <2>2
    <3>3. TypeOK'
      BY <1>1, <3>2 DEF InductiveInvariant, ArtifactInvariant, TypeOK, artifactVars
    <3>4. PayloadKept' /\ RevisionsHoldTheirOwn'
      BY <3>2, StoreStays
      DEF InductiveInvariant, ArtifactInvariant, RevisionsHoldTheirOwn, artifactVars
    <3>5. PutsAreSound' /\ RecoveryIsSound'
      BY <3>1, <3>2 DEF PutsAreSound, RecoveryIsSound
    <3> QED
      BY <3>3, <3>4, <3>5 DEF ArtifactInvariant
  <2> QED
    BY <1>1, <2>1, <2>2
<1>4. Requester \in Thread
  BY ImportShape
<1>5. ~Held(Requester)
  BY <1>1 DEF InductiveInvariant, ImportInvariant, ImportIsSound
<1>6. RevisionUsable' /\ TreesAreAccounted'
  BY <1>1, <1>2, <1>3
  DEF InductiveInvariant, ArtifactInvariant, ImportInvariant, RevisionUsable, SessionTypeOK,
      TreesAreAccounted
<1>7. ImportTyped' /\ CleanupTyped'
  BY <1>1, <1>2 DEF ImportTyped, CleanupTyped, NoImport, NoCleanup, Idle, Chosen, Copied
<1>8. OpenWritesAreSound' /\ CleanupIsSound'
  BY <1>1, <1>2
  DEF InductiveInvariant, ImportInvariant, OpenWritesAreSound, Open, CleanupIsSound, Cleaning
<1>9. ImportIsSound' /\ IntentsAreSingle'
  BY <1>1, <1>2, <1>4, <1>5
  DEF InductiveInvariant, ImportInvariant, ImportIsSound, IntentsAreSingle
<1> QED
  BY <1>3, <1>6, <1>7, <1>8, <1>9 DEF InductiveInvariant, ImportInvariant

(* After a failure the cleanup reads what there is.                            *)
LEMMA ReadIntentsKeeps ==
  ASSUME InductiveInvariant, ReadIntents
  PROVE  InductiveInvariant'
<1>1. /\ cleanup.at = "read" /\ BeginRecover
      /\ UNCHANGED <<vars, stuck, tree, final, importing, revisions, current, receipts, imp>>
  BY DEF ReadIntents, vars
<1>2. ArtifactsAside /\ rows' = rows /\ job' = job
  BY <1>1, NothingElsewhere DEF ArtifactsAside, artifactVars
<1>3. CleanupTyped' /\ CleanupIsSound' /\ cleanup'.at = "tree"
  BY <1>1, BeginRecoverKeeps DEF BeginRecover
<1>4. RevisionUsable'
  BY <1>1, <1>2, RevisionsStay DEF InductiveInvariant, ImportInvariant, RevisionUsable, SessionTypeOK
<1>5. TreesAreAccounted' /\ ImportTyped' /\ OpenWritesAreSound' /\ IntentsAreSingle'
  BY <1>1 DEF InductiveInvariant, ImportInvariant, TreesAreAccounted, ImportTyped,
              OpenWritesAreSound, Open, IntentsAreSingle
<1>6. ImportIsSound'
  BY <1>1, <1>2, <1>3 DEF InductiveInvariant, ImportInvariant, ImportIsSound, Held
<1> QED
  BY <1>2, <1>3, <1>4, <1>5, <1>6, AsideKeeps DEF ImportInvariant

------------------------------------------------------------------------------
(* The steps of an import.                                                     *)

(* An import that gives up leaves what it has done to its cleanup.             *)
LEMMA GivingUpKeeps ==
  ASSUME InductiveInvariant, ArtifactInvariant', OpenWritesAreSound',
         imp' = [NoImport EXCEPT !.step = "failed"],
         BeginRecover \/ cleanup' = [at |-> "read", todo |-> {}, known |-> {}],
         UNCHANGED <<tree, final, importing, revisions, current, receipts>>,
         \A d \in Digest : rows[d] # None => rows'[d] # None,
         \A b \in Bundle : refs'[b] = refs[b],
         ~Held(Requester)', stuck' = None => stuck = None
  PROVE  InductiveInvariant'
<1>1. imp'.step = "failed" /\ ImportTyped'
  BY NoImportKeeps DEF NoImport, Idle
<1>2. cleanup'.at \in {"read", "tree"} /\ CleanupTyped' /\ CleanupIsSound'
  <2>1. CASE BeginRecover
    <3>1. cleanup' = [at |-> "tree", todo |-> SeenIntents, known |-> SeenRevisions]
      BY <2>1 DEF BeginRecover
    <3> QED
      BY <3>1, SeenIsSound DEF CleanupTyped, CleanupIsSound, Cleaning
  <2>2. CASE cleanup' = [at |-> "read", todo |-> {}, known |-> {}]
    BY <2>2 DEF CleanupTyped, CleanupIsSound, Cleaning
  <2> QED
    BY <2>1, <2>2
<1>3. RevisionUsable'
  <2>1. SessionTypeOK'
    BY DEF InductiveInvariant, ArtifactInvariant, ImportInvariant, RevisionUsable, SessionTypeOK
  <2>2. revisions \subseteq Bundle /\ Bundle \subseteq Digest
    BY ImportShape DEF InductiveInvariant, ImportInvariant, RevisionUsable, SessionTypeOK
  <2>3. \A d \in Digest : rows'[d] # None => d \in payload'
    BY DEF ArtifactInvariant, PayloadKept, Registered
  <2> QED
    BY <2>1, <2>2, <2>3 DEF InductiveInvariant, ImportInvariant, RevisionUsable
<1>4. TreesAreAccounted'
  BY <1>1 DEF InductiveInvariant, ImportInvariant, TreesAreAccounted
<1>5. ImportIsSound' /\ IntentsAreSingle'
  BY <1>1, <1>2 DEF InductiveInvariant, ImportInvariant, ImportIsSound, IntentsAreSingle
<1> QED
  BY <1>1, <1>2, <1>3, <1>4, <1>5 DEF InductiveInvariant, ImportInvariant

(* The next step of an import that goes on, when the cleanup is over and the   *)
(* artifacts and everything that is registered stay as they are.               *)
LEMMA GoingOnKeeps ==
  ASSUME InductiveInvariant, ArtifactsAside, ImportTyped', ImportIsSound', IntentsAreSingle',
         TreesAreAccounted',
         imp.step \notin {"begin", "failed", "opening"},
         UNCHANGED <<stuck, revisions, current, receipts, cleanup>>,
         tree' \in [ImportTx -> {Absent, Partial} \union Bundle],
         final' \in [Bundle -> {Absent, Partial, "whole"}],
         importing' \in [ImportTx -> Bundle \union {None}],
         \A b \in revisions : final'[b] = "whole",
         importing' = importing \/ stuck = None
  PROVE  InductiveInvariant'
<1>1. cleanup.at = "none"
  BY DEF InductiveInvariant, ImportInvariant, ImportIsSound
<1>2. RevisionUsable'
  BY RevisionsStay
<1>3. CleanupTyped' /\ CleanupIsSound'
  BY <1>1 DEF InductiveInvariant, ImportInvariant, CleanupTyped, CleanupIsSound, Cleaning
<1>4. OpenWritesAreSound'
  BY DEF InductiveInvariant, ImportInvariant, OpenWritesAreSound, Open
<1> QED
  BY <1>2, <1>3, <1>4, AsideKeeps DEF ImportInvariant

(* What is registered and intended when the managed trees stay.                *)
LEMMA TreesStay ==
  ASSUME InductiveInvariant
  PROVE  /\ tree \in [ImportTx -> {Absent, Partial} \union Bundle]
         /\ final \in [Bundle -> {Absent, Partial, "whole"}]
         /\ importing \in [ImportTx -> Bundle \union {None}]
         /\ revisions \subseteq Bundle /\ current \in [SessionId -> Bundle \union {None}]
         /\ receipts \in [ImportTx -> Bundle \union {None}]
         /\ \A b \in revisions : final[b] = "whole"
         /\ Requester \in Thread /\ None \notin Bundle /\ Bundle \subseteq Digest
BY ImportShape, NoneIsNothing
DEF InductiveInvariant, ImportInvariant, RevisionUsable, SessionTypeOK

(* The folder may change under the import.                                     *)
LEMMA ChangeFolderKeeps ==
  ASSUME InductiveInvariant, ChangeFolder
  PROVE  InductiveInvariant'
<1>1. PICK c \in Content : imp' = [imp EXCEPT !.folder = c]
  BY DEF ChangeFolder
<1>2. /\ imp.step \in {"inspect", "copy"}
      /\ UNCHANGED <<vars, stuck, tree, final, importing, revisions, current, receipts, cleanup>>
  BY DEF ChangeFolder, vars
<1>3. imp' = [step |-> imp.step, tx |-> imp.tx, content |-> imp.content, folder |-> c, bundle |-> imp.bundle]
  BY <1>1 DEF InductiveInvariant, ImportInvariant, ImportTyped
<1>4. ArtifactsAside /\ rows' = rows /\ job' = job
  BY <1>2, NothingElsewhere DEF ArtifactsAside, artifactVars
<1>5. ImportTyped'
  BY <1>2, <1>3 DEF InductiveInvariant, ImportInvariant, ImportTyped, Idle, Chosen, Copied
<1>6. ImportIsSound' /\ IntentsAreSingle' /\ TreesAreAccounted'
  BY <1>2, <1>3, <1>4
  DEF InductiveInvariant, ImportInvariant, ImportIsSound, IntentsAreSingle, TreesAreAccounted, Held
<1> QED
  BY <1>2, <1>4, <1>5, <1>6, GoingOnKeeps, TreesStay

(* A request is not registered yet, and begins with a cleanup.                 *)
LEMMA RequestKeeps ==
  ASSUME InductiveInvariant, NEW a \in Asked, RequestImport(a[1], a[2])
  PROVE  InductiveInvariant'
<1>1. /\ imp.step = "idle" /\ receipts[a[1]] = None /\ BeginRecover
      /\ imp' = [step |-> "begin", tx |-> a[1], content |-> a[2], folder |-> a[2], bundle |-> None]
      /\ UNCHANGED <<vars, stuck, tree, final, importing, revisions, current, receipts>>
  BY DEF RequestImport, vars
<1>2. a[1] \in ImportTx /\ a[2] \in Content
  BY ImportShape
<1>3. ArtifactsAside /\ rows' = rows /\ job' = job
  BY <1>1, NothingElsewhere DEF ArtifactsAside, artifactVars
<1>4. CleanupTyped' /\ CleanupIsSound' /\ cleanup'.at = "tree"
  BY <1>1, BeginRecoverKeeps DEF BeginRecover
<1>5. RevisionUsable'
  BY <1>1, <1>3, RevisionsStay, TreesStay
<1>6. ImportTyped'
  BY <1>1, <1>2 DEF ImportTyped, Idle, Chosen, Copied
<1>7. TreesAreAccounted' /\ OpenWritesAreSound' /\ IntentsAreSingle'
  BY <1>1 DEF InductiveInvariant, ImportInvariant, TreesAreAccounted, OpenWritesAreSound, Open,
              IntentsAreSingle
<1>8. ImportIsSound'
  BY <1>1, <1>3, <1>4 DEF InductiveInvariant, ImportInvariant, ImportIsSound, Held
<1> QED
  BY <1>3, <1>4, <1>5, <1>6, <1>7, <1>8, AsideKeeps DEF ImportInvariant

(* The import goes on when the folder is what was inspected.                   *)
LEMMA InspectKeeps ==
  ASSUME InductiveInvariant, Inspect
  PROVE  InductiveInvariant'
<1>1. /\ imp.step = "inspect"
      /\ UNCHANGED <<vars, stuck, final, importing, revisions, current, receipts>>
  BY DEF Inspect, vars
<1>2. ArtifactsAside /\ rows' = rows /\ job' = job /\ refs' = refs
  BY <1>1, NothingElsewhere DEF ArtifactsAside, artifactVars
<1>3. /\ imp.tx \in ImportTx /\ receipts[imp.tx] = None /\ imp.content \in Content /\ imp.folder \in Content
      /\ imp = [step |-> imp.step, tx |-> imp.tx, content |-> imp.content,
                folder |-> imp.folder, bundle |-> imp.bundle]
      /\ ~Held(Requester)
  BY <1>1 DEF InductiveInvariant, ImportInvariant, ImportTyped, ImportIsSound, Idle, Chosen
<1>4. ASSUME imp' = [NoImport EXCEPT !.step = "failed"], BeginRecover, UNCHANGED tree
      PROVE  InductiveInvariant'
  <2>1. ArtifactInvariant' /\ OpenWritesAreSound'
    BY <1>1, <1>2, ArtifactsStay
    DEF ArtifactsAside, InductiveInvariant, ImportInvariant, OpenWritesAreSound, Open
  <2> QED
    BY <1>1, <1>2, <1>3, <1>4, <2>1, GivingUpKeeps DEF Held
<1>5. ASSUME NEW c \in Content, imp' = [imp EXCEPT !.step = "copy", !.content = c],
             tree' = [tree EXCEPT ![imp.tx] = Partial], UNCHANGED cleanup
      PROVE  InductiveInvariant'
  <2>1. imp' = [step |-> "copy", tx |-> imp.tx, content |-> c, folder |-> imp.folder, bundle |-> imp.bundle]
    BY <1>3, <1>5
  <2>2. ImportTyped'
    BY <1>1, <1>3, <2>1 DEF ImportTyped, Idle, Chosen, Copied
  <2>3. ImportIsSound' /\ IntentsAreSingle' /\ TreesAreAccounted'
    BY <1>1, <1>2, <1>5, <2>1
    DEF InductiveInvariant, ImportInvariant, ImportIsSound, IntentsAreSingle, TreesAreAccounted, Held
  <2>4. tree' \in [ImportTx -> {Absent, Partial} \union Bundle]
    BY <1>5, TreesStay
  <2> QED
    BY <1>1, <1>2, <1>5, <2>2, <2>3, <2>4, GoingOnKeeps, TreesStay
<1>6. CASE imp' = [imp EXCEPT !.step = "copy"] /\ tree' = [tree EXCEPT ![imp.tx] = Partial] /\ UNCHANGED cleanup
  <2>1. imp' = [imp EXCEPT !.step = "copy", !.content = imp.content]
    BY <1>3, <1>6
  <2> QED
    BY <1>3, <1>5, <1>6, <2>1
<1> QED
  BY <1>3, <1>4, <1>5, <1>6 DEF Inspect

(* What has been copied is a bundle.                                           *)
LEMMA CopyKeeps ==
  ASSUME InductiveInvariant, Copy
  PROVE  InductiveInvariant'
<1> DEFINE b == IF imp.content \in Raw
                THEN [tx |-> imp.tx, files |-> imp.content, notes |-> imp.folder]
                ELSE [tx |-> None, files |-> imp.content, notes |-> imp.content]
<1>1. /\ imp.step = "copy"
      /\ UNCHANGED <<vars, stuck, final, importing, revisions, current, receipts>>
  BY DEF Copy, vars
<1>2. ArtifactsAside /\ rows' = rows /\ job' = job /\ refs' = refs
  BY <1>1, NothingElsewhere DEF ArtifactsAside, artifactVars
<1>3. /\ imp.tx \in ImportTx /\ receipts[imp.tx] = None /\ imp.content \in Content /\ imp.folder \in Content
      /\ imp = [step |-> imp.step, tx |-> imp.tx, content |-> imp.content,
                folder |-> imp.folder, bundle |-> imp.bundle]
      /\ ~Held(Requester)
  BY <1>1 DEF InductiveInvariant, ImportInvariant, ImportTyped, ImportIsSound, Idle, Chosen
<1>4. b \in Bundle
  BY <1>3 DEF Bundle
<1>5. CASE imp' = [NoImport EXCEPT !.step = "failed"] /\ BeginRecover /\ UNCHANGED tree
  <2>1. ArtifactInvariant' /\ OpenWritesAreSound'
    BY <1>1, <1>2, ArtifactsStay
    DEF ArtifactsAside, InductiveInvariant, ImportInvariant, OpenWritesAreSound, Open
  <2> QED
    BY <1>1, <1>2, <1>3, <1>5, <2>1, GivingUpKeeps DEF Held
<1> HIDE DEF b
<1>6. CASE /\ imp' = [imp EXCEPT !.step = "report", !.bundle = b, !.folder = None]
           /\ tree' = [tree EXCEPT ![imp.tx] = b] /\ UNCHANGED cleanup
  <2>1. imp' = [step |-> "report", tx |-> imp.tx, content |-> imp.content, folder |-> None, bundle |-> b]
    BY <1>3, <1>6
  <2>2. ImportTyped'
    BY <1>1, <1>3, <1>4, <2>1 DEF ImportTyped, Idle, Chosen, Copied
  <2>3. ImportIsSound' /\ IntentsAreSingle' /\ TreesAreAccounted'
    BY <1>1, <1>2, <1>6, <2>1
    DEF InductiveInvariant, ImportInvariant, ImportIsSound, IntentsAreSingle, TreesAreAccounted, Held
  <2>4. tree' \in [ImportTx -> {Absent, Partial} \union Bundle]
    BY <1>4, <1>6, TreesStay
  <2> QED
    BY <1>1, <1>2, <1>6, <2>2, <2>3, <2>4, GoingOnKeeps, TreesStay
<1> QED
  BY <1>5, <1>6 DEF Copy, b

(* Its readiness report is put by the request thread.                          *)
LEMMA PutReportKeeps ==
  ASSUME InductiveInvariant, PutReport
  PROVE  InductiveInvariant'
<1> DEFINE p == ReportOf(imp.tx, imp.bundle)
<1>1. /\ imp.step = "report" /\ BeginPut(p) /\ imp' = [imp EXCEPT !.step = "reporting"]
      /\ UNCHANGED <<tree, final, importing, revisions, current, receipts, cleanup>>
  BY DEF PutReport, Advance
<1>2. /\ imp.tx \in ImportTx /\ receipts[imp.tx] = None /\ imp.bundle \in Bundle
      /\ imp' = [step |-> "reporting", tx |-> imp.tx, content |-> imp.content,
                 folder |-> imp.folder, bundle |-> imp.bundle]
      /\ cleanup.at = "none"
  BY <1>1 DEF InductiveInvariant, ImportInvariant, ImportTyped, ImportIsSound, Idle, Chosen, Copied
<1>3. p \in Put /\ p.thread = Requester
  BY <1>2, ImportShape DEF ReportOf
<1> HIDE DEF p
<1>4. ArtifactInvariant'
  BY <1>1, <1>3, BeginPutKeeps DEF InductiveInvariant
<1>5. /\ rows' = rows /\ refs' = refs /\ payload' = payload /\ stuck' = stuck /\ job'[Requester] = p
  BY <1>1, <1>3, TreesStay DEF BeginPut, InductiveInvariant, ArtifactInvariant, TypeOK
<1>6. RevisionUsable'
  <2>1. SessionTypeOK'
    BY <1>1, <1>4 DEF InductiveInvariant, ArtifactInvariant, ImportInvariant, RevisionUsable, SessionTypeOK
  <2> QED
    BY <1>1, <1>5, <2>1 DEF InductiveInvariant, ImportInvariant, RevisionUsable
<1>7. ImportTyped' /\ CleanupTyped'
  BY <1>1, <1>2 DEF InductiveInvariant, ImportInvariant, ImportTyped, CleanupTyped, Idle, Chosen, Copied
<1>8. ImportIsSound'
  BY <1>1, <1>2, <1>5 DEF ImportIsSound, p
<1>9. TreesAreAccounted' /\ IntentsAreSingle' /\ OpenWritesAreSound' /\ CleanupIsSound'
  BY <1>1, <1>2, <1>5
  DEF InductiveInvariant, ImportInvariant, TreesAreAccounted, IntentsAreSingle, OpenWritesAreSound,
      Open, CleanupIsSound, Cleaning
<1> QED
  BY <1>4, <1>6, <1>7, <1>8, <1>9 DEF InductiveInvariant, ImportInvariant

(* A put whose COMMIT stays open has no write of an import open.               *)
LEMMA OpenWritesStay ==
  ASSUME InductiveInvariant, importing' = importing,
         \/ stuck' = stuck
         \/ stuck = None /\ \E s \in {"intent", "register"} : stuck' = <<s>>
  PROVE  OpenWritesAreSound' /\ (stuck' = None => stuck = None)
<1>1. CASE stuck' = stuck
  BY <1>1 DEF InductiveInvariant, ImportInvariant, OpenWritesAreSound, Open
<1>2. ASSUME NEW s \in {"intent", "register"}, stuck' = <<s>>, stuck = None
      PROVE  OpenWritesAreSound' /\ (stuck' = None => stuck = None)
  <2>1. stuck'[1] = s
    BY <1>2
  <2> QED
    BY <1>2, <2>1 DEF OpenWritesAreSound, Open
<1> QED
  BY <1>1, <1>2

(* The put of the report runs inside the import: the import goes on when the   *)
(* report is registered, and gives up when the put does.                       *)
LEMMA ReportStepKeeps ==
  ASSUME InductiveInvariant, ReportStep
  PROVE  InductiveInvariant'
<1>1. /\ imp.step = "reporting" /\ (PutStep(Requester) \/ FailPut(Requester))
      /\ UNCHANGED <<tree, final, importing, revisions, current, receipts>>
  BY DEF ReportStep
<1>2. Requester \in Thread /\ revisions \subseteq Bundle /\ Bundle \subseteq Digest
  BY TreesStay
<1>3. ArtifactInvariant'
  BY <1>1, <1>2, PutKeeps DEF InductiveInvariant
<1>4. /\ \A d \in Digest : rows[d] # None => rows'[d] # None
      /\ \A b \in Bundle : refs'[b] = refs[b]
      /\ Held(Requester)
      /\ \/ stuck' = stuck
         \/ stuck = None /\ \E s \in {"intent", "register"} : stuck' = <<s>>
  BY <1>1, <1>2, PutsElsewhere DEF InductiveInvariant
<1>5. OpenWritesAreSound' /\ (stuck' = None => stuck = None)
  BY <1>1, <1>4, OpenWritesStay
<1>6. job'[Requester] = job[Requester] \/ job'[Requester] = None
  BY <1>1, <1>2
  DEF PutStep, FailPut, Stage, Write, Refused, RecordIntent, Promote, Register, Tidy, Abandon,
      InductiveInvariant, ArtifactInvariant, TypeOK
<1>7. /\ job[Requester] = ReportOf(imp.tx, imp.bundle) /\ imp.bundle \in Bundle
      /\ imp.tx \in ImportTx /\ receipts[imp.tx] = None /\ cleanup.at = "none"
      /\ imp = [step |-> imp.step, tx |-> imp.tx, content |-> imp.content,
                folder |-> imp.folder, bundle |-> imp.bundle]
  BY <1>1, <1>4
  DEF InductiveInvariant, ImportInvariant, ImportIsSound, ImportTyped, Idle, Chosen, Copied
<1>8. CASE job'[Requester] # None /\ UNCHANGED <<imp, cleanup>>
  <2>1. Elsewhere
    BY <1>1, <1>4, <1>6, <1>8 DEF Elsewhere, importVars
  <2> QED
    BY <1>3, <2>1, ElsewhereKeeps DEF InductiveInvariant
<1>9. CASE job'[Requester] = None /\ step[Requester] = "tidy" /\ Advance("intent") /\ UNCHANGED cleanup
  <2>1. imp' = [step |-> "intent", tx |-> imp.tx, content |-> imp.content,
                folder |-> imp.folder, bundle |-> imp.bundle]
    BY <1>7, <1>9 DEF Advance
  <2>2. rows'[imp.bundle] # None
    <3>1. job[Requester].digest = imp.bundle
      BY <1>7 DEF ReportOf
    <3>2. rows[imp.bundle] # None
      BY <1>2, <1>4, <1>9, <3>1 DEF InductiveInvariant, ArtifactInvariant, PutsAreSound
    <3> QED
      BY <1>2, <1>4, <1>7, <3>2
  <2>3. RevisionUsable'
    <3>1. SessionTypeOK'
      BY <1>1, <1>3
      DEF InductiveInvariant, ArtifactInvariant, ImportInvariant, RevisionUsable, SessionTypeOK
    <3>2. \A d \in Digest : rows'[d] # None => d \in payload'
      BY <1>3 DEF ArtifactInvariant, PayloadKept, Registered
    <3> QED
      BY <1>1, <1>2, <1>4, <3>1, <3>2 DEF InductiveInvariant, ImportInvariant, RevisionUsable
  <2>4. ImportTyped' /\ CleanupTyped' /\ CleanupIsSound'
    BY <1>1, <1>7, <1>9, <2>1
    DEF InductiveInvariant, ImportInvariant, ImportTyped, CleanupTyped, CleanupIsSound, Cleaning,
        Idle, Chosen, Copied
  <2>5. ImportIsSound'
    BY <1>7, <1>9, <2>1, <2>2 DEF ImportIsSound, Held
  <2>6. TreesAreAccounted' /\ IntentsAreSingle'
    BY <1>1, <1>5, <2>1 DEF InductiveInvariant, ImportInvariant, TreesAreAccounted, IntentsAreSingle
  <2> QED
    BY <1>3, <1>5, <2>3, <2>4, <2>5, <2>6 DEF InductiveInvariant, ImportInvariant
<1>10. CASE job'[Requester] = None /\ imp' = [NoImport EXCEPT !.step = "failed"] /\ BeginRecover
  <2>1. ~Held(Requester)'
    BY <1>10 DEF Held
  <2> QED
    BY <1>1, <1>3, <1>4, <1>5, <1>10, <2>1, GivingUpKeeps
<1> QED
  BY <1>8, <1>9, <1>10 DEF ReportStep

(* What every later step of an import has in hand.                             *)
LEMMA ImportInHand ==
  ASSUME InductiveInvariant, Serving, imp.step \in {"intent", "promote", "register"}
  PROVE  /\ imp.bundle \in Bundle /\ imp.tx \in ImportTx /\ receipts[imp.tx] = None
         /\ imp = [step |-> imp.step, tx |-> imp.tx, content |-> imp.content,
                   folder |-> imp.folder, bundle |-> imp.bundle]
         /\ cleanup.at = "none" /\ ~Held(Requester) /\ rows[imp.bundle] # None
BY DEF InductiveInvariant, ImportInvariant, ImportIsSound, ImportTyped, Idle, Chosen, Copied

(* No intent is there before an import records its own.                        *)
LEMMA RecordImportKeeps ==
  ASSUME InductiveInvariant, RecordImport
  PROVE  InductiveInvariant'
<1>1. /\ Serving /\ imp.step = "intent" /\ stuck = None
      /\ importing' = [importing EXCEPT ![imp.tx] = imp.bundle]
      /\ imp' = [imp EXCEPT !.step = "promote"]
      /\ UNCHANGED <<vars, stuck, tree, final, revisions, current, receipts, cleanup>>
  BY DEF RecordImport, Advance, vars
<1>2. /\ imp.bundle \in Bundle /\ imp.tx \in ImportTx /\ receipts[imp.tx] = None
      /\ imp = [step |-> imp.step, tx |-> imp.tx, content |-> imp.content,
                folder |-> imp.folder, bundle |-> imp.bundle]
      /\ cleanup.at = "none" /\ ~Held(Requester) /\ rows[imp.bundle] # None
  BY <1>1, ImportInHand
<1>3. imp' = [step |-> "promote", tx |-> imp.tx, content |-> imp.content,
              folder |-> imp.folder, bundle |-> imp.bundle]
  BY <1>1, <1>2
<1>4. ArtifactsAside /\ rows' = rows /\ job' = job
  BY <1>1, NothingElsewhere DEF ArtifactsAside, artifactVars
<1>5. \A x \in ImportTx : importing[x] = None
  BY <1>1 DEF InductiveInvariant, ImportInvariant, IntentsAreSingle
<1>6. /\ importing' \in [ImportTx -> Bundle \union {None}]
      /\ importing'[imp.tx] = imp.bundle
      /\ \A x \in ImportTx : importing'[x] # None => x = imp.tx
  BY <1>1, <1>2, <1>5, TreesStay
<1>7. ImportTyped'
  BY <1>1, <1>2, <1>3 DEF ImportTyped, Idle, Chosen, Copied
<1>8. ImportIsSound' /\ IntentsAreSingle'
  BY <1>1, <1>2, <1>3, <1>4, <1>6 DEF ImportIsSound, IntentsAreSingle, Held
<1>9. TreesAreAccounted'
  <2>1. \A b \in Bundle : final[b] # Absent => b \in revisions
    BY <1>5, TreesStay DEF InductiveInvariant, ImportInvariant, TreesAreAccounted
  <2>2. final[imp.bundle] # Partial
    BY <1>2, <2>1, TreesStay, TreesDiffer, FilesDiffer
  <2> QED
    BY <1>1, <1>3, <2>1, <2>2 DEF TreesAreAccounted
<1> QED
  BY <1>1, <1>4, <1>6, <1>7, <1>8, <1>9, GoingOnKeeps, TreesStay

(* The managed tree is there when the import goes on to register it.           *)
LEMMA PromoteImportKeeps ==
  ASSUME InductiveInvariant, PromoteOrReuse
  PROVE  InductiveInvariant'
<1>1. /\ Serving /\ imp.step = "promote"
      /\ final' = [final EXCEPT ![imp.bundle] = "whole"]
      /\ tree' = [tree EXCEPT ![imp.tx] = Absent]
      /\ imp' = [imp EXCEPT !.step = "register"]
      /\ UNCHANGED <<vars, stuck, importing, revisions, current, receipts, cleanup>>
  BY DEF PromoteOrReuse, Advance, vars
<1>2. /\ imp.bundle \in Bundle /\ imp.tx \in ImportTx /\ receipts[imp.tx] = None
      /\ imp = [step |-> imp.step, tx |-> imp.tx, content |-> imp.content,
                folder |-> imp.folder, bundle |-> imp.bundle]
      /\ cleanup.at = "none" /\ ~Held(Requester) /\ rows[imp.bundle] # None
  BY <1>1, ImportInHand
<1>3. imp' = [step |-> "register", tx |-> imp.tx, content |-> imp.content,
              folder |-> imp.folder, bundle |-> imp.bundle]
  BY <1>1, <1>2
<1>4. ArtifactsAside /\ rows' = rows /\ job' = job
  BY <1>1, NothingElsewhere DEF ArtifactsAside, artifactVars
<1>5. importing[imp.tx] = imp.bundle
  BY <1>1 DEF InductiveInvariant, ImportInvariant, ImportIsSound
<1>6. /\ final' \in [Bundle -> {Absent, Partial, "whole"}]
      /\ tree' \in [ImportTx -> {Absent, Partial} \union Bundle]
      /\ \A b \in Bundle : final'[b] = IF b = imp.bundle THEN "whole" ELSE final[b]
  BY <1>1, <1>2, TreesStay
<1>7. \A b \in revisions : final'[b] = "whole"
  BY <1>6, TreesStay
<1>8. ImportTyped'
  BY <1>1, <1>2, <1>3 DEF ImportTyped, Idle, Chosen, Copied
<1>9. ImportIsSound' /\ IntentsAreSingle'
  BY <1>1, <1>2, <1>3, <1>4, <1>5, <1>6
  DEF InductiveInvariant, ImportInvariant, ImportIsSound, IntentsAreSingle, Held
<1>10. TreesAreAccounted'
  BY <1>1, <1>2, <1>3, <1>5, <1>6 DEF InductiveInvariant, ImportInvariant, TreesAreAccounted
<1> QED
  BY <1>1, <1>4, <1>6, <1>7, <1>8, <1>9, <1>10, GoingOnKeeps, TreesStay

(* One transaction registers revision, session, reference and receipt of an    *)
(* import whose tree is whole and whose report is stored.                      *)
LEMMA RegisterImportKeeps ==
  ASSUME InductiveInvariant, RegisterImport
  PROVE  InductiveInvariant'
<1> DEFINE b == imp.bundle
<1>1. /\ Serving /\ imp.step = "register" /\ stuck = None
      /\ UNCHANGED <<phase, staging, payload, intents, rows, job, step, recovery,
                     stuck, owners, faults, tree, final>>
  BY DEF RegisterImport
<1>2. /\ b \in Bundle /\ b \in Digest /\ b \in Owner /\ b # None
      /\ imp.tx \in ImportTx /\ receipts[imp.tx] = None
      /\ cleanup.at = "none" /\ ~Held(Requester) /\ rows[b] # None /\ phase = "open"
  BY <1>1, ImportInHand, ImportShape, NoneIsNothing DEF Serving
<1>3. importing[imp.tx] = b /\ final[b] = "whole"
  BY <1>1 DEF InductiveInvariant, ImportInvariant, ImportIsSound
<1>4. BundleSession(b) \in SessionId
  BY <1>2 DEF SessionId
<1> HIDE DEF b
<1>5. CASE /\ imp' = [NoImport EXCEPT !.step = "failed"] /\ BeginRecover
           /\ UNCHANGED <<refs, active, importing, revisions, current, receipts>>
  <2>1. /\ ArtifactsAside
        /\ UNCHANGED <<stuck, tree, final, importing, revisions, current, receipts, rows, refs, job>>
    BY <1>1, <1>5 DEF ArtifactsAside, artifactVars, InductiveInvariant, ArtifactInvariant, TypeOK
  <2>2. ArtifactInvariant' /\ OpenWritesAreSound'
    BY <2>1, ArtifactsStay
    DEF ArtifactsAside, InductiveInvariant, ImportInvariant, OpenWritesAreSound, Open
  <2> QED
    BY <1>2, <1>5, <2>1, <2>2, GivingUpKeeps DEF Held
<1>6. CASE /\ ~IdentityConflict(b)
           /\ revisions' = revisions \union {b}
           /\ current' = [current EXCEPT ![BundleSession(b)] = b]
           /\ refs' = [refs EXCEPT ![b] = b]
           /\ DeriveLifecycle(b, refs')
           /\ importing' = [importing EXCEPT ![imp.tx] = None]
           /\ receipts' = [receipts EXCEPT ![imp.tx] = b]
           /\ imp' = NoImport
           /\ UNCHANGED cleanup
  <2>1. /\ imp'.step = "idle" /\ cleanup'.at = "none" /\ stuck' = None
        /\ ~Held(Requester)'
    BY <1>1, <1>2, <1>6 DEF NoImport, Held
  <2>2. /\ refs' \in [Owner -> Digest \union {None}]
        /\ refs[b] \in {None, b} /\ \A o \in Owner : refs'[o] = IF o = b THEN b ELSE refs[o]
    BY <1>2, <1>6 DEF InductiveInvariant, ArtifactInvariant, TypeOK, RevisionsHoldTheirOwn
  <2>3. active' = active \union {b}
    BY <1>2, <1>6, <2>2 DEF DeriveLifecycle
  <2>4. ArtifactInvariant'
    <3>1. TypeOK'
      BY <1>1, <1>2, <2>2, <2>3 DEF InductiveInvariant, ArtifactInvariant, TypeOK
    <3>2. PayloadKept'
      <4>1. Registered' = Registered
        BY <1>1 DEF Registered
      <4>2. Referenced' = Referenced \union {b}
        <5>1. \A d \in Digest : (\E o \in Owner : refs'[o] = d) <=> d = b \/ (\E o \in Owner : refs[o] = d)
          BY <1>2, <2>2, NoneIsNothing
        <5> QED
          BY <1>2, <5>1 DEF Referenced
      <4>3. b \in Registered
        BY <1>2 DEF Registered
      <4>4. b \notin owners
        BY <1>2 DEF InductiveInvariant, ArtifactInvariant, RevisionsHoldTheirOwn
      <4>5. owners \subseteq Owner
        BY DEF InductiveInvariant, ArtifactInvariant, TypeOK
      <4>6. LifecycleIsDerived'
        BY <2>3, <4>1, <4>2, <4>3
        DEF InductiveInvariant, ArtifactInvariant, PayloadKept, LifecycleIsDerived
      <4>7. ResultsAreHeld'
        BY <1>1, <2>2, <4>1, <4>4, <4>5
        DEF InductiveInvariant, ArtifactInvariant, PayloadKept, ResultsAreHeld
      <4> QED
        BY <1>1, <4>1, <4>6, <4>7
        DEF InductiveInvariant, ArtifactInvariant, PayloadKept, OrphansAreIntended
    <3>3. PutsAreSound'
      <4>1. ASSUME NEW t \in Thread, Held(t)'
            PROVE  /\ phase' = "open" /\ job'[t].thread = t
                   /\ step'[t] \in {"promote", "register"} => intents'[job'[t].tx] = job'[t].digest
                   /\ step'[t] = "register" => job'[t].digest \in payload'
                   /\ step'[t] = "tidy" => /\ rows'[job'[t].digest] # None
                                           /\ job'[t].owner # None => refs'[job'[t].owner] = job'[t].digest
        <5>1. Held(t) /\ job'[t] = job[t] /\ step'[t] = step[t]
          BY <1>1, <4>1 DEF Held
        <5>2. job[t].owner \notin Bundle /\ job[t].owner \in Owner \union {None}
          BY <5>1, HeldPut DEF InductiveInvariant, ArtifactInvariant
        <5> QED
          BY <1>1, <1>2, <2>2, <5>1, <5>2 DEF InductiveInvariant, ArtifactInvariant, PutsAreSound
      <4> QED
        BY <4>1 DEF PutsAreSound
    <3>4. RevisionsHoldTheirOwn'
      BY <1>1, <2>2, ImportShape DEF InductiveInvariant, ArtifactInvariant, RevisionsHoldTheirOwn
    <3>5. RecoveryIsSound'
      BY <1>1, <1>2 DEF RecoveryIsSound
    <3> QED
      BY <3>1, <3>2, <3>3, <3>4, <3>5 DEF ArtifactInvariant
  <2>5. /\ importing' \in [ImportTx -> Bundle \union {None}]
        /\ \A x \in ImportTx : importing'[x] = IF x = imp.tx THEN None ELSE importing[x]
        /\ receipts' \in [ImportTx -> Bundle \union {None}]
        /\ \A x \in ImportTx : receipts'[x] = IF x = imp.tx THEN b ELSE receipts[x]
        /\ current' \in [SessionId -> Bundle \union {None}]
        /\ \A s \in SessionId : current'[s] = IF s = BundleSession(b) THEN b ELSE current[s]
    BY <1>2, <1>4, <1>6, TreesStay
  <2>6. RevisionUsable'
    <3>1. SessionTypeOK'
      <4>1. TypeOK' /\ tree' = tree /\ final' = final /\ revisions' \subseteq Bundle
        BY <1>1, <1>2, <1>6, <2>4, TreesStay DEF ArtifactInvariant
      <4> QED
        BY <2>5, <4>1, TreesStay DEF SessionTypeOK
    <3>2. \A c \in revisions' : /\ final'[c] = "whole" /\ rows'[c] # None /\ c \in payload' /\ refs'[c] = c
                                /\ current'[BundleSession(c)] # None
      <4>1. ASSUME NEW c \in revisions
            PROVE  /\ final'[c] = "whole" /\ rows'[c] # None /\ c \in payload' /\ refs'[c] = c
                   /\ current'[BundleSession(c)] # None
        <5>1. c \in Bundle /\ c \in Owner /\ BundleSession(c) \in SessionId
          BY TreesStay, ImportShape DEF SessionId
        <5>2. final[c] = "whole" /\ rows[c] # None /\ c \in payload /\ refs[c] = c
              /\ current[BundleSession(c)] # None
          BY DEF InductiveInvariant, ImportInvariant, RevisionUsable
        <5> QED
          BY <1>1, <1>2, <2>2, <2>5, <5>1, <5>2
      <4>2. b \in payload
        BY <1>2 DEF InductiveInvariant, ArtifactInvariant, PayloadKept, Registered
      <4>3. /\ final'[b] = "whole" /\ rows'[b] # None /\ b \in payload' /\ refs'[b] = b
            /\ current'[BundleSession(b)] # None
        BY <1>1, <1>2, <1>3, <1>4, <2>2, <2>5, <4>2
      <4> QED
        BY <1>6, <4>1, <4>3
    <3>3. \A x \in ImportTx : receipts'[x] # None => receipts'[x] \in revisions'
      BY <1>6, <2>5 DEF InductiveInvariant, ImportInvariant, RevisionUsable
    <3>4. \A s \in SessionId : current'[s] # None =>
            current'[s] \in revisions' /\ BundleSession(current'[s]) = s
      BY <1>6, <2>5 DEF InductiveInvariant, ImportInvariant, RevisionUsable
    <3>5. \A c, d \in revisions' :
            BundleSession(c) = BundleSession(d) => BundlePilot(c) = BundlePilot(d)
      <4>1. ASSUME NEW c \in revisions, BundleSession(c) = BundleSession(b)
            PROVE  BundlePilot(c) = BundlePilot(b)
        <5>1. current[BundleSession(b)] # None
          BY <4>1 DEF InductiveInvariant, ImportInvariant, RevisionUsable
        <5>2. /\ current[BundleSession(b)] \in revisions
              /\ BundleSession(current[BundleSession(b)]) = BundleSession(b)
          BY <1>4, <5>1 DEF InductiveInvariant, ImportInvariant, RevisionUsable
        <5>3. BundlePilot(current[BundleSession(b)]) = BundlePilot(b)
          BY <1>6, <5>1 DEF IdentityConflict
        <5> QED
          BY <4>1, <5>2, <5>3 DEF InductiveInvariant, ImportInvariant, RevisionUsable
      <4>2. \A c, d \in revisions :
              BundleSession(c) = BundleSession(d) => BundlePilot(c) = BundlePilot(d)
        BY DEF InductiveInvariant, ImportInvariant, RevisionUsable
      <4> QED
        BY <1>6, <4>1, <4>2
    <3> QED
      BY <3>1, <3>2, <3>3, <3>4, <3>5 DEF RevisionUsable
  <2>7. TreesAreAccounted'
    <3>1. ASSUME NEW c \in Bundle, final'[c] # Absent, c \notin revisions'
          PROVE  \E x \in ImportTx : importing'[x] = c
      <4>1. PICK x \in ImportTx : importing[x] = c
        BY <1>1, <1>6, <3>1 DEF InductiveInvariant, ImportInvariant, TreesAreAccounted
      <4>2. x # imp.tx
        BY <1>3, <1>6, <3>1, <4>1
      <4> QED
        BY <2>5, <4>1, <4>2
    <3> QED
      BY <2>1, <3>1 DEF TreesAreAccounted
  <2>8. ImportTyped' /\ CleanupTyped' /\ CleanupIsSound' /\ OpenWritesAreSound'
    BY <1>6, <2>1
    DEF InductiveInvariant, ImportInvariant, ImportTyped, CleanupTyped, CleanupIsSound, Cleaning,
        OpenWritesAreSound, Open, NoImport, Idle, Chosen, Copied
  <2>9. ImportIsSound'
    BY <2>1 DEF ImportIsSound
  <2>10. IntentsAreSingle'
    BY <2>1, <2>5 DEF InductiveInvariant, ImportInvariant, IntentsAreSingle
  <2> QED
    BY <2>4, <2>6, <2>7, <2>8, <2>9, <2>10 DEF InductiveInvariant, ImportInvariant
<1> QED
  BY <1>5, <1>6 DEF RegisterImport, b

(* A step of an import that fails leaves open at most what it was to write.    *)
LEMMA ImportFailsKeeps ==
  ASSUME InductiveInvariant, ImportFails
  PROVE  InductiveInvariant'
<1>1. /\ Serving /\ imp.step \in {"copy", "intent", "promote", "register"}
      /\ imp' = [NoImport EXCEPT !.step = "failed"]
      /\ cleanup' = [at |-> "read", todo |-> {}, known |-> {}]
      /\ UNCHANGED <<phase, artifactVars, tree, final, importing, revisions, current, receipts>>
  BY DEF ImportFails
<1>2. \/ stuck' = stuck
      \/ imp.step = "intent" /\ stuck = None /\ stuck' = <<"session intent", imp.tx, imp.bundle>>
      \/ imp.step = "register" /\ stuck = None /\ stuck' = <<"session", imp.tx, imp.bundle>>
  BY DEF ImportFails
<1>3. faults' \in 0 .. MaxFaults
  <2>1. faults \in 0 .. MaxFaults
    BY DEF InductiveInvariant, ArtifactInvariant, TypeOK
  <2>2. \/ faults' = faults
        \/ faults < MaxFaults /\ faults' = faults + 1
    BY DEF ImportFails
  <2> QED
    BY <2>1, <2>2, FaultBound
<1>4. ArtifactInvariant' /\ rows' = rows /\ refs' = refs /\ job' = job
  BY <1>1, <1>3, ArtifactsStay DEF InductiveInvariant, artifactVars
<1>5. ~Held(Requester)'
  BY <1>1, <1>4 DEF InductiveInvariant, ImportInvariant, ImportIsSound, Held
<1>6. OpenWritesAreSound'
  <2>1. CASE stuck' = stuck
    BY <1>1, <2>1 DEF InductiveInvariant, ImportInvariant, OpenWritesAreSound, Open
  <2>2. CASE imp.step = "intent" /\ stuck = None /\ stuck' = <<"session intent", imp.tx, imp.bundle>>
    <3>1. stuck'[1] = "session intent" /\ stuck'[2] = imp.tx /\ stuck'[3] = imp.bundle
      BY <2>2
    <3>2. \A x \in ImportTx : importing[x] = None
      BY <2>2 DEF InductiveInvariant, ImportInvariant, IntentsAreSingle
    <3>3. imp.tx \in ImportTx /\ imp.bundle \in Bundle
      BY <1>1, <2>2, ImportInHand
    <3> QED
      BY <1>1, <3>1, <3>2, <3>3 DEF OpenWritesAreSound, Open
  <2>3. CASE imp.step = "register" /\ stuck = None /\ stuck' = <<"session", imp.tx, imp.bundle>>
    <3>1. stuck'[1] = "session" /\ stuck'[2] = imp.tx /\ stuck'[3] = imp.bundle
      BY <2>3
    <3>2. importing[imp.tx] = imp.bundle
      BY <2>3 DEF InductiveInvariant, ImportInvariant, ImportIsSound
    <3>3. imp.tx \in ImportTx /\ imp.bundle \in Bundle
      BY <1>1, <2>3, ImportInHand
    <3> QED
      BY <1>1, <3>1, <3>2, <3>3 DEF OpenWritesAreSound, Open
  <2> QED
    BY <1>2, <2>1, <2>2, <2>3
<1>7. stuck' = None => stuck = None
  BY <1>2
<1> QED
  BY <1>1, <1>4, <1>5, <1>6, <1>7, GivingUpKeeps

------------------------------------------------------------------------------
(* The theorems.                                                               *)

LEMMA InitEstablishes ==
  ASSUME ImportInit
  PROVE  InductiveInvariant
<1>1. None \notin Bundle /\ None \notin Digest /\ Requester \in Thread
  BY ImportShape, NoneIsNothing
<1>2. TypeOK
  BY FaultBound DEF ImportInit, Init, TypeOK, Steps, NoRecovery
<1>3. PayloadKept /\ PutsAreSound /\ RevisionsHoldTheirOwn /\ RecoveryIsSound
  BY <1>1, ImportShape
  DEF ImportInit, Init, PayloadKept, Registered, Referenced, ResultsAreHeld, LifecycleIsDerived,
      OrphansAreIntended, PutsAreSound, Held, RevisionsHoldTheirOwn, RecoveryIsSound
<1>4. RevisionUsable /\ TreesAreAccounted
  BY <1>2 DEF ImportInit, RevisionUsable, SessionTypeOK, TreesAreAccounted, NoImport
<1>5. ImportTyped /\ CleanupTyped
  BY DEF ImportInit, ImportTyped, CleanupTyped, NoImport, NoCleanup, Idle, Chosen, Copied
<1>6. OpenWritesAreSound /\ CleanupIsSound /\ IntentsAreSingle
  BY DEF ImportInit, Init, OpenWritesAreSound, Open, CleanupIsSound, Cleaning, NoCleanup, IntentsAreSingle
<1>7. ImportIsSound
  BY <1>1 DEF ImportInit, Init, ImportIsSound, NoImport, NoCleanup, Held
<1> QED
  BY <1>2, <1>3, <1>4, <1>5, <1>6, <1>7 DEF InductiveInvariant, ArtifactInvariant, ImportInvariant

LEMMA StepKeeps ==
  ASSUME InductiveInvariant, ImportNext
  PROVE  InductiveInvariant'
<1>1. CASE ImportStep
  BY <1>1, RequestKeeps, InspectKeeps, CopyKeeps, PutReportKeeps, ReportStepKeeps, RecordImportKeeps,
     PromoteImportKeeps, RegisterImportKeeps, ImportFailsKeeps DEF ImportStep
<1>2. CASE RecoverStep
  BY <1>2, ReadIntentsKeeps, CleanTreeKeeps, CleanOrphanKeeps, CleanIntentKeeps, CleanSweepKeeps,
     CleanFailsKeeps DEF RecoverStep
<1>3. CASE ChangeFolder \/ OpenProject \/ OpeningRecovers \/ CloseProject \/ ImportCrash \/ WorkerStep
  BY <1>3, ChangeFolderKeeps, OpenProjectKeeps, OpeningRecoversKeeps, EndingKeeps, WorkerKeeps
<1> QED
  BY <1>1, <1>2, <1>3 DEF ImportNext

LEMMA StutterKeeps ==
  ASSUME InductiveInvariant, UNCHANGED allVars
  PROVE  InductiveInvariant'
<1>1. UNCHANGED vars /\ UNCHANGED importVars
  BY DEF allVars
<1>2. /\ UNCHANGED <<phase, staging, payload, intents, rows, refs, active, job, step, recovery, owners, stuck, faults>>
      /\ UNCHANGED <<tree, final, importing, revisions, current, receipts, imp, cleanup>>
  BY <1>1 DEF vars, artifactVars, importVars
<1>3. ArtifactInvariant'
  <2>1. faults' \in 0 .. MaxFaults
    BY <1>2 DEF InductiveInvariant, ArtifactInvariant, TypeOK
  <2> QED
    BY <1>2, <2>1, ArtifactsStay DEF InductiveInvariant, artifactVars
<1>4. Elsewhere
  <2>1. \A t \in Thread : Held(t)' <=> Held(t)
    BY <1>2 DEF Held
  <2> QED
    BY <1>1, <1>2, <2>1 DEF Elsewhere, InductiveInvariant, ImportInvariant, ImportIsSound
<1> QED
  BY <1>3, <1>4, ElsewhereKeeps DEF InductiveInvariant

(* Whatever threads put, import, fail, crash and recover, the store keeps the  *)
(* invariant that all of the following rests on.                               *)
THEOREM Invariance == ImportSpec => []InductiveInvariant
<1>1. ImportInit => InductiveInvariant
  BY InitEstablishes
<1>2. InductiveInvariant /\ [ImportNext]_allVars => InductiveInvariant'
  BY StepKeeps, StutterKeeps
<1> QED
  BY <1>1, <1>2, PTL DEF ImportSpec

(* Every registered artifact has its payload, and rows, owners, lifecycle and  *)
(* intents agree (put_bytes, recover, remove_reference of artifacts.py).       *)
THEOREM PayloadsKept == ImportSpec => []PayloadKept
<1>1. InductiveInvariant => PayloadKept
  BY DEF InductiveInvariant, ArtifactInvariant
<1> QED
  BY <1>1, Invariance, PTL

(* A registered revision can be used, whatever an import recovery removes and  *)
(* whatever it sees of an open transaction (import_source, recover).           *)
THEOREM RevisionsUsable == ImportSpec => []RevisionUsable
<1>1. InductiveInvariant => RevisionUsable
  BY DEF InductiveInvariant, ImportInvariant
<1> QED
  BY <1>1, Invariance, PTL

(* A managed tree that no revision owns is named by an intent, and promotion   *)
(* never meets half a tree (recover, _promote of sessions.py).                 *)
THEOREM TreesAccounted == ImportSpec => []TreesAreAccounted
<1>1. InductiveInvariant => TreesAreAccounted
  BY DEF InductiveInvariant, ImportInvariant
<1> QED
  BY <1>1, Invariance, PTL

(* An opening leaves no staging file, no intent and no payload without a row   *)
(* of an earlier process.                                                      *)
THEOREM RecoveryCleans == ImportSpec => RecoveredClean
<1> DEFINE Clean == /\ payload' = Registered'
                    /\ \A x \in Tx : staging'[x] = Absent /\ intents'[x] = None
<1>1. ASSUME InductiveInvariant, [ImportNext]_allVars, phase = "recovering", phase' = "open"
      PROVE  Clean
  <2>1. CASE OpeningRecovers
    BY <1>1, <2>1, SweepPayloadsKeeps DEF OpeningRecovers, InductiveInvariant
  <2>2. ~ChangeFolder /\ ~CloseProject /\ ~ImportCrash /\ ~OpenProject /\ ~(UNCHANGED allVars)
    BY <1>1
    DEF ChangeFolder, CloseProject, Close, ImportCrash, Crash, OpenProject, StartRecovery, RecoverStaging,
        RecoverOrphan, ClearIntent, BeginSweep, SweepStaging, allVars, vars
  <2>3. ~WorkerStep
    BY <1>1, PutsElsewhere
    DEF WorkerStep, BeginPut, RemoveReference, FinishAssessment, InductiveInvariant
  <2>4. ~RecoverStep
    BY <1>1
    DEF RecoverStep, ReadIntents, CleanTree, CleanOrphan, CleanIntent, CleanSweep, CleanFails, vars
  <2>5. ~ImportStep
    <3>1. ~ReportStep
      BY <1>1, TreesStay, PutsElsewhere DEF ReportStep, InductiveInvariant
    <3> QED
      BY <1>1, <3>1
      DEF ImportStep, RequestImport, Inspect, Copy, PutReport, BeginPut, RecordImport, PromoteOrReuse,
          RegisterImport, ImportFails, Serving
  <2> QED
    BY <1>1, <2>1, <2>2, <2>3, <2>4, <2>5 DEF ImportNext
<1>2. InductiveInvariant /\ [ImportNext]_allVars => [(phase = "recovering" /\ phase' = "open") => Clean]_vars
  BY <1>1
<1> QED
  BY <1>2, Invariance, PTL DEF ImportSpec, RecoveredClean

------------------------------------------------------------------------------
(* The refinement of ContentStore. What can be read is what is registered.     *)

LEMMA ReadableIsRegistered ==
  ASSUME InductiveInvariant
  PROVE  /\ {d \in payload : rows[d] # None} = Registered
         /\ {b \in revisions : final[b] = "whole"} = revisions
BY DEF InductiveInvariant, ArtifactInvariant, ImportInvariant, TypeOK, PayloadKept, Registered,
       RevisionUsable

(* A step that registers and binds nothing stutters.                           *)
LEMMA NothingRegistered ==
  ASSUME InductiveInvariant, InductiveInvariant', UNCHANGED <<rows, refs, revisions, current, receipts>>
  PROVE  UNCHANGED Store!contents
<1>1. Registered' = Registered
  BY DEF Registered
<1>2. /\ {d \in payload : rows[d] # None}' = {d \in payload : rows[d] # None}
      /\ {b \in revisions : final[b] = "whole"}' = {b \in revisions : final[b] = "whole"}
  <2>1. {d \in payload : rows[d] # None} = Registered /\ {b \in revisions : final[b] = "whole"} = revisions
    BY ReadableIsRegistered
  <2>2. {d \in payload' : rows'[d] # None} = Registered' /\ {b \in revisions' : final'[b] = "whole"} = revisions'
    BY DEF InductiveInvariant, ArtifactInvariant, ImportInvariant, TypeOK, PayloadKept, Registered,
           RevisionUsable
  <2> QED
    BY <1>1, <2>1, <2>2
<1> QED
  BY <1>2 DEF Store!contents

(* The registration of a put stores its artifact, and binds it to its owner.   *)
LEMMA RegisterStores ==
  ASSUME InductiveInvariant, InductiveInvariant', UNCHANGED <<final, revisions, current, receipts>>,
         NEW t \in Thread, Register(t)
  PROVE  [Store!Next]_(Store!contents)
<1> DEFINE p == job[t]
<1>1. /\ Held(t) /\ p.digest \in Digest /\ p.owner \in Owner \union {None} /\ p.owner \notin Bundle
      /\ p.meta # None /\ p.digest # None
  BY AtHeld, HeldPut DEF Register, InductiveInvariant, ArtifactInvariant
<1> HIDE DEF p
<1>2. CASE UNCHANGED <<rows, refs>>
  BY <1>2, NothingRegistered
<1>3. CASE /\ ~Conflicts(p)
           /\ rows' = [rows EXCEPT ![p.digest] = p.meta]
           /\ refs' = IF p.owner = None THEN refs ELSE [refs EXCEPT ![p.owner] = p.digest]
  <2>1. Registered' = Registered \union {p.digest}
    BY <1>1, <1>3 DEF Registered, InductiveInvariant, ArtifactInvariant, TypeOK
  <2>2. {d \in payload : rows[d] # None} = Registered
    BY ReadableIsRegistered
  <2>3. {d \in payload' : rows'[d] # None} = Registered'
    BY DEF InductiveInvariant, ArtifactInvariant, TypeOK, PayloadKept, Registered
  <2>4. p.owner # None => refs[p.owner] \in {None, p.digest}
    BY <1>3 DEF Conflicts
  <2>5. PICK a \in Digest, h \in Owner \union {None} : a = p.digest /\ h = p.owner
    BY <1>1
  <2>6. Store!Store(a, h)
    BY <1>1, <1>3, <2>1, <2>2, <2>3, <2>4, <2>5 DEF Store!Store
  <2> QED
    BY <2>6 DEF Store!Next
<1> QED
  BY <1>2, <1>3 DEF Register, p

(* A released result is not what a revision holds.                             *)
LEMMA ReleaseReleases ==
  ASSUME InductiveInvariant, InductiveInvariant', UNCHANGED importVars,
         NEW o \in Owner, RemoveReference(o)
  PROVE  [Store!Next]_(Store!contents)
<1>1. /\ refs' = [refs EXCEPT ![o] = None] /\ UNCHANGED <<rows, payload>> /\ o \in owners
      /\ UNCHANGED <<revisions, final, current, receipts>>
  BY DEF RemoveReference, importVars
<1>2. o \notin revisions
  BY <1>1, TreesStay DEF InductiveInvariant, ArtifactInvariant, RevisionsHoldTheirOwn
<1>3. Store!Release(o)
  BY <1>1, <1>2 DEF Store!Release
<1> QED
  BY <1>3 DEF Store!Next

(* The transaction of an import imports its revision, with everything that     *)
(* names it, at once.                                                          *)
LEMMA RegistrationImports ==
  ASSUME InductiveInvariant, InductiveInvariant', RegisterImport
  PROVE  [Store!Next]_(Store!contents)
<1> DEFINE b == imp.bundle
<1>1. /\ b \in Bundle /\ b \in Digest /\ imp.tx \in ImportTx /\ receipts[imp.tx] = None /\ rows[b] # None
  BY ImportInHand, TreesStay DEF RegisterImport
<1>2. final[b] = "whole"
  BY DEF RegisterImport, InductiveInvariant, ImportInvariant, ImportIsSound
<1>3. UNCHANGED <<payload, rows, final>>
  BY DEF RegisterImport
<1> HIDE DEF b
<1>4. CASE UNCHANGED <<refs, revisions, current, receipts>>
  BY <1>3, <1>4, NothingRegistered
<1>5. CASE /\ revisions' = revisions \union {b}
           /\ current' = [current EXCEPT ![BundleSession(b)] = b]
           /\ refs' = [refs EXCEPT ![b] = b]
           /\ receipts' = [receipts EXCEPT ![imp.tx] = b]
  <2>1. /\ {d \in payload : rows[d] # None} = Registered
        /\ {c \in revisions : final[c] = "whole"} = revisions
    BY ReadableIsRegistered
  <2>2. b \in Registered
    BY <1>1 DEF Registered
  <2>3. {c \in revisions' : final'[c] = "whole"} = revisions \union {b}
    BY <1>2, <1>3, <1>5, <2>1
  <2>4. PICK r \in ImportTx, v \in Bundle : r = imp.tx /\ v = b
    BY <1>1
  <2>5. Store!Import(r, v)
    BY <1>1, <1>3, <1>5, <2>1, <2>2, <2>3, <2>4 DEF Store!Import
  <2> QED
    BY <2>5 DEF Store!Next
<1> QED
  BY <1>4, <1>5 DEF RegisterImport, b

(* Every other step registers nothing.                                         *)
LEMMA PutRefines ==
  ASSUME InductiveInvariant, InductiveInvariant', UNCHANGED <<final, revisions, current, receipts>>,
         NEW t \in Thread, PutStep(t) \/ FailPut(t)
  PROVE  [Store!Next]_(Store!contents)
<1>1. CASE Register(t)
  BY <1>1, RegisterStores
<1>2. CASE Stage(t) \/ Write(t) \/ Refused(t) \/ RecordIntent(t) \/ Promote(t) \/ Tidy(t) \/ FailPut(t)
  <2>1. UNCHANGED <<rows, refs, revisions, current, receipts>>
    BY <1>2 DEF Stage, Write, Refused, RecordIntent, Promote, Tidy, FailPut
  <2> QED
    BY <2>1, NothingRegistered
<1> QED
  BY <1>1, <1>2 DEF PutStep

(* The steps of an import, but for the put of its report and its registration, *)
(* those of its cleanup, and the opening and the end of a process register     *)
(* nothing.                                                                    *)
LEMMA OthersStutter ==
  ASSUME InductiveInvariant, InductiveInvariant',
         \/ \E a \in Asked : RequestImport(a[1], a[2])
         \/ Inspect \/ Copy \/ PutReport \/ RecordImport \/ PromoteOrReuse \/ ImportFails
         \/ RecoverStep \/ ChangeFolder \/ OpenProject \/ OpeningRecovers \/ CloseProject
         \/ ImportCrash \/ UNCHANGED allVars
  PROVE  UNCHANGED Store!contents
<1>1. CASE \/ \E a \in Asked : RequestImport(a[1], a[2])
           \/ Inspect \/ Copy \/ PutReport \/ RecordImport \/ PromoteOrReuse \/ ImportFails
  <2>1. UNCHANGED <<rows, refs, revisions, current, receipts>>
    BY <1>1 DEF RequestImport, Inspect, Copy, PutReport, BeginPut, RecordImport, PromoteOrReuse,
                ImportFails, vars, artifactVars
  <2> QED
    BY <2>1, NothingRegistered
<1>2. CASE RecoverStep \/ ChangeFolder
  <2>1. UNCHANGED <<rows, refs, revisions, current, receipts>>
    BY <1>2 DEF RecoverStep, ReadIntents, CleanTree, CleanOrphan, CleanIntent, CleanSweep, CleanFails,
                ChangeFolder, vars, artifactVars
  <2> QED
    BY <2>1, NothingRegistered
<1>3. CASE OpenProject \/ OpeningRecovers \/ CloseProject \/ ImportCrash \/ UNCHANGED allVars
  <2>1. UNCHANGED <<rows, refs, revisions, current, receipts>>
    BY <1>3 DEF OpenProject, StartRecovery, RecoverStaging, RecoverOrphan, ClearIntent, BeginSweep,
                SweepStaging, OpeningRecovers, SweepPayloads, CloseProject, Close, ImportCrash, Crash,
                allVars, importVars, vars, artifactVars
  <2> QED
    BY <2>1, NothingRegistered
<1> QED
  BY <1>1, <1>2, <1>3

LEMMA StepRefines ==
  ASSUME InductiveInvariant, InductiveInvariant', [ImportNext]_allVars
  PROVE  [Store!Next]_(Store!contents)
<1>1. CASE WorkerStep
  <2>1. UNCHANGED importVars /\ UNCHANGED <<final, revisions, current, receipts>>
    BY <1>1 DEF WorkerStep, importVars
  <2>2. ASSUME NEW p \in Put, BeginPut(p)
        PROVE  [Store!Next]_(Store!contents)
    BY <2>1, <2>2, NothingRegistered DEF BeginPut
  <2>3. ASSUME FinishAssessment
        PROVE  [Store!Next]_(Store!contents)
    BY <2>1, <2>3, NothingRegistered DEF FinishAssessment
  <2> QED
    BY <1>1, <2>1, <2>2, <2>3, PutRefines, ReleaseReleases DEF WorkerStep
<1>2. CASE ReportStep
  <2>1. /\ UNCHANGED <<final, revisions, current, receipts>>
        /\ PutStep(Requester) \/ FailPut(Requester)
    BY <1>2 DEF ReportStep
  <2> QED
    BY <2>1, TreesStay, PutRefines
<1>3. CASE RegisterImport
  BY <1>3, RegistrationImports
<1>4. CASE \/ \E a \in Asked : RequestImport(a[1], a[2])
           \/ Inspect \/ Copy \/ PutReport \/ RecordImport \/ PromoteOrReuse \/ ImportFails
           \/ RecoverStep \/ ChangeFolder \/ OpenProject \/ OpeningRecovers \/ CloseProject
           \/ ImportCrash \/ UNCHANGED allVars
  BY <1>4, OthersStutter
<1> QED
  BY <1>1, <1>2, <1>3, <1>4 DEF ImportNext, ImportStep

(* Artifacts and revisions appear whole, in one step, with everything that     *)
(* refers to them, and no failure, crash, recovery or open transaction takes   *)
(* them back: the store of a project implements ContentStore.                  *)
THEOREM StoreImplemented == ImportSpec => ImplementsStore
<1>1. ImportInit => Store!Init
  BY DEF ImportInit, Init, Store!Init
<1>2. InductiveInvariant /\ InductiveInvariant' /\ [ImportNext]_allVars => [Store!Next]_(Store!contents)
  BY StepRefines
<1> QED
  BY <1>1, <1>2, Invariance, PTL DEF ImportSpec, ImplementsStore, Store!Spec
==============================================================================
