--------------------------- MODULE StoreOpening ---------------------------
(***************************************************************************)
(* The start and the end of the processes that own the core model store:   *)
(* SystemStore.open_or_create, create, open and close with the writer lock *)
(* (persistence/system.py), the migrations ProjectDatabase.connect applies *)
(* to the file (persistence/migrations.py), and the composition that       *)
(* follows in SystemApplication._compose (runtime/system_application.py):  *)
(* content migration, the two starter seeds, and the draft of the last     *)
(* edit session.  Processes start in any order with any starter package,   *)
(* may crash before every step and may meet an I/O error at every step.    *)
(*                                                                         *)
(* What is on disk is one record: the staging directory, the locator, the  *)
(* database file and its migrations, the system tables, the metadata row,  *)
(* the two seed markers, the format of the model's content, whether the    *)
(* events of its migration are recorded, and the draft: the content its    *)
(* base fingerprint names and the format of its own rows.  What the open   *)
(* application does to the model is the matter of ModelEditSession.        *)
(***************************************************************************)
EXTENDS Naturals

CONSTANTS Processes, Packages, \* the processes and the starter packages
          Migrations,          \* how many schema migrations the code knows
          MaxStarts,           \* bound on the starts of all processes
          None

\* A store that an earlier version left has the first migration at least.
ASSUME StoreAssumption ==
    /\ Migrations \in Nat \ {0}
    /\ None \notin Processes /\ None \notin Packages /\ None \notin Nat \X Packages
    /\ None \notin {"format", "integrity", "exists", "seed", "legacy", "current"}

VARIABLES disk,     \* what the system root holds
          lock,     \* the process that holds the writer lock, or None
          pc,       \* where each process is
          mode,     \* whether its start opens or creates
          package,  \* the starter package it was unpacked with
          accepted, \* the base fingerprints its edit session accepts
          starts,   \* how many starts there were
          outcome,  \* how each process's last start ended
          cut,      \* whether a creation was broken off
          first     \* the identity of the first application composed
storeVars == <<disk, lock, pc, mode, package, accepted, starts, outcome, cut, first>>

Empty == [staging |-> FALSE, locator |-> None, file |-> FALSE, version |-> 0, system |-> FALSE,
          metadata |-> None, clean |-> FALSE, seed |-> None, current |-> None,
          content |-> "current", events |-> FALSE, base |-> None, live |-> None]

\* A store an earlier version left: fewer migrations, rows in the old format,
\* and the draft of an edit session or none.
Old(k, clean, draft) ==
    [staging |-> TRUE, locator |-> <<0, k>>, file |-> TRUE, version |-> 1, system |-> TRUE,
     metadata |-> <<0, k>>, clean |-> clean, seed |-> k, current |-> k,
     content |-> "legacy", events |-> FALSE, base |-> draft, live |-> draft]

StoreInit ==
    /\ disk \in {Empty} \cup {Old(k, clean, draft) : k \in Packages, clean \in BOOLEAN,
                                                    draft \in {None, "legacy"}}
    /\ lock = None
    /\ pc = [p \in Processes |-> "idle"]
    /\ mode = [p \in Processes |-> "open"]
    /\ package = [p \in Processes |-> CHOOSE k \in Packages : TRUE]
    /\ accepted = [p \in Processes |-> {}]
    /\ starts = 0
    /\ outcome = [p \in Processes |-> None]
    /\ cut = FALSE
    /\ first = disk.locator

Occupied == disk.staging \/ disk.locator # None \/ disk.file
Go(p, step) == pc' = [pc EXCEPT ![p] = step]
Write(p, step, contents) == /\ disk' = contents
                            /\ Go(p, step)
                            /\ UNCHANGED <<lock, mode, package, accepted, starts, outcome, cut, first>>
\* The start ends with an error; whoever holds the lock gives it back.
Refuse(p, why) == /\ outcome' = [outcome EXCEPT ![p] = why]
                  /\ lock' = IF lock = p THEN None ELSE lock
                  /\ Go(p, "idle")
                  /\ UNCHANGED <<disk, mode, package, accepted, starts, first>>
\* _compose raised: the store is closed as if it had been used.
Abandon(p, why) == /\ outcome' = [outcome EXCEPT ![p] = why]
                   /\ Go(p, "close")
                   /\ UNCHANGED <<disk, lock, mode, package, accepted, starts, cut, first>>
---------------------------------------------------------------------------
\* open_or_create looks for the locator before it has the lock.
Start(p, k) ==
    /\ pc[p] = "idle" /\ starts < MaxStarts
    /\ starts' = starts + 1
    /\ package' = [package EXCEPT ![p] = k]
    /\ mode' = [mode EXCEPT ![p] = IF disk.locator # None THEN "open" ELSE "create"]
    /\ outcome' = [outcome EXCEPT ![p] = None]
    /\ Go(p, "acquire")
    /\ UNCHANGED <<disk, lock, accepted, cut, first>>

Acquire(p) ==
    /\ pc[p] = "acquire"
    /\ IF lock # None
       THEN Refuse(p, "locked") /\ UNCHANGED cut
       ELSE /\ lock' = p
            /\ Go(p, IF mode[p] = "open" THEN "read" ELSE "occupants")
            /\ UNCHANGED <<disk, mode, package, accepted, starts, outcome, cut, first>>

\* A creation that goes by open_or_create's look for the locator alone.
CheckOccupantsBefore(p) == pc[p] = "occupants" /\ Write(p, "staging", disk)
\* create: nothing but the lock file may be there.
CheckOccupants(p) ==
    /\ pc[p] = "occupants"
    /\ IF Occupied THEN Refuse(p, "exists") /\ UNCHANGED cut
                   ELSE Write(p, "staging", disk)
MakeStaging(p) == pc[p] = "staging" /\ Write(p, "locator", [disk EXCEPT !.staging = TRUE])
WriteLocator(p) ==
    /\ pc[p] = "locator"
    /\ Write(p, "connect", [disk EXCEPT !.locator = <<starts, package[p]>>])
InsertMetadata(p) ==
    /\ pc[p] = "insert"
    /\ Write(p, "content", [disk EXCEPT !.metadata = disk.locator, !.clean = FALSE])

\* open: the locator is there, for it never goes away; the database may not be.
ReadLocator(p) ==
    /\ pc[p] = "read"
    /\ IF disk.file THEN Write(p, "connect", disk) ELSE Refuse(p, "format") /\ UNCHANGED cut
\* open: one metadata row, and the locator's identity in it; the row is then
\* marked as in use.
Verify(p) ==
    /\ pc[p] = "verify"
    /\ IF disk.metadata = None \/ disk.metadata # disk.locator
       THEN Refuse(p, "integrity") /\ UNCHANGED cut
       ELSE Write(p, "content", [disk EXCEPT !.clean = FALSE])

\* ProjectDatabase.connect creates the file and applies the missing
\* migrations, a transaction each; then the system tables, in one more.
Connect(p) == pc[p] = "connect" /\ Write(p, "migrate", [disk EXCEPT !.file = TRUE])
Migrate(p) ==
    /\ pc[p] = "migrate"
    /\ IF disk.version < Migrations
       THEN Write(p, "migrate", [disk EXCEPT !.version = @ + 1])
       ELSE Write(p, "tables", disk)
ApplySchema(p) ==
    /\ pc[p] = "tables"
    /\ Write(p, IF mode[p] = "open" THEN "verify" ELSE "insert", [disk EXCEPT !.system = TRUE])
---------------------------------------------------------------------------
\* migrate_current_model_content rewrites the old rows and records the lineage
\* in one transaction.  Fingerprints recorded as predecessors of the present
\* content are accepted as a draft's base, by this start or a later one.
Predecessors(migrated) == IF migrated \/ disk.events THEN {"legacy"} ELSE {}
MigrateContent(p) ==
    LET migrated == disk.content = "legacy"
    IN /\ pc[p] = "content"
       /\ disk' = [disk EXCEPT !.content = "current", !.events = @ \/ migrated]
       /\ accepted' = [accepted EXCEPT ![p] = {"current"} \cup Predecessors(migrated)]
       /\ Go(p, "seed")
       /\ UNCHANGED <<lock, mode, package, starts, outcome, cut, first>>

\* A seed is written with its marker, or its marker is compared.
Seeded(marker, k) == IF marker = None THEN k ELSE marker
SeedProfile(p) ==
    /\ pc[p] = "seed"
    /\ IF Seeded(disk.seed, package[p]) # package[p]
       THEN Abandon(p, "seed")
       ELSE Write(p, "current", [disk EXCEPT !.seed = package[p]])
SeedCurrent(p) ==
    /\ pc[p] = "current"
    /\ IF Seeded(disk.current, package[p]) # package[p]
       THEN Abandon(p, "seed")
       ELSE Write(p, "draft", [disk EXCEPT !.current = package[p]])

\* ModelEditSessionManager: a draft whose base is accepted has its rows
\* migrated; any other is set aside and a new one begins.
OpenDraft(p) ==
    /\ pc[p] = "draft"
    /\ IF disk.base \in accepted[p]
       THEN Write(p, "rebase", [disk EXCEPT !.live = "current"])
       ELSE Write(p, "ready", [disk EXCEPT !.base = IF @ = None THEN "current" ELSE "aside",
                                           !.live = "current"])
RebaseDraft(p) == pc[p] = "rebase" /\ Write(p, "ready", [disk EXCEPT !.base = "current"])

\* The application is composed, and the process serves.
Serve(p) ==
    /\ pc[p] = "ready"
    /\ outcome' = [outcome EXCEPT ![p] = "served"]
    /\ first' = IF first = None THEN disk.locator ELSE first
    /\ Go(p, "serving")
    /\ UNCHANGED <<disk, lock, mode, package, accepted, starts, cut>>
---------------------------------------------------------------------------
CloseApplication(p) == pc[p] = "serving" /\ Write(p, "close", disk)
MarkClean(p) == pc[p] = "close" /\ Write(p, "release", [disk EXCEPT !.clean = TRUE])
Release(p) ==
    /\ pc[p] = "release"
    /\ lock' = None
    /\ Go(p, "idle")
    /\ UNCHANGED <<disk, mode, package, accepted, starts, outcome, cut, first>>

\* A creation ends half way if it ends between these steps.
HalfMade(p) == /\ mode[p] = "create"
               /\ pc[p] \in {"locator", "connect", "migrate", "tables", "insert"}
Composing == {"content", "seed", "current", "draft", "rebase"}

\* A step meets an error: create and open only give the lock back, a failed
\* composition closes the store, and a failed close gives the lock back too.
Fail(p) ==
    \/ /\ pc[p] \in {"occupants", "staging", "locator", "connect", "migrate", "tables", "insert",
                     "read", "verify", "close"}
       /\ Refuse(p, IF pc[p] = "close" THEN outcome[p] ELSE "error")
       /\ cut' = (cut \/ HalfMade(p))
    \/ pc[p] \in Composing /\ Abandon(p, "error")

\* The process dies, and the operating system frees its lock.
Crash(p) ==
    /\ pc[p] # "idle"
    /\ Refuse(p, "crashed")
    /\ cut' = (cut \/ HalfMade(p))

StoreNext == \E p \in Processes :
    \/ \E k \in Packages : Start(p, k)
    \/ Acquire(p) \/ CheckOccupants(p) \/ MakeStaging(p) \/ WriteLocator(p) \/ Connect(p)
    \/ Migrate(p) \/ ApplySchema(p) \/ InsertMetadata(p) \/ ReadLocator(p) \/ Verify(p)
    \/ MigrateContent(p) \/ SeedProfile(p) \/ SeedCurrent(p) \/ OpenDraft(p) \/ RebaseDraft(p)
    \/ Serve(p) \/ CloseApplication(p) \/ MarkClean(p) \/ Release(p) \/ Fail(p) \/ Crash(p)
StoreSpec == StoreInit /\ [][StoreNext]_storeVars
---------------------------------------------------------------------------
\* A store that served once is never made or renamed again, whoever starts.
OneIdentity == first # None => disk.locator = first /\ disk.metadata = first

\* A refusal has one of these causes: the lock was taken; somebody else made
\* the store between the look for the locator and the lock; a creation was cut
\* before the store ever served; the package is not the one that was seeded.
RefusedForCause ==
    \A p \in Processes :
        /\ outcome[p] \in {"format", "integrity"} => cut /\ first = None
        /\ outcome[p] = "exists" => cut \/ disk.metadata # None
        /\ outcome[p] = "seed" => package[p] \notin {disk.seed, disk.current}

\* The process that serves has the store alone, complete, seeded from its own
\* package, with the draft of the last session in it.
ServesWhole ==
    \A p \in Processes : pc[p] = "serving" =>
        /\ lock = p
        /\ disk.metadata = disk.locator /\ disk.version = Migrations /\ disk.system
        /\ {disk.seed, disk.current} = {package[p]}
        /\ disk.content = "current" /\ disk.base = "current" /\ disk.live = "current"

\* Whatever starts, crashes and errors came before, the store that served once
\* can be served again, with its identity, its starter and its draft: only a
\* first creation that was cut (system.py:257) leaves a root that no start
\* accepts.
StartsAgain == OneIdentity /\ RefusedForCause /\ ServesWhole
===========================================================================
