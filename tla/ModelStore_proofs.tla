-------------------------- MODULE ModelStore_proofs --------------------------
(* The store of models: that it can be opened (StoreOpening), and the history *)
(* of what is in it (ModelHistory).                                           *)
EXTENDS ModelHistory, StoreOpening, TLAPS, WellFoundedInduction
-----------------------------------------------------------------------------
(* StartsAgain for any processes, starter packages, migrations and starts,    *)
(* wherever processes crash or meet errors.                                   *)
(*                                                                            *)
(* The writer lock leaves one process at work, so the argument is about what  *)
(* that process may rely on at each of its positions (Position), what any     *)
(* process may leave on the disk (DiskSound), and why a refusal stays         *)
(* justified while others go on (Cause).                                      *)

Identity == Nat \X Packages

\* The positions of a start, in the order in which it comes to them.
Preparing == {"occupants", "staging", "locator", "read"}
Opened    == {"connect", "migrate", "tables", "verify", "insert"}
Served    == {"ready", "serving"}
Ending    == {"close", "release"}
Positions == {"idle", "acquire"} \cup Preparing \cup Opened \cup Composing \cup Served \cup Ending

Disks ==
  [staging : BOOLEAN, locator : Identity \cup {None}, file : BOOLEAN, version : 0 .. Migrations,
   system : BOOLEAN, metadata : Identity \cup {None}, clean : BOOLEAN,
   seed : Packages \cup {None}, current : Packages \cup {None},
   content : {"legacy", "current"}, events : BOOLEAN,
   base : {None, "legacy", "current"}, live : {None, "legacy", "current"}]

StoreTyped ==
  /\ disk \in Disks
  /\ pc \in [Processes -> Positions]
  /\ mode \in [Processes -> {"open", "create"}]
  /\ accepted \in [Processes -> SUBSET {"legacy", "current"}]
  /\ DOMAIN package = Processes /\ DOMAIN outcome = Processes
  /\ starts \in Nat /\ cut \in BOOLEAN
  /\ \A p \in Processes : pc[p] # "idle" => package[p] \in Packages

\* Whoever is past the lock holds it.
Owning(p) == pc[p] \notin {"idle", "acquire"}
OneOwner == \A p \in Processes : Owning(p) <=> lock = p

\* What the disk holds, wherever a process stopped: a metadata row is that of the locator and
\* of the store that served first, the two seeds are of one package, an old draft can still be
\* recognised, and a root without a metadata row is one that a creation left or is making.
DiskSound ==
  /\ disk.metadata # None => disk.metadata = disk.locator /\ disk.file
  /\ first # None => disk.metadata = first
  /\ disk.current # None => disk.current = disk.seed
  /\ disk.base = "legacy" => disk.content = "legacy" \/ disk.events
  /\ Occupied /\ disk.metadata = None => cut \/ \E p \in Processes : HalfMade(p)

\* What a process relies on at each position.
Position(p) ==
  /\ pc[p] \in {"occupants", "staging", "locator", "insert"} => mode[p] = "create"
  /\ pc[p] \in {"read", "verify"} => mode[p] = "open"
  /\ pc[p] # "idle" /\ mode[p] = "open" => disk.locator # None
  /\ pc[p] = "staging" => ~Occupied
  /\ HalfMade(p) => disk.metadata = None
  /\ pc[p] \in Opened => disk.locator # None
  /\ pc[p] \in {"migrate", "tables", "verify", "insert"} => disk.file
  /\ pc[p] \in {"tables", "verify", "insert"} \cup Composing \cup Served => disk.version = Migrations
  /\ pc[p] \in {"verify", "insert"} \cup Composing \cup Served => disk.system
  /\ pc[p] \in Composing \cup Served => disk.metadata # None
  /\ pc[p] \in Served \cup (Composing \ {"content"}) => disk.content = "current"
  /\ pc[p] \in {"seed", "current", "draft"} =>
       "current" \in accepted[p] /\ (disk.events => "legacy" \in accepted[p])
  /\ pc[p] \in Served \cup {"current", "draft", "rebase"} => disk.seed = package[p]
  /\ pc[p] \in Served \cup {"draft", "rebase"} => disk.current = package[p]
  /\ pc[p] \in Served \cup {"rebase"} => disk.live = "current"
  /\ pc[p] \in Served => disk.base = "current"

\* Why a start was refused: a root whose creation was cut stays unusable, and a seed is final.
Cause(p) ==
  /\ outcome[p] \in {"format", "integrity"} =>
       /\ cut /\ disk.locator # None /\ disk.metadata = None
       /\ \A q \in Processes : ~HalfMade(q)
  /\ outcome[p] = "exists" => cut \/ disk.metadata # None
  /\ outcome[p] = "seed" => /\ package[p] \in Packages
                            /\ disk.seed # None /\ disk.seed # package[p]

\* The inductive invariant.
StoreInvariant ==
  /\ StoreTyped /\ OneOwner /\ DiskSound
  /\ \A p \in Processes : Position(p) /\ Cause(p)
-----------------------------------------------------------------------------
\* The store is empty or an earlier version left it, and nobody is at work.
LEMMA InitialSound == StoreInit => StoreInvariant
<1> SUFFICES ASSUME StoreInit PROVE StoreInvariant
  OBVIOUS
<1> USE StoreAssumption DEF StoreAssumption
<1>1. disk \in {Empty} \cup {Old(k, clean, draft) : k \in Packages, clean \in BOOLEAN,
                                                   draft \in {None, "legacy"}}
  BY DEF StoreInit
<1>2. lock = None /\ outcome = [p \in Processes |-> None] /\ pc = [p \in Processes |-> "idle"]
  BY DEF StoreInit
<1>3. cut = FALSE /\ starts = 0 /\ first = disk.locator /\ DOMAIN package = Processes
  BY DEF StoreInit
<1>4. mode = [p \in Processes |-> "open"] /\ accepted = [p \in Processes |-> {}]
  BY DEF StoreInit
<1>5. CASE disk = Empty
  <2>1. StoreTyped
    <3>1. disk \in Disks
      BY <1>5 DEF Disks, Empty
    <3>2. QED
      BY <1>2, <1>3, <1>4, <3>1 DEF StoreTyped, Positions
  <2>2. OneOwner
    BY <1>2 DEF OneOwner, Owning
  <2>3. DiskSound
    BY <1>2, <1>3, <1>4, <1>5 DEF DiskSound, Empty, Occupied
  <2>4. \A p \in Processes : Position(p) /\ Cause(p)
    BY <1>2, <1>3, <1>4, <1>5 DEF Position, Cause, Empty, Opened, Served, Composing, HalfMade
  <2>5. QED
    BY <2>1, <2>2, <2>3, <2>4 DEF StoreInvariant
<1>6. ASSUME NEW k \in Packages, NEW clean \in BOOLEAN, NEW draft \in {None, "legacy"},
             disk = Old(k, clean, draft)
      PROVE  StoreInvariant
  <2>1. <<0, k>> \in Identity /\ <<0, k>> # None
    BY DEF Identity
  <2>2. StoreTyped
    <3>1. disk \in Disks
      BY <1>6, <2>1 DEF Disks, Old
    <3>2. QED
      BY <1>2, <1>3, <1>4, <3>1 DEF StoreTyped, Positions
  <2>3. OneOwner
    BY <1>2 DEF OneOwner, Owning
  <2>4. DiskSound
    BY <1>2, <1>3, <1>4, <1>6, <2>1 DEF DiskSound, Old, Occupied
  <2>5. \A p \in Processes : Position(p) /\ Cause(p)
    BY <1>2, <1>3, <1>4, <1>6 DEF Position, Cause, Old, Opened, Served, Composing, HalfMade
  <2>6. QED
    BY <2>2, <2>3, <2>4, <2>5 DEF StoreInvariant
<1>7. QED
  BY <1>1, <1>5, <1>6
-----------------------------------------------------------------------------
\* Nobody but p moves, and what is on the disk stays: a locator, a metadata row, a seed, and
\* the root of a creation that was cut.
KeptBeside(p) ==
  /\ \A q \in Processes \ {p} : /\ pc'[q] = pc[q] /\ mode'[q] = mode[q]
                                /\ package'[q] = package[q] /\ outcome'[q] = outcome[q]
  /\ cut => cut'
  /\ disk.locator # None => disk'.locator # None
  /\ disk.metadata # None => disk'.metadata # None
  /\ disk.seed # None => disk'.seed = disk.seed
  /\ disk.locator # None /\ disk.metadata = None /\ ~HalfMade(p) =>
       disk'.metadata = None /\ ~HalfMade(p)'

\* What the others rely on, and why they were refused, is not the owner's to change.
LEMMA OthersKeep ==
  ASSUME StoreInvariant, NEW p \in Processes, lock = p, KeptBeside(p)
  PROVE  \A q \in Processes \ {p} : Position(q)' /\ Cause(q)'
<1> SUFFICES ASSUME NEW q \in Processes \ {p} PROVE Position(q)' /\ Cause(q)'
  OBVIOUS
<1>1. \A r \in Processes \ {p} : pc[r] \in {"idle", "acquire"} /\ pc'[r] = pc[r]
  BY DEF StoreInvariant, OneOwner, Owning, KeptBeside
<1>2. \A r \in Processes \ {p} : ~HalfMade(r) /\ ~HalfMade(r)'
  BY <1>1 DEF HalfMade
<1>3. Position(q)'
  BY <1>1, <1>2 DEF StoreInvariant, Position, KeptBeside, Opened, Served, Composing
<1>4. Cause(q)'
  <2>1. outcome[q] \in {"format", "integrity"} =>
          cut' /\ disk'.locator # None /\ disk'.metadata = None /\ ~HalfMade(p)'
    BY DEF StoreInvariant, Cause, KeptBeside
  <2>2. QED
    BY <1>2, <2>1 DEF StoreInvariant, Cause, KeptBeside
<1>5. QED
  BY <1>3, <1>4

\* The same for the owner's own last outcome, when the step leaves it.
LEMMA OwnCauseKeeps ==
  ASSUME StoreInvariant, NEW p \in Processes, lock = p, KeptBeside(p),
         outcome'[p] = outcome[p], package'[p] = package[p]
  PROVE  Cause(p)'
<1>1. \A r \in Processes \ {p} : ~HalfMade(r)'
  BY DEF StoreInvariant, OneOwner, Owning, KeptBeside, HalfMade
<1>2. outcome[p] \in {"format", "integrity"} =>
        cut' /\ disk'.locator # None /\ disk'.metadata = None /\ ~HalfMade(p)'
  BY DEF StoreInvariant, Cause, KeptBeside
<1>3. QED
  BY <1>1, <1>2 DEF StoreInvariant, Cause, KeptBeside

\* A step of the owner keeps the invariant if it keeps what is its own to keep.
LEMMA OwnerMoves ==
  ASSUME StoreInvariant, NEW p \in Processes, lock = p, NEW step \in Positions \ {"acquire"},
         pc' = [pc EXCEPT ![p] = step], lock' = (IF step = "idle" THEN None ELSE lock),
         disk' \in Disks, UNCHANGED <<mode, package, starts>>,
         accepted' \in [Processes -> SUBSET {"legacy", "current"}],
         DOMAIN outcome' = Processes, cut' \in BOOLEAN,
         KeptBeside(p), DiskSound', Position(p)', Cause(p)'
  PROVE  StoreInvariant'
<1>1. StoreTyped'
  <2>1. \A q \in Processes : pc'[q] # "idle" => pc[q] # "idle"
    BY DEF StoreInvariant, OneOwner, Owning, StoreTyped
  <2>2. pc' \in [Processes -> Positions]
    BY DEF StoreInvariant, StoreTyped
  <2>3. QED
    BY <2>1, <2>2 DEF StoreInvariant, StoreTyped
<1>2. OneOwner'
  BY StoreAssumption DEF StoreInvariant, OneOwner, Owning, StoreTyped, StoreAssumption
<1>3. \A q \in Processes : Position(q)' /\ Cause(q)'
  BY OthersKeep
<1>4. QED
  BY <1>1, <1>2, <1>3 DEF StoreInvariant

\* A step that writes to the disk and goes on.
LEMMA OwnerWrites ==
  ASSUME StoreInvariant, NEW p \in Processes, lock = p,
         NEW step \in Positions \ {"idle", "acquire"}, pc' = [pc EXCEPT ![p] = step],
         disk' \in Disks, UNCHANGED <<lock, mode, package, accepted, starts, outcome, cut, first>>,
         KeptBeside(p), DiskSound', Position(p)'
  PROVE  StoreInvariant'
<1>1. Cause(p)'
  BY OwnCauseKeeps
<1>2. /\ accepted' \in [Processes -> SUBSET {"legacy", "current"}] /\ DOMAIN outcome' = Processes
      /\ cut' \in BOOLEAN
  BY DEF StoreInvariant, StoreTyped
<1>3. QED
  BY <1>1, <1>2, OwnerMoves

\* What a process at work knows beside its position.
LEMMA AtWork ==
  ASSUME StoreInvariant, NEW p \in Processes, Owning(p)
  PROVE  /\ lock = p /\ pc[p] \in Positions /\ mode[p] \in {"open", "create"}
         /\ package[p] \in Packages /\ disk \in Disks /\ starts \in Nat /\ Position(p)
         /\ pc \in [Processes -> Positions] /\ None \notin Identity \cup Packages
         /\ Occupied /\ disk.metadata = None => cut \/ HalfMade(p)
<1>1. lock = p /\ \A q \in Processes \ {p} : ~Owning(q)
  BY DEF StoreInvariant, OneOwner
<1>2. \A q \in Processes \ {p} : ~HalfMade(q)
  BY <1>1 DEF Owning, HalfMade
<1>3. Occupied /\ disk.metadata = None => cut \/ HalfMade(p)
  BY <1>2 DEF StoreInvariant, DiskSound
<1>4. QED
  BY <1>1, <1>3, StoreAssumption DEF StoreInvariant, StoreTyped, Owning, StoreAssumption, Identity
-----------------------------------------------------------------------------
\* The staging directory is made in an empty root, by a process that creates.
LEMMA MakeStagingKeeps ==
  ASSUME StoreInvariant, NEW p \in Processes, MakeStaging(p)
  PROVE  StoreInvariant'
<1> USE DEF MakeStaging, Write, Go
<1>1. Owning(p)
  BY DEF Owning
<1> USE <1>1, AtWork
<1>2. disk' \in Disks
  BY DEF Disks, Identity, Position, Opened
<1>3. KeptBeside(p)
  BY DEF KeptBeside, HalfMade, Position, Occupied
<1>4. DiskSound'
  BY DEF StoreInvariant, DiskSound, Position, HalfMade, Occupied, Opened
<1>5. Position(p)'
  BY DEF StoreInvariant, Position, DiskSound, HalfMade, Occupied, Opened, Served, Composing
<1>6. QED
  BY <1>2, <1>3, <1>4, <1>5, OwnerWrites DEF Positions, Opened, Preparing, Composing

\* The locator names a store of this start.
LEMMA WriteLocatorKeeps ==
  ASSUME StoreInvariant, NEW p \in Processes, WriteLocator(p)
  PROVE  StoreInvariant'
<1> USE DEF WriteLocator, Write, Go
<1>1. Owning(p)
  BY DEF Owning
<1> USE <1>1, AtWork
<1>2. disk' \in Disks
  BY DEF Disks, Identity, Position, Opened
<1>3. disk'.locator # None
  <2>1. <<starts, package[p]>> \in Identity
    BY DEF Identity
  <2>2. disk'.locator = <<starts, package[p]>>
    BY DEF Disks
  <2>3. QED
    BY <2>1, <2>2
<1>4. KeptBeside(p)
  BY <1>3 DEF KeptBeside, HalfMade, Position, Occupied
<1>5. DiskSound'
  BY DEF StoreInvariant, DiskSound, Position, HalfMade, Occupied, Opened
<1>6. Position(p)'
  BY <1>3 DEF StoreInvariant, Position, DiskSound, HalfMade, Occupied, Opened, Served, Composing
<1>7. QED
  BY <1>2, <1>4, <1>5, <1>6, OwnerWrites DEF Positions, Opened, Preparing, Composing

\* The row of a new store carries the locator's identity, and completes it.
LEMMA InsertMetadataKeeps ==
  ASSUME StoreInvariant, NEW p \in Processes, InsertMetadata(p)
  PROVE  StoreInvariant'
<1> USE DEF InsertMetadata, Write, Go
<1>1. Owning(p)
  BY DEF Owning
<1> USE <1>1, AtWork
<1>2. disk' \in Disks
  BY DEF Disks, Identity, Position, Opened
<1>3. KeptBeside(p)
  BY DEF KeptBeside, HalfMade, Position, Occupied
<1>4. DiskSound'
  BY DEF StoreInvariant, DiskSound, Position, HalfMade, Occupied, Opened
<1>5. Position(p)'
  BY DEF StoreInvariant, Position, DiskSound, HalfMade, Occupied, Opened, Served, Composing
<1>6. QED
  BY <1>2, <1>3, <1>4, <1>5, OwnerWrites DEF Positions, Opened, Preparing, Composing

\* The database file appears beside a locator.
LEMMA ConnectKeeps ==
  ASSUME StoreInvariant, NEW p \in Processes, Connect(p)
  PROVE  StoreInvariant'
<1> USE DEF Connect, Write, Go
<1>1. Owning(p)
  BY DEF Owning
<1> USE <1>1, AtWork
<1>2. disk' \in Disks
  BY DEF Disks, Identity, Position, Opened
<1>3. KeptBeside(p)
  BY DEF KeptBeside, HalfMade, Position, Occupied
<1>4. DiskSound'
  BY DEF StoreInvariant, DiskSound, Position, HalfMade, Occupied, Opened
<1>5. Position(p)'
  BY DEF StoreInvariant, Position, DiskSound, HalfMade, Occupied, Opened, Served, Composing
<1>6. QED
  BY <1>2, <1>3, <1>4, <1>5, OwnerWrites DEF Positions, Opened, Preparing, Composing

\* A migration takes the file one version further, to the last the code knows.
LEMMA MigrateKeeps ==
  ASSUME StoreInvariant, NEW p \in Processes, Migrate(p)
  PROVE  StoreInvariant'
<1> USE DEF Migrate, Write, Go
<1>1. Owning(p)
  BY DEF Owning
<1> USE <1>1, AtWork
<1>2. /\ disk' \in Disks /\ disk'.version \in 0 .. Migrations
      /\ disk' = [disk EXCEPT !.version = disk'.version]
  BY StoreAssumption DEF StoreAssumption, Disks
<1>3. KeptBeside(p)
  BY <1>2 DEF Disks, KeptBeside, HalfMade, Position
<1>4. DiskSound'
  BY <1>2 DEF Disks, StoreInvariant, DiskSound, Position, HalfMade, Occupied, Opened, Composing
<1>5. Position(p)'
  <2>1. CASE disk.version < Migrations
    BY <1>2, <2>1 DEF Disks, StoreInvariant, Position, HalfMade, Opened, Served, Composing
  <2>2. CASE ~(disk.version < Migrations)
    <3>1. disk.version = Migrations
      BY <2>2, StoreAssumption DEF StoreAssumption, Disks
    <3>2. QED
      BY <2>2, <3>1 DEF Position, HalfMade, Opened, Served, Composing
  <2>3. QED
    BY <2>1, <2>2
<1>6. QED
  BY <1>2, <1>3, <1>4, <1>5, OwnerWrites DEF Positions, Opened, Preparing, Composing, Served, Ending

\* The system tables, and the way that opens parts from the way that creates.
LEMMA ApplySchemaKeeps ==
  ASSUME StoreInvariant, NEW p \in Processes, ApplySchema(p)
  PROVE  StoreInvariant'
<1> USE DEF ApplySchema, Write, Go
<1>1. Owning(p)
  BY DEF Owning
<1> USE <1>1, AtWork
<1>2. disk' \in Disks
  BY DEF Disks
<1>3. KeptBeside(p)
  BY DEF KeptBeside, HalfMade, Position
<1>4. DiskSound'
  BY DEF StoreInvariant, DiskSound, Position, HalfMade, Occupied, Opened, Composing
<1>5. Position(p)'
  BY DEF StoreInvariant, Position, DiskSound, HalfMade, Occupied, Opened, Served, Composing
<1>6. QED
  BY <1>2, <1>3, <1>4, <1>5, OwnerWrites DEF Positions, Opened, Preparing, Composing, Served, Ending

\* A draft in the old format rests on a base the session accepts; what else it finds is new.
LEMMA OpenDraftKeeps ==
  ASSUME StoreInvariant, NEW p \in Processes, OpenDraft(p)
  PROVE  StoreInvariant'
<1> USE DEF OpenDraft, Write, Go
<1>1. Owning(p)
  BY DEF Owning
<1> USE <1>1, AtWork
<1>2. disk.base # None => disk.base \in accepted[p]
  BY DEF StoreInvariant, DiskSound, Position, Composing, Disks
<1>3. PICK base \in {None, "legacy", "current"}, step \in {"rebase", "ready"} :
        /\ disk' = [disk EXCEPT !.base = base, !.live = "current"]
        /\ pc' = [pc EXCEPT ![p] = step]
        /\ step = "ready" => base = "current"
        /\ base = "legacy" => disk.base = "legacy"
  <2>1. CASE disk.base \in accepted[p]
    <3>1. disk' = [disk EXCEPT !.base = disk.base, !.live = "current"]
      <4>1. disk = [disk EXCEPT !.base = disk.base]
        BY DEF Disks
      <4>2. QED
        BY <2>1, <4>1
    <3>2. QED
      BY <2>1, <3>1 DEF Disks
  <2>2. CASE disk.base \notin accepted[p]
    <3>1. disk' = [disk EXCEPT !.base = "current", !.live = "current"]
      BY <1>2, <2>2
    <3>2. QED
      BY <2>2, <3>1
  <2>3. QED
    BY <2>1, <2>2
<1>4. UNCHANGED <<lock, mode, package, accepted, starts, outcome, cut, first>>
  OBVIOUS
<1>5. pc[p] = "draft"
  OBVIOUS
<1> HIDE DEF OpenDraft
<1>6. disk' \in Disks
  BY <1>3 DEF Disks
<1>7. KeptBeside(p)
  BY <1>5, <1>3, <1>4 DEF Disks, KeptBeside, HalfMade, Position
<1>8. DiskSound'
  BY <1>5, <1>3, <1>4 DEF Disks, StoreInvariant, DiskSound, Position, HalfMade, Occupied, Opened, Composing
<1>9. Position(p)'
  BY <1>5, <1>3, <1>4 DEF Disks, StoreInvariant, Position, DiskSound, HalfMade, Occupied, Opened, Served, Composing
<1>10. QED
  BY <1>5, <1>3, <1>4, <1>6, <1>7, <1>8, <1>9, OwnerWrites DEF Positions, Opened, Preparing, Composing, Served, Ending

\* A draft that was migrated gets the present content as its base.
LEMMA RebaseDraftKeeps ==
  ASSUME StoreInvariant, NEW p \in Processes, RebaseDraft(p)
  PROVE  StoreInvariant'
<1> USE DEF RebaseDraft, Write, Go
<1>1. Owning(p)
  BY DEF Owning
<1> USE <1>1, AtWork
<1>2. disk' \in Disks
  BY DEF Disks
<1>3. KeptBeside(p)
  BY DEF KeptBeside, HalfMade, Position
<1>4. DiskSound'
  BY DEF StoreInvariant, DiskSound, Position, HalfMade, Occupied, Opened, Composing
<1>5. Position(p)'
  BY DEF StoreInvariant, Position, DiskSound, HalfMade, Occupied, Opened, Served, Composing
<1>6. QED
  BY <1>2, <1>3, <1>4, <1>5, OwnerWrites DEF Positions, Opened, Preparing, Composing, Served, Ending

\* The application stops serving.
LEMMA CloseApplicationKeeps ==
  ASSUME StoreInvariant, NEW p \in Processes, CloseApplication(p)
  PROVE  StoreInvariant'
<1> USE DEF CloseApplication, Write, Go
<1>1. Owning(p)
  BY DEF Owning
<1> USE <1>1, AtWork
<1>2. disk' \in Disks
  BY DEF Disks
<1>3. KeptBeside(p)
  BY DEF KeptBeside, HalfMade, Position
<1>4. DiskSound'
  BY DEF StoreInvariant, DiskSound, Position, HalfMade, Occupied, Opened, Composing
<1>5. Position(p)'
  BY DEF StoreInvariant, Position, DiskSound, HalfMade, Occupied, Opened, Served, Composing
<1>6. QED
  BY <1>2, <1>3, <1>4, <1>5, OwnerWrites DEF Positions, Opened, Preparing, Composing, Served, Ending

\* The metadata row is marked as clean.
LEMMA MarkCleanKeeps ==
  ASSUME StoreInvariant, NEW p \in Processes, MarkClean(p)
  PROVE  StoreInvariant'
<1> USE DEF MarkClean, Write, Go
<1>1. Owning(p)
  BY DEF Owning
<1> USE <1>1, AtWork
<1>2. disk' \in Disks
  BY DEF Disks
<1>3. KeptBeside(p)
  BY DEF KeptBeside, HalfMade, Position
<1>4. DiskSound'
  BY DEF StoreInvariant, DiskSound, Position, HalfMade, Occupied, Opened, Composing
<1>5. Position(p)'
  BY DEF StoreInvariant, Position, DiskSound, HalfMade, Occupied, Opened, Served, Composing
<1>6. QED
  BY <1>2, <1>3, <1>4, <1>5, OwnerWrites DEF Positions, Opened, Preparing, Composing, Served, Ending
-----------------------------------------------------------------------------
\* The owner gives the lock back.  A creation it breaks off is recorded as cut, so that a root
\* without a metadata row stays accounted for.
LEMMA OwnerRefuses ==
  ASSUME StoreInvariant, NEW p \in Processes, Owning(p), NEW why, Refuse(p, why),
         cut' = (cut \/ HalfMade(p)),
         why \in {"format", "integrity"} => cut' /\ disk.locator # None /\ disk.metadata = None,
         why = "exists" => cut' \/ disk.metadata # None,
         why = "seed" => disk.seed # None /\ disk.seed # package[p]
  PROVE  StoreInvariant'
<1> USE DEF Refuse, Go
<1> USE AtWork
<1> cut => cut'
  OBVIOUS
<1>1. KeptBeside(p)
  BY DEF KeptBeside, HalfMade
<1>2. /\ \A q \in Processes : ~HalfMade(q)'
      /\ outcome'[p] = why /\ DOMAIN outcome' = Processes /\ cut' \in BOOLEAN
  BY DEF StoreInvariant, StoreTyped, OneOwner, Owning, HalfMade
<1>3. DiskSound'
  BY <1>2 DEF StoreInvariant, DiskSound, Occupied
<1>4. Position(p)' /\ Cause(p)'
  BY <1>2 DEF Position, Cause, Opened, Served, Composing, HalfMade
<1>5. lock' = (IF "idle" = "idle" THEN None ELSE lock) /\ "idle" \in Positions \ {"acquire"}
  BY DEF Positions
<1>6. accepted' \in [Processes -> SUBSET {"legacy", "current"}]
  BY DEF StoreInvariant, StoreTyped
<1>7. QED
  BY <1>1, <1>2, <1>3, <1>4, <1>5, <1>6, OwnerMoves

\* A composition that raised goes on to close the store.
LEMMA OwnerAbandons ==
  ASSUME StoreInvariant, NEW p \in Processes, pc[p] \in Composing, NEW why, Abandon(p, why),
         why \notin {"format", "integrity", "exists"},
         why = "seed" => disk.seed # None /\ disk.seed # package[p]
  PROVE  StoreInvariant'
<1> USE DEF Abandon, Go
<1>1. Owning(p)
  BY DEF Owning, Composing
<1> USE <1>1, AtWork
<1>2. KeptBeside(p)
  BY DEF KeptBeside, HalfMade
<1>3. DiskSound'
  BY DEF StoreInvariant, DiskSound, Position, HalfMade, Occupied, Composing
<1>4. outcome'[p] = why /\ DOMAIN outcome' = Processes /\ cut' \in BOOLEAN
  BY DEF StoreInvariant, StoreTyped
<1>5. Position(p)' /\ Cause(p)'
  BY <1>4 DEF Position, Cause, Opened, Served, Composing, HalfMade
<1>6. accepted' \in [Processes -> SUBSET {"legacy", "current"}] /\ "close" \in Positions \ {"acquire"}
  BY DEF StoreInvariant, StoreTyped, Positions, Ending
<1>7. QED
  BY <1>2, <1>3, <1>4, <1>5, <1>6, OwnerMoves

\* A process that another's step says nothing of may rely on what it relied on.
LEMMA PositionStays ==
  ASSUME NEW q \in Processes, Position(q), disk' = disk, pc'[q] = pc[q], mode'[q] = mode[q],
         package'[q] = package[q], accepted'[q] = accepted[q]
  PROVE  Position(q)'
<1>1. HalfMade(q)' <=> HalfMade(q)
  BY DEF HalfMade
<1>2. QED
  BY <1>1 DEF Position, Occupied

\* A process that waits for the lock leaves without having touched anything.
LEMMA OutsiderRefuses ==
  ASSUME StoreInvariant, NEW p \in Processes, pc[p] = "acquire", NEW why, Refuse(p, why),
         why \notin {"format", "integrity", "exists", "seed"}, UNCHANGED cut
  PROVE  StoreInvariant'
<1> USE DEF Refuse, Go
<1>1. lock # p /\ UNCHANGED lock
  BY DEF StoreInvariant, OneOwner, Owning
<1>2. StoreTyped'
  BY <1>1 DEF StoreInvariant, StoreTyped, Positions
<1>3. OneOwner'
  BY <1>1 DEF StoreInvariant, StoreTyped, OneOwner, Owning
<1>4. \A q \in Processes : HalfMade(q)' <=> HalfMade(q)
  BY DEF StoreInvariant, StoreTyped, HalfMade
<1>5. DiskSound'
  BY <1>4 DEF StoreInvariant, DiskSound, Occupied
<1>6. ASSUME NEW q \in Processes PROVE Position(q)' /\ Cause(q)'
  <2>1. CASE q = p
    BY <2>1 DEF StoreInvariant, StoreTyped, Position, Cause, Opened, Served, Composing, HalfMade
  <2>2. CASE q # p
    <3>1. Position(q)'
      BY <2>2, PositionStays DEF StoreInvariant, StoreTyped
    <3>2. Cause(q)'
      BY <1>4, <2>2 DEF StoreInvariant, StoreTyped, Cause
    <3>3. QED
      BY <3>1, <3>2
  <2>3. QED
    BY <2>1, <2>2
<1>7. QED
  BY <1>2, <1>3, <1>5, <1>6 DEF StoreInvariant

\* A start looks at the disk and changes nothing there.
LEMMA StartKeeps ==
  ASSUME StoreInvariant, NEW p \in Processes, NEW k \in Packages, Start(p, k)
  PROVE  StoreInvariant'
<1> USE DEF Start, Go
<1>1. StoreTyped'
  BY DEF StoreInvariant, StoreTyped, Positions
<1>2. OneOwner'
  BY DEF StoreInvariant, StoreTyped, OneOwner, Owning
<1>3. \A q \in Processes : HalfMade(q)' <=> HalfMade(q)
  BY DEF StoreInvariant, StoreTyped, HalfMade
<1>4. DiskSound'
  BY <1>3 DEF StoreInvariant, DiskSound, Occupied
<1>5. ASSUME NEW q \in Processes PROVE Position(q)' /\ Cause(q)'
  <2>1. CASE q = p
    BY <2>1, StoreAssumption DEF StoreAssumption, StoreInvariant, StoreTyped, Position, Cause,
      Opened, Served, Composing, HalfMade
  <2>2. CASE q # p
    <3>1. Position(q)'
      BY <2>2, PositionStays DEF StoreInvariant, StoreTyped
    <3>2. Cause(q)'
      BY <1>3, <2>2 DEF StoreInvariant, StoreTyped, Cause
    <3>3. QED
      BY <3>1, <3>2
  <2>3. QED
    BY <2>1, <2>2
<1>6. QED
  BY <1>1, <1>2, <1>4, <1>5 DEF StoreInvariant

\* Whoever gets the lock becomes the owner, and there was none before.
LEMMA AcquireKeeps ==
  ASSUME StoreInvariant, NEW p \in Processes, Acquire(p)
  PROVE  StoreInvariant'
<1>1. CASE lock # None
  BY <1>1, OutsiderRefuses DEF Acquire
<1>2. CASE lock = None
  <2>1. /\ pc[p] = "acquire" /\ lock' = p
        /\ pc' = [pc EXCEPT ![p] = IF mode[p] = "open" THEN "read" ELSE "occupants"]
        /\ UNCHANGED <<disk, mode, package, accepted, starts, outcome, cut, first>>
    BY <1>2 DEF Acquire, Go
  <2>2. StoreTyped'
    BY <2>1 DEF StoreInvariant, StoreTyped, Positions, Preparing
  <2>3. OneOwner'
    BY <1>2, <2>1, StoreAssumption DEF StoreAssumption, StoreInvariant, StoreTyped, OneOwner, Owning
  <2>4. \A q \in Processes : HalfMade(q)' <=> HalfMade(q)
    BY <2>1 DEF StoreInvariant, StoreTyped, HalfMade
  <2>5. DiskSound'
    BY <2>1, <2>4 DEF StoreInvariant, DiskSound, Occupied
  <2>6. ASSUME NEW q \in Processes PROVE Position(q)'
    <3>1. CASE q = p
      BY <2>1, <3>1 DEF StoreInvariant, StoreTyped, Position, Opened, Served, Composing, HalfMade
    <3>2. CASE q # p
      BY <2>1, <3>2, PositionStays DEF StoreInvariant, StoreTyped
    <3>3. QED
      BY <3>1, <3>2
  <2>7. ASSUME NEW q \in Processes PROVE Cause(q)'
    BY <2>1, <2>4 DEF StoreInvariant, StoreTyped, Cause
  <2>8. QED
    BY <2>2, <2>3, <2>5, <2>6, <2>7 DEF StoreInvariant
<1>3. QED
  BY <1>1, <1>2
-----------------------------------------------------------------------------
\* A creation finds an empty root, or a store that serves or was cut.
LEMMA CheckOccupantsKeeps ==
  ASSUME StoreInvariant, NEW p \in Processes, CheckOccupants(p)
  PROVE  StoreInvariant'
<1>1. Owning(p)
  BY DEF CheckOccupants, Owning
<1> USE <1>1, AtWork
<1>2. CASE Occupied
  <2>1. Refuse(p, "exists") /\ cut' = (cut \/ HalfMade(p))
    BY <1>2 DEF CheckOccupants, HalfMade, StoreInvariant, StoreTyped
  <2>2. cut' \/ disk.metadata # None
    BY <1>2 DEF CheckOccupants, HalfMade
  <2>3. QED
    BY <2>1, <2>2, OwnerRefuses
<1>3. CASE ~Occupied
  <2> USE DEF CheckOccupants, Write, Go
  <2> USE <1>3
  <2>1. disk' \in Disks
    BY DEF Disks
  <2>2. KeptBeside(p)
    BY DEF Disks, KeptBeside, HalfMade, Position
  <2>3. DiskSound'
    BY DEF Disks, StoreInvariant, DiskSound, Position, HalfMade, Occupied, Opened, Composing
  <2>4. Position(p)'
    BY DEF Disks, StoreInvariant, Position, HalfMade, Occupied, Opened, Served, Composing
  <2>5. QED
    BY <2>1, <2>2, <2>3, <2>4, OwnerWrites DEF Positions, Opened, Preparing, Composing, Served
<1>4. QED
  BY <1>2, <1>3

\* A locator without a database is what a creation that was cut left.
LEMMA ReadLocatorKeeps ==
  ASSUME StoreInvariant, NEW p \in Processes, ReadLocator(p)
  PROVE  StoreInvariant'
<1>1. Owning(p)
  BY DEF ReadLocator, Owning
<1> USE <1>1, AtWork
<1>2. CASE ~disk.file
  <2>1. Refuse(p, "format") /\ cut' = (cut \/ HalfMade(p))
    BY <1>2 DEF ReadLocator, HalfMade, StoreInvariant, StoreTyped
  <2>2. cut' /\ disk.locator # None /\ disk.metadata = None
    BY <1>2 DEF ReadLocator, HalfMade, Position, StoreInvariant, DiskSound, Occupied
  <2>3. QED
    BY <2>1, <2>2, OwnerRefuses
<1>3. CASE disk.file
  <2> USE DEF ReadLocator, Write, Go
  <2> USE <1>3
  <2>1. disk' \in Disks
    BY DEF Disks
  <2>2. KeptBeside(p)
    BY DEF Disks, KeptBeside, HalfMade, Position
  <2>3. DiskSound'
    BY DEF Disks, StoreInvariant, DiskSound, Position, HalfMade, Occupied, Opened, Composing
  <2>4. Position(p)'
    BY DEF Disks, StoreInvariant, Position, HalfMade, Occupied, Opened, Served, Composing
  <2>5. QED
    BY <2>1, <2>2, <2>3, <2>4, OwnerWrites DEF Positions, Opened, Preparing, Composing, Served
<1>4. QED
  BY <1>2, <1>3

\* A locator without its metadata row is what a creation that was cut left.
LEMMA VerifyKeeps ==
  ASSUME StoreInvariant, NEW p \in Processes, Verify(p)
  PROVE  StoreInvariant'
<1>1. Owning(p)
  BY DEF Verify, Owning
<1> USE <1>1, AtWork
<1>2. CASE disk.metadata = None \/ disk.metadata # disk.locator
  <2>1. Refuse(p, "integrity") /\ cut' = (cut \/ HalfMade(p))
    BY <1>2 DEF Verify, HalfMade, StoreInvariant, StoreTyped
  <2>2. cut' /\ disk.locator # None /\ disk.metadata = None
    BY <1>2 DEF Verify, HalfMade, Position, StoreInvariant, DiskSound, Occupied, Opened
  <2>3. QED
    BY <2>1, <2>2, OwnerRefuses
<1>3. CASE disk.metadata # None /\ disk.metadata = disk.locator
  <2> USE DEF Verify, Write, Go
  <2> USE <1>3
  <2>1. disk' \in Disks
    BY DEF Disks
  <2>2. KeptBeside(p)
    BY DEF Disks, KeptBeside, HalfMade, Position
  <2>3. DiskSound'
    BY DEF Disks, StoreInvariant, DiskSound, Position, HalfMade, Occupied, Opened, Composing
  <2>4. Position(p)'
    BY DEF Disks, StoreInvariant, Position, HalfMade, Occupied, Opened, Served, Composing
  <2>5. QED
    BY <2>1, <2>2, <2>3, <2>4, OwnerWrites DEF Positions, Opened, Preparing, Composing, Served
<1>4. QED
  BY <1>2, <1>3

\* The first seed is the package's own, or the start is abandoned for good cause.
LEMMA SeedProfileKeeps ==
  ASSUME StoreInvariant, NEW p \in Processes, SeedProfile(p)
  PROVE  StoreInvariant'
<1>1. Owning(p)
  BY DEF SeedProfile, Owning
<1> USE <1>1, AtWork
<1>2. CASE Seeded(disk.seed, package[p]) # package[p]
  <2>1. Abandon(p, "seed") /\ pc[p] \in Composing
    BY <1>2 DEF SeedProfile, Composing
  <2>2. disk.seed # None /\ disk.seed # package[p]
    BY <1>2 DEF SeedProfile, Seeded, StoreInvariant, DiskSound
  <2>3. QED
    BY <2>1, <2>2, OwnerAbandons
<1>3. CASE Seeded(disk.seed, package[p]) = package[p]
  <2> USE DEF SeedProfile, Write, Go
  <2> USE <1>3 DEF Seeded
  <2>1. disk' \in Disks
    BY DEF Disks
  <2>2. KeptBeside(p)
    BY DEF Disks, KeptBeside, HalfMade, Position
  <2>3. DiskSound'
    BY DEF Disks, StoreInvariant, DiskSound, Position, HalfMade, Occupied, Opened, Composing
  <2>4. Position(p)'
    BY DEF Disks, StoreInvariant, Position, HalfMade, Occupied, Opened, Served, Composing
  <2>5. QED
    BY <2>1, <2>2, <2>3, <2>4, OwnerWrites DEF Positions, Opened, Preparing, Composing, Served
<1>4. QED
  BY <1>2, <1>3

\* The second seed is of the package of the first.
LEMMA SeedCurrentKeeps ==
  ASSUME StoreInvariant, NEW p \in Processes, SeedCurrent(p)
  PROVE  StoreInvariant'
<1>1. Owning(p)
  BY DEF SeedCurrent, Owning
<1> USE <1>1, AtWork
<1>2. CASE Seeded(disk.current, package[p]) # package[p]
  <2>1. Abandon(p, "seed") /\ pc[p] \in Composing
    BY <1>2 DEF SeedCurrent, Composing
  <2>2. disk.seed # None /\ disk.seed # package[p]
    BY <1>2 DEF SeedCurrent, Seeded, StoreInvariant, DiskSound
  <2>3. QED
    BY <2>1, <2>2, OwnerAbandons
<1>3. CASE Seeded(disk.current, package[p]) = package[p]
  <2> USE DEF SeedCurrent, Write, Go
  <2> USE <1>3 DEF Seeded
  <2>1. disk' \in Disks
    BY DEF Disks
  <2>2. KeptBeside(p)
    BY DEF Disks, KeptBeside, HalfMade, Position
  <2>3. DiskSound'
    BY DEF Disks, StoreInvariant, DiskSound, Position, HalfMade, Occupied, Opened, Composing
  <2>4. Position(p)'
    BY DEF Disks, StoreInvariant, Position, HalfMade, Occupied, Opened, Served, Composing
  <2>5. QED
    BY <2>1, <2>2, <2>3, <2>4, OwnerWrites DEF Positions, Opened, Preparing, Composing, Served
<1>4. QED
  BY <1>2, <1>3

\* The content is brought to the present format, and its lineage is accepted.
LEMMA MigrateContentKeeps ==
  ASSUME StoreInvariant, NEW p \in Processes, MigrateContent(p)
  PROVE  StoreInvariant'
<1>1. Owning(p)
  BY DEF MigrateContent, Owning
<1> USE <1>1, AtWork
<1> USE DEF MigrateContent, Go
<1>2. disk' \in Disks
  BY DEF Disks
<1>3. KeptBeside(p)
  BY DEF Disks, KeptBeside, HalfMade, Position
<1>4. DiskSound'
  BY DEF Disks, StoreInvariant, DiskSound, Position, HalfMade, Occupied, Composing
<1>5. /\ accepted' \in [Processes -> SUBSET {"legacy", "current"}]
      /\ "current" \in accepted'[p] /\ (disk'.events => "legacy" \in accepted'[p])
  BY DEF Disks, StoreInvariant, StoreTyped, Predecessors
<1>6. Position(p)'
  BY <1>5 DEF Disks, Position, HalfMade, Occupied, Opened, Served, Composing
<1>7. Cause(p)' /\ DOMAIN outcome' = Processes /\ cut' \in BOOLEAN
  BY <1>3, OwnCauseKeeps DEF StoreInvariant, StoreTyped
<1>8. QED
  BY <1>2, <1>3, <1>4, <1>5, <1>6, <1>7, OwnerMoves DEF Positions, Composing

\* A process serves a store with a locator and a row.
LEMMA ServeKeeps ==
  ASSUME StoreInvariant, NEW p \in Processes, Serve(p)
  PROVE  StoreInvariant'
<1>1. Owning(p)
  BY DEF Serve, Owning
<1> USE <1>1, AtWork
<1> USE DEF Serve, Go
<1>2. KeptBeside(p)
  BY DEF KeptBeside, HalfMade
<1>3. DiskSound'
  BY DEF StoreInvariant, DiskSound, Position, Occupied, Served
<1>4. Position(p)'
  BY DEF Position, HalfMade, Opened, Served, Composing
<1>5. Cause(p)'
  BY DEF Cause, StoreInvariant, StoreTyped
<1>6. /\ accepted' \in [Processes -> SUBSET {"legacy", "current"}] /\ DOMAIN outcome' = Processes
      /\ cut' \in BOOLEAN /\ "serving" \in Positions \ {"acquire"}
  BY DEF StoreInvariant, StoreTyped, Positions, Served
<1>7. QED
  BY <1>2, <1>3, <1>4, <1>5, <1>6, OwnerMoves

\* The lock is given back.
LEMMA ReleaseKeeps ==
  ASSUME StoreInvariant, NEW p \in Processes, Release(p)
  PROVE  StoreInvariant'
<1>1. Owning(p)
  BY DEF Release, Owning
<1> USE <1>1, AtWork
<1> USE DEF Release, Go
<1>2. KeptBeside(p)
  BY DEF KeptBeside, HalfMade
<1>3. DiskSound'
  BY DEF StoreInvariant, DiskSound, Occupied, HalfMade
<1>4. Position(p)'
  BY DEF Position, HalfMade, Opened, Served, Composing
<1>5. Cause(p)'
  BY <1>2, OwnCauseKeeps
<1>6. /\ accepted' \in [Processes -> SUBSET {"legacy", "current"}] /\ DOMAIN outcome' = Processes
      /\ cut' \in BOOLEAN /\ "idle" \in Positions \ {"acquire"}
      /\ lock' = (IF "idle" = "idle" THEN None ELSE lock)
  BY DEF StoreInvariant, StoreTyped, Positions
<1>7. QED
  BY <1>2, <1>3, <1>4, <1>5, <1>6, OwnerMoves

\* An error ends the start, wherever it strikes.
LEMMA FailKeeps ==
  ASSUME StoreInvariant, NEW p \in Processes, Fail(p)
  PROVE  StoreInvariant'
<1>1. CASE pc[p] \in Composing /\ Abandon(p, "error")
  BY <1>1, OwnerAbandons
<1>2. CASE ~(pc[p] \in Composing /\ Abandon(p, "error"))
  <2>1. Owning(p) /\ cut' = (cut \/ HalfMade(p))
    BY <1>2 DEF Fail, Owning
  <2>2. PICK why : why = IF pc[p] = "close" THEN outcome[p] ELSE "error"
    OBVIOUS
  <2>3. Refuse(p, why)
    BY <1>2, <2>2 DEF Fail
  <2>4. why = "error" \/ why = outcome[p]
    BY <2>2
  <2>5. /\ why \in {"format", "integrity"} => cut' /\ disk.locator # None /\ disk.metadata = None
        /\ why = "exists" => cut' \/ disk.metadata # None
        /\ why = "seed" => disk.seed # None /\ disk.seed # package[p]
    BY <2>1, <2>4 DEF StoreInvariant, Cause
  <2>6. QED
    BY <2>1, <2>3, <2>5, OwnerRefuses
<1>3. QED
  BY <1>1, <1>2

\* So does the death of the process.
LEMMA CrashKeeps ==
  ASSUME StoreInvariant, NEW p \in Processes, Crash(p)
  PROVE  StoreInvariant'
<1>1. CASE pc[p] = "acquire"
  <2>1. UNCHANGED cut
    BY <1>1 DEF Crash, HalfMade, StoreInvariant, StoreTyped
  <2>2. QED
    BY <1>1, <2>1, OutsiderRefuses DEF Crash
<1>2. CASE pc[p] # "acquire"
  BY <1>2, OwnerRefuses DEF Crash, Owning
<1>3. QED
  BY <1>1, <1>2
-----------------------------------------------------------------------------
\* Every step keeps the invariant.
LEMMA StoreStep ==
  ASSUME StoreInvariant, StoreNext
  PROVE  StoreInvariant'
<1> PICK p \in Processes :
      \/ \E k \in Packages : Start(p, k)
      \/ Acquire(p) \/ CheckOccupants(p) \/ MakeStaging(p) \/ WriteLocator(p) \/ Connect(p)
      \/ Migrate(p) \/ ApplySchema(p) \/ InsertMetadata(p) \/ ReadLocator(p) \/ Verify(p)
      \/ MigrateContent(p) \/ SeedProfile(p) \/ SeedCurrent(p) \/ OpenDraft(p) \/ RebaseDraft(p)
      \/ Serve(p) \/ CloseApplication(p) \/ MarkClean(p) \/ Release(p) \/ Fail(p) \/ Crash(p)
  BY DEF StoreNext
<1>1. CASE \E k \in Packages : Start(p, k)
  BY <1>1, StartKeeps
<1>2. CASE Acquire(p) \/ CheckOccupants(p) \/ MakeStaging(p) \/ WriteLocator(p) \/ Connect(p)
  BY <1>2, AcquireKeeps, CheckOccupantsKeeps, MakeStagingKeeps, WriteLocatorKeeps, ConnectKeeps
<1>3. CASE Migrate(p) \/ ApplySchema(p) \/ InsertMetadata(p) \/ ReadLocator(p) \/ Verify(p)
  BY <1>3, MigrateKeeps, ApplySchemaKeeps, InsertMetadataKeeps, ReadLocatorKeeps, VerifyKeeps
<1>4. CASE \/ MigrateContent(p) \/ SeedProfile(p) \/ SeedCurrent(p) \/ OpenDraft(p)
           \/ RebaseDraft(p)
  BY <1>4, MigrateContentKeeps, SeedProfileKeeps, SeedCurrentKeeps, OpenDraftKeeps,
     RebaseDraftKeeps
<1>5. CASE \/ Serve(p) \/ CloseApplication(p) \/ MarkClean(p) \/ Release(p) \/ Fail(p) \/ Crash(p)
  BY <1>5, ServeKeeps, CloseApplicationKeeps, MarkCleanKeeps, ReleaseKeeps, FailKeeps, CrashKeeps
<1>6. QED
  BY <1>1, <1>2, <1>3, <1>4, <1>5

\* At every moment of every history of starts, crashes and errors, each process at work has
\* what its position presumes, and what lies on the disk is sound.
THEOREM StoreInvariance == StoreSpec => []StoreInvariant
<1>1. StoreInvariant /\ UNCHANGED storeVars => StoreInvariant'
  BY DEF StoreInvariant, StoreTyped, OneOwner, Owning, DiskSound, Occupied, Position, Cause,
    HalfMade, storeVars
<1>2. QED
  BY <1>1, InitialSound, StoreStep, PTL DEF StoreSpec

\* A store that served once keeps its identity and can be served again, whole, from the package
\* it was seeded from; a refusal has a cause, and only a first creation that was cut leaves a
\* root that no start accepts.
THEOREM AlwaysStartsAgain == StoreSpec => []StartsAgain
<1>1. ASSUME StoreInvariant PROVE OneIdentity
  BY <1>1 DEF StoreInvariant, DiskSound, OneIdentity, StoreTyped
<1>2. ASSUME StoreInvariant PROVE RefusedForCause
  BY <1>2, StoreAssumption DEF StoreAssumption, StoreInvariant, DiskSound, RefusedForCause, Cause
<1>3. ASSUME StoreInvariant PROVE ServesWhole
  <2> SUFFICES ASSUME NEW p \in Processes, pc[p] = "serving"
               PROVE  /\ lock = p
                      /\ disk.metadata = disk.locator /\ disk.version = Migrations /\ disk.system
                      /\ {disk.seed, disk.current} = {package[p]}
                      /\ disk.content = "current" /\ disk.base = "current"
                      /\ disk.live = "current"
    BY DEF ServesWhole
  <2>1. Owning(p)
    BY DEF Owning
  <2>2. QED
    BY <1>3, <2>1, AtWork DEF StoreInvariant, DiskSound, Position, Served
<1>4. StoreInvariant => StartsAgain
  BY <1>1, <1>2, <1>3 DEF StartsAgain
<1>5. QED
  BY <1>4, StoreInvariance, PTL
-----------------------------------------------------------------------------
(* ModelHistory, for any objects, clients, contents and proposals and a log   *)
(* of any length.                                                             *)
(*                                                                            *)
(* Every request that changes something commits one event. The argument is    *)
(* therefore in three parts: what Commit leaves (CommitOne), which events the *)
(* four requests make (Fits), and that committing an event that fits keeps    *)
(* the invariant (CommitKeeps).                                               *)

\* Events that can be the head of an object: they wrote a proposal.
IsEdit(i) == log[i].kind \in {"create", "update"}

\* i is an undo of an object o that had event source for its head.
IsUndo(i, o) == i \in EventId /\ log[i].object = o /\ log[i].kind = "undo"

\* w came after v: a revision of v that w repeats names what w shows.
Older(v, w) ==
  /\ v.sem <= w.sem /\ (v.sem = w.sem => v.content = w.content)
  /\ v.lay <= w.lay /\ (v.lay = w.lay => v.layout = w.layout)

\* Types, without the order of references, which LogSound states.
Typed ==
  /\ objects \in [Object -> Row \cup {Absent}]
  /\ log \in Seq(EventRecord)
  /\ held \in [Client -> [Object -> Value \cup {Absent}]]

\* An event is about an object that exists and refers to earlier events only.
RefersBack(i) ==
  Exists(log[i].object) /\ log[i].parent < i /\ log[i].source < i /\ log[i].pending < i

\* The parent of an edit is the edit before it, and shows what the edit replaced.
ParentSound(i) ==
  IsEdit(i) /\ log[i].before # Absent =>
    LET parent == log[i].parent
    IN  /\ parent \in 1 .. i - 1 /\ IsEdit(parent) /\ log[parent].object = log[i].object
        /\ Same(log[parent].after, log[i].before)

\* An undo moved over an edit that did not create the object, and the redo that it keeps
\* pending is of the edit that followed.
UndoSound(i) ==
  log[i].kind = "undo" =>
    LET source  == log[i].source
        pending == log[i].pending
    IN  /\ source \in 1 .. i - 1 /\ IsEdit(source) /\ log[source].object = log[i].object
        /\ log[source].before # Absent
        /\ pending # NoEvent => /\ pending \in 1 .. i - 1 /\ IsUndo(pending, log[i].object)
                                /\ log[pending].source \in 1 .. i - 1
                                /\ log[log[pending].source].parent = source

LogSound == \A i \in EventId : RefersBack(i) /\ ParentSound(i) /\ UndoSound(i)

HeadsAreEdits == \A o \in Object : Exists(o) => IsEdit(objects[o].head)

\* No snapshot in the log, and no copy a client holds, is ahead of its object.
LogIsOlder == \A i \in EventId : Older(log[i].after, Current(log[i].object))
HeldIsOlder ==
  \A c \in Client, o \in Object : held[c][o] # Absent => Exists(o) /\ Older(held[c][o], Current(o))

InductiveInvariant ==
  /\ Typed /\ LogSound /\ CursorsAreSound /\ HeadsAreEdits
  /\ RevisionNamesContent /\ LogIsOlder /\ HeldIsOlder

\* What the four requests commit: a first event of an object, an edit of what it shows, a
\* step back over its head, or a step forward over what the redo cursor undid.
Fits(e) ==
  LET o == e.object
  IN  /\ e.kind = "create" => ~Exists(o) /\ e.before = Absent
      /\ e.kind # "create" => /\ Exists(o) /\ e.before = Current(o) /\ e.parent = objects[o].head
                              /\ Older(Current(o), e.after)
      /\ e.kind = "undo" => /\ e.source = objects[o].head /\ e.pending = objects[o].redo
                            /\ log[e.source].before # Absent
                            /\ Same(e.after, log[e.source].before)
      /\ e.kind = "redo" => /\ objects[o].redo # NoEvent /\ e.source = log[objects[o].redo].source
                            /\ Same(e.after, log[e.source].after)
      /\ e.kind \in {"create", "update"} => e.source = NoEvent
      /\ e.kind # "undo" => e.pending = NoEvent
      /\ e.kind = "create" => e.parent = NoEvent

------------------------------------------------------------------------------
(* Older is a preorder of values. *)
LEMMA OlderTransitive ==
  ASSUME NEW u \in Value, NEW v \in Value, NEW w \in Value, Older(u, v), Older(v, w)
  PROVE  Older(u, w)
BY DEF Older, Value

(* A value is as old as itself.                                              *)
LEMMA OlderReflexive == ASSUME NEW v \in Value PROVE Older(v, v)
BY DEF Older, Value

(* A row and an event are no Absent. *)
LEMMA ValuesExist ==
  ASSUME Typed, NEW o \in Object, Exists(o)
  PROVE  objects[o] \in Row /\ Current(o) \in Value /\ objects[o].head \in Nat /\ objects[o].redo \in Nat
BY DEF Typed, Exists, Row, Current

(* What a transaction of one event leaves: the event at the end of the log, and its   *)
(* object with the event's snapshot and the two cursors; everything else as before.   *)
LEMMA CommitOne ==
  ASSUME Typed, NEW e \in EventRecord, Commit(<<e>>)
  PROVE  LET n == Len(log) + 1
         IN  /\ n \in Nat /\ log' \in Seq(EventRecord) /\ Len(log') = n
             /\ log'[n] = e
             /\ \A i \in 1 .. Len(log) : log'[i] = log[i]
             /\ objects'[e.object] =
                  [value |-> e.after, head |-> HeadAfter(e, n), redo |-> RedoAfter(e, n)]
             /\ \A o \in Object : o # e.object => objects'[o] = objects[o]
             /\ DOMAIN objects' = Object /\ objects' = [o \in Object |-> objects'[o]]
<1> DEFINE n == Len(log) + 1
<1>1. log \in Seq(EventRecord) /\ e.object \in Object
  BY DEF Typed, EventRecord
<1>2. log' = log \o <<e>>
  BY DEF Commit
<1>3. /\ n \in Nat /\ log' \in Seq(EventRecord) /\ Len(log') = n /\ log'[n] = e
      /\ \A i \in 1 .. Len(log) : log'[i] = log[i]
  BY <1>1, <1>2
<1>4. DOMAIN <<e>> = {1} /\ <<e>>[1] = e
  OBVIOUS
<1>5. ASSUME NEW o \in Object
      PROVE  objects'[o] = IF o = e.object
                           THEN [value |-> e.after, head |-> HeadAfter(e, n), redo |-> RedoAfter(e, n)]
                           ELSE objects[o]
  <2>1. (\E i \in DOMAIN <<e>> : <<e>>[i].object = o) <=> o = e.object
    BY <1>4
  <2>2. o = e.object => (CHOOSE i \in DOMAIN <<e>> : <<e>>[i].object = o) = 1
    BY <1>4
  <2>3. objects'[o] =
          IF \E i \in DOMAIN <<e>> : <<e>>[i].object = o
          THEN LET i == CHOOSE i \in DOMAIN <<e>> : <<e>>[i].object = o
                   id == Len(log) + i
               IN  [value |-> <<e>>[i].after, head  |-> HeadAfter(<<e>>[i], id),
                    redo  |-> RedoAfter(<<e>>[i], id)]
          ELSE objects[o]
    BY DEF Commit
  <2> QED
    BY <2>1, <2>2, <2>3, <1>4
<1>6. DOMAIN objects' = Object /\ objects' = [o \in Object |-> objects'[o]]
  BY DEF Commit
<1> QED
  BY <1>1, <1>3, <1>5, <1>6

(* The cursors an event of each kind leaves. *)
LEMMA CursorsAfter ==
  ASSUME NEW e, NEW n
  PROVE  /\ e.kind \in {"create", "update"} => HeadAfter(e, n) = n /\ RedoAfter(e, n) = NoEvent
         /\ e.kind = "undo" => HeadAfter(e, n) = log[e.source].parent /\ RedoAfter(e, n) = n
         /\ e.kind = "redo" => /\ HeadAfter(e, n) = e.source
                               /\ RedoAfter(e, n) = log[objects[e.object].redo].pending
BY DEF HeadAfter, RedoAfter

(* What comes before an event of the log is an event of the log. *)
LEMMA EarlierEvents ==
  ASSUME Len(log) \in Nat, NEW i \in EventId
  PROVE  \A j : j \in 1 .. i - 1 => j \in EventId
BY DEF EventId

(* A head has a parent to go back to unless it created its object.            *)
LEMMA HeadsAndUndos ==
  ASSUME InductiveInvariant, NEW o \in Object, Exists(o)
  PROVE  /\ objects[o].head \in EventId /\ log[objects[o].head].object = o /\ IsEdit(objects[o].head)
         /\ Same(log[objects[o].head].after, Current(o))
         /\ log[objects[o].head].before # Absent =>
              LET parent == log[objects[o].head].parent
              IN  /\ parent \in EventId /\ IsEdit(parent) /\ log[parent].object = o
                  /\ Same(log[parent].after, log[objects[o].head].before)
         /\ objects[o].redo # NoEvent =>
              LET undo == log[objects[o].redo]
              IN  /\ IsUndo(objects[o].redo, o) /\ log[undo.source].parent = objects[o].head
                  /\ undo.source \in EventId /\ IsEdit(undo.source) /\ log[undo.source].object = o
                  /\ undo.pending # NoEvent =>
                       IsUndo(undo.pending, o) /\ log[log[undo.pending].source].parent = undo.source
<1> DEFINE head == objects[o].head
           redo == objects[o].redo
<1>1. /\ head \in EventId /\ log[head].object = o /\ Same(log[head].after, Current(o))
      /\ redo # NoEvent => IsUndo(redo, o) /\ log[log[redo].source].parent = head
  BY DEF InductiveInvariant, CursorsAreSound, IsUndo
<1>2. IsEdit(head)
  BY DEF InductiveInvariant, HeadsAreEdits
<1>3. Len(log) \in Nat
  BY DEF InductiveInvariant, Typed
<1>4. ASSUME log[head].before # Absent
      PROVE  /\ log[head].parent \in EventId /\ IsEdit(log[head].parent) /\ log[log[head].parent].object = o
             /\ Same(log[log[head].parent].after, log[head].before)
  <2>1. /\ log[head].parent \in 1 .. head - 1 /\ IsEdit(log[head].parent)
        /\ log[log[head].parent].object = log[head].object
        /\ Same(log[log[head].parent].after, log[head].before)
    BY <1>1, <1>2, <1>4 DEF InductiveInvariant, LogSound, ParentSound
  <2>2. log[head].parent \in EventId
    BY <2>1, <1>1, <1>3, EarlierEvents
  <2> QED
    BY <2>1, <2>2, <1>1
<1>5. ASSUME redo # NoEvent
      PROVE  LET undo == log[redo]
             IN  /\ undo.source \in EventId /\ IsEdit(undo.source) /\ log[undo.source].object = o
                 /\ undo.pending # NoEvent =>
                      IsUndo(undo.pending, o) /\ log[log[undo.pending].source].parent = undo.source
  <2>1. redo \in EventId /\ log[redo].object = o /\ log[redo].kind = "undo"
    BY <1>1, <1>5 DEF IsUndo
  <2>2. /\ log[redo].source \in 1 .. redo - 1 /\ IsEdit(log[redo].source)
        /\ log[log[redo].source].object = log[redo].object
        /\ log[redo].pending # NoEvent =>
             /\ IsUndo(log[redo].pending, log[redo].object)
             /\ log[log[log[redo].pending].source].parent = log[redo].source
    BY <2>1 DEF InductiveInvariant, LogSound, UndoSound
  <2>3. log[redo].source \in EventId
    BY <2>1, <2>2, <1>3, EarlierEvents
  <2> QED
    BY <2>1, <2>2, <2>3
<1> QED
  BY <1>1, <1>2, <1>4, <1>5

(* Committing an event that fits moves its object forward, and no other object. *)
LEMMA CommitForward ==
  ASSUME InductiveInvariant, NEW e \in EventRecord, Fits(e), Commit(<<e>>)
  PROVE  /\ Exists(e.object)' /\ Current(e.object)' = e.after
         /\ \A o \in Object : Exists(o) => Exists(o)' /\ Older(Current(o), Current(o)')
         /\ \A o \in Object : o # e.object => objects'[o] = objects[o]
         /\ objects' \in [Object -> Row \cup {Absent}]
<1> DEFINE n == Len(log) + 1
<1> HIDE DEF n
<1>1. /\ n \in Nat
      /\ objects'[e.object] = [value |-> e.after, head |-> HeadAfter(e, n), redo |-> RedoAfter(e, n)]
      /\ \A o \in Object : o # e.object => objects'[o] = objects[o]
      /\ DOMAIN objects' = Object /\ objects' = [o \in Object |-> objects'[o]]
  BY CommitOne DEF InductiveInvariant, n
<1>2. /\ e.object \in Object /\ e.after \in Value /\ e.parent \in Nat /\ e.source \in Nat
      /\ e.kind \in {"create", "update", "undo", "redo"}
  BY DEF EventRecord
<1>3. HeadAfter(e, n) \in Nat /\ RedoAfter(e, n) \in Nat
  <2>1. CASE e.kind \in {"create", "update"}
    BY <2>1, <1>1, CursorsAfter DEF NoEvent
  <2>2. CASE e.kind = "undo"
    <3>1. Exists(e.object) /\ e.source = objects[e.object].head /\ log[e.source].before # Absent
      BY <2>2 DEF Fits
    <3>2. log[objects[e.object].head].parent \in EventId
      <4>1. e.object \in Object /\ Exists(e.object) /\ log[objects[e.object].head].before # Absent
        BY <3>1, <1>2
      <4> QED
        BY <4>1, HeadsAndUndos
    <3>3. log[e.source].parent \in Nat
      BY <3>1, <3>2 DEF EventId
    <3> QED
      BY <2>2, <3>3, <1>1, CursorsAfter
  <2>3. CASE e.kind = "redo"
    <3>1. Exists(e.object) /\ objects[e.object].redo # NoEvent
      BY <2>3 DEF Fits
    <3>2. IsUndo(objects[e.object].redo, e.object)
      BY <3>1, <1>2, HeadsAndUndos
    <3>3. log[objects[e.object].redo] \in EventRecord
      BY <3>2 DEF IsUndo, EventId, InductiveInvariant, Typed
    <3>4. log[objects[e.object].redo].pending \in Nat
      BY <3>3 DEF EventRecord
    <3> QED
      BY <2>3, <3>4, <1>2, CursorsAfter
  <2> QED
    BY <2>1, <2>2, <2>3, <1>2
<1>4. objects'[e.object] \in Row
  BY <1>1, <1>2, <1>3 DEF Row
<1>5. objects'[e.object].value = e.after /\ objects'[e.object] # Absent
  BY <1>1, <1>4, AbsentAssumption
<1>6. ASSUME NEW o \in Object, Exists(o)
      PROVE  Exists(o)' /\ Older(Current(o), Current(o)')
  <2>1. CASE o = e.object
    <3>1. e.kind # "create"
      BY <2>1, <1>6 DEF Fits
    <3> QED
      BY <2>1, <3>1, <1>5 DEF Fits, Exists, Current
  <2>2. CASE o # e.object
    <3>1. Exists(o)' /\ Current(o)' = Current(o)
      BY <2>2, <1>1, <1>6 DEF Exists, Current
    <3> QED
      BY <3>1, <1>6, ValuesExist, OlderReflexive DEF InductiveInvariant
  <2> QED
    BY <2>1, <2>2
<1>7. objects' \in [Object -> Row \cup {Absent}]
  <2>1. \A o \in Object : objects'[o] \in Row \cup {Absent}
    BY <1>1, <1>4 DEF InductiveInvariant, Typed
  <2> QED
    BY <2>1, <1>1
<1> QED
  BY <1>1, <1>5, <1>6, <1>7 DEF Exists, Current

\* e is the nth event of the new log, which keeps the old ones; its object and the objects
\* there were exist.
Appended(e, n) ==
  /\ n = Len(log) + 1 /\ Len(log') = n /\ log'[n] = e
  /\ \A i \in 1 .. Len(log) : log'[i] = log[i]
  /\ Exists(e.object)'
  /\ \A o \in Object : Exists(o) => Exists(o)'

(* A commit appends one event, and keeps every event there was.              *)
LEMMA CommitAppends ==
  ASSUME InductiveInvariant, NEW e \in EventRecord, Fits(e), Commit(<<e>>)
  PROVE  \E n \in Nat : /\ Appended(e, n)
                        /\ objects'[e.object] =
                             [value |-> e.after, head |-> HeadAfter(e, n), redo |-> RedoAfter(e, n)]
<1>1. Len(log) + 1 \in Nat
  BY CommitOne DEF InductiveInvariant
<1> QED
  BY <1>1, CommitOne, CommitForward DEF InductiveInvariant, Appended

(* What an event refers to is not disturbed by a later event.                 *)
LEMMA OldEventsStaySound ==
  ASSUME InductiveInvariant, NEW e \in EventRecord, NEW n \in Nat, Appended(e, n),
         NEW i \in EventId
  PROVE  RefersBack(i)' /\ ParentSound(i)' /\ UndoSound(i)'
<1>1. RefersBack(i) /\ ParentSound(i) /\ UndoSound(i) /\ i \in 1 .. Len(log) /\ Len(log) \in Nat
  BY DEF InductiveInvariant, LogSound, EventId, Typed
<1>2. \A j \in 1 .. i : log'[j] = log[j]
  BY <1>1 DEF Appended
<1>3. log[i] \in EventRecord
  BY <1>1 DEF InductiveInvariant, Typed
<1>4. RefersBack(i)'
  BY <1>1, <1>2, <1>3 DEF RefersBack, Appended, EventRecord
<1>5. ParentSound(i)'
  BY <1>1, <1>2 DEF ParentSound, IsEdit, Same
<1>6. UndoSound(i)'
  <2> SUFFICES ASSUME log[i].kind = "undo" PROVE UndoSound(i)'
    BY <1>1, <1>2 DEF UndoSound
  <2> DEFINE source == log[i].source
             pending == log[i].pending
  <2>1. /\ source \in 1 .. i - 1 /\ IsEdit(source) /\ log[source].object = log[i].object
        /\ log[source].before # Absent
        /\ pending # NoEvent => /\ pending \in 1 .. i - 1 /\ IsUndo(pending, log[i].object)
                                /\ log[pending].source \in 1 .. i - 1
                                /\ log[log[pending].source].parent = source
    BY <1>1 DEF UndoSound
  <2>2. log'[i] = log[i] /\ log'[source] = log[source]
    BY <1>1, <1>2, <2>1
  <2>3. pending # NoEvent => /\ log'[pending] = log[pending]
                             /\ log'[log[pending].source] = log[log[pending].source]
                             /\ pending \in EventId'
    BY <1>1, <1>2, <2>1 DEF EventId, Appended
  <2> QED
    BY <2>1, <2>2, <2>3 DEF UndoSound, IsEdit, IsUndo
<1> QED
  BY <1>4, <1>5, <1>6

(* A new event that fits refers to what it says it does.                      *)
LEMMA NewEventIsSound ==
  ASSUME InductiveInvariant, NEW e \in EventRecord, Fits(e), NEW n \in Nat, Appended(e, n)
  PROVE  RefersBack(n)' /\ ParentSound(n)' /\ UndoSound(n)'
<1> DEFINE o == e.object
<1>1. /\ o \in Object /\ e.parent \in Nat /\ e.source \in Nat /\ e.pending \in Nat
      /\ e.kind \in {"create", "update", "undo", "redo"}
  BY DEF EventRecord
<1>2. /\ log'[n] = e /\ \A j \in 1 .. n - 1 : log'[j] = log[j]
      /\ EventId = 1 .. n - 1 /\ EventId' = 1 .. n
  BY DEF Appended, EventId, InductiveInvariant, Typed
<1>3. e.kind # "create" => Exists(o) /\ e.before = Current(o) /\ e.parent = objects[o].head
  BY DEF Fits
<1>4. e.parent < n
  <2>1. e.kind = "create" => e.parent = NoEvent
    BY DEF Fits
  <2>2. e.kind # "create" => e.parent \in EventId
    BY <1>1, <1>3, HeadsAndUndos
  <2>3. n > 0
    BY DEF Appended, InductiveInvariant, Typed
  <2> QED
    BY <2>1, <2>2, <2>3, <1>2 DEF NoEvent
<1>5. CASE e.kind \in {"create", "update"}
  <2>1. e.source = NoEvent /\ e.pending = NoEvent /\ n > 0
    BY <1>5 DEF Fits, Appended, InductiveInvariant, Typed
  <2>2. e.before # Absent => e.kind # "create"
    BY DEF Fits
  <2>3. e.before # Absent => /\ e.parent \in 1 .. n - 1 /\ IsEdit(e.parent) /\ log[e.parent].object = o
                             /\ Same(log[e.parent].after, e.before)
    BY <2>2, <1>1, <1>2, <1>3, HeadsAndUndos
  <2>4. ParentSound(n)'
    BY <2>3, <1>2 DEF ParentSound, IsEdit, Same
  <2>5. RefersBack(n)'
    BY <2>1, <1>2, <1>4 DEF RefersBack, Appended, NoEvent
  <2>6. UndoSound(n)'
    BY <1>2, <1>5 DEF UndoSound
  <2> QED
    BY <2>4, <2>5, <2>6
<1>6. CASE e.kind = "undo"
  <2>1. /\ Exists(o) /\ e.source = objects[o].head /\ e.pending = objects[o].redo
        /\ log[e.source].before # Absent
    BY <1>6 DEF Fits
  <2>2. /\ e.source \in 1 .. n - 1 /\ IsEdit(e.source) /\ log[e.source].object = o
    BY <2>1, <1>1, <1>2, HeadsAndUndos
  <2>3. e.pending # NoEvent => /\ e.pending \in 1 .. n - 1 /\ IsUndo(e.pending, o)
                               /\ log[e.pending].source \in 1 .. n - 1
                               /\ log[log[e.pending].source].parent = e.source
    <3>1. objects[o].redo # NoEvent =>
            /\ IsUndo(objects[o].redo, o) /\ log[objects[o].redo].source \in EventId
            /\ log[log[objects[o].redo].source].parent = objects[o].head
      BY <2>1, <1>1, HeadsAndUndos
    <3> QED
      BY <2>1, <3>1, <1>2 DEF IsUndo
  <2>4. RefersBack(n)'
    BY <2>2, <2>3, <1>1, <1>2, <1>4 DEF RefersBack, Appended, NoEvent
  <2>5. ParentSound(n)'
    BY <1>2, <1>6 DEF ParentSound, IsEdit
  <2>6. log'[e.source] = log[e.source]
    BY <2>2, <1>2
  <2>7. e.pending # NoEvent => /\ log'[e.pending] = log[e.pending] /\ e.pending \in EventId'
                               /\ log'[log[e.pending].source] = log[log[e.pending].source]
    BY <2>3, <1>2
  <2>8. UndoSound(n)'
    BY <2>1, <2>2, <2>3, <2>6, <2>7, <1>2 DEF UndoSound, IsEdit, IsUndo
  <2> QED
    BY <2>4, <2>5, <2>8
<1>7. CASE e.kind = "redo"
  <2>1. /\ Exists(o) /\ objects[o].redo # NoEvent /\ e.source = log[objects[o].redo].source
        /\ e.pending = NoEvent
    BY <1>7 DEF Fits
  <2>2. e.source \in 1 .. n - 1
    BY <2>1, <1>1, <1>2, HeadsAndUndos
  <2>3. RefersBack(n)'
    BY <2>1, <2>2, <1>1, <1>2, <1>4 DEF RefersBack, Appended, NoEvent
  <2> QED
    BY <2>3, <1>2, <1>7 DEF ParentSound, UndoSound, IsEdit
<1> QED
  BY <1>1, <1>5, <1>6, <1>7

(* The cursors of one object, as CursorsAreSound and HeadsAreEdits say.       *)
CursorsOf(o) ==
  Exists(o) =>
    LET head == objects[o].head
        redo == objects[o].redo
    IN  /\ head \in EventId /\ log[head].object = o /\ Same(log[head].after, Current(o))
        /\ IsEdit(head)
        /\ redo # NoEvent => IsUndo(redo, o) /\ log[log[redo].source].parent = head

(* The cursors of an object that has a new event. An undo leaves the head at the   *)
(* parent of the old head, which is where a redo of that undo sets out from.       *)
LEMMA CursorsOfChanged ==
  ASSUME InductiveInvariant, NEW e \in EventRecord, Fits(e), NEW n \in Nat, Appended(e, n),
         objects'[e.object] =
           [value |-> e.after, head |-> HeadAfter(e, n), redo |-> RedoAfter(e, n)]
  PROVE  CursorsOf(e.object)'
<1> DEFINE o == e.object
<1>1. o \in Object /\ e.kind \in {"create", "update", "undo", "redo"} /\ e.after \in Value
  BY DEF EventRecord
<1>2. /\ log'[n] = e /\ n \in EventId' /\ \A j \in EventId : log'[j] = log[j] /\ j \in EventId'
  BY DEF Appended, EventId, InductiveInvariant, Typed
<1>3. /\ Current(o)' = e.after /\ objects'[o].head = HeadAfter(e, n) /\ objects'[o].redo = RedoAfter(e, n)
  BY DEF Current
<1>4. CASE e.kind \in {"create", "update"}
  <2>1. objects'[o].head = n /\ objects'[o].redo = NoEvent
    BY <1>3, <1>4, CursorsAfter
  <2> QED
    BY <2>1, <1>2, <1>3, <1>4 DEF CursorsOf, IsEdit, Same
<1>5. CASE e.kind = "undo"
  <2>1. objects'[o].head = log[e.source].parent /\ objects'[o].redo = n
    BY <1>3, <1>5, CursorsAfter
  <2>2. /\ Exists(o) /\ e.source = objects[o].head /\ log[e.source].before # Absent
        /\ Same(e.after, log[e.source].before)
    BY <1>5 DEF Fits
  <2>3. /\ e.source \in EventId /\ log[e.source].parent \in EventId /\ IsEdit(log[e.source].parent)
        /\ log[log[e.source].parent].object = o
        /\ Same(log[log[e.source].parent].after, log[e.source].before)
    <3> DEFINE head == objects[o].head
    <3>1. Exists(o) /\ log[head].before # Absent
      BY <2>2
    <3>2. /\ head \in EventId /\ log[head].parent \in EventId /\ IsEdit(log[head].parent)
          /\ log[log[head].parent].object = o
          /\ Same(log[log[head].parent].after, log[head].before)
      BY <3>1, <1>1, HeadsAndUndos
    <3> QED
      BY <3>2, <2>2
  <2>4. Same(log[log[e.source].parent].after, e.after)
    BY <2>2, <2>3 DEF Same
  <2> QED
    BY <2>1, <2>3, <2>4, <1>2, <1>3, <1>5 DEF CursorsOf, IsEdit, IsUndo, Same
<1>6. CASE e.kind = "redo"
  <2> DEFINE undo == objects[o].redo
  <2>1. objects'[o].head = e.source /\ objects'[o].redo = log[undo].pending
    BY <1>3, <1>6, CursorsAfter
  <2>2. /\ Exists(o) /\ undo # NoEvent /\ e.source = log[undo].source
        /\ Same(e.after, log[e.source].after)
    BY <1>6 DEF Fits
  <2>3. /\ e.source \in EventId /\ IsEdit(e.source) /\ log[e.source].object = o
        /\ undo \in EventId
        /\ log[undo].pending # NoEvent =>
             IsUndo(log[undo].pending, o) /\ log[log[log[undo].pending].source].parent = e.source
    BY <2>2, <1>1, HeadsAndUndos DEF IsUndo
  <2>4. log[undo].pending # NoEvent => log[log[undo].pending].source \in EventId
    <3>1. UndoSound(undo) /\ log[undo].kind = "undo"
      BY <2>2, <2>3, <1>1, HeadsAndUndos DEF InductiveInvariant, LogSound, IsUndo
    <3>2. Len(log) \in Nat
      BY DEF InductiveInvariant, Typed
    <3>3. log[undo].pending # NoEvent => log[log[undo].pending].source \in 1 .. undo - 1
      BY <3>1 DEF UndoSound
    <3> QED
      BY <2>3, <3>2, <3>3, EarlierEvents
  <2>5. Same(log[e.source].after, e.after)
    BY <2>2 DEF Same
  <2> QED
    BY <2>1, <2>3, <2>4, <2>5, <1>2, <1>3 DEF CursorsOf, IsEdit, IsUndo, Same
<1> QED
  BY <1>1, <1>4, <1>5, <1>6

(* The cursors of the objects a commit leaves alone stay sound.              *)
LEMMA CursorsOfOthers ==
  ASSUME InductiveInvariant, NEW e \in EventRecord, NEW n \in Nat, Appended(e, n),
         NEW o \in Object, objects'[o] = objects[o]
  PROVE  CursorsOf(o)'
<1> SUFFICES ASSUME Exists(o) PROVE CursorsOf(o)'
  BY DEF CursorsOf, Exists
<1>1. \A j \in EventId : log'[j] = log[j] /\ j \in EventId'
  BY DEF Appended, EventId, InductiveInvariant, Typed
<1>2. /\ objects[o].head \in EventId /\ log[objects[o].head].object = o
      /\ IsEdit(objects[o].head) /\ Same(log[objects[o].head].after, Current(o))
      /\ objects[o].redo # NoEvent =>
           /\ IsUndo(objects[o].redo, o) /\ log[objects[o].redo].source \in EventId
           /\ log[log[objects[o].redo].source].parent = objects[o].head
  BY HeadsAndUndos
<1>3. Current(o)' = Current(o)
  BY DEF Current
<1> QED
  BY <1>1, <1>2, <1>3 DEF CursorsOf, IsEdit, IsUndo, Same

(* A new snapshot either shows what its object showed or has a revision that no    *)
(* snapshot had before.                                                            *)
LEMMA CommitKeepsRevisions ==
  ASSUME InductiveInvariant, NEW e \in EventRecord, Fits(e), Commit(<<e>>), NEW n \in Nat,
         Appended(e, n)
  PROVE  RevisionNamesContent' /\ LogIsOlder'
<1>1. /\ log'[n] = e /\ n \in EventId' /\ \A j \in EventId : log'[j] = log[j]
      /\ \A j : j \in EventId' <=> j \in EventId \/ j = n
  BY DEF Appended, EventId, InductiveInvariant, Typed
<1>2. /\ e.object \in Object /\ e.after \in Value /\ Current(e.object)' = e.after
      /\ \A o \in Object : Exists(o) => Exists(o)' /\ Older(Current(o), Current(o)')
      /\ objects' \in [Object -> Row \cup {Absent}] /\ Exists(e.object)'
  BY CommitForward DEF EventRecord
<1>3. ASSUME NEW i \in EventId, NEW q, q = log[i].object
      PROVE  /\ q \in Object /\ log[i].after \in Value /\ objects'[q].value \in Value
             /\ Older(log[i].after, objects'[q].value)
  <2>1. log[i] \in EventRecord
    BY DEF EventId, InductiveInvariant, Typed
  <2>2. q \in Object /\ log[i].after \in Value
    BY <2>1, <1>3 DEF EventRecord
  <2>3. Exists(q) /\ Older(log[i].after, Current(q))
    BY <1>3 DEF InductiveInvariant, LogSound, RefersBack, LogIsOlder
  <2>4. Current(q) \in Value
    BY <2>2, <2>3, ValuesExist DEF InductiveInvariant
  <2>5. Exists(q)' /\ Older(Current(q), Current(q)')
    BY <1>2, <2>2, <2>3
  <2>6. objects'[q].value \in Value /\ Current(q)' = objects'[q].value
    BY <1>2, <2>2, <2>5 DEF Exists, Current, Row
  <2>7. Older(log[i].after, objects'[q].value)
    BY <2>2, <2>3, <2>4, <2>5, <2>6, OlderTransitive
  <2> QED
    BY <2>2, <2>6, <2>7
<1>4. LogIsOlder'
  <2> SUFFICES ASSUME NEW i \in EventId', NEW q, q = log'[i].object
               PROVE  Older(log'[i].after, objects'[q].value)
    BY DEF LogIsOlder, Current
  <2>1. CASE i \in EventId
    BY <2>1, <1>1, <1>3
  <2>2. CASE i = n
    <3>1. log'[i] = e /\ q = e.object /\ objects'[q].value = e.after
      BY <2>2, <1>1, <1>2 DEF Current
    <3> QED
      BY <3>1, <1>2, OlderReflexive
  <2> QED
    BY <2>1, <2>2, <1>1
<1>5. ASSUME NEW i \in EventId, log[i].object = e.object
      PROVE  /\ log[i].after.sem = e.after.sem => log[i].after.content = e.after.content
             /\ log[i].after.lay = e.after.lay => log[i].after.layout = e.after.layout
  <2>1. objects'[e.object].value = e.after
    BY <1>2 DEF Current
  <2>2. Older(log[i].after, e.after)
    BY <2>1, <1>3, <1>5
  <2> QED
    BY <2>2 DEF Older
<1>6. RevisionNamesContent'
  <2> SUFFICES ASSUME NEW i \in EventId', NEW j \in EventId', log'[i].object = log'[j].object
               PROVE  /\ log'[i].after.sem = log'[j].after.sem => log'[i].after.content = log'[j].after.content
                      /\ log'[i].after.lay = log'[j].after.lay => log'[i].after.layout = log'[j].after.layout
    BY DEF RevisionNamesContent
  <2>1. CASE i \in EventId /\ j \in EventId
    <3>1. log'[i] = log[i] /\ log'[j] = log[j]
      BY <2>1, <1>1
    <3>2. RevisionNamesContent
      BY DEF InductiveInvariant
    <3> QED
      BY <2>1, <3>1, <3>2 DEF RevisionNamesContent
  <2>2. CASE i \in EventId /\ j = n
    BY <2>2, <1>1, <1>5
  <2>3. CASE i = n /\ j \in EventId
    BY <2>3, <1>1, <1>5
  <2>4. CASE i = n /\ j = n
    BY <2>4
  <2> QED
    BY <2>1, <2>2, <2>3, <2>4, <1>1
<1> QED
  BY <1>4, <1>6

(* A client that is answered the new value keeps copies that are not ahead.        *)
LEMMA AnsweredIsOlder ==
  ASSUME InductiveInvariant, NEW c \in Client, NEW o \in Object, NEW v \in Value,
         Answered(c, o, v), Exists(o)', Current(o)' = v,
         \A q \in Object : Exists(q) => Exists(q)' /\ Older(Current(q), Current(q)'),
         objects' \in [Object -> Row \cup {Absent}]
  PROVE  held' \in [Client -> [Object -> Value \cup {Absent}]] /\ HeldIsOlder'
<1>1. /\ held \in [Client -> [Object -> Value \cup {Absent}]]
      /\ held' = [held EXCEPT ![c][o] = v]
  BY DEF InductiveInvariant, Typed, Answered
<1>2. held' \in [Client -> [Object -> Value \cup {Absent}]]
  BY <1>1
<1>3. HeldIsOlder'
  <2> SUFFICES ASSUME NEW d \in Client, NEW q \in Object, held'[d][q] # Absent
               PROVE  Exists(q)' /\ Older(held'[d][q], Current(q)')
    BY DEF HeldIsOlder
  <2>1. CASE d = c /\ q = o
    BY <2>1, <1>1, OlderReflexive
  <2>2. CASE ~(d = c /\ q = o)
    <3>1. held'[d][q] = held[d][q]
      BY <2>2, <1>1
    <3>2. Exists(q) /\ Older(held[d][q], Current(q)) /\ held[d][q] \in Value
      BY <3>1, <1>1 DEF InductiveInvariant, HeldIsOlder
    <3>3. Exists(q)' /\ Older(Current(q), Current(q)') /\ Current(q) \in Value
      BY <3>2, ValuesExist DEF InductiveInvariant
    <3>4. Current(q)' \in Value
      BY <3>3 DEF Exists, Current, Row
    <3> QED
      BY <3>1, <3>2, <3>3, <3>4, OlderTransitive
  <2> QED
    BY <2>1, <2>2
<1> QED
  BY <1>2, <1>3

(* Committing an event that fits, and answering what its object now shows, keeps   *)
(* the invariant.                                                                  *)
LEMMA CommitKeeps ==
  ASSUME InductiveInvariant, NEW e \in EventRecord, Fits(e), Commit(<<e>>), NEW c \in Client,
         Answered(c, e.object, e.after)
  PROVE  InductiveInvariant'
<1> PICK n \in Nat : /\ Appended(e, n)
                     /\ objects'[e.object] =
                          [value |-> e.after, head |-> HeadAfter(e, n), redo |-> RedoAfter(e, n)]
  BY CommitAppends
<1>1. /\ e.object \in Object /\ e.after \in Value /\ Exists(e.object)' /\ Current(e.object)' = e.after
      /\ \A o \in Object : Exists(o) => Exists(o)' /\ Older(Current(o), Current(o)')
      /\ \A o \in Object : o # e.object => objects'[o] = objects[o]
      /\ objects' \in [Object -> Row \cup {Absent}]
  BY CommitForward DEF EventRecord
<1>2. /\ log' \in Seq(EventRecord) /\ \A j : j \in EventId' <=> j \in EventId \/ j = n
  BY CommitOne DEF Appended, EventId, InductiveInvariant, Typed
<1>3. LogSound'
  <2>1. \A i \in EventId : RefersBack(i)' /\ ParentSound(i)' /\ UndoSound(i)'
    BY OldEventsStaySound
  <2>2. RefersBack(n)' /\ ParentSound(n)' /\ UndoSound(n)'
    BY NewEventIsSound
  <2> QED
    BY <2>1, <2>2, <1>2 DEF LogSound
<1>4. CursorsAreSound' /\ HeadsAreEdits'
  <2>1. ASSUME NEW o \in Object PROVE CursorsOf(o)'
    <3>1. CASE o = e.object
      <4>1. CursorsOf(e.object)'
        BY CursorsOfChanged
      <4> QED
        BY <4>1, <3>1
    <3>2. CASE o # e.object
      BY <3>2, <1>1, CursorsOfOthers
    <3> QED
      BY <3>1, <3>2
  <2> QED
    BY <2>1 DEF CursorsAreSound, HeadsAreEdits, CursorsOf, IsUndo
<1>5. RevisionNamesContent' /\ LogIsOlder'
  BY CommitKeepsRevisions
<1>6. held' \in [Client -> [Object -> Value \cup {Absent}]] /\ HeldIsOlder'
  BY <1>1, AnsweredIsOlder
<1> QED
  BY <1>1, <1>2, <1>3, <1>4, <1>5, <1>6 DEF InductiveInvariant, Typed

------------------------------------------------------------------------------
(* The four requests commit events that fit.                                  *)
LEMMA CreationFits ==
  ASSUME InductiveInvariant, NEW c \in Client, NEW o \in Object, NEW p \in Proposal, ~Exists(o)
  PROVE  /\ Creation(o, p, c) \in EventRecord /\ Fits(Creation(o, p, c))
         /\ Creation(o, p, c).object = o /\ Creation(o, p, c).after = Fresh(p)
<1>1. Fresh(p) \in Value
  BY ProposalAssumption DEF Fresh, Value
<1> QED
  BY <1>1 DEF Creation, Event, EventRecord, Fits, NoEvent

(* The event of an update fits the rows it replaces.                         *)
LEMMA UpdateFits ==
  ASSUME InductiveInvariant, NEW c \in Client, NEW o \in Object, NEW p \in Proposal, Exists(o),
         NEW semantic \in BOOLEAN, NEW layout \in BOOLEAN
  PROVE  LET e == Change(o, "update", p, semantic, layout, c)
         IN  /\ e \in EventRecord /\ Fits(e) /\ e.object = o
             /\ e.after = Merged(Current(o), p, semantic, layout)
<1> DEFINE v == Merged(Current(o), p, semantic, layout)
           e == Change(o, "update", p, semantic, layout, c)
<1>1. Current(o) \in Value /\ objects[o].head \in Nat
  BY ValuesExist DEF InductiveInvariant
<1>2. v \in Value /\ Older(Current(o), v)
  BY <1>1, ProposalAssumption DEF Merged, Bump, Value, Older
<1> HIDE DEF v
<1>3. e = [object |-> o, kind |-> "update", parent |-> objects[o].head, before |-> Current(o),
           after |-> v, source |-> NoEvent, pending |-> NoEvent, actor |-> c]
  BY DEF Change, Event, v
<1> HIDE DEF e
<1>4. e \in EventRecord
  BY <1>1, <1>2, <1>3 DEF EventRecord, NoEvent
<1>5. Fits(e)
  BY <1>2, <1>3 DEF Fits
<1> QED
  BY <1>3, <1>4, <1>5 DEF e, v

(* A snapshot put back is a new value of its object.                          *)
LEMMA RestoredIsNewer ==
  ASSUME NEW v \in Value, NEW t \in Value
  PROVE  Restored(v, t) \in Value /\ Older(v, Restored(v, t)) /\ Same(Restored(v, t), t)
BY DEF Restored, Bump, Value, Older, Same

(* The event of an undo fits the rows it replaces.                           *)
LEMMA UndoFits ==
  ASSUME InductiveInvariant, NEW c \in Client, NEW o \in Object, Exists(o), CanUndo(o)
  PROVE  UndoOf(o, c) \in EventRecord /\ Fits(UndoOf(o, c)) /\ UndoOf(o, c).object = o
<1> DEFINE t == log[objects[o].head].before
           v == Restored(Current(o), t)
           e == UndoOf(o, c)
<1>1. Current(o) \in Value /\ objects[o].head \in Nat /\ objects[o].redo \in Nat
  BY ValuesExist DEF InductiveInvariant
<1>2. t # Absent /\ objects[o].head \in EventId
  BY HeadsAndUndos DEF CanUndo, UndoSource
<1>3. log[objects[o].head] \in EventRecord
  BY <1>2 DEF EventId, InductiveInvariant, Typed
<1>4. t \in Value
  BY <1>2, <1>3 DEF EventRecord
<1>5. v \in Value /\ Older(Current(o), v) /\ Same(v, t)
  BY <1>1, <1>4, RestoredIsNewer
<1>6. e = [object |-> o, kind |-> "undo", parent |-> objects[o].head, before |-> Current(o),
           after |-> v, source |-> objects[o].head, pending |-> objects[o].redo, actor |-> c]
  BY DEF UndoOf, Event, UndoSource
<1> HIDE DEF e, v
<1>7. e \in EventRecord
  BY <1>1, <1>5, <1>6 DEF EventRecord
<1>8. Fits(e)
  BY <1>2, <1>5, <1>6 DEF Fits
<1> QED
  BY <1>6, <1>7, <1>8 DEF e

(* The event of a redo fits the rows it replaces.                            *)
LEMMA RedoFits ==
  ASSUME InductiveInvariant, NEW c \in Client, NEW o \in Object, Exists(o), CanRedo(o)
  PROVE  RedoOf(o, c) \in EventRecord /\ Fits(RedoOf(o, c)) /\ RedoOf(o, c).object = o
<1> DEFINE source == log[objects[o].redo].source
           t == log[source].after
           v == Restored(Current(o), t)
           e == RedoOf(o, c)
<1>1. Current(o) \in Value /\ objects[o].head \in Nat
  BY ValuesExist DEF InductiveInvariant
<1>2. objects[o].redo # NoEvent /\ source \in EventId
  BY HeadsAndUndos DEF CanRedo
<1>3. log[source] \in EventRecord /\ source \in Nat
  BY <1>2 DEF EventId, InductiveInvariant, Typed
<1>4. t \in Value
  BY <1>3 DEF EventRecord
<1>5. v \in Value /\ Older(Current(o), v) /\ Same(v, t)
  BY <1>1, <1>4, RestoredIsNewer
<1>6. e = [object |-> o, kind |-> "redo", parent |-> objects[o].head, before |-> Current(o),
           after |-> v, source |-> source, pending |-> NoEvent, actor |-> c]
  BY DEF RedoOf, Event, RedoSource
<1> HIDE DEF e, v
<1>7. e \in EventRecord
  BY <1>1, <1>3, <1>5, <1>6 DEF EventRecord, NoEvent
<1>8. Fits(e)
  BY <1>2, <1>5, <1>6 DEF Fits
<1> QED
  BY <1>6, <1>7, <1>8 DEF e

------------------------------------------------------------------------------
(* The invariant holds before the first edit.                                *)
LEMMA InitEstablishes == Init => InductiveInvariant
<1> SUFFICES ASSUME Init PROVE InductiveInvariant
  OBVIOUS
<1>1. Len(log) = 0 /\ EventId = {} /\ log \in Seq(EventRecord)
  BY DEF Init, EventId
<1>2. \A o \in Object : ~Exists(o)
  BY DEF Init, Exists
<1>3. Typed
  BY <1>1 DEF Init, Typed
<1>4. HeldIsOlder
  BY DEF Init, HeldIsOlder
<1> QED
  BY <1>1, <1>2, <1>3, <1>4
  DEF InductiveInvariant, LogSound, CursorsAreSound, HeadsAreEdits, RevisionNamesContent, LogIsOlder

(* What is said of the rows and the log alone survives a step that writes neither. *)
LEMMA SameHistory ==
  ASSUME InductiveInvariant, objects' = objects, log' = log
  PROVE  LogSound' /\ CursorsAreSound' /\ HeadsAreEdits' /\ RevisionNamesContent' /\ LogIsOlder'
<1>1. \A i : EventId' = EventId /\ (IsEdit(i) <=> IsEdit(i)') /\ (RefersBack(i) <=> RefersBack(i)')
  BY DEF EventId, IsEdit, RefersBack, Exists
<1>2. \A i : (ParentSound(i) <=> ParentSound(i)') /\ (UndoSound(i) <=> UndoSound(i)')
  BY DEF ParentSound, UndoSound, IsUndo, IsEdit, Same, EventId
<1>3. LogSound' /\ HeadsAreEdits'
  BY <1>1, <1>2 DEF InductiveInvariant, LogSound, HeadsAreEdits, Exists
<1>4. CursorsAreSound'
  BY DEF InductiveInvariant, CursorsAreSound, Same, EventId, Exists, Current
<1>5. RevisionNamesContent' /\ LogIsOlder'
  BY DEF InductiveInvariant, RevisionNamesContent, LogIsOlder, Older, EventId, Current
<1> QED
  BY <1>3, <1>4, <1>5

(* Reading an object only adds to what a client has seen.                    *)
LEMMA FetchKeeps ==
  ASSUME InductiveInvariant, NEW c \in Client, NEW o \in Object, Fetch(c, o)
  PROVE  InductiveInvariant'
<1>1. objects' = objects /\ log' = log
  BY DEF Fetch, historyVars
<1>2. Exists(o) /\ Current(o) \in Value /\ Answered(c, o, Current(o))
  BY ValuesExist DEF Fetch, InductiveInvariant
<1>3. Exists(o)' /\ Current(o)' = Current(o) /\ objects' \in [Object -> Row \cup {Absent}]
  BY <1>1, <1>2 DEF Exists, Current, InductiveInvariant, Typed
<1>4. ASSUME NEW q \in Object, Exists(q) PROVE Exists(q)' /\ Older(Current(q), Current(q)')
  <2>1. Exists(q)' /\ Current(q)' = Current(q)
    BY <1>1, <1>4 DEF Exists, Current
  <2> QED
    BY <2>1, <1>4, ValuesExist, OlderReflexive DEF InductiveInvariant
<1>5. held' \in [Client -> [Object -> Value \cup {Absent}]] /\ HeldIsOlder'
  BY <1>2, <1>3, <1>4, AnsweredIsOlder
<1>6. LogSound' /\ CursorsAreSound' /\ HeadsAreEdits' /\ RevisionNamesContent' /\ LogIsOlder'
  BY <1>1, SameHistory DEF InductiveInvariant
<1> QED
  BY <1>1, <1>5, <1>6 DEF InductiveInvariant, Typed

(* No step of a client breaks the invariant.                                 *)
LEMMA StepKeeps == InductiveInvariant /\ [Next]_vars => InductiveInvariant'
<1> SUFFICES ASSUME InductiveInvariant, [Next]_vars PROVE InductiveInvariant'
  OBVIOUS
<1>1. ASSUME NEW c \in Client, NEW o \in Object, Fetch(c, o) PROVE InductiveInvariant'
  BY <1>1, FetchKeeps
<1>2. ASSUME NEW c \in Client, NEW o \in Object, NEW p \in Proposal, Create(c, o, p)
      PROVE  InductiveInvariant'
  BY <1>2, CreationFits, CommitKeeps DEF Create
<1>3. ASSUME NEW c \in Client, NEW o \in Object, NEW p \in Proposal,
             NEW semantic \in BOOLEAN, NEW layout \in BOOLEAN, Update(c, o, p, semantic, layout)
      PROVE  InductiveInvariant'
  BY <1>3, UpdateFits, CommitKeeps DEF Update
<1>4. ASSUME NEW c \in Client, NEW o \in Object, Undo(c, o) PROVE InductiveInvariant'
  BY <1>4, UndoFits, CommitKeeps DEF Undo
<1>5. ASSUME NEW c \in Client, NEW o \in Object, Redo(c, o) PROVE InductiveInvariant'
  BY <1>5, RedoFits, CommitKeeps DEF Redo
<1>6. CASE UNCHANGED vars
  <2>1. objects' = objects /\ log' = log /\ held' = held
    BY <1>6 DEF vars, historyVars
  <2>2. LogSound' /\ CursorsAreSound' /\ HeadsAreEdits' /\ RevisionNamesContent' /\ LogIsOlder'
    BY <2>1, SameHistory DEF InductiveInvariant
  <2>3. Typed' /\ HeldIsOlder'
    BY <2>1 DEF InductiveInvariant, Typed, HeldIsOlder, Older, Exists, Current
  <2> QED
    BY <2>2, <2>3 DEF InductiveInvariant
<1> QED
  BY <1>1, <1>2, <1>3, <1>4, <1>5, <1>6 DEF Next

(* The invariant holds of every reachable state, for any objects and clients  *)
(* of ModelWorkspaceRepository and a log of any length.                       *)
THEOREM Invariance == Spec => []InductiveInvariant
BY InitEstablishes, StepKeeps, PTL DEF Spec

(* Every variable keeps its type, and events refer back.                      *)
THEOREM TypeCorrect == Spec => []TypeOK
<1>1. InductiveInvariant => TypeOK
  <2> SUFFICES ASSUME InductiveInvariant PROVE TypeOK
    OBVIOUS
  <2>1. \A o \in Object : Exists(o) => /\ objects[o].head \in EventId
                                       /\ objects[o].redo \in EventId \cup {NoEvent}
    BY DEF InductiveInvariant, CursorsAreSound
  <2>2. \A i \in EventId : log[i].parent < i /\ log[i].source < i /\ log[i].pending < i
    BY DEF InductiveInvariant, LogSound, RefersBack
  <2> QED
    BY <2>1, <2>2 DEF InductiveInvariant, Typed, TypeOK
<1> QED
  BY <1>1, Invariance, PTL

(* A revision number of an object never stands for two contents or layouts:   *)
(* what _check_expected compares is what the client saw.                      *)
THEOREM RevisionsNameContents == Spec => []RevisionNamesContent
<1>1. InductiveInvariant => RevisionNamesContent
  BY DEF InductiveInvariant
<1> QED
  BY <1>1, Invariance, PTL

(* The undo and redo cursors of an object always point at events of its own   *)
(* that say what it shows and what followed.                                  *)
THEOREM CursorsSound == Spec => []CursorsAreSound
<1>1. InductiveInvariant => CursorsAreSound
  BY DEF InductiveInvariant
<1> QED
  BY <1>1, Invariance, PTL

(* A copy with the current revision of a channel is current in that channel.  *)
LEMMA ExpectedIsCurrent ==
  ASSUME InductiveInvariant, NEW c \in Client, NEW o \in Object, NEW semantic, NEW layout,
         Expected(c, o, semantic, layout)
  PROVE  /\ semantic => held[c][o].content = Current(o).content
         /\ layout => held[c][o].layout = Current(o).layout
<1>1. held[c][o] # Absent
  BY DEF Expected
<1>2. Older(held[c][o], Current(o))
  BY <1>1 DEF InductiveInvariant, HeldIsOlder
<1> QED
  BY <1>2 DEF Expected, Older

(* What it takes for a committed event to be informed, as EditsAreInformed says. *)
LEMMA CommittedIsInformed ==
  ASSUME InductiveInvariant, NEW e \in EventRecord, Commit(<<e>>),
         e.kind # "create" =>
           /\ e.after.content # e.before.content => held[e.actor][e.object].content = e.before.content
           /\ e.after.layout # e.before.layout => held[e.actor][e.object].layout = e.before.layout
  PROVE  \A i \in Len(log) + 1 .. Len(log') :
           LET d == log'[i]
               seen == held[d.actor][d.object]
           IN  d.kind # "create" =>
                 /\ d.after.content # d.before.content => seen.content = d.before.content
                 /\ d.after.layout # d.before.layout => seen.layout = d.before.layout
<1>1. Len(log') = Len(log) + 1 /\ log'[Len(log) + 1] = e /\ Len(log) + 1 \in Nat
  BY CommitOne DEF InductiveInvariant
<1>2. \A i \in Len(log) + 1 .. Len(log') : i = Len(log) + 1
  BY <1>1
<1> QED
  BY <1>1, <1>2

(* No edit, undo or redo replaces a content or a layout its client had not seen. *)
THEOREM EditsInformed == Spec => EditsAreInformed
<1> DEFINE Informed ==
      \A i \in Len(log) + 1 .. Len(log') :
        LET d == log'[i]
            seen == held[d.actor][d.object]
        IN  d.kind # "create" =>
              /\ d.after.content # d.before.content => seen.content = d.before.content
              /\ d.after.layout # d.before.layout => seen.layout = d.before.layout
<1>1. InductiveInvariant /\ [Next]_vars => [Informed]_vars
  <2> SUFFICES ASSUME InductiveInvariant, Next PROVE Informed
    OBVIOUS
  <2>1. ASSUME NEW c \in Client, NEW o \in Object, Fetch(c, o) PROVE Informed
    <3>1. log' = log /\ Len(log) \in Nat
      BY <2>1 DEF Fetch, historyVars, InductiveInvariant, Typed
    <3> QED
      BY <3>1
  <2>2. ASSUME NEW c \in Client, NEW o \in Object, NEW p \in Proposal, Create(c, o, p) PROVE Informed
    <3> DEFINE e == Creation(o, p, c)
    <3>1. e \in EventRecord /\ Commit(<<e>>)
      BY <2>2, CreationFits DEF Create
    <3>2. e.kind = "create"
      BY DEF Creation, Event
    <3> QED
      BY <3>1, <3>2, CommittedIsInformed
  <2>3. ASSUME NEW c \in Client, NEW o \in Object, NEW p \in Proposal,
               NEW semantic \in BOOLEAN, NEW layout \in BOOLEAN, Update(c, o, p, semantic, layout)
        PROVE  Informed
    <3> DEFINE e == Change(o, "update", p, semantic, layout, c)
    <3>1. e \in EventRecord /\ Commit(<<e>>)
      BY <2>3, UpdateFits DEF Update
    <3>2. /\ e.actor = c /\ e.object = o /\ e.before = Current(o)
          /\ e.after = Merged(Current(o), p, semantic, layout)
      BY DEF Change, Event
    <3>3. /\ semantic => held[c][o].content = Current(o).content
          /\ layout => held[c][o].layout = Current(o).layout
      BY <2>3, ExpectedIsCurrent DEF Update
    <3>4. /\ ~semantic => e.after.content = e.before.content
          /\ ~layout => e.after.layout = e.before.layout
      BY <3>2 DEF Merged
    <3> HIDE DEF e
    <3> QED
      BY <3>1, <3>2, <3>3, <3>4, CommittedIsInformed
  <2>4. ASSUME NEW c \in Client, NEW o \in Object, Undo(c, o) PROVE Informed
    <3> DEFINE e == UndoOf(o, c)
    <3>1. e \in EventRecord /\ Commit(<<e>>)
      BY <2>4, UndoFits DEF Undo
    <3>2. e.actor = c /\ e.object = o /\ e.before = Current(o)
      BY DEF UndoOf, Event
    <3>3. held[c][o].content = Current(o).content /\ held[c][o].layout = Current(o).layout
      BY <2>4, ExpectedIsCurrent DEF Undo
    <3> HIDE DEF e
    <3> QED
      BY <3>1, <3>2, <3>3, CommittedIsInformed
  <2>5. ASSUME NEW c \in Client, NEW o \in Object, Redo(c, o) PROVE Informed
    <3> DEFINE e == RedoOf(o, c)
    <3>1. e \in EventRecord /\ Commit(<<e>>)
      BY <2>5, RedoFits DEF Redo
    <3>2. e.actor = c /\ e.object = o /\ e.before = Current(o)
      BY DEF RedoOf, Event
    <3>3. held[c][o].content = Current(o).content /\ held[c][o].layout = Current(o).layout
      BY <2>5, ExpectedIsCurrent DEF Redo
    <3> HIDE DEF e
    <3> QED
      BY <3>1, <3>2, <3>3, CommittedIsInformed
  <2> QED
    BY <2>1, <2>2, <2>3, <2>4, <2>5 DEF Next
<1>2. Spec => [][Informed]_vars
  BY <1>1, Invariance, PTL DEF Spec
<1> QED
  BY <1>2 DEF EditsAreInformed

------------------------------------------------------------------------------
(* Recursion along the log: the log is a chain of references to earlier events, *)
(* and induction over it is the choice of a least counterexample.               *)

(* A set of natural numbers has a least element. *)
LEMMA LeastNumber ==
  ASSUME NEW T \in SUBSET Nat, T # {}
  PROVE  \E n \in T : \A m \in T : n <= m
<1> DEFINE R == {ss \in Nat \X Nat : ss[1] < ss[2]}
<1>1. OpToRel(<, Nat) = R
  BY DEF OpToRel
<1>2. PICK n \in T : \A m \in T : <<m, n>> \notin R
  <2> HIDE DEF R
  <2>1. IsWellFoundedOn(R, Nat)
    BY <1>1, NatLessThanWellFounded
  <2> QED
    BY <2>1, WFMin
<1>3. ASSUME NEW m \in T PROVE n <= m
  <2>1. m \in Nat /\ n \in Nat /\ <<m, n>> \in Nat \X Nat
    OBVIOUS
  <2>2. <<m, n>>[1] = m /\ <<m, n>>[2] = n
    OBVIOUS
  <2>3. ~ (m < n)
    BY <1>2, <2>1, <2>2
  <2> QED
    BY <2>1, <2>3
<1> QED
  BY <1>3

\* The first n positions refer to earlier ones, or to none.
Earlier(ref, n) == \A i \in 1 .. n : ref[i] \in 0 .. i - 1

\* f takes its value at a position from the one at the position it refers to.
Unfolds(f, w, ref, g, n) == f[0] = w /\ \A i \in 1 .. n : f[i] = g[i][f[ref[i]]]

\* f and h are equal wherever they are equal at the position referred to.
Inherits(f, h, ref, n) ==
  f[0] = h[0] /\ \A i \in 1 .. n : f[ref[i]] = h[ref[i]] => f[i] = h[i]

(* What is so from zero on, whenever it is so of an earlier number, is so of all. *)
LEMMA AllUpTo ==
  ASSUME NEW n \in Nat, NEW T \in SUBSET (0 .. n), 0 \in T,
         NEW ref, \A i \in 1 .. n : ref[i] \in 0 .. i - 1 /\ (ref[i] \in T => i \in T)
  PROVE  T = 0 .. n
<1> SUFFICES ASSUME (0 .. n) \ T # {} PROVE FALSE
  OBVIOUS
<1>1. PICK k \in (0 .. n) \ T : \A m \in (0 .. n) \ T : k <= m
  <2>1. (0 .. n) \ T \in SUBSET Nat
    OBVIOUS
  <2> QED
    BY <2>1, LeastNumber
<1>2. k \in 1 .. n
  OBVIOUS
<1>3. ref[k] \in 0 .. k - 1 /\ ref[k] \in 0 .. n
  BY <1>2
<1>4. ref[k] \notin T
  BY <1>2
<1> QED
  BY <1>1, <1>3, <1>4

(* A function of natural numbers can be defined from its earlier values. *)
LEMMA RecursionExists ==
  ASSUME NEW n \in Nat, NEW W, NEW w \in W, NEW ref, NEW g,
         Earlier(ref, n), \A i \in 1 .. n : g[i] \in [W -> W]
  PROVE  \E f \in [0 .. n -> W] : Unfolds(f, w, ref, g, n)
<1>0. \A i \in 1 .. n : ref[i] \in 0 .. i - 1 /\ g[i] \in [W -> W]
  BY DEF Earlier
<1> DEFINE Defines(f, k) == f[0] = w /\ \A i \in 1 .. k : f[i] = g[i][f[ref[i]]]
           Defined(k) == \E f \in [0 .. k -> W] : Defines(f, k)
           T == {k \in 0 .. n : Defined(k)}
<1>1. Defined(0)
  <2> DEFINE h == [i \in 0 .. 0 |-> w]
  <2>1. h \in [0 .. 0 -> W] /\ Defines(h, 0)
    OBVIOUS
  <2> HIDE DEF h, Defines
  <2> QED
    BY <2>1
<1>2. ASSUME NEW i \in 1 .. n, Defined(i - 1) PROVE Defined(i)
  <2>1. PICK f \in [0 .. i - 1 -> W] : Defines(f, i - 1)
    BY <1>2
  <2> DEFINE h == [j \in 0 .. i |-> IF j = i THEN g[i][f[ref[i]]] ELSE f[j]]
  <2>2. ref[i] \in 0 .. i - 1 /\ g[i] \in [W -> W]
    BY <1>0
  <2>3. g[i][f[ref[i]]] \in W
    BY <2>1, <2>2
  <2>4. h \in [0 .. i -> W]
    BY <2>3
  <2>5. \A j \in 0 .. i - 1 : h[j] = f[j]
    OBVIOUS
  <2>6. h[i] = g[i][h[ref[i]]]
    BY <2>2, <2>5
  <2>7. ASSUME NEW j \in 1 .. i - 1 PROVE h[j] = g[j][h[ref[j]]]
    <3>1. ref[j] \in 0 .. j - 1 /\ ref[j] \in 0 .. i - 1
      BY <1>0
    <3>2. h[j] = f[j] /\ h[ref[j]] = f[ref[j]]
      BY <2>5, <3>1
    <3> QED
      BY <2>1, <3>2
  <2>8. h[0] = w
    BY <2>1, <2>5
  <2> HIDE DEF h
  <2>9. Defines(h, i)
    BY <2>6, <2>7, <2>8
  <2> QED
    <3> HIDE DEF Defines
    <3> QED
      BY <2>4, <2>9
<1>3. T = 0 .. n
  <2> DEFINE before == [i \in 1 .. n |-> i - 1]
  <2> HIDE DEF Defined
  <2>1. \A i \in 1 .. n : before[i] = i - 1 /\ i - 1 \in 0 .. i - 1 /\ i - 1 \in 0 .. n
    OBVIOUS
  <2>2. \A i \in 1 .. n : before[i] \in 0 .. i - 1 /\ (before[i] \in T => i \in T)
    BY <1>2, <2>1
  <2>3. T \in SUBSET (0 .. n) /\ 0 \in T
    BY <1>1
  <2> HIDE DEF T, before
  <2> QED
    BY <2>2, <2>3, AllUpTo
<1>4. Defined(n)
  <2> HIDE DEF Defined
  <2> QED
    BY <1>3
<1> QED
  BY <1>4 DEF Unfolds

(* Two functions that are defined alike from their earlier values are equal. *)
LEMMA RecursionUnique ==
  ASSUME NEW n \in Nat, NEW f, NEW h, NEW ref, Earlier(ref, n), Inherits(f, h, ref, n)
  PROVE  \A i \in 0 .. n : f[i] = h[i]
<1> DEFINE T == {i \in 0 .. n : f[i] = h[i]}
<1>1. T \in SUBSET (0 .. n) /\ 0 \in T
  BY DEF Inherits
<1>2. \A i \in 1 .. n : ref[i] \in 0 .. i - 1 /\ (ref[i] \in T => i \in T)
  BY DEF Earlier, Inherits
<1>3. T = 0 .. n
  <2> HIDE DEF T
  <2> QED
    BY <1>1, <1>2, AllUpTo
<1> QED
  BY <1>3

\* Every event of a log refers to earlier ones.
Chained(events) ==
  /\ Len(events) \in Nat
  /\ \A i \in 1 .. Len(events) :
       LET e == events[i]
       IN  e.parent \in 0 .. i - 1 /\ e.source \in 0 .. i - 1 /\ e.pending \in 0 .. i - 1

\* What events may say.
Texts(events) == {Text(events[i]) : i \in Nat}

(* The equations of Back.                                                     *)
LEMMA BackEquations ==
  ASSUME NEW events, Chained(events)
  PROVE  /\ Back(events) \in [0 .. Len(events) -> Seq(Texts(events))]
         /\ Back(events)[0] = <<>>
         /\ \A i \in 1 .. Len(events) :
              Back(events)[i] = Append(Back(events)[events[i].parent], Text(events[i]))
<1> DEFINE n == Len(events)
           W == Seq(Texts(events))
           ref == [i \in 1 .. n |-> events[i].parent]
           g == [i \in 1 .. n |-> [w \in W |-> Append(w, Text(events[i]))]]
           Step(f) == [i \in 0 .. n |-> IF i = NoEvent THEN <<>>
                                         ELSE Append(f[events[i].parent], Text(events[i]))]
<1>1. n \in Nat /\ <<>> \in W
  BY DEF Chained
<1>2. Earlier(ref, n) /\ \A i \in 1 .. n : Text(events[i]) \in Texts(events)
  BY <1>1 DEF Chained, Texts, Earlier
<1>3. ASSUME NEW i \in 1 .. n
      PROVE  g[i] \in [W -> W] /\ \A w \in W : g[i][w] = Append(w, Text(events[i]))
  <2>1. \A w \in W : Append(w, Text(events[i])) \in W
    <3>1. PICK S, t : S = Texts(events) /\ t = Text(events[i])
      OBVIOUS
    <3>2. t \in S
      BY <1>2, <3>1
    <3> QED
      BY <3>1, <3>2
  <2>2. g[i] = [w \in W |-> Append(w, Text(events[i]))]
    OBVIOUS
  <2> HIDE DEF g, W
  <2> QED
    BY <2>1, <2>2
<1>4. PICK f \in [0 .. n -> W] : Unfolds(f, <<>>, ref, g, n)
  <2> HIDE DEF n, W, ref, g
  <2> QED
    BY <1>1, <1>2, <1>3, RecursionExists
<1>5. \A i \in 1 .. n : f[i] = Append(f[events[i].parent], Text(events[i]))
  <2> TAKE i \in 1 .. n
  <2>1. ref[i] \in 0 .. n /\ ref[i] = events[i].parent
    BY <1>1, <1>2 DEF Earlier
  <2> HIDE DEF ref, g, W
  <2> QED
    BY <1>3, <1>4, <2>1 DEF Unfolds
<1>6. f = Step(f)
  <2>1. f[0] = <<>>
    BY <1>4 DEF Unfolds
  <2> HIDE DEF W
  <2> QED
    BY <1>1, <1>4, <1>5, <2>1 DEF NoEvent
<1>7. Back(events) = Step(Back(events))
  <2>1. Back(events) = CHOOSE h : h = Step(h)
    BY DEF Back
  <2> HIDE DEF Step
  <2> QED
    BY <1>6, <2>1
<1>8. /\ Back(events)[0] = <<>>
      /\ \A i \in 1 .. n : Back(events)[i] = Append(Back(events)[events[i].parent], Text(events[i]))
  <2> DEFINE b == Back(events)
  <2>1. \A i \in 0 .. n : b[i] = IF i = NoEvent THEN <<>>
                                   ELSE Append(b[events[i].parent], Text(events[i]))
    <3>1. \A i \in 0 .. n : Step(b)[i] = IF i = NoEvent THEN <<>>
                                   ELSE Append(b[events[i].parent], Text(events[i]))
      OBVIOUS
    <3> HIDE DEF Step, b
    <3> QED
      BY <1>7, <3>1 DEF b
  <2> HIDE DEF b
  <2>2. 0 \in 0 .. n /\ \A i \in 1 .. n : i \in 0 .. n /\ i # 0
    BY <1>1
  <2> HIDE DEF n
  <2>3. /\ b[0] = <<>>
        /\ \A i \in 1 .. n : b[i] = Append(b[events[i].parent], Text(events[i]))
    BY <2>1, <2>2 DEF NoEvent
  <2> QED
    BY <2>3 DEF b
<1>9. \A i \in 0 .. n : Back(events)[i] = f[i]
  <2> DEFINE b == Back(events)
  <2>1. \A i \in 1 .. n : ref[i] = events[i].parent
    OBVIOUS
  <2> HIDE DEF g, W, ref, n, b
  <2>2. \A i \in 1 .. n : b[ref[i]] = f[ref[i]] => b[i] = f[i]
    BY <1>5, <1>8, <2>1 DEF b
  <2>3. Inherits(b, f, ref, n)
    BY <1>4, <1>8, <2>2 DEF b, Inherits, Unfolds
  <2>4. \A i \in 0 .. n : b[i] = f[i]
    BY <1>1, <1>2, <2>3, RecursionUnique
  <2> QED
    BY <2>4 DEF b
<1>10. Back(events) \in [0 .. n -> W]
  <2>1. DOMAIN Back(events) = 0 .. n /\ Back(events) = [i \in 0 .. n |-> Back(events)[i]]
    <3>1. DOMAIN Step(Back(events)) = 0 .. n
      OBVIOUS
    <3>2. Step(Back(events)) = [i \in 0 .. n |-> Step(Back(events))[i]]
      OBVIOUS
    <3> HIDE DEF Step
    <3> QED
      BY <1>7, <3>1, <3>2
  <2> HIDE DEF W, n
  <2> QED
    BY <1>4, <1>9, <2>1
<1> QED
  BY <1>8, <1>10

\* What an undo i puts before the rest of what redo would bring back.
More(events, i, rest) ==
  IF events[i].source = NoEvent THEN <<>> ELSE <<Text(events[events[i].source])>> \o rest

(* The equations of Ahead.                                                    *)
LEMMA AheadEquations ==
  ASSUME NEW events, Chained(events)
  PROVE  /\ Ahead(events) \in [0 .. Len(events) -> Seq(Texts(events))]
         /\ Ahead(events)[0] = <<>>
         /\ \A i \in 1 .. Len(events) :
              Ahead(events)[i] = More(events, i, Ahead(events)[events[i].pending])
<1> DEFINE n == Len(events)
           W == Seq(Texts(events))
           ref == [i \in 1 .. n |-> events[i].pending]
           g == [i \in 1 .. n |-> [w \in W |-> More(events, i, w)]]
           Step(f) == [i \in 0 .. n |->
                         IF i = NoEvent \/ events[i].source = NoEvent THEN <<>>
                         ELSE <<Text(events[events[i].source])>> \o f[events[i].pending]]
<1>1. n \in Nat /\ <<>> \in W
  BY DEF Chained
<1>2. Earlier(ref, n)
  BY <1>1 DEF Chained, Earlier
<1>3. ASSUME NEW i \in 1 .. n
      PROVE  g[i] \in [W -> W] /\ \A w \in W : g[i][w] = More(events, i, w)
  <2>1. \A w \in W : More(events, i, w) \in W
    <3>1. PICK S, t : S = Texts(events) /\ t = Text(events[events[i].source])
      OBVIOUS
    <3>2. t \in S
      <4>1. events[i].source \in Nat
        BY <1>1 DEF Chained
      <4> QED
        BY <4>1, <3>1 DEF Texts
    <3>3. \A w \in Seq(S) : <<t>> \o w \in Seq(S) /\ <<>> \in Seq(S)
      BY <3>2
    <3> QED
      BY <3>1, <3>3 DEF More
  <2>2. g[i] = [w \in W |-> More(events, i, w)]
    OBVIOUS
  <2> HIDE DEF g, W
  <2> QED
    BY <2>1, <2>2
<1>4. PICK f \in [0 .. n -> W] : Unfolds(f, <<>>, ref, g, n)
  <2> HIDE DEF n, W, ref, g
  <2> QED
    BY <1>1, <1>2, <1>3, RecursionExists
<1>5. \A i \in 1 .. n : f[i] = More(events, i, f[events[i].pending])
  <2> TAKE i \in 1 .. n
  <2>1. ref[i] \in 0 .. n /\ ref[i] = events[i].pending
    BY <1>1, <1>2 DEF Earlier
  <2> HIDE DEF ref, g, W
  <2> QED
    BY <1>3, <1>4, <2>1 DEF Unfolds
<1>6. f = Step(f)
  <2>1. f[0] = <<>>
    BY <1>4 DEF Unfolds
  <2>2. \A i \in 0 .. n : f[i] = IF i = NoEvent THEN <<>>
                                   ELSE More(events, i, f[events[i].pending])
    <3> HIDE DEF n, W, ref, g, Step
    <3> TAKE i \in 0 .. n
    <3>1. n \in Nat /\ NoEvent = 0
      BY <1>1 DEF NoEvent, n
    <3>2. CASE i = 0
      BY <2>1, <3>1, <3>2
    <3>3. CASE i # 0
      <4>1. i \in 1 .. n /\ i # NoEvent
        BY <3>1, <3>3
      <4> QED
        BY <1>5, <4>1
    <3> QED
      BY <3>2, <3>3
  <2>3. \A i \in 0 .. n : Step(f)[i] = IF i = NoEvent THEN <<>>
                                         ELSE More(events, i, f[events[i].pending])
    BY DEF More
  <2>4. Step(f) = [i \in 0 .. n |-> Step(f)[i]]
    OBVIOUS
  <2>5. f = [i \in 0 .. n |-> f[i]]
    BY <1>4
  <2> HIDE DEF W, Step
  <2> QED
    BY <2>2, <2>3, <2>4, <2>5
<1>7. Ahead(events) = Step(Ahead(events))
  <2>1. Ahead(events) = CHOOSE h : h = Step(h)
    BY DEF Ahead
  <2> HIDE DEF Step
  <2> QED
    BY <1>6, <2>1
<1>8. /\ Ahead(events)[0] = <<>>
      /\ \A i \in 1 .. n : Ahead(events)[i] = More(events, i, Ahead(events)[events[i].pending])
  <2> DEFINE b == Ahead(events)
  <2>1. \A i \in 0 .. n : b[i] = IF i = NoEvent THEN <<>>
                                   ELSE More(events, i, b[events[i].pending])
    <3>1. \A i \in 0 .. n : Step(b)[i] = IF i = NoEvent THEN <<>>
                                   ELSE More(events, i, b[events[i].pending])
      BY DEF More
    <3> HIDE DEF Step, b
    <3> QED
      BY <1>7, <3>1 DEF b
  <2> HIDE DEF b
  <2>2. 0 \in 0 .. n /\ \A i \in 1 .. n : i \in 0 .. n /\ i # 0
    BY <1>1
  <2> HIDE DEF n
  <2>3. /\ b[0] = <<>>
        /\ \A i \in 1 .. n : b[i] = More(events, i, b[events[i].pending])
    BY <2>1, <2>2 DEF NoEvent
  <2> QED
    BY <2>3 DEF b
<1>9. \A i \in 0 .. n : Ahead(events)[i] = f[i]
  <2> DEFINE b == Ahead(events)
  <2>1. \A i \in 1 .. n : ref[i] = events[i].pending
    OBVIOUS
  <2> HIDE DEF g, W, ref, n, b
  <2>2. \A i \in 1 .. n : b[ref[i]] = f[ref[i]] => b[i] = f[i]
    BY <1>5, <1>8, <2>1 DEF b
  <2>3. Inherits(b, f, ref, n)
    BY <1>4, <1>8, <2>2 DEF b, Inherits, Unfolds
  <2>4. \A i \in 0 .. n : b[i] = f[i]
    BY <1>1, <1>2, <2>3, RecursionUnique
  <2> QED
    BY <2>4 DEF b
<1>10. Ahead(events) \in [0 .. n -> W]
  <2>1. DOMAIN Ahead(events) = 0 .. n /\ Ahead(events) = [i \in 0 .. n |-> Ahead(events)[i]]
    <3>1. DOMAIN Step(Ahead(events)) = 0 .. n
      OBVIOUS
    <3>2. Step(Ahead(events)) = [i \in 0 .. n |-> Step(Ahead(events))[i]]
      OBVIOUS
    <3> HIDE DEF Step
    <3> QED
      BY <1>7, <3>1, <3>2
  <2> HIDE DEF W, n
  <2> QED
    BY <1>4, <1>9, <2>1
<1> QED
  BY <1>8, <1>10

(* Later events take nothing from what the past of an event shows.            *)
LEMMA BackStays ==
  ASSUME NEW events, NEW later, Chained(events), Chained(later), Len(events) <= Len(later),
         \A i \in 1 .. Len(events) : later[i] = events[i]
  PROVE  \A i \in 0 .. Len(events) : Back(later)[i] = Back(events)[i]
<1> DEFINE n == Len(events)
           ref == [i \in 1 .. n |-> events[i].parent]
           f == Back(later)
           h == Back(events)
<1>1. n \in Nat /\ Len(later) \in Nat
  BY DEF Chained
<1>2. Earlier(ref, n)
  BY <1>1 DEF Chained, Earlier
<1>3. f[0] = <<>> /\ h[0] = <<>>
  BY BackEquations
<1>4. ASSUME NEW i \in 1 .. n, f[ref[i]] = h[ref[i]] PROVE f[i] = h[i]
  <2>1. i \in 1 .. Len(later) /\ ref[i] = events[i].parent /\ later[i] = events[i]
    BY <1>1
  <2>2. f[i] = Append(f[later[i].parent], Text(later[i]))
    BY <2>1, BackEquations
  <2>3. h[i] = Append(h[events[i].parent], Text(events[i]))
    BY BackEquations
  <2> HIDE DEF f, h, ref
  <2> QED
    BY <1>4, <2>1, <2>2, <2>3
<1> HIDE DEF f, h, ref, n
<1>5. Inherits(f, h, ref, n)
  BY <1>3, <1>4 DEF Inherits
<1>6. \A i \in 0 .. n : f[i] = h[i]
  BY <1>1, <1>2, <1>5, RecursionUnique
<1> QED
  BY <1>6 DEF f, h, n

(* Nor from what redo would bring back.                                       *)
LEMMA AheadStays ==
  ASSUME NEW events, NEW later, Chained(events), Chained(later), Len(events) <= Len(later),
         \A i \in 1 .. Len(events) : later[i] = events[i]
  PROVE  \A i \in 0 .. Len(events) : Ahead(later)[i] = Ahead(events)[i]
<1> DEFINE n == Len(events)
           ref == [i \in 1 .. n |-> events[i].pending]
           f == Ahead(later)
           h == Ahead(events)
<1>1. n \in Nat /\ Len(later) \in Nat
  BY DEF Chained
<1>2. Earlier(ref, n)
  BY <1>1 DEF Chained, Earlier
<1>3. f[0] = <<>> /\ h[0] = <<>>
  BY AheadEquations
<1>4. ASSUME NEW i \in 1 .. n, f[ref[i]] = h[ref[i]] PROVE f[i] = h[i]
  <2>1. i \in 1 .. Len(later) /\ ref[i] = events[i].pending /\ later[i] = events[i]
    BY <1>1
  <2>2. f[i] = More(later, i, f[later[i].pending])
    BY <2>1, AheadEquations
  <2>3. h[i] = More(events, i, h[events[i].pending])
    BY AheadEquations
  <2>4. events[i].source # NoEvent => events[i].source \in 1 .. n
    BY <1>1 DEF Chained, NoEvent
  <2>5. \A rest : More(later, i, rest) = More(events, i, rest)
    BY <2>1, <2>4 DEF More
  <2> HIDE DEF f, h, ref, n
  <2> QED
    BY <1>4, <2>1, <2>2, <2>3, <2>5
<1> HIDE DEF f, h, ref, n
<1>5. Inherits(f, h, ref, n)
  BY <1>3, <1>4 DEF Inherits
<1>6. \A i \in 0 .. n : f[i] = h[i]
  BY <1>1, <1>2, <1>5, RecursionUnique
<1> QED
  BY <1>6 DEF f, h, n

------------------------------------------------------------------------------
(* Each request moves one timeline, as undo and redo promise.                 *)

(* Events that refer back form a chain.                                       *)
LEMMA EventsChain ==
  ASSUME NEW events \in Seq(EventRecord),
         \A i \in 1 .. Len(events) :
           events[i].parent < i /\ events[i].source < i /\ events[i].pending < i
  PROVE  Chained(events)
<1>1. ASSUME NEW i \in 1 .. Len(events)
      PROVE  /\ events[i].parent \in 0 .. i - 1 /\ events[i].source \in 0 .. i - 1
             /\ events[i].pending \in 0 .. i - 1
  <2>1. events[i] \in EventRecord /\ i \in Nat
    OBVIOUS
  <2>2. events[i].parent \in Nat /\ events[i].source \in Nat /\ events[i].pending \in Nat
    BY <2>1 DEF EventRecord
  <2> QED
    BY <2>1, <2>2
<1> QED
  BY <1>1 DEF Chained

(* The log of a sound state is such a chain.                                  *)
LEMMA LogIsChained == ASSUME InductiveInvariant PROVE Chained(log)
<1>1. log \in Seq(EventRecord)
  BY DEF InductiveInvariant, Typed
<1>2. \A i \in 1 .. Len(log) : log[i].parent < i /\ log[i].source < i /\ log[i].pending < i
  BY DEF InductiveInvariant, LogSound, RefersBack, EventId
<1> QED
  BY <1>1, <1>2, EventsChain

\* later is the log with events added to its end.
Extends(later) ==
  /\ Chained(later) /\ Len(log) <= Len(later)
  /\ \A i \in 1 .. Len(log) : later[i] = log[i]

(* After a step the log is a chain that extends the one before.               *)
LEMMA LogGrows ==
  ASSUME InductiveInvariant, NEW e \in EventRecord, Fits(e), Commit(<<e>>), InductiveInvariant'
  PROVE  Extends(log')
<1>1. PICK h : h = log'
  OBVIOUS
<1>2. Chained(h)
  <2>1. h \in Seq(EventRecord)
    BY <1>1 DEF InductiveInvariant, Typed
  <2>2. \A i \in 1 .. Len(h) : h[i].parent < i /\ h[i].source < i /\ h[i].pending < i
    BY <1>1 DEF InductiveInvariant, LogSound, RefersBack, EventId
  <2> QED
    BY <2>1, <2>2, EventsChain
<1>3. Typed /\ Len(log) \in Nat
  BY DEF InductiveInvariant, Typed
<1>4. Len(log') = Len(log) + 1 /\ \A i \in 1 .. Len(log) : log'[i] = log[i]
  BY <1>3, CommitOne
<1>5. Extends(h)
  BY <1>1, <1>2, <1>3, <1>4 DEF Extends
<1> QED
  BY <1>1, <1>5

(* What there was of pasts and futures reads the same in a longer log.        *)
LEMMA HistoriesStay ==
  ASSUME Chained(log), NEW later, Extends(later)
  PROVE  \A i \in 0 .. Len(log) : Back(later)[i] = Back(log)[i] /\ Ahead(later)[i] = Ahead(log)[i]
<1>1. PICK events : events = log
  OBVIOUS
<1>2. /\ Chained(events) /\ Chained(later) /\ Len(events) <= Len(later)
      /\ \A i \in 1 .. Len(events) : later[i] = events[i]
  BY <1>1 DEF Extends
<1>3. \A i \in 0 .. Len(events) : Back(later)[i] = Back(events)[i]
  BY <1>2, BackStays
<1>4. \A i \in 0 .. Len(events) : Ahead(later)[i] = Ahead(events)[i]
  BY <1>2, AheadStays
<1> QED
  BY <1>1, <1>3, <1>4

(* What an object shows is the last of its past, and creation the first.      *)
LEMMA PastAndFuture ==
  ASSUME InductiveInvariant, NEW o \in Object
  PROVE  /\ Past(o) \in Seq(Texts(log)) /\ Future(o) \in Seq(Texts(log))
         /\ ~Exists(o) => Past(o) = <<>> /\ Future(o) = <<>>
         /\ Exists(o) => /\ objects[o].head \in 1 .. Len(log) /\ objects[o].redo \in 0 .. Len(log)
                         /\ Past(o) = Back(log)[objects[o].head]
                         /\ Future(o) = Ahead(log)[objects[o].redo]
<1>1. Chained(log) /\ Len(log) \in Nat
  BY LogIsChained DEF Chained
<1>2. PICK events : events = log
  OBVIOUS
<1>3. /\ Back(events) \in [0 .. Len(events) -> Seq(Texts(events))]
      /\ Ahead(events) \in [0 .. Len(events) -> Seq(Texts(events))]
  BY <1>1, <1>2, BackEquations, AheadEquations
<1>4. Exists(o) => objects[o].head \in 1 .. Len(log) /\ objects[o].redo \in 0 .. Len(log)
  BY <1>1 DEF InductiveInvariant, CursorsAreSound, EventId, NoEvent
<1>5. \A i \in 0 .. Len(log) : Back(log)[i] \in Seq(Texts(log)) /\ Ahead(log)[i] \in Seq(Texts(log))
  BY <1>2, <1>3
<1>6. PICK S : S = Texts(log)
  OBVIOUS
<1>7. <<>> \in Seq(S) /\ \A i \in 1 .. Len(log) : i \in 0 .. Len(log)
  BY <1>1
<1> QED
  BY <1>4, <1>5, <1>6, <1>7 DEF Past, Future

\* A committed event, of a request that found the rows sound and leaves them so.
Committed(e) ==
  e \in EventRecord /\ Fits(e) /\ Commit(<<e>>) /\ InductiveInvariant /\ InductiveInvariant'

(* A commit leaves the pasts and futures of other objects, and gives its own  *)
(* object those its new cursors name in the log there was, or the event's own.*)
LEMMA HistoriesAfter ==
  ASSUME NEW e, Committed(e)
  PROVE  /\ \A q \in Object : q # e.object => Past(q)' = Past(q) /\ Future(q)' = Future(q)
         /\ e.kind \in {"create", "update"} =>
              Past(e.object)' = Append(Back(log)[e.parent], Text(e)) /\ Future(e.object)' = <<>>
         /\ e.kind = "undo" =>
              /\ Past(e.object)' = Back(log)[log[e.source].parent]
              /\ Future(e.object)' = <<Text(log[e.source])>> \o Ahead(log)[e.pending]
         /\ e.kind = "redo" =>
              /\ Past(e.object)' = Back(log)[e.source]
              /\ Future(e.object)' = Ahead(log)[log[objects[e.object].redo].pending]
<1>1. /\ e \in EventRecord /\ Fits(e) /\ Commit(<<e>>) /\ InductiveInvariant /\ InductiveInvariant'
      /\ e.object \in Object /\ Typed
  BY DEF Committed, EventRecord, InductiveInvariant
<1>2. PICK h : h = log'
  OBVIOUS
<1>3. Extends(h) /\ Chained(log) /\ Chained(h) /\ Len(log) \in Nat
  BY <1>1, <1>2, LogGrows, LogIsChained DEF Extends, Chained
<1>4. \A i \in 0 .. Len(log) : Back(h)[i] = Back(log)[i] /\ Ahead(h)[i] = Ahead(log)[i]
  BY <1>3, HistoriesStay
<1>5. \A q \in Object : /\ Past(q)' = IF Exists(q)' THEN Back(h)[objects'[q].head] ELSE <<>>
                        /\ Future(q)' = IF Exists(q)' THEN Ahead(h)[objects'[q].redo] ELSE <<>>
  BY <1>2 DEF Past, Future
<1>6. PICK n \in Nat : /\ Appended(e, n)
                       /\ objects'[e.object] =
                            [value |-> e.after, head |-> HeadAfter(e, n), redo |-> RedoAfter(e, n)]
  BY <1>1, CommitAppends
<1>7. /\ n \in 1 .. Len(h) /\ h[n] = e /\ Exists(e.object)' /\ n # NoEvent /\ n = Len(log) + 1
      /\ \A i \in 1 .. Len(log) : h[i] = log[i]
  BY <1>2, <1>3, <1>6 DEF Appended, NoEvent
<1>8. /\ Past(e.object)' = Back(h)[HeadAfter(e, n)]
      /\ Future(e.object)' = Ahead(h)[RedoAfter(e, n)]
  BY <1>1, <1>5, <1>6, <1>7
<1>9. /\ e.parent \in 0 .. Len(log) /\ e.source \in 0 .. Len(log) /\ e.pending \in 0 .. Len(log)
      /\ Back(h)[n] = Append(Back(h)[e.parent], Text(e))
      /\ Ahead(h)[n] = More(h, n, Ahead(h)[e.pending])
      /\ Ahead(h)[0] = <<>>
  <2>1. /\ e.parent \in 0 .. n - 1 /\ e.source \in 0 .. n - 1 /\ e.pending \in 0 .. n - 1
    BY <1>3, <1>7 DEF Chained
  <2>2. /\ Back(h)[n] = Append(Back(h)[h[n].parent], Text(h[n]))
        /\ Ahead(h)[n] = More(h, n, Ahead(h)[h[n].pending])
        /\ Ahead(h)[0] = <<>>
    BY <1>3, <1>7, BackEquations, AheadEquations
  <2> QED
    BY <1>3, <1>7, <2>1, <2>2
<1>10. ASSUME NEW q \in Object, q # e.object PROVE Past(q)' = Past(q) /\ Future(q)' = Future(q)
  <2>1. objects'[q] = objects[q] /\ (Exists(q)' <=> Exists(q))
    BY <1>1, <1>10, CommitForward DEF Exists
  <2>2. Exists(q) => objects[q].head \in 0 .. Len(log) /\ objects[q].redo \in 0 .. Len(log)
    BY <1>1, PastAndFuture
  <2> QED
    BY <1>4, <1>5, <2>1, <2>2 DEF Past, Future
<1>11. ASSUME e.kind \in {"create", "update"}
       PROVE  Past(e.object)' = Append(Back(log)[e.parent], Text(e)) /\ Future(e.object)' = <<>>
  <2>1. HeadAfter(e, n) = n /\ RedoAfter(e, n) = 0
    BY <1>11, CursorsAfter DEF NoEvent
  <2> QED
    BY <2>1, <1>4, <1>8, <1>9
<1>12. ASSUME e.kind = "undo"
       PROVE  /\ Past(e.object)' = Back(log)[log[e.source].parent]
              /\ Future(e.object)' = <<Text(log[e.source])>> \o Ahead(log)[e.pending]
  <2>1. HeadAfter(e, n) = log[e.source].parent /\ RedoAfter(e, n) = n
    BY <1>12, CursorsAfter
  <2>2. e.source \in 1 .. Len(log) /\ log[e.source].parent \in 0 .. Len(log)
    <3>1. Exists(e.object) /\ e.source = objects[e.object].head
      BY <1>1, <1>12 DEF Fits
    <3>2. e.source \in 1 .. Len(log)
      BY <1>1, <3>1, PastAndFuture
    <3> QED
      BY <1>3, <3>2 DEF Chained
  <2>3. More(h, n, Ahead(h)[e.pending]) = <<Text(log[e.source])>> \o Ahead(log)[e.pending]
    <3>1. h[n].source = e.source /\ e.source # NoEvent /\ h[h[n].source] = log[e.source]
      BY <1>7, <2>2 DEF NoEvent
    <3>2. Ahead(h)[e.pending] = Ahead(log)[e.pending]
      BY <1>4, <1>9
    <3> QED
      BY <3>1, <3>2 DEF More
  <2> QED
    BY <1>4, <1>8, <1>9, <2>1, <2>2, <2>3
<1>13. ASSUME e.kind = "redo"
       PROVE  /\ Past(e.object)' = Back(log)[e.source]
              /\ Future(e.object)' = Ahead(log)[log[objects[e.object].redo].pending]
  <2>1. /\ HeadAfter(e, n) = e.source
        /\ RedoAfter(e, n) = log[objects[e.object].redo].pending
    BY <1>13, CursorsAfter
  <2>2. log[objects[e.object].redo].pending \in 0 .. Len(log)
    <3>1. Exists(e.object) /\ objects[e.object].redo # 0
      BY <1>1, <1>13 DEF Fits, NoEvent
    <3>2. objects[e.object].redo \in 1 .. Len(log)
      BY <1>1, <1>3, <3>1, PastAndFuture
    <3> QED
      BY <1>3, <3>2 DEF Chained
  <2> QED
    BY <1>4, <1>8, <1>9, <2>1, <2>2
<1> QED
  BY <1>10, <1>11, <1>12, <1>13

(* A move of one timeline, said of the objects one by one.                    *)
LEMMA TimelineMoves ==
  ASSUME NEW o \in Object, NEW p, NEW f, Past(o)' = p, Future(o)' = f,
         \A q \in Object : q # o => Past(q)' = Past(q) /\ Future(q)' = Future(q)
  PROVE  Timeline!Move(o, p, f)
<1> DEFINE past == [q \in Object |-> Past(q)]
           future == [q \in Object |-> Future(q)]
<1>1. past' = [q \in Object |-> Past(q)'] /\ future' = [q \in Object |-> Future(q)']
  OBVIOUS
<1>2. past' = [past EXCEPT ![o] = p] /\ future' = [future EXCEPT ![o] = f]
  BY <1>1
<1> QED
  BY <1>2 DEF Timeline!Move

(* A sequence and one more element, at either end.                            *)
LEMMA Ends ==
  ASSUME NEW S, NEW p \in Seq(S), NEW x \in S
  PROVE  /\ Append(p, x) # <<>> /\ Append(p, x)[Len(Append(p, x))] = x
         /\ Len(Append(p, x)) = Len(p) + 1 /\ SubSeq(Append(p, x), 1, Len(p)) = p
         /\ <<x>> \o p # <<>> /\ Head(<<x>> \o p) = x /\ Tail(<<x>> \o p) = p
OBVIOUS

(* Creating or changing an object adds to its past and ends its future.       *)
LEMMA EditShows ==
  ASSUME NEW e, Committed(e), e.kind \in {"create", "update"}
  PROVE  Timeline!Show(e.object)
<1> DEFINE o == e.object
           p == Append(Past(o), Text(e))
<1>1. o \in Object /\ Fits(e) /\ InductiveInvariant /\ Chained(log)
  BY LogIsChained DEF Committed, EventRecord
<1>2. Past(o) = Back(log)[e.parent]
  <2>1. CASE e.kind = "create"
    <3>1. e.parent = 0 /\ ~Exists(o)
      BY <1>1, <2>1 DEF Fits, NoEvent
    <3>2. Back(log)[0] = <<>>
      BY <1>1, BackEquations
    <3> QED
      BY <1>1, <3>1, <3>2, PastAndFuture
  <2>2. CASE e.kind = "update"
    BY <1>1, <2>2, PastAndFuture DEF Fits
  <2> QED
    BY <2>1, <2>2
<1>3. /\ Past(o)' = p /\ Future(o)' = <<>>
      /\ \A q \in Object : q # o => Past(q)' = Past(q) /\ Future(q)' = Future(q)
  BY <1>2, HistoriesAfter
<1>4. p # <<>> /\ p[Len(p)] = Text(e)
  <2>1. PICK S, w, x : S = Texts(log) \cup {Text(e)} /\ w = Past(o) /\ x = Text(e)
    OBVIOUS
  <2>2. w \in Seq(S) /\ x \in S
    <3>1. w \in Seq(Texts(log))
      BY <1>1, <2>1, PastAndFuture
    <3>2. PICK T : T = Texts(log)
      OBVIOUS
    <3> QED
      BY <2>1, <3>1, <3>2
  <2> QED
    BY <2>1, <2>2, Ends
<1> HIDE DEF p
<1>5. Timeline!Move(o, p, <<>>)
  BY <1>1, <1>3, TimelineMoves
<1>6. [q \in Object |-> Past(q)]'[o] = p /\ [q \in Object |-> Past(q)][o] = Past(o)
  BY <1>1, <1>3
<1>7. Append([q \in Object |-> Past(q)][o],
             [q \in Object |-> Past(q)]'[o][Len([q \in Object |-> Past(q)]'[o])]) = p
  BY <1>4, <1>6 DEF p
<1> QED
  BY <1>4, <1>5, <1>6, <1>7 DEF Timeline!Show

(* What a head that is not its object's creation shows is the last of a past  *)
(* that goes on before it.                                                    *)
LEMMA PastOfChanged ==
  ASSUME InductiveInvariant, NEW o \in Object, Exists(o), log[objects[o].head].before # Absent
  PROVE  LET before == Back(log)[log[objects[o].head].parent]
             text   == Text(log[objects[o].head])
         IN  /\ before \in Seq(Texts(log)) /\ text \in Texts(log) /\ Len(before) > 0
             /\ Past(o) = Append(before, text)
<1> DEFINE head == objects[o].head
           parent == log[head].parent
<1>1. head \in 1 .. Len(log) /\ Past(o) = Back(log)[head] /\ Chained(log) /\ Len(log) \in Nat
  BY PastAndFuture, LogIsChained DEF Chained
<1>2. parent \in 1 .. Len(log) /\ log[parent].parent \in 0 .. Len(log)
  <2>1. parent \in 1 .. Len(log)
    BY HeadsAndUndos DEF EventId
  <2> QED
    BY <1>1, <2>1 DEF Chained
<1>3. PICK events, b, T : events = log /\ b = Back(events) /\ T = Texts(events)
  OBVIOUS
<1>4. /\ b \in [0 .. Len(log) -> Seq(T)]
      /\ \A i \in 1 .. Len(log) : b[i] = Append(b[log[i].parent], Text(log[i]))
  BY <1>1, <1>3, BackEquations
<1>5. Text(log[parent]) \in T /\ Text(log[head]) \in T
  BY <1>1, <1>2, <1>3 DEF Texts
<1>6. /\ b[head] = Append(b[parent], Text(log[head]))
      /\ b[parent] = Append(b[log[parent].parent], Text(log[parent]))
      /\ b[parent] \in Seq(T) /\ b[log[parent].parent] \in Seq(T)
  <2>1. \A i \in 1 .. Len(log) : b[i] = Append(b[log[i].parent], Text(log[i]))
    BY <1>4
  <2>2. b[head] = Append(b[parent], Text(log[head]))
    BY <1>1, <2>1
  <2>3. b[parent] = Append(b[log[parent].parent], Text(log[parent]))
    BY <1>2, <2>1
  <2>4. parent \in 0 .. Len(log) /\ log[parent].parent \in 0 .. Len(log)
    BY <1>2
  <2>5. \A i \in 0 .. Len(log) : b[i] \in Seq(T)
    BY <1>4
  <2> QED
    BY <2>2, <2>3, <2>4, <2>5
<1>7. Len(b[parent]) > 0
  <2>1. PICK w, x : w = b[log[parent].parent] /\ x = Text(log[parent])
    OBVIOUS
  <2>2. w \in Seq(T) /\ x \in T
    BY <1>5, <1>6, <2>1
  <2>3. Len(Append(w, x)) = Len(w) + 1 /\ Len(w) \in Nat
    BY <2>2, Ends
  <2>4. b[parent] = Append(w, x)
    BY <1>6, <2>1
  <2> QED
    BY <2>3, <2>4
<1> QED
  BY <1>1, <1>3, <1>5, <1>6, <1>7

(* Undo takes the last element of the past to the front of the future.        *)
LEMMA UndoRefines ==
  ASSUME NEW c \in Client, NEW o \in Object, Undo(c, o), InductiveInvariant, InductiveInvariant'
  PROVE  Timeline!Undo(o)
<1> DEFINE e == UndoOf(o, c)
           head == objects[o].head
           before == Back(log)[log[head].parent]
           text == Text(log[head])
<1>1. Exists(o) /\ CanUndo(o) /\ Committed(e) /\ e.object = o
  BY UndoFits DEF Undo, Committed
<1>2. e.kind = "undo" /\ e.source = head /\ e.pending = objects[o].redo
  BY DEF UndoOf, Event, UndoSource
<1>3. log[head].before # Absent
  BY <1>1 DEF CanUndo, UndoSource
<1>4. /\ before \in Seq(Texts(log)) /\ text \in Texts(log) /\ Len(before) > 0
      /\ Past(o) = Append(before, text)
  BY <1>1, <1>3, PastOfChanged
<1>5. Future(o) = Ahead(log)[objects[o].redo]
  BY <1>1, PastAndFuture
<1>6. /\ Past(o)' = before /\ Future(o)' = <<text>> \o Future(o)
      /\ \A q \in Object : q # o => Past(q)' = Past(q) /\ Future(q)' = Future(q)
  <2> HIDE DEF e
  <2> QED
    BY <1>1, <1>2, <1>5, HistoriesAfter
<1> HIDE DEF e, before, text
<1>7. Timeline!Move(o, before, <<text>> \o Future(o))
  BY <1>6, TimelineMoves
<1>8. PICK S, b, x : S = Texts(log) /\ b = before /\ x = text
  OBVIOUS
<1>9. /\ Len(b) \in Nat /\ Len(Append(b, x)) = Len(b) + 1 /\ Append(b, x)[Len(Append(b, x))] = x
      /\ SubSeq(Append(b, x), 1, Len(b)) = b
  <2>1. b \in Seq(S) /\ x \in S
    BY <1>4, <1>8
  <2> QED
    BY <2>1, Ends
<1>10. /\ Len(Past(o)) > 1 /\ SubSeq(Past(o), 1, Len(Past(o)) - 1) = before
       /\ Past(o)[Len(Past(o))] = text
  <2>1. Past(o) = Append(b, x) /\ Len(b) > 0
    BY <1>4, <1>8
  <2>2. Len(Past(o)) - 1 = Len(b) /\ Len(Past(o)) > 1
    BY <1>9, <2>1
  <2> QED
    BY <1>8, <1>9, <2>1, <2>2
<1>11. [q \in Object |-> Past(q)][o] = Past(o) /\ [q \in Object |-> Future(q)][o] = Future(o)
  OBVIOUS
<1> QED
  BY <1>7, <1>10, <1>11 DEF Timeline!Undo

(* Redo takes the first element of the future back to the past.               *)
LEMMA RedoRefines ==
  ASSUME NEW c \in Client, NEW o \in Object, Redo(c, o), InductiveInvariant, InductiveInvariant'
  PROVE  Timeline!Redo(o)
<1> DEFINE e == RedoOf(o, c)
           head == objects[o].head
           redo == objects[o].redo
           source == log[redo].source
           text == Text(log[source])
           rest == Ahead(log)[log[redo].pending]
<1>1. Exists(o) /\ CanRedo(o) /\ Committed(e) /\ e.object = o
  BY RedoFits DEF Redo, Committed
<1>2. e.kind = "redo" /\ e.source = source
  BY DEF RedoOf, Event, RedoSource
<1>3. /\ redo \in 1 .. Len(log) /\ source \in 1 .. Len(log) /\ log[source].parent = head
  BY <1>1, HeadsAndUndos DEF CanRedo, IsUndo, EventId
<1>4. Chained(log) /\ Past(o) = Back(log)[head] /\ Future(o) = Ahead(log)[redo]
  BY <1>1, PastAndFuture, LogIsChained
<1>5. PICK events : events = log
  OBVIOUS
<1>6. /\ Ahead(events) \in [0 .. Len(events) -> Seq(Texts(events))]
      /\ \A i \in 1 .. Len(events) : Ahead(events)[i] = More(events, i, Ahead(events)[events[i].pending])
      /\ \A i \in 1 .. Len(events) :
           Back(events)[i] = Append(Back(events)[events[i].parent], Text(events[i]))
  BY <1>4, <1>5, BackEquations, AheadEquations
<1>7. log[redo].pending \in 0 .. Len(log)
  BY <1>3, <1>4 DEF Chained
<1>8. /\ Back(log)[source] = Append(Past(o), text)
      /\ Future(o) = <<text>> \o rest
      /\ rest \in Seq(Texts(log)) /\ text \in Texts(log)
  <2>1. Back(log)[source] = Append(Past(o), text)
    <3>1. Back(events)[source] = Append(Back(events)[events[source].parent], Text(events[source]))
      BY <1>3, <1>5, <1>6
    <3> QED
      BY <1>3, <1>4, <1>5, <3>1
  <2>2. Future(o) = More(log, redo, rest)
    BY <1>3, <1>4, <1>5, <1>6
  <2>3. source # NoEvent
    BY <1>3 DEF NoEvent
  <2>4. More(log, redo, rest) = <<text>> \o rest
    BY <2>3 DEF More
  <2>5. rest \in Seq(Texts(log))
    BY <1>5, <1>6, <1>7
  <2>6. text \in Texts(log)
    BY <1>3 DEF Texts
  <2> QED
    BY <2>1, <2>2, <2>4, <2>5, <2>6
<1>9. /\ Past(o)' = Append(Past(o), text) /\ Future(o)' = rest
      /\ \A q \in Object : q # o => Past(q)' = Past(q) /\ Future(q)' = Future(q)
  <2> HIDE DEF e
  <2> QED
    BY <1>1, <1>2, <1>8, HistoriesAfter
<1> HIDE DEF e, text, rest
<1>10. Timeline!Move(o, Append(Past(o), text), rest)
  BY <1>9, TimelineMoves
<1>11. PICK S, r, x : S = Texts(log) /\ r = rest /\ x = text
  OBVIOUS
<1>12. <<x>> \o r # <<>> /\ Head(<<x>> \o r) = x /\ Tail(<<x>> \o r) = r
  <2>1. r \in Seq(S) /\ x \in S
    BY <1>8, <1>11
  <2> QED
    BY <2>1, Ends
<1>13. Future(o) # <<>> /\ Head(Future(o)) = text /\ Tail(Future(o)) = rest
  <2>1. Future(o) = <<x>> \o r
    BY <1>8, <1>11
  <2> QED
    BY <1>11, <1>12, <2>1
<1>14. [q \in Object |-> Past(q)][o] = Past(o) /\ [q \in Object |-> Future(q)][o] = Future(o)
  OBVIOUS
<1> QED
  BY <1>10, <1>13, <1>14 DEF Timeline!Redo

(* A step of a client moves one object's timeline, or none.                   *)
LEMMA StepRefines ==
  ASSUME InductiveInvariant, InductiveInvariant', [Next]_vars
  PROVE  [Timeline!Next]_(Timeline!vars)
<1>1. ASSUME objects' = objects, log' = log PROVE UNCHANGED Timeline!vars
  <2>1. PICK h : h = log'
    OBVIOUS
  <2>2. \A q \in Object : /\ Past(q)' = IF Exists(q)' THEN Back(h)[objects'[q].head] ELSE <<>>
                          /\ Future(q)' = IF Exists(q)' THEN Ahead(h)[objects'[q].redo] ELSE <<>>
    BY <2>1 DEF Past, Future
  <2>3. \A q \in Object : Past(q)' = Past(q) /\ Future(q)' = Future(q)
    BY <1>1, <2>1, <2>2 DEF Past, Future, Exists
  <2> QED
    BY <2>3 DEF Timeline!vars
<1>2. ASSUME NEW e, Committed(e), e.kind \in {"create", "update"} PROVE Timeline!Next
  <2>1. e.object \in Object /\ Timeline!Show(e.object)
    BY <1>2, EditShows DEF Committed, EventRecord
  <2> QED
    BY <2>1 DEF Timeline!Next
<1>3. ASSUME NEW c \in Client, NEW o \in Object, Fetch(c, o) PROVE UNCHANGED Timeline!vars
  BY <1>1, <1>3 DEF Fetch, historyVars
<1>4. ASSUME NEW c \in Client, NEW o \in Object, NEW p \in Proposal, Create(c, o, p)
      PROVE  Timeline!Next
  <2>1. PICK e : e = Creation(o, p, c)
    OBVIOUS
  <2>2. Committed(e)
    BY <1>4, <2>1, CreationFits DEF Create, Committed
  <2>3. e.kind = "create"
    BY <2>1 DEF Creation, Event
  <2> QED
    BY <1>2, <2>2, <2>3
<1>5. ASSUME NEW c \in Client, NEW o \in Object, NEW p \in Proposal,
             NEW semantic \in BOOLEAN, NEW layout \in BOOLEAN, Update(c, o, p, semantic, layout)
      PROVE  Timeline!Next
  <2>1. PICK e : e = Change(o, "update", p, semantic, layout, c)
    OBVIOUS
  <2>2. Committed(e)
    BY <1>5, <2>1, UpdateFits DEF Update, Committed
  <2>3. e.kind = "update"
    BY <2>1 DEF Change, Event
  <2> QED
    BY <1>2, <2>2, <2>3
<1>6. ASSUME NEW c \in Client, NEW o \in Object, Undo(c, o) PROVE Timeline!Next
  BY <1>6, UndoRefines DEF Timeline!Next
<1>7. ASSUME NEW c \in Client, NEW o \in Object, Redo(c, o) PROVE Timeline!Next
  BY <1>7, RedoRefines DEF Timeline!Next
<1>8. CASE UNCHANGED vars
  BY <1>1, <1>8 DEF vars, historyVars
<1> QED
  BY <1>3, <1>4, <1>5, <1>6, <1>7, <1>8 DEF Next

(* Whatever other objects and clients do in between, the two cursors of an    *)
(* object into the shared log behave as a past and a future of its own.       *)
THEOREM TimelineImplemented == Spec => ImplementsTimeline
<1>1. Init => Timeline!Init
  <2> SUFFICES ASSUME Init PROVE Timeline!Init
    OBVIOUS
  <2>1. \A o \in Object : Past(o) = <<>> /\ Future(o) = <<>>
    BY DEF Init, Past, Future, Exists
  <2> QED
    BY <2>1 DEF Timeline!Init
<1>2. InductiveInvariant /\ InductiveInvariant' /\ [Next]_vars => [Timeline!Next]_(Timeline!vars)
  BY StepRefines
<1> QED
  BY <1>1, <1>2, Invariance, PTL DEF Spec, ImplementsTimeline, Timeline!Spec
=============================================================================
