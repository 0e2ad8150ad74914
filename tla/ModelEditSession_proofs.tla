----------------------- MODULE ModelEditSession_proofs -----------------------
(***************************************************************************)
(* The stored history of the edit session is usable after every crash, a   *)
(* save overwrites nothing, and saves and discards take effect once.       *)
(***************************************************************************)
EXTENDS ModelEditSession, SequenceTheorems, TLAPS

(* An edit is made to an object that can exist, from a row that can.       *)
LEMMA EditIsTyped ==
  ASSUME TypeOK, NEW t \in Tx, NEW request \in Requests(t),
         Send(t, request), request.kind = "edit"
  PROVE  /\ request.object \in Object /\ request.content \in Content
         /\ request.seen \in Row
         /\ request \in Request
<1>1. asked[t] \in Request \cup {None} /\ shown \in [Object -> SUBSET Row]
  BY DEF TypeOK
<1>2. CASE asked[t] = None
  <2>1. \/ \E o \in Object : \E s \in shown[o], c \in Content :
             request = [kind |-> "edit", object |-> o, seen |-> s, content |-> c]
        \/ \E k \in AllKinds \ {"edit"} : request = [kind |-> k]
    BY <1>2 DEF Requests
  <2>2. PICK o \in Object, s \in Row, c \in Content :
          request = [kind |-> "edit", object |-> o, seen |-> s, content |-> c]
    BY <2>1, <1>1
  <2> QED
    BY <2>2 DEF Request
<1>3. CASE asked[t] # None
  <2>1. request = asked[t] /\ request \in Request
    BY <1>1, <1>3 DEF Requests
  <2>2. request \notin [kind : AllKinds \ {"edit"}]
    OBVIOUS
  <2> QED
    BY <2>1, <2>2 DEF Request
<1> QED
  BY <1>2, <1>3

(* Whatever the client sends, for the first time or again, is a request.    *)
LEMMA RequestIsTyped ==
  ASSUME TypeOK, NEW t \in Tx, NEW request \in Requests(t), Send(t, request)
  PROVE  request \in Request
<1>1. CASE request.kind = "edit"
  BY <1>1, EditIsTyped
<1>2. CASE request.kind # "edit"
  <2>1. asked[t] \in Request \cup {None} /\ shown \in [Object -> SUBSET Row]
    BY DEF TypeOK
  <2>2. CASE asked[t] = None
    <3>1. \/ \E o \in Object : \E s \in shown[o], c \in Content :
               request = [kind |-> "edit", object |-> o, seen |-> s, content |-> c]
          \/ \E k \in AllKinds \ {"edit"} : request = [kind |-> k]
      BY <2>2 DEF Requests
    <3> QED
      BY <3>1, <1>2 DEF Request
  <2>3. CASE asked[t] # None
    BY <2>1, <2>3 DEF Requests
  <2> QED
    BY <2>2, <2>3
<1> QED
  BY <1>1, <1>2

(* What every request leaves of the client's variables.                    *)
LEMMA SendIsTyped ==
  ASSUME TypeOK, NEW t \in Tx, NEW request \in Requests(t), Send(t, request)
  PROVE  /\ asked' = [asked EXCEPT ![t] = request]
         /\ asked' \in [Tx -> Request \cup {None}]
         /\ pc = "idle"
<1>1. request \in Request
  BY RequestIsTyped
<1> QED
  BY <1>1 DEF TypeOK, Send

(* The repository's update of a row leaves a row.                          *)
LEMMA EditedIsRow ==
  ASSUME NEW row \in Row, NEW content \in Content \cup {Absent}
  PROVE  Edited(row, content) \in Row
BY DEF Edited, Row

(* An edit always changes the row, if only its revision.                   *)
LEMMA EditChangesRow ==
  ASSUME NEW row \in Row, NEW content \in Content
  PROVE  Edited(row, content) # row /\ Edited(row, content) # NoRow
<1>1. content # Absent
  BY SessionAssumption
<1>2. Edited(row, content).content = content
  BY DEF Edited
<1>3. CASE row = NoRow
  BY <1>1, <1>2, <1>3 DEF NoRow
<1>4. CASE row # NoRow
  <2>1. row.rev \in Nat /\ Edited(row, content).rev = row.rev + 1
    BY <1>4 DEF Edited, Row
  <2>2. Edited(row, content).rev # row.rev
    BY <2>1
  <2> QED
    BY <1>1, <1>2, <2>2 DEF NoRow
<1> QED
  BY <1>3, <1>4

(* A library without objects is a workspace.                               *)
LEMMA EmptyIsWorkspace == Empty \in Workspace /\ NoRow \in Row
BY DEF Empty, Workspace, NoRow, Row

(* The workspace a save writes, and that it takes nothing away.            *)
LEMMA FinalStateGrows ==
  ASSUME TypeOK
  PROVE  /\ FinalState \in Workspace
         /\ \A o \in Object : FinalState[o] = NoRow => canonical[o] = NoRow
<1>1. canonical \in [Object -> Row] /\ live \in [Object -> Row]
  BY DEF TypeOK, Workspace
<1>2. ASSUME NEW o \in Object
      PROVE  /\ FinalState[o] \in Row
             /\ FinalState[o] = NoRow => canonical[o] = NoRow
  <2>1. canonical[o] \in Row /\ live[o].content \in Content \cup {Absent}
    BY <1>1 DEF Row
  <2>2. CASE live[o].content = canonical[o].content
    BY <2>1, <2>2 DEF FinalState
  <2>3. CASE live[o].content # canonical[o].content
    <3>1. FinalState[o] = Edited(canonical[o], live[o].content)
      BY <2>3 DEF FinalState
    <3>2. FinalState[o] \in Row
      BY <3>1, <2>1, EditedIsRow
    <3>3. CASE canonical[o] = NoRow
      BY <3>2, <3>3
    <3>4. CASE canonical[o] # NoRow
      <4>1. FinalState[o].rev = canonical[o].rev + 1 /\ canonical[o].rev \in Nat
        BY <3>1, <3>4, <2>1 DEF Edited, Row
      <4>2. FinalState[o].rev # 0 /\ NoRow.rev = 0
        BY <4>1 DEF NoRow
      <4> QED
        BY <3>2, <4>2
    <3> QED
      BY <3>3, <3>4
  <2> QED
    BY <2>2, <2>3
<1>3. FinalState = [o \in Object |-> FinalState[o]]
  BY DEF FinalState
<1> QED
  BY <1>2, <1>3 DEF Workspace

-----------------------------------------------------------------------------
(* A fresh library without a session's file satisfies the invariant.       *)
THEOREM InitialState == Init => InductiveInvariant
<1> SUFFICES ASSUME Init PROVE InductiveInvariant
  OBVIOUS
<1>1. PICK c \in Content :
        canonical = [o \in Object |->
                       IF o \in Starter THEN [content |-> c, rev |-> 0] ELSE NoRow]
  BY DEF Init
<1>2. canonical \in Workspace
  BY <1>1, EmptyIsWorkspace DEF Workspace, Row
<1>3. TypeOK
  BY <1>2, EmptyIsWorkspace, SessionAssumption DEF Init, TypeOK, MaxTimes
<1>4. BaselineIsOlder
  BY DEF Init, BaselineIsOlder, Empty
<1>5. HistoryIsStored /\ SnapshotsAgree /\ FileInPlace /\ EndsAreReceipted
  BY DEF Init, HistoryIsStored, SnapshotsAgree, FileInPlace, EndsAreReceipted
<1> QED
  BY <1>3, <1>4, <1>5 DEF InductiveInvariant

(* Steps of opening and rebuilding.                                        *)
LEMMA OpenStep == InductiveInvariant /\ Open => InductiveInvariant'
<1> SUFFICES ASSUME InductiveInvariant, Open PROVE InductiveInvariant'
  OBVIOUS
<1> USE DEF InductiveInvariant, Open, fileVars, clientVars, counters
<1>1. TypeOK'
  BY DEF TypeOK
<1>2. HistoryIsStored' /\ SnapshotsAgree'
  BY DEF HistoryIsStored, SnapshotsAgree
<1>3. FileInPlace'
  BY DEF FileInPlace
<1>4. BaselineIsOlder' /\ EndsAreReceipted'
  BY DEF BaselineIsOlder, EndsAreReceipted
<1> QED
  BY <1>1, <1>2, <1>3, <1>4

(* Continuing a compatible file keeps the invariant: it is of this library. *)
LEMMA RecoverStep == InductiveInvariant /\ Recover => InductiveInvariant'
<1> SUFFICES ASSUME InductiveInvariant, Recover PROVE InductiveInvariant'
  OBVIOUS
<1> USE DEF InductiveInvariant, Recover, fileVars, clientVars, counters
<1>1. TypeOK'
  BY DEF TypeOK
<1>2. HistoryIsStored' /\ SnapshotsAgree'
  BY DEF HistoryIsStored, SnapshotsAgree
<1>3. FileInPlace'
  BY DEF FileInPlace, Compatible
<1>4. BaselineIsOlder' /\ EndsAreReceipted'
  BY DEF BaselineIsOlder, EndsAreReceipted
<1> QED
  BY <1>1, <1>2, <1>3, <1>4

(* Without a file there is nothing to agree on.                            *)
LEMMA ForgetFileStep ==
  ASSUME TypeOK, ForgetFile
  PROVE  /\ file' = "missing" /\ HistoryIsStored' /\ SnapshotsAgree'
         /\ BaselineIsOlder'
         /\ base' \in Workspace /\ live' \in Workspace
         /\ snaps' \in Seq(Workspace)
<1>1. \A o \in Object : base'[o] = NoRow
  BY DEF ForgetFile, Empty
<1> QED
  BY <1>1, EmptyIsWorkspace
  DEF ForgetFile, HistoryIsStored, SnapshotsAgree, BaselineIsOlder

(* Setting another file aside keeps it.                                    *)
LEMMA PreserveStep == InductiveInvariant /\ Preserve => InductiveInvariant'
<1> SUFFICES ASSUME InductiveInvariant, Preserve PROVE InductiveInvariant'
  OBVIOUS
<1> USE DEF InductiveInvariant, Preserve, clientVars, counters
<1>1. Contents(live) \in [Object -> Content \cup {Absent}]
  BY DEF TypeOK, Workspace, Row, Contents
<1>2. aside' \subseteq [Object -> Content \cup {Absent}]
  BY <1>1 DEF TypeOK
<1>3. TypeOK'
  BY <1>2, ForgetFileStep DEF TypeOK, ForgetFile
<1>4. FileInPlace' /\ EndsAreReceipted'
  BY DEF FileInPlace, EndsAreReceipted
<1> QED
  BY <1>3, <1>4, ForgetFileStep

(* The first step of _rebuild keeps it.                                    *)
LEMMA RemoveFileStep == InductiveInvariant /\ RemoveFile => InductiveInvariant'
<1> SUFFICES ASSUME InductiveInvariant, RemoveFile PROVE InductiveInvariant'
  OBVIOUS
<1> USE DEF InductiveInvariant, RemoveFile, clientVars, counters
<1>1. TypeOK'
  BY ForgetFileStep DEF TypeOK, ForgetFile
<1>2. FileInPlace' /\ EndsAreReceipted'
  BY DEF FileInPlace, EndsAreReceipted
<1> QED
  BY <1>1, <1>2, ForgetFileStep

(* The second one does, with a file that is no session yet.                *)
LEMMA CreateFileStep == InductiveInvariant /\ CreateFile => InductiveInvariant'
<1> SUFFICES ASSUME InductiveInvariant, CreateFile PROVE InductiveInvariant'
  OBVIOUS
<1> USE DEF InductiveInvariant, CreateFile, clientVars, counters
<1>1. TypeOK'
  BY DEF TypeOK
<1>2. HistoryIsStored' /\ SnapshotsAgree' /\ FileInPlace'
  BY DEF HistoryIsStored, SnapshotsAgree, FileInPlace
<1>3. BaselineIsOlder' /\ EndsAreReceipted'
  BY DEF BaselineIsOlder, EndsAreReceipted
<1> QED
  BY <1>1, <1>2, <1>3

(* The client is shown rows.                                               *)
LEMMA ShowIsTyped ==
  ASSUME TypeOK, NEW w \in Workspace, Show(w)
  PROVE  shown' \in [Object -> SUBSET Row]
BY DEF TypeOK, Show, Workspace

(* The third one starts a history of one snapshot, the baseline.           *)
LEMMA WriteBaselineStep ==
  InductiveInvariant /\ WriteBaseline => InductiveInvariant'
<1> SUFFICES ASSUME InductiveInvariant, WriteBaseline PROVE InductiveInvariant'
  OBVIOUS
<1> USE DEF InductiveInvariant, WriteBaseline, counters
<1>1. live \in Workspace /\ live = canonical
  BY DEF TypeOK, FileInPlace
<1>2. snaps' \in Seq(Workspace) /\ Len(snaps') = 1 /\ snaps'[1] = live
  BY <1>1
<1>3. TypeOK'
  BY <1>1, <1>2, ShowIsTyped DEF TypeOK
<1>4. HistoryIsStored' /\ SnapshotsAgree' /\ FileInPlace'
  BY <1>1, <1>2 DEF HistoryIsStored, SnapshotsAgree, FileInPlace
<1>5. BaselineIsOlder' /\ EndsAreReceipted'
  BY DEF BaselineIsOlder, EndsAreReceipted
<1> QED
  BY <1>3, <1>4, <1>5

-----------------------------------------------------------------------------
(* Requests.                                                               *)

(* Sending a request, for the first time or again, disturbs no receipt.    *)
LEMMA SendKeepsReceipts ==
  ASSUME TypeOK, EndsAreReceipted,
         NEW t \in Tx, NEW request \in Requests(t), Send(t, request),
         UNCHANGED <<receipts, times>>
  PROVE  EndsAreReceipted'
<1>1. /\ asked \in [Tx -> Request \cup {None}]
      /\ asked' = [asked EXCEPT ![t] = request]
      /\ asked[t] \in {None, request}
  BY DEF TypeOK, Send
<1> QED
  BY <1>1 DEF EndsAreReceipted

(* Requests that leave everything but the client's memory as it was.       *)
LEMMA AnswerStep ==
  ASSUME InductiveInvariant, NEW t \in Tx, NEW request \in Requests(t),
         Send(t, request),
         UNCHANGED <<canonical, receipts, fileVars, aside, pc, shown, times,
                     counters>>
  PROVE  InductiveInvariant'
<1> USE DEF InductiveInvariant, fileVars, counters
<1>1. TypeOK'
  BY SendIsTyped DEF TypeOK
<1>2. HistoryIsStored' /\ SnapshotsAgree' /\ FileInPlace' /\ BaselineIsOlder'
  BY DEF HistoryIsStored, SnapshotsAgree, FileInPlace, BaselineIsOlder
<1> QED
  BY <1>1, <1>2, SendKeepsReceipts

(* A request that ends the session: the file stays until it is removed.    *)
LEMMA EndingStep ==
  ASSUME InductiveInvariant, NEW t \in Tx, NEW request \in Requests(t),
         Send(t, request), pc' = "remove",
         UNCHANGED <<fileVars, aside, shown, counters>>,
         canonical' \in Workspace,
         \A o \in Object : canonical'[o] = NoRow => canonical[o] = NoRow
  PROVE  /\ HistoryIsStored' /\ SnapshotsAgree' /\ FileInPlace'
         /\ BaselineIsOlder'
         /\ receipts' \subseteq Tx /\ times' \in [Tx -> 0 .. MaxTimes] => TypeOK'
<1> USE DEF InductiveInvariant, fileVars, counters
<1>1. HistoryIsStored' /\ SnapshotsAgree' /\ BaselineIsOlder'
  BY DEF HistoryIsStored, SnapshotsAgree, BaselineIsOlder
<1>2. FileInPlace'
  BY SendIsTyped DEF FileInPlace
<1>3. receipts' \subseteq Tx /\ times' \in [Tx -> 0 .. MaxTimes] => TypeOK'
  BY SendIsTyped DEF TypeOK
<1> QED
  BY <1>1, <1>2, <1>3

(* The receipt is new, so the effect is the first.                         *)
LEMMA ReceiptStep ==
  ASSUME TypeOK, EndsAreReceipted,
         NEW t \in Tx, NEW request \in Requests(t), Send(t, request),
         request.kind \in {"save", "discard"},
         t \notin receipts, Receipt(t)
  PROVE  /\ receipts' \subseteq Tx /\ times' \in [Tx -> 0 .. MaxTimes]
         /\ EndsAreReceipted'
<1>1. /\ asked \in [Tx -> Request \cup {None}] /\ times \in [Tx -> 0 .. MaxTimes]
      /\ asked' = [asked EXCEPT ![t] = request]
      /\ asked[t] \in {None, request}
  BY DEF TypeOK, Send
<1>2. times[t] = 0
  BY <1>1 DEF EndsAreReceipted
<1>3. times' = [times EXCEPT ![t] = 1] /\ receipts' = receipts \cup {t}
  BY <1>2 DEF Receipt, MaxTimes
<1>4. receipts' \subseteq Tx /\ times' \in [Tx -> 0 .. MaxTimes]
  BY <1>1, <1>3 DEF TypeOK, MaxTimes
<1>5. EndsAreReceipted'
  BY <1>1, <1>3 DEF EndsAreReceipted
<1> QED
  BY <1>4, <1>5

(* model.edit.commit keeps the invariant.                                  *)
LEMMA SaveStep ==
  ASSUME InductiveInvariant, NEW t \in Tx, NEW request \in Requests(t),
         Save(t, request)
  PROVE  InductiveInvariant'
<1>1. Send(t, request) /\ TypeOK /\ EndsAreReceipted
  BY DEF Save, InductiveInvariant
<1>2. /\ canonical' \in Workspace
      /\ \A o \in Object : canonical'[o] = NoRow => canonical[o] = NoRow
  BY <1>1, FinalStateGrows DEF Save
<1>3. /\ receipts' \subseteq Tx /\ times' \in [Tx -> 0 .. MaxTimes]
      /\ EndsAreReceipted'
  BY <1>1, ReceiptStep DEF Save
<1>4. /\ HistoryIsStored' /\ SnapshotsAgree' /\ FileInPlace'
      /\ BaselineIsOlder' /\ TypeOK'
  BY <1>1, <1>2, <1>3, EndingStep DEF Save
<1> QED
  BY <1>3, <1>4 DEF InductiveInvariant

(* So does model.edit.discard.                                             *)
LEMMA DiscardStep ==
  ASSUME InductiveInvariant, NEW t \in Tx, NEW request \in Requests(t),
         Discard(t, request)
  PROVE  InductiveInvariant'
<1>1. /\ Send(t, request) /\ TypeOK /\ EndsAreReceipted
      /\ UNCHANGED <<canonical, fileVars>>
  BY DEF Discard, InductiveInvariant
<1>2. canonical' \in Workspace
  BY <1>1 DEF TypeOK
<1>3. /\ receipts' \subseteq Tx /\ times' \in [Tx -> 0 .. MaxTimes]
      /\ EndsAreReceipted'
  BY <1>1, ReceiptStep DEF Discard
<1>4. /\ HistoryIsStored' /\ SnapshotsAgree' /\ FileInPlace'
      /\ BaselineIsOlder' /\ TypeOK'
  BY <1>1, <1>2, <1>3, EndingStep DEF Discard
<1> QED
  BY <1>3, <1>4 DEF InductiveInvariant

(* So does answering either from its receipt.                              *)
LEMMA ReplayEndStep ==
  ASSUME InductiveInvariant, NEW t \in Tx, NEW request \in Requests(t),
         ReplayEnd(t, request)
  PROVE  InductiveInvariant'
<1>1. /\ Send(t, request) /\ TypeOK /\ EndsAreReceipted
      /\ UNCHANGED <<canonical, receipts, fileVars, times>>
  BY DEF ReplayEnd, InductiveInvariant
<1>2. /\ canonical' \in Workspace
      /\ receipts' \subseteq Tx /\ times' \in [Tx -> 0 .. MaxTimes]
  BY <1>1 DEF TypeOK
<1>3. /\ HistoryIsStored' /\ SnapshotsAgree' /\ FileInPlace'
      /\ BaselineIsOlder' /\ TypeOK'
  BY <1>1, <1>2, EndingStep DEF ReplayEnd
<1> QED
  BY <1>1, <1>3, SendKeepsReceipts DEF InductiveInvariant

-----------------------------------------------------------------------------
(* Edits and moves.                                                        *)

(* What the session's file is known to hold while requests are served.     *)
LEMMA ServedFile ==
  ASSUME InductiveInvariant, pc = "idle"
  PROVE  /\ file = "session"
         /\ cursor \in Nat /\ latest \in Nat /\ cursor <= latest
         /\ snaps \in Seq(Workspace) /\ Len(snaps) = latest + 1
         /\ snaps[1] = base /\ snaps[cursor + 1] = live
         /\ live \in Workspace
BY DEF InductiveInvariant, TypeOK, HistoryIsStored, SnapshotsAgree, FileInPlace

(* What is common to them: they count the effect, which is no save's.      *)
LEMMA StagedStep ==
  ASSUME InductiveInvariant, NEW t \in Tx, NEW request \in Requests(t),
         Send(t, request), request.kind \notin {"save", "discard"},
         Staged(t), live' \in Workspace, snaps' \in Seq(Workspace),
         cursor' \in Nat, latest' \in Nat, UNCHANGED canonical
  PROVE  /\ TypeOK' /\ FileInPlace' /\ BaselineIsOlder' /\ EndsAreReceipted'
<1>1. /\ TypeOK /\ asked' = [asked EXCEPT ![t] = request] /\ pc = "idle"
      /\ asked \in [Tx -> Request \cup {None}]
      /\ asked' \in [Tx -> Request \cup {None}]
      /\ request # None
  BY SendIsTyped, RequestIsTyped, NoneAssumption DEF InductiveInvariant, TypeOK
<1>2. times' = [times EXCEPT ![t] = times'[t]] /\ times'[t] \in 0 .. MaxTimes
  BY <1>1 DEF Staged, TypeOK, MaxTimes
<1>3. shown' \in [Object -> SUBSET Row]
  BY <1>1, ShowIsTyped DEF Staged, Show, TypeOK, Workspace
<1>4. TypeOK'
  BY <1>1, <1>2, <1>3 DEF TypeOK, Staged, counters
<1>5. FileInPlace' /\ BaselineIsOlder'
  BY <1>1 DEF InductiveInvariant, FileInPlace, BaselineIsOlder, Staged, counters
<1>6. EndsAreReceipted'
  BY <1>1, <1>2 DEF InductiveInvariant, EndsAreReceipted, Staged, TypeOK
<1> QED
  BY <1>4, <1>5, <1>6

(* An edit is recorded whatever it proposes, because it moves the revision *)
(* on: the branch of Checkpoint that records nothing would leave           *)
(* latest_sequence behind a deleted branch.                                *)
LEMMA EditStep ==
  ASSUME InductiveInvariant, NEW t \in Tx, NEW request \in Requests(t),
         Edit(t, request)
  PROVE  InductiveInvariant'
<1> DEFINE o    == request.object
           row  == Edited(live[o], request.content)
           kept == SubSeq(snaps, 1, cursor + 1)
<1>1. /\ TypeOK /\ Send(t, request) /\ request.kind = "edit"
      /\ Staged(t) /\ Checkpoint /\ pc = "idle"
      /\ live' = [live EXCEPT ![o] = row]
  BY SendIsTyped DEF Edit, InductiveInvariant
<1>2. o \in Object /\ request.content \in Content
  BY <1>1, EditIsTyped
<1>3. /\ file = "session" /\ cursor \in Nat /\ latest \in Nat
      /\ cursor <= latest /\ snaps \in Seq(Workspace)
      /\ Len(snaps) = latest + 1
      /\ snaps[1] = base /\ snaps[cursor + 1] = live
      /\ live \in [Object -> Row]
  BY <1>1, ServedFile DEF Workspace
<1>4. row \in Row /\ row # live[o]
  BY <1>2, <1>3, EditedIsRow, EditChangesRow
<1> HIDE DEF row
<1>5. live' \in Workspace /\ live' # live
  BY <1>1, <1>2, <1>3, <1>4 DEF Workspace
<1>6. /\ snaps' = Append(kept, live')
      /\ cursor' = cursor + 1 /\ latest' = cursor + 1
  BY <1>1, <1>3, <1>5 DEF Checkpoint
<1>7. /\ kept \in Seq(Workspace) /\ Len(kept) = cursor + 1
      /\ kept[1] = snaps[1]
  BY <1>3, SubSeqProperties
<1> HIDE DEF kept
<1>8. /\ snaps' \in Seq(Workspace) /\ Len(snaps') = cursor + 2
      /\ snaps'[1] = snaps[1] /\ snaps'[cursor + 2] = live'
  BY <1>3, <1>5, <1>6, <1>7, AppendProperties
<1>9. cursor' + 1 = cursor + 2 /\ latest' + 1 = cursor + 2 /\ cursor' <= latest'
  BY <1>3, <1>6
<1>10. HistoryIsStored' /\ SnapshotsAgree'
  BY <1>1, <1>3, <1>8, <1>9 DEF HistoryIsStored, SnapshotsAgree, Staged
<1>11. cursor' \in Nat /\ latest' \in Nat
  BY <1>3, <1>6
<1>12. TypeOK' /\ FileInPlace' /\ BaselineIsOlder' /\ EndsAreReceipted'
  BY <1>1, <1>5, <1>8, <1>11, StagedStep DEF Staged
<1> QED
  BY <1>10, <1>12 DEF InductiveInvariant

(* An undo or redo that is not refused arrives at a stored snapshot.       *)
LEMMA MoveStep ==
  ASSUME InductiveInvariant, NEW t \in Tx, NEW request \in Requests(t),
         Move(t, request)
  PROVE  InductiveInvariant'
<1>1. /\ TypeOK /\ Send(t, request) /\ request.kind \in {"undo", "redo"}
      /\ ~EditRefused(request)
      /\ Staged(t) /\ pc = "idle" /\ live' = snaps[cursor' + 1]
      /\ UNCHANGED <<snaps, latest>>
  BY SendIsTyped DEF Move, InductiveInvariant
<1>2. /\ file = "session" /\ cursor \in Nat /\ latest \in Nat
      /\ cursor <= latest /\ snaps \in Seq(Workspace)
      /\ Len(snaps) = latest + 1 /\ snaps[1] = base
  BY <1>1, ServedFile
<1>3. cursor' \in 0 .. latest
  <2>1. CASE request.kind = "undo"
    <3>1. cursor # 0 /\ cursor' = cursor - 1
      BY <1>1, <2>1 DEF EditRefused, Move
    <3> QED
      BY <3>1, <1>2
  <2>2. CASE request.kind = "redo"
    <3>1. ~(cursor + 1 > latest) /\ cursor' = cursor + 1
      BY <1>1, <2>2 DEF EditRefused, Move
    <3> QED
      BY <3>1, <1>2
  <2> QED
    BY <1>1, <2>1, <2>2
<1>4. live' \in Workspace
  <2>1. cursor' + 1 \in 1 .. Len(snaps)
    <3> DEFINE k == cursor'
    <3>1. k \in Int /\ 0 <= k /\ k <= latest /\ latest \in Int
      BY <1>2, <1>3
    <3>2. Len(snaps) = latest + 1
      BY <1>2
    <3> HIDE DEF k
    <3>3. k + 1 \in 1 .. Len(snaps)
      BY <3>1, <3>2
    <3> QED
      BY <3>3 DEF k
  <2>2. ASSUME NEW n \in 1 .. Len(snaps) PROVE snaps[n] \in Workspace
    <3>1. snaps \in Seq(Workspace)
      BY <1>2
    <3> QED
      BY <3>1, ElementOfSeq
  <2> QED
    BY <1>1, <2>1, <2>2
<1>5. HistoryIsStored' /\ SnapshotsAgree'
  BY <1>1, <1>2, <1>3 DEF HistoryIsStored, SnapshotsAgree, Staged
<1>6. snaps' \in Seq(Workspace) /\ cursor' \in Nat /\ latest' \in Nat
  BY <1>1, <1>2, <1>3
<1>7. TypeOK' /\ FileInPlace' /\ BaselineIsOlder' /\ EndsAreReceipted'
  BY <1>1, <1>4, <1>6, StagedStep DEF Staged
<1> QED
  BY <1>5, <1>7 DEF InductiveInvariant

-----------------------------------------------------------------------------
(* The library grows or changes, and the process ends.                     *)

(* An import adds to the library and leaves the session behind it.         *)
LEMMA ImportStep ==
  ASSUME InductiveInvariant, NEW o \in Object, NEW content \in Content,
         Import(o, content)
  PROVE  InductiveInvariant'
<1> USE DEF InductiveInvariant, Import, fileVars, clientVars
<1>1. canonical \in [Object -> Row] /\ canonical[o] = NoRow
  BY DEF TypeOK, Workspace
<1>2. /\ Edited(NoRow, content) \in Row
      /\ Edited(NoRow, content) # NoRow
  BY EmptyIsWorkspace, EditedIsRow, EditChangesRow
<1>3. /\ canonical' \in Workspace
      /\ \A p \in Object : canonical'[p] = NoRow => canonical[p] = NoRow
  BY <1>1, <1>2 DEF Workspace
<1>4. TypeOK'
  BY <1>3, SessionAssumption DEF TypeOK
<1>5. HistoryIsStored' /\ SnapshotsAgree' /\ FileInPlace'
  BY DEF HistoryIsStored, SnapshotsAgree, FileInPlace
<1>6. BaselineIsOlder' /\ EndsAreReceipted'
  BY <1>3 DEF BaselineIsOlder, EndsAreReceipted
<1> QED
  BY <1>4, <1>5, <1>6

(* A change behind the session leaves it on an older baseline.             *)
LEMMA ChangeOutsideStep ==
  ASSUME InductiveInvariant, NEW o \in Object, NEW content \in Content,
         ChangeOutside(o, content)
  PROVE  InductiveInvariant'
<1> USE DEF InductiveInvariant, ChangeOutside, fileVars, clientVars
<1>1. canonical \in [Object -> Row] /\ canonical[o] \in Row
  BY DEF TypeOK, Workspace
<1>2. /\ Edited(canonical[o], content) \in Row
      /\ Edited(canonical[o], content) # NoRow
  BY <1>1, EditedIsRow, EditChangesRow
<1>3. /\ canonical' \in Workspace
      /\ \A p \in Object : canonical'[p] = NoRow => canonical[p] = NoRow
  BY <1>1, <1>2 DEF Workspace
<1>4. TypeOK' /\ outside' # 0
  BY <1>3, SessionAssumption DEF TypeOK
<1>5. HistoryIsStored' /\ SnapshotsAgree' /\ FileInPlace'
  BY <1>4 DEF HistoryIsStored, SnapshotsAgree, FileInPlace
<1>6. BaselineIsOlder' /\ EndsAreReceipted'
  BY <1>3 DEF BaselineIsOlder, EndsAreReceipted
<1> QED
  BY <1>4, <1>5, <1>6

(* A close or crash loses nothing durable.                                 *)
LEMMA DownStep == InductiveInvariant /\ (Close \/ Crash) => InductiveInvariant'
<1> SUFFICES ASSUME InductiveInvariant, Close \/ Crash PROVE InductiveInvariant'
  OBVIOUS
<1> USE DEF InductiveInvariant, Close, Crash, fileVars, clientVars, counters
<1>1. TypeOK'
  BY SessionAssumption DEF TypeOK
<1>2. HistoryIsStored' /\ SnapshotsAgree' /\ FileInPlace'
  BY DEF HistoryIsStored, SnapshotsAgree, FileInPlace
<1>3. BaselineIsOlder' /\ EndsAreReceipted'
  BY DEF BaselineIsOlder, EndsAreReceipted
<1> QED
  BY <1>1, <1>2, <1>3

(* Neither does a stuttering step.                                         *)
LEMMA IdleStep ==
  InductiveInvariant /\ UNCHANGED vars => InductiveInvariant'
<1> SUFFICES ASSUME InductiveInvariant, UNCHANGED vars
             PROVE  InductiveInvariant'
  OBVIOUS
<1> USE DEF InductiveInvariant, vars, fileVars, clientVars, counters
<1>1. TypeOK'
  BY DEF TypeOK
<1>2. HistoryIsStored' /\ SnapshotsAgree' /\ FileInPlace'
  BY DEF HistoryIsStored, SnapshotsAgree, FileInPlace
<1>3. BaselineIsOlder' /\ EndsAreReceipted'
  BY DEF BaselineIsOlder, EndsAreReceipted
<1> QED
  BY <1>1, <1>2, <1>3

(* Every step of the session keeps the invariant.                          *)
LEMMA InductiveStep == InductiveInvariant /\ [Next]_vars => InductiveInvariant'
<1> SUFFICES ASSUME InductiveInvariant, [Next]_vars PROVE InductiveInvariant'
  OBVIOUS
<1>1. CASE Open
  BY <1>1, OpenStep
<1>2. CASE Recover
  BY <1>2, RecoverStep
<1>3. CASE Preserve
  BY <1>3, PreserveStep
<1>4. CASE RemoveFile
  BY <1>4, RemoveFileStep
<1>5. CASE CreateFile
  BY <1>5, CreateFileStep
<1>6. CASE WriteBaseline
  BY <1>6, WriteBaselineStep
<1>7. ASSUME NEW t \in Tx, NEW request \in Requests(t),
             \/ Replay(t, request) \/ Refuse(t, request)
             \/ Edit(t, request) \/ Move(t, request)
             \/ Save(t, request) \/ SaveRefused(t, request)
             \/ Discard(t, request) \/ ReplayEnd(t, request)
      PROVE  InductiveInvariant'
  <2>1. CASE Replay(t, request)
    BY <2>1, AnswerStep DEF Replay
  <2>2. CASE Refuse(t, request)
    BY <2>2, AnswerStep DEF Refuse
  <2>3. CASE Edit(t, request)
    BY <2>3, EditStep
  <2>4. CASE Move(t, request)
    BY <2>4, MoveStep
  <2>5. CASE Save(t, request)
    BY <2>5, SaveStep
  <2>6. CASE SaveRefused(t, request)
    BY <2>6, AnswerStep DEF SaveRefused
  <2>7. CASE Discard(t, request)
    BY <2>7, DiscardStep
  <2>8. CASE ReplayEnd(t, request)
    BY <2>8, ReplayEndStep
  <2> QED
    BY <1>7, <2>1, <2>2, <2>3, <2>4, <2>5, <2>6, <2>7, <2>8
<1>8. ASSUME NEW o \in Object, NEW c \in Content,
             Import(o, c) \/ ChangeOutside(o, c)
      PROVE  InductiveInvariant'
  BY <1>8, ImportStep, ChangeOutsideStep
<1>9. CASE Close \/ Crash
  BY <1>9, DownStep
<1>10. CASE UNCHANGED vars
  BY <1>10, IdleStep
<1> QED
  BY <1>1, <1>2, <1>3, <1>4, <1>5, <1>6, <1>7, <1>8, <1>9, <1>10 DEF Next

-----------------------------------------------------------------------------
(* Every reachable state of the edit session satisfies the invariant, for  *)
(* every set of objects, contents and requests and any number of crashes.  *)
THEOREM SessionInvariance == Spec => []InductiveInvariant
BY InitialState, InductiveStep, PTL DEF Spec

(* The snapshots of _capture_state_json are exactly those that undo and    *)
(* redo may be asked for.                                                  *)
THEOREM HistoryStored == Spec => []HistoryIsStored
<1>1. InductiveInvariant => HistoryIsStored
  BY DEF InductiveInvariant
<1> QED
  BY <1>1, SessionInvariance, PTL

(* _open_or_rebuild never fails on a file this program wrote.              *)
THEOREM OpeningAlwaysSucceeds == Spec => []OpeningSucceeds
<1>1. InductiveInvariant => OpeningSucceeds
  BY DEF InductiveInvariant, TypeOK, HistoryIsStored, SnapshotsAgree,
         OpeningSucceeds, Compatible, HistoryUsable
<1> QED
  BY <1>1, SessionInvariance, PTL

(* The dirty guard of runs is about the library that runs read.            *)
THEOREM CleanIsCanonical == Spec => []CleanShowsCanonical
<1>1. InductiveInvariant => CleanShowsCanonical
  BY DEF InductiveInvariant, FileInPlace, CleanShowsCanonical, Dirty
<1> QED
  BY <1>1, SessionInvariance, PTL

(* A save or discard takes effect once, however often it is sent.          *)
THEOREM EndsTakeEffectOnce == Spec => []EndsOnce
<1>1. InductiveInvariant => EndsOnce
  BY DEF InductiveInvariant, EndsAreReceipted, EndsOnce
<1> QED
  BY <1>1, SessionInvariance, PTL

(* The baseline check of commit keeps every change made behind the session. *)
THEOREM SavesOverwriteNothing == Spec => SaveOverwritesNothing
<1> DEFINE Kept == \A o \in Object :
             pc = "idle" /\ pc' = "remove" /\ canonical'[o] # canonical[o] =>
               snaps[1][o] = canonical[o]
<1>1. ASSUME InductiveInvariant, [Next]_vars PROVE [Kept]_vars
  <2>1. SUFFICES ASSUME Next, NEW o \in Object, pc = "idle", pc' = "remove",
                        canonical'[o] # canonical[o]
                 PROVE  snaps[1][o] = canonical[o]
    BY <1>1
  <2>2. snaps[1] = base
    BY <1>1, <2>1, ServedFile
  <2>3. CASE \E t \in Tx : \E request \in Requests(t) : Save(t, request)
    BY <2>2, <2>3 DEF Save
  <2>4. CASE \E p \in Object, c \in Content : Import(p, c)
    <3>1. canonical[o] = NoRow
      BY <1>1, <2>1, <2>4 DEF Import, InductiveInvariant, TypeOK, Workspace
    <3> QED
      BY <1>1, <2>2, <3>1 DEF InductiveInvariant, BaselineIsOlder
  <2>5. CASE \E t \in Tx : \E request \in Requests(t) :
               Discard(t, request) \/ ReplayEnd(t, request)
    BY <2>1, <2>5 DEF Discard, ReplayEnd
  <2>6. CASE \E t \in Tx : \E request \in Requests(t) :
               \/ Replay(t, request) \/ Refuse(t, request)
               \/ Edit(t, request) \/ Move(t, request)
               \/ SaveRefused(t, request)
    BY <2>1, <2>6 DEF Replay, Refuse, Edit, Move, SaveRefused, Staged
  <2>7. CASE \/ Open \/ Recover \/ Preserve \/ RemoveFile \/ CreateFile
             \/ WriteBaseline \/ Close \/ Crash
             \/ \E p \in Object, c \in Content : ChangeOutside(p, c)
    BY <2>1, <2>7 DEF Open, Recover, Preserve, RemoveFile, CreateFile,
                      WriteBaseline, Close, Crash, ChangeOutside
  <2> QED
    BY <2>1, <2>3, <2>4, <2>5, <2>6, <2>7 DEF Next
<1> QED
  BY <1>1, SessionInvariance, PTL DEF Spec, SaveOverwritesNothing
-----------------------------------------------------------------------------
(* Retries of edits.                                                       *)

(* Before the first request nothing took effect.                           *)
LEMMA InitStaging == Init => StagingInvariant
<1> SUFFICES ASSUME Init PROVE StagingInvariant
  OBVIOUS
<1>1. file = "missing" /\ done = {} /\ pc = "down" /\ \A t \in Tx : times[t] = 0
  BY DEF Init
<1> QED
  BY <1>1 DEF StagingInvariant, ReceiptsInFile, EditsAreReceipted, DraftsAreCurrent

(* Opening and building the file take receipts away only with the session.  *)
LEMMA BuildStaging ==
  ASSUME InductiveInvariant, StagingInvariant,
         \/ Open \/ Recover \/ Preserve \/ RemoveFile \/ CreateFile \/ WriteBaseline
  PROVE  StagingInvariant'
<1> USE DEF StagingInvariant, ReceiptsInFile, EditsAreReceipted, DraftsAreCurrent, Dirty,
            fileVars, clientVars, counters
<1>1. CASE Open
  BY <1>1 DEF Open
<1>2. CASE Recover
  BY <1>2 DEF Recover
<1>3. CASE Preserve
  BY <1>3 DEF Preserve, ForgetFile, Compatible
<1>4. CASE RemoveFile
  BY <1>4 DEF RemoveFile, ForgetFile
<1>5. CASE CreateFile
  BY <1>5 DEF CreateFile
<1>6. CASE WriteBaseline
  BY <1>6 DEF WriteBaseline
<1> QED
  BY <1>1, <1>2, <1>3, <1>4, <1>5, <1>6

(* A save leaves the library saying what the session says.                 *)
LEMMA FinalStateSays ==
  ASSUME TypeOK
  PROVE  Contents(FinalState) = Contents(live)
<1>1. ASSUME NEW o \in Object PROVE FinalState[o].content = live[o].content
  BY <1>1 DEF FinalState, Edited
<1> QED
  BY <1>1 DEF Contents

(* An edit or a move leaves a receipt, and is not made where there is one.  *)
LEMMA StagedStaging ==
  ASSUME InductiveInvariant, StagingInvariant, NEW t \in Tx, pc = "idle", t \notin done, Staged(t)
  PROVE  StagingInvariant'
<1>1. /\ times \in [Tx -> 0 .. MaxTimes] /\ file = "session"
      /\ outside = 0 => base = canonical
  BY DEF InductiveInvariant, TypeOK, FileInPlace
<1>2. /\ done' = done \cup {t} /\ UNCHANGED <<canonical, receipts, file, base, pc>>
      /\ imports' = imports /\ outside' = outside
      /\ \A u \in Tx : u # t => times'[u] = times[u]
      /\ times[t] = 0 => times'[t] = 1
  BY <1>1 DEF Staged, counters, MaxTimes
<1>3. EditsAreReceipted'
  <2> SUFFICES ASSUME receipts = {}, imports = 0, outside = 0 PROVE
        /\ pc' # "remove"
        /\ file' = "session" => base' = canonical'
        /\ \A u \in Tx : times'[u] <= 1 /\ (u \notin done' => times'[u] = 0)
    BY <1>2 DEF EditsAreReceipted
  <2>1. \A u \in Tx : times[u] <= 1 /\ (u \notin done => times[u] = 0)
    BY DEF StagingInvariant, EditsAreReceipted
  <2>2. times'[t] = 1
    BY <1>2, <2>1
  <2> QED
    BY <1>1, <1>2, <2>1, <2>2
<1> QED
  BY <1>1, <1>2, <1>3 DEF StagingInvariant, ReceiptsInFile, DraftsAreCurrent

(* The requests of the client.                                             *)
LEMMA RequestStaging ==
  ASSUME InductiveInvariant, StagingInvariant, NEW t \in Tx, NEW request \in Requests(t),
         \/ Replay(t, request) \/ Refuse(t, request)
         \/ Edit(t, request) \/ Move(t, request)
         \/ Save(t, request) \/ SaveRefused(t, request)
         \/ Discard(t, request) \/ ReplayEnd(t, request)
  PROVE  StagingInvariant'
<1>1. CASE Replay(t, request) \/ Refuse(t, request) \/ SaveRefused(t, request)
  BY <1>1 DEF Replay, Refuse, SaveRefused, StagingInvariant, ReceiptsInFile, EditsAreReceipted,
              DraftsAreCurrent, Dirty, fileVars, counters
<1>2. CASE Edit(t, request)
  BY <1>2, StagedStaging DEF Edit, Send
<1>3. CASE Move(t, request)
  BY <1>3, StagedStaging DEF Move, Send
<1>4. ASSUME t \in receipts', file' = file, pc' = "remove", pc = "idle", done' = done
      PROVE  ReceiptsInFile' /\ EditsAreReceipted'
  BY <1>4 DEF StagingInvariant, ReceiptsInFile, EditsAreReceipted
<1>5. CASE Save(t, request)
  <2>1. Contents(canonical') = Contents(live)
    BY <1>5, FinalStateSays DEF Save, InductiveInvariant
  <2> QED
    BY <1>4, <1>5, <2>1
       DEF Save, Send, Receipt, StagingInvariant, DraftsAreCurrent, fileVars
<1>6. CASE Discard(t, request) \/ ReplayEnd(t, request)
  BY <1>4, <1>6
     DEF Discard, ReplayEnd, Send, Receipt, StagingInvariant, DraftsAreCurrent, Dirty, fileVars,
         counters
<1> QED
  BY <1>1, <1>2, <1>3, <1>5, <1>6

(* What is done to the library, and to the process.                        *)
LEMMA OtherStaging ==
  ASSUME InductiveInvariant, StagingInvariant,
         \/ \E o \in Object, c \in Content : Import(o, c) \/ ChangeOutside(o, c)
         \/ Close \/ Crash
  PROVE  StagingInvariant'
<1> USE DEF StagingInvariant, ReceiptsInFile, EditsAreReceipted, DraftsAreCurrent, Dirty,
            fileVars, clientVars, counters
<1>1. imports \in Nat /\ outside \in Nat
  BY SessionAssumption DEF InductiveInvariant, TypeOK
<1>2. CASE \E o \in Object, c \in Content : Import(o, c)
  BY <1>1, <1>2 DEF Import
<1>3. CASE \E o \in Object, c \in Content : ChangeOutside(o, c)
  BY <1>1, <1>3 DEF ChangeOutside
<1>4. CASE Close \/ Crash
  BY <1>4 DEF Close, Crash
<1> QED
  BY <1>2, <1>3, <1>4

(* No step breaks what retries and the draft rest on.                      *)
LEMMA StepStaging ==
  InductiveInvariant /\ StagingInvariant /\ [Next]_vars => StagingInvariant'
<1>1. CASE UNCHANGED vars
  BY <1>1 DEF vars, fileVars, clientVars, counters, StagingInvariant, ReceiptsInFile,
              EditsAreReceipted, DraftsAreCurrent, Dirty
<1>2. ASSUME InductiveInvariant, StagingInvariant, Next PROVE StagingInvariant'
  BY <1>2, BuildStaging, RequestStaging, OtherStaging DEF Next
<1> QED
  BY <1>1, <1>2

(* What retries of edits and the draft rest on holds in every reachable    *)
(* state.                                                                  *)
THEOREM StagingInvariance == Spec => []StagingInvariant
<1> QED
  BY InitStaging, StepStaging, SessionInvariance, PTL DEF Spec

(* Until the session is rebuilt no edit, undo or redo takes effect twice,  *)
(* however often it is sent and wherever the process crashed.              *)
THEOREM EditsTakeEffectOnce == Spec => []EffectOnceInSession
<1>1. StagingInvariant => EffectOnceInSession
  BY DEF StagingInvariant, EditsAreReceipted, EffectOnceInSession, EffectOnce
<1> QED
  BY <1>1, StagingInvariance, PTL

-----------------------------------------------------------------------------
(* The session implements StagedEditing.                                   *)

(* What the editor shows, and whether it holds edits that are nowhere else. *)
Draft   == Contents(IF file = "session" THEN live ELSE canonical)
Touched == file = "session" /\ Dirty /\ Contents(live) # Contents(canonical)

(* What the library says and what the editor shows name a text for each object. *)
LEMMA DraftsAreTyped ==
  ASSUME TypeOK
  PROVE  /\ Contents(canonical) \in Drafts!Library /\ Draft \in Drafts!Library
         /\ Touched \in BOOLEAN
BY DEF TypeOK, Workspace, Row, Contents, Drafts!Library, Draft, Touched

(* A step that leaves library, draft, end, conflict files and outside      *)
(* changes as they are is none of the draft's.                             *)
LEMMA Stutters ==
  ASSUME canonical' = canonical, Draft' = Draft, Touched' = Touched,
         (pc' = "remove") = (pc = "remove"), aside' = aside, outside' = outside
  PROVE  UNCHANGED Drafts!stagingVars
BY DEF Drafts!stagingVars, Draft, Touched, Contents

(* Opening the application keeps the draft, or sets it aside.              *)
LEMMA OpeningRefines ==
  ASSUME InductiveInvariant, StagingInvariant, Open \/ Recover \/ Preserve
  PROVE  [Drafts!Next]_(Drafts!stagingVars)
<1>1. CASE Open \/ Recover
  BY <1>1, Stutters DEF Open, Recover, Draft, Touched, Dirty, fileVars, counters
<1>2. CASE Preserve
  <2>1. /\ pc = "opening" /\ pc' = "create" /\ file' = "missing" /\ ~Compatible
        /\ UNCHANGED <<canonical, outside>>
    BY <1>2 DEF Preserve, ForgetFile, counters
  <2>2. Draft' = Contents(canonical) /\ Touched' = FALSE
    BY <2>1 DEF Draft, Touched, Contents
  <2>3. CASE file # "session"
    BY <1>2, <2>1, <2>2, <2>3, Stutters DEF Preserve, Draft, Touched
  <2>4. CASE file = "session"
    <3>1. aside' = aside \cup {Draft}
      BY <1>2, <2>4 DEF Preserve, Draft
    <3>2. Touched => outside > 0
      BY <2>1, <2>4
         DEF Touched, Compatible, StagingInvariant, DraftsAreCurrent, InductiveInvariant, TypeOK
    <3> QED
      BY <2>1, <2>2, <3>1, <3>2 DEF Drafts!Next, Drafts!SetAside, Draft, Touched, Contents
  <2> QED
    BY <2>3, <2>4
<1> QED
  BY <1>1, <1>2

(* Building the file again completes what ended the session.               *)
LEMMA BuildingRefines ==
  ASSUME InductiveInvariant, StagingInvariant, RemoveFile \/ CreateFile \/ WriteBaseline
  PROVE  [Drafts!Next]_(Drafts!stagingVars)
<1>1. CASE RemoveFile
  <2>1. /\ pc = "remove" /\ pc' = "create" /\ file' = "missing"
        /\ UNCHANGED <<canonical, aside, outside>>
    BY <1>1 DEF RemoveFile, ForgetFile, counters
  <2> QED
    BY <2>1 DEF Drafts!Next, Drafts!Finish, Contents
<1>2. CASE CreateFile
  <2>1. file = "missing" /\ file' = "partial" /\ UNCHANGED <<canonical, aside, outside>>
    BY <1>2 DEF CreateFile, counters, StagingInvariant, ReceiptsInFile
  <2> QED
    BY <1>2, <2>1, Stutters DEF CreateFile, Draft, Touched
<1>3. CASE WriteBaseline
  <2>1. /\ live = canonical /\ live' = live /\ base' = canonical
        /\ UNCHANGED <<canonical, aside, outside>> /\ pc = "baseline" /\ pc' = "idle"
    BY <1>3 DEF WriteBaseline, counters, InductiveInvariant, FileInPlace
  <2> QED
    BY <2>1, Stutters DEF Draft, Touched, Dirty
<1> QED
  BY <1>1, <1>2, <1>3

(* A request edits, saves or discards the draft, or leaves it alone.       *)
LEMMA RequestsRefine ==
  ASSUME InductiveInvariant, StagingInvariant, NEW t \in Tx, NEW request \in Requests(t),
         \/ Replay(t, request) \/ Refuse(t, request)
         \/ Edit(t, request) \/ Move(t, request)
         \/ Save(t, request) \/ SaveRefused(t, request)
         \/ Discard(t, request) \/ ReplayEnd(t, request),
         TypeOK'
  PROVE  [Drafts!Next]_(Drafts!stagingVars)
<1>1. /\ pc = "idle" /\ file = "session"
      /\ Contents(canonical)' \in Drafts!Library /\ Draft' \in Drafts!Library
      /\ Touched' \in BOOLEAN
  <2>1. pc = "idle"
    BY DEF Replay, Refuse, Edit, Move, Save, SaveRefused, Discard, ReplayEnd, Send
  <2>2. /\ Contents(canonical)' \in Drafts!Library /\ Draft' \in Drafts!Library
        /\ Touched' \in BOOLEAN
    BY DEF TypeOK, Workspace, Row, Contents, Drafts!Library, Draft, Touched
  <2> QED
    BY <2>1, <2>2 DEF InductiveInvariant, FileInPlace
<1>2. CASE Replay(t, request) \/ Refuse(t, request) \/ SaveRefused(t, request)
  BY <1>2, Stutters DEF Replay, Refuse, SaveRefused, Draft, Touched, Dirty, fileVars, counters
<1>3. CASE Edit(t, request) \/ Move(t, request)
  <2>1. UNCHANGED <<canonical, pc, aside, outside>>
    BY <1>3 DEF Edit, Move, Staged, counters
  <2> QED
    BY <1>1, <2>1 DEF Drafts!Next, Drafts!Edit, Draft, Touched, Contents
<1>4. CASE Save(t, request)
  <2>1. /\ Contents(canonical)' = Contents(live) /\ pc' = "remove"
        /\ UNCHANGED <<file, base, live, aside, outside>>
    BY <1>4, FinalStateSays DEF Save, InductiveInvariant, fileVars, counters, Contents
  <2> QED
    BY <1>1, <2>1 DEF Drafts!Next, Drafts!Save, Contents
<1>5. CASE Discard(t, request) \/ ReplayEnd(t, request)
  <2>1. pc' = "remove" /\ UNCHANGED <<canonical, file, base, live, aside, outside>>
    BY <1>5 DEF Discard, ReplayEnd, fileVars, counters
  <2> QED
    BY <1>1, <2>1 DEF Drafts!Next, Drafts!Discard, Contents, Dirty
<1> QED
  BY <1>2, <1>3, <1>4, <1>5

(* An import finds nothing to lose, and a change behind the session keeps  *)
(* the draft.                                                              *)
LEMMA LibraryRefines ==
  ASSUME InductiveInvariant, NEW o \in Object, NEW c \in Content,
         Import(o, c) \/ ChangeOutside(o, c), TypeOK'
  PROVE  [Drafts!Next]_(Drafts!stagingVars)
<1>1. Contents(canonical)' \in Drafts!Library /\ Touched' \in BOOLEAN
  BY DEF TypeOK, Workspace, Row, Contents, Drafts!Library, Touched
<1>2. CASE Import(o, c)
  <2>1. /\ pc = "idle" /\ pc' = "remove" /\ ~Dirty /\ file = "session"
        /\ UNCHANGED <<file, base, live, aside, outside>>
    BY <1>2 DEF Import, fileVars, InductiveInvariant, FileInPlace
  <2> QED
    BY <1>1, <2>1 DEF Drafts!Next, Drafts!Import, Contents, Dirty
<1>3. CASE ChangeOutside(o, c)
  <2>1. /\ pc # "remove" /\ pc' = pc /\ outside' = outside + 1
        /\ UNCHANGED <<file, base, live, aside>>
    BY <1>3 DEF ChangeOutside, fileVars
  <2>2. outside' > 0
    BY <2>1 DEF InductiveInvariant, TypeOK
  <2> QED
    BY <1>1, <2>1, <2>2 DEF Drafts!Next, Drafts!ChangeOutside, Contents, Touched
<1> QED
  BY <1>2, <1>3

(* The process ends between two steps, or while a session is being ended.  *)
LEMMA EndingRefines ==
  ASSUME Close \/ Crash
  PROVE  [Drafts!Next]_(Drafts!stagingVars)
<1>1. UNCHANGED <<canonical, file, base, live, aside, outside>> /\ pc' = "down"
  BY DEF Close, Crash, fileVars, counters
<1>2. CASE pc = "remove"
  BY <1>1, <1>2 DEF Drafts!Next, Drafts!Interrupt, Contents, Dirty
<1>3. CASE pc # "remove"
  BY <1>1, <1>3, Stutters DEF Draft, Touched, Dirty
<1> QED
  BY <1>2, <1>3

(* The session keeps the promise of StagedEditing: edits end only by being *)
(* saved, discarded or set aside whole, and survive everything else.       *)
THEOREM DraftsImplemented == Spec => ImplementsDrafts
<1>1. Init => Drafts!Init
  <2> SUFFICES ASSUME Init PROVE Drafts!Init
    OBVIOUS
  <2>1. file = "missing" /\ pc = "down" /\ aside = {} /\ outside = 0
    BY DEF Init
  <2>2. Contents(canonical) \in Drafts!Library
    BY InitialState, DraftsAreTyped DEF InductiveInvariant
  <2> QED
    BY <2>1, <2>2 DEF Drafts!Init
<1>2. InductiveInvariant /\ InductiveInvariant' /\ StagingInvariant /\ [Next]_vars =>
        [Drafts!Next]_(Drafts!stagingVars)
  <2> SUFFICES ASSUME InductiveInvariant, TypeOK', StagingInvariant, [Next]_vars
               PROVE  [Drafts!Next]_(Drafts!stagingVars)
    BY DEF InductiveInvariant
  <2>1. CASE UNCHANGED vars
    BY <2>1, Stutters DEF vars, fileVars, counters, Draft, Touched, Dirty
  <2>2. CASE Next
    BY <2>2, OpeningRefines, BuildingRefines, RequestsRefine, LibraryRefines, EndingRefines
       DEF Next
  <2> QED
    BY <2>1, <2>2
<1> QED
  BY <1>1, <1>2, SessionInvariance, StagingInvariance, PTL
     DEF Spec, ImplementsDrafts, Drafts!Spec
=============================================================================
