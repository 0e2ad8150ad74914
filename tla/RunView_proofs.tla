---------------------------- MODULE RunView_proofs ----------------------------
(* What the user sees of a run is something the run was, for any number of     *)
(* calls and events: every event and every answer was true when it was made,   *)
(* and histories only grow.                                                    *)
EXTENDS RunView, TLAPS

(* The history of each run is the old one, or goes on from it.                 *)
Later(old, new) ==
  /\ new \in [Runs -> Seq(States)]
  /\ \A r \in Runs : /\ Len(old[r]) <= Len(new[r])
                     /\ \A i \in 1 .. Len(old[r]) : new[r][i] = old[r][i]

(* A run that exists has a last state.                                       *)
LEMMA LastOfHistory ==
  ASSUME NEW h \in Seq(States), h # <<>>
  PROVE  /\ Len(h) \in Nat /\ Len(h) >= 1
         /\ Last(h) = h[Len(h)] /\ Last(h) \in States
BY DEF Last

(* One more state leads to a later history.                                    *)
LEMMA AppendIsLater ==
  ASSUME NEW old \in [Runs -> Seq(States)], NEW r \in Runs, NEW s \in States
  PROVE  LET new == [old EXCEPT ![r] = Append(@, s)]
         IN  Later(old, new) /\ new[r] # <<>>
<1> DEFINE new == [old EXCEPT ![r] = Append(@, s)]
<1>1. /\ new[r] = Append(old[r], s) /\ old[r] \in Seq(States)
      /\ \A q \in Runs : q # r => new[q] = old[q]
      /\ new \in [Runs -> Seq(States)]
  OBVIOUS
<1> HIDE DEF new
<1>2. /\ Len(new[r]) = Len(old[r]) + 1
      /\ \A i \in 1 .. Len(old[r]) : new[r][i] = old[r][i]
  BY <1>1
<1>3. \A q \in Runs : Len(old[q]) \in Nat
  OBVIOUS
<1>4. \A q \in Runs : /\ Len(old[q]) <= Len(new[q])
                      /\ \A i \in 1 .. Len(old[q]) : new[q][i] = old[q][i]
  <2> TAKE q \in Runs
  <2>1. CASE q = r
    BY <1>2, <1>3, <2>1
  <2>2. CASE q # r
    BY <1>1, <1>3, <2>2
  <2> QED
    BY <2>1, <2>2
<1>5. Later(old, new) /\ new[r] # <<>>
  BY <1>1, <1>4 DEF Later
<1> QED
  BY <1>5 DEF new

(* What the repository answers for a history shows a state in it.              *)
LEMMA StoredIsRecorded ==
  ASSUME NEW h \in [Runs -> Seq(States)], NEW r \in Runs
  PROVE  /\ Stored(h, r) \in Row \cup {NoRow}
         /\ h[r] # <<>> => Stored(h, r) # NoRow
         /\ Stored(h, r) # NoRow => /\ Stored(h, r).seq < Len(h[r])
                                    /\ h[r][Stored(h, r).seq + 1] = Stored(h, r).state
<1>1. CASE h[r] = <<>>
  BY <1>1 DEF Stored
<1>2. CASE h[r] # <<>>
  <2>1. /\ Len(h[r]) \in Nat /\ Len(h[r]) >= 1
        /\ Last(h[r]) = h[r][Len(h[r])] /\ Last(h[r]) \in States
    BY <1>2, LastOfHistory
  <2>2. /\ Stored(h, r).seq = Len(h[r]) - 1 /\ Stored(h, r).state = Last(h[r])
        /\ Stored(h, r) \in Row
    BY <1>2, <2>1 DEF Stored, Row
  <2>3. Stored(h, r) # NoRow
    BY <2>1, <2>2 DEF NoRow, States
  <2> QED
    BY <2>1, <2>2, <2>3
<1> QED
  BY <1>1, <1>2

(* So does every answer about all runs.                                        *)
LEMMA AnswerIsRecorded ==
  ASSUME NEW h \in [Runs -> Seq(States)]
  PROVE  /\ AllStored(h) \in Rows
         /\ \A r \in Runs : /\ h[r] # <<>> => AllStored(h)[r] # NoRow
                            /\ AllStored(h)[r] # NoRow =>
                                 /\ AllStored(h)[r].seq < Len(h[r])
                                 /\ h[r][AllStored(h)[r].seq + 1] = AllStored(h)[r].state
<1>1. \A r \in Runs : AllStored(h)[r] = Stored(h, r)
  BY DEF AllStored
<1>2. AllStored(h) \in Rows
  BY StoredIsRecorded DEF AllStored, Rows
<1> QED
  BY <1>1, <1>2, StoredIsRecorded

(* A notice made of a history tells of its newest state.                       *)
LEMMA NoticeIsRecorded ==
  ASSUME NEW h \in [Runs -> Seq(States)], NEW r \in Runs, h[r] # <<>>
  PROVE  /\ Latest(h, r) \in Event /\ Latest(h, r).run = r
         /\ Latest(h, r).seq < Len(h[r])
         /\ h[r][Latest(h, r).seq + 1] = Latest(h, r).state
<1>1. /\ Len(h[r]) \in Nat /\ Len(h[r]) >= 1
      /\ Last(h[r]) = h[r][Len(h[r])] /\ Last(h[r]) \in States
  BY LastOfHistory
<1> QED
  BY <1>1 DEF Latest, Event

(* What was recorded stays recorded.                                           *)
LEMMA RecordedStays ==
  ASSUME log \in [Runs -> Seq(States)], Later(log, log'),
         NEW r \in Runs, NEW row, row.seq \in Nat, Recorded(r, row)
  PROVE  Recorded(r, row)'
<1>1. Len(log[r]) \in Nat /\ Len(log'[r]) \in Nat
  BY DEF Later
<1>2. row.seq + 1 \in 1 .. Len(log[r])
  BY <1>1 DEF Recorded
<1> QED
  BY <1>1, <1>2 DEF Recorded, Later

-----------------------------------------------------------------------------
(* Histories.                                                                  *)

(* What a call makes of the histories: the same, or later ones, in which a     *)
(* call that reads a run finds it.                                             *)
LEMMA AfterIsLater ==
  ASSUME InductiveInvariant, NEW c \in DOMAIN calls
  PROVE  /\ Later(log, After(c))
         /\ calls[c].kind # "list" => After(c)[calls[c].run] # <<>>
         /\ log[OldRun] # <<>> => After(c)[OldRun] # <<>>
<1> DEFINE r == calls[c].run
<1>1. /\ log \in [Runs -> Seq(States)] /\ calls[c] \in Call
      /\ r \in Runs /\ calls[c].kind \in Kinds /\ OldRun \in Runs
      /\ calls[c].kind \in {"cancel", "status"} => log[r] # <<>>
      /\ \A q \in Runs : Len(log[q]) \in Nat
  <2>1. calls \in Seq(Call) /\ log \in [Runs -> Seq(States)]
    BY DEF InductiveInvariant, TypeOK
  <2>2. calls[c] \in Call
    BY <2>1
  <2>3. r \in Runs /\ calls[c].kind \in Kinds
    BY <2>2 DEF Call
  <2>4. calls[c].kind \in {"cancel", "status"} => log[r] # <<>>
    BY DEF InductiveInvariant, InformedCall
  <2>5. \A q \in Runs : Len(log[q]) \in Nat
    BY <2>1
  <2> QED
    BY <2>1, <2>2, <2>3, <2>4, <2>5 DEF Runs
<1> HIDE DEF r
<1>2. CASE calls[c].kind = "start" /\ log[r] = <<>>
  <2>1. After(c) = [log EXCEPT ![r] = <<"queued">>]
    BY <1>2 DEF After, r
  <2>2. /\ After(c)[r] = <<"queued">> /\ After(c) \in [Runs -> Seq(States)]
        /\ \A q \in Runs : q # r => After(c)[q] = log[q]
    BY <1>1, <2>1 DEF States
  <2>3. Len(log[r]) = 0 /\ 1 .. Len(log[r]) = {} /\ Len(After(c)[r]) = 1
    BY <1>2, <2>2
  <2>4. /\ \A q \in Runs : Len(log[q]) <= Len(After(c)[q])
        /\ \A q \in Runs : \A i \in 1 .. Len(log[q]) : After(c)[q][i] = log[q][i]
    <3>1. ASSUME NEW q \in Runs
          PROVE  /\ Len(log[q]) <= Len(After(c)[q])
                 /\ \A i \in 1 .. Len(log[q]) : After(c)[q][i] = log[q][i]
      <4>1. CASE q = r
        BY <2>3, <4>1
      <4>2. CASE q # r
        BY <1>1, <2>2, <4>2
      <4> QED
        BY <4>1, <4>2
    <3> QED
      BY <3>1
  <2>5. Later(log, After(c))
    BY <2>2, <2>4 DEF Later
  <2>6. \A q \in Runs : log[q] # <<>> => After(c)[q] # <<>>
    BY <1>2, <2>2
  <2> QED
    BY <1>1, <2>2, <2>5, <2>6 DEF r
<1>3. CASE calls[c].kind = "cancel" /\ Cancelled(Last(log[r])) # Last(log[r])
  <2>1. After(c) = [log EXCEPT ![r] = Append(@, Cancelled(Last(log[r])))]
    BY <1>3 DEF After, r
  <2>2. Cancelled(Last(log[r])) \in States
    BY <1>3 DEF Cancelled, States
  <2>3. Later(log, After(c)) /\ After(c)[r] # <<>>
    BY <1>1, <2>1, <2>2, AppendIsLater
  <2>4. \A q \in Runs : q # r => After(c)[q] = log[q]
    BY <1>1, <2>1
  <2> QED
    BY <1>1, <2>3, <2>4 DEF r
<1>4. CASE /\ ~(calls[c].kind = "start" /\ log[r] = <<>>)
           /\ ~(calls[c].kind = "cancel" /\ Cancelled(Last(log[r])) # Last(log[r]))
  <2>1. After(c) = log
    BY <1>4 DEF After, r
  <2> QED
    BY <1>1, <1>4, <2>1 DEF Later, Kinds, r
<1> QED
  BY <1>2, <1>3, <1>4

(* The worker goes on to a state.                                              *)
LEMMA SuccessorsAreStates ==
  ASSUME NEW h PROVE Successors(h) \subseteq States
BY DEF Successors, States

(* No step rewrites a history.                                                 *)
LEMMA LogStep ==
  ASSUME InductiveInvariant, Next
  PROVE  Later(log, log') /\ log'[OldRun] # <<>>
<1>1. /\ log \in [Runs -> Seq(States)] /\ stdin \in Seq(DOMAIN calls)
      /\ log[OldRun] # <<>> /\ OldRun \in Runs /\ NewRun \in Runs

  BY DEF InductiveInvariant, TypeOK, Runs
<1>2. CASE log' = log
  BY <1>1, <1>2 DEF Later
<1>3. CASE Execute
  <2>1. log' = After(Head(stdin)) /\ Head(stdin) \in DOMAIN calls
    BY <1>1, <1>3 DEF Execute
  <2> QED
    BY <1>1, <2>1, AfterIsLater
<1>4. CASE Work
  <2>1. PICK next \in States : log' = [log EXCEPT ![NewRun] = Append(@, next)]
    BY <1>4, SuccessorsAreStates DEF Work
  <2>2. Later(log, log') /\ log'[NewRun] # <<>>
    BY <1>1, <2>1, AppendIsLater
  <2>3. OldRun # NewRun => log'[OldRun] = log[OldRun]
    BY <1>1, <2>1
  <2> QED
    BY <1>1, <2>2, <2>3
<1>5. Next => log' = log \/ Execute \/ Work
  BY DEF Next, Respond, Resume, ReadMessage, Break, StartRun, CancelRun, RefreshRuns,
         Command, Select, ApplyRunEvent, backendVars
<1> QED
  BY <1>2, <1>3, <1>4, <1>5

-----------------------------------------------------------------------------
(* Calls and messages.                                                         *)

(* A sequence over a set is one over every larger set.                       *)
LEMMA SeqOfMore ==
  ASSUME NEW S, NEW T, S \subseteq T, NEW s \in Seq(S) PROVE s \in Seq(T)
<1>1. Len(s) \in Nat /\ DOMAIN s = 1 .. Len(s) /\ s = [i \in 1 .. Len(s) |-> s[i]]
  OBVIOUS
<1>2. \A i \in 1 .. Len(s) : s[i] \in T
  BY <1>1
<1> QED
  BY <1>1, <1>2

(* What a state of the runs made true stays true as histories grow.            *)
LEMMA InformationStays ==
  ASSUME InductiveInvariant, Later(log, log')
  PROVE  /\ RecordedEvent \subseteq RecordedEvent'
         /\ InformedCall \subseteq InformedCall'
         /\ \A r \in Runs : \A row \in Row : Recorded(r, row) => Recorded(r, row)'
<1>1. log \in [Runs -> Seq(States)]
  BY DEF InductiveInvariant, TypeOK
<1>2. ASSUME NEW e \in RecordedEvent PROVE e \in RecordedEvent'
  <2>1. e \in Event /\ e.run \in Runs /\ e.seq \in Nat /\ Recorded(e.run, e)
    BY DEF RecordedEvent, Event
  <2>2. Recorded(e.run, e)'
    BY <1>1, <2>1, RecordedStays
  <2> QED
    BY <2>1, <2>2 DEF RecordedEvent
<1>3. ASSUME NEW r \in Runs, NEW row \in Row, Recorded(r, row) PROVE Recorded(r, row)'
  <2>1. row.seq \in Nat
    BY DEF Row
  <2> QED
    BY <1>1, <1>3, <2>1, RecordedStays
<1>4. ASSUME NEW c \in InformedCall PROVE c \in InformedCall'
  <2>1. /\ c \in Call /\ c.run \in Runs /\ c.answer \in Rows
        /\ \A r \in Runs : c.answer[r] # NoRow => Recorded(r, c.answer[r])
        /\ c.answer[OldRun] # NoRow
        /\ c.at \in {"served", "written", "answered"} => Served(c)
        /\ c.kind \in {"cancel", "status"} => log[c.run] # <<>>
    BY DEF InformedCall, Call
  <2>2. \A r \in Runs : c.answer[r] # NoRow => Recorded(r, c.answer[r])'
    <3> SUFFICES ASSUME NEW r \in Runs, c.answer[r] # NoRow
                 PROVE  Recorded(r, c.answer[r])'
      OBVIOUS
    <3>1. c.answer[r] \in Row
      BY <2>1 DEF Rows
    <3> QED
      BY <1>3, <2>1, <3>1
  <2>3. log[c.run] # <<>> => log'[c.run] # <<>>
    BY <1>1, <2>1 DEF Later
  <2> QED
    BY <2>1, <2>2, <2>3 DEF InformedCall, Served
<1> QED
  BY <1>2, <1>3, <1>4

(* A run with a recorded state has a history.                                  *)
LEMMA RecordedExists ==
  ASSUME NEW r \in Runs, NEW row, row.seq \in Nat, log \in [Runs -> Seq(States)],
         Recorded(r, row)
  PROVE  log[r] # <<>>
BY DEF Recorded

(* An answer made of the histories informs its caller.                         *)
LEMMA FreshAnswer ==
  ASSUME NEW h \in [Runs -> Seq(States)], h[OldRun] # <<>>, log' = h
  PROVE  /\ AllStored(h) \in Rows
         /\ \A r \in Runs : AllStored(h)[r] # NoRow => Recorded(r, AllStored(h)[r])'
         /\ AllStored(h)[OldRun] # NoRow
         /\ \A r \in Runs : h[r] # <<>> => AllStored(h)[r] # NoRow
BY AnswerIsRecorded DEF Recorded, Runs

(* Every step keeps the calls informed, and none forgets that it was served.   *)
LEMMA CallsStep ==
  ASSUME InductiveInvariant, Next
  PROVE  /\ calls' \in Seq(InformedCall')
         /\ DOMAIN calls \subseteq DOMAIN calls'
         /\ \A c \in DOMAIN calls : Served(calls[c]) => Served(calls'[c])
<1> DEFINE Kept == /\ calls' \in Seq(InformedCall')
                   /\ DOMAIN calls \subseteq DOMAIN calls'
                   /\ \A c \in DOMAIN calls : Served(calls[c]) => Served(calls'[c])
<1>1. /\ calls \in Seq(InformedCall) /\ calls \in Seq(InformedCall')
      /\ \A c \in DOMAIN calls : calls[c] \in InformedCall /\ calls[c] \in InformedCall'
      /\ log \in [Runs -> Seq(States)] /\ log' \in [Runs -> Seq(States)]
      /\ log[OldRun] # <<>>
  <2>1. Later(log, log') /\ InformedCall \subseteq InformedCall'
    BY LogStep, InformationStays
  <2>2. calls \in Seq(InformedCall)
    BY DEF InductiveInvariant
  <2>3. calls \in Seq(InformedCall')
    BY <2>1, <2>2, SeqOfMore
  <2> QED
    BY <2>1, <2>2, <2>3 DEF InductiveInvariant, TypeOK, Later
<1>2. CASE calls' = calls
  BY <1>1, <1>2
<1>3. ASSUME NEW c \in DOMAIN calls, NEW new \in InformedCall',
             calls' = [calls EXCEPT ![c] = new], Served(calls[c]) => Served(new)
      PROVE  Kept
  BY <1>1, <1>3
<1>4. ASSUME NEW c \in DOMAIN calls, NEW at,
             at \in {"written", "answered", "resumed"},
             at # "resumed" => Served(calls[c]),
             calls' = [calls EXCEPT ![c].at = at]
      PROVE  Kept
  <2> DEFINE old == calls[c]
             new == [old EXCEPT !.at = at]
  <2>1. old \in InformedCall' /\ old \in Call
    BY <1>1 DEF InformedCall
  <2>2. /\ new \in Call /\ new.kind = old.kind /\ new.run = old.run
        /\ new.answer = old.answer /\ new.at = at
    BY <1>4, <2>1 DEF Call
  <2>3. new \in InformedCall' /\ (Served(old) => Served(new))
    BY <1>4, <2>1, <2>2 DEF InformedCall, Served
  <2> QED
    BY <1>3, <1>4, <2>3
<1>5. CASE Execute
  <2>1. PICK c \in DOMAIN calls, h \in [Runs -> Seq(States)] :
          /\ h = After(c) /\ log' = h
          /\ calls' = [calls EXCEPT ![c] = [calls[c] EXCEPT !.at = "served",
                                                       !.answer = AllStored(h)]]
    <3>1. stdin \in Seq(DOMAIN calls) /\ stdin # <<>>
      BY <1>5 DEF Execute, InductiveInvariant, TypeOK
    <3>2. Head(stdin) \in DOMAIN calls
      BY <3>1
    <3> QED
      BY <1>1, <1>5, <3>2 DEF Execute
  <2> DEFINE new == [calls[c] EXCEPT !.at = "served", !.answer = AllStored(h)]
  <2>2. /\ calls[c] \in Call /\ calls[c].run \in Runs
        /\ calls[c].kind # "list" => h[calls[c].run] # <<>>
        /\ h[OldRun] # <<>>
        /\ calls[c].kind \in {"cancel", "status"} => h[calls[c].run] # <<>>
    <3>1. calls[c] \in Call /\ calls[c].run \in Runs
      BY <1>1 DEF InformedCall, Call
    <3>2. /\ calls[c].kind # "list" => h[calls[c].run] # <<>>
          /\ h[OldRun] # <<>>
      BY <1>1, <2>1, AfterIsLater
    <3> QED
      BY <3>1, <3>2
  <2>3. /\ AllStored(h) \in Rows
        /\ \A r \in Runs : AllStored(h)[r] # NoRow => Recorded(r, AllStored(h)[r])'
        /\ AllStored(h)[OldRun] # NoRow
        /\ \A r \in Runs : h[r] # <<>> => AllStored(h)[r] # NoRow
    BY <2>1, <2>2, FreshAnswer
  <2>4. /\ new \in Call /\ new.kind = calls[c].kind /\ new.run = calls[c].run
        /\ new.answer = AllStored(h) /\ new.at = "served"
    BY <2>2, <2>3 DEF Call
  <2> HIDE DEF new
  <2>5. Served(new)
    BY <2>2, <2>3, <2>4 DEF Served
  <2>6. new \in InformedCall'
    <3>1. new.kind \in {"cancel", "status"} => log'[new.run] # <<>>
      BY <2>1, <2>2, <2>4
    <3> QED
      BY <2>3, <2>4, <2>5, <3>1 DEF InformedCall, Served
  <2>7. calls' = [calls EXCEPT ![c] = new]
    BY <2>1 DEF new
  <2> QED
    BY <1>3, <2>5, <2>6, <2>7
<1>6. ASSUME NEW c \in DOMAIN calls, Respond(c) \/ Resume(c) PROVE Kept
  <2>1. calls[c].at = "served" => Served(calls[c])
    BY <1>1 DEF InformedCall
  <2> QED
    BY <1>4, <1>6, <2>1 DEF Respond, Resume
<1>7. CASE ReadMessage
  <2>1. stdout \in Seq(Message) /\ Head(stdout) \in Message
    BY <1>7 DEF ReadMessage, InductiveInvariant
  <2>2. CASE /\ "call" \in DOMAIN Head(stdout)
             /\ calls' = [calls EXCEPT ![Head(stdout).call].at = "answered"]
    <3>1. /\ Head(stdout).call \in DOMAIN calls
          /\ Served(calls[Head(stdout).call])
      BY <2>1, <2>2 DEF Message
    <3> QED
      BY <1>4, <2>2, <3>1
  <2> QED
    BY <1>2, <1>7, <2>2 DEF ReadMessage
<1>8. CASE Break
  <2>1. calls' = [c \in DOMAIN calls |->
          [calls[c] EXCEPT !.at = IF @ \in {"asked", "served", "written"} THEN "failed" ELSE @]]
    BY <1>8 DEF Break
  <2>2. ASSUME NEW c \in DOMAIN calls
        PROVE  /\ calls'[c] \in InformedCall'
               /\ Served(calls[c]) => Served(calls'[c])
    <3>1. calls[c] \in InformedCall' /\ calls[c] \in Call
      BY <1>1 DEF InformedCall
    <3>2. /\ calls'[c] \in Call /\ calls'[c].kind = calls[c].kind
          /\ calls'[c].run = calls[c].run /\ calls'[c].answer = calls[c].answer
          /\ calls'[c].at \in {calls[c].at, "failed"}
      BY <2>1, <3>1 DEF Call
    <3> QED
      BY <3>1, <3>2 DEF InformedCall, Served
  <2>3. DOMAIN calls = 1 .. Len(calls) /\ Len(calls) \in Nat
    BY <1>1
  <2>4. calls' \in Seq(InformedCall')
    BY <2>1, <2>2, <2>3
  <2> QED
    BY <2>1, <2>2, <2>4
<1>9. ASSUME NEW kind \in Kinds, NEW r \in Runs, Ask(kind, r), log' = log,
             kind \in {"cancel", "status"} => log[r] # <<>>
      PROVE  Kept
  <2> DEFINE new == [kind |-> kind, run |-> r, answer |-> AllStored(log), at |-> "asked"]
  <2>1. calls' = Append(calls, new)
    BY <1>9 DEF Ask
  <2>2. /\ AllStored(log) \in Rows
        /\ \A q \in Runs : AllStored(log)[q] # NoRow => Recorded(q, AllStored(log)[q])'
        /\ AllStored(log)[OldRun] # NoRow
    BY <1>1, <1>9, FreshAnswer
  <2>3. /\ new \in Call /\ new.kind = kind /\ new.run = r
        /\ new.answer = AllStored(log) /\ new.at = "asked"
    BY <2>2 DEF Call
  <2> HIDE DEF new
  <2>4. new \in InformedCall'
    BY <1>9, <2>2, <2>3 DEF InformedCall
  <2>5. DOMAIN calls = 1 .. Len(calls) /\ Len(calls) \in Nat
    BY <1>1
  <2> QED
    BY <1>1, <2>1, <2>4, <2>5
<1>10. CASE StartRun \/ CancelRun \/ RefreshRuns
  <2>1. /\ shown.run \in Runs /\ shown.row \in Row /\ Recorded(shown.run, shown.row)
        /\ NewRun \in Runs /\ {"start", "cancel", "list"} \subseteq Kinds
    BY DEF InductiveInvariant, TypeOK, ShownIsRecorded, Runs, Kinds
  <2>2. shown.row.seq \in Nat
    BY <2>1 DEF Row
  <2>3. log[shown.run] # <<>>
    BY <1>1, <2>1, <2>2, RecordedExists
  <2> QED
    BY <1>9, <1>10, <2>1, <2>3 DEF StartRun, CancelRun, RefreshRuns, Command
<1>11. CASE ApplyRunEvent
  <2> DEFINE e == Head(posted)
  <2>1. posted \in Seq(RecordedEvent) /\ e \in RecordedEvent
    BY <1>11 DEF ApplyRunEvent, InductiveInvariant
  <2>2. e.run \in Runs /\ e.seq \in Nat /\ Recorded(e.run, e) /\ "status" \in Kinds
    BY <2>1 DEF RecordedEvent, Event, Kinds
  <2>3. log[e.run] # <<>>
    BY <1>1, <2>2, RecordedExists
  <2>4. log' = log /\ (calls' = calls \/ Ask("status", e.run))
    BY <1>11 DEF ApplyRunEvent
  <2> HIDE DEF e
  <2> QED
    BY <1>2, <1>9, <2>2, <2>3, <2>4
<1>12. CASE Work \/ \E r \in Runs : Select(r)
  BY <1>2, <1>12 DEF Work, Select
<1> QED
  BY <1>5, <1>6, <1>7, <1>8, <1>10, <1>11, <1>12 DEF Next

(* Every step keeps the messages in stdout true.                               *)
LEMMA StdoutStep ==
  ASSUME InductiveInvariant, Next
  PROVE  stdout' \in Seq(Message')
<1>1. /\ RecordedEvent \subseteq RecordedEvent' /\ log' \in [Runs -> Seq(States)]
      /\ \A c \in DOMAIN calls : c \in DOMAIN calls' /\
                                (Served(calls[c]) => Served(calls'[c]))
  BY LogStep, InformationStays, CallsStep DEF Later
<1>2. Message \subseteq Message'
  BY <1>1 DEF Message
<1>3. stdout \in Seq(Message')
  <2>1. stdout \in Seq(Message)
    BY DEF InductiveInvariant
  <2> QED
    BY <1>2, <2>1, SeqOfMore
<1>4. CASE stdout' = stdout
  BY <1>3, <1>4
<1>5. ASSUME NEW r \in Runs, NEW h \in [Runs -> Seq(States)], log' = h, h[r] # <<>>
      PROVE  Notice(h, r) \in Message'
  <2>1. Latest(h, r) \in RecordedEvent'
    <3>1. /\ Latest(h, r) \in Event /\ Latest(h, r).run = r
          /\ Latest(h, r).seq < Len(h[r])
          /\ h[r][Latest(h, r).seq + 1] = Latest(h, r).state
      BY <1>5, NoticeIsRecorded
    <3> QED
      BY <1>5, <3>1 DEF RecordedEvent, Recorded
  <2> QED
    BY <2>1 DEF Notice, Message
<1>6. CASE Execute
  <2>1. PICK c \in DOMAIN calls, h \in [Runs -> Seq(States)] :
          /\ h = After(c) /\ log' = h
          /\ stdout' = stdout \o (IF calls[c].kind = "cancel" /\ h # log
                                  THEN <<Notice(h, calls[c].run)>> ELSE <<>>)
    <3>1. stdin \in Seq(DOMAIN calls) /\ stdin # <<>>
      BY <1>6 DEF Execute, InductiveInvariant, TypeOK
    <3>2. Head(stdin) \in DOMAIN calls
      BY <3>1
    <3> QED
      BY <1>1, <1>6, <3>2 DEF Execute
  <2>2. CASE ~(calls[c].kind = "cancel" /\ h # log)
    BY <1>3, <2>1, <2>2
  <2>3. CASE calls[c].kind = "cancel" /\ h # log
    <3>1. calls[c].run \in Runs /\ h[calls[c].run] # <<>>
      <4>1. calls[c] \in InformedCall
        BY DEF InductiveInvariant
      <4>2. calls[c].run \in Runs
        BY <4>1 DEF InformedCall, Call
      <4> QED
        BY <2>1, <2>3, <4>2, AfterIsLater
    <3>2. Notice(h, calls[c].run) \in Message'
      BY <1>5, <2>1, <3>1
    <3> QED
      BY <1>3, <2>1, <2>3, <3>2
  <2> QED
    BY <2>2, <2>3
<1>7. ASSUME NEW c \in DOMAIN calls, Respond(c) PROVE stdout' \in Seq(Message')
  <2>1. Served(calls[c])
    <3>1. calls[c] \in InformedCall /\ calls[c].at = "served"
      BY <1>7 DEF Respond, InductiveInvariant
    <3> QED
      BY <3>1 DEF InformedCall
  <2>2. Response(c) \in Message'
    BY <1>1, <2>1 DEF Response, Message
  <2> QED
    BY <1>3, <1>7, <2>2 DEF Respond
<1>8. CASE Work
  <2>1. PICK h \in [Runs -> Seq(States)] :
          log' = h /\ stdout' = Append(stdout, Notice(h, NewRun))
    BY <1>1, <1>8 DEF Work
  <2>2. NewRun \in Runs /\ log[NewRun] # <<>> /\ log \in [Runs -> Seq(States)]
    BY <1>8 DEF Work, Runs, InductiveInvariant, TypeOK
  <2>3. h[NewRun] # <<>>
    BY <2>1, <2>2, LogStep DEF Later
  <2> QED
    BY <1>3, <1>5, <2>1, <2>2, <2>3
<1>9. CASE ReadMessage
  BY <1>3, <1>9 DEF ReadMessage
<1>10. CASE Break
  BY <1>10 DEF Break
<1>11. Next => \/ stdout' = stdout \/ Execute \/ Work \/ ReadMessage \/ Break
               \/ \E c \in DOMAIN calls : Respond(c)
  BY DEF Next, Resume, StartRun, CancelRun, RefreshRuns, Command, Select, ApplyRunEvent
<1> QED
  BY <1>4, <1>6, <1>7, <1>8, <1>9, <1>10, <1>11

(* Every step keeps the events posted to the UI true.                          *)
LEMMA PostedStep ==
  ASSUME InductiveInvariant, Next
  PROVE  posted' \in Seq(RecordedEvent')
<1>1. RecordedEvent \subseteq RecordedEvent'
  BY LogStep, InformationStays
<1>2. posted \in Seq(RecordedEvent')
  BY <1>1, SeqOfMore DEF InductiveInvariant
<1>3. CASE posted' = posted
  BY <1>2, <1>3
<1>4. CASE ReadMessage
  <2>1. Head(stdout) \in Message
    BY <1>4 DEF ReadMessage, InductiveInvariant
  <2>2. "event" \in DOMAIN Head(stdout) => Head(stdout).event \in RecordedEvent'
    BY <1>1, <2>1 DEF Message
  <2> QED
    BY <1>2, <1>4, <2>2 DEF ReadMessage
<1>5. CASE ApplyRunEvent
  BY <1>2, <1>5 DEF ApplyRunEvent
<1>6. Next => posted' = posted \/ ReadMessage \/ ApplyRunEvent
  BY DEF Next, Execute, Work, Break, Respond, Resume, StartRun, CancelRun, RefreshRuns,
         Command, Select
<1> QED
  BY <1>3, <1>4, <1>5, <1>6

(* The requests on their way are calls that were made.                         *)
LEMMA StdinStep ==
  ASSUME InductiveInvariant, Next
  PROVE  stdin' \in Seq(DOMAIN calls')
<1>1. /\ DOMAIN calls \subseteq DOMAIN calls' /\ calls \in Seq(InformedCall)
      /\ stdin \in Seq(DOMAIN calls)
  BY CallsStep DEF InductiveInvariant, TypeOK
<1>2. stdin \in Seq(DOMAIN calls')
  BY <1>1, SeqOfMore
<1>3. CASE stdin' \in {stdin, <<>>}
  <2>1. PICK D : D = DOMAIN calls'
    OBVIOUS
  <2>2. <<>> \in Seq(D)
    OBVIOUS
  <2> QED
    BY <1>2, <1>3, <2>1, <2>2
<1>4. CASE stdin # <<>> /\ stdin' = Tail(stdin)
  BY <1>2, <1>4
<1>5. ASSUME NEW kind, NEW r, Ask(kind, r) PROVE stdin' \in Seq(DOMAIN calls')
  <2>1. /\ Len(calls) + 1 \in DOMAIN calls'
        /\ stdin' = Append(stdin, Len(calls) + 1)
    BY <1>1, <1>5 DEF Ask
  <2> QED
    BY <1>2, <2>1
<1>6. Next => \/ stdin' \in {stdin, <<>>} \/ (stdin # <<>> /\ stdin' = Tail(stdin))
              \/ \E kind, r : Ask(kind, r)
  BY DEF Next, Execute, Work, ReadMessage, Break, Respond, Resume, StartRun, CancelRun,
         RefreshRuns, Command, Select, ApplyRunEvent, backendVars
<1> QED
  BY <1>3, <1>4, <1>5, <1>6

-----------------------------------------------------------------------------
(* What is shown.                                                              *)

(* Every step keeps what is shown, and what is listed, a state its run was in. *)
LEMMA ShownStep ==
  ASSUME InductiveInvariant, Next
  PROVE  /\ items' \in Rows /\ shown' \in [run : Runs, row : Row] /\ busy' \in BOOLEAN
         /\ ShownIsRecorded'
<1>0. PICK h : h = log'
  OBVIOUS
<1> DEFINE True == /\ items' \in Rows /\ shown' \in [run : Runs, row : Row]
                   /\ ShownIsRecorded'
           Said(r, row) == /\ row \in Row /\ row.seq < Len(h[r])
                           /\ h[r][row.seq + 1] = row.state
<1>1. /\ items \in Rows /\ shown.run \in Runs /\ Said(shown.run, shown.row)
      /\ shown \in [run : Runs, row : Row]
      /\ \A r \in Runs : items[r] # NoRow => Said(r, items[r])
      /\ \A c \in DOMAIN calls : calls[c] \in InformedCall
  <2>1. \A r \in Runs : \A row \in Row : Recorded(r, row) => Said(r, row)
    BY <1>0, LogStep, InformationStays DEF Recorded
  <2>2. /\ items \in Rows /\ shown \in [run : Runs, row : Row] /\ ShownIsRecorded
        /\ calls \in Seq(InformedCall)
    BY DEF InductiveInvariant, TypeOK
  <2>3. shown.run \in Runs /\ shown.row \in Row
    BY <2>2
  <2>4. \A r \in Runs : items[r] # NoRow => items[r] \in Row
    BY <2>2 DEF Rows
  <2> QED
    BY <2>1, <2>2, <2>3, <2>4 DEF ShownIsRecorded
<1>2. busy' \in BOOLEAN
  BY DEF InductiveInvariant, TypeOK, Next, Execute, Work, ReadMessage, Break, Respond,
         Resume, StartRun, CancelRun, RefreshRuns, Command, Select, ApplyRunEvent, viewVars
<1>3. CASE UNCHANGED <<items, shown>>
  <2>1. /\ items' \in Rows /\ shown' \in [run : Runs, row : Row]
        /\ shown'.row.seq < Len(h[shown'.run])
        /\ h[shown'.run][shown'.row.seq + 1] = shown'.row.state
    BY <1>1, <1>3
  <2>2. \A r \in Runs : items'[r] # NoRow => Said(r, items'[r])
    BY <1>1, <1>3
  <2> QED
    BY <1>0, <1>2, <2>1, <2>2 DEF ShownIsRecorded, Recorded
<1>4. ASSUME NEW r \in Runs, NEW row, Said(r, row), Show(r, row) PROVE True
  <2>1. /\ items' = [items EXCEPT ![r] = row] /\ shown' = [run |-> r, row |-> row]
        /\ row \in Row
    BY <1>4 DEF Show
  <2>2. items' \in Rows /\ \A q \in Runs : items'[q] = IF q = r THEN row ELSE items[q]
    BY <1>1, <2>1 DEF Rows
  <2> QED
    BY <1>0, <1>1, <1>4, <2>1, <2>2 DEF ShownIsRecorded, Recorded
<1>5. ASSUME NEW r \in Runs, Select(r) PROVE True
  <2>1. /\ items[r] \in Row /\ Said(r, items[r]) /\ items' = items
        /\ shown' = [run |-> r, row |-> items[r]]
    BY <1>1, <1>5 DEF Select
  <2> QED
    BY <1>0, <1>1, <2>1 DEF ShownIsRecorded, Recorded
<1>6. ASSUME NEW c \in DOMAIN calls, Resume(c), ~UNCHANGED <<items, shown>> PROVE True
  <2> DEFINE call == calls[c]
  <2>1. /\ Answered(c) /\ Served(call) /\ log' = log
        /\ call \in Call /\ call.run \in Runs /\ call.kind \in Kinds /\ call.answer \in Rows
        /\ \A r \in Runs : call.answer[r] # NoRow => Recorded(r, call.answer[r])
        /\ call.answer[OldRun] # NoRow
    <3>1. call \in InformedCall /\ Answered(c) /\ call.at = "answered" /\ log' = log
      BY <1>1, <1>6 DEF Resume, backendVars
    <3> QED
      BY <3>1 DEF InformedCall, Call
  <2>2. \A r \in Runs : call.answer[r] # NoRow => Said(r, call.answer[r])
    BY <1>0, <2>1 DEF Rows, Recorded
  <2>3. CASE call.kind \in {"start", "status"} /\ Show(call.run, call.answer[call.run])
    BY <1>4, <2>1, <2>2, <2>3 DEF Served
  <2>4. CASE /\ call.kind = "cancel"
             /\ Show(call.run, [call.answer[call.run] EXCEPT !.result = shown.row.result])
    <3> DEFINE old == call.answer[call.run]
               row == [old EXCEPT !.result = shown.row.result]
    <3>1. Said(call.run, old)
      BY <2>1, <2>2, <2>4 DEF Served
    <3>2. row \in Row /\ row.seq = old.seq /\ row.state = old.state
      BY <1>1, <3>1 DEF Row
    <3>3. Said(call.run, row)
      BY <3>1, <3>2
    <3> QED
      BY <1>4, <2>1, <2>4, <3>3
  <2>5. CASE /\ items' = call.answer
             /\ shown' = [run |-> Reselected(c), row |-> call.answer[Reselected(c)]]
    <3>1. Reselected(c) \in Runs /\ call.answer[Reselected(c)] # NoRow
      BY <2>1 DEF Reselected, Runs
    <3>2. Said(Reselected(c), call.answer[Reselected(c)])
      BY <2>2, <3>1
    <3> QED
      BY <1>0, <2>1, <2>2, <2>5, <3>1, <3>2 DEF ShownIsRecorded, Recorded
  <2> QED
    BY <2>1, <2>3, <2>4, <2>5 DEF Answered
<1>7. ASSUME ApplyRunEvent, ~UNCHANGED <<items, shown>> PROVE True
  <2> DEFINE e   == Head(posted)
             row == [seq |-> e.seq, state |-> e.state, result |-> shown.row.result]
  <2>1. /\ e \in RecordedEvent /\ e.run = shown.run /\ Show(shown.run, row)
        /\ log' = log
    BY <1>7 DEF ApplyRunEvent, Applies, InductiveInvariant
  <2>2. e \in Event /\ Recorded(e.run, e)
    BY <2>1 DEF RecordedEvent
  <2>3. row \in Row
    BY <1>1, <2>2 DEF Event, Row
  <2>4. Said(shown.run, row)
    BY <1>0, <2>1, <2>2, <2>3 DEF Recorded
  <2> QED
    BY <1>1, <1>4, <2>1, <2>4
<1>8. Next => \/ UNCHANGED <<items, shown>> \/ ApplyRunEvent
              \/ \E c \in DOMAIN calls : Resume(c)
              \/ \E r \in Runs : Select(r)
  BY DEF Next, Execute, Work, ReadMessage, Break, Respond, StartRun, CancelRun,
         RefreshRuns, Command, viewVars
<1> QED
  BY <1>2, <1>3, <1>5, <1>6, <1>7, <1>8

-----------------------------------------------------------------------------
(* The view opens on what the repository holds.                              *)
LEMMA InitInvariant == Init => InductiveInvariant
<1> SUFFICES ASSUME Init PROVE InductiveInvariant
  OBVIOUS
<1>1. /\ log \in [Runs -> Seq(States)] /\ OldRun \in Runs
      /\ log[OldRun] # <<>>
  <2>1. <<"queued", "running", "completed">> \in Seq(States) /\ <<>> \in Seq(States)
    BY DEF States
  <2>2. <<"queued", "running", "completed">> # <<>>
    OBVIOUS
  <2> HIDE DEF States
  <2>3. log = [r \in Runs |-> IF r = OldRun THEN <<"queued", "running", "completed">> ELSE <<>>]
    BY DEF Init
  <2> QED
    BY <2>1, <2>2, <2>3 DEF Runs
<1>2. /\ AllStored(log) \in Rows /\ AllStored(log)[OldRun] # NoRow
      /\ \A r \in Runs : AllStored(log)[r] # NoRow => Recorded(r, AllStored(log)[r])
  BY <1>1, AnswerIsRecorded DEF Recorded
<1>3. items = AllStored(log) /\ shown = [run |-> OldRun, row |-> items[OldRun]]
  BY DEF Init
<1>4. items[OldRun] \in Row
  BY <1>1, <1>2, <1>3 DEF Rows
<1>5. ShownIsRecorded
  BY <1>1, <1>2, <1>3 DEF ShownIsRecorded
<1>6. /\ calls = <<>> /\ stdin = <<>> /\ stdout = <<>> /\ posted = <<>>
      /\ connected = TRUE /\ busy = FALSE
  BY DEF Init
<1>7. TypeOK
  <2>1. shown \in [run : Runs, row : Row] /\ items \in Rows
    BY <1>1, <1>2, <1>3, <1>4
  <2>2. connected \in BOOLEAN /\ busy \in BOOLEAN
    BY <1>6
  <2>3. calls \in Seq(Call) /\ posted \in Seq(Event)
    BY <1>6
  <2>4. stdin \in Seq(DOMAIN calls)
    <3>1. PICK D : D = DOMAIN calls
      OBVIOUS
    <3>2. <<>> \in Seq(D)
      OBVIOUS
    <3> QED
      BY <1>6, <3>1, <3>2
  <2> QED
    BY <1>1, <2>1, <2>2, <2>3, <2>4 DEF TypeOK
<1> QED
  BY <1>1, <1>5, <1>6, <1>7 DEF InductiveInvariant

(* No step of the sidecar, the connection or the view breaks the invariant.  *)
LEMMA StepInvariant == InductiveInvariant /\ [Next]_vars => InductiveInvariant'
<1>1. CASE UNCHANGED vars
  BY <1>1
     DEF InductiveInvariant, TypeOK, ShownIsRecorded, RecordedEvent, Recorded, Message,
         InformedCall, Served, vars, backendVars, viewVars
<1>2. ASSUME InductiveInvariant, Next PROVE InductiveInvariant'
  <2>1. /\ calls' \in Seq(InformedCall') /\ stdout' \in Seq(Message')
        /\ posted' \in Seq(RecordedEvent') /\ stdin' \in Seq(DOMAIN calls')
    BY <1>2, CallsStep, StdoutStep, PostedStep, StdinStep
  <2>2. /\ log' \in [Runs -> Seq(States)] /\ log'[OldRun] # <<>>
    BY <1>2, LogStep DEF Later
  <2>3. /\ items' \in Rows /\ shown' \in [run : Runs, row : Row] /\ busy' \in BOOLEAN
        /\ ShownIsRecorded'
    BY <1>2, ShownStep
  <2>4. connected' \in BOOLEAN
    BY <1>2
       DEF InductiveInvariant, TypeOK, Next, Execute, Work, ReadMessage, Break, Respond,
           Resume, StartRun, CancelRun, RefreshRuns, Command, Select, ApplyRunEvent
  <2>5. calls' \in Seq(Call) /\ posted' \in Seq(Event)
    BY <2>1, SeqOfMore DEF InformedCall, RecordedEvent
  <2> QED
    BY <2>1, <2>2, <2>3, <2>4, <2>5 DEF InductiveInvariant, TypeOK
<1> QED
  BY <1>1, <1>2

(* What is on its way to the view, and what it shows, is true in every state,  *)
(* for any number of calls and progress events.                                *)
THEOREM Invariance == Spec => []InductiveInvariant
<1> QED
  BY InitInvariant, StepInvariant, PTL DEF Spec

(* Every state the run page shows of a run is one that run was in, at that     *)
(* progress sequence (RunWorkspaceState.SetRun, TryApply).                     *)
THEOREM ShownRecorded == Spec => []ShownIsRecorded
<1>1. InductiveInvariant => ShownIsRecorded
  BY DEF InductiveInvariant
<1> QED
  BY <1>1, Invariance, PTL
===============================================================================
