-------------------------------- MODULE RunView --------------------------------
(******************************************************************************)
(* What the user sees of a run (RunsViewModel.cs, RunWorkspaceState.cs,        *)
(* RunClient.cs) while the sidecar executes it. Calls start, cancel, list and  *)
(* look up runs; the events of a run come as notifications between the answers. *)
(* The reader posts notifications to the UI in order, while the answer of a    *)
(* call reaches it through the thread pool, whenever that gets to it. That     *)
(* every call returns, with an answer or without, is JsonRpcClient's part.     *)
(*                                                                             *)
(* A run is its history: log[r][n + 1] is the state that r had at progress      *)
(* sequence n.                                                                 *)
(******************************************************************************)
EXTENDS Integers, Sequences, SequencesExt, FiniteSetsExt

CONSTANTS
  NewRun, OldRun,  \* the run the user starts, and one that has completed before
  NoRun,
  MaxProgress,     \* bound: events of a run that do not change its state
  MaxCalls         \* bound: calls made

Runs == {NewRun, OldRun}

ASSUME ViewAssumption ==
  NewRun # OldRun /\ NoRun \notin Runs /\ MaxProgress \in Nat /\ MaxCalls \in Nat

VARIABLES
  log,        \* the history of each run
  calls,      \* the calls made, in order
  stdin,      \* requests on their way to the sidecar
  stdout,     \* its responses and notifications
  connected,
  posted,     \* the run events posted to the UI
  items,      \* the list of the view
  shown,      \* RunWorkspaceState: the run it shows, and as what
  busy        \* IsBusy: a command waits for its call

backendVars == <<log, stdin>>
viewVars == <<items, shown, busy>>
vars == <<backendVars, calls, stdout, connected, posted, viewVars>>

States == {"queued", "running", "cancelling", "completed", "failed", "cancelled"}
Terminal == {"completed", "failed", "cancelled"}
Kinds == {"start", "cancel", "list", "status"}

Row == [seq : Nat, state : States, result : Runs \cup {NoRun}]
NoRow == [seq |-> 0, state |-> "none", result |-> NoRun]
Rows == [Runs -> Row \cup {NoRow}]

Event == [run : Runs, seq : Nat, state : States]
Call  == [kind : Kinds, run : Runs, answer : Rows,
          at : {"asked", "served", "written", "answered", "failed", "resumed"}]

TypeOK ==
  /\ log \in [Runs -> Seq(States)]
  /\ calls \in Seq(Call)
  /\ stdin \in Seq(DOMAIN calls) /\ connected \in BOOLEAN
  /\ posted \in Seq(Event)
  /\ items \in Rows /\ shown \in [run : Runs, row : Row] /\ busy \in BOOLEAN

\* The row of the repository, and the result a completed run has.
Stored(history, r) ==
  IF history[r] = <<>> THEN NoRow
  ELSE [seq |-> Len(history[r]) - 1, state |-> Last(history[r]),
        result |-> IF Last(history[r]) = "completed" THEN r ELSE NoRun]

AllStored(history) == [r \in Runs |-> Stored(history, r)]

Init ==
  /\ log = [r \in Runs |-> IF r = OldRun THEN <<"queued", "running", "completed">> ELSE <<>>]
  /\ calls = <<>> /\ stdin = <<>> /\ stdout = <<>> /\ connected = TRUE /\ posted = <<>>
  /\ items = AllStored(log) /\ shown = [run |-> OldRun, row |-> items[OldRun]] /\ busy = FALSE

------------------------------------------------------------------------------
(* The sidecar. *)

Latest(history, r) ==
  [run |-> r, seq |-> Len(history[r]) - 1, state |-> Last(history[r])]

Notice(history, r) == [event |-> Latest(history, r)]
Response(c) == [call |-> c]

Cancelled(state) ==
  CASE state = "queued"  -> "cancelled"
    [] state = "running" -> "cancelling"
    [] OTHER             -> state

\* What a call makes of a history. A run is created once.
After(c) ==
  LET r == calls[c].run
      now == Last(log[r])
  IN  CASE calls[c].kind = "start" /\ log[r] = <<>> -> [log EXCEPT ![r] = <<"queued">>]
        [] calls[c].kind = "cancel" /\ Cancelled(now) # now ->
             [log EXCEPT ![r] = Append(@, Cancelled(now))]
        [] OTHER -> log

\* The row is answered as it is then; a cancellation has sent its event before that.
Execute ==
  LET c == Head(stdin)
      notices == IF calls[c].kind = "cancel" /\ After(c) # log
                 THEN <<Notice(After(c), calls[c].run)>> ELSE <<>>
  IN  /\ connected /\ stdin # <<>> /\ \A c2 \in DOMAIN calls : calls[c2].at # "served"
      /\ log' = After(c) /\ stdin' = Tail(stdin)
      /\ calls' = [calls EXCEPT ![c].at = "served", ![c].answer = AllStored(After(c))]
      /\ stdout' = stdout \o notices
      /\ UNCHANGED <<connected, posted, viewVars>>

\* The worker may go on between the row that is answered and the answer.
Respond(c) ==
  /\ connected /\ calls[c].at = "served"
  /\ calls' = [calls EXCEPT ![c].at = "written"]
  /\ stdout' = Append(stdout, Response(c))
  /\ UNCHANGED <<backendVars, connected, posted, viewVars>>

Repeats(history) ==
  Quantify(2..Len(history), LAMBDA i : history[i - 1] = history[i])

Successors(history) ==
  CASE Last(history) = "queued"     -> {"running"}
    [] Last(history) = "running"    -> {"completed", "failed"} \cup
                                       (IF Repeats(history) < MaxProgress THEN {"running"} ELSE {})
    [] Last(history) = "cancelling" -> {"cancelled", "completed", "failed"}
    [] OTHER                        -> {}

Work ==
  /\ connected /\ log[NewRun] # <<>>
  /\ \E next \in Successors(log[NewRun]) :
       /\ log' = [log EXCEPT ![NewRun] = Append(@, next)]
       /\ stdout' = Append(stdout, Notice(log', NewRun))
  /\ UNCHANGED <<calls, stdin, connected, posted, viewVars>>

------------------------------------------------------------------------------
(* The connection. *)

Ask(kind, r) ==
  /\ connected /\ Len(calls) < MaxCalls
  /\ calls' = Append(calls, [kind |-> kind, run |-> r, answer |-> AllStored(log), at |-> "asked"])
  /\ stdin' = Append(stdin, Len(calls) + 1)

ReadMessage ==
  LET m == Head(stdout)
  IN  /\ stdout # <<>> /\ stdout' = Tail(stdout)
      /\ \/ /\ "event" \in DOMAIN m /\ posted' = Append(posted, m.event) /\ UNCHANGED calls
         \/ /\ "call" \in DOMAIN m /\ calls' = [calls EXCEPT ![m.call].at = "answered"]
            /\ UNCHANGED posted
      /\ UNCHANGED <<backendVars, connected, viewVars>>

\* What has not been read is lost, and who still waits is told so.
Break ==
  /\ connected /\ connected' = FALSE
  /\ calls' = [c \in DOMAIN calls |->
       [calls[c] EXCEPT !.at = IF @ \in {"asked", "served", "written"} THEN "failed" ELSE @]]
  /\ stdin' = <<>> /\ stdout' = <<>>
  /\ UNCHANGED <<log, posted, viewVars>>

------------------------------------------------------------------------------
(* The view. *)

\* SetRun and UpsertRun, which selects the run.
Show(r, row) ==
  /\ items' = [items EXCEPT ![r] = row]
  /\ shown' = [run |-> r, row |-> row]

Command(kind, r) ==
  /\ ~busy /\ Ask(kind, r) /\ busy' = TRUE
  /\ UNCHANGED <<log, stdout, connected, posted, items, shown>>

StartRun   == log[NewRun] = <<>> /\ shown.row.state \in Terminal /\ Command("start", NewRun)
CancelRun  == shown.row.state \in {"queued", "running"} /\ Command("cancel", shown.run)
RefreshRuns == Command("list", shown.run)

\* The list is not disabled while a command waits.
Select(r) ==
  /\ items[r] # NoRow /\ shown # [run |-> r, row |-> items[r]]
  /\ shown' = [run |-> r, row |-> items[r]]
  /\ UNCHANGED <<backendVars, calls, stdout, connected, posted, items, busy>>

\* What RefreshAsync selects: what was selected when it asked, an active run, or the newest.
Reselected(c) ==
  IF calls[c].answer[calls[c].run] # NoRow THEN calls[c].run
  ELSE IF calls[c].answer[NewRun] # NoRow THEN NewRun ELSE OldRun

Answered(c) ==
  LET r == calls[c].run
      row == calls[c].answer[r]
  IN  \/ calls[c].kind \in {"start", "status"} /\ Show(r, row)
      \/ calls[c].kind = "cancel" /\ Show(r, [row EXCEPT !.result = shown.row.result])
      \/ /\ calls[c].kind = "list" /\ items' = calls[c].answer
         /\ shown' = [run |-> Reselected(c), row |-> calls[c].answer[Reselected(c)]]

\* The caller of a call goes on. IsBusy is left alone by the look at a run that has ended.
Resume(c) ==
  /\ calls[c].at \in {"answered", "failed"}
  /\ calls' = [calls EXCEPT ![c].at = "resumed"]
  /\ busy' = (busy /\ calls[c].kind = "status")
  /\ \/ calls[c].at = "answered" /\ Answered(c)
     \/ calls[c].at = "failed" /\ UNCHANGED <<items, shown>>
  /\ UNCHANGED <<backendVars, stdout, connected, posted>>

\* TryApply: an event counts if it is a newer one of the run that is shown. The end of a run
\* is followed by a look at it, if there is a connection.
AppliesToAny(e) == e.seq > shown.row.seq

Applies(e) == e.run = shown.run /\ e.seq > shown.row.seq

ApplyRunEvent ==
  LET e == Head(posted)
  IN  /\ posted # <<>> /\ posted' = Tail(posted)
      /\ \/ ~Applies(e) /\ UNCHANGED <<items, shown, calls, stdin>>
         \/ /\ Applies(e)
            /\ Show(shown.run, [seq |-> e.seq, state |-> e.state, result |-> shown.row.result])
            /\ \/ e.state \in Terminal /\ Ask("status", e.run)
               \/ ~(e.state \in Terminal /\ connected) /\ UNCHANGED <<calls, stdin>>
      /\ UNCHANGED <<log, stdout, connected, busy>>

Next ==
  \/ Execute \/ Work \/ ReadMessage \/ Break
  \/ \E c \in DOMAIN calls : Respond(c) \/ Resume(c)
  \/ StartRun \/ CancelRun \/ RefreshRuns \/ ApplyRunEvent
  \/ \E r \in Runs : Select(r)

Spec == Init /\ [][Next]_vars

------------------------------------------------------------------------------
Recorded(r, row) ==
  row.seq < Len(log[r]) /\ log[r][row.seq + 1] = row.state

\* Every state in which the user sees a run is one it was in, at that sequence: what an event
\* or an answer says of one run, or of one moment, is never shown of another.
ShownIsRecorded ==
  /\ Recorded(shown.run, shown.row)
  /\ \A r \in Runs : items[r] # NoRow => Recorded(r, items[r])

------------------------------------------------------------------------------
(* Why: what is on its way to the view was so when it was said, and a history  *)
(* only grows.                                                                 *)

\* The events that tell of a state their run was in.
RecordedEvent == {e \in Event : Recorded(e.run, e)}

\* The call has an answer about the run it asks for.
Served(call) == call.kind # "list" => call.answer[call.run] # NoRow

\* The calls whose answer shows states the runs were in, and that find the run they read.
InformedCall ==
  {c \in Call :
     /\ \A r \in Runs : c.answer[r] # NoRow => Recorded(r, c.answer[r])
     /\ c.answer[OldRun] # NoRow
     /\ c.at \in {"served", "written", "answered"} => Served(c)
     /\ c.kind \in {"cancel", "status"} => log[c.run] # <<>>}

\* What may stand in stdout: such an event, or a response to a call that has been served.
Message == [event : RecordedEvent] \cup [call : {c \in DOMAIN calls : Served(calls[c])}]

InductiveInvariant ==
  /\ TypeOK
  /\ log[OldRun] # <<>>
  /\ calls \in Seq(InformedCall)
  /\ stdout \in Seq(Message)
  /\ posted \in Seq(RecordedEvent)
  /\ ShownIsRecorded
===============================================================================
