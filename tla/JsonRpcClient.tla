----------------------------- MODULE JsonRpcClient -----------------------------
(******************************************************************************)
(* One connection of the desktop to its sidecar (JsonRpcClient.cs,             *)
(* JsonLineFramer.cs, SidecarProcessHost.cs, BackendConnectionService.cs), from *)
(* the handshake to the end of the process: callers that register, write and    *)
(* wait, tokens that cancel them, the reader that completes them, the host that *)
(* ends the connection, and the sidecar's loop (server.py).                     *)
(*                                                                             *)
(* Callers, tokens, the reader and the host are threads of the pool: an action  *)
(* is one operation on a concurrent dictionary, a stream or a semaphore.       *)
(* Notifications pass the reader without touching any of this; RunView has them. *)
(******************************************************************************)
EXTENDS Integers, Sequences, SequencesExt

CONSTANTS
  Calls,        \* every call made over the connection; each is made at most once
  Shutdown,     \* the runtime.shutdown of the host
  Cancellable,  \* the calls whose caller has a token
  Nobody,       \* no call
  Glued         \* a line of stdin with more than one request, or a response to one

\* What the constants have to satisfy.
CallsAssumption ==
  /\ Shutdown \in Cancellable /\ Cancellable \subseteq Calls
  /\ Nobody \notin Calls /\ Glued \notin Calls

VARIABLES
  at,         \* where each InvokeAsync is
  outcome,    \* the completion source of each call
  fired,      \* the tokens that have been cancelled
  removing,   \* CancelPending between its two dictionaries
  pending,    \* _pending
  cancelled,  \* _cancelledRequestIds
  reader,     \* the reader thread, and the response it is handling
  client,     \* "open", "closed" when it accepts no requests, then "disposed"
  writeLock,  \* the call that holds _writeLock
  torn,       \* stdin ends in a request without its newline
  stdin, stdout,
  sidecar,    \* the process
  serving,    \* the request the sidecar is executing
  host        \* BackendConnectionService and SidecarProcessHost.StopAsync

callerVars  == <<at, outcome, fired, removing, pending, cancelled>>
sidecarVars == <<stdin, stdout, sidecar, serving>>
vars == <<callerVars, reader, client, writeLock, torn, sidecarVars, host>>

TypeOK ==
  /\ at \in [Calls -> {"idle", "checked", "registered", "lock", "payload", "await", "returned"}]
  /\ outcome \in [Calls -> {"none", "result", "cancelled", "lost", "failed", "refused"}]
  /\ fired \subseteq Cancellable /\ removing \subseteq fired
  /\ pending \subseteq Calls /\ cancelled \subseteq Calls
  /\ reader.pc \in {"next", "lookup", "complete", "stopped"} /\ reader.call \in Calls \cup {Nobody}
  /\ client \in {"open", "closed", "disposed"}
  /\ writeLock \in Calls \cup {Nobody, "disposed"} /\ torn \in BOOLEAN
  /\ stdin \in Seq(Calls \cup {Glued})
  /\ sidecar \in {"running", "exited"} /\ serving \in Calls \cup {Nobody}
  /\ host \in {"up", "stopping", "waiting", "disposing", "gone"}

Init ==
  /\ at = [c \in Calls |-> "idle"] /\ outcome = [c \in Calls |-> "none"]
  /\ fired = {} /\ removing = {} /\ pending = {} /\ cancelled = {}
  /\ reader = [pc |-> "next", call |-> Nobody] /\ client = "open"
  /\ writeLock = Nobody /\ torn = FALSE /\ stdin = <<>> /\ stdout = <<>>
  /\ sidecar = "running" /\ serving = Nobody /\ host = "up"

Running == sidecar = "running"
Accepting == client = "open"
Connected == host = "up"

\* A completion source keeps the first outcome it gets.
Settled(cs, how) == [c \in Calls |-> IF c \in cs /\ outcome[c] = "none" THEN how ELSE outcome[c]]

------------------------------------------------------------------------------
(* InvokeAsync and WriteAsync. *)

\* The check of _acceptingRequests. Without a client there is nothing to ask.
Invoke(c) ==
  /\ at[c] = "idle"
  /\ \/ Accepting /\ at' = [at EXCEPT ![c] = "checked"] /\ UNCHANGED outcome
     \/ ~Accepting /\ at' = [at EXCEPT ![c] = "returned"]
        /\ outcome' = [outcome EXCEPT ![c] = "refused"]
  /\ UNCHANGED <<fired, removing, pending, cancelled, reader, client, writeLock, torn, sidecarVars, host>>

Register(c) ==
  /\ at[c] = "checked"
  /\ at' = [at EXCEPT ![c] = "registered"] /\ pending' = pending \cup {c}
  /\ UNCHANGED <<outcome, fired, removing, cancelled, reader, client, writeLock, torn, sidecarVars, host>>

\* The write has failed: the call is answered, unless somebody else took it from _pending.
WriteFailed(c) ==
  /\ at' = [at EXCEPT ![c] = "await"]
  /\ pending' = pending \ {c}
  /\ outcome' = IF c \in pending THEN Settled({c}, "lost") ELSE outcome
  /\ UNCHANGED <<fired, removing, cancelled>>

\* The write has been cancelled: so is the call, whatever happened to it meanwhile.
WriteCancelled(c) ==
  /\ at' = [at EXCEPT ![c] = "returned"]
  /\ pending' = pending \ {c}
  /\ cancelled' = IF c \in pending THEN cancelled \cup {c} ELSE cancelled
  /\ outcome' = [outcome EXCEPT ![c] = "cancelled"]
  /\ UNCHANGED <<fired, removing>>

\* A disposed semaphore throws. A taken one is waited for.
WaitForLock(c) ==
  /\ at[c] = "registered"
  /\ \/ writeLock = "disposed" /\ WriteFailed(c)
     \/ writeLock \in Calls
        /\ at' = [at EXCEPT ![c] = "lock"]
        /\ UNCHANGED <<outcome, fired, removing, pending, cancelled>>
  /\ UNCHANGED <<reader, client, writeLock, torn, sidecarVars, host>>

WritePayload(c) ==
  /\ at[c] \in {"registered", "lock"} /\ writeLock = Nobody
  /\ \/ /\ Running
        /\ at' = [at EXCEPT ![c] = "payload"] /\ writeLock' = c
        /\ UNCHANGED <<outcome, fired, removing, pending, cancelled>>
     \/ ~Running /\ WriteFailed(c) /\ UNCHANGED writeLock
  /\ UNCHANGED <<reader, client, torn, sidecarVars, host>>

AbandonWrite(c) ==
  /\ at[c] \in {"registered", "lock"} /\ c \in fired
  /\ WriteCancelled(c)
  /\ UNCHANGED <<reader, client, writeLock, torn, sidecarVars, host>>

\* Releasing a disposed semaphore throws too.
Released == IF writeLock = "disposed" THEN "disposed" ELSE Nobody

WriteNewline(c) ==
  /\ at[c] = "payload"
  /\ writeLock' = Released
  /\ IF Running
     THEN /\ stdin' = Append(stdin, IF torn THEN Glued ELSE c) /\ torn' = FALSE
          /\ at' = [at EXCEPT ![c] = "await"]
          /\ UNCHANGED <<outcome, fired, removing, pending, cancelled>>
     ELSE WriteFailed(c) /\ UNCHANGED <<stdin, torn>>
  /\ UNCHANGED <<reader, client, stdout, sidecar, serving, host>>

\* The token interrupts the write of the newline: the payload stays on the pipe.
TearWrite(c) ==
  /\ at[c] = "payload" /\ c \in fired
  /\ WriteCancelled(c)
  /\ writeLock' = Released /\ torn' = TRUE
  /\ UNCHANGED <<reader, client, sidecarVars, host>>

Return(c) ==
  /\ at[c] = "await" /\ outcome[c] # "none"
  /\ at' = [at EXCEPT ![c] = "returned"]
  /\ UNCHANGED <<outcome, fired, removing, pending, cancelled, reader, client, writeLock, torn,
                 sidecarVars, host>>

------------------------------------------------------------------------------
(* The token of a call, and CancelPending. *)

Fire(c) ==
  /\ c \in Cancellable \ fired /\ at[c] \notin {"idle", "returned"}
  /\ fired' = fired \cup {c}
  /\ UNCHANGED <<at, outcome, removing, pending, cancelled, reader, client, writeLock, torn,
                 sidecarVars, host>>

CancelPending(c) ==
  /\ c \in fired /\ c \in pending
  /\ pending' = pending \ {c} /\ removing' = removing \cup {c}
  /\ UNCHANGED <<at, outcome, fired, cancelled, reader, client, writeLock, torn, sidecarVars, host>>

CancelRecorded(c) ==
  /\ c \in removing
  /\ removing' = removing \ {c} /\ cancelled' = cancelled \cup {c}
  /\ outcome' = Settled({c}, "cancelled")
  /\ UNCHANGED <<at, fired, pending, reader, client, writeLock, torn, sidecarVars, host>>

------------------------------------------------------------------------------
(* The reader. *)

\* What the reader fails when it stops: the requests that are pending now.
FailNothing(how) == UNCHANGED <<pending, outcome>>

FailPending(how) == pending' = {} /\ outcome' = Settled(pending, how)

Stops(how) ==
  /\ reader' = [pc |-> "stopped", call |-> Nobody]
  /\ client' = IF client = "open" THEN "closed" ELSE client
  /\ FailPending(how)
  /\ UNCHANGED <<at, fired, removing, cancelled>>

ReadResponse ==
  /\ reader.pc = "next" /\ stdout # <<>>
  /\ stdout' = Tail(stdout)
  /\ LET c == Head(stdout)
     IN  \/ c = Glued /\ Stops("failed")
         \/ /\ c \in cancelled /\ cancelled' = cancelled \ {c}
            /\ UNCHANGED <<at, outcome, fired, removing, pending, reader, client>>
         \/ /\ c \in Calls \ cancelled /\ reader' = [pc |-> "lookup", call |-> c]
            /\ UNCHANGED <<callerVars, client>>
  /\ UNCHANGED <<writeLock, torn, stdin, sidecar, serving, host>>

Lookup ==
  /\ reader.pc = "lookup"
  /\ \/ /\ reader.call \in pending /\ reader' = [reader EXCEPT !.pc = "complete"]
        /\ UNCHANGED <<callerVars, client>>
     \/ reader.call \notin pending /\ Stops("failed")
  /\ UNCHANGED <<writeLock, torn, sidecarVars, host>>

CompletePending ==
  LET c == reader.call
      next == reader' = [pc |-> "next", call |-> Nobody]
  IN  /\ reader.pc = "complete"
      /\ \/ /\ c \in pending /\ next
            /\ pending' = pending \ {c} /\ outcome' = Settled({c}, "result")
            /\ UNCHANGED <<at, fired, removing, cancelled, client>>
         \/ /\ c \in cancelled \ pending /\ next
            /\ cancelled' = cancelled \ {c}
            /\ UNCHANGED <<at, outcome, fired, removing, pending, client>>
         \/ c \notin pending \cup cancelled /\ Stops("failed")
      /\ UNCHANGED <<writeLock, torn, sidecarVars, host>>

EndOfStream ==
  /\ reader.pc = "next" /\ stdout = <<>> /\ ~Running /\ client # "disposed"
  /\ Stops("lost")
  /\ UNCHANGED <<writeLock, torn, sidecarVars, host>>

\* Disposing of the client cancels the read.
ReadCancelled ==
  /\ reader.pc = "next" /\ client = "disposed"
  /\ reader' = [pc |-> "stopped", call |-> Nobody]
  /\ UNCHANGED <<callerVars, client, writeLock, torn, sidecarVars, host>>

------------------------------------------------------------------------------
(* The host. *)

\* MonitorUnexpectedExitAsync, or the user: from here on nobody else can get the client.
LeaveUp ==
  /\ host = "up" /\ host' = "stopping"
  /\ UNCHANGED <<callerVars, reader, client, writeLock, torn, sidecarVars>>

MonitorExit == (~Running \/ reader.pc = "stopped") /\ LeaveUp
StopHost    == LeaveUp

\* StopCoreAsync asks a living process to shut down, and gives up after a while.
AskShutdown  == host = "stopping" /\ Running /\ Invoke(Shutdown)

ShutdownDone ==
  /\ host = "stopping" /\ (~Running \/ at[Shutdown] = "returned")
  /\ host' = "waiting"
  /\ UNCHANGED <<callerVars, reader, client, writeLock, torn, sidecarVars>>

Exit == sidecar' = "exited" /\ stdin' = <<>> /\ serving' = Nobody

Terminate ==
  /\ host = "waiting" /\ Running /\ Exit
  /\ UNCHANGED <<callerVars, reader, client, writeLock, torn, stdout, host>>

DisposeClient ==
  /\ host = "waiting" /\ ~Running
  /\ host' = "disposing" /\ client' = "disposed" /\ FailPending("failed")
  /\ UNCHANGED <<at, fired, removing, cancelled, reader, writeLock, torn, sidecarVars>>

DisposeFramer ==
  /\ host = "disposing" /\ reader.pc = "stopped"
  /\ host' = "gone" /\ writeLock' = "disposed"
  /\ UNCHANGED <<callerVars, reader, client, torn, sidecarVars>>

------------------------------------------------------------------------------
(* The sidecar: one request at a time, in order; a line it cannot parse is answered without an ID. *)

Take ==
  /\ Running /\ serving = Nobody /\ stdin # <<>>
  /\ stdin' = Tail(stdin)
  /\ \/ Head(stdin) = Glued /\ stdout' = Append(stdout, Glued) /\ UNCHANGED serving
     \/ Head(stdin) # Glued /\ serving' = Head(stdin) /\ UNCHANGED stdout
  /\ UNCHANGED <<callerVars, reader, client, writeLock, torn, sidecar, host>>

Respond ==
  /\ Running /\ serving # Nobody
  /\ stdout' = Append(stdout, serving) /\ serving' = Nobody
  /\ IF serving = Shutdown THEN sidecar' = "exited" /\ stdin' = <<>> ELSE UNCHANGED <<sidecar, stdin>>
  /\ UNCHANGED <<callerVars, reader, client, writeLock, torn, host>>

\* The process ends by itself.
Crash ==
  /\ Running /\ Exit
  /\ UNCHANGED <<callerVars, reader, client, writeLock, torn, stdout, host>>

------------------------------------------------------------------------------
Caller(c) ==
  \/ Register(c) \/ WaitForLock(c) \/ WritePayload(c) \/ AbandonWrite(c) \/ WriteNewline(c)
  \/ TearWrite(c) \/ Return(c)

Token(c) == CancelPending(c) \/ CancelRecorded(c)

Reader == ReadResponse \/ Lookup \/ CompletePending \/ EndOfStream \/ ReadCancelled

Host == AskShutdown \/ ShutdownDone \/ Terminate \/ DisposeClient \/ DisposeFramer

Sidecar == Take \/ Respond

Next ==
  \/ \E c \in Calls : Caller(c) \/ Token(c) \/ Fire(c)
  \/ \E c \in Calls \ {Shutdown} : Connected /\ Invoke(c)
  \/ Reader \/ Host \/ MonitorExit \/ StopHost \/ Sidecar \/ Crash

\* The threads go on, the sidecar answers what it has taken or ends, and the shutdown times out.
Fairness ==
  /\ \A c \in Calls : WF_vars(Caller(c)) /\ WF_vars(Token(c))
  /\ WF_vars(Reader) /\ WF_vars(Sidecar)
  /\ WF_vars(Host) /\ WF_vars(MonitorExit) /\ WF_vars(Fire(Shutdown))

Spec == Init /\ [][Next]_vars /\ Fairness

------------------------------------------------------------------------------
\* A call that waits for the write lock when the framer disposes of it.
LeftAtLock(c) == at[c] = "lock" /\ writeLock = "disposed"

\* Whoever makes a call hears of it: with a result, an error or a cancellation, whatever the
\* tokens, the reader, the sidecar and the host are doing, unless the call is left at a write
\* lock that is disposed of under it.
EveryCallReturns ==
  \A c \in Calls : at[c] # "idle" ~> at[c] = "returned" \/ LeftAtLock(c)

=============================================================================
