------------------------------- MODULE MCDesktop -------------------------------
(* Instances of RunView and JsonRpcClient for TLC, two models that share      *)
(* nothing: in a behaviour the desktop shows runs, or it makes calls over one *)
(* connection: two beside the shutdown, one that a token may cancel and one   *)
(* that none can.                                                             *)
EXTENDS RunView

CONSTANTS save, list, Shutdown, Nobody, Glued

VARIABLES at, outcome, fired, removing, pending, cancelled, reader, client, writeLock, torn,
          requests, responses, sidecar, serving, host,
          part   \* which of the two works
callVars == <<at, outcome, fired, removing, pending, cancelled, reader, client, writeLock, torn,
              requests, responses, sidecar, serving, host>>

C == INSTANCE JsonRpcClient
       WITH Calls <- {save, list, Shutdown}, Cancellable <- {save, Shutdown},
            stdin <- requests, stdout <- responses

ASSUME ClientConstants == C!CallsAssumption

DesktopInit == Init /\ C!Init /\ part \in {"view", "call"}

DesktopNext ==
  /\ UNCHANGED part
  /\ \/ part = "view" /\ Next /\ UNCHANGED callVars
     \/ part = "call" /\ C!Next /\ UNCHANGED vars

DesktopSpec == DesktopInit /\ [][DesktopNext]_<<vars, callVars, part>> /\ C!Fairness

\* Whoever makes a call hears of it: JsonRpcClient's property.
EveryCallReturns == C!EveryCallReturns
================================================================================
