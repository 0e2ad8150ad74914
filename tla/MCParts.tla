-------------------------------- MODULE MCParts --------------------------------
(* Instances of StoreOpening and ModelHistory for TLC, two models that share   *)
(* nothing: in a behaviour the system store is opened, closed and broken off,  *)
(* or a model object in it is edited by two clients, with two complete         *)
(* proposals whose contents and positions mix through the two channels.        *)
EXTENDS ModelHistory, StoreOpening, TLC

CONSTANTS o1, c1, c2, k1, k2, at1, at2, ok, bad

VARIABLE part   \* which of the two works

MCProposal ==
  {[content |-> k1, notes |-> ok, layout |-> at1], [content |-> k2, notes |-> bad, layout |-> at2]}
Swap == k1 :> k2 @@ k2 :> k1 @@ at1 :> at2 @@ at2 :> at1 @@ ok :> bad @@ bad :> ok
Keep == k1 :> k1 @@ k2 :> k2 @@ at1 :> at1 @@ at2 :> at2 @@ ok :> ok @@ bad :> bad
\* The clients may be exchanged, and so may the proposals as a whole.
MCSymmetry == {p @@ q : p \in Permutations({c1, c2}), q \in {Swap, Keep}}

PartsInit ==
  /\ Init /\ StoreInit
  /\ part \in {"open", "edit"}
  /\ part # "open" => disk = Empty

PartsNext ==
  /\ UNCHANGED part
  /\ \/ part = "edit" /\ Next /\ UNCHANGED storeVars
     \/ part = "open" /\ StoreNext /\ UNCHANGED vars

PartsSpec == PartsInit /\ [][PartsNext]_<<vars, storeVars, part>>
===============================================================================
