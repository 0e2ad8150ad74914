------------------------- MODULE MCCurrentWorkspace -------------------------
(* Instance of CurrentWorkspace for TLC: evidence e on raw input r and BN node *)
(* n, a BN node m beside them, a free BN identifier x, and a scheme s1.        *)
EXTENDS CurrentWorkspace, TLC
CONSTANTS e1, r1, n1, m1, x1, s1, s2

Leaf(table) ==
  [life |-> "active", parents |-> <<>>, axes |-> <<>>, states |-> 0, table |-> table,
   inputs |-> {}, recipe |-> TRUE]
OnN == [Leaf("manual") EXCEPT !.parents = <<n1>>, !.axes = <<0>>, !.inputs = {r1}]

MCStarter ==
  e1 :> OnN @@ r1 :> Leaf("manual") @@ n1 :> Leaf("manual") @@ m1 :> Leaf("manual") @@ x1 :> Absent
  @@ s1 :> [life |-> "active", explicit |-> {e1, m1}, closure |-> {e1, r1, n1, m1}, outputs |-> {r1}]
  @@ s2 :> Absent

\* Evidence without its raw input, or on a node that does not exist; a new node on m1.
MCNodeDrafts ==
  {<<e1, [OnN EXCEPT !.parents = <<m1>>, !.inputs = {}]>>,
   <<e1, [OnN EXCEPT !.parents = <<x1>>]>>,
   <<x1, [Leaf("incomplete") EXCEPT !.parents = <<m1>>, !.axes = <<0>>]>>}

MCSchemeDrafts ==
  {<<s, [life |-> "active", explicit |-> {n1}, closure |-> {n1}, outputs |-> {n1}]>> : s \in {s1, s2}}
MCMovable == {e1, s1}
=============================================================================
