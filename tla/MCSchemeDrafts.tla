--------------------------- MODULE MCSchemeDrafts ---------------------------
(* Instances of SchemeDrafts for TLC: a starter of two nodes, one observed     *)
(* under both, and what an expert may ask of a draft of it.                    *)
EXTENDS SchemeDrafts

CONSTANT d1

Body == [parents |-> <<>>, of |-> {}, cpt |-> NoKey, states |-> <<>>, axes |-> <<>>,
         rows |-> <<>>, data |-> 0]

n == <<"node", "n">>
m == <<"node", "m">>
b == <<"binding", "b">>
Two == <<"lo", "hi">>
Three == <<"lo", "mid", "hi">>

Variable(cpt, states, parents, of) ==
  [Body EXCEPT !.cpt = cpt, !.states = states, !.parents = parents, !.of = of]
Cpt(v, states, parents, axes, rows) ==
  [Body EXCEPT !.of = {v}, !.states = states, !.parents = parents, !.axes = axes, !.rows = rows]

MCLibrary ==
  (n :> Variable(<<"cpt", "cn">>, Two, <<>>, {}))
  @@ (m :> Variable(<<"cpt", "cm">>, Three, <<n>>, {}))
  @@ (b :> Variable(<<"cpt", "cb">>, Two, <<n, m>>, {<<"evidence", "e">>}))
  @@ (<<"cpt", "cn">> :> Cpt(n, Two, <<>>, <<>>, <<<<1, 3>>>>))
  @@ (<<"cpt", "cm">> :> Cpt(m, Three, <<n>>, <<Two>>, <<<<4, 0, 0>>, <<1, 2, 1>>>>))
  @@ (<<"cpt", "cb">> :> Cpt(b, Two, <<n, m>>, <<Two, Three>>,
                             <<<<4, 0>>, <<3, 1>>, <<2, 2>>, <<0, 4>>, <<1, 3>>, <<3, 1>>>>))
  @@ (<<"evidence", "e">> :> [Body EXCEPT !.of = {<<"source", "s">>}])
  @@ (<<"task", "t">> :> [Body EXCEPT !.of = {<<"source", "s">>}])
  @@ (<<"source", "s">> :> Body)
  @@ (<<"policy", "p">> :> Body)
  @@ (<<"layout", "l">> :> Body)

MCSchemes == "starter" :> [pins |-> DOMAIN MCLibrary, outputs |-> <<n>>]

-----------------------------------------------------------------------------
(* Requests, for the versions a draft retains, whatever their names are by now. *)

CloneOp(k, replace) == [op |-> "clone", source |-> k, name |-> "x" \o k[2], replace |-> replace]

CloneKinds(g, kinds) ==
  LET order == Net!Listed({k \in g.retained : k[1] \in kinds})
  IN  [i \in DOMAIN order |-> CloneOp(order[i], TRUE)]

\* A client names an edge as it likes, with what is no pair of ends here. A node that is staged
\* anew has no parents, whatever edges to it are shown, so that it may get a second one.
Joining == [op |-> "join", id |-> <<"bayesian", <<NoKey, NoKey>>>>,
            edge |-> <<<<"node", "xn">>, <<"node", "xm">>>>]

Anew == <<[op |-> "remove", key |-> <<"node", "xm">>],
          [op |-> "stage", key |-> <<"node", "xm">>,
           body |-> Variable(<<"cpt", "xcm">>, Three, <<>>, {})]>>

CandidatesOf(g, kind) == OfKind(CandidateKeys(g), kind)

MCRequests(lib, g) ==
  { CloneKinds(g, {"node", "binding", "cpt"}),
    Reverse(CloneKinds(g, {"node", "binding", "cpt"})),
    CloneKinds(g, {"source", "evidence", "task", "binding", "cpt", "node"})
      \o <<[op |-> "remove", key |-> <<"policy", "p">>],
           [op |-> "stage", key |-> <<"policy", "xp">>, body |-> Body]>>,
    CloneKinds(g, {"layout"}) }
  \cup {<<CloneOp(k, FALSE)>> : k \in {n} \cap g.retained}
  \cup {<<[op |-> "add", key |-> n]>>}
  \cup {<<[op |-> "remove", key |-> <<"node", "xn">>]>>}
  \cup {<<[op |-> "replace", key |-> k, fields |-> [rows |-> <<<<2, 2>>>>]]>> : k \in {c \in CandidatesOf(g, "cpt") : Len(c[2]) = 3}}
  \cup {<<[op |-> "move", key |-> k, data |-> 1]>> : k \in CandidatesOf(g, "layout")}
  \cup {<<[op |-> "part", id |-> i]>> :
          i \in {j \in DOMAIN g.edges : j[1] = "bayesian" /\ g.edges[j][2] = <<"node", "xm">>}}
  \cup {<<Joining>>, Anew \o <<Joining>>}
  \cup {<<[op |-> "outputs", outputs |-> Net!Listed(OfKind(Selected(g), "node"))]>>}

MCObservations(net) ==
  LET vs == Net!Variables(net)
  IN  {[v \in {} |-> Net!Omitted]}
      \cup {[v \in {w} |-> Net!Hard(2)] : w \in vs}
      \cup {[v \in vs |-> IF v = w THEN Net!Virtual([i \in 1..net.card[w] |-> i])
                          ELSE IF u = v THEN Net!Omitted ELSE Net!Hard(1)] : w \in vs, u \in vs}
=============================================================================
