------------------------------ MODULE Inference ------------------------------
(* The exact inference of bayesian/inference.py: CPTs become factors, all      *)
(* variables but the queried ones are summed out in minimum-fill order.        *)
(*                                                                             *)
(* Probabilities are natural weights over a common total, so that arithmetic   *)
(* is exact; normalizing is left to who compares. The names of variables       *)
(* decide between equally good eliminations: here every choice is possible.    *)
(*                                                                             *)
(* A network gives every variable its number of states, its ordered parents    *)
(* and the rows of its CPT. An observation is hard, virtual or omitted.        *)
EXTENDS Naturals, SequencesExt

Variables(net) == DOMAIN net.card

Listed(S) == FoldSet(LAMBDA x, s : Append(s, x), <<>>, S)

Hard(s)    == [kind |-> "hard", state |-> s]
Virtual(l) == [kind |-> "virtual", likelihood |-> l]
Omitted    == [kind |-> "omitted"]

-----------------------------------------------------------------------------
(* Factors: a scope and a weight for every assignment of states to it.         *)

Assignments(net, scope) ==
  {a \in [scope -> 1..Max({net.card[v] : v \in Variables(net)})] :
     \A v \in scope : a[v] <= net.card[v]}

Factor(net, scope, weight(_)) ==
  [scope |-> scope, weight |-> [a \in Assignments(net, scope) |-> weight(a)]]

WeightIn(f, a) == f.weight[Restrict(a, f.scope)]

Multiply(net, factors) ==
  Factor(net, UNION {factors[i].scope : i \in DOMAIN factors},
         LAMBDA a : FoldLeft(LAMBDA w, f : w * WeightIn(f, a), 1, factors))

SumOut(net, f, v) ==
  Factor(net, f.scope \ {v},
         LAMBDA a : MapThenSumSet(LAMBDA s : f.weight[(v :> s) @@ a], 1..net.card[v]))

\* A bug to detect: the first parent varies fastest.
RowOfReversed(net, v, a) ==
  1 + FoldRight(LAMBDA p, i : i * net.card[p] + a[p] - 1, net.parents[v], 0)

\* numpy's reshape: the last parent varies fastest.
RowOf(net, v, a) ==
  1 + FoldLeft(LAMBDA i, p : i * net.card[p] + a[p] - 1, 0, net.parents[v])

BaseFactor(net, v) ==
  Factor(net, {v} \cup ToSet(net.parents[v]),
         LAMBDA a : net.rows[v][RowOf(net, v, a)][a[v]])

ObservationFactor(net, v, o) ==
  Factor(net, {v},
         LAMBDA a : IF o.kind = "virtual" THEN o.likelihood[a[v]]
                    ELSE IF a[v] = o.state THEN 1 ELSE 0)

Active(observed) == {v \in DOMAIN observed : observed[v].kind # "omitted"}

Factors(net, observed) ==
  LET vs == Listed(Variables(net))
      os == Listed(Active(observed))
  IN  [i \in DOMAIN vs |-> BaseFactor(net, vs[i])]
      \o [i \in DOMAIN os |-> ObservationFactor(net, os[i], observed[os[i]])]

-----------------------------------------------------------------------------
(* Variable elimination.                                                       *)

\* Two variables are joined where a factor has both. Eliminating one joins its neighbours.
Joined(factors) ==
  UNION {{e \in SUBSET factors[i].scope : Cardinality(e) = 2} : i \in DOMAIN factors}

Around(graph, v) == UNION {e \in graph : v \in e} \ {v}

Pairs(S) == {e \in SUBSET S : Cardinality(e) = 2}

Missing(graph, v) == Cardinality(Pairs(Around(graph, v)) \ graph)

MinimumFillOrders(factors, queries) ==
  LET candidates == UNION {factors[i].scope : i \in DOMAIN factors} \ queries
      Cheapest(s) == {v \in s.left : \A w \in s.left : Missing(s.graph, v) <= Missing(s.graph, w)}
      Without(s, v) ==
        [graph |-> {e \in s.graph \cup Pairs(Around(s.graph, v)) : v \notin e},
         left |-> s.left \ {v},
         order |-> Append(s.order, v)]
      step[i \in 0..Cardinality(candidates)] ==
        IF i = 0 THEN {[graph |-> Joined(factors), left |-> candidates, order |-> <<>>]}
        ELSE UNION {{Without(s, v) : v \in Cheapest(s)} : s \in step[i - 1]}
  IN  {s.order : s \in step[Cardinality(candidates)]}

Eliminate(net, factors, v) ==
  LET containing == SelectSeq(factors, LAMBDA f : v \in f.scope)
  IN  IF containing = <<>> THEN factors
      ELSE Append(SelectSeq(factors, LAMBDA f : v \notin f.scope),
                  SumOut(net, Multiply(net, containing), v))

\* The joint weights of the queried variables, for every order the rule allows.
Joints(net, observed, queries) ==
  LET factors == Factors(net, observed)
  IN  {Multiply(net, FoldLeft(LAMBDA fs, v : Eliminate(net, fs, v), factors, order)) :
         order \in MinimumFillOrders(factors, queries)}

\* The distribution of one queried variable, not normalized.
Distribution(net, joint, q) ==
  [s \in 1..net.card[q] |->
     MapThenSumSet(LAMBDA a : joint.weight[a], {a \in DOMAIN joint.weight : a[q] = s})]

-----------------------------------------------------------------------------
(* What an answer should be: the conditional probability, by enumeration.      *)

\* The place of the parents' states among all of their combinations, in the order of
\* itertools.product.
Before(net, v, a) ==
  {b \in Assignments(net, ToSet(net.parents[v])) :
     \E i \in DOMAIN net.parents[v] :
       /\ b[net.parents[v][i]] < a[net.parents[v][i]]
       /\ \A j \in 1..(i - 1) : b[net.parents[v][j]] = a[net.parents[v][j]]}

Likelihood(observed, v, s) ==
  IF v \notin Active(observed) THEN 1
  ELSE IF observed[v].kind = "virtual" THEN observed[v].likelihood[s]
  ELSE IF observed[v].state = s THEN 1 ELSE 0

Enumerated(net, observed, q) ==
  LET Weight(a) ==
        FoldSet(LAMBDA v, w :
                  w * net.rows[v][1 + Cardinality(Before(net, v, a))][a[v]]
                    * Likelihood(observed, v, a[v]),
                1, Variables(net))
  IN  [s \in 1..net.card[q] |->
         MapThenSumSet(Weight, {a \in Assignments(net, Variables(net)) : a[q] = s})]

-----------------------------------------------------------------------------
(* The influence of an observation: how the answer differs without it.         *)

Total(d) == MapThenSumSet(LAMBDA s : d[s], DOMAIN d)

SameDistribution(d, e) == \A s \in DOMAIN d : d[s] * Total(e) = e[s] * Total(d)

LeavingOut(observed, o) == Restrict(observed, DOMAIN observed \ {o})

Connected(net, start) ==
  LET near(S) == UNION {{w \in Variables(net) : \E v \in S :
                           w \in ToSet(net.parents[v]) \/ v \in ToSet(net.parents[w])}, S}
      step[i \in 0..Cardinality(Variables(net))] ==
        IF i = 0 THEN {start} ELSE near(step[i - 1])
  IN  step[Cardinality(Variables(net))]

\* explain() looks for a path wherever leaving an observation out changes the answer.
Explainable(net, observed, queries) ==
  \A o \in Active(observed), q \in queries :
    \A full \in Joints(net, observed, queries),
       rest \in Joints(net, LeavingOut(observed, o), queries) :
      SameDistribution(Distribution(net, full, q), Distribution(net, rest, q))
        \/ q \in Connected(net, o)
=============================================================================
