------------------------ MODULE CurrentWorkspace_proofs ------------------------
(* Invariance theorems of CurrentWorkspace, for any nodes, schemes, drafts    *)
(* and starter library and a log of any length.                               *)
(*                                                                            *)
(* What is stored about a scheme, its closure and status, was computed from   *)
(* the nodes of one moment. The argument is that a closure is the least set   *)
(* with the explicit nodes and the parents of its members (ClosureIsLeast),   *)
(* so that it and its errors depend on its own members only (ClosureIsLocal,  *)
(* ErrorsAreLocal), and that a request validates every scheme with a changed  *)
(* node among its members.                                                    *)
EXTENDS CurrentWorkspace, TLAPS, FiniteSetTheorems

------------------------------------------------------------------------------
(* Numbers. Induction is the choice of a least counterexample.                *)

(* A set of natural numbers has a least element. *)
LEMMA LeastNumber ==
  ASSUME NEW T \in SUBSET Nat, T # {}
  PROVE  \E n \in T : \A m \in T : n <= m
<1> DEFINE R == {ss \in Nat \X Nat : ss[1] < ss[2]}
<1>1. OpToRel(<, Nat) = R
  BY DEF OpToRel
<1>2. PICK n \in T : \A m \in T : <<m, n>> \notin R
  <2> HIDE DEF R
  <2>1. IsWellFoundedOn(R, Nat)
    BY <1>1, NatLessThanWellFounded
  <2> QED
    BY <2>1, WFMin
<1>3. ASSUME NEW m \in T PROVE n <= m
  <2>1. m \in Nat /\ n \in Nat /\ <<m, n>> \in Nat \X Nat
    OBVIOUS
  <2>2. <<m, n>>[1] = m /\ <<m, n>>[2] = n
    OBVIOUS
  <2>3. ~ (m < n)
    BY <1>2, <2>1, <2>2
  <2> QED
    BY <2>1, <2>3
<1> QED
  BY <1>3

(* What is so of zero, and of a number whenever of the one before, is so of all. *)
LEMMA AllUpTo ==
  ASSUME NEW n \in Nat, NEW T \in SUBSET (0 .. n), 0 \in T,
         \A i \in 1 .. n : i - 1 \in T => i \in T
  PROVE  T = 0 .. n
<1> SUFFICES ASSUME (0 .. n) \ T # {} PROVE FALSE
  OBVIOUS
<1>1. PICK k \in (0 .. n) \ T : \A m \in (0 .. n) \ T : k <= m
  <2>1. (0 .. n) \ T \in SUBSET Nat
    OBVIOUS
  <2> QED
    BY <2>1, LeastNumber
<1>2. k \in 1 .. n /\ k - 1 \in 0 .. n
  OBVIOUS
<1>3. k - 1 \notin T
  BY <1>2
<1> QED
  BY <1>1, <1>2, <1>3

\* f starts with x and goes on with g, for n steps.
Iterates(f, x, g, n) == f[0] = x /\ \A i \in 1 .. n : f[i] = g[f[i - 1]]

(* A function can be iterated.                                                *)
LEMMA IterationExists ==
  ASSUME NEW n \in Nat, NEW U, NEW x \in U, NEW g \in [U -> U]
  PROVE  \E f \in [0 .. n -> U] : Iterates(f, x, g, n)
<1> DEFINE Defined(k) == \E f \in [0 .. k -> U] : Iterates(f, x, g, k)
           T == {k \in 0 .. n : Defined(k)}
<1>1. Defined(0)
  <2> DEFINE h == [i \in 0 .. 0 |-> x]
  <2>1. h \in [0 .. 0 -> U] /\ Iterates(h, x, g, 0)
    BY DEF Iterates
  <2> HIDE DEF h
  <2> QED
    BY <2>1
<1>2. ASSUME NEW i \in 1 .. n, Defined(i - 1) PROVE Defined(i)
  <2>1. PICK f \in [0 .. i - 1 -> U] : Iterates(f, x, g, i - 1)
    BY <1>2
  <2> DEFINE h == [j \in 0 .. i |-> IF j = i THEN g[f[i - 1]] ELSE f[j]]
  <2>2. f[i - 1] \in U /\ g[f[i - 1]] \in U
    BY <2>1
  <2>3. h \in [0 .. i -> U]
    BY <2>2
  <2>4. h[i] = g[f[i - 1]] /\ \A j \in 0 .. i - 1 : h[j] = f[j]
    OBVIOUS
  <2>5. ASSUME NEW j \in 1 .. i PROVE h[j] = g[h[j - 1]]
    <3>1. h[j - 1] = f[j - 1]
      BY <2>4
    <3>2. CASE j = i
      BY <3>1, <3>2, <2>4
    <3>3. CASE j # i
      <4>1. j \in 1 .. i - 1 /\ j \in 0 .. i - 1
        BY <3>3
      <4> QED
        BY <4>1, <3>1, <2>1, <2>4 DEF Iterates
    <3> QED
      BY <3>2, <3>3
  <2>6. h[0] = x
    BY <2>1, <2>4 DEF Iterates
  <2> HIDE DEF h
  <2>7. Iterates(h, x, g, i)
    BY <2>5, <2>6 DEF Iterates
  <2> QED
    BY <2>3, <2>7
<1>3. T = 0 .. n
  <2> HIDE DEF Defined
  <2>1. \A i \in 1 .. n : i - 1 \in T => i \in T
    BY <1>2
  <2>2. T \in SUBSET (0 .. n) /\ 0 \in T
    BY <1>1
  <2> HIDE DEF T
  <2> QED
    BY <2>1, <2>2, AllUpTo
<1>4. Defined(n)
  <2> HIDE DEF Defined
  <2> QED
    BY <1>3
<1> QED
  BY <1>4

------------------------------------------------------------------------------
(* Reachability: the least set with X that next does not lead out of.         *)

Neighbours(next, V) == \A v \in DOMAIN next : next[v] \subseteq V
Closed(S, next) == \A v \in S \cap DOMAIN next : next[v] \subseteq S
Least(C, X, next) == \A S : X \subseteq S /\ Closed(S, next) => C \subseteq S

\* C is what can be reached from X.
Reach(C, V, X, next) == C \subseteq V /\ X \subseteq C /\ Closed(C, next) /\ Least(C, X, next)

\* What is in S, and one step further.
Further(S, next) == S \cup UNION {next[v] : v \in S \cap DOMAIN next}

(* A step further stays among the elements there are. *)
LEMMA FurtherInside ==
  ASSUME NEW V, NEW S \in SUBSET V, NEW next, Neighbours(next, V)
  PROVE  Further(S, next) \in SUBSET V
BY DEF Further, Neighbours

(* As many steps as there are elements reach everything that can be reached: a step that  *)
(* adds nothing is the last, and each of the others adds an element.                      *)
LEMMA Saturation ==
  ASSUME NEW V, IsFiniteSet(V), NEW X \in SUBSET V, NEW next, Neighbours(next, V),
         NEW f \in [0 .. Cardinality(V) -> SUBSET V],
         f[0] = X, \A i \in 1 .. Cardinality(V) : f[i] = Further(f[i - 1], next)
  PROVE  Reach(f[Cardinality(V)], V, X, next)
<1> DEFINE n == Cardinality(V)
<1>1. n \in Nat
  BY FS_CardinalityType
<1> HIDE DEF n
<1>2. f \in [0 .. n -> SUBSET V] /\ \A i \in 1 .. n : f[i] = Further(f[i - 1], next)
  BY DEF n
<1>3. \A i \in 0 .. n : IsFiniteSet(f[i]) /\ Cardinality(f[i]) \in Nat
  <2> TAKE i \in 0 .. n
  <2>1. f[i] \in SUBSET V
    BY <1>2
  <2>2. PICK S : S = f[i]
    OBVIOUS
  <2>3. IsFiniteSet(S)
    BY <2>1, <2>2, FS_Subset
  <2>4. Cardinality(S) \in Nat
    BY <2>3, FS_CardinalityType
  <2> QED
    BY <2>2, <2>3, <2>4
<1>4. X \subseteq f[n]
  <2> DEFINE T == {i \in 0 .. n : X \subseteq f[i]}
  <2>1. 0 \in T /\ T \in SUBSET (0 .. n)
    BY <1>1
  <2>2. \A i \in 1 .. n : i - 1 \in T => i \in T
    BY <1>2 DEF Further
  <2>3. T = 0 .. n
    <3> HIDE DEF T
    <3> QED
      BY <1>1, <2>1, <2>2, AllUpTo
  <2>4. n \in T
    BY <1>1, <2>3
  <2> QED
    BY <2>4
<1>5. Closed(f[n], next)
  <2> DEFINE T == {i \in 0 .. n : Closed(f[i], next) \/ Cardinality(f[i]) >= i}
  <2>1. 0 \in T /\ T \in SUBSET (0 .. n)
    BY <1>1, <1>3
  <2>2. ASSUME NEW i \in 1 .. n, i - 1 \in T PROVE i \in T
    <3>1. i - 1 \in 0 .. n /\ i \in 0 .. n
      BY <1>1
    <3>2. f[i] = Further(f[i - 1], next) /\ f[i - 1] \in SUBSET V /\ f[i] \in SUBSET V
      BY <1>2, <3>1
    <3>3. CASE Closed(f[i - 1], next)
      <4>1. f[i] = f[i - 1]
        BY <3>2, <3>3 DEF Closed, Further
      <4> QED
        BY <4>1, <3>1, <3>3
    <3>4. CASE ~Closed(f[i - 1], next)
      <4>1. f[i - 1] \subseteq f[i] /\ f[i - 1] # f[i]
        BY <3>2, <3>4 DEF Closed, Further
      <4>2. PICK S, R : S = f[i - 1] /\ R = f[i]
        OBVIOUS
      <4>3. IsFiniteSet(R) /\ Cardinality(R) \in Nat /\ Cardinality(S) \in Nat
        BY <1>3, <3>1, <4>2
      <4>4. Cardinality(S) <= Cardinality(R) /\ Cardinality(S) # Cardinality(R)
        BY <4>1, <4>2, <4>3, FS_Subset
      <4>5. Cardinality(S) >= i - 1
        BY <2>2, <3>4, <4>2
      <4>6. Cardinality(R) >= i
        BY <4>3, <4>4, <4>5
      <4> QED
        BY <4>6, <4>2, <3>1
    <3> QED
      BY <3>3, <3>4
  <2>3. T = 0 .. n
    <3> HIDE DEF T
    <3> QED
      BY <1>1, <2>1, <2>2, AllUpTo
  <2>4. n \in T /\ n \in 0 .. n
    BY <1>1, <2>3
  <2>5. CASE Closed(f[n], next)
    BY <2>5
  <2>6. CASE Cardinality(f[n]) >= n
    <3>1. PICK S : S = f[n]
      OBVIOUS
    <3>2. S \in SUBSET V /\ Cardinality(S) \in Nat /\ Cardinality(S) >= n
      BY <1>2, <1>3, <2>4, <2>6, <3>1
    <3>3. Cardinality(S) <= Cardinality(V) /\ (Cardinality(V) = Cardinality(S) => V = S)
      BY <3>2, FS_Subset
    <3>4. S = V
      BY <3>2, <3>3, <1>1 DEF n
    <3> QED
      BY <3>1, <3>4 DEF Closed, Neighbours
  <2> QED
    BY <2>4, <2>5, <2>6
<1>6. Least(f[n], X, next)
  <2> SUFFICES ASSUME NEW S, X \subseteq S, Closed(S, next) PROVE f[n] \subseteq S
    BY DEF Least
  <2> DEFINE T == {i \in 0 .. n : f[i] \subseteq S}
  <2>1. 0 \in T /\ T \in SUBSET (0 .. n)
    BY <1>1
  <2>2. \A i \in 1 .. n : i - 1 \in T => i \in T
    BY <1>2 DEF Further, Closed
  <2>3. T = 0 .. n
    <3> HIDE DEF T
    <3> QED
      BY <1>1, <2>1, <2>2, AllUpTo
  <2>4. n \in T
    BY <1>1, <2>3
  <2> QED
    BY <2>4
<1>7. f[n] \in SUBSET V
  <2>1. n \in 0 .. n
    BY <1>1
  <2> QED
    BY <2>1, <1>2
<1> QED
  BY <1>4, <1>5, <1>6, <1>7 DEF n, Reach

\* The steps of h written as one function.
Steps(h, X, next, n) == [i \in 0 .. n |-> IF i = 0 THEN X ELSE Further(h[i - 1], next)]

(* The steps can be taken.                                                    *)
LEMMA StepsExist ==
  ASSUME NEW V, NEW n \in Nat, NEW X \in SUBSET V, NEW next, Neighbours(next, V)
  PROVE  \E h : h = Steps(h, X, next, n)
<1> DEFINE U == SUBSET V
           g == [S \in U |-> Further(S, next)]
<1>1. g \in [U -> U] /\ X \in U
  BY FurtherInside
<1>2. PICK h \in [0 .. n -> U] : Iterates(h, X, g, n)
  <2> HIDE DEF U, g
  <2> QED
    BY <1>1, IterationExists
<1>3. \A i \in 1 .. n : h[i] = Further(h[i - 1], next)
  <2> TAKE i \in 1 .. n
  <2>1. h[i - 1] \in U
    <3>1. i - 1 \in 0 .. n
      OBVIOUS
    <3> HIDE DEF U
    <3> QED
      BY <3>1
  <2>2. \A S \in U : g[S] = Further(S, next)
    OBVIOUS
  <2> HIDE DEF g, U
  <2> QED
    BY <2>1, <2>2, <1>2 DEF Iterates
<1>4. h = Steps(h, X, next, n)
  <2>1. h[0] = X
    BY <1>2 DEF Iterates
  <2> HIDE DEF U
  <2> QED
    BY <2>1, <1>2, <1>3 DEF Steps
<1> QED
  BY <1>4

(* They reach what can be reached.                                            *)
LEMMA StepsReach ==
  ASSUME NEW V, IsFiniteSet(V), NEW X \in SUBSET V, NEW next, Neighbours(next, V),
         NEW f, f = Steps(f, X, next, Cardinality(V))
  PROVE  Reach(f[Cardinality(V)], V, X, next)
<1> DEFINE n == Cardinality(V)
<1>1. n \in Nat
  BY FS_CardinalityType
<1>2. f = Steps(f, X, next, n)
  OBVIOUS
<1> HIDE DEF n
<1>3. DOMAIN f = 0 .. n /\ \A i \in 0 .. n : f[i] = IF i = 0 THEN X ELSE Further(f[i - 1], next)
  <2> DEFINE step == Steps(f, X, next, n)
  <2>1. DOMAIN step = 0 .. n
    BY DEF Steps
  <2>2. \A i \in 0 .. n : step[i] = IF i = 0 THEN X ELSE Further(f[i - 1], next)
    BY DEF Steps
  <2> HIDE DEF step
  <2>3. f = step
    BY <1>2 DEF step
  <2> QED
    BY <2>1, <2>2, <2>3
<1>4. f[0] = X /\ \A i \in 1 .. n : f[i] = Further(f[i - 1], next)
  <2>1. 0 \in 0 .. n /\ \A i \in 1 .. n : i \in 0 .. n /\ i # 0
    BY <1>1
  <2> QED
    BY <1>3, <2>1
<1>5. f \in [0 .. n -> SUBSET V]
  <2> DEFINE U == SUBSET V
             T == {i \in 0 .. n : f[i] \in U}
  <2>1. 0 \in T /\ T \in SUBSET (0 .. n)
    BY <1>1, <1>4
  <2>2. \A i \in 1 .. n : i - 1 \in T => i \in T
    <3> TAKE i \in 1 .. n
    <3> HAVE i - 1 \in T
    <3>1. i \in 0 .. n /\ f[i - 1] \in U /\ f[i] = Further(f[i - 1], next)
      BY <1>1, <1>4
    <3>2. PICK S : S = f[i - 1]
      OBVIOUS
    <3>3. Further(S, next) \in U
      BY <3>1, <3>2, FurtherInside
    <3> QED
      BY <3>1, <3>2, <3>3
  <2>3. T = 0 .. n
    <3> HIDE DEF T
    <3> QED
      BY <1>1, <2>1, <2>2, AllUpTo
  <2>4. f = [i \in 0 .. n |-> f[i]]
    BY <1>2 DEF Steps
  <2>5. \A i \in 0 .. n : f[i] \in U
    BY <2>3
  <2> QED
    BY <2>4, <2>5
<1>6. PICK k \in [0 .. Cardinality(V) -> SUBSET V] :
         /\ k = f /\ k[0] = X
         /\ \A i \in 1 .. Cardinality(V) : k[i] = Further(k[i - 1], next)
  BY <1>4, <1>5 DEF n
<1>7. Reach(k[Cardinality(V)], V, X, next)
  BY <1>6, Saturation
<1> QED
  BY <1>6, <1>7
------------------------------------------------------------------------------
(* Closures of a graph of nodes that satisfy their contracts.                 *)

Graph(nodes) ==
  /\ DOMAIN nodes \subseteq NodeId
  /\ \A n \in DOMAIN nodes : nodes[n] \in NodeContent /\ NodeContract(n, nodes[n])

Parents(nodes) == [n \in Stored(nodes) |-> ParentsOf(nodes[n])]

(* The parents of a node are nodes.                                           *)
LEMMA ParentsAreNodes ==
  ASSUME NEW nodes, Graph(nodes)
  PROVE  Neighbours(Parents(nodes), NodeId)
<1> SUFFICES ASSUME NEW n \in DOMAIN nodes PROVE ParentsOf(nodes[n]) \subseteq NodeId
  BY DEF Neighbours, Parents, Stored
<1>1. PICK c : c = nodes[n] /\ c \in NodeContent
  BY DEF Graph
<1>2. c.parents \in Seq(NodeId) /\ c.inputs \subseteq NodeId
  BY <1>1, KindAssumption DEF NodeContent
<1>3. ToSet(c.parents) \subseteq NodeId
  BY <1>2 DEF ToSet
<1> QED
  BY <1>1, <1>2, <1>3 DEF ParentsOf

(* A step of Closure is one step further along the parents. *)
LEMMA FurtherAlongParents ==
  ASSUME NEW nodes, NEW S
  PROVE  Further(S, Parents(nodes)) = S \cup UNION {ParentsOf(nodes[n]) : n \in S \cap Stored(nodes)}
<1>1. DOMAIN Parents(nodes) = Stored(nodes)
      /\ \A n \in Stored(nodes) : Parents(nodes)[n] = ParentsOf(nodes[n])
  BY DEF Parents
<1>2. PICK next : next = Parents(nodes)
  OBVIOUS
<1>3. {next[n] : n \in S \cap DOMAIN next} = {ParentsOf(nodes[n]) : n \in S \cap Stored(nodes)}
  BY <1>1, <1>2
<1>4. Further(S, next) = S \cup UNION {next[n] : n \in S \cap DOMAIN next}
  BY DEF Further
<1> QED
  BY <1>2, <1>3, <1>4

(* A closure is the least set with the explicit nodes and the parents of its members. *)
LEMMA ClosureIsLeast ==
  ASSUME NEW nodes, Graph(nodes), NEW X \in SUBSET NodeId
  PROVE  Reach(Closure(nodes, X), NodeId, X, Parents(nodes))
<1> DEFINE K == Cardinality(NodeId)
           next == Parents(nodes)
           Step(h) == [i \in 0 .. K |->
                         IF i = 0 THEN X
                         ELSE LET before == h[i - 1]
                              IN  before \cup UNION {ParentsOf(nodes[n]) : n \in before \cap Stored(nodes)}]
           f == CHOOSE h : h = Step(h)
<1>1. K \in Nat /\ Neighbours(next, NodeId)
  BY WorkspaceAssumption, FS_CardinalityType, ParentsAreNodes
<1>2. ASSUME NEW h PROVE Step(h) = Steps(h, X, next, K)
  <2>1. \A i \in 0 .. K : Further(h[i - 1], next)
          = h[i - 1] \cup UNION {ParentsOf(nodes[n]) : n \in h[i - 1] \cap Stored(nodes)}
    BY FurtherAlongParents
  <2> HIDE DEF next, K
  <2> QED
    BY <2>1 DEF Steps
<1>3. f = Steps(f, X, next, K)
  <2>1. \E h : h = Steps(h, X, next, K)
    <3> HIDE DEF K, next
    <3> QED
      BY <1>1, StepsExist
  <2>2. \E h : h = Step(h)
    <3> HIDE DEF Step
    <3> QED
      BY <1>2, <2>1
  <2>3. f = Step(f)
    <3> HIDE DEF Step
    <3> QED
      BY <2>2
  <2> HIDE DEF f, Step, next, K
  <2> QED
    BY <1>2, <2>3
<1>4. Closure(nodes, X) = f[K]
  BY DEF Closure
<1>5. PICK k : k = f
  OBVIOUS
<1> HIDE DEF f, Step, next
<1>6. k = Steps(k, X, next, Cardinality(NodeId))
  BY <1>3, <1>5
<1>7. Reach(k[Cardinality(NodeId)], NodeId, X, next)
  BY <1>1, <1>6, WorkspaceAssumption, StepsReach
<1> QED
  BY <1>4, <1>5, <1>7 DEF next

(* References resolve where the closure stays among the stored nodes; it is then closed. *)
LEMMA ResolvedClosures ==
  ASSUME NEW nodes, Graph(nodes), NEW X \in SUBSET NodeId
  PROVE  LET C == Closure(nodes, X)
         IN  /\ Unresolved(nodes, X) = {} <=> C \subseteq Stored(nodes)
             /\ X \subseteq C /\ C \subseteq NodeId
             /\ C \subseteq Stored(nodes) => ParentClosed(nodes, C)
<1> DEFINE C == Closure(nodes, X)
           next == Parents(nodes)
<1>1. Reach(C, NodeId, X, next)
  BY ClosureIsLeast
<1>2. /\ DOMAIN next = Stored(nodes)
      /\ \A n \in Stored(nodes) : next[n] = ParentsOf(nodes[n])
  BY DEF Parents
<1> HIDE DEF C, next
<1>3. \A n \in C \cap Stored(nodes) : ParentsOf(nodes[n]) \subseteq C
  BY <1>1, <1>2 DEF Reach, Closed
<1>4. X \subseteq C /\ C \subseteq NodeId
  BY <1>1 DEF Reach
<1>5. Unresolved(nodes, X) = {} <=> /\ X \subseteq Stored(nodes)
                                    /\ \A m \in C \cap Stored(nodes) : ParentsOf(nodes[m]) \subseteq Stored(nodes)
  <2>1. Unresolved(nodes, X) =
          {<<"missing", n>> : n \in {m \in C \cap Stored(nodes) : ~(ParentsOf(nodes[m]) \subseteq Stored(nodes))}}
          \cup {<<"missing", None>> : n \in X \ Stored(nodes)}
    BY DEF Unresolved, C
  <2> QED
    BY <2>1
<1>6. ASSUME X \subseteq Stored(nodes),
             \A m \in C \cap Stored(nodes) : ParentsOf(nodes[m]) \subseteq Stored(nodes)
      PROVE  C \subseteq Stored(nodes)
  <2>1. Closed(C \cap Stored(nodes), next)
    BY <1>2, <1>3, <1>6 DEF Closed
  <2>2. X \subseteq C \cap Stored(nodes)
    BY <1>4, <1>6
  <2> QED
    BY <1>1, <2>1, <2>2 DEF Reach, Least
<1>7. C \subseteq Stored(nodes) => ParentClosed(nodes, C)
  BY <1>3 DEF ParentClosed
<1> QED
  <2>1. C \subseteq Stored(nodes) => /\ X \subseteq Stored(nodes)
                                     /\ \A m \in C \cap Stored(nodes) : ParentsOf(nodes[m]) \subseteq Stored(nodes)
    BY <1>3, <1>4
  <2> QED
    BY <2>1, <1>4, <1>5, <1>6, <1>7 DEF C

\* The graphs have the nodes of S in common.
Agree(nodes, new, S) ==
  S \subseteq Stored(nodes) /\ S \subseteq Stored(new) /\ \A n \in S : new[n] = nodes[n]

(* A closure whose references resolve depends on its own members only.        *)
LEMMA ClosureIsLocal ==
  ASSUME NEW nodes, NEW new, Graph(nodes), Graph(new), NEW X \in SUBSET NodeId,
         Agree(nodes, new, Closure(nodes, X))
  PROVE  Closure(new, X) = Closure(nodes, X)
<1> DEFINE C == Closure(nodes, X)
           D == Closure(new, X)
<1>1. Reach(C, NodeId, X, Parents(nodes)) /\ Reach(D, NodeId, X, Parents(new))
  BY ClosureIsLeast
<1>2. /\ DOMAIN Parents(nodes) = Stored(nodes) /\ DOMAIN Parents(new) = Stored(new)
      /\ \A n \in Stored(nodes) : Parents(nodes)[n] = ParentsOf(nodes[n])
      /\ \A n \in Stored(new) : Parents(new)[n] = ParentsOf(new[n])
  BY DEF Parents
<1>3. Agree(nodes, new, C)
  OBVIOUS
<1> HIDE DEF C, D
<1>4. \A n \in C : Parents(new)[n] = Parents(nodes)[n]
  BY <1>2, <1>3 DEF Agree
<1>5. Closed(C, Parents(new))
  BY <1>1, <1>2, <1>3, <1>4 DEF Closed, Reach, Agree
<1>6. D \subseteq C
  BY <1>1, <1>5 DEF Reach, Least
<1>7. Closed(D, Parents(nodes))
  BY <1>1, <1>2, <1>3, <1>4, <1>6 DEF Closed, Reach, Agree
<1>8. C \subseteq D
  BY <1>1, <1>7 DEF Reach, Least
<1> QED
  BY <1>6, <1>8 DEF C, D

\* The nodes of S that wait for another of S.
Waiting(nodes, S) == {n \in S : ToSet(nodes[n].parents) \cap S # {}}

\* left is what is left of active after each round.
Rounds(left, nodes, active, n) ==
  left[0] = active /\ \A i \in 1 .. n : left[i] = Waiting(nodes, left[i - 1])

(* The rounds of Cyclic. *)
LEMMA CyclicRounds ==
  ASSUME NEW nodes, NEW active
  PROVE  \E left : /\ Rounds(left, nodes, active, Cardinality(NodeId))
                   /\ Cyclic(nodes, active) <=> left[Cardinality(NodeId)] # {}
<1> DEFINE K == Cardinality(NodeId)
           U == SUBSET active
           g == [S \in U |-> Waiting(nodes, S)]
           Step(h) == [i \in 0 .. K |->
                         IF i = 0 THEN active
                         ELSE LET before == h[i - 1]
                              IN  {n \in before : ToSet(nodes[n].parents) \cap before # {}}]
           f == CHOOSE h : h = Step(h)
<1>1. K \in Nat
  BY WorkspaceAssumption, FS_CardinalityType
<1>2. active \in U /\ g \in [U -> U]
  BY DEF Waiting
<1>3. PICK h \in [0 .. K -> U] : Iterates(h, active, g, K)
  <2> HIDE DEF K, U, g
  <2> QED
    BY <1>1, <1>2, IterationExists
<1>4. \A i \in 1 .. K : h[i] = Waiting(nodes, h[i - 1])
  <2> TAKE i \in 1 .. K
  <2>1. h[i - 1] \in U
    <3>1. i - 1 \in 0 .. K
      BY <1>1
    <3> HIDE DEF U, K
    <3> QED
      BY <3>1
  <2>2. \A S \in U : g[S] = Waiting(nodes, S)
    OBVIOUS
  <2> HIDE DEF g, U
  <2> QED
    BY <2>1, <2>2, <1>3 DEF Iterates
<1>5. h = Step(h)
  <2>1. h[0] = active
    BY <1>3 DEF Iterates
  <2> HIDE DEF U, K
  <2> QED
    BY <2>1, <1>1, <1>3, <1>4 DEF Waiting
<1>6. f = Step(f)
  <2> HIDE DEF Step
  <2> QED
    BY <1>5
<1>7. \A i \in 0 .. K : f[i] = IF i = 0 THEN active ELSE Waiting(nodes, f[i - 1])
  <2>1. \A i \in 0 .. K : Step(f)[i] = IF i = 0 THEN active ELSE Waiting(nodes, f[i - 1])
    BY DEF Waiting
  <2> HIDE DEF Step, f
  <2> QED
    BY <1>6, <2>1
<1>8. Cyclic(nodes, active) <=> f[K] # {}
  BY DEF Cyclic
<1> HIDE DEF f, K
<1>9. Rounds(f, nodes, active, K)
  <2>1. 0 \in 0 .. K /\ \A i \in 1 .. K : i \in 0 .. K /\ i # 0
    BY <1>1
  <2> QED
    BY <1>7, <2>1 DEF Rounds
<1> QED
  BY <1>8, <1>9 DEF K

(* Whether there is a cycle depends on the active nodes only.                 *)
LEMMA CyclicIsLocal ==
  ASSUME NEW nodes, NEW new, NEW active, Agree(nodes, new, active)
  PROVE  Cyclic(nodes, active) <=> Cyclic(new, active)
<1> DEFINE K == Cardinality(NodeId)
<1>1. K \in Nat
  BY WorkspaceAssumption, FS_CardinalityType
<1>2. PICK f : Rounds(f, nodes, active, K) /\ (Cyclic(nodes, active) <=> f[K] # {})
  BY CyclicRounds
<1>3. PICK h : Rounds(h, new, active, K) /\ (Cyclic(new, active) <=> h[K] # {})
  BY CyclicRounds
<1> HIDE DEF K
<1> DEFINE T == {i \in 0 .. K : f[i] = h[i] /\ f[i] \subseteq active}
<1>4. 0 \in T /\ T \in SUBSET (0 .. K)
  BY <1>1, <1>2, <1>3 DEF Rounds
<1>5. ASSUME NEW i \in 1 .. K, i - 1 \in T PROVE i \in T
  <2>1. f[i - 1] = h[i - 1] /\ f[i - 1] \subseteq active /\ i \in 0 .. K
    BY <1>1, <1>5
  <2>2. f[i] = Waiting(nodes, f[i - 1]) /\ h[i] = Waiting(new, h[i - 1])
    BY <1>2, <1>3 DEF Rounds
  <2>3. ASSUME NEW S, S \subseteq active
        PROVE  Waiting(nodes, S) = Waiting(new, S) /\ Waiting(nodes, S) \subseteq active
    BY <2>3 DEF Waiting, Agree
  <2> QED
    BY <2>1, <2>2, <2>3
<1>6. T = 0 .. K
  <2> HIDE DEF T
  <2> QED
    BY <1>1, <1>4, <1>5, AllUpTo
<1>7. K \in T
  BY <1>1, <1>6
<1> QED
  BY <1>2, <1>3, <1>7

(* The errors of a closed set of nodes depend on its members only.            *)
LEMMA ErrorsAreLocal ==
  ASSUME NEW nodes, NEW new, NEW active, Agree(nodes, new, active), ParentClosed(nodes, active),
         \A n \in active : Len(nodes[n].axes) = Len(nodes[n].parents)
                           /\ nodes[n].axes \in Seq(Nat) /\ nodes[n].parents \in Seq(NodeId)
  PROVE  GraphErrors(new, active) = GraphErrors(nodes, active)
<1>1. ASSUME NEW n \in active PROVE NodeErrors(new, n) = NodeErrors(nodes, n)
  <2>1. new[n] = nodes[n]
    BY DEF Agree
  <2>2. ASSUME NEW i \in DOMAIN nodes[n].axes PROVE new[nodes[n].parents[i]] = nodes[nodes[n].parents[i]]
    <3>1. PICK c : c = nodes[n]
      OBVIOUS
    <3>2. i \in DOMAIN c.parents
      BY <3>1
    <3>3. c.parents[i] \in ParentsOf(c)
      BY <3>2 DEF ParentsOf, ToSet
    <3>4. c.parents[i] \in active
      BY <3>1, <3>3 DEF ParentClosed
    <3> QED
      BY <3>1, <3>4 DEF Agree
  <2>3. (\E i \in DOMAIN nodes[n].axes : new[nodes[n].parents[i]].states # nodes[n].axes[i])
          <=> \E i \in DOMAIN nodes[n].axes : nodes[nodes[n].parents[i]].states # nodes[n].axes[i]
    BY <2>2
  <2>4. PICK wrong \in BOOLEAN :
          wrong <=> \E i \in DOMAIN nodes[n].axes : nodes[nodes[n].parents[i]].states # nodes[n].axes[i]
    OBVIOUS
  <2>5. NodeErrors(nodes, n) =
          When(nodes[n].life = "archived", <<"archived", n>>)
          \cup When(nodes[n].table = "incomplete", <<"incomplete", n>>)
          \cup When(~nodes[n].recipe, <<"recipe", n>>) \cup When(wrong, <<"axis", n>>)
    BY <2>4 DEF NodeErrors, When
  <2>6. NodeErrors(new, n) =
          When(nodes[n].life = "archived", <<"archived", n>>)
          \cup When(nodes[n].table = "incomplete", <<"incomplete", n>>)
          \cup When(~nodes[n].recipe, <<"recipe", n>>) \cup When(wrong, <<"axis", n>>)
    BY <2>1, <2>3, <2>4 DEF NodeErrors, When
  <2> QED
    BY <2>5, <2>6
<1>2. UNION {NodeErrors(new, n) : n \in active} = UNION {NodeErrors(nodes, n) : n \in active}
  <2>1. {NodeErrors(new, n) : n \in active} = {NodeErrors(nodes, n) : n \in active}
    BY <1>1
  <2> QED
    BY <2>1
<1>3. Cyclic(nodes, active) <=> Cyclic(new, active)
  BY CyclicIsLocal
<1> QED
  BY <1>2, <1>3 DEF GraphErrors, When

------------------------------------------------------------------------------
(* Validation of schemes.                                                     *)

\* What a status without notes says of an active scheme, of the given nodes.
Valid(v, nodes) ==
  v.content.life = "active" /\ v.notes = {} =>
    /\ Unresolved(nodes, v.content.explicit) = {}
    /\ v.content.closure = Closure(nodes, v.content.explicit)
    /\ GraphErrors(nodes, v.content.closure) = {}

(* Normalising a scheme yields a scheme whose status is true.                 *)
LEMMA NormalizedIsValid ==
  ASSUME NEW nodes, Graph(nodes), NEW b \in SchemeContent,
         NEW v, v.content = Normalized(b, nodes).content, v.notes = Normalized(b, nodes).notes
  PROVE  /\ Valid(v, nodes)
         /\ v.content \in SchemeContent
         /\ v.content.explicit = b.explicit /\ v.content.outputs = b.outputs /\ v.content.life = b.life
         /\ Unresolved(nodes, b.explicit) = {} /\ b.outputs \subseteq Closure(nodes, b.explicit) =>
              v.content.closure = Closure(nodes, b.explicit)
<1> DEFINE C == Closure(nodes, b.explicit)
           missing == Unresolved(nodes, b.explicit)
<1>1. b.explicit \in SUBSET NodeId /\ C \subseteq NodeId
  <2>1. b.explicit \in SUBSET NodeId
    BY DEF SchemeContent
  <2> QED
    BY <2>1, ResolvedClosures
<1>2. [b EXCEPT !.closure = C] = [life |-> b.life, explicit |-> b.explicit, closure |-> C,
                                  outputs |-> b.outputs]
  BY DEF SchemeContent
<1> HIDE DEF C, missing
<1>3. CASE missing # {}
  <2>1. v.content = b /\ v.notes = missing
    BY <1>3 DEF Normalized, missing
  <2> QED
    BY <1>3, <2>1 DEF Valid, missing
<1>4. CASE missing = {} /\ ~(b.outputs \subseteq C)
  <2>1. v.content = b /\ v.notes = {<<"output", None>>}
    BY <1>4 DEF Normalized, missing, C
  <2> QED
    BY <1>4, <2>1 DEF Valid, C
<1>5. CASE missing = {} /\ b.outputs \subseteq C
  <2>1. v.content = [b EXCEPT !.closure = C] /\ v.notes = GraphErrors(nodes, C)
    BY <1>5 DEF Normalized, missing, C
  <2>2. /\ v.content.life = b.life /\ v.content.explicit = b.explicit
        /\ v.content.closure = C /\ v.content.outputs = b.outputs
        /\ v.content \in SchemeContent
    BY <1>1, <1>2, <2>1 DEF SchemeContent
  <2> QED
    BY <1>5, <2>1, <2>2 DEF Valid, missing, C
<1> QED
  BY <1>3, <1>4, <1>5

(* What graphs in common have of a contract. *)
LEMMA GraphAxes ==
  ASSUME NEW nodes, Graph(nodes), NEW n \in Stored(nodes)
  PROVE  Len(nodes[n].axes) = Len(nodes[n].parents)
         /\ nodes[n].axes \in Seq(Nat) /\ nodes[n].parents \in Seq(NodeId)
BY DEF Graph, NodeContent, NodeContract, Stored

(* A true status stays true while the members of the closure stay.            *)
LEMMA ValidIsLocal ==
  ASSUME NEW nodes, NEW new, Graph(nodes), Graph(new), NEW v, v.content \in SchemeContent,
         Valid(v, nodes),
         \A n \in v.content.closure \cap Stored(nodes) : n \in Stored(new) /\ new[n] = nodes[n]
  PROVE  Valid(v, new)
<1> SUFFICES ASSUME v.content.life = "active", v.notes = {} PROVE Valid(v, new)
  BY DEF Valid
<1>1. PICK X, C : X = v.content.explicit /\ C = v.content.closure
  OBVIOUS
<1>2. X \in SUBSET NodeId
  BY <1>1 DEF SchemeContent
<1>3. Unresolved(nodes, X) = {} /\ C = Closure(nodes, X) /\ GraphErrors(nodes, C) = {}
  BY <1>1 DEF Valid
<1>4. C \subseteq Stored(nodes) /\ ParentClosed(nodes, C)
  BY <1>2, <1>3, ResolvedClosures
<1>5. Agree(nodes, new, C)
  BY <1>1, <1>4 DEF Agree
<1>6. Closure(new, X) = C
  BY <1>2, <1>3, <1>5, ClosureIsLocal
<1>7. Unresolved(new, X) = {}
  BY <1>2, <1>5, <1>6, ResolvedClosures DEF Agree
<1>8. \A n \in C : Len(nodes[n].axes) = Len(nodes[n].parents)
                   /\ nodes[n].axes \in Seq(Nat) /\ nodes[n].parents \in Seq(NodeId)
  BY <1>4, GraphAxes
<1>9. GraphErrors(new, C) = {}
  BY <1>3, <1>4, <1>5, <1>8, ErrorsAreLocal
<1> QED
  BY <1>1, <1>6, <1>7, <1>9 DEF Valid

------------------------------------------------------------------------------
(* Sequences of events.                                                       *)

IsSeq(q) == q \in Seq(ToSet(q))

(* A function on the first numbers is a sequence. *)
LEMMA FunctionsAreSequences ==
  ASSUME NEW m \in Nat, NEW q, q = [i \in 1 .. m |-> q[i]]
  PROVE  IsSeq(q) /\ Len(q) = m /\ DOMAIN q = 1 .. m
<1> DEFINE S == ToSet(q)
<1>1. DOMAIN q = 1 .. m /\ \A i \in 1 .. m : q[i] \in S
  BY DEF ToSet
<1> HIDE DEF S
<1>2. q \in [1 .. m -> S]
  BY <1>1
<1>3. q \in Seq(S) /\ Len(q) = m
  BY <1>2
<1> QED
  BY <1>1, <1>3 DEF IsSeq, S

(* What a concatenation has where. *)
LEMMA Concatenation ==
  ASSUME NEW a, NEW b, IsSeq(a), IsSeq(b)
  PROVE  /\ IsSeq(a \o b)
         /\ Len(a) \in Nat /\ Len(b) \in Nat /\ Len(a \o b) = Len(a) + Len(b)
         /\ DOMAIN a = 1 .. Len(a) /\ DOMAIN b = 1 .. Len(b) /\ DOMAIN (a \o b) = 1 .. Len(a) + Len(b)
         /\ \A i \in 1 .. Len(a) : (a \o b)[i] = a[i]
         /\ \A i \in 1 .. Len(b) : (a \o b)[Len(a) + i] = b[i]
         /\ \A i \in 1 .. Len(a) + Len(b) : i \notin 1 .. Len(a) => i - Len(a) \in 1 .. Len(b)
<1>1. PICK A, B : A = ToSet(a) /\ B = ToSet(b)
  OBVIOUS
<1> DEFINE S == A \cup B
<1>2. a \in Seq(S) /\ b \in Seq(S)
  <2>1. a \in Seq(A) /\ b \in Seq(B)
    BY <1>1 DEF IsSeq
  <2> QED
    BY <2>1
<1> HIDE DEF S
<1>3. /\ a \o b \in Seq(S)
      /\ Len(a) \in Nat /\ Len(b) \in Nat /\ Len(a \o b) = Len(a) + Len(b)
      /\ DOMAIN a = 1 .. Len(a) /\ DOMAIN b = 1 .. Len(b) /\ DOMAIN (a \o b) = 1 .. Len(a) + Len(b)
      /\ \A i \in 1 .. Len(a) : (a \o b)[i] = a[i]
      /\ \A i \in 1 .. Len(b) : (a \o b)[Len(a) + i] = b[i]
  BY <1>2
<1>4. \A i \in 1 .. Len(a) + Len(b) : i \notin 1 .. Len(a) => i - Len(a) \in 1 .. Len(b)
  BY <1>3
<1>5. IsSeq(a \o b)
  <2>1. PICK q : q = a \o b
    OBVIOUS
  <2>2. q \in Seq(S)
    BY <1>3, <2>1
  <2>3. Len(q) \in Nat /\ q = [i \in 1 .. Len(q) |-> q[i]]
    BY <2>2
  <2> QED
    BY <2>1, <2>3, FunctionsAreSequences
<1> QED
  BY <1>3, <1>4, <1>5

(* SetToSeq lists every element of a finite set once.                         *)
LEMMA Listing ==
  ASSUME NEW S, IsFiniteSet(S)
  PROVE  \E m \in Nat : /\ SetToSeq(S) \in [1 .. m -> S]
                        /\ DOMAIN SetToSeq(S) = 1 .. m
                        /\ \A x \in S : \E i \in 1 .. m : SetToSeq(S)[i] = x
                        /\ \A i, j \in 1 .. m : SetToSeq(S)[i] = SetToSeq(S)[j] => i = j
<1>1. PICK m : m = Cardinality(S) /\ m \in Nat /\ ExistsBijection(1 .. m, S)
  BY FS_CardinalityType
<1>2. PICK f \in [1 .. m -> S] : IsInjective(f)
  BY <1>1 DEF ExistsBijection, Bijection, Injection, IsInjective
<1>3. PICK q : q = SetToSeq(S)
  OBVIOUS
<1>4. q \in [1 .. m -> S] /\ IsInjective(q)
  BY <1>1, <1>2, <1>3 DEF SetToSeq
<1>5. q \in Injection(1 .. m, S)
  BY <1>4 DEF Injection, IsInjective
<1>6. q \in Surjection(1 .. m, S)
  <2>1. IsFiniteSet(1 .. m) /\ Cardinality(1 .. m) = m
    BY <1>1, FS_Interval
  <2> QED
    BY <1>1, <1>5, <2>1, FS_Injection
<1>7. \A x \in S : \E i \in 1 .. m : q[i] = x
  BY <1>6 DEF Surjection
<1>8. \A i, j \in 1 .. m : q[i] = q[j] => i = j
  BY <1>4 DEF IsInjective
<1> QED
  BY <1>1, <1>3, <1>4, <1>7, <1>8

------------------------------------------------------------------------------
(* Rows and events.                                                           *)

\* v is a value that object o may have.
Meets(o, v) ==
  /\ v \in Value
  /\ IF o \in NodeId THEN v.content \in NodeContent /\ NodeContract(o, v.content)
     ELSE v.content \in SchemeContent /\ SchemeContract(v.content)

Kind == {"create", "update", "cascade", "deactivate", "archive", "undo", "redo"}

EventRecord ==
  [object : Object, kind : Kind, parent : Nat, before : Value \cup {Absent}, after : Value,
   source : Nat, pending : Nat, actor : {Expert}]

\* An event of a log of n events refers to events of the log.
Refers(e, n) == e.parent \in 0 .. n /\ e.source \in 0 .. n /\ e.pending \in 0 .. n

RowsTyped(rows, n) ==
  /\ rows \in [Object -> Row \cup {Absent}]
  /\ \A o \in Object : rows[o] # Absent =>
       Meets(o, rows[o].value) /\ rows[o].head \in 0 .. n /\ rows[o].redo \in 0 .. n

LogTyped(events) ==
  /\ events \in Seq(EventRecord)
  /\ \A i \in 1 .. Len(events) : Refers(events[i], Len(events))

Typed == LogTyped(log) /\ RowsTyped(objects, Len(log))

\* The nodes among the rows.
NodesOf(rows) ==
  [n \in {m \in NodeId : rows[m] # Absent} |-> rows[n].value.content]

(* The stored nodes are a graph. *)
LEMMA RowsAreGraph ==
  ASSUME NEW rows, NEW n, RowsTyped(rows, n)
  PROVE  /\ Graph(NodesOf(rows))
         /\ Stored(NodesOf(rows)) = {m \in NodeId : rows[m] # Absent}
         /\ \A m \in NodeId : rows[m] # Absent => NodesOf(rows)[m] = rows[m].value.content
<1>1. NodeId \subseteq Object
  BY WorkspaceAssumption
<1>2. \A m \in NodeId : rows[m] # Absent =>
        rows[m].value.content \in NodeContent /\ NodeContract(m, rows[m].value.content)
  BY <1>1 DEF RowsTyped, Meets
<1> QED
  BY <1>2 DEF Graph, NodesOf, Stored

(* The nodes of now. *)
LEMMA GraphNow ==
  ASSUME Typed
  PROVE  /\ Graph(Nodes) /\ Nodes = NodesOf(objects)
         /\ Stored(Nodes) = {m \in NodeId : Exists(m)}
         /\ \A m \in NodeId : Exists(m) => Nodes[m] = Node(m)
<1>1. Nodes = NodesOf(objects)
  BY DEF Nodes, NodesOf, Node, Current, Exists
<1>2. PICK rows, n : rows = objects /\ n = Len(log)
  OBVIOUS
<1>3. RowsTyped(rows, n)
  BY <1>2 DEF Typed
<1>4. /\ Graph(NodesOf(rows))
      /\ Stored(NodesOf(rows)) = {m \in NodeId : rows[m] # Absent}
      /\ \A m \in NodeId : rows[m] # Absent => NodesOf(rows)[m] = rows[m].value.content
  BY <1>3, RowsAreGraph
<1> QED
  BY <1>1, <1>2, <1>4 DEF Exists, Node, Current

(* What a row is. *)
LEMMA RowsNow ==
  ASSUME Typed, NEW o \in Object, Exists(o)
  PROVE  /\ Meets(o, Current(o)) /\ Current(o) \in Value
         /\ objects[o].head \in 0 .. Len(log) /\ objects[o].redo \in 0 .. Len(log)
BY DEF Typed, RowsTyped, Exists, Current, Meets

\* Where an event is in the history of its object.
Moves(e) ==
  LET o == e.object
  IN  /\ e.kind # "create" => e.parent = objects[o].head
      /\ e.kind = "undo" =>
           /\ e.source = objects[o].head /\ e.pending = objects[o].redo
           /\ log[e.source].before # Absent /\ Same(e.after, log[e.source].before)
      /\ e.kind = "redo" =>
           e.source = log[objects[o].redo].source /\ Same(e.after, log[e.source].after)

\* What the events of one request owe the rows: the next event of an object that exists, or
\* its creation; a cursor event moves a cursor that is set.
EventFits(e) ==
  LET o == e.object
  IN  /\ e \in EventRecord /\ Refers(e, Len(log)) /\ Meets(o, e.after)
      /\ IF e.kind = "create" THEN ~Exists(o) /\ e.before = Absent
         ELSE Exists(o) /\ e.before = Current(o)
      /\ e.kind = "undo" => e.source # NoEvent
      /\ e.kind = "redo" => objects[o].redo # NoEvent
      /\ Moves(e)

\* One transaction: sound events of different objects.
Requested(events) ==
  /\ IsSeq(events)
  /\ \A i \in DOMAIN events : EventFits(events[i])
  /\ \A i, j \in DOMAIN events : events[i].object = events[j].object => i = j

Contracts(events) == \A i \in DOMAIN events : Contract(events[i])

(* The cursors an event leaves are places of the log.                         *)
LEMMA CursorsStay ==
  ASSUME Typed, NEW e, EventFits(e), NEW id \in Nat, id > Len(log), NEW n \in Nat, id <= n
  PROVE  HeadAfter(e, id) \in 0 .. n /\ RedoAfter(e, id) \in 0 .. n
<1>1. PICK lg, m : lg = log /\ m = Len(lg)
  OBVIOUS
<1>2. /\ m \in Nat /\ m <= n /\ lg \in Seq(EventRecord)
      /\ \A i \in 1 .. m : Refers(lg[i], m)
  <2>1. LogTyped(lg) /\ Len(lg) \in Nat
    BY <1>1 DEF Typed, LogTyped
  <2> QED
    BY <1>1, <2>1 DEF LogTyped
<1>3. e.object \in Object /\ e.source \in 0 .. m
  BY <1>1 DEF EventFits, EventRecord, Refers
<1>4. CASE e.kind = "undo"
  <2>1. e.source \in 1 .. m
    BY <1>2, <1>3, <1>4 DEF EventFits, NoEvent
  <2>2. lg[e.source].parent \in 0 .. m
    BY <1>2, <2>1 DEF Refers
  <2> QED
    BY <1>1, <1>2, <1>4, <2>2 DEF HeadAfter, RedoAfter
<1>5. CASE e.kind = "redo"
  <2>1. Exists(e.object) /\ objects[e.object].redo # NoEvent
    BY <1>5 DEF EventFits
  <2>2. objects[e.object].redo \in 1 .. m
    BY <1>1, <1>2, <1>3, <2>1, RowsNow DEF NoEvent
  <2>3. lg[objects[e.object].redo].pending \in 0 .. m
    BY <1>2, <2>2 DEF Refers
  <2> QED
    BY <1>1, <1>2, <1>3, <1>5, <2>3 DEF HeadAfter, RedoAfter
<1>6. CASE e.kind \notin {"undo", "redo"}
  BY <1>6 DEF HeadAfter, RedoAfter, NoEvent
<1> QED
  BY <1>4, <1>5, <1>6

(* The rows a transaction leaves.                                             *)
LEMMA CommittedRows ==
  ASSUME Typed, NEW events, Requested(events), Commit(events)
  PROVE  /\ \A i \in DOMAIN events :
              LET o == events[i].object
                  id == Len(log) + i
              IN  objects'[o] = [value |-> events[i].after, head |-> HeadAfter(events[i], id),
                                 redo |-> RedoAfter(events[i], id)]
         /\ \A o \in Object : (\A i \in DOMAIN events : events[i].object # o) => objects'[o] = objects[o]
         /\ DOMAIN objects' = Object /\ objects' = [o \in Object |-> objects'[o]]
<1>1. \A o \in Object : objects'[o] =
        IF \E i \in DOMAIN events : events[i].object = o
        THEN LET i == CHOOSE i \in DOMAIN events : events[i].object = o
                 id == Len(log) + i
             IN  [value |-> events[i].after, head  |-> HeadAfter(events[i], id),
                  redo  |-> RedoAfter(events[i], id)]
        ELSE objects[o]
  BY DEF Commit
<1>2. DOMAIN objects' = Object /\ objects' = [o \in Object |-> objects'[o]]
  BY DEF Commit
<1>3. ASSUME NEW i \in DOMAIN events
      PROVE  objects'[events[i].object] =
               [value |-> events[i].after, head |-> HeadAfter(events[i], Len(log) + i),
                redo |-> RedoAfter(events[i], Len(log) + i)]
  <2>1. (CHOOSE j \in DOMAIN events : events[j].object = events[i].object) = i
    BY DEF Requested
  <2>2. events[i].object \in Object
    BY DEF Requested, EventFits, EventRecord
  <2>3. \E j \in DOMAIN events : events[j].object = events[i].object
    OBVIOUS
  <2> QED
    BY <1>1, <2>1, <2>2, <2>3
<1> QED
  BY <1>1, <1>2, <1>3

(* The log a transaction leaves.                                              *)
LEMMA CommittedLog ==
  ASSUME Typed, NEW events, Requested(events), Commit(events)
  PROVE  /\ Len(log) \in Nat /\ Len(events) \in Nat /\ DOMAIN events = 1 .. Len(events)
         /\ log' \in Seq(EventRecord) /\ Len(log') = Len(log) + Len(events)
         /\ \A i \in 1 .. Len(log) : log'[i] = log[i]
         /\ \A i \in 1 .. Len(events) : log'[Len(log) + i] = events[i]
         /\ \A i \in Len(log) + 1 .. Len(log') : i - Len(log) \in DOMAIN events
                                                /\ log'[i] = events[i - Len(log)]
<1>1. events \in Seq(EventRecord)
  <2>1. \A i \in DOMAIN events : events[i] \in EventRecord
    BY DEF Requested, EventFits
  <2>2. PICK S : S = ToSet(events)
    OBVIOUS
  <2>3. events \in Seq(S) /\ S \subseteq EventRecord
    BY <2>1, <2>2 DEF Requested, IsSeq, ToSet
  <2> QED
    BY <2>3
<1>2. log \in Seq(EventRecord) /\ log' = log \o events
  BY DEF Typed, LogTyped, Commit
<1>3. /\ Len(log) \in Nat /\ Len(events) \in Nat /\ DOMAIN events = 1 .. Len(events)
      /\ log' \in Seq(EventRecord) /\ Len(log') = Len(log) + Len(events)
      /\ \A i \in 1 .. Len(log) : log'[i] = log[i]
      /\ \A i \in 1 .. Len(events) : log'[Len(log) + i] = events[i]
  BY <1>1, <1>2
<1>4. ASSUME NEW i \in Len(log) + 1 .. Len(log')
      PROVE  i - Len(log) \in DOMAIN events /\ log'[i] = events[i - Len(log)]
  <2>1. i - Len(log) \in 1 .. Len(events) /\ Len(log) + (i - Len(log)) = i
    BY <1>3
  <2> QED
    BY <1>3, <2>1
<1> QED
  BY <1>3, <1>4

(* A transaction keeps the types.                                             *)
LEMMA CommitTyped ==
  ASSUME Typed, NEW events, Requested(events), Commit(events)
  PROVE  Typed'
<1>1. PICK lg, rows, n, m : lg = log' /\ rows = objects' /\ n = Len(log') /\ m = Len(log)
  OBVIOUS
<1>2. /\ m \in Nat /\ Len(events) \in Nat /\ DOMAIN events = 1 .. Len(events)
      /\ lg \in Seq(EventRecord) /\ n = m + Len(events) /\ n = Len(lg)
      /\ \A i \in 1 .. m : lg[i] = log[i]
      /\ \A i \in m + 1 .. n : i - m \in DOMAIN events /\ lg[i] = events[i - m]
  BY <1>1, CommittedLog
<1>3. \A i \in 1 .. n : Refers(lg[i], n)
  <2> TAKE i \in 1 .. n
  <2>1. \A e : Refers(e, m) => Refers(e, n)
    BY <1>2 DEF Refers
  <2>2. CASE i \in 1 .. m
    <3>1. Refers(log[i], m)
      BY <1>1, <2>2 DEF Typed, LogTyped
    <3> QED
      BY <1>2, <2>1, <2>2, <3>1
  <2>3. CASE i \in m + 1 .. n
    <3>1. EventFits(events[i - m])
      BY <1>2, <2>3 DEF Requested
    <3>2. Refers(events[i - m], m)
      BY <1>1, <3>1 DEF EventFits
    <3> QED
      BY <1>2, <2>1, <2>3, <3>2
  <2> QED
    BY <1>2, <2>2, <2>3
<1>4. LogTyped(lg)
  BY <1>2, <1>3 DEF LogTyped
<1>5. ASSUME NEW o \in Object
      PROVE  /\ rows[o] \in Row \cup {Absent}
             /\ rows[o] # Absent =>
                  Meets(o, rows[o].value) /\ rows[o].head \in 0 .. n /\ rows[o].redo \in 0 .. n
  <2>1. CASE \E i \in DOMAIN events : events[i].object = o
    <3>1. PICK i \in DOMAIN events : events[i].object = o
      BY <2>1
    <3>2. PICK e, id : e = events[i] /\ id = m + i
      OBVIOUS
    <3>3. rows[o] = [value |-> e.after, head |-> HeadAfter(e, id), redo |-> RedoAfter(e, id)]
      BY <1>1, <3>1, <3>2, CommittedRows
    <3>4. EventFits(e)
      BY <3>1, <3>2 DEF Requested
    <3>5. Meets(o, e.after) /\ e.after \in Value
      BY <3>1, <3>2, <3>4 DEF EventFits, Meets
    <3>6. HeadAfter(e, id) \in 0 .. n /\ RedoAfter(e, id) \in 0 .. n
      <4>1. id \in Nat /\ id > Len(log) /\ n \in Nat /\ id <= n
        BY <1>1, <1>2, <3>2
      <4> QED
        BY <3>4, <4>1, CursorsStay
    <3> QED
      BY <3>3, <3>5, <3>6 DEF Row
  <2>2. CASE \A i \in DOMAIN events : events[i].object # o
    <3>1. rows[o] = objects[o]
      BY <1>1, <2>2, CommittedRows
    <3>2. /\ objects[o] \in Row \cup {Absent}
          /\ objects[o] # Absent =>
               Meets(o, objects[o].value) /\ objects[o].head \in 0 .. m /\ objects[o].redo \in 0 .. m
      BY <1>1 DEF Typed, RowsTyped
    <3>3. \A k \in 0 .. m : k \in 0 .. n
      BY <1>2
    <3> QED
      BY <3>1, <3>2, <3>3
  <2> QED
    BY <2>1, <2>2
<1>6. RowsTyped(rows, n)
  <2>1. rows = [o \in Object |-> rows[o]]
    BY <1>1, CommittedRows
  <2>2. rows \in [Object -> Row \cup {Absent}]
    BY <1>5, <2>1
  <2> QED
    BY <1>5, <2>2 DEF RowsTyped
<1> QED
  BY <1>1, <1>4, <1>6 DEF Typed

(* What a transaction leaves of each object.                                  *)
LEMMA CommittedValues ==
  ASSUME Typed, NEW events, Requested(events), Commit(events)
  PROVE  /\ \A i \in DOMAIN events :
              objects'[events[i].object] # Absent /\ objects'[events[i].object].value = events[i].after
         /\ \A o \in Object : (\A i \in DOMAIN events : events[i].object # o) => objects'[o] = objects[o]
<1>1. ASSUME NEW i \in DOMAIN events
      PROVE  objects'[events[i].object] # Absent /\ objects'[events[i].object].value = events[i].after
  <2>1. PICK e, id, h, r : /\ e = events[i] /\ id = Len(log) + i
                           /\ h = HeadAfter(e, id) /\ r = RedoAfter(e, id)
    OBVIOUS
  <2>2. objects'[e.object] = [value |-> e.after, head |-> h, redo |-> r]
    BY <2>1, CommittedRows
  <2>3. EventFits(e) /\ e.after \in Value
    BY <2>1 DEF Requested, EventFits, Meets
  <2>4. h \in Nat /\ r \in Nat
    <3>1. id \in Nat /\ id > Len(log)
      BY <2>1, CommittedLog
    <3>2. h \in 0 .. id /\ r \in 0 .. id
      BY <2>1, <2>3, <3>1, CursorsStay
    <3> QED
      BY <3>1, <3>2
  <2>5. [value |-> e.after, head |-> h, redo |-> r] \in Row
    BY <2>3, <2>4 DEF Row
  <2>6. [value |-> e.after, head |-> h, redo |-> r] # Absent
    BY <2>5, WorkspaceAssumption
  <2> QED
    BY <2>1, <2>2, <2>6
<1> QED
  BY <1>1, CommittedRows

\* new has the nodes that the events write, and else those there are.
After(events, new) ==
  /\ Graph(new)
  /\ Stored(new) = Stored(Nodes) \cup {n \in NodeId : \E i \in DOMAIN events : events[i].object = n}
  /\ \A i \in DOMAIN events : events[i].object \in NodeId => new[events[i].object] = events[i].after.content
  /\ \A n \in Stored(Nodes) : (\A i \in DOMAIN events : events[i].object # n) => new[n] = Nodes[n]

(* The nodes a transaction leaves.                                            *)
LEMMA CommittedNodes ==
  ASSUME Typed, NEW events, Requested(events), Commit(events)
  PROVE  \E new : new = Nodes' /\ After(events, new)
<1>1. Typed'
  BY CommitTyped
<1>2. PICK rows, n, new : rows = objects' /\ n = Len(log') /\ new = NodesOf(rows)
  OBVIOUS
<1>3. RowsTyped(rows, n)
  BY <1>1, <1>2 DEF Typed
<1>4. new = Nodes'
  BY <1>2 DEF Nodes, NodesOf, Node, Current, Exists
<1>5. /\ Graph(new) /\ Stored(new) = {m \in NodeId : rows[m] # Absent}
      /\ \A m \in NodeId : rows[m] # Absent => new[m] = rows[m].value.content
  BY <1>2, <1>3, RowsAreGraph
<1>6. /\ \A i \in DOMAIN events :
           rows[events[i].object] # Absent /\ rows[events[i].object].value = events[i].after
      /\ \A o \in Object : (\A i \in DOMAIN events : events[i].object # o) => rows[o] = objects[o]
  BY <1>2, CommittedValues
<1>7. PICK old : /\ old = Nodes /\ Stored(old) = {m \in NodeId : objects[m] # Absent}
                 /\ \A m \in NodeId : objects[m] # Absent => old[m] = objects[m].value.content
  BY GraphNow DEF Exists, Node, Current
<1>8. NodeId \subseteq Object
  BY WorkspaceAssumption
<1>9. Stored(new) = Stored(old) \cup {m \in NodeId : \E i \in DOMAIN events : events[i].object = m}
  BY <1>5, <1>6, <1>7, <1>8
<1>10. \A i \in DOMAIN events : events[i].object \in NodeId => new[events[i].object] = events[i].after.content
  BY <1>5, <1>6
<1>11. \A m \in Stored(old) : (\A i \in DOMAIN events : events[i].object # m) => new[m] = old[m]
  BY <1>5, <1>6, <1>7, <1>8
<1> QED
  BY <1>4, <1>5, <1>7, <1>9, <1>10, <1>11 DEF After

------------------------------------------------------------------------------
(* The history of each object.                                                *)

\* The events of an object are linked: each follows what its parent left, and an undo keeps
\* the redo that was pending, which follows the event that it undid.
EventsLinked ==
  \A i \in EventId :
    LET e == log[i]
    IN  /\ e.before # Absent =>
             /\ e.parent \in 1 .. i - 1 /\ log[e.parent].object = e.object
             /\ Same(log[e.parent].after, e.before)
        /\ e.kind = "undo" =>
             /\ e.source \in 1 .. i - 1 /\ log[e.source].object = e.object
             /\ e.pending # NoEvent =>
                  /\ e.pending \in 1 .. i - 1 /\ log[e.pending].object = e.object
                  /\ log[e.pending].kind = "undo" /\ log[log[e.pending].source].parent = e.source

Linked == EventsLinked /\ CursorsAreSound

(* The event of a request is linked to the history of its object.             *)
LEMMA EventIsLinked ==
  ASSUME Typed, Linked, NEW e, EventFits(e)
  PROVE  /\ e.before # Absent =>
              /\ e.parent \in 1 .. Len(log) /\ log[e.parent].object = e.object
              /\ Same(log[e.parent].after, e.before)
         /\ e.kind = "undo" =>
              /\ e.source \in 1 .. Len(log) /\ log[e.source].object = e.object
              /\ log[e.source].parent \in 1 .. Len(log) /\ log[log[e.source].parent].object = e.object
              /\ Same(log[log[e.source].parent].after, e.after)
              /\ e.pending # NoEvent =>
                   /\ e.pending \in 1 .. Len(log) /\ log[e.pending].object = e.object
                   /\ log[e.pending].kind = "undo" /\ log[log[e.pending].source].parent = e.source
         /\ e.kind = "redo" =>
              LET next == log[objects[e.object].redo].pending
              IN  /\ e.source \in 1 .. Len(log) /\ log[e.source].object = e.object
                  /\ Same(log[e.source].after, e.after)
                  /\ next # NoEvent =>
                       /\ next \in 1 .. Len(log) /\ log[next].object = e.object
                       /\ log[next].kind = "undo" /\ log[log[next].source].parent = e.source
<1>1. PICK lg, m, o, head, redo : /\ lg = log /\ m = Len(log) /\ o = e.object
                                  /\ head = objects[o].head /\ redo = objects[o].redo
  OBVIOUS
<1>2. m \in Nat /\ o \in Object /\ e \in EventRecord
  BY <1>1 DEF Typed, LogTyped, EventFits, EventRecord
<1>3. \A i \in 1 .. m :
        /\ lg[i].before # Absent =>
             /\ lg[i].parent \in 1 .. i - 1 /\ lg[lg[i].parent].object = lg[i].object
             /\ Same(lg[lg[i].parent].after, lg[i].before)
        /\ lg[i].kind = "undo" =>
             /\ lg[i].source \in 1 .. i - 1 /\ lg[lg[i].source].object = lg[i].object
             /\ lg[i].pending # NoEvent =>
                  /\ lg[i].pending \in 1 .. i - 1 /\ lg[lg[i].pending].object = lg[i].object
                  /\ lg[lg[i].pending].kind = "undo" /\ lg[lg[lg[i].pending].source].parent = lg[i].source
  BY <1>1 DEF Linked, EventsLinked, EventId
<1>4. Exists(o) =>
        /\ head \in 1 .. m /\ lg[head].object = o /\ Same(lg[head].after, Current(o))
        /\ redo # NoEvent => /\ redo \in 1 .. m /\ lg[redo].object = o /\ lg[redo].kind = "undo"
                             /\ lg[lg[redo].source].parent = head
  BY <1>1, <1>2 DEF Linked, CursorsAreSound, EventId
<1>5. /\ IF e.kind = "create" THEN ~Exists(o) /\ e.before = Absent ELSE Exists(o) /\ e.before = Current(o)
      /\ e.kind # "create" => e.parent = head
      /\ e.kind = "undo" => /\ e.source = head /\ e.pending = redo
                            /\ lg[e.source].before # Absent /\ Same(e.after, lg[e.source].before)
      /\ e.kind = "redo" => e.source = lg[redo].source /\ Same(e.after, lg[e.source].after) /\ redo # NoEvent
  BY <1>1 DEF EventFits, Moves
<1>6. \A i \in 1 .. m : \A j \in 1 .. i - 1 : j \in 1 .. m
  BY <1>2
<1>7. \A u, v, w : Same(u, v) /\ Same(w, v) => Same(u, w)
  BY DEF Same
<1>8. CASE e.kind = "undo"
  <2>1. lg[head].parent \in 1 .. m /\ lg[lg[head].parent].object = o /\ Same(lg[lg[head].parent].after, lg[head].before)
    BY <1>3, <1>4, <1>5, <1>6, <1>8
  <2>2. Same(lg[lg[head].parent].after, e.after)
    BY <1>5, <1>7, <1>8, <2>1
  <2> QED
    BY <1>1, <1>4, <1>5, <1>8, <2>1, <2>2
<1>9. CASE e.kind = "redo"
  <2>1. redo \in 1 .. m /\ lg[redo].object = o /\ lg[redo].kind = "undo"
    BY <1>4, <1>5, <1>9
  <2>2. e.source \in 1 .. m /\ lg[e.source].object = o
    BY <1>3, <1>5, <1>6, <1>9, <2>1
  <2>3. Same(lg[e.source].after, e.after)
    BY <1>5, <1>9 DEF Same
  <2>4. lg[redo].pending # NoEvent =>
          /\ lg[redo].pending \in 1 .. m /\ lg[lg[redo].pending].object = o
          /\ lg[lg[redo].pending].kind = "undo" /\ lg[lg[lg[redo].pending].source].parent = e.source
    BY <1>3, <1>5, <1>6, <1>9, <2>1
  <2> QED
    BY <1>1, <1>4, <1>5, <1>9, <2>2, <2>3, <2>4
<1>10. CASE e.kind \notin {"undo", "redo"}
  BY <1>1, <1>4, <1>5, <1>10
<1> QED
  BY <1>8, <1>9, <1>10

(* A transaction keeps the histories linked.                                  *)
LEMMA CommitLinked ==
  ASSUME Typed, Linked, NEW events, Requested(events), Commit(events)
  PROVE  Linked'
<1>1. PICK lg, rows, old, m, n : /\ lg = log' /\ rows = objects' /\ old = log
                                 /\ m = Len(log) /\ n = Len(log')
  OBVIOUS
<1>2. /\ m \in Nat /\ Len(events) \in Nat /\ DOMAIN events = 1 .. Len(events) /\ n = m + Len(events)
      /\ \A i \in 1 .. m : lg[i] = old[i]
      /\ \A i \in 1 .. Len(events) : lg[m + i] = events[i]
      /\ \A i \in m + 1 .. n : i - m \in DOMAIN events /\ lg[i] = events[i - m]
  BY <1>1, CommittedLog
<1>3. \A i \in 1 .. m :
        /\ old[i].before # Absent =>
             /\ old[i].parent \in 1 .. i - 1 /\ old[old[i].parent].object = old[i].object
             /\ Same(old[old[i].parent].after, old[i].before)
        /\ old[i].kind = "undo" =>
             /\ old[i].source \in 1 .. i - 1 /\ old[old[i].source].object = old[i].object
             /\ old[i].pending # NoEvent =>
                  /\ old[i].pending \in 1 .. i - 1 /\ old[old[i].pending].object = old[i].object
                  /\ old[old[i].pending].kind = "undo" /\ old[old[old[i].pending].source].parent = old[i].source
  BY <1>1 DEF Linked, EventsLinked, EventId
<1>4. /\ \A i \in 1 .. m : i \in 1 .. n /\ \A j \in 1 .. i - 1 : j \in 1 .. m
      /\ \A i \in m + 1 .. n : \A j \in 1 .. m : j \in 1 .. i - 1
  BY <1>2
<1>5. ASSUME NEW i \in 1 .. n
      PROVE  /\ lg[i].before # Absent =>
                  /\ lg[i].parent \in 1 .. i - 1 /\ lg[lg[i].parent].object = lg[i].object
                  /\ Same(lg[lg[i].parent].after, lg[i].before)
             /\ lg[i].kind = "undo" =>
                  /\ lg[i].source \in 1 .. i - 1 /\ lg[lg[i].source].object = lg[i].object
                  /\ lg[i].pending # NoEvent =>
                       /\ lg[i].pending \in 1 .. i - 1 /\ lg[lg[i].pending].object = lg[i].object
                       /\ lg[lg[i].pending].kind = "undo" /\ lg[lg[lg[i].pending].source].parent = lg[i].source
  <2>1. CASE i \in 1 .. m
    <3>1. lg[i] = old[i] /\ \A j \in 1 .. i - 1 : j \in 1 .. m /\ lg[j] = old[j]
      BY <1>2, <1>4, <2>1
    <3>2. \A j \in 1 .. m : old[j].kind = "undo" => old[j].source \in 1 .. m /\ lg[old[j].source] = old[old[j].source]
      BY <1>2, <1>3, <1>4
    <3> QED
      BY <1>3, <2>1, <3>1, <3>2
  <2>2. CASE i \in m + 1 .. n
    <3>1. PICK e : e = lg[i] /\ EventFits(e)
      BY <1>2, <2>2 DEF Requested
    <3>2. /\ e.before # Absent =>
               /\ e.parent \in 1 .. m /\ old[e.parent].object = e.object
               /\ Same(old[e.parent].after, e.before)
          /\ e.kind = "undo" =>
               /\ e.source \in 1 .. m /\ old[e.source].object = e.object
               /\ e.pending # NoEvent =>
                    /\ e.pending \in 1 .. m /\ old[e.pending].object = e.object
                    /\ old[e.pending].kind = "undo" /\ old[old[e.pending].source].parent = e.source
      BY <1>1, <3>1, EventIsLinked
    <3>3. \A j \in 1 .. m : old[j].kind = "undo" => old[j].source \in 1 .. m /\ lg[old[j].source] = old[old[j].source]
      BY <1>2, <1>3, <1>4
    <3> QED
      BY <1>2, <1>4, <2>2, <3>1, <3>2, <3>3
  <2> QED
    BY <1>2, <2>1, <2>2
<1>6. ASSUME NEW o \in Object, rows[o] # Absent
      PROVE  /\ rows[o].head \in 1 .. n /\ lg[rows[o].head].object = o
             /\ Same(lg[rows[o].head].after, rows[o].value)
             /\ rows[o].redo # NoEvent =>
                  /\ rows[o].redo \in 1 .. n /\ lg[rows[o].redo].object = o /\ lg[rows[o].redo].kind = "undo"
                  /\ lg[lg[rows[o].redo].source].parent = rows[o].head
  <2>1. \A j \in 1 .. m : old[j].kind = "undo" => old[j].source \in 1 .. m /\ lg[old[j].source] = old[old[j].source]
    BY <1>2, <1>3, <1>4
  <2>2. CASE \E i \in DOMAIN events : events[i].object = o
    <3>1. PICK i \in DOMAIN events : events[i].object = o
      BY <2>2
    <3>2. PICK e, id : e = events[i] /\ id = m + i
      OBVIOUS
    <3>3. rows[o] = [value |-> e.after, head |-> HeadAfter(e, id), redo |-> RedoAfter(e, id)]
      BY <1>1, <3>1, <3>2, CommittedRows
    <3>4. EventFits(e) /\ e.object = o /\ id \in 1 .. n /\ lg[id] = e
      BY <1>2, <3>1, <3>2 DEF Requested
    <3>5. PICK next : next = old[objects[o].redo].pending
      OBVIOUS
    <3>6. /\ e.kind = "undo" =>
               /\ e.source \in 1 .. m /\ old[e.source].object = o
               /\ old[e.source].parent \in 1 .. m /\ old[old[e.source].parent].object = o
               /\ Same(old[old[e.source].parent].after, e.after)
          /\ e.kind = "redo" =>
               /\ e.source \in 1 .. m /\ old[e.source].object = o
               /\ Same(old[e.source].after, e.after)
               /\ next # NoEvent =>
                    /\ next \in 1 .. m /\ old[next].object = o
                    /\ old[next].kind = "undo" /\ old[old[next].source].parent = e.source
      BY <1>1, <3>4, <3>5, EventIsLinked
    <3>7. CASE e.kind = "undo"
      <4>1. rows[o].head = old[e.source].parent /\ rows[o].redo = id /\ rows[o].value = e.after
        BY <1>1, <3>3, <3>7 DEF HeadAfter, RedoAfter
      <4>2. lg[e.source] = old[e.source] /\ lg[rows[o].head] = old[rows[o].head] /\ rows[o].head \in 1 .. n
        BY <1>2, <1>4, <3>6, <3>7, <4>1
      <4> QED
        BY <3>4, <3>6, <3>7, <4>1, <4>2
    <3>8. CASE e.kind = "redo"
      <4>1. rows[o].head = e.source /\ rows[o].redo = next /\ rows[o].value = e.after
        BY <1>1, <3>3, <3>4, <3>5, <3>8 DEF HeadAfter, RedoAfter
      <4>2. lg[e.source] = old[e.source] /\ e.source \in 1 .. n
        BY <1>2, <1>4, <3>6, <3>8
      <4>3. next # NoEvent => lg[next] = old[next] /\ next \in 1 .. n /\ lg[old[next].source] = old[old[next].source]
        BY <1>2, <1>4, <2>1, <3>6, <3>8
      <4> QED
        BY <3>6, <3>8, <4>1, <4>2, <4>3
    <3>9. CASE e.kind \notin {"undo", "redo"}
      <4>1. rows[o].head = id /\ rows[o].redo = NoEvent /\ rows[o].value = e.after
        BY <3>3, <3>9 DEF HeadAfter, RedoAfter
      <4> QED
        BY <3>4, <4>1 DEF Same
    <3> QED
      BY <3>7, <3>8, <3>9
  <2>3. CASE \A i \in DOMAIN events : events[i].object # o
    <3>1. rows[o] = objects[o]
      BY <1>1, <2>3, CommittedRows
    <3>2. /\ rows[o].head \in 1 .. m /\ old[rows[o].head].object = o
          /\ Same(old[rows[o].head].after, rows[o].value)
          /\ rows[o].redo # NoEvent =>
               /\ rows[o].redo \in 1 .. m /\ old[rows[o].redo].object = o /\ old[rows[o].redo].kind = "undo"
               /\ old[old[rows[o].redo].source].parent = rows[o].head
      BY <1>1, <1>6, <3>1 DEF Linked, CursorsAreSound, Exists, Current, EventId
    <3> QED
      BY <1>2, <1>4, <2>1, <3>2
  <2> QED
    BY <2>2, <2>3
<1>7. EventsLinked'
  BY <1>1, <1>5 DEF EventsLinked, EventId
<1>8. CursorsAreSound'
  BY <1>1, <1>6 DEF CursorsAreSound, Exists, Current, EventId
<1> QED
  BY <1>7, <1>8 DEF Linked

------------------------------------------------------------------------------
(* The events requests are made of.                                           *)

(* A contract is what a value meets. *)
LEMMA ContractMeets ==
  ASSUME NEW e, Contract(e)
  PROVE  Meets(e.object, e.after)
BY DEF Contract, Meets

(* The creation of an object that does not exist. *)
LEMMA CreationFits ==
  ASSUME Typed, NEW o \in Object, NEW p, ~Exists(o), Contract(Creation(o, p, Expert))
  PROVE  EventFits(Creation(o, p, Expert))
<1> DEFINE e == Creation(o, p, Expert)
<1>1. Meets(e.object, e.after)
  BY ContractMeets
<1>2. /\ e = [object |-> o, kind |-> "create", parent |-> NoEvent, before |-> Absent,
              after |-> Fresh(p), source |-> NoEvent, pending |-> NoEvent, actor |-> Expert]
  BY DEF Creation, Event
<1>3. Len(log) \in Nat
  BY DEF Typed, LogTyped
<1> HIDE DEF e
<1>4. Fresh(p) \in Value
  BY <1>1, <1>2 DEF Meets
<1>5. e \in EventRecord
  BY <1>2, <1>4 DEF EventRecord, Kind, NoEvent
<1> QED
  BY <1>1, <1>2, <1>3, <1>5 DEF EventFits, Refers, NoEvent, Moves, e

(* A change of an object that exists. *)
LEMMA ChangeFits ==
  ASSUME Typed, NEW o \in Object, NEW p, Exists(o), NEW kind \in Kind \ {"create", "undo", "redo"},
         NEW semantic \in BOOLEAN, NEW layout \in BOOLEAN,
         Contract(Change(o, kind, p, semantic, layout, Expert))
  PROVE  EventFits(Change(o, kind, p, semantic, layout, Expert))
<1> DEFINE e == Change(o, kind, p, semantic, layout, Expert)
<1>1. Meets(e.object, e.after)
  BY ContractMeets
<1>2. PICK v : v = Merged(Current(o), p, semantic, layout)
  OBVIOUS
<1>3. e = [object |-> o, kind |-> kind, parent |-> objects[o].head, before |-> Current(o),
           after |-> v, source |-> NoEvent, pending |-> NoEvent, actor |-> Expert]
  BY <1>2 DEF Change, Event
<1>4. Len(log) \in Nat
  BY DEF Typed, LogTyped
<1> HIDE DEF e
<1>5. v \in Value
  BY <1>1, <1>3 DEF Meets
<1>6. Current(o) \in Value /\ objects[o].head \in 0 .. Len(log)
  BY RowsNow
<1>7. e \in EventRecord
  BY <1>3, <1>5, <1>6 DEF EventRecord, NoEvent
<1> QED
  BY <1>1, <1>3, <1>4, <1>6, <1>7 DEF EventFits, Refers, NoEvent, Moves, e

(* A step back. *)
LEMMA UndoFits ==
  ASSUME Typed, NEW o \in Object, Exists(o), CanUndo(o), Contract(UndoOf(o, Expert))
  PROVE  EventFits(UndoOf(o, Expert))
<1> DEFINE e == UndoOf(o, Expert)
<1>1. Meets(e.object, e.after)
  BY ContractMeets
<1>2. PICK v : v = Restored(Current(o), log[UndoSource(o)].before)
  OBVIOUS
<1>3. e = [object |-> o, kind |-> "undo", parent |-> objects[o].head, before |-> Current(o),
           after |-> v, source |-> objects[o].head, pending |-> objects[o].redo, actor |-> Expert]
  BY <1>2 DEF UndoOf, Event, UndoSource
<1>4. Len(log) \in Nat /\ objects[o].head # NoEvent
  BY DEF Typed, LogTyped, CanUndo, UndoSource
<1> HIDE DEF e
<1>5. v \in Value
  BY <1>1, <1>3 DEF Meets
<1>6. Current(o) \in Value /\ objects[o].head \in 0 .. Len(log) /\ objects[o].redo \in 0 .. Len(log)
  BY RowsNow
<1>7. e \in EventRecord
  BY <1>3, <1>5, <1>6 DEF EventRecord, Kind
<1>8. Moves(e)
  <2>1. PICK t, head : t = log[objects[o].head].before /\ head = objects[o].head
    OBVIOUS
  <2>2. v.content = t.content /\ v.layout = t.layout /\ v.notes = t.notes /\ t # Absent
    BY <1>2, <2>1 DEF Restored, CanUndo, UndoSource
  <2> QED
    BY <1>3, <2>1, <2>2 DEF Moves, Same
<1> QED
  BY <1>1, <1>3, <1>4, <1>6, <1>7, <1>8 DEF EventFits, Refers, e

(* A step forward. *)
LEMMA RedoFits ==
  ASSUME Typed, NEW o \in Object, Exists(o), CanRedo(o), Contract(RedoOf(o, Expert))
  PROVE  EventFits(RedoOf(o, Expert))
<1> DEFINE e == RedoOf(o, Expert)
<1>1. Meets(e.object, e.after)
  BY ContractMeets
<1>2. PICK v, source : v = Restored(Current(o), log[RedoSource(o)].after) /\ source = RedoSource(o)
  OBVIOUS
<1>3. e = [object |-> o, kind |-> "redo", parent |-> objects[o].head, before |-> Current(o),
           after |-> v, source |-> source, pending |-> NoEvent, actor |-> Expert]
  BY <1>2 DEF RedoOf, Event
<1>4. Len(log) \in Nat /\ objects[o].redo # NoEvent
  BY DEF Typed, LogTyped, CanRedo
<1> HIDE DEF e
<1>5. v \in Value
  BY <1>1, <1>3 DEF Meets
<1>6. Current(o) \in Value /\ objects[o].head \in 0 .. Len(log) /\ objects[o].redo \in 0 .. Len(log)
  BY RowsNow
<1>7. source \in 0 .. Len(log)
  <2>1. objects[o].redo \in 1 .. Len(log)
    BY <1>4, <1>6 DEF NoEvent
  <2>2. Refers(log[objects[o].redo], Len(log))
    BY <2>1 DEF Typed, LogTyped
  <2> QED
    BY <1>2, <2>2 DEF RedoSource, Refers
<1>8. e \in EventRecord
  BY <1>3, <1>4, <1>5, <1>6, <1>7 DEF EventRecord, Kind, NoEvent
<1>9. Moves(e)
  <2>1. PICK t : t = log[source].after
    OBVIOUS
  <2>2. v.content = t.content /\ v.layout = t.layout /\ v.notes = t.notes
    BY <1>2, <2>1 DEF Restored
  <2> QED
    BY <1>2, <1>3, <2>1, <2>2 DEF Moves, Same, RedoSource
<1> QED
  BY <1>1, <1>3, <1>4, <1>6, <1>7, <1>8, <1>9 DEF EventFits, Refers, NoEvent, e

(* A request of one event. *)
LEMMA OneEvent ==
  ASSUME NEW e
  PROVE  /\ IsSeq(<<e>>) /\ Len(<<e>>) = 1 /\ DOMAIN <<e>> = {1} /\ <<e>>[1] = e
         /\ Contracts(<<e>>) => Contract(e)
         /\ EventFits(e) => Requested(<<e>>)
<1>1. PICK q : q = <<e>>
  OBVIOUS
<1>2. q = [i \in 1 .. 1 |-> q[i]] /\ q[1] = e
  BY <1>1
<1>3. IsSeq(q) /\ Len(q) = 1 /\ DOMAIN q = 1 .. 1
  BY <1>2, FunctionsAreSequences
<1>4. DOMAIN q = {1}
  BY <1>3
<1> QED
  BY <1>1, <1>2, <1>3, <1>4 DEF Contracts, Requested

\* The two requests are about different objects.
Apart(a, b) == \A i \in DOMAIN a, j \in DOMAIN b : a[i].object # b[j].object

\* q has what a and b have, and nothing else.
Joins(q, a, b) ==
  /\ IsSeq(q)
  /\ Contracts(q) => Contracts(a) /\ Contracts(b)
  /\ Requested(a) /\ Requested(b) /\ Apart(a, b) => Requested(q)
  /\ \A i \in DOMAIN a : \E k \in DOMAIN q : q[k] = a[i]
  /\ \A i \in DOMAIN b : \E k \in DOMAIN q : q[k] = b[i]
  /\ \A k \in DOMAIN q :
       \/ \E i \in DOMAIN a : q[k] = a[i]
       \/ \E i \in DOMAIN b : q[k] = b[i]

(* A request of two parts.                                                    *)
LEMMA TwoParts ==
  ASSUME NEW a, NEW b, IsSeq(a), IsSeq(b)
  PROVE  Joins(a \o b, a, b)
<1>1. PICK q, m, n : q = a \o b /\ m = Len(a) /\ n = Len(b)
  OBVIOUS
<1>2. /\ IsSeq(q) /\ m \in Nat /\ n \in Nat
      /\ DOMAIN a = 1 .. m /\ DOMAIN b = 1 .. n /\ DOMAIN q = 1 .. m + n
      /\ \A i \in 1 .. m : q[i] = a[i]
      /\ \A i \in 1 .. n : q[m + i] = b[i]
      /\ \A i \in 1 .. m + n : i \notin 1 .. m => i - m \in 1 .. n
  BY <1>1, Concatenation
<1>3. \A i \in DOMAIN a : i \in DOMAIN q /\ q[i] = a[i]
  BY <1>2
<1>4. \A i \in DOMAIN b : m + i \in DOMAIN q /\ q[m + i] = b[i]
  BY <1>2
<1>5. \A k \in DOMAIN q : \/ k \in DOMAIN a /\ q[k] = a[k]
                          \/ k - m \in DOMAIN b /\ q[k] = b[k - m] /\ k \notin DOMAIN a
  <2> TAKE k \in DOMAIN q
  <2>1. k \notin 1 .. m => k - m \in 1 .. n /\ m + (k - m) = k
    BY <1>2
  <2> QED
    BY <1>2, <2>1
<1>6. Contracts(q) => Contracts(a) /\ Contracts(b)
  BY <1>3, <1>4 DEF Contracts
<1>7. ASSUME Requested(a), Requested(b), Apart(a, b)
      PROVE  Requested(q)
  <2>1. \A k \in DOMAIN q : EventFits(q[k])
    BY <1>5, <1>7 DEF Requested
  <2>2. ASSUME NEW k \in DOMAIN q, NEW l \in DOMAIN q, q[k].object = q[l].object
        PROVE  k = l
    <3>1. CASE k \in DOMAIN a /\ l \in DOMAIN a
      BY <1>3, <1>7, <2>2, <3>1 DEF Requested
    <3>2. CASE k \in DOMAIN a /\ l \notin DOMAIN a
      BY <1>3, <1>5, <1>7, <2>2, <3>2 DEF Apart
    <3>3. CASE k \notin DOMAIN a /\ l \in DOMAIN a
      BY <1>3, <1>5, <1>7, <2>2, <3>3 DEF Apart
    <3>4. CASE k \notin DOMAIN a /\ l \notin DOMAIN a
      <4>1. k - m = l - m
        BY <1>5, <1>7, <2>2, <3>4 DEF Requested
      <4> QED
        BY <4>1, <1>2
    <3> QED
      BY <3>1, <3>2, <3>3, <3>4
  <2> QED
    BY <1>2, <2>1, <2>2 DEF Requested
<1> QED
  BY <1>1, <1>2, <1>3, <1>4, <1>5, <1>6, <1>7 DEF Joins

\* order lists S, every element once.
Lists(order, S) ==
  \E m \in Nat : /\ DOMAIN order = 1 .. m
                 /\ \A i \in 1 .. m : order[i] \in S
                 /\ \A x \in S : \E i \in 1 .. m : order[i] = x
                 /\ \A i, j \in 1 .. m : order[i] = order[j] => i = j

(* SetToSeq lists a finite set. *)
LEMMA SetToSeqLists == ASSUME NEW S, IsFiniteSet(S) PROVE Lists(SetToSeq(S), S)
<1>1. PICK m \in Nat : /\ SetToSeq(S) \in [1 .. m -> S]
                       /\ DOMAIN SetToSeq(S) = 1 .. m
                       /\ \A x \in S : \E i \in 1 .. m : SetToSeq(S)[i] = x
                       /\ \A i, j \in 1 .. m : SetToSeq(S)[i] = SetToSeq(S)[j] => i = j
  BY Listing
<1>2. PICK q : q = SetToSeq(S)
  OBVIOUS
<1>3. \A i \in 1 .. m : q[i] \in S
  BY <1>1, <1>2
<1> QED
  BY <1>1, <1>2, <1>3 DEF Lists

(* A request with one event for each element of a list. *)
LEMMA OneForEach ==
  ASSUME NEW S, NEW order, Lists(order, S), NEW q, q = [i \in DOMAIN order |-> q[i]],
         \A i \in DOMAIN order : q[i].object = order[i]
  PROVE  /\ IsSeq(q) /\ DOMAIN q = DOMAIN order
         /\ \A i \in DOMAIN q : q[i].object \in S
         /\ \A x \in S : \E i \in DOMAIN q : q[i].object = x /\ order[i] = x
         /\ (\A i \in DOMAIN q : EventFits(q[i])) => Requested(q)
<1>1. PICK m \in Nat : /\ DOMAIN order = 1 .. m
                       /\ \A i \in 1 .. m : order[i] \in S
                       /\ \A x \in S : \E i \in 1 .. m : order[i] = x
                       /\ \A i, j \in 1 .. m : order[i] = order[j] => i = j
  BY DEF Lists
<1>2. IsSeq(q) /\ DOMAIN q = 1 .. m
  BY <1>1, FunctionsAreSequences
<1>3. \A i, j \in 1 .. m : q[i].object = q[j].object => i = j
  BY <1>1
<1>4. \A x \in S : \E i \in 1 .. m : q[i].object = x /\ order[i] = x
  BY <1>1
<1> QED
  BY <1>1, <1>2, <1>3, <1>4 DEF Requested

(* What a change of meaning writes. *)
LEMMA MeaningWrites ==
  ASSUME Typed, NEW o \in Object, Exists(o), NEW kind, NEW c, NEW notes, NEW e, e = Meaning(o, kind, c, notes)
  PROVE  /\ e.object = o /\ e.kind = kind /\ e.after.content = c /\ e.after.notes = notes
         /\ WritesStatus(e)
<1>1. e = [object |-> o, kind |-> kind, parent |-> objects[o].head, before |-> Current(o),
           after |-> Merged(Current(o), Saved(o, c, notes), TRUE, FALSE),
           source |-> NoEvent, pending |-> NoEvent, actor |-> Expert]
  BY DEF Meaning, Change, Event
<1>2. PICK v, p : v = Current(o) /\ p = Saved(o, c, notes)
  OBVIOUS
<1>3. p.content = c /\ p.notes = notes
  BY <1>2 DEF Saved
<1>4. PICK w : w = Merged(v, p, TRUE, FALSE)
  OBVIOUS
<1>5. w.content = c /\ w.notes = notes /\ w.sem = v.sem + 1
  BY <1>3, <1>4 DEF Merged, Bump
<1>6. v.sem \in Nat
  BY <1>2, RowsNow DEF Value
<1>7. e.before = v /\ e.after = w /\ e.object = o /\ e.kind = kind
  BY <1>1, <1>2, <1>4
<1>8. w.sem # v.sem
  BY <1>5, <1>6
<1> QED
  BY <1>5, <1>7, <1>8 DEF WritesStatus

(* It fits when the contracts hold. *)
LEMMA MeaningFits ==
  ASSUME Typed, NEW o \in Object, Exists(o), NEW kind \in Kind \ {"create", "undo", "redo"},
         NEW c, NEW notes, Contract(Meaning(o, kind, c, notes))
  PROVE  EventFits(Meaning(o, kind, c, notes))
<1>1. Meaning(o, kind, c, notes) = Change(o, kind, Saved(o, c, notes), TRUE, FALSE, Expert)
  BY DEF Meaning
<1> QED
  BY <1>1, ChangeFits

(* A scheme of now. *)
LEMMA SchemesNow ==
  ASSUME Typed, NEW s \in Schemes
  PROVE  /\ s \in SchemeId /\ s \in Object /\ s \notin NodeId /\ Exists(s)
         /\ Scheme(s) \in SchemeContent /\ SchemeContract(Scheme(s)) /\ Scheme(s) = Current(s).content
<1>1. s \in SchemeId /\ s \in Object /\ s \notin NodeId /\ Exists(s)
  BY WorkspaceAssumption DEF Schemes
<1> QED
  BY <1>1, RowsNow DEF Meets, Scheme

(* The revalidation is a sequence of events. *)
LEMMA RevalidationIsSeq ==
  ASSUME NEW changed, NEW nodes
  PROVE  IsSeq(Revalidation(changed, nodes))
<1>1. PICK differs : differs = {s \in Affected(changed) :
                       <<Normalized(Scheme(s), nodes).content, Normalized(Scheme(s), nodes).notes>>
                         # <<Scheme(s), Current(s).notes>>}
  OBVIOUS
<1>2. PICK order : order = SetToSeq(differs)
  OBVIOUS
<1>3. PICK m \in Nat : DOMAIN order = 1 .. m
  <2>1. differs \subseteq SchemeId
    BY <1>1 DEF Affected, Schemes
  <2>2. IsFiniteSet(differs)
    BY <2>1, WorkspaceAssumption, FS_Subset
  <2>3. Lists(order, differs)
    BY <1>2, <2>2, SetToSeqLists
  <2> QED
    BY <2>3 DEF Lists
<1>4. PICK q : q = Revalidation(changed, nodes)
  OBVIOUS
<1>5. q = [i \in DOMAIN order |->
            Meaning(order[i], "update", Normalized(Scheme(order[i]), nodes).content,
                    Normalized(Scheme(order[i]), nodes).notes)]
  BY <1>1, <1>2, <1>4 DEF Revalidation
<1>6. q = [i \in 1 .. m |-> q[i]]
  BY <1>3, <1>5
<1> QED
  BY <1>4, <1>6, FunctionsAreSequences

(* What the revalidation of the affected schemes writes.                      *)
LEMMA Revalidated ==
  ASSUME Typed, NEW changed, NEW nodes, Graph(nodes), NEW q, q = Revalidation(changed, nodes)
  PROVE  /\ IsSeq(q)
         /\ Contracts(q) => Requested(q)
         /\ \A i \in DOMAIN q : /\ q[i].object \in Affected(changed) /\ q[i].kind = "update"
                                /\ Valid(q[i].after, nodes)
         /\ \A s \in Affected(changed) :
              (\A i \in DOMAIN q : q[i].object # s) => Valid(Current(s), nodes)
<1> DEFINE differs == {s \in Affected(changed) :
                         <<Normalized(Scheme(s), nodes).content, Normalized(Scheme(s), nodes).notes>>
                           # <<Scheme(s), Current(s).notes>>}
<1>1. Affected(changed) \subseteq Schemes
  BY DEF Affected
<1>2. PICK order : order = SetToSeq(differs)
  OBVIOUS
<1>3. Lists(order, differs)
  <2>1. differs \subseteq SchemeId
    BY <1>1 DEF Schemes
  <2>2. PICK S : S = differs
    OBVIOUS
  <2>3. IsFiniteSet(S)
    BY <2>1, <2>2, WorkspaceAssumption, FS_Subset
  <2> QED
    BY <1>2, <2>2, <2>3, SetToSeqLists
<1>4. q = [i \in DOMAIN order |->
             Meaning(order[i], "update", Normalized(Scheme(order[i]), nodes).content,
                     Normalized(Scheme(order[i]), nodes).notes)]
  BY <1>2 DEF Revalidation
<1>5. \A i \in DOMAIN order : order[i] \in differs
  BY <1>3 DEF Lists
<1>6. ASSUME NEW i \in DOMAIN order
      PROVE  /\ q[i].object = order[i] /\ q[i].kind = "update" /\ Valid(q[i].after, nodes)
             /\ Contract(q[i]) => EventFits(q[i])
  <2>1. PICK s, b, p : s = order[i] /\ b = Scheme(s) /\ p = Normalized(b, nodes)
    OBVIOUS
  <2>2. s \in Schemes
    BY <1>1, <1>5, <2>1
  <2>3. s \in Object /\ Exists(s) /\ b \in SchemeContent
    BY <2>1, <2>2, SchemesNow
  <2>4. q[i] = Meaning(s, "update", p.content, p.notes)
    BY <1>4, <2>1
  <2>5. /\ q[i].object = s /\ q[i].kind = "update"
        /\ q[i].after.content = p.content /\ q[i].after.notes = p.notes
    BY <2>3, <2>4, MeaningWrites
  <2>6. Valid(q[i].after, nodes)
    BY <2>1, <2>3, <2>5, NormalizedIsValid
  <2>7. Contract(q[i]) => EventFits(q[i])
    BY <2>3, <2>4, MeaningFits DEF Kind
  <2> QED
    BY <2>1, <2>5, <2>6, <2>7
<1>7. ASSUME NEW s \in Affected(changed), s \notin differs
      PROVE  Valid(Current(s), nodes)
  <2>1. PICK b, v : b = Scheme(s) /\ v = Current(s)
    OBVIOUS
  <2>2. b \in SchemeContent /\ v.content = b
    BY <1>1, <2>1, SchemesNow
  <2>3. v.content = Normalized(b, nodes).content /\ v.notes = Normalized(b, nodes).notes
    BY <1>7, <2>1, <2>2
  <2> QED
    BY <2>1, <2>2, <2>3, NormalizedIsValid
<1>8. differs \subseteq Affected(changed)
  OBVIOUS
<1>9. q = [i \in DOMAIN order |-> q[i]]
  BY <1>4
<1> HIDE DEF differs
<1>10. /\ IsSeq(q) /\ DOMAIN q = DOMAIN order
       /\ \A i \in DOMAIN q : q[i].object \in differs
       /\ \A s \in differs : \E i \in DOMAIN q : q[i].object = s
       /\ (\A i \in DOMAIN q : EventFits(q[i])) => Requested(q)
  BY <1>3, <1>6, <1>9, OneForEach
<1>11. Contracts(q) => Requested(q)
  BY <1>6, <1>10 DEF Contracts
<1> QED
  BY <1>6, <1>7, <1>8, <1>10, <1>11

------------------------------------------------------------------------------
(* The status of schemes.                                                     *)

StatusSound == \A s \in SchemeId : Exists(s) /\ StatusIsFresh(s) => Valid(Current(s), Nodes)

\* What is true of the nodes there are is true of the new ones.
Keeps(s, new) == Exists(s) /\ Valid(Current(s), Nodes) => Valid(Current(s), new)

\* A written scheme is validated, or its status is not claimed, or is the one it had.
Vouched(e, new) ==
  \/ WritesStatus(e) /\ e.kind \in {"undo", "redo", "cascade"}
  \/ Valid(e.after, new)
  \/ /\ ~WritesStatus(e) /\ Keeps(e.object, new)
     /\ e.after.content = e.before.content /\ e.after.notes = e.before.notes

Argued(s, events, new) ==
  /\ \A i \in DOMAIN events : events[i].object = s => Vouched(events[i], new)
  /\ (\A i \in DOMAIN events : events[i].object # s) => Keeps(s, new)

\* StatusIsFresh of a log.
FreshIn(lg, s) ==
  \E i \in 1 .. Len(lg) :
    /\ lg[i].object = s /\ WritesStatus(lg[i]) /\ lg[i].kind \notin {"undo", "redo", "cascade"}
    /\ \A j \in i + 1 .. Len(lg) : lg[j].object = s => ~WritesStatus(lg[j])

(* A status that no event of a transaction wrote was there before. *)
LEMMA FreshBefore ==
  ASSUME Typed, NEW events, Requested(events), Commit(events), NEW s, FreshIn(log', s)
  PROVE  /\ (\A i \in DOMAIN events : events[i].object = s => ~WritesStatus(events[i])) => FreshIn(log, s)
         /\ \A i \in DOMAIN events :
              events[i].object = s /\ WritesStatus(events[i]) => events[i].kind \notin {"undo", "redo", "cascade"}
<1>1. PICK lg, m, n : lg = log' /\ m = Len(log) /\ n = Len(lg)
  OBVIOUS
<1>2. /\ m \in Nat /\ Len(events) \in Nat /\ DOMAIN events = 1 .. Len(events) /\ n = m + Len(events)
      /\ \A i \in 1 .. m : lg[i] = log[i]
      /\ \A i \in 1 .. Len(events) : lg[m + i] = events[i]
      /\ \A i \in m + 1 .. n : i - m \in DOMAIN events /\ lg[i] = events[i - m]
  BY <1>1, CommittedLog
<1>3. PICK i \in 1 .. n :
        /\ lg[i].object = s /\ WritesStatus(lg[i]) /\ lg[i].kind \notin {"undo", "redo", "cascade"}
        /\ \A j \in i + 1 .. n : lg[j].object = s => ~WritesStatus(lg[j])
  BY <1>1 DEF FreshIn
<1>4. ASSUME \A k \in DOMAIN events : events[k].object = s => ~WritesStatus(events[k])
      PROVE  FreshIn(log, s)
  <2>1. i \in 1 .. m
    <3>1. i \notin m + 1 .. n
      BY <1>2, <1>3, <1>4
    <3> QED
      BY <1>2, <3>1
  <2>2. \A j \in i + 1 .. m : lg[j] = log[j] /\ j \in i + 1 .. n
    BY <1>2, <2>1
  <2>3. lg[i] = log[i]
    BY <1>2, <2>1
  <2> QED
    BY <1>1, <1>3, <2>1, <2>2, <2>3 DEF FreshIn
<1>5. ASSUME NEW k \in DOMAIN events, events[k].object = s, WritesStatus(events[k])
      PROVE  events[k].kind \notin {"undo", "redo", "cascade"}
  <2>1. lg[m + k] = events[k] /\ m + k \in 1 .. n
    BY <1>2
  <2>2. CASE i = m + k
    BY <1>3, <2>1, <2>2
  <2>3. CASE i < m + k
    <3>1. m + k \in i + 1 .. n
      BY <1>2, <2>1, <2>3
    <3> QED
      BY <1>3, <1>5, <2>1, <3>1
  <2>4. CASE i > m + k
    <3>1. i - m \in DOMAIN events /\ lg[i] = events[i - m]
      BY <1>2, <2>1, <2>4
    <3>2. i - m = k
      BY <1>3, <1>5, <3>1 DEF Requested
    <3> QED
      BY <1>2, <2>4, <3>2
  <2> QED
    BY <1>2, <2>1, <2>2, <2>3, <2>4
<1> QED
  BY <1>4, <1>5

(* A transaction that argues for every scheme keeps the statuses true.        *)
LEMMA StatusKept ==
  ASSUME Typed, StatusSound, NEW events, Requested(events), Commit(events),
         NEW new, new = Nodes', \A s \in SchemeId : Argued(s, events, new)
  PROVE  StatusSound'
<1>1. PICK rows, lg : rows = objects' /\ lg = log'
  OBVIOUS
<1>2. SUFFICES ASSUME NEW s \in SchemeId, rows[s] # Absent, FreshIn(lg, s)
               PROVE  Valid(rows[s].value, new)
  BY <1>1 DEF StatusSound, StatusIsFresh, FreshIn, Exists, Current, EventId
<1>3. s \in Object
  BY WorkspaceAssumption
<1>4. /\ (\A i \in DOMAIN events : events[i].object = s => ~WritesStatus(events[i])) => FreshIn(log, s)
      /\ \A i \in DOMAIN events :
           events[i].object = s /\ WritesStatus(events[i]) => events[i].kind \notin {"undo", "redo", "cascade"}
  BY <1>1, <1>2, FreshBefore
<1>5. FreshIn(log, s) /\ Exists(s) => Valid(Current(s), Nodes)
  BY DEF StatusSound, StatusIsFresh, FreshIn, EventId
<1>6. CASE \E i \in DOMAIN events : events[i].object = s
  <2>1. PICK i \in DOMAIN events : events[i].object = s
    BY <1>6
  <2>2. PICK e : e = events[i]
    OBVIOUS
  <2>3. Vouched(e, new) /\ rows[s].value = e.after /\ EventFits(e) /\ e.object = s
    BY <1>1, <2>1, <2>2, CommittedValues DEF Argued, Requested
  <2>4. CASE WritesStatus(e) /\ e.kind \in {"undo", "redo", "cascade"}
    BY <1>4, <2>1, <2>2, <2>4
  <2>5. CASE Valid(e.after, new)
    BY <2>3, <2>5
  <2>6. CASE /\ ~WritesStatus(e) /\ Keeps(e.object, new)
             /\ e.after.content = e.before.content /\ e.after.notes = e.before.notes
    <3>1. \A k \in DOMAIN events : events[k].object = s => k = i
      BY <2>1 DEF Requested
    <3>2. FreshIn(log, s)
      BY <1>4, <2>2, <2>6, <3>1
    <3>3. Exists(s) /\ e.before = Current(s)
      BY <2>3, <2>6 DEF EventFits, WritesStatus
    <3>4. PICK v : v = Current(s)
      OBVIOUS
    <3>5. Valid(v, new)
      BY <1>5, <2>3, <2>6, <3>2, <3>3, <3>4 DEF Keeps
    <3> QED
      BY <2>3, <2>6, <3>3, <3>4, <3>5 DEF Valid
  <2> QED
    BY <2>3, <2>4, <2>5, <2>6 DEF Vouched
<1>7. CASE \A i \in DOMAIN events : events[i].object # s
  <2>1. rows[s] = objects[s]
    BY <1>1, <1>3, <1>7, CommittedValues
  <2>2. Exists(s) /\ FreshIn(log, s) /\ rows[s].value = Current(s)
    BY <1>2, <1>4, <1>7, <2>1 DEF Exists, Current
  <2> QED
    BY <1>5, <1>7, <2>2 DEF Argued, Keeps
<1> QED
  BY <1>6, <1>7

(* A scheme without a changed node keeps what is true of it.                  *)
LEMMA UnchangedKeeps ==
  ASSUME Typed, NEW new, Graph(new), NEW s \in SchemeId,
         Exists(s) /\ Scheme(s).life = "active" =>
           \A n \in Scheme(s).closure \cap Stored(Nodes) : n \in Stored(new) /\ new[n] = Nodes[n]
  PROVE  Keeps(s, new)
<1> SUFFICES ASSUME Exists(s), Valid(Current(s), Nodes), Scheme(s).life = "active"
             PROVE  Valid(Current(s), new)
  BY DEF Keeps, Valid, Scheme
<1>1. PICK v, nodes : v = Current(s) /\ nodes = Nodes
  OBVIOUS
<1>2. v.content \in SchemeContent /\ v.content = Scheme(s)
  BY <1>1, SchemesNow DEF Schemes
<1>3. Graph(nodes)
  BY <1>1, GraphNow
<1> QED
  BY <1>1, <1>2, <1>3, ValidIsLocal

------------------------------------------------------------------------------
(* What a request leaves.                                                     *)

\* The events are one transaction that argues for every scheme.
Outcome(events) ==
  /\ Requested(events)
  /\ \A new : After(events, new) => \A s \in SchemeId : Argued(s, events, new)

\* No node is archived and nothing is deactivated.
Plain(events) ==
  \A i \in DOMAIN events :
    /\ events[i].kind # "deactivate"
    /\ ~(events[i].kind = "archive" /\ events[i].object \in NodeId)

(* A scheme whose closure has no written node keeps what is true of it. *)
LEMMA OthersKeep ==
  ASSUME Typed, NEW events, NEW new, After(events, new), NEW s \in SchemeId,
         Exists(s) /\ Scheme(s).life = "active" =>
           \A n \in Scheme(s).closure \cap Stored(Nodes) : \A i \in DOMAIN events : events[i].object # n
  PROVE  Keeps(s, new)
<1>1. Graph(new) /\ Stored(Nodes) \subseteq Stored(new)
      /\ \A n \in Stored(Nodes) : (\A i \in DOMAIN events : events[i].object # n) => new[n] = Nodes[n]
  BY DEF After
<1> QED
  BY <1>1, UnchangedKeeps

(* A request that writes nodes and validates the schemes that use them.       *)
LEMMA NodesWritten ==
  ASSUME Typed, NEW changed \in SUBSET NodeId, NEW nodes, Graph(nodes), NEW primary, IsSeq(primary),
         Contracts(primary) => Requested(primary),
         \A i \in DOMAIN primary : primary[i].object \in changed /\ nodes[primary[i].object] = primary[i].after.content,
         Stored(nodes) = Stored(Nodes) \cup changed,
         \A n \in changed : \E i \in DOMAIN primary : primary[i].object = n,
         \A n \in Stored(Nodes) \ changed : nodes[n] = Nodes[n],
         Contracts(primary \o Revalidation(changed, nodes))
  PROVE  /\ Outcome(primary \o Revalidation(changed, nodes))
         /\ Plain(primary) => Plain(primary \o Revalidation(changed, nodes))
<1>1. PICK q : q = Revalidation(changed, nodes)
  OBVIOUS
<1>2. /\ IsSeq(q)
      /\ Contracts(q) => Requested(q)
      /\ \A i \in DOMAIN q : /\ q[i].object \in Affected(changed) /\ q[i].kind = "update"
                             /\ Valid(q[i].after, nodes)
      /\ \A s \in Affected(changed) :
           (\A i \in DOMAIN q : q[i].object # s) => Valid(Current(s), nodes)
  BY <1>1, Revalidated
<1>3. PICK events : IsSeq(primary) /\ IsSeq(q) /\ events = primary \o q
  BY <1>2
<1>4. /\ Contracts(events) => Contracts(primary) /\ Contracts(q)
      /\ Requested(primary) /\ Requested(q) /\ Apart(primary, q) => Requested(events)
      /\ \A i \in DOMAIN primary : \E k \in DOMAIN events : events[k] = primary[i]
      /\ \A i \in DOMAIN q : \E k \in DOMAIN events : events[k] = q[i]
      /\ \A k \in DOMAIN events :
           \/ \E i \in DOMAIN primary : events[k] = primary[i]
           \/ \E i \in DOMAIN q : events[k] = q[i]
  <2>1. Joins(primary \o q, primary, q)
    BY <1>3, TwoParts
  <2> QED
    BY <1>3, <2>1 DEF Joins
<1>5. \A s \in Affected(changed) : s \in Schemes
  BY DEF Affected
<1>6. \A s \in Affected(changed) : s \in SchemeId /\ s \notin NodeId
  BY <1>5, SchemesNow
<1>7. Apart(primary, q)
  BY <1>2, <1>6 DEF Apart
<1>8. Requested(events) /\ Requested(q)
  BY <1>1, <1>2, <1>3, <1>4, <1>7
<1>9. ASSUME NEW new, After(events, new)
      PROVE  Graph(new) /\ \A n \in Stored(nodes) : n \in Stored(new) /\ new[n] = nodes[n]
  <2>1. /\ Graph(new)
        /\ Stored(new) = Stored(Nodes) \cup {n \in NodeId : \E i \in DOMAIN events : events[i].object = n}
        /\ \A i \in DOMAIN events : events[i].object \in NodeId => new[events[i].object] = events[i].after.content
        /\ \A n \in Stored(Nodes) : (\A i \in DOMAIN events : events[i].object # n) => new[n] = Nodes[n]
    BY <1>9 DEF After
  <2>2. ASSUME NEW n \in changed PROVE n \in Stored(new) /\ new[n] = nodes[n]
    <3>1. PICK i \in DOMAIN primary : primary[i].object = n
      OBVIOUS
    <3>2. PICK k \in DOMAIN events : events[k] = primary[i]
      BY <1>4
    <3> QED
      BY <2>1, <3>1, <3>2
  <2>3. ASSUME NEW n \in Stored(Nodes) \ changed PROVE n \in Stored(new) /\ new[n] = nodes[n]
    <3>1. n \in NodeId
      BY GraphNow
    <3>2. \A k \in DOMAIN events : events[k].object # n
      BY <1>2, <1>4, <1>6, <3>1
    <3> QED
      BY <2>1, <3>2
  <2> QED
    BY <2>1, <2>2, <2>3
<1>10. ASSUME NEW new, After(events, new), NEW s \in SchemeId
       PROVE  Argued(s, events, new)
  <2>1. Graph(new) /\ \A n \in Stored(nodes) : n \in Stored(new) /\ new[n] = nodes[n]
    BY <1>9, <1>10
  <2>2. ASSUME NEW v, v.content \in SchemeContent, Valid(v, nodes) PROVE Valid(v, new)
    BY <2>1, <2>2, ValidIsLocal
  <2>3. s \notin NodeId
    BY WorkspaceAssumption
  <2>4. ASSUME NEW k \in DOMAIN events, events[k].object = s PROVE Vouched(events[k], new)
    <3>1. PICK i \in DOMAIN q : events[k] = q[i]
      BY <1>4, <2>3, <2>4
    <3>2. PICK v : v = q[i].after
      OBVIOUS
    <3>3. v.content \in SchemeContent /\ Valid(v, nodes)
      BY <1>2, <1>8, <2>3, <2>4, <3>1, <3>2 DEF Requested, EventFits, Meets
    <3> QED
      BY <2>2, <3>1, <3>2, <3>3 DEF Vouched
  <2>5. ASSUME \A k \in DOMAIN events : events[k].object # s PROVE Keeps(s, new)
    <3>1. \A i \in DOMAIN q : q[i].object # s
      BY <1>4, <2>5
    <3>2. CASE s \in Affected(changed)
      <4>1. PICK v : v = Current(s)
        OBVIOUS
      <4>2. v.content \in SchemeContent
        BY <1>5, <3>2, <4>1, SchemesNow
      <4>3. Valid(v, new)
        BY <1>2, <2>2, <3>1, <3>2, <4>1, <4>2
      <4> QED
        BY <4>1, <4>3 DEF Keeps
    <3>3. CASE s \notin Affected(changed)
      <4>1. Exists(s) /\ Scheme(s).life = "active" => changed \cap Scheme(s).closure = {}
        BY <3>3 DEF Affected, Schemes
      <4>2. Exists(s) /\ Scheme(s).life = "active" =>
              \A n \in Scheme(s).closure \cap Stored(Nodes) : n \in Stored(new) /\ new[n] = Nodes[n]
        BY <2>1, <4>1
      <4> QED
        BY <2>1, <4>2, UnchangedKeeps
    <3> QED
      BY <3>2, <3>3
  <2> QED
    BY <2>4, <2>5 DEF Argued
<1>11. Plain(primary) => Plain(events)
  BY <1>2, <1>4 DEF Plain
<1> QED
  BY <1>1, <1>3, <1>8, <1>10, <1>11 DEF Outcome

(* The nodes with one more, or another content of one. *)
LEMMA WithOne ==
  ASSUME NEW nodes, NEW n, NEW c
  PROVE  /\ Stored(With(nodes, n, c)) = Stored(nodes) \cup {n}
         /\ With(nodes, n, c)[n] = c
         /\ \A m \in Stored(nodes) \ {n} : With(nodes, n, c)[m] = nodes[m]
BY DEF With, Over, Stored

(* A node that is written, with the schemes that use it. *)
LEMMA NodeWritten ==
  ASSUME Typed, NEW n \in NodeId, NEW e, e.object = n, Contract(e) => EventFits(e),
         NEW nodes, nodes = With(Nodes, n, e.after.content),
         Contracts(<<e>> \o Revalidation({n}, nodes)),
         e.kind \notin {"deactivate", "archive"}
  PROVE  LET events == <<e>> \o Revalidation({n}, nodes)
         IN  Outcome(events) /\ Plain(events)
<1>1. PICK old, c : old = Nodes /\ c = e.after.content
  OBVIOUS
<1>2. /\ Stored(nodes) = Stored(old) \cup {n} /\ nodes[n] = c
      /\ \A m \in Stored(old) \ {n} : nodes[m] = old[m]
  BY <1>1, WithOne
<1>3. PICK p : p = <<e>>
  OBVIOUS
<1>4. /\ IsSeq(p) /\ DOMAIN p = {1} /\ p[1] = e
      /\ Contracts(p) => Contract(e)
      /\ EventFits(e) => Requested(p)
  BY <1>3, OneEvent
<1>5. Graph(old)
  BY <1>1, GraphNow
<1>6. PICK q : q = Revalidation({n}, nodes)
  OBVIOUS
<1>7. Contract(e)
  <2>2. IsSeq(q)
    BY <1>6, RevalidationIsSeq
  <2>3. PICK events : events = p \o q /\ Contracts(events)
    BY <1>3, <1>6
  <2>4. Contracts(p)
    <3>1. Joins(p \o q, p, q)
      BY <1>4, <2>2, TwoParts
    <3> QED
      BY <2>3, <3>1 DEF Joins
  <2> QED
    BY <1>4, <2>4
<1>8. Graph(nodes)
  <2>1. c \in NodeContent /\ NodeContract(n, c)
    BY <1>1, <1>7 DEF Contract
  <2> QED
    BY <1>2, <1>5, <2>1 DEF Graph, Stored
<1>9. /\ Outcome(p \o Revalidation({n}, nodes))
      /\ Plain(p) => Plain(p \o Revalidation({n}, nodes))
  <2>1. {n} \in SUBSET NodeId
    OBVIOUS
  <2>2. Contracts(p) => Requested(p)
    BY <1>4, <1>7
  <2>3. \A i \in DOMAIN p : p[i].object \in {n} /\ nodes[p[i].object] = p[i].after.content
    BY <1>1, <1>2, <1>4
  <2>4. \A m \in {n} : \E i \in DOMAIN p : p[i].object = m
    BY <1>4
  <2>5. Stored(nodes) = Stored(Nodes) \cup {n} /\ \A m \in Stored(Nodes) \ {n} : nodes[m] = Nodes[m]
    BY <1>1, <1>2
  <2>6. Contracts(p \o Revalidation({n}, nodes))
    BY <1>3
  <2> QED
    BY <1>4, <1>8, <2>1, <2>2, <2>3, <2>4, <2>5, <2>6, NodesWritten
<1>10. Plain(p)
  BY <1>4 DEF Plain
<1> QED
  BY <1>3, <1>9, <1>10

------------------------------------------------------------------------------
(* The requests about nodes.                                                  *)

\* A request was carried out.
Done(events) == Commit(events) /\ Outcome(events) /\ UNCHANGED <<held, run>>

(* A request that is written meets the contracts. *)
LEMMA WrittenMeets ==
  ASSUME NEW events, Write(events)
  PROVE  Contracts(events) /\ Commit(events) /\ UNCHANGED <<held, run>>
BY DEF Write, Contracts

(* A node is added.                                                           *)
LEMMA NodeCreated ==
  ASSUME Typed, NEW n \in NodeId, ~Exists(n), NEW p, Write(<<Creation(n, p, Expert)>>)
  PROVE  \E events : Done(events) /\ Plain(events)
<1>1. PICK e, events : e = Creation(n, p, Expert) /\ events = <<e>>
  OBVIOUS
<1>2. Contracts(events) /\ Commit(events) /\ UNCHANGED <<held, run>>
  BY <1>1, WrittenMeets
<1>3. IsSeq(events) /\ DOMAIN events = {1} /\ events[1] = e /\ Contract(e)
      /\ (EventFits(e) => Requested(events))
  BY <1>1, <1>2, OneEvent
<1>4. e.object = n /\ e.kind = "create"
  BY <1>1 DEF Creation, Event
<1>5. Requested(events)
  <2>1. n \in Object
    BY WorkspaceAssumption
  <2>2. EventFits(e)
    BY <1>1, <1>3, <2>1, CreationFits
  <2> QED
    BY <1>3, <2>2
<1>6. ASSUME NEW new, After(events, new), NEW s \in SchemeId
      PROVE  Argued(s, events, new)
  <2>1. s # n
    BY WorkspaceAssumption
  <2>2. \A m \in Stored(Nodes) : \A i \in DOMAIN events : events[i].object # m
    BY <1>3, <1>4, GraphNow
  <2>3. Keeps(s, new)
    BY <1>6, <2>2, OthersKeep
  <2> QED
    BY <1>3, <1>4, <2>1, <2>3 DEF Argued
<1>7. Plain(events)
  BY <1>3, <1>4 DEF Plain
<1> QED
  BY <1>2, <1>5, <1>6, <1>7 DEF Done, Outcome

(* A node is written with the schemes that use it. *)
LEMMA NodeWrittenDone ==
  ASSUME Typed, NEW n \in NodeId, NEW e, e.object = n, Contract(e) => EventFits(e),
         Write(<<e>> \o Revalidation({n}, With(Nodes, n, e.after.content))),
         e.kind \notin {"deactivate", "archive"}
  PROVE  \E events : Done(events) /\ Plain(events)
<1>1. PICK nodes : nodes = With(Nodes, n, e.after.content)
  OBVIOUS
<1>2. PICK events : events = <<e>> \o Revalidation({n}, nodes)
  OBVIOUS
<1>3. Contracts(events) /\ Commit(events) /\ UNCHANGED <<held, run>>
  BY <1>1, <1>2, WrittenMeets
<1>4. Contracts(<<e>> \o Revalidation({n}, nodes))
  BY <1>2, <1>3
<1>5. Outcome(<<e>> \o Revalidation({n}, nodes)) /\ Plain(<<e>> \o Revalidation({n}, nodes))
  BY <1>1, <1>4, NodeWritten
<1> QED
  BY <1>2, <1>3, <1>5 DEF Done

(* A node is moved, which changes nothing of what is validated.               *)
LEMMA NodeMoved ==
  ASSUME Typed, NEW n \in NodeId, Exists(n), NEW p, Write(<<Change(n, "update", p, FALSE, TRUE, Expert)>>)
  PROVE  \E events : Done(events) /\ Plain(events)
<1>1. PICK e, events : e = Change(n, "update", p, FALSE, TRUE, Expert) /\ events = <<e>>
  OBVIOUS
<1>2. Contracts(events) /\ Commit(events) /\ UNCHANGED <<held, run>>
  BY <1>1, WrittenMeets
<1>3. IsSeq(events) /\ DOMAIN events = {1} /\ events[1] = e /\ Contract(e)
      /\ (EventFits(e) => Requested(events))
  BY <1>1, <1>2, OneEvent
<1>4. e.object = n /\ e.kind = "update" /\ e.after.content = Node(n)
  BY <1>1 DEF Change, Event, Merged, Node
<1>5. Requested(events)
  <2>1. n \in Object
    BY WorkspaceAssumption
  <2>2. EventFits(e)
    BY <1>1, <1>3, <2>1, ChangeFits DEF Kind
  <2> QED
    BY <1>3, <2>2
<1>6. ASSUME NEW new, After(events, new), NEW s \in SchemeId
      PROVE  Argued(s, events, new)
  <2>1. s # n
    BY WorkspaceAssumption
  <2>2. new[n] = Node(n) /\ Node(n) = Nodes[n] /\ Graph(new)
    BY <1>3, <1>4, <1>6, GraphNow DEF After
  <2>3. \A m \in Stored(Nodes) : m \in Stored(new) /\ new[m] = Nodes[m]
    BY <1>3, <1>4, <1>6, <2>2 DEF After
  <2>4. Keeps(s, new)
    BY <2>2, <2>3, UnchangedKeeps
  <2> QED
    BY <1>3, <1>4, <2>1, <2>4 DEF Argued
<1>7. Plain(events)
  BY <1>3, <1>4 DEF Plain
<1> QED
  BY <1>2, <1>5, <1>6, <1>7 DEF Done, Outcome

(* model.node.update, and the operations on edges and tables.                 *)
LEMMA UpdateNodeDone ==
  ASSUME Typed, NEW n \in NodeId, NEW c, NEW layout, NEW semantic \in BOOLEAN, NEW moved \in BOOLEAN,
         UpdateNode(n, c, layout, semantic, moved)
  PROVE  \E events : Done(events) /\ Plain(events)
<1>1. PICK p : p = NewNode(With(Nodes, n, c), n, c, layout)
  OBVIOUS
<1>2. PICK e : e = Change(n, "update", p, semantic, moved, Expert)
  OBVIOUS
<1>3. Exists(n) /\ n \in Object
  BY WorkspaceAssumption DEF UpdateNode
<1>4. e.object = n /\ e.kind = "update"
  BY <1>2 DEF Change, Event
<1>5. CASE semantic
  <2>1. e.after.content = c
    <3>1. p.content = c
      BY <1>1 DEF NewNode
    <3> QED
      BY <1>2, <1>5, <3>1 DEF Change, Event, Merged
  <2>2. Write(<<e>> \o Revalidation({n}, With(Nodes, n, e.after.content)))
    BY <1>1, <1>2, <1>5, <2>1 DEF UpdateNode
  <2>3. Contract(e) => EventFits(e)
    BY <1>2, <1>3, ChangeFits DEF Kind
  <2> QED
    BY <1>4, <2>2, <2>3, NodeWrittenDone
<1>6. CASE ~semantic
  <2>1. moved = TRUE /\ semantic = FALSE
    BY <1>6 DEF UpdateNode
  <2>2. Write(<<e>> \o <<>>)
    BY <1>1, <1>2, <1>6 DEF UpdateNode
  <2>3. <<e>> \o <<>> = <<e>>
    OBVIOUS
  <2>4. Write(<<e>>)
    BY <2>2, <2>3
  <2> QED
    BY <1>2, <1>3, <2>1, <2>4, NodeMoved
<1> QED
  BY <1>5, <1>6

(* model.node.undo and model.node.redo.                                       *)
LEMMA TravelNodeDone ==
  ASSUME Typed, NEW n \in NodeId, UndoNode(n) \/ RedoNode(n)
  PROVE  \E events : Done(events) /\ Plain(events)
<1>1. n \in Object /\ Exists(n)
  BY WorkspaceAssumption DEF UndoNode, RedoNode
<1>2. PICK e : /\ e.object = n /\ e.kind \notin {"deactivate", "archive"}
               /\ Contract(e) => EventFits(e)
               /\ TravelNode(e)
  <2>1. CASE UndoNode(n)
    <3>1. PICK e : e = UndoOf(n, Expert)
      OBVIOUS
    <3>2. e.object = n /\ e.kind = "undo" /\ TravelNode(e) /\ CanUndo(n)
      BY <2>1, <3>1 DEF UndoNode, UndoOf, Event
    <3> QED
      BY <1>1, <3>1, <3>2, UndoFits
  <2>2. CASE RedoNode(n)
    <3>1. PICK e : e = RedoOf(n, Expert)
      OBVIOUS
    <3>2. e.object = n /\ e.kind = "redo" /\ TravelNode(e) /\ CanRedo(n)
      BY <2>2, <3>1 DEF RedoNode, RedoOf, Event
    <3> QED
      BY <1>1, <3>1, <3>2, RedoFits
  <2> QED
    BY <2>1, <2>2
<1>3. Write(<<e>> \o Revalidation({n}, With(Nodes, n, e.after.content)))
  BY <1>2 DEF TravelNode
<1> QED
  BY <1>2, <1>3, NodeWrittenDone

(* model.node.replace_states.                                                 *)
LEMMA ReplaceNodeStatesDone ==
  ASSUME Typed, NEW n \in NodeId, ReplaceNodeStates(n)
  PROVE  \E events : Done(events) /\ Plain(events)
<1>1. PICK changed : changed = StateDependents(Nodes, n)
  OBVIOUS
<1>2. PICK nodes : nodes = Over([m \in changed |-> StatesReplaced(Nodes, n, m)], Nodes)
  OBVIOUS
<1>3. PICK order : order = SetToSeq(changed)
  OBVIOUS
<1>4. PICK primary : primary = [i \in DOMAIN order |->
                        Meaning(order[i], "update", nodes[order[i]], NodeNotes(nodes, order[i]))]
  OBVIOUS
<1>5. PICK events : events = primary \o Revalidation(changed, nodes)
  OBVIOUS
<1>6. Exists(n) /\ Write(events)
  BY <1>1, <1>2, <1>3, <1>4, <1>5 DEF ReplaceNodeStates
<1>7. Contracts(events) /\ Commit(events) /\ UNCHANGED <<held, run>>
  BY <1>6, WrittenMeets
<1>8. changed \in SUBSET NodeId /\ \A m \in changed : Exists(m) /\ m \in Object
  BY <1>1, <1>6, GraphNow, WorkspaceAssumption DEF StateDependents
<1>9. PICK old : old = Nodes /\ Graph(old)
  BY GraphNow
<1>10. /\ Stored(nodes) = Stored(old) \cup changed
       /\ \A m \in Stored(old) \ changed : nodes[m] = old[m]
  BY <1>2, <1>9 DEF Over, Stored
<1>11. Lists(order, changed)
  <2>1. IsFiniteSet(changed)
    BY <1>8, WorkspaceAssumption, FS_Subset
  <2> QED
    BY <1>3, <2>1, SetToSeqLists
<1>12. \A i \in DOMAIN order : order[i] \in changed
  BY <1>11 DEF Lists
<1>13. ASSUME NEW i \in DOMAIN order
       PROVE  /\ primary[i].object = order[i] /\ primary[i].kind = "update"
              /\ primary[i].after.content = nodes[order[i]]
              /\ Contract(primary[i]) => EventFits(primary[i])
  <2>1. PICK m, c, notes : m = order[i] /\ c = nodes[m] /\ notes = NodeNotes(nodes, m)
    OBVIOUS
  <2>2. primary[i] = Meaning(m, "update", c, notes)
    BY <1>4, <2>1
  <2>3. m \in Object /\ Exists(m)
    BY <1>8, <1>12, <2>1
  <2> QED
    BY <2>1, <2>2, <2>3, MeaningWrites, MeaningFits DEF Kind
<1>14. primary = [i \in DOMAIN order |-> primary[i]]
  BY <1>4
<1>15. /\ IsSeq(primary) /\ DOMAIN primary = DOMAIN order
       /\ \A i \in DOMAIN primary : primary[i].object \in changed
       /\ \A m \in changed : \E i \in DOMAIN primary : primary[i].object = m
       /\ (\A i \in DOMAIN primary : EventFits(primary[i])) => Requested(primary)
  BY <1>11, <1>13, <1>14, OneForEach
<1>16. Contracts(primary)
  <2>1. PICK q : q = Revalidation(changed, nodes) /\ IsSeq(q)
    BY RevalidationIsSeq
  <2>2. Joins(primary \o q, primary, q)
    BY <1>15, <2>1, TwoParts
  <2> QED
    BY <1>5, <1>7, <2>1, <2>2 DEF Joins
<1>17. Requested(primary)
  BY <1>13, <1>15, <1>16 DEF Contracts
<1>18. Graph(nodes)
  <2>1. ASSUME NEW m \in changed PROVE nodes[m] \in NodeContent /\ NodeContract(m, nodes[m])
    <3>1. PICK i \in DOMAIN primary : primary[i].object = m
      BY <1>15
    <3>2. m \in NodeId /\ primary[i].after.content = nodes[m]
      BY <1>8, <1>13, <1>15, <3>1
    <3>3. Contract(primary[i])
      BY <1>16, <3>1 DEF Contracts
    <3> QED
      BY <3>1, <3>2, <3>3 DEF Contract
  <2> QED
    BY <1>8, <1>9, <1>10, <2>1 DEF Graph, Stored
<1>19. Outcome(events) /\ Plain(events)
  <2>1. \A i \in DOMAIN primary : primary[i].object \in changed /\ nodes[primary[i].object] = primary[i].after.content
    BY <1>13, <1>15
  <2>2. Stored(nodes) = Stored(Nodes) \cup changed /\ \A m \in Stored(Nodes) \ changed : nodes[m] = Nodes[m]
    BY <1>9, <1>10
  <2>3. Contracts(primary \o Revalidation(changed, nodes))
    BY <1>5, <1>7
  <2>4. Plain(primary)
    BY <1>13, <1>15 DEF Plain
  <2> QED
    BY <1>5, <1>8, <1>15, <1>17, <1>18, <2>1, <2>2, <2>3, <2>4, NodesWritten
<1> QED
  BY <1>7, <1>19 DEF Done

------------------------------------------------------------------------------
(* The requests about schemes.                                                *)

\* No node is written, so that what is true of the nodes stays true.
AboutSchemes(events) == \A i \in DOMAIN events : events[i].object \notin NodeId

(* Schemes that are written do not change the nodes.                          *)
LEMMA NodesStay ==
  ASSUME Typed, NEW events, AboutSchemes(events), NEW new, After(events, new)
  PROVE  /\ \A s \in SchemeId : Keeps(s, new)
         /\ \A v : v.content \in SchemeContent /\ Valid(v, Nodes) => Valid(v, new)
<1>1. PICK nodes : nodes = Nodes /\ Graph(nodes) /\ Stored(nodes) \subseteq NodeId
  BY GraphNow
<1>2. Graph(new) /\ \A m \in Stored(nodes) : m \in Stored(new) /\ new[m] = nodes[m]
  BY <1>1 DEF After, AboutSchemes
<1>3. ASSUME NEW s \in SchemeId PROVE Keeps(s, new)
  BY <1>1, <1>2, UnchangedKeeps
<1>4. ASSUME NEW v, v.content \in SchemeContent, Valid(v, nodes) PROVE Valid(v, new)
  BY <1>1, <1>2, <1>4, ValidIsLocal
<1> QED
  BY <1>1, <1>3, <1>4

\* The event validates the scheme, or is one of those whose status is not claimed.
Settles(e, nodes) ==
  \/ WritesStatus(e) /\ e.kind \in {"undo", "redo", "cascade"}
  \/ Valid(e.after, nodes)
  \/ /\ ~WritesStatus(e)
     /\ e.after.content = e.before.content /\ e.after.notes = e.before.notes

(* A scheme is written. *)
LEMMA SchemeWritten ==
  ASSUME Typed, NEW s \in SchemeId, NEW e, e.object = s, Contract(e) => EventFits(e), Settles(e, Nodes),
         Write(<<e>>)
  PROVE  Done(<<e>>) /\ (e.kind # "deactivate" => Plain(<<e>>))
<1>1. PICK events : events = <<e>>
  OBVIOUS
<1>2. Contracts(events) /\ Commit(events) /\ UNCHANGED <<held, run>>
  BY <1>1, WrittenMeets
<1>3. IsSeq(events) /\ DOMAIN events = {1} /\ events[1] = e /\ Contract(e)
      /\ (EventFits(e) => Requested(events))
  BY <1>1, <1>2, OneEvent
<1>4. Requested(events) /\ EventFits(e)
  BY <1>3
<1>5. s \notin NodeId
  BY WorkspaceAssumption
<1>6. AboutSchemes(events)
  BY <1>3, <1>5 DEF AboutSchemes
<1>7. e.after.content \in SchemeContent
  BY <1>4, <1>5 DEF EventFits, Meets
<1>8. ASSUME NEW new, After(events, new), NEW t \in SchemeId
      PROVE  Argued(t, events, new)
  <2>1. /\ \A u \in SchemeId : Keeps(u, new)
        /\ \A v : v.content \in SchemeContent /\ Valid(v, Nodes) => Valid(v, new)
    BY <1>6, <1>8, NodesStay
  <2>2. Vouched(e, new)
    BY <1>7, <2>1 DEF Settles, Vouched
  <2> QED
    BY <1>3, <2>1, <2>2 DEF Argued
<1>9. e.kind # "deactivate" => Plain(events)
  BY <1>3, <1>5 DEF Plain
<1> QED
  BY <1>1, <1>2, <1>4, <1>8, <1>9 DEF Done, Outcome

(* A scheme is created validated.                                             *)
LEMMA SchemeCreated ==
  ASSUME Typed, NEW s \in SchemeId, ~Exists(s), NEW b \in SchemeContent, NEW layout,
         Write(<<Creation(s, Placed(Normalized(b, Nodes), layout), Expert)>>)
  PROVE  \E events : Done(events) /\ Plain(events)
<1>1. PICK p : p = Placed(Normalized(b, Nodes), layout)
  OBVIOUS
<1>2. PICK e : e = Creation(s, p, Expert)
  OBVIOUS
<1>3. /\ e.object = s /\ e.kind = "create"
      /\ e.after.content = Normalized(b, Nodes).content /\ e.after.notes = Normalized(b, Nodes).notes
  BY <1>1, <1>2 DEF Creation, Event, Fresh, Placed
<1>4. Valid(e.after, Nodes)
  <2>1. PICK nodes, v : nodes = Nodes /\ v = e.after /\ Graph(nodes)
    BY GraphNow
  <2>2. v.content = Normalized(b, nodes).content /\ v.notes = Normalized(b, nodes).notes
    BY <1>3, <2>1
  <2>3. Valid(v, nodes)
    BY <2>1, <2>2, NormalizedIsValid
  <2> QED
    BY <2>1, <2>3
<1>5. Contract(e) => EventFits(e)
  <2>1. s \in Object
    BY WorkspaceAssumption
  <2> QED
    BY <1>2, <2>1, CreationFits
<1>6. Write(<<e>>)
  BY <1>1, <1>2
<1>7. Done(<<e>>) /\ Plain(<<e>>)
  BY <1>3, <1>4, <1>5, <1>6, SchemeWritten DEF Settles
<1> QED
  BY <1>7

(* task_scheme.create and task_scheme.copy.                                   *)
LEMMA CreateSchemeDone ==
  ASSUME Typed, NEW s \in SchemeId, NEW b \in SchemeContent, CreateScheme(s, b)
  PROVE  \E events : Done(events) /\ Plain(events)
BY SchemeCreated DEF CreateScheme

LEMMA CopySchemeDone ==
  ASSUME Typed, NEW source \in SchemeId, NEW s \in SchemeId, CopyScheme(source, s)
  PROVE  \E events : Done(events) /\ Plain(events)
<1>1. PICK b : b = [Scheme(source) EXCEPT !.life = "active"]
  OBVIOUS
<1>2. b \in SchemeContent
  <2>1. source \in Schemes
    BY DEF CopyScheme, Schemes
  <2>2. Scheme(source) \in SchemeContent
    BY <2>1, SchemesNow
  <2> QED
    BY <1>1, <2>2 DEF SchemeContent
<1>3. ~Exists(s) /\ Write(<<Creation(s, Placed(Normalized(b, Nodes), Current(source).layout), Expert)>>)
  BY <1>1 DEF CopyScheme
<1> QED
  BY <1>2, <1>3, SchemeCreated

\* The event of a change of meaning that validated the scheme.
Written(e, s, kind, b) ==
  /\ Done(<<e>>) /\ (e.kind # "deactivate" => Plain(<<e>>))
  /\ e.object = s /\ e.kind = kind
  /\ e.after.content = Normalized(b, Nodes).content

(* WriteScheme validates.                                                     *)
LEMMA WriteSchemeDone ==
  ASSUME Typed, NEW s \in SchemeId, Exists(s), NEW b \in SchemeContent,
         NEW kind \in Kind \ {"create", "undo", "redo"}, WriteScheme(s, kind, b)
  PROVE  \E e : Written(e, s, kind, b)
<1>1. PICK p : p = Normalized(b, Nodes)
  OBVIOUS
<1>2. PICK e : e = Meaning(s, kind, p.content, p.notes)
  OBVIOUS
<1>3. s \in Object
  BY WorkspaceAssumption
<1>4. e.object = s /\ e.kind = kind /\ e.after.content = p.content /\ e.after.notes = p.notes
  BY <1>2, <1>3, MeaningWrites
<1>5. Valid(e.after, Nodes)
  <2>1. PICK nodes, v : nodes = Nodes /\ v = e.after /\ Graph(nodes)
    BY GraphNow
  <2>2. v.content = Normalized(b, nodes).content /\ v.notes = Normalized(b, nodes).notes
    BY <1>1, <1>4, <2>1
  <2>3. Valid(v, nodes)
    BY <2>1, <2>2, NormalizedIsValid
  <2> QED
    BY <2>1, <2>3
<1>6. Contract(e) => EventFits(e)
  BY <1>2, <1>3, MeaningFits
<1>7. Write(<<e>>)
  BY <1>1, <1>2 DEF WriteScheme
<1>8. Done(<<e>>) /\ (e.kind # "deactivate" => Plain(<<e>>))
  BY <1>4, <1>5, <1>6, <1>7, SchemeWritten DEF Settles
<1> QED
  BY <1>1, <1>4, <1>8 DEF Written

(* task_scheme.activate_node.                                                 *)
LEMMA ActivateNodeDone ==
  ASSUME Typed, NEW s \in SchemeId, NEW n \in NodeId, ActivateNode(s, n)
  PROVE  \E events : Done(events) /\ Plain(events)
<1>1. PICK nodes, b, explicit, closure :
        /\ nodes = Nodes /\ b = Scheme(s) /\ explicit = b.explicit \cup {n}
        /\ closure = Closure(nodes, explicit)
  OBVIOUS
<1>2. PICK c : c = [b EXCEPT !.explicit = explicit, !.closure = closure]
  OBVIOUS
<1>3. Exists(s) /\ WriteScheme(s, "update", c)
  BY <1>1, <1>2 DEF ActivateNode
<1>4. c \in SchemeContent
  <2>1. s \in Schemes
    BY <1>3 DEF Schemes
  <2>2. b \in SchemeContent
    BY <1>1, <2>1, SchemesNow
  <2>3. explicit \in SUBSET NodeId
    BY <1>1, <2>2 DEF SchemeContent
  <2>4. closure \subseteq NodeId
    <3>1. Graph(nodes)
      BY <1>1, GraphNow
    <3>2. Reach(Closure(nodes, explicit), NodeId, explicit, Parents(nodes))
      BY <2>3, <3>1, ClosureIsLeast
    <3> QED
      BY <1>1, <3>2 DEF Reach
  <2> QED
    BY <1>2, <2>2, <2>3, <2>4 DEF SchemeContent
<1>5. PICK kind \in Kind \ {"create", "undo", "redo"} : kind = "update"
  BY DEF Kind
<1>6. WriteScheme(s, kind, c)
  BY <1>3, <1>5
<1>7. PICK e : Written(e, s, kind, c)
  BY <1>3, <1>4, <1>6, WriteSchemeDone
<1> QED
  BY <1>5, <1>7 DEF Written

(* A change of a scheme that validates it, or moves it only. *)
LEMMA SchemeChanged ==
  ASSUME Typed, NEW s \in SchemeId, Exists(s), NEW p, NEW semantic \in BOOLEAN, NEW layout \in BOOLEAN,
         NEW nodes, semantic => Valid(p, nodes)
  PROVE  LET e == Change(s, "update", p, semantic, layout, Expert)
         IN  /\ e.object = s /\ e.kind = "update" /\ Settles(e, nodes)
             /\ Contract(e) => EventFits(e)
<1>1. PICK e : e = Change(s, "update", p, semantic, layout, Expert)
  OBVIOUS
<1>2. PICK v, w : v = Current(s) /\ w = Merged(v, p, semantic, layout)
  OBVIOUS
<1>3. e.object = s /\ e.kind = "update" /\ e.before = v /\ e.after = w
  BY <1>1, <1>2 DEF Change, Event
<1>4. s \in Object
  BY WorkspaceAssumption
<1>5. Contract(e) => EventFits(e)
  BY <1>1, <1>4, ChangeFits DEF Kind
<1>6. CASE semantic
  <2>1. w.content = p.content /\ w.notes = p.notes
    BY <1>2, <1>6 DEF Merged
  <2>2. Valid(w, nodes)
    BY <1>6, <2>1 DEF Valid
  <2> QED
    BY <1>1, <1>3, <1>5, <2>2 DEF Settles
<1>7. CASE ~semantic
  <2>1. w.content = v.content /\ w.notes = v.notes /\ w.sem = v.sem
    BY <1>2, <1>7 DEF Merged, Bump
  <2>2. v # Absent
    BY <1>2, <1>4, RowsNow, WorkspaceAssumption
  <2>3. ~WritesStatus(e)
    BY <1>3, <2>1, <2>2 DEF WritesStatus
  <2> QED
    BY <1>1, <1>3, <1>5, <2>1, <2>3 DEF Settles
<1> QED
  BY <1>6, <1>7

(* task_scheme.update.                                                        *)
LEMMA UpdateSchemeDone ==
  ASSUME Typed, NEW s \in SchemeId, NEW b \in SchemeContent, NEW semantic \in BOOLEAN, NEW moved \in BOOLEAN,
         UpdateScheme(s, b, semantic, moved)
  PROVE  \E events : Done(events) /\ Plain(events)
<1>1. PICK nodes, p : /\ nodes = Nodes /\ Graph(nodes)
                      /\ p = Placed(Normalized(b, nodes), Current(s).layout + 1)
  BY GraphNow
<1>2. p.content = Normalized(b, nodes).content /\ p.notes = Normalized(b, nodes).notes
  BY <1>1 DEF Placed
<1>3. Valid(p, nodes)
  BY <1>1, <1>2, NormalizedIsValid
<1>4. PICK e : e = Change(s, "update", p, semantic, moved, Expert)
  OBVIOUS
<1>5. Exists(s) /\ Write(<<e>>)
  BY <1>1, <1>4 DEF UpdateScheme
<1>6. e.object = s /\ e.kind = "update" /\ Settles(e, nodes) /\ (Contract(e) => EventFits(e))
  BY <1>3, <1>4, <1>5, SchemeChanged
<1>7. Done(<<e>>) /\ Plain(<<e>>)
  BY <1>1, <1>5, <1>6, SchemeWritten
<1> QED
  BY <1>7

(* task_scheme.archive: an archived scheme claims nothing.                    *)
LEMMA ArchiveSchemeDone ==
  ASSUME Typed, NEW s \in SchemeId, ArchiveScheme(s)
  PROVE  \E events : Done(events) /\ Plain(events)
<1>1. PICK b, notes : b = [Scheme(s) EXCEPT !.life = "archived"] /\ notes = Current(s).notes
  OBVIOUS
<1>2. PICK e : e = Meaning(s, "archive", b, notes)
  OBVIOUS
<1>3. s \in Object /\ Exists(s) /\ s \in Schemes
  BY WorkspaceAssumption DEF ArchiveScheme, Schemes
<1>4. e.object = s /\ e.kind = "archive" /\ e.after.content = b
  BY <1>2, <1>3, MeaningWrites
<1>5. b.life = "archived"
  <2>1. Scheme(s) \in SchemeContent
    BY <1>3, SchemesNow
  <2> QED
    BY <1>1, <2>1 DEF SchemeContent
<1>6. Valid(e.after, Nodes)
  BY <1>4, <1>5 DEF Valid
<1>7. Contract(e) => EventFits(e)
  BY <1>2, <1>3, MeaningFits DEF Kind
<1>8. Write(<<e>>)
  BY <1>1, <1>2 DEF ArchiveScheme
<1>9. Done(<<e>>) /\ Plain(<<e>>)
  BY <1>4, <1>6, <1>7, <1>8, SchemeWritten DEF Settles
<1> QED
  BY <1>9

(* task_scheme.undo and task_scheme.redo.                                     *)
LEMMA TravelSchemeDone ==
  ASSUME Typed, NEW s \in SchemeId, UndoScheme(s) \/ RedoScheme(s)
  PROVE  \E events : Done(events) /\ Plain(events)
<1>1. s \in Object /\ Exists(s)
  BY WorkspaceAssumption DEF UndoScheme, RedoScheme
<1>2. PICK e : /\ e.object = s /\ e.kind \in {"undo", "redo"}
               /\ Contract(e) => EventFits(e)
               /\ Write(<<e>>)
  <2>1. CASE UndoScheme(s)
    <3>1. PICK e : e = UndoOf(s, Expert)
      OBVIOUS
    <3>2. e.object = s /\ e.kind = "undo" /\ Write(<<e>>) /\ CanUndo(s)
      BY <2>1, <3>1 DEF UndoScheme, UndoOf, Event
    <3> QED
      BY <1>1, <3>1, <3>2, UndoFits
  <2>2. CASE RedoScheme(s)
    <3>1. PICK e : e = RedoOf(s, Expert)
      OBVIOUS
    <3>2. e.object = s /\ e.kind = "redo" /\ Write(<<e>>) /\ CanRedo(s)
      BY <2>2, <3>1 DEF RedoScheme, RedoOf, Event
    <3> QED
      BY <1>1, <3>1, <3>2, RedoFits
  <2> QED
    BY <2>1, <2>2
<1>3. Done(<<e>>) /\ Plain(<<e>>)
  BY <1>2, SchemeWritten DEF Settles, WritesStatus
<1> QED
  BY <1>3

(* task_scheme.graph_batch: nodes are copied, and the scheme is validated with them.      *)
LEMMA GraphBatchDone ==
  ASSUME Typed, NEW s \in SchemeId, NEW copied, DOMAIN copied \subseteq NodeId,
         NEW activated \in SUBSET NodeId, NEW moved \in BOOLEAN,
         ApplyGraphBatch(s, copied, activated, moved)
  PROVE  \E events : Done(events) /\ Plain(events)
<1> DEFINE S == DOMAIN copied
<1>1. PICK nodes : nodes = Over([n \in S |-> [Node(copied[n]) EXCEPT !.life = "active"]], Nodes)
  OBVIOUS
<1>2. PICK b, explicit, closure :
        /\ b = Scheme(s) /\ explicit = b.explicit \cup activated \cup S
        /\ closure = Closure(nodes, explicit)
  OBVIOUS
<1>3. PICK c : c = [b EXCEPT !.explicit = explicit, !.closure = closure]
  OBVIOUS
<1>4. PICK p : p = Placed(Normalized(c, nodes), Current(s).layout + 1)
  OBVIOUS
<1>5. PICK semantic \in BOOLEAN, layout \in BOOLEAN :
        semantic = (<<explicit, closure>> # <<b.explicit, b.closure>>) /\ layout = (moved \/ S # {})
  OBVIOUS
<1>6. PICK e : e = Change(s, "update", p, semantic, layout, Expert)
  OBVIOUS
<1>7. PICK order : order = SetToSeq(S)
  OBVIOUS
<1>8. PICK primary : primary = [i \in DOMAIN order |->
                        Creation(order[i], CopyOf(copied[order[i]], order[i], nodes), Expert)]
  OBVIOUS
<1>9. PICK events : events = primary \o <<e>>
  OBVIOUS
<1>10. Exists(s) /\ (\A n \in S : ~Exists(n)) /\ Write(events)
  BY <1>1, <1>2, <1>3, <1>4, <1>5, <1>6, <1>7, <1>8, <1>9 DEF ApplyGraphBatch
<1>11. Contracts(events) /\ Commit(events) /\ UNCHANGED <<held, run>>
  BY <1>10, WrittenMeets
<1>12. PICK old : old = Nodes /\ Graph(old) /\ Stored(old) = {m \in NodeId : Exists(m)}
  BY GraphNow
<1>13. /\ Stored(nodes) = Stored(old) \cup S
       /\ \A n \in S : nodes[n] = [Node(copied[n]) EXCEPT !.life = "active"]
       /\ \A m \in Stored(old) : nodes[m] = old[m]
  BY <1>1, <1>10, <1>12 DEF Over, Stored
<1> HIDE DEF S
<1>14. S \in SUBSET NodeId
  BY DEF S
<1>15. Lists(order, S)
  <2>1. IsFiniteSet(S)
    BY <1>14, WorkspaceAssumption, FS_Subset
  <2> QED
    BY <1>7, <2>1, SetToSeqLists
<1>16. \A i \in DOMAIN order : order[i] \in S
  BY <1>15 DEF Lists
<1>17. ASSUME NEW i \in DOMAIN order
       PROVE  /\ primary[i].object = order[i] /\ primary[i].kind = "create"
              /\ primary[i].after.content = nodes[order[i]]
              /\ Contract(primary[i]) => EventFits(primary[i])
  <2>1. PICK n, q : n = order[i] /\ q = CopyOf(copied[n], n, nodes)
    OBVIOUS
  <2>2. primary[i] = Creation(n, q, Expert)
    BY <1>8, <2>1
  <2>3. n \in S /\ n \in NodeId /\ n \in Object /\ ~Exists(n)
    BY <1>10, <1>14, <1>16, <2>1, WorkspaceAssumption
  <2>4. q.content = [Node(copied[n]) EXCEPT !.life = "active"]
    BY <2>1 DEF CopyOf, NewNode
  <2>5. primary[i].object = n /\ primary[i].kind = "create" /\ primary[i].after.content = q.content
    BY <2>2 DEF Creation, Event, Fresh
  <2>6. Contract(primary[i]) => EventFits(primary[i])
    BY <2>2, <2>3, CreationFits
  <2> QED
    BY <1>13, <2>1, <2>3, <2>4, <2>5, <2>6
<1>18. primary = [i \in DOMAIN order |-> primary[i]]
  BY <1>8
<1>19. /\ IsSeq(primary) /\ DOMAIN primary = DOMAIN order
       /\ \A i \in DOMAIN primary : primary[i].object \in S
       /\ \A n \in S : \E i \in DOMAIN primary : primary[i].object = n
       /\ (\A i \in DOMAIN primary : EventFits(primary[i])) => Requested(primary)
  BY <1>15, <1>17, <1>18, OneForEach
<1>20. PICK last : last = <<e>>
  OBVIOUS
<1>21. IsSeq(last) /\ DOMAIN last = {1} /\ last[1] = e
       /\ (Contracts(last) => Contract(e)) /\ (EventFits(e) => Requested(last))
  BY <1>20, OneEvent
<1>22. Joins(events, primary, last)
  <2>1. Joins(primary \o last, primary, last)
    BY <1>19, <1>21, TwoParts
  <2> QED
    BY <1>9, <1>20, <2>1
<1>23. Contracts(primary) /\ Contract(e)
  BY <1>11, <1>21, <1>22 DEF Joins
<1>24. Requested(primary)
  BY <1>17, <1>19, <1>23 DEF Contracts
<1>25. Graph(nodes)
  <2>1. ASSUME NEW m \in S PROVE nodes[m] \in NodeContent /\ NodeContract(m, nodes[m])
    <3>1. PICK i \in DOMAIN primary : primary[i].object = m
      BY <1>19
    <3>2. m \in NodeId /\ primary[i].after.content = nodes[m]
      BY <1>14, <1>17, <1>19, <3>1
    <3>3. Contract(primary[i])
      BY <1>23, <3>1 DEF Contracts
    <3> QED
      BY <3>1, <3>2, <3>3 DEF Contract
  <2> QED
    BY <1>12, <1>13, <1>14, <2>1 DEF Graph, Stored
<1>26. c \in SchemeContent
  <2>1. s \in Schemes
    BY <1>10 DEF Schemes
  <2>2. b \in SchemeContent
    BY <1>2, <2>1, SchemesNow
  <2>3. explicit \in SUBSET NodeId
    BY <1>2, <1>14, <2>2 DEF SchemeContent
  <2>4. closure \subseteq NodeId
    <3>1. Reach(Closure(nodes, explicit), NodeId, explicit, Parents(nodes))
      BY <1>25, <2>3, ClosureIsLeast
    <3> QED
      BY <1>2, <3>1 DEF Reach
  <2> QED
    BY <1>3, <2>2, <2>3, <2>4 DEF SchemeContent
<1>27. Valid(p, nodes)
  <2>1. p.content = Normalized(c, nodes).content /\ p.notes = Normalized(c, nodes).notes
    BY <1>4 DEF Placed
  <2> QED
    BY <1>25, <1>26, <2>1, NormalizedIsValid
<1>28. /\ e.object = s /\ e.kind = "update" /\ Settles(e, nodes) /\ EventFits(e)
  BY <1>6, <1>10, <1>23, <1>27, SchemeChanged
<1>29. s \notin NodeId
  BY WorkspaceAssumption
<1>30. Requested(events)
  <2>1. Apart(primary, last)
    BY <1>14, <1>19, <1>21, <1>28, <1>29 DEF Apart
  <2> QED
    BY <1>21, <1>22, <1>24, <1>28, <2>1 DEF Joins
<1>31. \A k \in DOMAIN events :
         \/ events[k].object \in S /\ events[k].kind = "create" /\ events[k].after.content = nodes[events[k].object]
         \/ events[k] = e
  <2> TAKE k \in DOMAIN events
  <2>1. CASE \E i \in DOMAIN primary : events[k] = primary[i]
    BY <1>17, <1>19, <2>1
  <2>2. CASE \E i \in DOMAIN last : events[k] = last[i]
    BY <1>21, <2>2
  <2> QED
    BY <1>22, <2>1, <2>2 DEF Joins
<1>32. \A n \in S : \E k \in DOMAIN events : events[k].object = n /\ events[k].after.content = nodes[n]
  BY <1>17, <1>19, <1>22 DEF Joins
<1>33. ASSUME NEW new, After(events, new), NEW t \in SchemeId
       PROVE  Argued(t, events, new)
  <2>1. t \notin NodeId /\ t \notin S
    BY <1>14, WorkspaceAssumption
  <2>2. \A m \in Stored(old) : \A k \in DOMAIN events : events[k].object # m
    <3>1. \A m \in Stored(old) : m \notin S /\ m # s
      BY <1>10, <1>12, <1>29 DEF S
    <3> QED
      BY <1>28, <1>31, <3>1
  <2>3. Keeps(t, new)
    BY <1>12, <1>33, <2>2, OthersKeep
  <2>4. Graph(new) /\ \A n \in Stored(nodes) : n \in Stored(new) /\ new[n] = nodes[n]
    <3>1. /\ Graph(new)
          /\ Stored(new) = Stored(old) \cup {n \in NodeId : \E i \in DOMAIN events : events[i].object = n}
          /\ \A i \in DOMAIN events : events[i].object \in NodeId => new[events[i].object] = events[i].after.content
          /\ \A n \in Stored(old) : (\A i \in DOMAIN events : events[i].object # n) => new[n] = old[n]
      BY <1>12, <1>33 DEF After
    <3>2. \A n \in S : n \in Stored(new) /\ new[n] = nodes[n]
      BY <1>14, <1>32, <3>1
    <3>3. \A n \in Stored(old) : n \in Stored(new) /\ new[n] = nodes[n]
      BY <1>13, <2>2, <3>1
    <3> QED
      BY <1>13, <3>1, <3>2, <3>3
  <2>5. ASSUME t = s PROVE Vouched(e, new)
    <3>1. PICK v : v = e.after
      OBVIOUS
    <3>2. v.content \in SchemeContent
      BY <1>28, <1>29, <3>1 DEF EventFits, Meets
    <3>3. Valid(v, nodes) => Valid(v, new)
      BY <1>25, <2>4, <3>2, ValidIsLocal
    <3> QED
      BY <1>28, <2>3, <2>5, <3>1, <3>3 DEF Settles, Vouched
  <2> QED
    BY <1>28, <1>31, <2>1, <2>3, <2>5 DEF Argued
<1>34. Plain(events)
  BY <1>28, <1>31 DEF Plain
<1> QED
  BY <1>11, <1>30, <1>33, <1>34 DEF Done, Outcome

------------------------------------------------------------------------------
(* The archival of a node.                                                    *)

\* What the archival of n leaves of scheme s before it is validated.
Remaining(n, s) ==
  LET plan == DeactivationPlan(Scheme(s), Nodes, n)
  IN  IF Unresolved(Nodes, plan.explicit) # {}
      THEN [Scheme(s) EXCEPT !.explicit = {}, !.closure = {}, !.outputs = {}]
      ELSE Deactivated(Scheme(s), plan)

\* The events of the archival of n: its own, and one for each scheme that uses it.
Archival(n, events) ==
  /\ \A s \in Affected({n}) : n \in Scheme(s).closure
  /\ \A k \in DOMAIN events :
       \/ events[k].object = n /\ events[k].kind = "archive"
       \/ /\ events[k].object \in Affected({n}) /\ events[k].kind = "cascade"
          /\ events[k].after.content = Normalized(Remaining(n, events[k].object), Nodes).content
  /\ \A s \in Affected({n}) : \E k \in DOMAIN events : events[k].object = s

(* model.node.archive.                                                        *)
LEMMA ArchiveNodeDone ==
  ASSUME Typed, NEW n \in NodeId, ArchiveNode(n)
  PROVE  \E events : Done(events) /\ Archival(n, events)
<1>1. PICK order : order = SetToSeq(Affected({n}))
  OBVIOUS
<1>2. PICK primary : primary = [i \in DOMAIN order |->
                       Meaning(order[i], "cascade", Normalized(Remaining(n, order[i]), Nodes).content,
                               Normalized(Remaining(n, order[i]), Nodes).notes)]
  OBVIOUS
<1>3. PICK c, notes : c = [Node(n) EXCEPT !.life = "archived"] /\ notes = Current(n).notes
  OBVIOUS
<1>4. PICK e : e = Meaning(n, "archive", c, notes)
  OBVIOUS
<1>5. PICK events : events = primary \o <<e>>
  OBVIOUS
<1>6. Exists(n) /\ (\A s \in Affected({n}) : n \in Scheme(s).closure) /\ Write(events)
  BY <1>1, <1>2, <1>3, <1>4, <1>5 DEF ArchiveNode, Remaining
<1>7. Contracts(events) /\ Commit(events) /\ UNCHANGED <<held, run>>
  BY <1>6, WrittenMeets
<1>8. \A s \in Affected({n}) : s \in SchemeId /\ s \in Object /\ Exists(s) /\ s \notin NodeId
  <2>1. Affected({n}) \subseteq Schemes
    BY DEF Affected
  <2> QED
    BY <2>1, SchemesNow
<1>9. Lists(order, Affected({n}))
  <2>1. PICK S : S = Affected({n})
    OBVIOUS
  <2>2. IsFiniteSet(S)
    BY <1>8, <2>1, WorkspaceAssumption, FS_Subset
  <2> QED
    BY <1>1, <2>1, <2>2, SetToSeqLists
<1>10. \A i \in DOMAIN order : order[i] \in Affected({n})
  BY <1>9 DEF Lists
<1>11. ASSUME NEW i \in DOMAIN order
       PROVE  /\ primary[i].object = order[i] /\ primary[i].kind = "cascade" /\ WritesStatus(primary[i])
              /\ primary[i].after.content = Normalized(Remaining(n, order[i]), Nodes).content
              /\ Contract(primary[i]) => EventFits(primary[i])
  <2>1. PICK s, p : s = order[i] /\ p = Normalized(Remaining(n, s), Nodes)
    OBVIOUS
  <2>2. primary[i] = Meaning(s, "cascade", p.content, p.notes)
    BY <1>2, <2>1
  <2>3. s \in Object /\ Exists(s)
    BY <1>8, <1>10, <2>1
  <2> QED
    BY <2>1, <2>2, <2>3, MeaningWrites, MeaningFits DEF Kind
<1>12. primary = [i \in DOMAIN order |-> primary[i]]
  BY <1>2
<1>13. /\ IsSeq(primary) /\ DOMAIN primary = DOMAIN order
       /\ \A i \in DOMAIN primary : primary[i].object \in Affected({n})
       /\ \A s \in Affected({n}) : \E i \in DOMAIN primary : primary[i].object = s
       /\ (\A i \in DOMAIN primary : EventFits(primary[i])) => Requested(primary)
  <2>1. PICK S : S = Affected({n})
    OBVIOUS
  <2>2. /\ Lists(order, S)
        /\ \A i \in DOMAIN order : primary[i].object = order[i]
    BY <1>9, <1>11, <2>1
  <2>3. /\ IsSeq(primary) /\ DOMAIN primary = DOMAIN order
        /\ \A i \in DOMAIN primary : primary[i].object \in S
        /\ \A x \in S : \E i \in DOMAIN primary : primary[i].object = x /\ order[i] = x
        /\ (\A i \in DOMAIN primary : EventFits(primary[i])) => Requested(primary)
    BY <1>12, <2>2, OneForEach
  <2> QED
    BY <2>1, <2>3
<1>14. n \in Object
  BY WorkspaceAssumption
<1>15. e.object = n /\ e.kind = "archive"
  BY <1>4, <1>6, <1>14, MeaningWrites
<1>16. Contract(e) => EventFits(e)
  BY <1>4, <1>6, <1>14, MeaningFits DEF Kind
<1>17. PICK last : last = <<e>>
  OBVIOUS
<1>18. IsSeq(last) /\ DOMAIN last = {1} /\ last[1] = e
       /\ (Contracts(last) => Contract(e)) /\ (EventFits(e) => Requested(last))
  BY <1>17, OneEvent
<1>19. Joins(events, primary, last)
  <2>1. Joins(primary \o last, primary, last)
    BY <1>13, <1>18, TwoParts
  <2> QED
    BY <1>5, <1>17, <2>1
<1>20. Contracts(primary) /\ Contract(e)
  BY <1>7, <1>18, <1>19 DEF Joins
<1>21. Requested(events)
  <2>1. Apart(primary, last)
    BY <1>8, <1>13, <1>15, <1>18 DEF Apart
  <2>2. Requested(primary)
    BY <1>11, <1>13, <1>20 DEF Contracts
  <2> QED
    BY <1>16, <1>18, <1>19, <1>20, <2>1, <2>2 DEF Joins
<1>22. \A k \in DOMAIN events :
         \/ events[k] = e
         \/ /\ events[k].object \in Affected({n}) /\ events[k].kind = "cascade" /\ WritesStatus(events[k])
            /\ events[k].after.content = Normalized(Remaining(n, events[k].object), Nodes).content
  <2> TAKE k \in DOMAIN events
  <2>1. CASE \E i \in DOMAIN primary : events[k] = primary[i]
    <3>1. PICK i \in DOMAIN order : events[k] = primary[i]
      BY <1>13, <2>1
    <3>2. /\ primary[i].object = order[i] /\ primary[i].kind = "cascade" /\ WritesStatus(primary[i])
          /\ primary[i].after.content = Normalized(Remaining(n, order[i]), Nodes).content
      BY <1>11
    <3>3. PICK x : x = primary[i] /\ x = events[k]
      BY <3>1
    <3> QED
      BY <1>10, <3>2, <3>3
  <2>2. CASE \E i \in DOMAIN last : events[k] = last[i]
    BY <1>18, <2>2
  <2> QED
    BY <1>19, <2>1, <2>2 DEF Joins
<1>23. \A s \in Affected({n}) : \E k \in DOMAIN events : events[k].object = s
  BY <1>13, <1>19 DEF Joins
<1>24. ASSUME NEW new, After(events, new), NEW s \in SchemeId
       PROVE  Argued(s, events, new)
  <2>1. s # n
    BY WorkspaceAssumption
  <2>2. ASSUME \A k \in DOMAIN events : events[k].object # s PROVE Keeps(s, new)
    <3>1. s \notin Affected({n})
      BY <1>23, <2>2
    <3>2. Exists(s) /\ Scheme(s).life = "active" => n \notin Scheme(s).closure
      BY <3>1 DEF Affected, Schemes
    <3>3. \A m \in Stored(Nodes) : m # n => \A k \in DOMAIN events : events[k].object # m
      BY <1>8, <1>15, <1>22, GraphNow
    <3> QED
      BY <1>24, <3>2, <3>3, OthersKeep
  <2>3. \A k \in DOMAIN events : events[k].object = s => Vouched(events[k], new)
    BY <1>15, <1>22, <2>1 DEF Vouched
  <2> QED
    BY <2>2, <2>3 DEF Argued
<1>25. Archival(n, events)
  BY <1>6, <1>15, <1>22, <1>23 DEF Archival
<1> QED
  BY <1>7, <1>21, <1>24, <1>25 DEF Done, Outcome

------------------------------------------------------------------------------
(* Every request.                                                             *)

\* A request that archives no node and deactivates none.
PlainlyDone == \E events : Done(events) /\ Plain(events)

(* Operations on edges and tables are updates of one node. *)
LEMMA OperationDone ==
  ASSUME Typed, NEW n \in NodeId, NEW c, NEW allowed, Operation(n, c, allowed)
  PROVE  PlainlyDone
<1>1. UpdateNode(n, c, 0, TRUE, FALSE)
  BY DEF Operation
<1>2. PICK semantic \in BOOLEAN, moved \in BOOLEAN : semantic = TRUE /\ moved = FALSE
  OBVIOUS
<1>3. UpdateNode(n, c, 0, semantic, moved)
  BY <1>1, <1>2
<1> QED
  BY <1>3, UpdateNodeDone DEF PlainlyDone

(* The requests about one node. *)
LEMMA NodeRequestDone ==
  ASSUME Typed, NEW n \in NodeId, NodeRequest(n)
  PROVE  PlainlyDone \/ \E events : Done(events) /\ Archival(n, events)
<1>1. CASE UndoNode(n) \/ RedoNode(n)
  BY <1>1, TravelNodeDone DEF PlainlyDone
<1>2. CASE ArchiveNode(n)
  BY <1>2, ArchiveNodeDone
<1>3. CASE ReplaceNodeStates(n)
  BY <1>3, ReplaceNodeStatesDone DEF PlainlyDone
<1>4. CASE ReorderProbabilisticParents(n)
  <2>1. PICK places \in SetToSeqs(DOMAIN Node(n).parents) :
          Operation(n, ParentsReordered(Node(n), places), Allowed(~Complete(Node(n))))
    BY <1>4 DEF ReorderProbabilisticParents
  <2> QED
    BY <2>1, OperationDone
<1>5. CASE \E rows \in Rows : UpdateCptRows(n, rows)
  BY <1>5, OperationDone DEF UpdateCptRows
<1>6. CASE \E strategy \in {"uniform", "ranked"} : MaterializeCpt(n, strategy)
  BY <1>6, OperationDone DEF MaterializeCpt
<1>7. CASE \E m \in NodeId : CopyNode(n, m)
  <2>1. PICK m \in NodeId : ~Exists(m) /\ Write(<<Creation(m, CopyOf(n, m, Nodes), Expert)>>)
    BY <1>7 DEF CopyNode
  <2> QED
    BY <2>1, NodeCreated DEF PlainlyDone
<1>8. CASE \E p \in NodeId, strategy \in {"preserve_independence", "incomplete", "uniform"} :
             AddProbabilisticEdge(n, p, strategy)
  BY <1>8, OperationDone DEF AddProbabilisticEdge
<1>9. CASE \E p \in NodeId, strategy \in {"marginalize", "incomplete"} : RemoveProbabilisticEdge(n, p, strategy)
  BY <1>9, OperationDone DEF RemoveProbabilisticEdge
<1>10. CASE \E r \in RawInput, recipe \in BOOLEAN : AddExtractionEdge(n, r, recipe) \/ RemoveExtractionEdge(n, r, recipe)
  BY <1>10, OperationDone DEF AddExtractionEdge, RemoveExtractionEdge
<1>11. CASE n \in Movable /\ UpdateNode(n, Node(n), Current(n).layout + 1, FALSE, TRUE)
  <2>1. PICK semantic \in BOOLEAN, moved \in BOOLEAN : semantic = FALSE /\ moved = TRUE
    OBVIOUS
  <2>2. UpdateNode(n, Node(n), Current(n).layout + 1, semantic, moved)
    BY <1>11, <2>1
  <2> QED
    BY <2>2, UpdateNodeDone DEF PlainlyDone
<1> QED
  BY <1>1, <1>2, <1>3, <1>4, <1>5, <1>6, <1>7, <1>8, <1>9, <1>10, <1>11 DEF NodeRequest

(* The requests that submit a complete node or scheme. *)
LEMMA DraftRequestDone ==
  ASSUME Typed, NEW d, DraftRequest(d)
  PROVE  PlainlyDone
<1>1. PICK semantic \in BOOLEAN, moved \in BOOLEAN : semantic = TRUE /\ moved = FALSE
  OBVIOUS
<1>2. CASE d \in NodeDrafts
  <2>1. d[1] \in NodeId
    BY <1>2, DraftAssumption
  <2>2. CASE CreateNode(d[1], d[2])
    BY <2>1, <2>2, NodeCreated DEF CreateNode, PlainlyDone
  <2>3. CASE UpdateNode(d[1], d[2], 0, TRUE, FALSE)
    <3>1. UpdateNode(d[1], d[2], 0, semantic, moved)
      BY <1>1, <2>3
    <3> QED
      BY <2>1, <3>1, UpdateNodeDone DEF PlainlyDone
  <2>4. CASE d \in SchemeDrafts
    <3>1. d[1] \in SchemeId
      BY <2>4, DraftAssumption
    <3> QED
      BY <2>1, <3>1, WorkspaceAssumption
  <2> QED
    BY <2>2, <2>3, <2>4 DEF DraftRequest
<1>3. CASE d \in SchemeDrafts /\ d \notin NodeDrafts
  <2>1. d[1] \in SchemeId /\ d[2] \in SchemeContent
    BY <1>3, DraftAssumption
  <2>2. CASE CreateScheme(d[1], d[2])
    BY <2>1, <2>2, CreateSchemeDone DEF PlainlyDone
  <2>3. CASE UpdateScheme(d[1], d[2], TRUE, FALSE)
    <3>1. UpdateScheme(d[1], d[2], semantic, moved)
      BY <1>1, <2>3
    <3> QED
      BY <2>1, <3>1, UpdateSchemeDone DEF PlainlyDone
  <2> QED
    BY <1>3, <2>2, <2>3 DEF DraftRequest
<1> QED
  BY <1>2, <1>3 DEF DraftRequest

(* The requests about one scheme. *)
LEMMA SchemeRequestDone ==
  ASSUME Typed, NEW s \in SchemeId, SchemeRequest(s)
  PROVE  PlainlyDone
<1>1. CASE UndoScheme(s) \/ RedoScheme(s)
  BY <1>1, TravelSchemeDone DEF PlainlyDone
<1>2. CASE ArchiveScheme(s)
  BY <1>2, ArchiveSchemeDone DEF PlainlyDone
<1>3. CASE \E n \in NodeId : ActivateNode(s, n)
  BY <1>3, ActivateNodeDone DEF PlainlyDone
<1>4. CASE \E t \in SchemeId : CopyScheme(s, t)
  BY <1>4, CopySchemeDone DEF PlainlyDone
<1>5. CASE \E n, m \in NodeId : n # m /\ ApplyGraphBatch(s, [x \in {n} |-> m], {}, FALSE)
  <2>1. PICK n \in NodeId, m \in NodeId : ApplyGraphBatch(s, [x \in {n} |-> m], {}, FALSE)
    BY <1>5
  <2>2. PICK copied, activated, moved : copied = [x \in {n} |-> m] /\ activated = {} /\ moved = FALSE
    OBVIOUS
  <2>3. DOMAIN copied \subseteq NodeId /\ activated \in SUBSET NodeId /\ moved \in BOOLEAN
       /\ ApplyGraphBatch(s, copied, activated, moved)
    BY <2>1, <2>2
  <2> QED
    BY <2>3, GraphBatchDone DEF PlainlyDone
<1>6. CASE ApplyGraphBatch(s, <<>>, {}, TRUE)
  <2>1. PICK copied, activated, moved : copied = <<>> /\ activated = {} /\ moved = TRUE
    OBVIOUS
  <2>2. ApplyGraphBatch(s, copied, activated, moved)
    BY <1>6, <2>1
  <2>3. DOMAIN <<>> = {}
    OBVIOUS
  <2>4. DOMAIN copied \subseteq NodeId /\ activated \in SUBSET NodeId /\ moved \in BOOLEAN
    BY <2>1, <2>3
  <2> QED
    BY <2>2, <2>4, GraphBatchDone DEF PlainlyDone
<1>7. CASE \E n \in NodeId : ApplyGraphBatch(s, <<>>, {n}, TRUE)
  <2>1. PICK n \in NodeId : ApplyGraphBatch(s, <<>>, {n}, TRUE)
    BY <1>7
  <2>2. PICK copied, activated, moved : copied = <<>> /\ activated = {n} /\ moved = TRUE
    OBVIOUS
  <2>3. ApplyGraphBatch(s, copied, activated, moved)
    BY <2>1, <2>2
  <2>4. DOMAIN <<>> = {}
    OBVIOUS
  <2>5. DOMAIN copied \subseteq NodeId /\ activated \in SUBSET NodeId /\ moved \in BOOLEAN
    BY <2>2, <2>4
  <2> QED
    BY <2>3, <2>5, GraphBatchDone DEF PlainlyDone
<1> QED
  BY <1>1, <1>2, <1>3, <1>4, <1>5, <1>6, <1>7 DEF SchemeRequest

------------------------------------------------------------------------------
(* What a client holds.                                                       *)

\* An impact is about a scheme and shows what its hash covers; a report is of a closure
\* that can be executed, with the contents its nodes had.
ImpactSound ==
  Held("impact") =>
    /\ held.scheme \in SchemeId /\ held.node \in NodeId
    /\ held.shown = held.hash.plan.nodes

(* A deactivation that is confirmed takes out what was shown.                 *)
LEMMA DeactivateNodeDone ==
  ASSUME Typed, ImpactSound, DeactivateNode
  PROVE  \E e : /\ Done(<<e>>) /\ e.object \in Schemes /\ e.kind = "deactivate"
                /\ Scheme(e.object).closure \ e.after.content.closure = held.shown
<1>1. PICK s, n, nodes, b : s = held.scheme /\ n = held.node /\ nodes = Nodes /\ b = Scheme(s)
  OBVIOUS
<1>2. PICK plan : plan = DeactivationPlan(b, nodes, n)
  OBVIOUS
<1>3. PICK c : c = Deactivated(b, plan)
  OBVIOUS
<1>4. /\ Held("impact") /\ Plannable(s, n) /\ ImpactHash(s, n) = held.hash
      /\ WriteScheme(s, "deactivate", c)
  BY <1>1, <1>2, <1>3 DEF DeactivateNode
<1>5. s \in SchemeId /\ n \in NodeId /\ held.shown = held.hash.plan.nodes
  BY <1>1, <1>4 DEF ImpactSound
<1>6. held.hash.plan = plan
  <2>1. ImpactHash(s, n).plan = plan
    BY <1>1, <1>2 DEF ImpactHash
  <2> QED
    BY <1>4, <2>1
<1>7. Exists(s) /\ Unresolved(nodes, plan.explicit) = {}
  BY <1>1, <1>2, <1>4 DEF Plannable
<1>8. s \in Schemes /\ b \in SchemeContent
  <2>1. s \in Schemes
    BY <1>5, <1>7 DEF Schemes
  <2> QED
    BY <1>1, <2>1, SchemesNow
<1>9. Graph(nodes)
  BY <1>1, GraphNow
<1>10. /\ plan.explicit \in SUBSET NodeId /\ plan.closure = Closure(nodes, plan.explicit)
       /\ plan.outputs = b.outputs \cap plan.closure /\ plan.nodes = b.closure \ plan.closure
  BY <1>2, <1>8 DEF DeactivationPlan, SchemeContent
<1>11. plan.closure \subseteq NodeId
  <2>1. Reach(Closure(nodes, plan.explicit), NodeId, plan.explicit, Parents(nodes))
    BY <1>9, <1>10, ClosureIsLeast
  <2> QED
    BY <1>10, <2>1 DEF Reach
<1>12. /\ c \in SchemeContent /\ c.explicit = plan.explicit /\ c.outputs = plan.outputs
  BY <1>3, <1>8, <1>10, <1>11 DEF Deactivated, SchemeContent
<1>13. PICK kind \in Kind \ {"create", "undo", "redo"} : kind = "deactivate"
  BY DEF Kind
<1>14. WriteScheme(s, kind, c)
  BY <1>4, <1>13
<1>15. PICK e : Written(e, s, kind, c)
  BY <1>5, <1>7, <1>12, <1>14, WriteSchemeDone
<1>16. Done(<<e>>) /\ e.object = s /\ e.kind = "deactivate" /\ e.after.content = Normalized(c, nodes).content
  BY <1>1, <1>13, <1>15 DEF Written
<1>17. e.after.content.closure = plan.closure
  <2>1. PICK v : v = [content |-> Normalized(c, nodes).content, notes |-> Normalized(c, nodes).notes]
    OBVIOUS
  <2>2. v.content = Normalized(c, nodes).content /\ v.notes = Normalized(c, nodes).notes
    BY <2>1
  <2>3. Unresolved(nodes, c.explicit) = {} /\ c.outputs \subseteq Closure(nodes, c.explicit)
    BY <1>7, <1>10, <1>12
  <2>4. v.content.closure = Closure(nodes, c.explicit)
    BY <1>9, <1>12, <2>2, <2>3, NormalizedIsValid
  <2> QED
    BY <1>10, <1>12, <1>16, <2>2, <2>4
<1>18. Scheme(e.object).closure \ e.after.content.closure = held.shown
  BY <1>1, <1>5, <1>6, <1>10, <1>16, <1>17
<1> QED
  BY <1>8, <1>16, <1>18

------------------------------------------------------------------------------
(* The starter library.                                                       *)

StarterNodes == [n \in StarterObjects \cap NodeId |-> Starter[n]]

(* What a validation notes is of the kinds there are. *)
LEMMA NotesAreNotes ==
  ASSUME NEW nodes, Graph(nodes)
  PROVE  /\ \A X \in SUBSET NodeId : Unresolved(nodes, X) \subseteq Note
         /\ \A S \in SUBSET NodeId : GraphErrors(nodes, S) \subseteq Note
         /\ \A n \in NodeId : NodeNotes(nodes, n) \subseteq Note
<1>1. ASSUME NEW X \in SUBSET NodeId PROVE Unresolved(nodes, X) \subseteq Note
  <2>1. PICK C : C = Closure(nodes, X)
    OBVIOUS
  <2>2. Unresolved(nodes, X) =
          {<<"missing", n>> : n \in {m \in C \cap Stored(nodes) : ~(ParentsOf(nodes[m]) \subseteq Stored(nodes))}}
            \cup {<<"missing", None>> : n \in X \ Stored(nodes)}
    BY <2>1 DEF Unresolved
  <2>3. Stored(nodes) \subseteq NodeId
    BY DEF Graph, Stored
  <2>4. \A n \in NodeId \cup {None} : <<"missing", n>> \in Note
    BY DEF Note
  <2> QED
    BY <2>2, <2>3, <2>4
<1>2. ASSUME NEW S \in SUBSET NodeId PROVE GraphErrors(nodes, S) \subseteq Note
  <2>1. <<"cycle", None>> \in Note
    BY DEF Note
  <2>2. ASSUME NEW n \in S PROVE NodeErrors(nodes, n) \subseteq Note
    <3>1. \A k \in {"archived", "incomplete", "recipe", "axis"} : <<k, n>> \in Note
      BY DEF Note
    <3> QED
      BY <3>1 DEF NodeErrors, When
  <2> QED
    BY <2>1, <2>2 DEF GraphErrors, When
<1>3. ASSUME NEW n \in NodeId PROVE NodeNotes(nodes, n) \subseteq Note
  <2>1. {n} \in SUBSET NodeId
    OBVIOUS
  <2>2. PICK C : C = Closure(nodes, {n})
    OBVIOUS
  <2>3. Reach(Closure(nodes, {n}), NodeId, {n}, Parents(nodes))
    BY <2>1, ClosureIsLeast
  <2>4. C \in SUBSET NodeId
    BY <2>2, <2>3 DEF Reach
  <2> QED
    BY <1>1, <1>2, <2>1, <2>2, <2>4 DEF NodeNotes
<1> QED
  BY <1>1, <1>2, <1>3

(* Normalising keeps the contract of a scheme. *)
LEMMA NormalizedMeets ==
  ASSUME NEW nodes, Graph(nodes), NEW b \in SchemeContent, SchemeContract(b)
  PROVE  /\ SchemeContract(Normalized(b, nodes).content)
         /\ Normalized(b, nodes).notes \subseteq Note
<1>1. PICK C : C = Closure(nodes, b.explicit)
  OBVIOUS
<1>2. b.explicit \in SUBSET NodeId
  BY DEF SchemeContent
<1>3. b.explicit \subseteq C /\ C \in SUBSET NodeId
  BY <1>1, <1>2, ClosureIsLeast DEF Reach
<1>4. Unresolved(nodes, b.explicit) \subseteq Note /\ GraphErrors(nodes, C) \subseteq Note
  BY <1>2, <1>3, NotesAreNotes
<1>5. <<"output", None>> \in Note
  BY DEF Note
<1>6. CASE Unresolved(nodes, b.explicit) # {}
  BY <1>4, <1>6 DEF Normalized
<1>7. CASE Unresolved(nodes, b.explicit) = {} /\ ~(b.outputs \subseteq C)
  BY <1>1, <1>5, <1>7 DEF Normalized
<1>8. CASE Unresolved(nodes, b.explicit) = {} /\ b.outputs \subseteq C
  <2>1. PICK c : c = [b EXCEPT !.closure = C]
    OBVIOUS
  <2>2. c.explicit = b.explicit /\ c.outputs = b.outputs /\ c.closure = C
    BY <2>1 DEF SchemeContent
  <2>3. SchemeContract(c)
    BY <1>3, <1>8, <2>2 DEF SchemeContract
  <2>4. Normalized(b, nodes) = [content |-> c, notes |-> GraphErrors(nodes, C)]
    BY <1>1, <1>8, <2>1 DEF Normalized
  <2> QED
    BY <1>4, <2>3, <2>4
<1> QED
  BY <1>6, <1>7, <1>8

(* The values of the starter library.                                         *)
LEMMA StarterValues ==
  /\ Graph(StarterNodes)
  /\ \A o \in StarterObjects :
       /\ o \in Object /\ Meets(o, StarterValue(o))
       /\ o \in NodeId => StarterValue(o).content = StarterNodes[o]
       /\ o \in SchemeId => Valid(StarterValue(o), StarterNodes)
<1>1. PICK nodes : nodes = StarterNodes
  OBVIOUS
<1>2. /\ DOMAIN nodes = StarterObjects \cap NodeId
      /\ \A n \in StarterObjects \cap NodeId : nodes[n] = Starter[n]
  BY <1>1 DEF StarterNodes
<1>3. Graph(nodes)
  BY <1>2, StarterAssumption DEF Graph, StarterObjects
<1>4. ASSUME NEW o \in StarterObjects
      PROVE  /\ o \in Object /\ Meets(o, StarterValue(o))
             /\ o \in NodeId => StarterValue(o).content = nodes[o]
             /\ o \in SchemeId => Valid(StarterValue(o), nodes)
  <2>1. o \in Object /\ Starter[o] # Absent
    BY DEF StarterObjects
  <2>2. PICK v : v = StarterValue(o)
    OBVIOUS
  <2>3. CASE o \in NodeId
    <3>1. Starter[o] \in NodeContent /\ NodeContract(o, Starter[o]) /\ o \notin SchemeId
      BY <2>1, <2>3, StarterAssumption, WorkspaceAssumption
    <3>2. v = Fresh(NewNode(nodes, o, Starter[o], 0))
      BY <1>1, <2>2, <2>3 DEF StarterValue, StarterNodes
    <3>3. v = [content |-> Starter[o], notes |-> NodeNotes(nodes, o), layout |-> 0, sem |-> 0, lay |-> 0]
      BY <3>2 DEF Fresh, NewNode
    <3>4. NodeNotes(nodes, o) \subseteq Note
      BY <1>3, <2>3, NotesAreNotes
    <3>5. v \in Value
      BY <3>1, <3>3, <3>4 DEF Value
    <3>6. v.content = Starter[o]
      BY <3>3
    <3> QED
      BY <1>2, <2>1, <2>2, <2>3, <3>1, <3>5, <3>6 DEF Meets
  <2>4. CASE o \notin NodeId
    <3>1. PICK b, p : b = Starter[o] /\ p = Normalized(b, nodes)
      OBVIOUS
    <3>2. b \in SchemeContent /\ SchemeContract(b)
      BY <2>1, <2>4, <3>1, StarterAssumption
    <3>3. v = Fresh(Placed(p, 0))
      BY <1>1, <2>2, <2>4, <3>1 DEF StarterValue, StarterNodes
    <3>4. v = [content |-> p.content, notes |-> p.notes, layout |-> 0, sem |-> 0, lay |-> 0]
      BY <3>3 DEF Fresh, Placed
    <3>5. v.content = p.content /\ v.notes = p.notes
      BY <3>4
    <3>6. Valid(v, nodes) /\ v.content \in SchemeContent
      BY <1>3, <3>1, <3>2, <3>5, NormalizedIsValid
    <3>7. SchemeContract(v.content) /\ v.notes \subseteq Note
      BY <1>3, <3>1, <3>2, <3>5, NormalizedMeets
    <3>8. v \in Value
      BY <3>4, <3>5, <3>6, <3>7 DEF Value
    <3> QED
      BY <2>1, <2>2, <2>4, <3>6, <3>7, <3>8 DEF Meets
  <2> QED
    BY <2>3, <2>4
<1> QED
  BY <1>1, <1>3, <1>4

(* The library that is installed is typed and linked, and its statuses are true. *)
LEMMA StarterTyped == Init => Typed /\ Linked /\ StatusSound
<1> SUFFICES ASSUME Init PROVE Typed /\ Linked /\ StatusSound
  OBVIOUS
<1>1. PICK A, B : A = StarterObjects \cap NodeId /\ B = StarterObjects \cap SchemeId
  OBVIOUS
<1>2. StarterObjects = A \cup B /\ A \subseteq NodeId /\ B \subseteq SchemeId
  BY <1>1, WorkspaceAssumption DEF StarterObjects
<1>3. PICK a, b : a = SetToSeq(A) /\ b = SetToSeq(B)
  OBVIOUS
<1>4. Lists(a, A) /\ Lists(b, B) /\ IsSeq(a) /\ IsSeq(b)
  <2>1. IsFiniteSet(A) /\ IsFiniteSet(B)
    BY <1>2, WorkspaceAssumption, FS_Subset
  <2>2. ASSUME NEW S, IsFiniteSet(S) PROVE IsSeq(SetToSeq(S))
    <3>1. PICK q : q = SetToSeq(S)
      OBVIOUS
    <3>2. PICK m \in Nat : q \in [1 .. m -> S]
      BY <2>2, <3>1, Listing
    <3>3. q = [i \in 1 .. m |-> q[i]]
      BY <3>2
    <3> QED
      BY <3>1, <3>3, FunctionsAreSequences
  <2> QED
    BY <1>3, <2>1, <2>2, SetToSeqLists
<1>5. PICK order, m : order = a \o b /\ m = Len(a) + Len(b)
  OBVIOUS
<1>6. /\ m \in Nat /\ DOMAIN order = 1 .. m
      /\ \A i \in 1 .. m : order[i] \in StarterObjects
      /\ \A o \in StarterObjects : \E i \in 1 .. m : order[i] = o
  <2>1. /\ m \in Nat /\ Len(a) \in Nat /\ Len(b) \in Nat
        /\ DOMAIN a = 1 .. Len(a) /\ DOMAIN b = 1 .. Len(b) /\ DOMAIN order = 1 .. m
        /\ \A i \in 1 .. Len(a) : order[i] = a[i]
        /\ \A i \in 1 .. Len(b) : order[Len(a) + i] = b[i]
        /\ \A i \in 1 .. m : i \notin 1 .. Len(a) => i - Len(a) \in 1 .. Len(b)
    BY <1>4, <1>5, Concatenation
  <2>2. /\ \A i \in 1 .. Len(a) : a[i] \in A
        /\ \A x \in A : \E i \in 1 .. Len(a) : a[i] = x
        /\ \A i \in 1 .. Len(b) : b[i] \in B
        /\ \A x \in B : \E i \in 1 .. Len(b) : b[i] = x
    BY <1>4, <2>1 DEF Lists
  <2>3. ASSUME NEW i \in 1 .. m PROVE order[i] \in StarterObjects
    <3>1. CASE i \in 1 .. Len(a)
      BY <1>2, <2>1, <2>2, <3>1
    <3>2. CASE i \notin 1 .. Len(a)
      <4>1. i - Len(a) \in 1 .. Len(b) /\ Len(a) + (i - Len(a)) = i
        BY <2>1, <3>2
      <4> QED
        BY <1>2, <2>1, <2>2, <4>1
    <3> QED
      BY <3>1, <3>2
  <2>4. ASSUME NEW o \in StarterObjects PROVE \E i \in 1 .. m : order[i] = o
    <3>1. CASE o \in A
      <4>1. PICK i \in 1 .. Len(a) : a[i] = o
        BY <2>2, <3>1
      <4>2. i \in 1 .. m
        BY <1>5, <2>1
      <4> QED
        BY <2>1, <4>1, <4>2
    <3>2. CASE o \in B
      <4>1. PICK i \in 1 .. Len(b) : b[i] = o
        BY <2>2, <3>2
      <4>2. Len(a) + i \in 1 .. m
        BY <1>5, <2>1
      <4> QED
        BY <2>1, <4>1, <4>2
    <3> QED
      BY <1>2, <3>1, <3>2
  <2> QED
    BY <2>1, <2>3, <2>4
<1>7. PICK lg, rows : lg = log /\ rows = objects
  OBVIOUS
<1>8. /\ lg = [i \in 1 .. m |-> Event(order[i], "create", NoEvent, Absent, StarterValue(order[i]),
                                       NoEvent, NoEvent, Expert)]
      /\ rows = [o \in Object |->
                   IF o \in StarterObjects
                   THEN [value |-> StarterValue(o), head |-> CHOOSE i \in 1 .. m : order[i] = o, redo |-> NoEvent]
                   ELSE Absent]
  BY <1>1, <1>3, <1>5, <1>6, <1>7 DEF Init
<1>9. \A o \in StarterObjects : o \in Object /\ Meets(o, StarterValue(o)) /\ StarterValue(o) \in Value
  BY StarterValues DEF Meets
<1>10. LogTyped(lg)
  <2>1. ASSUME NEW i \in 1 .. m PROVE lg[i] \in EventRecord /\ Refers(lg[i], m)
    <3>1. PICK o, v : o = order[i] /\ v = StarterValue(o)
      OBVIOUS
    <3>2. o \in Object /\ v \in Value
      BY <1>6, <1>9, <3>1
    <3>3. lg[i] = [object |-> o, kind |-> "create", parent |-> NoEvent, before |-> Absent, after |-> v,
                   source |-> NoEvent, pending |-> NoEvent, actor |-> Expert]
      BY <1>8, <3>1 DEF Event
    <3> QED
      BY <1>6, <3>2, <3>3 DEF EventRecord, Kind, Refers, NoEvent
  <2>2. lg = [i \in 1 .. m |-> lg[i]]
    BY <1>8
  <2>3. lg \in [1 .. m -> EventRecord]
    BY <2>1, <2>2
  <2>4. lg \in Seq(EventRecord) /\ Len(lg) = m
    BY <1>6, <2>3
  <2> QED
    BY <2>1, <2>4 DEF LogTyped
<1>11. Len(lg) = m
  BY <1>6, <1>8
<1>12. ASSUME NEW o \in StarterObjects
       PROVE  /\ rows[o] \in Row /\ rows[o] # Absent /\ rows[o].value = StarterValue(o)
              /\ rows[o].head \in 0 .. m /\ rows[o].redo \in 0 .. m
  <2>1. PICK v, h : v = StarterValue(o) /\ h = CHOOSE i \in 1 .. m : order[i] = o
    OBVIOUS
  <2>2. h \in 1 .. m
    BY <1>6, <2>1
  <2>3. rows[o] = [value |-> v, head |-> h, redo |-> NoEvent]
    BY <1>8, <1>9, <2>1
  <2>4. v \in Value /\ h \in Nat
    BY <1>9, <2>1, <2>2
  <2>5. rows[o] \in Row
    BY <2>3, <2>4 DEF Row, NoEvent
  <2>6. rows[o] # Absent
    BY <2>5, WorkspaceAssumption
  <2>7. rows[o].value = v /\ rows[o].head = h /\ rows[o].redo = 0
    BY <2>3 DEF NoEvent
  <2> QED
    BY <1>6, <2>1, <2>2, <2>5, <2>6, <2>7
<1>13. \A o \in Object : o \notin StarterObjects => rows[o] = Absent
  BY <1>8
<1>14. RowsTyped(rows, m)
  <2>1. DOMAIN rows = Object /\ rows = [o \in Object |-> rows[o]]
    BY <1>8
  <2>2. rows \in [Object -> Row \cup {Absent}]
    BY <1>12, <1>13, <2>1
  <2> QED
    BY <1>9, <1>12, <1>13, <2>2 DEF RowsTyped
<1>15. Typed
  BY <1>7, <1>10, <1>11, <1>14 DEF Typed
<1>16. PICK nodes : nodes = StarterNodes
  OBVIOUS
<1>17. Nodes = nodes
  <2>1. \A n \in NodeId : rows[n] # Absent <=> n \in A
    BY <1>1, <1>12, <1>13, WorkspaceAssumption
  <2>2. \A n \in A : rows[n].value.content = Starter[n]
    BY <1>1, <1>12, StarterValues DEF StarterNodes
  <2>3. Nodes = [n \in {k \in NodeId : rows[k] # Absent} |-> rows[n].value.content]
    BY <1>7 DEF Nodes, Node, Current, Exists
  <2>4. nodes = [n \in A |-> Starter[n]]
    BY <1>1, <1>16 DEF StarterNodes
  <2>5. {k \in NodeId : rows[k] # Absent} = A
    BY <1>2, <2>1
  <2> QED
    BY <2>2, <2>3, <2>4, <2>5
<1>18. StatusSound
  <2> SUFFICES ASSUME NEW s \in SchemeId, Exists(s) PROVE Valid(Current(s), Nodes)
    BY DEF StatusSound
  <2>1. s \in StarterObjects
    BY <1>7, <1>13, WorkspaceAssumption DEF Exists
  <2>2. Current(s) = StarterValue(s)
    BY <1>7, <1>12, <2>1 DEF Current
  <2>3. Valid(StarterValue(s), nodes)
    BY <1>16, <2>1, StarterValues
  <2> QED
    BY <1>17, <2>2, <2>3
<1>19. EventsLinked
  <2>1. ASSUME NEW i \in 1 .. m PROVE lg[i].before = Absent /\ lg[i].kind # "undo"
    <3>1. PICK o, v : o = order[i] /\ v = StarterValue(o)
      OBVIOUS
    <3>2. lg[i] = [object |-> o, kind |-> "create", parent |-> NoEvent, before |-> Absent, after |-> v,
                   source |-> NoEvent, pending |-> NoEvent, actor |-> Expert]
      BY <1>8, <3>1 DEF Event
    <3> QED
      BY <3>2
  <2> QED
    BY <1>7, <1>11, <2>1 DEF EventsLinked, EventId
<1>20. CursorsAreSound
  <2> SUFFICES ASSUME NEW o \in Object, Exists(o)
               PROVE  /\ rows[o].head \in 1 .. m /\ lg[rows[o].head].object = o
                      /\ Same(lg[rows[o].head].after, rows[o].value) /\ rows[o].redo = NoEvent
    BY <1>7, <1>11 DEF CursorsAreSound, EventId, Current
  <2>1. o \in StarterObjects
    BY <1>7, <1>13 DEF Exists
  <2>2. PICK v, h : v = StarterValue(o) /\ h = CHOOSE i \in 1 .. m : order[i] = o
    OBVIOUS
  <2>3. h \in 1 .. m /\ order[h] = o
    BY <1>6, <2>1, <2>2
  <2>4. rows[o] = [value |-> v, head |-> h, redo |-> NoEvent]
    BY <1>8, <2>1, <2>2
  <2>5. lg[h] = [object |-> o, kind |-> "create", parent |-> NoEvent, before |-> Absent, after |-> v,
                 source |-> NoEvent, pending |-> NoEvent, actor |-> Expert]
    BY <1>8, <2>2, <2>3 DEF Event
  <2> QED
    BY <2>3, <2>4, <2>5 DEF Same
<1> QED
  BY <1>15, <1>18, <1>19, <1>20 DEF Linked

------------------------------------------------------------------------------
(* Steps.                                                                     *)

\* What a report says of the graph of a run.
Reported(report) == [n \in DOMAIN report.nodes |-> report.nodes[n].content]

\* The contents in a report are a graph that can be executed.
ReportSound ==
  Held("report") =>
    LET scheme == held.reference.content
        nodes == Reported(held)
    IN  /\ DOMAIN held.nodes = scheme.closure
        /\ scheme.outputs \subseteq scheme.closure
        /\ ParentClosed(nodes, scheme.closure)
        /\ GraphErrors(nodes, scheme.closure) = {}

\* What a preview and a run leave in hand names what it is, and nodes.
HandTyped ==
  /\ held # Absent => held.kind \in {"impact", "report"}
  /\ Held("report") => held.reference.content \in SchemeContent
  /\ run # Absent => DOMAIN run.nodes \subseteq NodeId

\* The inductive invariant.
WorkspaceInvariant ==
  Typed /\ Linked /\ StatusSound /\ ImpactSound /\ ReportSound /\ HandTyped /\ RunLocksTheValidated

(* A transaction that was carried out keeps the types, the links and the statuses. *)
LEMMA DoneKeeps ==
  ASSUME Typed, Linked, StatusSound, NEW events, Done(events)
  PROVE  Typed' /\ Linked' /\ StatusSound'
<1>1. Requested(events) /\ Commit(events) /\ Outcome(events)
  BY DEF Done, Outcome
<1>2. Typed'
  BY <1>1, CommitTyped
<1>3. PICK new : new = Nodes' /\ After(events, new)
  BY <1>1, CommittedNodes
<1>4. \A s \in SchemeId : Argued(s, events, new)
  BY <1>1, <1>3 DEF Outcome
<1>5. StatusSound'
  BY <1>1, <1>3, <1>4, StatusKept
<1>6. Linked'
  BY <1>1, CommitLinked
<1> QED
  BY <1>2, <1>5, <1>6

\* What an edit does.
EditOutcome ==
  \/ PlainlyDone
  \/ \E n \in NodeId : \E events : Done(events) /\ Archival(n, events)
  \/ \E e : /\ Done(<<e>>) /\ e.object \in Schemes /\ e.kind = "deactivate"
            /\ Scheme(e.object).closure \ e.after.content.closure = held.shown
  \/ \E s \in SchemeId, n \in NodeId : PreviewDeactivation(s, n)

(* Every edit is one of these. *)
LEMMA EditDone == ASSUME Typed, ImpactSound, Edit PROVE EditOutcome
<1>1. CASE \E n \in NodeId : NodeRequest(n)
  BY <1>1, NodeRequestDone DEF EditOutcome
<1>2. CASE \E d \in NodeDrafts \cup SchemeDrafts : DraftRequest(d)
  BY <1>2, DraftRequestDone DEF EditOutcome
<1>3. CASE \E s \in SchemeId : SchemeRequest(s)
  BY <1>3, SchemeRequestDone DEF EditOutcome
<1>4. CASE \E s \in SchemeId, n \in NodeId : PreviewDeactivation(s, n)
  BY <1>4 DEF EditOutcome
<1>5. CASE DeactivateNode
  BY <1>5, DeactivateNodeDone DEF EditOutcome
<1> QED
  BY <1>1, <1>2, <1>3, <1>4, <1>5 DEF Edit

(* An edit writes one transaction, or shows the impact of a deactivation. *)
LEMMA EditWrites ==
  ASSUME EditOutcome
  PROVE  (\E events : Done(events)) \/ \E s \in SchemeId, n \in NodeId : PreviewDeactivation(s, n)
BY DEF EditOutcome, PlainlyDone

(* A preflight reports a graph that can be executed, whatever is edited after. *)
LEMMA PreflightReports ==
  ASSUME Typed, run = Absent, NEW s \in SchemeId, Preflight(s)
  PROVE  ReportSound' /\ HandTyped'
<1>1. PICK nodes, b, h : nodes = Nodes /\ b = Scheme(s) /\ h = held'
  OBVIOUS
<1>2. s \in Schemes
  BY DEF Preflight, Schemes
<1>3. b \in SchemeContent /\ SchemeContract(b) /\ b = Current(s).content
  BY <1>1, <1>2, SchemesNow
<1>4. Graph(nodes) /\ \A n \in Stored(nodes) : n \in NodeId /\ nodes[n] = Current(n).content
  BY <1>1, GraphNow DEF Node
<1>5. /\ b.closure \subseteq Stored(nodes) /\ ParentClosed(nodes, b.closure)
      /\ GraphErrors(nodes, b.closure) = {}
      /\ h = [kind |-> "report", scheme |-> s, reference |-> Reference(s),
              nodes |-> [n \in b.closure |-> Reference(n)]]
  BY <1>1 DEF Preflight, Runnable
<1>6. h.reference.content = b
  BY <1>3, <1>5 DEF Reference
<1>7. PICK new : new = Reported(h)
  OBVIOUS
<1>8. DOMAIN h.nodes = b.closure /\ DOMAIN new = b.closure /\ \A n \in b.closure : new[n] = nodes[n]
  BY <1>4, <1>5, <1>7 DEF Reported, Reference
<1>9. Agree(nodes, new, b.closure)
  BY <1>5, <1>8 DEF Agree, Stored
<1>10. GraphErrors(new, b.closure) = {}
  <2>1. \A n \in b.closure : Len(nodes[n].axes) = Len(nodes[n].parents)
                             /\ nodes[n].axes \in Seq(Nat) /\ nodes[n].parents \in Seq(NodeId)
    BY <1>4, <1>5, GraphAxes
  <2>2. PICK active : active = b.closure
    OBVIOUS
  <2>3. GraphErrors(new, active) = GraphErrors(nodes, active)
    BY <1>5, <1>9, <2>1, <2>2, ErrorsAreLocal
  <2> QED
    BY <1>5, <2>2, <2>3
<1>11. ParentClosed(new, b.closure)
  BY <1>5, <1>8 DEF ParentClosed
<1>12. b.outputs \subseteq b.closure
  BY <1>3 DEF SchemeContract
<1>13. LET scheme == h.reference.content
           reported == Reported(h)
       IN  /\ DOMAIN h.nodes = scheme.closure
           /\ scheme.outputs \subseteq scheme.closure
           /\ ParentClosed(reported, scheme.closure)
           /\ GraphErrors(reported, scheme.closure) = {}
  BY <1>6, <1>7, <1>8, <1>10, <1>11, <1>12
<1>14. h.kind = "report"
  BY <1>5
<1>15. run' = Absent
  BY DEF Preflight
<1> QED
  BY <1>1, <1>3, <1>6, <1>13, <1>14, <1>15 DEF ReportSound, Reported, HandTyped

(* A run locks what was reported. *)
LEMMA RunLocksTheReported ==
  ASSUME ReportSound, CreateRun
  PROVE  RunLocksTheValidated'
<1>1. PICK r, h, nodes : r = run' /\ h = held /\ nodes = Reported(h)
  OBVIOUS
<1>2. held' = h /\ Held("report")
  BY <1>1 DEF CreateRun
<1>3. r = [scheme |-> Scheme(h.scheme), nodes |-> [n \in DOMAIN h.nodes |-> Node(n)]]
  BY <1>1 DEF CreateRun
<1>4. r.scheme = h.reference.content
  BY <1>1, <1>3 DEF CreateRun, Reference, Scheme
<1>5. \A n \in DOMAIN h.nodes : Node(n) = h.nodes[n].content
  <2>1. \A n \in DOMAIN h.nodes : Reference(n) = h.nodes[n]
    BY <1>1 DEF CreateRun, NodesUnchanged
  <2>2. \A n : Reference(n).content = Node(n)
    BY DEF Reference, Node
  <2> QED
    BY <2>1, <2>2
<1>6. r.nodes = nodes
  BY <1>1, <1>3, <1>5 DEF Reported
<1>7. /\ DOMAIN nodes = r.scheme.closure /\ r.scheme.outputs \subseteq r.scheme.closure
      /\ ParentClosed(nodes, r.scheme.closure) /\ GraphErrors(nodes, r.scheme.closure) = {}
  BY <1>1, <1>2, <1>4 DEF ReportSound, Reported
<1>8. /\ r.scheme = h.reference.content
      /\ \A n \in DOMAIN r.nodes : r.nodes[n] = h.nodes[n].content
      /\ DOMAIN r.nodes = r.scheme.closure
      /\ ParentClosed(r.nodes, DOMAIN r.nodes)
      /\ r.scheme.outputs \subseteq DOMAIN r.nodes
      /\ GraphErrors(r.nodes, DOMAIN r.nodes) = {}
  BY <1>1, <1>4, <1>6, <1>7 DEF Reported
<1> QED
  BY <1>1, <1>2, <1>8 DEF RunLocksTheValidated, RunAsPrepared, RunIsExecutable

(* Every step keeps the invariant.                                            *)
LEMMA StepKeepsTheInvariant ==
  ASSUME WorkspaceInvariant, [Next]_vars
  PROVE  WorkspaceInvariant'
<1>1. Typed /\ Linked /\ StatusSound /\ ImpactSound /\ ReportSound /\ HandTyped /\ RunLocksTheValidated
  BY DEF WorkspaceInvariant
<1>2. CASE \E events : Done(events) /\ UNCHANGED <<held, run>>
  <2>1. Typed' /\ Linked' /\ StatusSound'
    BY <1>1, <1>2, DoneKeeps
  <2>2. ImpactSound' /\ ReportSound' /\ HandTyped'
    BY <1>1, <1>2 DEF ImpactSound, ReportSound, HandTyped, Held, Reported
  <2>3. RunLocksTheValidated'
    BY <1>1, <1>2 DEF RunLocksTheValidated, RunAsPrepared, RunIsExecutable
  <2> QED
    BY <2>1, <2>2, <2>3 DEF WorkspaceInvariant
<1>3. ASSUME UNCHANGED historyVars PROVE Typed' /\ Linked' /\ StatusSound'
  <2>1. UNCHANGED <<objects, log>>
    BY <1>3 DEF historyVars
  <2>2. PICK nodes : nodes = Nodes
    OBVIOUS
  <2>3. Nodes' = nodes
    BY <2>1, <2>2 DEF Nodes, Node, Current, Exists
  <2>4. Typed'
    BY <1>1, <2>1 DEF Typed
  <2>5. ASSUME NEW s \in SchemeId, Exists(s)', StatusIsFresh(s)' PROVE Valid(Current(s), Nodes)'
    <3>1. Exists(s) /\ StatusIsFresh(s)
      BY <2>1, <2>5 DEF Exists, StatusIsFresh, EventId
    <3>2. PICK v : v = Current(s)
      OBVIOUS
    <3>3. Current(s)' = v /\ Valid(v, nodes)
      BY <1>1, <2>1, <2>2, <3>1, <3>2 DEF StatusSound, Current
    <3> QED
      BY <2>3, <3>3 DEF Valid
  <2>6. Linked'
    <3>1. EventsLinked'
      BY <1>1, <2>1 DEF Linked, EventsLinked, EventId
    <3>2. CursorsAreSound'
      BY <1>1, <2>1 DEF Linked, CursorsAreSound, EventId, Exists, Current
    <3> QED
      BY <3>1, <3>2 DEF Linked
  <2> QED
    BY <2>4, <2>5, <2>6 DEF StatusSound
<1>4. ASSUME run = Absent, NEW s \in SchemeId, NEW n \in NodeId, PreviewDeactivation(s, n)
      PROVE  WorkspaceInvariant'
  <2>1. PICK h : h = held'
    OBVIOUS
  <2>2. h = [kind |-> "impact", scheme |-> s, node |-> n, hash |-> ImpactHash(s, n),
             shown |-> DeactivationPlan(Scheme(s), Nodes, n).nodes]
    BY <1>4, <2>1 DEF PreviewDeactivation
  <2>3. ImpactSound'
    <3>1. h.hash.plan.nodes = h.shown
      BY <2>2 DEF ImpactHash
    <3> QED
      BY <1>4, <2>1, <2>2, <3>1 DEF ImpactSound
  <2>4. ReportSound' /\ HandTyped'
    BY <1>4, <2>1, <2>2 DEF ReportSound, HandTyped, Held, PreviewDeactivation
  <2>5. RunLocksTheValidated'
    BY <1>4 DEF PreviewDeactivation, RunLocksTheValidated, RunAsPrepared, RunIsExecutable
  <2>6. Typed' /\ Linked' /\ StatusSound'
    BY <1>3, <1>4 DEF PreviewDeactivation
  <2> QED
    BY <2>3, <2>4, <2>5, <2>6 DEF WorkspaceInvariant
<1>5. ASSUME run = Absent, NEW s \in SchemeId, Preflight(s)
      PROVE  WorkspaceInvariant'
  <2>1. Typed' /\ Linked' /\ StatusSound'
    BY <1>3, <1>5 DEF Preflight
  <2>2. ReportSound' /\ HandTyped'
    BY <1>1, <1>5, PreflightReports
  <2>3. ImpactSound'
    <3>1. PICK h : h = held' /\ h.kind = "report"
      BY <1>5 DEF Preflight
    <3> QED
      BY <3>1 DEF ImpactSound, Held
  <2>4. RunLocksTheValidated'
    BY <1>5 DEF Preflight, RunLocksTheValidated, RunAsPrepared, RunIsExecutable
  <2> QED
    BY <2>1, <2>2, <2>3, <2>4 DEF WorkspaceInvariant
<1>6. CASE CreateRun
  <2>1. Typed' /\ Linked' /\ StatusSound'
    BY <1>3, <1>6 DEF CreateRun
  <2>2. ImpactSound' /\ ReportSound'
    BY <1>1, <1>6 DEF CreateRun, ImpactSound, ReportSound, Held, Reported
  <2>3. HandTyped'
    <3>1. PICK r, h : r = run' /\ h = held
      OBVIOUS
    <3>2. held' = h /\ Held("report")
      BY <1>6, <3>1 DEF CreateRun
    <3>3. DOMAIN r.nodes = DOMAIN h.nodes
      BY <1>6, <3>1 DEF CreateRun
    <3>4. DOMAIN h.nodes \subseteq NodeId
      BY <1>1, <3>1, <3>2 DEF ReportSound, HandTyped, SchemeContent
    <3> QED
      BY <1>1, <3>1, <3>2, <3>3, <3>4 DEF HandTyped, Held
  <2> QED
    BY <1>1, <1>6, <2>1, <2>2, <2>3, RunLocksTheReported DEF WorkspaceInvariant
<1>7. CASE UNCHANGED vars
  <2>1. UNCHANGED historyVars /\ UNCHANGED <<held, run>>
    BY <1>7 DEF vars
  <2>2. Typed' /\ Linked' /\ StatusSound'
    BY <1>3, <2>1
  <2>3. ImpactSound' /\ ReportSound' /\ HandTyped' /\ RunLocksTheValidated'
    BY <1>1, <2>1 DEF ImpactSound, ReportSound, HandTyped, Held, Reported, RunLocksTheValidated, RunAsPrepared, RunIsExecutable
  <2> QED
    BY <2>2, <2>3 DEF WorkspaceInvariant
<1>8. CASE Next
  <2>1. CASE Edit
    <3>1. run = Absent
      BY <1>8 DEF Next
    <3>2. (\E events : Done(events)) \/ \E s \in SchemeId, n \in NodeId : PreviewDeactivation(s, n)
      BY <1>1, <2>1, EditDone, EditWrites
    <3>3. \A events : Done(events) => UNCHANGED <<held, run>>
      BY DEF Done
    <3> QED
      BY <1>2, <1>4, <3>1, <3>2, <3>3
  <2>2. CASE PrepareRun
    BY <1>5, <1>6, <1>8, <2>2 DEF PrepareRun, Next
  <2> QED
    BY <1>8, <2>1, <2>2 DEF Next
<1> QED
  BY <1>7, <1>8

------------------------------------------------------------------------------
(* The theorems.                                                              *)

(* The invariant holds in every state that can be reached. *)
THEOREM Invariance == Spec => []WorkspaceInvariant
<1>1. Init => WorkspaceInvariant
  <2> SUFFICES ASSUME Init PROVE WorkspaceInvariant
    OBVIOUS
  <2>1. Typed /\ Linked /\ StatusSound
    BY StarterTyped
  <2>2. held = Absent /\ run = Absent
    BY DEF Init
  <2> QED
    BY <2>1, <2>2 DEF WorkspaceInvariant, ImpactSound, ReportSound, HandTyped, Held, RunLocksTheValidated,
                      RunAsPrepared, RunIsExecutable
<1>2. WorkspaceInvariant /\ [Next]_vars => WorkspaceInvariant'
  BY StepKeepsTheInvariant
<1> QED
  BY <1>1, <1>2, PTL DEF Spec

(* An active scheme that is shown as executable is, whatever was edited since among the   *)
(* nodes (model_workspace/service.py revalidates by the stored closures).                 *)
THEOREM ExecutableSchemesAreCurrent == Spec => []ExecutableIsCurrent
<1>1. WorkspaceInvariant => ExecutableIsCurrent
  BY DEF WorkspaceInvariant, StatusSound, ExecutableIsCurrent, Valid, IsCurrent, Schemes, Scheme
<1> QED
  BY <1>1, Invariance, PTL

(* A run locks the contents that its preflight validated, and they are a graph that can   *)
(* be executed (runtime/current_preflight.py and the creation of the run).                *)
THEOREM RunsLockTheValidated == Spec => []RunLocksTheValidated
<1>1. WorkspaceInvariant => RunLocksTheValidated
  BY DEF WorkspaceInvariant
<1> QED
  BY <1>1, Invariance, PTL

(* The head of a row is the event that left what the row shows, and its redo cursor is an *)
(* undo of that object whose event follows the head (model_workspace_repository.py).      *)
THEOREM CursorsSound == Spec => []CursorsAreSound
<1>1. WorkspaceInvariant => CursorsAreSound
  BY DEF WorkspaceInvariant, Linked
<1> QED
  BY <1>1, Invariance, PTL

(* Every row holds a value of its kind under revisions that are numbers, and cursors that *)
(* are events.                                                                            *)
THEOREM TypeCorrect == Spec => []TypeOK
<1>1. ASSUME WorkspaceInvariant PROVE TypeOK
  <2>1. Typed /\ CursorsAreSound /\ HandTyped
    BY <1>1 DEF WorkspaceInvariant, Linked
  <2>2. ASSUME NEW o \in Object, Exists(o)
        PROVE  /\ Current(o).content \in (IF o \in NodeId THEN NodeContent ELSE SchemeContent)
               /\ Current(o).sem \in Nat /\ Current(o).lay \in Nat
    BY <2>1, <2>2 DEF Typed, RowsTyped, Meets, Value, Exists, Current
  <2>3. ASSUME NEW o \in Object, Exists(o)
        PROVE  objects[o].head \in EventId /\ objects[o].redo \in EventId \cup {NoEvent}
    BY <2>1, <2>3 DEF CursorsAreSound
  <2> QED
    BY <2>1, <2>2, <2>3 DEF TypeOK, HandTyped
<1> QED
  BY <1>1, Invariance, PTL

------------------------------------------------------------------------------
(* Deactivation takes the descendants out.                                    *)

\* The other ends of the edges that leave a node.
Children(edges) == [v \in NodeId |-> {e[2] : e \in {f \in edges : f[1] = v}}]

(* A step of Descendants is one step further along the edges. *)
LEMMA FurtherAlongEdges ==
  ASSUME NEW edges, \A e \in edges : e[1] \in NodeId /\ e[2] \in NodeId, NEW S
  PROVE  Further(S, Children(edges)) = S \cup {e[2] : e \in {f \in edges : f[1] \in S}}
<1>1. PICK next : next = Children(edges)
  OBVIOUS
<1>2. DOMAIN next = NodeId /\ \A v \in NodeId : next[v] = {e[2] : e \in {f \in edges : f[1] = v}}
  BY <1>1 DEF Children
<1>3. Further(S, next) = S \cup UNION {next[v] : v \in S \cap NodeId}
  BY <1>2 DEF Further
<1>4. UNION {next[v] : v \in S \cap NodeId} = {e[2] : e \in {f \in edges : f[1] \in S}}
  <2>1. ASSUME NEW x PROVE x \in UNION {next[v] : v \in S \cap NodeId}
                           <=> \E v \in S \cap NodeId : \E e \in edges : e[1] = v /\ e[2] = x
    BY <1>2
  <2>2. ASSUME NEW x PROVE x \in {e[2] : e \in {f \in edges : f[1] \in S}}
                           <=> \E e \in edges : e[1] \in S /\ e[2] = x
    OBVIOUS
  <2>3. \A x : (\E v \in S \cap NodeId : \E e \in edges : e[1] = v /\ e[2] = x)
               <=> \E e \in edges : e[1] \in S /\ e[2] = x
    OBVIOUS
  <2> QED
    BY <2>1, <2>2, <2>3
<1> QED
  BY <1>1, <1>3, <1>4

(* A node and its descendants are what can be reached from it along the edges. *)
LEMMA DescendantsAreReached ==
  ASSUME NEW edges, \A e \in edges : e[1] \in NodeId /\ e[2] \in NodeId, NEW n \in NodeId
  PROVE  Reach(Descendants(edges, n) \cup {n}, NodeId, {n}, Children(edges))
<1> DEFINE K == Cardinality(NodeId)
           next == Children(edges)
           X == {n}
           Step(h) == [i \in 0 .. K |->
                         IF i = 0 THEN X
                         ELSE LET before == h[i - 1]
                              IN  before \cup {e[2] : e \in {f \in edges : f[1] \in before}}]
           g == CHOOSE h : h = Step(h)
<1>1. K \in Nat /\ Neighbours(next, NodeId) /\ X \in SUBSET NodeId
  BY WorkspaceAssumption, FS_CardinalityType DEF Neighbours, Children
<1>2. ASSUME NEW h PROVE Step(h) = Steps(h, X, next, K)
  <2>1. \A i \in 0 .. K : Further(h[i - 1], next)
          = h[i - 1] \cup {e[2] : e \in {f \in edges : f[1] \in h[i - 1]}}
    BY FurtherAlongEdges
  <2> HIDE DEF next, K, X
  <2> QED
    BY <2>1 DEF Steps
<1>3. g = Steps(g, X, next, K)
  <2>1. \E h : h = Steps(h, X, next, K)
    <3> HIDE DEF K, next, X
    <3> QED
      BY <1>1, StepsExist
  <2>2. \E h : h = Step(h)
    <3> HIDE DEF Step
    <3> QED
      BY <1>2, <2>1
  <2>3. g = Step(g)
    <3> HIDE DEF Step
    <3> QED
      BY <2>2
  <2> HIDE DEF g, Step, next, K, X
  <2> QED
    BY <1>2, <2>3
<1>4. Descendants(edges, n) = g[K] \ {n}
  BY DEF Descendants
<1>5. PICK k : k = g
  OBVIOUS
<1> HIDE DEF g, Step, next, X
<1>6. k = Steps(k, X, next, Cardinality(NodeId))
  BY <1>3, <1>5
<1>7. Reach(k[Cardinality(NodeId)], NodeId, X, next)
  BY <1>1, <1>6, WorkspaceAssumption, StepsReach
<1>8. n \in k[Cardinality(NodeId)]
  BY <1>7 DEF Reach, X
<1>9. Descendants(edges, n) \cup {n} = k[Cardinality(NodeId)]
  BY <1>4, <1>5, <1>8
<1> QED
  BY <1>7, <1>9 DEF next, X

(* A member of a closure that has the node among all that it depends on is one of its     *)
(* descendants along the edges of the closure, and the other way around.                  *)
LEMMA DescendantsDepend ==
  ASSUME NEW nodes, Graph(nodes), NEW C, C \subseteq Stored(nodes), ParentClosed(nodes, C),
         NEW n \in C
  PROVE  Descendants(ActiveEdges(nodes, C), n) \cup {n} = {n} \cup {m \in C : n \in Closure(nodes, {m})}
<1>1. PICK edges, next, D : /\ edges = ActiveEdges(nodes, C) /\ next = Children(edges)
                            /\ D = Descendants(edges, n) \cup {n}
  OBVIOUS
<1>2. Stored(nodes) \subseteq NodeId
  BY DEF Graph, Stored
<1>3. \A e \in edges : e[1] \in NodeId /\ e[2] \in NodeId
  BY <1>1, <1>2 DEF ActiveEdges
<1>4. Reach(D, NodeId, {n}, next)
  BY <1>1, <1>2, <1>3, DescendantsAreReached
<1>5. \A v, m \in NodeId : m \in next[v] <=> v \in C /\ m \in C /\ v \in ParentsOf(nodes[m])
  <2> TAKE v, m \in NodeId
  <2>1. m \in next[v] <=> \E e \in edges : e[1] = v /\ e[2] = m
    BY <1>1 DEF Children
  <2>2. ASSUME v \in C, m \in C, v \in ParentsOf(nodes[m]) PROVE \E e \in edges : e[1] = v /\ e[2] = m
    <3>1. <<v, m>> \in Stored(nodes) \X Stored(nodes) /\ <<v, m>>[1] = v /\ <<v, m>>[2] = m
      BY <2>2
    <3>2. <<v, m>> \in edges
      BY <1>1, <2>2, <3>1 DEF ActiveEdges
    <3> QED
      BY <3>1, <3>2
  <2>3. ASSUME NEW e \in edges, e[1] = v, e[2] = m PROVE v \in C /\ m \in C /\ v \in ParentsOf(nodes[m])
    BY <1>1, <2>3 DEF ActiveEdges
  <2> QED
    BY <2>1, <2>2, <2>3
<1>6. DOMAIN next = NodeId
  BY <1>1 DEF Children
<1>7. \A m \in NodeId : LET R == Closure(nodes, {m})
                        IN  R \subseteq NodeId /\ m \in R /\ Closed(R, Parents(nodes)) /\ Least(R, {m}, Parents(nodes))
  BY ClosureIsLeast DEF Reach
<1>8. \A S : Closed(S, Parents(nodes)) <=> \A v \in S \cap Stored(nodes) : ParentsOf(nodes[v]) \subseteq S
  BY DEF Closed, Parents, Stored
<1>9. D \subseteq {n} \cup {m \in C : n \in Closure(nodes, {m})}
  <2>1. PICK S : S = {n} \cup {m \in C : n \in Closure(nodes, {m})}
    OBVIOUS
  <2>2. ASSUME NEW v \in S, NEW m \in next[v], v \in NodeId PROVE m \in S
    <3>1. m \in NodeId
      BY <1>4, <1>1, <1>3, <2>2 DEF Children
    <3>2. v \in C /\ m \in C /\ v \in ParentsOf(nodes[m])
      BY <1>5, <2>2, <3>1
    <3>3. PICK R : R = Closure(nodes, {m}) /\ m \in R /\ Closed(R, Parents(nodes))
      BY <1>7, <3>1
    <3>4. v \in R
      BY <1>8, <3>2, <3>3
    <3>5. CASE v = n
      BY <2>1, <3>2, <3>3, <3>4, <3>5
    <3>6. CASE v # n
      <4>1. PICK Q : Q = Closure(nodes, {v}) /\ Least(Q, {v}, Parents(nodes))
        BY <1>7, <2>2
      <4>2. n \in Q
        BY <2>1, <3>6, <4>1
      <4>3. Q \subseteq R
        BY <3>3, <3>4, <4>1 DEF Least
      <4> QED
        BY <2>1, <3>2, <3>3, <4>2, <4>3
    <3> QED
      BY <3>5, <3>6
  <2>3. Closed(S, next)
    BY <1>6, <2>2 DEF Closed
  <2>4. {n} \subseteq S
    BY <2>1
  <2>5. D \subseteq S
    BY <1>4, <2>3, <2>4 DEF Reach, Least
  <2> QED
    BY <2>1, <2>5
<1>10. ASSUME NEW m \in C, n \in Closure(nodes, {m}) PROVE m \in D
  <2> SUFFICES ASSUME m \notin D PROVE FALSE
    OBVIOUS
  <2>1. PICK S : S = C \ D
    OBVIOUS
  <2>2. ASSUME NEW v \in S, NEW p \in ParentsOf(nodes[v]) PROVE p \in S
    <3>1. v \in C /\ p \in C /\ v \in NodeId /\ p \in NodeId
      BY <1>2, <2>1, <2>2 DEF ParentClosed
    <3>2. v \in next[p]
      BY <1>5, <2>2, <3>1
    <3>3. p \in D => v \in D
      BY <1>4, <1>6, <3>1, <3>2 DEF Reach, Closed
    <3> QED
      BY <2>1, <3>1, <3>3
  <2>3. Closed(S, Parents(nodes))
    BY <1>8, <2>2
  <2>4. PICK R : R = Closure(nodes, {m}) /\ Least(R, {m}, Parents(nodes))
    BY <1>2, <1>7
  <2>5. R \subseteq S
    BY <1>10, <2>1, <2>3, <2>4 DEF Least
  <2>6. n \in D
    BY <1>1
  <2> QED
    BY <1>10, <2>1, <2>4, <2>5, <2>6
<1>11. n \in D
  BY <1>1
<1>12. D = {n} \cup {m \in C : n \in Closure(nodes, {m})}
  BY <1>9, <1>10, <1>11
<1> QED
  BY <1>1, <1>12

(* A part of what resolves resolves. *)
LEMMA LessResolves ==
  ASSUME NEW nodes, Graph(nodes), NEW X \in SUBSET NodeId, NEW Y \in SUBSET X,
         Unresolved(nodes, X) = {}
  PROVE  Unresolved(nodes, Y) = {}
<1>1. PICK C, B : C = Closure(nodes, X) /\ B = Closure(nodes, Y)
  OBVIOUS
<1>2. Y \in SUBSET NodeId
  OBVIOUS
<1>3. C \subseteq Stored(nodes)
  BY <1>1, ResolvedClosures
<1>4. Reach(C, NodeId, X, Parents(nodes)) /\ Reach(B, NodeId, Y, Parents(nodes))
  BY <1>1, <1>2, ClosureIsLeast
<1>5. B \subseteq C
  BY <1>4 DEF Reach, Least
<1>6. Closure(nodes, Y) \subseteq Stored(nodes)
  BY <1>1, <1>3, <1>5
<1> QED
  BY <1>2, <1>6, ResolvedClosures

\* What the archival or deactivation of n takes out of scheme s.
Gone(s, n) == {n} \cup {m \in Scheme(s).closure : n \in Closure(Nodes, {m})}

(* What an archival leaves of a scheme whose closure is current.              *)
LEMMA RemainingClosure ==
  ASSUME Typed, NEW s \in Schemes, IsCurrent(s), NEW n \in Scheme(s).closure
  PROVE  Normalized(Remaining(n, s), Nodes).content.closure = Closure(Nodes, Scheme(s).explicit \ Gone(s, n))
<1>1. PICK b, nodes : b = Scheme(s) /\ nodes = Nodes /\ Graph(nodes)
  BY GraphNow
<1>2. PICK plan : plan = DeactivationPlan(b, nodes, n)
  OBVIOUS
<1>3. b \in SchemeContent
  BY <1>1, SchemesNow
<1>4. Unresolved(nodes, b.explicit) = {} /\ b.closure = Closure(nodes, b.explicit)
  BY <1>1 DEF IsCurrent
<1>5. b.explicit \in SUBSET NodeId
  BY <1>3 DEF SchemeContent
<1>6. b.closure \subseteq Stored(nodes) /\ ParentClosed(nodes, b.closure)
  BY <1>1, <1>4, <1>5, ResolvedClosures
<1>7. n \in b.closure
  BY <1>1
<1>8. PICK D : D = Descendants(ActiveEdges(nodes, b.closure), n) \cup {n}
  OBVIOUS
<1>9. D = Gone(s, n)
  <2>1. PICK C : C = b.closure /\ C \subseteq Stored(nodes) /\ ParentClosed(nodes, C) /\ n \in C
    BY <1>6, <1>7
  <2>2. Descendants(ActiveEdges(nodes, C), n) \cup {n} = {n} \cup {m \in C : n \in Closure(nodes, {m})}
    BY <1>1, <2>1, DescendantsDepend
  <2> QED
    BY <1>1, <1>8, <2>1, <2>2 DEF Gone
<1>10. PICK X : X = b.explicit \ D
  OBVIOUS
<1>11. plan.explicit = X /\ plan.closure = Closure(nodes, X) /\ plan.outputs = b.outputs \cap plan.closure
  BY <1>2, <1>8, <1>10 DEF DeactivationPlan
<1>12. X \in SUBSET NodeId /\ X \in SUBSET b.explicit
  BY <1>5, <1>10
<1>13. Unresolved(nodes, X) = {}
  BY <1>1, <1>4, <1>5, <1>12, LessResolves
<1>14. PICK c : c = Deactivated(b, plan)
  OBVIOUS
<1>15. Remaining(n, s) = c
  BY <1>1, <1>2, <1>11, <1>13, <1>14 DEF Remaining
<1>16. plan.closure \subseteq NodeId
  <2>1. Reach(Closure(nodes, X), NodeId, X, Parents(nodes))
    BY <1>1, <1>12, ClosureIsLeast
  <2> QED
    BY <1>11, <2>1 DEF Reach
<1>17. c \in SchemeContent /\ c.explicit = X /\ c.outputs = plan.outputs
  BY <1>3, <1>11, <1>12, <1>14, <1>16 DEF Deactivated, SchemeContent
<1>18. Normalized(c, nodes).content.closure = Closure(nodes, X)
  <2>1. PICK v : v = [content |-> Normalized(c, nodes).content, notes |-> Normalized(c, nodes).notes]
    OBVIOUS
  <2>2. v.content = Normalized(c, nodes).content /\ v.notes = Normalized(c, nodes).notes
    BY <2>1
  <2>3. Unresolved(nodes, c.explicit) = {} /\ c.outputs \subseteq Closure(nodes, c.explicit)
    BY <1>11, <1>13, <1>17
  <2>4. v.content.closure = Closure(nodes, c.explicit)
    BY <1>1, <1>17, <2>2, <2>3, NormalizedIsValid
  <2> QED
    BY <1>17, <2>2, <2>4
<1> QED
  BY <1>1, <1>9, <1>10, <1>15, <1>18

(* What the schemes are after the archival of n.                              *)
LEMMA ArchivalDeactivates ==
  ASSUME Typed, NEW n \in NodeId, NEW events, Done(events), Archival(n, events),
         NEW s \in Schemes, Scheme(s).life = "active", IsCurrent(s)
  PROVE  SchemeAfter(s).closure = IF n \in Scheme(s).closure THEN Closure(Nodes, Scheme(s).explicit \ Gone(s, n))
                                  ELSE Scheme(s).closure
<1>1. Requested(events) /\ Commit(events)
  BY DEF Done, Outcome
<1>2. s \in Object /\ s \notin NodeId /\ SchemeContract(Scheme(s)) /\ Scheme(s) = objects[s].value.content
  BY SchemesNow DEF Current
<1>3. CASE n \in Scheme(s).closure
  <2>1. s \in Affected({n})
    BY <1>3 DEF Affected
  <2>2. PICK k \in DOMAIN events : events[k].object = s
    BY <2>1 DEF Archival
  <2>3. events[k].after.content = Normalized(Remaining(n, s), Nodes).content
    BY <1>2, <2>2 DEF Archival
  <2>4. SchemeAfter(s) = events[k].after.content
    BY <1>1, <2>2, CommittedValues DEF SchemeAfter
  <2>5. Normalized(Remaining(n, s), Nodes).content.closure = Closure(Nodes, Scheme(s).explicit \ Gone(s, n))
    BY <1>3, RemainingClosure
  <2> QED
    BY <1>3, <2>3, <2>4, <2>5
<1>4. CASE n \notin Scheme(s).closure
  <2>1. s \notin Affected({n})
    BY <1>2, <1>4 DEF Affected, SchemeContract
  <2>2. \A k \in DOMAIN events : events[k].object # s
    BY <1>2, <2>1 DEF Archival
  <2>3. SchemeAfter(s) = Scheme(s)
    BY <1>1, <1>2, <2>2, CommittedValues DEF SchemeAfter
  <2> QED
    BY <1>4, <2>3
<1> QED
  BY <1>3, <1>4

\* DeactivationIsExact of a step.
StepIsExact ==
  \A i \in Len(log) + 1 .. Len(log') :
    /\ ArchivedBy(i) =>
         \A s \in Schemes : Scheme(s).life = "active" /\ IsCurrent(s) =>
           LET n == log'[i].object
               gone == {n} \cup {m \in Scheme(s).closure : n \in Closure(Nodes, {m})}
           IN  SchemeAfter(s).closure = IF n \in Scheme(s).closure
                                        THEN Closure(Nodes, Scheme(s).explicit \ gone)
                                        ELSE Scheme(s).closure
    /\ log'[i].kind = "deactivate" =>
         LET s == log'[i].object
         IN  Scheme(s).closure \ SchemeAfter(s).closure = held.shown

(* A step that writes nothing is exact. *)
LEMMA NoEventsAreExact == ASSUME Typed, UNCHANGED log PROVE StepIsExact
<1>1. Len(log) \in Nat /\ log' = log
  BY DEF Typed, LogTyped
<1>2. Len(log) + 1 .. Len(log') = {}
  BY <1>1
<1> QED
  BY <1>2 DEF StepIsExact

(* Every step is. *)
LEMMA StepsAreExact == ASSUME WorkspaceInvariant, [Next]_vars PROVE StepIsExact
<1>1. Typed /\ ImpactSound
  BY DEF WorkspaceInvariant
<1>2. PICK lg, m : lg = log' /\ m = Len(log)
  OBVIOUS
<1>3. ASSUME NEW events, Done(events)
      PROVE  \A i \in Len(log) + 1 .. Len(log') : i - m \in DOMAIN events /\ lg[i] = events[i - m]
  <2>1. Requested(events) /\ Commit(events)
    BY <1>3 DEF Done, Outcome
  <2> QED
    BY <1>1, <1>2, <2>1, CommittedLog
<1>4. CASE UNCHANGED log
  BY <1>1, <1>4, NoEventsAreExact
<1>5. CASE PlainlyDone
  <2>1. PICK events : Done(events) /\ Plain(events)
    BY <1>5 DEF PlainlyDone
  <2>2. \A i \in Len(log) + 1 .. Len(log') :
          /\ lg[i].kind # "deactivate"
          /\ ~(lg[i].kind = "archive" /\ lg[i].object \in NodeId)
    BY <1>3, <2>1 DEF Plain
  <2> QED
    BY <1>2, <2>2 DEF StepIsExact, ArchivedBy
<1>6. ASSUME NEW n \in NodeId, NEW events, Done(events), Archival(n, events)
      PROVE  StepIsExact
  <2>1. ASSUME NEW i \in Len(log) + 1 .. Len(log') PROVE lg[i].kind # "deactivate"
    BY <1>3, <1>6 DEF Archival
  <2>2. ASSUME NEW i \in Len(log) + 1 .. Len(log'), lg[i].kind = "archive" PROVE lg[i].object = n
    BY <1>3, <1>6, <2>2 DEF Archival
  <2>3. ASSUME NEW s \in Schemes, Scheme(s).life = "active", IsCurrent(s)
        PROVE  SchemeAfter(s).closure =
                 IF n \in Scheme(s).closure
                 THEN Closure(Nodes, Scheme(s).explicit
                                \ ({n} \cup {k \in Scheme(s).closure : n \in Closure(Nodes, {k})}))
                 ELSE Scheme(s).closure
    BY <1>1, <1>6, <2>3, ArchivalDeactivates DEF Gone
  <2> QED
    BY <1>2, <2>1, <2>2, <2>3 DEF StepIsExact, ArchivedBy
<1>7. ASSUME NEW e, Done(<<e>>), e.object \in Schemes, e.kind = "deactivate",
             Scheme(e.object).closure \ e.after.content.closure = held.shown
      PROVE  StepIsExact
  <2>1. PICK events : events = <<e>>
    OBVIOUS
  <2>2. DOMAIN events = {1} /\ events[1] = e
    BY <2>1, OneEvent
  <2>3. Requested(events) /\ Commit(events) /\ Done(events)
    BY <1>7, <2>1 DEF Done, Outcome
  <2>4. \A i \in Len(log) + 1 .. Len(log') : lg[i] = e
    <3> TAKE i \in Len(log) + 1 .. Len(log')
    <3>1. i - m \in DOMAIN events /\ lg[i] = events[i - m]
      BY <1>3, <2>3
    <3> QED
      BY <2>2, <3>1
  <2>5. SchemeAfter(e.object) = e.after.content
    <3>1. objects'[events[1].object].value = events[1].after
      BY <1>1, <2>2, <2>3, CommittedValues
    <3> QED
      BY <2>2, <3>1 DEF SchemeAfter
  <2> QED
    BY <1>2, <1>7, <2>4, <2>5 DEF StepIsExact, ArchivedBy
<1>8. CASE Edit
  <2>1. EditOutcome
    BY <1>1, <1>8, EditDone
  <2>2. ASSUME NEW s \in SchemeId, NEW n \in NodeId, PreviewDeactivation(s, n) PROVE UNCHANGED log
    BY <2>2 DEF PreviewDeactivation, historyVars
  <2> QED
    BY <1>4, <1>5, <1>6, <1>7, <2>1, <2>2 DEF EditOutcome
<1>9. CASE PrepareRun
  <2>1. UNCHANGED log
    BY <1>9 DEF PrepareRun, Preflight, CreateRun, historyVars
  <2> QED
    BY <1>4, <2>1
<1>10. CASE UNCHANGED vars
  <2>1. UNCHANGED log
    BY <1>10 DEF vars, historyVars
  <2> QED
    BY <1>4, <2>1
<1> QED
  BY <1>8, <1>9, <1>10 DEF Next

(* Archiving a node takes it, and what depends on it, out of every active scheme whose    *)
(* closure was current, and a confirmed deactivation takes out what the expert was shown  *)
(* (model_workspace/service.py archive_node and deactivate_node).                         *)
THEOREM DeactivationsAreExact == Spec => DeactivationIsExact
<1>1. WorkspaceInvariant /\ [Next]_vars => StepIsExact
  BY StepsAreExact
<1>2. StepIsExact =>
        \A i \in Len(log) + 1 .. Len(log') : ArchivedBy(i) =>
          \A s \in Schemes : Scheme(s).life = "active" /\ IsCurrent(s) =>
            LET n == log'[i].object
                gone == {n} \cup {m \in Scheme(s).closure : n \in Closure(Nodes, {m})}
            IN  SchemeAfter(s).closure = IF n \in Scheme(s).closure
                                         THEN Closure(Nodes, Scheme(s).explicit \ gone)
                                         ELSE Scheme(s).closure
  BY DEF StepIsExact
<1>3. StepIsExact =>
        \A i \in Len(log) + 1 .. Len(log') : log'[i].kind = "deactivate" =>
          LET s == log'[i].object
          IN  Scheme(s).closure \ SchemeAfter(s).closure = held.shown
  BY DEF StepIsExact
<1> QED
  BY <1>1, <1>2, <1>3, Invariance, PTL DEF Spec, DeactivationIsExact, ArchiveDeactivates, DeactivationAsPreviewed
=============================================================================
