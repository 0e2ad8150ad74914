-------------------------- MODULE SchemeDrafts_proofs --------------------------
(* Theorems of SchemeDrafts, for any library, drafts and requests.             *)
(*                                                                             *)
(* Compilation reads the versions that a scheme pins and nothing else, and     *)
(* publication only adds versions (SchemesCompile). What a draft shows is the  *)
(* snapshot at its cursor, and a transition tells whether it changed what the  *)
(* draft means (DraftInvariant): the versions and the timeline rest on that.   *)
EXTENDS SchemeDrafts, SequenceTheorems, WellFoundedInduction, TLAPS
-----------------------------------------------------------------------------
(* Published schemes keep compiling.                                           *)

\* What a table is checked against are the states and parents of the variables.
LEMMA CptValidIsLocal ==
  ASSUME NEW lib, NEW new, NEW variables, NEW b,
         \A v \in variables : new[v] = lib[v],
         CptValid(lib, variables, b)
  PROVE  CptValid(new, variables, b)
<1>1. /\ b.of \subseteq variables /\ ToSet(b.parents) \subseteq variables
      /\ \A v \in b.of : lib[v].states = b.states /\ lib[v].parents = b.parents
      /\ b.axes = [i \in DOMAIN b.parents |-> lib[b.parents[i]].states]
      /\ Len(b.rows) = RowsFor(b.axes)
      /\ \A row \in ToSet(b.rows) : Normalized(row, b.states)
  BY DEF CptValid
<1>2. \A i \in DOMAIN b.parents : new[b.parents[i]] = lib[b.parents[i]]
  BY <1>1 DEF ToSet
<1>3. b.axes = [i \in DOMAIN b.parents |-> new[b.parents[i]].states]
  BY <1>1, <1>2
<1>4. \A v \in b.of : new[v].states = b.states /\ new[v].parents = b.parents
  BY <1>1
<1>5. QED
  BY <1>1, <1>3, <1>4 DEF CptValid

LEMMA AcyclicIsLocal ==
  ASSUME NEW lib, NEW new, NEW variables, \A v \in variables : new[v] = lib[v], Acyclic(lib, variables)
  PROVE  Acyclic(new, variables)
<1>1. [v \in variables |-> ToSet(lib[v].parents)] = [v \in variables |-> ToSet(new[v].parents)]
  OBVIOUS
<1>2. QED
  BY <1>1 DEF Acyclic

\* Whether a scheme compiles depends on the versions it pins.
LEMMA CompilesIsLocal ==
  ASSUME NEW lib, NEW new, NEW s,
         s.pins \subseteq DOMAIN new, \A k \in s.pins : new[k] = lib[k],
         Compiles(lib, s)
  PROVE  Compiles(new, s)
<1>1. PICK variables : variables = VariablesIn(s.pins)
  OBVIOUS
<1>2. \A v \in variables : v \in s.pins /\ new[v] = lib[v]
  BY <1>1 DEF VariablesIn
<1>3. /\ \A v \in variables : lib[v].cpt \in s.pins /\ CptValid(lib, variables, lib[lib[v].cpt])
      /\ OfKind(s.pins, "cpt") = {lib[v].cpt : v \in variables}
      /\ Acyclic(lib, variables)
      /\ ToSet(s.outputs) \subseteq variables
  BY <1>1 DEF Compiles
<1>4. ASSUME NEW v \in variables PROVE new[v].cpt \in s.pins /\ CptValid(new, variables, new[new[v].cpt])
  <2>1. new[v].cpt = lib[v].cpt /\ lib[v].cpt \in s.pins /\ CptValid(lib, variables, lib[lib[v].cpt])
    BY <1>2, <1>3
  <2>2. new[new[v].cpt] = lib[lib[v].cpt]
    BY <2>1
  <2>3. CptValid(new, variables, lib[lib[v].cpt])
    BY <2>1, <1>2, CptValidIsLocal
  <2>4. QED
    BY <2>1, <2>2, <2>3
<1>5. OfKind(s.pins, "cpt") = {new[v].cpt : v \in variables}
  BY <1>2, <1>3
<1>6. Acyclic(new, variables)
  BY <1>2, <1>3, AcyclicIsLocal
<1>7. QED
  BY <1>1, <1>3, <1>4, <1>5, <1>6 DEF Compiles

\* What publication validates is what the inference engine compiles.
LEMMA ExecutableCompiles ==
  ASSUME NEW lib, NEW sources, NEW s, Executable(lib, sources, s)
  PROVE  Compiles(lib, s)
<1>1. PICK variables : variables = VariablesIn(s.pins)
  OBVIOUS
<1>2. /\ s.pins \subseteq DOMAIN lib
      /\ \A k \in OfKind(s.pins, "cpt") : CptValid(lib, variables, lib[k])
      /\ \A v \in variables : lib[v].cpt \in s.pins
      /\ Acyclic(lib, variables)
      /\ ToSet(s.outputs) \subseteq variables
      /\ OfKind(s.pins, "cpt") = {lib[v].cpt : v \in variables}
  BY <1>1 DEF Executable
<1>3. QED
  BY <1>1, <1>2 DEF Compiles

LEMMA PublishCompiles ==
  ASSUME SchemesCompile, NEW d, NEW v, NEW w, Publish(d, v, w)
  PROVE  SchemesCompile'
<1>1. PICK g : g = drafts[d].content.graph
  OBVIOUS
<1>2. PICK names : names = NewNames(g)
  OBVIOUS
<1>3. PICK name : name = NewName(Len(g.candidates) + 1)
  OBVIOUS
<1>4. PICK new : new = Materialized(g, names)
  OBVIOUS
<1>5. PICK s : s = Prepared(g, names)
  OBVIOUS
<1>6. /\ library' = Extended(library, new)
      /\ schemes' = Extended(schemes, [n \in {name} |-> s])
  BY <1>1, <1>2, <1>3, <1>4, <1>5 DEF Publish, StoredVersions
<1>7. /\ DOMAIN new \cap DOMAIN library = {}
      /\ Executable(Extended(library, new), catalog \cup OfKind(DOMAIN new, "source"), s)
  BY <1>1, <1>2, <1>4, <1>5 DEF Publish, Accepted, Distinct
<1>8. Compiles(library', s)
  BY <1>6, <1>7, ExecutableCompiles
<1>9. /\ DOMAIN library \subseteq DOMAIN library'
      /\ \A k \in DOMAIN library : library'[k] = library[k]
  BY <1>6, <1>7 DEF Extended
<1>10. ASSUME NEW n \in DOMAIN schemes PROVE Compiles(library', schemes[n])
  <2>1. Compiles(library, schemes[n]) /\ schemes[n].pins \subseteq DOMAIN library
    BY DEF SchemesCompile, Compiles
  <2>2. QED
    BY <2>1, <1>9, CompilesIsLocal
<1>11. ASSUME NEW n \in DOMAIN schemes' PROVE Compiles(library', schemes'[n])
  <2>1. \/ n = name /\ schemes'[n] = s
        \/ n \in DOMAIN schemes /\ schemes'[n] = schemes[n]
    BY <1>6 DEF Extended
  <2>2. QED
    BY <2>1, <1>8, <1>10
<1>12. QED
  BY <1>11 DEF SchemesCompile

\* Every scheme in the library compiles (inference.py:315), those of the starter and those
\* published from any draft, whatever was published since.
THEOREM SchemesAlwaysCompile == Spec => []SchemesCompile
<1>1. Init => SchemesCompile
  BY StarterAssumption DEF Init, SchemesCompile
<1>2. SchemesCompile /\ [Next]_vars => SchemesCompile'
  <2>1. ASSUME library' = library, schemes' = schemes, SchemesCompile PROVE SchemesCompile'
    BY <2>1 DEF SchemesCompile
  <2>2. ASSUME SchemesCompile, NEW d, NEW v, NEW w, Publish(d, v, w) PROVE SchemesCompile'
    BY <2>2, PublishCompiles
  <2>3. QED
    BY <2>1, <2>2 DEF Next, vars, Reopen, CreateDraft, DiscardDraft, ApplyOperations, Undo, Redo
<1>3. QED
  BY <1>1, <1>2, PTL DEF Spec
-----------------------------------------------------------------------------
(* Numbers. Induction is the choice of a least counterexample.                 *)

\* A set of natural numbers has a least element.
LEMMA LeastNumber ==
  ASSUME NEW T \in SUBSET Nat, T # {}
  PROVE  \E n \in T : \A m \in T : n <= m
<1>1. PICK R : R = {ss \in Nat \X Nat : ss[1] < ss[2]}
  OBVIOUS
<1>2. IsWellFoundedOn(R, Nat)
  <2>1. OpToRel(<, Nat) = R
    BY <1>1 DEF OpToRel
  <2>2. QED
    BY <2>1, NatLessThanWellFounded
<1>3. PICK n \in T : \A m \in T : <<m, n>> \notin R
  BY <1>2, WFMin
<1>4. ASSUME NEW m \in T PROVE n <= m
  <2>1. m \in Nat /\ n \in Nat /\ <<m, n>> \in Nat \X Nat /\ <<m, n>>[1] = m /\ <<m, n>>[2] = n
    OBVIOUS
  <2>2. QED
    BY <1>1, <1>3, <2>1
<1>5. QED
  BY <1>4

\* What is so of zero, and of a number whenever of the one before, is so of all.
LEMMA AllUpTo ==
  ASSUME NEW n \in Nat, NEW T \in SUBSET (0 .. n), 0 \in T,
         \A i \in 1 .. n : i - 1 \in T => i \in T
  PROVE  T = 0 .. n
<1>1. SUFFICES ASSUME (0 .. n) \ T # {} PROVE FALSE
  OBVIOUS
<1>2. PICK k \in (0 .. n) \ T : \A m \in (0 .. n) \ T : k <= m
  <2>1. (0 .. n) \ T \in SUBSET Nat
    OBVIOUS
  <2>2. QED
    BY <1>1, <2>1, LeastNumber
<1>3. k \in 1 .. n /\ k - 1 \in 0 .. n
  OBVIOUS
<1>4. k - 1 \notin T
  BY <1>3
<1>5. QED
  BY <1>2, <1>3, <1>4
-----------------------------------------------------------------------------
(* A list of operations is applied one by one.                                 *)

AfterOne(lib, graphs, o) == UNION {Applied(lib, h, o) : h \in graphs}

\* f holds the graphs after each of the first n operations.
Applies(f, lib, g, operations, n) ==
  f[0] = {g} /\ \A i \in 1 .. n : f[i] = AfterOne(lib, f[i - 1], operations[i])

LEMMA BatchExists ==
  ASSUME NEW lib, NEW g, NEW operations, NEW n \in Nat
  PROVE  \E f : DOMAIN f = 0 .. n /\ Applies(f, lib, g, operations, n)
<1> DEFINE Defined(k) == \E f : DOMAIN f = 0 .. k /\ Applies(f, lib, g, operations, k)
           T == {k \in 0 .. n : Defined(k)}
<1>1. Defined(0)
  <2>1. PICK h : h = [i \in 0 .. 0 |-> {g}]
    OBVIOUS
  <2>2. DOMAIN h = 0 .. 0 /\ h[0] = {g}
    BY <2>1
  <2>3. QED
    BY <2>2 DEF Applies
<1>2. ASSUME NEW i \in 1 .. n, Defined(i - 1) PROVE Defined(i)
  <2>1. PICK f : DOMAIN f = 0 .. i - 1 /\ Applies(f, lib, g, operations, i - 1)
    BY <1>2
  <2>2. PICK last : last = AfterOne(lib, f[i - 1], operations[i])
    OBVIOUS
  <2>3. PICK h : h = [j \in 0 .. i |-> IF j = i THEN last ELSE f[j]]
    OBVIOUS
  <2>4. /\ DOMAIN h = 0 .. i /\ h[i] = last
        /\ \A j \in 0 .. i - 1 : h[j] = f[j]
    BY <2>3
  <2>5. ASSUME NEW j \in 1 .. i PROVE h[j] = AfterOne(lib, h[j - 1], operations[j])
    <3>1. h[j - 1] = f[j - 1]
      BY <2>4
    <3>2. CASE j = i
      BY <2>2, <2>4, <3>1, <3>2
    <3>3. CASE j # i
      <4>1. j \in 1 .. i - 1 /\ j \in 0 .. i - 1
        BY <3>3
      <4>2. QED
        BY <2>1, <2>4, <3>1, <4>1 DEF Applies
    <3>4. QED
      BY <3>2, <3>3
  <2>6. h[0] = {g}
    BY <2>1, <2>4 DEF Applies
  <2>7. QED
    BY <2>4, <2>5, <2>6 DEF Applies
<1>3. T = 0 .. n
  <2> HIDE DEF Defined
  <2>1. \A i \in 1 .. n : i - 1 \in T => i \in T
    BY <1>2
  <2>2. T \in SUBSET (0 .. n) /\ 0 \in T
    BY <1>1
  <2> HIDE DEF T
  <2>3. QED
    BY <2>1, <2>2, AllUpTo
<1>4. Defined(n)
  <2> HIDE DEF Defined
  <2>1. QED
    BY <1>3
<1>5. QED
  BY <1>4

\* The equations of the recursion in AppliedAll.
LEMMA BatchEquations ==
  ASSUME NEW lib, NEW g, NEW operations, NEW n \in Nat, n = Len(operations)
  PROVE  \E f : /\ Applies(f, lib, g, operations, n)
               /\ AppliedAll(lib, g, operations) = {h \in f[n] : Storable(h)}
<1> DEFINE Step(h) == [i \in 0 .. n |-> IF i = 0 THEN {g}
                                        ELSE UNION {Applied(lib, x, operations[i]) : x \in h[i - 1]}]
           f == CHOOSE h : h = Step(h)
<1>1. \E h : h = Step(h)
  <2>1. PICK e : DOMAIN e = 0 .. n /\ Applies(e, lib, g, operations, n)
    BY BatchExists
  <2>2. PICK h : h = [i \in 0 .. n |-> e[i]]
    OBVIOUS
  <2>3. \A i \in 0 .. n : h[i] = e[i]
    BY <2>2
  <2>4. ASSUME NEW i \in 0 .. n
        PROVE  h[i] = IF i = 0 THEN {g} ELSE UNION {Applied(lib, x, operations[i]) : x \in h[i - 1]}
    <3>1. CASE i = 0
      BY <2>1, <2>3, <3>1 DEF Applies
    <3>2. CASE i # 0
      <4>1. i \in 1 .. n /\ i - 1 \in 0 .. n
        BY <3>2
      <4>2. e[i] = AfterOne(lib, e[i - 1], operations[i])
        BY <2>1, <4>1 DEF Applies
      <4>3. QED
        BY <2>3, <4>1, <4>2, <3>2 DEF AfterOne
    <3>3. QED
      BY <3>1, <3>2
  <2>5. h = Step(h)
    BY <2>2, <2>4
  <2>6. QED
    BY <2>5
<1>2. f = Step(f)
  <2> HIDE DEF Step
  <2>1. QED
    BY <1>1
<1>3. AppliedAll(lib, g, operations) = {h \in f[n] : Storable(h)}
  BY DEF AppliedAll
<1>4. Applies(f, lib, g, operations, n)
  <2> HIDE DEF f
  <2>1. f[0] = {g}
    BY <1>2
  <2>2. ASSUME NEW i \in 1 .. n PROVE f[i] = AfterOne(lib, f[i - 1], operations[i])
    <3>1. i \in 0 .. n /\ i # 0
      OBVIOUS
    <3>2. f[i] = UNION {Applied(lib, x, operations[i]) : x \in f[i - 1]}
      BY <1>2, <3>1
    <3>3. QED
      BY <3>2 DEF AfterOne
  <2>3. QED
    BY <2>1, <2>2 DEF Applies
<1>5. QED
  <2> HIDE DEF f
  <2>1. QED
    BY <1>3, <1>4

\* A move changes positions in a candidate of the layout, and nothing else.
LEMMA MoveKeepsMeaning ==
  ASSUME NEW lib, NEW g, NEW o, o.op = "move", NEW h \in Applied(lib, g, o)
  PROVE  Meaning(h) = Meaning(g)
<1>1. h \in MoveLayout(g, o)
  BY DEF Applied
<1>2. o.key[1] = "layout"
  BY <1>1 DEF MoveLayout
<1>3. PICK i \in DOMAIN g.candidates :
        /\ g.candidates[i].key = o.key
        /\ h = [g EXCEPT !.candidates[i] =
                 [key |-> o.key, base |-> @.base, body |-> [@.body EXCEPT !.data = o.data]]]
  BY <1>1, <1>2 DEF MoveLayout, WithBody
<1>4. PICK c : c = g.candidates[i]
  OBVIOUS
<1>5. PICK e : e = [key |-> o.key, base |-> c.base, body |-> [c.body EXCEPT !.data = o.data]]
  OBVIOUS
<1>6. PICK cs : cs = [g.candidates EXCEPT ![i] = e]
  OBVIOUS
<1>7. h = [g EXCEPT !.candidates = cs]
  BY <1>3, <1>4, <1>5, <1>6
<1>8. Placeless(e) = Placeless(c)
  <2>1. [e.body EXCEPT !.data = 0] = [c.body EXCEPT !.data = 0]
    BY <1>5
  <2>2. e.key = c.key /\ e.base = c.base /\ c.key[1] = "layout"
    BY <1>2, <1>3, <1>4, <1>5
  <2>3. QED
    BY <2>1, <2>2 DEF Placeless
<1>9. [j \in DOMAIN cs |-> Placeless(cs[j])] = [j \in DOMAIN g.candidates |-> Placeless(g.candidates[j])]
  <2>1. DOMAIN cs = DOMAIN g.candidates
    BY <1>6
  <2>2. \A j \in DOMAIN cs : Placeless(cs[j]) = Placeless(g.candidates[j])
    BY <1>4, <1>6, <1>8
  <2>3. QED
    BY <2>1, <2>2
<1>10. CASE "candidates" \in DOMAIN g
  <2>1. h.candidates = cs
    BY <1>7, <1>10
  <2>2. QED
    BY <1>7, <1>9, <2>1 DEF Meaning
<1>11. CASE "candidates" \notin DOMAIN g
  <2>1. DOMAIN h = DOMAIN g /\ \A x \in DOMAIN g : h[x] = g[x]
    BY <1>7, <1>11
  <2>2. QED
    BY <2>1, <1>11 DEF Meaning
<1>12. QED
  BY <1>10, <1>11

LEMMA MovesKeepMeaning ==
  ASSUME NEW lib, NEW g, NEW operations, NEW n \in Nat, n = Len(operations),
         \A i \in 1 .. n : operations[i].op = "move",
         NEW h \in AppliedAll(lib, g, operations)
  PROVE  Meaning(h) = Meaning(g)
<1>1. PICK f : /\ Applies(f, lib, g, operations, n)
               /\ AppliedAll(lib, g, operations) = {x \in f[n] : Storable(x)}
  BY BatchEquations
<1>2. PICK T : T = {i \in 0 .. n : \A x \in f[i] : Meaning(x) = Meaning(g)}
  OBVIOUS
<1>3. 0 \in T
  BY <1>1, <1>2 DEF Applies
<1>4. ASSUME NEW i \in 1 .. n, i - 1 \in T PROVE i \in T
  <2>1. f[i] = AfterOne(lib, f[i - 1], operations[i])
    BY <1>1 DEF Applies
  <2>2. ASSUME NEW x \in f[i] PROVE Meaning(x) = Meaning(g)
    <3>1. PICK y \in f[i - 1] : x \in Applied(lib, y, operations[i])
      BY <2>1, <2>2 DEF AfterOne
    <3>2. Meaning(x) = Meaning(y)
      BY <3>1, MoveKeepsMeaning
    <3>3. Meaning(y) = Meaning(g)
      BY <1>2, <1>4
    <3>4. QED
      BY <3>2, <3>3
  <2>3. QED
    BY <1>2, <2>2
<1>5. T = 0 .. n
  BY <1>2, <1>3, <1>4, AllUpTo
<1>6. h \in f[n] /\ n \in T
  BY <1>1, <1>5
<1>7. QED
  BY <1>2, <1>6
-----------------------------------------------------------------------------
(* Drafts. A stored draft shows the snapshot at its cursor, and the transition *)
(* between two snapshots says whether their meaning may differ.                *)

Fields == {"base", "content", "graphVersion", "layoutVersion", "cursor", "snapshots", "transitions"}

AChange == [graph : BOOLEAN, layout : BOOLEAN]

Tells(change, c, e) ==
  /\ change.graph \/ change.layout
  /\ change.graph \/ Meaning(c.graph) = Meaning(e.graph)

DraftSound(r) ==
  /\ DOMAIN r = Fields
  /\ r.graphVersion \in Nat /\ r.layoutVersion \in Nat
  /\ r.snapshots \in Seq(ToSet(r.snapshots)) /\ r.transitions \in Seq(AChange)
  /\ Len(r.snapshots) = Len(r.transitions) + 1
  /\ r.cursor \in 0 .. Len(r.transitions)
  /\ r.content = r.snapshots[r.cursor + 1]
  /\ \A i \in 1 .. Len(r.transitions) : Tells(r.transitions[i], r.snapshots[i], r.snapshots[i + 1])

DraftInvariant == \A d \in Stored : DraftSound(drafts[d]) /\ drafts[d].base \in DOMAIN schemes

LEMMA OwnElements ==
  ASSUME NEW S, NEW q \in Seq(S)
  PROVE  q \in Seq(ToSet(q))
<1>1. Len(q) \in Nat /\ q = [i \in 1 .. Len(q) |-> q[i]] /\ DOMAIN q = 1 .. Len(q)
  OBVIOUS
<1>2. \A i \in 1 .. Len(q) : q[i] \in ToSet(q)
  BY <1>1 DEF ToSet
<1>3. QED
  BY <1>1, <1>2

LEMMA SameSequence ==
  ASSUME NEW S, NEW p \in Seq(S), NEW q \in Seq(S), Len(p) = Len(q),
         \A i \in 1 .. Len(p) : p[i] = q[i]
  PROVE  p = q
<1>1. /\ p = [i \in 1 .. Len(p) |-> p[i]]
      /\ q = [i \in 1 .. Len(q) |-> q[i]]
  OBVIOUS
<1>2. QED
  BY <1>1

\* The first k elements of a history, with a new one after them.
Branched(q, k, e) == Append(SubSeq(q, 1, k), e)

\* What a transition does to the versions.
Raises(r, s, change) ==
  /\ s.graphVersion = IF change.graph THEN r.graphVersion + 1 ELSE r.graphVersion
  /\ s.layoutVersion = IF change.layout THEN r.layoutVersion + 1 ELSE r.layoutVersion

LEMMA BumpFacts ==
  ASSUME NEW r, DraftSound(r), NEW change \in AChange
  PROVE  LET s == Bump(r, change) IN
         /\ DOMAIN s = Fields /\ Raises(r, s, change)
         /\ s.graphVersion \in Nat /\ s.layoutVersion \in Nat
         /\ s.base = r.base /\ s.content = r.content /\ s.cursor = r.cursor
         /\ s.snapshots = r.snapshots /\ s.transitions = r.transitions
BY DEF Bump, DraftSound, Fields, Raises, AChange

LEMMA SavedFields ==
  ASSUME NEW r, DraftSound(r), NEW c, NEW change \in AChange
  PROVE  LET s == Saved(r, c, change) IN
         /\ DOMAIN s = Fields /\ Raises(r, s, change)
         /\ s.graphVersion \in Nat /\ s.layoutVersion \in Nat
         /\ s.base = r.base /\ s.content = c /\ s.cursor = r.cursor + 1
         /\ s.snapshots = Branched(r.snapshots, r.cursor + 1, c)
         /\ s.transitions = Branched(r.transitions, r.cursor, change)
<1>1. PICK n : n = Bump(r, change)
  OBVIOUS
<1>2. /\ DOMAIN n = Fields /\ Raises(r, n, change)
      /\ n.graphVersion \in Nat /\ n.layoutVersion \in Nat
      /\ n.base = r.base /\ n.content = r.content /\ n.cursor = r.cursor
      /\ n.snapshots = r.snapshots /\ n.transitions = r.transitions
  BY <1>1, BumpFacts
<1>3. PICK snapshots : snapshots = Branched(r.snapshots, r.cursor + 1, c)
  OBVIOUS
<1>4. PICK transitions : transitions = Branched(r.transitions, r.cursor, change)
  OBVIOUS
<1>5. PICK k : k = r.cursor + 1
  OBVIOUS
<1>6. PICK s : s = [n EXCEPT !.content = c, !.cursor = k, !.snapshots = snapshots, !.transitions = transitions]
  OBVIOUS
<1>7. Saved(r, c, change) = s
  BY <1>1, <1>2, <1>3, <1>4, <1>5, <1>6 DEF Saved, Branched
<1>8. /\ DOMAIN s = Fields
      /\ s.graphVersion = n.graphVersion /\ s.layoutVersion = n.layoutVersion /\ s.base = n.base
      /\ s.content = c /\ s.cursor = k /\ s.snapshots = snapshots /\ s.transitions = transitions
  BY <1>2, <1>6 DEF Fields
<1>9. Raises(r, s, change)
  BY <1>2, <1>8 DEF Raises
<1>10. QED
  BY <1>2, <1>3, <1>4, <1>5, <1>7, <1>8, <1>9

LEMMA TravelledFields ==
  ASSUME NEW r, DraftSound(r), NEW cursor, NEW change \in AChange
  PROVE  LET s == Travelled(r, cursor, change) IN
         /\ DOMAIN s = Fields /\ Raises(r, s, change)
         /\ s.graphVersion \in Nat /\ s.layoutVersion \in Nat
         /\ s.base = r.base /\ s.content = r.snapshots[cursor + 1] /\ s.cursor = cursor
         /\ s.snapshots = r.snapshots /\ s.transitions = r.transitions
<1>1. PICK n : n = Bump(r, change)
  OBVIOUS
<1>2. /\ DOMAIN n = Fields /\ Raises(r, n, change)
      /\ n.graphVersion \in Nat /\ n.layoutVersion \in Nat
      /\ n.base = r.base /\ n.content = r.content /\ n.cursor = r.cursor
      /\ n.snapshots = r.snapshots /\ n.transitions = r.transitions
  BY <1>1, BumpFacts
<1>3. PICK c : c = r.snapshots[cursor + 1]
  OBVIOUS
<1>4. PICK s : s = [n EXCEPT !.content = c, !.cursor = cursor]
  OBVIOUS
<1>5. Travelled(r, cursor, change) = s
  BY <1>1, <1>3, <1>4 DEF Travelled
<1>6. /\ DOMAIN s = Fields
      /\ s.graphVersion = n.graphVersion /\ s.layoutVersion = n.layoutVersion /\ s.base = n.base
      /\ s.content = c /\ s.cursor = cursor /\ s.snapshots = n.snapshots /\ s.transitions = n.transitions
  BY <1>2, <1>4 DEF Fields
<1>7. Raises(r, s, change)
  BY <1>2, <1>6 DEF Raises
<1>8. QED
  BY <1>2, <1>3, <1>5, <1>6, <1>7

\* A branch of the history is cut and another one grown.
LEMMA Regrown ==
  ASSUME NEW S, NEW q \in Seq(S), NEW k \in 0 .. Len(q), NEW e \in S
  PROVE  LET p == Branched(q, k, e) IN
         /\ p \in Seq(S) /\ Len(p) = k + 1 /\ p[k + 1] = e
         /\ \A i \in 1 .. k : p[i] = q[i]
<1>1. PICK h : h = SubSeq(q, 1, k)
  OBVIOUS
<1>2. h \in Seq(S) /\ Len(h) = k /\ \A i \in 1 .. k : h[i] = q[i]
  BY <1>1
<1>3. QED
  BY <1>1, <1>2 DEF Branched

LEMMA SavedIsSound ==
  ASSUME NEW r, DraftSound(r), NEW c, NEW change \in AChange, Tells(change, r.content, c)
  PROVE  DraftSound(Saved(r, c, change))
<1>1. PICK s : s = Saved(r, c, change)
  OBVIOUS
<1>2. PICK S : S = ToSet(r.snapshots) \cup {c}
  OBVIOUS
<1>3. PICK k : k = r.cursor
  OBVIOUS
<1>4. PICK n : n = Len(r.transitions)
  OBVIOUS
<1>5. PICK q : q = r.snapshots
  OBVIOUS
<1>6. PICK t : t = r.transitions
  OBVIOUS
<1>7. /\ n \in Nat /\ k \in 0 .. n /\ q \in Seq(ToSet(q)) /\ t \in Seq(AChange)
      /\ Len(q) = n + 1 /\ Len(t) = n /\ r.content = q[k + 1]
      /\ \A i \in 1 .. n : Tells(t[i], q[i], q[i + 1])
  BY <1>3, <1>4, <1>5, <1>6 DEF DraftSound
<1>8. q \in Seq(S) /\ c \in S
  BY <1>2, <1>5, <1>7
<1>9. /\ DOMAIN s = Fields /\ s.graphVersion \in Nat /\ s.layoutVersion \in Nat
      /\ s.content = c /\ s.cursor = k + 1
      /\ s.snapshots = Branched(q, k + 1, c)
      /\ s.transitions = Branched(t, k, change)
  BY <1>1, <1>3, <1>5, <1>6, SavedFields
<1>10. k \in 0 .. Len(t) /\ k + 1 \in 0 .. Len(q)
  BY <1>7
<1>11. /\ s.snapshots \in Seq(S) /\ Len(s.snapshots) = k + 2 /\ s.snapshots[k + 2] = c
       /\ \A i \in 1 .. k + 1 : s.snapshots[i] = q[i]
  <2>1. PICK m : m = k + 1
    OBVIOUS
  <2>2. PICK p : p = Branched(q, m, c)
    OBVIOUS
  <2>3. m \in 0 .. Len(q) /\ m + 1 = k + 2
    BY <1>7, <2>1
  <2>4. p \in Seq(S) /\ Len(p) = m + 1 /\ p[m + 1] = c /\ \A i \in 1 .. m : p[i] = q[i]
    BY <1>8, <2>2, <2>3, Regrown
  <2>5. s.snapshots = p
    BY <1>9, <2>1, <2>2
  <2>6. QED
    BY <2>1, <2>3, <2>4, <2>5
<1>12. /\ s.transitions \in Seq(AChange) /\ Len(s.transitions) = k + 1 /\ s.transitions[k + 1] = change
       /\ \A i \in 1 .. k : s.transitions[i] = t[i]
  <2>1. PICK p : p = Branched(t, k, change)
    OBVIOUS
  <2>2. p \in Seq(AChange) /\ Len(p) = k + 1 /\ p[k + 1] = change /\ \A i \in 1 .. k : p[i] = t[i]
    <3>1. PICK C : C = AChange
      OBVIOUS
    <3>2. t \in Seq(C) /\ k \in 0 .. Len(t) /\ change \in C
      BY <1>7, <1>10, <3>1
    <3>3. p \in Seq(C) /\ Len(p) = k + 1 /\ p[k + 1] = change /\ \A i \in 1 .. k : p[i] = t[i]
      BY <2>1, <3>2, Regrown
    <3>4. QED
      BY <3>1, <3>3
  <2>3. s.transitions = p
    BY <1>9, <2>1
  <2>4. QED
    BY <2>2, <2>3
<1>13. ASSUME NEW i \in 1 .. k + 1 PROVE Tells(s.transitions[i], s.snapshots[i], s.snapshots[i + 1])
  <2>1. CASE i = k + 1
    <3>1. s.transitions[i] = change /\ s.snapshots[i + 1] = c /\ s.snapshots[i] = r.content
      BY <1>7, <1>11, <1>12, <2>1
    <3>2. QED
      BY <3>1
  <2>2. CASE i # k + 1
    <3>1. i \in 1 .. k /\ i \in 1 .. n /\ i \in 1 .. k + 1 /\ i + 1 \in 1 .. k + 1
      BY <1>7, <2>2
    <3>2. s.transitions[i] = t[i] /\ s.snapshots[i + 1] = q[i + 1] /\ s.snapshots[i] = q[i]
      BY <3>1, <1>11, <1>12
    <3>3. QED
      BY <1>7, <3>1, <3>2
  <2>3. QED
    BY <2>1, <2>2
<1>14. s.snapshots \in Seq(ToSet(s.snapshots))
  BY <1>11, OwnElements
<1>15. s.cursor \in 0 .. Len(s.transitions) /\ s.content = s.snapshots[s.cursor + 1]
  <2>1. k + 1 \in 0 .. k + 1 /\ (k + 1) + 1 = k + 2
    BY <1>7
  <2>2. s.snapshots[s.cursor + 1] = s.snapshots[k + 2]
    BY <1>9, <2>1
  <2>3. QED
    BY <1>9, <1>11, <1>12, <2>1, <2>2
<1>16. Len(s.snapshots) = Len(s.transitions) + 1
  <2>1. k + 2 = (k + 1) + 1
    BY <1>7
  <2>2. QED
    BY <1>11, <1>12, <2>1
<1>17. DraftSound(s)
  BY <1>7, <1>9, <1>12, <1>13, <1>14, <1>15, <1>16 DEF DraftSound
<1>18. QED
  BY <1>1, <1>17

LEMMA TravelledIsSound ==
  ASSUME NEW r, DraftSound(r), NEW cursor \in 0 .. Len(r.transitions), NEW change \in AChange
  PROVE  DraftSound(Travelled(r, cursor, change))
<1>1. PICK s : s = Travelled(r, cursor, change)
  OBVIOUS
<1>2. /\ DOMAIN s = Fields /\ s.graphVersion \in Nat /\ s.layoutVersion \in Nat
      /\ s.content = r.snapshots[cursor + 1] /\ s.cursor = cursor
      /\ s.snapshots = r.snapshots /\ s.transitions = r.transitions
  BY <1>1, TravelledFields
<1>3. DraftSound(s)
  BY <1>2 DEF DraftSound
<1>4. QED
  BY <1>1, <1>3

\* A history of one snapshot.
LEMMA FreshIsSound ==
  ASSUME NEW s, NEW c, DOMAIN s = Fields, s.graphVersion \in Nat, s.layoutVersion \in Nat,
         s.content = c, s.cursor = 0, s.snapshots = <<c>>, s.transitions = <<>>
  PROVE  DraftSound(s)
<1>1. <<c>> \in Seq({c}) /\ Len(<<c>>) = 1 /\ <<c>>[1] = c
  OBVIOUS
<1>2. s.snapshots \in Seq(ToSet(s.snapshots))
  BY <1>1, OwnElements
<1>3. <<>> \in Seq(AChange) /\ Len(<<>>) = 0
  OBVIOUS
<1>4. s.transitions \in Seq(AChange) /\ Len(s.transitions) = 0
  BY <1>3
<1>5. Len(s.snapshots) = 1 /\ s.snapshots[1] = c
  BY <1>1
<1>6. Len(s.snapshots) = Len(s.transitions) + 1 /\ s.cursor \in 0 .. Len(s.transitions)
  BY <1>4, <1>5
<1>7. s.content = s.snapshots[s.cursor + 1]
  <2>1. s.cursor + 1 = 1
    OBVIOUS
  <2>2. QED
    BY <1>5, <2>1
<1>8. \A i \in 1 .. Len(s.transitions) : Tells(s.transitions[i], s.snapshots[i], s.snapshots[i + 1])
  <2>1. 1 .. Len(s.transitions) = {}
    BY <1>4
  <2>2. QED
    BY <2>1
<1>9. QED
  BY <1>2, <1>4, <1>6, <1>7, <1>8 DEF DraftSound

LEMMA CreateFacts ==
  ASSUME NEW d, NEW name \in DOMAIN schemes, CreateDraft(d, name)
  PROVE  \E s, c :
           /\ d \notin Stored /\ Stored' = Stored \cup {d}
           /\ drafts'[d] = s /\ \A e \in Stored : drafts'[e] = drafts[e]
           /\ schemes' = schemes
           /\ DraftSound(s) /\ s.base = name
           /\ s.content = c /\ s.cursor = 0 /\ s.snapshots = <<c>>
<1>1. PICK c : c = Content(library, GraphOf(library, schemes[name]))
  OBVIOUS
<1>2. PICK s : s = [base |-> name, content |-> c, graphVersion |-> 0, layoutVersion |-> 0,
                    cursor |-> 0, snapshots |-> <<c>>, transitions |-> <<>>]
  OBVIOUS
<1>3. d \notin Stored /\ drafts' = Extended(drafts, [e \in {d} |-> s]) /\ schemes' = schemes
  BY <1>1, <1>2 DEF CreateDraft
<1>4. Stored' = Stored \cup {d} /\ drafts'[d] = s /\ \A e \in Stored : drafts'[e] = drafts[e]
  BY <1>3 DEF Extended, Stored
<1>5. /\ DOMAIN s = Fields /\ s.graphVersion = 0 /\ s.layoutVersion = 0 /\ s.base = name
      /\ s.content = c /\ s.cursor = 0 /\ s.snapshots = <<c>> /\ s.transitions = <<>>
  BY <1>2 DEF Fields
<1>6. DraftSound(s)
  BY <1>5, FreshIsSound
<1>7. QED
  BY <1>3, <1>4, <1>5, <1>6

LEMMA DiscardFacts ==
  ASSUME NEW d, DiscardDraft(d)
  PROVE  /\ d \in Stored /\ Stored' = Stored \ {d} /\ schemes' = schemes
         /\ \A e \in Stored \ {d} : drafts'[e] = drafts[e]
BY DEF DiscardDraft, Stored

\* One draft of those that are stored becomes s.
Becomes(d, s) == Stored' = Stored /\ drafts'[d] = s /\ \A e \in Stored \ {d} : drafts'[e] = drafts[e]

LEMMA ExceptBecomes ==
  ASSUME NEW d \in Stored, NEW s, drafts' = [drafts EXCEPT ![d] = s]
  PROVE  Becomes(d, s)
BY DEF Becomes, Stored

LEMMA ApplyFacts ==
  ASSUME NEW d, NEW operations, NEW v, NEW w, ApplyOperations(d, operations, v, w)
  PROVE  /\ d \in Stored /\ schemes' = schemes
         /\ \E change \in AChange : \E c :
              /\ Becomes(d, Saved(drafts[d], c, change))
              /\ Tells(change, drafts[d].content, c)
<1>1. PICK r : r = drafts[d]
  OBVIOUS
<1>2. PICK n : n = Len(operations)
  OBVIOUS
<1>3. PICK change : change = Changes(operations)
  OBVIOUS
<1>4. d \in Stored /\ n \in Nat \ {0} /\ schemes' = schemes
  BY <1>2 DEF ApplyOperations
<1>5. PICK g \in AppliedAll(library, r.content.graph, operations) :
        drafts' = [drafts EXCEPT ![d] = Saved(r, Content(library, g), change)]
  BY <1>1, <1>3 DEF ApplyOperations
<1>6. PICK c : c = Content(library, g)
  OBVIOUS
<1>7. change \in AChange
  BY <1>3 DEF Changes, AChange
<1>8. change.graph \/ change.layout
  <2>1. 1 \in 1 .. n
    BY <1>4
  <2>2. QED
    BY <1>2, <1>3, <2>1 DEF Changes
<1>9. ASSUME ~change.graph PROVE Meaning(r.content.graph) = Meaning(c.graph)
  <2>1. \A i \in 1 .. n : operations[i].op = "move"
    BY <1>2, <1>3, <1>9 DEF Changes
  <2>2. c.graph = g
    BY <1>6 DEF Content
  <2>3. n \in Nat
    BY <1>4
  <2>4. PICK lib : lib = library
    OBVIOUS
  <2>5. PICK old : old = r.content.graph
    OBVIOUS
  <2>6. Meaning(g) = Meaning(old)
    BY <1>2, <1>5, <2>1, <2>3, <2>4, <2>5, MovesKeepMeaning
  <2>7. QED
    BY <2>2, <2>5, <2>6
<1>10. Becomes(d, Saved(r, c, change))
  BY <1>4, <1>5, <1>6, ExceptBecomes
<1>11. Tells(change, r.content, c)
  BY <1>8, <1>9 DEF Tells
<1>12. QED
  BY <1>1, <1>4, <1>7, <1>10, <1>11

LEMMA UndoFacts ==
  ASSUME NEW d, NEW v, NEW w, Undo(d, v, w)
  PROVE  /\ d \in Stored /\ schemes' = schemes /\ drafts[d].cursor > 0
         /\ Becomes(d, Travelled(drafts[d], drafts[d].cursor - 1, drafts[d].transitions[drafts[d].cursor]))
BY ExceptBecomes DEF Undo, Expected

LEMMA RedoFacts ==
  ASSUME NEW d, NEW v, NEW w, Redo(d, v, w)
  PROVE  /\ d \in Stored /\ schemes' = schemes /\ drafts[d].cursor + 1 < Len(drafts[d].snapshots)
         /\ Becomes(d, Travelled(drafts[d], drafts[d].cursor + 1, drafts[d].transitions[drafts[d].cursor + 1]))
BY ExceptBecomes DEF Redo, Expected

LEMMA PublishFacts ==
  ASSUME NEW d, NEW v, NEW w, Publish(d, v, w), DraftInvariant
  PROVE  \E name, s, c :
           /\ d \in Stored /\ name \notin DOMAIN schemes /\ DOMAIN schemes' = DOMAIN schemes \cup {name}
           /\ Becomes(d, s) /\ DraftSound(s) /\ s.base = name
           /\ s.content = c /\ s.cursor = 0 /\ s.snapshots = <<c>>
<1>1. PICK r : r = drafts[d]
  OBVIOUS
<1>2. PICK name, c, p :
        /\ name \notin DOMAIN schemes /\ schemes' = Extended(schemes, [n \in {name} |-> p])
        /\ drafts' = [drafts EXCEPT ![d] = [r EXCEPT !.base = name, !.content = c, !.cursor = 0,
                                                     !.snapshots = <<c>>, !.transitions = <<>>]]
  BY <1>1 DEF Publish
<1>3. d \in Stored
  BY DEF Publish, Expected
<1>4. DraftSound(r)
  BY <1>1, <1>3 DEF DraftInvariant
<1>5. PICK s : s = [r EXCEPT !.base = name, !.content = c, !.cursor = 0,
                             !.snapshots = <<c>>, !.transitions = <<>>]
  OBVIOUS
<1>6. DOMAIN r = Fields /\ r.graphVersion \in Nat /\ r.layoutVersion \in Nat
  BY <1>4 DEF DraftSound
<1>7. /\ DOMAIN s = Fields /\ s.graphVersion \in Nat /\ s.layoutVersion \in Nat /\ s.base = name
      /\ s.content = c /\ s.cursor = 0 /\ s.snapshots = <<c>> /\ s.transitions = <<>>
  BY <1>5, <1>6 DEF Fields
<1>8. DraftSound(s)
  BY <1>7, FreshIsSound
<1>9. Becomes(d, s)
  BY <1>2, <1>3, <1>5, ExceptBecomes
<1>10. DOMAIN schemes' = DOMAIN schemes \cup {name}
  BY <1>2 DEF Extended
<1>11. QED
  BY <1>2, <1>3, <1>7, <1>8, <1>9, <1>10
-----------------------------------------------------------------------------
(* Every stored draft is sound.                                                *)

LEMMA BecomingKeeps ==
  ASSUME DraftInvariant, NEW d \in Stored, NEW s, Becomes(d, s), DraftSound(s),
         s.base \in DOMAIN schemes', DOMAIN schemes \subseteq DOMAIN schemes'
  PROVE  DraftInvariant'
<1>1. ASSUME NEW e \in Stored' PROVE DraftSound(drafts'[e]) /\ drafts'[e].base \in DOMAIN schemes'
  <2>1. CASE e = d
    BY <2>1 DEF Becomes
  <2>2. CASE e # d
    <3>1. e \in Stored /\ drafts'[e] = drafts[e]
      BY <1>1, <2>2 DEF Becomes
    <3>2. QED
      BY <3>1 DEF DraftInvariant
  <2>3. QED
    BY <2>1, <2>2
<1>2. QED
  BY <1>1 DEF DraftInvariant

\* The transition that undo or redo takes.
LEMMA TransitionTaken ==
  ASSUME NEW r, DraftSound(r), NEW i \in 1 .. Len(r.transitions)
  PROVE  /\ r.transitions[i] \in AChange
         /\ Tells(r.transitions[i], r.snapshots[i], r.snapshots[i + 1])
BY DEF DraftSound

LEMMA CursorRange ==
  ASSUME NEW r, DraftSound(r)
  PROVE  /\ r.cursor \in Nat /\ Len(r.transitions) \in Nat
         /\ r.cursor > 0 => r.cursor \in 1 .. Len(r.transitions) /\ r.cursor - 1 \in 0 .. Len(r.transitions)
         /\ r.cursor + 1 < Len(r.snapshots) => r.cursor + 1 \in 1 .. Len(r.transitions)
BY DEF DraftSound

LEMMA SoundStep ==
  ASSUME DraftInvariant, [Next]_vars
  PROVE  DraftInvariant'
<1>1. ASSUME drafts' = drafts, schemes' = schemes PROVE DraftInvariant'
  BY <1>1 DEF DraftInvariant, Stored
<1>2. ASSUME NEW d, NEW name \in DOMAIN schemes, CreateDraft(d, name) PROVE DraftInvariant'
  <2>1. PICK s, c : /\ d \notin Stored /\ Stored' = Stored \cup {d}
                    /\ drafts'[d] = s /\ \A e \in Stored : drafts'[e] = drafts[e]
                    /\ schemes' = schemes
                    /\ DraftSound(s) /\ s.base = name
                    /\ s.content = c /\ s.cursor = 0 /\ s.snapshots = <<c>>
    BY <1>2, CreateFacts
  <2>2. ASSUME NEW e \in Stored' PROVE DraftSound(drafts'[e]) /\ drafts'[e].base \in DOMAIN schemes'
    <3>1. CASE e = d
      BY <2>1, <3>1
    <3>2. CASE e # d
      BY <2>1, <2>2, <3>2 DEF DraftInvariant
    <3>3. QED
      BY <3>1, <3>2
  <2>3. QED
    BY <2>2 DEF DraftInvariant
<1>3. ASSUME NEW d, DiscardDraft(d) PROVE DraftInvariant'
  BY <1>3, DiscardFacts DEF DraftInvariant
<1>4. ASSUME NEW d, NEW operations, NEW v, NEW w, ApplyOperations(d, operations, v, w) PROVE DraftInvariant'
  <2>1. d \in Stored /\ schemes' = schemes
    BY <1>4, ApplyFacts
  <2>2. PICK change \in AChange : \E c : /\ Becomes(d, Saved(drafts[d], c, change))
                                        /\ Tells(change, drafts[d].content, c)
    BY <1>4, ApplyFacts
  <2>3. PICK c : Becomes(d, Saved(drafts[d], c, change)) /\ Tells(change, drafts[d].content, c)
    BY <2>2
  <2>4. PICK r : r = drafts[d]
    OBVIOUS
  <2>5. DraftSound(r) /\ r.base \in DOMAIN schemes
    BY <2>1, <2>4 DEF DraftInvariant
  <2>6. PICK s : s = Saved(r, c, change)
    OBVIOUS
  <2>7. DraftSound(s)
    BY <2>3, <2>4, <2>5, <2>6, SavedIsSound
  <2>8. s.base = r.base
    BY <2>5, <2>6, SavedFields
  <2>9. QED
    BY <2>1, <2>3, <2>4, <2>5, <2>6, <2>7, <2>8, BecomingKeeps
<1>5. ASSUME NEW d \in Stored, NEW i \in 1 .. Len(drafts[d].transitions), NEW k \in 0 .. Len(drafts[d].transitions),
             Becomes(d, Travelled(drafts[d], k, drafts[d].transitions[i])), schemes' = schemes
      PROVE  DraftInvariant'
  <2>1. PICK r : r = drafts[d]
    OBVIOUS
  <2>2. DraftSound(r) /\ r.base \in DOMAIN schemes
    BY <2>1 DEF DraftInvariant
  <2>3. PICK change : change = r.transitions[i]
    OBVIOUS
  <2>4. change \in AChange
    BY <1>5, <2>1, <2>2, <2>3, TransitionTaken
  <2>5. PICK s : s = Travelled(r, k, change)
    OBVIOUS
  <2>6. k \in 0 .. Len(r.transitions)
    BY <2>1
  <2>7. DraftSound(s)
    BY <2>2, <2>4, <2>5, <2>6, TravelledIsSound
  <2>8. s.base = r.base
    BY <2>2, <2>4, <2>5, TravelledFields
  <2>9. QED
    BY <1>5, <2>1, <2>2, <2>3, <2>5, <2>7, <2>8, BecomingKeeps
<1>6. ASSUME NEW d, NEW v, NEW w, Undo(d, v, w) PROVE DraftInvariant'
  <2>1. /\ d \in Stored /\ schemes' = schemes /\ drafts[d].cursor > 0
        /\ Becomes(d, Travelled(drafts[d], drafts[d].cursor - 1, drafts[d].transitions[drafts[d].cursor]))
    BY <1>6, UndoFacts
  <2>2. DraftSound(drafts[d])
    BY <2>1 DEF DraftInvariant
  <2>3. /\ drafts[d].cursor \in 1 .. Len(drafts[d].transitions)
        /\ drafts[d].cursor - 1 \in 0 .. Len(drafts[d].transitions)
    BY <2>1, <2>2, CursorRange
  <2>4. QED
    BY <1>5, <2>1, <2>3
<1>7. ASSUME NEW d, NEW v, NEW w, Redo(d, v, w) PROVE DraftInvariant'
  <2>1. /\ d \in Stored /\ schemes' = schemes /\ drafts[d].cursor + 1 < Len(drafts[d].snapshots)
        /\ Becomes(d, Travelled(drafts[d], drafts[d].cursor + 1, drafts[d].transitions[drafts[d].cursor + 1]))
    BY <1>7, RedoFacts
  <2>2. DraftSound(drafts[d])
    BY <2>1 DEF DraftInvariant
  <2>3. drafts[d].cursor + 1 \in 1 .. Len(drafts[d].transitions)
    BY <2>1, <2>2, CursorRange
  <2>4. drafts[d].cursor + 1 \in 0 .. Len(drafts[d].transitions)
    BY <2>3
  <2>5. QED
    BY <1>5, <2>1, <2>3, <2>4
<1>8. ASSUME NEW d, NEW v, NEW w, Publish(d, v, w) PROVE DraftInvariant'
  <2>1. PICK name, s, c :
          /\ d \in Stored /\ name \notin DOMAIN schemes /\ DOMAIN schemes' = DOMAIN schemes \cup {name}
          /\ Becomes(d, s) /\ DraftSound(s) /\ s.base = name
          /\ s.content = c /\ s.cursor = 0 /\ s.snapshots = <<c>>
    BY <1>8, PublishFacts
  <2>2. QED
    BY <2>1, BecomingKeeps
<1>9. CASE UNCHANGED vars
  BY <1>1, <1>9 DEF vars
<1>10. CASE Next
  BY <1>1, <1>2, <1>3, <1>4, <1>6, <1>7, <1>8, <1>10 DEF Next, Reopen
<1>11. QED
  BY <1>9, <1>10

\* The inductive invariant of drafts: what a draft shows is the snapshot at its cursor, and
\* each transition tells whether the snapshots beside it may differ in meaning.
THEOREM DraftInvariance == Spec => []DraftInvariant
<1>1. Init => DraftInvariant
  BY DEF Init, DraftInvariant, Stored
<1>2. DraftInvariant /\ [Next]_vars => DraftInvariant'
  BY SoundStep
<1>3. QED
  BY <1>1, <1>2, PTL DEF Spec
-----------------------------------------------------------------------------
(* Versions.                                                                   *)

\* What VersionsTellContents asks of one step of a draft.
VersionsTell(r, s) ==
  /\ s.graphVersion >= r.graphVersion /\ s.layoutVersion >= r.layoutVersion
  /\ Meaning(s.content.graph) # Meaning(r.content.graph) => s.graphVersion > r.graphVersion
  /\ s.content # r.content /\ s.graphVersion = r.graphVersion => s.layoutVersion > r.layoutVersion

LEMMA RaisedTells ==
  ASSUME NEW r, DraftSound(r), NEW s, NEW change \in AChange, Raises(r, s, change),
         change.graph \/ change.layout,
         change.graph \/ Meaning(r.content.graph) = Meaning(s.content.graph)
  PROVE  VersionsTell(r, s)
<1>1. r.graphVersion \in Nat /\ r.layoutVersion \in Nat
  BY DEF DraftSound
<1>2. CASE change.graph
  <2>1. s.graphVersion = r.graphVersion + 1
    BY <1>2 DEF Raises
  <2>2. s.layoutVersion = r.layoutVersion + 1 \/ s.layoutVersion = r.layoutVersion
    BY DEF Raises
  <2>3. QED
    BY <1>1, <2>1, <2>2 DEF VersionsTell
<1>3. CASE ~change.graph
  <2>1. s.graphVersion = r.graphVersion /\ s.layoutVersion = r.layoutVersion + 1
    BY <1>3 DEF Raises
  <2>2. Meaning(r.content.graph) = Meaning(s.content.graph)
    BY <1>3
  <2>3. QED
    BY <1>1, <2>1, <2>2 DEF VersionsTell
<1>4. QED
  BY <1>2, <1>3

LEMMA SavedTells ==
  ASSUME NEW r, DraftSound(r), NEW c, NEW change \in AChange, Tells(change, r.content, c)
  PROVE  VersionsTell(r, Saved(r, c, change))
<1>1. PICK s : s = Saved(r, c, change)
  OBVIOUS
<1>2. Raises(r, s, change) /\ s.content = c
  BY <1>1, SavedFields
<1>3. VersionsTell(r, s)
  BY <1>2, RaisedTells DEF Tells
<1>4. QED
  BY <1>1, <1>3

\* Undo and redo show the snapshot on the other side of the transition they take.
LEMMA TravelledTells ==
  ASSUME NEW r, DraftSound(r), NEW i \in 1 .. Len(r.transitions), NEW k,
         (r.cursor = i /\ k = i - 1) \/ (r.cursor = i - 1 /\ k = i)
  PROVE  VersionsTell(r, Travelled(r, k, r.transitions[i]))
<1>1. PICK change : change = r.transitions[i]
  OBVIOUS
<1>2. change \in AChange /\ Tells(change, r.snapshots[i], r.snapshots[i + 1])
  BY <1>1, TransitionTaken
<1>3. PICK s : s = Travelled(r, k, change)
  OBVIOUS
<1>4. Raises(r, s, change) /\ s.content = r.snapshots[k + 1]
  BY <1>2, <1>3, TravelledFields
<1>5. r.content = r.snapshots[r.cursor + 1]
  BY DEF DraftSound
<1>6. i \in Nat /\ (i - 1) + 1 = i
  <2>1. Len(r.transitions) \in Nat
    BY CursorRange
  <2>2. QED
    BY <2>1
<1>7. change.graph \/ Meaning(r.content.graph) = Meaning(s.content.graph)
  <2>1. CASE r.cursor = i /\ k = i - 1
    <3>1. r.content = r.snapshots[i + 1] /\ s.content = r.snapshots[i]
      BY <1>4, <1>5, <1>6, <2>1
    <3>2. QED
      BY <1>2, <3>1 DEF Tells
  <2>2. CASE r.cursor = i - 1 /\ k = i
    <3>1. r.content = r.snapshots[i] /\ s.content = r.snapshots[i + 1]
      BY <1>4, <1>5, <1>6, <2>2
    <3>2. QED
      BY <1>2, <3>1 DEF Tells
  <2>3. QED
    BY <2>1, <2>2
<1>8. VersionsTell(r, s)
  BY <1>2, <1>4, <1>7, RaisedTells DEF Tells
<1>9. QED
  BY <1>1, <1>3, <1>8

LEMMA SameTells ==
  ASSUME NEW r, DraftSound(r)
  PROVE  VersionsTell(r, r)
BY DEF VersionsTell, DraftSound

LEMMA BecomingTells ==
  ASSUME DraftInvariant, NEW d \in Stored, NEW s, Becomes(d, s), VersionsTell(drafts[d], s)
  PROVE  \A e \in Stored : VersionsTell(drafts[e], drafts'[e])
<1>1. ASSUME NEW e \in Stored PROVE VersionsTell(drafts[e], drafts'[e])
  <2>1. CASE e = d
    BY <2>1 DEF Becomes
  <2>2. CASE e # d
    <3>1. drafts'[e] = drafts[e]
      BY <2>2 DEF Becomes
    <3>2. PICK r : r = drafts[e]
      OBVIOUS
    <3>3. DraftSound(r)
      BY <3>2 DEF DraftInvariant
    <3>4. QED
      BY <3>1, <3>2, <3>3, SameTells
  <2>3. QED
    BY <2>1, <2>2
<1>2. QED
  BY <1>1

LEMMA VersionsStep ==
  ASSUME DraftInvariant, [Next]_vars, schemes' = schemes
  PROVE  \A e \in Stored \cap Stored' : VersionsTell(drafts[e], drafts'[e])
<1>1. ASSUME NEW e \in Stored, drafts'[e] = drafts[e] PROVE VersionsTell(drafts[e], drafts'[e])
  <2>1. PICK r : r = drafts[e]
    OBVIOUS
  <2>2. DraftSound(r)
    BY <2>1 DEF DraftInvariant
  <2>3. QED
    BY <1>1, <2>1, <2>2, SameTells
<1>2. ASSUME NEW d, NEW name \in DOMAIN schemes, CreateDraft(d, name)
      PROVE  \A e \in Stored \cap Stored' : VersionsTell(drafts[e], drafts'[e])
  <2>1. \A e \in Stored : drafts'[e] = drafts[e]
    BY <1>2, CreateFacts
  <2>2. QED
    BY <1>1, <2>1
<1>3. ASSUME NEW d, DiscardDraft(d) PROVE \A e \in Stored \cap Stored' : VersionsTell(drafts[e], drafts'[e])
  <2>1. Stored' = Stored \ {d} /\ \A e \in Stored \ {d} : drafts'[e] = drafts[e]
    BY <1>3, DiscardFacts
  <2>2. QED
    BY <1>1, <2>1
<1>4. ASSUME NEW d, NEW operations, NEW v, NEW w, ApplyOperations(d, operations, v, w)
      PROVE  \A e \in Stored : VersionsTell(drafts[e], drafts'[e])
  <2>1. d \in Stored
    BY <1>4, ApplyFacts
  <2>2. PICK change \in AChange : \E c : /\ Becomes(d, Saved(drafts[d], c, change))
                                        /\ Tells(change, drafts[d].content, c)
    BY <1>4, ApplyFacts
  <2>3. PICK c : Becomes(d, Saved(drafts[d], c, change)) /\ Tells(change, drafts[d].content, c)
    BY <2>2
  <2>4. PICK r : r = drafts[d]
    OBVIOUS
  <2>5. DraftSound(r)
    BY <2>1, <2>4 DEF DraftInvariant
  <2>6. VersionsTell(r, Saved(r, c, change))
    BY <2>3, <2>4, <2>5, SavedTells
  <2>7. QED
    BY <2>1, <2>3, <2>4, <2>6, BecomingTells
<1>5. ASSUME NEW d, NEW v, NEW w, Undo(d, v, w) PROVE \A e \in Stored : VersionsTell(drafts[e], drafts'[e])
  <2>1. PICK r : r = drafts[d]
    OBVIOUS
  <2>2. d \in Stored /\ r.cursor > 0 /\ Becomes(d, Travelled(r, r.cursor - 1, r.transitions[r.cursor]))
    BY <1>5, <2>1, UndoFacts
  <2>3. DraftSound(r)
    BY <2>1, <2>2 DEF DraftInvariant
  <2>4. r.cursor \in 1 .. Len(r.transitions)
    BY <2>2, <2>3, CursorRange
  <2>5. PICK i, k : i = r.cursor /\ k = r.cursor - 1
    OBVIOUS
  <2>6. i \in 1 .. Len(r.transitions) /\ r.cursor = i /\ k = i - 1
    BY <2>4, <2>5
  <2>7. VersionsTell(r, Travelled(r, k, r.transitions[i]))
    BY <2>3, <2>6, TravelledTells
  <2>8. Becomes(d, Travelled(r, k, r.transitions[i]))
    BY <2>2, <2>5
  <2>9. QED
    BY <2>1, <2>2, <2>7, <2>8, BecomingTells
<1>6. ASSUME NEW d, NEW v, NEW w, Redo(d, v, w) PROVE \A e \in Stored : VersionsTell(drafts[e], drafts'[e])
  <2>1. PICK r : r = drafts[d]
    OBVIOUS
  <2>2. PICK i : i = r.cursor + 1
    OBVIOUS
  <2>3. d \in Stored /\ i < Len(r.snapshots) /\ Becomes(d, Travelled(r, i, r.transitions[i]))
    BY <1>6, <2>1, <2>2, RedoFacts
  <2>4. DraftSound(r)
    BY <2>1, <2>3 DEF DraftInvariant
  <2>5. i \in 1 .. Len(r.transitions) /\ r.cursor = i - 1
    BY <2>2, <2>3, <2>4, CursorRange
  <2>6. VersionsTell(r, Travelled(r, i, r.transitions[i]))
    BY <2>4, <2>5, TravelledTells
  <2>7. QED
    BY <2>1, <2>3, <2>6, BecomingTells
<1>7. ASSUME NEW d, NEW v, NEW w, Publish(d, v, w) PROVE FALSE
  <2>1. PICK name, s, c :
          /\ d \in Stored /\ name \notin DOMAIN schemes /\ DOMAIN schemes' = DOMAIN schemes \cup {name}
          /\ Becomes(d, s) /\ DraftSound(s) /\ s.base = name
          /\ s.content = c /\ s.cursor = 0 /\ s.snapshots = <<c>>
    BY <1>7, PublishFacts
  <2>2. QED
    BY <2>1
<1>8. CASE drafts' = drafts
  BY <1>1, <1>8
<1>9. CASE Next
  BY <1>2, <1>3, <1>4, <1>5, <1>6, <1>7, <1>8, <1>9 DEF Next, Reopen
<1>10. QED
  BY <1>8, <1>9 DEF vars

\* A version of a draft never names two contents until it is published: whatever changes what
\* the draft means, undo and redo included, raises graph_version (draft_repository.py:253),
\* and what changes positions alone raises layout_version.
THEOREM VersionsAlwaysTell == Spec => VersionsTellContents
<1>1. DraftInvariant /\ [Next]_vars =>
        [\A d \in Stored \cap Stored' :
           schemes' = schemes =>
             LET r == drafts[d]
                 s == drafts'[d]
             IN  /\ s.graphVersion >= r.graphVersion /\ s.layoutVersion >= r.layoutVersion
                 /\ Meaning(s.content.graph) # Meaning(r.content.graph) => s.graphVersion > r.graphVersion
                 /\ s.content # r.content /\ s.graphVersion = r.graphVersion =>
                      s.layoutVersion > r.layoutVersion]_vars
  BY VersionsStep DEF VersionsTell
<1>2. QED
  BY <1>1, DraftInvariance, PTL DEF Spec, VersionsTellContents
-----------------------------------------------------------------------------
(* The timeline of a draft.                                                    *)

LEMMA PastFacts ==
  ASSUME NEW r, DraftSound(r), NEW S, r.snapshots \in Seq(S)
  PROVE  /\ Past(r) \in Seq(S) /\ Len(Past(r)) = r.cursor + 1
         /\ \A i \in 1 .. r.cursor + 1 : Past(r)[i] = r.snapshots[i]
<1>1. PICK q, k, c : q = r.snapshots /\ k = r.cursor /\ c = r.content
  OBVIOUS
<1>2. q \in Seq(S) /\ k \in Nat /\ k + 1 \in 1 .. Len(q) /\ c = q[k + 1]
  BY <1>1 DEF DraftSound
<1>3. q \in Seq(S) /\ c \in S /\ k \in 0 .. Len(q)
  BY <1>2
<1>4. PICK p : p = Branched(q, k, c)
  OBVIOUS
<1>5. p \in Seq(S) /\ Len(p) = k + 1 /\ p[k + 1] = c /\ \A i \in 1 .. k : p[i] = q[i]
  BY <1>3, <1>4, Regrown
<1>6. \A i \in 1 .. k + 1 : p[i] = q[i]
  BY <1>2, <1>5
<1>7. Past(r) = p
  BY <1>1, <1>4 DEF Past, Branched
<1>8. QED
  BY <1>1, <1>5, <1>6, <1>7

LEMMA FutureFacts ==
  ASSUME NEW r, DraftSound(r), NEW S, r.snapshots \in Seq(S)
  PROVE  /\ Future(r) \in Seq(S) /\ Len(Future(r)) = Len(r.transitions) - r.cursor
         /\ \A i \in 1 .. Len(r.transitions) - r.cursor : Future(r)[i] = r.snapshots[r.cursor + 1 + i]
<1>1. PICK q, k, n : q = r.snapshots /\ k = r.cursor /\ n = Len(r.transitions)
  OBVIOUS
<1>2. q \in Seq(S) /\ n \in Nat /\ k \in 0 .. n /\ Len(q) = n + 1
  BY <1>1, CursorRange DEF DraftSound
<1>3. PICK a, b : a = k + 2 /\ b = Len(q)
  OBVIOUS
<1>4. PICK f : f = SubSeq(q, a, b)
  OBVIOUS
<1>5. /\ f \in Seq(S) /\ Len(f) = n - k
      /\ \A i \in 1 .. n - k : f[i] = q[k + 1 + i]
  <2>1. a \in 1 .. b + 1 /\ b - a + 1 = n - k /\ \A i \in 1 .. n - k : a + i - 1 = k + 1 + i
    BY <1>2, <1>3
  <2>2. f \in Seq(S) /\ Len(f) = b - a + 1
    BY <1>2, <1>3, <1>4, <2>1
  <2>3. ASSUME NEW i \in 1 .. n - k PROVE f[i] = q[k + 1 + i]
    <3>1. f[i] = q[a + i - 1]
      BY <1>2, <1>3, <1>4, <2>1
    <3>2. QED
      BY <2>1, <3>1
  <2>4. QED
    BY <2>1, <2>2, <2>3
<1>6. Future(r) = f
  BY <1>1, <1>3, <1>4 DEF Future
<1>7. QED
  BY <1>1, <1>5, <1>6

LEMMA EmptySequence ==
  ASSUME NEW S, NEW q \in Seq(S), Len(q) = 0
  PROVE  q = <<>>
OBVIOUS

LEMMA Prepended ==
  ASSUME NEW S, NEW f \in Seq(S), NEW x \in S
  PROVE  LET e == <<x>> \o f IN
         /\ e \in Seq(S) /\ Len(e) = Len(f) + 1 /\ e[1] = x
         /\ \A i \in 2 .. Len(f) + 1 : e[i] = f[i - 1]
<1>1. <<x>> \in Seq(S) /\ Len(<<x>>) = 1 /\ <<x>>[1] = x /\ Len(f) \in Nat
  OBVIOUS
<1>2. <<x>> \o f \in Seq(S) /\ Len(<<x>> \o f) = 1 + Len(f)
  BY <1>1
<1>3. \A i \in 1 .. 1 + Len(f) : (<<x>> \o f)[i] = IF i <= 1 THEN <<x>>[i] ELSE f[i - 1]
  BY <1>1
<1>4. QED
  BY <1>1, <1>2, <1>3

\* An edit is shown after what was shown, and nothing is left to redo.
LEMMA SavedTimeline ==
  ASSUME NEW r, DraftSound(r), NEW c, NEW change \in AChange, Tells(change, r.content, c),
         NEW s, s = Saved(r, c, change)
  PROVE  /\ Past(s) = Append(Past(r), c) /\ Future(s) = <<>>
         /\ Past(s) # <<>> /\ Past(s)[Len(Past(s))] = c
<1>1. PICK S : S = ToSet(r.snapshots) \cup {c}
  OBVIOUS
<1>2. PICK q, k : q = r.snapshots /\ k = r.cursor
  OBVIOUS
<1>3. q \in Seq(ToSet(q)) /\ k \in Nat /\ k + 1 \in 0 .. Len(q)
  BY <1>2, CursorRange DEF DraftSound
<1>4. q \in Seq(S) /\ c \in S
  BY <1>1, <1>2, <1>3
<1>5. DraftSound(s) /\ s.cursor = k + 1 /\ s.snapshots = Branched(q, k + 1, c)
  BY <1>2, SavedIsSound, SavedFields
<1>6. PICK m, h : m = k + 1 /\ h = Branched(q, k + 1, c)
  OBVIOUS
<1>7. h \in Seq(S) /\ Len(h) = m + 1 /\ h[m + 1] = c /\ \A i \in 1 .. m : h[i] = q[i]
  BY <1>3, <1>4, <1>6, Regrown
<1>8. PICK p : p = Past(r)
  OBVIOUS
<1>9. p \in Seq(S) /\ Len(p) = m /\ \A i \in 1 .. m : p[i] = q[i]
  BY <1>2, <1>4, <1>6, <1>8, PastFacts
<1>10. PICK t : t = Past(s)
  OBVIOUS
<1>11. t \in Seq(S) /\ Len(t) = m + 1 /\ \A i \in 1 .. m + 1 : t[i] = h[i]
  BY <1>5, <1>6, <1>7, <1>10, PastFacts
<1>12. m \in Nat
  BY <1>3, <1>6
<1>13. t = Append(p, c)
  <2>1. PICK e : e = Append(p, c)
    OBVIOUS
  <2>2. e \in Seq(S) /\ Len(e) = m + 1 /\ e[m + 1] = c /\ \A i \in 1 .. m : e[i] = p[i]
    BY <1>4, <1>9, <1>12, <2>1
  <2>3. \A i \in 1 .. m + 1 : t[i] = e[i]
    BY <1>7, <1>9, <1>11, <1>12, <2>2
  <2>4. t = e
    BY <1>11, <2>2, <2>3, SameSequence
  <2>5. QED
    BY <2>1, <2>4
<1>14. t # <<>> /\ t[Len(t)] = c
  <2>1. m + 1 \in 1 .. m + 1
    BY <1>12
  <2>2. t[m + 1] = c
    BY <1>7, <1>11, <2>1
  <2>3. QED
    BY <1>11, <1>12, <2>2
<1>15. Future(s) = <<>>
  <2>1. Len(s.transitions) - s.cursor = 0
    <3>1. Len(s.snapshots) = Len(s.transitions) + 1 /\ Len(s.transitions) \in Nat
      BY <1>5, CursorRange DEF DraftSound
    <3>2. QED
      BY <1>5, <1>6, <1>7, <1>12, <3>1
  <2>2. s.snapshots \in Seq(S)
    BY <1>5, <1>6, <1>7
  <2>3. Future(s) \in Seq(S) /\ Len(Future(s)) = 0
    BY <1>5, <2>1, <2>2, FutureFacts
  <2>4. QED
    BY <2>3, EmptySequence
<1>16. QED
  BY <1>8, <1>10, <1>13, <1>14, <1>15

\* Undo takes the last of the past to the front of the future.
LEMMA UndoneTimeline ==
  ASSUME NEW r, DraftSound(r), r.cursor > 0, NEW change \in AChange,
         NEW s, s = Travelled(r, r.cursor - 1, change)
  PROVE  LET p == Past(r) IN
         /\ Len(p) > 1 /\ Past(s) = SubSeq(p, 1, Len(p) - 1)
         /\ Future(s) = <<p[Len(p)]>> \o Future(r)
<1>1. PICK S : S = ToSet(r.snapshots)
  OBVIOUS
<1>2. PICK q, k, n : q = r.snapshots /\ k = r.cursor /\ n = Len(r.transitions)
  OBVIOUS
<1>3. q \in Seq(S) /\ n \in Nat /\ k \in 1 .. n /\ Len(q) = n + 1
  BY <1>1, <1>2, CursorRange DEF DraftSound
<1>4. PICK l : l = k - 1
  OBVIOUS
<1>5. l \in 0 .. n
  BY <1>3, <1>4
<1>6. DraftSound(s) /\ s.cursor = l /\ s.snapshots = q /\ Len(s.transitions) = n
  <2>1. s = Travelled(r, l, change)
    BY <1>2, <1>4
  <2>2. QED
    BY <1>2, <1>5, <2>1, TravelledIsSound, TravelledFields
<1>7. PICK p, f, t, g : p = Past(r) /\ f = Future(r) /\ t = Past(s) /\ g = Future(s)
  OBVIOUS
<1>8. p \in Seq(S) /\ Len(p) = k + 1 /\ \A i \in 1 .. k + 1 : p[i] = q[i]
  BY <1>2, <1>3, <1>7, PastFacts
<1>9. t \in Seq(S) /\ Len(t) = l + 1 /\ \A i \in 1 .. l + 1 : t[i] = q[i]
  BY <1>3, <1>6, <1>7, PastFacts
<1>10. f \in Seq(S) /\ Len(f) = n - k /\ \A i \in 1 .. n - k : f[i] = q[k + 1 + i]
  BY <1>2, <1>3, <1>7, FutureFacts
<1>11. g \in Seq(S) /\ Len(g) = n - l /\ \A i \in 1 .. n - l : g[i] = q[l + 1 + i]
  BY <1>3, <1>6, <1>7, FutureFacts
<1>12. k \in Nat /\ l + 1 = k /\ Len(p) > 1 /\ Len(p) - 1 = k
  BY <1>3, <1>4, <1>8
<1>13. t = SubSeq(p, 1, k)
  <2>1. PICK e : e = SubSeq(p, 1, k)
    OBVIOUS
  <2>2. e \in Seq(S) /\ Len(e) = k /\ \A i \in 1 .. k : e[i] = p[i]
    BY <1>8, <1>12, <2>1
  <2>3. \A i \in 1 .. k : t[i] = e[i]
    BY <1>8, <1>9, <1>12, <2>2
  <2>4. t = e
    BY <1>9, <1>12, <2>2, <2>3, SameSequence
  <2>5. QED
    BY <2>1, <2>4
<1>14. g = <<p[k + 1]>> \o f
  <2>1. PICK x : x = p[k + 1]
    OBVIOUS
  <2>2. x \in S /\ x = q[k + 1]
    BY <1>8, <1>12, <2>1
  <2>3. PICK e : e = <<x>> \o f
    OBVIOUS
  <2>4. <<x>> \in Seq(S) /\ Len(<<x>>) = 1 /\ <<x>>[1] = x
    BY <2>2
  <2>5. /\ e \in Seq(S) /\ Len(e) = (n - k) + 1 /\ e[1] = x
        /\ \A i \in 2 .. (n - k) + 1 : e[i] = f[i - 1]
    <3>1. PICK m : m = n - k
      OBVIOUS
    <3>2. m \in Nat /\ f \in Seq(S) /\ Len(f) = m
      BY <1>3, <1>4, <1>10, <3>1
    <3>3. /\ e \in Seq(S) /\ Len(e) = m + 1 /\ e[1] = x
          /\ \A i \in 2 .. m + 1 : e[i] = f[i - 1]
      BY <2>2, <2>3, <3>2, Prepended
    <3>4. QED
      BY <3>1, <3>3
  <2>6. ASSUME NEW i \in 1 .. n - l PROVE g[i] = e[i]
    <3>1. g[i] = q[k + i]
      BY <1>11, <1>12
    <3>2. CASE i = 1
      BY <2>2, <2>5, <3>1, <3>2
    <3>3. CASE i # 1
      <4>1. i \in 2 .. (n - k) + 1 /\ i - 1 \in 1 .. n - k /\ k + 1 + (i - 1) = k + i
        BY <1>3, <1>4, <3>3
      <4>2. e[i] = f[i - 1] /\ f[i - 1] = q[k + 1 + (i - 1)]
        BY <1>10, <2>5, <4>1
      <4>3. QED
        BY <3>1, <4>1, <4>2
    <3>4. QED
      BY <3>2, <3>3
  <2>7. n - l = (n - k) + 1
    BY <1>3, <1>4
  <2>8. g = e
    BY <1>11, <2>5, <2>6, <2>7, SameSequence
  <2>9. QED
    BY <2>1, <2>3, <2>8
<1>15. QED
  BY <1>7, <1>8, <1>12, <1>13, <1>14

\* Redo takes the first of the future to the end of the past.
LEMMA RedoneTimeline ==
  ASSUME NEW r, DraftSound(r), r.cursor + 1 < Len(r.snapshots), NEW change \in AChange,
         NEW s, s = Travelled(r, r.cursor + 1, change)
  PROVE  LET f == Future(r) IN
         f # <<>> /\ Past(s) = Append(Past(r), Head(f)) /\ Future(s) = Tail(f)
<1>1. PICK S : S = ToSet(r.snapshots)
  OBVIOUS
<1>2. PICK q, k, n : q = r.snapshots /\ k = r.cursor /\ n = Len(r.transitions)
  OBVIOUS
<1>3. q \in Seq(S) /\ n \in Nat /\ k \in Nat /\ k + 1 \in 1 .. n /\ Len(q) = n + 1
  BY <1>1, <1>2, CursorRange DEF DraftSound
<1>4. PICK l : l = k + 1
  OBVIOUS
<1>5. l \in 0 .. n
  BY <1>3, <1>4
<1>6. DraftSound(s) /\ s.cursor = l /\ s.snapshots = q /\ Len(s.transitions) = n
  <2>1. s = Travelled(r, l, change)
    BY <1>2, <1>4
  <2>2. QED
    BY <1>2, <1>5, <2>1, TravelledIsSound, TravelledFields
<1>7. PICK p, f, t, g : p = Past(r) /\ f = Future(r) /\ t = Past(s) /\ g = Future(s)
  OBVIOUS
<1>8. p \in Seq(S) /\ Len(p) = k + 1 /\ \A i \in 1 .. k + 1 : p[i] = q[i]
  BY <1>2, <1>3, <1>7, PastFacts
<1>9. t \in Seq(S) /\ Len(t) = l + 1 /\ \A i \in 1 .. l + 1 : t[i] = q[i]
  BY <1>3, <1>6, <1>7, PastFacts
<1>10. f \in Seq(S) /\ Len(f) = n - k /\ \A i \in 1 .. n - k : f[i] = q[k + 1 + i]
  BY <1>2, <1>3, <1>7, FutureFacts
<1>11. g \in Seq(S) /\ Len(g) = n - l /\ \A i \in 1 .. n - l : g[i] = q[l + 1 + i]
  BY <1>3, <1>6, <1>7, FutureFacts
<1>12. n - k > 0 /\ n - k \in Nat /\ 1 \in 1 .. n - k
  BY <1>3
<1>13. f # <<>> /\ Head(f) = f[1] /\ f[1] \in S /\ f[1] = q[l + 1]
  <2>1. k + 1 + 1 = l + 1
    BY <1>3, <1>4
  <2>2. QED
    BY <1>10, <1>12, <2>1
<1>14. t = Append(p, f[1])
  <2>1. PICK x : x = f[1]
    OBVIOUS
  <2>2. PICK e : e = Append(p, x)
    OBVIOUS
  <2>3. e \in Seq(S) /\ Len(e) = l + 1 /\ e[l + 1] = x /\ \A i \in 1 .. l : e[i] = p[i]
    BY <1>3, <1>4, <1>8, <1>13, <2>1, <2>2
  <2>4. ASSUME NEW i \in 1 .. l + 1 PROVE t[i] = e[i]
    <3>1. CASE i = l + 1
      BY <1>9, <1>13, <2>1, <2>3, <3>1
    <3>2. CASE i # l + 1
      <4>1. i \in 1 .. l /\ i \in 1 .. k + 1
        BY <1>3, <1>4, <3>2
      <4>2. QED
        BY <1>8, <1>9, <2>3, <4>1
    <3>3. QED
      BY <3>1, <3>2
  <2>5. t = e
    BY <1>9, <2>3, <2>4, SameSequence
  <2>6. QED
    BY <2>1, <2>2, <2>5
<1>15. g = Tail(f)
  <2>1. PICK e : e = Tail(f)
    OBVIOUS
  <2>2. e \in Seq(S) /\ Len(e) = (n - k) - 1 /\ \A i \in 1 .. (n - k) - 1 : e[i] = f[i + 1]
    BY <1>10, <1>12, <1>13, <2>1
  <2>3. n - l = (n - k) - 1
    BY <1>3, <1>4
  <2>4. ASSUME NEW i \in 1 .. n - l PROVE g[i] = e[i]
    <3>1. i + 1 \in 1 .. n - k /\ k + 1 + (i + 1) = l + 1 + i
      BY <1>3, <1>4
    <3>2. e[i] = f[i + 1] /\ f[i + 1] = q[k + 1 + (i + 1)]
      BY <1>10, <2>2, <2>3, <3>1
    <3>3. QED
      BY <1>11, <3>1, <3>2
  <2>5. g = e
    BY <1>11, <2>2, <2>3, <2>4, SameSequence
  <2>6. QED
    BY <2>1, <2>5
<1>16. QED
  BY <1>7, <1>13, <1>14, <1>15

\* A draft that begins, or begins again, has one snapshot.
LEMMA FreshTimeline ==
  ASSUME NEW s, DraftSound(s), s.cursor = 0, NEW c, s.snapshots = <<c>>
  PROVE  Len(Past(s)) <= 1 /\ Future(s) = <<>>
<1>1. PICK S, q : S = {c} /\ q = s.snapshots
  OBVIOUS
<1>2. q \in Seq(S) /\ Len(q) = 1
  BY <1>1
<1>3. PICK p, f : p = Past(s) /\ f = Future(s)
  OBVIOUS
<1>4. s.snapshots \in Seq(S)
  BY <1>1, <1>2
<1>5. Len(p) = s.cursor + 1
  BY <1>3, <1>4, PastFacts
<1>6. s.cursor = 0 /\ Len(s.transitions) = 0
  BY <1>1, <1>2, CursorRange DEF DraftSound
<1>7. f \in Seq(S) /\ Len(f) = Len(s.transitions) - s.cursor
  BY <1>3, <1>4, FutureFacts
<1>8. Len(p) = 1 /\ Len(f) = 0
  BY <1>5, <1>6, <1>7
<1>9. QED
  BY <1>3, <1>7, <1>8, EmptySequence

\* What a draft gives to its timeline; a draft that is not stored gives nothing.
PastOf(d) == IF d \in Stored THEN Past(drafts[d]) ELSE <<>>
FutureOf(d) == IF d \in Stored THEN Future(drafts[d]) ELSE <<>>
LifeOf(d) == IF d \in Stored THEN <<drafts[d].base>> ELSE <<>>

SameTimeline(d) == PastOf(d)' = PastOf(d) /\ FutureOf(d)' = FutureOf(d) /\ LifeOf(d)' = LifeOf(d)

\* The timeline of all drafts, said of the drafts one by one.
LEMMA TimelineMoves ==
  ASSUME NEW d \in Draft, NEW p, NEW f, PastOf(d)' = p, FutureOf(d)' = f,
         \A e \in Draft : e # d => SameTimeline(e)
  PROVE  Timeline!Move(d, p, f)
<1> DEFINE past == [e \in Draft |-> PastOf(e)]
           future == [e \in Draft |-> FutureOf(e)]
<1>1. past' = [e \in Draft |-> PastOf(e)'] /\ future' = [e \in Draft |-> FutureOf(e)']
  OBVIOUS
<1>2. past' = [past EXCEPT ![d] = p] /\ future' = [future EXCEPT ![d] = f]
  BY <1>1 DEF SameTimeline
<1> QED
  BY <1>2 DEF Timeline!Move, PastOf, FutureOf

LEMMA LivesGoOn ==
  ASSUME \A e \in Draft : LifeOf(e)' = LifeOf(e)
  PROVE  [e \in Draft |-> LifeOf(e)]' = [e \in Draft |-> LifeOf(e)]
OBVIOUS

LEMMA KeptTimeline ==
  ASSUME NEW e, e \in Stored <=> e \in Stored', e \in Stored => drafts'[e] = drafts[e]
  PROVE  SameTimeline(e)
BY DEF SameTimeline, PastOf, FutureOf, LifeOf, Past, Future

\* What a step gives a draft that it leaves stored.
LEMMA GivenTimeline ==
  ASSUME NEW d, d \in Stored', NEW s, drafts'[d] = s
  PROVE  PastOf(d)' = Past(s) /\ FutureOf(d)' = Future(s) /\ LifeOf(d)' = <<s.base>>
BY DEF PastOf, FutureOf, LifeOf, Past, Future

LEMMA BecomingMoves ==
  ASSUME NEW d \in Draft, d \in Stored, NEW r, r = drafts[d], NEW s, Becomes(d, s)
  PROVE  /\ Timeline!Move(d, Past(s), Future(s))
         /\ PastOf(d) = Past(r) /\ FutureOf(d) = Future(r) /\ LifeOf(d) = <<r.base>>
         /\ PastOf(d)' = Past(s) /\ LifeOf(d)' = <<s.base>>
         /\ \A e \in Draft : e # d => LifeOf(e)' = LifeOf(e)
<1>1. Stored' = Stored /\ drafts'[d] = s /\ \A e \in Stored \ {d} : drafts'[e] = drafts[e]
  BY DEF Becomes
<1>2. PastOf(d)' = Past(s) /\ FutureOf(d)' = Future(s) /\ LifeOf(d)' = <<s.base>>
  BY <1>1, GivenTimeline
<1>3. \A e \in Draft : e # d => SameTimeline(e)
  BY <1>1, KeptTimeline
<1>4. Timeline!Move(d, Past(s), Future(s))
  <2>1. PICK p, f : p = Past(s) /\ f = Future(s)
    OBVIOUS
  <2>2. Timeline!Move(d, p, f)
    BY <1>2, <1>3, <2>1, TimelineMoves
  <2>3. QED
    BY <2>1, <2>2
<1>5. PastOf(d) = Past(r) /\ FutureOf(d) = Future(r) /\ LifeOf(d) = <<r.base>>
  BY DEF PastOf, FutureOf, LifeOf
<1>6. QED
  BY <1>2, <1>3, <1>4, <1>5 DEF SameTimeline

\* A list of operations is shown on top of what was shown.
LEMMA ApplyRefines ==
  ASSUME DraftInvariant, NEW d \in Draft, NEW operations, NEW v, NEW w,
         ApplyOperations(d, operations, v, w)
  PROVE  Timeline!Show(d)
<1>1. PICK r : r = drafts[d]
  OBVIOUS
<1>2. d \in Stored /\ DraftSound(r)
  BY <1>1, ApplyFacts DEF DraftInvariant
<1>3. PICK change \in AChange : \E c : /\ Becomes(d, Saved(drafts[d], c, change))
                                      /\ Tells(change, drafts[d].content, c)
  BY ApplyFacts
<1>4. PICK c : Becomes(d, Saved(drafts[d], c, change)) /\ Tells(change, drafts[d].content, c)
  BY <1>3
<1>5. PICK s : s = Saved(r, c, change)
  OBVIOUS
<1>6. Becomes(d, s) /\ s.base = r.base
  BY <1>1, <1>2, <1>4, <1>5, SavedFields
<1>7. PICK p, q, f : p = Past(s) /\ q = Past(r) /\ f = Future(s)
  OBVIOUS
<1>8. p = Append(q, c) /\ f = <<>> /\ p # <<>> /\ p[Len(p)] = c
  BY <1>1, <1>2, <1>4, <1>5, <1>7, SavedTimeline
<1>9. /\ Timeline!Move(d, p, f) /\ PastOf(d) = q /\ PastOf(d)' = p
      /\ \A e \in Draft : LifeOf(e)' = LifeOf(e)
  BY <1>1, <1>2, <1>6, <1>7, BecomingMoves
<1>10. [e \in Draft |-> PastOf(e)]'[d] = p /\ [e \in Draft |-> PastOf(e)][d] = q
  BY <1>9
<1>11. Append([e \in Draft |-> PastOf(e)][d],
              [e \in Draft |-> PastOf(e)]'[d][Len([e \in Draft |-> PastOf(e)]'[d])]) = p
  BY <1>8, <1>10
<1>12. [e \in Draft |-> LifeOf(e)]' = [e \in Draft |-> LifeOf(e)]
  BY <1>9, LivesGoOn
<1>13. QED
  BY <1>8, <1>9, <1>10, <1>11, <1>12 DEF Timeline!Show, PastOf, LifeOf

LEMMA UndoRefines ==
  ASSUME DraftInvariant, NEW d \in Draft, NEW v, NEW w, Undo(d, v, w)
  PROVE  Timeline!Undo(d)
<1>1. PICK r : r = drafts[d]
  OBVIOUS
<1>2. d \in Stored /\ DraftSound(r) /\ r.cursor > 0
  BY <1>1, UndoFacts DEF DraftInvariant
<1>3. PICK change : change = r.transitions[r.cursor]
  OBVIOUS
<1>4. change \in AChange
  BY <1>2, <1>3, CursorRange, TransitionTaken
<1>5. PICK s : s = Travelled(r, r.cursor - 1, change)
  OBVIOUS
<1>6. Becomes(d, s) /\ s.base = r.base
  BY <1>1, <1>2, <1>3, <1>4, <1>5, UndoFacts, TravelledFields
<1>7. PICK p, q, f, g : p = Past(s) /\ q = Past(r) /\ f = Future(s) /\ g = Future(r)
  OBVIOUS
<1>8. Len(q) > 1 /\ p = SubSeq(q, 1, Len(q) - 1) /\ f = <<q[Len(q)]>> \o g
  BY <1>2, <1>4, <1>5, <1>7, UndoneTimeline
<1>9. /\ Timeline!Move(d, p, f) /\ PastOf(d) = q /\ FutureOf(d) = g
      /\ \A e \in Draft : LifeOf(e)' = LifeOf(e)
  BY <1>1, <1>2, <1>6, <1>7, BecomingMoves
<1>10. [e \in Draft |-> PastOf(e)][d] = q /\ [e \in Draft |-> FutureOf(e)][d] = g
  BY <1>9
<1>11. [e \in Draft |-> LifeOf(e)]' = [e \in Draft |-> LifeOf(e)]
  BY <1>9, LivesGoOn
<1>12. /\ [e \in Draft |-> PastOf(e)]' = [[e \in Draft |-> PastOf(e)] EXCEPT ![d] = p]
       /\ [e \in Draft |-> FutureOf(e)]' = [[e \in Draft |-> FutureOf(e)] EXCEPT ![d] = f]
  BY <1>9 DEF Timeline!Move, PastOf, FutureOf
<1> DEFINE past == [e \in Draft |-> PastOf(e)]
           future == [e \in Draft |-> FutureOf(e)]
<1>13. /\ Len(past[d]) > 1
       /\ past' = [past EXCEPT ![d] = SubSeq(past[d], 1, Len(past[d]) - 1)]
       /\ future' = [future EXCEPT ![d] = <<past[d][Len(past[d])]>> \o future[d]]
  <2>1. past[d] = q /\ future[d] = g /\ past' = [past EXCEPT ![d] = p] /\ future' = [future EXCEPT ![d] = f]
    BY <1>10, <1>12
  <2> HIDE DEF past, future
  <2>2. QED
    BY <1>8, <2>1
<1>14. QED
  BY <1>11, <1>13 DEF Timeline!Undo, Timeline!Move, PastOf, FutureOf, LifeOf

LEMMA RedoRefines ==
  ASSUME DraftInvariant, NEW d \in Draft, NEW v, NEW w, Redo(d, v, w)
  PROVE  Timeline!Redo(d)
<1>1. PICK r : r = drafts[d]
  OBVIOUS
<1>2. d \in Stored /\ DraftSound(r) /\ r.cursor + 1 < Len(r.snapshots)
  BY <1>1, RedoFacts DEF DraftInvariant
<1>3. PICK change : change = r.transitions[r.cursor + 1]
  OBVIOUS
<1>4. change \in AChange
  BY <1>2, <1>3, CursorRange, TransitionTaken
<1>5. PICK s : s = Travelled(r, r.cursor + 1, change)
  OBVIOUS
<1>6. Becomes(d, s) /\ s.base = r.base
  BY <1>1, <1>2, <1>3, <1>4, <1>5, RedoFacts, TravelledFields
<1>7. PICK p, q, f, g : p = Past(s) /\ q = Past(r) /\ f = Future(s) /\ g = Future(r)
  OBVIOUS
<1>8. g # <<>> /\ p = Append(q, Head(g)) /\ f = Tail(g)
  BY <1>2, <1>4, <1>5, <1>7, RedoneTimeline
<1>9. /\ Timeline!Move(d, p, f) /\ PastOf(d) = q /\ FutureOf(d) = g
      /\ \A e \in Draft : LifeOf(e)' = LifeOf(e)
  BY <1>1, <1>2, <1>6, <1>7, BecomingMoves
<1>10. [e \in Draft |-> PastOf(e)][d] = q /\ [e \in Draft |-> FutureOf(e)][d] = g
  BY <1>9
<1>11. [e \in Draft |-> LifeOf(e)]' = [e \in Draft |-> LifeOf(e)]
  BY <1>9, LivesGoOn
<1>12. /\ [e \in Draft |-> PastOf(e)]' = [[e \in Draft |-> PastOf(e)] EXCEPT ![d] = p]
       /\ [e \in Draft |-> FutureOf(e)]' = [[e \in Draft |-> FutureOf(e)] EXCEPT ![d] = f]
  BY <1>9 DEF Timeline!Move, PastOf, FutureOf
<1> DEFINE past == [e \in Draft |-> PastOf(e)]
           future == [e \in Draft |-> FutureOf(e)]
<1>13. /\ future[d] # <<>>
       /\ past' = [past EXCEPT ![d] = Append(past[d], Head(future[d]))]
       /\ future' = [future EXCEPT ![d] = Tail(future[d])]
  <2>1. past[d] = q /\ future[d] = g /\ past' = [past EXCEPT ![d] = p] /\ future' = [future EXCEPT ![d] = f]
    BY <1>10, <1>12
  <2> HIDE DEF past, future
  <2>2. QED
    BY <1>8, <2>1
<1>14. QED
  BY <1>11, <1>13 DEF Timeline!Redo, Timeline!Move, PastOf, FutureOf, LifeOf

\* Whatever gives a draft another life, with at most one thing to show, restarts its timeline.
LEMMA RestartRefines ==
  ASSUME NEW d \in Draft, NEW p, PastOf(d)' = p, Len(p) <= 1, FutureOf(d)' = <<>>,
         LifeOf(d)' # LifeOf(d), \A e \in Draft : e # d => SameTimeline(e)
  PROVE  Timeline!Restart(d)
<1> DEFINE past == [e \in Draft |-> PastOf(e)]
           life == [e \in Draft |-> LifeOf(e)]
<1>1. Timeline!Move(d, p, <<>>)
  BY TimelineMoves
<1>2. past'[d] = p
  OBVIOUS
<1>3. life'[d] # life[d] /\ life' = [life EXCEPT ![d] = life'[d]]
  BY DEF SameTimeline
<1> QED
  BY <1>1, <1>2, <1>3 DEF Timeline!Restart, PastOf, LifeOf

LEMMA StepRefines ==
  ASSUME DraftInvariant, [Next]_vars
  PROVE  [Timeline!Next]_(Timeline!vars)
<1>1. ASSUME drafts' = drafts PROVE UNCHANGED Timeline!vars
  <2>1. \A e \in Draft : SameTimeline(e)
    BY <1>1, KeptTimeline DEF Stored
  <2>2. /\ [e \in Draft |-> PastOf(e)]' = [e \in Draft |-> PastOf(e)]
        /\ [e \in Draft |-> FutureOf(e)]' = [e \in Draft |-> FutureOf(e)]
        /\ [e \in Draft |-> LifeOf(e)]' = [e \in Draft |-> LifeOf(e)]
    BY <2>1 DEF SameTimeline
  <2>3. QED
    BY <2>2 DEF Timeline!vars, PastOf, FutureOf, LifeOf
<1>2. ASSUME NEW d \in Draft, NEW name \in DOMAIN schemes, CreateDraft(d, name) PROVE Timeline!Restart(d)
  <2>1. PICK s, c : /\ d \notin Stored /\ Stored' = Stored \cup {d}
                    /\ drafts'[d] = s /\ \A e \in Stored : drafts'[e] = drafts[e]
                    /\ schemes' = schemes
                    /\ DraftSound(s) /\ s.base = name
                    /\ s.content = c /\ s.cursor = 0 /\ s.snapshots = <<c>>
    BY <1>2, CreateFacts
  <2>2. PICK p : p = Past(s)
    OBVIOUS
  <2>3. PastOf(d)' = p /\ FutureOf(d)' = Future(s) /\ LifeOf(d)' = <<s.base>>
    BY <2>1, <2>2, GivenTimeline
  <2>4. Len(p) <= 1 /\ Future(s) = <<>>
    BY <2>1, <2>2, FreshTimeline
  <2>5. LifeOf(d) = <<>>
    BY <2>1 DEF LifeOf
  <2>6. \A e \in Draft : e # d => SameTimeline(e)
    BY <2>1, KeptTimeline
  <2>7. <<s.base>> # <<>>
    OBVIOUS
  <2>8. LifeOf(d)' # LifeOf(d)
    BY <2>3, <2>5, <2>7
  <2>9. FutureOf(d)' = <<>>
    BY <2>3, <2>4
  <2>10. QED
    BY <2>3, <2>4, <2>6, <2>8, <2>9, RestartRefines
<1>3. ASSUME NEW d \in Draft, DiscardDraft(d) PROVE Timeline!Restart(d)
  <2>1. /\ d \in Stored /\ Stored' = Stored \ {d} /\ schemes' = schemes
        /\ \A e \in Stored \ {d} : drafts'[e] = drafts[e]
    BY <1>3, DiscardFacts
  <2>2. PastOf(d)' = <<>> /\ FutureOf(d)' = <<>> /\ LifeOf(d)' = <<>>
    BY <2>1 DEF PastOf, FutureOf, LifeOf
  <2>3. LifeOf(d) # <<>>
    BY <2>1 DEF LifeOf
  <2>4. \A e \in Draft : e # d => SameTimeline(e)
    BY <2>1, KeptTimeline
  <2>5. PICK p : p = <<>>
    OBVIOUS
  <2>6. Len(p) <= 1
    BY <2>5
  <2>7. QED
    BY <2>2, <2>3, <2>4, <2>5, <2>6, RestartRefines
<1>4. ASSUME NEW d \in Draft, NEW v, NEW w, Publish(d, v, w) PROVE Timeline!Restart(d)
  <2>1. PICK name, s, c :
          /\ d \in Stored /\ name \notin DOMAIN schemes /\ DOMAIN schemes' = DOMAIN schemes \cup {name}
          /\ Becomes(d, s) /\ DraftSound(s) /\ s.base = name
          /\ s.content = c /\ s.cursor = 0 /\ s.snapshots = <<c>>
    BY <1>4, PublishFacts
  <2>2. PICK r : r = drafts[d]
    OBVIOUS
  <2>3. r.base \in DOMAIN schemes
    BY <2>1, <2>2 DEF DraftInvariant
  <2>4. PICK p : p = Past(s)
    OBVIOUS
  <2>5. Stored' = Stored /\ drafts'[d] = s /\ \A e \in Stored \ {d} : drafts'[e] = drafts[e]
    BY <2>1 DEF Becomes
  <2>6. PastOf(d)' = p /\ FutureOf(d)' = Future(s) /\ LifeOf(d)' = <<s.base>>
    BY <2>1, <2>4, <2>5, GivenTimeline
  <2>7. Len(p) <= 1 /\ Future(s) = <<>>
    BY <2>1, <2>4, FreshTimeline
  <2>8. LifeOf(d) = <<r.base>> /\ r.base # s.base
    BY <2>1, <2>2, <2>3 DEF LifeOf
  <2>9. \A e \in Draft : e # d => SameTimeline(e)
    BY <2>5, KeptTimeline
  <2>10. LifeOf(d)' # LifeOf(d)
    BY <2>6, <2>8
  <2>11. QED
    BY <2>6, <2>7, <2>9, <2>10, RestartRefines
<1>5. CASE UNCHANGED vars
  BY <1>1, <1>5 DEF vars
<1>6. CASE Next
  <2>1. CASE Reopen
    BY <1>1, <2>1 DEF Reopen
  <2>2. ASSUME NEW d \in Draft,
               \/ \E name \in DOMAIN schemes : CreateDraft(d, name)
               \/ DiscardDraft(d)
               \/ \E v, w, operations : ApplyOperations(d, operations, v, w)
               \/ \E v, w : Undo(d, v, w)
               \/ \E v, w : Redo(d, v, w)
               \/ \E v, w : Publish(d, v, w)
        PROVE  Timeline!Undo(d) \/ Timeline!Redo(d) \/ Timeline!Show(d) \/ Timeline!Restart(d)
    BY <1>2, <1>3, <1>4, <2>2, ApplyRefines, UndoRefines, RedoRefines
  <2>3. QED
    BY <1>6, <2>1, <2>2 DEF Next, Timeline!Next
<1>7. QED
  BY <1>5, <1>6

\* For any number of drafts, schemes, nodes and versions, drafts are timelines: undo goes back
\* through what was shown, redo brings it again in order, an edit ends what could be redone,
\* and only publication, creation and discarding begin another life.
THEOREM TimelineImplemented == Spec => DraftsAreTimelines
<1>1. Init => Timeline!Init
  BY DEF Init, Timeline!Init, Stored
<1>2. DraftInvariant /\ [Next]_vars => [Timeline!Next]_(Timeline!vars)
  BY StepRefines
<1>3. QED
  BY <1>1, <1>2, DraftInvariance, PTL DEF Spec, DraftsAreTimelines, Timeline!Spec
=============================================================================
