--------------------------- MODULE DocumentProofs ---------------------------
(***************************************************************************)
(* The three traversals of a workflow graph (graph.rs) answer what they    *)
(* should for every workflow, and so does what is decided from them: the   *)
(* validation and simulation of a document (validation.rs), its migration  *)
(* (migration.rs) and the engine's decision to run it.                     *)
(*                                                                         *)
(* Each traversal has an invariant of its loop (VisitStates, KahnStates,   *)
(* DfsStates) that its step preserves, and a count that every step raises  *)
(* until the traversal rests, so that Rounds are enough.  What it returns  *)
(* is then compared with Onward, which knows no algorithm.                 *)
(*                                                                         *)
(* The run of an accepted document (engine.rs, context.rs, builtins.rs) is *)
(* then shown to change nothing of that document, and to read no variable  *)
(* of which validation did not say whether it would be there.              *)
(***************************************************************************)
EXTENDS Dataflow, FiniteSetTheorems, SequenceTheorems, TLAPS

\* Induction over the natural numbers, with sets in place of predicates, and the
\* functions that iteration defines.

LEMMA NatSetMin == ASSUME NEW T \in SUBSET Nat, T # {} PROVE \E m \in T : \A k \in T : m <= k
<1> DEFINE R == {ss \in Nat \X Nat : ss[1] < ss[2]}
<1>1. IsWellFoundedOn(R, Nat)
  BY NatLessThanWellFounded DEF OpToRel
<1>2. \E x \in T : \A y \in T : ~ (<<y, x>> \in R)
  <2> HIDE DEF R
  <2> QED BY <1>1, WFMin
<1>3. \A x, y \in Nat : y < x => <<y, x>> \in R
  OBVIOUS
<1> HIDE DEF R
<1>4. \A x, y \in Nat : ~(y < x) => x <= y
  OBVIOUS
<1> QED BY <1>2, <1>3, <1>4

LEMMA NatStep == ASSUME NEW S \in SUBSET Nat, 0 \in S, \A n \in S : n + 1 \in S PROVE S = Nat
<1> SUFFICES ASSUME Nat \ S # {} PROVE FALSE
  OBVIOUS
<1>1. PICK m \in Nat \ S : \A k \in Nat \ S : m <= k
  BY NatSetMin
<1>2. m # 0 /\ m - 1 \in Nat
  BY <1>1
<1>3. m - 1 \in S
  BY <1>1, <1>2
<1>4. m - 1 + 1 = m
  BY <1>1
<1> QED BY <1>1, <1>3, <1>4

\* Some sequence of values of W begins with start and takes a step at every number.
Iterates(W, start, step) ==
    \E f \in [Nat -> W] : f[0] = start /\ \A n \in Nat : f[n + 1] = step[n + 1][f[n]]

LEMMA Iteration ==
    ASSUME NEW W, NEW start \in W, NEW step \in [Nat -> [W -> W]]
    PROVE  Iterates(W, start, step)
<1> DEFINE Runs(f, n) == /\ f \in [0..n -> W] /\ f[0] = start
                         /\ \A i \in Nat : i < n => f[i + 1] = step[i + 1][f[i]]
           Some == {n \in Nat : \E f : Runs(f, n)}
<1>1. Some = Nat
  <2>1. 0 \in Some
    <3>1. Runs([i \in 0..0 |-> start], 0)
      OBVIOUS
    <3> QED BY <3>1
  <2>2. ASSUME NEW n \in Some PROVE n + 1 \in Some
    <3>1. PICK f : Runs(f, n)
      OBVIOUS
    <3>a. n \in Nat /\ n + 1 \in Nat
      OBVIOUS
    <3> DEFINE g == [i \in 0..(n + 1) |-> IF i = n + 1 THEN step[n + 1][f[n]] ELSE f[i]]
    <3>2. f[n] \in W /\ step[n + 1][f[n]] \in W
      BY <3>1, <3>a
    <3>3. g \in [0..(n + 1) -> W] /\ g[0] = start
      BY <3>1, <3>2, <3>a
    <3>4. ASSUME NEW i \in Nat, i < n + 1 PROVE g[i + 1] = step[i + 1][g[i]]
      <4>1. CASE i = n
        <5>1. g[n] = f[n] /\ g[n + 1] = step[n + 1][f[n]]
          BY <3>a
        <5> QED BY <5>1, <4>1
      <4>2. CASE i < n
        <5>1. g[i] = f[i] /\ g[i + 1] = f[i + 1]
          BY <3>a, <4>2
        <5> QED BY <5>1, <4>2, <3>1
      <4> QED BY <3>4, <3>a, <4>1, <4>2
    <3>5. Runs(g, n + 1)
      BY <3>3, <3>4
    <3> QED BY <3>5, <3>a
  <2> HIDE DEF Some
  <2>3. Some \in SUBSET Nat
    BY DEF Some
  <2> QED BY <2>1, <2>2, <2>3, NatStep
<1>2. ASSUME NEW n \in Nat, NEW m \in Nat, NEW f, NEW g, Runs(f, n), Runs(g, m)
      PROVE  \A i \in Nat : i <= n /\ i <= m => f[i] = g[i]
  <2> DEFINE Agree == {i \in Nat : i <= n /\ i <= m => f[i] = g[i]}
  <2>1. 0 \in Agree
    BY <1>2
  <2>2. ASSUME NEW i \in Agree PROVE i + 1 \in Agree
    <3>1. SUFFICES ASSUME i + 1 <= n, i + 1 <= m PROVE f[i + 1] = g[i + 1]
      OBVIOUS
    <3>2. i \in Nat /\ i < n /\ i < m
      BY <3>1
    <3>3. f[i] = g[i]
      BY <3>2
    <3> QED BY <3>2, <3>3, <1>2
  <2> HIDE DEF Agree
  <2>3. Agree \in SUBSET Nat
    BY DEF Agree
  <2>4. Agree = Nat
    BY <2>1, <2>2, <2>3, NatStep
  <2> QED BY <2>4 DEF Agree
<1> DEFINE pick == [n \in Nat |-> CHOOSE f : Runs(f, n)]
           whole == [n \in Nat |-> pick[n][n]]
<1>3. \A n \in Nat : Runs(pick[n], n)
  BY <1>1
<1> HIDE DEF pick, Some, Runs
<1>4. whole \in [Nat -> W] /\ whole[0] = start
  <2>1. \A n \in Nat : pick[n][n] \in W
    BY <1>3 DEF Runs
  <2>2. pick[0][0] = start
    BY <1>3 DEF Runs
  <2> QED BY <2>1, <2>2
<1>5. ASSUME NEW n \in Nat PROVE whole[n + 1] = step[n + 1][whole[n]]
  <2>1. Runs(pick[n], n) /\ n + 1 \in Nat
    BY <1>3
  <2>a. Runs(pick[n + 1], n + 1)
    BY <1>3, <2>1
  <2>2. pick[n + 1][n + 1] = step[n + 1][pick[n + 1][n]]
    BY <2>1, <2>a DEF Runs
  <2>3. pick[n + 1][n] = pick[n][n]
    <3>1. \A i \in Nat : i <= n + 1 /\ i <= n => pick[n + 1][i] = pick[n][i]
      BY <1>2, <2>1, <2>a
    <3> QED BY <3>1
  <2> QED BY <2>1, <2>2, <2>3
<1> HIDE DEF whole
<1> QED BY <1>4, <1>5 DEF Iterates

-----------------------------------------------------------------------------
\* Sequences without repetition, and a product that bounds a walk over two of them.

Once(s) == \A i, j \in 1..Len(s) : s[i] = s[j] => i = j

LEMMA UpTo ==
    ASSUME NEW n \in Nat
    PROVE  IsFiniteSet(1..n) /\ Cardinality(1..n) = n
<1>1. n \in Int /\ 1 \in Int
  OBVIOUS
<1>2. /\ IsFiniteSet(1..n)
      /\ Cardinality(1..n) = IF 1 > n THEN 0 ELSE n - 1 + 1
  BY <1>1, FS_Interval
<1> QED
  BY <1>2

LEMMA OnceCounts ==
    ASSUME NEW T, IsFiniteSet(T), NEW s \in Seq(T), Once(s)
    PROVE  /\ Cardinality(T) \in Nat /\ Len(s) <= Cardinality(T)
           /\ Len(s) = Cardinality(T) <=> ToSet(s) = T
<1>1. s \in [1..Len(s) -> T] /\ Len(s) \in Nat /\ DOMAIN s = 1..Len(s)
  BY LenProperties
<1>2. s \in Injection(1..Len(s), T)
  BY <1>1 DEF Injection, IsInjective, Once
<1>3. IsFiniteSet(1..Len(s)) /\ Cardinality(1..Len(s)) = Len(s)
  BY <1>1, UpTo
<1>4. s \in Surjection(1..Len(s), T) <=> ToSet(s) = T
  BY <1>1 DEF Surjection, ToSet
<1> QED
  BY <1>2, <1>3, <1>4, FS_Injection, FS_CardinalityType

LEMMA OnceAppends ==
    ASSUME NEW T, NEW s \in Seq(T), Once(s), NEW x \in T, x \notin ToSet(s)
    PROVE  Once(Append(s, x))
<1>1. Len(s) \in Nat /\ DOMAIN s = 1..Len(s)
  BY LenProperties
<1>2. \A i \in 1..Len(s) : s[i] # x
  BY <1>1 DEF ToSet
<1> QED
  BY <1>1, <1>2, AppendProperties DEF Once

LEMMA AppendedSet ==
    ASSUME NEW T, NEW s \in Seq(T), NEW x \in T
    PROVE  ToSet(Append(s, x)) = ToSet(s) \cup {x}
<1>1. Len(s) \in Nat /\ DOMAIN s = 1..Len(s) /\ Append(s, x) \in Seq(T)
  BY LenProperties, AppendProperties
<1>2. DOMAIN Append(s, x) = 1..(Len(s) + 1)
  BY <1>1, LenProperties, AppendProperties
<1> QED
  BY <1>1, <1>2, AppendProperties DEF ToSet

LEMMA Rows ==
    ASSUME NEW a \in Nat, NEW b \in Nat, NEW c \in Nat
    PROVE  /\ a * c \in Nat
           /\ (a + 1) * c = a * c + c
           /\ a < b => a * c + c <= b * c
           /\ a <= b => a * c <= b * c
<1>1. a * c \in Nat /\ b * c \in Nat /\ (a + 1) * c = a * c + c
  OBVIOUS
<1>2. ASSUME a <= b PROVE a * c <= b * c
  <2>1. PICK d \in Nat : b = a + d
    <3>1. b - a \in Nat /\ b = a + (b - a)
      BY <1>2
    <3> QED BY <3>1
  <2>2. b * c = a * c + d * c /\ d * c \in Nat
    BY <2>1
  <2> QED
    BY <2>2, <1>1
<1>3. ASSUME a < b PROVE a * c + c <= b * c
  <2>1. PICK d \in Nat : b = (a + 1) + d
    <3>1. b - (a + 1) \in Nat /\ b = (a + 1) + (b - (a + 1))
      BY <1>3
    <3> QED BY <3>1
  <2>2. b * c = (a + 1) * c + d * c /\ d * c \in Nat
    BY <2>1
  <2> QED
    BY <2>2, <1>1
<1> QED
  BY <1>1, <1>2, <1>3

-----------------------------------------------------------------------------
\* A workflow as a graph, whatever its nodes and edges hold otherwise.

IsGraph(w) == w.nodes \in Seq(ToSet(w.nodes)) /\ w.edges \in Seq(ToSet(w.edges))

LEMMA GraphFacts ==
    ASSUME NEW w, IsGraph(w)
    PROVE  /\ Len(w.nodes) \in Nat /\ DOMAIN w.nodes = 1..Len(w.nodes)
           /\ Len(w.edges) \in Nat /\ DOMAIN w.edges = 1..Len(w.edges)
           /\ Inside(w) \subseteq 1..Len(w.edges) /\ IsFiniteSet(1..Len(w.edges))
           /\ Cardinality(1..Len(w.edges)) = Len(w.edges)
           /\ Rounds(w) \in Nat
<1>1. /\ Len(w.nodes) \in Nat /\ DOMAIN w.nodes = 1..Len(w.nodes)
      /\ Len(w.edges) \in Nat /\ DOMAIN w.edges = 1..Len(w.edges)
  BY LenProperties DEF IsGraph
<1> QED
  <2>1. Inside(w) \subseteq DOMAIN w.edges
    BY DEF Inside, EdgesOf
  <2>2. Rounds(w) \in Nat
    <3>1. \A a, b \in Nat : a * (b + 2) \in Nat
      OBVIOUS
    <3> QED
      BY <1>1, <3>1 DEF Rounds
  <2> QED
    BY <1>1, <2>1, <2>2, UpTo

LEMMA IdsFacts ==
    ASSUME NEW w, IsGraph(w)
    PROVE  /\ IsFiniteSet(Ids(w)) /\ Cardinality(Ids(w)) \in Nat
           /\ Cardinality(Ids(w)) <= Len(w.nodes)
           /\ Distinct(w) <=> \A i, j \in 1..Len(w.nodes) :
                                  w.nodes[i].id = w.nodes[j].id => i = j
<1> DEFINE f == [i \in 1..Len(w.nodes) |-> w.nodes[i].id]
<1>1. f \in Surjection(1..Len(w.nodes), Ids(w))
  BY GraphFacts DEF Surjection, Ids, Positions
<1>2. IsFiniteSet(1..Len(w.nodes)) /\ Cardinality(1..Len(w.nodes)) = Len(w.nodes)
  BY GraphFacts, UpTo
<1>3. f \in Injection(1..Len(w.nodes), Ids(w)) <=>
         \A i, j \in 1..Len(w.nodes) : w.nodes[i].id = w.nodes[j].id => i = j
  BY <1>1 DEF Injection, Surjection, IsInjective
<1> QED
  BY <1>1, <1>2, <1>3, FS_Surjection, FS_CardinalityType DEF Distinct

\* An edge that leads on from a node of the workflow is inside it.
LEMMA LeadsInside ==
    ASSUME NEW w, IsGraph(w), NEW i \in 1..Len(w.edges), NEW id \in Ids(w)
    PROVE  Leads(w, i, id) <=> i \in Inside(w) /\ w.edges[i].src = id
BY GraphFacts DEF Leads, Inside, EdgesOf

LEMMA InsideLeads ==
    ASSUME NEW w, IsGraph(w), NEW i \in Inside(w)
    PROVE  /\ i \in 1..Len(w.edges) /\ w.edges[i].src \in Ids(w) /\ w.edges[i].dst \in Ids(w)
           /\ Leads(w, i, w.edges[i].src)
BY GraphFacts DEF Leads, Inside, EdgesOf

\* What lies onward lies onward of everything before it.
LEMMA OnwardFirst ==
    ASSUME NEW w, IsGraph(w), NEW i \in Inside(w)
    PROVE  w.edges[i].dst \in Onward(w, w.edges[i].src)
BY InsideLeads DEF Onward, HasTargets

LEMMA OnwardNext ==
    ASSUME NEW w, IsGraph(w), NEW id, NEW i \in Inside(w), w.edges[i].src \in Onward(w, id)
    PROVE  w.edges[i].dst \in Onward(w, id)
<1> DEFINE x == w.edges[i].src
           y == w.edges[i].dst
<1>1. SUFFICES ASSUME NEW S \in SUBSET (Ids(w) \ {y}), Closed(w, S), HasTargets(w, id, S)
               PROVE  FALSE
  BY InsideLeads DEF Onward
<1>2. x \notin S
  BY <1>1 DEF Closed
<1> QED
  BY <1>1, <1>2 DEF Onward

LEMMA OnwardWithin ==
    ASSUME NEW w, IsGraph(w), NEW i \in Inside(w)
    PROVE  Onward(w, w.edges[i].dst) \subseteq Onward(w, w.edges[i].src)
<1> DEFINE p == w.edges[i].src
           x == w.edges[i].dst
<1>1. SUFFICES ASSUME NEW y \in Onward(w, x),
                      NEW S \in SUBSET (Ids(w) \ {y}), Closed(w, S), HasTargets(w, p, S)
               PROVE  FALSE
  BY DEF Onward
<1>2. x \in S
  BY <1>1 DEF HasTargets
<1>3. HasTargets(w, x, S)
  BY <1>1, <1>2 DEF HasTargets, Closed
<1> QED
  BY <1>1, <1>3 DEF Onward

-----------------------------------------------------------------------------
\* reachable_from.  What went through the queue has its targets in it, and what
\* is in it lies onward of the start.

VisitSeen(w, s) == \A k \in 1..Len(w.edges), j \in 1..Len(s.visited) :
    (j <= s.done \/ (j = s.done + 1 /\ k <= s.edge)) /\ Leads(w, k, s.visited[j])
    => w.edges[k].dst \in ToSet(s.visited)
VisitStates(w, id) ==
    {s \in [visited : Seq(Ids(w)), done : Nat, edge : Nat] :
        /\ Once(s.visited) /\ id \in ToSet(s.visited)
        /\ ToSet(s.visited) \subseteq {id} \cup Onward(w, id)
        /\ s.done <= Len(s.visited) /\ s.edge <= Len(w.edges)
        /\ s.done = Len(s.visited) => s.edge = 0
        /\ VisitSeen(w, s)}
VisitStart(id) == [visited |-> <<id>>, done |-> 0, edge |-> 0]

LEMMA VisitStarts ==
    ASSUME NEW w, IsGraph(w), NEW id \in Ids(w)
    PROVE  VisitStart(id) \in VisitStates(w, id)
<1>1. <<id>> \in Seq(Ids(w)) /\ Len(<<id>>) = 1 /\ <<id>>[1] = id /\ ToSet(<<id>>) = {id}
  BY DEF ToSet
<1> QED
  BY <1>1, GraphFacts DEF VisitStates, VisitStart, VisitSeen, Once

LEMMA VisitSteps ==
    ASSUME NEW w, IsGraph(w), NEW id \in Ids(w), NEW s \in VisitStates(w, id)
    PROVE  /\ VisitStep(w, s) \in VisitStates(w, id)
           /\ s.done < Len(s.visited) =>
                 LET row == Len(w.edges) + 1
                     next == VisitStep(w, s)
                 IN next.done * row + next.edge = s.done * row + s.edge + 1
<1> DEFINE row == Len(w.edges) + 1
           next == VisitStep(w, s)
           Good == /\ next \in VisitStates(w, id)
                   /\ next.done * row + next.edge = s.done * row + s.edge + 1
<1>s. /\ s \in [visited : Seq(Ids(w)), done : Nat, edge : Nat]
      /\ Once(s.visited) /\ id \in ToSet(s.visited)
      /\ ToSet(s.visited) \subseteq {id} \cup Onward(w, id)
      /\ s.done <= Len(s.visited) /\ s.edge <= Len(w.edges)
      /\ s.done = Len(s.visited) => s.edge = 0
      /\ VisitSeen(w, s)
  BY DEF VisitStates
<1>g. /\ Len(w.edges) \in Nat /\ row \in Nat
      /\ Len(s.visited) \in Nat /\ DOMAIN s.visited = 1..Len(s.visited)
      /\ s.done + 1 \in Nat /\ s.edge + 1 \in Nat /\ s.visited \in Seq(Ids(w))
  BY <1>s, GraphFacts, LenProperties
<1>t. s \in [visited : Seq(Ids(w)), done : Nat, edge : Nat]
  BY <1>s
<1>r. s.done * row \in Nat /\ (s.done + 1) * row = s.done * row + row
  BY <1>s, <1>g, Rows
<1>n. next = VisitStep(w, s)
  OBVIOUS
<1>q. row = Len(w.edges) + 1
  OBVIOUS
<1> HIDE DEF row, next
<1>1. ASSUME s.done = Len(s.visited) PROVE next = s
  BY <1>1, <1>g, <1>n DEF VisitStep
<1>2. ASSUME s.done < Len(s.visited), s.edge = Len(w.edges) PROVE Good
  <2>1. next = [s EXCEPT !.done = s.done + 1, !.edge = 0]
    BY <1>2, <1>g, <1>n DEF VisitStep
  <2>2. /\ next \in [visited : Seq(Ids(w)), done : Nat, edge : Nat]
        /\ next.visited = s.visited /\ next.done = s.done + 1 /\ next.edge = 0
    BY <2>1, <1>t, <1>g
  <2>3. VisitSeen(w, next)
    BY <2>2, <1>s, <1>g, <1>2 DEF VisitSeen
  <2>4. next \in VisitStates(w, id)
    BY <2>2, <2>3, <1>s, <1>g, <1>2 DEF VisitStates
  <2> QED
    BY <2>2, <2>4, <1>r, <1>2, <1>g, <1>q
<1>3. ASSUME s.done < Len(s.visited), s.edge < Len(w.edges) PROVE Good
  <2> DEFINE e == s.edge + 1
             from == s.visited[s.done + 1]
             target == w.edges[e].dst
             new == Leads(w, e, from) /\ target \notin ToSet(s.visited)
  <2>1. next = [s EXCEPT !.edge = s.edge + 1,
                         !.visited = IF new THEN Append(s.visited, target) ELSE s.visited]
    BY <1>3, <1>g, <1>n DEF VisitStep, VisitEdge
  <2>2. e \in 1..Len(w.edges) /\ s.done + 1 \in 1..Len(s.visited) /\ from \in ToSet(s.visited)
    BY <1>3, <1>s, <1>g DEF ToSet
  <2>3. from \in Ids(w)
    BY <2>2, <1>s, ElementOfSeq
  <2>4. Leads(w, e, from) => target \in Ids(w) /\ target \in Onward(w, id)
    <3> SUFFICES ASSUME Leads(w, e, from) PROVE target \in Ids(w) /\ target \in Onward(w, id)
      OBVIOUS
    <3>1. e \in Inside(w) /\ w.edges[e].src = from
      BY <2>2, <2>3, LeadsInside
    <3>2. CASE from = id
      BY <3>1, <3>2, OnwardFirst, InsideLeads
    <3>3. CASE from # id
      BY <3>1, <3>3, <2>2, <1>s, OnwardNext, InsideLeads
    <3> QED BY <3>2, <3>3
  <2>5. next.done = s.done /\ next.edge = s.edge + 1
        /\ next.visited = IF new THEN Append(s.visited, target) ELSE s.visited
    BY <2>1, <1>s
  <2>6. next.done * row + next.edge = s.done * row + s.edge + 1
    BY <2>5, <1>r, <1>s, <1>g
  <2>7. CASE ~new
    <3>1. next \in [visited : Seq(Ids(w)), done : Nat, edge : Nat] /\ next.visited = s.visited
      BY <2>1, <2>5, <2>7, <1>t, <1>g
    <3>2. VisitSeen(w, next)
      BY <2>5, <2>7, <1>s, <1>g, <2>2 DEF VisitSeen
    <3> QED
      <4>1. next.edge <= Len(w.edges) /\ (next.done = Len(next.visited) => next.edge = 0)
        BY <3>1, <2>5, <1>g, <1>t, <1>3
      <4>2. next \in VisitStates(w, id)
        BY <3>1, <3>2, <4>1, <2>5, <1>s DEF VisitStates
      <4> QED
        BY <4>2, <2>6
  <2>8. CASE new
    <3> DEFINE more == Append(s.visited, target)
    <3>1. /\ more \in Seq(Ids(w)) /\ Len(more) = Len(s.visited) + 1
          /\ \A i \in 1..Len(s.visited) : more[i] = s.visited[i]
          /\ more[Len(s.visited) + 1] = target
      BY <2>4, <2>8, <1>s, AppendProperties
    <3>2. Once(more) /\ ToSet(more) = ToSet(s.visited) \cup {target}
      BY <2>4, <2>8, <1>s, OnceAppends, AppendedSet
    <3>3. next \in [visited : Seq(Ids(w)), done : Nat, edge : Nat] /\ next.visited = more
      BY <2>1, <2>5, <2>8, <3>1, <1>t, <1>g
    <3> HIDE DEF more
    <3>4. VisitSeen(w, next)
      <4> SUFFICES ASSUME NEW k \in 1..Len(w.edges), NEW j \in 1..Len(more),
                          j <= s.done \/ (j = s.done + 1 /\ k <= s.edge + 1),
                          Leads(w, k, more[j])
                   PROVE  w.edges[k].dst \in ToSet(more)
        BY <2>5, <3>3 DEF VisitSeen
      <4>1. j \in 1..Len(s.visited) /\ more[j] = s.visited[j]
        BY <1>3, <1>s, <1>g, <3>1
      <4>2. CASE j = s.done + 1 /\ k = e
        BY <4>2, <3>2
      <4>3. CASE ~(j = s.done + 1 /\ k = e)
        <5>1. j <= s.done \/ (j = s.done + 1 /\ k <= s.edge)
          BY <4>3, <1>s
        <5> QED BY <5>1, <4>1, <1>s, <3>2 DEF VisitSeen
      <4> QED BY <4>2, <4>3
    <3> QED
      <4>1. /\ next.edge <= Len(w.edges) /\ next.done <= Len(more)
            /\ next.done = Len(more) => next.edge = 0
        BY <3>1, <2>5, <1>g, <1>s, <1>3
      <4>2. next \in VisitStates(w, id)
        BY <3>2, <3>3, <3>4, <4>1, <2>4, <2>8, <1>s DEF VisitStates
      <4> QED
        BY <4>2, <2>6
  <2> QED
    BY <2>7, <2>8
<1> QED
  BY <1>1, <1>2, <1>3, <1>s, <1>g, <1>n, <1>q

LEMMA VisitsUnfold ==
    ASSUME NEW w, IsGraph(w), NEW id \in Ids(w)
    PROVE  /\ Visits(w, id)[0] = VisitStart(id)
           /\ \A n \in Nat : /\ Visits(w, id)[n] \in VisitStates(w, id)
                             /\ Visits(w, id)[n + 1] = VisitStep(w, Visits(w, id)[n])
<1> DEFINE W == VisitStates(w, id)
           start == VisitStart(id)
           step == [n \in Nat |-> [s \in W |-> VisitStep(w, s)]]
           Run(f) == f = [n \in Nat |-> IF n = 0 THEN start ELSE VisitStep(w, f[n - 1])]
           run == Visits(w, id)
<1>1. step \in [Nat -> [W -> W]] /\ start \in W
  BY VisitSteps, VisitStarts
<1>2. \A n \in Nat, s \in W : step[n][s] = VisitStep(w, s) /\ VisitStep(w, s) \in W
  BY VisitSteps
<1>d. run = CHOOSE f : Run(f)
  BY DEF Visits, VisitStart
<1> HIDE DEF step, W, start, run
<1>3. Iterates(W, start, step)
  BY <1>1, Iteration
<1>4. PICK f \in [Nat -> W] : f[0] = start /\ \A n \in Nat : f[n + 1] = step[n + 1][f[n]]
  BY <1>3 DEF Iterates
<1>5. Run(f)
  <2>1. ASSUME NEW n \in Nat, n # 0 PROVE f[n] = VisitStep(w, f[n - 1])
    <3>1. n - 1 \in Nat /\ (n - 1) + 1 = n /\ f[n - 1] \in W
      BY <2>1, <1>4
    <3> QED
      BY <3>1, <1>2, <1>4
  <2>2. f = [n \in Nat |-> f[n]]
    BY <1>4
  <2> QED
    BY <2>1, <2>2, <1>4
<1>6. Run(run)
  BY <1>5, <1>d
<1>7. /\ run[0] = start
      /\ \A n \in Nat : run[n + 1] = VisitStep(w, run[n])
  <2>1. \A n \in Nat : n + 1 \in Nat /\ n + 1 # 0 /\ (n + 1) - 1 = n
    OBVIOUS
  <2> QED
    BY <1>6, <2>1
<1> HIDE DEF Run
<1>8. \A n \in Nat : run[n] \in W
  <2> DEFINE Good == {n \in Nat : run[n] \in W}
  <2>1. 0 \in Good
    BY <1>1, <1>7
  <2>2. ASSUME NEW n \in Good PROVE n + 1 \in Good
    BY <1>2, <1>7
  <2> HIDE DEF Good
  <2>3. Good \in SUBSET Nat
    BY DEF Good
  <2>4. Good = Nat
    BY <2>1, <2>2, <2>3, NatStep
  <2> QED
    BY <2>4 DEF Good
<1> QED
  BY <1>7, <1>8 DEF W, start, run

\* Every step before the walk rests brings it one further, and there is only so far
\* to go.
LEMMA VisitsRest ==
    ASSUME NEW w, IsGraph(w), NEW id \in Ids(w)
    PROVE  LET s == Visits(w, id)[Rounds(w)] IN s.done = Len(s.visited)
<1> DEFINE row == Len(w.edges) + 1
           Rests(s) == s.done = Len(s.visited)
           Turn(n) == Visits(w, id)[n]
           Good == {n \in Nat : Rests(Turn(n)) \/ Turn(n).done * row + Turn(n).edge = n}
<1>g. /\ row \in Nat /\ Len(w.nodes) \in Nat /\ Len(w.edges) \in Nat
      /\ Rounds(w) \in Nat
  BY GraphFacts
<1>t. \A s \in VisitStates(w, id) :
         /\ s.done \in Nat /\ s.edge \in Nat /\ s.edge <= Len(w.edges)
         /\ Len(s.visited) \in Nat /\ s.done <= Len(s.visited)
         /\ Len(s.visited) <= Len(w.nodes)
  <2> SUFFICES ASSUME NEW s \in VisitStates(w, id)
               PROVE  /\ s.done \in Nat /\ s.edge \in Nat /\ s.edge <= Len(w.edges)
                      /\ Len(s.visited) \in Nat /\ s.done <= Len(s.visited)
                      /\ Len(s.visited) <= Len(w.nodes)
    OBVIOUS
  <2>1. s.visited \in Seq(Ids(w)) /\ Once(s.visited)
    BY DEF VisitStates
  <2>2. Len(s.visited) \in Nat /\ Len(s.visited) <= Cardinality(Ids(w))
    BY <2>1, IdsFacts, OnceCounts, LenProperties
  <2> QED
    BY <2>2, IdsFacts, <1>g DEF VisitStates
<1>1. 0 \in Good
  <2>1. Turn(0).done = 0 /\ Turn(0).edge = 0
    <3>1. Turn(0) = VisitStart(id)
      BY VisitsUnfold
    <3> HIDE DEF Turn
    <3> QED
      BY <3>1 DEF VisitStart
  <2>2. 0 * row + 0 = 0
    BY <1>g
  <2> QED
    BY <2>1, <2>2
<1>2. ASSUME NEW n \in Good PROVE n + 1 \in Good
  <2>1. n \in Nat /\ Turn(n) \in VisitStates(w, id) /\ Turn(n + 1) = VisitStep(w, Turn(n))
    BY VisitsUnfold
  <2>2. CASE Rests(Turn(n))
    <3>1. Turn(n + 1) = Turn(n)
      BY <2>1, <2>2, <1>t DEF VisitStep
    <3> QED
      BY <2>1, <2>2, <3>1
  <2>3. CASE ~Rests(Turn(n))
    <3>1. Turn(n).done < Len(Turn(n).visited)
      BY <2>1, <2>3, <1>t
    <3>2. Turn(n + 1).done * row + Turn(n + 1).edge = Turn(n).done * row + Turn(n).edge + 1
      BY <2>1, <3>1, VisitSteps
    <3>3. Turn(n).done * row + Turn(n).edge = n
      BY <2>3
    <3> HIDE DEF Turn, row
    <3> QED
      BY <2>1, <3>2, <3>3
  <2> QED
    BY <2>2, <2>3
<1>3. Good = Nat
  <2>1. Good \in SUBSET Nat
    OBVIOUS
  <2> HIDE DEF Good
  <2> QED
    BY <1>1, <1>2, <2>1, NatStep
<1> DEFINE s == Turn(Rounds(w))
<1>4. s \in VisitStates(w, id)
  BY <1>g, VisitsUnfold
<1>5. Rests(s) \/ s.done * row + s.edge = Rounds(w)
  BY <1>3, <1>g
<1>6. ASSUME s.done < Len(s.visited) PROVE s.done * row + s.edge < Rounds(w)
  <2>1. s.done \in Nat /\ s.edge \in Nat /\ s.edge < row /\ s.done < Len(w.nodes)
    BY <1>4, <1>6, <1>t, <1>g
  <2>2. s.done * row + row <= Len(w.nodes) * row /\ s.done * row \in Nat
    BY <2>1, <1>g, Rows
  <2>3. Rounds(w) = Len(w.nodes) * row + Len(w.nodes)
    <3>1. \A a, b \in Nat : a * (b + 2) = a * (b + 1) + a
      OBVIOUS
    <3> QED
      BY <3>1, <1>g DEF Rounds
  <2>4. Len(w.nodes) * row \in Nat
    BY <1>g, Rows
  <2> HIDE DEF s, row
  <2> QED
    BY <2>1, <2>2, <2>3, <2>4, <1>g
<1>7. s.done * row + s.edge \in Nat
  <2>1. s.done * row \in Nat /\ s.edge \in Nat
    BY <1>4, <1>t, <1>g, Rows
  <2> HIDE DEF s, row
  <2> QED
    BY <2>1
<1> QED
  <2> HIDE DEF Good
  <2>1. s.done <= Len(s.visited) /\ s.done \in Nat /\ Len(s.visited) \in Nat
    BY <1>4, <1>t
  <2> HIDE DEF s, row
  <2>2. s.done = Len(s.visited)
    BY <1>5, <1>6, <1>7, <1>g, <2>1
  <2> QED
    BY <2>2 DEF s

\* What reachable_from returns is the start and what lies onward of it.
LEMMA ReachableIs ==
    ASSUME NEW w, IsGraph(w), NEW id \in Ids(w)
    PROVE  ReachableFrom(w, id) = {id} \cup Onward(w, id)
<1> DEFINE s == Visits(w, id)[Rounds(w)]
           seen == ToSet(s.visited)
<1>1. s \in VisitStates(w, id) /\ s.done = Len(s.visited)
  BY VisitsUnfold, VisitsRest, GraphFacts
<1>2. ReachableFrom(w, id) = seen
  BY DEF ReachableFrom
<1> HIDE DEF s
<1>3. s.visited \in Seq(Ids(w)) /\ Len(s.visited) \in Nat /\ DOMAIN s.visited = 1..Len(s.visited)
  BY <1>1, LenProperties DEF VisitStates
<1>4. seen \subseteq Ids(w) /\ id \in seen /\ seen \subseteq {id} \cup Onward(w, id)
  BY <1>1, <1>3, ElementOfSeq DEF ToSet, VisitStates
<1>5. ASSUME NEW i \in Inside(w), w.edges[i].src \in seen PROVE w.edges[i].dst \in seen
  <2>1. PICK j \in 1..Len(s.visited) : s.visited[j] = w.edges[i].src
    BY <1>3, <1>5 DEF ToSet
  <2>2. i \in 1..Len(w.edges) /\ Leads(w, i, s.visited[j]) /\ j <= s.done
    BY <2>1, <1>1, InsideLeads
  <2> QED
    BY <2>1, <2>2, <1>1 DEF VisitStates, VisitSeen
<1>6. Closed(w, seen) /\ HasTargets(w, id, seen)
  BY <1>4, <1>5 DEF Closed, HasTargets
<1>7. Onward(w, id) \subseteq seen
  <2> HIDE DEF seen
  <2> SUFFICES ASSUME NEW x \in Onward(w, id), x \notin seen PROVE FALSE
    OBVIOUS
  <2>1. seen \in SUBSET (Ids(w) \ {x})
    BY <1>4
  <2> QED
    BY <1>6, <2>1 DEF Onward
<1> QED
  BY <1>2, <1>4, <1>7

-----------------------------------------------------------------------------
\* topological_order, where no two nodes share an id.  A degree counts the edges
\* that have not been looked at from a scheduled source yet.

Released(w, s, i) == \E j \in 1..Len(s.order) :
    s.order[j] = w.edges[i].src /\ (j <= s.done \/ (j = s.done + 1 /\ i <= s.edge))
Pending(w, s, t) == {i \in Inside(w) : w.edges[i].dst = t /\ ~Released(w, s, i)}

KahnType(w) == [root : Nat, order : Seq(Ids(w)), done : Nat, edge : Nat,
                degree : [Ids(w) -> Nat]]
KahnBounds(w, s) ==
    /\ s.root <= Len(w.nodes) /\ s.done <= Len(s.order) /\ s.edge <= Len(w.edges)
    /\ s.root < Len(w.nodes) => s.done = 0 /\ s.edge = 0
    /\ s.done = Len(s.order) => s.edge = 0
KahnCounts(w, s) == \A t \in Ids(w) : s.degree[t] = Cardinality(Pending(w, s, t))
KahnClear(w, s) == \A j \in 1..Len(s.order) : Pending(w, s, s.order[j]) = {}
KahnFinds(w, s) == \A i \in 1..Len(w.nodes) :
    i <= s.root /\ Pending(w, s, w.nodes[i].id) = {} => w.nodes[i].id \in ToSet(s.order)
KahnFrom(w, s) == \A j \in 1..Len(s.order) : \E i \in 1..Len(w.nodes) :
    i <= s.root /\ s.order[j] = w.nodes[i].id
\* Every control edge into a scheduled node comes from a node scheduled before.
Forward(w, line) == \A i \in Inside(w), j \in 1..Len(line) :
    line[j] = w.edges[i].dst => \E k \in 1..Len(line) : k < j /\ line[k] = w.edges[i].src

KahnStates(w) ==
    {s \in KahnType(w) : /\ KahnBounds(w, s) /\ Once(s.order) /\ KahnCounts(w, s)
                         /\ KahnClear(w, s) /\ KahnFinds(w, s) /\ KahnFrom(w, s)
                         /\ Forward(w, s.order)}
KahnStart(w) == [root |-> 0, order |-> <<>>, done |-> 0, edge |-> 0,
                 degree |-> InDegree(w)]

LEMMA PendingFacts ==
    ASSUME NEW w, IsGraph(w), NEW s, NEW t
    PROVE  /\ IsFiniteSet(Pending(w, s, t)) /\ Cardinality(Pending(w, s, t)) \in Nat
           /\ Cardinality(Pending(w, s, t)) = 0 <=> Pending(w, s, t) = {}
<1>1. Pending(w, s, t) \subseteq 1..Len(w.edges) /\ IsFiniteSet(1..Len(w.edges))
  BY GraphFacts DEF Pending
<1>2. IsFiniteSet(Pending(w, s, t))
  BY <1>1, FS_Subset
<1> QED
  BY <1>2, FS_CardinalityType, FS_EmptySet

LEMMA KahnStarts ==
    ASSUME NEW w, IsGraph(w)
    PROVE  KahnStart(w) \in KahnStates(w)
<1> DEFINE s == KahnStart(w)
<1>1. /\ s.root = 0 /\ s.order = <<>> /\ s.done = 0 /\ s.edge = 0 /\ s.degree = InDegree(w)
      /\ Len(s.order) = 0 /\ s.order \in Seq(Ids(w))
  BY DEF KahnStart
<1>2. ASSUME NEW t \in Ids(w)
      PROVE  {i \in EdgesTo(w, t) : w.edges[i].src \in Ids(w)} = Pending(w, s, t)
  BY <1>1 DEF EdgesTo, Inside, Pending, Released
<1>3. KahnCounts(w, s)
  BY <1>1, <1>2 DEF KahnCounts, InDegree
<1>4. s.degree \in [Ids(w) -> Nat]
  <2>1. InDegree(w) = [t \in Ids(w) |-> Cardinality(Pending(w, s, t))]
    BY <1>2 DEF InDegree
  <2>2. \A t \in Ids(w) : Cardinality(Pending(w, s, t)) \in Nat
    BY PendingFacts
  <2> HIDE DEF s
  <2> QED
    BY <1>1, <2>1, <2>2
<1>5. s \in KahnType(w)
  BY <1>1, <1>4 DEF KahnType, KahnStart
<1> HIDE DEF s
<1>6. 1..Len(s.order) = {}
  BY <1>1
<1>7. KahnBounds(w, s)
  BY <1>1, GraphFacts DEF KahnBounds
<1>8. KahnClear(w, s) /\ KahnFrom(w, s) /\ Once(s.order) /\ Forward(w, s.order)
  BY <1>6 DEF KahnClear, KahnFrom, Once, Forward
<1>9. KahnFinds(w, s)
  BY <1>1, GraphFacts DEF KahnFinds
<1>10. s \in KahnStates(w)
  BY <1>3, <1>5, <1>7, <1>8, <1>9 DEF KahnStates
<1> QED
  BY <1>10 DEF s

\* A node all of whose edges have been looked at can be scheduled.
SourcesIn(w, next, line) == \A i \in Inside(w) :
    Released(w, next, i) => \E j \in 1..Len(line) : line[j] = w.edges[i].src
Scheduled(w, s, next, x) ==
    /\ next.order \in Seq(Ids(w)) /\ Len(next.order) = Len(s.order) + 1
    /\ \A j \in 1..Len(s.order) : next.order[j] = s.order[j]
    /\ next.order[Len(s.order) + 1] = x
    /\ ToSet(next.order) = ToSet(s.order) \cup {x}
    /\ Once(next.order) /\ Forward(w, next.order)

LEMMA KahnAppends ==
    ASSUME NEW w, IsGraph(w), NEW s \in KahnStates(w), NEW next,
           NEW x \in Ids(w), x \notin ToSet(s.order), next.order = Append(s.order, x),
           Pending(w, next, x) = {}, SourcesIn(w, next, s.order)
    PROVE  Scheduled(w, s, next, x)
<1>1. s.order \in Seq(Ids(w)) /\ Len(s.order) \in Nat /\ Once(s.order) /\ Forward(w, s.order)
  BY LenProperties DEF KahnStates, KahnType
<1>2. /\ next.order \in Seq(Ids(w)) /\ Len(next.order) = Len(s.order) + 1
      /\ \A j \in 1..Len(s.order) : next.order[j] = s.order[j]
      /\ next.order[Len(s.order) + 1] = x
  BY <1>1, AppendProperties
<1>3. ToSet(next.order) = ToSet(s.order) \cup {x} /\ Once(next.order)
  BY <1>1, AppendedSet, OnceAppends
<1>4. ASSUME NEW i \in Inside(w), NEW j \in 1..Len(next.order), next.order[j] = w.edges[i].dst
      PROVE  \E k \in 1..Len(next.order) : k < j /\ next.order[k] = w.edges[i].src
  <2>1. CASE j \in 1..Len(s.order)
    <3>1. s.order[j] = w.edges[i].dst
      BY <1>2, <1>4, <2>1
    <3>2. PICK k \in 1..Len(s.order) : k < j /\ s.order[k] = w.edges[i].src
      BY <1>1, <2>1, <3>1 DEF Forward
    <3> QED
      BY <1>1, <1>2, <3>2
  <2>2. CASE j = Len(s.order) + 1
    <3>1. Released(w, next, i)
      BY <1>2, <1>4, <2>2 DEF Pending
    <3>2. PICK k \in 1..Len(s.order) : s.order[k] = w.edges[i].src
      BY <3>1 DEF SourcesIn
    <3> QED
      BY <1>1, <1>2, <2>2, <3>2
  <2> QED
    BY <1>1, <1>2, <2>1, <2>2
<1> QED
  BY <1>2, <1>3, <1>4 DEF Forward, Scheduled

LEMMA KahnFindReady ==
    ASSUME NEW w, IsGraph(w), Distinct(w), NEW s \in KahnStates(w), s.root < Len(w.nodes),
           NEW next, next = FindReady(w, s)
    PROVE  next \in KahnStates(w) /\ next.root = s.root + 1
           /\ next.done = s.done /\ next.edge = s.edge
<1> DEFINE x == w.nodes[s.root + 1].id
<1>s. /\ s \in KahnType(w) /\ KahnBounds(w, s) /\ Once(s.order) /\ KahnCounts(w, s)
      /\ KahnClear(w, s) /\ KahnFinds(w, s) /\ KahnFrom(w, s) /\ Forward(w, s.order)
  BY DEF KahnStates
<1>t. /\ s.root \in Nat /\ s.root + 1 \in Nat /\ s.done = 0 /\ s.edge = 0
      /\ s.order \in Seq(Ids(w)) /\ Len(s.order) \in Nat /\ DOMAIN s.order = 1..Len(s.order)
      /\ s.degree \in [Ids(w) -> Nat] /\ Len(w.nodes) \in Nat /\ s.root + 1 \in 1..Len(w.nodes)
  BY <1>s, GraphFacts, LenProperties DEF KahnType, KahnBounds
<1>x. x \in Ids(w)
  BY <1>t, GraphFacts DEF Ids, Positions
<1>n. next = [s EXCEPT !.root = s.root + 1,
                       !.order = IF s.degree[x] = 0 THEN Append(s.order, x) ELSE s.order]
  BY DEF FindReady
<1> HIDE DEF x
<1>v. s \in [root : Nat, order : Seq(Ids(w)), done : Nat, edge : Nat, degree : [Ids(w) -> Nat]]
  BY <1>s DEF KahnType
<1>1. /\ next.root = s.root + 1 /\ next.done = 0 /\ next.edge = 0 /\ next.degree = s.degree
      /\ next.order = IF s.degree[x] = 0 THEN Append(s.order, x) ELSE s.order
  BY <1>n, <1>v, <1>t
<1>2. \A i \in Inside(w) : ~Released(w, next, i) /\ ~Released(w, s, i)
  BY <1>1, <1>t, InsideLeads DEF Released
<1>3. \A t : Pending(w, next, t) = Pending(w, s, t)
  BY <1>2 DEF Pending
<1>4. KahnCounts(w, next) /\ (s.degree[x] = 0 <=> Pending(w, next, x) = {})
  BY <1>s, <1>1, <1>3, <1>x, PendingFacts DEF KahnCounts
<1>5. x \notin ToSet(s.order)
  <2> SUFFICES ASSUME NEW j \in 1..Len(s.order), s.order[j] = x PROVE FALSE
    BY <1>t DEF ToSet
  <2>1. PICK i \in 1..Len(w.nodes) : i <= s.root /\ w.nodes[i].id = x
    BY <1>s DEF KahnFrom
  <2>2. i = s.root + 1
    BY <2>1, <1>t, IdsFacts DEF x
  <2> QED
    BY <2>1, <2>2, <1>t
<1>6. CASE s.degree[x] # 0
  <2>1. next.order = s.order
    BY <1>1, <1>6
  <2>2. next \in KahnType(w)
    BY <1>n, <1>6, <1>t, <1>v DEF KahnType
  <2>3. KahnBounds(w, next)
    BY <1>1, <1>s, <1>t, <2>1 DEF KahnBounds
  <2>4. KahnClear(w, next)
    BY <1>3, <1>s, <2>1 DEF KahnClear
  <2>5. KahnFinds(w, next)
    <3> SUFFICES ASSUME NEW i \in 1..Len(w.nodes), i <= s.root + 1,
                        Pending(w, next, w.nodes[i].id) = {}
                 PROVE  w.nodes[i].id \in ToSet(s.order)
      BY <1>1, <2>1 DEF KahnFinds
    <3>1. i # s.root + 1
      BY <1>4, <1>6 DEF x
    <3> QED
      BY <3>1, <1>3, <1>s, <1>t DEF KahnFinds
  <2>6. KahnFrom(w, next)
    <3> SUFFICES ASSUME NEW j \in 1..Len(s.order)
                 PROVE  \E i \in 1..Len(w.nodes) : i <= s.root + 1 /\ s.order[j] = w.nodes[i].id
      BY <1>1, <2>1 DEF KahnFrom
    <3>1. PICK i \in 1..Len(w.nodes) : i <= s.root /\ s.order[j] = w.nodes[i].id
      BY <1>s DEF KahnFrom
    <3> QED
      BY <3>1, <1>t
  <2> QED
    BY <1>1, <1>4, <1>s, <1>t, <2>1, <2>2, <2>3, <2>4, <2>5, <2>6 DEF KahnStates
<1>7. CASE s.degree[x] = 0
  <2>1. next.order = Append(s.order, x)
    BY <1>1, <1>7
  <2>2. /\ next.order \in Seq(Ids(w)) /\ Len(next.order) = Len(s.order) + 1
        /\ \A j \in 1..Len(s.order) : next.order[j] = s.order[j]
        /\ next.order[Len(s.order) + 1] = x
        /\ ToSet(next.order) = ToSet(s.order) \cup {x}
        /\ Once(next.order) /\ Forward(w, next.order)
    <3>1. Pending(w, next, x) = {}
      BY <1>4, <1>7
    <3>2. SourcesIn(w, next, s.order)
      BY <1>2 DEF SourcesIn
    <3>3. Scheduled(w, s, next, x)
      BY <1>x, <1>5, <2>1, <3>1, <3>2, KahnAppends
    <3> QED
      BY <3>3 DEF Scheduled
  <2>3. next \in KahnType(w)
    <3>1. next = [s EXCEPT !.root = s.root + 1, !.order = Append(s.order, x)]
      BY <1>n, <1>7
    <3>2. Append(s.order, x) \in Seq(Ids(w))
      BY <2>1, <2>2
    <3> QED
      BY <3>1, <3>2, <1>t, <1>v DEF KahnType
  <2>4. KahnBounds(w, next)
    BY <1>1, <1>s, <1>t, <2>2 DEF KahnBounds
  <2>j. \A j \in 1..Len(next.order) :
           j \in 1..Len(s.order) \/ (j = Len(s.order) + 1 /\ next.order[j] = x)
    BY <1>t, <2>2
  <2>5. KahnClear(w, next)
    <3> SUFFICES ASSUME NEW j \in 1..Len(next.order) PROVE Pending(w, next, next.order[j]) = {}
      BY DEF KahnClear
    <3>1. CASE j \in 1..Len(s.order)
      BY <3>1, <1>3, <1>s, <2>2 DEF KahnClear
    <3>2. CASE next.order[j] = x
      BY <3>2, <1>4, <1>7
    <3> QED
      BY <2>j, <3>1, <3>2
  <2>6. KahnFinds(w, next)
    <3> SUFFICES ASSUME NEW i \in 1..Len(w.nodes), i <= s.root + 1,
                        Pending(w, next, w.nodes[i].id) = {}
                 PROVE  w.nodes[i].id \in ToSet(next.order)
      BY <1>1 DEF KahnFinds
    <3>1. CASE i = s.root + 1
      BY <3>1, <2>2 DEF x
    <3>2. CASE i <= s.root
      BY <3>2, <1>3, <1>s, <2>2 DEF KahnFinds
    <3> QED
      BY <3>1, <3>2, <1>t
  <2>7. KahnFrom(w, next)
    <3> SUFFICES ASSUME NEW j \in 1..Len(next.order)
                 PROVE  \E i \in 1..Len(w.nodes) : i <= s.root + 1 /\ next.order[j] = w.nodes[i].id
      BY <1>1 DEF KahnFrom
    <3>1. CASE j \in 1..Len(s.order)
      <4>1. PICK i \in 1..Len(w.nodes) : i <= s.root /\ s.order[j] = w.nodes[i].id
        BY <3>1, <1>s DEF KahnFrom
      <4> QED
        BY <4>1, <3>1, <1>t, <2>2
    <3>2. CASE next.order[j] = x
      BY <3>2, <1>t DEF x
    <3> QED
      BY <2>j, <3>1, <3>2
  <2> QED
    BY <1>1, <1>4, <1>t, <2>2, <2>3, <2>4, <2>5, <2>6, <2>7 DEF KahnStates
<1> QED
  BY <1>6, <1>7

\* The row of a scheduled node is done.
LEMMA KahnRowEnds ==
    ASSUME NEW w, IsGraph(w), NEW s \in KahnStates(w),
           s.root = Len(w.nodes), s.done < Len(s.order), s.edge = Len(w.edges),
           NEW next, next = [s EXCEPT !.done = s.done + 1, !.edge = 0]
    PROVE  /\ next \in KahnStates(w) /\ next.root = s.root
           /\ next.done = s.done + 1 /\ next.edge = 0
<1>s. /\ s \in KahnType(w) /\ KahnBounds(w, s) /\ Once(s.order) /\ KahnCounts(w, s)
      /\ KahnClear(w, s) /\ KahnFinds(w, s) /\ KahnFrom(w, s) /\ Forward(w, s.order)
  BY DEF KahnStates
<1>t. /\ s.root \in Nat /\ s.done \in Nat /\ s.done + 1 \in Nat /\ s.edge \in Nat
      /\ s.order \in Seq(Ids(w)) /\ Len(s.order) \in Nat
      /\ s.degree \in [Ids(w) -> Nat] /\ Len(w.nodes) \in Nat /\ Len(w.edges) \in Nat
  BY <1>s, GraphFacts, LenProperties DEF KahnType
<1>v. s \in [root : Nat, order : Seq(Ids(w)), done : Nat, edge : Nat, degree : [Ids(w) -> Nat]]
  BY <1>s DEF KahnType
<1>1. /\ next.root = s.root /\ next.done = s.done + 1 /\ next.edge = 0
      /\ next.degree = s.degree /\ next.order = s.order
      /\ next \in KahnType(w)
  BY <1>v, <1>t DEF KahnType
<1>2. \A i \in Inside(w) : Released(w, next, i) <=> Released(w, s, i)
  <2> SUFFICES ASSUME NEW i \in Inside(w), NEW j \in 1..Len(s.order)
               PROVE  (j <= s.done + 1 \/ (j = s.done + 1 + 1 /\ i <= 0))
                         <=> (j <= s.done \/ (j = s.done + 1 /\ i <= s.edge))
    BY <1>1 DEF Released
  <2>1. i \in 1..Len(w.edges)
    BY InsideLeads
  <2> QED
    BY <2>1, <1>t
<1>3. \A t : Pending(w, next, t) = Pending(w, s, t)
  BY <1>2 DEF Pending
<1>4. KahnBounds(w, next)
  BY <1>1, <1>s, <1>t DEF KahnBounds
<1>5. KahnCounts(w, next) /\ KahnClear(w, next) /\ KahnFinds(w, next) /\ KahnFrom(w, next)
  BY <1>1, <1>3, <1>s DEF KahnCounts, KahnClear, KahnFinds, KahnFrom
<1> QED
  BY <1>1, <1>4, <1>5, <1>s DEF KahnStates

LEMMA KahnReleaseEdge ==
    ASSUME NEW w, IsGraph(w), NEW s \in KahnStates(w),
           s.root = Len(w.nodes), s.done < Len(s.order), s.edge < Len(w.edges),
           NEW next, next = ReleaseEdge(w, s)
    PROVE  /\ next \in KahnStates(w) /\ next.root = s.root
           /\ next.done = s.done /\ next.edge = s.edge + 1
<1> DEFINE e == s.edge + 1
           from == s.order[s.done + 1]
           target == w.edges[e].dst
           counts == Leads(w, e, from) /\ s.degree[target] > 0
           degree == IF counts THEN [s.degree EXCEPT ![target] = s.degree[target] - 1]
                     ELSE s.degree
           line == IF counts /\ s.degree[target] = 1 THEN Append(s.order, target) ELSE s.order
<1>s. /\ s \in KahnType(w) /\ KahnBounds(w, s) /\ Once(s.order) /\ KahnCounts(w, s)
      /\ KahnClear(w, s) /\ KahnFinds(w, s) /\ KahnFrom(w, s) /\ Forward(w, s.order)
  BY DEF KahnStates
<1>t. /\ s.root \in Nat /\ s.done \in Nat /\ s.edge \in Nat /\ s.edge + 1 \in Nat
      /\ s.order \in Seq(Ids(w)) /\ Len(s.order) \in Nat /\ DOMAIN s.order = 1..Len(s.order)
      /\ s.degree \in [Ids(w) -> Nat] /\ Len(w.nodes) \in Nat /\ Len(w.edges) \in Nat
      /\ e \in 1..Len(w.edges) /\ s.done + 1 \in 1..Len(s.order)
  BY <1>s, GraphFacts, LenProperties DEF KahnType
<1>v. s \in [root : Nat, order : Seq(Ids(w)), done : Nat, edge : Nat, degree : [Ids(w) -> Nat]]
  BY <1>s DEF KahnType
<1>f. from \in Ids(w)
  BY <1>t, ElementOfSeq
<1>n. next = [s EXCEPT !.edge = s.edge + 1, !.degree = degree, !.order = line]
  BY DEF ReleaseEdge
<1>l. Leads(w, e, from) <=> e \in Inside(w) /\ w.edges[e].src = from
  BY <1>t, <1>f, LeadsInside
<1>i. \A i \in Inside(w) : i \in 1..Len(w.edges)
  BY InsideLeads
<1>d. degree = IF counts THEN [s.degree EXCEPT ![target] = s.degree[target] - 1] ELSE s.degree
  OBVIOUS
<1>o. line = IF counts /\ s.degree[target] = 1 THEN Append(s.order, target) ELSE s.order
  OBVIOUS
<1>c. counts <=> Leads(w, e, from) /\ s.degree[target] > 0
  OBVIOUS
<1>g. target = w.edges[e].dst /\ e = s.edge + 1 /\ from = s.order[s.done + 1]
  OBVIOUS
<1> HIDE DEF degree, line, counts, target, from, e
\* Only edge e changes, and it is pending if it leads on.
<1>1. /\ next.root = s.root /\ next.done = s.done /\ next.edge = s.edge + 1
      /\ next.degree = degree /\ next.order = line
  BY <1>n, <1>v
<1>2. Len(line) \in Nat /\ Len(line) >= Len(s.order)
      /\ \A j \in 1..Len(s.order) : line[j] = s.order[j]
  <2>1. CASE line = s.order
    BY <2>1, <1>t
  <2>2. CASE line # s.order
    <3>1. line = Append(s.order, target) /\ target \in Ids(w)
      BY <2>2, <1>o, <1>c, <1>g DEF Leads
    <3> QED
      BY <3>1, <1>t, AppendProperties
  <2> QED
    BY <2>1, <2>2
<1>3. ASSUME NEW i \in Inside(w)
      PROVE  Released(w, next, i) <=> Released(w, s, i) \/ (i = e /\ w.edges[i].src = from)
  <2>i. i \in 1..Len(w.edges)
    BY <1>i
  <2>1. ASSUME Released(w, next, i)
        PROVE  Released(w, s, i) \/ (i = e /\ w.edges[i].src = from)
    <3>1. PICK j \in 1..Len(line) :
             line[j] = w.edges[i].src /\ (j <= s.done \/ (j = s.done + 1 /\ i <= s.edge + 1))
      BY <2>1, <1>1 DEF Released
    <3>2. j \in 1..Len(s.order) /\ s.order[j] = w.edges[i].src
      BY <3>1, <1>2, <1>t
    <3>3. CASE j = s.done + 1 /\ i = e
      BY <3>2, <3>3, <1>g
    <3>4. CASE ~(j = s.done + 1 /\ i = e)
      <4>1. j <= s.done \/ (j = s.done + 1 /\ i <= s.edge)
        BY <3>1, <3>4, <2>i, <1>t, <1>g
      <4> QED
        BY <4>1, <3>2 DEF Released
    <3> QED
      BY <3>3, <3>4
  <2>2. ASSUME Released(w, s, i) PROVE Released(w, next, i)
    <3>1. PICK j \in 1..Len(s.order) :
             s.order[j] = w.edges[i].src /\ (j <= s.done \/ (j = s.done + 1 /\ i <= s.edge))
      BY <2>2 DEF Released
    <3>2. j \in 1..Len(line) /\ line[j] = w.edges[i].src
      BY <3>1, <1>2, <1>t
    <3>3. j <= s.done \/ (j = s.done + 1 /\ i <= s.edge + 1)
      BY <3>1, <2>i, <1>t
    <3> QED
      BY <3>2, <3>3, <1>1 DEF Released
  <2>3. ASSUME i = e, w.edges[i].src = from PROVE Released(w, next, i)
    <3>1. s.done + 1 \in 1..Len(line) /\ line[s.done + 1] = w.edges[i].src
      BY <2>3, <1>2, <1>t, <1>g
    <3> QED
      BY <3>1, <2>3, <1>1, <1>g, <1>t DEF Released
  <2> QED
    BY <2>1, <2>2, <2>3
<1>4. e \in Inside(w) /\ w.edges[e].src = from => ~Released(w, s, e)
  <2> SUFFICES ASSUME w.edges[e].src = from, NEW j \in 1..Len(s.order), s.order[j] = from,
                      j <= s.done \/ (j = s.done + 1 /\ e <= s.edge)
               PROVE  FALSE
    BY DEF Released
  <2>1. j = s.done + 1
    BY <1>s, <1>t, <1>g DEF Once
  <2> QED
    BY <2>1, <1>t, <1>g
<1>5. Leads(w, e, from) => target \in Ids(w) /\ e \in Pending(w, s, target)
  BY <1>4, <1>l, <1>g DEF Pending, Leads
<1>6. ASSUME NEW t PROVE Pending(w, next, t) = IF Leads(w, e, from) /\ t = target
                                               THEN Pending(w, s, t) \ {e}
                                               ELSE Pending(w, s, t)
  BY <1>3, <1>l, <1>g DEF Pending
<1>7. counts <=> Leads(w, e, from)
  <2>1. ASSUME Leads(w, e, from) PROVE s.degree[target] > 0
    <3>1. s.degree[target] = Cardinality(Pending(w, s, target)) /\ s.degree[target] \in Nat
      BY <2>1, <1>5, <1>s, <1>t DEF KahnCounts
    <3> QED
      BY <2>1, <1>5, <3>1, PendingFacts
  <2> QED
    BY <2>1, <1>c
<1>8. degree \in [Ids(w) -> Nat] /\ KahnCounts(w, next)
  <2>1. CASE ~counts
    <3>1. degree = s.degree /\ \A t : Pending(w, next, t) = Pending(w, s, t)
      BY <2>1, <1>6, <1>7, <1>d
    <3> QED
      BY <3>1, <1>1, <1>s, <1>t DEF KahnCounts
  <2>2. CASE counts
    <3>1. /\ target \in Ids(w) /\ s.degree[target] > 0 /\ s.degree[target] \in Nat
          /\ s.degree[target] = Cardinality(Pending(w, s, target))
      BY <2>2, <1>5, <1>7, <1>c, <1>s, <1>t DEF KahnCounts
    <3>2. Cardinality(Pending(w, s, target) \ {e}) = s.degree[target] - 1
      BY <2>2, <3>1, <1>5, <1>7, PendingFacts, FS_RemoveElement
    <3>3. degree = [s.degree EXCEPT ![target] = s.degree[target] - 1]
      BY <2>2, <1>d
    <3>4. degree \in [Ids(w) -> Nat]
      BY <3>1, <3>3, <1>t
    <3>5. ASSUME NEW t \in Ids(w) PROVE degree[t] = Cardinality(Pending(w, next, t))
      <4>1. CASE t = target
        BY <4>1, <2>2, <1>6, <1>7, <3>1, <3>2, <3>3, <1>t
      <4>2. CASE t # target
        <5>1. Pending(w, next, t) = Pending(w, s, t) /\ degree[t] = s.degree[t]
          BY <4>2, <1>6, <3>3, <1>t
        <5> QED
          BY <5>1, <1>s DEF KahnCounts
      <4> QED
        BY <4>1, <4>2
    <3> QED
      BY <3>4, <3>5, <1>1 DEF KahnCounts
  <2> QED
    BY <2>1, <2>2
\* A node that is scheduled already has no pending edge that e could have been.
<1>9. ASSUME NEW j \in 1..Len(s.order) PROVE Pending(w, next, s.order[j]) = {}
  <2>1. Pending(w, s, s.order[j]) = {}
    BY <1>s DEF KahnClear
  <2> QED
    BY <2>1, <1>6
<1>10. KahnBounds(w, next) /\ next.root = Len(w.nodes)
  <2>1. s.done < Len(line) /\ s.edge + 1 <= Len(w.edges)
    BY <1>2, <1>t
  <2> QED
    BY <2>1, <1>1, <1>2, <1>s, <1>t DEF KahnBounds
<1>11. ASSUME NEW t \in Ids(w), t # target, Pending(w, next, t) = {}
       PROVE  t \in ToSet(s.order)
  <2>1. Pending(w, s, t) = {}
    BY <1>11, <1>6
  <2>2. PICK i \in 1..Len(w.nodes) : w.nodes[i].id = t
    BY GraphFacts DEF Ids, Positions
  <2> QED
    <3>1. i <= s.root /\ Pending(w, s, w.nodes[i].id) = {}
      BY <2>1, <2>2, <1>t
    <3> QED
      BY <3>1, <2>2, <1>s DEF KahnFinds
<1>12. CASE ~(counts /\ s.degree[target] = 1)
  <2>1. line = s.order
    BY <1>12, <1>o
  <2>2. next \in KahnType(w)
    BY <1>n, <1>v, <1>t, <1>8, <2>1 DEF KahnType
  <2>3. KahnClear(w, next)
    BY <1>1, <1>9, <2>1 DEF KahnClear
  <2>4. KahnFinds(w, next)
    <3> SUFFICES ASSUME NEW i \in 1..Len(w.nodes), Pending(w, next, w.nodes[i].id) = {}
                 PROVE  w.nodes[i].id \in ToSet(s.order)
      BY <1>1, <2>1 DEF KahnFinds
    <3>1. w.nodes[i].id \in Ids(w)
      BY GraphFacts DEF Ids, Positions
    <3>2. CASE w.nodes[i].id # target
      BY <3>1, <3>2, <1>11
    <3>3. CASE w.nodes[i].id = target /\ ~counts
      <4>1. Pending(w, s, w.nodes[i].id) = {}
        BY <3>3, <1>6, <1>7
      <4> QED
        BY <4>1, <1>s, <1>t DEF KahnFinds
    <3>4. CASE w.nodes[i].id = target /\ counts
      <4>1. degree[target] = s.degree[target] - 1 /\ s.degree[target] \in Nat
        BY <3>1, <3>4, <1>d, <1>t
      <4>2. degree[target] = Cardinality(Pending(w, next, target))
        BY <3>1, <3>4, <1>1, <1>8 DEF KahnCounts
      <4>3. Cardinality(Pending(w, next, target)) = 0
        BY <3>4, PendingFacts
      <4> QED
        BY <4>1, <4>2, <4>3, <3>4, <1>12
    <3> QED
      BY <3>2, <3>3, <3>4
  <2>5. KahnFrom(w, next)
    BY <1>1, <1>s, <2>1 DEF KahnFrom
  <2> QED
    BY <1>1, <1>8, <1>10, <1>s, <2>1, <2>2, <2>3, <2>4, <2>5 DEF KahnStates
<1>13. CASE counts /\ s.degree[target] = 1
  <2>1. next.order = Append(s.order, target) /\ target \in Ids(w)
    BY <1>1, <1>o, <1>13, <1>5, <1>7
  <2>2. Pending(w, next, target) = {}
    <3>1. degree[target] = 0
      BY <2>1, <1>13, <1>d, <1>t
    <3>2. degree[target] = Cardinality(Pending(w, next, target))
      BY <2>1, <1>1, <1>8 DEF KahnCounts
    <3> QED
      BY <3>1, <3>2, PendingFacts
  <2>3. target \notin ToSet(s.order)
    <3> SUFFICES ASSUME NEW j \in 1..Len(s.order), s.order[j] = target PROVE FALSE
      BY <1>t DEF ToSet
    <3>1. Pending(w, s, target) = {}
      BY <1>s DEF KahnClear
    <3> QED
      BY <3>1, <1>5, <1>7, <1>13
  <2>4. SourcesIn(w, next, s.order)
    <3> SUFFICES ASSUME NEW i \in Inside(w), Released(w, next, i)
                 PROVE  \E j \in 1..Len(s.order) : s.order[j] = w.edges[i].src
      BY DEF SourcesIn
    <3>1. CASE Released(w, s, i)
      BY <3>1 DEF Released
    <3>2. CASE w.edges[i].src = from
      BY <3>2, <1>t, <1>g
    <3> QED
      BY <3>1, <3>2, <1>3
  <2>5. Scheduled(w, s, next, target)
    BY <2>1, <2>2, <2>3, <2>4, KahnAppends
  <2>6. /\ next.order \in Seq(Ids(w)) /\ Len(next.order) = Len(s.order) + 1
        /\ \A j \in 1..Len(s.order) : next.order[j] = s.order[j]
        /\ next.order[Len(s.order) + 1] = target
        /\ ToSet(next.order) = ToSet(s.order) \cup {target}
        /\ Once(next.order) /\ Forward(w, next.order)
    BY <2>5 DEF Scheduled
  <2>7. next \in KahnType(w)
    <3>1. line \in Seq(Ids(w))
      BY <1>1, <2>6
    <3> QED
      BY <1>n, <1>v, <1>t, <1>8, <3>1 DEF KahnType
  <2>8. KahnClear(w, next)
    <3> SUFFICES ASSUME NEW j \in 1..Len(next.order) PROVE Pending(w, next, next.order[j]) = {}
      BY DEF KahnClear
    <3>1. CASE j \in 1..Len(s.order)
      BY <3>1, <1>9, <2>6
    <3>2. CASE j = Len(s.order) + 1
      BY <3>2, <2>2, <2>6
    <3>3. j = Len(s.order) + 1 \/ j \in 1..Len(s.order)
      <4>1. \A n \in Nat : \A i \in 1..(n + 1) : i = n + 1 \/ i \in 1..n
        OBVIOUS
      <4>2. Len(s.order) \in Nat /\ j \in 1..(Len(s.order) + 1)
        BY <2>6, <1>t
      <4> QED
        BY ONLY <4>1, <4>2
    <3> QED
      BY <3>1, <3>2, <3>3
  <2>9. KahnFinds(w, next)
    <3> SUFFICES ASSUME NEW i \in 1..Len(w.nodes), Pending(w, next, w.nodes[i].id) = {}
                 PROVE  w.nodes[i].id \in ToSet(next.order)
      BY DEF KahnFinds
    <3>1. w.nodes[i].id \in Ids(w)
      BY GraphFacts DEF Ids, Positions
    <3> QED
      BY <3>1, <1>11, <2>6
  <2>10. KahnFrom(w, next)
    <3> SUFFICES ASSUME NEW j \in 1..Len(next.order)
                 PROVE  \E i \in 1..Len(w.nodes) : i <= next.root /\ next.order[j] = w.nodes[i].id
      BY DEF KahnFrom
    <3>1. next.order[j] \in Ids(w)
      BY <2>6, ElementOfSeq
    <3>2. PICK i \in 1..Len(w.nodes) : next.order[j] = w.nodes[i].id
      BY <3>1, GraphFacts DEF Ids, Positions
    <3>3. i <= Len(w.nodes)
      <4>1. \A n \in Nat : \A k \in 1..n : k <= n
        OBVIOUS
      <4>2. Len(w.nodes) \in Nat
        BY GraphFacts
      <4> QED
        BY <4>1, <4>2
    <3> QED
      BY <3>2, <3>3, <1>10
  <2> QED
    BY <1>1, <1>8, <1>10, <2>6, <2>7, <2>8, <2>9, <2>10 DEF KahnStates
<1> QED
  BY <1>1, <1>12, <1>13

LEMMA KahnSteps ==
    ASSUME NEW w, IsGraph(w), Distinct(w), NEW s \in KahnStates(w)
    PROVE  LET row == Len(w.edges) + 1
               next == KahnStep(w, s)
               rest == s.root = Len(w.nodes) /\ s.done = Len(s.order)
           IN /\ next \in KahnStates(w)
              /\ rest => next = s
              /\ ~rest => next.root + (next.done * row + next.edge)
                             = s.root + (s.done * row + s.edge) + 1
<1> DEFINE row == Len(w.edges) + 1
           next == KahnStep(w, s)
           Moves == next.root + (next.done * row + next.edge)
                       = s.root + (s.done * row + s.edge) + 1
<1>t. /\ s.root \in Nat /\ s.done \in Nat /\ s.edge \in Nat /\ Len(s.order) \in Nat
      /\ s.root <= Len(w.nodes) /\ s.done <= Len(s.order) /\ s.edge <= Len(w.edges)
      /\ Len(w.nodes) \in Nat /\ Len(w.edges) \in Nat /\ row \in Nat
  BY GraphFacts, LenProperties DEF KahnStates, KahnType, KahnBounds
<1>r. s.done * row \in Nat /\ (s.done + 1) * row = s.done * row + row
  BY <1>t, Rows
<1>n. next = KahnStep(w, s) /\ row = Len(w.edges) + 1
  OBVIOUS
<1> HIDE DEF row, next
<1>1. ASSUME s.root < Len(w.nodes) PROVE next \in KahnStates(w) /\ Moves
  <2>1. next = FindReady(w, s)
    BY <1>1, <1>n, <1>t DEF KahnStep
  <2>2. /\ next \in KahnStates(w) /\ next.root = s.root + 1
        /\ next.done = s.done /\ next.edge = s.edge
    BY <1>1, <2>1, KahnFindReady
  <2> QED
    BY <2>2, <1>r, <1>t
<1>2. ASSUME s.root = Len(w.nodes), s.done = Len(s.order) PROVE next = s
  BY <1>2, <1>n, <1>t DEF KahnStep
<1>3. ASSUME s.root = Len(w.nodes), s.done < Len(s.order), s.edge = Len(w.edges)
      PROVE  next \in KahnStates(w) /\ Moves
  <2>1. next = [s EXCEPT !.done = s.done + 1, !.edge = 0]
    BY <1>3, <1>n, <1>t DEF KahnStep
  <2>2. /\ next \in KahnStates(w) /\ next.root = s.root
        /\ next.done = s.done + 1 /\ next.edge = 0
    BY <1>3, <2>1, KahnRowEnds
  <2> QED
    BY <1>3, <2>2, <1>r, <1>t, <1>n
<1>4. ASSUME s.root = Len(w.nodes), s.done < Len(s.order), s.edge < Len(w.edges)
      PROVE  next \in KahnStates(w) /\ Moves
  <2>1. next = ReleaseEdge(w, s)
    BY <1>4, <1>n, <1>t DEF KahnStep
  <2>2. /\ next \in KahnStates(w) /\ next.root = s.root
        /\ next.done = s.done /\ next.edge = s.edge + 1
    BY <1>4, <2>1, KahnReleaseEdge
  <2>3. s.root + (s.done * row + (s.edge + 1)) = s.root + (s.done * row + s.edge) + 1
    <3>1. \A a, b, c \in Nat : a + (b + (c + 1)) = a + (b + c) + 1
      OBVIOUS
    <3> QED
      <4>1. s.root \in Nat /\ s.done * row \in Nat /\ s.edge \in Nat
        BY <1>r, <1>t
      <4> QED
        BY <3>1, <4>1
  <2>4. Moves
    BY <2>2, <2>3
  <2> QED
    BY <2>2, <2>4
<1>5. /\ next \in KahnStates(w)
      /\ s.root = Len(w.nodes) /\ s.done = Len(s.order) => next = s
      /\ ~(s.root = Len(w.nodes) /\ s.done = Len(s.order)) => Moves
  BY <1>1, <1>2, <1>3, <1>4, <1>t
<1> QED
  BY <1>5 DEF row, next

LEMMA KahnUnfolds ==
    ASSUME NEW w, IsGraph(w), Distinct(w)
    PROVE  /\ Kahn(w)[0] = KahnStart(w)
           /\ \A n \in Nat : /\ Kahn(w)[n] \in KahnStates(w)
                             /\ Kahn(w)[n + 1] = KahnStep(w, Kahn(w)[n])
<1> DEFINE W == KahnStates(w)
           start == KahnStart(w)
           step == [n \in Nat |-> [s \in W |-> KahnStep(w, s)]]
           Run(f) == f = [n \in Nat |-> IF n = 0 THEN start ELSE KahnStep(w, f[n - 1])]
           run == Kahn(w)
<1>0. \A s \in W : KahnStep(w, s) \in W
  BY KahnSteps
<1>1. step \in [Nat -> [W -> W]] /\ start \in W
  BY <1>0, KahnStarts
<1>2. \A n \in Nat, s \in W : step[n][s] = KahnStep(w, s) /\ KahnStep(w, s) \in W
  BY <1>0
<1>d. run = CHOOSE f : Run(f)
  BY DEF Kahn, KahnStart
<1> HIDE DEF step, W, start, run
<1>3. Iterates(W, start, step)
  BY <1>1, Iteration
<1>4. PICK f \in [Nat -> W] : f[0] = start /\ \A n \in Nat : f[n + 1] = step[n + 1][f[n]]
  BY <1>3 DEF Iterates
<1>5. Run(f)
  <2>1. ASSUME NEW n \in Nat, n # 0 PROVE f[n] = KahnStep(w, f[n - 1])
    <3>1. n - 1 \in Nat /\ (n - 1) + 1 = n /\ f[n - 1] \in W
      BY <2>1, <1>4
    <3> QED
      BY <3>1, <1>2, <1>4
  <2>2. f = [n \in Nat |-> f[n]]
    BY <1>4
  <2> QED
    BY <2>1, <2>2, <1>4
<1>6. Run(run)
  BY <1>5, <1>d
<1>7. /\ run[0] = start
      /\ \A n \in Nat : run[n + 1] = KahnStep(w, run[n])
  <2>1. \A n \in Nat : n + 1 \in Nat /\ n + 1 # 0 /\ (n + 1) - 1 = n
    OBVIOUS
  <2> QED
    BY <1>6, <2>1
<1> HIDE DEF Run
<1>8. \A n \in Nat : run[n] \in W
  <2> DEFINE Good == {n \in Nat : run[n] \in W}
  <2>1. 0 \in Good
    BY <1>1, <1>7
  <2>2. ASSUME NEW n \in Good PROVE n + 1 \in Good
    BY <1>2, <1>7
  <2> HIDE DEF Good
  <2>3. Good \in SUBSET Nat
    BY DEF Good
  <2>4. Good = Nat
    BY <2>1, <2>2, <2>3, NatStep
  <2> QED
    BY <2>4 DEF Good
<1> QED
  BY <1>7, <1>8 DEF W, start, run

LEMMA KahnRests ==
    ASSUME NEW w, IsGraph(w), Distinct(w)
    PROVE  LET s == Kahn(w)[Rounds(w)] IN s.root = Len(w.nodes) /\ s.done = Len(s.order)
<1> DEFINE row == Len(w.edges) + 1
           Rests(s) == s.root = Len(w.nodes) /\ s.done = Len(s.order)
           Turn(n) == Kahn(w)[n]
           Good == {n \in Nat : Rests(Turn(n))
                                  \/ Turn(n).root + (Turn(n).done * row + Turn(n).edge) = n}
<1>g. /\ row \in Nat /\ Len(w.nodes) \in Nat /\ Len(w.edges) \in Nat
      /\ Rounds(w) \in Nat
  BY GraphFacts
<1>t. \A s \in KahnStates(w) :
         /\ s.root \in Nat /\ s.done \in Nat /\ s.edge \in Nat /\ Len(s.order) \in Nat
         /\ s.root <= Len(w.nodes) /\ s.done <= Len(s.order) /\ s.edge <= Len(w.edges)
         /\ s.root < Len(w.nodes) => s.done = 0 /\ s.edge = 0
         /\ Len(s.order) <= Len(w.nodes)
  <2> SUFFICES ASSUME NEW s \in KahnStates(w)
               PROVE  /\ s.root \in Nat /\ s.done \in Nat /\ s.edge \in Nat /\ Len(s.order) \in Nat
                      /\ s.root <= Len(w.nodes) /\ s.done <= Len(s.order)
                      /\ s.edge <= Len(w.edges)
                      /\ s.root < Len(w.nodes) => s.done = 0 /\ s.edge = 0
                      /\ Len(s.order) <= Len(w.nodes)
    OBVIOUS
  <2>1. s.order \in Seq(Ids(w)) /\ Once(s.order)
    BY DEF KahnStates, KahnType
  <2>2. Len(s.order) \in Nat /\ Len(s.order) <= Cardinality(Ids(w))
    BY <2>1, IdsFacts, OnceCounts, LenProperties
  <2>3. Len(s.order) <= Len(w.nodes)
    BY <2>2, IdsFacts, <1>g
  <2> QED
    BY <2>2, <2>3 DEF KahnStates, KahnType, KahnBounds
<1>1. 0 \in Good
  <2>1. Turn(0).root = 0 /\ Turn(0).done = 0 /\ Turn(0).edge = 0
    <3>1. Turn(0) = KahnStart(w)
      BY KahnUnfolds
    <3> HIDE DEF Turn
    <3> QED
      BY <3>1 DEF KahnStart
  <2>2. 0 + (0 * row + 0) = 0
    BY <1>g
  <2> QED
    BY <2>1, <2>2
<1>2. ASSUME NEW n \in Good PROVE n + 1 \in Good
  <2>1. n \in Nat /\ Turn(n) \in KahnStates(w) /\ Turn(n + 1) = KahnStep(w, Turn(n))
    BY KahnUnfolds
  <2>2. CASE Rests(Turn(n))
    <3>1. Turn(n + 1) = Turn(n)
      BY <2>1, <2>2, KahnSteps
    <3> QED
      BY <2>1, <2>2, <3>1
  <2>3. CASE ~Rests(Turn(n))
    <3>2. Turn(n + 1).root + (Turn(n + 1).done * row + Turn(n + 1).edge)
             = Turn(n).root + (Turn(n).done * row + Turn(n).edge) + 1
      BY <2>1, <2>3, KahnSteps
    <3>3. Turn(n).root + (Turn(n).done * row + Turn(n).edge) = n
      BY <2>3
    <3> HIDE DEF Turn, row
    <3> QED
      BY <2>1, <3>2, <3>3
  <2> QED
    BY <2>2, <2>3
<1>3. Good = Nat
  <2>1. Good \in SUBSET Nat
    OBVIOUS
  <2> HIDE DEF Good
  <2> QED
    BY <1>1, <1>2, <2>1, NatStep
<1> DEFINE s == Turn(Rounds(w))
<1>4. s \in KahnStates(w)
  BY <1>g, KahnUnfolds
<1>5. Rests(s) \/ s.root + (s.done * row + s.edge) = Rounds(w)
  BY <1>3, <1>g
<1>6. Rests(s) \/ s.root + (s.done * row + s.edge) < Rounds(w)
  <2> SUFFICES ASSUME ~Rests(s) PROVE s.root + (s.done * row + s.edge) < Rounds(w)
    OBVIOUS
  <2>1. Rounds(w) = Len(w.nodes) * row + Len(w.nodes)
    <3>1. \A a, b \in Nat : a * (b + 2) = a * (b + 1) + a
      OBVIOUS
    <3> QED
      BY <3>1, <1>g DEF Rounds
  <2>2. Len(w.nodes) * row \in Nat /\ 0 * row = 0
    <3>1. Len(w.nodes) * row \in Nat
      BY <1>g, Rows
    <3>2. \A c \in Nat : 0 * c = 0
      OBVIOUS
    <3> QED
      BY <3>1, <3>2, <1>g
  <2>3. CASE s.root < Len(w.nodes)
    <3>1. s.done = 0 /\ s.edge = 0 /\ s.root \in Nat
      BY <1>4, <1>t, <2>3
    <3> HIDE DEF s, row
    <3> QED
      BY <3>1, <2>1, <2>2, <2>3, <1>g
  <2>4. CASE s.root >= Len(w.nodes)
    <3>1. /\ s.root = Len(w.nodes) /\ s.done \in Nat /\ s.edge \in Nat /\ s.edge < row
          /\ s.done < Len(w.nodes)
      BY <1>4, <1>t, <1>g, <2>4
    <3>2. s.done * row + row <= Len(w.nodes) * row /\ s.done * row \in Nat
      BY <3>1, <1>g, Rows
    <3>3. \A n, a, b, c, e \in Nat : a + c <= b /\ e < c => n + (a + e) < b + n
      OBVIOUS
    <3>4. /\ Len(w.nodes) \in Nat /\ s.done * row \in Nat /\ Len(w.nodes) * row \in Nat
          /\ row \in Nat /\ s.edge \in Nat
      BY <3>1, <3>2, <2>2, <1>g
    <3> HIDE DEF s, row
    <3>5. Len(w.nodes) + (s.done * row + s.edge) < Len(w.nodes) * row + Len(w.nodes)
      BY <3>1, <3>2, <3>3, <3>4
    <3> QED
      BY <3>1, <3>5, <2>1
  <2>5. s.root \in Nat
    BY <1>4, <1>t
  <2> HIDE DEF s
  <2> QED
    BY <2>3, <2>4, <2>5, <1>g
<1>7. s.root + (s.done * row + s.edge) \in Nat
  <2>1. s.done * row \in Nat /\ s.edge \in Nat /\ s.root \in Nat
    BY <1>4, <1>t, <1>g, Rows
  <2> HIDE DEF s, row
  <2> QED
    BY <2>1
<1>8. Rests(s)
  <2> HIDE DEF s, row, Rests
  <2> QED
    BY <1>5, <1>6, <1>7, <1>g
<1> QED
  BY <1>8

LEMMA OrderFacts ==
    ASSUME NEW w, IsGraph(w), Distinct(w), NEW line, line = TopologicalOrder(w).order
    PROVE  /\ line \in Seq(Ids(w)) /\ Once(line) /\ Forward(w, line)
           /\ Len(line) \in Nat /\ DOMAIN line = 1..Len(line)
           /\ TopologicalOrder(w).ok <=> ToSet(line) = Ids(w)
           /\ \A t \in Ids(w) \ ToSet(line) : \E i \in Inside(w) :
                 w.edges[i].dst = t /\ w.edges[i].src \in Ids(w) \ ToSet(line)
<1> DEFINE s == Kahn(w)[Rounds(w)]
<1>1. s \in KahnStates(w) /\ s.root = Len(w.nodes) /\ s.done = Len(s.order)
  BY KahnUnfolds, KahnRests, GraphFacts
<1>2. line = s.order /\ (TopologicalOrder(w).ok <=> Len(line) = Cardinality(Ids(w)))
  BY DEF TopologicalOrder
<1> HIDE DEF s
<1>3. line \in Seq(Ids(w)) /\ Once(line) /\ Forward(w, line)
  BY <1>1, <1>2 DEF KahnStates, KahnType
<1>4. Len(line) \in Nat /\ DOMAIN line = 1..Len(line)
  BY <1>3, LenProperties
<1>5. Len(line) = Cardinality(Ids(w)) <=> ToSet(line) = Ids(w)
  BY <1>3, IdsFacts, OnceCounts
<1>6. ASSUME NEW t \in Ids(w) \ ToSet(line)
      PROVE  \E i \in Inside(w) : w.edges[i].dst = t /\ w.edges[i].src \in Ids(w) \ ToSet(line)
  <2>1. PICK n \in 1..Len(w.nodes) : w.nodes[n].id = t
    BY GraphFacts DEF Ids, Positions
  <2>2. Pending(w, s, t) # {}
    <3>1. n <= s.root /\ t \notin ToSet(s.order)
      BY <2>1, <1>1, <1>2, GraphFacts
    <3>2. KahnFinds(w, s)
      BY <1>1 DEF KahnStates
    <3> QED
      BY <2>1, <3>1, <3>2 DEF KahnFinds
  <2>3. PICK i \in Inside(w) : w.edges[i].dst = t /\ ~Released(w, s, i)
    BY <2>2 DEF Pending
  <2>4. w.edges[i].src \notin ToSet(line)
    <3> SUFFICES ASSUME NEW j \in 1..Len(line), line[j] = w.edges[i].src PROVE FALSE
      BY <1>4 DEF ToSet
    <3> QED
      BY <2>3, <1>1, <1>2 DEF Released
  <2> QED
    BY <2>3, <2>4, InsideLeads
<1> QED
  BY <1>2, <1>3, <1>4, <1>5, <1>6

\* In an order of all nodes what lies onward comes later.
LEMMA OrderIsOnward ==
    ASSUME NEW w, IsGraph(w), NEW line \in Seq(Ids(w)), Once(line), Forward(w, line),
           ToSet(line) = Ids(w), NEW a \in 1..Len(line), NEW b \in 1..Len(line),
           line[b] \in Onward(w, line[a])
    PROVE  a < b
<1> DEFINE S == {line[k] : k \in {m \in 1..Len(line) : a < m}}
<1>1. Len(line) \in Nat /\ DOMAIN line = 1..Len(line)
  BY LenProperties
<1>2. ASSUME NEW i \in Inside(w), w.edges[i].src = line[a] \/ w.edges[i].src \in S
      PROVE  w.edges[i].dst \in S
  <2>1. PICK j \in 1..Len(line) : line[j] = w.edges[i].dst
    <3>1. w.edges[i].dst \in Ids(w)
      BY InsideLeads
    <3> QED
      BY <3>1, <1>1 DEF ToSet
  <2>2. PICK k \in 1..Len(line) : k < j /\ line[k] = w.edges[i].src
    BY <2>1 DEF Forward
  <2>3. PICK m \in 1..Len(line) : a <= m /\ line[m] = w.edges[i].src
    BY <1>2, <1>1
  <2>4. m = k
    BY <2>2, <2>3 DEF Once
  <2>5. a < j
    BY <2>2, <2>3, <2>4, <1>1
  <2> QED
    BY <2>1, <2>5
<1>3. Closed(w, S) /\ HasTargets(w, line[a], S)
  BY <1>2 DEF Closed, HasTargets
<1>4. S \subseteq Ids(w)
  BY ElementOfSeq
<1>5. line[b] \in S
  <2> SUFFICES ASSUME line[b] \notin S PROVE FALSE
    OBVIOUS
  <2>1. S \in SUBSET (Ids(w) \ {line[b]})
    BY <1>4
  <2> HIDE DEF S
  <2> QED
    BY <1>3, <2>1 DEF Onward
<1>6. PICK k \in 1..Len(line) : a < k /\ line[k] = line[b]
  BY <1>5
<1>7. k = b
  BY <1>6 DEF Once
<1> QED
  BY <1>6, <1>7

\* Nodes each of which has one of them before it go in a circle somewhere.
LEMMA StuckIsCyclic ==
    ASSUME NEW w, IsGraph(w), NEW U \in SUBSET Ids(w), U # {},
           \A t \in U : \E i \in Inside(w) : w.edges[i].dst = t /\ w.edges[i].src \in U
    PROVE  \E x \in Ids(w) : x \in Onward(w, x)
<1> DEFINE Size(x) == Cardinality(Onward(w, x))
           T == {n \in Nat : \E x \in U : n = Cardinality(Ids(w)) - Size(x)}
<1>1. ASSUME NEW x
      PROVE  /\ IsFiniteSet(Onward(w, x)) /\ Size(x) \in Nat
             /\ Size(x) <= Cardinality(Ids(w))
  <2>1. Onward(w, x) \in SUBSET Ids(w)
    BY DEF Onward
  <2> QED
    BY <2>1, IdsFacts, FS_Subset, FS_CardinalityType
<1>2. T # {} /\ T \in SUBSET Nat
  <2>1. PICK x \in U : TRUE
    OBVIOUS
  <2>2. Cardinality(Ids(w)) - Size(x) \in Nat
    BY <1>1, IdsFacts
  <2> QED
    BY <2>2
<1>3. PICK n \in T : \A k \in T : n <= k
  <2> HIDE DEF T
  <2> QED
    BY <1>2, NatSetMin
<1>4. PICK x \in U : n = Cardinality(Ids(w)) - Size(x)
  OBVIOUS
<1>5. PICK i \in Inside(w) : w.edges[i].dst = x /\ w.edges[i].src \in U
  OBVIOUS
<1> DEFINE p == w.edges[i].src
<1>6. Onward(w, x) \subseteq Onward(w, p) /\ x \in Onward(w, p)
  BY <1>5, OnwardWithin, OnwardFirst
<1>7. Size(p) <= Size(x)
  <2>1. Cardinality(Ids(w)) - Size(p) \in T
    BY <1>1, <1>5, IdsFacts
  <2>2. n <= Cardinality(Ids(w)) - Size(p)
    BY <2>1, <1>3
  <2> HIDE DEF Size
  <2> QED
    BY <2>2, <1>1, <1>4, IdsFacts
<1>8. Onward(w, x) = Onward(w, p)
  <2>1. Onward(w, x) \in SUBSET Onward(w, p)
    BY <1>6
  <2>2. Size(x) <= Size(p)
    BY <2>1, <1>1, FS_Subset
  <2>3. Size(x) = Size(p)
    BY <2>2, <1>7, <1>1
  <2> QED
    BY <2>1, <2>3, <1>1, FS_Subset
<1> QED
  BY <1>6, <1>8

\* topological_order succeeds where there is no cycle, and only there.
LEMMA OrderIsOk ==
    ASSUME NEW w, IsGraph(w), Distinct(w)
    PROVE  TopologicalOrder(w).ok <=> ~\E id \in Ids(w) : id \in Onward(w, id)
<1> DEFINE line == TopologicalOrder(w).order
<1>1. /\ line \in Seq(Ids(w)) /\ Once(line) /\ Forward(w, line)
      /\ Len(line) \in Nat /\ DOMAIN line = 1..Len(line)
      /\ TopologicalOrder(w).ok <=> ToSet(line) = Ids(w)
      /\ \A t \in Ids(w) \ ToSet(line) : \E i \in Inside(w) :
            w.edges[i].dst = t /\ w.edges[i].src \in Ids(w) \ ToSet(line)
  BY OrderFacts
<1> HIDE DEF line
<1>2. ASSUME ToSet(line) = Ids(w), NEW id \in Ids(w), id \in Onward(w, id) PROVE FALSE
  <2>1. PICK a \in 1..Len(line) : line[a] = id
    BY <1>1, <1>2 DEF ToSet
  <2>2. a < a
    BY <1>1, <1>2, <2>1, OrderIsOnward
  <2> QED
    BY <2>1, <2>2, <1>1
<1>3. ASSUME ToSet(line) # Ids(w) PROVE \E id \in Ids(w) : id \in Onward(w, id)
  <2> DEFINE U == Ids(w) \ ToSet(line)
  <2>1. ToSet(line) \subseteq Ids(w)
    BY <1>1, ElementOfSeq DEF ToSet
  <2>2. U # {} /\ U \in SUBSET Ids(w)
    BY <1>3, <2>1
  <2>3. \A t \in U : \E i \in Inside(w) : w.edges[i].dst = t /\ w.edges[i].src \in U
    BY <1>1
  <2> HIDE DEF U
  <2> QED
    BY <2>2, <2>3, StuckIsCyclic
<1> QED
  BY <1>1, <1>2, <1>3

-----------------------------------------------------------------------------
\* find_cycle.  The grey nodes are the stack, which is a path; a black node has
\* only black nodes onward, so it lies on no cycle.

DfsType(w) == [root : Nat, stack : Seq(Ids(w)), cycle : Seq(Ids(w)),
               colour : [Ids(w) -> {"white", "grey", "black"}], next : [Ids(w) -> Nat]]
DfsBounds(w, s) ==
    /\ s.root <= Len(w.nodes)
    /\ \A x \in Ids(w) : /\ s.next[x] <= Len(w.edges)
                         /\ s.colour[x] = "white" => s.next[x] = 0
                         /\ s.colour[x] = "black" => s.next[x] = Len(w.edges)
DfsGrey(w, s) == Once(s.stack) /\ \A x \in Ids(w) : s.colour[x] = "grey" <=> x \in ToSet(s.stack)
DfsPath(w, s) == \A k \in 1..Len(s.stack) :
    k < Len(s.stack) => <<s.stack[k], s.stack[k + 1]>> \in Links(w)
\* The call of x waits for the one of y.
Calls(s, x, y) == \E k \in 1..Len(s.stack) :
    k < Len(s.stack) /\ s.stack[k] = x /\ s.stack[k + 1] = y
DfsSeen(w, s) == \A x \in Ids(w), i \in 1..Len(w.edges) :
    i <= s.next[x] /\ Leads(w, i, x) =>
        s.colour[w.edges[i].dst] = "black" \/ Calls(s, x, w.edges[i].dst)
DfsClean(w, s) == \A x \in Ids(w) : s.colour[x] = "black" => x \notin Onward(w, x)
DfsRoots(w, s) == \A i \in 1..Len(w.nodes) :
    i <= s.root => s.colour[w.nodes[i].id] # "white"
IsCycle(w, c) == /\ Len(c) >= 2 /\ c[1] = c[Len(c)]
                 /\ \A i \in 1..(Len(c) - 1) : <<c[i], c[i + 1]>> \in Links(w)

DfsStates(w) ==
    {s \in DfsType(w) : /\ DfsBounds(w, s) /\ DfsGrey(w, s) /\ DfsPath(w, s)
                        /\ s.cycle = <<>> => DfsSeen(w, s)
                        /\ s.cycle # <<>> => IsCycle(w, s.cycle)
                        /\ DfsClean(w, s) /\ DfsRoots(w, s)}
DfsStart(w) == [root |-> 0, stack |-> <<>>, cycle |-> <<>>,
                colour |-> [id \in Ids(w) |-> "white"], next |-> [id \in Ids(w) |-> 0]]

LEMMA DfsTypes ==
    ASSUME NEW w, IsGraph(w), NEW s \in DfsStates(w)
    PROVE  /\ s \in [root : Nat, stack : Seq(Ids(w)), cycle : Seq(Ids(w)),
                     colour : [Ids(w) -> {"white", "grey", "black"}], next : [Ids(w) -> Nat]]
           /\ s.root \in Nat /\ s.root + 1 \in Nat
           /\ s.stack \in Seq(Ids(w)) /\ Len(s.stack) \in Nat
           /\ DOMAIN s.stack = 1..Len(s.stack)
           /\ s.stack # <<>> => Len(s.stack) >= 1 /\ s.stack[Len(s.stack)] \in Ids(w)
           /\ s.cycle \in Seq(Ids(w))
           /\ s.colour \in [Ids(w) -> {"white", "grey", "black"}]
           /\ s.next \in [Ids(w) -> Nat] /\ Len(w.edges) \in Nat /\ Len(w.nodes) \in Nat
           /\ \A i \in 1..Len(w.nodes) : w.nodes[i].id \in Ids(w)
<1>1. s \in [root : Nat, stack : Seq(Ids(w)), cycle : Seq(Ids(w)),
             colour : [Ids(w) -> {"white", "grey", "black"}], next : [Ids(w) -> Nat]]
  BY DEF DfsStates, DfsType
<1>2. /\ s.root \in Nat /\ s.stack \in Seq(Ids(w)) /\ s.cycle \in Seq(Ids(w))
      /\ s.colour \in [Ids(w) -> {"white", "grey", "black"}] /\ s.next \in [Ids(w) -> Nat]
  BY <1>1
<1>3. Len(s.stack) \in Nat /\ DOMAIN s.stack = 1..Len(s.stack)
  BY <1>2, LenProperties
<1>4. s.stack # <<>> => Len(s.stack) >= 1 /\ s.stack[Len(s.stack)] \in Ids(w)
  BY <1>2, <1>3, EmptySeq, ElementOfSeq
<1>5. \A i \in 1..Len(w.nodes) : w.nodes[i].id \in Ids(w)
  BY GraphFacts DEF Ids, Positions
<1> QED
  BY <1>1, <1>2, <1>3, <1>4, <1>5, GraphFacts

LEMMA DfsParts ==
    ASSUME NEW w, NEW s \in DfsStates(w)
    PROVE  /\ DfsBounds(w, s) /\ DfsGrey(w, s) /\ DfsPath(w, s)
           /\ s.cycle = <<>> => DfsSeen(w, s)
           /\ s.cycle # <<>> => IsCycle(w, s.cycle)
           /\ DfsClean(w, s) /\ DfsRoots(w, s)
BY DEF DfsStates

LEMMA DfsStarts ==
    ASSUME NEW w, IsGraph(w)
    PROVE  DfsStart(w) \in DfsStates(w)
<1> DEFINE s == DfsStart(w)
<1>1. /\ s.root = 0 /\ s.stack = <<>> /\ s.cycle = <<>> /\ Len(s.stack) = 0
      /\ \A x \in Ids(w) : s.colour[x] = "white" /\ s.next[x] = 0
      /\ s.colour \in [Ids(w) -> {"white", "grey", "black"}] /\ s.next \in [Ids(w) -> Nat]
  BY DEF DfsStart
<1>2. s \in DfsType(w)
  <2>1. <<>> \in Seq(Ids(w))
    BY EmptySeq
  <2> QED
    BY <2>1 DEF DfsType, DfsStart
<1> HIDE DEF s
<1>3. 1..Len(s.stack) = {} /\ ToSet(s.stack) = {}
  <2>1. DOMAIN s.stack = {}
    BY <1>1
  <2> QED
    BY <1>1, <2>1 DEF ToSet
<1>4. DfsGrey(w, s) /\ DfsPath(w, s) /\ DfsClean(w, s)
  BY <1>1, <1>3 DEF DfsGrey, Once, DfsPath, DfsClean
<1>5. DfsBounds(w, s) /\ DfsRoots(w, s) /\ DfsSeen(w, s)
  BY <1>1, GraphFacts DEF DfsBounds, DfsRoots, DfsSeen
<1>6. s \in DfsStates(w)
  BY <1>1, <1>2, <1>4, <1>5 DEF DfsStates
<1> QED
  BY <1>6 DEF s

\* A white node that comes next on the path is entered.
LEMMA DfsEnters ==
    ASSUME NEW w, IsGraph(w), NEW s \in DfsStates(w), NEW new, new \in DfsType(w),
           NEW x \in Ids(w), s.colour[x] = "white", s.cycle = <<>>, new.cycle = <<>>,
           new.colour = [s.colour EXCEPT ![x] = "grey"],
           new.stack = Append(s.stack, x),
           s.stack # <<>> => <<s.stack[Len(s.stack)], x>> \in Links(w),
           DfsBounds(w, new), DfsRoots(w, new),
           \A y \in Ids(w), i \in 1..Len(w.edges) :
               i <= new.next[y] /\ ~(i <= s.next[y]) /\ Leads(w, i, y) =>
                   s.stack # <<>> /\ y = s.stack[Len(s.stack)] /\ w.edges[i].dst = x
    PROVE  new \in DfsStates(w)
<1>s. DfsBounds(w, s) /\ DfsGrey(w, s) /\ DfsPath(w, s) /\ DfsSeen(w, s) /\ DfsClean(w, s)
  BY DfsParts
<1>t. /\ s.stack \in Seq(Ids(w)) /\ Len(s.stack) \in Nat /\ DOMAIN s.stack = 1..Len(s.stack)
      /\ s.stack # <<>> => Len(s.stack) >= 1
      /\ s.colour \in [Ids(w) -> {"white", "grey", "black"}]
  BY DfsTypes
<1>1. /\ Len(new.stack) = Len(s.stack) + 1 /\ new.stack[Len(s.stack) + 1] = x
      /\ \A k \in 1..Len(s.stack) : new.stack[k] = s.stack[k]
      /\ ToSet(new.stack) = ToSet(s.stack) \cup {x}
  BY <1>t, AppendProperties, AppendedSet
<1>2. x \notin ToSet(s.stack)
  BY <1>s DEF DfsGrey
<1>3. DfsGrey(w, new)
  <2>1. Once(new.stack)
    BY <1>s, <1>t, <1>2, OnceAppends DEF DfsGrey
  <2> QED
    BY <1>s, <1>t, <1>1, <2>1 DEF DfsGrey
<1>4. DfsPath(w, new)
  <2> SUFFICES ASSUME NEW k \in 1..Len(new.stack), k < Len(new.stack)
               PROVE  <<new.stack[k], new.stack[k + 1]>> \in Links(w)
    BY DEF DfsPath
  <2>1. k \in 1..Len(s.stack) /\ s.stack # <<>>
    BY <1>1, <1>t
  <2>2. CASE k = Len(s.stack)
    BY <2>1, <2>2, <1>1
  <2>3. CASE k < Len(s.stack)
    <3>1. k + 1 \in 1..Len(s.stack)
      BY <2>1, <2>3, <1>t
    <3> QED
      BY <2>1, <2>3, <3>1, <1>1, <1>s DEF DfsPath
  <2>4. k = Len(s.stack) \/ k < Len(s.stack)
    BY <2>1, <1>t
  <2> QED
    BY <2>2, <2>3, <2>4
<1>5. DfsSeen(w, new)
  <2> SUFFICES ASSUME NEW y \in Ids(w), NEW i \in 1..Len(w.edges),
                      i <= new.next[y], Leads(w, i, y)
               PROVE  new.colour[w.edges[i].dst] = "black" \/ Calls(new, y, w.edges[i].dst)
    BY DEF DfsSeen
  <2>d. w.edges[i].dst \in Ids(w)
    BY DEF Leads
  <2>1. CASE ~(i <= s.next[y])
    <3>1. s.stack # <<>> /\ y = s.stack[Len(s.stack)] /\ w.edges[i].dst = x
      BY <2>1
    <3>2. /\ Len(s.stack) \in 1..Len(new.stack) /\ Len(s.stack) < Len(new.stack)
          /\ new.stack[Len(s.stack)] = y /\ new.stack[Len(s.stack) + 1] = w.edges[i].dst
      BY <3>1, <1>1, <1>t
    <3> QED
      BY <3>2 DEF Calls
  <2>2. CASE i <= s.next[y]
    <3>1. s.colour[w.edges[i].dst] = "black" \/ Calls(s, y, w.edges[i].dst)
      BY <2>2, <1>s DEF DfsSeen
    <3>2. CASE s.colour[w.edges[i].dst] = "black"
      BY <3>2, <2>d, <1>t
    <3>3. CASE Calls(s, y, w.edges[i].dst)
      <4>1. PICK k \in 1..Len(s.stack) :
               k < Len(s.stack) /\ s.stack[k] = y /\ s.stack[k + 1] = w.edges[i].dst
        BY <3>3 DEF Calls
      <4>2. k \in 1..Len(new.stack) /\ k < Len(new.stack) /\ k + 1 \in 1..Len(s.stack)
        BY <4>1, <1>1, <1>t
      <4> QED
        BY <4>1, <4>2, <1>1 DEF Calls
    <3> QED
      BY <3>1, <3>2, <3>3
  <2> QED
    BY <2>1, <2>2
<1>6. DfsClean(w, new)
  BY <1>s, <1>t DEF DfsClean
<1> QED
  BY <1>3, <1>4, <1>5, <1>6 DEF DfsStates

\* How far a walk has come: the roots tried, the edges looked at, the calls that
\* have returned.
Looked(w, s) == {p \in Ids(w) \X (1..Len(w.edges)) : p[2] <= s.next[p[1]]}
Left(w, s) == {x \in Ids(w) : s.colour[x] = "black"}
Come(w, s) == s.root + (Cardinality(Looked(w, s)) + Cardinality(Left(w, s)))

LEMMA ComeFacts ==
    ASSUME NEW w, IsGraph(w), NEW s
    PROVE  /\ IsFiniteSet(Looked(w, s)) /\ Cardinality(Looked(w, s)) \in Nat
           /\ Cardinality(Looked(w, s)) <= Len(w.nodes) * Len(w.edges)
           /\ IsFiniteSet(Left(w, s)) /\ Cardinality(Left(w, s)) \in Nat
           /\ Cardinality(Left(w, s)) <= Len(w.nodes)
           /\ Left(w, s) # Ids(w) => Cardinality(Left(w, s)) < Len(w.nodes)
<1>1. /\ IsFiniteSet(Ids(w)) /\ IsFiniteSet(1..Len(w.edges))
      /\ Cardinality(1..Len(w.edges)) = Len(w.edges)
      /\ Cardinality(Ids(w)) \in Nat /\ Cardinality(Ids(w)) <= Len(w.nodes)
      /\ Len(w.nodes) \in Nat /\ Len(w.edges) \in Nat
  BY IdsFacts, GraphFacts
<1>2. /\ IsFiniteSet(Ids(w) \X (1..Len(w.edges)))
      /\ Cardinality(Ids(w) \X (1..Len(w.edges))) = Cardinality(Ids(w)) * Len(w.edges)
  <2>1. Cardinality(Ids(w) \X (1..Len(w.edges)))
           = Cardinality(Ids(w)) * Cardinality(1..Len(w.edges))
    BY <1>1, FS_Product
  <2> QED
    BY <1>1, <2>1, FS_Product
<1>3. Cardinality(Ids(w)) * Len(w.edges) <= Len(w.nodes) * Len(w.edges)
      /\ Cardinality(Ids(w)) * Len(w.edges) \in Nat /\ Len(w.nodes) * Len(w.edges) \in Nat
  BY <1>1, Rows
<1>4. Looked(w, s) \in SUBSET (Ids(w) \X (1..Len(w.edges))) /\ Left(w, s) \in SUBSET Ids(w)
  BY DEF Looked, Left
<1>5. /\ IsFiniteSet(Looked(w, s)) /\ Cardinality(Looked(w, s)) \in Nat
      /\ Cardinality(Looked(w, s)) <= Cardinality(Ids(w)) * Len(w.edges)
  BY <1>2, <1>4, FS_Subset, FS_CardinalityType
<1>6. Cardinality(Looked(w, s)) <= Len(w.nodes) * Len(w.edges)
  <2>1. \A a, b, c \in Nat : a <= b /\ b <= c => a <= c
    OBVIOUS
  <2> QED
    BY <2>1, <1>3, <1>5
<1>7. /\ IsFiniteSet(Left(w, s)) /\ Cardinality(Left(w, s)) \in Nat
      /\ Cardinality(Left(w, s)) <= Cardinality(Ids(w))
      /\ Left(w, s) # Ids(w) => Cardinality(Left(w, s)) # Cardinality(Ids(w))
  BY <1>1, <1>4, FS_Subset, FS_CardinalityType
<1>8. /\ Cardinality(Left(w, s)) <= Len(w.nodes)
      /\ Left(w, s) # Ids(w) => Cardinality(Left(w, s)) < Len(w.nodes)
  <2>1. \A a, b, c \in Nat : a <= b /\ b <= c => a <= c /\ (a # b => a < c)
    OBVIOUS
  <2> QED
    BY <2>1, <1>1, <1>7
<1> QED
  BY <1>5, <1>6, <1>7, <1>8

LEMMA ComeCounts ==
    ASSUME NEW w, IsGraph(w), NEW s, s.root \in Nat
    PROVE  /\ Cardinality(Looked(w, s)) \in Nat /\ Cardinality(Left(w, s)) \in Nat
           /\ Come(w, s) \in Nat
           /\ \A r, a, b \in Nat : (r + 1) + (a + b) = r + (a + b) + 1
                                 /\ r + ((a + 1) + b) = r + (a + b) + 1
                                 /\ r + (a + (b + 1)) = r + (a + b) + 1
<1>1. Cardinality(Looked(w, s)) \in Nat /\ Cardinality(Left(w, s)) \in Nat
  BY ComeFacts
<1>2. Come(w, s) \in Nat
  BY <1>1 DEF Come
<1> QED
  BY <1>1, <1>2

LEMMA DfsTryRoot ==
    ASSUME NEW w, IsGraph(w), NEW s \in DfsStates(w), s.cycle = <<>>, s.stack = <<>>,
           s.root < Len(w.nodes), NEW new, new = TryRoot(w, s)
    PROVE  new \in DfsStates(w) /\ Come(w, new) = Come(w, s) + 1
<1> DEFINE x == w.nodes[s.root + 1].id
<1>s. DfsBounds(w, s) /\ DfsGrey(w, s) /\ DfsPath(w, s) /\ DfsSeen(w, s) /\ DfsClean(w, s)
      /\ DfsRoots(w, s)
  BY DfsParts
<1>t. /\ s \in [root : Nat, stack : Seq(Ids(w)), cycle : Seq(Ids(w)),
                colour : [Ids(w) -> {"white", "grey", "black"}], next : [Ids(w) -> Nat]]
      /\ s.root \in Nat /\ s.root + 1 \in Nat /\ s.stack \in Seq(Ids(w))
      /\ s.colour \in [Ids(w) -> {"white", "grey", "black"}]
      /\ s.next \in [Ids(w) -> Nat] /\ Len(w.edges) \in Nat /\ Len(w.nodes) \in Nat
      /\ \A i \in 1..Len(w.nodes) : w.nodes[i].id \in Ids(w)
  BY DfsTypes
<1>x. x \in Ids(w) /\ x = w.nodes[s.root + 1].id
  BY <1>t
<1>n. new = IF s.colour[x] = "white"
            THEN [[s EXCEPT !.root = s.root + 1]
                    EXCEPT !.colour = [s.colour EXCEPT ![x] = "grey"],
                           !.stack = Append(s.stack, x)]
            ELSE [s EXCEPT !.root = s.root + 1]
  BY <1>t DEF TryRoot, Enter
<1> HIDE DEF x
<1>1. CASE s.colour[x] # "white"
  <2>1. new = [s EXCEPT !.root = s.root + 1]
    BY <1>1, <1>n
  <2>2. /\ new \in DfsType(w) /\ new.root = s.root + 1 /\ new.stack = s.stack
        /\ new.cycle = s.cycle /\ new.colour = s.colour /\ new.next = s.next
    BY <2>1, <1>t DEF DfsType
  <2>3. DfsBounds(w, new)
    BY <2>2, <1>s, <1>t DEF DfsBounds
  <2>4. DfsRoots(w, new)
    <3> SUFFICES ASSUME NEW i \in 1..Len(w.nodes), i <= s.root + 1
                 PROVE  s.colour[w.nodes[i].id] # "white"
      BY <2>2 DEF DfsRoots
    <3>1. CASE i = s.root + 1
      BY <3>1, <1>1, <1>x
    <3>2. CASE i # s.root + 1
      <4>1. i <= s.root
        BY <3>2, <1>t
      <4> QED
        BY <4>1, <1>s DEF DfsRoots
    <3> QED
      BY <3>1, <3>2
  <2>5. DfsGrey(w, new) /\ DfsPath(w, new) /\ DfsSeen(w, new) /\ DfsClean(w, new)
    BY <2>2, <1>s DEF DfsGrey, DfsPath, DfsSeen, DfsClean, Calls
  <2>6. new \in DfsStates(w)
    BY <2>2, <2>3, <2>4, <2>5 DEF DfsStates
  <2>7. Looked(w, new) = Looked(w, s) /\ Left(w, new) = Left(w, s)
    BY <2>2 DEF Looked, Left
  <2> QED
    <3>1. Come(w, new) = (s.root + 1) + (Cardinality(Looked(w, s)) + Cardinality(Left(w, s)))
      BY <2>2, <2>7 DEF Come
    <3> QED
      BY <2>6, <3>1, <1>t, ComeCounts DEF Come
<1>2. CASE s.colour[x] = "white"
  <2>1. new = [[s EXCEPT !.root = s.root + 1]
                  EXCEPT !.colour = [s.colour EXCEPT ![x] = "grey"],
                         !.stack = Append(s.stack, x)]
    BY <1>2, <1>n
  <2>a. Append(s.stack, x) \in Seq(Ids(w))
    BY <1>t, <1>x, AppendProperties
  <2>c. [s.colour EXCEPT ![x] = "grey"] \in [Ids(w) -> {"white", "grey", "black"}]
    BY <1>t, <1>x
  <2>2. /\ new.root = s.root + 1 /\ new.stack = Append(s.stack, x) /\ new.cycle = s.cycle
        /\ new.colour = [s.colour EXCEPT ![x] = "grey"] /\ new.next = s.next
    BY <2>1, <1>t
  <2>3. new \in DfsType(w)
    BY <2>1, <2>a, <2>c, <1>t DEF DfsType
  <2>4. \A y \in Ids(w) : new.colour[y] = IF y = x THEN "grey" ELSE s.colour[y]
    BY <2>2, <1>t, <1>x
  <2>5. DfsBounds(w, new)
    BY <2>2, <2>4, <1>s, <1>t DEF DfsBounds
  <2>6. DfsRoots(w, new)
    <3> SUFFICES ASSUME NEW i \in 1..Len(w.nodes), i <= s.root + 1
                 PROVE  new.colour[w.nodes[i].id] # "white"
      BY <2>2 DEF DfsRoots
    <3>1. CASE i = s.root + 1
      BY <3>1, <2>4, <1>x
    <3>2. CASE i # s.root + 1
      <4>1. i <= s.root /\ w.nodes[i].id \in Ids(w)
        BY <3>2, <1>t
      <4>2. s.colour[w.nodes[i].id] # "white"
        BY <4>1, <1>s DEF DfsRoots
      <4> QED
        BY <4>1, <4>2, <2>4
    <3> QED
      BY <3>1, <3>2
  <2>7. new \in DfsStates(w)
    BY <1>2, <1>x, <2>2, <2>3, <2>5, <2>6, DfsEnters
  <2>8. Looked(w, new) = Looked(w, s) /\ Left(w, new) = Left(w, s)
    BY <2>2, <2>4, <1>2 DEF Looked, Left
  <2> QED
    <3>1. Come(w, new) = (s.root + 1) + (Cardinality(Looked(w, s)) + Cardinality(Left(w, s)))
      BY <2>2, <2>8 DEF Come
    <3> QED
      BY <2>7, <3>1, <1>t, ComeCounts DEF Come
<1> QED
  BY <1>1, <1>2

\* The path to a node that calls itself through others, and back.
IsLoop(p, a, m, c) == /\ m \in Nat /\ m >= 1 /\ a + m - 1 = Len(p)
                      /\ Len(c) = m + 1 /\ c[m + 1] = p[a]
                      /\ \A i \in 1..m : c[i] = p[a + i - 1]

LEMMA Loop ==
    ASSUME NEW T, NEW p \in Seq(T), NEW a \in 1..Len(p)
    PROVE  /\ Append(SubSeq(p, a, Len(p)), p[a]) \in Seq(T)
           /\ IsLoop(p, a, Len(p) - a + 1, Append(SubSeq(p, a, Len(p)), p[a]))
<1> DEFINE n == Len(p)
           path == SubSeq(p, a, n)
           m == n - a + 1
<1>1. n \in Nat /\ DOMAIN p = 1..n /\ a \in Nat /\ a >= 1 /\ a <= n
  BY LenProperties
<1>2. a \in Int /\ n \in Int /\ \A i \in a..n : p[i] \in T
  <2>1. \A i \in a..n : i \in 1..n
    BY <1>1
  <2> QED
    BY <1>1, <2>1, ElementOfSeq
<1>3. /\ path \in Seq(T)
      /\ Len(path) = IF a <= n THEN n - a + 1 ELSE 0
      /\ \A i \in 1..(n - a + 1) : path[i] = p[a + i - 1]
  <2> HIDE DEF n
  <2> QED
    BY <1>2, SubSeqProperties
<1>4. m \in Nat /\ m >= 1 /\ a + m - 1 = n /\ p[a] \in T
  BY <1>1, <1>2
<1>5. path \in Seq(T) /\ Len(path) = m /\ \A i \in 1..m : path[i] = p[a + i - 1]
  BY <1>1, <1>3
<1>6. n = Len(p) /\ path = SubSeq(p, a, n)
  OBVIOUS
<1>m. m = n - a + 1
  OBVIOUS
<1> HIDE DEF m, path, n
<1>7. /\ Append(path, p[a]) \in Seq(T) /\ Len(Append(path, p[a])) = m + 1
      /\ Append(path, p[a])[m + 1] = p[a]
      /\ \A i \in 1..m : Append(path, p[a])[i] = path[i]
  BY <1>4, <1>5, AppendProperties
<1> DEFINE c == Append(path, p[a])
<1>8. c \in Seq(T) /\ Len(c) = m + 1 /\ c[m + 1] = p[a] /\ \A i \in 1..m : c[i] = p[a + i - 1]
  BY <1>5, <1>7
<1>9. c = Append(SubSeq(p, a, Len(p)), p[a]) /\ m = Len(p) - a + 1 /\ a + m - 1 = Len(p)
  BY <1>4, <1>6, <1>m
<1> HIDE DEF c
<1>10. IsLoop(p, a, m, c)
  BY <1>4, <1>8, <1>9 DEF IsLoop
<1> QED
  BY <1>8, <1>9, <1>10

LEMMA LoopIsCycle ==
    ASSUME NEW w, NEW p \in Seq(Ids(w)), NEW a \in 1..Len(p),
           \A k \in 1..Len(p) : k < Len(p) => <<p[k], p[k + 1]>> \in Links(w),
           <<p[Len(p)], p[a]>> \in Links(w)
    PROVE  /\ Append(SubSeq(p, a, Len(p)), p[a]) \in Seq(Ids(w))
           /\ Append(SubSeq(p, a, Len(p)), p[a]) # <<>>
           /\ IsCycle(w, Append(SubSeq(p, a, Len(p)), p[a]))
<1> DEFINE m == Len(p) - a + 1
           c == Append(SubSeq(p, a, Len(p)), p[a])
<1>0. c \in Seq(Ids(w)) /\ IsLoop(p, a, m, c) /\ c = Append(SubSeq(p, a, Len(p)), p[a])
  BY Loop
<1> HIDE DEF m, c
<1>1. /\ m \in Nat /\ m >= 1 /\ a + m - 1 = Len(p)
      /\ Len(c) = m + 1 /\ c[m + 1] = p[a] /\ \A i \in 1..m : c[i] = p[a + i - 1]
  BY <1>0 DEF IsLoop
<1>2. Len(p) \in Nat /\ a \in Nat /\ a >= 1 /\ a <= Len(p)
  BY LenProperties
<1>3. ASSUME NEW i \in 1..m PROVE <<c[i], c[i + 1]>> \in Links(w)
  <2>1. i \in Nat /\ i >= 1 /\ i <= m
    BY <1>1
  <2>2. CASE i = m
    BY <2>1, <2>2, <1>1
  <2>3. CASE i # m
    <3>1. /\ i + 1 \in 1..m /\ a + i - 1 \in 1..Len(p) /\ a + i - 1 < Len(p)
          /\ a + (i + 1) - 1 = (a + i - 1) + 1
      BY <2>1, <2>3, <1>1, <1>2
    <3>2. c[i + 1] = p[(a + i - 1) + 1]
      <4>1. c[i + 1] = p[a + (i + 1) - 1]
        <5>1. \A j \in 1..m : c[j] = p[a + j - 1]
          BY <1>1
        <5> QED
          BY ONLY <3>1, <5>1
      <4> QED
        BY ONLY <3>1, <4>1
    <3> QED
      BY <3>1, <3>2, <1>1
  <2> QED
    BY <2>2, <2>3
<1>4. c[1] = p[a]
  <2>1. 1 \in 1..m /\ a + 1 - 1 = a
    BY <1>1, <1>2
  <2> QED
    BY <2>1, <1>1
<1>5. Len(c) >= 2 /\ Len(c) - 1 = m /\ c # <<>>
  <2>1. m + 1 >= 2 /\ m + 1 - 1 = m
    BY <1>1
  <2>2. Len(<<>>) = 0
    OBVIOUS
  <2>3. Len(c) >= 2 /\ Len(c) - 1 = m
    BY <1>1, <2>1
  <2>4. c # <<>>
    BY <2>2, <2>3
  <2> QED
    BY <2>3, <2>4
<1>6. IsCycle(w, c)
  BY <1>1, <1>3, <1>4, <1>5 DEF IsCycle
<1> QED
  BY <1>0, <1>5, <1>6

LEMMA DfsCycle ==
    ASSUME NEW w, IsGraph(w), NEW s \in DfsStates(w), s.stack # <<>>,
           NEW target \in ToSet(s.stack), <<s.stack[Len(s.stack)], target>> \in Links(w),
           NEW first, first = CHOOSE k \in DOMAIN s.stack : s.stack[k] = target,
           NEW c, c = Append(SubSeq(s.stack, first, Len(s.stack)), target)
    PROVE  c \in Seq(Ids(w)) /\ c # <<>> /\ IsCycle(w, c)
<1>1. s.stack \in Seq(Ids(w)) /\ DOMAIN s.stack = 1..Len(s.stack)
  BY DfsTypes
<1>2. DfsPath(w, s)
  BY DfsParts
<1>3. first \in 1..Len(s.stack) /\ s.stack[first] = target
  <2>1. \E k \in DOMAIN s.stack : s.stack[k] = target
    BY DEF ToSet
  <2>2. first \in DOMAIN s.stack /\ s.stack[first] = target
    BY <2>1
  <2> QED
    BY <2>2, <1>1
<1> QED
  BY <1>1, <1>2, <1>3, LoopIsCycle DEF DfsPath

LEMMA DfsFollow ==
    ASSUME NEW w, IsGraph(w), NEW s \in DfsStates(w), s.cycle = <<>>, s.stack # <<>>,
           NEW id, id = s.stack[Len(s.stack)], s.next[id] < Len(w.edges),
           NEW new, new = FollowEdge(w, s, id)
    PROVE  new \in DfsStates(w) /\ Come(w, new) = Come(w, s) + 1
<1> DEFINE e == s.next[id] + 1
           target == w.edges[e].dst
           next == [s.next EXCEPT ![id] = e]
           after == [s EXCEPT !.next = next]
           first == CHOOSE k \in DOMAIN s.stack : s.stack[k] = target
<1>s. DfsBounds(w, s) /\ DfsGrey(w, s) /\ DfsPath(w, s) /\ DfsSeen(w, s) /\ DfsClean(w, s)
      /\ DfsRoots(w, s)
  BY DfsParts
<1>t. /\ s \in [root : Nat, stack : Seq(Ids(w)), cycle : Seq(Ids(w)),
                colour : [Ids(w) -> {"white", "grey", "black"}], next : [Ids(w) -> Nat]]
      /\ s.root \in Nat /\ s.stack \in Seq(Ids(w)) /\ s.cycle \in Seq(Ids(w))
      /\ Len(s.stack) \in Nat /\ Len(s.stack) >= 1 /\ DOMAIN s.stack = 1..Len(s.stack)
      /\ id \in Ids(w) /\ s.colour \in [Ids(w) -> {"white", "grey", "black"}]
      /\ s.next \in [Ids(w) -> Nat] /\ Len(w.edges) \in Nat /\ Len(w.nodes) \in Nat
  BY DfsTypes
<1>i. id \in ToSet(s.stack) /\ s.colour[id] = "grey"
  <2>1. Len(s.stack) \in DOMAIN s.stack
    BY <1>t
  <2>2. id \in ToSet(s.stack)
    BY <2>1 DEF ToSet
  <2> QED
    BY <2>2, <1>s, <1>t DEF DfsGrey
<1>e. e \in 1..Len(w.edges) /\ e = s.next[id] + 1 /\ e \in Nat
  BY <1>t
<1>n. /\ next \in [Ids(w) -> Nat]
      /\ \A y \in Ids(w) : next[y] = IF y = id THEN e ELSE s.next[y]
  BY <1>t, <1>e
<1>a. /\ after.root = s.root /\ after.stack = s.stack /\ after.cycle = s.cycle
      /\ after.colour = s.colour /\ after.next = next
      /\ after \in [root : Nat, stack : Seq(Ids(w)), cycle : Seq(Ids(w)),
                    colour : [Ids(w) -> {"white", "grey", "black"}], next : [Ids(w) -> Nat]]
  BY <1>t, <1>n
<1>f. target = w.edges[e].dst /\ first = CHOOSE k \in DOMAIN s.stack : s.stack[k] = target
  OBVIOUS
<1>1. /\ ~Leads(w, e, id) => new = after
      /\ Leads(w, e, id) /\ s.colour[target] = "black" => new = after
      /\ Leads(w, e, id) /\ s.colour[target] = "white" =>
            new = [after EXCEPT !.colour = [after.colour EXCEPT ![target] = "grey"],
                                !.stack = Append(after.stack, target)]
      /\ Leads(w, e, id) /\ s.colour[target] = "grey" =>
            new = [after EXCEPT !.cycle =
                      Append(SubSeq(s.stack, first, Len(s.stack)), target)]
  BY DEF FollowEdge, Enter
<1>2. Leads(w, e, id) => /\ target \in Ids(w) /\ <<id, target>> \in Links(w)
                         /\ s.colour[target] \in {"white", "grey", "black"}
  <2> SUFFICES ASSUME Leads(w, e, id) PROVE target \in Ids(w) /\ <<id, target>> \in Links(w)
    BY <1>t
  <2>1. e \in Inside(w) /\ w.edges[e].src = id
    BY <1>t, <1>e, LeadsInside
  <2> QED
    BY <2>1, <1>f, InsideLeads DEF Links
<1> HIDE DEF target, next, after, first, e
\* However it goes on, one more edge of the top call has been looked at.
<1>3. ASSUME new.next = next PROVE
         /\ Looked(w, new) = Looked(w, s) \cup {<<id, e>>}
         /\ Cardinality(Looked(w, new)) = Cardinality(Looked(w, s)) + 1
  <2>1. <<id, e>> \in Ids(w) \X (1..Len(w.edges)) /\ <<id, e>> \notin Looked(w, s)
    BY <1>t, <1>e DEF Looked
  <2>2. ASSUME NEW y \in Ids(w), NEW i \in 1..Len(w.edges)
        PROVE  i <= next[y] <=> i <= s.next[y] \/ <<y, i>> = <<id, e>>
    <3>1. CASE y = id
      <4>1. next[y] = e /\ e = s.next[y] + 1 /\ s.next[y] \in Nat /\ i \in Nat
        BY <3>1, <1>n, <1>e, <1>t
      <4>2. i <= next[y] <=> i <= s.next[y] \/ i = e
        BY ONLY <4>1
      <4> QED
        BY <3>1, <4>2
    <3>2. CASE y # id
      BY <3>2, <1>n
    <3> QED
      BY <3>1, <3>2
  <2>3. \A p \in Ids(w) \X (1..Len(w.edges)) :
           p \in Looked(w, new) <=> p \in Looked(w, s) \/ p = <<id, e>>
    BY <1>3, <2>2 DEF Looked
  <2>4. Looked(w, new) = Looked(w, s) \cup {<<id, e>>}
    <3>1. Looked(w, new) \subseteq Ids(w) \X (1..Len(w.edges))
          /\ Looked(w, s) \subseteq Ids(w) \X (1..Len(w.edges))
      BY DEF Looked
    <3> QED
      BY <2>1, <2>3, <3>1
  <2> QED
    BY <2>1, <2>4, ComeFacts, FS_AddElement
<1>4. ASSUME new.next = next, new.root = s.root, Left(w, new) = Left(w, s)
      PROVE  Come(w, new) = Come(w, s) + 1
  <2>1. Come(w, new) = s.root + ((Cardinality(Looked(w, s)) + 1) + Cardinality(Left(w, s)))
    BY <1>3, <1>4 DEF Come
  <2> QED
    BY <2>1, <1>t, ComeCounts DEF Come
<1>5. ASSUME new.next = next, new.root = s.root,
             \A y \in Ids(w) : s.colour[y] # "white" => new.colour[y] = s.colour[y],
             \A y \in Ids(w) : new.colour[y] \in {"white", "black"} =>
                                  new.colour[y] = s.colour[y]
      PROVE  DfsBounds(w, new) /\ DfsRoots(w, new)
  <2>1. DfsBounds(w, new)
    <3> SUFFICES ASSUME NEW y \in Ids(w)
                 PROVE  /\ next[y] <= Len(w.edges)
                        /\ new.colour[y] = "white" => next[y] = 0
                        /\ new.colour[y] = "black" => next[y] = Len(w.edges)
      BY <1>5, <1>s DEF DfsBounds
    <3>1. CASE y = id
      <4>1. new.colour[y] = "grey"
        BY <3>1, <1>5, <1>i
      <4>2. next[y] <= Len(w.edges)
        BY <3>1, <1>n, <1>e, <1>t
      <4> QED
        BY <4>1, <4>2
    <3>2. CASE y # id
      BY <3>2, <1>5, <1>s, <1>n DEF DfsBounds
    <3> QED
      BY <3>1, <3>2
  <2>2. DfsRoots(w, new)
    <3> SUFFICES ASSUME NEW i \in 1..Len(w.nodes), i <= s.root
                 PROVE  new.colour[w.nodes[i].id] # "white"
      BY <1>5 DEF DfsRoots
    <3>1. w.nodes[i].id \in Ids(w) /\ s.colour[w.nodes[i].id] # "white"
      BY <1>s, DfsTypes DEF DfsRoots
    <3> QED
      BY <3>1, <1>5
  <2> QED
    BY <2>1, <2>2
<1>6. CASE ~Leads(w, e, id) \/ (Leads(w, e, id) /\ s.colour[target] = "black")
  <2>1. new = after
    BY <1>1, <1>6
  <2>2. /\ new \in DfsType(w) /\ new.root = s.root /\ new.stack = s.stack
        /\ new.cycle = s.cycle /\ new.colour = s.colour /\ new.next = next
    BY <2>1, <1>a DEF DfsType
  <2>3. DfsBounds(w, new) /\ DfsRoots(w, new)
    BY <2>2, <1>5
  <2>4. DfsSeen(w, new)
    <3> SUFFICES ASSUME NEW y \in Ids(w), NEW i \in 1..Len(w.edges),
                        i <= next[y], Leads(w, i, y)
                 PROVE  s.colour[w.edges[i].dst] = "black" \/ Calls(s, y, w.edges[i].dst)
      BY <2>2 DEF DfsSeen, Calls
    <3>1. CASE i <= s.next[y]
      BY <3>1, <1>s DEF DfsSeen
    <3>2. CASE ~(i <= s.next[y])
      <4>0. y = id
        BY <3>2, <1>n
      <4>1. y = id /\ i = e
        <5>1. next[id] = e /\ s.next[id] \in Nat
          BY <1>n, <1>t
        <5> QED
          BY <3>2, <4>0, <5>1, <1>e
      <4> QED
        BY <4>1, <1>6, <1>f
    <3> QED
      BY <3>1, <3>2
  <2>5. DfsGrey(w, new) /\ DfsPath(w, new) /\ DfsClean(w, new)
    BY <2>2, <1>s DEF DfsGrey, DfsPath, DfsClean
  <2>6. new \in DfsStates(w)
    BY <2>2, <2>3, <2>4, <2>5 DEF DfsStates
  <2>7. Left(w, new) = Left(w, s)
    BY <2>2 DEF Left
  <2> QED
    BY <2>2, <2>6, <2>7, <1>4
<1>7. CASE Leads(w, e, id) /\ s.colour[target] = "white"
  <2>1. new = [after EXCEPT !.colour = [after.colour EXCEPT ![target] = "grey"],
                            !.stack = Append(after.stack, target)]
    BY <1>1, <1>7
  <2>t. target \in Ids(w) /\ <<id, target>> \in Links(w)
    BY <1>2, <1>7
  <2>a. Append(after.stack, target) \in Seq(Ids(w))
    BY <1>a, <1>t, <2>t, AppendProperties
  <2>c. [after.colour EXCEPT ![target] = "grey"] \in [Ids(w) -> {"white", "grey", "black"}]
    BY <1>a, <1>t
  <2>2. /\ new.root = s.root /\ new.stack = Append(s.stack, target) /\ new.cycle = s.cycle
        /\ new.colour = [s.colour EXCEPT ![target] = "grey"] /\ new.next = next
    BY <2>1, <1>a
  <2>3. new \in DfsType(w)
    BY <2>1, <2>a, <2>c, <1>a DEF DfsType
  <2>4. \A y \in Ids(w) : new.colour[y] = IF y = target THEN "grey" ELSE s.colour[y]
    BY <2>2, <1>t
  <2>5. DfsBounds(w, new) /\ DfsRoots(w, new)
    BY <2>2, <2>4, <1>5, <1>7
  <2>6. ASSUME NEW y \in Ids(w), NEW i \in 1..Len(w.edges),
               i <= new.next[y], ~(i <= s.next[y]), Leads(w, i, y)
        PROVE  s.stack # <<>> /\ y = s.stack[Len(s.stack)] /\ w.edges[i].dst = target
    <3>0. i <= next[y]
      BY <2>2, <2>6
    <3>1. y = id
      BY <3>0, <2>6, <1>n
    <3>2. i = e
      <4>1. next[y] = e /\ e = s.next[y] + 1 /\ s.next[y] \in Nat /\ i \in Nat
        BY <3>1, <1>n, <1>e, <1>t
      <4>2. i <= next[y] /\ ~(i <= s.next[y])
        BY <3>0, <2>6
      <4> QED
        BY ONLY <4>1, <4>2
    <3> QED
      BY <3>1, <3>2, <1>f
  <2>7. new \in DfsStates(w)
    BY <1>7, <2>t, <2>2, <2>3, <2>5, <2>6, DfsEnters
  <2>8. Left(w, new) = Left(w, s)
    BY <2>4, <1>7 DEF Left
  <2> QED
    BY <2>2, <2>7, <2>8, <1>4
<1>8. CASE Leads(w, e, id) /\ s.colour[target] = "grey"
  <2> DEFINE c == Append(SubSeq(s.stack, first, Len(s.stack)), target)
  <2>1. new = [after EXCEPT !.cycle = c]
    BY <1>1, <1>8
  <2>2. target \in ToSet(s.stack) /\ <<s.stack[Len(s.stack)], target>> \in Links(w)
    BY <1>2, <1>8, <1>s DEF DfsGrey
  <2>3. c \in Seq(Ids(w)) /\ c # <<>> /\ IsCycle(w, c)
    BY <2>2, <1>f, DfsCycle
  <2> HIDE DEF c
  <2>4. /\ new \in DfsType(w) /\ new.root = s.root /\ new.stack = s.stack
        /\ new.cycle = c /\ new.colour = s.colour /\ new.next = next
    BY <2>1, <2>3, <1>a DEF DfsType
  <2>5. DfsBounds(w, new) /\ DfsRoots(w, new)
    BY <2>4, <1>5
  <2>6. DfsGrey(w, new) /\ DfsPath(w, new) /\ DfsClean(w, new)
    BY <2>4, <1>s DEF DfsGrey, DfsPath, DfsClean
  <2>7. new \in DfsStates(w)
    BY <2>3, <2>4, <2>5, <2>6 DEF DfsStates
  <2>8. Left(w, new) = Left(w, s)
    BY <2>4 DEF Left
  <2> QED
    BY <2>4, <2>7, <2>8, <1>4
<1> QED
  BY <1>2, <1>6, <1>7, <1>8

LEMMA DfsLeave ==
    ASSUME NEW w, IsGraph(w), NEW s \in DfsStates(w), s.cycle = <<>>, s.stack # <<>>,
           NEW id, id = s.stack[Len(s.stack)], ~(s.next[id] < Len(w.edges)),
           NEW new, new = Leave(s, id)
    PROVE  new \in DfsStates(w) /\ Come(w, new) = Come(w, s) + 1
<1> DEFINE n == Len(s.stack)
<1>s. DfsBounds(w, s) /\ DfsGrey(w, s) /\ DfsPath(w, s) /\ DfsSeen(w, s) /\ DfsClean(w, s)
      /\ DfsRoots(w, s)
  BY DfsParts
<1>t. /\ s \in [root : Nat, stack : Seq(Ids(w)), cycle : Seq(Ids(w)),
                colour : [Ids(w) -> {"white", "grey", "black"}], next : [Ids(w) -> Nat]]
      /\ s.root \in Nat /\ s.stack \in Seq(Ids(w)) /\ s.cycle \in Seq(Ids(w))
      /\ n \in Nat /\ n >= 1 /\ DOMAIN s.stack = 1..n
      /\ id \in Ids(w) /\ s.colour \in [Ids(w) -> {"white", "grey", "black"}]
      /\ s.next \in [Ids(w) -> Nat] /\ Len(w.edges) \in Nat /\ Len(w.nodes) \in Nat
  BY DfsTypes
<1>n. n = Len(s.stack) /\ id = s.stack[n]
  OBVIOUS
<1>f. /\ Front(s.stack) \in Seq(Ids(w)) /\ Len(Front(s.stack)) = n - 1
      /\ \A k \in 1..(n - 1) : Front(s.stack)[k] = s.stack[k]
  <2>1. 1 \in Int /\ n - 1 \in Int /\ \A i \in 1..(n - 1) : s.stack[i] \in Ids(w)
    <3>1. \A i \in 1..(n - 1) : i \in 1..n
      BY <1>t
    <3> QED
      BY <1>t, <3>1, ElementOfSeq
  <2>2. /\ SubSeq(s.stack, 1, n - 1) \in Seq(Ids(w))
        /\ Len(SubSeq(s.stack, 1, n - 1)) = IF 1 <= n - 1 THEN (n - 1) - 1 + 1 ELSE 0
        /\ \A k \in 1..((n - 1) - 1 + 1) : SubSeq(s.stack, 1, n - 1)[k] = s.stack[1 + k - 1]
    <3> HIDE DEF n
    <3> QED
      BY <2>1, SubSeqProperties
  <2>3. Front(s.stack) = SubSeq(s.stack, 1, n - 1)
    BY DEF Front
  <2>4. /\ (n - 1) - 1 + 1 = n - 1 /\ (IF 1 <= n - 1 THEN (n - 1) - 1 + 1 ELSE 0) = n - 1
        /\ \A k \in 1..(n - 1) : 1 + k - 1 = k
    <3>1. n \in Nat /\ n >= 1
      BY <1>t
    <3>2. \A k \in 1..(n - 1) : 1 + k - 1 = k
      OBVIOUS
    <3> HIDE DEF n
    <3> QED
      BY <3>1, <3>2
  <2> HIDE DEF n
  <2> QED
    BY <2>2, <2>3, <2>4
<1> HIDE DEF n
<1>k. id \in ToSet(s.stack) /\ s.colour[id] = "grey"
  <2>1. n \in DOMAIN s.stack
    BY <1>t
  <2>2. id \in ToSet(s.stack)
    BY <1>n, <2>1 DEF ToSet
  <2> QED
    BY <2>2, <1>s, <1>t DEF DfsGrey
<1>1. /\ new \in DfsType(w) /\ new.root = s.root /\ new.stack = Front(s.stack)
      /\ new.cycle = s.cycle /\ new.next = s.next
      /\ new.colour = [s.colour EXCEPT ![id] = "black"]
  <2>1. [s.colour EXCEPT ![id] = "black"] \in [Ids(w) -> {"white", "grey", "black"}]
    BY <1>t
  <2>2. new = [s EXCEPT !.colour = [s.colour EXCEPT ![id] = "black"],
                        !.stack = Front(s.stack)]
    BY <1>t DEF Leave
  <2> QED
    BY <2>1, <2>2, <1>t, <1>f DEF DfsType
<1>2. \A y \in Ids(w) : new.colour[y] = IF y = id THEN "black" ELSE s.colour[y]
  BY <1>1, <1>t
<1>3. /\ Len(new.stack) = n - 1 /\ DOMAIN new.stack = 1..(n - 1)
      /\ \A k \in 1..(n - 1) : new.stack[k] = s.stack[k] /\ k \in 1..n /\ k + 1 \in 1..n
      /\ \A k \in 1..n : k < n => k \in 1..(n - 1)
      /\ n \in 1..n /\ n \notin 1..(n - 1)
  <2>1. Len(new.stack) = n - 1 /\ DOMAIN new.stack = 1..(n - 1)
    BY <1>1, <1>f, LenProperties
  <2> QED
    BY <2>1, <1>1, <1>f, <1>t
<1>4. ASSUME NEW y PROVE y \in ToSet(new.stack) <=> y \in ToSet(s.stack) /\ y # id
  <2>1. ASSUME y \in ToSet(new.stack) PROVE y \in ToSet(s.stack) /\ y # id
    <3>1. PICK k \in 1..(n - 1) : new.stack[k] = y
      BY <2>1, <1>3 DEF ToSet
    <3>2. s.stack[k] = y /\ k \in 1..n /\ k # n
      BY <3>1, <1>3
    <3>3. y # id
      BY <3>2, <1>3, <1>n, <1>s DEF DfsGrey, Once
    <3> QED
      BY <3>2, <3>3, <1>t DEF ToSet
  <2>2. ASSUME y \in ToSet(s.stack), y # id PROVE y \in ToSet(new.stack)
    <3>1. PICK k \in 1..n : s.stack[k] = y
      BY <2>2, <1>t DEF ToSet
    <3>2. k # n
      BY <3>1, <2>2, <1>n
    <3>3. k \in 1..(n - 1)
      BY <3>1, <3>2, <1>t
    <3> QED
      BY <3>1, <3>3, <1>3 DEF ToSet
  <2> QED
    BY <2>1, <2>2
<1>5. DfsGrey(w, new)
  <2>1. Once(new.stack)
    BY <1>3, <1>n, <1>s DEF DfsGrey, Once
  <2>2. ASSUME NEW x \in Ids(w) PROVE new.colour[x] = "grey" <=> x \in ToSet(new.stack)
    <3>1. CASE x = id
      BY <3>1, <1>2, <1>4
    <3>2. CASE x # id
      BY <3>2, <1>2, <1>4, <1>s DEF DfsGrey
    <3> QED
      BY <3>1, <3>2
  <2> QED
    BY <2>1, <2>2 DEF DfsGrey
<1>6. DfsPath(w, new)
  <2> SUFFICES ASSUME NEW k \in 1..(n - 1), k < n - 1
               PROVE  <<new.stack[k], new.stack[k + 1]>> \in Links(w)
    BY <1>3 DEF DfsPath
  <2>1. k \in 1..n /\ k < n /\ k + 1 \in 1..(n - 1)
    BY <1>t
  <2> QED
    BY <2>1, <1>3, <1>n, <1>s DEF DfsPath
<1>7. DfsBounds(w, new)
  BY <1>1, <1>2, <1>s, <1>t DEF DfsBounds
<1>8. DfsRoots(w, new)
  <2> SUFFICES ASSUME NEW i \in 1..Len(w.nodes), i <= s.root
               PROVE  new.colour[w.nodes[i].id] # "white"
    BY <1>1 DEF DfsRoots
  <2>1. w.nodes[i].id \in Ids(w) /\ s.colour[w.nodes[i].id] # "white"
    BY <1>s, DfsTypes DEF DfsRoots
  <2> QED
    BY <2>1, <1>2
<1>9. DfsSeen(w, new)
  <2> SUFFICES ASSUME NEW y \in Ids(w), NEW i \in 1..Len(w.edges),
                      i <= s.next[y], Leads(w, i, y)
               PROVE  new.colour[w.edges[i].dst] = "black" \/ Calls(new, y, w.edges[i].dst)
    BY <1>1 DEF DfsSeen
  <2>d. w.edges[i].dst \in Ids(w)
    BY DEF Leads
  <2>1. s.colour[w.edges[i].dst] = "black" \/ Calls(s, y, w.edges[i].dst)
    BY <1>s DEF DfsSeen
  <2>2. CASE s.colour[w.edges[i].dst] = "black"
    BY <2>2, <2>d, <1>2
  <2>3. CASE Calls(s, y, w.edges[i].dst)
    <3>1. PICK k \in 1..n : k < n /\ s.stack[k] = y /\ s.stack[k + 1] = w.edges[i].dst
      BY <2>3, <1>n DEF Calls
    <3>2. CASE k + 1 = n
      BY <3>1, <3>2, <2>d, <1>n, <1>2
    <3>3. CASE k + 1 # n
      <4>1. k \in 1..(n - 1) /\ k < n - 1 /\ k + 1 \in 1..(n - 1)
        <5>1. n \in Nat /\ k \in 1..n
          BY <1>t
        <5> QED
          BY <5>1, <3>1, <3>3
      <4>2. new.stack[k] = y /\ new.stack[k + 1] = w.edges[i].dst
        BY <4>1, <3>1, <1>3
      <4> QED
        BY <4>1, <4>2, <1>3 DEF Calls
    <3> QED
      BY <3>2, <3>3
  <2> QED
    BY <2>1, <2>2, <2>3
\* What is black is closed, and has the targets of the node that is left.
<1>10. id \notin Onward(w, id)
  <2> DEFINE S == Left(w, s)
  <2>1. S \in SUBSET (Ids(w) \ {id})
    BY <1>k DEF Left
  <2>2. ASSUME NEW i \in Inside(w), NEW x \in Ids(w), w.edges[i].src = x,
               x = id \/ s.colour[x] = "black"
        PROVE  w.edges[i].dst \in S
    <3>1. i \in 1..Len(w.edges) /\ Leads(w, i, x) /\ w.edges[i].dst \in Ids(w)
      BY <2>2, InsideLeads
    <3>2. i <= s.next[x]
      <4>1. s.next[x] = Len(w.edges)
        <5>1. s.next[x] \in Nat /\ s.next[x] <= Len(w.edges)
              /\ (s.colour[x] = "black" => s.next[x] = Len(w.edges))
          BY <1>s, <1>t DEF DfsBounds
        <5> QED
          BY <5>1, <2>2, <1>t
      <4> QED
        BY <4>1, <3>1, <1>t
    <3>3. ~Calls(s, x, w.edges[i].dst)
      <4> SUFFICES ASSUME NEW k \in 1..n, k < n, s.stack[k] = x PROVE FALSE
        BY <1>n DEF Calls
      <4>1. x \in ToSet(s.stack)
        BY <1>t DEF ToSet
      <4>2. x = id
        BY <4>1, <2>2, <1>s DEF DfsGrey
      <4>3. k = n
        BY <4>2, <1>n, <1>3, <1>s DEF DfsGrey, Once
      <4> QED
        BY <4>3, <1>t
    <3> QED
      BY <3>1, <3>2, <3>3, <1>s DEF DfsSeen, Left
  <2>3. Closed(w, S) /\ HasTargets(w, id, S)
    <3>1. ASSUME NEW i \in Inside(w), w.edges[i].src \in S PROVE w.edges[i].dst \in S
      <4>1. w.edges[i].src \in Ids(w) /\ s.colour[w.edges[i].src] = "black"
        BY <3>1 DEF Left
      <4> QED
        BY <4>1, <2>2
    <3>2. ASSUME NEW i \in Inside(w), w.edges[i].src = id PROVE w.edges[i].dst \in S
      BY <3>2, <1>t, <2>2
    <3> QED
      BY <3>1, <3>2 DEF Closed, HasTargets
  <2> HIDE DEF S
  <2> QED
    BY <2>1, <2>3 DEF Onward
<1>11. DfsClean(w, new)
  BY <1>2, <1>10, <1>s DEF DfsClean
<1>12. new \in DfsStates(w)
  BY <1>1, <1>5, <1>6, <1>7, <1>8, <1>9, <1>11 DEF DfsStates
<1>13. Looked(w, new) = Looked(w, s)
  BY <1>1 DEF Looked
<1>14. Left(w, new) = Left(w, s) \cup {id} /\ id \notin Left(w, s)
  BY <1>2, <1>t, <1>k DEF Left
<1>15. Cardinality(Left(w, new)) = Cardinality(Left(w, s)) + 1
  <2>1. IsFiniteSet(Left(w, s))
    BY ComeFacts
  <2> QED
    BY <1>14, <2>1, FS_AddElement
<1>16. Come(w, new) = s.root + (Cardinality(Looked(w, s)) + (Cardinality(Left(w, s)) + 1))
  BY <1>1, <1>13, <1>15 DEF Come
<1> QED
  BY <1>12, <1>16, <1>t, ComeCounts DEF Come

DfsRest(w, s) == s.cycle # <<>> \/ (s.stack = <<>> /\ s.root = Len(w.nodes))

LEMMA DfsSteps ==
    ASSUME NEW w, IsGraph(w), NEW s \in DfsStates(w)
    PROVE  /\ DfsStep(w, s) \in DfsStates(w)
           /\ DfsRest(w, s) => DfsStep(w, s) = s
           /\ ~DfsRest(w, s) => Come(w, DfsStep(w, s)) = Come(w, s) + 1
<1> DEFINE new == DfsStep(w, s)
           id == s.stack[Len(s.stack)]
<1>t. /\ s.root \in Nat /\ s.root <= Len(w.nodes) /\ Len(w.nodes) \in Nat
      /\ Len(w.edges) \in Nat
      /\ s.stack # <<>> => id \in Ids(w) /\ s.next[id] \in Nat
  BY DfsTypes, DfsParts DEF DfsBounds
<1>n. /\ s.cycle # <<>> => new = s
      /\ s.cycle = <<>> /\ s.stack = <<>> =>
            new = IF s.root < Len(w.nodes) THEN TryRoot(w, s) ELSE s
      /\ s.cycle = <<>> /\ s.stack # <<>> =>
            new = IF s.next[id] < Len(w.edges) THEN FollowEdge(w, s, id) ELSE Leave(s, id)
  BY DEF DfsStep
<1> HIDE DEF new, id
<1>1. ASSUME DfsRest(w, s) PROVE new = s
  <2>1. CASE s.cycle # <<>>
    BY <2>1, <1>n
  <2>2. CASE s.cycle = <<>> /\ s.stack = <<>> /\ s.root = Len(w.nodes)
    BY <2>2, <1>n, <1>t
  <2> QED
    BY <1>1, <2>1, <2>2 DEF DfsRest
<1>2. ASSUME s.cycle = <<>>, s.stack = <<>>, s.root # Len(w.nodes)
      PROVE  new \in DfsStates(w) /\ Come(w, new) = Come(w, s) + 1
  <2>1. s.root < Len(w.nodes)
    BY <1>2, <1>t
  <2>2. new = TryRoot(w, s)
    BY <1>2, <2>1, <1>n
  <2> QED
    BY <1>2, <2>1, <2>2, DfsTryRoot
<1>3. ASSUME s.cycle = <<>>, s.stack # <<>>, s.next[id] < Len(w.edges)
      PROVE  new \in DfsStates(w) /\ Come(w, new) = Come(w, s) + 1
  <2>1. new = FollowEdge(w, s, id)
    BY <1>3, <1>n
  <2> QED
    BY <1>3, <2>1, DfsFollow DEF id
<1>4. ASSUME s.cycle = <<>>, s.stack # <<>>, ~(s.next[id] < Len(w.edges))
      PROVE  new \in DfsStates(w) /\ Come(w, new) = Come(w, s) + 1
  <2>1. new = Leave(s, id)
    BY <1>4, <1>n
  <2> QED
    BY <1>4, <2>1, DfsLeave DEF id
<1>5. /\ new \in DfsStates(w)
      /\ ~DfsRest(w, s) => Come(w, new) = Come(w, s) + 1
  BY <1>1, <1>2, <1>3, <1>4 DEF DfsRest
<1> QED
  BY <1>1, <1>5 DEF new

LEMMA DfsUnfolds ==
    ASSUME NEW w, IsGraph(w)
    PROVE  /\ Dfs(w)[0] = DfsStart(w)
           /\ \A n \in Nat : /\ Dfs(w)[n] \in DfsStates(w)
                             /\ Dfs(w)[n + 1] = DfsStep(w, Dfs(w)[n])
<1> DEFINE W == DfsStates(w)
           start == DfsStart(w)
           step == [n \in Nat |-> [s \in W |-> DfsStep(w, s)]]
           Run(f) == f = [n \in Nat |-> IF n = 0 THEN start ELSE DfsStep(w, f[n - 1])]
           run == Dfs(w)
<1>0. \A s \in W : DfsStep(w, s) \in W
  BY DfsSteps
<1>1. step \in [Nat -> [W -> W]] /\ start \in W
  BY <1>0, DfsStarts
<1>2. \A n \in Nat, s \in W : step[n][s] = DfsStep(w, s) /\ DfsStep(w, s) \in W
  BY <1>0
<1>d. run = CHOOSE f : Run(f)
  BY DEF Dfs, DfsStart
<1> HIDE DEF step, W, start, run
<1>3. Iterates(W, start, step)
  BY <1>1, Iteration
<1>4. PICK f \in [Nat -> W] : f[0] = start /\ \A n \in Nat : f[n + 1] = step[n + 1][f[n]]
  BY <1>3 DEF Iterates
<1>5. Run(f)
  <2>1. ASSUME NEW n \in Nat, n # 0 PROVE f[n] = DfsStep(w, f[n - 1])
    <3>1. n - 1 \in Nat /\ (n - 1) + 1 = n /\ f[n - 1] \in W
      BY <2>1, <1>4
    <3> QED
      BY <3>1, <1>2, <1>4
  <2>2. f = [n \in Nat |-> f[n]]
    BY <1>4
  <2> QED
    BY <2>1, <2>2, <1>4
<1>6. Run(run)
  BY <1>5, <1>d
<1>7. /\ run[0] = start
      /\ \A n \in Nat : run[n + 1] = DfsStep(w, run[n])
  <2>1. \A n \in Nat : n + 1 \in Nat /\ n + 1 # 0 /\ (n + 1) - 1 = n
    OBVIOUS
  <2> QED
    BY <1>6, <2>1
<1> HIDE DEF Run
<1>8. \A n \in Nat : run[n] \in W
  <2> DEFINE Good == {n \in Nat : run[n] \in W}
  <2>1. 0 \in Good
    BY <1>1, <1>7
  <2>2. ASSUME NEW n \in Good PROVE n + 1 \in Good
    BY <1>2, <1>7
  <2> HIDE DEF Good
  <2>3. Good \in SUBSET Nat
    BY DEF Good
  <2>4. Good = Nat
    BY <2>1, <2>2, <2>3, NatStep
  <2> QED
    BY <2>4 DEF Good
<1> QED
  BY <1>7, <1>8 DEF W, start, run

LEMMA DfsRests ==
    ASSUME NEW w, IsGraph(w)
    PROVE  Dfs(w)[Rounds(w)] \in DfsStates(w) /\ DfsRest(w, Dfs(w)[Rounds(w)])
<1> DEFINE Turn(n) == Dfs(w)[n]
           Good == {n \in Nat : DfsRest(w, Turn(n)) \/ Come(w, Turn(n)) = n}
<1>g. /\ Len(w.nodes) \in Nat /\ Len(w.edges) \in Nat /\ Rounds(w) \in Nat
  BY GraphFacts
<1>1. 0 \in Good
  <2>1. Turn(0) = DfsStart(w)
    BY DfsUnfolds
  <2>2. /\ DfsStart(w).root = 0
        /\ \A x \in Ids(w) : DfsStart(w).next[x] = 0 /\ DfsStart(w).colour[x] = "white"
    BY DEF DfsStart
  <2>3. Looked(w, DfsStart(w)) = {} /\ Left(w, DfsStart(w)) = {}
    BY <2>2 DEF Looked, Left
  <2>4. Come(w, DfsStart(w)) = 0
    <3>1. Cardinality({}) = 0
      BY FS_EmptySet
    <3>2. Come(w, DfsStart(w)) = 0 + (0 + 0)
      BY <2>2, <2>3, <3>1 DEF Come
    <3> QED
      BY <3>2
  <2> QED
    BY <2>1, <2>4
<1>2. ASSUME NEW n \in Good PROVE n + 1 \in Good
  <2>1. n \in Nat /\ Turn(n) \in DfsStates(w) /\ Turn(n + 1) = DfsStep(w, Turn(n))
    BY DfsUnfolds
  <2>2. CASE DfsRest(w, Turn(n))
    <3>1. Turn(n + 1) = Turn(n)
      BY <2>1, <2>2, DfsSteps
    <3> QED
      BY <2>1, <2>2, <3>1
  <2>3. CASE ~DfsRest(w, Turn(n))
    <3>1. Come(w, Turn(n + 1)) = Come(w, Turn(n)) + 1
      BY <2>1, <2>3, DfsSteps
    <3> QED
      BY <2>1, <2>3, <3>1
  <2> QED
    BY <2>2, <2>3
<1>3. Good = Nat
  <2>1. Good \in SUBSET Nat
    OBVIOUS
  <2> HIDE DEF Good
  <2> QED
    BY <1>1, <1>2, <2>1, NatStep
<1> DEFINE s == Turn(Rounds(w))
<1>4. s \in DfsStates(w)
  BY <1>g, DfsUnfolds
<1>5. DfsRest(w, s) \/ Come(w, s) = Rounds(w)
  BY <1>3, <1>g
<1>s. s = Dfs(w)[Rounds(w)]
  OBVIOUS
<1> HIDE DEF s
<1>6. ASSUME ~DfsRest(w, s) PROVE Come(w, s) < Rounds(w)
  <2> DEFINE N == Len(w.nodes)
             looked == Cardinality(Looked(w, s))
             left == Cardinality(Left(w, s))
  <2>1. Rounds(w) = N * Len(w.edges) + (N + N)
    <3>1. \A a, b \in Nat : a * (b + 2) = a * b + (a + a)
      OBVIOUS
    <3> QED
      BY <3>1, <1>g DEF Rounds
  <2>2. /\ s.root \in Nat /\ s.root <= N /\ looked \in Nat /\ looked <= N * Len(w.edges)
        /\ left \in Nat /\ left <= N /\ N * Len(w.edges) \in Nat /\ N \in Nat
    BY <1>4, <1>g, ComeFacts, DfsTypes, DfsParts, Rows DEF DfsBounds
  <2>3. s.root < N \/ left < N
    <3>1. CASE s.stack = <<>>
      <4>1. s.root # N
        BY <1>6, <3>1 DEF DfsRest
      <4> QED
        BY <4>1, <2>2
    <3>2. CASE s.stack # <<>>
      <4>1. s.stack[Len(s.stack)] \in Ids(w) /\ Len(s.stack) \in DOMAIN s.stack
        BY <1>4, <3>2, DfsTypes
      <4>2. s.colour[s.stack[Len(s.stack)]] = "grey"
        BY <1>4, <4>1, DfsParts DEF DfsGrey, ToSet
      <4>3. Left(w, s) # Ids(w)
        BY <4>1, <4>2 DEF Left
      <4> QED
        BY <4>3, ComeFacts
    <3> QED
      BY <3>1, <3>2
  <2>4. Come(w, s) = s.root + (looked + left)
    BY DEF Come
  <2>5. \A r, a, b, n, p \in Nat : r <= n /\ b <= n /\ a <= p /\ (r < n \/ b < n)
            => r + (a + b) < p + (n + n)
    OBVIOUS
  <2> HIDE DEF N, looked, left
  <2> QED
    BY <2>1, <2>2, <2>3, <2>4, <2>5
<1>7. DfsRest(w, s)
  <2>1. Come(w, s) \in Nat
    BY <1>4, ComeCounts, DfsTypes
  <2> QED
    BY <2>1, <1>5, <1>6, <1>g
<1> QED
  BY <1>4, <1>7, <1>s

LEMMA CycleIsOnward ==
    ASSUME NEW w, IsGraph(w), NEW c \in Seq(Ids(w)), IsCycle(w, c)
    PROVE  c[1] \in Ids(w) /\ c[1] \in Onward(w, c[1])
<1> DEFINE Far == {n \in Nat : n + 2 <= Len(c) => c[n + 2] \in Onward(w, c[1])}
<1>t. Len(c) \in Nat /\ DOMAIN c = 1..Len(c) /\ Len(c) >= 2 /\ c[1] = c[Len(c)]
  BY LenProperties DEF IsCycle
<1>1. c[1] \in Ids(w)
  <2>1. 1 \in 1..Len(c)
    BY <1>t
  <2> QED
    BY <2>1, ElementOfSeq
<1>2. \A k \in 1..(Len(c) - 1) : \E i \in Inside(w) :
         w.edges[i].src = c[k] /\ w.edges[i].dst = c[k + 1]
  BY DEF IsCycle, Links
<1>3. 0 \in Far
  <2>1. PICK i \in Inside(w) : w.edges[i].src = c[1] /\ w.edges[i].dst = c[2]
    <3>1. 1 \in 1..(Len(c) - 1) /\ 1 + 1 = 2
      BY <1>t
    <3> QED
      BY <3>1, <1>2
  <2>2. c[2] \in Onward(w, c[1])
    BY <2>1, OnwardFirst
  <2> QED
    BY <2>2
<1>4. ASSUME NEW n \in Far PROVE n + 1 \in Far
  <2> SUFFICES ASSUME (n + 1) + 2 <= Len(c) PROVE c[(n + 1) + 2] \in Onward(w, c[1])
    OBVIOUS
  <2>1. n \in Nat /\ n + 2 <= Len(c) /\ n + 2 \in 1..(Len(c) - 1) /\ (n + 2) + 1 = (n + 1) + 2
    BY <1>t
  <2>2. c[n + 2] \in Onward(w, c[1])
    BY <2>1
  <2>3. PICK i \in Inside(w) : w.edges[i].src = c[n + 2] /\ w.edges[i].dst = c[(n + 2) + 1]
    BY <2>1, <1>2
  <2>4. c[(n + 2) + 1] \in Onward(w, c[1])
    BY <2>2, <2>3, OnwardNext
  <2> QED
    BY <2>1, <2>4
<1>5. Far = Nat
  <2>1. Far \in SUBSET Nat
    OBVIOUS
  <2> HIDE DEF Far
  <2> QED
    BY <1>3, <1>4, <2>1, NatStep
<1>6. Len(c) - 2 \in Nat /\ (Len(c) - 2) + 2 = Len(c)
  BY <1>t
<1>7. c[Len(c)] \in Onward(w, c[1])
  <2>1. Len(c) - 2 \in Far
    BY <1>5, <1>6
  <2>2. (Len(c) - 2) + 2 <= Len(c) => c[(Len(c) - 2) + 2] \in Onward(w, c[1])
    BY <2>1
  <2>3. Len(c) <= Len(c)
    BY <1>t
  <2> HIDE DEF Far
  <2> QED
    BY <1>6, <2>2, <2>3
<1> QED
  BY <1>1, <1>7, <1>t

\* find_cycle finds one where there is one, and what it finds is one.
LEMMA FindCycleIs ==
    ASSUME NEW w, IsGraph(w)
    PROVE  /\ FindCycle(w) # <<>> => IsCycle(w, FindCycle(w))
           /\ FindCycle(w) # <<>> <=> \E id \in Ids(w) : id \in Onward(w, id)
<1> DEFINE s == Dfs(w)[Rounds(w)]
<1>1. s \in DfsStates(w) /\ DfsRest(w, s)
  BY DfsRests
<1>2. FindCycle(w) = s.cycle
  BY DEF FindCycle
<1> HIDE DEF s
<1>3. s.cycle # <<>> => IsCycle(w, s.cycle)
  BY <1>1, DfsParts
<1>4. s.cycle # <<>> => \E id \in Ids(w) : id \in Onward(w, id)
  BY <1>1, <1>3, DfsTypes, CycleIsOnward
<1>5. ASSUME s.cycle = <<>>, NEW id \in Ids(w) PROVE id \notin Onward(w, id)
  <2>1. s.stack = <<>> /\ s.root = Len(w.nodes)
    BY <1>1, <1>5 DEF DfsRest
  <2>2. id \notin ToSet(s.stack)
    <3>1. DOMAIN s.stack = {}
      BY <2>1
    <3> QED
      BY <3>1 DEF ToSet
  <2>3. s.colour[id] # "grey" /\ s.colour[id] \in {"white", "grey", "black"}
    BY <1>1, <2>2, DfsParts, DfsTypes DEF DfsGrey
  <2>4. s.colour[id] # "white"
    <3>1. PICK i \in 1..Len(w.nodes) : w.nodes[i].id = id
      BY GraphFacts DEF Ids, Positions
    <3>2. i <= s.root
      BY <2>1, GraphFacts
    <3> QED
      BY <1>1, <3>1, <3>2, DfsParts DEF DfsRoots
  <2> QED
    BY <1>1, <2>3, <2>4, DfsParts DEF DfsClean
<1> QED
  BY <1>2, <1>3, <1>4, <1>5

-----------------------------------------------------------------------------
\* What is kept of a sequence, up to a position of it.

Chosen(s, S, k, p) ==
    /\ \A i \in 1..Len(p) : \E m \in 1..k : p[i] = s[m] /\ s[m] \in S
    /\ \A m \in 1..k : s[m] \in S => \E i \in 1..Len(p) : p[i] = s[m]
InOrderOf(s, p) == \A i, j \in 1..Len(p), a, b \in 1..Len(s) :
    p[i] = s[a] /\ p[j] = s[b] /\ i < j => a < b

LEMMA KeptOneMore ==
    ASSUME NEW T, NEW s \in Seq(T), Once(s), NEW S, NEW k \in Nat, k < Len(s),
           NEW p \in Seq(T), Chosen(s, S, k, p), InOrderOf(s, p),
           NEW q, q = IF s[k + 1] \in S THEN Append(p, s[k + 1]) ELSE p
    PROVE  q \in Seq(T) /\ Chosen(s, S, k + 1, q) /\ InOrderOf(s, q)
<1>1. /\ Len(s) \in Nat /\ Len(p) \in Nat /\ k + 1 \in 1..Len(s) /\ s[k + 1] \in T
      /\ \A m \in 1..(k + 1) : m \in 1..Len(s) /\ (m = k + 1 \/ m \in 1..k)
      /\ \A m \in 1..k : m \in 1..(k + 1) /\ m \in 1..Len(s)
      /\ k + 1 \in 1..(k + 1)
  <2>1. Len(s) \in Nat /\ Len(p) \in Nat
    BY LenProperties
  <2>2. k + 1 \in 1..Len(s)
    BY <2>1
  <2> QED
    BY <2>1, <2>2, ElementOfSeq
<1>2. CASE s[k + 1] \notin S
  <2>1. q = p
    BY <1>2
  <2>2. Chosen(s, S, k + 1, p)
    <3>1. ASSUME NEW m \in 1..(k + 1), s[m] \in S PROVE \E i \in 1..Len(p) : p[i] = s[m]
      <4>1. m \in 1..k
        BY <1>1, <1>2, <3>1
      <4> QED
        BY <4>1, <3>1 DEF Chosen
    <3>2. ASSUME NEW i \in 1..Len(p) PROVE \E m \in 1..(k + 1) : p[i] = s[m] /\ s[m] \in S
      BY <1>1 DEF Chosen
    <3> QED
      BY <3>1, <3>2 DEF Chosen
  <2> QED
    BY <2>1, <2>2
<1>3. CASE s[k + 1] \in S
  <2>1. q = Append(p, s[k + 1])
    BY <1>3
  <2>2. /\ q \in Seq(T) /\ Len(q) = Len(p) + 1 /\ q[Len(p) + 1] = s[k + 1]
        /\ \A i \in 1..Len(p) : q[i] = p[i]
    BY <2>1, <1>1, AppendProperties
  <2>3. /\ \A i \in 1..Len(q) : i = Len(p) + 1 \/ i \in 1..Len(p)
        /\ \A i \in 1..Len(p) : i \in 1..Len(q)
        /\ Len(p) + 1 \in 1..Len(q)
    BY <2>2, <1>1
  <2> HIDE DEF Chosen, InOrderOf
  <2>4. Chosen(s, S, k + 1, q)
    <3>1. ASSUME NEW i \in 1..Len(q) PROVE \E m \in 1..(k + 1) : q[i] = s[m] /\ s[m] \in S
      <4>1. CASE i = Len(p) + 1
        BY <4>1, <1>3, <1>1, <2>2
      <4>2. CASE i \in 1..Len(p)
        <5>1. PICK m \in 1..k : p[i] = s[m] /\ s[m] \in S
          BY <4>2 DEF Chosen
        <5> QED
          BY <4>2, <5>1, <1>1, <2>2
      <4> QED
        BY <2>3, <4>1, <4>2
    <3>2. ASSUME NEW m \in 1..(k + 1), s[m] \in S PROVE \E i \in 1..Len(q) : q[i] = s[m]
      <4>1. CASE m = k + 1
        BY <4>1, <2>2, <2>3
      <4>2. CASE m \in 1..k
        <5>1. PICK i \in 1..Len(p) : p[i] = s[m]
          BY <4>2, <3>2 DEF Chosen
        <5> QED
          BY <5>1, <2>2, <2>3
      <4> QED
        BY <1>1, <4>1, <4>2
    <3> QED
      BY <3>1, <3>2 DEF Chosen
  <2>5. ASSUME NEW i \in 1..Len(p), NEW a \in 1..Len(s), q[i] = s[a] PROVE a < k + 1
    <3>1. PICK m \in 1..k : p[i] = s[m]
      BY DEF Chosen
    <3>2. a = m
      BY <3>1, <2>5, <2>2, <1>1 DEF Once
    <3> QED
      BY <3>2
  <2>6. InOrderOf(s, q)
    <3> SUFFICES ASSUME NEW i \in 1..Len(q), NEW j \in 1..Len(q),
                        NEW a \in 1..Len(s), NEW b \in 1..Len(s),
                        q[i] = s[a], q[j] = s[b], i < j
                 PROVE  a < b
      BY DEF InOrderOf
    <3>1. i \in 1..Len(p)
      BY <1>1, <2>2
    <3>2. CASE j \in 1..Len(p)
      BY <3>1, <3>2, <2>2 DEF InOrderOf
    <3>3. CASE j = Len(p) + 1
      <4>1. b = k + 1
        BY <3>3, <2>2, <1>1 DEF Once
      <4> QED
        BY <4>1, <3>1, <2>5
    <3> QED
      BY <2>3, <3>2, <3>3
  <2> QED
    BY <2>2, <2>4, <2>6
<1> QED
  BY <1>2, <1>3

LEMMA KeptIs ==
    ASSUME NEW T, NEW s \in Seq(T), Once(s), NEW S
    PROVE  /\ Kept(s, S) \in Seq(T) /\ ToSet(Kept(s, S)) = ToSet(s) \cap S
           /\ InOrderOf(s, Kept(s, S))
<1> DEFINE E == {s[k] : k \in Nat}
           W == Seq(E)
           Longer(n, p) == IF s[n] \in S THEN Append(p, s[n]) ELSE p
           step == [n \in Nat |-> [p \in W |-> Longer(n, p)]]
           Run(f) == f = [n \in Nat |-> IF n = 0 THEN <<>>
                                        ELSE IF s[n] \in S THEN Append(f[n - 1], s[n])
                                        ELSE f[n - 1]]
           run == CHOOSE f : Run(f)
           Good == {n \in Nat : n <= Len(s) =>
                       run[n] \in Seq(T) /\ Chosen(s, S, n, run[n]) /\ InOrderOf(s, run[n])}
<1>a. Kept(s, S) = run[Len(s)]
  BY DEF Kept
<1>b. Len(s) \in Nat /\ DOMAIN s = 1..Len(s)
  BY LenProperties
<1>0. \A n \in Nat, p \in W : Longer(n, p) \in W
  BY AppendProperties
<1>d. run = CHOOSE f : Run(f)
  OBVIOUS
<1>1. step \in [Nat -> [W -> W]] /\ <<>> \in W
  <2>1. <<>> \in W
    BY EmptySeq
  <2> HIDE DEF W, Longer
  <2> QED
    BY <1>0, <2>1
<1>2. \A n \in Nat, p \in W : step[n][p] = Longer(n, p)
  OBVIOUS
<1> HIDE DEF step, W, run
<1>3. Iterates(W, <<>>, step)
  BY <1>1, Iteration
<1>4. PICK f \in [Nat -> W] : f[0] = <<>> /\ \A n \in Nat : f[n + 1] = step[n + 1][f[n]]
  BY <1>3 DEF Iterates
<1>5. Run(f)
  <2>1. ASSUME NEW n \in Nat, n # 0 PROVE f[n] = Longer(n, f[n - 1])
    <3>1. n - 1 \in Nat /\ (n - 1) + 1 = n
      BY <2>1
    <3>2. f[n - 1] \in W
      BY <3>1
    <3> HIDE DEF Longer
    <3> QED
      BY <3>1, <3>2, <1>2, <1>4
  <2>2. f = [n \in Nat |-> f[n]]
    BY <1>4
  <2> QED
    BY <2>1, <2>2, <1>4
<1>6. Run(run)
  BY <1>5, <1>d
<1>7. /\ run[0] = <<>>
      /\ \A n \in Nat : run[n + 1] = Longer(n + 1, run[n])
  <2>1. \A n \in Nat : n + 1 \in Nat /\ n + 1 # 0 /\ (n + 1) - 1 = n
    OBVIOUS
  <2> QED
    BY <1>6, <2>1
<1> HIDE DEF Run
<1>8. 0 \in Good
  <2>1. <<>> \in Seq(T) /\ Len(<<>>) = 0
    BY EmptySeq
  <2>2. Chosen(s, S, 0, <<>>) /\ InOrderOf(s, <<>>)
    BY <2>1 DEF Chosen, InOrderOf
  <2> QED
    BY <2>1, <2>2, <1>7
<1>9. ASSUME NEW n \in Good PROVE n + 1 \in Good
  <2> SUFFICES ASSUME n + 1 <= Len(s)
               PROVE  /\ run[n + 1] \in Seq(T) /\ Chosen(s, S, n + 1, run[n + 1])
                      /\ InOrderOf(s, run[n + 1])
    OBVIOUS
  <2>1. n \in Nat /\ n < Len(s) /\ n <= Len(s)
    BY <1>b
  <2>2. run[n] \in Seq(T) /\ Chosen(s, S, n, run[n]) /\ InOrderOf(s, run[n])
    BY <2>1
  <2>3. run[n + 1] = IF s[n + 1] \in S THEN Append(run[n], s[n + 1]) ELSE run[n]
    BY <2>1, <1>7
  <2> HIDE DEF Good
  <2> QED
    BY <2>1, <2>2, <2>3, KeptOneMore
<1>10. Good = Nat
  <2>1. Good \in SUBSET Nat
    OBVIOUS
  <2> HIDE DEF Good
  <2> QED
    BY <1>8, <1>9, <2>1, NatStep
<1> DEFINE p == run[Len(s)]
<1>11. p \in Seq(T) /\ Chosen(s, S, Len(s), p) /\ InOrderOf(s, p)
  <2>1. Len(s) \in Good /\ Len(s) <= Len(s)
    BY <1>10, <1>b
  <2> QED
    BY <2>1
<1> HIDE DEF p
<1>12. ToSet(p) = ToSet(s) \cap S
  <2>1. DOMAIN p = 1..Len(p)
    BY <1>11, LenProperties
  <2>2. ASSUME NEW x \in ToSet(p) PROVE x \in ToSet(s) \cap S
    <3>1. PICK i \in 1..Len(p) : p[i] = x
      BY <2>1 DEF ToSet
    <3> QED
      BY <3>1, <1>11, <1>b DEF Chosen, ToSet
  <2>3. ASSUME NEW x \in ToSet(s) \cap S PROVE x \in ToSet(p)
    <3>1. PICK m \in 1..Len(s) : s[m] = x
      BY <1>b DEF ToSet
    <3>2. PICK i \in 1..Len(p) : p[i] = x
      BY <3>1, <1>11 DEF Chosen
    <3> QED
      BY <3>2, <2>1 DEF ToSet
  <2> QED
    BY <2>2, <2>3
<1> QED
  BY <1>a, <1>11, <1>12 DEF p

-----------------------------------------------------------------------------
\* Documents: what parsing and migrating make of one.

LEMMA ListOf ==
    ASSUME NEW n \in Nat, NEW f, f = [i \in 1..n |-> f[i]]
    PROVE  f \in Seq(ToSet(f)) /\ Len(f) = n /\ DOMAIN f = 1..n
<1>1. DOMAIN f = 1..n
  OBVIOUS
<1>2. \A i \in 1..n : f[i] \in ToSet(f)
  BY <1>1 DEF ToSet
<1>3. f \in [1..n -> ToSet(f)]
  BY <1>2
<1>4. f \in Seq(ToSet(f)) /\ Len(f) = n
  <2> HIDE DEF ToSet
  <2>1. \A T, g : g \in [1..n -> T] => g \in Seq(T) /\ Len(g) = n
    OBVIOUS
  <2> QED
    BY <1>3, <2>1
<1> QED
  BY <1>1, <1>4

LEMMA DocumentFacts ==
    ASSUME NEW d, IsDocument(d)
    PROVE  /\ IsGraph(d) /\ Len(d.nodes) \in Nat /\ Len(d.edges) \in Nat
           /\ DOMAIN d.nodes = 1..Len(d.nodes) /\ DOMAIN d.edges = 1..Len(d.edges)
           /\ \A i \in 1..Len(d.nodes) : IsNode(d.nodes[i])
           /\ \A i \in 1..Len(d.edges) : IsEdge(d.edges[i])
<1>1. IsGraph(d)
  BY DEF IsDocument, IsGraph
<1>2. /\ Len(d.nodes) \in Nat /\ Len(d.edges) \in Nat
      /\ DOMAIN d.nodes = 1..Len(d.nodes) /\ DOMAIN d.edges = 1..Len(d.edges)
  BY <1>1, GraphFacts
<1> QED
  BY <1>1, <1>2 DEF IsDocument

LEMMA ParsedNodeIs ==
    ASSUME NEW n, IsNode(n)
    PROVE  /\ IsNode(ParsedNode(n)) /\ ParsedNode(n).id = n.id
           /\ ParsedNode(n).type = n.type /\ ParsedNode(n).legacy = n.legacy
BY DEF IsNode, ParsedNode

LEMMA ParsedEdgeIs ==
    ASSUME NEW e, IsEdge(e)
    PROVE  /\ IsEdge(ParsedEdge(e)) /\ ParsedEdge(e).id = e.id
           /\ ParsedEdge(e).src = e.src /\ ParsedEdge(e).dst = e.dst
           /\ ParsedEdge(e).branch = e.branch
           /\ ParsedEdge(e).sport = e.sport /\ ParsedEdge(e).tport = e.tport
           /\ Present(e.kind) => ParsedEdge(e).kind = e.kind
BY DEF IsEdge, ParsedEdge

LEMMA MigratedNodeIs ==
    ASSUME NEW n, IsNode(n), NEW i, Present(NodeNames[i]), Present(n.type)
    PROVE  LET m == MigratedNode(n, i)
           IN IsNode(m) /\ Present(m.id) /\ ~m.legacy /\ Present(m.type)
<1>1. Canonical(n.type) # "none"
  BY DEF Present, Canonical
<1>2. /\ MigratedNode(n, i).id = (IF Present(n.id) THEN n.id ELSE NodeNames[i])
      /\ MigratedNode(n, i).type = Canonical(n.type) /\ MigratedNode(n, i).legacy = FALSE
  BY DEF IsNode, MigratedNode
<1>3. IsNode(MigratedNode(n, i))
  <2> DEFINE id == IF Present(n.id) THEN n.id ELSE NodeNames[i]
             config == NormaliseConfig(Canonical(n.type), n.config)
             type == Canonical(n.type)
  <2>1. MigratedNode(n, i) =
           [n EXCEPT !.id = id, !.type = type, !.legacy = FALSE, !.config = config,
                     !.enabled = TRUE, !.cond = <<>>,
                     !.resultVar = "none", !.resultPort = "none"]
    BY DEF MigratedNode
  <2> HIDE DEF id, config, type
  <2>2. n \in [id : {n.id}, type : {n.type}, legacy : {n.legacy}, enabled : {n.enabled},
                cond : {n.cond}, config : {n.config}, resultVar : {n.resultVar},
                resultPort : {n.resultPort}]
    BY DEF IsNode
  <2>3. MigratedNode(n, i) \in
           [id : {id}, type : {type}, legacy : {FALSE}, enabled : {TRUE}, cond : {<<>>},
            config : {config}, resultVar : {"none"}, resultPort : {"none"}]
    BY <2>1, <2>2
  <2> QED
    BY <2>3 DEF IsNode
<1> QED
  BY <1>1, <1>2, <1>3 DEF Present

LEMMA MigratedEdgeIs ==
    ASSUME NEW e, IsEdge(e), NEW i, Present(EdgeNames[i])
    PROVE  LET m == MigratedEdge(e, i)
           IN /\ IsEdge(m) /\ Present(m.id) /\ m.src = e.src /\ m.dst = e.dst
              /\ m.branch = e.branch
              /\ m.kind = "control" /\ m.sport = "none" /\ m.tport = "none"
<1> DEFINE id == IF Present(e.id) THEN e.id ELSE EdgeNames[i]
           m == MigratedEdge(e, i)
<1>1. Present(id)
  OBVIOUS
<1>2. m = [e EXCEPT !.id = id, !.kind = "control", !.sport = "none", !.tport = "none"]
  BY DEF MigratedEdge
<1> HIDE DEF id, m
<1>3. e \in [id : {e.id}, src : {e.src}, dst : {e.dst}, kind : {e.kind}, sport : {e.sport},
              tport : {e.tport}, branch : {e.branch}, cond : {e.cond}]
  BY DEF IsEdge
<1>4. m \in [id : {id}, src : {e.src}, dst : {e.dst}, kind : {"control"}, sport : {"none"},
              tport : {"none"}, branch : {e.branch}, cond : {e.cond}]
  BY <1>2, <1>3
<1>5. /\ m.id = id /\ m.src = e.src /\ m.dst = e.dst /\ m.branch = e.branch
      /\ m.kind = "control" /\ m.sport = "none" /\ m.tport = "none"
  BY <1>4
<1>6. IsEdge(m)
  BY <1>4 DEF IsEdge
<1> QED
  BY <1>1, <1>5, <1>6 DEF m

LEMMA ParsedIs ==
    ASSUME NEW d, IsDocument(d)
    PROVE  /\ IsDocument(Parsed(d)) /\ IsGraph(Parsed(d))
           /\ Parsed(d).schema = IF d.schema = "absent" THEN "2.1" ELSE d.schema
           /\ Len(Parsed(d).nodes) = Len(d.nodes) /\ Len(Parsed(d).edges) = Len(d.edges)
           /\ \A i \in 1..Len(d.nodes) : Parsed(d).nodes[i] = ParsedNode(d.nodes[i])
           /\ \A i \in 1..Len(d.edges) : Parsed(d).edges[i] = ParsedEdge(d.edges[i])
<1> DEFINE nodes == [i \in 1..Len(d.nodes) |-> ParsedNode(d.nodes[i])]
           edges == [i \in 1..Len(d.edges) |-> ParsedEdge(d.edges[i])]
           schema == IF d.schema = "absent" THEN "2.1" ELSE d.schema
           p == Parsed(d)
<1>1. p = [d EXCEPT !.schema = schema, !.nodes = nodes, !.edges = edges]
  BY DocumentFacts DEF Parsed
<1>2. /\ nodes = [i \in 1..Len(d.nodes) |-> nodes[i]]
      /\ edges = [i \in 1..Len(d.edges) |-> edges[i]]
      /\ \A i \in 1..Len(d.nodes) : nodes[i] = ParsedNode(d.nodes[i])
      /\ \A i \in 1..Len(d.edges) : edges[i] = ParsedEdge(d.edges[i])
  OBVIOUS
<1>n. p = Parsed(d) /\ schema = IF d.schema = "absent" THEN "2.1" ELSE d.schema
  OBVIOUS
<1> HIDE DEF nodes, edges, schema, p
<1>3. /\ nodes \in Seq(ToSet(nodes)) /\ Len(nodes) = Len(d.nodes)
      /\ DOMAIN nodes = 1..Len(d.nodes)
      /\ edges \in Seq(ToSet(edges)) /\ Len(edges) = Len(d.edges)
      /\ DOMAIN edges = 1..Len(d.edges)
  BY <1>2, DocumentFacts, ListOf
<1>4. /\ p = [schema |-> p.schema, nodes |-> p.nodes, edges |-> p.edges,
              variables |-> p.variables]
      /\ p.schema = schema /\ p.nodes = nodes /\ p.edges = edges
  BY <1>1 DEF IsDocument
<1>5. /\ \A i \in 1..Len(d.nodes) : IsNode(nodes[i])
      /\ \A i \in 1..Len(d.edges) : IsEdge(edges[i])
  BY <1>2, DocumentFacts, ParsedNodeIs, ParsedEdgeIs
<1>6. IsDocument(p)
  BY <1>3, <1>4, <1>5 DEF IsDocument
<1>7. IsGraph(p)
  BY <1>6, DocumentFacts
<1> QED
  BY <1>2, <1>3, <1>4, <1>6, <1>7, <1>n

LEMMA MigratedIs ==
    ASSUME NEW d, IsDocument(d), ~IsCurrent(d)
    PROVE  LET m == Migrated(d)
           IN /\ m = [schema |-> m.schema, nodes |-> m.nodes, edges |-> m.edges,
                      variables |-> m.variables]
              /\ m.schema = "2.1"
              /\ m.nodes \in Seq(ToSet(m.nodes)) /\ Len(m.nodes) = Len(d.nodes)
              /\ DOMAIN m.nodes = 1..Len(d.nodes)
              /\ m.edges \in Seq(ToSet(m.edges)) /\ Len(m.edges) = Len(d.edges)
              /\ DOMAIN m.edges = 1..Len(d.edges)
              /\ \A i \in 1..Len(d.nodes) : m.nodes[i] = MigratedNode(d.nodes[i], i)
              /\ \A i \in 1..Len(d.edges) : m.edges[i] = MigratedEdge(d.edges[i], i)
<1> DEFINE nodes == [i \in 1..Len(d.nodes) |-> MigratedNode(d.nodes[i], i)]
           edges == [i \in 1..Len(d.edges) |-> MigratedEdge(d.edges[i], i)]
           m == Migrated(d)
<1>1. m = [d EXCEPT !.schema = "2.1", !.nodes = nodes, !.edges = edges]
  BY DocumentFacts DEF Migrated
<1>2. /\ nodes = [i \in 1..Len(d.nodes) |-> nodes[i]]
      /\ edges = [i \in 1..Len(d.edges) |-> edges[i]]
      /\ \A i \in 1..Len(d.nodes) : nodes[i] = MigratedNode(d.nodes[i], i)
      /\ \A i \in 1..Len(d.edges) : edges[i] = MigratedEdge(d.edges[i], i)
  OBVIOUS
<1>n. m = Migrated(d)
  OBVIOUS
<1> HIDE DEF nodes, edges, m
<1>3. /\ nodes \in Seq(ToSet(nodes)) /\ Len(nodes) = Len(d.nodes)
      /\ DOMAIN nodes = 1..Len(d.nodes)
      /\ edges \in Seq(ToSet(edges)) /\ Len(edges) = Len(d.edges)
      /\ DOMAIN edges = 1..Len(d.edges)
  BY <1>2, DocumentFacts, ListOf
<1>4. /\ m = [schema |-> m.schema, nodes |-> m.nodes, edges |-> m.edges,
              variables |-> m.variables]
      /\ m.schema = "2.1" /\ m.nodes = nodes /\ m.edges = edges
  BY <1>1 DEF IsDocument
<1> QED
  BY <1>2, <1>3, <1>4, <1>n

-----------------------------------------------------------------------------
\* What a migration leaves behind, seen from the document it began with.
Settled(d, from) ==
    /\ IsCurrent(d) /\ Parses(d)
    /\ Len(d.nodes) = Len(from.nodes) /\ Len(d.edges) = Len(from.edges)
    /\ \A i \in 1..Len(d.edges) :
          /\ d.edges[i].src = from.edges[i].src /\ d.edges[i].dst = from.edges[i].dst
          /\ ~IsCurrent(from) => /\ d.edges[i].kind = "control"
                                 /\ d.edges[i].sport = "none" /\ d.edges[i].tport = "none"

LEMMA ParsedSettles ==
    ASSUME NEW d, IsDocument(d), NEW from, Settled(d, from)
    PROVE  IsDocument(Parsed(d)) /\ Settled(Parsed(d), from)
<1> DEFINE p == Parsed(d)
<1>1. /\ IsDocument(p) /\ p.schema = IF d.schema = "absent" THEN "2.1" ELSE d.schema
      /\ Len(p.nodes) = Len(d.nodes) /\ Len(p.edges) = Len(d.edges)
      /\ \A i \in 1..Len(d.nodes) : p.nodes[i] = ParsedNode(d.nodes[i])
      /\ \A i \in 1..Len(d.edges) : p.edges[i] = ParsedEdge(d.edges[i])
  BY ParsedIs
<1>n. p = Parsed(d)
  OBVIOUS
<1> HIDE DEF p
<1>2. /\ DOMAIN p.nodes = 1..Len(d.nodes) /\ DOMAIN d.nodes = 1..Len(d.nodes)
      /\ DOMAIN p.edges = 1..Len(d.edges) /\ DOMAIN d.edges = 1..Len(d.edges)
      /\ \A i \in 1..Len(d.nodes) : IsNode(d.nodes[i])
      /\ \A i \in 1..Len(d.edges) : IsEdge(d.edges[i])
  BY <1>1, DocumentFacts
<1>3. IsCurrent(p)
  BY <1>1 DEF Settled, IsCurrent
<1>4. Parses(p)
  <2>1. ASSUME NEW i \in 1..Len(d.nodes)
        PROVE  Present(p.nodes[i].id) /\ ~p.nodes[i].legacy /\ Present(p.nodes[i].type)
    BY <1>1, <1>2, ParsedNodeIs DEF Settled, Parses
  <2>2. ASSUME NEW i \in 1..Len(d.edges)
        PROVE  /\ Present(p.edges[i].id) /\ Present(p.edges[i].src)
               /\ Present(p.edges[i].dst) /\ p.edges[i].branch # "other"
    BY <1>1, <1>2, ParsedEdgeIs DEF Settled, Parses
  <2> QED
    BY <1>2, <2>1, <2>2 DEF Parses
<1>5. ASSUME NEW i \in 1..Len(p.edges)
      PROVE  /\ p.edges[i].src = from.edges[i].src /\ p.edges[i].dst = from.edges[i].dst
             /\ ~IsCurrent(from) => /\ p.edges[i].kind = "control"
                                    /\ p.edges[i].sport = "none" /\ p.edges[i].tport = "none"
  <2>1. i \in 1..Len(d.edges) /\ IsEdge(d.edges[i]) /\ p.edges[i] = ParsedEdge(d.edges[i])
    BY <1>1, <1>2
  <2>2. Present("control")
    BY DEF Present
  <2> QED
    BY <2>1, <2>2, ParsedEdgeIs DEF Settled
<1>6. Settled(p, from)
  BY <1>1, <1>3, <1>4, <1>5 DEF Settled
<1> QED
  BY <1>1, <1>6, <1>n

LEMMA MigratedSettles ==
    ASSUME NEW d \in Documents, Migrates(d)
    PROVE  IsDocument(Migrated(d)) /\ Settled(Migrated(d), d)
<1>d. /\ IsDocument(d)
      /\ \A i \in DOMAIN d.nodes : Present(NodeNames[i])
      /\ \A i \in DOMAIN d.edges : Present(EdgeNames[i])
  BY DocumentsAssumption
<1>e. /\ DOMAIN d.nodes = 1..Len(d.nodes) /\ DOMAIN d.edges = 1..Len(d.edges)
      /\ \A i \in 1..Len(d.nodes) : IsNode(d.nodes[i])
      /\ \A i \in 1..Len(d.edges) : IsEdge(d.edges[i])
  BY <1>d, DocumentFacts
<1>1. CASE IsCurrent(d)
  <2>1. Settled(d, d) /\ Migrated(d) = Parsed(d)
    BY <1>1 DEF Settled, Migrates, Migrated
  <2> QED
    BY <2>1, <1>d, ParsedSettles
<1>2. CASE ~IsCurrent(d)
  <2> DEFINE m == Migrated(d)
  <2>1. /\ m = [schema |-> m.schema, nodes |-> m.nodes, edges |-> m.edges,
                variables |-> m.variables]
        /\ m.schema = "2.1"
        /\ m.nodes \in Seq(ToSet(m.nodes)) /\ Len(m.nodes) = Len(d.nodes)
        /\ DOMAIN m.nodes = 1..Len(d.nodes)
        /\ m.edges \in Seq(ToSet(m.edges)) /\ Len(m.edges) = Len(d.edges)
        /\ DOMAIN m.edges = 1..Len(d.edges)
        /\ \A i \in 1..Len(d.nodes) : m.nodes[i] = MigratedNode(d.nodes[i], i)
        /\ \A i \in 1..Len(d.edges) : m.edges[i] = MigratedEdge(d.edges[i], i)
    BY <1>2, <1>d, MigratedIs
  <2>2. /\ \A i \in DOMAIN d.nodes : Present(d.nodes[i].type)
        /\ \A i \in DOMAIN d.edges : /\ Present(d.edges[i].src) /\ Present(d.edges[i].dst)
                                     /\ d.edges[i].branch # "other"
    BY <1>2 DEF Migrates
  <2> HIDE DEF m
  <2>3. ASSUME NEW i \in 1..Len(d.nodes)
        PROVE  /\ IsNode(m.nodes[i]) /\ Present(m.nodes[i].id)
               /\ ~m.nodes[i].legacy /\ Present(m.nodes[i].type)
    BY <1>d, <1>e, <2>1, <2>2, MigratedNodeIs
  <2>4. ASSUME NEW i \in 1..Len(d.edges)
        PROVE  /\ IsEdge(m.edges[i]) /\ Present(m.edges[i].id)
               /\ m.edges[i].src = d.edges[i].src /\ m.edges[i].dst = d.edges[i].dst
               /\ m.edges[i].branch = d.edges[i].branch
               /\ m.edges[i].kind = "control"
               /\ m.edges[i].sport = "none" /\ m.edges[i].tport = "none"
    BY <1>d, <1>e, <2>1, MigratedEdgeIs
  <2>5. IsDocument(m)
    BY <2>1, <2>3, <2>4 DEF IsDocument
  <2>6. Parses(m)
    BY <1>e, <2>1, <2>2, <2>3, <2>4 DEF Parses
  <2>7. Settled(m, d)
    BY <2>1, <2>4, <2>6 DEF Settled, IsCurrent
  <2> QED
    BY <2>5, <2>7 DEF m
<1> QED
  BY <1>1, <1>2

\* No edge of a legacy document transfers data any more.
LEMMA SettledEdges ==
    ASSUME NEW d, IsDocument(d), NEW from, Settled(d, from), ~IsCurrent(from),
           NEW x \in EdgeDiagnostics(Parsed(d))
    PROVE  x[1] \notin {"WF146", "WF147", "WF148"}
<1> DEFINE p == Parsed(d)
<1>1. IsDocument(p) /\ Settled(p, from)
  BY ParsedSettles
<1>2. \A i \in DOMAIN p.edges : /\ p.edges[i].kind = "control"
                                /\ ~Present(p.edges[i].sport) /\ ~Present(p.edges[i].tport)
  BY <1>1, DocumentFacts DEF Settled, Present
<1>n. x \in EdgeDiagnostics(p)
  OBVIOUS
<1> HIDE DEF p
<1> QED
  BY <1>2, <1>n DEF EdgeDiagnostics, Flag

-----------------------------------------------------------------------------
\* Validation and the graph: what no error means for the traversals.

LEMMA EntryFacts ==
    ASSUME NEW w, IsGraph(w), EntryNodes(w) # {}
    PROVE  EntryNode(w).id \in Ids(w)
<1>1. EntryNodes(w) \in SUBSET (1..Len(w.nodes))
  BY GraphFacts DEF EntryNodes, Starts, Roots, Positions
<1>2. EntryNodes(w) \in SUBSET Nat
  BY <1>1
<1>3. PICK m \in EntryNodes(w) : \A k \in EntryNodes(w) : m <= k
  BY <1>2, NatSetMin
<1> DEFINE c == CHOOSE i \in EntryNodes(w) : \A j \in EntryNodes(w) : i <= j
<1>4. c \in EntryNodes(w)
  BY <1>3
<1>5. EntryNode(w) = w.nodes[c]
  BY DEF EntryNode
<1> HIDE DEF c
<1> QED
  BY <1>1, <1>4, <1>5, GraphFacts DEF Ids, Positions

LEMMA ValidFacts ==
    ASSUME NEW w, IsGraph(w), IsValid(Diagnostics(w))
    PROVE  /\ Distinct(w) /\ FindCycle(w) = <<>>
           /\ Starts(w) # {} /\ Cardinality(Starts(w)) = 1
           /\ \A i \in DOMAIN w.edges : {w.edges[i].src, w.edges[i].dst} \subseteq Ids(w)
<1>1. \A x : /\ <<"WF102", x>> \notin Diagnostics(w) /\ <<"WF103", x>> \notin Diagnostics(w)
            /\ <<"WF112", x>> \notin Diagnostics(w) /\ <<"WF113", x>> \notin Diagnostics(w)
            /\ <<"WF120", x>> \notin Diagnostics(w) /\ <<"WF121", x>> \notin Diagnostics(w)
            /\ <<"WF130", x>> \notin Diagnostics(w)
  <2>1. \A code, x : <<code, x>> \in Diagnostics(w) => code \in Warnings
    BY DEF IsValid
  <2> QED
    BY <2>1 DEF Warnings
<1>2. NodeDiagnostics(w) \cup EdgeDiagnostics(w) \cup TopologyDiagnostics(w)
         \subseteq Diagnostics(w)
  BY DEF Diagnostics
<1>3. Distinct(w)
  <2>1. ASSUME NEW i \in Positions(w) PROVE w.nodes[i].id # ""
    <3> SUFFICES ASSUME w.nodes[i].id = "" PROVE FALSE
      OBVIOUS
    <3>1. <<"WF102", i>> \in NodeDiagnostics(w)
      BY DEF NodeDiagnostics, Flag, Blank
    <3> QED
      BY <3>1, <1>1, <1>2
  <2>2. ASSUME NEW i \in Positions(w), NEW j \in 1..(i - 1) PROVE w.nodes[j].id # w.nodes[i].id
    <3> SUFFICES ASSUME w.nodes[j].id = w.nodes[i].id PROVE FALSE
      OBVIOUS
    <3>1. <<"WF103", i>> \in NodeDiagnostics(w)
      BY <2>1 DEF NodeDiagnostics, Flag, Blank
    <3> QED
      BY <3>1, <1>1, <1>2
  <2>3. ASSUME NEW i \in 1..Len(w.nodes), NEW j \in 1..Len(w.nodes),
               w.nodes[i].id = w.nodes[j].id
        PROVE  i = j
    <3>1. i \in Positions(w) /\ j \in Positions(w) /\ i \in Nat /\ j \in Nat /\ i >= 1 /\ j >= 1
      BY GraphFacts DEF Positions
    <3>2. ~(i < j)
      <4> SUFFICES ASSUME i < j PROVE FALSE
        OBVIOUS
      <4>1. i \in 1..(j - 1)
        BY <3>1
      <4> QED
        BY <4>1, <3>1, <2>2, <2>3
    <3>3. ~(j < i)
      <4> SUFFICES ASSUME j < i PROVE FALSE
        OBVIOUS
      <4>1. j \in 1..(i - 1)
        BY <3>1
      <4> QED
        BY <4>1, <3>1, <2>2, <2>3
    <3> QED
      BY <3>1, <3>2, <3>3
  <2> QED
    BY <2>3, IdsFacts
<1>4. FindCycle(w) = <<>>
  <2> SUFFICES ASSUME FindCycle(w) # <<>> PROVE FALSE
    OBVIOUS
  <2>1. <<"WF130", 0>> \in TopologyDiagnostics(w)
    BY DEF TopologyDiagnostics, Flag
  <2> QED
    BY <2>1, <1>1, <1>2
<1>5. Starts(w) # {}
  <2> SUFFICES ASSUME Starts(w) = {} PROVE FALSE
    OBVIOUS
  <2>1. <<"WF120", 0>> \in TopologyDiagnostics(w)
    BY DEF TopologyDiagnostics, Flag
  <2> QED
    BY <2>1, <1>1, <1>2
<1>6. Cardinality(Starts(w)) = 1
  <2>1. ~(Cardinality(Starts(w)) > 1)
    <3> SUFFICES ASSUME Cardinality(Starts(w)) > 1 PROVE FALSE
      OBVIOUS
    <3>1. <<"WF121", 0>> \in TopologyDiagnostics(w)
      BY DEF TopologyDiagnostics, Flag
    <3> QED
      BY <3>1, <1>1, <1>2
  <2>2. Starts(w) \in SUBSET (1..Len(w.nodes)) /\ IsFiniteSet(1..Len(w.nodes))
    BY GraphFacts, UpTo DEF Starts, Positions
  <2>3. IsFiniteSet(Starts(w)) /\ Cardinality(Starts(w)) \in Nat
    BY <2>2, FS_Subset, FS_CardinalityType
  <2>4. Cardinality(Starts(w)) # 0
    BY <1>5, <2>3, FS_EmptySet
  <2> QED
    BY <2>1, <2>3, <2>4
<1>7. ASSUME NEW i \in DOMAIN w.edges PROVE w.edges[i].src \in Ids(w) /\ w.edges[i].dst \in Ids(w)
  <2>1. ASSUME w.edges[i].src \notin Ids(w) PROVE FALSE
    <3>1. <<"WF112", i>> \in EdgeDiagnostics(w)
      BY <2>1 DEF EdgeDiagnostics, Flag
    <3> QED
      BY <3>1, <1>1, <1>2
  <2>2. ASSUME w.edges[i].dst \notin Ids(w) PROVE FALSE
    <3>1. <<"WF113", i>> \in EdgeDiagnostics(w)
      BY <2>2 DEF EdgeDiagnostics, Flag
    <3> QED
      BY <3>1, <1>1, <1>2
  <2> QED
    BY <2>1, <2>2
<1> QED
  BY <1>3, <1>4, <1>5, <1>6, <1>7

\* WF131 marks the nodes that are not reachable from the start, and nothing else does.
LEMMA UnreachableFlagged ==
    ASSUME NEW w, Starts(w) # {}, NEW i \in Positions(w)
    PROVE  <<"WF131", i>> \in Diagnostics(w)
              <=> w.nodes[i].id \notin ReachableFrom(w, EntryNode(w).id)
<1> DEFINE x == <<"WF131", i>>
<1>1. x \notin SchemaDiagnostics(w)
  BY DEF SchemaDiagnostics, Flag
<1>2. x \notin NodeDiagnostics(w)
  BY DEF NodeDiagnostics, Flag
<1>3. x \notin EdgeDiagnostics(w)
  BY DEF EdgeDiagnostics, Flag
<1>4. x \notin PortDiagnostics(w)
  BY DEF PortDiagnostics, Flag
<1>5. x \notin CapabilityDiagnostics(w)
  BY DEF CapabilityDiagnostics, Flag
<1>6. x \notin ReferenceDiagnostics(w)
  BY DEF ReferenceDiagnostics
<1>7. x \in TopologyDiagnostics(w) <=> w.nodes[i].id \notin ReachableFrom(w, EntryNode(w).id)
  BY DEF TopologyDiagnostics, Flag
<1> QED
  BY <1>1, <1>2, <1>3, <1>4, <1>5, <1>6, <1>7 DEF Diagnostics

\* A valid workflow is runnable.
Runnable(w, line) ==
    /\ Len(line) = Len(w.nodes) /\ ToSet(line) = Ids(w)
    /\ \A link \in Links(w) : (CHOOSE i \in DOMAIN line : line[i] = link[1])
                                 < (CHOOSE i \in DOMAIN line : line[i] = link[2])
    /\ \A i \in DOMAIN w.edges : {w.edges[i].src, w.edges[i].dst} \subseteq Ids(w)
    /\ Cardinality(Starts(w)) = 1 /\ EntryNodes(w) = Starts(w)

LEMMA ValidIsRunnable ==
    ASSUME NEW w, IsGraph(w), IsValid(Diagnostics(w))
    PROVE  /\ EntryNodes(w) # {} /\ TopologicalOrder(w).ok
           /\ Runnable(w, TopologicalOrder(w).order)
<1> DEFINE line == TopologicalOrder(w).order
<1>1. /\ Distinct(w) /\ FindCycle(w) = <<>>
      /\ Starts(w) # {} /\ Cardinality(Starts(w)) = 1
      /\ \A i \in DOMAIN w.edges : {w.edges[i].src, w.edges[i].dst} \subseteq Ids(w)
  BY ValidFacts
<1>2. EntryNodes(w) = Starts(w)
  BY <1>1 DEF EntryNodes
<1>3. TopologicalOrder(w).ok
  BY <1>1, OrderIsOk, FindCycleIs
<1>4. /\ line \in Seq(Ids(w)) /\ Once(line) /\ Forward(w, line)
      /\ Len(line) \in Nat /\ DOMAIN line = 1..Len(line) /\ ToSet(line) = Ids(w)
  BY <1>1, <1>3, OrderFacts
<1>5. Len(line) = Len(w.nodes)
  BY <1>1, <1>3 DEF TopologicalOrder, Distinct
<1> HIDE DEF line
<1>6. ASSUME NEW link \in Links(w)
      PROVE  (CHOOSE i \in DOMAIN line : line[i] = link[1])
                < (CHOOSE i \in DOMAIN line : line[i] = link[2])
  <2>1. PICK e \in Inside(w) : link[1] = w.edges[e].src /\ link[2] = w.edges[e].dst
    BY DEF Links
  <2>2. link[1] \in Ids(w) /\ link[2] \in Ids(w)
    BY <2>1, InsideLeads
  <2> DEFINE a == CHOOSE i \in DOMAIN line : line[i] = link[1]
             b == CHOOSE i \in DOMAIN line : line[i] = link[2]
  <2>3. a \in 1..Len(line) /\ line[a] = link[1]
    <3>1. \E i \in DOMAIN line : line[i] = link[1]
      BY <2>2, <1>4 DEF ToSet
    <3> QED
      BY <3>1, <1>4
  <2>4. b \in 1..Len(line) /\ line[b] = link[2]
    <3>1. \E i \in DOMAIN line : line[i] = link[2]
      BY <2>2, <1>4 DEF ToSet
    <3> QED
      BY <3>1, <1>4
  <2> HIDE DEF a, b
  <2>5. PICK k \in 1..Len(line) : k < b /\ line[k] = w.edges[e].src
    BY <2>1, <2>4, <1>4 DEF Forward
  <2>6. k = a
    BY <2>1, <2>3, <2>5, <1>4 DEF Once
  <2>7. a < b
    BY <2>5, <2>6
  <2> QED
    BY <2>7 DEF a, b
<1>7. Runnable(w, line)
  BY <1>1, <1>2, <1>4, <1>5, <1>6 DEF Runnable
<1> QED
  BY <1>1, <1>2, <1>3, <1>7 DEF line

\* What `nodara-cli simulate` makes of a workflow, and what that is.
PlanOf(w) ==
    LET topo == TopologicalOrder(w)
        reachable == IF EntryNodes(w) = {} THEN {} ELSE ReachableFrom(w, EntryNode(w).id)
    IN IF topo.ok THEN Kept(topo.order, reachable) ELSE <<>>

LEMMA PlanFacts ==
    ASSUME NEW w, IsGraph(w), Distinct(w), NEW p, p = PlanOf(w), p # <<>>,
           NEW entry, entry = EntryNode(w).id
    PROVE  /\ EntryNodes(w) # {} /\ entry \in Ids(w)
           /\ DOMAIN p = 1..Len(p) /\ Len(p) \in Nat
           /\ ToSet(p) = {entry} \cup Onward(w, entry)
           /\ \A i, j \in DOMAIN p : p[j] \in Onward(w, p[i]) => i < j
           /\ \A i, j \in DOMAIN p : p[i] = p[j] => i = j
<1> DEFINE line == TopologicalOrder(w).order
           reachable == IF EntryNodes(w) = {} THEN {} ELSE ReachableFrom(w, entry)
<1>1. TopologicalOrder(w).ok /\ p = Kept(line, reachable)
  BY DEF PlanOf
<1>2. /\ line \in Seq(Ids(w)) /\ Once(line) /\ Forward(w, line)
      /\ Len(line) \in Nat /\ DOMAIN line = 1..Len(line) /\ ToSet(line) = Ids(w)
  BY <1>1, OrderFacts
<1>r. /\ EntryNodes(w) = {} => reachable = {}
      /\ EntryNodes(w) # {} => reachable = ReachableFrom(w, entry)
  OBVIOUS
<1> HIDE DEF line, reachable
<1>3. p \in Seq(Ids(w)) /\ ToSet(p) = Ids(w) \cap reachable /\ InOrderOf(line, p)
  BY <1>1, <1>2, KeptIs
<1>4. Len(p) \in Nat /\ DOMAIN p = 1..Len(p) /\ 1 \in 1..Len(p)
  <2>1. Len(p) \in Nat /\ DOMAIN p = 1..Len(p) /\ (Len(p) = 0 => p = <<>>)
    BY <1>3, LenProperties, EmptySeq
  <2> QED
    BY <2>1
<1>5. EntryNodes(w) # {}
  <2>1. p[1] \in ToSet(p)
    BY <1>4 DEF ToSet
  <2> QED
    BY <2>1, <1>3, <1>r
<1>6. entry \in Ids(w)
  BY <1>5, EntryFacts
<1>7. ToSet(p) = {entry} \cup Onward(w, entry)
  <2>1. reachable = {entry} \cup Onward(w, entry)
    BY <1>5, <1>6, <1>r, ReachableIs
  <2>2. Onward(w, entry) \subseteq Ids(w)
    BY DEF Onward
  <2> QED
    BY <2>1, <2>2, <1>3, <1>6
<1>8. \A i \in 1..Len(p) : \E a \in 1..Len(line) : p[i] = line[a]
  <2> SUFFICES ASSUME NEW i \in 1..Len(p) PROVE \E a \in 1..Len(line) : p[i] = line[a]
    OBVIOUS
  <2>1. p[i] \in ToSet(line)
    BY <1>2, <1>3, ElementOfSeq
  <2> QED
    BY <2>1, <1>2 DEF ToSet
<1>9. ASSUME NEW i \in 1..Len(p), NEW j \in 1..Len(p), p[i] = p[j] PROVE i = j
  <2>1. PICK a \in 1..Len(line) : p[i] = line[a]
    BY <1>8
  <2>2. i < j => a < a
    BY <2>1, <1>3, <1>9 DEF InOrderOf
  <2>3. j < i => a < a
    BY <2>1, <1>3, <1>9 DEF InOrderOf
  <2>4. ~(a < a)
    BY <1>2
  <2> QED
    BY <2>2, <2>3, <2>4, <1>4
<1>10. ASSUME NEW i \in 1..Len(p), NEW j \in 1..Len(p), p[j] \in Onward(w, p[i]) PROVE i < j
  <2>1. PICK a \in 1..Len(line) : p[i] = line[a]
    BY <1>8
  <2>2. PICK b \in 1..Len(line) : p[j] = line[b]
    BY <1>8
  <2>3. a < b
    BY <2>1, <2>2, <1>2, <1>10, OrderIsOnward
  <2>4. j < i => b < a
    BY <2>1, <2>2, <1>3 DEF InOrderOf
  <2>5. i # j
    <3> SUFFICES ASSUME i = j PROVE FALSE
      OBVIOUS
    <3>1. a = b
      BY <2>1, <2>2, <1>2 DEF Once
    <3> QED
      BY <3>1, <2>3
  <2> QED
    BY <2>3, <2>4, <2>5, <1>4
<1> QED
  BY <1>4, <1>5, <1>6, <1>7, <1>9, <1>10

-----------------------------------------------------------------------------
(***************************************************************************)
(* The inductive invariant: where a document comes from, what a migration  *)
(* has settled of it, and which workflow the last diagnostics, the plan    *)
(* and the decision to run were computed from.                             *)
(***************************************************************************)
DocumentInv ==
    /\ origin \in Documents /\ IsDocument(file)
    /\ migrations \in Nat
    /\ migrations = 0 => file = origin
    /\ migrations > 0 => Settled(file, origin)
    /\ IsGraph(wf)
    /\ stage \notin {"noEntry", "graphError"}
    /\ stage \in {"validated", "simulated", "accepted"} => report = Diagnostics(wf)
    /\ stage = "accepted" => IsValid(report)
    /\ stage = "simulated" => plan = PlanOf(wf)

LEMMA DocumentInitInv == DocumentInit => DocumentInv
<1> SUFFICES ASSUME DocumentInit PROVE DocumentInv
  OBVIOUS
<1>1. IsDocument(file)
  BY DocumentsAssumption DEF DocumentInit
<1>2. IsGraph(wf)
  <2>1. <<>> \in Seq(ToSet(<<>>))
    BY EmptySeq
  <2> QED
    BY <2>1 DEF DocumentInit, NoWorkflow, IsGraph
<1> QED
  BY <1>1, <1>2 DEF DocumentInit, DocumentInv

LEMMA DocumentStep == DocumentInv /\ [DocumentNext]_documentVars => DocumentInv'
<1> SUFFICES ASSUME DocumentInv, [DocumentNext]_documentVars PROVE DocumentInv'
  OBVIOUS
<1>1. CASE Migrate
  <2>1. CASE Migrates(file)
    <3>1. /\ file' = Migrated(file) /\ stage' = stage /\ stage = "file"
          /\ migrations' = migrations + 1 /\ origin' = origin /\ wf' = wf
      BY <1>1, <2>1 DEF Migrate
    <3>2. IsDocument(file') /\ Settled(file', origin)
      <4>1. CASE migrations = 0
        <5>1. file \in Documents /\ file = origin
          BY <4>1 DEF DocumentInv
        <5> QED
          BY <2>1, <3>1, <5>1, MigratedSettles
      <4>2. CASE migrations # 0
        <5>1. Settled(file, origin) /\ IsDocument(file)
          BY <4>2 DEF DocumentInv
        <5>2. Migrated(file) = Parsed(file)
          BY <5>1 DEF Settled, Migrated
        <5> QED
          BY <3>1, <5>1, <5>2, ParsedSettles
      <4> QED
        BY <4>1, <4>2
    <3>3. migrations' \in Nat /\ migrations' # 0
      BY <3>1 DEF DocumentInv
    <3> QED
      BY <3>1, <3>2, <3>3 DEF DocumentInv
  <2>2. CASE ~Migrates(file)
    BY <1>1, <2>2 DEF Migrate, DocumentInv
  <2> QED
    BY <2>1, <2>2
<1>2. CASE Load \/ Receive
  <2>1. PICK checked : ParseFile(checked)
    BY <1>2 DEF Load, Receive
  <2>2. /\ stage' \in {"loaded", "refused"} /\ wf' \in {Parsed(file), wf}
        /\ UNCHANGED <<file, report, plan, origin, migrations>>
    BY <2>1 DEF ParseFile
  <2>3. IsGraph(Parsed(file))
    BY ParsedIs DEF DocumentInv
  <2>4. IsGraph(wf')
    BY <2>2, <2>3 DEF DocumentInv
  <2> QED
    BY <2>2, <2>4 DEF DocumentInv
<1>3. CASE Validate
  BY <1>3 DEF Validate, DocumentInv
<1>4. CASE Simulate
  <2>1. plan' = PlanOf(wf)
    BY <1>4 DEF Simulate, PlanOf
  <2> QED
    BY <1>4, <2>1 DEF Simulate, DocumentInv
<1>5. ASSUME NEW check \in BOOLEAN, Submit(check) PROVE DocumentInv'
  <2>1. /\ report' = Diagnostics(wf)
        /\ UNCHANGED <<file, wf, plan, origin, migrations>>
    BY <1>5 DEF Submit
  <2>2. CASE IsValid(report')
    <3>1. EntryNodes(wf) # {} /\ TopologicalOrder(wf).ok
      BY <2>1, <2>2, ValidIsRunnable DEF DocumentInv
    <3>2. stage' = "accepted"
      BY <1>5, <2>2, <3>1 DEF Submit
    <3> QED
      BY <2>1, <2>2, <3>2 DEF DocumentInv
  <2>3. CASE ~IsValid(report')
    <3>1. stage' \in {"rejected", "failedFast"}
      BY <1>5, <2>3 DEF Submit
    <3> QED
      BY <2>1, <3>1 DEF DocumentInv
  <2> QED
    BY <2>2, <2>3
<1>6. CASE UNCHANGED documentVars
  BY <1>6 DEF documentVars, DocumentInv
<1> QED
  BY <1>1, <1>2, <1>3, <1>4, <1>5, <1>6 DEF DocumentNext

\* The invariant holds of every document on its way to the engine.
THEOREM DocumentsHold == DocumentSpec => []DocumentInv
BY DocumentInitInv, DocumentStep, PTL DEF DocumentSpec

\* A migration is done once and for all: what migrate (migration.rs) writes loads,
\* is current, is not changed by another one, and keeps every node and edge where
\* it was, with no edge left that transfers data.
THEOREM MigrationIsFinal == DocumentSpec => []MigrationSettles
<1>1. DocumentInv => MigrationSettles
  <2> SUFFICES ASSUME DocumentInv, migrations > 0 PROVE MigrationSettles
    BY DEF MigrationSettles
  <2>1. IsDocument(file) /\ Settled(file, origin)
    <3>1. migrations \in Nat /\ IsDocument(file) /\ (migrations > 0 => Settled(file, origin))
      BY DEF DocumentInv
    <3> QED
      BY <3>1
  <2>2. Migrated(file) = Parsed(file)
    BY <2>1 DEF Settled, Migrated
  <2>3. DOMAIN file.edges = 1..Len(file.edges)
    BY <2>1, DocumentFacts
  <2>4. ~IsCurrent(origin) => \A d \in EdgeDiagnostics(Parsed(file)) :
            d[1] \notin {"WF146", "WF147", "WF148"}
    BY <2>1, SettledEdges
  <2> QED
    BY <2>1, <2>2, <2>3, <2>4 DEF MigrationSettles, Settled
<1> QED
  BY <1>1, DocumentsHold, PTL

\* What validate (validation.rs) finds no error in, WorkflowEngine::run can run:
\* entry_node and topological_order do not fail any more, and the order has every
\* node once and each before those its control edges lead to.
THEOREM ValidIsRun == DocumentSpec => []AcceptedIsRunnable
<1>1. DocumentInv => AcceptedIsRunnable
  <2> SUFFICES ASSUME DocumentInv, stage = "accepted"
               PROVE  Runnable(wf, TopologicalOrder(wf).order)
    BY DEF AcceptedIsRunnable, DocumentInv, Runnable
  <2>1. IsGraph(wf) /\ IsValid(Diagnostics(wf))
    BY DEF DocumentInv
  <2> QED
    BY <2>1, ValidIsRunnable
<1> QED
  BY <1>1, DocumentsHold, PTL

\* find_cycle, topological_order and reachable_from (graph.rs) say of every workflow
\* what is true of its control edges: there is a cycle exactly where one is reported,
\* an order exactly where there is none, and the plan `nodara-cli simulate` prints
\* is what a run can reach from its entry, in an order it can run it in.
THEOREM TraversalsAreRight == DocumentSpec => []GraphAnswers
<1>1. DocumentInv => CycleIsReal
  <2> SUFFICES ASSUME IsGraph(wf), stage = "loaded" PROVE CycleIsReal
    BY DEF CycleIsReal, DocumentInv
  <2>1. /\ FindCycle(wf) # <<>> => IsCycle(wf, FindCycle(wf))
        /\ FindCycle(wf) # <<>> <=> \E id \in Ids(wf) : id \in Onward(wf, id)
    BY FindCycleIs
  <2>2. Distinct(wf) => (TopologicalOrder(wf).ok <=> FindCycle(wf) = <<>>)
    BY <2>1, OrderIsOk
  <2> QED
    BY <2>1, <2>2 DEF CycleIsReal, IsCycle
<1>2. DocumentInv => PlanIsASchedule
  <2> DEFINE entry == EntryNode(wf).id
  <2> SUFFICES ASSUME DocumentInv, stage = "simulated", plan # <<>>, Distinct(wf)
               PROVE  /\ ToSet(plan) = {entry} \cup Onward(wf, entry)
                      /\ \A i, j \in DOMAIN plan : plan[j] \in Onward(wf, plan[i]) => i < j
                      /\ \A i, j \in DOMAIN plan : plan[i] = plan[j] => i = j
                      /\ Starts(wf) # {} => \A i \in Positions(wf) :
                            <<"WF131", i>> \in report <=> wf.nodes[i].id \notin ToSet(plan)
    BY DEF PlanIsASchedule
  <2>1. IsGraph(wf) /\ plan = PlanOf(wf) /\ report = Diagnostics(wf)
    BY DEF DocumentInv
  <2>2. /\ entry \in Ids(wf)
        /\ ToSet(plan) = {entry} \cup Onward(wf, entry)
        /\ \A i, j \in DOMAIN plan : plan[j] \in Onward(wf, plan[i]) => i < j
        /\ \A i, j \in DOMAIN plan : plan[i] = plan[j] => i = j
    BY <2>1, PlanFacts
  <2>3. ASSUME Starts(wf) # {}, NEW i \in Positions(wf)
        PROVE  <<"WF131", i>> \in report <=> wf.nodes[i].id \notin ToSet(plan)
    <3>1. ReachableFrom(wf, entry) = {entry} \cup Onward(wf, entry)
      BY <2>1, <2>2, ReachableIs
    <3>2. <<"WF131", i>> \in Diagnostics(wf) <=> wf.nodes[i].id \notin ReachableFrom(wf, entry)
      BY <2>3, UnreachableFlagged
    <3> QED
      BY <2>1, <2>2, <3>1, <3>2
  <2> QED
    BY <2>2, <2>3
<1>3. DocumentInv => GraphAnswers
  BY <1>1, <1>2 DEF GraphAnswers
<1> QED
  BY <1>3, DocumentsHold, PTL

-----------------------------------------------------------------------------
(***************************************************************************)
(* The run of an accepted document: what its executors publish.            *)
(***************************************************************************)
\* The loop of core.CalculateMany.  Nothing is known of the values it carries, so
\* that it is a function is shown without a set they are in.
ResultStart(seeded) == [ok |-> TRUE, scope |-> seeded, published |-> Nothing]
ResultStep(items, n, so) ==
    Extended(so, items[n].name, Evaluate(Tokens(items[n].of), so.scope))

LEMMA ResultsUnfold ==
    ASSUME NEW seeded, NEW items
    PROVE  /\ Results(seeded, items)[0] = ResultStart(seeded)
           /\ \A n \in Nat : Results(seeded, items)[n + 1]
                                = ResultStep(items, n + 1, Results(seeded, items)[n])
<1> DEFINE start == ResultStart(seeded)
           Run(f) == f = [n \in Nat |-> IF n = 0 THEN start
                                        ELSE ResultStep(items, n, f[n - 1])]
           Runs(f, n) == /\ f = [i \in 0..n |-> f[i]] /\ f[0] = start
                         /\ \A i \in Nat : i < n => f[i + 1] = ResultStep(items, i + 1, f[i])
           Some == {n \in Nat : \E f : Runs(f, n)}
           run == Results(seeded, items)
<1>d. run = CHOOSE f : Run(f)
  BY DEF Results, ResultStart, ResultStep
<1> HIDE DEF start, run
<1>1. Some = Nat
  <2>1. 0 \in Some
    <3>1. Runs([i \in 0..0 |-> start], 0)
      OBVIOUS
    <3> QED
      BY <3>1
  <2>2. ASSUME NEW n \in Some PROVE n + 1 \in Some
    <3>1. PICK f : Runs(f, n)
      OBVIOUS
    <3>2. n \in Nat /\ n + 1 \in Nat
      OBVIOUS
    <3> DEFINE g == [i \in 0..(n + 1) |-> IF i = n + 1 THEN ResultStep(items, n + 1, f[n])
                                         ELSE f[i]]
    <3>3. g = [i \in 0..(n + 1) |-> g[i]] /\ g[0] = start
      BY <3>1, <3>2
    <3>4. ASSUME NEW i \in Nat, i < n + 1 PROVE g[i + 1] = ResultStep(items, i + 1, g[i])
      <4>1. CASE i = n
        <5>1. g[n] = f[n] /\ g[n + 1] = ResultStep(items, n + 1, f[n])
          BY <3>2
        <5> QED
          BY <5>1, <4>1
      <4>2. CASE i < n
        <5>1. g[i] = f[i] /\ g[i + 1] = f[i + 1]
          BY <3>2, <4>2
        <5> QED
          BY <5>1, <4>2, <3>1
      <4> QED
        BY <3>4, <3>2, <4>1, <4>2
    <3>5. Runs(g, n + 1)
      BY <3>3, <3>4
    <3> QED
      BY <3>5, <3>2
  <2> HIDE DEF Some
  <2>3. Some \in SUBSET Nat
    BY DEF Some
  <2> QED
    BY <2>1, <2>2, <2>3, NatStep
<1>2. ASSUME NEW n \in Nat, NEW m \in Nat, NEW f, NEW g, Runs(f, n), Runs(g, m)
      PROVE  \A i \in Nat : i <= n /\ i <= m => f[i] = g[i]
  <2> DEFINE Agree == {i \in Nat : i <= n /\ i <= m => f[i] = g[i]}
  <2>1. 0 \in Agree
    BY <1>2
  <2>2. ASSUME NEW i \in Agree PROVE i + 1 \in Agree
    <3>1. SUFFICES ASSUME i + 1 <= n, i + 1 <= m PROVE f[i + 1] = g[i + 1]
      OBVIOUS
    <3>2. i \in Nat /\ i < n /\ i < m
      BY <3>1
    <3>3. f[i] = g[i]
      BY <3>2
    <3> QED
      BY <3>2, <3>3, <1>2
  <2> HIDE DEF Agree
  <2>3. Agree \in SUBSET Nat
    BY DEF Agree
  <2>4. Agree = Nat
    BY <2>1, <2>2, <2>3, NatStep
  <2> QED
    BY <2>4 DEF Agree
<1> DEFINE pick == [n \in Nat |-> CHOOSE f : Runs(f, n)]
           whole == [n \in Nat |-> pick[n][n]]
<1>3. \A n \in Nat : Runs(pick[n], n)
  BY <1>1
<1> HIDE DEF pick, Some, Runs
<1>4. whole[0] = start
  <2>1. pick[0][0] = start
    BY <1>3 DEF Runs
  <2> QED
    BY <2>1
<1>5. ASSUME NEW n \in Nat PROVE whole[n + 1] = ResultStep(items, n + 1, whole[n])
  <2>1. Runs(pick[n], n) /\ n + 1 \in Nat
    BY <1>3
  <2>2. Runs(pick[n + 1], n + 1)
    BY <1>3, <2>1
  <2>3. pick[n + 1][n + 1] = ResultStep(items, n + 1, pick[n + 1][n])
    BY <2>1, <2>2 DEF Runs
  <2>4. pick[n + 1][n] = pick[n][n]
    <3>1. \A i \in Nat : i <= n + 1 /\ i <= n => pick[n + 1][i] = pick[n][i]
      BY <1>2, <2>1, <2>2
    <3> QED
      BY <3>1
  <2> QED
    BY <2>1, <2>3, <2>4
<1>6. Run(whole)
  <2>1. ASSUME NEW n \in Nat, n # 0 PROVE whole[n] = ResultStep(items, n, whole[n - 1])
    <3>1. n - 1 \in Nat /\ (n - 1) + 1 = n
      BY <2>1
    <3> QED
      BY <3>1, <1>5
  <2>2. whole = [n \in Nat |-> whole[n]]
    OBVIOUS
  <2> HIDE DEF whole
  <2> QED
    BY <2>1, <2>2, <1>4
<1> HIDE DEF whole
<1>7. Run(run)
  BY <1>6, <1>d
<1>8. /\ run[0] = start
      /\ \A n \in Nat : run[n + 1] = ResultStep(items, n + 1, run[n])
  <2>1. \A n \in Nat : n + 1 \in Nat /\ n + 1 # 0 /\ (n + 1) - 1 = n
    OBVIOUS
  <2> QED
    BY <1>7, <2>1
<1> QED
  BY <1>8 DEF run, start

\* Unless it failed, every name it has come by is published.
LEMMA ResultsPublish ==
    ASSUME NEW seeded, NEW items, NEW n \in Nat, Results(seeded, items)[n].ok
    PROVE  \A i \in 1..n : items[i].name \in DOMAIN Results(seeded, items)[n].published
<1> DEFINE Turn(k) == Results(seeded, items)[k]
           IsResult(so) == so = [ok |-> so.ok, scope |-> so.scope, published |-> so.published]
           Good == {k \in Nat : /\ IsResult(Turn(k))
                                /\ Turn(k).ok => \A i \in 1..k :
                                      items[i].name \in DOMAIN Turn(k).published}
<1>0. /\ Turn(0) = ResultStart(seeded)
      /\ \A k \in Nat : Turn(k + 1) = ResultStep(items, k + 1, Turn(k))
  BY ResultsUnfold
<1> HIDE DEF Turn
<1>1. 0 \in Good
  BY <1>0 DEF ResultStart
<1>2. ASSUME NEW k \in Good PROVE k + 1 \in Good
  <2>1. /\ k \in Nat /\ k + 1 \in Nat /\ IsResult(Turn(k))
        /\ Turn(k).ok => \A i \in 1..k : items[i].name \in DOMAIN Turn(k).published
    OBVIOUS
  <2> DEFINE name == items[k + 1].name
             value == Evaluate(Tokens(items[k + 1].of), Turn(k).scope)
             so == Turn(k)
             next == Turn(k + 1)
  <2>2. next = Extended(so, name, value)
    BY <1>0, <2>1 DEF ResultStep
  <2> HIDE DEF name, value, so, next
  <2>3. CASE so.ok /\ name \notin DOMAIN so.published \cup {""} /\ value.ok
    <3>1. next = [so EXCEPT !.scope = Put(so.scope, name, value.v),
                            !.published = Put(so.published, name, value.v)]
      BY <2>2, <2>3 DEF Extended
    <3>2. so = [ok |-> so.ok, scope |-> so.scope, published |-> so.published]
      BY <2>1 DEF so
    <3>3. next = [ok |-> so.ok, scope |-> Put(so.scope, name, value.v),
                  published |-> Put(so.published, name, value.v)]
      BY <3>1, <3>2
    <3>4. DOMAIN next.published = DOMAIN so.published \cup {name}
      BY <3>3 DEF Put
    <3>5. IsResult(next)
      BY <3>3
    <3>6. \A i \in 1..(k + 1) : i \in 1..k \/ i = k + 1
      BY <2>1
    <3> QED
      BY <2>1, <2>3, <3>4, <3>5, <3>6 DEF so, name, next
  <2>4. CASE ~(so.ok /\ name \notin DOMAIN so.published \cup {""} /\ value.ok)
    <3>1. next = [so EXCEPT !.ok = FALSE]
      BY <2>2, <2>4 DEF Extended
    <3>2. so = [ok |-> so.ok, scope |-> so.scope, published |-> so.published]
      BY <2>1 DEF so
    <3>3. next = [ok |-> FALSE, scope |-> so.scope, published |-> so.published]
      BY <3>1, <3>2
    <3> QED
      BY <2>1, <3>3 DEF next
  <2> QED
    BY <2>3, <2>4
<1> HIDE DEF Good
<1>3. Good \in SUBSET Nat
  BY DEF Good
<1>4. Good = Nat
  BY <1>1, <1>2, <1>3, NatStep
<1> QED
  BY <1>4 DEF Good, Turn

\* A plain string of a configuration is not a template.
LEMMA ResolvedText ==
    ASSUME NEW n, NEW k \in Keys(n), n.config.at[k].t = "string"
    PROVE  k \in DOMAIN Resolved(n) /\ Resolved(n)[k] = n.config.at[k]
<1>1. Resolve(n.config.at[k], k) = n.config.at[k]
  BY DEF Resolve, ResolveText
<1> QED
  BY <1>1 DEF Resolved

\* What SetVariable, Calculate and CalculateMany have published when they succeed.
LEMMA SetVariablePublishes ==
    ASSUME NEW n, NEW result, result = ExecuteSetVariable(Resolved(n), InputsOf(n)), result.ok
    PROVE  NamesIn(n, "name") \subseteq DOMAIN result.published
<1> SUFFICES ASSUME NEW x \in NamesIn(n, "name") PROVE x \in DOMAIN result.published
  OBVIOUS
<1>1. "name" \in Keys(n) /\ n.config.at["name"].t = "string" /\ x = n.config.at["name"].s
  BY DEF NamesIn
<1> DEFINE config == Resolved(n)
           inputs == InputsOf(n)
           c == Fallback(config, inputs, "value")
           value == IF "value" \in DOMAIN c THEN c["value"] ELSE Null
<1>2. "name" \in DOMAIN config /\ config["name"] = n.config.at["name"]
  BY <1>1, ResolvedText
<1> HIDE DEF config, inputs
<1>3. "name" \in DOMAIN c /\ c["name"] = config["name"]
  BY <1>2 DEF Fallback, Put
<1> HIDE DEF c, value
<1>4. result = IF "name" \in DOMAIN c /\ IsString(c["name"])
               THEN Done([out |-> value], Put(Nothing, c["name"].s, value)) ELSE InvalidConfig
  BY DEF ExecuteSetVariable, c, value, config, inputs
<1>5. result = Done([out |-> value], Put(Nothing, c["name"].s, value))
  BY <1>4 DEF InvalidConfig
<1>6. DOMAIN result.published = DOMAIN Put(Nothing, c["name"].s, value)
  BY <1>5 DEF Done
<1>7. c["name"].s \in DOMAIN Put(Nothing, c["name"].s, value)
  BY DEF Put
<1> QED
  BY <1>1, <1>2, <1>3, <1>6, <1>7

LEMMA CalculatePublishes ==
    ASSUME NEW n, NEW result, result = ExecuteCalculate(Resolved(n), InputsOf(n)), result.ok
    PROVE  NamesIn(n, "output_var") \subseteq DOMAIN result.published
<1> SUFFICES ASSUME NEW x \in NamesIn(n, "output_var") PROVE x \in DOMAIN result.published
  OBVIOUS
<1>1. /\ "output_var" \in Keys(n) /\ n.config.at["output_var"].t = "string"
      /\ x = n.config.at["output_var"].s
  BY DEF NamesIn
<1> DEFINE config == Resolved(n)
           value == Evaluate(Tokens(config["expression"]), scope)
<1>2. config["output_var"] = n.config.at["output_var"]
  BY <1>1, ResolvedText
<1>3. result = Calculated(config["output_var"].s, value)
  BY DEF ExecuteCalculate, InvalidConfig
<1> HIDE DEF config, value
<1>4. result = Done([result |-> value.v], Put(Nothing, config["output_var"].s, value.v))
  BY <1>3 DEF Calculated, InvalidConfig
<1>5. DOMAIN result.published = DOMAIN Put(Nothing, config["output_var"].s, value.v)
  BY <1>4 DEF Done
<1>6. config["output_var"].s \in DOMAIN Put(Nothing, config["output_var"].s, value.v)
  BY DEF Put
<1> QED
  BY <1>1, <1>2, <1>5, <1>6

\* The names of the expressions of a node.
ResultNames(n) == IF "expressions" \in Keys(n)
                  THEN {x.name : x \in Items(n.config.at["expressions"])} \ {""} ELSE {}

LEMMA CalculateManyPublishes ==
    ASSUME NEW n, IsConfig(n.config), n.config.shape = "object",
           NEW result, result = ExecuteCalculateMany(Resolved(n)), result.ok
    PROVE  /\ NamesIn(n, "output_var") \subseteq DOMAIN result.published
           /\ ResultNames(n) \subseteq DOMAIN result.published
<1> DEFINE config == Resolved(n)
           IsNamed(key) == key \in DOMAIN config /\ config[key].t = "named"
           seeds == IF IsNamed("variables") THEN config["variables"].e ELSE <<>>
           seeded == FoldLeft(LAMBDA s, x : Put(s, x.name, x.of), scope, seeds)
           items == config["expressions"].e
           all == Results(seeded, items)[Len(items)]
<1>1. /\ "expressions" \in DOMAIN config /\ config["expressions"].t = "named"
      /\ result = Collected(config, all)
  BY DEF ExecuteCalculateMany, InvalidConfig
<1>2. DOMAIN config = Keys(n) /\ \A k \in Keys(n) : config[k] = Resolve(n.config.at[k], k)
  BY DEF Resolved
<1> HIDE DEF config, seeded, all
<1>3. all.ok
  <2> SUFFICES ASSUME ~all.ok PROVE FALSE
    OBVIOUS
  <2>1. result = [InvalidConfig EXCEPT !.published = all.published]
    BY <1>1 DEF Collected
  <2>2. InvalidConfig \in [ok : {FALSE}, ports : {Nothing}, published : {Nothing}]
    BY DEF InvalidConfig
  <2>3. result.ok = FALSE
    BY <2>1, <2>2
  <2> QED
    BY <2>3
<1> DEFINE with == Put(all.published, config["output_var"].s, Object)
           named == "output_var" \in DOMAIN config /\ config["output_var"].s # ""
<1>4. result = Done([out |-> Object], IF named THEN with ELSE all.published)
  BY <1>1, <1>3 DEF Collected
<1>5. result.published = IF named THEN with ELSE all.published
  <2> HIDE DEF with, named
  <2> QED
    BY <1>4 DEF Done
<1>6. DOMAIN with = DOMAIN all.published \cup {config["output_var"].s}
  BY DEF Put
<1>7. ASSUME NEW x \in NamesIn(n, "output_var") PROVE x \in DOMAIN result.published
  <2>1. /\ "output_var" \in Keys(n) /\ n.config.at["output_var"].t = "string"
        /\ x = n.config.at["output_var"].s /\ x # ""
    BY DEF NamesIn
  <2>2. "output_var" \in DOMAIN config /\ config["output_var"].s = x
    BY <2>1, ResolvedText DEF config
  <2>3. result.published = with /\ x \in DOMAIN with
    BY <2>1, <2>2, <1>5, <1>6
  <2> QED
    BY <2>3
<1>8. DOMAIN all.published \subseteq DOMAIN result.published
  <2> HIDE DEF with, named
  <2> QED
    BY <1>5, <1>6
<1> HIDE DEF with, named
<1>9. ASSUME NEW x \in ResultNames(n) PROVE x \in DOMAIN all.published
  <2> DEFINE v == n.config.at["expressions"]
  <2>1. "expressions" \in Keys(n) /\ v.t = "named"
    BY <1>9 DEF ResultNames, Items
  <2>2. v.e \in Seq(ToSet(v.e)) /\ x \in {y.name : y \in ToSet(v.e)}
    BY <1>9, <2>1 DEF ResultNames, Items, IsConfig, Keys
  <2>3. Len(v.e) \in Nat /\ DOMAIN v.e = 1..Len(v.e)
    BY <2>2, LenProperties
  <2>4. PICK i \in 1..Len(v.e) : v.e[i].name = x
    BY <2>2, <2>3 DEF ToSet
  <2>5. items = [j \in 1..Len(v.e) |-> ResolveItem(v.e[j], "expression")]
    <3>1. config["expressions"] = Resolve(v, "expressions")
      BY <1>2, <2>1
    <3>2. Resolve(v, "expressions")
            = Named([j \in DOMAIN v.e |-> ResolveItem(v.e[j], "expression")])
      BY <2>1 DEF Resolve
    <3>3. \A list : Named(list).e = list
      BY DEF Named, Json
    <3> QED
      BY <3>1, <3>2, <3>3, <2>3
  <2>6. Len(items) = Len(v.e) /\ items[i].name = x
    <3>1. items[i].name = v.e[i].name
      BY <2>5 DEF ResolveItem
    <3>2. Len(items) = Len(v.e)
      <4> HIDE DEF items
      <4>1. items = [j \in 1..Len(v.e) |-> items[j]]
        BY <2>5
      <4> QED
        BY <4>1, <2>3, ListOf
    <3> QED
      BY <3>1, <3>2, <2>4
  <2> HIDE DEF items
  <2>7. items[i].name \in DOMAIN Results(seeded, items)[Len(items)].published
    <3>1. Results(seeded, items)[Len(items)].ok
      BY <1>3 DEF all
    <3> QED
      BY <3>1, <2>3, <2>6, ResultsPublish
  <2> QED
    BY <2>6, <2>7 DEF all
<1> QED
  BY <1>7, <1>8, <1>9

\* A node that succeeds has published every name it declares, but for the variable
\* that captures its result.
LEMMA ExecutePublishes ==
    ASSUME NEW n, n.type \in KnownTypes, n.config.shape = "object", IsConfig(n.config),
           Keys(n) \subseteq Descriptor[n.type].properties,
           NEW result, result = Execute(n), result.ok
    PROVE  Declares(n) \subseteq DOMAIN result.published \cup ({n.resultVar} \ {"none", ""})
<1>1. Declares(n) = UNION {{n.resultVar} \ {"none", ""}, NamesIn(n, "output_var"),
           IF n.type = "core.SetVariable" THEN NamesIn(n, "name") ELSE {},
           IF n.type = "core.CalculateMany" THEN ResultNames(n) ELSE {}}
  BY DEF Declares, ResultNames
<1>2. n.type \in {"core.Start", "core.End", "core.Log", "core.Calculate",
                  "core.CalculateMany", "system.Delay", "core.SetVariable"}
  BY DEF KnownTypes, Descriptor
<1>3. "output_var" \notin Keys(n) => NamesIn(n, "output_var") = {}
  BY DEF NamesIn
<1>4. CASE n.type = "core.Calculate"
  <2>1. result = ExecuteCalculate(Resolved(n), InputsOf(n))
    BY <1>4 DEF Execute
  <2>2. NamesIn(n, "output_var") \subseteq DOMAIN result.published
    BY <2>1, CalculatePublishes
  <2> QED
    BY <1>1, <1>4, <2>2
<1>5. CASE n.type = "core.CalculateMany"
  <2>1. result = ExecuteCalculateMany(Resolved(n))
    BY <1>5 DEF Execute
  <2>2. /\ NamesIn(n, "output_var") \subseteq DOMAIN result.published
        /\ ResultNames(n) \subseteq DOMAIN result.published
    BY <2>1, CalculateManyPublishes
  <2> QED
    BY <1>1, <1>5, <2>2
<1>6. CASE n.type = "core.SetVariable"
  <2>1. result = ExecuteSetVariable(Resolved(n), InputsOf(n))
    BY <1>6 DEF Execute
  <2>2. NamesIn(n, "name") \subseteq DOMAIN result.published
    BY <2>1, SetVariablePublishes
  <2>3. Descriptor[n.type].properties = {"name", "value"}
    BY <1>6 DEF Descriptor, Described
  <2> QED
    BY <1>1, <1>3, <1>6, <2>2, <2>3
<1>7. CASE n.type \notin {"core.Calculate", "core.CalculateMany", "core.SetVariable"}
  <2>1. Descriptor[n.type].properties
           \in {{}, {"code"}, {"message", "level"}, {"duration_ms"}}
    <3>1. n.type \in {"core.Start", "core.End", "core.Log", "system.Delay"}
      BY <1>2, <1>7
    <3>2. /\ Descriptor["core.Start"].properties = {}
          /\ Descriptor["core.End"].properties = {"code"}
          /\ Descriptor["core.Log"].properties = {"message", "level"}
          /\ Descriptor["system.Delay"].properties = {"duration_ms"}
      BY DEF Descriptor, Described
    <3> QED
      BY <3>1, <3>2
  <2>2. NamesIn(n, "output_var") = {}
    BY <1>3, <2>1
  <2> QED
    BY <1>1, <1>7, <2>2
<1> QED
  BY <1>4, <1>5, <1>6, <1>7

\* Publishing only adds to the scope.
LEMMA CaptureAdds ==
    ASSUME NEW n, NEW published, NEW ports
    PROVE  /\ DOMAIN scope \cup DOMAIN published \subseteq DOMAIN Capture(n, published, ports)
           /\ {n.resultVar} \ {"none", ""} \subseteq DOMAIN Capture(n, published, ports)
           /\ DOMAIN Publish(published) = DOMAIN scope \cup DOMAIN published
<1>1. DOMAIN Publish(published) = DOMAIN scope \cup DOMAIN published
  BY DEF Publish
<1> DEFINE base == Publish(published)
           captured == Captured(n, ports)
<1> HIDE DEF base, captured
<1>2. DOMAIN Put(base, n.resultVar, captured) = DOMAIN base \cup {n.resultVar}
  BY DEF Put
<1>3. CASE Present(n.resultVar)
  <2>1. Capture(n, published, ports) = Put(base, n.resultVar, captured)
    BY <1>3 DEF Capture, base, captured
  <2>2. DOMAIN Capture(n, published, ports) = DOMAIN scope \cup DOMAIN published \cup {n.resultVar}
    BY <1>1, <1>2, <2>1 DEF base
  <2> QED
    BY <1>1, <2>2
<1>4. CASE ~Present(n.resultVar)
  BY <1>1, <1>4 DEF Capture, Present
<1> QED
  BY <1>3, <1>4

-----------------------------------------------------------------------------
\* What validation knows of a node and of a name.
LEMMA ValidNode ==
    ASSUME NEW w, IsValid(Diagnostics(w)), NEW i \in Positions(w)
    PROVE  /\ w.nodes[i].type \in KnownTypes /\ w.nodes[i].config.shape = "object"
           /\ <<"WF143", i>> \notin Diagnostics(w)
                 => Keys(w.nodes[i]) \subseteq Descriptor[w.nodes[i].type].properties
<1>1. \A x : <<"WF140", x>> \notin Diagnostics(w) /\ <<"WF141", x>> \notin Diagnostics(w)
  <2>1. \A code, x : <<code, x>> \in Diagnostics(w) => code \in Warnings
    BY DEF IsValid
  <2> QED
    BY <2>1 DEF Warnings
<1>2. CapabilityDiagnostics(w) \subseteq Diagnostics(w)
  BY DEF Diagnostics
<1>3. w.nodes[i].type \in KnownTypes
  <2> SUFFICES ASSUME w.nodes[i].type \notin KnownTypes PROVE FALSE
    OBVIOUS
  <2>1. <<"WF140", i>> \in CapabilityDiagnostics(w)
    BY DEF CapabilityDiagnostics, Flag
  <2> QED
    BY <2>1, <1>1, <1>2
<1>4. w.nodes[i].config.shape = "object"
  <2> SUFFICES ASSUME w.nodes[i].config.shape # "object" PROVE FALSE
    OBVIOUS
  <2>1. <<"WF141", i>> \in CapabilityDiagnostics(w)
    BY <1>3 DEF CapabilityDiagnostics, Flag
  <2> QED
    BY <2>1, <1>1, <1>2
<1>5. ASSUME ~(Keys(w.nodes[i]) \subseteq Descriptor[w.nodes[i].type].properties)
      PROVE  <<"WF143", i>> \in Diagnostics(w)
  <2>1. <<"WF143", i>> \in CapabilityDiagnostics(w)
    BY <1>3, <1>4, <1>5 DEF CapabilityDiagnostics, Flag
  <2> QED
    BY <2>1, <1>2
<1> QED
  BY <1>3, <1>4, <1>5

LEMMA DeclaredOrFlagged ==
    ASSUME NEW w, NEW i \in Positions(w), NEW x \in TemplateRefs(w.nodes[i])
    PROVE  x \in Declared(w) \/ <<"WF150", <<i, x>>>> \in Diagnostics(w)
<1> SUFFICES ASSUME x \notin Declared(w) PROVE <<"WF150", <<i, x>>>> \in Diagnostics(w)
  OBVIOUS
<1>1. <<"WF150", <<i, x>>>> \in ReferenceDiagnostics(w)
  BY DEF ReferenceDiagnostics
<1> QED
  BY <1>1 DEF Diagnostics

LEMMA PositionFacts ==
    ASSUME NEW w, IsGraph(w), NEW id \in Ids(w)
    PROVE  /\ PositionOf(w, id) \in Positions(w) /\ w.nodes[PositionOf(w, id)].id = id
           /\ NodeOf(w, id) = w.nodes[PositionOf(w, id)]
           /\ Distinct(w) => \A i \in Positions(w) : w.nodes[i].id = id => i = PositionOf(w, id)
<1> DEFINE T == {i \in 1..Len(w.nodes) : w.nodes[i].id = id}
           c == PositionOf(w, id)
<1>g. Positions(w) = 1..Len(w.nodes) /\ Len(w.nodes) \in Nat
  BY GraphFacts DEF Positions
<1>1. T \in SUBSET Nat /\ T # {}
  BY <1>g DEF Ids
<1>2. PICK m \in T : \A k \in T : m <= k
  <2> HIDE DEF T
  <2> QED
    BY <1>1, NatSetMin
<1>3. c \in Positions(w) /\ w.nodes[c].id = id
  <2>1. /\ m \in Positions(w) /\ w.nodes[m].id = id
        /\ \A j \in Positions(w) : w.nodes[j].id = id => m <= j
    BY <1>2, <1>g
  <2> QED
    BY <2>1 DEF PositionOf
<1>4. Distinct(w) => \A i \in Positions(w) : w.nodes[i].id = id => i = c
  BY <1>3, <1>g, IdsFacts
<1> QED
  BY <1>3, <1>4 DEF NodeOf

-----------------------------------------------------------------------------
(***************************************************************************)
(* The inductive invariant of a run: it has gone only where it could, who  *)
(* has succeeded has published what it declares, and a template that was   *)
(* left as it is had no name in the scope then.                            *)
(***************************************************************************)
Configured(d) == \A i \in DOMAIN d.nodes : IsConfig(d.nodes[i].config)
ConfigInv == Configured(file) /\ Configured(wf)

\* Keys the node type does not have are not read, and the validator says so (WF143).
KeysAreRead(i) == <<"WF143", i>> \notin report
PublishedInv ==
    \A i \in Positions(wf) : KeysAreRead(i) /\ wf.nodes[i].id \in DOMAIN outputs
                                => Declares(wf.nodes[i]) \subseteq DOMAIN scope
DanglingInv ==
    \A d \in dangling :
        /\ d[1] \in Ids(wf) /\ d[2] \in TemplateRefs(NodeOf(wf, d[1])) \ DOMAIN wf.variables
        /\ \A i \in Positions(wf) : KeysAreRead(i) /\ d[2] \in Declares(wf.nodes[i])
                                       => wf.nodes[i].id \notin d[3]
RunInv ==
    /\ outcome = "none" => activated = {} /\ dangling = {} /\ DOMAIN outputs = {}
    /\ outcome # "none" =>
          /\ stage = "accepted" /\ order = TopologicalOrder(wf).order /\ pos \in Nat \ {0}
          /\ activated \subseteq {EntryNode(wf).id} \cup Onward(wf, EntryNode(wf).id)
          /\ DOMAIN wf.variables \subseteq DOMAIN scope
          /\ PublishedInv /\ DanglingInv

\* Parsing and migration keep the lists of named values what they are.
LEMMA EmptyConfigIs == IsConfig(EmptyConfig)
BY DEF IsConfig, EmptyConfig

LEMMA LegacyConfigIs ==
    ASSUME NEW t, NEW at,
           \A k \in DOMAIN at : at[k].t = "named" => at[k].e \in Seq(ToSet(at[k].e)),
           NEW new, new = NormaliseLegacyConfig(t, at)
    PROVE  \A k \in DOMAIN new : new[k].t = "named" => new[k].e \in Seq(ToSet(new[k].e))
<1> DEFINE without(k) == [j \in DOMAIN at \ {k} |-> at[j]]
           with(f, k, v) == [j \in DOMAIN f \cup {k} |-> IF j = k THEN v ELSE f[j]]
           millis == Times(at["seconds"], Number(1000, 1))
<1>1. millis.t = "number"
  BY DEF Times, Number, Json
<1>2. \/ new = at
      \/ new = without("seconds")
      \/ new = with(without("seconds"), "duration_ms", millis)
      \/ "text" \in DOMAIN at /\ new = with(without("text"), "message", at["text"])
  BY DEF NormaliseLegacyConfig
<1> HIDE DEF millis
<1>3. CASE new = at
  BY <1>3
<1>4. CASE new = without("seconds")
  BY <1>4
<1>5. CASE new = with(without("seconds"), "duration_ms", millis)
  <2>1. /\ DOMAIN new = (DOMAIN at \ {"seconds"}) \cup {"duration_ms"}
        /\ \A j \in DOMAIN new : new[j] = IF j = "duration_ms" THEN millis ELSE at[j]
    BY <1>5
  <2> QED
    BY <1>1, <2>1
<1>6. CASE "text" \in DOMAIN at /\ new = with(without("text"), "message", at["text"])
  <2>1. /\ DOMAIN new = (DOMAIN at \ {"text"}) \cup {"message"}
        /\ \A j \in DOMAIN new : new[j] = IF j = "message" THEN at["text"] ELSE at[j]
    BY <1>6
  <2> QED
    BY <1>6, <2>1
<1> QED
  BY <1>2, <1>3, <1>4, <1>5, <1>6

LEMMA NormalisedConfigIs ==
    ASSUME NEW t, NEW c, IsConfig(c)
    PROVE  IsConfig(NormaliseConfig(t, c))
<1>1. CASE c.shape = "object"
  <2> DEFINE at == NormaliseLegacyConfig(t, c.at)
  <2>1. NormaliseConfig(t, c) = [c EXCEPT !.at = at]
    BY <1>1 DEF NormaliseConfig
  <2>2. \A k \in DOMAIN at : at[k].t = "named" => at[k].e \in Seq(ToSet(at[k].e))
    BY LegacyConfigIs DEF IsConfig
  <2> HIDE DEF at
  <2>3. NormaliseConfig(t, c) = [shape |-> c.shape, at |-> at]
    BY <2>1 DEF IsConfig
  <2> QED
    BY <2>2, <2>3 DEF IsConfig
<1>2. CASE c.shape \in {"text", "absent"}
  BY <1>2, EmptyConfigIs DEF NormaliseConfig
<1>3. CASE c.shape \notin {"object", "text", "absent"}
  <2>1. NormaliseConfig(t, c) = [shape |-> "object", at |-> [value |-> Null]]
    BY <1>3 DEF NormaliseConfig
  <2>2. Null.t # "named"
    BY DEF Null, Json
  <2> QED
    BY <2>1, <2>2 DEF IsConfig
<1> QED
  BY <1>1, <1>2, <1>3

LEMMA ParsedConfigured ==
    ASSUME NEW d, IsDocument(d), Configured(d)
    PROVE  Configured(Parsed(d))
<1>1. DOMAIN Parsed(d).nodes = 1..Len(d.nodes)
  BY ParsedIs, DocumentFacts
<1>2. ASSUME NEW i \in 1..Len(d.nodes) PROVE IsConfig(Parsed(d).nodes[i].config)
  <2>1. Parsed(d).nodes[i] = ParsedNode(d.nodes[i]) /\ IsNode(d.nodes[i])
    BY ParsedIs, DocumentFacts
  <2>2. ParsedNode(d.nodes[i]).config \in {EmptyConfig, d.nodes[i].config}
    BY <2>1 DEF ParsedNode, IsNode
  <2>3. IsConfig(d.nodes[i].config)
    BY DocumentFacts DEF Configured
  <2> QED
    BY <2>1, <2>2, <2>3, EmptyConfigIs
<1> QED
  BY <1>1, <1>2 DEF Configured

LEMMA MigratedConfigured ==
    ASSUME NEW d, IsDocument(d), Configured(d)
    PROVE  Configured(Migrated(d))
<1>1. CASE IsCurrent(d)
  BY <1>1, ParsedConfigured DEF Migrated
<1>2. CASE ~IsCurrent(d)
  <2>1. DOMAIN Migrated(d).nodes = 1..Len(d.nodes)
    BY <1>2, MigratedIs
  <2>2. ASSUME NEW i \in 1..Len(d.nodes) PROVE IsConfig(Migrated(d).nodes[i].config)
    <3>1. Migrated(d).nodes[i] = MigratedNode(d.nodes[i], i) /\ IsNode(d.nodes[i])
      BY <1>2, MigratedIs, DocumentFacts
    <3>2. MigratedNode(d.nodes[i], i).config
             = NormaliseConfig(Canonical(d.nodes[i].type), d.nodes[i].config)
      BY <3>1 DEF MigratedNode, IsNode
    <3>3. IsConfig(d.nodes[i].config)
      BY DocumentFacts DEF Configured
    <3> QED
      BY <3>1, <3>2, <3>3, NormalisedConfigIs
  <2> QED
    BY <2>1, <2>2 DEF Configured
<1> QED
  BY <1>1, <1>2

LEMMA ConfigStep == DocumentInv /\ ConfigInv /\ [DocumentNext]_documentVars => ConfigInv'
<1> SUFFICES ASSUME DocumentInv, ConfigInv, [DocumentNext]_documentVars PROVE ConfigInv'
  OBVIOUS
<1>1. Configured(Migrated(file)) /\ Configured(Parsed(file)) /\ Configured(file) /\ Configured(wf)
  BY MigratedConfigured, ParsedConfigured DEF DocumentInv, ConfigInv
<1>2. file' \in {file, Migrated(file)} /\ wf' \in {wf, Parsed(file)}
  BY DEF DocumentNext, documentVars, Migrate, Load, Receive, ParseFile, Validate, Simulate, Submit
<1> QED
  BY <1>1, <1>2 DEF ConfigInv

-----------------------------------------------------------------------------
\* The steps of a run.

\* A document that was accepted stays as it is.
LEMMA AcceptedStays ==
    ASSUME stage = "accepted", [DocumentNext]_documentVars
    PROVE  UNCHANGED documentVars
BY DEF DocumentNext, Migrate, Load, Receive, ParseFile, Validate, Simulate, Submit

LEMMA CurrentFacts ==
    ASSUME DocumentInv, RunInv, AtNode
    PROVE  /\ IsGraph(wf) /\ IsValid(Diagnostics(wf)) /\ report = Diagnostics(wf) /\ Distinct(wf)
           /\ Current.id \in Ids(wf) /\ Current = NodeOf(wf, Current.id)
           /\ PositionOf(wf, Current.id) \in Positions(wf)
           /\ Current = wf.nodes[PositionOf(wf, Current.id)]
<1>1. IsGraph(wf) /\ IsValid(Diagnostics(wf)) /\ report = Diagnostics(wf)
  BY DEF DocumentInv, RunInv, AtNode
<1>2. Distinct(wf)
  BY <1>1, ValidFacts
<1>3. order[pos] \in Ids(wf)
  <2>1. order \in Seq(Ids(wf)) /\ Len(order) \in Nat
    BY <1>1, <1>2, OrderFacts DEF RunInv, AtNode
  <2>2. pos \in 1..Len(order)
    BY <2>1 DEF RunInv, AtNode
  <2> QED
    BY <2>1, <2>2, ElementOfSeq
<1>4. Current.id = order[pos]
  BY <1>1, <1>3, PositionFacts DEF Current
<1> QED
  BY <1>1, <1>2, <1>3, <1>4, PositionFacts DEF Current

\* The edges a node hands its activation to lead onward.
Reach == {EntryNode(wf).id} \cup Onward(wf, EntryNode(wf).id)

LEMMA RouteStays ==
    ASSUME DocumentInv, RunInv, AtNode, Current.id \in activated, NEW outcomeOf, NEW s
    PROVE  Route(Current, outcomeOf, s) \subseteq Reach
<1>1. activated \subseteq Reach
  BY DEF RunInv, AtNode, Reach
<1>2. ASSUME NEW e \in ControlFrom(Current) PROVE e.dst \in Reach
  <2>1. PICK i \in EdgesFrom(wf, Current.id) : e = wf.edges[i]
    BY DEF ControlFrom
  <2>2. i \in EdgesOf(wf, "control") /\ i \in DOMAIN wf.edges /\ wf.edges[i].src = Current.id
    BY <2>1 DEF EdgesFrom, EdgesOf
  <2>3. i \in Inside(wf)
    BY <2>2, CurrentFacts, ValidFacts DEF Inside
  <2>4. CASE Current.id = EntryNode(wf).id
    BY <2>1, <2>2, <2>3, <2>4, CurrentFacts, OnwardFirst DEF Reach
  <2>5. CASE Current.id \in Onward(wf, EntryNode(wf).id)
    BY <2>1, <2>2, <2>3, <2>5, CurrentFacts, OnwardNext DEF Reach
  <2> QED
    BY <1>1, <2>4, <2>5 DEF Reach
<1> QED
  BY <1>1, <1>2 DEF Route

\* The parts of a node's execution.
LEMMA ReadKeeps ==
    ASSUME DocumentInv, RunInv, AtNode, Read(Current), wf' = wf, report' = report
    PROVE  DanglingInv'
<1> DEFINE new == {<<Current.id, x, DOMAIN outputs>> : x \in TemplateRefs(Current) \ DOMAIN scope}
           Justified(d) ==
              /\ d[1] \in Ids(wf) /\ d[2] \in TemplateRefs(NodeOf(wf, d[1])) \ DOMAIN wf.variables
              /\ \A i \in Positions(wf) : KeysAreRead(i) /\ d[2] \in Declares(wf.nodes[i])
                                             => wf.nodes[i].id \notin d[3]
<1>1. dangling' = dangling \cup new
  BY DEF Read
<1>2. \A d \in dangling : Justified(d)
  BY DEF RunInv, AtNode, DanglingInv
<1>3. ASSUME NEW d \in new PROVE Justified(d)
  <2>1. PICK x \in TemplateRefs(Current) \ DOMAIN scope : d = <<Current.id, x, DOMAIN outputs>>
    OBVIOUS
  <2>2. d[1] = Current.id /\ d[2] = x /\ d[3] = DOMAIN outputs
    BY <2>1
  <2>3. d[1] \in Ids(wf) /\ d[2] \in TemplateRefs(NodeOf(wf, d[1])) \ DOMAIN wf.variables
    BY <2>1, <2>2, CurrentFacts DEF RunInv, AtNode
  <2>4. ASSUME NEW i \in Positions(wf), KeysAreRead(i), x \in Declares(wf.nodes[i])
        PROVE  wf.nodes[i].id \notin DOMAIN outputs
    BY <2>1, <2>4 DEF RunInv, AtNode, PublishedInv
  <2> QED
    BY <2>2, <2>3, <2>4
<1> HIDE DEF new
<1>4. \A d \in dangling' : Justified(d)
  BY <1>1, <1>2, <1>3
<1> QED
  BY <1>4 DEF DanglingInv, KeysAreRead

LEMMA SucceedKeeps ==
    ASSUME DocumentInv, ConfigInv, RunInv, AtNode, Succeed(Current, Execute(Current)),
           wf' = wf, report' = report
    PROVE  PublishedInv' /\ DOMAIN scope \subseteq DOMAIN scope'
<1> DEFINE n == Current
           result == Execute(n)
           at == PositionOf(wf, n.id)
<1>1. /\ result.ok /\ scope' = Capture(n, result.published, result.ports)
      /\ outputs' = Put(outputs, n.id, result.ports)
  BY DEF Succeed
<1>2. /\ IsGraph(wf) /\ IsValid(Diagnostics(wf)) /\ report = Diagnostics(wf) /\ Distinct(wf)
      /\ n.id \in Ids(wf) /\ at \in Positions(wf) /\ n = wf.nodes[at]
  BY CurrentFacts
<1>3. IsConfig(n.config)
  BY <1>2 DEF ConfigInv, Configured, Positions
<1>c. result = Execute(n)
  OBVIOUS
<1> HIDE DEF n, result, at
<1>4. DOMAIN scope \subseteq DOMAIN scope'
  BY <1>1, CaptureAdds
<1>5. KeysAreRead(at) => Declares(n) \subseteq DOMAIN scope'
  <2> SUFFICES ASSUME KeysAreRead(at) PROVE Declares(n) \subseteq DOMAIN scope'
    OBVIOUS
  <2>1. /\ n.type \in KnownTypes /\ n.config.shape = "object"
        /\ Keys(n) \subseteq Descriptor[n.type].properties
    BY <1>2, ValidNode DEF KeysAreRead
  <2>2. Declares(n) \subseteq DOMAIN result.published \cup ({n.resultVar} \ {"none", ""})
    BY <1>1, <1>3, <1>c, <2>1, ExecutePublishes
  <2>3. /\ DOMAIN result.published \subseteq DOMAIN scope'
        /\ {n.resultVar} \ {"none", ""} \subseteq DOMAIN scope'
    BY <1>1, CaptureAdds
  <2> QED
    BY <2>2, <2>3
<1>6. ASSUME NEW i \in Positions(wf), KeysAreRead(i), wf.nodes[i].id \in DOMAIN outputs'
      PROVE  Declares(wf.nodes[i]) \subseteq DOMAIN scope'
  <2>1. DOMAIN outputs' = DOMAIN outputs \cup {n.id}
    BY <1>1 DEF Put
  <2>2. CASE wf.nodes[i].id \in DOMAIN outputs
    <3>1. Declares(wf.nodes[i]) \subseteq DOMAIN scope
      BY <1>6, <2>2 DEF RunInv, AtNode, PublishedInv
    <3> QED
      BY <3>1, <1>4
  <2>3. CASE wf.nodes[i].id = n.id
    <3>1. i = at
      BY <1>2, <2>3, PositionFacts DEF at
    <3> QED
      BY <3>1, <1>2, <1>5, <1>6
  <2> QED
    BY <1>6, <2>1, <2>2, <2>3
<1> QED
  BY <1>4, <1>6 DEF PublishedInv, KeysAreRead

LEMMA FailKeeps ==
    ASSUME DocumentInv, RunInv, AtNode, Fail(Current, Execute(Current)),
           wf' = wf, report' = report
    PROVE  PublishedInv' /\ DOMAIN scope \subseteq DOMAIN scope'
<1> DEFINE published == Execute(Current).published
           base == Publish(published)
<1>1. scope' = Put(base, "last_error", Object) /\ outputs' = outputs
  BY DEF Fail
<1>2. DOMAIN base = DOMAIN scope \cup DOMAIN published
  BY DEF Publish
<1> HIDE DEF base, published
<1>3. DOMAIN scope \subseteq DOMAIN scope'
  BY <1>1, <1>2 DEF Put
<1> QED
  BY <1>1, <1>3 DEF RunInv, AtNode, PublishedInv, KeysAreRead

LEMMA RunInitInv == Init => DocumentInv /\ ConfigInv /\ RunInv
<1> SUFFICES ASSUME Init PROVE DocumentInv /\ ConfigInv /\ RunInv
  OBVIOUS
<1>1. DocumentInv
  BY DocumentInitInv DEF Init
<1>2. ConfigInv
  BY DocumentsAssumption DEF Init, DocumentInit, ConfigInv, Configured, NoWorkflow
<1>3. RunInv
  BY DEF Init, RunInit, RunInv
<1> QED
  BY <1>1, <1>2, <1>3

LEMMA ExecuteStep ==
    ASSUME DocumentInv, ConfigInv, RunInv, ExecuteNode
    PROVE  RunInv'
<1>1. /\ AtNode /\ Current.id \in activated /\ outcome = "running"
      /\ UNCHANGED <<documentVars, order>> /\ Read(Current)
      /\ \/ Succeed(Current, Execute(Current))
         \/ Fail(Current, Execute(Current))
  BY DEF ExecuteNode, Ready, AtNode
<1>2. stage' = stage /\ wf' = wf /\ report' = report /\ order' = order
  BY <1>1 DEF documentVars
<1>3. DanglingInv'
  BY <1>1, <1>2, ReadKeeps
<1>4. PublishedInv' /\ DOMAIN scope \subseteq DOMAIN scope'
  BY <1>1, <1>2, SucceedKeeps, FailKeeps
<1>5. activated' \subseteq Reach
  <2>1. activated \subseteq Reach
    BY <1>1 DEF RunInv, Reach
  <2>2. \/ activated' = Route(Current, "success", scope')
        \/ \E s : activated' = Route(Current, "failure", s)
        \/ activated' = activated
    BY <1>1 DEF Succeed, Fail
  <2> QED
    BY <1>1, <2>1, <2>2, RouteStays
<1>6. pos' \in Nat \ {0} /\ outcome' \in {"running", "completed", "failed"}
  <2>1. pos \in Nat \ {0}
    BY <1>1 DEF RunInv
  <2>2. pos' \in {pos, pos + 1} /\ outcome' \in {"running", "completed", "failed"}
    BY <1>1 DEF Succeed, Fail
  <2> QED
    BY <2>1, <2>2
<1>7. /\ stage = "accepted" /\ order = TopologicalOrder(wf).order
      /\ DOMAIN wf.variables \subseteq DOMAIN scope
  BY <1>1 DEF RunInv
<1> QED
  BY <1>2, <1>3, <1>4, <1>5, <1>6, <1>7 DEF RunInv, Reach

LEMMA RunStep == DocumentInv /\ ConfigInv /\ RunInv /\ [Next]_vars => RunInv'
<1> SUFFICES ASSUME DocumentInv, ConfigInv, RunInv, [Next]_vars PROVE RunInv'
  OBVIOUS
<1>1. CASE DocumentNext /\ UNCHANGED runVars
  <2>1. UNCHANGED <<outcome, order, pos, activated, scope, outputs, dangling>>
    BY <1>1 DEF runVars
  <2>2. CASE outcome = "none"
    BY <2>1, <2>2 DEF RunInv
  <2>3. CASE outcome # "none"
    <3>1. UNCHANGED documentVars
      BY <1>1, <2>3, AcceptedStays DEF RunInv
    <3>2. UNCHANGED <<stage, wf, report>>
      BY <3>1 DEF documentVars
    <3> QED
      BY <2>1, <3>2 DEF RunInv, PublishedInv, DanglingInv, KeysAreRead
  <2> QED
    BY <2>2, <2>3
<1>2. CASE Begin
  <2>1. /\ stage = "accepted" /\ outcome = "none" /\ outcome' = "running" /\ pos' = 1
        /\ scope' = wf.variables /\ order' = TopologicalOrder(wf).order
        /\ activated' = {EntryNode(wf).id} /\ outputs' = outputs /\ dangling' = dangling
        /\ wf' = wf /\ stage' = stage /\ report' = report
    BY <1>2 DEF Begin, documentVars
  <2>2. dangling = {} /\ DOMAIN outputs = {}
    BY <2>1 DEF RunInv
  <2>3. PublishedInv' /\ DanglingInv'
    BY <2>1, <2>2 DEF PublishedInv, DanglingInv
  <2> QED
    BY <2>1, <2>3 DEF RunInv
<1>3. CASE Finish \/ BrokenCondition
  <2>1. /\ outcome = "running" /\ outcome' # "none"
        /\ UNCHANGED <<documentVars, order, pos, activated, scope, outputs, dangling>>
    BY <1>3 DEF Finish, BrokenCondition, AtNode
  <2>2. UNCHANGED <<stage, wf, report>>
    BY <2>1 DEF documentVars
  <2> QED
    BY <2>1, <2>2 DEF RunInv, PublishedInv, DanglingInv, KeysAreRead
<1>4. CASE PassOver \/ PassThrough
  <2>1. /\ AtNode /\ outcome = "running" /\ pos' = pos + 1
        /\ \/ activated' = activated
           \/ Current.id \in activated /\ activated' = Route(Current, "success", scope)
        /\ UNCHANGED <<documentVars, outcome, order, scope, outputs, dangling>>
    BY <1>4 DEF PassOver, PassThrough, AtNode
  <2>2. UNCHANGED <<stage, wf, report>>
    BY <2>1 DEF documentVars
  <2>3. activated' \subseteq Reach
    BY <2>1, RouteStays DEF RunInv, Reach
  <2>4. pos' \in Nat \ {0}
    BY <2>1 DEF RunInv
  <2> QED
    BY <2>1, <2>2, <2>3, <2>4 DEF RunInv, Reach, PublishedInv, DanglingInv, KeysAreRead
<1>5. CASE ExecuteNode
  BY <1>5, ExecuteStep
<1>6. CASE UNCHANGED vars
  <2>1. UNCHANGED <<outcome, order, pos, activated, scope, outputs, dangling>>
    BY <1>6 DEF vars, runVars
  <2>2. UNCHANGED <<stage, wf, report>>
    BY <1>6 DEF vars, documentVars
  <2> QED
    BY <2>1, <2>2 DEF RunInv, PublishedInv, DanglingInv, KeysAreRead
<1> QED
  BY <1>1, <1>2, <1>3, <1>4, <1>5, <1>6 DEF Next, RunNext

LEMMA RunIsDocumentStep == [Next]_vars => [DocumentNext]_documentVars
<1> SUFFICES ASSUME [Next]_vars PROVE [DocumentNext]_documentVars
  OBVIOUS
<1>1. CASE DocumentNext /\ UNCHANGED runVars
  BY <1>1
<1>2. CASE RunNext
  BY <1>2 DEF RunNext, Begin, Finish, PassOver, PassThrough, BrokenCondition, ExecuteNode
<1>3. CASE UNCHANGED vars
  BY <1>3 DEF vars
<1> QED
  BY <1>1, <1>2, <1>3 DEF Next

\* A run is a run of its document: no step of it changes what was validated.
THEOREM RunKeepsDocument == Spec => DocumentSpec
<1>1. Init => DocumentInit
  BY DEF Init
<1> QED
  BY <1>1, RunIsDocumentStep, PTL DEF Spec, DocumentSpec

\* The inductive invariant of a run and the document it runs.
THEOREM RunsHold == Spec => [](DocumentInv /\ ConfigInv /\ RunInv)
<1>1. DocumentInv /\ ConfigInv /\ RunInv /\ [Next]_vars => (DocumentInv /\ ConfigInv /\ RunInv)'
  BY RunIsDocumentStep, DocumentStep, ConfigStep, RunStep
<1> QED
  BY <1>1, RunInitInv, PTL DEF Spec

\* What validation concluded holds in the run, for any accepted document: a template
\* without a warning (WF150) stays unresolved only while no node that publishes its
\* name has succeeded (validation.rs:587-705, engine.rs:557-727), and no node is
\* activated that validation calls unreachable (WF131).
THEOREM ValidationHolds == Spec => []ValidationForetells
<1>1. DocumentInv /\ RunInv => DanglingHasAWriter
  <2> SUFFICES ASSUME DocumentInv, RunInv, NEW d \in dangling,
                      <<"WF150", <<PositionOf(wf, d[1]), d[2]>>>> \notin report,
                      d[2] # "last_error"
               PROVE  LET writers == {i \in Positions(wf) : d[2] \in Declares(wf.nodes[i])
                                                              /\ <<"WF143", i>> \notin report}
                      IN /\ \E i \in Positions(wf) : d[2] \in Declares(wf.nodes[i])
                         /\ \A j \in writers : wf.nodes[j].id \notin d[3]
    BY DEF DanglingHasAWriter
  <2>1. outcome # "none"
    BY DEF RunInv
  <2>2. /\ IsGraph(wf) /\ report = Diagnostics(wf)
        /\ d[1] \in Ids(wf) /\ d[2] \in TemplateRefs(NodeOf(wf, d[1])) \ DOMAIN wf.variables
        /\ \A i \in Positions(wf) : KeysAreRead(i) /\ d[2] \in Declares(wf.nodes[i])
                                       => wf.nodes[i].id \notin d[3]
    BY <2>1 DEF RunInv, DocumentInv, DanglingInv
  <2>3. /\ PositionOf(wf, d[1]) \in Positions(wf)
        /\ NodeOf(wf, d[1]) = wf.nodes[PositionOf(wf, d[1])]
    BY <2>2, PositionFacts
  <2>4. d[2] \in Declared(wf)
    BY <2>2, <2>3, DeclaredOrFlagged
  <2>5. \E i \in Positions(wf) : d[2] \in Declares(wf.nodes[i])
    BY <2>2, <2>4 DEF Declared
  <2> QED
    BY <2>2, <2>5 DEF KeysAreRead
<1>2. DocumentInv /\ RunInv => RunStaysReachable
  <2> SUFFICES ASSUME DocumentInv, RunInv, activated # {}
               PROVE  /\ activated \subseteq ReachableFrom(wf, EntryNode(wf).id)
                      /\ \A id \in activated : <<"WF131", PositionOf(wf, id)>> \notin report
    BY DEF RunStaysReachable
  <2>1. outcome # "none"
    BY DEF RunInv
  <2>2. /\ IsGraph(wf) /\ report = Diagnostics(wf) /\ IsValid(Diagnostics(wf))
        /\ activated \subseteq Reach
    BY <2>1 DEF RunInv, DocumentInv, Reach
  <2>3. Starts(wf) # {} /\ EntryNodes(wf) # {}
    BY <2>2, ValidFacts DEF EntryNodes
  <2>4. EntryNode(wf).id \in Ids(wf)
    BY <2>2, <2>3, EntryFacts
  <2>5. ReachableFrom(wf, EntryNode(wf).id) = Reach
    BY <2>2, <2>4, ReachableIs DEF Reach
  <2>6. ASSUME NEW id \in activated PROVE <<"WF131", PositionOf(wf, id)>> \notin report
    <3>1. id \in Reach /\ id \in Ids(wf)
      BY <2>2, <2>4 DEF Reach, Onward
    <3>2. /\ PositionOf(wf, id) \in Positions(wf)
          /\ wf.nodes[PositionOf(wf, id)].id = id
      BY <2>2, <3>1, PositionFacts
    <3> QED
      BY <2>2, <2>3, <2>5, <3>1, <3>2, UnreachableFlagged
  <2> QED
    BY <2>2, <2>5, <2>6
<1>3. DocumentInv /\ RunInv => ValidationForetells
  BY <1>1, <1>2 DEF ValidationForetells
<1> QED
  BY <1>3, RunsHold, PTL
=============================================================================
