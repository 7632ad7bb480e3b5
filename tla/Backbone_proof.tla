--------------------------- MODULE Backbone_proof --------------------------
(***************************************************************************)
(* What topological_sort does for every finite graph, in whatever order the*)
(* successors of a node come, and what the nested calls of packages read,  *)
(* for every configuration without a circle of packages.                   *)
(***************************************************************************)
EXTENDS Backbone, Functions, FiniteSetTheorems, SequenceTheorems, WellFoundedInduction, TLAPS

IsGraph(g) == IsFiniteSet(NodesOf(g)) /\ g.edges \subseteq NodesOf(g) \X NodesOf(g)

(* The edges that still hold v back when some nodes are sorted.            *)
Holding(g, v, sorted) == {e \in InEdges(g, v) : e[1] \notin sorted}

(* What holds of a sort from its first node to its last: the degree of a   *)
(* node counts what holds it back, a node is ready or sorted exactly if    *)
(* that is none, and what is sorted comes after what it depends on.        *)
SortInv(g, s) ==
  /\ s.result \in Seq(NodesOf(g)) /\ s.ready \in Seq(NodesOf(g))
  /\ s.degree \in [NodesOf(g) -> Nat]
  /\ \A v \in NodesOf(g) :
       /\ s.degree[v] = Cardinality(Holding(g, v, ToSetOf(s.result)))
       /\ s.degree[v] = 0 <=> v \in ToSetOf(s.ready) \cup ToSetOf(s.result)
  /\ ToSetOf(s.ready) \cap ToSetOf(s.result) = {}
  /\ IsInjective(s.ready)
  /\ RespectsEdges(g, s)

(* The edges that hold a node back are finitely many.                      *)
LEMMA HoldingFinite ==
  ASSUME NEW g, IsGraph(g), NEW v, NEW sorted
  PROVE  /\ IsFiniteSet(Holding(g, v, sorted)) /\ Cardinality(Holding(g, v, sorted)) \in Nat
         /\ Cardinality(Holding(g, v, sorted)) = 0 <=> Holding(g, v, sorted) = {}
<1>1. IsFiniteSet(NodesOf(g) \X NodesOf(g))
  BY FS_Product DEF IsGraph
<1>2. Holding(g, v, sorted) \subseteq NodesOf(g) \X NodesOf(g)
  BY DEF Holding, InEdges, IsGraph
<1>3. IsFiniteSet(Holding(g, v, sorted))
  BY <1>1, <1>2, FS_Subset
<1> QED
  BY <1>3, FS_CardinalityType, FS_EmptySet

(* An order of a set has all of its elements, each once.                   *)
LEMMA OrderIsOfAll ==
  ASSUME NEW S, IsFiniteSet(S), NEW o \in Orders(S)
  PROVE  /\ o \in Seq(S) /\ Len(o) = Cardinality(S) /\ ToSetOf(o) = S /\ IsInjective(o)
<1> DEFINE n == Cardinality(S)
<1>1. n \in Nat
  BY FS_CardinalityType
<1>2. o \in [1..n -> S] /\ \A i, j \in 1..n : o[i] = o[j] => i = j
  BY DEF Orders
<1>3. IsFiniteSet(1..n) /\ Cardinality(1..n) = n
  BY <1>1, FS_Interval
<1>4. o \in Injection(1..n, S)
  BY <1>2 DEF Injection, IsInjective
<1>5. o \in Surjection(1..n, S)
  BY <1>3, <1>4, FS_Injection
<1>6. ToSetOf(o) = S
  BY <1>2, <1>5 DEF ToSetOf, Surjection
<1>7. o \in Seq(S) /\ Len(o) = n
  BY <1>1, <1>2
<1> QED
  BY <1>2, <1>6, <1>7 DEF IsInjective

(* The beginning: who has no edges is ready.                               *)
LEMMA SortInvInit ==
  ASSUME NEW g, IsGraph(g), NEW s \in SortsOf(g)
  PROVE  SortInv(g, s)
<1>1. PICK o \in Orders(Roots(g)) :
        s = [result |-> <<>>, ready |-> o,
             degree |-> [v \in NodesOf(g) |-> Cardinality(InEdges(g, v))]]
  BY DEF SortsOf
<1>2. s.result = <<>> /\ s.ready = o /\ ToSetOf(s.result) = {}
      /\ s.degree = [v \in NodesOf(g) |-> Cardinality(InEdges(g, v))]
  BY <1>1 DEF ToSetOf
<1>3. Roots(g) \subseteq NodesOf(g) /\ IsFiniteSet(Roots(g))
  BY FS_Subset DEF IsGraph, Roots
<1>4. o \in Seq(Roots(g)) /\ ToSetOf(o) = Roots(g) /\ IsInjective(o)
  BY <1>3, OrderIsOfAll
<1>5. o \in Seq(NodesOf(g)) /\ <<>> \in Seq(NodesOf(g))
  BY <1>3, <1>4, SeqMonotonic, EmptySeq
<1>6. \A v \in NodesOf(g) : InEdges(g, v) = Holding(g, v, ToSetOf(s.result))
  BY <1>2 DEF Holding
<1>7. ASSUME NEW v \in NodesOf(g)
      PROVE  /\ s.degree[v] \in Nat
             /\ s.degree[v] = Cardinality(Holding(g, v, ToSetOf(s.result)))
             /\ s.degree[v] = 0 <=> v \in ToSetOf(s.ready) \cup ToSetOf(s.result)
  BY <1>2, <1>4, <1>6, HoldingFinite DEF Roots
<1>8. s.degree \in [NodesOf(g) -> Nat]
  BY <1>2, <1>7
<1>9. RespectsEdges(g, s)
  BY <1>2 DEF RespectsEdges
<1> QED
  BY <1>2, <1>4, <1>5, <1>7, <1>8, <1>9 DEF SortInv

(* A sequence that goes on has its elements and one more.                  *)
LEMMA AppendedElements ==
  ASSUME NEW S, NEW seq \in Seq(S), NEW u \in S
  PROVE  /\ Append(seq, u) \in Seq(S) /\ ToSetOf(Append(seq, u)) = ToSetOf(seq) \cup {u}
         /\ DOMAIN Append(seq, u) = 1..(Len(seq) + 1) /\ Append(seq, u)[Len(seq) + 1] = u
         /\ DOMAIN seq = 1..Len(seq) /\ Len(seq) \in Nat
         /\ \A i \in DOMAIN seq : Append(seq, u)[i] = seq[i]
<1>1. /\ Append(seq, u) \in Seq(S) /\ DOMAIN Append(seq, u) = 1..(Len(seq) + 1)
      /\ Append(seq, u)[Len(seq) + 1] = u
      /\ DOMAIN seq = 1..Len(seq) /\ Len(seq) \in Nat
      /\ \A i \in DOMAIN seq : Append(seq, u)[i] = seq[i]
  BY AppendProperties, LenProperties
<1>2. 1..(Len(seq) + 1) = 1..Len(seq) \cup {Len(seq) + 1}
  BY <1>1
<1>3. ToSetOf(Append(seq, u)) = ToSetOf(seq) \cup {u}
  BY <1>1, <1>2 DEF ToSetOf
<1> QED
  BY <1>1, <1>3

(* The ready nodes without the last, and with others behind them.          *)
WithoutLast(ready, o) == SubSeq(ready, 1, Len(ready) - 1) \o o
LastOf(ready) == ready[Len(ready)]

LEMMA PoppedReady ==
  ASSUME NEW S, NEW ready \in Seq(S), ready # <<>>, IsInjective(ready),
         NEW o \in Seq(S), IsInjective(o), ToSetOf(o) \cap ToSetOf(ready) = {}
  PROVE  /\ WithoutLast(ready, o) \in Seq(S) /\ IsInjective(WithoutLast(ready, o))
         /\ LastOf(ready) \in ToSetOf(ready) /\ LastOf(ready) \in S
         /\ ToSetOf(WithoutLast(ready, o)) = (ToSetOf(ready) \ {LastOf(ready)}) \cup ToSetOf(o)
<1> DEFINE n == Len(ready)
           next == WithoutLast(ready, o)
           rest == SubSeq(ready, 1, n - 1)
<1>1. n \in Nat \ {0} /\ DOMAIN ready = 1..n /\ Len(o) \in Nat /\ DOMAIN o = 1..Len(o)
      /\ \A i \in 1..n : ready[i] \in S
  BY EmptySeq, LenProperties, ElementOfSeq
<1>2. rest \in Seq(S) /\ Len(rest) = n - 1 /\ \A i \in 1..(n - 1) : rest[i] = ready[i]
  BY <1>1, SubSeqProperties
<1> HIDE DEF rest
<1>3. /\ next \in Seq(S) /\ Len(next) = (n - 1) + Len(o)
      /\ \A i \in 1..((n - 1) + Len(o)) :
           next[i] = IF i <= n - 1 THEN rest[i] ELSE o[i - (n - 1)]
  BY <1>2, ConcatProperties DEF rest, WithoutLast
<1> HIDE DEF next
<1>4. DOMAIN next = 1..((n - 1) + Len(o))
  BY <1>3, LenProperties
<1>5. \A i \in DOMAIN next :
        \/ i \in 1..(n - 1) /\ next[i] = ready[i] /\ i \in DOMAIN ready
        \/ i - (n - 1) \in DOMAIN o /\ i > n - 1 /\ next[i] = o[i - (n - 1)]
  <2>1. ASSUME NEW i \in DOMAIN next, i <= n - 1
        PROVE  i \in 1..(n - 1) /\ next[i] = ready[i] /\ i \in DOMAIN ready
    <3>1. i \in 1..(n - 1) /\ i \in DOMAIN ready
      BY <1>1, <1>4, <2>1
    <3> QED
      BY <1>2, <1>3, <1>4, <2>1, <3>1
  <2>2. ASSUME NEW i \in DOMAIN next, ~(i <= n - 1)
        PROVE  i - (n - 1) \in DOMAIN o /\ i > n - 1 /\ next[i] = o[i - (n - 1)]
    <3>1. i - (n - 1) \in 1..Len(o) /\ i > n - 1
      BY <1>1, <1>4, <2>2
    <3> QED
      BY <1>1, <1>3, <1>4, <2>2, <3>1
  <2> QED
    BY <2>1, <2>2
<1>6. \A i \in DOMAIN ready, j \in DOMAIN o : ready[i] # o[j]
  BY DEF ToSetOf
<1>7. IsInjective(next)
  <2>1. SUFFICES ASSUME NEW i \in DOMAIN next, NEW j \in DOMAIN next, next[i] = next[j]
                 PROVE  i = j
    BY DEF IsInjective
  <2>2. i \in Int /\ j \in Int
    BY <1>4
  <2>3. CASE i \in 1..(n - 1) /\ j \in 1..(n - 1) /\ next[i] = ready[i] /\ next[j] = ready[j]
    <3>1. i \in DOMAIN ready /\ j \in DOMAIN ready
      BY <1>1, <2>3
    <3>2. ready[i] = ready[j]
      BY <2>1, <2>3
    <3> QED
      BY <3>1, <3>2 DEF IsInjective
  <2>4. CASE /\ i - (n - 1) \in DOMAIN o /\ j - (n - 1) \in DOMAIN o
             /\ next[i] = o[i - (n - 1)] /\ next[j] = o[j - (n - 1)]
    <3>1. i - (n - 1) = j - (n - 1)
      BY <2>1, <2>4 DEF IsInjective
    <3> QED
      BY <1>1, <2>2, <3>1
  <2> QED
    BY <1>5, <1>6, <2>1, <2>3, <2>4
<1>8. ToSetOf(next) \subseteq (ToSetOf(ready) \ {ready[n]}) \cup ToSetOf(o)
  <2>1. SUFFICES ASSUME NEW i \in DOMAIN next
                 PROVE  next[i] \in (ToSetOf(ready) \ {ready[n]}) \cup ToSetOf(o)
    BY DEF ToSetOf
  <2>2. CASE i \in 1..(n - 1) /\ next[i] = ready[i]
    <3>1. i \in DOMAIN ready /\ n \in DOMAIN ready /\ i # n
      BY <1>1, <2>2
    <3>2. ready[i] # ready[n]
      BY <3>1 DEF IsInjective
    <3> QED
      BY <2>2, <3>1, <3>2 DEF ToSetOf
  <2>3. CASE i - (n - 1) \in DOMAIN o /\ next[i] = o[i - (n - 1)]
    BY <2>3 DEF ToSetOf
  <2> QED
    BY <1>5, <2>2, <2>3
<1>9. (ToSetOf(ready) \ {ready[n]}) \cup ToSetOf(o) \subseteq ToSetOf(next)
  <2>1. ASSUME NEW i \in DOMAIN ready, ready[i] # ready[n] PROVE ready[i] \in ToSetOf(next)
    <3>1. i \in 1..(n - 1)
      BY <1>1, <2>1
    <3>2. i \in 1..((n - 1) + Len(o)) /\ i <= n - 1
      BY <1>1, <3>1
    <3>3. i \in DOMAIN next /\ next[i] = rest[i] /\ rest[i] = ready[i]
      BY <1>2, <1>3, <1>4, <3>1, <3>2
    <3> QED
      BY <3>3 DEF ToSetOf
  <2>2. ASSUME NEW j \in DOMAIN o PROVE o[j] \in ToSetOf(next)
    <3>1. j + (n - 1) \in DOMAIN next /\ ~(j + (n - 1) <= n - 1) /\ (j + (n - 1)) - (n - 1) = j
      BY <1>1, <1>4
    <3>2. next[j + (n - 1)] = o[j]
      BY <1>3, <1>4, <3>1
    <3> QED
      BY <3>1, <3>2 DEF ToSetOf
  <2> QED
    BY <2>1, <2>2 DEF ToSetOf
<1>10. ready[n] \in ToSetOf(ready) /\ ready[n] \in S
  <2>1. n \in 1..n /\ n \in DOMAIN ready
    BY <1>1
  <2> QED
    BY <1>1, <2>1 DEF ToSetOf
<1>11. ToSetOf(next) = (ToSetOf(ready) \ {ready[n]}) \cup ToSetOf(o)
  BY <1>8, <1>9
<1> QED
  BY <1>3, <1>7, <1>10, <1>11 DEF next, LastOf

(* A step of the sort keeps the invariant: the node that is popped has     *)
(* everything it depends on before it, and each of its successors has one  *)
(* edge less that holds it back.                                           *)
LEMMA SortInvStep ==
  ASSUME NEW g, IsGraph(g), NEW s, SortInv(g, s), s.ready # <<>>, NEW t \in Popped(g, s)
  PROVE  SortInv(g, t)
<1> DEFINE V == NodesOf(g)
           u == LastOf(s.ready)
           freed == {v \in V : <<u, v>> \in g.edges /\ s.degree[v] = 1}
           R == ToSetOf(s.result)
           degree == [v \in V |-> IF <<u, v>> \in g.edges THEN s.degree[v] - 1 ELSE s.degree[v]]
<1>1. PICK o \in Orders(freed) :
        t = [result |-> Append(s.result, u),
             ready |-> WithoutLast(s.ready, o), degree |-> degree]
  BY DEF Popped, WithoutLast, LastOf
<1>2. /\ t.result = Append(s.result, u) /\ t.degree = degree
      /\ t.ready = WithoutLast(s.ready, o)
  BY <1>1
<1>3. freed \subseteq V /\ IsFiniteSet(freed)
  BY FS_Subset DEF IsGraph
<1>4. o \in Seq(V) /\ ToSetOf(o) = freed /\ IsInjective(o)
  <2>1. o \in Seq(freed) /\ ToSetOf(o) = freed /\ IsInjective(o)
    BY <1>3, OrderIsOfAll
  <2> QED
    BY <1>3, <2>1, SeqMonotonic
<1>5. /\ s.result \in Seq(V) /\ s.ready \in Seq(V) /\ IsInjective(s.ready)
      /\ s.degree \in [V -> Nat] /\ ToSetOf(s.ready) \cap R = {}
      /\ \A v \in V : /\ s.degree[v] = Cardinality(Holding(g, v, R))
                      /\ s.degree[v] = 0 <=> v \in ToSetOf(s.ready) \cup R
  BY DEF SortInv
<1>6. ToSetOf(o) \cap ToSetOf(s.ready) = {}
  <2>1. \A v \in freed : v \in V /\ s.degree[v] # 0
    BY DEF freed
  <2> QED
    BY <1>4, <1>5, <2>1
<1>7. /\ t.ready \in Seq(V) /\ IsInjective(t.ready)
      /\ u \in ToSetOf(s.ready) /\ u \in V
      /\ ToSetOf(t.ready) = (ToSetOf(s.ready) \ {u}) \cup freed
  <2> HIDE DEF V, freed
  <2>1. /\ WithoutLast(s.ready, o) \in Seq(V) /\ IsInjective(WithoutLast(s.ready, o))
        /\ LastOf(s.ready) \in ToSetOf(s.ready) /\ LastOf(s.ready) \in V
        /\ ToSetOf(WithoutLast(s.ready, o)) =
             (ToSetOf(s.ready) \ {LastOf(s.ready)}) \cup ToSetOf(o)
    BY <1>4, <1>5, <1>6, PoppedReady
  <2> QED
    BY <1>2, <1>4, <2>1
<1>8. u \notin R /\ s.degree[u] = 0
  BY <1>5, <1>7
<1> HIDE DEF u, R
<1>9. /\ t.result \in Seq(V) /\ ToSetOf(t.result) = R \cup {u}
      /\ DOMAIN t.result = 1..(Len(s.result) + 1) /\ t.result[Len(s.result) + 1] = u
      /\ DOMAIN s.result = 1..Len(s.result) /\ Len(s.result) \in Nat
      /\ \A i \in DOMAIN s.result : t.result[i] = s.result[i]
  BY <1>2, <1>5, <1>7, AppendedElements DEF u, R
<1>10. ASSUME NEW v \in V
       PROVE  Holding(g, v, R \cup {u}) = Holding(g, v, R) \ {<<u, v>>}
  <2>1. \A e \in InEdges(g, v) : e[1] = u <=> e = <<u, v>>
    BY DEF InEdges, IsGraph
  <2> QED
    BY <2>1 DEF Holding
<1>11. ASSUME NEW v \in V
       PROVE  /\ t.degree[v] \in Nat
              /\ t.degree[v] = Cardinality(Holding(g, v, ToSetOf(t.result)))
              /\ t.degree[v] = 0 <=> v \in ToSetOf(t.ready) \cup ToSetOf(t.result)
  <2>1. /\ IsFiniteSet(Holding(g, v, R))
        /\ Cardinality(Holding(g, v, R) \ {<<u, v>>}) =
             IF <<u, v>> \in Holding(g, v, R) THEN Cardinality(Holding(g, v, R)) - 1
             ELSE Cardinality(Holding(g, v, R))
    BY HoldingFinite, FS_RemoveElement
  <2>2. <<u, v>> \in Holding(g, v, R) <=> <<u, v>> \in g.edges
    BY <1>8 DEF Holding, InEdges
  <2>3. t.degree[v] = IF <<u, v>> \in g.edges THEN s.degree[v] - 1 ELSE s.degree[v]
    BY <1>2
  <2>4. t.degree[v] = Cardinality(Holding(g, v, ToSetOf(t.result)))
    BY <1>5, <1>9, <1>10, <2>1, <2>2, <2>3
  <2>5. t.degree[v] \in Nat
    BY <2>4, HoldingFinite
  <2>6. s.degree[v] \in Nat /\ (s.degree[v] = 0 <=> v \in ToSetOf(s.ready) \cup R)
    BY <1>5
  <2>7. CASE <<u, v>> \in g.edges
    <3>1. s.degree[v] # 0 /\ t.degree[v] = s.degree[v] - 1
      BY <2>3, <2>5, <2>6, <2>7
    <3>2. v \notin ToSetOf(s.ready) /\ v \notin R /\ v # u
      BY <1>7, <2>6, <3>1
    <3>3. v \in freed <=> s.degree[v] = 1
      BY <2>7
    <3> QED
      BY <1>7, <1>9, <2>4, <2>5, <2>6, <3>1, <3>2, <3>3
  <2>8. CASE <<u, v>> \notin g.edges
    <3>1. t.degree[v] = s.degree[v] /\ v \notin freed
      BY <2>3, <2>8
    <3> QED
      BY <1>7, <1>9, <2>4, <2>5, <2>6, <3>1
  <2> QED
    BY <2>7, <2>8
<1>12. ToSetOf(t.ready) \cap ToSetOf(t.result) = {}
  <2>1. \A v \in freed : v \in V /\ s.degree[v] # 0
    BY DEF freed
  <2> QED
    BY <1>5, <1>7, <1>8, <1>9, <2>1 DEF R
<1>13. t.degree \in [V -> Nat]
  BY <1>2, <1>11
<1>14. RespectsEdges(g, t)
  <2>1. ASSUME NEW i \in DOMAIN t.result, NEW e \in InEdges(g, t.result[i])
        PROVE  \E j \in DOMAIN t.result : j < i /\ t.result[j] = e[1]
    <3>1. CASE i \in DOMAIN s.result
      <4>1. PICK j \in DOMAIN s.result : j < i /\ s.result[j] = e[1]
        <5>1. e \in InEdges(g, s.result[i])
          BY <1>9, <2>1, <3>1
        <5>2. \A k \in DOMAIN s.result : \A d \in InEdges(g, s.result[k]) :
                \E j \in DOMAIN s.result : j < k /\ s.result[j] = d[1]
          BY DEF SortInv, RespectsEdges
        <5> QED
          BY <3>1, <5>1, <5>2
      <4> QED
        <5>1. j \in DOMAIN t.result
          BY <1>9
        <5>2. t.result[j] = s.result[j]
          BY <1>9
        <5> QED
          BY <4>1, <5>1, <5>2
    <3>2. CASE i \notin DOMAIN s.result
      <4>1. i = Len(s.result) + 1 /\ t.result[i] = u
        BY <1>9, <3>2
      <4>2. Holding(g, u, R) = {}
        BY <1>5, <1>7, <1>8, HoldingFinite
      <4>3. e[1] \in R
        BY <2>1, <4>1, <4>2 DEF Holding
      <4>4. PICK j \in DOMAIN s.result : s.result[j] = e[1]
        BY <4>3 DEF ToSetOf, R
      <4> QED
        BY <1>9, <4>1, <4>4
    <3> QED
      BY <3>1, <3>2
  <2>2. ASSUME NEW i \in DOMAIN t.result, NEW j \in DOMAIN t.result, t.result[i] = t.result[j]
        PROVE  i = j
    <3>1. \A k \in DOMAIN s.result : s.result[k] # u
      BY <1>8 DEF ToSetOf, R
    <3>2. \A k \in DOMAIN t.result : k \in DOMAIN s.result \/ k = Len(s.result) + 1
      BY <1>9
    <3>3. CASE i \in DOMAIN s.result /\ j \in DOMAIN s.result
      BY <1>9, <2>2, <3>3 DEF SortInv, RespectsEdges
    <3> QED
      BY <1>9, <2>2, <3>1, <3>2, <3>3
  <2> QED
    BY <2>1, <2>2 DEF RespectsEdges
<1> QED
  BY <1>7, <1>9, <1>11, <1>12, <1>13, <1>14 DEF SortInv

(* A set of natural numbers has a least element.                           *)
LEMMA LeastExists ==
  ASSUME NEW T \in SUBSET Nat, T # {}
  PROVE  \E x \in T : \A y \in T : x <= y
<1> DEFINE R == OpToRel(<, Nat)
<1>1. IsWellFoundedOn(R, Nat)
  BY NatLessThanWellFounded
<1>2. \A x, y \in Nat : y < x => <<y, x>> \in R
  BY DEF OpToRel
<1> HIDE DEF R
<1>3. PICK x \in T : \A y \in T : ~(<<y, x>> \in R)
  BY <1>1, WFMin
<1>4. \A y \in T : x <= y
  <2> SUFFICES ASSUME NEW y \in T PROVE x <= y
    OBVIOUS
  <2>1. x \in Nat /\ y \in Nat /\ ~(y < x)
    BY <1>2, <1>3
  <2> QED
    BY <2>1
<1> QED
  BY <1>4

(* When nothing is ready, either all is sorted or a set of nodes keeps     *)
(* itself waiting.                                                         *)
LEMMA EndIsComplete ==
  ASSUME NEW g, IsGraph(g), NEW s, SortInv(g, s)
  PROVE  EndsComplete(g, s)
<1> DEFINE R == ToSetOf(s.result)
<1> SUFFICES ASSUME s.ready = <<>>
             PROVE  R = NodesOf(g) <=> Acyclic(g)
  BY DEF EndsComplete
<1>1. ToSetOf(s.ready) = {}
  BY DEF ToSetOf
<1>2. R \subseteq NodesOf(g)
  BY ElementOfSeq, LenProperties DEF SortInv, ToSetOf
<1>3. ASSUME R # NodesOf(g) PROVE ~Acyclic(g)
  <2> DEFINE S == NodesOf(g) \ R
  <2>1. S # {} /\ S \in SUBSET NodesOf(g)
    BY <1>2, <1>3
  <2>2. ASSUME NEW v \in S PROVE \E e \in InEdges(g, v) : e[1] \in S
    <3>1. s.degree[v] # 0 /\ s.degree[v] = Cardinality(Holding(g, v, R))
      BY <1>1, <2>2 DEF SortInv
    <3>2. Holding(g, v, R) # {}
      BY <3>1, HoldingFinite
    <3> QED
      BY <3>2 DEF Holding, InEdges, IsGraph
  <2> QED
    BY <2>1, <2>2 DEF Acyclic
<1>4. ASSUME R = NodesOf(g), NEW S \in SUBSET NodesOf(g), S # {}
      PROVE  \E v \in S : \A e \in InEdges(g, v) : e[1] \notin S
  <2> DEFINE places == {i \in DOMAIN s.result : s.result[i] \in S}
  <2>1. places # {}
    BY <1>4 DEF ToSetOf
  <2>2. DOMAIN s.result \subseteq Nat
    BY LenProperties DEF SortInv
  <2>3. PICK i \in places : \A j \in places : i <= j
    BY <2>1, <2>2, LeastExists
  <2>4. ASSUME NEW e \in InEdges(g, s.result[i]) PROVE e[1] \notin S
    <3>1. PICK j \in DOMAIN s.result : j < i /\ s.result[j] = e[1]
      BY <2>3, <2>4 DEF SortInv, RespectsEdges
    <3>2. j \notin places
      BY <2>2, <2>3, <3>1
    <3> QED
      BY <3>1, <3>2
  <2> QED
    BY <2>3, <2>4
<1> QED
  BY <1>3, <1>4 DEF Acyclic

(* A run of topological_sort, step by step.                                *)
IsSortRun(g, n, run) ==
  /\ run[1] \in SortsOf(g)
  /\ \A k \in 1..(n - 1) : run[k].ready # <<>> /\ run[k + 1] \in Popped(g, run[k])

(* Every run on every finite graph sorts each node once and after all that *)
(* it depends on, and ends without some nodes exactly if the graph has a   *)
(* cycle, as validate takes for granted.                                   *)
THEOREM SortIsTopological ==
  ASSUME NEW g, IsGraph(g), NEW n \in Nat \ {0}, NEW run, IsSortRun(g, n, run)
  PROVE  \A k \in 1..n : RespectsEdges(g, run[k]) /\ EndsComplete(g, run[k])
<1>1. \A k \in 1..n : SortInv(g, run[k])
  <2> DEFINE fails == {k \in 1..n : ~SortInv(g, run[k])}
  <2> SUFFICES ASSUME fails # {} PROVE FALSE
    OBVIOUS
  <2>1. fails \in SUBSET Nat
    OBVIOUS
  <2>2. PICK k \in fails : \A j \in fails : k <= j
    BY <2>1, LeastExists
  <2>3. CASE k = 1
    BY <2>2, <2>3, SortInvInit DEF IsSortRun
  <2>4. CASE k # 1
    <3>1. k - 1 \in 1..(n - 1) /\ k - 1 \in 1..n /\ (k - 1) + 1 = k /\ ~(k <= k - 1)
      BY <2>2, <2>4
    <3>2. SortInv(g, run[k - 1])
      BY <2>2, <3>1
    <3>3. run[k - 1].ready # <<>> /\ run[k] \in Popped(g, run[k - 1])
      BY <3>1 DEF IsSortRun
    <3>4. SortInv(g, run[k])
      BY <3>2, <3>3, SortInvStep
    <3> QED
      BY <2>2, <3>4
  <2> QED
    BY <2>3, <2>4
<1> QED
  BY <1>1, EndIsComplete DEF SortInv

---------------------------------------------------------------------------
(* The packages' graphs and the nested calls.                              *)

(* The nodes a package gives its own graph.                                *)
Named(pkg) == {m[1] : m \in Mentions(pkg)}

(* What the table has for a package of configuration c that is built.  The *)
(* graph of the backbone has grown by the packages that take its blocks.   *)
EntryFits(c, pkg, entry, mainEdges) ==
  LET g == entry.graph IN
  /\ entry = [graph |-> g, outs |-> IF pkg.outs = {} THEN Leaves(GraphOf(pkg)) ELSE pkg.outs]
  /\ IsGraph(g) /\ g = [nodes |-> g.nodes, edges |-> g.edges] /\ Acyclic(g)
  /\ EdgesOf(pkg) \subseteq g.edges
  /\ Named(pkg) \subseteq NodesOf(g) /\ NodesOf(g) \subseteq Named(pkg) \cup NamesIn(c)
  /\ pkg.name = Main => Taken(pkg) = {}
  /\ \A x \in Taken(pkg) : x.name \in OwnBlocks(c[1]) /\ <<x.name, pkg.name>> \in mainEdges

BuildInv ==
  /\ config \in Configs /\ building \in 1..(Len(config) + 1)
  /\ DOMAIN built = {config[k].name : k \in 1..(building - 1)}
  /\ \A k \in 1..(building - 1) :
       EntryFits(config, config[k], built[config[k].name], built[Main].graph.edges)
  /\ stack # <<>> => building = Len(config) + 1 /\ status # "building"

(* A call of a package of configuration c with table b: its sort, and the  *)
(* part of the order that is left.  Each block before that part has given  *)
(* its output.                                                             *)
PackageIn(c, p) == CHOOSE pkg \in {c[k] : k \in DOMAIN c} : pkg.name = p
DoneOf(f) == Len(f.sort.result) - Len(f.left)

IsRecord(f) ==
  f = [pkg |-> f.pkg, use |-> f.use, sort |-> f.sort, left |-> f.left,
       sorted |-> f.sorted, outputs |-> f.outputs, at |-> f.at, waits |-> f.waits]

OrderIs(c, g, f) ==
  /\ f.sort.ready = <<>> /\ ToSetOf(f.sort.result) = NodesOf(g)
  /\ f.left \in Seq(NodesOf(g)) /\ DoneOf(f) \in Nat
  /\ \A k \in 1..Len(f.left) : f.left[k] = f.sort.result[DoneOf(f) + k]
  /\ \A k \in 1..DoneOf(f) :
       f.sort.result[k] \in OwnBlocks(PackageIn(c, f.pkg)) => f.sort.result[k] \in f.outputs

FrameIs(c, b, f) ==
  /\ IsRecord(f) /\ f.pkg \in NamesIn(c) /\ f.at \in Nat \ {0}
  /\ SortInv(b[f.pkg].graph, f.sort)
  /\ f.sorted => OrderIs(c, b[f.pkg].graph, f)

(* A call that is at a use of a package.                                   *)
BlockIn(c, f) == CHOOSE b \in ToSetOf(PackageIn(c, f.pkg).blocks) : b.name = Head(f.left)
UseIn(c, f) == BlockIn(c, f).inputs[f.at]

AtUse(c, f) ==
  /\ f.sorted /\ f.left # <<>> /\ Head(f.left) \in BlocksOf(PackageIn(c, f.pkg))
  /\ f.at <= Len(BlockIn(c, f).inputs)
  /\ UseIn(c, f).kind = "package" /\ UseIn(c, f).name \in NamesIn(c)

(* What is called by f at that use: the package, or the one whose output is*)
(* to be its input.                                                        *)
Called(c, f, above) ==
  \/ f.waits = "main" /\ above.pkg = UseIn(c, f).name /\ above.use = UseIn(c, f)
  \/ /\ f.waits = "inner" /\ above.pkg = UseIn(c, f).from /\ above.use = NoInput
     /\ UseIn(c, f).from # Nothing

(* At a use that has not called yet.                                       *)
TopIs(c, f) ==
  /\ f.waits \in {"input", "ready"} => AtUse(c, f)
  /\ f.waits = "input" => UseIn(c, f).from # Nothing

(* How deep a package is used, see ConfigsAssumption.                      *)
IsDepth(c, depth) ==
  \A k \in DOMAIN c : \A p \in UsedIn(c, c[k]) : depth[p] < depth[c[k].name]
Depth(c) == CHOOSE depth \in [NamesIn(c) -> 0..Len(c)] : IsDepth(c, depth)

(* The calls under way, s: each is at a use that has called the next, and  *)
(* goes deeper.                                                            *)
NestingIs(c, s) ==
  /\ \A i \in 1..(Len(s) - 1) : AtUse(c, s[i]) /\ Called(c, s[i], s[i + 1])
  /\ \A i, j \in 1..Len(s) : i < j => Depth(c)[s[j].pkg] < Depth(c)[s[i].pkg]

StackIs(c, b, s) ==
  /\ s \in Seq(Range(s))
  /\ \A i \in 1..Len(s) : FrameIs(c, b, s[i])
  /\ s # <<>> => s[1].pkg = Main /\ s[1].use = NoInput /\ TopIs(c, s[Len(s)])
  /\ NestingIs(c, s)

CallsInv == StackIs(config, built, stack)

(* The input that a use gives its package is there until that use has      *)
(* ended: nothing above it on the stack can give the package another.  h is*)
(* what the packages hold.                                                 *)
ReadyIs(c, h, f) ==
  f.waits = "ready" /\ UseIn(c, f).from # Nothing => h[UseIn(c, f).name].input = UseIn(c, f).from

UseGiven(h, f) == f.use.from # Nothing => h[f.pkg].input = f.use.from

GivenIs(c, s, h) ==
  /\ \A i \in 1..Len(s) : UseGiven(h, s[i])
  /\ s # <<>> => ReadyIs(c, h, s[Len(s)])

GivenInv ==
  /\ held \in [PackageNames -> [input : STRING \cup {Nothing}, reset : BOOLEAN]]
  /\ GivenIs(config, stack, held)

LEMMA ConfigFacts ==
  ASSUME config \in Configs
  PROVE  /\ config \in Seq(PackageType) /\ Len(config) \in Nat \ {0}
         /\ DOMAIN config = 1..Len(config) /\ 1 \in DOMAIN config /\ config[1].name = Main
         /\ \A k, l \in DOMAIN config : config[k].name = config[l].name => k = l
         /\ \A k \in DOMAIN config : config[k] \in PackageType
<1>1. config \in Seq(PackageType) /\ Len(config) > 0 /\ config[1].name = Main
      /\ \A k, l \in DOMAIN config : config[k].name = config[l].name => k = l
  BY ConfigsAssumption
<1>2. DOMAIN config = 1..Len(config) /\ Len(config) \in Nat
  BY <1>1, LenProperties
<1>3. \A k \in DOMAIN config : config[k] \in PackageType
  BY <1>1, <1>2, ElementOfSeq
<1> HIDE DEF PackageType
<1> QED BY <1>1, <1>2, <1>3

LEMMA NameOf ==
  ASSUME config \in Configs
  PROVE  /\ \A k \in DOMAIN config : /\ config[k].name \in PackageNames
                                     /\ PackageOf(config[k].name) = config[k]
         /\ \A p \in PackageNames : \E k \in DOMAIN config : config[k].name = p
         /\ Main \in PackageNames /\ PackageOf(Main) = config[1]
<1>1. ASSUME NEW k \in DOMAIN config
      PROVE  config[k].name \in PackageNames /\ PackageOf(config[k].name) = config[k]
  <2> DEFINE all == {config[l] : l \in DOMAIN config}
  <2>1. config[k] \in all /\ \A pkg \in all : pkg.name = config[k].name => pkg = config[k]
    BY <1>1, ConfigFacts
  <2>2. (CHOOSE pkg \in all : pkg.name = config[k].name) = config[k]
    BY <2>1
  <2> QED BY <1>1, <2>2 DEF PackageOf, PackageNames, NamesIn
<1>2. \A p \in PackageNames : \E k \in DOMAIN config : config[k].name = p
  BY DEF PackageNames, NamesIn
<1> QED BY <1>1, <1>2, ConfigFacts

LEMMA DepthFalls ==
  ASSUME config \in Configs
  PROVE  /\ \A p \in PackageNames : Depth(config)[p] \in Nat
         /\ \A p \in PackageNames : \A q \in UsedIn(config, PackageOf(p)) :
              Depth(config)[q] < Depth(config)[p]
<1> DEFINE depth == Depth(config)
<1>1. \E d \in [NamesIn(config) -> 0..Len(config)] : IsDepth(config, d)
  BY ConfigsAssumption DEF IsDepth
<1>2. depth \in [NamesIn(config) -> 0..Len(config)] /\ IsDepth(config, depth)
  BY <1>1 DEF Depth
<1> HIDE DEF depth
<1>3. \A p \in PackageNames : depth[p] \in Nat
  BY <1>2, ConfigFacts DEF PackageNames
<1>4. ASSUME NEW p \in PackageNames, NEW q \in UsedIn(config, PackageOf(p))
      PROVE  depth[q] < depth[p]
  <2>1. PICK k \in DOMAIN config : config[k].name = p
    BY NameOf
  <2>2. PackageOf(p) = config[k]
    BY <2>1, NameOf
  <2> QED BY <1>2, <1>4, <2>1, <2>2 DEF IsDepth
<1> QED BY <1>3, <1>4 DEF depth

(* The inputs of a package, with the block each belongs to.                *)
LEMMA InputFacts ==
  ASSUME config \in Configs, NEW pkg \in PackageType
  PROVE  /\ DOMAIN pkg.blocks = 1..Len(pkg.blocks) /\ Len(pkg.blocks) \in Nat
         /\ \A i \in DOMAIN pkg.blocks :
              /\ pkg.blocks[i] \in BlockType
              /\ DOMAIN pkg.blocks[i].inputs = 1..Len(pkg.blocks[i].inputs)
              /\ Len(pkg.blocks[i].inputs) \in Nat
              /\ \A j \in DOMAIN pkg.blocks[i].inputs :
                   /\ pkg.blocks[i].inputs[j] \in InputType
                   /\ <<pkg.blocks[i].name, pkg.blocks[i].inputs[j]>> \in Inputs(pkg)
         /\ \A bi \in Inputs(pkg) : \E i \in DOMAIN pkg.blocks :
              \E j \in DOMAIN pkg.blocks[i].inputs :
                bi = <<pkg.blocks[i].name, pkg.blocks[i].inputs[j]>>
<1>1. pkg.blocks \in Seq(BlockType)
  BY DEF PackageType
<1>2. DOMAIN pkg.blocks = 1..Len(pkg.blocks) /\ Len(pkg.blocks) \in Nat
      /\ \A i \in DOMAIN pkg.blocks : pkg.blocks[i] \in BlockType
  BY <1>1, LenProperties, ElementOfSeq
<1>3. ASSUME NEW i \in DOMAIN pkg.blocks
      PROVE  /\ DOMAIN pkg.blocks[i].inputs = 1..Len(pkg.blocks[i].inputs)
             /\ Len(pkg.blocks[i].inputs) \in Nat
             /\ \A j \in DOMAIN pkg.blocks[i].inputs : pkg.blocks[i].inputs[j] \in InputType
  <2>1. pkg.blocks[i].inputs \in Seq(InputType)
    BY <1>2, <1>3 DEF BlockType
  <2> QED BY <2>1, LenProperties, ElementOfSeq
<1>4. ASSUME NEW i \in DOMAIN pkg.blocks, NEW j \in DOMAIN pkg.blocks[i].inputs
      PROVE  <<pkg.blocks[i].name, pkg.blocks[i].inputs[j]>> \in Inputs(pkg)
  BY <1>4 DEF Inputs
<1>5. ASSUME NEW bi \in Inputs(pkg)
      PROVE  \E i \in DOMAIN pkg.blocks : \E j \in DOMAIN pkg.blocks[i].inputs :
               bi = <<pkg.blocks[i].name, pkg.blocks[i].inputs[j]>>
  BY <1>5 DEF Inputs
<1> QED BY <1>2, <1>3, <1>4, <1>5

LEMMA InputIs ==
  ASSUME config \in Configs, NEW pkg \in PackageType, NEW bi \in Inputs(pkg)
  PROVE  bi = <<bi[1], bi[2]>> /\ bi[2] \in InputType /\ bi[1] \in BlocksOf(pkg)
<1>1. PICK i \in DOMAIN pkg.blocks :
        \E j \in DOMAIN pkg.blocks[i].inputs :
          bi = <<pkg.blocks[i].name, pkg.blocks[i].inputs[j]>>
  BY InputFacts
<1>2. PICK j \in DOMAIN pkg.blocks[i].inputs :
        bi = <<pkg.blocks[i].name, pkg.blocks[i].inputs[j]>>
  BY <1>1
<1>3. pkg.blocks[i].inputs[j] \in InputType
  BY InputFacts
<1> QED BY <1>2, <1>3 DEF BlocksOf

(* The names that an input mentions: its own, and that of its input.       *)
MentionedBy(x, n) ==
  \/ x.kind \in {"group", "package"} /\ n = x.name
  \/ x.kind = "package" /\ x.from # Nothing /\ n = x.from

LEMMA MentionsAre ==
  ASSUME NEW i, NEW j, NEW x \in InputType
  PROVE  /\ \A n : MentionedBy(x, n) => \E m \in MentionsOf(i, j, x) : m[1] = n
         /\ \A m \in MentionsOf(i, j, x) : MentionedBy(x, m[1])
<1> DEFINE one == <<x.name, <<i, j, 1>>>>
           two == <<x.from, <<i, j, 2>>>>
<1>1. one[1] = x.name /\ two[1] = x.from
  OBVIOUS
<1>2. /\ x.kind = "package" =>
           MentionsOf(i, j, x) = {one} \cup (IF x.from = Nothing THEN {} ELSE {two})
      /\ x.kind = "group" => MentionsOf(i, j, x) = {one}
      /\ x.kind \notin {"group", "package"} => MentionsOf(i, j, x) = {}
  BY DEF MentionsOf
<1> HIDE DEF one, two
<1>3. /\ x.kind \in {"group", "package"} => one \in MentionsOf(i, j, x)
      /\ x.kind = "package" /\ x.from # Nothing => two \in MentionsOf(i, j, x)
      /\ \A m \in MentionsOf(i, j, x) :
           \/ x.kind \in {"group", "package"} /\ m = one
           \/ x.kind = "package" /\ x.from # Nothing /\ m = two
  BY <1>2
<1>4. \A n : MentionedBy(x, n) => \E m \in MentionsOf(i, j, x) : m[1] = n
  BY <1>1, <1>3 DEF MentionedBy
<1>5. \A m \in MentionsOf(i, j, x) : MentionedBy(x, m[1])
  BY <1>1, <1>3 DEF MentionedBy
<1> QED BY <1>4, <1>5

(* The nodes of a package's own graph are its blocks and what its inputs   *)
(* mention.                                                                *)
LEMMA NamedAre ==
  ASSUME config \in Configs, NEW pkg \in PackageType
  PROVE  /\ BlocksOf(pkg) \subseteq Named(pkg)
         /\ \A bi \in Inputs(pkg) : \A n : MentionedBy(bi[2], n) => n \in Named(pkg)
         /\ \A n \in Named(pkg) :
              n \in BlocksOf(pkg) \/ \E bi \in Inputs(pkg) : MentionedBy(bi[2], n)
<1> DEFINE blocks == pkg.blocks
           Of(i) == UNION {MentionsOf(i, j, blocks[i].inputs[j]) : j \in DOMAIN blocks[i].inputs}
           first == {<<blocks[i].name, <<0, i, 0>>>> : i \in DOMAIN blocks}
<1>1. Mentions(pkg) = first \cup UNION {Of(i) : i \in DOMAIN blocks}
  BY DEF Mentions
<1>2. BlocksOf(pkg) = {m[1] : m \in first}
  <2>1. ASSUME NEW i \in DOMAIN blocks PROVE blocks[i].name \in {m[1] : m \in first}
    <3>1. <<blocks[i].name, <<0, i, 0>>>> \in first
      OBVIOUS
    <3>2. <<blocks[i].name, <<0, i, 0>>>>[1] = blocks[i].name
      OBVIOUS
    <3> QED BY <3>1, <3>2
  <2>2. ASSUME NEW m \in first PROVE m[1] \in BlocksOf(pkg)
    BY <2>2 DEF BlocksOf
  <2> QED BY <2>1, <2>2 DEF BlocksOf
<1>3. ASSUME NEW i \in DOMAIN blocks, NEW j \in DOMAIN blocks[i].inputs,
             NEW m \in MentionsOf(i, j, blocks[i].inputs[j])
      PROVE  m \in Mentions(pkg)
  <2>1. m \in Of(i)
    BY <1>3
  <2> HIDE DEF Of, first
  <2> QED BY <1>1, <2>1
<1>4. ASSUME NEW bi \in Inputs(pkg), NEW n, MentionedBy(bi[2], n)
      PROVE  n \in Named(pkg)
  <2>1. PICK i \in DOMAIN blocks : \E j \in DOMAIN blocks[i].inputs :
          bi = <<blocks[i].name, blocks[i].inputs[j]>>
    BY InputFacts
  <2>2. PICK j \in DOMAIN blocks[i].inputs : bi = <<blocks[i].name, blocks[i].inputs[j]>>
    BY <2>1
  <2>3. bi[2] = blocks[i].inputs[j] /\ blocks[i].inputs[j] \in InputType
    BY <2>2, InputFacts
  <2>4. PICK m \in MentionsOf(i, j, blocks[i].inputs[j]) : m[1] = n
    BY <1>4, <2>3, MentionsAre
  <2>5. m \in Mentions(pkg)
    BY <1>3, <2>4
  <2> QED BY <2>4, <2>5 DEF Named
<1>5. ASSUME NEW n \in Named(pkg), n \notin BlocksOf(pkg)
      PROVE  \E bi \in Inputs(pkg) : MentionedBy(bi[2], n)
  <2>1. PICK m \in Mentions(pkg) : m[1] = n
    BY <1>5 DEF Named
  <2>2. m \notin first
    BY <1>2, <1>5, <2>1
  <2> HIDE DEF first
  <2>3. PICK i \in DOMAIN blocks : m \in Of(i)
    BY <1>1, <2>2
  <2>4. PICK j \in DOMAIN blocks[i].inputs : m \in MentionsOf(i, j, blocks[i].inputs[j])
    BY <2>3
  <2> DEFINE x == blocks[i].inputs[j]
             bi == <<blocks[i].name, x>>
  <2>5. bi \in Inputs(pkg) /\ bi[2] = x /\ x \in InputType
    BY <2>3, <2>4, InputFacts
  <2>6. MentionedBy(x, m[1])
    BY <2>4, <2>5, MentionsAre
  <2> HIDE DEF x, bi
  <2> QED BY <2>1, <2>5, <2>6
<1>6. BlocksOf(pkg) \subseteq Named(pkg)
  <2> HIDE DEF first
  <2> QED BY <1>1, <1>2 DEF Named
<1> QED BY <1>4, <1>5, <1>6

(* A package takes finitely many names.                                    *)
LEMMA InputsFinite ==
  ASSUME config \in Configs, NEW pkg \in PackageType
  PROVE  IsFiniteSet(Named(pkg))
<1> DEFINE Of(i) == {<<pkg.blocks[i].name, pkg.blocks[i].inputs[j]>> :
                       j \in DOMAIN pkg.blocks[i].inputs}
           D == DOMAIN pkg.blocks
<1>1. IsFiniteSet(D)
  BY InputFacts, FS_Interval
<1>2. ASSUME NEW i \in D PROVE IsFiniteSet(Of(i))
  <2> DEFINE J == DOMAIN pkg.blocks[i].inputs
             f == [j \in J |-> <<pkg.blocks[i].name, pkg.blocks[i].inputs[j]>>]
  <2>1. IsFiniteSet(J)
    <3>1. J = 1..Len(pkg.blocks[i].inputs) /\ Len(pkg.blocks[i].inputs) \in Nat
      BY <1>2, InputFacts
    <3> HIDE DEF J
    <3> QED BY <3>1, FS_Interval
  <2>2. f \in Surjection(J, Of(i))
    BY DEF Surjection
  <2> HIDE DEF f, J
  <2> QED BY <2>1, <2>2, FS_Surjection
<1>3. IsFiniteSet({Of(i) : i \in D}) /\ IsFiniteSet(BlocksOf(pkg))
  <2> DEFINE f == [i \in D |-> Of(i)]
             h == [i \in D |-> pkg.blocks[i].name]
             S == {Of(i) : i \in D}
  <2> HIDE DEF Of
  <2>1. f \in Surjection(D, S)
    BY DEF Surjection
  <2>2. h \in Surjection(D, BlocksOf(pkg))
    BY DEF Surjection, BlocksOf
  <2> HIDE DEF f, h, D, S
  <2>3. IsFiniteSet(S) /\ IsFiniteSet(BlocksOf(pkg))
    BY <1>1, <2>1, <2>2, FS_Surjection
  <2> QED BY <2>3 DEF S
<1>4. IsFiniteSet(UNION {Of(i) : i \in D})
  <2> HIDE DEF Of, D
  <2>1. \A T \in {Of(i) : i \in D} : IsFiniteSet(T)
    BY <1>2
  <2> QED BY <1>3, <2>1, FS_UNION
<1>5. Inputs(pkg) \subseteq UNION {Of(i) : i \in D}
  <2>1. ASSUME NEW bi \in Inputs(pkg) PROVE \E i \in D : bi \in Of(i)
    BY <2>1, InputFacts
  <2> HIDE DEF Of, D
  <2> QED BY <2>1
<1>6. IsFiniteSet(Inputs(pkg))
  BY <1>4, <1>5, FS_Subset
<1> DEFINE names == {bi[2].name : bi \in Inputs(pkg)}
           froms == {bi[2].from : bi \in Inputs(pkg)}
<1>7. IsFiniteSet(names) /\ IsFiniteSet(froms)
  <2> DEFINE f == [bi \in Inputs(pkg) |-> bi[2].name]
             h == [bi \in Inputs(pkg) |-> bi[2].from]
  <2>1. f \in Surjection(Inputs(pkg), names)
    BY DEF Surjection
  <2>2. h \in Surjection(Inputs(pkg), froms)
    BY DEF Surjection
  <2> HIDE DEF f, h, names, froms
  <2> QED BY <1>6, <2>1, <2>2, FS_Surjection
<1>8. Named(pkg) \subseteq (BlocksOf(pkg) \cup names) \cup froms
  <2>1. ASSUME NEW n \in Named(pkg), n \notin BlocksOf(pkg) PROVE n \in names \cup froms
    BY <2>1, NamedAre DEF MentionedBy
  <2> HIDE DEF names, froms
  <2> QED BY <2>1
<1>9. IsFiniteSet((BlocksOf(pkg) \cup names) \cup froms)
  BY <1>3, <1>7, FS_Union
<1> QED BY <1>8, <1>9, FS_Subset

(* The edges of a package's own graph join its nodes.                      *)
LEMMA OwnGraph ==
  ASSUME config \in Configs, NEW pkg \in PackageType
  PROVE  /\ OwnBlocks(pkg) \subseteq Named(pkg) /\ BlocksOf(pkg) \subseteq OwnBlocks(pkg)
         /\ NodesOf(GraphOf(pkg)) = Named(pkg) /\ GraphOf(pkg).edges = EdgesOf(pkg)
         /\ GraphOf(pkg) = [nodes |-> GraphOf(pkg).nodes, edges |-> GraphOf(pkg).edges]
         /\ IsGraph(GraphOf(pkg))
<1>1. OwnBlocks(pkg) \subseteq Named(pkg) /\ BlocksOf(pkg) \subseteq OwnBlocks(pkg)
  <2>1. ASSUME NEW bi \in Inputs(pkg), bi[2].kind = "group" PROVE bi[2].name \in Named(pkg)
    <3>1. MentionedBy(bi[2], bi[2].name)
      BY <2>1 DEF MentionedBy
    <3> QED BY <3>1, NamedAre
  <2>2. BlocksOf(pkg) \subseteq Named(pkg)
    BY NamedAre
  <2> QED BY <2>1, <2>2 DEF OwnBlocks
<1>2. NodesOf(GraphOf(pkg)) = Named(pkg) /\ GraphOf(pkg).edges = EdgesOf(pkg)
      /\ GraphOf(pkg) = [nodes |-> GraphOf(pkg).nodes, edges |-> GraphOf(pkg).edges]
  BY DEF NodesOf, GraphOf, Named
<1>3. ASSUME NEW bi \in Inputs(pkg), bi[2].kind # "own", ~IsOutside(pkg, bi[2])
      PROVE  bi[2].name \in Named(pkg) /\ bi[1] \in Named(pkg)
  <2>1. bi[2] \in InputType /\ bi[1] \in BlocksOf(pkg)
    BY InputIs
  <2>2. CASE bi[2].kind = "block"
    BY <1>1, <1>3, <2>1, <2>2 DEF IsOutside
  <2>3. CASE bi[2].kind \in {"group", "package"}
    <3>1. MentionedBy(bi[2], bi[2].name)
      BY <2>3 DEF MentionedBy
    <3> QED BY <1>1, <2>1, <3>1, NamedAre
  <2> QED BY <1>3, <2>1, <2>2, <2>3 DEF InputType
<1>4. ASSUME NEW bi \in Inputs(pkg), bi[2].kind = "package", bi[2].from # Nothing
      PROVE  bi[2].from \in Named(pkg) /\ bi[2].name \in Named(pkg)
  <2>1. MentionedBy(bi[2], bi[2].name) /\ MentionedBy(bi[2], bi[2].from)
    BY <1>4 DEF MentionedBy
  <2> QED BY <2>1, NamedAre
<1>5. EdgesOf(pkg) \subseteq Named(pkg) \X Named(pkg)
  <2>1. SUFFICES ASSUME NEW e \in EdgesOf(pkg) PROVE e \in Named(pkg) \X Named(pkg)
    OBVIOUS
  <2>2. CASE \E bi \in Inputs(pkg) : /\ bi[2].kind # "own" /\ ~IsOutside(pkg, bi[2])
                                     /\ e = <<bi[2].name, bi[1]>>
    BY <1>3, <2>2
  <2>3. CASE \E bi \in Inputs(pkg) : /\ bi[2].kind = "package" /\ bi[2].from # Nothing
                                     /\ e = <<bi[2].from, bi[2].name>>
    <3>1. PICK bi \in Inputs(pkg) : /\ bi[2].kind = "package" /\ bi[2].from # Nothing
                                   /\ e = <<bi[2].from, bi[2].name>>
      BY <2>3
    <3>2. bi[2].from \in Named(pkg) /\ bi[2].name \in Named(pkg)
      BY <1>4, <3>1
    <3> QED BY <3>1, <3>2
  <2> QED BY <2>1, <2>2, <2>3 DEF EdgesOf
<1> QED BY <1>1, <1>2, <1>5, InputsFinite DEF IsGraph

(* The edges that a use stands for.                                        *)
LEMMA EdgesAre ==
  ASSUME config \in Configs, NEW pkg \in PackageType, NEW bi \in Inputs(pkg)
  PROVE  /\ bi[2].kind # "own" /\ ~IsOutside(pkg, bi[2]) =>
              <<bi[2].name, bi[1]>> \in EdgesOf(pkg)
         /\ bi[2].kind = "package" => <<bi[2].name, bi[1]>> \in EdgesOf(pkg)
         /\ bi[2].kind = "package" /\ bi[2].from # Nothing =>
              <<bi[2].from, bi[2].name>> \in EdgesOf(pkg)
<1>1. bi[2].kind # "own" /\ ~IsOutside(pkg, bi[2]) => <<bi[2].name, bi[1]>> \in EdgesOf(pkg)
  BY DEF EdgesOf
<1>2. bi[2].kind = "package" => ~IsOutside(pkg, bi[2])
  BY DEF IsOutside
<1>3. bi[2].kind = "package" /\ bi[2].from # Nothing => <<bi[2].from, bi[2].name>> \in EdgesOf(pkg)
  BY DEF EdgesOf
<1> QED BY <1>1, <1>2, <1>3

(* A graph with a node more and edges that lead to it.                     *)
EdgesTo(n, from) == {<<a, n>> : a \in from}
Grown(g, n, place, from) == [AddNode(g, n, place) EXCEPT !.edges = @ \cup EdgesTo(n, from)]

LEMMA GraphGrows ==
  ASSUME NEW g, IsGraph(g), g = [nodes |-> g.nodes, edges |-> g.edges],
         NEW n, NEW place, NEW from \in SUBSET NodesOf(g)
  PROVE  /\ IsGraph(Grown(g, n, place, from))
         /\ Grown(g, n, place, from) = [nodes |-> Grown(g, n, place, from).nodes,
                                       edges |-> Grown(g, n, place, from).edges]
         /\ NodesOf(Grown(g, n, place, from)) = NodesOf(g) \cup {n}
         /\ Grown(g, n, place, from).edges = g.edges \cup EdgesTo(n, from)
<1> DEFINE added == AddNode(g, n, place)
           new == Grown(g, n, place, from)
<1>1. /\ added = [nodes |-> added.nodes, edges |-> g.edges]
      /\ DOMAIN added.nodes = NodesOf(g) \cup {n}
  <2>1. CASE n \in NodesOf(g)
    BY <2>1 DEF AddNode, NodesOf
  <2>2. CASE n \notin NodesOf(g)
    <3> DEFINE f == [m \in NodesOf(g) \cup {n} |-> IF m = n THEN place ELSE g.nodes[m]]
    <3>1. added = [g EXCEPT !.nodes = f]
      BY <2>2 DEF AddNode
    <3>2. DOMAIN f = NodesOf(g) \cup {n}
      OBVIOUS
    <3> HIDE DEF f, added
    <3> QED BY <3>1, <3>2
  <2> QED BY <2>1, <2>2
<1>2. new = [added EXCEPT !.edges = @ \cup EdgesTo(n, from)]
  BY DEF Grown
<1> HIDE DEF added, new
<1>3. new = [nodes |-> added.nodes, edges |-> g.edges \cup EdgesTo(n, from)]
  BY <1>1, <1>2
<1>4. /\ new = [nodes |-> new.nodes, edges |-> new.edges]
      /\ NodesOf(new) = NodesOf(g) \cup {n}
      /\ new.edges = g.edges \cup EdgesTo(n, from)
  BY <1>1, <1>3 DEF NodesOf
<1>5. IsFiniteSet(NodesOf(g) \cup {n})
  BY FS_AddElement DEF IsGraph
<1>6. EdgesTo(n, from) \subseteq NodesOf(new) \X NodesOf(new)
  BY <1>4 DEF EdgesTo
<1>7. IsGraph(new)
  BY <1>4, <1>5, <1>6 DEF IsGraph
<1> QED BY <1>4, <1>7 DEF new

LEMMA EntryOfNew ==
  ASSUME config \in Configs, NEW pkg \in PackageType, NEW edges,
         Acyclic(GraphOf(pkg)), pkg.name = Main => Taken(pkg) = {},
         \A x \in Taken(pkg) : x.name \in OwnBlocks(config[1]) /\ <<x.name, pkg.name>> \in edges
  PROVE  EntryFits(config, pkg,
           [graph |-> GraphOf(pkg),
            outs |-> IF pkg.outs = {} THEN Leaves(GraphOf(pkg)) ELSE pkg.outs], edges)
<1> DEFINE entry == [graph |-> GraphOf(pkg),
                     outs |-> IF pkg.outs = {} THEN Leaves(GraphOf(pkg)) ELSE pkg.outs]
<1>1. entry.graph = GraphOf(pkg)
  OBVIOUS
<1>2. entry = [graph |-> entry.graph,
               outs |-> IF pkg.outs = {} THEN Leaves(GraphOf(pkg)) ELSE pkg.outs]
  OBVIOUS
<1> HIDE DEF entry
<1>3. EntryFits(config, pkg, entry, edges)
  BY <1>1, <1>2, OwnGraph DEF EntryFits
<1> QED BY <1>3 DEF entry

(* The entry of the backbone after a package has taken blocks of it.       *)
LEMMA EntryOfMain ==
  ASSUME config \in Configs, NEW pkg \in PackageType, NEW entry, NEW edges, NEW graph,
         EntryFits(config, pkg, entry, edges), Taken(pkg) = {},
         IsGraph(graph), graph = [nodes |-> graph.nodes, edges |-> graph.edges], Acyclic(graph),
         NEW n \in PackageNames, NodesOf(graph) = NodesOf(entry.graph) \cup {n},
         entry.graph.edges \subseteq graph.edges
  PROVE  EntryFits(config, pkg, [entry EXCEPT !.graph = graph], graph.edges)
<1> DEFINE new == [entry EXCEPT !.graph = graph]
           outs == IF pkg.outs = {} THEN Leaves(GraphOf(pkg)) ELSE pkg.outs
<1>1. entry = [graph |-> entry.graph, outs |-> outs]
  BY DEF EntryFits
<1> HIDE DEF outs
<1>2. new.graph = graph /\ new = [graph |-> graph, outs |-> outs]
  BY <1>1
<1> HIDE DEF new
<1>3. EntryFits(config, pkg, new, graph.edges)
  BY <1>2 DEF EntryFits, outs, PackageNames
<1> QED BY <1>3 DEF new

LEMMA BuildStep ==
  ASSUME BuildInv, Build
  PROVE  BuildInv'
<1> DEFINE pkg == config[building]
           graph == GraphOf(pkg)
           entry == [graph |-> graph, outs |-> IF pkg.outs = {} THEN Leaves(graph) ELSE pkg.outs]
           with == [p \in DOMAIN built \cup {pkg.name} |->
                      CASE p = pkg.name -> entry
                        [] p = Main /\ p # pkg.name /\ Taken(pkg) # {} ->
                             [built[p] EXCEPT !.graph = MainGraphWith(pkg)]
                        [] OTHER -> built[p]]
           fits == /\ \A x \in Taken(pkg) : OfBackbone(x)
                   /\ Acyclic(graph)
                   /\ Taken(pkg) # {} => Acyclic(MainGraphWith(pkg))
<1>1. config \in Configs /\ building \in 1..Len(config) /\ stack = <<>>
      /\ config' = config /\ stack' = stack /\ building \in DOMAIN config
  BY ConfigFacts DEF BuildInv, Build
<1>2. \/ fits /\ built' = with /\ building' = building + 1
      \/ UNCHANGED <<built, building>>
  BY DEF Build
<1>3. CASE UNCHANGED <<built, building>>
  BY <1>1, <1>3 DEF BuildInv, EntryFits
<1>4. CASE fits /\ built' = with /\ building' = building + 1
  <2>1. pkg \in PackageType /\ pkg.name \in PackageNames /\ 1 \in DOMAIN config
    BY <1>1, ConfigFacts, NameOf
  <2>2. ASSUME NEW k \in 1..(building - 1)
        PROVE  /\ k \in DOMAIN config /\ config[k].name # pkg.name
               /\ config[k].name \in DOMAIN built /\ config[k] \in PackageType
               /\ EntryFits(config, config[k], built[config[k].name], built[Main].graph.edges)
    <3>1. k \in DOMAIN config /\ k # building
      BY <1>1, <2>2, ConfigFacts
    <3> QED BY <1>1, <2>2, <3>1, ConfigFacts DEF BuildInv
  <2>3. DOMAIN with = {config[k].name : k \in 1..building}
    <3>1. 1..building = 1..(building - 1) \cup {building}
      BY <1>1
    <3>2. DOMAIN built = {config[k].name : k \in 1..(building - 1)}
      BY DEF BuildInv
    <3>3. DOMAIN with = DOMAIN built \cup {pkg.name}
      OBVIOUS
    <3> HIDE DEF with
    <3> QED BY <3>1, <3>2, <3>3
  <2>4. pkg.name = Main => building = 1
    BY <1>1, ConfigFacts
  <2>5. with[pkg.name] = entry
    OBVIOUS
  <2>6. CASE Taken(pkg) = {}
    <3>1. ASSUME NEW k \in 1..(building - 1)
          PROVE  with[config[k].name] = built[config[k].name]
      BY <2>2, <2>6
    <3>2. ASSUME NEW k \in 1..(building - 1)
          PROVE  with[Main].graph.edges = built[Main].graph.edges
      <4>1. 1 \in 1..(building - 1)
        BY <1>1, <3>2
      <4> QED BY <3>1, <4>1, <1>1, ConfigFacts
    <3> HIDE DEF with, entry
    <3>3. EntryFits(config, pkg, entry, with[Main].graph.edges)
      BY <1>1, <1>4, <2>1, <2>6, EntryOfNew DEF entry
    <3>4. \A k \in 1..building :
            EntryFits(config, config[k], with[config[k].name], with[Main].graph.edges)
      <4>1. ASSUME NEW k \in 1..building, k # building
            PROVE  EntryFits(config, config[k], with[config[k].name], with[Main].graph.edges)
        <5>1. k \in 1..(building - 1)
          BY <1>1, <4>1
        <5> QED BY <2>2, <3>1, <3>2, <5>1
      <4> QED BY <2>5, <3>3, <4>1
    <3> QED BY <1>1, <1>4, <2>3, <3>4 DEF BuildInv
  <2>7. CASE Taken(pkg) # {}
    <3>1. Main \in DOMAIN built
      BY <1>4, <2>7 DEF OfBackbone
    <3>2. building # 1 /\ 1 \in 1..(building - 1) /\ pkg.name # Main
      <4>1. building = 1 => DOMAIN built = {}
        BY DEF BuildInv
      <4>2. building # 1
        BY <3>1, <4>1
      <4> QED BY <1>1, <2>2, <4>2, ConfigFacts
    <3> DEFINE from == {x.name : x \in Taken(pkg)}
               main == built[Main]
               grown == MainGraphWith(pkg)
    <3>3. EntryFits(config, config[1], main, main.graph.edges) /\ config[1].name = Main
          /\ config[1] \in PackageType
      BY <1>1, <2>2, <3>2, ConfigFacts
    <3>4. \A x \in Taken(pkg) : x.name \in OwnBlocks(config[1])
      BY <1>1, <1>4, NameOf DEF OfBackbone
    <3>5. from \in SUBSET NodesOf(main.graph)
      BY <1>1, <3>3, <3>4, OwnGraph DEF EntryFits
    <3>6. IsGraph(main.graph) /\ main.graph = [nodes |-> main.graph.nodes, edges |-> main.graph.edges]
      BY <3>3 DEF EntryFits
    <3> DEFINE place == <<Len(config[1].blocks) + building, 0, 0>>
    <3>7. grown = Grown(main.graph, pkg.name, place, from)
      <4>1. EdgesTo(pkg.name, from) = {<<x.name, pkg.name>> : x \in Taken(pkg)}
        BY DEF EdgesTo
      <4> HIDE DEF from
      <4> QED BY <4>1 DEF MainGraphWith, AddedNow, Grown
    <3>8. /\ IsGraph(grown) /\ grown = [nodes |-> grown.nodes, edges |-> grown.edges]
          /\ NodesOf(grown) = NodesOf(main.graph) \cup {pkg.name}
          /\ grown.edges = main.graph.edges \cup EdgesTo(pkg.name, from)
      <4> HIDE DEF from, grown, main, pkg, place
      <4> QED BY <3>5, <3>6, <3>7, GraphGrows
    <3>9. EntryFits(config, config[1], [main EXCEPT !.graph = grown], grown.edges)
      <4>1. Acyclic(grown) /\ Taken(config[1]) = {}
        BY <1>4, <2>7, <3>3 DEF EntryFits
      <4> HIDE DEF from, grown, main, pkg, with, entry
      <4> QED BY <1>1, <2>1, <3>3, <3>8, <4>1, EntryOfMain
    <3>10. with[Main] = [main EXCEPT !.graph = grown]
      BY <2>7, <3>1, <3>2
    <3>11. with[Main].graph.edges = grown.edges
      <4>1. main = [graph |-> main.graph, outs |-> main.outs]
        BY <3>3 DEF EntryFits
      <4> HIDE DEF main, grown, with
      <4> QED BY <3>10, <4>1
    <3>12. ASSUME NEW k \in 1..(building - 1), config[k].name # Main
           PROVE  with[config[k].name] = built[config[k].name]
      BY <2>2, <3>12
    <3>13. EntryFits(config, pkg, entry, with[Main].graph.edges)
      <4>1. \A x \in Taken(pkg) : <<x.name, pkg.name>> \in grown.edges
        BY <3>8 DEF EdgesTo
      <4> HIDE DEF with, grown
      <4> QED BY <1>1, <1>4, <2>1, <3>2, <3>4, <3>11, <4>1, EntryOfNew
    <3> HIDE DEF with, entry, grown, main, pkg
    <3>14. \A k \in 1..building :
             EntryFits(config, config[k], with[config[k].name], with[Main].graph.edges)
      <4>1. CASE building = 1
        BY <3>2, <4>1
      <4>2. ASSUME NEW k \in 1..building, k # building
            PROVE  EntryFits(config, config[k], with[config[k].name], with[Main].graph.edges)
        <5>1. k \in 1..(building - 1)
          BY <1>1, <4>2
        <5>2. CASE config[k].name = Main
          <6>1. k = 1
            BY <1>1, <2>2, <5>1, <5>2, ConfigFacts
          <6> QED BY <3>3, <3>9, <3>10, <3>11, <6>1
        <5>3. CASE config[k].name # Main
          <6>1. main.graph.edges \subseteq with[Main].graph.edges
            BY <3>8, <3>11
          <6>2. EntryFits(config, config[k], built[config[k].name], main.graph.edges)
            BY <2>2, <5>1 DEF main
          <6> QED BY <3>12, <5>1, <5>3, <6>1, <6>2 DEF EntryFits
        <5> QED BY <5>2, <5>3
      <4> QED BY <2>5, <3>13, <4>2 DEF pkg
    <3> QED BY <1>1, <1>4, <2>3, <3>14 DEF BuildInv
  <2> QED BY <2>6, <2>7
<1> QED BY <1>2, <1>3, <1>4

(* The table is filled while the packages are built, and stays.            *)
LEMMA BuildInvStep ==
  ASSUME BuildInv, [BackboneNext]_vars
  PROVE  BuildInv'
<1>1. CASE Build
  BY <1>1, BuildStep
<1>2. CASE StartCall
  <2>1. /\ building = Len(config) + 1 /\ status' # "building" /\ UNCHANGED <<config, built, building>>
    BY <1>2, ConfigFacts DEF StartCall, BuildInv
  <2> QED BY <2>1 DEF BuildInv
<1>3. CASE UNCHANGED vars
  BY <1>3 DEF vars, BuildInv
<1>4. ASSUME \/ SortNode \/ Sorted \/ PassPackage \/ Produce
             \/ ReadOutput \/ ReadPackageInput \/ ResetInput \/ GivePackageInput
             \/ CallInnerPackage \/ CallPackage \/ NoOutput \/ Return \/ Done
      PROVE  Calling /\ UNCHANGED <<config, built, building>> /\ status' # "building"
  <2>1. CASE SortNode \/ Sorted \/ PassPackage \/ Produce
    BY <2>1 DEF SortNode, Sorted, PassPackage, Produce, AtNode, AtInputLayer, IsBlock, Calling, Fails
  <2>2. CASE ReadOutput \/ ReadPackageInput \/ ResetInput
    BY <2>2 DEF ReadOutput, ReadPackageInput, ResetInput, AtInput, IsBlock, AtNode, Calling, Fails
  <2>3. CASE GivePackageInput \/ CallInnerPackage \/ CallPackage
    BY <2>3 DEF GivePackageInput, CallInnerPackage, CallPackage, AtGiving, AtInput, IsBlock, AtNode,
                Calling
  <2>4. CASE NoOutput \/ Return \/ Done
    BY <2>4 DEF NoOutput, Return, Done, AtEnd, Calling, Fails
  <2> QED BY <1>4, <2>1, <2>2, <2>3, <2>4
<1>5. ASSUME Calling, UNCHANGED <<config, built, building>>, status' # "building"
      PROVE  BuildInv'
  BY <1>5 DEF BuildInv, Calling
<1> QED BY <1>1, <1>2, <1>3, <1>4, <1>5 DEF BackboneNext

(* The configuration, the packages built so far and their graphs fit in    *)
(* every reachable state, in whatever order packages name each other.      *)
THEOREM PackagesAreBuilt == BackboneSpec => []BuildInv
<1>1. BackboneInit => BuildInv
  <2> SUFFICES ASSUME BackboneInit PROVE BuildInv
    OBVIOUS
  <2>1. config \in Configs /\ built = <<>> /\ building = 1 /\ stack = <<>>
    BY DEF BackboneInit
  <2>2. building \in 1..(Len(config) + 1) /\ 1..(building - 1) = {} /\ DOMAIN built = {}
    BY <2>1, ConfigFacts
  <2> QED BY <2>1, <2>2 DEF BuildInv
<1> QED BY <1>1, BuildInvStep, PTL DEF BackboneSpec

---------------------------------------------------------------------------
(* A call on its own.                                                      *)

LEMMA BuiltFacts ==
  ASSUME BuildInv, building = Len(config) + 1
  PROVE  /\ config \in Configs /\ DOMAIN built = PackageNames
         /\ PackageOf(Main) = config[1] /\ Main \in PackageNames
         /\ \A p \in PackageNames :
              /\ PackageOf(p) \in PackageType /\ PackageOf(p).name = p
              /\ PackageIn(config, p) = PackageOf(p)
              /\ \E k \in DOMAIN config : PackageOf(p) = config[k]
              /\ EntryFits(config, PackageOf(p), built[p], built[Main].graph.edges)
<1>1. config \in Configs /\ 1..(building - 1) = DOMAIN config
  BY ConfigFacts DEF BuildInv
<1>2. DOMAIN built = PackageNames
  BY <1>1 DEF BuildInv, PackageNames, NamesIn
<1>3. ASSUME NEW p \in PackageNames
      PROVE  /\ PackageOf(p) \in PackageType /\ PackageOf(p).name = p
             /\ PackageIn(config, p) = PackageOf(p)
             /\ \E k \in DOMAIN config : PackageOf(p) = config[k]
             /\ EntryFits(config, PackageOf(p), built[p], built[Main].graph.edges)
  <2>1. PICK k \in DOMAIN config : config[k].name = p
    BY <1>1, NameOf
  <2>2. PackageOf(p) = config[k]
    BY <1>1, <2>1, NameOf
  <2>3. PackageIn(config, p) = PackageOf(p)
    BY DEF PackageIn, PackageOf
  <2>4. EntryFits(config, config[k], built[config[k].name], built[Main].graph.edges)
    BY <1>1 DEF BuildInv
  <2> QED BY <1>1, <2>1, <2>2, <2>3, <2>4, ConfigFacts
<1> QED BY <1>1, <1>2, <1>3, NameOf

(* The fields of a call, one by one.                                       *)
FieldsAre(f, p, u, s, l, so, o, a, w) ==
  /\ f.pkg = p /\ f.use = u /\ f.sort = s /\ f.left = l
  /\ f.sorted = so /\ f.outputs = o /\ f.at = a /\ f.waits = w
  /\ IsRecord(f)

LEMMA RecordFields ==
  ASSUME NEW p, NEW u, NEW s, NEW l, NEW so, NEW o, NEW a, NEW w
  PROVE  FieldsAre([pkg |-> p, use |-> u, sort |-> s, left |-> l,
                    sorted |-> so, outputs |-> o, at |-> a, waits |-> w], p, u, s, l, so, o, a, w)
BY DEF IsRecord, FieldsAre

LEMMA SortChanged ==
  ASSUME NEW f, IsRecord(f), NEW v
  PROVE  FieldsAre([f EXCEPT !.sort = v], f.pkg, f.use, v, f.left,
                   f.sorted, f.outputs, f.at, f.waits)
<1>1. [f EXCEPT !.sort = v] = [pkg |-> f.pkg, use |-> f.use, sort |-> v,
        left |-> f.left, sorted |-> f.sorted, outputs |-> f.outputs, at |-> f.at,
        waits |-> f.waits]
  BY DEF IsRecord
<1> QED BY <1>1, RecordFields

LEMMA LeftChanged ==
  ASSUME NEW f, IsRecord(f), NEW v
  PROVE  FieldsAre([f EXCEPT !.left = v], f.pkg, f.use, f.sort, v,
                   f.sorted, f.outputs, f.at, f.waits)
<1>1. [f EXCEPT !.left = v] = [pkg |-> f.pkg, use |-> f.use, sort |-> f.sort,
        left |-> v, sorted |-> f.sorted, outputs |-> f.outputs, at |-> f.at,
        waits |-> f.waits]
  BY DEF IsRecord
<1> QED BY <1>1, RecordFields

LEMMA SortedChanged ==
  ASSUME NEW f, IsRecord(f), NEW v
  PROVE  FieldsAre([f EXCEPT !.sorted = v], f.pkg, f.use, f.sort, f.left,
                   v, f.outputs, f.at, f.waits)
<1>1. [f EXCEPT !.sorted = v] = [pkg |-> f.pkg, use |-> f.use, sort |-> f.sort,
        left |-> f.left, sorted |-> v, outputs |-> f.outputs, at |-> f.at,
        waits |-> f.waits]
  BY DEF IsRecord
<1> QED BY <1>1, RecordFields

LEMMA OutputsChanged ==
  ASSUME NEW f, IsRecord(f), NEW v
  PROVE  FieldsAre([f EXCEPT !.outputs = v], f.pkg, f.use, f.sort, f.left,
                   f.sorted, v, f.at, f.waits)
<1>1. [f EXCEPT !.outputs = v] = [pkg |-> f.pkg, use |-> f.use, sort |-> f.sort,
        left |-> f.left, sorted |-> f.sorted, outputs |-> v, at |-> f.at,
        waits |-> f.waits]
  BY DEF IsRecord
<1> QED BY <1>1, RecordFields

LEMMA AtChanged ==
  ASSUME NEW f, IsRecord(f), NEW v
  PROVE  FieldsAre([f EXCEPT !.at = v], f.pkg, f.use, f.sort, f.left,
                   f.sorted, f.outputs, v, f.waits)
<1>1. [f EXCEPT !.at = v] = [pkg |-> f.pkg, use |-> f.use, sort |-> f.sort,
        left |-> f.left, sorted |-> f.sorted, outputs |-> f.outputs, at |-> v,
        waits |-> f.waits]
  BY DEF IsRecord
<1> QED BY <1>1, RecordFields

LEMMA WaitsChanged ==
  ASSUME NEW f, IsRecord(f), NEW v
  PROVE  FieldsAre([f EXCEPT !.waits = v], f.pkg, f.use, f.sort, f.left,
                   f.sorted, f.outputs, f.at, v)
<1>1. [f EXCEPT !.waits = v] = [pkg |-> f.pkg, use |-> f.use, sort |-> f.sort,
        left |-> f.left, sorted |-> f.sorted, outputs |-> f.outputs, at |-> f.at,
        waits |-> v]
  BY DEF IsRecord
<1> QED BY <1>1, RecordFields

(* A call begins with the first state of its sort.                         *)
Begun(c, b, f, p, use) ==
  FrameIs(c, b, f) /\ f.pkg = p /\ f.use = use /\ f.waits = "idle"

LEMMA NewCall ==
  ASSUME BuildInv, building = Len(config) + 1, NEW p \in PackageNames, NEW use,
         NEW f \in CallOf(p, use)
  PROVE  Begun(config, built, f, p, use)
<1>1. PICK s \in SortsOf(built[p].graph) :
        f = [pkg |-> p, use |-> use, sort |-> s, left |-> <<>>, sorted |-> FALSE,
             outputs |-> {}, at |-> 1, waits |-> "idle"]
  BY DEF CallOf
<1>2. /\ f.pkg = p /\ f.use = use /\ f.waits = "idle" /\ f.sorted = FALSE /\ f.sort = s
      /\ f.at = 1 /\ IsRecord(f)
  BY <1>1, RecordFields DEF FieldsAre
<1>3. SortInv(built[f.pkg].graph, f.sort) /\ f.pkg \in NamesIn(config) /\ f.at \in Nat \ {0}
  <2>1. IsGraph(built[p].graph)
    BY BuiltFacts DEF EntryFits
  <2>2. SortInv(built[p].graph, s)
    BY <2>1, SortInvInit
  <2>3. f.at \in Nat \ {0}
    <3>1. f.at = 1
      BY <1>2
    <3> QED BY <3>1
  <2>4. f.pkg \in NamesIn(config)
    BY <1>2 DEF PackageNames
  <2>5. SortInv(built[f.pkg].graph, f.sort)
    BY <1>2, <2>2
  <2> QED BY <2>3, <2>4, <2>5
<1>4. FrameIs(config, built, f)
  BY <1>2, <1>3 DEF FrameIs
<1> QED BY <1>2, <1>4 DEF Begun

(* The sort of a call goes on.                                             *)
LEMMA CallSorts ==
  ASSUME BuildInv, building = Len(config) + 1, NEW f, FrameIs(config, built, f),
         ~f.sorted, f.sort.ready # <<>>, NEW s \in Popped(built[f.pkg].graph, f.sort)
  PROVE  LET new == [f EXCEPT !.sort = s] IN
         FrameIs(config, built, new) /\ new.pkg = f.pkg /\ new.use = f.use /\ new.waits = f.waits
<1> DEFINE new == [f EXCEPT !.sort = s]
<1>1. /\ new.pkg = f.pkg /\ new.sorted = f.sorted /\ new.sort = s /\ new.at = f.at
      /\ new.use = f.use /\ new.waits = f.waits /\ IsRecord(new)
  <2>1. IsRecord(f)
    BY DEF FrameIs
  <2> QED BY <2>1, SortChanged DEF FieldsAre
<1>2. IsGraph(built[f.pkg].graph)
  BY BuiltFacts DEF EntryFits, FrameIs, PackageNames
<1>3. SortInv(built[f.pkg].graph, s)
  BY <1>2, SortInvStep DEF FrameIs
<1> HIDE DEF new
<1>4. FrameIs(config, built, new)
  BY <1>1, <1>3 DEF FrameIs
<1> QED BY <1>1, <1>4 DEF new

(* What a sort has ordered is finitely many nodes, each once.              *)
LEMMA ResultCounts ==
  ASSUME NEW g, IsGraph(g), NEW s, SortInv(g, s)
  PROVE  /\ s.result \in Seq(NodesOf(g)) /\ Len(s.result) = Cardinality(ToSetOf(s.result))
         /\ ToSetOf(s.result) \subseteq NodesOf(g)
         /\ Len(s.result) = Cardinality(NodesOf(g)) <=> ToSetOf(s.result) = NodesOf(g)
<1> DEFINE r == s.result
           n == Len(r)
           S == ToSetOf(r)
<1>1. r \in Seq(NodesOf(g)) /\ \A i, j \in DOMAIN r : r[i] = r[j] => i = j
  BY DEF SortInv, RespectsEdges
<1> HIDE DEF r
<1>2. n \in Nat /\ DOMAIN r = 1..n /\ \A i \in 1..n : r[i] \in NodesOf(g)
  BY <1>1, LenProperties, ElementOfSeq
<1>3. S \subseteq NodesOf(g)
  BY <1>2 DEF ToSetOf
<1> DEFINE h == [i \in 1..n |-> r[i]]
<1>4. h \in Bijection(1..n, S)
  <2>1. h \in [1..n -> S] /\ \A v \in S : \E i \in 1..n : h[i] = v
    BY <1>2 DEF ToSetOf
  <2>2. \A i, j \in 1..n : h[i] = h[j] => i = j
    BY <1>1, <1>2
  <2> HIDE DEF h, S, n
  <2> QED BY <2>1, <2>2 DEF Bijection, Injection, Surjection, IsInjective
<1>5. IsFiniteSet(1..n) /\ Cardinality(1..n) = n
  BY <1>2, FS_Interval
<1> HIDE DEF h, n
<1>6. n = Cardinality(S)
  BY <1>4, <1>5, FS_Bijection DEF ExistsBijection
<1>7. S # NodesOf(g) => Cardinality(S) # Cardinality(NodesOf(g))
  <2> HIDE DEF S
  <2>1. IsFiniteSet(NodesOf(g)) /\ IsFiniteSet(S)
    BY <1>3, FS_Subset DEF IsGraph
  <2> QED BY <1>3, <2>1, FS_Subset
<1> QED BY <1>1, <1>3, <1>6, <1>7 DEF r, n

LEMMA CallSorted ==
  ASSUME BuildInv, building = Len(config) + 1, NEW f, FrameIs(config, built, f),
         f.sort.ready = <<>>
  PROVE  /\ Len(f.sort.result) = Cardinality(NodesOf(built[f.pkg].graph))
         /\ LET new == [f EXCEPT !.sorted = TRUE, !.left = f.sort.result] IN
            FrameIs(config, built, new) /\ new.pkg = f.pkg /\ new.use = f.use /\ new.waits = f.waits
<1> DEFINE g == built[f.pkg].graph
           r == f.sort.result
           mid == [f EXCEPT !.sorted = TRUE]
           new == [mid EXCEPT !.left = r]
<1>1. IsGraph(g) /\ Acyclic(g)
  BY BuiltFacts DEF EntryFits, FrameIs, PackageNames
<1>2. SortInv(g, f.sort)
  BY DEF FrameIs
<1>3. ToSetOf(r) = NodesOf(g)
  BY <1>1, <1>2, EndIsComplete DEF EndsComplete
<1>4. Len(r) = Cardinality(NodesOf(g)) /\ r \in Seq(NodesOf(g))
  BY <1>1, <1>2, <1>3, ResultCounts
<1>5. /\ mid.pkg = f.pkg /\ mid.sorted = TRUE /\ mid.sort = f.sort /\ mid.at = f.at
      /\ mid.use = f.use /\ mid.waits = f.waits /\ IsRecord(mid)
  <2>1. IsRecord(f)
    BY DEF FrameIs
  <2> QED BY <2>1, SortedChanged DEF FieldsAre
<1> HIDE DEF mid
<1>6. /\ new.pkg = f.pkg /\ new.sorted = TRUE /\ new.sort = f.sort /\ new.at = f.at
      /\ new.use = f.use /\ new.waits = f.waits /\ IsRecord(new) /\ new.left = r
  <2>1. FieldsAre(new, mid.pkg, mid.use, mid.sort, r, mid.sorted, mid.outputs, mid.at, mid.waits)
    BY <1>5, LeftChanged
  <2> HIDE DEF new
  <2> QED BY <1>5, <2>1 DEF FieldsAre
<1> HIDE DEF new
<1>7. OrderIs(config, g, new)
  <2>1. Len(r) \in Nat /\ DoneOf(new) = 0
    BY <1>4, <1>6, LenProperties DEF DoneOf
  <2> QED BY <1>3, <1>4, <1>6, <2>1 DEF OrderIs
<1>8. FrameIs(config, built, new)
  BY <1>2, <1>6, <1>7 DEF FrameIs
<1> QED BY <1>4, <1>6, <1>8 DEF new, mid

(* The first of the order's rest is passed: it is no block, or its output  *)
(* is there.                                                               *)
LEMMA CallPasses ==
  ASSUME NEW c, NEW b, NEW f, FrameIs(c, b, f), f.sorted, f.left # <<>>,
         NEW new, IsRecord(new), new.pkg = f.pkg, new.sort = f.sort, new.sorted = f.sorted,
         new.left = Tail(f.left), new.at \in Nat \ {0}, f.outputs \subseteq new.outputs,
         Head(f.left) \in OwnBlocks(PackageIn(c, f.pkg)) => Head(f.left) \in new.outputs
  PROVE  FrameIs(c, b, new)
<1> DEFINE g == b[f.pkg].graph
           r == f.sort.result
           own == OwnBlocks(PackageIn(c, f.pkg))
           d == DoneOf(f)
           l == f.left
<1>1. OrderIs(c, g, f)
  BY DEF FrameIs
<1>2. l \in Seq(NodesOf(g)) /\ l # <<>> /\ d \in Nat
      /\ (\A k \in 1..Len(l) : l[k] = r[d + k])
      /\ \A k \in 1..d : r[k] \in own => r[k] \in f.outputs
  BY <1>1 DEF OrderIs
<1>3. /\ Tail(l) \in Seq(NodesOf(g)) /\ Len(l) \in Nat \ {0} /\ Len(Tail(l)) = Len(l) - 1
      /\ \A k \in 1..(Len(l) - 1) : Tail(l)[k] = l[k + 1]
      /\ Head(l) = l[1]
  <2> HIDE DEF l, d, r, own, g
  <2>1. Len(l) \in Nat \ {0}
    BY <1>2, LenProperties, EmptySeq
  <2> QED BY <1>2, <2>1, HeadTailProperties
<1>4. DoneOf(new) = d + 1
  <2>1. d = Len(r) - Len(l) /\ DoneOf(new) = Len(r) - Len(Tail(l))
    BY DEF DoneOf
  <2>2. Len(r) \in Int
    BY LenProperties DEF FrameIs, SortInv
  <2> HIDE DEF r, l, d
  <2>3. DoneOf(new) = (Len(r) - Len(l)) + 1
    BY <1>3, <2>1, <2>2
  <2> QED BY <2>1, <2>3
<1>5. Head(l) = r[d + 1]
  BY <1>2, <1>3
<1> HIDE DEF d, l, own
<1>6. \A k \in 1..Len(Tail(l)) : Tail(l)[k] = r[(d + 1) + k]
  <2> SUFFICES ASSUME NEW k \in 1..(Len(l) - 1) PROVE Tail(l)[k] = r[(d + 1) + k]
    BY <1>3
  <2>1. k + 1 \in 1..Len(l) /\ d + (k + 1) = (d + 1) + k
    BY <1>2, <1>3
  <2> QED BY <1>2, <1>3, <2>1
<1>7. \A k \in 1..(d + 1) : r[k] \in own => r[k] \in new.outputs
  <2>1. \A k \in 1..(d + 1) : k \in 1..d \/ k = d + 1
    BY <1>2
  <2> QED BY <1>2, <1>5, <2>1 DEF l, own
<1>8. OrderIs(c, g, new)
  BY <1>1, <1>2, <1>3, <1>4, <1>6, <1>7 DEF OrderIs, l, own
<1> QED BY <1>8 DEF FrameIs

(* A call that goes on with an input, or waits.                            *)
LEMMA CallGoesOn ==
  ASSUME NEW c, NEW b, NEW f, FrameIs(c, b, f),
         NEW new, IsRecord(new), new.pkg = f.pkg, new.sort = f.sort, new.sorted = f.sorted,
         new.left = f.left, new.at \in Nat \ {0}, new.outputs = f.outputs
  PROVE  FrameIs(c, b, new)
BY DEF FrameIs, OrderIs, DoneOf

WaitsAs(c, b, f, w, new) ==
  /\ FrameIs(c, b, new) /\ new.pkg = f.pkg /\ new.use = f.use /\ new.waits = w
  /\ UseIn(c, new) = UseIn(c, f) /\ (AtUse(c, f) => AtUse(c, new))

LEMMA Waiting ==
  ASSUME NEW c, NEW b, NEW f, FrameIs(c, b, f), NEW w
  PROVE  WaitsAs(c, b, f, w, [f EXCEPT !.waits = w])
<1> DEFINE new == [f EXCEPT !.waits = w]
<1>1. /\ new.pkg = f.pkg /\ new.use = f.use /\ new.sort = f.sort /\ new.left = f.left
      /\ new.sorted = f.sorted /\ new.outputs = f.outputs /\ new.at = f.at /\ new.waits = w
      /\ IsRecord(new)
  <2>1. IsRecord(f)
    BY DEF FrameIs
  <2> QED BY <2>1, WaitsChanged DEF FieldsAre
<1> HIDE DEF new
<1>2. FrameIs(c, b, new)
  BY <1>1, CallGoesOn DEF FrameIs
<1>3. UseIn(c, new) = UseIn(c, f) /\ BlockIn(c, new) = BlockIn(c, f)
  BY <1>1 DEF UseIn, BlockIn
<1>4. WaitsAs(c, b, f, w, new)
  BY <1>1, <1>2, <1>3 DEF AtUse, WaitsAs
<1> QED BY <1>4 DEF new

LEMMA NextInputIs ==
  ASSUME NEW c, NEW b, NEW f, FrameIs(c, b, f)
  PROVE  /\ FrameIs(c, b, NextInput(f)) /\ NextInput(f).pkg = f.pkg /\ NextInput(f).use = f.use
         /\ NextInput(f).waits = "idle"
<1> DEFINE mid == [f EXCEPT !.at = @ + 1]
           new == [mid EXCEPT !.waits = "idle"]
<1>1. f.at + 1 \in Nat \ {0}
  BY DEF FrameIs
<1>2. /\ mid.pkg = f.pkg /\ mid.use = f.use /\ mid.sort = f.sort /\ mid.left = f.left
      /\ mid.sorted = f.sorted /\ mid.outputs = f.outputs /\ mid.at = f.at + 1
      /\ IsRecord(mid)
  <2>1. IsRecord(f)
    BY DEF FrameIs
  <2> QED BY <2>1, AtChanged DEF FieldsAre
<1> HIDE DEF mid
<1>3. /\ new.pkg = f.pkg /\ new.use = f.use /\ new.sort = f.sort /\ new.left = f.left
      /\ new.sorted = f.sorted /\ new.outputs = f.outputs /\ new.at = f.at + 1 /\ new.waits = "idle"
      /\ IsRecord(new)
  <2>1. FieldsAre(new, mid.pkg, mid.use, mid.sort, mid.left, mid.sorted, mid.outputs, mid.at, "idle")
    BY <1>2, WaitsChanged
  <2> HIDE DEF new
  <2> QED BY <1>2, <2>1 DEF FieldsAre
<1>4. NextInput(f) = new
  BY DEF NextInput, mid
<1> HIDE DEF new
<1> QED BY <1>1, <1>3, <1>4, CallGoesOn

LEMMA FinishedIs ==
  ASSUME NEW c, NEW b, NEW f, FrameIs(c, b, f), f.sorted, f.left # <<>>
  PROVE  /\ FrameIs(c, b, Finished(f)) /\ Finished(f).pkg = f.pkg /\ Finished(f).use = f.use
         /\ Finished(f).waits = f.waits
<1> DEFINE one == [f EXCEPT !.left = Tail(@)]
           two == [one EXCEPT !.outputs = @ \cup {Head(f.left)}]
           new == [two EXCEPT !.at = 1]
<1>1. /\ one.pkg = f.pkg /\ one.use = f.use /\ one.sort = f.sort /\ one.left = Tail(f.left)
      /\ one.sorted = f.sorted /\ one.outputs = f.outputs /\ one.waits = f.waits
      /\ IsRecord(one)
  <2>1. IsRecord(f)
    BY DEF FrameIs
  <2>2. FieldsAre(one, f.pkg, f.use, f.sort, Tail(f.left), f.sorted, f.outputs, f.at, f.waits)
    BY <2>1, LeftChanged
  <2> HIDE DEF one
  <2> QED BY <2>2 DEF FieldsAre
<1> HIDE DEF one
<1>2. /\ two.pkg = f.pkg /\ two.use = f.use /\ two.sort = f.sort /\ two.left = Tail(f.left)
      /\ two.sorted = f.sorted /\ two.outputs = f.outputs \cup {Head(f.left)}
      /\ two.waits = f.waits /\ IsRecord(two)
  <2> DEFINE v == one.outputs \cup {Head(f.left)}
  <2>1. FieldsAre(two, one.pkg, one.use, one.sort, one.left, one.sorted, v, one.at, one.waits)
    BY <1>1, OutputsChanged
  <2> HIDE DEF two
  <2> QED BY <1>1, <2>1 DEF FieldsAre
<1> HIDE DEF two
<1>3. /\ new.pkg = f.pkg /\ new.use = f.use /\ new.sort = f.sort /\ new.left = Tail(f.left)
      /\ new.sorted = f.sorted /\ new.outputs = f.outputs \cup {Head(f.left)} /\ new.at = 1
      /\ new.waits = f.waits /\ IsRecord(new)
  <2>1. FieldsAre(new, two.pkg, two.use, two.sort, two.left, two.sorted, two.outputs, 1, two.waits)
    BY <1>2, AtChanged
  <2> HIDE DEF new
  <2> QED BY <1>2, <2>1 DEF FieldsAre
<1>4. Finished(f) = new
  BY DEF Finished, one, two
<1> HIDE DEF new
<1>5. new.at \in Nat \ {0} /\ f.outputs \subseteq new.outputs /\ Head(f.left) \in new.outputs
  BY <1>3
<1>6. FrameIs(c, b, new)
  BY <1>3, <1>5, CallPasses
<1> QED BY <1>3, <1>4, <1>6

---------------------------------------------------------------------------
(* The stack of calls.                                                     *)

(* What a stack s has become: t, with f on top of the first n of s.        *)
TopOn(s, n, f, t) ==
  /\ t \in Seq(Range(t)) /\ Len(t) = n + 1 /\ t # <<>> /\ t[n + 1] = f
  /\ \A i \in 1..n : t[i] = s[i]

LEMMA StackFacts ==
  ASSUME NEW s, s \in Seq(Range(s))
  PROVE  /\ Len(s) \in Nat /\ DOMAIN s = 1..Len(s)
         /\ s # <<>> <=> Len(s) > 0
<1>1. Len(s) \in Nat /\ DOMAIN s = 1..Len(s)
  BY LenProperties
<1>2. s # <<>> <=> Len(s) # 0
  BY EmptySeq
<1> QED BY <1>1, <1>2

LEMMA TopOnIs ==
  ASSUME NEW s, NEW n \in Nat, NEW f, NEW S, NEW t \in [1..(n + 1) -> S],
         t[n + 1] = f, \A i \in 1..n : t[i] = s[i]
  PROVE  TopOn(s, n, f, t)
<1>1. t \in [1..(n + 1) -> Range(t)]
  BY DEF Range
<1>2. n + 1 \in Nat
  OBVIOUS
<1> DEFINE k == n + 1
<1> HIDE DEF k
<1>3. t \in Seq(Range(t)) /\ Len(t) = n + 1
  <2>1. t \in [1..k -> Range(t)] /\ k \in Nat
    BY <1>1, <1>2 DEF k
  <2>2. t \in Seq(Range(t))
    BY <2>1, SeqDef
  <2>3. Len(t) = k
    BY <2>1, <2>2, LenProperties
  <2> QED BY <2>2, <2>3 DEF k
<1>4. t # <<>>
  BY <1>3, EmptySeq
<1> QED BY <1>3, <1>4 DEF TopOn

LEMMA TopSet ==
  ASSUME NEW s, s \in Seq(Range(s)), s # <<>>, NEW f
  PROVE  TopOn(s, Len(s) - 1, f, [s EXCEPT ![Len(s)] = f])
<1> DEFINE t == [s EXCEPT ![Len(s)] = f]
           n == Len(s) - 1
<1>1. n \in Nat /\ n + 1 = Len(s) /\ DOMAIN s = 1..(n + 1)
  BY StackFacts
<1>2. t \in [1..(n + 1) -> Range(s) \cup {f}] /\ t[n + 1] = f
  <2>1. s \in [1..(n + 1) -> Range(s)]
    BY <1>1, LenProperties
  <2> HIDE DEF n
  <2> QED BY <1>1, <2>1
<1>3. \A i \in 1..n : t[i] = s[i]
  <2> DEFINE m == Len(s)
  <2>1. m \in Nat /\ s \in [1..m -> Range(s)] /\ t = [s EXCEPT ![m] = f] /\ n = m - 1
    BY <1>1, LenProperties
  <2> HIDE DEF m, t, n
  <2>2. \A i \in 1..n : i \in 1..m /\ i # m
    BY <2>1
  <2> QED BY <2>1, <2>2
<1> HIDE DEF t, n
<1>4. TopOn(s, n, f, t)
  BY <1>1, <1>2, <1>3, TopOnIs
<1> QED BY <1>4 DEF t, n

LEMMA Pushed ==
  ASSUME NEW s, s \in Seq(Range(s)), s # <<>>, NEW g, NEW f
  PROVE  LET t == Append([s EXCEPT ![Len(s)] = g], f) IN
         TopOn(s, Len(s) - 1, g, [s EXCEPT ![Len(s)] = g])
         /\ TopOn([s EXCEPT ![Len(s)] = g], Len(s), f, t)
<1> DEFINE m == [s EXCEPT ![Len(s)] = g]
           t == Append(m, f)
           n == Len(s)
<1>1. TopOn(s, n - 1, g, m)
  BY TopSet
<1>2. n \in Nat /\ n = (n - 1) + 1
  BY StackFacts
<1>3. m \in Seq(Range(m)) /\ Len(m) = n
  BY <1>1, <1>2 DEF TopOn
<1> HIDE DEF m, n
<1>4. /\ m \in Seq(Range(m) \cup {f}) /\ f \in Range(m) \cup {f}
      /\ m \in [1..n -> Range(m)]
  <2>1. m \in [1..n -> Range(m)]
    BY <1>3, LenProperties
  <2>2. m \in [1..n -> Range(m) \cup {f}]
    BY <2>1
  <2> QED BY <1>2, <2>1, <2>2, SeqDef
<1>5. /\ t \in Seq(Range(m) \cup {f}) /\ Len(t) = n + 1 /\ t[n + 1] = f
      /\ \A i \in 1..n : t[i] = m[i]
  BY <1>3, <1>4, AppendProperties
<1>6. t \in [1..(n + 1) -> Range(m) \cup {f}]
  BY <1>5, LenProperties
<1> HIDE DEF t
<1>7. TopOn(m, n, f, t)
  BY <1>2, <1>5, <1>6, TopOnIs
<1> QED BY <1>1, <1>7 DEF m, t, n

(* m: all of s but its top; it is to have g on top.                        *)
Uncovers(s, m, g) ==
  /\ Len(s) - 2 \in Nat /\ Len(m) = Len(s) - 1 /\ m[Len(m)] = s[Len(s) - 1]
  /\ TopOn(s, Len(s) - 2, g, [m EXCEPT ![Len(m)] = g])

LEMMA PoppedTo ==
  ASSUME NEW s, s \in Seq(Range(s)), NEW m, m = SubSeq(s, 1, Len(s) - 1), m # <<>>, NEW g
  PROVE  Uncovers(s, m, g)
<1> DEFINE n == Len(s)
<1>1. n \in Nat
  BY StackFacts
<1>2. n # 0
  <2> SUFFICES ASSUME n = 0 PROVE FALSE
    OBVIOUS
  <2>1. s = <<>>
    BY EmptySeq
  <2>2. SubSeq(s, 1, -1) = <<>>
    BY <2>1, SubSeqProperties
  <2> QED BY <2>2
<1>3. /\ m \in Seq(Range(s)) /\ Len(m) = n - 1 /\ \A i \in 1..(n - 1) : m[i] = s[i]
  <2>1. n - 1 \in Nat /\ 1..(n - 1) \subseteq 1..n
    BY <1>1, <1>2
  <2> QED BY <1>1, <2>1, SubSeqProperties
<1>4. m \in [1..(n - 1) -> Range(s)] /\ n - 1 # 0
  BY <1>3, LenProperties, EmptySeq
<1>5. n - 2 \in Nat /\ (n - 2) + 1 = n - 1 /\ n - 1 \in 1..(n - 1)
  BY <1>1, <1>2, <1>4
<1> DEFINE t == [m EXCEPT ![n - 1] = g]
           k == n - 2
<1>6. t \in [1..(k + 1) -> Range(s) \cup {g}] /\ t[k + 1] = g
  BY <1>4, <1>5
<1>7. \A i \in 1..k : t[i] = s[i]
  <2> SUFFICES ASSUME NEW i \in 1..k PROVE t[i] = s[i]
    OBVIOUS
  <2>1. i \in 1..(n - 1) /\ i # n - 1
    <3> HIDE DEF n
    <3> QED BY <1>1, <1>5
  <2>2. t[i] = m[i]
    BY <1>4, <2>1
  <2> QED BY <1>3, <2>1, <2>2
<1>8. k \in Nat
  BY <1>5
<1> HIDE DEF t, k
<1>9. TopOn(s, k, g, t)
  BY <1>6, <1>7, <1>8, TopOnIs
<1> QED BY <1>3, <1>5, <1>9 DEF t, k, Uncovers

---------------------------------------------------------------------------
(* What the stack is known to be stays so: when its top changes, or the    *)
(* call above is taken away, and when a call is put on top.                *)
LEMMA TopSteps ==
  ASSUME NEW c, NEW b, NEW s, StackIs(c, b, s), NEW n \in Nat, n + 1 <= Len(s),
         NEW f, FrameIs(c, b, f), f.pkg = s[n + 1].pkg, f.use = s[n + 1].use, TopIs(c, f),
         NEW t, TopOn(s, n, f, t)
  PROVE  StackIs(c, b, t)
<1>1. Len(s) \in Nat /\ s # <<>>
  BY StackFacts DEF StackIs
<1>2. \A i \in 1..(n + 1) : i \in 1..Len(s) /\ (i # n + 1 => i \in 1..n /\ t[i] = s[i])
  BY <1>1 DEF TopOn
<1>3. t[n + 1] = f /\ Len(t) = n + 1 /\ 1 \in 1..(n + 1)
  BY DEF TopOn
<1>4. \A i \in 1..(n + 1) : t[i].pkg = s[i].pkg /\ t[i].use = s[i].use
  BY <1>2, <1>3
<1>5. \A i \in 1..(n + 1) : FrameIs(c, b, t[i])
  BY <1>2, <1>3 DEF StackIs
<1>6. t[1].pkg = Main /\ t[1].use = NoInput
  BY <1>1, <1>3, <1>4 DEF StackIs
<1>7. ASSUME NEW i \in 1..n PROVE AtUse(c, t[i]) /\ Called(c, t[i], t[i + 1])
  <2>1. i \in 1..(Len(s) - 1) /\ i \in 1..(n + 1) /\ i # n + 1 /\ i + 1 \in 1..(n + 1)
    BY <1>1
  <2>2. t[i] = s[i] /\ t[i + 1].pkg = s[i + 1].pkg /\ t[i + 1].use = s[i + 1].use
    BY <1>2, <1>4, <2>1
  <2>3. AtUse(c, s[i]) /\ Called(c, s[i], s[i + 1])
    BY <2>1 DEF StackIs, NestingIs
  <2> QED BY <2>2, <2>3 DEF Called
<1>8. \A i, j \in 1..(n + 1) : i < j => Depth(c)[t[j].pkg] < Depth(c)[t[i].pkg]
  BY <1>2, <1>4 DEF StackIs, NestingIs
<1>9. (n + 1) - 1 = n
  OBVIOUS
<1> QED BY <1>3, <1>5, <1>6, <1>7, <1>8, <1>9 DEF StackIs, NestingIs, TopOn

LEMMA PushSteps ==
  ASSUME NEW c, NEW b, NEW s, StackIs(c, b, s), NEW n \in Nat \ {0}, n = Len(s),
         \A p \in NamesIn(c) : Depth(c)[p] \in Nat,
         AtUse(c, s[n]), NEW f, Called(c, s[n], f), FrameIs(c, b, f), TopIs(c, f),
         Depth(c)[f.pkg] < Depth(c)[s[n].pkg],
         NEW t, TopOn(s, n, f, t)
  PROVE  StackIs(c, b, t)
<1>1. s # <<>>
  BY StackFacts DEF StackIs
<1>2. \A i \in 1..(n + 1) : i # n + 1 => i \in 1..n /\ t[i] = s[i]
  BY DEF TopOn
<1>3. t[n + 1] = f /\ Len(t) = n + 1 /\ 1 \in 1..n
  BY DEF TopOn
<1>4. \A i \in 1..(n + 1) : FrameIs(c, b, t[i])
  BY <1>2, <1>3 DEF StackIs
<1>5. t[1].pkg = Main /\ t[1].use = NoInput
  BY <1>1, <1>3 DEF StackIs, TopOn
<1>6. ASSUME NEW i \in 1..n PROVE AtUse(c, t[i]) /\ Called(c, t[i], t[i + 1])
  <2>1. t[i] = s[i]
    BY DEF TopOn
  <2>2. CASE i = n
    BY <1>3, <2>1, <2>2
  <2>3. CASE i # n
    <3>1. i \in 1..(Len(s) - 1) /\ i + 1 \in 1..n
      BY <2>3
    <3>2. t[i + 1] = s[i + 1]
      BY <3>1 DEF TopOn
    <3> QED BY <2>1, <3>1, <3>2 DEF StackIs, NestingIs
  <2> QED BY <2>2, <2>3
<1>7. ASSUME NEW i \in 1..(n + 1), NEW j \in 1..(n + 1), i < j
      PROVE  Depth(c)[t[j].pkg] < Depth(c)[t[i].pkg]
  <2>1. i \in 1..n /\ t[i] = s[i]
    BY <1>2, <1>7
  <2>2. CASE j # n + 1
    <3>1. j \in 1..n /\ t[j] = s[j]
      BY <1>2, <2>2
    <3> QED BY <1>7, <2>1, <3>1 DEF StackIs, NestingIs
  <2>3. CASE j = n + 1
    <3> DEFINE D(k) == Depth(c)[s[k].pkg]
    <3>1. D(i) \in Nat /\ D(n) \in Nat /\ Depth(c)[f.pkg] \in Nat
      <4>1. s[i].pkg \in NamesIn(c) /\ s[n].pkg \in NamesIn(c) /\ f.pkg \in NamesIn(c)
        BY <2>1 DEF StackIs, FrameIs
      <4> QED BY <4>1
    <3>2. i # n => D(n) < D(i)
      BY <2>1 DEF StackIs, NestingIs
    <3>3. Depth(c)[f.pkg] < D(n)
      OBVIOUS
    <3>4. t[j].pkg = f.pkg /\ t[i].pkg = s[i].pkg
      BY <1>3, <2>1, <2>3
    <3>5. Depth(c)[f.pkg] < D(i)
      <4> DEFINE df == Depth(c)[f.pkg]
                 di == D(i)
                 dn == D(n)
      <4>1. di \in Nat /\ dn \in Nat /\ df \in Nat /\ df < dn /\ (i # n => dn < di)
            /\ (i = n => di = dn)
        BY <3>1, <3>2, <3>3
      <4> HIDE DEF df, di, dn
      <4>2. df < di
        BY <4>1
      <4> QED BY <4>2 DEF df, di
    <3> QED BY <3>4, <3>5
  <2> QED BY <2>2, <2>3
<1>8. (n + 1) - 1 = n
  OBVIOUS
<1> QED BY <1>3, <1>4, <1>5, <1>6, <1>7, <1>8 DEF StackIs, NestingIs, TopOn

---------------------------------------------------------------------------
(* The block that a call is at, and its input.                             *)
LEMMA AtBlock ==
  ASSUME config \in Configs, NEW f, f.pkg \in PackageNames, f.at \in Nat \ {0},
         Head(f.left) \in BlocksOf(PackageOf(f.pkg))
  PROVE  /\ BlockAt(f) = BlockIn(config, f) /\ PackageIn(config, f.pkg) = PackageOf(f.pkg)
         /\ PackageOf(f.pkg) \in PackageType
         /\ Len(BlockAt(f).inputs) \in Nat
         /\ f.at <= Len(BlockAt(f).inputs) =>
              /\ UseIn(config, f) \in InputType
              /\ <<Head(f.left), UseIn(config, f)>> \in Inputs(PackageOf(f.pkg))
<1> DEFINE pkg == PackageOf(f.pkg)
           name == Head(f.left)
           block == BlockAt(f)
<1>1. BlockAt(f) = BlockIn(config, f) /\ PackageIn(config, f.pkg) = PackageOf(f.pkg)
  BY DEF BlockAt, BlockIn, PackageIn, PackageOf
<1>2. pkg \in PackageType
  <2>1. PICK k \in DOMAIN config : config[k].name = f.pkg
    BY NameOf
  <2> QED BY <2>1, NameOf, ConfigFacts
<1>3. block \in ToSetOf(pkg.blocks) /\ block.name = name
  <2>1. \E b \in ToSetOf(pkg.blocks) : b.name = name
    BY DEF BlocksOf, ToSetOf
  <2> QED BY <2>1 DEF BlockAt
<1> HIDE DEF block
<1>4. PICK i \in DOMAIN pkg.blocks : pkg.blocks[i] = block
  BY <1>3 DEF ToSetOf
<1> HIDE DEF pkg, name
<1>5. /\ DOMAIN block.inputs = 1..Len(block.inputs) /\ Len(block.inputs) \in Nat
      /\ \A j \in DOMAIN block.inputs :
           block.inputs[j] \in InputType /\ <<name, block.inputs[j]>> \in Inputs(pkg)
  BY <1>2, <1>3, <1>4, InputFacts
<1>6. f.at <= Len(block.inputs) => f.at \in DOMAIN block.inputs
  BY <1>5
<1>7. UseIn(config, f) = block.inputs[f.at]
  BY <1>1 DEF UseIn, block
<1> QED BY <1>1, <1>2, <1>5, <1>6, <1>7 DEF pkg, name, block

(* What a block uses is used by its package, and is less deep.             *)
LEMMA UseIsUsed ==
  ASSUME config \in Configs, NEW p \in PackageNames, NEW n, NEW x,
         <<n, x>> \in Inputs(PackageOf(p)), x.kind = "package"
  PROVE  /\ x.name \in PackageNames =>
              x.name \in UsedIn(config, PackageOf(p)) /\ Depth(config)[x.name] < Depth(config)[p]
         /\ x.from \in PackageNames =>
              x.from \in UsedIn(config, PackageOf(p)) /\ Depth(config)[x.from] < Depth(config)[p]
<1> DEFINE bi == <<n, x>>
<1>1. bi \in Inputs(PackageOf(p)) /\ bi[2] = x
  OBVIOUS
<1> HIDE DEF bi
<1>2. \A q \in PackageNames : q \in {x.name, x.from} => q \in UsedIn(config, PackageOf(p))
  BY <1>1 DEF UsedIn, PackageNames
<1> QED BY <1>2, DepthFalls

---------------------------------------------------------------------------
(* What uses have given is there while the stack changes.                  *)
LEMMA GivenSteps ==
  ASSUME NEW c, NEW s, NEW h, GivenIs(c, s, h), NEW n \in Nat, n + 1 <= Len(s), Len(s) \in Nat,
         NEW f, f.pkg = s[n + 1].pkg, f.use = s[n + 1].use,
         NEW k, \A i \in 1..(n + 1) : k[s[i].pkg].input = h[s[i].pkg].input, ReadyIs(c, k, f),
         NEW t, TopOn(s, n, f, t)
  PROVE  GivenIs(c, t, k)
<1>1. \A i \in 1..(n + 1) : i \in 1..Len(s) /\ (i # n + 1 => i \in 1..n /\ t[i] = s[i])
  <2>1. \A i \in 1..(n + 1) : i \in 1..Len(s) /\ (i # n + 1 => i \in 1..n)
    OBVIOUS
  <2> QED BY <2>1 DEF TopOn
<1>2. t[n + 1] = f /\ Len(t) = n + 1
  BY DEF TopOn
<1>3. \A i \in 1..(n + 1) : t[i].pkg = s[i].pkg /\ t[i].use = s[i].use
  BY <1>1, <1>2
<1>4. \A i \in 1..(n + 1) : UseGiven(h, s[i])
  BY <1>1 DEF GivenIs
<1>5. ASSUME NEW i \in 1..(n + 1) PROVE UseGiven(k, t[i])
  BY <1>3, <1>4 DEF UseGiven
<1> QED BY <1>1, <1>2, <1>5 DEF GivenIs

LEMMA GivenPush ==
  ASSUME NEW c, NEW s, NEW h, GivenIs(c, s, h), NEW n \in Nat, n = Len(s),
         NEW f, f.waits = "idle", UseGiven(h, f),
         NEW t, TopOn(s, n, f, t)
  PROVE  GivenIs(c, t, h)
<1>1. \A i \in 1..(n + 1) : i # n + 1 => i \in 1..Len(s) /\ t[i] = s[i]
  <2>1. \A i \in 1..(n + 1) : i # n + 1 => i \in 1..n
    OBVIOUS
  <2>2. \A i \in 1..n : t[i] = s[i]
    BY DEF TopOn
  <2> QED BY <2>1, <2>2
<1>2. t[n + 1] = f /\ Len(t) = n + 1
  BY DEF TopOn
<1>3. ReadyIs(c, h, f)
  BY DEF ReadyIs
<1> QED BY <1>1, <1>2, <1>3 DEF GivenIs

LEMMA NotAtUse ==
  ASSUME NEW c, NEW h, NEW f, f.waits \notin {"input", "ready"}
  PROVE  TopIs(c, f) /\ ReadyIs(c, h, f)
BY DEF TopIs, ReadyIs

(* What is known while a call is under way.                                *)
LEMMA CallFacts ==
  ASSUME BuildInv, CallsInv, Calling
  PROVE  /\ config \in Configs /\ building = Len(config) + 1 /\ DOMAIN built = PackageNames
         /\ stack \in Seq(Range(stack)) /\ stack # <<>>
         /\ Len(stack) \in Nat \ {0} /\ Len(stack) - 1 \in Nat
         /\ FrameIs(config, built, Top) /\ TopIs(config, Top)
         /\ Top.pkg \in PackageNames /\ Top.at \in Nat \ {0}
         /\ PackageIn(config, Top.pkg) = PackageOf(Top.pkg)
<1>1. building = Len(config) + 1 /\ stack # <<>>
  BY DEF BuildInv, Calling
<1>2. config \in Configs /\ DOMAIN built = PackageNames
  BY <1>1, BuiltFacts
<1>3. stack \in Seq(Range(stack)) /\ TopIs(config, Top)
  BY <1>1 DEF CallsInv, StackIs, Top
<1>4. Len(stack) \in Nat \ {0} /\ Len(stack) - 1 \in Nat /\ Len(stack) \in 1..Len(stack)
  BY <1>1, <1>3, StackFacts
<1>5. FrameIs(config, built, Top)
  BY <1>4 DEF CallsInv, StackIs, Top
<1>6. Top.pkg \in PackageNames /\ Top.at \in Nat \ {0}
  BY <1>5 DEF FrameIs, PackageNames
<1>7. PackageIn(config, Top.pkg) = PackageOf(Top.pkg)
  BY DEF PackageIn, PackageOf
<1> QED BY <1>1, <1>2, <1>3, <1>4, <1>5, <1>6, <1>7

LEMMA SetTopKeeps ==
  ASSUME BuildInv, CallsInv, GivenInv, Calling, UNCHANGED <<config, built>>,
         NEW f, SetTop(f), FrameIs(config, built, f), f.pkg = Top.pkg, f.use = Top.use,
         TopIs(config, f), ReadyIs(config, held', f),
         held' \in [PackageNames -> [input : STRING \cup {Nothing}, reset : BOOLEAN]],
         \A i \in 1..Len(stack) : held'[stack[i].pkg].input = held[stack[i].pkg].input
  PROVE  CallsInv' /\ GivenInv'
<1> DEFINE n == Len(stack) - 1
<1>1. n \in Nat /\ n + 1 = Len(stack) /\ stack \in Seq(Range(stack)) /\ stack # <<>>
      /\ Len(stack) \in Nat
  BY CallFacts
<1>2. TopOn(stack, n, f, stack')
  BY <1>1, TopSet DEF SetTop
<1>3. StackIs(config, built, stack) /\ GivenIs(config, stack, held)
  BY DEF CallsInv, GivenInv
<1>4. f.pkg = stack[n + 1].pkg /\ f.use = stack[n + 1].use
  BY <1>1 DEF Top
<1>5. n + 1 <= Len(stack)
      /\ \A i \in 1..(n + 1) : held'[stack[i].pkg].input = held[stack[i].pkg].input
  BY <1>1
<1> HIDE DEF n
<1>6. StackIs(config, built, stack')
  BY <1>1, <1>2, <1>3, <1>4, <1>5, TopSteps
<1>7. GivenIs(config, stack', held')
  BY <1>1, <1>2, <1>3, <1>4, <1>5, GivenSteps
<1> QED BY <1>6, <1>7 DEF CallsInv, GivenInv, PackageNames

LEMMA PushKeeps ==
  ASSUME BuildInv, CallsInv, GivenInv, Calling, UNCHANGED <<config, built, held>>,
         NEW g, FrameIs(config, built, g), g.pkg = Top.pkg, g.use = Top.use,
         g.waits \in {"inner", "main"}, AtUse(config, g),
         NEW f, FrameIs(config, built, f), f.waits = "idle", Called(config, g, f),
         Depth(config)[f.pkg] < Depth(config)[g.pkg],
         UseGiven(held, f),
         stack' = Append([stack EXCEPT ![Len(stack)] = g], f)
  PROVE  CallsInv' /\ GivenInv'
<1> DEFINE n == Len(stack) - 1
           k == Len(stack)
           m == [stack EXCEPT ![Len(stack)] = g]
<1>1. n \in Nat /\ n + 1 = k /\ stack \in Seq(Range(stack)) /\ stack # <<>>
      /\ k \in Nat \ {0} /\ n + 1 <= Len(stack) /\ Len(stack) \in Nat /\ k = Len(stack)
  <2>1. k \in Nat \ {0} /\ stack \in Seq(Range(stack)) /\ stack # <<>> /\ n \in Nat
    BY CallFacts
  <2>2. \A a \in Nat \ {0} : (a - 1) + 1 = a /\ (a - 1) + 1 <= a /\ a \in Nat
    OBVIOUS
  <2>3. (Len(stack) - 1) + 1 = Len(stack) /\ (Len(stack) - 1) + 1 <= Len(stack)
        /\ Len(stack) \in Nat
    BY <2>1, <2>2
  <2> QED BY <2>1, <2>3
<1>2. TopOn(stack, n, g, m) /\ TopOn(m, k, f, stack')
  BY <1>1, Pushed
<1>3. StackIs(config, built, stack) /\ GivenIs(config, stack, held)
  BY DEF CallsInv, GivenInv
<1>4. TopIs(config, g) /\ ReadyIs(config, held, g) /\ TopIs(config, f)
  BY NotAtUse
<1>5. g.pkg = stack[n + 1].pkg /\ g.use = stack[n + 1].use
  BY <1>1 DEF Top
<1>6. Len(m) = k /\ m[k] = g
  BY <1>1, <1>2 DEF TopOn
<1> HIDE DEF n, k, m
<1>7. StackIs(config, built, m)
  BY <1>1, <1>2, <1>3, <1>4, <1>5, TopSteps
<1>8. GivenIs(config, m, held)
  BY <1>1, <1>2, <1>3, <1>4, <1>5, GivenSteps
<1>9. \A q \in NamesIn(config) : Depth(config)[q] \in Nat
  BY CallFacts, DepthFalls DEF PackageNames
<1>10. Depth(config)[f.pkg] < Depth(config)[m[k].pkg] /\ AtUse(config, m[k]) /\ Called(config, m[k], f)
  BY <1>6
<1>11. StackIs(config, built, stack')
  BY <1>1, <1>2, <1>4, <1>6, <1>7, <1>9, <1>10, PushSteps
<1>12. GivenIs(config, stack', held)
  BY <1>1, <1>2, <1>6, <1>8, GivenPush
<1>13. held' \in [PackageNames' -> [input : STRING \cup {Nothing}, reset : BOOLEAN]]
  BY DEF GivenInv, PackageNames
<1> QED BY <1>11, <1>12, <1>13 DEF CallsInv, GivenInv

---------------------------------------------------------------------------
(* Each step of a call.                                                    *)

(* What the packages hold, and all that the calls on the stack were given. *)
HeldKept ==
  /\ held' \in [PackageNames -> [input : STRING \cup {Nothing}, reset : BOOLEAN]]
  /\ \A i \in 1..Len(stack) : held'[stack[i].pkg].input = held[stack[i].pkg].input

LEMMA SameHeld ==
  ASSUME GivenInv, UNCHANGED held
  PROVE  HeldKept
BY DEF GivenInv, HeldKept

LEMMA StepAside ==
  ASSUME BuildInv, CallsInv, GivenInv, Calling, UNCHANGED <<config, built, held>>,
         NEW f, SetTop(f), FrameIs(config, built, f), f.pkg = Top.pkg, f.use = Top.use,
         f.waits \notin {"input", "ready"}
  PROVE  CallsInv' /\ GivenInv'
<1>1. HeldKept /\ TopIs(config, f) /\ ReadyIs(config, held', f)
  BY SameHeld, NotAtUse
<1> QED BY <1>1, SetTopKeeps DEF HeldKept

LEMMA SortNodeStep ==
  ASSUME BuildInv, CallsInv, GivenInv, SortNode
  PROVE  CallsInv' /\ GivenInv'
<1>1. Calling /\ ~Top.sorted /\ Top.sort.ready # <<>> /\ UNCHANGED <<config, built, held>>
  BY DEF SortNode
<1>2. PICK s \in Popped(built[Top.pkg].graph, Top.sort) : SetTop([Top EXCEPT !.sort = s])
  BY DEF SortNode
<1> DEFINE new == [Top EXCEPT !.sort = s]
<1>3. FrameIs(config, built, Top) /\ building = Len(config) + 1 /\ TopIs(config, Top)
  BY <1>1, CallFacts
<1>4. FrameIs(config, built, new) /\ new.pkg = Top.pkg /\ new.use = Top.use
      /\ new.waits = Top.waits
  BY <1>1, <1>3, CallSorts
<1>5. Top.waits \notin {"input", "ready"}
  BY <1>1, <1>3 DEF TopIs, AtUse
<1> HIDE DEF new
<1>6. SetTop(new)
  BY <1>2 DEF new
<1> QED BY <1>1, <1>4, <1>5, <1>6, StepAside

LEMMA SortedStep ==
  ASSUME BuildInv, CallsInv, GivenInv, Sorted
  PROVE  CallsInv' /\ GivenInv' /\ UNCHANGED status
<1> DEFINE new == [Top EXCEPT !.sorted = TRUE, !.left = Top.sort.result]
<1>1. Calling /\ ~Top.sorted /\ Top.sort.ready = <<>> /\ UNCHANGED <<config, built, held>>
  BY DEF Sorted
<1>2. FrameIs(config, built, Top) /\ building = Len(config) + 1 /\ TopIs(config, Top)
  BY <1>1, CallFacts
<1>3. /\ Len(Top.sort.result) = Cardinality(NodesOf(built[Top.pkg].graph))
      /\ FrameIs(config, built, new) /\ new.pkg = Top.pkg /\ new.use = Top.use
      /\ new.waits = Top.waits
  BY <1>1, <1>2, CallSorted
<1>4. SetTop(new) /\ UNCHANGED status
  BY <1>3 DEF Sorted
<1>5. Top.waits \notin {"input", "ready"}
  BY <1>1, <1>2 DEF TopIs, AtUse
<1> HIDE DEF new
<1>6. CallsInv' /\ GivenInv'
  BY <1>1, <1>3, <1>4, <1>5, StepAside
<1> QED BY <1>4, <1>6

LEMMA PassPackageStep ==
  ASSUME BuildInv, CallsInv, GivenInv, PassPackage, stack' # stack
  PROVE  CallsInv' /\ GivenInv'
<1> DEFINE new == [Top EXCEPT !.left = Tail(@)]
           own == OwnBlocks(PackageOf(Top.pkg))
<1>1. /\ Calling /\ Top.sorted /\ Top.left # <<>> /\ Head(Top.left) \notin own
      /\ UNCHANGED <<config, built, held>>
  BY DEF PassPackage, AtNode
<1>2. SetTop(new)
  BY DEF PassPackage, Fails
<1>3. /\ FrameIs(config, built, Top) /\ TopIs(config, Top) /\ config \in Configs
      /\ PackageIn(config, Top.pkg) = PackageOf(Top.pkg) /\ Top.pkg \in PackageNames
      /\ Top.at \in Nat \ {0} /\ IsRecord(Top)
  BY <1>1, CallFacts DEF FrameIs
<1>4. FieldsAre(new, Top.pkg, Top.use, Top.sort, Tail(Top.left), Top.sorted, Top.outputs,
                Top.at, Top.waits)
  BY <1>3, LeftChanged
<1> HIDE DEF new
<1>5. /\ new.pkg = Top.pkg /\ new.use = Top.use /\ new.sort = Top.sort
      /\ new.left = Tail(Top.left) /\ new.sorted = Top.sorted /\ new.outputs = Top.outputs
      /\ new.at = Top.at /\ new.waits = Top.waits /\ IsRecord(new)
  BY <1>4 DEF FieldsAre
<1>6. FrameIs(config, built, new)
  BY <1>1, <1>3, <1>5, CallPasses
<1>7. Head(Top.left) \notin BlocksOf(PackageOf(Top.pkg))
  BY <1>1 DEF OwnBlocks
<1>8. Top.waits \notin {"input", "ready"}
  BY <1>3, <1>7 DEF TopIs, AtUse
<1> QED BY <1>1, <1>2, <1>5, <1>6, <1>8, StepAside

(* Where a call stands at an input of a block.                             *)
LEMMA AtInputIs ==
  ASSUME BuildInv, CallsInv, NEW kinds, AtInput(kinds)
  PROVE  /\ Calling /\ Top.sorted /\ Top.left # <<>>
         /\ Head(Top.left) \in BlocksOf(PackageOf(Top.pkg))
         /\ Input = UseIn(config, Top) /\ Input \in InputType /\ Input.kind \in kinds
         /\ <<Head(Top.left), Input>> \in Inputs(PackageOf(Top.pkg))
         /\ Top.at <= Len(BlockIn(config, Top).inputs)
<1>1. /\ Calling /\ Top.sorted /\ Top.left # <<>> /\ Top.at <= Len(Current.inputs)
      /\ Head(Top.left) \in BlocksOf(PackageOf(Top.pkg)) /\ Input.kind \in kinds
  BY DEF AtInput, IsBlock, AtNode
<1>2. config \in Configs /\ Top.pkg \in PackageNames /\ Top.at \in Nat \ {0}
  BY <1>1, CallFacts
<1>3. BlockAt(Top) = BlockIn(config, Top)
      /\ (Top.at <= Len(BlockAt(Top).inputs) =>
             /\ UseIn(config, Top) \in InputType
             /\ <<Head(Top.left), UseIn(config, Top)>> \in Inputs(PackageOf(Top.pkg)))
  BY <1>1, <1>2, AtBlock
<1>4. Current = BlockIn(config, Top)
  BY <1>3 DEF Current
<1>5. Input = UseIn(config, Top)
  BY <1>4 DEF Input, UseIn
<1> QED BY <1>1, <1>3, <1>4, <1>5 DEF Current

(* A block that has its inputs, or none, is not at a use.                  *)
LEMMA ProduceStep ==
  ASSUME BuildInv, CallsInv, GivenInv, Produce
  PROVE  CallsInv' /\ GivenInv'
<1> DEFINE new == Finished(Top)
<1>1. Calling /\ Top.sorted /\ Top.left # <<>> /\ UNCHANGED <<config, built, held>>
      /\ SetTop(new)
  BY DEF Produce, AtInputLayer, IsBlock, AtNode
<1>2. /\ FrameIs(config, built, Top) /\ TopIs(config, Top) /\ config \in Configs
      /\ Top.pkg \in PackageNames /\ Top.at \in Nat \ {0}
      /\ PackageIn(config, Top.pkg) = PackageOf(Top.pkg)
  BY <1>1, CallFacts
<1>3. FrameIs(config, built, new) /\ new.pkg = Top.pkg /\ new.use = Top.use
      /\ new.waits = Top.waits
  BY <1>1, <1>2, FinishedIs
<1>4. ~AtUse(config, Top)
  <2> SUFFICES ASSUME AtUse(config, Top) PROVE FALSE
    OBVIOUS
  <2>1. Head(Top.left) \in BlocksOf(PackageOf(Top.pkg))
    BY <1>2 DEF AtUse
  <2>2. Current = BlockIn(config, Top) /\ Len(Current.inputs) \in Nat
    BY <1>2, <2>1, AtBlock DEF Current
  <2>3. Top.at <= Len(Current.inputs)
    BY <2>2 DEF AtUse
  <2>4. Current.inputs = <<>> \/ Top.at > Len(Current.inputs)
    BY <1>1, <2>1 DEF Produce, AtInputLayer, IsBlock, AtNode
  <2>5. Len(<<>>) = 0
    BY EmptySeq
  <2> QED BY <1>2, <2>2, <2>3, <2>4, <2>5
<1>5. Top.waits \notin {"input", "ready"}
  BY <1>2, <1>4 DEF TopIs
<1> HIDE DEF new
<1> QED BY <1>1, <1>3, <1>5, StepAside

LEMMA ReadStep ==
  ASSUME BuildInv, CallsInv, GivenInv, ReadOutput \/ ReadPackageInput, stack' # stack
  PROVE  CallsInv' /\ GivenInv'
<1> DEFINE new == NextInput(Top)
<1>1. Calling /\ UNCHANGED <<config, built, held>> /\ SetTop(new)
  BY DEF ReadOutput, ReadPackageInput, AtInput, IsBlock, AtNode, Fails
<1>2. FrameIs(config, built, Top)
  BY <1>1, CallFacts
<1>3. FrameIs(config, built, new) /\ new.pkg = Top.pkg /\ new.use = Top.use
      /\ new.waits = "idle"
  BY <1>2, NextInputIs
<1> HIDE DEF new
<1> QED BY <1>1, <1>3, StepAside

(* No package on the stack is one that the top uses.                       *)
LEMMA NotOnStack ==
  ASSUME BuildInv, CallsInv, Calling, NEW p \in PackageNames,
         Depth(config)[p] < Depth(config)[Top.pkg]
  PROVE  \A i \in 1..Len(stack) : stack[i].pkg # p
<1> DEFINE n == Len(stack)
           D(i) == Depth(config)[stack[i].pkg]
<1>1. n \in Nat \ {0} /\ config \in Configs
  BY CallFacts
<1>2. \A i \in 1..n : stack[i].pkg \in PackageNames
  BY DEF CallsInv, StackIs, FrameIs, PackageNames
<1>3. Depth(config)[p] \in Nat /\ \A i \in 1..n : D(i) \in Nat
  <2>1. \A q \in PackageNames : Depth(config)[q] \in Nat
    BY <1>1, DepthFalls
  <2> QED BY <1>2, <2>1
<1>4. \A i \in 1..n : i # n => D(n) < D(i)
  BY <1>1 DEF CallsInv, StackIs, NestingIs
<1>5. Depth(config)[p] < D(n)
  BY DEF Top
<1>6. SUFFICES ASSUME NEW i \in 1..n, stack[i].pkg = p PROVE FALSE
  OBVIOUS
<1>7. D(i) = Depth(config)[p]
  BY <1>6
<1> HIDE DEF D
<1> DEFINE dp == Depth(config)[p]
<1>8. dp \in Nat /\ D(i) \in Nat /\ D(n) \in Nat /\ dp < D(n) /\ D(i) = dp
      /\ (i # n => D(n) < D(i))
  BY <1>1, <1>3, <1>4, <1>5, <1>6, <1>7
<1> HIDE DEF dp
<1> QED BY <1>8

LEMMA ResetInputStep ==
  ASSUME BuildInv, CallsInv, GivenInv, ResetInput, Input.name \in DOMAIN built
  PROVE  CallsInv' /\ GivenInv'
<1> DEFINE w == IF Input.from = Nothing THEN "ready" ELSE "input"
           new == [Top EXCEPT !.waits = w]
<1>1. AtInput({"package"}) /\ UNCHANGED <<config, built>>
  BY DEF ResetInput
<1>2. /\ Input.name \in DOMAIN built /\ SetTop(new)
      /\ held' = IF Input.reset THEN [held EXCEPT ![Input.name].reset = TRUE] ELSE held
  BY DEF ResetInput
<1>3. /\ Calling /\ Top.sorted /\ Top.left # <<>>
      /\ Head(Top.left) \in BlocksOf(PackageOf(Top.pkg))
      /\ Input = UseIn(config, Top) /\ Input.kind = "package"
      /\ Top.at <= Len(BlockIn(config, Top).inputs)
  BY <1>1, AtInputIs
<1>4. /\ FrameIs(config, built, Top) /\ DOMAIN built = PackageNames
      /\ PackageIn(config, Top.pkg) = PackageOf(Top.pkg)
  BY <1>3, CallFacts
<1>5. AtUse(config, Top)
  BY <1>2, <1>3, <1>4 DEF AtUse, PackageNames
<1>6. FrameIs(config, built, new) /\ new.pkg = Top.pkg /\ new.use = Top.use /\ new.waits = w
      /\ UseIn(config, new) = Input /\ AtUse(config, new)
  <2> HIDE DEF w
  <2> QED BY <1>3, <1>4, <1>5, Waiting DEF WaitsAs
<1>7. HeldKept
  <2>1. /\ held \in [PackageNames -> [input : STRING \cup {Nothing}, reset : BOOLEAN]]
        /\ Input.name \in PackageNames
    BY <1>2, <1>4 DEF GivenInv
  <2> DEFINE h == [held EXCEPT ![Input.name].reset = TRUE]
  <2>2. h \in [PackageNames -> [input : STRING \cup {Nothing}, reset : BOOLEAN]]
        /\ \A p \in PackageNames : h[p].input = held[p].input
    BY <2>1
  <2>3. \A i \in 1..Len(stack) : stack[i].pkg \in PackageNames
    BY DEF CallsInv, StackIs, FrameIs, PackageNames
  <2> HIDE DEF h
  <2>4. held' = h \/ held' = held
    BY <1>2 DEF h
  <2> QED BY <2>1, <2>2, <2>3, <2>4 DEF HeldKept
<1> HIDE DEF new
<1>8. TopIs(config, new)
  <2>1. w = "input" => Input.from # Nothing
    OBVIOUS
  <2> HIDE DEF w
  <2> QED BY <1>6, <2>1 DEF TopIs
<1>9. ReadyIs(config, held', new)
  <2>1. w = "ready" => Input.from = Nothing
    OBVIOUS
  <2> HIDE DEF w
  <2> QED BY <1>6, <2>1 DEF ReadyIs
<1> QED BY <1>1, <1>2, <1>3, <1>6, <1>7, <1>8, <1>9, SetTopKeeps DEF HeldKept

(* An input that is given to a package which no call on the stack runs.    *)
LEMMA GivenTo ==
  ASSUME BuildInv, CallsInv, GivenInv, Calling, NEW p \in PackageNames, NEW v \in STRING,
         held' = [held EXCEPT ![p].input = v], \A i \in 1..Len(stack) : stack[i].pkg # p
  PROVE  HeldKept /\ held'[p].input = v
<1>1. held \in [PackageNames -> [input : STRING \cup {Nothing}, reset : BOOLEAN]]
  BY DEF GivenInv
<1>2. /\ held' \in [PackageNames -> [input : STRING \cup {Nothing}, reset : BOOLEAN]]
      /\ held'[p].input = v
  BY <1>1
<1>3. ASSUME NEW i \in 1..Len(stack)
      PROVE  held'[stack[i].pkg].input = held[stack[i].pkg].input
  <2>1. stack[i].pkg \in PackageNames /\ stack[i].pkg # p
    BY DEF CallsInv, StackIs, FrameIs, PackageNames
  <2> QED BY <1>1, <2>1
<1> QED BY <1>2, <1>3 DEF HeldKept

LEMMA GivePackageInputStep ==
  ASSUME BuildInv, CallsInv, GivenInv, GivePackageInput
  PROVE  CallsInv' /\ GivenInv'
<1> DEFINE new == [Top EXCEPT !.waits = "ready"]
<1>1. AtInput({"package"}) /\ Top.waits = "input" /\ UNCHANGED <<config, built>> /\ SetTop(new)
      /\ held' = [held EXCEPT ![Input.name].input = Input.from]
  BY DEF GivePackageInput, AtGiving
<1>2. /\ Calling /\ Input = UseIn(config, Top) /\ Input.kind = "package" /\ Input \in InputType
      /\ <<Head(Top.left), Input>> \in Inputs(PackageOf(Top.pkg))
  BY <1>1, AtInputIs
<1>3. /\ FrameIs(config, built, Top) /\ TopIs(config, Top) /\ config \in Configs
      /\ Top.pkg \in PackageNames
  BY <1>2, CallFacts
<1>4. AtUse(config, Top) /\ Input.name \in PackageNames /\ Input.from \in STRING
  BY <1>1, <1>2, <1>3 DEF TopIs, AtUse, InputType, PackageNames
<1>5. Depth(config)[Input.name] < Depth(config)[Top.pkg]
  BY <1>2, <1>3, <1>4, UseIsUsed
<1>6. HeldKept /\ held'[Input.name].input = Input.from
  BY <1>1, <1>2, <1>4, <1>5, NotOnStack, GivenTo
<1>7. FrameIs(config, built, new) /\ new.pkg = Top.pkg /\ new.use = Top.use
      /\ new.waits = "ready" /\ UseIn(config, new) = Input /\ AtUse(config, new)
  BY <1>2, <1>3, <1>4, Waiting DEF WaitsAs
<1> HIDE DEF new
<1>8. TopIs(config, new) /\ ReadyIs(config, held', new)
  BY <1>6, <1>7 DEF TopIs, ReadyIs
<1> QED BY <1>1, <1>2, <1>6, <1>7, <1>8, SetTopKeeps DEF HeldKept

(* A call is put on top of one that is at a use, as that use says.         *)
AsUsed(p, use, waits) ==
  \A g, f : /\ g.waits = waits /\ UseIn(config, g) = UseIn(config, Top)
           /\ f.pkg = p /\ f.use = use
           => Called(config, g, f) /\ UseGiven(held, f)

LEMMA PushStep ==
  ASSUME BuildInv, CallsInv, GivenInv, Calling, UNCHANGED <<config, built, held>>,
         AtUse(config, Top), NEW p \in PackageNames, Depth(config)[p] < Depth(config)[Top.pkg],
         NEW use, NEW waits \in {"inner", "main"}, Push(p, use, waits),
         AsUsed(p, use, waits)
  PROVE  CallsInv' /\ GivenInv'
<1> DEFINE g == [Top EXCEPT !.waits = waits]
<1>1. PICK f \in CallOf(p, use) : stack' = Append([stack EXCEPT ![Len(stack)] = g], f)
  BY DEF Push, Top
<1>2. building = Len(config) + 1 /\ FrameIs(config, built, Top)
  BY CallFacts
<1>3. FrameIs(config, built, g) /\ g.pkg = Top.pkg /\ g.use = Top.use /\ g.waits = waits
      /\ UseIn(config, g) = UseIn(config, Top) /\ AtUse(config, g)
  <2>1. WaitsAs(config, built, Top, waits, g)
    BY <1>2, Waiting
  <2> HIDE DEF g
  <2> QED BY <2>1 DEF WaitsAs
<1>4. FrameIs(config, built, f) /\ f.pkg = p /\ f.use = use /\ f.waits = "idle"
  BY <1>2, NewCall DEF Begun
<1> HIDE DEF g
<1>5. Called(config, g, f) /\ UseGiven(held, f)
  BY <1>3, <1>4 DEF AsUsed
<1>6. Depth(config)[f.pkg] < Depth(config)[g.pkg] /\ g.waits \in {"inner", "main"}
  BY <1>3, <1>4
<1> QED BY <1>1, <1>3, <1>4, <1>5, <1>6, PushKeeps

LEMMA CallInnerPackageStep ==
  ASSUME BuildInv, CallsInv, GivenInv, CallInnerPackage
  PROVE  CallsInv' /\ GivenInv'
<1>1. AtInput({"package"}) /\ Top.waits = "input" /\ UNCHANGED <<config, built, held>>
      /\ Input.from \in DOMAIN built /\ Push(Input.from, NoInput, "inner")
  BY DEF CallInnerPackage, AtGiving
<1>2. /\ Calling /\ Input = UseIn(config, Top) /\ Input.kind = "package"
      /\ <<Head(Top.left), Input>> \in Inputs(PackageOf(Top.pkg))
  BY <1>1, AtInputIs
<1>3. /\ TopIs(config, Top) /\ config \in Configs /\ Top.pkg \in PackageNames
      /\ DOMAIN built = PackageNames
  BY <1>2, CallFacts
<1>4. AtUse(config, Top) /\ Input.from # Nothing
  BY <1>1, <1>2, <1>3 DEF TopIs
<1>5. Depth(config)[Input.from] < Depth(config)[Top.pkg]
  BY <1>1, <1>2, <1>3, UseIsUsed
<1>6. NoInput.from = Nothing
  BY DEF NoInput
<1>7. AsUsed(Input.from, NoInput, "inner")
  BY <1>2, <1>4, <1>6 DEF AsUsed, Called, UseGiven
<1>8. Input.from \in PackageNames
  BY <1>1, <1>3
<1> QED BY <1>1, <1>2, <1>4, <1>5, <1>7, <1>8, PushStep

LEMMA CallPackageStep ==
  ASSUME BuildInv, CallsInv, GivenInv, CallPackage
  PROVE  CallsInv' /\ GivenInv'
<1>1. AtInput({"package"}) /\ Top.waits = "ready" /\ UNCHANGED <<config, built, held>>
      /\ Push(Input.name, Input, "main")
  BY DEF CallPackage
<1>2. /\ Calling /\ Input = UseIn(config, Top) /\ Input.kind = "package"
      /\ <<Head(Top.left), Input>> \in Inputs(PackageOf(Top.pkg))
  BY <1>1, AtInputIs
<1>3. /\ TopIs(config, Top) /\ config \in Configs /\ Top.pkg \in PackageNames
  BY <1>2, CallFacts
<1>4. AtUse(config, Top) /\ Input.name \in PackageNames
  BY <1>1, <1>2, <1>3 DEF TopIs, AtUse, PackageNames
<1>5. Depth(config)[Input.name] < Depth(config)[Top.pkg]
  BY <1>2, <1>3, <1>4, UseIsUsed
<1>6. Input.from # Nothing => held[Input.name].input = Input.from
  <2>1. ReadyIs(config, held, Top)
    BY <1>2, CallFacts DEF GivenInv, GivenIs, Top
  <2> QED BY <1>1, <1>2, <2>1 DEF ReadyIs
<1>7. AsUsed(Input.name, Input, "main")
  BY <1>2, <1>6 DEF AsUsed, Called, UseGiven
<1> QED BY <1>1, <1>2, <1>4, <1>5, <1>7, PushStep

LEMMA ReturnStep ==
  ASSUME BuildInv, CallsInv, GivenInv, Return
  PROVE  CallsInv' /\ GivenInv'
<1> DEFINE caller == Below[Len(Below)]
           inner == caller.waits = "inner"
           new == IF inner THEN [caller EXCEPT !.waits = "ready"] ELSE NextInput(caller)
           n == Len(stack) - 2
           x == UseIn(config, caller)
<1>1. Calling /\ Below # <<>> /\ UNCHANGED <<config, built>>
  BY DEF Return, AtEnd
<1>2. stack' = [Below EXCEPT ![Len(Below)] = new]
      /\ held' = IF inner THEN [held EXCEPT ![InputOf(caller).name].input = InputOf(caller).from]
                 ELSE held
  BY DEF Return
<1>3. /\ stack \in Seq(Range(stack)) /\ config \in Configs /\ Len(stack) \in Nat
      /\ DOMAIN built = PackageNames
  BY <1>1, CallFacts
<1>4. n \in Nat /\ Len(Below) = Len(stack) - 1 /\ caller = stack[Len(stack) - 1]
      /\ TopOn(stack, n, new, stack')
  <2> HIDE DEF new
  <2>1. Below = SubSeq(stack, 1, Len(stack) - 1)
    BY DEF Below
  <2>2. Uncovers(stack, Below, new)
    BY <1>1, <1>3, <2>1, PoppedTo
  <2> QED BY <1>2, <2>2 DEF Uncovers
<1>5. n + 1 = Len(stack) - 1 /\ n + 1 <= Len(stack) /\ n + 2 = Len(stack)
      /\ n + 1 \in 1..(Len(stack) - 1) /\ n + 1 \in 1..Len(stack)
  <2> DEFINE k == Len(stack)
  <2>1. k \in Nat /\ k - 2 \in Nat
    BY <1>3, <1>4
  <2> HIDE DEF k
  <2>2. (k - 2) + 1 = k - 1 /\ (k - 2) + 1 <= k /\ (k - 2) + 2 = k
        /\ (k - 2) + 1 \in 1..(k - 1) /\ (k - 2) + 1 \in 1..k
    BY <2>1
  <2> QED BY <2>2 DEF k
<1>6. caller = stack[n + 1]
  BY <1>4, <1>5
<1> HIDE DEF n, caller, new
<1>7. FrameIs(config, built, caller) /\ AtUse(config, caller)
      /\ Called(config, caller, stack[n + 2])
  <2>1. (n + 1) + 1 = n + 2
    BY <1>4
  <2> QED BY <1>5, <1>6, <2>1 DEF CallsInv, StackIs, NestingIs
<1>8. /\ caller.pkg \in PackageNames /\ caller.at \in Nat \ {0}
      /\ PackageIn(config, caller.pkg) = PackageOf(caller.pkg)
  BY <1>7 DEF FrameIs, PackageNames, PackageIn, PackageOf
<1>9. /\ InputOf(caller) = x /\ x \in InputType /\ x.kind = "package" /\ x.name \in PackageNames
      /\ <<Head(caller.left), x>> \in Inputs(PackageOf(caller.pkg))
  <2>1. Head(caller.left) \in BlocksOf(PackageOf(caller.pkg))
    BY <1>7, <1>8 DEF AtUse
  <2>2. BlockAt(caller) = BlockIn(config, caller)
        /\ (caller.at <= Len(BlockAt(caller).inputs) =>
               /\ UseIn(config, caller) \in InputType
               /\ <<Head(caller.left), UseIn(config, caller)>> \in Inputs(PackageOf(caller.pkg)))
    BY <1>3, <1>8, <2>1, AtBlock
  <2>3. InputOf(caller) = UseIn(config, caller)
    BY <2>2 DEF InputOf, UseIn
  <2>4. caller.at <= Len(BlockAt(caller).inputs)
    BY <1>7, <2>2 DEF AtUse
  <2>5. UseIn(config, caller).kind = "package" /\ UseIn(config, caller).name \in PackageNames
    BY <1>7 DEF AtUse, PackageNames
  <2> QED BY <2>2, <2>3, <2>4, <2>5
<1> HIDE DEF x
<1>10. \A i \in 1..(n + 1) : stack[i].pkg \in PackageNames /\ stack[i].pkg # x.name
  <2> DEFINE D(p) == Depth(config)[p]
  <2>1. D(x.name) < D(caller.pkg)
    BY <1>3, <1>8, <1>9, UseIsUsed
  <2>2. \A p \in PackageNames : D(p) \in Nat
    BY <1>3, DepthFalls
  <2>3. \A i \in 1..(n + 1) : i \in 1..Len(stack) /\ (i # n + 1 => i < n + 1)
    BY <1>3, <1>4, <1>5
  <2>4. \A i \in 1..Len(stack) : stack[i].pkg \in PackageNames
    BY DEF CallsInv, StackIs, FrameIs, PackageNames
  <2>5. \A i \in 1..(n + 1) : i # n + 1 => D(caller.pkg) < D(stack[i].pkg)
    BY <1>5, <1>6, <2>3 DEF CallsInv, StackIs, NestingIs
  <2>6. SUFFICES ASSUME NEW i \in 1..(n + 1), stack[i].pkg = x.name PROVE FALSE
    BY <2>3, <2>4
  <2> DEFINE dx == D(x.name)
             dc == D(caller.pkg)
  <2>7. dx \in Nat /\ dc \in Nat /\ dx < dc
    BY <1>8, <1>9, <2>1, <2>2
  <2>8. dc < dx \/ dc = dx
    BY <1>6, <2>5, <2>6
  <2> HIDE DEF dx, dc
  <2> QED BY <2>7, <2>8
<1>11. StackIs(config, built, stack) /\ GivenIs(config, stack, held)
       /\ held \in [PackageNames -> [input : STRING \cup {Nothing}, reset : BOOLEAN]]
  BY DEF CallsInv, GivenInv
<1>12. ASSUME FrameIs(config, built, new), new.pkg = caller.pkg, new.use = caller.use,
              TopIs(config, new), ReadyIs(config, held', new),
              held' \in [PackageNames -> [input : STRING \cup {Nothing}, reset : BOOLEAN]],
              \A i \in 1..(n + 1) : held'[stack[i].pkg].input = held[stack[i].pkg].input
       PROVE  CallsInv' /\ GivenInv'
  <2>1. new.pkg = stack[n + 1].pkg /\ new.use = stack[n + 1].use
    BY <1>6, <1>12
  <2>2. StackIs(config, built, stack')
    BY <1>4, <1>5, <1>11, <1>12, <2>1, TopSteps
  <2>3. GivenIs(config, stack', held')
    BY <1>3, <1>4, <1>5, <1>11, <1>12, <2>1, GivenSteps
  <2>4. held' \in [PackageNames' -> [input : STRING \cup {Nothing}, reset : BOOLEAN]]
    BY <1>1, <1>12 DEF PackageNames
  <2> QED BY <1>1, <2>2, <2>3, <2>4 DEF CallsInv, GivenInv
<1>13. CASE inner
  <2>1. WaitsAs(config, built, caller, "ready", new)
    <3>1. new = [caller EXCEPT !.waits = "ready"]
      BY <1>13 DEF new
    <3> QED BY <1>7, <3>1, Waiting
  <2>2. /\ FrameIs(config, built, new) /\ new.pkg = caller.pkg /\ new.use = caller.use
        /\ new.waits = "ready" /\ UseIn(config, new) = x /\ AtUse(config, new)
    BY <1>7, <2>1 DEF WaitsAs, x
  <2>3. held' = [held EXCEPT ![x.name].input = x.from] /\ x.from \in STRING
    BY <1>2, <1>9, <1>13 DEF InputType
  <2>4. /\ held' \in [PackageNames -> [input : STRING \cup {Nothing}, reset : BOOLEAN]]
        /\ held'[x.name].input = x.from
    BY <1>9, <1>11, <2>3
  <2>5. \A i \in 1..(n + 1) : held'[stack[i].pkg].input = held[stack[i].pkg].input
    BY <1>10, <1>11, <2>3
  <2>6. TopIs(config, new) /\ ReadyIs(config, held', new)
    BY <2>2, <2>4 DEF TopIs, ReadyIs
  <2> QED BY <1>12, <2>2, <2>4, <2>5, <2>6
<1>14. CASE ~inner
  <2>1. new = NextInput(caller) /\ held' = held
    BY <1>2, <1>14 DEF new
  <2>2. /\ FrameIs(config, built, new) /\ new.pkg = caller.pkg /\ new.use = caller.use
        /\ new.waits = "idle"
    BY <1>7, <2>1, NextInputIs
  <2>3. TopIs(config, new) /\ ReadyIs(config, held', new)
    BY <2>2, NotAtUse
  <2> QED BY <1>11, <1>12, <2>1, <2>2, <2>3
<1> QED BY <1>13, <1>14

LEMMA StartCallStep ==
  ASSUME BuildInv, CallsInv, GivenInv, StartCall
  PROVE  CallsInv' /\ GivenInv'
<1>1. building = Len(config) + 1 /\ UNCHANGED <<config, built, held>>
  BY ConfigFacts DEF BuildInv, StartCall
<1>2. PICK f \in CallOf(Main, NoInput) : stack' = <<f>>
  BY DEF StartCall
<1>3. Main \in PackageNames
  BY <1>1, BuiltFacts
<1>4. FrameIs(config, built, f) /\ f.pkg = Main /\ f.use = NoInput /\ f.waits = "idle"
  BY <1>1, <1>3, NewCall DEF Begun
<1> DEFINE t == <<f>>
<1>5. t \in Seq(Range(t)) /\ Len(t) = 1 /\ t # <<>> /\ t[1] = f
  BY DEF Range
<1> HIDE DEF t
<1>6. NestingIs(config, t)
  <2>1. 1..(Len(t) - 1) = {} /\ \A i, j \in 1..Len(t) : ~(i < j)
    BY <1>5
  <2> QED BY <2>1 DEF NestingIs
<1>7. StackIs(config, built, t)
  <2>1. TopIs(config, f)
    BY <1>4, NotAtUse
  <2>2. \A i \in 1..Len(t) : i = 1
    BY <1>5
  <2> QED BY <1>4, <1>5, <1>6, <2>1, <2>2 DEF StackIs
<1>8. GivenIs(config, t, held)
  <2>1. UseGiven(held, f)
    BY <1>4 DEF UseGiven, NoInput
  <2>2. ReadyIs(config, held, f)
    BY <1>4, NotAtUse
  <2>3. \A i \in 1..Len(t) : i = 1
    BY <1>5
  <2> QED BY <1>5, <2>1, <2>2, <2>3 DEF GivenIs
<1> QED BY <1>1, <1>2, <1>7, <1>8 DEF CallsInv, GivenInv, PackageNames, t

(* The calls nest, and what is given stays.                                *)
LEMMA CallsStep ==
  ASSUME BuildInv, CallsInv, GivenInv, [BackboneNext]_vars
  PROVE  CallsInv' /\ GivenInv'
<1>1. ASSUME UNCHANGED stack, UNCHANGED <<config, held>>, stack # <<>> => UNCHANGED built,
             stack = <<>> \/ UNCHANGED built
      PROVE  CallsInv' /\ GivenInv'
  <2>1. GivenInv'
    BY <1>1 DEF GivenInv, PackageNames
  <2>2. CASE UNCHANGED built
    BY <1>1, <2>1, <2>2 DEF CallsInv
  <2>3. CASE stack = <<>>
    <3>1. Len(stack) \in Nat /\ ~(Len(stack) > 0)
      BY <2>3, StackFacts DEF CallsInv, StackIs
    <3>2. 1..Len(stack) = {} /\ 1..(Len(stack) - 1) = {}
      BY <3>1
    <3> QED BY <1>1, <2>1, <2>3, <3>2 DEF CallsInv, StackIs, NestingIs
  <2> QED BY <1>1, <2>2, <2>3
<1>2. CASE Build
  BY <1>1, <1>2 DEF Build, BuildInv
<1>3. CASE UNCHANGED vars
  BY <1>1, <1>3 DEF vars
<1>4. CASE NoOutput \/ Done
  BY <1>1, <1>4 DEF NoOutput, Done, Fails
<1>5. CASE PassPackage \/ ReadOutput \/ ReadPackageInput
  <2>1. CASE stack' # stack
    BY <1>5, <2>1, PassPackageStep, ReadStep
  <2>2. CASE stack' = stack
    <3>1. UNCHANGED <<config, built, held>>
      BY <1>5 DEF PassPackage, ReadOutput, ReadPackageInput
    <3> QED BY <1>1, <2>2, <3>1
  <2> QED BY <2>1, <2>2
<1>6. CASE ResetInput
  <2>1. CASE Input.name \in DOMAIN built
    BY <1>6, <2>1, ResetInputStep
  <2>2. CASE Input.name \notin DOMAIN built
    BY <1>1, <1>6, <2>2 DEF ResetInput, Fails
  <2> QED BY <2>1, <2>2
<1> QED BY <1>2, <1>3, <1>4, <1>5, <1>6, StartCallStep, SortNodeStep, SortedStep, ProduceStep,
           GivePackageInputStep, CallInnerPackageStep, CallPackageStep, ReturnStep
        DEF BackboneNext

(* The calls on the stack nest along the uses of packages, each has passed *)
(* a part of its order with the outputs of that part there, and what a use *)
(* has given its package stays until the use has ended.                    *)
THEOREM CallsNest == BackboneSpec => [](BuildInv /\ CallsInv /\ GivenInv)
<1>1. BackboneInit => CallsInv /\ GivenInv
  <2> SUFFICES ASSUME BackboneInit PROVE CallsInv /\ GivenInv
    OBVIOUS
  <2>1. stack = <<>> /\ held = [p \in PackageNames |-> [input |-> Nothing, reset |-> FALSE]]
    BY DEF BackboneInit
  <2>2. <<>> \in Seq(Range(<<>>)) /\ Len(<<>>) = 0 /\ 1..0 = {} /\ 1..(0 - 1) = {}
    BY EmptySeq
  <2>3. CallsInv
    BY <2>1, <2>2 DEF CallsInv, StackIs, NestingIs
  <2>4. Nothing \in STRING \cup {Nothing}
    OBVIOUS
  <2>5. held \in [PackageNames -> [input : STRING \cup {Nothing}, reset : BOOLEAN]]
    BY <2>1, <2>4
  <2>6. GivenInv
    BY <2>1, <2>2, <2>5 DEF GivenInv, GivenIs
  <2> QED BY <2>3, <2>6
<1>2. BuildInv /\ CallsInv /\ GivenInv /\ [BackboneNext]_vars => CallsInv' /\ GivenInv'
  BY CallsStep
<1> QED BY <1>1, <1>2, PackagesAreBuilt, PTL DEF BackboneSpec

---------------------------------------------------------------------------
(* What the runs check.                                                    *)

LEMMA SortSoundHolds ==
  ASSUME BuildInv, CallsInv
  PROVE  SortSound
<1>1. ASSUME NEW p \in DOMAIN built
      PROVE  built[p].graph.edges \subseteq NodesOf(built[p].graph) \X NodesOf(built[p].graph)
  <2>1. PICK k \in 1..(building - 1) : config[k].name = p
    BY DEF BuildInv
  <2>2. IsGraph(built[p].graph)
    BY <2>1 DEF BuildInv, EntryFits
  <2> QED BY <2>2 DEF IsGraph
<1>2. ASSUME NEW i \in DOMAIN stack
      PROVE  /\ RespectsEdges(built[stack[i].pkg].graph, stack[i].sort)
             /\ EndsComplete(built[stack[i].pkg].graph, stack[i].sort)
  <2> DEFINE g == built[stack[i].pkg].graph
  <2>1. stack \in Seq(Range(stack))
    BY DEF CallsInv, StackIs
  <2>2. i \in 1..Len(stack) /\ stack # <<>>
    BY <2>1, StackFacts
  <2>3. SortInv(g, stack[i].sort) /\ stack[i].pkg \in PackageNames
    <3>1. FrameIs(config, built, stack[i])
      BY <2>2 DEF CallsInv, StackIs
    <3> QED BY <3>1 DEF FrameIs, PackageNames
  <2>4. IsGraph(g)
    BY <2>2, <2>3, BuiltFacts DEF BuildInv, EntryFits
  <2> QED BY <2>3, <2>4, EndIsComplete DEF SortInv
<1> QED BY <1>1, <1>2 DEF SortSound

LEMMA OwnInputHolds ==
  ASSUME BuildInv, CallsInv, GivenInv
  PROVE  OwnInput
<1> SUFFICES ASSUME AtInput({"own"}) PROVE UseGiven(held, Top)
  BY DEF OwnInput, UseGiven
<1>1. Len(stack) \in Nat \ {0}
  BY AtInputIs, CallFacts
<1>2. Len(stack) \in 1..Len(stack)
  BY <1>1
<1> QED BY <1>2 DEF GivenInv, GivenIs, Top

(* What a call has passed in its order: all that it had to wait for.       *)
Past(f, n) ==
  \E j \in DOMAIN f.sort.result : j <= DoneOf(f) /\ f.sort.result[j] = n

LEMMA PastIs ==
  ASSUME NEW c, NEW b, NEW f, FrameIs(c, b, f), f.sorted
  PROVE  /\ f.left # <<>> =>
              \A u : <<u, Head(f.left)>> \in b[f.pkg].graph.edges => Past(f, u)
         /\ \A u, v : Past(f, v) /\ <<u, v>> \in b[f.pkg].graph.edges => Past(f, u)
         /\ \A u : Past(f, u) /\ u \in OwnBlocks(PackageIn(c, f.pkg)) => u \in f.outputs
         /\ f.left = <<>> => \A u \in NodesOf(b[f.pkg].graph) : Past(f, u)
<1> DEFINE g == b[f.pkg].graph
           r == f.sort.result
           d == DoneOf(f)
           own == OwnBlocks(PackageIn(c, f.pkg))
           l == f.left
<1>1. SortInv(g, f.sort) /\ OrderIs(c, g, f)
  BY DEF FrameIs
<1>2. r \in Seq(NodesOf(g))
      /\ \A i \in DOMAIN r : \A e \in InEdges(g, r[i]) : \E j \in DOMAIN r : j < i /\ r[j] = e[1]
  BY <1>1 DEF SortInv, RespectsEdges
<1>3. /\ l \in Seq(NodesOf(g)) /\ d \in Nat /\ (\A k \in 1..Len(l) : l[k] = r[d + k])
      /\ (\A k \in 1..d : r[k] \in own => r[k] \in f.outputs) /\ ToSetOf(r) = NodesOf(g)
  BY <1>1 DEF OrderIs
<1>4. d = Len(r) - Len(l)
  BY DEF DoneOf
<1>5. \A u : Past(f, u) <=> \E j \in DOMAIN r : j <= d /\ r[j] = u
  BY DEF Past
<1> HIDE DEF g, r, d, own, l
<1>6. Len(r) \in Nat /\ DOMAIN r = 1..Len(r) /\ Len(l) \in Nat
  BY <1>2, <1>3, LenProperties
<1>7. ASSUME NEW i \in DOMAIN r, i <= d + 1, NEW u, <<u, r[i]>> \in g.edges
      PROVE  Past(f, u)
  <2>1. <<u, r[i]>> \in InEdges(g, r[i]) /\ <<u, r[i]>>[1] = u
    BY <1>7 DEF InEdges
  <2>2. PICK j \in DOMAIN r : j < i /\ r[j] = u
    BY <1>2, <2>1
  <2>3. j <= d
    BY <1>3, <1>6, <1>7, <2>2
  <2> QED BY <1>5, <2>2, <2>3
<1>8. ASSUME l # <<>>, NEW u, <<u, Head(l)>> \in g.edges PROVE Past(f, u)
  <2>1. Len(l) \in Nat \ {0} /\ Head(l) = l[1]
    BY <1>3, <1>8, EmptySeq, HeadTailProperties
  <2>2. d + 1 \in DOMAIN r /\ Head(l) = r[d + 1]
    BY <1>3, <1>4, <1>6, <2>1
  <2>3. d + 1 <= d + 1
    BY <1>3
  <2> QED BY <1>7, <1>8, <2>2, <2>3
<1>9. ASSUME NEW u, NEW v, Past(f, v), <<u, v>> \in g.edges PROVE Past(f, u)
  <2>1. PICK i \in DOMAIN r : i <= d /\ r[i] = v
    BY <1>5, <1>9
  <2>2. i <= d + 1
    BY <1>3, <1>6, <2>1
  <2> QED BY <1>7, <1>9, <2>1, <2>2
<1>10. ASSUME NEW u, Past(f, u), u \in own PROVE u \in f.outputs
  <2>1. PICK i \in DOMAIN r : i <= d /\ r[i] = u
    BY <1>5, <1>10
  <2>2. i \in 1..d
    BY <1>3, <1>6, <2>1
  <2> QED BY <1>3, <1>10, <2>1, <2>2
<1>11. ASSUME l = <<>>, NEW u \in NodesOf(g) PROVE Past(f, u)
  <2>1. d = Len(r)
    BY <1>4, <1>6, <1>11, EmptySeq
  <2>2. PICK i \in DOMAIN r : r[i] = u
    BY <1>3, <1>11 DEF ToSetOf
  <2>3. i <= d
    BY <1>6, <2>1, <2>2
  <2> QED BY <1>5, <2>2, <2>3
<1> QED BY <1>8, <1>9, <1>10, <1>11 DEF g, own, l

(* The call below the top is at a use of it.                               *)
LEMMA CallerIs ==
  ASSUME BuildInv, CallsInv, Calling, Top.pkg # Main
  PROVE  \E k \in 1..Len(stack) : \E x :
           /\ FrameIs(config, built, stack[k]) /\ AtUse(config, stack[k])
           /\ Called(config, stack[k], Top) /\ x = UseIn(config, stack[k])
           /\ x.kind = "package" /\ x.name \in PackageNames
           /\ stack[k].pkg \in PackageNames
           /\ PackageIn(config, stack[k].pkg) = PackageOf(stack[k].pkg)
           /\ <<Head(stack[k].left), x>> \in Inputs(PackageOf(stack[k].pkg))
           /\ stack[k].pkg = Main => k = 1
<1> DEFINE n == Len(stack)
           k == n - 1
           f == stack[k]
           x == UseIn(config, f)
<1>1. n \in Nat \ {0} /\ stack # <<>> /\ config \in Configs /\ DOMAIN built = PackageNames
  BY CallFacts
<1>2. n # 1 /\ stack[1].pkg = Main
  BY <1>1 DEF CallsInv, StackIs, Top
<1>3. k \in 1..(n - 1) /\ k \in 1..n /\ k + 1 = n
  <2> HIDE DEF n
  <2> QED BY <1>1, <1>2
<1>4. FrameIs(config, built, f) /\ AtUse(config, f) /\ Called(config, f, Top)
  <2>1. AtUse(config, f) /\ Called(config, f, stack[k + 1])
    BY <1>3 DEF CallsInv, StackIs, NestingIs
  <2>2. FrameIs(config, built, f)
    BY <1>3 DEF CallsInv, StackIs
  <2> QED BY <1>3, <2>1, <2>2 DEF Top
<1>5. f.pkg = Main => k = 1
  <2> SUFFICES ASSUME k # 1, f.pkg = Main PROVE FALSE
    OBVIOUS
  <2>1. 1 < k /\ 1 \in 1..n
    BY <1>1, <1>3
  <2>2. Depth(config)[f.pkg] < Depth(config)[stack[1].pkg]
    BY <1>3, <2>1 DEF CallsInv, StackIs, NestingIs
  <2>3. Depth(config)[Main] \in Nat
    BY <1>1, BuiltFacts, DepthFalls DEF BuildInv
  <2> QED BY <1>2, <2>2, <2>3
<1>6. /\ f.pkg \in PackageNames /\ f.at \in Nat \ {0}
      /\ PackageIn(config, f.pkg) = PackageOf(f.pkg)
  BY <1>4 DEF FrameIs, PackageNames, PackageIn, PackageOf
<1> HIDE DEF f
<1>7. Head(f.left) \in BlocksOf(PackageOf(f.pkg)) /\ f.at <= Len(BlockIn(config, f).inputs)
      /\ x.kind = "package" /\ x.name \in PackageNames
  BY <1>4, <1>6 DEF AtUse, PackageNames
<1>8. <<Head(f.left), x>> \in Inputs(PackageOf(f.pkg))
  <2>1. BlockAt(f) = BlockIn(config, f)
        /\ (f.at <= Len(BlockAt(f).inputs) =>
               /\ UseIn(config, f) \in InputType
               /\ <<Head(f.left), UseIn(config, f)>> \in Inputs(PackageOf(f.pkg)))
    BY <1>1, <1>6, <1>7, AtBlock
  <2> QED BY <1>7, <2>1
<1> HIDE DEF n, x
<1>9. x = UseIn(config, stack[k])
  BY DEF x, f
<1> HIDE DEF k
<1> QED BY <1>3, <1>4, <1>5, <1>6, <1>7, <1>8, <1>9 DEF f, n

(* A block finds the output that it reads.                                 *)
LEMMA OutputReady ==
  ASSUME BuildInv, CallsInv, AtInput({"group", "block"}), ~NestsTaker
  PROVE  Input.name \in Top.outputs \cup stack[1].outputs
<1> DEFINE pkg == PackageOf(Top.pkg)
           bi == <<Head(Top.left), Input>>
<1>1. /\ Calling /\ Top.sorted /\ Top.left # <<>> /\ Input \in InputType
      /\ Input.kind \in {"group", "block"} /\ bi \in Inputs(pkg)
  BY AtInputIs
<1>2. /\ config \in Configs /\ building = Len(config) + 1 /\ FrameIs(config, built, Top)
      /\ Top.pkg \in PackageNames /\ PackageIn(config, Top.pkg) = pkg /\ DOMAIN built = PackageNames
  BY <1>1, CallFacts
<1>3. pkg \in PackageType /\ EntryFits(config, pkg, built[Top.pkg], built[Main].graph.edges)
      /\ pkg.name = Top.pkg
  BY <1>2, BuiltFacts
<1>4. bi[1] = Head(Top.left) /\ bi[2] = Input
  OBVIOUS
<1> HIDE DEF bi
<1>5. CASE ~IsOutside(pkg, Input)
  <2>1. Input.name \in OwnBlocks(pkg)
    BY <1>1, <1>4, <1>5 DEF IsOutside, OwnBlocks
  <2>2. <<Input.name, Head(Top.left)>> \in EdgesOf(pkg)
    <3>1. Input.kind # "own"
      BY <1>1
    <3> QED BY <1>1, <1>2, <1>3, <1>4, <1>5, <3>1, EdgesAre
  <2>3. <<Input.name, Head(Top.left)>> \in built[Top.pkg].graph.edges
    BY <1>3, <2>2 DEF EntryFits
  <2>4. Past(Top, Input.name)
    BY <1>1, <1>2, <2>3, PastIs
  <2> QED BY <1>1, <1>2, <2>1, <2>4, PastIs
<1>6. CASE IsOutside(pkg, Input)
  <2>1. Input \in Taken(pkg)
    BY <1>1, <1>4, <1>6 DEF Taken
  <2>2. Top.pkg # Main /\ Input.name \in OwnBlocks(config[1])
        /\ <<Input.name, Top.pkg>> \in built[Main].graph.edges
    BY <1>3, <2>1 DEF EntryFits
  <2>3. PICK k \in 1..Len(stack) : \E x :
           /\ FrameIs(config, built, stack[k]) /\ AtUse(config, stack[k])
           /\ Called(config, stack[k], Top) /\ x = UseIn(config, stack[k])
           /\ x.kind = "package" /\ x.name \in PackageNames
           /\ stack[k].pkg \in PackageNames
           /\ PackageIn(config, stack[k].pkg) = PackageOf(stack[k].pkg)
           /\ <<Head(stack[k].left), x>> \in Inputs(PackageOf(stack[k].pkg))
           /\ stack[k].pkg = Main => k = 1
    BY <1>1, <2>2, CallerIs
  <2> DEFINE f == stack[k]
             use == <<Head(f.left), UseIn(config, f)>>
             by == PackageOf(f.pkg)
  <2>4. /\ FrameIs(config, built, f) /\ f.sorted /\ f.left # <<>> /\ Called(config, f, Top)
        /\ use \in Inputs(by) /\ f.pkg \in PackageNames /\ (f.pkg = Main => k = 1)
        /\ UseIn(config, f).kind = "package" /\ PackageIn(config, f.pkg) = by
    BY <2>3 DEF AtUse
  <2>5. use[1] = Head(f.left) /\ use[2] = UseIn(config, f)
    OBVIOUS
  <2> HIDE DEF use, f
  <2> DEFINE x == use[2]
  <2>6. Top.pkg = x.name \/ (Top.pkg = x.from /\ x.from # Nothing)
    <3>1. \/ Top.pkg = UseIn(config, f).name
          \/ Top.pkg = UseIn(config, f).from /\ UseIn(config, f).from # Nothing
      BY <2>4 DEF Called
    <3> QED BY <2>5, <3>1
  <2>7. Top.pkg \in UsedIn(config, by)
    BY <1>2, <2>4, <2>5, <2>6 DEF UsedIn, PackageNames
  <2>8. f.pkg = Main
    <3>1. PICK i \in DOMAIN config : by = config[i] /\ by.name = f.pkg
      BY <1>2, <2>4, BuiltFacts
    <3>2. Taken(PackageOf(Top.pkg)) # {}
      BY <2>1
    <3> QED BY <2>7, <3>1, <3>2 DEF NestsTaker
  <2>9. f = stack[1] /\ by = config[1] /\ by \in PackageType
        /\ EntryFits(config, by, built[Main], built[Main].graph.edges)
    BY <1>2, <2>4, <2>8, BuiltFacts DEF f
  <2>10. /\ <<x.name, Head(f.left)>> \in built[Main].graph.edges
         /\ x.from # Nothing => <<x.from, x.name>> \in built[Main].graph.edges
    <3>1. /\ <<x.name, use[1]>> \in EdgesOf(by)
          /\ x.from # Nothing => <<x.from, x.name>> \in EdgesOf(by)
      BY <1>2, <2>4, <2>5, <2>9, EdgesAre
    <3> QED BY <2>5, <2>9, <3>1 DEF EntryFits
  <2> HIDE DEF x, by
  <2>11. Past(f, x.name)
    BY <2>4, <2>8, <2>10, PastIs
  <2>12. Past(f, Top.pkg)
    BY <2>4, <2>6, <2>8, <2>10, <2>11, PastIs
  <2>13. Past(f, Input.name)
    BY <2>2, <2>4, <2>8, <2>12, PastIs
  <2>14. Input.name \in f.outputs
    BY <2>2, <2>4, <2>9, <2>13, PastIs
  <2> QED BY <2>9, <2>14
<1> QED BY <1>5, <1>6

(* A block that reads the input of its package finds one.                  *)
LEMMA PackageInputReady ==
  ASSUME BuildInv, CallsInv, GivenInv, AtInput({"own"}), ~LacksInput
  PROVE  held[Top.pkg].input # Nothing
<1>1. /\ Calling /\ Input.kind = "own" /\ <<Head(Top.left), Input>> \in Inputs(PackageOf(Top.pkg))
  BY AtInputIs
<1>2. config \in Configs /\ building = Len(config) + 1 /\ Top.pkg \in PackageNames
      /\ DOMAIN built = PackageNames
  BY <1>1, CallFacts
<1>3. ReadsOwn(Top.pkg)
  <2> DEFINE bi == <<Head(Top.left), Input>>
  <2>1. bi[2] = Input /\ bi \in Inputs(PackageOf(Top.pkg))
    BY <1>1
  <2> HIDE DEF bi
  <2> QED BY <1>1, <2>1 DEF ReadsOwn
<1>4. Top.pkg # Main
  BY <1>3 DEF LacksInput
<1>5. PICK k \in 1..Len(stack) : \E x :
         /\ FrameIs(config, built, stack[k]) /\ AtUse(config, stack[k])
         /\ Called(config, stack[k], Top) /\ x = UseIn(config, stack[k])
         /\ x.kind = "package" /\ x.name \in PackageNames
         /\ stack[k].pkg \in PackageNames
         /\ PackageIn(config, stack[k].pkg) = PackageOf(stack[k].pkg)
         /\ <<Head(stack[k].left), x>> \in Inputs(PackageOf(stack[k].pkg))
         /\ stack[k].pkg = Main => k = 1
  BY <1>1, <1>4, CallerIs
<1> DEFINE f == stack[k]
           use == <<Head(f.left), UseIn(config, f)>>
<1>6. /\ Called(config, f, Top) /\ use \in Inputs(PackageOf(f.pkg)) /\ f.pkg \in PackageNames
      /\ UseIn(config, f).kind = "package"
  BY <1>5
<1>7. use[2] = UseIn(config, f)
  OBVIOUS
<1> HIDE DEF use, f
<1> DEFINE x == use[2]
<1>8. PICK i \in DOMAIN config : PackageOf(f.pkg) = config[i]
  BY <1>2, <1>6, BuiltFacts
<1>9. /\ x.from = Nothing => ~ReadsOwn(x.name)
      /\ x.from \in PackageNames => ~ReadsOwn(x.from)
  BY <1>6, <1>7, <1>8 DEF LacksInput
<1>10. \/ Top.pkg = x.name /\ Top.use = x
       \/ Top.pkg = x.from
  BY <1>6, <1>7 DEF Called
<1>11. Top.pkg = x.name /\ Top.use = x /\ x.from # Nothing
  BY <1>2, <1>3, <1>9, <1>10
<1>12. UseGiven(held, Top)
  <2>1. Len(stack) \in Nat \ {0}
    BY <1>1, CallFacts
  <2>2. Len(stack) \in 1..Len(stack)
    BY <2>1
  <2> QED BY <2>2 DEF GivenInv, GivenIs, Top
<1> QED BY <1>11, <1>12 DEF UseGiven

(* A node that is no block of the package is a package that is there.      *)
LEMMA NodeIsPackage ==
  ASSUME BuildInv, CallsInv, AtNode, Head(Top.left) \notin OwnBlocks(PackageOf(Top.pkg)),
         ~Misnames
  PROVE  Head(Top.left) \in DOMAIN built
<1> DEFINE pkg == PackageOf(Top.pkg)
           n == Head(Top.left)
<1>1. Calling /\ Top.sorted /\ Top.left # <<>> /\ n \notin OwnBlocks(pkg)
  BY DEF AtNode
<1>2. /\ config \in Configs /\ building = Len(config) + 1 /\ FrameIs(config, built, Top)
      /\ Top.pkg \in PackageNames /\ DOMAIN built = PackageNames
  BY <1>1, CallFacts
<1>3. pkg \in PackageType /\ EntryFits(config, pkg, built[Top.pkg], built[Main].graph.edges)
  BY <1>2, BuiltFacts
<1>4. n \in NodesOf(built[Top.pkg].graph)
  <2> DEFINE S == NodesOf(built[Top.pkg].graph)
             l == Top.left
  <2>1. l \in Seq(S) /\ l # <<>>
    BY <1>1, <1>2 DEF FrameIs, OrderIs
  <2> HIDE DEF S, l
  <2>2. Head(l) \in S
    BY <2>1, HeadTailProperties
  <2> QED BY <2>2 DEF S, l
<1>5. n \in Named(pkg) \/ n \in PackageNames
  BY <1>3, <1>4 DEF EntryFits, PackageNames
<1>6. ASSUME n \in Named(pkg) PROVE n \in PackageNames
  <2>1. n \notin BlocksOf(pkg)
    BY <1>1 DEF OwnBlocks
  <2>2. PICK bi \in Inputs(pkg) : MentionedBy(bi[2], n)
    BY <1>2, <1>3, <1>6, <2>1, NamedAre
  <2>3. bi[2].kind # "group"
    <3> SUFFICES ASSUME bi[2].kind = "group" PROVE n \in OwnBlocks(pkg)
      BY <1>1
    <3>1. n = bi[2].name
      BY <2>2 DEF MentionedBy
    <3> QED BY <3>1 DEF OwnBlocks
  <2>4. bi[2].kind = "package" /\ (n = bi[2].name \/ (n = bi[2].from /\ n # Nothing))
    BY <2>2, <2>3 DEF MentionedBy
  <2>5. PICK k \in DOMAIN config : pkg = config[k]
    BY <1>2, BuiltFacts
  <2>6. bi[2].name \in PackageNames
        /\ bi[2].from \in (PackageNames \cup OwnBlocks(pkg)) \cup {Nothing}
    BY <2>4, <2>5 DEF Misnames
  <2> QED BY <1>1, <2>4, <2>6
<1> QED BY <1>2, <1>5, <1>6

(* A use names a package that is there.                                    *)
LEMMA UseIsThere ==
  ASSUME BuildInv, CallsInv, AtInput({"package"}), ~Misnames
  PROVE  Input.name \in DOMAIN built
<1> DEFINE bi == <<Head(Top.left), Input>>
           pkg == PackageOf(Top.pkg)
<1>1. Calling /\ Input.kind = "package" /\ bi \in Inputs(pkg) /\ bi[2] = Input
  BY AtInputIs
<1>2. building = Len(config) + 1 /\ Top.pkg \in PackageNames /\ DOMAIN built = PackageNames
  BY <1>1, CallFacts
<1>3. PICK k \in DOMAIN config : pkg = config[k]
  BY <1>2, BuiltFacts
<1> HIDE DEF bi
<1> QED BY <1>1, <1>2, <1>3 DEF Misnames

(* The outputs of a package are there when its call ends.                  *)
LEMMA OutsReady ==
  ASSUME BuildInv, CallsInv, AtEnd, ~Misnames
  PROVE  built[Top.pkg].outs \subseteq Top.outputs
<1> DEFINE pkg == PackageOf(Top.pkg)
           own == OwnBlocks(pkg)
<1>1. Calling /\ Top.sorted /\ Top.left = <<>>
  BY DEF AtEnd
<1>2. /\ config \in Configs /\ building = Len(config) + 1 /\ FrameIs(config, built, Top)
      /\ Top.pkg \in PackageNames /\ PackageIn(config, Top.pkg) = pkg
  BY <1>1, CallFacts
<1>3. pkg \in PackageType /\ EntryFits(config, pkg, built[Top.pkg], built[Main].graph.edges)
  BY <1>2, BuiltFacts
<1>4. built[Top.pkg].outs = IF pkg.outs = {} THEN Leaves(GraphOf(pkg)) ELSE pkg.outs
  <2> DEFINE entry == built[Top.pkg]
             outs == IF pkg.outs = {} THEN Leaves(GraphOf(pkg)) ELSE pkg.outs
  <2>1. entry = [graph |-> entry.graph, outs |-> outs]
    BY <1>3 DEF EntryFits
  <2> HIDE DEF entry, outs
  <2>2. entry.outs = outs
    BY <2>1
  <2> QED BY <2>2 DEF entry, outs
<1>5. own \subseteq Named(pkg) /\ BlocksOf(pkg) \subseteq own
      /\ NodesOf(GraphOf(pkg)) = Named(pkg) /\ GraphOf(pkg).edges = EdgesOf(pkg)
  BY <1>2, <1>3, OwnGraph
<1>6. pkg.outs \subseteq own
  <2>1. PICK k \in DOMAIN config : pkg = config[k]
    BY <1>2, BuiltFacts
  <2> QED BY <2>1 DEF Misnames
<1>7. Leaves(GraphOf(pkg)) \subseteq BlocksOf(pkg)
  <2> SUFFICES ASSUME NEW n \in Leaves(GraphOf(pkg)), n \notin BlocksOf(pkg) PROVE FALSE
    OBVIOUS
  <2>1. n \in Named(pkg) /\ ~\E e \in EdgesOf(pkg) : e[1] = n
    BY <1>5 DEF Leaves
  <2>2. PICK bi \in Inputs(pkg) : MentionedBy(bi[2], n)
    BY <1>2, <1>3, <2>1, NamedAre
  <2>3. CASE bi[2].kind \in {"group", "package"} /\ n = bi[2].name
    <3>1. bi[2].kind # "own" /\ ~IsOutside(pkg, bi[2])
      BY <2>3 DEF IsOutside
    <3>2. <<n, bi[1]>> \in EdgesOf(pkg) /\ <<n, bi[1]>>[1] = n
      BY <1>2, <1>3, <2>3, <3>1, EdgesAre
    <3> QED BY <2>1, <3>2
  <2>4. CASE bi[2].kind = "package" /\ bi[2].from # Nothing /\ n = bi[2].from
    <3>1. <<n, bi[2].name>> \in EdgesOf(pkg) /\ <<n, bi[2].name>>[1] = n
      BY <1>2, <1>3, <2>4, EdgesAre
    <3> QED BY <2>1, <3>1
  <2> QED BY <2>2, <2>3, <2>4 DEF MentionedBy
<1>8. built[Top.pkg].outs \subseteq own
  BY <1>4, <1>5, <1>6, <1>7
<1>9. own \subseteq NodesOf(built[Top.pkg].graph)
  BY <1>3, <1>5 DEF EntryFits
<1> HIDE DEF own
<1>10. \A u \in own : u \in Top.outputs
  BY <1>1, <1>2, <1>9, PastIs DEF own
<1> QED BY <1>8, <1>10

(* So no step of a call fails.                                             *)
LEMMA InputsReadyStep ==
  ASSUME BuildInv, CallsInv, GivenInv, InputsReady, [BackboneNext]_vars
  PROVE  InputsReady'
<1>1. config' = config
  BY DEF BackboneNext, vars, Build, StartCall, SortNode, Sorted, PassPackage, Produce, ReadOutput,
         ReadPackageInput, ResetInput, GivePackageInput, CallInnerPackage, CallPackage, NoOutput,
         Return, Done
<1> DEFINE excused == Misnames \/ NestsTaker \/ LacksInput
<1>2. excused' = excused
  BY <1>1 DEF Misnames, NestsTaker, LacksInput, ReadsOwn, PackageOf, PackageNames
<1> HIDE DEF excused
<1>3. SUFFICES ASSUME status' = "failed", stack' # <<>>, ~excused PROVE FALSE
  BY <1>2 DEF InputsReady, excused
<1>4. CASE UNCHANGED vars
  BY <1>3, <1>4 DEF vars, InputsReady, excused
<1>5. CASE Build
  BY <1>3, <1>5 DEF Build, BuildInv
<1>6. CASE StartCall \/ Done
  BY <1>3, <1>6 DEF StartCall, Done
<1>7. ASSUME Calling, UNCHANGED status PROVE FALSE
  BY <1>3, <1>7 DEF Calling
<1>8. CASE SortNode \/ Produce \/ GivePackageInput \/ CallInnerPackage \/ CallPackage \/ Return
  BY <1>7, <1>8 DEF SortNode, Produce, AtInputLayer, IsBlock, AtNode, GivePackageInput, AtGiving,
                    AtInput, CallInnerPackage, CallPackage, Return, AtEnd
<1>9. CASE Sorted
  BY <1>7, <1>9, SortedStep DEF Sorted
<1>10. CASE PassPackage
  BY <1>3, <1>7, <1>10, NodeIsPackage DEF PassPackage, AtNode, excused
<1>11. CASE ReadOutput
  BY <1>3, <1>7, <1>11, OutputReady, AtInputIs DEF ReadOutput, excused
<1>12. CASE ReadPackageInput
  BY <1>3, <1>7, <1>12, PackageInputReady, AtInputIs DEF ReadPackageInput, excused
<1>13. CASE ResetInput
  BY <1>3, <1>7, <1>13, UseIsThere, AtInputIs DEF ResetInput, excused
<1>14. CASE NoOutput
  BY <1>3, <1>14, OutsReady DEF NoOutput, excused
<1> QED BY <1>4, <1>5, <1>6, <1>8, <1>9, <1>10, <1>11, <1>12, <1>13, <1>14 DEF BackboneNext

---------------------------------------------------------------------------
(* Every sort of a call is a topological order of its package's graph, and *)
(* ends with all nodes exactly if there is no cycle; the graphs have edges *)
(* between their nodes only, also when packages built later add to them.   *)
THEOREM SortsAreSound == BackboneSpec => []SortSound
<1>1. BuildInv /\ CallsInv => SortSound
  BY SortSoundHolds
<1> QED BY <1>1, CallsNest, PTL

(* A block that reads the package's input reads the one that its own use   *)
(* has given, whatever calls were made in between.                         *)
THEOREM OwnInputIsRead == BackboneSpec => []OwnInput
<1>1. BuildInv /\ CallsInv /\ GivenInv => OwnInput
  BY OwnInputHolds
<1> QED BY <1>1, CallsNest, PTL

(* Calls of any depth, in any order their sorts give, find every input they*)
(* read and every output they return, but for the three named exceptions.  *)
THEOREM InputsAreReady == BackboneSpec => []InputsReady
<1>1. BackboneInit => InputsReady
  BY DEF BackboneInit, InputsReady
<1>2. BuildInv /\ CallsInv /\ GivenInv /\ InputsReady /\ [BackboneNext]_vars => InputsReady'
  BY InputsReadyStep
<1> QED BY <1>1, <1>2, CallsNest, PTL DEF BackboneSpec
=============================================================================
