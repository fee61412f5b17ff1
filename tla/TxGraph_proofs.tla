--------------------------- MODULE TxGraph_proofs ---------------------------
(***************************************************************************)
(* Lemmas about graphs of txs and blocks: the blocks below a block, orders *)
(* and sums of txs, and induction over the natural numbers in a form that  *)
(* needs no operator as a parameter.                                       *)
(***************************************************************************)
EXTENDS TxGraph, FiniteSetTheorems, SequenceTheorems, WellFoundedInduction, TLAPS

------------------------------------------------------------------------------
\* Induction.

\* A set with 0 that holds every member's successor holds all natural numbers.
LEMMA NatInduct ==
  ASSUME NEW T \in SUBSET Nat, 0 \in T, \A n \in T : n + 1 \in T
  PROVE  Nat \subseteq T
<1> DEFINE R == OpToRel(<, Nat)
           U == Nat \ T
<1>1. \A x, y \in Nat : x < y => <<x, y>> \in R
  BY DEF OpToRel
<1>2. IsWellFoundedOn(R, Nat)
  BY NatLessThanWellFounded
<1> HIDE DEF R
<1>3. SUFFICES ASSUME U # {} PROVE FALSE
  OBVIOUS
<1>4. U \subseteq Nat
  OBVIOUS
<1> HIDE DEF U
<1>5. PICK x \in U : \A y \in U : ~ (<<y, x>> \in R)
  BY <1>2, <1>3, <1>4, WFMin
<1> USE DEF U
<1>6. x - 1 \in Nat /\ x - 1 < x /\ x - 1 + 1 = x
  OBVIOUS
<1>7. x - 1 \in T
  BY <1>1, <1>5, <1>6
<1> QED BY <1>6, <1>7

------------------------------------------------------------------------------
\* The blocks below a block.

\* Ancestors[b] holds b, and with a block its parent, and nothing that is not
\* in every such set.
LEMMA AncestorsClosed ==
  ASSUME NEW b \in Block
  PROVE  /\ b \in Ancestors[b]
         /\ Ancestors[b] \subseteq Block
         /\ \A a \in Ancestors[b] : Parent[a] # NoBlock => Parent[a] \in Ancestors[b]
<1>1. Ancestors[b] =
        {a \in Block : \A set \in SUBSET Block :
           (\A y \in Block : (y = b \/ \E x \in set : Parent[x] = y) => y \in set)
             => a \in set}
  BY DEF Ancestors, LeastClosed
<1>2. ASSUME NEW a \in Ancestors[b], Parent[a] # NoBlock
      PROVE  Parent[a] \in Ancestors[b]
  <2>1. a \in Block /\ Parent[a] \in Block
    BY <1>1, <1>2, ParentAssumption
  <2> QED BY <1>1, <1>2, <2>1
<1> QED BY <1>1, <1>2

\* A set with b that holds every member's parent holds all of Ancestors[b].
LEMMA AncestorsLeast ==
  ASSUME NEW b \in Block, NEW set \in SUBSET Block, b \in set,
         \A x \in set : Parent[x] # NoBlock => Parent[x] \in set
  PROVE  Ancestors[b] \subseteq set
<1>1. Ancestors[b] =
        {a \in Block : \A s \in SUBSET Block :
           (\A y \in Block : (y = b \/ \E x \in s : Parent[x] = y) => y \in s)
             => a \in s}
  BY DEF Ancestors, LeastClosed
<1>2. \A y \in Block : (y = b \/ \E x \in set : Parent[x] = y) => y \in set
  BY NoBlockAssumption
<1> QED BY <1>1, <1>2

\* The ancestors of a block are the block and those of its parent.
LEMMA AncestorsOfChild ==
  ASSUME NEW b \in Block, Parent[b] # NoBlock
  PROVE  /\ Parent[b] \in Block
         /\ Ancestors[b] = {b} \cup Ancestors[Parent[b]]
<1>1. Parent[b] \in Block
  BY ParentAssumption
<1>2. Ancestors[Parent[b]] \subseteq Ancestors[b]
  BY <1>1, AncestorsClosed, AncestorsLeast
<1>3. Ancestors[b] \subseteq {b} \cup Ancestors[Parent[b]]
  <2> DEFINE set == {b} \cup Ancestors[Parent[b]]
  <2>1. set \in SUBSET Block
    BY <1>1, AncestorsClosed
  <2>2. \A x \in set : Parent[x] # NoBlock => Parent[x] \in set
    BY <1>1, AncestorsClosed
  <2> QED BY <2>1, <2>2, AncestorsLeast
<1> QED BY <1>1, <1>2, <1>3, AncestorsClosed

\* A block is not below its parent.
LEMMA NotBelowParent ==
  ASSUME NEW b \in Block, Parent[b] # NoBlock
  PROVE  b \notin Ancestors[Parent[b]]
<1> DEFINE p == Parent[b]
           low == {a \in Block : Height[a] <= Height[p]}
<1>1. p \in Block /\ Height[b] = Height[p] + 1 /\ Height[p] \in Nat
  BY ParentAssumption, HeightAssumption
<1>2. p \in low /\ b \notin low
  BY <1>1
<1>3. \A x \in low : Parent[x] # NoBlock => Parent[x] \in low
  BY <1>1, ParentAssumption, HeightAssumption
<1> HIDE DEF low
<1>4. low \in SUBSET Block
  BY DEF low
<1> QED BY <1>1, <1>2, <1>3, <1>4, AncestorsLeast

\* The blocks below a block have the ones below them below it, too, and all of
\* them are lower.
LEMMA AncestorsBelow ==
  ASSUME NEW b \in Block, NEW a \in Ancestors[b]
  PROVE  /\ a \in Block
         /\ Ancestors[a] \subseteq Ancestors[b]
         /\ a = b \/ Height[a] < Height[b]
         /\ b \in Ancestors[a] => a = b
<1>1. ASSUME NEW x \in Block PROVE \A y \in Ancestors[x] : y = x \/ Height[y] < Height[x]
  <2> DEFINE low == {y \in Block : y = x \/ Height[y] < Height[x]}
  <2>1. low \in SUBSET Block /\ x \in low
    OBVIOUS
  <2>2. \A y \in low : Parent[y] # NoBlock => Parent[y] \in low
    BY ParentAssumption, HeightAssumption
  <2> HIDE DEF low
  <2>3. Ancestors[x] \subseteq low
    BY <2>1, <2>2, AncestorsLeast
  <2> QED BY <2>3 DEF low
<1>2. a \in Block
  BY AncestorsClosed
<1>3. Ancestors[a] \subseteq Ancestors[b]
  BY <1>2, AncestorsClosed, AncestorsLeast
<1>4. Height[a] \in Nat /\ Height[b] \in Nat
  BY <1>2, HeightAssumption
<1> QED BY <1>1, <1>2, <1>3, <1>4

------------------------------------------------------------------------------
\* Sets of txs.

\* More members and more roots give more descendants.
LEMMA DescendantsGrow ==
  ASSUME NEW large, NEW small \in SUBSET large, NEW more, NEW roots \in SUBSET more
  PROVE  DescendantsIn(small, roots) \subseteq DescendantsIn(large, more)
<1>1. \A S, R : DescendantsIn(S, R) =
        {x \in S : \A set \in SUBSET S :
           (\A y \in S : Vin[y] \cap (R \cup set) # {} => y \in set) => x \in set}
  BY DEF DescendantsIn, LeastClosed
<1>2. SUFFICES ASSUME NEW x \in DescendantsIn(small, roots), NEW set \in SUBSET large,
                      \A y \in large : Vin[y] \cap (more \cup set) # {} => y \in set
               PROVE  x \in large /\ x \in set
  <2>1. DescendantsIn(small, roots) \subseteq small
    BY <1>1
  <2> QED BY <1>1, <1>2, <2>1
<1>3. \A y \in small : Vin[y] \cap (roots \cup (set \cap small)) # {} => y \in set \cap small
  BY <1>2
<1>4. x \in small
  BY <1>1
<1>5. x \in set \cap small
  <2> DEFINE inner == set \cap small
  <2>1. inner \in SUBSET small
    OBVIOUS
  <2>2. \A y \in small : Vin[y] \cap (roots \cup inner) # {} => y \in inner
    BY <1>3
  <2> HIDE DEF inner
  <2>3. x \in inner
    BY <1>1, <2>1, <2>2
  <2> QED BY <2>3 DEF inner
<1> QED BY <1>4, <1>5

\* An order of a set of txs is a sequence of its members.
LEMMA OrdersAreSequences ==
  ASSUME NEW S \in SUBSET Tx, NEW o \in SetToSeqs(S)
  PROVE  o \in Seq(S) /\ DOMAIN o = 1 .. Len(o)
<1>1. IsFiniteSet(S)
  BY TxAssumption, FS_Subset
<1>2. Cardinality(S) \in Nat
  BY <1>1, FS_CardinalityType
<1> QED BY <1>2 DEF SetToSeqs

\* It has each of them once.
LEMMA OrdersHoldAll ==
  ASSUME NEW S \in SUBSET Tx, NEW o \in SetToSeqs(S)
  PROVE  /\ ToSet(o) = S
         /\ \A i, j \in DOMAIN o : o[i] = o[j] => i = j
<1> DEFINE n == Cardinality(S)
           D == 1 .. n
<1>1. IsFiniteSet(S) /\ n \in Nat
  BY TxAssumption, FS_Subset, FS_CardinalityType
<1>2. o \in [D -> S] /\ \A i, j \in D : i # j => o[i] # o[j]
  BY DEF SetToSeqs
<1>3. IsFiniteSet(D) /\ Cardinality(D) = n
  BY <1>1, FS_Interval
<1> HIDE DEF D, n
<1>4. o \in Injection(D, S)
  BY <1>2 DEF Injection, IsInjective
<1>5. o \in Surjection(D, S)
  BY <1>1, <1>3, <1>4, FS_Injection DEF n
<1> QED BY <1>2, <1>5 DEF Surjection, ToSet

\* There is a number of them.
LEMMA CardinalityOfTxs ==
  ASSUME NEW S \in SUBSET Tx PROVE Cardinality(S) \in Nat
BY TxAssumption, FS_Subset, FS_CardinalityType

------------------------------------------------------------------------------
\* Sums over sets of txs.

\* The sum of W over S.
SumOver(W, S) == MapThenSumSet(LAMBDA t : W[t], S)

Pick(s) == CHOOSE x \in s : TRUE

\* g is a sum over the sets of txs that takes the members in the order in which
\* they are chosen.
SumsUp(g, W) ==
  /\ g \in [SUBSET Tx -> Nat]
  /\ \A s \in SUBSET Tx : g[s] = IF s = {} THEN 0 ELSE W[Pick(s)] + g[s \ {Pick(s)}]

\* A set without one of its members is smaller by one.
LEMMA RemovedCardinality ==
  ASSUME NEW s \in SUBSET Tx, NEW x \in s
  PROVE  /\ Cardinality(s) \in Nat /\ Cardinality(s) > 0
         /\ Cardinality(s \ {x}) \in Nat /\ Cardinality(s \ {x}) = Cardinality(s) - 1
<1>1. IsFiniteSet(s)
  BY TxAssumption, FS_Subset
<1>2. Cardinality(s) \in Nat /\ Cardinality(s \ {x}) \in Nat
  BY CardinalityOfTxs
<1>3. Cardinality(s \ {x}) = Cardinality(s) - 1
  BY <1>1, FS_RemoveElement
<1> QED BY <1>2, <1>3

\* There is such a sum.
LEMMA SumExists ==
  ASSUME NEW W \in [Tx -> Nat] PROVE \E g : SumsUp(g, W)
<1> DEFINE Step(g, s) == IF s = {} THEN 0 ELSE W[Pick(s)] + g[s \ {Pick(s)}]
           Up(n, g) == \A s \in SUBSET Tx : Cardinality(s) <= n => g[s] = Step(g, s)
           T == {n \in Nat : \E g \in [SUBSET Tx -> Nat] : Up(n, g)}
<1>1. \A s \in SUBSET Tx : s # {} => Pick(s) \in s
  BY DEF Pick
<1>2. \A s \in SUBSET Tx, g \in [SUBSET Tx -> Nat] : Step(g, s) \in Nat
  BY <1>1
<1>3. 0 \in T
  <2>1. [s \in SUBSET Tx |-> 0] \in [SUBSET Tx -> Nat]
    OBVIOUS
  <2>2. \A s \in SUBSET Tx : Cardinality(s) <= 0 => s = {}
    <3>1. TAKE s \in SUBSET Tx
    <3>2. ASSUME NEW x \in s PROVE Cardinality(s) > 0 /\ Cardinality(s) \in Nat
      BY RemovedCardinality
    <3> QED BY <3>2
  <2> QED BY <2>1, <2>2
<1>4. ASSUME NEW n \in T PROVE n + 1 \in T
  <2>1. PICK g \in [SUBSET Tx -> Nat] : Up(n, g)
    OBVIOUS
  <2> DEFINE h == [s \in SUBSET Tx |-> IF Cardinality(s) <= n THEN g[s] ELSE Step(g, s)]
  <2>2. h \in [SUBSET Tx -> Nat]
    BY <1>2
  <2>3. ASSUME NEW s \in SUBSET Tx, Cardinality(s) <= n + 1
        PROVE  h[s] = Step(h, s)
    <3>1. h[s] = Step(g, s)
      BY <2>1
    <3>2. CASE s = {}
      BY <3>1, <3>2
    <3>3. CASE s # {}
      <4>1. Pick(s) \in s
        BY <1>1, <3>3
      <4>2. s \ {Pick(s)} \in SUBSET Tx
        OBVIOUS
      <4>3. Cardinality(s \ {Pick(s)}) <= n
        <5>1. n \in Nat
          OBVIOUS
        <5> QED BY <5>1, <2>3, <4>1, RemovedCardinality
      <4>4. h[s \ {Pick(s)}] = g[s \ {Pick(s)}]
        BY <4>2, <4>3
      <4> QED BY <3>1, <3>3, <4>4
    <3> QED BY <3>2, <3>3
  <2> HIDE DEF h, Step
  <2> QED BY <2>2, <2>3
<1> HIDE DEF T
<1>5. Nat \subseteq T
  <2>1. T \in SUBSET Nat
    BY DEF T
  <2> QED BY <1>3, <1>4, <2>1, NatInduct
<1>6. Cardinality(Tx) \in T
  BY <1>5, CardinalityOfTxs
<1>7. PICK g \in [SUBSET Tx -> Nat] : Up(Cardinality(Tx), g)
  BY <1>6 DEF T
<1>8. \A s \in SUBSET Tx : Cardinality(s) <= Cardinality(Tx)
  BY TxAssumption, FS_Subset
<1> QED BY <1>7, <1>8 DEF SumsUp

\* It is what the library computes.
LEMMA SumIsUnique ==
  ASSUME NEW W \in [Tx -> Nat], NEW g, SumsUp(g, W), NEW S \in SUBSET Tx
  PROVE  SumOver(W, S) = g[S]
<1> DEFINE Eq(l) == l = [s \in SUBSET S |-> IF s = {} THEN 0
                           ELSE W[CHOOSE x \in s : TRUE] + l[s \ {CHOOSE x \in s : TRUE}]]
           l == CHOOSE l : Eq(l)
           h == [s \in SUBSET S |-> g[s]]
           T == {n \in Nat : \A s \in SUBSET S : Cardinality(s) <= n => l[s] = g[s]}
<1>1. SumOver(W, S) = l[S]
  BY DEF SumOver, MapThenSumSet, MapThenFoldSet
<1>2. Eq(h)
  <2>1. ASSUME NEW s \in SUBSET S
        PROVE  g[s] = IF s = {} THEN 0
                      ELSE W[CHOOSE x \in s : TRUE] + h[s \ {CHOOSE x \in s : TRUE}]
    <3>1. s \in SUBSET Tx /\ s \ {Pick(s)} \in SUBSET S
      OBVIOUS
    <3> QED BY <3>1 DEF SumsUp, Pick
  <2> QED BY <2>1
<1>3. Eq(l)
  <2> HIDE DEF Eq, h
  <2> QED BY <1>2
<1> HIDE DEF l
<1>4. \A s \in SUBSET S : l[s] = IF s = {} THEN 0 ELSE W[Pick(s)] + l[s \ {Pick(s)}]
  BY <1>3 DEF Pick
<1> HIDE DEF Eq, h
<1>5. \A s \in SUBSET S : g[s] = IF s = {} THEN 0 ELSE W[Pick(s)] + g[s \ {Pick(s)}]
  BY DEF SumsUp
<1>6. \A s \in SUBSET S : s # {} => Pick(s) \in s
  BY DEF Pick
<1>7. 0 \in T
  <2>1. \A s \in SUBSET S : Cardinality(s) <= 0 => s = {}
    <3>1. TAKE s \in SUBSET S
    <3>2. ASSUME NEW x \in s PROVE Cardinality(s) > 0 /\ Cardinality(s) \in Nat
      BY RemovedCardinality
    <3> QED BY <3>2
  <2> QED BY <1>4, <1>5, <2>1
<1>8. ASSUME NEW n \in T PROVE n + 1 \in T
  <2>1. ASSUME NEW s \in SUBSET S, Cardinality(s) <= n + 1 PROVE l[s] = g[s]
    <3>1. CASE s = {}
      BY <3>1, <1>4, <1>5
    <3>2. CASE s # {}
      <4>1. Pick(s) \in s /\ s \ {Pick(s)} \in SUBSET S
        BY <1>6, <3>2
      <4>2. Cardinality(s \ {Pick(s)}) <= n
        <5>1. n \in Nat /\ s \in SUBSET Tx
          OBVIOUS
        <5> QED BY <5>1, <2>1, <4>1, RemovedCardinality
      <4>3. l[s \ {Pick(s)}] = g[s \ {Pick(s)}]
        BY <4>1, <4>2
      <4> QED BY <1>4, <1>5, <3>2, <4>3
    <3> QED BY <3>1, <3>2
  <2>2. n + 1 \in Nat
    OBVIOUS
  <2> QED BY <2>1, <2>2
<1> HIDE DEF T
<1>9. Nat \subseteq T
  <2>1. T \in SUBSET Nat
    BY DEF T
  <2> QED BY <1>7, <1>8, <2>1, NatInduct
<1>10. Cardinality(S) \in T
  BY <1>9, CardinalityOfTxs
<1>11. l[S] = g[S]
  BY <1>10, CardinalityOfTxs DEF T
<1> QED BY <1>1, <1>11

\* Any member may be taken first.
LEMMA SumAnyOrder ==
  ASSUME NEW W \in [Tx -> Nat], NEW g, SumsUp(g, W), NEW S \in SUBSET Tx, NEW y \in S
  PROVE  g[S] = W[y] + g[S \ {y}]
<1> DEFINE T == {n \in Nat : \A s \in SUBSET Tx : Cardinality(s) <= n =>
                               \A x \in s : g[s] = W[x] + g[s \ {x}]}
<1>1. \A s \in SUBSET Tx : g[s] \in Nat
  BY DEF SumsUp
<1>2. \A s \in SUBSET Tx : s # {} => Pick(s) \in s
  BY DEF Pick
<1>3. 0 \in T
  <2>1. ASSUME NEW s \in SUBSET Tx, NEW x \in s PROVE ~(Cardinality(s) <= 0)
    <3>1. Cardinality(s) \in Nat /\ Cardinality(s) > 0
      BY RemovedCardinality
    <3> QED BY <3>1
  <2> QED BY <2>1
<1>4. ASSUME NEW n \in T PROVE n + 1 \in T
  <2>1. ASSUME NEW s \in SUBSET Tx, Cardinality(s) <= n + 1, NEW x \in s
        PROVE  g[s] = W[x] + g[s \ {x}]
    <3> DEFINE z == Pick(s)
    <3>1. z \in s /\ g[s] = W[z] + g[s \ {z}]
      BY <1>2 DEF SumsUp
    <3> HIDE DEF z
    <3>2. CASE z = x
      BY <3>1, <3>2
    <3>3. CASE z # x
      <4>1. n \in Nat
        OBVIOUS
      <4>2. Cardinality(s \ {x}) <= n /\ Cardinality(s \ {z}) <= n
        BY <2>1, <3>1, <4>1, RemovedCardinality
      <4>3. g[s \ {z}] = W[x] + g[(s \ {z}) \ {x}]
        BY <3>3, <4>2
      <4>4. g[s \ {x}] = W[z] + g[(s \ {x}) \ {z}]
        BY <3>1, <3>3, <4>2
      <4>5. (s \ {x}) \ {z} = (s \ {z}) \ {x}
        OBVIOUS
      <4>6. W[x] \in Nat /\ W[z] \in Nat /\ g[(s \ {z}) \ {x}] \in Nat
        BY <1>1, <3>1
      <4>7. g[s] = W[z] + (W[x] + g[(s \ {z}) \ {x}])
        BY <3>1, <4>3
      <4>8. W[x] + g[s \ {x}] = W[x] + (W[z] + g[(s \ {z}) \ {x}])
        BY <4>4, <4>5
      <4>9. \A i, j, k \in Nat : i + (j + k) = j + (i + k)
        OBVIOUS
      <4> QED BY <4>6, <4>7, <4>8, <4>9
    <3> QED BY <3>2, <3>3
  <2> QED BY <2>1
<1> HIDE DEF T
<1>5. Nat \subseteq T
  <2>1. T \in SUBSET Nat
    BY DEF T
  <2> QED BY <1>3, <1>4, <2>1, NatInduct
<1>6. Cardinality(S) \in T
  BY <1>5, CardinalityOfTxs
<1> QED BY <1>6, CardinalityOfTxs DEF T

\* A sum is the sum without one of the members, plus that one.
LEMMA SumWithout ==
  ASSUME NEW W \in [Tx -> Nat], NEW S \in SUBSET Tx, NEW x \in S
  PROVE  SumOver(W, S) = W[x] + SumOver(W, S \ {x}) /\ SumOver(W, S \ {x}) \in Nat
<1>1. PICK g : SumsUp(g, W)
  BY SumExists
<1>2. SumOver(W, S) = g[S] /\ SumOver(W, S \ {x}) = g[S \ {x}]
  BY <1>1, SumIsUnique
<1>3. g[S \ {x}] \in Nat
  BY <1>1 DEF SumsUp
<1> QED BY <1>1, <1>2, <1>3, SumAnyOrder

\* Sums are numbers.
LEMMA SumIsNat ==
  ASSUME NEW W \in [Tx -> Nat], NEW S \in SUBSET Tx
  PROVE  SumOver(W, S) \in Nat
<1>1. PICK g : SumsUp(g, W)
  BY SumExists
<1>2. SumOver(W, S) = g[S]
  BY <1>1, SumIsUnique
<1> QED BY <1>1, <1>2 DEF SumsUp

\* The sum over nothing.
LEMMA SumOverNothing ==
  ASSUME NEW W \in [Tx -> Nat] PROVE SumOver(W, {}) = 0
<1>1. PICK g : SumsUp(g, W)
  BY SumExists
<1>2. SumOver(W, {}) = g[{}]
  BY <1>1, SumIsUnique
<1> QED BY <1>1, <1>2 DEF SumsUp

\* The sum over two sets without a common member.
LEMMA SumOfDisjoint ==
  ASSUME NEW W \in [Tx -> Nat], NEW A \in SUBSET Tx, NEW B \in SUBSET Tx, A \cap B = {}
  PROVE  SumOver(W, A \cup B) = SumOver(W, A) + SumOver(W, B)
<1> DEFINE T == {n \in Nat : \A S \in SUBSET Tx : Cardinality(S) <= n /\ A \cap S = {} =>
                               SumOver(W, A \cup S) = SumOver(W, A) + SumOver(W, S)}
<1>1. \A S \in SUBSET Tx : SumOver(W, S) \in Nat
  BY SumIsNat
<1>2. 0 \in T
  <2> SUFFICES ASSUME NEW S \in SUBSET Tx, Cardinality(S) <= 0
               PROVE  SumOver(W, A \cup S) = SumOver(W, A) + SumOver(W, S)
    OBVIOUS
  <2>1. \A x \in S : Cardinality(S) > 0 /\ Cardinality(S) \in Nat
    BY RemovedCardinality
  <2>2. S = {}
    BY <2>1
  <2>3. A \cup S = A /\ SumOver(W, S) = 0
    BY <2>2, SumOverNothing
  <2> QED BY <1>1, <2>3
<1>3. ASSUME NEW n \in T PROVE n + 1 \in T
  <2> SUFFICES ASSUME NEW S \in SUBSET Tx, Cardinality(S) <= n + 1, A \cap S = {}
               PROVE  SumOver(W, A \cup S) = SumOver(W, A) + SumOver(W, S)
    OBVIOUS
  <2>1. CASE S = {}
    <3>1. A \cup S = A /\ SumOver(W, S) = 0
      BY <2>1, SumOverNothing
    <3> QED BY <1>1, <3>1
  <2>2. CASE S # {}
    <3>1. PICK x \in S : TRUE
      BY <2>2
    <3>2. n \in Nat
      OBVIOUS
    <3>3. Cardinality(S \ {x}) <= n
      BY <3>1, <3>2, RemovedCardinality
    <3>4. SumOver(W, A \cup (S \ {x})) = SumOver(W, A) + SumOver(W, S \ {x})
      BY <3>3
    <3>5. SumOver(W, S) = W[x] + SumOver(W, S \ {x})
      BY <3>1, SumWithout
    <3>6. SumOver(W, A \cup S) = W[x] + SumOver(W, A \cup (S \ {x}))
      <4>1. (A \cup S) \ {x} = A \cup (S \ {x}) /\ x \in A \cup S /\ A \cup S \in SUBSET Tx
        BY <3>1
      <4> DEFINE U == A \cup S
      <4>2. SumOver(W, U) = W[x] + SumOver(W, U \ {x})
        <5> HIDE DEF U
        <5>1. x \in U /\ U \in SUBSET Tx
          BY <4>1 DEF U
        <5> QED BY <5>1, SumWithout
      <4> QED BY <4>1, <4>2
    <3>7. /\ SumOver(W, A) \in Nat /\ SumOver(W, S \ {x}) \in Nat /\ W[x] \in Nat
      BY <1>1, <3>1
    <3>8. \A i, j, k \in Nat : i + (j + k) = j + (i + k)
      OBVIOUS
    <3> QED BY <3>4, <3>5, <3>6, <3>7, <3>8
  <2> QED BY <2>1, <2>2
<1>4. T \in SUBSET Nat
  OBVIOUS
<1> HIDE DEF T
<1>5. Cardinality(B) \in T
  BY <1>2, <1>3, <1>4, NatInduct, CardinalityOfTxs
<1> QED BY <1>5, CardinalityOfTxs DEF T

\* A sum grows with the set, and adding a set adds at most its sum.
LEMMA SumGrows ==
  ASSUME NEW W \in [Tx -> Nat], NEW A \in SUBSET Tx, NEW B \in SUBSET Tx
  PROVE  /\ A \subseteq B => SumOver(W, A) <= SumOver(W, B)
         /\ SumOver(W, A \cup B) <= SumOver(W, A) + SumOver(W, B)
<1>1. \A S \in SUBSET Tx : SumOver(W, S) \in Nat
  BY SumIsNat
<1>2. ASSUME NEW C \in SUBSET Tx, NEW D \in SUBSET Tx, C \subseteq D
      PROVE  SumOver(W, C) <= SumOver(W, D)
  <2>1. SumOver(W, C \cup (D \ C)) = SumOver(W, C) + SumOver(W, D \ C)
    <3>1. D \ C \in SUBSET Tx /\ C \cap (D \ C) = {}
      OBVIOUS
    <3> QED BY <3>1, SumOfDisjoint
  <2>2. C \cup (D \ C) = D
    BY <1>2
  <2>3. SumOver(W, C) \in Nat /\ SumOver(W, D \ C) \in Nat
    BY <1>1
  <2>4. SumOver(W, D) = SumOver(W, C) + SumOver(W, D \ C)
    BY <2>1, <2>2, Zenon
  <2> QED BY <2>3, <2>4
<1>3. SumOver(W, A \cup B) = SumOver(W, A) + SumOver(W, B \ A)
  <2>1. B \ A \in SUBSET Tx /\ A \cap (B \ A) = {} /\ A \cup (B \ A) = A \cup B
    OBVIOUS
  <2> QED BY <2>1, SumOfDisjoint
<1>4. SumOver(W, B \ A) <= SumOver(W, B)
  BY <1>2
<1>5. SumOver(W, A) \in Nat /\ SumOver(W, B) \in Nat /\ SumOver(W, B \ A) \in Nat
  BY <1>1
<1> QED BY <1>2, <1>3, <1>4, <1>5

\* A sum of smaller numbers is smaller.
LEMMA SumPointwise ==
  ASSUME NEW V \in [Tx -> Nat], NEW W \in [Tx -> Nat], NEW B \in SUBSET Tx,
         \A x \in B : V[x] <= W[x]
  PROVE  SumOver(V, B) <= SumOver(W, B)
<1> DEFINE T == {n \in Nat : \A S \in SUBSET B : Cardinality(S) <= n =>
                               SumOver(V, S) <= SumOver(W, S)}
<1>1. \A S \in SUBSET Tx : SumOver(V, S) \in Nat /\ SumOver(W, S) \in Nat
  BY SumIsNat
<1>2. ASSUME NEW n \in Nat, NEW S \in SUBSET B, Cardinality(S) <= n,
             \A R \in SUBSET B : Cardinality(R) <= n - 1 => SumOver(V, R) <= SumOver(W, R)
      PROVE  SumOver(V, S) <= SumOver(W, S)
  <2>1. CASE S = {}
    BY <2>1, SumOverNothing
  <2>2. CASE S # {}
    <3>1. PICK x \in S : TRUE
      BY <2>2
    <3>2. S \in SUBSET Tx /\ S \ {x} \in SUBSET B /\ x \in B
      BY <3>1
    <3>3. Cardinality(S \ {x}) <= n - 1
      BY <1>2, <3>1, <3>2, RemovedCardinality
    <3>4. SumOver(V, S \ {x}) <= SumOver(W, S \ {x})
      BY <1>2, <3>2, <3>3
    <3>5. /\ SumOver(V, S) = V[x] + SumOver(V, S \ {x}) /\ SumOver(V, S \ {x}) \in Nat
          /\ SumOver(W, S) = W[x] + SumOver(W, S \ {x}) /\ SumOver(W, S \ {x}) \in Nat
      BY <3>1, <3>2, SumWithout
    <3>6. V[x] <= W[x] /\ V[x] \in Nat /\ W[x] \in Nat
      BY <3>2
    <3>7. \A i, j, k, l \in Nat : i <= j /\ k <= l => i + k <= j + l
      OBVIOUS
    <3> QED BY <3>4, <3>5, <3>6, <3>7
  <2> QED BY <2>1, <2>2
<1>3. 0 \in T
  <2>1. \A R \in SUBSET B : ~(Cardinality(R) <= 0 - 1)
    BY CardinalityOfTxs
  <2> QED BY <1>2, <2>1
<1>4. ASSUME NEW n \in T PROVE n + 1 \in T
  <2>1. n \in Nat /\ n + 1 \in Nat /\ (n + 1) - 1 = n
    OBVIOUS
  <2> QED BY <1>2, <2>1
<1>5. T \in SUBSET Nat
  OBVIOUS
<1> HIDE DEF T
<1>6. Cardinality(B) \in T
  BY <1>3, <1>4, <1>5, NatInduct, CardinalityOfTxs
<1> QED BY <1>6, CardinalityOfTxs DEF T

=============================================================================
