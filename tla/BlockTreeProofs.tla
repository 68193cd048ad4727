--------------------------- MODULE BlockTreeProofs ---------------------------
(***************************************************************************)
(* Lemmas about block trees, about the naturals, sums and powers the       *)
(* modules that work on them count with, and about queues; the other       *)
(* proofs cite them.                                                       *)
(***************************************************************************)
EXTENDS BlockTree, Powers, Queues, FiniteSetsExt, FiniteSetTheorems, WellFoundedInduction, TLAPS

\* Less-than on the naturals, as a relation.
LessThan == {ij \in Nat \X Nat : ij[1] < ij[2]}

\* The least-number principle.
LEMMA LeastElement ==
  ASSUME NEW S \in SUBSET Nat, S # {}
  PROVE  \E m \in S : \A i \in S : m <= i
<1>1. LessThan = OpToRel(<, Nat)
  BY Zenon DEF LessThan, OpToRel
<1>2. IsWellFoundedOn(LessThan, Nat)
  BY <1>1, NatLessThanWellFounded
<1>3. PICK m \in S : \A i \in S : ~ (<<i, m>> \in LessThan)
  BY <1>2, WFMin
<1>4. \A i \in S : i \in Nat /\ m \in Nat /\ (i < m => <<i, m>> \in LessThan)
  BY DEF LessThan
<1>5. \A i \in S : ~ (i < m)
  BY <1>3, <1>4
<1>. QED
  BY <1>4, <1>5

\* Induction on the naturals, for a set that is given as such.
LEMMA NaturalInduction ==
  ASSUME NEW S, 0 \in S, \A n \in Nat : n \in S => n + 1 \in S
  PROVE  Nat \subseteq S
<1>. DEFINE Open == Nat \ S
<1>1. SUFFICES ASSUME Open # {} PROVE FALSE
  OBVIOUS
<1>2. PICK m \in Open : \A i \in Open : m <= i
  <2>1. Open \in SUBSET Nat
    OBVIOUS
  <2>. HIDE DEF Open
  <2>. QED
    BY <1>1, <2>1, LeastElement
<1>3. m \in Nat /\ m # 0 /\ m - 1 \in Nat /\ ~ (m <= m - 1) /\ (m - 1) + 1 = m
  BY <1>2
<1>4. m - 1 \in S
  BY <1>2, <1>3
<1>. QED
  BY <1>2, <1>3, <1>4

(***************************************************************************)
(* Induction along a chain, as the existence of a lowest counterexample: a *)
(* set that holds Genesis, and holds a block when it holds its parent, is  *)
(* the set of all blocks.                                                  *)
(***************************************************************************)
LEMMA ChainInduction ==
  ASSUME NEW S, Genesis \in S,
         \A b \in Blocks \ {Genesis} : Parent[b] \in S => b \in S
  PROVE  Blocks \subseteq S
<1>. USE TreeAssumption
<1>. DEFINE Bad == {Height[b] : b \in Blocks \ S}
<1>. SUFFICES ASSUME Bad # {} PROVE FALSE
  OBVIOUS
<1>1. PICK h \in Bad : \A i \in Bad : h <= i
  <2>1. Bad \in SUBSET Nat
    OBVIOUS
  <2>. HIDE DEF Bad
  <2>. QED
    BY <2>1, LeastElement
<1>2. PICK b \in Blocks \ S : h = Height[b]
  OBVIOUS
<1>3. Parent[b] \in Blocks \ S /\ Height[b] = Height[Parent[b]] + 1
  OBVIOUS
<1>4. Height[Parent[b]] \in Bad /\ Height[Parent[b]] \in Nat
  BY <1>3
<1>5. h <= Height[Parent[b]]
  BY <1>1, <1>4
<1>. HIDE DEF Bad
<1>. QED
  BY <1>2, <1>3, <1>4, <1>5

\* The chain of b: it starts at Genesis, ends at b, and holds with a block
\* exactly that block's own chain.
ChainFacts(b) ==
  /\ Genesis \in Ancestry[b]
  /\ b \in Ancestry[b]
  /\ \A c \in Ancestry[b] :
       /\ Height[c] <= Height[b]
       /\ Height[c] = Height[b] => c = b
       /\ Ancestry[c] = {a \in Ancestry[b] : Height[a] <= Height[c]}

LEMMA ChainsAreChains == \A b \in Blocks : ChainFacts(b)
<1>. USE TreeAssumption
<1>. DEFINE S == {b \in Blocks : ChainFacts(b)}
<1>1. Genesis \in S
  BY DEF ChainFacts
<1>2. ASSUME NEW b \in Blocks \ {Genesis}, Parent[b] \in S
      PROVE  b \in S
  <2>. DEFINE p == Parent[b]
  <2>1. ChainFacts(p) /\ p \in Blocks /\ Ancestry[b] = Ancestry[p] \cup {b}
    BY <1>2
  <2>2. Height[b] = Height[p] + 1 /\ Height[p] \in Nat /\ Height[b] \in Nat
    OBVIOUS
  <2>3. ASSUME NEW c \in Ancestry[p]
        PROVE  /\ Height[c] < Height[b]
               /\ Ancestry[c] = {a \in Ancestry[b] : Height[a] <= Height[c]}
    <3>1. c \in Blocks /\ Height[c] \in Nat /\ Height[c] <= Height[p]
      BY <2>1 DEF ChainFacts
    <3>2. Ancestry[c] = {a \in Ancestry[p] : Height[a] <= Height[c]}
      BY <2>1 DEF ChainFacts
    <3>. QED
      BY <2>1, <2>2, <3>1, <3>2
  <2>4. Genesis \in Ancestry[b]
    BY <2>1 DEF ChainFacts
  <2>5. Ancestry[b] = {a \in Ancestry[b] : Height[a] <= Height[b]}
    <3>1. \A a \in Ancestry[p] : a \in Blocks /\ Height[a] \in Nat
      BY <2>1
    <3>. QED
      BY <2>1, <2>2, <2>3, <3>1
  <2>6. \A c \in Ancestry[p] : Height[c] \in Nat
    BY <2>1
  <2>. QED
    BY <2>1, <2>2, <2>3, <2>4, <2>5, <2>6 DEF ChainFacts
<1>. HIDE DEF S
<1>3. Blocks \subseteq S
  BY <1>1, <1>2, ChainInduction
<1>. QED
  BY <1>3 DEF S

\* A chain holds the parents of its blocks, one block of each height, and the
\* chains of its blocks.
LEMMA ChainMembers ==
  ASSUME NEW b \in Blocks, NEW c \in Ancestry[b]
  PROVE  /\ c \in Blocks
         /\ Ancestry[c] \subseteq Ancestry[b]
         /\ c # Genesis => Parent[c] \in Ancestry[b]
         /\ \A d \in Ancestry[b] : Height[c] = Height[d] => c = d
<1>. USE TreeAssumption
<1>1. c \in Blocks /\ ChainFacts(b) /\ ChainFacts(c)
  BY ChainsAreChains
<1>2. Ancestry[c] \subseteq Ancestry[b]
  BY <1>1 DEF ChainFacts
<1>3. ASSUME c # Genesis
      PROVE  Parent[c] \in Ancestry[b]
  <2>1. Parent[c] \in Ancestry[Parent[c]] /\ Ancestry[Parent[c]] \subseteq Ancestry[c]
    BY <1>1, <1>3, ChainsAreChains DEF ChainFacts
  <2>. QED
    BY <1>2, <2>1
<1>4. ASSUME NEW d \in Ancestry[b], Height[c] = Height[d]
      PROVE  c = d
  <2>1. Height[d] \in Nat /\ d \in Ancestry[c]
    BY <1>1, <1>4 DEF ChainFacts
  <2>. QED
    BY <1>1, <1>4, <2>1 DEF ChainFacts
<1>. QED
  BY <1>1, <1>2, <1>3, <1>4

\* The members of a chain that satisfy a condition have a highest one.
LEMMA HasHighest ==
  ASSUME NEW b \in Blocks, NEW S \in SUBSET Ancestry[b], S # {}
  PROVE  /\ Highest(S) \in S
         /\ \A c \in S : Height[c] <= Height[Highest(S)]
<1>. USE TreeAssumption
<1>. DEFINE Below == {Height[b] - Height[c] : c \in S}
<1>1. \A c \in S : Height[c] \in Nat /\ Height[b] \in Nat /\ Height[c] <= Height[b]
  BY ChainsAreChains DEF ChainFacts
<1>2. PICK h \in Below : \A i \in Below : h <= i
  <2>1. Below \in SUBSET Nat /\ Below # {}
    BY <1>1
  <2>. HIDE DEF Below
  <2>. QED
    BY <2>1, LeastElement
<1>3. PICK m \in S : h = Height[b] - Height[m]
  OBVIOUS
<1>4. ASSUME NEW c \in S
      PROVE  Height[c] <= Height[m]
  <2>1. Height[b] - Height[c] \in Below
    OBVIOUS
  <2>2. Height[b] - Height[m] <= Height[b] - Height[c]
    BY <1>2, <1>3, <2>1
  <2>. QED
    BY <1>1, <2>2
<1>. QED
  BY <1>4 DEF Highest

\* The end of a chain above one of its blocks, and the chain without it.
LEMMA EndOfChain ==
  ASSUME NEW b \in Blocks, NEW f \in Ancestry[b], b # f
  PROVE  /\ b # Genesis
         /\ b \in ChainAbove(b, f)
         /\ Highest(ChainAbove(b, f)) = b
         /\ f \in Ancestry[Parent[b]]
         /\ ChainAbove(Parent[b], f) = ChainAbove(b, f) \ {b}
         /\ {c \in Ancestry[b] : Height[c] <= Height[Parent[b]]} = Ancestry[Parent[b]]
<1>. USE TreeAssumption
<1>1. ChainFacts(b) /\ f \in Blocks
  BY ChainsAreChains
<1>2. Height[f] < Height[b] /\ Height[f] \in Nat /\ Height[b] \in Nat
  BY <1>1 DEF ChainFacts
<1>3. b # Genesis
  BY <1>1, <1>2
<1>4. b \in ChainAbove(b, f)
  BY <1>1, <1>2 DEF ChainFacts, ChainAbove
<1>5. Highest(ChainAbove(b, f)) = b
  <2>. DEFINE S == ChainAbove(b, f)
  <2>1. S \in SUBSET Ancestry[b]
    BY DEF ChainAbove
  <2>2. Highest(S) \in S /\ Height[b] <= Height[Highest(S)]
    BY <1>4, <2>1, HasHighest
  <2>3. Highest(S) \in Ancestry[b] /\ Height[Highest(S)] <= Height[b]
    BY <1>1, <2>1, <2>2 DEF ChainFacts
  <2>4. Height[Highest(S)] \in Nat
    BY <2>3
  <2>5. Height[Highest(S)] = Height[b]
    BY <1>2, <2>2, <2>3, <2>4
  <2>. QED
    BY <1>1, <2>3, <2>5 DEF ChainFacts
<1>6. Parent[b] \in Blocks /\ Ancestry[b] = Ancestry[Parent[b]] \cup {b}
  BY <1>3
<1>7. Height[b] = Height[Parent[b]] + 1 /\ Height[Parent[b]] \in Nat
  BY <1>3
<1>8. \A c \in Ancestry[Parent[b]] : Height[c] <= Height[Parent[b]] /\ Height[c] \in Nat
  BY <1>6, ChainsAreChains DEF ChainFacts
<1>9. b \notin Ancestry[Parent[b]]
  BY <1>7, <1>8
<1>10. ChainAbove(Parent[b], f) = ChainAbove(b, f) \ {b}
  BY <1>6, <1>9 DEF ChainAbove
<1>11. {c \in Ancestry[b] : Height[c] <= Height[Parent[b]]} = Ancestry[Parent[b]]
  BY <1>6, <1>7, <1>8
<1>. QED
  BY <1>3, <1>4, <1>5, <1>6, <1>10, <1>11

\* The first block of a chain above one of its blocks.
LEMMA NextInChain ==
  ASSUME NEW b \in Blocks, NEW f \in Ancestry[b], b # f
  PROVE  /\ Lowest(ChainAbove(b, f)) \in ChainAbove(b, f)
         /\ Lowest(ChainAbove(b, f)) \in Blocks \ {Genesis}
         /\ Parent[Lowest(ChainAbove(b, f))] = f
         /\ ChainAbove(b, Lowest(ChainAbove(b, f))) =
              ChainAbove(b, f) \ {Lowest(ChainAbove(b, f))}
<1>. USE TreeAssumption
<1>. DEFINE S == ChainAbove(b, f)
            Hs == {Height[c] : c \in S}
<1>1. \A c \in Ancestry[b] : c \in Blocks /\ Height[c] \in Nat
  OBVIOUS
<1>2. S \subseteq Ancestry[b] /\ \A c \in S : Height[c] > Height[f]
  BY DEF ChainAbove
<1>3. PICK h \in Hs : \A i \in Hs : h <= i
  <2>1. Hs \in SUBSET Nat /\ Hs # {}
    BY <1>1, <1>2, EndOfChain
  <2>. HIDE DEF Hs
  <2>. QED
    BY <2>1, LeastElement
<1>4. \E m \in S : \A c \in S : Height[m] <= Height[c]
  BY <1>3
<1>. DEFINE m == Lowest(S)
<1>5. m \in S /\ \A c \in S : Height[m] <= Height[c]
  BY <1>4 DEF Lowest
<1>. HIDE DEF Hs, m
<1>6. m \in Ancestry[b] /\ m \in Blocks /\ Height[m] > Height[f] /\ Height[m] \in Nat
  BY <1>1, <1>2, <1>5
<1>7. Height[f] \in Nat /\ m # Genesis
  BY <1>1, <1>6
<1>8. Parent[m] \in Ancestry[b] /\ Height[m] = Height[Parent[m]] + 1
  BY <1>6, <1>7, ChainMembers
<1>9. Height[Parent[m]] \in Nat
  BY <1>1, <1>8
<1>10. ~ (Height[Parent[m]] > Height[f])
  <2>1. SUFFICES ASSUME Height[Parent[m]] > Height[f] PROVE FALSE
    OBVIOUS
  <2>2. Parent[m] \in S
    BY <1>8, <2>1 DEF ChainAbove
  <2>3. Height[m] <= Height[Parent[m]]
    BY <1>5, <2>2
  <2>. HIDE DEF S
  <2>. QED
    BY <1>8, <1>9, <2>3
<1>11. Height[Parent[m]] = Height[f]
  BY <1>6, <1>7, <1>8, <1>9, <1>10
<1>12. Parent[m] = f
  BY <1>8, <1>11, ChainMembers
<1>13. ChainAbove(b, m) = S \ {m}
  <2>1. ASSUME NEW c \in Ancestry[b], Height[c] > Height[m]
        PROVE  c \in S /\ c # m
    BY <1>1, <1>6, <1>7, <2>1 DEF ChainAbove
  <2>2. ASSUME NEW c \in S, c # m
        PROVE  c \in Ancestry[b] /\ Height[c] > Height[m]
    <3>1. c \in Ancestry[b] /\ Height[c] \in Nat /\ Height[m] <= Height[c]
      BY <1>1, <1>2, <1>5
    <3>2. Height[c] # Height[m]
      BY <1>6, <2>2, <3>1, ChainMembers
    <3>. QED
      BY <1>6, <3>1, <3>2
  <2>. QED
    BY <2>1, <2>2 DEF ChainAbove
<1>14. m = Lowest(ChainAbove(b, f))
  BY DEF m
<1>. QED
  BY <1>5, <1>6, <1>7, <1>12, <1>13, <1>14

-----------------------------------------------------------------------------
(***************************************************************************)
(* Sums over finite sets.  The fold that computes one is a recursive       *)
(* function on the subsets of the set, which takes the elements in some    *)
(* order; what follows is that the order makes no difference.              *)
(***************************************************************************)
SumOn(F, S) == MapThenSumSet(LAMBDA x : F[x], S)

AnElement(S) == CHOOSE x \in S : TRUE
Adds(F, g, D) ==
  g = [s \in D |-> IF s = {} THEN 0 ELSE F[AnElement(s)] + g[s \ {AnElement(s)}]]

\* Induction on the size of a finite set, as the existence of a smallest counterexample.
LEMMA SmallestSet ==
  ASSUME NEW C, C # {}, \A S \in C : IsFiniteSet(S)
  PROVE  \E S \in C : \A T \in C : Cardinality(S) <= Cardinality(T)
<1>. DEFINE Sizes == {Cardinality(S) : S \in C}
<1>1. Sizes \in SUBSET Nat /\ Sizes # {}
  BY FS_CardinalityType
<1>2. PICK m \in Sizes : \A i \in Sizes : m <= i
  <2>. HIDE DEF Sizes
  <2>. QED
    BY <1>1, LeastElement
<1>. QED
  BY <1>2

\* The recursion of the sum has a solution on the subsets of every finite set.
LEMMA AddsHasSolution ==
  ASSUME NEW F, NEW S, IsFiniteSet(S)
  PROVE  \E g : Adds(F, g, SUBSET S)
<1>. DEFINE Level(n) == {s \in SUBSET S : Cardinality(s) <= n}
            Solved == {n \in Nat : \E g : Adds(F, g, Level(n))}
            Open == Nat \ Solved
<1>1. \A s \in SUBSET S : IsFiniteSet(s) /\ Cardinality(s) \in Nat /\ Cardinality(s) <= Cardinality(S)
  BY FS_Subset, FS_CardinalityType
<1>2. 0 \in Solved
  <2>1. Level(0) = {{}}
    BY <1>1, FS_EmptySet
  <2>2. Adds(F, [s \in {{}} |-> 0], {{}})
    BY DEF Adds
  <2>. QED
    BY <2>1, <2>2
<1>3. ASSUME NEW n \in Nat, n \in Solved
      PROVE  n + 1 \in Solved
  <2>1. PICK g : Adds(F, g, Level(n))
    BY <1>3
  <2>. DEFINE h == [s \in Level(n + 1) |->
                      IF s = {} THEN 0 ELSE F[AnElement(s)] + g[s \ {AnElement(s)}]]
  <2>2. ASSUME NEW s \in Level(n + 1), s # {}
        PROVE  s \ {AnElement(s)} \in Level(n) /\ s \ {AnElement(s)} \in Level(n + 1)
    <3>1. AnElement(s) \in s
      BY <2>2 DEF AnElement
    <3>2. Cardinality(s \ {AnElement(s)}) = Cardinality(s) - 1
      BY <1>1, <3>1, FS_RemoveElement
    <3>3. Cardinality(s) \in Nat /\ Cardinality(s) <= n + 1 /\ s \ {AnElement(s)} \in SUBSET S
      BY <1>1
    <3>. QED
      BY <3>2, <3>3
  <2>3. ASSUME NEW s \in Level(n)
        PROVE  h[s] = g[s]
    <3>1. s \in Level(n + 1)
      BY <1>1
    <3>2. g[s] = IF s = {} THEN 0 ELSE F[AnElement(s)] + g[s \ {AnElement(s)}]
      BY <2>1, <2>3 DEF Adds
    <3>. QED
      BY <3>1, <3>2
  <2>. HIDE DEF Level
  <2>4. Adds(F, h, Level(n + 1))
    <3>1. \A s \in Level(n + 1) :
            h[s] = IF s = {} THEN 0 ELSE F[AnElement(s)] + h[s \ {AnElement(s)}]
      BY <2>2, <2>3
    <3>2. h = [s \in Level(n + 1) |-> h[s]]
      OBVIOUS
    <3>. HIDE DEF h
    <3>. QED
      BY <3>1, <3>2 DEF Adds
  <2>. QED
    BY <2>4
<1>4. Open = {}
  <2>1. SUFFICES ASSUME Open # {} PROVE FALSE
    OBVIOUS
  <2>2. PICK m \in Open : \A i \in Open : m <= i
    <3>1. Open \in SUBSET Nat
      OBVIOUS
    <3>. HIDE DEF Open
    <3>. QED
      BY <2>1, <3>1, LeastElement
  <2>3. 0 \in Solved /\ Solved \subseteq Nat /\ \A n \in Solved : n + 1 \in Solved
    BY <1>2, <1>3
  <2>. HIDE DEF Solved
  <2>4. m \in Nat /\ m \notin Solved /\ \A i \in Nat : i \notin Solved => m <= i
    BY <2>2
  <2>5. m # 0 /\ m - 1 \in Nat /\ ~ (m <= m - 1) /\ (m - 1) + 1 = m
    BY <2>3, <2>4
  <2>6. m - 1 \in Solved
    BY <2>4, <2>5
  <2>. QED
    BY <2>3, <2>4, <2>5, <2>6
<1>5. Cardinality(S) \in Nat
  BY FS_CardinalityType
<1>6. Level(Cardinality(S)) = SUBSET S
  BY <1>1
<1>7. Cardinality(S) \in Solved
  BY <1>4, <1>5
<1>. QED
  BY <1>6, <1>7

\* It has one solution only.
LEMMA AddsHasOneSolution ==
  ASSUME NEW F, NEW S, NEW T \in SUBSET S, NEW g, NEW h,
         IsFiniteSet(S), Adds(F, g, SUBSET S), Adds(F, h, SUBSET T)
  PROVE  g[T] = h[T]
<1>. DEFINE Differ == {s \in SUBSET T : g[s] # h[s]}
<1>1. SUFFICES ASSUME Differ # {} PROVE FALSE
  OBVIOUS
<1>2. \A s \in SUBSET T : IsFiniteSet(s)
  BY FS_Subset
<1>3. PICK s \in Differ : \A u \in Differ : Cardinality(s) <= Cardinality(u)
  <2>1. \A u \in Differ : IsFiniteSet(u)
    BY <1>2
  <2>. HIDE DEF Differ
  <2>. QED
    BY <1>1, <2>1, SmallestSet
<1>4. /\ g[s] = IF s = {} THEN 0 ELSE F[AnElement(s)] + g[s \ {AnElement(s)}]
      /\ h[s] = IF s = {} THEN 0 ELSE F[AnElement(s)] + h[s \ {AnElement(s)}]
  BY DEF Adds
<1>5. s # {}
  BY <1>4
<1>6. AnElement(s) \in s
  BY <1>5 DEF AnElement
<1>7. /\ Cardinality(s) \in Nat /\ Cardinality(s \ {AnElement(s)}) = Cardinality(s) - 1
      /\ s \ {AnElement(s)} \in SUBSET T
  BY <1>2, <1>6, FS_RemoveElement, FS_CardinalityType
<1>8. s \ {AnElement(s)} \notin Differ
  <2>1. ~ (Cardinality(s) <= Cardinality(s) - 1)
    BY <1>7
  <2>. HIDE DEF Differ
  <2>. QED
    BY <1>3, <1>7, <2>1
<1>. QED
  BY <1>4, <1>5, <1>7, <1>8

\* The sum takes the elements one by one.
LEMMA SumUnfolds ==
  ASSUME NEW F, NEW S, IsFiniteSet(S)
  PROVE  SumOn(F, S) = IF S = {} THEN 0
                       ELSE F[AnElement(S)] + SumOn(F, S \ {AnElement(S)})
<1>1. ASSUME NEW T
      PROVE  SumOn(F, T) = (CHOOSE g : Adds(F, g, SUBSET T))[T]
  BY DEF SumOn, MapThenSumSet, MapThenFoldSet, Adds, AnElement
<1>2. ASSUME NEW T, IsFiniteSet(T)
      PROVE  \E g : Adds(F, g, SUBSET T) /\ SumOn(F, T) = g[T]
  <2>1. \E g : Adds(F, g, SUBSET T)
    BY <1>2, AddsHasSolution
  <2>2. Adds(F, CHOOSE g : Adds(F, g, SUBSET T), SUBSET T)
    BY <2>1
  <2>. QED
    BY <1>1, <2>2
<1>3. PICK g : Adds(F, g, SUBSET S) /\ SumOn(F, S) = g[S]
  BY <1>2
<1>4. g[S] = IF S = {} THEN 0 ELSE F[AnElement(S)] + g[S \ {AnElement(S)}]
  <2>1. S \in SUBSET S
    OBVIOUS
  <2>. QED
    BY <1>3, <2>1 DEF Adds
<1>5. PICK T \in SUBSET S : T = S \ {AnElement(S)} /\ IsFiniteSet(T)
  BY FS_RemoveElement
<1>6. PICK h : Adds(F, h, SUBSET T) /\ SumOn(F, T) = h[T]
  BY <1>2, <1>5
<1>7. g[T] = h[T]
  <2>1. Adds(F, g, SUBSET S) /\ Adds(F, h, SUBSET T)
    BY <1>3, <1>6
  <2>2. T \in SUBSET S /\ IsFiniteSet(S)
    OBVIOUS
  <2>. QED
    BY ONLY <2>1, <2>2, AddsHasOneSolution
<1>. QED
  <2>1. SumOn(F, S) = IF S = {} THEN 0 ELSE F[AnElement(S)] + g[T]
    BY <1>3, <1>4, <1>5
  <2>2. g[T] = SumOn(F, T)
    BY <1>6, <1>7
  <2>. QED
    BY <1>5, <2>1, <2>2

LEMMA SumIsInt ==
  ASSUME NEW F, NEW S, IsFiniteSet(S), \A x \in S : F[x] \in Int
  PROVE  SumOn(F, S) \in Int
<1>. DEFINE Bad == {T \in SUBSET S : SumOn(F, T) \notin Int}
<1>1. SUFFICES ASSUME Bad # {} PROVE FALSE
  OBVIOUS
<1>2. \A T \in SUBSET S : IsFiniteSet(T)
  BY FS_Subset
<1>3. PICK T \in Bad : \A U \in Bad : Cardinality(T) <= Cardinality(U)
  <2>1. \A U \in Bad : IsFiniteSet(U)
    BY <1>2
  <2>. HIDE DEF Bad
  <2>. QED
    BY <1>1, <2>1, SmallestSet
<1>4. /\ T \in SUBSET S /\ IsFiniteSet(T) /\ SumOn(F, T) \notin Int
      /\ SumOn(F, T) = IF T = {} THEN 0 ELSE F[AnElement(T)] + SumOn(F, T \ {AnElement(T)})
  BY <1>2, SumUnfolds
<1>5. T # {} /\ AnElement(T) \in T
  BY <1>4 DEF AnElement
<1>6. PICK U \in SUBSET S : U = T \ {AnElement(T)} /\ Cardinality(U) = Cardinality(T) - 1
  BY <1>4, <1>5, FS_RemoveElement
<1>7. Cardinality(T) \in Nat
  BY <1>4, FS_CardinalityType
<1>8. U \notin Bad
  <2>. HIDE DEF Bad
  <2>. QED
    BY <1>3, <1>6, <1>7
<1>9. SumOn(F, U) \in Int
  BY <1>8
<1>10. F[AnElement(T)] \in Int
  BY <1>4, <1>5
<1>. QED
  BY <1>4, <1>5, <1>6, <1>9, <1>10

\* The sum may take any element first.
LEMMA SumTakesAny ==
  ASSUME NEW F, NEW S, IsFiniteSet(S), \A y \in S : F[y] \in Int
  PROVE  \A x \in S : SumOn(F, S) = F[x] + SumOn(F, S \ {x})
<1>. DEFINE Bad == {T \in SUBSET S : \E y \in T : SumOn(F, T) # F[y] + SumOn(F, T \ {y})}
<1>1. SUFFICES ASSUME Bad # {} PROVE FALSE
  OBVIOUS
<1>2. \A T \in SUBSET S : IsFiniteSet(T)
  BY FS_Subset
<1>3. PICK T \in Bad : \A U \in Bad : Cardinality(T) <= Cardinality(U)
  <2>1. \A U \in Bad : IsFiniteSet(U)
    BY <1>2
  <2>. HIDE DEF Bad
  <2>. QED
    BY <1>1, <2>1, SmallestSet
<1>4. PICK y \in T : T \in SUBSET S /\ SumOn(F, T) # F[y] + SumOn(F, T \ {y})
  OBVIOUS
<1>5. IsFiniteSet(T) /\ T # {}
  BY <1>2, <1>4
<1>6. PICK a \in T : a = AnElement(T) /\ SumOn(F, T) = F[a] + SumOn(F, T \ {a})
  BY <1>5, SumUnfolds DEF AnElement
<1>7. a # y
  BY <1>4, <1>6
<1>8. ASSUME NEW z \in T
      PROVE  /\ T \ {z} \in SUBSET S /\ IsFiniteSet(T \ {z}) /\ T \ {z} \notin Bad
             /\ F[z] \in Int
  <2>1. /\ T \ {z} \in SUBSET S /\ IsFiniteSet(T \ {z})
        /\ Cardinality(T \ {z}) = Cardinality(T) - 1 /\ Cardinality(T) \in Nat
    BY <1>4, <1>5, FS_RemoveElement, FS_CardinalityType
  <2>2. ~ (Cardinality(T) <= Cardinality(T) - 1)
    BY <2>1
  <2>3. T \ {z} \notin Bad
    <3>. HIDE DEF Bad
    <3>. QED
      BY <1>3, <2>1, <2>2
  <2>. QED
    BY <1>4, <2>1, <2>3
<1>9. SumOn(F, T \ {a}) = F[y] + SumOn(F, (T \ {a}) \ {y})
  <2>1. T \ {a} \in SUBSET S /\ T \ {a} \notin Bad /\ y \in T \ {a}
    BY <1>7, <1>8
  <2>. QED
    BY <2>1
<1>10. SumOn(F, T \ {y}) = F[a] + SumOn(F, (T \ {y}) \ {a})
  <2>1. T \ {y} \in SUBSET S /\ T \ {y} \notin Bad /\ a \in T \ {y}
    BY <1>7, <1>8
  <2>. QED
    BY <2>1
<1>11. PICK R : R = (T \ {a}) \ {y} /\ R = (T \ {y}) \ {a}
  OBVIOUS
<1>12. SumOn(F, R) \in Int
  <2>1. R \in SUBSET S
    BY <1>4, <1>11
  <2>. QED
    BY <1>2, <2>1, SumIsInt
<1>13. F[a] \in Int /\ F[y] \in Int
  BY <1>8
<1>14. F[a] + (F[y] + SumOn(F, R)) = F[y] + (F[a] + SumOn(F, R))
  BY <1>12, <1>13
<1>. QED
  BY <1>4, <1>6, <1>9, <1>10, <1>11, <1>14

\* The sum over two sets that have nothing in common.
LEMMA SumJoins ==
  ASSUME NEW F, NEW A, NEW B, IsFiniteSet(A), IsFiniteSet(B), A \cap B = {},
         \A x \in A \cup B : F[x] \in Int
  PROVE  SumOn(F, A \cup B) = SumOn(F, A) + SumOn(F, B)
<1>. DEFINE Bad == {T \in SUBSET B : SumOn(F, A \cup T) # SumOn(F, A) + SumOn(F, T)}
<1>1. SUFFICES ASSUME Bad # {} PROVE FALSE
  OBVIOUS
<1>2. \A T \in SUBSET B : IsFiniteSet(T)
  BY FS_Subset
<1>3. PICK T \in Bad : \A U \in Bad : Cardinality(T) <= Cardinality(U)
  <2>1. \A U \in Bad : IsFiniteSet(U)
    BY <1>2
  <2>. HIDE DEF Bad
  <2>. QED
    BY <1>1, <2>1, SmallestSet
<1>4. /\ T \in SUBSET B /\ IsFiniteSet(T)
      /\ SumOn(F, A \cup T) # SumOn(F, A) + SumOn(F, T)
  BY <1>2
<1>5. SumOn(F, A) \in Int
  BY SumIsInt
<1>6. T # {}
  <2>1. SUFFICES ASSUME T = {} PROVE FALSE
    OBVIOUS
  <2>2. SumOn(F, T) = 0
    BY <1>4, <2>1, SumUnfolds
  <2>3. A \cup T = A
    BY <2>1
  <2>4. SumOn(F, A \cup T) = SumOn(F, A)
    BY <2>3
  <2>. QED
    BY <1>4, <1>5, <2>2, <2>4
<1>7. PICK x : x \in T
  BY <1>6
<1>8. PICK U \in SUBSET B :
        U = T \ {x} /\ IsFiniteSet(U) /\ Cardinality(U) = Cardinality(T) - 1
  BY <1>4, <1>7, FS_RemoveElement
<1>9. U \notin Bad
  <2>1. Cardinality(T) \in Nat
    BY <1>4, FS_CardinalityType
  <2>. HIDE DEF Bad
  <2>. QED
    BY <1>3, <1>8, <2>1
<1>10. SumOn(F, A \cup U) = SumOn(F, A) + SumOn(F, U)
  BY <1>9
<1>11. SumOn(F, T) = F[x] + SumOn(F, U)
  <2>1. \A y \in T : F[y] \in Int
    BY <1>4
  <2>. QED
    BY <1>4, <1>7, <1>8, <2>1, SumTakesAny
<1>12. SumOn(F, A \cup T) = F[x] + SumOn(F, A \cup U)
  <2>1. PICK V : V = A \cup T /\ IsFiniteSet(V)
    BY <1>4, FS_Union
  <2>2. x \in V /\ V \ {x} = A \cup U /\ \A y \in V : F[y] \in Int
    BY <1>4, <1>7, <1>8, <2>1
  <2>3. SumOn(F, V) = F[x] + SumOn(F, V \ {x})
    BY <2>1, <2>2, SumTakesAny
  <2>. QED
    BY <2>1, <2>2, <2>3
<1>13. SumOn(F, U) \in Int /\ F[x] \in Int
  BY <1>4, <1>7, <1>8, SumIsInt
<1>. QED
  BY <1>4, <1>5, <1>10, <1>11, <1>12, <1>13

\* Finitely many finite sets have finitely many elements.
LEMMA FiniteUnion ==
  ASSUME NEW S, NEW G, IsFiniteSet(S), \A x \in S : IsFiniteSet(G[x])
  PROVE  IsFiniteSet(UNION {G[x] : x \in S})
<1>. DEFINE All(T) == UNION {G[x] : x \in T}
            Bad == {T \in SUBSET S : ~ IsFiniteSet(All(T))}
<1>1. SUFFICES ASSUME Bad # {} PROVE FALSE
  OBVIOUS
<1>2. \A T \in SUBSET S : IsFiniteSet(T)
  BY FS_Subset
<1>3. PICK T \in Bad : \A U \in Bad : Cardinality(T) <= Cardinality(U)
  <2>1. \A U \in Bad : IsFiniteSet(U)
    BY <1>2
  <2>. HIDE DEF Bad
  <2>. QED
    BY <1>1, <2>1, SmallestSet
<1>4. T \in SUBSET S /\ IsFiniteSet(T) /\ ~ IsFiniteSet(All(T))
  BY <1>2
<1>5. PICK x : x \in T
  <2>1. SUFFICES ASSUME T = {} PROVE FALSE
    OBVIOUS
  <2>2. All(T) = {}
    BY <2>1
  <2>. QED
    BY <1>4, <2>2, FS_EmptySet
<1>6. PICK U \in SUBSET S : U = T \ {x} /\ Cardinality(U) = Cardinality(T) - 1
  BY <1>4, <1>5, FS_RemoveElement
<1>7. U \notin Bad
  <2>1. Cardinality(T) \in Nat
    BY <1>4, FS_CardinalityType
  <2>. HIDE DEF Bad
  <2>. QED
    BY <1>3, <1>6, <2>1
<1>8. IsFiniteSet(All(U)) /\ IsFiniteSet(G[x])
  BY <1>4, <1>5, <1>7
<1>9. All(T) = All(U) \cup G[x]
  BY <1>5, <1>6
<1>10. IsFiniteSet(All(U) \cup G[x])
  <2>. HIDE DEF All
  <2>. QED
    BY <1>8, FS_Union
<1>. QED
  BY <1>4, <1>9, <1>10

-----------------------------------------------------------------------------
\* p is a solution of the recursion of the powers, up to n.
Powers(base, p, n) ==
  p = [k \in 0 .. n |-> IF k = 0 THEN 1 ELSE base * p[k - 1]]

\* The recursion of the powers has a solution up to any exponent.
LEMMA HavePowers ==
  ASSUME NEW base
  PROVE  \A n \in Nat : \E p : Powers(base, p, n)
<1>. DEFINE S == {n \in Nat : \E p : Powers(base, p, n)}
<1>1. 0 \in S
  <2>1. Powers(base, [k \in 0 .. 0 |-> 1], 0)
    BY DEF Powers
  <2>. QED
    BY <2>1
<1>2. ASSUME NEW n \in Nat, n \in S PROVE n + 1 \in S
  <2>1. PICK p : Powers(base, p, n)
    BY <1>2
  <2>. DEFINE q == [k \in 0 .. n + 1 |-> IF k = 0 THEN 1 ELSE base * p[k - 1]]
  <2>2. ASSUME NEW k \in 0 .. n PROVE q[k] = p[k]
    BY <2>1 DEF Powers
  <2>3. ASSUME NEW k \in 0 .. n + 1, k # 0 PROVE k - 1 \in 0 .. n
    BY <2>3
  <2>4. Powers(base, q, n + 1)
    BY <2>2, <2>3 DEF Powers
  <2>. QED
    BY <2>4
<1>. HIDE DEF S
<1>3. Nat \subseteq S
  BY <1>1, <1>2, NaturalInduction
<1>. QED
  BY <1>3 DEF S

\* It has one solution only.
LEMMA OnePower ==
  ASSUME NEW base, NEW n \in Nat, NEW m \in Nat, NEW p, NEW q,
     Powers(base, p, n), Powers(base, q, m)
  PROVE \A k \in Nat : k <= n /\ k <= m => p[k] = q[k]
<1>. DEFINE S == {k \in Nat : k <= n /\ k <= m => p[k] = q[k]}
<1>1. 0 \in S
  BY DEF Powers
<1>2. ASSUME NEW k \in Nat, k \in S PROVE k + 1 \in S
  <2>1. SUFFICES ASSUME k + 1 <= n, k + 1 <= m PROVE p[k + 1] = q[k + 1]
    OBVIOUS
  <2>2. p[k] = q[k] /\ (k + 1) - 1 = k
    BY <1>2, <2>1
  <2>. QED
    BY <2>1, <2>2 DEF Powers
<1>. HIDE DEF S
<1>3. Nat \subseteq S
  BY <1>1, <1>2, NaturalInduction
<1>. QED
  BY <1>3 DEF S

\* Each power is the base times the one below.
LEMMA PowersUnfold ==
  ASSUME NEW base
  PROVE  /\ PowersOf(base)[0] = 1
         /\ \A k \in Nat : PowersOf(base)[k + 1] = base * PowersOf(base)[k]
<1>. DEFINE P(n) == CHOOSE p : Powers(base, p, n)
            g == [k \in Nat |-> P(k)[k]]
<1>1. \A n \in Nat : Powers(base, P(n), n)
  BY HavePowers
<1>2. \A n \in Nat : \A k \in 0 .. n : P(n)[k] = g[k]
  BY <1>1, OnePower
<1>3. ASSUME NEW k \in Nat PROVE g[k] = IF k = 0 THEN 1 ELSE base * g[k - 1]
  <2>1. g[k] = P(k)[k]
    OBVIOUS
  <2>2. P(k)[k] = IF k = 0 THEN 1 ELSE base * P(k)[k - 1]
    <3>. HIDE DEF P
    <3>. QED
      BY <1>1 DEF Powers
  <2>3. k # 0 => P(k)[k - 1] = g[k - 1]
    BY <1>2
  <2>. QED
    BY <2>1, <2>2, <2>3
<1>4. g = [k \in Nat |-> IF k = 0 THEN 1 ELSE base * g[k - 1]]
  <2>. DEFINE rec == [k \in Nat |-> IF k = 0 THEN 1 ELSE base * g[k - 1]]
  <2>1. \A k \in Nat : g[k] = rec[k]
    BY <1>3
  <2>2. g = [k \in Nat |-> g[k]] /\ rec = [k \in Nat |-> rec[k]]
    OBVIOUS
  <2>. HIDE DEF g
  <2>3. \A k \in Nat : g[k] = rec[k]
    BY <2>1
  <2>. HIDE DEF rec
  <2>4. g = rec
    BY <2>2, <2>3
  <2>. QED
    BY <2>4 DEF rec
<1>. DEFINE h == PowersOf(base)
<1>5. h = [k \in Nat |-> IF k = 0 THEN 1 ELSE base * h[k - 1]]
  <2>. HIDE DEF g
  <2>. QED
    BY <1>4 DEF PowersOf
<1>. HIDE DEF h
<1>6. h[0] = 1 /\ \A k \in Nat : h[k + 1] = base * h[(k + 1) - 1] /\ (k + 1) - 1 = k
  BY <1>5
<1>. QED
  BY <1>6 DEF h

\* Powers of a number that is not zero.
LEMMA PowersArePositive ==
  ASSUME NEW base \in Nat \ {0}
  PROVE  /\ PowersOf(base)[0] = 1
         /\ \A k \in Nat : /\ PowersOf(base)[k] \in Nat \ {0}
                           /\ PowersOf(base)[k + 1] = base * PowersOf(base)[k]
<1>. DEFINE p == PowersOf(base)
            S == {k \in Nat : p[k] \in Nat \ {0}}
<1>1. p[0] = 1 /\ \A k \in Nat : p[k + 1] = base * p[k]
  BY PowersUnfold
<1>. HIDE DEF p
<1>2. 0 \in S /\ \A k \in Nat : k \in S => k + 1 \in S
  BY <1>1
<1>. HIDE DEF S
<1>3. Nat \subseteq S
  BY <1>2, NaturalInduction
<1>. QED
  BY <1>1, <1>3 DEF p, S

\* A larger power is not less.
LEMMA PowersGrow ==
  ASSUME NEW base \in Nat \ {0}, NEW i \in Nat, NEW j \in Nat, i <= j
  PROVE  PowersOf(base)[i] <= PowersOf(base)[j]
<1>. DEFINE p == PowersOf(base)
            S == {k \in Nat : p[i] <= p[i + k]}
<1>1. \A k \in Nat : p[k] \in Nat \ {0} /\ p[k + 1] = base * p[k]
  BY PowersArePositive
<1>. HIDE DEF p
<1>2. 0 \in S
  BY <1>1
<1>3. ASSUME NEW k \in Nat, k \in S PROVE k + 1 \in S
  <2>1. p[i + (k + 1)] = base * p[i + k] /\ p[i + k] \in Nat /\ p[i] \in Nat
    <3>1. i + k \in Nat /\ i + (k + 1) = (i + k) + 1
      OBVIOUS
    <3>. QED
      BY <1>1, <3>1
  <2>2. \A x, y \in Nat : y # 0 => x <= y * x
    OBVIOUS
  <2>3. p[i + k] <= base * p[i + k]
    BY <2>1, <2>2
  <2>4. base * p[i + k] \in Nat
    BY <2>1
  <2>. QED
    BY <1>3, <2>1, <2>3, <2>4
<1>4. j - i \in S
  <2>. HIDE DEF S
  <2>. QED
    BY <1>2, <1>3, NaturalInduction
<1>. QED
  BY <1>4 DEF p

-----------------------------------------------------------------------------
(***************************************************************************)
(* Queues.                                                                 *)
(***************************************************************************)
\* What an element at the end adds to a sequence, and what is at its front.
LEMMA QueueFacts ==
  ASSUME NEW T, NEW s \in Seq(T)
  PROVE  /\ \A x \in T : /\ Append(s, x) \in Seq(T)
                         /\ Range(Append(s, x)) = Range(s) \cup {x}
                         /\ IsInjective(s) /\ x \notin Range(s) => IsInjective(Append(s, x))
         /\ s # <<>> => Head(s) \in T /\ Head(s) \in Range(s)
         /\ s = <<>> => Range(s) = {}
         /\ Range(s) \subseteq T
<1>1. ASSUME NEW x \in T
      PROVE  /\ Append(s, x) \in Seq(T)
             /\ Range(Append(s, x)) = Range(s) \cup {x}
             /\ IsInjective(s) /\ x \notin Range(s) => IsInjective(Append(s, x))
  <2>. DEFINE t == Append(s, x)
              n == Len(s)
  <2>1. n \in Nat /\ t \in Seq(T) /\ DOMAIN s = 1 .. n /\ DOMAIN t = 1 .. n + 1
    OBVIOUS
  <2>2. t[n + 1] = x /\ \A i \in 1 .. n : t[i] = s[i]
    OBVIOUS
  <2>3. 1 .. n + 1 = (1 .. n) \cup {n + 1}
    BY <2>1
  <2>. HIDE DEF t, n
  <2>4. Range(t) = Range(s) \cup {x}
    BY <2>1, <2>2, <2>3 DEF Range
  <2>5. IsInjective(s) /\ x \notin Range(s) => IsInjective(t)
    BY <2>1, <2>2, <2>3 DEF Range, IsInjective
  <2>. QED
    BY <2>1, <2>4, <2>5 DEF t
<1>2. s # <<>> => Head(s) = s[1] /\ 1 \in DOMAIN s
  OBVIOUS
<1>3. \A i \in DOMAIN s : s[i] \in T
  OBVIOUS
<1>4. s = <<>> => DOMAIN s = {}
  OBVIOUS
<1>. QED
  BY <1>1, <1>2, <1>3, <1>4 DEF Range

\* The recursive equation of Without, up to n.
KeptNext(s, S, k, t) == IF s[k] \in S THEN t ELSE Append(t, s[k])
Kept(s, S, kept, n) ==
  kept = [k \in 0 .. n |-> IF k = 0 THEN <<>> ELSE KeptNext(s, S, k, kept[k - 1])]

\* It has a solution.
LEMMA HaveKept == ASSUME NEW s, NEW S, NEW n \in Nat PROVE \E kept : Kept(s, S, kept, n)
<1>. DEFINE Solved == {m \in Nat : \E kept : Kept(s, S, kept, m)}
<1>1. 0 \in Solved
  <2>. DEFINE kept == [k \in 0 .. 0 |-> <<>>]
  <2>1. Kept(s, S, kept, 0)
    BY DEF Kept
  <2>. QED
    BY <2>1
<1>2. ASSUME NEW m \in Nat, m \in Solved PROVE m + 1 \in Solved
  <2>1. PICK p : Kept(s, S, p, m)
    BY <1>2
  <2>. DEFINE q == [k \in 0 .. m + 1 |->
                      IF k = 0 THEN <<>> ELSE KeptNext(s, S, k, p[k - 1])]
  <2>2. ASSUME NEW k \in 0 .. m PROVE q[k] = p[k]
    BY <2>1 DEF Kept
  <2>3. ASSUME NEW k \in 0 .. m + 1, k # 0 PROVE k - 1 \in 0 .. m
    BY <2>3
  <2>4. Kept(s, S, q, m + 1)
    BY <2>2, <2>3 DEF Kept
  <2>. QED
    BY <2>4
<1>. HIDE DEF Solved
<1>3. Nat \subseteq Solved
  BY <1>1, <1>2, NaturalInduction
<1>. QED
  BY <1>3 DEF Solved

(***************************************************************************)
(* Without leaves the elements that are not in the set, and does not       *)
(* repeat one that was there once.                                         *)
(***************************************************************************)
LEMMA WithoutFacts ==
  ASSUME NEW T, NEW s \in Seq(T), NEW S
  PROVE  /\ Without(s, S) \in Seq(T)
         /\ Range(Without(s, S)) = Range(s) \ S
         /\ IsInjective(s) => IsInjective(Without(s, S))
<1>1. Len(s) \in Nat /\ DOMAIN s = 1 .. Len(s) /\ \A i \in 1 .. Len(s) : s[i] \in T
  OBVIOUS
<1>. DEFINE n == Len(s)
            Solves(f) == Kept(s, S, f, n)
            kept == CHOOSE f : Solves(f)
<1>2. Solves(kept)
  <2>1. \E f : Solves(f)
    BY <1>1, HaveKept
  <2>. HIDE DEF Solves
  <2>. QED
    BY <2>1
<1>3. Without(s, S) = kept[n]
  BY DEF Without, Kept, KeptNext
<1>. DEFINE Right(t, k) ==
              /\ t \in Seq(T)
              /\ Range(t) = {s[i] : i \in 1 .. k} \ S
              /\ IsInjective(s) => IsInjective(t)
            R == {k \in Nat : k <= n => Right(kept[k], k)}
<1>. HIDE DEF kept, Solves, n
<1>4. /\ kept[0] = <<>>
      /\ \A k \in 1 .. n : kept[k] = KeptNext(s, S, k, kept[k - 1])
  BY <1>1, <1>2 DEF Solves, Kept, n
<1>5. 0 \in R
  <2>1. <<>> \in Seq(T) /\ Range(<<>>) = {} /\ IsInjective(<<>>)
    BY DEF Range, IsInjective
  <2>2. {s[i] : i \in 1 .. 0} = {}
    OBVIOUS
  <2>3. Right(kept[0], 0)
    BY <1>4, <2>1, <2>2
  <2>. HIDE DEF Right
  <2>. QED
    BY <2>3
<1>6. ASSUME NEW k \in Nat, k \in R PROVE k + 1 \in R
  <2>. SUFFICES ASSUME k + 1 <= n PROVE Right(kept[k + 1], k + 1)
    OBVIOUS
  <2>. DEFINE x == s[k + 1]
              t == kept[k]
  <2>1. n \in Nat /\ k <= n /\ k + 1 \in 1 .. n /\ (k + 1) - 1 = k
    BY <1>1 DEF n
  <2>2. Right(t, k) /\ x \in T
    BY <1>1, <1>6, <2>1 DEF n
  <2>3. kept[k + 1] = IF x \in S THEN t ELSE Append(t, x)
    BY <1>4, <2>1 DEF KeptNext
  <2>4. 1 .. k + 1 = (1 .. k) \cup {k + 1}
    OBVIOUS
  <2>5. {s[i] : i \in 1 .. k + 1} = {s[i] : i \in 1 .. k} \cup {x}
    BY <2>4
  <2>6. IsInjective(s) => x \notin {s[i] : i \in 1 .. k}
    <3>1. \A i \in 1 .. k : i \in 1 .. n /\ i # k + 1
      BY <2>1
    <3>. QED
      BY <1>1, <2>1, <3>1 DEF IsInjective, n
  <2>. HIDE DEF x, t
  <2>7. CASE x \in S
    BY <2>2, <2>3, <2>5, <2>7
  <2>8. CASE x \notin S
    <3>1. /\ Append(t, x) \in Seq(T)
          /\ Range(Append(t, x)) = Range(t) \cup {x}
          /\ IsInjective(t) /\ x \notin Range(t) => IsInjective(Append(t, x))
      BY <2>2, QueueFacts
    <3>. QED
      BY <2>2, <2>3, <2>5, <2>6, <2>8, <3>1
  <2>. QED
    BY <2>7, <2>8
<1>7. n \in R
  <2>. HIDE DEF R
  <2>. QED
    BY <1>1, <1>5, <1>6, NaturalInduction DEF n
<1>8. Right(kept[n], n)
  BY <1>1, <1>7 DEF n
<1>9. {s[i] : i \in 1 .. n} = Range(s)
  BY <1>1 DEF Range, n
<1>. QED
  BY <1>3, <1>8, <1>9
=============================================================================
