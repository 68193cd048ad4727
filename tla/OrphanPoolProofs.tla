--------------------------- MODULE OrphanPoolProofs ---------------------------
(***************************************************************************)
(* Theorems about the orphan pool, for every block tree, every limit and   *)
(* every lifetime of an orphan.                                            *)
(***************************************************************************)
EXTENDS OrphanPool, BlockTreeProofs

\* What the index keeps when orphans leave the pool.
LEMMA UnindexedFacts ==
  ASSUME prevOrphans \in [Blocks -> Seq(Blocks)], NEW S
  PROVE  /\ Unindexed(S) \in [Blocks -> Seq(Blocks)]
         /\ \A h \in Blocks :
              /\ Range(Unindexed(S)[h]) = Range(prevOrphans[h]) \ {o \in S : Parent[o] = h}
              /\ IsInjective(prevOrphans[h]) => IsInjective(Unindexed(S)[h])
<1>1. ASSUME NEW h \in Blocks
      PROVE  LET gone == {o \in S : Parent[o] = h}
                 rest == Without(prevOrphans[h], gone)
             IN  /\ rest \in Seq(Blocks)
                 /\ Range(rest) = Range(prevOrphans[h]) \ gone
                 /\ IsInjective(prevOrphans[h]) => IsInjective(rest)
  <2>1. prevOrphans[h] \in Seq(Blocks)
    OBVIOUS
  <2>. QED
    BY <2>1, WithoutFacts
<1>2. \A h \in Blocks : Unindexed(S)[h] = Without(prevOrphans[h], {o \in S : Parent[o] = h})
  BY DEF Unindexed
<1>3. Unindexed(S) = [h \in Blocks |-> Unindexed(S)[h]]
  BY DEF Unindexed
<1>4. \A h \in Blocks : Unindexed(S)[h] \in Seq(Blocks)
  BY <1>1, <1>2
<1>5. Unindexed(S) \in [Blocks -> Seq(Blocks)]
  BY <1>3, <1>4
<1>. QED
  BY <1>1, <1>2, <1>5

\* What addOrphanBlock and removeOrphanBlock do to the types of the pool.
LEMMA RemoveType ==
  ASSUME TypeOK, NEW b \in Blocks, RemoveOrphanBlock(b)
  PROVE  /\ Pool' = Pool \ {b}
         /\ orphans' \in [Pool' -> Nat]
         /\ prevOrphans' \in [Blocks -> Seq(Blocks)]
BY UnindexedFacts DEF TypeOK, RemoveOrphanBlock, Pool

\* The pointer the cleanup loop leaves names a live orphan, or what it named
\* before, in which case no live orphan is older; it is nil only for an empty pool.
LEMMA OldestType ==
  ASSUME TypeOK, NEW oldest \in OldestAfterCleanup
  PROVE  /\ oldest \in [block : Blocks, expiration : Nat] \cup {NoOrphan}
         /\ oldest = NoOrphan => oldestOrphan = NoOrphan /\ Unexpired = {}
         /\ oldestOrphan = NoOrphan /\ Unexpired # {} => oldest.block \in Unexpired
BY PoolAssumption DEF TypeOK, OldestAfterCleanup, Unexpired, Pool

\* The state is of its types: the pool holds blocks with an expiration, never Genesis.
THEOREM TypeCorrect == Spec => []TypeOK
<1>. USE TreeAssumption, PoolAssumption, StakeAssumption
<1>1. Init => TypeOK
  BY DEF Init, TypeOK, Pool
<1>2. ASSUME TypeOK, [Next]_vars
      PROVE  TypeOK'
  <2>1. ASSUME NEW b \in Blocks \ {Genesis}, ProcessOrphan(b)
        PROVE  TypeOK'
    <3>1. PICK oldest \in OldestAfterCleanup :
            LET full == Cardinality(Unexpired) + 1 > MaxOrphanBlocks
                kept == IF full THEN Unexpired \ {oldest.block} ELSE Unexpired
            IN  /\ oldestOrphan' = IF full THEN NoOrphan ELSE oldest
                /\ orphans' = [o \in kept \cup {b} |->
                                 IF o = b THEN clock + OrphanLife ELSE orphans[o]]
                /\ prevOrphans' = [Unindexed(Pool \ kept) EXCEPT ![Parent[b]] = Append(@, b)]
      BY <2>1 DEF ProcessOrphan, AddOrphanBlock
    <3>. DEFINE full == Cardinality(Unexpired) + 1 > MaxOrphanBlocks
                kept == IF full THEN Unexpired \ {oldest.block} ELSE Unexpired
    <3>2. Pool' = kept \cup {b} /\ orphans' \in [Pool' -> Nat]
      BY <1>2, <3>1 DEF TypeOK, Pool, Unexpired
    <3>3. Pool' \subseteq Blocks \ {Genesis}
      BY <1>2, <3>2 DEF TypeOK, Unexpired
    <3>4. prevOrphans' \in [Blocks -> Seq(Blocks)]
      <4>. DEFINE rest == Unindexed(Pool \ kept)
      <4>1. rest \in [Blocks -> Seq(Blocks)]
        BY <1>2, UnindexedFacts DEF TypeOK
      <4>2. prevOrphans' = [rest EXCEPT ![Parent[b]] = Append(@, b)]
        BY <3>1
      <4>. HIDE DEF rest
      <4>. QED
        BY <4>1, <4>2
    <3>5. oldestOrphan' \in [block : Blocks, expiration : Nat] \cup {NoOrphan}
      BY <1>2, <3>1, OldestType
    <3>6. stakeSeenOrphan' \subseteq Stakes /\ UNCHANGED <<known, clock>>
      BY <1>2, <2>1 DEF ProcessOrphan, TypeOK
    <3>. QED
      BY <1>2, <3>2, <3>3, <3>4, <3>5, <3>6 DEF TypeOK
  <2>2. ASSUME NEW b \in Blocks \ {Genesis}, Learn(b)
        PROVE  TypeOK'
    BY <1>2, <2>2 DEF TypeOK, Learn, poolVars, Pool
  <2>3. ASSUME NEW h \in Blocks, NEW o \in Blocks, TakeOrphan(h, o)
        PROVE  TypeOK'
    <3>1. RemoveOrphanBlock(o) /\ UNCHANGED <<known, clock, oldestOrphan>>
      BY <2>3 DEF TakeOrphan, RemoveOrphanBlock
    <3>2. Pool' \subseteq Blocks \ {Genesis} /\ orphans' \in [Pool' -> Nat]
      BY <1>2, <3>1, RemoveType DEF TypeOK
    <3>3. prevOrphans' \in [Blocks -> Seq(Blocks)]
      BY <1>2, <3>1, RemoveType DEF TypeOK
    <3>4. stakeSeenOrphan' \subseteq Stakes
      BY <1>2, <2>3 DEF TakeOrphan, TypeOK
    <3>. QED
      BY <1>2, <3>1, <3>2, <3>3, <3>4 DEF TypeOK
  <2>4. CASE Tick
    BY <1>2, <2>4 DEF TypeOK, Tick, poolVars, Pool
  <2>5. CASE Restart
    BY <1>2, <2>5 DEF TypeOK, Restart, Pool
  <2>6. CASE UNCHANGED vars
    BY <1>2, <2>6 DEF TypeOK, vars, Pool
  <2>. QED
    BY <1>2, <2>1, <2>2, <2>3, <2>4, <2>5, <2>6 DEF Next
<1>. QED
  BY <1>1, <1>2, PTL DEF Spec

-----------------------------------------------------------------------------
(***************************************************************************)
(* The inductive invariant behind PoolBounded: the pool can pass its limit *)
(* only with the pointer just reset, and then the next cleanup finds a     *)
(* live orphan to evict.                                                   *)
(***************************************************************************)
BoundInv == Cardinality(Pool) <= IF oldestOrphan = NoOrphan
                                 THEN MaxOrphanBlocks + 1 ELSE MaxOrphanBlocks

\* Adding an element to a finite set adds at most one to its size.
LEMMA OneMore ==
  ASSUME NEW S, IsFiniteSet(S), NEW x
  PROVE  /\ Cardinality(S) \in Nat
         /\ Cardinality(S \cup {x}) \in Nat
         /\ Cardinality(S \cup {x}) <= Cardinality(S) + 1
<1>1. IsFiniteSet(S \cup {x}) /\ Cardinality(S) \in Nat
  BY FS_AddElement, FS_CardinalityType
<1>2. Cardinality(S \cup {x}) = IF x \in S THEN Cardinality(S) ELSE Cardinality(S) + 1
  BY FS_AddElement
<1>. QED
  BY <1>1, <1>2, FS_CardinalityType

\* A pool is a finite set, and a part of it is no larger.
LEMMA PoolFinite ==
  ASSUME TypeOK, NEW S \in SUBSET Pool
  PROVE  IsFiniteSet(S) /\ Cardinality(S) \in Nat /\ Cardinality(S) <= Cardinality(Pool)
<1>1. IsFiniteSet(Pool)
  BY TreeAssumption, FS_Subset DEF TypeOK
<1>. QED
  BY <1>1, FS_Subset, FS_CardinalityType

\* The pool never holds more than maxOrphanBlocks, whatever is delivered or removed.
THEOREM OrphansBounded == Spec => []PoolBounded
<1>. USE PoolAssumption
<1>1. Init => BoundInv
  <2>. SUFFICES ASSUME Init PROVE BoundInv
    OBVIOUS
  <2>1. Pool = {}
    BY DEF Init, Pool
  <2>. QED
    BY <2>1, FS_EmptySet DEF BoundInv
<1>2. ASSUME TypeOK, BoundInv, TypeOK', [Next]_vars
      PROVE  BoundInv'
  <2>. DEFINE card == Cardinality(Pool)
  <2>1. ASSUME NEW b \in Blocks \ {Genesis}, ProcessOrphan(b)
        PROVE  BoundInv'
    <3>. DEFINE full == Cardinality(Unexpired) + 1 > MaxOrphanBlocks
    <3>1. PICK oldest \in OldestAfterCleanup :
            LET kept == IF full THEN Unexpired \ {oldest.block} ELSE Unexpired
            IN  /\ oldestOrphan' = IF full THEN NoOrphan ELSE oldest
                /\ Pool' = kept \cup {b}
      BY <2>1 DEF ProcessOrphan, AddOrphanBlock, Pool
    <3>2. /\ Unexpired \subseteq Pool
          /\ IsFiniteSet(Unexpired)
          /\ Cardinality(Unexpired) \in Nat
          /\ Cardinality(Unexpired) <= card
      BY <1>2, PoolFinite DEF Unexpired
    <3>3. CASE ~full
      <4>1. Pool' = Unexpired \cup {b} /\ oldestOrphan' = oldest
        BY <3>1, <3>3
      <4>2. /\ Cardinality(Unexpired \cup {b}) \in Nat
            /\ Cardinality(Unexpired \cup {b}) <= Cardinality(Unexpired) + 1
        BY <3>2, OneMore
      <4>. QED
        BY <3>2, <3>3, <4>1, <4>2 DEF BoundInv
    <3>4. CASE full /\ oldestOrphan = NoOrphan
      <4>1. Unexpired # {}
        BY <3>2, <3>4, FS_EmptySet
      <4>2. oldest.block \in Unexpired
        BY <1>2, <3>4, <4>1, OldestType
      <4>3. Pool' = (Unexpired \ {oldest.block}) \cup {b} /\ oldestOrphan' = NoOrphan
        BY <3>1, <3>4
      <4>4. /\ IsFiniteSet(Unexpired \ {oldest.block})
            /\ Cardinality(Unexpired \ {oldest.block}) = Cardinality(Unexpired) - 1
        BY <3>2, <4>2, FS_RemoveElement
      <4>5. /\ Cardinality((Unexpired \ {oldest.block}) \cup {b}) \in Nat
            /\ Cardinality((Unexpired \ {oldest.block}) \cup {b}) <= Cardinality(Unexpired)
        BY <3>2, <4>4, OneMore
      <4>6. card \in Nat
        BY <1>2, PoolFinite
      <4>. QED
        BY <1>2, <3>2, <3>4, <4>3, <4>5, <4>6 DEF BoundInv
    <3>5. CASE full /\ oldestOrphan # NoOrphan
      <4>1. PICK x : Pool' = (Unexpired \ {x}) \cup {b} /\ oldestOrphan' = NoOrphan
        BY <3>1, <3>5
      <4>2. /\ IsFiniteSet(Unexpired \ {x})
            /\ Cardinality(Unexpired \ {x}) \in Nat
            /\ Cardinality(Unexpired \ {x}) <= card
        BY <1>2, PoolFinite DEF Unexpired
      <4>3. /\ Cardinality((Unexpired \ {x}) \cup {b}) \in Nat
            /\ card \in Nat
            /\ Cardinality((Unexpired \ {x}) \cup {b}) <= card + 1
        <5>1. card \in Nat
          BY <1>2, PoolFinite
        <5>2. /\ Cardinality((Unexpired \ {x}) \cup {b}) \in Nat
              /\ Cardinality((Unexpired \ {x}) \cup {b}) <= Cardinality(Unexpired \ {x}) + 1
          BY <4>2, OneMore
        <5>. HIDE DEF card
        <5>. QED
          BY <4>2, <5>1, <5>2
      <4>4. card <= MaxOrphanBlocks
        BY <1>2, <3>5 DEF BoundInv
      <4>. QED
        BY <4>1, <4>3, <4>4 DEF BoundInv
    <3>. QED
      BY <3>3, <3>4, <3>5
  <2>2. ASSUME NEW h \in Blocks, NEW o \in Blocks, TakeOrphan(h, o)
        PROVE  BoundInv'
    <3>1. Pool' \in SUBSET Pool /\ UNCHANGED oldestOrphan
      BY <2>2 DEF TakeOrphan, RemoveOrphanBlock, Pool
    <3>2. Cardinality(Pool') \in Nat /\ Cardinality(Pool') <= card /\ card \in Nat
      BY <1>2, <3>1, PoolFinite
    <3>. QED
      BY <1>2, <3>1, <3>2 DEF BoundInv
  <2>3. CASE Restart
    <3>1. Pool' = {} /\ oldestOrphan' = NoOrphan
      BY <2>3 DEF Restart, Pool
    <3>. QED
      BY <3>1, FS_EmptySet DEF BoundInv
  <2>4. CASE UNCHANGED poolVars
    BY <1>2, <2>4 DEF BoundInv, Pool, poolVars
  <2>. QED
    BY <1>2, <2>1, <2>2, <2>3, <2>4 DEF Next, Learn, Tick, vars, poolVars
<1>3. TypeOK /\ BoundInv => PoolBounded
  <2>. SUFFICES ASSUME TypeOK, BoundInv PROVE PoolBounded
    OBVIOUS
  <2>1. Cardinality(Pool) \in Nat
    BY PoolFinite
  <2>. QED
    BY <2>1 DEF BoundInv, PoolBounded
<1>. QED
  BY <1>1, <1>2, <1>3, TypeCorrect, PTL DEF Spec

-----------------------------------------------------------------------------
(***************************************************************************)
(* The index is coherent with the pool at any moment: no orphan is lost to *)
(* processOrphans, and none comes back after it left the pool.             *)
(***************************************************************************)
THEOREM IndexAlwaysCoherent == Spec => []IndexCoherent
<1>. USE TreeAssumption
<1>1. Init => IndexCoherent
  BY DEF Init, IndexCoherent, Pool, Range, IsInjective
<1>2. ASSUME TypeOK, IndexCoherent, [Next]_vars
      PROVE  IndexCoherent'
  <2>0. prevOrphans \in [Blocks -> Seq(Blocks)]
    BY <1>2 DEF TypeOK
  <2>1. ASSUME NEW b \in Blocks \ {Genesis}, ProcessOrphan(b)
        PROVE  IndexCoherent'
    <3>1. PICK kept \in SUBSET Unexpired :
            /\ Pool' = kept \cup {b}
            /\ prevOrphans' = [Unindexed(Pool \ kept) EXCEPT ![Parent[b]] = Append(@, b)]
      BY <2>1 DEF ProcessOrphan, AddOrphanBlock, Pool
    <3>2. kept \subseteq Pool /\ b \notin Pool
      BY <2>1 DEF Unexpired, ProcessOrphan
    <3>. DEFINE rest == Unindexed(Pool \ kept)
    <3>3. /\ rest \in [Blocks -> Seq(Blocks)]
          /\ \A h \in Blocks : /\ Range(rest[h]) = {o \in kept : Parent[o] = h}
                               /\ IsInjective(rest[h])
      BY <1>2, <2>0, <3>2, UnindexedFacts DEF IndexCoherent
    <3>4. /\ prevOrphans'[Parent[b]] = Append(rest[Parent[b]], b)
          /\ \A h \in Blocks \ {Parent[b]} : prevOrphans'[h] = rest[h]
      <4>1. prevOrphans' = [rest EXCEPT ![Parent[b]] = Append(@, b)]
        BY <3>1
      <4>. HIDE DEF rest
      <4>. QED
        BY <3>3, <4>1
    <3>. HIDE DEF rest
    <3>5. /\ Range(Append(rest[Parent[b]], b)) = Range(rest[Parent[b]]) \cup {b}
          /\ IsInjective(Append(rest[Parent[b]], b))
      <4>1. Parent[b] \in Blocks /\ rest[Parent[b]] \in Seq(Blocks)
        BY <3>3
      <4>2. b \notin Range(rest[Parent[b]]) /\ IsInjective(rest[Parent[b]])
        BY <3>2, <3>3, <4>1
      <4>. QED
        BY <4>1, <4>2, QueueFacts
    <3>6. ASSUME NEW h \in Blocks
          PROVE  /\ Range(prevOrphans'[h]) = {o \in Pool' : Parent[o] = h}
                 /\ IsInjective(prevOrphans'[h])
      <4>1. CASE h = Parent[b]
        BY <3>1, <3>3, <3>4, <3>5, <4>1
      <4>2. CASE h # Parent[b]
        <5>1. {o \in Pool' : Parent[o] = h} = {o \in kept : Parent[o] = h}
          BY <3>1, <4>2
        <5>2. prevOrphans'[h] = rest[h]
          BY <3>4, <4>2
        <5>. QED
          BY <3>3, <5>1, <5>2
      <4>. QED
        BY <4>1, <4>2
    <3>. QED
      BY <3>6 DEF IndexCoherent
  <2>2. ASSUME NEW h \in Blocks, NEW o \in Blocks, TakeOrphan(h, o)
        PROVE  IndexCoherent'
    <3>1. Pool' = Pool \ {o} /\ prevOrphans' = Unindexed({o})
      BY <2>2 DEF TakeOrphan, RemoveOrphanBlock, Pool
    <3>2. \A k \in Blocks :
            /\ Range(prevOrphans'[k]) = Range(prevOrphans[k]) \ {p \in {o} : Parent[p] = k}
            /\ IsInjective(prevOrphans'[k])
      BY <1>2, <2>0, <3>1, UnindexedFacts DEF IndexCoherent
    <3>. QED
      BY <1>2, <3>1, <3>2 DEF IndexCoherent
  <2>3. CASE Restart
    BY <2>3 DEF Restart, IndexCoherent, Pool, Range, IsInjective
  <2>4. CASE UNCHANGED poolVars
    BY <1>2, <2>4 DEF IndexCoherent, Pool, poolVars
  <2>. QED
    BY <1>2, <2>1, <2>2, <2>3, <2>4 DEF Next, Learn, Tick, vars, poolVars
<1>. QED
  BY <1>1, <1>2, TypeCorrect, PTL DEF Spec

-----------------------------------------------------------------------------
(***************************************************************************)
(* No block is ever in the pool and in the chain at once: the chain learns *)
(* no block that waits in the pool, and the pool takes none that is known. *)
(***************************************************************************)
THEOREM NeverInBoth == Spec => []NeverBoth
<1>1. Init => NeverBoth
  BY DEF Init, NeverBoth, Pool
<1>2. ASSUME NeverBoth, [Next]_vars
      PROVE  NeverBoth'
  <2>1. ASSUME NEW b \in Blocks \ {Genesis}, ProcessOrphan(b)
        PROVE  NeverBoth'
    <3>1. Pool' \subseteq Pool \cup {b} /\ b \notin known /\ known' = known
      BY <2>1 DEF ProcessOrphan, AddOrphanBlock, Unexpired, Pool
    <3>. QED
      BY <1>2, <3>1 DEF NeverBoth
  <2>2. ASSUME NEW b \in Blocks, Learn(b)
        PROVE  NeverBoth'
    BY <1>2, <2>2 DEF Learn, NeverBoth, Pool, poolVars
  <2>3. ASSUME NEW h \in Blocks, NEW o \in Blocks, TakeOrphan(h, o)
        PROVE  NeverBoth'
    <3>1. Pool' \subseteq Pool /\ known' = known
      BY <2>3 DEF TakeOrphan, RemoveOrphanBlock, Pool
    <3>. QED
      BY <1>2, <3>1 DEF NeverBoth
  <2>4. CASE Restart
    BY <2>4 DEF Restart, NeverBoth, Pool
  <2>5. CASE Tick \/ UNCHANGED vars
    BY <1>2, <2>5 DEF Tick, vars, poolVars, NeverBoth, Pool
  <2>. QED
    BY <1>2, <2>1, <2>2, <2>3, <2>4, <2>5 DEF Next
<1>. QED
  BY <1>1, <1>2, PTL DEF Spec
=============================================================================
