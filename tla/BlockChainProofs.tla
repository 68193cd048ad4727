-------------------------- MODULE BlockChainProofs --------------------------
(***************************************************************************)
(* Proofs about BlockChain on every block tree.  Whatever calls fail or    *)
(* crash, the main chain stays linked, every node keeps its block, work    *)
(* sums stay exact and a reorganization stays in sync with the end of the  *)
(* chain; what enters it was checked, or a caller added it as checked; and *)
(* while no database call fails reorganizeChain does not panic and the     *)
(* node keeps the promise of BestChain.                                    *)
(***************************************************************************)
EXTENDS BlockChain, BlockTreeProofs

\* The inductive invariant, split into the part about the chain, the part about
\* the orphan pool and the part about the running call.
ChainInv == MainChainLinked /\ EveryNodeHasItsBlock /\ WorkSumsExact
Inv == TypeOK /\ ChainInv /\ CallInvariant

-----------------------------------------------------------------------------
\* What a sequence of blocks holds after an Append or a Tail.
LEMMA SequenceFacts ==
  ASSUME NEW s \in Seq(Blocks)
  PROVE  /\ \A b \in Blocks :
              /\ Append(s, b) \in Seq(Blocks)
              /\ Append(s, b) # <<>>
              /\ \A i \in DOMAIN Append(s, b) :
                   \/ Append(s, b)[i] = b
                   \/ (i \in DOMAIN s /\ Append(s, b)[i] = s[i])
         /\ s # <<>> =>
              /\ Head(s) = s[1]
              /\ 1 \in DOMAIN s
              /\ Tail(s) \in Seq(Blocks)
              /\ \A i \in DOMAIN Tail(s) :
                   i + 1 \in DOMAIN s /\ Tail(s)[i] = s[i + 1]
<1>1. ASSUME NEW b \in Blocks
      PROVE  /\ Append(s, b) \in Seq(Blocks)
             /\ Append(s, b) # <<>>
             /\ \A i \in DOMAIN Append(s, b) :
                  \/ Append(s, b)[i] = b
                  \/ (i \in DOMAIN s /\ Append(s, b)[i] = s[i])
  <2>1. Append(s, b) \in Seq(Blocks) /\ Len(Append(s, b)) = Len(s) + 1 /\ Len(s) \in Nat
    OBVIOUS
  <2>2. Append(s, b) # <<>>
    BY <2>1
  <2>3. ASSUME NEW i \in DOMAIN Append(s, b)
        PROVE  \/ Append(s, b)[i] = b
               \/ (i \in DOMAIN s /\ Append(s, b)[i] = s[i])
    <3>1. DOMAIN s = 1 .. Len(s) /\ i \in 1 .. Len(s) + 1
      BY <2>1
    <3>. QED
      BY <2>1, <3>1
  <2>. QED
    BY <2>1, <2>2, <2>3
<1>2. ASSUME s # <<>>
      PROVE  /\ Head(s) = s[1]
             /\ 1 \in DOMAIN s
             /\ Tail(s) \in Seq(Blocks)
             /\ \A i \in DOMAIN Tail(s) :
                  i + 1 \in DOMAIN s /\ Tail(s)[i] = s[i + 1]
  <2>1. Len(s) \in Nat \ {0} /\ DOMAIN s = 1 .. Len(s)
    BY <1>2
  <2>2. Tail(s) \in Seq(Blocks) /\ DOMAIN Tail(s) = 1 .. Len(s) - 1
    BY <1>2, <2>1
  <2>. QED
    BY <1>2, <2>1, <2>2
<1>. QED
  BY <1>1, <1>2

\* A chain of the tree holds its own end, and a block's parent is a block.
LEMMA TreeFacts ==
  /\ Genesis \in Blocks
  /\ \A b \in Blocks : b \in Ancestry[b] /\ Genesis \in Ancestry[b]
                       /\ Ancestry[b] \subseteq Blocks /\ Height[b] \in Nat
  /\ \A b \in Blocks \ {Genesis} :
       /\ Parent[b] \in Blocks
       /\ Parent[b] # b
       /\ Ancestry[b] = Ancestry[Parent[b]] \cup {b}
       /\ b \notin Ancestry[Parent[b]]
<1>. USE TreeAssumption
<1>1. \A b \in Blocks : ChainFacts(b)
  BY ChainsAreChains
<1>2. ASSUME NEW b \in Blocks \ {Genesis}
      PROVE  /\ Parent[b] \in Blocks
             /\ Parent[b] # b
             /\ b \notin Ancestry[Parent[b]]
  <2>1. Parent[b] \in Blocks
    OBVIOUS
  <2>2. Height[b] = Height[Parent[b]] + 1 /\ Height[Parent[b]] \in Nat
    BY <2>1
  <2>. QED
    BY <1>1, <2>1, <2>2 DEF ChainFacts
<1>. QED
  BY <1>1, <1>2 DEF ChainFacts

\* A block with the work of its parent's chain added has the work of its chain.
LEMMA WorkFacts ==
  /\ Work[Genesis] = Trust[Genesis]
  /\ \A b \in Blocks : Trust[b] \in Nat /\ Work[b] \in Nat
  /\ \A b \in Blocks \ {Genesis} : Work[b] = Work[Parent[b]] + Trust[b]
  BY WorkAssumption

-----------------------------------------------------------------------------
LEMMA InitInv == Init => Inv
<1>. SUFFICES ASSUME Init PROVE Inv
  OBVIOUS
<1>. USE TreeFacts, WorkFacts, ChainAssumption DEF Init
<1>1. TypeOK
  BY DEF TypeOK, Pool!Init, Pool!Pool
<1>2. ChainInv
  BY TreeAssumption DEF ChainInv, MainChainLinked, EveryNodeHasItsBlock, WorkSumsExact
<1>3. CallInvariant
  BY DEF CallInvariant, dryRun, Pool!Init, Pool!Pool, Pool!IndexCoherent, Pool!Range,
    Pool!IsInjective
<1>. QED
  BY <1>1, <1>2, <1>3 DEF Inv

\* Steps that leave the database and the nodes alone leave the chain's part
\* of the invariant alone.
LEMMA SameChain ==
  ASSUME ChainInv, UNCHANGED <<db, nodeVars>>
  PROVE  ChainInv'
  BY DEF ChainInv, MainChainLinked, EveryNodeHasItsBlock, WorkSumsExact, nodeVars

\* Between calls nothing is asked of the call's variables.
LEMMA ReturnTypes == Return => block' = NoBlock /\ flags' = {} /\ pc' = "idle"
                               /\ detachNodes' = {} /\ attachNodes' = {}
                               /\ oldTip' = NoBlock /\ processHashes' = <<>>
  BY DEF Return

\* A step that returns and leaves the chain and the orphan pool alone.
LEMMA ReturnStep ==
  ASSUME Inv, Return, UNCHANGED <<db, nodeVars, poolVars>>,
         faults' \in 0 .. MaxFaults, crashes' \in 0 .. MaxCrashes
  PROVE  Inv'
<1>. USE DEF Inv, Return, nodeVars, poolVars
<1>1. TypeOK'
  BY DEF TypeOK, Pool!Pool
<1>2. ChainInv'
  BY SameChain
<1>3. CallInvariant'
  BY DEF CallInvariant, dryRun, Pool!IndexCoherent, Pool!Pool
<1>. QED
  BY <1>1, <1>2, <1>3

-----------------------------------------------------------------------------
(***************************************************************************)
(* The pool steps keep the index of the pool coherent, and the pool apart  *)
(* from the chain.                                                         *)
(***************************************************************************)
PoolInv ==
  /\ Pool!Pool \subseteq Blocks \ {Genesis}
  /\ prevOrphans \in [Blocks -> Seq(Blocks)]
  /\ Pool!IndexCoherent

\* What OrphanPool says of sequences is said of them here.
LEMMA PoolQueues ==
  /\ \A s, S : Pool!Without(s, S) = Without(s, S)
  /\ \A s : Pool!Range(s) = Range(s)
  /\ \A s : Pool!IsInjective(s) <=> IsInjective(s)
<1>1. \A s, S : Pool!Without(s, S) = Without(s, S)
  BY DEF Pool!Without, Without
<1>2. \A s : Pool!Range(s) = Range(s)
  BY DEF Pool!Range, Range
<1>3. \A s : Pool!IsInjective(s) <=> IsInjective(s)
  BY DEF Pool!IsInjective, IsInjective
<1>. QED
  BY <1>1, <1>2, <1>3

\* The index of the pool, with the queues of the lemmas.
LEMMA Coherent ==
  Pool!IndexCoherent <=>
    \A h \in Blocks : /\ Range(prevOrphans[h]) = {o \in Pool!Pool : Parent[o] = h}
                      /\ IsInjective(prevOrphans[h])
BY PoolQueues DEF Pool!IndexCoherent

\* What the index keeps when orphans leave the pool.
LEMMA UnindexedFacts ==
  ASSUME prevOrphans \in [Blocks -> Seq(Blocks)], NEW S
  PROVE  /\ Pool!Unindexed(S) \in [Blocks -> Seq(Blocks)]
         /\ \A h \in Blocks :
              /\ Range(Pool!Unindexed(S)[h]) = Range(prevOrphans[h]) \ {o \in S : Parent[o] = h}
              /\ IsInjective(prevOrphans[h]) => IsInjective(Pool!Unindexed(S)[h])
<1>1. ASSUME NEW h \in Blocks
      PROVE  LET gone == {o \in S : Parent[o] = h}
                 rest == Without(prevOrphans[h], gone)
             IN  /\ rest \in Seq(Blocks)
                 /\ Range(rest) = Range(prevOrphans[h]) \ gone
                 /\ IsInjective(prevOrphans[h]) => IsInjective(rest)
  <2>1. prevOrphans[h] \in Seq(Blocks)
    OBVIOUS
  <2>. QED
    BY <2>1, WithoutFacts
<1>2. \A h \in Blocks : Pool!Unindexed(S)[h] = Without(prevOrphans[h], {o \in S : Parent[o] = h})
  BY PoolQueues DEF Pool!Unindexed
<1>3. Pool!Unindexed(S) = [h \in Blocks |-> Pool!Unindexed(S)[h]]
  BY DEF Pool!Unindexed
<1>4. \A h \in Blocks : Pool!Unindexed(S)[h] \in Seq(Blocks)
  BY <1>1, <1>2
<1>5. Pool!Unindexed(S) \in [Blocks -> Seq(Blocks)]
  BY <1>3, <1>4
<1>. QED
  BY <1>1, <1>2, <1>5

LEMMA AddOrphanStep ==
  ASSUME PoolInv, NEW b \in Blocks \ {Genesis}, b \notin Pool!Pool, Pool!AddOrphanBlock(b)
  PROVE  PoolInv' /\ Pool!Pool' \subseteq Pool!Pool \cup {b}
<1>. USE TreeFacts
<1>1. PICK kept \in SUBSET Pool!Pool :
        /\ orphans' = [o \in kept \cup {b} |->
                         IF o = b THEN clock + OrphanLife ELSE orphans[o]]
        /\ prevOrphans' = [Pool!Unindexed(Pool!Pool \ kept)
                             EXCEPT ![Parent[b]] = Append(@, b)]
  BY DEF Pool!AddOrphanBlock, Pool!Unexpired
<1>2. Pool!Pool' = kept \cup {b}
  BY <1>1 DEF Pool!Pool
<1>. DEFINE rest == Pool!Unindexed(Pool!Pool \ kept)
<1>3. /\ rest \in [Blocks -> Seq(Blocks)]
      /\ \A h \in Blocks : /\ Range(rest[h]) = {o \in kept : Parent[o] = h}
                           /\ IsInjective(rest[h])
  BY UnindexedFacts, Coherent DEF PoolInv
<1>4. prevOrphans' = [rest EXCEPT ![Parent[b]] = Append(@, b)]
  BY <1>1
<1>. HIDE DEF rest
<1>5. /\ prevOrphans' \in [Blocks -> Seq(Blocks)]
      /\ prevOrphans'[Parent[b]] = Append(rest[Parent[b]], b)
      /\ \A h \in Blocks \ {Parent[b]} : prevOrphans'[h] = rest[h]
  BY <1>3, <1>4
<1>6. /\ Range(Append(rest[Parent[b]], b)) = Range(rest[Parent[b]]) \cup {b}
      /\ IsInjective(Append(rest[Parent[b]], b))
  <2>1. Parent[b] \in Blocks /\ rest[Parent[b]] \in Seq(Blocks)
    BY <1>3
  <2>2. b \notin Range(rest[Parent[b]]) /\ IsInjective(rest[Parent[b]])
    BY <1>3, <2>1
  <2>. QED
    BY <2>1, <2>2, QueueFacts
<1>7. ASSUME NEW h \in Blocks
      PROVE  /\ Range(prevOrphans'[h]) = {o \in Pool!Pool' : Parent[o] = h}
             /\ IsInjective(prevOrphans'[h])
  <2>1. CASE h = Parent[b]
    <3>1. {o \in Pool!Pool' : Parent[o] = h} = {o \in kept : Parent[o] = h} \cup {b}
      BY <1>2, <2>1
    <3>2. prevOrphans'[h] = Append(rest[h], b) /\ Range(rest[h]) = {o \in kept : Parent[o] = h}
      BY <1>3, <1>5, <2>1
    <3>. QED
      BY <1>6, <2>1, <3>1, <3>2
  <2>2. CASE h # Parent[b]
    <3>1. {o \in Pool!Pool' : Parent[o] = h} = {o \in kept : Parent[o] = h}
      BY <1>2, <2>2
    <3>2. prevOrphans'[h] = rest[h]
      BY <1>5, <2>2
    <3>. QED
      BY <1>3, <3>1, <3>2
  <2>. QED
    BY <2>1, <2>2
<1>8. Pool!IndexCoherent'
  BY <1>7, PoolQueues DEF Pool!IndexCoherent
<1>. QED
  BY <1>2, <1>5, <1>8 DEF PoolInv

LEMMA RemoveOrphanStep ==
  ASSUME PoolInv, NEW b \in Blocks, Pool!RemoveOrphanBlock(b)
  PROVE  PoolInv' /\ Pool!Pool' = Pool!Pool \ {b}
<1>1. Pool!Pool' = Pool!Pool \ {b} /\ prevOrphans' = Pool!Unindexed({b})
  BY DEF Pool!RemoveOrphanBlock, Pool!Pool
<1>2. /\ prevOrphans' \in [Blocks -> Seq(Blocks)]
      /\ \A h \in Blocks :
           /\ Range(prevOrphans'[h]) = Range(prevOrphans[h]) \ {o \in {b} : Parent[o] = h}
           /\ IsInjective(prevOrphans'[h])
  BY <1>1, UnindexedFacts, Coherent DEF PoolInv
<1>3. \A h \in Blocks : /\ Range(prevOrphans'[h]) = {o \in Pool!Pool' : Parent[o] = h}
                        /\ IsInjective(prevOrphans'[h])
  BY <1>1, <1>2, Coherent DEF PoolInv
<1>4. Pool!IndexCoherent'
  BY <1>3, PoolQueues DEF Pool!IndexCoherent
<1>. QED
  BY <1>1, <1>2, <1>4 DEF PoolInv

\* The orphan that processOrphans takes waits in the pool for the accepted block.
LEMMA TakenWaits ==
  ASSUME Inv, pc = "orphans", NEW o, Pool!TakeOrphan(Head(processHashes), o)
  PROVE  /\ Head(processHashes) \in Blocks \cap index
         /\ Head(processHashes) = processHashes[1] /\ 1 \in DOMAIN processHashes
         /\ o \in Pool!Pool \ {Genesis} /\ o \in Blocks /\ Parent[o] = Head(processHashes)
<1>. DEFINE h == Head(processHashes)
<1>1. h = processHashes[1] /\ 1 \in DOMAIN processHashes /\ h \in Blocks \cap index
  BY SequenceFacts DEF Inv, TypeOK, CallInvariant
<1>. HIDE DEF h
<1>2. prevOrphans[h] \in Seq(Blocks) /\ prevOrphans[h] # <<>> /\ o = Head(prevOrphans[h])
  BY <1>1 DEF Inv, TypeOK, Pool!TakeOrphan, h
<1>3. o \in Range(prevOrphans[h])
  BY <1>2, QueueFacts
<1>4. o \in Pool!Pool /\ Parent[o] = h
  BY <1>1, <1>3, Coherent DEF Inv, CallInvariant
<1>. QED
  BY <1>1, <1>4 DEF Inv, TypeOK, h

-----------------------------------------------------------------------------
LEMMA ProcessBlockStep ==
  ASSUME Inv, NEW b \in Blocks \ {Genesis}, NEW f \in CallsOf[b], ProcessBlock(b, f)
  PROVE  Inv'
<1>. USE TreeFacts DEF Inv
<1>1. ChainInv'
  <2>1. UNCHANGED <<db, nodeVars>>
    BY DEF ProcessBlock
  <2>. QED
    BY <2>1, SameChain
<1>2. f \subseteq {"fastAdd", "dryRun"}
  BY ChainAssumption
<1>3. CASE UNCHANGED <<nodeVars, callVars>> /\ Pool!ProcessOrphan(b)
  <2>1. pc = "idle" /\ UNCHANGED <<db, nodeVars, callVars, boundVars>>
    BY <1>3 DEF ProcessBlock
  <2>2. PoolInv' /\ Pool!Pool' \subseteq Pool!Pool \cup {b} /\ b \notin index
    <3>1. PoolInv
      BY DEF PoolInv, TypeOK, CallInvariant
    <3>2. Pool!AddOrphanBlock(b) /\ b \notin Pool!Pool
      BY <1>3 DEF Pool!ProcessOrphan
    <3>3. b \notin index
      BY DEF ProcessBlock, BlockExists
    <3>. QED
      BY <3>1, <3>2, <3>3, AddOrphanStep
  <2>3. TypeOK'
    BY <2>1, <2>2 DEF TypeOK, PoolInv, nodeVars, callVars, boundVars
  <2>4. CallInvariant'
    BY <2>1, <2>2 DEF CallInvariant, PoolInv, dryRun, nodeVars, callVars
  <2>. QED
    BY <1>1, <2>3, <2>4
<1>4. CASE /\ BlockExists(Parent[b])
           /\ pc' = "accept" /\ block' = b /\ flags' = f
           /\ UNCHANGED <<nodeVars, poolVars, detachNodes, attachNodes, oldTip,
                          processHashes>>
  <2>1. TypeOK'
    BY <1>2, <1>4 DEF TypeOK, ProcessBlock, nodeVars, poolVars, boundVars, Pool!Pool
  <2>2. CallInvariant'
    <3>1. index = db \cup blockCache
      BY DEF ChainInv, EveryNodeHasItsBlock
    <3>2. pc = "idle" /\ b \notin index /\ b \notin db /\ b \notin Pool!Pool /\ UNCHANGED db
      BY DEF ProcessBlock, BlockExists
    <3>3. Parent[b] \in index
      BY <1>4, <3>1 DEF BlockExists
    <3>. QED
      BY <1>4, <3>2, <3>3 DEF CallInvariant, dryRun, nodeVars, poolVars,
        Pool!IndexCoherent, Pool!Pool
  <2>. QED
    BY <1>1, <2>1, <2>2
<1>. QED
  BY <1>3, <1>4 DEF ProcessBlock

LEMMA RejectBlockStep == Inv /\ RejectBlock => Inv'
  BY ReturnStep DEF RejectBlock, boundVars, Inv, TypeOK

LEMMA ExtendMainChainStep ==
  ASSUME Inv, ExtendMainChain
  PROVE  Inv'
<1>. USE TreeFacts DEF Inv
<1>1. CASE dryRun
  BY <1>1, ReturnStep DEF ExtendMainChain, boundVars, TypeOK
<1>2. CASE ~dryRun
  <2>1. /\ pc = "accept" /\ pc' = "connect" /\ attachNodes' = {block}
        /\ UNCHANGED <<db, nodeVars, poolVars, block, flags, detachNodes, oldTip,
                       processHashes, boundVars>>
        /\ Parent[block] = bestChain
    BY <1>2 DEF ExtendMainChain, ExtendsBestChain
  <2>2. ChainInv'
    BY <2>1, SameChain
  <2>3. block \in Blocks \ {Genesis} /\ detachNodes = {}
    BY <2>1 DEF CallInvariant
  <2>4. TypeOK'
    BY <2>1, <2>3 DEF TypeOK, nodeVars, poolVars, boundVars, Pool!Pool
  <2>5. /\ bestChain \in Ancestry[bestChain] \cap Ancestry[block] /\ bestChain # block
        /\ ChainAbove(bestChain, bestChain) = {}
        /\ ChainAbove(block, bestChain) = {block}
    <3>1. bestChain \in Ancestry[bestChain] /\ bestChain \in Ancestry[block] /\ bestChain # block
      BY <2>1, <2>3
    <3>2. ChainAbove(bestChain, bestChain) = {}
      BY <2>1, <2>3, ChainsAreChains DEF ChainAbove, ChainFacts
    <3>3. ChainAbove(bestChain, bestChain) = ChainAbove(block, bestChain) \ {block}
          /\ block \in ChainAbove(block, bestChain)
      BY <2>1, <2>3, <3>1, EndOfChain
    <3>. QED
      BY <3>1, <3>2, <3>3
  <2>6. CallInvariant'
    <3>1. \E f \in Ancestry[bestChain] \cap Ancestry[block] :
            f # block /\ {} = ChainAbove(bestChain, f) /\ {block} = ChainAbove(block, f)
      BY <2>5
    <3>. QED
      BY <1>2, <2>1, <2>3, <3>1 DEF CallInvariant, dryRun, nodeVars, poolVars,
        Pool!IndexCoherent, Pool!Pool
  <2>. QED
    BY <2>2, <2>4, <2>6
<1>. QED
  BY <1>1, <1>2

LEMMA AddSideBlockStep ==
  ASSUME Inv, AddSideBlock
  PROVE  Inv'
<1>. USE TreeFacts DEF Inv
<1>1. /\ pc = "accept" /\ pc' = "compare"
      /\ block \in Blocks \ {Genesis} /\ block \notin db \cup index \cup Pool!Pool
      /\ Parent[block] \in index /\ detachNodes = {}
      /\ index' = index \cup {block}
      /\ blockCache' = blockCache \cup {block}
      /\ inMainChain' = inMainChain \ {block}
      /\ workSum' = [workSum EXCEPT ![block] = workSum[Parent[block]] + Trust[block]]
      /\ UNCHANGED <<db, bestChain, poolVars, block, flags, detachNodes, attachNodes,
                     oldTip, processHashes, boundVars>>
  BY DEF AddSideBlock, CallInvariant, WithWorkSum
<1>2. TypeOK'
  <2>1. workSum' \in [Blocks -> Nat]
    <3>1. /\ workSum \in [Blocks -> Nat] /\ Parent[block] \in Blocks
          /\ block \in Blocks /\ Trust[block] \in Nat
      BY <1>1, WorkFacts DEF TypeOK
    <3>2. workSum[Parent[block]] + Trust[block] \in Nat
      BY <3>1
    <3>. QED
      BY <1>1, <3>1, <3>2
  <2>2. /\ index' \subseteq Blocks /\ inMainChain' \subseteq Blocks
        /\ blockCache' \subseteq Blocks
    BY <1>1 DEF TypeOK
  <2>. QED
    BY <1>1, <2>1, <2>2 DEF TypeOK, poolVars, boundVars, Pool!Pool
<1>3. MainChainLinked'
  BY <1>1 DEF ChainInv, MainChainLinked
<1>4. EveryNodeHasItsBlock'
  BY <1>1 DEF ChainInv, EveryNodeHasItsBlock
<1>5. WorkSumsExact'
  BY <1>1, WorkFacts DEF ChainInv, WorkSumsExact, TypeOK
<1>6. \A b \in index' \ {Genesis} : Parent[b] # block
  BY <1>1 DEF ChainInv, EveryNodeHasItsBlock
<1>7. CallInvariant'
  BY <1>1, <1>6 DEF CallInvariant, dryRun, poolVars, Pool!IndexCoherent, Pool!Pool
<1>. QED
  BY <1>2, <1>3, <1>4, <1>5, <1>7 DEF ChainInv

\* Accepted leaves a call that only looks for orphans.
LEMMA AcceptedCall ==
  ASSUME TypeOK, CallInvariant, Accepted, ~dryRun, block \in Blocks, block \in index',
         index \subseteq index', PoolInv', Pool!Pool' \cap index' = {}
  PROVE  /\ CallInvariant'
         /\ pc' = "orphans" /\ block' = NoBlock /\ flags' = flags
         /\ detachNodes' = {} /\ attachNodes' = {} /\ oldTip' = NoBlock
         /\ processHashes' \in Seq(Blocks)
<1>1. /\ pc' = "orphans" /\ block' = NoBlock /\ flags' = flags
      /\ detachNodes' = {} /\ attachNodes' = {} /\ oldTip' = NoBlock
      /\ processHashes' = Append(processHashes, block)
  BY DEF Accepted
<1>2. processHashes \in Seq(Blocks)
  BY DEF TypeOK
<1>3. /\ processHashes' \in Seq(Blocks) /\ processHashes' # <<>>
      /\ \A i \in DOMAIN processHashes' : processHashes'[i] \in index'
  BY <1>1, <1>2, SequenceFacts DEF CallInvariant
<1>4. ~dryRun'
  BY <1>1 DEF dryRun
<1>5. CallInvariant'
  BY <1>1, <1>3, <1>4 DEF CallInvariant, PoolInv
<1>. QED
  BY <1>1, <1>3, <1>5

LEMMA KeepMainChainStep ==
  ASSUME Inv, KeepMainChain
  PROVE  Inv'
<1>. USE DEF Inv
<1>1. /\ pc = "compare" /\ ~dryRun /\ Accepted
      /\ UNCHANGED <<db, nodeVars, poolVars, boundVars>>
  BY DEF KeepMainChain
<1>2. ChainInv'
  BY <1>1, SameChain
<1>3. block \in Blocks /\ block \in index
  BY <1>1 DEF CallInvariant, ChainInv, EveryNodeHasItsBlock
<1>4. PoolInv' /\ Pool!Pool' \cap index' = {} /\ index' = index
  BY <1>1 DEF PoolInv, TypeOK, CallInvariant, nodeVars, poolVars, Pool!Pool,
    Pool!IndexCoherent
<1>5. /\ CallInvariant'
      /\ pc' = "orphans" /\ block' = NoBlock /\ flags' = flags
      /\ detachNodes' = {} /\ attachNodes' = {} /\ oldTip' = NoBlock
      /\ processHashes' \in Seq(Blocks)
  BY <1>1, <1>3, <1>4, AcceptedCall
<1>6. TypeOK'
  BY <1>1, <1>5 DEF TypeOK, nodeVars, poolVars, boundVars, Pool!Pool
<1>. QED
  BY <1>2, <1>5, <1>6

LEMMA RefuseReorganizeStep == Inv /\ RefuseReorganize => Inv'
  BY ReturnStep DEF RefuseReorganize, boundVars, Inv, TypeOK

LEMMA StartReorganizeStep ==
  ASSUME Inv, StartReorganize
  PROVE  Inv'
<1>. USE TreeFacts DEF Inv
<1>1. /\ pc = "compare" /\ ~dryRun /\ pc' = "connect"
      /\ NodesToAttach(block) \subseteq blockCache
      /\ detachNodes' = NodesToDetach(block)
      /\ attachNodes' = NodesToAttach(block)
      /\ oldTip' = bestChain
      /\ UNCHANGED <<db, nodeVars, poolVars, block, flags, processHashes, boundVars>>
  BY DEF StartReorganize, CanReorganize
<1>2. ChainInv'
  BY <1>1, SameChain
<1>3. block \in Blocks \ {Genesis} /\ block \notin db /\ bestChain \in Blocks
  BY <1>1 DEF CallInvariant, TypeOK
<1>4. inMainChain \cup {Genesis} = Ancestry[bestChain] /\ db = Ancestry[bestChain]
  BY <1>3 DEF ChainInv, MainChainLinked
<1>. DEFINE f == ForkPoint(block)
<1>5. f \in Ancestry[bestChain] \cap Ancestry[block]
  <2>. DEFINE S == Ancestry[block] \cap Ancestry[bestChain]
  <2>1. S \in SUBSET Ancestry[block] /\ S # {}
    BY <1>3
  <2>2. Highest(S) \in S
    BY <1>3, <2>1, HasHighest
  <2>. QED
    BY <1>4, <2>2 DEF ForkPoint
<1>6. f # block
  BY <1>3, <1>4, <1>5
<1>7. detachNodes' = ChainAbove(bestChain, f) /\ attachNodes' = ChainAbove(block, f)
  BY <1>1, <1>5 DEF NodesToDetach, NodesToAttach
<1>8. TypeOK'
  <2>1. detachNodes' \subseteq Blocks /\ attachNodes' \subseteq Blocks
    BY <1>3, <1>7 DEF ChainAbove
  <2>. QED
    BY <1>1, <1>3, <2>1 DEF TypeOK, nodeVars, poolVars, boundVars, Pool!Pool
<1>9. CallInvariant'
  <2>. HIDE DEF f
  <2>1. \E g \in Ancestry[bestChain'] \cap Ancestry[block'] :
          /\ g # block'
          /\ detachNodes' = ChainAbove(bestChain', g)
          /\ attachNodes' = ChainAbove(block', g)
    BY <1>1, <1>5, <1>6, <1>7 DEF nodeVars
  <2>2. attachNodes' \subseteq blockCache' \cup {block'} /\ ~dryRun'
    BY <1>1 DEF nodeVars, dryRun
  <2>. QED
    BY <1>1, <2>1, <2>2 DEF CallInvariant, dryRun, nodeVars, poolVars,
      Pool!IndexCoherent, Pool!Pool
<1>. QED
  BY <1>2, <1>8, <1>9

LEMMA UndoDryRunStep ==
  ASSUME Inv, UndoDryRun
  PROVE  Inv'
<1>. USE TreeFacts DEF Inv
<1>1. /\ pc = "compare" /\ dryRun /\ Return
      /\ index' = index \ {block}
      /\ workSum' = [workSum EXCEPT ![block] = 0]
      /\ blockCache' = blockCache \ {block}
      /\ UNCHANGED <<db, inMainChain, bestChain, poolVars, boundVars>>
  BY DEF UndoDryRun
<1>2. block \in Blocks \ {Genesis} /\ block \notin db /\ block \in blockCache
      /\ \A b \in index \ {Genesis} : Parent[b] # block
  BY <1>1 DEF CallInvariant
<1>3. TypeOK'
  <2>1. workSum' \in [Blocks -> Nat] /\ index' \subseteq Blocks /\ blockCache' \subseteq Blocks
    BY <1>1, <1>2 DEF TypeOK
  <2>. QED
    BY <1>1, <2>1 DEF TypeOK, Return, poolVars, boundVars, Pool!Pool
<1>4. MainChainLinked'
  BY <1>1 DEF ChainInv, MainChainLinked
<1>5. EveryNodeHasItsBlock'
  BY <1>1, <1>2 DEF ChainInv, EveryNodeHasItsBlock
<1>6. WorkSumsExact'
  BY <1>1 DEF ChainInv, WorkSumsExact, TypeOK
<1>7. CallInvariant'
  BY <1>1 DEF CallInvariant, Return, dryRun, poolVars, Pool!IndexCoherent, Pool!Pool
<1>. QED
  BY <1>3, <1>4, <1>5, <1>6, <1>7 DEF ChainInv

-----------------------------------------------------------------------------
LEMMA DisconnectBlockStep ==
  ASSUME Inv, DisconnectBlock
  PROVE  Inv'
<1>. USE TreeFacts DEF Inv
<1>1. pc = "connect" /\ detachNodes # {} /\ UNCHANGED <<poolVars, boundVars>>
  BY DEF DisconnectBlock
<1>2. PICK f \in Ancestry[bestChain] \cap Ancestry[block] :
        /\ f # block
        /\ detachNodes = ChainAbove(bestChain, f)
        /\ attachNodes = ChainAbove(block, f)
  BY <1>1 DEF CallInvariant
<1>3. bestChain \in Blocks
  BY DEF TypeOK
<1>4. bestChain # f
  <2>1. ChainAbove(f, f) = {}
    BY <1>2, <1>3, ChainsAreChains DEF ChainAbove, ChainFacts
  <2>. QED
    BY <1>1, <1>2, <2>1
<1>5. /\ bestChain # Genesis
      /\ Highest(detachNodes) = bestChain
      /\ f \in Ancestry[Parent[bestChain]]
      /\ ChainAbove(Parent[bestChain], f) = detachNodes \ {bestChain}
      /\ {c \in Ancestry[bestChain] : Height[c] <= Height[Parent[bestChain]]}
           = Ancestry[Parent[bestChain]]
  BY <1>2, <1>3, <1>4, EndOfChain
<1>6. /\ db' = {b \in db : Height[b] <= Height[Parent[bestChain]]}
      /\ inMainChain' = inMainChain \ {bestChain}
      /\ blockCache' = blockCache \cup {bestChain}
      /\ bestChain' = Parent[bestChain]
      /\ detachNodes' = detachNodes \ {bestChain}
      /\ UNCHANGED <<index, workSum, pc, block, flags, attachNodes, oldTip,
                     processHashes>>
  BY <1>5 DEF DisconnectBlock, DropAfter
<1>7. Parent[bestChain] \in Blocks
  BY <1>3, <1>5
<1>8. MainChainLinked' /\ db = db' \cup {bestChain} /\ bestChain \notin db'
  <2>1. db = Ancestry[bestChain] /\ inMainChain = db
    BY DEF ChainInv, MainChainLinked
  <2>2. db' = Ancestry[Parent[bestChain]]
    BY <1>5, <1>6, <2>1
  <2>3. db = db' \cup {bestChain} /\ bestChain \notin db'
    BY <1>3, <1>5, <2>1, <2>2
  <2>. QED
    BY <1>6, <2>1, <2>2, <2>3 DEF MainChainLinked
<1>9. EveryNodeHasItsBlock'
  BY <1>6, <1>8 DEF ChainInv, EveryNodeHasItsBlock
<1>10. WorkSumsExact'
  BY <1>6 DEF ChainInv, WorkSumsExact
<1>11. TypeOK'
  <2>1. Genesis \in db' /\ db' \subseteq Blocks
    BY <1>3, <1>5, <1>6, <1>7, <1>8 DEF MainChainLinked
  <2>. QED
    BY <1>1, <1>3, <1>6, <1>7, <2>1 DEF TypeOK, poolVars, boundVars, Pool!Pool
<1>12. CallInvariant'
  <2>1. \E g \in Ancestry[bestChain'] \cap Ancestry[block'] :
          /\ g # block'
          /\ detachNodes' = ChainAbove(bestChain', g)
          /\ attachNodes' = ChainAbove(block', g)
    BY <1>2, <1>5, <1>6
  <2>2. block' \in Blocks \ {Genesis} /\ block' \notin db' /\ Parent[block'] \in index'
    BY <1>1, <1>6, <1>8 DEF CallInvariant
  <2>. QED
    BY <1>1, <1>6, <2>1, <2>2 DEF CallInvariant, dryRun, poolVars,
      Pool!IndexCoherent, Pool!Pool
<1>. QED
  BY <1>8, <1>9, <1>10, <1>11, <1>12 DEF ChainInv

LEMMA ConnectBlockStep ==
  ASSUME Inv, ConnectBlock
  PROVE  Inv'
<1>. USE TreeFacts DEF Inv
<1>1. pc = "connect" /\ detachNodes = {} /\ UNCHANGED <<poolVars, boundVars>>
      /\ ~dryRun /\ block \in Blocks \ {Genesis} /\ block \notin db
      /\ block \notin Pool!Pool /\ Parent[block] \in index
  BY DEF ConnectBlock, CallInvariant
<1>2. PICK f \in Ancestry[bestChain] \cap Ancestry[block] :
        /\ f # block
        /\ {} = ChainAbove(bestChain, f)
        /\ attachNodes = ChainAbove(block, f)
  BY <1>1 DEF CallInvariant
<1>3. bestChain \in Blocks /\ f = bestChain
  BY <1>2, EndOfChain DEF TypeOK
<1>. DEFINE n == Lowest(attachNodes)
<1>4. /\ n \in attachNodes
      /\ n \in Blocks \ {Genesis}
      /\ Parent[n] = bestChain
      /\ ChainAbove(block, n) = attachNodes \ {n}
      /\ block \in attachNodes
  BY <1>1, <1>2, <1>3, NextInChain, EndOfChain
<1>. HIDE DEF n
<1>5. /\ db' = db \cup {n}
      /\ index' = index \cup {n}
      /\ workSum' = [workSum EXCEPT ![n] = workSum[Parent[n]] + Trust[n]]
      /\ inMainChain' = inMainChain \cup {n}
      /\ bestChain' = n
      /\ blockCache' = blockCache \ {n}
      /\ IF attachNodes # {n}
         THEN /\ attachNodes' = attachNodes \ {n}
              /\ UNCHANGED <<pc, block, flags, detachNodes, oldTip, processHashes>>
         ELSE IF oldTip \in db
         THEN pc' = "panic" /\ UNCHANGED <<block, flags, detachNodes,
                             attachNodes, oldTip, processHashes>>
         ELSE Accepted
  BY <1>4 DEF ConnectBlock, n, WithWorkSum, FinishReorganize
<1>6. n \in blockCache \cup {block} /\ n \notin db
  BY <1>1, <1>4 DEF CallInvariant, ChainInv, EveryNodeHasItsBlock
<1>7. bestChain \in db /\ bestChain \in index /\ db = Ancestry[bestChain]
  BY <1>3 DEF ChainInv, MainChainLinked, EveryNodeHasItsBlock
<1>8. MainChainLinked'
  BY <1>4, <1>5, <1>7 DEF ChainInv, MainChainLinked
<1>9. EveryNodeHasItsBlock'
  BY <1>4, <1>5, <1>6, <1>7 DEF ChainInv, EveryNodeHasItsBlock
<1>10. WorkSumsExact' /\ workSum' \in [Blocks -> Nat]
  BY <1>4, <1>5, <1>7, WorkFacts DEF ChainInv, WorkSumsExact, TypeOK
<1>11. PoolInv' /\ Pool!Pool' \cap index' = {} /\ Pool!Pool' = Pool!Pool
  <2>1. UNCHANGED poolVars
    BY DEF ConnectBlock
  <2>2. PoolInv
    BY DEF PoolInv, TypeOK, CallInvariant
  <2>3. Pool!Pool' = Pool!Pool /\ PoolInv'
    BY ONLY <2>1, <2>2 DEF poolVars, Pool!Pool, PoolInv, Pool!IndexCoherent
  <2>4. Pool!Pool \cap index = {} /\ block \notin Pool!Pool
    BY <1>1 DEF CallInvariant
  <2>5. n \in index \cup {block}
    BY <1>6 DEF ChainInv, EveryNodeHasItsBlock
  <2>. QED
    BY <1>5, <2>3, <2>4, <2>5
<1>12. /\ db' \subseteq Blocks /\ Genesis \in db' /\ index' \subseteq Blocks
       /\ workSum' \in [Blocks -> Nat] /\ inMainChain' \subseteq Blocks
       /\ bestChain' \in Blocks /\ blockCache' \subseteq Blocks
       /\ UNCHANGED <<poolVars, boundVars>>
  <2>1. /\ db \subseteq Blocks /\ Genesis \in db /\ index \subseteq Blocks
        /\ inMainChain \subseteq Blocks /\ blockCache \subseteq Blocks
    BY DEF TypeOK
  <2>2. UNCHANGED <<poolVars, boundVars>>
    BY DEF ConnectBlock
  <2>. QED
    BY <1>4, <1>5, <1>10, <2>1, <2>2
<1>13. TypeOK' /\ CallInvariant'
  <2>1. CASE attachNodes # {n}
    <3>1. /\ attachNodes' = attachNodes \ {n}
          /\ UNCHANGED <<pc, block, flags, detachNodes, oldTip, processHashes>>
      BY <1>5, <2>1
    <3>2. TypeOK'
      BY <1>12, <3>1 DEF TypeOK, poolVars, boundVars, Pool!Pool
    <3>3. n # block
      <4>1. ChainAbove(block, block) = {}
        BY <1>1, ChainsAreChains DEF ChainAbove, ChainFacts
      <4>. QED
        BY <1>4, <2>1, <4>1
    <3>4. /\ n \in Ancestry[block]
          /\ {} = ChainAbove(n, n)
      BY <1>1, <1>2, <1>4, ChainsAreChains DEF ChainAbove, ChainFacts
    <3>5. \E g \in Ancestry[bestChain'] \cap Ancestry[block'] :
            /\ g # block'
            /\ detachNodes' = ChainAbove(bestChain', g)
            /\ attachNodes' = ChainAbove(block', g)
      BY <1>1, <1>4, <1>5, <3>1, <3>3, <3>4
    <3>6. attachNodes' \subseteq blockCache' \cup {block'} /\ ~dryRun'
      BY <1>1, <1>5, <3>1 DEF CallInvariant, dryRun
    <3>7. CallInvariant'
      BY <1>1, <1>4, <1>5, <1>11, <3>1, <3>3, <3>5, <3>6 DEF CallInvariant, PoolInv, dryRun
    <3>. QED
      BY <3>2, <3>7
  <2>2. CASE attachNodes = {n} /\ oldTip \in db
    <3>1. pc' = "panic" /\ UNCHANGED <<block, flags, detachNodes, attachNodes, oldTip,
                                      processHashes>>
      BY <1>5, <2>2
    <3>2. TypeOK'
      BY <1>12, <3>1 DEF TypeOK, poolVars, boundVars, Pool!Pool
    <3>3. CallInvariant'
      BY <1>1, <1>5, <1>11, <3>1 DEF CallInvariant, PoolInv, dryRun
    <3>. QED
      BY <3>2, <3>3
  <2>3. CASE attachNodes = {n} /\ oldTip \notin db
    <3>1. Accepted /\ n = block
      BY <1>4, <1>5, <2>3
    <3>2. /\ CallInvariant'
          /\ pc' = "orphans" /\ block' = NoBlock /\ flags' = flags
          /\ detachNodes' = {} /\ attachNodes' = {} /\ oldTip' = NoBlock
          /\ processHashes' \in Seq(Blocks)
      BY <1>1, <1>5, <1>11, <3>1, AcceptedCall
    <3>3. TypeOK'
      BY <1>12, <3>2 DEF TypeOK, poolVars, boundVars, Pool!Pool
    <3>. QED
      BY <3>2, <3>3
  <2>. QED
    BY <2>1, <2>2, <2>3
<1>. QED
  BY <1>8, <1>9, <1>10, <1>13 DEF ChainInv

-----------------------------------------------------------------------------
LEMMA ProcessNextOrphanStep ==
  ASSUME Inv, NEW o \in Blocks, ProcessNextOrphan(o)
  PROVE  Inv'
<1>. USE TreeFacts DEF Inv
<1>. DEFINE h == Head(processHashes)
<1>1. /\ pc = "orphans" /\ pc' = "accept" /\ block' = o
      /\ UNCHANGED <<db, nodeVars, flags, detachNodes, attachNodes, oldTip,
                     processHashes, boundVars>>
      /\ Pool!TakeOrphan(h, o)
  BY DEF ProcessNextOrphan
<1>2. h \in index /\ h \in Blocks
  BY <1>1, TakenWaits
<1>3. o \in Pool!Pool /\ Parent[o] = h
  BY <1>1, TakenWaits
<1>. HIDE DEF h
<1>4. PoolInv' /\ Pool!Pool' = Pool!Pool \ {o}
  <2>1. Pool!RemoveOrphanBlock(o)
    BY <1>1 DEF Pool!TakeOrphan
  <2>. QED
    BY <2>1, RemoveOrphanStep DEF PoolInv, TypeOK, CallInvariant
<1>5. o \in Blocks \ {Genesis} /\ o \notin index /\ o \notin db
  BY <1>3 DEF TypeOK, CallInvariant, ChainInv, EveryNodeHasItsBlock
<1>6. ChainInv'
  BY <1>1, SameChain
<1>7. TypeOK'
  BY <1>1, <1>4 DEF TypeOK, PoolInv, nodeVars, boundVars
<1>8. CallInvariant'
  BY <1>1, <1>2, <1>3, <1>4, <1>5 DEF CallInvariant, PoolInv, dryRun, nodeVars
<1>. QED
  BY <1>6, <1>7, <1>8

LEMMA NextProcessHashStep ==
  ASSUME Inv, NextProcessHash
  PROVE  Inv'
<1>. USE DEF Inv
<1>1. pc = "orphans" /\ UNCHANGED <<db, nodeVars, poolVars, boundVars>>
  BY DEF NextProcessHash
<1>2. CASE Return
  BY <1>1, <1>2, ReturnStep DEF boundVars, TypeOK
<1>3. CASE /\ Tail(processHashes) # <<>>
           /\ processHashes' = Tail(processHashes)
           /\ UNCHANGED <<pc, block, flags, detachNodes, attachNodes, oldTip>>
  <2>1. ChainInv'
    BY <1>1, SameChain
  <2>2. /\ processHashes' \in Seq(Blocks) /\ processHashes' # <<>>
        /\ \A i \in DOMAIN processHashes' : processHashes'[i] \in index
    <3>1. /\ processHashes \in Seq(Blocks) /\ processHashes # <<>>
          /\ \A i \in DOMAIN processHashes : processHashes[i] \in index
      BY <1>1 DEF TypeOK, CallInvariant
    <3>. QED
      BY <1>3, <3>1, SequenceFacts
  <2>3. TypeOK'
    BY <1>1, <1>3, <2>2 DEF TypeOK, nodeVars, poolVars, boundVars, Pool!Pool
  <2>4. ~dryRun'
    BY <1>1, <1>3 DEF CallInvariant, dryRun
  <2>5. CallInvariant'
    BY <1>1, <1>3, <2>2, <2>4 DEF CallInvariant, nodeVars, poolVars, Pool!Pool,
      Pool!IndexCoherent
  <2>. QED
    BY <2>1, <2>3, <2>5
<1>. QED
  BY <1>2, <1>3 DEF NextProcessHash

LEMMA FailDatabaseCallStep == Inv /\ FailDatabaseCall => Inv'
<1>. SUFFICES ASSUME Inv, FailDatabaseCall PROVE Inv'
  OBVIOUS
<1>1. faults' \in 0 .. MaxFaults /\ crashes' \in 0 .. MaxCrashes
  BY ChainAssumption DEF FailDatabaseCall, Inv, TypeOK
<1>. QED
  BY <1>1, ReturnStep DEF FailDatabaseCall

LEMMA RestartStep ==
  ASSUME Inv, Restart
  PROVE  Inv'
<1>. USE TreeFacts DEF Inv
<1>1. /\ index' = db /\ inMainChain' = db /\ blockCache' = {} /\ db' = db
      /\ workSum' = [b \in Blocks |-> IF b \in db THEN workSum[b] ELSE 0]
      /\ bestChain' = Highest(db)
      /\ Return /\ faults' = faults /\ Pool!Restart
  BY DEF Restart
<1>2. bestChain \in Blocks /\ db = Ancestry[bestChain]
  BY DEF TypeOK, ChainInv, MainChainLinked
<1>3. bestChain' = bestChain
  <2>1. Highest(db) \in db /\ Height[bestChain] <= Height[Highest(db)]
    BY <1>2, HasHighest
  <2>2. Height[Highest(db)] <= Height[bestChain] /\ Highest(db) \in Blocks
    BY <1>2, <2>1, ChainsAreChains DEF ChainFacts
  <2>3. Height[Highest(db)] = Height[bestChain]
    BY <1>2, <2>1, <2>2
  <2>. QED
    BY <1>1, <1>2, <2>1, <2>3, ChainsAreChains DEF ChainFacts
<1>4. PoolInv' /\ Pool!Pool' = {}
  BY <1>1 DEF Pool!Restart, Pool!Pool, PoolInv, Pool!IndexCoherent, Pool!Range,
    Pool!IsInjective
<1>5. crashes' \in 0 .. MaxCrashes
  BY ChainAssumption DEF Restart, TypeOK
<1>6. TypeOK'
  <2>1. workSum' \in [Blocks -> Nat]
    <3>1. workSum \in [Blocks -> Nat]
      BY DEF TypeOK
    <3>. QED
      BY <1>1, <3>1
  <2>2. /\ index' \subseteq Blocks /\ inMainChain' \subseteq Blocks
        /\ blockCache' \subseteq Blocks /\ bestChain' \in Blocks
    BY <1>1, <1>2, <1>3 DEF TypeOK
  <2>3. /\ prevOrphans' \in [Blocks -> Seq(Blocks)]
        /\ Pool!Pool' \subseteq Blocks \ {Genesis}
    BY <1>4 DEF PoolInv
  <2>4. /\ db' \subseteq Blocks /\ Genesis \in db' /\ faults' \in 0 .. MaxFaults
    BY <1>1 DEF TypeOK
  <2>5. /\ pc' = "idle" /\ block' = NoBlock /\ flags' = {} /\ detachNodes' = {}
        /\ attachNodes' = {} /\ oldTip' = NoBlock /\ processHashes' = <<>>
    BY <1>1 DEF Return
  <2>6. processHashes' \in Seq(Blocks) /\ flags' \subseteq {"fastAdd", "dryRun"}
    BY <2>5
  <2>7. /\ pc' \in {"idle", "accept", "compare", "connect", "orphans", "panic"}
        /\ block' \in Blocks \cup {NoBlock} /\ oldTip' \in Blocks \cup {NoBlock}
        /\ detachNodes' \subseteq Blocks /\ attachNodes' \subseteq Blocks
    BY <2>5
  <2>. QED
    BY ONLY <1>5, <2>1, <2>2, <2>3, <2>4, <2>6, <2>7, Zenon DEF TypeOK
<1>7. MainChainLinked'
  BY <1>1, <1>2, <1>3 DEF MainChainLinked
<1>8. EveryNodeHasItsBlock'
  <2>1. \A b \in db \ {Genesis} : Parent[b] \in db
    BY <1>2, ChainMembers
  <2>. QED
    BY <1>1, <2>1 DEF EveryNodeHasItsBlock
<1>9. WorkSumsExact'
  BY <1>1 DEF ChainInv, WorkSumsExact, EveryNodeHasItsBlock, TypeOK
<1>10. CallInvariant'
  BY <1>1, <1>4 DEF CallInvariant, PoolInv, Return, dryRun
<1>. QED
  BY <1>6, <1>7, <1>8, <1>9, <1>10 DEF ChainInv

LEMMA TickStep ==
  ASSUME Inv, Tick
  PROVE  Inv'
<1>1. UNCHANGED <<db, nodeVars, callVars, boundVars, orphans, prevOrphans>>
  BY DEF Tick, Pool!Tick, Pool!poolVars
<1>2. ChainInv'
  BY <1>1, SameChain DEF Inv
<1>3. TypeOK'
  BY <1>1 DEF Inv, TypeOK, nodeVars, callVars, boundVars, Pool!Pool
<1>4. CallInvariant'
  BY <1>1 DEF Inv, CallInvariant, nodeVars, callVars, dryRun, Pool!IndexCoherent, Pool!Pool
<1>. QED
  BY <1>2, <1>3, <1>4 DEF Inv

LEMMA StutterStep ==
  ASSUME Inv, UNCHANGED vars
  PROVE  Inv'
<1>1. UNCHANGED <<db, nodeVars, poolVars, callVars, boundVars>>
  BY DEF vars
<1>2. TypeOK'
  BY <1>1 DEF Inv, TypeOK, nodeVars, poolVars, callVars, boundVars, Pool!Pool
<1>3. ChainInv'
  BY <1>1, SameChain DEF Inv
<1>4. CallInvariant'
  BY <1>1 DEF Inv, CallInvariant, nodeVars, poolVars, callVars, dryRun,
    Pool!IndexCoherent, Pool!Pool
<1>. QED
  BY <1>2, <1>3, <1>4 DEF Inv

-----------------------------------------------------------------------------
(***************************************************************************)
(* The inductive invariant holds in every reachable state: of the chain,   *)
(* the orphan pool and the running call together, after any failed         *)
(* database call and any restart.                                          *)
(***************************************************************************)
THEOREM Invariance == Spec => []Inv
<1>1. Init => Inv
  BY InitInv
<1>2. Inv /\ [Next]_vars => Inv'
  <2>. SUFFICES ASSUME Inv, [Next]_vars PROVE Inv'
    OBVIOUS
  <2>1. CASE \E b \in Blocks \ {Genesis} : \E f \in CallsOf[b] : ProcessBlock(b, f)
    BY <2>1, ProcessBlockStep
  <2>2. CASE Step
    BY <2>2, RejectBlockStep, ExtendMainChainStep, AddSideBlockStep, KeepMainChainStep,
      RefuseReorganizeStep, StartReorganizeStep, UndoDryRunStep, DisconnectBlockStep,
      ConnectBlockStep, ProcessNextOrphanStep, NextProcessHashStep DEF Step
  <2>3. CASE FailDatabaseCall
    BY <2>3, FailDatabaseCallStep
  <2>4. CASE Restart
    BY <2>4, RestartStep
  <2>5. CASE Tick
    BY <2>5, TickStep
  <2>6. CASE UNCHANGED vars
    BY <2>6, StutterStep
  <2>. QED
    BY <2>1, <2>2, <2>3, <2>4, <2>5, <2>6 DEF Next
<1>. QED
  BY <1>1, <1>2, PTL DEF Spec

\* Every variable keeps its type, whatever is delivered, fails or crashes.
THEOREM TypeCorrect == Spec => []TypeOK
<1>1. Inv => TypeOK
  BY DEF Inv
<1>. QED
  BY <1>1, Invariance, PTL

\* The database always holds exactly the chain below bestChain: connectBlock and
\* disconnectBlock never leave a gap, between any two writes of a reorganization.
THEOREM ChainStaysLinked == Spec => []MainChainLinked
<1>1. Inv => MainChainLinked
  BY DEF Inv, ChainInv
<1>. QED
  BY <1>1, Invariance, PTL

\* No indexed node is ever without its block, which the code would meet as
\* "missing from the side chain block cache".
THEOREM NodesKeepBlocks == Spec => []EveryNodeHasItsBlock
<1>1. Inv => EveryNodeHasItsBlock
  BY DEF Inv, ChainInv
<1>. QED
  BY <1>1, Invariance, PTL

\* workSum, which connectBestChain compares, is always the work of the chain.
THEOREM WorkStaysExact == Spec => []WorkSumsExact
<1>1. Inv => WorkSumsExact
  BY DEF Inv, ChainInv
<1>. QED
  BY <1>1, Invariance, PTL

\* What the steps of a running call rely on holds when they run.
THEOREM CallsStayConsistent == Spec => []CallInvariant
<1>1. Inv => CallInvariant
  BY DEF Inv
<1>. QED
  BY <1>1, Invariance, PTL

\* The invariant puts the two lists of a reorganization where the chain ends.
LEMMA InSync == Inv => ReorganizeInSync
<1>. SUFFICES ASSUME Inv, pc = "connect" PROVE ReorganizeInSync
  BY DEF ReorganizeInSync
<1>. USE TreeFacts DEF Inv
<1>1. /\ block \in Blocks \ {Genesis} /\ block \notin db
      /\ attachNodes \subseteq blockCache \cup {block}
  BY DEF CallInvariant
<1>2. PICK f \in Ancestry[bestChain] \cap Ancestry[block] :
        /\ f # block
        /\ detachNodes = ChainAbove(bestChain, f)
        /\ attachNodes = ChainAbove(block, f)
  BY DEF CallInvariant
<1>3. bestChain \in Blocks
  BY DEF TypeOK
<1>4. detachNodes # {} => Highest(detachNodes) = bestChain
  <2>1. f = bestChain => ChainAbove(bestChain, f) = {}
    BY <1>3, ChainsAreChains DEF ChainAbove, ChainFacts
  <2>. QED
    BY <1>2, <1>3, <2>1, EndOfChain
<1>5. detachNodes = {} => Parent[Lowest(attachNodes)] = bestChain
  <2>1. detachNodes = {} => f = bestChain
    BY <1>2, <1>3, EndOfChain
  <2>. QED
    BY <1>1, <1>2, <2>1, NextInChain
<1>6. attachNodes \cap db = {}
  BY <1>1 DEF ChainInv, EveryNodeHasItsBlock
<1>. QED
  BY <1>1, <1>4, <1>5, <1>6 DEF ReorganizeInSync

(***************************************************************************)
(* A reorganization that has started is never stopped by the checks of     *)
(* disconnectBlock and connectBlock: the detach list stays the end of the  *)
(* main chain, and the attach list continues it with cached blocks.        *)
(***************************************************************************)
THEOREM ReorganizationsInSync == Spec => []ReorganizeInSync
  BY InSync, Invariance, PTL

-----------------------------------------------------------------------------
(***************************************************************************)
(* The choice of the best chain.                                           *)
(***************************************************************************)
(***************************************************************************)
(* The invariant behind MainChainIsChecked: what is indexed passed         *)
(* maybeAcceptBlock, what is connected passed checkConnectBlock, or it may *)
(* have come in under BFFastAdd; and a call that has the flag works on a   *)
(* block that may.                                                         *)
(***************************************************************************)
ConnectInv ==
  /\ \A b \in index : b \in Acceptable \/ MayBeFast(b)
  /\ \A b \in db : b \in Connectable \/ MayBeFast(b)
  /\ fastAdd => /\ pc \in {"accept", "compare", "connect"} => MayBeFast(block)
                /\ \A i \in DOMAIN processHashes : MayBeFast(processHashes[i])
  /\ pc = "idle" => ~fastAdd
  /\ pc = "connect" => /\ block \in Acceptable \/ MayBeFast(block)
                       /\ \A b \in attachNodes : b \in Connectable \/ MayBeFast(b)

\* A child of a block that may be added fast may be, too.
LEMMA FastChild ==
  ASSUME NEW o \in Blocks \ {Genesis}, MayBeFast(Parent[o])
  PROVE  MayBeFast(o)
BY TreeFacts DEF MayBeFast

\* Accepted adds the block of the call to the work list.
LEMMA AcceptedConnect ==
  ASSUME Inv, ConnectInv, Accepted, pc \in {"compare", "connect"},
         \A b \in index' : b \in Acceptable \/ MayBeFast(b),
         \A b \in db' : b \in Connectable \/ MayBeFast(b)
  PROVE  ConnectInv'
<1>1. /\ pc' = "orphans" /\ flags' = flags
      /\ processHashes' = Append(processHashes, block)
  BY DEF Accepted
<1>2. processHashes \in Seq(Blocks) /\ block \in Blocks
  BY DEF Inv, TypeOK, CallInvariant
<1>3. \A i \in DOMAIN processHashes' :
        processHashes'[i] = block \/ (i \in DOMAIN processHashes
                                       /\ processHashes'[i] = processHashes[i])
  BY <1>1, <1>2, SequenceFacts
<1>4. ASSUME fastAdd', NEW i \in DOMAIN processHashes'
      PROVE  MayBeFast(processHashes'[i])
  BY <1>1, <1>3, <1>4 DEF ConnectInv, fastAdd
<1>. QED
  BY <1>1, <1>4 DEF ConnectInv, fastAdd

LEMMA ConnectInvNext ==
  ASSUME Inv, ConnectInv, [Next]_vars
  PROVE  ConnectInv'
<1>. USE DEF ConnectInv
<1>1. ASSUME Return, db' = db, index' \subseteq index
      PROVE  ConnectInv'
  BY <1>1 DEF Return, fastAdd
<1>2. ASSUME NEW b \in Blocks \ {Genesis}, NEW f \in CallsOf[b], ProcessBlock(b, f)
      PROVE  ConnectInv'
  <2>1. pc = "idle" /\ db' = db /\ index' = index /\ processHashes = <<>>
    BY <1>2 DEF ProcessBlock, Inv, CallInvariant, nodeVars
  <2>2. CASE UNCHANGED callVars
    BY <2>1, <2>2 DEF callVars, fastAdd
  <2>3. CASE pc' = "accept" /\ block' = b /\ flags' = f /\ UNCHANGED processHashes
    <3>1. fastAdd' => MayBeFast(b)
      BY <2>3, TreeFacts DEF MayBeFast, fastAdd
    <3>. QED
      BY <2>1, <2>3, <3>1
  <2>. QED
    BY <1>2, <2>2, <2>3 DEF ProcessBlock
<1>3. CASE RejectBlock
  BY <1>1, <1>3 DEF RejectBlock, nodeVars
<1>4. CASE ExtendMainChain
  <2>1. CASE dryRun
    BY <1>1, <1>4, <2>1 DEF ExtendMainChain, nodeVars
  <2>2. CASE ~dryRun
    <3>1. /\ pc = "accept" /\ pc' = "connect" /\ attachNodes' = {block}
          /\ UNCHANGED <<block, flags, processHashes, db, index>>
          /\ fastAdd \/ block \in Connectable
          /\ IsAcceptable
      BY <1>4, <2>2 DEF ExtendMainChain, nodeVars
    <3>2. /\ block \in Connectable \/ MayBeFast(block)
          /\ block \in Acceptable \/ MayBeFast(block)
      BY <3>1 DEF IsAcceptable
    <3>. QED
      BY <3>1, <3>2 DEF fastAdd
  <2>. QED
    BY <2>1, <2>2
<1>5. CASE AddSideBlock
  <2>1. /\ pc = "accept" /\ pc' = "compare" /\ IsAcceptable
        /\ index' = index \cup {block}
        /\ UNCHANGED <<db, block, flags, processHashes>>
    BY <1>5 DEF AddSideBlock
  <2>2. block \in Acceptable \/ MayBeFast(block)
    BY <2>1 DEF IsAcceptable
  <2>. QED
    BY <2>1, <2>2 DEF fastAdd
<1>6. CASE KeepMainChain
  BY <1>6, AcceptedConnect DEF KeepMainChain, nodeVars
<1>7. CASE RefuseReorganize
  BY <1>1, <1>7 DEF RefuseReorganize, nodeVars
<1>8. CASE StartReorganize
  <2>1. /\ pc = "compare" /\ pc' = "connect"
        /\ attachNodes' \subseteq Connectable
        /\ UNCHANGED <<db, index, block, flags, processHashes>>
    BY <1>8 DEF StartReorganize, CanReorganize, nodeVars
  <2>2. block \in index
    BY <2>1 DEF Inv, CallInvariant, ChainInv, EveryNodeHasItsBlock
  <2>. QED
    BY <2>1, <2>2 DEF fastAdd
<1>9. CASE UndoDryRun
  BY <1>1, <1>9 DEF UndoDryRun
<1>10. CASE DisconnectBlock
  <2>1. CASE Return /\ db' = db /\ index' = index
    BY <1>1, <2>1
  <2>2. CASE /\ db' \subseteq db
             /\ UNCHANGED <<index, pc, block, flags, attachNodes, processHashes>>
    BY <2>2 DEF fastAdd
  <2>. QED
    BY <1>10, <2>1, <2>2 DEF DisconnectBlock, DropAfter, nodeVars
<1>11. CASE ConnectBlock
  <2>. DEFINE n == Lowest(attachNodes)
  <2>1. pc = "connect" /\ detachNodes = {}
    BY <1>11 DEF ConnectBlock
  <2>2. CASE Return /\ db' = db /\ index' = index
    BY <1>1, <2>2
  <2>3. n \in attachNodes
    <3>1. PICK f \in Ancestry[block] : f # block /\ attachNodes = ChainAbove(block, f)
      BY <2>1 DEF Inv, CallInvariant
    <3>. QED
      BY <2>1, <3>1, NextInChain DEF Inv, CallInvariant
  <2>. HIDE DEF n
  <2>4. /\ n \in Acceptable \/ MayBeFast(n)
        /\ n \in Connectable \/ MayBeFast(n)
    BY <2>1, <2>3 DEF Inv, CallInvariant, ChainInv, EveryNodeHasItsBlock
  <2>5. CASE /\ db' = db \cup {n} /\ index' = index \cup {n}
             /\ attachNodes' = attachNodes \ {n}
             /\ UNCHANGED <<pc, block, flags, processHashes>>
    BY <2>1, <2>4, <2>5 DEF fastAdd
  <2>6. CASE /\ db' = db \cup {n} /\ index' = index \cup {n}
             /\ pc' = "panic" /\ UNCHANGED <<flags, processHashes>>
    BY <2>1, <2>4, <2>6 DEF fastAdd
  <2>7. CASE db' = db \cup {n} /\ index' = index \cup {n} /\ Accepted
    BY <2>1, <2>4, <2>7, AcceptedConnect
  <2>. QED
    BY <1>11, <2>2, <2>5, <2>6, <2>7 DEF ConnectBlock, n, FinishReorganize, nodeVars
<1>12. ASSUME NEW o \in Blocks, ProcessNextOrphan(o)
       PROVE  ConnectInv'
  <2>1. /\ pc = "orphans" /\ pc' = "accept" /\ block' = o
        /\ UNCHANGED <<db, index, flags, processHashes>>
        /\ Pool!TakeOrphan(Head(processHashes), o)
    BY <1>12 DEF ProcessNextOrphan, nodeVars
  <2>2. /\ Head(processHashes) = processHashes[1] /\ 1 \in DOMAIN processHashes
        /\ o \in Blocks \ {Genesis} /\ Parent[o] = Head(processHashes)
    BY <2>1, TakenWaits
  <2>3. fastAdd' => MayBeFast(o)
    BY <2>1, <2>2, FastChild DEF fastAdd
  <2>. QED
    BY <2>1, <2>3 DEF fastAdd
<1>13. CASE NextProcessHash
  <2>1. CASE Return /\ db' = db /\ index' = index
    BY <1>1, <2>1
  <2>2. CASE /\ processHashes' = Tail(processHashes) /\ pc = "orphans"
             /\ UNCHANGED <<pc, db, index, flags>>
    <3>1. \A i \in DOMAIN processHashes' :
            i + 1 \in DOMAIN processHashes /\ processHashes'[i] = processHashes[i + 1]
      BY <2>2, SequenceFacts DEF Inv, TypeOK, CallInvariant
    <3>. QED
      BY <2>2, <3>1 DEF fastAdd
  <2>. QED
    BY <1>13, <2>1, <2>2 DEF NextProcessHash, nodeVars
<1>14. CASE FailDatabaseCall
  BY <1>1, <1>14 DEF FailDatabaseCall, nodeVars
<1>15. CASE Restart
  <2>1. Return /\ index' = db /\ db' = db /\ db \subseteq index
    BY <1>15 DEF Restart, Inv, ChainInv, EveryNodeHasItsBlock
  <2>. QED
    BY <1>1, <2>1
<1>16. CASE Tick \/ UNCHANGED vars
  BY <1>16 DEF Tick, vars, callVars, nodeVars, fastAdd
<1>. QED
  BY <1>2, <1>3, <1>4, <1>5, <1>6, <1>7, <1>8, <1>9, <1>10, <1>11, <1>12, <1>13,
    <1>14, <1>15, <1>16 DEF Next, Step

(***************************************************************************)
(* Only blocks that pass their checks enter the main chain, whatever fails *)
(* or crashes, and whichever orphans an accepted block releases; all that  *)
(* escapes the checks are the blocks delivered with BFFastAdd and blocks   *)
(* on top of them.                                                         *)
(***************************************************************************)
THEOREM OnlyCheckedBlocks == Spec => []MainChainIsChecked
<1>1. Init => ConnectInv
  BY ValidityAssumption DEF Init, ConnectInv, fastAdd
<1>2. Inv /\ ConnectInv /\ [Next]_vars => ConnectInv'
  BY ConnectInvNext
<1>3. Inv /\ ConnectInv => MainChainIsChecked
  BY DEF Inv, ConnectInv, MainChainIsChecked, ChainInv, EveryNodeHasItsBlock
<1>. QED
  BY <1>1, <1>2, <1>3, Invariance, PTL DEF Spec

-----------------------------------------------------------------------------
\* Every block of which b is an ancestor passes checkConnectBlock.
Trusted(b) == \A c \in Blocks : b \in Ancestry[c] => c \in Connectable

\* process.go has BFFastAdd for blocks "known to fit into the chain due to already
\* proving it correct links into the chain up to a known checkpoint".
FastAddsTrusted ==
  \A b \in Blocks : \A f \in CallsOf[b] : "fastAdd" \in f => Trusted(b)

\* Then every block of the main chain connects.
AllConnect == db \subseteq Connectable

LEMMA TrustedConnect == FastAddsTrusted /\ Inv /\ MainChainIsChecked => AllConnect
<1>. SUFFICES ASSUME FastAddsTrusted, Inv, MainChainIsChecked, NEW b \in db, MayBeFast(b)
              PROVE  b \in Connectable
  BY DEF AllConnect, MainChainIsChecked
<1>1. b \in Blocks
  BY DEF Inv, TypeOK
<1>2. PICK c \in Ancestry[b] : \E f \in CallsOf[c] : "fastAdd" \in f
  BY DEF MayBeFast
<1>3. c \in Blocks /\ Trusted(c)
  BY <1>1, <1>2, TreeFacts DEF FastAddsTrusted
<1>. QED
  BY <1>1, <1>2, <1>3 DEF Trusted

-----------------------------------------------------------------------------
(***************************************************************************)
(* The invariant behind NoPanic and the promise of BestChain, while no     *)
(* database call fails: no block hangs above the end of the chain outside  *)
(* a reorganization, and a reorganization leads to a block with more work  *)
(* than the old tip, which is not below it.                                *)
(***************************************************************************)
ChoiceInv ==
  /\ pc # "panic"
  /\ TipHasNoChild
  /\ pc # "connect" => oldTip = NoBlock
  /\ pc = "connect" =>
       /\ \A b \in index \ {Genesis} : Parent[b] # block
       /\ oldTip = NoBlock =>
            /\ block \notin index
            /\ Parent[block] = bestChain
            /\ attachNodes = {block}
       /\ oldTip # NoBlock =>
            /\ block \in index
            /\ oldTip \in Blocks \ Ancestry[block]
            /\ Work[block] > Work[oldTip]

\* A step that returns leaves the invariant if it leaves the chain.
LEMMA ReturnChoice ==
  ASSUME ChoiceInv, pc \notin {"connect", "panic"}, Return,
         bestChain' = bestChain, index' \subseteq index
  PROVE  ChoiceInv'
  BY DEF ChoiceInv, TipHasNoChild, Return

LEMMA StartChoice ==
  ASSUME Inv, ChoiceInv, StartReorganize
  PROVE  ChoiceInv'
<1>. USE TreeFacts DEF Inv
<1>1. /\ pc = "compare" /\ pc' = "connect" /\ HasMoreWork
      /\ NodesToAttach(block) \subseteq blockCache \cap Connectable
      /\ oldTip' = bestChain
      /\ UNCHANGED <<db, index, bestChain, block>>
  BY DEF StartReorganize, CanReorganize, nodeVars
<1>2. /\ block \in Blocks \ {Genesis} /\ block \in index
      /\ \A b \in index \ {Genesis} : Parent[b] # block
      /\ bestChain \in Blocks /\ bestChain \in index
      /\ db = Ancestry[bestChain] /\ inMainChain = db
      /\ db \cap blockCache = {} /\ index = db \cup blockCache
  BY <1>1 DEF CallInvariant, TypeOK, ChainInv, MainChainLinked, EveryNodeHasItsBlock
<1>3. Work[block] > Work[bestChain]
  BY <1>1, <1>2 DEF HasMoreWork, ChainInv, WorkSumsExact
<1>. DEFINE f == ForkPoint(block)
            S == Ancestry[block] \cap (inMainChain \cup {Genesis})
<1>4. f \in S /\ \A c \in S : Height[c] <= Height[f]
  <2>1. S \in SUBSET Ancestry[block] /\ S # {}
    BY <1>2
  <2>. QED
    BY <1>2, <2>1, HasHighest DEF ForkPoint
<1>5. f \in Ancestry[block] /\ f \in db /\ f # block
  BY <1>1, <1>2, <1>4 DEF CallInvariant
<1>. HIDE DEF f
<1>6. f # bestChain
  <2>1. SUFFICES ASSUME f = bestChain PROVE FALSE
    OBVIOUS
  <2>. DEFINE n == Lowest(ChainAbove(block, f))
  <2>2. n \in ChainAbove(block, f) /\ n \in Blocks \ {Genesis} /\ Parent[n] = f
    BY <1>2, <1>5, NextInChain
  <2>3. n \in index
    BY <1>1, <1>2, <2>2 DEF NodesToAttach, f
  <2>. QED
    BY <1>1, <2>1, <2>2, <2>3 DEF ChoiceInv, TipHasNoChild
<1>7. bestChain \notin Ancestry[block]
  <2>1. SUFFICES ASSUME bestChain \in Ancestry[block] PROVE FALSE
    OBVIOUS
  <2>2. Height[bestChain] <= Height[f]
    BY <1>2, <1>4, <2>1
  <2>3. Height[f] <= Height[bestChain] /\ f \in Blocks
    BY <1>2, <1>5, ChainsAreChains DEF ChainFacts
  <2>4. Height[f] = Height[bestChain]
    BY <1>2, <2>2, <2>3
  <2>. QED
    BY <1>2, <1>5, <1>6, <2>4, ChainsAreChains DEF ChainFacts
<1>. QED
  BY <1>1, <1>2, <1>3, <1>7, ChainAssumption DEF ChoiceInv, TipHasNoChild

\* Blocks are only disconnected to make room for a side chain.
LEMMA DetachesOldTip ==
  ASSUME Inv, ChoiceInv, DisconnectBlock
  PROVE  oldTip # NoBlock
<1>. USE TreeFacts DEF Inv
<1>1. SUFFICES ASSUME oldTip = NoBlock PROVE FALSE
  OBVIOUS
<1>2. pc = "connect" /\ detachNodes # {} /\ bestChain \in Blocks
  BY DEF DisconnectBlock, TypeOK
<1>3. Parent[block] = bestChain /\ block \in Blocks \ {Genesis} /\ attachNodes = {block}
  BY <1>1, <1>2 DEF ChoiceInv, CallInvariant
<1>4. PICK g \in Ancestry[bestChain] \cap Ancestry[block] :
        detachNodes = ChainAbove(bestChain, g) /\ attachNodes = ChainAbove(block, g)
  BY <1>2 DEF CallInvariant
<1>5. bestChain \in Ancestry[block] /\ bestChain \notin attachNodes
  BY <1>2, <1>3
<1>6. ~ (Height[bestChain] > Height[g])
  BY <1>4, <1>5 DEF ChainAbove
<1>7. g \in Blocks /\ \A c \in Ancestry[bestChain] : Height[c] <= Height[bestChain]
                                                     /\ c \in Blocks
  BY <1>2, <1>4, ChainsAreChains DEF ChainFacts
<1>8. \A c \in Ancestry[bestChain] : ~ (Height[c] > Height[g])
  BY <1>2, <1>6, <1>7
<1>. QED
  BY <1>2, <1>4, <1>8 DEF ChainAbove

LEMMA DisconnectChoice ==
  ASSUME Inv, ChoiceInv, DisconnectBlock
  PROVE  ChoiceInv'
<1>. USE DEF Inv
<1>1. pc = "connect" /\ detachNodes # {} /\ Highest(detachNodes) = bestChain
  BY InSync DEF DisconnectBlock, ReorganizeInSync
<1>2. UNCHANGED <<index, pc, block, attachNodes, oldTip>>
  BY <1>1 DEF DisconnectBlock
<1>3. oldTip # NoBlock
  BY DetachesOldTip
<1>. QED
  BY <1>1, <1>2, <1>3 DEF ChoiceInv, TipHasNoChild

\* What connectBlock does, given the invariants: it connects the lowest node of
\* the attach list, and returns without a panic when that is the block itself.
LEMMA ConnectEffect ==
  ASSUME Inv, ChoiceInv, ConnectBlock
  PROVE  \E n \in attachNodes :
           /\ pc = "connect" /\ ~dryRun
           /\ n \in Blocks \ {Genesis} /\ n \in blockCache \cup {block}
           /\ Parent[n] = bestChain
           /\ db' = db \cup {n}
           /\ index' = index \cup {n}
           /\ bestChain' = n
           /\ \/ /\ n # block /\ oldTip # NoBlock /\ block \in attachNodes
                 /\ attachNodes' = attachNodes \ {n}
                 /\ UNCHANGED <<pc, block, flags, detachNodes, oldTip, processHashes>>
              \/ /\ n = block
                 /\ db' = Ancestry[block]
                 /\ Accepted
<1>. USE TreeFacts DEF Inv
<1>. DEFINE n == Lowest(attachNodes)
<1>1. pc = "connect" /\ detachNodes = {} /\ ~dryRun /\ block \in Blocks \ {Genesis}
      /\ attachNodes \subseteq blockCache \cup {block}
  BY DEF ConnectBlock, CallInvariant
<1>2. PICK f \in Ancestry[bestChain] \cap Ancestry[block] :
        /\ f # block
        /\ {} = ChainAbove(bestChain, f)
        /\ attachNodes = ChainAbove(block, f)
  BY <1>1 DEF CallInvariant
<1>3. f = bestChain /\ bestChain \in Blocks /\ db = Ancestry[bestChain]
  BY <1>2, EndOfChain DEF TypeOK, ChainInv, MainChainLinked
<1>4. /\ n \in attachNodes
      /\ n \in Blocks \ {Genesis}
      /\ Parent[n] = bestChain
      /\ ChainAbove(block, n) = attachNodes \ {n}
      /\ block \in attachNodes
  BY <1>1, <1>2, <1>3, NextInChain, EndOfChain
<1>. HIDE DEF n
<1>5. /\ db' = db \cup {n}
      /\ index' = index \cup {n}
      /\ bestChain' = n
      /\ IF attachNodes # {n}
         THEN /\ attachNodes' = attachNodes \ {n}
              /\ UNCHANGED <<pc, block, flags, detachNodes, oldTip, processHashes>>
         ELSE IF oldTip \in db
         THEN pc' = "panic" /\ UNCHANGED <<block, flags, detachNodes,
                             attachNodes, oldTip, processHashes>>
         ELSE Accepted
  BY <1>4 DEF ConnectBlock, n, FinishReorganize
<1>6. CASE attachNodes # {n}
  <2>1. n # block
    <3>1. ChainAbove(block, block) = {}
      BY <1>1, ChainsAreChains DEF ChainAbove, ChainFacts
    <3>. QED
      BY <1>4, <1>6, <3>1
  <2>2. oldTip # NoBlock
    BY <1>1, <1>4, <2>1 DEF ChoiceInv
  <2>. QED
    BY <1>1, <1>4, <1>5, <1>6, <2>1, <2>2
<1>7. CASE attachNodes = {n}
  <2>1. n = block /\ db' = Ancestry[block]
    BY <1>1, <1>3, <1>4, <1>5, <1>7
  <2>2. oldTip \notin db
    <3>1. db \subseteq Ancestry[block]
      BY <1>5, <2>1
    <3>2. NoBlock \notin db
      BY ChainAssumption DEF TypeOK
    <3>. QED
      BY <1>1, <3>1, <3>2 DEF ChoiceInv
  <2>. QED
    BY <1>1, <1>4, <1>5, <1>7, <2>1, <2>2
<1>. QED
  BY <1>6, <1>7

LEMMA ConnectChoice ==
  ASSUME Inv, ChoiceInv, ConnectBlock
  PROVE  ChoiceInv'
<1>. USE TreeFacts DEF Inv
<1>1. PICK n \in attachNodes :
        /\ pc = "connect"
        /\ n \in Blocks \ {Genesis} /\ n \in blockCache \cup {block}
        /\ Parent[n] = bestChain
        /\ index' = index \cup {n}
        /\ bestChain' = n
        /\ \/ /\ n # block /\ oldTip # NoBlock
              /\ UNCHANGED <<pc, block, oldTip>>
           \/ n = block /\ Accepted
  BY ConnectEffect
<1>2. CASE n # block /\ oldTip # NoBlock /\ UNCHANGED <<pc, block, oldTip>>
  <2>1. index' = index
    BY <1>1, <1>2 DEF ChainInv, EveryNodeHasItsBlock
  <2>. QED
    BY <1>1, <1>2, <2>1 DEF ChoiceInv, TipHasNoChild
<1>3. CASE n = block /\ Accepted
  <2>1. \A b \in index' \ {Genesis} : Parent[b] # block
    BY <1>1, <1>3 DEF ChoiceInv
  <2>. QED
    BY <1>1, <1>3, <2>1 DEF ChoiceInv, TipHasNoChild, Accepted
<1>. QED
  BY <1>1, <1>2, <1>3

LEMMA ChoiceInvNext ==
  ASSUME MaxFaults = 0, Inv, ChoiceInv, [Next]_vars
  PROVE  ChoiceInv'
<1>. USE TreeFacts DEF Inv
<1>1. ASSUME NEW b \in Blocks \ {Genesis}, NEW f \in CallsOf[b], ProcessBlock(b, f)
      PROVE  ChoiceInv'
  BY <1>1 DEF ProcessBlock, ChoiceInv, TipHasNoChild, nodeVars, callVars
<1>2. CASE RejectBlock
  BY <1>2, ReturnChoice DEF RejectBlock, nodeVars
<1>3. CASE ExtendMainChain
  <2>1. CASE dryRun
    BY <1>3, <2>1, ReturnChoice DEF ExtendMainChain, nodeVars
  <2>2. CASE ~dryRun
    <3>1. /\ pc = "accept" /\ pc' = "connect" /\ attachNodes' = {block}
          /\ UNCHANGED <<index, bestChain, block, oldTip>>
          /\ Parent[block] = bestChain
      BY <1>3, <2>2 DEF ExtendMainChain, ExtendsBestChain, nodeVars
    <3>2. block \in Blocks \ {Genesis} /\ block \notin index
      BY <3>1 DEF CallInvariant
    <3>3. \A b \in index \ {Genesis} : Parent[b] # block
      BY <3>2 DEF ChainInv, EveryNodeHasItsBlock
    <3>. QED
      BY <3>1, <3>2, <3>3 DEF ChoiceInv, TipHasNoChild
  <2>. QED
    BY <2>1, <2>2
<1>4. CASE AddSideBlock
  BY <1>4 DEF AddSideBlock, ExtendsBestChain, ChoiceInv, TipHasNoChild
<1>5. CASE KeepMainChain
  BY <1>5 DEF KeepMainChain, Accepted, ChoiceInv, TipHasNoChild, nodeVars
<1>6. CASE RefuseReorganize
  BY <1>6, ReturnChoice DEF RefuseReorganize, nodeVars
<1>7. CASE StartReorganize
  BY <1>7, StartChoice
<1>8. CASE UndoDryRun
  BY <1>8, ReturnChoice DEF UndoDryRun
<1>9. CASE DisconnectBlock
  BY <1>9, DisconnectChoice
<1>10. CASE ConnectBlock
  BY <1>10, ConnectChoice
<1>11. ASSUME NEW o \in Blocks, ProcessNextOrphan(o)
       PROVE  ChoiceInv'
  BY <1>11 DEF ProcessNextOrphan, ChoiceInv, TipHasNoChild, nodeVars
<1>12. CASE NextProcessHash
  BY <1>12 DEF NextProcessHash, Return, ChoiceInv, TipHasNoChild, nodeVars
<1>13. CASE FailDatabaseCall
  BY <1>13 DEF FailDatabaseCall, TypeOK
<1>14. CASE Restart
  <2>1. /\ index' = db /\ bestChain' = Highest(db) /\ Return
    BY <1>14 DEF Restart
  <2>2. bestChain \in Blocks /\ db = Ancestry[bestChain]
    BY DEF TypeOK, ChainInv, MainChainLinked
  <2>3. Highest(db) \in db /\ \A b \in db : Height[b] <= Height[Highest(db)]
    BY <2>2, HasHighest
  <2>4. \A b \in db \ {Genesis} : Height[b] = Height[Parent[b]] + 1 /\ Height[b] \in Nat
                                   /\ Height[Parent[b]] \in Nat
    BY <2>2, TreeAssumption
  <2>5. \A b \in db \ {Genesis} : Parent[b] # Highest(db)
    BY <2>3, <2>4
  <2>. QED
    BY <2>1, <2>5 DEF ChoiceInv, TipHasNoChild, Return
<1>15. CASE Tick \/ UNCHANGED vars
  BY <1>15 DEF Tick, vars, nodeVars, callVars, ChoiceInv, TipHasNoChild
<1>. QED
  BY <1>1, <1>2, <1>3, <1>4, <1>5, <1>6, <1>7, <1>8, <1>9, <1>10, <1>11, <1>12, <1>13,
    <1>14, <1>15 DEF Next, Step

LEMMA ChoiceInvariance ==
  ASSUME MaxFaults = 0
  PROVE  Spec => []ChoiceInv
<1>1. Init => ChoiceInv
  BY DEF Init, ChoiceInv, TipHasNoChild
<1>2. Inv /\ ChoiceInv /\ [Next]_vars => ChoiceInv'
  BY ChoiceInvNext
<1>. QED
  BY <1>1, <1>2, Invariance, PTL DEF Spec

\* While no database call fails, no block hangs above the end of the main chain,
\* through any reorganization, dry run or restart.
THEOREM TipStaysALeaf ==
  ASSUME MaxFaults = 0
  PROVE  Spec => []TipHasNoChild
<1>1. ChoiceInv => TipHasNoChild
  BY DEF ChoiceInv
<1>. QED
  BY <1>1, ChoiceInvariance, PTL

\* reorganizeChain cannot panic unless a database call has failed before: the
\* old tip is never below the block it reorganizes to.
THEOREM PanicNeedsFault ==
  ASSUME MaxFaults = 0
  PROVE  Spec => []NoPanic
<1>1. ChoiceInv => NoPanic
  BY DEF ChoiceInv, NoPanic
<1>. QED
  BY <1>1, ChoiceInvariance, PTL

-----------------------------------------------------------------------------
\* The variables of BestChain, in terms of those of BlockChain.
Tip == IF oldTip = NoBlock THEN bestChain ELSE oldTip
PromiseInv == Inv /\ AllConnect /\ ChoiceInv

LEMMA PromiseDefs ==
  /\ Promise!vars = <<Settled, Tip>>
  /\ Promise!vars' = <<Settled', Tip'>>
  /\ \A b : Promise!Accept(b) <=>
              /\ b \notin Settled
              /\ Parent[b] \in Settled
              /\ Settled' = Settled \cup {b}
              /\ Tip' = IF FullyValid(b) /\ Work[b] > Work[Tip] THEN b ELSE Tip
  BY DEF Promise!vars, Promise!Accept, Promise!FullyValid, FullyValid, Tip

\* The whole chain of a block fits a reorganization when the block is fully valid:
\* what it has to attach is cached, so a refusal means an unconnectable block.
LEMMA RefusalMeansInvalid ==
  ASSUME Inv, pc = "compare", ~CanReorganize
  PROVE  ~FullyValid(block)
<1>. USE TreeFacts DEF Inv
<1>. DEFINE S == Ancestry[block] \cap (inMainChain \cup {Genesis})
            f == ForkPoint(block)
<1>1. /\ block \in Blocks \ {Genesis} /\ block \in index
      /\ db = Ancestry[bestChain] /\ bestChain \in Blocks /\ inMainChain = db
      /\ index = db \cup blockCache
      /\ \A b \in index \ {Genesis} : Parent[b] \in index
  BY DEF CallInvariant, TypeOK, ChainInv, MainChainLinked, EveryNodeHasItsBlock
<1>2. f \in S /\ \A c \in S : Height[c] <= Height[f]
  <2>1. S \in SUBSET Ancestry[block] /\ S # {}
    BY <1>1
  <2>. QED
    BY <1>1, <2>1, HasHighest DEF ForkPoint
<1>. HIDE DEF f
<1>3. f \in Blocks
  BY <1>1, <1>2
<1>4. Ancestry[block] \subseteq index
  <2>. DEFINE T == {b \in Blocks : b \in index => Ancestry[b] \subseteq index}
  <2>1. Genesis \in T
    BY TreeAssumption, <1>1
  <2>2. ASSUME NEW b \in Blocks \ {Genesis}, Parent[b] \in T
        PROVE  b \in T
    BY <1>1, <2>2
  <2>. HIDE DEF T
  <2>3. Blocks \subseteq T
    BY <2>1, <2>2, ChainInduction
  <2>. QED
    BY <1>1, <2>3 DEF T
<1>5. NodesToAttach(block) \subseteq blockCache
  <2>1. SUFFICES ASSUME NEW c \in ChainAbove(block, f) PROVE c \in blockCache
    BY DEF NodesToAttach, f
  <2>2. c \in Ancestry[block] /\ Height[c] > Height[f] /\ c \in Blocks
    BY <1>1, <2>1 DEF ChainAbove
  <2>3. c \notin S
    BY <1>2, <1>3, <2>2
  <2>. QED
    BY <1>1, <1>4, <2>2, <2>3
<1>6. NodesToAttach(block) \subseteq Ancestry[block]
  BY DEF NodesToAttach, ChainAbove
<1>. QED
  BY <1>5, <1>6 DEF CanReorganize, FullyValid

LEMMA AcceptStep ==
  ASSUME PromiseInv, pc \in {"compare", "connect"},
         \A b \in index \ {Genesis} : Parent[b] # block,
         pc' \notin {"compare", "connect"}, index' = index \cup {block},
         Tip' = IF FullyValid(block) /\ Work[block] > Work[Tip] THEN block ELSE Tip
  PROVE  Promise!Next
<1>. USE TreeFacts
<1>1. block \in Blocks \ {Genesis} /\ Parent[block] \in index
  BY DEF PromiseInv, Inv, CallInvariant
<1>2. /\ block \notin Settled
      /\ Parent[block] \in Settled
      /\ Settled' = Settled \cup {block}
  BY <1>1 DEF Settled
<1>3. Promise!Accept(block)
  BY <1>2, PromiseDefs
<1>. QED
  BY <1>1, <1>3 DEF Promise!Next

LEMMA PromiseStep ==
  ASSUME MaxFaults = 0, PromiseInv, AllConnect', [Next]_vars, ~Restart
  PROVE  [Promise!Next]_(Promise!vars)
<1>. USE TreeFacts DEF PromiseInv
<1>1. ASSUME UNCHANGED <<Settled, Tip>>
      PROVE  UNCHANGED Promise!vars
  BY <1>1, PromiseDefs
<1>2. ASSUME NEW b \in Blocks \ {Genesis}, NEW f \in CallsOf[b], ProcessBlock(b, f)
      PROVE  UNCHANGED Promise!vars
  BY <1>1, <1>2 DEF ProcessBlock, Settled, Tip, nodeVars, callVars
<1>3. CASE RejectBlock
  BY <1>1, <1>3 DEF RejectBlock, Return, Settled, Tip, nodeVars, ChoiceInv
<1>4. CASE ExtendMainChain
  <2>1. block \notin index /\ pc = "accept" /\ oldTip = NoBlock
    BY <1>4 DEF ExtendMainChain, Inv, CallInvariant, ChoiceInv
  <2>2. UNCHANGED <<index, bestChain>> /\ oldTip' = NoBlock
    BY <1>4, <2>1 DEF ExtendMainChain, Return, nodeVars
  <2>3. pc' = "idle" \/ block' = block
    BY <1>4 DEF ExtendMainChain, Return
  <2>4. Settled' = Settled
    BY <1>4, <2>1, <2>2, <2>3 DEF Settled
  <2>. QED
    BY <1>1, <2>1, <2>2, <2>4 DEF Tip
<1>5. CASE AddSideBlock
  <2>1. block \notin index
    BY <1>5 DEF AddSideBlock, Inv, CallInvariant
  <2>. QED
    BY <1>1, <1>5, <2>1 DEF AddSideBlock, Settled, Tip
<1>6. CASE KeepMainChain
  <2>1. /\ pc = "compare" /\ ~HasMoreWork /\ Accepted /\ UNCHANGED <<index, bestChain>>
    BY <1>6 DEF KeepMainChain, nodeVars
  <2>2. /\ block \in index /\ bestChain \in index
        /\ block \in Blocks /\ bestChain \in Blocks
        /\ \A b \in index \ {Genesis} : Parent[b] # block
    BY <2>1 DEF Inv, TypeOK, CallInvariant, ChainInv, MainChainLinked, EveryNodeHasItsBlock
  <2>3. ~ (Work[block] > Work[bestChain])
    BY <2>1, <2>2 DEF HasMoreWork, Inv, ChainInv, WorkSumsExact
  <2>4. Tip = bestChain /\ Tip' = bestChain
    BY <2>1 DEF Tip, Accepted, ChoiceInv
  <2>5. pc' = "orphans" /\ index' = index \cup {block}
    BY <2>1, <2>2 DEF Accepted
  <2>. QED
    BY <2>1, <2>2, <2>3, <2>4, <2>5, AcceptStep
<1>7. CASE RefuseReorganize
  <2>1. /\ pc = "compare" /\ ~CanReorganize /\ Return /\ UNCHANGED <<index, bestChain>>
    BY <1>7 DEF RefuseReorganize, nodeVars
  <2>2. block \in index /\ \A b \in index \ {Genesis} : Parent[b] # block
    BY <2>1 DEF Inv, CallInvariant, ChainInv, EveryNodeHasItsBlock
  <2>3. ~FullyValid(block)
    BY <2>1, RefusalMeansInvalid
  <2>4. Tip = bestChain /\ Tip' = bestChain /\ pc' = "idle"
    BY <2>1 DEF Tip, Return, ChoiceInv
  <2>. QED
    BY <2>1, <2>2, <2>3, <2>4, AcceptStep
<1>8. CASE StartReorganize
  <2>1. bestChain # NoBlock
    BY ChainAssumption DEF Inv, TypeOK
  <2>. QED
    BY <1>1, <1>8, <2>1 DEF StartReorganize, Settled, Tip, nodeVars, ChoiceInv
<1>9. CASE UndoDryRun
  BY <1>1, <1>9 DEF UndoDryRun, Return, Settled, Tip, ChoiceInv
<1>10. CASE DisconnectBlock
  <2>1. pc = "connect"
    BY <1>10 DEF DisconnectBlock
  <2>2. detachNodes # {} /\ Highest(detachNodes) = bestChain
    <3>1. ReorganizeInSync
      BY InSync DEF PromiseInv
    <3>. QED
      BY <1>10, <3>1 DEF DisconnectBlock, ReorganizeInSync
  <2>3. UNCHANGED <<index, pc, block, oldTip>>
    BY <1>10, <2>2 DEF DisconnectBlock
  <2>4. oldTip # NoBlock
    BY <1>10, DetachesOldTip
  <2>. QED
    BY <1>1, <2>3, <2>4 DEF Settled, Tip
<1>11. CASE ConnectBlock
  <2>1. PICK n \in attachNodes :
           /\ pc = "connect" /\ ~dryRun
           /\ n \in Blocks \ {Genesis} /\ n \in blockCache \cup {block}
           /\ Parent[n] = bestChain
           /\ db' = db \cup {n}
           /\ index' = index \cup {n}
           /\ bestChain' = n
           /\ \/ /\ n # block /\ oldTip # NoBlock /\ block \in attachNodes
                 /\ attachNodes' = attachNodes \ {n}
                 /\ UNCHANGED <<pc, block, flags, detachNodes, oldTip, processHashes>>
              \/ /\ n = block
                 /\ db' = Ancestry[block]
                 /\ Accepted
    BY <1>11, ConnectEffect
  <2>2. CASE n # block /\ oldTip # NoBlock /\ UNCHANGED <<pc, block, oldTip>>
    <3>1. index' = index
      BY <2>1, <2>2 DEF Inv, ChainInv, EveryNodeHasItsBlock
    <3>. QED
      BY <1>1, <2>2, <3>1 DEF Settled, Tip
  <2>3. CASE n = block /\ db' = Ancestry[block] /\ Accepted
    <3>1. FullyValid(block)
      BY <2>3 DEF AllConnect, FullyValid
    <3>2. Work[block] > Work[Tip]
      <4>1. CASE oldTip = NoBlock
        <5>1. Work[block] = Work[bestChain] + Trust[block] /\ Work[bestChain] \in Nat
              /\ Trust[block] \in Nat \ {0}
          BY <2>1, <2>3, WorkAssumption DEF Inv, TypeOK
        <5>. QED
          BY <4>1, <5>1 DEF Tip
      <4>2. CASE oldTip # NoBlock
        BY <2>1, <4>2 DEF ChoiceInv, Tip
      <4>. QED
        BY <4>1, <4>2
    <3>3. Tip' = block /\ pc' = "orphans"
      BY <2>1, <2>3 DEF Tip, Accepted
    <3>4. \A b \in index \ {Genesis} : Parent[b] # block
      BY <2>1 DEF ChoiceInv
    <3>. QED
      BY <2>1, <2>3, <3>1, <3>2, <3>3, <3>4, AcceptStep
  <2>. QED
    BY <2>1, <2>2, <2>3
<1>12. ASSUME NEW o \in Blocks, ProcessNextOrphan(o)
       PROVE  UNCHANGED Promise!vars
  BY <1>1, <1>12 DEF ProcessNextOrphan, Settled, Tip, nodeVars
<1>13. CASE NextProcessHash
  BY <1>1, <1>13 DEF NextProcessHash, Return, Settled, Tip, nodeVars, ChoiceInv
<1>14. ~FailDatabaseCall
  BY DEF FailDatabaseCall, Inv, TypeOK
<1>15. CASE Tick \/ UNCHANGED vars
  BY <1>1, <1>15 DEF Tick, vars, nodeVars, callVars, Settled, Tip
<1>. QED
  BY <1>2, <1>3, <1>4, <1>5, <1>6, <1>7, <1>8, <1>9, <1>10, <1>11, <1>12, <1>13,
    <1>14, <1>15 DEF Next, Step

LEMMA PromiseInvariance ==
  ASSUME MaxFaults = 0, FastAddsTrusted
  PROVE  Spec => []PromiseInv
<1>1. Inv /\ MainChainIsChecked => AllConnect
  BY TrustedConnect
<1>. QED
  BY <1>1, Invariance, OnlyCheckedBlocks, ChoiceInvariance, PTL DEF PromiseInv

(***************************************************************************)
(* The node implements BestChain: it accepts one block of the tree after   *)
(* another, and at each the tip becomes the new block exactly if that is   *)
(* fully valid and has more work; nothing else about dry runs, caches,     *)
(* orphans and reorganizations shows.  While no database call fails, the   *)
(* process is not killed, and BFFastAdd is used as intended.               *)
(***************************************************************************)
THEOREM KeepsPromise ==
  ASSUME MaxFaults = 0, MaxCrashes = 0, FastAddsTrusted
  PROVE  Spec => ImplementsBestChain
<1>1. Init => Promise!Init
  BY DEF Init, Promise!Init, Settled
<1>2. PromiseInv /\ AllConnect' /\ [Next]_vars => [Promise!Next]_(Promise!vars)
  <2>1. PromiseInv => ~Restart
    BY DEF PromiseInv, ChoiceInv, Restart, Inv, TypeOK
  <2>. QED
    BY <2>1, PromiseStep
<1>3. PromiseInv => AllConnect
  BY DEF PromiseInv
<1>. QED
  BY <1>1, <1>2, <1>3, PromiseInvariance, PTL DEF Spec, ImplementsBestChain, Promise!Spec

\* A chain has more work than the chains of its blocks.
LEMMA WorkGrows == \A b \in Blocks : \A c \in Ancestry[b] : Work[c] <= Work[b]
<1>. DEFINE S == {b \in Blocks : \A c \in Ancestry[b] : Work[c] <= Work[b]}
<1>1. Genesis \in S
  BY TreeAssumption, WorkFacts
<1>2. ASSUME NEW b \in Blocks \ {Genesis}, Parent[b] \in S
      PROVE  b \in S
  <2>1. Work[b] = Work[Parent[b]] + Trust[b] /\ Trust[b] \in Nat /\ Parent[b] \in Blocks
    BY WorkFacts, TreeFacts
  <2>2. \A c \in Ancestry[Parent[b]] : c \in Blocks /\ Work[c] \in Nat /\ Work[c] <= Work[Parent[b]]
    BY <1>2, <2>1, WorkFacts, TreeFacts
  <2>3. Work[Parent[b]] \in Nat /\ Work[b] \in Nat
    BY <2>1, WorkFacts
  <2>4. \A c \in Ancestry[Parent[b]] : Work[c] <= Work[b]
    BY <2>1, <2>2, <2>3
  <2>. QED
    BY <2>3, <2>4, TreeFacts
<1>. HIDE DEF S
<1>3. Blocks \subseteq S
  BY <1>1, <1>2, ChainInduction
<1>. QED
  BY <1>3 DEF S

\* The promise of BestChain, and that its two variables have their types.
HeaviestInv ==
  /\ Settled \subseteq Blocks
  /\ Tip \in Settled
  /\ FullyValid(Tip)
  /\ \A b \in Settled : FullyValid(b) => Work[b] <= Work[Tip]

LEMMA HeaviestNext ==
  ASSUME MaxFaults = 0, PromiseInv, AllConnect', HeaviestInv, [Next]_vars
  PROVE  HeaviestInv'
<1>. USE TreeFacts, WorkFacts DEF HeaviestInv
<1>1. CASE Restart
  <2>1. /\ index' = db /\ bestChain' = Highest(db) /\ Return /\ db' = db
    BY <1>1 DEF Restart
  <2>2. bestChain \in Blocks /\ db = Ancestry[bestChain]
    BY DEF PromiseInv, Inv, TypeOK, ChainInv, MainChainLinked
  <2>3. Highest(db) \in db /\ Height[bestChain] <= Height[Highest(db)]
    BY <2>2, HasHighest
  <2>4. Highest(db) = bestChain
    BY <2>2, <2>3, ChainsAreChains DEF ChainFacts
  <2>5. Settled' = db /\ Tip' = bestChain
    BY <2>1, <2>4 DEF Settled, Tip, Return
  <2>6. FullyValid(bestChain)
    BY <2>1, <2>2 DEF FullyValid, AllConnect
  <2>7. \A b \in db : Work[b] <= Work[bestChain]
    BY <2>2, WorkGrows
  <2>. QED
    BY <2>2, <2>5, <2>6, <2>7 DEF FullyValid
<1>2. CASE ~Restart
  <2>1. [Promise!Next]_(Promise!vars)
    BY <1>2, PromiseStep
  <2>2. CASE UNCHANGED Promise!vars
    BY <2>2, PromiseDefs DEF FullyValid
  <2>3. CASE Promise!Next
    <3>1. PICK b \in Blocks \ {Genesis} : Promise!Accept(b)
      BY <2>3 DEF Promise!Next
    <3>2. /\ Settled' = Settled \cup {b}
          /\ Tip' = IF FullyValid(b) /\ Work[b] > Work[Tip] THEN b ELSE Tip
      BY <3>1, PromiseDefs
    <3>3. \A c \in Settled' : c \in Blocks /\ Work[c] \in Nat
      BY <3>2
    <3>4. CASE FullyValid(b) /\ Work[b] > Work[Tip]
      <4>1. Tip' = b
        BY <3>2, <3>4
      <4>2. ASSUME NEW c \in Settled', FullyValid(c)
            PROVE  Work[c] <= Work[b]
        <5>1. CASE c = b
          BY <3>3, <5>1
        <5>2. CASE c \in Settled
          BY <3>3, <3>4, <4>2, <5>2
        <5>. QED
          BY <3>2, <5>1, <5>2
      <4>. QED
        BY <3>2, <3>3, <3>4, <4>1, <4>2 DEF FullyValid
    <3>5. CASE ~ (FullyValid(b) /\ Work[b] > Work[Tip])
      <4>1. Tip' = Tip
        BY <3>2, <3>5
      <4>2. ASSUME NEW c \in Settled', FullyValid(c)
            PROVE  Work[c] <= Work[Tip]
        <5>1. CASE c = b
          BY <3>3, <3>5, <4>2, <5>1
        <5>2. CASE c \in Settled
          BY <4>2, <5>2
        <5>. QED
          BY <3>2, <5>1, <5>2
      <4>. QED
        BY <3>2, <3>3, <4>1, <4>2 DEF FullyValid
    <3>. QED
      BY <3>4, <3>5
  <2>. QED
    BY <2>1, <2>2, <2>3
<1>. QED
  BY <1>1, <1>2

(***************************************************************************)
(* The main chain ends at the heaviest fully valid block the node has      *)
(* settled on, killed and restarted as often as may be; only a database    *)
(* call that fails can take that away.                                     *)
(***************************************************************************)
THEOREM HeaviestStaysBest ==
  ASSUME MaxFaults = 0, FastAddsTrusted
  PROVE  Spec => []HeaviestIsBest
<1>1. Init => HeaviestInv
  <2>. SUFFICES ASSUME Init PROVE HeaviestInv
    OBVIOUS
  <2>1. Settled = {Genesis} /\ Tip = Genesis
    BY DEF Init, Settled, Tip
  <2>2. FullyValid(Genesis)
    BY TreeAssumption, ValidityAssumption DEF FullyValid
  <2>. QED
    BY <2>1, <2>2, TreeFacts, WorkFacts DEF HeaviestInv
<1>2. PromiseInv /\ AllConnect' /\ HeaviestInv /\ [Next]_vars => HeaviestInv'
  BY HeaviestNext
<1>3. PromiseInv => AllConnect
  BY DEF PromiseInv
<1>4. HeaviestInv => HeaviestIsBest
  BY DEF HeaviestInv, HeaviestIsBest, Promise!HeaviestIsTip, Promise!FullyValid,
    FullyValid, Tip
<1>. QED
  BY <1>1, <1>2, <1>3, <1>4, PromiseInvariance, PTL DEF Spec

-----------------------------------------------------------------------------
(***************************************************************************)
(* What a step does to the settled blocks.  Most leave them and the orphan *)
(* pool alone, and a call that is not a dry run adds its block at the end. *)
(***************************************************************************)
Stays == Settled' = Settled /\ UNCHANGED poolVars
Learns ==
  /\ pc \in {"compare", "connect"} /\ ~dryRun
  /\ Settled' = Settled \cup {block}
  /\ UNCHANGED poolVars
KeepsOrphan ==
  \E b \in Blocks \ {Genesis} :
    /\ \E f \in CallsOf[b] : "dryRun" \notin f
    /\ Pool!ProcessOrphan(b)
TakesOrphan == \E o \in Blocks : ProcessNextOrphan(o) /\ Settled' = Settled

\* A step that connects a block takes the next one of the side chain, and the
\* block of the call last.
LEMMA ConnectsNext ==
  ASSUME Inv, ConnectBlock
  PROVE  /\ pc = "connect" /\ ~dryRun
         /\ \/ /\ index' = index /\ block \in attachNodes'
               /\ attachNodes' \subseteq attachNodes /\ attachNodes' # attachNodes
               /\ UNCHANGED <<pc, block, flags, oldTip, processHashes>>
            \/ /\ index' = index \cup {block} /\ bestChain' = block
               /\ workSum' = WithWorkSum(block)
               /\ \/ pc' = "panic" /\ oldTip # NoBlock /\ UNCHANGED <<block, oldTip, processHashes>>
                  \/ Accepted
<1>. USE TreeFacts DEF Inv
<1>. DEFINE n == Lowest(attachNodes)
<1>1. /\ pc = "connect" /\ detachNodes = {} /\ ~dryRun
      /\ block \in Blocks \ {Genesis}
      /\ attachNodes \subseteq blockCache \cup {block}
  BY DEF ConnectBlock, CallInvariant
<1>2. PICK f \in Ancestry[bestChain] \cap Ancestry[block] :
        /\ f # block
        /\ {} = ChainAbove(bestChain, f)
        /\ attachNodes = ChainAbove(block, f)
  BY <1>1 DEF CallInvariant
<1>3. f = bestChain /\ bestChain \in Blocks
  BY <1>2, EndOfChain DEF TypeOK
<1>4. /\ n \in attachNodes
      /\ Parent[n] = bestChain
      /\ ChainAbove(block, n) = attachNodes \ {n}
      /\ block \in attachNodes
  BY <1>1, <1>2, <1>3, NextInChain, EndOfChain
<1>. HIDE DEF n
<1>5. /\ index' = index \cup {n} /\ bestChain' = n /\ workSum' = WithWorkSum(n)
      /\ IF attachNodes # {n}
         THEN /\ attachNodes' = attachNodes \ {n}
              /\ UNCHANGED <<pc, block, flags, detachNodes, oldTip, processHashes>>
         ELSE IF oldTip \in db
         THEN pc' = "panic" /\ UNCHANGED <<block, flags, detachNodes,
                             attachNodes, oldTip, processHashes>>
         ELSE Accepted
  BY <1>4 DEF ConnectBlock, n, FinishReorganize
<1>6. CASE attachNodes # {n}
  <2>1. n # block
    <3>1. ChainAbove(block, block) = {}
      BY <1>1, ChainsAreChains DEF ChainAbove, ChainFacts
    <3>. QED
      BY <1>4, <1>6, <3>1
  <2>2. n \in index
    BY <1>1, <1>4, <2>1 DEF ChainInv, EveryNodeHasItsBlock
  <2>. QED
    BY <1>1, <1>4, <1>5, <1>6, <2>1, <2>2
<1>7. CASE attachNodes = {n}
  <2>1. n = block
    BY <1>4, <1>7
  <2>2. NoBlock \notin db
    BY ChainAssumption DEF TypeOK
  <2>. QED
    BY <1>1, <1>5, <1>7, <2>1, <2>2
<1>. QED
  BY <1>6, <1>7

LEMMA SettledStep ==
  ASSUME Inv, [Next]_vars
  PROVE  Stays \/ Learns \/ KeepsOrphan \/ TakesOrphan \/ Tick \/ Restart
<1>. USE TreeFacts DEF Inv
<1>1. ASSUME NEW b \in Blocks \ {Genesis}, NEW f \in CallsOf[b], ProcessBlock(b, f)
      PROVE  Stays \/ KeepsOrphan
  <2>1. CASE "dryRun" \notin f /\ Pool!ProcessOrphan(b)
    BY <2>1 DEF KeepsOrphan
  <2>2. CASE pc' = "accept" /\ UNCHANGED <<nodeVars, poolVars>>
    BY <1>1, <2>2 DEF ProcessBlock, Stays, Settled, nodeVars
  <2>. QED
    BY <1>1, <2>1, <2>2 DEF ProcessBlock
<1>2. CASE RejectBlock
  BY <1>2 DEF RejectBlock, Return, Stays, Settled, nodeVars
<1>3. CASE ExtendMainChain
  <2>1. block \notin index /\ pc = "accept" /\ UNCHANGED <<index, poolVars>>
    BY <1>3 DEF ExtendMainChain, CallInvariant, nodeVars
  <2>2. pc' = "idle" \/ block' = block
    BY <1>3 DEF ExtendMainChain, Return
  <2>. QED
    BY <2>1, <2>2 DEF Stays, Settled
<1>4. CASE AddSideBlock
  BY <1>4 DEF AddSideBlock, CallInvariant, Stays, Settled
<1>5. CASE KeepMainChain \/ RefuseReorganize
  <2>1. /\ pc = "compare" /\ ~dryRun /\ UNCHANGED <<index, poolVars>>
        /\ pc' \in {"idle", "orphans"}
    BY <1>5 DEF KeepMainChain, RefuseReorganize, Accepted, Return, nodeVars
  <2>2. block \in index
    BY <2>1 DEF CallInvariant, ChainInv, EveryNodeHasItsBlock
  <2>. QED
    BY <2>1, <2>2 DEF Learns, Settled
<1>6. CASE StartReorganize
  BY <1>6 DEF StartReorganize, Stays, Settled, nodeVars
<1>7. CASE UndoDryRun
  BY <1>7 DEF UndoDryRun, Return, Stays, Settled
<1>8. CASE DisconnectBlock
  <2>1. pc = "connect" /\ Highest(detachNodes) = bestChain
    BY <1>8, InSync DEF DisconnectBlock, ReorganizeInSync
  <2>. QED
    BY <1>8, <2>1 DEF DisconnectBlock, Stays, Settled
<1>9. CASE ConnectBlock
  <2>1. UNCHANGED poolVars
    BY <1>9 DEF ConnectBlock
  <2>. QED
    BY <1>9, <2>1, ConnectsNext DEF Accepted, Stays, Learns, Settled
<1>10. ASSUME NEW o \in Blocks, ProcessNextOrphan(o)
       PROVE  TakesOrphan
  BY <1>10 DEF ProcessNextOrphan, TakesOrphan, Settled, nodeVars
<1>11. CASE NextProcessHash
  BY <1>11 DEF NextProcessHash, Return, Stays, Settled, nodeVars
<1>12. CASE FailDatabaseCall
  <2>1. /\ UNCHANGED <<index, poolVars>> /\ pc' = "idle"
        /\ pc \in {"accept", "connect"} \/ (pc = "compare" /\ ~dryRun)
    BY <1>12 DEF FailDatabaseCall, Return, nodeVars
  <2>2. pc = "connect" => ~dryRun
    BY DEF CallInvariant
  <2>. QED
    BY <2>1, <2>2 DEF Stays, Learns, Settled
<1>13. CASE UNCHANGED vars
  BY <1>13 DEF vars, nodeVars, callVars, Stays, Settled
<1>. QED
  BY <1>1, <1>2, <1>3, <1>4, <1>5, <1>6, <1>7, <1>8, <1>9, <1>10, <1>11, <1>12, <1>13
    DEF Next, Step

(***************************************************************************)
(* The chain uses the orphan pool only as OrphanPool allows, whatever      *)
(* fails or crashes: a block is kept as an orphan only while its parent is *)
(* unknown, one that leaves the pool waited for a known block, and a block *)
(* the chain settles on is new to both and has a known parent.             *)
(***************************************************************************)
THEOREM ImplementsPool == Spec => ImplementsOrphanPool
<1>1. Init => Pool!Init
  BY DEF Init, Pool!Init, Settled
<1>2. ASSUME Inv, [Next]_vars
      PROVE  [Pool!Next]_(Pool!vars)
  <2>. USE TreeFacts
  <2>1. CASE Stays
    BY <2>1 DEF Stays, poolVars, Pool!vars
  <2>2. CASE Learns
    <3>1. /\ block \in Blocks \ {Genesis} /\ block \notin Pool!Pool
          /\ Parent[block] \in index
      BY <1>2, <2>2 DEF Learns, Inv, CallInvariant
    <3>2. block \notin Settled /\ Parent[block] \in Settled
      BY <2>2, <3>1 DEF Learns, Settled
    <3>3. Pool!Learn(block)
      BY <2>2, <3>1, <3>2 DEF Learns, poolVars, Pool!Learn, Pool!poolVars
    <3>. QED
      BY <3>1, <3>3 DEF Pool!Next
  <2>3. CASE KeepsOrphan
    BY <2>3 DEF KeepsOrphan, Pool!Next
  <2>4. CASE TakesOrphan
    <3>1. PICK o \in Blocks : Pool!TakeOrphan(Head(processHashes), o) /\ pc = "orphans"
      BY <2>4 DEF TakesOrphan, ProcessNextOrphan
    <3>2. processHashes \in Seq(Blocks) /\ processHashes # <<>>
      BY <1>2, <3>1 DEF Inv, TypeOK, CallInvariant
    <3>3. Head(processHashes) \in Blocks
      BY <3>2
    <3>. QED
      BY <3>1, <3>3 DEF Pool!Next
  <2>5. CASE Tick
    BY <2>5 DEF Tick, Pool!Next
  <2>6. CASE Restart
    BY <2>6 DEF Restart, Pool!Next
  <2>. QED
    BY <1>2, <2>1, <2>2, <2>3, <2>4, <2>5, <2>6, SettledStep
<1>. QED
  BY <1>1, <1>2, Invariance, PTL DEF Spec, ImplementsOrphanPool, Pool!Spec

-----------------------------------------------------------------------------
(***************************************************************************)
(* The invariant behind DryRunLeavesNoTrace: every block the node keeps,   *)
(* as an orphan or settled, and the block of a call that is no dry run,    *)
(* was delivered by a call without BFDryRun.                               *)
(***************************************************************************)
Wanted(b) == \E f \in CallsOf[b] : "dryRun" \notin f
WantedInv ==
  /\ \A b \in (Settled \cup Pool!Pool) \ {Genesis} : Wanted(b)
  /\ pc \in {"accept", "compare", "connect"} /\ ~dryRun => Wanted(block)

\* A step of a call keeps the call's block and flags, unless it begins the call,
\* takes the next orphan, or is done with the block.
LEMMA CallStep ==
  ASSUME Inv, [Next]_vars
  PROVE  \/ pc' \notin {"accept", "compare", "connect"}
         \/ pc \in {"accept", "compare", "connect"} /\ UNCHANGED <<block, flags>>
         \/ \E b \in Blocks \ {Genesis} : \E f \in CallsOf[b] :
              block' = b /\ flags' = f
         \/ \E o \in Blocks : ProcessNextOrphan(o)
<1>1. ASSUME Step, \A o \in Blocks : ~ProcessNextOrphan(o)
      PROVE  \/ pc' \notin {"accept", "compare", "connect"}
             \/ pc \in {"accept", "compare", "connect"} /\ UNCHANGED <<block, flags>>
  <2>1. CASE RejectBlock \/ ExtendMainChain \/ AddSideBlock
    BY <2>1 DEF RejectBlock, ExtendMainChain, AddSideBlock, Return
  <2>2. CASE KeepMainChain \/ RefuseReorganize \/ StartReorganize \/ UndoDryRun
    BY <2>2 DEF KeepMainChain, RefuseReorganize, StartReorganize, UndoDryRun, Return, Accepted
  <2>3. CASE DisconnectBlock
    BY <2>3 DEF DisconnectBlock, Return
  <2>4. CASE ConnectBlock
    BY <2>4, ConnectsNext DEF Accepted
  <2>5. CASE NextProcessHash
    BY <2>5 DEF NextProcessHash, Return
  <2>. QED
    BY <1>1, <2>1, <2>2, <2>3, <2>4, <2>5 DEF Step
<1>2. CASE \E b \in Blocks \ {Genesis} : \E f \in CallsOf[b] : ProcessBlock(b, f)
  BY <1>2 DEF ProcessBlock, callVars
<1>3. CASE FailDatabaseCall \/ Restart
  BY <1>3 DEF FailDatabaseCall, Restart, Return
<1>4. CASE Tick \/ UNCHANGED vars
  BY <1>4 DEF Tick, vars, callVars
<1>. QED
  BY <1>1, <1>2, <1>3, <1>4 DEF Next

LEMMA WantedNext ==
  ASSUME Inv, WantedInv, [Next]_vars
  PROVE  WantedInv'
<1>. USE TreeFacts DEF WantedInv, Inv
<1>1. ASSUME NEW o \in Blocks, ProcessNextOrphan(o)
      PROVE  o \in Pool!Pool /\ block' = o /\ Pool!Pool' \subseteq Pool!Pool
             /\ ~dryRun
  <2>1. /\ pc = "orphans" /\ block' = o /\ Pool!TakeOrphan(Head(processHashes), o)
    BY <1>1 DEF ProcessNextOrphan
  <2>2. o \in Pool!Pool /\ ~dryRun
    BY <2>1, TakenWaits DEF CallInvariant
  <2>. QED
    BY <2>1, <2>2 DEF Pool!TakeOrphan, Pool!RemoveOrphanBlock, Pool!Pool
<1>2. \A b \in (Settled' \cup Pool!Pool') \ {Genesis} : Wanted(b)
  <2>1. CASE Stays
    BY <2>1 DEF Stays, poolVars, Pool!Pool
  <2>2. CASE Learns
    BY <2>2 DEF Learns, poolVars, Pool!Pool, CallInvariant
  <2>3. CASE KeepsOrphan
    <3>1. PICK b \in Blocks \ {Genesis} : Wanted(b) /\ Pool!ProcessOrphan(b)
      BY <2>3 DEF KeepsOrphan, Wanted
    <3>2. Settled' = Settled /\ Pool!Pool' \subseteq Pool!Pool \cup {b}
      BY <3>1 DEF Pool!ProcessOrphan, Pool!AddOrphanBlock, Pool!Unexpired, Pool!Pool
    <3>. QED
      BY <3>1, <3>2
  <2>4. CASE TakesOrphan
    BY <1>1, <2>4 DEF TakesOrphan
  <2>5. CASE Tick
    BY <2>5 DEF Tick, Pool!Tick, Pool!poolVars, nodeVars, callVars, Settled, Pool!Pool
  <2>6. CASE Restart
    <3>1. Settled' = db /\ Pool!Pool' = {}
      BY <2>6 DEF Restart, Return, Settled, Pool!Restart, Pool!Pool
    <3>2. db \subseteq Settled
      BY DEF Settled, CallInvariant, ChainInv, EveryNodeHasItsBlock
    <3>. QED
      BY <3>1, <3>2
  <2>. QED
    BY <2>1, <2>2, <2>3, <2>4, <2>5, <2>6, SettledStep
<1>3. pc' \in {"accept", "compare", "connect"} /\ ~dryRun' => Wanted(block')
  <2>1. CASE pc \in {"accept", "compare", "connect"} /\ UNCHANGED <<block, flags>>
    BY <2>1 DEF dryRun
  <2>2. CASE \E b \in Blocks \ {Genesis} : \E f \in CallsOf[b] : block' = b /\ flags' = f
    BY <2>2 DEF dryRun, Wanted
  <2>3. CASE \E o \in Blocks : ProcessNextOrphan(o)
    BY <1>1, <2>3 DEF TypeOK
  <2>. QED
    BY <2>1, <2>2, <2>3, CallStep
<1>. QED
  BY <1>2, <1>3 DEF Wanted

(***************************************************************************)
(* connectBestChain cleans up behind a dry run, also behind one that       *)
(* failed, and no dry run keeps an orphan: between calls, the node knows   *)
(* only blocks that were delivered to stay.                                *)
(***************************************************************************)
THEOREM DryRunsLeaveNoTrace == Spec => []DryRunLeavesNoTrace
<1>1. Init => WantedInv
  BY DEF Init, WantedInv, Settled, Pool!Init, Pool!Pool
<1>2. Inv /\ WantedInv /\ [Next]_vars => WantedInv'
  BY WantedNext
<1>3. WantedInv => DryRunLeavesNoTrace
  BY DEF WantedInv, DryRunLeavesNoTrace, Settled, Wanted
<1>. QED
  BY <1>1, <1>2, <1>3, Invariance, PTL DEF Spec

-----------------------------------------------------------------------------
(***************************************************************************)
(* The invariant behind WorkNeverDrops, with failing calls and crashes: a  *)
(* reorganization leads to a block with more work than the old tip, and    *)
(* reorganizeChain has arrived there when it panics; a block that extends  *)
(* the main chain is the only one its call connects.                       *)
(***************************************************************************)
ReorganizeInv ==
  /\ pc \notin {"connect", "panic"} => oldTip = NoBlock
  /\ oldTip # NoBlock => oldTip \in index
  /\ pc = "connect" /\ oldTip # NoBlock => Work[block] > Work[oldTip]
  /\ pc = "connect" /\ oldTip = NoBlock =>
       detachNodes = {} /\ attachNodes = {block} /\ Parent[block] = bestChain
  /\ pc = "panic" => oldTip # NoBlock /\ Work[bestChain] >= Work[oldTip]

LEMMA ReorganizeNext ==
  ASSUME Inv, ReorganizeInv, [Next]_vars
  PROVE  ReorganizeInv'
<1>. USE TreeFacts DEF ReorganizeInv, Inv
<1>1. CASE \/ \E b \in Blocks \ {Genesis} : \E f \in CallsOf[b] : ProcessBlock(b, f)
           \/ RejectBlock \/ AddSideBlock \/ KeepMainChain \/ RefuseReorganize
           \/ UndoDryRun \/ (\E o \in Blocks : ProcessNextOrphan(o)) \/ NextProcessHash
           \/ FailDatabaseCall \/ Restart \/ Tick
  <2>1. \/ oldTip' = NoBlock /\ pc' \notin {"connect", "panic"}
        \/ UNCHANGED <<pc, block, detachNodes, attachNodes, oldTip, bestChain, index>>
    BY <1>1 DEF ProcessBlock, RejectBlock, AddSideBlock, KeepMainChain, RefuseReorganize,
      UndoDryRun, ProcessNextOrphan, NextProcessHash, FailDatabaseCall, Restart, Tick,
      Return, Accepted, callVars, nodeVars
  <2>. QED
    BY <2>1
<1>2. CASE ExtendMainChain
  <2>1. /\ pc = "accept" /\ oldTip = NoBlock /\ detachNodes = {}
        /\ Parent[block] = bestChain /\ bestChain' = bestChain
    BY <1>2 DEF ExtendMainChain, ExtendsBestChain, CallInvariant, nodeVars
  <2>. QED
    BY <1>2, <2>1 DEF ExtendMainChain, Return
<1>3. CASE StartReorganize
  <2>1. /\ oldTip' = bestChain /\ pc' = "connect" /\ block' = block /\ index' = index
        /\ pc = "compare" /\ workSum[block] > workSum[bestChain]
    BY <1>3 DEF StartReorganize, HasMoreWork, nodeVars
  <2>2. bestChain \in index /\ block \in index /\ bestChain # NoBlock
    BY <2>1, ChainAssumption DEF TypeOK, ChainInv, MainChainLinked, EveryNodeHasItsBlock,
      CallInvariant
  <2>. QED
    BY <2>1, <2>2 DEF ChainInv, WorkSumsExact
<1>4. CASE DisconnectBlock
  <2>1. /\ pc = "connect" /\ Highest(detachNodes) = bestChain /\ detachNodes # {}
    BY <1>4, InSync DEF DisconnectBlock, ReorganizeInSync
  <2>. QED
    BY <1>4, <2>1 DEF DisconnectBlock
<1>5. CASE ConnectBlock
  <2>1. CASE /\ index' = index /\ block \in attachNodes' /\ pc' = pc
             /\ attachNodes' \subseteq attachNodes /\ attachNodes' # attachNodes
             /\ UNCHANGED <<block, oldTip>>
    <3>1. pc = "connect"
      BY <1>5, ConnectsNext
    <3>2. oldTip # NoBlock
      <4>1. SUFFICES ASSUME attachNodes = {block} PROVE FALSE
        BY <3>1
      <4>2. attachNodes' = {block}
        BY <2>1, <4>1
      <4>. QED
        BY <2>1, <4>1, <4>2
    <3>. QED
      BY <2>1, <3>1, <3>2
  <2>2. CASE /\ index' = index \cup {block} /\ bestChain' = block
             /\ pc' = "panic" /\ oldTip # NoBlock /\ oldTip' = oldTip
    <3>1. pc = "connect" /\ block \in Blocks /\ oldTip \in Blocks
      BY <1>5, <2>2, ConnectsNext DEF CallInvariant, TypeOK
    <3>. QED
      BY <2>2, <3>1, WorkFacts
  <2>3. CASE Accepted
    BY <2>3 DEF Accepted
  <2>. QED
    BY <1>5, <2>1, <2>2, <2>3, ConnectsNext
<1>6. CASE UNCHANGED vars
  BY <1>6 DEF vars, callVars, nodeVars
<1>. QED
  BY <1>1, <1>2, <1>3, <1>4, <1>5, <1>6 DEF Next, Step

\* A step that ends the work on a block without an error or a kill leaves no less
\* work than the chain had before the block.
LEMMA TipStep ==
  ASSUME Inv, ReorganizeInv, [Next]_vars, pc' \in {"idle", "orphans"},
         UNCHANGED boundVars
  PROVE  Work[bestChain'] >= Work[Tip]
<1>. USE TreeFacts DEF Inv, ReorganizeInv
<1>1. faults \in Nat /\ crashes \in Nat /\ bestChain \in Blocks /\ Work[bestChain] \in Nat
  BY ChainAssumption, WorkFacts DEF TypeOK
<1>2. ~ DisconnectBlock
  <2>1. SUFFICES ASSUME DisconnectBlock PROVE FALSE
    OBVIOUS
  <2>2. pc = "connect" /\ Highest(detachNodes) = bestChain
    BY <2>1, InSync DEF DisconnectBlock, ReorganizeInSync
  <2>. QED
    BY <2>1, <2>2 DEF DisconnectBlock
<1>3. CASE ConnectBlock
  <2>1. bestChain' = block /\ pc = "connect" /\ block \in Blocks \ {Genesis}
    BY <1>3, ConnectsNext DEF CallInvariant
  <2>2. CASE oldTip = NoBlock
    BY <2>1, <2>2, WorkFacts DEF Tip
  <2>3. CASE oldTip # NoBlock
    <3>1. oldTip \in Blocks
      BY <2>3 DEF TypeOK
    <3>. QED
      BY <2>1, <2>3, <3>1, WorkFacts DEF Tip
  <2>. QED
    BY <2>2, <2>3
<1>4. CASE Restart
  <2>1. pc = "panic" \/ crashes' = crashes + 1
    BY <1>4 DEF Restart
  <2>2. pc = "panic"
    BY <1>1, <2>1 DEF boundVars
  <2>3. bestChain' = bestChain
    <3>1. bestChain' = Highest(db) /\ db = Ancestry[bestChain]
      BY <1>4 DEF Restart, ChainInv, MainChainLinked
    <3>2. Highest(db) \in db /\ Height[bestChain] <= Height[Highest(db)]
      BY <1>1, <3>1, HasHighest
    <3>. QED
      BY <1>1, <3>1, <3>2, ChainsAreChains DEF ChainFacts
  <2>. QED
    BY <2>2, <2>3 DEF Tip
<1>5. CASE ~ConnectBlock /\ ~Restart
  <2>1. ~ FailDatabaseCall
    BY <1>1 DEF FailDatabaseCall, boundVars
  <2>2. bestChain' = bestChain /\ pc \notin {"connect", "panic"}
    BY <1>2, <1>5, <2>1 DEF Next, Step, ProcessBlock, RejectBlock, ExtendMainChain, AddSideBlock,
      KeepMainChain, RefuseReorganize, StartReorganize, UndoDryRun, ProcessNextOrphan,
      NextProcessHash, Tick, vars, nodeVars, callVars
  <2>. QED
    BY <1>1, <2>2 DEF Tip
<1>. QED
  BY <1>3, <1>4, <1>5

(***************************************************************************)
(* A call that is done with a block without an error has not lowered the   *)
(* work of the main chain, compared with the tip it started from, not even *)
(* after failed database calls have left unconnected blocks above the tip. *)
(***************************************************************************)
THEOREM CallsKeepWork == Spec => WorkNeverDrops
<1>1. Init => ReorganizeInv
  BY DEF Init, ReorganizeInv
<1>2. Inv /\ ReorganizeInv /\ [Next]_vars => ReorganizeInv'
  BY ReorganizeNext
<1>3. ASSUME Inv, Inv', ReorganizeInv, [Next]_vars
      PROVE  [faults' = faults /\ crashes' = crashes /\ pc' \in {"idle", "orphans"}
               => workSum'[bestChain'] >=
                    workSum[IF oldTip = NoBlock THEN bestChain ELSE oldTip]]_vars
  <2>1. SUFFICES ASSUME UNCHANGED boundVars, pc' \in {"idle", "orphans"}
                 PROVE  workSum'[bestChain'] >= workSum[Tip]
    BY DEF boundVars, Tip
  <2>2. Tip \in index /\ workSum[Tip] = Work[Tip]
    BY <1>3, TreeFacts DEF Inv, ChainInv, MainChainLinked, EveryNodeHasItsBlock, WorkSumsExact,
      ReorganizeInv, Tip, TypeOK
  <2>3. bestChain' \in index' /\ workSum'[bestChain'] = Work[bestChain']
    BY <1>3, TreeFacts DEF Inv, ChainInv, MainChainLinked, EveryNodeHasItsBlock, WorkSumsExact, TypeOK
  <2>. QED
    BY <1>3, <2>1, <2>2, <2>3, TipStep
<1>. QED
  BY <1>1, <1>2, <1>3, Invariance, PTL DEF Spec, WorkNeverDrops

-----------------------------------------------------------------------------
\* Append keeps the blocks of a sequence and adds one, Tail loses only the first.
LEMMA WorkList ==
  ASSUME NEW s \in Seq(Blocks), NEW b \in Blocks
  PROVE  /\ \A i \in DOMAIN s : i \in DOMAIN Append(s, b) /\ Append(s, b)[i] = s[i]
         /\ \E i \in DOMAIN Append(s, b) : Append(s, b)[i] = b
         /\ s # <<>> => \A i \in DOMAIN s :
              s[i] = Head(s) \/ \E j \in DOMAIN Tail(s) : Tail(s)[j] = s[i]
<1>1. /\ Len(s) \in Nat /\ DOMAIN s = 1 .. Len(s)
      /\ Append(s, b) \in Seq(Blocks) /\ Len(Append(s, b)) = Len(s) + 1
      /\ DOMAIN Append(s, b) = 1 .. Len(s) + 1
  OBVIOUS
<1>2. \A i \in DOMAIN s : i \in DOMAIN Append(s, b) /\ Append(s, b)[i] = s[i]
  BY <1>1
<1>3. Len(s) + 1 \in DOMAIN Append(s, b) /\ Append(s, b)[Len(s) + 1] = b
  BY <1>1
<1>4. ASSUME s # <<>>, NEW i \in DOMAIN s, i # 1
      PROVE  i - 1 \in DOMAIN Tail(s) /\ Tail(s)[i - 1] = s[i]
  <2>1. DOMAIN Tail(s) = 1 .. Len(s) - 1
    BY <1>1, <1>4
  <2>. QED
    BY <1>1, <1>4, <2>1
<1>5. ASSUME s # <<>>, NEW i \in DOMAIN s
      PROVE  s[i] = Head(s) \/ \E j \in DOMAIN Tail(s) : Tail(s)[j] = s[i]
  <2>1. CASE i = 1
    BY <1>5, <2>1, SequenceFacts
  <2>2. CASE i # 1
    BY <1>4, <1>5, <2>2
  <2>. QED
    BY <2>1, <2>2
<1>. QED
  BY <1>2, <1>3, <1>5

(***************************************************************************)
(* The invariant behind OrphansWaitForParent: the only indexed blocks that *)
(* have orphans are the block of the call and those of the work list.      *)
(***************************************************************************)
Pending(b) ==
  \/ pc \in {"accept", "compare", "connect"} /\ b = block
  \/ \E i \in DOMAIN processHashes : processHashes[i] = b
WaitInv == \A o \in Pool!Pool : Parent[o] \in index => Pending(Parent[o])

\* When a block is accepted, its orphans are still looked for.
LEMMA AcceptedWait ==
  ASSUME Inv, WaitInv, Accepted, pc \in {"compare", "connect"}, UNCHANGED poolVars,
         index' \subseteq index \cup {block}
  PROVE  WaitInv'
<1>1. processHashes' = Append(processHashes, block) /\ Pool!Pool' = Pool!Pool
  BY DEF Accepted, poolVars, Pool!Pool
<1>2. processHashes \in Seq(Blocks) /\ block \in Blocks
  BY DEF Inv, TypeOK, CallInvariant
<1>3. ASSUME NEW b, b = block \/ \E i \in DOMAIN processHashes : processHashes[i] = b
      PROVE  \E i \in DOMAIN processHashes' : processHashes'[i] = b
  BY <1>1, <1>2, <1>3, WorkList
<1>4. ASSUME NEW o \in Pool!Pool', Parent[o] \in index'
      PROVE  Pending(Parent[o])'
  BY <1>1, <1>3, <1>4 DEF WaitInv, Pending
<1>. QED
  BY <1>4 DEF WaitInv

\* When a call returns for good, it leaves no indexed block behind.
LEMMA ReturnWait ==
  ASSUME WaitInv, Return, UNCHANGED poolVars, index' \subseteq index,
         \A b \in index' : ~Pending(b)
  PROVE  WaitInv'
  BY DEF WaitInv, poolVars, Pool!Pool

\* A step within the call of a block leaves the orphans of that block to it.
LEMMA SameCallWait ==
  ASSUME WaitInv, pc' \in {"accept", "compare", "connect"}, UNCHANGED <<block, processHashes>>,
         UNCHANGED poolVars, index' \subseteq index \cup {block}
  PROVE  WaitInv'
  BY DEF WaitInv, Pending, poolVars, Pool!Pool

LEMMA WaitNext ==
  ASSUME MaxFaults = 0, Blocks \subseteq Acceptable \cap Connectable,
         PromiseInv, WaitInv, [Next]_vars
  PROVE  WaitInv'
<1>. USE TreeFacts DEF PromiseInv, Inv
<1>1. pc = "idle" \/ dryRun => processHashes = <<>>
  BY DEF CallInvariant
<1>2. ASSUME NEW b \in Blocks \ {Genesis}, NEW f \in CallsOf[b], ProcessBlock(b, f)
      PROVE  WaitInv'
  <2>1. pc = "idle" /\ index' = index /\ UNCHANGED processHashes
    BY <1>2 DEF ProcessBlock, nodeVars, callVars
  <2>2. \A o \in Pool!Pool : Parent[o] \notin index
    BY <1>1, <2>1 DEF WaitInv, Pending
  <2>3. CASE ~BlockExists(Parent[b]) /\ Pool!ProcessOrphan(b)
    <3>1. Pool!Pool' \subseteq Pool!Pool \cup {b}
      BY <2>3 DEF Pool!ProcessOrphan, Pool!AddOrphanBlock, Pool!Unexpired, Pool!Pool
    <3>. QED
      BY <2>1, <2>2, <2>3, <3>1 DEF WaitInv, BlockExists
  <2>4. CASE UNCHANGED poolVars
    BY <2>1, <2>2, <2>4 DEF WaitInv, poolVars, Pool!Pool
  <2>. QED
    BY <1>2, <2>3, <2>4 DEF ProcessBlock
<1>3. ~ RejectBlock
  BY ChainAssumption DEF RejectBlock, CallInvariant, IsAcceptable
<1>4. CASE ExtendMainChain
  <2>1. pc = "accept" /\ UNCHANGED <<index, poolVars>> /\ block \notin index
    BY <1>4 DEF ExtendMainChain, nodeVars, CallInvariant
  <2>2. CASE dryRun
    <3>1. Return /\ \A b \in index : ~Pending(b)
      BY <1>1, <1>4, <2>1, <2>2 DEF ExtendMainChain, Pending
    <3>. QED
      BY <2>1, <3>1, ReturnWait
  <2>3. CASE ~dryRun
    BY <1>4, <2>1, <2>3, SameCallWait DEF ExtendMainChain
  <2>. QED
    BY <2>2, <2>3
<1>5. CASE AddSideBlock
  BY <1>5, SameCallWait DEF AddSideBlock
<1>6. CASE KeepMainChain
  BY <1>6, AcceptedWait DEF KeepMainChain, nodeVars
<1>7. ~ RefuseReorganize
  <2>1. SUFFICES ASSUME RefuseReorganize PROVE FALSE
    OBVIOUS
  <2>2. pc = "compare" /\ block \in Blocks
    BY <2>1 DEF RefuseReorganize, CallInvariant
  <2>3. FullyValid(block)
    BY <2>2 DEF FullyValid
  <2>. QED
    BY <2>1, <2>2, <2>3, RefusalMeansInvalid DEF RefuseReorganize
<1>8. CASE StartReorganize
  BY <1>8, SameCallWait DEF StartReorganize, nodeVars
<1>9. CASE UndoDryRun
  <2>1. Return /\ index' = index \ {block} /\ dryRun /\ UNCHANGED poolVars
    BY <1>9 DEF UndoDryRun
  <2>2. \A b \in index' : ~Pending(b)
    BY <1>1, <2>1 DEF Pending
  <2>. QED
    BY <2>1, <2>2, ReturnWait
<1>10. CASE DisconnectBlock
  <2>1. pc = "connect" /\ Highest(detachNodes) = bestChain
    BY <1>10, InSync DEF DisconnectBlock, ReorganizeInSync
  <2>. QED
    BY <1>10, <2>1, SameCallWait DEF DisconnectBlock
<1>11. CASE ConnectBlock
  <2>1. UNCHANGED poolVars
    BY <1>11 DEF ConnectBlock
  <2>2. PICK n \in attachNodes :
          /\ pc = "connect" /\ n \in blockCache \cup {block}
          /\ index' = index \cup {n}
          /\ UNCHANGED <<pc, block, processHashes>> \/ Accepted
    BY <1>11, ConnectEffect
  <2>3. index' \subseteq index \cup {block}
    BY <2>2 DEF ChainInv, EveryNodeHasItsBlock
  <2>. QED
    BY <2>1, <2>2, <2>3, AcceptedWait, SameCallWait
<1>12. ASSUME NEW o \in Blocks, ProcessNextOrphan(o)
       PROVE  WaitInv'
  <2>1. /\ pc = "orphans" /\ UNCHANGED <<index, processHashes>>
        /\ Pool!TakeOrphan(Head(processHashes), o)
    BY <1>12 DEF ProcessNextOrphan, nodeVars
  <2>2. Pool!Pool' \subseteq Pool!Pool
    BY <2>1 DEF Pool!TakeOrphan, Pool!RemoveOrphanBlock, Pool!Pool
  <2>. QED
    BY <2>1, <2>2 DEF WaitInv, Pending
<1>13. CASE NextProcessHash
  <2>1. /\ pc = "orphans" /\ UNCHANGED <<index, poolVars>>
        /\ prevOrphans[Head(processHashes)] = <<>>
    BY <1>13 DEF NextProcessHash, nodeVars
  <2>2. processHashes \in Seq(Blocks) /\ processHashes # <<>> /\ Head(processHashes) \in Blocks
    BY <2>1, SequenceFacts DEF TypeOK, CallInvariant
  <2>3. \A o \in Pool!Pool : Parent[o] # Head(processHashes)
    <3>1. prevOrphans[Head(processHashes)] \in Seq(Blocks)
      BY <2>2 DEF TypeOK
    <3>2. Range(prevOrphans[Head(processHashes)]) = {}
      BY <2>1, <3>1, QueueFacts
    <3>. QED
      BY <2>2, <3>2, Coherent DEF CallInvariant
  <2>4. ASSUME NEW o \in Pool!Pool, Parent[o] \in index
        PROVE  \E j \in DOMAIN Tail(processHashes) : Tail(processHashes)[j] = Parent[o]
    <3>1. PICK i \in DOMAIN processHashes : processHashes[i] = Parent[o]
      BY <2>1, <2>4 DEF WaitInv, Pending
    <3>2. processHashes[i] # Head(processHashes)
      BY <2>3, <3>1
    <3>. QED
      BY <2>2, <3>1, <3>2, WorkList
  <2>5. CASE Tail(processHashes) = <<>>
    BY <2>1, <2>4, <2>5 DEF WaitInv, poolVars, Pool!Pool
  <2>6. CASE processHashes' = Tail(processHashes)
    BY <2>1, <2>4, <2>6 DEF WaitInv, Pending, poolVars, Pool!Pool
  <2>. QED
    BY <1>13, <2>5, <2>6 DEF NextProcessHash
<1>14. ~ FailDatabaseCall
  BY DEF FailDatabaseCall, TypeOK
<1>15. CASE Restart
  BY <1>15 DEF Restart, Pool!Restart, Pool!Pool, WaitInv
<1>16. CASE Tick \/ UNCHANGED vars
  BY <1>16 DEF Tick, Pool!Tick, Pool!poolVars, vars, poolVars, nodeVars, callVars, WaitInv,
    Pending, Pool!Pool
<1>. QED
  BY <1>2, <1>3, <1>4, <1>5, <1>6, <1>7, <1>8, <1>9, <1>10, <1>11, <1>12, <1>13, <1>14,
    <1>15, <1>16 DEF Next, Step

(***************************************************************************)
(* processOrphans releases the orphans of orphans down to the last: when   *)
(* no database call fails and every block passes its checks, no call ends  *)
(* with an orphan in the pool whose parent the node has, whatever forks,   *)
(* reorganizations and dry runs it went through.  A block that fails its   *)
(* checks is exactly what leaves orphans behind.                           *)
(***************************************************************************)
THEOREM OrphansAreReleased ==
  ASSUME MaxFaults = 0, Blocks \subseteq Acceptable \cap Connectable
  PROVE  Spec => []OrphansWaitForParent
<1>1. Init => WaitInv
  BY DEF Init, Pool!Init, Pool!Pool, WaitInv
<1>2. PromiseInv /\ WaitInv /\ [Next]_vars => WaitInv'
  BY WaitNext
<1>3. FastAddsTrusted
  BY TreeFacts DEF FastAddsTrusted, Trusted
<1>4. PromiseInv /\ WaitInv => OrphansWaitForParent
  BY DEF PromiseInv, Inv, CallInvariant, WaitInv, Pending, OrphansWaitForParent
<1>. QED
  BY <1>1, <1>2, <1>3, <1>4, PromiseInvariance, PTL DEF Spec
=============================================================================
