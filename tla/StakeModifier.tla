---------------------------- MODULE StakeModifier ----------------------------
(***************************************************************************)
(* kernel.go: the stake modifier each block carries in its meta data, from *)
(* which the kernel hash of later proof-of-stake blocks is made, so that   *)
(* nobody knows when his coin will be confirmed what it will be worth.     *)
(*                                                                         *)
(* Hashes are numbers given as constants.  Protocol 0.3 is in force: the   *)
(* time of a coinstake is that of its block.                               *)
(***************************************************************************)
EXTENDS BlockTree, Powers, Sequences, FiniteSetsExt, Functions

CONSTANTS
  BlockHash,          \* BlockHash[b]: the hash of b as a number
  EntropyBit,         \* EntropyBit[b]: getStakeEntropyBit
  Confirmed,          \* Confirmed[b]: the stakes whose transaction is in b
  StakeTime,          \* StakeTime[s]: the timestamp of that transaction
  StakeValue,         \* StakeValue[s]: its amount
  KernelHash(_, _, _),\* the hash of a block, the block its stake is from, and a modifier
  SelectionHash(_, _),\* the hash of a proof or block hash, and a modifier
  StakeShift,         \* 2^32, by which the hash of a proof-of-stake block is divided
  ModifierInterval,   \* netParams.ModifierInterval
  Sections,           \* the lengths of the sections of the selection interval
  ProtocolV04Time,    \* nProtocolV04SwitchTime
  StakeMinAge,        \* netParams.StakeMinAge
  StakeMaxAge,
  CoinDay             \* Coin * 24 * 60 * 60

ASSUME KernelAssumption ==
  /\ \A b \in Blocks : BlockHash[b] \in Nat \ {0}
  /\ \A b, c \in Blocks : BlockHash[b] = BlockHash[c] => b = c
  /\ EntropyBit \in [Blocks -> {0, 1}]
  /\ Confirmed \in [Blocks -> SUBSET Stakes]
  /\ StakeShift \in Nat \ {0} /\ ModifierInterval \in Nat \ {0} /\ CoinDay \in Nat \ {0}
  /\ Sections \in Seq(Nat)
  /\ StakeTime \in [Stakes -> Nat] /\ StakeValue \in [Stakes -> Nat]
  /\ StakeMinAge \in Nat /\ StakeMaxAge \in Nat /\ StakeMinAge <= StakeMaxAge

\* A bit of a modifier, counted from zero; a modifier has one for each section.
Bit(k) == PowersOf(2)[k]
Modifiers == 0 .. Bit(Len(Sections)) - 1

\* Hashes are numbers, and the hash of a kernel is never zero, the mark of a block
\* that has none.
ASSUME HashAssumption ==
  \A b, c \in Blocks, m, n \in Modifiers :
    /\ KernelHash(b, c, m) \in Nat \ {0}
    /\ SelectionHash(BlockHash[b], n) \in Nat
    /\ SelectionHash(KernelHash(b, c, m), n) \in Nat

VARIABLES
  time,  \* time[b]: Header.Timestamp, which the hash of b commits to
  meta   \* block.Meta() of the known blocks

IsProofOfStake(b) == StakeOf[b] # NoStake

\* Meta data: the modifier, whether it was generated at the block, and
\* HashProofOfStake, zero for proof of work.
NoMeta == [modifier |-> 0, generated |-> FALSE, proof |-> 0]
GenesisMeta == [modifier |-> 0, generated |-> TRUE, proof |-> 0]

SectionsUpTo(k) == MapThenSumSet(LAMBDA i : Sections[i], 1 .. k)
SelectionInterval == SectionsUpTo(Len(Sections))

\* getLastStakeModifier: the block at which the modifier after b was generated.
LastGenerated(b, m) == Highest({c \in Ancestry[b] : m[c].generated})

\* The candidates: the blocks up to b within the selection interval.  The walk ends
\* at the first block that is too old.
SelectionStart(b) == (time[b] \div ModifierInterval) * ModifierInterval - SelectionInterval
Candidates(b) ==
  {c \in Ancestry[b] :
     \A d \in Ancestry[b] : Height[d] >= Height[c] => time[d] >= SelectionStart(b)}

\* The order of blockTimeHashSorter, and its first element.
SortsBefore(c, d) ==
  time[c] < time[d] \/ (time[c] = time[d] /\ BlockHash[c] < BlockHash[d])
FirstOf(S) == CHOOSE c \in S : \A d \in S \ {c} : SortsBefore(c, d)

\* The hashes the candidates S compete with.
HashesOf(S, prevModifier, m) ==
  [c \in S |-> IF m[c].proof = 0 THEN SelectionHash(BlockHash[c], prevModifier)
               ELSE SelectionHash(m[c].proof, prevModifier) \div StakeShift]

\* selectBlockFromCandidates: the smallest hash up to stop, or the first candidate
\* when all are later.
SelectBlock(S, stop, hash) ==
  LET early == {c \in S : time[c] <= stop}
      best == {c \in early : \A d \in early : hash[c] <= hash[d]}
  IN  FirstOf(IF early = {} THEN S ELSE best)

\* The blocks selected, a round for each section.
Selected(b, hash) ==
  LET rounds == Min({Len(Sections), Cardinality(Candidates(b))})
      Stop(k) == SelectionStart(b) + SectionsUpTo(k)
      Sel[k \in 0 .. rounds] ==
        IF k = 0 THEN << >>
        ELSE Append(Sel[k - 1], SelectBlock(Candidates(b) \ Range(Sel[k - 1]),
                                            Stop(k), hash))
  IN  Sel[rounds]

\* Variant: rounds are counted from one.
ModifierShifted(blocks) ==
  SumFunction([k \in 1 .. Len(blocks) |-> EntropyBit[blocks[k]] * Bit(k)])

\* The number with one entropy bit of each selected block.
ModifierOf(blocks) ==
  SumFunction([k \in 1 .. Len(blocks) |-> EntropyBit[blocks[k]] * Bit(k - 1)])

Interval(t) == t \div ModifierInterval

\* Variant: before protocol 0.4, the time of the block itself did not matter.
SameIntervalV03(b, last) == Interval(time[last]) >= Interval(time[Parent[b]])

SameInterval(b, last) ==
  \/ Interval(time[last]) >= Interval(time[Parent[b]])
  \/ Interval(time[last]) >= Interval(time[b]) /\ time[b] >= ProtocolV04Time

\* computeNextStakeModifier, with the meta data m of the blocks below b.
ComputeNextStakeModifier(b, m) ==
  LET prev == Parent[b]
      last == LastGenerated(prev, m)
  IN  IF SameInterval(b, last)
      THEN [modifier |-> m[last].modifier, generated |-> FALSE]
      ELSE [modifier |-> ModifierOf(Selected(prev,
                           HashesOf(Candidates(prev), m[last].modifier, m))),
            generated |-> TRUE]

-----------------------------------------------------------------------------
\* getKernelStakeModifier on the chain of tip: the block with the first modifier
\* that was generated a selection interval or more after the block from.
KernelModifierBlocks(from, tip, m) ==
  {c \in Ancestry[tip] : /\ Height[c] > Height[from]
                         /\ m[c].generated
                         /\ time[c] >= time[from] + SelectionInterval}

\* FetchTransactionStore: the block of the chain of tip that has the transaction
\* staked by b, unless it was spent on that chain.  Its output is its only one.
KernelBlocks(b, tip) ==
  {c \in Ancestry[tip] : /\ StakeOf[b] \in Confirmed[c]
                         /\ \A d \in ChainAbove(tip, c) : StakeOf[d] # StakeOf[b]}
KernelBlock(b, tip) == Highest(KernelBlocks(b, tip))

\* HashProofOfStake of b on the chain of tip.
ProofHash(b, tip, m) ==
  LET from == KernelBlock(b, tip)
  IN  KernelHash(b, from, m[Lowest(KernelModifierBlocks(from, tip, m))].modifier)

\* Coin days, which start to count at the minimum age.
CoinDayWeight(b) ==
  LET s == StakeOf[b]
      age == Min({time[b] - StakeTime[s], StakeMaxAge}) - StakeMinAge
  IN  (StakeValue[s] * age) \div CoinDay

\* checkTxProofOfStake and checkStakeKernelHash on the chain of tip.
CheckProofOfStake(b, tip, m, target) ==
  /\ KernelBlocks(b, tip) # {}
  /\ LET from == KernelBlock(b, tip)
     IN  /\ StakeTime[StakeOf[b]] <= time[b]
         /\ time[from] + StakeMinAge <= time[b]
         /\ KernelModifierBlocks(from, tip, m) # {}
  /\ ProofHash(b, tip, m) <= CoinDayWeight(b) * target
=============================================================================
