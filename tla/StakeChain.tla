------------------------------ MODULE StakeChain ------------------------------
(***************************************************************************)
(* The proof-of-stake side of maybeAcceptBlock: the difficulty a block     *)
(* must state, its kernel, which is looked up in the main chain, and the   *)
(* meta data it is given, which later blocks of its chain are checked      *)
(* with.  The transactions all connect, and a call is one step: BlockChain *)
(* has what is in between.  The work of a chain is the sum of the trust of *)
(* its blocks here, rather than BlockTree's constant.                      *)
(***************************************************************************)
EXTENDS StakeModifier, CompactTarget

CONSTANTS
  Times,                \* the timestamps the blocks can have
  PowLimit,             \* netParams.PowLimit
  InitialBits,          \* netParams.InitialHashTargetBits
  TargetTimespan,
  StakeTargetSpacing,
  TargetSpacingWorkMax

ASSUME TargetAssumption ==
  /\ Times \subseteq [Blocks -> Nat]
  /\ PowLimit \in Nat \ {0}
  /\ PowLimit < OneLsh256
  /\ InitialBits \in Compact /\ CompactToBig(InitialBits) \in 1 .. PowLimit
  /\ TargetTimespan \in Nat /\ StakeTargetSpacing \in Nat \ {0}
  /\ TargetSpacingWorkMax \in StakeTargetSpacing .. TargetTimespan

\* checkBlockSanity: no transaction is later than its block.
ASSUME ConfirmedAssumption ==
  \A t \in Times, b \in Blocks : \A s \in Confirmed[b] : StakeTime[s] <= t[b]

VARIABLES
  index,      \* the known blocks
  bestChain,  \* the tip of the main chain, which the database holds
  bits,       \* bits[b]: Header.Bits of the known blocks
  onTip       \* history: the known blocks that were accepted on the tip

vars == <<time, meta, index, bestChain, bits, onTip>>

\* getLastBlockIndex: the last block up to b of that kind, or Genesis.
LastOfKind(b, proofOfStake) ==
  Highest({c \in Ancestry[b] : c = Genesis \/ IsProofOfStake(c) = proofOfStake})

TargetSpacing(last, prev, proofOfStake) ==
  IF proofOfStake THEN StakeTargetSpacing
  ELSE Min({TargetSpacingWorkMax, StakeTargetSpacing * (1 + Height[last] - Height[prev])})

\* The new target, before the limit.
Retarget(target, spacing, actual) ==
  LET interval == TargetTimespan \div spacing
  IN  (target * ((interval - 1) * spacing + 2 * actual)) \div ((interval + 1) * spacing)

\* ppcCalcNextRequiredDifficulty
RequiredBits(last, proofOfStake) ==
  LET prev == LastOfKind(last, proofOfStake)
      prevPrev == LastOfKind(Parent[prev], proofOfStake)
      spacing == TargetSpacing(last, prev, proofOfStake)
      actual == time[prev] - time[prevPrev]
      newTarget == Retarget(CompactToBig(bits[prev]), spacing, actual)
  IN  IF prev = Genesis \/ prevPrev = Genesis THEN InitialBits
      ELSE BigToCompact(Min({newTarget, PowLimit}))

\* Variant: any target will do.
CheckNoTarget(c) == CompactToBig(c) <= PowLimit

\* checkProofOfWork, without the hash.
CheckProofOfWork(c) == CompactToBig(c) > 0 /\ CompactToBig(c) <= PowLimit

\* checkBlockProofOfStake
CheckKernel(b, c) == CheckProofOfStake(b, bestChain, meta, CompactToBig(c))

\* The meta data of b: checkBlockProofOfStake and AddToBlockIndex.
MetaOf(b, tip, m) ==
  LET next == ComputeNextStakeModifier(b, m)
  IN  [modifier |-> next.modifier, generated |-> next.generated,
       proof |-> IF IsProofOfStake(b) THEN ProofHash(b, tip, m) ELSE 0]

\* workSum
WorkOf(b, known) ==
  MapThenSumSet(LAMBDA c : CalcTrust(known[c], IsProofOfStake(c)), Ancestry[b])

\* maybeAcceptBlock, of a block with the bits that are expected.
MaybeAcceptBlock(b) ==
  LET expected == RequiredBits(Parent[b], IsProofOfStake(b))
  IN  /\ Parent[b] \in index /\ b \notin index
      /\ IF IsProofOfStake(b) THEN CheckKernel(b, expected) ELSE CheckProofOfWork(expected)
      /\ bits' = [bits EXCEPT ![b] = expected]
      /\ meta' = [meta EXCEPT ![b] = MetaOf(b, bestChain, meta)]
      /\ index' = index \cup {b}
      /\ bestChain' = IF Parent[b] = bestChain \/ WorkOf(b, bits') > WorkOf(bestChain, bits)
                      THEN b ELSE bestChain
      /\ onTip' = IF Parent[b] = bestChain THEN onTip \cup {b} ELSE onTip
      /\ UNCHANGED time

\* Variant: loaded blocks have generated no modifier.
ReloadedWithoutFlags(m) ==
  [b \in Blocks |-> IF b \in Ancestry[bestChain]
                    THEN [m[b] EXCEPT !.generated = b = Genesis] ELSE NoMeta]

\* The meta data the database has.
Reloaded(m) == [b \in Blocks |-> IF b \in Ancestry[bestChain] THEN m[b] ELSE NoMeta]

\* A new process: GenerateInitialIndex.
Restart ==
  /\ index' = Ancestry[bestChain]
  /\ meta' = Reloaded(meta)
  /\ onTip' = onTip \cap Ancestry[bestChain]
  /\ UNCHANGED <<time, bestChain, bits>>

Init ==
  /\ time \in Times
  /\ meta = [b \in Blocks |-> IF b = Genesis THEN GenesisMeta ELSE NoMeta]
  /\ index = {Genesis}
  /\ bestChain = Genesis
  /\ bits = [b \in Blocks |-> InitialBits]
  /\ onTip = {}

Next == (\E b \in Blocks \ {Genesis} : MaybeAcceptBlock(b)) \/ Restart

Spec == Init /\ [][Next]_vars
-----------------------------------------------------------------------------
\* Type invariant.
TypeOK ==
  /\ time \in Times
  /\ \A b \in Blocks : /\ meta[b].modifier \in Modifiers
                       /\ meta[b].generated \in BOOLEAN
                       /\ meta[b].proof \in Nat
  /\ Genesis \in index /\ index \subseteq Blocks
  /\ bestChain \in index
  /\ \A b \in Blocks : bits[b] \in Compact
  /\ onTip \subseteq index

\* Every block adds work to its chain, whatever its ancestors' timestamps make of
\* the target: what the choice of the best chain takes for granted.
EveryBlockAddsWork ==
  \A b \in index \ {Genesis} : CalcTrust(bits[b], IsProofOfStake(b)) > 0

(***************************************************************************)
(* The difficulty follows the spacing of the blocks through the rounding   *)
(* of compact targets: blocks that come as planned or slower make the next *)
(* target no smaller, up to the limit, and faster ones no larger.          *)
(***************************************************************************)
RetargetFollowsSpacing ==
  \A b \in index, proofOfStake \in BOOLEAN :
    LET prev == LastOfKind(b, proofOfStake)
        prevPrev == LastOfKind(Parent[prev], proofOfStake)
        actual == time[prev] - time[prevPrev]
        planned == TargetSpacing(b, prev, proofOfStake)
        old == CompactToBig(bits[prev])
        new == CompactToBig(RequiredBits(b, proofOfStake))
    IN  prev # Genesis /\ prevPrev # Genesis =>
          /\ actual >= planned => new >= Min({old, PowLimit})
          /\ actual <= planned => new <= old

(***************************************************************************)
(* A stake modifier lasts an interval: on a chain each one is generated in *)
(* a later interval than those before it, although timestamps need not     *)
(* increase.  Protocol 0.4 asks for it, so that a block dated before the   *)
(* switch begins anew.                                                     *)
(***************************************************************************)
OneModifierPerInterval ==
  \A b \in index : \A c, d \in Ancestry[b] :
    /\ meta[c].generated /\ meta[d].generated
    /\ Height[c] < Height[d]
    /\ \A e \in ChainAbove(d, c) : time[e] >= ProtocolV04Time
    => Interval(time[c]) < Interval(time[d])

\* The meta data of the chain of b computed from that chain alone.
OwnMeta(b) ==
  LET At(k) == CHOOSE c \in Ancestry[b] : Height[c] = k
      M[k \in 0 .. Height[b]] ==
        IF k = 0 THEN [c \in Blocks |-> IF c = Genesis THEN GenesisMeta ELSE NoMeta]
        ELSE [M[k - 1] EXCEPT ![At(k)] = MetaOf(At(k), Parent[At(k)], M[k - 1])]
  IN  M[Height[b]]

(***************************************************************************)
(* Every node comes to the same modifiers: the meta data of a block is     *)
(* what its own chain says, in whatever order the blocks came, and over    *)
(* reorganizations and restarts, as long as the proof-of-stake blocks of   *)
(* the chain were accepted on the tip.                                     *)
(***************************************************************************)
ModifiersOfTheChain ==
  \A b \in index :
    (\A c \in Ancestry[b] : IsProofOfStake(c) => c \in onTip) => meta[b] = OwnMeta(b)[b]

(***************************************************************************)
(* The kernel of a proof-of-stake block fits the chain of the block.  The  *)
(* comment in checkTxProofOfStake takes the main chain for that chain.     *)
(***************************************************************************)
KernelOfItsChain ==
  \A b \in index : IsProofOfStake(b) =>
    CheckProofOfStake(b, Parent[b], meta, CompactToBig(bits[b]))
=============================================================================
