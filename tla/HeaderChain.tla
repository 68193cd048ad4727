----------------------------- MODULE HeaderChain -----------------------------
(***************************************************************************)
(* What decides whether a block is accepted besides its transactions: its  *)
(* timestamp against the adjusted clock and against the median of its      *)
(* ancestors' timestamps, the checkpoints, and the choice of the best      *)
(* chain.  A call of ProcessBlock is one step here, and so is each orphan  *)
(* it releases; BlockChain has the steps in between, the pool's limits and *)
(* the dry runs.                                                           *)
(***************************************************************************)
EXTENDS Checkpoints, BlockLocator, MedianTime

CONSTANTS
  BlockTime,         \* BlockTime[b]: Header.Timestamp
  MedianTimeBlocks,  \* medianTimeBlocks
  MaxTimeOffset,     \* MaxTimeOffsetSeconds
  CurrentAge,        \* the 24 hours of IsCurrent
  FastBlocks,        \* the blocks that may be delivered with BFFastAdd
  MaxOrphans,        \* bound: the blocks waiting for their parents
  StartClock,        \* the local clock at the start
  MaxClock           \* bound: the last value of the local clock

ASSUME HeaderAssumption ==
  /\ BlockTime \in [Blocks -> Nat]
  /\ MedianTimeBlocks \in Nat /\ MedianTimeBlocks % 2 = 1
  /\ MaxTimeOffset \in Nat
  /\ FastBlocks \subseteq Blocks \ {Genesis}
  /\ StartClock \in Nat

VARIABLES
  index,          \* the blocks that were accepted and are known
  bestChain,      \* the tip of the main chain, which the database holds
  checkpoint,     \* checkpointBlock and nextCheckpoint
  orphans,        \* the blocks waiting for their parents
  processHashes,  \* the accepted blocks whose orphans the running call will release
  fastAdd,        \* the running call has BFFastAdd
  clock           \* the local clock

chainVars == <<index, bestChain, checkpoint, orphans, processHashes, fastAdd>>
vars == <<chainVars, clock, timeVars>>

MainChain == Ancestry[bestChain]

\* AdjustedTime
AdjustedTime == clock + offsetSecs

\* checkBlockSanity: the timestamp is too far in the future.
TimeTooNew(b) == BlockTime[b] > AdjustedTime + MaxTimeOffset

\* The blocks calcPastMedianTime looks at, from b down.
Window(b) == {c \in Ancestry[b] : Height[b] < Height[c] + MedianTimeBlocks}

\* calcPastMedianTime: the timestamp at half the number, from zero, when sorted.
PastMedianTime(b) ==
  LET window == Window(b)
      Earlier(t) == {c \in window : BlockTime[c] < t}
      NotLater(t) == {c \in window : BlockTime[c] <= t}
      half == Cardinality(window) \div 2
  IN  CHOOSE t \in {BlockTime[c] : c \in window} :
        Cardinality(Earlier(t)) <= half /\ half < Cardinality(NotLater(t))

\* Variant: the timestamp is compared with that of the genesis block.
NotTooOld(b) == BlockTime[b] <= BlockTime[Genesis]

TimeTooOld(b) == BlockTime[b] <= PastMedianTime(Parent[b])

\* ProcessBlock: the timestamp is before that of the cached checkpoint.
CheckpointTimeTooOld(b, c) ==
  c.block # 0 /\ BlockTime[b] < BlockTime[Checkpoint[c.block]]

\* maybeAcceptBlock: the block would fork the main chain before the checkpoint.
ForkTooOld(b, c) == c.block # 0 /\ Height[b] < Height[Checkpoint[c.block]]

-----------------------------------------------------------------------------
\* What is left for processOrphans when the orphans are pool.
Waiting(hashes, pool) == {h \in hashes : \E o \in pool : Parent[o] = h}

\* The call ends, or goes on with the orphans of the blocks in hashes.
GoOn(hashes, fast) ==
  /\ processHashes' = Waiting(hashes, orphans')
  /\ fastAdd' = (fast /\ Waiting(hashes, orphans') # {})

ConnectsAll(b) == ChainAbove(b, Highest(Ancestry[b] \cap MainChain)) \subseteq Connectable

\* connectBestChain
ConnectBestChain(b, hashes, fast) ==
  \/ /\ Parent[b] = bestChain
     /\ fast \/ b \in Connectable
     /\ index' = index \cup {b}
     /\ bestChain' = b
     /\ GoOn(hashes, fast)
  \/ /\ Parent[b] = bestChain
     /\ ~fast /\ b \notin Connectable
     /\ UNCHANGED <<index, bestChain>>
     /\ GoOn({}, FALSE)
  \/ /\ Parent[b] # bestChain
     /\ Work[b] <= Work[bestChain]
     /\ index' = index \cup {b}
     /\ UNCHANGED bestChain
     /\ GoOn(hashes, fast)
  \/ /\ Parent[b] # bestChain
     /\ Work[b] > Work[bestChain]
     /\ index' = index \cup {b}
     /\ \/ ConnectsAll(b) /\ bestChain' = b /\ GoOn(hashes, fast)
        \/ ~ConnectsAll(b) /\ UNCHANGED bestChain /\ GoOn({}, FALSE)

\* Variant: the cache is not asked again.
MaybeAcceptAsCached(b, c, hashes, fast) ==
  IF (fast \/ ~TimeTooOld(b)) /\ VerifyCheckpoint(b) /\ ~ForkTooOld(b, c)
  THEN checkpoint' = c /\ ConnectBestChain(b, hashes, fast)
  ELSE checkpoint' = c /\ GoOn({}, FALSE) /\ UNCHANGED <<index, bestChain>>

\* maybeAcceptBlock, with c in the cache.
MaybeAcceptBlock(b, c, hashes, fast) ==
  IF (fast \/ ~TimeTooOld(b)) /\ VerifyCheckpoint(b)
  THEN /\ checkpoint' = FindPreviousCheckpoint(c, bestChain)
       /\ \/ /\ ForkTooOld(b, checkpoint')
             /\ GoOn({}, FALSE)
             /\ UNCHANGED <<index, bestChain>>
          \/ /\ ~ForkTooOld(b, checkpoint')
             /\ ConnectBestChain(b, hashes, fast)
  ELSE /\ checkpoint' = c
       /\ GoOn({}, FALSE)
       /\ UNCHANGED <<index, bestChain>>

\* ProcessBlock of a block that is neither known nor too far in the future.
ProcessBlock(b, fast) ==
  /\ processHashes = {}
  /\ b \notin index \cup orphans
  /\ ~TimeTooNew(b)
  /\ LET c == FindPreviousCheckpoint(checkpoint, bestChain)
     IN  \/ /\ CheckpointTimeTooOld(b, c)
            /\ checkpoint' = c
            /\ UNCHANGED <<index, bestChain, orphans, processHashes, fastAdd>>
         \/ /\ ~CheckpointTimeTooOld(b, c)
            /\ Parent[b] \notin index
            /\ Cardinality(orphans) < MaxOrphans
            /\ checkpoint' = c
            /\ orphans' = orphans \cup {b}
            /\ UNCHANGED <<index, bestChain, processHashes, fastAdd>>
         \/ /\ ~CheckpointTimeTooOld(b, c)
            /\ Parent[b] \in index
            /\ UNCHANGED orphans
            /\ MaybeAcceptBlock(b, c, {b}, fast)
  /\ UNCHANGED <<clock, timeVars>>

\* processOrphans: the next orphan.
ProcessOrphan(o) ==
  /\ Parent[o] \in processHashes
  /\ orphans' = orphans \ {o}
  /\ MaybeAcceptBlock(o, checkpoint, processHashes \cup {o}, fastAdd)
  /\ UNCHANGED <<clock, timeVars>>

\* A new process knows what is in the database and nothing else.
Restart ==
  /\ index' = MainChain
  /\ checkpoint' = NotSearched
  /\ orphans' = {}
  /\ processHashes' = {}
  /\ fastAdd' = FALSE
  /\ UNCHANGED <<bestChain, clock>>
  /\ ResetMedianTime

\* A peer's version message, at any time.
HearTime(id, o) ==
  /\ AddTimeSample(id, o)
  /\ UNCHANGED <<chainVars, clock>>

Tick ==
  /\ clock < MaxClock
  /\ clock' = clock + 1
  /\ UNCHANGED <<chainVars, timeVars>>

Init ==
  /\ index = {Genesis}
  /\ bestChain = Genesis
  /\ checkpoint = NotSearched
  /\ orphans = {}
  /\ processHashes = {}
  /\ fastAdd = FALSE
  /\ clock = StartClock
  /\ NewMedianTime

Next ==
  \/ \E b \in Blocks \ {Genesis} : ProcessBlock(b, FALSE)
  \/ \E b \in FastBlocks : ProcessBlock(b, TRUE)
  \/ \E o \in orphans : ProcessOrphan(o)
  \/ Restart
  \/ \E id \in Sources, o \in Samples : HearTime(id, o)
  \/ Tick

Spec == Init /\ [][Next]_vars
-----------------------------------------------------------------------------
\* Type invariant.
TypeOK ==
  /\ index \subseteq Blocks
  /\ bestChain \in Blocks
  /\ checkpoint \in Caches
  /\ orphans \subseteq Blocks \ {Genesis}
  /\ processHashes \subseteq Blocks
  /\ fastAdd \in BOOLEAN
  /\ clock \in Nat
  /\ TimeTypeOK

(***************************************************************************)
(* A checkpoint the node relies on stays: the cached checkpoint is always  *)
(* in the main chain, however branches overtake each other, the next one   *)
(* is the one after it, and the database call that moves the cache on      *)
(* finds its block.  The comments of findPreviousCheckpoint say that it    *)
(* cannot go away due to a reorganization.                                 *)
(***************************************************************************)
LockinHolds ==
  /\ checkpoint.block # 0 => Checkpoint[checkpoint.block] \in MainChain
  /\ checkpoint # NotSearched => checkpoint.next = After(checkpoint.block)
  /\ LookupSucceeds(checkpoint, bestChain)

\* The cache has at most k checkpoints of the main chain to catch up with; the first
\* search catches up with all of them.
LagsAtMost(k) ==
  checkpoint = NotSearched \/ \A i \in Stored(bestChain) : i <= checkpoint.block + k

(***************************************************************************)
(* A checkpoint in the main chain is final also while the cache is behind, *)
(* because a reorganization passed several at once: the cache is asked     *)
(* twice before a delivered block is accepted, and once before an orphan   *)
(* is, and moves on by one each time.  It is no more than that: a block    *)
(* with enough work removes the third of three that were passed at once.   *)
(***************************************************************************)
CheckpointsAreFinal ==
  [][LagsAtMost(IF processHashes = {} THEN 2 ELSE 1)
       => Stored(bestChain) \subseteq Stored(bestChain')]_vars

\* IsCurrent
IsCurrent ==
  /\ HasLatestHeight(bestChain)
  /\ BlockTime[bestChain] >= AdjustedTime - CurrentAge

\* A chain that says it is current, which goes by its height, has every checkpoint.
CurrentHasCheckpoints == IsCurrent => Stored(bestChain) = 1 .. Len(Checkpoint)

(***************************************************************************)
(* Time does not run backwards along a chain: although timestamps need not *)
(* increase, the median each block is compared with does not decrease, at  *)
(* the start of the chain too, where the middle of an even number is the   *)
(* upper one.  BFFastAdd drops the comparison, for the orphans the call    *)
(* releases too.                                                           *)
(***************************************************************************)
MedianNeverDecreases ==
  \A b \in index \ {Genesis} :
    Ancestry[b] \cap FastBlocks = {} => PastMedianTime(Parent[b]) <= PastMedianTime(b)

(***************************************************************************)
(* No samples, in whatever order they come between the calls, move the     *)
(* clock so far that a block from a later future gets in than the allowed  *)
(* offset and the allowed drift explain together.  An orphan is compared   *)
(* with the clock of the day it came, and stays explained when it is       *)
(* accepted much later, under another offset or after a restart.           *)
(***************************************************************************)
TimesBounded ==
  \A b \in (index \cup orphans) \ {Genesis} :
    BlockTime[b] < clock + MaxAllowedOffset + MaxTimeOffset

\* The locator of a known block starts at it, goes down its chain to Genesis, and
\* tells every peer that shares some of the main chain with it where to go on.
LocatorsLocate ==
  \A b \in index \ {Genesis} :
    ForkIsSeen(b, MainChain) =>
      LET s == BlockLocatorFromHash(b, MainChain, index)
      IN  /\ Descends(s, b)
          /\ \A f \in Ancestry[b] \cap MainChain : LocatesFork(s, b, f)
=============================================================================
