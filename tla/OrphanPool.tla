------------------------------ MODULE OrphanPool ------------------------------
(***************************************************************************)
(* The orphan pool of a BlockChain: the blocks whose parent is not known   *)
(* yet, the index from a missing parent to the orphans that wait for it,   *)
(* the lazily maintained pointer to the oldest orphan, and the record of   *)
(* the coinstakes seen in orphans.  The rest of the node appears only as   *)
(* the set of blocks the chain knows, which blockExists reads.             *)
(***************************************************************************)
EXTENDS BlockTree, Queues, Functions

CONSTANTS
  MaxOrphanBlocks,  \* maxOrphanBlocks
  OrphanLife,       \* how long an orphan is kept, one hour in the code
  NoOrphan,         \* the nil value of oldestOrphan
  MaxTime           \* bound of the model: the clock stops here

ASSUME PoolAssumption ==
  /\ MaxOrphanBlocks \in Nat \ {0}
  /\ OrphanLife \in Nat
  /\ MaxTime \in Nat
  /\ NoOrphan \notin [block : Blocks, expiration : Nat]

VARIABLES
  orphans,          \* the expiration of each orphan in the pool, by block
  prevOrphans,      \* for each block, the orphans that wait for it, as they came
  oldestOrphan,     \* the orphanBlock the pointer holds, or NoOrphan
  stakeSeenOrphan,  \* the coinstakes recorded for orphans
  known,            \* the blocks of the main chain and the side chains
  clock             \* time.Now()

poolVars == <<orphans, prevOrphans, oldestOrphan, stakeSeenOrphan>>
vars == <<orphans, prevOrphans, oldestOrphan, stakeSeenOrphan, known, clock>>

Pool == DOMAIN orphans

\* Variant: orphans that leave the pool stay in the index.
StillIndexed(S) == prevOrphans

\* The index without the orphans in S; the others keep their order.
Unindexed(S) ==
  [h \in Blocks |-> Without(prevOrphans[h], {o \in S : Parent[o] = h})]

-----------------------------------------------------------------------------
\* removeOrphanBlock, which removes by hash and leaves oldestOrphan alone.
RemoveOrphanBlock(b) ==
  /\ orphans' = [o \in Pool \ {b} |-> orphans[o]]
  /\ prevOrphans' = Unindexed({b})
  /\ UNCHANGED oldestOrphan

\* The orphans whose expiration has not passed when the pool is cleaned up.
Unexpired == {o \in Pool : clock <= orphans[o]}

(***************************************************************************)
(* What oldestOrphan may point to after the cleanup loop has visited every *)
(* live orphan in the random order of a Go map: an orphan with the least   *)
(* expiration, unless the pointer already holds one that is no younger,    *)
(* be it still in the pool or not.                                         *)
(***************************************************************************)
OldestAfterCleanup ==
  LET older == {o \in Unexpired : \/ oldestOrphan = NoOrphan
                                  \/ orphans[o] < oldestOrphan.expiration}
  IN  IF older = {} THEN {oldestOrphan}
      ELSE {[block |-> o, expiration |-> orphans[o]] :
              o \in {p \in older : \A q \in older : orphans[p] <= orphans[q]}}

\* Variant: oldestOrphan is not forgotten after an eviction.
AddKeepingOldest(b) ==
  LET full == Cardinality(Unexpired) + 1 > MaxOrphanBlocks
  IN  \E oldest \in OldestAfterCleanup :
        LET kept == IF full THEN Unexpired \ {oldest.block} ELSE Unexpired
        IN  /\ oldestOrphan' = oldest
            /\ orphans' = [o \in kept \cup {b} |->
                             IF o = b THEN clock + OrphanLife ELSE orphans[o]]
            /\ prevOrphans' = [Unindexed(Pool \ kept) EXCEPT ![Parent[b]] = Append(@, b)]

\* addOrphanBlock: drop the expired, evict one at the limit, insert b.
AddOrphanBlock(b) ==
  LET full == Cardinality(Unexpired) + 1 > MaxOrphanBlocks
  IN  \E oldest \in OldestAfterCleanup :
        LET kept == IF full THEN Unexpired \ {oldest.block} ELSE Unexpired
        IN  /\ oldestOrphan' = IF full THEN NoOrphan ELSE oldest
            /\ orphans' = [o \in kept \cup {b} |->
                             IF o = b THEN clock + OrphanLife ELSE orphans[o]]
            /\ prevOrphans' = [Unindexed(Pool \ kept) EXCEPT ![Parent[b]] = Append(@, b)]

(***************************************************************************)
(* The orphan branch of ProcessBlock.  ppcProcessOrphan records the        *)
(* coinstake of a proof-of-stake block; the table it looks duplicates up   *)
(* in, stakeSeen, is written nowhere, so its check never rejects.          *)
(***************************************************************************)
ProcessOrphan(b) ==
  /\ b \notin known \cup Pool
  /\ Parent[b] \notin known
  /\ stakeSeenOrphan' = stakeSeenOrphan \cup ({StakeOf[b]} \ {NoStake})
  /\ AddOrphanBlock(b)
  /\ UNCHANGED <<known, clock>>

(***************************************************************************)
(* One turn of the inner loop of processOrphans for the accepted block h:  *)
(* o, which came first of the orphans that wait for h, leaves the pool,    *)
(* and its coinstake is forgotten (ppcOrphanBlockRemoved).                 *)
(***************************************************************************)
TakeOrphan(h, o) ==
  /\ h \in known
  /\ prevOrphans[h] # <<>>
  /\ o = Head(prevOrphans[h])
  /\ stakeSeenOrphan' = stakeSeenOrphan \ {StakeOf[o]}
  /\ RemoveOrphanBlock(o)
  /\ UNCHANGED <<known, clock>>

-----------------------------------------------------------------------------
\* The environment: the chain learns a block, time passes, the node restarts.

\* Variant: a block that is in the pool is accepted once more.
LearnAgain(b) ==
  /\ b \notin known
  /\ Parent[b] \in known
  /\ known' = known \cup {b}
  /\ UNCHANGED <<poolVars, clock>>

\* ProcessBlock or processOrphans accepts a block, to the main or a side chain.
Learn(b) ==
  /\ b \notin known \cup Pool
  /\ Parent[b] \in known
  /\ known' = known \cup {b}
  /\ UNCHANGED <<poolVars, clock>>

Tick ==
  /\ clock < MaxTime
  /\ clock' = clock + 1
  /\ UNCHANGED <<poolVars, known>>

\* A new BlockChain has an empty pool; the database decides what it knows.
Restart ==
  /\ orphans' = [o \in {} |-> 0]
  /\ prevOrphans' = [h \in Blocks |-> <<>>]
  /\ oldestOrphan' = NoOrphan
  /\ stakeSeenOrphan' = {}
  /\ known' \in SUBSET known
  /\ Genesis \in known'
  /\ \A b \in known' \ {Genesis} : Parent[b] \in known'
  /\ UNCHANGED clock

Init ==
  /\ orphans = [o \in {} |-> 0]
  /\ prevOrphans = [h \in Blocks |-> <<>>]
  /\ oldestOrphan = NoOrphan
  /\ stakeSeenOrphan = {}
  /\ known = {Genesis}
  /\ clock = 0

Next ==
  \/ \E b \in Blocks \ {Genesis} : ProcessOrphan(b) \/ Learn(b)
  \/ \E h, o \in Blocks : TakeOrphan(h, o)
  \/ Tick
  \/ Restart

Spec == Init /\ [][Next]_vars

-----------------------------------------------------------------------------
\* Type invariant of the pool.
TypeOK ==
  /\ Pool \subseteq Blocks \ {Genesis}
  /\ orphans \in [Pool -> Nat]
  /\ prevOrphans \in [Blocks -> Seq(Blocks)]
  /\ oldestOrphan \in [block : Blocks, expiration : Nat] \cup {NoOrphan}
  /\ stakeSeenOrphan \subseteq Stakes
  /\ known \subseteq Blocks
  /\ Genesis \in known
  /\ clock \in Nat

(***************************************************************************)
(* addOrphanBlock forgets that oldestOrphan may name an orphan that left   *)
(* the pool, and then evicts nothing: the pool passes its limit, but by    *)
(* one only, because the pointer is fresh again after that.                *)
(***************************************************************************)
PoolBounded == Cardinality(Pool) <= MaxOrphanBlocks + 1

(***************************************************************************)
(* The two maps of the pool agree: processOrphans finds every orphan of a  *)
(* parent, finds it once, and never finds one that was evicted or expired. *)
(***************************************************************************)
IndexCoherent ==
  \A h \in Blocks : /\ Range(prevOrphans[h]) = {o \in Pool : Parent[o] = h}
                    /\ IsInjective(prevOrphans[h])

\* No block is in the orphan pool and in the chain at once, however it came
\* to be accepted: ProcessBlock would refuse it for ever as a duplicate.
NeverBoth == Pool \cap known = {}
=============================================================================
