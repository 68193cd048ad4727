# A formal model of btcchain

`btcchain` (this repository) is the block chain package of a peercoin port of
btcd: it decides which blocks a node accepts, keeps the main chain in a
database and side chains and orphans in memory, and reorganizes when a side
chain gets more work.  This directory holds TLA+ modules that model it, TLC
configurations that check them on small instances, and TLAPS proofs of the
main results for every instance.

    tlc -config Forks.cfg MCBlockChain      # a run
    tlapm BlockChainProofs.tla              # the proofs of a module

## 1. Inventory: the parts of the system

One goroutine calls `ProcessBlock`; there is no lock around the chain state
(only `orphanLock`, for two read-only queries), so calls do not overlap.  What
makes the code hard is the order in which blocks arrive, calls that end in the
middle because a database call failed, and kills between two database writes.

| Part | State | Operations | What makes it correct |
|---|---|---|---|
| Block processing (`process.go`, `accept.go`) | flags and work list of a call | `ProcessBlock`, `maybeAcceptBlock`, `processOrphans` | every call returns; a dry run leaves no trace; duplicates are refused; every orphan whose parent came is looked at |
| Best chain selection (`chain.go`) | `bestChain`, `inMainChain`, `workSum`, `blockCache`, the database | `connectBestChain`, `getReorganizeNodes`, `reorganizeChain`, `connectBlock`, `disconnectBlock` | the stored chain is linked; the heaviest valid chain is the main chain; reorganizations run to their end; no panic |
| Orphan pool (`chain.go`, `ppc.go`) | `orphans`, `prevOrphans`, `oldestOrphan`, `stakeSeenOrphan` | `addOrphanBlock`, `removeOrphanBlock`, `ppcProcessOrphan`, `ppcOrphanBlockRemoved` | the two maps agree; the pool is bounded; the oldest goes first; stakes are not repeated |
| Sparse memory index (`chain.go`) | `index`, `depNodes`, `root`, node links | `loadBlockNode`, `getPrevNodeFrom*`, `pruneBlockNodes`, `removeBlockNode`, `GenerateInitialIndex` | links agree with the maps; what a fork needs is in memory |
| Transaction store (`txlookup.go`) | a `TxStore` per call | `fetchTxStore`, `connectTransactions`, `disconnectTransactions`, `fetchInputTransactions` | the view of a side chain equals a replay of that chain |
| Script validation (`scriptval.go`) | goroutines, three channels | `Validate`, `validateHandler`, `sendResult` | the verdict is right; no goroutine is left behind |
| Checkpoints (`checkpoints.go`) | `nextCheckpoint`, `checkpointBlock` | `findPreviousCheckpoint`, `verifyCheckpoint`, `IsCheckpointCandidate` | the cached checkpoint is in the main chain; a checkpoint that was passed is not reorganized away |
| Rules (`validate.go`) | none | `checkBlockSanity`, `checkConnectBlock`, `CheckTransactionInputs` | functions of block, chain and view |
| Proof of stake (`kernel.go`, `ppc.go`) | `stakeSeen`, `meta` of nodes | `ComputeNextStakeModifier`, `checkStakeKernelHash`, `CalcMintAndMoneySupply` | modifiers depend on the chain of the block alone, and so does the kernel check |
| Difficulty (`difficulty.go`, `ppc.go`) | none | `CompactToBig`, `BigToCompact`, `CalcWork`, `CalcTrust`, retargeting | round trips; at least one unit of work for a block |
| Median time (`mediantime.go`) | sorted offsets, known sources | `AddTimeSample`, `Offset` | the median of the samples; bounded |
| Block locator (`blocklocator.go`) | none | `BlockLocatorFromHash` | starts at the block, thins out, ends at genesis |
| Merkle tree (`merkle.go`) | none | `BuildMerkleTreeStore` | the root of the recursive definition |
| Notifications, logging, errors | none | callbacks into the caller | not modelled: no chain state |

Interactions: `ProcessBlock` asks the index and the database (`blockExists`),
then the pool, then `maybeAcceptBlock`; that asks the rules, difficulty,
checkpoints and the kernel, and calls `connectBestChain`, which asks
`checkConnectBlock` (transaction store, script validation) and changes index,
cache and database; `processOrphans` feeds orphans back into
`maybeAcceptBlock` with the flags of the call.

The hazards that follow from this are listed in `PROJECT.json`, each at its
line, with the properties that watch it.

## 2. The modules

    BlockTree ─┬─ OrphanPool ─(INSTANCE Pool)─ BlockChain ─(INSTANCE Promise)─ BestChain
               ├─ NodeIndex
               ├─ TxStore
               ├─ Checkpoints, BlockLocator, MedianTime ─── HeaderChain
               └─ StakeModifier, CompactTarget ─── StakeChain
    Powers ─── BlockLocator, CompactTarget
    Queues ─── OrphanPool
    ScriptVal

`MedianTime`, `CompactTarget` and `ScriptVal` do not need `BlockTree`; `Powers`
has the powers of a number as a function, `Queues` the slices that elements are taken out of.  `BlockTreeProofs` has the lemmas on
chains, sums and powers that the others cite; each of `OrphanPoolProofs`,
`BlockChainProofs`, `NodeIndexProofs`, `TxStoreProofs`, `HeaderChainProofs`,
`StakeChainProofs` and `ScriptValProofs` has the theorems about the module in
its name (and, for `BlockChain` and `HeaderChain`, those on the modules they
implement).

**BlockTree** has the data as constants: the blocks that can be delivered, their
tree (`Parent`, `Height`, `Ancestry`), their work, and the verdicts of the
rules: `Sane` (`checkBlockSanity` and the checkpoint time), `Acceptable` (the
checks of `maybeAcceptBlock`) and `Connectable` (`checkConnectBlock`).
`BlockChain` adds `FastAcceptable`, for those checks of `maybeAcceptBlock` that
`BFFastAdd` does not skip.  A
header commits to its parent's hash, so the tree equations are assumptions and
not properties.  The verdicts are functions of the block in `BlockChain`.
`TxStore`, `HeaderChain` and `StakeChain` take them apart: they have what the
verdict is made from, and say how far it is the block's alone.

**OrphanPool** has one action for each way the pool changes: `ProcessOrphan`
(the orphan branch of `ProcessBlock` with `ppcProcessOrphan` and all of
`addOrphanBlock`: expiry, the pointer update in the random order of a Go map,
eviction, insertion), `TakeOrphan` (a turn of the inner loop of
`processOrphans`, which takes the orphan that came first), and the environment: a
block becomes known, time passes, restart.  `prevOrphans` keeps the slices of the
code as sequences, in order of arrival.

**BlockChain** runs one call of `ProcessBlock` as a sequence of steps, with
`pc` saying where it stands:

| `pc` | where the call is | actions |
|---|---|---|
| `idle` | between calls | `ProcessBlock`, `Tick` |
| `accept` | in `maybeAcceptBlock`, before anything changed | `RejectBlock`, `ExtendMainChain`, `AddSideBlock` |
| `compare` | in `connectBestChain`, the block is in the side chain cache | `KeepMainChain`, `RefuseReorganize`, `StartReorganize`, `UndoDryRun` |
| `connect` | disconnecting, then connecting, one block and one database write a step | `DisconnectBlock`, `ConnectBlock` |
| `orphans` | in the loop of `processOrphans` | `ProcessNextOrphan`, `NextProcessHash` |
| `panic` | the process is dead | `Restart` |

`FailDatabaseCall` ends the call at any step that calls the database, with what
was done before left as it is; `Restart` kills the process between any two
steps and builds the index from the database.  `index`, `workSum`,
`inMainChain`, `bestChain` and `blockCache` are the fields of that name;
`detachNodes` and `attachNodes` are what is left of the two lists of
`reorganizeChain`, as sets (blocks of one chain, so their order is that of
their heights); `oldTip` is `bestChain` when the reorganization started.

**BestChain** is the promise: the node knows a tree of blocks, and each time it
accepts one the tip becomes that block if it is fully valid and has more work
than the tip.  `BlockChain` implements it with `tree <- Settled` (the index but
the block whose fate is still open) and `tip <-` the old tip while a
reorganization runs.

**NodeIndex** is the sparse index that `BlockChain` leaves out: only the end of
the main chain is in memory, and a walk back loads what it needs.  A node is an
object here, the k-th node made for a block, because a pruned node can still be
held by a side chain node or by `prevNode` when another one is loaded for its
block.  One call of `maybeAcceptBlock` runs at a time:

| `pc` | where the call is | actions |
|---|---|---|
| `idle` | between calls | `AcceptBlock` (`getPrevNodeFromBlock`), `Restart` (`GenerateInitialIndex`) |
| `check` | the checks walk back from the parent, and `AddToBlockIndex` the first time | `LookBack` (`getPrevNodeFromNode`, `loadBlockNode`), `NextCheck`, `RejectBlock`, `LoseNode`, `PruneBlockNodes` |
| `reload` | pruned; `AddToBlockIndex` the second time | `ReloadParent` |
| `recheck` | the stake modifier walks back again | `LookBack`, `RejectBlock`, `ExtendMainChain`, `AddSideBlock` |
| `compare` | in `connectBestChain`, on a side chain | `CompareWork` |
| `reorganize` | the two loops of `reorganizeChain` | `DisconnectBlock`, `ConnectBlock` |
| `panic` | the process is dead | `Restart` |

How far a check walks is left open: it depends on versions, times and stake
modifiers of ancestors, which can be anything.  `checkConnectBlock` passes.
`children` are sets: nothing reads their order.  There are two history variables,
both reset by a restart: `highest` is the greatest height the end of the main
chain has had, and `deepFork` is set by a block that forks off `minMemoryNodes`
or more blocks below that height.  It has to be the greatest height and not the
present one: after a reorganization to a heavier but shorter chain, memory ends
where it was pruned to before.

**ScriptVal** is one call of `txValidator.Validate`: the caller's loop and its
handler goroutines, each where it waits.  Over an unbuffered channel a send and
its receive are one step; `quitChan` is only ever closed.  What the scripts of
an input say is its outcome, chosen in `Init`.

**TxStore** has the transactions.  A call of `connectBestChain` checks the
blocks it is about to connect, one after the other, each against a view that
`fetchTxStore` makes in memory:

| `pc` | where the call is | actions |
|---|---|---|
| `idle` | between calls | `Deliver` |
| `bip30` | `checkBIP0030`, first with `fetchTxStore` | `DetachFromStore`, `AttachToStore` (a block a step), `CheckBIP0030` |
| `inputs` | `fetchInputTransactions` | `DetachFromStore`, `AttachToStore`, `MergeStores` |
| `spend` | the loop over the transactions in `checkConnectBlock` | `SpendInputs`, `EndCheck` |
| `connect` | disconnected down to the fork, now connecting | `ConnectBlock` |
| `panic` | an index out of range, or a missing input in the money supply | |

A `TxData` is what `txlookup.go` keeps of a transaction: found or not, the height of
its block, and the outputs that are spent.  What the blocks contain is chosen in
`Init` from a set of fillings (`Bodies`), since a header commits to its
transactions.  Amounts and times are small numbers; scripts pass.  The fee is a
constant, whatever the size of a transaction, and the reward of a coinstake is its
coin age, without the divisions into cents, days and years (`Pays`).  The code
compares an index with `>` where `>=` is meant in three loops; the model has this
as the panic it would be, and shows that blocks are checked before it can bite.
`VerdictIsOfTheBlock` is what lets `BlockChain` take `Connectable` for a constant.

**MedianTime**, **Checkpoints** and **BlockLocator** are the three files of those
names.  `Median` is the element in the middle of the sorted list, stated by
counting.  The checkpoint cache is the pair of numbers of `checkpointBlock` and
`nextCheckpoint`; `findPreviousCheckpoint` returns the new pair.  `BlockLocator`
has the loop as a function of the round, including the comparison that is the
wrong way around on side chains.  Its walk to the fork ends at the oldest node in
memory; here all nodes are in memory, as in `HeaderChain`, and the oldest is Genesis.

**HeaderChain** composes the three with acceptance: timestamps against the
adjusted clock and the past median, checkpoints by height and as a floor for
forks, the choice of the best chain, orphans that wait and are released one a
step, restarts that lose cache, orphans and side chains, and peers that move the
clock between any two steps, of a running call too.

**CompactTarget** and **StakeModifier** are the pure parts of `difficulty.go`,
`ppc.go` and `kernel.go`: compact numbers with their sign bit in digits of
`Base` (256 in the code), trust, the selection of the blocks a stake modifier is
made from, the kernel check.  Hashes are numbers given as constants.
**StakeChain** composes them: `MaybeAcceptBlock` computes the required
difficulty and the meta data of a block from its ancestors, looks its kernel up
in the *main* chain as the code does, and `Restart` leaves what
`GenerateInitialIndex` reads back.

The modules whose name starts with **MC** give the instances for TLC, **MCTree**
the helpers they share.
Definitions whose comment starts with "Variant" are not part of a
specification: each is what one definition would be with a plausible bug, and
`PROJECT.json` ("mutants") says which property then fails.

## 3. The runs

| Run | Question | Result |
|---|---|---|
| `OrphanPool.cfg` | do the maps of the pool agree, is it bounded, is a block in pool or chain but not both | holds: limit + 1 |
| `Forks.cfg` | all orders of a tree of branches with dry runs and a fast add: `BestChain`'s promise, termination, dry runs, no panic | holds |
| `Faults.cfg` | the same with a failing database call and a kill anywhere, and a fast added block whose child inherits the flag: linked chain, stored blocks, nothing unchecked but by the flag | holds |
| `Orphans.cfg` | out-of-order delivery and expiry: all released orphans are processed, the pool is used as it may be | holds |
| `Panic.cfg` | no panic, with one failing database call | violated |
| `StuckOrphans.cfg` | "until there are no more", with one orphan that does not connect and came before its sibling | violated |
| `NodeIndex.cfg` | pruning, loading, reorganizing and restarting in every order: links, marks and bounds until a fork is deep, the stored chain always | holds |
| `ScriptVal.cfg` | the verdict under every schedule, every item accounted for, no goroutine left | holds |
| `TxStore.cfg` | all fillings of two branches, in every order of delivery: the view is that of the chain, verdicts are of the block, nothing is spent twice, prices are fair by a chain the node had, the money supply is right | holds |
| `Headers.cfg` | branches that overtake around three checkpoints, with timestamps that go back, while peers move the clock and the node restarts | holds |
| `Stake.cfg` | proof of stake on three branches with even, standing and decreasing times: work, difficulty, modifiers | holds |
| `StakeKernel.cfg` | the kernel of a block fits the block's own chain | violated |

Every type invariant is proved.  The runs check those of `TxStore` and
`StakeChain`, where a bug in an operator shows as a value out of range; those of
the other modules and the parts of the inductive invariants that other properties
imply are left to the proofs.

Bounds.  *Fork* has a genesis block and nine more that both runs deliver: two
branches of three and two that overtake each other twice and tie once, a heavier
branch that does not connect, the heaviest block of all, which is refused, and one
that only dry runs deliver; that is every case of `connectBestChain` and
reorganizations of up to two blocks against two.  `Faults.cfg` also delivers `k`,
which no check but those of a fast add lets in, always with `BFFastAdd`, and its
child `l`, which is no better, always without.  When `l` came first, `k` releases it
with its own flag, and both enter the main chain; delivered after `k` it is
refused.  The pool there holds two, so out of order delivery works too.  *Twig* has six blocks of two branches, a pool of two and a clock of two
ticks with a life of one: enough for expiry, eviction and for an orphan of an
orphan.  `MaxFaults` and `MaxCrashes` are one: the second fault would meet a
state the first one can leave as well.  `MaxTime`, `MaxFaults` and `MaxCrashes`
bound the model only.

*TxStore* has a stem of one block and branches of three (one of them heavier), so
that the chain is reorganized to and fro with one to three blocks on either side.
The fillings hold each kind of spend: a double spend on one chain and across
chains, an output spent in the block that creates it, in the wrong order too, a
transaction that is on both branches, an output one past the end, a repeated
coinbase, coins that are too young, a coinstake of a coin that only the side chain
has.  Of the last there are both directions: `s2` in `b4` is old enough by its own
chain and refused by the times of the main chain, and `s2` in `a5` is the reverse,
too young by its own chain and let in while `b` is the main chain.  The repeated coinbase of BIP 30 is bounded by an assumption
(`BodiesAssumption`): the exception for those that are fully spent, which needs
two equal coinbases on one chain, is not taken.

*Headers* has fourteen blocks and three checkpoints.  The main chain has seven blocks, none
of them fast added, and a median window of three, which so slides over it from the
third on; its timestamps go back at `c3` and at `c6`.  A block deep in the chain
(`d5`) would take the median back and is refused, and one (`o2`) is
too old and gets in by a fast add.  One block is so heavy that the
main chain passes all three checkpoints at once when it overtakes it, so that the
cache lags behind by three and by two, and another has more work than all but
leaves the last checkpoint out.  `f1` is just later than what the two
limits on the clock explain together.  Four samples fill the list of offsets, and a
fifth source speaks after that.  The sources are symmetric.  `MaxOrphans` and
`MaxClock` bound the model only.

*Stake* has a modifier interval of two and a selection interval of two sections,
four assignments of timestamps, and targets with digits of base four, so that
rounding, the sign bit and the limit all matter within three retargets.

*NodeIndex* keeps three nodes in memory, where the code keeps 2016.  The tree has
a stem and three branches that overtake each other, one of them heavier than
a longer one, so that the end of the main chain also moves down, with each node
pruned and loaded again (`MaxNodes` nodes for a block).  Both shallow
forks (up to two blocks below the highest end) and deep ones occur.  A depth of
`minMemoryNodes` is exactly where the guarantees end: with a `ForksDeep` that
starts one block further down `MemoryAgrees` fails, and with one that measures from
the present end `ShallowReorganizationGainsWork` does.  *ScriptVal* has one processor, so three
handlers, and up to four inputs, so that a handler has to take a second one.

Fairness.  `FairSpec` of `BlockChain` has weak fairness of `Step`, the steps of a
running call: the goroutine that called `ProcessBlock` keeps running.  Nothing is assumed of
deliveries, time, faults and kills.  `ScriptVal` has weak fairness of the caller
and of each handler: the Go scheduler runs every goroutine that can run.

Deadlock is not checked: when every block is settled and the clock has reached
its bound the model stops; `NodeIndex` stops at its bound on nodes, and
`ScriptVal` when the call is over, and the others when every block has been
delivered.

## 4. What the runs found

Numbers 3, 5 and 7 have a run that finds them violated.  The others follow from the
models as they stand, which a property or a hypothesis there takes into account.

1. *The orphan pool overshoots its limit* (`chain.go:300`): `oldestOrphan` is
   not cleared when the orphan it points to is released or expires.  The next
   eviction then removes nothing.  It overshoots by one only: after such an
   eviction the pointer is nil and thus fresh (`PoolBounded`, proved).
2. *The duplicate stake check never fires*: it reads `stakeSeen`, which nothing
   writes.
3. *One bad orphan blocks its siblings*: `processOrphans` takes orphans in the order
   they came and returns on the first error; those that came later stay in the
   pool until they expire, and `ProcessBlock` refuses them as duplicates until
   then.  In `StuckOrphans.cfg` `b` comes before `d`, and does not connect.
4. *BFFastAdd is inherited*: orphans released by a fast added block are
   accepted and connected without the checks it skips, whatever flags they came
   with.  `MainChainIsChecked` says that nothing else gets around them, and takes in
   the descendants of fast added blocks (`MayBeFast`) because of this.
5. *reorganizeChain can panic*: a reorganization cut short by a database error
   leaves its remaining blocks indexed above the end of the main chain.  A
   block above these has more work; there is nothing to detach, and
   `detachNodes.Front().Value` is a nil dereference.
6. *A deep reorganization breaks off half way* (`chain.go:743`): side chain
   nodes stay in memory when the main chain below them is pruned.  For a block
   on such a chain `getReorganizeNodes` finds the oldest nodes in memory where
   it should find the fork.  `reorganizeChain` then disconnects the main chain
   nodes in memory and fails on the first block to connect; the main chain is
   shorter than before, although no block is at fault.  On the same chains
   `getLastBlockIndex` (`ppc.go:92`) drops the error of a parent that cannot be
   loaded, and its caller dereferences nil (`LoseNode`).  It takes a fork of
   2016 blocks below the highest end the main chain has had since the start (not
   the present end: a heavier chain may be shorter), and leaves a main chain that
   is still linked.  `NodeIndex` has it as `LoseNode` and `deepFork`.
7. *The kernel of a side chain block is looked up in the main chain*
   (`kernel.go:697`): coin, block and stake modifier are those of the main chain
   at the time of delivery.  Two nodes that see the same blocks in another order
   come to different verdicts, and to different proof hashes in the meta data.
8. *The coin age of a side chain coinstake* (`ppc.go:305`) uses the time of the
   main chain's block at that height, for the same reason.  A block can be refused
   that its own chain allows (`VerdictIsOfTheBlock` exempts those by
   `StakesSharedCoins`), and one can enter the main chain that its own chain does
   not: in `TxStore.cfg` the block `a5` with `s2`, whose coin is too young on `a`,
   is checked while `b` is the main chain.  `MainChainFits` therefore asks for a
   price that is fair by some chain the node had before the block; with the
   block's own chain there, it is violated.
9. *A block locator of a side chain has no side chain hashes after the first*
   (`blocklocator.go:104`): the loop that should walk down ends at once, although
   the example in the comment on the type lists them.  A fork from the oldest node
   in memory, which is Genesis in the model, counts as none, so that the heights
   of the main chain are used for it (`ForkIsSeen`).
10. *The offset of the clock freezes* when 200 samples were heard, as the comment
   in `mediantime.go` says of Bitcoin Core; `OffsetOfFirstSamples` says which
   samples decide.
11. *A checkpoint can be reorganized away* (`accept.go:106`,
   `checkpoints.go:160`): the cache moves on by one checkpoint a call, and is
   asked twice before a block is accepted.  When a reorganization passes three at
   once, a block between the second and the third with enough work is accepted
   and removes the third, although the comment at `process.go:166` promises to
   prevent "old side chain blocks before the last checkpoint".  Without the
   hypothesis `LagsAtMost`, `CheckpointsAreFinal` fails in `Headers.cfg`, with
   `z5` after `c6`; with it, it is proved.
12. *Before protocol 0.4* a second modifier can be generated in one interval, when
   timestamps go back; since then not (`OneModifierPerInterval`, proved).

## 5. What is proved

Each safety and action property of a run that passes is a theorem, and so is each
refinement.  The theorems hold for every block tree that satisfies the
assumptions of `BlockTree`, every limit, and any number of faults, kills and
restarts, unless a hypothesis says otherwise.

* `BlockTreeProofs` has what the other proofs cite.  `LeastElement`,
  `NaturalInduction` and `ChainInduction` say induction in terms of sets of
  numbers or blocks, since the well-foundedness of `<` can be cited and an
  induction theorem over operators cannot.  `ChainMembers`, `EndOfChain`
  and `NextInChain` say what the ends of a segment of a chain are.
  `SumUnfolds`, `SumTakesAny` and `SumJoins` are about sums over finite sets,
  `PowersUnfold` and `PowersGrow` about powers, and `QueueFacts` and
  `WithoutFacts` about the slices of the orphan pool.
* `OrphanPoolProofs`: `TypeCorrect`, `IndexAlwaysCoherent`, `NeverInBoth` and
  `OrphansBounded`.  The bound is not inductive: a pool at limit + 1 must have
  `oldestOrphan` nil, so that the next cleanup finds a live one to evict.  The
  invariant says so.
* `BlockChainProofs`: `Invariance`, of `Inv` = types, `ChainInv` (linked chain,
  blocks of nodes, work sums) and `CallInvariant`.  The properties of the chain
  are not inductive alone: that `connectBlock` extends the chain needs to know
  that both lists are segments of chains above one common block that the main
  chain still reaches, that cached blocks are not stored, and that orphans and
  the work list of `processOrphans` are apart from and in the index.  One lemma
  for each action.
  * From `Inv`: `ChainStaysLinked`, `NodesKeepBlocks`, `WorkStaysExact`,
    `ReorganizationsInSync`; `ImplementsPool`, the refinement of `OrphanPool`;
    `DryRunsLeaveNoTrace` (what is settled was delivered to stay); `CallsKeepWork`
    (the blocks a reorganization still has to connect end in one with more work
    than the old tip).
  * `OnlyCheckedBlocks`: whatever call works on a block of the index, from whichever
    flags and orphans, is covered by the block's checks or by a fast add below it.
  * `TipStaysALeaf` and `PanicNeedsFault`, if no database call fails: the end of
    the chain has no indexed child outside a reorganization, so a heavier side
    chain always forks below it and the detach list is not empty.
  * `KeepsPromise`, the refinement of `BestChain` (no fault, no kill, and fast adds
    only of blocks that lead to blocks that pass): a refusal
    means a block that is not fully valid, because all of a fully valid chain
    above the fork is cached; and `HeaviestStaysBest`, for kills too.
  * `OrphansAreReleased`, if no database call fails and every block passes its
    checks: between calls no orphan has a known parent.  `StuckOrphans.cfg` shows
    that one bad block is enough to break it.
* `NodeIndexProofs`, in two layers.
  * `Inv` holds whatever was pruned: types, what a parent pointer can lead to
    (`NodesInv`), what a call holds on to (`CallInv`), what the two lists of a
    reorganization are made of (`ListsInv`), and `StoredChainLinked`.  It gives
    `TypeCorrect` and `StoredChain`.
  * `MemInv` adds `deepFork \/ Shallow`.  `Shallow` has the links and the marks of
    all indexed nodes; `WindowInv`, that what is not in memory, or is without its
    parent, is at least `MinMemoryNodes` below `highest`, and that no gap is
    left in the main chain in memory; `WalkInv`, that the nodes a running call
    holds are still those of the index and that its block forks off above what
    may be gone; and `MeetInv`, that the two lists of a reorganization start above
    the same block.  The marks are what makes the walks of `getReorganizeNodes`
    (`WalksMeet`) end at the fork, and `WindowInv` is what makes them get there.
    It gives `MemoryRight`, `PruningBounds` and `ReorganizationGains`.
* `TxStoreProofs`: `Invariance`, of a conjunction for each place a call can be at:
  `ChainInv` (every chain that is known has sound contents), `DeriveInv` (the
  store is the view at some block between the tip and the parent of the block
  being checked, and what is left to undo and redo leads there), `CheckInv`,
  `SpendInv` and `ConnectInv`.  From it: `DerivedView`, `NeverPanics` and
  `TypeCorrect`.  Further invariants on top of it: `PassInv`, what was checked is
  available on the chain (`NoDoubleSpend`, `MainChainFitting`), `FitInv`
  (`VerdictStands`, and `OwnChainFitting`, which says of the coinstakes what
  `MainChainFits` cannot), and `SupplyInv` with the lemmas on sums (`SupplyIsRight`).
* `ScriptValProofs`: `Invariance` and from it `TypeCorrect`, `VerdictIsRight`
  and `NoItemLost`, for any number of inputs and processors.  That the verdict
  is right is not inductive: the loop may end only because each item that was
  handed out is with one handler or counted, and no counted result was an
  error; a busy handler has an item of its own, so the number of items handed
  out is the number counted plus that of the busy handlers.
* `HeaderChainProofs`, first on `MedianTime` alone: `OffsetIsSettled` and
  `MajorityDecides`, for any capacity, any number of sources and any samples.  The
  list and the history agree as long as there is room, and the number of counted
  samples no longer grows after that, because the capacity is even: that is the
  invariant.  `MedianIsMiddle` shows that a median exists, `MajorityAroundMedian`
  that a range with more than half of the samples contains it.
  `ImplementsMedianTime` is a refinement, which brings these over to the running
  node: `OffsetStaysSettled` and `MajorityBounds`.
  * `Invariance`, and from it `TypeCorrect`, `CheckpointsLockIn`,
    `CheckpointsStayFinal` (the two or one calls of `findPreviousCheckpoint` before
    an acceptance make up for a cache that lags), `CurrentIsVerified` (a chain that
    is current by its height has every checkpoint) and `TimesStayBounded` (no
    accepted block or orphan is later than the clock plus both limits).  The cache
    is only right because every known block was compared with the checkpoint of
    its height (`Verified`), so that a chain that is high enough contains it.
  * `MedianAdvances`: the comparison with the median of the parent's window
    keeps the median from going back.  The window grows while the chain is
    shorter than it and moves on after that, and the median of an even number
    is the later of the two in the middle.  Blocks above a fast added one are
    not compared, so the invariant (`Compared`) says which blocks a call with
    the flag can release.
  * `LocatorsFindForks`: by the rounds of the loop, each as far down as the
    steps before it add up to.
* `StakeChainProofs`: the modifiers and the targets are within their ranges
  (`StateInv` = `Inv`, `MetaInv`, `BitsInv`), which gives `TypeCorrect`.
  * `WorkIsAdded` and `RetargetIsRight` come from `CompactRounding`: packing
    rounds down by less than a unit of the last digit, with the sign bit moved
    out of the way, so that a target that is positive stays so and a retarget
    does not cross the old target.
  * `ModifiersAgree`: `MetaIsLocal` says that `MetaOf` reads the chain of the
    block only, when its proof of stake was accepted on the tip; so that the
    meta data is that of a replay (`OwnMetaIsMeta`).
  * `ModifiersAdvance`, for any hashes and timestamps.

A function that recurs over data (the nodes reached over `parent`, sums, powers,
the rounds of the locator and of the selection, the replay of modifiers) is
written as `CHOOSE` of a function that satisfies its equation, so each such proof
shows first that a solution exists, by induction on a set of numbers (`HaveLines`,
`HavePowers`, `AddsHasSolution`, `HaveRounds`, `HaveMetaSteps`), and then
uses the equation.

The assumptions on constants beyond those on the tree, and why the code justifies
them:

* `TxAssumption`, `BodiesAssumption`: finitely many transactions, amounts that are
  not negative, and what `checkBlockSanity` and `CheckTransactionSanity` refuse.
  The exception of BIP 30 for a repeated coinbase that is fully spent is left
  out (`KeepsCoin`).
* `HashAssumption`: a kernel hash is never zero, which stands for "none" in the
  meta data.  `ConfirmedAssumption`: no transaction of a block is later than the
  block, which `checkBlockSanity` refuses.
* `TargetAssumption`: the limit is below 2^256 and the first block within it.
* `LocatorAssumption`: heights fit in the number of entries the wire format
  allows, which with 500 entries is any height.

The hypotheses of the theorems are those that are needed: `Panic.cfg` shows what a
fault does; without the one on fast added blocks (`KeepsPromise`,
`HeaviestStaysBest`) a fast added block passes its
flag on to orphans that do not connect; `StuckOrphans.cfg` shows why
`OrphansAreReleased` asks for good blocks; and `OwnChainFitting` takes the comment at
`ppc.go:276` ("guaranteed to be in main chain by sync-checkpoint") as its
hypothesis `ReorgsAreShort`, because the code looks coins up in the main chain and
nothing in the repository enforces it.  `NoDoubleSpend` and `MainChainFitting` do
without it.

Only model-checked: `EveryCallReturns` and `NoHandlerLeft`, which are liveness
under fairness and out of the prover's reach.  The three runs that expect a
violation show a counterexample, where nothing is to be proved.  That
`BlockChain` and the detailed models agree on what they leave to each other
(section 7) is an argument in this text only.

## 6. Plan

Done: all components of sections 1 and 2 are modelled, checked and proved about as
section 5 says.  Next, in this order:

1. The composition of `NodeIndex` with `BlockChain`: the nodes in memory refine the
   index of `BlockChain` as long as forks are shallow.
2. `TxStore` with the faults of `BlockChain`: a check that is cut short.
3. The clock and the checkpoints under the faults of `BlockChain`.

## 7. Not modelled

* The contents of blocks as bytes, scripts, hashes and signatures: data, and
  libraries.  The rules that are functions of one block (sizes, signature
  operations, amounts in range, merkle root) are left out for that reason.
* `Merkle`: a pure function, recomputed for every block.
* `IsCheckpointCandidate`, `IsKnownOrphan`, `GetOrphanRoot`: read only.
* BIP 34 versions and the finality of transactions; the protocol before 0.3;
  modifier checksums; the bitcoin difficulty rules of `difficulty.go`, which no
  block is checked with.
* `TxStore`, `HeaderChain` and `StakeChain` each leave the other's rules out: a
  rule that refuses more blocks removes behaviours only, and `BlockChain` has
  every set of verdicts.
* Pruned nodes in `HeaderChain` and `BlockLocator`: a chain is shorter there than
  `minMemoryNodes`, as in `BlockChain`.  A locator of a side chain that forks off at
  or below the oldest node in memory takes the heights of the main chain, as one
  that forks at Genesis does.
* The size of a transaction in its fee, and the exact reward of a coinstake.
* `BlockChain` and `NodeIndex` are not composed: in `BlockChain` every block has
  its node in memory, and `NodeIndex` has no orphans, flags, faults or kills
  inside a call.  `NodeIndex` shows that memory agrees with the database as long
  as forks are shallow, which is what `BlockChain` takes for granted.
* `DisableVerify`, `DisableCheckpoints`, notifications, logging, error texts.
