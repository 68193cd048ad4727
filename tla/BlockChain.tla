------------------------------ MODULE BlockChain ------------------------------
(***************************************************************************)
(* A BlockChain instance while its one writer runs ProcessBlock: duplicate *)
(* and orphan handling, acceptance, best chain selection and               *)
(* reorganization against the block database, and the orphans an accepted  *)
(* block releases.  A call runs as a sequence of steps with one database   *)
(* write each, so that a write can fail and the process can stop between   *)
(* any two of them.                                                        *)
(*                                                                         *)
(* The memory index holds every block here: a chain is shorter than        *)
(* minMemoryNodes, so pruneBlockNodes and loadBlockNode have nothing to do *)
(* after GenerateInitialIndex.                                             *)
(***************************************************************************)
EXTENDS BlockTree, Sequences

CONSTANTS
  MaxOrphanBlocks, OrphanLife, NoOrphan, MaxTime,  \* of the orphan pool
  NoBlock,     \* no block, where a variable holds an optional one
  CallsOf,     \* CallsOf[b]: the sets of behavior flags b is delivered with
  FastAcceptable, \* blocks that pass what maybeAcceptBlock checks under BFFastAdd
  MaxFaults,   \* bound of the model: database calls that fail
  MaxCrashes   \* bound of the model: times the process is killed

ASSUME ChainAssumption ==
  /\ NoBlock \notin Blocks
  /\ CallsOf \in [Blocks -> SUBSET SUBSET {"fastAdd", "dryRun"}]
  /\ Acceptable \subseteq FastAcceptable
  /\ FastAcceptable \subseteq Blocks
  /\ MaxFaults \in Nat
  /\ MaxCrashes \in Nat

VARIABLES
  db,           \* the blocks of the database, which holds the main chain
  index,        \* the blocks that have a node in memory
  workSum,      \* node.workSum, 0 for a block without a node
  inMainChain,  \* the blocks whose node has inMainChain set
  bestChain,    \* the block of the bestChain node
  blockCache,   \* the side chain blocks held in memory
  orphans, prevOrphans, oldestOrphan, stakeSeenOrphan, clock,
  pc,           \* where the call of ProcessBlock stands, "idle" between calls
  block,        \* the block maybeAcceptBlock works on
  flags,        \* the flags of the call
  detachNodes,  \* the nodes reorganizeChain has still to disconnect
  attachNodes,  \* the nodes that have still to be connected
  oldTip,       \* bestChain when reorganizeChain started, NoBlock outside it
  processHashes,\* the accepted blocks whose orphans processOrphans looks for
  faults,       \* database calls that failed so far
  crashes       \* times the process was killed so far

nodeVars == <<index, workSum, inMainChain, bestChain, blockCache>>
poolVars == <<orphans, prevOrphans, oldestOrphan, stakeSeenOrphan, clock>>
callVars == <<pc, block, flags, detachNodes, attachNodes, oldTip, processHashes>>
boundVars == <<faults, crashes>>
vars == <<db, nodeVars, poolVars, callVars, boundVars>>

\* The indexed blocks but the one whose fate the running call has yet to settle.
Settled == IF pc \in {"compare", "connect"} THEN index \ {block} ELSE index

Pool == INSTANCE OrphanPool WITH known <- Settled

dryRun == "dryRun" \in flags
fastAdd == "fastAdd" \in flags

-----------------------------------------------------------------------------
\* The end of a call, by which its local variables are gone.
Return ==
  /\ pc' = "idle"
  /\ block' = NoBlock
  /\ flags' = {}
  /\ detachNodes' = {}
  /\ attachNodes' = {}
  /\ oldTip' = NoBlock
  /\ processHashes' = <<>>

\* maybeAcceptBlock has returned nil: processOrphans adds the block to those
\* whose orphans it looks for.
Accepted ==
  /\ pc' = "orphans"
  /\ processHashes' = Append(processHashes, block)
  /\ block' = NoBlock
  /\ detachNodes' = {}
  /\ attachNodes' = {}
  /\ oldTip' = NoBlock
  /\ UNCHANGED flags

\* blockExists
BlockExists(b) == b \in index \cup db

(***************************************************************************)
(* ProcessBlock up to the orphan handling.  A call for a duplicate, for a  *)
(* block that is not sane, or a dry run for an orphan returns and changes  *)
(* nothing.                                                                *)
(***************************************************************************)
ProcessBlock(b, f) ==
  /\ pc = "idle"
  /\ ~BlockExists(b) /\ b \notin Pool!Pool
  /\ b \in Sane
  /\ \/ /\ ~BlockExists(Parent[b])
        /\ "dryRun" \notin f
        /\ UNCHANGED <<nodeVars, callVars>>
        /\ Pool!ProcessOrphan(b)
     \/ /\ BlockExists(Parent[b])
        /\ pc' = "accept"
        /\ block' = b
        /\ flags' = f
        /\ UNCHANGED <<nodeVars, poolVars, detachNodes, attachNodes, oldTip,
                       processHashes>>
  /\ UNCHANGED <<db, boundVars>>

-----------------------------------------------------------------------------
\* Variant: the block is compared instead of its parent.
IsBestChain == block = bestChain

ExtendsBestChain == Parent[block] = bestChain

\* The contextual checks of maybeAcceptBlock, of which BFFastAdd leaves out those of
\* difficulty, timestamp, finality and version.
IsAcceptable == block \in IF fastAdd THEN FastAcceptable ELSE Acceptable

\* The work sums when the node of b has been created.
WithWorkSum(b) == [workSum EXCEPT ![b] = workSum[Parent[b]] + Trust[b]]

\* maybeAcceptBlock or connectBestChain returns an error before it changes
\* anything; orphans that were still to be processed stay in the pool.
RejectBlock ==
  /\ pc = "accept"
  /\ \/ ~IsAcceptable
     \/ ExtendsBestChain /\ ~fastAdd /\ block \notin Connectable
  /\ Return
  /\ UNCHANGED <<db, nodeVars, poolVars, boundVars>>

\* connectBestChain for a block that extends the main chain.
ExtendMainChain ==
  /\ pc = "accept"
  /\ IsAcceptable
  /\ ExtendsBestChain
  /\ fastAdd \/ block \in Connectable
  /\ IF dryRun THEN Return
     ELSE /\ pc' = "connect"
          /\ attachNodes' = {block}
          /\ UNCHANGED <<block, flags, detachNodes, oldTip, processHashes>>
  /\ UNCHANGED <<db, nodeVars, poolVars, boundVars>>

\* connectBestChain for any other block: it goes to the side chain cache, in a
\* dry run too.
AddSideBlock ==
  /\ pc = "accept"
  /\ IsAcceptable
  /\ ~ExtendsBestChain
  /\ index' = index \cup {block}
  /\ workSum' = WithWorkSum(block)
  /\ inMainChain' = inMainChain \ {block}
  /\ blockCache' = blockCache \cup {block}
  /\ pc' = "compare"
  /\ UNCHANGED <<db, bestChain, poolVars, block, flags, detachNodes, attachNodes,
                 oldTip, processHashes, boundVars>>

-----------------------------------------------------------------------------
\* Variants: the longer chain wins; the later of two equal chains wins; the
\* comparison is turned around.
HasMoreBlocks == Height[block] > Height[bestChain]
HasAsMuchWork == workSum[block] >= workSum[bestChain]
HasLessWork == workSum[block] < workSum[bestChain]

HasMoreWork == workSum[block] > workSum[bestChain]

\* getReorganizeNodes
ForkPoint(b) == Highest(Ancestry[b] \cap (inMainChain \cup {Genesis}))
NodesToAttach(b) == ChainAbove(b, ForkPoint(b))

\* Variant: the walk down the main chain misses the common ancestor.
NodesToRoot(b) == ChainAbove(bestChain, Genesis)

NodesToDetach(b) ==
  IF ForkPoint(b) \in Ancestry[bestChain] THEN ChainAbove(bestChain, ForkPoint(b))
  ELSE ChainAbove(bestChain, Genesis)

\* Variant: the blocks to attach are not checked.
AreCached == NodesToAttach(block) \subseteq blockCache

\* The two loops of reorganizeChain that look for errors beforehand.
CanReorganize ==
  /\ NodesToAttach(block) \subseteq blockCache
  /\ NodesToAttach(block) \subseteq Connectable

\* The side chain does not have more work than the main chain.
KeepMainChain ==
  /\ pc = "compare" /\ ~dryRun
  /\ ~HasMoreWork
  /\ Accepted
  /\ UNCHANGED <<db, nodeVars, poolVars, boundVars>>

\* Variant: the cache drops the block when it is refused, the index does not.
RefuseAndDrop ==
  /\ pc = "compare" /\ ~dryRun
  /\ HasMoreWork
  /\ ~CanReorganize
  /\ blockCache' = blockCache \ {block}
  /\ Return
  /\ UNCHANGED <<db, index, workSum, inMainChain, bestChain, poolVars, boundVars>>

\* reorganizeChain fails a check.  The block stays in the index and the cache.
RefuseReorganize ==
  /\ pc = "compare" /\ ~dryRun
  /\ HasMoreWork
  /\ ~CanReorganize
  /\ Return
  /\ UNCHANGED <<db, nodeVars, poolVars, boundVars>>

StartReorganize ==
  /\ pc = "compare" /\ ~dryRun
  /\ HasMoreWork
  /\ CanReorganize
  /\ pc' = "connect"
  /\ detachNodes' = NodesToDetach(block)
  /\ attachNodes' = NodesToAttach(block)
  /\ oldTip' = bestChain
  /\ UNCHANGED <<db, nodeVars, poolVars, block, flags, processHashes, boundVars>>

\* Variant: the deferred function is missing.
EndDryRun ==
  /\ pc = "compare" /\ dryRun
  /\ Return
  /\ UNCHANGED <<db, nodeVars, poolVars, boundVars>>

\* The deferred function of connectBestChain, however the dry run came out.
UndoDryRun ==
  /\ pc = "compare" /\ dryRun
  /\ index' = index \ {block}
  /\ workSum' = [workSum EXCEPT ![block] = 0]
  /\ blockCache' = blockCache \ {block}
  /\ Return
  /\ UNCHANGED <<db, inMainChain, bestChain, poolVars, boundVars>>

-----------------------------------------------------------------------------
\* Variant: the block above the named one stays.
DropAfterNext(b) == {c \in db : Height[c] <= Height[b] + 1}

\* What DropAfterBlockBySha leaves in the database.
DropAfter(b) == {c \in db : Height[c] <= Height[b]}

\* disconnectBlock for the next node of the detach list.
DisconnectBlock ==
  /\ pc = "connect"
  /\ detachNodes # {}
  /\ LET n == Highest(detachNodes)
     IN  IF n # bestChain THEN Return /\ UNCHANGED <<db, nodeVars>>
         ELSE /\ db' = DropAfter(Parent[n])
              /\ inMainChain' = inMainChain \ {n}
              /\ blockCache' = blockCache \cup {n}
              /\ bestChain' = Parent[n]
              /\ detachNodes' = detachNodes \ {n}
              /\ UNCHANGED <<index, workSum, pc, block, flags, attachNodes, oldTip,
                             processHashes>>
  /\ UNCHANGED <<poolVars, boundVars>>

\* At its end reorganizeChain logs the old head, the first node of the detach list:
\* when that was empty, because the old tip is still in the chain, it panics.
FinishReorganize ==
  IF oldTip \in db
  THEN pc' = "panic" /\ UNCHANGED <<block, flags, detachNodes, attachNodes, oldTip,
                                     processHashes>>
  ELSE Accepted

\* connectBlock for the next node of the attach list, or for the block that extends
\* the main chain.
ConnectBlock ==
  /\ pc = "connect"
  /\ detachNodes = {}
  /\ LET n == Lowest(attachNodes)
     IN  IF Parent[n] # bestChain THEN Return /\ UNCHANGED <<db, nodeVars>>
         ELSE /\ db' = db \cup {n}
              /\ index' = index \cup {n}
              /\ workSum' = WithWorkSum(n)
              /\ inMainChain' = inMainChain \cup {n}
              /\ bestChain' = n
              /\ blockCache' = blockCache \ {n}
              /\ IF attachNodes # {n}
                 THEN /\ attachNodes' = attachNodes \ {n}
                      /\ UNCHANGED <<pc, block, flags, detachNodes, oldTip,
                                     processHashes>>
                 ELSE FinishReorganize
  /\ UNCHANGED <<poolVars, boundVars>>

-----------------------------------------------------------------------------
\* Variant: the orphan is not removed from the pool.
ProcessAndKeepOrphan(o) ==
  /\ pc = "orphans"
  /\ prevOrphans[Head(processHashes)] # <<>>
  /\ o = Head(prevOrphans[Head(processHashes)])
  /\ pc' = "accept"
  /\ block' = o
  /\ UNCHANGED <<db, nodeVars, poolVars, flags, detachNodes, attachNodes, oldTip,
                 processHashes, boundVars>>

\* processOrphans: the first orphan of the block at the head of the list is accepted.
ProcessNextOrphan(o) ==
  /\ pc = "orphans"
  /\ pc' = "accept"
  /\ block' = o
  /\ UNCHANGED <<db, nodeVars, flags, detachNodes, attachNodes, oldTip,
                 processHashes, boundVars>>
  /\ Pool!TakeOrphan(Head(processHashes), o)

\* Variants: the orphans of the accepted orphans are left alone; the block stays
\* at the head of the list.
EndWithFirstHash ==
  /\ pc = "orphans"
  /\ prevOrphans[Head(processHashes)] = <<>>
  /\ Return
  /\ UNCHANGED <<db, nodeVars, poolVars, boundVars>>

SameProcessHash ==
  /\ pc = "orphans"
  /\ prevOrphans[Head(processHashes)] = <<>>
  /\ UNCHANGED vars

\* No orphan waits for that block any more.
NextProcessHash ==
  /\ pc = "orphans"
  /\ prevOrphans[Head(processHashes)] = <<>>
  /\ IF Tail(processHashes) = <<>> THEN Return
     ELSE /\ processHashes' = Tail(processHashes)
          /\ UNCHANGED <<pc, block, flags, detachNodes, attachNodes, oldTip>>
  /\ UNCHANGED <<db, nodeVars, poolVars, boundVars>>

-----------------------------------------------------------------------------
\* A database call of the running step fails and the error is returned.
FailDatabaseCall ==
  /\ \/ pc \in {"accept", "connect"}
     \/ pc = "compare" /\ ~dryRun /\ HasMoreWork
  /\ faults < MaxFaults
  /\ faults' = faults + 1
  /\ Return
  /\ UNCHANGED <<db, nodeVars, poolVars, crashes>>

\* The process is killed, or has panicked; a new one calls New and
\* GenerateInitialIndex on the database.
Restart ==
  /\ \/ crashes < MaxCrashes /\ crashes' = crashes + 1
     \/ pc = "panic" /\ UNCHANGED crashes
  /\ index' = db
  /\ workSum' = [b \in Blocks |-> IF b \in db THEN workSum[b] ELSE 0]
  /\ inMainChain' = db
  /\ bestChain' = Highest(db)
  /\ blockCache' = {}
  /\ Return
  /\ UNCHANGED <<db, faults>>
  /\ Pool!Restart

Tick ==
  /\ pc = "idle"
  /\ UNCHANGED <<db, nodeVars, callVars, boundVars>>
  /\ Pool!Tick

Init ==
  /\ db = {Genesis}
  /\ index = {Genesis}
  /\ workSum = [b \in Blocks |-> IF b = Genesis THEN Trust[Genesis] ELSE 0]
  /\ inMainChain = {Genesis}
  /\ bestChain = Genesis
  /\ blockCache = {}
  /\ pc = "idle"
  /\ block = NoBlock
  /\ flags = {}
  /\ detachNodes = {}
  /\ attachNodes = {}
  /\ oldTip = NoBlock
  /\ processHashes = <<>>
  /\ faults = 0
  /\ crashes = 0
  /\ Pool!Init

\* The steps of a running call.
Step ==
  \/ RejectBlock \/ ExtendMainChain \/ AddSideBlock
  \/ KeepMainChain \/ RefuseReorganize \/ StartReorganize \/ UndoDryRun
  \/ DisconnectBlock \/ ConnectBlock
  \/ \E o \in Blocks : ProcessNextOrphan(o)
  \/ NextProcessHash

Next ==
  \/ \E b \in Blocks \ {Genesis} : \E f \in CallsOf[b] : ProcessBlock(b, f)
  \/ Step
  \/ FailDatabaseCall
  \/ Restart
  \/ Tick

Spec == Init /\ [][Next]_vars

\* The goroutine that called ProcessBlock keeps running.
FairSpec == Spec /\ WF_vars(Step)
-----------------------------------------------------------------------------
\* Type invariant; ImplementsOrphanPool has the rest about the orphan pool.
TypeOK ==
  /\ db \subseteq Blocks /\ Genesis \in db
  /\ index \subseteq Blocks
  /\ workSum \in [Blocks -> Nat]
  /\ inMainChain \subseteq Blocks
  /\ bestChain \in Blocks
  /\ blockCache \subseteq Blocks
  /\ Pool!Pool \subseteq Blocks \ {Genesis}
  /\ prevOrphans \in [Blocks -> Seq(Blocks)]
  /\ pc \in {"idle", "accept", "compare", "connect", "orphans", "panic"}
  /\ block \in Blocks \cup {NoBlock}
  /\ flags \subseteq {"fastAdd", "dryRun"}
  /\ detachNodes \subseteq Blocks
  /\ attachNodes \subseteq Blocks
  /\ oldTip \in Blocks \cup {NoBlock}
  /\ processHashes \in Seq(Blocks)
  /\ faults \in 0 .. MaxFaults
  /\ crashes \in 0 .. MaxCrashes

(***************************************************************************)
(* Between any two database writes, and so after any failure or crash, the *)
(* database holds exactly the chain from Genesis to the block bestChain    *)
(* names, and the nodes flagged inMainChain are those of that chain.       *)
(***************************************************************************)
MainChainLinked == db = Ancestry[bestChain] /\ inMainChain = db

(***************************************************************************)
(* Every indexed block is stored in exactly one place: in the database, or *)
(* in the side chain cache, where reorganizeChain will look for it; and    *)
(* the parent of an indexed block is indexed.                              *)
(***************************************************************************)
EveryNodeHasItsBlock ==
  /\ index = db \cup blockCache
  /\ db \cap blockCache = {}
  /\ \A b \in index \ {Genesis} : Parent[b] \in index

(***************************************************************************)
(* The work sums that are compared to choose the best chain are the work   *)
(* of whole chains, through side chains, reorganizations and restarts.     *)
(***************************************************************************)
WorkSumsExact == \A b \in index : workSum[b] = Work[b]

(***************************************************************************)
(* reorganizeChain expects its lists "in sync with the end of the current  *)
(* best chain" and checks every error "before ever modifying the chain":   *)
(* once it has started, disconnectBlock always meets the end of the main   *)
(* chain and connectBlock always extends it with a cached block.           *)
(***************************************************************************)
ReorganizeInSync ==
  pc = "connect" =>
    /\ detachNodes # {} => Highest(detachNodes) = bestChain
    /\ detachNodes = {} => Parent[Lowest(attachNodes)] = bestChain
    /\ attachNodes \subseteq blockCache \cup {block}
    /\ attachNodes \cap db = {}

(***************************************************************************)
(* What the steps of a call assume of each other's work: the block of the  *)
(* call is new and its parent is indexed; a reorganization stands at a     *)
(* fork f of the main chain and the chain of the block, with the blocks    *)
(* above f on the one side to detach and on the other to attach; and the   *)
(* orphans of every block in the work list of processOrphans can be        *)
(* accepted, because that block is indexed and they are not.               *)
(***************************************************************************)
CallInvariant ==
  /\ pc \in {"accept", "compare", "connect"} =>
       /\ block \in Blocks \ {Genesis}
       /\ block \notin db \cup Pool!Pool
       /\ Parent[block] \in index
  /\ pc = "accept" => block \notin index
  /\ pc = "compare" =>
       /\ block \in blockCache
       /\ \A b \in index \ {Genesis} : Parent[b] # block
  /\ pc = "connect" =>
       /\ ~dryRun
       /\ attachNodes \subseteq blockCache \cup {block}
       /\ \E f \in Ancestry[bestChain] \cap Ancestry[block] :
            /\ f # block
            /\ detachNodes = ChainAbove(bestChain, f)
            /\ attachNodes = ChainAbove(block, f)
  /\ pc \notin {"connect", "panic"} => detachNodes = {}
  /\ pc = "idle" \/ dryRun => processHashes = <<>>
  /\ pc = "orphans" => processHashes # <<>>
  /\ \A i \in DOMAIN processHashes : processHashes[i] \in index
  /\ Pool!IndexCoherent
  /\ Pool!Pool \cap index = {}

(***************************************************************************)
(* While no database call fails, no block hangs in the index above the end *)
(* of the main chain: there is never a child of bestChain that the node    *)
(* has stored and yet not connected, a state from which a later side chain *)
(* block would start a reorganization with nothing to detach.              *)
(***************************************************************************)
TipHasNoChild ==
  pc \notin {"connect", "panic"} => \A b \in index \ {Genesis} : Parent[b] # bestChain

\* A call may accept b under BFFastAdd: the flag comes with b, or with an ancestor that
\* releases b from the orphan pool.
MayBeFast(b) == \E c \in Ancestry[b] : \E f \in CallsOf[c] : "fastAdd" \in f

(***************************************************************************)
(* No block enters the main chain, directly, through a reorganization or   *)
(* from the orphan pool, unless the checks of maybeAcceptBlock and         *)
(* checkConnectBlock hold of it.  What escapes them is no more than the    *)
(* blocks delivered with BFFastAdd and their descendants, because the      *)
(* flags of a call are those of the orphans it releases.                   *)
(***************************************************************************)
MainChainIsChecked == \A b \in db : b \in Acceptable \cap Connectable \/ MayBeFast(b)

(***************************************************************************)
(* A dry run leaves no trace: between calls, the index holds only blocks   *)
(* that were delivered by a call without BFDryRun.                         *)
(***************************************************************************)
DryRunLeavesNoTrace ==
  pc = "idle" => \A b \in index \ {Genesis} : \E f \in CallsOf[b] : "dryRun" \notin f

(***************************************************************************)
(* reorganizeChain modifies the chain only for more work: while it runs,   *)
(* the end of the chain is on its way from the old tip to a block with     *)
(* more work, and a call that ends without an error never lowers the work. *)
(***************************************************************************)
WorkNeverDrops ==
  [][faults' = faults /\ crashes' = crashes /\ pc' \in {"idle", "orphans"}
       => workSum'[bestChain'] >=
            workSum[IF oldTip = NoBlock THEN bestChain ELSE oldTip]]_vars

(***************************************************************************)
(* processOrphans repeats "until there are no more": between calls, every  *)
(* block in the orphan pool waits for a block that is not known.           *)
(***************************************************************************)
OrphansWaitForParent ==
  pc = "idle" => \A o \in Pool!Pool : Parent[o] \notin index

\* The panic in reorganizeChain is never reached: it always finds a node in
\* the list of detached nodes when it names "the (now) old fork".
NoPanic == pc # "panic"

\* Every call of ProcessBlock returns.
EveryCallReturns == pc # "idle" ~> pc = "idle"

\* The chain keeps the promise of BestChain: a reorganization takes effect at
\* once, when its last block is connected.
Promise ==
  INSTANCE BestChain WITH tree <- Settled,
                          tip <- IF oldTip = NoBlock THEN bestChain ELSE oldTip
ImplementsBestChain == Promise!Spec

(***************************************************************************)
(* While no database call fails, the main chain of the node ends, between  *)
(* any two steps, at the heaviest fully valid block it has settled on.     *)
(***************************************************************************)
HeaviestIsBest == Promise!HeaviestIsTip

\* The chain uses the orphan pool the way OrphanPool says it may.
ImplementsOrphanPool == Pool!Spec
=============================================================================
