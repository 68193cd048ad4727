------------------------------ MODULE NodeIndex ------------------------------
(***************************************************************************)
(* The sparse index of block nodes: only the end of the main chain is in   *)
(* memory, older nodes are pruned before a node is created, and loaded     *)
(* again from the database when a check walks back far enough.  Nodes are  *)
(* objects here: <<h, k>> is the k-th node created for the block h since   *)
(* the start, because a pruned node can still be referred to after another *)
(* one was loaded for its block.                                           *)
(*                                                                         *)
(* One call of maybeAcceptBlock runs at a time, for blocks that pass every *)
(* check and with no behavior flags; BlockChain has the rest.              *)
(***************************************************************************)
EXTENDS BlockTree, SequencesExt

CONSTANTS
  MinMemoryNodes,  \* minMemoryNodes
  NoNode,          \* the nil node
  NoBlock,         \* the zero hash, which the genesis block names as its parent
  MaxNodes         \* bound of the model: nodes created for one block

ASSUME IndexAssumption ==
  /\ MinMemoryNodes \in Nat \ {0}
  /\ MaxNodes \in Nat \ {0}
  /\ NoBlock \notin Blocks
  /\ NoNode \notin Blocks \X (1..MaxNodes)

Nodes == Blocks \X (1..MaxNodes)
HashOf(n) == n[1]
ParentHash(h) == IF h = Genesis THEN NoBlock ELSE Parent[h]

VARIABLES
  db,           \* the blocks of the database
  created,      \* how many nodes were created for each block
  parent,       \* node.parent
  children,     \* node.children; their order is never used
  inMainChain,  \* the nodes with inMainChain set
  index,        \* the node of each block, NoNode if it has none
  depNodes,     \* for each hash, the nodes registered as children of that block
  bestChain,    \* the node of that name
  blockCache,   \* the side chain blocks held in memory
  pc,           \* where the call of maybeAcceptBlock stands
  block,        \* the block of the call
  prevNode,     \* the node of its parent, as maybeAcceptBlock found it
  iterNode,     \* the node a check has walked back to
  detachNodes,  \* what reorganizeChain has still to disconnect, in order
  attachNodes,  \* and to connect
  oldTip,       \* the end of the main chain when the reorganization started
  highest,      \* history: the greatest height the end of the main chain has had
                \* since the start
  deepFork      \* history: some block since the start forked off MinMemoryNodes
                \* blocks or more below that height

memVars == <<parent, children, inMainChain, index, depNodes>>
reorgVars == <<detachNodes, attachNodes, oldTip>>
vars == <<db, created, memVars, bestChain, blockCache, pc, block, prevNode, iterNode,
          reorgVars, highest, deepFork>>

\* The nodes that can be reached from n over parent, n first.
Line(n) ==
  LET line[m \in Nodes] ==
        IF parent[m] = NoNode THEN <<m>> ELSE <<m>> \o line[parent[m]]
  IN  line[n]

Indexed(h) == index[h] # NoNode

-----------------------------------------------------------------------------
\* The next node object for a block; there is a bound on their number.
NewNode(h) == <<h, created[h] + 1>>
Creates(h) ==
  /\ created[h] < MaxNodes
  /\ created' = [created EXCEPT ![h] = @ + 1]

\* loadBlockNode finds a place for the node of h: below a node in memory, above
\* nodes that depend on it, or anywhere if it is the first one.
CanLoad(h) ==
  /\ h \in db
  /\ \/ h # Genesis /\ Indexed(Parent[h])
     \/ depNodes[h] # <<>>
     \/ \A c \in Blocks : ~Indexed(c)

\* Variant: the nodes that depend on the loaded one are not connected to it.
LoadUnlinked(h) ==
  /\ CanLoad(h)
  /\ Creates(h)
  /\ index' = [index EXCEPT ![h] = NewNode(h)]
  /\ inMainChain' = inMainChain \cup {NewNode(h)}
  /\ depNodes' = [depNodes EXCEPT ![ParentHash(h)] = Append(@, NewNode(h))]
  /\ UNCHANGED <<parent, children>>

\* loadBlockNode for a block it finds a place for.
LoadBlockNode(h) ==
  LET n == NewNode(h)
      dependents == ToSet(depNodes[h])
  IN  /\ CanLoad(h)
      /\ Creates(h)
      /\ index' = [index EXCEPT ![h] = n]
      /\ inMainChain' = inMainChain \cup {n}
      /\ depNodes' = [depNodes EXCEPT ![ParentHash(h)] = Append(@, n)]
      /\ IF h # Genesis /\ Indexed(Parent[h])
         THEN /\ parent' = [parent EXCEPT ![n] = index[Parent[h]]]
              /\ children' = [children EXCEPT ![index[Parent[h]]] = @ \cup {n}]
         ELSE /\ parent' = [m \in Nodes |-> IF m \in dependents THEN n ELSE parent[m]]
              /\ children' = [children EXCEPT ![n] = dependents]

\* The end of a call, by which its local variables are gone.
Return ==
  /\ pc' = "idle"
  /\ block' = NoBlock
  /\ prevNode' = NoNode
  /\ iterNode' = NoNode
  /\ detachNodes' = <<>>
  /\ attachNodes' = <<>>
  /\ oldTip' = NoBlock

-----------------------------------------------------------------------------
\* The main chain block a block forks from, and whether nodes as low may have been
\* pruned, now or when the end of the main chain was higher.
ForkBlock(b) == Highest(Ancestry[b] \cap db)
ForksDeep(b) == Height[ForkBlock(b)] + MinMemoryNodes <= highest

(***************************************************************************)
(* maybeAcceptBlock gets the node of the parent, from the index or the     *)
(* database.  When the parent is in the database but has no place in       *)
(* memory the call returns an error and nothing has changed.               *)
(***************************************************************************)
AcceptBlock(b) ==
  /\ pc = "idle"
  /\ ~Indexed(b) /\ b \notin db
  /\ \/ /\ Indexed(Parent[b])
        /\ prevNode' = index[Parent[b]]
        /\ UNCHANGED <<created, memVars>>
     \/ /\ ~Indexed(Parent[b])
        /\ prevNode' = NewNode(Parent[b])
        /\ LoadBlockNode(Parent[b])
  /\ pc' = "check"
  /\ block' = b
  /\ iterNode' = prevNode'
  /\ deepFork' = (deepFork \/ ForksDeep(b))
  /\ UNCHANGED <<db, bestChain, blockCache, reorgVars, highest>>

(***************************************************************************)
(* A check walks back from the parent with getPrevNodeFromNode, as far as  *)
(* its data make it.  Over nodes in memory nothing changes; at the last    *)
(* one the node before it is loaded.                                       *)
(***************************************************************************)
LookBack ==
  LET front == Last(Line(iterNode))
  IN  /\ pc \in {"check", "recheck"}
      /\ HashOf(front) # Genesis
      /\ LoadBlockNode(Parent[HashOf(front)])
      /\ iterNode' = NewNode(Parent[HashOf(front)])
      /\ UNCHANGED <<db, bestChain, blockCache, pc, block, prevNode, reorgVars, highest,
                     deepFork>>

\* The next check starts at the parent again.
NextCheck ==
  /\ pc = "check"
  /\ iterNode # prevNode
  /\ iterNode' = prevNode
  /\ UNCHANGED <<db, created, memVars, bestChain, blockCache, pc, block, prevNode,
                 reorgVars, highest, deepFork>>

\* A check fails, for a reason of its own or because calcPastMedianTime or
\* getLastStakeModifier got an error when it walked back.  What was loaded stays.
RejectBlock ==
  /\ pc \in {"check", "recheck"}
  /\ Return
  /\ UNCHANGED <<db, created, memVars, bestChain, blockCache, highest, deepFork>>

\* getLastBlockIndex drops the error of a node that cannot be loaded, and its
\* caller dereferences the nil node it returns.
LoseNode ==
  LET front == Last(Line(iterNode))
  IN  /\ pc = "check"
      /\ HashOf(front) # Genesis
      /\ ~CanLoad(Parent[HashOf(front)])
      /\ pc' = "panic"
      /\ UNCHANGED <<db, created, memVars, bestChain, blockCache, block, prevNode,
                     iterNode, reorgVars, highest, deepFork>>

\* Variant: one node too many is kept.
PrunedButOne == LET line == Line(bestChain)
                IN  {line[i] : i \in (MinMemoryNodes + 2)..Len(line)}

\* The nodes behind the last MinMemoryNodes of the main chain.
Pruned == LET line == Line(bestChain)
          IN  {line[i] : i \in (MinMemoryNodes + 1)..Len(line)}

Unlinked(gone) ==
  [m \in Nodes |-> IF \E n \in gone : m \in children[n] THEN NoNode ELSE parent[m]]

\* removeChildNode drops the first node with the hash of the pruned one.
WithoutPruned(h, gone) ==
  LET mine == {i \in DOMAIN depNodes[h] :
                 \E n \in gone : ParentHash(HashOf(n)) = h /\ HashOf(depNodes[h][i]) = HashOf(n)}
  IN  IF mine = {} THEN depNodes[h]
      ELSE RemoveAt(depNodes[h], CHOOSE i \in mine : \A j \in mine : i <= j)

\* pruneBlockNodes with removeBlockNode for each node, oldest first.
PruneBlockNodes ==
  LET gone == Pruned
  IN  /\ pc = "check"
      /\ index' = [h \in Blocks |-> IF \E n \in gone : HashOf(n) = h THEN NoNode ELSE index[h]]
      /\ parent' = Unlinked(gone)
      /\ children' = [m \in Nodes |-> IF m \in gone THEN {} ELSE children[m]]
      /\ depNodes' = [h \in Blocks \cup {NoBlock} |-> WithoutPruned(h, gone)]
      /\ pc' = "reload"
      /\ UNCHANGED <<db, created, inMainChain, bestChain, blockCache, block, prevNode,
                     iterNode, reorgVars, highest, deepFork>>

(***************************************************************************)
(* AddToBlockIndex after the pruning computes the stake modifier once      *)
(* more, and that starts by asking for the node of the parent, which may   *)
(* have been pruned; prevNode stays what it was.                           *)
(***************************************************************************)
ReloadParent ==
  /\ pc = "reload"
  /\ \/ /\ Indexed(Parent[block])
        /\ pc' = "recheck"
        /\ iterNode' = index[Parent[block]]
        /\ UNCHANGED <<created, memVars, block, prevNode, reorgVars>>
     \/ /\ ~Indexed(Parent[block])
        /\ pc' = "recheck"
        /\ iterNode' = NewNode(Parent[block])
        /\ LoadBlockNode(Parent[block])
        /\ UNCHANGED <<block, prevNode, reorgVars>>
     \/ /\ ~Indexed(Parent[block])
        /\ ~CanLoad(Parent[block])
        /\ Return
        /\ UNCHANGED <<created, memVars>>
  /\ UNCHANGED <<db, bestChain, blockCache, highest, deepFork>>

-----------------------------------------------------------------------------
\* The new node, linked to prevNode.
NewBlockNode(n) ==
  /\ Creates(block)
  /\ parent' = [parent EXCEPT ![n] = prevNode]
  /\ children' = [children EXCEPT ![prevNode] = @ \cup {n}]
  /\ index' = [index EXCEPT ![block] = n]

Higher(h) == Max({highest, Height[h]})

\* connectBestChain for a block that extends the main chain, with connectBlock.
ExtendMainChain ==
  /\ pc = "recheck"
  /\ HashOf(prevNode) = HashOf(bestChain)
  /\ NewBlockNode(NewNode(block))
  /\ depNodes' = [depNodes EXCEPT ![Parent[block]] = Append(@, NewNode(block))]
  /\ inMainChain' = inMainChain \cup {NewNode(block)}
  /\ db' = db \cup {block}
  /\ bestChain' = NewNode(block)
  /\ highest' = Higher(block)
  /\ Return
  /\ UNCHANGED <<blockCache, deepFork>>

\* connectBestChain for any other block; depNodes does not learn of it.
AddSideBlock ==
  /\ pc = "recheck"
  /\ HashOf(prevNode) # HashOf(bestChain)
  /\ NewBlockNode(NewNode(block))
  /\ blockCache' = blockCache \cup {block}
  /\ pc' = "compare"
  /\ UNCHANGED <<db, inMainChain, depNodes, bestChain, block, prevNode, iterNode,
                 reorgVars, highest, deepFork>>

(***************************************************************************)
(* getReorganizeNodes walks back from the new node to a node of the main   *)
(* chain, and from the end of the main chain to that node's hash.  Either  *)
(* walk stops at a node without a parent in memory, which is not put on    *)
(* the list.                                                               *)
(***************************************************************************)
Before(line, stops) ==
  SubSeq(line, 1, SelectInSeq(line, LAMBDA m : m \in stops \/ parent[m] = NoNode) - 1)
ForkNode(n) == LET line == Line(n)
               IN  line[SelectInSeq(line, LAMBDA m : m \in inMainChain \/ parent[m] = NoNode)]
NodesToAttach(n) == Reverse(Before(Line(n), inMainChain))

\* Variant: the walk does not stop at the common ancestor.
NodesToFront(n) == Before(Line(bestChain), {})

NodesToDetach(n) ==
  Before(Line(bestChain), {m \in Nodes : HashOf(m) = HashOf(ForkNode(n))})

\* The rest of connectBestChain for a side chain block.
CompareWork ==
  LET n == index[block]
      attach == NodesToAttach(n)
  IN  /\ pc = "compare"
      /\ IF /\ Work[block] > Work[HashOf(bestChain)]
            /\ \A i \in DOMAIN attach : HashOf(attach[i]) \in blockCache
         THEN /\ pc' = "reorganize"
              /\ attachNodes' = attach
              /\ detachNodes' = NodesToDetach(n)
              /\ oldTip' = HashOf(bestChain)
              /\ UNCHANGED <<block, prevNode, iterNode>>
         ELSE Return
      /\ UNCHANGED <<db, created, memVars, bestChain, blockCache, highest, deepFork>>

DisconnectBlock ==
  LET n == Head(detachNodes)
  IN  /\ pc = "reorganize"
      /\ detachNodes # <<>>
      /\ db' = {h \in db : Height[h] < Height[HashOf(n)]}
      /\ inMainChain' = inMainChain \ {n}
      /\ blockCache' = blockCache \cup {HashOf(n)}
      /\ bestChain' = parent[n]
      /\ detachNodes' = Tail(detachNodes)
      /\ UNCHANGED <<created, parent, children, index, depNodes, pc, block, prevNode,
                     iterNode, attachNodes, oldTip, highest, deepFork>>

\* Variant: connectBlock takes any block.
IsNode(n) == n \in Nodes

ExtendsMainChain(n) == Parent[HashOf(n)] = HashOf(bestChain)

(***************************************************************************)
(* connectBlock returns an error for a block that does not extend the main *)
(* chain.  At the end reorganizeChain needs a first node of the detach     *)
(* list, and there was none if the old tip is still in the chain.          *)
(***************************************************************************)
ConnectBlock ==
  LET n == Head(attachNodes)
  IN  /\ pc = "reorganize"
      /\ detachNodes = <<>>
      /\ UNCHANGED deepFork
      /\ IF ~ExtendsMainChain(n)
         THEN Return /\ UNCHANGED <<db, created, memVars, bestChain, blockCache, highest>>
         ELSE /\ db' = db \cup {HashOf(n)}
              /\ inMainChain' = inMainChain \cup {n}
              /\ index' = [index EXCEPT ![HashOf(n)] = n]
              /\ depNodes' = [depNodes EXCEPT ![Parent[HashOf(n)]] = Append(@, n)]
              /\ bestChain' = n
              /\ highest' = Higher(HashOf(n))
              /\ blockCache' = blockCache \ {HashOf(n)}
              /\ IF Len(attachNodes) > 1
                 THEN /\ attachNodes' = Tail(attachNodes)
                      /\ UNCHANGED <<pc, block, prevNode, iterNode, detachNodes, oldTip>>
                 ELSE IF oldTip \in db
                      THEN /\ pc' = "panic"
                           /\ UNCHANGED <<block, prevNode, iterNode, reorgVars>>
                      ELSE Return
              /\ UNCHANGED <<created, parent, children>>

-----------------------------------------------------------------------------
\* New and GenerateInitialIndex with a new database.
Init ==
  /\ db = {Genesis}
  /\ created = [h \in Blocks |-> IF h = Genesis THEN 1 ELSE 0]
  /\ parent = [m \in Nodes |-> NoNode]
  /\ children = [m \in Nodes |-> {}]
  /\ inMainChain = {<<Genesis, 1>>}
  /\ index = [h \in Blocks |-> IF h = Genesis THEN <<Genesis, 1>> ELSE NoNode]
  /\ depNodes = [h \in Blocks \cup {NoBlock} |->
                   IF h = NoBlock THEN <<<<Genesis, 1>>>> ELSE <<>>]
  /\ bestChain = <<Genesis, 1>>
  /\ blockCache = {}
  /\ pc = "idle" /\ block = NoBlock
  /\ prevNode = NoNode /\ iterNode = NoNode
  /\ detachNodes = <<>> /\ attachNodes = <<>> /\ oldTip = NoBlock
  /\ highest = 0 /\ deepFork = FALSE

(***************************************************************************)
(* The process ends between two calls, or by a panic, and starts again:    *)
(* GenerateInitialIndex loads the last blocks of the main chain, one more  *)
(* than MinMemoryNodes, from the lowest to the highest.                    *)
(***************************************************************************)
Restart ==
  LET tip == Highest(db)
      loaded == {h \in db : Height[h] + MinMemoryNodes >= Height[tip]}
      above(h) == {<<c, 1>> : c \in {d \in loaded : ParentHash(d) = h}}
  IN  /\ pc \in {"idle", "panic"}
      /\ created' = [h \in Blocks |-> IF h \in loaded THEN 1 ELSE 0]
      /\ parent' = [m \in Nodes |->
            IF m \in above(ParentHash(HashOf(m))) /\ ParentHash(HashOf(m)) \in loaded
            THEN <<ParentHash(HashOf(m)), 1>> ELSE NoNode]
      /\ children' = [m \in Nodes |-> IF m = <<HashOf(m), 1>> /\ HashOf(m) \in loaded
                                     THEN above(HashOf(m)) ELSE {}]
      /\ inMainChain' = {<<h, 1>> : h \in loaded}
      /\ index' = [h \in Blocks |-> IF h \in loaded THEN <<h, 1>> ELSE NoNode]
      /\ depNodes' = [h \in Blocks \cup {NoBlock} |-> SetToSeq(above(h))]
      /\ bestChain' = <<tip, 1>>
      /\ blockCache' = {}
      /\ Return
      /\ highest' = Height[tip] /\ deepFork' = FALSE
      /\ UNCHANGED db

Step ==
  \/ LookBack \/ NextCheck \/ RejectBlock \/ LoseNode
  \/ PruneBlockNodes \/ ReloadParent
  \/ ExtendMainChain \/ AddSideBlock
  \/ CompareWork \/ DisconnectBlock \/ ConnectBlock

Next == Restart \/ Step \/ \E b \in Blocks \ {Genesis} : AcceptBlock(b)

Spec == Init /\ [][Next]_vars

-----------------------------------------------------------------------------
\* Type invariant.
TypeOK ==
  /\ db \subseteq Blocks
  /\ created \in [Blocks -> 0..MaxNodes]
  /\ parent \in [Nodes -> Nodes \cup {NoNode}]
  /\ children \in [Nodes -> SUBSET Nodes]
  /\ inMainChain \subseteq Nodes
  /\ index \in [Blocks -> Nodes \cup {NoNode}]
  /\ depNodes \in [Blocks \cup {NoBlock} -> Seq(Nodes)]
  /\ bestChain \in Nodes
  /\ blockCache \subseteq Blocks
  /\ pc \in {"idle", "check", "reload", "recheck", "compare", "reorganize", "panic"}
  /\ block \in Blocks \cup {NoBlock}
  /\ prevNode \in Nodes \cup {NoNode}
  /\ iterNode \in Nodes \cup {NoNode}
  /\ detachNodes \in Seq(Nodes)
  /\ attachNodes \in Seq(Nodes)
  /\ oldTip \in Blocks \cup {NoBlock}
  /\ highest \in Nat
  /\ deepFork \in BOOLEAN

(***************************************************************************)
(* As long as no fork was deep, the nodes in memory are linked both ways:  *)
(* the parent of an indexed node is the indexed node of its parent block   *)
(* and has it among its children, and its children point back.             *)
(* removeBlockNode gives up on a node that still has a parent.             *)
(***************************************************************************)
NodesLinked ==
  deepFork \/ \A h \in Blocks : Indexed(h) =>
    LET n == index[h]
    IN  /\ HashOf(n) = h
        /\ parent[n] # NoNode => parent[n] = index[Parent[h]] /\ n \in children[parent[n]]
        /\ \A c \in children[n] : parent[c] = n

(***************************************************************************)
(* As long as no fork was deep, what is reached from bestChain over parent *)
(* is the end of the stored main chain, each node indexed and marked, and  *)
(* nothing else is marked: the fork points that a reorganization looks for *)
(* are those of the database.                                              *)
(***************************************************************************)
MemoryIsMainChain ==
  LET line == Line(bestChain)
  IN  deepFork \/
      /\ HashOf(bestChain) = Highest(db)
      /\ \A i \in DOMAIN line : /\ HashOf(line[i]) \in db
                               /\ line[i] = index[HashOf(line[i])]
      /\ \A h \in Blocks : Indexed(h) =>
            (index[h] \in inMainChain <=> h \in db)
      /\ \A h \in db : Indexed(h) => \E i \in DOMAIN line : HashOf(line[i]) = h

\* The nodes in memory agree with each other and with the database, through pruning,
\* loading, reorganizations and restarts.
MemoryAgrees == NodesLinked /\ MemoryIsMainChain

(***************************************************************************)
(* As long as no fork was deep, the pruning leaves at most MinMemoryNodes  *)
(* nodes of the main chain in memory, wherever they were loaded and        *)
(* whatever chain they once belonged to.                                   *)
(***************************************************************************)
PruningBoundsMemory ==
  pc = "reload" /\ ~deepFork => Cardinality({h \in db : Indexed(h)}) <= MinMemoryNodes

(***************************************************************************)
(* The stored main chain is the chain of the best node, however many nodes *)
(* were pruned, loaded twice or left unlinked: no reorganization, complete *)
(* or not, leaves a gap in it.                                             *)
(***************************************************************************)
StoredChainLinked == db = Ancestry[HashOf(bestChain)]

(***************************************************************************)
(* reorganizeChain checks the blocks before it modifies the chain, so that *)
(* no error is left to occur while it does (the note above that loop): a   *)
(* reorganization that started ends with more work than there was, as long *)
(* as no fork was deep, whatever was pruned and loaded again.              *)
(***************************************************************************)
ShallowReorganizationGainsWork ==
  [][pc = "reorganize" /\ pc' = "idle" /\ ~deepFork
       => Work[HashOf(bestChain')] > Work[oldTip]]_vars
=============================================================================
