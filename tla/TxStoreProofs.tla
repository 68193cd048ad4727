---------------------------- MODULE TxStoreProofs ----------------------------
(***************************************************************************)
(* Proofs about TxStore on every block tree and for every contents of the  *)
(* blocks: the view derived for a side chain is the one the database would *)
(* have, no access to it is out of range, and a verdict of                 *)
(* checkConnectBlock is one about the block and its chain.                 *)
(***************************************************************************)
EXTENDS TxStore, BlockTreeProofs

-----------------------------------------------------------------------------
\* The transactions of a block, and what they spend.
LEMMA BodyFacts ==
  ASSUME body \in Bodies
  PROVE  /\ \A b \in Blocks :
              /\ Len(body[b]) \in Nat
              /\ DOMAIN body[b] = 1 .. Len(body[b])
              /\ \A k \in DOMAIN body[b] : body[b][k] \in Txs /\ body[b][k] \in TxsOf(b)
              /\ \A t \in TxsOf(b) : t \in Txs /\ \E k \in DOMAIN body[b] : t = body[b][k]
         /\ TxsOf(Genesis) = {} /\ SpentIn(Genesis) = {}
<1>1. body \in [Blocks -> Seq(Txs)] /\ body[Genesis] = << >>
  BY BodiesAssumption
<1>2. ASSUME NEW b \in Blocks
      PROVE  /\ Len(body[b]) \in Nat
             /\ DOMAIN body[b] = 1 .. Len(body[b])
             /\ \A k \in DOMAIN body[b] : body[b][k] \in Txs /\ body[b][k] \in TxsOf(b)
             /\ \A t \in TxsOf(b) : t \in Txs /\ \E k \in DOMAIN body[b] : t = body[b][k]
  <2>1. body[b] \in Seq(Txs)
    BY <1>1
  <2>2. Len(body[b]) \in Nat /\ DOMAIN body[b] = 1 .. Len(body[b])
    BY <2>1
  <2>3. \A k \in DOMAIN body[b] : body[b][k] \in Txs
    BY <2>1
  <2>. QED
    BY <2>2, <2>3 DEF TxsOf, Range
<1>3. TxsOf(Genesis) = {}
  BY <1>1 DEF TxsOf, Range
<1>. QED
  BY <1>2, <1>3 DEF SpentIn

\* A block spends what one of its transactions spends.
LEMMA SpentInFacts ==
  ASSUME body \in Bodies, NEW b \in Blocks, NEW o
  PROVE  o \in SpentIn(b) <=> \E k \in DOMAIN body[b] : o \in Inputs[body[b][k]]
  BY BodyFacts DEF SpentIn

\* Of two blocks of a chain, one is in the chain below the other.
LEMMA ChainOrder ==
  ASSUME NEW b \in Blocks, NEW c \in Ancestry[b], NEW d \in Ancestry[b], c # d
  PROVE  \/ d # Genesis /\ c \in Ancestry[Parent[d]]
         \/ c # Genesis /\ d \in Ancestry[Parent[c]]
<1>1. c \in Blocks /\ d \in Blocks /\ ChainFacts(b) /\ Height[c] # Height[d]
  BY ChainMembers, ChainsAreChains
<1>2. Height[c] \in Nat /\ Height[d] \in Nat
  BY <1>1, TreeAssumption
<1>3. c \in Ancestry[d] \/ d \in Ancestry[c]
  BY <1>1, <1>2 DEF ChainFacts
<1>. QED
  BY <1>1, <1>3, EndOfChain

\* No block of a chain is above its end, and its end is above every other block.
LEMMA NothingAbove ==
  ASSUME NEW b \in Blocks
  PROVE  /\ ChainAbove(b, b) = {}
         /\ \A f \in Ancestry[b] : ChainAbove(b, f) = {} => f = b
<1>1. \A c \in Ancestry[b] : Height[c] <= Height[b] /\ Height[c] \in Nat /\ Height[b] \in Nat
  BY TreeAssumption, ChainsAreChains DEF ChainFacts
<1>2. ChainAbove(b, b) = {}
  BY <1>1 DEF ChainAbove
<1>. QED
  BY <1>2, EndOfChain

\* A block is not below itself, and its chain is that of its parent and itself.
LEMMA ParentChain ==
  ASSUME NEW b \in Blocks \ {Genesis}
  PROVE  /\ Parent[b] \in Blocks
         /\ Parent[b] \in Ancestry[b]
         /\ Ancestry[b] = Ancestry[Parent[b]] \cup {b}
         /\ b \notin Ancestry[Parent[b]]
<1>1. Parent[b] \in Blocks /\ Ancestry[b] = Ancestry[Parent[b]] \cup {b}
  BY TreeAssumption
<1>2. Parent[b] \in Ancestry[Parent[b]] /\ Genesis \in Ancestry[Parent[b]]
  BY <1>1, ChainsAreChains DEF ChainFacts
<1>3. Genesis \in Ancestry[b] /\ b # Genesis
  BY <1>1, <1>2
<1>4. b \notin Ancestry[Parent[b]]
  <2>1. ChainAbove(Parent[b], Genesis) = ChainAbove(b, Genesis) \ {b} /\ b \in ChainAbove(b, Genesis)
    BY <1>3, EndOfChain
  <2>. QED
    BY <2>1 DEF ChainAbove
<1>. QED
  BY <1>1, <1>2, <1>4

-----------------------------------------------------------------------------
\* What the view of a chain says of a transaction.
LEMMA ViewFacts ==
  ASSUME body \in Bodies, NEW b \in Blocks, NEW t
  PROVE  /\ View(b, t) \in TxData
         /\ View(b, t).found <=> \E c \in Ancestry[b] : t \in TxsOf(c)
         /\ ~ View(b, t).found => View(b, t) = Missing
         /\ View(b, t).found =>
              /\ View(b, t).spent = {i \in Indexes(t) : \E c \in Ancestry[b] : <<t, i>> \in SpentIn(c)}
              /\ View(b, t).height = Height[Holder(b, t)]
              /\ Holder(b, t) \in Ancestry[b] /\ t \in TxsOf(Holder(b, t))
<1>. DEFINE holders == {c \in Ancestry[b] : t \in TxsOf(c)}
            spent == UNION {SpendsOf(c, t) : c \in Ancestry[b]}
<1>1. spent = {i \in Indexes(t) : \E c \in Ancestry[b] : <<t, i>> \in SpentIn(c)}
  BY DEF SpendsOf
<1>2. CASE holders = {}
  <2>1. View(b, t) = Missing
    BY <1>2 DEF View
  <2>. QED
    BY <1>2, <2>1 DEF Missing, TxData
<1>3. CASE holders # {}
  <2>1. View(b, t) = [found |-> TRUE, height |-> Height[Holder(b, t)], spent |-> spent]
    BY <1>3 DEF View, Holder
  <2>2. Holder(b, t) \in holders
    BY <1>3, HasHighest DEF Holder
  <2>3. Height[Holder(b, t)] \in Nat
    BY <2>2, TreeAssumption
  <2>4. spent \subseteq Nat
    <3>1. ASSUME NEW i \in spent PROVE i \in 0 .. Outs[t] - 1
      BY <1>1 DEF Indexes
    <3>. QED
      BY <3>1
  <2>. HIDE DEF spent
  <2>. QED
    BY <1>1, <2>1, <2>2, <2>3, <2>4 DEF TxData
<1>. QED
  BY <1>2, <1>3

-----------------------------------------------------------------------------
(***************************************************************************)
(* What of the checks the view of a chain rests on: the transaction at     *)
(* place k of block b is not in the chain below b, spends nothing that is  *)
(* spent there, and spends outputs of that chain or of earlier             *)
(* transactions of b.                                                      *)
(***************************************************************************)
TxSound(b, k) ==
  /\ \A c \in Ancestry[Parent[b]] :
       body[b][k] \notin TxsOf(c) /\ Inputs[body[b][k]] \cap SpentIn(c) = {}
  /\ \A o \in Inputs[body[b][k]] :
       /\ o[2] \in Indexes(o[1])
       /\ o[1] \in InFlight(b, k) \/ \E c \in Ancestry[Parent[b]] : o[1] \in TxsOf(c)
Sound(b) == \A k \in DOMAIN body[b] : TxSound(b, k)
SoundChain(b) == \A c \in Ancestry[b] \ {Genesis} : Sound(c)

\* A sound chain has sound chains below it.
LEMMA SoundBelow ==
  ASSUME NEW b \in Blocks, SoundChain(b), NEW c \in Ancestry[b]
  PROVE  SoundChain(c)
  BY ChainMembers DEF SoundChain

\* A sound block on a sound chain makes a sound chain.
LEMMA SoundAbove ==
  ASSUME NEW b \in Blocks \ {Genesis}, SoundChain(Parent[b]), Sound(b)
  PROVE  SoundChain(b)
  BY ParentChain DEF SoundChain

\* In terms of blocks: the transactions of a sound block are new to its chain, what
\* it spends was not spent, and is an output of the chain or of the block.
LEMMA SoundBlock ==
  ASSUME body \in Bodies, NEW b \in Blocks, Sound(b)
  PROVE  /\ \A t \in TxsOf(b) : \A c \in Ancestry[Parent[b]] : t \notin TxsOf(c)
         /\ \A o \in SpentIn(b) :
              /\ \A c \in Ancestry[Parent[b]] : o \notin SpentIn(c)
              /\ o[2] \in Indexes(o[1])
              /\ o[1] \in TxsOf(b) \/ \E c \in Ancestry[Parent[b]] : o[1] \in TxsOf(c)
<1>1. ASSUME NEW t \in TxsOf(b), NEW c \in Ancestry[Parent[b]]
      PROVE  t \notin TxsOf(c)
  BY BodyFacts DEF Sound, TxSound
<1>2. ASSUME NEW o \in SpentIn(b)
      PROVE  /\ \A c \in Ancestry[Parent[b]] : o \notin SpentIn(c)
             /\ o[2] \in Indexes(o[1])
             /\ o[1] \in TxsOf(b) \/ \E c \in Ancestry[Parent[b]] : o[1] \in TxsOf(c)
  <2>1. PICK k \in DOMAIN body[b] : o \in Inputs[body[b][k]]
    BY SpentInFacts
  <2>2. TxSound(b, k)
    BY DEF Sound
  <2>3. InFlight(b, k) \subseteq TxsOf(b)
    <3>1. k \in 1 .. Len(body[b]) /\ Len(body[b]) \in Nat
      BY BodyFacts
    <3>2. \A j \in 1 .. k - 1 : j \in DOMAIN body[b]
      BY <3>1, BodyFacts
    <3>. QED
      BY <3>2, BodyFacts DEF InFlight
  <2>. QED
    BY <2>1, <2>2, <2>3 DEF TxSound
<1>. QED
  BY <1>1, <1>2

\* No output is spent before its transaction is in the chain.
LEMMA SpentLater ==
  ASSUME body \in Bodies, NEW b \in Blocks, SoundChain(b),
         NEW t, \A c \in Ancestry[b] : t \notin TxsOf(c)
  PROVE  \A c \in Ancestry[b] : \A i : <<t, i>> \notin SpentIn(c)
<1>1. SUFFICES ASSUME NEW c \in Ancestry[b], NEW i, <<t, i>> \in SpentIn(c)
               PROVE  FALSE
  OBVIOUS
<1>2. c \in Blocks \ {Genesis} /\ Sound(c) /\ Ancestry[Parent[c]] \subseteq Ancestry[b]
  BY <1>1, BodyFacts, ChainMembers, ParentChain DEF SoundChain
<1>3. t \in TxsOf(c) \/ \E d \in Ancestry[Parent[c]] : t \in TxsOf(d)
  BY <1>1, <1>2, SoundBlock
<1>. QED
  BY <1>2, <1>3

(***************************************************************************)
(* How a sound block changes the view: it adds its transactions, which the *)
(* chain below did not have, and what it spends, which was not spent.      *)
(***************************************************************************)
LEMMA ViewAbove ==
  ASSUME body \in Bodies, NEW b \in Blocks \ {Genesis}, SoundChain(b), NEW t
  PROVE  /\ t \in TxsOf(b) =>
              /\ View(Parent[b], t) = Missing
              /\ View(b, t) = [found |-> TRUE, height |-> Height[b], spent |-> SpendsOf(b, t)]
         /\ t \notin TxsOf(b) /\ ~ View(Parent[b], t).found => View(b, t) = Missing
         /\ t \notin TxsOf(b) /\ View(Parent[b], t).found =>
              /\ View(b, t) = [View(Parent[b], t) EXCEPT !.spent = @ \cup SpendsOf(b, t)]
              /\ View(Parent[b], t) = [View(b, t) EXCEPT !.spent = @ \ SpendsOf(b, t)]
<1>. DEFINE p == Parent[b]
<1>1. /\ p \in Blocks /\ p \in Ancestry[b]
      /\ Ancestry[b] = Ancestry[p] \cup {b} /\ b \notin Ancestry[p] /\ b \in Blocks
  BY ParentChain
<1>2. Sound(b) /\ SoundChain(p)
  BY <1>1, SoundBelow DEF SoundChain
<1>3. SpendsOf(b, t) = {i \in Indexes(t) : <<t, i>> \in SpentIn(b)}
  BY DEF SpendsOf
<1>4. CASE t \in TxsOf(b)
  <2>1. \A c \in Ancestry[p] : t \notin TxsOf(c)
    BY <1>1, <1>2, <1>4, SoundBlock
  <2>2. View(p, t) = Missing
    BY <1>1, <2>1, ViewFacts
  <2>3. \A c \in Ancestry[p] : \A i : <<t, i>> \notin SpentIn(c)
    BY <1>1, <1>2, <2>1, SpentLater
  <2>4. Holder(b, t) = b /\ View(b, t).found
    BY <1>1, <1>4, <2>1, ViewFacts
  <2>5. View(b, t).spent = SpendsOf(b, t)
    BY <1>1, <1>3, <2>3, <2>4, ViewFacts
  <2>6. View(b, t).height = Height[b] /\ View(b, t) \in TxData
    BY <1>1, <2>4, ViewFacts
  <2>. QED
    BY <1>4, <2>2, <2>4, <2>5, <2>6 DEF TxData
<1>5. CASE t \notin TxsOf(b) /\ ~ View(p, t).found
  <2>1. View(b, t) = Missing
    BY <1>1, <1>5, ViewFacts
  <2>. QED
    BY <1>5, <2>1
<1>6. CASE t \notin TxsOf(b) /\ View(p, t).found
  <2>1. /\ View(b, t).found /\ View(b, t) \in TxData
        /\ View(p, t) \in TxData
    BY <1>1, <1>6, ViewFacts
  <2>2. Holder(b, t) = Holder(p, t)
    <3>1. {c \in Ancestry[b] : t \in TxsOf(c)} = {c \in Ancestry[p] : t \in TxsOf(c)}
      BY <1>1, <1>6
    <3>. QED
      BY <3>1 DEF Holder
  <2>3. View(b, t).height = View(p, t).height
    BY <1>1, <1>6, <2>1, <2>2, ViewFacts
  <2>4. View(b, t).spent = View(p, t).spent \cup SpendsOf(b, t)
    BY <1>1, <1>3, <1>6, <2>1, ViewFacts
  <2>5. View(p, t).spent \cap SpendsOf(b, t) = {}
    <3>1. \A i : <<t, i>> \in SpentIn(b) => \A c \in Ancestry[p] : <<t, i>> \notin SpentIn(c)
      BY <1>1, <1>2, SoundBlock
    <3>. QED
      BY <1>1, <1>3, <1>6, <3>1, ViewFacts
  <2>6. View(p, t).spent = View(b, t).spent \ SpendsOf(b, t)
    BY <2>4, <2>5
  <2>. QED
    BY <1>6, <2>1, <2>3, <2>4, <2>6 DEF TxData
<1>. QED
  BY <1>4, <1>5, <1>6

\* Connecting and disconnecting a sound block takes a store from the view of the
\* one chain to the view of the other.
LEMMA ConnectView ==
  ASSUME body \in Bodies, NEW b \in Blocks \ {Genesis}, SoundChain(b),
         NEW st, NEW t \in DOMAIN st, st[t] = View(Parent[b], t)
  PROVE  ConnectTransactions(st, b)[t] = View(b, t)
<1>1. CASE t \in TxsOf(b)
  BY <1>1, ViewAbove DEF ConnectTransactions
<1>2. CASE t \notin TxsOf(b) /\ ~ View(Parent[b], t).found
  <2>1. View(b, t) = Missing /\ View(Parent[b], t) = Missing
    BY <1>2, ViewAbove, ViewFacts, ParentChain
  <2>2. ConnectTransactions(st, b)[t] = st[t]
    BY <1>2, <2>1 DEF ConnectTransactions, Missing
  <2>. QED
    BY <2>1, <2>2
<1>3. CASE t \notin TxsOf(b) /\ View(Parent[b], t).found
  <2>1. ConnectTransactions(st, b)[t] =
          [View(Parent[b], t) EXCEPT !.spent = @ \cup SpendsOf(b, t)]
    BY <1>3 DEF ConnectTransactions
  <2>. QED
    BY <1>3, <2>1, ViewAbove
<1>. QED
  BY <1>1, <1>2, <1>3

LEMMA DisconnectView ==
  ASSUME body \in Bodies, NEW b \in Blocks \ {Genesis}, SoundChain(b),
         NEW st, NEW t \in DOMAIN st, st[t] = View(b, t)
  PROVE  DisconnectTransactions(st, b)[t] = View(Parent[b], t)
<1>1. CASE t \in TxsOf(b)
  BY <1>1, ViewAbove DEF DisconnectTransactions
<1>2. CASE t \notin TxsOf(b) /\ ~ View(Parent[b], t).found
  <2>1. View(b, t) = Missing /\ View(Parent[b], t) = Missing
    BY <1>2, ViewAbove, ViewFacts, ParentChain
  <2>2. DisconnectTransactions(st, b)[t] = st[t]
    BY <1>2, <2>1 DEF DisconnectTransactions, Missing
  <2>. QED
    BY <2>1, <2>2
<1>3. CASE t \notin TxsOf(b) /\ View(Parent[b], t).found
  <2>1. View(b, t).found
    BY <1>3, ViewFacts, ParentChain
  <2>2. DisconnectTransactions(st, b)[t] =
          [View(b, t) EXCEPT !.spent = @ \ SpendsOf(b, t)]
    BY <1>3, <2>1 DEF DisconnectTransactions
  <2>. QED
    BY <1>3, <2>2, ViewAbove
<1>. QED
  BY <1>1, <1>2, <1>3

-----------------------------------------------------------------------------
(***************************************************************************)
(* The inductive invariant.  The main chain is sound, and the index holds  *)
(* the chain of every block it holds.                                      *)
(***************************************************************************)
ChainInv ==
  /\ body \in Bodies
  /\ known \subseteq Blocks /\ tip \in known
  /\ \A b \in known : Ancestry[b] \subseteq known
  /\ SoundChain(tip)
  /\ pc # "panic"

(***************************************************************************)
(* The store holds exactly the view of a block on the way from the end of  *)
(* the main chain down to the fork and up to the parent of the node, while *)
(* what is spent stays in; on the main chain itself it is left out.        *)
(***************************************************************************)
Fetch(at, t) == IF Parent[node] = tip THEN Spendable(t, View(at, t)) ELSE View(at, t)
StoreAt(at) == \A t \in DOMAIN store : store[t] = Fetch(at, t)
DeriveInv ==
  pc \in {"bip30", "inputs"} =>
    /\ DOMAIN store = IF pc = "bip30" THEN TxsOf(node) ELSE NeededTxs(node)
    /\ Parent[node] = tip => undo \cup redo = {}
    /\ \E at \in Blocks :
         /\ StoreAt(at)
         /\ \/ /\ undo = {} /\ at \in Ancestry[Parent[node]]
               /\ redo = ChainAbove(Parent[node], at)
            \/ /\ at \in Ancestry[tip]
               /\ \E f \in Ancestry[at] \cap Ancestry[Parent[node]] :
                    undo = ChainAbove(at, f) /\ redo = ChainAbove(Parent[node], f)

(***************************************************************************)
(* The blocks to attach are a side chain above its fork, and those below   *)
(* the node have passed the check, with the node's own transactions up to  *)
(* the place it has reached.                                               *)
(***************************************************************************)
OverwritesNoCoin(b) ==
  \A t \in TxsOf(b) : View(Parent[b], t).found => FullySpent(t, View(Parent[b], t))
CheckInv ==
  pc \in {"bip30", "inputs", "spend"} =>
    /\ node \in attach
    /\ \E b \in Blocks \ Ancestry[tip] : attach = ChainAbove(b, Fork(b))
    /\ SoundChain(Parent[node])
    /\ pc # "bip30" => OverwritesNoCoin(node)

\* The store holds what the chain or the block has of a transaction, without what
\* the earlier transactions of the block have spent.
SpentBefore(u, k) ==
  {i \in Indexes(u) : \E j \in 1 .. k - 1 : <<u, i>> \in Inputs[body[node][j]]}
Base(u) ==
  IF u \in NeededTxs(node) THEN Fetch(Parent[node], u)
  ELSE [found |-> TRUE, height |-> Height[node], spent |-> {}]
SpendInv ==
  pc = "spend" =>
    /\ place \in 1 .. Len(body[node]) + 1
    /\ \A k \in 1 .. place - 1 : TxSound(node, k)
    /\ DOMAIN store = NeededTxs(node) \cup InFlightTxs(node)
    /\ \A u \in DOMAIN store :
         store[u] = [Base(u) EXCEPT !.spent = @ \cup SpentBefore(u, place)]

ConnectInv ==
  pc = "connect" =>
    /\ node \in Blocks
    /\ tip \in Ancestry[node] \ {node}
    /\ attach = ChainAbove(node, tip)
    /\ SoundChain(node)

Inv == ChainInv /\ DeriveInv /\ CheckInv /\ SpendInv /\ ConnectInv

-----------------------------------------------------------------------------
\* The contents of the blocks do not change, nor does what they say.
LEMMA SameBody ==
  ASSUME body' = body
  PROVE  /\ \A b, t : View(b, t)' = View(b, t)
         /\ \A b : SoundChain(b)' <=> SoundChain(b)
         /\ \A b, k : TxSound(b, k)' <=> TxSound(b, k)
         /\ \A b : OverwritesNoCoin(b)' <=> OverwritesNoCoin(b)
         /\ \A b : TxsOf(b)' = TxsOf(b) /\ SpentIn(b)' = SpentIn(b)
         /\ \A b : NeededTxs(b)' = NeededTxs(b) /\ InFlightTxs(b)' = InFlightTxs(b)
<1>1. \A b : TxsOf(b)' = TxsOf(b) /\ SpentIn(b)' = SpentIn(b)
  BY DEF TxsOf, SpentIn
<1>2. \A b, t : View(b, t)' = View(b, t)
  BY DEF View, SpendsOf, TxsOf, SpentIn
<1>3. \A b, k : InFlight(b, k)' = InFlight(b, k)
  BY DEF InFlight
<1>4. \A b, k : TxSound(b, k)' <=> TxSound(b, k)
  BY <1>1, <1>3 DEF TxSound
<1>5. \A b : SoundChain(b)' <=> SoundChain(b)
  BY <1>4 DEF SoundChain, Sound
<1>6. \A b : NeededTxs(b)' = NeededTxs(b) /\ InFlightTxs(b)' = InFlightTxs(b)
  BY <1>3 DEF NeededTxs, InFlightTxs
<1>. QED
  BY <1>1, <1>2, <1>4, <1>5, <1>6 DEF OverwritesNoCoin

\* Where a chain leaves the main chain.
LEMMA ForkFacts ==
  ASSUME tip \in Blocks, NEW b \in Blocks
  PROVE  /\ Fork(b) \in Ancestry[b] \cap Ancestry[tip]
         /\ \A c \in Ancestry[b] \cap Ancestry[tip] : Height[c] <= Height[Fork(b)]
<1>1. Genesis \in Ancestry[b] \cap Ancestry[tip]
  BY ChainsAreChains DEF ChainFacts
<1>. QED
  BY <1>1, HasHighest DEF Fork

\* A block that is to be attached is not in the main chain.
LEMMA AttachFacts ==
  ASSUME ChainInv, CheckInv, pc \in {"bip30", "inputs", "spend"}
  PROVE  /\ node \in Blocks \ {Genesis}
         /\ node \notin Ancestry[tip]
         /\ attach \subseteq Blocks
<1>1. PICK b \in Blocks : attach = ChainAbove(b, Fork(b))
  BY DEF CheckInv
<1>2. /\ Fork(b) \in Ancestry[b] \cap Ancestry[tip]
      /\ \A c \in Ancestry[b] \cap Ancestry[tip] : Height[c] <= Height[Fork(b)]
  BY <1>1, ForkFacts DEF ChainInv
<1>3. node \in Ancestry[b] /\ Height[node] > Height[Fork(b)]
  BY <1>1 DEF CheckInv, ChainAbove
<1>4. node \in Blocks /\ Height[node] \in Nat /\ Height[Fork(b)] \in Nat
  BY <1>1, <1>2, <1>3, TreeAssumption
<1>5. node \notin Ancestry[tip]
  BY <1>2, <1>3, <1>4
<1>6. Genesis \in Ancestry[tip]
  BY ChainsAreChains DEF ChainFacts, ChainInv
<1>7. attach \subseteq Blocks
  BY <1>1, TreeAssumption DEF ChainAbove
<1>. QED
  BY <1>4, <1>5, <1>6, <1>7

LEMMA InitInv == Init => Inv
<1>. SUFFICES ASSUME Init PROVE Inv
  OBVIOUS
<1>1. Ancestry[Genesis] = {Genesis} /\ Genesis \in Blocks
  BY TreeAssumption
<1>2. SoundChain(Genesis)
  BY <1>1 DEF SoundChain
<1>. QED
  BY <1>1, <1>2 DEF Init, Inv, ChainInv, DeriveInv, CheckInv, SpendInv, ConnectInv

\* A call that returns or panics owes the invariant nothing but the chain.
LEMMA ReturnInv ==
  ASSUME ChainInv, UNCHANGED <<body, tip, known>>, Return
  PROVE  Inv'
<1>1. SoundChain(tip)'
  BY SameBody DEF ChainInv
<1>. QED
  BY <1>1 DEF ChainInv, Return, Inv, DeriveInv, CheckInv, SpendInv, ConnectInv

-----------------------------------------------------------------------------
\* fetchTxStore begins with the view of the end of the main chain.
LEMMA FetchStarts ==
  ASSUME ChainInv, NEW n \in Blocks \ {Genesis}, UNCHANGED <<body, tip>>,
         node' = n, pc' \in {"bip30", "inputs"},
         FetchTxStore(n, IF pc' = "bip30" THEN TxsOf(n) ELSE NeededTxs(n))
  PROVE  DeriveInv'
<1>. DEFINE request == IF pc' = "bip30" THEN TxsOf(n) ELSE NeededTxs(n)
<1>1. tip \in Blocks /\ Parent[n] \in Blocks /\ tip \in Ancestry[tip]
  BY ParentChain, ChainsAreChains DEF ChainInv, ChainFacts
<1>2. DOMAIN store' = request
  BY DEF FetchTxStore, FetchTxStoreMain
<1>3. DOMAIN store' = IF pc' = "bip30" THEN TxsOf(node)' ELSE NeededTxs(node)'
  BY <1>2, SameBody
<1>4. StoreAt(tip)'
  <2>1. ASSUME NEW t \in request
        PROVE  store'[t] = IF Parent[n] = tip THEN Spendable(t, View(tip, t)) ELSE View(tip, t)
    BY <2>1 DEF FetchTxStore, FetchTxStoreMain, Spendable
  <2>2. ASSUME NEW t \in request
        PROVE  store'[t] = Fetch(tip, t)'
    BY <2>1, <2>2, SameBody DEF Fetch, Spendable, FullySpent
  <2>. QED
    BY <1>2, <2>2 DEF StoreAt, Fetch
<1>5. CASE Parent[n] = tip
  <2>1. undo' = {} /\ redo' = {}
    BY <1>5 DEF FetchTxStore
  <2>2. ChainAbove(tip, tip) = {}
    BY <1>1, NothingAbove
  <2>. QED
    BY <1>1, <1>3, <1>4, <1>5, <2>1, <2>2 DEF DeriveInv
<1>6. CASE Parent[n] # tip
  <2>1. /\ undo' = ChainAbove(tip, Fork(Parent[n]))
        /\ redo' = ChainAbove(Parent[n], Fork(Parent[n]))
    BY <1>6 DEF FetchTxStore
  <2>2. Fork(Parent[n]) \in Ancestry[tip] \cap Ancestry[Parent[n]]
    BY <1>1, ForkFacts
  <2>. QED
    BY <1>1, <1>3, <1>4, <1>6, <2>1, <2>2 DEF DeriveInv
<1>. QED
  BY <1>5, <1>6


\* What stays true of the blocks while they are checked.
LEMMA SameCheck ==
  ASSUME ChainInv, CheckInv, UNCHANGED <<body, tip, known, node, attach>>,
         pc \in {"bip30", "inputs", "spend"}, pc' # "panic",
         pc' # "bip30" => pc # "bip30" \/ OverwritesNoCoin(node)
  PROVE  ChainInv' /\ CheckInv'
<1>1. SoundChain(tip)' <=> SoundChain(tip)
  BY SameBody
<1>2. ChainInv'
  BY <1>1 DEF ChainInv
<1>3. /\ node \in attach /\ SoundChain(Parent[node])
      /\ \E b \in Blocks \ Ancestry[tip] : attach = ChainAbove(b, Fork(b))
      /\ pc' # "bip30" => OverwritesNoCoin(node)
  BY DEF CheckInv
<1>4. (SoundChain(Parent[node])' <=> SoundChain(Parent[node]))
      /\ (OverwritesNoCoin(node)' <=> OverwritesNoCoin(node))
  BY SameBody
<1>5. \A b : Fork(b)' = Fork(b)
  BY DEF Fork
<1>. QED
  BY <1>2, <1>3, <1>4, <1>5 DEF CheckInv

\* Under the same node and the same end of the main chain, the store is at a block
\* when it holds the same things.
LEMMA SameStore ==
  ASSUME NEW at, UNCHANGED <<body, tip, node>>, DOMAIN store' = DOMAIN store,
         \A t \in DOMAIN store : store'[t] = Fetch(at, t)
  PROVE  StoreAt(at)'
<1>1. \A t : Fetch(at, t)' = Fetch(at, t)
  BY SameBody DEF Fetch, Spendable, FullySpent
<1>. QED
  BY <1>1 DEF StoreAt

\* A sound block never refers to the output after the last one of a transaction, and
\* to no output of a transaction the store lacks.
LEMMA NoDisconnectPanic ==
  ASSUME body \in Bodies, NEW b \in Blocks, Sound(b), NEW st
  PROVE  ~ DisconnectPanics(st, b)
<1>1. ASSUME NEW o \in SpentIn(b)
      PROVE  o[2] # Outs[o[1]]
  <2>1. PICK k \in DOMAIN body[b] : o \in Inputs[body[b][k]]
    BY SpentInFacts
  <2>2. o \in Txs \X Nat
    BY <2>1, BodyFacts, TxAssumption
  <2>3. o[2] \in 0 .. Outs[o[1]] - 1 /\ Outs[o[1]] \in Nat
    BY <2>2, SoundBlock, TxAssumption DEF Indexes
  <2>. QED
    BY <2>3
<1>. QED
  BY <1>1 DEF DisconnectPanics

LEMMA NoConnectPanic ==
  ASSUME body \in Bodies, NEW b \in Blocks \ {Genesis}, Sound(b), NEW st,
         \A t \in DOMAIN st : st[t] = View(Parent[b], t)
  PROVE  ~ ConnectPanics(st, b)
<1>1. SUFFICES ASSUME NEW k \in DOMAIN body[b], NEW o \in Inputs[body[b][k]],
                      o[1] \in DOMAIN st,
                      o[2] = IF st[o[1]].found \/ \E j \in 1 .. k : body[b][j] = o[1]
                             THEN Outs[o[1]] ELSE 0
               PROVE  FALSE
  BY DEF ConnectPanics
<1>2. o \in Txs \X Nat /\ TxSound(b, k) /\ k \in Nat
  BY BodyFacts, TxAssumption DEF Sound
<1>3. o[2] \in 0 .. Outs[o[1]] - 1 /\ Outs[o[1]] \in Nat
  BY <1>2, TxAssumption DEF TxSound, Indexes
<1>4. CASE o[1] \in InFlight(b, k)
  <2>1. \E j \in 1 .. k : body[b][j] = o[1]
    BY <1>2, <1>4 DEF InFlight
  <2>. QED
    BY <1>1, <1>3, <2>1
<1>5. CASE \E c \in Ancestry[Parent[b]] : o[1] \in TxsOf(c)
  <2>1. View(Parent[b], o[1]).found
    BY <1>5, ViewFacts, ParentChain
  <2>. QED
    BY <1>1, <1>3, <2>1
<1>. QED
  BY <1>2, <1>4, <1>5 DEF TxSound

\* A turn of the first loop of fetchTxStore goes one block down the main chain.
LEMMA DetachStep ==
  ASSUME Inv, DetachFromStore
  PROVE  Inv'
<1>. USE DEF Inv
<1>1. /\ pc \in {"bip30", "inputs"} /\ undo # {} /\ body \in Bodies /\ tip \in Blocks
      /\ UNCHANGED <<body, tip, known, node, attach, redo>>
  BY DEF DetachFromStore, Fetching, ChainInv
<1>2. Parent[node] # tip
  BY <1>1 DEF DeriveInv
<1>3. PICK at \in Ancestry[tip] :
        /\ StoreAt(at)
        /\ \E f \in Ancestry[at] \cap Ancestry[Parent[node]] :
             undo = ChainAbove(at, f) /\ redo = ChainAbove(Parent[node], f)
  BY <1>1 DEF DeriveInv
<1>4. PICK f \in Ancestry[at] \cap Ancestry[Parent[node]] :
        /\ StoreAt(at)
        /\ undo = ChainAbove(at, f)
        /\ redo = ChainAbove(Parent[node], f)
        /\ at \in Blocks /\ at # f
  BY <1>1, <1>3, NothingAbove, ChainMembers
<1>5. /\ at \in Blocks \ {Genesis} /\ Highest(undo) = at
      /\ f \in Ancestry[Parent[at]]
      /\ ChainAbove(Parent[at], f) = undo \ {at}
  BY <1>3, <1>4, EndOfChain
<1>6. SoundChain(at) /\ Sound(at)
  <2>1. SoundChain(at)
    BY <1>1, <1>3, <1>4, SoundBelow DEF ChainInv
  <2>. QED
    BY <1>5, <2>1, ParentChain DEF SoundChain
<1>7. /\ store' = DisconnectTransactions(store, at)
      /\ undo' = undo \ {at}
      /\ UNCHANGED pc
  BY <1>1, <1>5, <1>6, NoDisconnectPanic DEF DetachFromStore
<1>8. StoreAt(Parent[at])'
  <2>1. ASSUME NEW t \in DOMAIN store
        PROVE  store'[t] = View(Parent[at], t)
    <3>1. store[t] = View(at, t)
      BY <1>2, <1>3, <1>4 DEF StoreAt, Fetch
    <3>. QED
      BY <1>1, <1>5, <1>6, <1>7, <3>1, DisconnectView
  <2>2. DOMAIN store' = DOMAIN store
    BY <1>7 DEF DisconnectTransactions
  <2>. QED
    BY <1>1, <1>2, <2>1, <2>2, SameStore DEF Fetch
<1>9. DeriveInv'
  <2>1. DOMAIN store' = IF pc' = "bip30" THEN TxsOf(node)' ELSE NeededTxs(node)'
    BY <1>1, <1>7, SameBody DEF DeriveInv, DisconnectTransactions
  <2>2. Parent[at] \in Ancestry[tip] /\ Parent[at] \in Blocks
    BY <1>1, <1>3, <1>4, <1>5, ChainMembers, ParentChain
  <2>. QED
    BY <1>1, <1>2, <1>3, <1>4, <1>5, <1>7, <1>8, <2>1, <2>2 DEF DeriveInv
<1>10. ChainInv' /\ CheckInv'
  BY <1>1, <1>7, SameCheck DEF ChainInv, CheckInv
<1>. QED
  BY <1>1, <1>7, <1>9, <1>10 DEF SpendInv, ConnectInv

\* Once the main chain is undone, the store is at a block of the side chain.
LEMMA UndoneAt ==
  ASSUME Inv, pc \in {"bip30", "inputs"}, undo = {}
  PROVE  \E at \in Ancestry[Parent[node]] :
           StoreAt(at) /\ redo = ChainAbove(Parent[node], at)
<1>1. CASE \E at \in Blocks :
             /\ StoreAt(at)
             /\ undo = {} /\ at \in Ancestry[Parent[node]]
             /\ redo = ChainAbove(Parent[node], at)
  BY <1>1
<1>2. CASE \E at \in Blocks :
             /\ StoreAt(at)
             /\ \E f \in Ancestry[at] \cap Ancestry[Parent[node]] :
                  undo = ChainAbove(at, f) /\ redo = ChainAbove(Parent[node], f)
  BY <1>2, NothingAbove
<1>. QED
  BY <1>1, <1>2 DEF Inv, DeriveInv

\* A turn of the second loop goes one block up the side chain.
LEMMA AttachStep ==
  ASSUME Inv, AttachToStore
  PROVE  Inv'
<1>. USE DEF Inv
<1>1. /\ pc \in {"bip30", "inputs"} /\ undo = {} /\ redo # {} /\ body \in Bodies
      /\ UNCHANGED <<body, tip, known, node, attach, undo>>
  BY DEF AttachToStore, Fetching, ChainInv
<1>2. Parent[node] # tip /\ Parent[node] \in Blocks /\ SoundChain(Parent[node])
  BY <1>1, AttachFacts, ParentChain DEF DeriveInv, CheckInv
<1>3. PICK at \in Ancestry[Parent[node]] :
        StoreAt(at) /\ redo = ChainAbove(Parent[node], at)
  BY <1>1, UndoneAt
<1>4. PICK n \in Blocks \ {Genesis} :
        /\ n = Lowest(redo) /\ n \in redo /\ Parent[n] = at
        /\ ChainAbove(Parent[node], n) = redo \ {n}
  BY <1>1, <1>2, <1>3, NothingAbove, NextInChain
<1>5. n \in Ancestry[Parent[node]]
  BY <1>3, <1>4 DEF ChainAbove
<1>6. SoundChain(n) /\ Sound(n)
  BY <1>2, <1>4, <1>5, SoundBelow DEF SoundChain
<1>7. \A t \in DOMAIN store : store[t] = View(Parent[n], t)
  BY <1>2, <1>3, <1>4 DEF StoreAt, Fetch
<1>8. /\ store' = ConnectTransactions(store, n)
      /\ redo' = redo \ {n}
      /\ UNCHANGED pc
  BY <1>1, <1>4, <1>6, <1>7, NoConnectPanic DEF AttachToStore
<1>9. StoreAt(n)'
  <2>1. \A t \in DOMAIN store : store'[t] = View(n, t)
    BY <1>1, <1>4, <1>6, <1>7, <1>8, ConnectView
  <2>2. DOMAIN store' = DOMAIN store
    BY <1>8 DEF ConnectTransactions
  <2>. QED
    BY <1>1, <1>2, <2>1, <2>2, SameStore DEF Fetch
<1>10. DeriveInv'
  <2>1. DOMAIN store' = IF pc' = "bip30" THEN TxsOf(node)' ELSE NeededTxs(node)'
    BY <1>1, <1>8, SameBody DEF DeriveInv, ConnectTransactions
  <2>. QED
    BY <1>1, <1>2, <1>4, <1>5, <1>8, <1>9, <2>1 DEF DeriveInv
<1>11. ChainInv' /\ CheckInv'
  BY <1>1, <1>8, SameCheck DEF ChainInv, CheckInv
<1>. QED
  BY <1>1, <1>8, <1>10, <1>11 DEF SpendInv, ConnectInv

\* fetchTxStore ends with the view of the parent of the node.
LEMMA FetchEnds ==
  ASSUME Inv, pc \in {"bip30", "inputs"}, Fetched
  PROVE  StoreAt(Parent[node])
<1>1. undo = {} /\ redo = {}
  BY DEF Fetched
<1>2. PICK at \in Ancestry[Parent[node]] :
        StoreAt(at) /\ redo = ChainAbove(Parent[node], at)
  BY <1>1, UndoneAt
<1>3. Parent[node] \in Blocks
  BY AttachFacts, ParentChain DEF Inv
<1>. QED
  BY <1>1, <1>2, <1>3, NothingAbove

\* checkBIP0030 lets no block pass that overwrites a coin.
LEMMA OverwrittenFacts ==
  ASSUME Inv, pc = "bip30", Fetched
  PROVE  Overwritten = {} <=> OverwritesNoCoin(node)
<1>1. DOMAIN store = TxsOf(node) /\ StoreAt(Parent[node])
  BY FetchEnds DEF Inv, DeriveInv
<1>2. ASSUME NEW t \in TxsOf(node)
      PROVE  (store[t].found /\ ~ FullySpent(t, store[t]))
               <=> (View(Parent[node], t).found /\ ~ FullySpent(t, View(Parent[node], t)))
  BY <1>1 DEF StoreAt, Fetch, Spendable, FullySpent, Missing
<1>. QED
  BY <1>1, <1>2 DEF Overwritten, OverwritesNoCoin

LEMMA CheckBIP0030Step ==
  ASSUME Inv, CheckBIP0030
  PROVE  Inv'
<1>. USE DEF Inv
<1>1. pc = "bip30" /\ Fetched /\ UNCHANGED <<body, tip, known>>
  BY DEF CheckBIP0030
<1>2. CASE Overwritten # {}
  BY <1>1, <1>2, ReturnInv DEF CheckBIP0030
<1>3. CASE Overwritten = {}
  <2>1. /\ pc' = "inputs" /\ UNCHANGED <<node, attach>>
        /\ FetchTxStore(node, NeededTxs(node))
    BY <1>3 DEF CheckBIP0030
  <2>2. OverwritesNoCoin(node) /\ node \in Blocks \ {Genesis}
    BY <1>1, <1>3, OverwrittenFacts, AttachFacts
  <2>3. DeriveInv'
    BY <1>1, <2>1, <2>2, FetchStarts
  <2>4. ChainInv' /\ CheckInv'
    BY <1>1, <2>1, <2>2, SameCheck
  <2>. QED
    BY <2>1, <2>3, <2>4 DEF SpendInv, ConnectInv
<1>. QED
  BY <1>2, <1>3

LEMMA MergeStep ==
  ASSUME Inv, MergeStores
  PROVE  Inv'
<1>. USE DEF Inv
<1>1. /\ pc = "inputs" /\ Fetched /\ pc' = "spend" /\ place' = 1
      /\ UNCHANGED <<body, tip, known, node, attach>>
      /\ store' = [t \in NeededTxs(node) \cup InFlightTxs(node) |->
                     IF t \in NeededTxs(node) THEN store[t]
                     ELSE [found |-> TRUE, height |-> Height[node], spent |-> {}]]
  BY DEF MergeStores
<1>2. /\ node \in Blocks \ {Genesis} /\ Parent[node] \in Blocks /\ body \in Bodies
      /\ DOMAIN store = NeededTxs(node) /\ StoreAt(Parent[node])
  BY <1>1, FetchEnds, AttachFacts, ParentChain DEF DeriveInv, ChainInv
<1>3. ASSUME NEW u \in NeededTxs(node) \cup InFlightTxs(node)
      PROVE  store'[u] = [Base(u) EXCEPT !.spent = @ \cup {}]
  <2>1. store'[u] = Base(u)
    BY <1>1, <1>2 DEF Base, StoreAt
  <2>2. Base(u) \in TxData
    BY <1>2, ViewFacts, TreeAssumption DEF Base, Fetch, Spendable, Missing, TxData
  <2>. QED
    BY <2>1, <2>2 DEF TxData
<1>4. SpendInv'
  <2>1. /\ \A u : Base(u)' = Base(u)
        /\ NeededTxs(node)' = NeededTxs(node) /\ InFlightTxs(node)' = InFlightTxs(node)
    <3>1. \A u : Fetch(Parent[node], u)' = Fetch(Parent[node], u)
      BY <1>1, SameBody DEF Fetch, Spendable, FullySpent
    <3>2. NeededTxs(node)' = NeededTxs(node) /\ InFlightTxs(node)' = InFlightTxs(node)
      BY <1>1, SameBody
    <3>. QED
      BY <1>1, <3>1, <3>2 DEF Base
  <2>2. \A u : SpentBefore(u, place)' = {}
    BY <1>1 DEF SpentBefore
  <2>3. place' \in 1 .. Len(body[node])' + 1
    BY <1>1, <1>2, BodyFacts
  <2>4. DOMAIN store' = NeededTxs(node) \cup InFlightTxs(node)
    BY <1>1
  <2>5. \A k \in 1 .. place' - 1 : TxSound(node, k)'
    BY <1>1
  <2>6. \A u \in DOMAIN store' :
          store'[u] = [Base(u)' EXCEPT !.spent = @ \cup SpentBefore(u, place)']
    BY <1>3, <2>1, <2>2, <2>4
  <2>. QED
    BY <2>1, <2>3, <2>4, <2>5, <2>6 DEF SpendInv
<1>5. ChainInv' /\ CheckInv'
  BY <1>1, SameCheck
<1>. QED
  BY <1>1, <1>4, <1>5 DEF DeriveInv, ConnectInv


-----------------------------------------------------------------------------
\* The coins of a chain are the unspent outputs its view has, with or without what
\* is spent.
LEMMA CoinsOfView ==
  ASSUME body \in Bodies, NEW b \in Blocks, NEW o \in Txs \X Nat
  PROVE  o \in Coins(b) <=> /\ View(b, o[1]).found
                            /\ o[2] \in Indexes(o[1]) \ View(b, o[1]).spent
<1>1. o = <<o[1], o[2]>>
  OBVIOUS
<1>2. o \in Created(b) <=> (\E c \in Ancestry[b] : o[1] \in TxsOf(c)) /\ o[2] \in Indexes(o[1])
  <2>1. \A t : o \in OutputsOf(t) <=> t = o[1] /\ o[2] \in Indexes(t)
    BY <1>1 DEF OutputsOf
  <2>. QED
    BY <2>1 DEF Created
<1>3. o \in Coins(b) <=> o \in Created(b) /\ \A c \in Ancestry[b] : o \notin SpentIn(c)
  BY DEF Coins
<1>4. \A c : o \in SpentIn(c) <=> <<o[1], o[2]>> \in SpentIn(c)
  BY <1>1
<1>. QED
  BY <1>2, <1>3, <1>4, ViewFacts

LEMMA SpendableCoins ==
  ASSUME NEW t, NEW i, NEW txD
  PROVE  /\ (Spendable(t, txD).found /\ i \in Indexes(t) \ Spendable(t, txD).spent)
               <=> (txD.found /\ i \in Indexes(t) \ txD.spent)
         /\ txD.found /\ i \in Indexes(t) \ txD.spent => Spendable(t, txD) = txD
  BY DEF Spendable, FullySpent, Missing

\* The last block of a chain holds its transactions; what it does not have is held
\* by the block of the chain below.
LEMMA LastHolder ==
  ASSUME body \in Bodies, NEW b \in Blocks \ {Genesis}, NEW t
  PROVE  /\ t \in TxsOf(b) => Holder(b, t) = b
         /\ t \notin TxsOf(b) => Holder(b, t) = Holder(Parent[b], t)
<1>. DEFINE holders == {c \in Ancestry[b] : t \in TxsOf(c)}
<1>1. CASE t \in TxsOf(b)
  <2>1. b \in holders /\ holders \subseteq Ancestry[b]
    BY <1>1, ParentChain
  <2>2. Highest(holders) \in holders /\ Height[b] <= Height[Highest(holders)]
    BY <2>1, HasHighest
  <2>3. Height[Highest(holders)] <= Height[b] /\ Highest(holders) \in Blocks
    BY <2>1, <2>2, ChainsAreChains, ChainMembers DEF ChainFacts
  <2>4. Height[Highest(holders)] = Height[b]
    BY <2>2, <2>3, TreeAssumption
  <2>5. Highest(holders) = b
    BY <2>1, <2>2, <2>4, ChainMembers
  <2>. QED
    BY <1>1, <2>5 DEF Holder
<1>2. CASE t \notin TxsOf(b)
  <2>1. holders = {c \in Ancestry[Parent[b]] : t \in TxsOf(c)}
    BY <1>2, ParentChain
  <2>. QED
    BY <1>2, <2>1 DEF Holder
<1>. QED
  BY <1>1, <1>2

(***************************************************************************)
(* The transaction at place k of block b finds its inputs: the part of     *)
(* TxFits that is not about amounts.                                       *)
(***************************************************************************)
Unspent(b, k, o) ==
  /\ o \in Coins(Parent[b]) \/ \E u \in InFlight(b, k) : o \in OutputsOf(u)
  /\ \A u \in InFlight(b, k) : o \notin Inputs[u]
Available(b, k) ==
  \A o \in Inputs[body[b][k]] :
    /\ Unspent(b, k, o)
    /\ TxTime[o[1]] <= TxTime[body[b][k]]
    /\ o[1] \in Coinbases => Height[b] - Height[Holder(b, o[1])] >= CoinbaseMaturity

LEMMA FitsAvailable ==
  ASSUME NEW b, NEW k
  PROVE  /\ SpendsCoins(b, k) <=> Available(b, k)
         /\ TxFits(b, k) <=>
              \/ body[b][k] \in Coinbases
              \/ /\ Available(b, k)
                 /\ Pays(body[b][k], CoinAge(body[b][k],
                                       [o \in Inputs[body[b][k]] |-> Holder(b, o[1])]))
<1>. DEFINE t == body[b][k]
            earlier == InFlight(b, k)
<1>1. Inputs[t] \subseteq Coins(Parent[b]) \cup UNION {OutputsOf(u) : u \in earlier}
        <=> \A o \in Inputs[t] : o \in Coins(Parent[b]) \/ \E u \in earlier : o \in OutputsOf(u)
  OBVIOUS
<1>2. Inputs[t] \cap UNION {Inputs[u] : u \in earlier} = {}
        <=> \A o \in Inputs[t] : \A u \in earlier : o \notin Inputs[u]
  OBVIOUS
<1>3. SpendsCoins(b, k) <=> Available(b, k)
  BY <1>1, <1>2 DEF SpendsCoins, Available, Unspent
<1>. QED
  BY <1>3 DEF TxFits

\* A transaction whose inputs are available keeps the chain sound.
LEMMA SoundFromAvailable ==
  ASSUME body \in Bodies, NEW b \in Blocks \ {Genesis}, SoundChain(Parent[b]),
         OverwritesNoCoin(b), NEW k \in DOMAIN body[b],
         \A j \in 1 .. k - 1 : TxSound(b, j),
         body[b][k] \in Coinbases \/ Available(b, k)
  PROVE  TxSound(b, k)
<1>. DEFINE t == body[b][k]
            p == Parent[b]
<1>1. /\ p \in Blocks /\ b \notin Ancestry[p] /\ Ancestry[b] = Ancestry[p] \cup {b}
      /\ t \in Txs /\ t \in TxsOf(b) /\ k \in 1 .. Len(body[b]) /\ Len(body[b]) \in Nat
  BY ParentChain, BodyFacts
<1>2. CASE t \in Coinbases
  <2>1. Inputs[t] = {}
    BY <1>1, <1>2, TxAssumption
  <2>2. ASSUME NEW c \in Ancestry[p], t \in TxsOf(c)
        PROVE  FALSE
    <3>1. c \in Blocks \ {Genesis} /\ c \in Ancestry[b] \ {Genesis, b}
      BY <1>1, <2>2, BodyFacts, ChainMembers
    <3>2. PICK l \in DOMAIN body[c] : body[c][l] = t
      BY <2>2, <3>1, BodyFacts
    <3>3. SaneContents(body, b) /\ SaneContents(body, c)
      BY <3>1, BodiesAssumption
    <3>4. k = 1 /\ l = 1
      BY <1>2, <3>1, <3>2, <3>3 DEF SaneContents
    <3>5. KeepsCoin(body, b)
      BY <3>1, <3>2, <3>3, <3>4 DEF SaneContents
    <3>6. PICK i \in Indexes(t) :
            \A u \in Txs : <<t, i>> \in Inputs[u] =>
              \A d \in Ancestry[b] : \A j \in DOMAIN body[d] : body[d][j] # u
      BY <3>4, <3>5 DEF KeepsCoin, Indexes
    <3>7. FullySpent(t, View(p, t)) /\ View(p, t).found
      BY <1>1, <2>2, ViewFacts DEF OverwritesNoCoin
    <3>8. i \in View(p, t).spent
      BY <3>6, <3>7 DEF FullySpent
    <3>9. PICK d \in Ancestry[p] : <<t, i>> \in SpentIn(d)
      BY <1>1, <3>7, <3>8, ViewFacts
    <3>10. d \in Blocks /\ d \in Ancestry[b]
      BY <1>1, ChainMembers
    <3>11. PICK j \in DOMAIN body[d] : <<t, i>> \in Inputs[body[d][j]]
      BY <3>9, <3>10, SpentInFacts
    <3>12. body[d][j] \in Txs
      BY <3>10, BodyFacts
    <3>. QED
      BY <3>6, <3>10, <3>11, <3>12
  <2>. QED
    BY <2>1, <2>2 DEF TxSound
<1>3. CASE t \notin Coinbases /\ Available(b, k)
  <2>1. Inputs[t] # {} /\ Inputs[t] \subseteq Txs \X Nat
    BY <1>1, <1>3, TxAssumption
  <2>2. ASSUME NEW o \in Inputs[t]
        PROVE  /\ o[2] \in Indexes(o[1])
               /\ o[1] \in InFlight(b, k) \/ \E c \in Ancestry[p] : o[1] \in TxsOf(c)
               /\ \A c \in Ancestry[p] : o \notin SpentIn(c)
    <3>1. o \in Txs \X Nat /\ o = <<o[1], o[2]>>
      BY <2>1
    <3>2. CASE o \in Coins(p)
      <4>1. View(p, o[1]).found /\ o[2] \in Indexes(o[1])
        BY <1>1, <3>1, <3>2, CoinsOfView
      <4>2. \A c \in Ancestry[p] : o \notin SpentIn(c)
        BY <3>2 DEF Coins
      <4>. QED
        BY <1>1, <4>1, <4>2, ViewFacts
    <3>3. CASE \E u \in InFlight(b, k) : o \in OutputsOf(u)
      <4>1. o[1] \in InFlight(b, k) /\ o[2] \in Indexes(o[1])
        BY <3>3 DEF OutputsOf
      <4>2. PICK j \in 1 .. k - 1 : o[1] = body[b][j]
        BY <4>1 DEF InFlight
      <4>3. \A c \in Ancestry[p] : o[1] \notin TxsOf(c)
        BY <4>2 DEF TxSound
      <4>4. \A c \in Ancestry[p] : <<o[1], o[2]>> \notin SpentIn(c)
        BY <1>1, <4>3, SpentLater
      <4>. QED
        BY <3>1, <4>1, <4>4
    <3>. QED
      BY <1>3, <3>2, <3>3 DEF Available, Unspent
  <2>3. ASSUME NEW c \in Ancestry[p]
        PROVE  t \notin TxsOf(c)
    <3>1. t \in TxsOf(c) => Inputs[t] \subseteq SpentIn(c)
      BY DEF SpentIn
    <3>. QED
      BY <2>1, <2>2, <3>1
  <2>. QED
    BY <2>2, <2>3 DEF TxSound
<1>. QED
  BY <1>2, <1>3


-----------------------------------------------------------------------------
(***************************************************************************)
(* What CheckTransactionInputs asks the store about an input is what the   *)
(* chain below the block and its earlier transactions say of it.           *)
(***************************************************************************)
Offered(o) == store[o[1]].found /\ o[2] \in Indexes(o[1]) \ store[o[1]].spent

LEMMA OneInput ==
  ASSUME Inv, pc = "spend", place \in DOMAIN body[node],
         NEW o \in Inputs[body[node][place]]
  PROVE  /\ o[1] \in DOMAIN store
         /\ Offered(o) <=> Unspent(node, place, o)
         /\ Offered(o) => /\ store[o[1]].height = Height[Holder(node, o[1])]
                          /\ Holder(node, o[1]) \in Ancestry[node]
                          /\ o[1] \in TxsOf(Holder(node, o[1]))
<1>. DEFINE p == Parent[node]
            u == o[1]
<1>1. /\ node \in Blocks \ {Genesis} /\ p \in Blocks /\ body \in Bodies
      /\ Ancestry[p] \subseteq Ancestry[node] /\ node \in Ancestry[node]
      /\ SoundChain(p) /\ OverwritesNoCoin(node)
  BY AttachFacts, ParentChain DEF Inv, ChainInv, CheckInv
<1>2. /\ body[node][place] \in Txs /\ o \in Txs \X Nat /\ o = <<u, o[2]>> /\ u \in Txs
      /\ place \in Nat
  BY <1>1, BodyFacts, TxAssumption
<1>3. /\ \A k \in 1 .. place - 1 : TxSound(node, k)
      /\ DOMAIN store = NeededTxs(node) \cup InFlightTxs(node)
      /\ \A v \in DOMAIN store :
           store[v] = [Base(v) EXCEPT !.spent = @ \cup SpentBefore(v, place)]
  BY DEF Inv, SpendInv
<1>4. u \in NeededTxs(node) \cup InFlightTxs(node)
  BY <1>2 DEF NeededTxs, InFlightTxs
<1>5. o[2] \in Indexes(u) =>
        (o[2] \in SpentBefore(u, place) <=> \E v \in InFlight(node, place) : o \in Inputs[v])
  BY <1>2 DEF SpentBefore, InFlight
<1>6. (\E v \in InFlight(node, place) : o \in OutputsOf(v))
        <=> u \in InFlight(node, place) /\ o[2] \in Indexes(u)
  BY <1>2 DEF OutputsOf
<1>7. Base(u) \in TxData
  <2>1. Fetch(p, u) \in TxData
    BY <1>1, ViewFacts DEF Fetch, Spendable, Missing, TxData
  <2>2. Height[node] \in Nat
    BY <1>1, TreeAssumption
  <2>. QED
    BY <2>1, <2>2 DEF Base, TxData
<1>8. /\ store[u].found <=> Base(u).found
      /\ store[u].height = Base(u).height
      /\ store[u].spent = Base(u).spent \cup SpentBefore(u, place)
  <2>1. store[u] = [Base(u) EXCEPT !.spent = @ \cup SpentBefore(u, place)]
    BY <1>3, <1>4
  <2>2. PICK d \in TxData : d = Base(u)
    BY <1>7
  <2>3. store[u] = [d EXCEPT !.spent = @ \cup SpentBefore(u, place)]
    BY <2>1, <2>2
  <2>. QED
    BY <2>2, <2>3 DEF TxData
<1>9. CASE u \in InFlight(node, place)
  <2>1. PICK j \in 1 .. place - 1 : u = body[node][j]
    BY <1>9 DEF InFlight
  <2>2. TxSound(node, j)
    BY <1>3, <2>1
  <2>3. \A c \in Ancestry[p] : u \notin TxsOf(c)
    BY <2>1, <2>2 DEF TxSound
  <2>4. u \notin NeededTxs(node)
    <3>1. SUFFICES ASSUME NEW k \in DOMAIN body[node], u \notin InFlight(node, k),
                          NEW q \in Inputs[body[node][k]], q[1] = u
                   PROVE  FALSE
      BY DEF NeededTxs
    <3>2. k \in Nat /\ k >= 1
      BY <1>1, BodyFacts
    <3>3. ~ (j < k)
      BY <1>2, <2>1, <3>1, <3>2 DEF InFlight
    <3>4. k \in 1 .. place - 1
      BY <1>2, <2>1, <3>2, <3>3
    <3>5. TxSound(node, k)
      BY <1>3, <3>4
    <3>. QED
      BY <2>3, <3>1, <3>5 DEF TxSound
  <2>5. Base(u) = [found |-> TRUE, height |-> Height[node], spent |-> {}]
    BY <2>4 DEF Base
  <2>6. o \notin Coins(p)
    BY <1>1, <1>2, <2>3, CoinsOfView, ViewFacts
  <2>7. u \in TxsOf(node)
    <3>1. j \in DOMAIN body[node]
      BY <1>1, <1>2, <2>1, BodyFacts
    <3>. QED
      BY <1>1, <2>1, <3>1, BodyFacts
  <2>8. Holder(node, u) = node
    BY <1>1, <2>7, LastHolder
  <2>9. Offered(o) <=> o[2] \in Indexes(u) \ SpentBefore(u, place)
    BY <1>8, <2>5 DEF Offered
  <2>10. Unspent(node, place, o)
           <=> o[2] \in Indexes(u) /\ \A v \in InFlight(node, place) : o \notin Inputs[v]
    BY <1>6, <1>9, <2>6 DEF Unspent
  <2>. QED
    BY <1>1, <1>3, <1>4, <1>5, <1>8, <2>5, <2>7, <2>8, <2>9, <2>10
<1>10. CASE u \notin InFlight(node, place)
  <2>1. u \in NeededTxs(node)
    BY <1>2, <1>10 DEF NeededTxs
  <2>2. Base(u) = Fetch(p, u)
    BY <2>1 DEF Base
  <2>3. /\ (Base(u).found /\ o[2] \in Indexes(u) \ Base(u).spent) <=> o \in Coins(p)
        /\ o \in Coins(p) => Base(u) = View(p, u)
    BY <1>1, <1>2, <2>2, CoinsOfView, SpendableCoins DEF Fetch
  <2>4. o \in Coins(p) => o[2] \in Indexes(u)
    BY <1>1, <1>2, CoinsOfView
  <2>5. Offered(o) <=> o \in Coins(p) /\ o[2] \notin SpentBefore(u, place)
    BY <1>8, <2>3 DEF Offered
  <2>6. Unspent(node, place, o)
          <=> o \in Coins(p) /\ \A v \in InFlight(node, place) : o \notin Inputs[v]
    BY <1>6, <1>10 DEF Unspent
  <2>7. ASSUME o \in Coins(p)
        PROVE  /\ Base(u).height = Height[Holder(node, u)]
               /\ Holder(node, u) \in Ancestry[node] /\ u \in TxsOf(Holder(node, u))
    <3>1. View(p, u).found /\ o[2] \in Indexes(u) \ View(p, u).spent
      BY <1>1, <1>2, <2>7, CoinsOfView
    <3>2. u \notin TxsOf(node)
      BY <1>1, <3>1 DEF OverwritesNoCoin, FullySpent
    <3>3. Holder(node, u) = Holder(p, u)
      BY <1>1, <3>2, LastHolder
    <3>. QED
      BY <1>1, <2>3, <2>7, <3>1, <3>3, ViewFacts
  <2>. QED
    BY <1>3, <1>4, <1>5, <1>8, <2>4, <2>5, <2>6, <2>7
<1>. QED
  BY <1>9, <1>10

\* CheckTransactionInputs finds the inputs of a transaction when they are available.
LEMMA InputsFound ==
  ASSUME Inv, pc = "spend", place \in DOMAIN body[node]
  PROVE  InputsAvailable(body[node][place]) <=> Available(node, place)
<1>. DEFINE t == body[node][place]
<1>1. ASSUME NEW o \in Inputs[t]
      PROVE  (/\ o[1] \in DOMAIN store
              /\ store[o[1]].found
              /\ o[1] \in Coinbases => IsMature(store[o[1]].height)
              /\ o[2] \in Indexes(o[1]) \ store[o[1]].spent
              /\ TxTime[o[1]] <= TxTime[t])
             <=> (/\ Unspent(node, place, o)
                  /\ TxTime[o[1]] <= TxTime[t]
                  /\ o[1] \in Coinbases =>
                       Height[node] - Height[Holder(node, o[1])] >= CoinbaseMaturity)
  <2>1. /\ o[1] \in DOMAIN store /\ (Offered(o) <=> Unspent(node, place, o))
        /\ Offered(o) => store[o[1]].height = Height[Holder(node, o[1])]
    BY OneInput
  <2>2. Offered(o) => (IsMature(store[o[1]].height)
                         <=> Height[node] - Height[Holder(node, o[1])] >= CoinbaseMaturity)
    BY <2>1 DEF IsMature
  <2>. HIDE DEF t
  <2>. QED
    BY <2>1, <2>2 DEF Offered
<1>. QED
  BY <1>1 DEF InputsAvailable, Available


-----------------------------------------------------------------------------
\* What a check depends on does not change while it runs.
LEMMA SameCall ==
  ASSUME UNCHANGED <<body, tip, node>>
  PROVE  /\ \A u : Base(u)' = Base(u)
         /\ \A u, k : SpentBefore(u, k)' = SpentBefore(u, k)
<1>1. \A u : Fetch(Parent[node], u)' = Fetch(Parent[node], u)
  BY SameBody DEF Fetch, Spendable, FullySpent
<1>2. NeededTxs(node)' = NeededTxs(node)
  BY SameBody
<1>. QED
  BY <1>1, <1>2 DEF Base, SpentBefore

LEMMA SpendStep ==
  ASSUME Inv, SpendInputs
  PROVE  Inv'
<1>. USE DEF Inv
<1>. DEFINE t == body[node][place]
<1>1. /\ pc = "spend" /\ place <= Len(body[node])
      /\ UNCHANGED <<body, tip, known>>
  BY DEF SpendInputs
<1>2. /\ node \in Blocks \ {Genesis} /\ body \in Bodies
      /\ Len(body[node]) \in Nat /\ place \in 1 .. Len(body[node])
      /\ place \in DOMAIN body[node] /\ t \in Txs
      /\ SoundChain(Parent[node]) /\ OverwritesNoCoin(node)
  BY <1>1, AttachFacts, BodyFacts DEF ChainInv, CheckInv, SpendInv
<1>3. CASE ~ CheckTransactionInputs(t)
  BY <1>1, <1>3, ReturnInv DEF SpendInputs
<1>4. CASE CheckTransactionInputs(t)
  <2>1. /\ store' = MarkSpent(t) /\ place' = place + 1
        /\ UNCHANGED <<body, tip, known, pc, node, attach, undo, redo>>
    BY <1>1, <1>4 DEF SpendInputs
  <2>2. \A k \in 1 .. place - 1 : TxSound(node, k)
    BY <1>1 DEF SpendInv
  <2>3. TxSound(node, place)
    <3>1. t \in Coinbases \/ Available(node, place)
      BY <1>1, <1>2, <1>4, InputsFound DEF CheckTransactionInputs
    <3>. QED
      BY <1>2, <2>2, <3>1, SoundFromAvailable
  <2>4. \A k \in 1 .. place' - 1 : TxSound(node, k)'
    <3>1. \A k \in 1 .. place' - 1 : k = place \/ k \in 1 .. place - 1
      BY <1>2, <2>1
    <3>2. \A k : TxSound(node, k)' <=> TxSound(node, k)
      BY <2>1, SameBody
    <3>. QED
      BY <2>2, <2>3, <3>1, <3>2
  <2>5. DOMAIN store' = DOMAIN store
        /\ DOMAIN store' = NeededTxs(node)' \cup InFlightTxs(node)'
    BY <1>1, <2>1, SameBody DEF MarkSpent, SpendInv
  <2>6. ASSUME NEW u \in DOMAIN store
        PROVE  store'[u] = [Base(u)' EXCEPT !.spent = @ \cup SpentBefore(u, place)']
    <3>1. store'[u] = [store[u] EXCEPT !.spent =
                         @ \cup {i \in Indexes(u) : <<u, i>> \in Inputs[t]}]
      BY <2>1 DEF MarkSpent
    <3>2. SpentBefore(u, place)' =
            SpentBefore(u, place) \cup {i \in Indexes(u) : <<u, i>> \in Inputs[t]}
      <4>1. \A j : j \in 1 .. place' - 1 <=> j = place \/ j \in 1 .. place - 1
        BY <1>2, <2>1
      <4>. QED
        BY <2>1, <4>1 DEF SpentBefore
    <3>3. store[u] = [Base(u) EXCEPT !.spent = @ \cup SpentBefore(u, place)]
      BY <1>1 DEF SpendInv
    <3>4. Base(u)' = Base(u)
      BY <2>1, SameCall
    <3>5. Base(u) \in TxData
      <4>1. Fetch(Parent[node], u) \in TxData
        BY <1>2, ViewFacts, ParentChain DEF Fetch, Spendable, Missing, TxData
      <4>2. Height[node] \in Nat
        BY <1>2, TreeAssumption
      <4>. QED
        BY <4>1, <4>2 DEF Base, TxData
    <3>. HIDE DEF t
    <3>. QED
      BY <3>1, <3>2, <3>3, <3>4, <3>5 DEF TxData
  <2>7. SpendInv'
    <3>1. place' \in 1 .. Len(body[node])' + 1
      BY <1>2, <2>1
    <3>. QED
      BY <2>4, <2>5, <2>6, <3>1 DEF SpendInv
  <2>8. ChainInv' /\ CheckInv'
    BY <1>1, <1>2, <2>1, SameCheck
  <2>. QED
    BY <1>1, <2>1, <2>7, <2>8 DEF DeriveInv, ConnectInv
<1>. QED
  BY <1>3, <1>4

\* The check of a block begins with what the invariant says of it.
LEMMA StartInv ==
  ASSUME ChainInv, NEW n \in Blocks \ {Genesis}, StartCheck(n), UNCHANGED <<body, tip>>,
         known' \in SUBSET Blocks, tip \in known', \A b \in known' : Ancestry[b] \subseteq known',
         SoundChain(Parent[n]), n \in attach',
         \E b \in Blocks \ Ancestry[tip] : attach' = ChainAbove(b, Fork(b))
  PROVE  Inv'
<1>1. pc' = "bip30" /\ node' = n /\ FetchTxStore(n, TxsOf(n))
  BY DEF StartCheck
<1>2. DeriveInv'
  BY <1>1, FetchStarts
<1>3. \A b : Fork(b)' = Fork(b)
  BY DEF Fork
<1>4. (SoundChain(Parent[n])' <=> SoundChain(Parent[n])) /\ (SoundChain(tip)' <=> SoundChain(tip))
  BY SameBody
<1>5. CheckInv'
  BY <1>1, <1>3, <1>4 DEF CheckInv
<1>6. ChainInv'
  BY <1>1, <1>4 DEF ChainInv
<1>. QED
  BY <1>1, <1>2, <1>5, <1>6 DEF Inv, SpendInv, ConnectInv

LEMMA DeliverStep ==
  ASSUME Inv, NEW b \in Blocks \ {Genesis}, Deliver(b)
  PROVE  Inv'
<1>. USE DEF Inv
<1>1. /\ pc = "idle" /\ b \notin known /\ Parent[b] \in known
      /\ UNCHANGED <<body, tip, supply>>
  BY DEF Deliver
<1>2. /\ tip \in Blocks /\ tip \in Ancestry[tip] /\ b \notin Ancestry[tip]
      /\ Ancestry[b] = Ancestry[Parent[b]] \cup {b} /\ Parent[b] \in Ancestry[b]
      /\ SoundChain(tip) /\ known \subseteq Blocks
      /\ \A c \in known : Ancestry[c] \subseteq known
  BY <1>1, ParentChain, ChainsAreChains DEF ChainInv, ChainFacts
<1>3. /\ Fork(b) \in Ancestry[b] \cap Ancestry[tip]
      /\ \A c \in Ancestry[b] \cap Ancestry[tip] : Height[c] <= Height[Fork(b)]
  BY <1>2, ForkFacts
<1>4. CASE Parent[b] = tip
  <2>1. attach' = {b} /\ StartCheck(b) /\ UNCHANGED known
    BY <1>4 DEF Deliver
  <2>2. Fork(b) = tip
    <3>1. Height[tip] <= Height[Fork(b)] /\ Height[Fork(b)] <= Height[tip]
      BY <1>2, <1>3, <1>4, ChainsAreChains DEF ChainFacts
    <3>2. Height[tip] = Height[Fork(b)]
      BY <1>2, <1>3, <3>1, ChainMembers, TreeAssumption
    <3>. QED
      BY <1>2, <1>3, <3>2, ChainMembers
  <2>3. ChainAbove(b, tip) = {b}
    BY <1>2, <1>4, EndOfChain, NothingAbove
  <2>. QED
    BY <1>2, <1>4, <2>1, <2>2, <2>3, StartInv, <1>1 DEF ChainInv
<1>5. CASE Parent[b] # tip
  <2>1. known' = known \cup {b}
    BY <1>5 DEF Deliver
  <2>2. /\ known' \in SUBSET Blocks /\ tip \in known'
        /\ \A c \in known' : Ancestry[c] \subseteq known'
    BY <1>1, <1>2, <2>1 DEF ChainInv
  <2>3. CASE Work[b] <= Work[tip]
    <3>1. UNCHANGED <<pc, node, attach, storeVars, place>>
      BY <1>5, <2>3 DEF Deliver
    <3>2. SoundChain(tip)' <=> SoundChain(tip)
      BY <1>1, SameBody
    <3>. QED
      BY <1>1, <2>2, <3>1, <3>2 DEF ChainInv, DeriveInv, CheckInv, SpendInv, ConnectInv
  <2>4. CASE ~ (Work[b] <= Work[tip])
    <3>1. attach' = ChainAbove(b, Fork(b)) /\ StartCheck(NextToCheck(ChainAbove(b, Fork(b))))
      BY <1>5, <2>4 DEF Deliver
    <3>2. PICK n \in Blocks \ {Genesis} :
            n = Lowest(ChainAbove(b, Fork(b))) /\ n \in attach' /\ Parent[n] = Fork(b)
      BY <1>2, <1>3, <3>1, NextInChain
    <3>3. SoundChain(Parent[n])
      BY <1>2, <1>3, <3>2, SoundBelow
    <3>4. StartCheck(n)
      BY <3>1, <3>2 DEF NextToCheck
    <3>. QED
      BY <1>1, <1>2, <2>2, <3>1, <3>2, <3>3, <3>4, StartInv
  <2>. QED
    BY <2>3, <2>4
<1>. QED
  BY <1>4, <1>5

\* At the end of its check a block is sound.
LEMMA CheckedSound ==
  ASSUME Inv, pc = "spend", place > Len(body[node])
  PROVE  Sound(node) /\ SoundChain(node) /\ node \in Blocks \ {Genesis}
<1>1. node \in Blocks \ {Genesis} /\ SoundChain(Parent[node]) /\ body \in Bodies
  BY AttachFacts DEF Inv, ChainInv, CheckInv
<1>2. DOMAIN body[node] = 1 .. Len(body[node]) /\ Len(body[node]) \in Nat
  BY <1>1, BodyFacts
<1>3. place = Len(body[node]) + 1
  BY <1>2 DEF Inv, SpendInv
<1>4. \A k \in DOMAIN body[node] : k \in 1 .. place - 1
  BY <1>2, <1>3
<1>5. Sound(node)
  BY <1>4 DEF Sound, Inv, SpendInv
<1>. QED
  BY <1>1, <1>5, SoundAbove

\* The blocks to attach that are above the node.
LEMMA RestOfAttach ==
  ASSUME Inv, pc = "spend", NEW b \in Blocks, attach = ChainAbove(b, Fork(b))
  PROVE  /\ {c \in attach : Height[c] > Height[node]} = ChainAbove(b, node)
         /\ node \in Ancestry[b] /\ node # Fork(b)
<1>1. tip \in Blocks
  BY DEF Inv, ChainInv
<1>2. node \in Ancestry[b] /\ Height[node] > Height[Fork(b)]
  BY DEF Inv, CheckInv, ChainAbove
<1>3. Height[node] \in Nat /\ Height[Fork(b)] \in Nat /\ \A c \in Ancestry[b] : Height[c] \in Nat
  BY <1>1, <1>2, ForkFacts, TreeAssumption
<1>. QED
  BY <1>2, <1>3 DEF ChainAbove

LEMMA EndCheckStep ==
  ASSUME Inv, EndCheck
  PROVE  Inv'
<1>. USE DEF Inv
<1>1. pc = "spend" /\ place > Len(body[node]) /\ UNCHANGED <<body, known>>
  BY DEF EndCheck
<1>2. Sound(node) /\ SoundChain(node) /\ node \in Blocks \ {Genesis}
  BY <1>1, CheckedSound
<1>3. PICK b \in Blocks \ Ancestry[tip] : attach = ChainAbove(b, Fork(b))
  BY <1>1 DEF CheckInv
<1>4. /\ {c \in attach : Height[c] > Height[node]} = ChainAbove(b, node)
      /\ node \in Ancestry[b] /\ node # Fork(b)
  BY <1>1, <1>3, RestOfAttach
<1>5. CASE ~IsProofOfStake(node) /\ ValueOut(body[node][1]) > ProofOfWorkReward
  BY <1>1, <1>5, ReturnInv DEF EndCheck
<1>6. CASE ~ (~IsProofOfStake(node) /\ ValueOut(body[node][1]) > ProofOfWorkReward)
  <2>1. CASE ChainAbove(b, node) # {}
    <3>1. StartCheck(Lowest(ChainAbove(b, node))) /\ UNCHANGED <<tip, attach>>
      BY <1>4, <1>6, <2>1 DEF EndCheck
    <3>2. b # node
      BY <1>2, <2>1, NothingAbove
    <3>3. PICK n \in Blocks \ {Genesis} :
            n = Lowest(ChainAbove(b, node)) /\ n \in ChainAbove(b, node) /\ Parent[n] = node
      BY <1>3, <1>4, <3>2, NextInChain
    <3>. QED
      BY <1>1, <1>2, <1>3, <1>4, <3>1, <3>3, StartInv DEF ChainInv
  <2>2. CASE ChainAbove(b, node) = {}
    <3>1. pc' = "connect" /\ tip' = Fork(node) /\ UNCHANGED <<node, attach, storeVars, place>>
      BY <1>4, <1>6, <2>2 DEF EndCheck
    <3>2. node = b
      BY <1>3, <1>4, <2>2, NothingAbove
    <3>3. PICK f \in Ancestry[node] \cap Ancestry[tip] : f = Fork(node)
      BY <1>2, ForkFacts DEF ChainInv
    <3>4. f \in known /\ SoundChain(f) /\ f \in Ancestry[node] \ {node}
      BY <1>2, <1>4, <3>2, <3>3, SoundBelow DEF ChainInv
    <3>5. SoundChain(f)' /\ SoundChain(node)'
      BY <1>1, <1>2, <3>1, <3>4, SameBody
    <3>6. ChainInv'
      BY <1>1, <3>1, <3>3, <3>4, <3>5 DEF ChainInv
    <3>7. ConnectInv'
      BY <1>2, <1>3, <3>1, <3>2, <3>3, <3>4, <3>5 DEF ConnectInv
    <3>. QED
      BY <3>1, <3>6, <3>7 DEF DeriveInv, CheckInv, SpendInv
  <2>. QED
    BY <2>1, <2>2
<1>. QED
  BY <1>5, <1>6


\* A sound block that extends the main chain finds in the database what it spends.
LEMMA SoundLooksUp ==
  ASSUME body \in Bodies, NEW b \in Blocks \ {Genesis}, Sound(b), Parent[b] = tip
  PROVE  CanLookUp(b)
<1>1. SUFFICES ASSUME NEW k \in DOMAIN body[b], NEW o \in Inputs[body[b][k]]
               PROVE  /\ o[2] \in Indexes(o[1])
                      /\ \/ o[1] \in InFlight(b, k)
                         \/ FetchTxStoreMain({o[1]}, FALSE)[o[1]].found
  BY DEF CanLookUp
<1>2. /\ tip \in Blocks /\ body[b][k] \in Txs /\ o \in Txs \X Nat /\ o = <<o[1], o[2]>>
      /\ TxSound(b, k)
  BY ParentChain, BodyFacts, TxAssumption DEF Sound
<1>3. CASE \E c \in Ancestry[tip] : o[1] \in TxsOf(c)
  <2>1. View(tip, o[1]).found /\ o[2] \in Indexes(o[1])
    BY <1>2, <1>3, ViewFacts DEF TxSound
  <2>2. \A c \in Ancestry[tip] : o \notin SpentIn(c)
    BY <1>2 DEF TxSound
  <2>3. o[2] \notin View(tip, o[1]).spent
    BY <1>2, <2>1, <2>2, ViewFacts
  <2>4. ~ FullySpent(o[1], View(tip, o[1]))
    BY <2>1, <2>3 DEF FullySpent
  <2>. QED
    BY <2>1, <2>4 DEF FetchTxStoreMain
<1>. QED
  BY <1>2, <1>3 DEF TxSound

LEMMA ConnectStep ==
  ASSUME Inv, ConnectBlock
  PROVE  Inv'
<1>. USE DEF Inv
<1>1. /\ pc = "connect" /\ UNCHANGED body
      /\ node \in Blocks /\ SoundChain(node) /\ tip \in Ancestry[node] /\ tip # node
      /\ attach = ChainAbove(node, tip)
  BY DEF ConnectBlock, ConnectInv
<1>2. PICK n \in Blocks \ {Genesis} :
        /\ n = Lowest(attach) /\ n \in attach /\ Parent[n] = tip
        /\ ChainAbove(node, n) = attach \ {n}
  BY <1>1, NextInChain
<1>3. n \in Ancestry[node]
  BY <1>1, <1>2 DEF ChainAbove
<1>4. Sound(n) /\ SoundChain(n) /\ body \in Bodies
  BY <1>1, <1>2, <1>3, SoundBelow DEF SoundChain, ChainInv
<1>5. CanLookUp(n)
  BY <1>2, <1>4, SoundLooksUp
<1>6. /\ tip' = n /\ known' = known \cup {n}
      /\ IF attach = {n} THEN Return
         ELSE attach' = attach \ {n} /\ UNCHANGED <<pc, node, storeVars, place>>
  BY <1>2, <1>5 DEF ConnectBlock, Indexed
<1>7. SoundChain(n)' /\ (node' = node => SoundChain(node)')
  BY <1>1, <1>4, SameBody
<1>8. ChainInv'
  <2>1. Ancestry[n] = Ancestry[tip] \cup {n} /\ Ancestry[tip] \subseteq known
    BY <1>2, ParentChain DEF ChainInv
  <2>2. pc' # "panic"
    BY <1>1, <1>6 DEF Return
  <2>. QED
    BY <1>1, <1>2, <1>6, <1>7, <2>1, <2>2 DEF ChainInv
<1>9. CASE attach = {n}
  BY <1>6, <1>8, <1>9 DEF Return, DeriveInv, CheckInv, SpendInv, ConnectInv
<1>10. CASE attach # {n}
  <2>1. n # node
    BY <1>1, <1>2, <1>10, NothingAbove
  <2>2. attach' = ChainAbove(node, n) /\ UNCHANGED <<pc, node>>
    BY <1>2, <1>6, <1>10
  <2>3. ConnectInv'
    BY <1>1, <1>3, <1>6, <1>7, <2>1, <2>2 DEF ConnectInv
  <2>. QED
    BY <1>1, <1>8, <2>2, <2>3 DEF DeriveInv, CheckInv, SpendInv
<1>. QED
  BY <1>9, <1>10

(***************************************************************************)
(* The inductive invariant holds: the main chain, and every chain that is  *)
(* checked or connected, is sound, and the store is a view on the way.     *)
(***************************************************************************)
THEOREM Invariance == Spec => []Inv
<1>1. ASSUME Inv, [Next]_vars
      PROVE  Inv'
  <2>1. CASE UNCHANGED vars
    <3>1. UNCHANGED <<body, tip, known, pc, node, attach, store, undo, redo, place>>
      BY <2>1 DEF vars, storeVars
    <3>2. ChainInv' /\ CheckInv' /\ ConnectInv'
      <4>1. \A b : SoundChain(b)' <=> SoundChain(b)
        BY <3>1, SameBody
      <4>2. /\ SoundChain(tip)' <=> SoundChain(tip)
            /\ SoundChain(node)' <=> SoundChain(node)
            /\ SoundChain(Parent[node])' <=> SoundChain(Parent[node])
            /\ OverwritesNoCoin(node)' <=> OverwritesNoCoin(node)
        BY <3>1, SameBody
      <4>3. \A b : Fork(b)' = Fork(b)
        BY <3>1 DEF Fork
      <4>. QED
        BY <1>1, <3>1, <4>2, <4>3 DEF Inv, ChainInv, CheckInv, ConnectInv
    <3>3. DeriveInv'
      <4>1. \A at : StoreAt(at)' <=> StoreAt(at)
        BY <3>1, SameBody DEF StoreAt, Fetch, Spendable, FullySpent
      <4>2. TxsOf(node)' = TxsOf(node) /\ NeededTxs(node)' = NeededTxs(node)
        BY <3>1, SameBody
      <4>. QED
        BY <1>1, <3>1, <4>1, <4>2 DEF Inv, DeriveInv
    <3>4. SpendInv'
      <4>1. \A u : Base(u)' = Base(u) /\ SpentBefore(u, place)' = SpentBefore(u, place)
        BY <3>1, SameCall
      <4>2. /\ NeededTxs(node)' = NeededTxs(node) /\ InFlightTxs(node)' = InFlightTxs(node)
            /\ \A k : TxSound(node, k)' <=> TxSound(node, k)
        BY <3>1, SameBody
      <4>. QED
        BY <1>1, <3>1, <4>1, <4>2 DEF Inv, SpendInv
    <3>. QED
      BY <3>2, <3>3, <3>4 DEF Inv
  <2>. QED
    BY <1>1, <2>1, DeliverStep, DetachStep, AttachStep, CheckBIP0030Step, MergeStep,
       SpendStep, EndCheckStep, ConnectStep DEF Next
<1>. QED
  BY <1>1, InitInv, PTL DEF Spec


-----------------------------------------------------------------------------
\* A chain has a block of every height up to its own.
LEMMA HeightsOfChain ==
  ASSUME NEW b \in Blocks, NEW h \in 0 .. Height[b]
  PROVE  \E c \in Ancestry[b] : Height[c] = h
<1>. DEFINE S == {e \in Blocks : \A i \in 0 .. Height[e] : \E c \in Ancestry[e] : Height[c] = i}
<1>1. Genesis \in S
  BY TreeAssumption
<1>2. ASSUME NEW e \in Blocks \ {Genesis}, Parent[e] \in S
      PROVE  e \in S
  <2>1. ASSUME NEW i \in 0 .. Height[e]
        PROVE  \E c \in Ancestry[e] : Height[c] = i
    <3>1. i = Height[e] \/ i \in 0 .. Height[Parent[e]]
      BY TreeAssumption
    <3>. QED
      BY <1>2, <3>1, TreeAssumption
  <2>. QED
    BY <2>1
<1>3. Blocks \subseteq S
  <2>. HIDE DEF S
  <2>. QED
    BY <1>1, <1>2, ChainInduction
<1>. QED
  BY <1>3

\* The main chain has at a height the block FetchBlockShaByHeight names.
LEMMA MainChainAt ==
  ASSUME tip \in Blocks
  PROVE  /\ \A h \in 0 .. Height[tip] :
              MainChainBlock(h) \in Ancestry[tip] /\ Height[MainChainBlock(h)] = h
         /\ \A c \in Ancestry[tip] :
              Height[c] \in 0 .. Height[tip] /\ MainChainBlock(Height[c]) = c
<1>1. ASSUME NEW h \in 0 .. Height[tip]
      PROVE  MainChainBlock(h) \in Ancestry[tip] /\ Height[MainChainBlock(h)] = h
  BY HeightsOfChain DEF MainChainBlock, ChainBlock
<1>2. ASSUME NEW c \in Ancestry[tip]
      PROVE  Height[c] \in 0 .. Height[tip] /\ MainChainBlock(Height[c]) = c
  <2>1. Height[c] \in 0 .. Height[tip]
    BY ChainMembers, ChainsAreChains, TreeAssumption DEF ChainFacts
  <2>2. MainChainBlock(Height[c]) \in Ancestry[tip] /\ Height[MainChainBlock(Height[c])] = Height[c]
    BY <1>1, <2>1
  <2>. QED
    BY <2>1, <2>2, ChainMembers
<1>. QED
  BY <1>1, <1>2

(***************************************************************************)
(* getCoinAgeTx: "Older transactions are guaranteed to be in main chain by *)
(* sync-checkpoint."  Where the chain of the node and the main chain       *)
(* differ, neither has a block whose coins are of age.                     *)
(***************************************************************************)
ReorgsAreShort ==
  pc \in {"bip30", "inputs", "spend"} =>
    \A c \in Ancestry[node] \ Ancestry[tip], d \in Ancestry[tip] :
      Height[d] = Height[c] =>
        /\ ~ (BlockTime[c] + StakeMinAge <= BlockTime[node])
        /\ ~ (BlockTime[d] + StakeMinAge <= BlockTime[node])

\* The time of the block at a height decides the age of a coin; it is the same in the
\* database and in the chain of the node when the blocks are, or when reorganizations
\* are short.
LEMMA AgeOfCoins ==
  ASSUME Inv, pc = "spend", place \in DOMAIN body[node],
         body[node][place] \in Coinstakes, Available(node, place),
         \A o \in Inputs[body[node][place]] : store[o[1]].height <= Height[tip],
         StakesSharedCoins(node) \/ ReorgsAreShort
  PROVE  CoinAge(body[node][place],
                 [o \in Inputs[body[node][place]] |-> MainChainBlock(store[o[1]].height)])
           = CoinAge(body[node][place],
                     [o \in Inputs[body[node][place]] |-> Holder(node, o[1])])
<1>. DEFINE t == body[node][place]
            found == [o \in Inputs[t] |-> MainChainBlock(store[o[1]].height)]
            held == [o \in Inputs[t] |-> Holder(node, o[1])]
<1>1. /\ node \in Blocks \ {Genesis} /\ tip \in Blocks /\ body \in Bodies
      /\ t \in TxsOf(node)
  BY AttachFacts, BodyFacts DEF Inv, ChainInv
<1>2. TxTime[t] = BlockTime[node]
  <2>1. SaneContents(body, node)
    BY <1>1, BodiesAssumption
  <2>. QED
    BY <2>1 DEF SaneContents
<1>3. ASSUME NEW o \in Inputs[t]
      PROVE  BlockTime[found[o]] + StakeMinAge <= TxTime[t]
               <=> BlockTime[held[o]] + StakeMinAge <= TxTime[t]
  <2>1. /\ store[o[1]].height = Height[held[o]] /\ held[o] \in Ancestry[node]
        /\ o[1] \in TxsOf(held[o])
    BY OneInput DEF Available
  <2>2. Height[held[o]] \in 0 .. Height[tip]
    <3>1. held[o] \in Blocks
      BY <1>1, <2>1, ChainMembers
    <3>2. Height[held[o]] \in Nat /\ Height[tip] \in Nat /\ Height[held[o]] <= Height[tip]
      BY <1>1, <2>1, <3>1, TreeAssumption
    <3>. QED
      BY <3>2
  <2>3. found[o] \in Ancestry[tip] /\ Height[found[o]] = Height[held[o]]
    BY <1>1, <2>1, <2>2, MainChainAt
  <2>4. CASE held[o] \in Ancestry[tip]
    <3>1. found[o] = held[o]
      BY <1>1, <2>1, <2>4, MainChainAt
    <3>. QED
      BY <3>1
  <2>5. CASE held[o] \notin Ancestry[tip]
    <3>1. ~ StakesSharedCoins(node)
      BY <1>1, <2>1, <2>5 DEF StakesSharedCoins
    <3>2. ReorgsAreShort
      BY <3>1
    <3>3. held[o] \in Ancestry[node] \ Ancestry[tip]
      BY <2>1, <2>5
    <3>. HIDE DEF found, held, t
    <3>. QED
      BY <1>2, <2>3, <3>2, <3>3 DEF ReorgsAreShort
  <2>. QED
    BY <2>4, <2>5
<1>4. OldEnough(t, found) = OldEnough(t, held)
  <2>. HIDE DEF found, held, t
  <2>. QED
    BY <1>3 DEF OldEnough
<1>. QED
  BY <1>4 DEF CoinAge

(***************************************************************************)
(* What a transaction that passes CheckTransactionInputs is known to be:   *)
(* it finds its inputs, and is right by a chain the node has; by its own   *)
(* if reorganizations are short.  And what passes is exactly what fits     *)
(* when the coins are shared.                                              *)
(***************************************************************************)
TxPasses(b, k, short) ==
  /\ body[b][k] \in Coinbases \/ Available(b, k)
  /\ TxJudged(b, k)
  /\ short => TxFits(b, k)

\* getCoinAgeTx takes the chain that is the main chain for the chain of the block.
LEMMA JudgedByTip ==
  ASSUME Inv, pc = "spend", place \in DOMAIN body[node],
         body[node][place] \in Coinstakes, Available(node, place),
         StakePays(body[node][place])
  PROVE  TxJudged(node, place)
<1>. DEFINE t == body[node][place]
<1>1. tip \in known /\ node \notin Ancestry[tip]
  BY AttachFacts DEF Inv, ChainInv
<1>2. \A o \in Inputs[t] : store[o[1]].height = Height[Holder(node, o[1])]
  BY OneInput DEF Available
<1>3. [o \in Inputs[t] |-> MainChainBlock(store[o[1]].height)]
        = [o \in Inputs[t] |-> ChainBlock(tip, Height[Holder(node, o[1])])]
  BY <1>2 DEF MainChainBlock
<1>4. FairBy(node, t, tip)
  BY <1>2, <1>3 DEF StakePays, FairBy
<1>5. SpendsCoins(node, place)
  BY FitsAvailable
<1>. QED
  BY <1>1, <1>4, <1>5 DEF TxJudged

LEMMA CheckedTx ==
  ASSUME Inv, pc = "spend", place \in DOMAIN body[node], NEW short \in BOOLEAN
  PROVE  /\ (short => ReorgsAreShort) /\ CheckTransactionInputs(body[node][place])
              => TxPasses(node, place, short)
         /\ StakesSharedCoins(node) =>
              (CheckTransactionInputs(body[node][place]) <=> TxFits(node, place))
<1>. DEFINE t == body[node][place]
            held == [o \in Inputs[t] |-> Holder(node, o[1])]
            found == [o \in Inputs[t] |-> MainChainBlock(store[o[1]].height)]
<1>1. CASE t \in Coinbases
  <2>1. CheckTransactionInputs(t) /\ TxFits(node, place) /\ TxJudged(node, place)
    BY <1>1, FitsAvailable DEF CheckTransactionInputs, TxJudged
  <2>. QED
    BY <1>1, <2>1 DEF TxPasses
<1>2. CASE t \notin Coinbases /\ t \notin Coinstakes
  <2>1. TxFits(node, place) <=> Available(node, place) /\ Pays(t, CoinAge(t, held))
    BY <1>2, FitsAvailable
  <2>2. CheckTransactionInputs(t) <=> Available(node, place) /\ Pays(t, 0)
    BY <1>2, InputsFound DEF CheckTransactionInputs
  <2>3. Pays(t, 0) <=> Pays(t, CoinAge(t, held))
    BY <1>2 DEF Pays
  <2>4. Available(node, place) /\ Pays(t, 0) => TxJudged(node, place)
    BY <1>2, FitsAvailable DEF TxJudged
  <2>. QED
    BY <2>1, <2>2, <2>3, <2>4 DEF TxPasses
<1>3. CASE t \notin Coinbases /\ t \in Coinstakes
  <2>1. TxFits(node, place) <=> Available(node, place) /\ Pays(t, CoinAge(t, held))
    BY <1>3, FitsAvailable
  <2>2. CheckTransactionInputs(t) <=>
          /\ Available(node, place)
          /\ \A o \in Inputs[t] : store[o[1]].height <= Height[tip]
          /\ Pays(t, CoinAge(t, found))
    BY <1>3, InputsFound DEF CheckTransactionInputs, StakePays
  <2>3. ASSUME Available(node, place), \A o \in Inputs[t] : store[o[1]].height <= Height[tip],
               StakesSharedCoins(node) \/ ReorgsAreShort
        PROVE  CoinAge(t, found) = CoinAge(t, held)
    BY <1>3, <2>3, AgeOfCoins
  <2>4. ASSUME StakesSharedCoins(node), Available(node, place)
        PROVE  \A o \in Inputs[t] : store[o[1]].height <= Height[tip]
    <3>1. node \in Blocks /\ tip \in Blocks /\ body \in Bodies /\ t \in TxsOf(node)
      BY AttachFacts, BodyFacts DEF Inv, ChainInv
    <3>2. ASSUME NEW o \in Inputs[t]
          PROVE  store[o[1]].height <= Height[tip]
      <4>1. /\ store[o[1]].height = Height[Holder(node, o[1])]
            /\ Holder(node, o[1]) \in Ancestry[node] /\ o[1] \in TxsOf(Holder(node, o[1]))
        BY <2>4, OneInput DEF Available
      <4>2. Holder(node, o[1]) \in Ancestry[tip]
        BY <1>3, <2>4, <3>1, <4>1 DEF StakesSharedCoins
      <4>. QED
        BY <3>1, <4>1, <4>2, ChainsAreChains DEF ChainFacts
    <3>. QED
      BY <3>2
  <2>7. CheckTransactionInputs(t) => TxJudged(node, place)
    <3>1. CheckTransactionInputs(t) => Available(node, place) /\ StakePays(t)
      BY <1>3, <2>2 DEF CheckTransactionInputs
    <3>. QED
      BY <1>3, <3>1, JudgedByTip
  <2>. HIDE DEF held, found, t
  <2>5. (short => ReorgsAreShort) /\ CheckTransactionInputs(t)
          => Available(node, place) /\ TxJudged(node, place) /\ (short => TxFits(node, place))
    BY <2>1, <2>2, <2>3, <2>7
  <2>6. StakesSharedCoins(node) => (CheckTransactionInputs(t) <=> TxFits(node, place))
    BY <2>1, <2>2, <2>3, <2>4
  <2>. QED
    BY <1>3, <2>5, <2>6 DEF TxPasses, t
<1>. QED
  BY <1>1, <1>2, <1>3


-----------------------------------------------------------------------------
(***************************************************************************)
(* On top of that invariant: what passed the check passes on the main      *)
(* chain.  Where reorganizations are short, short is TRUE and passing is   *)
(* fitting.                                                                *)
(***************************************************************************)
Passes(b, short) ==
  /\ OverwritesNoCoin(b)
  /\ \A k \in DOMAIN body[b] : TxPasses(b, k, short)
  /\ IsProofOfStake(b) \/ ~ (ValueOut(body[b][1]) > ProofOfWorkReward)
PassChain(b, short) == \A c \in Ancestry[b] \ {Genesis} : Passes(c, short)
PassInv(short) ==
  /\ PassChain(tip, short)
  /\ pc \in {"bip30", "inputs", "spend"} => PassChain(Parent[node], short)
  /\ pc = "spend" => \A k \in 1 .. place - 1 : TxPasses(node, k, short)
  /\ pc = "connect" => PassChain(node, short)

LEMMA SamePass ==
  ASSUME body' = body, known \subseteq known'
  PROVE  /\ \A b, k : TxFits(b, k)' <=> TxFits(b, k)
         /\ \A b, k, short : TxPasses(b, k, short) => TxPasses(b, k, short)'
         /\ \A b, short : PassChain(b, short) => PassChain(b, short)'
<1>1. \A b : Coins(b)' = Coins(b)
  BY DEF Coins, Created, TxsOf, SpentIn
<1>2. \A b, t : Holder(b, t)' = Holder(b, t)
  BY DEF Holder, TxsOf
<1>3. \A b, k : InFlight(b, k)' = InFlight(b, k)
  BY DEF InFlight
<1>4. \A b, k : Available(b, k)' <=> Available(b, k)
  BY <1>1, <1>2, <1>3 DEF Available, Unspent
<1>5. \A b, k : SpendsCoins(b, k)' <=> SpendsCoins(b, k)
  BY <1>1, <1>2, <1>3 DEF SpendsCoins
<1>6. \A b, k : TxFits(b, k)' <=> TxFits(b, k)
  BY <1>2, <1>5 DEF TxFits
<1>7. \A b, t, m : FairBy(b, t, m)' <=> FairBy(b, t, m)
  BY <1>2 DEF FairBy
<1>8. \A b, k : TxJudged(b, k) => TxJudged(b, k)'
  BY <1>5, <1>7 DEF TxJudged
<1>9. \A b, k, short : TxPasses(b, k, short) => TxPasses(b, k, short)'
  BY <1>4, <1>6, <1>8 DEF TxPasses
<1>10. \A b : OverwritesNoCoin(b)' <=> OverwritesNoCoin(b)
  BY SameBody
<1>11. \A b, short : PassChain(b, short) => PassChain(b, short)'
  BY <1>9, <1>10 DEF PassChain, Passes, IsProofOfStake
<1>. QED
  BY <1>6, <1>9, <1>11

LEMMA PassBelow ==
  ASSUME NEW short, NEW b \in Blocks, PassChain(b, short), NEW c \in Ancestry[b]
  PROVE  PassChain(c, short)
  BY ChainMembers DEF PassChain

\* At the end of its check a block passes.
LEMMA CheckedPasses ==
  ASSUME NEW short, Inv, PassInv(short), pc = "spend", place > Len(body[node]),
         IsProofOfStake(node) \/ ~ (ValueOut(body[node][1]) > ProofOfWorkReward)
  PROVE  PassChain(node, short)
<1>1. /\ node \in Blocks \ {Genesis} /\ PassChain(Parent[node], short) /\ OverwritesNoCoin(node)
      /\ DOMAIN body[node] = 1 .. Len(body[node]) /\ Len(body[node]) \in Nat
  BY AttachFacts, BodyFacts DEF Inv, ChainInv, CheckInv, PassInv
<1>2. place = Len(body[node]) + 1
  BY <1>1 DEF Inv, SpendInv
<1>3. \A k \in DOMAIN body[node] : k \in 1 .. place - 1
  BY <1>1, <1>2
<1>4. Passes(node, short)
  BY <1>1, <1>3 DEF Passes, PassInv
<1>. QED
  BY <1>1, <1>4, ParentChain DEF PassChain

LEMMA PassStep ==
  ASSUME NEW short \in BOOLEAN, short => ReorgsAreShort, Inv, PassInv(short), [Next]_vars
  PROVE  PassInv(short)'
<1>. USE DEF PassInv
<1>1. tip \in Blocks /\ tip \in Ancestry[tip]
  BY ChainsAreChains DEF Inv, ChainInv, ChainFacts
<1>0. body' = body /\ known \subseteq known'
  BY DEF Next, vars, Deliver, DetachFromStore, AttachToStore, CheckBIP0030, MergeStores,
     SpendInputs, EndCheck, ConnectBlock, Indexed
<1>2. CASE UNCHANGED vars
  <2>1. UNCHANGED <<body, tip, pc, node, place>>
    BY <1>2 DEF vars, storeVars
  <2>2. \A k : TxPasses(node, k, short) => TxPasses(node, k, short)'
    BY <2>1, <1>0, SamePass
  <2>3. /\ PassChain(tip, short) => PassChain(tip, short)'
        /\ PassChain(node, short) => PassChain(node, short)'
        /\ PassChain(Parent[node], short) => PassChain(Parent[node], short)'
    BY <2>1, <1>0, SamePass
  <2>. QED
    BY <2>1, <2>2, <2>3
<1>3. ASSUME UNCHANGED <<body, tip>>, Return
      PROVE  PassInv(short)'
  <2>1. PassChain(tip, short) => PassChain(tip, short)'
    BY <1>3, <1>0, SamePass
  <2>. QED
    BY <1>3, <2>1 DEF Return
<1>4. ASSUME UNCHANGED <<body, tip>>, NEW n, PassChain(Parent[n], short), StartCheck(n)
      PROVE  PassInv(short)'
  <2>1. /\ PassChain(tip, short) => PassChain(tip, short)'
        /\ PassChain(Parent[n], short) => PassChain(Parent[n], short)'
    BY <1>4, <1>0, SamePass
  <2>. QED
    BY <1>4, <2>1 DEF StartCheck
<1>5. ASSUME NEW b \in Blocks \ {Genesis}, Deliver(b)
      PROVE  PassInv(short)'
  <2>1. pc = "idle" /\ UNCHANGED <<body, tip>>
    BY <1>5 DEF Deliver
  <2>2. CASE Parent[b] = tip
    BY <1>4, <1>5, <2>1, <2>2 DEF Deliver
  <2>3. CASE Parent[b] # tip /\ Work[b] <= Work[tip]
    <3>1. pc' = pc
      BY <1>5, <2>3 DEF Deliver
    <3>2. PassChain(tip, short) => PassChain(tip, short)'
      BY <2>1, <1>0, SamePass
    <3>. QED
      BY <2>1, <3>1, <3>2
  <2>4. CASE Parent[b] # tip /\ ~ (Work[b] <= Work[tip])
    <3>1. b \notin known /\ StartCheck(NextToCheck(ChainAbove(b, Fork(b))))
      BY <1>5, <2>4 DEF Deliver
    <3>2. b \notin Ancestry[tip] /\ b \in Ancestry[b]
      BY <3>1, ParentChain DEF Inv, ChainInv
    <3>3. Fork(b) \in Ancestry[b] /\ Fork(b) \in Ancestry[tip] /\ b # Fork(b)
      BY <1>1, <3>2, ForkFacts
    <3>4. Parent[Lowest(ChainAbove(b, Fork(b)))] = Fork(b)
      BY <3>3, NextInChain
    <3>5. PassChain(Fork(b), short)
      BY <1>1, <3>3, PassBelow
    <3>. QED
      BY <1>4, <2>1, <3>1, <3>4, <3>5 DEF NextToCheck
  <2>. QED
    BY <2>2, <2>3, <2>4
<1>6. ASSUME DetachFromStore \/ AttachToStore
      PROVE  PassInv(short)'
  <2>1. /\ UNCHANGED <<body, tip, node>>
        /\ pc \in {"bip30", "inputs"} /\ (pc' = pc \/ pc' = "panic")
    BY <1>6 DEF DetachFromStore, AttachToStore, Fetching
  <2>2. /\ PassChain(tip, short) => PassChain(tip, short)'
        /\ PassChain(Parent[node], short) => PassChain(Parent[node], short)'
    BY <2>1, <1>0, SamePass
  <2>. QED
    BY <2>1, <2>2
<1>7. ASSUME CheckBIP0030 \/ MergeStores
      PROVE  PassInv(short)'
  <2>1. CASE Return
    BY <1>3, <1>7, <2>1 DEF CheckBIP0030, MergeStores
  <2>2. CASE ~ Return
    <3>1. /\ UNCHANGED <<body, tip, node>> /\ pc \in {"bip30", "inputs"}
          /\ pc' = "inputs" \/ (pc' = "spend" /\ place' = 1)
      BY <1>7, <2>2 DEF CheckBIP0030, MergeStores
    <3>2. /\ PassChain(tip, short) => PassChain(tip, short)'
          /\ PassChain(Parent[node], short) => PassChain(Parent[node], short)'
      BY <3>1, <1>0, SamePass
    <3>. QED
      BY <3>1, <3>2
  <2>. QED
    BY <2>1, <2>2
<1>8. ASSUME SpendInputs
      PROVE  PassInv(short)'
  <2>1. /\ pc = "spend" /\ place <= Len(body[node]) /\ UNCHANGED <<body, tip>>
    BY <1>8 DEF SpendInputs
  <2>2. CASE ~ CheckTransactionInputs(body[node][place])
    BY <1>3, <1>8, <2>1, <2>2 DEF SpendInputs
  <2>3. CASE CheckTransactionInputs(body[node][place])
    <3>1. UNCHANGED <<pc, node>> /\ place' = place + 1
      BY <1>8, <2>3 DEF SpendInputs
    <3>2. place \in DOMAIN body[node] /\ place \in Nat
      <4>1. node \in Blocks /\ place \in 1 .. Len(body[node]) + 1
        BY <2>1, AttachFacts DEF Inv, SpendInv
      <4>. QED
        BY <2>1, <4>1, BodyFacts DEF Inv, ChainInv
    <3>3. TxPasses(node, place, short)
      BY <2>1, <2>3, <3>2, CheckedTx
    <3>4. \A k \in 1 .. place' - 1 : TxPasses(node, k, short)
      <4>1. \A k \in 1 .. place' - 1 : k = place \/ k \in 1 .. place - 1
        BY <3>1, <3>2
      <4>. QED
        BY <2>1, <3>3, <4>1
    <3>5. /\ PassChain(tip, short) => PassChain(tip, short)'
          /\ PassChain(Parent[node], short) => PassChain(Parent[node], short)'
          /\ \A k : TxPasses(node, k, short) => TxPasses(node, k, short)'
      BY <2>1, <3>1, <1>0, SamePass
    <3>. QED
      BY <2>1, <3>1, <3>4, <3>5
  <2>. QED
    BY <2>2, <2>3
<1>9. ASSUME EndCheck
       PROVE  PassInv(short)'
  <2>1. pc = "spend" /\ place > Len(body[node]) /\ UNCHANGED body
    BY <1>9 DEF EndCheck
  <2>2. CASE ~IsProofOfStake(node) /\ ValueOut(body[node][1]) > ProofOfWorkReward
    BY <1>3, <1>9, <2>1, <2>2 DEF EndCheck
  <2>3. CASE ~ (~IsProofOfStake(node) /\ ValueOut(body[node][1]) > ProofOfWorkReward)
    <3>1. PassChain(node, short) /\ node \in Blocks
      BY <2>1, <2>3, CheckedPasses, CheckedSound
    <3>2. PICK b \in Blocks : attach = ChainAbove(b, Fork(b))
      BY <2>1 DEF Inv, CheckInv
    <3>3. {c \in attach : Height[c] > Height[node]} = ChainAbove(b, node)
          /\ node \in Ancestry[b] /\ node # Fork(b)
      BY <2>1, <3>2, RestOfAttach
    <3>4. CASE ChainAbove(b, node) # {}
      <4>1. Parent[Lowest(ChainAbove(b, node))] = node
        BY <3>1, <3>2, <3>3, <3>4, NextInChain, NothingAbove
      <4>2. StartCheck(Lowest(ChainAbove(b, node))) /\ UNCHANGED tip
        BY <1>9, <2>3, <3>3, <3>4 DEF EndCheck
      <4>. QED
        BY <1>4, <2>1, <3>1, <4>1, <4>2
    <3>5. CASE ChainAbove(b, node) = {}
      <4>1. pc' = "connect" /\ tip' = Fork(node) /\ UNCHANGED node
        BY <1>9, <2>3, <3>3, <3>5 DEF EndCheck
      <4>2. PICK f \in Ancestry[node] : f = Fork(node)
        BY <1>1, <3>1, ForkFacts
      <4>3. PassChain(f, short)' /\ PassChain(node, short)'
        BY <2>1, <3>1, <4>1, <4>2, PassBelow, <1>0, SamePass
      <4>. QED
        BY <4>1, <4>2, <4>3
    <3>. QED
      BY <3>4, <3>5
  <2>. QED
    BY <2>2, <2>3
<1>10. ASSUME ConnectBlock
       PROVE  PassInv(short)'
  <2>1. /\ pc = "connect" /\ UNCHANGED body
        /\ node \in Blocks /\ tip \in Ancestry[node] /\ tip # node
        /\ attach = ChainAbove(node, tip)
    BY <1>10 DEF ConnectBlock, Inv, ConnectInv
  <2>2. PICK n \in Ancestry[node] : n = Lowest(attach)
    BY <2>1, NextInChain DEF ChainAbove
  <2>3. PassChain(n, short)' /\ PassChain(node, short)
    BY <2>1, <2>2, PassBelow, <1>0, SamePass
  <2>4. CASE ~ CanLookUp(n)
    <3>1. pc' = "panic" /\ UNCHANGED tip
      BY <1>10, <2>2, <2>4 DEF ConnectBlock
    <3>2. PassChain(tip, short) => PassChain(tip, short)'
      BY <2>1, <3>1, <1>0, SamePass
    <3>. QED
      BY <3>1, <3>2
  <2>5. CASE CanLookUp(n)
    <3>1. tip' = n /\ (pc' = "idle" \/ UNCHANGED <<pc, node>>)
      BY <1>10, <2>2, <2>5 DEF ConnectBlock, Return
    <3>2. node' = node => PassChain(node, short)'
      BY <2>1, <2>3, <1>0, SamePass
    <3>. QED
      BY <2>1, <2>3, <3>1, <3>2
  <2>. QED
    BY <2>4, <2>5
<1>. QED
  BY <1>2, <1>5, <1>6, <1>7, <1>8, <1>9, <1>10 DEF Next


-----------------------------------------------------------------------------
(***************************************************************************)
(* fetchTxStore derives the view "from the point of view of the given      *)
(* node": at every turn of its loops, the store says of what it holds what *)
(* the database would say if its chain ended at the block it has got to.   *)
(***************************************************************************)
THEOREM DerivedView == Spec => []StoreIsView
<1>1. ASSUME Inv
      PROVE  StoreIsView
  <2>1. SUFFICES ASSUME pc \in {"bip30", "inputs"}
                 PROVE  \A t \in DOMAIN store :
                          Spendable(t, store[t]) = Spendable(t, View(StoreIsAt, t))
    BY DEF StoreIsView
  <2>2. Parent[node] \in Blocks /\ tip \in Blocks
    BY <1>1, <2>1, AttachFacts, ParentChain DEF Inv, ChainInv
  <2>3. StoreAt(StoreIsAt)
    <3>1. CASE undo # {}
      <4>1. PICK at \in Ancestry[tip] : StoreAt(at) /\ \E f \in Ancestry[at] : undo = ChainAbove(at, f)
        BY <1>1, <2>1, <3>1 DEF Inv, DeriveInv
      <4>2. at = Highest(undo)
        BY <2>2, <3>1, <4>1, NothingAbove, EndOfChain, ChainMembers
      <4>. QED
        BY <3>1, <4>1, <4>2 DEF StoreIsAt
    <3>2. CASE undo = {}
      <4>1. PICK at \in Ancestry[Parent[node]] :
              StoreAt(at) /\ redo = ChainAbove(Parent[node], at)
        BY <1>1, <2>1, <3>2, UndoneAt
      <4>2. CASE redo = {}
        BY <2>2, <3>2, <4>1, <4>2, NothingAbove DEF StoreIsAt
      <4>3. CASE redo # {}
        <5>1. at = Parent[Lowest(redo)]
          BY <2>2, <4>1, <4>3, NothingAbove, NextInChain
        <5>. QED
          BY <3>2, <4>1, <4>3, <5>1 DEF StoreIsAt
      <4>. QED
        BY <4>2, <4>3
    <3>. QED
      BY <3>1, <3>2
  <2>4. \A t, txD : Spendable(t, Spendable(t, txD)) = Spendable(t, txD)
    BY DEF Spendable, FullySpent, Missing
  <2>. QED
    BY <2>3, <2>4 DEF StoreAt, Fetch
<1>. QED
  BY <1>1, Invariance, PTL

(***************************************************************************)
(* connectTransactions, disconnectTransactions and connectBlock never find *)
(* an output out of range or missing, whatever was delivered.              *)
(***************************************************************************)
THEOREM NeverPanics == Spec => []NoPanic
<1>1. Inv => NoPanic
  BY DEF Inv, ChainInv, NoPanic
<1>. QED
  BY <1>1, Invariance, PTL

\* What passes is an invariant, with or without the assumption on reorganizations.
LEMMA PassInit == ASSUME NEW short \in BOOLEAN PROVE Init => PassInv(short)
  BY TreeAssumption DEF Init, PassInv, PassChain

LEMMA Passing == Spec => []PassInv(FALSE)
<1>1. Init => PassInv(FALSE)
  BY PassInit
<1>2. Inv /\ PassInv(FALSE) /\ [Next]_vars => PassInv(FALSE)'
  BY PassStep
<1>. QED
  BY <1>1, <1>2, Invariance, PTL DEF Spec

(***************************************************************************)
(* The block at place k spends only what its own chain left to spend.      *)
(***************************************************************************)
SpendsAvailable(b) ==
  \A k \in DOMAIN body[b] : body[b][k] \in Coinbases \/ Available(b, k)

(***************************************************************************)
(* Whatever the order of the blocks and reorganizations, no output of the  *)
(* main chain is spent twice, or without being there, or too early, and no *)
(* coin is overwritten.                                                    *)
(***************************************************************************)
THEOREM NoDoubleSpend ==
  Spec => [](\A b \in Ancestry[tip] \ {Genesis} : OverwritesNoCoin(b) /\ SpendsAvailable(b))
<1>1. PassInv(FALSE) =>
        \A b \in Ancestry[tip] \ {Genesis} : OverwritesNoCoin(b) /\ SpendsAvailable(b)
  BY DEF PassInv, PassChain, Passes, TxPasses, SpendsAvailable
<1>. QED
  BY <1>1, Passing, PTL

\* Overwriting no coin, in terms of the view and in terms of the coins.
LEMMA NoCoinOverwritten ==
  ASSUME body \in Bodies, NEW b \in Blocks \ {Genesis}
  PROVE  OverwritesNoCoin(b) <=> \A t \in TxsOf(b) : OutputsOf(t) \cap Coins(Parent[b]) = {}
<1>1. ASSUME NEW t \in TxsOf(b)
      PROVE  (View(Parent[b], t).found => FullySpent(t, View(Parent[b], t)))
               <=> OutputsOf(t) \cap Coins(Parent[b]) = {}
  <2>1. Parent[b] \in Blocks /\ t \in Txs
    BY ParentChain, BodyFacts
  <2>2. \A i \in Indexes(t) : <<t, i>> \in Txs \X Nat
    <3>1. \A i \in 0 .. Outs[t] - 1 : i \in Nat
      BY <2>1, TxAssumption
    <3>. QED
      BY <2>1, <3>1 DEF Indexes
  <2>3. \A i \in Indexes(t) : <<t, i>> \in Coins(Parent[b])
          <=> View(Parent[b], t).found /\ i \notin View(Parent[b], t).spent
    <3>1. ASSUME NEW i \in Indexes(t)
          PROVE  <<t, i>> \in Coins(Parent[b])
                   <=> View(Parent[b], t).found /\ i \notin View(Parent[b], t).spent
      <4>1. <<t, i>> \in Coins(Parent[b])
              <=> /\ View(Parent[b], <<t, i>>[1]).found
                  /\ <<t, i>>[2] \in Indexes(<<t, i>>[1]) \ View(Parent[b], <<t, i>>[1]).spent
        BY <2>1, <2>2, CoinsOfView
      <4>. QED
        BY <4>1
    <3>. QED
      BY <3>1
  <2>4. View(Parent[b], t).found => View(Parent[b], t).spent \subseteq Indexes(t)
    BY <2>1, ViewFacts
  <2>5. OutputsOf(t) \cap Coins(Parent[b]) = {}
          <=> \A i \in Indexes(t) : <<t, i>> \notin Coins(Parent[b])
    BY DEF OutputsOf
  <2>. QED
    BY <2>3, <2>4, <2>5 DEF FullySpent
<1>. QED
  BY <1>1 DEF OverwritesNoCoin

\* What passes is fair in what it creates, and was judged.
LEMMA PassedBlocks ==
  ASSUME NEW short, Inv, PassInv(short), NEW c \in Ancestry[tip] \ {Genesis}
  PROVE  CreatesFairly(c) /\ \A k \in DOMAIN body[c] : TxPasses(c, k, short)
<1>1. Passes(c, short)
  BY DEF PassInv, PassChain
<1>2. c \in Blocks \ {Genesis} /\ body \in Bodies
  BY ChainMembers DEF Inv, ChainInv
<1>. QED
  BY <1>1, <1>2, NoCoinOverwritten DEF Passes, CreatesFairly

(***************************************************************************)
(* Every block of the main chain spends what its chain left to spend, and  *)
(* for a fair price, by the times of the chain that was the main chain     *)
(* when the block was checked.                                             *)
(***************************************************************************)
THEOREM MainChainFitting == Spec => []MainChainFits
<1>1. Inv /\ PassInv(FALSE) => MainChainFits
  BY PassedBlocks DEF MainChainFits, TxPasses
<1>. QED
  BY <1>1, Passing, Invariance, PTL

(***************************************************************************)
(* As far as getCoinAgeTx's "guaranteed to be in main chain" holds, that   *)
(* is the block's own chain: every block of the main chain fits, prices of *)
(* coinstakes included.                                                    *)
(***************************************************************************)
THEOREM OwnChainFitting ==
  Spec /\ []ReorgsAreShort => [](\A b \in Ancestry[tip] \ {Genesis} : Fits(b))
<1>1. Init => PassInv(TRUE)
  BY PassInit
<1>2. Inv /\ PassInv(TRUE) /\ ReorgsAreShort /\ [Next]_vars => PassInv(TRUE)'
  BY PassStep
<1>3. Inv /\ PassInv(TRUE) => \A b \in Ancestry[tip] \ {Genesis} : Fits(b)
  BY PassedBlocks DEF Fits, TxPasses
<1>. QED
  BY <1>1, <1>2, <1>3, Invariance, PTL DEF Spec


-----------------------------------------------------------------------------
\* As long as the node stakes only shared coins, its transactions fit so far.
FitInv ==
  pc = "spend" /\ StakesSharedCoins(node) => \A k \in 1 .. place - 1 : TxFits(node, k)

LEMMA FitStep ==
  ASSUME Inv, FitInv, [Next]_vars
  PROVE  FitInv'
<1>1. CASE pc' # "spend"
  BY <1>1 DEF FitInv
<1>2. CASE pc' = "spend" /\ pc # "spend"
  <2>1. pc' # "idle" /\ pc' # "bip30" /\ pc' # "connect" /\ pc' # "panic" /\ pc' # "inputs"
    BY <1>2
  <2>2. MergeStores
    BY <1>2, <2>1 DEF Next, vars, Deliver, StartCheck, Fetching, DetachFromStore,
       AttachToStore, CheckBIP0030, SpendInputs, EndCheck, ConnectBlock, Return
  <2>3. place' = 1
    BY <2>2 DEF MergeStores
  <2>. QED
    BY <2>3 DEF FitInv
<1>3. CASE pc' = "spend" /\ pc = "spend"
  <2>1. SpendInputs \/ UNCHANGED vars
    BY <1>3 DEF Next, Deliver, StartCheck, Fetching, DetachFromStore,
       AttachToStore, CheckBIP0030, MergeStores, EndCheck, ConnectBlock, Return
  <2>2. CASE UNCHANGED vars
    <3>1. UNCHANGED <<body, tip, known, node, place>>
      BY <2>2 DEF vars, storeVars
    <3>2. StakesSharedCoins(node)' <=> StakesSharedCoins(node)
      BY <3>1 DEF StakesSharedCoins, TxsOf
    <3>. QED
      BY <1>3, <3>1, <3>2, SamePass DEF FitInv
  <2>3. CASE SpendInputs
    <3>1. /\ place <= Len(body[node]) /\ UNCHANGED <<body, tip, known>>
          /\ CheckTransactionInputs(body[node][place])
          /\ UNCHANGED node /\ place' = place + 1
      BY <1>3, <2>3 DEF SpendInputs, Return
    <3>2. place \in DOMAIN body[node] /\ place \in Nat
      <4>1. node \in Blocks /\ place \in 1 .. Len(body[node]) + 1
        BY <1>3, AttachFacts DEF Inv, SpendInv
      <4>. QED
        BY <3>1, <4>1, BodyFacts DEF Inv, ChainInv
    <3>3. StakesSharedCoins(node)' <=> StakesSharedCoins(node)
      BY <3>1 DEF StakesSharedCoins, TxsOf
    <3>4. StakesSharedCoins(node) => TxFits(node, place)
      BY <1>3, <3>1, <3>2, CheckedTx
    <3>5. \A k \in 1 .. place' - 1 : k = place \/ k \in 1 .. place - 1
      BY <3>1, <3>2
    <3>6. \A k : TxFits(node, k)' <=> TxFits(node, k)
      BY <3>1, SamePass
    <3>. QED
      BY <1>3, <3>1, <3>3, <3>4, <3>5, <3>6 DEF FitInv
  <2>. QED
    BY <2>1, <2>2, <2>3
<1>. QED
  BY <1>1, <1>2, <1>3

(***************************************************************************)
(* checkConnectBlock accepts a block if and only if the block fits its own *)
(* chain, whatever the main chain is at the time and whatever it has been: *)
(* the verdict on a block that stakes only shared coins is about the block.*)
(***************************************************************************)
THEOREM VerdictStands == Spec => VerdictIsOfTheBlock
<1>1. Init => FitInv
  BY DEF Init, FitInv
<1>2. Inv /\ FitInv /\ [Next]_vars => FitInv'
  BY FitStep
<1>3. ASSUME Inv, FitInv, [Next]_vars
      PROVE  [/\ pc \in {"bip30", "spend"} /\ (node' # node \/ pc' = "connect")
              /\ StakesSharedCoins(node)
              => (pc' # "idle" <=> Fits(node))]_vars
  <2>1. SUFFICES ASSUME Next, pc \in {"bip30", "spend"}, node' # node \/ pc' = "connect",
                        StakesSharedCoins(node)
                 PROVE  pc' # "idle" <=> Fits(node)
    BY <1>3
  <2>2. node \in Blocks \ {Genesis} /\ body \in Bodies
    BY <1>3, <2>1, AttachFacts DEF Inv, ChainInv
  <2>3. OverwritesNoCoin(node)
          <=> \A t \in TxsOf(node) : OutputsOf(t) \cap Coins(Parent[node]) = {}
    BY <2>2, NoCoinOverwritten
  <2>4. CASE pc = "bip30"
    <3>1. CheckBIP0030 /\ Fetched /\ Return /\ Overwritten # {}
      BY <2>1, <2>4 DEF Next, Deliver, Fetching, DetachFromStore, AttachToStore,
         CheckBIP0030, MergeStores, SpendInputs, EndCheck, ConnectBlock
    <3>2. ~ OverwritesNoCoin(node)
      BY <1>3, <2>4, <3>1, OverwrittenFacts
    <3>. QED
      BY <2>3, <3>1, <3>2 DEF Return, Fits, CreatesFairly
  <2>5. CASE pc = "spend" /\ SpendInputs
    <3>1. /\ place <= Len(body[node]) /\ ~ CheckTransactionInputs(body[node][place])
          /\ pc' = "idle"
      BY <2>1, <2>5 DEF SpendInputs, Return
    <3>2. place \in DOMAIN body[node]
      <4>1. place \in 1 .. Len(body[node]) + 1
        BY <1>3, <2>5 DEF Inv, SpendInv
      <4>. QED
        BY <2>2, <3>1, <4>1, BodyFacts
    <3>3. ~ TxFits(node, place)
      BY <1>3, <2>1, <2>5, <3>1, <3>2, CheckedTx
    <3>. QED
      BY <3>1, <3>2, <3>3 DEF Fits
  <2>6. CASE pc = "spend" /\ EndCheck
    <3>1. place > Len(body[node])
      BY <2>6 DEF EndCheck
    <3>2. CASE ~IsProofOfStake(node) /\ ValueOut(body[node][1]) > ProofOfWorkReward
      BY <2>6, <3>2 DEF EndCheck, Return, Fits, CreatesFairly
    <3>3. CASE ~ (~IsProofOfStake(node) /\ ValueOut(body[node][1]) > ProofOfWorkReward)
      <4>1. pc' # "idle"
        BY <2>6, <3>3 DEF EndCheck, StartCheck
      <4>2. OverwritesNoCoin(node)
        BY <1>3, <2>6 DEF Inv, CheckInv
      <4>3. \A k \in DOMAIN body[node] : TxFits(node, k)
        <5>1. DOMAIN body[node] = 1 .. Len(body[node]) /\ Len(body[node]) \in Nat
          BY <2>2, BodyFacts
        <5>2. place = Len(body[node]) + 1
          BY <1>3, <2>6, <3>1, <5>1 DEF Inv, SpendInv
        <5>. QED
          BY <1>3, <2>1, <2>6, <5>1, <5>2 DEF FitInv
      <4>. QED
        BY <2>3, <3>3, <4>1, <4>2, <4>3 DEF Fits, CreatesFairly
    <3>. QED
      BY <3>2, <3>3
  <2>7. pc = "spend" => SpendInputs \/ EndCheck
    BY <2>1 DEF Next, Deliver, Fetching, DetachFromStore, AttachToStore,
       CheckBIP0030, MergeStores, ConnectBlock
  <2>. QED
    BY <2>1, <2>4, <2>5, <2>6, <2>7
<1>. QED
  BY <1>1, <1>2, <1>3, Invariance, PTL DEF Spec, VerdictIsOfTheBlock


-----------------------------------------------------------------------------
\* There are finitely many outputs, and each has an amount.
AllOutputs == UNION {OutputsOf(t) : t \in Txs}
Outputs(b) == UNION {OutputsOf(t) : t \in TxsOf(b)}

LEMMA OutputFacts ==
  /\ IsFiniteSet(AllOutputs)
  /\ \A o \in AllOutputs : Value[o] \in Int
  /\ \A t \in Txs : \A i \in Indexes(t) : <<t, i>> \in AllOutputs
<1>1. ASSUME NEW t \in Txs
      PROVE  IsFiniteSet(OutputsOf(t))
  <2>. DEFINE f == [i \in 0 .. Outs[t] - 1 |-> <<t, i>>]
  <2>1. Outs[t] - 1 \in Int
    BY TxAssumption
  <2>2. IsFiniteSet(0 .. Outs[t] - 1)
    BY <2>1, FS_Interval
  <2>3. f \in Surjection(0 .. Outs[t] - 1, OutputsOf(t))
    BY DEF Surjection, OutputsOf, Indexes
  <2>. QED
    BY <2>2, <2>3, FS_Surjection
<1>2. IsFiniteSet(AllOutputs)
  <2>. DEFINE G == [t \in Txs |-> OutputsOf(t)]
  <2>1. \A t \in Txs : IsFiniteSet(G[t])
    BY <1>1
  <2>2. IsFiniteSet(UNION {G[t] : t \in Txs})
    <3>. HIDE DEF G
    <3>. QED
      BY <2>1, FiniteUnion, TxAssumption
  <2>3. UNION {G[t] : t \in Txs} = AllOutputs
    BY DEF AllOutputs
  <2>. QED
    BY <2>2, <2>3
<1>3. \A o \in AllOutputs : Value[o] \in Int
  BY TxAssumption DEF AllOutputs, OutputsOf, Indexes
<1>4. \A t \in Txs : \A i \in Indexes(t) : <<t, i>> \in AllOutputs
  BY DEF AllOutputs, OutputsOf
<1>. QED
  BY <1>2, <1>3, <1>4

\* Sums of amounts are sums in the sense of the lemmas, and whole numbers.
LEMMA SumOfOutputs ==
  ASSUME NEW S \in SUBSET AllOutputs
  PROVE  SumOf(S) = SumOn(Value, S) /\ SumOf(S) \in Int /\ IsFiniteSet(S)
<1>1. SumOf(S) = SumOn(Value, S)
  BY DEF SumOf, SumOn, MapThenSumSet, MapThenFoldSet
<1>2. IsFiniteSet(S) /\ \A o \in S : Value[o] \in Int
  BY OutputFacts, FS_Subset
<1>. QED
  BY <1>1, <1>2, SumIsInt

\* What a sound block does to the coins of its chain: the new ones come from its
\* transactions, the ones it spends were there.
LEMMA CoinsAbove ==
  ASSUME body \in Bodies, NEW b \in Blocks \ {Genesis}, SoundChain(b)
  PROVE  /\ Coins(b) \cup SpentIn(b) = Coins(Parent[b]) \cup Outputs(b)
         /\ Coins(b) \cap SpentIn(b) = {} /\ Coins(Parent[b]) \cap Outputs(b) = {}
         /\ Coins(b) \cup SpentIn(b) \subseteq AllOutputs
<1>. DEFINE p == Parent[b]
<1>1. /\ p \in Blocks /\ p \in Ancestry[b]
      /\ Ancestry[b] = Ancestry[p] \cup {b} /\ Sound(b) /\ SoundChain(p)
  BY ParentChain, SoundBelow DEF SoundChain
<1>2. /\ \A t \in TxsOf(b) : t \in Txs /\ \A c \in Ancestry[p] : t \notin TxsOf(c)
      /\ \A o \in SpentIn(b) :
           /\ o \in Txs \X Nat /\ o = <<o[1], o[2]>>
           /\ \A c \in Ancestry[p] : o \notin SpentIn(c)
           /\ o[2] \in Indexes(o[1])
           /\ o[1] \in TxsOf(b) \/ \E c \in Ancestry[p] : o[1] \in TxsOf(c)
  <2>1. \A t \in TxsOf(b) : t \in Txs /\ \A c \in Ancestry[p] : t \notin TxsOf(c)
    BY <1>1, SoundBlock, BodyFacts
  <2>2. ASSUME NEW o \in SpentIn(b)
        PROVE  o \in Txs \X Nat /\ o = <<o[1], o[2]>>
    <3>1. PICK k \in DOMAIN body[b] : o \in Inputs[body[b][k]]
      BY SpentInFacts
    <3>. QED
      BY <3>1, BodyFacts, TxAssumption
  <2>. QED
    BY <1>1, <2>1, <2>2, SoundBlock
<1>3. Created(b) = Created(p) \cup Outputs(b)
  BY <1>1 DEF Created, Outputs
<1>4. /\ Coins(b) = Created(b) \ ((UNION {SpentIn(c) : c \in Ancestry[p]}) \cup SpentIn(b))
      /\ Coins(p) = Created(p) \ UNION {SpentIn(c) : c \in Ancestry[p]}
  BY <1>1 DEF Coins
<1>5. ASSUME NEW o \in Outputs(b)
      PROVE  \A c \in Ancestry[p] : o \notin SpentIn(c)
  <2>1. PICK t \in TxsOf(b) : o \in OutputsOf(t)
    BY DEF Outputs
  <2>2. PICK i : o = <<t, i>>
    BY <2>1 DEF OutputsOf
  <2>. QED
    BY <1>1, <1>2, <2>2, SpentLater
<1>6. Coins(p) \cap Outputs(b) = {}
  <2>1. SUFFICES ASSUME NEW o \in Created(p), o \in Outputs(b) PROVE FALSE
    BY <1>4
  <2>2. PICK t \in TxsOf(b) : o \in OutputsOf(t)
    BY <2>1 DEF Outputs
  <2>3. PICK c \in Ancestry[p] : \E u \in TxsOf(c) : o \in OutputsOf(u)
    BY <2>1 DEF Created
  <2>4. t \in TxsOf(c)
    BY <2>2, <2>3 DEF OutputsOf
  <2>. QED
    BY <1>2, <2>2, <2>3, <2>4
<1>7. SpentIn(b) \subseteq Created(b)
  <2>1. SUFFICES ASSUME NEW o \in SpentIn(b) PROVE o \in Created(b)
    OBVIOUS
  <2>2. o \in OutputsOf(o[1])
    BY <1>2 DEF OutputsOf
  <2>3. PICK c \in Ancestry[b] : o[1] \in TxsOf(c)
    BY <1>1, <1>2
  <2>. QED
    BY <2>2, <2>3 DEF Created
<1>8. Created(b) \subseteq AllOutputs
  <2>1. SUFFICES ASSUME NEW c \in Ancestry[b], NEW t \in TxsOf(c)
                 PROVE  OutputsOf(t) \subseteq AllOutputs
    BY DEF Created
  <2>2. t \in Txs
    BY ChainMembers, BodyFacts
  <2>. QED
    BY <2>2 DEF AllOutputs
<1>. QED
  <2>. HIDE DEF p
  <2>1. \A o \in SpentIn(b) : \A c \in Ancestry[p] : o \notin SpentIn(c)
    BY <1>2
  <2>2. Coins(b) \cup SpentIn(b) = Coins(p) \cup Outputs(b)
    BY <1>3, <1>4, <1>5, <1>7, <2>1
  <2>3. Coins(b) \cap SpentIn(b) = {} /\ Coins(b) \cup SpentIn(b) \subseteq AllOutputs
    BY <1>4, <1>7, <1>8
  <2>. QED
    BY <1>6, <2>2, <2>3 DEF p

\* What CalcMintAndMoneySupply adds is what the coins have grown by.
LEMMA MintOfSound ==
  ASSUME body \in Bodies, NEW b \in Blocks \ {Genesis}, SoundChain(b)
  PROVE  /\ Mint(b) \in Int
         /\ SumOf(Coins(Parent[b])) \in Int
         /\ SumOf(Coins(b)) = SumOf(Coins(Parent[b])) + Mint(b)
<1>. DEFINE p == Parent[b]
<1>1. /\ Coins(b) \cup SpentIn(b) = Coins(p) \cup Outputs(b)
      /\ Coins(b) \cap SpentIn(b) = {} /\ Coins(p) \cap Outputs(b) = {}
      /\ Coins(b) \cup SpentIn(b) \subseteq AllOutputs
  BY CoinsAbove
<1>2. /\ Coins(b) \in SUBSET AllOutputs /\ SpentIn(b) \in SUBSET AllOutputs
      /\ Coins(p) \in SUBSET AllOutputs /\ Outputs(b) \in SUBSET AllOutputs
      /\ Coins(b) \cup SpentIn(b) \in SUBSET AllOutputs
  <2>. HIDE DEF p
  <2>. QED
    BY <1>1
<1>3. ASSUME NEW A \in SUBSET AllOutputs, NEW B \in SUBSET AllOutputs, A \cap B = {}
      PROVE  SumOf(A \cup B) = SumOf(A) + SumOf(B)
  <2>1. A \cup B \in SUBSET AllOutputs
    OBVIOUS
  <2>2. \A o \in A \cup B : Value[o] \in Int
    BY <2>1, OutputFacts
  <2>3. SumOn(Value, A \cup B) = SumOn(Value, A) + SumOn(Value, B)
    BY <1>3, <2>2, SumOfOutputs, SumJoins
  <2>. QED
    BY <2>1, <2>3, SumOfOutputs
<1>4. SumOf(Coins(b)) + SumOf(SpentIn(b)) = SumOf(Coins(p)) + SumOf(Outputs(b))
  <2>1. SumOf(Coins(b) \cup SpentIn(b)) = SumOf(Coins(b)) + SumOf(SpentIn(b))
    BY <1>1, <1>2, <1>3
  <2>2. SumOf(Coins(p) \cup Outputs(b)) = SumOf(Coins(p)) + SumOf(Outputs(b))
    BY <1>1, <1>2, <1>3
  <2>. QED
    BY <1>1, <2>1, <2>2
<1>5. Mint(b) = SumOf(Outputs(b)) - SumOf(SpentIn(b))
  BY DEF Mint, Outputs
<1>6. /\ SumOf(Coins(b)) \in Int /\ SumOf(SpentIn(b)) \in Int
      /\ SumOf(Coins(p)) \in Int /\ SumOf(Outputs(b)) \in Int
  BY <1>2, SumOfOutputs
<1>. QED
  BY <1>4, <1>5, <1>6


\* The supply of the main chain, and its type.
SupplyInv ==
  /\ supply \in [Blocks -> Int]
  /\ \A b \in Ancestry[tip] : supply[b] = SumOf(Coins(b))

LEMMA SupplyStep ==
  ASSUME Inv, SupplyInv, [Next]_vars
  PROVE  SupplyInv'
<1>. USE DEF SupplyInv
<1>1. \A b : body' = body => SumOf(Coins(b))' = SumOf(Coins(b))
  BY DEF Coins, Created, TxsOf, SpentIn
<1>2. tip \in Blocks /\ body \in Bodies
  BY DEF Inv, ChainInv
<1>3. ASSUME UNCHANGED <<body, supply>>, tip' \in Ancestry[tip]
      PROVE  SupplyInv'
  <2>1. Ancestry[tip'] \subseteq Ancestry[tip]
    BY <1>2, <1>3, ChainMembers
  <2>2. \A b \in Ancestry[tip'] : supply'[b] = SumOf(Coins(b))'
    BY <1>1, <1>3, <2>1
  <2>. QED
    BY <1>3, <2>2
<1>4. CASE ConnectBlock
  <2>1. /\ pc = "connect" /\ UNCHANGED body
        /\ node \in Blocks /\ SoundChain(node) /\ tip \in Ancestry[node] /\ tip # node
        /\ attach = ChainAbove(node, tip)
    BY <1>4 DEF ConnectBlock, Inv, ConnectInv
  <2>2. PICK n \in Blocks \ {Genesis} :
          n = Lowest(attach) /\ n \in Ancestry[node] /\ Parent[n] = tip
    BY <2>1, NextInChain DEF ChainAbove
  <2>3. SoundChain(n) /\ Sound(n)
    BY <2>1, <2>2, SoundBelow DEF SoundChain
  <2>4. tip' = n /\ supply' = [supply EXCEPT ![n] = supply[tip] + Mint(n)]
    BY <1>2, <1>4, <2>2, <2>3, SoundLooksUp DEF ConnectBlock
  <2>5. /\ tip \in Ancestry[tip] /\ n \notin Ancestry[tip]
        /\ Ancestry[n] = Ancestry[tip] \cup {n}
        /\ Ancestry[n] \subseteq Blocks
    BY <1>2, <2>2, ParentChain, ChainsAreChains, ChainMembers DEF ChainFacts
  <2>6. /\ supply[tip] = SumOf(Coins(tip)) /\ Mint(n) \in Int /\ SumOf(Coins(tip)) \in Int
        /\ SumOf(Coins(n)) = SumOf(Coins(tip)) + Mint(n)
    BY <1>2, <2>2, <2>3, <2>5, MintOfSound
  <2>7. supply' \in [Blocks -> Int]
    BY <2>4, <2>6
  <2>8. ASSUME NEW b \in Ancestry[n]
        PROVE  supply'[b] = SumOf(Coins(b))
    <3>1. CASE b = n
      BY <2>4, <2>6, <3>1
    <3>2. CASE b # n
      <4>1. b \in Ancestry[tip] /\ b \in Blocks
        BY <2>5, <3>2
      <4>. QED
        BY <2>4, <3>2, <4>1
    <3>. QED
      BY <3>1, <3>2
  <2>9. \A b : SumOf(Coins(b))' = SumOf(Coins(b))
    BY <1>1, <2>1
  <2>. QED
    BY <2>4, <2>7, <2>8, <2>9
<1>5. CASE ~ ConnectBlock
  <2>1. UNCHANGED <<body, supply>>
    BY <1>5 DEF Next, vars, Deliver, DetachFromStore, AttachToStore, CheckBIP0030,
       MergeStores, SpendInputs, EndCheck
  <2>2. CASE EndCheck
    <3>1. tip' = tip \/ tip' = Fork(node)
      BY <2>2 DEF EndCheck
    <3>2. node \in Blocks
      BY <2>2, AttachFacts DEF Inv, EndCheck
    <3>. QED
      BY <1>2, <1>3, <2>1, <3>1, <3>2, ForkFacts, ChainsAreChains DEF ChainFacts
  <2>3. CASE ~ EndCheck
    <3>1. tip' = tip
      BY <1>5, <2>3 DEF Next, vars, Deliver, DetachFromStore, AttachToStore, CheckBIP0030,
         MergeStores, SpendInputs
    <3>. QED
      BY <1>2, <1>3, <2>1, <3>1, ChainsAreChains DEF ChainFacts
  <2>. QED
    BY <2>2, <2>3
<1>. QED
  BY <1>4, <1>5

LEMMA SupplyInit == Init => SupplyInv
<1>. SUFFICES ASSUME Init PROVE SupplyInv
  OBVIOUS
<1>1. Ancestry[Genesis] = {Genesis} /\ Genesis \in Blocks
  BY TreeAssumption
<1>2. TxsOf(Genesis) = {}
  BY BodyFacts DEF Init
<1>3. Coins(Genesis) = {}
  BY <1>1, <1>2 DEF Coins, Created
<1>4. SumOf({}) = 0
  <2>1. SumOf({}) = SumOn(Value, {})
    BY SumOfOutputs
  <2>. QED
    BY <2>1, SumUnfolds, FS_EmptySet
<1>5. SumOf(Coins(Genesis)) = 0
  BY <1>3, <1>4
<1>6. \A b \in Ancestry[tip] : b = Genesis
  BY <1>1 DEF Init
<1>7. /\ supply \in [Blocks -> Int]
      /\ \A b \in Ancestry[tip] : supply[b] = 0
  BY <1>1, <1>6 DEF Init
<1>. QED
  BY <1>5, <1>6, <1>7 DEF SupplyInv

(***************************************************************************)
(* The money supply in the meta data of each block of the main chain is    *)
(* the sum of the coins its own chain has left, whichever chains were the  *)
(* main chain before, and in whatever order their blocks were connected.   *)
(***************************************************************************)
THEOREM SupplyIsRight == Spec => []SupplyIsUnspent
<1>1. Inv /\ SupplyInv /\ [Next]_vars => SupplyInv'
  BY SupplyStep
<1>2. SupplyInv => SupplyIsUnspent
  BY DEF SupplyInv, SupplyIsUnspent
<1>. QED
  BY <1>1, <1>2, SupplyInit, Invariance, PTL DEF Spec


-----------------------------------------------------------------------------
\* The type of what a call keeps; the rest of TypeOK is in the invariants above.
CallType ==
  /\ pc \in {"idle", "bip30", "inputs", "spend", "connect", "panic"}
  /\ node \in Blocks \cup {NoNode}
  /\ attach \subseteq Blocks
  /\ DOMAIN store \subseteq Txs
  /\ \A t \in DOMAIN store : store[t] \in TxData
  /\ undo \cup redo \subseteq Blocks
  /\ place \in Nat

LEMMA ReturnType == ASSUME Return PROVE CallType'
  BY DEF Return, CallType

\* A store that a block is put into, or taken out of, or that marks what is spent,
\* remains one.
LEMMA StoreType ==
  ASSUME \A t \in DOMAIN store : store[t] \in TxData, NEW b \in Blocks
  PROVE  /\ \A t \in DOMAIN store : DisconnectTransactions(store, b)[t] \in TxData
         /\ \A t \in DOMAIN store : ConnectTransactions(store, b)[t] \in TxData
         /\ \A t \in DOMAIN store : \A v \in Txs : MarkSpent(v)[t] \in TxData
<1>1. \A t : Indexes(t) \subseteq Nat
  <2>1. ASSUME NEW t, NEW i \in 0 .. Outs[t] - 1 PROVE i \in Nat
    OBVIOUS
  <2>. QED
    BY <2>1 DEF Indexes
<1>2. \A t : SpendsOf(b, t) \subseteq Nat
  BY <1>1 DEF SpendsOf
<1>3. Height[b] \in Nat
  BY TreeAssumption
<1>4. Missing \in TxData
  BY DEF Missing, TxData
<1>5. ASSUME NEW t \in DOMAIN store
      PROVE  DisconnectTransactions(store, b)[t] \in TxData
  BY <1>2, <1>4 DEF DisconnectTransactions, TxData
<1>6. ASSUME NEW t \in DOMAIN store
      PROVE  ConnectTransactions(store, b)[t] \in TxData
  BY <1>2, <1>3 DEF ConnectTransactions, TxData
<1>7. ASSUME NEW t \in DOMAIN store, NEW v \in Txs
      PROVE  MarkSpent(v)[t] \in TxData
  BY <1>1 DEF MarkSpent, TxData
<1>. QED
  BY <1>5, <1>6, <1>7

LEMMA StartType ==
  ASSUME Inv, NEW n \in Blocks \ {Genesis}, StartCheck(n), attach' \subseteq Blocks
  PROVE  CallType'
<1>1. /\ body \in Bodies /\ tip \in Blocks /\ Parent[n] \in Blocks
      /\ pc' = "bip30" /\ node' = n /\ place' = 0 /\ FetchTxStore(n, TxsOf(n))
  BY ParentChain DEF Inv, ChainInv, StartCheck
<1>2. /\ DOMAIN store' = TxsOf(n) /\ TxsOf(n) \subseteq Txs
      /\ undo' \cup redo' \subseteq Ancestry[tip] \cup Ancestry[Parent[n]]
  BY <1>1, BodyFacts DEF FetchTxStore, FetchTxStoreMain, ChainAbove
<1>3. \A t \in DOMAIN store' : store'[t] \in TxData
  BY <1>1, ViewFacts DEF FetchTxStore, FetchTxStoreMain, Missing, TxData
<1>. QED
  BY <1>1, <1>2, <1>3, ChainMembers DEF CallType

LEMMA TypeStep ==
  ASSUME Inv, CallType, [Next]_vars
  PROVE  CallType'
<1>. USE DEF CallType
<1>1. tip \in Blocks /\ body \in Bodies
  BY DEF Inv, ChainInv
<1>2. CASE UNCHANGED vars
  BY <1>2 DEF vars, storeVars
<1>3. ASSUME NEW b \in Blocks \ {Genesis}, Deliver(b)
      PROVE  CallType'
  <2>1. CASE Parent[b] = tip
    BY <1>3, <2>1, StartType DEF Deliver
  <2>2. CASE Parent[b] # tip /\ Work[b] <= Work[tip]
    BY <1>3, <2>2 DEF Deliver, storeVars
  <2>3. CASE Parent[b] # tip /\ ~ (Work[b] <= Work[tip])
    <3>1. /\ attach' = ChainAbove(b, Fork(b)) /\ b \notin known
          /\ StartCheck(NextToCheck(ChainAbove(b, Fork(b))))
      BY <1>3, <2>3 DEF Deliver
    <3>2. Fork(b) \in Ancestry[b] /\ b # Fork(b)
      BY <1>1, <3>1, ForkFacts DEF Inv, ChainInv
    <3>3. Lowest(ChainAbove(b, Fork(b))) \in Blocks \ {Genesis}
      BY <3>2, NextInChain
    <3>4. attach' \subseteq Blocks
      BY <3>1, ChainMembers DEF ChainAbove
    <3>. QED
      BY <3>1, <3>3, <3>4, StartType DEF NextToCheck
  <2>. QED
    BY <2>1, <2>2, <2>3
<1>4. CASE DetachFromStore
  <2>1. PICK n \in Blocks : n = Highest(undo)
    <3>1. undo # {} /\ pc \in {"bip30", "inputs"}
      BY <1>4 DEF DetachFromStore, Fetching
    <3>2. PICK at \in Ancestry[tip] : \E f : undo = ChainAbove(at, f)
      BY <3>1 DEF Inv, DeriveInv
    <3>3. undo \in SUBSET Ancestry[at] /\ at \in Blocks
      BY <1>1, <3>2, ChainMembers DEF ChainAbove
    <3>4. Highest(undo) \in undo
      BY <3>1, <3>3, HasHighest
    <3>. QED
      BY <3>4
  <2>2. UNCHANGED <<node, attach, redo, place>>
    BY <1>4 DEF DetachFromStore
  <2>3. CASE DisconnectPanics(store, n)
    BY <1>4, <2>1, <2>2, <2>3 DEF DetachFromStore
  <2>4. CASE ~ DisconnectPanics(store, n)
    <3>1. /\ store' = DisconnectTransactions(store, n)
          /\ undo' = undo \ {n} /\ UNCHANGED pc
      BY <1>4, <2>1, <2>4 DEF DetachFromStore
    <3>2. DOMAIN store' = DOMAIN store
      BY <3>1 DEF DisconnectTransactions
    <3>3. \A t \in DOMAIN store' : store'[t] \in TxData
      BY <3>1, <3>2, StoreType
    <3>. QED
      BY <2>2, <3>1, <3>2, <3>3
  <2>. QED
    BY <2>3, <2>4
<1>5. CASE AttachToStore
  <2>1. PICK n \in Blocks : n = Lowest(redo)
    <3>1. undo = {} /\ redo # {} /\ pc \in {"bip30", "inputs"}
      BY <1>5 DEF AttachToStore, Fetching
    <3>2. PICK at \in Ancestry[Parent[node]] : redo = ChainAbove(Parent[node], at)
      BY <3>1, UndoneAt
    <3>3. Parent[node] \in Blocks
      BY <3>1, AttachFacts, ParentChain DEF Inv
    <3>. QED
      BY <3>1, <3>2, <3>3, NothingAbove, NextInChain
  <2>2. UNCHANGED <<node, attach, undo, place>>
    BY <1>5 DEF AttachToStore
  <2>3. CASE ConnectPanics(store, n)
    BY <1>5, <2>1, <2>2, <2>3 DEF AttachToStore
  <2>4. CASE ~ ConnectPanics(store, n)
    <3>1. /\ store' = ConnectTransactions(store, n)
          /\ redo' = redo \ {n} /\ UNCHANGED pc
      BY <1>5, <2>1, <2>4 DEF AttachToStore
    <3>2. DOMAIN store' = DOMAIN store
      BY <3>1 DEF ConnectTransactions
    <3>3. \A t \in DOMAIN store' : store'[t] \in TxData
      BY <3>1, <3>2, StoreType
    <3>. QED
      BY <2>2, <3>1, <3>2, <3>3
  <2>. QED
    BY <2>3, <2>4
<1>6. CASE CheckBIP0030
  <2>1. CASE Return
    BY <2>1, ReturnType
  <2>2. CASE ~ Return
    <3>1. /\ pc' = "inputs" /\ FetchTxStore(node, NeededTxs(node))
          /\ UNCHANGED <<node, attach, place>>
      BY <1>6, <2>2 DEF CheckBIP0030
    <3>2. Parent[node] \in Blocks
      BY <1>6, AttachFacts, ParentChain DEF CheckBIP0030, Inv
    <3>3. /\ DOMAIN store' = NeededTxs(node) /\ NeededTxs(node) \subseteq Txs
          /\ undo' \cup redo' \subseteq Ancestry[tip] \cup Ancestry[Parent[node]]
      BY <3>1 DEF FetchTxStore, FetchTxStoreMain, ChainAbove, NeededTxs
    <3>4. \A t \in DOMAIN store' : store'[t] \in TxData
      BY <1>1, <3>1, ViewFacts DEF FetchTxStore, FetchTxStoreMain, Missing, TxData
    <3>. QED
      BY <1>1, <3>1, <3>2, <3>3, <3>4, ChainMembers
  <2>. QED
    BY <2>1, <2>2
<1>7. CASE MergeStores
  <2>1. /\ pc' = "spend" /\ place' = 1 /\ UNCHANGED <<node, attach, undo, redo>>
        /\ pc = "inputs" /\ DOMAIN store = NeededTxs(node)
        /\ store' = [t \in NeededTxs(node) \cup InFlightTxs(node) |->
                       IF t \in NeededTxs(node) THEN store[t]
                       ELSE [found |-> TRUE, height |-> Height[node], spent |-> {}]]
    BY <1>7 DEF MergeStores, Inv, DeriveInv
  <2>2. node \in Blocks /\ Height[node] \in Nat
    BY <2>1, AttachFacts, TreeAssumption DEF Inv
  <2>3. \A t \in DOMAIN store' : store'[t] \in TxData
    BY <2>1, <2>2 DEF TxData
  <2>4. DOMAIN store' \subseteq Txs
    BY <2>1 DEF NeededTxs, InFlightTxs
  <2>. QED
    BY <2>1, <2>3, <2>4
<1>8. CASE SpendInputs
  <2>1. CASE Return
    BY <2>1, ReturnType
  <2>2. CASE ~ Return
    <3>1. /\ pc = "spend" /\ place <= Len(body[node])
          /\ store' = MarkSpent(body[node][place]) /\ place' = place + 1
          /\ UNCHANGED <<pc, node, attach, undo, redo>>
      BY <1>8, <2>2 DEF SpendInputs
    <3>2. body[node][place] \in Txs /\ node \in Blocks
      <4>1. node \in Blocks /\ place \in 1 .. Len(body[node]) + 1
        BY <3>1, AttachFacts DEF Inv, SpendInv
      <4>. QED
        BY <1>1, <3>1, <4>1, BodyFacts
    <3>3. DOMAIN store' = DOMAIN store /\ \A t \in DOMAIN store' : store'[t] \in TxData
      <4>1. DOMAIN store' = DOMAIN store
        BY <3>1 DEF MarkSpent
      <4>. QED
        BY <3>1, <3>2, <4>1, StoreType
    <3>. QED
      BY <3>1, <3>3
  <2>. QED
    BY <2>1, <2>2
<1>9. CASE EndCheck
  <2>1. CASE Return
    BY <2>1, ReturnType
  <2>2. CASE ~ Return /\ pc' = "connect"
    BY <1>9, <2>2 DEF EndCheck, StartCheck, storeVars
  <2>3. CASE ~ Return /\ pc' # "connect"
    <3>1. pc = "spend" /\ place > Len(body[node])
      BY <1>9 DEF EndCheck
    <3>2. PICK b \in Blocks : attach = ChainAbove(b, Fork(b))
      BY <3>1 DEF Inv, CheckInv
    <3>3. /\ {c \in attach : Height[c] > Height[node]} = ChainAbove(b, node)
          /\ node \in Ancestry[b] /\ node \in Blocks
      BY <3>1, <3>2, RestOfAttach, AttachFacts DEF Inv
    <3>4. ChainAbove(b, node) # {} /\ StartCheck(Lowest(ChainAbove(b, node))) /\ UNCHANGED attach
      BY <1>9, <2>3, <3>3 DEF EndCheck
    <3>5. Lowest(ChainAbove(b, node)) \in Blocks \ {Genesis}
      BY <3>2, <3>3, <3>4, NothingAbove, NextInChain
    <3>. QED
      BY <3>4, <3>5, StartType
  <2>. QED
    BY <2>1, <2>2, <2>3
<1>10. CASE ConnectBlock
  <2>1. CASE Return
    BY <2>1, ReturnType
  <2>2. CASE ~ Return
    BY <1>10, <2>2 DEF ConnectBlock, storeVars
  <2>. QED
    BY <2>1, <2>2
<1>. QED
  BY <1>2, <1>3, <1>4, <1>5, <1>6, <1>7, <1>8, <1>9, <1>10 DEF Next

\* Type correctness.
THEOREM TypeCorrect == Spec => []TypeOK
<1>1. Init => CallType
  BY DEF Init, CallType
<1>2. Inv /\ CallType /\ [Next]_vars => CallType'
  BY TypeStep
<1>3. Inv /\ SupplyInv /\ [Next]_vars => SupplyInv'
  BY SupplyStep
<1>4. Inv /\ CallType /\ SupplyInv => TypeOK
  BY DEF Inv, ChainInv, CallType, SupplyInv, TypeOK
<1>. QED
  BY <1>1, <1>2, <1>3, <1>4, SupplyInit, Invariance, PTL DEF Spec
=============================================================================
