------------------------------- MODULE TxStore -------------------------------
(***************************************************************************)
(* The transactions of the chain: the view of the outputs a block may      *)
(* spend, which fetchTxStore derives for side chains from the database's   *)
(* view of the main chain, and what checkConnectBlock decides with it,     *)
(* block by block, before a reorganization may begin.                      *)
(*                                                                         *)
(* Acceptance, caches, faults and orphans are BlockChain's; here a call    *)
(* delivers a block whose parent is known and only transactions can make   *)
(* it fail.  Scripts pass.                                                 *)
(***************************************************************************)
EXTENDS BlockTree, Integers, Sequences, FiniteSetsExt

CONSTANTS
  Txs,              \* the transactions
  Coinbases,        \* those IsCoinBase holds of
  Coinstakes,       \* those IsCoinStake holds of
  Outs,             \* Outs[t]: the number of outputs of t
  Inputs,           \* Inputs[t]: the outputs t spends, as pairs <<hash, index>>
  Value,            \* Value[o]: the amount of the output o
  TxTime,           \* TxTime[t]: the timestamp of t
  BlockTime,        \* BlockTime[b]: the timestamp in the header of b
  Bodies,           \* the contents the blocks may have, as functions of the block
  CoinbaseMaturity, \* netParams.CoinbaseMaturity
  StakeMinAge,      \* netParams.StakeMinAge
  MinFee,           \* GetMinFee
  ProofOfWorkReward,\* PPCGetProofOfWorkReward
  NoNode            \* no block, where a variable holds an optional one

\* Each transaction has its outputs 0 .. Outs[t]-1, with amounts that are not negative;
\* only coinbases have no input, and the first output of a coinstake is empty.
ASSUME TxAssumption ==
  /\ IsFiniteSet(Txs)
  /\ Coinbases \subseteq Txs /\ Coinstakes \subseteq Txs
  /\ Coinbases \cap Coinstakes = {}
  /\ Outs \in [Txs -> Nat]
  /\ \A t \in Txs : \A i \in 0 .. Outs[t] - 1 : Value[<<t, i>>] \in Nat
  /\ Inputs \in [Txs -> SUBSET (Txs \X Nat)]
  /\ \A t \in Txs : t \in Coinbases <=> Inputs[t] = {}
  /\ \A t \in Coinstakes : Outs[t] >= 2 /\ Value[<<t, 0>>] = 0
  /\ CoinbaseMaturity \in Nat
  /\ NoNode \notin Blocks

\* With the contents f, the chain of b never spends some output of its coinbase.
KeepsCoin(f, b) ==
  \E i \in 0 .. Outs[f[b][1]] - 1 :
    \A t \in Txs : <<f[b][1], i>> \in Inputs[t] =>
      \A d \in Ancestry[b] : \A k \in DOMAIN f[d] : f[d][k] # t

(***************************************************************************)
(* checkBlockSanity: the coinbase comes first, a coinstake second, with an *)
(* empty coinbase and the time of the block, no transaction twice and none *)
(* later than its block.  The last conjunct is a bound of the model: a     *)
(* coinbase that is repeated on a chain has an output nothing spends, so   *)
(* that BIP 30 forbids it; the exception for spent ones is not taken.      *)
(***************************************************************************)
SaneContents(f, b) ==
  /\ f[b] # << >>
  /\ \A k \in DOMAIN f[b] :
       /\ f[b][k] \in Coinbases <=> k = 1
       /\ TxTime[f[b][k]] <= BlockTime[b]
       /\ f[b][k] \in Coinstakes =>
            /\ k = 2 /\ TxTime[f[b][k]] = BlockTime[b]
            /\ Outs[f[b][1]] = 1 /\ Value[<<f[b][1], 0>>] = 0
  /\ \A j, k \in DOMAIN f[b] : f[b][j] = f[b][k] => j = k
  /\ \A c \in Ancestry[b] \ {Genesis, b} : f[c][1] = f[b][1] => KeepsCoin(f, b)

ASSUME BodiesAssumption ==
  \A f \in Bodies :
    /\ f \in [Blocks -> Seq(Txs)]
    /\ f[Genesis] = << >>
    /\ \A b \in Blocks \ {Genesis} : SaneContents(f, b)

VARIABLES
  body,     \* the transactions of each block, which its hash commits to
  tip,      \* bestChain, the end of the chain in the database
  known,    \* the blocks of the main chain and the side chains
  supply,   \* meta.MoneySupply of the blocks that were connected
  pc,       \* where the call stands, "idle" between calls
  node,     \* the block checkConnectBlock works on
  attach,   \* the blocks that are to be connected if all of them pass
  store,    \* the TxStore: the TxData of each requested transaction
  undo,     \* blocks fetchTxStore has still to disconnect from the store
  redo,     \* blocks fetchTxStore has still to connect to the store
  place     \* the next transaction of node CheckTransactionInputs looks at

storeVars == <<store, undo, redo>>
vars == <<body, tip, known, supply, pc, node, attach, storeVars, place>>

-----------------------------------------------------------------------------
TxsOf(b) == Range(body[b])
IsProofOfStake(b) == Len(body[b]) > 1 /\ body[b][2] \in Coinstakes
SpentIn(b) == UNION {Inputs[t] : t \in TxsOf(b)}

\* The outputs of t, and those of them that block b spends.
Indexes(t) == 0 .. Outs[t] - 1
SpendsOf(b, t) == {i \in Indexes(t) : <<t, i>> \in SpentIn(b)}

\* The TxData of a transaction the view does not have.
Missing == [found |-> FALSE, height |-> 0, spent |-> {}]

\* The TxData the database has of t when its chain ends at b.
View(b, t) ==
  LET holders == {c \in Ancestry[b] : t \in TxsOf(c)}
  IN  IF holders = {} THEN Missing
      ELSE [found |-> TRUE, height |-> Height[Highest(holders)],
            spent |-> UNION {SpendsOf(c, t) : c \in Ancestry[b]}]

\* isTransactionSpent, with the check that the data is there.
FullySpent(t, txD) == txD.found /\ txD.spent = Indexes(t)

\* Variant: spent transactions are always left out.
FetchUnspent(request, includeSpent) ==
  [t \in request |-> IF FullySpent(t, View(tip, t)) THEN Missing ELSE View(tip, t)]

\* fetchTxStoreMain
FetchTxStoreMain(request, includeSpent) ==
  [t \in request |-> IF ~includeSpent /\ FullySpent(t, View(tip, t))
                     THEN Missing ELSE View(tip, t)]

\* Variant: the outputs stay spent.
DisconnectCreated(st, b) ==
  [t \in DOMAIN st |-> IF t \in TxsOf(b) THEN Missing ELSE st[t]]

\* disconnectTransactions
DisconnectTransactions(st, b) ==
  [t \in DOMAIN st |->
     IF t \in TxsOf(b) THEN Missing
     ELSE IF ~st[t].found THEN st[t]
     ELSE [st[t] EXCEPT !.spent = @ \ SpendsOf(b, t)]]

\* connectTransactions.  A block that spends an output of its own creates it first.
ConnectTransactions(st, b) ==
  [t \in DOMAIN st |->
     IF t \in TxsOf(b) THEN [found |-> TRUE, height |-> Height[b], spent |-> SpendsOf(b, t)]
     ELSE IF ~st[t].found THEN st[t]
     ELSE [st[t] EXCEPT !.spent = @ \cup SpendsOf(b, t)]]

(***************************************************************************)
(* Both compare an index with the length of Spent and let the length       *)
(* itself pass: the access is then out of range, in a transaction that is  *)
(* missing and has no Spent at index 0 already.                            *)
(***************************************************************************)
DisconnectPanics(st, b) ==
  \E o \in SpentIn(b) : /\ o[1] \in DOMAIN st \ TxsOf(b)
                        /\ st[o[1]].found
                        /\ o[2] = Outs[o[1]]
ConnectPanics(st, b) ==
  \E k \in DOMAIN body[b] : \E o \in Inputs[body[b][k]] :
    /\ o[1] \in DOMAIN st
    /\ o[2] = IF st[o[1]].found \/ \E j \in 1 .. k : body[b][j] = o[1]
              THEN Outs[o[1]] ELSE 0

-----------------------------------------------------------------------------
\* Where the chain of b leaves the main chain.
Fork(b) == Highest(Ancestry[b] \cap Ancestry[tip])

\* fetchTxStore up to its loops: the request at the end of the main chain.
FetchTxStore(n, request) ==
  LET extends == Parent[n] = tip
  IN  /\ store' = FetchTxStoreMain(request, ~extends)
      /\ undo' = IF extends THEN {} ELSE ChainAbove(tip, Fork(Parent[n]))
      /\ redo' = IF extends THEN {} ELSE ChainAbove(Parent[n], Fork(Parent[n]))

\* checkConnectBlock starts with the request of checkBIP0030.
StartCheck(n) ==
  /\ pc' = "bip30"
  /\ node' = n
  /\ place' = 0
  /\ FetchTxStore(n, TxsOf(n))

\* The call is over.
Return ==
  /\ pc' = "idle"
  /\ node' = NoNode
  /\ attach' = {}
  /\ store' = << >>
  /\ undo' = {}
  /\ redo' = {}
  /\ place' = 0

\* Variant: reorganizeChain checks the blocks to attach from the top.
LastToCheck(S) == Highest(S)

NextToCheck(S) == Lowest(S)

(***************************************************************************)
(* connectBestChain for a block whose parent is known: it extends the main *)
(* chain, stays on a side chain, or starts a reorganization, whose blocks  *)
(* are checked in the order in which they would be connected.              *)
(***************************************************************************)
Deliver(b) ==
  /\ pc = "idle"
  /\ b \notin known /\ Parent[b] \in known
  /\ IF Parent[b] = tip
     THEN attach' = {b} /\ StartCheck(b) /\ UNCHANGED known
     ELSE /\ known' = known \cup {b}
          /\ IF Work[b] <= Work[tip]
             THEN UNCHANGED <<pc, node, attach, storeVars, place>>
             ELSE /\ attach' = ChainAbove(b, Fork(b))
                  /\ StartCheck(NextToCheck(ChainAbove(b, Fork(b))))
  /\ UNCHANGED <<body, tip, supply>>

Fetching == pc \in {"bip30", "inputs"} /\ undo \cup redo # {}
Fetched == undo \cup redo = {}

\* A turn of the first loop of fetchTxStore, which undoes the main chain.
DetachFromStore ==
  /\ Fetching /\ undo # {}
  /\ LET n == Highest(undo)
     IN  IF DisconnectPanics(store, n)
         THEN pc' = "panic" /\ UNCHANGED <<store, undo>>
         ELSE /\ store' = DisconnectTransactions(store, n)
              /\ undo' = undo \ {n}
              /\ UNCHANGED pc
  /\ UNCHANGED <<body, tip, known, supply, node, attach, redo, place>>

\* A turn of the second loop, which applies the side chain.
AttachToStore ==
  /\ Fetching /\ undo = {}
  /\ LET n == Lowest(redo)
     IN  IF ConnectPanics(store, n)
         THEN pc' = "panic" /\ UNCHANGED <<store, redo>>
         ELSE /\ store' = ConnectTransactions(store, n)
              /\ redo' = redo \ {n}
              /\ UNCHANGED pc
  /\ UNCHANGED <<body, tip, known, supply, node, attach, undo, place>>

\* The transactions in the block n before the one at place k.
InFlight(n, k) == {body[n][j] : j \in 1 .. k - 1}

\* What fetchInputTransactions needs from the chain, and what it has in flight.
NeededTxs(n) ==
  {t \in Txs : \E k \in DOMAIN body[n] :
                 /\ t \notin InFlight(n, k)
                 /\ \E o \in Inputs[body[n][k]] : o[1] = t}
InFlightTxs(n) ==
  {t \in Txs : \E k \in DOMAIN body[n] :
                 /\ t \in InFlight(n, k)
                 /\ \E o \in Inputs[body[n][k]] : o[1] = t}

\* Variant: a block may overwrite any transaction.
OverwritesNothing == {}

\* checkBIP0030: the transactions the block would overwrite.
Overwritten == {t \in DOMAIN store : store[t].found /\ ~FullySpent(t, store[t])}

CheckBIP0030 ==
  /\ pc = "bip30" /\ Fetched
  /\ IF Overwritten # {} THEN Return
     ELSE /\ pc' = "inputs"
          /\ FetchTxStore(node, NeededTxs(node))
          /\ UNCHANGED <<node, attach, place>>
  /\ UNCHANGED <<body, tip, known, supply>>

\* The end of fetchInputTransactions: what was needed overrides what is in flight.
MergeStores ==
  /\ pc = "inputs" /\ Fetched
  /\ store' = [t \in NeededTxs(node) \cup InFlightTxs(node) |->
                 IF t \in NeededTxs(node) THEN store[t]
                 ELSE [found |-> TRUE, height |-> Height[node], spent |-> {}]]
  /\ pc' = "spend"
  /\ place' = 1
  /\ UNCHANGED <<body, tip, known, supply, node, attach, undo, redo>>

-----------------------------------------------------------------------------
SumOf(outputs) == MapThenSumSet(LAMBDA o : Value[o], outputs)
OutputsOf(t) == {t} \X Indexes(t)
ValueIn(t) == SumOf(Inputs[t])
ValueOut(t) == SumOf(OutputsOf(t))

\* The block at a height of the chain that ends at b.
ChainBlock(b, h) == CHOOSE c \in Ancestry[b] : Height[c] = h

\* The block of the main chain at a height, which FetchBlockShaByHeight names.
MainChainBlock(h) == ChainBlock(tip, h)

\* The inputs of t that have come of age, by the blocks blockOf finds them in.
OldEnough(t, blockOf) ==
  {o \in Inputs[t] : BlockTime[blockOf[o]] + StakeMinAge <= TxTime[t]}

\* getCoinAgeTx
AgeOf(t, outputs) ==
  MapThenSumSet(LAMBDA o : Value[o] * (TxTime[t] - TxTime[o[1]]), outputs)
CoinAge(t, blockOf) == AgeOf(t, OldEnough(t, blockOf))

(***************************************************************************)
(* The limits on what t pays: a fee at least, for a coinstake a reward at  *)
(* most.  The fee is MinFee whatever the size of t, and the reward is the  *)
(* coin age itself: the division into cents, days and years, which rounds  *)
(* the reward down, is left out.  No property depends on how much it is.   *)
(***************************************************************************)
Pays(t, coinAge) ==
  IF t \in Coinstakes THEN ValueOut(t) - ValueIn(t) <= coinAge
  ELSE ValueIn(t) - ValueOut(t) >= MinFee

\* The coin age check of a coinstake, which looks blocks up by height in the
\* database and fails when the main chain is too short.
StakePays(t) ==
  /\ \A o \in Inputs[t] : store[o[1]].height <= Height[tip]
  /\ Pays(t, CoinAge(t, [o \in Inputs[t] |-> MainChainBlock(store[o[1]].height)]))

IsMature(height) == Height[node] - height >= CoinbaseMaturity

\* CheckTransactionInputs for the transaction t of node.
InputsAvailable(t) ==
  \A o \in Inputs[t] :
    /\ o[1] \in DOMAIN store
    /\ store[o[1]].found
    /\ o[1] \in Coinbases => IsMature(store[o[1]].height)
    /\ o[2] \in Indexes(o[1]) \ store[o[1]].spent
    /\ TxTime[o[1]] <= TxTime[t]
CheckTransactionInputs(t) ==
  \/ t \in Coinbases
  \/ /\ InputsAvailable(t)
     /\ IF t \in Coinstakes THEN StakePays(t) ELSE Pays(t, 0)

MarkSpent(t) ==
  [u \in DOMAIN store |->
     [store[u] EXCEPT !.spent = @ \cup {i \in Indexes(u) : <<u, i>> \in Inputs[t]}]]

\* A turn of checkConnectBlock's loop over the transactions.
SpendInputs ==
  /\ pc = "spend"
  /\ place <= Len(body[node])
  /\ LET t == body[node][place]
     IN  IF CheckTransactionInputs(t)
         THEN /\ store' = MarkSpent(t)
              /\ place' = place + 1
              /\ UNCHANGED <<pc, node, attach, undo, redo>>
         ELSE Return
  /\ UNCHANGED <<body, tip, known, supply>>

(***************************************************************************)
(* The end of checkConnectBlock: the coinbase of a proof-of-work block     *)
(* takes no more than the subsidy.  reorganizeChain checks its next block, *)
(* or, after the last, disconnects the main chain down to the fork and     *)
(* starts connecting.                                                      *)
(***************************************************************************)
EndCheck ==
  /\ pc = "spend"
  /\ place > Len(body[node])
  /\ IF ~IsProofOfStake(node) /\ ValueOut(body[node][1]) > ProofOfWorkReward
     THEN Return /\ UNCHANGED tip
     ELSE LET rest == {c \in attach : Height[c] > Height[node]}
          IN  IF rest # {}
              THEN StartCheck(Lowest(rest)) /\ UNCHANGED <<tip, attach>>
              ELSE /\ pc' = "connect"
                   /\ tip' = Fork(node)
                   /\ UNCHANGED <<node, attach, storeVars, place>>
  /\ UNCHANGED <<body, known, supply>>

\* Variant: coinbases create nothing.
MintWithoutCoinbase(b) ==
  SumOf(UNION {OutputsOf(t) : t \in TxsOf(b) \ Coinbases}) - SumOf(SpentIn(b))

\* What CalcMintAndMoneySupply adds to the supply of the parent.
Mint(b) == SumOf(UNION {OutputsOf(t) : t \in TxsOf(b)}) - SumOf(SpentIn(b))

\* The outputs CalcMintAndMoneySupply can look up: it does not check that they
\* were found.
CanLookUp(b) ==
  \A k \in DOMAIN body[b] : \A o \in Inputs[body[b][k]] :
    /\ o[2] \in Indexes(o[1])
    /\ \/ o[1] \in InFlight(b, k)
       \/ FetchTxStoreMain({o[1]}, FALSE)[o[1]].found

\* Variant: the block is not entered into the index.
NotIndexed(b) == known

Indexed(b) == known \cup {b}

\* connectBlock for the next block, which extends the main chain.
ConnectBlock ==
  /\ pc = "connect"
  /\ LET n == Lowest(attach)
     IN  IF ~CanLookUp(n)
         THEN pc' = "panic" /\ UNCHANGED <<tip, known, supply, node, attach, storeVars, place>>
         ELSE /\ supply' = [supply EXCEPT ![n] = supply[Parent[n]] + Mint(n)]
              /\ tip' = n
              /\ known' = Indexed(n)
              /\ IF attach = {n} THEN Return
                 ELSE /\ attach' = attach \ {n}
                      /\ UNCHANGED <<pc, node, storeVars, place>>
  /\ UNCHANGED body

\* The body of the genesis block is of no use: its coinbase cannot be spent.
Init ==
  /\ body \in Bodies
  /\ tip = Genesis
  /\ known = {Genesis}
  /\ supply = [b \in Blocks |-> 0]
  /\ pc = "idle"
  /\ node = NoNode
  /\ attach = {}
  /\ store = << >>
  /\ undo = {}
  /\ redo = {}
  /\ place = 0

Next ==
  \/ \E b \in Blocks \ {Genesis} : Deliver(b)
  \/ DetachFromStore \/ AttachToStore
  \/ CheckBIP0030 \/ MergeStores \/ SpendInputs \/ EndCheck
  \/ ConnectBlock

Spec == Init /\ [][Next]_vars
-----------------------------------------------------------------------------
\* What the chain of b has created, and what of that it has not spent.
Created(b) == UNION {OutputsOf(t) : t \in UNION {TxsOf(c) : c \in Ancestry[b]}}
Coins(b) == Created(b) \ UNION {SpentIn(c) : c \in Ancestry[b]}

\* The block of the chain of b that t is in.
Holder(b, t) == Highest({c \in Ancestry[b] : t \in TxsOf(c)})

\* The transaction at place k of block b spends coins of the chain below b or of earlier
\* transactions of b, none that these have spent, and none too early.
SpendsCoins(b, k) ==
  LET t == body[b][k]
      earlier == InFlight(b, k)
  IN  /\ Inputs[t] \subseteq Coins(Parent[b]) \cup UNION {OutputsOf(u) : u \in earlier}
      /\ Inputs[t] \cap UNION {Inputs[u] : u \in earlier} = {}
      /\ \A o \in Inputs[t] :
           /\ TxTime[o[1]] <= TxTime[t]
           /\ o[1] \in Coinbases => Height[b] - Height[Holder(b, o[1])] >= CoinbaseMaturity

\* It is right by the chain of b alone: its price is fair too.
TxFits(b, k) ==
  LET t == body[b][k]
  IN  \/ t \in Coinbases
      \/ /\ SpendsCoins(b, k)
         /\ Pays(t, CoinAge(t, [o \in Inputs[t] |-> Holder(b, o[1])]))

\* The block creates no output that is still to be spent, and no more than it may.
CreatesFairly(b) ==
  /\ \A t \in TxsOf(b) : OutputsOf(t) \cap Coins(Parent[b]) = {}
  /\ IsProofOfStake(b) \/ ~ (ValueOut(body[b][1]) > ProofOfWorkReward)

\* The block is right by its chain.
Fits(b) == CreatesFairly(b) /\ \A k \in DOMAIN body[b] : TxFits(b, k)

\* The price of a transaction t of b is fair when a staked coin is as old as the block
\* that the chain of m has at the height of the coin.
FairBy(b, t, m) ==
  /\ \A o \in Inputs[t] : Height[Holder(b, o[1])] <= Height[m]
  /\ Pays(t, CoinAge(t, [o \in Inputs[t] |-> ChainBlock(m, Height[Holder(b, o[1])])]))

\* What a block of the main chain must be, although getCoinAgeTx asked the chain that
\* was the main chain when the block was checked.
TxJudged(b, k) ==
  LET t == body[b][k]
  IN  \/ t \in Coinbases
      \/ /\ SpendsCoins(b, k)
         /\ IF t \in Coinstakes
            THEN \E m \in known : b \notin Ancestry[m] /\ FairBy(b, t, m)
            ELSE Pays(t, 0)

\* Type invariant.
TxData == [found : BOOLEAN, height : Nat, spent : SUBSET Nat]
TypeOK ==
  /\ tip \in known /\ known \subseteq Blocks
  /\ supply \in [Blocks -> Int]
  /\ pc \in {"idle", "bip30", "inputs", "spend", "connect", "panic"}
  /\ node \in Blocks \cup {NoNode}
  /\ attach \subseteq Blocks
  /\ DOMAIN store \subseteq Txs
  /\ \A t \in DOMAIN store : store[t] \in TxData
  /\ undo \cup redo \subseteq Blocks
  /\ place \in Nat

\* What of a TxData a block can spend.
Spendable(t, txD) == IF FullySpent(t, txD) THEN Missing ELSE txD

\* The block whose view the store has while it is being derived.
StoreIsAt ==
  IF undo # {} THEN Highest(undo)
  ELSE IF redo # {} THEN Parent[Lowest(redo)]
  ELSE Parent[node]

(***************************************************************************)
(* fetchTxStore: "from the point of view of the given node".  Undoing and  *)
(* redoing blocks in memory gives, after each of them, what the database   *)
(* would say of the requested transactions if its chain ended there.       *)
(***************************************************************************)
StoreIsView ==
  pc \in {"bip30", "inputs"} =>
    \A t \in DOMAIN store : Spendable(t, store[t]) = Spendable(t, View(StoreIsAt, t))

(***************************************************************************)
(* The accesses to Spent stay in range, and connectBlock finds every input *)
(* it adds up, because no block is put into a view, or connected, that was *)
(* not checked before.                                                     *)
(***************************************************************************)
NoPanic == pc # "panic"

(***************************************************************************)
(* Between any two database writes, no output of the main chain is spent   *)
(* twice, or too early, or without being there, and every price is fair.   *)
(* Of a coinstake that says less than Fits: its coins were as old as it    *)
(* needs in a chain that the node had before the block, and that need not  *)
(* be the chain of the block.  With those prices taken from the block's    *)
(* own chain the property would not hold.                                  *)
(***************************************************************************)
MainChainFits ==
  \A b \in Ancestry[tip] \ {Genesis} :
    CreatesFairly(b) /\ \A k \in DOMAIN body[b] : TxJudged(b, k)

\* The coins that b stakes are from blocks the main chain has too, by whose heights
\* getCoinAgeTx finds their times in the database.
StakesSharedCoins(b) ==
  \A t \in TxsOf(b) \cap Coinstakes : \A o \in Inputs[t] :
    {c \in Ancestry[b] : o[1] \in TxsOf(c)} \subseteq Ancestry[tip]

(***************************************************************************)
(* checkConnectBlock accepts a block if and only if it fits its own chain, *)
(* whatever the main chain is at the time, unless it stakes coins that the *)
(* main chain does not have.  This is why BlockChain may take the verdict  *)
(* for a property of the block.                                            *)
(***************************************************************************)
VerdictIsOfTheBlock ==
  [][/\ pc \in {"bip30", "spend"} /\ (node' # node \/ pc' = "connect")
     /\ StakesSharedCoins(node)
     => (pc' # "idle" <=> Fits(node))]_vars

(***************************************************************************)
(* The money supply in the meta data of a block is what its chain has left *)
(* to spend, whichever chain was the main chain in between.                *)
(***************************************************************************)
SupplyIsUnspent == \A b \in Ancestry[tip] : supply[b] = SumOf(Coins(b))
=============================================================================
