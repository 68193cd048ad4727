SPECIFICATION Spec
CONSTANTS
  Blocks <- ForkBlocks
  Genesis = "g"
  Parent <- ForkParent
  Height <- ForkHeight
  Ancestry <- ForkAncestry
  Trust <- ForkTrust
  Work <- ForkWork
  Sane <- ForkBlocks
  Acceptable <- ForkBlocks
  Connectable <- ForkBlocks
  StakeOf <- ForkStakeOf
  Stakes = {}
  NoStake = "pow"
  Txs <- McTxs
  Coinbases <- McCoinbases
  Coinstakes <- McCoinstakes
  Outs <- McOuts
  Inputs <- McInputs
  Value <- McValue
  TxTime <- McTxTime
  BlockTime <- ForkTime
  Bodies <- McBodies
  CoinbaseMaturity = 1
  StakeMinAge = 3
  MinFee = 1
  ProofOfWorkReward = 12
  NoNode = NoNode
INVARIANTS
  TypeOK
  StoreIsView
  NoPanic
  MainChainFits
  SupplyIsUnspent
PROPERTY VerdictIsOfTheBlock
CHECK_DEADLOCK FALSE
