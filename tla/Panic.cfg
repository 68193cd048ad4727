SPECIFICATION Spec
CONSTANTS
  Blocks <- ForkBlocks
  Genesis = "g"
  Parent <- ForkParent
  Height <- ForkHeight
  Ancestry <- ForkAncestry
  Trust <- ForkTrust
  Work <- ForkWork
  Sane <- ForkBlocks
  Acceptable <- ForkAcceptable
  Connectable <- ForkConnectable
  StakeOf <- ForkStakeOf
  Stakes = {}
  NoStake = "pow"
  MaxOrphanBlocks = 2
  OrphanLife = 1
  NoOrphan = NoOrphan
  MaxTime = 0
  NoBlock = NoBlock
  CallsOf <- ForkCalls
  FastAcceptable <- ForkFastAcceptable
  MaxFaults = 1
  MaxCrashes = 0
INVARIANT NoPanic
CHECK_DEADLOCK FALSE
