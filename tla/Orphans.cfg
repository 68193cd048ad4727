SPECIFICATION FairSpec
CONSTANTS
  Blocks <- TwigBlocks
  Genesis = "g"
  Parent <- TwigParent
  Height <- TwigHeight
  Ancestry <- TwigAncestry
  Trust <- TwigTrust
  Work <- TwigWork
  Sane <- TwigBlocks
  Acceptable <- TwigBlocks
  Connectable <- TwigBlocks
  StakeOf <- TwigStakeOf
  Stakes <- TwigStakes
  NoStake = "pow"
  MaxOrphanBlocks = 2
  OrphanLife = 1
  NoOrphan = NoOrphan
  MaxTime = 2
  NoBlock = NoBlock
  CallsOf <- TwigCalls
  FastAcceptable <- TwigBlocks
  MaxFaults = 0
  MaxCrashes = 1
INVARIANT OrphansWaitForParent
PROPERTY ImplementsOrphanPool
CHECK_DEADLOCK FALSE
