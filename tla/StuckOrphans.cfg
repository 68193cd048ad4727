SPECIFICATION FairSpec
CONSTANTS
  Blocks <- TwigBlocks
  Genesis = "g"
  Parent <- TwigParent
  Height <- TwigHeight
  Ancestry <- TwigAncestry
  Trust <- TwigTrust
  Work <- TwigWork
  Sane <- TwigBlocks
  Acceptable <- TwigBlocks
  Connectable <- TwigBadB
  StakeOf <- TwigStakeOf
  Stakes <- TwigStakes
  NoStake = "pow"
  MaxOrphanBlocks = 2
  OrphanLife = 1
  NoOrphan = NoOrphan
  MaxTime = 1
  NoBlock = NoBlock
  CallsOf <- TwigCalls
  FastAcceptable <- TwigBlocks
  MaxFaults = 0
  MaxCrashes = 0
INVARIANT OrphansWaitForParent
CHECK_DEADLOCK FALSE
