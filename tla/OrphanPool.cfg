SPECIFICATION Spec
CONSTANTS
  Blocks <- MCBlocks
  Genesis = "g"
  Parent <- MCParent
  Height <- MCHeight
  Ancestry <- MCAncestry
  Trust <- MCTrust
  Work <- MCWork
  Sane <- MCBlocks
  Acceptable <- MCBlocks
  Connectable <- MCBlocks
  StakeOf <- MCStakeOf
  Stakes <- MCStakes
  NoStake = "pow"
  MaxOrphanBlocks = 2
  OrphanLife = 1
  NoOrphan = NoOrphan
  MaxTime = 3
INVARIANTS
  PoolBounded
  IndexCoherent
  NeverBoth
CHECK_DEADLOCK FALSE
