SPECIFICATION Spec
CONSTANTS
  Blocks <- MCBlocks
  Genesis = "g"
  Parent <- MCParent
  Height <- MCHeight
  Ancestry <- MCAncestry
  Trust <- MCTrust
  Work <- MCWork
  Sane <- MCBlocks
  Acceptable <- MCBlocks
  Connectable <- MCBlocks
  StakeOf <- MCStakeOf
  Stakes = {}
  NoStake = "pow"
  MinMemoryNodes = 3
  NoNode = NoNode
  NoBlock = NoBlock
  MaxNodes = 2
INVARIANTS
  MemoryAgrees
  PruningBoundsMemory
  StoredChainLinked
PROPERTIES
  ShallowReorganizationGainsWork
CHECK_DEADLOCK FALSE
