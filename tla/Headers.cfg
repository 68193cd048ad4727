SPECIFICATION Spec
CONSTANTS
  Blocks <- HeadBlocks
  Genesis = "g"
  Parent <- HeadParent
  Height <- HeadHeight
  Ancestry <- HeadAncestry
  Trust <- HeadTrust
  Work <- HeadWork
  Sane <- HeadBlocks
  Acceptable <- HeadBlocks
  Connectable <- HeadConnectable
  StakeOf <- HeadStakeOf
  Stakes = {}
  NoStake = "pow"
  Checkpoint <- HeadCheckpoint
  DenseEntries = 1
  MaxLocators = 20
  Sources = {s1, s2, s3, s4, s5}
  Samples <- HeadSamples
  MaxEntries = 4
  MinEntries = 3
  MaxAllowedOffset = 2
  BlockTime <- HeadTime
  MedianTimeBlocks = 3
  MaxTimeOffset = 2
  CurrentAge = 2
  FastBlocks = {"o2"}
  MaxOrphans = 1
  StartClock = 5
  MaxClock = 6
SYMMETRY SourceSymmetry
INVARIANTS
  LockinHolds
  MedianNeverDecreases
  TimesBounded
  LocatorsLocate
  OffsetOfFirstSamples
  MajorityBoundsOffset
PROPERTY CheckpointsAreFinal
CHECK_DEADLOCK FALSE
