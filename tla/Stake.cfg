SPECIFICATION Spec
CONSTANTS
  Blocks <- StakeBlocks
  Genesis = "g"
  Parent <- StakeParent
  Height <- StakeHeight
  Ancestry <- StakeAncestry
  Trust <- StakeTrust
  Work <- StakeWork
  Sane <- StakeBlocks
  Acceptable <- StakeBlocks
  Connectable <- StakeBlocks
  StakeOf <- StakeStakeOf
  Stakes = {"s", "t", "u"}
  NoStake = "pow"
  BlockHash <- StakeHash
  EntropyBit <- StakeEntropy
  Confirmed <- StakeConfirmed
  StakeTime <- StakeTime0
  StakeValue <- StakeValue0
  KernelHash <- MCKernelHash
  SelectionHash <- MCSelectionHash
  StakeShift = 4
  ModifierInterval = 2
  Sections <- StakeSections
  ProtocolV04Time = 3
  StakeMinAge = 1
  StakeMaxAge = 20
  CoinDay = 1
  Base = 4
  OneLsh256 = 1024
  Times <- StakeTimes
  PowLimit = 200
  InitialBits <- StakeInitial
  TargetTimespan = 4
  StakeTargetSpacing = 2
  TargetSpacingWorkMax = 4
INVARIANTS
  TypeOK
  EveryBlockAddsWork
  RetargetFollowsSpacing
  OneModifierPerInterval
  ModifiersOfTheChain
CHECK_DEADLOCK FALSE
