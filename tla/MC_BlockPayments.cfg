\* The payment checks over every candidate block and context, and the
\* checks-delay base time over a clock of two ticks.
CONSTANTS
  MN = MN
  DEV = DEV
  X = X
  F = F
  NoWinner = NoWinner
  Blocks <- MCBlocks
  ProbeBlocks <- MCBlocks
  ValidMasternodes = {MN}
  DevopsAddress = DEV
  NoPayee = NoWinner
  Winners = {MN}
  COIN = 2
  MNDue = 5
  DevDue = 3
  ChecksDelay = 1
  MnAdvRelay = TRUE
  MaxTime = 1
  Staker = F
  CENT = 2
  StakeCredits = {9}
  WorkRewards = {10}
  BuilderDues <- MCBuilderDues
SPECIFICATION Spec
INVARIANTS
  TypeOK
  OwnBlockRefusedOnlyForFees
\* The clock stops at MaxTime; the node then only re-checks blocks.
CHECK_DEADLOCK FALSE
