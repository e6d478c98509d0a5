\* One FixSpentCoins: the staker stakes a block (or the user calls
\* repairwallet) while a send is in the memory pool.
CONSTANTS
  CENT = 2
  TxFee = 1
  InputsPerKB = 2
  DustLimit = 2
  ReceiveValues = {3}
  SendValues = {1, 3}
  MaxCoins = 3
  MaxSends = 2
  MaxRepairs = 1
  MaxScans = 1
  Accounts = {A0, A1}
  DefaultAccount = A0
  MoveValues = {1}
  MaxMoves = 1
  ReserveInputs = {0, 3}
  StakeCombineThreshold = 4
  MaxStakes = 1
SPECIFICATION Spec
INVARIANT NoCoinSpentTwice
\* Behaviours end when MaxCoins outputs exist and MaxSends sends are
\* recorded; the program itself would go on.
CHECK_DEADLOCK FALSE
