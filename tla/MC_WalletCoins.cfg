\* Payments of 3 coins to either of two accounts, sends of 1 (dust: the
\* payee check) and 3 (dust change, the fee loop, two inputs), three
\* outputs, two sends, one move and one FixSpentCoins (a staked block or
\* repairwallet).
CONSTANTS
  CENT = 2
  TxFee = 1
  InputsPerKB = 2
  DustLimit = 2
  ReceiveValues = {3}
  SendValues = {1, 3}
  MaxCoins = 3
  MaxSends = 2
  MaxRepairs = 1
  MaxScans = 1
  Accounts = {A0, A1}
  DefaultAccount = A0
  MoveValues = {1}
  MaxMoves = 1
  ReserveInputs = {0, 3}
  StakeCombineThreshold = 4
  MaxStakes = 1
SPECIFICATION Spec
CONSTRAINT StakingOrAccounts
INVARIANTS
  TypeOK
  SendRefusedOnlyWhenUnpayable
\* Behaviours end when MaxCoins outputs exist and MaxSends sends are
\* recorded; the program itself would go on.
CHECK_DEADLOCK FALSE
