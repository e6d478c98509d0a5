\* Every list of up to five transactions over four hashes.
CONSTANTS
  a = a
  b = b
  c = c
  d = d
  Zero = Zero
  TxIds <- MCTxIds
  MaxTxs = 5
  AmountBits = 5
  MaxMoney = 7
  ValueIn <- MCValueIn
  ValueOut <- MCValueOut
  Reward = 2
SPECIFICATION Spec
INVARIANTS
  RootMatchesReference
  BranchesVerify
  UniqueListsHaveDistinctRoots
  ValueCheckExact
\* A full block of MaxTxs transactions takes no more: the miner stops there.
CHECK_DEADLOCK FALSE
