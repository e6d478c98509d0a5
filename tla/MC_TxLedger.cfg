CONSTANTS
  g = g  cb1 = cb1  cb2 = cb2  cb3 = cb3  cb4 = cb4  cb5 = cb5  f1 = f1  f2 = f2
  t1 = t1  t2 = t2  t3 = t3  t4 = t4  t5 = t5  t6 = t6  t7 = t7  cs = cs
  P1 = P1  P2 = P2  D = D  X = X  S = S  F1 = F1  F2 = F2
  Txs <- MCTxs
  CoinbaseTxs <- MCCoinbaseTxs
  CoinstakeTxs <- MCCoinstakeTxs
  Ins <- MCIns
  Outs <- MCOuts
  Blocks <- MCBlocks
  BlockTxs <- MCBlockTxs
  PoSBlocks <- MCPoSBlocks
  GenesisTx = g
  Subsidy = 1
  StakeSubsidy = 1
  PoolTxs = {t2, t3, t5}
SPECIFICATION Spec
INVARIANTS TypeOK SupplyMatchesUnspent SupplyGrowthBounded
PROPERTY DisconnectRestores
