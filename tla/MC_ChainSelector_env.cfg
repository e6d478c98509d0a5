\* Storage may fail (TxnBegin, TxnCommit, ReadFromDisk) and the node may restart.
\* Every block of the finite tree eventually is indexed and nothing more
\* can arrive: the node legitimately idles.
CONSTANTS
  G = G
  A1 = A1
  A2 = A2
  A3 = A3
  B1 = B1
  B2 = B2
  NoBlock = NoBlock
  t1 = t1
  t2 = t2
  t3 = t3
  c1 = c1
  c2 = c2
  Txs <- MCTxs
  Spends <- MCSpends
  BlockTxs <- MCBlockTxs
  Blocks <- MCBlocks
  Genesis <- G
  Parent <- MCParent
  BlockTrust <- MCBlockTrust
  BadBlocks <- MCBadBlocks
  MaxEnvFailures = 2
  MaxRestarts = 1
SPECIFICATION Spec
INVARIANTS
  TypeOK
  BestMatchesLedger
  ReliableLedgerIsChain
  PnextFollowsBest
  BestIsMaxValidTrust
  MempoolHoldsNoConfirmedTx
PROPERTIES
  LedgerTrustIncreases
CHECK_DEADLOCK FALSE
