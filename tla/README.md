# TLA+ models of the DigitalNote node core and wallet

These modules model parts of the DigitalNote node (`src/src`):
- the block-chain core: acceptance, best-chain selection and the txdb ledger;
- the memory pool and the block templates the miner builds from it;
- the Merkle tree;
- the masternode and devops payment checks, and the masternode winner list;
- the wallet: its lock state and key pool, its coins, sending and accounts, and the staker thread that spends the same coins.

The code is C++. The chain runs under `cs_main`, the wallet under `cs_wallet`, and the staker and the RPC server run on threads of their own. The models check what must hold over every order of blocks, RPCs, timer jobs, staker steps and storage failures.

## The system

| Part | Source | What it does |
|---|---|---|
| Block acceptance | `cblock.cpp` `CBlock::AcceptBlock` | Runs the contextual checks, writes the block to disk, then calls `AddToBlockIndex`. |
| Block index | `cblock.cpp` `CBlock::AddToBlockIndex` | Builds the `CBlockIndex` (pprev, height, `nChainTrust`) and inserts it into `mapBlockIndex`. Writes its record in a txdb transaction. Calls `SetBestChain` when its trust beats `nBestChainTrust`. |
| Best-chain selection | `cblock.cpp` `SetBestChain`, `SetBestChainInner` | Either extends the best chain by one block, or reorganizes. A reorganize walks back to `pindexIntermediate`, calls `Reorganize`, then reconnects the postponed blocks one transaction each. `SetBestChainInner` removes each connected block's transactions from the mempool. |
| Ledger mutation | `cblock.cpp` `ConnectBlock`, `DisconnectBlock` | Applies a block's transactions to the txdb spend index, or undoes them. |
| Memory pool | `ctxmempool.cpp` `CTxMemPool` | Unconfirmed transactions (`mapTx`), indexed by the outputs they spend (`mapNextTx`). |
| Context-free checks | `cblock.cpp` `CheckBlock` | Structure, Merkle root, and the masternode/devops payment checks. |
| Masternode payments | `cmasternodepayments.cpp` | The winner list and the payee chosen for each height. |
| Miner and staker | `miner.cpp`, `cwallet.cpp` `CreateCoinStake` | `CreateNewBlock` fills a template from the mempool. The staker thread (`ThreadStakeMiner`) builds a coinstake from the wallet's coins, signs the block and submits it (`CheckStake`). |
| Wallet lock and key pool | `cwallet.cpp`, `rpcwallet.cpp` | Encryption, unlock (full or staking-only) with a timer that relocks, passphrase change, and the pool of pre-generated keys. |
| Wallet coins and accounts | `cwallet.cpp`, `rpcwallet.cpp` | Coin selection, transaction creation and commit, `sendtoaddress`, `sendfrom`, `sendmany`, `move`, the balances, `FixSpentCoins` and `repairwallet`, `reservebalance`. |
| Keys, RPC server, daemon | `ckey.cpp`, `base58.cpp`, `rpc*.cpp`, `bitcoind.cpp`, ... | Encodings, I/O and start-up. |

Several functions are called from `src/` but not defined there:
- `Reorganize` and `LoadBlockIndex`;
- `AcceptToMemoryPool`;
- `FetchInputs`, `ConnectInputs` and `DisconnectInputs`;
- the reward functions.

Their definitions here are taken from `spec.md` and marked `spec_modelled` in `PROJECT.json`. `GetMasternodePayment` and `GetDevOpsPayment` are not in the repository at all, and nor are the fork times (`START_DEVOPS_PAYMENTS`, `VERION_1_0_0_0_MANDATORY_UPDATE_START`). The models therefore take the amounts as constants and the era flags as free choices.

How the parts meet, and where the models compose them:
- `SetBestChainInner` connects a block and then empties the mempool of its transactions. `CreateNewBlock` reads the pool and the txdb. **TxLedger** holds all three.
- `CreateCoinStake` lays out the coinstake outputs, and `CheckBlock` checks them at fixed indices. **BlockPayments** holds both.
- The staker and the wallet RPCs share the wallet's coins with no lock held across the staker's steps. `CheckStake` runs `FixSpentCoins` after each staked block. **WalletCoins** holds both threads.
- The key pool promises keys in creation order. **Wallet** is shown to implement **KeyDispenser**.

## Modules

### `ChainSelector.tla`

This module models block acceptance, the block index, best-chain selection and the mempool as one state machine.

**Blocks and transactions.**
- A block is a model value with a fixed `Parent`.
- `ChainTrust` is the recursive sum of the `nChainTrust` computation at `cblock.cpp:934`.
- A block's transactions are the set `BlockTxs[b]`. Each transaction is identified by the coin it spends (`Spends`).
- `ConnectBlock` is reduced to its outcome (`ConnectOutcomes`):
  - a bad block always fails;
  - a block connected on a tip other than its parent may fail, because its inputs may be missing.

**State.**

| Variable | Code |
|---|---|
| `mapBlockIndex` | the in-memory index |
| `diskBlockIndex` | the committed index records |
| `pindexBest` | `hashBestChain`, `nBestHeight` and `nBestChainTrust`, which are always set together |
| `pnext` | the forward links |
| `txdbBest` | `hashBestChain` as committed in the txdb |
| `connected` | the blocks whose transactions the ledger holds |
| `mempool` | the unconfirmed transactions |

**Actions.**
- `AcceptBlock(b)`: the duplicate and missing-parent guards, then all of `AddToBlockIndex` and `SetBestChain`. Each handler runs under `cs_main`, so each is one atomic step.
- `SetBestChain` is one formula, with a disjunct for each path of the C++ function:
  - `TxnBegin` failure;
  - the extend case: connect OK, `ConnectBlock` fails, or commit fails;
  - the reorganize case: `Reorganize` fails, its commit fails, or it succeeds.
- When `Reorganize` succeeds, the postponed reconnect loop is a `FoldLeft` of `SetBestChainInner` over a prefix of `vpindexSecondary`. The loop stops when it has done all the blocks, when a connect fails, or when storage fails.
- `AddToMemoryPool(t)`: `AcceptToMemoryPool` followed by `CTxMemPool::addUnchecked`.
- `Restart`: `LoadBlockIndex` rebuilds memory from the txdb, and the mempool is lost.

**Storage failures.** `TxnBegin`, `TxnCommit` and `ReadFromDisk` failures are nondeterministic outcomes. A behaviour has at most `MaxEnvFailures` of them and at most `MaxRestarts` restarts.

`MC_ChainSelector.tla` instantiates the module with this block tree:

```
G - A1 - A2 - A3        A2 fails ConnectBlock
  \ B1 - B2             B2 has block trust 2, every other block 1
```

The tree has these cases:
- A1 and B1 tie, and so do A3 and B2.
- B2 makes the walk back stop one block below the tip whenever A1 is best.
- A2 is a valid-at-accept block that fails at connect.

There are three transactions: `t1` in A1, `t2` in B1, and `t3` in both A3 and B2. `t1` and `t2` spend the same coin.

### `MerkleTree.tla`

This module models `BuildMerkleTree`, `GetMerkleBranch` and `CheckMerkleBranch`, and the duplicate-txid check that `CheckBlock` runs (`cblock.cpp` 263-335, 1550-1561).
- `Hash(x, y)` is the pair `<<x, y>>`. That makes it an ideal hash: injective, and never equal to a leaf.
- `NextLevel` is one pass of the in-place loop, with partner `std::min(i+1, nSize-1)`. `TreeFrom` lays the levels out one after another, as in `vMerkleTree`.
- `BranchFrom` walks the same layout with the offset `j` and the sibling `nIndex^1`. `CheckMerkleBranch` is a `FoldLeft` over the branch.
- The reference `RefRoot` builds the tree top-down: the left half, the right half, and the left half again when the right is empty.
- The state is `vtx`, grown one transaction at a time (`AddTx`) up to `MaxTxs`.

### `InflationCheck.tla`

This module models the anti-inflation check of `CBlock::AcceptBlock` (`cblock.cpp` 1683-1745). It extends `MerkleTree` and checks the same block bodies.
- Each transaction id has the value of its inputs (`ValueIn`) and of its outputs (`ValueOut`), both between 0 and `MaxMoney`.
- `CAmount` is scaled down to `AmountBits` bits. `Wrap` gives an addition's two's-complement result. Signed overflow is undefined in C++, and the emitted add wraps.
- `CountTx` is one pass of the loop: it tests `tx_inputs_values + value < 0`, then the same for the outputs, and a failed test refuses the block. `AcceptBlockValues` folds it over `vtx`, skips the check up to height 170, and then compares inputs plus reward with outputs. That last addition has no overflow test.
- `GetMapTxInputs` and `GetValueMapIn` are not in `src/`. Every input is taken to resolve, so the `catch(...)` branch is not reached.

### `BlockPayments.tla`

This module models the masternode and devops payment sections of `CBlock::CheckBlock` (`cblock.cpp` 1100-1544). It also models the coinstake outputs `CWallet::CreateCoinStake` builds (`cwallet.cpp` 2897-3140).

**The two sections of `CheckBlock`.**
- Section 1 applies to a stake block on the best tip, out of initial download. It looks for an output that pays `GetBlockPayee`'s winner the value of the coinstake's *last* output.
- Section 2 applies to an indexed block past the devops fork. It checks fixed output indices: the layout, the masternode address and amount, and the devops amount, all in whole coins.

**Data.**
- A block is a record: proof kind, outputs as `[payee, value]`, and era flags.
- The caller's context is also a record: initial download, winner, prev-is-best, indexed.

**State.**
- The clock.
- `nMasterNodeChecksDelayBaseTime`, which section 2 resets during initial download.
- The last call, with its verdict. The call also records whether the node built the block, and with which payments and amounts. This record is an observer's, not node state.

**Actions.**
- `CheckBlock(b, ctx)` checks a block from the enumerated candidates.
- `StakeOwnBlock` builds a coinstake as `CreateCoinStake` does and submits it to the same checks:
  - the payee is `GetBlockPayee`'s winner, else the current masternode, else the devops address (`CoinStakePayees`);
  - the masternode and devops outputs are resized onto the end, after one stake output or two when the stake was split;
  - a split gives the first half, rounded down to a `CENT`, to `vout[1]` (`CoinStakeVout`);
  - the masternode payment is made only while `bMasterNodePayment` holds: past `START_MASTERNODE_PAYMENTS` and not past `STOP_MASTERNODE_PAYMENTS`. `CheckBlock` tests only the start, so past the start the builder's flag is a free choice;
  - the amounts are `GetMasternodePayment` and `GetDevOpsPayment` of the staker's own `nReward`, which includes fees and coin age (`cwallet.cpp` 2887, 3073-3074). `CheckBlock` computes its dues from a zero-fee reward (`cblock.cpp` 1295, 1307, 1311). The reward functions are not in `src/`, so the builder's amounts are drawn from the constant `BuilderDues`.
- `MineOwnBlock` builds a proof-of-work block as `CreateNewBlock` does (`miner.cpp` 472-570) and submits it to the same checks:
  - past the v1.0.1.5 fork the coinbase is resized to three outputs, the masternode and devops payments after the miner's own (`CoinbaseVout`). The payments come from the block's reward with fees (`miner.cpp` 484, 556-557), so they too are drawn from `BuilderDues`;
  - the payee is chosen as for the coinstake.
- `Tick` advances the clock.
- `Observed` is the observer taking the record of the last call. It is not a step of the node, and a call is made only once the previous record has been taken. A call reads only the clock and the base time, so every sequence of calls and ticks is still possible, and each call is checked in the state right after it. Without this step, every recorded call would be a state from which every possible call is tried again.

### `TxLedger.tla`

This module models the ledger side of `ConnectBlock` and `DisconnectBlock` (`cblock.cpp` 438-640). It also models the memory pool and the transaction selection of `CreateNewBlock` (`miner.cpp` 150-466).

**State.**
- `txindex` is the spend index: one `vSpent` vector per transaction.
- `connected` is the stack of connected blocks.
- `supply` is each index entry's in-memory `nMoneySupply`.
- `snapshot` is a history variable: the index each block was connected on.
- `mapTx` and `mapNextTx` are the memory pool.

**ConnectBlock.**
- It folds `ConnectTx` over `vtx`.
- Inputs are resolved through `mapQueuedChanges` first, then the txdb (`FetchInputs`). They are marked spent in the queue (`ConnectInputs`).
- The fold sums value in and value out, the fees of non-coinstake transactions, and the coinstake's reward.
- The reward ceiling and the supply formula follow. The queued indices are written only when all of that passed.

`SetBestChainInner(b)` is `ConnectBlock` followed by `mempool.remove(tx)` for each transaction of the block (`PoolRemove`: `remove(tx, false)` at `ctxmempool.cpp` 49-83).

**DisconnectBlock.** It folds `DisconnectInputs` over `vtx` in reverse. It unspends inputs and erases each transaction's own index. Nothing goes back to the pool: the `Reorganize` that might resurrect transactions is not in `src/`.

**The pool.** `ReceiveTx` is `AcceptToMemoryPool`, taken from the spec, followed by `addUnchecked` (`ctxmempool.cpp` 28-47).

**`CreateNewBlock(order, limited)`.**
- It gives the template's transactions after the coinbase. It changes no state of the node, so it is an operator over the current state.
- `Prioritised` is `vecPriority`. Without `ENABLE_ORPHAN_TRANSACTIONS`, which is defined nowhere, a transaction with an input only the pool has is left out.
- `CollectTx` is one pass of the collect loop:
  - a transaction in `limited` is skipped by the size, sigop, time or fee limits;
  - any other is tried with `FetchInputs` and `ConnectInputs` against a copy of `mapTestPool`;
  - on success the copy is kept and the transaction appended.
- The heap's priority order comes from values, ages and sizes the model does not keep. `order` is therefore any order.

**Left out.** Scripts, sigops, maturity and coin age. They can only make a connect fail, and failure is already a branch.

`MC_TxLedger.tla` uses a genesis coinbase with outputs 2 and 2, and seven candidate blocks:
- two blocks that conflict on `g:0`, one of them spending its own transaction inside the block;
- a block with an in-block double spend;
- a block whose coinbase pays past the subsidy;
- a stake block that needs an earlier block's coinbase;
- two coinbase-only blocks.

The pool is offered `t2`, `t3` and `t5`:
- `t2` conflicts with block P1's `t1`;
- `t3` is `t2`'s child;
- `t5` conflicts with the stake block's coinstake.

### `MasternodePayments.tla`

This module models the winner list of `CMasternodePayments` (`cmasternodepayments.cpp`).

**Writers.** These hold `cs_masternodepayments`, and each is one step:
- `ReceiveVote`: a peer's vote, passed to `AddWinningMasternode`;
- `ProcessBlock`: `vecLastPayments`, then `FindOldestNotInVec` or the reverse fallback, then `AddWinningMasternode`;
- `CleanPaymentList`;
- `NewTip`: the chain grows.

**The reader.** `GetBlockPayee` takes no lock, and the staker thread calls it from `CreateCoinStake`. It is modelled as a process that reads one element, or one field, per step: `StartGetBlockPayee`, `ScanStep`, `ReadVin`.

**Scaling.** Heights are scaled, keeping the order of the lags:
- `ScoreLag` = 2 stands for 576;
- `HashLag` = 1 stands for 10;
- `VoteAhead` = 1 stands for 20;
- `LimitFloor` = 1 stands for 1000.

**History variables.**
- `offered` holds the votes scored for each height.
- `rpresent` records whether the reader's height kept a winner through the whole call.

**Assumptions.** The masternode manager is not in `src/`. Both masternodes are enabled, and `FindOldestNotInVec` follows a fixed age order.

### `Wallet.tla` and `KeyDispenser.tla`

`Wallet` models the wallet's lock state and its key pool (`cwallet.cpp`, `rpcwallet.cpp`).

**State.**
- `crypted`, `passphrase`, `keysLocked` and `stakingOnly`: `IsCrypted()`, the master key's passphrase, the keystore's lock and `fWalletUnlockStakingOnly`.
- `unlockTime` and `timer`: `nWalletUnlockTime` is set, and a `lockwallet` job is pending in `RPCRunLater`.
- The key pool:
  - `setKeyPool`, the indices in memory;
  - `poolDB`, the `pool` records;
  - `nKeys`, the keys `GenerateNewKey` has made, numbered in order.
- History variables:
  - `handed`, a bag of the keys given out;
  - `handedCrypted`, those given out after encryption;
  - `plainKeys`, the keys made before encryption;
  - `requested`, the unlock mode last asked for.
- `down` and `restarts`.

**Actions.** There is one action per RPC, each modelling the whole handler:
- `getnewaddress`, through `GetKeyFromPool`, which falls back to `GenerateNewKey` when an unlocked wallet finds the pool empty;
- `SendMoney`, which keeps its change key, or returns it when the change is dust;
- `KeypoolRefill`;
- `WalletPassphrase`;
- `LockWallet`, the timer job;
- `WalletLock`;
- `WalletPassphraseChange` and `ChangeWalletPassphrase`, the two halves of `walletpassphrasechange`:
  - the RPC call, which the model takes as a step of its own;
  - `CWallet::ChangeWalletPassphrase`, which reads `fWasLocked` before it takes `cs_wallet` (`cwallet.cpp:1224`);
  - the lockwallet timer may run between the two halves;
- `encryptwallet`: `CWallet::EncryptWallet` (`EncryptWallet`), then `StartShutdown`;
- `Restart`.

**Refinement.** `KeyDispenser` is the abstract promise of the key pool: each hand-out is a key no caller had, newer than every key handed out before. This follows "get the oldest key" in `ReserveKeyFromKeyPool`. `Wallet` instantiates it with `issued <- BagToSet(handed)` and `count <- BagCardinality(handed)`. `KeysIssuedInOrder` is `KD!Spec`, checked as a property.

**Atomicity.** The wallet RPCs take no `cs_wallet` lock around the whole call. The RPC dispatcher, which is not in `src/`, runs them one at a time, so each RPC is one step. `Idle` states this: no RPC starts while `walletpassphrasechange` is in progress. The lockwallet timer is not an RPC and may run at any time, including between the two halves of `walletpassphrasechange`.

### `CoinSelection.tla`

This module models the coin selection of `CWallet` (`cwallet.cpp`) as operators that return the *set* of results the code can produce:
- `SelectCoins`, with its three confirmation tiers;
- `SelectCoinsMinConf`;
- the stochastic `ApproximateBestSubset`.

The random choices are nondeterministic: the shuffle of `vCoins`, the order of equal values after the sort, and the bits of `insecure_rand`.

Of the 1000 rounds of `ApproximateBestSubset`, one is kept. The code keeps the first best set of the round that found the least total, and one round with the same random bits returns that set too.

`WalletCoins` uses this module. `Payable` is the reference definition `SendRefusedOnlyWhenUnpayable` compares `CreateTransaction` with: some set of available coins pays the outputs and the fee for its own size.

### `WalletCoins.tla`

This module models the wallet's coins, the send RPCs, the accounts and the staker thread (`cwallet.cpp`, `rpcwallet.cpp`, `miner.cpp`).

**Outputs.** Outputs are numbered in the order they reach `mapWallet`.
- The wallet's view of an output:
  - `coinVal`, its value;
  - `coinDepth`, its depth class (0, 1..9, or 10 and more);
  - `coinAcct`, the account of its address, or `NoAccount` for change;
  - `mine`, whether it is a change output (`IsFromMe`);
  - `spent`, which is `vfSpent`.
- The chain's view: `chainSpent`, the outputs whose spending transaction is in a block (`txindex.vSpent`).
- `sends` are the transactions `CommitTransaction` recorded: their inputs, value, fee, change output, account and fate.

**Sends.**
- `CreateTransaction` is the fee loop: select coins for value plus fee, settle the change (dust goes to the fee), and raise the fee to what the selection's size needs.
- `CommitTransaction` records the transaction, marks the inputs spent and keeps the change, before `AcceptToMemoryPool`.
- The RPCs are `sendtoaddress`, `sendfrom` and `sendmany`, each with its balance guard.
- `movecmd` writes a debit and a credit accounting entry.
- `GetAccountBalance` and `GetBalanceAll` are the tallies of `getbalance <account>` and `getbalance "*"`.

**Blocks.**
- `ReceiveCoin` is a payment in to an account.
- `ConfirmReceived`, `ConfirmSend` and `Bury` are blocks from other nodes that confirm, or bury deeper, a payment in or a send.
- `Repair` is `repairwallet`: `FixSpentCoins` over the confirmed outputs.
- `scanforalltxns` is `ScanForWalletTransactions` followed by `ReacceptWalletTransactions`:
  - the scan finds nothing the wallet lacks, because every block that touches the wallet is an action here;
  - the re-accept marks spent every confirmed output the txindex holds spent;
  - it puts each rejected send back in the pool, visiting them in every order (`ReacceptSend`).

**The staker.** It is a second thread, whose steps interleave with the RPCs and with blocks:
- `StakeBegin` is `CreateCoinStake` reading `nBalance`. It also records the pool sends the block template holds.
- `StakeSign` selects the kernel (`SelectCoinsForStaking`), combines further coins (`Combine`, `CombineStops`) up to `nBalance - nReserveBalance`, and signs. If the tip has moved, it gives up.
- `CheckStake` submits the block. It refuses a stale block, and a block whose coinstake spends an input a template send spends. Otherwise the block becomes the tip, confirming the template's sends, and `FixSpentCoins` runs.
- `StakeOrphaned` is the block being orphaned: `DisableTransaction` marks the coinstake's inputs unspent, and the template's sends go back to the pool.
- `reservebalance` sets `nReserveBalance`, rounded to a `CENT`.

The coinstake's own outputs stay immature within the bounds, so they are left out.

**Bounds in the model.**
- `MaxCoins`, `MaxSends`, `MaxMoves`, `MaxRepairs`, `MaxScans` and `MaxStakes` cap the counters.
- `MC_WalletCoins.tla` adds the constraint `StakingOrAccounts`. A behaviour that stakes or sets a reserve makes at most one send, from the account `""`, and no move. The second account, the second send and `move` are explored in the behaviours that do not stake. Each of these is explored, only not all in one behaviour. A `scanforalltxns` call is explored after a coinstake and a send. Before that, the wallet agrees with the chain. A check of the unbounded model showed that a scan made before any coinstake or `repairwallet` changes nothing.

  Within these bounds, the scan marks outputs spent but never puts a rejected send back in the pool. The conflicting spend of a rejected send never goes away here.

## Runs

| Run | Config | Checks | Result |
|---|---|---|---|
| `chain_env` | `MC_ChainSelector_env.cfg` | `TypeOK`, `BestMatchesLedger`, `ReliableLedgerIsChain`, `PnextFollowsBest`, `BestIsMaxValidTrust`, `MempoolHoldsNoConfirmedTx`, `LedgerTrustIncreases` (action property), with up to 2 storage failures | passes |
| `chain_gap` | `MC_ChainSelector_gap.cfg` | `LedgerIsChain` with 1 storage failure | violated: code bug |
| `merkle` | `MC_MerkleTree.cfg` | `RootMatchesReference`, `BranchesVerify`, `UniqueListsHaveDistinctRoots`, `ValueCheckExact` | passes |
| `payments` | `MC_BlockPayments.cfg` | `TypeOK`, `OwnBlockRefusedOnlyForFees` | passes |
| `ledger` | `MC_TxLedger.cfg` | `TypeOK`, `SupplyMatchesUnspent`, `SupplyGrowthBounded`, `DisconnectRestores` (action property) | passes |
| `mnpay` | `MC_MasternodePayments.cfg` | `TypeOK`, `OneWinnerPerHeight`, `WinnerHasBestScore` | passes |
| `mnpay_reader` | `MC_MasternodePayments_reader.cfg` | `GetBlockPayeeCorrect` | violated: code bug |
| `mnpay_rotation` | `MC_MasternodePayments_rotation.cfg` | `PaidOncePerCycle` | violated: code bug |
| `wallet` | `MC_Wallet.cfg` | `TypeOK`, `PoolRecordsPresent`, `FlushedPoolKeysAreNew`, `EventuallyRelocked` (liveness), `KeysIssuedInOrder` (refinement) | passes |
| `wallet_unlock` | `MC_Wallet_unlock.cfg` | `FullUnlockTimed` | violated: code bug |
| `coins` | `MC_WalletCoins.cfg` | `TypeOK`, `SendRefusedOnlyWhenUnpayable` | passes |
| `coins_repair` | `MC_WalletCoins_repair.cfg` | `NoCoinSpentTwice` | violated: code bug |

Every property of a passing run has a mutant in `PROJECT.json`: a plausible bug in the definition it is about (a dropped guard, a wrong order, a missing reset) under which TLC finds the property violated.

### The passing runs

**`chain_env`.** The run covers every order of block arrival, mempool additions, one restart and up to two storage failures. While storage has not failed, all of these hold (they are stated under `StorageReliable`):
- the in-memory best equals the committed best;
- the ledger holds exactly one chain;
- `pnext` links that chain;
- no valid indexed chain beats the best one;
- the mempool never holds a confirmed transaction.

Storage failures break the first three (see `chain_gap`). Even with failures, the committed best only ever moves to a chain of strictly higher trust.

**`merkle`.** For every list of up to 5 transaction hashes, duplicates included:
- the in-place tree equals the top-down reference;
- every branch folds back to the root;
- among duplicate-free lists, the root determines the list.

Without the duplicate check, `[a,b,c]` and `[a,b,c,c]` share a root (CVE-2012-2459).

The same run checks `ValueCheckExact` on every block body. At heights 170 and 171, the value check accepts a block exactly when its inputs and the reward cover its outputs and still fit in a `CAmount`. The overflow tests keep a wrapped running sum from hiding an inflating block. Without them (the `CountTxUnguarded` mutant), inputs of 6, 7 and 6 sum to 19, which wraps to -13, and the comparison then treats the sums as wrapped values.

**`payments`.** Consider a block the node built itself with both payments: a coinstake from `CreateCoinStake`, split or not, or a proof-of-work coinbase from `CreateNewBlock` past the v1.0.1.5 fork. Take every caller context whose winner is a valid masternode, or that has none. Section 2 refuses such a block exactly when the payments from the builder's fee-inclusive reward differ in whole coins from the zero-fee dues (`OwnBlockRefusedOnlyForFees`). The devops payment past v1.0.1.5 may be larger than its due.

So the builder always puts 4 or 5 outputs (or 3) with the payments where `nProofOfIndexMasternode` and `nProofOfIndexDevops` look, and fees are the only thing that makes the node refuse its own block. With `BuilderDues`, a masternode payment one unit short still passes by truncation. One a coin higher is refused. The `CoinStakeVoutDevFirst` mutant puts the devops output first and breaks the property.

**`ledger`.** Over every order of connects, disconnects and pool arrivals:
- the tip's `nMoneySupply` equals the value of the unspent outputs in the index;
- no block grew the supply by more than the subsidy;
- every disconnect of the tip succeeds and restores the exact index the block was connected on.

`CreateNewBlock`'s collect loop admits a transaction through the same `ConnectTx` that `ConnectBlock` applies, so a claim that its templates connect would hold by that shared definition alone. No run states it.

**`mnpay`.** Over every interleaving of one peer vote, `ProcessBlock`, cleaning, new blocks and the lock-free reader:
- the list holds one winner per height;
- that winner has the best score of every vote scored for its height.

**`wallet`.** Over every interleaving of the wallet RPCs, the lockwallet timer and a restart:
- every index in `setKeyPool` has its `pool` record;
- every key handed out after `encryptwallet` was made after encryption;
- an encrypted wallet unlocked with a deadline (`nWalletUnlockTime` set) is eventually locked again, or the node goes down;
- the key pool implements `KeyDispenser`: keys go out once each, in the order they were made.

**`coins`.** Over every interleaving of the send RPCs from two accounts, payments in, moves, blocks from other nodes, `repairwallet`, `scanforalltxns`, `reservebalance` and the staker thread:
- `CreateTransaction` refuses only what no set of available coins can pay, across the three `SelectCoins` tiers and the fee loop.

No run states the claims that hold by a single assignment or guard:
- that a send balances: `Settle` computes the change as inputs less value and fee;
- that it pays its size fee: this is the loop's exit test;
- that accounts sum to `getbalance "*"`: `move` writes both entries in one step;
- that a coinstake keeps the reserve of the balance it read: this is the guard at `cwallet.cpp:2820`.

### The violations

- **`chain_gap`.** `SetBestChain` publishes `pindexNew` at `cblock.cpp:841`, even after a postponed reconnect failed. The next block then extends the in-memory tip, and `ConnectBlock` runs on a ledger that lacks its parent.
- **`mnpay_reader`.** `GetBlockPayee` can give an answer the list never gave. There are two ways:
  - `CleanPaymentList` erases an old winner while the staker's `GetBlockPayee` is past it. The wanted winner shifts behind the reader, which reports none.
  - A better vote replaces the winner between the read of `payee` and the read of `vin` (`cmasternodepayments.cpp:118`).

  Both are data races on a `std::vector` (`cmasternodepayments.cpp:114`).
- **`mnpay_rotation`.** The comment at `cmasternodepayments.cpp:272` says `vecLastPayments` stops after one full payment cycle. The code stops after `nMinimumAge + 1` entries. With two masternodes, `ProcessBlock` pays m1, m2, m1, m1, m2, and so on.
- **`wallet_unlock`.** The trace goes like this:
  1. `walletpassphrase p t true` unlocks for staking only.
  2. `walletpassphrasechange p p` reads `fWasLocked = false`.
  3. It calls `Lock()`, which clears `fWalletUnlockStakingOnly` (`cwallet.cpp:1231`).
  4. It unlocks, and does not lock again (`cwallet.cpp:1299`).

  The wallet is now fully unlocked and can send.

  `FullUnlockTimed` says that a fully unlocked encrypted wallet was asked for a full unlock and has a deadline. It fails a second way, through the timer race at `cwallet.cpp:1224`:
  1. `walletpassphrase p t` unlocks fully and starts the timer.
  2. `walletpassphrasechange` reads `fWasLocked = false`.
  3. The lockwallet timer locks the wallet and clears `nWalletUnlockTime`.
  4. The change unlocks to re-key and, since `fWasLocked` is false, never locks again.

  The wallet is left unlocked with no timer and no deadline.
- **`coins_repair`.** `FixSpentCoins` (`cwallet.cpp:5063`) treats an output the wallet holds spent as lost when `txindex.vSpent` is null. The txindex is written only when a block connects, so the inputs of a send still in the memory pool look lost. `repairwallet` runs `FixSpentCoins` on demand. `CheckStake` runs it after every staked block (`miner.cpp:781`), and a send made after the template was built is not in that block. The inputs are marked unspent, and the next `sendtoaddress` spends them again. `CommitTransaction` records the second transaction before `AcceptToMemoryPool` refuses it. The wallet then keeps a transaction, and its change, that can never confirm.

  The same invariant also fails with no `repairwallet` at all. The staker picks coins without marking them, and a send takes one of them. The staked block is then orphaned, and `DisableTransaction` (`cwallet.cpp:5126`) marks the coin unspent although the pending send spends it.

### Seen while modelling, not checked by a run

TLC found each of these with the property named. None is a kept run, because runs are limited to twelve. They are recorded as hazards in `PROJECT.json`.
- **Orphaned index record.** `AddToBlockIndex` inserts into `mapBlockIndex` (`cblock.cpp:958`) before its txdb transaction. A failed write leaves the block in memory, and its children's records are committed without it. This was `DiskIndexClosed` in `ChainSelector`, with one storage failure.
- **Checks-delay timer.** The timer is never compared with the clock (`cblock.cpp:1354`). Only `nMasterNodeChecksEngageTime != 0` is tested. A wrong masternode address is rejected at once with `fMnAdvRelay`, and accepted forever without it. Spec scenario 5 says it is tolerated until the timer elapses. This was `ChecksDelayHonoured` in `BlockPayments`.
- **Own stake block and section 1.**
  - Section 1 takes the expected masternode amount from the coinstake's last output (`cblock.cpp:1132`). In the layout `CreateCoinStake` builds, the last output is the devops payment.
  - With a known winner on the best tip, TLC finds the staker's own correctly built block rejected whenever its masternode and devops payments differ.
  - Whether they differ on the network depends on `GetMasternodePayment` and `GetDevOpsPayment`, which are not in the repository.
  - A coinstake with a masternode payment and no devops payment, split in two, has 4 outputs. Section 2 would then read a stake output as the masternode payment. Whether that combination of eras occurs depends on fork times that are also not in the repository.
- **Past `STOP_MASTERNODE_PAYMENTS`.** `CreateCoinStake` then makes no masternode payment (`cwallet.cpp:2948`). Section 1 tests only `START_MASTERNODE_PAYMENTS` (`cblock.cpp:1108`). On the tip with a known winner, TLC finds such a coinstake refused at once.
- **Mempool conflicts.** `SetBestChainInner` removes only a block's own transactions from the mempool (`cblock.cpp:2025`). Nothing in `src/` calls `removeConflicts`. A pool transaction double-spent by a connected block stays, as TLC shows in `TxLedger`. The spec (section 6) says the pool is told to evict conflicting transactions.
- **Context-dependent verdict.** Section 2 runs only for a block already in `mapBlockIndex` (`cblock.cpp:1247`). `AcceptBlock`'s check and `ConnectBlock`'s check of the same block can therefore disagree.
- **Amount truncation.** Payment amounts are compared in whole coins (`cblock.cpp:1310`), so a masternode output up to one coin short passes. `OwnBlockRefusedOnlyForFees` states this tolerance for the node's own blocks.
- **`sendfrom` and the fee.** `sendfrom` compares the amount with the account balance without the fee it then adds (`rpcwallet.cpp:1191`). An account that sends its whole balance ends negative by the fee. No run states that accounts stay non-negative, because `move` may overdraw an account by design.
- **Stale `nBalance`.** `CreateCoinStake` limits the stake by the `nBalance` it read before selecting (`cwallet.cpp:2820`), with no lock held in between. The limit holds against the balance as read. A send in the window shrinks the balance, so measured at signing the coinstake can take coins the reserve was meant to keep.
- **`fFixSpentCoins`.** `SyncTransaction` marks the inputs of a transaction spent only when `fFixSpentCoins` is set, and its default is set outside `src/`. The model marks inputs spent in `CommitTransaction` and through `FixSpentCoins`, which every path above uses.

## Bounds

- **Block tree.** Six blocks give three heights on two branches. That is the smallest tree that has all of these:
  - a reorganize that postpones a reconnect;
  - ties;
  - a bad block in the middle of a branch;
  - a block extending a tip that was published but never connected.
- **Storage failures and restarts.** Two failures are enough for a failure in the index write plus one in the reconnect loop. One restart is enough, since memory is rebuilt from disk each time.
- **Merkle lists.** Lists of up to 5 over 4 hashes cover one, two and three levels, odd levels at every depth, and the 3-versus-4 duplication pair.
- **Inflation values.** A 5-bit `CAmount` (largest 15), `MAX_MONEY` 7 and a reward of 2. Three transactions of up to 7 can overflow a running sum, while two cannot.
- **Payment values.**
  - `COIN = 2`, `MNDue = 5` and `DevDue = 3` make whole-coin truncation visible.
  - `BuilderDues` has three pairs. The dues themselves (5, 3). A masternode payment of 4, still 2 coins, with a devops payment of 5, 2 coins against a due of 1: this passes only past v1.0.1.5. And a masternode payment of 6, 3 coins, which is always refused.
  - The layouts have 1 to 5 outputs: below, at and above each mandatory size.
  - The staker's credit of 9, with `CENT = 2`, gives an odd block value, so the split's rounding matters.
  - A proof-of-work reward of 10 leaves the miner 2 after both payments.
- **Ledger.**
  - Seven blocks give up to four connected at once, in every order, with each kind of failure.
  - Three pool transactions give a pool transaction later confirmed, one double-spent by a block, and a child of a pool transaction.
  - Prioritised sets have at most three transactions, so every heap order and skip set is enumerated.
- **Wallet lock and pool.**
  - `-keypool=1`, so the pool empties and refills often.
  - `keypoolrefill` sizes 0 and 3.
  - `MaxKeys = 7`.
  - Two passphrases.
  - One restart.
- **Winner list.** Two masternodes, tips up to 5 and one peer vote.
- **Coins.** The coins and coins_repair runs use these values, with the fee unit 1:
  - `nTransactionFee` per 1000 bytes, where two inputs fill 1000 bytes;
  - dust below 2;
  - payments in of 3;
  - sends of 1 and 3;
  - at most 3 outputs in `mapWallet`, 2 sends, 1 move, 1 `repairwallet`, 1 `scanforalltxns` and 1 coinstake;
  - a combine threshold of 4, and reserves of 0 and 3.

  These give selections of one, two and three inputs. They also give a fee retry because a third input overflows 1000 bytes, dust change, refused sends, an account overdrawn by `sendfrom`, a coinstake that combines a second coin, and a coinstake limited by the reserve.

## Fairness

The chain, payment, ledger and coin models check only safety, and assume no fairness. Blocks, votes, payments and RPC calls come from the network and the user, which the code does not control.

`Wallet` assumes weak fairness of two actions. `EventuallyRelocked` needs only these, and it promises a relock only while a deadline is set, because the timer race above leaves the wallet unlocked with none:
- `LockWallet`: `RPCRunLater` schedules it on the RPC timer thread, which runs it once the timeout passes;
- `Restart` while the node is down: `encryptwallet` stops the node and expects the user to start it again.

Several configs set `CHECK_DEADLOCK FALSE`, because their behaviours end where the program would go on:
- the chain configs stop once every block of the finite tree is indexed;
- the wallet config stops once `MaxKeys` keys exist;
- the coins configs stop once the counters are spent;
- the payments config stops once the clock reaches `MaxTime`.

## Not modelled

- **Checks abstracted to fixed sets.**
  - The contextual checks of `AcceptBlock` become the set of blocks that reach `AddToBlockIndex`.
  - In `ChainSelector`, `ConnectBlock`'s accounting becomes the `BadBlocks` set. `TxLedger` models that accounting on its own.
- **Miner details.**
  - The proof-of-work and proof-of-stake hash searches.
  - The priority and fee-per-kB values, which are replaced by any order.
  - `CheckWork` and the header fields. Nothing in `src/` calls `CheckWork` or `CreateNewBlock`.
  - `nTransactionsUpdated`.
- **Mempool.** The recursive branch of `remove` and `removeConflicts`, which nothing in `src/` calls.
- **Wallet.**
  - Coin control, stealth addresses, MNengine, and locked coins (nothing in `src/` locks one).
  - Races inside the other RPCs, such as the timer between `SendMoney`'s lock check and `CreateTransaction`. They are listed as hazards.
  - Reservations held across calls, as the GUI's two-step send does. These are made outside `src/`.
  - `GetMinFee` in the fee loop's exit test (`cwallet.cpp` 2479-2481). `EnoughFee` tests only the size fee. The code's test is the stronger of the two.
  - A failed `AddAccountingEntry` in `move` (`rpcwallet.cpp` 1095, 1107). wallet.dat writes are not modelled in `WalletCoins`, so `movecmd` always writes both entries.
  - The `nTimeWeight < nStakeMinAge` skip and the 100-input cap of the combine loop. No bound reaches either.
  - The window in `walletpassphrase` between the unlock and the timer lock (`rpcwallet.cpp` 2456-2482), where the old timer can fire. The RPC is one step, and that outcome leaves the wallet locked.
- **Payments.** A `GetBlockPayee` winner with an empty script is folded into `NoPayee`.
- **Out of scope.** Keys, encodings, the RPC server and daemon start-up. They are byte-level I/O and cryptography.
