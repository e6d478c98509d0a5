------------------------------ MODULE TxLedger ------------------------------
(***************************************************************************)
(* The ledger mutation of CBlock::ConnectBlock and CBlock::DisconnectBlock *)
(* (src/src/cblock.cpp): the txdb spend index (one CTxIndex per            *)
(* transaction, its vSpent flags), the fee / stake-reward accounting, the  *)
(* reward ceiling and the running money supply kept in CBlockIndex.        *)
(*                                                                         *)
(* ConnectBlock walks vtx in order, resolving inputs through               *)
(* mapQueuedChanges before the txdb (FetchInputs), marking them spent      *)
(* (ConnectInputs) and queueing a fresh index for each transaction; the    *)
(* queued indices are written only when every transaction and the reward   *)
(* check passed.  DisconnectBlock walks vtx backwards, unspending inputs   *)
(* and erasing each transaction's index (DisconnectInputs).  FetchInputs,  *)
(* ConnectInputs, DisconnectInputs and the two reward functions are not    *)
(* in src/ and are taken from the spec (section 4.4).                      *)
(*                                                                         *)
(* The blocks connected form a stack: ConnectBlock puts a candidate on the *)
(* tip, DisconnectBlock takes the tip off, as SetBestChain and Reorganize  *)
(* do.  Scripts, signatures, sigops, coin maturity and coin age are left   *)
(* out: they only make a connect fail, and failure is already a branch.    *)
(***************************************************************************)
EXTENDS Integers, Sequences, SequencesExt, FiniteSetsExt, Functions, TLC

CONSTANTS
  Txs,           \* transaction ids
  CoinbaseTxs,   \* the reward transactions (IsCoinBase)
  CoinstakeTxs,  \* the stake-claim transactions (IsCoinStake)
  Ins,           \* Ins[t]: the prevouts of t, a sequence of <<hash, n>> (n 0-based)
  Outs,          \* Outs[t]: the output values of t
  Blocks,        \* candidate blocks
  BlockTxs,      \* BlockTxs[b]: vtx of b
  PoSBlocks,     \* the stake blocks among Blocks
  GenesisTx,     \* the genesis coinbase, in the txdb from the start
  Subsidy,       \* GetProofOfWorkReward without fees
  StakeSubsidy,  \* GetProofOfStakeReward without fees
  PoolTxs        \* the transactions the network offers the memory pool

ASSUME CoinbaseTxs \cup CoinstakeTxs \subseteq Txs /\ GenesisTx \in CoinbaseTxs
ASSUME PoSBlocks \subseteq Blocks /\ Subsidy \in Nat /\ StakeSubsidy \in Nat

VARIABLES
  txindex,    \* the txdb spend index: tx id -> vSpent (TRUE = spent)
  connected,  \* the connected blocks, genesis excluded, oldest first
  supply,     \* supply[b]: pindex->nMoneySupply of b, in memory
  snapshot,   \* snapshot[b]: txindex just before b was connected (history)
  lastOp,     \* the last connect/disconnect and whether it returned true
  mapTx,      \* mempool.mapTx: the transactions in the memory pool
  mapNextTx   \* mempool.mapNextTx: prevout -> the pool transaction spending it

ledgerVars == <<txindex, connected, supply, snapshot, lastOp>>
vars == <<txindex, connected, supply, snapshot, lastOp, mapTx, mapNextTx>>

-----------------------------------------------------------------------------
(* Values.                                                                 *)

SumSeq(s) == FoldLeft(LAMBDA a, v : a + v, 0, s)

\* GetValueOut.
ValueOut(t) == SumSeq(Outs[t])

\* GetValueMapIn: the values of the outputs t spends.
ValueIn(t) == FoldLeft(LAMBDA a, o : a + Outs[o[1]][o[2] + 1], 0, Ins[t])

\* Mutant: the index sized one short of vout.
NewIndexShort(t) == [k \in 1..Len(Outs[t]) - 1 |-> FALSE]

\* CTxIndex(pos, vout.size()): every output unspent.
NewIndex(t) == [k \in 1..Len(Outs[t]) |-> FALSE]

\* pindexGenesisBlock->nMoneySupply.
GenesisSupply == ValueOut(GenesisTx)

\* pindex->pprev->nMoneySupply for a block connected on the current tip.
TipSupply == IF connected = <<>> THEN GenesisSupply ELSE supply[Last(connected)]

-----------------------------------------------------------------------------
(* ConnectBlock (cblock.cpp 471-640).                                      *)

\* FetchInputs: an index queued by this block wins over the txdb's.
Lookup(q, idx, u) == IF u \in DOMAIN q THEN q[u] ELSE idx[u]

\* FetchInputs fails on an unknown prevout or prevout.n out of range.
FetchInputs(t, q, idx) ==
  \A o \in ToSet(Ins[t]) :
    o[1] \in DOMAIN q \cup DOMAIN idx /\ o[2] < Len(Lookup(q, idx, o[1]))

\* ConnectInputs: each prevout must be unspent; it is marked spent in the
\* test pool (mapQueuedChanges).
ConnectInputs(t, q, idx) ==
  FoldLeft(LAMBDA acc, o :
             LET prev == Lookup(acc.q, idx, o[1])
             IN  [ok |-> acc.ok /\ ~prev[o[2] + 1],
                  q  |-> (o[1] :> [prev EXCEPT ![o[2] + 1] = TRUE]) @@ acc.q],
           [ok |-> TRUE, q |-> q], Ins[t])

\* Mutant: the spends ConnectInputs queued are dropped.
ConnectTxDropSpends(idx, acc, t) ==
  IF ~acc.ok THEN acc
  ELSE IF t \in CoinbaseTxs
  THEN [acc EXCEPT !.vout = @ + ValueOut(t), !.q = (t :> NewIndex(t)) @@ @]
  ELSE IF ~FetchInputs(t, acc.q, idx) THEN [acc EXCEPT !.ok = FALSE]
  ELSE LET ci == ConnectInputs(t, acc.q, idx)
       IN  [ok    |-> ci.ok,
            q     |-> (t :> NewIndex(t)) @@ acc.q,
            fees  |-> acc.fees + IF t \in CoinstakeTxs THEN 0 ELSE ValueIn(t) - ValueOut(t),
            vin   |-> acc.vin + ValueIn(t),
            vout  |-> acc.vout + ValueOut(t),
            stake |-> IF t \in CoinstakeTxs THEN ValueOut(t) - ValueIn(t) ELSE acc.stake]

\* One pass of the loop over vtx: nValueIn, nValueOut, nFees (not for the
\* coinstake), nStakeReward (the coinstake's), mapQueuedChanges[hashTx].
ConnectTx(idx, acc, t) ==
  IF ~acc.ok THEN acc
  ELSE IF t \in CoinbaseTxs
  THEN [acc EXCEPT !.vout = @ + ValueOut(t), !.q = (t :> NewIndex(t)) @@ @]
  ELSE IF ~FetchInputs(t, acc.q, idx) THEN [acc EXCEPT !.ok = FALSE]
  ELSE LET ci == ConnectInputs(t, acc.q, idx)
       IN  [ok    |-> ci.ok,
            q     |-> (t :> NewIndex(t)) @@ ci.q,
            fees  |-> acc.fees + IF t \in CoinstakeTxs THEN 0 ELSE ValueIn(t) - ValueOut(t),
            vin   |-> acc.vin + ValueIn(t),
            vout  |-> acc.vout + ValueOut(t),
            stake |-> IF t \in CoinstakeTxs THEN ValueOut(t) - ValueIn(t) ELSE acc.stake]

\* The totals before the first transaction: no queued change yet.
NoTally == [ok |-> TRUE, q |-> [u \in {} |-> <<>>], fees |-> 0, vin |-> 0,
            vout |-> 0, stake |-> 0]

\* The whole loop over a vtx, over the txdb as it is.
TallySeq(vtx) == FoldLeft(LAMBDA acc, t : ConnectTx(txindex, acc, t), NoTally, vtx)

Tally(b) == TallySeq(BlockTxs[b])

\* GetProofOfWorkReward(nHeight, nFees), GetProofOfStakeReward(.., nFees).
PowReward(fees) == Subsidy + fees
PosReward(fees) == StakeSubsidy + fees

\* Mutant: the reward ceiling not enforced.
RewardOkUnchecked(b, r) == TRUE

\* The coinbase may not pay more than nReward; the coinstake may not earn
\* more than nCalculatedStakeReward.
RewardOk(b, r) ==
  IF b \in PoSBlocks THEN r.stake <= PosReward(r.fees)
  ELSE ValueOut(BlockTxs[b][1]) <= PowReward(r.fees)

\* pindex->nMoneySupply = pprev->nMoneySupply + nValueOut - nValueIn.
NewSupply(prev, r) == prev + r.vout - r.vin

ConnectBlock(b) ==
  /\ b \notin ToSet(connected)
  /\ LET r == Tally(b) IN
     \/ /\ r.ok /\ RewardOk(b, r)
        /\ txindex' = r.q @@ txindex
        /\ connected' = Append(connected, b)
        /\ supply' = [supply EXCEPT ![b] = NewSupply(TipSupply, r)]
        /\ snapshot' = [snapshot EXCEPT ![b] = txindex]
        /\ lastOp' = [op |-> "connect", ok |-> TRUE]
     \/ /\ ~(r.ok /\ RewardOk(b, r))
        /\ lastOp' = [op |-> "connect", ok |-> FALSE]
        /\ UNCHANGED <<txindex, connected, supply, snapshot>>

-----------------------------------------------------------------------------
(* DisconnectBlock (cblock.cpp 438-469).                                   *)

\* DisconnectInputs: each prevout's index must be readable and in range;
\* the output is unspent; then the transaction's own index is erased.
DisconnectTx(acc, t) ==
  IF ~acc.ok THEN acc
  ELSE LET unspent ==
             FoldLeft(LAMBDA a, o :
                        IF ~a.ok \/ o[1] \notin DOMAIN a.idx
                           \/ o[2] >= Len(a.idx[o[1]])
                        THEN [a EXCEPT !.ok = FALSE]
                        ELSE [a EXCEPT !.idx[o[1]][o[2] + 1] = FALSE],
                      acc, IF t \in CoinbaseTxs THEN <<>> ELSE Ins[t])
       IN  [unspent EXCEPT !.idx = Restrict(@, DOMAIN @ \ {t})]

\* Mutant: vtx undone first to last.
DisconnectAllForward(b) ==
  FoldLeft(DisconnectTx, [ok |-> TRUE, idx |-> txindex], BlockTxs[b])

\* The loop for (i = vtx.size()-1; i >= 0; i--).
DisconnectAll(b) ==
  FoldLeft(DisconnectTx, [ok |-> TRUE, idx |-> txindex], Reverse(BlockTxs[b]))

\* The tip only; its in-memory nMoneySupply is left as it was.  A failed
\* disconnect aborts the txdb transaction and changes nothing.
DisconnectBlock ==
  /\ connected # <<>>
  /\ LET r == DisconnectAll(Last(connected)) IN
     /\ txindex' = IF r.ok THEN r.idx ELSE txindex
     /\ connected' = IF r.ok THEN Front(connected) ELSE connected
     /\ lastOp' = [op |-> "disconnect", ok |-> r.ok]
     /\ UNCHANGED <<supply, snapshot>>

-----------------------------------------------------------------------------
(* The memory pool (ctxmempool.cpp) and the block template of              *)
(* CreateNewBlock (miner.cpp 150-600).                                     *)

\* AcceptToMemoryPool is not in src/; after the spec (section 6) it admits
\* a transaction that is neither a coinbase nor a coinstake, not known
\* already, spending no prevout a pool transaction spends, whose inputs
\* are unspent outputs in the txdb or outputs of pool transactions.
AcceptToMemoryPool(t) ==
  /\ t \notin CoinbaseTxs \cup CoinstakeTxs
  /\ t \notin mapTx /\ t \notin DOMAIN txindex
  /\ \A o \in ToSet(Ins[t]) :
       /\ o \notin DOMAIN mapNextTx
       /\ \/ o[1] \in DOMAIN txindex /\ o[2] < Len(txindex[o[1]])
             /\ ~txindex[o[1]][o[2] + 1]
          \/ o[1] \in mapTx /\ o[2] < Len(Outs[o[1]])

\* CTxMemPool::addUnchecked: mapTx[hash] = tx, and mapNextTx[prevout]
\* points at it for each input.
addUnchecked(t) ==
  /\ mapTx' = mapTx \cup {t}
  /\ mapNextTx' = [o \in ToSet(Ins[t]) |-> t] @@ mapNextTx

ReceiveTx ==
  /\ \E t \in PoolTxs : AcceptToMemoryPool(t) /\ addUnchecked(t)
  /\ UNCHANGED ledgerVars

\* CTxMemPool::remove(tx, false): a transaction in mapTx leaves it, and
\* mapNextTx loses the entries of its prevouts; any other is ignored.
PoolRemove(pool, t) ==
  IF t \in pool.tx
  THEN [tx |-> pool.tx \ {t},
        next |-> Restrict(pool.next, DOMAIN pool.next \ ToSet(Ins[t]))]
  ELSE pool

\* SetBestChainInner (cblock.cpp 1999-2027): ConnectBlock, then
\* mempool.remove of each transaction of vtx; conflicting pool
\* transactions are left where they are.
SetBestChainInner(b) ==
  /\ ConnectBlock(b)
  /\ LET pool == FoldLeft(PoolRemove, [tx |-> mapTx, next |-> mapNextTx], BlockTxs[b])
     IN  IF lastOp'.ok THEN mapTx' = pool.tx /\ mapNextTx' = pool.next
         ELSE UNCHANGED <<mapTx, mapNextTx>>

\* The pool transactions put in vecPriority: no coinbase or coinstake,
\* and every prevout read from the txdb; ENABLE_ORPHAN_TRANSACTIONS is
\* not defined, so an input only the pool has sets fMissingInputs.
Prioritised ==
  {t \in mapTx : t \notin CoinbaseTxs \cup CoinstakeTxs
                 /\ \A o \in ToSet(Ins[t]) : o[1] \in DOMAIN txindex}

\* One pass of the collect loop.  A transaction the size, sigop, time or
\* fee limits skip is in limited; any other is tried against a copy of
\* mapTestPool with FetchInputs and ConnectInputs: a failure drops the
\* copy, a success keeps it and appends the transaction to vtx.
CollectTx(limited, acc, t) ==
  IF t \in limited THEN acc
  ELSE LET c == ConnectTx(txindex, acc.r, t)
       IN  IF c.ok THEN [r |-> c, vtx |-> Append(acc.vtx, t)] ELSE acc

\* The vtx of the template, after the coinbase.  It changes no state of
\* the node; the priority and fee-per-kB order is data the model does not
\* keep, so order is any order the heap may pop the transactions in.
CreateNewBlock(order, limited) ==
  FoldLeft(LAMBDA acc, t : CollectTx(limited, acc, t),
           [r |-> NoTally, vtx |-> <<>>], order).vtx

-----------------------------------------------------------------------------

Init ==
  /\ txindex = GenesisTx :> NewIndex(GenesisTx)
  /\ connected = <<>>
  /\ supply = [b \in Blocks |-> 0]
  /\ snapshot = [b \in Blocks |-> txindex]
  /\ lastOp = [op |-> "none", ok |-> TRUE]
  /\ mapTx = {}
  /\ mapNextTx = [o \in {} |-> GenesisTx]

\* A disconnect gives nothing back to the pool here: the Reorganize that
\* would resurrect the transactions is not in src/.
Next ==
  \/ \E b \in Blocks : SetBestChainInner(b)
  \/ DisconnectBlock /\ UNCHANGED <<mapTx, mapNextTx>>
  \/ ReceiveTx

Spec == Init /\ [][Next]_vars

-----------------------------------------------------------------------------
(* Properties.                                                             *)

\* Types; every spend index has one flag per output of its transaction.
TypeOK ==
  /\ DOMAIN txindex \subseteq Txs
  /\ \A u \in DOMAIN txindex : txindex[u] \in [1..Len(Outs[u]) -> BOOLEAN]
  /\ connected \in Seq(Blocks) /\ supply \in [Blocks -> Int]
  /\ lastOp.op \in {"none", "connect", "disconnect"} /\ lastOp.ok \in BOOLEAN
  /\ mapTx \subseteq PoolTxs /\ Range(mapNextTx) \subseteq mapTx

\* The value of the unspent outputs the txdb records.
UnspentValue ==
  MapThenSumSet(LAMBDA p : Outs[p[1]][p[2]],
                {p \in UNION {{<<u, k>> : k \in DOMAIN txindex[u]} : u \in DOMAIN txindex} :
                   ~txindex[p[1]][p[2]]})

\* The tip's nMoneySupply equals the value of the unspent outputs: the
\* in-block spend handling of mapQueuedChanges, the fee accounting and the
\* supply formula of ConnectBlock agree with the spend index it writes,
\* over every order of connects and disconnects.
SupplyMatchesUnspent == TipSupply = UnspentValue

\* A DisconnectBlock of the tip succeeds and gives back exactly the spend
\* index the block was connected on (spec section 8: connect and
\* disconnect are inverse).  Pool and template steps leave the ledger be.
DisconnectRestores ==
  [][(lastOp'.op = "disconnect" /\ ledgerVars' # ledgerVars) =>
       lastOp'.ok /\ txindex' = snapshot[Last(connected)]]_vars

\* No connected block grew the money supply by more than the larger
\* subsidy: the reward checks of ConnectBlock bound what a block mints.
SupplyGrowthBounded ==
  \A k \in 1..Len(connected) :
    supply[connected[k]] - (IF k = 1 THEN GenesisSupply ELSE supply[connected[k - 1]])
      <= IF Subsidy > StakeSubsidy THEN Subsidy ELSE StakeSubsidy

=============================================================================
