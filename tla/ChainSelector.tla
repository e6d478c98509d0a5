--------------------------- MODULE ChainSelector ---------------------------
(***************************************************************************)
(* Best-chain selection of the DigitalNote node (src/src/cblock.cpp):      *)
(* CBlock::AcceptBlock hands an accepted block to AddToBlockIndex, which   *)
(* inserts it into mapBlockIndex, writes its index record to the txdb and, *)
(* when its chain trust beats nBestChainTrust, calls SetBestChain.         *)
(* SetBestChain either extends the best chain (SetBestChainInner), or      *)
(* reorganizes to the first block of the new branch that beats the old    *)
(* best and then connects the remaining blocks one transaction at a time.  *)
(*                                                                         *)
(* Blocks are model values with a fixed parent; a block's transactions    *)
(* are abstracted to whether ConnectBlock accepts it.  All of this runs    *)
(* under cs_main, so every handler is one atomic step.  Storage failures   *)
(* (TxnBegin, TxnCommit, ReadFromDisk) are bounded nondeterministic        *)
(* outcomes; a restart rebuilds memory from what the txdb committed.       *)
(***************************************************************************)
EXTENDS Integers, Sequences, SequencesExt, FiniteSets

CONSTANTS
  Blocks,          \* block hashes (model values), Genesis included
  Genesis,         \* the genesis block, loaded at start-up
  Parent,          \* hashPrevBlock of every non-genesis block
  BlockTrust,      \* CBlockIndex::GetBlockTrust of each block (> 0)
  BadBlocks,       \* blocks that pass AcceptBlock but fail ConnectBlock
  MaxEnvFailures,  \* bound on storage failures in a behaviour
  MaxRestarts,     \* bound on node restarts in a behaviour
  NoBlock,         \* NULL pointer / zero hash
  Txs,             \* transaction ids (model values)
  Spends,          \* the coin (outpoint) each transaction spends
  BlockTxs         \* the ordinary transactions each block contains

ASSUME Genesis \in Blocks /\ NoBlock \notin Blocks
ASSUME Parent \in [Blocks \ {Genesis} -> Blocks]
ASSUME BlockTrust \in [Blocks -> Nat \ {0}]
ASSUME BadBlocks \subseteq Blocks \ {Genesis}
ASSUME MaxEnvFailures \in Nat /\ MaxRestarts \in Nat
ASSUME DOMAIN Spends = Txs /\ BlockTxs \in [Blocks -> SUBSET Txs]

VARIABLES
  mapBlockIndex,   \* in-memory block index (set of hashes)
  diskBlockIndex,  \* block index records committed to the txdb
  pindexBest,      \* in-memory best tip; hashBestChain, nBestHeight and
                   \* nBestChainTrust are always set together with it
  pnext,           \* in-memory forward links pprev->pnext of the best chain
  txdbBest,        \* hashBestChain as committed to the txdb
  connected,       \* blocks whose transactions the txdb ledger holds
  mempool,         \* CTxMemPool::mapTx (set of transaction ids)
  envFailures,     \* storage failures so far
  restarts         \* restarts so far

memVars == <<mapBlockIndex, pindexBest, pnext, mempool>>
dbVars  == <<diskBlockIndex, txdbBest, connected>>
vars    == <<memVars, dbVars, envFailures, restarts>>

-----------------------------------------------------------------------------
(* Chain geometry.                                                         *)

\* The blocks from genesis to b, oldest first.
RECURSIVE ChainTo(_)
ChainTo(b) == IF b = Genesis THEN <<Genesis>> ELSE Append(ChainTo(Parent[b]), b)

\* The blocks of the chain to t strictly above its ancestor f, oldest first.
Above(f, t) == SubSeq(ChainTo(t), Len(ChainTo(f)) + 1, Len(ChainTo(t)))

\* The last common block of the chains to a and c.
ForkPoint(a, c) == Last(LongestCommonPrefix({ChainTo(a), ChainTo(c)}))

\* AddToBlockIndex: nChainTrust = pprev->nChainTrust + GetBlockTrust().
RECURSIVE ChainTrust(_)
ChainTrust(b) ==
  IF b = Genesis THEN BlockTrust[b] ELSE ChainTrust(Parent[b]) + BlockTrust[b]

\* The forward links of the chain ending at t.
LinksOf(t) == [x \in Blocks |->
                 IF \E y \in ToSet(Above(Genesis, t)) : Parent[y] = x
                 THEN CHOOSE y \in ToSet(Above(Genesis, t)) : Parent[y] = x
                 ELSE NoBlock]

-----------------------------------------------------------------------------
(* Storage failures.                                                       *)

EnvFail == /\ envFailures < MaxEnvFailures
           /\ envFailures' = envFailures + 1

-----------------------------------------------------------------------------
(* The ledger is handled as a record L = [conn, best, next, pool]: the    *)
(* connected blocks, the committed hashBestChain, the pnext links and the  *)
(* mempool, so that a sequence of committed transactions can be folded.    *)

Ledger == [conn |-> connected, best |-> txdbBest, next |-> pnext, pool |-> mempool]

\* The transactions of a set of blocks.
TxsOf(S) == UNION {BlockTxs[x] : x \in S}

\* Two distinct transactions spending the same coin.
Conflict(t, u) == t # u /\ Spends[t] = Spends[u]

\* The outcomes ConnectBlock can have for b on ledger L: a bad block always
\* fails; a block whose parent is not the ledger tip may fail or pass,
\* depending on whether FetchInputs finds the outputs it spends.
ConnectOutcomes(L, b) ==
  IF b \in BadBlocks THEN {FALSE}
  ELSE IF Parent[b] = L.best THEN {TRUE} ELSE {TRUE, FALSE}

\* Mutant: SetBestChainInner without WriteHashBestChain.
SetBestChainInnerNoBest(L, b) ==
  [L EXCEPT !.conn = @ \cup {b}, !.next[Parent[b]] = b, !.pool = @ \ BlockTxs[b]]

\* Mutant: SetBestChainInner without pprev->pnext = pindexNew.
SetBestChainInnerNoLink(L, b) ==
  [L EXCEPT !.conn = @ \cup {b}, !.best = b, !.pool = @ \ BlockTxs[b]]

\* Mutant: SetBestChainInner without the mempool.remove loop.
SetBestChainInnerKeepPool(L, b) ==
  [L EXCEPT !.conn = @ \cup {b}, !.best = b, !.next[Parent[b]] = b]

\* SetBestChainInner after ConnectBlock, WriteHashBestChain and TxnCommit
\* have succeeded: the block is connected, linked behind its parent, and
\* its transactions are removed from the mempool (mempool.remove(tx), not
\* removeConflicts).
SetBestChainInner(L, b) ==
  [L EXCEPT !.conn = @ \cup {b}, !.best = b, !.next[Parent[b]] = b,
            !.pool = @ \ BlockTxs[b]]

\* The pnext links after switching from the chain to `from` to the chain
\* to `to`: the old branch unlinked, the new one linked.
Relinked(L, from, to) ==
  [x \in Blocks |->
     IF x \in ToSet(ChainTo(to)) \ {to} THEN LinksOf(to)[x]
     ELSE IF \E y \in ToSet(Above(ForkPoint(from, to), from)) : Parent[y] = x
          THEN NoBlock
     ELSE L.next[x]]

\* Mutant: Reorganize that forgets to disconnect the abandoned branch.
ReorganizeNoDisconnect(L, from, to) ==
  LET f == ForkPoint(from, to)
  IN  [conn |-> L.conn \cup ToSet(Above(f, to)), best |-> to,
       next |-> Relinked(L, from, to),
       pool |-> L.pool \ TxsOf(ToSet(Above(f, to)))]

\* Mutant: the connect loop of Reorganize starts at the fork block itself.
ReorganizeConnectFork(L, from, to) ==
  LET f    == ForkPoint(from, to)
      old  == ToSet(Above(f, from))
      new  == ToSet(Above(f, to)) \cup {f}
      back == {t \in TxsOf(old) : \A u \in L.pool : ~Conflict(t, u)}
  IN  [conn |-> (L.conn \ old) \cup new, best |-> to,
       next |-> Relinked(L, from, to),
       pool |-> {t \in L.pool \cup back :
                   t \notin TxsOf(new) /\ \A u \in TxsOf(new) : ~Conflict(t, u)}]

\* Reorganize (not in src/; from the spec): disconnect the blocks of the
\* chain to `from` above the fork point, connect those of the chain to `to`,
\* commit, relink pnext, put the disconnected transactions back into the
\* mempool unless they conflict with it, and drop from it the connected
\* transactions and whatever conflicts with them.
Reorganize(L, from, to) ==
  LET f    == ForkPoint(from, to)
      old  == ToSet(Above(f, from))
      new  == ToSet(Above(f, to))
      back == {t \in TxsOf(old) : \A u \in L.pool : ~Conflict(t, u)}
  IN  [conn |-> (L.conn \ old) \cup new, best |-> to,
       next |-> Relinked(L, from, to),
       pool |-> {t \in L.pool \cup back :
                   t \notin TxsOf(new) /\ \A u \in TxsOf(new) : ~Conflict(t, u)}]

\* The new branch Reorganize connects is valid as far as ConnectBlock goes.
ReorganizeSucceeds(from, to) ==
  \A y \in ToSet(Above(ForkPoint(from, to), to)) : y \notin BadBlocks

\* The walk back from pindexNew in SetBestChain: stop at the first block
\* whose parent's trust does not exceed the best trust.
RECURSIVE IntermediateTooFar(_, _)
IntermediateTooFar(x, bestTrust) ==
  IF x # Genesis /\ ChainTrust(x) > bestTrust
  THEN IntermediateTooFar(Parent[x], bestTrust) ELSE x

RECURSIVE Intermediate(_, _)
Intermediate(x, bestTrust) ==
  IF x # Genesis /\ ChainTrust(Parent[x]) > bestTrust
  THEN Intermediate(Parent[x], bestTrust) ELSE x

\* The ledger after the postponed reconnects Sec[1..k], each its own
\* transaction through SetBestChainInner.
Reconnected(L, Sec, k) ==
  FoldLeft(LAMBDA acc, s : SetBestChainInner(acc, s), L, SubSeq(Sec, 1, k))

\* Commit a new ledger L2 to the variables.
Commit(L2) == /\ connected' = L2.conn
              /\ txdbBest' = L2.best
              /\ pnext' = L2.next
              /\ mempool' = L2.pool

-----------------------------------------------------------------------------
(* SetBestChain(pindexNew): the whole call, each outcome a disjunct. On    *)
(* every path that returns true it ends by publishing pindexNew as best.   *)

SetBestChain(b) ==
  \/ /\ EnvFail                                  \* TxnBegin failed
     /\ UNCHANGED <<pindexBest, pnext, mempool, txdbBest, connected>>
  \/ /\ Parent[b] = pindexBest                   \* hashPrevBlock == hashBestChain
     /\ \/ /\ TRUE \in ConnectOutcomes(Ledger, b)
           /\ Commit(SetBestChainInner(Ledger, b))
           /\ pindexBest' = b
           /\ UNCHANGED envFailures
        \/ /\ FALSE \in ConnectOutcomes(Ledger, b) \* TxnAbort, InvalidChainFound
           /\ UNCHANGED <<pindexBest, pnext, mempool, txdbBest, connected, envFailures>>
        \/ /\ TRUE \in ConnectOutcomes(Ledger, b)  \* TxnCommit failed
           /\ EnvFail
           /\ UNCHANGED <<pindexBest, pnext, mempool, txdbBest, connected>>
  \/ /\ Parent[b] # pindexBest
     /\ LET I   == Intermediate(b, ChainTrust(pindexBest))
            Sec == Above(I, b)                   \* vpindexSecondary, oldest first
        IN
        \/ /\ ReorganizeSucceeds(pindexBest, I)
           /\ LET L1 == Reorganize(Ledger, pindexBest, I)
              IN \E k \in 0..Len(Sec) :
                   \* each reconnect that ran got TRUE from ConnectBlock
                   /\ \A i \in 1..k :
                        TRUE \in ConnectOutcomes(Reconnected(L1, Sec, i - 1), Sec[i])
                   \* the loop stopped: all done, a failed connect, or storage
                   /\ \/ k = Len(Sec) /\ UNCHANGED envFailures
                      \/ /\ k < Len(Sec)
                         /\ FALSE \in ConnectOutcomes(Reconnected(L1, Sec, k), Sec[k + 1])
                         /\ UNCHANGED envFailures
                      \/ k < Len(Sec) /\ EnvFail
                   /\ Commit(Reconnected(L1, Sec, k))
                   /\ pindexBest' = b
        \/ /\ ~ReorganizeSucceeds(pindexBest, I)     \* TxnAbort, InvalidChainFound
           /\ UNCHANGED <<pindexBest, pnext, mempool, txdbBest, connected, envFailures>>
        \/ /\ ReorganizeSucceeds(pindexBest, I)      \* Reorganize's commit failed
           /\ EnvFail
           /\ UNCHANGED <<pindexBest, pnext, mempool, txdbBest, connected>>

\* Mutant: compare the block's own trust instead of the chain trust.
IsNewBestBlockTrust(b) == BlockTrust[b] > BlockTrust[pindexBest]

\* AddToBlockIndex: pindexNew->nChainTrust > nBestChainTrust.
IsNewBest(b) == ChainTrust(b) > ChainTrust(pindexBest)

\* AddToBlockIndex: insert into mapBlockIndex, then write the index record
\* in its own transaction, then maybe SetBestChain.
AddToBlockIndex(b) ==
  /\ mapBlockIndex' = mapBlockIndex \cup {b}
  /\ \/ /\ EnvFail                               \* TxnBegin/TxnCommit failed
        /\ UNCHANGED <<diskBlockIndex, pindexBest, pnext, mempool, txdbBest, connected>>
     \/ /\ diskBlockIndex' = diskBlockIndex \cup {b}
        /\ \/ /\ IsNewBest(b)
              /\ SetBestChain(b)
           \/ /\ ~IsNewBest(b)
              /\ UNCHANGED <<pindexBest, pnext, mempool, txdbBest, connected, envFailures>>

\* AcceptBlock of a block that passed its contextual checks: not a
\* duplicate, previous block known, then WriteToDisk and AddToBlockIndex.
AcceptBlock(b) ==
  /\ b \notin mapBlockIndex
  /\ Parent[b] \in mapBlockIndex
  /\ AddToBlockIndex(b)
  /\ UNCHANGED restarts

\* AcceptToMemoryPool (not in src/) followed by CTxMemPool::addUnchecked:
\* a transaction already in the ledger, spending a coin the ledger or the
\* mempool (mapNextTx) already spends, is refused.
AddToMemoryPool(t) ==
  /\ t \notin mempool
  /\ t \notin TxsOf(connected)
  /\ \A u \in TxsOf(connected) \cup mempool : ~Conflict(t, u)
  /\ mempool' = mempool \cup {t}
  /\ UNCHANGED <<mapBlockIndex, pindexBest, pnext, dbVars, envFailures, restarts>>

\* Restart (LoadBlockIndex, not in src/): memory is rebuilt from the txdb.
Restart ==
  /\ restarts < MaxRestarts
  /\ restarts' = restarts + 1
  /\ mapBlockIndex' = diskBlockIndex
  /\ pindexBest' = txdbBest
  /\ pnext' = LinksOf(txdbBest)
  /\ mempool' = {}
  /\ UNCHANGED <<dbVars, envFailures>>

Init ==
  /\ mapBlockIndex = {Genesis}
  /\ diskBlockIndex = {Genesis}
  /\ pindexBest = Genesis
  /\ pnext = [x \in Blocks |-> NoBlock]
  /\ txdbBest = Genesis
  /\ connected = {}
  /\ mempool = {}
  /\ envFailures = 0
  /\ restarts = 0

Next ==
  \/ \E b \in Blocks \ {Genesis} : AcceptBlock(b)
  \/ \E t \in Txs : AddToMemoryPool(t)
  \/ Restart

Spec == Init /\ [][Next]_vars

-----------------------------------------------------------------------------
(* Properties.                                                             *)

TypeOK ==
  /\ mapBlockIndex \subseteq Blocks /\ diskBlockIndex \subseteq Blocks
  /\ pindexBest \in Blocks /\ txdbBest \in Blocks
  /\ pnext \in [Blocks -> Blocks \cup {NoBlock}]
  /\ connected \subseteq Blocks \ {Genesis}
  /\ mempool \subseteq Txs
  /\ envFailures \in 0..MaxEnvFailures /\ restarts \in 0..MaxRestarts

\* Blocks whose whole chain ConnectBlock accepts.
ValidChain(b) == \A y \in ToSet(ChainTo(b)) : y \notin BadBlocks

\* No storage operation has failed so far: the properties below are what
\* the code promises while TxnBegin, TxnCommit and ReadFromDisk succeed.
StorageReliable == envFailures = 0

\* While storage has not failed, SetBestChain publishes as best only what
\* the txdb committed: the in-memory best tip (hashBestChain, nBestHeight) is the txdb's best.
BestMatchesLedger == StorageReliable => pindexBest = txdbBest

\* The ledger holds exactly the blocks of one chain, the chain from genesis
\* to its committed best block: ConnectBlock never ran on a gap.
LedgerIsChain ==
  connected = ToSet(Above(Genesis, txdbBest))

\* While storage has not failed, the blocks ConnectBlock applied are
\* exactly the chain from genesis to the committed best block.
ReliableLedgerIsChain == StorageReliable => LedgerIsChain

\* While storage has not failed, pnext links exactly the in-memory best
\* chain (what IsInMainChain reads).
PnextFollowsBest == StorageReliable => pnext = LinksOf(pindexBest)

\* While storage has not failed, no indexed block whose chain is valid has
\* more trust than the best one:
\* the extend case, the reorganization and the strict tie rule together
\* always end on a maximal-trust valid chain.
BestIsMaxValidTrust ==
  StorageReliable =>
  \A x \in mapBlockIndex : ValidChain(x) => ChainTrust(x) <= ChainTrust(pindexBest)

\* Every change of the committed best block strictly raises its chain
\* trust: SetBestChain never commits a switch to a chain with less or equal
\* trust, whatever storage failure cuts the reconnect loop short.
LedgerTrustIncreases ==
  [][txdbBest' # txdbBest => ChainTrust(txdbBest') > ChainTrust(txdbBest)]_vars

\* The mempool never holds a transaction the ledger already confirmed:
\* SetBestChainInner and Reorganize drop the transactions they connect.
MempoolHoldsNoConfirmedTx == mempool \cap TxsOf(connected) = {}

\* Every block index record on disk has its parent's record on disk, so
\* that LoadBlockIndex can link it.
DiskIndexClosed ==
  \A x \in diskBlockIndex \ {Genesis} : Parent[x] \in diskBlockIndex
=============================================================================
