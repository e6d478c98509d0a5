----------------------------- MODULE MerkleTree -----------------------------
(***************************************************************************)
(* The Merkle tree of a block (src/src/cblock.cpp): BuildMerkleTree lays   *)
(* every level of the tree out in one vector vMerkleTree, pairing the last *)
(* node of an odd level with itself; GetMerkleBranch reads the siblings of *)
(* leaf nIndex out of that vector; CheckMerkleBranch folds a leaf hash up  *)
(* a branch.  CheckBlock refuses duplicate transaction ids before it       *)
(* compares hashMerkleRoot with BuildMerkleTree().                         *)
(*                                                                         *)
(* Transaction hashes are model values and Hash(x, y), the double SHA-256  *)
(* of the two concatenated hashes, is the pair <<x, y>>: an ideal hash,    *)
(* injective and never equal to a leaf.  The state is the vtx a miner      *)
(* assembles in CreateNewBlock, one push_back at a time.                   *)
(***************************************************************************)
EXTENDS Integers, Sequences, SequencesExt, FiniteSets

CONSTANTS
  TxIds,    \* transaction hashes (model values)
  Zero,     \* uint256 0, what an empty tree and nIndex = -1 give
  MaxTxs    \* bound on the length of vtx

ASSUME Zero \notin TxIds /\ MaxTxs \in Nat

VARIABLE vtx   \* CBlock::vtx, as the sequence of its transaction hashes

-----------------------------------------------------------------------------
(* The algorithm, as the code computes it.  Indices are 0-based in the    *)
(* code and 1-based in TLA+ sequences: vMerkleTree[k] is tree[k + 1].      *)

Hash(x, y) == <<x, y>>

\* i2 = std::min(i+1, nSize-1): the right partner of node i of a level.
Partner(i, nSize) == IF i + 1 < nSize THEN i + 1 ELSE nSize - 1

\* Mutant: an odd last node is carried up unhashed instead of paired
\* with itself.
NextLevelCarryOdd(level) ==
  [k \in 1..(Len(level) + 1) \div 2 |->
     IF 2 * k <= Len(level) THEN Hash(level[2 * k - 1], level[2 * k])
     ELSE level[2 * k - 1]]

\* One pass of the inner loop: Hash(vMerkleTree[j+i], vMerkleTree[j+i2])
\* for i = 0, 2, 4, ... < nSize.
NextLevel(level) ==
  [k \in 1..(Len(level) + 1) \div 2 |->
     Hash(level[2 * k - 1], level[Partner(2 * k - 2, Len(level)) + 1])]

\* vMerkleTree after BuildMerkleTree: the leaves, then each level while
\* nSize > 1, nSize = (nSize + 1) / 2.
RECURSIVE TreeFrom(_)
TreeFrom(level) ==
  IF Len(level) <= 1 THEN level ELSE level \o TreeFrom(NextLevel(level))

BuildMerkleTree(txs) == TreeFrom(txs)

\* The value BuildMerkleTree returns: vMerkleTree.back(), or 0 when empty.
MerkleRoot(txs) ==
  IF txs = <<>> THEN Zero ELSE Last(BuildMerkleTree(txs))

\* Mutant: the sibling taken as the next node whatever the parity.
SiblingNext(n) == n + 1

\* nIndex^1: the sibling's index.
Sibling(n) == IF n % 2 = 0 THEN n + 1 ELSE n - 1

\* The loop of GetMerkleBranch from offset j, level size nSize, index n.
RECURSIVE BranchFrom(_, _, _, _)
BranchFrom(tree, j, nSize, n) ==
  IF nSize <= 1 THEN <<>>
  ELSE << tree[j + (IF Sibling(n) < nSize THEN Sibling(n) ELSE nSize - 1) + 1] >>
       \o BranchFrom(tree, j + nSize, (nSize + 1) \div 2, n \div 2)

GetMerkleBranch(txs, nIndex) ==
  BranchFrom(BuildMerkleTree(txs), 0, Len(txs), nIndex)

\* CheckMerkleBranch: fold the branch, the hash going left or right by the
\* low bit of nIndex.
CheckMerkleBranch(hash, branch, nIndex) ==
  IF nIndex = -1 THEN Zero
  ELSE FoldLeft(LAMBDA acc, other :
                  [h |-> IF acc.n % 2 = 1 THEN Hash(other, acc.h)
                                          ELSE Hash(acc.h, other),
                   n |-> acc.n \div 2],
                [h |-> hash, n |-> nIndex], branch).h

\* Mutant: the duplicate-txid check of CheckBlock left out.
NoDuplicatesUnchecked(txs) == TRUE

\* CheckBlock: uniqueTx.size() == vtx.size().
NoDuplicates(txs) == Cardinality(ToSet(txs)) = Len(txs)

-----------------------------------------------------------------------------
(* The reference: the Merkle root defined top-down.  A tree of height h    *)
(* over a list hashes the root of its left 2^(h-1) leaves with the root of *)
(* the rest; where the rest is empty, with the left root again.            *)

RECURSIVE Pow2(_)
Pow2(h) == IF h = 0 THEN 1 ELSE 2 * Pow2(h - 1)

\* The height of the tree over n > 0 leaves: the least h with 2^h >= n.
Height(n) == CHOOSE h \in 0..n : Pow2(h) >= n /\ (h = 0 \/ Pow2(h - 1) < n)

RECURSIVE RefNode(_, _)
RefNode(s, h) ==
  IF h = 0 THEN s[1]
  ELSE LET half  == Pow2(h - 1)
           left  == RefNode(SubSeq(s, 1, IF Len(s) < half THEN Len(s) ELSE half), h - 1)
       IN  Hash(left, IF Len(s) > half THEN RefNode(SubSeq(s, half + 1, Len(s)), h - 1)
                                       ELSE left)

RefRoot(s) == IF s = <<>> THEN Zero ELSE RefNode(s, Height(Len(s)))

\* All lists of at most MaxTxs transaction hashes.
Lists == UNION {[1..n -> TxIds] : n \in 0..MaxTxs}

-----------------------------------------------------------------------------
(* CreateNewBlock pushing transactions into vtx, the coinbase first.       *)

Init == vtx = <<>>

AddTx(t) ==
  /\ Len(vtx) < MaxTxs
  /\ vtx' = Append(vtx, t)

Next == \E t \in TxIds : AddTx(t)

Spec == Init /\ [][Next]_vtx

-----------------------------------------------------------------------------
(* Properties.                                                             *)

\* BuildMerkleTree computes the root of the top-down Merkle tree: the
\* in-place level layout and the odd-node pairing std::min(i+1, nSize-1)
\* agree with the reference definition for every list.
RootMatchesReference == MerkleRoot(vtx) = RefRoot(vtx)

\* Every branch GetMerkleBranch gives for a transaction of the block folds,
\* through CheckMerkleBranch, back to the block's Merkle root: the offsets j,
\* the sibling nIndex^1, the clamp to nSize-1 and the shifts agree.
BranchesVerify ==
  \A i \in 1..Len(vtx) :
    CheckMerkleBranch(vtx[i], GetMerkleBranch(vtx, i - 1), i - 1) = MerkleRoot(vtx)

\* Among blocks that pass CheckBlock's duplicate-txid check, the Merkle root
\* determines the transaction list (the odd-node duplication makes
\* [a,b,c] and [a,b,c,c] share a root; the check is what rules it out).
UniqueListsHaveDistinctRoots ==
  NoDuplicates(vtx) =>
    \A w \in Lists : (NoDuplicates(w) /\ w # vtx) => MerkleRoot(w) # MerkleRoot(vtx)
=============================================================================
