--------------------------- MODULE InflationCheck ---------------------------
(***************************************************************************)
(* The anti-inflation check of CBlock::AcceptBlock (src/src/cblock.cpp,    *)
(* "Monte Spoof Attack"): above height 170 it adds up, over vtx, what each *)
(* transaction takes in (GetValueMapIn) and pays out (GetValueOut) in      *)
(* CAmount, a signed 64-bit integer, refusing the block when a running sum *)
(* would overflow, and refuses a block whose inputs and the proof-of-work  *)
(* reward do not cover its outputs.                                        *)
(*                                                                         *)
(* The sums are kept at the width of CAmount, scaled down to AmountBits:   *)
(* an addition wraps around as two's complement.  Signed overflow is       *)
(* undefined in C++; the test a + b >= 0 is not one a compiler can fold    *)
(* without knowing the signs, and the emitted add wraps, which is the      *)
(* outcome modelled.  GetMapTxInputs and GetValueMapIn are not in src/:    *)
(* every input is taken to resolve, so the catch(...) branch (an input     *)
(* that cannot be valued) is not reached here.                             *)
(*                                                                         *)
(* The transactions are those of the block body MerkleTree builds; each    *)
(* transaction id carries the value of its inputs and of its outputs.      *)
(***************************************************************************)
EXTENDS MerkleTree

CONSTANTS
  AmountBits,  \* the width of CAmount (64 in the code)
  MaxMoney,    \* MAX_MONEY: CheckTransaction bounds every value by it
  ValueIn,     \* ValueIn[t]: GetValueMapIn of t (0 for a coinbase)
  ValueOut,    \* ValueOut[t]: GetValueOut of t
  Reward       \* GetProofOfWorkReward(nHeight, 0)

ASSUME AmountBits \in Nat \ {0} /\ Reward \in Nat
ASSUME \A t \in TxIds : ValueIn[t] \in 0..MaxMoney /\ ValueOut[t] \in 0..MaxMoney

\* The largest CAmount.
MaxAmount == 2^(AmountBits - 1) - 1

\* x as a CAmount: the two's-complement value of its low AmountBits bits.
Wrap(x) == LET m == 2^AmountBits IN ((x + m \div 2) % m) - m \div 2

\* Mutant: the running sums added without the overflow tests.
CountTxUnguarded(acc, t) ==
  [acc EXCEPT !.ins = Wrap(@ + ValueIn[t]), !.outs = Wrap(@ + ValueOut[t])]

\* One transaction of the loop: tx_inputs_values grows by GetValueMapIn
\* unless tx_inputs_values + it is negative, then tx_outputs_values by
\* GetValueOut under the same test; a failed test returns DoS(100).
CountTx(acc, t) ==
  LET ins == Wrap(acc.ins + ValueIn[t])
      outs == Wrap(acc.outs + ValueOut[t])
  IN  IF ~acc.ok THEN acc
      ELSE IF ins < 0 THEN [acc EXCEPT !.ok = FALSE]
      ELSE IF outs < 0 THEN [acc EXCEPT !.ok = FALSE, !.ins = ins]
      ELSE [ok |-> TRUE, ins |-> ins, outs |-> outs]

\* The check at height nHeight: skipped up to 170; else the loop, then the
\* block refused when tx_inputs_values + block_reward < tx_outputs_values
\* (an addition with no overflow test).
AcceptBlockValues(txs, nHeight) ==
  \/ nHeight <= 170
  \/ LET r == FoldLeft(CountTx, [ok |-> TRUE, ins |-> 0, outs |-> 0], txs)
     IN  r.ok /\ ~(Wrap(r.ins + Reward) < r.outs)

\* The heights the check is tried at: the last one skipped and the first
\* one checked.
CheckHeights == {170, 171}

\* What the block is worth, in unbounded integers.
TotalIn(txs) == FoldLeft(LAMBDA s, t : s + ValueIn[t], 0, txs)
TotalOut(txs) == FoldLeft(LAMBDA s, t : s + ValueOut[t], 0, txs)

-----------------------------------------------------------------------------
(* Properties.                                                             *)

\* AcceptBlock's value check above height 170 accepts exactly the blocks
\* whose outputs the inputs and the reward cover, with the inputs and the
\* reward together still a CAmount: the overflow tests on the running sums
\* (cblock.cpp:1714, 1724) keep a wrapped sum from hiding an inflating
\* block, and the one unguarded addition, inputs + reward, can only refuse
\* a block (one MAX_MONEY keeps out of reach on the real chain).
ValueCheckExact ==
  \A h \in CheckHeights :
    AcceptBlockValues(vtx, h)
      <=> \/ h <= 170
          \/ TotalOut(vtx) <= TotalIn(vtx) + Reward /\ TotalIn(vtx) + Reward <= MaxAmount
=============================================================================
