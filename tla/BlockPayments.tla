---------------------------- MODULE BlockPayments ----------------------------
(***************************************************************************)
(* The masternode / devops payment checks of CBlock::CheckBlock           *)
(* (src/src/cblock.cpp).  Two sections:                                    *)
(*  1. out of initial download, for a stake block on the current best tip: *)
(*     the coinstake must pay the winner GetBlockPayee gives for the next  *)
(*     height, with the value of its last output;                          *)
(*  2. for a block already in mapBlockIndex, past the devops fork: fixed   *)
(*     output indices must hold the masternode and devops payments, the    *)
(*     amounts compared in whole coins, the masternode address checked    *)
(*     unless the "checks delay" lets it pass.                             *)
(* The global nMasterNodeChecksDelayBaseTime is set to the clock by every  *)
(* section-2 check during initial download.                                *)
(*                                                                         *)
(* A block is a record: pos (proof of stake), vout (the outputs of the     *)
(* coinbase, or of the coinstake for a stake block), mnEra (nTime >        *)
(* START_MASTERNODE_PAYMENTS) and devEra (its time against the v1.0.0.0    *)
(* and v1.0.1.5 fork times).  The node's context is a record: ibd          *)
(* (IsInitialBlockDownload), winner (GetBlockPayee for the next height),   *)
(* prevIsBest (pindexBest is hashPrevBlock) and indexed (the block is in  *)
(* mapBlockIndex, as when ConnectBlock calls CheckBlock).                  *)
(***************************************************************************)
EXTENDS Integers, Sequences, SequencesExt

CONSTANTS
  Blocks,         \* candidate blocks (records, see above)
  ProbeBlocks,    \* the blocks the clocked behaviour submits
  ValidMasternodes, \* payees mnodeman.IsPayeeAValidMasternode accepts
  DevopsAddress,  \* getDevelopersAdress(pindex)
  NoPayee,        \* GetBlockPayee found no winner (or an empty script)
  Winners,        \* the payees GetBlockPayee may return
  COIN,           \* satoshis per coin
  MNDue,          \* GetMasternodePayment(nHeight, nStandardPayment)
  DevDue,         \* GetDevOpsPayment(nHeight, nStandardPayment)
  ChecksDelay,    \* nMasterNodeChecksDelay (45 * 60 s)
  MnAdvRelay,     \* fMnAdvRelay
  MaxTime,        \* bound on the clock
  Staker,         \* the staking wallet's own script (its stake outputs)
  CENT,           \* the split rounding unit
  StakeCredits,   \* nCredit of a coinstake: the staked coins plus nReward
  WorkRewards,    \* GetProofOfWorkReward(nHeight, nFees) of a mined block
  BuilderDues     \* [mn, dev]: GetMasternodePayment and GetDevOpsPayment of
                  \* the builder's own nReward, fees (and coin age) included

ASSUME ProbeBlocks \subseteq Blocks /\ COIN \in Nat \ {0}
ASSUME ChecksDelay \in Nat \ {0} /\ MnAdvRelay \in BOOLEAN /\ MaxTime \in Nat

\* The contexts CheckBlock can be called in.
Contexts == [ibd : BOOLEAN, winner : Winners \cup {NoPayee},
             prevIsBest : BOOLEAN, indexed : BOOLEAN]

VARIABLES
  now,        \* GetTime()
  baseTime,   \* nMasterNodeChecksDelayBaseTime
  last        \* the last CheckBlock call, until the observer takes it:
              \* block, context, time, engage time, verdict

vars == <<now, baseTime, last>>

-----------------------------------------------------------------------------
(* Section 1 (cblock.cpp 1112-1240).                                       *)

Section1Applies(b, ctx) ==
  ~ctx.ibd /\ b.mnEra /\ b.pos /\ ctx.prevIsBest

\* masternodePaymentAmount is the value of the last output (the loop breaks
\* at once); an unknown payee makes every flag true.
Section1Ok(b, ctx) ==
  \/ ctx.winner = NoPayee
  \/ \E i \in 1..Len(b.vout) :
       b.vout[i].value = Last(b.vout).value /\ b.vout[i].payee = ctx.winner

-----------------------------------------------------------------------------
(* Section 2 (cblock.cpp 1244-1544).  Indices are the code's, 0-based.     *)

Section2Applies(b, ctx) == ctx.indexed /\ b.devEra # "pre"

\* nProofOfIndexMasternode, nProofOfIndexDevops.
PaymentIndices(b) ==
  IF b.pos THEN IF Len(b.vout) = 5 THEN <<3, 4>> ELSE <<2, 3>>
  ELSE <<1, 2>>

\* Mutant: the size check no longer clears fBlockHasPayments.
LayoutOkUnchecked(b) == TRUE

\* The size check: a stake block has 4 or 5 coinstake outputs, a work
\* block 3 coinbase outputs.
LayoutOk(b) ==
  IF b.pos THEN Len(b.vout) \in {4, 5} ELSE Len(b.vout) = 3

Out(b, k) == b.vout[k + 1]

\* nMasterNodeChecksEngageTime: 0 during initial download.
EngageTime(ctx, base) == IF ctx.ibd THEN 0 ELSE base + ChecksDelay

\* The check at i == nProofOfIndexMasternode, made only when the loop
\* reaches that index: a valid masternode (or the devops address) unless
\* the engage time is 0 or fMnAdvRelay is off, and the amount in whole
\* coins.
MnOk(b, ctx, base) ==
  LET o == Out(b, PaymentIndices(b)[1])
  IN  PaymentIndices(b)[1] < Len(b.vout) =>
        /\ o.payee \in ValidMasternodes \/ o.payee = DevopsAddress
             \/ ~(EngageTime(ctx, base) # 0 /\ MnAdvRelay)
        /\ o.value \div COIN = MNDue \div COIN

\* The check at i == nProofOfIndexDevops, made only when the loop reaches
\* that index: the address mismatch is only logged; the amount in whole
\* coins, or at least the due amount past v1.0.1.5.
DevOk(b) ==
  LET o == Out(b, PaymentIndices(b)[2])
  IN  PaymentIndices(b)[2] < Len(b.vout) =>
        \/ o.value \div COIN = DevDue \div COIN
        \/ b.devEra = "v1015" /\ o.value \div COIN >= DevDue \div COIN

\* fBlockHasPayments at the end of the loop.  Each pass of the loop also
\* reads both indexed outputs before testing i, past the end of vout for a
\* short layout; those values feed only the checks above, which run at
\* in-range indices.
Section2Ok(b, ctx, base) ==
  /\ LayoutOk(b)
  /\ MnOk(b, ctx, base)
  /\ DevOk(b)

-----------------------------------------------------------------------------
(* The payment part of CheckBlock: "accept" when both sections pass.       *)

Verdict(b, ctx, base) ==
  IF /\ Section1Applies(b, ctx) => Section1Ok(b, ctx)
     /\ Section2Applies(b, ctx) => Section2Ok(b, ctx, base)
  THEN "accept" ELSE "reject"

\* Mutant: the base time set to the engage time instead of the clock.
NewBaseTimeEngage(b, ctx, base) ==
  IF Section1Applies(b, ctx) /\ ~Section1Ok(b, ctx) THEN base
  ELSE IF Section2Applies(b, ctx) /\ ctx.ibd THEN now + ChecksDelay ELSE base

\* nMasterNodeChecksDelayBaseTime = GetTime() during initial download.
NewBaseTime(b, ctx, base) ==
  IF Section1Applies(b, ctx) /\ ~Section1Ok(b, ctx) THEN base
  ELSE IF Section2Applies(b, ctx) /\ ctx.ibd THEN now ELSE base

\* A CheckBlock call; own says whether CreateCoinStake built the block,
\* with which payments (hasPay, hasDev, dues).  The call reads only the
\* clock and the base time; it is made once the observer has taken the
\* record of the previous one.
CheckBlockOf(b, ctx, own, hasPay, hasDev, dues) ==
  /\ last.verdict = "none"
  /\ baseTime' = NewBaseTime(b, ctx, baseTime)
  /\ last' = [blk |-> b, ctx |-> ctx, at |-> now,
              engage |-> EngageTime(ctx, baseTime),
              verdict |-> Verdict(b, ctx, baseTime),
              own |-> own, hasPay |-> hasPay, hasDev |-> hasDev, dues |-> dues]
  /\ UNCHANGED now

CheckBlock(b, ctx) ==
  CheckBlockOf(b, ctx, FALSE, FALSE, FALSE, [mn |-> MNDue, dev |-> DevDue])

-----------------------------------------------------------------------------
(* The outputs CWallet::CreateCoinStake gives the coinstake                *)
(* (cwallet.cpp 2897-3140), after the kernel and combine step that        *)
(* WalletCoins models: the empty marker, one stake output or two when the  *)
(* stake was split, then the masternode payment, then the devops payment, *)
(* each resized onto the end.  bMasterNodePayment is GetTime() past       *)
(* START_MASTERNODE_PAYMENTS and not past STOP_MASTERNODE_PAYMENTS, so it  *)
(* holds only for a block past the start (mnEra) and is a free choice     *)
(* there; hasdevopsPay depends on START_DEVOPS_PAYMENTS and the tip's     *)
(* time, constants not in src/, so it is a free choice too.  The payments *)
(* are GetMasternodePayment and GetDevOpsPayment of the staker's nReward, *)
(* fees and coin age included (cwallet.cpp 2887, 3073-3074), where        *)
(* CheckBlock's dues come from a zero-fee reward: they are BuilderDues.   *)

\* The masternode payee: GetBlockPayee's winner, else the current
\* masternode of mnodeman, else the devops address.
CoinStakePayees(ctx) ==
  IF ctx.winner # NoPayee THEN {ctx.winner}
  ELSE ValidMasternodes \cup {DevopsAddress}

\* Mutant: the devops output put before the masternode output.
CoinStakeVoutDevFirst(credit, split, payee, hasPay, hasDev, dues) ==
  LET bv    == credit - (IF hasPay THEN dues.mn ELSE 0) - (IF hasDev THEN dues.dev ELSE 0)
      half  == ((bv \div 2) \div CENT) * CENT
      stake == IF split THEN <<half, bv - half>> ELSE <<bv>>
  IN  <<[payee |-> Staker, value |-> 0]>>
        \o [i \in 1..Len(stake) |-> [payee |-> Staker, value |-> stake[i]]]
        \o (IF hasDev THEN <<[payee |-> DevopsAddress, value |-> dues.dev]>> ELSE <<>>)
        \o (IF hasPay THEN <<[payee |-> payee, value |-> dues.mn]>> ELSE <<>>)

\* blockValue is nCredit less the payments made; a split stake gives the
\* first half, rounded down to a CENT, to vout[1] and the rest to vout[2].
CoinStakeVout(credit, split, payee, hasPay, hasDev, dues) ==
  LET bv    == credit - (IF hasPay THEN dues.mn ELSE 0) - (IF hasDev THEN dues.dev ELSE 0)
      half  == ((bv \div 2) \div CENT) * CENT
      stake == IF split THEN <<half, bv - half>> ELSE <<bv>>
  IN  <<[payee |-> Staker, value |-> 0]>>
        \o [i \in 1..Len(stake) |-> [payee |-> Staker, value |-> stake[i]]]
        \o (IF hasPay THEN <<[payee |-> payee, value |-> dues.mn]>> ELSE <<>>)
        \o (IF hasDev THEN <<[payee |-> DevopsAddress, value |-> dues.dev]>> ELSE <<>>)

\* CheckStake submits the signed block, and CheckBlock checks it.
StakeOwnBlock ==
  \E ctx \in Contexts, credit \in StakeCredits, split \in BOOLEAN,
    mnEra \in BOOLEAN, hasDev \in BOOLEAN, devEra \in {"pre", "v1000", "v1015"} :
    \E hasPay \in {mnEra, FALSE}, payee \in CoinStakePayees(ctx), dues \in BuilderDues :
      CheckBlockOf([pos |-> TRUE,
                    vout |-> CoinStakeVout(credit, split, payee, hasPay, hasDev, dues),
                    mnEra |-> mnEra, devEra |-> devEra],
                   ctx, TRUE, hasPay, hasDev, dues)

-----------------------------------------------------------------------------
(* The coinbase CreateNewBlock gives a proof-of-work block (miner.cpp     *)
(* 472-570): past the v1.0.1.5 fork (the tip's time), on the main network *)
(* with the devops spork on, vout is resized to three: the masternode     *)
(* payee (as for the coinstake: GetBlockPayee's winner, else the current  *)
(* masternode, else the devops address) and the devops address, each     *)
(* paid GetMasternodePayment and GetDevOpsPayment of the block's own     *)
(* reward, fees included (miner.cpp 484, 556-557): BuilderDues; vout[0]  *)
(* keeps the rest of the reward.  Before the                              *)
(* fork the coinbase is the reward alone.                                  *)

CoinbaseVout(reward, payee, hasPayment, dues) ==
  IF hasPayment
    THEN <<[payee |-> Staker, value |-> reward - (dues.mn + dues.dev)],
           [payee |-> payee, value |-> dues.mn],
           [payee |-> DevopsAddress, value |-> dues.dev]>>
    ELSE <<[payee |-> Staker, value |-> reward]>>

\* A mined block is submitted (CheckWork, ProcessBlock) and CheckBlock
\* checks it; the payments are made exactly when the tip, and so the
\* block, is past v1.0.1.5.
MineOwnBlock ==
  \E ctx \in Contexts, reward \in WorkRewards, mnEra \in BOOLEAN,
    devEra \in {"pre", "v1000", "v1015"} :
    \E payee \in CoinStakePayees(ctx), dues \in BuilderDues :
      LET hasPayment == devEra = "v1015"
      IN  CheckBlockOf([pos |-> FALSE,
                        vout |-> CoinbaseVout(reward, payee, hasPayment, dues),
                        mnEra |-> mnEra, devEra |-> devEra],
                       ctx, TRUE, hasPayment, hasPayment, dues)

Tick ==
  /\ now < MaxTime
  /\ now' = now + 1
  /\ UNCHANGED <<baseTime, last>>

Init ==
  /\ now = 0
  /\ baseTime = 0
  /\ last = [verdict |-> "none"]

\* The observer takes the record of the last call: not a step of the node,
\* which is left as it was.
Observed ==
  /\ last.verdict # "none"
  /\ last' = [verdict |-> "none"]
  /\ UNCHANGED <<now, baseTime>>

Next ==
  \/ \E b \in ProbeBlocks, ctx \in Contexts : CheckBlock(b, ctx)
  \/ StakeOwnBlock
  \/ MineOwnBlock
  \/ Tick
  \/ Observed

Spec == Init /\ [][Next]_vars

-----------------------------------------------------------------------------
(* Properties.                                                             *)

TypeOK ==
  /\ now \in 0..MaxTime /\ baseTime \in 0..MaxTime
  /\ last.verdict \in {"none", "accept", "reject"}

\* A block whose only fault is a masternode output paying an address that
\* is not a masternode, checked out of initial download.
WrongAddressOnly(b) ==
  /\ LayoutOk(b) /\ DevOk(b)
  /\ Out(b, PaymentIndices(b)[1]).payee \notin ValidMasternodes \cup {DevopsAddress}
  /\ Out(b, PaymentIndices(b)[1]).value \div COIN = MNDue \div COIN

\* Spec scenario 5: such a block is accepted while the checks-delay timer
\* has not elapsed and rejected once it has.
ChecksDelayHonoured ==
  (/\ last.verdict # "none" /\ ~last.ctx.ibd
   /\ Section2Applies(last.blk, last.ctx) /\ WrongAddressOnly(last.blk)
   /\ ~(Section1Applies(last.blk, last.ctx) /\ ~Section1Ok(last.blk, last.ctx)))
    => (last.verdict = "accept" <=> last.at < last.engage)

\* The last call is one section 2 made.
LastInSection2 ==
  last.verdict # "none" /\ Section2Applies(last.blk, last.ctx)

\* The amounts section 2 lets through, in whole coins: the masternode
\* payment equal to the due one, the devops payment equal or, past
\* v1.0.1.5, larger.
DuesPass(dues, devEra) ==
  /\ dues.mn \div COIN = MNDue \div COIN
  /\ \/ dues.dev \div COIN = DevDue \div COIN
     \/ devEra = "v1015" /\ dues.dev \div COIN >= DevDue \div COIN

\* A block the node built itself with both payments, for a winner that is
\* a valid masternode (or none), is refused by section 2 of CheckBlock
\* exactly when the payments its own fee-inclusive reward gives differ in
\* whole coins from the dues of the zero-fee reward: CreateCoinStake, split
\* or not, and CreateNewBlock lay out a size CheckBlock allows, with the
\* payments where nProofOfIndexMasternode / nProofOfIndexDevops look, so
\* the fees are the only thing that can make the node refuse its own block.
\* (The base time is the one the engage time was computed from; during
\* initial download the engage time is 0 whatever the base.)
OwnBlockRefusedOnlyForFees ==
  (/\ LastInSection2 /\ last.own /\ last.hasPay /\ last.hasDev
   /\ last.ctx.winner \in ValidMasternodes \cup {NoPayee})
    => (Section2Ok(last.blk, last.ctx, last.engage - ChecksDelay)
          <=> DuesPass(last.dues, last.blk.devEra))
=============================================================================
