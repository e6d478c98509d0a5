------------------------- MODULE MC_BlockPayments -------------------------
(* Payees: a masternode MN, the devops address DEV, a stranger X and F,   *)
(* the staker or miner's own outputs.  Amounts in units of 1/2 coin, so    *)
(* that whole-coin truncation is visible: the masternode is due 5 (2.5     *)
(* coins) and devops 3 (1.5 coins).                                        *)
EXTENDS BlockPayments

CONSTANTS MN, DEV, X, F, NoWinner

O(p, v) == [payee |-> p, value |-> v]

\* Outputs a block may put at the masternode and devops indices.
MnOuts  == {O(MN, 5), O(MN, 4), O(MN, 3), O(X, 5)}
DevOuts == {O(DEV, 3), O(DEV, 5)}

\* Coinstake outputs: the empty marker, one or two stake outputs, then the
\* payments; short layouts too.  Coinbase outputs: the miner's, then the
\* payments.
StakeVouts ==
  {<<O(F, 0), O(F, 9)>>}
  \cup {<<O(F, 0), O(F, 9), m>> : m \in MnOuts}
  \cup {<<O(F, 0), O(F, 9), m, d>> : m \in MnOuts, d \in DevOuts}
  \cup {<<O(F, 0), O(F, 5), O(F, 4), m, d>> : m \in MnOuts, d \in DevOuts}
WorkVouts ==
  {<<O(F, 9)>>} \cup {<<O(F, 9), m, d>> : m \in MnOuts, d \in DevOuts}

\* The payments a builder's own reward gives: the dues themselves; a
\* masternode payment one unit lower (still 2 coins) with a devops payment
\* of 5 (2 coins, above the due 1); and a masternode payment of 3 coins.
MCBuilderDues == {[mn |-> 5, dev |-> 3], [mn |-> 4, dev |-> 5], [mn |-> 6, dev |-> 2]}

MCBlocks ==
  [pos : {TRUE}, vout : StakeVouts, mnEra : BOOLEAN, devEra : {"pre", "v1000", "v1015"}]
  \cup [pos : {FALSE}, vout : WorkVouts, mnEra : BOOLEAN, devEra : {"pre", "v1000", "v1015"}]

\* A correct stake block, one paying a stranger instead of the masternode,
\* and a correct work block, all past v1.0.1.5.
MCProbeBlocks ==
  { [pos |-> TRUE, vout |-> <<O(F, 0), O(F, 9), O(MN, 5), O(DEV, 3)>>,
     mnEra |-> TRUE, devEra |-> "v1015"],
    [pos |-> TRUE, vout |-> <<O(F, 0), O(F, 9), O(X, 5), O(DEV, 3)>>,
     mnEra |-> TRUE, devEra |-> "v1015"],
    [pos |-> FALSE, vout |-> <<O(F, 9), O(MN, 5), O(DEV, 3)>>,
     mnEra |-> TRUE, devEra |-> "v1015"] }
=============================================================================
