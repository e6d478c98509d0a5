----------------------------- MODULE MC_TxLedger -----------------------------
(***************************************************************************)
(* Candidate blocks over a genesis coinbase g with outputs <<2, 2>>; the  *)
(* proof-of-work subsidy and the stake subsidy are 1.                      *)
(*   P1: cb1 (pays 2 = subsidy + fee), t1 spends g:0, pays 1 (fee 1)       *)
(*   P2: cb2, t2 spends g:0 (conflicts with P1), t3 spends t2:0 inside     *)
(*       the same block                                                    *)
(*   D:  cb3, t4 and t5 both spend g:1 (a double spend inside a block)     *)
(*   X:  cb5 pays 3 with no fees (over the ceiling), t6 spends g:1         *)
(*   S:  stake block: cb4 pays 0, coinstake cs spends g:1 and earns 1,     *)
(*       t7 spends cb1:0 (so S needs P1 below it)                          *)
(*   F1, F2: coinbase-only blocks that fit on any tip                      *)
(***************************************************************************)
EXTENDS TxLedger

CONSTANTS g, cb1, cb2, cb3, cb4, cb5, f1, f2, t1, t2, t3, t4, t5, t6, t7, cs,
          P1, P2, D, X, S, F1, F2

MCTxs == {g, cb1, cb2, cb3, cb4, cb5, f1, f2, t1, t2, t3, t4, t5, t6, t7, cs}
MCCoinbaseTxs == {g, cb1, cb2, cb3, cb4, cb5, f1, f2}
MCCoinstakeTxs == {cs}
MCBlocks == {P1, P2, D, X, S, F1, F2}
MCPoSBlocks == {S}

MCIns ==
  [u \in MCCoinbaseTxs |-> <<>>] @@
  (t1 :> << <<g, 0>> >> @@ t2 :> << <<g, 0>> >> @@ t3 :> << <<t2, 0>> >> @@
   t4 :> << <<g, 1>> >> @@ t5 :> << <<g, 1>> >> @@ t6 :> << <<g, 1>> >> @@
   t7 :> << <<cb1, 0>> >> @@ cs :> << <<g, 1>> >>)

MCOuts ==
  g :> <<2, 2>> @@ cb1 :> <<2>> @@ cb2 :> <<1>> @@ cb3 :> <<1>> @@
  cb4 :> <<0>> @@ cb5 :> <<3>> @@ f1 :> <<1>> @@ f2 :> <<1>> @@
  t1 :> <<1>> @@ t2 :> <<2>> @@ t3 :> <<2>> @@ t4 :> <<2>> @@ t5 :> <<1>> @@
  t6 :> <<2>> @@ t7 :> <<1>> @@ cs :> <<3>>

MCBlockTxs ==
  P1 :> <<cb1, t1>> @@ P2 :> <<cb2, t2, t3>> @@ D :> <<cb3, t4, t5>> @@
  X :> <<cb5, t6>> @@ S :> <<cb4, cs, t7>> @@ F1 :> <<f1>> @@ F2 :> <<f2>>
=============================================================================
