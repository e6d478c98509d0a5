------------------------ MODULE MC_MasternodePayments ------------------------
(***************************************************************************)
(* Two masternodes m1 (older) and m2, each paying its own script (the      *)
(* donation branch is left out).  Scores differ per height and swap with  *)
(* its parity, so either may win a contested height.                      *)
(***************************************************************************)
EXTENDS MasternodePayments

CONSTANTS m1, m2, s1, s2

MCMasternodes == {m1, m2}
MCOrder == <<m1, m2>>
MCPayees == m1 :> {s1} @@ m2 :> {s2}
MCScore == [h \in Heights |-> m1 :> (h % 2) @@ m2 :> ((h + 1) % 2)]
=============================================================================
