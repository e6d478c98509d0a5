------------------------- MODULE MC_ChainSelector -------------------------
(***************************************************************************)
(* A block tree for ChainSelector: a main branch G-A1-A2-A3 and a fork     *)
(* G-B1-B2.  Chain trusts are G 1, A1 2, A2 3, A3 4, B1 2, B2 4, so the    *)
(* forks tie at both heights (the strict tie rule matters) and B2 can      *)
(* overtake A2.  A1 and B1 contain t1 and t2, which spend the same coin;   *)
(* t3 is in both A3 and B2.                                                *)
(***************************************************************************)
EXTENDS ChainSelector

CONSTANTS G, A1, A2, A3, B1, B2, t1, t2, t3, c1, c2

MCBlocks == {G, A1, A2, A3, B1, B2}

MCParent == [b \in MCBlocks \ {G} |->
               CASE b = A1 -> G  [] b = A2 -> A1 [] b = A3 -> A2
                 [] b = B1 -> G  [] b = B2 -> B1]

MCBlockTrust == [b \in MCBlocks |-> IF b = B2 THEN 2 ELSE 1]

\* A2 passes AcceptBlock but fails ConnectBlock (for instance on the
\* masternode/devops payment check CheckBlock only applies at connect time).
MCBadBlocks == {A2}

MCTxs == {t1, t2, t3}

MCSpends == [t \in MCTxs |-> IF t = t3 THEN c2 ELSE c1]

MCBlockTxs == [b \in MCBlocks |->
                 CASE b = A1 -> {t1} [] b = B1 -> {t2}
                   [] b \in {A3, B2} -> {t3} [] OTHER -> {}]
=============================================================================
