--------------------------- MODULE MC_WalletCoins ---------------------------
(***************************************************************************)
(* Small instances of WalletCoins.  Values are in units of nTransactionFee *)
(* per 1000 bytes; two inputs fill 1000 bytes, so a send of three inputs   *)
(* needs twice the first fee, and change below 2 is dust.                  *)
(***************************************************************************)
EXTENDS WalletCoins

\* Exploration bound: a behaviour that stakes or sets a reserve makes at
\* most one send, from the account "", no move, and is paid only to the
\* account ""; the account RPCs, the second account and the second send
\* are explored in the behaviours that do neither.  A scanforalltxns call
\* is explored after a coinstake: before one, or a repairwallet call, the
\* wallet agrees with the chain and the scan changes nothing.
StakingOrAccounts ==
  /\ scans = 0 \/ (stakes > 0 /\ sends # << >>)
  /\
     \/ stakes = 0 /\ reserve = 0
     \/ /\ moves = 0 /\ Len(sends) <= 1
        /\ \A i \in DOMAIN sends : sends[i].from = DefaultAccount
        /\ \A c \in Coins : coinAcct[c] \in {DefaultAccount, NoAccount}
=============================================================================
