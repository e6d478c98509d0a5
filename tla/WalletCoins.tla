---------------------------- MODULE WalletCoins ----------------------------
(***************************************************************************)
(* The wallet's coins and sendtoaddress (src/src/cwallet.cpp,             *)
(* src/src/rpcwallet.cpp): SendMoneyToDestination, SendMoney,              *)
(* CreateTransaction with its fee loop over SelectCoins, and               *)
(* CommitTransaction; payments from other wallets, confirmations, and     *)
(* FixSpentCoins, which the staker runs after every block it stakes       *)
(* (miner.cpp CheckStake) and the repairwallet RPC runs on demand.        *)
(*                                                                         *)
(* Outputs are numbered in the order they reach mapWallet.  The wallet's   *)
(* view: coinVal, coinDepth, mine (change outputs, IsFromMe) and spent     *)
(* (vfSpent).  The chain's view: chainSpent, the outputs whose spending    *)
(* transaction is in a block (txindex.vSpent).  sends are the transactions *)
(* CommitTransaction recorded, with their inputs, change output and fate.  *)
(*                                                                         *)
(* Sends run on a wallet unlocked for sending (SendMoney's IsLocked and    *)
(* fWalletUnlockStakingOnly checks are modelled in Wallet); the change     *)
(* key is a fresh key, which Wallet's KeysIssuedInOrder shows of the key   *)
(* pool.  Each RPC is one step under cs_main and cs_wallet.                *)
(*                                                                         *)
(* Accounts: a payment in is to an address of one account; a send is from *)
(* an account (strFromAccount: "" for sendtoaddress); movecmd writes a     *)
(* debit and a credit accounting entry (creditDebit sums them).           *)
(*                                                                         *)
(* The staker (ThreadStakeMiner) is a second thread: CreateCoinStake reads *)
(* GetBalance, then selects and signs without holding cs_wallet, and      *)
(* CheckStake later submits the block under cs_main and runs             *)
(* FixSpentCoins.  Its steps interleave with the RPCs and with blocks    *)
(* from other nodes.  The coinstake's own outputs stay immature (500      *)
(* blocks) within the bounds, so they are left out.                      *)
(***************************************************************************)
EXTENDS Integers, FiniteSets, Sequences, CoinSelection

CONSTANTS
  TxFee,          \* nTransactionFee
  InputsPerKB,    \* inputs that make up 1000 bytes of a transaction
  DustLimit,      \* outputs below this value are dust (IsDust(MIN_RELAY_TX_FEE))
  ReceiveValues,  \* values of the outputs other wallets pay to this one
  SendValues,     \* amounts of sendtoaddress, sendfrom and each sendmany output
  Accounts,       \* account names (model values)
  DefaultAccount, \* the account "" of sendtoaddress
  MoveValues,     \* amounts of move
  MaxCoins,       \* bound on the outputs ever added to mapWallet
  MaxSends,       \* bound on the transactions CommitTransaction records
  MaxMoves,       \* bound on move calls
  MaxRepairs,     \* bound on repairwallet calls
  MaxScans,       \* bound on scanforalltxns calls
  ReserveInputs,  \* amounts given to reservebalance
  StakeCombineThreshold, \* GetStakeCombineThreshold() (-stakethreshold)
  MaxStakes       \* bound on the coinstakes the staker builds

ASSUME TxFee \in Nat \ {0} /\ InputsPerKB \in Nat \ {0} /\ DefaultAccount \in Accounts
ASSUME MaxCoins \in Nat /\ MaxSends \in Nat /\ MaxMoves \in Nat /\ MaxRepairs \in Nat /\ MaxScans \in Nat

Coins == 1..MaxCoins
NoCoin == 0
NoAccount == "change"   \* a change output is to no address-book entry

VARIABLES
  coinVal,     \* output -> its value (0: not yet in mapWallet)
  coinDepth,   \* output -> depth class of its transaction (0, 1..9, 10+)
  coinAcct,    \* output -> the account of its address, NoAccount for change
  mine,        \* change outputs: of transactions that are IsFromMe
  spent,       \* vfSpent: outputs the wallet holds spent
  chainSpent,  \* outputs spent by a transaction in a block
  sends,       \* recorded sends: [in, v, fee, change, from, state]
  creditDebit, \* account -> sum of its accounting entries (GetAccountCreditDebit)
  moves,       \* move calls so far
  lastSend,    \* the last send that reached CreateTransaction: its result and
               \* whether its outputs were Payable when it was made
  repairs,     \* repairwallet calls so far
  scans,       \* scanforalltxns calls so far
  stk,         \* the staker: [st, bal, res, in, tpl, stale]; st is "idle",
               \* "read" (nBalance read), "signed" (coinstake signed) or
               \* "inblock" (its block is the tip); tpl the pool sends in the
               \* block template; stale: the tip moved since
  reserve,     \* nReserveBalance
  stakes       \* coinstakes begun so far

vars == <<coinVal, coinDepth, coinAcct, mine, spent, chainSpent, sends, creditDebit,
          moves, lastSend, repairs, scans, stk, reserve, stakes>>

stakeVars == <<stk, reserve, stakes>>

Sum(outs) == FoldSeq(LAMBDA x, y : x + y, 0, outs)

-----------------------------------------------------------------------------
(* Reading the coins and the accounts.                                     *)

\* CWalletTx::IsTrusted (outside src/): confirmed, or unconfirmed and from
\* this wallet.
IsTrusted(c) == coinDepth[c] >= 1 \/ c \in mine

\* AvailableCoins(vCoins, fOnlyConfirmed = true): outputs of trusted
\* transactions with depth > 0 ("ignore 0 confirm") that are not IsSpent.
AvailableCoins ==
  {c \in Coins : coinVal[c] > 0 /\ IsTrusted(c) /\ coinDepth[c] >= 1 /\ c \notin spent}

\* GetBalance: GetAvailableCredit (the unspent outputs) of the trusted
\* transactions.
GetBalance ==
  Total({c \in Coins : coinVal[c] > 0 /\ IsTrusted(c) /\ c \notin spent}, coinVal)

\* What a set of sends took from their accounts: payees and fee
\* (GetAmounts leaves the change out of both received and sent).
SentWithFee(S) == MapThenSumSet(LAMBDA i : sends[i].v + sends[i].fee, S)

\* GetAccountBalance(strAccount, nMinDepth): what was received to the
\* account's addresses in transactions of depth >= nMinDepth, less what
\* the account sent and paid in fees, plus its accounting entries.
GetAccountBalance(a, minDepth) ==
  Total({c \in Coins : coinVal[c] > 0 /\ coinAcct[c] = a /\ coinDepth[c] >= minDepth}, coinVal)
    - SentWithFee({i \in DOMAIN sends : sends[i].from = a})
    + creditDebit[a]

\* getbalance "*" nMinDepth: the same tally over every transaction
\* regardless of account, without the accounting entries.
GetBalanceAll(minDepth) ==
  Total({c \in Coins : coinVal[c] > 0 /\ coinAcct[c] # NoAccount /\ coinDepth[c] >= minDepth}, coinVal)
    - SentWithFee(DOMAIN sends)

-----------------------------------------------------------------------------
(* CreateTransaction.                                                      *)

\* nPayFee = nTransactionFee * (1 + nBytes / 1000) for nIn inputs.
RequiredFee(nIn) == TxFee * (1 + nIn \div InputsPerKB)

IsDust(v) == v < DustLimit

\* The check that ends the loop: nFeeRet >= max(nPayFee, nMinFee).
EnoughFee(fee, nIn) == fee >= RequiredFee(nIn)

\* nChange = nValueIn - nValue - nFeeRet; dust change is added to nFeeRet
\* ("Never create dust outputs") and the reserved key returned.
Settle(v, fee, sel) ==
  LET change == Total(sel, coinVal) - v - fee
      dust   == change > 0 /\ IsDust(change)
  IN  [fee |-> IF dust THEN fee + change ELSE fee,
       change |-> IF dust THEN 0 ELSE change]

\* The while (true) loop from nFeeRet = fee: SelectCoins for nValue +
\* nFeeRet (failing: " Insufficient funds."), settle the change, and start
\* again with nFeeRet = nPayFee when nFeeRet falls short.  nFeeRet only
\* grows, so the recursion ends.
RECURSIVE CreateLoop(_, _)
CreateLoop(v, fee) ==
  UNION {IF ~r.ok THEN {[ok |-> FALSE]}
         ELSE LET st == Settle(v, fee, r.sel)
              IN  IF ~EnoughFee(st.fee, Cardinality(r.sel))
                    THEN CreateLoop(v, RequiredFee(Cardinality(r.sel)))
                    ELSE {[ok |-> TRUE, sel |-> r.sel, fee |-> st.fee,
                           change |-> st.change]} :
         r \in SelectCoins(AvailableCoins, coinVal, coinDepth, mine, v + fee)}

\* CreateTransaction over the payee amounts outs: a dust payee output fails
\* at once ("Transaction amount too small"); otherwise the loop from
\* nFeeRet = nTransactionFee for their sum.
CreateTransaction(outs) ==
  IF \E k \in DOMAIN outs : IsDust(outs[k]) THEN {[ok |-> FALSE]}
  ELSE CreateLoop(Sum(outs), TxFee)

\* CMerkleTx::AcceptToMemoryPool (outside src/): a transaction is refused
\* when one of its inputs is spent by a transaction in a block or in the
\* pool.
AcceptToMemoryPool(in) ==
  /\ in \cap chainSpent = {}
  /\ \A i \in DOMAIN sends : sends[i].state = "pool" => sends[i].in \cap in = {}

FreeCoins == {c \in Coins : coinVal[c] = 0}

\* Some nonempty set of the available outputs pays outs, none of which is
\* dust, and the fee for its own size (the reference a refusal is judged by).
Payable(outs) ==
  /\ \A k \in DOMAIN outs : ~IsDust(outs[k])
  /\ \E S \in SUBSET AvailableCoins :
       S # {} /\ Total(S, coinVal) >= Sum(outs) + RequiredFee(Cardinality(S))

-----------------------------------------------------------------------------
(* The operations.                                                         *)

\* CommitTransaction of a created transaction o paying v from account a:
\* KeepKey of the change key, AddToWallet (the change an unconfirmed output
\* of ours), MarkSpent of every input, and only then AcceptToMemoryPool,
\* whose refusal ("This must not fail") returns false with all of that in
\* place.
CommitTransaction(o, v, a) ==
  /\ Len(sends) < MaxSends
  /\ o.change = 0 \/ FreeCoins # {}
  /\ LET c == IF o.change > 0 THEN Min(FreeCoins) ELSE NoCoin
     IN  /\ coinVal' = IF c = NoCoin THEN coinVal ELSE [coinVal EXCEPT ![c] = o.change]
         /\ coinAcct' = IF c = NoCoin THEN coinAcct ELSE [coinAcct EXCEPT ![c] = NoAccount]
         /\ mine' = IF c = NoCoin THEN mine ELSE mine \cup {c}
         /\ sends' = Append(sends,
              [in |-> o.sel, v |-> v, fee |-> o.fee, change |-> c, from |-> a,
               state |-> IF AcceptToMemoryPool(o.sel) THEN "pool" ELSE "rejected"])
  /\ spent' = spent \cup o.sel

\* Create and commit a transaction paying outs from account a: a failed
\* CreateTransaction is reported (SendMoney: "requires a transaction fee
\* of at least ..." or "Failed to Create transaction"; sendmany:
\* "Insufficient funds" or "Transaction creation failed") and changes
\* nothing; else CommitTransaction.
CreateAndCommit(outs, a) ==
  /\ \E o \in CreateTransaction(outs) :
       IF ~o.ok
         THEN /\ lastSend' = [result |-> "failed", payable |-> Payable(outs)]
              /\ UNCHANGED <<coinVal, coinAcct, mine, spent, sends>>
         ELSE /\ CommitTransaction(o, Sum(outs), a)
              /\ lastSend' = [result |-> "sent", payable |-> TRUE]
  /\ UNCHANGED <<coinDepth, chainSpent, creditDebit, moves, repairs, scans>>
  /\ UNCHANGED stakeVars

\* SendMoney on a wallet unlocked for sending: one payee output.
SendMoney(v, a) == CreateAndCommit(<<v>>, a)

\* SendMoneyToDestination refuses nValue + nTransactionFee > GetBalance()
\* ("Insufficient funds"), then SendMoney.
SendMoneyToDestination(v, a) ==
  /\ v + TxFee <= GetBalance
  /\ SendMoney(v, a)

\* sendtoaddress: from the account "" (strFromAccount left empty).
sendtoaddress(v) == SendMoneyToDestination(v, DefaultAccount)

\* sendfrom with minconf 1: "Account has insufficient funds" when nAmount
\* > GetAccountBalance (the fee is not counted), then
\* SendMoneyToDestination with strFromAccount = account.
sendfrom(a, v) ==
  /\ v <= GetAccountBalance(a, 1)
  /\ SendMoneyToDestination(v, a)

\* sendmany with minconf 1: the account must cover totalAmount, then
\* CreateTransaction and CommitTransaction directly, without
\* SendMoneyToDestination's check against GetBalance.
sendmany(a, outs) ==
  /\ Sum(outs) <= GetAccountBalance(a, 1)
  /\ CreateAndCommit(outs, a)

\* move: with no check of the balance of fromaccount, a debit entry of
\* -nAmount for it and a credit entry of nAmount for toaccount, in one
\* database transaction.
movecmd(from, to, v) ==
  /\ moves < MaxMoves
  /\ creditDebit' = [creditDebit EXCEPT ![from] = @ - v, ![to] = @ + v]
  /\ moves' = moves + 1
  /\ UNCHANGED <<coinVal, coinDepth, coinAcct, mine, spent, chainSpent, sends, lastSend, repairs, scans, scans>>
  /\ UNCHANGED stakeVars

\* A transaction of another wallet paying v to an address of account a
\* reaches the wallet (AddToWalletIfInvolvingMe), unconfirmed.
ReceiveCoin(v, a) ==
  /\ FreeCoins # {}
  /\ coinVal' = [coinVal EXCEPT ![Min(FreeCoins)] = v]
  /\ coinAcct' = [coinAcct EXCEPT ![Min(FreeCoins)] = a]
  /\ UNCHANGED <<coinDepth, mine, spent, chainSpent, sends, creditDebit, moves, lastSend, repairs, scans, scans>>
  /\ UNCHANGED stakeVars

\* Another node's block becomes the tip: a coinstake the staker is still
\* building or submitting is now on a stale tip.
TipMoves ==
  /\ stakes' = stakes /\ reserve' = reserve
  /\ stk' = [stk EXCEPT !.stale = TRUE]

\* Mutant: a block that includes the payment again deepens it again.
ConfirmReceivedAgain(c) ==
  /\ coinVal[c] > 0 /\ c \notin mine
  /\ coinDepth' = [coinDepth EXCEPT ![c] = @ + 1]
  /\ UNCHANGED <<coinVal, coinAcct, mine, spent, chainSpent, sends, creditDebit, moves, lastSend, repairs, scans, scans>>
  /\ TipMoves

\* A block including a payment to the wallet is connected (SyncTransaction).
ConfirmReceived(c) ==
  /\ coinVal[c] > 0 /\ c \notin mine /\ coinDepth[c] = 0
  /\ coinDepth' = [coinDepth EXCEPT ![c] = 1]
  /\ UNCHANGED <<coinVal, coinAcct, mine, spent, chainSpent, sends, creditDebit, moves, lastSend, repairs, scans, scans>>
  /\ TipMoves

\* A block including a send of the pool is connected: its inputs are spent
\* on chain and its change confirmed.
ConfirmSend(i) ==
  /\ sends[i].state = "pool" /\ sends[i].in \cap chainSpent = {}
  /\ sends' = [sends EXCEPT ![i].state = "confirmed"]
  /\ chainSpent' = chainSpent \cup sends[i].in
  /\ coinDepth' = IF sends[i].change = NoCoin THEN coinDepth
                  ELSE [coinDepth EXCEPT ![sends[i].change] = 1]
  /\ UNCHANGED <<coinVal, coinAcct, mine, spent, creditDebit, moves, lastSend, repairs, scans, scans>>
  /\ TipMoves

\* Later blocks bury a confirmed transaction past ten confirmations.
Bury(c) ==
  /\ coinDepth[c] = 1
  /\ coinDepth' = [coinDepth EXCEPT ![c] = 2]
  /\ UNCHANGED <<coinVal, coinAcct, mine, spent, chainSpent, sends, creditDebit, moves, lastSend, repairs, scans, scans>>
  /\ TipMoves

\* FixSpentCoins over the outputs of transactions with a txindex (in a
\* block): one marked spent that the txindex holds unspent is a "lost
\* coin" and MarkUnspent; one marked unspent that the txindex holds spent
\* is MarkSpent.
FixSpentCoins(conf, held, chain) == (held \ (conf \ chain)) \cup (conf \cap chain)

\* The outputs of transactions in a block.
Confirmed(depth) == {c \in Coins : coinVal[c] > 0 /\ depth[c] >= 1}

\* The repairwallet RPC.
Repair ==
  /\ repairs < MaxRepairs
  /\ spent' = FixSpentCoins(Confirmed(coinDepth), spent, chainSpent)
  /\ repairs' = repairs + 1
  /\ UNCHANGED <<coinVal, coinDepth, coinAcct, mine, chainSpent, sends, creditDebit, moves, lastSend, scans>>
  /\ UNCHANGED stakeVars

\* ReacceptWalletTransactions on one wallet transaction, against the
\* wallet s as the loop has left it so far: a send with no txindex (not in
\* a block) goes through AcceptWalletTransaction, which puts it in the
\* pool unless an input is spent in a block or by a send already there.
ReacceptSend(s, i) ==
  IF /\ s[i].state = "rejected" /\ s[i].in \cap chainSpent = {}
     /\ \A j \in DOMAIN s : s[j].state = "pool" => s[j].in \cap s[i].in = {}
  THEN [s EXCEPT ![i].state = "pool"] ELSE s

\* ReacceptWalletTransactions visits mapWallet, in the order of its hashes,
\* re-accepting the sends not in a block, and does MarkSpent on every output
\* of a transaction in a block whose txindex.vSpent entry is set.  It never
\* marks an output unspent, so no spend is missing (vMissingTx stays empty)
\* and the loop runs once.
ReacceptWalletTransactions ==
  /\ \E order \in SetToSeqs(DOMAIN sends) : sends' = FoldLeft(ReacceptSend, sends, order)
  /\ spent' = spent \cup (Confirmed(coinDepth) \cap chainSpent)

\* The scanforalltxns RPC: ScanForWalletTransactions from the genesis block
\* finds no transaction the wallet does not hold already (every block that
\* touches it is an action here), then ReacceptWalletTransactions.
scanforalltxns ==
  /\ scans < MaxScans
  /\ ReacceptWalletTransactions
  /\ scans' = scans + 1
  /\ UNCHANGED <<coinVal, coinDepth, coinAcct, mine, chainSpent, creditDebit, moves, lastSend, repairs>>
  /\ UNCHANGED stakeVars

-----------------------------------------------------------------------------
(* The staker.                                                             *)

\* reservebalance true <amount>: rounded down to a CENT; reservebalance
\* false sets 0, which an amount of 0 also gives.
reservebalance(v) ==
  /\ reserve' = (v \div CENT) * CENT
  /\ UNCHANGED <<coinVal, coinDepth, coinAcct, mine, spent, chainSpent, sends, creditDebit,
                 moves, lastSend, repairs, scans, stk, stakes>>

\* AvailableCoinsForStaking: unspent outputs of ours with
\* nStakeMinConfirmations (depth class 2) and no blocks to maturity.
AvailableCoinsForStaking ==
  {c \in Coins : coinVal[c] > 0 /\ coinDepth[c] = 2 /\ c \notin spent}

\* SelectCoinsForStaking over vCoins in the order vv: stop once nValueRet
\* reaches the target; a coin of at least the target is taken and ends the
\* loop; one below target + CENT is taken; a larger one is skipped.
RECURSIVE SelectCoinsForStaking(_, _, _, _)
SelectCoinsForStaking(vv, target, i, sel) ==
  IF i > Len(vv) \/ Total(sel, coinVal) >= target THEN sel
  ELSE LET n == coinVal[vv[i]]
       IN  IF n >= target THEN sel \cup {vv[i]}
           ELSE IF n < target + CENT
             THEN SelectCoinsForStaking(vv, target, i + 1, sel \cup {vv[i]})
             ELSE SelectCoinsForStaking(vv, target, i + 1, sel)

\* Outputs paid to the same address: payments to an account go to its
\* address, each change output has its own key.
SameScript(c, k) == c = k \/ (coinAcct[c] = coinAcct[k] /\ coinAcct[k] # NoAccount)

\* The breaks of the loop that adds inputs: nCredit has reached
\* GetStakeCombineThreshold, or the coin would pass nBalance - nReserveBalance.
CombineStops(credit, v, limit) ==
  credit >= StakeCombineThreshold \/ credit + v > limit

\* The loop that adds more inputs of the kernel's address, over setCoins in
\* the order ord: stop when nCredit reaches GetStakeCombineThreshold or the
\* next coin would pass nBalance - nReserveBalance; skip significant coins.
RECURSIVE Combine(_, _, _, _, _)
Combine(ord, k, limit, i, in) ==
  IF i > Len(ord) THEN in
  ELSE LET c == ord[i]
           credit == Total(in, coinVal)
       IN  IF ~SameScript(c, k) \/ c = k THEN Combine(ord, k, limit, i + 1, in)
           ELSE IF CombineStops(credit, coinVal[c], limit) THEN in
           ELSE IF coinVal[c] >= StakeCombineThreshold THEN Combine(ord, k, limit, i + 1, in)
           ELSE Combine(ord, k, limit, i + 1, in \cup {c})

\* The inputs CreateCoinStake can sign after reading nBalance = bal: the
\* kernel is the first coin of setCoins whose CheckKernel hash meets the
\* target (any coin, or none); no kernel is searched once the tip moved
\* (pindexPrev != pindexBest).  The kernel's value must not pass
\* nBalance - nReserveBalance; a kernel above GetStakeSplitThreshold splits
\* the stake into two outputs and takes no more inputs.
CoinStakeInputs(bal) ==
  LET limit == bal - reserve
  IN  UNION {UNION {{IF coinVal[k] > 2 * StakeCombineThreshold THEN {k}
                     ELSE Combine(ord, k, limit, 1, {k}) :
                     k \in {k \in Range(ord) : coinVal[k] <= limit}} :
                    ord \in SetToSeqs(SelectCoinsForStaking(vv, limit, 1, {}))} :
             vv \in SetToSeqs(AvailableCoinsForStaking)}

\* ThreadStakeMiner, unlocked and with peers: CreateNewBlock takes the
\* pool's transactions into the template, and CreateCoinStake reads
\* nBalance; at or below nReserveBalance it returns false.
StakeBegin ==
  /\ stk.st = "idle" /\ stakes < MaxStakes
  /\ GetBalance > reserve
  /\ stk' = [stk EXCEPT !.st = "read", !.bal = GetBalance, !.in = {},
                        !.tpl = {i \in DOMAIN sends : sends[i].state = "pool"}, !.stale = FALSE]
  /\ stakes' = stakes + 1
  /\ UNCHANGED <<coinVal, coinDepth, coinAcct, mine, spent, chainSpent, sends, creditDebit,
                 moves, lastSend, repairs, scans, reserve>>

\* The rest of CreateCoinStake and SignBlock: with no kernel (or none
\* searched on a stale tip) it returns false and the staker sleeps.
StakeSign ==
  /\ stk.st = "read"
  /\ \/ /\ ~stk.stale
        /\ \E in \in CoinStakeInputs(stk.bal) :
             stk' = [stk EXCEPT !.st = "signed", !.in = in, !.res = reserve]
     \/ stk' = [stk EXCEPT !.st = "idle"]
  /\ UNCHANGED <<coinVal, coinDepth, coinAcct, mine, spent, chainSpent, sends, creditDebit,
                 moves, lastSend, repairs, scans, reserve, stakes>>

\* CheckStake: a block whose hashPrevBlock is no longer hashBestChain is
\* stale; otherwise ProcessBlock connects it unless the coinstake and a
\* template transaction spend the same output.  The template's sends are
\* confirmed, the coinstake's inputs spent on chain, and FixSpentCoins runs.
CheckStake ==
  /\ stk.st = "signed"
  /\ LET tplIn == UNION {sends[i].in : i \in stk.tpl}
         chain == chainSpent \cup stk.in \cup tplIn
         depth == [c \in Coins |-> IF \E i \in stk.tpl : sends[i].change = c THEN 1
                                  ELSE coinDepth[c]]
     IN  IF stk.stale \/ stk.in \cap tplIn # {}
           THEN /\ stk' = [stk EXCEPT !.st = "idle"]
                /\ UNCHANGED <<coinDepth, spent, chainSpent, sends>>
           ELSE /\ stk' = [stk EXCEPT !.st = "inblock"]
                /\ sends' = [i \in DOMAIN sends |->
                               IF i \in stk.tpl THEN [sends[i] EXCEPT !.state = "confirmed"]
                               ELSE sends[i]]
                /\ chainSpent' = chain
                /\ coinDepth' = depth
                /\ spent' = FixSpentCoins(Confirmed(depth), spent, chain)
  /\ UNCHANGED <<coinVal, coinAcct, mine, creditDebit, moves, lastSend, repairs, scans, reserve, stakes>>

\* A competing chain replaces the staked block while it is the tip:
\* DisconnectBlock returns its sends to the pool and SyncTransaction's
\* DisableTransaction marks the coinstake's inputs unspent.
StakeOrphaned ==
  /\ stk.st = "inblock" /\ ~stk.stale
  /\ LET tplIn == UNION {sends[i].in : i \in stk.tpl}
     IN  /\ chainSpent' = chainSpent \ (stk.in \cup tplIn)
         /\ sends' = [i \in DOMAIN sends |->
                        IF i \in stk.tpl THEN [sends[i] EXCEPT !.state = "pool"] ELSE sends[i]]
         /\ coinDepth' = [c \in Coins |-> IF \E i \in stk.tpl : sends[i].change = c THEN 0
                                          ELSE coinDepth[c]]
  /\ spent' = spent \ stk.in
  /\ stk' = [stk EXCEPT !.st = "idle"]
  /\ UNCHANGED <<coinVal, coinAcct, mine, creditDebit, moves, lastSend, repairs, scans, reserve, stakes>>

-----------------------------------------------------------------------------

\* An empty wallet: the first coins arrive by ReceiveCoin.
Init ==
  /\ coinVal = [c \in Coins |-> 0] /\ coinDepth = [c \in Coins |-> 0]
  /\ coinAcct = [c \in Coins |-> NoAccount]
  /\ mine = {} /\ spent = {} /\ chainSpent = {} /\ sends = << >>
  /\ creditDebit = [a \in Accounts |-> 0] /\ moves = 0 /\ repairs = 0 /\ scans = 0
  /\ lastSend = [result |-> "none", payable |-> TRUE]
  /\ stk = [st |-> "idle", bal |-> 0, res |-> 0, in |-> {}, tpl |-> {}, stale |-> FALSE]
  /\ reserve = 0 /\ stakes = 0

Next ==
  \/ \E v \in SendValues : sendtoaddress(v)
  \/ \E a \in Accounts, v \in SendValues : sendfrom(a, v)
  \/ \E a \in Accounts, v1, v2 \in SendValues : v1 <= v2 /\ sendmany(a, <<v1, v2>>)
  \/ \E from, to \in Accounts, v \in MoveValues : movecmd(from, to, v)
  \/ \E v \in ReceiveValues, a \in Accounts : ReceiveCoin(v, a)
  \/ \E c \in Coins : ConfirmReceived(c) \/ Bury(c)
  \/ \E i \in DOMAIN sends : ConfirmSend(i)
  \/ Repair
  \/ scanforalltxns
  \/ \E v \in ReserveInputs : reservebalance(v)
  \/ StakeBegin \/ StakeSign \/ CheckStake \/ StakeOrphaned

Spec == Init /\ [][Next]_vars

-----------------------------------------------------------------------------
(* Properties.                                                             *)

TypeOK ==
  /\ coinVal \in [Coins -> Nat] /\ coinDepth \in [Coins -> 0..2]
  /\ coinAcct \in [Coins -> Accounts \cup {NoAccount}]
  /\ mine \subseteq Coins /\ spent \subseteq Coins /\ chainSpent \subseteq Coins
  /\ sends \in Seq([in : SUBSET Coins, v : Nat, fee : Nat, change : Coins \cup {NoCoin},
                    from : Accounts, state : {"pool", "rejected", "confirmed"}])
  /\ creditDebit \in [Accounts -> Int]
  /\ moves \in 0..MaxMoves /\ repairs \in 0..MaxRepairs /\ scans \in 0..MaxScans
  /\ stk \in [st : {"idle", "read", "signed", "inblock"}, bal : Nat, res : Nat,
              in : SUBSET Coins, tpl : SUBSET DOMAIN sends, stale : BOOLEAN]
  /\ reserve \in Nat /\ stakes \in 0..MaxStakes

\* No output is an input of two recorded sends: AvailableCoins leaves out
\* what CommitTransaction's MarkSpent recorded, so the wallet never signs a
\* double spend that AcceptToMemoryPool then rejects after it was recorded.
NoCoinSpentTwice ==
  \A i, j \in DOMAIN sends : i # j => sends[i].in \cap sends[j].in = {}

\* CreateTransaction fails (SendMoney: "requires a transaction fee of at
\* least ..." or "Failed to Create transaction"; sendmany: "Transaction
\* creation failed") only when no set of the spendable outputs pays the
\* amounts and the fee for its own size.
SendRefusedOnlyWhenUnpayable ==
  lastSend.result = "failed" => ~lastSend.payable

=============================================================================
