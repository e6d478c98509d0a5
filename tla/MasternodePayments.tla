-------------------------- MODULE MasternodePayments --------------------------
(***************************************************************************)
(* The masternode winner list of CMasternodePayments                       *)
(* (src/src/cmasternodepayments.cpp).  vWinning holds at most one winner   *)
(* per block height:                                                       *)
(*  - AddWinningMasternode scores a vote by the block 576 below its height *)
(*    and keeps the higher score;                                          *)
(*  - ProcessBlock, run by the payments master, picks the oldest           *)
(*    masternode not among the last payments, or else counts back through  *)
(*    them, signs the winner and adds it;                                  *)
(*  - CleanPaymentList erases one winner older than nLimit.                *)
(* These hold cs_masternodepayments.  GetBlockPayee takes no lock: the     *)
(* staker thread (CWallet::CreateCoinStake) and CheckBlock call it while   *)
(* the writers run, so it is a process of its own, one read per step.      *)
(*                                                                         *)
(* Heights are scaled: ScoreLag stands for 576, HashLag for 10 (ProcessBlock *)
(* needs the block 10 below, Sync relays 10 below the tip), VoteAhead for   *)
(* the 20 above the tip that Sync relays, LimitFloor for 1000.  The         *)
(* masternode manager is not in src/: every masternode is enabled and old   *)
(* enough, FindOldestNotInVec returns the first of MNOrder not in the       *)
(* vector.  Signing with a valid key succeeds.                              *)
(***************************************************************************)
EXTENDS Integers, Sequences, SequencesExt, FiniteSets

CONSTANTS
  Masternodes,  \* the masternode inputs (vin)
  MNOrder,      \* Masternodes, oldest first
  Payees,       \* Payees[m]: the scripts a winner for m may pay (own or donation)
  Score,        \* Score[h][m]: CalculateScore(hash of block h - 576, m)
  ScoreLag, HashLag, VoteAhead, LimitFloor,
  MaxHeight,    \* bound on the tip height
  MaxVotes      \* bound on the votes received from peers

ASSUME ToSet(MNOrder) = Masternodes /\ Len(MNOrder) = Cardinality(Masternodes)
ASSUME ScoreLag > HashLag /\ HashLag \in Nat /\ MaxHeight \in Nat

\* The heights a winner can be for.
Heights == 0..(MaxHeight + VoteAhead + HashLag)

VARIABLES
  tip,          \* pindexBest->nHeight
  vWinning,     \* the winner list: records [h, vin, payee, score]
  lastHeight,   \* nLastBlockHeight
  votes,        \* votes received so far (bound)
  offered,      \* offered[h]: the vins scored for h since h's entry was last erased (history)
  rpc, ri, rh, rpayee, rpresent, rresult   \* GetBlockPayee in the staker thread

writerVars == <<tip, vWinning, lastHeight, votes, offered>>
readerVars == <<rpc, ri, rh, rpayee, rpresent, rresult>>
vars == <<writerVars, readerVars>>

WinnerHeights(list) == {list[i].h : i \in 1..Len(list)}

\* GetBlockHash(hash, n) succeeds for a block of the best chain.
HashKnown(n) == 0 <= n /\ n <= tip

-----------------------------------------------------------------------------
(* AddWinningMasternode (cmasternodepayments.cpp 164-207).                 *)

\* Mutant: the later vote replaces the winner whatever its score.
AddWinningLastWins(list, w) ==
  IF ~HashKnown(w.h - ScoreLag) THEN [ok |-> FALSE, list |-> list]
  ELSE LET sw == [w EXCEPT !.score = Score[w.h][w.vin]]
           i  == SelectInSeq(list, LAMBDA e : e.h = w.h)
       IN  IF i = 0 THEN [ok |-> TRUE, list |-> Append(list, sw)]
           ELSE [ok |-> TRUE, list |-> [list EXCEPT ![i] = sw]]

\* Mutant: foundBlock never set, the vote appended beside the old winner.
AddWinningAppend(list, w) ==
  IF ~HashKnown(w.h - ScoreLag) THEN [ok |-> FALSE, list |-> list]
  ELSE [ok |-> TRUE, list |-> Append(list, [w EXCEPT !.score = Score[w.h][w.vin]])]

\* Mutant: the in-place update forgets winner.payee.
AddWinningKeepPayee(list, w) ==
  IF ~HashKnown(w.h - ScoreLag) THEN [ok |-> FALSE, list |-> list]
  ELSE LET sw == [w EXCEPT !.score = Score[w.h][w.vin]]
           i  == SelectInSeq(list, LAMBDA e : e.h = w.h)
       IN  IF i = 0 THEN [ok |-> TRUE, list |-> Append(list, sw)]
           ELSE IF list[i].score < sw.score
                THEN [ok |-> TRUE, list |-> [list EXCEPT ![i] = [sw EXCEPT !.payee = list[i].payee]]]
                ELSE [ok |-> FALSE, list |-> list]

\* The vote is scored; an existing winner for its height is replaced only
\* by a higher score; a new height is appended.
AddWinning(list, w) ==
  IF ~HashKnown(w.h - ScoreLag) THEN [ok |-> FALSE, list |-> list]
  ELSE LET sw == [w EXCEPT !.score = Score[w.h][w.vin]]
           i  == SelectInSeq(list, LAMBDA e : e.h = w.h)
       IN  IF i = 0 THEN [ok |-> TRUE, list |-> Append(list, sw)]
           ELSE IF list[i].score < sw.score
                THEN [ok |-> TRUE, list |-> [list EXCEPT ![i] = sw]]
                ELSE [ok |-> FALSE, list |-> list]

\* The history of scored votes.
Offer(w) ==
  IF HashKnown(w.h - ScoreLag)
  THEN [offered EXCEPT ![w.h] = @ \cup {w.vin}] ELSE offered

\* While GetBlockPayee runs, whether its height kept a winner throughout.
TrackReader(list) == rpresent' = (rpresent /\ (rpc = "idle" \/ rh \in WinnerHeights(list)))

\* A "mnw" vote from a peer, in the window Sync relays.
ReceiveVote(h, m, p) ==
  /\ votes < MaxVotes
  /\ tip - HashLag <= h /\ h <= tip + VoteAhead
  /\ LET r == AddWinning(vWinning, [h |-> h, vin |-> m, payee |-> p, score |-> 0])
     IN  /\ vWinning' = r.list
         /\ TrackReader(r.list)
  /\ offered' = Offer([h |-> h, vin |-> m])
  /\ votes' = votes + 1
  /\ UNCHANGED <<tip, lastHeight, rpc, ri, rh, rpayee, rresult>>

-----------------------------------------------------------------------------
(* ProcessBlock (cmasternodepayments.cpp 237-366).                         *)

\* nMinimumAge = mnodeman.CountEnabled().
MinimumAge == Cardinality(Masternodes)

\* vecLastPayments: the vins of vWinning from the back, pushed while the
\* vector holds no more than nMinimumAge.
LastPayments(list) ==
  LET k == IF Len(list) < MinimumAge + 1 THEN Len(list) ELSE MinimumAge + 1
  IN  [i \in 1..k |-> list[Len(list) - i + 1].vin]

\* FindOldestNotInVec, else the first enabled vin counting back from the
\* end of vecLastPayments; no winner when both find nothing.
PickWinner(vec) ==
  LET i == SelectInSeq(MNOrder, LAMBDA m : m \notin ToSet(vec))
  IN  IF i # 0 THEN {MNOrder[i]}
      ELSE IF MinimumAge > 0 /\ vec # <<>> THEN {Last(vec)} ELSE {}

ProcessBlock(h) ==
  /\ h > lastHeight
  /\ HashKnown(h - HashLag)
  /\ \E m \in PickWinner(LastPayments(vWinning)) : \E p \in Payees[m] :
       LET r == AddWinning(vWinning, [h |-> h, vin |-> m, payee |-> p, score |-> 0])
       IN  /\ vWinning' = r.list
           /\ TrackReader(r.list)
           /\ lastHeight' = IF r.ok THEN h ELSE lastHeight
           /\ offered' = Offer([h |-> h, vin |-> m])
  /\ UNCHANGED <<tip, votes, rpc, ri, rh, rpayee, rresult>>

-----------------------------------------------------------------------------
(* CleanPaymentList (210-235) and the chain growing.                       *)

\* nLimit = max(mnodeman.size() * (int)1.25, 1000): (int)1.25 is 1.
Limit == IF Cardinality(Masternodes) * 1 > LimitFloor
         THEN Cardinality(Masternodes) ELSE LimitFloor

\* The first winner older than nLimit is erased, and the loop stops.
CleanPaymentList ==
  LET i == SelectInSeq(vWinning, LAMBDA e : tip - e.h > Limit) IN
  /\ i # 0
  /\ vWinning' = RemoveAt(vWinning, i)
  /\ TrackReader(RemoveAt(vWinning, i))
  /\ offered' = [offered EXCEPT ![vWinning[i].h] = {}]
  /\ UNCHANGED <<tip, lastHeight, votes, rpc, ri, rh, rpayee, rresult>>

NewTip ==
  /\ tip < MaxHeight
  /\ tip' = tip + 1
  /\ UNCHANGED <<vWinning, lastHeight, votes, offered, readerVars>>

-----------------------------------------------------------------------------
(* GetBlockPayee(pindexPrev->nHeight + 1) in the staker thread (112-126),  *)
(* one read of vWinning per step.                                          *)

StartGetBlockPayee ==
  /\ rpc = "idle"
  /\ rpc' = "scan" /\ ri' = 1 /\ rh' = tip + 1
  /\ rpresent' = (tip + 1 \in WinnerHeights(vWinning))
  /\ UNCHANGED <<writerVars, rpayee, rresult>>

\* The range-for: past the end, not found; a match reads payee first.
ScanStep ==
  /\ rpc = "scan"
  /\ \/ /\ ri > Len(vWinning)
        /\ rpc' = "idle" /\ rresult' = [status |-> "missing", h |-> rh, present |-> rpresent]
        /\ UNCHANGED <<ri, rpayee>>
     \/ /\ ri <= Len(vWinning) /\ vWinning[ri].h = rh
        /\ rpc' = "vin" /\ rpayee' = vWinning[ri].payee
        /\ UNCHANGED <<ri, rresult>>
     \/ /\ ri <= Len(vWinning) /\ vWinning[ri].h # rh
        /\ ri' = ri + 1
        /\ UNCHANGED <<rpc, rpayee, rresult>>
  /\ UNCHANGED <<writerVars, rh, rpresent>>

\* vin = winner.vin; an element erased meanwhile leaves a read past the
\* end, whose value is any.
ReadVin ==
  /\ rpc = "vin"
  /\ \E v \in (IF ri <= Len(vWinning) THEN {vWinning[ri].vin} ELSE Masternodes) :
       rresult' = [status |-> "found", h |-> rh, present |-> rpresent,
                   payee |-> rpayee, vin |-> v]
  /\ rpc' = "idle"
  /\ UNCHANGED <<writerVars, ri, rh, rpayee, rpresent>>

-----------------------------------------------------------------------------

Init ==
  /\ tip = 0 /\ vWinning = <<>> /\ lastHeight = 0 /\ votes = 0
  /\ offered = [h \in Heights |-> {}]
  /\ rpc = "idle" /\ ri = 1 /\ rh = 0 /\ rpayee = CHOOSE p \in Payees[MNOrder[1]] : TRUE
  /\ rpresent = FALSE /\ rresult = [status |-> "none"]

Next ==
  \/ \E h \in Heights, m \in Masternodes : \E p \in Payees[m] : ReceiveVote(h, m, p)
  \/ \E h \in Heights : ProcessBlock(h)
  \/ CleanPaymentList
  \/ NewTip
  \/ StartGetBlockPayee \/ ScanStep \/ ReadVin

Spec == Init /\ [][Next]_vars

-----------------------------------------------------------------------------
(* Properties.                                                             *)

\* Types; a winner's payee is a script of its own masternode.
TypeOK ==
  /\ tip \in 0..MaxHeight /\ lastHeight \in Nat /\ votes \in 0..MaxVotes
  /\ \A i \in 1..Len(vWinning) :
       vWinning[i].h \in Heights /\ vWinning[i].vin \in Masternodes
       /\ vWinning[i].payee \in Payees[vWinning[i].vin]
  /\ rpc \in {"idle", "scan", "vin"}

\* vWinning never holds two winners for one height, whatever the order of
\* peer votes, ProcessBlock and cleaning (the foundBlock scan of
\* AddWinningMasternode).
OneWinnerPerHeight ==
  \A i, j \in 1..Len(vWinning) : i # j => vWinning[i].h # vWinning[j].h

\* The winner kept for a height is the best-scored of all the votes scored
\* for it since it was last cleaned, in whatever order they arrived: two
\* nodes that saw the same votes agree on the payee.
WinnerHasBestScore ==
  \A i \in 1..Len(vWinning) :
    \A m \in offered[vWinning[i].h] : Score[vWinning[i].h][m] <= vWinning[i].score

\* GetBlockPayee's answer is one the list gave during the call: it reports
\* no winner only if the height lacked one at some moment of the call, and
\* a payee and vin it returns belong to one winner.  (The staker pays the
\* result, or mnodeman's current masternode when none is found; a wrong
\* answer makes its block fail the payee check of other nodes.)
GetBlockPayeeCorrect ==
  /\ rresult.status = "missing" => ~rresult.present
  /\ rresult.status = "found" => rresult.payee \in Payees[rresult.vin]

\* Comment at cmasternodepayments.cpp:272: vecLastPayments stops at one
\* full payment cycle, so ProcessBlock pays no masternode twice within
\* nMinimumAge consecutive heights.
PaidOncePerCycle ==
  \A i, j \in 1..Len(vWinning) :
    (i # j /\ vWinning[i].vin = vWinning[j].vin)
      => (vWinning[i].h - vWinning[j].h >= MinimumAge
          \/ vWinning[j].h - vWinning[i].h >= MinimumAge)
=============================================================================
