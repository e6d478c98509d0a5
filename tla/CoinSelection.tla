--------------------------- MODULE CoinSelection ---------------------------
(***************************************************************************)
(* The coin selection of CWallet (src/src/cwallet.cpp): SelectCoins, its   *)
(* three confirmation tiers, SelectCoinsMinConf and the stochastic         *)
(* ApproximateBestSubset.  Coins are identifiers; val gives each coin's    *)
(* value, depth its depth class (0: unconfirmed, 1: 1..9 confirmations,    *)
(* 2: 10 or more) and mine the coins of transactions that are IsFromMe.    *)
(*                                                                         *)
(* The random choices (the shuffle of vCoins, the order of equal values    *)
(* after the sort, the bits of insecure_rand) are nondeterministic: each   *)
(* operator gives the SET of results the code can return.  Of the 1000     *)
(* rounds of ApproximateBestSubset one is kept: the result of many rounds  *)
(* is the first best set of the round that found the least total, which   *)
(* one round with the same random bits also returns.                      *)
(***************************************************************************)
EXTENDS Integers, FiniteSets, FiniteSetsExt, SequencesExt

CONSTANT CENT   \* CENT: the margin above the target that is worth change

Total(S, val) == MapThenSumSet(LAMBDA c : val[c], S)

\* One pass of the solver over vValue from index i.  A coin is taken when
\* its random bit is set (pass 0) or when it is not yet included (pass 1).
\* A take that reaches the target is recorded if it beats nBest and is then
\* undone (nTotal -= ..., vfIncluded[i] = false).
RECURSIVE PassFrom(_, _, _, _, _, _, _)
PassFrom(vv, val, target, pass, bits, i, st) ==
  IF i > Len(vv) THEN st
  ELSE LET c     == vv[i]
           take  == IF pass = 0 THEN bits[i] ELSE c \notin st.incl
           total == st.total + val[c]
           better == total < st.best
           next  ==
             IF ~take THEN st
             ELSE IF total >= target
               THEN [st EXCEPT !.reached = TRUE,
                               !.best = IF better THEN total ELSE @,
                               !.bestSet = IF better THEN st.incl \cup {c} ELSE @]
               ELSE [st EXCEPT !.total = total, !.incl = @ \cup {c}]
       IN  PassFrom(vv, val, target, pass, bits, i + 1, next)

\* One round (nRep) of ApproximateBestSubset: pass 0, then pass 1 unless
\* the target was reached.
Round(vv, val, target, bits, best, bestSet) ==
  LET s0 == [total |-> 0, incl |-> {}, reached |-> FALSE,
             best |-> best, bestSet |-> bestSet]
      s1 == PassFrom(vv, val, target, 0, bits, 1, s0)
      s2 == IF s1.reached THEN s1 ELSE PassFrom(vv, val, target, 1, bits, 1, s1)
  IN  [best |-> s2.best, set |-> s2.bestSet]

\* Mutant: a round that never improves on taking every coin.
ApproximateBestSubsetAll(vv, val, nTotalLower, target) ==
  {[best |-> nTotalLower, set |-> Range(vv)]}

\* ApproximateBestSubset: vfBest starts as every coin and nBest as their
\* total; the rounds stop as soon as nBest is the target.
ApproximateBestSubset(vv, val, nTotalLower, target) ==
  IF nTotalLower = target
    THEN {[best |-> nTotalLower, set |-> Range(vv)]}
    ELSE {Round(vv, val, target, bits, nTotalLower, Range(vv)) :
            bits \in [1..Len(vv) -> BOOLEAN]}

\* vValue after sort(rbegin, rend): descending values, equal values in any
\* order.
SortedDesc(S, val) ==
  {s \in SetToSeqs(S) : \A i \in 1..(Len(s) - 1) : val[s[i]] >= val[s[i + 1]]}

\* SelectCoinsMinConf over the available coins avail.  A result is
\* [ok, sel]: the return value and setCoinsRet.
SelectCoinsMinConf(avail, val, depth, mine, target, confMine, confTheirs) ==
  LET elig   == {c \in avail : depth[c] >= IF c \in mine THEN confMine ELSE confTheirs}
      exact  == {c \in elig : val[c] = target}
      lower  == {c \in elig : val[c] < target + CENT}
      larger == elig \ lower
      nTotalLower == Total(lower, val)
      lowestLarger == {c \in larger : \A d \in larger : val[c] <= val[d]}
      Fail   == {[ok |-> FALSE, sel |-> {}]}
      Single(S) == {[ok |-> TRUE, sel |-> {c}] : c \in S}
      Solve(vv) ==
        LET second == ApproximateBestSubset(vv, val, nTotalLower, target + CENT)
        IN  UNION {IF r1.best # target /\ nTotalLower >= target + CENT THEN second ELSE {r1} :
                   r1 \in ApproximateBestSubset(vv, val, nTotalLower, target)}
      Pick(r) ==
        IF larger # {} /\ \/ r.best # target /\ r.best < target + CENT
                          \/ \E c \in lowestLarger : val[c] <= r.best
          THEN Single(lowestLarger)
          ELSE {[ok |-> TRUE, sel |-> r.set]}
  IN  IF exact # {} THEN Single(exact)
      ELSE IF nTotalLower = target THEN {[ok |-> TRUE, sel |-> lower]}
      ELSE IF nTotalLower < target
        THEN IF larger = {} THEN Fail ELSE Single(lowestLarger)
      ELSE UNION {UNION {Pick(r) : r \in Solve(vv)} : vv \in SortedDesc(lower, val)}

Fails(results) == \A r \in results : ~r.ok

\* Mutant: SelectCoins that stops after the first tier.
SelectCoinsFirstTier(avail, val, depth, mine, target) ==
  SelectCoinsMinConf(avail, val, depth, mine, target, 1, 2)

\* SelectCoins without coin control: tiers (1, 10), (1, 1), (0, 1) of
\* confirmations for the wallet's own and for others' transactions; depth
\* class 2 stands for 10 confirmations.
SelectCoins(avail, val, depth, mine, target) ==
  LET t1 == SelectCoinsMinConf(avail, val, depth, mine, target, 1, 2)
      t2 == SelectCoinsMinConf(avail, val, depth, mine, target, 1, 1)
      t3 == SelectCoinsMinConf(avail, val, depth, mine, target, 0, 1)
  IN  IF ~Fails(t1) THEN t1 ELSE IF ~Fails(t2) THEN t2 ELSE t3
=============================================================================
