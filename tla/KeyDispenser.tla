---------------------------- MODULE KeyDispenser ----------------------------
(***************************************************************************)
(* What the key pool promises its callers (getnewaddress, the change key   *)
(* of a send): each call that keeps a key gets a key no caller got before, *)
(* and the oldest one the pool holds ("ReserveKeyFromKeyPool: get the      *)
(* oldest key"), so keys go out in the order they were made.               *)
(*                                                                         *)
(* Keys are numbered in the order they were made.  issued is the set of    *)
(* keys given out and count the number of hand-outs.                       *)
(***************************************************************************)
EXTENDS Naturals, FiniteSets

CONSTANT Keys   \* the keys, numbered in creation order

VARIABLES issued, count

Init == issued = {} /\ count = 0

\* A key newer than every key already given out is handed to a caller.
Issue(k) ==
  /\ k \notin issued
  /\ \A j \in issued : j < k
  /\ issued' = issued \cup {k}
  /\ count' = count + 1

Next == \E k \in Keys : Issue(k)

Spec == Init /\ [][Next]_<<issued, count>>
=============================================================================
