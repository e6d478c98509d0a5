--------------------------- MODULE MC_MerkleTree ---------------------------
(* Four transaction hashes and blocks of up to five transactions: trees  *)
(* of height 0 to 3, with odd levels at every height.  CAmount is scaled *)
(* to 5 bits (-16..15) with MAX_MONEY 7: two or three transactions can   *)
(* overflow a running sum.  a is a coinbase (no inputs); b spends more    *)
(* than it pays; c pays what it spends; d pays 3 more than it spends.     *)
EXTENDS InflationCheck

CONSTANTS a, b, c, d

MCTxIds == {a, b, c, d}

MCValueIn == a :> 0 @@ b :> 6 @@ c :> 7 @@ d :> 3
MCValueOut == a :> 2 @@ b :> 5 @@ c :> 7 @@ d :> 6
=============================================================================
