--------------------------- MODULE MCCoinSelection ---------------------------
(***************************************************************************)
(* Every wallet of up to Size shards with balances around the dust         *)
(* threshold, every amount from MinAmount to MaxAmount.                    *)
(***************************************************************************)
EXTENDS CoinSelection

CONSTANTS Size, MinBalance, MaxBalance, MinAmount, MaxAmount

MCWallets == UNION {[1..n -> MinBalance..MaxBalance] : n \in 1..Size}
MCAmounts == MinAmount..MaxAmount
=============================================================================
