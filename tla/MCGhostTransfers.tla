-------------------------- MODULE MCGhostTransfers --------------------------
(***************************************************************************)
(* A wallet with two shards of 2 and two shards with a token each, and     *)
(* pairs of requests: a private transfer of 2 and a public one of 1 can    *)
(* pay from one shard or both, compete for a shard, and spend each other's *)
(* change; tokens are moved, competed for, and deposited and moved on; and *)
(* a deposit of 2 arrives while a transfer is under way.                   *)
(***************************************************************************)
EXTENDS GhostTransfers

Ask(mode, type, value) == [mode |-> mode, type |-> type, value |-> value]

Amounts == <<Ask("private", "ERC20", 2), Ask("public", "ERC20", 1)>>
TwoTokens == <<Ask("private", "ERC721", 0), Ask("public", "ERC721", 1)>>
OneToken == <<Ask("private", "ERC721", 0), Ask("private", "ERC721", 0)>>
TokenArrives == <<Ask("deposit", "ERC721", 2), Ask("private", "ERC721", 2)>>
AmountArrives == <<Ask("deposit", "ERC20", 2), Ask("public", "ERC20", 1)>>

MCRequests == {Amounts, TwoTokens, OneToken, TokenArrives, AmountArrives}

MCFirstAsset ==
    <<[type |-> "ERC20", value |-> 2], [type |-> "ERC20", value |-> 2],
      [type |-> "ERC721", value |-> 0], [type |-> "ERC721", value |-> 1]>>
=============================================================================
