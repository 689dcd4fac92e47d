------------------------------ MODULE MCSession ------------------------------
(***************************************************************************)
(* A browser that two people use: a has been sent an NFT and will be sent  *)
(* a token, b has been sent an NFT of the same collection.                 *)
(***************************************************************************)
EXTENDS Session

CONSTANTS a, b, dai, x1, ape, x2, y1, s1, s2

MCOwnerOf == [x \in Shards |-> IF x = y1 THEN b ELSE a]

MCAssetOf ==
    [x \in Shards |->
        IF x = x1 THEN [type |-> "ERC20", tokenAddress |-> dai, balance |-> 1]
        ELSE [type |-> "ERC721", tokenAddress |-> ape, balance |-> 0,
              tokenIds |-> {[number |-> IF x = x2 THEN 1 ELSE 2]}]]
=============================================================================
