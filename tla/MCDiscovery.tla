----------------------------- MODULE MCDiscovery -----------------------------
(***************************************************************************)
(* Discovery over the integers modulo 11 with addition: a point stands for *)
(* its discrete logarithm, and a point and its inverse share a coordinate. *)
(* Two 32-byte numbers are not scalars (0 and 12), and one coordinate      *)
(* hashes to the larger.  A byte has two values, so that somebody else's   *)
(* view tag often matches.                                                 *)
(***************************************************************************)
EXTENDS Discovery

CONSTANTS token, alice, s1, s2

MCOrder == 11
MCWords == 0..12
MCPoints == 0..10
MCPublicKey(k) == k % MCOrder
MCTimes(k, p) == (k * p) % MCOrder
MCPlus(p, q) == (p + q) % MCOrder
MCCoordinate(p) == {p, (MCOrder - p) % MCOrder}
MCKeccak(x) ==
    CASE 1 \in x -> 3 [] 2 \in x -> 12 [] 3 \in x -> 5 [] 4 \in x -> 8 [] OTHER -> 6
MCViewTag(secret) == secret % 2

KeyPair(spending, viewing) ==
    [spendingPrivateKey |-> spending, viewingPrivateKey |-> viewing]

Me   == KeyPair(4, 2)
Them == KeyPair(3, 3)

PaymentOf(to, asset, tells, sender) ==
    [to |-> to, asset |-> asset, tells |-> tells, sender |-> sender]

\* Ether and a token for this wallet.
MCPayments ==
    {PaymentOf(Me, AssetInfo("NATIVE", token, 1), "asset", [by |-> alice, length |-> 42]),
     PaymentOf(Me, AssetInfo("ERC721", token, 1), "asset", Nothing)}

\* The first draw for the token gives a shared secret that is no scalar.
MCDrawsOf == [p \in MCPayments |-> IF p.asset.type = "NATIVE" THEN {2} ELSE {1, 3}]

\* Announcements that are not for this wallet: one of another scheme, one whose key
\* is not of the curve, and two whose view tags happen to be its own, of another
\* layout and without an asset.
MCOtherLogs ==
    <<[stealthAddress |-> 7, ephemeralPubKey |-> 5, keySize |-> 32, metadata |-> NoBytes],
      [stealthAddress |-> 8, ephemeralPubKey |-> 11, keySize |-> 33, metadata |-> NoBytes],
      [stealthAddress |-> 5, ephemeralPubKey |-> 4, keySize |-> 65,
       metadata |-> [NoBytes EXCEPT !.size = 57, !.tag = 1, !.type = 165,
                                    !.tokenAddress = token, !.identifier = 1]],
      [stealthAddress |-> 6, ephemeralPubKey |-> 4, keySize |-> 33,
       metadata |-> TagOnly(5)]>>
=============================================================================
