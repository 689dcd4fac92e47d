---------------------------- MODULE MCGhostRouter ----------------------------
(***************************************************************************)
(* A small chain: two funded shards (a1, a2), two fresh addresses (b1, c1),  *)
(* one native asset and one ERC-721 token, and bundles that reach every    *)
(* check of the router.                                                    *)
(***************************************************************************)
EXTENDS GhostRouter, TLC

CONSTANTS a1, a2, b1, c1, eth, nft, impl, otherImpl, p1, p2

MCAccounts == {a1, a2, b1, c1}
MCAssets   == {eth, nft}
MCTargets  == {impl, otherImpl}

MCInitialBalance ==
    [a \in MCAssets |->
        [x \in MCAccounts |->
            IF a = eth THEN (IF x = a1 THEN 2 ELSE IF x = a2 THEN 1 ELSE 0)
                       ELSE (IF x = a2 THEN 1 ELSE 0)]]

Cmd(shard, asset, to, value, anns) ==
    [shard |-> shard, asset |-> asset, to |-> to, value |-> value,
     target |-> impl, sig |-> [by |-> shard, announcements |-> anns]]

Gas(verification, call, preVerification) ==
    [verificationGasLimit |-> verification, callGasLimit |-> call,
     preVerificationGas |-> preVerification, maxFeePerGas |-> 1]

\* a1 splits into a payment to b1 and change to c1: one shard in two commands.
Split == [commands |-> <<Cmd(a1, eth, b1, 1, <<b1, c1>>), Cmd(a1, eth, c1, 1, <<b1, c1>>)>>,
          announcements |-> <<b1, c1>>, limits |-> Gas(0, 1, 1)]

\* Competes for a1, and also moves the token of a2.
Both == [commands |-> <<Cmd(a2, nft, c1, 1, <<c1>>), Cmd(a1, eth, c1, 1, <<c1>>)>>,
         announcements |-> <<c1>>, limits |-> Gas(0, 1, 0)]

\* Pays a1 and announces it: refused once a1 is spent.
PayBack == [commands |-> <<Cmd(a2, eth, a1, 1, <<a1>>)>>,
            announcements |-> <<a1>>, limits |-> Gas(0, 1, 0)]

\* b1 sends to itself; its command names another delegate in the second one.
ToSelf == [commands |-> <<Cmd(b1, eth, b1, 1, <<>>)>>,
           announcements |-> <<>>, limits |-> Gas(0, 1, 0)]

WrongTarget == [commands |-> <<[Cmd(a2, eth, b1, 1, <<>>) EXCEPT !.target = otherImpl]>>,
                announcements |-> <<>>, limits |-> Gas(0, 1, 0)]

\* The command of a1 was signed by somebody else; the gas fields overflow.
Forged == [commands |-> <<[Cmd(a1, eth, c1, 1, <<>>) EXCEPT !.sig.by = b1]>>,
           announcements |-> <<>>, limits |-> Gas(0, 1, 0)]

Overflow == [commands |-> <<Cmd(a1, eth, b1, 1, <<>>)>>,
             announcements |-> <<>>, limits |-> Gas(2, 1, 0)]

\* a1 pays b1, for the bundles that are sponsored.
Pay == [commands |-> <<Cmd(a1, eth, b1, 1, <<>>)>>, announcements |-> <<>>,
        limits |-> Gas(0, 1, 1)]

MoneyMeshes == {Pay, Overflow}
SpendMeshes == {Split, Both, PayBack, ToSelf, WrongTarget, Forged}
MCMeshes    == MoneyMeshes \cup SpendMeshes

-----------------------------------------------------------------------------
(* Sponsorship and competition for shards multiply without touching each   *)
(* other's state. The run follows both, each while the other rests.        *)

\* No deposit was made, nothing is signed and the clock stands.
NoMoney ==
    /\ quotes = {} /\ now = 0 /\ routerEther = 0
    /\ \A p \in Paymasters : deposited[p] = 0

\* Only the sponsored bundles have run: they spend a1 alone.
NoSpending ==
    /\ frame # NoFrame => frame.mesh \in MoneyMeshes
    /\ \A q \in quotes : q.mesh \in MoneyMeshes
    /\ isShardSpent \subseteq {a1}
    /\ \A x \in Accounts \ {a1} : delegation[x] = NoCode
    /\ \A x \in {a2, c1} : balance[eth][x] = InitialBalance[eth][x]

OneConcern == NoMoney \/ NoSpending

\* The paymasters are interchangeable.
PaymasterSymmetry == Permutations({p1, p2})
=============================================================================
