--------------------------- MODULE GhostTransfers ---------------------------
(***************************************************************************)
(* Transfers from end to end: a wallet selects shards, builds a bundle,    *)
(* takes its inputs and change into its store, has the bundle quoted and   *)
(* relayed, and settles what the router made of it, while other transfers  *)
(* of the same wallet and a background sync are under way; and deposits,   *)
(* which somebody pays into the wallet call by call.                       *)
(*                                                                         *)
(* Amounts are concrete here.  The awaits inside a sync are the matter of  *)
(* GhostClient, those inside the relayer of RelayQueue, the steps inside   *)
(* executeMesh of GhostRouter, and the allocation of CoinSelection: here   *)
(* each is one step, a selection being any that pays the amount and adds   *)
(* up to the balances.                                                     *)
(***************************************************************************)
EXTENDS TransferBuilder

CONSTANTS
    Transfers,    \* relayTransfer calls and deposits, numbered from 1
    Requests,     \* what they may be asked to do together: functions from Transfers
    FirstShards,  \* numbers of the shards the wallet starts with
    FirstAsset,   \* what each of them holds: type and value
    SenderTokens, \* ids that depositors hold
    MinPart,      \* the least that a selected shard pays
    MaxSplits     \* bound: outputs per shard and side

ASSUME TransfersAssumption ==
    /\ Requests \subseteq [Transfers -> [mode : {"public", "private", "deposit"},
                                        type : {"ERC20", "ERC721"}, value : Nat]]
    /\ FirstAsset \in [FirstShards -> [type : {"ERC20", "ERC721"}, value : Nat]]
    /\ SenderTokens \subseteq Nat
    /\ IsFiniteSet(Transfers) /\ IsFiniteSet(FirstShards)
    /\ MinPart \in Nat
    /\ MaxSplits \in 0..MaxRecipientPool /\ MaxRecipientPool > 0

VARIABLES
    request,      \* what each transfer is asked to do
    balance,      \* what every address holds on the chain
    ownerOf,      \* the holder of every token id
    isShardSpent, \* the router's flag
    announced,    \* announcements on the chain
    shardStore,   \* own address -> what it shows to hold, and its pending flag
    phase,        \* where each transfer stands
    inputs,       \* what the store showed of the shards it selected
    bundle,       \* its PreparedTransfer
    calls,        \* of a deposit: the calls that have not been made yet
    relayed       \* transactions in the order of their nonces

chain  == <<balance, ownerOf, isShardSpent, announced>>
wallet == <<request, inputs, bundle>>
vars   == <<chain, shardStore, wallet, phase, calls, relayed>>

Own == {Shard(n) : n \in FirstShards}
          \cup UNION {ChangePool(t) \cup DepositPool(t) : t \in Transfers}

Addresses == Own \cup {PublicRecipient} \cup UNION {RecipientPool(t) : t \in Transfers}

Sender == <<"sender", 0, 1>>

Amount(asset) == IF asset.type = "ERC721" THEN 0 ELSE asset.value
Ids(asset) == IF asset.type = "ERC721" THEN {asset.value} ELSE {}

Tokens == SenderTokens \cup UNION {Ids(FirstAsset[n]) : n \in FirstShards}

\* Tokens that are asked for exist.  A public transfer takes the id 0 for an
\* amount and pays nobody: it is left out.
ASSUME TokensAssumption ==
    \A wants \in Requests : \A t \in Transfers : wants[t].type = "ERC721" =>
        wants[t].value \in Tokens /\ (wants[t].mode = "public" => wants[t].value > 0)

NoBundle == [commands |-> {}, announcements |-> {}, changeShards |-> <<>>,
             shardAddresses |-> {}]

\* What a store entry shows.
Entry(asset) == [shown |-> Amount(asset), tokenIds |-> Ids(asset), pending |-> FALSE]

Init ==
    /\ request \in Requests
    /\ balance = [a \in Addresses |-> IF Kind(a) = "shard" THEN Amount(FirstAsset[a[3]]) ELSE 0]
    /\ ownerOf = [id \in Tokens |->
                     IF id \in SenderTokens THEN Sender
                     ELSE CHOOSE a \in Own : Kind(a) = "shard" /\ id \in Ids(FirstAsset[a[3]])]
    /\ isShardSpent = {}
    /\ announced = {[stealthAddress |-> Shard(n), type |-> FirstAsset[n].type,
                     value |-> FirstAsset[n].value] : n \in FirstShards}
    /\ shardStore = [a \in {Shard(n) : n \in FirstShards} |-> Entry(FirstAsset[a[3]])]
    /\ phase = [t \in Transfers |-> "new"]
    /\ inputs = [t \in Transfers |-> <<>>]
    /\ bundle = [t \in Transfers |-> NoBundle]
    /\ calls = [t \in Transfers |-> <<>>]
    /\ relayed = <<>>

-----------------------------------------------------------------------------
(* The store.                                                              *)

getUnspentForAsset(store, r) ==
    {a \in DOMAIN store : /\ ~store[a].pending
                          /\ IF r.type = "ERC721" THEN r.value \in store[a].tokenIds
                             ELSE store[a].shown > 0}

\* Adds what is not there yet; the first of two entries with one address stays.
add(store, address, entry) ==
    IF address \in DOMAIN store THEN store
    ELSE [a \in DOMAIN store \cup {address} |-> IF a = address THEN entry ELSE store[a]]

setPending(store, addresses, pending) ==
    [a \in DOMAIN store |->
        IF a \in addresses THEN [store[a] EXCEPT !.pending = pending] ELSE store[a]]

removeMany(store, addresses) == [a \in DOMAIN store \ addresses |-> store[a]]

-----------------------------------------------------------------------------
(* The router.                                                             *)

AmountOf(commands) == [c \in commands |-> Amount(c)]

Spends(b, shard) ==
    SumFunctionOnSet(AmountOf(b.commands), {c \in b.commands : c.shard = shard})

Receives(b, address) ==
    SumFunctionOnSet(AmountOf(b.commands), {c \in b.commands : c.to = address})

\* ShardAlreadySpent and CannotAnnounceSpentShard.
Unspent(b) ==
    /\ b.shardAddresses \cap isShardSpent = {}
    /\ \A ann \in b.announcements : ann.stealthAddress \notin isShardSpent

Funded(b) ==
    /\ \A shard \in b.shardAddresses : balance[shard] >= Spends(b, shard)
    /\ \A c \in b.commands : \A id \in Ids(c) : ownerOf[id] = c.shard

\* The inner call goes through: every signature is over its command and over
\* the announcements of the bundle, and every shard holds what it is to pay.
MeshSucceeds(b) ==
    /\ Unspent(b)
    /\ \A c \in b.commands : c.signature = SignedContent(c, b.announcements)
    /\ Funded(b)

-----------------------------------------------------------------------------
(* A transfer.                                                             *)

\* The ways to cut an amount into at most MaxSplits outputs.
Cuts(amount) ==
    IF amount = 0 THEN {<<>>}
    ELSE {cut \in UNION {[1..n -> 1..amount] : n \in 1..MaxSplits} :
              SumFunction(cut) = amount}

\* The one shard that shows the token pays it, without change.
selectERC721(store, r) ==
    {<<[shard |-> a, payment |-> <<r.value>>, change |-> <<>>]>> :
        a \in getUnspentForAsset(store, r)}

\* The rows a shard may get: its balance, split into payment and change.
Rows(shard, shown) ==
    UNION {{[shard |-> shard, payment |-> pay, change |-> keep] :
                pay \in Cuts(part), keep \in Cuts(shown - part)} : part \in MinPart..shown}

\* Any allotment of the amount to shards of the store, in any order.
Allotments(store, r) ==
    UNION {{selection \in [1..Len(order) -> UNION {Rows(a, store[a].shown) : a \in ToSet(order)}] :
               /\ \A i \in DOMAIN order : selection[i].shard = order[i]
               /\ r.value = SumFunction([i \in DOMAIN order |-> SumFunction(selection[i].payment)])} :
           order \in UNION {SetToSeqs(chosen) : chosen \in SUBSET getUnspentForAsset(store, r) \ {{}}}}

Selections(store, r) ==
    IF r.type = "ERC721" THEN selectERC721(store, r) ELSE Allotments(store, r)

\* selectCoins and prepareTransfer: the store is only read.
BuildTransaction(t) ==
    /\ phase[t] = "new" /\ request[t].mode # "deposit"
    /\ \E selection \in Selections(shardStore, request[t]) :
           \E draw \in Draws(t, request[t].mode, Outputs(request[t], selection)) :
               bundle' = [bundle EXCEPT ![t] = Prepared(request[t], draw, selection)]
    /\ inputs' = [inputs EXCEPT ![t] = [a \in bundle'[t].shardAddresses |-> shardStore[a]]]
    /\ phase' = [phase EXCEPT ![t] = "built"]
    /\ UNCHANGED <<request, chain, shardStore, calls, relayed>>

Change(amount) == Entry([type |-> "ERC20", value |-> amount])

\* Mutant: every change shard is stored with the whole change of the transfer.
WithTotalChange(store, t) ==
    LET changeAmount == SumFunction([k \in DOMAIN bundle[t].changeShards |->
                                        bundle[t].changeShards[k].amount])
    IN  FoldLeft(LAMBDA s, out : add(s, out.address, Change(changeAmount)), store,
                 bundle[t].changeShards)

\* Every change shard is added, in the order of the outputs.
WithChange(store, t) ==
    FoldLeft(LAMBDA s, out : add(s, out.address, Change(out.amount)), store,
             bundle[t].changeShards)

ConfirmPrepared(t) ==
    /\ phase[t] = "built"
    /\ phase' = [phase EXCEPT ![t] = "prepared"]
    /\ shardStore' = WithChange(setPending(shardStore, bundle[t].shardAddresses, TRUE), t)
    /\ UNCHANGED <<chain, wallet, calls, relayed>>

\* The paymaster signs only what its simulation lets through.
QuoteArrives(t) ==
    /\ phase[t] = "prepared"
    /\ MeshSucceeds(bundle[t])
    /\ phase' = [phase EXCEPT ![t] = "quoted"]
    /\ UNCHANGED <<chain, shardStore, wallet, calls, relayed>>

\* The relayer broadcasts first come, first served.
RelayAccepts(t) ==
    /\ phase[t] = "quoted"
    /\ phase' = [phase EXCEPT ![t] = "sent"]
    /\ relayed' = Append(relayed, t)
    /\ UNCHANGED <<chain, shardStore, wallet, calls>>

\* Paymaster or relayer refuse or do not answer: relayTransfer throws, and the
\* inputs stay pending.
RelayTransferThrows(t) ==
    /\ phase[t] \in {"prepared", "quoted"}
    /\ phase' = [phase EXCEPT ![t] = "thrown"]
    /\ UNCHANGED <<chain, shardStore, wallet, calls, relayed>>

MeshExecuted(t) ==
    /\ balance' = [a \in Addresses |-> balance[a] + Receives(bundle[t], a) - Spends(bundle[t], a)]
    /\ ownerOf' = [id \in Tokens |->
                      IF \E c \in bundle[t].commands : id \in Ids(c)
                      THEN (CHOOSE c \in bundle[t].commands : id \in Ids(c)).to
                      ELSE ownerOf[id]]
    /\ isShardSpent' = isShardSpent \cup {c.shard : c \in bundle[t].commands}
    /\ announced' = announced \cup bundle[t].announcements

\* The next transaction of the relayer is mined; a failed inner call undoes
\* all of it.
Mine ==
    /\ relayed # <<>>
    /\ LET t == Head(relayed)
       IN  IF MeshSucceeds(bundle[t])
           THEN MeshExecuted(t) /\ phase' = [phase EXCEPT ![t] = "succeeded"]
           ELSE UNCHANGED chain /\ phase' = [phase EXCEPT ![t] = "failed"]
    /\ relayed' = Tail(relayed)
    /\ UNCHANGED <<shardStore, wallet, calls>>

\* wait() sees the receipt of a success.
ConfirmTransaction(t) ==
    /\ phase[t] = "succeeded"
    /\ phase' = [phase EXCEPT ![t] = "confirmed"]
    /\ shardStore' = removeMany(shardStore, bundle[t].shardAddresses)
    /\ UNCHANGED <<chain, wallet, calls, relayed>>

\* wait() sees that the inner call failed; no change address is given.
ConfirmFailed(t) ==
    /\ phase[t] = "failed"
    /\ phase' = [phase EXCEPT ![t] = "returned"]
    /\ shardStore' = setPending(shardStore, bundle[t].shardAddresses, FALSE)
    /\ UNCHANGED <<chain, wallet, calls, relayed>>

-----------------------------------------------------------------------------
(* A deposit into this wallet.                                             *)

\* preparePrivateDeposit.
PrepareDeposit(t) ==
    /\ phase[t] = "new" /\ request[t].mode = "deposit"
    /\ \E parts \in IF request[t].type = "ERC721" THEN {<<request[t].value>>}
                     ELSE Cuts(request[t].value) :
           \E batch \in DepositCalls(t, request[t], parts) : calls' = [calls EXCEPT ![t] = batch]
    /\ phase' = [phase EXCEPT ![t] = "depositing"]
    /\ UNCHANGED <<chain, shardStore, wallet, relayed>>

\* The depositor's account makes the next call: one by one, if it cannot batch.
CallMined(t) ==
    LET call == Head(calls[t])
    IN  /\ calls[t] # <<>>
        /\ \/ /\ call.is = "transfer"
              /\ \A id \in Ids(call) : ownerOf[id] = Sender
              /\ balance' = [balance EXCEPT ![call.to] = @ + Amount(call)]
              /\ ownerOf' = [id \in Tokens |-> IF id \in Ids(call) THEN call.to ELSE ownerOf[id]]
              /\ UNCHANGED announced
           \/ /\ call.is = "announce"
              /\ announced' = announced \cup {[stealthAddress |-> call.to, type |-> call.type,
                                               value |-> call.value]}
              /\ UNCHANGED <<balance, ownerOf>>
        /\ calls' = [calls EXCEPT ![t] = Tail(@)]
        /\ phase' = [phase EXCEPT ![t] = IF Len(calls[t]) = 1 THEN "deposited" ELSE @]
        /\ UNCHANGED <<isShardSpent, shardStore, wallet, relayed>>

-----------------------------------------------------------------------------
(* A sync of the whole chain.                                              *)

\* What an address holds on the chain, of what its entry shows.
OnChain(a, entry) ==
    [entry EXCEPT !.shown = balance[a], !.tokenIds = {id \in @ : ownerOf[id] = a}]

\* Mutant: a balance is never corrected upwards.
VerifiedDown(store) ==
    [a \in DOMAIN store |-> IF store[a].pending \/ store[a].shown < balance[a] THEN store[a]
                            ELSE OnChain(a, store[a])]

\* What is not pending shows what the chain says.
Verified(store) ==
    [a \in DOMAIN store |-> IF store[a].pending THEN store[a] ELSE OnChain(a, store[a])]

SyncWithChain ==
    LET found  == FoldSet(LAMBDA ann, s : add(s, ann.stealthAddress, Entry(ann)), shardStore,
                          {ann \in announced : ann.stealthAddress \in Own})
        active == {a \in DOMAIN found : ~found[a].pending}
    IN  /\ shardStore' = Verified(removeMany(found, active \cap isShardSpent))
        /\ UNCHANGED <<chain, wallet, phase, calls, relayed>>

-----------------------------------------------------------------------------
TransferStep(t) ==
    \/ BuildTransaction(t) \/ ConfirmPrepared(t)
    \/ QuoteArrives(t) \/ RelayAccepts(t) \/ RelayTransferThrows(t)
    \/ ConfirmTransaction(t) \/ ConfirmFailed(t)

DepositStep(t) == PrepareDeposit(t) \/ CallMined(t)

Next == Mine \/ SyncWithChain \/ \E t \in Transfers : TransferStep(t) \/ DepositStep(t)

Spec == Init /\ [][Next]_vars

-----------------------------------------------------------------------------
(* Properties.                                                             *)

TypeOK ==
    /\ balance \in [Addresses -> Nat]
    /\ isShardSpent \subseteq Own
    /\ ownerOf \in [Tokens -> Addresses \cup {Sender}]
    /\ \A ann \in announced : ann.stealthAddress \in Addresses /\ ann.value \in Nat
    /\ DOMAIN shardStore \subseteq Own
    /\ \A a \in DOMAIN shardStore :
          shardStore[a] \in [shown : Nat, tokenIds : SUBSET Tokens, pending : BOOLEAN]
    /\ request \in Requests
    /\ phase \in [Transfers -> {"new", "built", "prepared", "quoted", "thrown", "sent",
                               "succeeded", "failed", "confirmed", "returned",
                               "depositing", "deposited"}]
    /\ ToSet(relayed) \subseteq Transfers

Succeeded(t) == phase[t] \in {"succeeded", "confirmed"}

\* A bundle is as good as its inputs: as long as these are unspent and hold
\* what was selected on them, the router takes it, whatever was drawn, fused
\* and shared between its outputs.
BundlesExecute ==
    \A t \in Transfers :
        /\ phase[t] # "new" /\ ~Succeeded(t)
        /\ \A a \in DOMAIN inputs[t] :
              /\ a \notin isShardSpent /\ balance[a] >= inputs[t][a].shown
              /\ \A id \in inputs[t][a].tokenIds : ownerOf[id] = a
        => MeshSucceeds(bundle[t])

Asks(t, mode, type) == request[t].mode = mode /\ request[t].type = type

Value(t) == request[t].value

\* A recipient of a successful transfer holds the amount or the token of the
\* request, over all addresses that were drawn; and a transfer that did not
\* succeed, or competed with another one for a shard, has paid nothing.  A deposit
\* has paid its amount when its calls have been made.
PaidExactly ==
    /\ \A t \in Transfers :
          /\ Asks(t, "private", "ERC20") =>
                SumFunctionOnSet(balance, RecipientPool(t)) = IF Succeeded(t) THEN Value(t) ELSE 0
          /\ Asks(t, "private", "ERC721") =>
                (ownerOf[Value(t)] \in RecipientPool(t) <=> Succeeded(t))
          /\ Asks(t, "public", "ERC721") /\ Succeeded(t) => ownerOf[Value(t)] = PublicRecipient
          /\ phase[t] = "deposited" /\ DepositPool(t) \cap isShardSpent = {} =>
                IF request[t].type = "ERC721" THEN ownerOf[Value(t)] \in DepositPool(t)
                ELSE SumFunctionOnSet(balance, DepositPool(t)) = Value(t)
    /\ balance[PublicRecipient] =
           SumFunctionOnSet([t \in Transfers |-> Value(t)],
                            {t \in Transfers : Asks(t, "public", "ERC20") /\ Succeeded(t)})

Holds(a) == balance[a] > 0 \/ \E id \in Tokens : ownerOf[id] = a

\* Whatever arrives at a stealth address can be found by its owner: it was
\* announced, and once only, or the call that will announce it is still to come.
FundsAreAnnounced ==
    \A a \in Addresses : Stealth(a) /\ Holds(a) =>
        \/ Cardinality({ann \in announced : ann.stealthAddress = a}) = 1
        \/ \E t \in Transfers : \E k \in DOMAIN calls[t] :
              calls[t][k].is = "announce" /\ calls[t][k].to = a

\* The store never promises more than the chain holds: what it shows for the
\* change of a transfer that succeeded is there.
ChangeIsBacked ==
    \A t \in Transfers : Succeeded(t) =>
        \A a \in ChangePool(t) \cap DOMAIN shardStore :
            a \notin isShardSpent => shardStore[a].shown <= balance[a]

\* A sync puts the store right whatever transfers did to it before: every
\* unspent shard with announced funds is there and shows its balance and its
\* tokens, unless a transfer holds it back, and no spent shard is offered.
StoreIsRight ==
    \A a \in Own :
        /\ /\ a \notin isShardSpent /\ Holds(a)
           /\ \E ann \in announced : ann.stealthAddress = a
           => /\ a \in DOMAIN shardStore
              /\ \/ shardStore[a].pending
                 \/ /\ shardStore[a].shown = balance[a]
                    /\ shardStore[a].tokenIds = {id \in Tokens : ownerOf[id] = a}
        /\ a \in isShardSpent /\ a \in DOMAIN shardStore => shardStore[a].pending

SyncPutsRight == [][SyncWithChain => StoreIsRight']_vars

\* A spent shard is retired and holds nothing any more.
NothingStranded == \A a \in isShardSpent : ~Holds(a)
=============================================================================
