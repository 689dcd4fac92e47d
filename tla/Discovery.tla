------------------------------ MODULE Discovery ------------------------------
(***************************************************************************)
(* How a payment reaches the wallet it was made to: the sender derives a   *)
(* stealth address and announces it (StealthKeys, Announcements), and the  *)
(* recipient's syncs find it among everybody's announcements and read its  *)
(* balance (index.ts: processAnnouncements, syncWithChain,                 *)
(* verifyShardBalances; multicall.ts).                                     *)
(*                                                                         *)
(* startAutoSync begins a sync whether or not the last has ended, so syncs *)
(* overlap at every await and write to the same objects of the store.      *)
(* Failing saves, rollbacks and reloads are the subject of GhostClient;    *)
(* here a save is only an await.                                           *)
(***************************************************************************)
EXTENDS Announcements

CONSTANTS
    Keys,        \* the key set of this wallet
    Payments,    \* what this software pays to anybody, once each
    OtherLogs,   \* what other software had announced before, in order
    DrawsOf,     \* the ephemeral keys that may be drawn for a payment
    Ivs,         \* first bytes that an IV may have
    Syncs,       \* syncWithChain calls that may overlap
    ChunkSize,   \* MULTICALL_CHUNK_SIZE
    MaxAmount,   \* bound: a balance
    MaxEvents    \* bound: unannounced changes of a balance and failed multicalls

\* A payment: to whom, of what, and whether its announcement tells the shared
\* secret's tag, the asset, and the sender.
ASSUME DiscoveryAssumption ==
    /\ Keys \in KeySet
    /\ \A p \in Payments :
          /\ p # Nothing /\ p.to \in KeySet
          /\ p.asset.type \in AssetTypes /\ p.asset # Nothing
          /\ p.asset = AssetInfo(p.asset.type, p.asset.tokenAddress, p.asset.identifier)
          /\ p.tells \in {"nothing", "tag", "asset"}
          /\ p.sender # Thrown /\ (p.sender = Nothing \/ p.sender.length \in Nat)
    /\ OtherLogs \in Seq(Range(OtherLogs))
    /\ DrawsOf \in [Payments -> SUBSET Words]
    /\ ChunkSize \in Nat \ {0}
    /\ MaxAmount \in Nat /\ MaxEvents \in Nat

\* The address that this wallet computes from an ephemeral key.
ComputedAddress(ephemeralPubKey) ==
    computeStealthAddress(spendingPublicKey(Keys),
                          computeSharedSecret(Keys.viewingPrivateKey, ephemeralPubKey))

\* Hashes do not collide: two keys give one address only when ECDH cannot tell
\* them apart.
ASSUME CollisionAssumption ==
    \A p, q \in PublicKeys :
        ComputedAddress(p) = ComputedAddress(q) /\ ComputedAddress(p) # Thrown
            => Coordinate(p) = Coordinate(q)

VARIABLES
    chain,           \* the announcements, one per block, each with its payment
    holding,         \* what is left of each payment at its address
    isShardSpent,    \* the blocks whose stealth address the router has retired
    shards,          \* ShardStore: the shards in their order
    lastSyncedBlock, \* ShardStore: the cursor
    syncPc,          \* the await at which a sync stands, or "idle"
    startCursor,     \* the first block it asked logs of
    upTo,            \* the last block of the logs it was given
    checking,        \* the addresses whose spent flag it asked for
    calls,           \* its verification batch
    answers,         \* what the node answered to each chunk of the batch
    live,            \* addresses whose store objects the batch refers to
    deadTokens,      \* calls whose token belongs to somebody else
    events           \* balance changes and failures so far

world  == <<chain, holding, isShardSpent>>
store  == <<shards, lastSyncedBlock>>
locals == <<startCursor, upTo, checking>>
batch  == <<calls, answers, live, deadTokens>>
vars   == <<world, store, syncPc, locals, batch, events>>

Init ==
    /\ chain = [i \in DOMAIN OtherLogs |-> [log |-> OtherLogs[i], payment |-> Nothing]]
    /\ holding = [i \in DOMAIN OtherLogs |-> 0]
    /\ isShardSpent = {}
    /\ shards = <<>> /\ lastSyncedBlock = 0
    /\ syncPc = [s \in Syncs |-> "idle"]
    /\ startCursor = [s \in Syncs |-> 0]
    /\ upTo = [s \in Syncs |-> 0]
    /\ checking = [s \in Syncs |-> {}]
    /\ calls = [s \in Syncs |-> <<>>]
    /\ answers = [s \in Syncs |-> <<>>]
    /\ live = [s \in Syncs |-> {}]
    /\ deadTokens = [s \in Syncs |-> {}]
    /\ events = 0

-----------------------------------------------------------------------------
(* The chain.  A bundle pays an address and announces it in one            *)
(* transaction; every block announces something.                           *)

\* A meta-address is handed over, or looked up in the registry.
MetaAddressesOf(keys) ==
    {encodeMetaAddress(keys), lookupMetaAddress(registerKeys(encodeMetaAddress(keys)))}

\* Random keys and the addresses they give do not repeat.
Fresh(ephemeral, address) ==
    \A i \in DOMAIN chain :
        /\ Coordinate(chain[i].log.ephemeralPubKey) # Coordinate(PublicKey(ephemeral))
        /\ chain[i].log.stealthAddress # address

Pay(p, metaAddress, ephemeral, iv) ==
    LET stealth == generateStealthAddress(metaAddress, ephemeral)
        log == prepareAnnounceTransfer(
                   stealth, p.tells # "nothing",
                   IF p.tells = "asset" THEN p.asset ELSE Nothing, p.sender, iv)
    IN  /\ \A i \in DOMAIN chain : chain[i].payment # p
        /\ stealth # Thrown
        /\ Fresh(ephemeral, stealth.stealthAddress)
        /\ chain' = Append(chain, [log |-> log, payment |-> p])
        /\ holding' = Append(holding, IF p.asset.type = "ERC721" THEN 1
                                      ELSE p.asset.identifier)
        /\ UNCHANGED <<isShardSpent, store, syncPc, locals, batch, events>>

\* One of the events that are bounded.
Event == events < MaxEvents /\ events' = events + 1

Paid == {i \in DOMAIN chain : chain[i].payment # Nothing}
Mine == {i \in Paid : chain[i].payment.to = Keys}

AddressOf(i) == chain[i].log.stealthAddress

\* A balance changes without an announcement: somebody adds ether to an address
\* it knows, or its owner moves assets with the derived key.  A token that has
\* left does not come back.
Move(i, amount) ==
    /\ Event
    /\ i \in Paid \ isShardSpent
    /\ chain[i].payment.asset.type = "ERC721" => amount < holding[i]
    /\ holding' = [holding EXCEPT ![i] = amount]
    /\ UNCHANGED <<chain, isShardSpent, store, syncPc, locals, batch>>

\* A bundle of this wallet, sent from elsewhere, spends the shard.
Spend(i) ==
    /\ Event
    /\ i \in Mine \ isShardSpent
    /\ isShardSpent' = isShardSpent \cup {i}
    /\ holding' = [holding EXCEPT ![i] = 0]
    /\ UNCHANGED <<chain, store, syncPc, locals, batch>>

\* Payments of an asset at an address.
At(address, asset) ==
    {i \in Paid : /\ AddressOf(i) = address
                  /\ chain[i].payment.asset.type = asset.type
                  /\ chain[i].payment.asset.tokenAddress = asset.tokenAddress}

balanceOf(address, asset) == MapThenSumSet(LAMBDA i : holding[i], At(address, asset))

isOwner(address, asset, tokenId) ==
    \E i \in At(address, asset) :
        chain[i].payment.asset.identifier = tokenId /\ holding[i] = 1

-----------------------------------------------------------------------------
(* multicall.ts: one call for each balance, one for each token.            *)

CallsOfAsset(address, assetIndex, asset) ==
    LET call == [address |-> address, assetIndex |-> assetIndex, asset |-> asset,
                 tokenIdIndex |-> Nothing]
    IN  IF asset.type = "ERC721"
        THEN [ti \in DOMAIN asset.tokenIds |-> [call EXCEPT !.tokenIdIndex = ti]]
        ELSE <<call>>

CallsOfShard(shard) ==
    FlattenSeq([ai \in DOMAIN shard.assets |->
                   CallsOfAsset(shard.address, ai, shard.assets[ai])])

buildBalanceVerificationBatch(inventory) ==
    FlattenSeq([si \in DOMAIN inventory |-> CallsOfShard(inventory[si])])

\* What the chain answers to a call.
Answer(call) ==
    IF call.asset.type = "ERC721"
    THEN isOwner(call.address, call.asset, call.asset.tokenIds[call.tokenIdIndex])
    ELSE balanceOf(call.address, call.asset)

\* A chunk of a batch, and what is known of its answer.
Asked == [is |-> "asked", values |-> <<>>]
Done  == [is |-> "done", values |-> <<>>]

Chunk(s, c) ==
    {k \in DOMAIN calls[s] : (c - 1) * ChunkSize < k /\ k <= c * ChunkSize}

-----------------------------------------------------------------------------
(* syncWithChain().                                                        *)

Addresses == {shards[k].address : k \in DOMAIN shards}

Goto(s, pc) == syncPc' = [syncPc EXCEPT ![s] = pc]

SyncBegins(s, fromStart) ==
    /\ syncPc[s] = "idle"
    /\ Goto(s, "logs")
    /\ startCursor' = [startCursor EXCEPT ![s] = IF fromStart THEN 0 ELSE lastSyncedBlock]
    /\ UNCHANGED <<world, store, upTo, checking, batch, events>>

\* The node answers from the cursor's block to the latest.
LogsArrive(s) ==
    /\ syncPc[s] = "logs"
    /\ Goto(s, "decrypt")
    /\ upTo' = [upTo EXCEPT ![s] = Len(chain)]
    /\ UNCHANGED <<world, store, startCursor, checking, batch, events>>

Logs(s) ==
    LET blocks == SubSeq(chain, IF startCursor[s] = 0 THEN 1 ELSE startCursor[s], upTo[s])
    IN  [i \in DOMAIN blocks |-> blocks[i].log]

\* A shard that is there already is left as it is.
add(inventory, shard) ==
    IF \E k \in DOMAIN inventory : inventory[k].address = shard.address THEN inventory
    ELSE Append(inventory,
                [address |-> shard.address, ephemeralPubKey |-> shard.ephemeralPubKey,
                 assets |-> shard.assets])

Decrypted(s) ==
    /\ syncPc[s] = "decrypt"
    /\ Goto(s, "saveDiscovered")
    /\ shards' = FoldLeft(add, shards, processAnnouncements(Logs(s), Keys))
    /\ UNCHANGED <<world, lastSyncedBlock, locals, batch, events>>

\* Mutant: the cursor moves to the latest block instead of the latest one seen.
highestBlockNow(s) == Len(chain)

highestProcessedBlock(s) == upTo[s]

\* The sync ends, after a last save.
Ends(s) ==
    /\ Goto(s, "idle")
    /\ calls' = [calls EXCEPT ![s] = <<>>]
    /\ answers' = [answers EXCEPT ![s] = <<>>]
    /\ live' = [live EXCEPT ![s] = {}]
    /\ deadTokens' = [deadTokens EXCEPT ![s] = {}]

\* The cursor moves, and the spent flags of what the store holds are asked for.
\* The logs are not needed any more.
CursorMoves(s) ==
    /\ syncPc[s] = "saveDiscovered"
    /\ lastSyncedBlock' = highestProcessedBlock(s)
    /\ checking' = [checking EXCEPT ![s] = Addresses]
    /\ \/ Addresses # {} /\ Goto(s, "spent") /\ UNCHANGED batch
       \/ Addresses = {} /\ Ends(s)
    /\ startCursor' = [startCursor EXCEPT ![s] = 0]
    /\ upTo' = [upTo EXCEPT ![s] = 0]
    /\ UNCHANGED <<world, shards, events>>

\* verifyShardBalances() asks for everything the store shows; what no asset is
\* known of is not asked for.
Verify(s) ==
    LET asked == buildBalanceVerificationBatch(shards)
        chunks == (Len(asked) + ChunkSize - 1) \div ChunkSize
    IN  /\ \/ /\ asked # <<>>
              /\ Goto(s, "balances")
              /\ calls' = [calls EXCEPT ![s] = asked]
              /\ answers' = [answers EXCEPT ![s] = [c \in 1..chunks |-> Asked]]
              /\ live' = [live EXCEPT ![s] = Addresses]
              /\ deadTokens' = deadTokens
           \/ asked = <<>> /\ Ends(s)
        /\ checking' = [checking EXCEPT ![s] = {}]
        /\ UNCHANGED <<startCursor, upTo>>

SpentAmong(s) == checking[s] \cap {AddressOf(i) : i \in isShardSpent}

Detached(gone) == [t \in Syncs |-> live[t] \ gone]

\* The spent shards leave the store, with the objects that a batch refers to.
SpentRemoved(s) ==
    /\ syncPc[s] = "spent"
    /\ SpentAmong(s) # {}
    /\ shards' = FlattenSeq([n \in DOMAIN shards |->
                     IF shards[n].address \in SpentAmong(s) THEN <<>> ELSE <<shards[n]>>])
    /\ live' = Detached(SpentAmong(s))
    /\ Goto(s, "saveSpent")
    /\ UNCHANGED <<world, lastSyncedBlock, locals, calls, answers, deadTokens, events>>

NoneSpent(s) ==
    /\ syncPc[s] = "spent"
    /\ SpentAmong(s) = {}
    /\ Verify(s)
    /\ UNCHANGED <<world, store, events>>

\* A failed multicall leaves every shard unspent.
SpentFails(s) ==
    /\ syncPc[s] = "spent"
    /\ Event
    /\ Verify(s)
    /\ UNCHANGED <<world, store>>

SpentSaved(s) ==
    /\ syncPc[s] = "saveSpent"
    /\ Verify(s)
    /\ UNCHANGED <<world, store, events>>

\* The node answers a chunk, on the chain of that moment.
NodeAnswers(s, c) ==
    /\ syncPc[s] = "balances"
    /\ answers[s][c] = Asked
    /\ answers' = [answers EXCEPT ![s][c] =
           [is |-> "answered", values |-> [k \in Chunk(s, c) |-> Answer(calls[s][k])]]]
    /\ UNCHANGED <<world, store, syncPc, locals, calls, live, deadTokens, events>>

\* Mutant: a token is dropped when nobody could be asked for its owner.
ChunkFailsDead(s, c) ==
    /\ syncPc[s] = "balances"
    /\ answers[s][c] = Asked
    /\ Event
    /\ answers' = [answers EXCEPT ![s][c] = Done]
    /\ deadTokens' = [deadTokens EXCEPT
          ![s] = @ \cup {k \in Chunk(s, c) : calls[s][k].tokenIdIndex # Nothing}]
    /\ UNCHANGED <<world, store, syncPc, locals, calls, live>>

\* A chunk that fails changes nothing.
ChunkFails(s, c) ==
    /\ syncPc[s] = "balances"
    /\ answers[s][c] = Asked
    /\ Event
    /\ answers' = [answers EXCEPT ![s][c] = Done]
    /\ UNCHANGED <<world, store, syncPc, locals, calls, live, deadTokens>>

\* A chunk's answers arrive: balances are written into the objects at once,
\* tokens of other owners are remembered until all chunks have arrived.
ChunkArrives(s, c) ==
    LET answer == answers[s][c].values
        For(address, ai) == {k \in DOMAIN answer :
                                /\ calls[s][k].address = address
                                /\ calls[s][k].assetIndex = ai
                                /\ calls[s][k].tokenIdIndex = Nothing}
        Written(shard) ==
            [ai \in DOMAIN shard.assets |->
                IF shard.address \in live[s] /\ For(shard.address, ai) # {}
                THEN [shard.assets[ai] EXCEPT
                        !.balance = answer[CHOOSE k \in For(shard.address, ai) : TRUE]]
                ELSE shard.assets[ai]]
    IN  /\ syncPc[s] = "balances"
        /\ answers[s][c].is = "answered"
        /\ shards' = [n \in DOMAIN shards |-> [shards[n] EXCEPT !.assets = Written(shards[n])]]
        /\ deadTokens' = [deadTokens EXCEPT
              ![s] = @ \cup {k \in DOMAIN answer : /\ calls[s][k].tokenIdIndex # Nothing
                                                   /\ ~answer[k]}]
        /\ answers' = [answers EXCEPT ![s][c] = Done]
        /\ UNCHANGED <<world, lastSyncedBlock, syncPc, locals, calls, live, events>>

\* The positions that are spliced out of an asset, the last one first.
Dead(s, address, ai) ==
    {calls[s][k].tokenIdIndex : k \in {j \in deadTokens[s] :
        calls[s][j].address = address /\ calls[s][j].assetIndex = ai}}

\* Mutant: nothing is spliced out.
RemainingAll(tokenIds, dead) == tokenIds

Remaining(tokenIds, dead) ==
    FlattenSeq([n \in DOMAIN tokenIds |-> IF n \in dead THEN <<>> ELSE <<tokenIds[n]>>])

Spliced(s, shard) ==
    [ai \in DOMAIN shard.assets |->
        [shard.assets[ai] EXCEPT
            !.tokenIds = IF shard.address \in live[s]
                         THEN Remaining(@, Dead(s, shard.address, ai)) ELSE @]]

VerificationEnds(s) ==
    /\ syncPc[s] = "balances"
    /\ \A c \in DOMAIN answers[s] : answers[s][c] = Done
    /\ shards' = [n \in DOMAIN shards |-> [shards[n] EXCEPT !.assets = Spliced(s, shards[n])]]
    /\ Ends(s)
    /\ UNCHANGED <<world, lastSyncedBlock, locals, events>>

-----------------------------------------------------------------------------
ChainStep ==
    \/ \E p \in Payments, iv \in Ivs :
          \E metaAddress \in MetaAddressesOf(p.to), e \in DrawsOf[p] : Pay(p, metaAddress, e, iv)
    \/ \E i \in DOMAIN chain : Spend(i) \/ \E amount \in 0..MaxAmount : Move(i, amount)

SyncStep(s) ==
    \/ \E fromStart \in BOOLEAN : SyncBegins(s, fromStart)
    \/ LogsArrive(s) \/ Decrypted(s) \/ CursorMoves(s)
    \/ SpentRemoved(s) \/ NoneSpent(s) \/ SpentFails(s) \/ SpentSaved(s)
    \/ \E c \in DOMAIN answers[s] :
          NodeAnswers(s, c) \/ ChunkFails(s, c) \/ ChunkArrives(s, c)
    \/ VerificationEnds(s)

Next == ChainStep \/ \E s \in Syncs : SyncStep(s)

Spec == Init /\ [][Next]_vars

\* startAutoSync starts one sync after another, and every await of a sync ends:
\* weak fairness of SyncStep(s), some disjunct of which is always enabled.
FairSpec == Spec /\ \A s \in Syncs : []<><<SyncStep(s)>>_vars

-----------------------------------------------------------------------------
(* Properties.                                                             *)

TypeOK ==
    /\ Len(holding) = Len(chain)
    /\ \A i \in DOMAIN holding : holding[i] \in 0..MaxAmount
    /\ isShardSpent \subseteq Mine
    /\ \A n \in DOMAIN shards :
          /\ shards[n].address \in Points /\ shards[n].ephemeralPubKey \in Points
          /\ \A ai \in DOMAIN shards[n].assets :
                shards[n].assets[ai].type \in AssetTypes
    /\ lastSyncedBlock \in 0..Len(chain)
    /\ syncPc \in [Syncs -> {"idle", "logs", "decrypt", "saveDiscovered", "spent",
                             "saveSpent", "balances"}]
    /\ startCursor \in [Syncs -> 0..Len(chain)]
    /\ upTo \in [Syncs -> 0..Len(chain)]
    /\ live \in [Syncs -> SUBSET Addresses]
    /\ \A s \in Syncs : deadTokens[s] \subseteq DOMAIN calls[s]
    /\ events \in 0..MaxEvents

\* No payment to this wallet is overlooked: once the cursor has passed its block
\* it is in the store, at the address that was paid, until it has been spent.
PaymentsFound ==
    \A i \in Mine \ isShardSpent : i <= lastSyncedBlock => AddressOf(i) \in Addresses

\* The recipient reads what the sender wrote: the address that was paid, the
\* asset, and who sent it, whatever was told and by whomever the announcement is
\* surrounded.  (One IV in 256 hides a sender of more than 26 bytes, see
\* headerOffset.)
MetadataArrives ==
    \A i \in Mine :
        LET p == chain[i].payment
            shard == Discovered(parseLog(chain[i].log)[1], Keys)
            found == shard[1]
            secret == computeSharedSecret(Keys.viewingPrivateKey, found.ephemeralPubKey)
        IN  /\ shard # <<>>
            /\ found.address = AddressOf(i)
            /\ p.tells = "asset" =>
                  /\ Len(found.assets) = 1
                  /\ found.assets[1].type = p.asset.type
                  /\ found.assets[1].tokenAddress = p.asset.tokenAddress
                  /\ p.asset.identifier = IF p.asset.type = "ERC721"
                                          THEN found.assets[1].tokenIds[1]
                                          ELSE found.assets[1].balance
                  /\ p.sender # Nothing =>
                        \/ found.senderInfo = p.sender
                        \/ chain[i].log.metadata.encrypted.iv = ViewTag(secret)

\* Every shard of the store can be spent: the key derived from its ephemeral key
\* is the key of its address, also for an announcement that only looks as if it
\* were for this wallet.
ShardKeysOpen ==
    \A n \in DOMAIN shards :
        LET secret == computeSharedSecret(Keys.viewingPrivateKey, shards[n].ephemeralPubKey)
        IN  PublicKey(deriveShardPrivateKey(Keys, secret)) = shards[n].address

\* A token that the wallet owns is never dropped from its shard.
OwnedTokensStay ==
    \A i \in Mine : \A n \in DOMAIN shards :
        LET p == chain[i].payment
        IN  (/\ p.tells = "asset" /\ p.asset.type = "ERC721" /\ holding[i] = 1
             /\ shards[n].address = AddressOf(i))
            => p.asset.identifier \in Range(shards[n].assets[1].tokenIds)

ShowsTruth(shard) ==
    \A ai \in DOMAIN shard.assets :
        LET asset == shard.assets[ai]
        IN  IF asset.type = "ERC721"
            THEN \A ti \in DOMAIN asset.tokenIds :
                    isOwner(shard.address, asset, asset.tokenIds[ti])
            ELSE asset.balance = balanceOf(shard.address, asset)

\* When the chain rests, the wallet comes to show it as it is: every payment that
\* has not been spent, and every shard with the balance it has, however stale an
\* answer was that arrived late.  (A spent shard may be found again in the last
\* block by every sync, and is then dropped again: GhostClient.)
WalletShowsChain ==
    LET Gone == {AddressOf(i) : i \in isShardSpent}
    IN  <>[](/\ \A n \in DOMAIN shards :
                   shards[n].address \in Gone \/ ShowsTruth(shards[n])
             /\ \A i \in Mine \ isShardSpent : AddressOf(i) \in Addresses)
=============================================================================
