------------------------------- MODULE Session -------------------------------
(***************************************************************************)
(* The browser application (examples/ghost-frontend): a React context that *)
(* creates a GhostClient for the connected account, shows its shards, and  *)
(* syncs it every 15 seconds, over one slot of local storage that all      *)
(* accounts share.  Whatever is under way survives a disconnect: a sync, a *)
(* transfer or a signature request of an earlier session goes on with the  *)
(* client of its closure, saves into the same slot and sets the shards     *)
(* that are shown.                                                         *)
(*                                                                         *)
(* A sync is that of GhostClient with the pipeline that follows its log    *)
(* query as one step, and its last save as another.                        *)
(***************************************************************************)
EXTENDS Integers, FiniteSetsExt

CONSTANTS
    Accounts,    \* accounts of the browser's wallet
    Shards,      \* stealth addresses
    OwnerOf,     \* the account a shard was sent to
    AssetOf,     \* what it holds
    Early,       \* those announced before the page is opened for the first time
    MaxClients,  \* bound: GhostClient objects alive at a time
    Syncs,       \* syncWithChain calls that may overlap
    MaxSends,    \* bound: transfers
    Nobody       \* no account, and no filter; no client is 0

AssetTypes == {"NATIVE", "ERC20", "ERC721"}

ASSUME SessionAssumption ==
    /\ OwnerOf \in [Shards -> Accounts] /\ Early \subseteq Shards
    /\ \A x \in Shards : AssetOf[x].type \in AssetTypes /\ AssetOf[x].balance \in Nat
    /\ Nobody \notin Accounts
    /\ MaxClients \in Nat /\ MaxSends \in Nat

Clients == 1..MaxClients
NoClient == 0

PersistedState == [shards : SUBSET Shards, pending : SUBSET Shards, lastSyncedBlock : Nat]

EmptyState == [shards |-> {}, pending |-> {}, lastSyncedBlock |-> 0]

VARIABLES
    announcedAt,  \* the block that announced a shard, 0 if none did
    height,       \* the latest block
    isShardSpent, \* the router's flag
    owner,        \* the account whose signature gave a client its keys
    shardStore,   \* the store of each client
    storage,      \* the slot of local storage: its content and whose key opens it
    initializing, \* clients whose init() is under way
    ghost,        \* React state: the client, set together with isInitialized
    shards,       \* React state: the shards that are shown
    interval,     \* the client in the closure that the interval timer calls
    sync,         \* each running syncWithChain
    send,         \* the running relayTransfer, one at a time
    sends         \* how many there have been

chain   == <<announcedAt, height, isShardSpent>>
wallets == <<owner, shardStore>>
page    == <<initializing, ghost, shards, interval>>
transfer == <<send, sends>>
vars == <<chain, wallets, storage, page, sync, transfer>>

IdleSync == [pc |-> "idle", client |-> NoClient, saving |-> EmptyState]

IdleSend == [pc |-> "idle", client |-> NoClient, inputs |-> {}, tx |-> "none"]

Init ==
    /\ announcedAt = [x \in Shards |-> IF x \in Early THEN 1 ELSE 0]
    /\ height = 1
    /\ isShardSpent = {}
    /\ owner = [c \in Clients |-> Nobody]
    /\ shardStore = [c \in Clients |-> EmptyState]
    /\ storage = [key |-> Nobody, state |-> EmptyState]
    /\ initializing = {}
    /\ ghost = NoClient
    /\ shards = {}
    /\ interval = NoClient
    /\ sync = [s \in Syncs |-> IdleSync]
    /\ send = IdleSend
    /\ sends = 0

-----------------------------------------------------------------------------
(* The chain.                                                              *)

Funded(a) == {x \in Shards : OwnerOf[x] = a /\ announcedAt[x] # 0} \ isShardSpent

Receive(x) ==
    /\ announcedAt[x] = 0
    /\ height' = height + 1
    /\ announcedAt' = [announcedAt EXCEPT ![x] = height + 1]
    /\ UNCHANGED <<isShardSpent, wallets, storage, page, sync, transfer>>

\* A broadcast transfer is mined: it pays, or it fails, which leaves no trace here.
Mined(outcome) ==
    /\ send.tx = "sent"
    /\ outcome = "succeeded" => send.inputs \cap isShardSpent = {}
    /\ isShardSpent' = IF outcome = "succeeded" THEN isShardSpent \cup send.inputs
                       ELSE isShardSpent
    /\ send' = IF send.pc = "waiting" THEN [send EXCEPT !.tx = outcome] ELSE IdleSend
    /\ UNCHANGED <<announcedAt, height, wallets, storage, page, sync, sends>>

-----------------------------------------------------------------------------
(* shardLocalStorage: one slot, encrypted under the key of a wallet.       *)

\* Mutant: the slot is not bound to a key.
loadAny(account) == storage.state

\* What decrypts under another key is taken for nothing.
load(account) == IF storage.key = account THEN storage.state ELSE EmptyState

\* The save of c that began with this state is written.
save(c, state) == storage' = [key |-> owner[c], state |-> state]

-----------------------------------------------------------------------------
(* Connecting, initializeGhost() and disconnect().                         *)

\* Connect is clicked: a new client asks the account that the extension offers
\* just then for its signature.  A second click, while the first request is open,
\* makes a second client.
InitBegins(c, a) ==
    /\ ghost = NoClient
    /\ \A d \in 1..(c - 1) : owner[d] # Nobody
    /\ owner[c] = Nobody
    /\ owner' = [owner EXCEPT ![c] = a]
    /\ initializing' = initializing \cup {c}
    /\ UNCHANGED <<chain, shardStore, storage, ghost, shards,
                   interval, sync, transfer>>

\* Keys are derived, the saved state is imported unless it has no shard, and the
\* client becomes the page's.  The syncWithChain() that follows is the one of the
\* closure that began, which has no client, and returns at once.
InitEnds(c) ==
    /\ c \in initializing
    /\ initializing' = initializing \ {c}
    /\ shardStore' = [shardStore EXCEPT
                        ![c] = IF load(owner[c]).shards # {} THEN load(owner[c]) ELSE @]
    /\ ghost' = c
    /\ UNCHANGED <<chain, owner, storage, shards, interval, sync,
                   transfer>>

\* The signature is refused.
InitFails(c) ==
    /\ c \in initializing
    /\ initializing' = initializing \ {c}
    /\ UNCHANGED <<chain, wallets, storage, ghost, shards,
                   interval, sync, transfer>>

startAutoSync(running, c) == IF running # NoClient THEN running ELSE c
stopAutoSync == NoClient

\* Mutant: the effect has no cleanup.
autoSyncKept(c) == startAutoSync(interval, c)

\* The cleanup of the effect stops the interval of the closure before.
autoSync(c) == startAutoSync(stopAutoSync, c)

\* The dashboard has rendered a new client: its effect restarts the interval.
Rendered ==
    /\ ghost # NoClient
    /\ interval # autoSync(ghost)
    /\ interval' = autoSync(ghost)
    /\ UNCHANGED <<chain, wallets, storage, initializing, ghost, shards,
                   sync, transfer>>

disconnect ==
    /\ ghost # NoClient
    /\ interval' = stopAutoSync
    /\ ghost' = NoClient
    /\ shards' = {}
    /\ UNCHANGED <<chain, wallets, storage, initializing, sync, transfer>>

\* The page is reloaded: all that is left is the slot, and what was broadcast.
Reload ==
    /\ ghost' = NoClient
    /\ interval' = NoClient
    /\ shards' = {}
    /\ initializing' = {}
    /\ sync' = [s \in Syncs |-> IdleSync]
    /\ send' = IF send.tx = "sent" THEN [IdleSend EXCEPT !.tx = "sent",
                                                         !.inputs = send.inputs]
               ELSE IdleSend
    /\ shardStore' = [c \in Clients |-> EmptyState]
    /\ UNCHANGED <<chain, owner, storage, sends>>

-----------------------------------------------------------------------------
(* syncWithChain() of the context, with that of its client.                *)

\* Every shard of this model shows a balance until it is removed.
getShards(c) == shardStore[c].shards

getUnspent(c) == shardStore[c].shards \ shardStore[c].pending

At(s, pc) == sync[s].pc = pc
Client(s) == sync[s].client

\* The interval fires, whether or not a sync is running, or "Sync Now" is clicked
\* (that button is off while isSyncing, which the end of any sync clears).
SyncBegins(s, c) ==
    /\ At(s, "idle")
    /\ c # NoClient
    /\ c \in {interval, ghost}
    /\ sync' = [sync EXCEPT ![s] = [IdleSync EXCEPT !.pc = "logs", !.client = c]]
    /\ UNCHANGED <<chain, wallets, storage, initializing, ghost, shards,
                   interval, transfer>>

\* The logs arrive: what is the wallet's own is added, the cursor moves, what has
\* been spent is removed, and the store is saved (GhostClient has the awaits).
Pipeline(s) ==
    LET c     == Client(s)
        found == {x \in Shards : /\ OwnerOf[x] = owner[c] /\ announcedAt[x] # 0
                                 /\ announcedAt[x] >= shardStore[c].lastSyncedBlock}
        spent == ((shardStore[c].shards \cup found) \ shardStore[c].pending)
                    \cap isShardSpent
    IN  /\ At(s, "logs")
        /\ shardStore' = [shardStore EXCEPT ![c].shards = (@ \cup found) \ spent,
                                            ![c].lastSyncedBlock = height]
        /\ sync' = [sync EXCEPT ![s].pc = "save", ![s].saving = shardStore'[c]]
        /\ UNCHANGED <<chain, owner, storage, page, transfer>>

\* The query fails: the context shows the error.
LogsFail(s) ==
    /\ At(s, "logs")
    /\ sync' = [sync EXCEPT ![s] = IdleSync]
    /\ UNCHANGED <<chain, wallets, storage, initializing, ghost, shards,
                   interval, transfer>>

\* The sync is over: the page shows the shards of the closure's client, which
\* need not be the page's any more.
SyncEnds(s) ==
    /\ At(s, "save")
    /\ save(Client(s), sync[s].saving)
    /\ shards' = getShards(Client(s))
    /\ sync' = [sync EXCEPT ![s] = IdleSync]
    /\ UNCHANGED <<chain, wallets, initializing, ghost, interval, transfer>>

-----------------------------------------------------------------------------
(* TransferModal and sendAsset().                                          *)

\* The modal hands a token id on as text, which is no id the store knows.
toString(id) == [text |-> id.number]

getUnspentForAsset(c, request) ==
    {x \in getUnspent(c) :
        /\ AssetOf[x].type = request.type
        /\ request.type # "NATIVE" => AssetOf[x].tokenAddress = request.tokenAddress
        /\ request.type = "ERC721" => request.tokenId \in AssetOf[x].tokenIds}

\* What the selectors of the modal can be set to, over the shards that are shown.
Requests ==
    UNION {IF AssetOf[x].type = "ERC721"
           THEN {[type |-> "ERC721", tokenAddress |-> AssetOf[x].tokenAddress,
                  tokenId |-> toString(id)] : id \in AssetOf[x].tokenIds}
           ELSE {[type |-> AssetOf[x].type, tokenAddress |-> AssetOf[x].tokenAddress]} :
             x \in shards}

\* The amount decides which of the shards that hold the asset are selected; they
\* are marked pending and saved.
sendAsset(request, selected) ==
    /\ ghost # NoClient
    /\ send.pc = "idle" /\ send.tx # "sent"
    /\ sends < MaxSends
    /\ sends' = sends + 1
    /\ selected # {} /\ selected \subseteq getUnspentForAsset(ghost, request)
    /\ shardStore' = [shardStore EXCEPT ![ghost].pending = @ \cup selected]
    /\ save(ghost, shardStore'[ghost])
    /\ send' = [pc |-> "relaying", client |-> ghost, inputs |-> selected, tx |-> "none"]
    /\ UNCHANGED <<chain, owner, page, sync>>

\* Signed, quoted and broadcast.
RelayAccepts ==
    /\ send.pc = "relaying"
    /\ send' = [send EXCEPT !.pc = "waiting", !.tx = "sent"]
    /\ UNCHANGED <<chain, wallets, storage, page, sync, sends>>

\* One of these throws, before or after the broadcast: the inputs stay pending.
RelayThrows(tx) ==
    /\ send.pc = "relaying"
    /\ send' = IF tx = "sent"
               THEN [send EXCEPT !.pc = "idle", !.client = NoClient, !.tx = tx]
               ELSE IdleSend
    /\ UNCHANGED <<chain, wallets, storage, page, sync, sends>>

\* wait() has its receipt: the inputs are removed, or are active again.
WaitEnds ==
    LET c == send.client
    IN  /\ send.pc = "waiting"
        /\ send.tx \in {"succeeded", "failed"}
        /\ shardStore' = [shardStore EXCEPT
                            ![c].pending = @ \ send.inputs,
                            ![c].shards = IF send.tx = "succeeded"
                                          THEN @ \ send.inputs ELSE @]
        /\ save(c, shardStore'[c])
        /\ send' = IdleSend
        /\ UNCHANGED <<chain, owner, page, sync, sends>>

-----------------------------------------------------------------------------
(* A client that nothing refers to is gone, before anything else happens.  *)

Unreferenced ==
    {c \in Clients : owner[c] # Nobody}
       \ ({ghost, interval, send.client} \cup initializing \cup {Client(s) : s \in Syncs})

Collect ==
    /\ Unreferenced # {}
    /\ owner' = [c \in Clients |-> IF c \in Unreferenced THEN Nobody ELSE owner[c]]
    /\ shardStore' = [c \in Clients |-> IF c \in Unreferenced THEN EmptyState
                                        ELSE shardStore[c]]
    /\ UNCHANGED <<chain, storage, page, sync, transfer>>

-----------------------------------------------------------------------------
SyncStep(s) ==
    \/ \E c \in Clients : SyncBegins(s, c)
    \/ Pipeline(s) \/ LogsFail(s) \/ SyncEnds(s)

SendStep ==
    \/ \E request \in Requests, selected \in SUBSET Shards : sendAsset(request, selected)
    \/ RelayAccepts
    \/ \E tx \in {"none", "sent"} : RelayThrows(tx)
    \/ WaitEnds

SessionStep ==
    \/ \E c \in Clients : (\E a \in Accounts : InitBegins(c, a)) \/ InitEnds(c) \/ InitFails(c)
    \/ Rendered \/ disconnect \/ Reload

ChainStep ==
    \/ \E x \in Shards : Receive(x)
    \/ \E outcome \in {"succeeded", "failed"} : Mined(outcome)

Next ==
    \/ Collect
    \/ \E s \in Syncs : SyncStep(s)
    \/ SendStep
    \/ SessionStep
    \/ ChainStep

Spec == Init /\ [][Next]_vars

\* React runs the effects of what it has rendered, the interval goes on firing,
\* every request of a sync ends, and not every one fails for ever.
FairSpec ==
    /\ Spec
    /\ WF_vars(Collect) /\ WF_vars(Rendered)
    /\ \A s \in Syncs : WF_vars(SyncStep(s)) /\ SF_vars(Pipeline(s))

-----------------------------------------------------------------------------
(* What the components derive from the shards that are shown.              *)

Balance(x) == AssetOf[x].balance
SumOf(held) == MapThenSumSet(Balance, held)

IsToken(x) == AssetOf[x].type # "NATIVE"

extractTokenAddresses(shown) == {AssetOf[x].tokenAddress : x \in {y \in shown : IsToken(y)}}

\* The summary: ether, the amount of each ERC-20 token, the shards of each
\* collection (the code's maps leave out a token of the other kind).
OfToken(shown, type, t) == {x \in shown : AssetOf[x].type = type /\ AssetOf[x].tokenAddress = t}

computeBalanceSummary(shown) ==
    [totalNativeBalance |-> SumOf({x \in shown : ~IsToken(x)}),
     erc20Shards |-> [t \in extractTokenAddresses(shown) |-> SumOf(OfToken(shown, "ERC20", t))],
     erc721Collections |-> [t \in extractTokenAddresses(shown) |-> OfToken(shown, "ERC721", t)]]

NoFilter == Nobody

\* Mutant: the rows of all tokens.
applyTypeFilter(shown, type, tokenAddress, tokenId) ==
    {x \in shown : type # "ALL" => AssetOf[x].type = type}

\* The rows of the table under a filter for a type, a token and an id.
applyFilters(shown, type, tokenAddress, tokenId) ==
    {x \in shown : /\ type # "ALL" => AssetOf[x].type = type
                   /\ tokenAddress # NoFilter => AssetOf[x].tokenAddress = tokenAddress
                   /\ tokenId # NoFilter =>
                         /\ AssetOf[x].type = "ERC721"
                         /\ \E id \in AssetOf[x].tokenIds : toString(id) = tokenId}

\* The most the modal lets the user ask for.
currentMaxBalance(shown, type, tokenAddress) ==
    SumOf({x \in shown : /\ AssetOf[x].type = type
                         /\ type # "NATIVE" => AssetOf[x].tokenAddress = tokenAddress})

-----------------------------------------------------------------------------
(* Properties.                                                             *)

TypeOK ==
    /\ announcedAt \in [Shards -> 0..height] /\ height \in Nat
    /\ isShardSpent \subseteq Shards
    /\ owner \in [Clients -> Accounts \cup {Nobody}]
    /\ shardStore \in [Clients -> PersistedState]
    /\ storage \in [key : Accounts \cup {Nobody}, state : PersistedState]
    /\ initializing \subseteq Clients
    /\ {ghost, interval} \subseteq Clients \cup {NoClient}
    /\ shards \subseteq Shards
    /\ sync \in [Syncs -> [pc : {"idle", "logs", "save"}, client : Clients \cup {NoClient},
                           saving : PersistedState]]
    /\ send \in [pc : {"idle", "relaying", "waiting"}, client : Clients \cup {NoClient},
                 inputs : SUBSET Shards, tx : {"none", "sent", "succeeded", "failed"}]
    /\ sends \in 0..MaxSends

\* The state holds shards of the account alone, and every spendable one that was
\* announced before its cursor.
IsStateOf(state, a) ==
    /\ \A x \in state.shards : OwnerOf[x] = a
    /\ \A x \in Funded(a) : announcedAt[x] <= state.lastSyncedBlock => x \in state.shards

\* Whatever sessions of whatever accounts are open, ending or still saving: the
\* store of a client, and the slot, hold shards of one account only, and none of
\* its money lies before the cursor and is missing (storage.ts, index.ts init).
SessionsAreApart ==
    /\ \A c \in Clients : owner[c] # Nobody => IsStateOf(shardStore[c], owner[c])
    /\ storage.key # Nobody => IsStateOf(storage.state, storage.key)

InSession == ghost # NoClient

\* What the account of the session has on the chain, and what its wallet holds
\* back, be it spent meanwhile or not.
Held == Funded(owner[ghost]) \cup shardStore[ghost].pending

\* A session that stays open comes to show the shards of its account and no
\* other's, whatever syncs and signature requests of earlier sessions set later
\* (GhostContext.tsx, syncWithChain and initializeGhost).
DashboardIsOwn == <>[]InSession => <>[](InSession /\ shards = Held)

\* And then the summary, the table and the modal agree on every token, and what
\* they say is what the account holds (GhostContext.tsx, TransferModal.tsx).
Agree(t) ==
    LET held    == {x \in Held : AssetOf[x].tokenAddress = t}
        amount  == SumOf(OfToken(held, "ERC20", t))
        summary == computeBalanceSummary(shards)
    IN  /\ t \in extractTokenAddresses(shards)
        /\ applyFilters(shards, "ALL", t, NoFilter) = held
        /\ summary.erc20Shards[t] = amount
        /\ summary.erc721Collections[t] = OfToken(held, "ERC721", t)
        /\ currentMaxBalance(shards, "ERC20", t) = amount

ScreensAgree ==
    <>[]InSession => <>[](InSession /\ \A t \in extractTokenAddresses(Held) : Agree(t))
=============================================================================
