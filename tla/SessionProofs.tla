---------------------------- MODULE SessionProofs ----------------------------
(***************************************************************************)
(* For any accounts, clients, syncs and shards: what one session does      *)
(* after another has begun never mixes the stores of two accounts.         *)
(***************************************************************************)
EXTENDS Session, TLAPS

SyncRecord == [pc : {"idle", "logs", "save"}, client : Clients \cup {NoClient},
               saving : PersistedState]

SendRecord == [pc : {"idle", "relaying", "waiting"}, client : Clients \cup {NoClient},
               inputs : SUBSET Shards, tx : {"none", "sent", "succeeded", "failed"}]

Typed ==
    /\ height \in Nat /\ announcedAt \in [Shards -> Nat]
    /\ owner \in [Clients -> Accounts \cup {Nobody}]
    /\ shardStore \in [Clients -> PersistedState]
    /\ storage \in [key : Accounts \cup {Nobody}, state : PersistedState]
    /\ initializing \subseteq Clients
    /\ ghost \in Clients \cup {NoClient} /\ interval \in Clients \cup {NoClient}
    /\ sync \in [Syncs -> SyncRecord]
    /\ send \in SendRecord

\* The states of an account that are not ahead of the chain and lack none of its
\* money before their cursor.
GoodStates ==
    [account \in Accounts |->
        {state \in PersistedState : state.lastSyncedBlock <= height
                                   /\ IsStateOf(state, account)}]

\* What refers to a client keeps it, and with it the account of its keys.
Owned(c) == c # NoClient => owner[c] # Nobody

ReferencesOwned ==
    /\ Owned(ghost) /\ Owned(interval) /\ Owned(send.client)
    /\ \A c \in initializing : owner[c] # Nobody
    /\ \A s \in Syncs : Owned(sync[s].client)

\* Each store belongs to the account of its client, and one without is empty.
StoresGood ==
    \A c \in Clients : /\ owner[c] # Nobody => shardStore[c] \in GoodStates[owner[c]]
                       /\ owner[c] = Nobody => shardStore[c] = EmptyState

SlotGood == storage.key # Nobody => storage.state \in GoodStates[storage.key]

\* What a sync is about to write belongs to the account of its client, whoever
\* is connected by then.
SavesGood ==
    \A s \in Syncs :
        /\ sync[s].pc # "idle" => sync[s].client # NoClient
        /\ sync[s].pc = "save" => sync[s].saving \in GoodStates[owner[sync[s].client]]

\* The inputs of a transfer that succeeded are spent, whatever its client.
SendGood ==
    /\ send.pc # "idle" => send.client # NoClient
    /\ send.tx = "succeeded" => send.inputs \subseteq isShardSpent

ApartInv == Typed /\ ReferencesOwned /\ StoresGood /\ SlotGood /\ SavesGood /\ SendGood

USE DEF chain, wallets, page, transfer, NoClient

-----------------------------------------------------------------------------
(* Good states.                                                            *)

\* They depend on the chain alone.
LEMMA StatesRest ==
    ASSUME UNCHANGED chain
    PROVE  GoodStates' = GoodStates
  BY DEF GoodStates, IsStateOf, Funded

\* A wallet that starts from nothing lacks nothing it will not read.
LEMMA EmptyIsGood ==
    ASSUME Typed, NEW account \in Accounts
    PROVE  EmptyState \in GoodStates[account]
<1>1. EmptyState \in PersistedState /\ EmptyState.lastSyncedBlock = 0 /\ EmptyState.shards = {}
    BY DEF EmptyState, PersistedState
<1>2. \A x \in Funded(account) : announcedAt[x] \in Nat /\ announcedAt[x] # 0
    BY DEF Funded, Typed
<1>3. IsStateOf(EmptyState, account)
    BY <1>1, <1>2 DEF IsStateOf
<1> QED
    BY <1>1, <1>3 DEF GoodStates, Typed

\* A state that loses spent shards, or changes what is pending, stays good.
LEMMA GoodWithout ==
    ASSUME NEW account \in Accounts, NEW old \in GoodStates[account],
           NEW new \in PersistedState, new.lastSyncedBlock = old.lastSyncedBlock,
           new.shards \subseteq old.shards, old.shards \ new.shards \subseteq isShardSpent
    PROVE  new \in GoodStates[account]
<1>1. old.lastSyncedBlock <= height /\ IsStateOf(old, account)
    BY DEF GoodStates
<1>2. IsStateOf(new, account)
    BY <1>1 DEF IsStateOf, Funded
<1> QED
    BY <1>1, <1>2 DEF GoodStates

\* What a sync that starts from this state finds.
Found(old, account) ==
    {x \in Shards : /\ OwnerOf[x] = account /\ announcedAt[x] # 0
                    /\ announcedAt[x] >= old.lastSyncedBlock}

\* What a sync makes of the store is good up to the block that it has seen.
LEMMA PipelineIsGood ==
    ASSUME Typed, NEW account \in Accounts, NEW old \in GoodStates[account],
           NEW spent \in SUBSET isShardSpent,
           NEW new \in PersistedState, new.lastSyncedBlock = height,
           new.shards = (old.shards \cup Found(old, account)) \ spent
    PROVE  new \in GoodStates[account]
<1>1. old.lastSyncedBlock \in Nat /\ IsStateOf(old, account)
    BY DEF GoodStates, PersistedState
<1>2. \A x \in new.shards : OwnerOf[x] = account
    BY <1>1 DEF IsStateOf, Found
<1>3. \A x \in Funded(account) : x \in old.shards \cup Found(old, account)
    BY <1>1 DEF IsStateOf, Funded, Found, Typed
<1>4. \A x \in Funded(account) : x \notin spent
    BY DEF Funded
<1>5. IsStateOf(new, account)
    BY <1>2, <1>3, <1>4 DEF IsStateOf
<1> QED
    BY <1>5 DEF GoodStates, Typed

\* The chain grows behind every cursor.
LEMMA StatesGrow ==
    ASSUME Typed, ChainStep
    PROVE  \A account \in Accounts : GoodStates[account] \subseteq GoodStates'[account]
<1>1. /\ height' \in {height, height + 1}
      /\ \A x \in Shards : announcedAt'[x] = announcedAt[x] \/ announcedAt'[x] = height + 1
      /\ isShardSpent \subseteq isShardSpent'
    BY DEF ChainStep, Receive, Mined, Typed
<1> SUFFICES ASSUME NEW account \in Accounts, NEW state \in GoodStates[account]
             PROVE  state \in GoodStates'[account]
    OBVIOUS
<1>2. /\ state \in PersistedState /\ state.lastSyncedBlock \in Nat
      /\ state.lastSyncedBlock <= height /\ IsStateOf(state, account)
    BY DEF GoodStates, PersistedState
<1>3. \A x \in Funded(account)' : announcedAt'[x] <= state.lastSyncedBlock
                                    => x \in Funded(account) /\ announcedAt'[x] = announcedAt[x]
    BY <1>1, <1>2 DEF Typed, Funded
<1>4. IsStateOf(state, account)'
    BY <1>2, <1>3 DEF IsStateOf
<1> QED
    BY <1>1, <1>2, <1>4 DEF GoodStates, Typed

-----------------------------------------------------------------------------
(* Steps of the session.                                                   *)

\* A client is created: its store is still empty.
LEMMA BeginInit ==
    ASSUME ApartInv, NEW c \in Clients, NEW account \in Accounts, InitBegins(c, account)
    PROVE  ApartInv'
<1> USE DEF InitBegins, ApartInv
<1>1. GoodStates' = GoodStates
    BY StatesRest
<1>2. account # Nobody
    BY SessionAssumption
<1>3. /\ owner[c] = Nobody /\ shardStore[c] = EmptyState
      /\ owner' \in [Clients -> Accounts \cup {Nobody}]
      /\ owner'[c] = account
      /\ \A d \in Clients \ {c} : owner'[d] = owner[d]
    BY DEF Typed, StoresGood
<1>4. EmptyState \in GoodStates[account]
    BY EmptyIsGood
<1>5. Typed'
    BY <1>3 DEF Typed
<1>6. ReferencesOwned'
    BY <1>2, <1>3 DEF ReferencesOwned, Owned, Typed, SyncRecord, SendRecord
<1>7. StoresGood'
    BY <1>1, <1>2, <1>3, <1>4 DEF StoresGood
<1>8. SlotGood' /\ SendGood'
    BY <1>1 DEF SlotGood, SendGood
<1>9. SavesGood'
    <2> SUFFICES ASSUME NEW s \in Syncs
                 PROVE  /\ sync'[s].pc # "idle" => sync'[s].client # NoClient
                        /\ sync'[s].pc = "save" =>
                              sync'[s].saving \in GoodStates'[owner'[sync'[s].client]]
        BY DEF SavesGood
    <2>1. sync'[s] = sync[s] /\ sync[s].client \in Clients \cup {NoClient}
        BY DEF Typed, SyncRecord
    <2>2. sync[s].pc # "idle" => sync[s].client \in Clients \ {c}
        BY <1>3, <2>1 DEF ReferencesOwned, Owned, SavesGood
    <2> QED
        BY <1>1, <1>3, <2>1, <2>2 DEF SavesGood
<1> QED
    BY <1>5, <1>6, <1>7, <1>8, <1>9

\* A client imports what was saved under its account's key, or starts from nothing.
LEMMA EndInit ==
    ASSUME ApartInv, NEW c \in Clients, InitEnds(c)
    PROVE  ApartInv'
<1> USE DEF InitEnds, ApartInv
<1>1. GoodStates' = GoodStates
    BY StatesRest
<1>2. owner[c] \in Accounts /\ owner[c] # Nobody
    BY DEF ReferencesOwned, Typed
<1>3. load(owner[c]) \in GoodStates[owner[c]]
    BY <1>2, EmptyIsGood DEF load, SlotGood
<1>4. load(owner[c]) \in PersistedState
    BY <1>2, <1>3 DEF GoodStates
<1>5. /\ shardStore' \in [Clients -> PersistedState]
      /\ shardStore'[c] \in {shardStore[c], load(owner[c])}
      /\ \A d \in Clients \ {c} : shardStore'[d] = shardStore[d]
    BY <1>4 DEF Typed
<1>6. Typed'
    BY <1>5 DEF Typed
<1>7. ReferencesOwned'
    BY <1>2 DEF ReferencesOwned, Owned
<1>8. StoresGood'
    BY <1>1, <1>2, <1>3, <1>5 DEF StoresGood
<1>9. SlotGood' /\ SendGood' /\ SavesGood'
    BY <1>1 DEF SlotGood, SendGood, SavesGood
<1> QED
    BY <1>6, <1>7, <1>8, <1>9

\* The page changes what it refers to, not what is stored.
LEMMA PageStep ==
    ASSUME ApartInv, Rendered \/ disconnect \/ \E c \in Clients : InitFails(c)
    PROVE  ApartInv'
<1> USE DEF Rendered, disconnect, InitFails, ApartInv
<1>1. GoodStates' = GoodStates
    BY StatesRest
<1>2. /\ UNCHANGED <<owner, shardStore, storage, sync, send, chain>>
      /\ ghost' \in {ghost, NoClient} /\ interval' \in {interval, ghost, NoClient}
      /\ initializing' \subseteq initializing
    BY DEF autoSync, startAutoSync, stopAutoSync
<1>3. Typed'
    BY <1>2 DEF Typed
<1>4. ReferencesOwned'
    BY <1>2 DEF ReferencesOwned, Owned
<1>5. StoresGood' /\ SlotGood' /\ SavesGood' /\ SendGood'
    BY <1>1, <1>2 DEF StoresGood, SlotGood, SavesGood, SendGood
<1> QED
    BY <1>3, <1>4, <1>5

\* A reload leaves the slot, and every client with an empty store.
LEMMA ReloadStep ==
    ASSUME ApartInv, Reload
    PROVE  ApartInv'
<1> USE DEF Reload, ApartInv
<1>1. GoodStates' = GoodStates
    BY StatesRest
<1>2. EmptyState \in PersistedState
    BY DEF EmptyState, PersistedState
<1>3. IdleSync \in SyncRecord /\ IdleSync.client = NoClient /\ IdleSync.pc = "idle"
    BY <1>2 DEF IdleSync, SyncRecord
<1>4. /\ send' \in SendRecord /\ send'.client = NoClient /\ send'.pc = "idle"
      /\ send'.tx # "succeeded"
    BY DEF IdleSend, SendRecord, Typed
<1>5. Typed'
    BY <1>2, <1>3, <1>4 DEF Typed
<1>6. ReferencesOwned'
    BY <1>3, <1>4 DEF ReferencesOwned, Owned
<1>7. StoresGood'
    BY <1>1, EmptyIsGood DEF StoresGood, Typed
<1>8. SlotGood' /\ SavesGood' /\ SendGood'
    BY <1>1, <1>3, <1>4 DEF SlotGood, SavesGood, SendGood
<1> QED
    BY <1>5, <1>6, <1>7, <1>8

\* What nothing refers to may be collected.
LEMMA CollectStep ==
    ASSUME ApartInv, Collect
    PROVE  ApartInv'
<1> USE DEF Collect, ApartInv
<1>1. GoodStates' = GoodStates
    BY StatesRest
<1>2. EmptyState \in PersistedState
    BY DEF EmptyState, PersistedState
<1>3. \A c \in Clients : c \in {ghost, interval, send.client} \cup initializing
                                \cup {Client(s) : s \in Syncs} => owner'[c] = owner[c]
    BY DEF Unreferenced
<1>4. Typed'
    BY <1>2 DEF Typed
<1>5. ReferencesOwned'
    BY <1>3 DEF ReferencesOwned, Owned, Typed, SyncRecord, SendRecord, Client
<1>6. StoresGood'
    BY <1>1 DEF StoresGood, Typed
<1>7. SlotGood' /\ SendGood'
    BY <1>1 DEF SlotGood, SendGood
<1>8. SavesGood'
    <2> SUFFICES ASSUME NEW s \in Syncs
                 PROVE  /\ sync'[s].pc # "idle" => sync'[s].client # NoClient
                        /\ sync'[s].pc = "save" =>
                              sync'[s].saving \in GoodStates'[owner'[sync'[s].client]]
        BY DEF SavesGood
    <2>1. sync'[s] = sync[s] /\ sync[s].client \in Clients \cup {NoClient}
        BY DEF Typed, SyncRecord
    <2>2. sync[s].pc # "idle" => owner'[sync[s].client] = owner[sync[s].client]
        BY <1>3, <2>1 DEF SavesGood, Client
    <2> QED
        BY <1>1, <2>1, <2>2 DEF SavesGood
<1> QED
    BY <1>4, <1>5, <1>6, <1>7, <1>8

-----------------------------------------------------------------------------
(* Steps of a sync.                                                        *)

\* One sync changes; the stores and the slot do not.
LEMMA SyncMoves ==
    ASSUME ApartInv, NEW s \in Syncs, \/ \E c \in Clients : SyncBegins(s, c)
                                      \/ LogsFail(s)
    PROVE  ApartInv'
<1> USE DEF SyncBegins, LogsFail, ApartInv
<1>1. GoodStates' = GoodStates
    BY StatesRest
<1>2. /\ UNCHANGED <<owner, shardStore, storage, send, initializing, ghost, interval, chain>>
      /\ \A r \in Syncs \ {s} : sync'[r] = sync[r]
      /\ DOMAIN sync' = Syncs /\ sync' = [r \in Syncs |-> sync'[r]]
    BY DEF Typed
<1>3. EmptyState \in PersistedState
    BY DEF EmptyState, PersistedState
<1>4. /\ sync'[s] \in SyncRecord
      /\ sync'[s].pc # "save"
      /\ sync'[s].client \in {NoClient, ghost, interval}
      /\ sync'[s].pc # "idle" => sync'[s].client # NoClient
    <2>1. IdleSync \in SyncRecord /\ IdleSync.client = NoClient /\ IdleSync.pc = "idle"
        BY <1>3 DEF IdleSync, SyncRecord
    <2>2. CASE LogsFail(s)
        BY <2>1, <2>2 DEF Typed
    <2>3. CASE \E c \in Clients : SyncBegins(s, c)
        <3>1. PICK c \in Clients : SyncBegins(s, c)
            BY <2>3
        <3>2. sync'[s] = [pc |-> "logs", client |-> c, saving |-> EmptyState]
            BY <3>1 DEF Typed, IdleSync
        <3>3. c \in {ghost, interval} /\ c # NoClient
            BY <3>1
        <3> HIDE DEF SyncBegins, LogsFail, ApartInv
        <3>4. sync'[s] \in SyncRecord
            BY <1>3, <3>2 DEF SyncRecord
        <3>5. sync'[s].pc = "logs" /\ sync'[s].client = c
            BY <3>2
        <3> QED
            BY <3>3, <3>4, <3>5
    <2> QED
        BY <2>2, <2>3
<1>5. Typed'
    BY <1>2, <1>4 DEF Typed
<1>6. ReferencesOwned'
    BY <1>2, <1>4 DEF ReferencesOwned, Owned
<1>7. StoresGood' /\ SlotGood' /\ SendGood'
    BY <1>1, <1>2 DEF StoresGood, SlotGood, SendGood
<1>8. SavesGood'
    <2> SUFFICES ASSUME NEW r \in Syncs
                 PROVE  /\ sync'[r].pc # "idle" => sync'[r].client # NoClient
                        /\ sync'[r].pc = "save" =>
                              sync'[r].saving \in GoodStates[owner[sync'[r].client]]
        BY <1>1, <1>2 DEF SavesGood
    <2>1. CASE r = s
        BY <1>4, <2>1
    <2>2. CASE r # s
        BY <1>2, <2>2 DEF SavesGood
    <2> QED
        BY <2>1, <2>2
<1> QED
    BY <1>5, <1>6, <1>7, <1>8

\* The pipeline makes a good state of the client's account and begins to save it.
LEMMA PipelineStep ==
    ASSUME ApartInv, NEW s \in Syncs, Pipeline(s)
    PROVE  ApartInv'
<1> DEFINE c     == sync[s].client
           found == Found(shardStore[c], owner[c])
           spent == ((shardStore[c].shards \cup found) \ shardStore[c].pending)
                       \cap isShardSpent
<1> USE DEF ApartInv
<1>1. GoodStates' = GoodStates
    BY StatesRest DEF Pipeline
<1>2. /\ sync[s].pc = "logs"
      /\ shardStore' = [shardStore EXCEPT ![c].shards = (@ \cup found) \ spent,
                                          ![c].lastSyncedBlock = height]
      /\ sync' = [sync EXCEPT ![s].pc = "save", ![s].saving = shardStore'[c]]
      /\ UNCHANGED <<owner, storage, send, initializing, ghost, interval, chain>>
    BY DEF Pipeline, At, Client, Found
<1>3. c \in Clients /\ owner[c] \in Accounts /\ owner[c] # Nobody
    BY <1>2 DEF Typed, SyncRecord, SavesGood, ReferencesOwned, Owned
<1>4. shardStore[c] \in PersistedState /\ shardStore[c] \in GoodStates[owner[c]]
    BY <1>3 DEF Typed, StoresGood
<1>5. /\ found \in SUBSET Shards /\ spent \in SUBSET isShardSpent
      /\ found = Found(shardStore[c], owner[c])
    BY DEF Found
<1>6. /\ shardStore'[c] \in PersistedState
      /\ shardStore'[c].shards = (shardStore[c].shards \cup found) \ spent
      /\ shardStore'[c].lastSyncedBlock = height
      /\ \A d \in Clients \ {c} : shardStore'[d] = shardStore[d]
      /\ shardStore' \in [Clients -> PersistedState]
    <2> HIDE DEF c, found, spent
    <2> QED
        BY <1>2, <1>3, <1>4, <1>5 DEF Typed, PersistedState
<1>7. shardStore'[c] \in GoodStates[owner[c]]
    <2> HIDE DEF c, found, spent
    <2> QED
        BY <1>3, <1>4, <1>5, <1>6, PipelineIsGood
<1>8. /\ sync'[s].client = c /\ sync'[s].saving = shardStore'[c]
      /\ \A r \in Syncs \ {s} : sync'[r] = sync[r]
      /\ sync' \in [Syncs -> SyncRecord]
    <2>1. sync[s] \in SyncRecord /\ sync \in [Syncs -> SyncRecord]
        BY DEF Typed
    <2> QED
        BY <1>2, <1>6, <2>1 DEF SyncRecord
<1> HIDE DEF c, found, spent
<1>9. Typed'
    BY <1>2, <1>6, <1>8 DEF Typed
<1>10. ReferencesOwned'
    BY <1>2, <1>3, <1>8 DEF ReferencesOwned, Owned
<1>11. StoresGood'
    BY <1>1, <1>2, <1>3, <1>6, <1>7 DEF StoresGood
<1>12. SlotGood' /\ SendGood'
    BY <1>1, <1>2 DEF SlotGood, SendGood
<1>13. SavesGood'
    <2> SUFFICES ASSUME NEW r \in Syncs
                 PROVE  /\ sync'[r].pc # "idle" => sync'[r].client # NoClient
                        /\ sync'[r].pc = "save" =>
                              sync'[r].saving \in GoodStates'[owner'[sync'[r].client]]
        BY DEF SavesGood
    <2>1. CASE r = s
        BY <1>1, <1>2, <1>3, <1>7, <1>8, <2>1 DEF Clients
    <2>2. CASE r # s
        BY <1>1, <1>2, <1>8, <2>2 DEF SavesGood
    <2> QED
        BY <2>1, <2>2
<1> QED
    BY <1>9, <1>10, <1>11, <1>12, <1>13

\* The save is written, under the key of the account whose state it is.
LEMMA SyncEndsStep ==
    ASSUME ApartInv, NEW s \in Syncs, SyncEnds(s)
    PROVE  ApartInv'
<1> USE DEF ApartInv, SyncEnds
<1>1. GoodStates' = GoodStates
    BY StatesRest
<1>2. sync[s].pc = "save" /\ sync[s].client \in Clients
      /\ owner[sync[s].client] \in Accounts \cup {Nobody}
    BY DEF At, SavesGood, Typed, SyncRecord
<1>3. EmptyState \in PersistedState
    BY DEF EmptyState, PersistedState
<1>4. IdleSync \in SyncRecord /\ IdleSync.client = NoClient /\ IdleSync.pc = "idle"
    BY <1>3 DEF IdleSync, SyncRecord
<1>5. storage' = [key |-> owner[sync[s].client], state |-> sync[s].saving]
    BY DEF save, Client
<1>6. Typed'
    BY <1>2, <1>4, <1>5 DEF Typed, SyncRecord
<1>7. ReferencesOwned'
    BY <1>4 DEF ReferencesOwned, Owned, Typed
<1>8. StoresGood' /\ SendGood'
    BY <1>1 DEF StoresGood, SendGood
<1>9. SlotGood'
    BY <1>1, <1>2, <1>5 DEF SlotGood, SavesGood
<1>10. SavesGood'
    BY <1>1, <1>4 DEF SavesGood, Typed
<1> QED
    BY <1>6, <1>7, <1>8, <1>9, <1>10

-----------------------------------------------------------------------------
(* Steps of a transfer.                                                    *)

\* A transfer saves its client's store at once.
LEMMA StoreSaved ==
    ASSUME ApartInv, NEW c \in Clients, owner[c] # Nobody, NEW state,
           UNCHANGED <<chain, owner, page, sync>>,
           state \in PersistedState, state \in GoodStates[owner[c]],
           shardStore'[c] = state,
           \A d \in Clients \ {c} : shardStore'[d] = shardStore[d],
           DOMAIN shardStore' = Clients, shardStore' = [d \in Clients |-> shardStore'[d]],
           save(c, shardStore'[c]),
           send' \in SendRecord, Owned(send'.client), SendGood'
    PROVE  ApartInv'
<1> USE DEF ApartInv
<1>1. GoodStates' = GoodStates
    BY StatesRest
<1>2. storage' = [key |-> owner[c], state |-> state] /\ owner[c] \in Accounts
    BY DEF save, Typed
<1>3. shardStore' \in [Clients -> PersistedState]
    BY DEF Typed
<1>4. Typed'
    BY <1>2, <1>3 DEF Typed
<1>5. ReferencesOwned'
    BY DEF ReferencesOwned, Owned
<1>6. StoresGood' /\ SlotGood' /\ SavesGood'
    BY <1>1, <1>2 DEF StoresGood, SlotGood, SavesGood
<1> QED
    BY <1>4, <1>5, <1>6

\* The inputs are marked: no shard leaves the store.
LEMMA SendBegins ==
    ASSUME ApartInv, NEW request, NEW selected \in SUBSET Shards, sendAsset(request, selected)
    PROVE  ApartInv'
<1> USE DEF ApartInv
<1>1. /\ ghost \in Clients /\ owner[ghost] \in Accounts /\ owner[ghost] # Nobody
      /\ shardStore[ghost] \in PersistedState
      /\ shardStore[ghost] \in GoodStates[owner[ghost]]
    BY DEF sendAsset, Typed, ReferencesOwned, Owned, StoresGood
<1>2. /\ shardStore' = [shardStore EXCEPT ![ghost].pending = @ \cup selected]
      /\ save(ghost, shardStore'[ghost])
      /\ send' = [pc |-> "relaying", client |-> ghost, inputs |-> selected, tx |-> "none"]
      /\ UNCHANGED <<chain, owner, page, sync>>
    BY DEF sendAsset
<1>3. /\ shardStore'[ghost] \in PersistedState
      /\ shardStore'[ghost].shards = shardStore[ghost].shards
      /\ shardStore'[ghost].lastSyncedBlock = shardStore[ghost].lastSyncedBlock
      /\ \A d \in Clients \ {ghost} : shardStore'[d] = shardStore[d]
      /\ DOMAIN shardStore' = Clients /\ shardStore' = [d \in Clients |-> shardStore'[d]]
    BY <1>1, <1>2 DEF Typed, PersistedState
<1>4. shardStore'[ghost] \in GoodStates[owner[ghost]]
    BY <1>1, <1>3, GoodWithout
<1>5. send' \in SendRecord /\ Owned(send'.client)
    BY <1>1, <1>2 DEF SendRecord, Owned
<1>6. SendGood'
    BY <1>1, <1>2 DEF SendGood, Clients
<1> QED
    BY <1>1, <1>2, <1>3, <1>4, <1>5, <1>6, StoreSaved

\* The inputs of a transfer that succeeded are removed: they are spent.
LEMMA SendEnds ==
    ASSUME ApartInv, WaitEnds
    PROVE  ApartInv'
<1> DEFINE c == send.client
<1> USE DEF ApartInv
<1>1. /\ send.pc = "waiting" /\ send.tx \in {"succeeded", "failed"}
      /\ shardStore' = [shardStore EXCEPT
                          ![c].pending = @ \ send.inputs,
                          ![c].shards = IF send.tx = "succeeded"
                                        THEN @ \ send.inputs ELSE @]
      /\ save(c, shardStore'[c])
      /\ send' = IdleSend
      /\ UNCHANGED <<chain, owner, page, sync>>
    BY DEF WaitEnds
<1>2. /\ c \in Clients /\ owner[c] \in Accounts /\ owner[c] # Nobody
      /\ shardStore[c] \in PersistedState
      /\ shardStore[c] \in GoodStates[owner[c]]
    BY <1>1 DEF Typed, ReferencesOwned, Owned, StoresGood, SendGood, SendRecord
<1> HIDE DEF c
<1>3. /\ shardStore'[c] \in PersistedState
      /\ shardStore'[c].shards = IF send.tx = "succeeded"
                                 THEN shardStore[c].shards \ send.inputs
                                 ELSE shardStore[c].shards
      /\ shardStore'[c].lastSyncedBlock = shardStore[c].lastSyncedBlock
      /\ \A d \in Clients \ {c} : shardStore'[d] = shardStore[d]
      /\ DOMAIN shardStore' = Clients /\ shardStore' = [d \in Clients |-> shardStore'[d]]
    BY <1>1, <1>2 DEF Typed, PersistedState
<1>4. shardStore[c].shards \ shardStore'[c].shards \subseteq isShardSpent
    BY <1>3 DEF SendGood
<1>5. shardStore'[c] \in GoodStates[owner[c]]
    BY <1>2, <1>3, <1>4, GoodWithout
<1>6. send' \in SendRecord /\ Owned(send'.client) /\ SendGood'
    BY <1>1 DEF SendRecord, Owned, IdleSend, SendGood
<1> QED
    BY <1>1, <1>2, <1>3, <1>5, <1>6, StoreSaved

\* Relaying changes nothing but the transfer's own progress.
LEMMA RelayStep ==
    ASSUME ApartInv, RelayAccepts \/ \E tx \in {"none", "sent"} : RelayThrows(tx)
    PROVE  ApartInv'
<1> USE DEF RelayAccepts, RelayThrows, ApartInv
<1>1. GoodStates' = GoodStates
    BY StatesRest
<1>2. /\ send' \in SendRecord /\ send'.client \in {NoClient, send.client}
      /\ send'.pc # "idle" => send'.client # NoClient
      /\ send'.tx # "succeeded"
    <2>1. send \in SendRecord /\ send.pc = "relaying" /\ send.client # NoClient
        BY DEF Typed, SendGood
    <2>2. send' \in {IdleSend, [send EXCEPT !.pc = "waiting", !.tx = "sent"],
                     [send EXCEPT !.pc = "idle", !.client = NoClient, !.tx = "sent"]}
        OBVIOUS
    <2> HIDE DEF RelayAccepts, RelayThrows
    <2> QED
        <3>1. CASE send' = IdleSend
            BY <3>1 DEF SendRecord, IdleSend
        <3>2. CASE send' = [send EXCEPT !.pc = "waiting", !.tx = "sent"]
            BY <2>1, <3>2 DEF SendRecord
        <3>3. CASE send' = [send EXCEPT !.pc = "idle", !.client = NoClient, !.tx = "sent"]
            BY <2>1, <3>3 DEF SendRecord
        <3> QED
            BY <2>2, <3>1, <3>2, <3>3
<1>3. UNCHANGED <<owner, shardStore, storage, initializing, ghost, interval, sync, chain>>
    OBVIOUS
<1>4. Typed'
    BY <1>2, <1>3 DEF Typed
<1>5. ReferencesOwned'
    BY <1>2, <1>3 DEF ReferencesOwned, Owned
<1>6. StoresGood' /\ SlotGood' /\ SavesGood' /\ SendGood'
    BY <1>1, <1>2, <1>3 DEF StoresGood, SlotGood, SavesGood, SendGood
<1> QED
    BY <1>4, <1>5, <1>6

-----------------------------------------------------------------------------
(* The chain, and the theorem.                                             *)

\* What is announced or spent leaves every state good.
LEMMA ChainKeepsApart ==
    ASSUME ApartInv, ChainStep
    PROVE  ApartInv'
<1> USE DEF ApartInv
<1>1. \A account \in Accounts : GoodStates[account] \subseteq GoodStates'[account]
    BY StatesGrow
<1>2. UNCHANGED <<owner, shardStore, storage, initializing, ghost, interval, sync>>
    BY DEF ChainStep, Receive, Mined
<1>3. /\ height' \in Nat /\ announcedAt' \in [Shards -> Nat]
      /\ isShardSpent \subseteq isShardSpent'
    BY DEF ChainStep, Receive, Mined, Typed
<1>4. /\ send' \in SendRecord /\ send'.client \in {NoClient, send.client}
      /\ SendGood'
    <2>1. CASE \E x \in Shards : Receive(x)
        BY <2>1 DEF Receive, Typed, SendGood
    <2>2. CASE \E outcome \in {"succeeded", "failed"} : Mined(outcome)
        BY <2>2 DEF Mined, Typed, SendRecord, SendGood, IdleSend
    <2> QED
        BY <2>1, <2>2 DEF ChainStep
<1>5. Typed'
    BY <1>2, <1>3, <1>4 DEF Typed
<1>6. ReferencesOwned'
    BY <1>2, <1>4 DEF ReferencesOwned, Owned
<1>7. StoresGood' /\ SlotGood'
    BY <1>1, <1>2 DEF StoresGood, SlotGood, Typed
<1>8. SavesGood'
    <2> SUFFICES ASSUME NEW s \in Syncs
                 PROVE  /\ sync[s].pc # "idle" => sync[s].client # NoClient
                        /\ sync[s].pc = "save" =>
                              sync[s].saving \in GoodStates'[owner[sync[s].client]]
        BY <1>2 DEF SavesGood
    <2>1. CASE sync[s].pc = "idle"
        BY <2>1
    <2>2. CASE sync[s].pc # "idle"
        <3>1. sync[s].client \in Clients /\ owner[sync[s].client] \in Accounts
            BY <2>2 DEF Typed, SyncRecord, SavesGood, ReferencesOwned, Owned
        <3> QED
            BY <1>1, <3>1 DEF SavesGood
    <2> QED
        BY <2>1, <2>2
<1> QED
    BY <1>4, <1>5, <1>6, <1>7, <1>8

\* At first there is no client, and the slot is empty.
LEMMA ApartInit == Init => ApartInv
<1> SUFFICES ASSUME Init PROVE ApartInv
    OBVIOUS
<1> USE DEF Init
<1>1. EmptyState \in PersistedState
    BY DEF EmptyState, PersistedState
<1>2. IdleSync \in SyncRecord /\ IdleSync.client = NoClient /\ IdleSync.pc = "idle"
    BY <1>1 DEF IdleSync, SyncRecord
<1>3. IdleSend \in SendRecord /\ IdleSend.client = NoClient /\ IdleSend.pc = "idle"
      /\ IdleSend.tx = "none"
    BY DEF IdleSend, SendRecord
<1>4. Typed
    BY <1>1, <1>2, <1>3 DEF Typed
<1>5. ReferencesOwned
    BY <1>2, <1>3 DEF ReferencesOwned, Owned
<1>6. StoresGood /\ SlotGood /\ SavesGood /\ SendGood
    BY <1>2, <1>3 DEF StoresGood, SlotGood, SavesGood, SendGood
<1> QED
    BY <1>4, <1>5, <1>6 DEF ApartInv

\* A step that changes nothing keeps the accounts apart.
LEMMA ApartStutter ==
    ASSUME ApartInv, UNCHANGED vars
    PROVE  ApartInv'
<1> USE DEF vars
<1>1. GoodStates' = GoodStates
    BY StatesRest
<1>2. Typed' /\ ReferencesOwned'
    BY DEF ApartInv, Typed, ReferencesOwned, Owned
<1>3. StoresGood' /\ SlotGood' /\ SavesGood' /\ SendGood'
    BY <1>1 DEF ApartInv, StoresGood, SlotGood, SavesGood, SendGood
<1> QED
    BY <1>2, <1>3 DEF ApartInv

\* Whatever sessions of whatever accounts are open, ending or still saving: the
\* store of a client, and the slot they share, hold the shards of one account and
\* lack none of its money before the cursor.
THEOREM AccountsStayApart == Spec => []SessionsAreApart
<1>1. ApartInv /\ [Next]_vars => ApartInv'
    <2> SUFFICES ASSUME ApartInv, [Next]_vars PROVE ApartInv'
        OBVIOUS
    <2>1. CASE Collect
        BY <2>1, CollectStep
    <2>2. CASE \E s \in Syncs : SyncStep(s)
        BY <2>2, SyncMoves, PipelineStep, SyncEndsStep DEF SyncStep
    <2>3. CASE SendStep
        BY <2>3, SendBegins, SendEnds, RelayStep DEF SendStep
    <2>4. CASE SessionStep
        BY <2>4, BeginInit, EndInit, PageStep, ReloadStep DEF SessionStep
    <2>5. CASE ChainStep
        BY <2>5, ChainKeepsApart
    <2>6. CASE UNCHANGED vars
        BY <2>6, ApartStutter
    <2> QED
        BY <2>1, <2>2, <2>3, <2>4, <2>5, <2>6 DEF Next
<1>2. ApartInv => SessionsAreApart
    BY DEF ApartInv, Typed, StoresGood, SlotGood, GoodStates, SessionsAreApart
<1> QED
    BY <1>1, <1>2, ApartInit, PTL DEF Spec
=============================================================================
