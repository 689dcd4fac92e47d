-------------------------- MODULE GhostClientProofs --------------------------
(***************************************************************************)
(* For any shards, transfers, saves that fail and reloads: the wallet      *)
(* forgets no money, as long as its syncs do not overlap or no save fails. *)
(***************************************************************************)
EXTENDS GhostClient, TLAPS

\* A sync that rolls back restores a store from before another sync's discovery;
\* the code starts syncs by a timer and excludes neither.
NoRollbackIntoOthers == (\A s, r \in Syncs : s = r) \/ MaxFailures = 0

Typed ==
    /\ height \in Nat /\ announcedAt \in [Shards -> Nat]
    /\ saving \in [Processes -> SUBSET PersistedState]
    /\ startCursor \in [Syncs -> Nat] /\ upTo \in [Syncs -> Nat]
    /\ logs \in [Syncs -> SUBSET Shards]
    /\ DOMAIN syncPc = Syncs /\ snapshot \in [Syncs -> PersistedState]
    /\ DOMAIN checking = Syncs
    /\ DOMAIN transferPc = Transfers /\ DOMAIN tx = Transfers /\ DOMAIN inputs = Transfers
    /\ failures \in Nat

\* A state that may become the store's: it is not ahead of the chain, and a sync
\* that starts from it finds all money it lacks.
Safe(store) ==
    /\ store \in PersistedState
    /\ store.lastSyncedBlock <= height
    /\ CoversFunds(store)

\* Every state that is kept anywhere.
StoresSafe ==
    /\ Safe(shardStore) /\ Safe(saved)
    /\ \A p \in Processes : \A store \in saving[p] : Safe(store)
    /\ \A s \in Syncs : Safe(snapshot[s])

\* What a sync knows or will know of the blocks up to its own.
SyncCovers(s) ==
    /\ startCursor[s] <= height /\ upTo[s] <= height
    /\ syncPc[s] = "logs" => \A x \in Funded :
          announcedAt[x] < startCursor[s] => x \in shardStore.shards
    /\ syncPc[s] \in {"snapshot", "decrypt"} => \A x \in Funded :
          announcedAt[x] <= upTo[s] => x \in shardStore.shards \cup logs[s]
    /\ syncPc[s] = "saveDiscovered" => \A x \in Funded :
          announcedAt[x] <= upTo[s] => x \in shardStore.shards

SyncsCover == \A s \in Syncs : SyncCovers(s)

\* A transaction that succeeded has spent the inputs the wallet remembers.
InputsSpent ==
    \A t \in Transfers :
        /\ transferPc[t] \in {"new", "built", "prepared", "relaying"} => tx[t] = "none"
        /\ tx[t] = "succeeded" => inputs[t] \subseteq isShardSpent

FundsInv == Typed /\ StoresSafe /\ SyncsCover /\ InputsSpent

\* What of the chain the wallet's money depends on.
ledger == <<height, announcedAt, isShardSpent>>

USE DEF chain, ledger

-----------------------------------------------------------------------------
(* States of the store.                                                    *)

\* A wallet that starts from nothing reads every block.
LEMMA EmptySafe == ASSUME FundsInv PROVE Safe(EmptyStore)
<1>1. EmptyStore \in PersistedState
    BY DEF EmptyStore, PersistedState
<1>2. \A x \in Funded : announcedAt[x] > 0
    BY DEF FundsInv, Typed, Funded
<1> QED
    BY <1>1, <1>2 DEF Safe, CoversFunds, EmptyStore, FundsInv, Typed, Funded

\* More shards, or fewer that are not money, do not make a state unsafe.
LEMMA SafeShards ==
    ASSUME FundsInv, NEW old, Safe(old), NEW new \in PersistedState,
           new.lastSyncedBlock = old.lastSyncedBlock,
           \A x \in Funded : x \in old.shards => x \in new.shards
    PROVE  Safe(new)
  BY DEF Safe, CoversFunds

\* What the operations of the store do to its shards.
LEMMA StoreOps ==
    ASSUME NEW store \in PersistedState, NEW S \in SUBSET Shards, NEW T
    PROVE  /\ add(store, S) \in PersistedState
           /\ add(store, S).shards = store.shards \cup S
           /\ add(store, S).lastSyncedBlock = store.lastSyncedBlock
           /\ markPending(store, T) \in PersistedState
           /\ markPending(store, T).shards = store.shards
           /\ markPending(store, T).lastSyncedBlock = store.lastSyncedBlock
           /\ removeMany(store, T) \in PersistedState
           /\ removeMany(store, T).shards = store.shards \ T
           /\ removeMany(store, T).lastSyncedBlock = store.lastSyncedBlock
           /\ confirmFailed(store, T) \in PersistedState
           /\ confirmFailed(store, T).shards = store.shards
           /\ confirmFailed(store, T).lastSyncedBlock = store.lastSyncedBlock
           /\ verified(store, T, S) \in PersistedState
           /\ verified(store, T, S).shards = store.shards
           /\ verified(store, T, S).lastSyncedBlock = store.lastSyncedBlock
<1>1. /\ add(store, S) \in PersistedState /\ add(store, S).shards = store.shards \cup S
      /\ add(store, S).lastSyncedBlock = store.lastSyncedBlock
    BY DEF add, PersistedState
<1>2. /\ markPending(store, T) \in PersistedState /\ markPending(store, T).shards = store.shards
      /\ markPending(store, T).lastSyncedBlock = store.lastSyncedBlock
    BY DEF markPending, PersistedState
<1>3. /\ removeMany(store, T) \in PersistedState /\ removeMany(store, T).shards = store.shards \ T
      /\ removeMany(store, T).lastSyncedBlock = store.lastSyncedBlock
    BY DEF removeMany, PersistedState
<1>4. /\ confirmFailed(store, T) \in PersistedState
      /\ confirmFailed(store, T).shards = store.shards
      /\ confirmFailed(store, T).lastSyncedBlock = store.lastSyncedBlock
    BY DEF confirmFailed, PersistedState
<1>5. /\ verified(store, T, S) \in PersistedState /\ verified(store, T, S).shards = store.shards
      /\ verified(store, T, S).lastSyncedBlock = store.lastSyncedBlock
    BY DEF verified, PersistedState
<1> QED
    BY <1>1, <1>2, <1>3, <1>4, <1>5

\* What is saved, loaded and rolled back to comes from safe states.
LEMMA StoresStaySafe ==
    ASSUME FundsInv, UNCHANGED ledger, Safe(shardStore'),
           saved' = saved \/ \E p \in Processes : saved' \in saving[p],
           \A p \in Processes : saving'[p] \in {saving[p], {}, {shardStore'}},
           \A s \in Syncs : snapshot'[s] \in {snapshot[s], EmptyStore, shardStore}
    PROVE  StoresSafe'
<1>1. \A store : Safe(store)' <=> Safe(store)
    BY DEF chain, Safe, CoversFunds, Funded
<1>2. Safe(saved') /\ \A s \in Syncs : Safe(snapshot'[s])
    BY EmptySafe DEF FundsInv, StoresSafe
<1>3. \A p \in Processes : \A store \in saving'[p] : Safe(store)
    <2> SUFFICES ASSUME NEW p \in Processes, NEW store \in saving'[p] PROVE Safe(store)
        OBVIOUS
    <2>1. store \in saving[p] \/ store = shardStore'
        OBVIOUS
    <2> QED
        BY <2>1 DEF FundsInv, StoresSafe
<1>4. Safe(shardStore)' /\ Safe(saved)'
    BY <1>2 DEF chain, Safe, CoversFunds, Funded
<1>5. \A s \in Syncs : Safe(snapshot[s])'
    BY <1>2 DEF chain, Safe, CoversFunds, Funded
<1> QED
    BY <1>1, <1>3, <1>4, <1>5 DEF StoresSafe

-----------------------------------------------------------------------------
(* Syncs.                                                                  *)

\* A sync that does not move keeps its cover while no money leaves the store.
LEMMA SyncRests ==
    ASSUME FundsInv, NEW s \in Syncs, UNCHANGED ledger,
           UNCHANGED <<startCursor[s], upTo[s], logs[s], syncPc[s]>>,
           \A x \in Funded : x \in shardStore.shards => x \in shardStore'.shards
    PROVE  SyncCovers(s)'
  BY DEF FundsInv, SyncsCover, SyncCovers, chain, Funded

\* After its discovery a sync relies on nothing.
Later == {"idle", "spent", "saveSpent", "balances", "saveVerified", "saveFinal", "saveRollback"}

\* A sync that is past its discovery, or over, owes nothing.
LEMMA SyncIsLater ==
    ASSUME FundsInv, NEW s \in Syncs, UNCHANGED ledger, syncPc'[s] \in Later,
           startCursor'[s] \in {0, startCursor[s]}, upTo'[s] \in {0, upTo[s]}
    PROVE  SyncCovers(s)'
  BY DEF FundsInv, Typed, SyncsCover, SyncCovers, chain, Later

\* What does not touch the transfers leaves their inputs as they are.
LEMMA InputsRest ==
    ASSUME FundsInv, UNCHANGED <<isShardSpent, tx, transfer>>
    PROVE  InputsSpent'
  BY DEF FundsInv, InputsSpent, transfer

\* A step of a sync past its discovery, or of a transfer, that only takes shards
\* out of the store that are not money.
LEMMA FundsStay ==
    ASSUME FundsInv, UNCHANGED ledger, shardStore' \in PersistedState,
           shardStore'.lastSyncedBlock = shardStore.lastSyncedBlock,
           \A x \in Funded : x \in shardStore.shards => x \in shardStore'.shards,
           saved' = saved \/ \E p \in Processes : saved' \in saving[p],
           \A p \in Processes : saving'[p] \in {saving[p], {}, {shardStore'}},
           snapshot' = snapshot,
           startCursor' = startCursor, upTo' = upTo, logs' = logs,
           \A s \in Syncs : syncPc'[s] = syncPc[s] \/ syncPc'[s] \in Later
    PROVE  StoresSafe' /\ SyncsCover'
<1>1. Safe(shardStore')
    BY SafeShards DEF FundsInv, StoresSafe
<1>2. StoresSafe'
    BY <1>1, StoresStaySafe
<1>3. SyncsCover'
    <2> SUFFICES ASSUME NEW s \in Syncs PROVE SyncCovers(s)'
        BY DEF SyncsCover
    <2>1. CASE syncPc'[s] = syncPc[s]
        BY <2>1, SyncRests
    <2>2. CASE syncPc'[s] \in Later
        BY <2>2, SyncIsLater
    <2> QED
        BY <2>1, <2>2
<1> QED
    BY <1>2, <1>3

\* A step of a transfer, or of a sync past its discovery, that saves the store or
\* does not, and moves neither the chain nor any cursor.
LEMMA PlainStep ==
    ASSUME FundsInv, UNCHANGED ledger, shardStore' \in PersistedState,
           shardStore'.lastSyncedBlock = shardStore.lastSyncedBlock,
           \A x \in Funded : x \in shardStore.shards => x \in shardStore'.shards,
           saved' = saved \/ \E p \in Processes : saved' \in saving[p],
           UNCHANGED saving \/ \E p \in Processes : nothingToSave(p) \/ persist(p),
           UNCHANGED <<snapshot, startCursor, upTo, logs>>,
           UNCHANGED syncPc \/ \E s \in Syncs, pc \in Later : Goto(s, pc),
           DOMAIN checking' = Syncs, failures' \in Nat,
           DOMAIN transferPc' = Transfers, DOMAIN inputs' = Transfers,
           DOMAIN tx' = Transfers, InputsSpent'
    PROVE  FundsInv'
<1>1. \A p \in Processes : saving'[p] \in {saving[p], {}, {shardStore'}}
    BY DEF FundsInv, Typed, nothingToSave, persist
<1>2. \A s \in Syncs : syncPc'[s] = syncPc[s] \/ syncPc'[s] \in Later
    BY DEF FundsInv, Typed, Goto
<1>3. StoresSafe' /\ SyncsCover'
    BY <1>1, <1>2, FundsStay
<1>4. saving' \in [Processes -> SUBSET PersistedState]
    BY DEF FundsInv, Typed, nothingToSave, persist
<1>5. DOMAIN syncPc' = Syncs
    BY DEF FundsInv, Typed, Goto
<1>6. Typed'
    BY <1>4, <1>5 DEF FundsInv, Typed, chain
<1> QED
    BY <1>3, <1>6 DEF FundsInv

-----------------------------------------------------------------------------
(* The steps of a sync.                                                    *)

\* syncWithChain starts from the cursor, or from the first block.
LEMMA BeginStep ==
    ASSUME FundsInv, NEW s \in Syncs, NEW fromStart \in BOOLEAN, SyncBegins(s, fromStart)
    PROVE  FundsInv'
<1> USE DEF SyncBegins
<1>1. startCursor'[s] \in {0, shardStore.lastSyncedBlock} /\ syncPc'[s] = "logs"
    BY DEF FundsInv, Typed, Goto
<1>2. Typed'
    BY DEF FundsInv, Typed, Goto, StoresSafe, Safe, PersistedState, chain, transfer, bounds
<1>3. StoresSafe'
    <2>1. Safe(shardStore')
        BY DEF FundsInv, StoresSafe
    <2> QED
        BY <2>1, StoresStaySafe
<1>4. SyncsCover'
    <2> SUFFICES ASSUME NEW r \in Syncs PROVE SyncCovers(r)'
        BY DEF SyncsCover
    <2>1. CASE r = s
        <3>1. /\ shardStore.lastSyncedBlock \in Nat /\ shardStore.lastSyncedBlock <= height
              /\ CoversFunds(shardStore)
            BY DEF FundsInv, StoresSafe, Safe, PersistedState
        <3>2. height \in Nat /\ announcedAt \in [Shards -> Nat] /\ upTo[s] <= height
            BY DEF FundsInv, Typed, SyncsCover, SyncCovers
        <3>3. \A x \in Funded : announcedAt[x] < startCursor'[s] => x \in shardStore.shards
            BY <1>1, <3>1, <3>2 DEF CoversFunds, Funded
        <3>4. startCursor'[s] <= height
            BY <1>1, <3>1, <3>2
        <3> QED
            BY <1>1, <2>1, <3>2, <3>3, <3>4 DEF SyncCovers, chain, Funded
    <2>2. CASE r # s
        <3>1. UNCHANGED <<startCursor[r], upTo[r], logs[r], syncPc[r]>>
            BY <2>2 DEF FundsInv, Typed, Goto
        <3> QED
            BY <3>1, SyncRests
    <2> QED
        BY <2>1, <2>2
<1>5. InputsSpent'
    BY InputsRest DEF chain
<1> QED
    BY <1>2, <1>3, <1>4, <1>5 DEF FundsInv

\* The logs from the cursor's block on, with the store, hold all money so far.
LEMMA LogsStep ==
    ASSUME FundsInv, NEW s \in Syncs, LogsArrive(s)
    PROVE  FundsInv'
<1> USE DEF LogsArrive
<1>1. Typed'
    BY DEF FundsInv, Typed, Goto, chain, transfer, bounds
<1>2. StoresSafe'
    <2>1. Safe(shardStore')
        BY DEF FundsInv, StoresSafe
    <2> QED
        BY <2>1, StoresStaySafe
<1>3. SyncsCover'
    <2> SUFFICES ASSUME NEW r \in Syncs PROVE SyncCovers(r)'
        BY DEF SyncsCover
    <2>1. CASE r = s
        <3>1. syncPc'[s] = "snapshot" /\ upTo'[s] = height
              /\ logs'[s] = {x \in Shards : announcedAt[x] # 0
                                            /\ announcedAt[x] >= startCursor[s]}
            BY DEF FundsInv, Typed, Goto
        <3>2. SyncCovers(s)
            BY DEF FundsInv, SyncsCover
        <3>3. startCursor[s] \in Nat /\ height \in Nat /\ announcedAt \in [Shards -> Nat]
            BY DEF FundsInv, Typed
        <3>4. \A x \in Funded : x \in shardStore.shards \/ x \in logs'[s]
            BY <3>1, <3>2, <3>3 DEF SyncCovers, Funded
        <3> QED
            BY <2>1, <3>1, <3>2, <3>3, <3>4 DEF SyncCovers, chain, Funded
    <2>2. CASE r # s
        <3>1. UNCHANGED <<startCursor[r], upTo[r], logs[r], syncPc[r]>>
            BY <2>2 DEF FundsInv, Typed, Goto
        <3> QED
            BY <3>1, SyncRests
    <2> QED
        BY <2>1, <2>2
<1>4. InputsSpent'
    BY InputsRest DEF chain
<1> QED
    BY <1>1, <1>2, <1>3, <1>4 DEF FundsInv

\* The snapshot is the store of that moment, which is safe.
LEMMA SnapshotStep ==
    ASSUME FundsInv, NEW s \in Syncs, TakeSnapshot(s)
    PROVE  FundsInv'
<1> USE DEF TakeSnapshot
<1>1. Typed'
    BY DEF FundsInv, Typed, Goto, StoresSafe, Safe, chain, transfer, bounds
<1>2. StoresSafe'
    <2>1. Safe(shardStore') /\ \A r \in Syncs : snapshot'[r] \in {snapshot[r], shardStore}
        BY DEF FundsInv, StoresSafe, Typed
    <2> QED
        BY <2>1, StoresStaySafe
<1>3. SyncsCover'
    <2> SUFFICES ASSUME NEW r \in Syncs PROVE SyncCovers(r)'
        BY DEF SyncsCover
    <2>1. CASE r = s
        BY <2>1 DEF FundsInv, Typed, Goto, SyncsCover, SyncCovers, chain, Funded
    <2>2. CASE r # s
        <3>1. UNCHANGED <<startCursor[r], upTo[r], logs[r], syncPc[r]>>
            BY <2>2 DEF FundsInv, Typed, Goto
        <3> QED
            BY <3>1, SyncRests
    <2> QED
        BY <2>1, <2>2
<1>4. InputsSpent'
    BY InputsRest DEF chain
<1> QED
    BY <1>1, <1>2, <1>3, <1>4 DEF FundsInv

\* The discovered shards join the store before the cursor moves.
LEMMA ProcessStep ==
    ASSUME FundsInv, NEW s \in Syncs, processAnnouncements(s)
    PROVE  FundsInv'
<1> USE DEF processAnnouncements
<1>1. /\ shardStore' \in PersistedState
      /\ shardStore'.shards = shardStore.shards \cup logs[s]
      /\ shardStore'.lastSyncedBlock = shardStore.lastSyncedBlock
    <2>1. shardStore \in PersistedState /\ logs[s] \in SUBSET Shards
        BY DEF FundsInv, Typed, StoresSafe, Safe
    <2>2. shardStore' = add(shardStore, logs[s])
        OBVIOUS
    <2> HIDE DEF processAnnouncements
    <2> QED
        BY <2>1, <2>2, StoreOps
<1>2. saving' \in [Processes -> SUBSET PersistedState]
      /\ \A p \in Processes : saving'[p] \in {saving[p], {shardStore'}}
    BY <1>1 DEF FundsInv, Typed, persist
<1>3. Typed'
    BY <1>2 DEF FundsInv, Typed, Goto, chain, transfer, bounds
<1>4. StoresSafe'
    <2>1. Safe(shardStore')
        BY <1>1, SafeShards DEF FundsInv, StoresSafe
    <2> QED
        BY <1>2, <2>1, StoresStaySafe
<1>5. SyncsCover'
    <2> SUFFICES ASSUME NEW r \in Syncs PROVE SyncCovers(r)'
        BY DEF SyncsCover
    <2>1. CASE r = s
        BY <1>1, <2>1 DEF FundsInv, Typed, Goto, SyncsCover, SyncCovers, chain, Funded
    <2>2. CASE r # s
        <3>1. UNCHANGED <<startCursor[r], upTo[r], logs[r], syncPc[r]>>
            BY <2>2 DEF FundsInv, Typed, Goto
        <3> QED
            BY <1>1, <3>1, SyncRests
    <2> QED
        BY <2>1, <2>2
<1>6. InputsSpent'
    BY InputsRest DEF chain
<1> QED
    BY <1>3, <1>4, <1>5, <1>6 DEF FundsInv

\* The cursor moves to the last block the sync has seen: the store holds its money.
LEMMA CursorStep ==
    ASSUME FundsInv, NEW s \in Syncs, CursorMoves(s)
    PROVE  FundsInv'
<1> USE DEF CursorMoves
<1>1. SyncCovers(s) /\ syncPc[s] = "saveDiscovered" /\ upTo[s] \in Nat
    BY DEF FundsInv, Typed, SyncsCover
<1>2. /\ shardStore' \in PersistedState
      /\ shardStore'.shards = shardStore.shards
      /\ shardStore'.lastSyncedBlock = upTo[s]
    BY <1>1 DEF FundsInv, StoresSafe, Safe, PersistedState, highestProcessedBlock
<1>3. Safe(shardStore')
    BY <1>1, <1>2 DEF Safe, CoversFunds, SyncCovers
<1>4. saving' \in [Processes -> SUBSET PersistedState]
      /\ \A p \in Processes : saving'[p] \in {saving[p], {}, {shardStore'}}
    BY <1>2 DEF FundsInv, Typed, persist, nothingToSave
<1>5. StoresSafe'
    BY <1>3, <1>4, StoresStaySafe DEF Written, Processes
<1>6. DOMAIN syncPc' = Syncs /\ DOMAIN checking' = Syncs
      /\ syncPc'[s] \in Later /\ \A r \in Syncs \ {s} : syncPc'[r] = syncPc[r]
    BY DEF FundsInv, Typed, Goto, Later
<1>7. Typed'
    BY <1>4, <1>6 DEF FundsInv, Typed, chain, transfer, bounds
<1>8. SyncsCover'
    <2> SUFFICES ASSUME NEW r \in Syncs PROVE SyncCovers(r)'
        BY DEF SyncsCover
    <2>1. CASE r = s
        BY <1>6, <2>1, SyncIsLater
    <2>2. CASE r # s
        BY <1>2, <1>6, <2>2, SyncRests
    <2> QED
        BY <2>1, <2>2
<1>9. InputsSpent'
    BY InputsRest DEF chain
<1> QED
    BY <1>5, <1>7, <1>8, <1>9 DEF FundsInv

\* Only spent shards are removed.
LEMMA CheckStep ==
    ASSUME FundsInv, NEW s \in Syncs,
           SpentArrive(s) \/ SpentFail(s) \/ SpentSaved(s)
    PROVE  FundsInv'
<1>1. shardStore \in PersistedState
    BY DEF FundsInv, StoresSafe, Safe
<1>2. shardStore' \in {shardStore, removeMany(shardStore, spentShards(s))}
    BY DEF SpentArrive, SpentFail, SpentSaved
<1>3. spentShards(s) \cap Funded = {}
    BY DEF spentShards, Funded
<1>4. removeMany(shardStore, spentShards(s)) \in PersistedState
      /\ removeMany(shardStore, spentShards(s)).shards = shardStore.shards \ spentShards(s)
      /\ removeMany(shardStore, spentShards(s)).lastSyncedBlock = shardStore.lastSyncedBlock
    BY <1>1, StoreOps
<1>5. /\ shardStore' \in PersistedState
      /\ shardStore'.lastSyncedBlock = shardStore.lastSyncedBlock
      /\ \A x \in Funded : x \in shardStore.shards => x \in shardStore'.shards
    BY <1>1, <1>2, <1>3, <1>4
<1>6. saved' = saved \/ \E p \in Processes : saved' \in saving[p]
    BY DEF SpentArrive, SpentFail, SpentSaved, Written, Processes
<1>7. \E p \in Processes : nothingToSave(p) \/ persist(p)
    BY DEF SpentArrive, SpentFail, SpentSaved, VerifyNext, Processes
<1>8. \E pc \in Later : Goto(s, pc)
    BY DEF SpentArrive, SpentFail, SpentSaved, VerifyNext, Later
<1>9. UNCHANGED <<chain, snapshot, startCursor, upTo, logs, checking, transfer>>
    BY DEF SpentArrive, SpentFail, SpentSaved
<1>10. failures' \in Nat
    BY DEF SpentArrive, SpentFail, SpentSaved, bounds, FundsInv, Typed
<1>11. InputsSpent'
    BY <1>9, InputsRest DEF chain
<1>12. DOMAIN checking' = Syncs /\ DOMAIN tx' = Transfers
       /\ DOMAIN transferPc' = Transfers /\ DOMAIN inputs' = Transfers
    BY <1>9 DEF FundsInv, Typed, transfer
<1> QED
    BY <1>5, <1>6, <1>7, <1>8, <1>9, <1>10, <1>11, <1>12, PlainStep

\* Balances change no membership.
LEMMA VerifyStep ==
    ASSUME FundsInv, NEW s \in Syncs,
           BalancesArrive(s) \/ BalancesFail(s) \/ VerifiedSaved(s)
    PROVE  FundsInv'
<1>1. shardStore \in PersistedState
    BY DEF FundsInv, StoresSafe, Safe
<1>2. shardStore' \in {shardStore, verified(shardStore, live[s], Funded)}
    BY DEF BalancesArrive, BalancesFail, VerifiedSaved
<1>3. Funded \in SUBSET Shards
    BY DEF Funded
<1>4. /\ verified(shardStore, live[s], Funded) \in PersistedState
      /\ verified(shardStore, live[s], Funded).shards = shardStore.shards
      /\ verified(shardStore, live[s], Funded).lastSyncedBlock = shardStore.lastSyncedBlock
    BY <1>1, <1>3, StoreOps
<1>5. /\ shardStore' \in PersistedState
      /\ shardStore'.lastSyncedBlock = shardStore.lastSyncedBlock
      /\ \A x \in Funded : x \in shardStore.shards => x \in shardStore'.shards
    BY <1>1, <1>2, <1>4
<1>6. saved' = saved \/ \E p \in Processes : saved' \in saving[p]
    BY DEF BalancesArrive, BalancesFail, VerifiedSaved, Written, Processes
<1>7. \E p \in Processes : nothingToSave(p) \/ persist(p)
    BY DEF BalancesArrive, BalancesFail, VerifiedSaved, Processes
<1>8. \E pc \in Later : Goto(s, pc)
    BY DEF BalancesArrive, BalancesFail, VerifiedSaved, Later
<1>9. UNCHANGED <<chain, snapshot, startCursor, upTo, logs, checking, transfer>>
    BY DEF BalancesArrive, BalancesFail, VerifiedSaved
<1>10. failures' \in Nat
    BY DEF BalancesArrive, BalancesFail, VerifiedSaved, bounds, FundsInv, Typed
<1>11. InputsSpent'
    BY <1>9, InputsRest DEF chain
<1>12. DOMAIN checking' = Syncs /\ DOMAIN tx' = Transfers
       /\ DOMAIN transferPc' = Transfers /\ DOMAIN inputs' = Transfers
    BY <1>9 DEF FundsInv, Typed, transfer
<1> QED
    BY <1>5, <1>6, <1>7, <1>8, <1>9, <1>10, <1>11, <1>12, PlainStep

\* Some syncs are over: they rely on nothing, and the others on what they did.
LEMMA ReturnStep ==
    ASSUME FundsInv, NEW ended, Return(ended), UNCHANGED chain, Safe(shardStore'),
           \A x \in Funded : x \in shardStore.shards => x \in shardStore'.shards
                             \/ Syncs \subseteq ended,
           saved' = saved \/ \E p \in Processes : saved' \in saving[p],
           saving' \in [Processes -> SUBSET PersistedState],
           \A p \in Processes : saving'[p] \in {saving[p], {}},
           DOMAIN transferPc' = Transfers, DOMAIN inputs' = Transfers,
           failures' \in Nat, InputsSpent'
    PROVE  FundsInv'
<1> USE DEF Return
<1>1. EmptyStore \in PersistedState
    BY DEF EmptyStore, PersistedState
<1>2. Typed'
    BY <1>1 DEF FundsInv, Typed, chain
<1>3. StoresSafe'
    <2>1. \A s \in Syncs : snapshot'[s] \in {snapshot[s], EmptyStore, shardStore}
        OBVIOUS
    <2>2. \A p \in Processes : saving'[p] \in {saving[p], {}, {shardStore'}}
        OBVIOUS
    <2> QED
        BY <2>1, <2>2, StoresStaySafe
<1>4. SyncsCover'
    <2> SUFFICES ASSUME NEW s \in Syncs PROVE SyncCovers(s)'
        BY DEF SyncsCover
    <2>1. CASE s \in ended
        <3>1. syncPc'[s] \in Later /\ startCursor'[s] = 0 /\ upTo'[s] = 0
            BY <2>1 DEF Later
        <3> QED
            BY <3>1, SyncIsLater
    <2>2. CASE s \notin ended
        <3>1. UNCHANGED <<startCursor[s], upTo[s], logs[s], syncPc[s]>>
            BY <2>2
        <3> QED
            BY <2>2, <3>1, SyncRests
    <2> QED
        BY <2>1, <2>2
<1> QED
    BY <1>2, <1>3, <1>4 DEF FundsInv

\* A sync returns or throws without touching the store.
LEMMA EndStep ==
    ASSUME FundsInv, NEW s \in Syncs,
           LogsFail(s) \/ SyncEnds(s) \/ RollbackFails(s)
    PROVE  FundsInv'
<1> USE DEF LogsFail, SyncEnds, RollbackFails
<1>1. Return({s}) /\ UNCHANGED <<chain, shardStore, transfer>>
    OBVIOUS
<1>2. Safe(shardStore')
    BY <1>1 DEF FundsInv, StoresSafe
<1>3. saved' = saved \/ \E p \in Processes : saved' \in saving[p]
    BY DEF Written, Processes
<1>4. saving' \in [Processes -> SUBSET PersistedState]
      /\ \A p \in Processes : saving'[p] \in {saving[p], {}}
    BY DEF FundsInv, Typed, nothingToSave
<1>5. failures' \in Nat
    BY DEF FundsInv, Typed, bounds
<1>6. InputsSpent'
    BY <1>1, InputsRest DEF chain
<1>7. DOMAIN transferPc' = Transfers /\ DOMAIN inputs' = Transfers
    BY <1>1 DEF FundsInv, Typed, transfer
<1> HIDE DEF LogsFail, SyncEnds, RollbackFails
<1> QED
    BY <1>1, <1>2, <1>3, <1>4, <1>5, <1>6, <1>7, ReturnStep

\* A rollback can hurt only a sync that has found shards and not moved the
\* cursor yet: there is none but the one that rolls back.
LEMMA RollBackStep ==
    ASSUME NoRollbackIntoOthers, FundsInv, NEW s \in Syncs, RollBack(s)
    PROVE  FundsInv'
<1> USE DEF RollBack
<1>1. \A r \in Syncs : r = s
    BY ClientAssumption DEF NoRollbackIntoOthers, FundsInv, Typed
<1>2. Safe(shardStore') /\ shardStore' \in PersistedState
    BY DEF FundsInv, StoresSafe, Safe
<1>3. saving' \in [Processes -> SUBSET PersistedState]
      /\ \A p \in Processes : saving'[p] \in {saving[p], {}, {shardStore'}}
    BY <1>2 DEF FundsInv, Typed, persist
<1>4. StoresSafe'
    BY <1>2, <1>3, StoresStaySafe
<1>5. Typed'
    BY <1>3 DEF FundsInv, Typed, Goto, chain, transfer
<1>6. SyncsCover'
    <2> SUFFICES ASSUME NEW r \in Syncs PROVE SyncCovers(r)'
        BY DEF SyncsCover
    <2>1. syncPc'[r] \in Later
        BY <1>1 DEF FundsInv, Typed, Goto, Later
    <2> QED
        BY <2>1, SyncIsLater
<1>7. InputsSpent'
    BY InputsRest DEF chain
<1> QED
    BY <1>4, <1>5, <1>6, <1>7 DEF FundsInv

-----------------------------------------------------------------------------
(* The steps of a transfer.                                                *)

\* Marking, unmarking and removing spent inputs take no money out of the store.
LEMMA TransferMoves ==
    ASSUME FundsInv, NEW t \in Transfers, TransferStep(t)
    PROVE  /\ shardStore' \in PersistedState
           /\ shardStore'.lastSyncedBlock = shardStore.lastSyncedBlock
           /\ \A x \in Funded : x \in shardStore.shards => x \in shardStore'.shards
<1>1. shardStore \in PersistedState
    BY DEF FundsInv, StoresSafe, Safe
<1>2. CASE confirmPrepared(t)
    <2>1. ChangeOf[t] \in SUBSET Shards
        BY ClientAssumption
    <2> DEFINE marked == markPending(shardStore, inputs[t])
    <2>2. marked \in PersistedState /\ marked.shards = shardStore.shards
          /\ marked.lastSyncedBlock = shardStore.lastSyncedBlock
        BY <1>1, <2>1, StoreOps
    <2> HIDE DEF marked
    <2>3. add(marked, ChangeOf[t]) \in PersistedState
          /\ add(marked, ChangeOf[t]).shards = marked.shards \cup ChangeOf[t]
          /\ add(marked, ChangeOf[t]).lastSyncedBlock = marked.lastSyncedBlock
        BY <2>1, <2>2, StoreOps
    <2>4. shardStore' = add(marked, ChangeOf[t])
        BY <1>2 DEF confirmPrepared, marked
    <2> QED
        BY <2>2, <2>3, <2>4
<1>3. CASE confirmTransaction(t)
    <2>1. removeMany(shardStore, inputs[t]) \in PersistedState
          /\ removeMany(shardStore, inputs[t]).shards = shardStore.shards \ inputs[t]
          /\ removeMany(shardStore, inputs[t]).lastSyncedBlock = shardStore.lastSyncedBlock
        BY <1>1, StoreOps
    <2>2. inputs[t] \cap Funded = {}
        BY <1>3 DEF confirmTransaction, FundsInv, InputsSpent, Funded
    <2>3. shardStore' = removeMany(shardStore, inputs[t])
        BY <1>3 DEF confirmTransaction
    <2> QED
        BY <2>1, <2>2, <2>3
<1>4. CASE waitFailed(t)
    <2>1. confirmFailed(shardStore, inputs[t]) \in PersistedState
          /\ confirmFailed(shardStore, inputs[t]).shards = shardStore.shards
          /\ confirmFailed(shardStore, inputs[t]).lastSyncedBlock = shardStore.lastSyncedBlock
        BY <1>1, StoreOps
    <2>2. shardStore' = confirmFailed(shardStore, inputs[t])
        BY <1>4 DEF waitFailed
    <2> QED
        BY <2>1, <2>2
<1>5. CASE UNCHANGED shardStore
    BY <1>1, <1>5
<1>6. \/ confirmPrepared(t) \/ confirmTransaction(t) \/ waitFailed(t)
      \/ UNCHANGED shardStore
    BY DEF TransferStep, buildTransaction, PreparedSaved, RelayAccepts, RelayThrows,
           waitThrows, OutcomeSaved, TransferSaveFails
<1> QED
    BY <1>2, <1>3, <1>4, <1>5, <1>6

\* A transfer's transaction is unknown to the chain until it is relayed.
LEMMA TransferInputs ==
    ASSUME FundsInv, NEW t \in Transfers, TransferStep(t)
    PROVE  /\ InputsSpent'
           /\ DOMAIN transferPc' = Transfers /\ DOMAIN inputs' = Transfers
           /\ DOMAIN tx' = Transfers
<1> USE DEF FundsInv, Typed, InputsSpent
<1>1. CASE \E selected \in SUBSET Shards : buildTransaction(t, selected)
    BY <1>1 DEF buildTransaction, TransferAt, chain
<1>2. CASE confirmPrepared(t) \/ PreparedSaved(t)
    BY <1>2 DEF confirmPrepared, PreparedSaved, TransferAt, chain
<1>3. CASE RelayAccepts(t)
    BY <1>3 DEF RelayAccepts, TransferAt
<1>4. CASE \E outcome \in {"none", "sent"} : RelayThrows(t, outcome)
    BY <1>4 DEF RelayThrows, TransferAt
<1>5. CASE confirmTransaction(t) \/ waitFailed(t) \/ waitThrows(t)
    BY <1>5 DEF confirmTransaction, waitFailed, waitThrows, TransferAt, chain
<1>6. CASE OutcomeSaved(t)
    BY <1>6 DEF OutcomeSaved, chain, transfer
<1>7. CASE TransferSaveFails(t)
    BY <1>7 DEF TransferSaveFails, chain
<1> QED
    BY <1>1, <1>2, <1>3, <1>4, <1>5, <1>6, <1>7 DEF TransferStep

\* The chain's answer to a relay is all that a transfer changes outside the wallet.
LEMMA PlainTransfer ==
    ASSUME FundsInv, NEW t \in Transfers, TransferStep(t)
    PROVE  FundsInv'
<1> USE DEF TransferStep, buildTransaction, confirmPrepared, PreparedSaved, RelayAccepts,
            RelayThrows, confirmTransaction, waitFailed, waitThrows, OutcomeSaved,
            TransferSaveFails
<1>1. UNCHANGED <<height, announcedAt, isShardSpent, syncPc, startCursor, logs, upTo,
                  snapshot, checking>>
    BY DEF chain, sync
<1>2. saved' = saved \/ \E p \in Processes : saved' \in saving[p]
    BY DEF Written, Processes
<1>3. \/ UNCHANGED saving \/ \E p \in Processes : nothingToSave(p) \/ persist(p)
    BY DEF Processes
<1>4. failures' \in Nat
    BY DEF FundsInv, Typed, bounds
<1> HIDE DEF TransferStep, buildTransaction, confirmPrepared, PreparedSaved, RelayAccepts,
             RelayThrows, confirmTransaction, waitFailed, waitThrows, OutcomeSaved,
             TransferSaveFails
<1>5. /\ shardStore' \in PersistedState
      /\ shardStore'.lastSyncedBlock = shardStore.lastSyncedBlock
      /\ \A x \in Funded : x \in shardStore.shards => x \in shardStore'.shards
    BY TransferMoves
<1>6. /\ InputsSpent'
      /\ DOMAIN transferPc' = Transfers /\ DOMAIN inputs' = Transfers
      /\ DOMAIN tx' = Transfers
    BY TransferInputs
<1>7. DOMAIN checking' = Syncs
    BY <1>1 DEF FundsInv, Typed
<1> QED
    BY <1>1, <1>2, <1>3, <1>4, <1>5, <1>6, <1>7, PlainStep

-----------------------------------------------------------------------------
(* The chain, a reload, and the theorem.                                   *)

\* The chain grows: what was announced or spent stays so, and what becomes money
\* is announced in a block after every one that was seen.
LEMMA ChainGrows ==
    ASSUME FundsInv, ChainStep
    PROVE  /\ UNCHANGED <<shardStore, saved, saving, sync, transfer, bounds>>
           /\ DOMAIN tx' = Transfers
           /\ height' = height + 1
           /\ announcedAt' \in [Shards -> Nat]
           /\ \A x \in Shards : announcedAt'[x] = announcedAt[x] \/ announcedAt'[x] = height'
           /\ isShardSpent \subseteq isShardSpent'
           /\ \A t \in Transfers :
                 \/ tx'[t] = tx[t]
                 \/ tx[t] = "sent" /\ (tx'[t] = "succeeded" => inputs[t] \subseteq isShardSpent')
<1> USE DEF FundsInv, Typed
<1>1. CASE \E x \in Deposits : Receive(x)
    BY <1>1, ClientAssumption DEF Receive
<1>2. CASE \E t \in Transfers : MineSuccess(t)
    BY <1>2 DEF MineSuccess
<1>3. CASE \E t \in Transfers, outcome \in {"failed", "reverted"} : MineFailure(t, outcome)
    BY <1>3 DEF MineFailure
<1> QED
    BY <1>1, <1>2, <1>3 DEF ChainStep

\* What the chain adds lies in blocks that the next sync reads.
LEMMA ChainSafe ==
    ASSUME FundsInv, ChainStep
    PROVE  FundsInv'
<1>1. height \in Nat /\ announcedAt \in [Shards -> Nat] /\ height' = height + 1
    BY ChainGrows DEF FundsInv, Typed
<1>2. \A x \in Shards, b \in Nat :
         b <= height /\ x \in Funded' /\ announcedAt'[x] <= b => x \in Funded
                                                     /\ announcedAt'[x] = announcedAt[x]
    BY <1>1, ChainGrows DEF Funded
<1>3. \A store : Safe(store) => Safe(store)'
    <2> SUFFICES ASSUME NEW store, Safe(store) PROVE Safe(store)'
        OBVIOUS
    <2>1. store \in PersistedState /\ store.lastSyncedBlock \in Nat
          /\ store.lastSyncedBlock <= height
        BY DEF Safe, PersistedState
    <2>2. \A x \in Funded' : announcedAt'[x] <= store.lastSyncedBlock => x \in store.shards
        BY <1>2, <2>1 DEF Safe, CoversFunds, Funded
    <2> QED
        BY <1>1, <2>1, <2>2 DEF Safe, CoversFunds
<1>4. StoresSafe'
    BY <1>3, ChainGrows DEF FundsInv, StoresSafe, sync
<1>5. SyncsCover'
    <2> SUFFICES ASSUME NEW s \in Syncs PROVE SyncCovers(s)'
        BY DEF SyncsCover
    <2>1. /\ startCursor[s] \in Nat /\ upTo[s] \in Nat
          /\ UNCHANGED <<shardStore, startCursor, upTo, logs, syncPc>>
          /\ SyncCovers(s)
        BY ChainGrows DEF FundsInv, Typed, SyncsCover, sync
    <2>2. \A x \in Funded' : announcedAt'[x] < startCursor[s] =>
             x \in Funded /\ announcedAt[x] < startCursor[s]
        BY <1>1, <2>1, ChainGrows DEF SyncCovers, Funded
    <2>3. \A x \in Funded' : announcedAt'[x] <= upTo[s] =>
             x \in Funded /\ announcedAt[x] <= upTo[s]
        BY <1>2, <2>1 DEF SyncCovers, Funded
    <2> QED
        BY <1>1, <2>1, <2>2, <2>3 DEF SyncCovers
<1>6. InputsSpent'
    BY ChainGrows DEF FundsInv, InputsSpent, transfer
<1>7. Typed'
    BY <1>1, ChainGrows DEF FundsInv, Typed, sync, transfer, bounds
<1> QED
    BY <1>4, <1>5, <1>6, <1>7 DEF FundsInv

\* A reload loads what was saved, or starts from nothing, and ends every sync.
LEMMA ReloadStep ==
    ASSUME FundsInv, Reload
    PROVE  FundsInv'
<1> USE DEF Reload
<1>1. Safe(shardStore')
    BY EmptySafe DEF FundsInv, StoresSafe
<1>2. \A x \in Funded : x \in shardStore.shards => x \in shardStore'.shards
                                              \/ Syncs \subseteq Syncs
    OBVIOUS
<1>3. saving' \in [Processes -> SUBSET PersistedState]
      /\ \A p \in Processes : saving'[p] \in {saving[p], {}}
    OBVIOUS
<1>4. DOMAIN transferPc' = Transfers /\ DOMAIN inputs' = Transfers /\ failures' \in Nat
    BY DEF FundsInv, Typed
<1>5. InputsSpent'
    BY DEF FundsInv, InputsSpent
<1>6. Return(Syncs) /\ UNCHANGED chain /\ saved' = saved
    OBVIOUS
<1> HIDE DEF Reload, chain, ledger
<1> QED
    BY <1>1, <1>2, <1>3, <1>4, <1>5, <1>6, ReturnStep

\* The first states are safe: there is no money yet.
LEMMA FundsInit == Init => FundsInv
<1> SUFFICES ASSUME Init PROVE FundsInv
    OBVIOUS
<1> USE DEF Init
<1>1. EmptyStore \in PersistedState /\ EmptyStore.lastSyncedBlock = 0
    BY DEF EmptyStore, PersistedState
<1>2. Typed
    BY <1>1 DEF Typed
<1>3. Funded = {}
    BY DEF Funded
<1>4. StoresSafe
    BY <1>1, <1>3 DEF StoresSafe, Safe, CoversFunds
<1>5. SyncsCover
    BY <1>3 DEF SyncsCover, SyncCovers
<1>6. InputsSpent
    BY DEF InputsSpent
<1> QED
    BY <1>2, <1>4, <1>5, <1>6 DEF FundsInv

\* A step that changes nothing keeps everything safe.
LEMMA FundsStutter ==
    ASSUME FundsInv, UNCHANGED vars
    PROVE  FundsInv'
<1> USE DEF vars, sync, transfer, bounds
<1>1. \A store : Safe(store)' <=> Safe(store)
    BY DEF Safe, CoversFunds, Funded
<1>2. StoresSafe'
    BY <1>1 DEF FundsInv, StoresSafe
<1>3. SyncsCover' /\ InputsSpent' /\ Typed'
    BY DEF FundsInv, SyncsCover, SyncCovers, Funded, InputsSpent, Typed
<1> QED
    BY <1>2, <1>3 DEF FundsInv

\* No money drops out of the wallet's sight: whatever the order of saves, failed
\* saves, rollbacks, confirmations and reloads, a spendable shard is in the store,
\* and in what a reload would load, or in a block the next sync reads.
THEOREM NothingForgotten ==
    ASSUME NoRollbackIntoOthers
    PROVE  Spec => []NoFundsForgotten
<1>1. FundsInv /\ [Next]_vars => FundsInv'
    <2> SUFFICES ASSUME FundsInv, [Next]_vars PROVE FundsInv'
        OBVIOUS
    <2>1. CASE \E s \in Syncs : SyncStep(s)
        BY <2>1, BeginStep, LogsStep, SnapshotStep, ProcessStep, CursorStep, CheckStep,
           VerifyStep, EndStep, RollBackStep DEF SyncStep
    <2>2. CASE \E t \in Transfers : TransferStep(t)
        BY <2>2, PlainTransfer
    <2>3. CASE ChainStep
        BY <2>3, ChainSafe
    <2>4. CASE Reload
        BY <2>4, ReloadStep
    <2>5. CASE UNCHANGED vars
        BY <2>5, FundsStutter
    <2> QED
        BY <2>1, <2>2, <2>3, <2>4, <2>5 DEF Next
<1>2. FundsInv => NoFundsForgotten
    BY DEF FundsInv, StoresSafe, Safe, NoFundsForgotten
<1> QED
    BY <1>1, <1>2, FundsInit, PTL DEF Spec
=============================================================================
