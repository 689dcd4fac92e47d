----------------------------- MODULE GhostClient -----------------------------
(***************************************************************************)
(* The wallet (ghost-shard-sdk/src/index.ts and shard.ts): an in-memory    *)
(* shard store that syncs with the chain in the background while transfers *)
(* are built, relayed and confirmed, and that is saved after every change. *)
(*                                                                         *)
(* Everything runs on one JavaScript event loop: what happens between two  *)
(* awaits is one step.  Each save, log query, contract read and relay call *)
(* is an await, and a sync or a transfer resumes on the store it finds     *)
(* then.  Amounts are abstracted to "the store shows a balance" (valued).  *)
(***************************************************************************)
EXTENDS Integers, FiniteSetsExt

CONSTANTS
    Shards,      \* stealth addresses of this wallet
    Deposits,    \* those that receive assets from somebody else
    Transfers,   \* relayTransfer calls
    ChangeOf,    \* the fresh change addresses of each transfer
    Syncs,       \* syncWithChain calls that may overlap
    MaxFailures, \* bound: failed saves and failed reads
    MaxRestarts  \* bound: page reloads

ASSUME ClientAssumption ==
    /\ Deposits \subseteq Shards
    /\ ChangeOf \in [Transfers -> SUBSET (Shards \ Deposits)]
    /\ Transfers \cap Syncs = {}
    /\ MaxFailures \in Nat /\ MaxRestarts \in Nat

\* The shards in the store, which of them are pending, which of them show a
\* balance, and the block the next sync starts from.
PersistedState == [shards : SUBSET Shards, pending : SUBSET Shards,
                   valued : SUBSET Shards, lastSyncedBlock : Nat]

EmptyStore == [shards |-> {}, pending |-> {}, valued |-> {}, lastSyncedBlock |-> 0]

VARIABLES
    height,       \* the latest block
    announcedAt,  \* the block that announced a shard, 0 if none did
    isShardSpent, \* the router's flag
    tx,           \* what the chain did with a transfer's transaction
    shardStore,   \* ShardStore
    saved,        \* what the storage adapter would load
    saving,       \* saves under way: the states they write
    syncPc,       \* the await at which a sync stands, or "idle"
    startCursor,  \* the first block it asked logs of
    logs,         \* own shards in the logs it was given
    upTo,         \* highestProcessedBlock
    snapshot,     \* the store when its pipeline started
    checking,     \* the shards whose spent flag it asked for
    live,         \* the store objects it is verifying, still in the store
    transferPc,   \* the await at which a transfer stands
    inputs,       \* the shards it selected
    failures,     \* failed saves and reads so far
    restarts      \* reloads so far

chain     == <<height, announcedAt, isShardSpent, tx>>
sync      == <<syncPc, startCursor, logs, upTo, snapshot, checking, live>>
transfer  == <<transferPc, inputs>>
bounds    == <<failures, restarts>>
vars == <<chain, shardStore, saved, saving, sync, transfer, bounds>>

Processes == Syncs \cup Transfers

-----------------------------------------------------------------------------
(* ShardStore.                                                             *)

\* A shard that is there already is left alone, pending flag and all.
add(store, new) ==
    [store EXCEPT !.shards = @ \cup new, !.valued = @ \cup (new \ store.shards)]

getUnspent(store) == store.shards \ store.pending

markPending(store, addresses) ==
    [store EXCEPT !.pending = @ \cup (addresses \cap store.shards)]

removeMany(store, addresses) ==
    [store EXCEPT !.shards = @ \ addresses, !.pending = @ \ addresses,
                  !.valued = @ \ addresses]

confirmFailed(store, addresses) == [store EXCEPT !.pending = @ \ addresses]

\* verifyShardBalances writes what the chain says into the objects it was given.
\* Mutant: a shard that once showed nothing never shows a balance again.
verifiedDown(store, objects, funded) ==
    [store EXCEPT !.valued = @ \ (objects \ funded)]

verified(store, objects, funded) ==
    [store EXCEPT !.valued = (@ \ objects) \cup (objects \cap funded)]

\* What the wallet can spend on the chain.
Funded == {x \in Shards : announcedAt[x] # 0} \ isShardSpent

-----------------------------------------------------------------------------
Init ==
    /\ height = 0
    /\ announcedAt = [x \in Shards |-> 0]
    /\ isShardSpent = {}
    /\ tx = [t \in Transfers |-> "none"]
    /\ shardStore = EmptyStore
    /\ saved = EmptyStore
    /\ saving = [p \in Processes |-> {}]
    /\ syncPc = [s \in Syncs |-> "idle"]
    /\ startCursor = [s \in Syncs |-> 0]
    /\ logs = [s \in Syncs |-> {}]
    /\ upTo = [s \in Syncs |-> 0]
    /\ snapshot = [s \in Syncs |-> EmptyStore]
    /\ checking = [s \in Syncs |-> {}]
    /\ live = [s \in Syncs |-> {}]
    /\ transferPc = [t \in Transfers |-> "new"]
    /\ inputs = [t \in Transfers |-> {}]
    /\ failures = 0
    /\ restarts = 0

-----------------------------------------------------------------------------
(* The chain.  One announcement or one transaction per block; other users  *)
(* announce in every block, so its number is always among the logs.        *)

Receive(x) ==
    /\ announcedAt[x] = 0
    /\ height' = height + 1
    /\ announcedAt' = [announcedAt EXCEPT ![x] = height + 1]
    /\ UNCHANGED <<isShardSpent, tx, shardStore, saved, saving, sync, transfer, bounds>>

MineSuccess(t) ==
    /\ tx[t] = "sent"
    /\ inputs[t] \subseteq Funded
    /\ tx' = [tx EXCEPT ![t] = "succeeded"]
    /\ height' = height + 1
    /\ isShardSpent' = isShardSpent \cup inputs[t]
    /\ announcedAt' = [x \in Shards |-> IF x \in ChangeOf[t] THEN height + 1
                                         ELSE announcedAt[x]]
    /\ UNCHANGED <<shardStore, saved, saving, sync, transfer, bounds>>

\* The inner call fails, or executeMesh reverts as a whole.
MineFailure(t, outcome) ==
    /\ tx[t] = "sent"
    /\ tx' = [tx EXCEPT ![t] = outcome]
    /\ height' = height + 1
    /\ UNCHANGED <<announcedAt, isShardSpent, shardStore, saved, saving, sync,
                   transfer, bounds>>

-----------------------------------------------------------------------------
(* persist(): the state is exported at once and written some time later.   *)

\* The save that p began is written now.
Written(p) == saving[p] # {} /\ saved' \in saving[p]

\* p begins to save the store as this step leaves it.
persist(p) == saving' = [saving EXCEPT ![p] = {shardStore'}]

nothingToSave(p) == saving' = [saving EXCEPT ![p] = {}]

\* removeMany and importState replace objects that a verification may hold.
Detach(gone) == [s \in Syncs |-> live[s] \ gone]

-----------------------------------------------------------------------------
(* syncWithChain().                                                        *)

Goto(s, pc) == syncPc' = [syncPc EXCEPT ![s] = pc]

\* syncWithChain() returns or throws, in the syncs ended: its locals are gone.
Return(ended) ==
    /\ syncPc' = [s \in Syncs |-> IF s \in ended THEN "idle" ELSE syncPc[s]]
    /\ startCursor' = [s \in Syncs |-> IF s \in ended THEN 0 ELSE startCursor[s]]
    /\ logs' = [s \in Syncs |-> IF s \in ended THEN {} ELSE logs[s]]
    /\ upTo' = [s \in Syncs |-> IF s \in ended THEN 0 ELSE upTo[s]]
    /\ snapshot' = [s \in Syncs |-> IF s \in ended THEN EmptyStore ELSE snapshot[s]]
    /\ checking' = [s \in Syncs |-> IF s \in ended THEN {} ELSE checking[s]]
    /\ live' = [s \in Syncs |-> IF s \in ended THEN {} ELSE live[s]]

SyncBegins(s, fromStart) ==
    /\ syncPc[s] = "idle"
    /\ Goto(s, "logs")
    /\ startCursor' = [startCursor EXCEPT
                         ![s] = IF fromStart THEN 0 ELSE shardStore.lastSyncedBlock]
    /\ UNCHANGED <<chain, shardStore, saved, saving, logs, upTo, snapshot, checking,
                   live, transfer, bounds>>

\* The node answers getLogs from the cursor's block to the latest.
LogsArrive(s) ==
    /\ syncPc[s] = "logs"
    /\ Goto(s, "snapshot")
    /\ logs' = [logs EXCEPT ![s] = {x \in Shards : announcedAt[x] # 0
                                         /\ announcedAt[x] >= startCursor[s]}]
    /\ upTo' = [upTo EXCEPT ![s] = height]
    /\ UNCHANGED <<chain, shardStore, saved, saving, startCursor, snapshot, checking,
                   live, transfer, bounds>>

\* A failed query throws before anything has changed.
LogsFail(s) ==
    /\ syncPc[s] = "logs"
    /\ failures < MaxFailures
    /\ failures' = failures + 1
    /\ Return({s})
    /\ UNCHANGED <<chain, shardStore, saved, saving, transfer, restarts>>

\* The sync resumes, keeps a snapshot and starts to decrypt.
TakeSnapshot(s) ==
    /\ syncPc[s] = "snapshot"
    /\ Goto(s, "decrypt")
    /\ snapshot' = [snapshot EXCEPT ![s] = shardStore]
    /\ UNCHANGED <<chain, shardStore, saved, saving, startCursor, logs, upTo,
                   checking, live, transfer, bounds>>

processAnnouncements(s) ==
    /\ syncPc[s] = "decrypt"
    /\ Goto(s, "saveDiscovered")
    /\ shardStore' = add(shardStore, logs[s])
    /\ persist(s)
    /\ UNCHANGED <<chain, saved, startCursor, logs, upTo, snapshot, checking, live,
                   transfer, bounds>>

\* syncSpentShards() has finished: verify what is unspent now, if anything.
VerifyNext(s) ==
    \/ /\ getUnspent(shardStore) # {}
       /\ Goto(s, "balances")
       /\ live' = [live EXCEPT ![s] = getUnspent(shardStore)]
       /\ nothingToSave(s)
    \/ /\ getUnspent(shardStore) = {}
       /\ Goto(s, "saveFinal")
       /\ live' = live
       /\ persist(s)

\* Mutant: the cursor moves to the latest block instead of the latest one seen.
highestBlockNow(s) == height

highestProcessedBlock(s) == upTo[s]

\* The discovered shards are saved: the cursor moves on, and the spent flags of
\* all unspent shards are asked for.
CursorMoves(s) ==
    /\ syncPc[s] = "saveDiscovered"
    /\ Written(s)
    /\ shardStore' = [shardStore EXCEPT !.lastSyncedBlock = highestProcessedBlock(s)]
    /\ \/ /\ getUnspent(shardStore) # {}
          /\ Goto(s, "spent")
          /\ checking' = [checking EXCEPT ![s] = getUnspent(shardStore)]
          /\ nothingToSave(s)
       \/ /\ getUnspent(shardStore) = {}
          /\ Goto(s, "saveFinal")
          /\ checking' = checking
          /\ persist(s)
    /\ UNCHANGED <<chain, startCursor, logs, upTo, snapshot, live, transfer, bounds>>

\* Mutant: only shards found by this very sync are looked at.
spentShardsFound(s) == checking[s] \cap isShardSpent \cap logs[s]

spentShards(s) == checking[s] \cap isShardSpent

SpentArrive(s) ==
    /\ syncPc[s] = "spent"
    /\ \/ /\ spentShards(s) # {}
          /\ shardStore' = removeMany(shardStore, spentShards(s))
          /\ live' = Detach(spentShards(s))
          /\ Goto(s, "saveSpent")
          /\ persist(s)
       \/ /\ spentShards(s) = {}
          /\ shardStore' = shardStore
          /\ VerifyNext(s)
    /\ UNCHANGED <<chain, saved, startCursor, logs, upTo, snapshot, checking,
                   transfer, bounds>>

\* A failed multicall leaves every shard of its chunk unspent.
SpentFail(s) ==
    /\ syncPc[s] = "spent"
    /\ failures < MaxFailures
    /\ failures' = failures + 1
    /\ shardStore' = shardStore
    /\ VerifyNext(s)
    /\ UNCHANGED <<chain, saved, startCursor, logs, upTo, snapshot, checking,
                   transfer, restarts>>

SpentSaved(s) ==
    /\ syncPc[s] = "saveSpent"
    /\ Written(s)
    /\ shardStore' = shardStore
    /\ VerifyNext(s)
    /\ UNCHANGED <<chain, startCursor, logs, upTo, snapshot, checking, transfer, bounds>>

BalancesArrive(s) ==
    /\ syncPc[s] = "balances"
    /\ Goto(s, "saveVerified")
    /\ shardStore' = verified(shardStore, live[s], Funded)
    /\ persist(s)
    /\ UNCHANGED <<chain, saved, startCursor, logs, upTo, snapshot, checking, live,
                   transfer, bounds>>

\* A failed multicall leaves the balances as they are; the save follows anyway.
BalancesFail(s) ==
    /\ syncPc[s] = "balances"
    /\ failures < MaxFailures
    /\ failures' = failures + 1
    /\ Goto(s, "saveVerified")
    /\ shardStore' = shardStore
    /\ persist(s)
    /\ UNCHANGED <<chain, saved, startCursor, logs, upTo, snapshot, checking, live,
                   transfer, restarts>>

VerifiedSaved(s) ==
    /\ syncPc[s] = "saveVerified"
    /\ Written(s)
    /\ Goto(s, "saveFinal")
    /\ shardStore' = shardStore
    /\ persist(s)
    /\ UNCHANGED <<chain, startCursor, logs, upTo, snapshot, checking, live,
                   transfer, bounds>>

\* The last save of the pipeline, or that of a rollback.
SyncEnds(s) ==
    /\ syncPc[s] \in {"saveFinal", "saveRollback"}
    /\ Written(s)
    /\ Return({s})
    /\ nothingToSave(s)
    /\ UNCHANGED <<chain, shardStore, transfer, bounds>>

\* A save inside the pipeline fails: the whole store goes back to the snapshot,
\* whatever else has happened to it since, and that is saved.
RollBack(s) ==
    /\ syncPc[s] \in {"saveDiscovered", "saveSpent", "saveVerified", "saveFinal"}
    /\ failures < MaxFailures
    /\ failures' = failures + 1
    /\ Goto(s, "saveRollback")
    /\ shardStore' = snapshot[s]
    /\ live' = Detach(Shards)
    /\ persist(s)
    /\ UNCHANGED <<chain, saved, startCursor, logs, upTo, snapshot, checking,
                   transfer, restarts>>

RollbackFails(s) ==
    /\ syncPc[s] = "saveRollback"
    /\ failures < MaxFailures
    /\ failures' = failures + 1
    /\ Return({s})
    /\ nothingToSave(s)
    /\ UNCHANGED <<chain, shardStore, saved, transfer, restarts>>

-----------------------------------------------------------------------------
(* relayTransfer() and the wait() it returns.                              *)

TransferAt(t, pc) == transferPc' = [transferPc EXCEPT ![t] = pc]

\* buildTransaction: some unspent shards that show a balance are selected, and
\* signing starts; nothing is marked yet.
buildTransaction(t, selected) ==
    /\ transferPc[t] = "new"
    /\ selected # {}
    /\ selected \subseteq getUnspent(shardStore) \cap shardStore.valued
    /\ TransferAt(t, "built")
    /\ inputs' = [inputs EXCEPT ![t] = selected]
    /\ UNCHANGED <<chain, shardStore, saved, saving, sync, bounds>>

confirmPrepared(t) ==
    /\ transferPc[t] = "built"
    /\ TransferAt(t, "prepared")
    /\ shardStore' = add(markPending(shardStore, inputs[t]), ChangeOf[t])
    /\ persist(t)
    /\ UNCHANGED <<chain, saved, sync, inputs, bounds>>

PreparedSaved(t) ==
    /\ transferPc[t] = "prepared"
    /\ Written(t)
    /\ nothingToSave(t)
    /\ TransferAt(t, "relaying")
    /\ UNCHANGED <<chain, shardStore, sync, inputs, bounds>>

\* The paymaster signs, the relayer broadcasts and answers with the hash.
RelayAccepts(t) ==
    /\ transferPc[t] = "relaying"
    /\ tx' = [tx EXCEPT ![t] = "sent"]
    /\ TransferAt(t, "waiting")
    /\ UNCHANGED <<height, announcedAt, isShardSpent, shardStore, saved, saving,
                   sync, inputs, bounds>>

\* relayTransfer throws: no signature, no quote, the relayer refuses, or its
\* answer is lost after the broadcast.  Nothing is undone.
RelayThrows(t, outcome) ==
    /\ transferPc[t] = "relaying"
    /\ tx' = [tx EXCEPT ![t] = outcome]
    /\ TransferAt(t, "abandoned")
    /\ UNCHANGED <<height, announcedAt, isShardSpent, shardStore, saved, saving,
                   sync, inputs, bounds>>

\* wait() sees a successful inner call: confirmTransaction.
confirmTransaction(t) ==
    /\ transferPc[t] = "waiting"
    /\ tx[t] = "succeeded"
    /\ TransferAt(t, "confirmed")
    /\ shardStore' = removeMany(shardStore, inputs[t])
    /\ live' = Detach(inputs[t])
    /\ persist(t)
    /\ UNCHANGED <<chain, saved, syncPc, startCursor, logs, upTo, snapshot, checking,
                   inputs, bounds>>

\* wait() sees a failed inner call: confirmFailed, without a change address.
waitFailed(t) ==
    /\ transferPc[t] = "waiting"
    /\ tx[t] = "failed"
    /\ TransferAt(t, "failed")
    /\ shardStore' = confirmFailed(shardStore, inputs[t])
    /\ persist(t)
    /\ UNCHANGED <<chain, saved, sync, inputs, bounds>>

\* wait() throws: no receipt in time, or a receipt without MeshExecuted.
waitThrows(t) ==
    /\ transferPc[t] = "waiting"
    /\ TransferAt(t, "abandoned")
    /\ UNCHANGED <<chain, shardStore, saved, saving, sync, inputs, bounds>>

\* The save of a finished transfer ends; if it fails, wait() throws.
OutcomeSaved(t) ==
    /\ transferPc[t] \in {"confirmed", "failed"}
    /\ Written(t)
    /\ nothingToSave(t)
    /\ UNCHANGED <<chain, shardStore, sync, transfer, bounds>>

TransferSaveFails(t) ==
    /\ saving[t] # {}
    /\ failures < MaxFailures
    /\ failures' = failures + 1
    /\ nothingToSave(t)
    /\ transferPc' = [transferPc EXCEPT
                        ![t] = IF @ = "prepared" THEN "abandoned" ELSE @]
    /\ UNCHANGED <<chain, shardStore, saved, sync, inputs, restarts>>

-----------------------------------------------------------------------------
\* The page is reloaded: what was saved is loaded, unless it holds no shard,
\* and everything under way is gone.
Reload ==
    /\ restarts < MaxRestarts
    /\ restarts' = restarts + 1
    /\ shardStore' = IF saved.shards # {} THEN saved ELSE EmptyStore
    /\ saving' = [p \in Processes |-> {}]
    /\ Return(Syncs)
    /\ transferPc' = [t \in Transfers |->
                        IF transferPc[t] \in {"new", "confirmed", "failed"}
                        THEN transferPc[t] ELSE "abandoned"]
    /\ UNCHANGED <<chain, saved, inputs, failures>>

SyncStep(s) ==
    \/ \E fromStart \in BOOLEAN : SyncBegins(s, fromStart)
    \/ LogsArrive(s) \/ LogsFail(s) \/ TakeSnapshot(s) \/ processAnnouncements(s)
    \/ CursorMoves(s)
    \/ SpentArrive(s) \/ SpentFail(s) \/ SpentSaved(s)
    \/ BalancesArrive(s) \/ BalancesFail(s) \/ VerifiedSaved(s)
    \/ SyncEnds(s) \/ RollBack(s) \/ RollbackFails(s)

TransferStep(t) ==
    \/ \E selected \in SUBSET Shards : buildTransaction(t, selected)
    \/ confirmPrepared(t) \/ PreparedSaved(t)
    \/ RelayAccepts(t)
    \/ \E outcome \in {"none", "sent"} : RelayThrows(t, outcome)
    \/ confirmTransaction(t) \/ waitFailed(t) \/ waitThrows(t)
    \/ OutcomeSaved(t) \/ TransferSaveFails(t)

ChainStep ==
    \/ \E x \in Deposits : Receive(x)
    \/ \E t \in Transfers :
          MineSuccess(t) \/ \E outcome \in {"failed", "reverted"} : MineFailure(t, outcome)

Next ==
    \/ \E s \in Syncs : SyncStep(s)
    \/ \E t \in Transfers : TransferStep(t)
    \/ ChainStep
    \/ Reload

Spec == Init /\ [][Next]_vars

\* startAutoSync starts one sync after another, and every await of a sync ends.
FairSpec == Spec /\ \A s \in Syncs : WF_vars(SyncStep(s))

-----------------------------------------------------------------------------
(* Properties.                                                             *)

TypeOK ==
    /\ height \in Nat
    /\ announcedAt \in [Shards -> 0..height]
    /\ isShardSpent \subseteq Shards
    /\ tx \in [Transfers -> {"none", "sent", "succeeded", "failed", "reverted"}]
    /\ shardStore \in PersistedState
    /\ shardStore.pending \cup shardStore.valued \subseteq shardStore.shards
    /\ saved \in PersistedState
    /\ saving \in [Processes -> SUBSET PersistedState]
    /\ syncPc \in [Syncs -> {"idle", "logs", "snapshot", "decrypt", "saveDiscovered",
                             "spent", "saveSpent", "balances", "saveVerified",
                             "saveFinal", "saveRollback"}]
    /\ startCursor \in [Syncs -> Nat]
    /\ logs \in [Syncs -> SUBSET Shards]
    /\ upTo \in [Syncs -> Nat]
    /\ snapshot \in [Syncs -> PersistedState]
    /\ checking \in [Syncs -> SUBSET Shards]
    /\ live \in [Syncs -> SUBSET shardStore.shards]
    /\ transferPc \in [Transfers -> {"new", "built", "prepared", "relaying", "waiting",
                                     "confirmed", "failed", "abandoned"}]
    /\ inputs \in [Transfers -> SUBSET Shards]
    /\ failures \in 0..MaxFailures
    /\ restarts \in 0..MaxRestarts

\* The next sync from the cursor finds every spendable shard the store lacks.
CoversFunds(store) ==
    \A x \in Funded : announcedAt[x] <= store.lastSyncedBlock => x \in store.shards

\* No money drops out of the wallet's sight: whatever was saved, rolled back,
\* removed or reloaded in whatever order, a spendable shard is in the store (and
\* in the saved state) or in a block that the next sync will read.
NoFundsForgotten == CoversFunds(shardStore) /\ CoversFunds(saved)

\* Whatever the wallet owns appears in it with its balance, or is held back by
\* a transfer.
FundsAppear ==
    \A x \in Shards :
        (x \in Funded) ~>
            \/ x \notin Funded
            \/ x \in shardStore.valued \cup shardStore.pending

\* A spent shard that the wallet offers for spending (after a rollback, a lost
\* answer, a reload, or found again in an old block) stops being offered.
SpentAreDropped ==
    \A x \in Shards :
        (x \in isShardSpent) ~> (x \notin getUnspent(shardStore))

\* README: the SDK calls confirmFailed "so shards are back in ACTIVE state and
\* can be retried".
FailedInputsActive ==
    \A t \in Transfers : transferPc[t] = "failed" =>
        inputs[t] \cap shardStore.pending = {}
=============================================================================
