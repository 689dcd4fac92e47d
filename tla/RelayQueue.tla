------------------------------ MODULE RelayQueue ------------------------------
(***************************************************************************)
(* The relayer (ghost-services/src/relayer): HTTP handlers that check a    *)
(* paymaster's escrow and enqueue a broadcast, the queue worker that sends *)
(* one transaction at a time, and the background watchers that release the *)
(* escrow locks.  All run on one JavaScript event loop: what happens       *)
(* between two awaits is one step, and every await is a point where other  *)
(* handlers, the worker, watchers and the chain move.                      *)
(***************************************************************************)
EXTENDS Integers, Sequences, FiniteSetsExt

CONSTANTS
    Requests,       \* POST /api/v0/relay requests
    Paymasters,     \* sponsors
    PaymasterOf,    \* the sponsor named by a request
    MaxGasOf,       \* sum of the three gas limits of a request
    GasPrices,      \* gas prices the node reports and blocks charge
    InitialDeposit  \* on-chain deposit of each paymaster at the start

ASSUME RelayAssumption ==
    /\ PaymasterOf \in [Requests -> Paymasters]
    /\ MaxGasOf \in [Requests -> Nat]
    /\ GasPrices \subseteq Nat
    /\ InitialDeposit \in [Paymasters -> Nat]

VARIABLES
    deposit,       \* paymasterDeposits on the chain
    mempool,       \* broadcast transactions not mined yet
    mined,         \* transactions with a receipt
    nextNonce,     \* the node's pending nonce of the relayer account
    handler,       \* where the HTTP handler of a request stands
    onChainDeposit,\* the deposit a handler read
    netAvailable,  \* that deposit less the debt the handler saw
    cost,          \* worstCaseCost of a request
    queue,         \* requests waiting for the worker, oldest first
    processing,    \* a worker loop is running
    sending,       \* requests whose execute() is being awaited
    nonce,         \* nonce fetched for a broadcast in progress
    status,        \* QueuedRelay.status
    activeInFlight,\* requests whose transaction holds an escrow lock
    debt,          \* paymasterDebtAccumulator
    watcher,       \* background receipt watcher of a request
    enqueued,      \* history: requests in the order they were enqueued
    broadcasts     \* history: requests in the order execute() was called

chain   == <<deposit, mempool, mined, nextNonce>>
checks  == <<handler, onChainDeposit, netAvailable, cost>>
worker  == <<queue, processing, sending, nonce, broadcasts>>
escrow  == <<activeInFlight, debt>>
vars    == <<chain, checks, worker, status, escrow, watcher, enqueued>>

-----------------------------------------------------------------------------
TypeOK ==
    /\ deposit \in [Paymasters -> Nat]
    /\ mempool \subseteq Requests
    /\ mined \subseteq Requests
    /\ nextNonce \in Nat
    /\ handler \in [Requests -> {"new", "deposit", "debt", "simulating", "waiting",
                                 "answered", "refused"}]
    /\ onChainDeposit \in [Requests -> Nat]
    /\ netAvailable \in [Requests -> Int]
    /\ cost \in [Requests -> Nat]
    /\ queue \in Seq(Requests)
    /\ processing \in BOOLEAN
    /\ sending \subseteq Requests
    /\ nonce \in [Requests -> Int]
    /\ status \in [Requests -> {"none", "pending", "submitting", "submitted",
                                "confirmed", "failed"}]
    /\ activeInFlight \subseteq Requests
    /\ debt \in [Paymasters -> Nat]
    /\ watcher \in [Requests -> {"none", "polling", "done"}]
    /\ enqueued \in Seq(Requests)
    /\ broadcasts \in Seq(Requests)

Init ==
    /\ deposit = InitialDeposit
    /\ mempool = {}
    /\ mined = {}
    /\ nextNonce = 0
    /\ handler = [r \in Requests |-> "new"]
    /\ onChainDeposit = [r \in Requests |-> 0]
    /\ netAvailable = [r \in Requests |-> 0]
    /\ cost = [r \in Requests |-> 0]
    /\ queue = <<>>
    /\ processing = FALSE
    /\ sending = {}
    /\ nonce = [r \in Requests |-> -1]
    /\ status = [r \in Requests |-> "none"]
    /\ activeInFlight = {}
    /\ debt = [p \in Paymasters |-> 0]
    /\ watcher = [r \in Requests |-> "none"]
    /\ enqueued = <<>>
    /\ broadcasts = <<>>

-----------------------------------------------------------------------------
(* The escrow.  updatePaymasterDebt recomputes one paymaster's debt from   *)
(* the locks that are left.                                                *)

DebtOf(p, locks) ==
    MapThenSumSet(LAMBDA r : cost[r], {r \in locks : PaymasterOf[r] = p})

SetLocks(locks, p) ==
    /\ activeInFlight' = locks
    /\ debt' = [debt EXCEPT ![p] = DebtOf(p, locks)]

registerLock(r) == SetLocks(activeInFlight \cup {r}, PaymasterOf[r])

\* Mutant: the lock goes, the paymaster's debt is not recomputed.
releaseLockOnly(r) == activeInFlight' = activeInFlight \ {r} /\ UNCHANGED debt

releaseLock(r)  == SetLocks(activeInFlight \ {r}, PaymasterOf[r])

-----------------------------------------------------------------------------
(* relay(): the HTTP handler, one step per await.                          *)

\* The node answers the read of paymasterDeposits.
ReadDeposit(r) ==
    /\ handler[r] = "new"
    /\ handler' = [handler EXCEPT ![r] = "deposit"]
    /\ onChainDeposit' = [onChainDeposit EXCEPT ![r] = deposit[PaymasterOf[r]]]
    /\ UNCHANGED <<chain, netAvailable, cost, worker, status, escrow, watcher, enqueued>>

\* The handler resumes, subtracts the debt it sees now, and asks for the price.
ReadDebt(r) ==
    /\ handler[r] = "deposit"
    /\ handler' = [handler EXCEPT ![r] = "debt"]
    /\ netAvailable' = [netAvailable EXCEPT
                          ![r] = onChainDeposit[r] - debt[PaymasterOf[r]]]
    /\ UNCHANGED <<chain, onChainDeposit, cost, worker, status, escrow, watcher, enqueued>>

\* "Paymaster escrow over-allocated", or on to the simulation.
CheckEscrow(r, gasPrice) ==
    /\ handler[r] = "debt"
    /\ cost' = [cost EXCEPT ![r] = MaxGasOf[r] * gasPrice]
    /\ handler' = [handler EXCEPT
                     ![r] = IF netAvailable[r] < MaxGasOf[r] * gasPrice
                            THEN "refused" ELSE "simulating"]
    /\ UNCHANGED <<chain, onChainDeposit, netAvailable, worker, status, escrow,
                   watcher, enqueued>>

\* A read fails, the price does, or the router would revert in the simulation.
HandlerFails(r) ==
    /\ handler[r] \in {"new", "debt", "simulating"}
    /\ handler' = [handler EXCEPT ![r] = "refused"]
    /\ UNCHANGED <<chain, onChainDeposit, netAvailable, cost, worker, status,
                   escrow, watcher, enqueued>>

\* Mutant: the newest entry first.
LoopNewestFirst(q, rest, st) ==
    \/ /\ q = <<>>
       /\ processing' = FALSE
       /\ queue' = q /\ sending' = rest /\ status' = st
       /\ UNCHANGED broadcasts
    \/ /\ q # <<>>
       /\ processing' = TRUE
       /\ queue' = SubSeq(q, 1, Len(q) - 1)
       /\ sending' = rest \cup {q[Len(q)]}
       /\ status' = [st EXCEPT ![q[Len(q)]] = "submitting"]
       /\ broadcasts' = Append(broadcasts, q[Len(q)])

\* One turn of processQueue's loop over queue q, with rest still being sent and
\* the statuses st: take the oldest entry and call its execute(), or stop.
Loop(q, rest, st) ==
    \/ /\ q = <<>>
       /\ processing' = FALSE
       /\ queue' = q /\ sending' = rest /\ status' = st
       /\ UNCHANGED broadcasts
    \/ /\ q # <<>>
       /\ processing' = TRUE
       /\ queue' = Tail(q)
       /\ sending' = rest \cup {Head(q)}
       /\ status' = [st EXCEPT ![Head(q)] = "submitting"]
       /\ broadcasts' = Append(broadcasts, Head(q))

\* Mutant: every call of processQueue starts a loop of its own.
processQueueReentrant(q, st) == Loop(q, sending, st)

\* processQueue() with queue q and statuses st: one loop runs at a time.
processQueue(q, st) ==
    \/ /\ processing
       /\ queue' = q /\ status' = st
       /\ UNCHANGED <<processing, broadcasts, sending>>
    \/ /\ ~processing
       /\ Loop(q, sending, st)

\* The simulation did not report an error: enqueueRelay pushes the entry and
\* wakes the worker in the same turn of the event loop.
EnqueueRelay(r) ==
    /\ handler[r] = "simulating"
    /\ handler' = [handler EXCEPT ![r] = "waiting"]
    /\ enqueued' = Append(enqueued, r)
    /\ processQueue(Append(queue, r), [status EXCEPT ![r] = "pending"])
    /\ UNCHANGED <<chain, onChainDeposit, netAvailable, cost, nonce, escrow, watcher>>

-----------------------------------------------------------------------------
(* execute(): sendTransaction asks the node for the account's nonce, signs  *)
(* and submits.  A broadcast whose nonce is no longer next is refused.      *)

FetchNonce(r) ==
    /\ r \in sending
    /\ nonce[r] = -1
    /\ nonce' = [nonce EXCEPT ![r] = nextNonce]
    /\ UNCHANGED <<chain, checks, queue, processing, sending, broadcasts, status,
                   escrow, watcher, enqueued>>

Accepted == mempool \cup mined

\* The node takes the transaction into its pool.
NodeAccepts(r) ==
    /\ r \in sending \ Accepted
    /\ nonce[r] = nextNonce
    /\ mempool' = mempool \cup {r}
    /\ nextNonce' = nextNonce + 1
    /\ UNCHANGED <<deposit, mined, checks, worker, status, escrow, watcher, enqueued>>

\* execute() resolves with the hash: the loop records it, locks the escrow,
\* answers the user, starts a watcher and takes its next turn.
BroadcastResolves(r) ==
    /\ r \in sending \cap Accepted
    /\ registerLock(r)
    /\ watcher' = [watcher EXCEPT ![r] = "polling"]
    /\ handler' = [handler EXCEPT ![r] = "answered"]
    /\ Loop(queue, sending \ {r}, [status EXCEPT ![r] = "submitted"])
    /\ UNCHANGED <<chain, onChainDeposit, netAvailable, cost, nonce, enqueued>>

\* Mutant: a failed entry never answers its user.
BroadcastRejectsSilently(r) ==
    /\ r \in sending
    /\ Loop(queue, sending \ {r}, [status EXCEPT ![r] = "failed"])
    /\ UNCHANGED <<chain, checks, nonce, escrow, watcher, enqueued>>

\* execute() rejects.  The node refused the transaction, or its answer was lost
\* after it had accepted it: either way the entry fails and takes no lock.
BroadcastRejects(r) ==
    /\ r \in sending
    /\ handler' = [handler EXCEPT ![r] = "refused"]
    /\ Loop(queue, sending \ {r}, [status EXCEPT ![r] = "failed"])
    /\ UNCHANGED <<chain, onChainDeposit, netAvailable, cost, nonce, escrow, watcher,
                   enqueued>>

-----------------------------------------------------------------------------
(* The chain, and the watchers that poll it.                               *)

\* The router charges at most the prefund, and nothing when the deposit does
\* not cover the prefund: then the whole call reverts.
Chargeable(p, prefund, charge) ==
    /\ charge <= prefund
    /\ deposit[p] < prefund => charge = 0

\* A block takes the transaction with the lowest nonce.
Mine(r, gasPrice, charge) ==
    /\ r \in mempool
    /\ \A other \in mempool : nonce[r] <= nonce[other]
    /\ Chargeable(PaymasterOf[r], MaxGasOf[r] * gasPrice, charge)
    /\ deposit' = [deposit EXCEPT ![PaymasterOf[r]] = @ - charge]
    /\ mempool' = mempool \ {r}
    /\ mined' = mined \cup {r}
    /\ UNCHANGED <<nextNonce, checks, worker, status, escrow, watcher, enqueued>>

WatcherStops(r) ==
    /\ watcher[r] = "polling"
    /\ watcher' = [watcher EXCEPT ![r] = "done"]
    /\ status' = [status EXCEPT ![r] = "confirmed"]
    /\ releaseLock(r)
    /\ UNCHANGED <<chain, checks, worker, enqueued>>

WatcherSeesReceipt(r) == r \in mined /\ WatcherStops(r)

\* Mutant: a transaction that is not mined keeps its lock.
WatcherNeverTimesOut(r) == WatcherSeesReceipt(r)

\* After timeoutMs the lock is released whether or not there is a receipt.
WatcherTimesOut(r) == WatcherStops(r)

-----------------------------------------------------------------------------
Handler(r) ==
    \/ ReadDeposit(r)
    \/ ReadDebt(r)
    \/ \E gasPrice \in GasPrices : CheckEscrow(r, gasPrice)
    \/ HandlerFails(r)
    \/ EnqueueRelay(r)

Broadcast(r) ==
    \/ FetchNonce(r)
    \/ NodeAccepts(r)
    \/ BroadcastResolves(r)
    \/ BroadcastRejects(r)

Charges == UNION {0..(MaxGasOf[r] * g) : r \in Requests, g \in GasPrices}

Block(r) == \E gasPrice \in GasPrices, charge \in Charges : Mine(r, gasPrice, charge)

Next ==
    \E r \in Requests :
        \/ Handler(r)
        \/ Broadcast(r)
        \/ Block(r)
        \/ WatcherSeesReceipt(r)
        \/ WatcherTimesOut(r)

Spec == Init /\ [][Next]_vars

\* Every await ends: an RPC call answers or fails, and the watcher's clock
\* reaches timeoutMs.  Nothing obliges a block to take a transaction.
Fairness ==
    \A r \in Requests :
        /\ WF_vars(Handler(r))
        /\ WF_vars(Broadcast(r))
        /\ WF_vars(WatcherTimesOut(r))

FairSpec == Spec /\ Fairness

-----------------------------------------------------------------------------
(* Properties.                                                             *)

\* The debt counted against a paymaster is exactly the cost of its relays that
\* were answered with a hash and whose watcher has not given up or seen a
\* receipt: no broadcast counts twice and none is forgotten.
EscrowCoversSubmitted ==
    /\ activeInFlight = {r \in Requests : status[r] = "submitted"}
    /\ \A p \in Paymasters :
          debt[p] = DebtOf(p, {r \in Requests : watcher[r] = "polling"})

\* The worker never sleeps on a waiting entry: whatever the turn of the event
\* loop in which an entry is pushed, somebody will take it; and at most one
\* broadcast is under way.
WorkerAwake ==
    /\ Cardinality(sending) <= 1
    /\ processing <=> sending # {}
    /\ queue # <<>> => processing

\* The nonce a broadcast fetched stays the account's next one until the node
\* has its transaction, also when the answer to an earlier one was lost.
NoNonceConflict ==
    \A r \in sending \ Accepted : nonce[r] \in {-1, nextNonce}

\* A handler tells the truth: a user who was given a hash has a transaction in
\* the pool or on the chain, and a relay counts as failed only when its user
\* was refused.
AnswerIsTrue ==
    \A r \in Requests :
        /\ handler[r] = "answered" => r \in Accepted /\ watcher[r] # "none"
        /\ status[r] = "failed" => handler[r] = "refused"

\* The abstract submitter: requests are served one by one, in the order they
\* were enqueued, each exactly once.
Outcome(r) ==
    IF status[r] \in {"submitted", "confirmed"} THEN "sent"
    ELSE IF status[r] = "failed" THEN "failed" ELSE "none"

Submitter == INSTANCE FifoSubmitter WITH
    order <- enqueued, result <- [r \in Requests |-> Outcome(r)]

\* The queue implements it: FIFO order, one outcome per entry that no later
\* event changes, and an outcome for every entry.
ServesInOrder == Submitter!FairSpec

\* Every lock is released sooner or later, also when the transaction is never
\* mined.
LocksAreReleased ==
    \A r \in Requests : (r \in activeInFlight) ~> (r \notin activeInFlight)

\* queue.ts: "the relayer never over-commits a paymaster's deposit across
\* pending transactions".
NeverOverCommitted ==
    \A p \in Paymasters : DebtOf(p, mempool) <= deposit[p]
=============================================================================
