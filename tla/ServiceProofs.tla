--------------------------- MODULE ServiceProofs ---------------------------
(***************************************************************************)
(* The two services.  The relayer: for any number of requests and          *)
(* paymasters, any costs and deposits, the worker of its queue neither     *)
(* sleeps on work nor sends two transactions at a time, its nonces do not  *)
(* collide, its answers are true, every escrow lock is counted once, and   *)
(* the queue implements the safety part of FifoSubmitter.  The paymaster:  *)
(* for every gas ceiling, buffer and gas amount, the limits a quote signs  *)
(* are natural numbers, cover what the simulations reported, and fit the   *)
(* router's uint32; and a quote is no older than its validity.             *)
(***************************************************************************)
EXTENDS RelayQueue, PaymasterQuote, FiniteSetTheorems, TLAPS

-----------------------------------------------------------------------------
(* The relayer.                                                            *)

Checking == {"new", "deposit", "debt", "simulating"}
Handlers == Checking \cup {"waiting", "answered", "refused"}
Statuses == {"none", "pending", "submitting", "submitted", "confirmed", "failed"}

\* TypeOK but for the amounts of money, which sums make naturals.
Typed ==
    /\ handler \in [Requests -> Handlers]
    /\ status \in [Requests -> Statuses]
    /\ watcher \in [Requests -> {"none", "polling", "done"}]
    /\ nonce \in [Requests -> Int] /\ nextNonce \in Nat
    /\ queue \in Seq(Requests) /\ enqueued \in Seq(Requests) /\ broadcasts \in Seq(Requests)
    /\ sending \subseteq Requests /\ processing \in BOOLEAN
    /\ DOMAIN debt = Paymasters

Elements(q) == {q[i] : i \in DOMAIN q}

Distinct(q) == \A i, j \in DOMAIN q : q[i] = q[j] => i = j

\* A queue and the statuses of its requests belong together.
Placed(q, st) == \A r \in Requests : r \in Elements(q) <=> st[r] = "pending"

\* How far a request has come, as its status, its handler, the queue, the worker
\* and its watcher know it.
StageOf(r) ==
    /\ r \in sending <=> status[r] = "submitting"
    /\ watcher[r] = "polling" <=> status[r] = "submitted"
    /\ status[r] \in {"none", "pending"} => nonce[r] = -1
    /\ status[r] = "none" => handler[r] \in Checking \cup {"refused"}
    /\ status[r] \in {"pending", "submitting"} => handler[r] = "waiting"
    /\ status[r] \in {"submitted", "confirmed"} =>
          handler[r] = "answered" /\ r \in Accepted /\ watcher[r] # "none"
    /\ status[r] = "failed" => handler[r] = "refused"

Stages == \A r \in Requests : StageOf(r)

\* The worker takes one entry at a time and sleeps only on an empty queue.
Worker ==
    /\ processing <=> sending # {}
    /\ \A r, s \in sending : r = s
    /\ queue # <<>> => processing

QueueInv == Typed /\ Distinct(queue) /\ Placed(queue, status) /\ Stages /\ Worker

-----------------------------------------------------------------------------
(* One turn of the worker.                                                 *)

\* What is left of a queue without repetitions when its head is taken.
LEMMA TailFacts ==
    ASSUME NEW q \in Seq(Requests), q # <<>>, Distinct(q)
    PROVE  /\ Head(q) \in Requests /\ Tail(q) \in Seq(Requests)
           /\ Distinct(Tail(q))
           /\ Elements(Tail(q)) = Elements(q) \ {Head(q)}
           /\ Head(q) \in Elements(q)
<1>1. /\ Len(q) \in Nat /\ Len(q) # 0 /\ DOMAIN q = 1..Len(q) /\ Head(q) = q[1]
      /\ Tail(q) \in Seq(Requests) /\ DOMAIN Tail(q) = 1..(Len(q) - 1)
      /\ \A i \in 1..(Len(q) - 1) : Tail(q)[i] = q[i + 1]
    OBVIOUS
<1>2. Distinct(Tail(q))
    BY <1>1 DEF Distinct
<1>3. Head(q) \in Elements(q)
    BY <1>1 DEF Elements
<1>4. Elements(Tail(q)) \subseteq Elements(q) \ {Head(q)}
    BY <1>1 DEF Elements, Distinct
<1>5. ASSUME NEW x \in Elements(q) \ {Head(q)}
      PROVE  x \in Elements(Tail(q))
    <2>1. PICK i \in 1..Len(q) : x = q[i]
        BY <1>1 DEF Elements
    <2>2. i # 1 /\ i - 1 \in 1..(Len(q) - 1) /\ Tail(q)[i - 1] = q[i]
        BY <1>1, <1>5, <2>1
    <2> QED
        BY <1>1, <2>1, <2>2 DEF Elements
<1> QED
    BY <1>1, <1>2, <1>3, <1>4, <1>5

\* The queue and the statuses after a turn are right, if they were before it and
\* nothing is being sent.
LEMMA LoopTurns ==
    ASSUME NEW q \in Seq(Requests), NEW st \in [Requests -> Statuses],
           Distinct(q), Placed(q, st), \A r \in Requests : st[r] # "submitting",
           broadcasts \in Seq(Requests), Loop(q, {}, st)
    PROVE  /\ queue' \in Seq(Requests) /\ Distinct(queue') /\ broadcasts' \in Seq(Requests)
           /\ status' \in [Requests -> Statuses] /\ Placed(queue', status')
           /\ processing' \in BOOLEAN /\ sending' \subseteq Requests
           /\ Worker'
           /\ \A r \in Requests :
                 /\ r \in sending' <=> status'[r] = "submitting"
                 /\ st[r] # "pending" => status'[r] = st[r]
                 /\ st[r] = "pending" => status'[r] \in {"pending", "submitting"}
<1>1. CASE q = <<>>
    BY <1>1 DEF Loop, Worker
<1>2. CASE q # <<>>
    <2>1. /\ processing' = TRUE /\ queue' = Tail(q) /\ sending' = {Head(q)}
          /\ status' = [st EXCEPT ![Head(q)] = "submitting"]
          /\ broadcasts' = Append(broadcasts, Head(q))
        BY <1>2 DEF Loop
    <2>2. /\ Head(q) \in Requests /\ Tail(q) \in Seq(Requests) /\ Distinct(Tail(q))
          /\ Elements(Tail(q)) = Elements(q) \ {Head(q)} /\ st[Head(q)] = "pending"
        BY <1>2, TailFacts DEF Placed
    <2>3. status' \in [Requests -> Statuses] /\ Placed(queue', status')
        BY <2>1, <2>2 DEF Placed, Statuses
    <2>4. Worker'
        BY <2>1 DEF Worker
    <2>5. broadcasts' \in Seq(Requests)
        BY <2>1, <2>2
    <2> QED
        BY <2>1, <2>2, <2>3, <2>4, <2>5
<1> QED
    BY <1>1, <1>2

\* A turn that takes r out of the worker's hands with a result.
LEMMA TurnEnds ==
    ASSUME QueueInv, NEW r \in sending, NEW result \in {"submitted", "failed"},
           Loop(queue, sending \ {r}, [status EXCEPT ![r] = result])
    PROVE  /\ queue' \in Seq(Requests) /\ Distinct(queue') /\ broadcasts' \in Seq(Requests)
           /\ status' \in [Requests -> Statuses] /\ Placed(queue', status')
           /\ processing' \in BOOLEAN /\ sending' \subseteq Requests
           /\ Worker'
           /\ status'[r] = result /\ status[r] = "submitting"
           /\ \A s \in Requests \ {r} :
                 /\ status[s] # "pending" => status'[s] = status[s]
                 /\ status[s] = "pending" => status'[s] \in {"pending", "submitting"}
           /\ \A s \in Requests : s \in sending' <=> status'[s] = "submitting"
<1> DEFINE st == [status EXCEPT ![r] = result]
<1>1. /\ sending \ {r} = {} /\ r \in Requests /\ status[r] = "submitting"
      /\ \A s \in Requests : s \in sending <=> s = r
      /\ \A s \in Requests : status[s] = "submitting" <=> s \in sending
    BY DEF QueueInv, Worker, Typed, Stages, StageOf
<1>2. st \in [Requests -> Statuses] /\ \A s \in Requests : st[s] = IF s = r THEN result ELSE status[s]
    BY DEF QueueInv, Typed, Statuses
<1>3. Placed(queue, st) /\ \A s \in Requests : st[s] # "submitting"
    BY <1>1, <1>2 DEF QueueInv, Placed
<1>4. /\ queue \in Seq(Requests) /\ broadcasts \in Seq(Requests)
      /\ Distinct(queue) /\ Loop(queue, {}, st)
    BY <1>1 DEF QueueInv, Typed
<1> HIDE DEF st
<1> QED
    BY <1>1, <1>2, <1>3, <1>4, LoopTurns

-----------------------------------------------------------------------------
(* The invariant, step by step.                                            *)

\* At the start nothing is enqueued.
LEMMA QueueInit == Init => QueueInv
<1> SUFFICES ASSUME Init PROVE QueueInv
    OBVIOUS
<1>1. Typed
    <2>1. /\ queue \in Seq(Requests) /\ enqueued \in Seq(Requests)
          /\ broadcasts \in Seq(Requests)
        BY DEF Init
    <2>2. nonce \in [Requests -> Int] /\ nextNonce \in Nat
        BY DEF Init
    <2> QED
        BY <2>1, <2>2 DEF Init, Typed, Handlers, Checking, Statuses
<1>2. Stages
    BY DEF Init, Stages, StageOf, Checking
<1>3. Distinct(queue) /\ Placed(queue, status) /\ Worker
    BY DEF Init, Distinct, Placed, Elements, Worker
<1> QED
    BY <1>1, <1>2, <1>3 DEF QueueInv

\* A stuttering step changes nothing.
LEMMA QueueStutter ==
    QueueInv /\ UNCHANGED vars => QueueInv'
  BY DEF QueueInv, Typed, Placed, Stages, StageOf, Worker, Accepted, vars, chain, checks,
         worker, escrow

\* A handler that has not enqueued its request moves on, or gives up.
LEMMA QueueHandler ==
    ASSUME QueueInv, NEW r \in Requests, handler[r] \in Checking,
           NEW place \in Checking \cup {"refused"},
           handler' = [handler EXCEPT ![r] = place],
           UNCHANGED <<mempool, mined, nextNonce, worker, status, watcher, enqueued>>,
           DOMAIN debt' = Paymasters
    PROVE  QueueInv'
<1>1. status[r] = "none"
    BY DEF QueueInv, Stages, StageOf, Typed, Statuses, Checking
<1>2. Typed' /\ Worker' /\ Placed(queue, status)' /\ Distinct(queue)'
    BY DEF QueueInv, Typed, Worker, worker, Handlers
<1>3. Stages'
    BY <1>1 DEF QueueInv, Typed, Stages, StageOf, Accepted, worker
<1> QED
    BY <1>2, <1>3 DEF QueueInv

\* A request that is pushed goes to the end of the queue, or straight to the worker.
LEMMA QueueEnqueue ==
    ASSUME QueueInv, NEW r \in Requests, EnqueueRelay(r)
    PROVE  QueueInv'
<1> DEFINE q  == Append(queue, r)
           st == [status EXCEPT ![r] = "pending"]
<1>1. status[r] = "none" /\ handler[r] = "simulating" /\ r \notin Elements(queue)
    BY DEF QueueInv, Stages, StageOf, Typed, Statuses, Checking, EnqueueRelay, Placed
<1>2. st \in [Requests -> Statuses] /\ \A s \in Requests : st[s] = IF s = r THEN "pending" ELSE status[s]
    BY DEF QueueInv, Typed, Statuses
<1>3. q \in Seq(Requests) /\ Distinct(q) /\ Elements(q) = Elements(queue) \cup {r}
    <2>1. /\ queue \in Seq(Requests) /\ Len(queue) \in Nat /\ DOMAIN queue = 1..Len(queue)
          /\ q \in Seq(Requests) /\ DOMAIN q = 1..(Len(queue) + 1)
          /\ \A i \in 1..Len(queue) : q[i] = queue[i]
          /\ q[Len(queue) + 1] = r
        BY DEF QueueInv, Typed
    <2>2. Distinct(q)
        BY <1>1, <2>1 DEF QueueInv, Distinct, Elements
    <2>3. Elements(q) = Elements(queue) \cup {r}
        BY <2>1 DEF Elements
    <2> QED
        BY <2>1, <2>2, <2>3
<1>4. Placed(q, st)
    BY <1>2, <1>3 DEF QueueInv, Placed
<1>5. /\ handler' = [handler EXCEPT ![r] = "waiting"] /\ enqueued' = Append(enqueued, r)
      /\ processQueue(q, st)
      /\ UNCHANGED <<chain, cost, nonce, escrow, watcher>>
    BY DEF EnqueueRelay
<1> HIDE DEF q, st
<1>6. /\ queue' \in Seq(Requests) /\ Distinct(queue')
      /\ status' \in [Requests -> Statuses] /\ Placed(queue', status')
      /\ processing' \in BOOLEAN /\ sending' \subseteq Requests
      /\ Worker'
      /\ broadcasts' \in Seq(Requests)
      /\ \A s \in Requests :
            /\ s \in sending' <=> status'[s] = "submitting"
            /\ st[s] # "pending" => status'[s] = st[s]
            /\ st[s] = "pending" => status'[s] \in {"pending", "submitting"}
    <2>1. CASE processing
        <3>1. queue' = q /\ status' = st /\ UNCHANGED <<processing, broadcasts, sending>>
            BY <1>5, <2>1 DEF processQueue
        <3> QED
            BY <1>1, <1>2, <1>3, <1>4, <2>1, <3>1 DEF QueueInv, Typed, Stages, StageOf, Worker
    <2>2. CASE ~processing
        <3>1. sending = {} /\ Loop(q, {}, st)
            BY <1>5, <2>2 DEF processQueue, QueueInv, Worker
        <3>2. \A s \in Requests : st[s] # "submitting"
            BY <1>2, <3>1 DEF QueueInv, Stages, StageOf
        <3>3. broadcasts \in Seq(Requests)
            BY DEF QueueInv, Typed
        <3> QED
            BY <1>2, <1>3, <1>4, <3>1, <3>2, <3>3, LoopTurns
    <2> QED
        BY <2>1, <2>2
<1>7. Typed'
    <2>1. enqueued' \in Seq(Requests) /\ handler' \in [Requests -> Handlers]
        BY <1>5 DEF QueueInv, Typed, Handlers
    <2> QED
        BY <1>5, <1>6, <2>1 DEF QueueInv, Typed, chain, escrow
<1>8. ASSUME NEW s \in Requests PROVE StageOf(s)'
    <2>1. StageOf(s)
        BY DEF QueueInv, Stages
    <2>2. handler'[s] = IF s = r THEN "waiting" ELSE handler[s]
        BY <1>5 DEF QueueInv, Typed
    <2>3. UNCHANGED <<nonce, watcher, Accepted>>
        BY <1>5 DEF chain, Accepted
    <2>4. watcher[r] # "polling"
        BY <1>1 DEF QueueInv, Stages, StageOf
    <2> QED
        BY <1>1, <1>2, <1>6, <2>1, <2>2, <2>3, <2>4 DEF StageOf
<1> QED
    BY <1>6, <1>7, <1>8 DEF QueueInv, Stages

\* The node and the chain know of more transactions.
LEMMA QueueChain ==
    ASSUME QueueInv, Accepted \subseteq Accepted', nextNonce' \in Nat,
           UNCHANGED <<handler, queue, processing, sending, broadcasts, status, watcher,
                       enqueued, debt, nonce>>
    PROVE  QueueInv'
  BY DEF QueueInv, Typed, Distinct, Placed, Stages, StageOf, Worker

\* A nonce is fetched for the request that is being sent.
LEMMA QueueFetch ==
    ASSUME QueueInv, NEW r \in Requests, FetchNonce(r)
    PROVE  QueueInv'
<1>1. status[r] = "submitting"
    BY DEF QueueInv, Stages, StageOf, FetchNonce
<1> QED
    BY <1>1 DEF FetchNonce, QueueInv, Typed, Placed, Stages, StageOf, Worker, Accepted,
                chain, checks, escrow

\* The broadcast resolves: its request leaves the worker with a lock and a watcher.
LEMMA QueueResolves ==
    ASSUME QueueInv, NEW r \in Requests, BroadcastResolves(r)
    PROVE  QueueInv'
<1>1. /\ r \in sending /\ r \in Accepted
      /\ watcher' = [watcher EXCEPT ![r] = "polling"]
      /\ handler' = [handler EXCEPT ![r] = "answered"]
      /\ Loop(queue, sending \ {r}, [status EXCEPT ![r] = "submitted"])
      /\ DOMAIN debt' = Paymasters
      /\ UNCHANGED <<chain, nonce, enqueued>>
    BY DEF BroadcastResolves, registerLock, SetLocks, QueueInv, Typed
<1>3. Typed'
    BY <1>1, TurnEnds DEF QueueInv, Typed, chain, Handlers
<1>4. ASSUME NEW s \in Requests PROVE StageOf(s)'
    <2>1. StageOf(s) /\ StageOf(r) /\ UNCHANGED <<nonce, Accepted>>
        BY <1>1 DEF QueueInv, Stages, chain, Accepted
    <2>2. /\ handler'[s] = IF s = r THEN "answered" ELSE handler[s]
          /\ watcher'[s] = IF s = r THEN "polling" ELSE watcher[s]
        BY <1>1 DEF QueueInv, Typed
    <2>3. CASE s = r
        <3>1. status'[s] = "submitted" /\ (s \in sending' <=> status'[s] = "submitting")
            BY <1>1, <2>3, TurnEnds
        <3>2. handler'[s] = "answered" /\ watcher'[s] = "polling" /\ s \in Accepted'
            BY <1>1, <2>1, <2>2, <2>3
        <3> QED
            BY <3>1, <3>2 DEF StageOf
    <2>4. CASE s # r
        BY <1>1, <2>1, <2>2, <2>4, TurnEnds DEF StageOf
    <2> QED
        BY <2>3, <2>4
<1> QED
    BY <1>1, <1>3, <1>4, TurnEnds DEF QueueInv, Stages

\* The broadcast rejects: its request leaves the worker as failed.
LEMMA QueueRejects ==
    ASSUME QueueInv, NEW r \in Requests, BroadcastRejects(r)
    PROVE  QueueInv'
<1>1. /\ r \in sending
      /\ handler' = [handler EXCEPT ![r] = "refused"]
      /\ Loop(queue, sending \ {r}, [status EXCEPT ![r] = "failed"])
      /\ UNCHANGED <<chain, nonce, escrow, watcher, enqueued>>
    BY DEF BroadcastRejects
<1>3. Typed'
    BY <1>1, TurnEnds DEF QueueInv, Typed, chain, escrow, Handlers
<1>4. ASSUME NEW s \in Requests PROVE StageOf(s)'
    <2>1. StageOf(s) /\ StageOf(r) /\ UNCHANGED <<nonce, watcher, Accepted>>
        BY <1>1 DEF QueueInv, Stages, chain, Accepted
    <2>2. handler'[s] = IF s = r THEN "refused" ELSE handler[s]
        BY <1>1 DEF QueueInv, Typed
    <2> QED
        BY <1>1, <2>1, <2>2, TurnEnds DEF StageOf
<1> QED
    BY <1>1, <1>3, <1>4, TurnEnds DEF QueueInv, Stages

\* A watcher stops: its request is confirmed.
LEMMA QueueWatcher ==
    ASSUME QueueInv, NEW r \in Requests, WatcherStops(r)
    PROVE  QueueInv'
<1>1. status[r] = "submitted" /\ StageOf(r)
    BY DEF WatcherStops, QueueInv, Stages, StageOf
<1>2. /\ watcher' = [watcher EXCEPT ![r] = "done"]
      /\ status' = [status EXCEPT ![r] = "confirmed"]
      /\ DOMAIN debt' = Paymasters
      /\ UNCHANGED <<chain, checks, worker, enqueued>>
    BY DEF WatcherStops, releaseLock, SetLocks, QueueInv, Typed
<1>3. Typed' /\ Worker' /\ Distinct(queue)'
    BY <1>2 DEF QueueInv, Typed, Worker, Distinct, chain, checks, worker, Statuses
<1>4. Placed(queue, status)'
    BY <1>1, <1>2 DEF QueueInv, Typed, Placed, worker
<1>5. ASSUME NEW s \in Requests PROVE StageOf(s)'
    <2>1. StageOf(s) /\ UNCHANGED <<nonce, handler, sending, Accepted>>
        BY <1>2 DEF QueueInv, Stages, chain, Accepted, checks, worker
    <2>2. /\ status'[s] = IF s = r THEN "confirmed" ELSE status[s]
          /\ watcher'[s] = IF s = r THEN "done" ELSE watcher[s]
        BY <1>2 DEF QueueInv, Typed
    <2> QED
        BY <1>1, <2>1, <2>2 DEF StageOf
<1> QED
    BY <1>3, <1>4, <1>5 DEF QueueInv, Stages

\* Every step preserves the invariant.
LEMMA QueueStep == QueueInv /\ [Next]_vars => QueueInv'
<1> SUFFICES ASSUME QueueInv, [Next]_vars PROVE QueueInv'
    OBVIOUS
<1>1. CASE UNCHANGED vars
    BY <1>1, QueueStutter
<1>2. ASSUME NEW r \in Requests, Handler(r) PROVE QueueInv'
    <2>1. CASE EnqueueRelay(r)
        BY <2>1, QueueEnqueue
    <2>2. CASE ReadDeposit(r)
        BY <2>2, QueueHandler DEF ReadDeposit, Checking, chain, escrow, QueueInv, Typed
    <2>3. CASE ReadDebt(r)
        BY <2>3, QueueHandler DEF ReadDebt, Checking, chain, escrow, QueueInv, Typed
    <2>4. ASSUME NEW gasPrice \in GasPrices, CheckEscrow(r, gasPrice) PROVE QueueInv'
        <3>1. PICK place \in {"refused", "simulating"} :
                  handler' = [handler EXCEPT ![r] = place]
            BY <2>4 DEF CheckEscrow
        <3> QED
            BY <2>4, <3>1, QueueHandler DEF CheckEscrow, Checking, chain, escrow, QueueInv, Typed
    <2>5. CASE HandlerFails(r)
        BY <2>5, QueueHandler DEF HandlerFails, Checking, chain, escrow, QueueInv, Typed
    <2> QED
        BY <1>2, <2>1, <2>2, <2>3, <2>4, <2>5 DEF Handler
<1>3. ASSUME NEW r \in Requests, Broadcast(r) PROVE QueueInv'
    <2>1. CASE NodeAccepts(r)
        BY <2>1, QueueChain DEF NodeAccepts, Accepted, checks, worker, escrow, QueueInv, Typed
    <2> QED
        BY <1>3, <2>1, QueueFetch, QueueResolves, QueueRejects DEF Broadcast
<1>4. ASSUME NEW r \in Requests, Block(r) PROVE QueueInv'
    BY <1>4, QueueChain DEF Block, Mine, Accepted, checks, worker, escrow, QueueInv, Typed
<1>5. ASSUME NEW r \in Requests, WatcherSeesReceipt(r) \/ WatcherTimesOut(r) PROVE QueueInv'
    BY <1>5, QueueWatcher DEF WatcherSeesReceipt, WatcherTimesOut
<1> QED
    BY <1>1, <1>2, <1>3, <1>4, <1>5 DEF Next

\* The invariant holds in every state.
THEOREM QueueInvariant == Spec => []QueueInv
  BY QueueInit, QueueStep, PTL DEF Spec

\* For any number of requests, the worker never sleeps on a waiting entry and has
\* one broadcast under way at most (queue.ts: processQueue, enqueueRelay).
THEOREM WorkerStaysAwake == Spec => []WorkerAwake
<1>1. QueueInv => WorkerAwake
    <2> SUFFICES ASSUME QueueInv PROVE WorkerAwake
        OBVIOUS
    <2>1. Cardinality(sending) <= 1
        <3>1. CASE sending = {}
            BY <3>1, FS_EmptySet
        <3>2. CASE sending # {}
            <4>1. PICK r : r \in sending
                BY <3>2
            <4>2. sending = {r}
                BY <4>1 DEF QueueInv, Worker
            <4> QED
                BY <4>2, FS_Singleton
        <3> QED
            BY <3>1, <3>2
    <2> QED
        BY <2>1 DEF QueueInv, Worker, WorkerAwake
<1> QED
    BY <1>1, QueueInvariant, PTL

\* A user who was given a hash has a transaction in the pool or on the chain, and a
\* relay fails only when its user is refused (queue.ts: resolve and reject).
THEOREM AnswersAreTrue == Spec => []AnswerIsTrue
<1>1. QueueInv => AnswerIsTrue
    <2> SUFFICES ASSUME QueueInv, NEW r \in Requests
                 PROVE  /\ handler[r] = "answered" => r \in Accepted /\ watcher[r] # "none"
                        /\ status[r] = "failed" => handler[r] = "refused"
        BY DEF AnswerIsTrue
    <2>1. StageOf(r) /\ status[r] \in Statuses
        BY DEF QueueInv, Stages, Typed
    <2> QED
        BY <2>1 DEF StageOf, Statuses, Checking
<1> QED
    BY <1>1, QueueInvariant, PTL

-----------------------------------------------------------------------------
(* Nonces.                                                                 *)

\* No step lets a nonce that was fetched be taken by another transaction.
LEMMA NonceStep == QueueInv /\ QueueInv' /\ NoNonceConflict /\ [Next]_vars => NoNonceConflict'
<1> SUFFICES ASSUME QueueInv, QueueInv', NoNonceConflict, [Next]_vars,
                    NEW s \in sending' \ Accepted'
             PROVE  nonce'[s] \in {-1, nextNonce'}
    BY DEF NoNonceConflict
<1>1. /\ s \in Requests /\ nonce \in [Requests -> Int] /\ status'[s] = "submitting"
      /\ s \in sending => status[s] = "submitting" /\ \A r \in sending : r = s
      /\ status[s] \in {"none", "pending"} => nonce[s] = -1
      /\ s \in sending <=> status[s] = "submitting"
      /\ status[s] \in Statuses
    BY DEF QueueInv, Typed, Stages, StageOf, Worker
\* Who is on its way to the worker has no nonce, and who is there keeps it.
<1>2. ASSUME UNCHANGED <<chain, nonce>>, s \in sending \/ status[s] \in {"none", "pending"}
      PROVE  nonce'[s] \in {-1, nextNonce'}
    BY <1>1, <1>2 DEF NoNonceConflict, chain, Accepted
<1>3. CASE UNCHANGED vars
    BY <1>2, <1>3 DEF vars, chain, worker
<1>4. ASSUME NEW r \in Requests, Handler(r) PROVE nonce'[s] \in {-1, nextNonce'}
    <2>1. CASE EnqueueRelay(r)
        <3>1. UNCHANGED <<chain, nonce>> /\ processQueue(Append(queue, r), [status EXCEPT ![r] = "pending"])
            BY <2>1 DEF EnqueueRelay
        <3>2. s \in sending \/ s = r \/ status[s] = "pending"
            <4>1. CASE processing
                BY <3>1, <4>1 DEF processQueue
            <4>2. CASE ~processing /\ s \notin sending
                <5>1. sending' = sending \cup {Head(Append(queue, r))} /\ queue = <<>>
                    BY <3>1, <4>2 DEF processQueue, Loop, QueueInv, Worker
                <5> QED
                    BY <4>2, <5>1
            <4> QED
                BY <4>1, <4>2
        <3>3. status[r] = "none"
            BY <2>1 DEF EnqueueRelay, QueueInv, Typed, Stages, StageOf, Statuses, Checking
        <3> QED
            BY <1>2, <3>1, <3>2, <3>3
    <2>2. CASE ~EnqueueRelay(r)
        <3>1. UNCHANGED <<chain, worker>>
            BY <1>4, <2>2 DEF Handler, ReadDeposit, ReadDebt, CheckEscrow, HandlerFails
        <3> QED
            BY <1>2, <3>1 DEF worker
    <2> QED
        BY <2>1, <2>2
<1>5. ASSUME NEW r \in Requests, Broadcast(r) PROVE nonce'[s] \in {-1, nextNonce'}
    <2>1. CASE FetchNonce(r)
        <3>1. s = r /\ nonce' = [nonce EXCEPT ![r] = nextNonce] /\ nextNonce' = nextNonce
            BY <1>1, <2>1 DEF FetchNonce, chain
        <3> QED
            BY <1>1, <3>1
    <2>2. CASE NodeAccepts(r)
        BY <1>1, <2>2 DEF NodeAccepts, Accepted, worker
    <2>3. CASE BroadcastResolves(r) \/ BroadcastRejects(r)
        <3>1. /\ r \in sending /\ r # s /\ UNCHANGED <<chain, nonce>>
              /\ \A x \in Requests \ {r} : status[x] # "pending" => status'[x] = status[x]
            <4>1. PICK result \in {"submitted", "failed"} :
                      Loop(queue, sending \ {r}, [status EXCEPT ![r] = result])
                BY <2>3 DEF BroadcastResolves, BroadcastRejects
            <4>2. r \in sending /\ UNCHANGED <<chain, nonce>>
                BY <2>3 DEF BroadcastResolves, BroadcastRejects
            <4>3. status'[r] = result
                BY <4>1, <4>2, TurnEnds
            <4>4. \A x \in Requests \ {r} : status[x] # "pending" => status'[x] = status[x]
                BY <4>1, <4>2, TurnEnds
            <4> QED
                BY <1>1, <4>2, <4>3, <4>4
        <3>2. s \in sending \/ status[s] = "pending"
            BY <1>1, <3>1
        <3> QED
            BY <1>2, <3>1, <3>2
    <2> QED
        BY <1>5, <2>1, <2>2, <2>3 DEF Broadcast
<1>6. ASSUME NEW r \in Requests, Block(r) PROVE nonce'[s] \in {-1, nextNonce'}
    <2>1. UNCHANGED <<nextNonce, worker, status>> /\ Accepted' = Accepted
        BY <1>6 DEF Block, Mine, Accepted
    <2> QED
        BY <1>1, <2>1 DEF NoNonceConflict, worker
<1>7. ASSUME NEW r \in Requests, WatcherSeesReceipt(r) \/ WatcherTimesOut(r)
      PROVE  nonce'[s] \in {-1, nextNonce'}
    BY <1>2, <1>7 DEF WatcherSeesReceipt, WatcherTimesOut, WatcherStops, worker
<1> QED
    BY <1>3, <1>4, <1>5, <1>6, <1>7 DEF Next

\* The nonce a broadcast fetched stays the account's next one until the node has
\* its transaction, also when the answer to an earlier one was lost (queue.ts:
\* the loop awaits execute() before it takes the next entry).
THEOREM NoncesKeepApart == Spec => []NoNonceConflict
<1>1. Init => NoNonceConflict
    BY DEF Init, NoNonceConflict
<1> QED
    BY <1>1, QueueInvariant, NonceStep, PTL DEF Spec

-----------------------------------------------------------------------------
(* Escrow.                                                                 *)

\* What the requests of S cost together, for a cost of each.
Total(f, S) == MapThenSumSet(LAMBDA r : f[r], S)

Sponsored(p, S) == {r \in S : PaymasterOf[r] = p}

\* A sum depends on what is summed up and on nothing else.
LEMMA TotalsAgree ==
    ASSUME NEW S, NEW f, NEW g, \A x \in S : f[x] = g[x]
    PROVE  Total(f, S) = Total(g, S)
<1> DEFINE Body(h, it) == [s \in SUBSET S |-> IF s = {} THEN 0
                              ELSE LET x == CHOOSE x \in s : TRUE IN h[x] + it[s \ {x}]]
           Sum(h) == CHOOSE it : it = Body(h, it)
<1>1. \A it : it = Body(f, it) <=> it = Body(g, it)
    OBVIOUS
<1> HIDE DEF Body
<1>2. Sum(f) = Sum(g)
    BY <1>1
<1>3. Total(f, S) = Sum(f)[S]
    BY DEF Total, MapThenSumSet, MapThenFoldSet, Body
<1>4. Total(g, S) = Sum(g)[S]
    BY DEF Total, MapThenSumSet, MapThenFoldSet, Body
<1> QED
    BY <1>2, <1>3, <1>4

\* DebtOf is such a total.
LEMMA DebtIsTotal ==
    ASSUME NEW p, NEW S
    PROVE  DebtOf(p, S) = Total(cost, Sponsored(p, S))
  BY DEF DebtOf, Total, Sponsored

Polling == {r \in Requests : watcher[r] = "polling"}

\* EscrowCoversSubmitted with Total for DebtOf.
EscrowInv ==
    /\ DOMAIN cost = Requests
    /\ activeInFlight = Polling
    /\ \A p \in Paymasters : debt[p] = Total(cost, Sponsored(p, Polling))

\* Setting the locks to those that are polled afterwards counts them right.
LEMMA SettingLocks ==
    ASSUME QueueInv, EscrowInv, NEW r \in Requests, UNCHANGED cost,
           NEW locks, SetLocks(locks, PaymasterOf[r]),
           locks = Polling', Polling' \ {r} = Polling \ {r}
    PROVE  EscrowInv'
<1>1. /\ activeInFlight' = Polling'
      /\ debt' = [debt EXCEPT ![PaymasterOf[r]] = Total(cost, Sponsored(PaymasterOf[r], locks))]
    BY DebtIsTotal DEF SetLocks
<1>2. ASSUME NEW p \in Paymasters PROVE debt'[p] = Total(cost', Sponsored(p, Polling'))
    <2>1. CASE p = PaymasterOf[r]
        BY <1>1, <2>1 DEF QueueInv, Typed
    <2>2. CASE p # PaymasterOf[r]
        <3>1. debt'[p] = Total(cost, Sponsored(p, Polling))
            BY <1>1, <2>2 DEF QueueInv, Typed, EscrowInv
        <3>2. Sponsored(p, Polling) = Sponsored(p, Polling')
            BY <2>2 DEF Sponsored
        <3> QED
            BY <3>1, <3>2
    <2> QED
        BY <2>1, <2>2
<1> QED
    BY <1>1, <1>2 DEF EscrowInv, Sponsored

\* The locks stay as they are, and no cost changes that is locked.
LEMMA LocksRest ==
    ASSUME QueueInv, EscrowInv, UNCHANGED <<activeInFlight, debt, Polling>>,
           DOMAIN cost' = Requests, \A r \in Polling : cost'[r] = cost[r]
    PROVE  EscrowInv'
<1>1. ASSUME NEW p \in Paymasters PROVE debt'[p] = Total(cost', Sponsored(p, Polling'))
    <2>1. \A r \in Sponsored(p, Polling) : cost'[r] = cost[r]
        BY DEF Sponsored
    <2>2. Total(cost', Sponsored(p, Polling)) = Total(cost, Sponsored(p, Polling))
        BY <2>1, TotalsAgree
    <2> QED
        BY <2>2 DEF EscrowInv
<1> QED
    BY <1>1 DEF EscrowInv, Sponsored

\* Every step counts the locks right.
LEMMA EscrowStep == QueueInv /\ EscrowInv /\ [Next]_vars => EscrowInv'
<1> SUFFICES ASSUME QueueInv, EscrowInv, [Next]_vars PROVE EscrowInv'
    OBVIOUS
<1>1. \A r \in Requests : /\ r \in Polling <=> status[r] = "submitted"
                          /\ r \in Polling => handler[r] = "answered"
                          /\ r \in sending => r \notin Polling
    BY DEF QueueInv, Stages, StageOf, Polling
<1>2. watcher \in [Requests -> {"none", "polling", "done"}] /\ DOMAIN cost = Requests
    BY DEF QueueInv, Typed, EscrowInv
<1>3. ASSUME UNCHANGED <<escrow, watcher, cost>> PROVE EscrowInv'
    BY <1>3, LocksRest DEF escrow, Polling, EscrowInv
<1>4. ASSUME NEW r \in Requests, Handler(r) PROVE EscrowInv'
    <2>1. ASSUME NEW gasPrice \in GasPrices, CheckEscrow(r, gasPrice) PROVE EscrowInv'
        <3>1. r \notin Polling /\ UNCHANGED <<activeInFlight, debt, Polling>>
            BY <1>1, <2>1 DEF CheckEscrow, escrow, Polling
        <3>2. DOMAIN cost' = Requests /\ \A s \in Polling : cost'[s] = cost[s]
            BY <1>2, <2>1, <3>1 DEF CheckEscrow, Polling
        <3> QED
            BY <3>1, <3>2, LocksRest
    <2> QED
        BY <1>3, <1>4, <2>1 DEF Handler, ReadDeposit, ReadDebt, HandlerFails, EnqueueRelay
<1>5. ASSUME NEW r \in Requests, Broadcast(r) PROVE EscrowInv'
    <2>1. CASE BroadcastResolves(r)
        <3>1. /\ SetLocks(activeInFlight \cup {r}, PaymasterOf[r]) /\ UNCHANGED cost
              /\ watcher' = [watcher EXCEPT ![r] = "polling"]
            BY <2>1 DEF BroadcastResolves, registerLock
        <3>2. Polling' = Polling \cup {r}
            BY <1>2, <3>1 DEF Polling
        <3>3. activeInFlight \cup {r} = Polling' /\ Polling' \ {r} = Polling \ {r}
            BY <3>2 DEF EscrowInv
        <3> QED
            BY <3>1, <3>3, SettingLocks
    <2> QED
        BY <1>3, <1>5, <2>1 DEF Broadcast, FetchNonce, NodeAccepts, BroadcastRejects, checks
<1>6. ASSUME NEW r \in Requests, WatcherStops(r) PROVE EscrowInv'
    <2>1. /\ SetLocks(activeInFlight \ {r}, PaymasterOf[r]) /\ UNCHANGED cost
          /\ watcher' = [watcher EXCEPT ![r] = "done"]
        BY <1>6 DEF WatcherStops, releaseLock, checks
    <2>2. Polling' = Polling \ {r}
        BY <1>2, <2>1 DEF Polling
    <2>3. activeInFlight \ {r} = Polling' /\ Polling' \ {r} = Polling \ {r}
        BY <2>2 DEF EscrowInv
    <2> QED
        BY <2>1, <2>3, SettingLocks
<1>7. CASE UNCHANGED vars
    BY <1>3, <1>7 DEF vars, checks
<1>8. ASSUME NEW r \in Requests, Block(r) PROVE EscrowInv'
    BY <1>3, <1>8 DEF Block, Mine, checks
<1> QED
    BY <1>4, <1>5, <1>6, <1>7, <1>8 DEF Next, WatcherSeesReceipt, WatcherTimesOut

\* The debt of a paymaster is the cost of its relays that were answered with a hash
\* and are still watched: no lock counts twice and none is forgotten (queue.ts:
\* registerLock, releaseLock, updatePaymasterDebt).
THEOREM DebtIsExact == Spec => []EscrowCoversSubmitted
<1>1. Init => EscrowInv
    <2> SUFFICES ASSUME Init PROVE EscrowInv
        OBVIOUS
    <2>1. Polling = {} /\ activeInFlight = {} /\ debt = [p \in Paymasters |-> 0]
        BY DEF Init, Polling
    <2>2. \A p \in Paymasters : Sponsored(p, Polling) = {}
        BY <2>1 DEF Sponsored
    <2>3. Total(cost, {}) = 0
        BY DEF Total, MapThenSumSet, MapThenFoldSet
    <2> QED
        BY <2>1, <2>2, <2>3 DEF EscrowInv, Init
<1>2. QueueInv /\ EscrowInv => EscrowCoversSubmitted
    <2> SUFFICES ASSUME QueueInv, EscrowInv PROVE EscrowCoversSubmitted
        OBVIOUS
    <2>1. Polling = {r \in Requests : status[r] = "submitted"}
        BY DEF QueueInv, Stages, StageOf, Polling
    <2>2. \A p \in Paymasters : debt[p] = DebtOf(p, Polling)
        BY DebtIsTotal DEF EscrowInv
    <2> QED
        BY <2>1, <2>2 DEF EscrowInv, EscrowCoversSubmitted, Polling
<1> QED
    BY <1>1, <1>2, QueueInvariant, EscrowStep, PTL DEF Spec

-----------------------------------------------------------------------------
(* The queue implements the submitter.                                     *)

Served == {r \in Requests : Outcome(r) # "none"}

Busy == IF processing THEN 1 ELSE 0

\* What was enqueued has been sent, is being sent, or waits, in this order; and
\* what has been sent is served.
OrderInv ==
    /\ enqueued = broadcasts \o queue
    /\ \A r \in Elements(enqueued) : status[r] # "none"
    /\ IsFiniteSet(Served) /\ Cardinality(Served) = Len(broadcasts) - Busy
    /\ processing => broadcasts # <<>> /\ broadcasts[Len(broadcasts)] \in sending

\* A turn of the worker moves the head of the queue behind what was sent.
LEMMA LoopOrder ==
    ASSUME NEW q \in Seq(Requests), NEW st, NEW rest, broadcasts \in Seq(Requests),
           Loop(q, rest, st)
    PROVE  /\ broadcasts' \o queue' = broadcasts \o q
           /\ Len(broadcasts') - Busy' = Len(broadcasts)
           /\ processing' => broadcasts' # <<>> /\ broadcasts'[Len(broadcasts')] \in sending'
<1>1. CASE q = <<>>
    BY <1>1 DEF Loop, Busy
<1>2. CASE q # <<>>
    <2>1. /\ processing' = TRUE /\ queue' = Tail(q) /\ sending' = rest \cup {Head(q)}
          /\ broadcasts' = Append(broadcasts, Head(q))
        BY <1>2 DEF Loop
    <2>2. Head(q) \in Requests /\ Tail(q) \in Seq(Requests)
        BY <1>2
    <2>3. Append(broadcasts, Head(q)) \o Tail(q) = broadcasts \o q
        BY <1>2, <2>2
    <2> QED
        BY <2>1, <2>2, <2>3 DEF Busy
<1> QED
    BY <1>1, <1>2

\* What is appended to the second of two sequences is appended to both.
LEMMA AppendToConcat ==
    ASSUME NEW p \in Seq(Requests), NEW q \in Seq(Requests), NEW x \in Requests
    PROVE  Append(p \o q, x) = p \o Append(q, x)
  OBVIOUS

\* What is not enqueued, served or about to be changes nothing.
LEMMA OrderRests ==
    ASSUME QueueInv, OrderInv, UNCHANGED <<queue, processing, sending, broadcasts, enqueued>>,
           \A r \in Requests : Outcome(r)' = Outcome(r),
           \A r \in Requests : status[r] # "none" => status'[r] # "none"
    PROVE  OrderInv' /\ UNCHANGED <<enqueued, [r \in Requests |-> Outcome(r)]>>
<1>1. Served' = Served
    BY DEF Served
<1>2. Elements(enqueued) \subseteq Requests
    BY DEF QueueInv, Typed, Elements
<1> QED
    BY <1>1, <1>2 DEF OrderInv, Busy

SubmitterStep == [Submitter!Next]_<<enqueued, [r \in Requests |-> Outcome(r)]>>

\* A request that is pushed is submitted.
LEMMA OrderEnqueue ==
    ASSUME QueueInv, OrderInv, QueueInv', NEW r \in Requests, EnqueueRelay(r)
    PROVE  OrderInv' /\ SubmitterStep
<1> DEFINE q  == Append(queue, r)
           st == [status EXCEPT ![r] = "pending"]
<1>1. /\ processQueue(q, st) /\ enqueued' = Append(enqueued, r)
      /\ status[r] = "none" /\ handler[r] = "simulating"
    BY DEF EnqueueRelay, QueueInv, Typed, Stages, StageOf, Statuses, Checking
<1>2. /\ broadcasts \in Seq(Requests) /\ queue \in Seq(Requests) /\ enqueued \in Seq(Requests)
      /\ q \in Seq(Requests) /\ status \in [Requests -> Statuses]
    BY DEF QueueInv, Typed
<1>3. enqueued' = broadcasts \o q
    <2>1. Append(broadcasts \o queue, r) = broadcasts \o q
        BY <1>2, AppendToConcat
    <2> QED
        BY <1>1, <2>1 DEF OrderInv
<1>4. Elements(enqueued') = Elements(enqueued) \cup {r}
    <2>1. /\ DOMAIN enqueued = 1..Len(enqueued) /\ DOMAIN enqueued' = 1..(Len(enqueued) + 1)
          /\ Len(enqueued) \in Nat /\ enqueued'[Len(enqueued) + 1] = r
          /\ \A i \in 1..Len(enqueued) : enqueued'[i] = enqueued[i]
        BY <1>1, <1>2
    <2> QED
        BY <2>1 DEF Elements
<1>5. \A s \in Requests : /\ st[s] = IF s = r THEN "pending" ELSE status[s]
                          /\ st[s] # "pending" => status'[s] = st[s]
                          /\ st[s] = "pending" => status'[s] \in {"pending", "submitting"}
    <2>1. \A s \in Requests : st[s] = IF s = r THEN "pending" ELSE status[s]
        BY <1>2
    <2>2. status' = st \/ \E s \in Requests : st[s] = "pending" /\ status' = [st EXCEPT ![s] = "submitting"]
        <3>1. CASE processing
            BY <1>1, <3>1 DEF processQueue
        <3>2. CASE ~processing
            <4>1. queue = <<>> /\ Loop(q, sending, st)
                BY <1>1, <3>2 DEF processQueue, QueueInv, Worker
            <4>2. q # <<>> /\ Head(q) = r
                BY <4>1
            <4> QED
                BY <2>1, <4>1, <4>2 DEF Loop
        <3> QED
            BY <3>1, <3>2
    <2>3. st \in [Requests -> Statuses]
        BY <1>2 DEF Statuses
    <2> HIDE DEF st
    <2> QED
        BY <2>1, <2>2, <2>3
<1>6. \A s \in Requests : Outcome(s)' = Outcome(s)
    BY <1>1, <1>5 DEF Outcome
<1>7. Served' = Served
    BY <1>6 DEF Served
<1>8. /\ broadcasts' \o queue' = broadcasts \o q
      /\ Len(broadcasts') - Busy' = Len(broadcasts) - Busy
      /\ processing' => broadcasts' # <<>> /\ broadcasts'[Len(broadcasts')] \in sending'
    <2>1. CASE processing
        BY <1>1, <2>1 DEF processQueue, OrderInv, Busy
    <2>2. CASE ~processing
        <3>1. Loop(q, sending, st) /\ Busy = 0
            BY <1>1, <2>2 DEF processQueue, Busy
        <3>2. /\ broadcasts' \o queue' = broadcasts \o q
              /\ Len(broadcasts') - Busy' = Len(broadcasts)
              /\ processing' => broadcasts' # <<>> /\ broadcasts'[Len(broadcasts')] \in sending'
            BY <1>2, <3>1, LoopOrder
        <3> QED
            BY <1>2, <3>1, <3>2
    <2> QED
        BY <2>1, <2>2
<1> HIDE DEF q, st
<1>9. OrderInv'
    <2>1. \A s \in Elements(enqueued') : status'[s] # "none"
        <3>1. Elements(enqueued) \subseteq Requests
            BY <1>2 DEF Elements
        <3> QED
            BY <1>4, <1>5, <3>1 DEF OrderInv
    <2> QED
        BY <1>3, <1>7, <1>8, <2>1 DEF OrderInv, Elements
<1>10. Submitter!Submit(r)
    <2>1. r \notin Submitter!Accepted
        BY <1>1 DEF OrderInv, Elements, Submitter!Accepted
    <2>2. [s \in Requests |-> Outcome(s)]' = [s \in Requests |-> Outcome(s)]
        BY <1>6
    <2> QED
        BY <1>1, <2>1, <2>2 DEF Submitter!Submit
<1> QED
    BY <1>9, <1>10 DEF SubmitterStep, Submitter!Next

\* A request that leaves the worker is served.
LEMMA OrderServe ==
    ASSUME QueueInv, OrderInv, QueueInv', NEW r \in sending, NEW result \in {"submitted", "failed"},
           Loop(queue, sending \ {r}, [status EXCEPT ![r] = result]), UNCHANGED enqueued
    PROVE  OrderInv' /\ SubmitterStep
<1>1. /\ broadcasts \in Seq(Requests) /\ queue \in Seq(Requests) /\ enqueued \in Seq(Requests)
      /\ r \in Requests /\ processing /\ \A s \in sending : s = r
    BY DEF QueueInv, Typed, Worker
<1>2. /\ status[r] = "submitting" /\ status'[r] = result
      /\ \A s \in Requests \ {r} :
            /\ status[s] # "pending" => status'[s] = status[s]
            /\ status[s] = "pending" => status'[s] \in {"pending", "submitting"}
    BY TurnEnds
<1>3. \A s \in Requests \ {r} : Outcome(s)' = Outcome(s)
    BY <1>2 DEF Outcome
<1>4. Outcome(r) = "none" /\ Outcome(r)' \in {"sent", "failed"}
    BY <1>2 DEF Outcome
<1>5. Served' = Served \cup {r} /\ r \notin Served
    BY <1>1, <1>3, <1>4 DEF Served
<1>6. /\ IsFiniteSet(Served') /\ Cardinality(Served') = Cardinality(Served) + 1
      /\ Cardinality(Served) \in Nat
    BY <1>5, FS_AddElement, FS_CardinalityType DEF OrderInv
<1>7. /\ broadcasts' \o queue' = broadcasts \o queue
      /\ Len(broadcasts') - Busy' = Len(broadcasts)
      /\ processing' => broadcasts' # <<>> /\ broadcasts'[Len(broadcasts')] \in sending'
    BY <1>1, LoopOrder
<1>8. Cardinality(Served) + 1 = Len(broadcasts) /\ broadcasts[Len(broadcasts)] = r
    BY <1>1, <1>6 DEF OrderInv, Busy
<1>9. OrderInv'
    <2>1. \A s \in Elements(enqueued') : status'[s] # "none"
        <3>1. Elements(enqueued) \subseteq Requests
            BY <1>1 DEF Elements
        <3> QED
            BY <1>2, <3>1 DEF OrderInv
    <2> QED
        BY <1>6, <1>7, <1>8, <2>1 DEF OrderInv, Elements
<1>10. Submitter!Serve(Outcome(r)')
    <2>1. Submitter!Served = Served
        BY DEF Submitter!Served, Served
    <2>2. enqueued[Len(broadcasts)] = r /\ Len(broadcasts) <= Len(enqueued)
        <3>1. enqueued = broadcasts \o queue /\ Len(broadcasts) \in 1..Len(broadcasts)
            BY <1>1 DEF OrderInv
        <3> QED
            BY <1>1, <1>8, <3>1
    <2>3. [s \in Requests |-> Outcome(s)]'
             = [[s \in Requests |-> Outcome(s)] EXCEPT ![r] = Outcome(r)']
        BY <1>1, <1>3
    <2>4. Cardinality(Served) < Len(enqueued)
        BY <1>1, <1>6, <1>8, <2>2
    <2>5. Submitter!Cardinality(Submitter!Served) = Cardinality(Served)
        BY <2>1 DEF Cardinality, Submitter!Cardinality, IsFiniteSet, Submitter!IsFiniteSet
    <2>6. enqueued[Cardinality(Served) + 1] = r
        BY <1>8, <2>2
    <2> QED
        BY <2>3, <2>4, <2>5, <2>6 DEF Submitter!Serve
<1> QED
    BY <1>4, <1>9, <1>10 DEF SubmitterStep, Submitter!Next, Submitter!ServeNext

\* Every step keeps the order, and is one of the submitter or none.
LEMMA OrderStep ==
    ASSUME QueueInv, OrderInv, QueueInv', [Next]_vars
    PROVE  OrderInv' /\ SubmitterStep
<1>1. ASSUME UNCHANGED <<worker, status, enqueued>> PROVE OrderInv' /\ SubmitterStep
    BY <1>1, OrderRests DEF worker, Outcome, SubmitterStep
<1>2. CASE UNCHANGED vars
    BY <1>1, <1>2 DEF vars
<1>3. ASSUME NEW r \in Requests, Handler(r) PROVE OrderInv' /\ SubmitterStep
    BY <1>1, <1>3, OrderEnqueue DEF Handler, ReadDeposit, ReadDebt, CheckEscrow, HandlerFails
<1>4. ASSUME NEW r \in Requests, FetchNonce(r) \/ NodeAccepts(r) PROVE OrderInv' /\ SubmitterStep
    <2>1. UNCHANGED <<queue, processing, sending, broadcasts, status, enqueued>>
        BY <1>4 DEF FetchNonce, NodeAccepts, worker
    <2> QED
        BY <2>1, OrderRests DEF Outcome, SubmitterStep
<1>5. ASSUME NEW r \in Requests, BroadcastResolves(r) PROVE OrderInv' /\ SubmitterStep
    BY <1>5, OrderServe DEF BroadcastResolves
<1>6. ASSUME NEW r \in Requests, BroadcastRejects(r) PROVE OrderInv' /\ SubmitterStep
    BY <1>6, OrderServe DEF BroadcastRejects
<1>7. ASSUME NEW r \in Requests, Block(r) PROVE OrderInv' /\ SubmitterStep
    BY <1>1, <1>7 DEF Block, Mine
<1>8. ASSUME NEW r \in Requests, WatcherStops(r) PROVE OrderInv' /\ SubmitterStep
    <2>1. /\ status' = [status EXCEPT ![r] = "confirmed"] /\ UNCHANGED <<worker, enqueued>>
          /\ status[r] = "submitted" /\ status \in [Requests -> Statuses]
        BY <1>8 DEF WatcherStops, QueueInv, Typed, Stages, StageOf
    <2>2. \A s \in Requests : /\ Outcome(s)' = Outcome(s)
                              /\ status[s] # "none" => status'[s] # "none"
        BY <2>1 DEF Outcome
    <2> QED
        BY <2>1, <2>2, OrderRests DEF worker, SubmitterStep
<1> QED
    BY <1>2, <1>3, <1>4, <1>5, <1>6, <1>7, <1>8
       DEF Next, Broadcast, WatcherSeesReceipt, WatcherTimesOut

\* Requests are served one by one, in the order they were enqueued, each once:
\* every step of the queue is a step of the abstract submitter or none (queue.ts:
\* processQueue).
THEOREM QueueImplementsSubmitter == Spec => Submitter!Spec
<1>1. Init => OrderInv /\ Submitter!Init
    <2> SUFFICES ASSUME Init PROVE OrderInv /\ Submitter!Init
        OBVIOUS
    <2>1. Served = {}
        BY DEF Init, Served, Outcome
    <2>2. OrderInv
        BY <2>1, FS_EmptySet DEF Init, OrderInv, Elements, Busy
    <2>3. Submitter!Init
        BY DEF Init, Submitter!Init, Outcome
    <2> QED
        BY <2>2, <2>3
<1>2. QueueInv /\ QueueInv' /\ OrderInv /\ [Next]_vars => OrderInv' /\ SubmitterStep
    BY OrderStep
<1>3. Spec => [](QueueInv /\ OrderInv)
    BY <1>1, <1>2, QueueInvariant, PTL DEF Spec
<1> QED
    BY <1>1, <1>2, <1>3, QueueInvariant, PTL DEF Spec, Submitter!Spec, SubmitterStep

-----------------------------------------------------------------------------
(* The paymaster.                                                          *)

\* What the two simulations have reported when both have answered.
Reported ==
    /\ innerGas + POST_EXECUTION_OVERHEAD <= contractGas
    /\ contractGas <= SIMULATION_GAS_CAP + POST_EXECUTION_OVERHEAD
    /\ nodeGas <= SIMULATION_GAS_CAP

\* The call answers only once; until then nothing is reported.
CallReported == phase \in {"checking", "quoted"} \/ (phase = "simulating" /\ "call" \notin pending)

Measured ==
    /\ nodeGas <= SIMULATION_GAS_CAP
    /\ CallReported => Reported

\* The limits, once computed, come from what was reported.
LimitsFromReport ==
    /\ phase \in {"checking", "quoted"} =>
           /\ MaxGas(limits) >= nodeGas
           /\ limits.callGasLimit >= innerGas + COLD_STORAGE_BUFFER
    /\ MaxGas(limits) <= UintMax

\* The expiry is VALIDITY_SECONDS after a moment in the past.
ExpiryBounded == validUntil <= now + VALIDITY_SECONDS

QuoteInv == QuoteTypeOK /\ Measured /\ LimitsFromReport /\ ExpiryBounded /\ QuoteIsFresh

-----------------------------------------------------------------------------
\* A buffered share of an amount covers the amount and is at most twice it
\* (gasEngine.ts:357-367; the buffers are 115 and 130 per cent).
LEMMA BufferCovers ==
    ASSUME NEW amount \in Nat
    PROVE  /\ (amount * 115) \div 100 \in amount .. 2 * amount
           /\ (amount * 130) \div 100 \in amount .. 2 * amount
  OBVIOUS

\* What the three limits computed from a report add up to.
LEMMA LimitsOfReport ==
    ASSUME NEW total \in Nat, NEW contract \in Nat, NEW inner \in Nat,
           inner <= contract,
           contract <= SIMULATION_GAS_CAP + POST_EXECUTION_OVERHEAD,
           total <= SIMULATION_GAS_CAP
    PROVE  LET pre == calculatedPreVerificationGas(total, contract)
               ver == calculatedVerificationGasLimit(contract, inner)
               call == calculatedCallGasLimit(inner)
           IN  /\ pre \in Nat /\ ver \in Nat /\ call \in Nat
               /\ call >= inner + COLD_STORAGE_BUFFER
               /\ ver + call + pre \in total .. UintMax
  <1> DEFINE ver  == calculatedVerificationGasLimit(contract, inner)
             call == calculatedCallGasLimit(inner)
             pre  == calculatedPreVerificationGas(total, contract)
  <1> USE QuoteAssumption
  <1>1. ver \in contract - inner .. 2 * (contract - inner)
    <2>1. contract - inner \in Nat  OBVIOUS
    <2> QED  BY <2>1, BufferCovers DEF calculatedVerificationGasLimit
  <1>2. call \in inner + COLD_STORAGE_BUFFER .. 2 * inner + COLD_STORAGE_BUFFER
    <2>1. (inner * 130) \div 100 \in inner .. 2 * inner  BY BufferCovers
    <2> QED  BY <2>1 DEF calculatedCallGasLimit
  <1>3. CASE total > contract
    <2>1. pre = total - contract  BY <1>3 DEF calculatedPreVerificationGas
    <2> HIDE DEF ver, call, pre
    <2>2. ver + call + pre >= total  BY <1>1, <1>2, <2>1
    <2>3. ver + call + pre <= UintMax  BY <1>1, <1>2, <2>1, CapAssumption
    <2>4. pre \in Nat /\ ver \in Nat /\ call \in Nat  BY <1>1, <1>2, <1>3, <2>1
    <2>5. call >= inner + COLD_STORAGE_BUFFER  BY <1>2
    <2>6. ver + call + pre \in total .. UintMax  BY <2>2, <2>3, <2>4
    <2> QED  BY <2>4, <2>5, <2>6 DEF ver, call, pre
  <1>4. CASE ~(total > contract)
    <2>1. pre = PRE_VERIFICATION_FLOOR  BY <1>4 DEF calculatedPreVerificationGas
    <2> HIDE DEF ver, call, pre
    <2>2. ver + call + pre >= total  BY <1>1, <1>2, <1>4, <2>1
    <2>3. ver + call + pre <= UintMax  BY <1>1, <1>2, <2>1, CapAssumption
    <2>4. pre \in Nat /\ ver \in Nat /\ call \in Nat  BY <1>1, <1>2, <2>1
    <2>5. call >= inner + COLD_STORAGE_BUFFER  BY <1>2
    <2>6. ver + call + pre \in total .. UintMax  BY <2>2, <2>3, <2>4
    <2> QED  BY <2>4, <2>5, <2>6 DEF ver, call, pre
  <1> QED  BY <1>3, <1>4

-----------------------------------------------------------------------------
\* Before the request arrives nothing is measured and nothing is signed.
LEMMA QuoteStarts == QuoteInit => QuoteInv
  BY QuoteAssumption
  DEF QuoteInit, QuoteInv, QuoteTypeOK, Measured, CallReported, Reported, LimitsFromReport,
      ExpiryBounded, QuoteIsFresh, Limits, NoLimits, MaxGas

\* Every block and every step of the handler preserves the invariant.
LEMMA QuoteKept == QuoteInv /\ [QuoteNext]_quoteVars => QuoteInv'
  <1> SUFFICES ASSUME QuoteInv, [QuoteNext]_quoteVars
               PROVE  QuoteInv'
    OBVIOUS
  <1> USE QuoteAssumption
  <1> USE DEF QuoteInv, QuoteTypeOK, Measured, CallReported, Reported, LimitsFromReport,
              ExpiryBounded, QuoteIsFresh, world, measured, terms
  <1>1. ASSUME NEW fee \in BaseFees, NEW works \in BOOLEAN, NewBlock(fee, works)
        PROVE  QuoteInv'
    <2>1. now' \in 0..MaxTime  BY <1>1 DEF NewBlock
    <2> QED  BY <1>1, <2>1 DEF NewBlock, MaxGas
  <1>2. CASE FeeArrives
    <2>1. maxFeePerGas' \in Nat /\ validUntil' \in Nat  BY <1>2 DEF FeeArrives
    <2> QED  BY <1>2, <2>1 DEF FeeArrives, MaxGas
  <1>3. ASSUME NEW inner \in GasAmounts, NEW rest \in GasAmounts,
               CallAnswers(inner, rest)
        PROVE  QuoteInv'
    <2>1. inner \in Nat /\ rest \in Nat  OBVIOUS
    <2>2. /\ innerGas' \in Nat /\ contractGas' \in Nat
          /\ Reported'
      BY <1>3, <2>1 DEF CallAnswers, WithinCap
    <2> QED  BY <1>3, <2>2 DEF CallAnswers, MaxGas
  <1>4. ASSUME NEW total \in GasAmounts, EstimateAnswers(total)
        PROVE  QuoteInv'
    <2>1. nodeGas' \in Nat /\ nodeGas' <= SIMULATION_GAS_CAP
      BY <1>4 DEF EstimateAnswers, WithinCap
    <2> QED  BY <1>4, <2>1 DEF EstimateAnswers, MaxGas
  <1>5. CASE LimitsComputed
    <2>1. Reported  BY <1>5 DEF LimitsComputed
    <2>2. innerGas <= contractGas  BY <2>1
    <2>3. /\ limits' \in Limits
          /\ limits'.callGasLimit >= innerGas + COLD_STORAGE_BUFFER
          /\ MaxGas(limits)' \in nodeGas .. UintMax
      BY <1>5, <2>1, <2>2, LimitsOfReport DEF LimitsComputed, Limits, MaxGas
    <2> QED  BY <1>5, <2>1, <2>3 DEF LimitsComputed
  <1>6. CASE QuoteHandedOut
    BY <1>6 DEF QuoteHandedOut, SponsorshipHolds, MaxGas
  <1>7. CASE Refused
    BY <1>7 DEF Refused, MaxGas
  <1>8. CASE UNCHANGED quoteVars
    BY <1>8 DEF quoteVars, MaxGas
  <1> QED
    BY <1>1, <1>2, <1>3, <1>4, <1>5, <1>6, <1>7, <1>8 DEF QuoteNext, Request

\* The invariant holds in every state of every run.
LEMMA QuoteInvariant == QuoteSpec => []QuoteInv
  BY QuoteStarts, QuoteKept, PTL DEF QuoteSpec

-----------------------------------------------------------------------------
\* No limit is negative, whichever simulation reports more than the other
\* (gasEngine.ts:349-362 subtracts big integers twice).
THEOREM QuoteTypeCorrect == QuoteSpec => []QuoteTypeOK
  BY QuoteInvariant, PTL DEF QuoteInv

\* The signed limits cover what both simulations reported, on whatever blocks
\* they ran (gasEngine.ts:345-384).
THEOREM LimitsAreEnough == QuoteSpec => []LimitsCoverEstimate
  <1>1. QuoteInv => LimitsCoverEstimate
    BY DEF QuoteInv, LimitsFromReport, LimitsCoverEstimate
  <1> QED  BY <1>1, QuoteInvariant, PTL

\* The router's checked addition of the three limits never overflows on a
\* quote (GhostRouter.sol:177, gasEngine.ts:372-381).
THEOREM LimitsNeverOverflow == QuoteSpec => []LimitsFitRouter
  <1>1. QuoteInv => LimitsFitRouter
    BY DEF QuoteInv, LimitsFromReport, LimitsFitRouter
  <1> QED  BY <1>1, QuoteInvariant, PTL

\* A quote handed out was alive at its last simulation and is bounded from
\* there (service.ts:514, GhostRouter.sol:194).
THEOREM QuotesAreFresh == QuoteSpec => []QuoteIsFresh
  BY QuoteInvariant, PTL DEF QuoteInv
=============================================================================
