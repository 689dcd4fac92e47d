----------------------------- MODULE GhostRouter -----------------------------
(***************************************************************************)
(* GhostRouter.sol and GhostShard.sol: the singleton that moves value out  *)
(* of one-time accounts ("shards") and pays the relayer out of a           *)
(* paymaster's prepaid gas deposit.                                        *)
(*                                                                         *)
(* The chain executes transactions one after the other, so the only        *)
(* concurrency is between transactions.  Inside one, executeMesh is modelled *)
(* step by step: the outer checks and the prefund debit (EnterMesh), each  *)
(* announcement, each transfer command, the revert of the sandboxed inner  *)
(* call, and the reconciliation.  A frame holds what the EVM keeps for a   *)
(* running call, with the state a revert of the inner call returns to.     *)
(*                                                                         *)
(* A call that reverts as a whole leaves no trace but the delegations of   *)
(* its transaction, so a failed check of executeMesh, depositGas or        *)
(* withdrawGas is a disabled action here, not a step.                      *)
(***************************************************************************)
EXTENDS Integers, Sequences, FiniteSetsExt

CONSTANTS
    Accounts,       \* addresses that can hold assets: shards and recipients
    Assets,         \* native ether, each ERC-20 token, each ERC-721 token id
    Paymasters,     \* addresses that deposit gas and sign sponsorships
    NoPaymaster,    \* address(0): a mesh that nobody sponsors
    Targets,        \* contracts an account may delegate its code to
    GhostShard,     \* the delegation target whose GHOST_ROUTER is this router
    NoCode,         \* the code pointer of an account that never delegated
    NoFrame,        \* no executeMesh call is running
    Meshes,         \* the bundles that users may submit
    InitialBalance, \* what each account holds of each asset at the start
    GasPrices,      \* values of tx.gasprice
    Deposits,       \* values of msg.value
    UintMax,        \* the largest value of a uint32 gas field
    Validity,       \* seconds a sponsorship stays valid
    MaxTime,        \* bound: the clock stops here
    MaxDeposited,   \* bound: what one paymaster deposits in total
    MaxEther        \* bound: ether the router holds

(***************************************************************************)
(* A command is signed over its own fields and over the announcements of   *)
(* its bundle.  sig.by is the address the signature recovers to when it is *)
(* checked against the command it came with.                               *)
(***************************************************************************)
Command == [shard: Accounts, asset: Assets, to: Accounts, value: Nat,
            target: Targets \cup {NoCode},
            sig: [by: Accounts, announcements: Seq(Accounts)]]

Limits == [verificationGasLimit: 0..UintMax, callGasLimit: 0..UintMax,
           preVerificationGas: 0..UintMax, maxFeePerGas: Nat]

Mesh == [commands: Seq(Command), announcements: Seq(Accounts), limits: Limits]

\* The sponsor of a call: a paymaster's address, or none.
Sponsors == Paymasters \cup {NoPaymaster}

\* The state that a revert of the inner call restores, and a running call.
InnerState == [isShardSpent: SUBSET Accounts, seen: SUBSET Accounts,
               balance: [Assets -> [Accounts -> Nat]],
               announced: SUBSET Accounts]

Frame == [mesh: Meshes, paymaster: Sponsors, gasPrice: Nat,
          requiredPrefund: Nat, value: Nat,
          status: {"inner", "success", "failed"},
          announcedUpTo: Nat, commandsDone: Nat, saved: InnerState]

ASSUME ConstantsAssumption ==
    /\ Meshes \subseteq Mesh
    /\ InitialBalance \in [Assets -> [Accounts -> Nat]]
    /\ GasPrices \subseteq Nat
    /\ Deposits \subseteq Nat
    /\ UintMax \in Nat /\ Validity \in Nat /\ MaxTime \in Nat
    /\ MaxDeposited \in Nat /\ MaxEther \in Nat
    /\ GhostShard \in Targets
    /\ NoCode \notin Targets
    /\ NoPaymaster \notin Paymasters
    /\ NoFrame \notin Frame

\* Addresses have 20 bytes, so that what they hold can be added up.
ASSUME FiniteAssumption == IsFiniteSet(Accounts) /\ IsFiniteSet(Paymasters)

VARIABLES
    paymasterDeposits, \* gas credit of each paymaster
    routerEther,       \* ether the router contract holds
    isShardSpent,      \* accounts marked spent
    seen,              \* transient storage: accounts locked by this transaction
    balance,           \* balance[a][x]: what account x holds of asset a
    announced,         \* stealth addresses the ERC-5564 announcer has emitted
    delegation,        \* EIP-7702 code pointer of each account
    nonce,             \* account nonce: 1 once an authorization was applied
    inTransaction,     \* a transaction is executing
    frame,             \* the running executeMesh call, or NoFrame
    now,               \* block.timestamp
    quotes,            \* sponsorships signed by the paymaster service
    deposited,         \* history: ether each paymaster has put in
    withdrawn,         \* history: ether each paymaster has taken out
    charged,           \* history: gas each paymaster has paid for
    executed           \* history: bundles whose inner call succeeded

inner    == <<isShardSpent, seen, balance, announced>>
accounts == <<delegation, nonce>>
gas      == <<paymasterDeposits, routerEther, deposited, withdrawn, charged>>
vars     == <<inner, accounts, gas, inTransaction, frame, now, quotes, executed>>

-----------------------------------------------------------------------------
(* The bundle: what it spends, what it creates, what it may cost.          *)

Inputs(m)  == {m.commands[i].shard : i \in DOMAIN m.commands}
Outputs(m) == {m.announcements[i] : i \in DOMAIN m.announcements}

MaxGas(m) == m.limits.verificationGasLimit + m.limits.callGasLimit
                + m.limits.preVerificationGas

\* A sponsorship covers commands, announcements, limits and its expiry.
Quote == [mesh: Meshes, paymaster: Paymasters, validUntil: 0..(MaxTime + Validity)]

-----------------------------------------------------------------------------
Init ==
    /\ paymasterDeposits = [p \in Paymasters |-> 0]
    /\ routerEther = 0
    /\ isShardSpent = {}
    /\ seen = {}
    /\ balance = InitialBalance
    /\ announced = {}
    /\ delegation = [x \in Accounts |-> NoCode]
    /\ nonce = [x \in Accounts |-> 0]
    /\ inTransaction = FALSE
    /\ frame = NoFrame
    /\ now = 0
    /\ quotes = {}
    /\ deposited = [p \in Paymasters |-> 0]
    /\ withdrawn = [p \in Paymasters |-> 0]
    /\ charged = [p \in Paymasters |-> 0]
    /\ executed = {}

-----------------------------------------------------------------------------
(* Gas accounts.  All three entry points are nonReentrant, so none runs    *)
(* while executeMesh calls out to a recipient or to the relayer.           *)

NonReentrant == frame = NoFrame

depositGas(p, v) ==
    /\ NonReentrant
    /\ deposited[p] + v <= MaxDeposited
    /\ routerEther + v <= MaxEther
    /\ paymasterDeposits' = [paymasterDeposits EXCEPT ![p] = @ + v]
    /\ routerEther' = routerEther + v
    /\ deposited' = [deposited EXCEPT ![p] = @ + v]
    /\ UNCHANGED <<inner, accounts, withdrawn, charged, inTransaction, frame,
                   now, quotes, executed>>

withdrawGas(p, amount) ==
    /\ NonReentrant
    /\ paymasterDeposits[p] >= amount
    /\ routerEther >= amount            \* the call with value would fail
    /\ paymasterDeposits' = [paymasterDeposits EXCEPT ![p] = @ - amount]
    /\ routerEther' = routerEther - amount
    /\ withdrawn' = [withdrawn EXCEPT ![p] = @ + amount]
    /\ UNCHANGED <<inner, accounts, deposited, charged, inTransaction, frame,
                   now, quotes, executed>>

\* The paymaster service signs a bundle for Validity seconds, on what it reads
\* of the chain between transactions.
SignQuote(p, m) ==
    /\ ~inTransaction
    /\ quotes' = quotes \cup {[mesh |-> m, paymaster |-> p,
                               validUntil |-> now + Validity]}
    /\ UNCHANGED <<inner, accounts, gas, inTransaction, frame, now, executed>>

\* Blocks advance the clock between transactions.
Tick ==
    /\ ~inTransaction
    /\ now < MaxTime
    /\ now' = now + 1
    /\ UNCHANGED <<inner, accounts, gas, inTransaction, frame, quotes, executed>>

-----------------------------------------------------------------------------
(* A type-4 transaction.  The authorizations of bundle m that reach the    *)
(* chain (auths) are processed before any call: a tuple signed for nonce 0 *)
(* takes effect only on an account whose nonce is still 0, and it stays    *)
(* even when the call it came with reverts.                                *)

\* One tuple per shard: the one of its first command.
TargetOf(m, x) ==
    LET first == CHOOSE i \in DOMAIN m.commands :
                     /\ m.commands[i].shard = x
                     /\ \A j \in 1..(i - 1) : m.commands[j].shard # x
    IN  m.commands[first].target

Authorized(m, auths) ==
    {x \in auths : nonce[x] = 0 /\ TargetOf(m, x) \in Targets}

BeginTransaction(m, auths) ==
    /\ ~inTransaction
    /\ inTransaction' = TRUE
    /\ seen' = {}
    /\ delegation' = [x \in Accounts |-> IF x \in Authorized(m, auths)
                                          THEN TargetOf(m, x) ELSE delegation[x]]
    /\ nonce' = [x \in Accounts |-> IF x \in Authorized(m, auths)
                                     THEN 1 ELSE nonce[x]]
    /\ UNCHANGED <<isShardSpent, balance, announced, gas, frame, now, quotes,
                   executed>>

\* Transient storage is cleared when the transaction ends, not before.
EndTransaction ==
    /\ inTransaction
    /\ NonReentrant
    /\ inTransaction' = FALSE
    /\ seen' = {}
    /\ UNCHANGED <<isShardSpent, balance, announced, accounts, gas, frame, now,
                   quotes, executed>>

-----------------------------------------------------------------------------
(* executeMesh: the outer call.                                            *)

\* STEP 1: every shard runs the code its command names.
CodeIntegrity(m) ==
    \A i \in DOMAIN m.commands :
        delegation[m.commands[i].shard] = m.commands[i].target

\* Mutant: the expiry is not checked.
SponsoredForever(m, p, validUntil) ==
    [mesh |-> m, paymaster |-> p, validUntil |-> validUntil] \in quotes

\* STEP 3: the sponsor signed this very bundle and it has not expired.
Sponsored(m, p, validUntil) ==
    /\ now <= validUntil
    /\ [mesh |-> m, paymaster |-> p, validUntil |-> validUntil] \in quotes

\* Mutant: the prefund is not held back.
DebitNothing(p, amount) == paymasterDeposits

Debit(p, amount) ==
    [q \in Paymasters |-> paymasterDeposits[q] - (IF q = p THEN amount ELSE 0)]

Credit(p, amount) ==
    [q \in Paymasters |-> paymasterDeposits[q] + (IF q = p THEN amount ELSE 0)]

EnterMesh(m, p, validUntil, gasPrice, value) ==
    /\ inTransaction
    /\ NonReentrant
    /\ routerEther + value <= MaxEther
    /\ gasPrice <= m.limits.maxFeePerGas
    /\ CodeIntegrity(m)
    /\ MaxGas(m) <= UintMax             \* checked uint32 addition
    /\ p \in Paymasters => /\ paymasterDeposits[p] >= MaxGas(m) * gasPrice
                           /\ Sponsored(m, p, validUntil)
    /\ paymasterDeposits' = Debit(p, MaxGas(m) * gasPrice)
    /\ routerEther' = routerEther + value
    /\ frame' = [mesh |-> m, paymaster |-> p, gasPrice |-> gasPrice,
                 requiredPrefund |-> MaxGas(m) * gasPrice, value |-> value,
                 status |-> "inner", announcedUpTo |-> 0, commandsDone |-> 0,
                 saved |-> [isShardSpent |-> isShardSpent, seen |-> seen,
                            balance |-> balance, announced |-> announced]]
    /\ UNCHANGED <<inner, accounts, deposited, withdrawn, charged,
                   inTransaction, now, quotes, executed>>

-----------------------------------------------------------------------------
(* innerExecuteMesh: announcements first, then the commands in order.      *)

InInner == frame # NoFrame /\ frame.status = "inner"

\* Mutant: any address may be announced.
AnnounceableAlways(stealth) == TRUE

\* CannotAnnounceSpentShard
Announceable(stealth) == stealth \notin isShardSpent

Announce ==
    /\ InInner
    /\ frame.announcedUpTo < Len(frame.mesh.announcements)
    /\ LET stealth == frame.mesh.announcements[frame.announcedUpTo + 1]
       IN  /\ Announceable(stealth)
           /\ announced' = announced \cup {stealth}
    /\ frame' = [frame EXCEPT !.announcedUpTo = @ + 1]
    /\ UNCHANGED <<isShardSpent, seen, balance, accounts, gas, inTransaction,
                   now, quotes, executed>>

\* Mutant: a spent shard may spend again.
SpendableAgain(c) == TRUE

\* ShardAlreadySpent: several commands of one transaction may share a shard.
Spendable(c) == c.shard \in seen \/ c.shard \notin isShardSpent

\* The signature recovers to the shard itself, over this bundle's announcements.
SignatureValid(c, m) ==
    c.sig.by = c.shard /\ c.sig.announcements = m.announcements

\* Mutants: the delegate does not ask who calls, or what the shard owns.
TransferableByAnyCode(c) == balance[c.asset][c.shard] >= c.value
TransferableUnowned(c) == delegation[c.shard] = GhostShard

\* GhostShard.transferNative, transferERC20 and transferERC721: only this
\* router may ask, and the shard must own what it sends.  (Solidity refuses a
\* call to an account without code.)
Transferable(c) ==
    /\ delegation[c.shard] = GhostShard
    /\ balance[c.asset][c.shard] >= c.value

\* Mutant: both new balances are computed from the old ones.
TransferFromOld(c) ==
    [balance EXCEPT ![c.asset] =
        [@ EXCEPT ![c.shard] = balance[c.asset][c.shard] - c.value,
                  ![c.to] = balance[c.asset][c.to] + c.value]]

Transfer(c) ==
    LET debited == [balance[c.asset] EXCEPT ![c.shard] = @ - c.value]
    IN  [balance EXCEPT ![c.asset] = [debited EXCEPT ![c.to] = @ + c.value]]

ExecuteCommand ==
    /\ InInner
    /\ frame.announcedUpTo = Len(frame.mesh.announcements)
    /\ frame.commandsDone < Len(frame.mesh.commands)
    /\ LET c == frame.mesh.commands[frame.commandsDone + 1]
       IN  /\ Spendable(c)
           /\ SignatureValid(c, frame.mesh)    \* InvalidSignature
           /\ Transferable(c)                  \* TransferFailed
           /\ isShardSpent' = isShardSpent \cup {c.shard}
           /\ seen' = seen \cup {c.shard}
           /\ balance' = Transfer(c)
    /\ frame' = [frame EXCEPT !.commandsDone = @ + 1]
    /\ UNCHANGED <<announced, accounts, gas, inTransaction, now, quotes, executed>>

InnerReturns ==
    /\ InInner
    /\ frame.announcedUpTo = Len(frame.mesh.announcements)
    /\ frame.commandsDone = Len(frame.mesh.commands)
    /\ frame' = [frame EXCEPT !.status = "success"]
    /\ UNCHANGED <<inner, accounts, gas, inTransaction, now, quotes, executed>>

\* Mutant: the announcements survive the revert.
InnerRevertsAnnounced ==
    /\ InInner
    /\ isShardSpent' = frame.saved.isShardSpent
    /\ seen' = frame.saved.seen
    /\ balance' = frame.saved.balance
    /\ frame' = [frame EXCEPT !.status = "failed"]
    /\ UNCHANGED <<announced, accounts, gas, inTransaction, now, quotes, executed>>

\* A failed check, a token or a recipient that refuses, or the inner gas limit:
\* the sandboxed call reverts, transient storage included.
InnerReverts ==
    /\ InInner
    /\ isShardSpent' = frame.saved.isShardSpent
    /\ seen' = frame.saved.seen
    /\ balance' = frame.saved.balance
    /\ announced' = frame.saved.announced
    /\ frame' = [frame EXCEPT !.status = "failed"]
    /\ UNCHANGED <<accounts, gas, inTransaction, now, quotes, executed>>

-----------------------------------------------------------------------------
(* STEP 5: reconciliation.                                                 *)

InnerEnded == frame # NoFrame /\ frame.status \in {"success", "failed"}

\* Mutant: the cost is not clamped to the prefund.
TotalGasCostUnclamped(totalGasUsed) == totalGasUsed * frame.gasPrice

\* totalGasCost: measured gas at the transaction's price, clamped to the prefund.
TotalGasCost(totalGasUsed) ==
    IF totalGasUsed * frame.gasPrice > frame.requiredPrefund
    THEN frame.requiredPrefund ELSE totalGasUsed * frame.gasPrice

\* Mutant: the relayer is paid whether or not anybody sponsors the call.
SponsorAlways == TRUE

Sponsor == frame.paymaster \in Paymasters

Reconcile(totalGasUsed) ==
    LET cost == TotalGasCost(totalGasUsed)
    IN  /\ InnerEnded
        /\ totalGasUsed >= frame.mesh.limits.preVerificationGas
        /\ paymasterDeposits' =
               Credit(frame.paymaster, frame.requiredPrefund - cost)
        /\ Sponsor => routerEther >= cost      \* the payment would fail
        /\ routerEther' = routerEther - (IF Sponsor THEN cost ELSE 0)
        /\ charged' = [q \in Paymasters |->
                          charged[q] + (IF q = frame.paymaster THEN cost ELSE 0)]
        /\ executed' = IF frame.status = "success"
                       THEN executed \cup {frame.mesh} ELSE executed
        /\ frame' = NoFrame
        /\ UNCHANGED <<inner, accounts, deposited, withdrawn, inTransaction,
                       now, quotes>>

\* The relayer's own address refuses the fee: the whole call reverts.
BundlerPaymentFails ==
    /\ InnerEnded
    /\ Sponsor
    /\ isShardSpent' = frame.saved.isShardSpent
    /\ seen' = frame.saved.seen
    /\ balance' = frame.saved.balance
    /\ announced' = frame.saved.announced
    /\ paymasterDeposits' = Credit(frame.paymaster, frame.requiredPrefund)
    /\ frame' = NoFrame
    /\ routerEther' = routerEther - frame.value
    /\ UNCHANGED <<accounts, deposited, withdrawn, charged,
                   inTransaction, now, quotes, executed>>

-----------------------------------------------------------------------------
\* totalGasUsed never needs to exceed the prefunded gas by more than one unit:
\* every larger value is clamped to the same cost.
GasUsed == IF frame = NoFrame THEN {} ELSE 0..(MaxGas(frame.mesh) + 1)

ExecuteMesh(m, p) ==
    \E validUntil \in 0..(MaxTime + Validity), gasPrice \in GasPrices,
       value \in Deposits \cup {0} :
        EnterMesh(m, p, validUntil, gasPrice, value)

Next ==
    \/ \E p \in Paymasters, v \in Deposits : depositGas(p, v)
    \/ \E p \in Paymasters, amount \in 1..MaxDeposited : withdrawGas(p, amount)
    \/ \E p \in Paymasters, m \in Meshes : SignQuote(p, m)
    \/ Tick
    \/ \E m \in Meshes : \E auths \in SUBSET Inputs(m) : BeginTransaction(m, auths)
    \/ EndTransaction
    \/ \E m \in Meshes, p \in Sponsors : ExecuteMesh(m, p)
    \/ Announce
    \/ ExecuteCommand
    \/ InnerReturns
    \/ InnerReverts
    \/ \E used \in GasUsed : Reconcile(used)
    \/ BundlerPaymentFails

Spec == Init /\ [][Next]_vars

-----------------------------------------------------------------------------
(* Properties.                                                             *)

\* What the rest of the world sees of the inner state: a running call's
\* effects count only once executeMesh has returned.
Committed ==
    IF frame = NoFrame
    THEN [isShardSpent |-> isShardSpent, seen |-> seen,
          balance |-> balance, announced |-> announced]
    ELSE frame.saved

\* Every variable has its type; in particular no deposit, no balance and no
\* ether reserve ever goes below zero (the router subtracts unchecked).
TypeOK ==
    /\ paymasterDeposits \in [Paymasters -> Nat]
    /\ routerEther \in Nat
    /\ isShardSpent \subseteq Accounts
    /\ seen \subseteq Accounts
    /\ balance \in [Assets -> [Accounts -> Nat]]
    /\ announced \subseteq Accounts
    /\ delegation \in [Accounts -> Targets \cup {NoCode}]
    /\ nonce \in [Accounts -> {0, 1}]
    /\ inTransaction \in BOOLEAN
    /\ frame \in Frame \cup {NoFrame}
    /\ now \in 0..MaxTime
    /\ quotes \subseteq Quote
    /\ deposited \in [Paymasters -> Nat]
    /\ withdrawn \in [Paymasters -> Nat]
    /\ charged \in [Paymasters -> Nat]
    /\ executed \subseteq Meshes

\* The prefund that a running call holds back from paymaster p.
Held(p) == IF frame # NoFrame /\ frame.paymaster = p
           THEN frame.requiredPrefund ELSE 0

\* A paymaster's credit is exactly what it put in, less what it took out and
\* what bundles it sponsored were charged: the debit before signature
\* validation, the refund after the sandboxed call and every revert in between
\* neither lose nor create credit.
PaymasterLedger ==
    \A p \in Paymasters :
        paymasterDeposits[p] + Held(p) + withdrawn[p] + charged[p] = deposited[p]

\* The router can always pay out every paymaster's credit at once, also in the
\* middle of a call that has debited a prefund and not yet paid the relayer.
Solvent ==
    routerEther >= SumFunction([p \in Paymasters |-> paymasterDeposits[p] + Held(p)])

\* A bundle takes effect as a whole: the spent flags and the announcements on
\* the chain are exactly those of the bundles whose inner call succeeded.
MeshIsAtomic ==
    /\ Committed.isShardSpent = UNION {Inputs(m) : m \in executed}
    /\ Committed.announced = UNION {Outputs(m) : m \in executed}

\* Transfers, reverts and fee payments neither create nor destroy assets.
SupplyConserved ==
    \A a \in Assets : SumFunction(balance[a]) = SumFunction(InitialBalance[a])

\* A failed or lost submission can be retried: an account that was never
\* delegated still has the nonce its authorization was signed for, and a spent
\* account is one that was delegated to this router's GhostShard.
RetrySafe ==
    /\ \A x \in Accounts : nonce[x] = 0 <=> delegation[x] = NoCode
    /\ \A x \in isShardSpent : delegation[x] = GhostShard

\* A step in which committed balances fall.
OnceStep ==
    \A a \in Assets, x \in Accounts :
        Committed'.balance[a][x] < Committed.balance[a][x] =>
            /\ x \in Committed'.isShardSpent
            /\ x \in Committed.isShardSpent => x \in Committed.seen
            /\ \E m \in executed' : \E i \in DOMAIN m.commands :
                  m.commands[i].shard = x /\ SignatureValid(m.commands[i], m)

\* An account loses assets only in a call that marks it spent, and that was
\* signed by it; once the transaction that spent it is over, never again.
ValueLeavesOnce == [][OnceStep]_vars

\* A step in which announcements become visible.
AnnounceStep ==
    (Committed'.announced \ Committed.announced)
        \cap Committed.isShardSpent = {}

\* No call announces an account that was spent before the call began: its owner
\* could never move what it receives.
NeverAnnouncesSpent == [][AnnounceStep]_vars

\* A step in which somebody is charged.
ChargeStep ==
    \A p \in Paymasters : charged'[p] # charged[p] =>
        \E q \in quotes :
            /\ q.paymaster = p
            /\ q.mesh = frame.mesh
            /\ now <= q.validUntil
            /\ charged'[p] - charged[p]
                  \in 0..(MaxGas(q.mesh) * q.mesh.limits.maxFeePerGas)

\* A paymaster is charged only for a bundle it signed, before the signature
\* expired, and never more than the gas limits and the price it signed allow.
ChargedWithinQuote == [][ChargeStep]_vars
=============================================================================
