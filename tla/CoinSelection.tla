---------------------------- MODULE CoinSelection ----------------------------
(***************************************************************************)
(* runSelectionEngine of ghost-shard-sdk/src/coinSelection.ts: which       *)
(* shards a payment of a fungible asset spends, how much of each goes to   *)
(* the recipient and how much comes back as change, and how both are split *)
(* into outputs.  Every random draw is a nondeterministic choice; since    *)
(* randomFloat() divides by 0xffffffff it can be 1, so a draw from k       *)
(* values can give k as well as 0 .. k - 1.                                *)
(***************************************************************************)
EXTENDS Integers, Sequences, SequencesExt, FiniteSetsExt

CONSTANTS
    Wallets,          \* the balances of the unspent shards, in shuffled order
    Amounts,          \* requested amounts
    Dust,             \* minDustThreshold
    MaxSplitsPerSide, \* payment outputs per shard
    MaxValue          \* bound: no balance is larger

ASSUME SelectionAssumption ==
    /\ Wallets \subseteq Seq(1..MaxValue)
    /\ Amounts \subseteq Nat
    /\ Dust \in Nat /\ MaxSplitsPerSide \in Nat /\ MaxValue \in Nat

VARIABLES
    wallet,    \* withBalance
    amount,    \* what the recipient asked for
    phase,     \* "gather", "allocate", "split", "done" or "insufficient"
    pool,      \* selectedPool: balances of the selected shards
    poolSize,  \* changeTargetPoolSize
    remaining, \* remainingNeeded
    payment,   \* shardPaymentTargets decided so far
    payments,  \* paymentSplitsByShard
    changes    \* changeSplitsByShard

vars == <<wallet, amount, phase, pool, poolSize, remaining, payment, payments, changes>>

Total(s) == SumFunction(s)

\* Math.floor(randomFloat() * k)
Draw(k) == 0..k

-----------------------------------------------------------------------------
Init ==
    /\ wallet \in Wallets
    /\ amount \in Amounts
    /\ phase = "gather"
    /\ pool = <<>>
    /\ poolSize = 0
    /\ remaining = 0
    /\ payment = <<>>
    /\ payments = <<>>
    /\ changes = <<>>

\* calculateCompressionMetrics: how many shards are swept in besides.
baselineExtra(n) == CHOOSE k \in 0..n : 4 * k * k <= n /\ n < 4 * (k + 1) * (k + 1)

\* Mutant: a wallet of up to three shards sweeps one more in as well.
extraShardsAlways(n) == {1}

extraShardsToCompress(n) ==
    LET minExtra == IF n > 500 THEN 8 ELSE IF n > 100 THEN 5
                    ELSE IF baselineExtra(n) > 1 THEN baselineExtra(n) - 1 ELSE 1
        maxExtra == IF n > 500 THEN 15 ELSE IF n > 100 THEN 10
                    ELSE baselineExtra(n) + 2
    IN  IF n <= 3 THEN {0} ELSE {d + minExtra : d \in Draw(maxExtra - minExtra + 1)}

changeTargetPoolSize(n) ==
    IF n <= 3 THEN {2}
    ELSE IF n > 500 THEN {d + 3 : d \in Draw(3)}
    ELSE IF n > 100 THEN {d + 2 : d \in Draw(3)}
    ELSE {d + 2 : d \in Draw(2)}

\* The shortest prefix of the wallet that covers the amount.
PrimaryPool ==
    CHOOSE k \in 0..Len(wallet) :
        /\ Total(SubSeq(wallet, 1, k)) >= amount
        /\ \A j \in 0..(k - 1) : Total(SubSeq(wallet, 1, j)) < amount

Insufficient ==
    /\ phase = "gather"
    /\ Total(wallet) < amount
    /\ phase' = "insufficient"
    /\ UNCHANGED <<wallet, amount, pool, poolSize, remaining, payment, payments, changes>>

Gather ==
    /\ phase = "gather"
    /\ Total(wallet) >= amount
    /\ \E extra \in extraShardsToCompress(Len(wallet)),
          size \in changeTargetPoolSize(Len(wallet)) :
          /\ pool' = SubSeq(wallet, 1, Min({PrimaryPool + extra, Len(wallet)}))
          /\ poolSize' = size
    /\ phase' = "allocate"
    /\ remaining' = amount
    /\ UNCHANGED <<wallet, amount, payment, payments, changes>>

-----------------------------------------------------------------------------
(* The allocation loop: the shard at Len(payment) + 1 is next.             *)

Here == Len(payment) + 1

\* What the shards after the next one hold.
futureCapacity == Total(SubSeq(pool, Here + 1, Len(pool)))

\* Mutant: the shards to come are not looked at.
mathFloorConstraintBlind == Dust

mathFloorConstraint ==
    IF remaining > futureCapacity THEN remaining - futureCapacity ELSE Dust

upToRemaining(contribution) == Min({contribution, remaining})

\* A shard with at least two after it, or the only one.
AllocateEarly ==
    /\ phase = "allocate"
    /\ Here <= Len(pool)
    /\ Here # Len(pool) - 1
    /\ LET maxSafeShardSpend == pool[Here] - Dust
           offered == IF mathFloorConstraint > maxSafeShardSpend THEN {pool[Here]}
                      ELSE {mathFloorConstraint
                              + ((maxSafeShardSpend - mathFloorConstraint) * d) \div 100 :
                            d \in Draw(100)}
       IN  \E contribution \in {upToRemaining(c) : c \in offered} :
              /\ payment' = Append(payment, contribution)
              /\ remaining' = remaining - contribution
    /\ UNCHANGED <<wallet, amount, phase, pool, poolSize, payments, changes>>

\* Mutant: the valve is gone.
SafetyValveStuck(contribution, balance, nextShardBalance) == contribution

\* The last two shards share what is left; the safety valve moves the shares
\* when one of them would leave less than Dust of change.
SafetyValve(contribution, balance, nextShardBalance) ==
    IF contribution <= balance - Dust /\ remaining - contribution <= nextShardBalance - Dust
    THEN contribution
    ELSE IF remaining > balance THEN balance
    ELSE remaining - nextShardBalance

AllocateLastTwo ==
    /\ phase = "allocate"
    /\ Here = Len(pool) - 1
    /\ remaining <= pool[Here] + pool[Here + 1]
    /\ \E d \in Draw(40) :
          LET contribution == SafetyValve((remaining * (d + 30)) \div 100,
                                          pool[Here], pool[Here + 1])
          IN  payment' = payment \o <<contribution, remaining - contribution>>
    /\ remaining' = 0
    /\ UNCHANGED <<wallet, amount, phase, pool, poolSize, payments, changes>>

AllocationEnds ==
    /\ phase = "allocate"
    /\ Here > Len(pool)
    /\ phase' = "split"
    /\ UNCHANGED <<wallet, amount, pool, poolSize, remaining, payment, payments, changes>>

-----------------------------------------------------------------------------
(* generateSplitsForShard: the outputs of one shard on one side.           *)

\* Mutant: a chunk may fall below the dust threshold.
chunkAny(maxSafeDraw, percentage) == (maxSafeDraw * percentage) \div 100

chunk(maxSafeDraw, percentage) == Max({(maxSafeDraw * percentage) \div 100, Dust})

\* The ways to cut an amount into left + 1 outputs, or fewer when it runs out,
\* given the ways to cut one into left outputs.  A payment that the safety valve
\* made negative leaves a change above the balance, but never of twice MaxValue.
LongerCuts(cuts, left) ==
    [rest \in 0..(2 * MaxValue) |->
        LET maxSafeDraw == rest - Dust * left
        IN  IF maxSafeDraw <= Dust THEN {<<rest>>}
            ELSE UNION {{<<c>> \o cut : cut \in cuts[rest - c]} :
                           c \in {chunk(maxSafeDraw, d + 25) : d \in Draw(50)}}]

Cuts[left \in 0..(MaxSplitsPerSide + 6)] ==
    IF left = 0 THEN [rest \in 0..(2 * MaxValue) |-> {<<rest>>}]
    ELSE LongerCuts(Cuts[left - 1], left)

generateSplitsForShard(poolAmount, maxOutputs) ==
    IF poolAmount <= 0 THEN {<<>>}
    ELSE IF poolAmount < Dust * 2 \/ maxOutputs <= 1 THEN {<<poolAmount>>}
    ELSE UNION {Cuts[d][poolAmount] : d \in Draw(maxOutputs)}

\* The next shard's payment and change are split.
Split ==
    /\ phase = "split"
    /\ Len(payments) < Len(pool)
    /\ LET i == Len(payments) + 1
       IN  /\ \E s \in generateSplitsForShard(payment[i], MaxSplitsPerSide) :
                 payments' = Append(payments, s)
           /\ \E s \in generateSplitsForShard(pool[i] - payment[i], poolSize) :
                 changes' = Append(changes, s)
    /\ UNCHANGED <<wallet, amount, phase, pool, poolSize, remaining, payment>>

SplitEnds ==
    /\ phase = "split"
    /\ Len(payments) = Len(pool)
    /\ phase' = "done"
    /\ UNCHANGED <<wallet, amount, pool, poolSize, remaining, payment, payments, changes>>

Next == Insufficient \/ Gather \/ AllocateEarly \/ AllocateLastTwo
            \/ AllocationEnds \/ Split \/ SplitEnds

Spec == Init /\ [][Next]_vars

-----------------------------------------------------------------------------
(* Properties.                                                             *)

TypeOK ==
    /\ wallet \in Wallets
    /\ amount \in Amounts
    /\ phase \in {"gather", "allocate", "split", "done", "insufficient"}
    /\ pool \in Seq(Nat)
    /\ poolSize \in Nat
    /\ remaining \in Nat
    /\ payment \in Seq(Int) /\ Len(payment) <= Len(pool)
    /\ payments \in Seq(Seq(Nat))
    /\ changes \in Seq(Seq(Nat))

\* The future can pay what is still needed: the loop never gets stuck, and never
\* throws after it has started to allocate.
CapacitySuffices ==
    phase = "allocate" => remaining <= Total(SubSeq(pool, Here, Len(pool)))

\* The recipient gets exactly what was asked for.
PaysExactly ==
    phase = "done" => Total([i \in DOMAIN payments |-> Total(payments[i])]) = amount

\* coinSelection.test.ts: "payment + change sum equals shard balance for each
\* shard".
BalancesAddUp ==
    phase = "done" => \A i \in DOMAIN pool :
        Total(payments[i]) + Total(changes[i]) = pool[i]

\* An output that could be larger is no smaller than the dust threshold: a
\* shard's outputs on one side are all above it, or there is only one.
NoDustOutputs ==
    phase = "done" => \A side \in {payments, changes} : \A i \in DOMAIN pool :
        Len(side[i]) > 1 => \A j \in DOMAIN side[i] : side[i][j] >= Dust
=============================================================================
