--------------------------- MODULE PaymasterQuote ---------------------------
(***************************************************************************)
(* POST /api/v0/paymaster/sign: the paymaster prices a bundle by two       *)
(* simulations (gasEngine.ts), signs the limits it computed from them, and *)
(* simulates once more with what it signed before it answers               *)
(* (paymaster/service.ts).  Every call of the node is an await, and the    *)
(* clock, the base fee and the bundle's chances move in between.           *)
(***************************************************************************)
EXTENDS Integers

CONSTANTS
    BaseFees,               \* base fees of blocks
    GasAmounts,             \* gas a node or the router may report
    maxPriorityFeePerGas,   \* 1.5 gwei
    SIMULATION_GAS_CAP,     \* 25M gas
    PRE_VERIFICATION_FLOOR, \* 21k gas
    COLD_STORAGE_BUFFER,    \* 40k gas
    POST_EXECUTION_OVERHEAD, \* what the router adds to the gas it measured
    UintMax,                \* the largest uint32
    VALIDITY_SECONDS,       \* 300
    MaxTime                 \* bound: the clock stops here

ASSUME QuoteAssumption ==
    /\ BaseFees \subseteq Nat
    /\ GasAmounts \subseteq Nat
    /\ maxPriorityFeePerGas \in Nat
    /\ SIMULATION_GAS_CAP \in Nat /\ PRE_VERIFICATION_FLOOR \in Nat
    /\ COLD_STORAGE_BUFFER \in Nat \ {0} /\ POST_EXECUTION_OVERHEAD \in Nat
    /\ UintMax \in Nat /\ VALIDITY_SECONDS \in Nat /\ MaxTime \in Nat

\* With the values of the code (in gas): 101 million against 4.29 billion.
ASSUME CapAssumption ==
    4 * SIMULATION_GAS_CAP + 2 * POST_EXECUTION_OVERHEAD
        + PRE_VERIFICATION_FLOOR + COLD_STORAGE_BUFFER <= UintMax

VARIABLES
    now,          \* the clock, of the service and of blocks alike
    baseFee,      \* base fee of the latest block
    bundleWorks,  \* the bundle's inner call would succeed now
    phase,        \* where the request stands
    maxFeePerGas, \* price ceiling of this quote
    validUntil,   \* its expiry
    contractGas,  \* exactContractExecutionGas
    innerGas,     \* exactInnerCallGas
    nodeGas,      \* totalNodeEstimatedGas
    pending,      \* simulations that have not answered
    limits,       \* the gas limits of the quote
    checkedAt    \* history: when the signed bundle was last simulated

world    == <<now, baseFee, bundleWorks>>
measured == <<contractGas, innerGas, nodeGas>>
terms    == <<maxFeePerGas, validUntil>>
quoteVars == <<world, phase, terms, measured, pending, limits, checkedAt>>

Limits == [verificationGasLimit: Nat, callGasLimit: Nat, preVerificationGas: Nat]

NoLimits == [verificationGasLimit |-> 0, callGasLimit |-> 0, preVerificationGas |-> 0]

\* What the router prefunds, and the gas limit of the relayer's transaction.
MaxGas(l) == l.verificationGasLimit + l.callGasLimit + l.preVerificationGas

QuoteInit ==
    /\ now = 0
    /\ baseFee \in BaseFees
    /\ bundleWorks \in BOOLEAN
    /\ phase = "new"
    /\ maxFeePerGas = 0
    /\ validUntil = 0
    /\ contractGas = 0
    /\ innerGas = 0
    /\ nodeGas = 0
    /\ pending = {}
    /\ limits = NoLimits
    /\ checkedAt = 0

-----------------------------------------------------------------------------
(* Blocks.                                                                 *)

NewBlock(fee, works) ==
    /\ now < MaxTime
    /\ now' = now + 1
    /\ baseFee' = fee
    /\ bundleWorks' = works
    /\ UNCHANGED <<phase, terms, measured, pending, limits, checkedAt>>

-----------------------------------------------------------------------------
(* The two simulations.                                                    *)

\* The base fee arrives; the expiry is set, and both simulations are sent.
FeeArrives ==
    /\ phase = "new"
    /\ phase' = "simulating"
    /\ maxFeePerGas' = 2 * baseFee + maxPriorityFeePerGas
    /\ validUntil' = now + VALIDITY_SECONDS
    /\ pending' = {"call", "estimate"}
    /\ UNCHANGED <<world, measured, limits, checkedAt>>

\* Mutant: the simulations are sent without a gas ceiling.
WithinCapUnbounded(gas) == TRUE

WithinCap(gas) == gas <= SIMULATION_GAS_CAP

\* Mutant: a simulation of an expired sponsorship goes through.
SponsorshipHoldsAlways == TRUE

\* PaymasterExpired, in any simulation.
SponsorshipHolds == now <= validUntil

\* eth_call returns what executeMesh measured; a failed inner call is refused.
CallAnswers(inner, rest) ==
    /\ phase = "simulating" /\ "call" \in pending
    /\ SponsorshipHolds /\ bundleWorks
    /\ WithinCap(inner + rest)
    /\ innerGas' = inner
    /\ contractGas' = inner + rest + POST_EXECUTION_OVERHEAD
    /\ pending' = pending \ {"call"}
    /\ UNCHANGED <<world, phase, terms, nodeGas, limits, checkedAt>>

\* eth_estimateGas sees the outer call succeed, whatever the inner one does.
EstimateAnswers(total) ==
    /\ phase = "simulating" /\ "estimate" \in pending
    /\ SponsorshipHolds
    /\ WithinCap(total)
    /\ nodeGas' = total
    /\ pending' = pending \ {"estimate"}
    /\ UNCHANGED <<world, phase, terms, contractGas, innerGas, limits, checkedAt>>

\* Mutants: the fallback is taken always; or never.
preVerificationGasFloor(total, contract) == PRE_VERIFICATION_FLOOR
preVerificationGasUnchecked(total, contract) == total - contract

calculatedPreVerificationGas(total, contract) ==
    IF total > contract THEN total - contract ELSE PRE_VERIFICATION_FLOOR

calculatedVerificationGasLimit(contract, inner) == ((contract - inner) * 115) \div 100

\* The buffer is positive, so the fallback for a limit of 0 is never taken.
calculatedCallGasLimit(inner) == (inner * 130) \div 100 + COLD_STORAGE_BUFFER

\* Both have answered: the limits are computed, and signed with the bundle.
LimitsComputed ==
    /\ phase = "simulating" /\ pending = {}
    /\ phase' = "checking"
    /\ limits' = [verificationGasLimit |->
                      calculatedVerificationGasLimit(contractGas, innerGas),
                  callGasLimit |-> calculatedCallGasLimit(innerGas),
                  preVerificationGas |->
                      calculatedPreVerificationGas(nodeGas, contractGas)]
    /\ UNCHANGED <<world, terms, measured, pending, checkedAt>>

-----------------------------------------------------------------------------
(* signQuote: the signed bundle is simulated before it is handed out.      *)

QuoteHandedOut ==
    /\ phase = "checking"
    /\ SponsorshipHolds /\ bundleWorks
    /\ phase' = "quoted"
    /\ checkedAt' = now
    /\ UNCHANGED <<world, terms, measured, pending, limits>>

\* Mutant: a simulation that fails is caught and nobody is told.
RefusedSilently ==
    /\ phase = "new"
    /\ phase' = "refused"
    /\ UNCHANGED <<world, terms, measured, pending, limits, checkedAt>>

\* The node fails to answer, a simulation reverts, or the bundle's inner call
\* fails: the error is reported.
Refused ==
    /\ phase \in {"new", "simulating", "checking"}
    /\ phase' = "refused"
    /\ UNCHANGED <<world, terms, measured, pending, limits, checkedAt>>

-----------------------------------------------------------------------------
Request ==
    \/ FeeArrives
    \/ \E inner \in GasAmounts, rest \in GasAmounts : CallAnswers(inner, rest)
    \/ \E total \in GasAmounts : EstimateAnswers(total)
    \/ LimitsComputed
    \/ QuoteHandedOut
    \/ Refused

QuoteNext == Request \/ \E fee \in BaseFees, works \in BOOLEAN : NewBlock(fee, works)

QuoteSpec == QuoteInit /\ [][QuoteNext]_quoteVars

\* Every call of the node answers or fails.
QuoteFairSpec == QuoteSpec /\ WF_quoteVars(Request)

-----------------------------------------------------------------------------
(* Properties.                                                             *)

QuoteTypeOK ==
    /\ now \in 0..MaxTime
    /\ baseFee \in BaseFees
    /\ bundleWorks \in BOOLEAN
    /\ phase \in {"new", "simulating", "checking", "quoted", "refused"}
    /\ maxFeePerGas \in Nat
    /\ validUntil \in Nat
    /\ contractGas \in Nat /\ innerGas \in Nat /\ nodeGas \in Nat
    /\ pending \subseteq {"call", "estimate"}
    /\ limits \in Limits
    /\ checkedAt \in 0..MaxTime

\* The limits that are signed cover what was measured, although they are put
\* together from two simulations of different kinds that may have run on
\* different blocks: the transaction's gas limit is at least what the node
\* asked for, and the sandboxed call is given at least what it used.
LimitsCoverEstimate ==
    phase \in {"checking", "quoted"} =>
        /\ MaxGas(limits) >= nodeGas
        /\ limits.callGasLimit >= innerGas + COLD_STORAGE_BUFFER

\* The router adds the three limits as uint32 with overflow checks: no quote
\* makes it revert there.
LimitsFitRouter == MaxGas(limits) <= UintMax

\* A quote that is handed out was alive when its signed bundle was simulated,
\* and lives no longer than VALIDITY_SECONDS from then on, however long the
\* simulations before took: the expiry was set before them.
QuoteIsFresh ==
    phase = "quoted" => /\ checkedAt <= validUntil
                        /\ validUntil <= checkedAt + VALIDITY_SECONDS

\* Every request is answered, with a quote or with an error.
RequestIsAnswered == <>(phase \in {"quoted", "refused"})
=============================================================================
