-------------------------- MODULE GhostRouterProofs --------------------------
(***************************************************************************)
(* What holds of GhostRouter for every set of accounts, assets, paymasters *)
(* and bundles.  Each theorem is Init => I, I /\ [Next]_vars => I', and    *)
(* PTL; the facts proved first are assumed by the later ones.              *)
(***************************************************************************)
EXTENDS GhostRouter, FoldTheorems

-----------------------------------------------------------------------------
(* Types.  Besides TypeOK, a running call remembers its own message value, *)
(* which the router still holds: a refused fee payment gives it back.      *)

TypeInv == TypeOK /\ (frame # NoFrame => frame.value <= routerEther)

\* The gas a bundle may cost is a natural number.
LEMMA MeshFacts ==
    ASSUME NEW m \in Meshes
    PROVE  /\ MaxGas(m) \in Nat
           /\ m.limits.maxFeePerGas \in Nat
           /\ m.limits.preVerificationGas \in Nat
           /\ m.commands \in Seq(Command)
           /\ m.announcements \in Seq(Accounts)
BY ConstantsAssumption DEF ConstantsAssumption, MaxGas, Mesh, Limits

\* A product of naturals is a natural, and grows with its factors.
LEMMA Products ==
    ASSUME NEW i \in Nat, NEW j \in Nat, NEW k \in Nat
    PROVE  /\ i * j \in Nat
           /\ j <= k => i * j <= i * k
OBVIOUS

\* What TypeOK needs of the constants.
LEMMA ConstantTypes ==
    /\ InitialBalance \in [Assets -> [Accounts -> Nat]]
    /\ GasPrices \subseteq Nat
    /\ Deposits \subseteq Nat
    /\ MaxTime \in Nat /\ Validity \in Nat
    /\ NoPaymaster \notin Paymasters
    /\ NoFrame \notin Frame
BY ConstantsAssumption DEF ConstantsAssumption

\* The initial values have their types.
LEMMA TypeInit == Init => TypeInv
<1> SUFFICES ASSUME Init PROVE TypeInv
    OBVIOUS
<1>1. balance \in [Assets -> [Accounts -> Nat]]
    BY ConstantTypes DEF Init
<1>2. now \in 0..MaxTime
    BY ConstantTypes DEF Init
<1> QED
    BY <1>1, <1>2 DEF Init, TypeInv, TypeOK

\* A transfer lowers no balance but the sender's.
LEMMA TransferLowers ==
    ASSUME balance \in [Assets -> [Accounts -> Nat]], NEW c \in Command,
           NEW a \in Assets, NEW x \in Accounts, x # c.shard
    PROVE  ~(Transfer(c)[a][x] < balance[a][x])
<1> DEFINE debited == [balance[c.asset] EXCEPT ![c.shard] = @ - c.value]
<1>1. /\ c.asset \in Assets /\ c.shard \in Accounts
      /\ c.to \in Accounts /\ c.value \in Nat
    BY DEF Command
<1>2. balance[c.asset] \in [Accounts -> Nat] /\ balance[a][x] \in Nat
    BY <1>1
<1>3. CASE a # c.asset
    BY <1>1, <1>2, <1>3 DEF Transfer
<1>4. CASE a = c.asset
    <2>1. debited \in [Accounts -> Int] /\ debited[x] = balance[a][x]
        BY <1>1, <1>2, <1>4
    <2>2. Transfer(c)[a][x] = [debited EXCEPT ![c.to] = @ + c.value][x]
        BY <1>1, <1>4 DEF Transfer
    <2> HIDE DEF debited
    <2>3. [debited EXCEPT ![c.to] = @ + c.value][x] \in {debited[x], debited[x] + c.value}
        BY <1>1, <2>1
    <2> QED
        BY <1>1, <1>2, <2>1, <2>2, <2>3
<1> QED
    BY <1>3, <1>4

\* The gas that Reconcile charges lies between nothing and the prefund.
LEMMA CostFacts ==
    ASSUME frame \in Frame, NEW used \in GasUsed
    PROVE  /\ TotalGasCost(used) \in Nat
           /\ TotalGasCost(used) <= frame.requiredPrefund
<1>1. frame # NoFrame
    BY ConstantTypes
<1>2. /\ frame.mesh \in Meshes /\ frame.gasPrice \in Nat
      /\ frame.requiredPrefund \in Nat
    BY DEF Frame
<1>3. used \in Nat
    BY <1>1, <1>2, MeshFacts DEF GasUsed
<1>4. used * frame.gasPrice \in Nat
    BY <1>2, <1>3, Products
<1> QED
    BY <1>2, <1>4 DEF TotalGasCost

\* What a call keeps from its start to its end.
SameCall(f, g) ==
    /\ f.mesh = g.mesh /\ f.paymaster = g.paymaster /\ f.gasPrice = g.gasPrice
    /\ f.requiredPrefund = g.requiredPrefund /\ f.value = g.value
    /\ f.saved = g.saved

\* Moving on to the next announcement or command is the same call.
LEMMA FrameProgress ==
    ASSUME NEW f \in Frame
    PROVE  /\ [f EXCEPT !.announcedUpTo = @ + 1] \in Frame
           /\ [f EXCEPT !.commandsDone = @ + 1] \in Frame
           /\ SameCall(f, [f EXCEPT !.announcedUpTo = @ + 1])
           /\ SameCall(f, [f EXCEPT !.commandsDone = @ + 1])
<1>1. f.announcedUpTo + 1 \in Nat /\ f.commandsDone + 1 \in Nat
    BY DEF Frame
<1>2. ASSUME NEW n \in Nat
      PROVE  /\ [f EXCEPT !.announcedUpTo = n] \in Frame
             /\ [f EXCEPT !.commandsDone = n] \in Frame
             /\ SameCall(f, [f EXCEPT !.announcedUpTo = n])
             /\ SameCall(f, [f EXCEPT !.commandsDone = n])
    BY DEF Frame, SameCall
<1> QED
    BY <1>1, <1>2

\* A call whose inner part has ended is still a call of the same bundle.
LEMMA FrameStatus ==
    ASSUME NEW f \in Frame, NEW s \in {"success", "failed"}
    PROVE  [f EXCEPT !.status = s] \in Frame /\ SameCall(f, [f EXCEPT !.status = s])
BY DEF Frame, SameCall

\* The steps of the inner call belong to one executeMesh call.
LEMMA InnerSteps ==
    ASSUME TypeInv, Announce \/ ExecuteCommand \/ InnerReturns \/ InnerReverts
    PROVE  /\ frame \in Frame /\ frame # NoFrame
           /\ frame' \in Frame /\ frame' # NoFrame
           /\ SameCall(frame, frame')
<1>1. frame \in Frame /\ frame # NoFrame
    BY DEF TypeInv, TypeOK, InInner, Announce, ExecuteCommand, InnerReturns, InnerReverts
<1>2. \/ frame' = [frame EXCEPT !.announcedUpTo = @ + 1]
      \/ frame' = [frame EXCEPT !.commandsDone = @ + 1]
      \/ frame' = [frame EXCEPT !.status = "success"]
      \/ frame' = [frame EXCEPT !.status = "failed"]
    BY DEF Announce, ExecuteCommand, InnerReturns, InnerReverts
<1>3. frame' \in Frame /\ SameCall(frame, frame')
    BY <1>1, <1>2, FrameProgress, FrameStatus
<1> QED
    BY <1>1, <1>3, ConstantTypes

\* A call starts with a prefund that is a natural number.
LEMMA EnterFrame ==
    ASSUME TypeInv, NEW m \in Meshes, NEW p \in Sponsors, NEW validUntil,
           NEW gasPrice \in GasPrices, NEW value \in Deposits \cup {0},
           EnterMesh(m, p, validUntil, gasPrice, value)
    PROVE  /\ frame = NoFrame /\ frame' \in Frame /\ frame' # NoFrame
           /\ frame'.mesh = m /\ frame'.paymaster = p
           /\ frame'.requiredPrefund = MaxGas(m) * gasPrice
           /\ MaxGas(m) * gasPrice \in Nat /\ gasPrice \in Nat /\ value \in Nat
           /\ frame'.value = value
           /\ frame'.saved = Committed
<1>1. MaxGas(m) * gasPrice \in Nat /\ gasPrice \in Nat /\ value \in Nat
    BY MeshFacts, Products, ConstantTypes
<1>2. frame = NoFrame
    BY DEF EnterMesh, NonReentrant
<1>3. frame' \in Frame
    BY <1>1 DEF EnterMesh, Frame, InnerState, TypeInv, TypeOK
<1> QED
    BY <1>1, <1>2, <1>3, ConstantTypes DEF EnterMesh, Committed

\* A transfer the shard can afford keeps every balance a natural number.
LEMMA TransferType ==
    ASSUME balance \in [Assets -> [Accounts -> Nat]], NEW c \in Command,
           balance[c.asset][c.shard] >= c.value
    PROVE  Transfer(c) \in [Assets -> [Accounts -> Nat]]
<1> DEFINE debited == [balance[c.asset] EXCEPT ![c.shard] = @ - c.value]
<1>1. /\ c.asset \in Assets /\ c.shard \in Accounts
      /\ c.to \in Accounts /\ c.value \in Nat
    BY DEF Command
<1>2. balance[c.asset] \in [Accounts -> Nat]
    BY <1>1
<1>3. balance[c.asset][c.shard] - c.value \in Nat
    BY <1>1, <1>2
<1>4. debited \in [Accounts -> Nat]
    BY <1>1, <1>2, <1>3
<1>5. [debited EXCEPT ![c.to] = @ + c.value] \in [Accounts -> Nat]
    <2> HIDE DEF debited
    <2> QED BY <1>1, <1>4
<1> QED
    BY <1>1, <1>5 DEF Transfer

\* Every step keeps every type: the guards of the router make up for its
\* unchecked subtractions.
LEMMA TypeStep == TypeInv /\ [Next]_vars => TypeInv'
<1> SUFFICES ASSUME TypeInv, [Next]_vars PROVE TypeInv'
    OBVIOUS
<1> USE ConstantTypes DEF TypeInv, TypeOK
<1>1. ASSUME NEW p \in Paymasters, NEW v \in Deposits, depositGas(p, v)
      PROVE  TypeInv'
    BY <1>1 DEF depositGas, NonReentrant, inner, accounts
<1>2. ASSUME NEW p \in Paymasters, NEW amount \in 1..MaxDeposited,
             withdrawGas(p, amount)
      PROVE  TypeInv'
    BY <1>2 DEF withdrawGas, NonReentrant, inner, accounts
<1>3. ASSUME NEW p \in Paymasters, NEW m \in Meshes, SignQuote(p, m)
      PROVE  TypeInv'
    BY <1>3 DEF SignQuote, inner, accounts, gas, Quote
<1>4. CASE Tick
    BY <1>4 DEF Tick, inner, accounts, gas
<1>5. ASSUME NEW m \in Meshes, NEW auths \in SUBSET Inputs(m),
             BeginTransaction(m, auths)
      PROVE  TypeInv'
    BY <1>5 DEF BeginTransaction, Authorized, gas
<1>6. CASE EndTransaction
    BY <1>6 DEF EndTransaction, accounts, gas
<1>7. ASSUME NEW m \in Meshes, NEW p \in Sponsors, ExecuteMesh(m, p)
      PROVE  TypeInv'
    <2> PICK validUntil \in 0..(MaxTime + Validity), gasPrice \in GasPrices,
             value \in Deposits \cup {0} :
                 EnterMesh(m, p, validUntil, gasPrice, value)
        BY <1>7 DEF ExecuteMesh
    <2> DEFINE prefund == MaxGas(m) * gasPrice
    <2>1. prefund \in Nat /\ gasPrice \in Nat /\ value \in Nat
        BY MeshFacts, Products
    <2>2. frame' \in Frame /\ frame'.value = value
        BY EnterFrame
    <2>3. paymasterDeposits' \in [Paymasters -> Nat]
        <3>1. paymasterDeposits' = Debit(p, prefund)
            BY DEF EnterMesh
        <3>2. \A q \in Paymasters : q = p => paymasterDeposits[q] >= prefund
            BY DEF EnterMesh
        <3> HIDE DEF prefund
        <3> QED
            BY <3>1, <3>2, <2>1 DEF Debit
    <2> QED
        BY <2>1, <2>2, <2>3 DEF EnterMesh, inner, accounts
<1>8. CASE Announce
    <2> DEFINE stealth == frame.mesh.announcements[frame.announcedUpTo + 1]
    <2>0. frame \in Frame
        BY <1>8 DEF Announce, InInner
    <2>2. frame' \in Frame /\ frame'.value = frame.value
        BY <1>8, InnerSteps DEF SameCall
    <2>3. stealth \in Accounts
        <3>1. frame.announcedUpTo < Len(frame.mesh.announcements)
            BY <1>8 DEF Announce
        <3>2. frame.mesh.announcements \in Seq(Accounts) /\ frame.announcedUpTo \in Nat
            BY <2>0, MeshFacts DEF Frame
        <3> QED
            BY <3>1, <3>2
    <2>4. announced' = announced \cup {stealth}
        BY <1>8 DEF Announce
    <2> QED
        BY <1>8, <2>0, <2>2, <2>3, <2>4 DEF Announce, accounts, gas
<1>9. CASE ExecuteCommand
    <2> DEFINE c == frame.mesh.commands[frame.commandsDone + 1]
    <2>0. frame \in Frame
        BY <1>9 DEF ExecuteCommand, InInner
    <2>2. frame' \in Frame /\ frame'.value = frame.value
        BY <1>9, InnerSteps DEF SameCall
    <2>3. c \in Command
        <3>1. frame.commandsDone < Len(frame.mesh.commands)
            BY <1>9 DEF ExecuteCommand
        <3>2. frame.mesh.commands \in Seq(Command) /\ frame.commandsDone \in Nat
            BY <2>0, MeshFacts DEF Frame
        <3> QED
            BY <3>1, <3>2
    <2>4. /\ isShardSpent' \subseteq Accounts
          /\ seen' \subseteq Accounts
        BY <1>9, <2>3 DEF ExecuteCommand, Command
    <2>5. balance' \in [Assets -> [Accounts -> Nat]]
        <3>1. balance' = Transfer(c) /\ balance[c.asset][c.shard] >= c.value
            BY <1>9 DEF ExecuteCommand, Transferable
        <3> HIDE DEF c
        <3> QED
            BY <2>3, <3>1, TransferType
    <2> QED
        BY <1>9, <2>0, <2>2, <2>4, <2>5 DEF ExecuteCommand, accounts, gas
<1>10. CASE InnerReturns
    BY <1>10 DEF InnerReturns, InInner, Frame, inner, accounts, gas
<1>11. CASE InnerReverts
    BY <1>11 DEF InnerReverts, InInner, Frame, InnerState, accounts, gas
<1>12. ASSUME NEW used \in GasUsed, Reconcile(used)
       PROVE  TypeInv'
    <2> DEFINE cost == TotalGasCost(used)
    <2>1. frame \in Frame
        BY <1>12 DEF Reconcile, InnerEnded
    <2>2. cost \in Nat /\ cost <= frame.requiredPrefund
        BY <2>1, <1>12, CostFacts
    <2>3. paymasterDeposits' \in [Paymasters -> Nat]
        BY <1>12, <2>1, <2>2 DEF Reconcile, Credit, Frame
    <2>4. charged' \in [Paymasters -> Nat]
        BY <1>12, <2>1, <2>2 DEF Reconcile
    <2>5. routerEther' \in Nat
        BY <1>12, <2>2 DEF Reconcile
    <2>6. executed' \subseteq Meshes
        BY <1>12, <2>1 DEF Reconcile, Frame
    <2> QED
        BY <1>12, <2>3, <2>4, <2>5, <2>6 DEF Reconcile, inner, accounts
<1>13. CASE BundlerPaymentFails
    BY <1>13 DEF BundlerPaymentFails, InnerEnded, Frame, InnerState, Credit, accounts
<1>14. CASE UNCHANGED vars
    BY <1>14 DEF vars, inner, accounts, gas
<1> QED
    BY <1>1, <1>2, <1>3, <1>4, <1>5, <1>6, <1>7, <1>8, <1>9, <1>10, <1>11,
       <1>12, <1>13, <1>14 DEF Next

\* Every variable of the router keeps its type; no deposit, balance or reserve
\* goes below zero although the Solidity code subtracts unchecked.
THEOREM TypeCorrect == Spec => []TypeOK
<1>1. TypeInv => TypeOK
    BY DEF TypeInv
<1> QED
    BY <1>1, TypeInit, TypeStep, PTL DEF Spec

-----------------------------------------------------------------------------
(* Gas accounting.                                                         *)

\* Every step moves as much credit into one account as out of another.
LEMMA LedgerStep ==
    TypeInv /\ PaymasterLedger /\ [Next]_vars => PaymasterLedger'
<1> SUFFICES ASSUME TypeInv, PaymasterLedger, [Next]_vars,
                    NEW q \in Paymasters
             PROVE  (paymasterDeposits[q] + Held(q) + withdrawn[q] + charged[q]
                        = deposited[q])'
    BY DEF PaymasterLedger
<1>0. /\ paymasterDeposits[q] + Held(q) + withdrawn[q] + charged[q] = deposited[q]
      /\ paymasterDeposits \in [Paymasters -> Nat] /\ withdrawn \in [Paymasters -> Nat]
      /\ charged \in [Paymasters -> Nat] /\ deposited \in [Paymasters -> Nat]
      /\ frame # NoFrame => frame \in Frame
    BY DEF PaymasterLedger, TypeInv, TypeOK
<1>1. ASSUME NEW p \in Paymasters, NEW v \in Deposits, depositGas(p, v)
      PROVE  (paymasterDeposits[q] + Held(q) + withdrawn[q] + charged[q] = deposited[q])'
    BY <1>0, <1>1, ConstantTypes DEF depositGas, NonReentrant, Held
<1>2. ASSUME NEW p \in Paymasters, NEW amount \in 1..MaxDeposited,
             withdrawGas(p, amount)
      PROVE  (paymasterDeposits[q] + Held(q) + withdrawn[q] + charged[q] = deposited[q])'
    BY <1>0, <1>2 DEF withdrawGas, NonReentrant, Held
<1>3. ASSUME NEW m \in Meshes, NEW p \in Sponsors, ExecuteMesh(m, p)
      PROVE  (paymasterDeposits[q] + Held(q) + withdrawn[q] + charged[q] = deposited[q])'
    <2> PICK validUntil \in 0..(MaxTime + Validity), gasPrice \in GasPrices,
             value \in Deposits \cup {0} :
                 EnterMesh(m, p, validUntil, gasPrice, value)
        BY <1>3 DEF ExecuteMesh
    <2> DEFINE prefund == MaxGas(m) * gasPrice
    <2>1. /\ frame = NoFrame /\ frame' # NoFrame /\ prefund \in Nat
          /\ frame'.paymaster = p /\ frame'.requiredPrefund = prefund
        BY EnterFrame
    <2>2. /\ paymasterDeposits' = Debit(p, prefund)
          /\ UNCHANGED <<withdrawn, charged, deposited>>
        BY DEF EnterMesh
    <2> HIDE DEF prefund
    <2>3. paymasterDeposits'[q] + Held(q)' = paymasterDeposits[q] + Held(q)
        <3>1. CASE q = p
            BY <1>0, <2>1, <2>2, <3>1 DEF Held, Debit
        <3>2. CASE q # p
            BY <1>0, <2>1, <2>2, <3>2 DEF Held, Debit
        <3> QED BY <3>1, <3>2
    <2>4. Held(q) \in Nat /\ Held(q)' \in Nat /\ paymasterDeposits'[q] \in Int
        BY <1>0, <2>1, <2>2 DEF Held, Debit
    <2> QED
        BY <1>0, <2>2, <2>3, <2>4
<1>4. CASE Announce \/ ExecuteCommand \/ InnerReturns \/ InnerReverts
    <2>1. UNCHANGED gas
        BY <1>4 DEF Announce, ExecuteCommand, InnerReturns, InnerReverts
    <2>2. Held(q)' = Held(q)
        BY <1>4, InnerSteps DEF Held, SameCall
    <2> QED
        BY <1>0, <2>1, <2>2 DEF gas
<1>8. ASSUME NEW used \in GasUsed, Reconcile(used)
      PROVE  (paymasterDeposits[q] + Held(q) + withdrawn[q] + charged[q] = deposited[q])'
    <2> DEFINE cost == TotalGasCost(used)
    <2>1. frame \in Frame /\ frame # NoFrame
        BY <1>0, <1>8 DEF Reconcile, InnerEnded
    <2>2. cost \in Nat /\ cost <= frame.requiredPrefund /\ frame.requiredPrefund \in Nat
        BY <1>8, <2>1, CostFacts DEF Frame
    <2>3. /\ paymasterDeposits' = Credit(frame.paymaster, frame.requiredPrefund - cost)
          /\ charged' = [r \in Paymasters |->
                            charged[r] + (IF r = frame.paymaster THEN cost ELSE 0)]
          /\ frame' = NoFrame
          /\ UNCHANGED <<withdrawn, deposited>>
        BY <1>8 DEF Reconcile
    <2> HIDE DEF cost
    <2> QED
        BY <1>0, <2>1, <2>2, <2>3 DEF Held, Credit
<1>9. CASE BundlerPaymentFails
    BY <1>0, <1>9 DEF BundlerPaymentFails, InnerEnded, Held, Credit, Frame
<1>10. CASE /\ UNCHANGED <<gas, frame>>
    BY <1>0, <1>10 DEF gas, Held
<1> QED
    BY <1>1, <1>2, <1>3, <1>4, <1>8, <1>9, <1>10
       DEF Next, SignQuote, Tick, BeginTransaction, EndTransaction, vars, gas

\* However bundles fail, are retried or are refused payment, a paymaster's
\* credit is what it put in less what it took out and what it was charged.
THEOREM LedgerExact == Spec => []PaymasterLedger
<1>1. Init => PaymasterLedger
    BY DEF Init, PaymasterLedger, Held
<1> QED
    BY <1>1, TypeInit, TypeStep, LedgerStep, PTL DEF Spec

-----------------------------------------------------------------------------
(* Delegations.  RetrySafe is not inductive: a revert brings back the spent *)
(* flags of the running call's start, so those need their delegation too.  *)

RetryInv ==
    /\ RetrySafe
    /\ frame # NoFrame =>
          \A x \in frame.saved.isShardSpent : delegation[x] = GhostShard

\* Nonce and delegation change together, and only GhostShard's code spends.
LEMMA RetryStep == TypeInv /\ RetryInv /\ [Next]_vars => RetryInv'
<1> SUFFICES ASSUME TypeInv, RetryInv, [Next]_vars PROVE RetryInv'
    OBVIOUS
<1>0. /\ NoCode \notin Targets /\ GhostShard \in Targets
      /\ delegation \in [Accounts -> Targets \cup {NoCode}]
      /\ nonce \in [Accounts -> {0, 1}]
      /\ isShardSpent \subseteq Accounts
      /\ \A x \in Accounts : nonce[x] = 0 <=> delegation[x] = NoCode
      /\ \A x \in isShardSpent : delegation[x] = GhostShard
    BY ConstantsAssumption
       DEF ConstantsAssumption, TypeInv, TypeOK, RetryInv, RetrySafe
<1>1. ASSUME NEW m \in Meshes, NEW auths \in SUBSET Inputs(m),
             BeginTransaction(m, auths)
      PROVE  RetryInv'
    <2>1. frame = NoFrame \/ \A x \in frame.saved.isShardSpent :
                                 x \in Accounts /\ delegation[x] = GhostShard
        BY DEF RetryInv, TypeInv, TypeOK, Frame, InnerState
    <2>2. ASSUME NEW x \in Accounts, delegation[x] = GhostShard
          PROVE  delegation'[x] = GhostShard
        BY <1>0, <1>1, <2>2 DEF BeginTransaction, Authorized
    <2>3. ASSUME NEW x \in Accounts
          PROVE  nonce'[x] = 0 <=> delegation'[x] = NoCode
        BY <1>0, <1>1, <2>3 DEF BeginTransaction, Authorized
    <2> QED
        BY <1>0, <1>1, <2>1, <2>2, <2>3 DEF BeginTransaction, RetryInv, RetrySafe
<1>2. ASSUME NEW m \in Meshes, NEW p \in Sponsors, ExecuteMesh(m, p)
      PROVE  RetryInv'
    <2> PICK validUntil \in 0..(MaxTime + Validity), gasPrice \in GasPrices,
             value \in Deposits \cup {0} :
                 EnterMesh(m, p, validUntil, gasPrice, value)
        BY <1>2 DEF ExecuteMesh
    <2>1. frame'.saved.isShardSpent = isShardSpent
        BY DEF EnterMesh
    <2> QED
        BY <1>0, <2>1 DEF EnterMesh, RetryInv, RetrySafe, inner, accounts
<1>3. CASE ExecuteCommand
    <2> DEFINE c == frame.mesh.commands[frame.commandsDone + 1]
    <2>1. isShardSpent' = isShardSpent \cup {c.shard} /\ delegation[c.shard] = GhostShard
        BY <1>3 DEF ExecuteCommand, Transferable
    <2>2. frame'.saved = frame.saved /\ frame # NoFrame
        BY <1>3, InnerSteps DEF SameCall
    <2> QED
        BY <1>0, <1>3, <2>1, <2>2 DEF ExecuteCommand, RetryInv, RetrySafe, accounts
<1>4. CASE Announce \/ InnerReturns \/ InnerReverts
    <2>1. frame'.saved = frame.saved /\ frame # NoFrame
        BY <1>4, InnerSteps DEF SameCall
    <2>2. isShardSpent' \in {isShardSpent, frame.saved.isShardSpent} /\ UNCHANGED accounts
        BY <1>4 DEF Announce, InnerReturns, InnerReverts, inner
    <2> QED
        BY <1>0, <2>1, <2>2 DEF RetryInv, RetrySafe, accounts
<1>5. CASE BundlerPaymentFails
    BY <1>0, <1>5 DEF BundlerPaymentFails, InnerEnded, RetryInv, RetrySafe, accounts
<1>6. ASSUME UNCHANGED <<isShardSpent, accounts>>, frame' = frame \/ frame' = NoFrame
      PROVE  RetryInv'
    BY <1>0, <1>6 DEF RetryInv, RetrySafe, accounts
<1> QED
    BY <1>1, <1>2, <1>3, <1>4, <1>5, <1>6
       DEF Next, depositGas, withdrawGas, SignQuote, Tick, EndTransaction,
           Reconcile, vars, inner

\* An account keeps the nonce its authorization was signed for until it is
\* delegated, and only delegated accounts are ever spent: whatever failed
\* before, the owner's bundle can be submitted again as it is.
THEOREM RetryIsSafe == Spec => []RetrySafe
<1>1. Init => RetryInv
    BY DEF Init, RetryInv, RetrySafe
<1>2. RetryInv => RetrySafe
    BY DEF RetryInv
<1> QED
    BY <1>1, <1>2, TypeInit, TypeStep, RetryStep, PTL DEF Spec

-----------------------------------------------------------------------------
(* Sponsorship.  From its outer checks to its reconciliation a sponsored    *)
(* call carries a quote that is still in force: the clock stands still.    *)

QuoteInv ==
    frame # NoFrame =>
        /\ inTransaction
        /\ frame.requiredPrefund
               <= MaxGas(frame.mesh) * frame.mesh.limits.maxFeePerGas
        /\ frame.paymaster \in Paymasters =>
              \E q \in quotes : /\ q.paymaster = frame.paymaster
                                /\ q.mesh = frame.mesh
                                /\ now <= q.validUntil

\* A running sponsored call was signed and in time, and stays so.
LEMMA QuoteStep == TypeInv /\ QuoteInv /\ [Next]_vars => QuoteInv'
<1> SUFFICES ASSUME TypeInv, QuoteInv, [Next]_vars PROVE QuoteInv'
    OBVIOUS
<1>1. ASSUME NEW m \in Meshes, NEW p \in Sponsors, ExecuteMesh(m, p)
      PROVE  QuoteInv'
    <2> PICK validUntil \in 0..(MaxTime + Validity), gasPrice \in GasPrices,
             value \in Deposits \cup {0} :
                 EnterMesh(m, p, validUntil, gasPrice, value)
        BY <1>1 DEF ExecuteMesh
    <2>1. /\ frame'.mesh = m /\ frame'.paymaster = p
          /\ frame'.requiredPrefund = MaxGas(m) * gasPrice
        BY EnterFrame
    <2>2. MaxGas(m) * gasPrice <= MaxGas(m) * m.limits.maxFeePerGas
        <3>1. gasPrice <= m.limits.maxFeePerGas /\ gasPrice \in Nat
            BY ConstantTypes DEF EnterMesh
        <3> QED BY <3>1, MeshFacts, Products
    <2>3. inTransaction' /\ now' = now /\ quotes' = quotes
        BY DEF EnterMesh
    <2>4. p \in Paymasters =>
            \E q \in quotes : q.paymaster = p /\ q.mesh = m /\ now <= q.validUntil
        BY DEF EnterMesh, Sponsored
    <2> QED
        BY <2>1, <2>2, <2>3, <2>4 DEF QuoteInv
<1>2. CASE Announce \/ ExecuteCommand \/ InnerReturns \/ InnerReverts
    <2>1. UNCHANGED <<inTransaction, now, quotes>>
        BY <1>2 DEF Announce, ExecuteCommand, InnerReturns, InnerReverts
    <2>2. frame # NoFrame /\ SameCall(frame, frame')
        BY <1>2, InnerSteps
    <2> QED
        BY <2>1, <2>2 DEF QuoteInv, SameCall
<1>3. ASSUME frame' = NoFrame
      PROVE  QuoteInv'
    BY <1>3 DEF QuoteInv
<1>4. ASSUME frame' = frame, now' = now, quotes \subseteq quotes',
             inTransaction => inTransaction'
      PROVE  QuoteInv'
    BY <1>4 DEF QuoteInv
<1>5. CASE Tick
    BY <1>5 DEF Tick, QuoteInv
<1> QED
    BY <1>1, <1>2, <1>3, <1>4, <1>5
       DEF Next, depositGas, withdrawGas, SignQuote, BeginTransaction,
           EndTransaction, NonReentrant, Reconcile, BundlerPaymentFails, vars

\* A paymaster pays only for a bundle it signed, in time, and no more than the
\* limits it signed.
THEOREM ChargesAreQuoted == Spec => ChargedWithinQuote
<1>1. Init => QuoteInv
    BY DEF Init, QuoteInv
<1>2. TypeInv /\ QuoteInv /\ [Next]_vars => [ChargeStep]_vars
    <2> SUFFICES ASSUME TypeInv, QuoteInv, Next,
                        NEW p \in Paymasters, charged'[p] # charged[p]
                 PROVE  \E q \in quotes :
                            /\ q.paymaster = p
                            /\ q.mesh = frame.mesh
                            /\ now <= q.validUntil
                            /\ charged'[p] - charged[p]
                                  \in 0..(MaxGas(q.mesh) * q.mesh.limits.maxFeePerGas)
        BY DEF ChargeStep
    <2>1. PICK used \in GasUsed : Reconcile(used)
        BY DEF Next, depositGas, withdrawGas, SignQuote, Tick, BeginTransaction,
               EndTransaction, ExecuteMesh, EnterMesh, Announce, ExecuteCommand,
               InnerReturns, InnerReverts, BundlerPaymentFails, gas
    <2> DEFINE cost == TotalGasCost(used)
    <2>2. frame \in Frame /\ frame # NoFrame
        BY <2>1 DEF Reconcile, InnerEnded, TypeInv, TypeOK
    <2>3. cost \in Nat /\ cost <= frame.requiredPrefund /\ frame.requiredPrefund \in Nat
        BY <2>2, CostFacts DEF Frame
    <2>4. charged' = [q \in Paymasters |->
                         charged[q] + (IF q = frame.paymaster THEN cost ELSE 0)]
        BY <2>1 DEF Reconcile
    <2>5. charged[p] \in Nat
        BY DEF TypeInv, TypeOK
    <2>6. frame.mesh \in Meshes
        BY <2>2 DEF Frame
    <2>7. MaxGas(frame.mesh) * frame.mesh.limits.maxFeePerGas \in Nat
        BY <2>6, MeshFacts, Products
    <2> HIDE DEF cost
    <2>8. p = frame.paymaster /\ charged'[p] - charged[p] = cost
        BY <2>3, <2>4, <2>5
    <2> QED
        BY <2>2, <2>3, <2>7, <2>8 DEF QuoteInv
<1> QED
    BY <1>1, <1>2, TypeInit, TypeStep, QuoteStep, PTL DEF Spec, ChargedWithinQuote

-----------------------------------------------------------------------------
(* The running call.  What the inner state has become since the call began *)
(* is what the announcements and commands processed so far have made of it.*)

Emitted == {frame.mesh.announcements[j] : j \in 1..frame.announcedUpTo}
Done    == {frame.mesh.commands[i].shard : i \in 1..frame.commandsDone}

\* The shards of the commands done so far signed them, and none was spent by an
\* earlier transaction.
DoneProperly ==
    \A i \in 1..frame.commandsDone :
        LET c == frame.mesh.commands[i]
        IN  /\ SignatureValid(c, frame.mesh)
            /\ c.shard \in frame.saved.isShardSpent => c.shard \in frame.saved.seen

CallProgress ==
    /\ frame.announcedUpTo <= Len(frame.mesh.announcements)
    /\ frame.commandsDone <= Len(frame.mesh.commands)
    /\ frame.status = "success" =>
          /\ frame.announcedUpTo = Len(frame.mesh.announcements)
          /\ frame.commandsDone = Len(frame.mesh.commands)

CallEffects ==
    IF frame.status = "failed"
    THEN /\ isShardSpent = frame.saved.isShardSpent
         /\ announced = frame.saved.announced
         /\ balance = frame.saved.balance
    ELSE /\ isShardSpent = frame.saved.isShardSpent \cup Done
         /\ announced = frame.saved.announced \cup Emitted
         /\ seen \subseteq frame.saved.seen \cup Done
         /\ \A a \in Assets, x \in Accounts :
               balance[a][x] < frame.saved.balance[a][x] => x \in Done
         /\ Emitted \cap frame.saved.isShardSpent = {}

CallInv == frame # NoFrame => CallProgress /\ CallEffects /\ DoneProperly

\* The image of one more element.
LEMMA ImageGrows ==
    ASSUME NEW f, NEW n \in Nat
    PROVE  {f[j] : j \in 1..(n + 1)} = {f[j] : j \in 1..n} \cup {f[n + 1]}
<1>1. 1..(n + 1) = 1..n \cup {n + 1}
    OBVIOUS
<1> QED
    BY <1>1, Zenon

\* The same for the shard field of a sequence of commands.
LEMMA ShardsGrow ==
    ASSUME NEW f, NEW n \in Nat
    PROVE  {f[j].shard : j \in 1..(n + 1)}
              = {f[j].shard : j \in 1..n} \cup {f[n + 1].shard}
<1>1. 1..(n + 1) = 1..n \cup {n + 1}
    OBVIOUS
<1> QED
    BY <1>1, Zenon

\* What a sequence over S holds is in S.
LEMMA ElementOfSeq ==
    ASSUME NEW S, NEW s \in Seq(S), NEW i \in 1..Len(s)
    PROVE  s[i] \in S
OBVIOUS

\* A counter below its limit may take one more step.
LEMMA StepBelow ==
    ASSUME NEW n \in Nat, NEW limit \in Nat, n < limit
    PROVE  n + 1 <= limit
OBVIOUS

\* The lengths of what a bundle carries.
LEMMA FrameLengths ==
    ASSUME frame \in Frame
    PROVE  /\ Len(frame.mesh.announcements) \in Nat
           /\ Len(frame.mesh.commands) \in Nat
           /\ frame.announcedUpTo \in Nat /\ frame.commandsDone \in Nat
<1>1. frame.mesh \in Meshes /\ frame.announcedUpTo \in Nat /\ frame.commandsDone \in Nat
    BY DEF Frame
<1> QED
    BY <1>1, MeshFacts

\* At its start a call has done nothing yet.
LEMMA CallEnter ==
    ASSUME TypeInv, NEW m \in Meshes, NEW p \in Sponsors, ExecuteMesh(m, p)
    PROVE  CallInv'
<1> PICK validUntil \in 0..(MaxTime + Validity), gasPrice \in GasPrices,
         value \in Deposits \cup {0} :
             EnterMesh(m, p, validUntil, gasPrice, value)
    BY DEF ExecuteMesh
<1>1. /\ frame' # NoFrame /\ frame' \in Frame /\ frame'.saved = Committed
      /\ frame = NoFrame /\ frame'.mesh = m
    BY EnterFrame
<1>2. /\ frame'.announcedUpTo = 0 /\ frame'.commandsDone = 0
      /\ frame'.status = "inner" /\ UNCHANGED inner
    BY DEF EnterMesh
<1>3. Emitted' = {} /\ Done' = {}
    BY <1>2 DEF Emitted, Done
<1>4. CallProgress'
    BY <1>1, <1>2, MeshFacts DEF CallProgress
<1>5. CallEffects'
    BY <1>1, <1>2, <1>3 DEF CallEffects, Committed, inner, TypeInv, TypeOK
<1>6. DoneProperly'
    BY <1>2 DEF DoneProperly
<1> QED
    BY <1>4, <1>5, <1>6 DEF CallInv

\* An announcement adds one unspent address to what the call has emitted.
LEMMA CallAnnounce ==
    ASSUME TypeInv, CallInv, Announce
    PROVE  CallInv'
<1> DEFINE stealth == frame.mesh.announcements[frame.announcedUpTo + 1]
<1>1. /\ frame \in Frame /\ frame # NoFrame /\ SameCall(frame, frame')
      /\ CallProgress /\ CallEffects /\ DoneProperly
    BY InnerSteps DEF CallInv
<1>2. /\ frame' = [frame EXCEPT !.announcedUpTo = frame.announcedUpTo + 1]
      /\ frame.status = "inner"
      /\ frame.announcedUpTo < Len(frame.mesh.announcements)
      /\ stealth \notin isShardSpent
      /\ announced' = announced \cup {stealth}
      /\ UNCHANGED <<isShardSpent, seen, balance>>
    BY DEF Announce, Announceable, InInner
<1>3. /\ frame'.announcedUpTo = frame.announcedUpTo + 1
      /\ frame'.commandsDone = frame.commandsDone
      /\ frame'.status = "inner"
      /\ frame'.mesh = frame.mesh /\ frame'.saved = frame.saved
    BY <1>1, <1>2 DEF Frame
<1>4. Emitted' = Emitted \cup {stealth} /\ Done' = Done
    <2>1. Emitted' = {frame.mesh.announcements[j] : j \in 1..(frame.announcedUpTo + 1)}
        BY <1>3, Zenon DEF Emitted
    <2>2. Emitted' = Emitted \cup {stealth}
        BY <1>1, <2>1, FrameLengths, ImageGrows, Zenon DEF Emitted
    <2>3. Done' = Done
        BY <1>3, Zenon DEF Done
    <2> QED
        BY <2>2, <2>3
<1>5. CallProgress'
    <2> HIDE DEF stealth
    <2>1. frame.announcedUpTo + 1 <= Len(frame.mesh.announcements)
        BY <1>1, <1>2, FrameLengths, StepBelow
    <2>2. frame'.status # "success"
        BY <1>3
    <2> QED
        BY <1>1, <1>3, <2>1, <2>2 DEF CallProgress
<1>6. CallEffects'
    <2>1. stealth \notin frame.saved.isShardSpent
        BY <1>1, <1>2 DEF CallEffects
    <2> HIDE DEF stealth
    <2> QED
        BY <1>1, <1>2, <1>3, <1>4, <2>1 DEF CallEffects
<1>7. DoneProperly'
    BY <1>1, <1>3 DEF DoneProperly, SignatureValid
<1> QED
    BY <1>5, <1>6, <1>7 DEF CallInv

\* A command adds its shard to what the call has spent, signed by that shard.
LEMMA CallCommand ==
    ASSUME TypeInv, CallInv, ExecuteCommand
    PROVE  CallInv'
<1> DEFINE c == frame.mesh.commands[frame.commandsDone + 1]
<1>1. /\ frame \in Frame /\ frame # NoFrame /\ SameCall(frame, frame')
      /\ CallProgress /\ CallEffects /\ DoneProperly
    BY InnerSteps DEF CallInv
<1>2. /\ frame' = [frame EXCEPT !.commandsDone = frame.commandsDone + 1]
      /\ frame.status = "inner"
      /\ frame.commandsDone < Len(frame.mesh.commands)
      /\ c.shard \in seen \/ c.shard \notin isShardSpent
      /\ SignatureValid(c, frame.mesh)
      /\ balance[c.asset][c.shard] >= c.value
      /\ isShardSpent' = isShardSpent \cup {c.shard}
      /\ seen' = seen \cup {c.shard}
      /\ balance' = Transfer(c)
      /\ UNCHANGED announced
    BY DEF ExecuteCommand, Spendable, InInner, Transferable
<1>3. /\ frame'.commandsDone = frame.commandsDone + 1
      /\ frame'.announcedUpTo = frame.announcedUpTo
      /\ frame'.status = "inner"
      /\ frame'.mesh = frame.mesh /\ frame'.saved = frame.saved
      /\ frame.commandsDone \in Nat
    BY <1>1, <1>2 DEF Frame
<1>4. Done' = Done \cup {c.shard} /\ Emitted' = Emitted
    <2>1. Done' = {frame.mesh.commands[i].shard : i \in 1..(frame.commandsDone + 1)}
        BY <1>3, Zenon DEF Done
    <2>2. Done' = Done \cup {c.shard}
        BY <1>3, <2>1, ShardsGrow, Zenon DEF Done
    <2>3. Emitted' = Emitted
        BY <1>3, Zenon DEF Emitted
    <2> QED
        BY <2>2, <2>3
<1>5. CallProgress'
    <2> HIDE DEF c
    <2>1. frame.commandsDone + 1 <= Len(frame.mesh.commands)
        BY <1>1, <1>2, FrameLengths, StepBelow
    <2>2. frame'.status # "success"
        BY <1>3
    <2> QED
        BY <1>1, <1>3, <2>1, <2>2 DEF CallProgress
<1>6. c \in Command
    <2>1. frame.mesh \in Meshes
        BY <1>1 DEF Frame
    <2>2. frame.mesh.commands \in Seq(Command)
        BY <2>1, MeshFacts
    <2>3. frame.commandsDone + 1 \in 1..Len(frame.mesh.commands)
        <3>1. /\ frame.commandsDone < Len(frame.mesh.commands)
              /\ frame.commandsDone \in Nat /\ Len(frame.mesh.commands) \in Nat
            BY <1>1, <1>2, FrameLengths
        <3> QED BY <3>1
    <2> QED
        BY <2>2, <2>3, ElementOfSeq, Zenon
<1>7. c.shard \in frame.saved.isShardSpent => c.shard \in frame.saved.seen
    <2>1. CASE c.shard \in Done
        <3>1. PICK i \in 1..frame.commandsDone : frame.mesh.commands[i].shard = c.shard
            BY <2>1 DEF Done
        <3> QED
            BY <1>1, <3>1 DEF DoneProperly
    <2>2. CASE c.shard \notin Done
        BY <1>1, <1>2, <2>2 DEF CallEffects
    <2> QED BY <2>1, <2>2
<1> HIDE DEF c
<1>8. \A a \in Assets, x \in Accounts :
          balance'[a][x] < balance[a][x] => x = c.shard
    BY <1>2, <1>6, TransferLowers DEF TypeInv, TypeOK
<1>9. CallEffects'
    <2>1. \A a \in Assets, x \in Accounts :
              balance'[a][x] < frame.saved.balance[a][x] => x \in Done \cup {c.shard}
        <3> SUFFICES ASSUME NEW a \in Assets, NEW x \in Accounts, x # c.shard,
                            balance'[a][x] < frame.saved.balance[a][x]
                     PROVE  x \in Done
            OBVIOUS
        <3>1. /\ balance'[a][x] \in Nat /\ balance[a][x] \in Nat
              /\ frame.saved.balance[a][x] \in Nat
            BY <1>1, <1>2, <1>6, TransferType DEF TypeInv, TypeOK, Frame, InnerState
        <3>2. balance[a][x] < frame.saved.balance[a][x]
            BY <1>8, <3>1
        <3> QED
            BY <1>1, <1>2, <3>2 DEF CallEffects
    <2> QED
        BY <1>1, <1>2, <1>3, <1>4, <2>1 DEF CallEffects
<1>10. DoneProperly'
    <2> SUFFICES ASSUME NEW i \in 1..(frame.commandsDone + 1)
                 PROVE  LET d == frame.mesh.commands[i]
                        IN  /\ SignatureValid(d, frame.mesh)
                            /\ d.shard \in frame.saved.isShardSpent
                                  => d.shard \in frame.saved.seen
        BY <1>3 DEF DoneProperly, SignatureValid
    <2>1. CASE i = frame.commandsDone + 1
        BY <1>2, <1>7, <2>1 DEF c
    <2>2. CASE i \in 1..frame.commandsDone
        BY <1>1, <2>2 DEF DoneProperly
    <2> QED BY <1>3, <2>1, <2>2
<1> QED
    BY <1>5, <1>9, <1>10 DEF CallInv

\* What a running call has done is what its progress counters say.
LEMMA CallStep == TypeInv /\ CallInv /\ [Next]_vars => CallInv'
<1> SUFFICES ASSUME TypeInv, CallInv, [Next]_vars PROVE CallInv'
    OBVIOUS
<1>1. CASE InnerReturns
    <2>1. /\ frame \in Frame /\ frame # NoFrame /\ SameCall(frame, frame')
          /\ CallProgress /\ CallEffects /\ DoneProperly
        BY <1>1, InnerSteps DEF CallInv
    <2>2. /\ frame' = [frame EXCEPT !.status = "success"] /\ frame.status = "inner"
          /\ frame.announcedUpTo = Len(frame.mesh.announcements)
          /\ frame.commandsDone = Len(frame.mesh.commands)
          /\ UNCHANGED inner
        BY <1>1 DEF InnerReturns, InInner
    <2>3. /\ frame'.status = "success" /\ frame'.mesh = frame.mesh
          /\ frame'.saved = frame.saved
          /\ frame'.announcedUpTo = frame.announcedUpTo
          /\ frame'.commandsDone = frame.commandsDone
        BY <2>1, <2>2 DEF Frame
    <2>4. Done' = Done /\ Emitted' = Emitted
        BY <2>3 DEF Done, Emitted
    <2> QED
        BY <2>1, <2>2, <2>3, <2>4
           DEF CallInv, CallProgress, CallEffects, DoneProperly, SignatureValid, inner
<1>2. CASE InnerReverts
    <2>1. /\ frame \in Frame /\ frame # NoFrame /\ SameCall(frame, frame')
          /\ CallProgress /\ CallEffects /\ DoneProperly
        BY <1>2, InnerSteps DEF CallInv
    <2>2. /\ frame' = [frame EXCEPT !.status = "failed"]
          /\ isShardSpent' = frame.saved.isShardSpent
          /\ announced' = frame.saved.announced
          /\ balance' = frame.saved.balance
        BY <1>2 DEF InnerReverts
    <2>3. /\ frame'.status = "failed" /\ frame'.mesh = frame.mesh
          /\ frame'.saved = frame.saved
          /\ frame'.announcedUpTo = frame.announcedUpTo
          /\ frame'.commandsDone = frame.commandsDone
        BY <2>1, <2>2 DEF Frame
    <2> QED
        BY <2>1, <2>2, <2>3
           DEF CallInv, CallProgress, CallEffects, DoneProperly, SignatureValid
<1>3. ASSUME frame' = NoFrame
      PROVE  CallInv'
    BY <1>3 DEF CallInv
<1>4. ASSUME UNCHANGED <<isShardSpent, announced, balance, frame>>, seen' \in {seen, {}}
      PROVE  CallInv'
    BY <1>4 DEF CallInv, CallProgress, CallEffects, DoneProperly, SignatureValid,
                Done, Emitted
<1> QED
    BY CallEnter, CallAnnounce, CallCommand, <1>1, <1>2, <1>3, <1>4
       DEF Next, depositGas, withdrawGas, SignQuote, Tick, BeginTransaction,
           EndTransaction, NonReentrant, Reconcile, BundlerPaymentFails, vars, inner

\* The step that makes a call's effects visible is Reconcile after a success;
\* every other step leaves the committed flags, balances and announcements.
LEMMA CommittedStep ==
    ASSUME TypeInv, CallInv, [Next]_vars,
           ~(\E used \in GasUsed : Reconcile(used) /\ frame.status = "success")
    PROVE  /\ Committed'.isShardSpent = Committed.isShardSpent
           /\ Committed'.announced = Committed.announced
           /\ Committed'.balance = Committed.balance
<1>1. ASSUME NEW m \in Meshes, NEW p \in Sponsors, ExecuteMesh(m, p)
      PROVE  Committed' = Committed
    BY <1>1, EnterFrame DEF ExecuteMesh, Committed
<1>2. CASE Announce \/ ExecuteCommand \/ InnerReturns \/ InnerReverts
    BY <1>2, InnerSteps DEF Committed, SameCall
<1>3. ASSUME NEW used \in GasUsed, Reconcile(used)
      PROVE  /\ Committed'.isShardSpent = Committed.isShardSpent
             /\ Committed'.announced = Committed.announced
             /\ Committed'.balance = Committed.balance
    BY <1>3 DEF Reconcile, InnerEnded, CallInv, CallEffects, Committed, inner
<1>4. CASE BundlerPaymentFails
    BY <1>4 DEF BundlerPaymentFails, InnerEnded, Committed
<1>5. ASSUME UNCHANGED <<isShardSpent, announced, balance, frame>>
      PROVE  /\ Committed'.isShardSpent = Committed.isShardSpent
             /\ Committed'.announced = Committed.announced
             /\ Committed'.balance = Committed.balance
    BY <1>5 DEF Committed
<1> QED
    BY <1>1, <1>2, <1>3, <1>4, <1>5
       DEF Next, depositGas, withdrawGas, SignQuote, Tick, BeginTransaction,
           EndTransaction, vars, inner

\* What that one step makes visible.
LEMMA CommitStep ==
    ASSUME TypeInv, CallInv, NEW used, Reconcile(used), frame.status = "success"
    PROVE  /\ frame \in Frame /\ CallProgress /\ CallEffects /\ DoneProperly
           /\ Committed = frame.saved
           /\ Committed' = [isShardSpent |-> isShardSpent, seen |-> seen,
                            balance |-> balance, announced |-> announced]
           /\ executed' = executed \cup {frame.mesh}
           /\ Done = Inputs(frame.mesh) /\ Emitted = Outputs(frame.mesh)
<1>1. frame # NoFrame /\ frame \in Frame
    BY DEF Reconcile, InnerEnded, TypeInv, TypeOK
<1>2. CallProgress /\ CallEffects /\ DoneProperly
    BY <1>1 DEF CallInv
<1>3. /\ frame.mesh.commands \in Seq(Command)
      /\ frame.mesh.announcements \in Seq(Accounts)
    BY <1>1, MeshFacts DEF Frame
<1>4. /\ DOMAIN frame.mesh.commands = 1..frame.commandsDone
      /\ DOMAIN frame.mesh.announcements = 1..frame.announcedUpTo
    BY <1>2, <1>3 DEF CallProgress
<1>5. Done = Inputs(frame.mesh) /\ Emitted = Outputs(frame.mesh)
    BY <1>4 DEF Done, Emitted, Inputs, Outputs
<1> QED
    BY <1>1, <1>2, <1>5 DEF Reconcile, Committed, inner

\* One more executed bundle adds its inputs and its outputs.
LEMMA UnionOneMore ==
    ASSUME NEW S, NEW new
    PROVE  /\ UNION {Inputs(m) : m \in S \cup {new}}
                = (UNION {Inputs(m) : m \in S}) \cup Inputs(new)
           /\ UNION {Outputs(m) : m \in S \cup {new}}
                = (UNION {Outputs(m) : m \in S}) \cup Outputs(new)
<1> DEFINE ins(T) == {Inputs(m) : m \in T}
           outs(T) == {Outputs(m) : m \in T}
<1>2. /\ ins(S \cup {new}) = ins(S) \cup {Inputs(new)}
      /\ outs(S \cup {new}) = outs(S) \cup {Outputs(new)}
    OBVIOUS
<1> HIDE DEF ins, outs
<1>3. UNION (ins(S) \cup {Inputs(new)}) = (UNION ins(S)) \cup Inputs(new)
    OBVIOUS
<1>4. UNION (outs(S) \cup {Outputs(new)}) = (UNION outs(S)) \cup Outputs(new)
    OBVIOUS
<1>5. /\ UNION ins(S \cup {new}) = (UNION ins(S)) \cup Inputs(new)
      /\ UNION outs(S \cup {new}) = (UNION outs(S)) \cup Outputs(new)
    BY <1>2, <1>3, <1>4
<1> QED
    BY <1>5 DEF ins, outs

\* A step publishes the effects of a whole bundle or none.
LEMMA AtomicStep ==
    TypeInv /\ CallInv /\ MeshIsAtomic /\ [Next]_vars => MeshIsAtomic'
<1> SUFFICES ASSUME TypeInv, CallInv, MeshIsAtomic, [Next]_vars PROVE MeshIsAtomic'
    OBVIOUS
<1>1. ASSUME NEW used \in GasUsed, Reconcile(used), frame.status = "success"
      PROVE  MeshIsAtomic'
    <2>1. /\ Committed' = [isShardSpent |-> isShardSpent, seen |-> seen,
                           balance |-> balance, announced |-> announced]
          /\ executed' = executed \cup {frame.mesh}
          /\ isShardSpent = Committed.isShardSpent \cup Inputs(frame.mesh)
          /\ announced = Committed.announced \cup Outputs(frame.mesh)
        BY <1>1, CommitStep DEF CallEffects
    <2>2. /\ UNION {Inputs(m) : m \in executed'}
               = (UNION {Inputs(m) : m \in executed}) \cup Inputs(frame.mesh)
          /\ UNION {Outputs(m) : m \in executed'}
               = (UNION {Outputs(m) : m \in executed}) \cup Outputs(frame.mesh)
        BY <2>1, UnionOneMore
    <2> QED
        BY <2>1, <2>2 DEF MeshIsAtomic
<1>2. CASE ~(\E used \in GasUsed : Reconcile(used) /\ frame.status = "success")
    <2>1. executed' = executed
        <3>1. CASE \E used \in GasUsed : Reconcile(used)
            BY <1>2, <3>1 DEF Reconcile
        <3>2. CASE \/ \E p \in Paymasters, v \in Deposits : depositGas(p, v)
                   \/ \E p \in Paymasters, amount \in 1..MaxDeposited :
                         withdrawGas(p, amount)
                   \/ \E p \in Paymasters, m \in Meshes : SignQuote(p, m)
                   \/ Tick
            BY <3>2 DEF depositGas, withdrawGas, SignQuote, Tick
        <3>3. CASE \/ \E m \in Meshes : \E auths \in SUBSET Inputs(m) :
                         BeginTransaction(m, auths)
                   \/ EndTransaction
                   \/ \E m \in Meshes, p \in Sponsors : ExecuteMesh(m, p)
            BY <3>3 DEF BeginTransaction, EndTransaction, ExecuteMesh, EnterMesh
        <3>4. CASE Announce \/ ExecuteCommand \/ InnerReturns \/ InnerReverts
                   \/ BundlerPaymentFails
            BY <3>4 DEF Announce, ExecuteCommand, InnerReturns, InnerReverts,
               BundlerPaymentFails
        <3>5. CASE UNCHANGED vars
            BY <3>5 DEF vars
        <3> QED
            BY <3>1, <3>2, <3>3, <3>4, <3>5 DEF Next
    <2> QED
        BY <1>2, <2>1, CommittedStep DEF MeshIsAtomic
<1> QED
    BY <1>1, <1>2

\* The spent flags and announcements on the chain are those of whole bundles.
THEOREM MeshesAreAtomic == Spec => []MeshIsAtomic
<1>1. Init => CallInv /\ MeshIsAtomic
    BY DEF Init, CallInv, MeshIsAtomic, Committed
<1> QED
    BY <1>1, TypeInit, TypeStep, CallStep, AtomicStep, PTL DEF Spec

\* Assets leave an account once, under its own signature, in the transaction
\* that marks it spent.
THEOREM ValueLeavesAccountsOnce == Spec => ValueLeavesOnce
<1>1. Init => CallInv
    BY DEF Init, CallInv
<1>2. TypeInv /\ CallInv /\ [Next]_vars => [OnceStep]_vars
    <2> SUFFICES ASSUME TypeInv, CallInv, [Next]_vars,
                        NEW a \in Assets, NEW x \in Accounts,
                        Committed'.balance[a][x] < Committed.balance[a][x]
                 PROVE  /\ x \in Committed'.isShardSpent
                        /\ x \in Committed.isShardSpent => x \in Committed.seen
                        /\ \E m \in executed' : \E i \in DOMAIN m.commands :
                              m.commands[i].shard = x /\ SignatureValid(m.commands[i], m)
        BY DEF OnceStep
    <2>1. Committed.balance \in [Assets -> [Accounts -> Nat]]
        BY DEF Committed, TypeInv, TypeOK, Frame, InnerState
    <2>2. PICK used \in GasUsed : Reconcile(used) /\ frame.status = "success"
        BY <2>1, CommittedStep
    <2>3. /\ frame \in Frame /\ CallProgress /\ CallEffects /\ DoneProperly
          /\ Committed = frame.saved
          /\ Committed'.balance = balance /\ Committed'.isShardSpent = isShardSpent
          /\ executed' = executed \cup {frame.mesh}
        BY <2>2, CommitStep
    <2>4. x \in Done /\ isShardSpent = frame.saved.isShardSpent \cup Done
        BY <2>2, <2>3 DEF CallEffects
    <2>5. PICK i \in 1..frame.commandsDone : frame.mesh.commands[i].shard = x
        BY <2>4 DEF Done
    <2>6. i \in DOMAIN frame.mesh.commands
        BY <2>2, <2>3, MeshFacts DEF CallProgress, Frame
    <2>7. /\ SignatureValid(frame.mesh.commands[i], frame.mesh)
          /\ x \in frame.saved.isShardSpent => x \in frame.saved.seen
        BY <2>3, <2>5 DEF DoneProperly
    <2> QED
        BY <2>3, <2>4, <2>5, <2>6, <2>7
<1> QED
    BY <1>1, <1>2, TypeInit, TypeStep, CallStep, PTL DEF Spec, ValueLeavesOnce

\* A call never announces an account that was spent before the call.
THEOREM AnnouncesUnspent == Spec => NeverAnnouncesSpent
<1>1. Init => CallInv
    BY DEF Init, CallInv
<1>2. TypeInv /\ CallInv /\ [Next]_vars => [AnnounceStep]_vars
    <2> SUFFICES ASSUME TypeInv, CallInv, [Next]_vars PROVE AnnounceStep
        OBVIOUS
    <2>1. ASSUME NEW used \in GasUsed, Reconcile(used), frame.status = "success"
          PROVE  AnnounceStep
        BY <2>1, CommitStep DEF CallEffects, AnnounceStep
    <2>2. CASE ~(\E used \in GasUsed : Reconcile(used) /\ frame.status = "success")
        BY <2>2, CommittedStep DEF AnnounceStep
    <2> QED
        BY <2>1, <2>2
<1> QED
    BY <1>1, <1>2, TypeInit, TypeStep, CallStep, PTL DEF Spec, NeverAnnouncesSpent

-----------------------------------------------------------------------------
(* Supply.  A revert brings back the balances of the running call's start, *)
(* so those have to add up as well.                                        *)

Conserved(b) == \A a \in Assets : SumFunction(b[a]) = SumFunction(InitialBalance[a])

SupplyInv == Conserved(balance) /\ (frame # NoFrame => Conserved(frame.saved.balance))

\* What the sender loses the recipient gets, also when they are the same.
LEMMA TransferConserves ==
    ASSUME balance \in [Assets -> [Accounts -> Nat]], NEW c \in Command,
           balance[c.asset][c.shard] >= c.value, NEW a \in Assets
    PROVE  SumFunction(Transfer(c)[a]) = SumFunction(balance[a])
<1>1. /\ c.asset \in Assets /\ c.shard \in Accounts
      /\ c.to \in Accounts /\ c.value \in Nat
    BY DEF Command
<1>2. CASE a # c.asset
    BY <1>1, <1>2 DEF Transfer
<1>3. CASE a = c.asset
    <2> DEFINE before  == balance[a]
               debited == [before EXCEPT ![c.shard] = @ - c.value]
               after   == [debited EXCEPT ![c.to] = @ + c.value]
    <2>1. before \in [Accounts -> Nat]
        BY <1>1
    <2>2. debited \in [Accounts -> Nat]
        BY <1>1, <1>3, <2>1
    <2>3. after \in [Accounts -> Nat]
        <3> HIDE DEF debited
        <3> QED BY <1>1, <2>2
    <2>4. SumFunctionOnSet(debited, Accounts)
              = SumFunctionOnSet(before, Accounts) - before[c.shard] + debited[c.shard]
        <3>1. \A y \in Accounts \ {c.shard} : before[y] = debited[y]
            BY <1>1, <2>1
        <3>2. \A y \in Accounts : before[y] \in Int /\ debited[y] \in Int
            BY <2>1, <2>2
        <3> HIDE DEF before, debited
        <3> QED BY <1>1, <3>1, <3>2, SumChange, FiniteAssumption DEF FiniteAssumption
    <2>5. SumFunctionOnSet(after, Accounts)
              = SumFunctionOnSet(debited, Accounts) - debited[c.to] + after[c.to]
        <3> HIDE DEF debited
        <3>1. \A y \in Accounts \ {c.to} : debited[y] = after[y]
            BY <1>1, <2>2
        <3>2. \A y \in Accounts : debited[y] \in Int /\ after[y] \in Int
            BY <2>2, <2>3
        <3> HIDE DEF after
        <3> QED BY <1>1, <3>1, <3>2, SumChange, FiniteAssumption DEF FiniteAssumption
    <2>6. debited[c.shard] = before[c.shard] - c.value /\ before[c.shard] \in Int
        BY <1>1, <2>1
    <2>7. after[c.to] = debited[c.to] + c.value /\ debited[c.to] \in Int
        <3> HIDE DEF debited
        <3> QED BY <1>1, <2>2
    <2>8. SumFunctionOnSet(before, Accounts) \in Int
        <3> HIDE DEF before
        <3> QED BY <2>1, SumType, FiniteAssumption DEF FiniteAssumption
    <2>9. SumFunctionOnSet(after, Accounts) = SumFunctionOnSet(before, Accounts)
        <3> HIDE DEF before, debited, after
        <3> QED BY <1>1, <2>4, <2>5, <2>6, <2>7, <2>8
    <2>10. Transfer(c)[a] = after
        BY <1>1, <1>3 DEF Transfer
    <2> HIDE DEF before, debited, after
    <2>11. DOMAIN before = Accounts /\ DOMAIN after = Accounts
        BY <2>1, <2>3
    <2> QED
        BY <2>9, <2>10, <2>11 DEF SumFunction, before
<1> QED
    BY <1>2, <1>3

\* Only a command changes balances, a revert apart.
LEMMA SupplyStep == TypeInv /\ SupplyInv /\ [Next]_vars => SupplyInv'
<1> SUFFICES ASSUME TypeInv, SupplyInv, [Next]_vars PROVE SupplyInv'
    OBVIOUS
<1>1. ASSUME NEW m \in Meshes, NEW p \in Sponsors, ExecuteMesh(m, p)
      PROVE  SupplyInv'
    <2>1. frame = NoFrame /\ frame' # NoFrame /\ frame'.saved = Committed /\ balance' = balance
        BY <1>1, EnterFrame DEF ExecuteMesh, EnterMesh, inner
    <2> QED
        BY <2>1 DEF SupplyInv, Conserved, Committed
<1>2. CASE ExecuteCommand
    <2> DEFINE c == frame.mesh.commands[frame.commandsDone + 1]
    <2>1. frame \in Frame /\ frame.saved = frame'.saved /\ frame # NoFrame
        BY <1>2, InnerSteps DEF SameCall
    <2>2. c \in Command
        <3>1. frame.commandsDone < Len(frame.mesh.commands)
            BY <1>2 DEF ExecuteCommand
        <3>2. frame.mesh.commands \in Seq(Command) /\ frame.commandsDone \in Nat
            BY <2>1, MeshFacts DEF Frame
        <3> QED
            BY <3>1, <3>2
    <2>3. balance' = Transfer(c) /\ balance[c.asset][c.shard] >= c.value
        BY <1>2 DEF ExecuteCommand, Transferable
    <2> HIDE DEF c
    <2>4. balance \in [Assets -> [Accounts -> Nat]]
        BY DEF TypeInv, TypeOK
    <2> QED
        BY <2>1, <2>2, <2>3, <2>4, TransferConserves DEF SupplyInv, Conserved
<1>3. CASE Announce \/ InnerReturns
    <2>1. frame.saved = frame'.saved /\ frame # NoFrame /\ balance' = balance
        BY <1>3, InnerSteps DEF SameCall, Announce, InnerReturns, inner
    <2> QED
        BY <2>1 DEF SupplyInv, Conserved
<1>4. CASE InnerReverts
    <2>1. frame.saved = frame'.saved /\ frame # NoFrame /\ balance' = frame.saved.balance
        BY <1>4, InnerSteps DEF SameCall, InnerReverts
    <2> QED
        BY <2>1 DEF SupplyInv, Conserved
<1>5. ASSUME NEW used \in GasUsed, Reconcile(used)
      PROVE  SupplyInv'
    BY <1>5 DEF Reconcile, SupplyInv, Conserved, inner
<1>6. CASE BundlerPaymentFails
    BY <1>6 DEF BundlerPaymentFails, InnerEnded, SupplyInv, Conserved
<1>7. CASE UNCHANGED <<balance, frame>>
    BY <1>7 DEF SupplyInv, Conserved
<1> QED
    BY <1>1, <1>2, <1>3, <1>4, <1>5, <1>6, <1>7
       DEF Next, depositGas, withdrawGas, SignQuote, Tick, BeginTransaction, EndTransaction,
           vars, inner

\* Whatever bundles do, are refused or roll back, of each asset there is as much
\* as there was.
THEOREM SupplyIsConserved == Spec => []SupplyConserved
<1>1. Init => SupplyInv
    BY DEF Init, SupplyInv, Conserved
<1>2. SupplyInv => SupplyConserved
    BY DEF SupplyInv, Conserved, SupplyConserved
<1> QED
    BY <1>1, <1>2, TypeInit, TypeStep, SupplyStep, PTL DEF Spec

-----------------------------------------------------------------------------
(* Solvency.  While a call runs, the router also holds the ether that came *)
(* with it, which a refused fee payment gives back.                        *)

Owed == [p \in Paymasters |-> paymasterDeposits[p] + Held(p)]

Message == IF frame = NoFrame THEN 0 ELSE frame.value

SolventInv == routerEther >= SumFunctionOnSet(Owed, Paymasters) + Message

\* What the router owes is a natural number.
LEMMA OwedType ==
    ASSUME TypeInv
    PROVE  /\ Owed \in [Paymasters -> Nat] /\ Message \in Nat /\ routerEther \in Nat
           /\ SumFunctionOnSet(Owed, Paymasters) \in Nat
<1>1. Owed \in [Paymasters -> Nat] /\ Message \in Nat /\ routerEther \in Nat
    BY DEF TypeInv, TypeOK, Owed, Held, Message, Frame
<1> QED
    BY <1>1, SumType, FiniteAssumption DEF FiniteAssumption

\* A step that changes what is owed to one paymaster, or to none.
LEMMA OwedChange ==
    ASSUME TypeInv, TypeInv', NEW p \in Sponsors, NEW d \in Int,
           \A q \in Paymasters : Owed'[q] = Owed[q] + (IF q = p THEN d ELSE 0)
    PROVE  SumFunctionOnSet(Owed, Paymasters)'
               = SumFunctionOnSet(Owed, Paymasters) + (IF p \in Paymasters THEN d ELSE 0)
<1>1. Owed \in [Paymasters -> Nat] /\ Owed' \in [Paymasters -> Nat]
    <2>1. Owed \in [Paymasters -> Nat]
        BY OwedType
    <2>2. Owed' \in [Paymasters -> Nat]
        BY DEF TypeInv, TypeOK, Owed, Held, Frame
    <2> QED BY <2>1, <2>2
<1>2. SumFunctionOnSet(Owed, Paymasters) \in Int
    BY OwedType
<1>3. SumFunctionOnSet(Owed, Paymasters)' = SumFunctionOnSet(Owed', Paymasters)
    OBVIOUS
<1> DEFINE before == Owed
           after == Owed'
<1> HIDE DEF before, after
<1>4. CASE p \in Paymasters
    <2>1. /\ \A q \in Paymasters \ {p} : before[q] = after[q]
          /\ after[p] = before[p] + d
          /\ \A q \in Paymasters : before[q] \in Int /\ after[q] \in Int
        BY <1>1, <1>4 DEF before, after
    <2>2. SumFunctionOnSet(after, Paymasters)
              = SumFunctionOnSet(before, Paymasters) - before[p] + after[p]
        BY <1>4, <2>1, SumChange, FiniteAssumption DEF FiniteAssumption
    <2> QED BY <1>2, <1>3, <1>4, <2>1, <2>2 DEF before, after
<1>5. CASE p \notin Paymasters
    <2>1. \A q \in Paymasters : before[q] = after[q] /\ before[q] \in Int /\ after[q] \in Int
        BY <1>1, <1>5 DEF before, after
    <2>2. SumFunctionOnSet(after, Paymasters) = SumFunctionOnSet(before, Paymasters)
        BY <2>1, SumCompare, FiniteAssumption DEF FiniteAssumption
    <2> QED BY <1>2, <1>3, <1>5, <2>2 DEF before, after
<1> QED
    BY <1>4, <1>5

\* Ether comes and goes with the credit it stands for.
LEMMA SolventStep == TypeInv /\ SolventInv /\ [Next]_vars => SolventInv'
<1> SUFFICES ASSUME TypeInv, SolventInv, [Next]_vars PROVE SolventInv'
    OBVIOUS
<1> DEFINE Sum == SumFunctionOnSet(Owed, Paymasters)
<1>0. /\ TypeInv' /\ Owed \in [Paymasters -> Nat]
      /\ Message \in Nat /\ routerEther \in Nat /\ Sum \in Nat
      /\ paymasterDeposits \in [Paymasters -> Nat]
      /\ routerEther >= Sum + Message
    BY TypeStep, OwedType DEF TypeInv, TypeOK, SolventInv
<1>1. ASSUME NEW p \in Paymasters, NEW v \in Deposits, depositGas(p, v)
      PROVE  SolventInv'
    <2>1. \A q \in Paymasters : Owed'[q] = Owed[q] + (IF q = p THEN v ELSE 0)
        BY <1>0, <1>1, ConstantTypes DEF depositGas, NonReentrant, Owed, Held
    <2>2. Sum' = Sum + v /\ v \in Nat
        BY <1>0, <2>1, OwedChange, ConstantTypes DEF Sponsors
    <2> QED
        BY <1>0, <1>1, <2>2 DEF depositGas, Message, SolventInv
<1>2. ASSUME NEW p \in Paymasters, NEW amount \in 1..MaxDeposited, withdrawGas(p, amount)
      PROVE  SolventInv'
    <2>1. \A q \in Paymasters : Owed'[q] = Owed[q] + (IF q = p THEN -amount ELSE 0)
        BY <1>0, <1>2 DEF withdrawGas, NonReentrant, Owed, Held
    <2>2. amount \in Nat /\ -amount \in Int /\ p \in Sponsors
        BY DEF Sponsors
    <2>3. Sum' = Sum + (IF p \in Paymasters THEN -amount ELSE 0)
        BY <1>0, <2>1, <2>2, OwedChange
    <2> QED
        BY <1>0, <1>2, <2>2, <2>3 DEF withdrawGas, Message, SolventInv
<1>3. ASSUME NEW m \in Meshes, NEW p \in Sponsors, ExecuteMesh(m, p)
      PROVE  SolventInv'
    <2> PICK validUntil \in 0..(MaxTime + Validity), gasPrice \in GasPrices,
             value \in Deposits \cup {0} :
                 EnterMesh(m, p, validUntil, gasPrice, value)
        BY <1>3 DEF ExecuteMesh
    <2> DEFINE prefund == MaxGas(m) * gasPrice
    <2>1. /\ frame = NoFrame /\ frame' # NoFrame /\ prefund \in Nat
          /\ frame'.paymaster = p /\ frame'.requiredPrefund = prefund
          /\ frame'.value = value /\ value \in Nat
        BY EnterFrame
    <2>2. paymasterDeposits' = Debit(p, prefund) /\ routerEther' = routerEther + value
        BY DEF EnterMesh
    <2> HIDE DEF prefund
    <2>3. \A q \in Paymasters : Owed'[q] = Owed[q] + (IF q = p THEN 0 ELSE 0)
        BY <1>0, <2>1, <2>2 DEF Owed, Held, Debit
    <2>4. Sum' = Sum
        BY <1>0, <2>3, OwedChange
    <2> QED
        BY <1>0, <2>1, <2>2, <2>4 DEF Message, SolventInv
<1>4. ASSUME NEW used \in GasUsed, Reconcile(used)
      PROVE  SolventInv'
    <2> DEFINE cost == TotalGasCost(used)
    <2>1. frame \in Frame /\ frame # NoFrame
        BY <1>4 DEF Reconcile, InnerEnded, TypeInv, TypeOK
    <2>2. cost \in Nat /\ cost <= frame.requiredPrefund /\ frame.requiredPrefund \in Nat
        BY <1>4, <2>1, CostFacts DEF Frame
    <2>3. /\ paymasterDeposits' = Credit(frame.paymaster, frame.requiredPrefund - cost)
          /\ routerEther' = routerEther - (IF frame.paymaster \in Paymasters THEN cost ELSE 0)
          /\ frame' = NoFrame
        BY <1>4 DEF Reconcile, Sponsor
    <2>4. frame.paymaster \in Sponsors /\ frame.value \in Nat
        BY <2>1 DEF Frame
    <2> HIDE DEF cost
    <2>5. \A q \in Paymasters : Owed'[q] = Owed[q] + (IF q = frame.paymaster THEN -cost ELSE 0)
        BY <1>0, <2>1, <2>2, <2>3 DEF Owed, Held, Credit
    <2>6. Sum' = Sum + (IF frame.paymaster \in Paymasters THEN -cost ELSE 0)
        BY <1>0, <2>2, <2>4, <2>5, OwedChange
    <2> QED
        BY <1>0, <2>1, <2>2, <2>3, <2>4, <2>6 DEF Message, SolventInv
<1>5. CASE BundlerPaymentFails
    <2>1. frame \in Frame /\ frame # NoFrame
        BY <1>5 DEF BundlerPaymentFails, InnerEnded, TypeInv, TypeOK
    <2>2. /\ paymasterDeposits' = Credit(frame.paymaster, frame.requiredPrefund)
          /\ routerEther' = routerEther - frame.value
          /\ frame' = NoFrame
        BY <1>5 DEF BundlerPaymentFails
    <2>3. /\ frame.paymaster \in Sponsors /\ frame.value \in Nat
          /\ frame.requiredPrefund \in Nat
        BY <2>1 DEF Frame
    <2>4. \A q \in Paymasters : Owed'[q] = Owed[q] + (IF q = frame.paymaster THEN 0 ELSE 0)
        BY <1>0, <2>1, <2>2, <2>3 DEF Owed, Held, Credit
    <2>5. Sum' = Sum
        BY <1>0, <2>3, <2>4, OwedChange
    <2> QED
        BY <1>0, <2>1, <2>2, <2>3, <2>5 DEF Message, SolventInv
<1>6. CASE Announce \/ ExecuteCommand \/ InnerReturns \/ InnerReverts
    <2>1. UNCHANGED <<paymasterDeposits, routerEther>>
        BY <1>6 DEF Announce, ExecuteCommand, InnerReturns, InnerReverts, gas
    <2>2. frame # NoFrame /\ frame' # NoFrame /\ SameCall(frame, frame')
        BY <1>6, InnerSteps
    <2>3. Owed' = Owed /\ Message' = Message
        BY <2>1, <2>2 DEF Owed, Held, Message, SameCall
    <2> QED
        BY <2>1, <2>3 DEF SolventInv
<1>7. CASE UNCHANGED <<paymasterDeposits, routerEther, frame>>
    BY <1>7 DEF SolventInv, Owed, Held, Message
<1> QED
    BY <1>1, <1>2, <1>3, <1>4, <1>5, <1>6, <1>7
       DEF Next, SignQuote, Tick, BeginTransaction, EndTransaction, vars, gas

\* The router could pay out all its paymasters at once, at any moment of any call.
THEOREM RouterIsSolvent == Spec => []Solvent
<1>1. Init => SolventInv
    <2> SUFFICES ASSUME Init PROVE SolventInv
        OBVIOUS
    <2> DEFINE nothing == [p \in Paymasters |-> 0]
    <2>1. Owed = nothing /\ Message = 0 /\ routerEther = 0
        BY DEF Init, Owed, Held, Message
    <2>2. SumFunctionOnSet(nothing, Paymasters) = 0
        BY SumZero, FiniteAssumption DEF FiniteAssumption
    <2> HIDE DEF nothing
    <2> QED BY <2>1, <2>2 DEF SolventInv
<1>2. TypeInv /\ SolventInv => Solvent
    <2> SUFFICES ASSUME TypeInv, SolventInv PROVE Solvent
        OBVIOUS
    <2>1. SumFunction(Owed) = SumFunctionOnSet(Owed, Paymasters)
        BY OwedType DEF SumFunction
    <2> QED BY <2>1, OwedType DEF SolventInv, Solvent, Owed
<1> QED
    BY <1>1, <1>2, TypeInit, TypeStep, SolventStep, PTL DEF Spec
=============================================================================
