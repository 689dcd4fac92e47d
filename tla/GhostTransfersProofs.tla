------------------------ MODULE GhostTransfersProofs ------------------------
(***************************************************************************)
(* For any number of transfers, requests, shards and tokens: the bundles a *)
(* wallet signs execute, pay exactly what was asked for and announce what  *)
(* they pay, and a sync puts the wallet's store right.                     *)
(***************************************************************************)
EXTENDS GhostTransfers, FoldTheorems

-----------------------------------------------------------------------------
(* The builder: from a selection to the sums of a bundle.                  *)

\* Outputs, requests and entries of the store.
OutputType == [shard : Own, kind : {"payment", "change"},
               type : {"ERC20", "ERC721"}, value : Nat]

OutputOf(wants, shard, kind, amt) ==
    [shard |-> shard, kind |-> kind, type |-> wants.type, value |-> amt]

RequestType == [mode : {"public", "private", "deposit"}, type : {"ERC20", "ERC721"}, value : Nat]

EntryType == [shown : Nat, tokenIds : SUBSET Tokens, pending : BOOLEAN]

\* What both kinds of selection have in common.
GoodSelection(store, wants, selection) ==
    /\ Len(selection) \in Nat /\ DOMAIN selection = 1..Len(selection)
    /\ \A i \in DOMAIN selection :
          /\ selection[i].shard \in DOMAIN store
          /\ selection[i].payment \in Seq(Nat) /\ selection[i].change \in Seq(Nat)
          /\ \A j \in DOMAIN selection[i].payment :
                ~Skipped(wants, "payment", selection[i].payment[j])
          /\ \A j \in DOMAIN selection[i].change :
                ~Skipped(wants, "change", selection[i].change[j])
    /\ \A i, j \in DOMAIN selection : selection[i].shard = selection[j].shard => i = j

\* Of an amount: every shard spends what it shows, and the payments add up.
AddsUp(store, wants, selection) ==
    /\ \A i \in DOMAIN selection :
          /\ SumFunction(selection[i].payment) + SumFunction(selection[i].change)
                = store[selection[i].shard].shown
          /\ store[selection[i].shard].shown > 0
    /\ wants.value = SumFunctionOnSet([i \in DOMAIN selection |-> SumFunction(selection[i].payment)],
                                      DOMAIN selection)

\* Of a token: one shard that shows it.
IsToken(store, wants, selection) ==
    \E a \in DOMAIN store :
        /\ selection = <<[shard |-> a, payment |-> <<wants.value>>, change |-> <<>>]>>
        /\ wants.value \in store[a].tokenIds

\* A row in which nothing is skipped has an output for each of its amounts.
LEMMA PlainRow ==
    ASSUME NEW wants \in RequestType, NEW input, input.shard \in Own,
           NEW kind \in {"payment", "change"}, input[kind] \in Seq(Nat),
           \A j \in DOMAIN input[kind] : ~Skipped(wants, kind, input[kind][j])
    PROVE  /\ RowOf(wants, input, kind)
                  = [j \in DOMAIN input[kind] |-> OutputOf(wants, input.shard, kind, input[kind][j])]
           /\ RowOf(wants, input, kind) \in Seq(OutputType)
<1> DEFINE cut == input[kind]
           row == [j \in DOMAIN cut |-> OutputOf(wants, input.shard, kind, cut[j])]
           ones == [j \in DOMAIN row |-> <<row[j]>>]
<1>1. row \in Seq(OutputType) /\ DOMAIN row = DOMAIN cut
    <2>1. \A j \in DOMAIN cut : row[j] \in OutputType
        BY DEF OutputOf, OutputType, RequestType
    <2>2. DOMAIN cut = 1..Len(cut) /\ Len(cut) \in Nat
        OBVIOUS
    <2> DEFINE n == Len(cut)
    <2>3. row \in [1..n -> OutputType]
        BY <2>1, <2>2
    <2> HIDE DEF row, cut, n
    <2>4. row \in Seq(OutputType)
        BY <2>2, <2>3 DEF n
    <2> QED BY <2>2, <2>3, <2>4 DEF n
<1>2. RowOf(wants, input, kind) = FlattenSeq(ones)
    BY DEF RowOf, OutputOf
<1> HIDE DEF row
<1>3. FlattenSeq(ones) = row
    BY <1>1, FlattenedOnes
<1> QED
    BY <1>1, <1>2, <1>3 DEF row

\* All it weighs, if a weight counts its amounts or ignores them.
LEMMA RowWeighs ==
    ASSUME NEW wants \in RequestType, NEW input, input.shard \in Own,
           NEW kind \in {"payment", "change"}, input[kind] \in Seq(Nat),
           \A j \in DOMAIN input[kind] : ~Skipped(wants, kind, input[kind][j]),
           NEW w \in [OutputType -> Int]
    PROVE  /\ (\A v \in Nat : w[OutputOf(wants, input.shard, kind, v)] = v) =>
                  SumFunction(Weights(w, RowOf(wants, input, kind))) = SumFunction(input[kind])
           /\ (\A v \in Nat : w[OutputOf(wants, input.shard, kind, v)] = 0) =>
                  SumFunction(Weights(w, RowOf(wants, input, kind))) = 0
<1> DEFINE cut == input[kind]
           row == RowOf(wants, input, kind)
<1>1. /\ row = [j \in DOMAIN cut |-> OutputOf(wants, input.shard, kind, cut[j])]
      /\ row \in Seq(OutputType)
    BY PlainRow
<1> HIDE DEF row
<1>2. DOMAIN Weights(w, row) = DOMAIN cut /\ IsFiniteSet(DOMAIN cut)
    BY <1>1, Intervals DEF Weights
<1>3. \A j \in DOMAIN cut : /\ Weights(w, row)[j] = w[OutputOf(wants, input.shard, kind, cut[j])]
                            /\ cut[j] \in Nat
    BY <1>1 DEF Weights
<1>4. ASSUME \A v \in Nat : w[OutputOf(wants, input.shard, kind, v)] = v
      PROVE  SumFunction(Weights(w, row)) = SumFunction(cut)
    <2>1. \A j \in DOMAIN cut : Weights(w, row)[j] = cut[j]
        BY <1>3, <1>4
    <2> HIDE DEF cut
    <2>2. \A j \in DOMAIN cut : Weights(w, row)[j] \in Int /\ cut[j] \in Int
        BY <1>3, <2>1
    <2>3. SumFunctionOnSet(Weights(w, row), DOMAIN cut) = SumFunctionOnSet(cut, DOMAIN cut)
        BY <1>2, <2>1, <2>2, SumCompare
    <2> QED BY <1>2, <2>3 DEF SumFunction
<1>5. ASSUME \A v \in Nat : w[OutputOf(wants, input.shard, kind, v)] = 0
      PROVE  SumFunction(Weights(w, row)) = 0
    <2>1. \A j \in DOMAIN cut : Weights(w, row)[j] = 0
        BY <1>3, <1>5
    <2> HIDE DEF cut
    <2> QED BY <1>2, <2>1, SumZero DEF SumFunction
<1> QED
    BY <1>4, <1>5 DEF row

\* The rows of one shard, one after the other.
Both(wants, input) == RowOf(wants, input, "payment") \o RowOf(wants, input, "change")

\* The outputs of a selection.
LEMMA OutputsOfSelection ==
    ASSUME NEW store, DOMAIN store \subseteq Own, NEW wants \in RequestType, NEW selection,
           GoodSelection(store, wants, selection)
    PROVE  /\ Outputs(wants, selection) \in Seq(OutputType)
           /\ \A k \in DOMAIN Outputs(wants, selection) :
                 LET out == Outputs(wants, selection)[k]
                 IN  /\ out.type = wants.type
                     /\ \E i \in DOMAIN selection : out.shard = selection[i].shard
                     /\ wants.type = "ERC20" => out.value > 0
           /\ \A w \in [OutputType -> Int] :
                 SumFunction(Weights(w, Outputs(wants, selection)))
                     = SumFunctionOnSet(
                           [i \in DOMAIN selection |->
                                SumFunction(Weights(w, RowOf(wants, selection[i], "payment")))
                              + SumFunction(Weights(w, RowOf(wants, selection[i], "change")))],
                           DOMAIN selection)
<1> DEFINE rows == [i \in DOMAIN selection |-> Both(wants, selection[i])]
           outs == Outputs(wants, selection)
           Pay(i) == RowOf(wants, selection[i], "payment")
           Keep(i) == RowOf(wants, selection[i], "change")
<1>1. outs = FlattenSeq(rows)
    BY DEF Outputs, Both
<1>2. Len(rows) = Len(selection) /\ Len(rows) \in Nat /\ DOMAIN rows = 1..Len(rows)
    BY DEF GoodSelection
<1>3. ASSUME NEW i \in DOMAIN selection
      PROVE  /\ Pay(i) = [j \in DOMAIN selection[i].payment |->
                             OutputOf(wants, selection[i].shard, "payment", selection[i].payment[j])]
             /\ Keep(i) = [j \in DOMAIN selection[i].change |->
                             OutputOf(wants, selection[i].shard, "change", selection[i].change[j])]
             /\ Pay(i) \in Seq(OutputType) /\ Keep(i) \in Seq(OutputType)
    <2>1. selection[i].shard \in Own /\ selection[i].payment = selection[i]["payment"]
             /\ selection[i].change = selection[i]["change"]
        BY DEF GoodSelection
    <2> QED BY <2>1, PlainRow DEF GoodSelection
<1>4. \A i \in DOMAIN rows : rows[i] \in Seq(OutputType)
    <2> SUFFICES ASSUME NEW i \in DOMAIN selection PROVE Both(wants, selection[i]) \in Seq(OutputType)
        OBVIOUS
    <2> QED BY <1>3 DEF Both
<1>5. ASSUME NEW i \in DOMAIN selection, NEW m \in DOMAIN rows[i]
      PROVE  /\ rows[i][m].type = wants.type
             /\ rows[i][m].shard = selection[i].shard
             /\ wants.type = "ERC20" => rows[i][m].value > 0
    <2> DEFINE s == Pay(i)
               u == Keep(i)
    <2>1. s \in Seq(OutputType) /\ u \in Seq(OutputType)
        BY <1>3
    <2>2. (\E j \in DOMAIN s : rows[i][m] = s[j]) \/ (\E j \in DOMAIN u : rows[i][m] = u[j])
        <3>1. rows[i] = s \o u
            BY DEF Both
        <3> HIDE DEF s, u
        <3>2. m \in DOMAIN (s \o u) /\ rows[i][m] = (s \o u)[m]
            BY <3>1
        <3>3. CASE m <= Len(s)
            <4>1. m \in DOMAIN s /\ (s \o u)[m] = s[m]
                BY <2>1, <3>2, <3>3
            <4> QED BY <3>2, <4>1
        <3>4. CASE ~(m <= Len(s))
            <4>1. m - Len(s) \in DOMAIN u /\ (s \o u)[m] = u[m - Len(s)]
                BY <2>1, <3>2, <3>4
            <4> QED BY <3>2, <4>1
        <3> QED BY <3>3, <3>4
    <2>3. ASSUME NEW j \in DOMAIN s
          PROVE  /\ s[j].type = wants.type /\ s[j].shard = selection[i].shard
                 /\ wants.type = "ERC20" => s[j].value > 0
        <3>1. j \in DOMAIN selection[i].payment
            BY <1>3
        <3>2. selection[i].payment[j] \in Nat /\ ~Skipped(wants, "payment", selection[i].payment[j])
            BY <3>1 DEF GoodSelection
        <3>3. s[j] = OutputOf(wants, selection[i].shard, "payment", selection[i].payment[j])
            BY <1>3, <3>1
        <3> QED BY <3>2, <3>3 DEF OutputOf, Skipped
    <2>4. ASSUME NEW j \in DOMAIN u
          PROVE  /\ u[j].type = wants.type /\ u[j].shard = selection[i].shard
                 /\ wants.type = "ERC20" => u[j].value > 0
        <3>1. j \in DOMAIN selection[i].change
            BY <1>3
        <3>2. selection[i].change[j] \in Nat /\ ~Skipped(wants, "change", selection[i].change[j])
            BY <3>1 DEF GoodSelection
        <3>3. u[j] = OutputOf(wants, selection[i].shard, "change", selection[i].change[j])
            BY <1>3, <3>1
        <3> QED BY <3>2, <3>3 DEF OutputOf, Skipped
    <2> HIDE DEF s, u
    <2> QED BY <2>2, <2>3, <2>4
<1>6. outs \in Seq(OutputType) /\ Joins(outs, rows, Len(rows))
    <2> HIDE DEF rows, outs
    <2>1. /\ Len(rows) > 0 => outs \in Seq(OutputType)
          /\ Len(rows) = 0 => outs = rows
          /\ Joins(outs, rows, Len(rows))
        BY <1>1, <1>2, <1>4, Flattened
    <2>2. CASE Len(rows) = 0
        <3>1. rows = <<>>
            <4>1. rows \in [1..0 -> OutputType]
                BY <1>2, <2>2 DEF rows
            <4> QED BY <4>1
        <3> QED BY <2>1, <2>2, <3>1
    <2> QED BY <1>2, <2>1, <2>2
<1>7. ASSUME NEW k \in DOMAIN outs
      PROVE  /\ outs[k].type = wants.type
             /\ \E i \in DOMAIN selection : outs[k].shard = selection[i].shard
             /\ wants.type = "ERC20" => outs[k].value > 0
    <2>1. PICK i \in 1..Len(rows) : \E m \in DOMAIN rows[i] : outs[k] = rows[i][m]
        <3> HIDE DEF outs, rows
        <3> QED BY <1>6 DEF Joins
    <2>2. i \in DOMAIN selection
        BY <1>2
    <2>3. PICK m \in DOMAIN rows[i] : outs[k] = rows[i][m]
        BY <2>1
    <2> HIDE DEF outs, rows
    <2> QED BY <1>5, <2>2, <2>3
<1>8. ASSUME NEW w \in [OutputType -> Int]
      PROVE  SumFunction(Weights(w, outs))
                 = SumFunctionOnSet([i \in DOMAIN selection |->
                       SumFunction(Weights(w, Pay(i))) + SumFunction(Weights(w, Keep(i)))],
                                    DOMAIN selection)
    <2>1. SumFunction(Weights(w, FlattenSeq(rows)))
              = SumFunctionOnSet([i \in DOMAIN rows |-> SumFunction(Weights(w, rows[i]))], DOMAIN rows)
        <3> HIDE DEF rows
        <3> QED BY <1>2, <1>4, FlattenSum
    <2>2. ASSUME NEW i \in DOMAIN selection
          PROVE  SumFunction(Weights(w, rows[i]))
                     = SumFunction(Weights(w, Pay(i))) + SumFunction(Weights(w, Keep(i)))
        <3>1. rows[i] = Pay(i) \o Keep(i)
            BY DEF Both
        <3>2. Pay(i) \in Seq(OutputType) /\ Keep(i) \in Seq(OutputType)
            BY <1>3
        <3> DEFINE s == Pay(i)
                   u == Keep(i)
        <3> HIDE DEF s, u
        <3>3. SumFunction(Weights(w, s \o u)) = SumFunction(Weights(w, s)) + SumFunction(Weights(w, u))
            BY <3>2, WeightsConcat DEF s, u
        <3> QED BY <3>1, <3>3 DEF s, u
    <2>3. [i \in DOMAIN rows |-> SumFunction(Weights(w, rows[i]))]
              = [i \in DOMAIN selection |->
                    SumFunction(Weights(w, Pay(i))) + SumFunction(Weights(w, Keep(i)))]
        <3>1. DOMAIN rows = DOMAIN selection
            OBVIOUS
        <3> HIDE DEF rows, Pay, Keep
        <3> QED BY <2>2, <3>1
    <2>4. DOMAIN rows = DOMAIN selection
        OBVIOUS
    <2> QED BY <1>1, <2>1, <2>3, <2>4
<1> QED
    BY <1>6, <1>7, <1>8

-----------------------------------------------------------------------------
(* What the wallet selects.                                                *)

\* The pools and all addresses of the wallet are finitely many.
LEMMA FinitelyMany ==
    /\ \A t : IsFiniteSet(RecipientPool(t)) /\ IsFiniteSet(ChangePool(t)) /\ IsFiniteSet(DepositPool(t))
    /\ IsFiniteSet(Own)
<1> USE PoolAssumption, TransfersAssumption
<1>1. IsFiniteSet(1..MaxRecipientPool) /\ IsFiniteSet(1..MaxChangePool)
    BY FS_Interval
<1>2. ASSUME NEW t
      PROVE  /\ IsFiniteSet(RecipientPool(t)) /\ IsFiniteSet(ChangePool(t))
             /\ IsFiniteSet(DepositPool(t))
    <2> DEFINE f == [n \in 1..MaxRecipientPool |-> <<"recipient", t, n>>]
               g == [n \in 1..MaxChangePool |-> <<"change", t, n>>]
               h == [n \in 1..MaxRecipientPool |-> <<"deposit", t, n>>]
    <2>1. /\ \A a \in RecipientPool(t) : \E n \in 1..MaxRecipientPool : a = f[n]
          /\ \A a \in ChangePool(t) : \E n \in 1..MaxChangePool : a = g[n]
          /\ \A a \in DepositPool(t) : \E n \in 1..MaxRecipientPool : a = h[n]
        BY DEF RecipientPool, ChangePool, DepositPool
    <2> HIDE DEF f, g, h
    <2> QED BY <1>1, <2>1, ImageIsFinite
<1>3. IsFiniteSet({Shard(n) : n \in FirstShards})
    <2> DEFINE f == [n \in FirstShards |-> Shard(n)]
    <2>1. \A a \in {Shard(n) : n \in FirstShards} : \E n \in FirstShards : a = f[n]
        OBVIOUS
    <2> HIDE DEF f
    <2> QED BY <2>1, ImageIsFinite
<1>4. IsFiniteSet(UNION {ChangePool(t) \cup DepositPool(t) : t \in Transfers})
    <2> DEFINE f == [t \in Transfers |-> ChangePool(t) \cup DepositPool(t)]
               fs == {f[t] : t \in Transfers}
    <2>1. {ChangePool(t) \cup DepositPool(t) : t \in Transfers} = fs
        OBVIOUS
    <2>2. \A x \in fs : IsFiniteSet(x)
        <3> SUFFICES ASSUME NEW t \in Transfers PROVE IsFiniteSet(ChangePool(t) \cup DepositPool(t))
            OBVIOUS
        <3> QED BY <1>2, FS_Union
    <2> HIDE DEF f
    <2>3. IsFiniteSet(fs)
        <3>1. \A x \in fs : \E t \in Transfers : x = f[t]
            OBVIOUS
        <3> QED BY <3>1, ImageIsFinite
    <2> HIDE DEF fs
    <2>4. IsFiniteSet(UNION fs)
        BY <2>2, <2>3, FS_UNION
    <2> QED BY <2>1, <2>4
<1> QED
    BY <1>2, <1>3, <1>4, FS_Union DEF Own

\* A cut has positive parts that add up.
LEMMA CutAddsUp ==
    ASSUME NEW amount \in Nat, NEW cut \in Cuts(amount)
    PROVE  /\ cut \in Seq(Nat) /\ \A j \in DOMAIN cut : cut[j] > 0
           /\ SumFunction(cut) = amount
           /\ Len(cut) <= MaxSplits
<1>1. MaxSplits \in Nat
    BY PoolAssumption, TransfersAssumption
<1>2. CASE amount = 0
    <2>1. cut = <<>>
        BY <1>2 DEF Cuts
    <2> QED BY <1>1, <1>2, <2>1, ShortSums
<1>3. CASE amount # 0
    <2>1. PICK n \in 1..MaxSplits : cut \in [1..n -> 1..amount]
        BY <1>3 DEF Cuts
    <2>2. SumFunction(cut) = amount
        BY <1>3 DEF Cuts
    <2> QED BY <1>1, <2>1, <2>2
<1> QED
    BY <1>2, <1>3

\* An allotment selects well.
LEMMA AllotmentsAreGood ==
    ASSUME NEW store, DOMAIN store \subseteq Own, \A a \in DOMAIN store : store[a] \in EntryType,
           NEW wants \in RequestType, wants.type = "ERC20",
           NEW selection \in Allotments(store, wants)
    PROVE  GoodSelection(store, wants, selection) /\ AddsUp(store, wants, selection)
<1> DEFINE free == getUnspentForAsset(store, wants)
<1>1. free \subseteq DOMAIN store /\ IsFiniteSet(free) /\ \A a \in free : store[a].shown > 0
    <2>1. free \subseteq DOMAIN store /\ \A a \in free : store[a].shown > 0
        BY DEF getUnspentForAsset
    <2> HIDE DEF free
    <2> QED BY <2>1, FinitelyMany, FS_Subset
<1> HIDE DEF free
<1>2. PICK order \in UNION {SetToSeqs(chosen) : chosen \in SUBSET free \ {{}}} :
        /\ selection \in [1..Len(order) -> UNION {Rows(a, store[a].shown) : a \in ToSet(order)}]
        /\ \A i \in DOMAIN order : selection[i].shard = order[i]
        /\ wants.value = SumFunction([i \in DOMAIN order |-> SumFunction(selection[i].payment)])
    BY DEF Allotments, free
<1>3. PICK chosen \in SUBSET free : order \in SetToSeqs(chosen)
    BY <1>2
<1>4. Cardinality(chosen) \in Nat
    BY <1>1, <1>3, FS_Subset, FS_CardinalityType
<1>5. /\ order \in Seq(chosen) /\ DOMAIN order = 1..Len(order)
      /\ \A i, j \in DOMAIN order : order[i] = order[j] => i = j
    <2>1. order \in [1..Cardinality(chosen) -> chosen]
        BY <1>3 DEF SetToSeqs
    <2>2. \A i, j \in 1..Cardinality(chosen) : i # j => order[i] # order[j]
        BY <1>3 DEF SetToSeqs
    <2> QED BY <1>4, <2>1, <2>2
<1>6. Len(order) \in Nat /\ DOMAIN selection = DOMAIN order /\ Len(selection) = Len(order)
    BY <1>2, <1>5
<1>7. ASSUME NEW i \in DOMAIN selection
      PROVE  /\ selection[i].shard = order[i] /\ order[i] \in free
             /\ \E part \in MinPart..store[order[i]].shown :
                   /\ selection[i].payment \in Cuts(part)
                   /\ selection[i].change \in Cuts(store[order[i]].shown - part)
    <2>1. selection[i].shard = order[i] /\ order[i] \in chosen
        BY <1>2, <1>5, <1>6
    <2>2. PICK a \in ToSet(order) : selection[i] \in Rows(a, store[a].shown)
        BY <1>2, <1>5, <1>6
    <2>3. PICK part \in MinPart..store[a].shown :
            \E pay \in Cuts(part) : \E keep \in Cuts(store[a].shown - part) :
                selection[i] = [shard |-> a, payment |-> pay, change |-> keep]
        BY <2>2 DEF Rows
    <2> QED BY <1>3, <2>1, <2>3
<1>8. ASSUME NEW i \in DOMAIN selection
      PROVE  /\ selection[i].shard \in free
             /\ selection[i].payment \in Seq(Nat) /\ selection[i].change \in Seq(Nat)
             /\ \A j \in DOMAIN selection[i].payment : selection[i].payment[j] > 0
             /\ \A j \in DOMAIN selection[i].change : selection[i].change[j] > 0
             /\ SumFunction(selection[i].payment) \in Int
             /\ SumFunction(selection[i].payment) + SumFunction(selection[i].change)
                    = store[selection[i].shard].shown
    <2>1. PICK part \in MinPart..store[order[i]].shown :
              /\ selection[i].payment \in Cuts(part)
              /\ selection[i].change \in Cuts(store[order[i]].shown - part)
        BY <1>7
    <2>2. store[order[i]].shown \in Nat /\ selection[i].shard = order[i] /\ order[i] \in free
        BY <1>1, <1>7 DEF EntryType
    <2>3. part \in Nat /\ store[order[i]].shown - part \in Nat
        BY <2>1, <2>2, TransfersAssumption
    <2> QED BY <2>1, <2>2, <2>3, CutAddsUp
<1>9. GoodSelection(store, wants, selection)
    <2>1. Len(selection) \in Nat /\ DOMAIN selection = 1..Len(selection)
        BY <1>5, <1>6
    <2>2. \A i, j \in DOMAIN selection : selection[i].shard = selection[j].shard => i = j
        BY <1>5, <1>6, <1>7
    <2>3. ASSUME NEW i \in DOMAIN selection
          PROVE  /\ \A j \in DOMAIN selection[i].payment :
                       ~Skipped(wants, "payment", selection[i].payment[j])
                 /\ \A j \in DOMAIN selection[i].change :
                       ~Skipped(wants, "change", selection[i].change[j])
        BY <1>8 DEF Skipped
    <2> QED BY <1>1, <1>8, <2>1, <2>2, <2>3 DEF GoodSelection
<1>10. AddsUp(store, wants, selection)
    <2>1. wants.value = SumFunctionOnSet([i \in DOMAIN selection |-> SumFunction(selection[i].payment)],
                                         DOMAIN selection)
        BY <1>2, <1>6 DEF SumFunction
    <2> QED BY <1>1, <1>8, <2>1 DEF AddsUp
<1> QED
    BY <1>9, <1>10

\* The selection of a token is the token's shard.
LEMMA TokensAreGood ==
    ASSUME NEW store, NEW wants \in RequestType, wants.type = "ERC721",
           wants.mode = "private" \/ wants.value > 0,
           NEW selection \in selectERC721(store, wants)
    PROVE  GoodSelection(store, wants, selection) /\ IsToken(store, wants, selection)
<1>1. PICK a \in getUnspentForAsset(store, wants) :
        selection = <<[shard |-> a, payment |-> <<wants.value>>, change |-> <<>>]>>
    BY DEF selectERC721
<1>2. a \in DOMAIN store /\ wants.value \in store[a].tokenIds
    BY DEF getUnspentForAsset
<1>3. wants.value \in Nat /\ ~Skipped(wants, "payment", wants.value)
    BY DEF Skipped, RequestType
<1> DEFINE row == [shard |-> a, payment |-> <<wants.value>>, change |-> <<>>]
<1>4. GoodSelection(store, wants, selection)
    <2>1. /\ Len(selection) = 1 /\ DOMAIN selection = 1..1 /\ selection[1] = row
        BY <1>1
    <2>2. /\ row.shard = a /\ row.payment = <<wants.value>> /\ row.change = <<>>
          /\ row.payment \in Seq(Nat) /\ row.change \in Seq(Nat)
          /\ DOMAIN row.payment = 1..1 /\ row.payment[1] = wants.value /\ DOMAIN row.change = {}
        BY <1>3
    <2> HIDE DEF row
    <2>3. \A i \in DOMAIN selection : i = 1 /\ selection[i] = row
        BY <2>1
    <2>4. ASSUME NEW i \in DOMAIN selection
          PROVE  /\ selection[i].shard \in DOMAIN store
                 /\ selection[i].payment \in Seq(Nat) /\ selection[i].change \in Seq(Nat)
                 /\ \A j \in DOMAIN selection[i].payment :
                       ~Skipped(wants, "payment", selection[i].payment[j])
                 /\ \A j \in DOMAIN selection[i].change :
                       ~Skipped(wants, "change", selection[i].change[j])
        <3>1. \A j \in DOMAIN row.payment : ~Skipped(wants, "payment", row.payment[j])
            BY <1>3, <2>2
        <3>2. \A j \in DOMAIN row.change : ~Skipped(wants, "change", row.change[j])
            BY <2>2
        <3>3. selection[i] = row
            BY <2>3
        <3> QED BY <1>2, <2>2, <3>1, <3>2, <3>3
    <2> QED BY <2>1, <2>3, <2>4 DEF GoodSelection
<1> QED
    BY <1>1, <1>2, <1>4 DEF IsToken

-----------------------------------------------------------------------------
(* What the outputs of a selection add up to.                              *)

\* What the outputs pay; and those of a shard, to an address, to the recipient.
ValueOf(outs) == [k \in DOMAIN outs |-> outs[k].value]

OutputsFrom(outs, shard) == {k \in DOMAIN outs : outs[k].shard = shard}
OutputsTo(draw, outs, to) == {k \in DOMAIN outs : draw[k] = to}
Payments(outs) == {k \in DOMAIN outs : outs[k].kind = "payment"}

\* The sum over a part of the outputs is a weight of all of them.
LEMMA PartWeighs ==
    ASSUME NEW outs \in Seq(OutputType), NEW w \in [OutputType -> Int], NEW P \in SUBSET DOMAIN outs,
           \A k \in DOMAIN outs : w[outs[k]] = IF k \in P THEN outs[k].value ELSE 0
    PROVE  SumFunctionOnSet(ValueOf(outs), P) = SumFunction(Weights(w, outs))
<1> DEFINE val == ValueOf(outs)
           S == DOMAIN outs
<1>1. IsFiniteSet(S)
    BY Intervals
<1>2. \A k \in S : val[k] \in Int /\ val[k] = outs[k].value
    <2> SUFFICES ASSUME NEW k \in S PROVE val[k] \in Int /\ val[k] = outs[k].value
        OBVIOUS
    <2>1. outs[k] \in OutputType
        OBVIOUS
    <2> QED BY <2>1 DEF ValueOf, OutputType
<1>3. \A k \in S : Weights(w, outs)[k] = IF k \in P THEN val[k] ELSE 0
    BY <1>2 DEF Weights
<1>4. DOMAIN Weights(w, outs) = S
    BY DEF Weights
<1>5. P \in SUBSET S
    OBVIOUS
<1> HIDE DEF val, S
<1>6. SumFunctionOnSet(val, P) = SumFunctionOnSet(Weights(w, outs), S)
    BY <1>1, <1>2, <1>3, <1>5, SumFilter
<1> QED
    BY <1>4, <1>6 DEF SumFunction, val

\* A shard spends what it shows.
LEMMA ShardSpendsAll ==
    ASSUME NEW store, DOMAIN store \subseteq Own, \A a \in DOMAIN store : store[a] \in EntryType,
           NEW wants \in RequestType, NEW selection,
           GoodSelection(store, wants, selection), AddsUp(store, wants, selection),
           NEW i \in DOMAIN selection
    PROVE  SumFunctionOnSet(ValueOf(Outputs(wants, selection)),
                            OutputsFrom(Outputs(wants, selection), selection[i].shard))
               = store[selection[i].shard].shown
<1> DEFINE outs == Outputs(wants, selection)
           a == selection[i].shard
           P == {k \in DOMAIN outs : outs[k].shard = a}
           w == [x \in OutputType |-> IF x.shard = a THEN x.value ELSE 0]
           G(j) == SumFunction(Weights(w, RowOf(wants, selection[j], "payment")))
                 + SumFunction(Weights(w, RowOf(wants, selection[j], "change")))
           g == [j \in DOMAIN selection |-> G(j)]
<1>1. outs \in Seq(OutputType)
    BY OutputsOfSelection
<1>2. w \in [OutputType -> Int]
    BY DEF OutputType
<1>3. SumFunctionOnSet(ValueOf(outs), P) = SumFunction(Weights(w, outs))
    <2>1. \A k \in DOMAIN outs : outs[k] \in OutputType
        <3> HIDE DEF outs
        <3> QED BY <1>1
    <2>2. \A k \in DOMAIN outs : w[outs[k]] = IF k \in P THEN outs[k].value ELSE 0
        <3> HIDE DEF outs
        <3> QED BY <2>1
    <2>3. P \in SUBSET DOMAIN outs
        OBVIOUS
    <2> HIDE DEF outs, w, P
    <2> QED BY <1>1, <1>2, <2>2, <2>3, PartWeighs
<1>4. SumFunction(Weights(w, outs)) = SumFunctionOnSet(g, DOMAIN selection)
    <2> HIDE DEF w
    <2> QED BY <1>2, OutputsOfSelection
<1>5. ASSUME NEW j \in DOMAIN selection
      PROVE  G(j) = IF j = i THEN store[a].shown ELSE 0
    <2> DEFINE pay == selection[j]["payment"]
               keep == selection[j]["change"]
    <2>1. /\ selection[j].shard \in Own /\ pay \in Seq(Nat) /\ keep \in Seq(Nat)
          /\ \A m \in DOMAIN pay : ~Skipped(wants, "payment", pay[m])
          /\ \A m \in DOMAIN keep : ~Skipped(wants, "change", keep[m])
        BY DEF GoodSelection
    <2>2. ASSUME NEW kind \in {"payment", "change"}, NEW v \in Nat
          PROVE  w[OutputOf(wants, selection[j].shard, kind, v)]
                     = IF selection[j].shard = a THEN v ELSE 0
        BY <2>1 DEF OutputOf, OutputType, RequestType
    <2> HIDE DEF w
    <2>3. CASE j = i
        <3>1. selection[j].shard = a
            BY <2>3
        <3>2. SumFunction(Weights(w, RowOf(wants, selection[j], "payment"))) = SumFunction(pay)
            BY <1>2, <2>1, <2>2, <3>1, RowWeighs
        <3>3. SumFunction(Weights(w, RowOf(wants, selection[j], "change"))) = SumFunction(keep)
            BY <1>2, <2>1, <2>2, <3>1, RowWeighs
        <3>4. SumFunction(pay) + SumFunction(keep) = store[a].shown
            BY <2>3 DEF AddsUp
        <3> QED BY <2>3, <3>2, <3>3, <3>4
    <2>4. CASE j # i
        <3>1. selection[j].shard # a
            BY <2>4 DEF GoodSelection
        <3>2. SumFunction(Weights(w, RowOf(wants, selection[j], "payment"))) = 0
            BY <1>2, <2>1, <2>2, <3>1, RowWeighs
        <3>3. SumFunction(Weights(w, RowOf(wants, selection[j], "change"))) = 0
            BY <1>2, <2>1, <2>2, <3>1, RowWeighs
        <3> QED BY <2>4, <3>2, <3>3
    <2> QED BY <2>3, <2>4
<1>6. IsFiniteSet(DOMAIN selection)
    BY Intervals DEF GoodSelection
<1>7. store[a].shown \in Int
    BY DEF EntryType, GoodSelection
<1>8. SumFunctionOnSet(g, DOMAIN selection) = store[a].shown
    <2>1. g[i] = store[a].shown /\ \A j \in DOMAIN selection \ {i} : g[j] = 0
        BY <1>5
    <2> HIDE DEF g
    <2> QED BY <1>6, <1>7, <2>1, SumSingle
<1> QED
    BY <1>3, <1>4, <1>8 DEF OutputsFrom, Payments

\* The payments add up to the amount.
LEMMA PaymentsAddUp ==
    ASSUME NEW store, DOMAIN store \subseteq Own, \A a \in DOMAIN store : store[a] \in EntryType,
           NEW wants \in RequestType, NEW selection,
           GoodSelection(store, wants, selection), AddsUp(store, wants, selection)
    PROVE  SumFunctionOnSet(ValueOf(Outputs(wants, selection)), Payments(Outputs(wants, selection)))
               = wants.value
<1> DEFINE outs == Outputs(wants, selection)
           P == {k \in DOMAIN outs : outs[k].kind = "payment"}
           w == [x \in OutputType |-> IF x.kind = "payment" THEN x.value ELSE 0]
           G(j) == SumFunction(Weights(w, RowOf(wants, selection[j], "payment")))
                 + SumFunction(Weights(w, RowOf(wants, selection[j], "change")))
           g == [j \in DOMAIN selection |-> G(j)]
<1>1. outs \in Seq(OutputType)
    BY OutputsOfSelection
<1>2. w \in [OutputType -> Int]
    BY DEF OutputType
<1>3. SumFunctionOnSet(ValueOf(outs), P) = SumFunction(Weights(w, outs))
    <2>1. \A k \in DOMAIN outs : outs[k] \in OutputType
        <3> HIDE DEF outs
        <3> QED BY <1>1
    <2>2. \A k \in DOMAIN outs : w[outs[k]] = IF k \in P THEN outs[k].value ELSE 0
        <3> HIDE DEF outs
        <3> QED BY <2>1
    <2>3. P \in SUBSET DOMAIN outs
        OBVIOUS
    <2> HIDE DEF outs, w, P
    <2> QED BY <1>1, <1>2, <2>2, <2>3, PartWeighs
<1>4. SumFunction(Weights(w, outs)) = SumFunctionOnSet(g, DOMAIN selection)
    <2> HIDE DEF w
    <2> QED BY <1>2, OutputsOfSelection
<1>5. ASSUME NEW j \in DOMAIN selection
      PROVE  G(j) = SumFunction(selection[j].payment)
    <2> DEFINE pay == selection[j]["payment"]
               keep == selection[j]["change"]
    <2>1. /\ selection[j].shard \in Own /\ pay \in Seq(Nat) /\ keep \in Seq(Nat)
          /\ \A m \in DOMAIN pay : ~Skipped(wants, "payment", pay[m])
          /\ \A m \in DOMAIN keep : ~Skipped(wants, "change", keep[m])
        BY DEF GoodSelection
    <2>2. ASSUME NEW kind \in {"payment", "change"}, NEW v \in Nat
          PROVE  w[OutputOf(wants, selection[j].shard, kind, v)] = IF kind = "payment" THEN v ELSE 0
        BY <2>1 DEF OutputOf, OutputType, RequestType
    <2> HIDE DEF w
    <2>3. SumFunction(Weights(w, RowOf(wants, selection[j], "payment"))) = SumFunction(pay)
        BY <1>2, <2>1, <2>2, RowWeighs
    <2>4. SumFunction(Weights(w, RowOf(wants, selection[j], "change"))) = 0
        BY <1>2, <2>1, <2>2, RowWeighs
    <2>5. SumFunction(pay) \in Int
        <3> HIDE DEF pay
        <3>1. pay \in Seq(Int)
            BY <2>1
        <3> QED BY <3>1, SequenceSum
    <2> QED BY <2>3, <2>4, <2>5
<1>6. g = [j \in DOMAIN selection |-> SumFunction(selection[j].payment)]
    BY <1>5
<1> QED
    BY <1>3, <1>4, <1>6 DEF AddsUp, Payments

\* The one output of a token.
LEMMA TokenOutput ==
    ASSUME NEW store, DOMAIN store \subseteq Own, NEW wants \in RequestType, NEW selection,
           wants.type = "ERC721",
           GoodSelection(store, wants, selection), IsToken(store, wants, selection)
    PROVE  \E a \in DOMAIN store :
              /\ wants.value \in store[a].tokenIds
              /\ {selection[i].shard : i \in DOMAIN selection} = {a}
              /\ Outputs(wants, selection) = <<OutputOf(wants, a, "payment", wants.value)>>
<1>1. PICK a \in DOMAIN store :
        /\ selection = <<[shard |-> a, payment |-> <<wants.value>>, change |-> <<>>]>>
        /\ wants.value \in store[a].tokenIds
    BY DEF IsToken
<1> DEFINE input == selection[1]
           out == OutputOf(wants, a, "payment", wants.value)
<1>2. /\ input = [shard |-> a, payment |-> <<wants.value>>, change |-> <<>>]
      /\ DOMAIN selection = {1} /\ DOMAIN selection = 1..1
    BY <1>1
<1>3. /\ input.shard = a /\ a \in Own
      /\ input["payment"] = <<wants.value>> /\ input["change"] = <<>>
    BY <1>2
<1>4. /\ \A j \in DOMAIN input["payment"] : ~Skipped(wants, "payment", input["payment"][j])
      /\ \A j \in DOMAIN input["change"] : ~Skipped(wants, "change", input["change"][j])
    BY <1>2 DEF GoodSelection
<1>5. wants.value \in Nat /\ input["payment"] \in Seq(Nat) /\ input["change"] \in Seq(Nat)
    BY <1>3 DEF RequestType
<1> HIDE DEF input
<1>6. RowOf(wants, input, "payment") = <<out>> /\ RowOf(wants, input, "payment") \in Seq(OutputType)
    <2>1. /\ RowOf(wants, input, "payment")
                = [j \in DOMAIN input["payment"] |->
                      OutputOf(wants, input.shard, "payment", input["payment"][j])]
          /\ RowOf(wants, input, "payment") \in Seq(OutputType)
        BY <1>3, <1>4, <1>5, PlainRow
    <2>2. DOMAIN <<wants.value>> = 1..1 /\ <<wants.value>>[1] = wants.value
        OBVIOUS
    <2>3. RowOf(wants, input, "payment") = [j \in 1..1 |-> out]
        BY <1>3, <2>1, <2>2
    <2>4. [j \in 1..1 |-> out] = <<out>>
        OBVIOUS
    <2> QED BY <2>1, <2>3, <2>4
<1>7. RowOf(wants, input, "change") = <<>>
    <2>1. /\ RowOf(wants, input, "change")
                = [j \in DOMAIN input["change"] |->
                      OutputOf(wants, input.shard, "change", input["change"][j])]
          /\ RowOf(wants, input, "change") \in Seq(OutputType)
        BY <1>3, <1>4, <1>5, PlainRow
    <2>2. DOMAIN RowOf(wants, input, "change") = {}
        BY <1>3, <2>1
    <2> QED BY <2>1, <2>2
<1>8. Outputs(wants, selection) = <<out>>
    <2> DEFINE s == <<out>>
               rows == [i \in DOMAIN selection |-> Both(wants, selection[i])]
    <2>1. out \in OutputType /\ s \in Seq(OutputType) /\ DOMAIN s = DOMAIN selection
        <3>1. out \in OutputType
            BY <1>3, <1>5 DEF OutputOf, OutputType, RequestType
        <3> HIDE DEF out
        <3> QED BY <1>2, <3>1
    <2>2. Both(wants, selection[1]) = <<out>>
        <3> HIDE DEF out
        <3>1. out \in OutputType
            BY <2>1
        <3>2. <<out>> \o <<>> = <<out>>
            BY <3>1
        <3>3. Both(wants, input) = <<out>>
            BY <1>6, <1>7, <3>2 DEF Both
        <3> QED BY <3>3 DEF input
    <2>3. rows = [n \in DOMAIN s |-> <<s[n]>>]
        BY <1>2, <2>1, <2>2
    <2>4. Outputs(wants, selection) = FlattenSeq(rows)
        BY DEF Outputs, Both
    <2> HIDE DEF s, rows
    <2>5. FlattenSeq(rows) = s
        BY <2>1, <2>3, FlattenedOnes
    <2> QED BY <2>4, <2>5 DEF s
<1>9. {selection[i].shard : i \in DOMAIN selection} = {a}
    BY <1>2, <1>3 DEF input
<1> QED
    BY <1>1, <1>8, <1>9

-----------------------------------------------------------------------------
(* The commands of a bundle.                                               *)

\* The command an output ends up in.
CommandOf(draw, outs, k) ==
    LET value == IF outs[k].type = "ERC721" THEN outs[k].value
                 ELSE Fused(draw, outs, outs[k].shard, draw[k])
    IN  [shard |-> outs[k].shard, to |-> draw[k], type |-> outs[k].type, value |-> value,
         signature |-> [shard |-> outs[k].shard, to |-> draw[k], type |-> outs[k].type,
                        value |-> value, announcements |-> Announcements(draw, outs)]]

\* The commands are those of the outputs, fused and signed.
LEMMA CommandsOfOutputs ==
    ASSUME NEW draw, NEW outs
    PROVE  /\ \A c \in Commands(draw, outs) : \E k \in DOMAIN outs : c = CommandOf(draw, outs, k)
           /\ \A k \in DOMAIN outs : CommandOf(draw, outs, k) \in Commands(draw, outs)
<1> DEFINE final(k) == [shard |-> outs[k].shard, to |-> draw[k], type |-> outs[k].type,
                        value |-> IF outs[k].type = "ERC721" THEN outs[k].value
                                  ELSE Fused(draw, outs, outs[k].shard, draw[k])]
           signed(c) == [shard |-> c.shard, to |-> c.to, type |-> c.type, value |-> c.value,
                         signature |-> Signature(draw, outs, c)]
<1>1. FinalCommands(draw, outs) = {final(k) : k \in DOMAIN outs}
    BY DEF FinalCommands
<1>2. Commands(draw, outs) = {signed(c) : c \in FinalCommands(draw, outs)}
    BY DEF Commands
<1>3. ASSUME NEW k \in DOMAIN outs
      PROVE  signed(final(k)) = CommandOf(draw, outs, k)
    BY DEF CommandOf, Signature, SignedContent
<1> HIDE DEF final, signed
<1> QED
    BY <1>1, <1>2, <1>3

\* The amounts of some commands are the values of the outputs that ended up in
\* them: fusing loses nothing and counts nothing twice.
LEMMA FusingKeepsSums ==
    ASSUME NEW draw, NEW outs \in Seq(OutputType), \A k \in DOMAIN outs : outs[k].type = "ERC20",
           NEW C \in SUBSET Commands(draw, outs)
    PROVE  SumFunctionOnSet(AmountOf(Commands(draw, outs)), C)
               = SumFunctionOnSet(ValueOf(outs), {k \in DOMAIN outs : CommandOf(draw, outs, k) \in C})
<1> DEFINE N == DOMAIN outs
           S == {k \in N : CommandOf(draw, outs, k) \in C}
           val == ValueOf(outs)
           amount == AmountOf(Commands(draw, outs))
           cmd == [k \in N |-> CommandOf(draw, outs, k)]
           h == [c \in C |-> SumFunctionOnSet(val, Fibre(S, cmd, c))]
<1>1. IsFiniteSet(N) /\ S \subseteq N /\ IsFiniteSet(S)
    <2>1. IsFiniteSet(N)
        BY Intervals
    <2> QED BY <2>1, FS_Subset
<1>2. \A k \in N : val[k] \in Int
    <2> SUFFICES ASSUME NEW k \in N PROVE val[k] \in Int
        OBVIOUS
    <2>1. outs[k] \in OutputType
        OBVIOUS
    <2> QED BY <2>1 DEF ValueOf, OutputType
<1>3. \A k \in S : cmd[k] \in C
    OBVIOUS
<1>4. IsFiniteSet(C)
    <2>1. \A c \in C : \E k \in N : c = cmd[k]
        BY CommandsOfOutputs
    <2> HIDE DEF cmd, N
    <2> QED BY <1>1, <2>1, ImageIsFinite
<1>5. SumFunctionOnSet(val, S) = SumFunctionOnSet(h, C)
    <2> HIDE DEF N, S, val, cmd
    <2> QED BY <1>1, <1>2, <1>3, <1>4, SumFibres
<1>6. ASSUME NEW c \in C
      PROVE  h[c] = amount[c] /\ h[c] \in Int
    <2>1. PICK j \in N : c = CommandOf(draw, outs, j)
        BY CommandsOfOutputs
    <2> DEFINE F == {k \in N : outs[k].shard = c.shard /\ draw[k] = c.to}
    <2>2. c.shard = outs[j].shard /\ c.to = draw[j] /\ c.type = "ERC20"
            /\ c.value = Fused(draw, outs, c.shard, c.to)
        BY <2>1 DEF CommandOf
    <2>3. Fibre(S, cmd, c) = F
        <3>1. ASSUME NEW k \in N, cmd[k] = c
              PROVE  k \in F
            BY <3>1 DEF CommandOf
        <3>2. ASSUME NEW k \in F
              PROVE  k \in S /\ cmd[k] = c
            <4>1. outs[k].shard = outs[j].shard /\ draw[k] = draw[j]
                    /\ outs[k].type = "ERC20" /\ outs[j].type = "ERC20"
                BY <2>2
            <4>2. CommandOf(draw, outs, k) = CommandOf(draw, outs, j)
                BY <4>1 DEF CommandOf
            <4> QED BY <2>1, <4>2
        <3> QED BY <3>1, <3>2 DEF Fibre
    <2>4. Fused(draw, outs, c.shard, c.to) = SumFunctionOnSet(val, F)
        BY DEF Fused, ValueOf
    <2>5. h[c] = SumFunctionOnSet(val, F)
        BY <2>3
    <2>6. amount[c] = c.value
        BY <2>2 DEF AmountOf, Amount
    <2>7. SumFunctionOnSet(val, F) \in Int
        <3>1. F \subseteq N /\ IsFiniteSet(F)
            BY <1>1, FS_Subset
        <3> HIDE DEF F, val, N
        <3> QED BY <1>2, <3>1, SumType
    <2> HIDE DEF h, amount, F, val
    <2> QED BY <2>2, <2>4, <2>5, <2>6, <2>7
<1>7. SumFunctionOnSet(h, C) = SumFunctionOnSet(amount, C)
    <2> HIDE DEF h, amount
    <2> QED BY <1>4, <1>6, SumCompare
<1> QED
    BY <1>5, <1>7

\* What a shard spends and an address receives, in outputs.
LEMMA BundleSums ==
    ASSUME NEW draw, NEW outs \in Seq(OutputType), \A k \in DOMAIN outs : outs[k].type = "ERC20",
           NEW b, b.commands = Commands(draw, outs), NEW x
    PROVE  /\ Spends(b, x) = SumFunctionOnSet(ValueOf(outs), OutputsFrom(outs, x))
           /\ Receives(b, x) = SumFunctionOnSet(ValueOf(outs), OutputsTo(draw, outs, x))
<1> DEFINE cs == Commands(draw, outs)
           From == {c \in cs : c.shard = x}
           To == {c \in cs : c.to = x}
<1>1. \A k \in DOMAIN outs : /\ CommandOf(draw, outs, k) \in cs
                             /\ CommandOf(draw, outs, k).shard = outs[k].shard
                             /\ CommandOf(draw, outs, k).to = draw[k]
    BY CommandsOfOutputs DEF CommandOf
<1>2. {k \in DOMAIN outs : CommandOf(draw, outs, k) \in From} = {k \in DOMAIN outs : outs[k].shard = x}
    BY <1>1
<1>3. {k \in DOMAIN outs : CommandOf(draw, outs, k) \in To} = {k \in DOMAIN outs : draw[k] = x}
    BY <1>1
<1>4. From \in SUBSET cs /\ To \in SUBSET cs
    OBVIOUS
<1>5. Spends(b, x) = SumFunctionOnSet(AmountOf(cs), From)
        /\ Receives(b, x) = SumFunctionOnSet(AmountOf(cs), To)
    BY DEF Spends, Receives
<1> HIDE DEF From, To
<1>6. SumFunctionOnSet(AmountOf(cs), From)
          = SumFunctionOnSet(ValueOf(outs), {k \in DOMAIN outs : CommandOf(draw, outs, k) \in From})
    BY <1>4, FusingKeepsSums
<1>7. SumFunctionOnSet(AmountOf(cs), To)
          = SumFunctionOnSet(ValueOf(outs), {k \in DOMAIN outs : CommandOf(draw, outs, k) \in To})
    BY <1>4, FusingKeepsSums
<1> QED
    BY <1>2, <1>3, <1>5, <1>6, <1>7 DEF OutputsFrom, OutputsTo

-----------------------------------------------------------------------------
(* A good bundle.                                                          *)

\* Every shard of a bundle spends what the store showed of it, and every
\* command is signed as the router will hash it.
GoodCommands(t, wants, held, b) ==
    /\ IsFiniteSet(b.commands)
    /\ b.shardAddresses = DOMAIN held
    /\ \A c \in b.commands :
          /\ c.shard \in DOMAIN held /\ c.type = wants.type /\ c.value \in Nat
          /\ c.to \in Targets(t, wants.mode, "payment") \cup ChangePool(t)
          /\ c.signature = SignedContent(c, b.announcements)
    /\ \A a \in DOMAIN held : \E c \in b.commands : c.shard = a

\* Of an amount; and of a token.
SpendsHeld(held, b) ==
    \A a \in DOMAIN held : Spends(b, a) = held[a].shown /\ held[a].shown > 0

MovesToken(t, wants, held, b) ==
    /\ \A c \in b.commands :
          /\ c.value = wants.value /\ c.value \in held[c.shard].tokenIds
          /\ c.to \in Targets(t, wants.mode, "payment")
    /\ \A c, d \in b.commands : c = d
    /\ b.commands # {}

\* The recipient gets the amount.
PaysAmount(t, wants, b) ==
    /\ wants.mode = "private" =>
          SumFunctionOnSet([a \in RecipientPool(t) |-> Receives(b, a)], RecipientPool(t)) = wants.value
    /\ wants.mode = "public" => Receives(b, PublicRecipient) = wants.value

\* Every stealth address that is paid is announced once.
GoodAnnouncements(t, wants, b) ==
    /\ IsFiniteSet(b.announcements)
    /\ \A ann \in b.announcements :
          /\ ann.stealthAddress \in RecipientPool(t) \cup ChangePool(t)
          /\ ann.type = wants.type /\ ann.value \in Nat
          /\ \E c \in b.commands : c.to = ann.stealthAddress
    /\ \A x, y \in b.announcements : x.stealthAddress = y.stealthAddress => x = y
    /\ \A c \in b.commands : Stealth(c.to) =>
          \E ann \in b.announcements : ann.stealthAddress = c.to

\* The wallet does not store more change than it pays itself.
GoodChange(t, b) ==
    /\ Len(b.changeShards) \in Nat /\ DOMAIN b.changeShards = 1..Len(b.changeShards)
    /\ \A k \in DOMAIN b.changeShards :
          LET out == b.changeShards[k]
          IN  /\ out.address \in ChangePool(t) /\ out.amount \in Nat
              /\ out.amount <= Receives(b, out.address)

\* All of this.
GoodBundle(t, wants, held, b) ==
    /\ GoodCommands(t, wants, held, b)
    /\ wants.type = "ERC20" => SpendsHeld(held, b) /\ PaysAmount(t, wants, b)
    /\ wants.type = "ERC721" => MovesToken(t, wants, held, b)
    /\ GoodAnnouncements(t, wants, b)
    /\ GoodChange(t, b)

\* An address says what it is and whose.
LEMMA AddressKinds ==
    /\ \A t : \A a \in RecipientPool(t) : a[1] = "recipient" /\ a[2] = t
    /\ \A t : \A a \in ChangePool(t) : a[1] = "change" /\ a[2] = t
    /\ \A t : \A a \in DepositPool(t) : a[1] = "deposit" /\ a[2] = t
    /\ \A n : Shard(n)[1] = "shard" /\ Shard(n)[3] = n
    /\ PublicRecipient[1] = "public" /\ Sender[1] = "sender"
BY DEF RecipientPool, ChangePool, DepositPool, Shard, PublicRecipient, Sender

\* What holds of the outputs and the addresses drawn for them.
Drawn(t, wants, draw, outs) ==
    /\ outs \in Seq(OutputType)
    /\ \A k \in DOMAIN outs : /\ draw[k] \in Targets(t, wants.mode, outs[k].kind)
                              /\ outs[k].type = wants.type

\* Every stealth address that is drawn is announced, with one announcement.
LEMMA AnnouncedOnce ==
    ASSUME NEW t, NEW wants \in RequestType, wants.mode # "deposit", NEW draw, NEW outs,
           Drawn(t, wants, draw, outs), NEW b, b.commands = Commands(draw, outs),
           b.announcements = Announcements(draw, outs)
    PROVE  GoodAnnouncements(t, wants, b)
<1> DEFINE N == DOMAIN outs
           fresh == {j \in N : Stealth(draw[j]) /\ ~alreadyTracked(draw, outs, j)}
           ann(k) == [stealthAddress |-> draw[k], type |-> outs[k].type, value |-> outs[k].value]
<1>1. b.announcements = {ann(k) : k \in fresh}
    BY DEF Announcements
<1>2. N = 1..Len(outs) /\ Len(outs) \in Nat /\ N \subseteq Nat /\ IsFiniteSet(N)
    <2>1. N = 1..Len(outs) /\ Len(outs) \in Nat
        BY DEF Drawn
    <2> QED BY <2>1, Intervals
<1>3. IsFiniteSet(b.announcements)
    <2> DEFINE f == [k \in fresh |-> ann(k)]
    <2>1. \A x \in b.announcements : \E k \in fresh : x = f[k]
        BY <1>1
    <2>2. IsFiniteSet(fresh)
        BY <1>2, FS_Subset
    <2> HIDE DEF f, fresh
    <2> QED BY <2>1, <2>2, ImageIsFinite
<1>4. ASSUME NEW x \in b.announcements
      PROVE  /\ x.stealthAddress \in RecipientPool(t) \cup ChangePool(t)
             /\ x.type = wants.type /\ x.value \in Nat
             /\ \E c \in b.commands : c.to = x.stealthAddress
    <2>1. PICK k \in fresh : x = ann(k)
        BY <1>1
    <2>2. outs[k] \in OutputType /\ outs[k].type = wants.type
            /\ draw[k] \in Targets(t, wants.mode, outs[k].kind)
        BY DEF Drawn
    <2>3. draw[k] \in RecipientPool(t) \cup ChangePool(t)
        <3>1. Stealth(draw[k]) /\ ~Stealth(PublicRecipient)
            BY AddressKinds DEF Stealth, Kind
        <3> QED BY <2>2, <3>1 DEF Targets
    <2>4. CommandOf(draw, outs, k) \in b.commands /\ CommandOf(draw, outs, k).to = draw[k]
        BY CommandsOfOutputs DEF CommandOf
    <2> QED BY <2>1, <2>2, <2>3, <2>4 DEF OutputType
<1>5. ASSUME NEW x \in b.announcements, NEW y \in b.announcements,
             x.stealthAddress = y.stealthAddress
      PROVE  x = y
    <2>1. PICK j \in fresh : x = ann(j)
        BY <1>1
    <2>2. PICK k \in fresh : y = ann(k)
        BY <1>1
    <2>3. draw[j] = draw[k]
        BY <1>5, <2>1, <2>2
    <2>4. ~(j < k) /\ ~(k < j)
        BY <1>2, <2>3 DEF alreadyTracked
    <2>5. j = k
        BY <1>2, <2>4
    <2> QED BY <2>1, <2>2, <2>5
<1>6. ASSUME NEW c \in b.commands, Stealth(c.to)
      PROVE  \E x \in b.announcements : x.stealthAddress = c.to
    <2>1. PICK k \in N : c = CommandOf(draw, outs, k)
        BY CommandsOfOutputs
    <2>2. c.to = draw[k]
        BY <2>1 DEF CommandOf
    <2> DEFINE same == {i \in N : draw[i] = draw[k]}
    <2>3. PICK j \in same : \A i \in same : j <= i
        <3>1. same \subseteq Nat /\ k \in same
            BY <1>2
        <3> HIDE DEF same
        <3> QED BY <3>1, LeastNumber
    <2>4. j \in N /\ draw[j] = draw[k]
        OBVIOUS
    <2>5. ~alreadyTracked(draw, outs, j)
        <3> SUFFICES ASSUME NEW i \in 1..(j - 1), draw[i] = draw[j] PROVE FALSE
            BY DEF alreadyTracked
        <3>1. i \in N /\ i < j
            BY <1>2, <2>4
        <3> QED BY <2>3, <2>4, <3>1, <1>2
    <2>6. j \in fresh
        BY <1>6, <2>2, <2>4, <2>5
    <2>7. ann(j) \in b.announcements
        BY <1>1, <2>6
    <2>8. ann(j).stealthAddress = c.to
        BY <2>2, <2>4
    <2> HIDE DEF ann
    <2> QED BY <2>7, <2>8
<1> QED
    BY <1>3, <1>4, <1>5, <1>6 DEF GoodAnnouncements

\* Every change entry is of an address that is paid at least as much.
LEMMA ChangeIsPaid ==
    ASSUME NEW t, NEW wants \in RequestType, NEW draw, NEW outs, Drawn(t, wants, draw, outs),
           wants.type = "ERC20" \/ \A k \in DOMAIN outs : outs[k].kind = "payment",
           NEW b, b.commands = Commands(draw, outs), b.changeShards = ChangeShards(draw, outs)
    PROVE  GoodChange(t, b)
<1> DEFINE N == DOMAIN outs
           one(k) == [address |-> draw[k], amount |-> outs[k].value]
           ones == [k \in N |-> IF outs[k].kind # "change" THEN <<>> ELSE <<one(k)>>]
           U == {one(k) : k \in N}
           shards == b.changeShards
<1>1. outs \in Seq(OutputType) /\ N = 1..Len(outs) /\ Len(outs) \in Nat /\ IsFiniteSet(N)
    <2>1. outs \in Seq(OutputType)
        BY DEF Drawn
    <2>2. N = 1..Len(outs) /\ Len(outs) \in Nat
        BY <2>1
    <2> QED BY <2>1, <2>2, Intervals
<1>e. \A k \in N : outs[k] \in OutputType /\ outs[k].value \in Nat
    <2>1. \A k \in N : outs[k] \in OutputType
        BY <1>1
    <2> QED BY <2>1 DEF OutputType
<1>2. shards = FlattenSeq(ones)
    BY DEF ChangeShards
<1>3. Len(ones) \in Nat /\ DOMAIN ones = 1..Len(ones) /\ DOMAIN ones = N
    BY <1>1
<1>4. \A k \in N : ones[k] \in Seq(U)
    <2> SUFFICES ASSUME NEW k \in N PROVE ones[k] \in Seq(U)
        OBVIOUS
    <2>1. one(k) \in U
        OBVIOUS
    <2> HIDE DEF one, U
    <2>2. <<one(k)>> \in Seq(U) /\ <<>> \in Seq(U)
        BY <2>1
    <2> QED BY <2>2
<1>5. ASSUME NEW k \in N, NEW j \in DOMAIN ones[k]
      PROVE  outs[k].kind = "change" /\ ones[k][j] = one(k)
    <2> HIDE DEF one
    <2> QED BY <1>5
<1> HIDE DEF ones, U
<1>6. /\ Len(ones) > 0 => shards \in Seq(U)
      /\ Len(ones) = 0 => shards = ones
      /\ Joins(shards, ones, Len(ones))
    BY <1>2, <1>3, <1>4, Flattened
<1>7. Len(shards) \in Nat /\ DOMAIN shards = 1..Len(shards)
    <2>1. CASE Len(ones) > 0
        BY <1>6, <2>1
    <2>2. CASE ~(Len(ones) > 0)
        BY <1>3, <1>6, <2>2
    <2> QED BY <2>1, <2>2
<1>8. ASSUME NEW m \in DOMAIN shards
      PROVE  /\ shards[m].address \in ChangePool(t) /\ shards[m].amount \in Nat
             /\ shards[m].amount <= Receives(b, shards[m].address)
    <2>1. PICK k \in N : \E j \in DOMAIN ones[k] : shards[m] = ones[k][j]
        BY <1>3, <1>6 DEF Joins
    <2>2. outs[k].kind = "change" /\ shards[m] = one(k)
        BY <1>5, <2>1
    <2>3. shards[m].address = draw[k] /\ shards[m].amount = outs[k].value
        BY <2>2
    <2>4. draw[k] \in ChangePool(t) /\ outs[k].value \in Nat
        BY <1>e, <2>2 DEF Drawn, Targets
    <2>5. \A i \in N : outs[i].type = "ERC20"
        BY <2>2 DEF Drawn
    <2> DEFINE P == OutputsTo(draw, outs, draw[k])
    <2>6. Receives(b, draw[k]) = SumFunctionOnSet(ValueOf(outs), P)
        BY <1>1, <2>5, BundleSums
    <2>7. \A i \in N : ValueOf(outs)[i] = outs[i].value /\ outs[i].value \in Nat
        BY <1>e DEF ValueOf
    <2>8. IsFiniteSet(P) /\ k \in P /\ \A i \in P : ValueOf(outs)[i] \in Nat
        BY <1>1, <2>7, FS_Subset DEF OutputsTo
    <2> HIDE DEF P
    <2>9. ValueOf(outs)[k] <= SumFunctionOnSet(ValueOf(outs), P)
        BY <2>8, SumBounds
    <2> QED BY <2>3, <2>4, <2>6, <2>7, <2>9
<1> QED
    BY <1>7, <1>8 DEF GoodChange

\* The commands of a bundle spend what was selected and carry its signatures.
LEMMA CommandsAreSigned ==
    ASSUME NEW t, NEW wants \in RequestType, wants.mode # "deposit", NEW draw, NEW outs,
           Drawn(t, wants, draw, outs), NEW held, NEW b, b.commands = Commands(draw, outs),
           b.announcements = Announcements(draw, outs), b.shardAddresses = DOMAIN held,
           \A k \in DOMAIN outs : outs[k].shard \in DOMAIN held,
           \A a \in DOMAIN held : \E k \in DOMAIN outs : outs[k].shard = a
    PROVE  GoodCommands(t, wants, held, b)
<1> DEFINE N == DOMAIN outs
<1>1. outs \in Seq(OutputType) /\ IsFiniteSet(N)
    <2>1. outs \in Seq(OutputType)
        BY DEF Drawn
    <2> QED BY <2>1, Intervals
<1>2. \A k \in N : outs[k] \in OutputType /\ outs[k].value \in Nat
    <2>1. \A k \in N : outs[k] \in OutputType
        BY <1>1
    <2> QED BY <2>1 DEF OutputType
<1>3. IsFiniteSet(b.commands)
    <2> DEFINE f == [k \in N |-> CommandOf(draw, outs, k)]
    <2>1. \A c \in b.commands : \E k \in N : c = f[k]
        BY CommandsOfOutputs
    <2> HIDE DEF f
    <2> QED BY <1>1, <2>1, ImageIsFinite
<1>4. ASSUME NEW c \in b.commands
      PROVE  /\ c.shard \in DOMAIN held /\ c.type = wants.type /\ c.value \in Nat
             /\ c.to \in Targets(t, wants.mode, "payment") \cup ChangePool(t)
             /\ c.signature = SignedContent(c, b.announcements)
    <2>1. PICK k \in N : c = CommandOf(draw, outs, k)
        BY CommandsOfOutputs
    <2>2. /\ c.shard = outs[k].shard /\ c.to = draw[k] /\ c.type = outs[k].type
          /\ c.value = IF outs[k].type = "ERC721" THEN outs[k].value
                       ELSE Fused(draw, outs, outs[k].shard, draw[k])
          /\ c.signature = SignedContent(c, b.announcements)
        BY <2>1 DEF CommandOf, SignedContent
    <2>3. draw[k] \in Targets(t, wants.mode, outs[k].kind) /\ outs[k].type = wants.type
        BY DEF Drawn
    <2>4. draw[k] \in Targets(t, wants.mode, "payment") \cup ChangePool(t)
        BY <2>3 DEF Targets
    <2>5. Fused(draw, outs, outs[k].shard, draw[k]) \in Nat
        <3> DEFINE P == {j \in DOMAIN outs : outs[j].shard = outs[k].shard /\ draw[j] = draw[k]}
        <3>1. Fused(draw, outs, outs[k].shard, draw[k]) = SumFunctionOnSet(ValueOf(outs), P)
            BY DEF Fused, ValueOf
        <3>2. IsFiniteSet(P) /\ \A j \in P : ValueOf(outs)[j] \in Nat
            BY <1>1, <1>2, FS_Subset DEF ValueOf
        <3> HIDE DEF P
        <3> QED BY <3>1, <3>2, SumType
    <2> QED BY <1>2, <2>2, <2>3, <2>4, <2>5
<1>5. ASSUME NEW a \in DOMAIN held
      PROVE  \E c \in b.commands : c.shard = a
    <2>1. PICK k \in N : outs[k].shard = a
        OBVIOUS
    <2>2. CommandOf(draw, outs, k) \in b.commands /\ CommandOf(draw, outs, k).shard = a
        BY <2>1, CommandsOfOutputs DEF CommandOf
    <2> QED BY <2>2
<1> QED
    BY <1>3, <1>4, <1>5 DEF GoodCommands

\* The recipient is paid the amount of the request.
LEMMA AmountIsPaid ==
    ASSUME NEW t, NEW wants \in RequestType, wants.mode # "deposit", wants.type = "ERC20",
           NEW draw, NEW outs, Drawn(t, wants, draw, outs), NEW b, b.commands = Commands(draw, outs),
           SumFunctionOnSet(ValueOf(outs), Payments(outs)) = wants.value
    PROVE  PaysAmount(t, wants, b)
<1> DEFINE N == DOMAIN outs
           S == Payments(outs)
           val == ValueOf(outs)
<1>1. outs \in Seq(OutputType) /\ IsFiniteSet(N)
    <2>1. outs \in Seq(OutputType)
        BY DEF Drawn
    <2> QED BY <2>1, Intervals
<1>2. \A k \in N : outs[k] \in OutputType
    BY <1>1
<1>3. \A k \in N : val[k] \in Int /\ outs[k].kind \in {"payment", "change"}
    BY <1>2 DEF ValueOf, OutputType
<1>4. IsFiniteSet(S) /\ S \subseteq N
    BY <1>1, FS_Subset DEF Payments
<1>5. \A x : Receives(b, x) = SumFunctionOnSet(val, OutputsTo(draw, outs, x))
    <2> SUFFICES ASSUME NEW x PROVE Receives(b, x) = SumFunctionOnSet(val, OutputsTo(draw, outs, x))
        OBVIOUS
    <2>1. \A k \in N : outs[k].type = "ERC20"
        BY DEF Drawn
    <2> QED BY <1>1, <2>1, BundleSums
<1>6. \A k \in N : IF outs[k].kind = "payment" THEN draw[k] \in Targets(t, wants.mode, "payment")
                   ELSE draw[k] \in ChangePool(t)
    BY <1>3 DEF Drawn, Targets
<1>7. ASSUME wants.mode = "private"
      PROVE  SumFunctionOnSet([a \in RecipientPool(t) |-> Receives(b, a)], RecipientPool(t)) = wants.value
    <2> DEFINE T == RecipientPool(t)
    <2>1. \A k \in S : draw[k] \in T
        BY <1>6, <1>7 DEF Payments, Targets
    <2>2. ASSUME NEW y \in T
          PROVE  OutputsTo(draw, outs, y) = Fibre(S, draw, y)
        <3>1. \A k \in N : draw[k] = y => outs[k].kind = "payment"
            BY <1>6, AddressKinds
        <3> QED BY <3>1 DEF OutputsTo, Fibre, Payments
    <2>3. [a \in T |-> Receives(b, a)] = [y \in T |-> SumFunctionOnSet(val, Fibre(S, draw, y))]
        BY <1>5, <2>2
    <2>4. IsFiniteSet(T)
        BY FinitelyMany
    <2> HIDE DEF S, T, val
    <2>5. SumFunctionOnSet(val, S)
              = SumFunctionOnSet([y \in T |-> SumFunctionOnSet(val, Fibre(S, draw, y))], T)
        BY <1>3, <1>4, <2>1, <2>4, SumFibres
    <2> QED BY <2>3, <2>5 DEF S, T, val
<1>8. ASSUME wants.mode = "public"
      PROVE  Receives(b, PublicRecipient) = wants.value
    <2>1. \A k \in N : outs[k].kind = "payment" <=> draw[k] = PublicRecipient
        BY <1>6, <1>8, AddressKinds DEF Targets
    <2>2. OutputsTo(draw, outs, PublicRecipient) = S
        BY <2>1 DEF OutputsTo, Payments
    <2> QED BY <1>5, <2>2
<1> QED
    BY <1>7, <1>8 DEF PaysAmount

\* Whatever is selected and drawn, the bundle is a good one.
THEOREM PreparedIsGood ==
    ASSUME NEW t, NEW wants \in RequestType, wants.mode # "deposit",
           wants.type = "ERC721" => wants.mode = "private" \/ wants.value > 0,
           NEW store, DOMAIN store \subseteq Own, \A a \in DOMAIN store : store[a] \in EntryType,
           NEW selection \in Selections(store, wants),
           NEW draw \in Draws(t, wants.mode, Outputs(wants, selection)),
           NEW b, b = Prepared(wants, draw, selection),
           NEW held, held = [a \in b.shardAddresses |-> store[a]]
    PROVE  /\ DOMAIN held \subseteq Own /\ \A a \in DOMAIN held : held[a] \in EntryType
           /\ GoodBundle(t, wants, held, b)
<1> DEFINE outs == Outputs(wants, selection)
           N == DOMAIN outs
<1>1. /\ b.commands = Commands(draw, outs) /\ b.announcements = Announcements(draw, outs)
      /\ b.changeShards = ChangeShards(draw, outs)
      /\ b.shardAddresses = {selection[i].shard : i \in DOMAIN selection}
    BY DEF Prepared
<1>2. wants.type \in {"ERC20", "ERC721"}
    BY DEF RequestType
<1>3. /\ GoodSelection(store, wants, selection)
      /\ wants.type = "ERC20" => AddsUp(store, wants, selection)
      /\ wants.type = "ERC721" => IsToken(store, wants, selection)
    <2>1. CASE wants.type = "ERC20"
        <3>1. selection \in Allotments(store, wants)
            BY <2>1 DEF Selections
        <3> QED BY <2>1, <3>1, AllotmentsAreGood
    <2>2. CASE wants.type = "ERC721"
        <3>1. selection \in selectERC721(store, wants)
            BY <2>2 DEF Selections
        <3> QED BY <2>2, <3>1, TokensAreGood
    <2> QED BY <1>2, <2>1, <2>2
<1>4. /\ outs \in Seq(OutputType)
      /\ \A k \in N : /\ outs[k].type = wants.type
                      /\ \E i \in DOMAIN selection : outs[k].shard = selection[i].shard
    BY <1>3, OutputsOfSelection
<1>5. Drawn(t, wants, draw, outs)
    <2>1. \A k \in N : draw[k] \in Targets(t, wants.mode, outs[k].kind)
        BY DEF Draws
    <2> QED BY <1>4, <2>1 DEF Drawn
<1>6. DOMAIN held = b.shardAddresses /\ DOMAIN held \subseteq DOMAIN store
    BY <1>1, <1>3 DEF GoodSelection
<1>7. DOMAIN held \subseteq Own /\ \A a \in DOMAIN held : held[a] = store[a] /\ held[a] \in EntryType
    BY <1>6
<1>8. \A k \in N : outs[k].shard \in DOMAIN held
    BY <1>1, <1>4, <1>6
<1>9. GoodAnnouncements(t, wants, b)
    <2> HIDE DEF outs
    <2> QED BY <1>1, <1>5, AnnouncedOnce
<1>10. CASE wants.type = "ERC20"
    <2>1. ASSUME NEW a \in DOMAIN held
          PROVE  /\ SumFunctionOnSet(ValueOf(outs), OutputsFrom(outs, a)) = held[a].shown
                 /\ held[a].shown > 0
        <3>1. PICK i \in DOMAIN selection : a = selection[i].shard
            BY <1>1, <1>6
        <3> QED BY <1>3, <1>7, <1>10, <3>1, ShardSpendsAll DEF AddsUp
    <2>2. \A k \in N : outs[k].type = "ERC20"
        BY <1>4, <1>10
    <2>3. SumFunctionOnSet(ValueOf(outs), Payments(outs)) = wants.value
        BY <1>3, <1>10, PaymentsAddUp
    <2> HIDE DEF outs
    <2>4. SpendsHeld(held, b)
        <3> SUFFICES ASSUME NEW a \in DOMAIN held
                     PROVE  Spends(b, a) = held[a].shown /\ held[a].shown > 0
            BY DEF SpendsHeld
        <3>1. Spends(b, a) = SumFunctionOnSet(ValueOf(outs), OutputsFrom(outs, a))
            BY <1>1, <1>4, <2>2, BundleSums
        <3> QED BY <2>1, <3>1
    <2>5. ASSUME NEW a \in DOMAIN held
          PROVE  \E k \in N : outs[k].shard = a
        <3>1. CASE OutputsFrom(outs, a) = {}
            <4>1. SumFunctionOnSet(ValueOf(outs), OutputsFrom(outs, a)) = 0
                BY <3>1, SumEmpty
            <4> QED BY <2>1, <4>1
        <3> QED BY <3>1 DEF OutputsFrom
    <2>6. GoodCommands(t, wants, held, b)
        BY <1>1, <1>5, <1>6, <1>8, <2>5, CommandsAreSigned
    <2>7. PaysAmount(t, wants, b)
        BY <1>1, <1>5, <1>10, <2>3, AmountIsPaid
    <2>8. GoodChange(t, b)
        BY <1>1, <1>5, <1>10, ChangeIsPaid
    <2> QED BY <1>7, <1>9, <1>10, <2>4, <2>6, <2>7, <2>8 DEF GoodBundle
<1>11. CASE wants.type = "ERC721"
    <2>1. PICK a \in DOMAIN store :
             /\ wants.value \in store[a].tokenIds
             /\ {selection[i].shard : i \in DOMAIN selection} = {a}
             /\ outs = <<OutputOf(wants, a, "payment", wants.value)>>
        BY <1>3, <1>11, TokenOutput
    <2>2. /\ N = {1} /\ outs[1] = OutputOf(wants, a, "payment", wants.value)
          /\ outs[1].shard = a /\ outs[1].kind = "payment" /\ outs[1].value = wants.value
        BY <2>1 DEF OutputOf
    <2>3. DOMAIN held = {a} /\ wants.value \in held[a].tokenIds
        BY <1>1, <1>6, <1>7, <2>1
    <2> HIDE DEF outs
    <2>4. GoodCommands(t, wants, held, b)
        BY <1>1, <1>5, <1>6, <1>8, <2>2, <2>3, CommandsAreSigned
    <2>5. GoodChange(t, b)
        BY <1>1, <1>5, <2>2, ChangeIsPaid
    <2>6. b.commands = {CommandOf(draw, outs, 1)}
        BY <1>1, <2>2, CommandsOfOutputs
    <2>7. /\ CommandOf(draw, outs, 1).value = wants.value /\ CommandOf(draw, outs, 1).shard = a
          /\ CommandOf(draw, outs, 1).to \in Targets(t, wants.mode, "payment")
        <3>1. CommandOf(draw, outs, 1).value = wants.value
            BY <1>4, <1>11, <2>2 DEF CommandOf
        <3>2. CommandOf(draw, outs, 1).shard = a /\ CommandOf(draw, outs, 1).to = draw[1]
            BY <2>2 DEF CommandOf
        <3>3. draw[1] \in Targets(t, wants.mode, "payment")
            BY <1>5, <2>2 DEF Drawn
        <3> QED BY <3>1, <3>2, <3>3
    <2>8. MovesToken(t, wants, held, b)
        BY <2>3, <2>6, <2>7 DEF MovesToken
    <2> QED BY <1>7, <1>9, <1>11, <2>4, <2>5, <2>8 DEF GoodBundle
<1> QED
    BY <1>2, <1>10, <1>11

-----------------------------------------------------------------------------
(* The store.                                                              *)

\* Adding an entry for every element of a set, in the order of pick.
Adds(store, addr, entry, pick, S, g) ==
    /\ DOMAIN g = SUBSET S
    /\ g = [s \in DOMAIN g |-> g[s]]
    /\ \A s \in SUBSET S :
          g[s] = IF s = {} THEN store
                 ELSE add(g[s \ {pick[s]}], addr[pick[s]], entry[pick[s]])

\* pick chooses an element of each set.
Picks(pick, S) == \A s \in SUBSET S : s # {} => pick[s] \in s

\* The recursion has at most one solution.
LEMMA AddsUnique ==
    ASSUME NEW store, NEW addr, NEW entry, NEW S, IsFiniteSet(S), NEW pick, Picks(pick, S),
           NEW T \in SUBSET S, NEW g, Adds(store, addr, entry, pick, S, g),
           NEW h, Adds(store, addr, entry, pick, T, h), NEW W \in SUBSET T
    PROVE  g[W] = h[W]
<1> DEFINE Good == {U \in SUBSET T : g[U] = h[U]}
<1>1. ASSUME NEW U \in SUBSET W, \A V \in SUBSET U : V # U => V \in Good
      PROVE  U \in Good
    <2>1. /\ g[U] = IF U = {} THEN store ELSE add(g[U \ {pick[U]}], addr[pick[U]], entry[pick[U]])
          /\ h[U] = IF U = {} THEN store ELSE add(h[U \ {pick[U]}], addr[pick[U]], entry[pick[U]])
        BY DEF Adds
    <2>2. U # {} => U \ {pick[U]} \in Good
        BY <1>1 DEF Picks
    <2> QED BY <2>1, <2>2
<1>2. IsFiniteSet(W)
    BY FS_Subset
<1> HIDE DEF Good
<1>3. W \in Good
    BY <1>1, <1>2, StrongSetInduction
<1> QED
    BY <1>3 DEF Good

\* It makes sense for every finite set.
LEMMA AddsExist ==
    ASSUME NEW store, NEW addr, NEW entry, NEW S, IsFiniteSet(S), NEW pick, Picks(pick, S)
    PROVE  \E g : Adds(store, addr, entry, pick, S, g)
<1> DEFINE Has(T, g) == Adds(store, addr, entry, pick, T, g)
           Good == {T \in SUBSET S : \E g : Has(T, g)}
           V(T) == CHOOSE g : Has(T, g)
           step(s, v) == add(v, addr[pick[s]], entry[pick[s]])
<1>1. ASSUME NEW T \in SUBSET S, \A U \in SUBSET T : U # T => U \in Good
      PROVE  T \in Good
    <2> DEFINE h == [s \in SUBSET T |->
                        IF s # T THEN V(s)[s]
                        ELSE IF s = {} THEN store ELSE step(s, V(s \ {pick[s]})[s \ {pick[s]}])]
    <2>1. \A U \in SUBSET T : U # T => Has(U, V(U)) /\ IsFiniteSet(U)
        <3>1. \A U \in SUBSET T : U # T => Has(U, V(U))
            BY <1>1
        <3> QED BY <3>1, FS_Subset
    <2>2. ASSUME NEW U \in SUBSET T, U # T, NEW W \in SUBSET U
          PROVE  V(U)[W] = V(W)[W]
        <3>1. Has(U, V(U)) /\ Has(W, V(W)) /\ IsFiniteSet(U)
            <4> HIDE DEF V, Has
            <4> QED BY <2>1, <2>2
        <3>2. Picks(pick, U)
            BY DEF Picks
        <3> HIDE DEF V
        <3> QED BY <3>1, <3>2, AddsUnique
    <2>3. ASSUME NEW s \in SUBSET T
          PROVE  h[s] = IF s = {} THEN store ELSE step(s, h[s \ {pick[s]}])
        <3> DEFINE r == s \ {pick[s]}
        <3>1. s # {} => r \in SUBSET s /\ r # s
            BY DEF Picks
        <3> HIDE DEF V, r, step
        <3>2. CASE s = T
            BY <3>1, <3>2 DEF r
        <3>3. CASE s # T
            <4>1. V(s)[s] = IF s = {} THEN store ELSE step(s, V(s)[r])
                BY <2>1, <3>3 DEF Adds, r, step
            <4>2. s # {} => V(s)[r] = V(r)[r] /\ r # T /\ r \in SUBSET T
                BY <2>2, <3>1, <3>3
            <4> QED BY <4>1, <4>2, <3>3 DEF r
        <3> QED BY <3>2, <3>3
    <2>4. Has(T, h)
        <3>1. DOMAIN h = SUBSET T /\ h = [s \in DOMAIN h |-> h[s]]
            OBVIOUS
        <3> HIDE DEF h
        <3> QED BY <2>3, <3>1 DEF Adds
    <2> QED BY <2>4
<1>2. S \in Good
    <2> HIDE DEF Good
    <2> QED BY <1>1, StrongSetInduction
<1> QED
    BY <1>2

\* What was there stays; what is new is one of the entries for its address.
Added(store, addr, entry, S, new) ==
    /\ DOMAIN new = DOMAIN store \cup {addr[x] : x \in S}
    /\ \A a \in DOMAIN store : new[a] = store[a]
    /\ \A a \in DOMAIN new \ DOMAIN store : \E x \in S : addr[x] = a /\ new[a] = entry[x]

\* Adding entries keeps what is there.
LEMMA AddsKeep ==
    ASSUME NEW store, NEW addr, NEW entry, NEW S, IsFiniteSet(S), NEW pick, Picks(pick, S),
           NEW g, Adds(store, addr, entry, pick, S, g)
    PROVE  Added(store, addr, entry, S, g[S])
<1> DEFINE Good == {T \in SUBSET S : Added(store, addr, entry, T, g[T])}
<1>1. ASSUME NEW T \in SUBSET S, \A U \in SUBSET T : U # T => U \in Good
      PROVE  T \in Good
    <2>1. g[T] = IF T = {} THEN store ELSE add(g[T \ {pick[T]}], addr[pick[T]], entry[pick[T]])
        BY DEF Adds
    <2>2. CASE T = {}
        BY <2>1, <2>2 DEF Added
    <2>3. CASE T # {}
        <3> DEFINE x == pick[T]
                   U == T \ {x}
                   old == g[U]
                   new == g[T]
        <3>1. x \in T /\ U \in Good /\ T = U \cup {x}
            BY <1>1, <2>3 DEF Picks
        <3>2. new = IF addr[x] \in DOMAIN old THEN old
                    ELSE [a \in DOMAIN old \cup {addr[x]} |-> IF a = addr[x] THEN entry[x] ELSE old[a]]
            BY <2>1, <2>3 DEF add
        <3>3. Added(store, addr, entry, U, old)
            BY <3>1
        <3> HIDE DEF x, U, old, new
        <3>4. Added(store, addr, entry, T, new)
            <4>1. DOMAIN new = DOMAIN old \cup {addr[x]}
                BY <3>2
            <4>2. \A a \in DOMAIN old : new[a] = old[a]
                BY <3>2
            <4>3. DOMAIN new = DOMAIN store \cup {addr[y] : y \in T}
                BY <3>1, <3>3, <4>1 DEF Added
            <4>4. \A a \in DOMAIN store : new[a] = store[a]
                BY <3>3, <4>2 DEF Added
            <4>5. ASSUME NEW a \in DOMAIN new \ DOMAIN store
                  PROVE  \E y \in T : addr[y] = a /\ new[a] = entry[y]
                <5>1. CASE a \in DOMAIN old
                    BY <3>1, <3>3, <4>2, <5>1 DEF Added
                <5>2. CASE a \notin DOMAIN old
                    BY <3>1, <3>2, <5>2
                <5> QED BY <5>1, <5>2
            <4> QED BY <4>3, <4>4, <4>5 DEF Added
        <3> QED BY <3>4 DEF new
    <2> QED BY <2>2, <2>3
<1>2. S \in Good
    <2> HIDE DEF Good
    <2> QED BY <1>1, StrongSetInduction
<1> QED
    BY <1>2

\* The announced shards that a sync adds.
Found(store) == FoldSet(LAMBDA ann, s : add(s, ann.stealthAddress, Entry(ann)), store,
                        {ann \in announced : ann.stealthAddress \in Own})

\* A sync finds every announced shard of the wallet, and keeps the entries it has.
LEMMA FoundAreAdded ==
    ASSUME NEW store, IsFiniteSet(announced)
    PROVE  /\ DOMAIN store \subseteq DOMAIN Found(store)
           /\ \A ann \in announced : ann.stealthAddress \in Own => ann.stealthAddress \in DOMAIN Found(store)
           /\ DOMAIN Found(store) \ DOMAIN store \subseteq Own
           /\ \A a \in DOMAIN store : Found(store)[a] = store[a]
           /\ \A a \in DOMAIN Found(store) \ DOMAIN store :
                 \E ann \in announced : ann.stealthAddress = a /\ Found(store)[a] = Entry(ann)
<1> DEFINE S == {ann \in announced : ann.stealthAddress \in Own}
           addr == [ann \in S |-> ann.stealthAddress]
           entry == [ann \in S |-> Entry(ann)]
           pick == [s \in SUBSET S |-> First(s)]
           step(g, s) == IF s = {} THEN store
                         ELSE add(g[s \ {First(s)}], First(s).stealthAddress, Entry(First(s)))
           Def(g) == g = [s \in SUBSET S |-> step(g, s)]
           it == CHOOSE g : Def(g)
<1>1. IsFiniteSet(S) /\ Picks(pick, S)
    BY FirstIn, FS_Subset DEF Picks
<1>2. PICK g : Adds(store, addr, entry, pick, S, g)
    <2> HIDE DEF S, addr, entry, pick
    <2> QED BY <1>1, AddsExist
<1>3. ASSUME NEW f, NEW s \in SUBSET S
      PROVE  step(f, s) = IF s = {} THEN store ELSE add(f[s \ {pick[s]}], addr[pick[s]], entry[pick[s]])
    <2>1. s # {} => First(s) \in S
        BY FirstIn
    <2>2. s # {} => /\ pick[s] = First(s)
                    /\ addr[First(s)] = First(s).stealthAddress
                    /\ entry[First(s)] = Entry(First(s))
        BY <2>1
    <2> HIDE DEF S, addr, entry, pick
    <2> QED BY <2>2
<1>4. Def(g)
    <2> HIDE DEF S, addr, entry, pick, step
    <2>1. DOMAIN g = SUBSET S /\ g = [s \in DOMAIN g |-> g[s]]
        BY <1>2 DEF Adds
    <2>2. \A s \in SUBSET S : g[s] = step(g, s)
        BY <1>2, <1>3 DEF Adds
    <2> QED BY <2>1, <2>2
<1>5. Def(it)
    <2> HIDE DEF Def
    <2> QED BY <1>4
<1>6. Adds(store, addr, entry, pick, S, it)
    <2> HIDE DEF S, addr, entry, pick, it, step
    <2>1. DOMAIN it = SUBSET S /\ it = [s \in DOMAIN it |-> it[s]]
        BY <1>5
    <2>2. \A s \in SUBSET S : it[s] = step(it, s)
        BY <1>5
    <2> QED BY <1>3, <2>1, <2>2 DEF Adds
<1>7. Added(store, addr, entry, S, it[S])
    <2> HIDE DEF S, addr, entry, pick, it
    <2> QED BY <1>1, <1>6, AddsKeep
<1>8. Found(store) = it[S]
    BY DEF Found, FoldSet, MapThenFoldSet, First
<1>9. \A ann \in S : addr[ann] = ann.stealthAddress /\ entry[ann] = Entry(ann)
    OBVIOUS
<1>10. {addr[ann] : ann \in S} = {ann.stealthAddress : ann \in S}
    BY <1>9
<1>11. \A ann \in S : ann \in announced
    OBVIOUS
<1> HIDE DEF it, addr, entry
<1>12. /\ DOMAIN Found(store) = DOMAIN store \cup {ann.stealthAddress : ann \in S}
       /\ \A a \in DOMAIN store : Found(store)[a] = store[a]
       /\ \A a \in DOMAIN Found(store) \ DOMAIN store :
             \E ann \in S : addr[ann] = a /\ Found(store)[a] = entry[ann]
    <2> HIDE DEF S
    <2> QED BY <1>7, <1>8, <1>10 DEF Added
<1> QED
    BY <1>9, <1>11, <1>12

\* The largest of a set of positions is one of them.
LEMMA MaxIn ==
    ASSUME NEW n \in Nat, NEW s \in SUBSET (1..n), s # {}
    PROVE  Max(s) \in s
<1> DEFINE gaps == {n - x : x \in s}
<1>1. PICK x \in s : TRUE
    OBVIOUS
<1>2. gaps \subseteq Nat /\ n - x \in gaps
    OBVIOUS
<1>3. PICK k \in gaps : \A j \in gaps : k <= j
    <2> HIDE DEF gaps
    <2> QED BY <1>2, LeastNumber
<1>4. PICK y \in s : k = n - y
    OBVIOUS
<1>5. \A z \in s : y >= z
    <2> SUFFICES ASSUME NEW z \in s PROVE y >= z
        OBVIOUS
    <2>1. n - z \in gaps
        OBVIOUS
    <2>2. k <= n - z
        BY <1>3, <2>1
    <2>3. y \in Int /\ z \in Int
        OBVIOUS
    <2> HIDE DEF gaps
    <2> QED BY <1>4, <2>2, <2>3
<1> QED
    BY <1>5 DEF Max

\* A prepared transfer adds its change.
LEMMA ChangeIsAdded ==
    ASSUME NEW store, NEW t, NEW out, out = bundle[t].changeShards,
           Len(out) \in Nat, DOMAIN out = 1..Len(out)
    PROVE  /\ DOMAIN store \subseteq DOMAIN WithChange(store, t)
           /\ \A a \in DOMAIN store : WithChange(store, t)[a] = store[a]
           /\ \A a \in DOMAIN WithChange(store, t) \ DOMAIN store :
                 \E k \in DOMAIN out : /\ out[k].address = a
                                       /\ WithChange(store, t)[a] = Change(out[k].amount)
<1> DEFINE S == DOMAIN out
           addr == [k \in S |-> out[k].address]
           entry == [k \in S |-> Change(out[k].amount)]
           pick == [s \in SUBSET S |-> Max(s)]
           step(g, s) == IF s = {} THEN store
                         ELSE add(g[s \ {Max(s)}], out[Max(s)].address, Change(out[Max(s)].amount))
           Def(g) == g = [s \in SUBSET S |-> step(g, s)]
           it == CHOOSE g : Def(g)
<1>0. \A s \in SUBSET S : s # {} => Max(s) \in s
    BY MaxIn
<1>1. IsFiniteSet(S) /\ Picks(pick, S)
    BY <1>0, Intervals DEF Picks
<1>2. PICK g : Adds(store, addr, entry, pick, S, g)
    <2> HIDE DEF S, addr, entry, pick
    <2> QED BY <1>1, AddsExist
<1>3. ASSUME NEW f, NEW s \in SUBSET S
      PROVE  step(f, s) = IF s = {} THEN store ELSE add(f[s \ {pick[s]}], addr[pick[s]], entry[pick[s]])
    <2>1. s # {} => Max(s) \in S
        BY <1>0
    <2>2. s # {} => /\ pick[s] = Max(s)
                    /\ addr[Max(s)] = out[Max(s)].address
                    /\ entry[Max(s)] = Change(out[Max(s)].amount)
        BY <2>1
    <2> HIDE DEF S, addr, entry, pick
    <2> QED BY <2>2
<1>4. Def(g)
    <2> HIDE DEF S, addr, entry, pick, step
    <2>1. DOMAIN g = SUBSET S /\ g = [s \in DOMAIN g |-> g[s]]
        BY <1>2 DEF Adds
    <2>2. \A s \in SUBSET S : g[s] = step(g, s)
        BY <1>2, <1>3 DEF Adds
    <2> QED BY <2>1, <2>2
<1>5. Def(it)
    <2> HIDE DEF Def
    <2> QED BY <1>4
<1>6. Adds(store, addr, entry, pick, S, it)
    <2> HIDE DEF S, addr, entry, pick, it, step
    <2>1. DOMAIN it = SUBSET S /\ it = [s \in DOMAIN it |-> it[s]]
        BY <1>5
    <2>2. \A s \in SUBSET S : it[s] = step(it, s)
        BY <1>5
    <2> QED BY <1>3, <2>1, <2>2 DEF Adds
<1>7. Added(store, addr, entry, S, it[S])
    <2> HIDE DEF S, addr, entry, pick, it
    <2> QED BY <1>1, <1>6, AddsKeep
<1>8. WithChange(store, t) = it[S]
    BY DEF WithChange, FoldLeft, MapThenFoldSet
<1>9. \A k \in S : addr[k] = out[k].address /\ entry[k] = Change(out[k].amount)
    OBVIOUS
<1>10. {addr[k] : k \in S} = {out[k].address : k \in S}
    BY <1>9
<1> HIDE DEF it, addr, entry
<1>12. /\ DOMAIN WithChange(store, t) = DOMAIN store \cup {out[k].address : k \in S}
       /\ \A a \in DOMAIN store : WithChange(store, t)[a] = store[a]
       /\ \A a \in DOMAIN WithChange(store, t) \ DOMAIN store :
             \E k \in S : addr[k] = a /\ WithChange(store, t)[a] = entry[k]
    <2>1. Added(store, addr, entry, S, WithChange(store, t))
        BY <1>7, <1>8
    <2> HIDE DEF S
    <2>2. DOMAIN WithChange(store, t) = DOMAIN store \cup {addr[k] : k \in S}
        BY <2>1 DEF Added
    <2> QED BY <2>1, <2>2, <1>10 DEF Added
<1> QED
    BY <1>9, <1>12

-----------------------------------------------------------------------------
(* The invariant.                                                          *)

\* A call of a deposit.
Call == [is : {"transfer", "announce"}, to : Addresses, type : {"ERC20", "ERC721"}, value : Nat]

\* The transfer has a bundle.
Built(t) == phase[t] \notin {"new", "depositing", "deposited"}

\* What the model's records are.
Shape ==
    /\ DOMAIN inputs = Transfers /\ DOMAIN bundle = Transfers /\ DOMAIN calls = Transfers
    /\ IsFiniteSet(announced)
    /\ \A ann \in announced : ann.type \in {"ERC20", "ERC721"}

\* Who has a bundle, and that it is a good one.
Bundles ==
    \A t \in Transfers :
        /\ Built(t) => /\ request[t].mode # "deposit"
                       /\ DOMAIN inputs[t] \subseteq Own
                       /\ \A a \in DOMAIN inputs[t] : inputs[t][a] \in EntryType
                       /\ GoodBundle(t, request[t], inputs[t], bundle[t])
        /\ ~Built(t) => bundle[t] = NoBundle
        /\ phase[t] \in {"depositing", "deposited"} => request[t].mode = "deposit"

\* Each transaction is sent once.
Queue ==
    /\ relayed \in Seq(Transfers)
    /\ \A i \in DOMAIN relayed : phase[relayed[i]] = "sent"
    /\ \A i, j \in DOMAIN relayed : relayed[i] = relayed[j] => i = j

\* What is said of an address, and the tokens it holds.
AnnouncedAt(a) == {ann \in announced : ann.stealthAddress = a}

TokensAt(a) == {id \in Tokens : ownerOf[id] = a}

Untouched(a) == balance[a] = 0 /\ TokensAt(a) = {} /\ AnnouncedAt(a) = {}

\* Nothing reaches the addresses of a transfer before it succeeds, and then they
\* hold what its bundle pays them, and are announced as the bundle says.
OwnPools ==
    \A t \in Transfers : \A a \in RecipientPool(t) \cup ChangePool(t) :
        /\ ~Succeeded(t) => Untouched(a) /\ a \notin isShardSpent
        /\ Succeeded(t) =>
              /\ AnnouncedAt(a) = {ann \in bundle[t].announcements : ann.stealthAddress = a}
              /\ a \notin isShardSpent => balance[a] = Receives(bundle[t], a)
        /\ Holds(a) => AnnouncedAt(a) # {}

\* What is said of a shard of the wallet is said once, and covers its tokens.
AnnouncementsKept ==
    /\ \A a \in Own : \A x, y \in AnnouncedAt(a) : x = y
    /\ \A a \in Own : \A ann \in AnnouncedAt(a) : TokensAt(a) \subseteq Ids(ann) /\ Ids(ann) \subseteq Tokens

\* The call for a deposited token.
DepositOf(t, is) == [is |-> is, to |-> <<"deposit", t, 1>>, type |-> request[t].type,
                     value |-> request[t].value]

\* Call k announces a.
Announces(t, k, a) == calls[t][k].is = "announce" /\ calls[t][k].to = a

\* What the calls still to be made pay.
Outstanding(t) ==
    SumFunction([k \in DOMAIN calls[t] |->
                    IF calls[t][k].is = "transfer" THEN calls[t][k].value ELSE 0])

\* Every address of a deposit is announced once, now or by a call to come.
DepositAnnounced(t) ==
    /\ calls[t] \in Seq(Call)
    /\ \A k \in DOMAIN calls[t] : /\ calls[t][k].to \in DepositPool(t)
                                  /\ calls[t][k].type = request[t].type
    /\ phase[t] # "depositing" => calls[t] = <<>>
    /\ phase[t] = "new" => \A a \in DepositPool(t) : Untouched(a)
    /\ \A a \in DepositPool(t) :
          /\ TokensAt(a) \subseteq Ids(request[t])
          /\ \A k \in DOMAIN calls[t] : Announces(t, k, a) =>
                /\ AnnouncedAt(a) = {}
                /\ \A j \in DOMAIN calls[t] : Announces(t, j, a) => j = k
          /\ Holds(a) \/ (\E k \in DOMAIN calls[t] : calls[t][k].to = a) =>
                AnnouncedAt(a) # {} \/ \E k \in DOMAIN calls[t] : Announces(t, k, a)

DepositsAnnounced == \A t \in Transfers : DepositAnnounced(t)

\* A deposit none of which is spent yet.
Depositing(t) ==
    phase[t] \in {"depositing", "deposited"} /\ DepositPool(t) \cap isShardSpent = {}

\* What has arrived and what is to come add up to the amount, as long as none of
\* it is spent; a token comes before its announcement.
DepositArrives(t) ==
    /\ request[t].type = "ERC20" /\ Depositing(t) =>
          SumFunctionOnSet(balance, DepositPool(t)) + Outstanding(t) = request[t].value
    /\ request[t].type = "ERC721" /\ phase[t] = "depositing" =>
          calls[t] \in {<<DepositOf(t, "transfer"), DepositOf(t, "announce")>>,
                        <<DepositOf(t, "announce")>>}
    /\ request[t].type = "ERC721" /\ Depositing(t)
          /\ calls[t] # <<DepositOf(t, "transfer"), DepositOf(t, "announce")>> =>
          ownerOf[request[t].value] \in DepositPool(t)

DepositsArrive == \A t \in Transfers : DepositArrives(t)

\* What the store shows, and what it cannot know yet.
StoreKept ==
    /\ \A a \in DOMAIN shardStore : TokensAt(a) \subseteq shardStore[a].tokenIds
    /\ \A t \in Transfers :
          /\ \A a \in DepositPool(t) \cap DOMAIN shardStore : AnnouncedAt(a) # {}
          /\ \A a \in ChangePool(t) \cap DOMAIN shardStore :
                Built(t) /\ shardStore[a].shown <= Receives(bundle[t], a)

\* A delivered token stays with the recipient.
TokensDelivered ==
    \A t \in Transfers : Succeeded(t) /\ request[t].type = "ERC721" =>
        ownerOf[Value(t)] \in Targets(t, request[t].mode, "payment")

\* The public recipient has what the transfers that succeeded pay him.
PublicPaid ==
    balance[PublicRecipient] =
        SumFunctionOnSet([t \in Transfers |-> Value(t)],
                         {t \in Transfers : Asks(t, "public", "ERC20") /\ Succeeded(t)})

\* The inductive invariant.
IInv ==
    /\ TypeOK /\ Shape /\ Bundles /\ Queue /\ OwnPools /\ AnnouncementsKept
    /\ DepositsAnnounced /\ DepositsArrive /\ StoreKept /\ TokensDelivered /\ PublicPaid

-----------------------------------------------------------------------------
(* Requests, addresses and the sums of a bundle.                           *)

\* What can be asked for.
LEMMA RequestsTyped ==
    /\ Requests \subseteq [Transfers -> RequestType]
    /\ IsFiniteSet(Transfers)
    /\ \A wants \in Requests : \A t \in Transfers :
          /\ wants[t] \in RequestType
          /\ wants[t].mode \in {"public", "private", "deposit"}
          /\ wants[t].type \in {"ERC20", "ERC721"} /\ wants[t].value \in Nat
          /\ wants[t].type = "ERC721" =>
                /\ wants[t].value \in Tokens
                /\ wants[t].mode # "deposit" => wants[t].mode = "private" \/ wants[t].value > 0
<1>1. Requests \subseteq [Transfers -> RequestType] /\ IsFiniteSet(Transfers)
    BY TransfersAssumption DEF RequestType
<1>2. ASSUME NEW wants \in Requests, NEW t \in Transfers
      PROVE  /\ wants[t] \in RequestType
             /\ wants[t].mode \in {"public", "private", "deposit"}
             /\ wants[t].type \in {"ERC20", "ERC721"} /\ wants[t].value \in Nat
    <2>1. wants[t] \in RequestType
        BY <1>1
    <2> QED BY <2>1 DEF RequestType
<1> QED
    BY <1>1, <1>2, TokensAssumption

\* The addresses of one transfer are nobody else's.
LEMMA Apart ==
    /\ Own \subseteq Addresses /\ PublicRecipient \in Addresses
    /\ Sender \notin Addresses /\ PublicRecipient \notin Own
    /\ \A t \in Transfers :
          /\ ChangePool(t) \subseteq Own /\ DepositPool(t) \subseteq Own
          /\ RecipientPool(t) \subseteq Addresses /\ RecipientPool(t) \cap Own = {}
          /\ \A a \in RecipientPool(t) \cup ChangePool(t) : /\ a \notin DepositPool(t)
                                                            /\ a # PublicRecipient
                                                            /\ Stealth(a)
          /\ PublicRecipient \notin DepositPool(t)
          /\ \A s \in Transfers : s # t =>
                /\ (RecipientPool(t) \cup ChangePool(t)) \cap (RecipientPool(s) \cup ChangePool(s)) = {}
                /\ DepositPool(t) \cap DepositPool(s) = {}
          /\ \A s \in Transfers : (RecipientPool(t) \cup ChangePool(t)) \cap DepositPool(s) = {}
<1> USE AddressKinds
<1>1. \A a \in Own : a[1] \in {"shard", "change", "deposit"}
    BY DEF Own
<1>2. \A a \in Addresses : a[1] # "sender"
    BY <1>1 DEF Addresses
<1>3. \A t \in Transfers : ChangePool(t) \subseteq Own /\ DepositPool(t) \subseteq Own
    BY DEF Own
<1>4. /\ Own \subseteq Addresses /\ PublicRecipient \in Addresses
      /\ \A t \in Transfers : RecipientPool(t) \subseteq Addresses
    BY DEF Addresses
<1>5. /\ Sender \notin Addresses /\ PublicRecipient \notin Own
      /\ \A t \in Transfers : RecipientPool(t) \cap Own = {}
    BY <1>1, <1>2
<1>6. ASSUME NEW t \in Transfers
      PROVE  /\ \A a \in RecipientPool(t) \cup ChangePool(t) : /\ a \notin DepositPool(t)
                                                               /\ a # PublicRecipient
                                                               /\ Stealth(a)
             /\ PublicRecipient \notin DepositPool(t)
    BY DEF Stealth, Kind
<1>7. ASSUME NEW t \in Transfers, NEW s \in Transfers
      PROVE  /\ s # t => /\ (RecipientPool(t) \cup ChangePool(t)) \cap (RecipientPool(s) \cup ChangePool(s)) = {}
                         /\ DepositPool(t) \cap DepositPool(s) = {}
             /\ (RecipientPool(t) \cup ChangePool(t)) \cap DepositPool(s) = {}
    BY <1>6
<1> QED
    BY <1>3, <1>4, <1>5, <1>6, <1>7

\* What a bundle moves.
LEMMA BundleMoves ==
    ASSUME NEW t, NEW wants \in RequestType, NEW held, NEW b, GoodCommands(t, wants, held, b), NEW x
    PROVE  /\ Spends(b, x) \in Nat /\ Receives(b, x) \in Nat
           /\ x \notin b.shardAddresses => Spends(b, x) = 0
           /\ (\A c \in b.commands : c.to # x) => Receives(b, x) = 0
           /\ wants.type = "ERC721" => Spends(b, x) = 0 /\ Receives(b, x) = 0
<1> DEFINE From == {c \in b.commands : c.shard = x}
           To == {c \in b.commands : c.to = x}
           amount == AmountOf(b.commands)
<1>1. IsFiniteSet(From) /\ IsFiniteSet(To)
    BY FS_Subset DEF GoodCommands
<1>2. \A c \in b.commands : /\ amount[c] \in Nat
                            /\ wants.type = "ERC721" => amount[c] = 0
    BY DEF GoodCommands, AmountOf, Amount
<1>3. Spends(b, x) = SumFunctionOnSet(amount, From) /\ Receives(b, x) = SumFunctionOnSet(amount, To)
    BY DEF Spends, Receives
<1>4. From \subseteq b.commands /\ To \subseteq b.commands
    OBVIOUS
<1>5. x \notin b.shardAddresses => From = {}
    BY DEF GoodCommands
<1>6. (\A c \in b.commands : c.to # x) => To = {}
    OBVIOUS
<1> HIDE DEF From, To, amount
<1>7. SumFunctionOnSet(amount, From) \in Nat /\ SumFunctionOnSet(amount, To) \in Nat
    BY <1>1, <1>2, <1>4, SumType
<1>8. wants.type = "ERC721" =>
          SumFunctionOnSet(amount, From) = 0 /\ SumFunctionOnSet(amount, To) = 0
    BY <1>1, <1>2, <1>4, SumZero
<1>9. SumFunctionOnSet(amount, {}) = 0
    BY SumEmpty
<1> QED
    BY <1>3, <1>5, <1>6, <1>7, <1>8, <1>9

\* What the invariant says of a built transfer.
LEMMA BuiltFacts ==
    ASSUME IInv, NEW t \in Transfers, Built(t)
    PROVE  /\ request[t] \in RequestType /\ request[t].mode \in {"public", "private"}
           /\ request[t].type \in {"ERC20", "ERC721"}
           /\ \A a \in DOMAIN inputs[t] : a \in Own /\ inputs[t][a] \in EntryType
           /\ GoodCommands(t, request[t], inputs[t], bundle[t])
           /\ request[t].type = "ERC20" => /\ SpendsHeld(inputs[t], bundle[t])
                                           /\ PaysAmount(t, request[t], bundle[t])
           /\ request[t].type = "ERC721" => MovesToken(t, request[t], inputs[t], bundle[t])
           /\ GoodAnnouncements(t, request[t], bundle[t])
           /\ GoodChange(t, bundle[t])
<1>1. GoodBundle(t, request[t], inputs[t], bundle[t]) /\ request[t].mode # "deposit"
          /\ \A a \in DOMAIN inputs[t] : a \in Own /\ inputs[t][a] \in EntryType
    BY DEF IInv, Bundles
<1>2. request \in Requests
    BY DEF IInv, TypeOK
<1>3. /\ request[t] \in RequestType /\ request[t].mode \in {"public", "private", "deposit"}
      /\ request[t].type \in {"ERC20", "ERC721"}
    BY <1>2, RequestsTyped
<1> QED
    BY <1>1, <1>3 DEF GoodBundle

\* A command that moves a token moves one that its shard showed.
LEMMA CommandIds ==
    ASSUME IInv, NEW t \in Transfers, Built(t), NEW c \in bundle[t].commands
    PROVE  /\ c.shard \in bundle[t].shardAddresses /\ c.shard \in Own
           /\ c.to \in Addresses /\ Ids(c) \subseteq Tokens
           /\ c.to \in Targets(t, request[t].mode, "payment") \cup ChangePool(t)
           /\ request[t].type = "ERC20" => Ids(c) = {}
           /\ request[t].type = "ERC721" => /\ Ids(c) = {request[t].value}
                                            /\ c.to \in Targets(t, request[t].mode, "payment")
<1>1. /\ c.shard \in DOMAIN inputs[t] /\ c.type = request[t].type
      /\ c.to \in Targets(t, request[t].mode, "payment") \cup ChangePool(t)
      /\ bundle[t].shardAddresses = DOMAIN inputs[t]
    BY BuiltFacts DEF GoodCommands
<1>2. c.shard \in Own /\ inputs[t][c.shard].tokenIds \subseteq Tokens
    BY <1>1, BuiltFacts DEF EntryType
<1>3. c.to \in Addresses
    BY <1>1, Apart DEF Targets
<1>4. request[t].type = "ERC20" => Ids(c) = {}
    BY <1>1 DEF Ids
<1>5. request[t].type = "ERC721" =>
          /\ Ids(c) = {request[t].value} /\ c.to \in Targets(t, request[t].mode, "payment")
          /\ Ids(c) \subseteq Tokens
    BY <1>1, <1>2, BuiltFacts DEF MovesToken, Ids
<1>6. request[t].type \in {"ERC20", "ERC721"}
    BY BuiltFacts
<1> QED
    BY <1>1, <1>2, <1>3, <1>4, <1>5, <1>6

\* A transfer that executes spends nothing of the addresses of one that did not.
LEMMA SpendsWhatIsThere ==
    ASSUME IInv, NEW t \in Transfers, Built(t), MeshSucceeds(bundle[t]),
           NEW a \in bundle[t].shardAddresses
    PROVE  ~Untouched(a)
<1>1. a \in DOMAIN inputs[t] /\ \E c \in bundle[t].commands : c.shard = a
    BY BuiltFacts DEF GoodCommands
<1>2. balance[a] >= Spends(bundle[t], a)
    BY DEF MeshSucceeds, Funded
<1>3. CASE request[t].type = "ERC20"
    <2>1. Spends(bundle[t], a) = inputs[t][a].shown /\ inputs[t][a].shown > 0
        BY <1>1, <1>3, BuiltFacts DEF SpendsHeld
    <2>2. inputs[t][a].shown \in Nat
        BY <1>1, BuiltFacts DEF EntryType
    <2> QED BY <1>2, <2>1, <2>2 DEF Untouched
<1>4. CASE request[t].type = "ERC721"
    <2>1. PICK c \in bundle[t].commands : c.shard = a
        BY <1>1
    <2>2. Ids(c) = {request[t].value} /\ request[t].value \in Tokens
        BY <1>4, CommandIds
    <2>3. ownerOf[request[t].value] = a
        BY <2>1, <2>2 DEF MeshSucceeds, Funded
    <2> QED BY <2>2, <2>3 DEF Untouched, TokensAt
<1> QED
    BY <1>3, <1>4, BuiltFacts

\* What is mined.
LEMMA Executed ==
    ASSUME IInv, NEW t \in Transfers, Built(t), MeshSucceeds(bundle[t]), MeshExecuted(t)
    PROVE  /\ \A a \in Addresses :
                 /\ balance'[a] = balance[a] + Receives(bundle[t], a) - Spends(bundle[t], a)
                 /\ balance'[a] \in Nat /\ balance[a] \in Nat /\ Receives(bundle[t], a) \in Nat
                 /\ a \notin bundle[t].shardAddresses =>
                       balance'[a] = balance[a] + Receives(bundle[t], a)
           /\ isShardSpent' = isShardSpent \cup bundle[t].shardAddresses
           /\ announced' = announced \cup bundle[t].announcements
           /\ \A id \in Tokens :
                 \/ ownerOf'[id] = ownerOf[id] /\ \A c \in bundle[t].commands : id \notin Ids(c)
                 \/ \E c \in bundle[t].commands : /\ id \in Ids(c) /\ ownerOf'[id] = c.to
                                                  /\ ownerOf[id] = c.shard
           /\ balance' \in [Addresses -> Nat] /\ ownerOf' \in [Tokens -> Addresses \cup {Sender}]
<1> DEFINE b == bundle[t]
<1>1. balance \in [Addresses -> Nat] /\ ownerOf \in [Tokens -> Addresses \cup {Sender}]
    BY DEF IInv, TypeOK
<1>2. GoodCommands(t, request[t], inputs[t], b) /\ request[t] \in RequestType
    BY BuiltFacts
<1>3. \A a : /\ Spends(b, a) \in Nat /\ Receives(b, a) \in Nat
             /\ a \notin b.shardAddresses => Spends(b, a) = 0
    BY <1>2, BundleMoves
<1>4. \A a \in b.shardAddresses : balance[a] >= Spends(b, a)
    BY DEF MeshSucceeds, Funded
<1>5. balance' = [a \in Addresses |-> balance[a] + Receives(b, a) - Spends(b, a)]
    BY DEF MeshExecuted
<1>6. ASSUME NEW a \in Addresses
      PROVE  /\ balance'[a] = balance[a] + Receives(b, a) - Spends(b, a)
             /\ balance'[a] \in Nat /\ balance[a] \in Nat /\ Receives(b, a) \in Nat
             /\ a \notin b.shardAddresses => balance'[a] = balance[a] + Receives(b, a)
    <2>1. balance'[a] = balance[a] + Receives(b, a) - Spends(b, a) /\ balance[a] \in Nat
        BY <1>1, <1>5
    <2>2. Spends(b, a) <= balance[a]
        BY <1>3, <1>4, <2>1
    <2> HIDE DEF b
    <2> QED BY <1>3, <2>1, <2>2
<1>7. isShardSpent' = isShardSpent \cup b.shardAddresses
    <2>1. {c.shard : c \in b.commands} = b.shardAddresses
        BY <1>2 DEF GoodCommands
    <2> QED BY <2>1 DEF MeshExecuted
<1>8. ASSUME NEW id \in Tokens
      PROVE  /\ \/ ownerOf'[id] = ownerOf[id] /\ \A c \in b.commands : id \notin Ids(c)
                \/ \E c \in b.commands : /\ id \in Ids(c) /\ ownerOf'[id] = c.to
                                         /\ ownerOf[id] = c.shard
             /\ ownerOf'[id] \in Addresses \cup {Sender}
    <2>1. ownerOf'[id] = IF \E c \in b.commands : id \in Ids(c)
                         THEN (CHOOSE c \in b.commands : id \in Ids(c)).to ELSE ownerOf[id]
        BY DEF MeshExecuted
    <2>2. CASE \E c \in b.commands : id \in Ids(c)
        <3> DEFINE d == CHOOSE c \in b.commands : id \in Ids(c)
        <3>1. d \in b.commands /\ id \in Ids(d)
            BY <2>2
        <3>2. ownerOf'[id] = d.to
            BY <2>1, <2>2
        <3> HIDE DEF d
        <3>3. ownerOf[id] = d.shard
            BY <3>1 DEF MeshSucceeds, Funded
        <3>4. d.to \in Addresses
            BY <3>1, CommandIds
        <3> QED BY <3>1, <3>2, <3>3, <3>4
    <2>3. CASE ~(\E c \in b.commands : id \in Ids(c))
        BY <1>1, <2>1, <2>3
    <2> QED BY <2>2, <2>3
<1>9. announced' = announced \cup b.announcements
    BY DEF MeshExecuted
<1>10. balance' \in [Addresses -> Nat]
    <2> HIDE DEF b
    <2> QED BY <1>5, <1>6
<1>11. ownerOf' \in [Tokens -> Addresses \cup {Sender}]
    <2>1. ownerOf' = [id \in Tokens |-> ownerOf'[id]]
        BY DEF MeshExecuted
    <2> HIDE DEF b
    <2> QED BY <1>8, <2>1
<1> HIDE DEF b
<1>12. /\ \A a \in Addresses :
             /\ balance'[a] = balance[a] + Receives(b, a) - Spends(b, a)
             /\ balance'[a] \in Nat /\ balance[a] \in Nat /\ Receives(b, a) \in Nat
             /\ a \notin b.shardAddresses => balance'[a] = balance[a] + Receives(b, a)
       /\ \A id \in Tokens :
             \/ ownerOf'[id] = ownerOf[id] /\ \A c \in b.commands : id \notin Ids(c)
             \/ \E c \in b.commands : /\ id \in Ids(c) /\ ownerOf'[id] = c.to /\ ownerOf[id] = c.shard
    BY <1>6, <1>8
<1> QED
    BY <1>7, <1>9, <1>10, <1>11, <1>12 DEF b

-----------------------------------------------------------------------------
(* What a step leaves alone.                                               *)

\* The chain is as it was, and nobody succeeds.
LEMMA ChainKept ==
    ASSUME IInv, UNCHANGED <<request, chain>>,
           \A t \in Transfers : /\ Succeeded(t)' <=> Succeeded(t)
                                /\ Succeeded(t) => bundle'[t] = bundle[t]
    PROVE  OwnPools' /\ AnnouncementsKept' /\ TokensDelivered' /\ PublicPaid'
<1> USE DEF chain
<1>1. OwnPools'
    <2>1. OwnPools
        BY DEF IInv
    <2> QED BY <2>1 DEF OwnPools, Untouched, AnnouncedAt, TokensAt, Holds
<1>2. AnnouncementsKept'
    BY DEF IInv, AnnouncementsKept, AnnouncedAt, TokensAt
<1>3. TokensDelivered'
    BY DEF IInv, TokensDelivered, Value
<1>4. PublicPaid'
    <2>1. {t \in Transfers : Asks(t, "public", "ERC20") /\ Succeeded(t)}'
              = {t \in Transfers : Asks(t, "public", "ERC20") /\ Succeeded(t)}
        BY DEF Asks
    <2>2. [t \in Transfers |-> Value(t)]' = [t \in Transfers |-> Value(t)]
        BY DEF Value
    <2> QED BY <2>1, <2>2 DEF IInv, PublicPaid
<1> QED
    BY <1>1, <1>2, <1>3, <1>4

\* Neither the chain nor a deposit moves.
LEMMA DepositsKept ==
    ASSUME IInv, UNCHANGED <<request, chain, calls>>,
           \A t \in Transfers : /\ phase'[t] = "depositing" <=> phase[t] = "depositing"
                                /\ phase'[t] = "deposited" <=> phase[t] = "deposited"
                                /\ phase'[t] = "new" => phase[t] = "new"
    PROVE  DepositsAnnounced' /\ DepositsArrive'
<1> USE DEF chain
<1>1. DepositsAnnounced'
    <2>1. DepositsAnnounced
        BY DEF IInv
    <2> QED BY <2>1 DEF DepositsAnnounced, DepositAnnounced, Untouched, AnnouncedAt, TokensAt, Holds, Announces
<1>2. DepositsArrive'
    <2>1. DepositsArrive
        BY DEF IInv
    <2>2. \A t : Outstanding(t)' = Outstanding(t)
        BY DEF Outstanding
    <2>3. \A t : \A is : DepositOf(t, is)' = DepositOf(t, is)
        BY DEF DepositOf
    <2>4. \A t \in Transfers : Depositing(t)' <=> Depositing(t)
        BY DEF Depositing
    <2> QED BY <2>1, <2>2, <2>3, <2>4 DEF DepositsArrive, DepositArrives
<1> QED
    BY <1>1, <1>2

\* The store is as it was.
LEMMA StoreUnchanged ==
    ASSUME IInv, UNCHANGED <<chain, shardStore>>,
           \A t \in Transfers : Built(t) => Built(t)' /\ bundle'[t] = bundle[t]
    PROVE  StoreKept'
<1> USE DEF chain
<1>1. StoreKept
    BY DEF IInv
<1> QED
    BY <1>1 DEF StoreKept, TokensAt, AnnouncedAt

\* Nothing is built.
LEMMA BundlesUnchanged ==
    ASSUME IInv, UNCHANGED wallet,
           \A t \in Transfers : /\ Built(t)' <=> Built(t)
                                /\ phase'[t] \in {"depositing", "deposited"} =>
                                      phase[t] \in {"depositing", "deposited"}
    PROVE  Bundles'
<1> USE DEF wallet
<1>1. Bundles
    BY DEF IInv
<1>2. ASSUME NEW t \in Transfers
      PROVE  /\ Built(t)' => /\ request'[t].mode # "deposit"
                             /\ DOMAIN inputs'[t] \subseteq Own
                             /\ \A a \in DOMAIN inputs'[t] : inputs'[t][a] \in EntryType
                             /\ GoodBundle(t, request'[t], inputs'[t], bundle'[t])
             /\ ~Built(t)' => bundle'[t] = NoBundle
             /\ phase'[t] \in {"depositing", "deposited"} => request'[t].mode = "deposit"
    BY <1>1 DEF Bundles
<1> QED
    BY <1>2 DEF Bundles

\* Nothing is sent or mined.
LEMMA QueueUnchanged ==
    ASSUME IInv, UNCHANGED relayed,
           \A t \in Transfers : phase[t] = "sent" => phase'[t] = "sent"
    PROVE  Queue'
<1>1. \A i \in DOMAIN relayed : relayed[i] \in Transfers
    BY DEF IInv, Queue
<1> QED
    BY <1>1 DEF IInv, Queue

\* Where a transfer can stand.
Phases == {"new", "built", "prepared", "quoted", "thrown", "sent", "succeeded", "failed",
           "confirmed", "returned", "depositing", "deposited"}

\* The types, for a step that only changes phases, the queue and the store.
LEMMA TypesKept ==
    ASSUME IInv, UNCHANGED <<request, chain>>, phase' \in [Transfers -> Phases],
           relayed' \in Seq(Transfers), DOMAIN shardStore' \subseteq Own,
           \A a \in DOMAIN shardStore' : shardStore'[a] \in EntryType
    PROVE  TypeOK'
<1>1. ToSet(relayed') \subseteq Transfers
    BY DEF ToSet
<1>2. TypeOK
    BY DEF IInv
<1> QED
    BY <1>1, <1>2 DEF TypeOK, chain, Phases, EntryType

\* A phase changes.
LEMMA PhaseSet ==
    ASSUME IInv, NEW t \in Transfers, NEW x \in Phases, phase' = [phase EXCEPT ![t] = x]
    PROVE  /\ phase' \in [Transfers -> Phases]
           /\ phase'[t] = x
           /\ \A s \in Transfers : s # t => phase'[s] = phase[s]
BY DEF IInv, TypeOK, Phases

\* A built transfer moves on, and does not succeed by it.
LEMMA Progress ==
    ASSUME IInv, NEW t \in Transfers, Built(t), NEW x \in Phases \ {"new", "depositing", "deposited"},
           phase' = [phase EXCEPT ![t] = x], UNCHANGED <<chain, wallet, calls>>,
           x \in {"succeeded", "confirmed"} <=> Succeeded(t)
    PROVE  /\ Bundles' /\ OwnPools' /\ AnnouncementsKept' /\ TokensDelivered' /\ PublicPaid'
           /\ DepositsAnnounced' /\ DepositsArrive'
           /\ \A s \in Transfers : Built(s) => Built(s)' /\ bundle'[s] = bundle[s]
           /\ phase' \in [Transfers -> Phases]
<1>1. /\ phase' \in [Transfers -> Phases] /\ phase'[t] = x
      /\ \A s \in Transfers : s # t => phase'[s] = phase[s]
    BY PhaseSet
<1>2. ASSUME NEW s \in Transfers
      PROVE  /\ Succeeded(s)' <=> Succeeded(s)
             /\ Built(s)' <=> Built(s)
             /\ phase'[s] = "depositing" <=> phase[s] = "depositing"
             /\ phase'[s] = "deposited" <=> phase[s] = "deposited"
             /\ phase'[s] = "new" => phase[s] = "new"
    BY <1>1 DEF Succeeded, Built
<1>3. /\ request' = request /\ inputs' = inputs /\ bundle' = bundle
      /\ UNCHANGED wallet /\ UNCHANGED chain /\ UNCHANGED calls
    BY DEF wallet
<1>4. OwnPools' /\ AnnouncementsKept' /\ TokensDelivered' /\ PublicPaid'
    BY <1>2, <1>3, ChainKept
<1>5. DepositsAnnounced' /\ DepositsArrive'
    BY <1>2, <1>3, DepositsKept
<1>6. Bundles'
    BY <1>2, <1>3, BundlesUnchanged
<1> QED
    BY <1>1, <1>2, <1>3, <1>4, <1>5, <1>6

\* Entries are dropped or change their flag.
LEMMA StoreNarrowed ==
    ASSUME IInv, UNCHANGED chain,
           \A t \in Transfers : Built(t) => Built(t)' /\ bundle'[t] = bundle[t],
           DOMAIN shardStore' \subseteq DOMAIN shardStore,
           \A a \in DOMAIN shardStore' :
              /\ shardStore'[a].shown = shardStore[a].shown
              /\ shardStore'[a].tokenIds = shardStore[a].tokenIds
    PROVE  StoreKept'
<1> USE DEF chain
<1>1. StoreKept
    BY DEF IInv
<1> QED
    BY <1>1 DEF StoreKept, TokensAt, AnnouncedAt

\* Setting a flag changes nothing else.
LEMMA PendingSet ==
    ASSUME IInv, NEW addresses, NEW pending \in BOOLEAN, NEW new,
           new = setPending(shardStore, addresses, pending)
    PROVE  /\ DOMAIN new = DOMAIN shardStore
           /\ \A a \in DOMAIN new : /\ new[a] \in EntryType
                                    /\ new[a].shown = shardStore[a].shown
                                    /\ new[a].tokenIds = shardStore[a].tokenIds
<1>1. DOMAIN new = DOMAIN shardStore
    BY DEF setPending
<1>2. ASSUME NEW a \in DOMAIN new
      PROVE  /\ new[a] \in EntryType
             /\ new[a].shown = shardStore[a].shown
             /\ new[a].tokenIds = shardStore[a].tokenIds
    <2>1. shardStore[a] \in EntryType
        BY <1>1 DEF IInv, TypeOK, EntryType
    <2>2. new[a] = IF a \in addresses THEN [shardStore[a] EXCEPT !.pending = pending]
                   ELSE shardStore[a]
        BY <1>1 DEF setPending
    <2>3. CASE a \in addresses
        <3>1. new[a] = [shardStore[a] EXCEPT !.pending = pending]
            BY <2>2, <2>3
        <3> QED BY <2>1, <3>1 DEF EntryType
    <2>4. CASE a \notin addresses
        BY <2>1, <2>2, <2>4
    <2> QED BY <2>3, <2>4
<1> QED
    BY <1>1, <1>2

\* The store and its entries.
LEMMA StoreTyped ==
    ASSUME IInv
    PROVE  /\ DOMAIN shardStore \subseteq Own
           /\ \A a \in DOMAIN shardStore : shardStore[a] \in EntryType
BY DEF IInv, TypeOK, EntryType

\* The shape of the model, when nothing is announced.
LEMMA ShapeKept ==
    ASSUME IInv, DOMAIN inputs' = Transfers, DOMAIN bundle' = Transfers, DOMAIN calls' = Transfers,
           UNCHANGED announced
    PROVE  Shape'
BY DEF IInv, Shape

-----------------------------------------------------------------------------
(* The steps of a transfer.                                                *)

\* A bundle is built; nothing is on its way yet.
LEMMA BuildKeeps ==
    ASSUME IInv, NEW t \in Transfers, BuildTransaction(t)
    PROVE  IInv'
<1>1. /\ phase[t] = "new" /\ request[t].mode # "deposit"
      /\ phase' = [phase EXCEPT ![t] = "built"]
      /\ UNCHANGED <<request, chain, shardStore, calls, relayed>>
    BY DEF BuildTransaction
<1>2. PICK selection \in Selections(shardStore, request[t]) :
          \E draw \in Draws(t, request[t].mode, Outputs(request[t], selection)) :
              bundle' = [bundle EXCEPT ![t] = Prepared(request[t], draw, selection)]
    BY DEF BuildTransaction
<1>3. PICK draw \in Draws(t, request[t].mode, Outputs(request[t], selection)) :
          bundle' = [bundle EXCEPT ![t] = Prepared(request[t], draw, selection)]
    BY <1>2
<1>4. inputs' = [inputs EXCEPT ![t] = [a \in bundle'[t].shardAddresses |-> shardStore[a]]]
    BY DEF BuildTransaction
<1>5. /\ phase' \in [Transfers -> Phases] /\ phase'[t] = "built"
      /\ \A s \in Transfers : s # t => phase'[s] = phase[s]
    BY <1>1, PhaseSet DEF Phases
<1>6. /\ DOMAIN bundle' = Transfers /\ DOMAIN inputs' = Transfers /\ DOMAIN calls' = Transfers
      /\ bundle'[t] = Prepared(request[t], draw, selection)
      /\ inputs'[t] = [a \in bundle'[t].shardAddresses |-> shardStore[a]]
      /\ \A s \in Transfers : s # t => bundle'[s] = bundle[s] /\ inputs'[s] = inputs[s]
    BY <1>1, <1>3, <1>4 DEF IInv, Shape
<1>7. \A s \in Transfers : /\ Succeeded(s)' <=> Succeeded(s)
                           /\ Succeeded(s) => bundle'[s] = bundle[s]
                           /\ Built(s) => Built(s)' /\ bundle'[s] = bundle[s]
                           /\ phase'[s] = "depositing" <=> phase[s] = "depositing"
                           /\ phase'[s] = "deposited" <=> phase[s] = "deposited"
                           /\ phase'[s] = "new" => phase[s] = "new"
                           /\ phase[s] = "sent" => phase'[s] = "sent"
    BY <1>1, <1>5, <1>6 DEF Succeeded, Built
<1>8. Bundles'
    <2>1. /\ request[t] \in RequestType
          /\ request[t].type = "ERC721" => request[t].mode = "private" \/ request[t].value > 0
        BY <1>1, RequestsTyped DEF IInv, TypeOK
    <2>2. /\ DOMAIN inputs'[t] \subseteq Own /\ \A a \in DOMAIN inputs'[t] : inputs'[t][a] \in EntryType
          /\ GoodBundle(t, request[t], inputs'[t], bundle'[t])
        BY <1>1, <1>6, <2>1, StoreTyped, PreparedIsGood
    <2>3. ASSUME NEW s \in Transfers, s # t
          PROVE  /\ Built(s)' <=> Built(s)
                 /\ request'[s] = request[s] /\ inputs'[s] = inputs[s] /\ bundle'[s] = bundle[s]
                 /\ phase'[s] = phase[s]
        BY <1>1, <1>5, <1>6, <2>3 DEF Built
    <2>4. Built(t)' /\ phase'[t] \notin {"depositing", "deposited"} /\ request' = request
        BY <1>1, <1>5 DEF Built
    <2>5. Bundles
        BY DEF IInv
    <2> QED BY <1>1, <2>2, <2>3, <2>4, <2>5 DEF Bundles
<1>9. OwnPools' /\ AnnouncementsKept' /\ TokensDelivered' /\ PublicPaid'
    BY <1>1, <1>7, ChainKept
<1>10. DepositsAnnounced' /\ DepositsArrive'
    BY <1>1, <1>7, DepositsKept
<1>11. StoreKept'
    BY <1>1, <1>7, StoreUnchanged
<1>12. Queue'
    BY <1>1, <1>7, QueueUnchanged
<1>13. Shape'
    <2>1. announced' = announced
        BY <1>1 DEF chain
    <2> QED BY <1>6, <2>1, ShapeKept
<1>14. TypeOK'
    <2>1. relayed' \in Seq(Transfers)
        BY <1>1 DEF IInv, Queue
    <2>2. shardStore' = shardStore
        BY <1>1
    <2> QED BY <1>1, <1>5, <2>1, <2>2, StoreTyped, TypesKept
<1> QED
    BY <1>8, <1>9, <1>10, <1>11, <1>12, <1>13, <1>14 DEF IInv

\* Steps that leave the store alone.
LEMMA QuoteOrThrowKeeps ==
    ASSUME IInv, NEW t \in Transfers, QuoteArrives(t) \/ RelayTransferThrows(t) \/ RelayAccepts(t)
    PROVE  IInv'
<1>1. PICK x \in {"quoted", "thrown", "sent"} :
         /\ phase[t] \in {"prepared", "quoted"}
         /\ phase' = [phase EXCEPT ![t] = x]
         /\ UNCHANGED <<chain, shardStore, wallet, calls>>
         /\ IF x = "sent" THEN relayed' = Append(relayed, t) ELSE relayed' = relayed
    BY DEF QuoteArrives, RelayTransferThrows, RelayAccepts
<1>2. Built(t) /\ ~Succeeded(t) /\ x \in Phases \ {"new", "depositing", "deposited"}
         /\ x \notin {"succeeded", "confirmed"}
    BY <1>1 DEF Built, Succeeded, Phases
<1>3. /\ Bundles' /\ OwnPools' /\ AnnouncementsKept' /\ TokensDelivered' /\ PublicPaid'
      /\ DepositsAnnounced' /\ DepositsArrive'
      /\ \A s \in Transfers : Built(s) => Built(s)' /\ bundle'[s] = bundle[s]
      /\ phase' \in [Transfers -> Phases]
    <2>1. UNCHANGED <<chain, wallet, calls>>
        BY <1>1
    <2> QED BY <1>1, <1>2, <2>1, Progress
<1>4. StoreKept'
    BY <1>1, <1>3, StoreUnchanged
<1>5. Queue'
    <2>1. /\ relayed \in Seq(Transfers) /\ \A i \in DOMAIN relayed : phase[relayed[i]] = "sent"
          /\ \A i, j \in DOMAIN relayed : relayed[i] = relayed[j] => i = j
        BY DEF IInv, Queue
    <2>2. /\ phase'[t] = x /\ \A s \in Transfers : s # t => phase'[s] = phase[s]
        BY <1>1, <1>2, PhaseSet
    <2>3. \A i \in DOMAIN relayed : relayed[i] \in Transfers /\ relayed[i] # t
        BY <1>1, <2>1
    <2>4. CASE x = "sent"
        <3> DEFINE n == Len(relayed) + 1
        <3>1. /\ relayed' \in Seq(Transfers) /\ DOMAIN relayed' = DOMAIN relayed \cup {n}
              /\ relayed'[n] = t /\ \A i \in DOMAIN relayed : relayed'[i] = relayed[i]
            <4>1. relayed' = Append(relayed, t)
                BY <1>1, <2>4
            <4> QED BY <2>1, <4>1
        <3> HIDE DEF n
        <3>2. \A i \in DOMAIN relayed' : phase'[relayed'[i]] = "sent"
            BY <2>1, <2>2, <2>3, <2>4, <3>1
        <3>3. \A i, j \in DOMAIN relayed' : relayed'[i] = relayed'[j] => i = j
            BY <2>1, <2>3, <3>1
        <3> QED BY <3>1, <3>2, <3>3 DEF Queue
    <2>5. CASE x # "sent"
        <3>1. relayed' = relayed
            BY <1>1, <2>5
        <3>2. \A i \in DOMAIN relayed : phase'[relayed[i]] = "sent"
            BY <2>1, <2>2, <2>3
        <3> QED BY <2>1, <3>1, <3>2 DEF Queue
    <2> QED BY <2>4, <2>5
<1>6. Shape'
    <2>1. announced' = announced
        BY <1>1 DEF chain
    <2>2. DOMAIN inputs' = Transfers /\ DOMAIN bundle' = Transfers /\ DOMAIN calls' = Transfers
        BY <1>1 DEF IInv, Shape, wallet
    <2> QED BY <2>1, <2>2, ShapeKept
<1>7. TypeOK'
    <2>1. relayed' \in Seq(Transfers)
        BY <1>5 DEF Queue
    <2>2. shardStore' = shardStore /\ request' = request
        BY <1>1 DEF wallet
    <2> QED BY <1>1, <1>3, <2>1, <2>2, StoreTyped, TypesKept
<1> QED
    BY <1>3, <1>4, <1>5, <1>6, <1>7 DEF IInv

\* Steps that change the store.
LEMMA StoreStepKeeps ==
    ASSUME IInv, NEW t \in Transfers, Built(t), phase[t] # "sent",
           NEW x \in Phases \ {"new", "depositing", "deposited"},
           phase' = [phase EXCEPT ![t] = x], UNCHANGED <<chain, wallet, calls, relayed>>,
           x \in {"succeeded", "confirmed"} <=> Succeeded(t),
           DOMAIN shardStore' \subseteq Own, \A a \in DOMAIN shardStore' : shardStore'[a] \in EntryType,
           StoreKept'
    PROVE  IInv'
<1>1. /\ Bundles' /\ OwnPools' /\ AnnouncementsKept' /\ TokensDelivered' /\ PublicPaid'
      /\ DepositsAnnounced' /\ DepositsArrive' /\ phase' \in [Transfers -> Phases]
    <2>1. UNCHANGED <<chain, wallet, calls>>
        OBVIOUS
    <2> QED BY <2>1, Progress
<1>2. Queue'
    <2>1. \A s \in Transfers : phase[s] = "sent" => phase'[s] = "sent"
        BY PhaseSet
    <2> QED BY <2>1, QueueUnchanged
<1>3. Shape'
    <2>1. announced' = announced
        BY DEF chain
    <2>2. DOMAIN inputs' = Transfers /\ DOMAIN bundle' = Transfers /\ DOMAIN calls' = Transfers
        BY DEF IInv, Shape, wallet
    <2> QED BY <2>1, <2>2, ShapeKept
<1>4. TypeOK'
    <2>1. relayed' \in Seq(Transfers) /\ request' = request
        BY DEF IInv, Queue, wallet
    <2> QED BY <1>1, <2>1, TypesKept
<1> QED
    BY <1>1, <1>2, <1>3, <1>4 DEF IInv

\* The inputs are marked, the change is stored.
LEMMA ConfirmPreparedKeeps ==
    ASSUME IInv, NEW t \in Transfers, ConfirmPrepared(t)
    PROVE  IInv'
<1> DEFINE b == bundle[t]
           kept == setPending(shardStore, b.shardAddresses, TRUE)
<1>1. /\ phase[t] = "built" /\ phase' = [phase EXCEPT ![t] = "prepared"]
      /\ UNCHANGED <<chain, wallet, calls, relayed>>
      /\ shardStore' = WithChange(kept, t)
    BY DEF ConfirmPrepared
<1>2. /\ Built(t) /\ ~Succeeded(t) /\ phase[t] # "sent"
      /\ "prepared" \in Phases \ {"new", "depositing", "deposited"}
      /\ "prepared" \notin {"succeeded", "confirmed"}
    BY <1>1 DEF Built, Succeeded, Phases
<1>3. /\ DOMAIN kept = DOMAIN shardStore
      /\ \A a \in DOMAIN kept : /\ kept[a] \in EntryType
                                /\ kept[a].shown = shardStore[a].shown
                                /\ kept[a].tokenIds = shardStore[a].tokenIds
    <2> DEFINE flag == TRUE
    <2>1. flag \in BOOLEAN
        OBVIOUS
    <2>2. kept = setPending(shardStore, b.shardAddresses, flag)
        OBVIOUS
    <2> HIDE DEF kept, b, flag
    <2> QED BY <2>1, <2>2, PendingSet
<1> HIDE DEF kept
<1>4. /\ Len(b.changeShards) \in Nat /\ DOMAIN b.changeShards = 1..Len(b.changeShards)
      /\ \A k \in DOMAIN b.changeShards :
            /\ b.changeShards[k].address \in ChangePool(t) /\ b.changeShards[k].amount \in Nat
            /\ b.changeShards[k].amount <= Receives(b, b.changeShards[k].address)
    BY <1>2, BuiltFacts DEF GoodChange
<1>5. /\ DOMAIN shardStore \subseteq DOMAIN shardStore'
      /\ \A a \in DOMAIN shardStore : shardStore'[a] = kept[a]
      /\ \A a \in DOMAIN shardStore' \ DOMAIN shardStore :
            \E k \in DOMAIN b.changeShards : /\ b.changeShards[k].address = a
                                             /\ shardStore'[a] = Change(b.changeShards[k].amount)
    <2> DEFINE out == b.changeShards
    <2>1. out = bundle[t].changeShards /\ Len(out) \in Nat /\ DOMAIN out = 1..Len(out)
        BY <1>4
    <2> HIDE DEF out, b
    <2>2. /\ DOMAIN kept \subseteq DOMAIN WithChange(kept, t)
          /\ \A a \in DOMAIN kept : WithChange(kept, t)[a] = kept[a]
          /\ \A a \in DOMAIN WithChange(kept, t) \ DOMAIN kept :
                \E k \in DOMAIN out : /\ out[k].address = a
                                      /\ WithChange(kept, t)[a] = Change(out[k].amount)
        BY <2>1, ChangeIsAdded
    <2> QED BY <1>1, <1>3, <2>2 DEF out
<1>6. ASSUME NEW v \in Nat
      PROVE  Change(v) \in EntryType /\ Change(v).shown = v
    BY DEF Change, Entry, EntryType, Amount, Ids
<1>7. ASSUME NEW a \in DOMAIN shardStore', a \notin DOMAIN shardStore
      PROVE  /\ a \in ChangePool(t) /\ a \in Own /\ shardStore'[a] \in EntryType
             /\ shardStore'[a].shown <= Receives(b, a)
             /\ TokensAt(a) = {}
    <2>1. PICK k \in DOMAIN b.changeShards : /\ b.changeShards[k].address = a
                                             /\ shardStore'[a] = Change(b.changeShards[k].amount)
        BY <1>5, <1>7
    <2>2. a \in ChangePool(t) /\ a \in Own /\ b.changeShards[k].amount \in Nat
             /\ b.changeShards[k].amount <= Receives(b, a)
        BY <1>4, <2>1, Apart
    <2>3. Untouched(a)
        BY <1>2, <2>2 DEF IInv, OwnPools
    <2> HIDE DEF b
    <2> QED BY <1>6, <2>1, <2>2, <2>3 DEF Untouched
<1>8. DOMAIN shardStore' \subseteq Own /\ \A a \in DOMAIN shardStore' : shardStore'[a] \in EntryType
    <2> HIDE DEF b
    <2>1. \A a \in DOMAIN shardStore : a \in DOMAIN shardStore' /\ a \in Own /\ shardStore'[a] \in EntryType
        BY <1>3, <1>5, StoreTyped
    <2> QED BY <1>7, <2>1
<1>9. /\ \A s \in Transfers : Built(s) => Built(s)' /\ bundle'[s] = bundle[s]
      /\ UNCHANGED <<balance, ownerOf, isShardSpent, announced, bundle>>
    <2>1. UNCHANGED <<balance, ownerOf, isShardSpent, announced, bundle>>
        BY <1>1 DEF chain, wallet
    <2>2. /\ phase'[t] = "prepared" /\ \A s \in Transfers : s # t => phase'[s] = phase[s]
        BY <1>1, <1>2, PhaseSet
    <2> QED BY <2>1, <2>2 DEF Built
<1>10. StoreKept'
    <2>1. StoreKept
        BY DEF IInv
    <2>2. ASSUME NEW a \in DOMAIN shardStore
          PROVE  shardStore'[a].shown = shardStore[a].shown /\ shardStore'[a].tokenIds = shardStore[a].tokenIds
        BY <1>3, <1>5
    <2>3. \A a : TokensAt(a)' = TokensAt(a) /\ AnnouncedAt(a)' = AnnouncedAt(a)
        BY <1>9 DEF TokensAt, AnnouncedAt
    <2>4. ASSUME NEW a \in DOMAIN shardStore'
          PROVE  TokensAt(a)' \subseteq shardStore'[a].tokenIds
        <3>1. CASE a \in DOMAIN shardStore
            BY <2>1, <2>2, <2>3, <3>1 DEF StoreKept
        <3>2. CASE a \notin DOMAIN shardStore
            BY <1>7, <2>3, <3>2
        <3> QED BY <3>1, <3>2
    <2>5. ASSUME NEW s \in Transfers, NEW a \in DepositPool(s) \cap DOMAIN shardStore'
          PROVE  AnnouncedAt(a)' # {}
        <3>1. a \in DOMAIN shardStore
            BY <1>7, Apart
        <3> QED BY <2>1, <2>3, <3>1 DEF StoreKept
    <2>6. ASSUME NEW s \in Transfers, NEW a \in ChangePool(s) \cap DOMAIN shardStore'
          PROVE  Built(s)' /\ shardStore'[a].shown <= Receives(bundle'[s], a)
        <3>1. CASE a \in DOMAIN shardStore
            BY <1>9, <2>1, <2>2, <3>1 DEF StoreKept
        <3>2. CASE a \notin DOMAIN shardStore
            <4>1. a \in ChangePool(t) /\ shardStore'[a].shown <= Receives(b, a)
                BY <1>7, <3>2
            <4>2. s = t
                BY <4>1, Apart
            <4> QED BY <1>2, <1>9, <4>1, <4>2
        <3> QED BY <3>1, <3>2
    <2> QED BY <2>4, <2>5, <2>6 DEF StoreKept
<1> QED
    BY <1>1, <1>2, <1>8, <1>10, StoreStepKeeps

\* wait() has seen the receipt.
LEMMA ConfirmKeeps ==
    ASSUME IInv, NEW t \in Transfers, ConfirmTransaction(t) \/ ConfirmFailed(t)
    PROVE  IInv'
<1>1. PICK x \in {"confirmed", "returned"} :
         /\ phase[t] = IF x = "confirmed" THEN "succeeded" ELSE "failed"
         /\ phase' = [phase EXCEPT ![t] = x]
         /\ UNCHANGED <<chain, wallet, calls, relayed>>
    BY DEF ConfirmTransaction, ConfirmFailed
<1>2. /\ Built(t) /\ phase[t] # "sent" /\ x \in Phases \ {"new", "depositing", "deposited"}
      /\ x \in {"succeeded", "confirmed"} <=> Succeeded(t)
    BY <1>1 DEF Built, Succeeded, Phases
<1>3. /\ DOMAIN shardStore' \subseteq DOMAIN shardStore
      /\ \A a \in DOMAIN shardStore' : /\ shardStore'[a] \in EntryType
                                       /\ shardStore'[a].shown = shardStore[a].shown
                                       /\ shardStore'[a].tokenIds = shardStore[a].tokenIds
    <2>1. CASE ConfirmTransaction(t)
        <3>1. shardStore' = removeMany(shardStore, bundle[t].shardAddresses)
            BY <2>1 DEF ConfirmTransaction
        <3> QED BY <3>1, StoreTyped DEF removeMany
    <2>2. CASE ConfirmFailed(t)
        <3> DEFINE flag == FALSE
        <3>1. shardStore' = setPending(shardStore, bundle[t].shardAddresses, flag) /\ flag \in BOOLEAN
            BY <2>2 DEF ConfirmFailed
        <3> HIDE DEF flag
        <3> QED BY <3>1, PendingSet
    <2> QED BY <2>1, <2>2
<1>4. \A s \in Transfers : Built(s) => Built(s)' /\ bundle'[s] = bundle[s]
    <2>1. /\ phase'[t] = x /\ \A s \in Transfers : s # t => phase'[s] = phase[s]
        BY <1>1, <1>2, PhaseSet
    <2> QED BY <1>1, <2>1 DEF Built, wallet
<1>5. StoreKept'
    BY <1>1, <1>3, <1>4, StoreNarrowed
<1> QED
    BY <1>1, <1>2, <1>3, <1>5, StoreTyped, StoreStepKeeps

-----------------------------------------------------------------------------
(* The calls of a deposit.                                                 *)

\* A permutation of positions hits each one once.
LEMMA PermutationFacts ==
    ASSUME NEW n \in Nat, NEW p \in SetToSeqs(1..n)
    PROVE  /\ p \in [1..n -> 1..n]
           /\ \A i, j \in 1..n : p[i] = p[j] => i = j
           /\ \A i \in 1..n : \E j \in 1..n : p[j] = i
<1>1. Cardinality(1..n) = n /\ IsFiniteSet(1..n)
    BY FS_Interval
<1>2. p \in [1..n -> 1..n] /\ \A i, j \in 1..n : p[i] = p[j] => i = j
    BY <1>1 DEF SetToSeqs
<1>3. p \in Injection(1..n, 1..n)
    BY <1>2 DEF Injection, IsInjective
<1>4. p \in Surjection(1..n, 1..n)
    BY <1>1, <1>3, FS_Injection
<1> QED
    BY <1>2, <1>4 DEF Surjection

\* In another order, the parts add up to the same.
LEMMA PermutedSum ==
    ASSUME NEW parts \in Seq(Nat), NEW p \in SetToSeqs(1..Len(parts))
    PROVE  SumFunctionOnSet([i \in 1..Len(parts) |-> parts[p[i]]], 1..Len(parts)) = SumFunction(parts)
<1> DEFINE N == 1..Len(parts)
           f == [i \in N |-> parts[p[i]]]
<1>1. /\ \A i \in N : p[i] \in N
      /\ \A i, j \in N : p[i] = p[j] => i = j
      /\ \A i \in N : \E j \in N : p[j] = i
    BY PermutationFacts
<1>2. IsFiniteSet(N) /\ DOMAIN parts = N
    BY Intervals
<1>3. \A i \in N : f[i] = parts[p[i]] /\ f[i] \in Int /\ parts[i] \in Int /\ f[i] \in Nat
    <2>1. \A i \in N : parts[i] \in Nat
        OBVIOUS
    <2>2. \A i \in N : f[i] = parts[p[i]]
        OBVIOUS
    <2> HIDE DEF N, f
    <2> QED BY <1>1, <2>1, <2>2
<1> HIDE DEF N, f
<1>4. SumFunctionOnSet(f, N) = SumFunctionOnSet([y \in N |-> SumFunctionOnSet(f, Fibre(N, p, y))], N)
    <2> DEFINE S == N
               T == N
    <2>1. IsFiniteSet(S) /\ IsFiniteSet(T) /\ \A i \in S : f[i] \in Int /\ p[i] \in T
        BY <1>1, <1>2, <1>3
    <2> HIDE DEF S, T
    <2>2. SumFunctionOnSet(f, S) = SumFunctionOnSet([y \in T |-> SumFunctionOnSet(f, Fibre(S, p, y))], T)
        BY <2>1, SumFibres
    <2> QED BY <2>2 DEF S, T
<1>5. ASSUME NEW y \in N
      PROVE  SumFunctionOnSet(f, Fibre(N, p, y)) = parts[y]
    <2>1. PICK j \in N : p[j] = y
        BY <1>1
    <2>2. Fibre(N, p, y) = {j}
        BY <1>1, <2>1 DEF Fibre
    <2>3. SumFunctionOnSet(f, {j}) = f[j]
        <3>1. IsFiniteSet({j}) /\ j \in {j} /\ \A i \in {j} \ {j} : f[i] = 0
            BY FS_Singleton
        <3> QED BY <1>3, <3>1, SumSingle
    <2> QED BY <1>3, <2>1, <2>2, <2>3
<1>6. [y \in N |-> SumFunctionOnSet(f, Fibre(N, p, y))] = [y \in N |-> parts[y]]
    BY <1>5
<1>7. SumFunctionOnSet([y \in N |-> parts[y]], N) = SumFunctionOnSet(parts, N)
    <2> DEFINE g == [y \in N |-> parts[y]]
    <2>1. \A y \in N : g[y] = parts[y] /\ g[y] \in Int /\ parts[y] \in Int
        BY <1>3
    <2> HIDE DEF g
    <2>2. SumFunctionOnSet(g, N) = SumFunctionOnSet(parts, N)
        BY <1>2, <2>1, SumCompare
    <2> QED BY <2>2 DEF g
<1>8. SumFunctionOnSet(f, N) = SumFunction(parts)
    BY <1>2, <1>4, <1>6, <1>7 DEF SumFunction
<1> QED
    BY <1>8 DEF f, N

\* Part i as a call.
CallOf(t, wants, parts, is, i) ==
    [is |-> is, to |-> <<"deposit", t, i>>, type |-> wants.type, value |-> parts[i]]

\* The calls, two by two.
Turns(t, wants, parts, p, q) ==
    [i \in 1..Len(parts) |-> <<CallOf(t, wants, parts, "transfer", p[i]),
                               CallOf(t, wants, parts, "announce", q[i])>>]

\* A batch is two calls for every part: its k-th transfer is of part p[k], its
\* k-th announcement of part q[k].
BatchOf(t, wants, parts, p, q, batch) ==
    /\ batch \in Seq(Call) /\ Len(batch) = 2 * Len(parts)
    /\ \A i \in 1..Len(parts) : /\ batch[2 * i - 1] = CallOf(t, wants, parts, "transfer", p[i])
                                /\ batch[2 * i] = CallOf(t, wants, parts, "announce", q[i])
    /\ \A k \in DOMAIN batch : \E i \in 1..Len(parts) : k = 2 * i - 1 \/ k = 2 * i

\* That is what preparePrivateDeposit returns.
LEMMA BatchesTaken ==
    ASSUME NEW t \in Transfers, NEW wants \in RequestType, NEW parts \in Seq(Nat),
           Len(parts) <= MaxRecipientPool, NEW batch \in DepositCalls(t, wants, parts)
    PROVE  \E p, q \in SetToSeqs(1..Len(parts)) :
              /\ BatchOf(t, wants, parts, p, q, batch)
              /\ batch = FlattenSeq(Turns(t, wants, parts, p, q))
<1> DEFINE n == Len(parts)
           call(is, i) == CallOf(t, wants, parts, is, i)
<1>1. n \in Nat /\ DOMAIN parts = 1..n
    OBVIOUS
<1>2. PICK p \in SetToSeqs(1..n), q \in SetToSeqs(1..n) :
          batch = FlattenSeq([i \in 1..n |-> <<call("transfer", p[i]), call("announce", q[i])>>])
    <2> DEFINE Calls(p, q) == [i \in DOMAIN parts |-> <<call("transfer", p[i]), call("announce", q[i])>>]
               orders == SetToSeqs(DOMAIN parts)
    <2>1. DepositCalls(t, wants, parts) = {FlattenSeq(Calls(p, q)) : p \in orders, q \in orders}
        BY DEF DepositCalls, CallOf
    <2> HIDE DEF Calls, orders
    <2>2. \E p \in orders, q \in orders : batch = FlattenSeq(Calls(p, q))
        BY <2>1
    <2> QED BY <1>1, <2>2 DEF Calls, orders
<1>3. \A i \in 1..n : p[i] \in 1..n /\ q[i] \in 1..n
    <2>1. p \in [1..n -> 1..n] /\ q \in [1..n -> 1..n]
        BY <1>1, PermutationFacts
    <2> QED BY <2>1
<1>4. ASSUME NEW i \in 1..n, NEW is \in {"transfer", "announce"}
      PROVE  call(is, i) \in Call
    <2>1. <<"deposit", t, i>> \in DepositPool(t)
        BY <1>1, PoolAssumption DEF DepositPool
    <2>2. <<"deposit", t, i>> \in Addresses
        BY <2>1, Apart
    <2>3. wants.type \in {"ERC20", "ERC721"} /\ parts[i] \in Nat
        BY <1>1 DEF RequestType
    <2> QED BY <2>2, <2>3 DEF CallOf, Call
<1>5. BatchOf(t, wants, parts, p, q, batch)
    <2> DEFINE a == [i \in 1..n |-> call("transfer", p[i])]
               b == [i \in 1..n |-> call("announce", q[i])]
               seqs == [i \in 1..n |-> <<a[i], b[i]>>]
    <2>1. \A i \in 1..n : a[i] = call("transfer", p[i]) /\ b[i] = call("announce", q[i])
        OBVIOUS
    <2>2. /\ a \in [1..n -> Call] /\ b \in [1..n -> Call]
          /\ \A i \in 1..n : seqs[i] = <<a[i], b[i]>>
        BY <1>3, <1>4
    <2>6. DOMAIN seqs = 1..n /\ Len(seqs) = n
        BY <1>1
    <2>3. batch = FlattenSeq(seqs)
        <3> HIDE DEF call
        <3>1. seqs = [i \in 1..n |-> <<call("transfer", p[i]), call("announce", q[i])>>]
            OBVIOUS
        <3> HIDE DEF a, b, seqs
        <3> QED BY <1>2, <3>1 DEF call
    <2>4. CASE n = 0
        <3>1. seqs \in [1..0 -> Seq(Call)] /\ Len(seqs) = 0 /\ DOMAIN seqs = {}
            BY <2>4
        <3>2. seqs = <<>>
            BY <3>1
        <3>3. FlattenSeq(seqs) = seqs
            <4>1. Len(seqs) \in Nat /\ DOMAIN seqs = 1..Len(seqs) /\ \A i \in DOMAIN seqs : seqs[i] \in Seq(Call)
                BY <3>1
            <4> HIDE DEF seqs
            <4> QED BY <3>1, <4>1, Flattened
        <3>4. batch = <<>>
            BY <2>3, <3>2, <3>3
        <3> HIDE DEF a, b, seqs
        <3>5. batch \in Seq(Call) /\ Len(batch) = 0 /\ DOMAIN batch = {}
            BY <3>4
        <3>6. Len(parts) = 0 /\ 1..Len(parts) = {}
            BY <2>4
        <3> QED BY <3>5, <3>6 DEF BatchOf
    <2>5. CASE n # 0
        <3>1. n \in Nat /\ n # 0
            BY <1>1, <2>5
        <3> HIDE DEF a, b, seqs, n, call
        <3>3. AreSeqsOf(Call, n, a, b) /\ Paired(seqs, n, a, b)
            BY <2>2, <2>6, <3>1 DEF AreSeqsOf, Paired
        <3>4. TakeTurns(batch, Call, n, a, b)
            BY <2>3, <3>3, FlattenedPairs
        <3> QED BY <2>1, <3>4 DEF BatchOf, n, call, TakeTurns
    <2> QED BY <2>4, <2>5
<1> QED
    BY <1>2, <1>5 DEF Turns

\* What calls are still to pay.
StillToPay(batch) ==
    SumFunction([k \in DOMAIN batch |-> IF batch[k].is = "transfer" THEN batch[k].value ELSE 0])

\* A call names an address of the deposit.
LEMMA CallTyped ==
    ASSUME NEW t \in Transfers, NEW wants \in RequestType, NEW parts \in Seq(Nat),
           Len(parts) <= MaxRecipientPool, NEW i \in 1..Len(parts), NEW is \in {"transfer", "announce"}
    PROVE  /\ CallOf(t, wants, parts, is, i) \in Call
           /\ CallOf(t, wants, parts, is, i).to \in DepositPool(t)
<1>1. <<"deposit", t, i>> \in DepositPool(t)
    BY PoolAssumption DEF DepositPool
<1>2. <<"deposit", t, i>> \in Addresses
    BY <1>1, Apart
<1>3. wants.type \in {"ERC20", "ERC721"} /\ parts[i] \in Nat
    BY DEF RequestType
<1> QED
    BY <1>1, <1>2, <1>3 DEF CallOf, Call

\* The transfers of a batch pay the parts.
LEMMA BatchPays ==
    ASSUME NEW t \in Transfers, NEW wants \in RequestType, NEW parts \in Seq(Nat),
           Len(parts) <= MaxRecipientPool,
           NEW p \in SetToSeqs(1..Len(parts)), NEW q \in SetToSeqs(1..Len(parts)),
           NEW batch \in Seq(Call), batch = FlattenSeq(Turns(t, wants, parts, p, q))
    PROVE  StillToPay(batch) = SumFunction(parts)
<1> DEFINE n == Len(parts)
           seqs == Turns(t, wants, parts, p, q)
           w == [c \in Call |-> IF c.is = "transfer" THEN c.value ELSE 0]
<1>1. /\ n \in Nat /\ Len(seqs) \in Nat /\ DOMAIN seqs = 1..Len(seqs) /\ DOMAIN seqs = 1..n
      /\ \A i \in 1..n : seqs[i] = <<CallOf(t, wants, parts, "transfer", p[i]),
                                     CallOf(t, wants, parts, "announce", q[i])>>
    BY DEF Turns
<1>2. \A i \in 1..n : p[i] \in 1..n /\ q[i] \in 1..n
    <2>1. p \in [1..n -> 1..n] /\ q \in [1..n -> 1..n]
        BY PermutationFacts
    <2> QED BY <2>1
<1>3. w \in [Call -> Int]
    BY DEF Call
<1> HIDE DEF seqs
<1>4. ASSUME NEW i \in 1..n
      PROVE  seqs[i] \in Seq(Call) /\ SumFunction(Weights(w, seqs[i])) = parts[p[i]]
    <2> DEFINE x == CallOf(t, wants, parts, "transfer", p[i])
               y == CallOf(t, wants, parts, "announce", q[i])
    <2>1. x \in Call /\ y \in Call
        BY <1>2, CallTyped
    <2>2. seqs[i] = <<x, y>>
        BY <1>1
    <2>3. x.is = "transfer" /\ x.value = parts[p[i]] /\ y.is = "announce"
        BY DEF CallOf
    <2>4. parts[p[i]] \in Nat
        BY <1>2
    <2> DEFINE v == parts[p[i]]
    <2>5. w[x] = v /\ w[y] = 0
        BY <2>1, <2>3
    <2> HIDE DEF x, y, w, v
    <2>6. Weights(w, <<x, y>>) = <<v, 0>>
        BY <2>5 DEF Weights
    <2>7. SumFunction(<<v, 0>>) = v
        <3>1. v \in Int
            BY <2>4 DEF v
        <3> QED BY <3>1, PairSum
    <2>8. seqs[i] \in Seq(Call)
        BY <2>1, <2>2
    <2> QED BY <2>2, <2>6, <2>7, <2>8 DEF v
<1>5. SumFunction(Weights(w, FlattenSeq(seqs)))
          = SumFunctionOnSet([i \in DOMAIN seqs |-> SumFunction(Weights(w, seqs[i]))], DOMAIN seqs)
    <2> DEFINE U == Call
    <2>1. w \in [U -> Int] /\ \A i \in DOMAIN seqs : seqs[i] \in Seq(U)
        BY <1>1, <1>3, <1>4
    <2> HIDE DEF U, w
    <2> QED BY <1>1, <2>1, FlattenSum
<1>6. [i \in DOMAIN seqs |-> SumFunction(Weights(w, seqs[i]))] = [i \in 1..Len(parts) |-> parts[p[i]]]
    <2> HIDE DEF w
    <2>1. DOMAIN seqs = 1..Len(parts) /\ \A i \in 1..Len(parts) : SumFunction(Weights(w, seqs[i])) = parts[p[i]]
        BY <1>1, <1>4
    <2> QED BY <2>1
<1>7. SumFunction(Weights(w, batch)) = SumFunction(parts)
    <2> HIDE DEF w
    <2>1. SumFunctionOnSet([i \in 1..Len(parts) |-> parts[p[i]]], 1..Len(parts)) = SumFunction(parts)
        BY PermutedSum
    <2> QED BY <1>1, <1>5, <1>6, <2>1 DEF seqs
<1>8. Weights(w, batch) = [k \in DOMAIN batch |-> IF batch[k].is = "transfer" THEN batch[k].value ELSE 0]
    BY DEF Weights
<1> QED
    BY <1>7, <1>8 DEF StillToPay

\* The calls of a deposit are to its own addresses, each of which is announced by
\* exactly one call, and pay its parts; for one part the transfer is the first.
LEMMA DepositBatch ==
    ASSUME NEW t \in Transfers, NEW wants \in RequestType, NEW parts \in Seq(Nat),
           Len(parts) <= MaxRecipientPool, NEW batch \in DepositCalls(t, wants, parts)
    PROVE  /\ batch \in Seq(Call)
           /\ \A k \in DOMAIN batch : batch[k].to \in DepositPool(t) /\ batch[k].type = wants.type
           /\ \A k \in DOMAIN batch : \E j \in DOMAIN batch :
                 batch[j].is = "announce" /\ batch[j].to = batch[k].to
           /\ \A j, k \in DOMAIN batch :
                 batch[j].is = "announce" /\ batch[k].is = "announce" /\ batch[j].to = batch[k].to => j = k
           /\ StillToPay(batch) = SumFunction(parts)
           /\ Len(parts) = 1 => batch = <<CallOf(t, wants, parts, "transfer", 1),
                                          CallOf(t, wants, parts, "announce", 1)>>
<1> DEFINE n == Len(parts)
           T(i) == CallOf(t, wants, parts, "transfer", i)
           A(i) == CallOf(t, wants, parts, "announce", i)
<1>1. PICK p \in SetToSeqs(1..n), q \in SetToSeqs(1..n) :
          BatchOf(t, wants, parts, p, q, batch) /\ batch = FlattenSeq(Turns(t, wants, parts, p, q))
    BY BatchesTaken
<1>2. /\ batch \in Seq(Call) /\ Len(batch) = 2 * n /\ DOMAIN batch = 1..(2 * n)
      /\ \A i \in 1..n : batch[2 * i - 1] = T(p[i]) /\ batch[2 * i] = A(q[i])
      /\ \A k \in DOMAIN batch : \E i \in 1..n : k = 2 * i - 1 \/ k = 2 * i
    BY <1>1 DEF BatchOf
<1>3. /\ \A i \in 1..n : p[i] \in 1..n /\ q[i] \in 1..n
      /\ \A i, j \in 1..n : q[i] = q[j] => i = j
      /\ \A i \in 1..n : \E j \in 1..n : q[j] = i
    <2>0. n \in Nat
        OBVIOUS
    <2> HIDE DEF n, T, A
    <2>1. p \in [1..n -> 1..n]
        BY <2>0, PermutationFacts
    <2>2. /\ q \in [1..n -> 1..n]
          /\ \A i, j \in 1..n : q[i] = q[j] => i = j
          /\ \A i \in 1..n : \E j \in 1..n : q[j] = i
        BY <2>0, PermutationFacts
    <2> QED BY <2>1, <2>2
<1>4. \A i \in 1..n : /\ T(i).is = "transfer" /\ A(i).is = "announce"
                      /\ T(i).to = <<"deposit", t, i>> /\ A(i).to = <<"deposit", t, i>>
                      /\ T(i).type = wants.type /\ A(i).type = wants.type
                      /\ T(i).to \in DepositPool(t) /\ A(i).to \in DepositPool(t)
    BY CallTyped DEF CallOf
<1> HIDE DEF T, A
<1>5. ASSUME NEW k \in DOMAIN batch
      PROVE  /\ batch[k].to \in DepositPool(t) /\ batch[k].type = wants.type
             /\ \E j \in DOMAIN batch : batch[j].is = "announce" /\ batch[j].to = batch[k].to
             /\ batch[k].is = "announce" => \E i \in 1..n : k = 2 * i /\ batch[k].to = <<"deposit", t, q[i]>>
    <2>1. PICK i \in 1..n : k = 2 * i - 1 \/ k = 2 * i
        BY <1>2
    <2>a. T(p[i]) = batch[2 * i - 1] /\ A(q[i]) = batch[2 * i] /\ p[i] \in 1..n /\ q[i] \in 1..n
        BY <1>2, <1>3
    <2>2. PICK m \in 1..n : batch[k] = T(m) \/ (batch[k] = A(m) /\ k = 2 * i /\ m = q[i])
        BY <2>1, <2>a
    <2>3. PICK j \in 1..n : q[j] = m
        BY <1>3
    <2>4. 2 * j \in DOMAIN batch /\ batch[2 * j] = A(m)
        BY <1>2, <2>3
    <2> HIDE DEF n
    <2> QED BY <1>4, <2>2, <2>4
<1>6. ASSUME NEW j \in DOMAIN batch, NEW k \in DOMAIN batch,
             batch[j].is = "announce", batch[k].is = "announce", batch[j].to = batch[k].to
      PROVE  j = k
    <2>1. PICK x \in 1..n : j = 2 * x /\ batch[j].to = <<"deposit", t, q[x]>>
        BY <1>5, <1>6
    <2>2. PICK y \in 1..n : k = 2 * y /\ batch[k].to = <<"deposit", t, q[y]>>
        BY <1>5, <1>6
    <2>3. q[x] = q[y]
        BY <1>6, <2>1, <2>2
    <2>4. x = y
        BY <1>3, <2>3
    <2> QED BY <2>1, <2>2, <2>4
<1>7. StillToPay(batch) = SumFunction(parts)
    BY <1>1, <1>2, BatchPays
<1>8. ASSUME n = 1
      PROVE  batch = <<T(1), A(1)>>
    <2>1. p[1] = 1 /\ q[1] = 1 /\ 1 \in 1..n
        BY <1>3, <1>8
    <2>2. Len(batch) = 2 /\ batch[1] = T(1) /\ batch[2] = A(1) /\ batch \in Seq(Call)
        <3>1. batch[2 * 1 - 1] = T(p[1]) /\ batch[2 * 1] = A(q[1])
            BY <1>2, <2>1
        <3> QED BY <1>2, <1>8, <2>1, <3>1
    <2> QED BY <2>2
<1> QED
    BY <1>2, <1>5, <1>6, <1>7, <1>8 DEF T, A

\* A step that does not touch the addresses of a deposit leaves it as it is.
LEMMA DepositStays ==
    ASSUME IInv, NEW t \in Transfers, request' = request, calls'[t] = calls[t], phase'[t] = phase[t],
           balance' \in [Addresses -> Nat],
           \A a \in DepositPool(t) : /\ balance'[a] = balance[a] /\ TokensAt(a)' = TokensAt(a)
                                     /\ AnnouncedAt(a)' = AnnouncedAt(a)
                                     /\ a \in isShardSpent' <=> a \in isShardSpent
    PROVE  DepositAnnounced(t)' /\ DepositArrives(t)'
<1>1. DepositAnnounced(t) /\ DepositArrives(t)
    BY DEF IInv, DepositsAnnounced, DepositsArrive
<1>2. \A a \in DepositPool(t) : /\ Untouched(a)' <=> Untouched(a)
                                /\ Holds(a)' <=> Holds(a)
    BY DEF Untouched, Holds, TokensAt
<1>3. DepositAnnounced(t)'
    BY <1>1, <1>2 DEF DepositAnnounced, Announces
<1>4. /\ Outstanding(t)' = Outstanding(t)
      /\ Depositing(t)' <=> Depositing(t)
      /\ \A is : DepositOf(t, is)' = DepositOf(t, is)
    BY DEF Outstanding, Depositing, DepositOf
<1>5. SumFunctionOnSet(balance', DepositPool(t)) = SumFunctionOnSet(balance, DepositPool(t))
    <2>1. balance \in [Addresses -> Nat] /\ DepositPool(t) \subseteq Addresses
        BY Apart DEF IInv, TypeOK
    <2>2. \A a \in DepositPool(t) : /\ balance[a] \in Int /\ balance'[a] \in Int
                                    /\ balance'[a] = balance[a]
        BY <2>1
    <2> QED BY <2>2, FinitelyMany, SumCompare
<1>6. request[t].type = "ERC721" /\ ownerOf[request[t].value] \in DepositPool(t) =>
          ownerOf'[request[t].value] \in DepositPool(t)
    <2>1. request[t].type = "ERC721" => request[t].value \in Tokens
        BY RequestsTyped DEF IInv, TypeOK
    <2> QED BY <2>1 DEF TokensAt
<1>7. DepositArrives(t)'
    <2>1. /\ request'[t] = request[t] /\ phase'[t] = phase[t] /\ calls'[t] = calls[t]
          /\ DepositOf(t, "transfer")' = DepositOf(t, "transfer")
          /\ DepositOf(t, "announce")' = DepositOf(t, "announce")
        BY <1>4
    <2>2. request'[t].type = "ERC20" /\ Depositing(t)' =>
              SumFunctionOnSet(balance', DepositPool(t)) + Outstanding(t)' = request'[t].value
        BY <1>1, <1>4, <1>5, <2>1 DEF DepositArrives
    <2>3. request'[t].type = "ERC721" /\ phase'[t] = "depositing" =>
              calls'[t] \in {<<DepositOf(t, "transfer")', DepositOf(t, "announce")'>>,
                             <<DepositOf(t, "announce")'>>}
        BY <1>1, <2>1 DEF DepositArrives
    <2>4. request'[t].type = "ERC721" /\ Depositing(t)'
              /\ calls'[t] # <<DepositOf(t, "transfer")', DepositOf(t, "announce")'>> =>
              ownerOf'[request'[t].value] \in DepositPool(t)
        BY <1>1, <1>4, <1>6, <2>1 DEF DepositArrives
    <2> QED BY <2>2, <2>3, <2>4 DEF DepositArrives
<1> QED
    BY <1>3, <1>7

\* preparePrivateDeposit writes only the calls it returns.
LEMMA PrepareDepositKeeps ==
    ASSUME IInv, NEW t \in Transfers, PrepareDeposit(t)
    PROVE  IInv'
<1> DEFINE wants == request[t]
<1>1. /\ phase[t] = "new" /\ wants.mode = "deposit"
      /\ phase' = [phase EXCEPT ![t] = "depositing"]
      /\ UNCHANGED <<chain, shardStore, wallet, relayed>>
    BY DEF PrepareDeposit
<1>2. PICK parts \in IF wants.type = "ERC721" THEN {<<wants.value>>} ELSE Cuts(wants.value) :
          \E batch \in DepositCalls(t, wants, parts) : calls' = [calls EXCEPT ![t] = batch]
    BY DEF PrepareDeposit
<1>3. PICK batch \in DepositCalls(t, wants, parts) : calls' = [calls EXCEPT ![t] = batch]
    BY <1>2
<1>4. /\ request \in Requests /\ wants \in RequestType
      /\ wants.type \in {"ERC20", "ERC721"} /\ wants.value \in Nat
    BY RequestsTyped DEF IInv, TypeOK
<1> HIDE DEF wants
<1>5. /\ parts \in Seq(Nat) /\ Len(parts) <= MaxRecipientPool
      /\ wants.type = "ERC20" => SumFunction(parts) = wants.value
      /\ wants.type = "ERC721" => Len(parts) = 1 /\ parts[1] = wants.value
    <2>0. MaxRecipientPool \in Nat /\ MaxRecipientPool > 0 /\ MaxSplits \in Nat
              /\ MaxSplits <= MaxRecipientPool
        BY PoolAssumption, TransfersAssumption
    <2>1. CASE wants.type = "ERC20"
        <3>1. parts \in Cuts(wants.value)
            BY <1>2, <2>1
        <3>2. parts \in Seq(Nat) /\ SumFunction(parts) = wants.value /\ Len(parts) <= MaxSplits
            BY <1>4, <3>1, CutAddsUp
        <3>3. Len(parts) \in Nat
            BY <3>2
        <3> QED BY <2>0, <2>1, <3>2, <3>3
    <2>2. CASE wants.type = "ERC721"
        <3>1. parts = <<wants.value>>
            BY <1>2, <2>2
        <3> QED BY <1>4, <2>0, <2>2, <3>1
    <2> QED BY <1>4, <2>1, <2>2
<1>6. /\ batch \in Seq(Call)
      /\ \A k \in DOMAIN batch : batch[k].to \in DepositPool(t) /\ batch[k].type = wants.type
      /\ \A k \in DOMAIN batch : \E j \in DOMAIN batch :
            batch[j].is = "announce" /\ batch[j].to = batch[k].to
      /\ \A j, k \in DOMAIN batch :
            batch[j].is = "announce" /\ batch[k].is = "announce" /\ batch[j].to = batch[k].to => j = k
      /\ StillToPay(batch) = SumFunction(parts)
      /\ Len(parts) = 1 => batch = <<CallOf(t, wants, parts, "transfer", 1),
                                     CallOf(t, wants, parts, "announce", 1)>>
    BY <1>3, <1>4, <1>5, DepositBatch
<1>7. /\ phase' \in [Transfers -> Phases] /\ phase'[t] = "depositing"
      /\ \A s \in Transfers : s # t => phase'[s] = phase[s]
    BY <1>1, PhaseSet DEF Phases
<1>8. /\ DOMAIN calls' = Transfers /\ calls'[t] = batch
      /\ \A s \in Transfers : s # t => calls'[s] = calls[s]
    BY <1>3 DEF IInv, Shape
<1>9. /\ request' = request /\ inputs' = inputs /\ bundle' = bundle /\ shardStore' = shardStore
      /\ UNCHANGED <<balance, ownerOf, isShardSpent, announced>> /\ relayed' = relayed
    BY <1>1 DEF wallet, chain
<1>10. \A s \in Transfers : /\ Succeeded(s)' <=> Succeeded(s)
                            /\ Built(s)' <=> Built(s)
                            /\ phase[s] = "sent" => phase'[s] = "sent"
    BY <1>1, <1>7 DEF Succeeded, Built
<1>11. /\ balance' \in [Addresses -> Nat]
       /\ \A a : /\ TokensAt(a)' = TokensAt(a) /\ AnnouncedAt(a)' = AnnouncedAt(a)
                 /\ Holds(a)' <=> Holds(a)
    BY <1>9 DEF IInv, TypeOK, TokensAt, AnnouncedAt, Holds
<1>12. ASSUME NEW a \in DepositPool(t)
       PROVE  Untouched(a) /\ ~Holds(a)
    <2>1. Untouched(a)
        BY <1>1 DEF IInv, DepositsAnnounced, DepositAnnounced
    <2> QED BY <2>1 DEF Untouched, Holds, TokensAt
<1>13. DepositAnnounced(t)'
    <2>1. ASSUME NEW a \in DepositPool(t)
          PROVE  /\ TokensAt(a)' \subseteq Ids(request'[t])
                 /\ \A k \in DOMAIN calls'[t] : Announces(t, k, a)' =>
                       /\ AnnouncedAt(a)' = {}
                       /\ \A j \in DOMAIN calls'[t] : Announces(t, j, a)' => j = k
                 /\ Holds(a)' \/ (\E k \in DOMAIN calls'[t] : calls'[t][k].to = a) =>
                       AnnouncedAt(a)' # {} \/ \E k \in DOMAIN calls'[t] : Announces(t, k, a)'
        <3>1. TokensAt(a)' = {} /\ AnnouncedAt(a)' = {} /\ ~Holds(a)'
            BY <1>11, <1>12 DEF Untouched
        <3>2. \A k : Announces(t, k, a)' <=> batch[k].is = "announce" /\ batch[k].to = a
            BY <1>8 DEF Announces
        <3> QED BY <1>6, <1>8, <3>1, <3>2
    <2>2. /\ calls'[t] \in Seq(Call)
          /\ \A k \in DOMAIN calls'[t] : /\ calls'[t][k].to \in DepositPool(t)
                                         /\ calls'[t][k].type = request'[t].type
        BY <1>6, <1>8, <1>9 DEF wants
    <2> QED BY <1>7, <2>1, <2>2 DEF DepositAnnounced
<1>14. DepositArrives(t)'
    <2>1. CASE wants.type = "ERC20"
        <3>1. SumFunctionOnSet(balance, DepositPool(t)) = 0
            <4>1. \A a \in DepositPool(t) : balance[a] = 0
                BY <1>12 DEF Untouched
            <4> QED BY <4>1, FinitelyMany, SumZero
        <3>2. Outstanding(t)' = StillToPay(batch)
            BY <1>8 DEF Outstanding, StillToPay
        <3>3. SumFunctionOnSet(balance', DepositPool(t)) + Outstanding(t)' = request'[t].value
            BY <1>4, <1>5, <1>6, <1>9, <2>1, <3>1, <3>2 DEF wants
        <3>4. request'[t].type = "ERC20"
            BY <1>9, <2>1 DEF wants
        <3> QED BY <3>3, <3>4 DEF DepositArrives
    <2>2. CASE wants.type = "ERC721"
        <3>1. /\ CallOf(t, wants, parts, "transfer", 1) = DepositOf(t, "transfer")'
              /\ CallOf(t, wants, parts, "announce", 1) = DepositOf(t, "announce")'
            BY <1>5, <1>9, <2>2 DEF CallOf, DepositOf, wants
        <3>2. calls'[t] = <<DepositOf(t, "transfer")', DepositOf(t, "announce")'>>
            BY <1>5, <1>6, <1>8, <2>2, <3>1
        <3>3. request'[t].type = "ERC721"
            BY <1>9, <2>2 DEF wants
        <3> QED BY <3>2, <3>3 DEF DepositArrives
    <2> QED BY <1>4, <2>1, <2>2
<1>15. DepositsAnnounced' /\ DepositsArrive'
    <2>1. ASSUME NEW s \in Transfers, s # t
          PROVE  DepositAnnounced(s)' /\ DepositArrives(s)'
        <3>1. calls'[s] = calls[s] /\ phase'[s] = phase[s]
            BY <1>7, <1>8, <2>1
        <3> QED BY <1>9, <1>11, <3>1, DepositStays
    <2> QED BY <1>13, <1>14, <2>1 DEF DepositsAnnounced, DepositsArrive
<1>16. OwnPools' /\ AnnouncementsKept' /\ TokensDelivered' /\ PublicPaid'
    <2>1. UNCHANGED <<request, chain>>
        BY <1>1, <1>9
    <2> QED BY <1>9, <1>10, <2>1, ChainKept
<1>17. Bundles'
    <2>1. Bundles /\ ~Built(t)
        BY <1>1 DEF IInv, Built
    <2>2. ASSUME NEW s \in Transfers
          PROVE  phase'[s] \in {"depositing", "deposited"} => request'[s].mode = "deposit"
        BY <1>1, <1>7, <1>9, <2>1 DEF Bundles, wants
    <2> QED BY <1>9, <1>10, <2>1, <2>2 DEF Bundles
<1>18. StoreKept'
    <2>1. \A s \in Transfers : Built(s) => Built(s)' /\ bundle'[s] = bundle[s]
        BY <1>9, <1>10
    <2> QED BY <1>1, <2>1, StoreUnchanged
<1>19. Queue'
    BY <1>9, <1>10, QueueUnchanged
<1>20. Shape'
    <2>1. DOMAIN inputs' = Transfers /\ DOMAIN bundle' = Transfers
        BY <1>9 DEF IInv, Shape
    <2> QED BY <1>8, <1>9, <2>1, ShapeKept
<1>21. TypeOK'
    <2>1. relayed' \in Seq(Transfers)
        BY <1>9 DEF IInv, Queue
    <2> QED BY <1>1, <1>7, <1>9, <2>1, StoreTyped, TypesKept
<1> QED
    BY <1>15, <1>16, <1>17, <1>18, <1>19, <1>20, <1>21 DEF IInv

\* What a call is to pay.
Pays(call) == IF call.is = "transfer" THEN call.value ELSE 0

\* The first call of a batch is made.
LEMMA FirstCall ==
    ASSUME NEW c \in Seq(Call), c # <<>>
    PROVE  /\ Len(c) \in Nat /\ Len(c) # 0 /\ DOMAIN c = 1..Len(c)
           /\ Tail(c) \in Seq(Call) /\ Len(Tail(c)) = Len(c) - 1
           /\ DOMAIN Tail(c) = 1..(Len(c) - 1)
           /\ \A k \in DOMAIN Tail(c) : k + 1 \in DOMAIN c /\ Tail(c)[k] = c[k + 1]
           /\ \A k \in DOMAIN c : k = 1 \/ (k - 1 \in DOMAIN Tail(c) /\ c[k] = Tail(c)[k - 1])
           /\ 1 \in DOMAIN c /\ Head(c) = c[1] /\ c[1] \in Call
           /\ StillToPay(Tail(c)) \in Int
           /\ StillToPay(c) = Pays(c[1]) + StillToPay(Tail(c))
<1> DEFINE r == Tail(c)
<1>1. /\ Len(c) \in Nat /\ Len(c) # 0 /\ DOMAIN c = 1..Len(c)
      /\ \A k \in DOMAIN c : c[k] \in Call
    OBVIOUS
<1>2. /\ r \in Seq(Call) /\ Len(r) = Len(c) - 1 /\ DOMAIN r = 1..(Len(c) - 1)
      /\ \A k \in DOMAIN r : r[k] = c[k + 1]
      /\ Head(c) = c[1]
    OBVIOUS
<1> HIDE DEF r
<1>3. /\ \A k \in DOMAIN r : k + 1 \in DOMAIN c
      /\ \A k \in DOMAIN c : k = 1 \/ (k - 1 \in DOMAIN r /\ c[k] = r[k - 1])
      /\ 1 \in DOMAIN c
    <2>1. \A k \in DOMAIN c : k # 1 => k - 1 \in DOMAIN r /\ r[k - 1] = c[(k - 1) + 1]
        BY <1>1, <1>2
    <2>2. \A k \in DOMAIN c : (k - 1) + 1 = k
        BY <1>1
    <2>3. \A k \in DOMAIN c : k # 1 => k - 1 \in DOMAIN r /\ r[k - 1] = c[k]
        BY <2>1, <2>2
    <2>4. (\A k \in DOMAIN r : k + 1 \in DOMAIN c) /\ 1 \in DOMAIN c
        BY <1>1, <1>2
    <2> QED BY <2>3, <2>4
<1> DEFINE f == [k \in DOMAIN c |-> Pays(c[k])]
           g == [k \in DOMAIN r |-> Pays(r[k])]
<1>4. \A x \in Call : Pays(x) \in Nat /\ Pays(x) \in Int
    BY DEF Pays, Call
<1>5. /\ g \in Seq(Int) /\ Len(g) = Len(c) - 1
      /\ \A k \in 1..(Len(c) - 1) : g[k] = Pays(c[k + 1])
    <2>1. g \in [1..(Len(c) - 1) -> Int] /\ \A k \in 1..(Len(c) - 1) : g[k] = Pays(r[k])
        BY <1>2, <1>4
    <2> HIDE DEF g, f
    <2>2. Len(c) - 1 \in Nat
        BY <1>1
    <2>3. g \in Seq(Int) /\ Len(g) = Len(c) - 1
        BY <2>1, <2>2
    <2>4. \A k \in 1..(Len(c) - 1) : Pays(r[k]) = Pays(c[k + 1])
        BY <1>2
    <2> QED BY <2>1, <2>3, <2>4
<1>6. /\ f \in Seq(Int) /\ Len(f) = Len(c)
      /\ \A k \in 1..Len(c) : f[k] = Pays(c[k])
    <2>1. f \in [1..Len(c) -> Int] /\ \A k \in 1..Len(c) : f[k] = Pays(c[k])
        BY <1>1, <1>4
    <2> HIDE DEF f
    <2> QED BY <1>1, <2>1
<1>7. f = <<Pays(c[1])>> \o g
    <2> DEFINE x == Pays(c[1])
               h == <<x>> \o g
    <2>1. x \in Int /\ <<x>> \in Seq(Int) /\ Len(<<x>>) = 1 /\ <<x>>[1] = x
        BY <1>1, <1>3, <1>4
    <2> HIDE DEF f, g, x
    <2>2. /\ h \in Seq(Int) /\ Len(h) = Len(c) /\ h[1] = x
          /\ \A k \in 1..(Len(c) - 1) : h[1 + k] = g[k]
        <3> DEFINE u == <<x>>
        <3>1. u \in Seq(Int) /\ Len(u) = 1 /\ u[1] = x
            BY <2>1
        <3> HIDE DEF u
        <3>2. /\ u \o g \in Seq(Int) /\ Len(u \o g) = Len(u) + Len(g)
              /\ \A j \in 1..Len(u) : (u \o g)[j] = u[j]
              /\ \A j \in 1..Len(g) : (u \o g)[Len(u) + j] = g[j]
            <4> DEFINE U == Int
            <4>1. u \in Seq(U) /\ g \in Seq(U)
                BY <1>5, <3>1
            <4> HIDE DEF U
            <4>2. /\ u \o g \in Seq(U) /\ Len(u \o g) = Len(u) + Len(g)
                  /\ \A j \in 1..Len(u) : (u \o g)[j] = u[j]
                  /\ \A j \in 1..Len(g) : (u \o g)[Len(u) + j] = g[j]
                BY <4>1, ConcatFacts
            <4> QED BY <4>2 DEF U
        <3>3. /\ u \o g \in Seq(Int) /\ Len(u \o g) = Len(c) /\ (u \o g)[1] = x
              /\ \A k \in 1..(Len(c) - 1) : (u \o g)[1 + k] = g[k]
            BY <1>1, <1>5, <3>1, <3>2
        <3> QED BY <3>3 DEF u
    <2> HIDE DEF h
    <2>3. \A k \in 1..Len(c) : h[k] = f[k]
        <3> SUFFICES ASSUME NEW k \in 1..Len(c) PROVE h[k] = f[k]
            OBVIOUS
        <3>1. CASE k = 1
            BY <1>1, <1>3, <1>6, <2>2, <3>1 DEF x
        <3>2. CASE k # 1
            <4>1. k - 1 \in 1..(Len(c) - 1) /\ 1 + (k - 1) = k /\ (k - 1) + 1 = k
                BY <1>1, <3>2
            <4>2. h[1 + (k - 1)] = g[k - 1] /\ g[k - 1] = Pays(c[(k - 1) + 1])
                BY <1>5, <2>2, <4>1
            <4> QED BY <1>6, <4>1, <4>2
        <3> QED BY <3>1, <3>2
    <2>4. f = h
        BY <1>6, <2>2, <2>3
    <2> QED BY <2>4 DEF h, x
<1>8. StillToPay(c) = SumFunction(f) /\ StillToPay(r) = SumFunction(g)
    BY DEF StillToPay, Pays
<1>9. SumFunction(g) \in Int /\ SumFunction(f) = Pays(c[1]) + SumFunction(g)
    <2>1. Pays(c[1]) \in Int
        BY <1>1, <1>3, <1>4
    <2> HIDE DEF f, g
    <2> QED BY <1>5, <1>7, <2>1, SumCons, SequenceSum
<1> QED
    BY <1>1, <1>2, <1>3, <1>8, <1>9 DEF r

\* What the next call of a deposit does to the chain.
CallEffect(t, call) ==
    /\ calls[t] \in Seq(Call) /\ calls[t] # <<>> /\ phase[t] = "depositing"
    /\ call.to \in DepositPool(t) /\ call.type = request[t].type /\ call \in Call
    /\ Ids(call) \subseteq Tokens /\ Ids(call) \subseteq Ids(request[t])
    /\ request[t].type = "ERC20" => Ids(call) = {} /\ Amount(call) = call.value
    /\ request[t].type = "ERC721" /\ call.is = "transfer" =>
          /\ calls[t] = <<DepositOf(t, "transfer"), DepositOf(t, "announce")>>
          /\ Ids(call) = {request[t].value} /\ Amount(call) = 0
    /\ balance' \in [Addresses -> Nat] /\ ownerOf' \in [Tokens -> Addresses \cup {Sender}]
    /\ \A a \in Addresses : a # call.to =>
          /\ balance'[a] = balance[a] /\ TokensAt(a)' = TokensAt(a)
          /\ AnnouncedAt(a)' = AnnouncedAt(a)
    /\ call.is = "transfer" =>
          /\ balance'[call.to] = balance[call.to] + Amount(call) /\ announced' = announced
          /\ TokensAt(call.to)' = TokensAt(call.to) \cup Ids(call)
          /\ \A id \in Tokens : ownerOf'[id] = IF id \in Ids(call) THEN call.to ELSE ownerOf[id]
          /\ \A id \in Ids(call) : ownerOf[id] = Sender
    /\ call.is = "announce" =>
          /\ balance' = balance /\ ownerOf' = ownerOf
          /\ AnnouncedAt(call.to) = {}
          /\ announced' = announced \cup {[stealthAddress |-> call.to, type |-> call.type,
                                           value |-> call.value]}
          /\ AnnouncedAt(call.to)' = {[stealthAddress |-> call.to, type |-> call.type,
                                       value |-> call.value]}
    /\ call.is \in {"transfer", "announce"}

\* What a call of a deposit does to the chain.
LEMMA CallEffects ==
    ASSUME IInv, NEW t \in Transfers, CallMined(t), NEW call, call = calls[t][1]
    PROVE  CallEffect(t, call)
<1>1. DepositAnnounced(t) /\ DepositArrives(t) /\ calls[t] # <<>>
    BY DEF IInv, DepositsAnnounced, DepositsArrive, CallMined
<1>2. /\ calls[t] \in Seq(Call) /\ phase[t] = "depositing"
      /\ 1 \in DOMAIN calls[t] /\ call = Head(calls[t]) /\ call \in Call
      /\ call.to \in DepositPool(t) /\ call.type = request[t].type
    <2>1. calls[t] \in Seq(Call) /\ phase[t] = "depositing"
        BY <1>1 DEF DepositAnnounced
    <2>2. 1 \in DOMAIN calls[t] /\ Head(calls[t]) = calls[t][1] /\ calls[t][1] \in Call
        BY <1>1, <2>1, FirstCall
    <2> QED BY <1>1, <2>1, <2>2 DEF DepositAnnounced
<1>3. \/ /\ call.is = "transfer"
         /\ \A id \in Ids(call) : ownerOf[id] = Sender
         /\ balance' = [balance EXCEPT ![call.to] = @ + Amount(call)]
         /\ ownerOf' = [id \in Tokens |-> IF id \in Ids(call) THEN call.to ELSE ownerOf[id]]
         /\ announced' = announced
      \/ /\ call.is = "announce"
         /\ announced' = announced \cup {[stealthAddress |-> call.to, type |-> call.type,
                                          value |-> call.value]}
         /\ balance' = balance /\ ownerOf' = ownerOf
    BY <1>2 DEF CallMined
<1>4. /\ balance \in [Addresses -> Nat] /\ ownerOf \in [Tokens -> Addresses \cup {Sender}]
      /\ call.to \in Addresses /\ Sender \notin Addresses
    BY <1>2, Apart DEF IInv, TypeOK
<1>5. /\ request[t].type \in {"ERC20", "ERC721"} /\ request[t].value \in Nat
      /\ request[t].type = "ERC721" => request[t].value \in Tokens
    BY RequestsTyped DEF IInv, TypeOK
<1>6. request[t].type = "ERC721" =>
         /\ Ids(call) = {request[t].value} /\ Amount(call) = 0
         /\ call.is = "transfer" => calls[t] = <<DepositOf(t, "transfer"), DepositOf(t, "announce")>>
    <2> SUFFICES ASSUME request[t].type = "ERC721"
                 PROVE  /\ Ids(call) = {request[t].value} /\ Amount(call) = 0
                        /\ call.is = "transfer" =>
                              calls[t] = <<DepositOf(t, "transfer"), DepositOf(t, "announce")>>
        OBVIOUS
    <2>1. \/ calls[t] = <<DepositOf(t, "transfer"), DepositOf(t, "announce")>>
          \/ calls[t] = <<DepositOf(t, "announce")>>
        BY <1>1, <1>2 DEF DepositArrives
    <2>2. \/ /\ calls[t] = <<DepositOf(t, "transfer"), DepositOf(t, "announce")>>
             /\ call = DepositOf(t, "transfer")
          \/ call = DepositOf(t, "announce")
        BY <2>1
    <2> QED BY <2>2 DEF DepositOf, Ids, Amount
<1>7. request[t].type = "ERC20" => Ids(call) = {} /\ Amount(call) = call.value
    BY <1>2 DEF Ids, Amount
<1>8. Ids(call) \subseteq Tokens /\ Ids(call) \subseteq Ids(request[t]) /\ Amount(call) \in Nat
    <2>1. CASE request[t].type = "ERC20"
        <3>1. call.value \in Nat
            BY <1>2 DEF Call
        <3> QED BY <1>7, <2>1, <3>1
    <2>2. CASE request[t].type = "ERC721"
        <3>1. Ids(request[t]) = {request[t].value}
            BY <2>2 DEF Ids
        <3> QED BY <1>5, <1>6, <2>2, <3>1
    <2> QED BY <1>5, <2>1, <2>2
<1>9. call.is = "announce" => AnnouncedAt(call.to) = {}
    BY <1>1, <1>2 DEF DepositAnnounced, Announces
<1>10. CASE call.is = "transfer"
    <2>1. /\ \A id \in Ids(call) : ownerOf[id] = Sender
          /\ balance' = [balance EXCEPT ![call.to] = @ + Amount(call)]
          /\ ownerOf' = [id \in Tokens |-> IF id \in Ids(call) THEN call.to ELSE ownerOf[id]]
          /\ announced' = announced
        BY <1>3, <1>10
    <2>2. /\ balance' \in [Addresses -> Nat] /\ ownerOf' \in [Tokens -> Addresses \cup {Sender}]
          /\ \A a \in Addresses : a # call.to => balance'[a] = balance[a]
          /\ balance'[call.to] = balance[call.to] + Amount(call)
          /\ \A id \in Tokens : ownerOf'[id] = IF id \in Ids(call) THEN call.to ELSE ownerOf[id]
        BY <1>4, <1>8, <2>1
    <2>3. \A a : AnnouncedAt(a)' = AnnouncedAt(a)
        BY <2>1 DEF AnnouncedAt
    <2>4. ASSUME NEW a \in Addresses
          PROVE  /\ a # call.to => TokensAt(a)' = TokensAt(a)
                 /\ a = call.to => TokensAt(a)' = TokensAt(a) \cup Ids(call)
        BY <1>4, <1>8, <2>1, <2>2 DEF TokensAt
    <2>5. call.is # "announce" /\ call.is \in {"transfer", "announce"}
        BY <1>10
    <2> QED BY <1>1, <1>2, <1>4, <1>6, <1>7, <1>8, <2>1, <2>2, <2>3, <2>4, <2>5 DEF CallEffect
<1>11. CASE call.is = "announce"
    <2> DEFINE ann == [stealthAddress |-> call.to, type |-> call.type, value |-> call.value]
    <2>1. announced' = announced \cup {ann} /\ balance' = balance /\ ownerOf' = ownerOf
        BY <1>3, <1>11
    <2>2. ann.stealthAddress = call.to
        OBVIOUS
    <2> HIDE DEF ann
    <2>3. \A a : TokensAt(a)' = TokensAt(a)
        BY <2>1 DEF TokensAt
    <2>4. \A a : a # call.to => AnnouncedAt(a)' = AnnouncedAt(a)
        BY <2>1, <2>2 DEF AnnouncedAt
    <2>5. AnnouncedAt(call.to)' = {ann}
        BY <1>9, <1>11, <2>1, <2>2 DEF AnnouncedAt
    <2>6. call.is # "transfer" /\ call.is \in {"transfer", "announce"}
        BY <1>11
    <2> QED BY <1>1, <1>2, <1>4, <1>6, <1>7, <1>8, <1>9, <1>11, <2>1, <2>3, <2>4, <2>5, <2>6 DEF ann, CallEffect
<1> QED
    BY <1>3, <1>10, <1>11

\* The rest of a deposit is right after one of its calls.
LEMMA CallKeepsDeposit ==
    ASSUME IInv, NEW t \in Transfers, CallMined(t), phase' \in [Transfers -> Phases],
           request' = request, isShardSpent' = isShardSpent, calls'[t] = Tail(calls[t]),
           phase'[t] = IF Len(calls[t]) = 1 THEN "deposited" ELSE "depositing"
    PROVE  DepositAnnounced(t)' /\ DepositArrives(t)'
<1>0. PICK call : call = calls[t][1]
    OBVIOUS
<1>e. CallEffect(t, call)
    BY <1>0, CallEffects
<1> DEFINE c == calls[t]
           r == Tail(c)
           a0 == call.to
<1>1. /\ c \in Seq(Call) /\ c # <<>> /\ phase[t] = "depositing"
      /\ call.to \in DepositPool(t) /\ call.type = request[t].type /\ call \in Call
      /\ Ids(call) \subseteq Ids(request[t])
      /\ request[t].type = "ERC20" => Ids(call) = {} /\ Amount(call) = call.value
      /\ request[t].type = "ERC721" /\ call.is = "transfer" =>
            /\ c = <<DepositOf(t, "transfer"), DepositOf(t, "announce")>>
            /\ Ids(call) = {request[t].value}
      /\ balance' \in [Addresses -> Nat] /\ DepositPool(t) \subseteq Addresses
      /\ \A a \in Addresses : a # a0 =>
            /\ balance'[a] = balance[a] /\ TokensAt(a)' = TokensAt(a)
            /\ AnnouncedAt(a)' = AnnouncedAt(a)
      /\ call.is \in {"transfer", "announce"}
    BY <1>e, Apart DEF CallEffect
<1>2. /\ call.is = "transfer" =>
            /\ balance'[a0] = balance[a0] + Amount(call) /\ AnnouncedAt(a0)' = AnnouncedAt(a0)
            /\ TokensAt(a0)' = TokensAt(a0) \cup Ids(call)
            /\ \A id \in Tokens : ownerOf'[id] = IF id \in Ids(call) THEN a0 ELSE ownerOf[id]
      /\ call.is = "announce" =>
            /\ balance' = balance /\ ownerOf' = ownerOf /\ AnnouncedAt(a0)' # {}
    <2>1. call.is = "transfer" => announced' = announced /\ AnnouncedAt(a0)' = AnnouncedAt(a0)
        BY <1>e DEF CallEffect, AnnouncedAt
    <2> QED BY <2>1, <1>e DEF CallEffect
<1>3. DepositAnnounced(t) /\ DepositArrives(t)
    BY DEF IInv, DepositsAnnounced, DepositsArrive
<1>c. call = c[1]
    BY <1>0
<1>4. /\ Len(c) \in Nat /\ Len(c) # 0 /\ DOMAIN c = 1..Len(c)
      /\ r \in Seq(Call) /\ Len(r) = Len(c) - 1 /\ DOMAIN r = 1..(Len(c) - 1)
      /\ \A k \in DOMAIN r : k + 1 \in DOMAIN c /\ r[k] = c[k + 1]
      /\ \A k \in DOMAIN c : k = 1 \/ (k - 1 \in DOMAIN r /\ c[k] = r[k - 1])
      /\ 1 \in DOMAIN c
      /\ StillToPay(r) \in Int
      /\ StillToPay(c) = Pays(call) + StillToPay(r)
    <2> HIDE DEF c
    <2> QED BY <1>1, <1>c, FirstCall
<1>5. \A a \in DepositPool(t) : TokensAt(a)' \subseteq TokensAt(a) \cup (IF a = a0 THEN Ids(call) ELSE {})
    <2>1. call.is = "announce" => \A a : TokensAt(a)' = TokensAt(a)
        BY <1>2 DEF TokensAt
    <2> HIDE DEF a0
    <2> QED BY <1>1, <1>2, <2>1 DEF a0
<1>6. ASSUME NEW a \in DepositPool(t), Holds(a)'
      PROVE  Holds(a) \/ a = a0
    <2>1. a # a0 => balance'[a] = balance[a] /\ TokensAt(a)' = TokensAt(a)
        BY <1>1
    <2>2. Holds(a) <=> balance[a] > 0 \/ TokensAt(a) # {}
        BY DEF Holds, TokensAt
    <2>3. Holds(a)' <=> balance'[a] > 0 \/ TokensAt(a)' # {}
        BY DEF Holds, TokensAt
    <2> QED BY <1>6, <2>1, <2>2, <2>3
<1> HIDE DEF c, r, a0
<1>7. DepositAnnounced(t)'
    <2>1. ASSUME NEW a \in DepositPool(t)
          PROVE  /\ TokensAt(a) \subseteq Ids(request[t])
                 /\ \A k \in DOMAIN c : c[k].is = "announce" /\ c[k].to = a =>
                       /\ AnnouncedAt(a) = {}
                       /\ \A j \in DOMAIN c : c[j].is = "announce" /\ c[j].to = a => j = k
                 /\ Holds(a) \/ (\E k \in DOMAIN c : c[k].to = a) =>
                       AnnouncedAt(a) # {} \/ \E k \in DOMAIN c : c[k].is = "announce" /\ c[k].to = a
        BY <1>3 DEF DepositAnnounced, Announces, c
    <2>2. ASSUME NEW a \in DepositPool(t), NEW k \in DOMAIN r, r[k].is = "announce", r[k].to = a
          PROVE  /\ AnnouncedAt(a)' = {}
                 /\ \A j \in DOMAIN r : r[j].is = "announce" /\ r[j].to = a => j = k
        <3>1. k + 1 \in DOMAIN c /\ c[k + 1].is = "announce" /\ c[k + 1].to = a /\ k \in Nat /\ k # 0
            BY <1>4, <2>2
        <3>2. AnnouncedAt(a) = {} /\ \A j \in DOMAIN c : c[j].is = "announce" /\ c[j].to = a => j = k + 1
            BY <2>1, <3>1
        <3>3. AnnouncedAt(a)' = {}
            <4>1. CASE a # a0
                BY <1>1, <3>2, <4>1
            <4>2. CASE a = a0 /\ call.is = "transfer"
                BY <1>2, <3>2, <4>2
            <4>3. CASE a = a0 /\ call.is = "announce"
                <5>1. c[1].is = "announce" /\ c[1].to = a
                    BY <1>c, <4>3 DEF a0
                <5>2. 1 = k + 1
                    BY <1>4, <3>2, <5>1
                <5> QED BY <3>1, <5>2
            <4> QED BY <1>1, <4>1, <4>2, <4>3
        <3>4. ASSUME NEW j \in DOMAIN r, r[j].is = "announce", r[j].to = a
              PROVE  j = k
            <4>1. j + 1 \in DOMAIN c /\ c[j + 1].is = "announce" /\ c[j + 1].to = a /\ j \in Nat
                BY <1>4, <3>4
            <4> QED BY <3>1, <3>2, <4>1
        <3> QED BY <3>3, <3>4
    <2>3. ASSUME NEW a \in DepositPool(t), Holds(a)' \/ \E k \in DOMAIN r : r[k].to = a
          PROVE  AnnouncedAt(a)' # {} \/ \E k \in DOMAIN r : r[k].is = "announce" /\ r[k].to = a
        <3>1. Holds(a) \/ \E k \in DOMAIN c : c[k].to = a
            <4>1. CASE Holds(a)'
                <5>1. 1 \in DOMAIN c /\ c[1].to = a0
                    BY <1>c, <1>4 DEF a0
                <5> QED BY <1>6, <4>1, <5>1
            <4>2. CASE \E k \in DOMAIN r : r[k].to = a
                BY <1>4, <4>2
            <4> QED BY <2>3, <4>1, <4>2
        <3>2. AnnouncedAt(a) # {} => AnnouncedAt(a)' # {}
            BY <1>1, <1>2
        <3>3. ASSUME NEW k \in DOMAIN c, c[k].is = "announce", c[k].to = a
              PROVE  AnnouncedAt(a)' # {} \/ \E j \in DOMAIN r : r[j].is = "announce" /\ r[j].to = a
            <4>1. CASE k = 1
                BY <1>c, <1>2, <3>3, <4>1 DEF a0
            <4>2. CASE k # 1
                BY <1>4, <3>3, <4>2
            <4> QED BY <4>1, <4>2
        <3> QED BY <2>1, <3>1, <3>2, <3>3
    <2>4. ASSUME NEW a \in DepositPool(t)
          PROVE  TokensAt(a)' \subseteq Ids(request'[t])
        BY <1>1, <1>5, <2>1
    <2>5. calls'[t] = r
        BY DEF r, c
    <2>6. /\ r \in Seq(Call)
          /\ \A k \in DOMAIN r : r[k].to \in DepositPool(t) /\ r[k].type = request'[t].type
          /\ phase'[t] # "depositing" => r = <<>>
          /\ phase'[t] # "new"
        <3>1. \A k \in DOMAIN c : c[k].to \in DepositPool(t) /\ c[k].type = request[t].type
            BY <1>3 DEF DepositAnnounced, c
        <3>2. phase'[t] # "depositing" => Len(r) = 0
            BY <1>4 DEF c
        <3>3. phase'[t] # "new"
            OBVIOUS
        <3> QED BY <1>4, <3>1, <3>2, <3>3
    <2>7. \A k, a : Announces(t, k, a)' <=> r[k].is = "announce" /\ r[k].to = a
        BY <2>5 DEF Announces
    <2>8. ASSUME NEW a \in DepositPool(t)
          PROVE  /\ TokensAt(a)' \subseteq Ids(request'[t])
                 /\ \A k \in DOMAIN calls'[t] : Announces(t, k, a)' =>
                       /\ AnnouncedAt(a)' = {}
                       /\ \A j \in DOMAIN calls'[t] : Announces(t, j, a)' => j = k
                 /\ Holds(a)' \/ (\E k \in DOMAIN calls'[t] : calls'[t][k].to = a) =>
                       AnnouncedAt(a)' # {} \/ \E k \in DOMAIN calls'[t] : Announces(t, k, a)'
        <3>1. DOMAIN calls'[t] = DOMAIN r /\ \A k : calls'[t][k] = r[k]
            BY <2>5
        <3> QED BY <2>2, <2>3, <2>4, <2>7, <3>1
    <2>9. /\ calls'[t] \in Seq(Call)
          /\ \A k \in DOMAIN calls'[t] : /\ calls'[t][k].to \in DepositPool(t)
                                         /\ calls'[t][k].type = request'[t].type
          /\ phase'[t] # "depositing" => calls'[t] = <<>>
          /\ phase'[t] # "new"
        <3> HIDE DEF r
        <3> QED BY <2>5, <2>6
    <2> QED BY <2>8, <2>9 DEF DepositAnnounced
<1>8. CASE request[t].type = "ERC20"
    <2>1. Depositing(t)' => Depositing(t)
        BY <1>1 DEF Depositing
    <2>2. Outstanding(t) = StillToPay(c) /\ Outstanding(t)' = StillToPay(r)
        BY DEF Outstanding, StillToPay, c, r
    <2> DEFINE P == DepositPool(t)
    <2>3. /\ IsFiniteSet(P) /\ a0 \in P
          /\ \A a \in P : balance[a] \in Int /\ balance'[a] \in Int
          /\ \A a \in P \ {a0} : balance[a] = balance'[a]
        <3>1. balance \in [Addresses -> Nat]
            BY DEF IInv, TypeOK
        <3> QED BY <1>1, <3>1, FinitelyMany DEF a0
    <2>4. SumFunctionOnSet(balance', P) = SumFunctionOnSet(balance, P) - balance[a0] + balance'[a0]
        <3> HIDE DEF P
        <3> QED BY <2>3, SumChange
    <2>5. balance'[a0] = balance[a0] + Pays(call) /\ Pays(call) \in Nat
        <3>1. call.value \in Nat
            BY <1>1 DEF Call
        <3>2. CASE call.is = "transfer"
            BY <1>1, <1>2, <1>8, <3>1, <3>2 DEF Pays
        <3>3. CASE call.is = "announce"
            <4>1. balance'[a0] = balance[a0] /\ Pays(call) = 0
                BY <1>2, <3>3 DEF Pays
            <4> QED BY <2>3, <4>1
        <3> QED BY <1>1, <3>2, <3>3
    <2>6. Depositing(t)' => SumFunctionOnSet(balance, P) + Outstanding(t) = request[t].value
        BY <1>3, <1>8, <2>1 DEF DepositArrives
    <2>7. SumFunctionOnSet(balance, P) \in Int
        <3> HIDE DEF P
        <3> QED BY <2>3, SumType
    <2>8. Depositing(t)' => SumFunctionOnSet(balance', P) + Outstanding(t)' = request'[t].value
        <3> HIDE DEF P
        <3> QED BY <1>4, <2>2, <2>3, <2>4, <2>5, <2>6, <2>7
    <2>9. request'[t].type = "ERC20"
        BY <1>8
    <2> QED BY <1>7, <2>8, <2>9 DEF DepositArrives
<1>9. CASE request[t].type = "ERC721"
    <2> DEFINE T == DepositOf(t, "transfer")
               A == DepositOf(t, "announce")
    <2>1. /\ T.is = "transfer" /\ A.is = "announce" /\ T.to \in DepositPool(t)
          /\ DepositOf(t, "transfer")' = T /\ DepositOf(t, "announce")' = A
        <3>1. <<"deposit", t, 1>> \in DepositPool(t)
            BY PoolAssumption, TransfersAssumption DEF DepositPool
        <3> QED BY <3>1 DEF DepositOf
    <2>2. c = <<T, A>> \/ c = <<A>>
        BY <1>1, <1>3, <1>9 DEF DepositArrives, c
    <2>3. request[t].value \in Tokens /\ request'[t].type = "ERC721"
        BY <1>9, RequestsTyped DEF IInv, TypeOK
    <2> HIDE DEF T, A
    <2>4. CASE c = <<T, A>>
        <3>1. r = <<A>> /\ Len(c) = 2 /\ call = T
            BY <1>c, <2>4 DEF r
        <3>2. call.is = "transfer" /\ Ids(call) = {request[t].value}
            BY <1>1, <1>9, <2>1, <3>1
        <3>3. ownerOf'[request[t].value] = a0 /\ a0 \in DepositPool(t)
            BY <1>1, <1>2, <2>3, <3>2 DEF a0
        <3>4. calls'[t] = <<A>>
            BY <3>1 DEF r, c
        <3> QED BY <1>7, <2>1, <2>3, <3>3, <3>4 DEF DepositArrives
    <2>5. CASE c = <<A>>
        <3>1. Len(c) = 1 /\ call = A
            BY <1>c, <2>5 
        <3>2. phase'[t] = "deposited" /\ (Depositing(t)' => Depositing(t))
            BY <1>1, <3>1 DEF c, Depositing
        <3>3. c # <<T, A>>
            BY <2>5
        <3>4. Depositing(t) => ownerOf[request[t].value] \in DepositPool(t)
            BY <1>3, <1>9, <3>3 DEF DepositArrives, c, T, A
        <3>5. ownerOf' = ownerOf
            BY <1>2, <2>1, <3>1
        <3> QED BY <1>7, <2>3, <3>2, <3>4, <3>5 DEF DepositArrives
    <2> QED BY <2>2, <2>4, <2>5
<1>10. request[t].type \in {"ERC20", "ERC721"}
    BY RequestsTyped DEF IInv, TypeOK
<1> QED
    BY <1>7, <1>8, <1>9, <1>10

\* A call of a deposit keeps the invariant.
LEMMA CallMinedKeeps ==
    ASSUME IInv, NEW t \in Transfers, CallMined(t)
    PROVE  IInv'
<1>0. PICK call : call = calls[t][1]
    OBVIOUS
<1>e. CallEffect(t, call)
    BY <1>0, CallEffects
<1> DEFINE a0 == call.to
<1>1. /\ calls' = [calls EXCEPT ![t] = Tail(@)]
      /\ phase' = [phase EXCEPT ![t] = IF Len(calls[t]) = 1 THEN "deposited" ELSE @]
      /\ UNCHANGED <<isShardSpent, shardStore, wallet, relayed>>
    BY DEF CallMined
<1>2. /\ phase[t] = "depositing" /\ a0 \in DepositPool(t) /\ a0 \in Own /\ a0 \in Addresses
      /\ call \in Call /\ call.type = request[t].type
    BY <1>e, Apart DEF CallEffect
<1>3. PICK x \in {"depositing", "deposited"} :
          /\ x = IF Len(calls[t]) = 1 THEN "deposited" ELSE "depositing"
          /\ phase' = [phase EXCEPT ![t] = x]
    BY <1>1, <1>2
<1>4. /\ phase' \in [Transfers -> Phases] /\ phase'[t] = x
      /\ \A s \in Transfers : s # t => phase'[s] = phase[s]
    BY <1>3, PhaseSet DEF Phases
<1>5. /\ DOMAIN calls' = Transfers /\ calls'[t] = Tail(calls[t])
      /\ \A s \in Transfers : s # t => calls'[s] = calls[s]
    BY <1>1 DEF IInv, Shape
<1>6. /\ request' = request /\ inputs' = inputs /\ bundle' = bundle /\ shardStore' = shardStore
      /\ isShardSpent' = isShardSpent /\ relayed' = relayed
    BY <1>1 DEF wallet
<1>7. \A s \in Transfers : /\ Succeeded(s)' <=> Succeeded(s)
                           /\ Built(s)' <=> Built(s)
                           /\ phase[s] = "sent" => phase'[s] = "sent"
                           /\ phase'[s] \in {"depositing", "deposited"} =>
                                 phase[s] \in {"depositing", "deposited"}
    BY <1>2, <1>4 DEF Succeeded, Built
<1>8. /\ balance' \in [Addresses -> Nat] /\ ownerOf' \in [Tokens -> Addresses \cup {Sender}]
      /\ \A a \in Addresses : a # a0 =>
            /\ balance'[a] = balance[a] /\ TokensAt(a)' = TokensAt(a)
            /\ AnnouncedAt(a)' = AnnouncedAt(a)
    BY <1>e DEF CallEffect
<1>9. call.is \in {"transfer", "announce"}
    BY <1>e DEF CallEffect
<1>10. call.is = "transfer" =>
          /\ announced' = announced /\ AnnouncedAt(a0)' = AnnouncedAt(a0)
          /\ TokensAt(a0)' = TokensAt(a0) \cup Ids(call)
          /\ \A id \in Tokens : ownerOf'[id] = IF id \in Ids(call) THEN a0 ELSE ownerOf[id]
          /\ \A id \in Ids(call) : ownerOf[id] = Sender
    <2>1. call.is = "transfer" => announced' = announced
        BY <1>e DEF CallEffect
    <2>2. call.is = "transfer" => AnnouncedAt(a0)' = AnnouncedAt(a0)
        BY <2>1 DEF AnnouncedAt
    <2> QED BY <1>e, <2>1, <2>2 DEF CallEffect
<1>11. call.is = "announce" =>
          \E ann : /\ ann.stealthAddress = a0 /\ ann.type = request[t].type /\ ann.value \in Nat
                   /\ announced' = announced \cup {ann} /\ AnnouncedAt(a0)' = {ann}
                   /\ ownerOf' = ownerOf /\ TokensAt(a0)' = TokensAt(a0)
                   /\ Ids(ann) = Ids(call)
    <2> SUFFICES ASSUME call.is = "announce"
                 PROVE  \E ann : /\ ann.stealthAddress = a0 /\ ann.type = request[t].type
                                 /\ ann.value \in Nat
                                 /\ announced' = announced \cup {ann} /\ AnnouncedAt(a0)' = {ann}
                                 /\ ownerOf' = ownerOf /\ TokensAt(a0)' = TokensAt(a0)
                                 /\ Ids(ann) = Ids(call)
        OBVIOUS
    <2> DEFINE ann == [stealthAddress |-> a0, type |-> call.type, value |-> call.value]
    <2>1. /\ announced' = announced \cup {ann} /\ AnnouncedAt(a0)' = {ann} /\ ownerOf' = ownerOf
        BY <1>e DEF CallEffect
    <2>2. TokensAt(a0)' = TokensAt(a0)
        BY <2>1 DEF TokensAt
    <2>3. /\ ann.stealthAddress = a0 /\ ann.type = request[t].type /\ ann.value \in Nat
          /\ Ids(ann) = Ids(call)
        BY <1>2 DEF Ids, Call
    <2> HIDE DEF ann, a0
    <2> QED BY <2>1, <2>2, <2>3
<1>12. request[t].type \in {"ERC20", "ERC721"}
    BY RequestsTyped DEF IInv, TypeOK
\* A token that arrives is not announced yet.
<1>13. call.is = "transfer" => Ids(call) = {} \/ AnnouncedAt(a0) = {}
    <2> SUFFICES ASSUME call.is = "transfer", request[t].type = "ERC721" PROVE AnnouncedAt(a0) = {}
        BY <1>e, <1>12 DEF CallEffect
    <2> DEFINE T == DepositOf(t, "transfer")
               A == DepositOf(t, "announce")
    <2>1. calls[t] = <<T, A>>
        BY <1>e DEF CallEffect
    <2>2. A.is = "announce" /\ A.to = T.to
        BY DEF DepositOf
    <2> HIDE DEF T, A
    <2>3. T = call /\ 2 \in DOMAIN calls[t] /\ calls[t][2] = A
        BY <1>0, <2>1
    <2>4. Announces(t, 2, a0)
        BY <2>2, <2>3 DEF Announces
    <2>5. DepositAnnounced(t)
        BY DEF IInv, DepositsAnnounced
    <2> QED BY <1>2, <2>3, <2>4, <2>5 DEF DepositAnnounced
<1> HIDE DEF a0
<1>14. OwnPools'
    <2>1. OwnPools
        BY DEF IInv
    <2>2. ASSUME NEW s \in Transfers, NEW a \in RecipientPool(s) \cup ChangePool(s)
          PROVE  /\ balance'[a] = balance[a] /\ TokensAt(a)' = TokensAt(a)
                 /\ AnnouncedAt(a)' = AnnouncedAt(a)
                 /\ Untouched(a)' <=> Untouched(a)
                 /\ Holds(a)' <=> Holds(a)
        <3>1. a # a0 /\ a \in Addresses
            BY <1>2, Apart
        <3>2. balance'[a] = balance[a] /\ TokensAt(a)' = TokensAt(a) /\ AnnouncedAt(a)' = AnnouncedAt(a)
            BY <1>8, <3>1
        <3> QED BY <3>2 DEF Untouched, Holds, TokensAt
    <2> QED BY <1>6, <1>7, <2>1, <2>2 DEF OwnPools
<1>15. AnnouncementsKept'
    <2>1. AnnouncementsKept
        BY DEF IInv
    <2>2. ASSUME NEW a \in Own
          PROVE  /\ \A y, z \in AnnouncedAt(a)' : y = z
                 /\ \A ann \in AnnouncedAt(a)' : TokensAt(a)' \subseteq Ids(ann) /\ Ids(ann) \subseteq Tokens
        <3>1. CASE a # a0
            BY <1>8, <2>1, <3>1, Apart DEF AnnouncementsKept
        <3>2. CASE a = a0 /\ call.is = "transfer"
            BY <1>10, <1>13, <2>1, <3>2 DEF AnnouncementsKept
        <3>3. CASE a = a0 /\ call.is = "announce"
            <4>1. PICK ann : /\ AnnouncedAt(a0)' = {ann} /\ TokensAt(a0)' = TokensAt(a0)
                             /\ Ids(ann) = Ids(call) /\ ann.type = request[t].type
                BY <1>11, <3>3
            <4>2. TokensAt(a0) \subseteq Ids(request[t])
                BY <1>2 DEF IInv, DepositsAnnounced, DepositAnnounced
            <4>3. Ids(call) = Ids(request[t]) /\ Ids(call) \subseteq Tokens
                <5>1. calls[t] \in {<<DepositOf(t, "transfer"), DepositOf(t, "announce")>>,
                                    <<DepositOf(t, "announce")>>} \/ request[t].type = "ERC20"
                    BY <1>2, <1>12 DEF IInv, DepositsArrive, DepositArrives
                <5>2. request[t].type = "ERC721" => call.value = request[t].value
                    BY <1>0, <5>1 DEF DepositOf
                <5>3. Ids(call) \subseteq Tokens
                    BY <1>e DEF CallEffect
                <5> QED BY <1>2, <5>2, <5>3 DEF Ids
            <4> QED BY <3>3, <4>1, <4>2, <4>3
        <3> QED BY <1>9, <3>1, <3>2, <3>3
    <2> QED BY <2>2 DEF AnnouncementsKept
<1>16. DepositsAnnounced' /\ DepositsArrive'
    <2>1. ASSUME NEW s \in Transfers, s # t
          PROVE  DepositAnnounced(s)' /\ DepositArrives(s)'
        <3>1. calls'[s] = calls[s] /\ phase'[s] = phase[s]
            BY <1>4, <1>5, <2>1
        <3>2. \A a \in DepositPool(s) : a # a0 /\ a \in Addresses
            BY <1>2, <2>1, Apart
        <3> QED BY <1>6, <1>8, <3>1, <3>2, DepositStays
    <2>2. DepositAnnounced(t)' /\ DepositArrives(t)'
        BY <1>3, <1>4, <1>5, <1>6, CallKeepsDeposit
    <2> QED BY <2>1, <2>2 DEF DepositsAnnounced, DepositsArrive
<1>17. StoreKept'
    <2>1. StoreKept
        BY DEF IInv
    <2>2. ASSUME NEW a \in DOMAIN shardStore
          PROVE  /\ TokensAt(a)' \subseteq shardStore[a].tokenIds
                 /\ AnnouncedAt(a) # {} => AnnouncedAt(a)' # {}
        <3>0. a \in Addresses /\ TokensAt(a) \subseteq shardStore[a].tokenIds
            BY <2>1, StoreTyped, Apart DEF StoreKept
        <3>1. CASE a # a0
            BY <1>8, <3>0, <3>1
        <3>2. CASE a = a0 /\ call.is = "transfer"
            <4>1. AnnouncedAt(a0) # {}
                BY <1>2, <2>1, <3>2 DEF StoreKept
            <4> QED BY <1>10, <1>13, <3>0, <3>2, <4>1
        <3>3. CASE a = a0 /\ call.is = "announce"
            BY <1>11, <3>0, <3>3
        <3> QED BY <1>9, <3>1, <3>2, <3>3
    <2> QED BY <1>6, <1>7, <2>1, <2>2 DEF StoreKept
<1>18. TokensDelivered'
    <2>1. ASSUME NEW s \in Transfers, Succeeded(s)', request'[s].type = "ERC721"
          PROVE  ownerOf'[Value(s)'] \in Targets(s, request'[s].mode, "payment")
        <3>1. /\ ownerOf[Value(s)] \in Targets(s, request[s].mode, "payment")
              /\ Value(s)' = Value(s) /\ Value(s) \in Tokens
            BY <1>6, <1>7, <2>1, RequestsTyped DEF IInv, TypeOK, TokensDelivered, Value
        <3>2. ownerOf[Value(s)] # Sender
            BY <3>1, Apart DEF Targets
        <3>3. ownerOf'[Value(s)] = ownerOf[Value(s)]
            BY <1>9, <1>10, <1>11, <3>1, <3>2
        <3> QED BY <1>6, <3>1, <3>3
    <2> QED BY <2>1 DEF TokensDelivered
<1>19. PublicPaid'
    <2>1. {s \in Transfers : Asks(s, "public", "ERC20") /\ Succeeded(s)}'
              = {s \in Transfers : Asks(s, "public", "ERC20") /\ Succeeded(s)}
        BY <1>6, <1>7 DEF Asks
    <2>2. [s \in Transfers |-> Value(s)]' = [s \in Transfers |-> Value(s)]
        BY <1>6 DEF Value
    <2>3. balance'[PublicRecipient] = balance[PublicRecipient]
        BY <1>2, <1>8, Apart
    <2> QED BY <2>1, <2>2, <2>3 DEF IInv, PublicPaid
<1>20. Bundles'
    BY <1>1, <1>7, BundlesUnchanged
<1>21. Queue'
    BY <1>6, <1>7, QueueUnchanged
<1>22. Shape' /\ \A ann \in announced' : ann.stealthAddress \in Addresses /\ ann.value \in Nat
    <2>1. /\ DOMAIN inputs' = Transfers /\ DOMAIN bundle' = Transfers /\ DOMAIN calls' = Transfers
        BY <1>5, <1>6 DEF IInv, Shape
    <2>2. /\ IsFiniteSet(announced) /\ \A ann \in announced : ann.type \in {"ERC20", "ERC721"}
          /\ \A ann \in announced : ann.stealthAddress \in Addresses /\ ann.value \in Nat
        BY DEF IInv, Shape, TypeOK
    <2>3. CASE call.is = "transfer"
        BY <1>10, <2>1, <2>2, <2>3 DEF Shape
    <2>4. CASE call.is = "announce"
        <3>1. PICK ann : /\ ann.stealthAddress = a0 /\ ann.type = request[t].type /\ ann.value \in Nat
                         /\ announced' = announced \cup {ann}
            BY <1>11, <2>4
        <3>2. IsFiniteSet(announced')
            BY <2>2, <3>1, FS_AddElement
        <3> QED BY <1>2, <1>12, <2>1, <2>2, <3>1, <3>2 DEF Shape
    <2> QED BY <1>9, <2>3, <2>4
<1>23. TypeOK'
    BY <1>4, <1>6, <1>8, <1>22 DEF IInv, TypeOK, Phases
<1> QED
    BY <1>14, <1>15, <1>16, <1>17, <1>18, <1>19, <1>20, <1>21, <1>22, <1>23 DEF IInv

-----------------------------------------------------------------------------
(* A transaction is mined.                                                 *)

\* The first transaction of the queue is done with.
LEMMA QueueMoves ==
    ASSUME IInv, relayed # <<>>, NEW t, t = Head(relayed), relayed' = Tail(relayed),
           NEW x \in {"succeeded", "failed"}, phase' = [phase EXCEPT ![t] = x]
    PROVE  /\ t \in Transfers /\ phase[t] = "sent" /\ Built(t) /\ ~Succeeded(t) /\ Queue'
           /\ phase' \in [Transfers -> Phases] /\ phase'[t] = x
           /\ \A s \in Transfers : s # t => phase'[s] = phase[s]
<1>1. /\ relayed \in Seq(Transfers) /\ \A i \in DOMAIN relayed : phase[relayed[i]] = "sent"
      /\ \A i, j \in DOMAIN relayed : relayed[i] = relayed[j] => i = j
    BY DEF IInv, Queue
<1>2. /\ Len(relayed) \in Nat /\ Len(relayed) # 0 /\ DOMAIN relayed = 1..Len(relayed)
      /\ t = relayed[1] /\ t \in Transfers
      /\ \A i \in DOMAIN relayed : relayed[i] \in Transfers
    BY <1>1
<1>3. /\ relayed' \in Seq(Transfers) /\ DOMAIN relayed' = 1..(Len(relayed) - 1)
      /\ \A i \in DOMAIN relayed' : relayed'[i] = relayed[i + 1]
    BY <1>1
<1>4. 1 \in DOMAIN relayed /\ phase[t] = "sent"
    BY <1>1, <1>2
<1>5. /\ phase' \in [Transfers -> Phases] /\ phase'[t] = x
      /\ \A s \in Transfers : s # t => phase'[s] = phase[s]
    <2>1. x \in Phases
        BY DEF Phases
    <2> QED BY <1>2, <2>1, PhaseSet
<1>6. ASSUME NEW i \in DOMAIN relayed'
      PROVE  /\ i + 1 \in DOMAIN relayed /\ relayed'[i] = relayed[i + 1] /\ i \in Nat
             /\ relayed'[i] \in Transfers /\ relayed'[i] # t
             /\ phase'[relayed'[i]] = "sent"
    <2>1. i + 1 \in DOMAIN relayed /\ i + 1 # 1 /\ i \in Nat
        BY <1>2, <1>3
    <2>2. relayed'[i] = relayed[i + 1]
        BY <1>3
    <2>3. relayed[i + 1] # t
        BY <1>1, <1>2, <1>4, <2>1
    <2> QED BY <1>1, <1>2, <1>5, <2>1, <2>2, <2>3
<1>7. \A i, j \in DOMAIN relayed' : relayed'[i] = relayed'[j] => i = j
    <2> SUFFICES ASSUME NEW i \in DOMAIN relayed', NEW j \in DOMAIN relayed', relayed'[i] = relayed'[j]
                 PROVE  i = j
        OBVIOUS
    <2>1. i + 1 = j + 1
        BY <1>1, <1>6
    <2> QED BY <1>6, <2>1
<1>8. Queue'
    BY <1>3, <1>6, <1>7 DEF Queue
<1> QED
    BY <1>2, <1>4, <1>5, <1>8 DEF Built, Succeeded

\* A failed inner call leaves the chain as it was.
LEMMA MineFailedKeeps ==
    ASSUME IInv, relayed # <<>>, NEW t, t = Head(relayed), relayed' = Tail(relayed),
           UNCHANGED <<chain, shardStore, wallet, calls>>, phase' = [phase EXCEPT ![t] = "failed"]
    PROVE  IInv'
<1>1. PICK x \in {"succeeded", "failed"} : x = "failed"
    OBVIOUS
<1>2. /\ t \in Transfers /\ Built(t) /\ ~Succeeded(t) /\ Queue'
    BY <1>1, QueueMoves
<1>3. /\ Bundles' /\ OwnPools' /\ AnnouncementsKept' /\ TokensDelivered' /\ PublicPaid'
      /\ DepositsAnnounced' /\ DepositsArrive'
      /\ \A s \in Transfers : Built(s) => Built(s)' /\ bundle'[s] = bundle[s]
      /\ phase' \in [Transfers -> Phases]
    <2>1. x \in Phases \ {"new", "depositing", "deposited"} /\ x \notin {"succeeded", "confirmed"}
        BY <1>1 DEF Phases
    <2>2. UNCHANGED <<chain, wallet, calls>>
        OBVIOUS
    <2> QED BY <1>1, <1>2, <2>1, <2>2, Progress
<1>4. StoreKept'
    BY <1>3, StoreUnchanged
<1>5. Shape'
    <2>1. announced' = announced
        BY DEF chain
    <2>2. DOMAIN inputs' = Transfers /\ DOMAIN bundle' = Transfers /\ DOMAIN calls' = Transfers
        BY DEF IInv, Shape, wallet
    <2> QED BY <2>1, <2>2, ShapeKept
<1>6. TypeOK'
    <2>1. relayed' \in Seq(Transfers)
        BY <1>2 DEF Queue
    <2>2. shardStore' = shardStore /\ request' = request
        BY DEF wallet
    <2> QED BY <1>3, <2>1, <2>2, StoreTyped, TypesKept
<1> QED
    BY <1>2, <1>3, <1>4, <1>5, <1>6 DEF IInv

\* A bundle is executed.
Mined(t) ==
    /\ t \in Transfers /\ Built(t) /\ ~Succeeded(t) /\ MeshSucceeds(bundle[t]) /\ MeshExecuted(t)
    /\ UNCHANGED <<shardStore, wallet, calls>>
    /\ phase'[t] = "succeeded" /\ \A s \in Transfers : s # t => phase'[s] = phase[s]

\* Who is paid by whom.
MinedMoves(t, b) ==
    /\ b.shardAddresses \subseteq Own /\ isShardSpent' = isShardSpent \cup b.shardAddresses
    /\ \A a \in b.shardAddresses : ~Untouched(a)
    /\ \A c \in b.commands : c.to \in RecipientPool(t) \cup ChangePool(t) \cup {PublicRecipient}
    /\ \A ann \in b.announcements : ann.stealthAddress \in RecipientPool(t) \cup ChangePool(t)
    /\ \A a \in Addresses :
          /\ balance[a] \in Nat /\ balance'[a] \in Nat /\ Receives(b, a) \in Nat
          /\ (\A c \in b.commands : c.to # a) =>
                /\ Receives(b, a) = 0 /\ balance'[a] <= balance[a]
                /\ TokensAt(a)' \subseteq TokensAt(a)
          /\ a \notin b.shardAddresses =>
                /\ balance'[a] = balance[a] + Receives(b, a)
                /\ TokensAt(a) \subseteq TokensAt(a)'
          /\ \A id \in TokensAt(a)' :
                id \in TokensAt(a) \/ \E c \in b.commands : c.to = a /\ id \in Ids(c)
          /\ AnnouncedAt(a)' = AnnouncedAt(a) \cup {ann \in b.announcements : ann.stealthAddress = a}
    /\ \A s \in Transfers :
          /\ Succeeded(s)' <=> Succeeded(s) \/ s = t
          /\ Built(s)' <=> Built(s)
          /\ \A x \in {"new", "depositing", "deposited"} : phase'[s] = x <=> phase[s] = x
    /\ request' = request /\ inputs' = inputs /\ bundle' = bundle /\ shardStore' = shardStore
    /\ calls' = calls

\* What a transfer that succeeds moves.
LEMMA MinedMovesIt ==
    ASSUME IInv, NEW t, Mined(t), NEW b, b = bundle[t]
    PROVE  MinedMoves(t, b)
<1>1. /\ t \in Transfers /\ Built(t) /\ ~Succeeded(t) /\ MeshSucceeds(b) /\ MeshExecuted(t)
      /\ MeshSucceeds(bundle[t])
    BY DEF Mined
<1>2. /\ \A a \in Addresses :
            /\ balance'[a] = balance[a] + Receives(b, a) - Spends(b, a)
            /\ balance'[a] \in Nat /\ balance[a] \in Nat /\ Receives(b, a) \in Nat
            /\ a \notin b.shardAddresses => balance'[a] = balance[a] + Receives(b, a)
      /\ isShardSpent' = isShardSpent \cup b.shardAddresses
      /\ announced' = announced \cup b.announcements
      /\ \A id \in Tokens :
            \/ ownerOf'[id] = ownerOf[id] /\ \A c \in b.commands : id \notin Ids(c)
            \/ \E c \in b.commands : id \in Ids(c) /\ ownerOf'[id] = c.to /\ ownerOf[id] = c.shard
    BY <1>1, Executed
<1>3. /\ GoodCommands(t, request[t], inputs[t], b) /\ request[t] \in RequestType
      /\ GoodAnnouncements(t, request[t], b)
    BY <1>1, BuiltFacts
<1>4. \A a : /\ Spends(b, a) \in Nat
             /\ (\A c \in b.commands : c.to # a) => Receives(b, a) = 0
    BY <1>3, BundleMoves
<1>5. /\ b.shardAddresses \subseteq Own
      /\ \A c \in b.commands : /\ c.to \in RecipientPool(t) \cup ChangePool(t) \cup {PublicRecipient}
                               /\ c.shard \in b.shardAddresses
    <2>1. ASSUME NEW c \in b.commands
          PROVE  /\ c.to \in RecipientPool(t) \cup ChangePool(t) \cup {PublicRecipient}
                 /\ c.shard \in b.shardAddresses /\ c.shard \in Own
        BY <1>1, CommandIds DEF Targets
    <2>2. \A a \in b.shardAddresses : \E c \in b.commands : c.shard = a
        BY <1>3 DEF GoodCommands
    <2> QED BY <2>1, <2>2
<1>6. \A ann \in b.announcements : ann.stealthAddress \in RecipientPool(t) \cup ChangePool(t)
    BY <1>3 DEF GoodAnnouncements
<1>7. \A a \in b.shardAddresses : ~Untouched(a)
    BY <1>1, SpendsWhatIsThere
<1>8. ASSUME NEW a \in Addresses
      PROVE  /\ balance[a] \in Nat /\ balance'[a] \in Nat /\ Receives(b, a) \in Nat
             /\ (\A c \in b.commands : c.to # a) =>
                   /\ Receives(b, a) = 0 /\ balance'[a] <= balance[a]
                   /\ TokensAt(a)' \subseteq TokensAt(a)
             /\ a \notin b.shardAddresses =>
                   /\ balance'[a] = balance[a] + Receives(b, a)
                   /\ TokensAt(a) \subseteq TokensAt(a)'
             /\ \A id \in TokensAt(a)' :
                   id \in TokensAt(a) \/ \E c \in b.commands : c.to = a /\ id \in Ids(c)
             /\ AnnouncedAt(a)' = AnnouncedAt(a) \cup {ann \in b.announcements : ann.stealthAddress = a}
    <2>1. /\ balance[a] \in Nat /\ balance'[a] \in Nat /\ Receives(b, a) \in Nat
          /\ balance'[a] = balance[a] + Receives(b, a) - Spends(b, a)
          /\ a \notin b.shardAddresses => balance'[a] = balance[a] + Receives(b, a)
        BY <1>2
    <2>2. (\A c \in b.commands : c.to # a) => Receives(b, a) = 0 /\ balance'[a] <= balance[a]
        BY <1>4, <2>1
    <2>3. /\ (\A c \in b.commands : c.to # a) => TokensAt(a)' \subseteq TokensAt(a)
          /\ a \notin b.shardAddresses => TokensAt(a) \subseteq TokensAt(a)'
          /\ \A id \in TokensAt(a)' :
                id \in TokensAt(a) \/ \E c \in b.commands : c.to = a /\ id \in Ids(c)
        BY <1>2, <1>5 DEF TokensAt
    <2>4. AnnouncedAt(a)' = AnnouncedAt(a) \cup {ann \in b.announcements : ann.stealthAddress = a}
        BY <1>2 DEF AnnouncedAt
    <2> QED BY <2>1, <2>2, <2>3, <2>4
<1>9. \A s \in Transfers :
         /\ Succeeded(s)' <=> Succeeded(s) \/ s = t
         /\ Built(s)' <=> Built(s)
         /\ \A x \in {"new", "depositing", "deposited"} : phase'[s] = x <=> phase[s] = x
    BY DEF Mined, Succeeded, Built
<1>10. /\ request' = request /\ inputs' = inputs /\ bundle' = bundle /\ shardStore' = shardStore
       /\ calls' = calls
    BY DEF Mined, wallet
<1> QED
    BY <1>2, <1>5, <1>6, <1>7, <1>8, <1>9, <1>10 DEF MinedMoves

\* Addresses that the bundle does not pay.
LEMMA NotPaid ==
    ASSUME IInv, NEW t, Mined(t), NEW b, b = bundle[t], NEW a \in Addresses,
           a \notin RecipientPool(t) \cup ChangePool(t), a # PublicRecipient
    PROVE  /\ balance'[a] <= balance[a] /\ balance[a] \in Nat /\ balance'[a] \in Nat
           /\ TokensAt(a)' \subseteq TokensAt(a)
           /\ AnnouncedAt(a)' = AnnouncedAt(a)
           /\ Holds(a)' => Holds(a)
           /\ a \notin b.shardAddresses => balance'[a] = balance[a] /\ TokensAt(a)' = TokensAt(a)
           /\ Untouched(a) => Untouched(a)' /\ a \notin b.shardAddresses
<1>1. MinedMoves(t, b)
    BY MinedMovesIt
<1>2. \A c \in b.commands : c.to # a
    BY <1>1 DEF MinedMoves
<1>3. AnnouncedAt(a)' = AnnouncedAt(a)
    <2>1. {ann \in b.announcements : ann.stealthAddress = a} = {}
        BY <1>1 DEF MinedMoves
    <2>2. AnnouncedAt(a)' = AnnouncedAt(a) \cup {ann \in b.announcements : ann.stealthAddress = a}
        BY <1>1 DEF MinedMoves
    <2> QED BY <2>1, <2>2
<1>4. /\ balance'[a] <= balance[a] /\ balance[a] \in Nat /\ balance'[a] \in Nat
      /\ TokensAt(a)' \subseteq TokensAt(a)
      /\ a \notin b.shardAddresses => balance'[a] = balance[a] /\ TokensAt(a)' = TokensAt(a)
      /\ Untouched(a) => a \notin b.shardAddresses
    BY <1>1, <1>2 DEF MinedMoves
<1>5. Holds(a) <=> balance[a] > 0 \/ TokensAt(a) # {}
    BY DEF Holds, TokensAt
<1>6. Holds(a)' <=> balance'[a] > 0 \/ TokensAt(a)' # {}
    BY DEF Holds, TokensAt
<1>7. Holds(a)' => Holds(a)
    BY <1>4, <1>5, <1>6
<1>8. Untouched(a) => Untouched(a)'
    BY <1>3, <1>4 DEF Untouched
<1> QED
    BY <1>3, <1>4, <1>7, <1>8

\* The pools of the other transfers see nothing of it, its own get what it pays.
LEMMA MinedOwnPools ==
    ASSUME IInv, NEW t, Mined(t)
    PROVE  OwnPools'
<1>0. PICK b : b = bundle[t]
    OBVIOUS
<1>1. MinedMoves(t, b) /\ t \in Transfers /\ ~Succeeded(t) /\ Built(t)
    BY <1>0, MinedMovesIt DEF Mined
<1>2. OwnPools
    BY DEF IInv
<1>3. /\ isShardSpent' = isShardSpent \cup b.shardAddresses /\ bundle' = bundle
      /\ \A s \in Transfers : Succeeded(s)' <=> Succeeded(s) \/ s = t
    BY <1>1 DEF MinedMoves
<1>4. ASSUME NEW s \in Transfers, s # t, NEW a \in RecipientPool(s) \cup ChangePool(s)
      PROVE  /\ ~Succeeded(s)' => Untouched(a)' /\ a \notin isShardSpent'
             /\ Succeeded(s)' =>
                   /\ AnnouncedAt(a)' = {ann \in bundle'[s].announcements : ann.stealthAddress = a}
                   /\ a \notin isShardSpent' => balance'[a] = Receives(bundle'[s], a)
             /\ Holds(a)' => AnnouncedAt(a)' # {}
    <2>1. a \in Addresses /\ a \notin RecipientPool(t) \cup ChangePool(t) /\ a # PublicRecipient
        BY <1>1, <1>4, Apart
    <2>2. /\ AnnouncedAt(a)' = AnnouncedAt(a) /\ (Holds(a)' => Holds(a))
          /\ a \notin b.shardAddresses => balance'[a] = balance[a]
          /\ Untouched(a) => Untouched(a)' /\ a \notin b.shardAddresses
        BY <1>0, <2>1, NotPaid
    <2>3. /\ ~Succeeded(s) => Untouched(a) /\ a \notin isShardSpent
          /\ Succeeded(s) =>
                /\ AnnouncedAt(a) = {ann \in bundle[s].announcements : ann.stealthAddress = a}
                /\ a \notin isShardSpent => balance[a] = Receives(bundle[s], a)
          /\ Holds(a) => AnnouncedAt(a) # {}
        BY <1>2 DEF OwnPools
    <2> QED BY <1>3, <1>4, <2>2, <2>3
<1>5. ASSUME NEW a \in RecipientPool(t) \cup ChangePool(t)
      PROVE  /\ AnnouncedAt(a)' = {ann \in bundle'[t].announcements : ann.stealthAddress = a}
             /\ a \notin isShardSpent' => balance'[a] = Receives(bundle'[t], a)
             /\ Holds(a)' => AnnouncedAt(a)' # {}
    <2>1. Untouched(a) /\ a \notin isShardSpent /\ a \in Addresses /\ Stealth(a)
        BY <1>1, <1>2, Apart DEF OwnPools
    <2>2. a \notin b.shardAddresses
        BY <1>1, <2>1 DEF MinedMoves
    <2>3. /\ balance'[a] = balance[a] + Receives(b, a) /\ Receives(b, a) \in Nat
          /\ AnnouncedAt(a)' = AnnouncedAt(a) \cup {ann \in b.announcements : ann.stealthAddress = a}
          /\ (\A c \in b.commands : c.to # a) => Receives(b, a) = 0
          /\ \A id \in TokensAt(a)' : id \in TokensAt(a) \/ \E c \in b.commands : c.to = a /\ id \in Ids(c)
        BY <1>1, <2>1, <2>2 DEF MinedMoves
    <2>4. /\ balance'[a] = Receives(b, a)
          /\ AnnouncedAt(a)' = {ann \in b.announcements : ann.stealthAddress = a}
        BY <2>1, <2>3 DEF Untouched
    <2>5. Holds(a)' => \E c \in b.commands : c.to = a
        <3>1. Holds(a)' <=> balance'[a] > 0 \/ TokensAt(a)' # {}
            BY DEF Holds, TokensAt
        <3>2. TokensAt(a) = {}
            BY <2>1 DEF Untouched
        <3> QED BY <2>3, <2>4, <3>1, <3>2
    <2>6. (\E c \in b.commands : c.to = a) => AnnouncedAt(a)' # {}
        <3>1. GoodAnnouncements(t, request[t], b)
            BY <1>0, <1>1, BuiltFacts
        <3> QED BY <2>1, <2>4, <3>1 DEF GoodAnnouncements
    <2> QED BY <1>0, <1>3, <2>4, <2>5, <2>6
<1> QED
    BY <1>3, <1>4, <1>5 DEF OwnPools

\* What the wallet keeps as change is announced once and is no token.
LEMMA MinedAnnouncements ==
    ASSUME IInv, NEW t, Mined(t)
    PROVE  /\ AnnouncementsKept'
           /\ \A a \in Own : TokensAt(a)' \subseteq TokensAt(a)
<1>0. PICK b : b = bundle[t]
    OBVIOUS
<1>1. MinedMoves(t, b) /\ t \in Transfers /\ ~Succeeded(t) /\ Built(t)
    BY <1>0, MinedMovesIt DEF Mined
<1>2. AnnouncementsKept
    BY DEF IInv
<1>3. GoodAnnouncements(t, request[t], b) /\ request[t].type \in {"ERC20", "ERC721"}
    BY <1>0, <1>1, BuiltFacts
<1>4. ASSUME NEW a \in Own
      PROVE  /\ \A y, z \in AnnouncedAt(a)' : y = z
             /\ \A ann \in AnnouncedAt(a)' : TokensAt(a)' \subseteq Ids(ann) /\ Ids(ann) \subseteq Tokens
             /\ TokensAt(a)' \subseteq TokensAt(a)
    <2>1. a \in Addresses /\ a # PublicRecipient /\ a \notin RecipientPool(t)
        BY <1>1, Apart
    <2>2. CASE a \notin ChangePool(t)
        <3>1. AnnouncedAt(a)' = AnnouncedAt(a) /\ TokensAt(a)' \subseteq TokensAt(a)
            BY <1>0, <2>1, <2>2, NotPaid
        <3> QED BY <1>2, <3>1 DEF AnnouncementsKept
    <2>3. CASE a \in ChangePool(t)
        <3>1. Untouched(a)
            BY <1>1, <2>3 DEF IInv, OwnPools
        <3>2. AnnouncedAt(a)' = {ann \in b.announcements : ann.stealthAddress = a}
            BY <1>1, <2>1, <3>1 DEF MinedMoves, Untouched
        <3>3. \A c \in b.commands : c.to = a => Ids(c) = {} /\ request[t].type = "ERC20"
            BY <1>0, <1>1, <1>3, <2>1, CommandIds DEF Targets
        <3>4. TokensAt(a)' = {}
            BY <1>1, <2>1, <3>1, <3>3 DEF MinedMoves, Untouched
        <3>5. \A y, z \in AnnouncedAt(a)' : y = z
            BY <1>3, <3>2 DEF GoodAnnouncements
        <3>6. \A ann \in AnnouncedAt(a)' : Ids(ann) = {}
            BY <1>3, <3>2, <3>3 DEF GoodAnnouncements, Ids
        <3> QED BY <3>4, <3>5, <3>6
    <2> QED BY <2>2, <2>3
<1> QED
    BY <1>4 DEF AnnouncementsKept

\* Deposits are only touched where they are spent.
LEMMA MinedDeposits ==
    ASSUME IInv, NEW t, Mined(t)
    PROVE  DepositsAnnounced' /\ DepositsArrive'
<1>0. PICK b : b = bundle[t]
    OBVIOUS
<1>1. MinedMoves(t, b) /\ t \in Transfers
    BY <1>0, MinedMovesIt DEF Mined
<1>2. /\ request' = request /\ calls' = calls /\ isShardSpent' = isShardSpent \cup b.shardAddresses
      /\ \A s \in Transfers : \A x \in {"new", "depositing", "deposited"} : phase'[s] = x <=> phase[s] = x
    BY <1>1 DEF MinedMoves
<1>3. ASSUME NEW s \in Transfers, NEW a \in DepositPool(s)
      PROVE  /\ AnnouncedAt(a)' = AnnouncedAt(a) /\ TokensAt(a)' \subseteq TokensAt(a)
             /\ Holds(a)' => Holds(a)
             /\ Untouched(a) => Untouched(a)'
             /\ a \notin b.shardAddresses => balance'[a] = balance[a] /\ TokensAt(a)' = TokensAt(a)
             /\ balance[a] \in Int /\ balance'[a] \in Int
    <2>1. a \in Addresses /\ a \notin RecipientPool(t) \cup ChangePool(t) /\ a # PublicRecipient
        BY <1>1, Apart
    <2>2. balance[a] \in Nat /\ balance'[a] \in Nat
        BY <1>0, <2>1, NotPaid
    <2> QED BY <1>0, <2>1, <2>2, NotPaid
<1>4. ASSUME NEW s \in Transfers
      PROVE  DepositAnnounced(s)'
    <2>1. DepositAnnounced(s)
        BY DEF IInv, DepositsAnnounced
    <2> QED BY <1>2, <1>3, <2>1 DEF DepositAnnounced, Announces
<1>5. ASSUME NEW s \in Transfers
      PROVE  DepositArrives(s)'
    <2>1. DepositArrives(s)
        BY DEF IInv, DepositsArrive
    <2>2. /\ Depositing(s)' => Depositing(s)
          /\ Depositing(s)' => \A a \in DepositPool(s) : a \notin b.shardAddresses
        BY <1>2 DEF Depositing
    <2>3. /\ Outstanding(s)' = Outstanding(s)
          /\ DepositOf(s, "transfer")' = DepositOf(s, "transfer")
          /\ DepositOf(s, "announce")' = DepositOf(s, "announce")
          /\ request'[s] = request[s] /\ calls'[s] = calls[s]
        BY <1>2 DEF Outstanding, DepositOf
    <2>4. Depositing(s)' => SumFunctionOnSet(balance', DepositPool(s)) = SumFunctionOnSet(balance, DepositPool(s))
        <3> SUFFICES ASSUME Depositing(s)'
                     PROVE  SumFunctionOnSet(balance', DepositPool(s)) = SumFunctionOnSet(balance, DepositPool(s))
            OBVIOUS
        <3>1. \A a \in DepositPool(s) : /\ balance'[a] = balance[a]
                                        /\ balance[a] \in Int /\ balance'[a] \in Int
            BY <1>3, <2>2
        <3> QED BY <3>1, FinitelyMany, SumCompare
    <2>5. request'[s].type = "ERC20" /\ Depositing(s)' =>
              SumFunctionOnSet(balance', DepositPool(s)) + Outstanding(s)' = request'[s].value
        BY <2>1, <2>2, <2>3, <2>4 DEF DepositArrives
    <2>6. request'[s].type = "ERC721" /\ phase'[s] = "depositing" =>
              calls'[s] \in {<<DepositOf(s, "transfer")', DepositOf(s, "announce")'>>,
                             <<DepositOf(s, "announce")'>>}
        BY <1>2, <2>1, <2>3 DEF DepositArrives
    <2>7. request'[s].type = "ERC721" /\ Depositing(s)'
              /\ calls'[s] # <<DepositOf(s, "transfer")', DepositOf(s, "announce")'>> =>
              ownerOf'[request'[s].value] \in DepositPool(s)
        <3> SUFFICES ASSUME request[s].type = "ERC721", Depositing(s)',
                            calls[s] # <<DepositOf(s, "transfer"), DepositOf(s, "announce")>>
                     PROVE  ownerOf'[request[s].value] \in DepositPool(s)
            BY <2>3
        <3>1. ownerOf[request[s].value] \in DepositPool(s)
            BY <2>1, <2>2 DEF DepositArrives
        <3>2. request[s].value \in Tokens
            BY RequestsTyped DEF IInv, TypeOK
        <3> QED BY <1>3, <2>2, <3>1, <3>2 DEF TokensAt
    <2> QED BY <2>5, <2>6, <2>7 DEF DepositArrives
<1> QED
    BY <1>4, <1>5 DEF DepositsAnnounced, DepositsArrive

\* The recipient has the token, and keeps the one of an earlier transfer.
LEMMA MinedTokens ==
    ASSUME IInv, NEW t, Mined(t)
    PROVE  TokensDelivered'
<1>0. PICK b : b = bundle[t]
    OBVIOUS
<1>1. MinedMoves(t, b) /\ t \in Transfers /\ Built(t) /\ MeshSucceeds(bundle[t]) /\ MeshExecuted(t)
    BY <1>0, MinedMovesIt DEF Mined
<1>2. \A id \in Tokens :
         \/ ownerOf'[id] = ownerOf[id] /\ \A c \in b.commands : id \notin Ids(c)
         \/ \E c \in b.commands : id \in Ids(c) /\ ownerOf'[id] = c.to /\ ownerOf[id] = c.shard
    BY <1>0, <1>1, Executed
<1>3. request' = request /\ \A s \in Transfers : Succeeded(s)' <=> Succeeded(s) \/ s = t
    BY <1>1 DEF MinedMoves
<1>4. ASSUME NEW s \in Transfers, Succeeded(s)', request[s].type = "ERC721"
      PROVE  ownerOf'[request[s].value] \in Targets(s, request[s].mode, "payment")
    <2>1. request[s].value \in Tokens
        BY <1>4, RequestsTyped DEF IInv, TypeOK
    <2>2. CASE s = t
        <3>1. MovesToken(t, request[t], inputs[t], b)
            BY <1>0, <1>1, <1>4, <2>2, BuiltFacts
        <3>2. \A c \in b.commands : /\ Ids(c) = {request[t].value}
                                    /\ c.to \in Targets(t, request[t].mode, "payment")
            BY <1>0, <1>1, <1>4, <2>2, CommandIds
        <3> QED BY <1>2, <2>1, <2>2, <3>1, <3>2 DEF MovesToken
    <2>3. CASE s # t
        <3>1. ownerOf[request[s].value] \in Targets(s, request[s].mode, "payment")
            BY <1>3, <1>4, <2>3 DEF IInv, TokensDelivered, Value
        <3>2. ownerOf[request[s].value] \notin Own
            BY <3>1, Apart DEF Targets
        <3>3. \A c \in b.commands : c.shard \in Own
            BY <1>0, <1>1, CommandIds
        <3> QED BY <1>2, <2>1, <3>1, <3>2, <3>3
    <2> QED BY <2>2, <2>3
<1> QED
    BY <1>3, <1>4 DEF TokensDelivered, Value

\* The public recipient has what the transfers that succeeded were to pay.
LEMMA MinedPublic ==
    ASSUME IInv, NEW t, Mined(t)
    PROVE  PublicPaid'
<1>0. PICK b : b = bundle[t]
    OBVIOUS
<1>1. MinedMoves(t, b) /\ t \in Transfers /\ Built(t) /\ ~Succeeded(t)
    BY <1>0, MinedMovesIt DEF Mined
<1>2. /\ GoodCommands(t, request[t], inputs[t], b) /\ request[t] \in RequestType
      /\ request[t].mode \in {"public", "private"} /\ request[t].type \in {"ERC20", "ERC721"}
      /\ request[t].type = "ERC20" => PaysAmount(t, request[t], b)
    BY <1>0, <1>1, BuiltFacts
<1>3. balance'[PublicRecipient] = balance[PublicRecipient] + Receives(b, PublicRecipient)
         /\ balance[PublicRecipient] \in Nat
    <2>1. PublicRecipient \in Addresses /\ PublicRecipient \notin b.shardAddresses
        BY <1>1, Apart DEF MinedMoves
    <2> QED BY <1>1, <2>1 DEF MinedMoves
<1>4. Receives(b, PublicRecipient) = IF Asks(t, "public", "ERC20") THEN Value(t) ELSE 0
    <2>1. CASE Asks(t, "public", "ERC20")
        BY <1>2, <2>1 DEF Asks, PaysAmount, Value
    <2>2. CASE request[t].mode = "private"
        <3>1. \A c \in b.commands : c.to # PublicRecipient
            BY <1>0, <1>1, <2>2, CommandIds, Apart DEF Targets
        <3>2. Receives(b, PublicRecipient) = 0
            BY <1>2, <3>1, BundleMoves
        <3> QED BY <2>2, <3>2 DEF Asks
    <2>3. CASE request[t].type = "ERC721"
        <3>1. Receives(b, PublicRecipient) = 0
            BY <1>2, <2>3, BundleMoves
        <3> QED BY <2>3, <3>1 DEF Asks
    <2> QED BY <1>2, <2>1, <2>2, <2>3 DEF Asks
<1> DEFINE S == {s \in Transfers : Asks(s, "public", "ERC20") /\ Succeeded(s)}
           f == [s \in Transfers |-> Value(s)]
<1>5. /\ request' = request /\ \A s \in Transfers : Succeeded(s)' <=> Succeeded(s) \/ s = t
    BY <1>1 DEF MinedMoves
<1>6. f' = f
    BY <1>5 DEF Value
<1>7. S' = IF Asks(t, "public", "ERC20") THEN S \cup {t} ELSE S
    BY <1>1, <1>5 DEF Asks
<1>8. balance[PublicRecipient] = SumFunctionOnSet(f, S)
    BY DEF IInv, PublicPaid
<1>9. /\ IsFiniteSet(S) /\ t \notin S /\ f[t] = Value(t)
      /\ \A s \in S \cup {t} : f[s] \in Int
    <2>1. IsFiniteSet(S)
        BY FS_Subset, RequestsTyped
    <2>2. \A s \in Transfers : request[s].value \in Nat
        BY RequestsTyped DEF IInv, TypeOK
    <2> QED BY <1>1, <2>1, <2>2 DEF Value
<1>10. balance'[PublicRecipient] = SumFunctionOnSet(f', S')
    <2> HIDE DEF f, S
    <2>1. SumFunctionOnSet(f, S \cup {t}) = f[t] + SumFunctionOnSet(f, S)
        BY <1>9, SumAdd
    <2> QED BY <1>3, <1>4, <1>6, <1>7, <1>8, <1>9, <2>1
<1> QED
    BY <1>10 DEF PublicPaid

\* A success keeps the invariant.
LEMMA MineSucceededKeeps ==
    ASSUME IInv, relayed # <<>>, NEW t, t = Head(relayed), relayed' = Tail(relayed),
           MeshSucceeds(bundle[t]), MeshExecuted(t),
           UNCHANGED <<shardStore, wallet, calls>>, phase' = [phase EXCEPT ![t] = "succeeded"]
    PROVE  IInv'
<1>1. PICK x \in {"succeeded", "failed"} : x = "succeeded"
    OBVIOUS
<1>2. /\ t \in Transfers /\ Built(t) /\ ~Succeeded(t) /\ Queue'
      /\ phase' \in [Transfers -> Phases] /\ phase'[t] = "succeeded"
      /\ \A s \in Transfers : s # t => phase'[s] = phase[s]
    BY <1>1, QueueMoves
<1>3. Mined(t)
    BY <1>2 DEF Mined
<1>4. PICK b : b = bundle[t]
    OBVIOUS
<1>5. MinedMoves(t, b)
    BY <1>3, <1>4, MinedMovesIt
<1>6. /\ request' = request /\ inputs' = inputs /\ bundle' = bundle /\ shardStore' = shardStore
      /\ calls' = calls /\ b.shardAddresses \subseteq Own
      /\ isShardSpent' = isShardSpent \cup b.shardAddresses
      /\ \A s \in Transfers :
            /\ Built(s)' <=> Built(s)
            /\ \A y \in {"new", "depositing", "deposited"} : phase'[s] = y <=> phase[s] = y
    BY <1>5 DEF MinedMoves
<1>7. OwnPools' /\ AnnouncementsKept' /\ DepositsAnnounced' /\ DepositsArrive' /\ TokensDelivered' /\ PublicPaid'
    BY <1>3, MinedOwnPools, MinedAnnouncements, MinedDeposits, MinedTokens, MinedPublic
<1>8. Bundles'
    <2>1. UNCHANGED wallet
        OBVIOUS
    <2> QED BY <1>6, <2>1, BundlesUnchanged
<1>9. /\ announced' = announced \cup b.announcements
      /\ GoodAnnouncements(t, request[t], b) /\ request[t].type \in {"ERC20", "ERC721"}
    BY <1>2, <1>4, BuiltFacts DEF MeshExecuted
<1>10. StoreKept'
    <2>1. StoreKept
        BY DEF IInv
    <2>2. \A a \in Own : TokensAt(a)' \subseteq TokensAt(a)
        BY <1>3, MinedAnnouncements
    <2>3. \A a : AnnouncedAt(a) # {} => AnnouncedAt(a)' # {}
        BY <1>9 DEF AnnouncedAt
    <2>4. DOMAIN shardStore \subseteq Own
        BY StoreTyped
    <2> QED BY <1>6, <2>1, <2>2, <2>3, <2>4 DEF StoreKept
<1>11. Shape'
    <2>1. IsFiniteSet(announced') /\ \A ann \in announced' : ann.type \in {"ERC20", "ERC721"}
        <3>1. IsFiniteSet(announced) /\ \A ann \in announced : ann.type \in {"ERC20", "ERC721"}
            BY DEF IInv, Shape
        <3> QED BY <1>9, <3>1, FS_Union DEF GoodAnnouncements
    <2> QED BY <1>6, <2>1 DEF IInv, Shape
<1>12. TypeOK'
    <2>1. balance' \in [Addresses -> Nat] /\ ownerOf' \in [Tokens -> Addresses \cup {Sender}]
        BY <1>2, Executed
    <2>2. \A ann \in announced' : ann.stealthAddress \in Addresses /\ ann.value \in Nat
        <3>1. \A ann \in announced : ann.stealthAddress \in Addresses /\ ann.value \in Nat
            BY DEF IInv, TypeOK
        <3>2. \A ann \in b.announcements : ann.stealthAddress \in Addresses /\ ann.value \in Nat
            BY <1>2, <1>9, Apart DEF GoodAnnouncements
        <3> QED BY <1>9, <3>1, <3>2
    <2>3. ToSet(relayed') \subseteq Transfers
        BY <1>2 DEF Queue, ToSet
    <2> QED BY <1>2, <1>6, <2>1, <2>2, <2>3 DEF IInv, TypeOK, Phases
<1> QED
    BY <1>2, <1>7, <1>8, <1>10, <1>11, <1>12 DEF IInv

\* The next transaction is mined.
LEMMA MineKeeps ==
    ASSUME IInv, Mine
    PROVE  IInv'
<1>1. PICK t : t = Head(relayed)
    OBVIOUS
<1>2. /\ relayed # <<>> /\ relayed' = Tail(relayed) /\ UNCHANGED <<shardStore, wallet, calls>>
      /\ \/ /\ MeshSucceeds(bundle[t]) /\ MeshExecuted(t)
            /\ phase' = [phase EXCEPT ![t] = "succeeded"]
         \/ UNCHANGED chain /\ phase' = [phase EXCEPT ![t] = "failed"]
    BY <1>1 DEF Mine
<1>3. CASE UNCHANGED chain /\ phase' = [phase EXCEPT ![t] = "failed"]
    <2>1. UNCHANGED <<chain, shardStore, wallet, calls>>
        BY <1>2, <1>3
    <2> QED BY <1>1, <1>2, <1>3, <2>1, MineFailedKeeps
<1>4. CASE /\ MeshSucceeds(bundle[t]) /\ MeshExecuted(t)
           /\ phase' = [phase EXCEPT ![t] = "succeeded"]
    BY <1>1, <1>2, <1>4, MineSucceededKeeps
<1> QED
    BY <1>2, <1>3, <1>4

-----------------------------------------------------------------------------
(* A sync.                                                                 *)

\* What a sync puts in the place of an entry.
SyncedEntry(a, entry, new) ==
    IF entry.pending THEN new = entry
    ELSE /\ new.shown = balance[a] /\ ~new.pending
         /\ new.tokenIds = {id \in entry.tokenIds : ownerOf[id] = a}
         /\ new \in EntryType

\* The entries of a store that a sync may look at.
GoodEntry(a, entry) ==
    /\ a \in Own /\ entry \in EntryType
    /\ TokensAt(a) \subseteq entry.tokenIds
    /\ \A t \in Transfers :
          /\ a \in DepositPool(t) => AnnouncedAt(a) # {}
          /\ a \in ChangePool(t) =>
                /\ Built(t)
                /\ entry.pending => entry.shown <= Receives(bundle[t], a)

\* What is found is as good as what is there.
LEMMA FoundIsGood ==
    ASSUME IInv, NEW a \in DOMAIN Found(shardStore)
    PROVE  GoodEntry(a, Found(shardStore)[a])
<1>1. PICK found : found = Found(shardStore)
    OBVIOUS
<1>2. /\ \A b \in DOMAIN shardStore : found[b] = shardStore[b]
      /\ \A b \in DOMAIN found \ DOMAIN shardStore :
            b \in Own /\ \E ann \in announced : ann.stealthAddress = b /\ found[b] = Entry(ann)
    <2>1. IsFiniteSet(announced)
        BY DEF IInv, Shape
    <2> QED BY <1>1, <2>1, FoundAreAdded
<1>3. CASE a \in DOMAIN shardStore
    <2>1. a \in Own /\ shardStore[a] \in EntryType
        BY <1>3, StoreTyped
    <2>2. StoreKept
        BY DEF IInv
    <2> QED BY <1>1, <1>2, <1>3, <2>1, <2>2 DEF GoodEntry, StoreKept
<1>4. CASE a \notin DOMAIN shardStore
    <2>1. PICK ann \in announced : ann.stealthAddress = a /\ found[a] = Entry(ann)
        BY <1>1, <1>2, <1>4
    <2>2. a \in Own /\ ann \in AnnouncedAt(a)
        BY <1>1, <1>2, <1>4, <2>1 DEF AnnouncedAt
    <2>3. TokensAt(a) \subseteq Ids(ann) /\ Ids(ann) \subseteq Tokens
        BY <2>2 DEF IInv, AnnouncementsKept
    <2>4. Amount(ann) \in Nat
        BY <2>1 DEF IInv, TypeOK, Amount
    <2>5. found[a] = [shown |-> Amount(ann), tokenIds |-> Ids(ann), pending |-> FALSE]
        BY <2>1 DEF Entry
    <2>6. found[a] \in EntryType /\ found[a].tokenIds = Ids(ann) /\ ~found[a].pending
        BY <2>3, <2>4, <2>5 DEF EntryType
    <2>7. ASSUME NEW t \in Transfers, a \in ChangePool(t)
          PROVE  Built(t)
        <3>1. Succeeded(t)
            BY <2>2, <2>7 DEF IInv, OwnPools, Untouched
        <3> QED BY <3>1 DEF Succeeded, Built
    <2> QED BY <1>1, <2>2, <2>3, <2>6, <2>7 DEF GoodEntry
<1> QED
    BY <1>3, <1>4

\* The entry for what the chain says.
LEMMA EntryOnChain ==
    ASSUME IInv, NEW a \in Own, NEW entry \in EntryType, ~entry.pending
    PROVE  SyncedEntry(a, entry, OnChain(a, entry))
<1>1. balance[a] \in Nat
    BY Apart DEF IInv, TypeOK
<1>2. OnChain(a, entry) = [entry EXCEPT !.shown = balance[a],
                                        !.tokenIds = {id \in entry.tokenIds : ownerOf[id] = a}]
    BY DEF OnChain, EntryType
<1>3. entry \in [shown : Nat, tokenIds : SUBSET Tokens, pending : BOOLEAN]
    BY DEF EntryType
<1>4. PICK ids : ids = {id \in entry.tokenIds : ownerOf[id] = a}
    OBVIOUS
<1>5. ids \subseteq Tokens
    BY <1>3, <1>4
<1>6. PICK amount \in Nat : amount = balance[a]
    BY <1>1
<1>7. OnChain(a, entry) = [entry EXCEPT !.shown = amount, !.tokenIds = ids]
    BY <1>2, <1>4, <1>6
<1>8. PICK new : new = OnChain(a, entry)
    OBVIOUS
<1>9. /\ new \in [shown : Nat, tokenIds : SUBSET Tokens, pending : BOOLEAN]
      /\ new.shown = amount /\ new.tokenIds = ids /\ new.pending = entry.pending
    BY <1>3, <1>5, <1>7, <1>8
<1> QED
    BY <1>4, <1>6, <1>8, <1>9 DEF SyncedEntry, EntryType

\* The store after a sync: what is spent is gone unless it is pending, and what
\* is not pending shows what the chain says.
LEMMA Synced ==
    ASSUME IInv, SyncWithChain
    PROVE  /\ UNCHANGED <<chain, wallet, phase, calls, relayed>>
           /\ \A a \in DOMAIN shardStore' :
                 /\ a \in DOMAIN Found(shardStore)
                 /\ a \in isShardSpent => Found(shardStore)[a].pending
                 /\ GoodEntry(a, Found(shardStore)[a])
                 /\ SyncedEntry(a, Found(shardStore)[a], shardStore'[a])
           /\ \A a \in DOMAIN Found(shardStore) : a \notin isShardSpent => a \in DOMAIN shardStore'
<1>1. PICK found : found = Found(shardStore)
    OBVIOUS
<1>2. PICK gone : gone = {a \in DOMAIN found : ~found[a].pending} \cap isShardSpent
    OBVIOUS
<1>3. UNCHANGED <<chain, wallet, phase, calls, relayed>>
    BY DEF SyncWithChain
<1>4. shardStore' = Verified(removeMany(found, gone))
    BY <1>1, <1>2 DEF SyncWithChain, Found
<1>5. PICK left : left = removeMany(found, gone)
    OBVIOUS
<1>6. DOMAIN left = DOMAIN found \ gone /\ \A a \in DOMAIN left : left[a] = found[a]
    BY <1>5 DEF removeMany
<1>7. /\ DOMAIN shardStore' = DOMAIN left
      /\ \A a \in DOMAIN left : shardStore'[a] = IF left[a].pending THEN left[a] ELSE OnChain(a, left[a])
    BY <1>4, <1>5 DEF Verified
<1>8. \A a \in DOMAIN found : GoodEntry(a, found[a])
    BY <1>1, FoundIsGood
<1>9. ASSUME NEW a \in DOMAIN shardStore'
      PROVE  SyncedEntry(a, found[a], shardStore'[a])
    <2>1. a \in DOMAIN found /\ left[a] = found[a]
        BY <1>6, <1>7
    <2>2. PICK entry : entry = found[a]
        OBVIOUS
    <2>3. a \in Own /\ entry \in EntryType
        BY <1>8, <2>1, <2>2 DEF GoodEntry
    <2>4. shardStore'[a] = IF entry.pending THEN entry ELSE OnChain(a, entry)
        BY <1>7, <2>1, <2>2
    <2>5. SyncedEntry(a, entry, shardStore'[a])
        BY <2>3, <2>4, EntryOnChain DEF SyncedEntry
    <2> QED BY <2>2, <2>5
<1>10. \A a \in DOMAIN shardStore' :
           a \in DOMAIN found /\ (a \in isShardSpent => found[a].pending)
    BY <1>2, <1>6, <1>7
<1>11. \A a \in DOMAIN found : a \notin isShardSpent => a \in DOMAIN shardStore'
    BY <1>2, <1>6, <1>7
<1>12. ASSUME NEW a \in DOMAIN shardStore'
       PROVE  /\ a \in DOMAIN Found(shardStore)
              /\ a \in isShardSpent => Found(shardStore)[a].pending
              /\ GoodEntry(a, Found(shardStore)[a])
              /\ SyncedEntry(a, Found(shardStore)[a], shardStore'[a])
    <2>1. a \in DOMAIN found /\ (a \in isShardSpent => found[a].pending)
        BY <1>10
    <2>2. GoodEntry(a, found[a])
        BY <1>8, <2>1
    <2>3. SyncedEntry(a, found[a], shardStore'[a])
        BY <1>9
    <2> QED BY <1>1, <2>1, <2>2, <2>3
<1>13. ASSUME NEW a \in DOMAIN Found(shardStore), a \notin isShardSpent
       PROVE  a \in DOMAIN shardStore'
    BY <1>1, <1>11, <1>13
<1> QED
    BY <1>3, <1>12, <1>13

\* What a sync shows of the store is kept.
LEMMA SyncedStoreKept ==
    ASSUME IInv, SyncWithChain
    PROVE  StoreKept' /\ \A a \in DOMAIN shardStore' : a \in Own /\ shardStore'[a] \in EntryType
<1>1. /\ UNCHANGED <<chain, bundle, phase>>
      /\ \A a \in DOMAIN shardStore' :
            \E entry : /\ a \in isShardSpent => entry.pending
                       /\ GoodEntry(a, entry) /\ SyncedEntry(a, entry, shardStore'[a])
    BY Synced DEF wallet
<1>2. ASSUME NEW a \in DOMAIN shardStore'
      PROVE  /\ a \in Own /\ shardStore'[a] \in EntryType
             /\ TokensAt(a) \subseteq shardStore'[a].tokenIds
             /\ \A t \in Transfers :
                   /\ a \in DepositPool(t) => AnnouncedAt(a) # {}
                   /\ a \in ChangePool(t) => Built(t) /\ shardStore'[a].shown <= Receives(bundle[t], a)
    <2>1. PICK entry : /\ a \in isShardSpent => entry.pending
                       /\ GoodEntry(a, entry) /\ SyncedEntry(a, entry, shardStore'[a])
        BY <1>1
    <2>2. PICK new : new = shardStore'[a]
        OBVIOUS
    <2>3. new \in EntryType /\ TokensAt(a) \subseteq new.tokenIds
        BY <2>1, <2>2 DEF GoodEntry, SyncedEntry, TokensAt
    <2>4. ASSUME NEW t \in Transfers, a \in ChangePool(t)
          PROVE  Built(t) /\ new.shown <= Receives(bundle[t], a)
        <3>1. Built(t) /\ entry.pending => new.shown <= Receives(bundle[t], a)
            BY <2>1, <2>2, <2>4 DEF GoodEntry, SyncedEntry
        <3>2. Built(t)
            BY <2>1, <2>4 DEF GoodEntry
        <3>3. CASE ~entry.pending
            <4>1. new.shown = balance[a] /\ a \notin isShardSpent
                BY <2>1, <2>2, <3>3 DEF SyncedEntry
            <4>2. Receives(bundle[t], a) \in Nat
                BY <3>2, BuiltFacts, BundleMoves
            <4>3. Succeeded(t) => balance[a] = Receives(bundle[t], a)
                BY <2>4, <4>1 DEF IInv, OwnPools
            <4>4. ~Succeeded(t) => balance[a] = 0
                BY <2>4 DEF IInv, OwnPools, Untouched
            <4> QED BY <3>2, <4>1, <4>2, <4>3, <4>4
        <3> QED BY <3>1, <3>2, <3>3
    <2> QED BY <2>1, <2>2, <2>3, <2>4 DEF GoodEntry
<1>3. StoreKept'
    BY <1>1, <1>2 DEF StoreKept, TokensAt, AnnouncedAt, Built, chain
<1> QED
    BY <1>2, <1>3

\* A sync.
LEMMA SyncKeeps ==
    ASSUME IInv, SyncWithChain
    PROVE  IInv'
<1>1. /\ UNCHANGED <<chain, wallet, phase, calls, relayed>>
      /\ request' = request /\ bundle' = bundle /\ inputs' = inputs
    BY DEF SyncWithChain, wallet
<1>2. \A s \in Transfers : /\ Succeeded(s)' <=> Succeeded(s)
                           /\ Built(s)' <=> Built(s)
    BY <1>1 DEF Succeeded, Built
<1>3. OwnPools' /\ AnnouncementsKept' /\ TokensDelivered' /\ PublicPaid'
    BY <1>1, <1>2, ChainKept
<1>4. DepositsAnnounced' /\ DepositsArrive'
    BY <1>1, DepositsKept
<1>5. Bundles'
    BY <1>1, <1>2, BundlesUnchanged
<1>6. Queue'
    BY <1>1, QueueUnchanged
<1>7. Shape'
    <2>1. announced' = announced
        BY <1>1 DEF chain
    <2>2. DOMAIN inputs' = Transfers /\ DOMAIN bundle' = Transfers /\ DOMAIN calls' = Transfers
        BY <1>1 DEF IInv, Shape
    <2> QED BY <2>1, <2>2, ShapeKept
<1>8. TypeOK'
    <2>1. relayed' \in Seq(Transfers) /\ phase' \in [Transfers -> Phases]
        BY <1>1 DEF IInv, Queue, TypeOK, Phases
    <2> QED BY <1>1, <2>1, SyncedStoreKept, TypesKept
<1> QED
    BY <1>3, <1>4, <1>5, <1>6, <1>7, <1>8, SyncedStoreKept DEF IInv

\* The store is right after a sync.
LEMMA SyncedIsRight ==
    ASSUME IInv, SyncWithChain
    PROVE  StoreIsRight'
<1>1. UNCHANGED <<chain, phase>>
    BY Synced
<1>2. ASSUME NEW a \in Own, a \notin isShardSpent, \E ann \in announced : ann.stealthAddress = a
      PROVE  /\ a \in DOMAIN shardStore'
             /\ \/ shardStore'[a].pending
                \/ /\ shardStore'[a].shown = balance[a]
                   /\ shardStore'[a].tokenIds = TokensAt(a)
    <2>1. a \in DOMAIN Found(shardStore)
        <3>1. IsFiniteSet(announced)
            BY DEF IInv, Shape
        <3> QED BY <1>2, <3>1, FoundAreAdded
    <2>2. a \in DOMAIN shardStore'
        BY <1>2, <2>1, Synced
    <2>3. PICK entry : GoodEntry(a, entry) /\ SyncedEntry(a, entry, shardStore'[a])
        BY <2>2, Synced
    <2>4. TokensAt(a) \subseteq entry.tokenIds /\ entry.tokenIds \subseteq Tokens
        BY <2>3 DEF GoodEntry, EntryType
    <2>5. {id \in entry.tokenIds : ownerOf[id] = a} = TokensAt(a)
        BY <2>4 DEF TokensAt
    <2> QED BY <2>2, <2>3, <2>5 DEF SyncedEntry
<1>3. ASSUME NEW a \in DOMAIN shardStore', a \in isShardSpent
      PROVE  shardStore'[a].pending
    BY <1>3, Synced DEF SyncedEntry
<1> QED
    BY <1>1, <1>2, <1>3 DEF StoreIsRight, chain, TokensAt

-----------------------------------------------------------------------------
(* The initial states.                                                     *)

\* The wallet starts with its first shards, and nobody holds anything else.
LEMMA FirstHoldings ==
    ASSUME Init
    PROVE  /\ \A n \in FirstShards : FirstAsset[n].type \in {"ERC20", "ERC721"}
                                     /\ FirstAsset[n].value \in Nat
           /\ \A n \in FirstShards : /\ Amount(FirstAsset[n]) \in Nat
                                     /\ Ids(FirstAsset[n]) \subseteq Tokens
           /\ \A a \in Own : a[1] = "shard" => \E n \in FirstShards : a = Shard(n)
           /\ \A n \in FirstShards : Shard(n) \in Own /\ Kind(Shard(n)) = "shard"
           /\ \A id \in Tokens :
                 \/ ownerOf[id] = Sender
                 \/ \E n \in FirstShards : ownerOf[id] = Shard(n) /\ id \in Ids(FirstAsset[n])
           /\ \A a \in Addresses : a[1] # "shard" => Untouched(a)
<1> USE AddressKinds
<1>1. /\ \A n \in FirstShards : FirstAsset[n].type \in {"ERC20", "ERC721"}
                                /\ FirstAsset[n].value \in Nat
    <2>1. \A n \in FirstShards : FirstAsset[n] \in [type : {"ERC20", "ERC721"}, value : Nat]
        BY TransfersAssumption
    <2> QED BY <2>1
<1>2. \A n \in FirstShards : /\ Amount(FirstAsset[n]) \in Nat
                             /\ Ids(FirstAsset[n]) \subseteq Tokens
    BY <1>1 DEF Amount, Tokens
<1>3. \A a \in Own : a[1] = "shard" => \E n \in FirstShards : a = Shard(n)
    BY DEF Own
<1>4. \A n \in FirstShards : Shard(n) \in Own /\ Kind(Shard(n)) = "shard"
    BY DEF Own, Kind
<1>5. ASSUME NEW id \in Tokens
      PROVE  \/ ownerOf[id] = Sender
             \/ \E n \in FirstShards : ownerOf[id] = Shard(n) /\ id \in Ids(FirstAsset[n])
    <2>1. ownerOf[id] = IF id \in SenderTokens THEN Sender
                        ELSE CHOOSE a \in Own : Kind(a) = "shard" /\ id \in Ids(FirstAsset[a[3]])
        BY DEF Init
    <2>2. CASE id \notin SenderTokens
        <3>1. PICK n \in FirstShards : id \in Ids(FirstAsset[n])
            BY <2>2 DEF Tokens
        <3>2. \E a \in Own : Kind(a) = "shard" /\ id \in Ids(FirstAsset[a[3]])
            <4>1. Shard(n) \in Own /\ Kind(Shard(n)) = "shard" /\ Shard(n)[3] = n
                BY <1>4
            <4> QED BY <3>1, <4>1
        <3>3. PICK a \in Own : /\ Kind(a) = "shard" /\ id \in Ids(FirstAsset[a[3]])
                               /\ ownerOf[id] = a
            BY <2>1, <2>2, <3>2
        <3>4. PICK m \in FirstShards : a = Shard(m) /\ a[3] = m
            BY <1>3, <3>3 DEF Kind
        <3> QED BY <3>3, <3>4
    <2> QED BY <2>1, <2>2
<1>6. ASSUME NEW a \in Addresses, a[1] # "shard"
      PROVE  Untouched(a)
    <2>1. balance[a] = 0
        BY <1>6 DEF Init, Kind
    <2>2. \A id \in Tokens : ownerOf[id] # a
        <3>1. a # Sender
            BY Apart
        <3> QED BY <1>5, <1>6, <3>1
    <2>3. \A ann \in announced : ann.stealthAddress # a
        BY <1>6 DEF Init
    <2> QED BY <2>1, <2>2, <2>3 DEF Untouched, TokensAt, AnnouncedAt
<1> QED
    BY <1>1, <1>2, <1>3, <1>4, <1>5, <1>6

\* What the wallet shows and what is said of its first shards.
LEMMA FirstStore ==
    ASSUME Init
    PROVE  /\ IsFiniteSet(announced)
           /\ \A ann \in announced :
                 \E n \in FirstShards : /\ ann.stealthAddress = Shard(n)
                                        /\ ann.type = FirstAsset[n].type
                                        /\ ann.value = FirstAsset[n].value
                                        /\ ann = [stealthAddress |-> Shard(n), type |-> FirstAsset[n].type,
                                                  value |-> FirstAsset[n].value]
           /\ DOMAIN shardStore = {Shard(n) : n \in FirstShards}
           /\ \A n \in FirstShards : /\ shardStore[Shard(n)] \in EntryType
                                     /\ shardStore[Shard(n)].tokenIds = Ids(FirstAsset[n])
<1>1. IsFiniteSet(announced)
    <2> DEFINE f == [n \in FirstShards |-> [stealthAddress |-> Shard(n), type |-> FirstAsset[n].type,
                                            value |-> FirstAsset[n].value]]
    <2>1. \A ann \in announced : \E n \in FirstShards : ann = f[n]
        BY DEF Init
    <2> HIDE DEF f
    <2> QED BY <2>1, TransfersAssumption, ImageIsFinite
<1>2. \A ann \in announced :
          \E n \in FirstShards : ann = [stealthAddress |-> Shard(n), type |-> FirstAsset[n].type,
                                        value |-> FirstAsset[n].value]
    BY DEF Init
<1>3. shardStore = [a \in {Shard(n) : n \in FirstShards} |-> Entry(FirstAsset[a[3]])]
    BY DEF Init
<1>4. ASSUME NEW n \in FirstShards
      PROVE  /\ shardStore[Shard(n)] \in EntryType
             /\ shardStore[Shard(n)].tokenIds = Ids(FirstAsset[n])
    <2>1. Shard(n)[3] = n
        BY AddressKinds
    <2>2. shardStore[Shard(n)] = Entry(FirstAsset[n])
        BY <1>3, <2>1
    <2>3. Amount(FirstAsset[n]) \in Nat /\ Ids(FirstAsset[n]) \subseteq Tokens
        BY FirstHoldings
    <2> QED BY <2>2, <2>3 DEF Entry, EntryType
<1>5. DOMAIN shardStore = {Shard(n) : n \in FirstShards}
    BY <1>3
<1>6. ASSUME NEW ann \in announced
      PROVE  \E n \in FirstShards : /\ ann.stealthAddress = Shard(n)
                                    /\ ann.type = FirstAsset[n].type
                                    /\ ann.value = FirstAsset[n].value
                                    /\ ann = [stealthAddress |-> Shard(n), type |-> FirstAsset[n].type,
                                              value |-> FirstAsset[n].value]
    <2>1. PICK n \in FirstShards : ann = [stealthAddress |-> Shard(n), type |-> FirstAsset[n].type,
                                          value |-> FirstAsset[n].value]
        BY <1>2
    <2>2. /\ ann.stealthAddress = Shard(n) /\ ann.type = FirstAsset[n].type
          /\ ann.value = FirstAsset[n].value
        BY <2>1
    <2> QED BY <2>1, <2>2
<1> QED
    BY <1>1, <1>4, <1>5, <1>6

\* The initial states.
LEMMA InitKeeps ==
    ASSUME Init
    PROVE  IInv
<1> USE AddressKinds
<1>1. /\ phase = [t \in Transfers |-> "new"] /\ calls = [t \in Transfers |-> <<>>]
      /\ inputs = [t \in Transfers |-> <<>>] /\ bundle = [t \in Transfers |-> NoBundle]
      /\ isShardSpent = {} /\ relayed = <<>> /\ request \in Requests
    BY DEF Init
<1>2. \A t \in Transfers : ~Built(t) /\ ~Succeeded(t) /\ calls[t] = <<>> /\ phase[t] = "new"
    BY <1>1 DEF Built, Succeeded
<1>3. TypeOK
    <2>1. balance \in [Addresses -> Nat]
        <3>1. balance = [a \in Addresses |-> IF Kind(a) = "shard" THEN Amount(FirstAsset[a[3]]) ELSE 0]
            BY DEF Init
        <3>2. ASSUME NEW a \in Addresses, Kind(a) = "shard"
              PROVE  Amount(FirstAsset[a[3]]) \in Nat
            <4>1. a \in Own
                BY <3>2 DEF Addresses, Kind
            <4>2. PICK n \in FirstShards : a = Shard(n) /\ a[3] = n
                BY <3>2, <4>1, FirstHoldings DEF Kind
            <4> QED BY <4>2, FirstHoldings
        <3> QED BY <3>1, <3>2
    <2>2. ownerOf \in [Tokens -> Addresses \cup {Sender}]
        <3>1. ownerOf = [id \in Tokens |-> ownerOf[id]]
            BY DEF Init
        <3>2. \A id \in Tokens : ownerOf[id] \in Addresses \cup {Sender}
            BY FirstHoldings, Apart
        <3> QED BY <3>1, <3>2
    <2>3. \A ann \in announced : ann.stealthAddress \in Addresses /\ ann.value \in Nat
        BY FirstStore, FirstHoldings, Apart
    <2>4. /\ DOMAIN shardStore \subseteq Own
          /\ \A a \in DOMAIN shardStore : shardStore[a] \in EntryType
        BY FirstStore, FirstHoldings
    <2>5. ToSet(relayed) \subseteq Transfers
        BY <1>1 DEF ToSet
    <2>6. phase \in [Transfers -> Phases]
        BY <1>1 DEF Phases
    <2> QED BY <1>1, <2>1, <2>2, <2>3, <2>4, <2>5, <2>6 DEF TypeOK, Phases, EntryType
<1>4. Shape
    BY <1>1, FirstStore, FirstHoldings DEF Shape
<1>5. Bundles
    BY <1>1, <1>2 DEF Bundles
<1>6. Queue
    BY <1>1 DEF Queue
<1>7. ASSUME NEW t \in Transfers, NEW a \in RecipientPool(t) \cup ChangePool(t) \cup DepositPool(t)
      PROVE  Untouched(a) /\ ~Holds(a)
    <2>1. a \in Addresses /\ a[1] # "shard"
        BY Apart
    <2>2. Untouched(a)
        BY <2>1, FirstHoldings
    <2> QED BY <2>1, <2>2 DEF Untouched, Holds, TokensAt
<1>8. OwnPools
    BY <1>1, <1>2, <1>7 DEF OwnPools
<1>9. AnnouncementsKept
    <2>1. ASSUME NEW a \in Own, NEW x \in AnnouncedAt(a)
          PROVE  \E n \in FirstShards :
                    /\ a = Shard(n) /\ x = [stealthAddress |-> Shard(n), type |-> FirstAsset[n].type,
                                            value |-> FirstAsset[n].value]
                    /\ Ids(x) = Ids(FirstAsset[n])
        <3>1. x \in announced /\ x.stealthAddress = a
            BY DEF AnnouncedAt
        <3>2. PICK n \in FirstShards :
                 /\ x.stealthAddress = Shard(n) /\ x.type = FirstAsset[n].type
                 /\ x.value = FirstAsset[n].value
                 /\ x = [stealthAddress |-> Shard(n), type |-> FirstAsset[n].type,
                         value |-> FirstAsset[n].value]
            BY <3>1, FirstStore
        <3> QED BY <3>1, <3>2 DEF Ids
    <2>2. ASSUME NEW a \in Own, NEW x \in AnnouncedAt(a)
          PROVE  TokensAt(a) \subseteq Ids(x) /\ Ids(x) \subseteq Tokens
        <3>1. PICK n \in FirstShards : a = Shard(n) /\ Ids(x) = Ids(FirstAsset[n])
            BY <2>1
        <3>2. \A id \in TokensAt(a) : id \in Ids(FirstAsset[n])
            BY <3>1, FirstHoldings DEF TokensAt
        <3> QED BY <3>1, <3>2, FirstHoldings
    <2>3. ASSUME NEW a \in Own, NEW x \in AnnouncedAt(a), NEW y \in AnnouncedAt(a)
          PROVE  x = y
        <3>1. PICK n \in FirstShards :
                 a = Shard(n) /\ x = [stealthAddress |-> Shard(n), type |-> FirstAsset[n].type,
                                      value |-> FirstAsset[n].value]
            BY <2>1
        <3>2. PICK m \in FirstShards :
                 a = Shard(m) /\ y = [stealthAddress |-> Shard(m), type |-> FirstAsset[m].type,
                                      value |-> FirstAsset[m].value]
            BY <2>1
        <3>3. n = m
            <4>1. Shard(n)[3] = n /\ Shard(m)[3] = m
                OBVIOUS
            <4>2. Shard(n) = Shard(m)
                BY <3>1, <3>2
            <4> HIDE DEF Shard
            <4> QED BY <4>1, <4>2
        <3> QED BY <3>1, <3>2, <3>3
    <2> QED BY <2>2, <2>3 DEF AnnouncementsKept
<1>10. DepositsAnnounced
    <2>1. \A t \in Transfers : calls[t] \in Seq(Call) /\ DOMAIN calls[t] = {}
        <3>1. <<>> \in Seq(Call) /\ DOMAIN <<>> = {}
            OBVIOUS
        <3> QED BY <1>2, <3>1
    <2> QED BY <1>2, <1>7, <2>1 DEF DepositsAnnounced, DepositAnnounced, Untouched
<1>11. DepositsArrive
    BY <1>2 DEF DepositsArrive, DepositArrives, Depositing
<1>12. StoreKept
    <2>1. ASSUME NEW a \in DOMAIN shardStore
          PROVE  TokensAt(a) \subseteq shardStore[a].tokenIds
        <3>1. PICK n \in FirstShards : a = Shard(n) /\ shardStore[a].tokenIds = Ids(FirstAsset[n])
            BY FirstStore
        <3> QED BY <3>1, FirstHoldings DEF TokensAt
    <2>2. \A a \in DOMAIN shardStore : a[1] = "shard"
        BY FirstStore
    <2> QED BY <2>1, <2>2 DEF StoreKept
<1>13. TokensDelivered
    BY <1>2 DEF TokensDelivered
<1>14. PublicPaid
    <2>1. {t \in Transfers : Asks(t, "public", "ERC20") /\ Succeeded(t)} = {}
        BY <1>2
    <2>2. balance[PublicRecipient] = 0
        BY Apart, FirstHoldings DEF Untouched
    <2> QED BY <2>1, <2>2, SumEmpty DEF PublicPaid
<1> QED
    BY <1>3, <1>4, <1>5, <1>6, <1>8, <1>9, <1>10, <1>11, <1>12, <1>13, <1>14 DEF IInv

-----------------------------------------------------------------------------
(* Every step keeps the invariant.                                         *)

\* A step that changes nothing.
LEMMA StutterKeeps ==
    ASSUME IInv, UNCHANGED vars
    PROVE  IInv'
<1>1. UNCHANGED <<chain, shardStore, wallet, phase, calls, relayed>>
    BY DEF vars
<1>2. /\ UNCHANGED wallet /\ request' = request /\ bundle' = bundle /\ inputs' = inputs
      /\ UNCHANGED relayed /\ UNCHANGED <<chain, shardStore>> /\ UNCHANGED <<request, chain>>
      /\ UNCHANGED <<request, chain, calls>> /\ announced' = announced
    BY <1>1 DEF wallet, chain
<1>3. \A s \in Transfers : /\ Succeeded(s)' <=> Succeeded(s)
                           /\ Built(s)' <=> Built(s)
    BY <1>1 DEF Succeeded, Built
<1>4. OwnPools' /\ AnnouncementsKept' /\ TokensDelivered' /\ PublicPaid'
    BY <1>2, <1>3, ChainKept
<1>5. DepositsAnnounced' /\ DepositsArrive'
    BY <1>1, <1>2, DepositsKept
<1>6. Bundles'
    BY <1>1, <1>2, <1>3, BundlesUnchanged
<1>7. Queue'
    BY <1>1, <1>2, QueueUnchanged
<1>8. StoreKept'
    BY <1>2, <1>3, StoreUnchanged
<1>9. Shape'
    <2>1. DOMAIN inputs' = Transfers /\ DOMAIN bundle' = Transfers /\ DOMAIN calls' = Transfers
        BY <1>1, <1>2 DEF IInv, Shape
    <2> QED BY <1>2, <2>1, ShapeKept
<1>10. TypeOK'
    <2>1. relayed' \in Seq(Transfers) /\ phase' \in [Transfers -> Phases]
        BY <1>1 DEF IInv, Queue, TypeOK, Phases
    <2>2. shardStore' = shardStore
        BY <1>1
    <2> QED BY <1>2, <2>1, <2>2, StoreTyped, TypesKept
<1> QED
    BY <1>4, <1>5, <1>6, <1>7, <1>8, <1>9, <1>10 DEF IInv

\* Any step.
LEMMA NextKeeps ==
    ASSUME IInv, [Next]_vars
    PROVE  IInv'
<1>1. CASE Mine
    BY <1>1, MineKeeps
<1>2. CASE SyncWithChain
    BY <1>2, SyncKeeps
<1>3. ASSUME NEW t \in Transfers, TransferStep(t)
      PROVE  IInv'
    BY <1>3, BuildKeeps, ConfirmPreparedKeeps, QuoteOrThrowKeeps, ConfirmKeeps DEF TransferStep
<1>4. ASSUME NEW t \in Transfers, DepositStep(t)
      PROVE  IInv'
    BY <1>4, PrepareDepositKeeps, CallMinedKeeps DEF DepositStep
<1>5. CASE UNCHANGED vars
    BY <1>5, StutterKeeps
<1> QED
    BY <1>1, <1>2, <1>3, <1>4, <1>5 DEF Next

\* The invariant holds in every state of every run.
LEMMA TransfersInvariant == Spec => []IInv
<1>1. Init => IInv
    BY InitKeeps
<1>2. IInv /\ [Next]_vars => IInv'
    BY NextKeeps
<1> QED
    BY <1>1, <1>2, PTL DEF Spec

-----------------------------------------------------------------------------
(* What the invariant says.                                                *)

\* A built transfer whose inputs are as they were selected.
LEMMA GoodBundleExecutes ==
    ASSUME IInv, NEW t \in Transfers, Built(t), ~Succeeded(t),
           \A a \in DOMAIN inputs[t] :
              /\ a \notin isShardSpent /\ balance[a] >= inputs[t][a].shown
              /\ \A id \in inputs[t][a].tokenIds : ownerOf[id] = a
    PROVE  MeshSucceeds(bundle[t])
<1>1. PICK b : b = bundle[t]
    OBVIOUS
<1>2. PICK held : held = inputs[t]
    OBVIOUS
<1>3. /\ GoodCommands(t, request[t], held, b) /\ GoodAnnouncements(t, request[t], b)
      /\ request[t] \in RequestType /\ request[t].type \in {"ERC20", "ERC721"}
      /\ request[t].type = "ERC20" => SpendsHeld(held, b)
      /\ request[t].type = "ERC721" => MovesToken(t, request[t], held, b)
      /\ \A a \in DOMAIN held : a \in Own /\ held[a] \in EntryType
    BY <1>1, <1>2, BuiltFacts
<1>4. /\ b.shardAddresses = DOMAIN held
      /\ \A c \in b.commands : /\ c.shard \in DOMAIN held /\ c.type = request[t].type
                               /\ c.signature = SignedContent(c, b.announcements)
    BY <1>3 DEF GoodCommands
<1>5. \A a \in DOMAIN held : /\ a \notin isShardSpent /\ balance[a] >= held[a].shown
                             /\ \A id \in held[a].tokenIds : ownerOf[id] = a
    BY <1>2
<1>6. Unspent(b)
    <2>1. \A ann \in b.announcements : ann.stealthAddress \notin isShardSpent
        BY <1>3 DEF GoodAnnouncements, IInv, OwnPools
    <2> QED BY <1>4, <1>5, <2>1 DEF Unspent
<1>7. ASSUME NEW a \in b.shardAddresses
      PROVE  balance[a] >= Spends(b, a)
    <2>1. a \in DOMAIN held /\ balance[a] \in Nat
        BY <1>3, <1>4, Apart DEF IInv, TypeOK
    <2>2. CASE request[t].type = "ERC20"
        BY <1>3, <1>5, <2>1, <2>2 DEF SpendsHeld
    <2>3. CASE request[t].type = "ERC721"
        BY <1>3, <2>1, <2>3, BundleMoves
    <2> QED BY <1>3, <2>2, <2>3
<1>8. ASSUME NEW c \in b.commands, NEW id \in Ids(c)
      PROVE  ownerOf[id] = c.shard
    <2>1. request[t].type = "ERC721" /\ id = c.value
        BY <1>3, <1>4 DEF Ids
    <2>2. id \in held[c.shard].tokenIds
        BY <1>3, <2>1 DEF MovesToken
    <2> QED BY <1>4, <1>5, <2>2
<1> QED
    BY <1>1, <1>4, <1>6, <1>7, <1>8 DEF MeshSucceeds, Funded

\* An empty bundle.
LEMMA NoBundleExecutes ==
    ASSUME IInv
    PROVE  MeshSucceeds(NoBundle)
BY DEF MeshSucceeds, Unspent, Funded, NoBundle

\* BundlesExecute, of the invariant.
LEMMA BundlesOfInvariant == IInv => BundlesExecute
<1> SUFFICES ASSUME IInv PROVE BundlesExecute
    OBVIOUS
<1>1. ASSUME NEW t \in Transfers, phase[t] # "new", ~Succeeded(t),
             \A a \in DOMAIN inputs[t] :
                /\ a \notin isShardSpent /\ balance[a] >= inputs[t][a].shown
                /\ \A id \in inputs[t][a].tokenIds : ownerOf[id] = a
      PROVE  MeshSucceeds(bundle[t])
    <2>1. CASE Built(t)
        BY <1>1, <2>1, GoodBundleExecutes
    <2>2. CASE ~Built(t)
        <3>1. bundle[t] = NoBundle
            BY <2>2 DEF IInv, Bundles
        <3> QED BY <3>1, NoBundleExecutes
    <2> QED BY <2>1, <2>2
<1> QED
    BY <1>1 DEF BundlesExecute

\* What the recipient of a private transfer holds.
LEMMA RecipientHolds ==
    ASSUME IInv, NEW t \in Transfers, Asks(t, "private", "ERC20")
    PROVE  SumFunctionOnSet(balance, RecipientPool(t)) = IF Succeeded(t) THEN Value(t) ELSE 0
<1>1. /\ IsFiniteSet(RecipientPool(t)) /\ RecipientPool(t) \subseteq Addresses
      /\ \A a \in RecipientPool(t) : a \notin isShardSpent /\ balance[a] \in Int
    <2>1. isShardSpent \subseteq Own /\ balance \in [Addresses -> Nat]
        BY DEF IInv, TypeOK
    <2> QED BY <2>1, FinitelyMany, Apart
<1>2. CASE Succeeded(t)
    <2>1. Built(t) /\ request[t].type = "ERC20" /\ request[t].mode = "private"
        BY <1>2 DEF Succeeded, Built, Asks
    <2>2. PICK b : b = bundle[t]
        OBVIOUS
    <2>3. PaysAmount(t, request[t], b) /\ \A a : Receives(b, a) \in Nat
        BY <2>1, <2>2, BuiltFacts, BundleMoves
    <2>4. PICK paid : paid = [a \in RecipientPool(t) |-> Receives(b, a)]
        OBVIOUS
    <2>5. \A a \in RecipientPool(t) : balance[a] = paid[a] /\ paid[a] \in Int
        BY <1>1, <1>2, <2>2, <2>3, <2>4 DEF IInv, OwnPools
    <2>6. SumFunctionOnSet(balance, RecipientPool(t)) = SumFunctionOnSet(paid, RecipientPool(t))
        BY <1>1, <2>5, SumCompare
    <2>7. SumFunctionOnSet(paid, RecipientPool(t)) = request[t].value
        BY <2>1, <2>3, <2>4 DEF PaysAmount
    <2> QED BY <1>2, <2>6, <2>7 DEF Value
<1>3. CASE ~Succeeded(t)
    <2>1. \A a \in RecipientPool(t) : balance[a] = 0
        BY <1>3 DEF IInv, OwnPools, Untouched
    <2> QED BY <1>1, <1>3, <2>1, SumZero
<1> QED
    BY <1>2, <1>3

\* Who holds the token of a transfer.
LEMMA TokenHolder ==
    ASSUME IInv, NEW t \in Transfers
    PROVE  /\ Asks(t, "private", "ERC721") =>
                 (ownerOf[Value(t)] \in RecipientPool(t) <=> Succeeded(t))
           /\ Asks(t, "public", "ERC721") /\ Succeeded(t) => ownerOf[Value(t)] = PublicRecipient
<1>1. ASSUME Succeeded(t), request[t].type = "ERC721"
      PROVE  ownerOf[Value(t)] \in Targets(t, request[t].mode, "payment")
    BY <1>1 DEF IInv, TokensDelivered
<1>2. ASSUME ~Succeeded(t), Asks(t, "private", "ERC721")
      PROVE  ownerOf[Value(t)] \notin RecipientPool(t)
    <2>1. Value(t) \in Tokens
        BY <1>2, RequestsTyped DEF IInv, TypeOK, Asks, Value
    <2>2. \A a \in RecipientPool(t) : TokensAt(a) = {}
        BY <1>2 DEF IInv, OwnPools, Untouched
    <2> QED BY <2>1, <2>2 DEF TokensAt
<1> QED
    BY <1>1, <1>2 DEF Asks, Targets

\* What a deposit has brought.
LEMMA DepositHeld ==
    ASSUME IInv, NEW t \in Transfers, phase[t] = "deposited", DepositPool(t) \cap isShardSpent = {}
    PROVE  IF request[t].type = "ERC721" THEN ownerOf[Value(t)] \in DepositPool(t)
           ELSE SumFunctionOnSet(balance, DepositPool(t)) = Value(t)
<1>1. DepositAnnounced(t) /\ DepositArrives(t) /\ Depositing(t)
    BY DEF IInv, DepositsAnnounced, DepositsArrive, Depositing
<1>2. calls[t] = <<>>
    BY <1>1 DEF DepositAnnounced
<1>3. request[t].type \in {"ERC20", "ERC721"}
    BY RequestsTyped DEF IInv, TypeOK
<1>4. CASE request[t].type = "ERC721"
    <2>1. calls[t] # <<DepositOf(t, "transfer"), DepositOf(t, "announce")>>
        <3>1. <<>> # <<DepositOf(t, "transfer"), DepositOf(t, "announce")>>
            OBVIOUS
        <3> QED BY <1>2, <3>1
    <2> QED BY <1>1, <1>4, <2>1 DEF DepositArrives, Value
<1>5. CASE request[t].type = "ERC20"
    <2>1. Outstanding(t) = 0
        <3>1. DOMAIN <<>> = {}
            OBVIOUS
        <3>2. DOMAIN calls[t] = {}
            BY <1>2, <3>1
        <3>3. PICK f : f = [k \in DOMAIN calls[t] |->
                              IF calls[t][k].is = "transfer" THEN calls[t][k].value ELSE 0]
            OBVIOUS
        <3>4. DOMAIN f = {}
            BY <3>2, <3>3
        <3>5. SumFunction(f) = 0
            BY <3>4, SumEmpty DEF SumFunction
        <3> QED BY <3>3, <3>5 DEF Outstanding
    <2>2. SumFunctionOnSet(balance, DepositPool(t)) \in Int
        <3>1. \A a \in DepositPool(t) : balance[a] \in Int
            BY Apart DEF IInv, TypeOK
        <3> QED BY <3>1, FinitelyMany, SumType
    <2> QED BY <1>1, <1>5, <2>1, <2>2 DEF DepositArrives, Value
<1> QED
    BY <1>3, <1>4, <1>5

\* PaidExactly, of the invariant.
LEMMA PaymentsOfInvariant == IInv => PaidExactly
<1> SUFFICES ASSUME IInv PROVE PaidExactly
    OBVIOUS
<1>1. PublicPaid
    BY DEF IInv
<1> QED
    BY <1>1, RecipientHolds, TokenHolder, DepositHeld DEF PaidExactly, PublicPaid

\* The announcement of an address is the only one.
LEMMA SingleAnnouncement ==
    ASSUME IInv, NEW a \in Addresses, AnnouncedAt(a) # {},
           \A x, y \in AnnouncedAt(a) : x = y
    PROVE  Cardinality({ann \in announced : ann.stealthAddress = a}) = 1
<1>1. PICK x : x \in AnnouncedAt(a)
    OBVIOUS
<1>2. AnnouncedAt(a) = {x}
    BY <1>1
<1> QED
    BY <1>2, FS_Singleton DEF AnnouncedAt

\* FundsAreAnnounced, of the invariant.
LEMMA FundsOfInvariant == IInv => FundsAreAnnounced
<1> SUFFICES ASSUME IInv, NEW a \in Addresses, Stealth(a), Holds(a)
             PROVE  \/ Cardinality({ann \in announced : ann.stealthAddress = a}) = 1
                    \/ \E t \in Transfers : \E k \in DOMAIN calls[t] :
                          calls[t][k].is = "announce" /\ calls[t][k].to = a
    BY DEF FundsAreAnnounced
<1>1. PICK t \in Transfers : a \in RecipientPool(t) \cup ChangePool(t) \cup DepositPool(t)
    <2>1. a[1] \in {"recipient", "change", "deposit"}
        BY DEF Stealth, Kind
    <2>2. \A n : a # Shard(n)
        BY <2>1, AddressKinds
    <2>3. a # PublicRecipient
        BY <2>1, AddressKinds
    <2> QED BY <2>2, <2>3 DEF Addresses, Own
<1>2. \A b \in Own : \A x, y \in AnnouncedAt(b) : x = y
    BY DEF IInv, AnnouncementsKept
<1>3. CASE a \in RecipientPool(t) \cup ChangePool(t)
    <2>1. AnnouncedAt(a) # {}
        BY <1>3 DEF IInv, OwnPools
    <2>2. Succeeded(t)
        BY <1>3, <2>1 DEF IInv, OwnPools, Untouched
    <2>3. Built(t) /\ AnnouncedAt(a) = {ann \in bundle[t].announcements : ann.stealthAddress = a}
        BY <1>3, <2>2 DEF IInv, OwnPools, Succeeded, Built
    <2>4. \A x, y \in bundle[t].announcements : x.stealthAddress = y.stealthAddress => x = y
        BY <2>3, BuiltFacts DEF GoodAnnouncements
    <2>5. \A x, y \in AnnouncedAt(a) : x = y
        BY <2>3, <2>4
    <2> QED BY <2>1, <2>5, SingleAnnouncement
<1>4. CASE a \in DepositPool(t)
    <2>1. a \in Own
        BY <1>4, Apart
    <2>2. AnnouncedAt(a) # {} \/ \E k \in DOMAIN calls[t] : Announces(t, k, a)
        BY <1>4 DEF IInv, DepositsAnnounced, DepositAnnounced
    <2> QED BY <1>2, <2>1, <2>2, SingleAnnouncement DEF Announces
<1> QED
    BY <1>1, <1>3, <1>4

\* ChangeIsBacked, of the invariant.
LEMMA ChangeOfInvariant == IInv => ChangeIsBacked
<1> SUFFICES ASSUME IInv, NEW t \in Transfers, Succeeded(t),
                    NEW a \in ChangePool(t) \cap DOMAIN shardStore, a \notin isShardSpent
             PROVE  shardStore[a].shown <= balance[a]
    BY DEF ChangeIsBacked
<1>1. shardStore[a].shown <= Receives(bundle[t], a)
    BY DEF IInv, StoreKept
<1>2. balance[a] = Receives(bundle[t], a)
    BY DEF IInv, OwnPools
<1> QED
    BY <1>1, <1>2

-----------------------------------------------------------------------------
\* No balance goes below nothing, no router flag is set on a foreign address, and
\* the store lists own addresses only (GhostRouter.sol: executeMesh, index.ts:
\* syncWithChain).
THEOREM TransfersTypeCorrect == Spec => []TypeOK
<1>1. IInv => TypeOK
    BY DEF IInv
<1> QED
    BY <1>1, TransfersInvariant, PTL

\* Whatever selection, draw and order of outputs prepareTransfer comes to, and
\* however many other transfers are under way, the bundle goes through the router
\* while its inputs hold what was selected on them (transaction.ts, GhostRouter.sol).
THEOREM BundlesAlwaysExecute == Spec => []BundlesExecute
    BY TransfersInvariant, BundlesOfInvariant, PTL

\* A recipient gets the requested amount or token, exactly and only if the transfer
\* succeeds; so does the owner of a deposit, and public payments add up
\* (transaction.ts: prepareTransfer, preparePrivateDeposit).
THEOREM PaymentsAreExact == Spec => []PaidExactly
    BY TransfersInvariant, PaymentsOfInvariant, PTL

\* Funds at a stealth address are announced once, or are about to be
\* (transaction.ts: the announcements of a bundle and of a deposit).
THEOREM FundsAlwaysAnnounced == Spec => []FundsAreAnnounced
    BY TransfersInvariant, FundsOfInvariant, PTL

\* The change that the store shows is on the chain when its transfer succeeded
\* (confirmPrepared, confirmTransaction and syncWithChain in any order).
THEOREM ChangeAlwaysBacked == Spec => []ChangeIsBacked
    BY TransfersInvariant, ChangeOfInvariant, PTL

\* After a sync the store offers every unspent shard with announced funds as the
\* chain has it, and no spent one, whatever the transfers left in it (index.ts:
\* syncWithChain).
THEOREM SyncAlwaysPutsRight == Spec => SyncPutsRight
<1>1. IInv /\ [Next]_vars => [SyncWithChain => StoreIsRight']_vars
    BY SyncedIsRight
<1> QED
    BY <1>1, TransfersInvariant, PTL DEF Spec, SyncPutsRight
=============================================================================
