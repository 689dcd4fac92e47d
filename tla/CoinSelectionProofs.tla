------------------------- MODULE CoinSelectionProofs -------------------------
(***************************************************************************)
(* Theorems about CoinSelection, for every set of wallets and amounts and  *)
(* every dust threshold.                                                   *)
(***************************************************************************)
EXTENDS CoinSelection, FoldTheorems

\* The larger and the smaller of two numbers.
LEMMA OfTwo ==
    ASSUME NEW a \in Int, NEW b \in Int
    PROVE  /\ Max({a, b}) = IF a >= b THEN a ELSE b
           /\ Min({a, b}) = IF a <= b THEN a ELSE b
<1>1. Max({a, b}) = IF a >= b THEN a ELSE b
    <2>1. \E x \in {a, b} : \A y \in {a, b} : x >= y
        OBVIOUS
    <2>2. Max({a, b}) \in {a, b} /\ \A y \in {a, b} : Max({a, b}) >= y
        BY <2>1 DEF Max
    <2> QED BY <2>2
<1>2. Min({a, b}) = IF a <= b THEN a ELSE b
    <2>1. \E x \in {a, b} : \A y \in {a, b} : x <= y
        OBVIOUS
    <2>2. Min({a, b}) \in {a, b} /\ \A y \in {a, b} : Min({a, b}) <= y
        BY <2>1 DEF Min
    <2> QED BY <2>2
<1> QED
    BY <1>1, <1>2

(***************************************************************************)
(* generateSplitsForShard.                                                 *)
(***************************************************************************)

\* A percentage of an amount lies between nothing and all of it.
LEMMA Percentage ==
    ASSUME NEW m \in Nat, NEW p \in 0..100
    PROVE  (m * p) \div 100 \in 0..m
<1>1. m * (100 - p) \in Nat /\ m * p \in Nat /\ m * p = m * 100 - m * (100 - p)
    OBVIOUS
<1> DEFINE a == m * p
           b == m * (100 - p)
<1>2. a \in Nat /\ b \in Nat /\ a = m * 100 - b
    BY <1>1
<1> HIDE DEF a, b
<1>3. a \div 100 \in 0..m
    BY <1>2
<1> QED
    BY <1>3 DEF a

\* A chunk is at least Dust and leaves what the outputs to come must have.
LEMMA ChunkBounds ==
    ASSUME NEW m \in Nat, m > Dust, NEW d \in Draw(50)
    PROVE  chunk(m, d + 25) \in Dust..m
<1>1. d + 25 \in 0..100
    BY DEF Draw
<1>2. (m * (d + 25)) \div 100 \in 0..m
    BY <1>1, Percentage
<1> DEFINE part == (m * (d + 25)) \div 100
<1>3. part \in 0..m
    BY <1>2
<1>4. chunk(m, d + 25) = Max({part, Dust})
    BY DEF chunk
<1> HIDE DEF part
<1> QED
    BY <1>3, <1>4, OfTwo, SelectionAssumption

\* The recursion of Cuts is well founded: one table is there for each number of
\* outputs.
Depth == MaxSplitsPerSide + 6
Whole == [rest \in 0..(2 * MaxValue) |-> {<<rest>>}]
CutsUpTo(n, f) ==
    f = [left \in 0..n |-> IF left = 0 THEN Whole ELSE LongerCuts(f[left - 1], left)]

\* The recursion has a solution for each number of outputs.
LEMMA CutsExist ==
    ASSUME NEW n \in Nat
    PROVE  \E f : CutsUpTo(n, f)
<1> DEFINE Good == {i \in 0..n : \E f : CutsUpTo(i, f)}
<1>1. 0 \in Good
    <2>1. CutsUpTo(0, [left \in 0..0 |-> Whole])
        BY DEF CutsUpTo
    <2> QED BY <2>1
<1>2. ASSUME NEW i \in 0..(n - 1), i \in Good
      PROVE  i + 1 \in Good
    <2>1. PICK f : CutsUpTo(i, f)
        BY <1>2
    <2> DEFINE g == [left \in 0..(i + 1) |-> IF left = i + 1 THEN LongerCuts(f[i], left)
                                              ELSE f[left]]
    <2>2. ASSUME NEW left \in 0..(i + 1)
          PROVE  g[left] = IF left = 0 THEN Whole ELSE LongerCuts(g[left - 1], left)
        <3>1. CASE left = i + 1
            <4>1. g[left] = LongerCuts(f[i], left) /\ g[left - 1] = f[i] /\ left # 0
                BY <3>1
            <4> QED BY <4>1, <3>1
        <3>2. CASE left \in 0..i
            <4>1. g[left] = f[left] /\ (left # 0 => g[left - 1] = f[left - 1])
                BY <3>2
            <4>2. f[left] = IF left = 0 THEN Whole ELSE LongerCuts(f[left - 1], left)
                BY <2>1, <3>2 DEF CutsUpTo
            <4> QED BY <4>1, <4>2
        <3> QED BY <3>1, <3>2
    <2>3. DOMAIN g = 0..(i + 1) /\ g = [left \in 0..(i + 1) |-> g[left]]
        OBVIOUS
    <2> HIDE DEF g
    <2>4. CutsUpTo(i + 1, g)
        BY <2>2, <2>3 DEF CutsUpTo
    <2> QED BY <2>4
<1>3. n \in Good
    <2> HIDE DEF Good
    <2> QED BY <1>1, <1>2, UpTo
<1> QED
    BY <1>3

\* The table of cuts with one more output comes from the one before.
LEMMA CutsDefined ==
    /\ Cuts[0] = Whole
    /\ \A left \in 1..Depth : Cuts[left] = LongerCuts(Cuts[left - 1], left)
<1>1. Depth \in Nat
    BY SelectionAssumption DEF Depth
<1>2. CutsUpTo(Depth, CHOOSE f : CutsUpTo(Depth, f))
    BY <1>1, CutsExist
<1>3. Cuts = CHOOSE f : CutsUpTo(Depth, f)
    BY DEF Cuts, CutsUpTo, Depth, Whole
<1>4. CutsUpTo(Depth, Cuts)
    BY <1>2, <1>3
<1> QED
    BY <1>1, <1>4 DEF CutsUpTo

\* A way to cut an amount: nothing is lost, and every output is above Dust.
CutOf(cut, rest) ==
    /\ cut \in Seq(Nat)
    /\ SumFunction(cut) = rest
    /\ \A j \in DOMAIN cut : cut[j] >= Dust

\* Every cut in the tables adds up and has no dust but the whole.
LEMMA CutsAreSound ==
    ASSUME NEW left \in 0..Depth, NEW rest \in Dust..(2 * MaxValue), NEW cut \in Cuts[left][rest]
    PROVE  CutOf(cut, rest)
<1> DEFINE Good == {n \in 0..Depth :
               \A r \in Dust..(2 * MaxValue) : \A c \in Cuts[n][r] : CutOf(c, r)}
<1> USE SelectionAssumption
<1>1. ASSUME NEW r \in Dust..(2 * MaxValue)
      PROVE  CutOf(<<r>>, r)
    <2>1. SumFunction(<<r>>) = r
        BY ShortSums
    <2>2. <<r>> \in Seq(Nat) /\ \A j \in DOMAIN <<r>> : <<r>>[j] >= Dust
        OBVIOUS
    <2> QED BY <2>1, <2>2 DEF CutOf
<1>2. 0 \in Good
    BY <1>1, CutsDefined DEF Whole, Depth
<1>3. ASSUME NEW n \in 0..(left - 1), n \in Good
      PROVE  n + 1 \in Good
    <2> SUFFICES ASSUME NEW r \in Dust..(2 * MaxValue), NEW c \in Cuts[n + 1][r]
                 PROVE  CutOf(c, r)
        BY <1>3 DEF Depth
    <2> DEFINE m == r - Dust * (n + 1)
    <2>1. Cuts[n + 1] = LongerCuts(Cuts[n], n + 1)
        BY CutsDefined DEF Depth
    <2>2. c \in IF m <= Dust THEN {<<r>>}
                ELSE UNION {{<<k>> \o cut_ : cut_ \in Cuts[n][r - k]} :
                               k \in {chunk(m, d + 25) : d \in Draw(50)}}
        <3>1. r \in 0..(2 * MaxValue)
            OBVIOUS
        <3> DEFINE cuts == Cuts[n]
        <3>2. c \in LongerCuts(cuts, n + 1)[r]
            BY <2>1
        <3> HIDE DEF cuts
        <3>3. c \in IF m <= Dust THEN {<<r>>}
                    ELSE UNION {{<<k>> \o cut_ : cut_ \in cuts[r - k]} :
                                   k \in {chunk(m, d + 25) : d \in Draw(50)}}
            BY <3>1, <3>2, Zenon DEF LongerCuts
        <3> QED BY <3>3 DEF cuts
    <2>3. CASE m <= Dust
        BY <2>2, <2>3, <1>1
    <2>4. CASE ~(m <= Dust)
        <3>0. PICK d \in Draw(50) :
                  \E rec \in Cuts[n][r - chunk(m, d + 25)] : c = <<chunk(m, d + 25)>> \o rec
            BY <2>2, <2>4
        <3>1. PICK rec \in Cuts[n][r - chunk(m, d + 25)] : c = <<chunk(m, d + 25)>> \o rec
            BY <3>0
        <3> DEFINE k == chunk(m, d + 25)
        <3>2. Dust * (n + 1) = Dust * n + Dust /\ Dust * n \in Nat
            OBVIOUS
        <3>3. m \in Nat /\ m > Dust /\ m <= r - Dust
            <4> DEFINE x == Dust * n
            <4> HIDE DEF x
            <4>1. m = r - (x + Dust) /\ x \in Nat
                BY <3>2 DEF x
            <4> HIDE DEF m
            <4> QED BY <4>1, <2>4
        <3>4. k \in Dust..m
            BY <3>3, ChunkBounds
        <3> HIDE DEF k, m
        <3>5. r - k \in Dust..(2 * MaxValue) /\ k \in Nat
            BY <3>3, <3>4
        <3>6. CutOf(rec, r - k)
            BY <3>1, <3>5, <1>3 DEF k
        <3>7. c = <<k>> \o rec
            BY <3>1 DEF k
        <3>8. rec \in Seq(Int) /\ rec \in Seq(Nat)
            BY <3>6 DEF CutOf
        <3>9. SumFunction(c) = r
            BY <3>5, <3>6, <3>7, <3>8, SumCons DEF CutOf
        <3>10. c \in Seq(Nat) /\ \A j \in DOMAIN c : c[j] >= Dust
            BY <3>4, <3>5, <3>6, <3>7, <3>8 DEF CutOf
        <3> QED BY <3>9, <3>10 DEF CutOf
    <2> QED BY <2>3, <2>4
<1>4. left \in Good
    <2> HIDE DEF Good
    <2>1. left \in Nat
        BY DEF Depth
    <2> QED BY <1>2, <1>3, <2>1, UpTo
<1> QED
    BY <1>4

\* What generateSplitsForShard promises: the outputs add up to a positive amount
\* and there is none otherwise; when there are several, each is above Dust.
SplitOf(s, n) ==
    /\ s \in Seq(Nat)
    /\ SumFunction(s) = IF n <= 0 THEN 0 ELSE n
    /\ Len(s) > 1 => \A j \in DOMAIN s : s[j] >= Dust

\* generateSplitsForShard splits a share without loss and without dust.
LEMMA SplitsAreSound ==
    ASSUME NEW n \in Int, n <= 2 * MaxValue, NEW k \in 0..Depth,
           NEW s \in generateSplitsForShard(n, k)
    PROVE  SplitOf(s, n)
<1> USE SelectionAssumption
<1>1. CASE n <= 0
    <2>1. s = <<>> /\ s \in Seq(Nat)
        BY <1>1 DEF generateSplitsForShard
    <2>2. SumFunction(s) = 0
        BY <2>1, ShortSums
    <2> QED BY <1>1, <2>1, <2>2 DEF SplitOf
<1>2. CASE n > 0 /\ (n < Dust * 2 \/ k <= 1)
    <2>1. s = <<n>>
        BY <1>2 DEF generateSplitsForShard
    <2>2. SumFunction(s) = n
        BY <2>1, ShortSums
    <2>3. s \in Seq(Nat) /\ Len(s) = 1
        BY <1>2, <2>1
    <2> QED BY <1>2, <2>2, <2>3 DEF SplitOf
<1>3. CASE n > 0 /\ ~(n < Dust * 2 \/ k <= 1)
    <2>1. PICK d \in Draw(k) : s \in Cuts[d][n]
        BY <1>3 DEF generateSplitsForShard
    <2>2. d \in 0..Depth /\ n \in Dust..(2 * MaxValue)
        BY <1>3 DEF Draw, Depth
    <2>3. CutOf(s, n)
        BY <2>1, <2>2, CutsAreSound
    <2> QED BY <1>3, <2>3 DEF SplitOf, CutOf
<1> QED
    BY <1>1, <1>2, <1>3

-----------------------------------------------------------------------------
(* Gathering.                                                              *)

\* A wallet is a sequence of positive balances.
LEMMA WalletBalances ==
    ASSUME wallet \in Wallets
    PROVE  wallet \in Seq(1..MaxValue) /\ wallet \in Seq(Nat) /\ wallet \in Seq(Int)
<1>1. wallet \in Seq(1..MaxValue)
    BY SelectionAssumption
<1> QED
    BY <1>1, SelectionAssumption

\* When the wallet covers the amount, the primary pool is the shortest prefix
\* that does.
LEMMA PrimaryCovers ==
    ASSUME wallet \in Wallets, amount \in Nat, Total(wallet) >= amount
    PROVE  /\ PrimaryPool \in 0..Len(wallet)
           /\ Total(SubSeq(wallet, 1, PrimaryPool)) >= amount
           /\ \A j \in 0..(PrimaryPool - 1) : Total(SubSeq(wallet, 1, j)) < amount
<1> DEFINE n == Len(wallet)
           Covers(k) == Total(SubSeq(wallet, 1, k)) >= amount
           K == {k \in 0..n : Covers(k)}
<1>1. wallet \in Seq(Int) /\ n \in Nat
    BY WalletBalances
<1>2. SubSeq(wallet, 1, n) = wallet
    BY <1>1
<1>3. n \in K
    <2>1. Total(SubSeq(wallet, 1, n)) = Total(wallet)
        BY <1>2
    <2> QED BY <1>1, <2>1
<1>4. PICK k \in K : \A j \in K : k <= j
    <2> HIDE DEF K
    <2>1. K \subseteq Nat
        BY <1>1 DEF K
    <2> QED BY <1>3, <2>1, LeastNumber
<1>5. ASSUME NEW j \in 0..(k - 1)
      PROVE  Total(SubSeq(wallet, 1, j)) < amount
    <2>1. j \in 0..n /\ j \notin K
        BY <1>1, <1>4
    <2>2. Total(SubSeq(wallet, 1, j)) \in Int
        BY <1>1, <2>1, PartSum DEF Total
    <2> QED BY <2>1, <2>2
<1> QED
    BY <1>4, <1>5 DEF PrimaryPool

\* A longer prefix of the wallet holds no less.
LEMMA LongerPrefix ==
    ASSUME NEW s \in Seq(Nat), NEW j \in 0..Len(s), NEW i \in 0..j
    PROVE  Total(SubSeq(s, 1, i)) <= Total(SubSeq(s, 1, j))
<1> DEFINE Sum(k) == Total(SubSeq(s, 1, k))
           Good == {d \in 0..(j - i) : Sum(i) <= Sum(i + d)}
<1>1. ASSUME NEW k \in 0..Len(s)
      PROVE  Sum(k) \in Nat /\ (k > 0 => Sum(k) = Sum(k - 1) + s[k] /\ s[k] \in Nat)
    <2>1. s \in Seq(Int) /\ 1 \in 1..(Len(s) + 1)
        OBVIOUS
    <2>2. k > 0 => s[k] \in Nat
        OBVIOUS
    <2> QED BY <2>1, <2>2, PartSum DEF Total
<1>2. 0 \in Good
    <2>1. i + 0 = i /\ i \in 0..Len(s)
        OBVIOUS
    <2> HIDE DEF Sum
    <2> QED BY <2>1, <1>1
<1>3. ASSUME NEW d \in 0..((j - i) - 1), d \in Good
      PROVE  d + 1 \in Good
    <2>1. i \in 0..Len(s) /\ i + d \in 0..Len(s) /\ i + (d + 1) \in 0..Len(s)
          /\ (i + (d + 1)) - 1 = i + d /\ i + (d + 1) > 0
        OBVIOUS
    <2> HIDE DEF Sum
    <2>2. Sum(i + (d + 1)) = Sum(i + d) + s[i + (d + 1)] /\ s[i + (d + 1)] \in Nat
        BY <1>1, <2>1
    <2> QED BY <1>1, <1>3, <2>1, <2>2
<1>4. j - i \in Good
    <2> HIDE DEF Good
    <2>1. j - i \in Nat
        OBVIOUS
    <2> QED BY <1>2, <1>3, <2>1, UpTo
<1>5. i + (j - i) = j
    OBVIOUS
<1> QED
    BY <1>4, <1>5

\* calculateCompressionMetrics: its square root, and the ranges it draws from.
LEMMA BaselineExtra ==
    ASSUME NEW n \in Nat
    PROVE  baselineExtra(n) \in 0..n
<1> DEFINE S == {k \in 0..n : n < 4 * (k + 1) * (k + 1)}
<1>1. n \in S
    <2>1. n * n \in Nat /\ 4 * (n + 1) * (n + 1) = 4 * (n * n) + 8 * n + 4
        OBVIOUS
    <2> QED BY <2>1
<1>2. PICK k \in S : \A j \in S : k <= j
    <2>1. S \subseteq Nat
        OBVIOUS
    <2> HIDE DEF S
    <2> QED BY <1>1, <2>1, LeastNumber
<1>3. 4 * k * k <= n
    <2>1. CASE k = 0
        BY <2>1
    <2>2. CASE k # 0
        <3>1. k - 1 \in 0..n /\ k - 1 \notin S
            BY <1>2, <2>2
        <3>2. ~(n < 4 * ((k - 1) + 1) * ((k - 1) + 1))
            BY <3>1
        <3>3. (k - 1) + 1 = k /\ 4 * k * k \in Int
            OBVIOUS
        <3> QED BY <3>2, <3>3
    <2> QED BY <2>1, <2>2
<1>4. k \in 0..n /\ 4 * k * k <= n /\ n < 4 * (k + 1) * (k + 1)
    BY <1>2, <1>3
<1> QED
    BY <1>4 DEF baselineExtra

\* The random targets of the engine are small natural numbers.
LEMMA CompressionRanges ==
    ASSUME NEW n \in Nat
    PROVE  extraShardsToCompress(n) \subseteq Nat /\ changeTargetPoolSize(n) \subseteq 0..6
<1>1. changeTargetPoolSize(n) \subseteq 0..6
    BY DEF changeTargetPoolSize, Draw
<1>2. baselineExtra(n) \in Nat
    BY BaselineExtra
<1>3. extraShardsToCompress(n) \subseteq Nat
    BY <1>2 DEF extraShardsToCompress, Draw
<1> QED
    BY <1>1, <1>3

-----------------------------------------------------------------------------
(***************************************************************************)
(* The invariant.  While the engine allocates, what it still needs and     *)
(* what it has allotted make the amount, and the shards to come can pay    *)
(* the need; afterwards the allotments make the amount, and the outputs    *)
(* decided so far are sound ways to split them.  No allotment exceeds its  *)
(* shard's balance.                                                        *)
(***************************************************************************)
TypeInv ==
    /\ wallet \in Wallets /\ amount \in Amounts
    /\ phase \in {"gather", "allocate", "split", "done", "insufficient"}
    /\ pool \in Seq(1..MaxValue) /\ poolSize \in 0..6 /\ remaining \in Nat
    /\ payment \in Seq(Int) /\ Len(payment) <= Len(pool)
    /\ payments \in Seq(Seq(Nat)) /\ changes \in Seq(Seq(Nat))

StartInv ==
    /\ phase \in {"gather", "insufficient"} => pool = <<>> /\ payment = <<>>
    /\ phase \notin {"split", "done"} => payments = <<>> /\ changes = <<>>

NeedInv ==
    phase = "allocate" =>
        /\ remaining <= Total(SubSeq(pool, Here, Len(pool)))
        /\ Total(payment) + remaining = amount

AllotmentInv ==
    /\ \A i \in DOMAIN payment : payment[i] \in (-MaxValue)..pool[i]
    /\ phase \in {"split", "done"} => Len(payment) = Len(pool) /\ Total(payment) = amount

SplitInv ==
    phase \in {"split", "done"} =>
        /\ Len(payments) <= Len(pool) /\ Len(changes) = Len(payments)
        /\ phase = "done" => Len(payments) = Len(pool)
        /\ \A i \in DOMAIN payments :
              /\ SplitOf(payments[i], payment[i])
              /\ SplitOf(changes[i], pool[i] - payment[i])

(***************************************************************************)
(* With no shard swept in besides the ones the amount needs, the need      *)
(* exceeds what all the shards but the last one hold: the safety valve is  *)
(* then never asked for a negative allotment.  Nor is it when Dust is 0.   *)
(***************************************************************************)
PrimaryOnly == Len(pool) <= PrimaryPool

PrimaryInv ==
    /\ phase = "allocate" /\ PrimaryOnly /\ Here <= Len(pool) =>
           remaining > Total(SubSeq(pool, Here, Len(pool) - 1))
    /\ phase \in {"allocate", "split", "done"} /\ (Dust = 0 \/ PrimaryOnly) =>
           \A i \in DOMAIN payment : payment[i] >= 0

SelectionInv ==
    TypeInv /\ StartInv /\ NeedInv /\ AllotmentInv /\ SplitInv /\ PrimaryInv

\* At the start nothing is selected.
LEMMA InitSelection == Init => SelectionInv
<1> SUFFICES ASSUME Init PROVE SelectionInv
    OBVIOUS
<1>1. TypeInv
    BY DEF Init, TypeInv
<1>2. StartInv /\ NeedInv /\ AllotmentInv /\ SplitInv /\ PrimaryInv
    BY DEF Init, StartInv, NeedInv, AllotmentInv, SplitInv, PrimaryInv
<1> QED
    BY <1>1, <1>2 DEF SelectionInv

\* Giving up changes nothing that the invariant speaks of.
LEMMA InsufficientKeeps ==
    ASSUME SelectionInv, Insufficient
    PROVE  SelectionInv'
<1>1. TypeInv'
    BY DEF SelectionInv, TypeInv, Insufficient
<1>2. StartInv' /\ NeedInv' /\ AllotmentInv' /\ SplitInv' /\ PrimaryInv'
    BY DEF SelectionInv, StartInv, NeedInv, AllotmentInv, SplitInv, PrimaryInv, Insufficient
<1> QED
    BY <1>1, <1>2 DEF SelectionInv

\* Gathering leaves shards that can pay the need.
LEMMA GatherKeeps ==
    ASSUME SelectionInv, Gather
    PROVE  SelectionInv'
<1>1. /\ wallet \in Wallets /\ amount \in Nat /\ Total(wallet) >= amount
      /\ payment = <<>> /\ payments = <<>> /\ changes = <<>>
    BY SelectionAssumption DEF SelectionInv, TypeInv, StartInv, Gather
<1>2. PICK extra \in extraShardsToCompress(Len(wallet)) :
          /\ pool' = SubSeq(wallet, 1, Min({PrimaryPool + extra, Len(wallet)}))
          /\ poolSize' \in changeTargetPoolSize(Len(wallet))
    BY DEF Gather
<1> DEFINE k == Min({PrimaryPool + extra, Len(wallet)})
           s == wallet
<1>3. /\ s \in Seq(1..MaxValue) /\ s \in Seq(Nat) /\ Len(s) \in Nat
    BY <1>1, WalletBalances
<1>4. extra \in Nat /\ poolSize' \in 0..6
    BY <1>2, <1>3, CompressionRanges
<1>5. /\ PrimaryPool \in 0..Len(s)
      /\ Total(SubSeq(s, 1, PrimaryPool)) >= amount
      /\ \A j \in 0..(PrimaryPool - 1) : Total(SubSeq(s, 1, j)) < amount
    BY <1>1, PrimaryCovers
<1>6. k \in PrimaryPool..Len(s)
    <2>1. PrimaryPool + extra \in Int /\ Len(s) \in Int
        BY <1>3, <1>4, <1>5
    <2>2. k = IF PrimaryPool + extra <= Len(s) THEN PrimaryPool + extra ELSE Len(s)
        BY <2>1, OfTwo
    <2> HIDE DEF k
    <2> QED BY <2>2, <1>3, <1>4, <1>5
<1> HIDE DEF k
<1>7. pool' = SubSeq(s, 1, k) /\ pool' \in Seq(1..MaxValue) /\ Len(pool') = k
    <2>1. pool' = SubSeq(s, 1, k)
        BY <1>2 DEF k
    <2>2. k \in 0..Len(s)
        BY <1>5, <1>6
    <2> DEFINE B == 1..MaxValue
    <2>3. s \in Seq(B)
        BY <1>3
    <2> HIDE DEF B
    <2>4. SubSeq(s, 1, k) \in Seq(B) /\ Len(SubSeq(s, 1, k)) = k
        BY <2>2, <2>3
    <2> QED BY <2>1, <2>4 DEF B
<1>8. /\ phase' = "allocate" /\ remaining' = amount
      /\ wallet' = wallet /\ amount' = amount
      /\ payment' = <<>> /\ payments' = <<>> /\ changes' = <<>>
    BY <1>1 DEF Gather
<1>9. TypeInv'
    BY <1>1, <1>4, <1>7, <1>8 DEF SelectionInv, TypeInv
<1>10. StartInv' /\ AllotmentInv' /\ SplitInv'
    BY <1>8 DEF StartInv, AllotmentInv, SplitInv
<1>11. NeedInv'
    <2>1. Total(SubSeq(s, 1, PrimaryPool)) <= Total(SubSeq(s, 1, k))
        BY <1>3, <1>5, <1>6, LongerPrefix
    <2>2. SubSeq(pool', Here', Len(pool')) = SubSeq(s, 1, k)
        <3>1. Here' = 1
            BY <1>8 DEF Here
        <3> QED BY <1>3, <1>5, <1>6, <1>7, <3>1
    <2>3. /\ Total(SubSeq(s, 1, PrimaryPool)) \in Int /\ Total(SubSeq(s, 1, k)) \in Int
        <3>1. s \in Seq(Int) /\ 1 \in 1..(Len(s) + 1) /\ k \in 0..Len(s)
            BY <1>3, <1>5, <1>6
        <3> QED BY <1>5, <3>1, PartSum DEF Total
    <2>4. Total(payment') = 0
        BY <1>8, ShortSums DEF Total
    <2> QED BY <1>1, <1>5, <1>8, <2>1, <2>2, <2>3, <2>4 DEF NeedInv
<1>12. PrimaryInv'
    <2>1. PrimaryPool' = PrimaryPool
        BY <1>8 DEF PrimaryPool, Total
    <2>2. ASSUME PrimaryOnly', Here' <= Len(pool')
          PROVE  remaining' > Total(SubSeq(pool', Here', Len(pool') - 1))
        <3>1. Here' = 1
            BY <1>8 DEF Here
        <3>2. k = PrimaryPool /\ k - 1 \in 0..(PrimaryPool - 1)
            BY <1>5, <1>6, <1>7, <2>1, <2>2, <3>1 DEF PrimaryOnly
        <3>3. SubSeq(pool', 1, k - 1) = SubSeq(s, 1, k - 1)
            BY <1>3, <1>5, <1>6, <1>7, <3>2
        <3>4. Total(SubSeq(s, 1, k - 1)) < amount /\ Total(SubSeq(s, 1, k - 1)) \in Int
            <4>1. s \in Seq(Int) /\ 1 \in 1..(Len(s) + 1) /\ k - 1 \in 0..Len(s)
                BY <1>3, <1>5, <3>2
            <4> QED BY <1>5, <3>2, <4>1, PartSum DEF Total
        <3> QED BY <1>1, <1>7, <1>8, <3>1, <3>3, <3>4
    <2> QED BY <1>8, <2>2 DEF PrimaryInv
<1> QED
    BY <1>9, <1>10, <1>11, <1>12 DEF SelectionInv

\* The shards from the next one on, and the next one itself.
LEMMA NextShard ==
    ASSUME TypeInv, Here <= Len(pool)
    PROVE  /\ Here \in 1..Len(pool) /\ pool[Here] \in 1..MaxValue
           /\ futureCapacity \in Nat
           /\ Total(SubSeq(pool, Here, Len(pool))) = pool[Here] + futureCapacity
           /\ Here < Len(pool) =>
                 /\ Total(SubSeq(pool, Here + 1, Len(pool) - 1)) \in Nat
                 /\ Total(SubSeq(pool, Here, Len(pool) - 1))
                        = pool[Here] + Total(SubSeq(pool, Here + 1, Len(pool) - 1))
<1>1. pool \in Seq(1..MaxValue) /\ Len(payment) \in Nat /\ Len(pool) \in Nat
    BY DEF TypeInv
<1>2. Here \in 1..Len(pool) /\ pool[Here] \in 1..MaxValue
    <2>1. Here \in Int /\ Here >= 1
        BY <1>1 DEF Here
    <2>2. Here \in 1..Len(pool)
        BY <1>1, <2>1
    <2> DEFINE B == 1..MaxValue
    <2>3. pool \in Seq(B)
        BY <1>1
    <2> HIDE DEF B
    <2>4. pool[Here] \in B
        BY <2>2, <2>3
    <2> QED BY <2>2, <2>4 DEF B
<1>3. pool \in Seq(Int) /\ pool \in Seq(Nat)
    BY <1>1, SelectionAssumption
<1>4. /\ Here \in 1..(Len(pool) + 1) /\ Here + 1 \in 1..(Len(pool) + 1)
      /\ Len(pool) \in 0..Len(pool) /\ Len(pool) - 1 \in 0..Len(pool)
    BY <1>1, <1>2
<1>5. /\ futureCapacity \in Nat
      /\ Total(SubSeq(pool, Here, Len(pool))) = pool[Here] + futureCapacity
    <2>1. Here <= Len(pool)
        OBVIOUS
    <2> QED BY <1>3, <1>4, <2>1, PartSum DEF Total, futureCapacity
<1>6. ASSUME Here < Len(pool)
      PROVE  /\ Total(SubSeq(pool, Here + 1, Len(pool) - 1)) \in Nat
             /\ Total(SubSeq(pool, Here, Len(pool) - 1))
                    = pool[Here] + Total(SubSeq(pool, Here + 1, Len(pool) - 1))
    <2>1. Here <= Len(pool) - 1
        BY <1>1, <1>2, <1>6
    <2> QED BY <1>3, <1>4, <2>1, PartSum DEF Total
<1> QED
    BY <1>2, <1>5, <1>6

\* A shard that is not one of the last two gives no more than it holds and than
\* is needed, and no less than what the shards after it cannot give.
LEMMA EarlyContribution ==
    ASSUME TypeInv, NeedInv, AllocateEarly
    PROVE  \E c \in 0..pool[Here] :
              /\ c <= remaining /\ remaining - c <= futureCapacity
              /\ payment' = Append(payment, c) /\ remaining' = remaining - c
<1> DEFINE floor == mathFloorConstraint
           safe == pool[Here] - Dust
           f == futureCapacity
<1>1. /\ pool[Here] \in Nat /\ f \in Nat /\ remaining \in Nat /\ Dust \in Nat
      /\ remaining <= pool[Here] + f
    BY NextShard, SelectionAssumption DEF TypeInv, NeedInv, AllocateEarly
<1>2. floor = IF remaining > f THEN remaining - f ELSE Dust
    BY DEF mathFloorConstraint
<1>3. PICK o \in IF floor > safe THEN {pool[Here]}
                 ELSE {floor + ((safe - floor) * d) \div 100 : d \in Draw(100)} :
          payment' = Append(payment, upToRemaining(o)) /\ remaining' = remaining - upToRemaining(o)
    BY DEF AllocateEarly
<1>4. o \in 0..pool[Here] /\ (remaining > f => o >= remaining - f)
    <2>1. CASE floor > safe
        BY <1>1, <1>3, <2>1
    <2>2. CASE ~(floor > safe)
        <3>1. PICK d \in Draw(100) : o = floor + ((safe - floor) * d) \div 100
            BY <1>3, <2>2
        <3>2. safe - floor \in Nat /\ d \in 0..100 /\ floor \in Nat
            BY <1>1, <1>2, <2>2 DEF Draw
        <3> DEFINE offset == ((safe - floor) * d) \div 100
        <3>3. offset \in 0..(safe - floor)
            BY <3>2, Percentage
        <3>4. o = floor + offset
            BY <3>1
        <3> HIDE DEF offset
        <3> QED BY <1>1, <1>2, <3>2, <3>3, <3>4
    <2> QED BY <2>1, <2>2
<1>5. upToRemaining(o) = IF o <= remaining THEN o ELSE remaining
    <2>1. o \in Int /\ remaining \in Int
        BY <1>1, <1>4
    <2> QED BY <2>1, OfTwo DEF upToRemaining
<1>6. /\ upToRemaining(o) \in 0..pool[Here]
      /\ upToRemaining(o) <= remaining /\ remaining - upToRemaining(o) <= f
    BY <1>1, <1>4, <1>5
<1> QED
    BY <1>3, <1>6

\* An early shard is allotted no more than leaves the rest payable.
LEMMA AllocateEarlyKeeps ==
    ASSUME SelectionInv, AllocateEarly
    PROVE  SelectionInv'
<1>1. TypeInv /\ StartInv /\ NeedInv /\ AllotmentInv /\ SplitInv /\ PrimaryInv
    BY DEF SelectionInv
<1>2. PICK c \in 0..pool[Here] :
          /\ c <= remaining /\ remaining - c <= futureCapacity
          /\ payment' = Append(payment, c) /\ remaining' = remaining - c
    BY <1>1, EarlyContribution
<1>3. /\ phase = "allocate" /\ phase' = "allocate"
      /\ Here <= Len(pool) /\ Here # Len(pool) - 1
      /\ UNCHANGED <<wallet, amount, pool, poolSize, payments, changes>>
    BY DEF AllocateEarly
<1>4. /\ pool \in Seq(1..MaxValue) /\ payment \in Seq(Int) /\ remaining \in Nat
      /\ Here = Len(payment) + 1 /\ amount \in Nat
      /\ Here \in 1..Len(pool) /\ pool[Here] \in 1..MaxValue /\ futureCapacity \in Nat
    BY <1>1, <1>3, NextShard, SelectionAssumption DEF TypeInv, Here
<1>5. /\ payment' \in Seq(Int) /\ Len(payment') = Here /\ Here' = Here + 1
      /\ payment'[Here] = c /\ \A i \in DOMAIN payment : payment'[i] = payment[i]
      /\ DOMAIN payment' = 1..Here /\ DOMAIN payment = 1..(Here - 1)
    BY <1>2, <1>4 DEF Here
<1>6. TypeInv'
    BY <1>1, <1>2, <1>3, <1>4, <1>5 DEF TypeInv
<1>7. StartInv' /\ SplitInv'
    BY <1>1, <1>3 DEF StartInv, SplitInv
<1>8. NeedInv'
    <2>1. Total(payment') = Total(payment) + c /\ Total(payment) \in Int
        BY <1>2, <1>4, SequenceSum DEF Total
    <2>2. Total(SubSeq(pool', Here', Len(pool'))) = futureCapacity
        BY <1>3, <1>5 DEF futureCapacity
    <2> QED BY <1>1, <1>2, <1>3, <1>4, <2>1, <2>2 DEF NeedInv
<1>9. AllotmentInv'
    <2>1. ASSUME NEW i \in 1..Here
          PROVE  payment'[i] \in (-MaxValue)..pool[i]
        <3>1. CASE i = Here
            BY <1>2, <1>4, <1>5, <3>1, SelectionAssumption
        <3>2. CASE i # Here
            <4>1. i \in DOMAIN payment
                BY <1>4, <1>5, <3>2
            <4> QED BY <1>1, <1>5, <4>1 DEF AllotmentInv
        <3> QED BY <3>1, <3>2
    <2> QED BY <1>3, <1>5, <2>1 DEF AllotmentInv
<1>10. PrimaryInv'
    <2>1. PrimaryPool' = PrimaryPool /\ (PrimaryOnly' => PrimaryOnly)
        BY <1>3 DEF PrimaryPool, PrimaryOnly, Total
    <2>2. ASSUME PrimaryOnly', Here' <= Len(pool')
          PROVE  remaining' > Total(SubSeq(pool', Here', Len(pool') - 1))
        <3>1. Here < Len(pool)
            BY <1>3, <1>4, <1>5, <2>2
        <3> DEFINE T == Total(SubSeq(pool, Here + 1, Len(pool) - 1))
        <3>2. /\ Total(SubSeq(pool, Here, Len(pool) - 1)) = pool[Here] + T /\ T \in Nat
            BY <1>1, <1>3, <3>1, NextShard
        <3>3. remaining > pool[Here] + T
            BY <1>1, <1>3, <2>1, <2>2, <3>2 DEF PrimaryInv
        <3>4. Total(SubSeq(pool', Here', Len(pool') - 1)) = T
            BY <1>3, <1>5
        <3> HIDE DEF T
        <3> QED BY <1>2, <1>4, <3>2, <3>3, <3>4
    <2>3. ASSUME Dust = 0 \/ PrimaryOnly', NEW i \in 1..Here
          PROVE  payment'[i] >= 0
        <3>1. CASE i = Here
            BY <1>2, <1>5, <3>1
        <3>2. CASE i # Here
            <4>1. i \in DOMAIN payment
                BY <1>4, <1>5, <3>2
            <4> QED BY <1>1, <1>3, <1>5, <2>1, <2>3, <4>1 DEF PrimaryInv
        <3> QED BY <3>1, <3>2
    <2> QED BY <1>3, <1>5, <2>2, <2>3 DEF PrimaryInv
<1> QED
    BY <1>6, <1>7, <1>8, <1>9, <1>10 DEF SelectionInv

\* The last two shards give all that is needed, neither more than it holds.  An
\* allotment can be negative only when dust is kept and the first of the two
\* could have given everything.
LEMMA LastTwoContributions ==
    ASSUME TypeInv, NeedInv, AllocateLastTwo
    PROVE  \E c \in (-MaxValue)..pool[Here] :
              /\ remaining - c \in (-MaxValue)..pool[Here + 1]
              /\ Dust = 0 \/ remaining > pool[Here] => c >= 0 /\ remaining - c >= 0
              /\ payment' = payment \o <<c, remaining - c>>
<1> DEFINE b == pool[Here]
           n == pool[Here + 1]
<1>1. /\ b \in 1..MaxValue /\ n \in 1..MaxValue /\ remaining \in Nat
      /\ remaining <= b + n /\ Dust \in Nat /\ MaxValue \in Nat
    <2>1. phase = "allocate" /\ Here = Len(pool) - 1 /\ Len(pool) \in Nat /\ Here \in Int
        BY DEF AllocateLastTwo, TypeInv, Here
    <2>2. Here <= Len(pool) /\ Here + 1 = Len(pool)
        BY <2>1
    <2>3. Here \in 1..Len(pool) /\ b \in 1..MaxValue
        BY <2>2, NextShard
    <2> DEFINE B == 1..MaxValue
    <2>4. pool \in Seq(B) /\ Here + 1 \in 1..Len(pool)
        BY <2>1, <2>2, <2>3 DEF TypeInv
    <2> HIDE DEF B
    <2>5. n \in B
        BY <2>4
    <2> QED BY <2>3, <2>5, SelectionAssumption DEF AllocateLastTwo, TypeInv, B
<1>2. PICK d \in Draw(40) :
          payment' = payment \o <<SafetyValve((remaining * (d + 30)) \div 100, b, n),
                         remaining - SafetyValve((remaining * (d + 30)) \div 100, b, n)>>
    BY DEF AllocateLastTwo
<1> DEFINE a == (remaining * (d + 30)) \div 100
           c == SafetyValve(a, b, n)
<1>3. a \in 0..remaining
    <2>1. d + 30 \in 0..100
        BY DEF Draw
    <2> QED BY <1>1, <2>1, Percentage
<1>4. payment' = payment \o <<c, remaining - c>>
    BY <1>2
<1> HIDE DEF a, b, n
<1>5. /\ c \in (-MaxValue)..b /\ remaining - c \in (-MaxValue)..n
      /\ Dust = 0 \/ remaining > b => c >= 0 /\ remaining - c >= 0
    BY <1>1, <1>3 DEF SafetyValve
<1> HIDE DEF c
<1> QED
    BY <1>4, <1>5 DEF b, n

\* The last two shards take what is left, with the safety valve.
LEMMA AllocateLastTwoKeeps ==
    ASSUME SelectionInv, AllocateLastTwo
    PROVE  SelectionInv'
<1>1. TypeInv /\ StartInv /\ NeedInv /\ AllotmentInv /\ SplitInv /\ PrimaryInv
    BY DEF SelectionInv
<1>2. PICK c \in (-MaxValue)..pool[Here] :
          /\ remaining - c \in (-MaxValue)..pool[Here + 1]
          /\ Dust = 0 \/ remaining > pool[Here] => c >= 0 /\ remaining - c >= 0
          /\ payment' = payment \o <<c, remaining - c>>
    BY <1>1, LastTwoContributions
<1>3. /\ phase = "allocate" /\ phase' = "allocate" /\ remaining' = 0
      /\ Here = Len(pool) - 1
      /\ UNCHANGED <<wallet, amount, pool, poolSize, payments, changes>>
    BY DEF AllocateLastTwo
<1>4. /\ pool \in Seq(1..MaxValue) /\ payment \in Seq(Int) /\ remaining \in Nat
      /\ Here = Len(payment) + 1 /\ Here \in Nat /\ amount \in Nat
      /\ Len(pool) = Here + 1 /\ c \in Int /\ remaining - c \in Int
    <2>1. MaxValue \in Nat
        BY SelectionAssumption
    <2>2. pool \in Seq(1..MaxValue) /\ payment \in Seq(Int) /\ remaining \in Nat /\ amount \in Nat
        BY <1>1, SelectionAssumption DEF TypeInv
    <2>3. Here = Len(payment) + 1
        BY DEF Here
    <2>4. c \in Int /\ remaining - c \in Int
        BY <2>2
    <2>5. Here \in Nat /\ Len(pool) = Here + 1
        BY <1>3, <2>2, <2>3
    <2> QED BY <2>2, <2>3, <2>4, <2>5
<1>5. /\ payment' \in Seq(Int) /\ Len(payment') = Here + 1 /\ Here' = Len(pool) + 1
      /\ payment'[Here] = c /\ payment'[Here + 1] = remaining - c
      /\ \A i \in DOMAIN payment : payment'[i] = payment[i]
      /\ DOMAIN payment' = 1..(Here + 1) /\ DOMAIN payment = 1..(Here - 1)
    <2> DEFINE r == remaining - c
    <2>1. r \in Int /\ payment' = payment \o <<c, r>>
        BY <1>2, <1>4
    <2> HIDE DEF r
    <2>2. /\ payment' \in Seq(Int) /\ Len(payment') = Here + 1
          /\ payment'[Here] = c /\ payment'[Here + 1] = r
          /\ \A i \in DOMAIN payment : payment'[i] = payment[i]
          /\ DOMAIN payment' = 1..(Here + 1) /\ DOMAIN payment = 1..(Here - 1)
        BY <1>4, <2>1
    <2>3. Here' = Len(pool) + 1
        <3>1. Here' = Len(payment') + 1
            BY DEF Here
        <3> QED BY <1>4, <2>2, <3>1
    <2> QED BY <2>2, <2>3 DEF r
<1>6. TypeInv'
    BY <1>1, <1>3, <1>4, <1>5 DEF TypeInv
<1>7. StartInv' /\ SplitInv'
    BY <1>1, <1>3 DEF StartInv, SplitInv
<1>8. NeedInv'
    <2>1. Total(payment') = Total(payment) + remaining /\ Total(payment) \in Int
        <3> DEFINE q == Append(payment, c)
                   r == remaining - c
        <3>1. payment' = Append(q, r) /\ q \in Seq(Int) /\ r \in Int
            BY <1>2, <1>4
        <3>2. SumFunction(q) = SumFunction(payment) + c /\ SumFunction(payment) \in Int
            BY <1>4, SequenceSum
        <3> HIDE DEF q, r
        <3>3. SumFunction(Append(q, r)) = SumFunction(q) + r
            BY <3>1, SequenceSum
        <3>4. SumFunction(payment') = SumFunction(q) + r
            BY <3>1, <3>3
        <3> QED BY <1>4, <3>2, <3>4 DEF Total, r
    <2>2. Total(SubSeq(pool', Here', Len(pool'))) = 0
        <3>1. pool \in Seq(Int)
            BY <1>4, SelectionAssumption
        <3>2. Len(pool) + 1 \in 1..(Len(pool) + 1) /\ Len(pool) \in 0..Len(pool)
              /\ Len(pool) + 1 > Len(pool)
            BY <1>4
        <3>3. Total(SubSeq(pool, Len(pool) + 1, Len(pool))) = 0
            BY <3>1, <3>2, PartSum DEF Total
        <3> QED BY <1>3, <1>5, <3>3
    <2> QED BY <1>1, <1>3, <1>4, <2>1, <2>2 DEF NeedInv
<1>9. ASSUME NEW i \in DOMAIN payment'
      PROVE  i \in DOMAIN payment \/ i = Here \/ i = Here + 1
    BY <1>4, <1>5, <1>9
<1>10. AllotmentInv'
    <2>1. ASSUME NEW i \in DOMAIN payment'
          PROVE  payment'[i] \in (-MaxValue)..pool[i]
        <3>1. CASE i \in DOMAIN payment
            BY <1>1, <1>5, <3>1 DEF AllotmentInv
        <3>2. CASE i = Here \/ i = Here + 1
            BY <1>2, <1>5, <3>2
        <3> QED BY <1>9, <3>1, <3>2
    <2> QED BY <1>3, <2>1 DEF AllotmentInv
<1>11. PrimaryInv'
    <2>1. PrimaryPool' = PrimaryPool /\ (PrimaryOnly' => PrimaryOnly)
        BY <1>3 DEF PrimaryPool, PrimaryOnly, Total
    <2>2. ASSUME PrimaryOnly
          PROVE  remaining > pool[Here]
        <3>1. Here < Len(pool) /\ Here <= Len(pool) /\ Len(pool) - 1 = Here
            BY <1>3, <1>4
        <3>2. /\ Total(SubSeq(pool, Here, Len(pool) - 1))
                    = pool[Here] + Total(SubSeq(pool, Here + 1, Len(pool) - 1))
              /\ Total(SubSeq(pool, Here + 1, Len(pool) - 1)) \in Nat
              /\ pool[Here] \in 1..MaxValue
            BY <1>1, <3>1, NextShard
        <3>3. remaining > Total(SubSeq(pool, Here, Len(pool) - 1))
            BY <1>1, <1>3, <2>2, <3>1 DEF PrimaryInv
        <3> QED BY <1>4, <3>2, <3>3
    <2>3. ASSUME Dust = 0 \/ PrimaryOnly', NEW i \in DOMAIN payment'
          PROVE  payment'[i] >= 0
        <3>1. CASE i \in DOMAIN payment
            BY <1>1, <1>3, <1>5, <2>1, <2>3, <3>1 DEF PrimaryInv
        <3>2. CASE i = Here \/ i = Here + 1
            BY <1>2, <1>5, <2>1, <2>2, <2>3, <3>2
        <3> QED BY <1>9, <3>1, <3>2
    <2>4. ~(Here' <= Len(pool'))
        BY <1>3, <1>4, <1>5
    <2> QED BY <1>3, <2>3, <2>4 DEF PrimaryInv
<1> QED
    BY <1>6, <1>7, <1>8, <1>10, <1>11 DEF SelectionInv

\* When the need is met, the splitting begins.
LEMMA AllocationEndsKeeps ==
    ASSUME SelectionInv, AllocationEnds
    PROVE  SelectionInv'
<1>1. TypeInv /\ StartInv /\ NeedInv /\ AllotmentInv /\ SplitInv /\ PrimaryInv
    BY DEF SelectionInv
<1>2. /\ phase = "allocate" /\ phase' = "split" /\ Here > Len(pool)
      /\ UNCHANGED <<wallet, amount, pool, poolSize, remaining, payment, payments, changes>>
    BY DEF AllocationEnds
<1>3. TypeInv'
    BY <1>1, <1>2 DEF TypeInv
<1>4. StartInv' /\ NeedInv' /\ SplitInv'
    BY <1>1, <1>2 DEF StartInv, NeedInv, SplitInv, TypeInv
<1>5. AllotmentInv'
    <2>1. pool \in Seq(Int) /\ payment \in Seq(Int) /\ remaining \in Nat /\ Len(payment) <= Len(pool)
        BY <1>1, SelectionAssumption DEF TypeInv
    <2>2. Len(payment) = Len(pool) /\ Here = Len(pool) + 1
        BY <1>2, <2>1 DEF Here
    <2>3. Len(pool) + 1 \in 1..(Len(pool) + 1) /\ Len(pool) \in 0..Len(pool)
          /\ Len(pool) + 1 > Len(pool)
        BY <2>1
    <2>4. Total(SubSeq(pool, Here, Len(pool))) = 0
        BY <2>1, <2>2, <2>3, PartSum DEF Total
    <2>5. Total(payment) \in Int
        BY <2>1, SequenceSum DEF Total
    <2>6. Total(payment) = amount
        BY <1>1, <1>2, <2>1, <2>4, <2>5 DEF NeedInv
    <2> QED BY <1>1, <1>2, <2>2, <2>6 DEF AllotmentInv
<1>6. PrimaryInv'
    <2>1. PrimaryPool' = PrimaryPool /\ (PrimaryOnly' => PrimaryOnly)
        BY <1>2 DEF PrimaryPool, PrimaryOnly, Total
    <2> QED BY <1>1, <1>2, <2>1 DEF PrimaryInv
<1> QED
    BY <1>3, <1>4, <1>5, <1>6 DEF SelectionInv

\* A shard is split into sound outputs.
LEMMA SplitKeeps ==
    ASSUME SelectionInv, Split
    PROVE  SelectionInv'
<1>1. TypeInv /\ StartInv /\ NeedInv /\ AllotmentInv /\ SplitInv /\ PrimaryInv
    BY DEF SelectionInv
<1> DEFINE i == Len(payments) + 1
<1>2. /\ phase = "split" /\ phase' = "split" /\ Len(payments) < Len(pool)
      /\ UNCHANGED <<wallet, amount, pool, poolSize, remaining, payment>>
    BY DEF Split
<1>3. PICK s \in generateSplitsForShard(payment[i], MaxSplitsPerSide) :
          payments' = Append(payments, s)
    BY DEF Split
<1>4. PICK t \in generateSplitsForShard(pool[i] - payment[i], poolSize) :
          changes' = Append(changes, t)
    BY DEF Split
<1>5. /\ payments \in Seq(Seq(Nat)) /\ changes \in Seq(Seq(Nat)) /\ payment \in Seq(Int)
      /\ Len(changes) = Len(payments) /\ i \in 1..Len(pool) /\ Len(pool) = Len(payment)
      /\ i \in DOMAIN payment /\ DOMAIN payments = 1..(i - 1)
    BY <1>1, <1>2 DEF TypeInv, SplitInv, AllotmentInv
<1>6. /\ payment[i] \in Int /\ pool[i] \in 1..MaxValue
      /\ payment[i] <= 2 * MaxValue /\ pool[i] - payment[i] <= 2 * MaxValue
      /\ pool[i] - payment[i] \in Int
    <2>1. payment[i] \in (-MaxValue)..pool[i] /\ MaxValue \in Nat
        BY <1>1, <1>5, SelectionAssumption DEF AllotmentInv
    <2> DEFINE B == 1..MaxValue
    <2>2. pool \in Seq(B)
        BY <1>1 DEF TypeInv
    <2> HIDE DEF B, i
    <2>3. pool[i] \in B
        BY <1>5, <2>2
    <2> QED BY <2>1, <2>3 DEF B
<1>7. SplitOf(s, payment[i]) /\ SplitOf(t, pool[i] - payment[i])
    <2>1. MaxSplitsPerSide \in 0..Depth /\ poolSize \in 0..Depth
        BY <1>1, SelectionAssumption DEF Depth, TypeInv
    <2> QED BY <1>3, <1>4, <1>6, <2>1, SplitsAreSound
<1> HIDE DEF i
<1>8. /\ payments' \in Seq(Seq(Nat)) /\ changes' \in Seq(Seq(Nat))
      /\ Len(payments') = i /\ Len(changes') = i /\ DOMAIN payments' = 1..i
      /\ payments'[i] = s /\ changes'[i] = t
      /\ \A j \in 1..(i - 1) : payments'[j] = payments[j] /\ changes'[j] = changes[j]
    <2>1. s \in Seq(Nat) /\ t \in Seq(Nat)
        BY <1>7 DEF SplitOf
    <2> DEFINE B == Seq(Nat)
    <2>2. s \in B /\ t \in B /\ payments \in Seq(B) /\ changes \in Seq(B)
        BY <1>5, <2>1
    <2>3. Len(payments) = i - 1 /\ Len(changes) = i - 1 /\ i \in Nat
        BY <1>5 DEF i
    <2> HIDE DEF B
    <2> QED BY <1>3, <1>4, <1>5, <2>2, <2>3 DEF B
<1>9. TypeInv'
    BY <1>1, <1>2, <1>8 DEF TypeInv
<1>10. StartInv' /\ NeedInv' /\ AllotmentInv'
    BY <1>1, <1>2 DEF StartInv, NeedInv, AllotmentInv
<1>11. SplitInv'
    <2>1. ASSUME NEW j \in 1..i
          PROVE  SplitOf(payments'[j], payment[j]) /\ SplitOf(changes'[j], pool[j] - payment[j])
        <3>1. CASE j = i
            BY <1>7, <1>8, <3>1
        <3>2. CASE j # i
            <4>1. j \in 1..(i - 1)
                BY <1>5, <3>2
            <4> QED BY <1>1, <1>2, <1>5, <1>8, <4>1 DEF SplitInv
        <3> QED BY <3>1, <3>2
    <2> QED BY <1>2, <1>5, <1>8, <2>1 DEF SplitInv
<1>12. PrimaryInv'
    <2>1. PrimaryPool' = PrimaryPool /\ (PrimaryOnly' => PrimaryOnly)
        BY <1>2 DEF PrimaryPool, PrimaryOnly, Total
    <2> QED BY <1>1, <1>2, <2>1 DEF PrimaryInv
<1> QED
    BY <1>9, <1>10, <1>11, <1>12 DEF SelectionInv

\* When all shards are split, the engine is done.
LEMMA SplitEndsKeeps ==
    ASSUME SelectionInv, SplitEnds
    PROVE  SelectionInv'
<1>1. TypeInv /\ StartInv /\ NeedInv /\ AllotmentInv /\ SplitInv /\ PrimaryInv
    BY DEF SelectionInv
<1>2. /\ phase = "split" /\ phase' = "done" /\ Len(payments) = Len(pool)
      /\ UNCHANGED <<wallet, amount, pool, poolSize, remaining, payment, payments, changes>>
    BY DEF SplitEnds
<1>3. TypeInv' /\ StartInv' /\ NeedInv' /\ AllotmentInv' /\ SplitInv'
    BY <1>1, <1>2 DEF TypeInv, StartInv, NeedInv, AllotmentInv, SplitInv
<1>4. PrimaryInv'
    <2>1. PrimaryPool' = PrimaryPool /\ (PrimaryOnly' => PrimaryOnly)
        BY <1>2 DEF PrimaryPool, PrimaryOnly, Total
    <2> QED BY <1>1, <1>2, <2>1 DEF PrimaryInv
<1> QED
    BY <1>3, <1>4 DEF SelectionInv

\* So does a step that changes nothing.
LEMMA StutterKeeps ==
    ASSUME SelectionInv, UNCHANGED vars
    PROVE  SelectionInv'
<1>1. PrimaryPool' = PrimaryPool
    BY DEF vars, PrimaryPool, Total
<1> QED
    BY <1>1 DEF vars, SelectionInv, TypeInv, StartInv, NeedInv, AllotmentInv, SplitInv,
                PrimaryInv, PrimaryOnly, Here, Total

\* Every step of the engine keeps all of this.
THEOREM SelectionInvariant == Spec => []SelectionInv
<1>1. SelectionInv /\ [Next]_vars => SelectionInv'
    BY InsufficientKeeps, GatherKeeps, AllocateEarlyKeeps, AllocateLastTwoKeeps,
       AllocationEndsKeeps, SplitKeeps, SplitEndsKeeps, StutterKeeps DEF Next
<1> QED
    BY <1>1, InitSelection, PTL DEF Spec

-----------------------------------------------------------------------------
(* What the engine promises.                                               *)

\* The shards still to come can always pay what is still needed: for every
\* wallet, amount and dust threshold the allocation loop runs to its end and
\* none of its throws is reached (coinSelection.ts:254-257).
THEOREM CapacityAlwaysSuffices == Spec => []CapacitySuffices
<1>1. SelectionInv => CapacitySuffices
    BY DEF SelectionInv, NeedInv, CapacitySuffices
<1> QED
    BY <1>1, SelectionInvariant, PTL

\* generateSplitsForShard never makes dust out of more than dust, also when the
\* safety valve has gone wrong before it.
THEOREM NoOutputIsDust == Spec => []NoDustOutputs
<1>1. SelectionInv => NoDustOutputs
    BY DEF SelectionInv, SplitInv, SplitOf, NoDustOutputs
<1> QED
    BY <1>1, SelectionInvariant, PTL

\* Unless shards beyond the needed ones are swept in with dust to keep, the
\* outputs of the done engine pay the amount and split every balance.
LEMMA SoundSelection ==
    ASSUME SelectionInv, phase = "done", Dust = 0 \/ PrimaryOnly
    PROVE  PaysExactly /\ BalancesAddUp
<1>1. /\ payment \in Seq(Int) /\ pool \in Seq(1..MaxValue) /\ payments \in Seq(Seq(Nat))
      /\ Len(payment) = Len(pool) /\ Len(payments) = Len(pool) /\ Total(payment) = amount
    BY DEF SelectionInv, TypeInv, AllotmentInv, SplitInv
<1>2. ASSUME NEW i \in 1..Len(pool)
      PROVE  /\ payment[i] \in 0..pool[i] /\ pool[i] \in Int
             /\ Total(payments[i]) = payment[i]
             /\ Total(changes[i]) = pool[i] - payment[i]
    <2>1. i \in DOMAIN payment /\ i \in DOMAIN payments /\ payment[i] \in Int
        BY <1>1
    <2>2. payment[i] >= 0 /\ payment[i] \in (-MaxValue)..pool[i]
        BY <2>1 DEF SelectionInv, PrimaryInv, AllotmentInv
    <2>3. pool[i] \in Int
        <3> DEFINE B == 1..MaxValue
        <3>1. pool \in Seq(B)
            BY <1>1
        <3> HIDE DEF B
        <3>2. pool[i] \in B
            BY <3>1
        <3> QED BY <3>2 DEF B
    <2>4. payment[i] \in 0..pool[i]
        BY <2>1, <2>2, <2>3
    <2>5. SplitOf(payments[i], payment[i]) /\ SplitOf(changes[i], pool[i] - payment[i])
        BY <2>1 DEF SelectionInv, SplitInv
    <2> QED BY <2>3, <2>4, <2>5 DEF SplitOf, Total
<1>3. PaysExactly
    <2>1. DOMAIN payments = 1..Len(pool) /\ DOMAIN payment = 1..Len(pool)
        BY <1>1
    <2>2. payment = [i \in DOMAIN payment |-> payment[i]]
        BY <1>1
    <2>3. [i \in DOMAIN payments |-> Total(payments[i])] = payment
        BY <1>2, <2>1, <2>2
    <2> QED BY <1>1, <2>3 DEF PaysExactly
<1>4. BalancesAddUp
    <2>1. DOMAIN pool = 1..Len(pool)
        BY <1>1
    <2> QED BY <1>2, <2>1 DEF BalancesAddUp
<1> QED
    BY <1>3, <1>4

\* Whatever the size of the wallet: without extra shards, or without dust, the
\* recipient gets what was asked for and no balance is over- or underspent.
THEOREM PrimaryPoolPaysExactly ==
    Spec => [](Dust = 0 \/ PrimaryOnly => PaysExactly /\ BalancesAddUp)
<1>1. SelectionInv => (Dust = 0 \/ PrimaryOnly => PaysExactly /\ BalancesAddUp)
    BY SoundSelection DEF PaysExactly, BalancesAddUp
<1> QED
    BY <1>1, SelectionInvariant, PTL

\* A wallet of up to three shards sweeps in none.
SmallInv ==
    phase \in {"allocate", "split", "done"} /\ Len(wallet) <= 3 => PrimaryOnly

\* With three shards or fewer no extra shard is swept in.
LEMMA SmallWalletsArePrimary == Spec => []SmallInv
<1>1. Init => SmallInv
    BY DEF Init, SmallInv
<1>2. ASSUME SelectionInv, SmallInv, [Next]_vars
      PROVE  SmallInv'
    <2>1. CASE Gather
        <3>1. /\ wallet \in Wallets /\ amount \in Nat /\ Total(wallet) >= amount
              /\ wallet' = wallet /\ amount' = amount
            BY <2>1, <1>2, SelectionAssumption DEF SelectionInv, TypeInv, Gather
        <3>2. wallet \in Seq(Nat) /\ Len(wallet) \in Nat /\ PrimaryPool \in 0..Len(wallet)
            BY <3>1, WalletBalances, PrimaryCovers
        <3>3. PrimaryPool' = PrimaryPool
            BY <3>1 DEF PrimaryPool, Total
        <3>4. ASSUME Len(wallet) <= 3
              PROVE  Len(pool') = PrimaryPool
            <4>1. extraShardsToCompress(Len(wallet)) = {0}
                BY <3>4 DEF extraShardsToCompress
            <4>2. pool' = SubSeq(wallet, 1, Min({PrimaryPool + 0, Len(wallet)}))
                BY <2>1, <4>1 DEF Gather
            <4>3. Min({PrimaryPool + 0, Len(wallet)}) = PrimaryPool
                <5>1. PrimaryPool \in Int /\ Len(wallet) \in Int /\ PrimaryPool + 0 = PrimaryPool
                      /\ PrimaryPool <= Len(wallet)
                    BY <3>2
                <5>2. Min({PrimaryPool, Len(wallet)}) = PrimaryPool
                    BY <5>1, OfTwo
                <5> QED BY <5>1, <5>2
            <4>4. pool' = SubSeq(wallet, 1, PrimaryPool)
                BY <4>2, <4>3
            <4> QED BY <3>2, <4>4
        <3> QED BY <3>1, <3>2, <3>3, <3>4 DEF SmallInv, PrimaryOnly
    <2>2. CASE ~Gather
        <3>1. /\ wallet' = wallet /\ amount' = amount /\ pool' = pool
              /\ phase' \in {"allocate", "split", "done"}
                    => phase \in {"allocate", "split", "done"}
            BY <1>2, <2>2 DEF Next, Insufficient, AllocateEarly, AllocateLastTwo,
                              AllocationEnds, Split, SplitEnds, vars
        <3>2. PrimaryPool' = PrimaryPool
            BY <3>1 DEF PrimaryPool, Total
        <3> QED BY <1>2, <3>1, <3>2 DEF SmallInv, PrimaryOnly
    <2> QED BY <2>1, <2>2
<1> QED
    BY <1>1, <1>2, SelectionInvariant, PTL DEF Spec

\* So in a wallet of up to three shards, and in every wallet when Dust is 0, the
\* recipient gets exactly the requested amount, and each shard's outputs add up
\* to its balance (coinSelection.test.ts:68).  Without the hypothesis both
\* fail: the safety valve pays a whole last shard for less than it holds.
LEMMA SmallSelections ==
    ASSUME Dust = 0 \/ \A w \in Wallets : Len(w) <= 3
    PROVE  Spec => [](PaysExactly /\ BalancesAddUp)
<1>1. SelectionInv /\ SmallInv => PaysExactly /\ BalancesAddUp
    <2> SUFFICES ASSUME SelectionInv, SmallInv, phase = "done"
                 PROVE  PaysExactly /\ BalancesAddUp
        BY DEF PaysExactly, BalancesAddUp
    <2>1. Dust = 0 \/ PrimaryOnly
        BY DEF SelectionInv, TypeInv, SmallInv
    <2> QED BY <2>1, SoundSelection
<1> QED
    BY <1>1, SelectionInvariant, SmallWalletsArePrimary, PTL

\* The recipient gets exactly the requested amount, whatever is drawn, from a
\* wallet of up to three shards or with no dust to keep (see SmallSelections).
THEOREM SmallWalletsPayExactly ==
    ASSUME Dust = 0 \/ \A w \in Wallets : Len(w) <= 3
    PROVE  Spec => []PaysExactly
BY SmallSelections, PTL

\* Under the same hypothesis payment and change of each shard add up to its
\* balance, as coinSelection.test.ts:68 expects.
THEOREM SmallWalletsAddUp ==
    ASSUME Dust = 0 \/ \A w \in Wallets : Len(w) <= 3
    PROVE  Spec => []BalancesAddUp
BY SmallSelections, PTL

\* Every variable keeps its type.
THEOREM SelectionTypes == Spec => []TypeOK
<1>1. SelectionInv => TypeOK
    <2> SUFFICES ASSUME TypeInv PROVE TypeOK
        BY DEF SelectionInv
    <2>1. pool \in Seq(Nat)
        BY SelectionAssumption DEF TypeInv
    <2> QED BY <2>1 DEF TypeInv, TypeOK
<1> QED
    BY <1>1, SelectionInvariant, PTL
=============================================================================
