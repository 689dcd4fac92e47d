---------------------------- MODULE FoldTheorems ----------------------------
(***************************************************************************)
(* Induction over finite sets and numbers, and what it proves of sums and  *)
(* of sequences put together.                                              *)
(*                                                                         *)
(* The induction principles are stated with a set of good subsets, or of   *)
(* good numbers, in place of a predicate.  A sum is SumFunctionOnSet of    *)
(* module Functions: it adds the values in an order of its own choice, and *)
(* the first facts are that its recursive definition makes sense and that  *)
(* the order is irrelevant.                                                *)
(***************************************************************************)
EXTENDS Integers, SequencesExt, FiniteSetTheorems, TLAPS

\* Among some subsets of a finite set there is a smallest one.
LEMMA SmallestSubset ==
    ASSUME NEW S, IsFiniteSet(S), NEW Bad, Bad \subseteq SUBSET S, Bad # {}
    PROVE  \E T \in Bad : \A U \in SUBSET T : U \in Bad => U = T
<1>1. SUBSET S = FiniteSubsetsOf(S)
    BY FS_FiniteSubsetsOfFinite
<1>2. IsWellFoundedOn(StrictSubsetOrdering(S), SUBSET S)
    BY <1>1, FS_StrictSubsetOrderingWellFounded
<1>3. PICK T \in Bad : \A U \in Bad : <<U, T>> \notin StrictSubsetOrdering(S)
    BY <1>2, WFMin
<1> QED
    BY <1>3 DEF StrictSubsetOrdering

\* A finite set is good when the empty set is and adding an element keeps a
\* subset good.
LEMMA SetInduction ==
    ASSUME NEW S, IsFiniteSet(S), NEW Good, {} \in Good,
           \A T \in SUBSET S : \A x \in S : T \in Good /\ x \notin T => T \cup {x} \in Good
    PROVE  S \in Good
<1> DEFINE Bad == {T \in SUBSET S : T \notin Good}
<1> SUFFICES ASSUME S \notin Good PROVE FALSE
    OBVIOUS
<1>1. PICK T \in Bad : \A U \in SUBSET T : U \in Bad => U = T
    <2>1. Bad \subseteq SUBSET S /\ Bad # {}
        OBVIOUS
    <2> HIDE DEF Bad
    <2> QED BY <2>1, SmallestSubset
<1>2. PICK x \in T : TRUE
    OBVIOUS
<1>3. T \ {x} \notin Bad
    BY <1>1, <1>2
<1>4. T = (T \ {x}) \cup {x}
    OBVIOUS
<1> QED
    BY <1>3, <1>4

\* The same with every strict subset of a set at hand.
LEMMA StrongSetInduction ==
    ASSUME NEW S, IsFiniteSet(S), NEW Good,
           \A T \in SUBSET S : (\A U \in SUBSET T : U # T => U \in Good) => T \in Good
    PROVE  S \in Good
<1> DEFINE Bad == {T \in SUBSET S : T \notin Good}
<1> SUFFICES ASSUME S \notin Good PROVE FALSE
    OBVIOUS
<1>1. PICK T \in Bad : \A U \in SUBSET T : U \in Bad => U = T
    <2>1. Bad \subseteq SUBSET S /\ Bad # {}
        OBVIOUS
    <2> HIDE DEF Bad
    <2> QED BY <2>1, SmallestSubset
<1> QED
    BY <1>1

\* And over the natural numbers up to a bound.
LEMMA UpTo ==
    ASSUME NEW n \in Nat, NEW Good, 0 \in Good,
           \A i \in 0..(n - 1) : i \in Good => i + 1 \in Good
    PROVE  n \in Good
<1> DEFINE Bad == {i \in 0..n : i \notin Good}
           Less == OpToRel(<, Nat)
<1> SUFFICES ASSUME n \notin Good PROVE FALSE
    OBVIOUS
<1>1. Bad \subseteq Nat /\ Bad # {}
    OBVIOUS
<1>2. IsWellFoundedOn(Less, Nat)
    BY NatLessThanWellFounded
<1>3. Less = {p \in Nat \X Nat : p[1] < p[2]}
    BY DEF OpToRel
<1>4. PICK i \in Bad : \A j \in Bad : <<j, i>> \notin Less
    <2> HIDE DEF Bad, Less
    <2> QED BY <1>1, <1>2, WFMin
<1> HIDE DEF Less
<1>5. i - 1 \in 0..(n - 1) /\ i \in Nat
    OBVIOUS
<1>6. <<i - 1, i>> \in Less
    BY <1>3, <1>5
<1>7. i - 1 \in Good
    BY <1>4, <1>5, <1>6
<1> QED
    BY <1>5, <1>7

\* A set of natural numbers has a least one.
LEMMA LeastNumber ==
    ASSUME NEW S, S \subseteq Nat, NEW n \in S
    PROVE  \E k \in S : \A j \in S : k <= j
<1> DEFINE Less == OpToRel(<, Nat)
<1>1. IsWellFoundedOn(Less, Nat)
    BY NatLessThanWellFounded
<1>2. Less = {p \in Nat \X Nat : p[1] < p[2]}
    BY DEF OpToRel
<1> HIDE DEF Less
<1>3. PICK k \in S : \A j \in S : <<j, k>> \notin Less
    BY <1>1, WFMin
<1>4. ASSUME NEW j \in S
      PROVE  k <= j
    <2>1. j < k => <<j, k>> \in Less
        BY <1>2
    <2> QED BY <1>3, <2>1
<1> QED
    BY <1>4

-----------------------------------------------------------------------------
(* The recursive definition of a sum.                                      *)

\* The element that a fold takes next; and the recursion of a sum.
First(s) == CHOOSE x \in s : TRUE

Sums(f, S, g) ==
    g = [s \in SUBSET S |-> IF s = {} THEN 0 ELSE f[First(s)] + g[s \ {First(s)}]]

\* CHOOSE picks an element, so that what is left is smaller.
LEMMA FirstIn ==
    ASSUME NEW s, s # {}
    PROVE  First(s) \in s /\ s \ {First(s)} # s /\ s \ {First(s)} \subseteq s
BY DEF First

\* A function that sums over the subsets of a set does so on a smaller one.
LEMMA SumsRestrict ==
    ASSUME NEW f, NEW S, NEW g, Sums(f, S, g), NEW T \in SUBSET S
    PROVE  Sums(f, T, [s \in SUBSET T |-> g[s]])
<1> DEFINE h == [s \in SUBSET T |-> g[s]]
<1>1. ASSUME NEW s \in SUBSET T
      PROVE  h[s] = IF s = {} THEN 0 ELSE f[First(s)] + h[s \ {First(s)}]
    BY FirstIn DEF Sums
<1> QED
    BY <1>1 DEF Sums

\* The recursion has at most one solution.
LEMMA SumsUnique ==
    ASSUME NEW f, NEW S, IsFiniteSet(S), NEW g, NEW h, Sums(f, S, g), Sums(f, S, h)
    PROVE  g = h
<1> DEFINE Good == {T \in SUBSET S : g[T] = h[T]}
<1>1. \A T \in SUBSET S : T \in Good
    <2> SUFFICES ASSUME NEW T \in SUBSET S PROVE T \in Good
        OBVIOUS
    <2>1. IsFiniteSet(T)
        BY FS_Subset
    <2>2. ASSUME NEW U \in SUBSET T, \A V \in SUBSET U : V # U => V \in Good
          PROVE  U \in Good
        <3>1. /\ g[U] = IF U = {} THEN 0 ELSE f[First(U)] + g[U \ {First(U)}]
              /\ h[U] = IF U = {} THEN 0 ELSE f[First(U)] + h[U \ {First(U)}]
            BY DEF Sums
        <3>2. U # {} => U \ {First(U)} \in Good
            BY <2>2, FirstIn
        <3> QED BY <3>1, <3>2
    <2> HIDE DEF Good
    <2> QED BY <2>1, <2>2, StrongSetInduction
<1> QED
    BY <1>1 DEF Sums

\* There is such a function, for every finite set.
LEMMA SumsExist ==
    ASSUME NEW f, NEW S, IsFiniteSet(S)
    PROVE  \E g : Sums(f, S, g)
<1> DEFINE Good == {T \in SUBSET S : \E g : Sums(f, T, g)}
           V(T) == CHOOSE g : Sums(f, T, g)
<1>1. ASSUME NEW T \in SUBSET S, \A U \in SUBSET T : U # T => U \in Good
      PROVE  T \in Good
    <2> DEFINE h == [s \in SUBSET T |->
                        IF s # T THEN V(s)[s]
                        ELSE IF s = {} THEN 0
                        ELSE f[First(s)] + V(s \ {First(s)})[s \ {First(s)}]]
    <2>1. \A U \in SUBSET T : U # T => Sums(f, U, V(U))
        BY <1>1
    <2>2. ASSUME NEW U \in SUBSET T, U # T, NEW W \in SUBSET U
          PROVE  V(U)[W] = V(W)[W]
        <3>1. Sums(f, W, [s \in SUBSET W |-> V(U)[s]])
            <4> HIDE DEF V
            <4> QED BY <2>1, <2>2, SumsRestrict
        <3>2. W # T /\ W \in SUBSET T
            BY <2>2
        <3>3. Sums(f, W, V(W))
            <4> HIDE DEF V
            <4> QED BY <3>2, <2>1
        <3>4. IsFiniteSet(W)
            BY <3>2, FS_Subset
        <3>5. V(W) = [s \in SUBSET W |-> V(U)[s]]
            <4> HIDE DEF V
            <4> QED BY <3>1, <3>3, <3>4, SumsUnique
        <3> HIDE DEF V
        <3> QED BY <3>5
    <2>3. ASSUME NEW s \in SUBSET T
          PROVE  h[s] = IF s = {} THEN 0 ELSE f[First(s)] + h[s \ {First(s)}]
        <3> DEFINE r == s \ {First(s)}
        <3>1. s # {} => r \in SUBSET s /\ r # s
            BY FirstIn
        <3> HIDE DEF V, r
        <3>2. CASE s = T
            BY <3>1, <3>2 DEF r
        <3>3. CASE s # T
            <4>1. V(s)[s] = IF s = {} THEN 0 ELSE f[First(s)] + V(s)[r]
                BY <2>1, <3>3 DEF Sums, r
            <4>2. s # {} => V(s)[r] = V(r)[r] /\ r # T /\ r \in SUBSET T
                BY <2>2, <3>1, <3>3
            <4> QED BY <4>1, <4>2, <3>3 DEF r
        <3> QED BY <3>2, <3>3
    <2>4. Sums(f, T, h)
        <3> HIDE DEF V
        <3> QED BY <2>3 DEF Sums
    <2> QED BY <2>4
<1>2. S \in Good
    <2> HIDE DEF Good
    <2> QED BY <1>1, StrongSetInduction
<1> QED
    BY <1>2

\* What the sum over a finite set is, by the order it is added in.
LEMMA SumDefined ==
    ASSUME NEW f, NEW S, IsFiniteSet(S)
    PROVE  \A g : Sums(f, S, g) => SumFunctionOnSet(f, S) = g[S]
<1> DEFINE it == CHOOSE g : Sums(f, S, g)
<1>1. Sums(f, S, it)
    BY SumsExist
<1>2. SumFunctionOnSet(f, S) = it[S]
    BY DEF SumFunctionOnSet, FoldFunctionOnSet, MapThenFoldSet, Sums, First
<1> HIDE DEF it
<1> QED
    BY <1>1, <1>2, SumsUnique

-----------------------------------------------------------------------------
(* Sums.                                                                   *)

\* Nothing adds up to nothing.
THEOREM SumEmpty ==
    ASSUME NEW f
    PROVE  SumFunctionOnSet(f, {}) = 0
<1>1. IsFiniteSet({})
    BY FS_EmptySet
<1>2. PICK g : Sums(f, {}, g)
    BY <1>1, SumsExist
<1> QED
    BY <1>1, <1>2, SumDefined DEF Sums

\* One step of the definition.
LEMMA SumFirst ==
    ASSUME NEW f, NEW S, IsFiniteSet(S), S # {}
    PROVE  SumFunctionOnSet(f, S) = f[First(S)] + SumFunctionOnSet(f, S \ {First(S)})
<1> DEFINE R == S \ {First(S)}
<1>1. PICK g : Sums(f, S, g)
    BY SumsExist
<1>2. SumFunctionOnSet(f, S) = g[S]
    BY <1>1, SumDefined
<1>3. R \in SUBSET S /\ IsFiniteSet(R)
    BY FirstIn, FS_Subset
<1>4. SumFunctionOnSet(f, R) = [s \in SUBSET R |-> g[s]][R]
    <2> HIDE DEF R
    <2>1. Sums(f, R, [s \in SUBSET R |-> g[s]])
        BY <1>1, <1>3, SumsRestrict
    <2> QED BY <1>3, <2>1, SumDefined
<1> QED
    BY <1>1, <1>2, <1>4 DEF Sums

\* A sum of integers is an integer, a sum of naturals a natural.
THEOREM SumType ==
    ASSUME NEW f, NEW S, IsFiniteSet(S)
    PROVE  /\ (\A x \in S : f[x] \in Int) => SumFunctionOnSet(f, S) \in Int
           /\ (\A x \in S : f[x] \in Nat) => SumFunctionOnSet(f, S) \in Nat
<1> DEFINE Good == {T \in SUBSET S :
                       /\ (\A x \in T : f[x] \in Int) => SumFunctionOnSet(f, T) \in Int
                       /\ (\A x \in T : f[x] \in Nat) => SumFunctionOnSet(f, T) \in Nat}
<1>1. ASSUME NEW T \in SUBSET S, \A U \in SUBSET T : U # T => U \in Good
      PROVE  T \in Good
    <2>1. CASE T = {}
        BY <2>1, SumEmpty
    <2>2. CASE T # {}
        <3>1. T \ {First(T)} \in Good /\ First(T) \in T
            BY <1>1, <2>2, FirstIn
        <3>2. SumFunctionOnSet(f, T) = f[First(T)] + SumFunctionOnSet(f, T \ {First(T)})
            BY <2>2, SumFirst, FS_Subset
        <3> QED BY <3>1, <3>2
    <2> QED BY <2>1, <2>2
<1>2. S \in Good
    <2> HIDE DEF Good
    <2> QED BY <1>1, StrongSetInduction
<1> QED
    BY <1>2

\* The order is irrelevant: any element may come first.
THEOREM SumRemove ==
    ASSUME NEW f, NEW S, IsFiniteSet(S), \A x \in S : f[x] \in Int, NEW x \in S
    PROVE  SumFunctionOnSet(f, S) = f[x] + SumFunctionOnSet(f, S \ {x})
<1> DEFINE Sum(T) == SumFunctionOnSet(f, T)
           Good == {T \in SUBSET S : \A y \in T : Sum(T) = f[y] + Sum(T \ {y})}
<1>1. ASSUME NEW T \in SUBSET S, \A U \in SUBSET T : U # T => U \in Good
      PROVE  T \in Good
    <2> SUFFICES ASSUME NEW y \in T PROVE Sum(T) = f[y] + Sum(T \ {y})
        OBVIOUS
    <2> DEFINE z == First(T)
    <2>1. z \in T /\ T \ {z} # T /\ T \ {y} # T
        BY FirstIn
    <2>2. Sum(T) = f[z] + Sum(T \ {z})
        BY SumFirst, FS_Subset
    <2>3. CASE y # z
        <3>1. T \ {z} \in Good /\ T \ {y} \in Good
            BY <1>1, <2>1
        <3>2. Sum(T \ {z}) = f[y] + Sum((T \ {z}) \ {y})
            BY <2>3, <3>1
        <3>3. (T \ {y}) \ {z} = (T \ {z}) \ {y}
            OBVIOUS
        <3>4. Sum(T \ {y}) = f[z] + Sum((T \ {z}) \ {y})
            BY <2>1, <2>3, <3>1, <3>3
        <3>5. Sum((T \ {z}) \ {y}) \in Int /\ f[y] \in Int /\ f[z] \in Int
            BY <2>1, SumType, FS_Subset
        <3> QED BY <2>2, <3>2, <3>4, <3>5
    <2> QED BY <2>2, <2>3
<1>2. S \in Good
    <2> HIDE DEF Good
    <2> QED BY <1>1, StrongSetInduction
<1> QED
    BY <1>2

\* A new element adds its value.
THEOREM SumAdd ==
    ASSUME NEW f, NEW S, IsFiniteSet(S), NEW x, x \notin S,
           \A y \in S \cup {x} : f[y] \in Int
    PROVE  SumFunctionOnSet(f, S \cup {x}) = f[x] + SumFunctionOnSet(f, S)
<1>1. IsFiniteSet(S \cup {x}) /\ (S \cup {x}) \ {x} = S
    BY FS_AddElement
<1> QED
    BY <1>1, SumRemove

\* What a relation of two functions makes of their sums.  Nothing but their
\* values on the set counts; a larger summand makes a larger sum.
THEOREM SumCompare ==
    ASSUME NEW f, NEW g, NEW S, IsFiniteSet(S),
           \A x \in S : f[x] \in Int /\ g[x] \in Int
    PROVE  /\ (\A x \in S : f[x] = g[x]) => SumFunctionOnSet(f, S) = SumFunctionOnSet(g, S)
           /\ (\A x \in S : f[x] <= g[x]) => SumFunctionOnSet(f, S) <= SumFunctionOnSet(g, S)
<1> DEFINE Good == {T \in SUBSET S :
              /\ (\A x \in T : f[x] = g[x]) => SumFunctionOnSet(f, T) = SumFunctionOnSet(g, T)
              /\ (\A x \in T : f[x] <= g[x]) => SumFunctionOnSet(f, T) <= SumFunctionOnSet(g, T)}
<1>1. {} \in Good
    BY SumEmpty
<1>2. ASSUME NEW T \in SUBSET S, NEW x \in S, T \in Good, x \notin T
      PROVE  T \cup {x} \in Good
    <2>1. /\ SumFunctionOnSet(f, T \cup {x}) = f[x] + SumFunctionOnSet(f, T)
          /\ SumFunctionOnSet(g, T \cup {x}) = g[x] + SumFunctionOnSet(g, T)
        BY <1>2, SumAdd, FS_Subset
    <2>2. SumFunctionOnSet(f, T) \in Int /\ SumFunctionOnSet(g, T) \in Int
        BY SumType, FS_Subset
    <2> QED BY <1>2, <2>1, <2>2
<1>3. S \in Good
    <2> HIDE DEF Good
    <2> QED BY <1>1, <1>2, SetInduction
<1> QED
    BY <1>3

\* Values that are all 0 sum up to 0.
THEOREM SumZero ==
    ASSUME NEW f, NEW S, IsFiniteSet(S), \A x \in S : f[x] = 0
    PROVE  SumFunctionOnSet(f, S) = 0
<1> DEFINE Good == {T \in SUBSET S : SumFunctionOnSet(f, T) = 0}
<1>1. {} \in Good
    BY SumEmpty
<1>2. ASSUME NEW T \in SUBSET S, NEW x \in S, T \in Good, x \notin T
      PROVE  T \cup {x} \in Good
    BY <1>2, SumAdd, FS_Subset
<1>3. S \in Good
    <2> HIDE DEF Good
    <2> QED BY <1>1, <1>2, SetInduction
<1> QED
    BY <1>3

\* One summand changes.
THEOREM SumChange ==
    ASSUME NEW f, NEW g, NEW S, IsFiniteSet(S), NEW x \in S,
           \A y \in S : f[y] \in Int /\ g[y] \in Int,
           \A y \in S \ {x} : f[y] = g[y]
    PROVE  SumFunctionOnSet(g, S) = SumFunctionOnSet(f, S) - f[x] + g[x]
<1>1. IsFiniteSet(S \ {x})
    BY FS_Subset
<1>2. SumFunctionOnSet(f, S \ {x}) = SumFunctionOnSet(g, S \ {x})
    BY <1>1, SumCompare
<1>3. /\ SumFunctionOnSet(f, S) = f[x] + SumFunctionOnSet(f, S \ {x})
      /\ SumFunctionOnSet(g, S) = g[x] + SumFunctionOnSet(g, S \ {x})
    BY SumRemove
<1>4. SumFunctionOnSet(f, S \ {x}) \in Int
    BY <1>1, SumType
<1> QED
    BY <1>2, <1>3, <1>4

\* No natural summand exceeds the sum.
THEOREM SumBounds ==
    ASSUME NEW f, NEW S, IsFiniteSet(S), \A y \in S : f[y] \in Nat, NEW x \in S
    PROVE  f[x] <= SumFunctionOnSet(f, S)
<1>1. SumFunctionOnSet(f, S) = f[x] + SumFunctionOnSet(f, S \ {x})
    BY SumRemove
<1>2. SumFunctionOnSet(f, S \ {x}) \in Nat
    BY SumType, FS_Subset
<1> QED
    BY <1>1, <1>2

\* Part of the natural summands.
THEOREM SumPart ==
    ASSUME NEW f, NEW S, IsFiniteSet(S), \A y \in S : f[y] \in Nat, NEW P \in SUBSET S
    PROVE  SumFunctionOnSet(f, P) <= SumFunctionOnSet(f, S)
<1> DEFINE Good == {T \in SUBSET S : SumFunctionOnSet(f, T \cap P) <= SumFunctionOnSet(f, T)}
<1>1. {} \in Good
    <2>1. {} \cap P = {}
        OBVIOUS
    <2> QED BY <2>1, SumEmpty
<1>2. ASSUME NEW T \in SUBSET S, NEW x \in S, T \in Good, x \notin T
      PROVE  T \cup {x} \in Good
    <2>1. SumFunctionOnSet(f, T \cup {x}) = f[x] + SumFunctionOnSet(f, T)
        BY <1>2, SumAdd, FS_Subset
    <2>2. SumFunctionOnSet(f, T) \in Nat /\ SumFunctionOnSet(f, T \cap P) \in Nat
        BY SumType, FS_Subset
    <2>3. CASE x \in P
        <3>1. (T \cup {x}) \cap P = (T \cap P) \cup {x} /\ x \notin T \cap P
            BY <1>2, <2>3
        <3>2. IsFiniteSet(T \cap P) /\ \A y \in (T \cap P) \cup {x} : f[y] \in Int
            BY FS_Subset
        <3>3. SumFunctionOnSet(f, (T \cap P) \cup {x}) = f[x] + SumFunctionOnSet(f, T \cap P)
            BY <3>1, <3>2, SumAdd
        <3>4. SumFunctionOnSet(f, (T \cup {x}) \cap P) = f[x] + SumFunctionOnSet(f, T \cap P)
            BY <3>1, <3>3
        <3> QED BY <1>2, <2>1, <2>2, <3>4
    <2>4. CASE x \notin P
        <3>1. (T \cup {x}) \cap P = T \cap P
            BY <2>4
        <3>2. SumFunctionOnSet(f, (T \cup {x}) \cap P) = SumFunctionOnSet(f, T \cap P)
            BY <3>1
        <3> QED BY <1>2, <2>1, <2>2, <3>2
    <2> QED BY <2>3, <2>4
<1>3. S \in Good
    <2> HIDE DEF Good
    <2> QED BY <1>1, <1>2, SetInduction
<1>4. S \cap P = P
    OBVIOUS
<1> QED
    BY <1>3, <1>4

-----------------------------------------------------------------------------
(* Sums of sequences.                                                      *)

\* An interval is finite.
LEMMA Intervals ==
    ASSUME NEW n \in Nat
    PROVE  /\ IsFiniteSet(1..n)
           /\ 1..(n + 1) = (1..n) \cup {n + 1} /\ n + 1 \notin 1..n
BY FS_Interval

\* The first n elements.
THEOREM PrefixSum ==
    ASSUME NEW s, \A i \in DOMAIN s : s[i] \in Int, NEW n \in Nat, 1..n \subseteq DOMAIN s
    PROVE  /\ SumFunctionOnSet(s, 1..n) \in Int
           /\ n + 1 \in DOMAIN s =>
                 SumFunctionOnSet(s, 1..(n + 1)) = SumFunctionOnSet(s, 1..n) + s[n + 1]
<1>1. SumFunctionOnSet(s, 1..n) \in Int
    BY SumType, Intervals
<1>2. ASSUME n + 1 \in DOMAIN s
      PROVE  SumFunctionOnSet(s, 1..(n + 1)) = s[n + 1] + SumFunctionOnSet(s, 1..n)
    <2> DEFINE I == 1..n
    <2>1. IsFiniteSet(I) /\ 1..(n + 1) = I \cup {n + 1} /\ n + 1 \notin I
        BY Intervals
    <2>2. \A i \in I \cup {n + 1} : s[i] \in Int
        BY <1>2
    <2> HIDE DEF I
    <2>3. SumFunctionOnSet(s, I \cup {n + 1}) = s[n + 1] + SumFunctionOnSet(s, I)
        BY <2>1, <2>2, SumAdd
    <2> QED BY <2>1, <2>3 DEF I
<1>3. n + 1 \in DOMAIN s => s[n + 1] \in Int
    OBVIOUS
<1> QED
    BY <1>1, <1>2, <1>3

\* The sum of a sequence is that over its positions, and grows with each append.
THEOREM SequenceSum ==
    ASSUME NEW s \in Seq(Int)
    PROVE  /\ SumFunction(s) = SumFunctionOnSet(s, 1..Len(s))
           /\ SumFunction(s) \in Int
           /\ s \in Seq(Nat) => SumFunction(s) \in Nat
           /\ s = <<>> => SumFunction(s) = 0
           /\ \A x \in Int : SumFunction(Append(s, x)) = SumFunction(s) + x
<1>1. SumFunction(s) = SumFunctionOnSet(s, 1..Len(s))
    BY DEF SumFunction
<1>2. SumFunction(s) \in Int /\ (s \in Seq(Nat) => SumFunction(s) \in Nat)
    BY <1>1, SumType, Intervals
<1>3. s = <<>> => SumFunction(s) = 0
    <2>1. s = <<>> => 1..Len(s) = {}
        OBVIOUS
    <2> QED BY <1>1, <2>1, SumEmpty
<1>4. ASSUME NEW x \in Int PROVE SumFunction(Append(s, x)) = SumFunction(s) + x
    <2> DEFINE t == Append(s, x)
               n == Len(s)
    <2>1. t \in Seq(Int) /\ Len(t) = n + 1 /\ t[n + 1] = x /\ \A i \in 1..n : t[i] = s[i]
        OBVIOUS
    <2>2. \A i \in 1..n : s[i] \in Int /\ t[i] \in Int
        BY <2>1
    <2> HIDE DEF t
    <2>3. SumFunction(t) = SumFunctionOnSet(t, 1..(n + 1))
        BY <2>1 DEF SumFunction
    <2>4. SumFunctionOnSet(t, 1..(n + 1)) = SumFunctionOnSet(t, 1..n) + x
        <3>1. /\ n \in Nat /\ n + 1 \in DOMAIN t /\ 1..n \subseteq DOMAIN t
              /\ \A i \in DOMAIN t : t[i] \in Int
            BY <2>1
        <3> HIDE DEF n
        <3> QED BY <2>1, <3>1, PrefixSum
    <2>5. SumFunctionOnSet(t, 1..n) = SumFunctionOnSet(s, 1..n)
        <3>1. IsFiniteSet(1..n)
            BY Intervals
        <3> HIDE DEF n
        <3> QED BY <2>1, <2>2, <3>1, SumCompare
    <2> QED BY <1>1, <2>3, <2>4, <2>5 DEF t
<1> QED
    BY <1>1, <1>2, <1>3, <1>4

\* The shortest sequences.
LEMMA ShortSums ==
    /\ SumFunction(<<>>) = 0
    /\ \A x \in Int : SumFunction(<<x>>) = x
<1>1. <<>> \in Seq(Int) /\ \A x \in Int : <<x>> = Append(<<>>, x)
    OBVIOUS
<1>2. SumFunction(<<>>) = 0
    BY <1>1, SequenceSum
<1>3. \A x \in Int : SumFunction(Append(<<>>, x)) = SumFunction(<<>>) + x
    BY <1>1, SequenceSum
<1> QED
    BY <1>1, <1>2, <1>3

\* Of two numbers.
LEMMA PairSum ==
    ASSUME NEW x \in Int, NEW y \in Int
    PROVE  SumFunction(<<x, y>>) = x + y
<1> DEFINE s == <<x, y>>
<1>1. s \in Seq(Int) /\ Len(s) = 2 /\ DOMAIN s = 1..2 /\ s[1] = x /\ s[2] = y
    OBVIOUS
<1> HIDE DEF s
<1>2. SumFunction(s) = SumFunctionOnSet(s, 1..2)
    BY <1>1, SequenceSum
<1>3. SumFunctionOnSet(s, 1..2) = SumFunctionOnSet(s, 1..1) + s[2]
    <2>1. (\A i \in DOMAIN s : s[i] \in Int) /\ 1..1 \subseteq DOMAIN s /\ 1 + 1 \in DOMAIN s
        BY <1>1
    <2>2. SumFunctionOnSet(s, 1..(1 + 1)) = SumFunctionOnSet(s, 1..1) + s[1 + 1]
        BY <2>1, PrefixSum
    <2> QED BY <2>2
<1>4. SumFunctionOnSet(s, 1..1) = s[1]
    <2>1. (\A i \in DOMAIN s : s[i] \in Int) /\ 1..0 \subseteq DOMAIN s /\ 0 + 1 \in DOMAIN s
        BY <1>1
    <2>2. SumFunctionOnSet(s, 1..(0 + 1)) = SumFunctionOnSet(s, 1..0) + s[0 + 1]
        BY <2>1, PrefixSum
    <2>3. SumFunctionOnSet(s, 1..0) = 0 /\ s[1] \in Int
        <3>1. 1..0 = {}
            OBVIOUS
        <3> QED BY <1>1, <3>1, SumEmpty
    <2> QED BY <2>2, <2>3
<1>5. SumFunction(s) = x + y
    BY <1>1, <1>2, <1>3, <1>4
<1> QED
    BY <1>5 DEF s

\* What comes first adds itself.
THEOREM SumCons ==
    ASSUME NEW s \in Seq(Int), NEW x \in Int
    PROVE  SumFunction(<<x>> \o s) = x + SumFunction(s)
<1> DEFINE t == <<x>> \o s
           Good == {n \in 0..Len(s) :
                       SumFunctionOnSet(t, 1..(n + 1)) = x + SumFunctionOnSet(s, 1..n)}
<1>1. /\ t \in Seq(Int) /\ Len(t) = Len(s) + 1 /\ t[1] = x
      /\ \A i \in 1..Len(s) : t[i + 1] = s[i]
    OBVIOUS
<1> HIDE DEF t
<1>2. 0 \in Good
    <2>1. SumFunctionOnSet(t, 1..0) = 0 /\ SumFunctionOnSet(s, 1..0) = 0
        <3>1. 1..0 = {}
            OBVIOUS
        <3> QED BY <3>1, SumEmpty
    <2>2. SumFunctionOnSet(t, 1..(0 + 1)) = SumFunctionOnSet(t, 1..0) + x
        <3>1. 0 + 1 \in DOMAIN t /\ 1..0 \subseteq DOMAIN t /\ t[0 + 1] = x
            BY <1>1
        <3>2. \A i \in DOMAIN t : t[i] \in Int
            BY <1>1
        <3> QED BY <3>1, <3>2, PrefixSum
    <2> QED BY <2>1, <2>2
<1>3. ASSUME NEW n \in 0..(Len(s) - 1), n \in Good
      PROVE  n + 1 \in Good
    <2>1. SumFunctionOnSet(s, 1..(n + 1)) = SumFunctionOnSet(s, 1..n) + s[n + 1]
        BY PrefixSum
    <2>2. SumFunctionOnSet(t, 1..((n + 1) + 1)) = SumFunctionOnSet(t, 1..(n + 1)) + t[(n + 1) + 1]
        <3>1. /\ (n + 1) + 1 \in DOMAIN t /\ 1..(n + 1) \subseteq DOMAIN t /\ n + 1 \in Nat
              /\ \A i \in DOMAIN t : t[i] \in Int
            BY <1>1
        <3> QED BY <3>1, PrefixSum
    <2>3. t[(n + 1) + 1] = s[n + 1] /\ s[n + 1] \in Int
        BY <1>1
    <2>4. SumFunctionOnSet(s, 1..n) \in Int
        BY PrefixSum
    <2> QED BY <1>3, <2>1, <2>2, <2>3, <2>4
<1>4. Len(s) \in Good
    <2> HIDE DEF Good
    <2> QED BY <1>2, <1>3, UpTo
<1>5. SumFunction(t) = SumFunctionOnSet(t, 1..(Len(s) + 1))
    BY <1>1, SequenceSum
<1> QED
    BY <1>4, <1>5, SequenceSum DEF t

\* The sum of the part of a sequence from place a to place b, and what taking
\* away its first or its last element leaves.
THEOREM PartSum ==
    ASSUME NEW s \in Seq(Int), NEW a \in 1..(Len(s) + 1), NEW b \in 0..Len(s)
    PROVE  /\ SumFunction(SubSeq(s, a, b)) \in Int
           /\ s \in Seq(Nat) => SumFunction(SubSeq(s, a, b)) \in Nat
           /\ a > b => SumFunction(SubSeq(s, a, b)) = 0
           /\ a <= b =>
                 /\ SumFunction(SubSeq(s, a, b)) = s[a] + SumFunction(SubSeq(s, a + 1, b))
                 /\ SumFunction(SubSeq(s, a, b)) = SumFunction(SubSeq(s, a, b - 1)) + s[b]
<1>1. SubSeq(s, a, b) \in Seq(Int) /\ (s \in Seq(Nat) => SubSeq(s, a, b) \in Seq(Nat))
    OBVIOUS
<1>2. a > b => SubSeq(s, a, b) = <<>>
    OBVIOUS
<1>3. ASSUME a <= b
      PROVE  SumFunction(SubSeq(s, a, b)) = s[a] + SumFunction(SubSeq(s, a + 1, b))
    <2>1. SubSeq(s, a, b) = <<s[a]>> \o SubSeq(s, a + 1, b)
        BY <1>3
    <2>2. SubSeq(s, a + 1, b) \in Seq(Int) /\ s[a] \in Int
        BY <1>3
    <2> QED BY <2>1, <2>2, SumCons
<1>4. ASSUME a <= b
      PROVE  SumFunction(SubSeq(s, a, b)) = SumFunction(SubSeq(s, a, b - 1)) + s[b]
    <2>1. SubSeq(s, a, b) = Append(SubSeq(s, a, b - 1), s[b])
        BY <1>4
    <2>2. SubSeq(s, a, b - 1) \in Seq(Int) /\ s[b] \in Int
        BY <1>4
    <2> QED BY <2>1, <2>2, SequenceSum
<1> QED
    BY <1>1, <1>2, <1>3, <1>4, SequenceSum

-----------------------------------------------------------------------------
(* FlattenSeq: the concatenation of some sequences.                        *)

\* f[k] joins the first k sequences.
FlattensUpTo(seqs, n, f) ==
    f = [i \in 1..n |-> IF i = 1 THEN seqs[i] ELSE f[i - 1] \o seqs[i]]

\* The recursion of FlattenSeq has a solution for each number of parts.
LEMMA FlattenExists ==
    ASSUME NEW seqs, NEW m \in Nat
    PROVE  \E f : FlattensUpTo(seqs, m, f)
<1> DEFINE Good == {n \in 0..m : \E f : FlattensUpTo(seqs, n, f)}
<1>1. 0 \in Good
    <2>1. FlattensUpTo(seqs, 0, [i \in 1..0 |-> seqs[i]])
        BY DEF FlattensUpTo
    <2> QED BY <2>1
<1>2. ASSUME NEW n \in 0..(m - 1), n \in Good
      PROVE  n + 1 \in Good
    <2>1. PICK f : FlattensUpTo(seqs, n, f)
        BY <1>2
    <2> DEFINE g == [i \in 1..(n + 1) |->
                        IF i = n + 1 /\ i # 1 THEN f[n] \o seqs[i] ELSE
                        IF i = 1 THEN seqs[i] ELSE f[i]]
    <2>2. ASSUME NEW i \in 1..(n + 1)
          PROVE  g[i] = IF i = 1 THEN seqs[i] ELSE g[i - 1] \o seqs[i]
        <3>1. CASE i = 1
            BY <3>1
        <3>2. CASE i # 1
            <4>1. i - 1 \in 1..n /\ i - 1 \in 1..(n + 1) /\ i - 1 # n + 1
                BY <3>2
            <4> DEFINE j == i - 1
            <4>2. g[j] = IF j = 1 THEN seqs[j] ELSE f[j]
                BY <4>1
            <4>3. f[j] = IF j = 1 THEN seqs[j] ELSE f[j - 1] \o seqs[j]
                BY <2>1, <4>1 DEF FlattensUpTo
            <4>4. g[j] = f[j]
                BY <4>2, <4>3
            <4>5. CASE i = n + 1
                <5>1. g[i] = f[n] \o seqs[i]
                    BY <3>2, <4>5
                <5>2. j = n
                    BY <4>5
                <5> HIDE DEF g
                <5> QED BY <5>1, <5>2, <4>4, <3>2
            <4>6. CASE i # n + 1
                <5>1. g[i] = f[i] /\ i \in 1..n
                    BY <3>2, <4>6
                <5>2. f[i] = f[i - 1] \o seqs[i]
                    BY <2>1, <5>1, <3>2 DEF FlattensUpTo
                <5> HIDE DEF g
                <5> QED BY <5>1, <5>2, <4>4, <3>2
            <4> QED BY <4>5, <4>6
        <3> QED BY <3>1, <3>2
    <2>3. g = [i \in 1..(n + 1) |-> g[i]]
        OBVIOUS
    <2> HIDE DEF g
    <2>4. FlattensUpTo(seqs, n + 1, g)
        BY <2>2, <2>3 DEF FlattensUpTo
    <2> QED BY <2>4
<1>3. m \in Good
    <2> HIDE DEF Good
    <2> QED BY <1>1, <1>2, UpTo
<1> QED
    BY <1>3

\* The recursive equation of FlattenSeq, for the concatenation of a prefix.
LEMMA FlattenDefined ==
    ASSUME NEW seqs, Len(seqs) \in Nat
    PROVE  \E f : /\ f[1] = seqs[1] \/ Len(seqs) = 0
                  /\ \A n \in 1..(Len(seqs) - 1) : f[n + 1] = f[n] \o seqs[n + 1]
                  /\ FlattenSeq(seqs) = IF Len(seqs) = 0 THEN seqs ELSE f[Len(seqs)]
<1> DEFINE f == CHOOSE f_ : FlattensUpTo(seqs, Len(seqs), f_)
<1>1. FlattensUpTo(seqs, Len(seqs), f)
    BY FlattenExists
<1>2. FlattenSeq(seqs) = IF Len(seqs) = 0 THEN seqs ELSE f[Len(seqs)]
    BY DEF FlattenSeq, FlattensUpTo
<1> HIDE DEF f
<1>3. \A i \in 1..Len(seqs) : f[i] = IF i = 1 THEN seqs[i] ELSE f[i - 1] \o seqs[i]
    BY <1>1 DEF FlattensUpTo
<1>4. f[1] = seqs[1] \/ Len(seqs) = 0
    BY <1>3
<1>5. ASSUME NEW n \in 1..(Len(seqs) - 1)
      PROVE  f[n + 1] = f[n] \o seqs[n + 1]
    <2>1. n + 1 \in 1..Len(seqs) /\ n + 1 # 1
        OBVIOUS
    <2>2. f[n + 1] = f[(n + 1) - 1] \o seqs[n + 1]
        BY <1>3, <2>1
    <2>3. (n + 1) - 1 = n
        OBVIOUS
    <2> QED BY <2>2, <2>3
<1> QED
    BY <1>2, <1>4, <1>5

\* A sequence of all the elements of the first n sequences and no other.
Joins(s, seqs, n) ==
    /\ \A i \in 1..n : \A j \in DOMAIN seqs[i] : \E k \in DOMAIN s : s[k] = seqs[i][j]
    /\ \A k \in DOMAIN s : \E i \in 1..n : \E j \in DOMAIN seqs[i] : s[k] = seqs[i][j]

\* One more part is joined at the end.
LEMMA JoinsMore ==
    ASSUME NEW U, NEW seqs, NEW n \in Nat, NEW s \in Seq(U), NEW t \in Seq(U),
           t = seqs[n + 1], Joins(s, seqs, n)
    PROVE  s \o t \in Seq(U) /\ Joins(s \o t, seqs, n + 1)
<1>1. /\ s \o t \in Seq(U)
      /\ \A k \in DOMAIN s : k \in DOMAIN (s \o t) /\ (s \o t)[k] = s[k]
      /\ \A j \in DOMAIN t : Len(s) + j \in DOMAIN (s \o t) /\ (s \o t)[Len(s) + j] = t[j]
    OBVIOUS
<1>2. ASSUME NEW k \in DOMAIN (s \o t), k \notin DOMAIN s
      PROVE  \E j \in DOMAIN t : (s \o t)[k] = t[j]
    <2>1. k - Len(s) \in DOMAIN t /\ (s \o t)[k] = t[k - Len(s)]
        BY <1>2
    <2> QED BY <2>1
<1> DEFINE st == s \o t
<1> HIDE DEF st
<1>3. ASSUME NEW i \in 1..(n + 1), NEW j \in DOMAIN seqs[i]
      PROVE  \E k \in DOMAIN st : st[k] = seqs[i][j]
    <2>1. CASE i = n + 1
        BY <1>1, <2>1 DEF st
    <2>2. CASE i # n + 1
        <3>1. i \in 1..n
            BY <2>2
        <3>2. PICK k \in DOMAIN s : s[k] = seqs[i][j]
            BY <3>1 DEF Joins
        <3> QED BY <1>1, <3>2 DEF st
    <2> QED BY <2>1, <2>2
<1>4. ASSUME NEW k \in DOMAIN st
      PROVE  \E i \in 1..(n + 1) : \E j \in DOMAIN seqs[i] : st[k] = seqs[i][j]
    <2>1. CASE k \in DOMAIN s
        <3>1. PICK i \in 1..n : \E j \in DOMAIN seqs[i] : s[k] = seqs[i][j]
            BY <2>1 DEF Joins
        <3>2. i \in 1..(n + 1) /\ st[k] = s[k]
            BY <1>1, <2>1 DEF st
        <3> QED BY <3>1, <3>2
    <2>2. CASE k \notin DOMAIN s
        <3>1. n + 1 \in 1..(n + 1)
            OBVIOUS
        <3>2. \E j \in DOMAIN t : st[k] = t[j]
            BY <1>2, <2>2 DEF st
        <3> QED BY <3>1, <3>2
    <2> QED BY <2>1, <2>2
<1>5. Joins(st, seqs, n + 1)
    BY <1>3, <1>4 DEF Joins
<1> QED
    BY <1>1, <1>5 DEF st

\* What FlattenSeq puts together: a sequence of all the elements and no other.
THEOREM Flattened ==
    ASSUME NEW U, NEW seqs, Len(seqs) \in Nat, DOMAIN seqs = 1..Len(seqs),
           \A i \in DOMAIN seqs : seqs[i] \in Seq(U)
    PROVE  /\ Len(seqs) > 0 => FlattenSeq(seqs) \in Seq(U)
           /\ Len(seqs) = 0 => FlattenSeq(seqs) = seqs
           /\ Joins(FlattenSeq(seqs), seqs, Len(seqs))
<1>1. PICK f : /\ f[1] = seqs[1] \/ Len(seqs) = 0
               /\ \A n \in 1..(Len(seqs) - 1) : f[n + 1] = f[n] \o seqs[n + 1]
               /\ FlattenSeq(seqs) = IF Len(seqs) = 0 THEN seqs ELSE f[Len(seqs)]
    BY FlattenDefined
<1>2. CASE Len(seqs) = 0
    <2>1. FlattenSeq(seqs) = seqs
        BY <1>1, <1>2
    <2> QED BY <1>2, <2>1 DEF Joins
<1>3. CASE Len(seqs) # 0
    <2> DEFINE Good == {n \in 0..Len(seqs) :
                           n = 0 \/ (f[n] \in Seq(U) /\ Joins(f[n], seqs, n))}
    <2>1. 0 \in Good
        OBVIOUS
    <2>2. ASSUME NEW n \in 0..(Len(seqs) - 1), n \in Good
          PROVE  n + 1 \in Good
        <3>1. CASE n = 0
            <4>1. f[1] = seqs[1] /\ seqs[1] \in Seq(U)
                BY <1>1, <1>3
            <4>2. Joins(seqs[1], seqs, 1)
                BY DEF Joins
            <4>3. n + 1 = 1 /\ 1 \in 0..Len(seqs)
                BY <3>1, <1>3
            <4> QED BY <4>1, <4>2, <4>3
        <3>2. CASE n # 0
            <4>1. f[n] \in Seq(U) /\ Joins(f[n], seqs, n) /\ n \in Nat
                BY <2>2, <3>2
            <4>2. n \in 1..(Len(seqs) - 1) /\ n + 1 \in DOMAIN seqs
                BY <3>2
            <4>3. f[n + 1] = f[n] \o seqs[n + 1]
                BY <1>1, <4>2
            <4>4. seqs[n + 1] \in Seq(U)
                BY <4>2
            <4> DEFINE s == f[n]
                       t == seqs[n + 1]
            <4>5. s \in Seq(U) /\ t \in Seq(U) /\ Joins(s, seqs, n) /\ n \in Nat
                BY <4>1, <4>4
            <4> HIDE DEF s
            <4>6. s \o t \in Seq(U) /\ Joins(s \o t, seqs, n + 1)
                BY <4>5, JoinsMore
            <4>7. f[n + 1] \in Seq(U) /\ Joins(f[n + 1], seqs, n + 1)
                BY <4>3, <4>6 DEF s
            <4>8. n + 1 \in 0..Len(seqs)
                OBVIOUS
            <4> QED BY <4>7, <4>8
        <3> QED BY <3>1, <3>2
    <2>3. Len(seqs) \in Good
        <3> HIDE DEF Good
        <3> QED BY <2>1, <2>2, UpTo
    <2>4. f[Len(seqs)] \in Seq(U) /\ Joins(f[Len(seqs)], seqs, Len(seqs))
        BY <1>3, <2>3
    <2> QED BY <1>1, <1>3, <2>4
<1> QED
    BY <1>2, <1>3

\* Of sequences of one element each.
THEOREM FlattenedOnes ==
    ASSUME NEW U, NEW s \in Seq(U), NEW seqs, seqs = [n \in DOMAIN s |-> <<s[n]>>]
    PROVE  FlattenSeq(seqs) = s
<1>1. Len(s) \in Nat /\ DOMAIN s = 1..Len(s) /\ \A n \in 1..Len(s) : s[n] \in U
    OBVIOUS
<1>2. /\ Len(seqs) = Len(s) /\ seqs \in Seq(Seq(U))
      /\ \A n \in 1..Len(s) : seqs[n] = <<s[n]>>
    <2>1. \A n \in 1..Len(s) : <<s[n]>> \in Seq(U)
        BY <1>1
    <2>2. seqs \in [1..Len(s) -> Seq(U)]
        BY <1>1, <2>1
    <2> QED BY <1>1, <2>2
<1>3. PICK f : /\ f[1] = seqs[1] \/ Len(seqs) = 0
               /\ \A n \in 1..(Len(seqs) - 1) : f[n + 1] = f[n] \o seqs[n + 1]
               /\ FlattenSeq(seqs) = IF Len(seqs) = 0 THEN seqs ELSE f[Len(seqs)]
    BY <1>1, <1>2, FlattenDefined
<1>4. CASE Len(s) = 0
    <2>1. s = seqs
        BY <1>2, <1>4
    <2> QED BY <1>2, <1>3, <1>4, <2>1
<1>5. CASE Len(s) # 0
    <2> DEFINE Good == {n \in 0..Len(s) : n = 0 \/ f[n] = SubSeq(s, 1, n)}
    <2>1. 0 \in Good
        BY <1>1
    <2>2. ASSUME NEW n \in 0..(Len(s) - 1), n \in Good
          PROVE  n + 1 \in Good
        <3>1. CASE n = 0
            <4>1. f[1] = <<s[1]>>
                BY <1>1, <1>2, <1>3, <1>5
            <4>2. SubSeq(s, 1, 1) = <<s[1]>>
                <5> DEFINE a == SubSeq(s, 1, 1)
                           b == <<s[1]>>
                <5>1. a \in Seq(U) /\ Len(a) = 1 /\ a[1] = s[1]
                    BY <1>1, <1>5
                <5>2. b \in Seq(U) /\ Len(b) = 1 /\ b[1] = s[1]
                    BY <1>1, <1>5
                <5> HIDE DEF a, b
                <5>3. \A i \in 1..1 : a[i] = b[i]
                    BY <5>1, <5>2
                <5>4. a = [i \in 1..1 |-> a[i]] /\ b = [i \in 1..1 |-> b[i]]
                    BY <5>1, <5>2
                <5>5. a = b
                    BY <5>3, <5>4
                <5> QED BY <5>5 DEF a, b
            <4>3. n + 1 = 1 /\ 1 \in 0..Len(s)
                BY <1>1, <1>5, <3>1
            <4> QED BY <4>1, <4>2, <4>3
        <3>2. CASE n # 0
            <4>1. f[n + 1] = SubSeq(s, 1, n) \o <<s[n + 1]>>
                <5>1. n \in 1..(Len(seqs) - 1) /\ n + 1 \in 1..Len(s)
                    BY <1>1, <1>2, <3>2
                <5>2. f[n + 1] = f[n] \o seqs[n + 1]
                    BY <1>3, <5>1
                <5>3. seqs[n + 1] = <<s[n + 1]>>
                    BY <1>2, <5>1
                <5>4. f[n] = SubSeq(s, 1, n)
                    BY <2>2, <3>2
                <5> QED BY <5>2, <5>3, <5>4
            <4>2. SubSeq(s, 1, n + 1) = SubSeq(s, 1, n) \o <<s[n + 1]>>
                BY <1>1, <3>2
            <4>3. n + 1 \in 0..Len(s)
                BY <1>1
            <4> QED BY <4>1, <4>2, <4>3
        <3> QED BY <3>1, <3>2
    <2>3. Len(s) \in Good
        <3> HIDE DEF Good
        <3> QED BY <1>1, <2>1, <2>2, UpTo
    <2>4. f[Len(s)] = SubSeq(s, 1, Len(s))
        BY <1>5, <2>3
    <2>5. SubSeq(s, 1, Len(s)) = s
        OBVIOUS
    <2> QED BY <1>2, <1>3, <1>5, <2>4, <2>5
<1> QED
    BY <1>4, <1>5

-----------------------------------------------------------------------------
(* Sums taken apart.                                                       *)

\* The summands outside of a part may be counted as 0.
THEOREM SumFilter ==
    ASSUME NEW f, NEW S, IsFiniteSet(S), \A x \in S : f[x] \in Int, NEW P \in SUBSET S,
           NEW g, \A x \in S : g[x] = IF x \in P THEN f[x] ELSE 0
    PROVE  SumFunctionOnSet(f, P) = SumFunctionOnSet(g, S)
<1> DEFINE Good == {T \in SUBSET S : SumFunctionOnSet(f, T \cap P) = SumFunctionOnSet(g, T)}
<1>1. {} \in Good
    <2>1. {} \cap P = {}
        OBVIOUS
    <2> QED BY <2>1, SumEmpty
<1>2. ASSUME NEW T \in SUBSET S, NEW x \in S, T \in Good, x \notin T
      PROVE  T \cup {x} \in Good
    <2>1. \A y \in S : g[y] \in Int
        OBVIOUS
    <2>2. SumFunctionOnSet(g, T \cup {x}) = g[x] + SumFunctionOnSet(g, T)
        BY <1>2, <2>1, SumAdd, FS_Subset
    <2>3. IsFiniteSet(T \cap P) /\ SumFunctionOnSet(f, T \cap P) \in Int
        BY FS_Subset, SumType
    <2>4. SumFunctionOnSet(f, (T \cup {x}) \cap P)
              = (IF x \in P THEN f[x] ELSE 0) + SumFunctionOnSet(f, T \cap P)
        <3>1. CASE x \in P
            <4>1. (T \cup {x}) \cap P = (T \cap P) \cup {x} /\ x \notin T \cap P
                BY <1>2, <3>1
            <4>2. SumFunctionOnSet(f, (T \cap P) \cup {x}) = f[x] + SumFunctionOnSet(f, T \cap P)
                BY <2>3, <4>1, SumAdd
            <4> QED BY <3>1, <4>1, <4>2
        <3>2. CASE x \notin P
            <4>1. (T \cup {x}) \cap P = T \cap P
                BY <3>2
            <4>2. SumFunctionOnSet(f, (T \cup {x}) \cap P) = SumFunctionOnSet(f, T \cap P)
                BY <4>1
            <4> QED BY <2>3, <3>2, <4>2
        <3> QED BY <3>1, <3>2
    <2>5. SumFunctionOnSet(f, T \cap P) = SumFunctionOnSet(g, T)
        BY <1>2
    <2>6. g[x] = IF x \in P THEN f[x] ELSE 0
        OBVIOUS
    <2>7. SumFunctionOnSet(f, (T \cup {x}) \cap P) = SumFunctionOnSet(g, T \cup {x})
        BY <2>2, <2>4, <2>5, <2>6
    <2> QED BY <2>7
<1>3. S \in Good
    <2> HIDE DEF Good
    <2> QED BY <1>1, <1>2, SetInduction
<1>4. S \cap P = P
    OBVIOUS
<1> QED
    BY <1>3, <1>4

\* A sum with one summand that is not 0.
THEOREM SumSingle ==
    ASSUME NEW f, NEW S, IsFiniteSet(S), NEW x \in S, f[x] \in Int,
           \A y \in S \ {x} : f[y] = 0
    PROVE  SumFunctionOnSet(f, S) = f[x]
<1>1. IsFiniteSet(S \ {x})
    BY FS_Subset
<1>2. SumFunctionOnSet(f, S \ {x}) = 0
    BY <1>1, SumZero
<1>3. SumFunctionOnSet(f, S) = f[x] + SumFunctionOnSet(f, S \ {x})
    BY SumRemove
<1> QED
    BY <1>2, <1>3

\* What a function g sends to the elements of T, element by element.
Fibre(S, g, y) == {x \in S : g[x] = y}

\* A sum may be taken group by group.
THEOREM SumFibres ==
    ASSUME NEW S, IsFiniteSet(S), NEW T, IsFiniteSet(T), NEW f, NEW g,
           \A x \in S : f[x] \in Int /\ g[x] \in T
    PROVE  SumFunctionOnSet(f, S)
               = SumFunctionOnSet([y \in T |-> SumFunctionOnSet(f, Fibre(S, g, y))], T)
<1> DEFINE h(U) == [y \in T |-> SumFunctionOnSet(f, Fibre(U, g, y))]
           Good == {U \in SUBSET S : SumFunctionOnSet(f, U) = SumFunctionOnSet(h(U), T)}
<1>1. {} \in Good
    <2>1. \A y \in T : Fibre({}, g, y) = {}
        BY DEF Fibre
    <2>2. \A y \in T : h({})[y] = 0
        BY <2>1, SumEmpty
    <2>3. SumFunctionOnSet(h({}), T) = 0
        <3> HIDE DEF h
        <3> QED BY <2>2, SumZero
    <2> QED BY <2>3, SumEmpty
<1>2. ASSUME NEW U \in SUBSET S, NEW x \in S, U \in Good, x \notin U
      PROVE  U \cup {x} \in Good
    <2> DEFINE V == U \cup {x}
    <2>1. \A W \in SUBSET S : \A y \in T :
              IsFiniteSet(Fibre(W, g, y)) /\ SumFunctionOnSet(f, Fibre(W, g, y)) \in Int
        <3> SUFFICES ASSUME NEW W \in SUBSET S, NEW y \in T
                     PROVE  IsFiniteSet(Fibre(W, g, y))
                                /\ SumFunctionOnSet(f, Fibre(W, g, y)) \in Int
            OBVIOUS
        <3>1. Fibre(W, g, y) \subseteq S
            BY DEF Fibre
        <3>2. IsFiniteSet(Fibre(W, g, y))
            BY <3>1, FS_Subset
        <3> QED BY <3>1, <3>2, SumType
    <2>2. \A y \in T \ {g[x]} : Fibre(V, g, y) = Fibre(U, g, y)
        BY DEF Fibre
    <2>3. /\ Fibre(V, g, g[x]) = Fibre(U, g, g[x]) \cup {x}
          /\ x \notin Fibre(U, g, g[x]) /\ Fibre(U, g, g[x]) \subseteq S
        BY <1>2 DEF Fibre
    <2>4. SumFunctionOnSet(f, Fibre(V, g, g[x])) = f[x] + SumFunctionOnSet(f, Fibre(U, g, g[x]))
        <3> DEFINE F == Fibre(U, g, g[x])
        <3>1. IsFiniteSet(F) /\ x \notin F /\ \A y \in F \cup {x} : f[y] \in Int
            BY <2>1, <2>3
        <3> HIDE DEF F
        <3>2. SumFunctionOnSet(f, F \cup {x}) = f[x] + SumFunctionOnSet(f, F)
            BY <3>1, SumAdd
        <3> QED BY <2>3, <3>2 DEF F
    <2>5. V \in SUBSET S /\ g[x] \in T
        OBVIOUS
    <2> HIDE DEF V
    <2>6. /\ \A y \in T : h(U)[y] \in Int /\ h(V)[y] \in Int
          /\ \A y \in T \ {g[x]} : h(U)[y] = h(V)[y]
          /\ h(V)[g[x]] = f[x] + h(U)[g[x]]
        BY <2>1, <2>2, <2>4, <2>5
    <2> HIDE DEF h
    <2>7. SumFunctionOnSet(h(V), T) = SumFunctionOnSet(h(U), T) - h(U)[g[x]] + h(V)[g[x]]
        BY <2>5, <2>6, SumChange
    <2>8. SumFunctionOnSet(h(U), T) \in Int /\ h(U)[g[x]] \in Int /\ f[x] \in Int
        BY <2>5, <2>6, SumType
    <2>9. SumFunctionOnSet(f, V) = f[x] + SumFunctionOnSet(f, U)
        BY <1>2, FS_Subset, SumAdd DEF V
    <2>10. SumFunctionOnSet(f, V) = SumFunctionOnSet(h(V), T)
        BY <1>2, <2>6, <2>7, <2>8, <2>9
    <2> QED BY <2>5, <2>10 DEF V
<1>3. S \in Good
    <2> HIDE DEF Good
    <2> QED BY <1>1, <1>2, SetInduction
<1> QED
    BY <1>3

-----------------------------------------------------------------------------
(* Sums of sequences put together.                                         *)

\* Of two.
THEOREM SumConcat ==
    ASSUME NEW s \in Seq(Int), NEW t \in Seq(Int)
    PROVE  SumFunction(s \o t) = SumFunction(s) + SumFunction(t)
<1> DEFINE Good == {n \in 0..Len(t) :
                       SumFunction(s \o SubSeq(t, 1, n)) = SumFunction(s) + SumFunction(SubSeq(t, 1, n))}
<1>1. 0 \in Good
    <2>1. SubSeq(t, 1, 0) = <<>> /\ s \o <<>> = s
        OBVIOUS
    <2>2. SumFunction(s \o SubSeq(t, 1, 0)) = SumFunction(s) /\ SumFunction(SubSeq(t, 1, 0)) = 0
        BY <2>1, ShortSums
    <2> QED BY <2>2, SequenceSum
<1>2. ASSUME NEW n \in 0..(Len(t) - 1), n \in Good
      PROVE  n + 1 \in Good
    <2> DEFINE u == SubSeq(t, 1, n)
               x == t[n + 1]
    <2>1. u \in Seq(Int) /\ x \in Int /\ n + 1 \in 0..Len(t) /\ s \o u \in Seq(Int)
        OBVIOUS
    <2>2. SubSeq(t, 1, n + 1) = Append(u, x)
        OBVIOUS
    <2>3. SumFunction(s \o u) = SumFunction(s) + SumFunction(u)
        BY <1>2
    <2> HIDE DEF u, x
    <2>4. s \o Append(u, x) = Append(s \o u, x)
        BY <2>1
    <2>5. /\ SumFunction(Append(s \o u, x)) = SumFunction(s \o u) + x
          /\ SumFunction(Append(u, x)) = SumFunction(u) + x
          /\ SumFunction(u) \in Int /\ SumFunction(s) \in Int
        BY <2>1, SequenceSum
    <2>6. SumFunction(s \o Append(u, x)) = SumFunction(s) + SumFunction(Append(u, x))
        BY <2>1, <2>3, <2>4, <2>5
    <2> QED BY <2>1, <2>2, <2>6
<1>3. Len(t) \in Good
    <2> HIDE DEF Good
    <2> QED BY <1>1, <1>2, UpTo
<1>4. SubSeq(t, 1, Len(t)) = t
    OBVIOUS
<1> QED
    BY <1>3, <1>4

\* What the elements of a sequence weigh.
Weights(w, s) == [k \in DOMAIN s |-> w[s[k]]]

\* The weight of a concatenation is the sum of the two weights.
LEMMA WeightsConcat ==
    ASSUME NEW U, NEW w \in [U -> Int], NEW s \in Seq(U), NEW t \in Seq(U)
    PROVE  /\ Weights(w, s) \in Seq(Int)
           /\ SumFunction(Weights(w, s)) \in Int
           /\ SumFunction(Weights(w, s \o t)) = SumFunction(Weights(w, s)) + SumFunction(Weights(w, t))
<1>1. Weights(w, s) \in Seq(Int) /\ Weights(w, t) \in Seq(Int)
    BY DEF Weights
<1>2. Weights(w, s \o t) = Weights(w, s) \o Weights(w, t)
    <2> DEFINE a == Weights(w, s \o t)
               b == Weights(w, s) \o Weights(w, t)
    <2>1. /\ a \in Seq(Int) /\ b \in Seq(Int)
          /\ Len(a) = Len(s) + Len(t) /\ Len(b) = Len(s) + Len(t)
        <3>1. s \o t \in Seq(U) /\ Len(s \o t) = Len(s) + Len(t)
            OBVIOUS
        <3> DEFINE st == s \o t
        <3> HIDE DEF st
        <3>2. st \in Seq(U)
            BY <3>1 DEF st
        <3>3. Weights(w, st) \in Seq(Int) /\ Len(Weights(w, st)) = Len(st)
            BY <3>2 DEF Weights
        <3>4. Len(Weights(w, s)) = Len(s) /\ Len(Weights(w, t)) = Len(t)
            BY DEF Weights
        <3> QED BY <1>1, <3>1, <3>3, <3>4 DEF st
    <2>2. \A k \in 1..(Len(s) + Len(t)) : a[k] = b[k]
        <3> SUFFICES ASSUME NEW k \in 1..(Len(s) + Len(t)) PROVE a[k] = b[k]
            OBVIOUS
        <3>1. CASE k <= Len(s)
            BY <1>1, <3>1 DEF Weights
        <3>2. CASE k > Len(s)
            BY <1>1, <3>2 DEF Weights
        <3>3. Len(s) \in Nat
            OBVIOUS
        <3> HIDE DEF a, b
        <3> QED BY <3>1, <3>2, <3>3
    <2> HIDE DEF a, b
    <2>3. a = b
        BY <2>1, <2>2
    <2> QED BY <2>3 DEF a, b
<1> QED
    BY <1>1, <1>2, SumConcat, SequenceSum

\* Of many.
THEOREM FlattenSum ==
    ASSUME NEW U, NEW w \in [U -> Int],
           NEW seqs, Len(seqs) \in Nat, DOMAIN seqs = 1..Len(seqs),
           \A i \in DOMAIN seqs : seqs[i] \in Seq(U)
    PROVE  SumFunction(Weights(w, FlattenSeq(seqs)))
               = SumFunctionOnSet([i \in DOMAIN seqs |-> SumFunction(Weights(w, seqs[i]))], DOMAIN seqs)
<1> DEFINE g == [i \in DOMAIN seqs |-> SumFunction(Weights(w, seqs[i]))]
<1>1. \A i \in DOMAIN g : g[i] \in Int
    BY WeightsConcat
<1>2. PICK f : /\ f[1] = seqs[1] \/ Len(seqs) = 0
               /\ \A n \in 1..(Len(seqs) - 1) : f[n + 1] = f[n] \o seqs[n + 1]
               /\ FlattenSeq(seqs) = IF Len(seqs) = 0 THEN seqs ELSE f[Len(seqs)]
    BY FlattenDefined
<1>3. CASE Len(seqs) = 0
    <2>1. FlattenSeq(seqs) = seqs /\ DOMAIN seqs = {}
        BY <1>2, <1>3
    <2>2. DOMAIN Weights(w, seqs) = {}
        BY <2>1 DEF Weights
    <2> QED BY <2>1, <2>2, SumEmpty DEF SumFunction
<1>4. CASE Len(seqs) # 0
    <2> DEFINE Good == {n \in 0..Len(seqs) :
                           n = 0 \/ (/\ f[n] \in Seq(U)
                                     /\ SumFunction(Weights(w, f[n])) = SumFunctionOnSet(g, 1..n))}
    <2> HIDE DEF g
    <2>1. 0 \in Good
        OBVIOUS
    <2>2. ASSUME NEW n \in 0..(Len(seqs) - 1), n \in Good
          PROVE  n + 1 \in Good
        <3>1. n + 1 \in DOMAIN seqs /\ seqs[n + 1] \in Seq(U) /\ DOMAIN g = DOMAIN seqs
            BY DEF g
        <3>2. SumFunctionOnSet(g, 1..(n + 1)) = SumFunctionOnSet(g, 1..n) + g[n + 1]
            <4>1. n \in Nat /\ 1..n \subseteq DOMAIN g /\ n + 1 \in DOMAIN g
                BY <3>1
            <4> QED BY <1>1, <4>1, PrefixSum
        <3>3. g[n + 1] = SumFunction(Weights(w, seqs[n + 1]))
            BY <3>1 DEF g
        <3>4. CASE n = 0
            <4>1. 1..n = {}
                BY <3>4
            <4>2. SumFunctionOnSet(g, 1..n) = 0
                BY <4>1, SumEmpty
            <4>3. f[n + 1] = seqs[n + 1]
                BY <1>2, <1>4, <3>4
            <4>4. g[n + 1] \in Int
                BY <1>1, <3>1
            <4> QED BY <3>1, <3>2, <3>3, <4>2, <4>3, <4>4
        <3>5. CASE n # 0
            <4>1. /\ f[n] \in Seq(U)
                  /\ SumFunction(Weights(w, f[n])) = SumFunctionOnSet(g, 1..n)
                BY <2>2, <3>5
            <4>2. f[n + 1] = f[n] \o seqs[n + 1]
                <5>1. n \in 1..(Len(seqs) - 1)
                    BY <3>5
                <5> QED BY <1>2, <5>1
            <4> DEFINE s == f[n]
                       t == seqs[n + 1]
            <4> HIDE DEF s, t
            <4>3. s \in Seq(U) /\ t \in Seq(U) /\ f[n + 1] = s \o t
                BY <3>1, <4>1, <4>2 DEF s, t
            <4>4. s \o t \in Seq(U)
                BY <4>3
            <4>5. SumFunction(Weights(w, s \o t)) = SumFunction(Weights(w, s)) + SumFunction(Weights(w, t))
                BY <4>3, WeightsConcat
            <4>6. SumFunction(Weights(w, f[n + 1])) = SumFunctionOnSet(g, 1..n) + g[n + 1]
                BY <3>3, <4>1, <4>3, <4>5 DEF s, t
            <4>7. /\ f[n + 1] \in Seq(U) /\ n + 1 \in 0..Len(seqs)
                  /\ SumFunction(Weights(w, f[n + 1])) = SumFunctionOnSet(g, 1..(n + 1))
                BY <3>2, <4>3, <4>4, <4>6
            <4> QED BY <4>7
        <3> QED BY <3>4, <3>5
    <2>3. Len(seqs) \in Good
        <3> HIDE DEF Good
        <3> QED BY <2>1, <2>2, UpTo
    <2>4. SumFunction(Weights(w, f[Len(seqs)])) = SumFunctionOnSet(g, 1..Len(seqs))
        BY <1>4, <2>3
    <2> QED BY <1>2, <1>4, <2>4 DEF g
<1> QED
    BY <1>3, <1>4

\* The values of a function on a finite set are finitely many.
LEMMA ImageIsFinite ==
    ASSUME NEW S, IsFiniteSet(S), NEW f, NEW I, \A y \in I : \E x \in S : y = f[x]
    PROVE  IsFiniteSet(I)
<1> DEFINE Im(T) == {y \in I : \E x \in T : y = f[x]}
           Good == {T \in SUBSET S : IsFiniteSet(Im(T))}
<1>1. {} \in Good
    <2>1. Im({}) = {}
        OBVIOUS
    <2> QED BY <2>1, FS_EmptySet
<1>2. ASSUME NEW T \in SUBSET S, NEW x \in S, T \in Good, x \notin T
      PROVE  T \cup {x} \in Good
    <2>1. Im(T \cup {x}) \subseteq Im(T) \cup {f[x]}
        OBVIOUS
    <2>2. IsFiniteSet(Im(T))
        BY <1>2
    <2> HIDE DEF Im
    <2>3. IsFiniteSet(Im(T) \cup {f[x]})
        BY <2>2, FS_AddElement
    <2>4. IsFiniteSet(Im(T \cup {x}))
        BY <2>1, <2>3, FS_Subset
    <2> QED BY <2>4
<1>3. S \in Good
    <2> HIDE DEF Good
    <2> QED BY <1>1, <1>2, SetInduction
<1>4. Im(S) = I
    OBVIOUS
<1> QED
    BY <1>3, <1>4

\* What a concatenation consists of.
LEMMA ConcatFacts ==
    ASSUME NEW U, NEW s \in Seq(U), NEW t \in Seq(U)
    PROVE  /\ s \o t \in Seq(U) /\ Len(s \o t) = Len(s) + Len(t)
           /\ \A j \in 1..Len(s) : (s \o t)[j] = s[j]
           /\ \A j \in 1..Len(t) : (s \o t)[Len(s) + j] = t[j]
OBVIOUS

\* A sequence of n pairs, and the sequence in which they come one after the
\* other.
AreSeqsOf(U, n, a, b) == n \in Nat /\ n # 0 /\ a \in [1..n -> U] /\ b \in [1..n -> U]
Paired(seqs, n, a, b) ==
    /\ DOMAIN seqs = 1..n /\ Len(seqs) = n
    /\ \A i \in 1..n : seqs[i] = <<a[i], b[i]>>
TakeTurns(flat, U, n, a, b) ==
    /\ flat \in Seq(U) /\ Len(flat) = 2 * n
    /\ \A i \in 1..n : flat[2 * i - 1] = a[i] /\ flat[2 * i] = b[i]
    /\ \A k \in DOMAIN flat : \E i \in 1..n : k = 2 * i - 1 \/ k = 2 * i

\* Flattening pairs lets their halves take turns.
THEOREM FlattenedPairs ==
    ASSUME NEW U, NEW n, NEW a, NEW b, AreSeqsOf(U, n, a, b), NEW seqs, Paired(seqs, n, a, b)
    PROVE  TakeTurns(FlattenSeq(seqs), U, n, a, b)
<1>0. /\ n \in Nat /\ n # 0 /\ a \in [1..n -> U] /\ b \in [1..n -> U]
      /\ DOMAIN seqs = 1..n /\ Len(seqs) = n
      /\ \A i \in 1..n : seqs[i] = <<a[i], b[i]>>
    BY DEF AreSeqsOf, Paired
<1> USE <1>0
<1> DEFINE Pair(i) == <<a[i], b[i]>>
           Is(s, m) == /\ s \in Seq(U) /\ Len(s) = 2 * m
                       /\ \A i \in 1..m : s[2 * i - 1] = a[i] /\ s[2 * i] = b[i]
<1>1. \A i \in 1..n : seqs[i] = Pair(i) /\ Pair(i) \in Seq(U) /\ Len(Pair(i)) = 2
                        /\ Pair(i)[1] = a[i] /\ Pair(i)[2] = b[i]
    OBVIOUS
<1>3. PICK f : /\ f[1] = seqs[1] \/ Len(seqs) = 0
               /\ \A m \in 1..(Len(seqs) - 1) : f[m + 1] = f[m] \o seqs[m + 1]
               /\ FlattenSeq(seqs) = IF Len(seqs) = 0 THEN seqs ELSE f[Len(seqs)]
    BY FlattenDefined
<1> HIDE DEF Pair
<1>2. \A i \in DOMAIN seqs : seqs[i] \in Seq(U)
    BY <1>1
<1>4. Is(f[1], 1)
    <2>1. f[1] = Pair(1) /\ 1 \in 1..n
        BY <1>1, <1>2, <1>3
    <2> QED BY <1>1, <2>1
<1>5. ASSUME NEW m \in 1..(n - 1), Is(f[m], m)
      PROVE  Is(f[m + 1], m + 1)
    <2> DEFINE s == f[m]
               p == Pair(m + 1)
    <2>1. f[m + 1] = s \o p /\ m + 1 \in 1..n
        <3>1. m + 1 \in 1..n /\ m \in 1..(Len(seqs) - 1)
            BY <1>2
        <3>2. f[m + 1] = f[m] \o seqs[m + 1]
            BY <1>3, <3>1
        <3> QED BY <1>1, <3>1, <3>2
    <2>2. p \in Seq(U) /\ Len(p) = 2 /\ p[1] = a[m + 1] /\ p[2] = b[m + 1]
        BY <1>1, <2>1
    <2>3. s \in Seq(U) /\ Len(s) = 2 * m /\ \A i \in 1..m : s[2 * i - 1] = a[i] /\ s[2 * i] = b[i]
        BY <1>5
    <2> HIDE DEF s, p
    <2>c. s \in Seq(U) /\ p \in Seq(U)
        BY <2>2, <2>3
    <2>4. s \o p \in Seq(U) /\ Len(s \o p) = 2 * (m + 1)
        <3>1. s \o p \in Seq(U) /\ Len(s \o p) = Len(s) + Len(p)
            BY <2>c, ConcatFacts
        <3> QED BY <2>2, <2>3, <3>1
    <2>5. ASSUME NEW i \in 1..(m + 1)
          PROVE  (s \o p)[2 * i - 1] = a[i] /\ (s \o p)[2 * i] = b[i]
        <3>1. CASE i = m + 1
            <4>1. 2 * i - 1 = Len(s) + 1 /\ 2 * i = Len(s) + 2
                BY <2>3, <3>1
            <4>2. (s \o p)[Len(s) + 1] = p[1] /\ (s \o p)[Len(s) + 2] = p[2]
                <5>1. \A j \in 1..Len(p) : (s \o p)[Len(s) + j] = p[j]
                    BY <2>c, ConcatFacts
                <5>2. 1 \in 1..Len(p) /\ 2 \in 1..Len(p)
                    BY <2>2
                <5> QED BY <5>1, <5>2
            <4> QED BY <2>2, <3>1, <4>1, <4>2
        <3>2. CASE i # m + 1
            <4>1. i \in 1..m /\ 2 * i - 1 \in 1..Len(s) /\ 2 * i \in 1..Len(s)
                BY <2>3, <3>2
            <4>2. (s \o p)[2 * i - 1] = s[2 * i - 1] /\ (s \o p)[2 * i] = s[2 * i]
                BY <2>2, <2>3, <4>1
            <4> QED BY <2>3, <4>1, <4>2
        <3> QED BY <3>1, <3>2
    <2> QED BY <2>1, <2>4, <2>5
<1> HIDE DEF Is
<1>6. Is(f[n], n)
    <2> DEFINE Good == {m \in 0..n : m = 0 \/ Is(f[m], m)}
    <2>1. 0 \in Good
        OBVIOUS
    <2>2. ASSUME NEW m \in 0..(n - 1), m \in Good
          PROVE  m + 1 \in Good
        <3>1. CASE m = 0
            BY <1>4, <3>1
        <3>2. CASE m # 0
            BY <1>5, <2>2, <3>2
        <3> QED BY <3>1, <3>2
    <2> HIDE DEF Good
    <2>3. n \in Good
        BY <2>1, <2>2, UpTo
    <2> QED BY <2>3 DEF Good
<1>7. FlattenSeq(seqs) = f[n]
    BY <1>2, <1>3
<1>8. \A k \in 1..(2 * n) : \E i \in 1..n : k = 2 * i - 1 \/ k = 2 * i
    <2> SUFFICES ASSUME NEW k \in 1..(2 * n) PROVE \E i \in 1..n : k = 2 * i - 1 \/ k = 2 * i
        OBVIOUS
    <2>1. (k + 1) \div 2 \in 1..n /\ (k = 2 * ((k + 1) \div 2) - 1 \/ k = 2 * ((k + 1) \div 2))
        OBVIOUS
    <2> QED BY <2>1
<1> DEFINE flat == f[n]
<1>9. flat \in Seq(U) /\ Len(flat) = 2 * n
          /\ \A i \in 1..n : flat[2 * i - 1] = a[i] /\ flat[2 * i] = b[i]
    BY <1>6 DEF Is
<1> HIDE DEF flat
<1>10. DOMAIN flat = 1..(2 * n)
    BY <1>9
<1>11. FlattenSeq(seqs) = flat
    BY <1>7 DEF flat
<1> QED
    BY <1>8, <1>9, <1>10, <1>11 DEF TakeTurns
=============================================================================
