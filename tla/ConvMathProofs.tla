---------------------------- MODULE ConvMathProofs ----------------------------
(***************************************************************************)
(* Facts about ConvMath for operands of any size: the power of two that a  *)
(* length is rounded up to, and sums in which at most one term counts,     *)
(* which is what the convolutions of impulses consist of.                  *)
(***************************************************************************)
EXTENDS ConvMath, FiniteSetTheorems, WellFoundedInduction, TLAPS

\* NextPow2 finds its power of two for every length up to the largest one.
LEMMA NextPow2Is ==
  ASSUME NEW v \in Nat, 1 <= v, v <= 131072
  PROVE  /\ NextPow2(v) \in PowersOfTwo
         /\ v <= NextPow2(v)
         /\ NextPow2(v) = 1 \/ NextPow2(v) \div 2 < v
  <1> DEFINE Rounds(p) == v <= p /\ (p = 1 \/ p \div 2 < v)
  <1>1. \E p \in PowersOfTwo : Rounds(p)
    BY DEF PowersOfTwo
  <1>2. NextPow2(v) = CHOOSE p \in PowersOfTwo : Rounds(p)
    BY DEF NextPow2
  <1> HIDE DEF Rounds
  <1>3. (CHOOSE p \in PowersOfTwo : Rounds(p)) \in {p \in PowersOfTwo : Rounds(p)}
    BY <1>1
  <1>4. NextPow2(v) \in PowersOfTwo /\ Rounds(NextPow2(v))
    BY <1>2, <1>3
  <1> QED
    BY <1>4 DEF Rounds

\* Powers of two are positive, those above 1 are even, those above 2 are
\* multiples of 4, and between one and the next there is a factor of 2.
LEMMA PowerFacts ==
  /\ \A p \in PowersOfTwo : p \in Nat /\ 1 <= p /\ p <= 131072
  /\ \A p \in PowersOfTwo : p # 1 => p = 2 * (p \div 2) /\ p \div 2 \in PowersOfTwo
  /\ \A p \in PowersOfTwo : p >= 4 => p = 4 * (p \div 4)
  /\ \A p, q \in PowersOfTwo : p < q => 2 * p <= q
  BY DEF PowersOfTwo

-----------------------------------------------------------------------------
\* A set of naturals has a least element: the form of induction used here.
LEMMA LeastNatural ==
  ASSUME NEW T, T \subseteq Nat, T # {}
  PROVE  \E n \in T : \A k \in T : n <= k
  <1> DEFINE R == {ss \in Nat \X Nat : ss[1] < ss[2]}
  <1>1. IsWellFoundedOn(R, Nat)
    BY NatLessThanWellFounded DEF OpToRel
  <1> HIDE DEF R
  <1>2. PICK n \in T : \A k \in T : ~(<<k, n>> \in R)
    BY <1>1, WFMin
  <1>3. \A k \in Nat : k < n => <<k, n>> \in R
    BY DEF R
  <1>4. ASSUME NEW k \in T PROVE n <= k
    <2>1. ~(k < n)
      BY <1>2, <1>3
    <2> QED
      BY <2>1
  <1> QED
    BY <1>4

\* g is a solution of the recursion behind Total(S, f).
SolvesSum(S, f, g) ==
    g = [s \in SUBSET S |->
           IF s = {} THEN 0
           ELSE LET x == CHOOSE y \in s : TRUE IN f[x] + g[s \ {x}]]

\* The recursion behind Total has a solution on every finite set: solutions
\* on the subsets of at most n elements extend to those of n + 1.
LEMMA SumExists ==
  ASSUME NEW S, IsFiniteSet(S), NEW f
  PROVE  \E g : SolvesSum(S, f, g)
  <1> DEFINE Pick(s) == CHOOSE y \in s : TRUE
             Term(g, s) == IF s = {} THEN 0 ELSE f[Pick(s)] + g[s \ {Pick(s)}]
             Small(n) == {s \in SUBSET S : Cardinality(s) <= n}
             Good(n) == \E g : g = [s \in Small(n) |-> Term(g, s)]
             Bad == {n \in Nat : ~Good(n)}
  <1>1. \A s \in SUBSET S : IsFiniteSet(s) /\ Cardinality(s) \in Nat
    BY FS_Subset, FS_CardinalityType
  <1>2. \A s \in SUBSET S : s # {} => /\ Pick(s) \in s /\ s \ {Pick(s)} \in SUBSET S
                                      /\ Cardinality(s \ {Pick(s)}) = Cardinality(s) - 1
    BY <1>1, FS_RemoveElement
  <1>3. Good(0)
    <2>1. \A s \in Small(0) : s = {}
      BY <1>1, FS_EmptySet
    <2>2. [s \in Small(0) |-> 0] = [s \in Small(0) |-> Term([t \in Small(0) |-> 0], s)]
      BY <2>1
    <2> QED
      BY <2>2
  <1>4. ASSUME NEW n \in Nat, Good(n) PROVE Good(n + 1)
    <2>1. PICK g : g = [s \in Small(n) |-> Term(g, s)]
      BY <1>4
    <2> DEFINE g2 == [s \in Small(n + 1) |-> Term(g, s)]
    <2>2. ASSUME NEW s \in Small(n + 1) PROVE Term(g, s) = Term(g2, s)
      <3>1. CASE s = {}
        BY <3>1
      <3>2. CASE s # {}
        <4>1. s \ {Pick(s)} \in Small(n) /\ s \ {Pick(s)} \in Small(n + 1)
          BY <1>1, <1>2, <3>2
        <4>2. g2[s \ {Pick(s)}] = g[s \ {Pick(s)}]
          BY <2>1, <4>1
        <4> QED
          BY <3>2, <4>2
      <3> QED
        BY <3>1, <3>2
    <2>3. g2 = [s \in Small(n + 1) |-> Term(g2, s)]
      BY <2>2
    <2> QED
      BY <2>3
  <1> HIDE DEF Good
  <1>5. Bad = {}
    <2> SUFFICES ASSUME Bad # {} PROVE FALSE
      OBVIOUS
    <2>1. PICK n \in Bad : \A k \in Bad : n <= k
      BY LeastNatural
    <2>2. n # 0
      BY <1>3
    <2>3. n - 1 \in Nat /\ n - 1 \notin Bad
      BY <2>1, <2>2
    <2>4. Good(n - 1)
      BY <2>3
    <2>5. Good(n - 1 + 1)
      BY <1>4, <2>3, <2>4
    <2> QED
      BY <2>1, <2>5
  <1>6. Good(Cardinality(S))
    BY <1>1, <1>5
  <1>7. Small(Cardinality(S)) = SUBSET S
    BY <1>1, FS_Subset
  <1>8. PICK g : g = [s \in Small(Cardinality(S)) |-> Term(g, s)]
    BY <1>6 DEF Good
  <1>9. SolvesSum(S, f, g)
    BY <1>7, <1>8 DEF SolvesSum
  <1> QED
    BY <1>9

\* Total sums the terms one by one, in some order.
LEMMA TotalUnfolds ==
  ASSUME NEW S, IsFiniteSet(S), NEW f
  PROVE  \E g : /\ g[{}] = 0
                /\ \A s \in SUBSET S : s # {} => \E x \in s : g[s] = f[x] + g[s \ {x}]
                /\ Total(S, f) = g[S]
  <1> DEFINE g0 == CHOOSE g : SolvesSum(S, f, g)
  <1>1. SolvesSum(S, f, g0)
    BY SumExists
  <1>2. Total(S, f) = g0[S]
    BY DEF Total, FoldFunctionOnSet, MapThenFoldSet, SolvesSum
  <1> HIDE DEF g0
  <1>3. g0[{}] = 0 /\ \A s \in SUBSET S : s # {} => \E x \in s : g0[s] = f[x] + g0[s \ {x}]
    BY <1>1 DEF SolvesSum
  <1> QED
    BY <1>2, <1>3

\* A sum with at most one term that is not zero is that term: by the least
\* number of summands for which it is not.
LEMMA TotalOfOne ==
  ASSUME NEW S, IsFiniteSet(S), NEW f, NEW c,
         \A i \in S : i # c => f[i] = 0,
         c \in S => f[c] \in Int
  PROVE  Total(S, f) = IF c \in S THEN f[c] ELSE 0
  <1>1. PICK g : /\ g[{}] = 0
                 /\ \A s \in SUBSET S : s # {} => \E x \in s : g[s] = f[x] + g[s \ {x}]
                 /\ Total(S, f) = g[S]
    BY TotalUnfolds
  <1> DEFINE Right(s) == g[s] = IF c \in s THEN f[c] ELSE 0
             Bad == {n \in Nat : \E s \in SUBSET S : Cardinality(s) = n /\ ~Right(s)}
  <1>2. Bad = {}
    <2> SUFFICES ASSUME Bad # {} PROVE FALSE
      OBVIOUS
    <2>1. PICK n \in Bad : \A k \in Bad : n <= k
      BY LeastNatural
    <2>2. PICK s \in SUBSET S : Cardinality(s) = n /\ ~Right(s)
      BY <2>1
    <2>3. s # {}
      BY <1>1, <2>2
    <2>4. PICK x \in s : g[s] = f[x] + g[s \ {x}]
      BY <1>1, <2>3
    <2>5. IsFiniteSet(s) /\ Cardinality(s \ {x}) = Cardinality(s) - 1
      BY FS_Subset, FS_RemoveElement
    <2>6. Cardinality(s \ {x}) \in Nat /\ s \ {x} \in SUBSET S
      BY <2>5, FS_Subset, FS_CardinalityType
    <2>7. Right(s \ {x})
      <3>1. Cardinality(s \ {x}) = n - 1 /\ n \in Nat /\ \A k \in Bad : n <= k
        BY <2>1, <2>2, <2>5
      <3>2. n - 1 \notin Bad
        <4> HIDE DEF Bad
        <4> QED
          BY <3>1
      <3> QED
        BY <2>6, <3>1, <3>2
    <2>8. CASE x = c
      BY <2>2, <2>4, <2>7, <2>8
    <2>9. CASE x # c
      <3>1. f[x] = 0 /\ (c \in s <=> c \in s \ {x}) /\ (c \in s => c \in S)
        BY <2>9
      <3> QED
        BY <2>2, <2>4, <2>7, <3>1
    <2> QED
      BY <2>8, <2>9
  <1>3. Right(S)
    BY <1>2, FS_CardinalityType
  <1> QED
    BY <1>1, <1>3

\* A sum of zeros is zero.
LEMMA TotalOfZeros ==
  ASSUME NEW S, IsFiniteSet(S), NEW f, \A i \in S : f[i] = 0
  PROVE  Total(S, f) = 0
  <1>1. CASE S = {}
    BY <1>1, TotalUnfolds
  <1>2. CASE S # {}
    <2>1. PICK c \in S : f[c] = 0
      BY <1>2
    <2> QED
      BY <2>1, TotalOfOne
  <1> QED
    BY <1>1, <1>2
-----------------------------------------------------------------------------
\* The element a fold takes first.
Pick(s) == CHOOSE y \in s : TRUE

\* g is a solution of the recursion behind Product(S, f).
SolvesProduct(S, f, g) ==
    g = [s \in SUBSET S |-> IF s = {} THEN 1 ELSE f[Pick(s)] * g[s \ {Pick(s)}]]

\* As for sums, the recursion behind Product has a solution on every finite set.
LEMMA ProductExists ==
  ASSUME NEW S, IsFiniteSet(S), NEW f
  PROVE  \E g : SolvesProduct(S, f, g)
  <1> DEFINE Term(g, s) == IF s = {} THEN 1 ELSE f[Pick(s)] * g[s \ {Pick(s)}]
             Small(n) == {s \in SUBSET S : Cardinality(s) <= n}
             Good(n) == \E g : g = [s \in Small(n) |-> Term(g, s)]
             Bad == {n \in Nat : ~Good(n)}
  <1>1. \A s \in SUBSET S : IsFiniteSet(s) /\ Cardinality(s) \in Nat
    BY FS_Subset, FS_CardinalityType
  <1>2. \A s \in SUBSET S : s # {} => /\ Pick(s) \in s /\ s \ {Pick(s)} \in SUBSET S
                                      /\ Cardinality(s \ {Pick(s)}) = Cardinality(s) - 1
    BY <1>1, FS_RemoveElement DEF Pick
  <1>3. Good(0)
    <2>1. \A s \in Small(0) : s = {}
      BY <1>1, FS_EmptySet
    <2>2. [s \in Small(0) |-> 1] = [s \in Small(0) |-> Term([t \in Small(0) |-> 1], s)]
      BY <2>1
    <2> QED
      BY <2>2
  <1>4. ASSUME NEW n \in Nat, Good(n) PROVE Good(n + 1)
    <2>1. PICK g : g = [s \in Small(n) |-> Term(g, s)]
      BY <1>4
    <2> DEFINE g2 == [s \in Small(n + 1) |-> Term(g, s)]
    <2>2. ASSUME NEW s \in Small(n + 1) PROVE Term(g, s) = Term(g2, s)
      <3>1. CASE s = {}
        BY <3>1
      <3>2. CASE s # {}
        <4>1. s \ {Pick(s)} \in Small(n) /\ s \ {Pick(s)} \in Small(n + 1)
          BY <1>1, <1>2, <3>2
        <4>2. g2[s \ {Pick(s)}] = g[s \ {Pick(s)}]
          BY <2>1, <4>1
        <4> QED
          BY <3>2, <4>2
      <3> QED
        BY <3>1, <3>2
    <2>3. g2 = [s \in Small(n + 1) |-> Term(g2, s)]
      BY <2>2
    <2> QED
      BY <2>3
  <1> HIDE DEF Good
  <1>5. Bad = {}
    <2> SUFFICES ASSUME Bad # {} PROVE FALSE
      OBVIOUS
    <2>1. PICK n \in Bad : \A k \in Bad : n <= k
      BY LeastNatural
    <2>2. n # 0
      BY <1>3
    <2>3. n - 1 \in Nat /\ n - 1 \notin Bad
      BY <2>1, <2>2
    <2>4. Good(n - 1)
      BY <2>3
    <2>5. Good(n - 1 + 1)
      BY <1>4, <2>3, <2>4
    <2> QED
      BY <2>1, <2>5
  <1>6. Good(Cardinality(S))
    BY <1>1, <1>5
  <1>7. Small(Cardinality(S)) = SUBSET S
    BY <1>1, FS_Subset
  <1>8. PICK g : g = [s \in Small(Cardinality(S)) |-> Term(g, s)]
    BY <1>6 DEF Good
  <1>9. SolvesProduct(S, f, g)
    BY <1>7, <1>8 DEF SolvesProduct
  <1> QED
    BY <1>9

\* What a solution says of the subsets of S.
MultipliesUp(S, f, g) ==
    /\ g[{}] = 1
    /\ \A s \in SUBSET S : s # {} => Pick(s) \in s /\ g[s] = f[Pick(s)] * g[s \ {Pick(s)}]

\* Product multiplies the factors one by one.
LEMMA ProductUnfolds ==
  ASSUME NEW S, IsFiniteSet(S), NEW f
  PROVE  \E g : MultipliesUp(S, f, g) /\ Product(S, f) = g[S]
  <1> DEFINE g0 == CHOOSE g : SolvesProduct(S, f, g)
  <1>1. SolvesProduct(S, f, g0)
    BY ProductExists
  <1>2. Product(S, f) = g0[S]
    BY DEF Product, Times, FoldFunctionOnSet, MapThenFoldSet, SolvesProduct, Pick
  <1> HIDE DEF g0
  <1>3. MultipliesUp(S, f, g0)
    BY <1>1 DEF SolvesProduct, MultipliesUp, Pick
  <1> QED
    BY <1>2, <1>3

\* An empty product is 1.
LEMMA ProductOfNone == ASSUME NEW f PROVE Product({}, f) = 1
  BY ProductUnfolds, FS_EmptySet DEF MultipliesUp

\* Taking an element out of a subset of a finite set.
LEMMA OneLess ==
  ASSUME NEW S, IsFiniteSet(S), NEW r \in SUBSET S, NEW v \in r
  PROVE  /\ r \ {v} \in SUBSET S /\ Cardinality(r \ {v}) \in Nat
         /\ Cardinality(r) \in Nat /\ Cardinality(r \ {v}) = Cardinality(r) - 1
  <1>1. IsFiniteSet(r) /\ IsFiniteSet(r \ {v})
    BY FS_Subset
  <1> QED
    BY <1>1, FS_RemoveElement, FS_CardinalityType

\* A product depends on its factors only, whatever the larger set a solution
\* of the recursion covers: by the least number of factors for which it would
\* not.
LEMMA ProductDetermined ==
  ASSUME NEW S, IsFiniteSet(S), NEW T, T \subseteq S, NEW f, NEW h,
         \A i \in T : f[i] = h[i],
         NEW g, MultipliesUp(S, f, g)
  PROVE  Product(T, h) = g[T]
  <1>1. IsFiniteSet(T)
    BY FS_Subset
  <1>2. PICK k : MultipliesUp(T, h, k) /\ Product(T, h) = k[T]
    BY <1>1, ProductUnfolds
  <1> DEFINE Bad == {n \in Nat : \E s \in SUBSET T : Cardinality(s) = n /\ k[s] # g[s]}
  <1>3. Bad = {}
    <2> SUFFICES ASSUME Bad # {} PROVE FALSE
      OBVIOUS
    <2>1. PICK n \in Bad : \A m \in Bad : n <= m
      BY LeastNatural
    <2>2. PICK s \in SUBSET T : Cardinality(s) = n /\ k[s] # g[s]
      BY <2>1
    <2>3. s # {}
      BY <1>2, <2>2 DEF MultipliesUp
    <2>4. /\ Pick(s) \in s /\ k[s] = h[Pick(s)] * k[s \ {Pick(s)}]
          /\ g[s] = f[Pick(s)] * g[s \ {Pick(s)}]
      BY <1>2, <2>3 DEF MultipliesUp
    <2>5. f[Pick(s)] = h[Pick(s)]
      BY <2>4
    <2>6. /\ s \ {Pick(s)} \in SUBSET T
          /\ Cardinality(s \ {Pick(s)}) = n - 1 /\ n - 1 \in Nat /\ n \in Nat
      BY <1>1, <2>2, <2>4, OneLess
    <2>7. n - 1 \notin Bad
      <3> HIDE DEF Bad
      <3> SUFFICES ASSUME n - 1 \in Bad PROVE FALSE
        OBVIOUS
      <3>1. n <= n - 1
        BY <2>1
      <3> QED
        BY <2>6, <3>1
    <2>8. k[s \ {Pick(s)}] = g[s \ {Pick(s)}]
      BY <2>6, <2>7
    <2> QED
      BY <2>2, <2>4, <2>5, <2>8
  <1>4. k[T] = g[T]
    BY <1>1, <1>3, FS_CardinalityType
  <1> QED
    BY <1>2, <1>4

\* Equal factors make equal products.
LEMMA ProductSame ==
  ASSUME NEW S, IsFiniteSet(S), NEW f, NEW h, \A i \in S : f[i] = h[i]
  PROVE  Product(S, f) = Product(S, h)
  <1>1. PICK g : MultipliesUp(S, f, g) /\ Product(S, f) = g[S]
    BY ProductUnfolds
  <1>2. Product(S, h) = g[S]
    BY <1>1, ProductDetermined
  <1> QED
    BY <1>1, <1>2

\* The order of the factors does not matter: any one of them can be taken out,
\* not only the one the fold takes first.
LEMMA ProductTimes ==
  ASSUME NEW S, IsFiniteSet(S), NEW f, \A i \in S : f[i] \in Int, NEW x \in S
  PROVE  /\ Product(S, f) = f[x] * Product(S \ {x}, f)
         /\ Product(S \ {x}, f) \in Int
         /\ Product(S, f) \in Int
  <1>1. PICK g : MultipliesUp(S, f, g) /\ Product(S, f) = g[S]
    BY ProductUnfolds
  <1>2. Product(S \ {x}, f) = g[S \ {x}]
    <2>1. S \ {x} \subseteq S
      OBVIOUS
    <2> QED
      BY <1>1, <2>1, ProductDetermined
  <1> DEFINE Right(s) == g[s] \in Int /\ \A v \in s : g[s] = f[v] * g[s \ {v}]
             Bad == {n \in Nat : \E s \in SUBSET S : Cardinality(s) = n /\ ~Right(s)}
  <1> HIDE DEF Right
  <1>3. Bad = {}
    <2> SUFFICES ASSUME Bad # {} PROVE FALSE
      OBVIOUS
    <2>1. PICK n \in Bad : \A m \in Bad : n <= m
      BY LeastNatural
    <2>2. PICK s \in SUBSET S : Cardinality(s) = n /\ ~Right(s)
      BY <2>1
    <2>3. ASSUME NEW r \in SUBSET S, Cardinality(r) \in Nat, Cardinality(r) < n
          PROVE  Right(r)
      <3> SUFFICES ASSUME ~Right(r) PROVE FALSE
        OBVIOUS
      <3>1. Cardinality(r) \in Bad
        BY <2>3
      <3>2. n <= Cardinality(r)
        <4> HIDE DEF Bad
        <4> QED
          BY <2>1, <3>1
      <3>3. n \in Nat
        OBVIOUS
      <3> QED
        BY <2>3, <3>2, <3>3
    <2>4. ASSUME s = {} PROVE FALSE
      <3>1. Right({})
        BY <1>1 DEF MultipliesUp, Right
      <3> QED
        BY <2>2, <2>4, <3>1
    <2> DEFINE p == Pick(s)
    <2>6. p \in s /\ g[s] = f[p] * g[s \ {p}] /\ f[p] \in Int
      BY <1>1, <2>4 DEF MultipliesUp
    <2> HIDE DEF p
    <2>7. Right(s \ {p})
      <3>1. /\ s \ {p} \in SUBSET S /\ Cardinality(s \ {p}) \in Nat
            /\ Cardinality(s) \in Nat /\ Cardinality(s \ {p}) = Cardinality(s) - 1
        BY <2>6, OneLess
      <3> QED
        BY <2>2, <2>3, <3>1
    <2>8. g[s] \in Int
      BY <2>6, <2>7 DEF Right
    <2>9. ASSUME NEW v \in s PROVE g[s] = f[v] * g[s \ {v}]
      <3>1. CASE v = p
        BY <2>6, <3>1
      <3>2. CASE v # p
        <4>1. v \in s \ {p} /\ p \in s \ {v} /\ (s \ {p}) \ {v} = (s \ {v}) \ {p}
          BY <2>6, <3>2
        <4>2. g[s \ {p}] = f[v] * g[(s \ {p}) \ {v}]
          BY <2>7, <4>1 DEF Right
        <4>3. /\ s \ {v} \in SUBSET S /\ Cardinality(s \ {v}) \in Nat
              /\ Cardinality(s) \in Nat /\ Cardinality(s \ {v}) = Cardinality(s) - 1
          BY OneLess
        <4>4. Right(s \ {v})
          BY <2>2, <2>3, <4>3
        <4>5. g[s \ {v}] = f[p] * g[(s \ {p}) \ {v}]
          BY <4>1, <4>4 DEF Right
        <4>6. /\ (s \ {v}) \ {p} \in SUBSET S /\ Cardinality((s \ {v}) \ {p}) \in Nat
              /\ Cardinality((s \ {v}) \ {p}) = Cardinality(s \ {v}) - 1
          BY <4>1, <4>3, OneLess
        <4>7. Right((s \ {v}) \ {p})
          BY <2>2, <2>3, <4>3, <4>6
        <4>8. g[(s \ {p}) \ {v}] \in Int /\ f[v] \in Int
          BY <4>1, <4>7 DEF Right
        <4>9. \A a, b, c \in Int : a * (b * c) = b * (a * c)
          BY SMT
        <4> QED
          BY <2>6, <4>2, <4>5, <4>8, <4>9
      <3> QED
        BY <3>1, <3>2
    <2> QED
      BY <2>2, <2>8, <2>9 DEF Right
  <1>4. \A s \in SUBSET S : Right(s)
    BY <1>3, FS_Subset, FS_CardinalityType
  <1>5. Right(S) /\ Right(S \ {x})
    BY <1>4
  <1> QED
    BY <1>1, <1>2, <1>5 DEF Right

\* No term of a sum of naturals is larger than the sum: by the least number of
\* summands for which one is.
LEMMA TotalAtLeast ==
  ASSUME NEW S, IsFiniteSet(S), NEW f, \A i \in S : f[i] \in Nat, NEW c \in S
  PROVE  Total(S, f) \in Nat /\ f[c] <= Total(S, f)
  <1>1. PICK g : /\ g[{}] = 0
                 /\ \A s \in SUBSET S : s # {} => \E x \in s : g[s] = f[x] + g[s \ {x}]
                 /\ Total(S, f) = g[S]
    BY TotalUnfolds
  <1> DEFINE Right(s) == g[s] \in Nat /\ \A i \in s : f[i] <= g[s]
             Bad == {n \in Nat : \E s \in SUBSET S : Cardinality(s) = n /\ ~Right(s)}
  <1>2. Right({})
    BY <1>1
  <1> HIDE DEF Right
  <1>3. Bad = {}
    <2> SUFFICES ASSUME Bad # {} PROVE FALSE
      OBVIOUS
    <2>1. PICK n \in Bad : \A k \in Bad : n <= k
      BY LeastNatural
    <2>2. PICK s \in SUBSET S : Cardinality(s) = n /\ ~Right(s)
      BY <2>1
    <2>3. s # {}
      BY <1>2, <2>2
    <2>4. PICK x \in s : g[s] = f[x] + g[s \ {x}]
      BY <1>1, <2>3
    <2>5. /\ s \ {x} \in SUBSET S /\ Cardinality(s \ {x}) = n - 1
          /\ n - 1 \in Nat /\ n \in Nat
      <3>1. /\ s \ {x} \in SUBSET S /\ Cardinality(s \ {x}) \in Nat
            /\ Cardinality(s) \in Nat /\ Cardinality(s \ {x}) = Cardinality(s) - 1
        BY OneLess
      <3> QED
        BY <2>2, <3>1
    <2>6. n - 1 \notin Bad
      <3> SUFFICES ASSUME n - 1 \in Bad PROVE FALSE
        OBVIOUS
      <3>1. n <= n - 1
        <4> HIDE DEF Bad
        <4> QED
          BY <2>1
      <3> QED
        BY <2>5, <3>1
    <2>7. Right(s \ {x})
      BY <2>5, <2>6
    <2>8. f[x] \in Nat /\ \A i \in s : f[i] \in Nat /\ (i = x \/ i \in s \ {x})
      OBVIOUS
    <2>9. Right(s)
      BY <2>4, <2>7, <2>8 DEF Right
    <2> QED
      BY <2>2, <2>9
  <1>4. Right(S)
    BY <1>3, FS_CardinalityType
  <1> QED
    BY <1>1, <1>4 DEF Right
-----------------------------------------------------------------------------
\* Remainders within one period of 0..n-1.
LEMMA NearRemainders ==
  ASSUME NEW n \in Nat, n > 0, NEW v \in Int
  PROVE  /\ 0 <= v /\ v < n => v % n = v
         /\ n <= v /\ v < 2 * n => v % n = v - n
         /\ -n <= v /\ v < 0 => v % n = v + n
  BY SMT

\* Rounding a quotient up.
LEMMA CeilQuotient ==
  ASSUME NEW n \in Nat, NEW p \in Nat, n >= 1, p >= 1
  PROVE  /\ (n + p - 1) \div p \in Nat
         /\ ((n + p - 1) \div p) * p >= n
         /\ ((n + p - 1) \div p - 1) * p < n
  BY SMT
-----------------------------------------------------------------------------
\* Every index set is finite.
LEMMA IdxFinite == ASSUME NEW n \in Int PROVE IsFiniteSet(Idx(n))
  BY FS_Interval DEF Idx

\* An impulse has at most one sample that counts; outside of Idx(n) it is
\* the vector of zeros.
LEMMA SupportOfImpulse ==
  ASSUME NEW n \in Int, NEW c \in Int
  PROVE  Support(Impulse(n, c)) = {c} \cap Idx(n)
  BY DEF Support, Impulse

\* Zero-padding an impulse gives the longer impulse.
LEMMA PaddedImpulse ==
  ASSUME NEW l \in Nat, NEW n \in Nat, l <= n, NEW k \in Idx(l)
  PROVE  Padded(Impulse(l, k), l, n) = Impulse(n, k)
  BY DEF Padded, Impulse, Idx

\* The linear convolution of two impulses is the impulse at the sum of their
\* positions.
LEMMA LinearOfImpulses ==
  ASSUME NEW nx \in Nat, NEW nh \in Nat, NEW a \in Idx(nx), NEW k \in Idx(nh)
  PROVE  LinearConv(Impulse(nx, a), nx, Impulse(nh, k), nh) = Impulse(nx + nh - 1, a + k)
  <1> DEFINE x == Impulse(nx, a)
             h == Impulse(nh, k)
             J(m) == {j \in Support(x) : m - j \in Idx(nh)}
             f(m) == [j \in J(m) |-> x[j] * h[m - j]]
  <1>1. a \in Int /\ k \in Int /\ Support(x) = {a}
    BY SupportOfImpulse DEF Idx
  <1>2. ASSUME NEW m \in Idx(nx + nh - 1)
        PROVE  Total(J(m), f(m)) = IF m = a + k THEN 1 ELSE 0
    <2>1. J(m) = IF m - a \in Idx(nh) THEN {a} ELSE {}
      BY <1>1
    <2>2. IsFiniteSet(J(m)) /\ \A i \in J(m) : i = a
      BY <2>1, FS_EmptySet, FS_Singleton
    <2>3. a \in J(m) => f(m)[a] = IF m = a + k THEN 1 ELSE 0
      <3> SUFFICES ASSUME a \in J(m) PROVE x[a] * h[m - a] = IF m = a + k THEN 1 ELSE 0
        OBVIOUS
      <3>1. x[a] = 1 /\ m - a \in Idx(nh)
        BY DEF Impulse
      <3>2. h[m - a] = IF m - a = k THEN 1 ELSE 0
        BY <3>1 DEF Impulse
      <3> QED
        BY <1>1, <3>1, <3>2 DEF Idx
    <2>4. m = a + k => a \in J(m)
      BY <1>1, <2>1
    <2> HIDE DEF J, f
    <2>5. a \in J(m) => f(m)[a] \in Int
      BY <2>3
    <2>6. Total(J(m), f(m)) = IF a \in J(m) THEN f(m)[a] ELSE 0
      BY <2>2, <2>5, TotalOfOne
    <2> QED
      BY <2>3, <2>4, <2>6
  <1>3. LinearConv(x, nx, h, nh) = [m \in Idx(nx + nh - 1) |-> Total(J(m), f(m))]
    BY DEF LinearConv
  <1> QED
    BY <1>2, <1>3 DEF Impulse

\* The cyclic convolution of two impulses is the impulse at the sum of their
\* positions modulo the length; of zeros it is zero.
LEMMA CyclicOfImpulses ==
  ASSUME NEW n \in Nat, n >= 1, NEW c \in Int, NEW k \in Idx(n)
  PROVE  CyclicConv(Impulse(n, c), Impulse(n, k), n) =
           [m \in Idx(n) |-> IF c \in Idx(n) /\ m = (c + k) % n THEN 1 ELSE 0]
  <1> DEFINE x == Impulse(n, c)
             h == Impulse(n, k)
             J == Support(x)
             f(m) == [j \in J |-> x[j] * h[(m - j) % n]]
  <1>1. J = {c} \cap Idx(n) /\ IsFiniteSet(J) /\ \A i \in J : i = c
    <2>1. J = {c} \cap Idx(n)
      BY SupportOfImpulse
    <2>2. IsFiniteSet({c}) /\ J \in SUBSET {c}
      BY <2>1, FS_Singleton
    <2> QED
      BY <2>1, <2>2, FS_Subset
  <1>2. ASSUME NEW m \in Idx(n)
        PROVE  Total(J, f(m)) = IF c \in Idx(n) /\ m = (c + k) % n THEN 1 ELSE 0
    <2>1. CASE c \notin Idx(n)
      <3>1. J = {}
        BY <1>1, <2>1
      <3> QED
        BY <1>1, <2>1, <3>1, TotalOfZeros
    <2>2. CASE c \in Idx(n)
      <3>1. (m - c) % n = k <=> m = (c + k) % n
        <4>1. /\ m \in Int /\ k \in Int /\ 0 <= m /\ m < n /\ 0 <= k /\ k < n
              /\ 0 <= c /\ c < n
          BY <2>2 DEF Idx
        <4>2. (m - c) % n = IF m >= c THEN m - c ELSE m - c + n
          BY <4>1, NearRemainders
        <4>3. (c + k) % n = IF c + k < n THEN c + k ELSE c + k - n
          BY <4>1, NearRemainders
        <4> QED
          BY <4>1, <4>2, <4>3
      <3>2. (m - c) % n \in Idx(n)
        <4>1. m \in Int /\ 0 <= m /\ m < n /\ 0 <= c /\ c < n
          BY <2>2 DEF Idx
        <4>2. (m - c) % n = IF m >= c THEN m - c ELSE m - c + n
          BY <4>1, NearRemainders
        <4> QED
          BY <4>1, <4>2 DEF Idx
      <3>3. x[c] = 1 /\ h[(m - c) % n] = IF (m - c) % n = k THEN 1 ELSE 0
        BY <2>2, <3>2 DEF Impulse
      <3>4. f(m)[c] = IF m = (c + k) % n THEN 1 ELSE 0
        BY <1>1, <2>2, <3>1, <3>3
      <3> HIDE DEF f, J
      <3>5. f(m)[c] \in Int /\ c \in J
        BY <1>1, <2>2, <3>4
      <3>6. Total(J, f(m)) = f(m)[c]
        BY <1>1, <3>5, TotalOfOne
      <3> QED
        BY <2>2, <3>4, <3>6
    <2> QED
      BY <2>1, <2>2
  <1>3. CyclicConv(x, h, n) = [m \in Idx(n) |-> Total(J, f(m))]
    BY DEF CyclicConv
  <1> QED
    BY <1>2, <1>3
=============================================================================
