---------------------------- MODULE Conv64Proofs ----------------------------
(***************************************************************************)
(* Every route of the fp64 cyclic convolution computes it, for every       *)
(* ceiling, length, kernel position and input position.  The first part is *)
(* about the route table: whatever length is asked for, with or without    *)
(* the original-size weld and the forced correction, the route it answers  *)
(* can be built and its welds alias no sample but those the correction     *)
(* covers.  The second shows that what the table lays out is what the      *)
(* loops of fft_execute_conv_fp64 need.  At the end, the table with the    *)
(* code's own ceiling and tap count, which MCConv64 asks.                  *)
(***************************************************************************)
EXTENDS MCConv64, ConvMathProofs

\* A family ceiling, 32768 in the code, and a bound on the direct taps, 8.
Sizes(c, taps) ==
    /\ c \in PowersOfTwo
    /\ 4 <= c /\ c <= 32768
    /\ taps \in 1..c

\* The two layouts of an aliased weld at np: corrected, with a correlation
\* that is short or fits a weld, or cut into pieces.
CorrLayout(c, taps, r, n, np) ==
    \E np2 \in PowersOfTwo :
        LET l == 2 * n - 2 - np
        IN  /\ r = Route("corr", n, np, np2, l, 0)
            /\ l \in 0..(n - 1)
            /\ 2 * l + 1 <= np2
            /\ l + 1 > taps => np2 \in 4..c

PieceLayout(c, r, n, np) ==
    /\ r = Route("ola", n, c, 0, 0, c - n + 1)
    /\ 4 * n - 3 - 2 * np > c

\* A correlation of 2L+1 samples either fits a weld or is longer than the
\* ceiling: that is where the table cuts.
LEMMA AliasedLayout ==
  ASSUME NEW c, NEW taps, Sizes(c, taps), NEW n \in 1..c, NEW np \in PowersOfTwo,
         n <= np, np <= 2 * n - 2, np <= c
  PROVE  CorrLayout(c, taps, Aliased(c, taps, n, np), n, np) \/ PieceLayout(c, Aliased(c, taps, n, np), n, np)
  <1> DEFINE l   == 2 * n - 2 - np
             np2 == NextPow2(2 * l + 1)
  <1>1. /\ np \in Nat /\ n \in Nat /\ c \in Nat /\ taps \in Nat
        /\ 1 <= n /\ n <= c /\ 4 <= c /\ c <= 32768 /\ 1 <= taps
    BY PowerFacts DEF Sizes
  <1>2. l \in 0..(n - 1) /\ 2 * l + 1 <= 131072
    BY <1>1
  <1>3. np2 \in PowersOfTwo /\ 2 * l + 1 <= np2 /\ (np2 = 1 \/ np2 \div 2 < 2 * l + 1)
    BY <1>2, NextPow2Is
  <1>4. np2 \in Nat
    BY <1>3, PowerFacts
  <1>5. CASE l + 1 <= taps \/ np2 <= c
    <2>1. Aliased(c, taps, n, np) = Route("corr", n, np, np2, l, 0)
      BY <1>5 DEF Aliased
    <2>2. l + 1 > taps => np2 \in 4..c
      <3> SUFFICES ASSUME l + 1 > taps PROVE np2 >= 4 /\ np2 <= c
        BY <1>4 DEF Sizes
      <3>1. np2 >= 3
        BY <1>1, <1>2, <1>3, <1>4
      <3>2. np2 >= 4
        BY <1>3, <3>1 DEF PowersOfTwo
      <3> QED
        BY <1>1, <1>2, <1>5, <3>2
    <2> QED
      BY <1>2, <1>3, <2>1, <2>2 DEF CorrLayout
  <1>6. CASE ~(l + 1 <= taps \/ np2 <= c)
    <2>1. Aliased(c, taps, n, np) = Route("ola", n, c, 0, 0, c - n + 1)
      BY <1>6 DEF Aliased
    <2>2. np2 > c
      BY <1>1, <1>2, <1>4, <1>6
    <2>3. np2 >= 2 * c
      BY <1>3, <2>2, PowerFacts DEF Sizes
    <2>4. c < 2 * l + 1
      BY <1>1, <1>2, <1>3, <1>4, <2>3
    <2> QED
      BY <1>1, <2>1, <2>4 DEF PieceLayout
  <1> QED
    BY <1>5, <1>6

\* Every answer of the table, by the length it is for.  A weld that is
\* aliased although the padded one would fit is always corrected.
Layout(c, taps, r, n) ==
    \/ r = Route("weld", n, n, 0, 0, 0)
    \/ r = Route("tiny", n, n, 0, 0, 0) /\ n < 4 /\ Pow2(n)
    \/ r = Route("direct", n, n, 0, 0, 0) /\ n >= 4 /\ Pow2(n)
    \/ \E np \in PowersOfTwo : /\ r = Route("pad", n, np, 0, 0, 0)
                               /\ np \in 4..c /\ 2 * n - 1 <= np
    \/ \E np \in PowersOfTwo : /\ np \in 4..c /\ n <= np
                               /\ np = c \/ 2 * n - 1 <= c
                               /\ np = c => 2 * n - 1 > c
                               /\ CorrLayout(c, taps, r, n, np)
    \/ PieceLayout(c, r, n, c) /\ 2 * n - 1 > c

LEMMA TableLayout ==
  ASSUME NEW c, NEW taps, Sizes(c, taps), NEW n \in 1..c, NEW welded \in BOOLEAN, NEW forceCorr \in BOOLEAN
  PROVE  Layout(c, taps, RouteOf(c, taps, n, welded, forceCorr), n)
  <1> DEFINE r == RouteOf(c, taps, n, welded, forceCorr)
             npLin == NextPow2(2 * n - 1)
             npN == NextPow2(n)
  <1>1. /\ c \in Nat /\ 4 <= c /\ c <= 32768
        /\ n \in Nat /\ 1 <= n /\ n <= c
    BY PowerFacts DEF Sizes
  <1>2. npLin \in PowersOfTwo /\ 2 * n - 1 <= npLin /\ (npLin = 1 \/ npLin \div 2 < 2 * n - 1)
    BY <1>1, NextPow2Is
  <1>3. npN \in PowersOfTwo /\ n <= npN /\ (npN = 1 \/ npN \div 2 < n)
    BY <1>1, NextPow2Is
  <1>4. npLin \in Nat /\ npN \in Nat
    BY <1>2, <1>3, PowerFacts
  <1>5. CASE welded
    BY <1>5 DEF RouteOf, Layout
  <1>6. CASE ~welded /\ Pow2(n)
    <2>1. CASE n >= 4
      BY <1>6, <2>1 DEF RouteOf, Layout
    <2>2. CASE n < 4
      BY <1>1, <1>6, <2>2 DEF RouteOf, Layout
    <2> QED
      BY <1>1, <2>1, <2>2
  <1>7. CASE ~welded /\ ~Pow2(n)
    <2>1. n >= 3
      BY <1>1, <1>7 DEF Pow2, PowersOfTwo
    <2>2. CASE npLin > c
      <3>1. r = Aliased(c, taps, n, c)
        BY <1>1, <1>4, <1>7, <2>2 DEF RouteOf
      <3>2. 2 * n - 1 > c
        <4>1. npLin >= 2 * c
          BY <1>2, <2>2, PowerFacts DEF Sizes
        <4>2. npLin \div 2 < 2 * n - 1
          BY <1>1, <1>2, <4>1
        <4> QED
          BY <1>1, <1>2, <1>4, <4>1, <4>2, PowerFacts
      <3>3. CorrLayout(c, taps, r, n, c) \/ PieceLayout(c, r, n, c)
        <4>1. c \in PowersOfTwo /\ n <= c /\ c <= 2 * n - 2 /\ c <= c
          BY <1>1, <3>2 DEF Sizes
        <4> QED
          BY <3>1, <4>1, AliasedLayout
      <3> QED
        BY <1>1, <3>2, <3>3 DEF Layout, Sizes
    <2>3. CASE npLin <= c /\ ~forceCorr
      <3>1. r = Route("pad", n, npLin, 0, 0, 0)
        BY <1>1, <1>4, <1>7, <2>3 DEF RouteOf
      <3>2. npLin >= 4
        BY <1>1, <1>2, <1>4, <2>1
      <3> QED
        BY <1>1, <1>2, <1>4, <2>3, <3>1, <3>2 DEF Layout
    <2>4. CASE npLin <= c /\ forceCorr
      <3>1. r = Aliased(c, taps, n, npN)
        BY <1>1, <1>4, <1>7, <2>4 DEF RouteOf
      <3>2. npN \in 4..c /\ npN <= 2 * n - 2 /\ npN < c
        <4>1. npN >= 4 /\ npN = 2 * (npN \div 2) /\ npN \div 2 \in Nat
          BY <1>1, <1>3, <1>4, <2>1, PowerFacts DEF PowersOfTwo
        <4>2. npN <= 2 * n - 2
          BY <1>1, <1>3, <4>1
        <4>3. npN < c
          BY <1>1, <1>2, <1>4, <2>4, <4>2
        <4> QED
          BY <1>1, <1>4, <4>1, <4>2, <4>3
      <3>3. CorrLayout(c, taps, r, n, npN) \/ PieceLayout(c, r, n, npN)
        BY <1>3, <3>1, <3>2, AliasedLayout
      <3>4. 2 * n - 1 <= c
        BY <1>1, <1>2, <1>4, <2>4
      <3>5. ~PieceLayout(c, r, n, npN)
        BY <1>1, <1>3, <1>4, <3>4 DEF PieceLayout
      <3> QED
        BY <1>1, <1>3, <1>4, <3>2, <3>3, <3>4, <3>5 DEF Layout
    <2> QED
      BY <1>1, <1>4, <2>2, <2>3, <2>4
  <1> QED
    BY <1>5, <1>6, <1>7
-----------------------------------------------------------------------------
\* What the layouts imply.
SoundRoute(c, taps, r) == Buildable(c, taps, r) /\ Unaliased(r) /\ Corrected(taps, r)

\* A plan has no route yet, or one the table answered.
Answered(c, taps, r) == r = NoRoute \/ \E n \in 1..c : Layout(c, taps, r, n)

\* Any route of the table is sound.
LEMMA AnsweredIsSound ==
  ASSUME NEW c, NEW taps, Sizes(c, taps), NEW r, Answered(c, taps, r)
  PROVE  SoundRoute(c, taps, r)
  <1>1. c \in Nat /\ taps \in Nat /\ 1 <= taps /\ 4 <= c /\ c <= 32768
    BY PowerFacts DEF Sizes
  <1>2. CASE r = NoRoute
    BY <1>2 DEF NoRoute, SoundRoute, Buildable, Unaliased, Corrected
  <1>3. ASSUME NEW n \in 1..c, Layout(c, taps, r, n) PROVE SoundRoute(c, taps, r)
    <2>1. CASE r = Route("weld", n, n, 0, 0, 0) \/ r = Route("tiny", n, n, 0, 0, 0)
      BY <2>1 DEF Route, SoundRoute, Buildable, Unaliased, Corrected
    <2>2. CASE r = Route("direct", n, n, 0, 0, 0) /\ n >= 4 /\ Pow2(n)
      BY <1>1, <2>2 DEF Route, SoundRoute, Buildable, Unaliased, Corrected
    <2>3. ASSUME NEW np \in PowersOfTwo, r = Route("pad", n, np, 0, 0, 0),
                 np \in 4..c, 2 * n - 1 <= np
          PROVE  SoundRoute(c, taps, r)
      BY <1>1, <2>3 DEF Route, Pow2, SoundRoute, Buildable, Unaliased, Corrected
    <2>4. ASSUME NEW np \in PowersOfTwo, np \in 4..c, n <= np, CorrLayout(c, taps, r, n, np)
          PROVE  SoundRoute(c, taps, r)
      <3>1. PICK np2 \in PowersOfTwo :
              /\ r = Route("corr", n, np, np2, 2 * n - 2 - np, 0)
              /\ 2 * n - 2 - np \in 0..(n - 1)
              /\ 2 * (2 * n - 2 - np) + 1 <= np2
              /\ (2 * n - 2 - np) + 1 > taps => np2 \in 4..c
        BY <2>4 DEF CorrLayout
      <3> QED
        BY <1>1, <2>4, <3>1
           DEF Route, Pow2, SoundRoute, Buildable, Unaliased, Corrected
    <2>5. CASE PieceLayout(c, r, n, c)
      <3> DEFINE p == c - n + 1
                 q == (n + p - 1) \div p
      <3>1. p \in Nat /\ p >= 1 /\ n \in Nat /\ n >= 1
        BY <1>1
      <3>2. q \in Nat /\ q * p >= n /\ (q - 1) * p < n
        BY <3>1, CeilQuotient
      <3>3. /\ r.mode = "ola" /\ r.n = n /\ r.np = c /\ r.p = p /\ r.pieces = q
        BY <2>5, <3>1 DEF PieceLayout, Route
      <3> HIDE DEF q
      <3>4. Unaliased(r)
        BY <1>1, <3>1, <3>2, <3>3 DEF Unaliased
      <3>5. Buildable(c, taps, r) /\ Corrected(taps, r)
        BY <1>1, <3>3 DEF Buildable, Corrected, Pow2, Sizes
      <3> QED
        BY <3>4, <3>5 DEF SoundRoute
    <2> QED
      BY <1>3, <2>1, <2>2, <2>3, <2>4, <2>5 DEF Layout
  <1> QED
    BY <1>2, <1>3 DEF Answered

\* The ranges of the routes are the documented ones where the direct taps are
\* at most half the ceiling, as 8 and 32768 are.
LEMMA AnsweredAsDocumented ==
  ASSUME NEW c, NEW taps, Sizes(c, taps), NEW r, 2 * taps + 2 <= c, Answered(c, taps, r)
  PROVE  AsDocumented(c, r)
  <1>1. /\ c \in Nat /\ taps \in Nat /\ 1 <= taps /\ 4 <= c
        /\ c = 4 * (c \div 4) /\ c \div 4 \in Nat
    BY PowerFacts DEF Sizes
  <1>2. CASE r = NoRoute
    BY <1>2 DEF NoRoute, AsDocumented
  <1>3. ASSUME NEW n \in 1..c, Layout(c, taps, r, n) PROVE AsDocumented(c, r)
    <2>1. CASE r.mode \notin {"corr", "ola"}
      BY <2>1 DEF AsDocumented
    <2>2. ASSUME NEW np \in PowersOfTwo, np \in 4..c,
                 np = c => 2 * n - 1 > c, CorrLayout(c, taps, r, n, np)
          PROVE  AsDocumented(c, r)
      <3>1. PICK np2 \in PowersOfTwo :
              /\ r = Route("corr", n, np, np2, 2 * n - 2 - np, 0)
              /\ 2 * (2 * n - 2 - np) + 1 <= np2
              /\ (2 * n - 2 - np) + 1 > taps => np2 \in 4..c
        BY <2>2 DEF CorrLayout
      <3>2. r.mode = "corr" /\ r.np = np /\ r.n = n
        BY <3>1 DEF Route
      <3>3. ASSUME np = c PROVE 4 * n <= 3 * c
        <4>1. CASE (2 * n - 2 - np) + 1 > taps
          <5>1. 4 * n <= 3 * c + 3
            BY <1>1, <3>1, <3>3, <4>1, PowerFacts
          <5> QED
            BY <1>1, <5>1
        <4>2. CASE ~((2 * n - 2 - np) + 1 > taps)
          BY <1>1, <3>3, <4>2
        <4> QED
          BY <4>1, <4>2
      <3> QED
        BY <2>2, <3>2, <3>3 DEF AsDocumented
    <2>3. CASE PieceLayout(c, r, n, c)
      BY <1>1, <2>3 DEF PieceLayout, Route, AsDocumented
    <2> QED
      BY <1>3, <2>1, <2>2, <2>3 DEF Layout, Route
  <1> QED
    BY <1>2, <1>3 DEF Answered

\* The table answers with one of its layouts.
LEMMA TableAnswers ==
  ASSUME NEW c, NEW taps, Sizes(c, taps), NEW n \in 1..c, NEW r, Answers(c, taps, n, r)
  PROVE  Layout(c, taps, r, n)
  BY TableLayout DEF Answers

\* For every ceiling and number of direct taps: the welds of every route can be
\* built, a padded or cut route never aliases, and a corrected one aliases what
\* it corrects.
THEOREM RoutesAreSound ==
  ASSUME NEW c, NEW taps, Sizes(c, taps), NEW n \in 1..c, NEW r, Answers(c, taps, n, r)
  PROVE  Buildable(c, taps, r) /\ Unaliased(r) /\ Corrected(taps, r)
  BY TableAnswers, AnsweredIsSound DEF Answered, SoundRoute

\* For every ceiling: the correction is taken for lengths up to three quarters
\* of it, and pieces above that.
THEOREM RoutesAsDocumented ==
  ASSUME NEW c, NEW taps, Sizes(c, taps), 2 * taps + 2 <= c,
         NEW n \in 1..c, NEW r, Answers(c, taps, n, r)
  PROVE  AsDocumented(c, r)
  BY TableAnswers, AnsweredAsDocumented DEF Answered
-----------------------------------------------------------------------------
\* The ceiling and the direct taps are sizes the route theorems are about.
LEMMA SizesHold == Sizes(Ceiling, TinyTaps)
  BY CeilingAssumption, TinyAssumption DEF Sizes

\* So a new plan is laid out as its execute relies on.
LEMMA CreateLays ==
  ASSUME NEW n \in 1..Ceiling, Answers(Ceiling, TinyTaps, n, route')
  PROVE  Laid' /\ N' = n
  <1>1. Layout(Ceiling, TinyTaps, route', n)
    BY SizesHold, TableAnswers
  <1>2. Ceiling \in Nat /\ 4 <= Ceiling /\ n \in Nat /\ 1 <= n /\ n <= Ceiling
    BY CeilingAssumption, PowerFacts
  <1> DEFINE r == route'
  <1>3. CASE r = Route("weld", n, n, 0, 0, 0) \/ r = Route("direct", n, n, 0, 0, 0)
    BY <1>2, <1>3 DEF Route, Laid, N
  <1>4. CASE r = Route("tiny", n, n, 0, 0, 0) /\ n < 4 /\ Pow2(n)
    <2>1. n \in {1, 2}
      BY <1>2, <1>4 DEF Pow2, PowersOfTwo
    <2> QED
      BY <1>2, <1>4, <2>1 DEF Route, Laid, N
  <1>5. ASSUME NEW np \in PowersOfTwo, r = Route("pad", n, np, 0, 0, 0),
               np \in 4..Ceiling, 2 * n - 1 <= np
        PROVE  Laid' /\ N' = n
    <2>1. np \in Nat /\ np = 2 * (np \div 2) /\ np \div 2 \in Nat
      <3>1. np \in PowersOfTwo /\ np # 1 /\ np \in Nat
        BY <1>2, <1>5 DEF PowersOfTwo
      <3> QED
        BY <3>1, PowerFacts
    <2>2. 2 * n <= np
      BY <1>2, <1>5, <2>1
    <2> QED
      BY <1>2, <1>5, <2>1, <2>2 DEF Route, Laid, N, Np
  <1>6. ASSUME NEW np \in PowersOfTwo, np \in 4..Ceiling, n <= np,
               CorrLayout(Ceiling, TinyTaps, r, n, np)
        PROVE  Laid' /\ N' = n
    <2>1. PICK np2 \in PowersOfTwo :
            /\ r = Route("corr", n, np, np2, 2 * n - 2 - np, 0)
            /\ 2 * n - 2 - np \in 0..(n - 1)
            /\ 2 * (2 * n - 2 - np) + 1 <= np2
            /\ (2 * n - 2 - np) + 1 > TinyTaps => np2 \in 4..Ceiling
      BY <1>6 DEF CorrLayout
    <2>2. TinyTaps \in Nat /\ np2 \in Nat
      BY <1>2, TinyAssumption DEF PowersOfTwo
    <2> QED
      BY <1>2, <1>6, <2>1, <2>2 DEF Route, Laid, N, Np, L, TinyTail
  <1>7. CASE PieceLayout(Ceiling, r, n, Ceiling)
    <2> DEFINE p == Ceiling - n + 1
               q == (n + p - 1) \div p
    <2>1. p \in Nat /\ p >= 1
      BY <1>2
    <2>2. q \in Nat /\ q * p >= n
      BY <1>2, <2>1, CeilQuotient
    <2>3. r.mode = "ola" /\ r.n = n /\ r.np = Ceiling /\ r.p = p /\ r.pieces = q
      BY <1>2, <1>7, <2>1 DEF PieceLayout, Route
    <2> HIDE DEF q
    <2>4. n <= q * p
      BY <1>2, <2>1, <2>2
    <2> QED
      BY <1>2, <2>1, <2>2, <2>3, <2>4 DEF Laid, N, Np
  <1> QED
    BY <1>1, <1>2, <1>3, <1>4, <1>5, <1>6, <1>7 DEF Layout
-----------------------------------------------------------------------------
\* An impulse convolved with an impulse in a weld of n points: nothing, or
\* the impulse at the sum of their positions or that sum less n.
LEMMA CyclicAt ==
  ASSUME NEW n \in Nat, n >= 1, NEW c \in Int, NEW k \in Idx(n)
  PROVE  CyclicConv(Impulse(n, c), Impulse(n, k), n) =
           [j \in Idx(n) |->
              IF c \in Idx(n) /\ (j = c + k \/ j + n = c + k) THEN 1 ELSE 0]
  <1>1. CyclicConv(Impulse(n, c), Impulse(n, k), n) =
          [j \in Idx(n) |-> IF c \in Idx(n) /\ j = (c + k) % n THEN 1 ELSE 0]
    BY CyclicOfImpulses
  <1>2. ASSUME NEW j \in Idx(n), c \in Idx(n)
        PROVE  j = (c + k) % n <=> (j = c + k \/ j + n = c + k)
    <2>1. j \in Int /\ 0 <= j /\ j < n /\ 0 <= c /\ c < n /\ k \in Int /\ 0 <= k /\ k < n
      BY <1>2 DEF Idx
    <2>2. (c + k) % n = IF c + k < n THEN c + k ELSE c + k - n
      BY <2>1, NearRemainders
    <2> QED
      BY <2>1, <2>2
  <1> QED
    BY <1>1, <1>2

\* The main weld: the operands are zero-padded to its size.
LEMMA PaddedWeld ==
  ASSUME NEW n \in Nat, NEW np \in Nat, n <= np, NEW a \in Idx(n), NEW k \in Idx(n)
  PROVE  CyclicConv(Padded(Impulse(n, a), n, np), Padded(Impulse(n, k), n, np), np) =
           [j \in Idx(np) |-> IF j = a + k \/ j + np = a + k THEN 1 ELSE 0]
  <1>1. a \in Int /\ a \in Idx(np) /\ k \in Idx(np) /\ np >= 1
    BY DEF Idx
  <1>2. /\ Padded(Impulse(n, a), n, np) = Impulse(np, a)
        /\ Padded(Impulse(n, k), n, np) = Impulse(np, k)
    BY PaddedImpulse
  <1>3. CyclicConv(Impulse(np, a), Impulse(np, k), np) =
          [j \in Idx(np) |-> IF a \in Idx(np) /\ (j = a + k \/ j + np = a + k) THEN 1 ELSE 0]
    BY <1>1, CyclicAt
  <1> QED
    BY <1>1, <1>2, <1>3

\* The running execute: where its kernel and its input have their impulse.
Running(a, k) ==
    /\ N \in Nat /\ 1 <= N
    /\ k \in Idx(N) /\ h = Impulse(N, k) /\ k \in Nat /\ k < N
    /\ a \in Idx(N) /\ x = Impulse(N, a) /\ a \in Nat /\ a < N

LEMMA InExecute ==
  ASSUME Shape, pc \notin {"new", "ready"}
  PROVE  Laid /\ \E a, k : Running(a, k)
  <1>1. Laid /\ N \in Nat /\ 1 <= N
    BY CeilingAssumption, PowerFacts DEF Shape, Laid
  <1> QED
    BY <1>1 DEF Shape, Running, Idx

\* What that execute has to leave in io.
LEMMA WantedOutput ==
  ASSUME NEW a, NEW k, Running(a, k)
  PROVE  CyclicConv(x, h, N) = [i \in Idx(N) |-> IF i = a + k \/ i + N = a + k THEN 1 ELSE 0]
  <1>1. CyclicConv(Impulse(N, a), Impulse(N, k), N) =
          [i \in Idx(N) |-> IF a \in Idx(N) /\ (i = a + k \/ i + N = a + k) THEN 1 ELSE 0]
    BY CyclicAt DEF Running
  <1> QED
    BY <1>1 DEF Running

-----------------------------------------------------------------------------
\* Nothing comes of a kernel of zeros.
LEMMA CyclicOfZeros ==
  ASSUME NEW n \in Nat, n >= 1, NEW c \in Int
  PROVE  CyclicConv(Impulse(n, c), Impulse(n, -1), n) = [j \in Idx(n) |-> 0]
  <1> DEFINE v == Impulse(n, c)
             w == Impulse(n, -1)
             J == Support(v)
             f(i) == [j \in J |-> v[j] * w[(i - j) % n]]
  <1>1. J = {c} \cap Idx(n) /\ IsFiniteSet(J)
    <2>1. J = {c} \cap Idx(n)
      BY SupportOfImpulse
    <2>2. IsFiniteSet({c}) /\ J \in SUBSET {c}
      BY <2>1, FS_Singleton
    <2> QED
      BY <2>1, <2>2, FS_Subset
  <1>2. ASSUME NEW i \in Idx(n) PROVE Total(J, f(i)) = 0
    <2>1. ASSUME NEW j \in J PROVE f(i)[j] = 0
      <3>1. j \in Idx(n) /\ v[j] \in {0, 1}
        BY <1>1 DEF Impulse
      <3>2. i \in Int /\ j \in Int /\ 0 <= i /\ i < n /\ 0 <= j /\ j < n
        BY <3>1 DEF Idx
      <3>3. (i - j) % n = IF i >= j THEN i - j ELSE i - j + n
        BY <3>2, NearRemainders
      <3>4. w[(i - j) % n] = 0
        BY <3>2, <3>3 DEF Impulse, Idx
      <3> QED
        BY <3>1, <3>4
    <2> HIDE DEF J, f
    <2> QED
      BY <1>1, <2>1, TotalOfZeros
  <1>3. CyclicConv(v, w, n) = [i \in Idx(n) |-> Total(J, f(i))]
    BY DEF CyclicConv
  <1> QED
    BY <1>2, <1>3

\* The second weld of the correction: of the reversed ends of input and
\* kernel it computes, in reverse, the samples the main weld has wrapped.
LEMMA SecondWeld ==
  ASSUME NEW a, NEW k, Running(a, k), Laid, route.mode = "corr", ~TinyTail,
         NEW rev, rev = [q \in Idx(route.np2) |-> IF q <= L THEN x[N - 1 - q] ELSE 0],
         NEW hr, hr = [q \in Idx(route.np2) |-> IF q <= L THEN h[N - 1 - q] ELSE 0],
         NEW s \in 0..L
  PROVE  CyclicConv(rev, hr, route.np2)[L - s] = LinearConv(x, N, h, N)[Np + s]
  <1> DEFINE np2 == route.np2
             c == IF N - 1 - a <= L THEN N - 1 - a ELSE -1
             d == IF N - 1 - k <= L THEN N - 1 - k ELSE -1
  <1>1. /\ N \in Nat /\ 1 <= N /\ a \in Nat /\ a < N /\ k \in Nat /\ k < N
        /\ L \in Nat /\ Np \in Nat /\ N <= Np /\ L = 2 * N - 2 - Np
        /\ np2 \in Nat /\ 2 * L + 1 <= np2 /\ s \in Nat /\ s <= L
    BY DEF Running, Laid
  <1>2. c \in Int /\ d \in Int /\ L - s \in Idx(np2)
    BY <1>1 DEF Idx
  <1>3. rev = Impulse(np2, c)
    <2>1. ASSUME NEW q \in Idx(np2)
          PROVE  (IF q <= L THEN x[N - 1 - q] ELSE 0) = IF q = c THEN 1 ELSE 0
      <3>1. q \in Nat
        BY <1>1 DEF Idx
      <3>2. q <= L => N - 1 - q \in Idx(N) /\ x[N - 1 - q] = IF N - 1 - q = a THEN 1 ELSE 0
        BY <1>1, <3>1 DEF Running, Impulse, Idx
      <3> QED
        BY <1>1, <3>1, <3>2
    <2> QED
      BY <2>1 DEF Impulse
  <1>4. hr = Impulse(np2, d)
    <2>1. ASSUME NEW q \in Idx(np2)
          PROVE  (IF q <= L THEN h[N - 1 - q] ELSE 0) = IF q = d THEN 1 ELSE 0
      <3>1. q \in Nat
        BY <1>1 DEF Idx
      <3>2. q <= L => N - 1 - q \in Idx(N) /\ h[N - 1 - q] = IF N - 1 - q = k THEN 1 ELSE 0
        BY <1>1, <3>1 DEF Running, Impulse, Idx
      <3> QED
        BY <1>1, <3>1, <3>2
    <2> QED
      BY <2>1 DEF Impulse
  <1>5. LinearConv(x, N, h, N)[Np + s] = IF Np + s = a + k THEN 1 ELSE 0
    <2>1. LinearConv(x, N, h, N) = Impulse(N + N - 1, a + k)
      BY LinearOfImpulses DEF Running
    <2>2. Np + s \in Idx(N + N - 1)
      BY <1>1 DEF Idx
    <2> QED
      BY <2>1, <2>2 DEF Impulse
  <1>6. CyclicConv(rev, hr, np2)[L - s] = IF Np + s = a + k THEN 1 ELSE 0
    <2>1. CASE d = -1
      <3>1. CyclicConv(rev, hr, np2) = [j \in Idx(np2) |-> 0]
        <4>1. CyclicConv(Impulse(np2, c), Impulse(np2, -1), np2) = [j \in Idx(np2) |-> 0]
          BY <1>1, <1>2, CyclicOfZeros
        <4> QED
          BY <1>3, <1>4, <2>1, <4>1
      <3>2. Np + s # a + k
        BY <1>1, <2>1
      <3> QED
        BY <1>2, <3>1, <3>2
    <2>2. CASE d # -1
      <3>1. d = N - 1 - k /\ d <= L /\ d \in Idx(np2)
        BY <1>1, <2>2 DEF Idx
      <3>2. CyclicConv(Impulse(np2, c), Impulse(np2, d), np2) =
              [j \in Idx(np2) |->
                 IF c \in Idx(np2) /\ (j = c + d \/ j + np2 = c + d) THEN 1 ELSE 0]
        <4>1. np2 >= 1
          BY <1>1
        <4> HIDE DEF c, d, np2
        <4> QED
          BY <1>1, <1>2, <3>1, <4>1, CyclicAt
      <3>3. CyclicConv(rev, hr, np2)[L - s] =
              IF c \in Idx(np2) /\ (L - s = c + d \/ L - s + np2 = c + d) THEN 1 ELSE 0
        BY <1>2, <1>3, <1>4, <3>2
      <3>4. (c \in Idx(np2) /\ (L - s = c + d \/ L - s + np2 = c + d)) <=> Np + s = a + k
        BY <1>1, <3>1 DEF Idx
      <3> QED
        BY <3>3, <3>4
    <2> QED
      BY <2>1, <2>2
  <1> QED
    BY <1>5, <1>6

\* A wrapped sample, read off the second weld or summed over what io still
\* holds of the input.
LEMMA TailSampleIs ==
  ASSUME NEW a, NEW k, Running(a, k), Laid, LoopsOfRoute, Buffers, CorrInPlaceSafe,
         pc = "corr", NEW s \in 0..L, Np - N + 1 + s >= m
  PROVE  TailSample(s) = IF a + k = Np + s THEN 1 ELSE 0
  <1>1. /\ N \in Nat /\ 1 <= N /\ a \in Nat /\ a < N /\ k \in Nat /\ k < N
        /\ L \in Nat /\ Np \in Nat /\ N <= Np /\ L = 2 * N - 2 - Np
        /\ s \in Nat /\ s <= L /\ m \in Nat
    BY DEF Running, Laid, LoopsOfRoute
  <1>2. CASE ~TinyTail
    <2>1. TailSample(s) = LinearConv(x, N, h, N)[Np + s]
      BY <1>2 DEF TailSample, Buffers
    <2>2. LinearConv(x, N, h, N) = Impulse(N + N - 1, a + k)
      BY LinearOfImpulses DEF Running
    <2>3. Np + s \in Idx(N + N - 1)
      BY <1>1 DEF Idx
    <2> QED
      BY <2>1, <2>2, <2>3 DEF Impulse
  <1>3. CASE TinyTail
    <2> DEFINE T == 0..(L - s)
               f == [p \in T |-> io[(Np - N + 1) + s + p] * h[N - 1 - p]]
               c == N - 1 - k
    <2>1. TailSample(s) = Total(T, f)
      BY <1>3 DEF TailSample
    <2>2. ASSUME NEW p \in T
          PROVE  f[p] = IF p = c /\ a + k = Np + s THEN 1 ELSE 0
      <3>1. p \in Nat /\ p <= L - s
        BY <1>1
      <3>2. (Np - N + 1) + s + p \in Idx(N) /\ (Np - N + 1) + s + p >= m /\ N - 1 - p \in Idx(N)
        BY <1>1, <3>1 DEF Idx
      <3>3. io[(Np - N + 1) + s + p] = IF (Np - N + 1) + s + p = a THEN 1 ELSE 0
        <4>1. io[(Np - N + 1) + s + p] = x[(Np - N + 1) + s + p]
          BY <1>1, <3>1, <3>2 DEF CorrInPlaceSafe
        <4> QED
          BY <3>2, <4>1 DEF Running, Impulse
      <3>4. h[N - 1 - p] = IF N - 1 - p = k THEN 1 ELSE 0
        BY <3>2 DEF Running, Impulse
      <3>5. f[p] = io[(Np - N + 1) + s + p] * h[N - 1 - p]
        OBVIOUS
      <3> QED
        BY <1>1, <3>1, <3>3, <3>4, <3>5
    <2>3. a + k = Np + s => c \in T
      BY <1>1
    <2>4. IsFiniteSet(T)
      BY <1>1, FS_Interval
    <2> HIDE DEF T, f, c
    <2>5. \A p \in T : p # c => f[p] = 0
      BY <2>2
    <2>6. c \in T => f[c] = (IF a + k = Np + s THEN 1 ELSE 0) /\ f[c] \in Int
      BY <2>2
    <2>7. Total(T, f) = IF c \in T THEN f[c] ELSE 0
      BY <2>4, <2>5, <2>6, TotalOfOne
    <2> QED
      BY <2>1, <2>3, <2>6, <2>7
  <1> QED
    BY <1>2, <1>3

\* The corrected sample is the cyclic convolution's: what wrapped onto it in
\* the weld is taken off, and what should wrap onto it is added.
LEMMA CorrSumIs ==
  ASSUME NEW a, NEW k, Running(a, k), Laid, LoopsOfRoute, Buffers, CorrInPlaceSafe,
         pc = "corr", m < N
  PROVE  CorrSum(m) = CyclicConv(x, h, N)[m] /\ m \in Idx(N)
  <1>1. /\ N \in Nat /\ 1 <= N /\ a \in Nat /\ a < N /\ k \in Nat /\ k < N
        /\ L \in Nat /\ Np \in Nat /\ N <= Np /\ L = 2 * N - 2 - Np /\ m \in Nat
    BY DEF Running, Laid, LoopsOfRoute
  <1>2. m \in Idx(N)
    BY <1>1 DEF Idx
  <1>3. \A j \in Idx(Np) : buf[j] = IF j = a + k \/ j + Np = a + k THEN 1 ELSE 0
    <2>1. CyclicConv(Padded(Impulse(N, a), N, Np), Padded(Impulse(N, k), N, Np), Np) =
            [j \in Idx(Np) |-> IF j = a + k \/ j + Np = a + k THEN 1 ELSE 0]
      BY <1>1, PaddedWeld DEF Running
    <2> QED
      BY <2>1 DEF Running, Buffers
  <1>4. buf[m] = IF m = a + k \/ m + Np = a + k THEN 1 ELSE 0
    BY <1>1, <1>3 DEF Idx
  <1>5. m + N < Np => buf[m + N] = IF m + N = a + k THEN 1 ELSE 0
    BY <1>1, <1>3 DEF Idx
  <1>6. m <= L => TailSample(m) = IF a + k = Np + m THEN 1 ELSE 0
    BY <1>1, TailSampleIs
  <1>7. m + N >= Np /\ m + N - Np <= L =>
          TailSample(m + N - Np) = IF a + k = m + N THEN 1 ELSE 0
    <2> SUFFICES ASSUME m + N >= Np, m + N - Np <= L
                 PROVE  TailSample(m + N - Np) = IF a + k = m + N THEN 1 ELSE 0
      OBVIOUS
    <2> DEFINE s == m + N - Np
    <2>1. s \in 0..L /\ Np - N + 1 + s >= m /\ Np + s = m + N
      BY <1>1
    <2> HIDE DEF s
    <2>2. TailSample(s) = IF a + k = Np + s THEN 1 ELSE 0
      BY <2>1, TailSampleIs
    <2> QED
      BY <2>1, <2>2 DEF s
  <1>8. CorrSum(m) = IF m = a + k \/ m + N = a + k THEN 1 ELSE 0
    BY <1>1, <1>4, <1>5, <1>6, <1>7 DEF CorrSum
  <1> QED
    BY <1>2, <1>8, WantedOutput

-----------------------------------------------------------------------------
\* A step that leaves the plan alone leaves its layout alone.
SamePlan == /\ N' = N /\ Np' = Np /\ L' = L /\ (TinyTail' <=> TinyTail)
            /\ route' = route /\ h' = h /\ (Laid => Laid')

LEMMA PlanStays == ASSUME UNCHANGED plan PROVE SamePlan
  BY DEF plan, SamePlan, N, Np, L, TinyTail, Laid

\* A step within an execute leaves the kernel and the input alone.
LEMMA ShapeStays ==
  ASSUME Shape, SamePlan, x' = x, pc \notin {"new", "ready"}, pc' # "new"
  PROVE  Shape'
  BY DEF Shape, SamePlan

\* Creating a plan establishes what its executes rely on.
LEMMA CreateKeeps ==
  ASSUME IInv, NEW n \in 1..Ceiling, Create(n)
  PROVE  IInv'
  <1>1. /\ pc = "new" /\ pc' = "ready" /\ Answers(Ceiling, TinyTaps, n, route') /\ x' = x
        /\ \E k \in Idx(n) : h' = Impulse(n, k)
    BY DEF Create
  <1>2. Laid' /\ N' = n
    BY <1>1, CreateLays
  <1>3. Shape'
    BY <1>1, <1>2 DEF IInv, Shape
  <1> QED
    BY <1>1, <1>3 DEF IInv, Shape, LoopsOfRoute, Buffers, OneCallIsCyclicConv, CorrInPlaceSafe,
                      OlaPrefixSummed

\* Calling execute keeps the invariant, whatever earlier calls left in the
\* plan's buffers.
LEMMA ExecuteKeeps ==
  ASSUME IInv, pc = "ready", NEW a \in Idx(N), Execute(a)
  PROVE  IInv'
  <1>1. SamePlan /\ Laid
    BY PlanStays DEF Execute, IInv, Shape
  <1>2. /\ x' = Impulse(N, a) /\ io' = x'
        /\ pc' = IF route.mode \in {"pad", "corr"} THEN "load" ELSE route.mode
    BY DEF Execute
  <1>3. pc' \in {"load", "weld", "tiny", "direct", "ola"}
    BY <1>1, <1>2 DEF Laid
  <1>4. Shape'
    BY <1>1, <1>2, <1>3 DEF IInv, Shape, SamePlan
  <1>5. LoopsOfRoute'
    <2>1. m' = 0 /\ route' = route
      BY <1>1 DEF Execute, SamePlan
    <2>2. pc' = "load" => route.mode \in {"pad", "corr"}
      BY <1>1, <1>2 DEF Laid
    <2>3. pc' # "load" => route.mode = pc'
      BY <1>2
    <2> QED
      BY <1>3, <2>1, <2>2, <2>3 DEF LoopsOfRoute
  <1> QED
    BY <1>2, <1>3, <1>4, <1>5 DEF IInv, Buffers, OneCallIsCyclicConv, CorrInPlaceSafe,
                                  OlaPrefixSummed

\* An execute that ends with the convolution in io keeps the invariant.
LEMMA AnswerKeeps ==
  ASSUME IInv, SamePlan, x' = x, pc \notin {"new", "ready"}, pc' = "ready",
         io' = CyclicConv(x, h, N)
  PROVE  IInv'
  <1>1. Shape'
    BY ShapeStays DEF IInv
  <1> QED
    BY <1>1 DEF IInv, SamePlan, LoopsOfRoute, Buffers, OneCallIsCyclicConv, CorrInPlaceSafe,
                OlaPrefixSummed

\* The one- and two-point floor is the convolution.
LEMMA TinyKeeps == ASSUME IInv, Tiny PROVE IInv'
  <1>1. PICK a, k : Running(a, k)
    BY InExecute DEF IInv, Tiny
  <1>2. Laid /\ N \in {1, 2} /\ io = x /\ SamePlan
    BY InExecute, PlanStays DEF IInv, Tiny, LoopsOfRoute, Buffers, Laid
  <1>3. CyclicConv(x, h, N) = [i \in Idx(N) |-> IF i = a + k \/ i + N = a + k THEN 1 ELSE 0]
    BY <1>1, WantedOutput
  <1>4. a \in Nat /\ a < N /\ k \in Nat /\ k < N /\ x = Impulse(N, a) /\ h = Impulse(N, k)
    BY <1>1 DEF Running
  <1>5. io' = CyclicConv(x, h, N)
    <2>1. CASE N = 1
      <3>1. io[0] = 1 /\ h[0] = 1 /\ a = 0 /\ k = 0
        BY <1>2, <1>4, <2>1 DEF Impulse, Idx
      <3>2. io' = [i \in Idx(1) |-> 1]
        BY <2>1, <3>1 DEF Tiny
      <3>3. \A i \in Idx(1) : i = 0
        BY DEF Idx
      <3> QED
        BY <1>3, <2>1, <3>1, <3>2, <3>3
    <2>2. CASE N = 2
      <3>1. 0 \in Idx(2) /\ 1 \in Idx(2) /\ \A i \in Idx(2) : i = 0 \/ i = 1
        BY DEF Idx
      <3>2. /\ io[0] = (IF a = 0 THEN 1 ELSE 0) /\ io[1] = (IF a = 1 THEN 1 ELSE 0)
            /\ h[0] = (IF k = 0 THEN 1 ELSE 0) /\ h[1] = (IF k = 1 THEN 1 ELSE 0)
        BY <1>2, <1>4, <2>2, <3>1 DEF Impulse
      <3>3. io' = [i \in Idx(2) |-> IF i = 0 THEN io[0] * h[0] + io[1] * h[1]
                                             ELSE io[0] * h[1] + io[1] * h[0]]
        BY <2>2 DEF Tiny
      <3>4. a \in {0, 1} /\ k \in {0, 1}
        BY <1>4, <2>2
      <3>5. ASSUME NEW i \in Idx(2)
            PROVE  (IF i = 0 THEN io[0] * h[0] + io[1] * h[1]
                             ELSE io[0] * h[1] + io[1] * h[0])
                     = IF i = a + k \/ i + 2 = a + k THEN 1 ELSE 0
        BY <3>1, <3>2, <3>4
      <3> QED
        BY <1>3, <2>2, <3>3, <3>5
    <2> QED
      BY <1>2, <2>1, <2>2
  <1> QED
    BY <1>2, <1>5, AnswerKeeps DEF Tiny

\* So is a weld of exactly N points.
LEMMA OnIoKeeps == ASSUME IInv, OnIo PROVE IInv'
  <1>1. SamePlan /\ io' = CyclicConv(x, h, N)
    BY PlanStays DEF IInv, Buffers, OnIo
  <1> QED
    BY <1>1, AnswerKeeps DEF OnIo

\* The main weld of a padded or corrected route.
LEMMA LoadKeeps == ASSUME IInv, Load PROVE IInv'
  <1>1. SamePlan /\ Laid /\ io = x /\ io' = io /\ x' = x /\ m' = m
    BY PlanStays, InExecute DEF IInv, Load, Buffers
  <1>2. buf' = CyclicConv(Padded(x, N, Np), Padded(h, N, Np), Np)
    BY <1>1 DEF Load
  <1>3. PICK a, k : Running(a, k)
    BY InExecute DEF IInv, Load
  <1>4. x = [i \in Idx(N) |-> x[i]]
    BY <1>3 DEF Running, Impulse
  <1>5. /\ pc' = "wrap" => route.mode = "pad"
        /\ pc' = "tail" => route.mode = "corr" /\ ~TinyTail
        /\ pc' = "corr" => route.mode = "corr" /\ TinyTail
        /\ pc' \in {"wrap", "tail", "corr"}
    BY DEF Load, IInv, LoopsOfRoute
  <1>6. Shape'
    BY <1>1, <1>5, ShapeStays DEF IInv, Load
  <1>7. m' = 0
    BY <1>1 DEF Load, IInv, LoopsOfRoute
  <1>8. LoopsOfRoute'
    BY <1>1, <1>5, <1>7 DEF LoopsOfRoute, SamePlan
  <1>9. Buffers'
    BY <1>1, <1>2, <1>4, <1>5 DEF Buffers, SamePlan
  <1>10. CorrInPlaceSafe'
    <2>1. \A i \in Idx(N) : ~(i < 0)
      BY DEF Idx
    <2> QED
      BY <1>1, <1>7, <2>1 DEF CorrInPlaceSafe, SamePlan
  <1> QED
    BY <1>5, <1>6, <1>8, <1>9, <1>10 DEF IInv, OneCallIsCyclicConv, OlaPrefixSummed

\* The padded route: adding the linear tail onto the head makes it cyclic.
LEMMA WrapKeeps == ASSUME IInv, Wrap PROVE IInv'
  <1>1. PICK a, k : Running(a, k)
    BY InExecute DEF IInv, Wrap
  <1>2. /\ Laid /\ SamePlan /\ Np \in Nat /\ 2 * N <= Np
        /\ buf = CyclicConv(Padded(x, N, Np), Padded(h, N, Np), Np)
    BY InExecute, PlanStays DEF IInv, Wrap, LoopsOfRoute, Buffers, Laid
  <1>3. a \in Nat /\ a < N /\ k \in Nat /\ k < N /\ N \in Nat
    BY <1>1 DEF Running
  <1>4. \A j \in Idx(Np) : buf[j] = IF j = a + k \/ j + Np = a + k THEN 1 ELSE 0
    <2>1. CyclicConv(Padded(Impulse(N, a), N, Np), Padded(Impulse(N, k), N, Np), Np) =
            [j \in Idx(Np) |-> IF j = a + k \/ j + Np = a + k THEN 1 ELSE 0]
      BY <1>1, <1>2, <1>3, PaddedWeld DEF Running
    <2> QED
      BY <1>1, <1>2, <2>1 DEF Running
  <1>5. ASSUME NEW i \in Idx(N)
        PROVE  buf[i] + buf[i + N] = IF i = a + k \/ i + N = a + k THEN 1 ELSE 0
    <2>1. i \in Nat /\ i < N /\ i \in Idx(Np) /\ i + N \in Idx(Np)
      BY <1>2, <1>3 DEF Idx
    <2> QED
      BY <1>2, <1>3, <1>4, <2>1
  <1>6. io' = CyclicConv(x, h, N)
    BY <1>1, <1>5, WantedOutput DEF Wrap
  <1> QED
    BY <1>2, <1>6, AnswerKeeps DEF Wrap

\* The second weld of a long correction.
LEMMA TailWeldKeeps == ASSUME IInv, TailWeld PROVE IInv'
  <1>1. PICK a, k : Running(a, k)
    BY InExecute DEF IInv, TailWeld
  <1>2. /\ Laid /\ SamePlan /\ route.mode = "corr" /\ ~TinyTail /\ io = x /\ io' = io /\ x' = x
        /\ m' = 0 /\ buf' = buf /\ pc' = "corr" /\ pc = "tail"
    BY InExecute, PlanStays DEF IInv, TailWeld, LoopsOfRoute, Buffers
  <1> DEFINE rev == [q \in Idx(route.np2) |-> IF q <= L THEN x[N - 1 - q] ELSE 0]
             hr  == [q \in Idx(route.np2) |-> IF q <= L THEN h[N - 1 - q] ELSE 0]
  <1>3. buf2' = CyclicConv(rev, hr, route.np2)
    BY <1>2 DEF TailWeld
  <1> HIDE DEF rev, hr
  <1>4. \A s \in 0..L : buf2'[L - s] = LinearConv(x, N, h, N)[Np + s]
    BY <1>1, <1>2, <1>3, SecondWeld DEF rev, hr
  <1>5. x = [i \in Idx(N) |-> x[i]]
    BY <1>1 DEF Running, Impulse
  <1>6. Shape'
    BY <1>2, ShapeStays DEF IInv
  <1>7. LoopsOfRoute'
    BY <1>2 DEF LoopsOfRoute, SamePlan
  <1>8. Buffers'
    BY <1>2, <1>4, <1>5 DEF IInv, Buffers, SamePlan
  <1>9. CorrInPlaceSafe'
    <2>1. \A i \in Idx(N) : ~(i < 0)
      BY DEF Idx
    <2> QED
      BY <1>2, <2>1 DEF CorrInPlaceSafe, SamePlan
  <1> QED
    BY <1>2, <1>6, <1>7, <1>8, <1>9 DEF IInv, OneCallIsCyclicConv, OlaPrefixSummed

\* One output of the correction loop: it is final, and it overwrites a sample
\* of the input that no later output reads.
LEMMA CorrKeeps == ASSUME IInv, Corr PROVE IInv'
  <1>1. PICK a, k : Running(a, k)
    BY InExecute DEF IInv, Corr
  <1>2. /\ Laid /\ SamePlan /\ x' = x /\ m' = m + 1 /\ buf' = buf /\ buf2' = buf2
        /\ pc' = "corr" /\ pc = "corr" /\ m \in Nat /\ m < N /\ N \in Nat
        /\ io = [i \in Idx(N) |-> io[i]] /\ route.mode = "corr"
    BY <1>1, InExecute, PlanStays DEF IInv, Corr, LoopsOfRoute, Buffers, Running
  <1> DEFINE y == CyclicConv(x, h, N)
  <1>3. io' = [io EXCEPT ![m] = y[m]] /\ m \in Idx(N)
    BY <1>1, <1>2, CorrSumIs DEF IInv, Corr
  <1>4. \A i \in Idx(N) : io[i] = IF i < m THEN y[i] ELSE x[i]
    BY <1>2 DEF IInv, CorrInPlaceSafe
  <1> HIDE DEF y
  <1>5. \A i \in Idx(N) : io'[i] = IF i < m + 1 THEN y[i] ELSE x[i]
    <2>1. \A i \in Idx(N) : i \in Int
      BY DEF Idx
    <2> QED
      BY <1>2, <1>3, <1>4, <2>1
  <1>6. io' = [i \in Idx(N) |-> io'[i]]
    BY <1>2, <1>3
  <1>7. Shape'
    BY <1>2, ShapeStays DEF IInv
  <1>8. LoopsOfRoute'
    BY <1>2 DEF LoopsOfRoute, SamePlan
  <1>9. Buffers'
    BY <1>2, <1>6 DEF IInv, Buffers, SamePlan
  <1>10. CorrInPlaceSafe'
    BY <1>2, <1>5 DEF CorrInPlaceSafe, SamePlan, y
  <1> QED
    BY <1>2, <1>7, <1>8, <1>9, <1>10 DEF IInv, OneCallIsCyclicConv, OlaPrefixSummed

-----------------------------------------------------------------------------
\* The convolution of the first samples of the input, which is what the
\* pieces have summed so far.
LEMMA PrefixIs ==
  ASSUME NEW a, NEW k, Running(a, k), NEW base \in Nat
  PROVE  CyclicConv([i \in Idx(N) |-> IF i < base THEN x[i] ELSE 0], h, N) =
           [i \in Idx(N) |-> IF a < base /\ (i = a + k \/ i + N = a + k) THEN 1 ELSE 0]
  <1> DEFINE c == IF a < base THEN a ELSE -1
  <1>1. N \in Nat /\ N >= 1 /\ a \in Nat /\ a < N /\ k \in Idx(N) /\ c \in Int
    BY DEF Running
  <1>2. [i \in Idx(N) |-> IF i < base THEN x[i] ELSE 0] = Impulse(N, c)
    <2>1. ASSUME NEW i \in Idx(N)
          PROVE  (IF i < base THEN x[i] ELSE 0) = IF i = c THEN 1 ELSE 0
      <3>1. x[i] = IF i = a THEN 1 ELSE 0
        BY DEF Running, Impulse
      <3>2. i \in Nat
        BY <1>1 DEF Idx
      <3> QED
        BY <1>1, <3>1, <3>2
    <2> QED
      BY <2>1 DEF Impulse
  <1>3. c \in Idx(N) <=> a < base
    BY <1>1 DEF Idx
  <1>4. a < base => c = a
    OBVIOUS
  <1> HIDE DEF c
  <1>5. CyclicConv(Impulse(N, c), Impulse(N, k), N) =
          [i \in Idx(N) |-> IF c \in Idx(N) /\ (i = c + k \/ i + N = c + k) THEN 1 ELSE 0]
    BY <1>1, CyclicAt
  <1> QED
    BY <1>2, <1>3, <1>4, <1>5 DEF Running

\* The weld of the piece that starts at base, and what it adds at output i.
PieceWeld(base) == CyclicConv([q \in Idx(Np) |-> IF q < PieceLen(base) THEN x[base + q] ELSE 0],
                              Padded(h, N, Np), Np)
PieceSum(base, i, w) == Total({t \in Idx(PieceLen(base) + N - 1) : (base + t) % N = i}, w)

\* That is the input's impulse if it lies in the
\* piece, and nothing otherwise.
LEMMA PieceAdds ==
  ASSUME NEW a, NEW k, Running(a, k), Laid, route.mode = "ola", NEW base \in Nat,
         NEW i \in Idx(N)
  PROVE  PieceSum(base, i, PieceWeld(base)) =
           IF base <= a /\ a < base + route.p /\ (i = a + k \/ i + N = a + k) THEN 1 ELSE 0
  <1> DEFINE w == PieceWeld(base)
             plen == PieceLen(base)
             inside == base <= a /\ a < base + plen
             c == IF inside THEN a - base ELSE -1
             T == {t \in Idx(plen + N - 1) : (base + t) % N = i}
  <1>1. /\ N \in Nat /\ 1 <= N /\ a \in Nat /\ a < N /\ k \in Nat /\ k < N
        /\ Np \in Nat /\ route.p \in Nat /\ 1 <= route.p /\ route.p + N - 1 <= Np
        /\ i \in Nat /\ i < N
    BY DEF Running, Laid, Idx
  <1>2. /\ plen \in Int /\ plen <= route.p /\ base + plen <= N
        /\ inside <=> base <= a /\ a < base + route.p
    BY <1>1 DEF PieceLen
  <1> HIDE DEF plen
  <1>3. c \in Int /\ (c \in Idx(Np) <=> inside)
    BY <1>1, <1>2 DEF Idx
  <1>4. [q \in Idx(Np) |-> IF q < plen THEN x[base + q] ELSE 0] = Impulse(Np, c)
    <2>1. ASSUME NEW q \in Idx(Np)
          PROVE  (IF q < plen THEN x[base + q] ELSE 0) = IF q = c THEN 1 ELSE 0
      <3>1. q \in Nat
        BY <1>1 DEF Idx
      <3>2. q < plen => base + q \in Idx(N)
        BY <1>1, <1>2, <3>1 DEF Idx
      <3>3. q < plen => x[base + q] = IF base + q = a THEN 1 ELSE 0
        BY <3>2 DEF Running, Impulse
      <3> QED
        BY <1>1, <1>2, <3>1, <3>3
    <2> QED
      BY <2>1 DEF Impulse
  <1>5. Padded(h, N, Np) = Impulse(Np, k) /\ k \in Idx(Np)
    BY <1>1, PaddedImpulse DEF Running, Idx
  <1>6. w = [j \in Idx(Np) |-> IF c \in Idx(Np) /\ (j = c + k \/ j + Np = c + k) THEN 1 ELSE 0]
    <2>1. w = CyclicConv(Impulse(Np, c), Impulse(Np, k), Np)
      BY <1>4, <1>5 DEF plen, PieceWeld
    <2>2. Np >= 1
      BY <1>1
    <2> HIDE DEF c
    <2> QED
      BY <1>1, <1>3, <1>5, <2>1, <2>2, CyclicAt
  <1> HIDE DEF w
  <1>7. ASSUME NEW j \in Idx(Np) PROVE w[j] = IF inside /\ j = a - base + k THEN 1 ELSE 0
    <2>1. j \in Nat
      BY <1>1 DEF Idx
    <2> QED
      BY <1>1, <1>2, <1>3, <1>6, <2>1
  <1>8. IsFiniteSet(T) /\ T \subseteq Idx(Np)
    <2>1. IsFiniteSet(Idx(plen + N - 1)) /\ T \subseteq Idx(plen + N - 1)
      BY <1>1, <1>2, IdxFinite
    <2>2. Idx(plen + N - 1) \subseteq Idx(Np)
      BY <1>1, <1>2 DEF Idx
    <2> QED
      BY <2>1, <2>2, FS_Subset
  <1>9. CASE ~inside
    <2>1. \A t \in T : w[t] = 0
      BY <1>7, <1>8, <1>9
    <2> HIDE DEF T
    <2> QED
      BY <1>2, <1>8, <1>9, <2>1, TotalOfZeros DEF T, plen, w, PieceSum
  <1>10. CASE inside
    <2> DEFINE t0 == a - base + k
    <2>1. t0 \in Idx(plen + N - 1) /\ t0 \in Idx(Np)
      BY <1>1, <1>2, <1>10 DEF Idx
    <2>2. (base + t0) % N = IF a + k < N THEN a + k ELSE a + k - N
      <3>1. base + t0 = a + k
        BY <1>1
      <3> QED
        BY <1>1, <3>1, NearRemainders
    <2>3. t0 \in T <=> (i = a + k \/ i + N = a + k)
      BY <1>1, <2>1, <2>2
    <2>4. w[t0] = 1
      BY <1>7, <1>10, <2>1
    <2>5. \A t \in T : t # t0 => w[t] = 0
      BY <1>7, <1>8
    <2> HIDE DEF T, t0
    <2>6. Total(T, w) = IF t0 \in T THEN 1 ELSE 0
      BY <1>8, <2>4, <2>5, TotalOfOne
    <2> QED
      BY <1>2, <1>10, <2>3, <2>6 DEF T, plen, w, PieceSum
  <1> QED
    BY <1>9, <1>10

\* The pieces start from nothing.
LEMMA OlaStartKeeps == ASSUME IInv, OlaStart PROVE IInv'
  <1>1. PICK a, k : Running(a, k)
    BY InExecute DEF IInv, OlaStart
  <1>2. /\ Laid /\ SamePlan /\ route.mode = "ola" /\ buf2' = x /\ x' = x /\ m' = 0
        /\ pc' = "piece" /\ pc = "ola" /\ io' = [i \in Idx(N) |-> 0]
    BY InExecute, PlanStays DEF IInv, OlaStart, LoopsOfRoute, Buffers
  <1>3. OlaPrefixSummed'
    <2>1. 0 * route.p = 0
      BY <1>2 DEF Laid
    <2>2. CyclicConv([i \in Idx(N) |-> IF i < 0 THEN x[i] ELSE 0], h, N) = [i \in Idx(N) |-> 0]
      <3>1. CyclicConv([i \in Idx(N) |-> IF i < 0 THEN x[i] ELSE 0], h, N) =
              [i \in Idx(N) |-> IF a < 0 /\ (i = a + k \/ i + N = a + k) THEN 1 ELSE 0]
        <4> DEFINE zero == 0
        <4>1. zero \in Nat
          OBVIOUS
        <4> HIDE DEF zero
        <4>2. CyclicConv([i \in Idx(N) |-> IF i < zero THEN x[i] ELSE 0], h, N) =
                [i \in Idx(N) |-> IF a < zero /\ (i = a + k \/ i + N = a + k) THEN 1 ELSE 0]
          BY <1>1, <4>1, PrefixIs
        <4> QED
          BY <4>2 DEF zero
      <3>2. ~(a < 0)
        BY <1>1 DEF Running
      <3> QED
        BY <3>1, <3>2
    <2> QED
      BY <1>2, <2>1, <2>2 DEF OlaPrefixSummed, SamePlan
  <1>4. Shape'
    BY <1>2, ShapeStays DEF IInv
  <1>5. LoopsOfRoute' /\ Buffers'
    BY <1>2 DEF LoopsOfRoute, Buffers, SamePlan
  <1> QED
    BY <1>2, <1>3, <1>4, <1>5 DEF IInv, OneCallIsCyclicConv, CorrInPlaceSafe

\* One piece extends the part of the input that io is the convolution of.
LEMMA OlaPieceKeeps == ASSUME IInv, OlaPiece PROVE IInv'
  <1>1. PICK a, k : Running(a, k)
    BY InExecute DEF IInv, OlaPiece
  <1>2. /\ Laid /\ SamePlan /\ route.mode = "ola" /\ buf2 = x /\ buf2' = buf2 /\ x' = x
        /\ m' = m + 1 /\ m \in Nat /\ pc' = "piece" /\ pc = "piece" /\ route.p \in Nat
    BY InExecute, PlanStays DEF IInv, OlaPiece, LoopsOfRoute, Buffers, Laid
  <1> DEFINE base == m * route.p
             hit(i) == i = a + k \/ i + N = a + k
  <1>3. base \in Nat /\ (m + 1) * route.p = base + route.p
    BY <1>2
  <1>4. io = [i \in Idx(N) |-> IF a < base /\ hit(i) THEN 1 ELSE 0]
    <2>1. io = CyclicConv([i \in Idx(N) |-> IF i < base THEN x[i] ELSE 0], h, N)
      BY <1>2 DEF IInv, OlaPrefixSummed
    <2> HIDE DEF base
    <2>2. CyclicConv([i \in Idx(N) |-> IF i < base THEN x[i] ELSE 0], h, N) =
            [i \in Idx(N) |-> IF a < base /\ (i = a + k \/ i + N = a + k) THEN 1 ELSE 0]
      BY <1>1, <1>3, PrefixIs
    <2> QED
      BY <2>1, <2>2
  <1>5. buf' = PieceWeld(base) /\ io' = [i \in Idx(N) |-> io[i] + PieceSum(base, i, buf')]
    BY <1>2 DEF OlaPiece, PieceWeld, PieceSum
  <1> HIDE DEF base
  <1>6. ASSUME NEW i \in Idx(N)
        PROVE  io'[i] = IF a < base + route.p /\ hit(i) THEN 1 ELSE 0
    <2>1. PieceSum(base, i, buf') =
            IF base <= a /\ a < base + route.p /\ hit(i) THEN 1 ELSE 0
      BY <1>1, <1>2, <1>3, <1>5, PieceAdds
    <2>2. io[i] = IF a < base /\ hit(i) THEN 1 ELSE 0
      BY <1>4
    <2>3. a \in Nat
      BY <1>1 DEF Running
    <2> QED
      BY <1>2, <1>3, <1>5, <2>1, <2>2, <2>3
  <1>7. io' = [i \in Idx(N) |-> IF a < base + route.p /\ hit(i) THEN 1 ELSE 0]
    BY <1>5, <1>6
  <1>8. io' = CyclicConv([i \in Idx(N) |-> IF i < base + route.p THEN x[i] ELSE 0], h, N)
    BY <1>1, <1>2, <1>3, <1>7, PrefixIs
  <1>9. OlaPrefixSummed'
    BY <1>2, <1>3, <1>8 DEF OlaPrefixSummed, SamePlan
  <1>10. Shape'
    BY <1>2, ShapeStays DEF IInv
  <1>11. LoopsOfRoute' /\ Buffers'
    BY <1>2 DEF LoopsOfRoute, Buffers, SamePlan
  <1> QED
    BY <1>2, <1>9, <1>10, <1>11 DEF IInv, OneCallIsCyclicConv, CorrInPlaceSafe

\* The correction returns with every output final, the pieces with the whole
\* input convolved.
LEMMA ReturnKeeps == ASSUME IInv, Return PROVE IInv'
  <1>1. PICK a, k : Running(a, k)
    BY InExecute DEF IInv, Return
  <1>2. /\ Laid /\ SamePlan /\ x' = x /\ io' = io /\ pc' = "ready" /\ m \in Nat /\ N \in Nat
    BY <1>1, InExecute, PlanStays DEF IInv, Return, LoopsOfRoute, Running
  <1>3. CASE pc = "corr" /\ m >= N
    <2>1. \A i \in Idx(N) : io[i] = CyclicConv(x, h, N)[i]
      <3>1. \A i \in Idx(N) : i < m
        BY <1>2, <1>3 DEF Idx
      <3> QED
        BY <1>3, <3>1 DEF IInv, CorrInPlaceSafe
    <2>2. CyclicConv(x, h, N) = [i \in Idx(N) |-> CyclicConv(x, h, N)[i]]
      BY <1>1, WantedOutput
    <2>3. io = [i \in Idx(N) |-> io[i]]
      BY <1>3 DEF IInv, Buffers
    <2>4. io = CyclicConv(x, h, N)
      BY <2>1, <2>2, <2>3
    <2> QED
      BY <1>2, <1>3, <2>4, AnswerKeeps
  <1>4. CASE pc = "piece" /\ m >= route.pieces
    <2>1. N <= m * route.p /\ m * route.p \in Nat
      <3>1. route.p \in Nat /\ route.pieces \in Nat /\ N <= route.pieces * route.p
        BY <1>2, <1>4 DEF IInv, LoopsOfRoute, Laid
      <3>2. \A s, t, v \in Nat : s >= t => s * v >= t * v
        BY SMT
      <3>3. m * route.p >= route.pieces * route.p
        BY <1>2, <1>4, <3>1, <3>2
      <3>4. m * route.p \in Nat /\ route.pieces * route.p \in Nat
        BY <1>2, <3>1
      <3> QED
        BY <1>2, <3>1, <3>3, <3>4
    <2>2. [i \in Idx(N) |-> IF i < m * route.p THEN x[i] ELSE 0] = x
      <3>1. \A i \in Idx(N) : i < m * route.p
        BY <1>2, <2>1 DEF Idx
      <3>2. x = [i \in Idx(N) |-> x[i]]
        BY <1>1 DEF Running, Impulse
      <3> QED
        BY <3>1, <3>2
    <2>3. io = CyclicConv(x, h, N)
      BY <1>4, <2>2 DEF IInv, OlaPrefixSummed
    <2> QED
      BY <1>2, <1>4, <2>3, AnswerKeeps
  <1> QED
    BY <1>3, <1>4 DEF Return
-----------------------------------------------------------------------------
\* Nothing is created yet.
LEMMA InitEstablishes == Init => IInv
  BY DEF Init, IInv, Shape, LoopsOfRoute, Buffers, OneCallIsCyclicConv, CorrInPlaceSafe,
         OlaPrefixSummed

\* So every step of the specification keeps the invariant.
LEMMA StepKeeps == IInv /\ [Next]_vars => IInv'
  <1> SUFFICES ASSUME IInv, [Next]_vars PROVE IInv'
    OBVIOUS
  <1>1. CASE \E n \in 1..Ceiling : Create(n)
    BY <1>1, CreateKeeps
  <1>2. CASE pc = "ready" /\ \E a \in Idx(N) : Execute(a)
    BY <1>2, ExecuteKeeps
  <1>3. CASE Tiny
    BY <1>3, TinyKeeps
  <1>4. CASE OnIo
    BY <1>4, OnIoKeeps
  <1>5. CASE Load
    BY <1>5, LoadKeeps
  <1>6. CASE Wrap
    BY <1>6, WrapKeeps
  <1>7. CASE TailWeld
    BY <1>7, TailWeldKeeps
  <1>8. CASE Corr
    BY <1>8, CorrKeeps
  <1>9. CASE OlaStart
    BY <1>9, OlaStartKeeps
  <1>10. CASE OlaPiece
    BY <1>10, OlaPieceKeeps
  <1>11. CASE Return
    BY <1>11, ReturnKeeps
  <1>12. CASE UNCHANGED vars
    <2>1. SamePlan /\ x' = x /\ pc' = pc /\ io' = io /\ buf' = buf /\ buf2' = buf2 /\ m' = m
      BY <1>12, PlanStays DEF vars, plan
    <2> QED
      BY <2>1 DEF IInv, SamePlan, Shape, LoopsOfRoute, Buffers, OneCallIsCyclicConv,
                  CorrInPlaceSafe, OlaPrefixSummed
  <1> QED
    BY <1>1, <1>2, <1>3, <1>4, <1>5, <1>6, <1>7, <1>8, <1>9, <1>10, <1>11, <1>12 DEF Next

\* In every reachable state the invariant holds.
LEMMA AlwaysIInv == Spec => []IInv
  BY InitEstablishes, StepKeeps, PTL DEF Spec

\* One fft_execute_conv_fp64 leaves the exact cyclic convolution of its input
\* with h in io: for every family ceiling and number of direct taps, every
\* length up to the ceiling and every route (fft.h:225-251).
THEOREM OneCallConvolves == Spec => []OneCallIsCyclicConv
  <1>1. IInv => OneCallIsCyclicConv
    BY DEF IInv
  <1> QED
    BY <1>1, AlwaysIInv, PTL

\* The in-place correction never reads a sample of the input that it has
\* overwritten, although it reads the input's tail to the last output.
THEOREM CorrectionInPlace == Spec => []CorrInPlaceSafe
  <1>1. IInv => CorrInPlaceSafe
    BY DEF IInv
  <1> QED
    BY <1>1, AlwaysIInv, PTL

\* After m pieces io is the convolution of exactly the first m*P samples,
\* also where pieces overlap in io and the last one is short.
THEOREM PiecesAddUp == Spec => []OlaPrefixSummed
  <1>1. IInv => OlaPrefixSummed
    BY DEF IInv
  <1> QED
    BY <1>1, AlwaysIInv, PTL
-----------------------------------------------------------------------------
(* The real table, with the code's ceiling of 32768 and its 8 direct taps. *)

\* The code's ceiling and direct taps are sizes the theorems are about.
LEMMA RealSizes == Sizes(RealCeiling, RealTinyTaps) /\ 2 * RealTinyTaps + 2 <= RealCeiling
  <1>1. RealCeiling \in PowersOfTwo
    BY DEF RealCeiling, PowersOfTwo
  <1>2. RealTinyTaps \in 1..RealCeiling
    BY DEF RealTinyTaps, RealCeiling
  <1> QED
    BY <1>1, <1>2 DEF Sizes, RealCeiling, RealTinyTaps

\* Only a question to the real table changes its answer, and Forget takes it back.
LEMMA AnswersOnly == MCSpec => []Answered(RealCeiling, RealTinyTaps, table)
  <1>1. MCInit => Answered(RealCeiling, RealTinyTaps, table)
    BY DEF MCInit, Answered
  <1>2. Answered(RealCeiling, RealTinyTaps, table) /\ [MCNext]_<<vars, table>>
          => Answered(RealCeiling, RealTinyTaps, table)'
    <2> SUFFICES ASSUME Answered(RealCeiling, RealTinyTaps, table), [MCNext]_<<vars, table>>
                 PROVE  Answered(RealCeiling, RealTinyTaps, table)'
      OBVIOUS
    <2>1. CASE Ask
      <3>1. PICK n \in 1..RealCeiling : Answers(RealCeiling, RealTinyTaps, n, table')
        BY <2>1 DEF Ask
      <3>2. Layout(RealCeiling, RealTinyTaps, table', n)
        BY <3>1, RealSizes, TableAnswers
      <3> QED
        BY <3>1, <3>2 DEF Answered
    <2>2. CASE Forget
      BY <2>2 DEF Forget, Answered
    <2>3. CASE table' = table
      BY <2>3 DEF Answered, RealCeiling, RealTinyTaps
    <2> QED
      BY <2>1, <2>2, <2>3 DEF MCNext, Convolve
  <1> QED
    BY <1>1, <1>2, PTL DEF MCSpec

\* The welds a route of the real table asks for can be built.
THEOREM RealWeldsBuildable == MCSpec => []WeldsBuildable
  <1>1. Answered(RealCeiling, RealTinyTaps, table) => WeldsBuildable
    BY RealSizes, AnsweredIsSound DEF WeldsBuildable, SoundRoute
  <1> QED
    BY <1>1, AnswersOnly, PTL

\* An uncorrected weld of the real table never aliases, and its pieces cover
\* the input.
THEOREM RealNoAliasing == MCSpec => []NoAliasing
  <1>1. Answered(RealCeiling, RealTinyTaps, table) => NoAliasing
    BY RealSizes, AnsweredIsSound DEF NoAliasing, SoundRoute
  <1> QED
    BY <1>1, AnswersOnly, PTL

\* A corrected weld of the real table wraps exactly what the correction
\* computes, and the correlation does not wrap.
THEOREM RealCorrectionFits == MCSpec => []CorrectionFits
  <1>1. Answered(RealCeiling, RealTinyTaps, table) => CorrectionFits
    BY RealSizes, AnsweredIsSound DEF CorrectionFits, SoundRoute
  <1> QED
    BY <1>1, AnswersOnly, PTL

\* The real table's ranges are the ones its comment documents.
THEOREM RealTableAsDocumented == MCSpec => []RouteTableAsDocumented
  <1>1. Answered(RealCeiling, RealTinyTaps, table) => RouteTableAsDocumented
    BY RealSizes, AnsweredAsDocumented DEF RouteTableAsDocumented
  <1> QED
    BY <1>1, AnswersOnly, PTL
=============================================================================
