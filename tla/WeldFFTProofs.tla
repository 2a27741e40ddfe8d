---------------------------- MODULE WeldFFTProofs ----------------------------
(***************************************************************************)
(* Proofs about WeldFFT for every length from MinWeld to MaxWeld, every    *)
(* list of radices the planner may name for it, every kind and every       *)
(* input.                                                                  *)
(*                                                                         *)
(* PaddingStaysInSlack is a fact about the sweeps a program can hold: what *)
(* the planner's lists are (WeldListHas), where their stages' columns lie  *)
(* (WeldBlocks and on), which sweeps a kernel's line is made of            *)
(* (WeldBuilt), and that the slack covers the widest codelet among them    *)
(* (LanesFit).  WInv says that the build fixes all of it once.             *)
(***************************************************************************)
EXTENDS WeldFFT, ConvMathProofs, SequenceTheorems

\* Before the first stage a block is one element.
LEMMA BlockOfNone == ASSUME NEW rad PROVE B(rad, -1) = 1
  <1>1. 0..(-1) = {}
    OBVIOUS
  <1> QED
    BY <1>1, ProductOfNone DEF B

\* A stage multiplies the blocks by its radix.
LEMMA BlockGrows ==
  ASSUME NEW rad, NEW i \in Nat, \A j \in 0..i : rad[j] \in Int
  PROVE  /\ B(rad, i) = rad[i] * B(rad, i - 1)
         /\ B(rad, i - 1) \in Int
  <1>1. IsFiniteSet(0..i)
    BY FS_Interval
  <1>2. i \in 0..i /\ (0..i) \ {i} = 0..(i - 1)
    OBVIOUS
  <1> QED
    BY <1>1, <1>2, ProductTimes DEF B

\* A list of lists with elements in S flattens to a list with elements in S:
\* the recursion has a solution, and at no first place does it leave Seq(S).
LEMMA FlattenHas ==
  ASSUME NEW S, NEW ss \in Seq(Seq(S))
  PROVE  FlattenSeq(ss) \in Seq(S)
  <1> DEFINE m == Len(ss)
             Term(f, i) == IF i = 1 THEN ss[i] ELSE f[i - 1] \o ss[i]
             Does(f) == f = [i \in 1..m |-> Term(f, i)]
             flat == CHOOSE f : Does(f)
             Good(k) == \E f : f = [i \in 1..k |-> Term(f, i)]
             Bad == {k \in Nat : ~Good(k)}
  <1>m. m \in Nat
    BY LenProperties
  <1>1. CASE m = 0
    <2>1. ss = <<>>
      BY <1>1, EmptySeq
    <2> QED
      BY <1>1, <2>1, EmptySeq DEF FlattenSeq
  <1>2. CASE m # 0
    <2>1. FlattenSeq(ss) = flat[m]
      BY <1>2 DEF FlattenSeq
    <2>2. Good(0)
      <3>1. [i \in 1..0 |-> 0] = [i \in 1..0 |-> Term([l \in 1..0 |-> 0], i)]
        OBVIOUS
      <3> QED
        BY <3>1
    <2>3. ASSUME NEW k \in Nat, Good(k) PROVE Good(k + 1)
      <3>1. PICK g : g = [i \in 1..k |-> Term(g, i)]
        BY <2>3
      <3> DEFINE g2 == [i \in 1..(k + 1) |-> Term(g, i)]
      <3>2. ASSUME NEW i \in 1..(k + 1) PROVE Term(g, i) = Term(g2, i)
        <4>1. CASE i = 1
          BY <4>1
        <4>2. CASE i # 1
          <5>1. i - 1 \in 1..k /\ i - 1 \in 1..(k + 1)
            BY <4>2
          <5>2. g2[i - 1] = g[i - 1]
            BY <3>1, <5>1
          <5> QED
            BY <4>2, <5>2
        <4> QED
          BY <4>1, <4>2
      <3>3. g2 = [i \in 1..(k + 1) |-> Term(g2, i)]
        BY <3>2
      <3> QED
        BY <3>3
    <2> HIDE DEF Good
    <2>4. Bad = {}
      <3> SUFFICES ASSUME Bad # {} PROVE FALSE
        OBVIOUS
      <3>1. PICK k \in Bad : \A l \in Bad : k <= l
        BY LeastNatural
      <3>2. k # 0
        BY <2>2
      <3>3. k - 1 \in Nat /\ k - 1 \notin Bad
        BY <3>1, <3>2
      <3>4. Good(k - 1 + 1)
        BY <2>3, <3>3
      <3> QED
        BY <3>1, <3>4
    <2>5. Does(flat)
      <3>1. \E f : Does(f)
        BY <1>m, <2>4 DEF Good
      <3> QED
        BY <3>1
    <2> HIDE DEF flat, m
    <2> DEFINE Out == {k \in Nat : k \in 1..m /\ flat[k] \notin Seq(S)}
    <2>6. Out = {}
      <3> SUFFICES ASSUME Out # {} PROVE FALSE
        OBVIOUS
      <3>1. PICK k \in Out : \A l \in Out : k <= l
        BY LeastNatural
      <3>2. k \in 1..m /\ ss[k] \in Seq(S)
        BY ElementOfSeq DEF m
      <3>3. k # 1
        BY <1>m, <2>5, <3>1, <3>2
      <3>4. k - 1 \in 1..m /\ k - 1 \notin Out
        BY <1>m, <3>1, <3>2, <3>3
      <3>5. flat[k - 1] \in Seq(S)
        BY <1>m, <3>4
      <3>6. flat[k] = flat[k - 1] \o ss[k]
        BY <1>m, <2>5, <3>2, <3>3
      <3> QED
        BY <3>1, <3>2, <3>5, <3>6, ConcatProperties
    <2> QED
      BY <1>2, <1>m, <2>1, <2>6
  <1> QED
    BY <1>1, <1>2

\* A cofactor of a divisor divides.
LEMMA CofactorDivides ==
  ASSUME NEW n \in Nat, n >= 1, NEW d \in 1..n, n % d = 0, NEW r \in Nat, r >= 2, d % r = 0
  PROVE  d \div r \in 1..n /\ n % (d \div r) = 0 /\ d \div r < d
  <1> DEFINE q == d \div r
             k == n \div d
  <1>1. d = r * q /\ q \in Nat /\ n = d * k /\ k \in Nat
    BY SMT
  <1> HIDE DEF q, k
  <1>2. q >= 1
    <2> SUFFICES ASSUME q = 0 PROVE FALSE
      BY <1>1
    <2> QED
      BY <1>1
  <1>3. q < d
    <2>1. \A a \in Nat, b \in Nat : a >= 2 /\ b >= 1 => b < a * b
      BY SMT
    <2> QED
      BY <1>1, <1>2, <2>1
  <1>4. n = q * (r * k) /\ r * k \in Nat
    <2>1. \A a, b, c \in Nat : (a * b) * c = b * (a * c) /\ a * c \in Nat
      BY SMT
    <2> QED
      BY <1>1, <2>1
  <1>5. n % q = 0
    <2>1. \A a \in Nat, b \in Nat : a >= 1 => (a * b) % a = 0
      BY SMT
    <2> QED
      BY <1>1, <1>2, <1>4, <2>1
  <1> QED
    BY <1>2, <1>3, <1>5 DEF q

\* What weld_gen generates are lists whose stages all have a leaf.
LEMMA WeldListIs ==
  ASSUME NEW n \in Nat, n >= 1, NEW rad \in WeldLists(n)
  PROVE  /\ Viable(rad, n)
         /\ \E k \in Nat : DOMAIN rad = 0..(k - 1)
  <1> DEFINE Divs == {d \in 1..n : n % d = 0}
             Upto(m) == {d \in Divs : d <= m}
             Part(f, rem, r) == {<<r>> \o tl : tl \in f[rem \div r]}
             Term(f, rem) ==
                 IF rem = 1 THEN {<<>>}
                 ELSE UNION {Part(f, rem, r) : r \in {e \in WeldFactors : rem % e = 0}}
             Does(f) == f = [rem \in Divs |-> Term(f, rem)]
             tails == CHOOSE f : Does(f)
             Good(m) == \E f : f = [rem \in Upto(m) |-> Term(f, rem)]
             Bad == {m \in Nat : ~Good(m)}
  <1>1. Viable(rad, n) /\ \E tl \in tails[n] : rad = ListOf(tl)
    BY DEF WeldLists
  <1>2. \A r \in WeldFactors : r \in Nat /\ r >= 2
    BY DEF WeldFactors
  <1>3. ASSUME NEW d \in Divs, NEW r \in WeldFactors, d % r = 0
        PROVE  d \div r \in Divs /\ d \div r < d
    BY <1>2, <1>3, CofactorDivides
  <1>4. Good(0)
    <2>1. Upto(0) = {}
      OBVIOUS
    <2>2. [i \in {} |-> 0] = [i \in {} |-> Term([l \in {} |-> 0], i)]
      OBVIOUS
    <2> QED
      BY <2>1, <2>2
  <1>5. ASSUME NEW m \in Nat, Good(m) PROVE Good(m + 1)
    <2>1. PICK g : g = [rem \in Upto(m) |-> Term(g, rem)]
      BY <1>5
    <2> DEFINE g2 == [rem \in Upto(m + 1) |-> Term(g, rem)]
    <2>2. ASSUME NEW d \in Upto(m + 1) PROVE Term(g, d) = Term(g2, d)
      <3>1. ASSUME NEW r \in WeldFactors, d % r = 0 PROVE g[d \div r] = g2[d \div r]
        <4>1. d \div r \in Divs /\ d \div r < d /\ d <= m + 1 /\ d \in Int /\ d \div r \in Int
          BY <1>3, <3>1
        <4>2. d \div r \in Upto(m) /\ d \div r \in Upto(m + 1)
          BY <4>1
        <4> QED
          BY <2>1, <4>2
      <3>2. \A r \in {e \in WeldFactors : d % e = 0} : Part(g, d, r) = Part(g2, d, r)
        BY <3>1
      <3> HIDE DEF Part, g2
      <3>3. {Part(g, d, r) : r \in {e \in WeldFactors : d % e = 0}}
              = {Part(g2, d, r) : r \in {e \in WeldFactors : d % e = 0}}
        BY <3>2
      <3> QED
        BY <3>3
    <2>3. g2 = [rem \in Upto(m + 1) |-> Term(g2, rem)]
      BY <2>2
    <2> QED
      BY <2>3
  <1> HIDE DEF Good
  <1>6. Bad = {}
    <2> SUFFICES ASSUME Bad # {} PROVE FALSE
      OBVIOUS
    <2>1. PICK m \in Bad : \A l \in Bad : m <= l
      BY LeastNatural
    <2>2. m # 0
      BY <1>4
    <2>3. m - 1 \in Nat /\ m - 1 \notin Bad
      BY <2>1, <2>2
    <2>4. Good(m - 1 + 1)
      BY <1>5, <2>3
    <2> QED
      BY <2>1, <2>4
  <1>7. Does(tails)
    <2>1. Upto(n) = Divs
      OBVIOUS
    <2>2. Good(n)
      BY <1>6
    <2>3. PICK f : f = [rem \in Upto(n) |-> Term(f, rem)]
      BY <2>2 DEF Good
    <2>4. Does(f)
      BY <2>1, <2>3
    <2> HIDE DEF Does
    <2> QED
      BY <2>4
  <1> HIDE DEF tails
  <1> DEFINE Out == {m \in Nat : m \in Divs /\ ~(tails[m] \subseteq Seq(Nat))}
  <1>8. Out = {}
    <2> SUFFICES ASSUME Out # {} PROVE FALSE
      OBVIOUS
    <2>1. PICK m \in Out : \A l \in Out : m <= l
      BY LeastNatural
    <2>2. m \in Divs /\ m \in Nat /\ tails[m] = Term(tails, m)
      BY <1>7
    <2>3. m # 1
      <3> SUFFICES ASSUME m = 1 PROVE FALSE
        OBVIOUS
      <3>1. tails[m] = {<<>>}
        BY <2>2
      <3>2. <<>> \in Seq(Nat)
        OBVIOUS
      <3> QED
        BY <3>1, <3>2
    <2>4. ASSUME NEW r \in WeldFactors, m % r = 0 PROVE tails[m \div r] \subseteq Seq(Nat)
      <3>1. m \div r \in Divs /\ m \div r < m /\ m \div r \in Nat
        BY <1>3, <2>2, <2>4
      <3>2. m \div r \notin Out
        <4> HIDE DEF Out
        <4> QED
          BY <2>1, <2>2, <3>1
      <3> QED
        BY <3>1, <3>2
    <2>5. ASSUME NEW v \in tails[m] PROVE v \in Seq(Nat)
      <3>0. PICK r \in WeldFactors : m % r = 0 /\ v \in Part(tails, m, r)
        <4> HIDE DEF Part
        <4> QED
          BY <2>2, <2>3
      <3>1. PICK tl \in tails[m \div r] : v = <<r>> \o tl
        BY <3>0
      <3>2. tl \in Seq(Nat) /\ <<r>> \in Seq(Nat)
        BY <1>2, <2>4, <3>0, <3>1
      <3> QED
        BY <3>1, <3>2, ConcatProperties
    <2> QED
      BY <2>5
  <1>9. PICK tl \in tails[n] : rad = ListOf(tl)
    BY <1>1
  <1>10. tl \in Seq(Nat)
    <2>1. n \in Divs
      OBVIOUS
    <2> QED
      BY <1>8, <1>9, <2>1
  <1>11. Len(tl) \in Nat /\ DOMAIN rad = 0..(Len(tl) - 1)
    BY <1>9, <1>10, LenProperties DEF ListOf, Idx
  <1> QED
    BY <1>1, <1>11

\* The radix and the place of a stage that has a leaf.
LEMMA LeafIs ==
  ASSUME NEW rad, NEW i \in Nat, StageKind(rad, i) # "none"
  PROVE  /\ rad[i] \in 2..32
         /\ StageKind(rad, i) \in Own \cup {"n1_contig", "t1", "n1", "n1_odd"}
         /\ StageKind(rad, i) = "n1_contig" => i = 0
         /\ i = 0 => StageKind(rad, i) \in Own \cup {"n1_contig"}
  BY DEF StageKind, Pow2Radices, N1Set, T1Set, Own

\* A list that can be built: two stages or more, each with a leaf, that
\* multiply up to the length.
IsWeldList(rad, n) ==
    /\ FinalStage(rad) \in Nat /\ FinalStage(rad) >= 1
    /\ DOMAIN rad = 0..FinalStage(rad)
    /\ \A i \in DOMAIN rad : rad[i] \in 2..32 /\ StageKind(rad, i) # "none"
    /\ B(rad, FinalStage(rad)) = n

\* The lists the planner may name are such lists.
LEMMA WeldListHas ==
  ASSUME NEW n \in Nat, n >= 1, NEW rad \in WeldLists(n)
  PROVE  IsWeldList(rad, n)
  <1>1. Viable(rad, n) /\ \E k \in Nat : DOMAIN rad = 0..(k - 1)
    BY WeldListIs
  <1>2. PICK k \in Nat : DOMAIN rad = 0..(k - 1)
    BY <1>1
  <1>3. Cardinality(DOMAIN rad) = k
    <2>1. 0 <= k - 1 + 1
      OBVIOUS
    <2> QED
      BY <1>2, FS_Interval
  <1>4. k \in 2..8 /\ Product(DOMAIN rad, rad) = n
        /\ \A i \in DOMAIN rad : StageKind(rad, i) # "none"
    BY <1>1, <1>3 DEF Viable, MaxStages
  <1>5. FinalStage(rad) = k - 1
    BY <1>3 DEF FinalStage
  <1>6. ASSUME NEW i \in DOMAIN rad PROVE rad[i] \in 2..32
    <2>1. i \in Nat /\ StageKind(rad, i) # "none"
      BY <1>2, <1>4
    <2> QED
      BY <2>1, LeafIs
  <1>7. B(rad, FinalStage(rad)) = n
    BY <1>2, <1>4, <1>5 DEF B
  <1> QED
    BY <1>2, <1>4, <1>5, <1>6, <1>7 DEF IsWeldList

\* Its blocks and what comes before them.
LEMMA WeldBlocks ==
  ASSUME NEW rad, NEW n, IsWeldList(rad, n), NEW i \in DOMAIN rad
  PROVE  /\ B(rad, i) \in Nat /\ B(rad, i) >= 1
         /\ Before(rad, i) \in Nat /\ Before(rad, i) >= 1
         /\ B(rad, i) = rad[i] * Before(rad, i)
  <1> DEFINE f == FinalStage(rad)
             Good(j) == B(rad, j) \in Nat /\ B(rad, j) >= 1
             Bad == {j \in Nat : j <= f /\ ~Good(j)}
  <1>0. f \in Nat /\ DOMAIN rad = 0..f /\ \A j \in DOMAIN rad : rad[j] \in 2..32
    BY DEF IsWeldList
  <1>1. f \in Nat /\ DOMAIN rad = 0..f /\ \A j \in 0..f : rad[j] \in Nat /\ rad[j] >= 1
    <2>1. ASSUME NEW j \in 0..f PROVE rad[j] \in Nat /\ rad[j] >= 1
      <3>1. rad[j] \in 2..32
        BY <1>0
      <3> QED
        BY <3>1
    <2> QED
      BY <1>0, <2>1
  <1>2. ASSUME NEW j \in 0..f PROVE B(rad, j) = rad[j] * B(rad, j - 1)
    <2>1. j \in Nat /\ \A m \in 0..j : rad[m] \in Int
      BY <1>1
    <2> QED
      BY <2>1, BlockGrows
  <1>3. \A a, b \in Nat : a >= 1 /\ b >= 1 => a * b \in Nat /\ a * b >= 1
    BY SMT
  <1>4. B(rad, -1) = 1
    BY BlockOfNone
  <1>5. Bad = {}
    <2> SUFFICES ASSUME Bad # {} PROVE FALSE
      OBVIOUS
    <2>1. PICK j \in Bad : \A m \in Bad : j <= m
      BY LeastNatural
    <2>2. j \in 0..f
      BY <1>1
    <2>3. B(rad, j - 1) \in Nat /\ B(rad, j - 1) >= 1
      <3>1. CASE j = 0
        BY <1>4, <3>1
      <3>2. CASE j # 0
        <4>1. j - 1 \in Nat /\ j - 1 <= f
          BY <1>1, <2>2, <3>2
        <4>2. j - 1 \notin Bad
          <5> SUFFICES ASSUME j - 1 \in Bad PROVE FALSE
            OBVIOUS
          <5>1. j <= j - 1
            <6> HIDE DEF Bad
            <6> QED
              BY <2>1
          <5> QED
            BY <2>2, <5>1
        <4> QED
          BY <4>1, <4>2
      <3> QED
        BY <3>1, <3>2
    <2>4. Good(j)
      BY <1>1, <1>2, <1>3, <2>2, <2>3
    <2> QED
      BY <2>1, <2>4
  <1>6. \A j \in 0..f : Good(j)
    BY <1>5
  <1>7. Before(rad, i) = B(rad, i - 1) /\ Before(rad, i) \in Nat /\ Before(rad, i) >= 1
    <2>1. CASE i = 0
      BY <1>4, <2>1 DEF Before
    <2>2. CASE i # 0
      <3>1. i - 1 \in 0..f
        BY <1>1, <2>2
      <3> QED
        BY <1>6, <2>2, <3>1 DEF Before
    <2> QED
      BY <2>1, <2>2
  <1> QED
    BY <1>1, <1>2, <1>6, <1>7

\* The slack has room for the padding lanes of every stage that has some.
LEMMA SlackHolds ==
  ASSUME NEW rad, NEW n, IsWeldList(rad, n), NEW i \in DOMAIN rad
  PROVE  /\ SlackDoubles(rad) \in Nat /\ SlackDoubles(rad) >= 64
         /\ StageKind(rad, i) = "n1_contig" /\ (n \div rad[0]) % 2 = 1
               => SlackDoubles(rad) >= 2 * rad[0]
         /\ StageKind(rad, i) = "n1_odd" => SlackDoubles(rad) >= 2 * B(rad, i)
  <1> DEFINE Need(l) == CASE StageKind(rad, l) = "n1_contig" /\ (n \div rad[0]) % 2 = 1
                               -> rad[0] * 2 + 8
                          [] StageKind(rad, l) = "n1_odd" -> B(rad, l) * 2 + 8
                          [] OTHER -> 0
             need == [l \in DOMAIN rad |-> Need(l)]
  <1>1. /\ FinalStage(rad) \in Nat /\ DOMAIN rad = 0..FinalStage(rad)
        /\ rad[0] \in 2..32 /\ B(rad, FinalStage(rad)) = n
    <2>1. 0 \in DOMAIN rad
      BY DEF IsWeldList
    <2> QED
      BY <2>1 DEF IsWeldList
  <1>2. SlackDoubles(rad) = 64 + Total(DOMAIN rad, need)
    BY <1>1 DEF SlackDoubles
  <1>3. IsFiniteSet(DOMAIN rad)
    BY <1>1, FS_Interval
  <1>4. ASSUME NEW l \in DOMAIN rad PROVE Need(l) \in Nat
    <2>1. B(rad, l) \in Nat /\ rad[0] \in Nat
      <3>1. B(rad, l) \in Nat
        BY WeldBlocks
      <3>2. rad[0] \in Nat
        <4>1. \A v \in 2..32 : v \in Nat
          OBVIOUS
        <4> QED
          BY <1>1, <4>1, Zenon
      <3> QED
        BY <3>1, <3>2
    <2>2. B(rad, l) * 2 + 8 \in Nat /\ rad[0] * 2 + 8 \in Nat
      BY <2>1
    <2> QED
      BY <2>2
  <1>5. Total(DOMAIN rad, need) \in Nat /\ need[i] <= Total(DOMAIN rad, need)
    <2>1. \A l \in DOMAIN rad : need[l] \in Nat
      BY <1>4
    <2> HIDE DEF need
    <2> QED
      BY <1>3, <2>1, TotalAtLeast
  <1>6. need[i] = Need(i)
    OBVIOUS
  <1>7. B(rad, i) \in Nat /\ rad[0] \in Nat
    <2>1. B(rad, i) \in Nat
      BY WeldBlocks
    <2>2. rad[0] \in Nat
      <3>1. \A v \in 2..32 : v \in Nat
        OBVIOUS
      <3> QED
        BY <1>1, <3>1, Zenon
    <2> QED
      BY <2>1, <2>2
  <1>8. SlackDoubles(rad) \in Nat /\ SlackDoubles(rad) >= 64
        /\ Need(i) <= SlackDoubles(rad)
    <2> HIDE DEF need, Need
    <2>1. Need(i) \in Nat
      BY <1>4
    <2> QED
      BY <1>2, <1>5, <1>6, <2>1
  <1>9. ASSUME StageKind(rad, i) = "n1_contig", (n \div rad[0]) % 2 = 1
        PROVE  SlackDoubles(rad) >= 2 * rad[0]
    <2>1. Need(i) = rad[0] * 2 + 8
      BY <1>9
    <2> HIDE DEF Need
    <2> QED
      BY <1>7, <1>8, <2>1
  <1>10. ASSUME StageKind(rad, i) = "n1_odd"
         PROVE  SlackDoubles(rad) >= 2 * B(rad, i)
    <2>1. Need(i) = B(rad, i) * 2 + 8
      BY <1>10
    <2> HIDE DEF Need
    <2> QED
      BY <1>7, <1>8, <2>1
  <1> QED
    BY <1>8, <1>9, <1>10

\* Sweeps a program may have: only a codelet head runs contiguously, only a
\* stage with an odd number of columns pads them.
Doings == {"gather", "permute", "contig", "sweep", "twiddles", "t1", "n1", "n1_odd",
           "store", "copy", "conjmul", "invn"}

\* Where a sweep may store.
Targets == {"scratch", "scratch2", "io"}

Sweeps(rad) ==
    {w \in [do : Doings, t : 0..FinalStage(rad), mode : 0..2, to : Targets] :
        /\ w.do = "contig" => w.t = 0 /\ StageKind(rad, 0) = "n1_contig"
        /\ w.do = "n1_odd" => StageKind(rad, w.t) = "n1_odd"}

\* A sweep as the program writes it down.
LEMMA SweepIs ==
  ASSUME NEW rad, NEW i \in 0..FinalStage(rad), NEW mode \in 0..2,
         NEW do \in Doings, NEW to \in Targets,
         do = "contig" => i = 0 /\ StageKind(rad, 0) = "n1_contig",
         do = "n1_odd" => StageKind(rad, i) = "n1_odd"
  PROVE  Sweep(do, i, mode, to) \in Sweeps(rad)
  BY DEF Sweep, Sweeps

\* A codelet stage behind the first, with or without its sweep of twiddles.
LEMMA CodeletIs ==
  ASSUME NEW k, NEW i \in 0..FinalStage(k.rad), NEW mode \in 0..2, NEW to \in Targets,
         k.leaf[i] = StageKind(k.rad, i), k.leaf[i] \in {"t1", "n1", "n1_odd"}
  PROVE  CodeletSweeps(k, i, mode, to) \in Seq(Sweeps(k.rad))
  <1> DEFINE S == Sweeps(k.rad)
             one == Sweep(k.leaf[i], i, mode, to)
             two == Sweep("twiddles", i, mode, "scratch")
  <1>0. /\ k.leaf[i] \in Doings /\ k.leaf[i] # "contig"
        /\ "twiddles" \in Doings /\ "scratch" \in Targets
    BY DEF Doings, Targets
  <1>1. one \in S
    BY <1>0, SweepIs
  <1>2. two \in S
    <2>1. "twiddles" # "contig" /\ "twiddles" # "n1_odd"
      OBVIOUS
    <2> QED
      BY <1>0, <2>1, SweepIs
  <1>3. CodeletSweeps(k, i, mode, to) = IF k.leaf[i] = "t1" THEN <<one>> ELSE <<two>> \o <<one>>
    BY DEF CodeletSweeps
  <1> HIDE DEF one, two, S
  <1>4. <<one>> \in Seq(S) /\ <<two>> \in Seq(S)
    BY <1>1, <1>2
  <1>5. <<two>> \o <<one>> \in Seq(S)
    BY <1>4, ConcatProperties
  <1> QED
    BY <1>3, <1>4, <1>5 DEF S

\* The first or the second half of a program: entry pass, stages, exit pass.
LEMMA HalfIs ==
  ASSUME NEW k, NEW n, IsWeldList(k.rad, n),
         k.leaf = [i \in DOMAIN k.rad |-> StageKind(k.rad, i)],
         NEW mode \in 0..2
  PROVE  Half(k, mode) \in Seq(Sweeps(k.rad))
  <1> DEFINE f == FinalStage(k.rad)
             S == Sweeps(k.rad)
             Inner(i) == IF k.leaf[i] \in Own
                         THEN <<Sweep("sweep", i, mode, "scratch")>>
                         ELSE CodeletSweeps(k, i, mode, "scratch")
             head == IF k.leaf[0] \in Own THEN <<Sweep("gather", 0, mode, "scratch")>>
                     ELSE <<Sweep("permute", 0, mode, "scratch"),
                            Sweep("contig", 0, mode, "scratch")>>
             last == CASE k.leaf[f] \in Own -> <<Sweep("store", f, mode, "io")>>
                       [] k.leaf[f] = "n1"     -> CodeletSweeps(k, f, mode, "io")
                       [] k.leaf[f] = "t1"     -> CodeletSweeps(k, f, mode, "scratch")
                                                  \o <<Sweep("copy", f, mode, "scratch")>>
                       [] k.leaf[f] = "n1_odd" -> CodeletSweeps(k, f, mode, "scratch2")
                                                  \o <<Sweep("copy", f, mode, "scratch2")>>
             inner == [i \in 1..(f - 1) |-> Inner(i)]
             mul == IF mode = 1 /\ k.boundary.conjMul
                    THEN <<Sweep("conjmul", f, mode, "io")>> ELSE <<>>
             inv == IF mode = 2 /\ k.boundary.invN
                    THEN <<Sweep("invn", f, mode, "io")>> ELSE <<>>
  <1>1. f \in Nat /\ f >= 1 /\ DOMAIN k.rad = 0..f
    BY DEF IsWeldList
  <1>2. ASSUME NEW i \in 0..f
        PROVE  /\ k.leaf[i] = StageKind(k.rad, i)
               /\ k.leaf[i] \in Own \cup {"n1_contig", "t1", "n1", "n1_odd"}
               /\ k.leaf[i] = "n1_contig" => i = 0
               /\ i = 0 => k.leaf[i] \in Own \cup {"n1_contig"}
    <2>1. i \in Nat /\ i \in DOMAIN k.rad /\ StageKind(k.rad, i) # "none"
      BY <1>1 DEF IsWeldList
    <2>2. k.leaf[i] = StageKind(k.rad, i)
      BY <2>1
    <2> QED
      BY <2>1, <2>2, LeafIs
  <1>3. Half(k, mode) = (((head \o FlattenSeq(inner)) \o last) \o mul) \o inv
    BY DEF Half
  <1>t. "scratch" \in Targets /\ "scratch2" \in Targets /\ "io" \in Targets
    BY DEF Targets
  <1>4. ASSUME NEW i \in 0..f, NEW do \in {"sweep", "gather", "permute", "store", "copy", "conjmul", "invn"},
               NEW to \in Targets
        PROVE  Sweep(do, i, mode, to) \in S
    <2>1. do \in Doings /\ do # "contig" /\ do # "n1_odd"
      BY DEF Doings
    <2> QED
      BY <2>1, SweepIs
  <1>5. head \in Seq(S)
    <2>1. CASE k.leaf[0] \in Own
      <3>1. Sweep("gather", 0, mode, "scratch") \in S
        BY <1>1, <1>4, <1>t
      <3> HIDE DEF S
      <3> QED
        BY <2>1, <3>1
    <2>2. CASE k.leaf[0] \notin Own
      <3>1. StageKind(k.rad, 0) = "n1_contig"
        BY <1>1, <1>2, <2>2
      <3>2. Sweep("permute", 0, mode, "scratch") \in S
        BY <1>1, <1>4, <1>t
      <3>3. Sweep("contig", 0, mode, "scratch") \in S
        <4>1. "contig" \in Doings /\ "contig" # "n1_odd" /\ 0 \in 0..f
          BY <1>1 DEF Doings
        <4> QED
          BY <1>t, <3>1, <4>1, SweepIs
      <3> HIDE DEF S
      <3> QED
        BY <2>2, <3>2, <3>3
    <2> QED
      BY <2>1, <2>2
  <1>6. ASSUME NEW i \in 1..(f - 1) PROVE Inner(i) \in Seq(S)
    <2>1. i \in 0..f /\ i # 0
      BY <1>1
    <2>2. CASE k.leaf[i] \in Own
      <3>1. Sweep("sweep", i, mode, "scratch") \in S
        BY <1>4, <1>t, <2>1
      <3> HIDE DEF S
      <3> QED
        BY <2>2, <3>1
    <2>3. CASE k.leaf[i] \notin Own
      <3>1. k.leaf[i] \in {"t1", "n1", "n1_odd"}
        BY <1>2, <2>1, <2>3
      <3> QED
        BY <1>2, <1>t, <2>1, <2>3, <3>1, CodeletIs
    <2> QED
      BY <2>2, <2>3
  <1>7. FlattenSeq(inner) \in Seq(S)
    <2> HIDE DEF Inner, S
    <2>1. inner \in Seq(Seq(S))
      <3> DEFINE m == f - 1
      <3>1. m \in Nat
        BY <1>1
      <3>2. inner \in [1..m -> Seq(S)]
        BY <1>6
      <3> HIDE DEF m, inner
      <3> QED
        BY <3>1, <3>2, SeqDef
    <2> HIDE DEF inner
    <2> QED
      BY <2>1, FlattenHas
  <1>8. last \in Seq(S)
    <2>1. f \in 0..f /\ f # 0
      BY <1>1
    <2>2. CASE k.leaf[f] \in Own
      <3>1. Sweep("store", f, mode, "io") \in S
        BY <1>4, <1>t, <2>1
      <3>2. last = <<Sweep("store", f, mode, "io")>>
        BY <2>2 DEF Own
      <3> HIDE DEF S, last
      <3> QED
        BY <3>1, <3>2
    <2>3. CASE k.leaf[f] \in {"t1", "n1", "n1_odd"}
      <3>1. \A to \in Targets : CodeletSweeps(k, f, mode, to) \in Seq(S)
        BY <1>2, <2>1, <2>3, CodeletIs
      <3>2. \A to \in Targets : <<Sweep("copy", f, mode, to)>> \in Seq(S)
        <4>1. \A to \in Targets : Sweep("copy", f, mode, to) \in S
          BY <1>4, <1>t, <2>1
        <4> HIDE DEF S
        <4> QED
          BY <4>1
      <3>3. \/ last = CodeletSweeps(k, f, mode, "io")
            \/ last = CodeletSweeps(k, f, mode, "scratch") \o <<Sweep("copy", f, mode, "scratch")>>
            \/ last = CodeletSweeps(k, f, mode, "scratch2") \o <<Sweep("copy", f, mode, "scratch2")>>
        BY <2>3 DEF Own
      <3> HIDE DEF S, last
      <3> QED
        BY <1>t, <3>1, <3>2, <3>3, ConcatProperties
    <2> QED
      BY <1>2, <2>1, <2>2, <2>3
  <1>9. mul \in Seq(S) /\ inv \in Seq(S)
    <2>1. Sweep("conjmul", f, mode, "io") \in S /\ Sweep("invn", f, mode, "io") \in S
      BY <1>1, <1>4, <1>t
    <2> HIDE DEF S
    <2> QED
      BY <2>1
  <1> HIDE DEF head, last, inner, mul, inv, S
  <1>10. head \o FlattenSeq(inner) \in Seq(S)
    BY <1>5, <1>7, ConcatProperties
  <1>11. (head \o FlattenSeq(inner)) \o last \in Seq(S)
    BY <1>8, <1>10, ConcatProperties
  <1>12. ((head \o FlattenSeq(inner)) \o last) \o mul \in Seq(S)
    BY <1>9, <1>11, ConcatProperties
  <1>13. (((head \o FlattenSeq(inner)) \o last) \o mul) \o inv \in Seq(S)
    BY <1>9, <1>12, ConcatProperties
  <1> QED
    BY <1>3, <1>13 DEF S

\* A column behind the last one still ends within the blocks.
LEMMA ColumnEnds ==
  ASSUME NEW r \in Nat, r >= 1, NEW p \in Nat, p >= 1, NEW j \in 0..(r - 1)
  PROVE  j * p \in Nat /\ j * p <= r * p - p
  <1>1. \A a, b \in Nat : a * b \in Nat
    BY SMT
  <1>2. j \in Nat /\ r - 1 - j \in Nat
    OBVIOUS
  <1>3. (r - 1 - j) * p \in Nat /\ j * p \in Nat
    BY <1>1, <1>2
  <1>4. (r - 1 - j) * p = r * p - p - j * p
    BY SMT
  <1> QED
    BY <1>3, <1>4

\* The lanes of any sweep a program may have store into the slack and load
\* from within the scratch.
LEMMA LanesFit ==
  ASSUME NEW w \in Sweeps(kernel.rad), IsWeldList(kernel.rad, kernel.n), kernel.n \in Nat,
         kernel.slack = SlackDoubles(kernel.rad) \div 2
  PROVE  /\ PaddingStores(w) \subseteq N..(N + kernel.slack - 1)
         /\ PaddingLoads(w) \subseteq Idx(N + kernel.slack)
  <1> DEFINE n == kernel.n
             rad == kernel.rad
             slack == kernel.slack
             bp == Before(rad, w.t)
             bt == B(rad, w.t)
             r == rad[w.t]
  <1>1. /\ w.t \in DOMAIN rad /\ 0 \in DOMAIN rad /\ n \in Nat
        /\ w.do = "contig" => w.t = 0 /\ StageKind(rad, 0) = "n1_contig"
        /\ w.do = "n1_odd" => StageKind(rad, w.t) = "n1_odd"
    BY DEF Sweeps, IsWeldList
  <1>2. /\ N = n /\ Rad = rad /\ Bp(w.t) = bp /\ Bt(w.t) = bt
    BY DEF N, Rad, Bp, Bt
  <1>3. rad[0] \in Nat /\ r \in Nat /\ r >= 1
    <2>1. rad[0] \in 2..32 /\ r \in 2..32
      BY <1>1 DEF IsWeldList
    <2>2. \A v \in 2..32 : v \in Nat /\ v >= 1
      OBVIOUS
    <2> QED
      BY <2>1, <2>2, Zenon
  <1>4. /\ bt \in Nat /\ bt >= 1 /\ bp \in Nat /\ bp >= 1 /\ bt = r * bp
    BY <1>1, WeldBlocks
  <1>5. /\ SlackDoubles(rad) \in Nat /\ SlackDoubles(rad) >= 64
        /\ w.do = "contig" /\ (n \div rad[0]) % 2 = 1 => SlackDoubles(rad) >= 2 * rad[0]
        /\ w.do = "n1_odd" => SlackDoubles(rad) >= 2 * bt
    <2>1. /\ SlackDoubles(rad) \in Nat /\ SlackDoubles(rad) >= 64
          /\ StageKind(rad, 0) = "n1_contig" /\ (n \div rad[0]) % 2 = 1
                => SlackDoubles(rad) >= 2 * rad[0]
      BY <1>1, SlackHolds
    <2>2. StageKind(rad, w.t) = "n1_odd" => SlackDoubles(rad) >= 2 * bt
      BY <1>1, SlackHolds
    <2> QED
      BY <1>1, <2>1, <2>2
  <1> HIDE DEF n, rad, bp, bt, r
  <1>6. /\ slack \in Nat /\ slack >= 1
        /\ w.do = "contig" /\ (n \div rad[0]) % 2 = 1 => slack >= rad[0]
        /\ w.do = "n1_odd" => slack >= bt
    <2>1. slack = SlackDoubles(rad) \div 2
      BY DEF rad
    <2>2. \A d \in Nat, v \in Nat : d >= 2 * v => d \div 2 \in Nat /\ d \div 2 >= v
      BY SMT
    <2> HIDE DEF slack
    <2>3. slack \in Nat /\ slack >= 32
      BY <1>5, <2>1
    <2> QED
      BY <1>3, <1>4, <1>5, <2>1, <2>2, <2>3
  <1>a. ASSUME PaddingStores(w) \subseteq n..(n + slack - 1),
                PaddingLoads(w) \subseteq 0..(n + slack - 1)
         PROVE  /\ PaddingStores(w) \subseteq N..(N + kernel.slack - 1)
                /\ PaddingLoads(w) \subseteq Idx(N + kernel.slack)
    <2>1. N..(N + kernel.slack - 1) = n..(n + slack - 1)
      BY <1>2, Zenon
    <2>2. Idx(N + kernel.slack) = 0..(n + slack - 1)
      <3>1. \A u, v : Idx(u + v) = 0..((u + v) - 1)
        BY Zenon DEF Idx
      <3>2. Idx(n + slack) = 0..((n + slack) - 1)
        BY <3>1, Zenon
      <3>3. N + kernel.slack = n + slack
        BY <1>2, Zenon
      <3>4. (n + slack) - 1 = n + slack - 1
        <4>1. \A u, v \in Nat : (u + v) - 1 = u + v - 1
          OBVIOUS
        <4> QED
          BY <1>1, <1>6, <4>1, Zenon
      <3> QED
        BY <3>2, <3>3, <3>4, Zenon
    <2> QED
      BY <1>a, <2>1, <2>2, Zenon
  <1> HIDE DEF slack
  <1>7. CASE w.do = "contig" /\ (n \div rad[0]) % 2 = 1
    <2>1. /\ PaddingStores(w) = {n + j : j \in 0..(rad[0] - 1)}
          /\ PaddingLoads(w) = {n + j : j \in 0..(rad[0] - 1)}
      BY <1>2, <1>7 DEF PaddingStores, PaddingLoads, Idx
    <2>2. ASSUME NEW j \in 0..(rad[0] - 1) PROVE n + j \in n..(n + slack - 1)
      BY <1>1, <1>3, <1>6, <1>7
    <2>3. ASSUME NEW j \in 0..(rad[0] - 1) PROVE n + j \in 0..(n + slack - 1)
      BY <1>1, <1>3, <1>6, <1>7
    <2>4. PaddingStores(w) \subseteq n..(n + slack - 1)
      BY <2>1, <2>2
    <2>5. PaddingLoads(w) \subseteq 0..(n + slack - 1)
      BY <2>1, <2>3
    <2> QED
      BY <1>a, <2>4, <2>5
  <1>8. CASE w.do = "n1_odd"
    <2>1. PaddingStores(w) = {n + j * bp : j \in 0..(r - 1)}
      BY <1>2, <1>8 DEF PaddingStores, Idx, r, rad
    <2>2. ASSUME NEW v \in PaddingLoads(w)
          PROVE  \E b \in 0..((n \div bt) - 1), j \in 0..(r - 1) : v = b * bt + (bp - 1) + 1 + j * bp
      BY <1>2, <1>8 DEF PaddingLoads, Idx, r, rad
    <2>3. ASSUME NEW j \in 0..(r - 1) PROVE j * bp \in Nat /\ j * bp <= bt - bp
      BY <1>3, <1>4, ColumnEnds
    <2>4. ASSUME NEW j \in 0..(r - 1) PROVE n + j * bp \in n..(n + slack - 1)
      <3> DEFINE e == j * bp
      <3>1. e \in Nat /\ e <= bt - bp
        BY <2>3
      <3> HIDE DEF e
      <3>2. n + e \in n..(n + slack - 1)
        BY <1>1, <1>4, <1>6, <1>8, <3>1
      <3> QED
        BY <3>2 DEF e
    <2>5. ASSUME NEW b \in 0..((n \div bt) - 1), NEW j \in 0..(r - 1)
          PROVE  b * bt + (bp - 1) + 1 + j * bp \in 0..(n + slack - 1)
      <3> DEFINE e == j * bp
                 q == n \div bt
                 c == b * bt
      <3>1. e \in Nat /\ e <= bt - bp
        BY <2>3
      <3>2. q \in Nat /\ q * bt <= n
        BY <1>1, <1>4
      <3>3. b \in Nat /\ b <= q - 1 /\ c \in Nat
        BY <1>4, <3>2
      <3>4. c + bt <= q * bt
        <4>1. \A u, v, z \in Nat : u <= v - 1 => u * z + z <= v * z
          BY SMT
        <4> QED
          BY <1>4, <3>2, <3>3, <4>1
      <3>5. q * bt \in Nat
        BY <1>4, <3>2
      <3> HIDE DEF e, c, q
      <3>6. c + (bp - 1) + 1 + e \in 0..(n + slack - 1)
        BY <1>1, <1>4, <1>6, <3>1, <3>2, <3>3, <3>4, <3>5
      <3> QED
        BY <3>6 DEF e, c
    <2>6. ASSUME NEW v \in PaddingLoads(w) PROVE v \in 0..(n + slack - 1)
      BY <2>2, <2>5
    <2>7. PaddingStores(w) \subseteq n..(n + slack - 1)
      BY <2>1, <2>4
    <2>8. PaddingLoads(w) \subseteq 0..(n + slack - 1)
      BY <2>6
    <2> QED
      BY <1>a, <2>7, <2>8
  <1>9. CASE ~(w.do = "contig" /\ (n \div rad[0]) % 2 = 1) /\ w.do # "n1_odd"
    <2>1. PaddingStores(w) = {} /\ PaddingLoads(w) = {}
      BY <1>2, <1>9 DEF PaddingStores, PaddingLoads
    <2> QED
      BY <2>1
  <1> QED
    BY <1>7, <1>8, <1>9

\* What the build fixed, as the lemmas above ask for it.
LEMMA WeldBuilt ==
  ASSUME WInv
  PROVE  /\ IsWeldList(kernel.rad, kernel.n) /\ kernel.n \in Nat
         /\ Program(kernel) \in Seq(Sweeps(kernel.rad))
  <1>1. kernel.n \in Nat /\ kernel.n >= 1
    <2>1. kernel.n \in MinWeld..MaxWeld
      BY Zenon DEF WInv, N
    <2>2. \A v \in MinWeld..MaxWeld : v \in Nat /\ v >= 1
      BY DEF MinWeld, MaxWeld
    <2> QED
      BY <2>1, <2>2, Zenon
  <1>2. IsWeldList(kernel.rad, kernel.n)
    BY <1>1, WeldListHas DEF WInv, N, Rad
  <1>3. kernel.leaf = [i \in DOMAIN kernel.rad |-> StageKind(kernel.rad, i)]
    BY DEF WInv, Rad
  <1>4. \A mode \in 0..2 : Half(kernel, mode) \in Seq(Sweeps(kernel.rad))
    BY <1>2, <1>3, HalfIs
  <1>5. kernel.kind \in {"fft", "inverse", "conv"}
    BY DEF WInv
  <1>6. Half(kernel, 1) \o Half(kernel, 2) \in Seq(Sweeps(kernel.rad))
    BY <1>4, ConcatProperties
  <1>7. Half(kernel, 0) \in Seq(Sweeps(kernel.rad)) /\ Half(kernel, 2) \in Seq(Sweeps(kernel.rad))
    BY <1>4
  <1>8. Program(kernel) \in {Half(kernel, 0), Half(kernel, 2),
                                  Half(kernel, 1) \o Half(kernel, 2)}
    BY <1>5 DEF Program
  <1> QED
    BY <1>1, <1>2, <1>6, <1>7, <1>8

\* No sweep changes the kernel or the size of its scratch.
LEMMA SweepKeeps ==
  ASSUME WInv, kernel' = kernel, pc' = pc + 1, DOMAIN scratch' = DOMAIN scratch
  PROVE  WInv'
  <1>1. pc' \in Nat \ {0}
    BY DEF WInv
  <1> QED
    BY <1>1 DEF WInv, N, Rad

\* Every sweep of an original-size kernel keeps what its build fixed: the
\* list, the leaf of every stage, the slack and the size of the scratch.
THEOREM WeldInvariant == Spec => []WInv
  <1>1. Init => WInv
    <2> SUFFICES ASSUME Init PROVE WInv
      OBVIOUS
    <2>1. PICK call \in WeldCalls : \E rad \in WeldLists(call.n) :
              /\ kernel = WeldKernel(call, rad)
              /\ scratch = [i \in Idx(call.n + SlackDoubles(rad) \div 2) |-> Stale]
              /\ pc = 1
      BY DEF Init
    <2>2. PICK rad \in WeldLists(call.n) :
              /\ kernel = WeldKernel(call, rad)
              /\ scratch = [i \in Idx(call.n + SlackDoubles(rad) \div 2) |-> Stale]
              /\ pc = 1
      BY <2>1
    <2>3. call.kind \in {"fft", "inverse", "conv"} /\ call.n \in MinWeld..MaxWeld
      BY WeldCallsAssumption DEF WeldableCalls
    <2>4. /\ kernel.n = call.n /\ kernel.kind = call.kind /\ kernel.rad = rad
          /\ kernel.leaf = [i \in DOMAIN rad |-> StageKind(rad, i)]
          /\ kernel.slack = SlackDoubles(rad) \div 2
      BY <2>2 DEF WeldKernel
    <2>5. DOMAIN scratch = Idx(kernel.n + kernel.slack)
      BY <2>2, <2>4
    <2> QED
      BY <2>2, <2>3, <2>4, <2>5 DEF WInv, N, Rad
  <1>2. WInv /\ [Next]_vars => WInv'
    <2> SUFFICES ASSUME WInv, [Next]_vars PROVE WInv'
      OBVIOUS
    <2>0. \A new, w : DOMAIN Swept(new, w) = DOMAIN scratch
      BY DEF Swept
    <2>1. CASE Gather
      BY <2>0, <2>1, SweepKeeps DEF Gather
    <2>2. CASE Permute
      BY <2>0, <2>2, SweepKeeps DEF Permute
    <2>3. CASE Contig
      BY <2>0, <2>3, SweepKeeps DEF Contig
    <2>4. CASE OwnSweep
      BY <2>0, <2>4, SweepKeeps DEF OwnSweep
    <2>5. CASE Twiddles
      BY <2>0, <2>5, SweepKeeps DEF Twiddles
    <2>6. CASE T1Sweep
      BY <2>0, <2>6, SweepKeeps DEF T1Sweep
    <2>7. CASE N1Sweep
      BY <2>0, <2>7, SweepKeeps DEF N1Sweep
    <2>8. CASE CopyOut \/ Store \/ ConjMul \/ InvN
      BY <2>8, SweepKeeps DEF CopyOut, Store, ConjMul, InvN
    <2>9. CASE UNCHANGED vars
      BY <2>9 DEF vars, WInv, N, Rad
    <2> QED
      BY <2>1, <2>2, <2>3, <2>4, <2>5, <2>6, <2>7, <2>8, <2>9 DEF Next
  <1> QED
    BY <1>1, <1>2, PTL DEF Spec

\* The padding lane of a codelet called for one column stores into the slack
\* behind the scratch and loads from inside the scratch: for every length from
\* MinWeld to MaxWeld, every list weld_gen can name, every kind and every input.
THEOREM PaddingKept == Spec => []PaddingStaysInSlack
  <1>1. WInv => PaddingStaysInSlack
    <2> SUFFICES ASSUME WInv, Running
                 PROVE  /\ PaddingStores(Now) \subseteq N..(N + kernel.slack - 1)
                        /\ PaddingLoads(Now) \subseteq DOMAIN scratch
      BY DEF PaddingStaysInSlack
    <2>1. /\ IsWeldList(kernel.rad, kernel.n) /\ kernel.n \in Nat
          /\ Program(kernel) \in Seq(Sweeps(kernel.rad))
      BY WeldBuilt
    <2>2. pc \in 1..Len(Program(kernel))
      <3>1. Len(Program(kernel)) \in Nat
        BY <2>1, LenProperties
      <3> QED
        BY <3>1 DEF WInv, Running
    <2>3. Now \in Sweeps(kernel.rad)
      BY <2>1, <2>2, ElementOfSeq DEF Now
    <2>4. kernel.slack = SlackDoubles(kernel.rad) \div 2
          /\ DOMAIN scratch = Idx(N + kernel.slack)
      BY DEF WInv, Rad
    <2> QED
      BY <2>1, <2>3, <2>4, LanesFit
  <1>2. Spec => []WInv
    BY WeldInvariant
  <1> QED
    BY <1>1, <1>2, PTL
=============================================================================
