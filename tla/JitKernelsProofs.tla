---------------------------- MODULE JitKernelsProofs ----------------------------
(***************************************************************************)
(* Proofs about JitKernels for every length up to 32768, every list of     *)
(* radices, every tile budget and every input.                             *)
(*                                                                         *)
(* GroupsStayResident is a fact about the lists a kernel may be built from *)
(* (their products, and where a tile budget cuts them) and about the       *)
(* stages at which a group may start.  DiscardZoneUntouched is one about   *)
(* the positions the final stages store to.  KInv says what the build      *)
(* entries fix, once and for all, and where the schedule can be.           *)
(***************************************************************************)
EXTENDS JitKernels, ConvMathProofs

\* The last index of a list on 0..k-1.
LEMMA FinalStageIs ==
  ASSUME NEW k \in Nat, k >= 1, NEW rad, DOMAIN rad = Idx(k)
  PROVE  FinalStage(rad) = k - 1
  <1>1. Cardinality(0..(k - 1)) = k
    BY FS_Interval
  <1> QED
    BY <1>1 DEF FinalStage, Idx

\* Before the first stage a block is one element.
LEMMA BlockOfNone == ASSUME NEW rad PROVE B(rad, -1) = 1
  <1>1. 0..(-1) = {}
    OBVIOUS
  <1> QED
    BY <1>1, ProductOfNone DEF B

\* A stage multiplies the blocks by its radix.
LEMMA BlockGrows ==
  ASSUME NEW rad, NEW i \in Nat, \A j \in 0..i : rad[j] \in Int
  PROVE  /\ B(rad, i) = rad[i] * B(rad, i - 1)
         /\ B(rad, i - 1) \in Int
  <1>1. IsFiniteSet(0..i)
    BY FS_Interval
  <1>2. i \in 0..i /\ (0..i) \ {i} = 0..(i - 1)
    OBVIOUS
  <1> QED
    BY <1>1, <1>2, ProductTimes DEF B

\* The blocks of a list are of positive, even length.
LEMMA BlocksAreEven ==
  ASSUME NEW rad, IsList(rad), NEW i \in DOMAIN rad
  PROVE  B(rad, i) \in Nat /\ B(rad, i) >= 1 /\ B(rad, i) % 2 = 0
  <1> DEFINE f == FinalStage(rad)
             Good(j) == B(rad, j) \in Nat /\ B(rad, j) >= 1 /\ B(rad, j) % 2 = 0
             Bad == {j \in Nat : j <= f /\ ~Good(j)}
  <1>1. f \in Nat /\ DOMAIN rad = 0..f
    BY DEF IsList
  <1>2. \A j \in 0..f : rad[j] \in Nat /\ rad[j] >= 1 /\ rad[j] % 2 = 0
    BY <1>1 DEF IsList, Radices
  <1>3. Bad = {}
    <2> SUFFICES ASSUME Bad # {} PROVE FALSE
      OBVIOUS
    <2>1. PICK j \in Bad : \A m \in Bad : j <= m
      BY LeastNatural
    <2>2. j \in Nat /\ j <= f /\ ~Good(j)
      OBVIOUS
    <2>3. rad[j] \in Nat /\ rad[j] >= 1 /\ rad[j] % 2 = 0 /\ \A m \in 0..j : rad[m] \in Int
      BY <1>1, <1>2, <2>2
    <2>6. B(rad, j) = rad[j] * B(rad, j - 1)
      BY <2>2, <2>3, BlockGrows
    <2>4. B(rad, j - 1) \in Nat /\ B(rad, j - 1) >= 1
      <3>1. CASE j = 0
        BY <3>1, BlockOfNone
      <3>2. CASE j # 0
        <4>1. j - 1 \in Nat /\ j - 1 <= f
          BY <1>1, <2>2, <3>2
        <4>2. j - 1 \notin Bad
          <5> SUFFICES ASSUME j - 1 \in Bad PROVE FALSE
            OBVIOUS
          <5>1. j <= j - 1
            <6> HIDE DEF Bad
            <6> QED
              BY <2>1
          <5> QED
            BY <2>2, <5>1
        <4> QED
          BY <4>1, <4>2
      <3> QED
        BY <3>1, <3>2
    <2>5. \A a, b \in Nat : a >= 1 /\ b >= 1 /\ a % 2 = 0 =>
              a * b \in Nat /\ a * b >= 1 /\ (a * b) % 2 = 0
      <3> SUFFICES ASSUME NEW a \in Nat, NEW b \in Nat, a >= 1, b >= 1, a % 2 = 0
                   PROVE  a * b \in Nat /\ a * b >= 1 /\ (a * b) % 2 = 0
        OBVIOUS
      <3>1. a = 2 * (a \div 2) /\ a \div 2 \in Nat /\ a \div 2 >= 1
        OBVIOUS
      <3> DEFINE c == a \div 2
      <3>2. a * b = 2 * (c * b) /\ c * b \in Nat /\ c * b >= 1
        BY <3>1
      <3> DEFINE d == c * b
      <3> HIDE DEF c, d
      <3>3. d \in Nat /\ d >= 1 => 2 * d \in Nat /\ 2 * d >= 1 /\ (2 * d) % 2 = 0
        OBVIOUS
      <3> QED
        BY <3>2, <3>3 DEF d
    <2> QED
      BY <2>2, <2>3, <2>4, <2>5, <2>6
  <1> QED
    BY <1>1, <1>3

\* Any list the search or an order pin may name has the product asked for.
LEMMA DecompositionIs ==
  ASSUME NEW n \in Nat, NEW rad \in Decompositions(n)
  PROVE  IsList(rad) /\ B(rad, FinalStage(rad)) = n
  <1>1. PICK k \in 1..MaxStages : rad \in [Idx(k) -> Radices]
    BY DEF Decompositions
  <1>2. k \in Nat /\ k >= 1 /\ DOMAIN rad = Idx(k)
    BY <1>1 DEF MaxStages
  <1>3. FinalStage(rad) = k - 1
    BY <1>2, FinalStageIs
  <1>4. DOMAIN rad = 0..FinalStage(rad) /\ FinalStage(rad) \in Nat
    BY <1>2, <1>3 DEF Idx
  <1>5. Product(DOMAIN rad, rad) = n
    BY DEF Decompositions
  <1> QED
    BY <1>1, <1>4, <1>5 DEF IsList, B

\* A list of one radix has a product of at most 32.
LEMMA LongListsHaveStages ==
  ASSUME NEW rad, IsList(rad), B(rad, FinalStage(rad)) > 32
  PROVE  FinalStage(rad) >= 1
  <1> SUFFICES ASSUME FinalStage(rad) = 0 PROVE FALSE
    BY DEF IsList
  <1>1. rad[0] \in Int /\ rad[0] <= 32
    BY DEF IsList, Radices
  <1>2. B(rad, 0) = rad[0] * B(rad, 0 - 1)
    BY <1>1, BlockGrows
  <1>3. B(rad, 0 - 1) = 1
    BY BlockOfNone
  <1> QED
    BY <1>1, <1>2, <1>3

\* Splitting a final 32 keeps the product, and only adds a stage.
LEMMA SplitKeepsProduct ==
  ASSUME NEW rad, IsList(rad)
  PROVE  /\ IsList(SplitFinal32(rad))
         /\ B(SplitFinal32(rad), FinalStage(SplitFinal32(rad))) = B(rad, FinalStage(rad))
         /\ FinalStage(SplitFinal32(rad)) >= FinalStage(rad)
  <1> DEFINE f == FinalStage(rad)
             new == SplitFinal32(rad)
  <1>1. f \in Nat /\ DOMAIN rad = 0..f /\ \A i \in 0..f : rad[i] \in Radices
    BY DEF IsList
  <1>2. CASE rad[f] # 32
    <2>1. new = rad
      BY <1>2 DEF SplitFinal32
    <2> QED
      BY <1>1, <2>1
  <1>3. CASE rad[f] = 32
    <2>1. new = [i \in 0..(f + 1) |-> IF i < f THEN rad[i] ELSE IF i = f THEN 16 ELSE 2]
      BY <1>3 DEF SplitFinal32
    <2> HIDE DEF new
    <2>2. DOMAIN new = Idx(f + 2) /\ f + 2 \in Nat /\ f + 2 >= 1
      BY <1>1, <2>1 DEF Idx
    <2>3. FinalStage(new) = f + 1
      BY <1>1, <2>2, FinalStageIs
    <2>4. \A i \in 0..(f + 1) : new[i] \in Radices
      BY <1>1, <2>1 DEF Radices
    <2>5. IsList(new)
      BY <1>1, <2>1, <2>3, <2>4 DEF IsList
    <2>6. /\ \A i \in 0..(f + 1) : new[i] \in Int
          /\ \A i \in 0..f : rad[i] \in Int
      BY <1>1, <2>4 DEF Radices
    <2>7. B(new, f + 1) = new[f + 1] * B(new, f)
      BY <1>1, <2>6, BlockGrows
    <2>8. B(new, f) = new[f] * B(new, f - 1) /\ B(new, f - 1) \in Int
      BY <1>1, <2>6, BlockGrows
    <2>9. B(rad, f) = rad[f] * B(rad, f - 1) /\ B(rad, f - 1) \in Int
      BY <1>1, <2>6, BlockGrows
    <2>10. B(new, f - 1) = B(rad, f - 1)
      <3>1. IsFiniteSet(0..(f - 1))
        BY <1>1, FS_Interval
      <3>2. \A i \in 0..(f - 1) : new[i] = rad[i]
        BY <1>1, <2>1
      <3> QED
        BY <3>1, <3>2, ProductSame DEF B
    <2>11. new[f + 1] = 2 /\ new[f] = 16
      BY <1>1, <2>1
    <2>12. B(new, f + 1) = B(rad, f)
      BY <1>3, <2>7, <2>8, <2>9, <2>10, <2>11
    <2> QED
      BY <1>1, <2>3, <2>5, <2>12 DEF new
  <1> QED
    BY <1>2, <1>3

\* The product of a list given by its first radices.
LEMMA ProductOfFew ==
  ASSUME NEW rad, rad[0] \in Int, rad[1] \in Int
  PROVE  /\ Product(Idx(2), rad) = rad[1] * rad[0]
         /\ rad[2] \in Int => Product(Idx(3), rad) = rad[2] * (rad[1] * rad[0])
  <1>1. B(rad, 0) = rad[0] * B(rad, 0 - 1)
    BY BlockGrows
  <1>2. B(rad, 0 - 1) = 1
    BY BlockOfNone
  <1>3. B(rad, 1) = rad[1] * B(rad, 1 - 1)
    BY BlockGrows
  <1>4. B(rad, 0) = rad[0] /\ B(rad, 1) = rad[1] * rad[0]
    BY <1>1, <1>2, <1>3
  <1>5. ASSUME rad[2] \in Int PROVE B(rad, 2) = rad[2] * B(rad, 2 - 1)
    BY <1>5, BlockGrows
  <1>6. Idx(2) = 0..1 /\ Idx(3) = 0..2
    BY DEF Idx
  <1> QED
    BY <1>4, <1>5, <1>6 DEF B

\* Up to 32 points the fused kernels have a list, of two or three stages.
LEMMA ForcedIs ==
  ASSUME NEW n \in {4, 8, 16, 32}
  PROVE  /\ IsList(ForcedRadices(n))
         /\ B(ForcedRadices(n), FinalStage(ForcedRadices(n))) = n
         /\ FinalStage(ForcedRadices(n)) >= 1
  <1> DEFINE k == IF n = 32 THEN 3 ELSE 2
             Fits(rad) == /\ Product(DOMAIN rad, rad) = n
                          /\ \A i \in Idx(k - 1) : rad[i] >= rad[i + 1]
             first == [i \in Idx(k) |-> CASE n = 4 -> 2
                                          [] n = 8 -> IF i = 0 THEN 4 ELSE 2
                                          [] n = 16 -> 4
                                          [] n = 32 -> IF i = 2 THEN 2 ELSE 4]
             rad == ForcedRadices(n)
  <1>1. first \in [Idx(k) -> {2, 4}]
    OBVIOUS
  <1>2. Fits(first)
    <2>1. /\ first[0] = IF n = 4 THEN 2 ELSE 4
          /\ first[1] = IF n = 16 \/ n = 32 THEN 4 ELSE 2
          /\ n = 32 => first[2] = 2
      BY DEF Idx
    <2>2. DOMAIN first = Idx(k)
      OBVIOUS
    <2> HIDE DEF first
    <2>3. /\ Product(Idx(2), first) = first[1] * first[0]
          /\ first[2] \in Int => Product(Idx(3), first) = first[2] * (first[1] * first[0])
      BY <2>1, ProductOfFew
    <2>4. Product(Idx(k), first) = n
      BY <2>1, <2>3
    <2>5. \A i \in Idx(k - 1) : first[i] >= first[i + 1]
      BY <2>1 DEF Idx
    <2> QED
      BY <2>2, <2>4, <2>5
  <1>3. rad = CHOOSE r \in [Idx(k) -> {2, 4}] : Fits(r)
    BY DEF ForcedRadices
  <1> HIDE DEF first, Fits, rad
  <1>4. rad \in [Idx(k) -> {2, 4}] /\ Fits(rad)
    BY <1>1, <1>2, <1>3
  <1>5. k \in Nat /\ k >= 2 /\ DOMAIN rad = Idx(k)
    BY <1>4
  <1>6. FinalStage(rad) = k - 1
    BY <1>5, FinalStageIs
  <1>7. DOMAIN rad = 0..FinalStage(rad) /\ FinalStage(rad) \in Nat /\ FinalStage(rad) >= 1
    BY <1>5, <1>6 DEF Idx
  <1>8. \A i \in DOMAIN rad : rad[i] \in Radices
    BY <1>4, <1>5 DEF Radices
  <1>9. B(rad, FinalStage(rad)) = n
    BY <1>4, <1>7 DEF Fits, B
  <1> QED
    BY <1>7, <1>8, <1>9 DEF IsList, rad

\* Every list a kernel is built from has the length as its product, and more
\* than one stage where the final stage has a boundary of its own.
LEMMA KernelListIs ==
  ASSUME NEW call \in Calls, NEW rad \in KernelRadices(call.n, call.kind)
  PROVE  /\ IsList(rad)
         /\ B(rad, FinalStage(rad)) = call.n
         /\ call.kind \in Welds \cup Batches => FinalStage(rad) >= 1
  <1>1. /\ call.kind \in {"fft", "inverse", "conv"} \cup Welds \cup Single
        /\ call.n \in PowersOfTwo /\ call.n \in MinLength(call.kind)..32768
    BY CallsAssumption
  <1>2. call.n \in Nat
    BY <1>1, PowerFacts
  <1>3. CASE call.kind \in Single
    <2>1. rad \in Decompositions(call.n) /\ ValidF(rad, call.kind \in Windowed \cup LoadMuls)
      BY <1>3 DEF KernelRadices
    <2> QED
      BY <1>2, <2>1, DecompositionIs DEF ValidF
  <1>4. CASE call.kind = "fft"
    <2>1. rad \in Decompositions(call.n)
      BY <1>4 DEF KernelRadices, Single, Windowed, Batches, SingleConv
    <2>2. call.kind \notin Welds \cup Batches
      BY <1>4 DEF Welds, Batches
    <2> QED
      BY <1>2, <2>1, <2>2, DecompositionIs
  <1>5. CASE call.kind \in {"inverse", "conv"} \cup Welds
    <2>1. call.kind \notin Single /\ call.kind # "fft"
      BY <1>5 DEF Welds, Single, Windowed, Batches, SingleConv
    <2>2. call.n >= 4
      <3>1. call.kind = "inverse" => MinLength(call.kind) = 32
        BY DEF MinLength, Welds, Single, Windowed, Batches, SingleConv
      <3>2. call.kind \in {"conv"} \cup Welds => MinLength(call.kind) = 4
        BY DEF MinLength, Welds, Single, Windowed, Batches, SingleConv
      <3> QED
        BY <1>1, <1>2, <1>5, <3>1, <3>2
    <2>3. CASE call.n <= 32
      <3>1. call.n \in {4, 8, 16, 32}
        BY <1>1, <2>2, <2>3 DEF PowersOfTwo
      <3>2. rad = ForcedRadices(call.n)
        BY <2>1, <2>3 DEF KernelRadices
      <3> QED
        BY <3>1, <3>2, ForcedIs
    <2>4. CASE call.n > 32
      <3>1. PICK r \in Decompositions(call.n) : rad = SplitFinal32(r)
        BY <1>2, <2>1, <2>4 DEF KernelRadices
      <3>2. IsList(r) /\ B(r, FinalStage(r)) = call.n
        BY <1>2, <3>1, DecompositionIs
      <3>3. FinalStage(r) >= 1 /\ FinalStage(r) \in Nat
        BY <2>4, <3>2, LongListsHaveStages DEF IsList
      <3>4. /\ IsList(rad) /\ B(rad, FinalStage(rad)) = call.n
            /\ FinalStage(rad) >= FinalStage(r)
        BY <3>1, <3>2, SplitKeepsProduct
      <3> QED
        BY <3>3, <3>4 DEF IsList
    <2> QED
      BY <1>2, <2>3, <2>4
  <1> QED
    BY <1>1, <1>3, <1>4, <1>5

\* A group of more than one stage is one whose tile fits a budget below the
\* length; it ends before the final stage.
LEMMA GroupLenIs ==
  ASSUME NEW rad, IsList(rad), NEW maxTile \in Nat, NEW i \in DOMAIN rad,
         NEW d, d = GroupLen(rad, maxTile, i), d >= 2
  PROVE  /\ maxTile # 0 /\ maxTile < B(rad, FinalStage(rad))
         /\ d \in Nat /\ i + d <= FinalStage(rad) /\ B(rad, i + d - 1) <= maxTile
  <1> DEFINE f == FinalStage(rad)
             Fits(e) == i + e < f /\ B(rad, i + e) <= maxTile
             Longest(e) == (\A k \in 1..(e - 1) : Fits(k)) /\ ~Fits(e)
             Stops == {e \in 1..(f + 1) : ~Fits(e)}
  <1>1. f \in Nat /\ DOMAIN rad = 0..f /\ B(rad, f) \in Nat
    BY BlocksAreEven DEF IsList
  <1>2. ~(maxTile = 0 \/ B(rad, f) <= maxTile) /\ d = CHOOSE e \in 1..(f + 1) : Longest(e)
    <2>1. CASE maxTile = 0 \/ B(rad, f) <= maxTile
      BY <2>1 DEF GroupLen
    <2>2. CASE ~(maxTile = 0 \/ B(rad, f) <= maxTile)
      BY <2>2 DEF GroupLen
    <2> QED
      BY <2>1, <2>2
  <1>3. \E e \in 1..(f + 1) : Longest(e)
    <2>1. f + 1 \in Stops
      BY <1>1
    <2>2. Stops \subseteq Nat
      OBVIOUS
    <2> HIDE DEF Fits
    <2>3. PICK e \in Stops : \A k \in Stops : e <= k
      <3> HIDE DEF Stops
      <3> QED
        BY <2>1, <2>2, LeastNatural
    <2>4. e \in 1..(f + 1) /\ ~Fits(e)
      OBVIOUS
    <2>5. ASSUME NEW k \in 1..(e - 1) PROVE Fits(k)
      <3> SUFFICES ASSUME ~Fits(k) PROVE FALSE
        OBVIOUS
      <3>1. k \in Stops
        BY <1>1, <2>4
      <3>2. e <= k
        <4> HIDE DEF Stops
        <4> QED
          BY <2>3, <3>1
      <3> QED
        BY <1>1, <2>4, <3>2
    <2> QED
      BY <2>4, <2>5
  <1> HIDE DEF Longest
  <1>4. d \in 1..(f + 1) /\ Longest(d)
    BY <1>2, <1>3
  <1>5. d \in Nat /\ d - 1 \in 1..(d - 1)
    BY <1>1, <1>4
  <1>6. Fits(d - 1)
    BY <1>4, <1>5 DEF Longest
  <1>7. i \in Nat /\ i + (d - 1) = i + d - 1
    BY <1>1, <1>5
  <1> QED
    BY <1>1, <1>2, <1>5, <1>6, <1>7

-----------------------------------------------------------------------------
(* What is built.                                                          *)

\* The fields of a schedule that the invariant speaks of, whichever builder
\* made it.
LEMMA BuiltIs ==
  ASSUME NEW call \in Calls, NEW rad, NEW maxTile, NEW k, k = Built(call, rad, maxTile)
  PROVE  /\ k.n = call.n /\ k.kind = call.kind /\ k.nh = call.nh
         /\ k.tier = "sched" /\ k.rad = rad
         /\ k.group = [i \in DOMAIN rad |-> GroupLen(rad, maxTile, i)]
         /\ call.kind \in Batches => k.step = call.n + call.gap
  <1>1. call.kind \in {"fft", "inverse", "conv"} \cup Welds \cup Single
    BY CallsAssumption
  <1>2. CASE call.kind = "fft"
    <2>1. call.kind \notin Single
      BY <1>2 DEF Single, Windowed, Batches, SingleConv, Welds
    <2>2. k = schedBuildKernel(call, rad, maxTile)
      BY <1>2, <2>1 DEF Built, Welds
    <2>3. call.kind \notin Batches
      BY <2>1 DEF Single
    <2> QED
      BY <2>2, <2>3 DEF schedBuildKernel, Schedule
  <1>3. CASE call.kind = "conv"
    <2>1. call.kind \notin Single
      BY <1>3 DEF Single, Windowed, Batches, SingleConv, Welds
    <2>2. k = schedConvBuildKernel(call, rad, maxTile)
      BY <1>3, <2>1 DEF Built, Welds
    <2>3. call.kind \notin Batches
      BY <2>1 DEF Single
    <2> QED
      BY <2>2, <2>3 DEF schedConvBuildKernel, Schedule
  <1>4. CASE call.kind \in Welds
    <2>1. call.kind \notin Single
      BY <1>4 DEF Single, Windowed, Batches, SingleConv, Welds
    <2>2. k = schedOlsBuildKernel(call, rad, maxTile)
      BY <1>4, <2>1 DEF Built, Welds
    <2>3. call.kind \notin Batches
      BY <2>1 DEF Single
    <2> QED
      BY <2>2, <2>3 DEF schedOlsBuildKernel, Schedule
  <1>5. CASE call.kind = "inverse"
    <2>1. call.kind \notin Single
      BY <1>5 DEF Single, Windowed, Batches, SingleConv, Welds
    <2>2. k = schedInvBuildKernel(call, rad, maxTile)
      BY <1>5, <2>1 DEF Built, Welds
    <2>3. call.kind \notin Batches
      BY <2>1 DEF Single
    <2> QED
      BY <2>2, <2>3 DEF schedInvBuildKernel, Schedule
  <1>6. CASE call.kind \in Single
    <2>1. call.kind \notin {"fft", "inverse", "conv"} \cup Welds
      BY <1>6 DEF Single, Windowed, Batches, SingleConv, Welds
    <2>2. k = schedFBuildKernel(call, rad, maxTile)
      BY <1>6, <2>1 DEF Built
    <2> QED
      BY <2>2 DEF schedFBuildKernel, Schedule
  <1> QED
    BY <1>1, <1>2, <1>3, <1>4, <1>5, <1>6

\* Every kernel starts out as KInv says.
LEMMA InitKeeps == Init => KInv
  <1> SUFFICES ASSUME NEW call \in Calls,
                      kernel \in Kernels(call),
                      x = [i \in Idx(InputLen(call)) |-> IF i = call.at THEN call.unit ELSE Zero],
                      io = x, blk = 0 /\ t = 0 /\ s = 0
               PROVE  KInv
    BY DEF Init
  <1>1. /\ call.n \in Nat /\ call.nh \in 1..call.n /\ call.gap \in Nat
    BY CallsAssumption, PowerFacts
  <1>2. PICK legacy \in BOOLEAN :
          kernel \in IF Tier(call, legacy) = "sched"
                     THEN {Built(call, rad, maxTile) :
                            rad \in KernelRadices(call.n, call.kind),
                            maxTile \in IF call.n <= 32 /\ call.kind \notin {"fft"} \cup Single
                                        THEN {0} ELSE TileBudgets}
                     ELSE {fft_jit_kernel_create_ex(call, Tier(call, legacy))}
    BY DEF Kernels
  <1>3. kernel.n = call.n /\ kernel.kind = call.kind /\ KernelBuilt /\ GroupStarts
    <2>1. CASE Tier(call, legacy) = "sched"
      <3>1. PICK rad \in KernelRadices(call.n, call.kind), maxTile \in TileBudgets \cup {0} :
              kernel = Built(call, rad, maxTile)
        BY <1>2, <2>1
      <3>2. /\ kernel.n = call.n /\ kernel.kind = call.kind /\ kernel.nh = call.nh
            /\ kernel.tier = "sched" /\ kernel.rad = rad
            /\ kernel.group = [i \in DOMAIN rad |-> GroupLen(rad, maxTile, i)]
            /\ call.kind \in Batches => kernel.step = call.n + call.gap
        BY <3>1, BuiltIs
      <3>3. /\ IsList(rad)
            /\ B(rad, FinalStage(rad)) = call.n
            /\ call.kind \in Welds \cup Batches => FinalStage(rad) >= 1
        BY KernelListIs
      <3>4. KernelBuilt
        BY <1>1, <3>1, <3>2, <3>3 DEF KernelBuilt, Scheduled, Step, N
      <3>5. GroupStarts
        BY <3>2, <3>3 DEF GroupStarts, Scheduled, IsList
      <3> QED
        BY <3>2, <3>4, <3>5
    <2>2. CASE Tier(call, legacy) # "sched"
      <3>1. kernel = fft_jit_kernel_create_ex(call, Tier(call, legacy))
        BY <1>2, <2>2
      <3>2. call.kind \in {"fft", "f_fft", "f_win"}
        BY <2>2 DEF Tier
      <3>3. /\ kernel.n = call.n /\ kernel.kind = call.kind /\ kernel.nh = call.nh
            /\ kernel.tier # "sched" /\ kernel.group[0] = 0
        BY <2>2, <3>1 DEF fft_jit_kernel_create_ex
      <3>4. kernel.kind \notin Welds \cup Batches
        BY <3>2, <3>3 DEF Welds, Batches
      <3> QED
        BY <1>1, <3>3, <3>4 DEF KernelBuilt, GroupStarts, Scheduled, N
    <2> QED
      BY <2>1, <2>2
  <1>4. ArraysKept
    <2>1. kernel.kind = "ols" => InputLen(call) = call.n
      BY <1>3 DEF InputLen, Batches
    <2>2. DOMAIN io \subseteq Nat
      BY DEF Idx
    <2> QED
      BY <1>3, <2>1, <2>2 DEF ArraysKept, N
  <1>5. DiscardZoneUntouched
    BY DEF DiscardZoneUntouched
  <1> QED
    BY <1>3, <1>4, <1>5 DEF KInv

-----------------------------------------------------------------------------
(* What a step changes.                                                    *)

\* A step that writes nothing the caller sees and stays at the stages before
\* the final one: a gather or a sweep.
LEMMA AdvanceKeeps ==
  ASSUME KInv, Scheduled, s < FinalStage(kernel.rad), Advance,
         UNCHANGED <<kernel, x, io, blk>>
  PROVE  KInv'
  <1>1. FinalStage(kernel.rad) \in Nat /\ s \in Nat /\ t \in 0..FinalStage(kernel.rad)
    BY DEF KInv, KernelBuilt, GroupStarts, IsList
  <1>2. s' \in Nat /\ t' \in 0..FinalStage(kernel.rad)
    BY <1>1 DEF Advance
  <1>3. KernelBuilt' /\ ArraysKept' /\ DiscardZoneUntouched'
    BY DEF KInv, KernelBuilt, ArraysKept, DiscardZoneUntouched, Scheduled, N, Step, Hop
  <1>4. GroupStarts'
    BY <1>2 DEF GroupStarts, Scheduled
  <1> QED
    BY <1>3, <1>4 DEF KInv

\* A step that ends a half, if it leaves the discard zone alone.
LEMMA EndHalfKeeps ==
  ASSUME KInv, Scheduled, EndHalf, DiscardZoneUntouched',
         kernel.kind \in Welds \cup Batches => DOMAIN io' = DOMAIN io
  PROVE  KInv'
  <1>1. kernel' = kernel /\ t' = 0 /\ s' = 0 /\ blk' \in {blk, blk + 1}
    BY DEF EndHalf
  <1>2. KernelBuilt'
    BY <1>1 DEF KInv, KernelBuilt, Scheduled, N, Step
  <1>3. ArraysKept'
    <2>1. blk' \in Nat
      BY <1>1 DEF KInv, ArraysKept
    <2> QED
      BY <1>1, <2>1 DEF KInv, ArraysKept, N, Welds
  <1>4. GroupStarts'
    BY <1>1 DEF KInv, KernelBuilt, GroupStarts, Scheduled, IsList
  <1> QED
    BY <1>2, <1>3, <1>4 DEF KInv

\* A step of a kernel that has no discard zone.
LEMMA NoZone ==
  ASSUME kernel' = kernel, kernel.kind \notin Welds \cup Batches
  PROVE  DiscardZoneUntouched'
  BY DEF DiscardZoneUntouched, Welds

\* The fixed-shape kernels and the 32-point leaf have none and stay where
\* they are.
LEMMA FixedKeeps ==
  ASSUME KInv, kernel' = kernel, blk' = blk, t' = t, Scheduled => s' = s,
         ~Scheduled \/ FinalStage(kernel.rad) = 0
  PROVE  KInv'
  <1>1. kernel.kind \notin Welds \cup Batches
    BY DEF KInv, KernelBuilt
  <1>2. KernelBuilt' /\ GroupStarts'
    BY DEF KInv, KernelBuilt, GroupStarts, Scheduled, N, Step
  <1>3. ArraysKept'
    BY <1>1 DEF KInv, ArraysKept, Welds
  <1> QED
    BY <1>1, <1>2, <1>3, NoZone DEF KInv

\* The weld's half B stores to nothing behind the valid prefix: a pair that
\* starts in it ends in it, because columns start and blocks end at even
\* positions, and the last pair is cut where the prefix ends.
LEMMA PrefixIsValid ==
  ASSUME KInv, kernel.kind \in Welds, Scheduled
  PROVE  PrefixStored \subseteq Idx(Hop)
  <1> DEFINE f == FinalStage(kernel.rad)
             bp == B(kernel.rad, f - 1)
             end == N - kernel.nh
             Kept(c, k) ==
                LET e == end - c
                IN  CASE e >= bp - 1       -> {k, k + 1}
                      [] e < 0             -> {}
                      [] e \in 0..(bp - 2) ->
                            IF k < e THEN {k, k + 1}
                            ELSE IF e % 2 = 0 /\ k = e THEN {k} ELSE {}
             Cells == {d \in Idx(N) : d % bp = 0}
             Pairs == {d \in Idx(bp) : d % 2 = 0}
  <1>1. N \in Nat /\ kernel.nh \in 1..N /\ IsList(kernel.rad) /\ f \in Nat /\ f >= 1
    BY DEF KInv, KernelBuilt, IsList
  <1>2. bp \in Nat /\ bp >= 1 /\ bp % 2 = 0
    <2>1. f - 1 \in DOMAIN kernel.rad
      BY <1>1 DEF IsList
    <2> QED
      BY <1>1, <2>1, BlocksAreEven
  <1>3. PrefixStored = UNION {{c + i : i \in Kept(c, k)} : c \in Cells, k \in Pairs}
    BY DEF PrefixStored
  <1> HIDE DEF Kept, bp
  <1>4. ASSUME NEW c \in Cells, NEW k \in Pairs, NEW i \in Kept(c, k)
        PROVE  c + i \in Idx(Hop)
    <2>1. /\ c \in Nat /\ k \in Nat /\ k < bp /\ k % 2 = 0 /\ end \in Nat
      BY <1>1, <1>2 DEF Idx
    <2>2. k + 1 < bp
      BY <1>2, <2>1
    <2>3. i \in Nat /\ i <= end - c
      <3>1. CASE end - c >= bp - 1
        <4>1. i \in {k, k + 1}
          BY <1>2, <2>1, <3>1 DEF Kept
        <4> QED
          BY <1>2, <2>1, <2>2, <3>1, <4>1
      <3>2. CASE end - c < 0
        BY <1>2, <2>1, <3>2 DEF Kept
      <3>3. CASE end - c \in 0..(bp - 2)
        <4>1. i \in IF k < end - c THEN {k, k + 1}
                    ELSE IF (end - c) % 2 = 0 /\ k = end - c THEN {k} ELSE {}
          BY <1>2, <2>1, <3>3 DEF Kept
        <4> QED
          BY <1>2, <2>1, <3>3, <4>1
      <3> QED
        BY <1>2, <2>1, <3>1, <3>2, <3>3
    <2> QED
      BY <1>1, <2>1, <2>3 DEF Hop, Idx
  <1> QED
    BY <1>3, <1>4

\* The final stage of the weld leaves everything behind the prefix alone, and
\* the stream entry's input.
LEMMA OlsStorePrefixKeeps == ASSUME KInv, OlsStorePrefix PROVE KInv'
  <1>1. Scheduled /\ kernel.kind \in Welds /\ kernel.kind \notin Batches /\ EndHalf
        /\ kernel' = kernel /\ x' = x
    BY DEF OlsStorePrefix, Finishing, EndHalf, Welds, Batches
  <1>2. DOMAIN io' = DOMAIN io /\ DiscardZoneUntouched'
    <2>1. CASE kernel.kind = "stream"
      BY <1>1, <2>1 DEF OlsStorePrefix, KInv, DiscardZoneUntouched
    <2>2. CASE kernel.kind = "ols"
      <3>1. DOMAIN io' = DOMAIN io /\ \A i \in DOMAIN io : i - 0 \notin PrefixStored => io'[i] = io[i]
        BY <2>2 DEF OlsStorePrefix
      <3>2. DOMAIN io = Idx(N) /\ \A i \in Idx(N) \ Idx(Hop) : io[i] = x[i]
        BY <2>2 DEF KInv, ArraysKept, DiscardZoneUntouched
      <3>3. \A i \in Idx(N) : i - 0 = i
        BY DEF Idx
      <3>4. \A i \in Idx(N) \ Idx(Hop) : io'[i] = x[i]
        BY <1>1, <3>1, <3>2, <3>3, PrefixIsValid
      <3> QED
        BY <1>1, <2>2, <3>1, <3>4 DEF DiscardZoneUntouched, N, Hop
    <2> QED
      BY <1>1, <2>1, <2>2 DEF Welds
  <1> QED
    BY <1>1, <1>2, EndHalfKeeps

\* The samples of a block are not in a gap.
LEMMA BlocksSpareGaps ==
  ASSUME NEW n \in Nat, NEW step \in Nat, step >= n, NEW k \in Nat, NEW i \in Nat,
         i - k * step \in Idx(n)
  PROVE  i % step < n
  <1> DEFINE r == i - k * step
  <1>1. k * step \in Nat /\ r \in Nat /\ r < n /\ i = k * step + r
    BY DEF Idx
  <1>2. step > 0 /\ r < step
    BY <1>1
  <1> HIDE DEF r
  <1>3. (k * step + r) % step = r
    BY <1>1, <1>2, Z3
  <1> QED
    BY <1>1, <1>3

\* The final stage of a batch kernel stores to its own block.
LEMMA FStoreKeeps == ASSUME KInv, FStore PROVE KInv'
  <1>1. Scheduled /\ kernel.kind \in Single /\ kernel.kind \notin Welds /\ EndHalf
        /\ kernel' = kernel /\ x' = x
    BY DEF FStore, Finishing, EndHalf, Welds, Batches, Single, Windowed, SingleConv
  <1>2. DOMAIN io' = DOMAIN io
    BY DEF FStore
  <1>3. CASE kernel.kind \in Batches
    <2>1. \A i \in DOMAIN io : i - blk * Step \notin Idx(N) => io'[i] = io[i]
      BY <1>3 DEF FStore
    <2>2. /\ N \in Nat /\ Step \in Nat /\ Step >= N /\ blk \in Nat /\ DOMAIN io \subseteq Nat
          /\ \A i \in DOMAIN io : i % Step >= N => io[i] = x[i]
      BY <1>3 DEF KInv, KernelBuilt, ArraysKept, DiscardZoneUntouched
    <2>3. ASSUME NEW i \in DOMAIN io, i % Step >= N PROVE io'[i] = x[i]
      <3>1. i - blk * Step \notin Idx(N)
        <4> SUFFICES ASSUME i - blk * Step \in Idx(N) PROVE FALSE
          OBVIOUS
        <4>1. i % Step < N
          BY <2>2, BlocksSpareGaps
        <4>2. Step > 0
          BY <2>2 DEF Idx
        <4>3. i % Step \in Nat
          BY <2>2, <4>2
        <4> QED
          BY <2>2, <2>3, <4>1, <4>3
      <3> QED
        BY <2>1, <2>2, <2>3, <3>1
    <2>4. DiscardZoneUntouched'
      BY <1>1, <1>2, <1>3, <2>3 DEF DiscardZoneUntouched, N, Step, Welds
    <2> QED
      BY <1>1, <1>2, <2>4, EndHalfKeeps
  <1>4. CASE kernel.kind \notin Batches
    <2>1. DiscardZoneUntouched'
      BY <1>1, <1>4, NoZone
    <2> QED
      BY <1>1, <1>4, <2>1, EndHalfKeeps
  <1> QED
    BY <1>3, <1>4
-----------------------------------------------------------------------------
(* The theorems.                                                           *)

\* No step of a call breaks the invariant.
LEMMA StepKeeps == ASSUME KInv, [Next]_vars PROVE KInv'
  <1>1. CASE UNCHANGED vars
    BY <1>1 DEF vars, KInv, KernelBuilt, GroupStarts, ArraysKept, DiscardZoneUntouched,
                Scheduled, N, Step, Hop
  <1>2. ASSUME OneLeaf PROVE KInv'
    BY <1>2, FixedKeeps DEF OneLeaf
  <1>3. ASSUME PlainGather \/ ConvGather \/ OlsGather \/ InvGather \/ FGather PROVE KInv'
    <2>1. /\ Scheduled /\ s = 0 /\ FinalStage(kernel.rad) > 0 /\ Advance
          /\ UNCHANGED <<kernel, x, io, blk>>
      BY <1>3 DEF PlainGather, ConvGather, OlsGather, InvGather, FGather, GatherWith
    <2>2. s < FinalStage(kernel.rad)
      BY <2>1
    <2> QED
      BY <2>1, <2>2, AdvanceKeeps
  <1>4. ASSUME Sweep PROVE KInv'
    BY <1>4, AdvanceKeeps DEF Sweep
  <1>5. ASSUME PlainStore \/ ConvStore \/ InvStore PROVE KInv'
    <2>1. Scheduled /\ EndHalf /\ kernel' = kernel /\ kernel.kind \in {"fft", "conv", "inverse"}
      BY <1>5 DEF PlainStore, ConvStore, InvStore, Finishing, EndHalf
    <2>2. kernel.kind \notin Welds \cup Batches
      BY <2>1 DEF Welds, Batches
    <2> QED
      BY <2>1, <2>2, NoZone, EndHalfKeeps
  <1>6. ASSUME OlsStoreSpectrum PROVE KInv'
    <2>1. Scheduled /\ EndHalf /\ UNCHANGED <<kernel, x, io>>
      BY <1>6 DEF OlsStoreSpectrum, Finishing, EndHalf
    <2>2. DiscardZoneUntouched'
      BY <2>1 DEF KInv, DiscardZoneUntouched, N, Hop, Step
    <2> QED
      BY <2>1, <2>2, EndHalfKeeps
  <1>7. ASSUME FixedStep PROVE KInv'
    <2>1. kernel' = kernel /\ blk' = blk /\ t' = t /\ ~Scheduled
      BY <1>7 DEF FixedStep, Identity, SmallLoad, SmallLevel, SmallStore, SwapPairs, LoopLevel,
                  InPlaceTiers, Scheduled
    <2> QED
      BY <2>1, FixedKeeps
  <1> QED
    BY <1>1, <1>2, <1>3, <1>4, <1>5, <1>6, <1>7, OlsStorePrefixKeeps, FStoreKeeps
       DEF Next, ScheduledStep

\* Every step of a power-of-two kernel keeps KInv: what its build entry fixed
\* (length, radices, tile groups, batch step) stays fixed, a group starts at a
\* stage of the list, and no store reaches what the entry must leave alone.
THEOREM KernelInvariant == Spec => []KInv
  BY InitKeeps, StepKeeps, PTL DEF Spec

\* The one-block weld never writes to the discard zone of the caller's buffer,
\* the stream entry never writes its input, and a batch call leaves the gaps
\* between its blocks alone: for every length and kernel length, every list
\* and every tile budget.
THEOREM DiscardZoneKept == Spec => []DiscardZoneUntouched
  <1>1. KInv => DiscardZoneUntouched
    BY DEF KInv
  <1> QED
    BY <1>1, KernelInvariant, PTL

\* The tile of every group fits a budget below the length, and no group takes
\* in the final stage: for every list the search or an order pin can name.
THEOREM GroupsResident == Spec => []GroupsStayResident
  <1>1. KInv => GroupsStayResident
    <2> SUFFICES ASSUME KInv, kernel.group[t] >= 2
                 PROVE  /\ \E m \in TileBudgets : TileSize <= m /\ m < N
                        /\ GroupEnd <= FinalStage(kernel.rad)
      BY DEF GroupsStayResident
    <2> DEFINE rad == kernel.rad
    <2>1. Scheduled
      BY DEF KInv, KernelBuilt, GroupStarts
    <2>2. IsList(rad) /\ B(rad, FinalStage(rad)) = N /\ t \in DOMAIN rad
      BY <2>1 DEF KInv, KernelBuilt, GroupStarts, IsList
    <2>3. PICK maxTile \in TileBudgets \cup {0} :
            kernel.group = [i \in DOMAIN rad |-> GroupLen(rad, maxTile, i)]
      BY <2>1 DEF KInv, KernelBuilt
    <2>4. maxTile \in Nat /\ kernel.group[t] = GroupLen(rad, maxTile, t)
      <3>1. maxTile \in Nat
        BY BudgetsAssumption
      <3>2. kernel.group[t] = GroupLen(rad, maxTile, t)
        BY <2>2, <2>3
      <3> QED
        BY <3>1, <3>2
    <2>5. /\ maxTile # 0 /\ maxTile < B(rad, FinalStage(rad))
          /\ kernel.group[t] \in Nat /\ t + kernel.group[t] <= FinalStage(rad)
          /\ B(rad, t + kernel.group[t] - 1) <= maxTile
      BY <2>2, <2>4, GroupLenIs
    <2>6. TileSize <= maxTile
      <3>1. TileSize = B(kernel.rad, GroupEnd - 1)
        BY DEF TileSize
      <3>2. t \in Int
        BY <2>2 DEF IsList
      <3>3. GroupEnd - 1 = t + kernel.group[t] - 1
        BY <2>5, <3>2 DEF GroupEnd
      <3> QED
        BY <2>5, <3>1, <3>3
    <2> QED
      BY <2>2, <2>3, <2>5, <2>6 DEF GroupEnd
  <1> QED
    BY <1>1, KernelInvariant, PTL
=============================================================================
