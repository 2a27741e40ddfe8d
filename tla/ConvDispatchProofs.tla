-------------------------- MODULE ConvDispatchProofs --------------------------
(***************************************************************************)
(* Both legs of the whole-sequence convolution, for sequences and kernels  *)
(* of any length and impulses at any position: the in-place direct loop    *)
(* and the welded overlap-save blocks leave the linear convolution in io.  *)
(*                                                                         *)
(* The heart of the overlap-save leg is BlockIsValid: of the block's       *)
(* cyclic convolution the samples past the first nh-1 are linear ones,     *)
(* because what wraps around lands in front of them.                       *)
(***************************************************************************)
EXTENDS ConvDispatch, ConvMathProofs

\* The block of the overlap-save leg holds at least nh valid samples.
LEMMA BlockFacts ==
  ASSUME nh \in Nat, 1 <= nh, 2 * nh - 1 <= FamilyMax
  PROVE  BlockLen \in Nat /\ 2 * nh - 1 <= BlockLen /\ Valid \in Nat /\ nh <= Valid
  <1>1. 2 * nh - 1 \in Nat /\ 1 <= 2 * nh - 1 /\ 2 * nh - 1 <= 131072
    BY DEF FamilyMax
  <1>2. BlockLen \in PowersOfTwo /\ 2 * nh - 1 <= BlockLen
    BY <1>1, NextPow2Is DEF BlockLen
  <1> QED
    BY <1>2, PowerFacts DEF Valid

\* The in-place move: copying upward from index 0 reads every source before
\* it is overwritten.
LEMMA ShiftDownIs ==
  ASSUME nh \in Nat, 1 <= nh, BlockLen \in Nat, Valid \in Nat,
         NEW v, v = [i \in Idx(BlockLen) |-> v[i]]
  PROVE  ShiftDown(v) = [i \in Idx(BlockLen) |-> IF i < Valid THEN v[i + (nh - 1)] ELSE v[i]]
  <1> DEFINE Moves(g) == g = [i \in 0..Valid |->
                                IF i = 0 THEN v
                                ELSE LET w == g[i - 1] IN [w EXCEPT ![i - 1] = w[i - 1 + (nh - 1)]]]
             moved == CHOOSE g : Moves(g)
             After(i) == [q \in Idx(BlockLen) |-> IF q < i THEN v[q + (nh - 1)] ELSE v[q]]
  <1>0. Valid = BlockLen - nh + 1
    BY DEF Valid
  <1>1. After(0) = v
    BY DEF Idx
  <1>2. ASSUME NEW i \in 1..Valid
        PROVE  After(i) = [After(i - 1) EXCEPT ![i - 1] = After(i - 1)[i - 1 + (nh - 1)]]
    <2>1. i - 1 + (nh - 1) \in Idx(BlockLen) /\ i - 1 \in Idx(BlockLen)
      BY <1>0 DEF Idx
    <2>2. After(i - 1)[i - 1 + (nh - 1)] = v[i - 1 + (nh - 1)]
      BY <2>1 DEF Idx
    <2>3. [After(i - 1) EXCEPT ![i - 1] = After(i - 1)[i - 1 + (nh - 1)]]
          = [q \in Idx(BlockLen) |-> IF q = i - 1 THEN v[i - 1 + (nh - 1)] ELSE After(i - 1)[q]]
      BY <2>2
    <2>4. ASSUME NEW q \in Idx(BlockLen)
          PROVE  After(i)[q] = IF q = i - 1 THEN v[i - 1 + (nh - 1)] ELSE After(i - 1)[q]
      BY DEF Idx
    <2> QED
      BY <2>3, <2>4
  <1>3. Moves([i \in 0..Valid |-> After(i)])
    <2> HIDE DEF After
    <2> QED
      BY <1>1, <1>2
  <1>4. \E g : Moves(g)
    BY <1>3
  <1>5. ShiftDown(v) = moved[Valid]
    BY DEF ShiftDown
  <1> HIDE DEF Moves
  <1>6. Moves(moved)
    BY <1>4
  <1> HIDE DEF moved
  <1> USE DEF Moves
  <1>7. \A i \in 0..Valid : moved[i] = After(i)
    <2> DEFINE Bad == {i \in 0..Valid : moved[i] # After(i)}
    <2> SUFFICES ASSUME Bad # {} PROVE FALSE
      OBVIOUS
    <2>0. Bad \subseteq Nat
      OBVIOUS
    <2>1. PICK i \in Bad : \A j \in Bad : i <= j
      <3> HIDE DEF Bad
      <3> QED
        BY <2>0, LeastNatural
    <2>2. i # 0
      BY <1>1, <1>6
    <2>3. i - 1 \in 0..Valid /\ i - 1 \notin Bad
      BY <2>1, <2>2
    <2>4. moved[i - 1] = After(i - 1)
      BY <2>3
    <2> HIDE DEF After
    <2>5. moved[i] = [moved[i - 1] EXCEPT ![i - 1] = moved[i - 1][i - 1 + (nh - 1)]]
      BY <1>6, <2>2
    <2>6. i \in 1..Valid
      BY <2>2
    <2>7. moved[i] = After(i)
      BY <1>2, <2>4, <2>5, <2>6
    <2> QED
      BY <2>7
  <1> QED
    BY <1>5, <1>7

\* Under the shape of a plan with kernel impulse k and input impulse a the
\* linear convolution is the impulse at a + k.
LEMMA WantedOutput ==
  ASSUME nx \in Nat, nh \in Nat, NEW k \in Idx(nh), h = Impulse(nh, k),
         NEW a \in Idx(nx), x = Impulse(nx, a)
  PROVE  LinearConv(x, nx, h, nh) = Impulse(Ylen, a + k)
  BY LinearOfImpulses DEF Ylen

\* Every tap of the direct loop reads the input, and together they give the
\* output at m.
LEMMA MacIsConv ==
  ASSUME Shape, DirectRange, DirectInPlaceSafe, pc = "direct", m >= 0
  PROVE  Mac(m) = LinearConv(x, nx, h, nh)[m] /\ m \in Idx(Ylen)
  <1>1. PICK k \in Idx(nh) : h = Impulse(nh, k)
    BY DEF Shape
  <1>2. PICK a \in Idx(nx) : x = Impulse(nx, a)
    BY DEF Shape
  <1>3. /\ nx \in Nat /\ nh \in Nat /\ m \in Nat /\ m < nx + nh - 1 /\ 1 <= nh /\ nh <= nx
        /\ a \in Nat /\ a < nx /\ k \in Nat /\ k < nh
    BY <1>1, <1>2 DEF Shape, DirectRange, Ylen, Idx
  <1>4. LinearConv(x, nx, h, nh) = Impulse(Ylen, a + k)
    BY <1>1, <1>2, <1>3, WantedOutput
  <1>5. m \in Idx(Ylen)
    BY <1>3 DEF Idx, Ylen
  <1> DEFINE T == Taps(m)
             f == [j \in T |-> io[j] * h[m - j]]
  <1>6. \A j : j \in T <=> j \in Int /\ 0 <= j /\ j <= m /\ j < nx /\ m - j < nh
    BY <1>3 DEF Taps
  <1>7. IsFiniteSet(T)
    <2>1. \A lo, hi \in Int : IsFiniteSet(lo..hi)
      BY FS_Interval
    <2>2. T = 0..m \/ T = (m - nh + 1)..m \/ T = 0..(nx - 1) \/ T = (m - nh + 1)..(nx - 1)
      BY DEF Taps
    <2> QED
      BY <1>3, <2>1, <2>2
  <1>8. ASSUME NEW j \in T PROVE f[j] = IF j = a /\ m = a + k THEN 1 ELSE 0
    <2>1. io[j] = x[j] /\ j \in Idx(nx) /\ m - j \in Idx(nh)
      BY <1>3, <1>6 DEF DirectInPlaceSafe, Idx, Ylen
    <2>2. x[j] = (IF j = a THEN 1 ELSE 0) /\ h[m - j] = (IF m - j = k THEN 1 ELSE 0)
      BY <1>1, <1>2, <2>1 DEF Impulse
    <2> QED
      BY <1>3, <1>6, <2>1, <2>2
  <1>9. m = a + k => a \in T
    BY <1>3, <1>6
  <1> HIDE DEF T, f
  <1>10. Total(T, f) = IF a \in T THEN f[a] ELSE 0
    BY <1>7, <1>8, TotalOfOne
  <1>11. Mac(m) = Total(T, f)
    BY DEF Mac, T, f
  <1> QED
    BY <1>4, <1>5, <1>8, <1>9, <1>10, <1>11 DEF Impulse

\* The sub-plan on a window of the input: its first Valid samples are samples
\* b*Valid, b*Valid + 1, ... of the linear convolution.
LEMMA BlockIsValid ==
  ASSUME Shape, WorkIsInput, BlockIsWindow, pc = "sub",
         NEW i \in Idx(Valid), b * Valid + i < Ylen
  PROVE  LinearWrap(blk)[i] = LinearConv(x, nx, h, nh)[b * Valid + i]
  <1>1. PICK k \in Idx(nh) : h = Impulse(nh, k)
    BY DEF Shape
  <1>2. PICK a \in Idx(nx) : x = Impulse(nx, a)
    BY DEF Shape
  <1>3. /\ nx \in Nat /\ nh \in Nat /\ 1 <= nh /\ nh <= nx /\ 2 * nh - 1 <= FamilyMax
        /\ b \in Nat /\ a \in Nat /\ a < nx /\ k \in Nat /\ k < nh
    BY <1>1, <1>2 DEF Shape, WorkIsInput, Idx
  <1>4. /\ BlockLen \in Nat /\ nh <= BlockLen /\ 1 <= BlockLen
        /\ Valid \in Nat /\ Valid = BlockLen - nh + 1
    BY <1>3, BlockFacts DEF Valid
  <1>5. i \in Nat /\ i < Valid
    BY <1>4 DEF Idx
  <1> DEFINE base == b * Valid
             c == a + (nh - 1) - base
             C == CyclicConv(blk, Padded(h, nh, BlockLen), BlockLen)
  <1>6. base \in Nat /\ c \in Int
    BY <1>3, <1>4
  <1>7. Ylen \in Nat /\ Ylen = nx + nh - 1
    BY <1>3 DEF Ylen
  <1> HIDE DEF base
  <1>8. work = Impulse(Ylen, a + (nh - 1))
    <2>1. work = [p \in Idx(Ylen) |-> IF p - (nh - 1) \in Idx(nx) THEN x[p - (nh - 1)] ELSE 0]
      BY DEF WorkIsInput
    <2>2. ASSUME NEW p \in Idx(Ylen)
          PROVE  (IF p - (nh - 1) \in Idx(nx) THEN x[p - (nh - 1)] ELSE 0)
                   = IF p = a + (nh - 1) THEN 1 ELSE 0
      <3>1. p \in Int
        BY DEF Idx
      <3>2. p - (nh - 1) \in Idx(nx) => x[p - (nh - 1)] = IF p - (nh - 1) = a THEN 1 ELSE 0
        BY <1>2 DEF Impulse
      <3> QED
        BY <1>2, <1>3, <3>1, <3>2
    <2> QED
      BY <2>1, <2>2 DEF Impulse
  <1>9. blk = Impulse(BlockLen, c)
    <2>1. blk = [p \in Idx(BlockLen) |-> IF base + p < Ylen THEN work[base + p] ELSE 0]
      BY DEF BlockIsWindow, base
    <2>2. ASSUME NEW p \in Idx(BlockLen)
          PROVE  (IF base + p < Ylen THEN work[base + p] ELSE 0) = IF p = c THEN 1 ELSE 0
      <3>1. p \in Nat
        BY <1>4 DEF Idx
      <3>2. base + p < Ylen => work[base + p] = IF base + p = a + (nh - 1) THEN 1 ELSE 0
        BY <1>6, <1>7, <1>8, <3>1 DEF Impulse, Idx
      <3> QED
        BY <1>3, <1>6, <1>7, <3>1, <3>2
    <2> QED
      BY <2>1, <2>2 DEF Impulse
  <1>10. Padded(h, nh, BlockLen) = Impulse(BlockLen, k) /\ k \in Idx(BlockLen)
    BY <1>1, <1>3, <1>4, PaddedImpulse DEF Idx
  <1>11. C = [q \in Idx(BlockLen) |->
                IF c \in Idx(BlockLen) /\ q = (c + k) % BlockLen THEN 1 ELSE 0]
    BY <1>4, <1>6, <1>9, <1>10, CyclicOfImpulses
  <1>12. i \in Idx(BlockLen) /\ i + (nh - 1) \in Idx(BlockLen)
    BY <1>3, <1>4, <1>5 DEF Idx
  <1>13. LinearWrap(blk)[i] = C[i + (nh - 1)]
    <2>1. C = [q \in Idx(BlockLen) |-> C[q]]
      BY <1>11
    <2> HIDE DEF C
    <2>2. ShiftDown(C)[i] = C[i + (nh - 1)]
      BY <1>3, <1>4, <1>5, <1>12, <2>1, ShiftDownIs
    <2> QED
      BY <2>2 DEF LinearWrap, C
  <1>14. (c \in Idx(BlockLen) /\ i + (nh - 1) = (c + k) % BlockLen) <=> base + i = a + k
    <2>1. CASE c \in Idx(BlockLen)
      <3>1. 0 <= c /\ c < BlockLen
        BY <1>4, <1>6, <2>1 DEF Idx
      <3>2. (c + k) % BlockLen = IF c + k < BlockLen THEN c + k ELSE c + k - BlockLen
        BY <1>3, <1>4, <1>6, <3>1, NearRemainders
      <3> QED
        BY <1>3, <1>4, <1>5, <1>6, <2>1, <3>1, <3>2
    <2>2. CASE c \notin Idx(BlockLen)
      <3>1. c < 0 \/ c >= BlockLen
        BY <1>4, <1>6, <2>2 DEF Idx
      <3> QED
        BY <1>3, <1>4, <1>5, <1>6, <2>2, <3>1
    <2> QED
      BY <2>1, <2>2
  <1>15. LinearConv(x, nx, h, nh) = Impulse(Ylen, a + k) /\ base + i \in Idx(Ylen)
    <2>1. base + i < Ylen
      BY DEF base
    <2> QED
      BY <1>1, <1>2, <1>3, <1>5, <1>6, <1>7, <2>1, WantedOutput DEF Idx
  <1>16. C[i + (nh - 1)] = LinearConv(x, nx, h, nh)[base + i]
    BY <1>11, <1>12, <1>14, <1>15 DEF Impulse
  <1> QED
    BY <1>13, <1>16 DEF base

-----------------------------------------------------------------------------
\* A created plan satisfies the invariant.
LEMMA InitEstablishes == Init => IInv
  <1> SUFFICES ASSUME Init PROVE IInv
    OBVIOUS
  <1>1. PICK len \in 1..MaxNx, taps \in 1..MaxNh :
           taps <= len /\ \E k \in Idx(taps) : Create(len, taps, k)
    BY DEF Init
  <1>2. Shape
    BY <1>1, BoundsAssumption DEF Init, Create, Shape
  <1> QED
    BY <1>2 DEF Init, IInv, DirectRange, WorkIsInput, BlockIsWindow, OneCallIsLinearConv,
                DirectInPlaceSafe, OlsPrefixWelded

\* Calling execute on an input keeps the invariant, whatever the scratch
\* buffers still hold.
LEMMA ExecuteKeeps ==
  ASSUME IInv, NEW a \in Idx(nx), Execute(a)
  PROVE  IInv'
  <1>1. /\ nx \in Nat /\ nh \in Nat /\ 1 <= nh /\ nh <= nx
        /\ Ylen = nx + nh - 1 /\ Ylen' = Ylen /\ (Direct' <=> Direct) /\ Valid' = Valid
    BY DEF IInv, Shape, Execute, planVars, Ylen, Direct, Valid, BlockLen
  <1>2. Shape'
    <2>1. x' = Impulse(nx, a) /\ io' = [i \in Idx(Ylen) |-> io'[i]]
      BY DEF Execute
    <2>2. pc' \in {"direct", "fill"}
      BY DEF Execute
    <2> QED
      BY <1>1, <2>1, <2>2 DEF IInv, Shape, Execute, planVars
  <1>3. DirectRange'
    BY <1>1 DEF Execute, DirectRange
  <1>4. WorkIsInput'
    <2>1. \A i \in Idx(nx) : i \in Idx(Ylen) /\ i < nx
      BY <1>1 DEF Idx
    <2> QED
      BY <1>1, <2>1 DEF Execute, WorkIsInput, planVars
  <1>5. BlockIsWindow' /\ OneCallIsLinearConv'
    BY DEF Execute, BlockIsWindow, OneCallIsLinearConv
  <1>6. DirectInPlaceSafe'
    <2>1. \A i \in Idx(Ylen) : i \in Int /\ i <= Ylen - 1
      BY <1>1 DEF Idx
    <2> QED
      BY <1>1, <2>1 DEF Execute, DirectInPlaceSafe, planVars
  <1>7. OlsPrefixWelded'
    BY DEF Execute, OlsPrefixWelded
  <1> QED
    BY <1>2, <1>3, <1>4, <1>5, <1>6, <1>7 DEF IInv

\* One output of the direct loop keeps the invariant: it is final, and it
\* overwrites a sample that no later output reads.
LEMMA DirectStepKeeps ==
  ASSUME IInv, DirectStep
  PROVE  IInv'
  <1>1. /\ nx \in Nat /\ nh \in Nat /\ 1 <= nh /\ nh <= nx
        /\ Ylen = nx + nh - 1 /\ Ylen' = Ylen /\ (Direct' <=> Direct)
        /\ m \in Int /\ 0 <= m /\ m <= Ylen - 1 /\ m' = m - 1
    BY DEF IInv, Shape, DirectRange, DirectStep, planVars, Ylen, Direct
  <1>2. Mac(m) = LinearConv(x, nx, h, nh)[m] /\ m \in Idx(Ylen)
    BY MacIsConv DEF IInv, DirectStep
  <1>3. Shape'
    <2>1. io = [i \in Idx(Ylen) |-> io[i]] /\ io' = [io EXCEPT ![m] = Mac(m)]
      BY DEF IInv, Shape, DirectStep
    <2>2. io' = [i \in Idx(Ylen) |-> io'[i]]
      <3> HIDE DEF Mac
      <3> QED
        BY <2>1
    <2> QED
      BY <1>1, <2>2 DEF IInv, Shape, DirectStep, planVars
  <1>4. DirectRange'
    BY <1>1 DEF DirectStep, DirectRange
  <1>5. WorkIsInput' /\ BlockIsWindow' /\ OneCallIsLinearConv' /\ OlsPrefixWelded'
    BY DEF DirectStep, WorkIsInput, BlockIsWindow, OneCallIsLinearConv, OlsPrefixWelded
  <1>6. DirectInPlaceSafe'
    <2>1. /\ io' = [io EXCEPT ![m] = LinearConv(x, nx, h, nh)[m]] /\ io = [i \in Idx(Ylen) |-> io[i]]
          /\ x' = x /\ nx' = nx /\ h' = h /\ nh' = nh /\ pc' = "direct" /\ pc = "direct"
      BY <1>2 DEF DirectStep, planVars, IInv, Shape
    <2>2. \A i \in Idx(Ylen) : i \in Int
      BY DEF Idx
    <2> DEFINE y == LinearConv(x, nx, h, nh)
    <2>3. \A i \in Idx(Ylen) : /\ i > m => io[i] = y[i]
                               /\ i <= m /\ i < nx => io[i] = x[i]
      BY <2>1 DEF IInv, DirectInPlaceSafe
    <2> HIDE DEF y
    <2>4. \A i \in Idx(Ylen) : /\ i > m - 1 => io'[i] = y[i]
                               /\ i <= m - 1 /\ i < nx => io'[i] = x[i]
      BY <1>1, <1>2, <2>1, <2>2, <2>3 DEF y
    <2> QED
      BY <1>1, <2>1, <2>4 DEF DirectInPlaceSafe, y
  <1> QED
    BY <1>3, <1>4, <1>5, <1>6 DEF IInv

\* The direct loop returns with every output final.
LEMMA DirectReturnKeeps ==
  ASSUME IInv, DirectReturn
  PROVE  IInv'
  <1>1. PICK k \in Idx(nh) : h = Impulse(nh, k)
    BY DEF IInv, Shape
  <1>2. PICK a \in Idx(nx) : x = Impulse(nx, a)
    BY DEF IInv, Shape, DirectReturn
  <1>3. /\ nx \in Nat /\ nh \in Nat /\ Ylen' = Ylen /\ m \in Int /\ m < 0
        /\ io = [i \in Idx(Ylen) |-> io[i]]
    BY DEF IInv, Shape, DirectRange, DirectReturn, planVars, Ylen
  <1>4. LinearConv(x, nx, h, nh) = [i \in Idx(Ylen) |-> LinearConv(x, nx, h, nh)[i]]
    BY <1>1, <1>2, <1>3, WantedOutput DEF Impulse
  <1>5. \A i \in Idx(Ylen) : io[i] = LinearConv(x, nx, h, nh)[i]
    BY <1>3 DEF IInv, DirectInPlaceSafe, DirectReturn, Idx
  <1>6. io = LinearConv(x, nx, h, nh)
    BY <1>3, <1>4, <1>5
  <1>7. OneCallIsLinearConv'
    BY <1>6 DEF DirectReturn, OneCallIsLinearConv, planVars
  <1>8. Shape'
    BY <1>3 DEF IInv, Shape, DirectReturn, planVars, Direct
  <1> QED
    BY <1>7, <1>8 DEF IInv, DirectReturn, DirectRange, WorkIsInput, BlockIsWindow,
                      DirectInPlaceSafe, OlsPrefixWelded

\* Zeroing and filling the work buffer keeps the invariant: from here on the
\* execute reads its own input only.
LEMMA FillKeeps ==
  ASSUME IInv, Fill
  PROVE  IInv'
  <1>1. /\ nx \in Nat /\ nh \in Nat /\ 1 <= nh /\ nh <= nx
        /\ Ylen = nx + nh - 1 /\ Ylen' = Ylen /\ (Direct' <=> Direct) /\ Valid' = Valid
        /\ b' = 0 /\ b = 0
    BY DEF IInv, Shape, WorkIsInput, Fill, planVars, Ylen, Direct, Valid, BlockLen
  <1>2. Shape'
    BY <1>1 DEF IInv, Shape, Fill, planVars
  <1>3. WorkIsInput'
    <2>1. \A i \in Idx(nx) : io[i] = x[i]
      BY DEF IInv, WorkIsInput, Fill
    <2>2. work' = [i \in Idx(Ylen) |-> IF i - (nh - 1) \in Idx(nx) THEN x[i - (nh - 1)] ELSE 0]
      BY <2>1 DEF Fill
    <2>3. ~Direct /\ b \in Nat /\ pc' = "block" /\ x' = x /\ nx' = nx /\ nh' = nh
      BY DEF IInv, WorkIsInput, Fill, planVars
    <2> QED
      BY <1>1, <2>2, <2>3 DEF WorkIsInput
  <1>4. OlsPrefixWelded'
    <2>1. Valid \in Nat
      BY <1>1, BlockFacts DEF IInv, Shape, WorkIsInput, Fill
    <2>2. b' * Valid' = 0
      BY <1>1, <2>1
    <2>3. \A i \in Idx(Ylen) : ~(i < b' * Valid')
      BY <2>2 DEF Idx
    <2> QED
      BY <1>1, <2>3 DEF OlsPrefixWelded
  <1> QED
    BY <1>2, <1>3, <1>4 DEF IInv, Fill, DirectRange, BlockIsWindow, OneCallIsLinearConv,
                            DirectInPlaceSafe

\* Taking the next window keeps the invariant.
LEMMA FormBlockKeeps ==
  ASSUME IInv, FormBlock
  PROVE  IInv'
  <1>1. /\ Ylen' = Ylen /\ (Direct' <=> Direct) /\ Valid' = Valid /\ BlockLen' = BlockLen
        /\ nx' = nx /\ nh' = nh /\ h' = h /\ x' = x /\ io' = io /\ b' = b /\ work' = work
        /\ pc = "block" /\ pc' = "sub"
    BY DEF FormBlock, planVars, Ylen, Direct, Valid, BlockLen
  <1>2. Shape'
    BY <1>1 DEF IInv, Shape
  <1>3. WorkIsInput'
    BY <1>1 DEF IInv, WorkIsInput
  <1>4. BlockIsWindow'
    BY <1>1 DEF FormBlock, BlockIsWindow
  <1>5. OlsPrefixWelded'
    BY <1>1 DEF IInv, OlsPrefixWelded
  <1> QED
    BY <1>1, <1>2, <1>3, <1>4, <1>5 DEF IInv, DirectRange, OneCallIsLinearConv, DirectInPlaceSafe

\* Running the single-block plan keeps the invariant: the samples it moves to
\* the front are the outputs the window stands for.
LEMMA RunSubKeeps ==
  ASSUME IInv, RunSub
  PROVE  IInv'
  <1>1. /\ Ylen' = Ylen /\ (Direct' <=> Direct) /\ Valid' = Valid /\ BlockLen' = BlockLen
        /\ nx' = nx /\ nh' = nh /\ h' = h /\ x' = x /\ io' = io /\ b' = b /\ work' = work
        /\ pc = "sub" /\ pc' = "copy" /\ blk' = LinearWrap(blk)
    BY DEF RunSub, planVars, Ylen, Direct, Valid, BlockLen
  <1>2. Shape'
    BY <1>1 DEF IInv, Shape
  <1>3. WorkIsInput'
    BY <1>1 DEF IInv, WorkIsInput
  <1>4. BlockIsWindow'
    <2>1. \A i \in Idx(Valid) : b * Valid + i < Ylen =>
             LinearWrap(blk)[i] = LinearConv(x, nx, h, nh)[b * Valid + i]
      BY <1>1, BlockIsValid DEF IInv
    <2> QED
      BY <1>1, <2>1 DEF BlockIsWindow
  <1>5. OlsPrefixWelded'
    BY <1>1 DEF IInv, OlsPrefixWelded
  <1> QED
    BY <1>1, <1>2, <1>3, <1>4, <1>5 DEF IInv, DirectRange, OneCallIsLinearConv, DirectInPlaceSafe

\* Copying a block's valid samples into io extends the welded prefix by
\* exactly one block.
LEMMA CopyOutKeeps ==
  ASSUME IInv, CopyOut
  PROVE  IInv'
  <1>1. /\ Ylen' = Ylen /\ (Direct' <=> Direct) /\ Valid' = Valid /\ BlockLen' = BlockLen
        /\ nx' = nx /\ nh' = nh /\ h' = h /\ x' = x /\ b' = b + 1 /\ work' = work
        /\ pc = "copy" /\ pc' = "block"
        /\ io' = [i \in Idx(Ylen) |->
                     IF i - b * Valid \in Idx(Valid) THEN blk[i - b * Valid] ELSE io[i]]
    BY DEF CopyOut, planVars, Ylen, Direct, Valid, BlockLen
  <1>2. nx \in Nat /\ nh \in Nat /\ 1 <= nh /\ nh <= nx /\ b \in Nat /\ Valid \in Nat
        /\ Ylen = nx + nh - 1
    BY <1>1, BlockFacts DEF IInv, Shape, WorkIsInput, Ylen
  <1>3. Shape'
    <2>1. io' = [i \in Idx(Ylen) |-> io'[i]]
      BY <1>1
    <2> QED
      BY <1>1, <2>1 DEF IInv, Shape
  <1>4. WorkIsInput'
    BY <1>1, <1>2 DEF IInv, WorkIsInput
  <1>5. OlsPrefixWelded'
    <2> DEFINE base == b * Valid
               y == LinearConv(x, nx, h, nh)
    <2>1. base \in Nat /\ b' * Valid' = base + Valid
      BY <1>1, <1>2
    <2>2. \A i \in Idx(Valid) : base + i < Ylen => blk[i] = y[base + i]
      BY <1>1 DEF IInv, BlockIsWindow
    <2>3. \A i \in Idx(Ylen) : i < base => io[i] = y[i]
      BY <1>1 DEF IInv, OlsPrefixWelded
    <2>4. \A i \in Idx(Ylen) : io'[i] = IF i - base \in Idx(Valid) THEN blk[i - base] ELSE io[i]
      BY <1>1
    <2> HIDE DEF base, y
    <2>5. ASSUME NEW i \in Idx(Ylen), i < base + Valid PROVE io'[i] = y[i]
      <3>1. i \in Nat /\ i < Ylen
        BY <1>2 DEF Idx
      <3>2. CASE i < base
        <4>1. i - base \notin Idx(Valid)
          BY <2>1, <3>1, <3>2 DEF Idx
        <4> QED
          BY <2>3, <2>4, <3>2, <4>1
      <3>3. CASE i >= base
        <4>1. i - base \in Idx(Valid) /\ base + (i - base) = i
          BY <1>2, <2>1, <2>5, <3>1, <3>3 DEF Idx
        <4>2. blk[i - base] = y[i]
          BY <2>2, <3>1, <4>1
        <4> QED
          BY <2>4, <4>1, <4>2
      <3> QED
        BY <2>1, <3>1, <3>2, <3>3
    <2>6. pc' # "ready" /\ LinearConv(x', nx', h', nh') = y
      BY <1>1 DEF y
    <2> QED
      BY <1>1, <2>1, <2>5, <2>6 DEF OlsPrefixWelded
  <1> QED
    BY <1>1, <1>3, <1>4, <1>5 DEF IInv, DirectRange, BlockIsWindow, OneCallIsLinearConv,
                                  DirectInPlaceSafe

\* The blocks cover the whole output.
LEMMA BlocksCover ==
  ASSUME Ylen \in Nat, Valid \in Nat, Valid >= 1, b \in Nat, b >= Blocks
  PROVE  b * Valid >= Ylen
  <1>1. Blocks \in Nat /\ Blocks * Valid >= Ylen
    BY CeilQuotient DEF Blocks
  <1>2. \A p, q, v \in Nat : p >= q => p * v >= q * v
    OBVIOUS
  <1>3. b * Valid >= Blocks * Valid
    BY <1>1, <1>2
  <1>4. b * Valid \in Int /\ Blocks * Valid \in Int
    BY <1>1
  <1> QED
    BY <1>1, <1>3, <1>4

\* The overlap-save leg returns with the whole output welded.
LEMMA OlsReturnKeeps ==
  ASSUME IInv, OlsReturn
  PROVE  IInv'
  <1>1. PICK k \in Idx(nh) : h = Impulse(nh, k)
    BY DEF IInv, Shape
  <1>2. PICK a \in Idx(nx) : x = Impulse(nx, a)
    BY DEF IInv, Shape, OlsReturn
  <1>3. /\ nx \in Nat /\ nh \in Nat /\ 1 <= nh /\ Ylen' = Ylen /\ Ylen \in Nat /\ b \in Nat
        /\ Valid \in Nat /\ Valid >= 1 /\ (Direct' <=> Direct)
        /\ io = [i \in Idx(Ylen) |-> io[i]]
    BY BlockFacts DEF IInv, Shape, WorkIsInput, OlsReturn, planVars, Ylen, Direct
  <1>4. LinearConv(x, nx, h, nh) = [i \in Idx(Ylen) |-> LinearConv(x, nx, h, nh)[i]]
    BY <1>1, <1>2, <1>3, WantedOutput DEF Impulse
  <1>5. \A i \in Idx(Ylen) : io[i] = LinearConv(x, nx, h, nh)[i]
    <2>1. b * Valid >= Ylen /\ b * Valid \in Nat
      BY <1>3, BlocksCover DEF OlsReturn
    <2>2. \A i \in Idx(Ylen) : i < b * Valid
      BY <1>3, <2>1 DEF Idx
    <2> QED
      BY <2>2 DEF IInv, OlsPrefixWelded, OlsReturn
  <1>6. io = LinearConv(x, nx, h, nh)
    BY <1>3, <1>4, <1>5
  <1>7. OneCallIsLinearConv'
    BY <1>6 DEF OlsReturn, OneCallIsLinearConv, planVars
  <1>8. Shape'
    BY <1>3 DEF IInv, Shape, OlsReturn, planVars
  <1> QED
    BY <1>7, <1>8 DEF IInv, OlsReturn, DirectRange, WorkIsInput, BlockIsWindow,
                      DirectInPlaceSafe, OlsPrefixWelded

\* So every step of the specification keeps it.
LEMMA StepKeeps == IInv /\ [Next]_vars => IInv'
  <1> SUFFICES ASSUME IInv, [Next]_vars PROVE IInv'
    OBVIOUS
  <1>1. CASE \E a \in Idx(nx) : Execute(a)
    BY <1>1, ExecuteKeeps
  <1>2. CASE DirectStep
    BY <1>2, DirectStepKeeps
  <1>3. CASE DirectReturn
    BY <1>3, DirectReturnKeeps
  <1>4. CASE Fill
    BY <1>4, FillKeeps
  <1>5. CASE FormBlock
    BY <1>5, FormBlockKeeps
  <1>6. CASE RunSub
    BY <1>6, RunSubKeeps
  <1>7. CASE CopyOut
    BY <1>7, CopyOutKeeps
  <1>8. CASE OlsReturn
    BY <1>8, OlsReturnKeeps
  <1>9. CASE UNCHANGED vars
    BY <1>9 DEF vars, IInv, Shape, DirectRange, WorkIsInput, BlockIsWindow, OneCallIsLinearConv,
                DirectInPlaceSafe, OlsPrefixWelded, Ylen, Direct, Valid, BlockLen
  <1> QED
    BY <1>1, <1>2, <1>3, <1>4, <1>5, <1>6, <1>7, <1>8, <1>9 DEF Next, Run
-----------------------------------------------------------------------------
\* In every reachable state the invariant holds.
LEMMA AlwaysIInv == Spec => []IInv
  BY InitEstablishes, StepKeeps, PTL DEF Spec

\* One fft_execute of a dispatch plan writes the whole linear convolution of
\* its own input, on both legs, for every nx >= nh >= 1 and whatever earlier
\* executes left in the plan's buffers (fft.h:176).
THEOREM OneCallConvolves == Spec => []OneCallIsLinearConv
  <1>1. IInv => OneCallIsLinearConv
    BY DEF IInv
  <1> QED
    BY <1>1, AlwaysIInv, PTL

\* The in-place direct loop never multiplies a sample it has overwritten,
\* whatever the lengths.
THEOREM DirectLegInPlace == Spec => []DirectInPlaceSafe
  <1>1. IInv => DirectInPlaceSafe
    BY DEF IInv
  <1> QED
    BY <1>1, AlwaysIInv, PTL

\* After b blocks of the overlap-save leg the first b*valid outputs are
\* final, although each window reads nh-1 samples of the one before it.
THEOREM OlsLegWelds == Spec => []OlsPrefixWelded
  <1>1. IInv => OlsPrefixWelded
    BY DEF IInv
  <1> QED
    BY <1>1, AlwaysIInv, PTL
=============================================================================
