--------------------------- MODULE OlsStreamProofs ---------------------------
(***************************************************************************)
(* The overlap-save plan under a caller that feeds it windows, for every   *)
(* block length, kernel length and input: however single blocks and stream *)
(* calls are mixed, the valid fronts concatenate to the linear             *)
(* convolution.  FrontOfWindow is where the two ways to run a block, the   *)
(* weld and the tiny floor, are shown to return the same samples.          *)
(***************************************************************************)
EXTENDS OlsStream, ConvMathProofs

\* The sizes of a plan, and where its kernel and input have their impulse.
LEMMA PlanFacts ==
  ASSUME Shape
  PROVE  /\ n \in Nat /\ 1 <= n /\ nh \in Nat /\ 1 <= nh /\ nh <= n
         /\ nx \in Nat /\ pos \in Nat
         /\ Hop \in Nat /\ 1 <= Hop /\ Hop = n - nh + 1
         /\ \E k \in Idx(nh) : h = Impulse(nh, k) /\ k \in Nat /\ k < nh
         /\ \E a \in Idx(nx) : x = Impulse(nx, a) /\ a \in Nat /\ a < nx
  <1>1. n \in Nat /\ 1 <= n
    BY BlocksAssumption, PowerFacts DEF Shape
  <1> QED
    BY <1>1 DEF Shape, Hop, Idx

\* The samples of the linear convolution, continued with zeros, are an
\* impulse.
LEMMA ConvAtIs ==
  ASSUME nx \in Nat, nh \in Nat, NEW k \in Idx(nh), h = Impulse(nh, k),
         NEW a \in Idx(nx), x = Impulse(nx, a), NEW i \in Nat
  PROVE  ConvAt(i) = IF i = a + k THEN 1 ELSE 0
  <1>1. LinearConv(x, nx, h, nh) = Impulse(nx + nh - 1, a + k)
    BY LinearOfImpulses
  <1>2. a \in Nat /\ a < nx /\ k \in Nat /\ k < nh
    BY DEF Idx
  <1>3. i < nx + nh - 1 => Impulse(nx + nh - 1, a + k)[i] = IF i = a + k THEN 1 ELSE 0
    BY <1>2 DEF Impulse, Idx
  <1> QED
    BY <1>1, <1>2, <1>3 DEF ConvAt

\* Window b of the feed is an impulse too, or zero.
LEMMA WindowIs ==
  ASSUME Feeding = "windows", Shape, NEW a \in Idx(nx), x = Impulse(nx, a), NEW b \in Nat
  PROVE  [i \in Idx(n) |-> Fed(b, i)] = Impulse(n, a + (nh - 1) - b * Hop)
  <1> DEFINE base == b * Hop
  <1>1. /\ n \in Nat /\ nh \in Nat /\ nx \in Nat /\ base \in Nat /\ a \in Nat /\ a < nx
    BY PlanFacts DEF Idx
  <1>2. \A i : Fed(b, i) = Sample(base + i - (nh - 1))
    BY DEF Fed
  <1> HIDE DEF base
  <1>3. ASSUME NEW i \in Idx(n)
        PROVE  Fed(b, i) = IF i = a + (nh - 1) - base THEN 1 ELSE 0
    <2>1. i \in Int
      BY <1>1 DEF Idx
    <2>2. base + i - (nh - 1) \in Idx(nx) =>
            x[base + i - (nh - 1)] = IF base + i - (nh - 1) = a THEN 1 ELSE 0
      BY DEF Impulse
    <2> QED
      BY <1>1, <1>2, <2>1, <2>2 DEF Sample
  <1>4. [i \in Idx(n) |-> Fed(b, i)] = Impulse(n, a + (nh - 1) - base)
    BY <1>3 DEF Impulse
  <1> QED
    BY <1>4 DEF base

\* What the weld leaves past the first nh-1 samples of an impulse.
LEMMA ValidOfImpulse ==
  ASSUME Shape, NEW k \in Idx(nh), h = Impulse(nh, k), NEW c \in Int
  PROVE  ValidOf(Impulse(n, c)) = [i \in Idx(Hop) |-> IF i + (nh - 1) = c + k THEN 1 ELSE 0]
  <1>1. /\ n \in Nat /\ 1 <= n /\ nh \in Nat /\ 1 <= nh /\ nh <= n
        /\ Hop = n - nh + 1 /\ Hop \in Nat /\ k \in Nat /\ k < nh
    BY PlanFacts DEF Idx
  <1>2. Padded(h, nh, n) = Impulse(n, k) /\ k \in Idx(n)
    BY <1>1, PaddedImpulse DEF Idx
  <1> DEFINE C == CyclicConv(Impulse(n, c), Padded(h, nh, n), n)
  <1>3. C = [q \in Idx(n) |-> IF c \in Idx(n) /\ q = (c + k) % n THEN 1 ELSE 0]
    <2>1. C = CyclicConv(Impulse(n, c), Impulse(n, k), n)
      BY <1>2
    <2>2. n \in Nat /\ n >= 1 /\ k \in Idx(n)
      BY <1>1, <1>2
    <2>3. CyclicConv(Impulse(n, c), Impulse(n, k), n)
            = [q \in Idx(n) |-> IF c \in Idx(n) /\ q = (c + k) % n THEN 1 ELSE 0]
      BY <2>2, CyclicOfImpulses
    <2> QED
      BY <2>1, <2>3
  <1>4. ValidOf(Impulse(n, c)) = [i \in Idx(Hop) |-> C[i + (nh - 1)]]
    BY DEF ValidOf
  <1> HIDE DEF C
  <1>5. ASSUME NEW i \in Idx(Hop)
        PROVE  C[i + (nh - 1)] = IF i + (nh - 1) = c + k THEN 1 ELSE 0
    <2>1. i \in Nat /\ i < Hop /\ i + (nh - 1) \in Idx(n)
      BY <1>1 DEF Idx
    <2>2. (c \in Idx(n) /\ i + (nh - 1) = (c + k) % n) <=> i + (nh - 1) = c + k
      <3>1. CASE c \in Idx(n)
        <4>1. 0 <= c /\ c < n
          BY <1>1, <3>1 DEF Idx
        <4>2. (c + k) % n = IF c + k < n THEN c + k ELSE c + k - n
          BY <1>1, <4>1, NearRemainders
        <4> QED
          BY <1>1, <2>1, <3>1, <4>1, <4>2
      <3>2. CASE c \notin Idx(n)
        <4>1. c < 0 \/ c >= n
          BY <1>1, <3>2 DEF Idx
        <4> QED
          BY <1>1, <2>1, <3>2, <4>1
      <3> QED
        BY <3>1, <3>2
    <2> QED
      BY <1>3, <2>1, <2>2
  <1> QED
    BY <1>4, <1>5

\* The tiny floor's sums over the taps give the same samples.
LEMMA TinyOfImpulse ==
  ASSUME Shape, NEW k \in Idx(nh), h = Impulse(nh, k), NEW c \in Int
  PROVE  TinyValid(Impulse(n, c)) = [i \in Idx(Hop) |-> IF i + (nh - 1) = c + k THEN 1 ELSE 0]
  <1>1. /\ n \in Nat /\ 1 <= n /\ nh \in Nat /\ 1 <= nh /\ nh <= n
        /\ Hop = n - nh + 1 /\ Hop \in Nat /\ k \in Nat /\ k < nh
    BY PlanFacts DEF Idx
  <1> DEFINE w == Impulse(n, c)
             f(m) == [j \in Idx(nh) |-> h[j] * w[(m - j + n) % n]]
             z == [m \in Idx(n) |-> Total(Idx(nh), f(m))]
  <1>2. TinyValid(w) = [i \in Idx(Hop) |-> z[i + nh - 1]]
    BY DEF TinyValid
  <1>3. ASSUME NEW i \in Idx(Hop)
        PROVE  z[i + nh - 1] = IF i + (nh - 1) = c + k THEN 1 ELSE 0
    <2> DEFINE m == i + nh - 1
    <2>1. i \in Nat /\ i < Hop /\ m \in Idx(n) /\ m \in Nat /\ m < n /\ k <= m
      BY <1>1 DEF Idx
    <2>2. z[m] = Total(Idx(nh), f(m))
      BY <2>1
    <2>3. ASSUME NEW j \in Idx(nh)
          PROVE  /\ (m - j + n) % n \in Idx(n)
                 /\ w[(m - j + n) % n] \in {0, 1}
                 /\ f(m)[j] = (IF j = k THEN 1 ELSE 0) * w[(m - j + n) % n]
      <3>1. j \in Nat /\ j < nh /\ j <= m
        BY <1>1, <2>1 DEF Idx
      <3>2. (m - j + n) % n = m - j
        BY <1>1, <2>1, <3>1, NearRemainders
      <3>3. m - j \in Idx(n)
        BY <1>1, <2>1, <3>1 DEF Idx
      <3> QED
        BY <3>2, <3>3 DEF Impulse
    <2>4. (m - k + n) % n = m - k
      BY <1>1, <2>1, NearRemainders
    <2>5. w[m - k] = IF m - k = c THEN 1 ELSE 0
      BY <2>3, <2>4 DEF Impulse
    <2> HIDE DEF w, z, m
    <2>6. f(m)[k] = IF m - k = c THEN 1 ELSE 0
      BY <2>3, <2>4, <2>5
    <2>7. \A j \in Idx(nh) : j # k => f(m)[j] = 0
      BY <2>3
    <2> HIDE DEF f
    <2>8. Total(Idx(nh), f(m)) = IF m - k = c THEN 1 ELSE 0
      <3>1. IsFiniteSet(Idx(nh)) /\ f(m)[k] \in Int
        BY <1>1, <2>6, IdxFinite
      <3> QED
        BY <2>6, <2>7, <3>1, TotalOfOne
    <2>9. z[m] = IF m - k = c THEN 1 ELSE 0
      BY <2>2, <2>8
    <2> QED
      BY <1>1, <2>1, <2>9 DEF m
  <1> HIDE DEF z, w
  <1> QED
    BY <1>2, <1>3 DEF w

\* So the front of window b is the next stretch of the linear convolution.
LEMMA FrontOfWindow ==
  ASSUME Feeding = "windows", Shape, NEW b \in Nat, NEW w, w = [i \in Idx(n) |-> Fed(b, i)],
         NEW i \in Idx(Hop)
  PROVE  Front(w)[i] = ConvAt(b * Hop + i)
  <1>1. PICK k \in Idx(nh) : h = Impulse(nh, k) /\ k \in Nat /\ k < nh
    BY PlanFacts
  <1>2. PICK a \in Idx(nx) : x = Impulse(nx, a) /\ a \in Nat /\ a < nx
    BY PlanFacts
  <1> DEFINE base == b * Hop
             c == a + (nh - 1) - base
  <1>3. /\ n \in Nat /\ nh \in Nat /\ 1 <= nh /\ nh <= n /\ nx \in Nat
        /\ base \in Nat /\ c \in Int /\ i \in Nat /\ base + i \in Nat
    <2>1. Hop \in Nat
      BY PlanFacts
    <2>2. base \in Nat
      BY <2>1
    <2> HIDE DEF base
    <2> QED
      BY <1>2, <2>1, <2>2, PlanFacts DEF Idx
  <1>4. w = Impulse(n, c)
    BY <1>2, WindowIs
  <1>5. ConvAt(base + i) = IF base + i = a + k THEN 1 ELSE 0
    BY <1>1, <1>2, <1>3, ConvAtIs
  <1> HIDE DEF base
  <1>6. base + i = a + k <=> i + (nh - 1) = c + k
    BY <1>1, <1>2, <1>3
  <1>7. Front(w)[i] = IF i + (nh - 1) = c + k THEN 1 ELSE 0
    <2> DEFINE V == [j \in Idx(Hop) |-> IF j + (nh - 1) = c + k THEN 1 ELSE 0]
    <2>1. TinyValid(Impulse(n, c)) = V
      BY <1>1, <1>3, TinyOfImpulse
    <2>2. ValidOf(Impulse(n, c)) = V
      BY <1>1, <1>3, ValidOfImpulse
    <2> HIDE DEF c
    <2>3. Front(w) = V
      BY <1>4, <2>1, <2>2 DEF Front
    <2> QED
      BY <2>3
  <1> QED
    BY <1>5, <1>6, <1>7 DEF base

-----------------------------------------------------------------------------
\* Multiples of the hop, and the window an output belongs to.
LEMMA HopSteps ==
  ASSUME NEW p \in Nat, NEW v \in Nat, 1 <= v
  PROVE  /\ p * v \in Nat
         /\ (p + 1) * v = p * v + v
         /\ p >= 1 => p - 1 \in Nat /\ (p - 1) * v + v = p * v /\ (p - 1) * v \in Nat
  OBVIOUS

LEMMA WindowOf ==
  ASSUME NEW p \in Nat, NEW k \in Nat, NEW v \in Nat, 1 <= v,
         NEW i \in Nat, p * v <= i, i < (p + k) * v
  PROVE  /\ i \div v \in p..(p + k - 1)
         /\ i % v \in Idx(v)
         /\ (i \div v) * v + (i % v) = i
  <1> DEFINE q == i \div v
             r == i % v
  <1>1. q \in Nat /\ r \in Nat /\ r < v /\ i = q * v + r
    BY SMT
  <1> HIDE DEF q, r
  <1>2. \A s, t \in Nat : s >= t => s * v >= t * v
    BY SMT
  <1>3. q >= p
    <2>1. CASE p >= q + 1
      <3>1. p * v >= (q + 1) * v
        BY <1>1, <1>2, <2>1
      <3>2. (q + 1) * v = q * v + v /\ q * v \in Nat /\ p * v \in Nat
        BY <1>1, HopSteps
      <3> QED
        BY <1>1, <3>1, <3>2
    <2> QED
      BY <1>1, <2>1
  <1>4. q < p + k
    <2>1. CASE q >= p + k
      <3>1. q * v >= (p + k) * v
        BY <1>1, <1>2, <2>1
      <3>2. q * v \in Nat /\ (p + k) * v \in Nat
        BY <1>1, HopSteps
      <3> QED
        BY <1>1, <3>1, <3>2
    <2> QED
      BY <1>1, <2>1
  <1> QED
    BY <1>1, <1>3, <1>4 DEF q, r, Idx

\* A fresh plan and a caller that has fed nothing satisfy the invariant.
LEMMA InitEstablishes == Feeding = "windows" /\ Init => IInv
  <1> SUFFICES ASSUME Feeding = "windows", Init PROVE IInv
    OBVIOUS
  <1>1. Shape
    <2>1. PICK l \in 1..MaxNh : \E k \in Idx(l) : l <= n /\ nh = l /\ h = Impulse(l, k)
      BY DEF Init
    <2>2. l \in Nat /\ 1 <= l /\ nh = l
      BY <2>1
    <2>3. nx \in Nat
      BY DEF Init
    <2> QED
      BY <2>1, <2>2, <2>3 DEF Init, Shape
  <1>2. FrontsConcatenated
    <2>1. Hop \in Nat /\ Taken = 0 /\ y = <<>>
      BY <1>1, PlanFacts DEF Init, Taken
    <2>2. Idx(Taken * Hop) = {}
      BY <2>1 DEF Idx
    <2>3. DOMAIN y = {}
      BY <2>1
    <2> QED
      BY <2>1, <2>2, <2>3 DEF FrontsConcatenated
  <1> QED
    BY <1>1, <1>2 DEF Init, IInv, BlockHeld, TailIsNextHead

\* Feeding a window keeps the invariant.
LEMMA FeedKeeps ==
  ASSUME Feeding = "windows", IInv, Feed
  PROVE  IInv'
  <1>1. /\ Hop' = Hop /\ Taken' = Taken /\ (Shape => Shape') /\ \A i : ConvAt(i)' = ConvAt(i)
        /\ y' = y /\ lost' = lost /\ pc' = "execute"
    BY DEF Feed, fixed, Hop, Taken, Shape, ConvAt
  <1>2. io' = [i \in Idx(n') |-> Fed(pos, i)'] /\ pos' = pos
    BY DEF Feed, fixed, Fed, Sample, Hop
  <1> QED
    BY <1>1, <1>2 DEF IInv, FrontsConcatenated, BlockHeld, TailIsNextHead

\* Executing a window keeps the invariant: io is its valid front, and the
\* tail saved before is the head of the next window.
LEMMA ExecuteKeeps ==
  ASSUME Feeding = "windows", IInv, Execute
  PROVE  IInv'
  <1>1. /\ Shape /\ n \in Nat /\ nh \in Nat /\ 1 <= nh /\ nh <= n /\ pos \in Nat /\ Hop \in Nat
        /\ 1 <= Hop /\ Hop = n - nh + 1
    BY PlanFacts DEF IInv
  <1>2. /\ n' = n /\ nh' = nh /\ nx' = nx /\ x' = x /\ h' = h /\ y' = y /\ lost' = lost
        /\ pos' = pos + 1 /\ pc = "execute" /\ pc' = "take"
        /\ Hop' = Hop /\ Taken' = Taken /\ (Shape => Shape') /\ \A i : ConvAt(i)' = ConvAt(i)
    BY <1>1 DEF Execute, fixed, Hop, Taken, Shape, ConvAt
  <1>3. io = [i \in Idx(n) |-> Fed(pos, i)]
    BY <1>2 DEF IInv, BlockHeld
  <1>4. FrontsConcatenated'
    BY <1>2 DEF IInv, FrontsConcatenated
  <1>5. BlockHeld'
    <2>1. \A i \in Idx(Hop) : io'[i] = Front(io)[i]
      <3>1. \A i \in Idx(Hop) : i \in Idx(n) /\ i < Hop
        BY <1>1 DEF Idx
      <3> QED
        BY <3>1 DEF Execute
    <2>2. \A i \in Idx(Hop) : Front(io)[i] = ConvAt(pos * Hop + i)
      BY <1>1, <1>3, FrontOfWindow
    <2>3. pos' - 1 = pos
      BY <1>1, <1>2
    <2> QED
      BY <1>2, <2>1, <2>2, <2>3 DEF BlockHeld
  <1>6. TailIsNextHead'
    <2>1. tail' = [i \in Idx(nh - 1) |-> io[n - nh + 1 + i]]
      BY DEF Execute
    <2>2. ASSUME NEW i \in Idx(nh - 1)
          PROVE  tail'[i] = Sample(pos' * Hop + i - (nh - 1))
      <3>1. i \in Int /\ n - nh + 1 + i \in Idx(n)
        BY <1>1 DEF Idx
      <3>2. tail'[i] = Fed(pos, n - nh + 1 + i)
        BY <1>3, <2>1, <3>1
      <3>3. pos' * Hop = pos * Hop + Hop /\ pos * Hop \in Nat
        BY <1>1, <1>2, HopSteps
      <3>4. pos * Hop + (n - nh + 1 + i) - (nh - 1) = pos' * Hop + i - (nh - 1)
        BY <1>1, <3>1, <3>3
      <3> QED
        BY <3>2, <3>4 DEF Fed
    <2>3. \A i : Sample(i)' = Sample(i)
      BY <1>2 DEF Sample
    <2> QED
      BY <1>2, <2>2, <2>3 DEF TailIsNextHead, Fed
  <1> QED
    BY <1>1, <1>2, <1>4, <1>5, <1>6 DEF IInv

\* Appending the front keeps the invariant.
LEMMA TakeKeeps ==
  ASSUME Feeding = "windows", IInv, Take
  PROVE  IInv'
  <1>1. /\ Shape /\ pos \in Nat /\ Hop \in Nat /\ 1 <= Hop /\ pc = "take" /\ pos - 1 \in Nat
    BY PlanFacts DEF IInv, Take, FrontsConcatenated, Taken
  <1>2. /\ pos' = pos /\ lost' = lost /\ pc' = "feed" /\ Hop' = Hop /\ Taken' = pos
        /\ (Shape => Shape') /\ \A i : ConvAt(i)' = ConvAt(i)
    BY DEF Take, fixed, Hop, Taken, Shape, ConvAt
  <1> DEFINE done == (pos - 1) * Hop
  <1>3. done \in Nat /\ done + Hop = pos * Hop
    BY <1>1, HopSteps
  <1>4. y' = [i \in Idx(pos * Hop) |-> IF i < done THEN y[i] ELSE io[i - done]]
    BY DEF Take
  <1>5. \A i \in Idx(done) : i \div Hop \notin lost => y[i] = ConvAt(i)
    BY <1>1 DEF IInv, FrontsConcatenated, Taken
  <1>6. \A i \in Idx(Hop) : io[i] = ConvAt(done + i)
    BY <1>1 DEF IInv, BlockHeld
  <1> HIDE DEF done
  <1>7. ASSUME NEW i \in Idx(pos * Hop), i \div Hop \notin lost PROVE y'[i] = ConvAt(i)
    <2>1. i \in Nat /\ i < done + Hop
      BY <1>1, <1>3 DEF Idx
    <2>2. CASE i < done
      <3>1. i \in Idx(done)
        BY <1>3, <2>1, <2>2 DEF Idx
      <3> QED
        BY <1>4, <1>5, <1>7, <2>2, <3>1
    <2>3. CASE i >= done
      <3>1. i - done \in Idx(Hop) /\ done + (i - done) = i
        BY <1>1, <1>3, <2>1, <2>3 DEF Idx
      <3>2. y'[i] = io[i - done]
        BY <1>3, <1>4, <2>1, <2>3
      <3> QED
        BY <1>6, <3>1, <3>2
    <2> QED
      BY <1>3, <2>1, <2>2, <2>3
  <1>8. FrontsConcatenated'
    <2>1. DOMAIN y' = Idx(pos * Hop)
      BY <1>4
    <2> QED
      BY <1>1, <1>2, <1>7, <2>1 DEF FrontsConcatenated
  <1> QED
    BY <1>1, <1>2, <1>8 DEF IInv, BlockHeld, TailIsNextHead

\* A stream call over k windows keeps the invariant.
LEMMA StreamKeeps ==
  ASSUME Feeding = "windows", IInv, NEW k \in Nat, Stream(k)
  PROVE  IInv'
  <1>1. Shape /\ n \in Nat /\ pos \in Nat /\ Hop \in Nat /\ 1 <= Hop /\ pc = "feed" /\ Taken = pos
    BY PlanFacts DEF IInv, Stream, Taken
  <1>2. /\ pos' = pos + k /\ lost' = lost /\ pc' = "feed" /\ Hop' = Hop /\ Taken' = pos + k
        /\ (Shape => Shape') /\ \A i : ConvAt(i)' = ConvAt(i)
    BY <1>1 DEF Stream, fixed, Hop, Taken, Shape, ConvAt
  <1> DEFINE f == [b \in pos..(pos + k - 1) |-> Front([i \in Idx(n) |-> Fed(b, i)])]
             done == pos * Hop
  <1>3. y' = [i \in Idx((pos + k) * Hop) |->
                IF i < pos * Hop THEN y[i] ELSE f[i \div Hop][i % Hop]]
    BY DEF Stream
  <1>4. \A i \in Idx(pos * Hop) : i \div Hop \notin lost => y[i] = ConvAt(i)
    BY <1>1 DEF IInv, FrontsConcatenated
  <1>5. ASSUME NEW b \in pos..(pos + k - 1), NEW i \in Idx(Hop)
        PROVE  f[b][i] = ConvAt(b * Hop + i)
    BY <1>1, FrontOfWindow
  <1>6. done \in Nat /\ (pos + k) * Hop \in Nat
    BY <1>1, HopSteps
  <1> HIDE DEF f
  <1>7. ASSUME NEW i \in Idx((pos + k) * Hop), i \div Hop \notin lost PROVE y'[i] = ConvAt(i)
    <2>1. i \in Nat /\ i < (pos + k) * Hop
      BY <1>6 DEF Idx
    <2>2. CASE i < pos * Hop
      <3>1. i \in Idx(pos * Hop)
        BY <1>6, <2>1, <2>2 DEF Idx
      <3> QED
        BY <1>3, <1>4, <1>7, <2>2, <3>1
    <2>3. CASE pos * Hop <= i
      <3>1. /\ i \div Hop \in pos..(pos + k - 1) /\ i % Hop \in Idx(Hop)
            /\ (i \div Hop) * Hop + (i % Hop) = i
        BY <1>1, <2>1, <2>3, WindowOf, ZenonT(30)
      <3>2. ~(i < pos * Hop)
        BY <1>6, <2>1, <2>3
      <3>3. y'[i] = f[i \div Hop][i % Hop]
        BY <1>3, <3>2
      <3>4. f[i \div Hop][i % Hop] = ConvAt((i \div Hop) * Hop + (i % Hop))
        BY <1>5, <3>1
      <3> QED
        BY <3>1, <3>3, <3>4
    <2> QED
      BY <1>6, <2>1, <2>2, <2>3
  <1>8. FrontsConcatenated'
    <2>1. DOMAIN y' = Idx((pos + k) * Hop)
      BY <1>3
    <2>2. pos + k \in Nat
      BY <1>1
    <2> QED
      BY <1>2, <1>7, <2>1, <2>2 DEF FrontsConcatenated
  <1> QED
    BY <1>1, <1>2, <1>8 DEF IInv, BlockHeld, TailIsNextHead

\* One that cannot stage its k windows keeps it too: they are lost, and what
\* came before is not touched.
LEMMA UnstagedKeeps ==
  ASSUME Feeding = "windows", IInv, NEW k \in Nat, StreamUnstaged(k)
  PROVE  IInv'
  <1>1. Shape /\ pos \in Nat /\ Hop \in Nat /\ 1 <= Hop /\ pc = "feed" /\ Taken = pos
    BY PlanFacts DEF IInv, StreamUnstaged, Taken
  <1>2. /\ pos' = pos + k /\ lost' = lost \cup pos..(pos + k - 1) /\ pc' = "feed"
        /\ Hop' = Hop /\ Taken' = pos + k
        /\ (Shape => Shape') /\ \A i : ConvAt(i)' = ConvAt(i)
    BY <1>1 DEF StreamUnstaged, fixed, Hop, Taken, Shape, ConvAt
  <1>3. y' = [i \in Idx((pos + k) * Hop) |-> IF i < pos * Hop THEN y[i] ELSE Garbage]
    BY DEF StreamUnstaged
  <1>4. \A i \in Idx(pos * Hop) : i \div Hop \notin lost => y[i] = ConvAt(i)
    BY <1>1 DEF IInv, FrontsConcatenated
  <1>5. pos * Hop \in Nat /\ (pos + k) * Hop \in Nat
    BY <1>1, HopSteps
  <1>6. ASSUME NEW i \in Idx((pos + k) * Hop), i \div Hop \notin lost' PROVE y'[i] = ConvAt(i)
    <2>1. i \in Nat /\ i < (pos + k) * Hop
      BY <1>5 DEF Idx
    <2>2. i < pos * Hop
      <3>1. pos * Hop <= i => i \div Hop \in pos..(pos + k - 1)
        BY <1>1, <2>1, WindowOf, ZenonT(30)
      <3> QED
        BY <1>2, <1>5, <1>6, <2>1, <3>1
    <2>3. i \in Idx(pos * Hop)
      BY <1>5, <2>1, <2>2 DEF Idx
    <2> QED
      BY <1>2, <1>3, <1>4, <1>6, <2>2, <2>3
  <1>7. FrontsConcatenated'
    <2>1. DOMAIN y' = Idx((pos + k) * Hop)
      BY <1>3
    <2>2. pos + k \in Nat
      BY <1>1
    <2> QED
      BY <1>2, <1>6, <2>1, <2>2 DEF FrontsConcatenated
  <1> QED
    BY <1>1, <1>2, <1>7 DEF IInv, BlockHeld, TailIsNextHead

\* So every step of the specification keeps it.
LEMMA StepKeeps == Feeding = "windows" /\ IInv /\ [Next]_vars => IInv'
  <1> SUFFICES ASSUME Feeding = "windows", IInv, [Next]_vars PROVE IInv'
    OBVIOUS
  <1>1. CASE Feed
    BY <1>1, FeedKeeps
  <1>2. CASE Execute
    BY <1>2, ExecuteKeeps
  <1>3. CASE Take
    BY <1>3, TakeKeeps
  <1>4. ASSUME NEW k \in 1..MaxNx, Stream(k) \/ StreamUnstaged(k) PROVE IInv'
    <2>1. k \in Nat
      OBVIOUS
    <2> QED
      BY <1>4, <2>1, StreamKeeps, UnstagedKeeps
  <1>5. CASE UNCHANGED vars
    BY <1>5 DEF vars, IInv, Shape, FrontsConcatenated, BlockHeld, TailIsNextHead, Taken, Hop,
                ConvAt, Fed, Sample
  <1> QED
    BY <1>1, <1>2, <1>3, <1>4, <1>5 DEF Next

\* In every reachable state of a caller that feeds windows it holds.
LEMMA AlwaysIInv == ASSUME Feeding = "windows" PROVE Spec => []IInv
  BY InitEstablishes, StepKeeps, PTL DEF Spec
-----------------------------------------------------------------------------
\* What a caller that feeds windows of the input has concatenated so far is
\* the linear convolution, for every input, kernel and block length and any
\* mix of single-block and stream calls (fft.h:343), those that could not stage
\* their windows among them: they spoil no other window.  Callers that feed fresh
\* blocks are the subject of the finding.
THEOREM FrontsConvolve ==
  ASSUME Feeding = "windows"
  PROVE  Spec => []ConcatIsLinearConv
  <1>1. IInv => ConcatIsLinearConv
    <2> SUFFICES ASSUME IInv PROVE ConcatIsLinearConv
      OBVIOUS
    <2>1. /\ DOMAIN y = Idx(Taken * Hop)
          /\ \A i \in Idx(Taken * Hop) : i \div Hop \notin lost => y[i] = ConvAt(i)
      BY DEF IInv, FrontsConcatenated
    <2> QED
      BY <2>1 DEF ConcatIsLinearConv, ConvAt
  <1> QED
    BY <1>1, AlwaysIInv, PTL

\* When the caller has consumed all its windows nothing of the linear
\* convolution is missing but the windows that were lost, and the surplus is
\* zero, whatever the lengths.
THEOREM AllWindowsComplete == Spec => []StreamComplete
  <1>1. IInv => StreamComplete
    <2> SUFFICES ASSUME IInv, pc = "feed", pos = Wanted, Feeding = "windows"
                 PROVE  /\ nx + nh - 1 <= pos * Hop
                        /\ \A i \in DOMAIN y : i >= nx + nh - 1 /\ i \div Hop \notin lost => y[i] = 0
      BY DEF StreamComplete
    <2>1. /\ nx \in Nat /\ nh \in Nat /\ 1 <= nh /\ Hop \in Nat /\ 1 <= Hop /\ pos \in Nat
          /\ \E a \in Idx(nx) : a \in Nat /\ a < nx
      BY PlanFacts DEF IInv
    <2>2. nx + nh - 1 <= pos * Hop
      <3>1. pos = (nx + nh - 1 + Hop - 1) \div Hop
        BY DEF Wanted
      <3> QED
        BY <2>1, <3>1, CeilQuotient
    <2>3. ASSUME NEW i \in DOMAIN y, i >= nx + nh - 1, i \div Hop \notin lost PROVE y[i] = 0
      <3>1. i \in Idx(pos * Hop) /\ y[i] = ConvAt(i)
        BY <2>3 DEF IInv, FrontsConcatenated, Taken
      <3>2. i \in Int
        BY <3>1 DEF Idx
      <3> QED
        BY <2>1, <2>3, <3>1, <3>2 DEF ConvAt
    <2> QED
      BY <2>2, <2>3
  <1>2. CASE Feeding = "windows"
    BY <1>1, <1>2, AlwaysIInv, PTL
  <1>3. CASE Feeding # "windows"
    <2>1. StreamComplete
      BY <1>3 DEF StreamComplete
    <2> QED
      BY <2>1, PTL
  <1> QED
    BY <1>2, <1>3

\* A single-block execute keeps exactly the samples the next window starts
\* with, although it overwrites its block.
THEOREM TailCarriesOver == Spec => []TailIsNextHead
  <1>1. IInv => TailIsNextHead
    BY DEF IInv
  <1>2. CASE Feeding = "windows"
    BY <1>1, <1>2, AlwaysIInv, PTL
  <1>3. CASE Feeding # "windows"
    <2>1. TailIsNextHead
      BY <1>3 DEF TailIsNextHead
    <2> QED
      BY <2>1, PTL
  <1> QED
    BY <1>2, <1>3
=============================================================================
