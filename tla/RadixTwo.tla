------------------------------- MODULE RadixTwo -------------------------------
(***************************************************************************)
(* The kernels without a schedule (src/src/jit/fft_jit.cpp): straight-line *)
(* code for 1 to 16 points (SmallEmitter), which loads in bit-reversed     *)
(* order, keeps every level in registers and stores once; and in single    *)
(* precision the radix-2 loops that work in the caller's array, with their *)
(* constants behind the code (PoolEmitter) or in a table (LutEmitter):     *)
(* swap pairs, then one sweep per level.  They share the variables of      *)
(* SchedFFT; scratch is the register file, s the level that is due.        *)
(***************************************************************************)
EXTENDS SchedFFT

CONSTANT PoolMax        \* longest loop kernel with its constants in the code; 256

ASSUME PoolAssumption == PoolMax \in Nat

InPlaceTiers == {"pool", "lut"}

Bits == FinalStage(kernel.rad) + 1

BitReversed(n) ==
    LET bits == CHOOSE b \in 0..15 : 2 ^ b = n
    IN  [p \in Idx(n) |-> BitRev(p, bits)]

\* What the create entry emits.  legacy: FFT_PS_SCHED=off.
Tier(call, legacy) ==
    LET scheduled == call.kind = "fft" \/ (~legacy /\ ~(call.kind = "f_win" /\ call.n < 64))
    IN  CASE call.kind \notin {"fft", "f_fft", "f_win"} -> "sched"     \* not this entry's
          [] call.kind \in {"fft", "f_fft", "f_win"} ->
                IF call.n = 1 THEN "identity"
                ELSE IF call.n <= 16 THEN "small"
                ELSE IF scheduled THEN "sched"
                ELSE IF call.n <= PoolMax THEN "pool"
                ELSE "lut"

\* W and Wn of level i >= 3, in column order.
StageTable(i) ==
    [k \in Idx(2 ^ (i - 1)) |-> [w |-> W(2 ^ i, k), wn |-> Twin(W(2 ^ i, k), FALSE)]]

\* The window for the loop kernels is laid out in the order its samples have
\* after the swaps; the straight-line code keeps it in natural order.
fft_jit_kernel_create_ex(call, tier) ==
    LET rev  == BitReversed(call.n)
        bits == CHOOSE b \in 0..15 : 2 ^ b = call.n
    IN  [n |-> call.n, kind |-> call.kind, nh |-> call.nh, fma |-> call.fma, tier |-> tier,
         rad |-> [i \in Idx(bits) |-> 2], group |-> [i \in {0} |-> 0],
         tw |-> [i \in 3..bits |-> StageTable(i)], h |-> Taps(call),
         tabA |-> rev, tabB |-> rev, spectrum |-> <<>>, step |-> call.n,
         swaps |-> {<<i, rev[i]>> : i \in {j \in Idx(call.n) : j < rev[j]}},
         win |-> [i \in Idx(call.n) |->
                    IF call.kind \notin Windowed THEN One
                    ELSE Window(call.n, IF tier = "small" THEN i ELSE rev[i])]]
-----------------------------------------------------------------------------
Identity ==
    /\ kernel.tier = "identity" /\ half = "A"
    /\ half' = "done"
    /\ UNCHANGED <<kernel, x, io, y, spec, scratch, blk, t, s, base>>

\* The upper half of a butterfly times its factor; the single-precision
\* registers add and subtract alternately, everything else subtracts neighbours.
TimesFactor(z, i, k) ==
    CASE i = 2 -> IF k = 0 THEN z ELSE MinusI(z)
      [] i > 2 /\ kernel.tier = "small" /\ kernel.kind \in Single -> CMul(z, kernel.tw[i][k].w)
      [] i > 2 /\ ~(kernel.tier = "small" /\ kernel.kind \in Single) ->
            MulHsub(z, kernel.tw[i][k].w, kernel.tw[i][k].wn)

\* Level i >= 2 over v.
Level(v, i) ==
    LET h == 2 ^ (i - 1)
    IN  [p \in DOMAIN v |->
            LET k == p % (2 * h)
            IN  IF k < h THEN CAdd(v[p], TimesFactor(v[p + h], i, k))
                         ELSE CSub(v[p - h], TimesFactor(v[p], i, k - h))]

\* Level 1, with the window on its inputs.
FirstLevel(v, win) ==
    [p \in DOMAIN v |->
        LET a == CMul(v[p - (p % 2)], win[p - (p % 2)])
            b == CMul(v[p - (p % 2) + 1], win[p - (p % 2) + 1])
        IN  IF p % 2 = 0 THEN CAdd(a, b) ELSE CSub(a, b)]

\* The straight-line code: bit-reversed loads and level 1, the other levels in
\* registers, one pass of stores.
SmallLoad ==
    /\ kernel.tier = "small" /\ half = "A" /\ s = 0
    /\ scratch' = FirstLevel([p \in Idx(N) |-> io[kernel.tabA[p]]],
                             [p \in Idx(N) |-> kernel.win[kernel.tabA[p]]])
    /\ s' = 2
    /\ UNCHANGED <<kernel, x, io, y, spec, half, blk, t, base>>

SmallLevel ==
    /\ kernel.tier = "small" /\ s \in 2..Bits
    /\ scratch' = Level(scratch, s)
    /\ s' = s + 1
    /\ UNCHANGED <<kernel, x, io, y, spec, half, blk, t, base>>

SmallStore ==
    /\ kernel.tier = "small" /\ half = "A" /\ s = Bits + 1
    /\ io' = scratch
    /\ half' = "done"
    /\ UNCHANGED <<kernel, x, y, spec, scratch, blk, t, s, base>>

\* The loop kernels: swaps, then the levels in place.
SwapPairs ==
    /\ kernel.tier \in InPlaceTiers /\ half = "A" /\ s = 0
    /\ io' = FoldSet(LAMBDA pair, v : [v EXCEPT ![pair[1]] = v[pair[2]], ![pair[2]] = v[pair[1]]],
                     io, kernel.swaps)
    /\ s' = 1
    /\ UNCHANGED <<kernel, x, y, spec, scratch, half, blk, t, base>>

LoopLevel ==
    /\ kernel.tier \in InPlaceTiers /\ half = "A" /\ s \in 1..Bits
    /\ io' = IF s = 1 THEN FirstLevel(io, kernel.win) ELSE Level(io, s)
    /\ s' = s + 1
    /\ half' = IF s = Bits THEN "done" ELSE "A"
    /\ UNCHANGED <<kernel, x, y, spec, scratch, blk, t, base>>

FixedStep == Identity \/ SmallLoad \/ SmallLevel \/ SmallStore \/ SwapPairs \/ LoopLevel
=============================================================================
