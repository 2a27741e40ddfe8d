------------------------------ MODULE JitKernels ------------------------------
(***************************************************************************)
(* Every power-of-two kernel src/src/jit/fft_jit.cpp builds, from the      *)
(* create entry's choice of an emitter to the end of one call, and what a  *)
(* call promises whichever emitter wrote the code.                         *)
(***************************************************************************)
EXTENDS RadixTwo

\* Every list and budget a kernel may have been built with.
Kernels(call) ==
    UNION {IF tier = "sched"
           THEN {Built(call, rad, maxTile) :
                    rad \in KernelRadices(call.n, call.kind),
                    maxTile \in IF call.n <= 32 /\ call.kind \notin {"fft"} \cup Single
                                THEN {0} ELSE TileBudgets}       \* forced lists are not tiled
           ELSE {fft_jit_kernel_create_ex(call, tier)} :
                tier \in {Tier(call, legacy) : legacy \in BOOLEAN}}

Init ==
    \E call \in Calls :
        /\ kernel \in Kernels(call)
        /\ x = [i \in Idx(InputLen(call)) |-> IF i = call.at THEN call.unit ELSE Zero]
        /\ io = x
        /\ y = [i \in Idx(IF call.kind = "stream"
                           THEN StreamBlocks * (call.n - call.nh + 1) ELSE 0)
                    |-> Stale]
        /\ spec = [i \in Idx(IF call.kind \in Welds THEN call.n ELSE 0) |-> Stale]
        /\ scratch = [i \in Idx(call.n) |-> Stale]
        /\ half = "A"
        /\ blk = 0 /\ t = 0 /\ s = 0 /\ base = 0

Next == ScheduledStep \/ FixedStep

Spec == Init /\ [][Next]_vars
-----------------------------------------------------------------------------
\* Sample v of the array a half transforms.
Input(v) ==
    LET raw == CASE half = "B" /\ kernel.kind \in Welds -> spec[v]
                 [] kernel.kind \in Batches \cup {"stream"} -> io[blk * Step + v]
                 [] kernel.tier \in InPlaceTiers -> x[v]
                 [] OTHER -> io[v]
    IN  CASE kernel.kind = "inverse"                     -> Conj(raw)
          [] kernel.kind \in Windowed                    -> CMul(raw, Window(N, v))
          [] kernel.kind \in LoadMuls /\ half = "B"      ->
                Conj(CMul(raw, DFT(kernel.h, N)[v]))
          [] OTHER                                       -> raw

\* After a stage or a level, every block of the swept tile holds the transform
\* of the samples of its residue class (the weld's rotated by nh-1): the digit
\* reversal, the twiddles and the tile order fit each other at every point of
\* the schedule, not only at its end.
BlocksAreTransforms ==
    LET done  == IF Scheduled THEN s - 1 ELSE s - 2      \* the last stage that ran
        b     == B(kernel.rad, done)
        cells == IF Scheduled THEN Tile ELSE Idx(N)
        data  == IF kernel.tier \in InPlaceTiers THEN io ELSE scratch
        turn  == IF half = "A" /\ kernel.kind \in Welds THEN kernel.nh - 1 ELSE 0
        Sample(v) == Input((v + turn) % N)
    IN  half # "done" /\ s > 0 /\ done >= 0 =>
            \A c \in {d \in cells : d % b = 0} :
                LET v0 == kernel.tabB[c]
                IN  [q \in Idx(b) |-> data[c + q]]
                        = DFT([i \in Idx(b) |-> Sample(v0 + i * (N \div b))], b)

\* h[0..nh-1] * input, at an output whose window lies inside the input.
Filtered(m) ==
    LET At(i, j) == kernel.nh - 1 + i - j
    IN  Correlated(kernel.h, x, m, At)

\* A call returns what its kind promises: the transform (of the windowed
\* input, block by block), the inverse, the cyclic convolution, or the valid
\* samples of the overlap-save block(s).
CallReturnsItsKind ==
    half = "done" =>
        CASE kernel.kind \in {"fft", "f_fft"}           -> io = DFT(x, N)
          [] kernel.kind = "inverse"                    -> io = IDFT(x, N)
          [] kernel.kind = "f_win" ->
                io = DFT([i \in Idx(N) |-> CMul(x[i], Window(N, i))], N)
          [] kernel.kind \in {"conv"} \cup SingleConv ->
                LET At(i, j) == (i - j) % N
                IN  \A i \in Idx(N) : io[i] = Correlated(kernel.h, x, i, At)
          [] kernel.kind = "ols"     -> \A i \in Idx(Hop) : io[i] = Filtered(i)
          [] kernel.kind = "stream"  -> \A i \in DOMAIN y : y[i] = Filtered(i)
          [] kernel.kind \in Batches ->
                LET In(v, i) == IF kernel.kind \in Windowed THEN CMul(v, Window(N, i)) ELSE v
                IN  \A k \in Idx(StreamBlocks) :
                        [i \in Idx(N) |-> io[k * Step + i]]
                            = DFT([i \in Idx(N) |-> In(x[k * Step + i], i)], N)

\* The one-block weld leaves the discard zone of the caller's buffer as it
\* found it, the stream entry never writes its input, and a batch call leaves
\* the gaps between its blocks alone.
DiscardZoneUntouched ==
    /\ kernel.kind = "ols" => \A i \in (Idx(N) \ Idx(Hop)) : io[i] = x[i]
    /\ kernel.kind = "stream" => io = x
    /\ kernel.kind \in Batches => \A i \in DOMAIN io : i % Step >= N => io[i] = x[i]

\* A group's tile fits a budget the search tried (it is there to stay in the
\* L1 cache), and the final stage, which stores to the caller's array, is
\* never part of a group.
GroupsStayResident ==
    kernel.group[t] >= 2 =>
        /\ \E m \in TileBudgets : TileSize <= m /\ m < N
        /\ GroupEnd <= FinalStage(kernel.rad)
-----------------------------------------------------------------------------
(* The invariant behind the last two.                                      *)

\* A list of radices, as every builder of a schedule keeps one.
IsList(rad) ==
    /\ FinalStage(rad) \in Nat
    /\ DOMAIN rad = 0..FinalStage(rad)
    /\ \A i \in DOMAIN rad : rad[i] \in Radices

\* What the build entries fix: a schedule multiplies up to the length, its
\* groups are cut by one budget, a kernel with a boundary of its own has a
\* final stage, and the blocks of a batch do not overlap.
KernelBuilt ==
    LET rad == kernel.rad
    IN  /\ N \in Nat /\ kernel.nh \in 1..N
        /\ ~Scheduled => kernel.group[0] = 0 /\ kernel.kind \notin Welds \cup Batches
        /\ Scheduled =>
              /\ IsList(rad) /\ B(rad, FinalStage(rad)) = N
              /\ \E maxTile \in TileBudgets \cup {0} :
                    kernel.group = [i \in DOMAIN rad |-> GroupLen(rad, maxTile, i)]
              /\ kernel.kind \in Welds \cup Batches => FinalStage(rad) >= 1
        /\ kernel.kind \in Batches => Step \in Nat /\ Step >= N

\* A group starts at a stage of the list, never behind the final one.
GroupStarts ==
    IF Scheduled THEN s \in Nat /\ t \in 0..FinalStage(kernel.rad) ELSE t = 0

\* The caller's arrays: the one-block weld's is one block long, a batch call
\* goes forward.
ArraysKept ==
    /\ kernel.kind = "ols" => DOMAIN io = Idx(N)
    /\ kernel.kind \in Batches => DOMAIN io \subseteq Nat
    /\ blk \in Nat

KInv == KernelBuilt /\ GroupStarts /\ ArraysKept /\ DiscardZoneUntouched
=============================================================================
