------------------------------- MODULE SchedFFT -------------------------------
(***************************************************************************)
(* The mixed-radix kernels the JIT emits (src/src/jit/fft_jit.cpp): the    *)
(* plain transform (SchedEmitter), the inverse (SchedEmitterI), the        *)
(* N-point convolution (SchedEmitterC) and the overlap-save weld           *)
(* (SchedEmitterO), in its one-block and its stream entry, and in single   *)
(* precision (SchedEmitterF) the plain and the windowed transform, the     *)
(* convolution that multiplies at its first half's stores or at its second *)
(* half's loads, and the loop over a batch of blocks.  All run one         *)
(* schedule: stage 0 gathers the input through a digit-reversal table into *)
(* a scratch buffer, the middle stages sweep the scratch in place, alone   *)
(* or tile by tile in groups, and the final stage stores in natural order  *)
(* with the kind's boundary operation.                                     *)
(*                                                                         *)
(* One step is one stage over one tile.  The leaves inside it touch        *)
(* disjoint elements, so their order does not matter.  JitKernels adds the *)
(* kernels without a schedule and says what every kernel promises.         *)
(***************************************************************************)
EXTENDS Leaves, SchedPlan, TLC

CONSTANTS TileBudgets,    \* tile budgets the search tries, in elements; 0 = off
          Calls           \* kernel and input: [n, kind, nh, fma, gap, tap, at, unit]

ASSUME BudgetsAssumption == TileBudgets \subseteq Nat

Windowed   == {"f_win", "f_winbatch"}
Batches    == {"f_batch", "f_winbatch"}
StoreMuls  == {"conv", "f_conv"}              \* half A stores conj(X * H)
LoadMuls   == {"f_convload"}                  \* half B loads conj(X * H)
SingleConv == {"f_conv", "f_convload"}
Single     == {"f_fft"} \cup Windowed \cup Batches \cup SingleConv
Welds      == {"ols", "stream"}
TwoHalves  == Welds \cup StoreMuls \cup LoadMuls

\* The shortest kernel the create entries build.
MinLength(kind) == CASE kind = "inverse"               -> 32
                     [] kind \in {"conv"} \cup Welds    -> 4
                     [] kind \in {"fft"} \cup Single    -> 1

ASSUME CallsAssumption ==
    \A call \in Calls : /\ call.kind \in {"fft", "inverse", "conv"} \cup Welds \cup Single
                        /\ call.n \in PowersOfTwo /\ call.n \in MinLength(call.kind)..32768
                        /\ call.nh \in 1..call.n
                        /\ call.gap \in Nat /\ call.fma \in BOOLEAN

StreamBlocks == 2         \* blocks of a stream or batch call

VARIABLES kernel,     \* what the build entry fixed
          x,          \* the caller's input, never written
          io,         \* the caller's buffer (the stream entry's P)
          y,          \* the stream entry's output
          spec,       \* the weld's own spectrum buffer
          scratch,    \* the kernel-owned ping buffer
          half,       \* "A": forward half, "B": inverse half, "done"
          blk,        \* block of the stream entry
          t, s, base  \* first stage of the group, current stage, tile base

vars == <<kernel, x, io, y, spec, scratch, half, blk, t, s, base>>
-----------------------------------------------------------------------------
(* The build: decomposition, tile groups, gather tables, H.                *)

\* The fused kernels' lists up to 32 points, by the number of stages of each.
ForcedRadices(n) ==
    LET k == IF n = 32 THEN 3 ELSE 2
    IN  CHOOSE rad \in [Idx(k) -> {2, 4}] : /\ Product(DOMAIN rad, rad) = n
                                           /\ \A i \in Idx(k - 1) : rad[i] >= rad[i + 1]

\* The lists a kernel of this kind is built from: any list for the plain
\* transform; for the fused kernels the forced list up to 32 points and any
\* list without a final 32 above; in single precision the valid lists.
KernelRadices(n, kind) ==
    IF kind \in Single
    THEN {rad \in Decompositions(n) : ValidF(rad, kind \in Windowed \cup LoadMuls)}
    ELSE IF kind = "fft" THEN {rad \in Decompositions(n) : DOMAIN rad = {0} => n = 32}
    ELSE IF n <= 32 THEN {ForcedRadices(n)}
    ELSE {rad \in {SplitFinal32(r) : r \in Decompositions(n)} : FinalStage(rad) < MaxStages}

N == kernel.n

Taps(call) == [j \in Idx(call.nh) |-> IF j = call.tap THEN <<2, 1>> ELSE Zero]

\* The spectrum is H = FFT(h zero-padded), in natural order; a factor of a
\* product is kept with its twin.
Spectrum(call) == DFT(Taps(call), call.n)

SpectrumTable64(call) ==
    LET H == Spectrum(call)
    IN  [p \in Idx(call.n) |-> [w |-> H[p], twin |-> Twin(H[p], call.fma)]]

\* Columns whose factors lie in one slot of a stage's table.
Lanes(kind, r) ==
    IF kind \in Single THEN (IF r = 32 THEN 2 ELSE 4) ELSE (IF r = 32 THEN 1 ELSE 2)

\* The factors of stage i, a row of rad[i] slots for every group of columns:
\* slot j of column k holds W_(B_i)^(j k).  The two-column slots are used
\* with twins made for FMA only.
TwiddleTable64(rad, i, fma) ==
    LET r     == rad[i]
        lanes == IF r <= 16 THEN 2 ELSE 1
    IN  [a \in Idx(B(rad, i)) |->
            LET slot == a \div lanes
                k    == (slot \div r) * lanes + (a % lanes)
                w    == W(B(rad, i), (slot % r) * k)
            IN  [w |-> w, twin |-> Twin(w, fma \/ r <= 16)]]

TwiddleTableF(rad, i, fma) ==
    LET r     == rad[i]
        lanes == IF r <= 16 THEN 4 ELSE 2
    IN  [a \in Idx(B(rad, i)) |->
            LET slot == a \div lanes
                k    == (slot \div r) * lanes + (a % lanes)
                w    == W(B(rad, i), (slot % r) * k)
            IN  [w |-> w, twin |-> Twin(w, fma)]]

\* What every builder keeps: the list, its groups and its stages' tables, and
\* what its emitter's two ends read.
Schedule(call, rad, maxTile, tables, ends) ==
    [n |-> call.n, kind |-> call.kind, nh |-> call.nh, fma |-> call.fma, tier |-> "sched", rad |-> rad,
     group |-> [i \in DOMAIN rad |-> GroupLen(rad, maxTile, i)],
     tw    |-> tables,
     h     |-> Taps(call),
     tabA  |-> ends.tabA, tabB |-> ends.tabB, spectrum |-> ends.spectrum, step |-> ends.step]

Tables64(call, rad) == [i \in 1..FinalStage(rad) |-> TwiddleTable64(rad, i, call.fma)]
TablesF(call, rad)  == [i \in 1..FinalStage(rad) |-> TwiddleTableF(rad, i, call.fma)]

\* One builder per emitter.  tabA and tabB are the natural index of every
\* position, as stage 0 of the two halves looks it up; step is the distance
\* between the blocks of a stream or batch call.
schedBuildKernel(call, rad, maxTile) ==
    LET natural == GatherTable(rad, call.n)
    IN  Schedule(call, rad, maxTile, Tables64(call, rad),
                 [tabA |-> natural, tabB |-> natural, spectrum |-> <<>>, step |-> call.n])

schedConvBuildKernel(call, rad, maxTile) ==
    LET natural == GatherTable(rad, call.n)
    IN  Schedule(call, rad, maxTile, Tables64(call, rad),
                 [tabA |-> natural, tabB |-> natural, spectrum |-> SpectrumTable64(call),
                  step |-> call.n])

\* The overlap-save window is gathered nh-1 samples late, so that the samples
\* its wrap-around pollutes end up last.
Rotation(call) == call.nh - 1

schedOlsBuildKernel(call, rad, maxTile) ==
    LET natural == GatherTable(rad, call.n)
    IN  Schedule(call, rad, maxTile, Tables64(call, rad),
                 [tabA |-> [p \in Idx(call.n) |-> (natural[p] + Rotation(call)) % call.n],
                  tabB |-> natural, spectrum |-> SpectrumTable64(call),
                  step |-> call.n - call.nh + 1])

schedInvBuildKernel(call, rad, maxTile) ==
    LET natural == GatherTable(rad, call.n)
    IN  Schedule(call, rad, maxTile, Tables64(call, rad),
                 [tabA |-> natural, tabB |-> natural, spectrum |-> <<>>, step |-> call.n])

\* A spectrum multiplied on load is kept as a row <<Hr, -Hi, Hi, -Hr>>.
schedFBuildKernel(call, rad, maxTile) ==
    LET table   == BlockTable(rad, call.n)
        natural == [p \in Idx(call.n) |->
                        table[p \div rad[0]] + (p % rad[0]) * (call.n \div rad[0])]
        H       == Spectrum(call)
    IN  Schedule(call, rad, maxTile, TablesF(call, rad),
                 [tabA |-> natural, tabB |-> natural, step |-> call.n + call.gap,
                  spectrum |->
                    CASE call.kind \in LoadMuls ->
                            [v \in Idx(call.n) |-> <<H[v][1], -H[v][2], H[v][2], -H[v][1]>>]
                      [] call.kind \in StoreMuls ->
                            [v \in Idx(call.n) |-> [w |-> H[v], twin |-> Twin(H[v], call.fma)]]
                      [] OTHER -> <<>>])

Built(call, rad, maxTile) ==
    CASE call.kind = "fft"       -> schedBuildKernel(call, rad, maxTile)
      [] call.kind = "conv"      -> schedConvBuildKernel(call, rad, maxTile)
      [] call.kind \in Welds     -> schedOlsBuildKernel(call, rad, maxTile)
      [] call.kind = "inverse"   -> schedInvBuildKernel(call, rad, maxTile)
      [] call.kind \in Single    -> schedFBuildKernel(call, rad, maxTile)

Hop == N - kernel.nh + 1      \* valid samples of a block of the weld

Step == kernel.step

InputLen(call) ==
    CASE call.kind = "stream"    -> (StreamBlocks - 1) * (call.n - call.nh + 1) + call.n
      [] call.kind \in Batches   -> (StreamBlocks - 1) * (call.n + call.gap) + call.n
      [] OTHER                   -> call.n

\* The window's samples: positive reals, normalised to a sum of 1, of which
\* only that for one point is told apart.
Window(n, v) == IF n = 1 THEN One ELSE <<3 + v, 0>>
-----------------------------------------------------------------------------
(* A stage i >= 1 on the scratch: element p lies in block p \div B_i, at    *)
(* column (p % B_i) \div B_(i-1) of the leaf at k = p % B_(i-1); slot j of  *)
(* that leaf is k + j*B_(i-1), multiplied by its factor from the table.    *)

\* The factor of slot j of column k: the row cursor moves one row of slots for
\* every group of columns.
Factor(i, j, k) ==
    LET r     == kernel.rad[i]
        lanes == Lanes(kernel.kind, r)
    IN  kernel.tw[i][((k \div lanes) * r + j) * lanes + (k % lanes)]

\* Slot 0 is never multiplied.  Without FMA the two-column leaf turns the
\* factor itself into the twin it needs.
Twiddled64(z, i, j, k) ==
    LET f == Factor(i, j, k)
    IN  IF j = 0 THEN z
        ELSE IF kernel.fma THEN MulFmaddsub(z, f.w, f.twin)
        ELSE IF kernel.rad[i] = 32 THEN MulHsub(z, f.w, f.twin)
        ELSE MulHsub(z, f.w, <<f.w[2], -f.w[1]>>)

TwiddledF(z, i, j, k) ==
    LET f == Factor(i, j, k)
    IN  IF j = 0 THEN z
        ELSE IF kernel.fma THEN MulFmaddsub(z, f.w, f.twin) ELSE MulHsub(z, f.w, f.twin)

StageResultAt(i, cells) ==
    LET r      == kernel.rad[i]
        b      == B(kernel.rad, i)
        bp     == B(kernel.rad, i - 1)
        leaves == [c \in {d \in cells : d % b < bp} |->
                    Leaf([j \in Idx(r) |->
                            IF kernel.kind \in Single
                            THEN TwiddledF(scratch[c + j * bp], i, j, c % b)
                            ELSE Twiddled64(scratch[c + j * bp], i, j, c % b)], r)]
    IN  [p \in cells |-> leaves[(p \div b) * b + (p % bp)][(p % b) \div bp]]
-----------------------------------------------------------------------------
(* The call.                                                               *)

\* The kernel is one of this module's, not a fixed radix-2 one (RadixTwo).
Scheduled == kernel.tier = "sched"

Tab == IF half = "A" THEN kernel.tabA ELSE kernel.tabB

GroupEnd == t + kernel.group[t]
TileSize == IF kernel.group[t] >= 2 THEN B(kernel.rad, GroupEnd - 1) ELSE N
Tile     == base..(base + TileSize - 1)

\* A group runs all its stages on a tile before it goes to the next tile.
Advance ==
    \/ /\ s + 1 < GroupEnd
       /\ s' = s + 1
       /\ UNCHANGED <<t, base>>
    \/ /\ s + 1 = GroupEnd /\ base + TileSize < N
       /\ s' = t
       /\ base' = base + TileSize
       /\ UNCHANGED t
    \/ /\ s + 1 = GroupEnd /\ base + TileSize = N
       /\ s' = GroupEnd
       /\ t' = GroupEnd
       /\ base' = 0

\* The 32-point plain transform is one leaf, in place.
OneLeaf ==
    /\ Scheduled /\ half = "A"
    /\ FinalStage(kernel.rad) = 0
    /\ io' = Leaf(io, N)
    /\ half' = "done"
    /\ UNCHANGED <<kernel, x, y, spec, scratch, blk, t, s, base>>

\* Stage 0: leaves over consecutive rows of the gather table, loaded by Load.
GatherWith(loaded) ==
    /\ Scheduled /\ half # "done"
    /\ s = 0 /\ FinalStage(kernel.rad) > 0
    /\ LET r      == kernel.rad[0]
           leaves == [c \in {d \in Tile : d % r = 0} |->
                        Leaf([j \in Idx(r) |-> loaded[Tab[c + j]]], r)]
       IN  scratch' = [p \in Idx(N) |->
                        IF p \in Tile THEN leaves[p - (p % r)][p % r] ELSE scratch[p]]
    /\ Advance
    /\ UNCHANGED <<kernel, x, io, y, spec, half, blk>>

PlainGather ==
    /\ kernel.kind = "fft"
    /\ GatherWith(io)

\* Both halves read the caller's array.
ConvGather ==
    /\ kernel.kind = "conv"
    /\ GatherWith(io)

\* Half A reads a window of P, half B the spectrum half A left.
OlsGather ==
    /\ kernel.kind \in Welds
    /\ GatherWith([v \in Idx(N) |-> IF half = "A" THEN io[blk * Step + v] ELSE spec[v]])

InvGather ==
    /\ kernel.kind = "inverse"
    /\ GatherWith([v \in Idx(N) |-> Conj(io[v])])

\* v times a row <<Hr, -Hi, Hi, -Hr>>, added and subtracted alternately.
MulRow(v, row) == <<(v[1] * row[1] - v[2] * row[3]) % Prime, (v[1] * row[2] + v[2] * row[4]) % Prime>>

\* The only emitter with a loop over a batch's blocks, a window or a spectrum
\* applied on load.
FGather ==
    /\ kernel.kind \in Single
    /\ GatherWith([v \in Idx(N) |->
            LET raw == io[IF kernel.kind \in Batches THEN blk * Step + v ELSE v]
            IN  CASE kernel.kind \in Windowed               -> CMul(raw, Window(N, v))
                  [] kernel.kind \in LoadMuls /\ half = "B" -> MulRow(raw, kernel.spectrum[v])
                  [] OTHER                                  -> raw])

SweptAhead == IF s + 1 = GroupEnd THEN Idx(N) ELSE Tile    \* mutated form: a group's last stage covers the array

\* A stage of a group stays inside the tile.
SweptCells == Tile

\* A middle stage over the tile, in place.
Sweep ==
    /\ Scheduled /\ half # "done"
    /\ s > 0 /\ s < FinalStage(kernel.rad)
    /\ LET new == StageResultAt(s, SweptCells)
       IN  scratch' = [p \in Idx(N) |-> IF p \in SweptCells THEN new[p] ELSE scratch[p]]
    /\ Advance
    /\ UNCHANGED <<kernel, x, io, y, spec, half, blk>>

\* Half B of the weld stores the valid prefix 0..N-nh of its block, in pairs
\* (k, k+1) of a column; c is the column's first position.
PrefixStoredWhole ==        \* mutated form: a pair across the end is stored whole
    LET bp  == B(kernel.rad, FinalStage(kernel.rad) - 1)
        end == N - kernel.nh
    IN  UNION {{c + k, c + k + 1} : c \in {d \in Idx(N) : d % bp = 0},
                                    k \in {e \in Idx(bp) : e % 2 = 0}}
            \cap 0..(end + 1 - (end % 2))

PrefixStored ==
    LET bp  == B(kernel.rad, FinalStage(kernel.rad) - 1)
        end == N - kernel.nh
        Kept(c, k) ==
            LET e == end - c
            IN  CASE e >= bp - 1       -> {k, k + 1}
                  [] e < 0             -> {}
                  [] e \in 0..(bp - 2) ->
                        IF k < e THEN {k, k + 1}
                        ELSE IF e % 2 = 0 /\ k = e THEN {k} ELSE {}
    IN  UNION {{c + i : i \in Kept(c, k)} :
                    c \in {d \in Idx(N) : d % bp = 0}, k \in {d \in Idx(bp) : d % 2 = 0}}

\* Where the fp64 final stage finds the H of position p.  A radix-32 stage
\* loads its pairs from one row, although their elements are a column apart.
SpectrumIndex(p) ==
    LET bp     == B(kernel.rad, FinalStage(kernel.rad) - 1)
        column == p \div bp
    IN  IF kernel.rad[FinalStage(kernel.rad)] = 32
        THEN (column - (column % 2)) * bp + (p % bp) + (column % 2)
        ELSE p

\* The boundary operations: conj(v * H) ends a half A that multiplies at its
\* stores, conj(v)/N everything inverse.
MulConj(v, f) == Conj(IF kernel.fma THEN MulFmaddsub(v, f.w, f.twin) ELSE MulHsub(v, f.w, f.twin))

ConjInvN(v) == CMul(Conj(v), Inv(N))

\* The final stage is due.
Finishing ==
    /\ Scheduled /\ half # "done"
    /\ s = FinalStage(kernel.rad) /\ s > 0

Transformed == StageResultAt(s, Idx(N))

\* The block just finished is not the call's last.
MoreBlocks ==
    /\ \/ kernel.kind = "stream" /\ half = "B"
       \/ kernel.kind \in Batches
    /\ blk + 1 < StreamBlocks

\* After a final stage: the other half, the next block, or the end.
EndHalf ==
    /\ t' = 0 /\ s' = 0 /\ base' = 0
    /\ \/ /\ half = "A" /\ kernel.kind \in TwoHalves
          /\ half' = "B"
          /\ UNCHANGED blk
       \/ /\ MoreBlocks
          /\ half' = "A"
          /\ blk' = blk + 1
       \/ /\ half = "A" => kernel.kind \notin TwoHalves
          /\ ~MoreBlocks
          /\ half' = "done"
          /\ UNCHANGED blk
    /\ UNCHANGED <<kernel, x, scratch>>

\* The final stages read the scratch and store in natural order.
PlainStore ==
    /\ kernel.kind = "fft" /\ Finishing
    /\ io' = Transformed
    /\ EndHalf
    /\ UNCHANGED <<y, spec>>

ConvStore ==
    /\ kernel.kind = "conv" /\ Finishing
    /\ LET new == Transformed
       IN  io' = [p \in Idx(N) |-> IF half = "A" THEN MulConj(new[p], kernel.spectrum[SpectrumIndex(p)])
                                                 ELSE ConjInvN(new[p])]
    /\ EndHalf
    /\ UNCHANGED <<y, spec>>

\* Half A of the weld leaves its product in the kernel's own buffer.
OlsStoreSpectrum ==
    /\ kernel.kind \in Welds /\ half = "A" /\ Finishing
    /\ LET new == Transformed
       IN  spec' = [p \in Idx(N) |-> MulConj(new[p], kernel.spectrum[SpectrumIndex(p)])]
    /\ EndHalf
    /\ UNCHANGED <<io, y>>

\* Half B stores the valid prefix: in place, or the stream entry's at the
\* block's place in Y.
OlsStorePrefix ==
    /\ kernel.kind \in Welds /\ half = "B" /\ Finishing
    /\ LET new  == Transformed
           from == IF kernel.kind = "stream" THEN blk * Step ELSE 0
           Stored(array) == [i \in DOMAIN array |-> IF i - from \in PrefixStored
                                                    THEN ConjInvN(new[i - from]) ELSE array[i]]
       IN  IF kernel.kind = "stream" THEN y' = Stored(y) /\ UNCHANGED io
                                     ELSE io' = Stored(io) /\ UNCHANGED y
    /\ EndHalf
    /\ UNCHANGED spec

InvStore ==
    /\ kernel.kind = "inverse" /\ Finishing
    /\ LET new == Transformed IN io' = [p \in Idx(N) |-> ConjInvN(new[p])]
    /\ EndHalf
    /\ UNCHANGED <<y, spec>>

FBoundary(v, p) ==
    CASE half = "B" -> ConjInvN(v)
      [] half = "A" /\ kernel.kind \in StoreMuls -> MulConj(v, kernel.spectrum[p])
      [] OTHER -> v

FStore ==
    /\ kernel.kind \in Single /\ Finishing
    /\ LET new  == Transformed
           from == IF kernel.kind \in Batches THEN blk * Step ELSE 0
       IN  io' = [i \in DOMAIN io |-> IF i - from \in Idx(N) THEN FBoundary(new[i - from], i - from)
                                      ELSE io[i]]
    /\ EndHalf
    /\ UNCHANGED <<y, spec>>

ScheduledStep ==
    \/ OneLeaf
    \/ PlainGather \/ ConvGather \/ OlsGather \/ InvGather \/ FGather
    \/ Sweep
    \/ PlainStore \/ ConvStore \/ OlsStoreSpectrum \/ OlsStorePrefix \/ InvStore \/ FStore
=============================================================================
