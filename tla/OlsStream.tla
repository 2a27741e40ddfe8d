------------------------------ MODULE OlsStream ------------------------------
(***************************************************************************)
(* The fp64 overlap-save plan of src/src/host/plan_cache.c:                *)
(* fft_plan_create_linear_conv_fp64, fft_execute_linear_conv_fp64 (one     *)
(* block per call) and the internal fft_ols_stream_fp64 (many windows per  *)
(* call), fed with a long input by a caller that concatenates the valid    *)
(* fronts.                                                                 *)
(*                                                                         *)
(* Feeding says how the caller cuts its input x into blocks:               *)
(*   "windows"  windows of N over [0^(nh-1), x, 0...] that advance by the  *)
(*              hop N-nh+1 (what the block loops of the repository do);    *)
(*   "blocks"   consecutive fresh blocks of N samples (what README.md:153  *)
(*              and fft.h:333 describe).                                   *)
(***************************************************************************)
EXTENDS ConvMath

CONSTANTS
    BlockLens,  \* the block lengths N that plans are made for
    MaxNx,      \* bound: the longest input
    MaxNh,      \* bound: the longest kernel
    Feeding     \* "windows" or "blocks"

ASSUME BlocksAssumption == BlockLens \subseteq {p \in PowersOfTwo : p <= 32768}
ASSUME FeedingAssumption == Feeding \in {"windows", "blocks"}

VARIABLES
    n, nh, h,   \* plan->N, plan->nh and the kernel
    tail,       \* plan->ols_tail
    pos,        \* blocks or windows the caller has handed over
    lost,       \* history: windows a stream call returned from uncomputed
    nx, x,      \* the caller's whole input
    io,         \* the caller's block buffer
    y,          \* the caller's concatenated valid fronts
    pc          \* "feed", "execute" or "take"

vars == <<n, nh, h, tail, pos, lost, nx, x, io, y, pc>>
fixed == <<n, nh, h, nx, x>>

\* plan->ols_pos counts the windows computed (pos less the lost ones).  The code
\* writes it and never reads it.

Hop == n - nh + 1

\* plan->ols_tiny: N < 4 has no weld, the host computes the window.
Tiny == n < 4

Init ==
    /\ n \in BlockLens
    /\ nx \in 1..MaxNx
    /\ \E l \in 1..MaxNh : \E k \in Idx(l) : l <= n /\ nh = l /\ h = Impulse(l, k)
    /\ \E a \in Idx(nx) : x = Impulse(nx, a)
    /\ tail = [i \in Idx(nh - 1) |-> 0]
    /\ pos = 0
    /\ lost = {}
    /\ io = [i \in Idx(n) |-> Garbage]
    /\ y = <<>>
    /\ pc = "feed"

Sample(i) == IF i \in Idx(nx) THEN x[i] ELSE 0

\* Sample i of block or window number b of the caller's feed.
Fed(b, i) == IF Feeding = "windows" THEN Sample(b * Hop + i - (nh - 1))
                                    ELSE Sample(b * n + i)

WantedFloor == IF Feeding = "windows" THEN nx \div Hop ELSE nx \div n  \* mutated form

\* The blocks the caller feeds in all: the last one is zero-padded to N.
Wanted == IF Feeding = "windows" THEN (nx + nh - 1 + Hop - 1) \div Hop
                                 ELSE (nx + n - 1) \div n

\* The caller fills io with its next block.
Feed ==
    /\ pc = "feed"
    /\ pos < Wanted
    /\ io' = [i \in Idx(n) |-> Fed(pos, i)]
    /\ pc' = "execute"
    /\ UNCHANGED <<fixed, tail, pos, lost, y>>

FrontNoDrop(w) ==           \* mutated form: the polluted prefix is returned
    LET c == CyclicConv(w, Padded(h, nh, n), n) IN [i \in Idx(Hop) |-> c[i]]

\* The valid samples of one window: what lies past the first nh-1, wrapped
\* ones of its cyclic convolution with the zero-padded kernel.
ValidOf(w) ==
    LET c == CyclicConv(w, Padded(h, nh, n), n)
    IN  [i \in Idx(Hop) |-> c[i + (nh - 1)]]

\* The tiny floor: sums over the nh taps into z, then z moved to the front.
TinyValid(w) ==
    LET z == [m \in Idx(n) |->
                Total(Idx(nh), [j \in Idx(nh) |-> h[j] * w[(m - j + n) % n]])]
    IN  [i \in Idx(Hop) |-> z[i + nh - 1]]

\* What the kernel or the floor leaves in io[0..N-nh].
Front(w) == IF Tiny THEN TinyValid(w) ELSE ValidOf(w)

ExecuteTailLate ==          \* mutated form: the tail is saved after the kernel
    /\ pc = "execute"
    /\ pos' = pos + 1
    /\ LET f == Front(io)
       IN  io' = [i \in Idx(n) |-> IF i < Hop THEN f[i] ELSE Garbage]
    /\ tail' = [i \in Idx(nh - 1) |-> io'[n - nh + 1 + i]]
    /\ pc' = "take"
    /\ UNCHANGED <<fixed, lost, y>>

\* fft_execute_linear_conv_fp64: the input's tail is saved before the
\* window is overwritten; beyond the valid front io holds anything.
Execute ==
    /\ pc = "execute"
    /\ tail' = [i \in Idx(nh - 1) |-> io[n - nh + 1 + i]]
    /\ pos' = pos + 1
    /\ LET f == Front(io)
       IN  io' = [i \in Idx(n) |-> IF i < Hop THEN f[i] ELSE Garbage]
    /\ pc' = "take"
    /\ UNCHANGED <<fixed, lost, y>>

\* The caller appends the valid front to what it has.
Take ==
    /\ pc = "take"
    /\ y' = [i \in Idx(pos * Hop) |->
               IF i < (pos - 1) * Hop THEN y[i] ELSE io[i - (pos - 1) * Hop]]
    /\ pc' = "feed"
    /\ UNCHANGED <<fixed, tail, pos, lost, io>>

\* fft_ols_stream_fp64 on the next k windows: the emitted block loop, or the
\* single-block execute per window on the tiny floor (which also saves the
\* last window's tail).
Stream(k) ==
    /\ pc = "feed"
    /\ Feeding = "windows"
    /\ pos + k <= Wanted
    /\ LET f == [b \in pos..(pos + k - 1) |-> Front([i \in Idx(n) |-> Fed(b, i)])]
       IN  y' = [i \in Idx((pos + k) * Hop) |->
                   IF i < pos * Hop THEN y[i] ELSE f[i \div Hop][i % Hop]]
    /\ pos' = pos + k
    /\ tail' = IF Tiny THEN [i \in Idx(nh - 1) |-> Fed(pos + k - 1, n - nh + 1 + i)]
                       ELSE tail
    /\ UNCHANGED <<fixed, lost, io, pc>>

\* On the tiny floor fft_ols_stream_fp64 stages each window in a block it
\* allocates.  Without one it returns before the first window: the plan is as it
\* was and y keeps what the caller's memory held.  It returns nothing, so the
\* caller goes on with the window after these.
StreamUnstaged(k) ==
    /\ pc = "feed"
    /\ Feeding = "windows"
    /\ pos + k <= Wanted
    /\ Tiny
    /\ y' = [i \in Idx((pos + k) * Hop) |-> IF i < pos * Hop THEN y[i] ELSE Garbage]
    /\ pos' = pos + k
    /\ lost' = lost \cup pos..(pos + k - 1)
    /\ UNCHANGED <<fixed, tail, io, pc>>

Next == Feed \/ Execute \/ Take \/ (\E k \in 1..MaxNx : Stream(k) \/ StreamUnstaged(k))

Spec == Init /\ [][Next]_vars
-----------------------------------------------------------------------------
\* "concatenated valid outputs of consecutive calls equal the linear
\* convolution of the concatenated input stream" (fft.h:343), truncated to
\* its length as the tail block rule says: every prefix the caller has so
\* far agrees with x * h, over any mix of single blocks and stream calls.  A
\* stream call that could not stage its windows spoils those and no other.
ConcatIsLinearConv ==
    LET c == LinearConv(x, nx, h, nh)
    IN  \A i \in DOMAIN y : i < nx + nh - 1 /\ i \div Hop \notin lost => y[i] = c[i]

\* When all windows are consumed nothing of the linear convolution is
\* missing but the lost windows, and the surplus of the last block is zero.
StreamComplete ==
    pc = "feed" /\ pos = Wanted /\ Feeding = "windows" =>
        /\ nx + nh - 1 <= pos * Hop
        /\ \A i \in DOMAIN y : i >= nx + nh - 1 /\ i \div Hop \notin lost => y[i] = 0

\* A single-block execute retains the input samples its caller will have to
\* feed again as the head of the next window.
TailIsNextHead ==
    pc = "take" /\ Feeding = "windows" => \A i \in Idx(nh - 1) : tail[i] = Fed(pos, i)
-----------------------------------------------------------------------------
(***************************************************************************)
(* The inductive invariant behind the three (OlsStreamProofs), of a caller *)
(* that feeds windows.                                                     *)
(***************************************************************************)
Shape ==
    /\ n \in BlockLens /\ nh \in Nat /\ 1 <= nh /\ nh <= n
    /\ nx \in Nat /\ pos \in Nat
    /\ \E k \in Idx(nh) : h = Impulse(nh, k)
    /\ \E a \in Idx(nx) : x = Impulse(nx, a)
    /\ pc \in {"feed", "execute", "take"}

\* Sample i of x * h, continued with zeros.
ConvAt(i) == IF i < nx + nh - 1 THEN LinearConv(x, nx, h, nh)[i] ELSE 0

\* The windows whose valid front the caller has taken.
Taken == IF pc = "take" THEN pos - 1 ELSE pos

FrontsConcatenated ==
    /\ Taken \in Nat
    /\ DOMAIN y = Idx(Taken * Hop)
    /\ \A i \in Idx(Taken * Hop) : i \div Hop \notin lost => y[i] = ConvAt(i)

\* io is the window to execute, and then its valid front.
BlockHeld ==
    /\ pc = "execute" => io = [i \in Idx(n) |-> Fed(pos, i)]
    /\ pc = "take" => \A i \in Idx(Hop) : io[i] = ConvAt((pos - 1) * Hop + i)

IInv == Shape /\ FrontsConcatenated /\ BlockHeld /\ TailIsNextHead
=============================================================================
