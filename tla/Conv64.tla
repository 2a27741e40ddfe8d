-------------------------------- MODULE Conv64 --------------------------------
(***************************************************************************)
(* The fp64 cyclic convolution of src/src/host/plan_cache.c: a plan laid   *)
(* out by the route table (ConvRoute) and fft_execute_conv_fp64 on it,     *)
(* called again and again.  A weld is external: what fft_jit emits for     *)
(* (np, h) computes the np-point cyclic convolution in place.              *)
(*                                                                         *)
(* The kernel h and each input are unit impulses (ConvMath).  A step is a  *)
(* loop of the code, except the two loops that read and write io at once   *)
(* (the correction, one m per step) or carry a sum over pieces (OLA, one   *)
(* piece per step).                                                        *)
(***************************************************************************)
EXTENDS ConvRoute

CONSTANTS
    Ceiling,   \* the family ceiling, 32768 in the code
    TinyTaps   \* the taps up to which the correlation is direct, 8 in the code

ASSUME CeilingAssumption == Ceiling \in PowersOfTwo /\ 4 <= Ceiling /\ Ceiling <= 32768
ASSUME TinyAssumption == TinyTaps \in 1..Ceiling

VARIABLES
    route,     \* c64_mode, N, Np, Np2, corrL, olaP, olaPieces of the plan
    h,         \* the kernel the plan was made with
    buf, buf2, \* plan->buf64, plan->buf2_64
    x,         \* the caller's input of the running execute
    io,        \* the caller's buffer, N long
    m,         \* next output (correction) or piece (OLA)
    pc         \* "new", "ready" or the next loop of the running execute

vars == <<route, h, buf, buf2, x, io, m, pc>>
plan == <<route, h>>

N  == route.n
Np == route.np
L  == route.l

TinyTail == L + 1 <= TinyTaps

Init ==
    /\ route = NoRoute
    /\ h = <<>> /\ buf = <<>> /\ buf2 = <<>> /\ x = <<>> /\ io = <<>>
    /\ m = 0
    /\ pc = "new"

\* fft_plan_create_conv_fp64: the buffers the route asks for, from malloc.
Create(n) ==
    /\ pc = "new"
    /\ Answers(Ceiling, TinyTaps, n, route')
    /\ \E k \in Idx(n) : h' = Impulse(n, k)
    /\ LET r == route'
           fresh(len) == [i \in Idx(len) |-> Garbage]
       IN  /\ buf' = IF r.mode \in {"pad", "corr", "ola"} THEN fresh(r.np) ELSE <<>>
           /\ buf2' = CASE r.mode = "corr" -> fresh(IF r.l + 1 > TinyTaps THEN r.np2 ELSE r.l + 1)
                        [] r.mode = "ola"  -> fresh(n)
                        [] r.mode \notin {"corr", "ola"} -> <<>>
    /\ pc' = "ready"
    /\ UNCHANGED <<x, io, m>>

\* fft_execute_conv_fp64 on the caller's N samples.
Execute(a) ==
    /\ pc = "ready"
    /\ x' = Impulse(N, a)
    /\ io' = x'
    /\ m' = 0
    /\ pc' = IF route.mode \in {"pad", "corr"} THEN "load" ELSE route.mode
    /\ UNCHANGED <<plan, buf, buf2>>

\* Modes 0, 1 and 5: the two-point floor, or the weld on io itself.
Tiny ==
    /\ pc = "tiny"
    /\ io' = IF N = 1 THEN [i \in Idx(1) |-> io[0] * h[0]]
             ELSE [i \in Idx(2) |-> IF i = 0 THEN io[0] * h[0] + io[1] * h[1]
                                             ELSE io[0] * h[1] + io[1] * h[0]]
    /\ pc' = "ready"
    /\ UNCHANGED <<plan, buf, buf2, x, m>>

OnIo ==
    /\ pc \in {"direct", "weld"}
    /\ io' = CyclicConv(io, h, N)
    /\ pc' = "ready"
    /\ UNCHANGED <<plan, buf, buf2, x, m>>

\* Modes 2 and 3: io into the padded buffer and the main weld on it.
Load ==
    /\ pc = "load"
    /\ buf' = CyclicConv(Padded(io, N, Np), Padded(h, N, Np), Np)
    /\ pc' = CASE route.mode = "pad" -> "wrap"
               [] route.mode = "corr" /\ TinyTail -> "corr"
               [] route.mode = "corr" /\ ~TinyTail -> "tail"
    /\ UNCHANGED <<plan, buf2, x, io, m>>

\* Mode 2: the linear tail is added back onto the head.
Wrap ==
    /\ pc = "wrap"
    /\ io' = [i \in Idx(N) |-> buf[i] + buf[i + N]]
    /\ pc' = "ready"
    /\ UNCHANGED <<plan, buf, buf2, x, m>>

\* Mode 3, long tail: the reversed end of the input through the second weld,
\* whose kernel is the reversed end of h.
TailWeld ==
    /\ pc = "tail"
    /\ LET np2 == route.np2
           rev == [q \in Idx(np2) |-> IF q <= L THEN io[N - 1 - q] ELSE 0]
           hr  == [i \in Idx(np2) |-> IF i <= L THEN h[N - 1 - i] ELSE 0]
       IN  buf2' = CyclicConv(rev, hr, np2)
    /\ pc' = "corr"
    /\ UNCHANGED <<plan, buf, x, io, m>>

\* w[s], the sample of the linear convolution that wrapped onto position s:
\* read off the second weld, or summed directly over what io still holds.
TailSample(s) ==
    IF TinyTail
    THEN Total(0..(L - s), [p \in 0..(L - s) |-> io[(Np - N + 1) + s + p] * h[N - 1 - p]])
    ELSE buf2[L - s]

CorrSum(i) ==
    LET t == i + N
    IN  buf[i] - (IF i <= L THEN TailSample(i) ELSE 0)
               + (IF t < Np THEN buf[t]
                  ELSE IF t - Np <= L THEN TailSample(t - Np) ELSE 0)

CorrDown ==                 \* mutated form: from high m to low m
    LET i == N - 1 - m
    IN  /\ pc = "corr"
        /\ m < N
        /\ io' = [io EXCEPT ![i] = CorrSum(i)]
        /\ m' = m + 1
        /\ UNCHANGED <<plan, buf, buf2, x, pc>>

\* Mode 3: one output of the correction loop, in place over the input.
Corr ==
    /\ pc = "corr"
    /\ m < N
    /\ io' = [io EXCEPT ![m] = CorrSum(m)]
    /\ m' = m + 1
    /\ UNCHANGED <<plan, buf, buf2, x, pc>>

\* Mode 4: io is copied aside and cleared.
OlaStart ==
    /\ pc = "ola"
    /\ buf2' = io
    /\ io' = [i \in Idx(N) |-> 0]
    /\ pc' = "piece"
    /\ UNCHANGED <<plan, buf, x, m>>

PieceLen(base) == IF base + route.p <= N THEN route.p ELSE N - base

OlaPieceStore ==            \* mutated form: stored, not added
    LET base == m * route.p
        plen == PieceLen(base)
    IN  /\ pc = "piece"
        /\ m < route.pieces
        /\ buf' = CyclicConv([q \in Idx(Np) |-> IF q < plen THEN buf2[base + q] ELSE 0],
                             Padded(h, N, Np), Np)
        /\ io' = [i \in Idx(N) |->
                    LET T == {t \in Idx(plen + N - 1) : (base + t) % N = i}
                    IN  IF T = {} THEN io[i] ELSE Total(T, buf')]
        /\ m' = m + 1
        /\ UNCHANGED <<plan, buf2, x, pc>>

\* One piece: its linear convolution with h, scattered modulo N onto io.
OlaPiece ==
    LET base == m * route.p
        plen == PieceLen(base)
    IN  /\ pc = "piece"
        /\ m < route.pieces
        /\ buf' = CyclicConv([q \in Idx(Np) |-> IF q < plen THEN buf2[base + q] ELSE 0],
                             Padded(h, N, Np), Np)
        /\ io' = [i \in Idx(N) |->
                    io[i] + Total({t \in Idx(plen + N - 1) : (base + t) % N = i}, buf')]
        /\ m' = m + 1
        /\ UNCHANGED <<plan, buf2, x, pc>>

Return ==
    /\ \/ pc = "corr" /\ m >= N
       \/ pc = "piece" /\ m >= route.pieces
    /\ pc' = "ready"
    /\ UNCHANGED <<plan, buf, buf2, x, io, m>>

Next ==
    \/ \E n \in 1..Ceiling : Create(n)
    \/ pc = "ready" /\ \E a \in Idx(N) : Execute(a)
    \/ Tiny \/ OnIo \/ Load \/ Wrap \/ TailWeld \/ Corr
    \/ OlaStart \/ OlaPiece \/ Return

Spec == Init /\ [][Next]_vars
-----------------------------------------------------------------------------
\* One fft_execute_conv_fp64 leaves the exact N-point cyclic convolution of
\* its input with h in io, on every route (fft.h:225-251; plan_cache.c:
\* 617-641 claims it of the aliased routes too), execute after execute.
OneCallIsCyclicConv ==
    pc = "ready" /\ x # <<>> => io = CyclicConv(x, h, N)

\* The correction loop overwrites io while it still reads the input's tail
\* from it: outputs below m are final, and the tail is still the input.
CorrInPlaceSafe ==
    pc = "corr" =>
        LET y == CyclicConv(x, h, N)
        IN  \A i \in Idx(N) : io[i] = IF i < m THEN y[i] ELSE x[i]

\* After m pieces io is the cyclic convolution of the first m*P samples.
OlaPrefixSummed ==
    pc = "piece" =>
        io = CyclicConv([i \in Idx(N) |-> IF i < m * route.p THEN x[i] ELSE 0], h, N)
-----------------------------------------------------------------------------
(***************************************************************************)
(* The inductive invariant behind the three (Conv64Proofs).                *)
(***************************************************************************)
\* What the execute relies on of the plan's route.
Laid ==
    /\ N \in 1..Ceiling
    /\ route.mode \in {"weld", "tiny", "direct", "pad", "corr", "ola"}
    /\ route.mode = "tiny" => N \in {1, 2}
    /\ route.mode = "pad" => Np \in Nat /\ 2 * N <= Np
    /\ route.mode = "corr" =>
          /\ Np \in Nat /\ N <= Np
          /\ L = 2 * N - 2 - Np /\ L \in Nat
          /\ ~TinyTail => route.np2 \in Nat /\ 2 * L + 1 <= route.np2
    /\ route.mode = "ola" =>
          /\ Np \in Nat /\ route.p \in Nat /\ route.pieces \in Nat
          /\ 1 <= route.p /\ route.p + N - 1 <= Np
          /\ N <= route.pieces * route.p

Shape ==
    /\ pc = "new" => x = <<>>
    /\ pc # "new" => /\ Laid
                     /\ \E k \in Idx(N) : h = Impulse(N, k)
                     /\ (x = <<>> /\ pc = "ready") \/ \E a \in Idx(N) : x = Impulse(N, a)

\* A loop runs on the routes that have it.
LoopsOfRoute ==
    /\ pc \in {"tiny", "direct", "weld", "ola"} => route.mode = pc
    /\ pc = "load" => route.mode \in {"pad", "corr"}
    /\ pc = "wrap" => route.mode = "pad"
    /\ pc \in {"tail", "corr"} => route.mode = "corr"
    /\ pc = "tail" => ~TinyTail
    /\ pc = "piece" => route.mode = "ola"
    /\ pc \in {"load", "tail", "ola"} => m = 0
    /\ pc \in {"corr", "piece"} => m \in Nat

\* What the loops before left: the input, the main weld's convolution, the
\* wrapped samples of the second weld and the copy of the input.
Buffers ==
    /\ pc \in {"tiny", "direct", "weld", "ola", "load", "tail"} => io = x
    /\ pc = "corr" => io = [i \in Idx(N) |-> io[i]]
    /\ pc \in {"wrap", "tail", "corr"} =>
          buf = CyclicConv(Padded(x, N, Np), Padded(h, N, Np), Np)
    /\ pc = "corr" /\ ~TinyTail =>
          \A s \in 0..L : buf2[L - s] = LinearConv(x, N, h, N)[Np + s]
    /\ pc = "piece" => buf2 = x

IInv ==
    /\ Shape /\ LoopsOfRoute /\ Buffers
    /\ OneCallIsCyclicConv /\ CorrInPlaceSafe /\ OlaPrefixSummed
=============================================================================
