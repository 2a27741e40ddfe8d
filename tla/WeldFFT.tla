------------------------------- MODULE WeldFFT -------------------------------
(***************************************************************************)
(* Original-size weld kernels (src/src/jit/fft_jit.cpp, weld_glue.c): the  *)
(* forward, inverse and convolution kernels for lengths that are not a     *)
(* power of two.  A kernel is a straight line of sweeps, some emitted as   *)
(* machine code, some run by weld_run_stage with a descriptor.  The model  *)
(* of the emitter is that line (Half, Program); one step runs one sweep.   *)
(*                                                                         *)
(* The vendored codelets work on two columns at a time.  Called for one    *)
(* column they compute a second, the padding lane: it loads whatever lies  *)
(* behind the column and is steered to store into slack.                   *)
(***************************************************************************)
EXTENDS Leaves, WeldPlan

CONSTANT WeldCalls      \* kernel and input: [n, kind, fma, tap, at, unit]

\* What the create entries ask for before they build (fft_jit.cpp:12939, 13205).
WeldableCalls ==
    \A call \in WeldCalls : /\ call.kind \in {"fft", "inverse", "conv"}
                            /\ call.n \in MinWeld..MaxWeld
                            /\ Order % call.n = 0

ASSUME WeldCallsAssumption == WeldableCalls

VARIABLES kernel,     \* what weldBuildKernel fixed
          x,          \* the caller's input
          io,         \* the caller's buffer
          scratch,    \* the kernel's ping buffer and, behind N, its slack
          scratch2,   \* the out-buffer of an odd last stage
          pc          \* next sweep of the kernel's program

vars == <<kernel, x, io, scratch, scratch2, pc>>
-----------------------------------------------------------------------------
(* The build.                                                              *)

\* Conjugated spectrum slots for the fused load, and natural H with a twin for
\* the stores that multiply.
HcSlot(v)      == <<v[1], -v[2], -v[2], v[1]>>

BoundariesTwice(rad, kind) ==    \* mutated form: a codelet last stage multiplies after a fusing head too
    LET codeletFinal == StageKind(rad, FinalStage(rad)) \notin Own
        ownHead      == StageKind(rad, 0) \in Own
    IN  [loadFusion |-> kind = "conv" /\ codeletFinal /\ ownHead,
         conjMul    |-> kind = "conv" /\ codeletFinal,
         invN       |-> kind \in {"conv", "inverse"} /\ codeletFinal]

\* The boundary operations an own last stage fuses into its store are done
\* elsewhere when a codelet ends the half, which takes no fused store.
Boundaries(rad, kind) ==
    LET codeletFinal == StageKind(rad, FinalStage(rad)) \notin Own
        ownHead      == StageKind(rad, 0) \in Own
    IN  [loadFusion |-> kind = "conv" /\ codeletFinal /\ ownHead,
         conjMul    |-> kind = "conv" /\ codeletFinal /\ ~ownHead,
         invN       |-> kind \in {"conv", "inverse"} /\ codeletFinal]

WeldKernel(call, rad) ==
    [n |-> call.n, kind |-> call.kind, fma |-> call.fma, rad |-> rad,
     leaf     |-> [t \in DOMAIN rad |-> StageKind(rad, t)],
     tab      |-> GatherTable(rad, call.n),
     slack    |-> SlackDoubles(rad) \div 2,
     boundary |-> Boundaries(rad, call.kind),
     h        |-> [j \in Idx(call.n) |-> IF j = call.tap THEN <<2, 1>> ELSE Zero],
     H        |-> IF call.kind = "conv"
                  THEN DFT([j \in Idx(call.n) |-> IF j = call.tap THEN <<2, 1>> ELSE Zero], call.n)
                  ELSE <<>>]

N == kernel.n
Rad == kernel.rad
F == FinalStage(Rad)

Sweep(do, t, mode, to) == [do |-> do, t |-> t, mode |-> mode, to |-> to]

\* A codelet stage: the codelets without twiddles of their own run after a
\* sweep that multiplies.
CodeletSweeps(k, t, mode, to) ==
    LET run == <<Sweep(k.leaf[t], t, mode, to)>>
    IN  IF k.leaf[t] = "t1" THEN run ELSE <<Sweep("twiddles", t, mode, "scratch")>> \o run

\* mode 0: a transform; 1 and 2: the two halves of a convolution; 2 alone: the
\* inverse.
Half(k, mode) ==
    LET f == FinalStage(k.rad)
        Inner(t) == IF k.leaf[t] \in Own THEN <<Sweep("sweep", t, mode, "scratch")>>
                    ELSE CodeletSweeps(k, t, mode, "scratch")
        head == IF k.leaf[0] \in Own THEN <<Sweep("gather", 0, mode, "scratch")>>
                ELSE <<Sweep("permute", 0, mode, "scratch"), Sweep("contig", 0, mode, "scratch")>>
        last == CASE k.leaf[f] \in Own   -> <<Sweep("store", f, mode, "io")>>
                  [] k.leaf[f] = "n1"     -> CodeletSweeps(k, f, mode, "io")
                  [] k.leaf[f] = "t1"     -> CodeletSweeps(k, f, mode, "scratch")
                                             \o <<Sweep("copy", f, mode, "scratch")>>
                  [] k.leaf[f] = "n1_odd" -> CodeletSweeps(k, f, mode, "scratch2")
                                             \o <<Sweep("copy", f, mode, "scratch2")>>
    IN  head \o FlattenSeq([t \in 1..(f - 1) |-> Inner(t)]) \o last
             \o (IF mode = 1 /\ k.boundary.conjMul THEN <<Sweep("conjmul", f, mode, "io")>> ELSE <<>>)
             \o (IF mode = 2 /\ k.boundary.invN THEN <<Sweep("invn", f, mode, "io")>> ELSE <<>>)

Program(k) ==
    CASE k.kind = "fft"     -> Half(k, 0)
      [] k.kind = "inverse" -> Half(k, 2)
      [] k.kind = "conv"    -> Half(k, 1) \o Half(k, 2)

Running == pc <= Len(Program(kernel))
Now     == Program(kernel)[pc]

Init ==
    \E call \in WeldCalls : \E rad \in WeldLists(call.n) :
        /\ kernel = WeldKernel(call, rad)
        /\ x = [i \in Idx(call.n) |-> IF i = call.at THEN call.unit ELSE Zero]
        /\ io = x
        /\ scratch = [i \in Idx(call.n + SlackDoubles(rad) \div 2) |-> Stale]
        /\ scratch2 = [i \in (IF NeedScratch2(rad) THEN DOMAIN scratch ELSE {}) |-> Stale]
        /\ pc = 1
-----------------------------------------------------------------------------
(* Shared parts of the sweeps.                                             *)

Bt(t) == B(Rad, t)
Bp(t) == Before(Rad, t)

\* Where the leaves of stage t have their slot 0.
Heads(t) == {c \in Idx(N) : c % Bt(t) < Bp(t)}

\* The N values of stage t; leaf[c] is the leaf whose slot 0 is c.
FromLeaves(t, leaf) ==
    [p \in Idx(N) |-> leaf[(p \div Bt(t)) * Bt(t) + (p % Bp(t))][(p % Bt(t)) \div Bp(t)]]

Slots(buf, t, c) == [j \in Idx(Rad[t]) |-> buf[c + j * Bp(t)]]

\* An own leaf with its twiddles.
OwnLeafAt(t, c) ==
    LET z == Slots(scratch, t, c)
    IN  Leaf([j \in DOMAIN z |-> CMul(z[j], W(Bt(t), j * (c % Bt(t))))], Rad[t])

\* The r-point transform every codelet was probed to compute.
Codelet(z, r) == DFT(z, r)

T1TableForward(t, j, k) == W(Bt(t), j * k)     \* mutated form: the sign the other sweeps use

\* The twiddles of a t1fv codelet: the table holds exp(+2 pi i jk/Bt) and the
\* codelet multiplies by the conjugate.
T1Table(t, j, k) == Conj(W(Bt(t), j * k))

T1LeafAt(t, c) ==
    LET z == Slots(scratch, t, c)
    IN  Codelet([j \in DOMAIN z |-> CMul(z[j], Conj(T1Table(t, j, c % Bt(t))))], Rad[t])

\* Where the padding lanes of sweep w store, and what they load, as positions
\* in the scratch; slack starts at N.
PaddingStores(w) ==
    CASE w.do = "contig" /\ (N \div Rad[0]) % 2 = 1 -> {N + j : j \in Idx(Rad[0])}
      [] w.do = "n1_odd"                            -> {N + j * Bp(w.t) : j \in Idx(Rad[w.t])}
      [] OTHER                                      -> {}

PaddingLoads(w) ==
    CASE w.do = "contig" /\ (N \div Rad[0]) % 2 = 1 -> {N + j : j \in Idx(Rad[0])}
      [] w.do = "n1_odd" -> {b * Bt(w.t) + (Bp(w.t) - 1) + 1 + j * Bp(w.t) :
                                b \in Idx(N \div Bt(w.t)), j \in Idx(Rad[w.t])}
      [] OTHER           -> {}

\* The scratch after a sweep that computed new on 0..N-1.
Swept(new, w) ==
    [p \in DOMAIN scratch |-> IF p \in PaddingStores(w) THEN Stale
                              ELSE IF p < N THEN new[p] ELSE scratch[p]]
-----------------------------------------------------------------------------
(* The sweeps.                                                             *)

\* Stage 0 with own leaves: gathers through the table.  The inverse
\* conjugates what it loads; half B of a convolution with a codelet last
\* stage multiplies it with conj(H) as well.
Gather ==
    /\ Running /\ Now.do = "gather"
    /\ LET fused == Now.mode = 2 /\ kernel.boundary.loadFusion
           Load(v) ==
               CASE fused -> LET u == Conj(io[v])  g == HcSlot(kernel.H[v])
                             IN  <<(u[1] * g[1] - u[2] * g[3]) % Prime,
                                   (u[1] * g[2] + u[2] * g[4]) % Prime>>
                 [] ~fused /\ kernel.kind = "inverse" -> Conj(io[v])
                 [] ~fused /\ kernel.kind # "inverse" -> io[v]
           leaf == [c \in Heads(0) |->
                       Leaf([j \in Idx(Rad[0]) |-> Load(kernel.tab[c + j])], Rad[0])]
       IN  scratch' = Swept(FromLeaves(0, leaf), Now)
    /\ pc' = pc + 1
    /\ UNCHANGED <<kernel, x, io, scratch2>>

\* Stage 0 with a codelet: a permuting copy, then runs of r neighbours.
Permute ==
    /\ Running /\ Now.do = "permute"
    /\ LET new == [i \in Idx(N) |-> LET v == io[kernel.tab[i]]
                                    IN  IF kernel.kind = "inverse" THEN Conj(v) ELSE v]
       IN  scratch' = Swept(new, Now)
    /\ pc' = pc + 1
    /\ UNCHANGED <<kernel, x, io, scratch2>>

Contig ==
    /\ Running /\ Now.do = "contig"
    /\ LET leaf == [c \in Heads(0) |-> Codelet(Slots(scratch, 0, c), Rad[0])]
       IN  scratch' = Swept(FromLeaves(0, leaf), Now)
    /\ pc' = pc + 1
    /\ UNCHANGED <<kernel, x, io, scratch2>>

OwnSweep ==
    /\ Running /\ Now.do = "sweep"
    /\ LET leaf == [c \in Heads(Now.t) |-> OwnLeafAt(Now.t, c)]
       IN  scratch' = Swept(FromLeaves(Now.t, leaf), Now)
    /\ pc' = pc + 1
    /\ UNCHANGED <<kernel, x, io, scratch2>>

Twiddles ==
    /\ Running /\ Now.do = "twiddles"
    /\ LET t == Now.t
       IN  scratch' = Swept([p \in Idx(N) |->
                        LET j == (p % Bt(t)) \div Bp(t)
                            k == p % Bp(t)
                        IN  IF j = 0 THEN scratch[p] ELSE CMul(scratch[p], W(Bt(t), j * k))], Now)
    /\ pc' = pc + 1
    /\ UNCHANGED <<kernel, x, io, scratch2>>

\* In place only: the codelet has no output pointers.
T1Sweep ==
    /\ Running /\ Now.do = "t1"
    /\ LET leaf == [c \in Heads(Now.t) |-> T1LeafAt(Now.t, c)]
       IN  scratch' = Swept(FromLeaves(Now.t, leaf), Now)
    /\ pc' = pc + 1
    /\ UNCHANGED <<kernel, x, io, scratch2>>

\* Into the scratch, the second scratch or the caller's buffer; the padding
\* lanes of an odd number of columns always store into the scratch's slack.
N1Sweep ==
    /\ Running /\ Now.do \in {"n1", "n1_odd"}
    /\ LET leaf == [c \in Heads(Now.t) |-> Codelet(Slots(scratch, Now.t, c), Rad[Now.t])]
           new == FromLeaves(Now.t, leaf)
           old == [p \in Idx(N) |-> scratch[p]]
       IN  /\ scratch' = Swept(IF Now.to = "scratch" THEN new ELSE old, Now)
           /\ scratch2' = IF Now.to = "scratch2"
                          THEN [p \in DOMAIN scratch2 |-> IF p < N THEN new[p] ELSE scratch2[p]]
                          ELSE scratch2
           /\ io' = IF Now.to = "io" THEN new ELSE io
    /\ pc' = pc + 1
    /\ UNCHANGED <<kernel, x>>

CopyOut ==
    /\ Running /\ Now.do = "copy"
    /\ io' = [i \in Idx(N) |-> IF Now.to = "scratch2" THEN scratch2[i] ELSE scratch[i]]
    /\ pc' = pc + 1
    /\ UNCHANGED <<kernel, x, scratch, scratch2>>

\* The own last stage stores to the caller's buffer with the boundary
\* operation of its mode.
Store ==
    /\ Running /\ Now.do = "store"
    /\ LET leaf == [c \in Heads(Now.t) |-> OwnLeafAt(Now.t, c)]
           new == FromLeaves(Now.t, leaf)
           Out(p) ==
               CASE Now.mode = 0 -> new[p]
                 [] Now.mode = 1 ->
                        LET g == kernel.H[p]  s == Twin(g, kernel.fma)
                        IN  Conj(IF kernel.fma THEN MulFmaddsub(new[p], g, s)
                                               ELSE MulHsub(new[p], g, s))
                 [] Now.mode = 2 -> CMul(Conj(new[p]), Inv(N))
       IN  io' = [p \in Idx(N) |-> Out(p)]
    /\ pc' = pc + 1
    /\ UNCHANGED <<kernel, x, scratch, scratch2>>

\* The boundary sweeps over the caller's buffer.  The multiplying one works on
\* pairs with the twin and on an odd last element without it.
ConjMul ==
    /\ Running /\ Now.do = "conjmul"
    /\ io' = [i \in Idx(N) |->
                LET g == kernel.H[i]
                    s == IF N % 2 = 1 /\ i = N - 1 THEN <<g[2], g[1]>> ELSE Twin(g, kernel.fma)
                IN  Conj(MulFmaddsub(io[i], g, s))]
    /\ pc' = pc + 1
    /\ UNCHANGED <<kernel, x, scratch, scratch2>>

InvN ==
    /\ Running /\ Now.do = "invn"
    /\ io' = [i \in Idx(N) |-> CMul(Conj(io[i]), Inv(N))]
    /\ pc' = pc + 1
    /\ UNCHANGED <<kernel, x, scratch, scratch2>>

Next ==
    \/ Gather \/ Permute \/ Contig
    \/ OwnSweep \/ Twiddles \/ T1Sweep \/ N1Sweep
    \/ CopyOut \/ Store \/ ConjMul \/ InvN

Spec == Init /\ [][Next]_vars
-----------------------------------------------------------------------------
\* After a middle stage, whatever leaf it got, every block of the scratch
\* holds the transform of its residue class of the half's input: own leaves,
\* codelets, twiddle sweeps and twiddles inside codelets mix freely.
WeldBlocksAreTransforms ==
    LET w == Program(kernel)[pc - 1]
        b == Bt(w.t)
        fused == w.mode = 2 /\ kernel.boundary.loadFusion
        In(v) == CASE fused -> Conj(CMul(io[v], kernel.H[v]))
                   [] ~fused /\ kernel.kind = "inverse" -> Conj(io[v])
                   [] ~fused /\ kernel.kind # "inverse" -> io[v]
    IN  pc > 1 /\ w.do \in {"gather", "contig", "sweep", "t1", "n1", "n1_odd"}
               /\ w.to = "scratch" =>
            \A c \in {d \in Idx(N) : d % b = 0} :
                [q \in Idx(b) |-> scratch[c + q]]
                    = DFT([i \in Idx(b) |-> In(kernel.tab[c] + i * (N \div b))], b)

\* A call returns the transform, the inverse, or the cyclic convolution at the
\* original length.
WeldReturnsItsKind ==
    ~Running =>
        CASE kernel.kind = "fft"     -> io = DFT(x, N)
          [] kernel.kind = "inverse" -> io = IDFT(x, N)
          [] kernel.kind = "conv"    ->
                LET At(i, j) == (i - j) % N
                IN  \A i \in Idx(N) : io[i] = Correlated(kernel.h, x, i, At)

\* A padding lane stores into the slack of the kernel's own scratch and loads
\* from inside it: never the data, never past the end, however many of the
\* stages pad.
PaddingStaysInSlack ==
    Running =>
        /\ PaddingStores(Now) \subseteq N..(N + kernel.slack - 1)
        /\ PaddingLoads(Now) \subseteq DOMAIN scratch
-----------------------------------------------------------------------------
(* The invariant behind the last one: the build fixes the list and with it *)
(* the slack, and no sweep changes the size of the scratch.                *)

WInv ==
    /\ kernel.kind \in {"fft", "inverse", "conv"} /\ N \in MinWeld..MaxWeld
    /\ Rad \in WeldLists(N)
    /\ kernel.leaf = [t \in DOMAIN Rad |-> StageKind(Rad, t)]
    /\ kernel.slack = SlackDoubles(Rad) \div 2
    /\ DOMAIN scratch = Idx(N + kernel.slack)
    /\ pc \in Nat \ {0}
=============================================================================
