----------------------------- MODULE ConvDispatch -----------------------------
(***************************************************************************)
(* Whole-sequence linear convolution, fft_plan_create_conv_dispatch and    *)
(* its two execute legs in src/src/host/plan_cache.c: the in-place direct  *)
(* loop, and the overlap-save block loop around the single-block plan.     *)
(*                                                                         *)
(* One plan is created and then executed again and again on inputs of the  *)
(* caller's choice, so what an execute leaves behind in the plan's scratch *)
(* buffers is there when the next one starts.  The kernel h and each input *)
(* x are unit impulses (ConvMath).                                         *)
(***************************************************************************)
EXTENDS ConvMath

CONSTANTS
    DirectMax,  \* FFT_CONV_DISPATCH_NH_DIRECT_MAX
    MaxNx,      \* bound: the longest sequence the plan is made for
    MaxNh       \* bound: the longest kernel

ASSUME BoundsAssumption ==
    /\ DirectMax \in Nat
    /\ MaxNx \in Nat \ {0} /\ MaxNh \in 1..MaxNx

VARIABLES
    nx, nh,   \* plan->nx, plan->nh
    h,        \* the kernel the caller gave (plan->h_copy, or the sub-plan's)
    work,     \* OLS leg: plan->work, the padded copy of x
    blk,      \* OLS leg: plan->blk, the block the sub-plan runs on
    pc,       \* "ready", "direct", "fill", "block", "sub" or "copy"
    x,        \* what the caller put into io for the running execute
    io,       \* the caller's buffer, nx+nh-1 long
    m,        \* direct leg: the next output to write
    b         \* OLS leg: the next block

vars == <<nx, nh, h, work, blk, pc, x, io, m, b>>
planVars == <<nx, nh, h>>

Ylen == nx + nh - 1

\* plan->dispatch_direct
Direct == nh <= DirectMax

\* conv_dispatch_block_len: the smallest power of two >= 2*nh-1.
BlockLen == NextPow2(2 * nh - 1)
Valid    == BlockLen - nh + 1

\* ceil(ylen / valid)
Blocks == (Ylen + Valid - 1) \div Valid

\* fft_jit_family_member: the longest block a kernel is built for.
FamilyMax == 32768

\* fft_plan_create_conv_dispatch: the leg is chosen by nh; the OLS leg owns
\* a padded work buffer and a block buffer, both fresh from malloc.  A kernel
\* whose block would be longer than FamilyMax is refused.
Create(len, taps, k) ==
    /\ nx = len
    /\ nh = taps
    /\ Direct \/ 2 * nh - 1 <= FamilyMax
    /\ h = Impulse(taps, k)
    /\ work = IF Direct THEN <<>> ELSE [i \in Idx(Ylen) |-> Garbage]
    /\ blk  = IF Direct THEN <<>> ELSE [i \in Idx(BlockLen) |-> Garbage]

Init ==
    /\ \E len \in 1..MaxNx, taps \in 1..MaxNh :
         taps <= len /\ \E k \in Idx(taps) : Create(len, taps, k)
    /\ pc = "ready"
    /\ x = <<>>
    /\ io = [i \in Idx(Ylen) |-> Garbage]
    /\ m = -1
    /\ b = 0

\* fft_execute on the plan: the caller fills io[0..nx-1] only.
Execute(a) ==
    /\ pc = "ready"
    /\ x' = Impulse(nx, a)
    /\ io' = [i \in Idx(Ylen) |-> IF i < nx THEN x'[i] ELSE Garbage]
    /\ pc' = IF Direct THEN "direct" ELSE "fill"
    /\ m' = IF Direct THEN Ylen - 1 ELSE -1
    /\ b' = 0
    /\ UNCHANGED <<planVars, work, blk>>

(***************************************************************************)
(* fft_dispatch_direct_wrap: y[m] for m from high to low, over x in place. *)
(***************************************************************************)
Taps(i) == (IF i >= nh THEN i - nh + 1 ELSE 0)..(IF i < nx THEN i ELSE nx - 1)

Mac(i) == Total(Taps(i), [j \in Taps(i) |-> io[j] * h[i - j]])

DirectStepUp ==             \* mutated form: low to high
    LET i == Ylen - 1 - m
    IN  /\ pc = "direct"
        /\ m >= 0
        /\ io' = [io EXCEPT ![i] = Mac(i)]
        /\ m' = m - 1
        /\ UNCHANGED <<planVars, work, blk, pc, x, b>>

DirectStep ==
    /\ pc = "direct"
    /\ m >= 0
    /\ io' = [io EXCEPT ![m] = Mac(m)]
    /\ m' = m - 1
    /\ UNCHANGED <<planVars, work, blk, pc, x, b>>

DirectReturn ==
    /\ pc = "direct"
    /\ m < 0
    /\ pc' = "ready"
    /\ UNCHANGED <<planVars, work, blk, x, io, m, b>>

(***************************************************************************)
(* fft_dispatch_ols_wrap.                                                  *)
(***************************************************************************)
FillNoClear ==              \* mutated form: the work buffer is not zeroed
    /\ pc = "fill"
    /\ work' = [i \in Idx(Ylen) |->
                  IF i - (nh - 1) \in Idx(nx) THEN io[i - (nh - 1)] ELSE work[i]]
    /\ pc' = "block"
    /\ UNCHANGED <<planVars, blk, x, io, m, b>>

\* work = [0^(nh-1), x, zeros]
Fill ==
    /\ pc = "fill"
    /\ work' = [i \in Idx(Ylen) |->
                  IF i - (nh - 1) \in Idx(nx) THEN io[i - (nh - 1)] ELSE 0]
    /\ pc' = "block"
    /\ UNCHANGED <<planVars, blk, x, io, m, b>>

FormBlockNoOverlap ==       \* mutated form: consecutive windows do not overlap
    /\ pc = "block"
    /\ b < Blocks
    /\ blk' = [i \in Idx(BlockLen) |->
                 IF b * BlockLen + i < Ylen THEN work[b * BlockLen + i] ELSE 0]
    /\ pc' = "sub"
    /\ UNCHANGED <<planVars, work, x, io, m, b>>

\* The window of block b, zero beyond the end of the sequence.
FormBlock ==
    /\ pc = "block"
    /\ b < Blocks
    /\ blk' = [i \in Idx(BlockLen) |->
                 IF b * Valid + i < Ylen THEN work[b * Valid + i] ELSE 0]
    /\ pc' = "sub"
    /\ UNCHANGED <<planVars, work, x, io, m, b>>

OlsReturn ==
    /\ pc = "block"
    /\ b >= Blocks
    /\ pc' = "ready"
    /\ UNCHANGED <<planVars, work, blk, x, io, m, b>>

(***************************************************************************)
(* fft_linear_wrap on a block: the kernel leaves the cyclic convolution    *)
(* with the zero-padded h, and the wrapper moves the samples past the      *)
(* first nh-1 to the front, in place and in increasing order.  The rest of *)
(* the block keeps what the loop left there.                               *)
(***************************************************************************)
ShiftDown(v) ==
    LET moved[i \in 0..Valid] ==
            IF i = 0 THEN v
            ELSE LET w == moved[i - 1] IN [w EXCEPT ![i - 1] = w[i - 1 + (nh - 1)]]
    IN  moved[Valid]

LinearWrap(v) == ShiftDown(CyclicConv(v, Padded(h, nh, BlockLen), BlockLen))

RunSub ==
    /\ pc = "sub"
    /\ blk' = LinearWrap(blk)
    /\ pc' = "copy"
    /\ UNCHANGED <<planVars, work, x, io, m, b>>

CopyOutNoAdvance ==         \* mutated form: b is not advanced
    /\ pc = "copy"
    /\ io' = [i \in Idx(Ylen) |->
                IF i - b * Valid \in Idx(Valid) THEN blk[i - b * Valid] ELSE io[i]]
    /\ pc' = "block"
    /\ UNCHANGED <<planVars, work, blk, x, m, b>>

\* The block's valid samples, up to the end of the output.
CopyOut ==
    /\ pc = "copy"
    /\ io' = [i \in Idx(Ylen) |->
                IF i - b * Valid \in Idx(Valid) THEN blk[i - b * Valid] ELSE io[i]]
    /\ b' = b + 1
    /\ pc' = "block"
    /\ UNCHANGED <<planVars, work, blk, x, m>>

Run == DirectStep \/ DirectReturn \/ Fill \/ FormBlock \/ RunSub \/ CopyOut \/ OlsReturn

Next == (\E a \in Idx(nx) : Execute(a)) \/ Run

\* An execute that was called runs to its end.
Spec == Init /\ [][Next]_vars /\ WF_vars(Run)
-----------------------------------------------------------------------------
\* One fft_execute writes the whole linear convolution y[0..nx+nh-2] of its
\* own input into io (fft.h:176), whatever earlier executes of the plan left
\* in the scratch buffers.
OneCallIsLinearConv ==
    pc = "ready" /\ x # <<>> => io = LinearConv(x, nx, h, nh)

\* The in-place direct loop never overwrites a sample that a later iteration
\* still multiplies: the outputs above m are final and x[0..m] is intact.
DirectInPlaceSafe ==
    pc = "direct" =>
        LET y == LinearConv(x, nx, h, nh)
        IN  \A i \in Idx(Ylen) : /\ i > m => io[i] = y[i]
                                 /\ i <= m /\ i < nx => io[i] = x[i]

\* After b blocks exactly the first b*valid outputs are welded, although the
\* blocks overlap by nh-1 samples and io is input and output at once.
OlsPrefixWelded ==
    pc \in {"block", "sub", "copy"} =>
        LET y == LinearConv(x, nx, h, nh)
        IN  \A i \in Idx(Ylen) : i < b * Valid => io[i] = y[i]

\* Every execute comes back to its caller.
ExecuteReturns == (pc # "ready") ~> (pc = "ready")
-----------------------------------------------------------------------------
(***************************************************************************)
(* The inductive invariant behind the three (ConvDispatchProofs).          *)
(***************************************************************************)
\* What create fixed, and the input of the running execute.
Shape ==
    /\ nx \in Nat /\ nh \in Nat /\ 1 <= nh /\ nh <= nx
    /\ Direct \/ 2 * nh - 1 <= FamilyMax
    /\ \E k \in Idx(nh) : h = Impulse(nh, k)
    /\ (x = <<>> /\ pc = "ready") \/ \E a \in Idx(nx) : x = Impulse(nx, a)
    /\ io = [i \in Idx(Ylen) |-> io[i]]
    /\ pc \in {"ready", "direct", "fill", "block", "sub", "copy"}

DirectRange == pc = "direct" => m \in -1..(Ylen - 1)

\* The work buffer of the running execute is its own input, shifted.
WorkIsInput ==
    /\ pc = "fill" => b = 0 /\ \A i \in Idx(nx) : io[i] = x[i]
    /\ pc \in {"fill", "block", "sub", "copy"} => ~Direct /\ b \in Nat
    /\ pc \in {"block", "sub", "copy"} =>
          work = [i \in Idx(Ylen) |-> IF i - (nh - 1) \in Idx(nx) THEN x[i - (nh - 1)] ELSE 0]

\* The block is a window of it, and then the window's valid samples.
BlockIsWindow ==
    /\ pc = "sub" =>
          blk = [i \in Idx(BlockLen) |->
                   IF b * Valid + i < Ylen THEN work[b * Valid + i] ELSE 0]
    /\ pc = "copy" =>
          LET y == LinearConv(x, nx, h, nh)
          IN  \A i \in Idx(Valid) : b * Valid + i < Ylen => blk[i] = y[b * Valid + i]

IInv ==
    /\ Shape /\ DirectRange /\ WorkIsInput /\ BlockIsWindow
    /\ OneCallIsLinearConv /\ DirectInPlaceSafe /\ OlsPrefixWelded
=============================================================================
