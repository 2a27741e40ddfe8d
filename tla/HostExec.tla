------------------------------- MODULE HostExec -------------------------------
(***************************************************************************)
(* What the execute entries of src/src/host/plan_cache.c do with a plan: a *)
(* guard on the plan's kind, then the kernel alone or between the host's   *)
(* own sweeps over the buffer.                                             *)
(*                                                                         *)
(* A buffer element is [pos, ops]: which sample of its block it is, and    *)
(* what has been done to it: F transform, W window, H spectrum, C          *)
(* conjugate, S conjugate and scale.  Y is the whole effect of a kind that *)
(* has its own module (ConvDispatch, Conv64, OlsStream).  An operation     *)
(* that meets the wrong sample, or a transform of samples that were not    *)
(* all treated alike, leaves "mixed".                                      *)
(*                                                                         *)
(* A plan here is [kind, n, nh, b, variant, fused, place, form, kernel],   *)
(* its kernel [n, ops, single, contig].                                    *)
(***************************************************************************)
EXTENDS Integers, Sequences, PlanKinds

HostKinds == Kinds \cup {"dispatch"}

KindFlags(kind) == IF kind = "dispatch" THEN {"dispatch"} ELSE Flags[kind]

Entries == {"execute", "execute_fp64", "execute_conv_fp64", "execute_fp64_inverse",
            "execute_linear_conv_fp64", "execute_windowed_batch"}

\* The entry each kind is documented to be executed through.
OwnEntry(kind) ==
    CASE kind = "fp64"   -> "execute_fp64"
      [] kind = "conv64" -> "execute_conv_fp64"
      [] kind = "inv64"  -> "execute_fp64_inverse"
      [] kind = "lin64"  -> "execute_linear_conv_fp64"
      [] kind = "batch"  -> "execute_windowed_batch"
      [] kind \notin {"fp64", "conv64", "inv64", "lin64", "batch"} -> "execute"

Promise(kind) ==
    CASE kind \in {"forward", "fp64"}     -> <<"F">>
      [] kind \in {"gauss", "batch"}      -> <<"W", "F">>
      [] kind \in {"inverse", "inv64"}    -> <<"C", "F", "S">>
      [] kind \in {"conv", "linear"}      -> <<"F", "H", "C", "F", "S">>
      [] OTHER                            -> <<"Y">>

Blocks(count) == 0..(count - 1)
-----------------------------------------------------------------------------
\* One operation on the n elements from at on.
Apply(buf, at, n, op) ==
    LET zone  == at..(at + n - 1)
        whole == \A a \in zone : buf[a] = [pos |-> a - at, ops |-> buf[at].ops]
        right(a) == buf[a].pos = a - at /\ (op = "F" => whole)
    IN  [a \in DOMAIN buf |->
            IF a \notin zone THEN buf[a]
            ELSE [buf[a] EXCEPT !.ops = Append(@, IF right(a) THEN op ELSE "mixed")]]

\* A kernel call: the operations fused into it, on the length it was built for.
Call(buf, at, kernel) ==
    LET done[k \in 0..Len(kernel.ops)] ==
            IF k = 0 THEN buf ELSE Apply(done[k - 1], at, kernel.n, kernel.ops[k])
    IN  done[Len(kernel.ops)]

InverseWrap(p, buf) ==
    Apply(Call(Apply(buf, 0, p.n, "C"), 0, p.kernel), 0, p.n, "S")

\* A fused kernel does it all; a plain one is run twice, the second time
\* between conjugations.
ConvWrap(p, buf) ==
    IF p.fused THEN Call(buf, 0, p.kernel)
    ELSE LET product == Apply(Call(buf, 0, p.kernel), 0, p.n, "H")
         IN  Apply(Call(Apply(product, 0, p.n, "C"), 0, p.kernel), 0, p.n, "S")

\* Then the valid samples move to the front.  The move goes leftward from the
\* front, so a sample is read before it is overwritten.
LinearWrap(p, buf) ==
    LET out == ConvWrap(p, buf)
    IN  [a \in DOMAIN out |-> IF a \in 0..(p.n - p.nh) THEN out[a + p.nh - 1] ELSE out[a]]

\* fp64 inverse: a fused kernel, or the conjugations around a forward one.
\* A floor plan (tiny or prime length) has no kernel: the host does the sums.
Inverse64(p, buf) ==
    IF p.variant = "floor"
    THEN Apply(Apply(Apply(buf, 0, p.n, "C"), 0, p.n, "F"), 0, p.n, "S")
    ELSE IF p.fused THEN Call(buf, 0, p.kernel) ELSE InverseWrap(p, buf)
-----------------------------------------------------------------------------
(* Windowed batches: the host sweeps the window where the kernel does not. *)

PresweptPairsOnly(p, stride) ==      \* mutated form: no pass for an odd last block
    IF stride = p.n THEN UNION {{2 * j, 2 * j + 1} : j \in Blocks(p.b \div 2)}
    ELSE Blocks(p.b)

\* The blocks of the streaming sweep: contiguous ones two at a time, and what
\* is left over singly.
Preswept(p, stride) ==
    IF stride = p.n
    THEN (UNION {{2 * j, 2 * j + 1} : j \in Blocks(p.b \div 2)}) \cup (2 * (p.b \div 2))..(p.b - 1)
    ELSE Blocks(p.b)

SweptBlocks(p, stride) ==
    CASE p.place = "standalone" -> Blocks(p.b)
      [] p.place = "presweep"   -> Preswept(p, stride)
      [] OTHER                  -> {}

Sweep(p, buf, stride) ==
    LET swept[k \in 0..p.b] ==
            IF k = 0 THEN buf
            ELSE IF k - 1 \in SweptBlocks(p, stride)
                 THEN Apply(swept[k - 1], (k - 1) * stride, p.n, "W")
                 ELSE swept[k - 1]
    IN  swept[p.b]

\* A single kernel walks the blocks itself, a plain one is called per block.  A
\* form the kernel does not have runs nothing.
HasForm(p) == p.kernel.single = (p.form \in {"single", "slim"})

\* The contiguous entry of a single kernel walks by the kernel's own length.
KernelStride(p, stride) ==
    IF p.form = "slim" /\ p.kernel.contig /\ stride = p.n THEN p.kernel.n ELSE stride

RunBlocks(p, buf, stride) ==
    LET run[k \in 0..p.b] ==
            IF k = 0 THEN buf
            ELSE Call(run[k - 1], (k - 1) * KernelStride(p, stride), p.kernel)
    IN  run[p.b]

WindowedBatch(p, buf, stride) ==
    IF stride < p.n THEN buf
    ELSE LET swept == Sweep(p, buf, stride)
         IN  IF HasForm(p) THEN RunBlocks(p, swept, stride) ELSE swept
-----------------------------------------------------------------------------
(* The entries.  Each does nothing for a plan it does not serve.           *)

ExecuteAnyFlag(p, buf) ==            \* mutated form: batch plans are not turned away
    LET f == KindFlags(p.kind)
    IN  CASE "fp64" \in f -> buf
          [] "conv" \in f -> ConvWrap(p, buf)
          [] "linear" \in f -> LinearWrap(p, buf)
          [] "inverse" \in f -> InverseWrap(p, buf)
          [] OTHER -> Call(buf, 0, p.kernel)

ExecuteF32(p, buf) ==
    LET f == KindFlags(p.kind)
    IN  IF f \cap {"batch", "fp64"} # {} THEN buf
        ELSE IF "conv" \in f    THEN ConvWrap(p, buf)
        ELSE IF "linear" \in f  THEN LinearWrap(p, buf)
        ELSE IF "inverse" \in f THEN InverseWrap(p, buf)
        ELSE Call(buf, 0, p.kernel)

ExecuteF64(p, buf) ==
    LET f == KindFlags(p.kind)
    IN  IF "fp64" \notin f \/ f \cap {"conv64", "inv64", "lin64"} # {} THEN buf
        ELSE IF p.variant = "floor" THEN Apply(buf, 0, p.n, "F")
        ELSE Call(buf, 0, p.kernel)

Execute(p, entry, buf, stride) ==
    LET f == KindFlags(p.kind)
    IN  IF entry = "execute" THEN ExecuteF32(p, buf)
        ELSE IF entry = "execute_fp64" THEN ExecuteF64(p, buf)
        ELSE IF entry = "execute_conv_fp64" /\ "conv64" \in f THEN Call(buf, 0, p.kernel)
        ELSE IF entry = "execute_fp64_inverse" /\ "inv64" \in f THEN Inverse64(p, buf)
        ELSE IF entry = "execute_linear_conv_fp64" /\ "lin64" \in f THEN Call(buf, 0, p.kernel)
        ELSE IF entry = "execute_windowed_batch" /\ "batch" \in f THEN WindowedBatch(p, buf, stride)
        ELSE buf
=============================================================================
