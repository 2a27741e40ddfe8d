------------------------------ MODULE PlanKinds ------------------------------
(***************************************************************************)
(* What the host layer (src/src/host/plan_cache.c) records about a plan    *)
(* and compares when it looks for one.  A create call is a request         *)
(*                                                                         *)
(*     [kind, n, nh, b, h]                                                 *)
(*                                                                         *)
(* with kind the entry point, n the transform or block length, nh the      *)
(* kernel length, b the batch count and h the kernel's samples (a name for *)
(* them: only equality of kernels matters here).  Arguments an entry point *)
(* does not take are 0, and h is NoKernel for an entry without a kernel.   *)
(***************************************************************************)
EXTENDS Naturals

NoKernel == "none"

\* One kind per create entry that goes through a cache list.
Kinds == {"forward", "gauss", "inverse", "conv", "linear",
          "fp64", "conv64", "inv64", "lin64", "batch"}

Lists == {"fp32", "fp64", "conv64", "inv64", "lin64", "batch"}

(* The kind flags of struct fft_plan that each create entry sets. *)
Flags == [forward |-> {},
          gauss   |-> {"windowed"},
          inverse |-> {"inverse"},
          conv    |-> {"conv"},
          linear  |-> {"linear"},
          fp64    |-> {"fp64"},
          conv64  |-> {"fp64", "conv64"},
          inv64   |-> {"fp64", "inv64"},
          lin64   |-> {"fp64", "lin64"},
          batch   |-> {"batch"}]

(* The list head an entry searches before it builds and pushes onto after. *)
PushList == [k \in Kinds |->
               IF k \in {"forward", "gauss", "inverse", "conv", "linear"}
               THEN "fp32" ELSE k]

UnlinkListNoInv(f) ==       \* mutated form: the inv64 arm is missing
    CASE "batch" \in f  -> "batch"
      [] "conv64" \in f -> "conv64"
      [] "lin64" \in f  -> "lin64"
      [] OTHER          -> IF "fp64" \in f THEN "fp64" ELSE "fp32"

(* The list head fft_plan_destroy picks from a plan's flags: the first arm *)
(* that applies, in the order of the code.                                 *)
UnlinkList(f) ==
    IF "batch" \in f  THEN "batch"
    ELSE IF "conv64" \in f THEN "conv64"
    ELSE IF "inv64" \in f  THEN "inv64"
    ELSE IF "lin64" \in f  THEN "lin64"
    ELSE IF "fp64" \in f   THEN "fp64" ELSE "fp32"

CacheKeyNoNh(r) ==          \* mutated form: nh is not compared
    CASE PushList[r.kind] = "fp32"  -> <<"fp32", r.n, Flags[r.kind]>>
      [] PushList[r.kind] = "batch" -> <<"batch", r.n, r.b>>
      [] OTHER -> <<PushList[r.kind], r.n>>

(* The fields the lookup of each list compares.  The kernel samples h are  *)
(* compared by none of them.                                               *)
CacheKey(r) ==
    CASE PushList[r.kind] = "fp32"  -> <<"fp32", r.n, Flags[r.kind], r.nh>>
      [] PushList[r.kind] = "batch" -> <<"batch", r.n, r.b>>
      [] PushList[r.kind] = "lin64" -> <<"lin64", r.n, r.nh>>
      [] OTHER -> <<PushList[r.kind], r.n>>
=============================================================================
