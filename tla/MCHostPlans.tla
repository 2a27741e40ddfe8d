----------------------------- MODULE MCHostPlans -----------------------------
(***************************************************************************)
(* Requests for HostPlans: every kind in every variant, with lengths below *)
(* and above the two thresholds, which are scaled down to 2 and 4, and an  *)
(* odd number of blocks, so that the two-block sweep has a block left.     *)
(***************************************************************************)
EXTENDS HostPlans, TLC

Req(kind, n, nh, b, variant) == [kind |-> kind, n |-> n, nh |-> nh, b |-> b, variant |-> variant]

Simple ==
    {Req(k, 4, 1, 1, "kernel") : k \in {"forward", "gauss", "inverse", "fp64", "inv64"}}
        \cup {Req("inv64", 2, 1, 1, "kernel"), Req("forward", 3, 1, 1, "adapt"),
              Req("fp64", 3, 1, 1, "floor"), Req("inv64", 3, 1, 1, "floor"),
              Req("inv64", 3, 1, 1, "anyn")}

Convolutions ==
    {Req("conv", n, 1, 1, "kernel") : n \in {2, 4}}
        \cup {Req("linear", 4, nh, 1, "kernel") : nh \in {1, 3}}
        \cup {Req("linear", 2, 2, 1, "kernel")}
        \cup {Req("conv64", 3, 1, 1, v) : v \in {"tiny", "direct", "pad", "corr", "tailcorr", "ola", "weld"}}
        \cup {Req("lin64", 4, 2, 1, v) : v \in {"tiny", "kernel"}}
        \cup {Req("dispatch", 3, 2, 1, v) : v \in {"direct", "ols"}}

Batches == {Req("batch", n, 1, 3, "kernel") : n \in {2, 4}}

AllRequests == Simple \cup Convolutions \cup Batches

SearchRequests == {Req("batch", 4, 1, 1, "kernel")}

Symmetry == Permutations(Sessions)
=============================================================================
