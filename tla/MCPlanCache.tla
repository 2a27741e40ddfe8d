----------------------------- MODULE MCPlanCache -----------------------------
(* Instances of PlanCache for TLC. *)
EXTENDS PlanCache

Req(k, n, nh, b, h) == [kind |-> k, n |-> n, nh |-> nh, b |-> b, h |-> h]

\* Two keys of the fp32 list and one of another list: enough for a race on
\* one key, a neighbour on the same list and a list of its own.
RaceRequests == {Req("forward", 8, 0, 0, NoKernel),
                 Req("inverse", 8, 0, 0, NoKernel),
                 Req("inv64", 8, 0, 0, NoKernel)}

\* Every create entry at one N, and the ones keyed by more than N twice.
KindRequests ==
    {Req(k, 8, 0, 0, NoKernel) : k \in {"forward", "gauss", "inverse", "fp64", "inv64"}}
    \cup {Req(k, 8, 0, 0, "h1") : k \in {"conv", "conv64"}}
    \cup {Req(k, 8, nh, 0, "h1") : k \in {"linear", "lin64"}, nh \in {2, 3}}
    \cup {Req("batch", 8, 0, b, NoKernel) : b \in {1, 2}}

\* One convolution length with two kernels.
KernelRequests == {Req("conv", 8, 0, 0, h) : h \in {"h1", "h2"}}
=============================================================================
