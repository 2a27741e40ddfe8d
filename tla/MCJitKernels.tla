----------------------------- MODULE MCJitKernels -----------------------------
(* Kernels and inputs for TLC.                                             *)
EXTENDS JitKernels

RootOf128 == <<2, 88>>

Call(n, kind, nh, tap, at, unit) ==
    [n |-> n, kind |-> kind, nh |-> nh, fma |-> TRUE, gap |-> 0, tap |-> tap, at |-> at, unit |-> unit]

NoFma(call) == [call EXCEPT !.fma = FALSE]

BatchCall(n, kind, gap, at) ==
    [n |-> n, kind |-> kind, nh |-> 1, fma |-> TRUE, gap |-> gap, tap |-> 0, at |-> at, unit |-> One]

\* Plain transforms of every 32-point impulse, and at 64 points the kinds that
\* take every list; at 32 and 64 points the single-precision transforms are
\* also built as radix-2 loops.  The kernels that conjugate get an imaginary impulse too;
\* nh = 3 and nh = 6 end the valid prefix at an odd and at an even position.
SomeCalls ==
         {Call(32, "fft", 1, 0, a, One) : a \in Idx(32)}
    \cup {Call(64, "fft", 1, 0, a, One) : a \in {1, 38}}
    \cup {Call(32, "inverse", 1, 0, a, u) : a \in {0, 1, 13}, u \in {One, ImagI}}
    \cup {Call(64, "inverse", 1, 0, a, ImagI) : a \in {0, 41}}
    \cup {Call(32, "conv", 32, tap, a, ImagI) : tap \in {0, 5}, a \in {1, 31}}
    \cup {Call(64, "conv", 64, 50, a, One) : a \in {33, 63}}
    \cup {Call(32, "ols", nh, 1, a, One) : nh \in {3, 6}, a \in {0, 7, 31}}
    \cup {Call(64, "ols", nh, 2, 61, One) : nh \in {3, 6}}
    \cup {Call(32, "stream", nh, 1, a, One) : nh \in {3, 6}, a \in {2, 30, 35}}
    \cup {Call(64, "stream", nh, 1, 60, One) : nh \in {3, 6}}
    \cup {Call(32, k, 1, 0, a, One) : k \in {"f_fft", "f_win"}, a \in {0, 3, 22}}
    \cup {Call(64, k, 1, 0, 38, One) : k \in {"f_fft", "f_win"}}
    \cup {Call(32, k, 32, 5, a, ImagI) : k \in {"f_conv", "f_convload"}, a \in {1, 31}}
    \cup {Call(64, k, 64, 50, 33, ImagI) : k \in {"f_conv", "f_convload"}}
    \cup {NoFma(Call(32, k, 32, 5, 1, ImagI)) : k \in {"conv", "f_conv", "f_convload"}}
    \cup {NoFma(Call(64, "fft", 1, 0, 38, One))}
    \cup {Call(n, k, 1, 0, a % n, One) : n \in {1, 2, 4, 8, 16}, k \in {"fft", "f_fft", "f_win"},
                                         a \in {0, 3, 6, 13}}
    \cup {Call(n, "conv", n, 1, n - 1, ImagI) : n \in {4, 8, 16}}
    \cup {Call(n, k, 3, 1, 3, One) : n \in {4, 8, 16}, k \in {"ols", "stream"}}
    \cup {BatchCall(32, k, gap, 35) : k \in {"f_batch", "f_winbatch"}, gap \in {0, 3}}
=============================================================================
