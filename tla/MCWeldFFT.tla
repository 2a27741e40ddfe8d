------------------------------ MODULE MCWeldFFT ------------------------------
(* Lengths and inputs for TLC, in the field of 10079^2 elements, whose      *)
(* norm-1 group has elements of order 10080 = 2^5 * 3^2 * 5 * 7.             *)
EXTENDS WeldFFT

RootOf10080 == <<3006, 6738>>

Call(n, kind, fma, tap, at, unit) ==
    [n |-> n, kind |-> kind, fma |-> fma, tap |-> tap, at |-> at, unit |-> unit]

SomeWelds ==
         {Call(n, "fft", TRUE, 0, a, One) : n \in {6, 9, 15, 28, 30, 45, 60, 84}, a \in {1, 4}}
    \cup {Call(12, "fft", TRUE, 0, a, One) : a \in Idx(12)}
    \cup {Call(96, "fft", TRUE, 0, 37, One)}
    \cup {Call(n, "inverse", TRUE, 0, a, ImagI) : n \in {9, 12, 30, 45, 60}, a \in {0, 5}}
    \cup {Call(n, "conv", TRUE, n - 1, a, ImagI) : n \in {6, 9, 12, 15, 28, 30, 45}, a \in {0, 5}}
    \cup {Call(n, "conv", TRUE, n - 2, n - 1, One) : n \in {60, 84, 96}}
    \cup {Call(n, kind, FALSE, 1, 3, ImagI) : n \in {6, 12}, kind \in {"inverse", "conv"}}

=============================================================================
