------------------------------- MODULE ConvMath -------------------------------
(***************************************************************************)
(* Vectors and the two convolutions the library promises.  A buffer of n   *)
(* samples is a function on 0..n-1.                                        *)
(*                                                                         *)
(* The execute routines are linear in the input x and in the kernel h, and *)
(* no branch of theirs looks at a sample: a routine that is right for a    *)
(* unit impulse x at every position and a unit impulse h at every position *)
(* is right for every x and h.  So the modules that use this one feed      *)
(* impulses, and a buffer position nobody may rely on holds Garbage.       *)
(***************************************************************************)
EXTENDS Integers, Functions

Garbage == 1000

Idx(n) == 0..(n - 1)

Impulse(n, a) == [i \in Idx(n) |-> IF i = a THEN 1 ELSE 0]

\* Sum of f[i] for i in S.
Total(S, f) == FoldFunctionOnSet(+, 0, f, S)

Times(a, b) == a * b

\* Product of f[i] for i in S.
Product(S, f) == FoldFunctionOnSet(Times, 1, f, S)

\* Zero-padded to length n.
Padded(v, len, n) == [i \in Idx(n) |-> IF i < len THEN v[i] ELSE 0]

\* The positions of v that contribute to a sum of products with v.
Support(v) == {i \in DOMAIN v : v[i] # 0}

\* y[m] = sum_j x[j] h[m-j], 0 <= m < nx+nh-1.
LinearConv(x, nx, h, nh) ==
    [m \in Idx(nx + nh - 1) |->
        LET J == {j \in Support(x) : m - j \in Idx(nh)}
        IN  Total(J, [j \in J |-> x[j] * h[m - j]])]

\* y[m] = sum_j x[j] h[(m-j) mod n], 0 <= m < n.
CyclicConv(x, h, n) ==
    LET J == Support(x)
    IN  [m \in Idx(n) |-> Total(J, [j \in J |-> x[j] * h[(m - j) % n]])]

\* The powers of two that occur as lengths.
PowersOfTwo == {1, 2, 4, 8, 16, 32, 64, 128, 256, 512, 1024, 2048, 4096, 8192,
                16384, 32768, 65536, 131072}

\* The smallest power of two >= v.
NextPow2(v) == CHOOSE p \in PowersOfTwo : v <= p /\ (p = 1 \/ p \div 2 < v)
=============================================================================
