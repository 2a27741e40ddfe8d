------------------------------ MODULE ModComplex ------------------------------
(***************************************************************************)
(* Exact arithmetic in place of double complex: the Gaussian integers mod  *)
(* a prime that is 3 mod 4, so they are a field.  Its elements of norm 1   *)
(* form a cyclic group of order Prime + 1, so every W(m, e), the number    *)
(* exp(-2 pi i e/m) with m | Order, has an image, conjugation inverts it   *)
(* and W(4, 1) is -i, as in the complex numbers.  A transform that is      *)
(* wrong here is wrong there.                                              *)
(***************************************************************************)
EXTENDS ConvMath

CONSTANTS Prime,      \* products of two residues stay below 2^31
          Order,      \* the lengths transformed divide it
          Root        \* the image of exp(-2 pi i / Order)

ASSUME FieldAssumption == Prime % 4 = 3 /\ (Prime + 1) % Order = 0

Zero  == <<0, 0>>
One   == <<1, 0>>
ImagI == <<0, 1>>

\* What a buffer nobody has written yet holds.
Stale == <<111, 57>>

CAdd(u, v) == <<(u[1] + v[1]) % Prime, (u[2] + v[2]) % Prime>>
CSub(u, v) == <<(u[1] - v[1]) % Prime, (u[2] - v[2]) % Prime>>
CMul(u, v) == <<(u[1] * v[1] - u[2] * v[2]) % Prime,
                (u[1] * v[2] + u[2] * v[1]) % Prime>>

\* u times a factor v as the kernels compute it: with fused multiply-adds and
\* a twin <<v[2], v[1]>>, or as two products whose neighbours are subtracted,
\* with a twin <<v[2], -v[1]>>.
Twin(v, fma)         == <<v[2], IF fma THEN v[1] ELSE -v[1]>>
MulFmaddsub(u, v, s) == <<(u[1] * v[1] - u[2] * s[1]) % Prime, (u[1] * v[2] + u[2] * s[2]) % Prime>>
MulHsub(u, v, s)     == <<(u[1] * v[1] - u[2] * v[2]) % Prime, (u[1] * s[1] - u[2] * s[2]) % Prime>>

Conj(u)    == <<u[1], (-u[2]) % Prime>>
MinusI(u)  == <<u[2], (-u[1]) % Prime>>

\* 1/n for a length n.
Inv(n) == <<CHOOSE v \in 1..(Prime - 1) : (v * n) % Prime = 1, 0>>

\* The powers of Root.
Omega ==
    LET pow[e \in 0..Order] ==
            IF e = 0 THEN One
            ELSE LET root == pow[e \div 2]
                 IN  CMul(CMul(root, root), IF e % 2 = 1 THEN Root ELSE One)
    IN  [e \in Idx(Order) |-> pow[e]]

W(m, e) == Omega[((Order \div m) * e) % Order]

ASSUME TwiddleAssumption ==
    /\ CMul(W(Order, Order - 1), Root) = One
    /\ \A e \in 1..(Order - 1) : Omega[e] # One
    /\ Order % 4 = 0 => W(4, 1) = MinusI(One)

Nonzero(x) == {j \in DOMAIN x : x[j] # Zero}

\* Reference definitions on Idx(n): forward and inverse transform, and the
\* n-point cyclic convolution.
DFT(x, n) ==
    LET S == Nonzero(x)
    IN  [k \in Idx(n) |-> FoldFunctionOnSet(CAdd, Zero, [j \in S |-> CMul(x[j], W(n, j * k))], S)]

IDFT(x, n) ==
    LET S == Nonzero(x)
    IN  [k \in Idx(n) |->
            CMul(Inv(n), FoldFunctionOnSet(CAdd, Zero,
                                           [j \in S |-> CMul(x[j], Conj(W(n, j * k)))], S))]

\* Sum over j of h[j] * x[at(m, j)]: the shape of both convolutions.
Correlated(h, x, m, at(_, _)) ==
    LET S == {j \in Nonzero(h) : x[at(m, j)] # Zero}
    IN  FoldFunctionOnSet(CAdd, Zero, [j \in S |-> CMul(h[j], x[at(m, j)])], S)
=============================================================================
