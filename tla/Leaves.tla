-------------------------------- MODULE Leaves --------------------------------
(***************************************************************************)
(* The power-of-two leaves every emitter of src/src/jit/fft_jit.cpp builds *)
(* its stages from: up to 8 points directly, 16 and 32 as two half-size    *)
(* leaves over the even and the odd slots.                                 *)
(***************************************************************************)
EXTENDS ModComplex

BitRev(p, bits) ==
    FoldFunctionOnSet(+, 0, [i \in Idx(bits) |-> ((p \div 2 ^ i) % 2) * 2 ^ (bits - 1 - i)],
                      Idx(bits))

\* z * W_m^i, with the two cases that need no multiplication.
Twiddle(z, m, i) ==
    CASE i = 0                -> z
      [] i # 0 /\ 4 * i = m   -> MinusI(z)
      [] i # 0 /\ 4 * i # m   -> CMul(z, W(m, i))

\* One butterfly level with blocks of m.
Butterflies(v, m) ==
    [p \in DOMAIN v |->
        LET i == p % m
        IN  IF 2 * i < m THEN CAdd(v[p], Twiddle(v[p + m \div 2], m, i))
                         ELSE CSub(v[p - m \div 2], Twiddle(v[p], m, i - m \div 2))]

\* 2^bits-point transform of z: slots loaded in bit-reversed order, then the
\* butterfly levels.
SubLeaf(z, bits) ==
    LET level[i \in 0..bits] ==
            IF i = 0 THEN [p \in Idx(2 ^ bits) |-> z[BitRev(p, bits)]]
            ELSE Butterflies(level[i - 1], 2 ^ i)
    IN  level[bits]

\* r-point leaf on the loaded (and twiddled) slots z: directly up to 8, as
\* two half-size leaves over the even and the odd slots and a cross for more.
Leaf(z, r) ==
    IF r <= 8 THEN SubLeaf(z, CHOOSE b \in 1..3 : 2 ^ b = r)
    ELSE LET q == r \div 2
             b == CHOOSE c \in 3..4 : 2 ^ c = q
             e == SubLeaf([j \in Idx(q) |-> z[2 * j]], b)
             o == SubLeaf([j \in Idx(q) |-> z[2 * j + 1]], b)
         IN  [p \in Idx(r) |-> IF p < q THEN CAdd(e[p], Twiddle(o[p], r, p))
                                        ELSE CSub(e[p - q], Twiddle(o[p - q], r, p - q))]
=============================================================================
