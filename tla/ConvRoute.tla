------------------------------ MODULE ConvRoute ------------------------------
(***************************************************************************)
(* The route table of fft_plan_create_conv_fp64 (src/src/host/plan_cache.c):*)
(* how an N-point cyclic convolution for any N up to the family ceiling is *)
(* laid out on power-of-two welds.  The ceiling, 32768 in the code, and    *)
(* the taps up to which the tail correlation is computed directly, 8 in    *)
(* the code, are the first arguments of the table, c and taps.             *)
(***************************************************************************)
EXTENDS ConvMath

Pow2(n) == n \in PowersOfTwo

NoRoute == [mode |-> "none"]

Route(mode, n, np, np2, l, p) ==
    [mode |-> mode, n |-> n, np |-> np, np2 |-> np2, l |-> l, p |-> p,
     pieces |-> IF p = 0 THEN 0 ELSE (n + p - 1) \div p]

\* Modes 3 and 4: the main weld at np is aliased.  Its wrapped tail is
\* corrected when the correlation of length l+1 fits, else the input is cut
\* into pieces of p samples.
AliasedStrict(c, taps, n, np) ==     \* mutated form: the piece length is one too big
    LET l   == 2 * n - 2 - np
        np2 == NextPow2(2 * l + 1)
    IN  IF l + 1 <= taps \/ np2 <= c
        THEN Route("corr", n, np, np2, l, 0)
        ELSE Route("ola", n, c, 0, 0, c - n + 2)

AliasedShort(c, taps, n, np) ==      \* mutated form: the correlation length is 2L
    LET l   == 2 * n - 2 - np
        np2 == NextPow2(IF l = 0 THEN 1 ELSE l + 1)
    IN  IF l + 1 <= taps \/ np2 <= c
        THEN Route("corr", n, np, np2, l, 0)
        ELSE Route("ola", n, c, 0, 0, c - n + 1)

AliasedBelow(c, taps, n, np) ==      \* mutated form: the correction must stay below the ceiling
    LET l   == 2 * n - 2 - np
        np2 == NextPow2(2 * l + 1)
    IN  IF l + 1 <= taps \/ np2 < c
        THEN Route("corr", n, np, np2, l, 0)
        ELSE Route("ola", n, c, 0, 0, c - n + 1)

Aliased(c, taps, n, np) ==
    LET l   == 2 * n - 2 - np
        np2 == NextPow2(2 * l + 1)
    IN  IF l + 1 <= taps \/ np2 <= c
        THEN Route("corr", n, np, np2, l, 0)
        ELSE Route("ola", n, c, 0, 0, c - n + 1)

RouteOfTwoDirect(c, taps, n, welded, forceCorr) ==   \* mutated form: N = 2 has no tiny route
    LET npLin == NextPow2(2 * n - 1)
    IN  CASE welded                -> Route("weld", n, n, 0, 0, 0)
          [] ~welded /\ Pow2(n)    -> Route(IF n >= 2 THEN "direct" ELSE "tiny", n, n, 0, 0, 0)
          [] ~welded /\ ~Pow2(n)   -> IF npLin <= c /\ ~forceCorr
                                      THEN Route("pad", n, npLin, 0, 0, 0)
                                      ELSE Aliased(c, taps, n, IF forceCorr THEN NextPow2(n) ELSE c)

\* welded: the original-size weld was built (it is tried for n that is not a
\* power of two, unless FFT_WELD=off).  forceCorr: FFT_CONV_ROUTE=corr.
RouteOf(c, taps, n, welded, forceCorr) ==
    LET npLin == NextPow2(2 * n - 1)
    IN  CASE welded                -> Route("weld", n, n, 0, 0, 0)
          [] ~welded /\ Pow2(n)    -> Route(IF n >= 4 THEN "direct" ELSE "tiny", n, n, 0, 0, 0)
          [] ~welded /\ ~Pow2(n) /\ npLin <= c /\ ~forceCorr
                                   -> Route("pad", n, npLin, 0, 0, 0)
          [] ~welded /\ ~Pow2(n) /\ npLin <= c /\ forceCorr
                                   -> Aliased(c, taps, n, NextPow2(n))
          [] ~welded /\ ~Pow2(n) /\ npLin > c
                                   -> Aliased(c, taps, n, c)

\* What the create entry may answer for a length: under either setting of each
\* of the two environment variables, and whether or not the weld was built.
Answers(c, taps, n, r) ==
    \E welded, forceCorr \in BOOLEAN :
        /\ welded => ~Pow2(n)
        /\ r = RouteOf(c, taps, n, welded, forceCorr)
-----------------------------------------------------------------------------
\* The welds a route asks the JIT for are powers of two it can build
\* (fft.h:237, "sizes >= 4"), or the original-size weld.
Buildable(c, taps, r) ==
    /\ r.mode \in {"direct", "pad", "corr", "ola"} => Pow2(r.np) /\ r.np \in 4..c
    /\ r.mode = "corr" /\ r.l + 1 > taps => Pow2(r.np2) /\ r.np2 \in 4..c

\* A pad or OLA weld is long enough that no sample of a linear convolution
\* wraps around in it, and OLA pieces cover the input.
Unaliased(r) ==
    /\ r.mode = "pad" => 2 * r.n - 1 <= r.np
    /\ r.mode = "ola" => /\ r.p >= 1
                         /\ r.p + r.n - 1 <= r.np
                         /\ r.pieces * r.p >= r.n
                         /\ (r.pieces - 1) * r.p < r.n

\* A corrected weld wraps only the tail w[0..L] that the correction computes:
\* the wrapped samples lie in front of the ones read unwrapped, and the
\* correlation itself does not wrap in its own weld.
Corrected(taps, r) ==
    r.mode = "corr" =>
        /\ r.l = (2 * r.n - 2) - r.np
        /\ r.l >= 0
        /\ r.l < r.n
        /\ r.n <= r.np
        /\ r.l + 1 > taps => 2 * r.l + 1 <= r.np2

\* The ranges the route table's comment gives (plan_cache.c:623-634): one
\* padded weld for 2N-1 up to the ceiling; above it the correction up to three
\* quarters of the ceiling, and pieces beyond that.
AsDocumented(c, r) ==
    /\ r.mode = "corr" /\ r.np = c => 2 * r.n - 1 > c /\ 4 * r.n <= 3 * c
    /\ r.mode = "ola" => 4 * r.n > 3 * c
=============================================================================
