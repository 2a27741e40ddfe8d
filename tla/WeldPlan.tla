------------------------------- MODULE WeldPlan -------------------------------
(***************************************************************************)
(* Original-size weld kernels (src/src/jit/fft_jit.cpp): which leaf a      *)
(* stage of a list of radices gets, which lists can be built, and the      *)
(* memory the builder sets aside for one.  Sizes are in bytes where the    *)
(* code counts bytes and in doubles where it counts doubles.               *)
(***************************************************************************)
EXTENDS SchedPlan, SequencesExt

\* weld_factors, and the radices with a vendored codelet.
WeldFactors == (2..16) \cup {20, 25, 32}
N1Set == {3, 5, 6, 7, 9, 10, 11, 12, 13, 14, 15, 20, 25}
T1Set == N1Set \ {11, 13, 14}

Pow2Radices == {2, 4, 8, 16}

MinWeld == 6
MaxWeld == 32768

IsPow2(n) == n \in PowersOfTwo

\* Bp of stage t.
Before(rad, t) == IF t = 0 THEN 1 ELSE B(rad, t - 1)

\* The leaf of stage t; "none" when the stage cannot be built.  The two-lane
\* own leaves need pairs: of blocks at stage 0, of columns later.
StageKind(rad, t) ==
    LET r  == rad[t]
        bp == Before(rad, t)
        nb == B(rad, FinalStage(rad)) \div rad[0]
    IN  CASE t = 0 /\ r = 2 /\ nb % 2 = 1               -> "own_s2"
          [] t = 0 /\ r \in Pow2Radices /\ nb % 2 = 0   -> "own_v2"
          [] r = 32                                     -> "own_32"
          [] t = 0 /\ r \in N1Set                       -> "n1_contig"
          [] t > 0 /\ r \in Pow2Radices /\ bp % 2 = 0   -> "own_v2"
          [] t > 0 /\ r \in T1Set /\ bp % 2 = 0         -> "t1"
          [] t > 0 /\ r \in N1Set \ T1Set /\ bp % 2 = 0 -> "n1"
          [] t > 0 /\ r \in N1Set /\ bp % 2 = 1         -> "n1_odd"
          [] OTHER                                      -> "none"

Own == {"own_v2", "own_32", "own_s2"}

Viable(rad, n) ==
    /\ Cardinality(DOMAIN rad) \in 2..MaxStages
    /\ Product(DOMAIN rad, rad) = n
    /\ \A t \in DOMAIN rad : StageKind(rad, t) # "none"

\* A list is a function on 0..k-1.
ListOf(s) == [i \in Idx(Len(s)) |-> s[i + 1]]

\* Every list weld_gen generates: the ordered factorisations of n that can be
\* built.
WeldLists(n) ==
    LET Divs == {d \in 1..n : n % d = 0}
        tails[rem \in Divs] ==
            IF rem = 1 THEN {<<>>}
            ELSE UNION {{<<r>> \o s : s \in tails[rem \div r]} :
                            r \in {f \in WeldFactors : rem % f = 0}}
    IN  {rad \in {ListOf(s) : s \in tails[n]} : Viable(rad, n)}

\* The length may be welded: the host asks this before it creates a kernel.
\* Removing any factor first leads to the same answer: the primes must do.
Factorable(n) ==
    LET smooth[m \in 1..n] ==
            IF m = 1 THEN TRUE
            ELSE LET F == {f \in WeldFactors : m % f = 0}
                 IN  F # {} /\ smooth[m \div Min(F)]
    IN  n \in MinWeld..MaxWeld /\ ~IsPow2(n) /\ smooth[n]

\* The greedy list: a power-of-two head if asked for, then the largest factor
\* each time (a smaller one never replaces it).  Empty when the result cannot
\* be built.
Anchor(n, pow2First) ==
    LET head    == IF n % 4 = 0 THEN 4 ELSE 2
        hasHead == pow2First /\ n % 2 = 0 /\ n \div head > 1
        rest[rem \in 1..n] ==
            IF rem = 1 THEN <<>>
            ELSE LET F == {f \in WeldFactors : rem % f = 0}
                 IN  IF F = {} THEN <<0>> ELSE <<Max(F)>> \o rest[rem \div Max(F)]
        s == IF hasHead THEN <<head>> \o rest[n \div head] ELSE rest[n]
    IN  IF Viable(ListOf(s), n) THEN ListOf(s) ELSE ListOf(<<>>)
-----------------------------------------------------------------------------
(* Memory.                                                                 *)

Pad(v, m) == ((v + m - 1) \div m) * m

DescBytes == 168
DescSection == Pad(24 * DescBytes, 32)
LongBytes == 8

\* Doubles of a t1fv twiddle table.
T1WDoubles(bp, r) == (bp \div 2) * (4 * (r - 1))

IndexBytes(r) == Pad(r * 3 * LongBytes, 32)

\* Bytes of the tables of stage t, as the sizing counts them.
ReservedBytes(rad, t) ==
    LET r    == rad[t]
        bp   == Before(rad, t)
        kind == StageKind(rad, t)
    IN  CASE t = 0 /\ kind = "n1_contig" -> IndexBytes(r)
          [] t = 0 /\ kind # "n1_contig" -> 0
          [] t > 0 /\ kind = "own_v2"    -> Pad((bp \div 2) * (r * 64), 32)
          [] t > 0 /\ kind = "own_32"    -> Pad(bp * (r * 32), 32)
          [] t > 0 /\ kind = "t1"        -> IndexBytes(r) + Pad(T1WDoubles(bp, r) * 8, 32)
          [] t > 0 /\ kind = "n1"        -> IndexBytes(r) + Pad((r - 1) * (bp \div 2) * 64, 32)
          [] t > 0 /\ kind = "n1_odd"    -> IndexBytes(r) + Pad((r - 1) * bp * 32, 32)

\* Bytes the builder's cursor really moves for stage t.  It has no case for
\* the scalar radix-2 stage 0, which falls through to the codelet branch and
\* gets index arrays and a sweep table nobody uses.
UsedBytes(rad, t) ==
    IF StageKind(rad, t) = "own_s2" THEN IndexBytes(2) + Pad(32, 32) ELSE ReservedBytes(rad, t)

\* The index table and every stage's tables.
Tables(rad, bytes) ==
    Pad(B(rad, FinalStage(rad)) * 4, 32) + FoldFunctionOnSet(+, 0, bytes, DOMAIN rad)

WeldArenaBytes(rad) ==
    Pad(Tables(rad, [t \in DOMAIN rad |-> ReservedBytes(rad, t)]) + DescSection + 64, 64)

DescOff(rad) == WeldArenaBytes(rad) - 64 - DescSection

\* Descriptors stage t takes; the scalar head takes two it never runs.
DescsOf(rad, t) ==
    LET kind == StageKind(rad, t)
    IN  CASE kind \in {"own_v2", "own_32"}         -> 0
          [] kind \in {"t1", "n1_contig"}          -> 1
          [] kind \in {"n1", "n1_odd", "own_s2"}   -> 2

SlackDoublesHead(rad) ==     \* mutated form: only the head's padding lane is counted
    LET n == B(rad, FinalStage(rad))
    IN  64 + (IF StageKind(rad, 0) = "n1_contig" /\ (n \div rad[0]) % 2 = 1
              THEN rad[0] * 2 + 8 ELSE 0)

\* Doubles past the 2N of the scratch for padding lanes, and whether the last
\* stage ends in a buffer of its own.
SlackDoubles(rad) ==
    LET n == B(rad, FinalStage(rad))
        Need(t) == CASE StageKind(rad, t) = "n1_contig" /\ (n \div rad[0]) % 2 = 1
                            -> rad[0] * 2 + 8
                     [] StageKind(rad, t) = "n1_odd" -> B(rad, t) * 2 + 8
                     [] OTHER -> 0
    IN  64 + Total(DOMAIN rad, [t \in DOMAIN rad |-> Need(t)])

NeedScratch2(rad) == StageKind(rad, FinalStage(rad)) = "n1_odd"
=============================================================================
