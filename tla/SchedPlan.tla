------------------------------- MODULE SchedPlan -------------------------------
(***************************************************************************)
(* The shape of a mixed-radix kernel (src/src/jit/fft_jit.cpp): the list   *)
(* of radices, the blocks its stages form, and the tile groups a budget    *)
(* makes of them.  A list is a function on 0..k-1; rad[0] is stage 0.      *)
(***************************************************************************)
EXTENDS ConvMath, FiniteSetsExt

Radices == {2, 4, 8, 16, 32}

MaxStages == 8          \* int radices[8]

FinalStage(rad) == Cardinality(DOMAIN rad) - 1

\* B_i: elements of a block after stage i; B_(-1) = 1.
B(rad, i) == Product(0..i, rad)

\* Every list of radices with product n.
Decompositions(n) ==
    {rad \in UNION {[Idx(k) -> Radices] : k \in {j \in 1..MaxStages : 2 ^ j <= n}} :
        Product(DOMAIN rad, rad) = n}

\* Stage 0's position of natural index v: the mixed-radix digits of v, last
\* stage's radix first, are the position's digits, first stage's radix first.
DigitReversal(rad, v) ==
    LET f        == FinalStage(rad)
        Digit(i) == (v \div (B(rad, f) \div B(rad, f - i))) % rad[f - i]
    IN  FoldFunctionOnSet(+, 0, [i \in DOMAIN rad |->
            Digit(i) * B(rad, f - i - 1)], DOMAIN rad)

\* The table stage 0 gathers through: natural index by position.
GatherTable(rad, n) ==
    FoldSet(LAMBDA v, tab : [tab EXCEPT ![DigitReversal(rad, v)] = v],
            [p \in Idx(n) |-> 0], Idx(n))

\* The single-precision kernels keep one entry per block instead: slot j of
\* block b is base + j*(n/rad[0]).
BlockTable(rad, n) ==
    LET blocks == Idx(n \div rad[0])
    IN  FoldSet(LAMBDA v, tab : [tab EXCEPT ![DigitReversal(rad, v) \div rad[0]] = v],
                [b \in blocks |-> 0], blocks)

\* The lists a single-precision kernel can be built from: its leaves take four
\* blocks or columns at a time, radix 32 takes two, and radix 32 cannot load
\* through a window or a spectrum.
ValidF(rad, loadMultiplies) ==
    LET n == B(rad, FinalStage(rad))
    IN  /\ FinalStage(rad) >= 1
        /\ (n \div rad[0]) % (IF rad[0] = 32 THEN 2 ELSE 4) = 0
        /\ rad[0] = 32 => ~loadMultiplies
        /\ \A i \in 1..FinalStage(rad) : B(rad, i - 1) % (IF rad[i] = 32 THEN 2 ELSE 4) = 0

GroupLenLate(rad, maxTile, i) ==   \* mutated form: the budget is checked one stage late
    IF maxTile = 0 \/ B(rad, FinalStage(rad)) <= maxTile THEN 1
    ELSE CHOOSE d \in 1..(FinalStage(rad) + 1) :
            /\ \A e \in 1..(d - 1) : i + e < FinalStage(rad) /\ B(rad, i + e - 1) <= maxTile
            /\ ~(i + d < FinalStage(rad) /\ B(rad, i + d - 1) <= maxTile)

\* The group that starts at stage i is as long as its tile fits the budget;
\* the final stage is never part of one.
GroupLen(rad, maxTile, i) ==
    IF maxTile = 0 \/ B(rad, FinalStage(rad)) <= maxTile THEN 1
    ELSE CHOOSE d \in 1..(FinalStage(rad) + 1) :
            /\ \A e \in 1..(d - 1) : i + e < FinalStage(rad) /\ B(rad, i + e) <= maxTile
            /\ ~(i + d < FinalStage(rad) /\ B(rad, i + d) <= maxTile)

SplitFinal32Never(rad) == rad    \* mutated form: a final 32 is kept

\* The fused kernels (convolution, overlap-save, inverse) never end in a
\* radix-32 stage: a final 32 becomes 16, 2.
SplitFinal32(rad) ==
    LET f == FinalStage(rad)
    IN  IF rad[f] # 32 THEN rad
        ELSE [i \in 0..(f + 1) |-> IF i < f THEN rad[i] ELSE IF i = f THEN 16 ELSE 2]
=============================================================================
