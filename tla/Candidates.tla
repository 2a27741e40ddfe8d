------------------------------ MODULE Candidates ------------------------------
(***************************************************************************)
(* The candidates the plan-time searches of src/src/jit/fft_jit.cpp try,   *)
(* in the order they try them, and the bytes a candidate's tables take:    *)
(* what the search plans for them and what the build writes.               *)
(*   64  fp64 kernels        F  fp32 kernels        Weld  original sizes   *)
(* A rough cost per stage orders a pool; it never chooses.                 *)
(***************************************************************************)
EXTENDS WeldPlan, TLC

Empty == ListOf(<<>>)

Length(rad) == Cardinality(DOMAIN rad)

LogOf(n) == CHOOSE e \in 0..15 : 2 ^ e = n

\* Every list of at most MaxStages radices with product n, in the order the
\* recursion meets them.
Generated(n) ==
    LET gen[bits \in 0..LogOf(n)] ==
            IF bits = 0 THEN <<<<>>>>
            ELSE LET Starting(e) ==
                        LET rest == gen[bits - e] IN [j \in DOMAIN rest |-> <<2 ^ e>> \o rest[j]]
                 IN  FlattenSeq([e \in 1..(IF bits < 5 THEN bits ELSE 5) |-> Starting(e)])
        fit == SelectSeq(gen[LogOf(n)], LAMBDA s : Len(s) <= MaxStages)
    IN  [j \in DOMAIN fit |-> ListOf(fit[j])]

\* As many points as possible per stage, at most 2^most.
Greedy(n, most) ==
    LET full == LogOf(n) \div most
        rest == LogOf(n) % most
    IN  [i \in Idx(full + (IF rest > 0 THEN 1 ELSE 0)) |->
            IF i < full THEN 2 ^ most ELSE 2 ^ rest]

Reversed(rad) == [i \in DOMAIN rad |-> rad[FinalStage(rad) - i]]

Distinct(seq, limit) ==
    FoldLeft(LAMBDA kept, c : IF Contains(kept, c) \/ Len(kept) >= limit
                              THEN kept ELSE Append(kept, c), <<>>, seq)

First(k, seq) == SubSeq(seq, 1, IF k < Len(seq) THEN k ELSE Len(seq))

\* The k cheapest lists by their costs, cheapest first.
Cheapest(k, lists, costs) ==
    LET costed == First(k, SortSeq([j \in DOMAIN lists |-> <<costs[j], lists[j]>>],
                                   LAMBDA a, b : a[1] < b[1]))
    IN  [j \in DOMAIN costed |-> costed[j][2]]

CostOf(slots) == FoldFunctionOnSet(+, 0, slots, DOMAIN slots)

\* Tenths: as first, as final and as middle stage.
ByPlace(rad, i, cost) ==
    cost[rad[i]][IF i = 0 THEN 1 ELSE IF i = FinalStage(rad) THEN 2 ELSE 3]

SlotModel64(rad, i) ==
    ByPlace(rad, i, (2 :> <<56, 58, 54>>) @@ (4 :> <<60, 63, 58>>) @@ (8 :> <<64, 68, 60>>)
                    @@ (16 :> <<100, 95, 78>>) @@ (32 :> <<115, 155, 150>>))

SlotModelF(rad, i) ==
    ByPlace(rad, i, (2 :> <<52, 56, 52>>) @@ (4 :> <<53, 58, 54>>) @@ (8 :> <<55, 64, 57>>)
                    @@ (16 :> <<74, 82, 74>>) @@ (32 :> <<84, 120, 105>>))

\* Hundredths, rounded down.  Codelet stages pay for the passes around them.
SlotModelWeld(rad, i) ==
    LET r     == rad[i]
        bp    == Before(rad, i)
        kind  == StageKind(rad, i)
        final == i > 0 /\ i = FinalStage(rad)
        base  == IF r \in Radices THEN 10 * ByPlace(rad, i,
                        (2 :> <<56, 58, 54>>) @@ (4 :> <<60, 63, 58>>) @@ (8 :> <<64, 68, 60>>)
                        @@ (16 :> <<100, 95, 78>>) @@ (32 :> <<115, 155, 150>>))
                 ELSE (3 :> 610 @@ 5 :> 660 @@ 6 :> 690 @@ 7 :> 720 @@ 9 :> 750 @@ 10 :> 770
                       @@ 11 :> 790 @@ 12 :> 810 @@ 13 :> 830 @@ 14 :> 845 @@ 15 :> 860
                       @@ 20 :> 940 @@ 25 :> 1020)[r]
        sweep == (1000 * (r - 1) * (bp - 1)) \div (r * bp) + 15
    IN  (CASE kind = "own_s2"    -> base + 200
           [] kind = "t1"        -> (base * 102) \div 100 + 15
           [] kind = "n1"        -> base + sweep
           [] kind = "n1_odd"    -> base + sweep + 100
           [] kind = "n1_contig" -> base + 1000
           [] OTHER              -> base)
        + (IF final /\ kind \notin {"own_v2", "own_32"} THEN 500 ELSE 0)

Model64(rad)   == CostOf([i \in DOMAIN rad |-> SlotModel64(rad, i)])
ModelF(rad)    == CostOf([i \in DOMAIN rad |-> SlotModelF(rad, i)])
ModelWeld(rad) == CostOf([i \in DOMAIN rad |-> SlotModelWeld(rad, i)])

Cheapest64(k, lists)   == Cheapest(k, lists, [j \in DOMAIN lists |-> Model64(lists[j])])
CheapestF(k, lists)    == Cheapest(k, lists, [j \in DOMAIN lists |-> ModelF(lists[j])])
CheapestWeld(k, lists) == Cheapest(k, lists, [j \in DOMAIN lists |-> ModelWeld(lists[j])])
-----------------------------------------------------------------------------
(* Pools.                                                                  *)

Anchors64(n) == <<Greedy(n, 5), Reversed(Greedy(n, 5)), Greedy(n, 4)>>

\* The anchors, then the others that are not among them.
After(anchors, others) ==
    Distinct(anchors, Len(anchors)) \o SelectSeq(others, LAMBDA c : ~Contains(anchors, c))

Base64Unsorted(n) ==        \* mutated form: model order is missing
    LET others == First(43, Generated(n)) IN First(43, After(Anchors64(n), others))

\* Three anchors, then the cheapest lists by model.
Base64(n) == First(43, After(Anchors64(n), Cheapest64(43, Generated(n))))

AnchorsF(n, loadMultiplies) ==
    Distinct(SelectSeq(<<Greedy(n, 4), Reversed(Greedy(n, 4)), Greedy(n, 3),
                         Greedy(n, 5), Reversed(Greedy(n, 5))>>,
                       LAMBDA rad : ValidF(rad, loadMultiplies)), 5)

\* At most nine lists for every first radix.
WithinQuota(lists) ==
    LET InQuota(j) == Cardinality({i \in 1..(j - 1) : lists[i][0] = lists[j][0]}) < 9
        taken      == SelectSeq([j \in DOMAIN lists |-> j], InQuota)
    IN  [m \in DOMAIN taken |-> lists[taken[m]]]

\* Five anchors, then the cheapest lists for every first radix but 2; only
\* lists the leaves can run.
BaseF(n, loadMultiplies) ==
    LET anchors == AnchorsF(n, loadMultiplies)
        others  == SelectSeq(Generated(n), LAMBDA c : /\ c[0] # 2
                                                      /\ ValidF(c, loadMultiplies)
                                                      /\ ~Contains(anchors, c))
    IN  anchors \o WithinQuota(CheapestF(Len(others), others))

\* weld_gen tries small factors first.
MetEarlier(a, b) ==
    \E t \in DOMAIN a \cap DOMAIN b : a[t] < b[t] /\ \A l \in Idx(t) : a[l] = b[l]

\* The greedy lists with and without a power-of-two head, then the cheapest.
BaseWeld(n) ==
    LET anchors == SelectSeq(<<Anchor(n, TRUE), Anchor(n, FALSE)>>, LAMBDA rad : rad # Empty)
        all     == SortSeq(FoldSet(LAMBDA rad, seq : Append(seq, rad), <<>>, WeldLists(n)),
                           MetEarlier)
    IN  First(26, After(anchors, CheapestWeld(26, all)))

\* groupLen of a list under a budget: the stages that start a group, with the
\* group's length.  Stages of length 1 run as plain sweeps.
Grouping(rad, maxTile) ==
    IF maxTile = 0 \/ B(rad, FinalStage(rad)) <= maxTile THEN {}
    ELSE LET next[i \in Idx(Length(rad))] ==
                IF i >= FinalStage(rad) THEN {}
                ELSE LET d == GroupLen(rad, maxTile, i) IN {<<i, d>>} \cup next[i + d]
         IN  next[0]

NoTile == -1

\* A list once per budget, less the budgets whose groupLen array repeats one;
\* just once when the budget is pinned.
Variants(rad, modes, pinnedTile) ==
    LET Repeats(m) == \E l \in 1..(m - 1) : Grouping(rad, modes[l]) = Grouping(rad, modes[m])
        kept == SelectSeq([m \in DOMAIN modes |-> m], LAMBDA m : ~Repeats(m))
    IN  IF pinnedTile # NoTile THEN <<[rad |-> rad, tile |-> pinnedTile]>>
        ELSE [j \in DOMAIN kept |-> [rad |-> rad, tile |-> modes[kept[j]]]]

Modes64 == <<2048, 512, 1024, 0>>
ModesF  == <<4096, 1024, 2048, 512, 0>>

Expanded(lists, modes, pinnedTile) ==
    FlattenSeq([j \in DOMAIN lists |-> Variants(lists[j], modes, pinnedTile)])
-----------------------------------------------------------------------------
(* Bytes.                                                                  *)

\* What sched_lut_bytes plans for a list, and what the build writes for it.
Planned64(rad) ==
    Pad(4 * B(rad, FinalStage(rad)), 32) + 64
        + FoldFunctionOnSet(+, 0, [i \in DOMAIN rad |-> 32 * B(rad, i)], 1..FinalStage(rad))

Written64(rad) ==
    LET Rows(i)     == IF rad[i] <= 16 THEN B(rad, i - 1) \div 2 ELSE B(rad, i - 1)
        RowBytes(i) == IF rad[i] <= 16 THEN 64 * rad[i] ELSE 32 * rad[i]
    IN  Pad(4 * B(rad, FinalStage(rad)), 32)
            + FoldFunctionOnSet(+, 0, [i \in DOMAIN rad |-> Pad(Rows(i) * RowBytes(i), 32)],
                                1..FinalStage(rad))

TwiddleBytesF(rad) ==
    LET Rows(i) == IF rad[i] <= 16 THEN B(rad, i - 1) \div 4 ELSE B(rad, i - 1) \div 2
    IN  FoldFunctionOnSet(+, 0, [i \in DOMAIN rad |-> Pad(Rows(i) * (rad[i] * 64), 32)],
                          1..FinalStage(rad))

PlannedF(rad) ==
    Pad(4 * (B(rad, FinalStage(rad)) \div rad[0]), 64) + Pad(TwiddleBytesF(rad), 64) + 64

PlannedJointBase(rad, windowed, spectrum) == PlannedF(rad)  \* mutated form: the base search's bytes

\* The joint searches add the window's rows and the spectrum's tables.
PlannedJoint(rad, windowed, spectrum) ==
    LET n == B(rad, FinalStage(rad))
    IN  PlannedF(rad) + (IF windowed THEN Pad(n * 16, 64) ELSE 0)
                      + (IF spectrum THEN 2 * Pad(n * 8, 64) ELSE 0)

\* Where the build's last table ends.  A spectrum multiplied on load is one
\* table of n rows of 16 bytes, on store it is two of n rows of 8.
WrittenF(rad, windowed, spectrum) ==
    LET n      == B(rad, FinalStage(rad))
        before == Pad(4 * (n \div rad[0]), 64) + (IF windowed THEN Pad(n * 16, 64) ELSE 0)
    IN  CASE spectrum = "none"  -> before + TwiddleBytesF(rad)
          [] spectrum = "load"  -> before + Pad(TwiddleBytesF(rad), 64) + n * 16
          [] spectrum = "store" -> before + Pad(TwiddleBytesF(rad), 64) + Pad(n * 8, 64) + n * 8

\* A candidate's descriptors end the arena it plans.  The scalar head's unused
\* tables push the last table into the first descriptor: that one is dead, but
\* its slack field (at byte 104) is still filled in after the tables are.
SlackField == 104

WeldTablesHold(rad) ==
    Tables(rad, [t \in DOMAIN rad |-> UsedBytes(rad, t)])
        <= DescOff(rad) + (IF StageKind(rad, 0) = "own_s2" THEN SlackField ELSE 0)

\* Doubles past the 2n of a search's scratch, and the furthest a padding lane
\* of a stage writes.
SearchSlack(n) == 2 * n + 512

PaddingReach(rad, t) ==
    CASE StageKind(rad, t) = "n1_odd"    -> 2 * (rad[t] - 1) * Before(rad, t) + 2
      [] StageKind(rad, t) = "n1_contig" -> 2 * rad[0]
      [] OTHER -> 0
=============================================================================
