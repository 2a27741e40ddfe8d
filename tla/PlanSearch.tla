------------------------------ MODULE PlanSearch ------------------------------
(***************************************************************************)
(* How a create entry of src/src/jit/fft_jit.cpp settles a kernel's        *)
(* radices, tile budget and, where it has them, the placement of its       *)
(* fused multiply and its batch form: a pinned order, or a plan-time       *)
(* search that builds and times candidates until its time budget is        *)
(* spent, or a greedy default; and the repair of what was chosen.  Five    *)
(* searches share one shape:                                               *)
(*   fp64   fused kernels (convolution, overlap-save, inverse)             *)
(*   fp32   forward, windowed and convolution kernels                      *)
(*   conv   fp32 convolution: store, load or standalone multiply           *)
(*   batch  fp32 windowed batch: placement and batch form                  *)
(*   weld   original-size kernels                                          *)
(*                                                                         *)
(* A candidate's time is only compared with the best one so far, so        *)
(* timing it has two outcomes; `other' is a timed candidate that the       *)
(* refinement may find faster.  Every build may fail and the clock may     *)
(* pass the budget at any time.                                            *)
(***************************************************************************)
EXTENDS Candidates

CONSTANT Searches   \* records: what to search for and the pins in force

\* tile: FFT_SCHED_BLOCK.  place, form: the FFT_*PLACE and FFT_BATCH_FORM
\* pins.  windowed: the fp32 kernel multiplies a window on load.
ASSUME SearchesAssumption ==
    \A s \in Searches :
        /\ s.kind \in {"fp64", "fp32", "conv", "batch", "weld"}
        /\ s.n \in (IF s.kind = "weld" THEN MinWeld..MaxWeld
                    ELSE {2 ^ e : e \in (IF s.kind = "batch" THEN 4..15
                                         ELSE IF s.kind = "conv" THEN 5..15 ELSE 6..15)})
        /\ s.tile \in {NoTile, 0} \cup 64..32768
        /\ s.place \in {"any", "store", "load", "standalone", "presweep"}
        /\ s.form \in {"any", "single", "slim", "loop", "bare"}
        /\ s.windowed \in (IF s.kind = "fp32" THEN BOOLEAN ELSE {FALSE})
        /\ s.kind = "weld" => s.tile = NoTile

VARIABLES search,
          bare,      \* batch: the base search's own choice, an extra candidate
          phase,     \* "order", "search", "shape", "built", "null"
          turn,      \* candidate the search is at
          best,      \* fastest one so far, 0: none
          other,     \* another timed one, 0: none
          timed,     \* candidates timed, counted up to MinRefined
          late,      \* the time budget is spent
          chosen,    \* rad, tile, place, form
          from       \* where they come from: "pin", "search", "greedy"

vars == <<search, bare, phase, turn, best, other, timed, late, chosen, from>>

MinTimed == 3
MinRefined == 5
-----------------------------------------------------------------------------
(* The candidates, in the order they are tried.                            *)

Placed(seq, class) == [j \in DOMAIN seq |-> seq[j] @@ class]

Plain(seq) == Placed(seq, [place |-> "none", form |-> "none"])

BatchClasses == <<[place |-> "load", form |-> "single"], [place |-> "load", form |-> "slim"],
                  [place |-> "load", form |-> "loop"],
                  [place |-> "standalone", form |-> "single"],
                  [place |-> "standalone", form |-> "loop"],
                  [place |-> "presweep", form |-> "slim"], [place |-> "presweep", form |-> "loop"]>>

ConvClasses == <<[place |-> "store", form |-> "none"], [place |-> "load", form |-> "none"],
                 [place |-> "standalone", form |-> "none"]>>

\* The candidates of a class.  Radix 32 cannot load through a window or a
\* spectrum.
OfClass(c, lists, tile) ==
    Placed(Expanded(SelectSeq(lists, LAMBDA rad : c.place = "load" => rad[0] # 32),
                    ModesF, tile), c)

\* The classes the pins leave, each with its candidates.
Classes(all, lists, s) ==
    LET allowed == SelectSeq(all, LAMBDA c : s.place \in {"any", c.place}
                                             /\ s.form \in {"any", c.form})
    IN  FoldLeft(LAMBDA classes, c : Append(classes, OfClass(c, lists, s.tile)), <<>>, allowed)

OneByOne(classes) == FlattenSeq(classes)    \* mutated form: class after class

\* One candidate of every class in turn, skipping classes that have no more.
RoundRobin(classes) ==
    LET lens  == FoldLeft(LAMBDA acc, pool : Append(acc, Len(pool)), <<>>, classes)
        k     == Len(lens)
        From(rr, q) == ((rr + q) % k) + 1
        Take(acc, rr) ==
            LET open == {q \in Idx(k) : acc.cursor[From(rr, q)] < lens[From(rr, q)]}
                e    == From(rr, Min(open))
            IN  [cursor |-> [acc.cursor EXCEPT ![e] = @ + 1],
                 tried  |-> Append(acc.tried, classes[e][acc.cursor[e] + 1])]
    IN  FoldLeft(Take, [cursor |-> [e \in 1..k |-> 0], tried |-> <<>>],
                 [j \in 1..FoldLeft(+, 0, lens) |-> j - 1]).tried

\* The straight-line kernel of a small windowed transform.
Legacy == [rad |-> Empty, tile |-> 0, place |-> "load", form |-> "loop"]

UsesLegacy(s) ==
    s.kind = "batch" /\ s.n <= 32 /\ s.place \in {"any", "load"} /\ s.form \in {"any", "loop"}

\* The base search's winner, run after a sweep of the window, whatever the
\* placement pin says.
UsesBare(s) == s.kind = "batch" /\ s.form \in {"any", "bare"}

Base(s) ==
    CASE s.kind = "fp64" -> Base64(s.n)
      [] s.kind = "weld" -> BaseWeld(s.n)
      [] OTHER           -> BaseF(s.n, s.windowed)

Modes(kind) ==
    CASE kind = "fp64" -> Modes64
      [] kind = "weld" -> <<0>>
      [] OTHER         -> ModesF

\* The joint searches try their classes in turn, the others one variant after
\* the other.
Scheduled(s) ==
    IF s.kind \in {"conv", "batch"}
    THEN RoundRobin(Classes(IF s.kind = "conv" THEN ConvClasses ELSE BatchClasses, Base(s), s))
    ELSE Plain(Expanded(Base(s), Modes(s.kind), s.tile))

Pools == [s \in Searches |-> Scheduled(s)]

\* A batch search tries its extra candidates first.
Extras ==
    (IF UsesLegacy(search) THEN <<Legacy>> ELSE <<>>)
        \o (IF UsesBare(search)
            THEN <<[rad |-> bare.rad, tile |-> bare.tile, place |-> "presweep", form |-> "loop"]>>
            ELSE <<>>)

Pool == Extras \o Pools[search]

\* An fp32 list the leaves cannot run gives way to the greedy ones.
RepairedF(rad, n, windowed) ==
    IF ValidF(rad, windowed) THEN rad
    ELSE IF ValidF(Greedy(n, 3), FALSE) THEN Greedy(n, 3) ELSE Greedy(n, 2)

\* What the base search may hand to a batch search.
BarePlans(s) ==
    IF ~UsesBare(s) THEN {[rad |-> Empty, tile |-> 0]}
    ELSE LET found == Range(Expanded(BaseF(s.n, FALSE), ModesF, s.tile))
             tile  == IF s.tile = NoTile THEN 0 ELSE s.tile
         IN  {[rad |-> RepairedF(Greedy(s.n, 4), s.n, FALSE), tile |-> tile]}
                 \cup (IF s.n >= 64 THEN found ELSE {})
-----------------------------------------------------------------------------
(* Memory the candidates share.                                            *)

PlannedBytes(s, c) ==
    CASE s.kind = "fp64" -> Planned64(c.rad)
      [] s.kind = "fp32" -> PlannedF(c.rad)
      [] s.kind = "conv" -> PlannedJoint(c.rad, FALSE, c.place # "standalone")
      [] s.kind = "batch" -> PlannedJoint(c.rad, c.place = "load", FALSE)
      [] s.kind = "weld" -> WeldArenaBytes(c.rad)

WrittenBytes(s, c) ==
    CASE s.kind = "fp64" -> Written64(c.rad)
      [] s.kind = "fp32" -> WrittenF(c.rad, FALSE, "none")
      [] s.kind = "conv" -> WrittenF(c.rad, FALSE, IF c.place = "standalone" THEN "none" ELSE c.place)
      [] s.kind = "batch" -> WrittenF(c.rad, c.place = "load", "none")
      [] s.kind = "weld" -> WeldArenaBytes(c.rad)

\* The table arena all candidates of a search are built in.
ArenaBytes ==
    [s \in Searches |-> Max({0} \cup {PlannedBytes(s, c) : c \in Range(Pools[s])})]

Arena ==
    Max({ArenaBytes[search]}
            \cup (IF UsesBare(search)
                  THEN {PlannedBytes(search, [rad |-> bare.rad, place |-> "presweep"])} ELSE {}))
-----------------------------------------------------------------------------
(* The choice.                                                             *)

ListAlone(rad) == [rad |-> rad, tile |-> NoTile, place |-> "none", form |-> "none"]

Init ==
    /\ search \in Searches
    /\ bare \in BarePlans(search)
    /\ phase = "order"
    /\ turn = 1 /\ best = 0 /\ other = 0 /\ timed = 0 /\ late = FALSE
    /\ chosen = ListAlone(Empty)
    /\ from = "none"

Settle(c, whence) ==
    /\ chosen' = [c EXCEPT !.tile = IF @ # NoTile THEN @
                                    ELSE IF search.tile # NoTile THEN search.tile ELSE 0]
    /\ from' = whence
    /\ phase' = "shape"
    /\ UNCHANGED <<search, bare, turn, best, other, timed, late>>

GiveUp ==
    /\ phase' = "null"
    /\ UNCHANGED <<search, bare, turn, best, other, timed, late, chosen, from>>

\* FFT_SCHED_ORDER: any list with product n; smallfirst, 16first and 32first
\* are some of them.  The fp32 kernels ignore a list they cannot run.
PinOrder ==
    /\ phase = "order"
    /\ search.kind \in {"fp64", "fp32"}
    /\ \E rad \in Range(Generated(search.n)) :
           /\ search.kind = "fp32" =>
                  \/ ValidF(rad, search.windowed)
                  \/ rad \in {Greedy(search.n, 4), Reversed(Greedy(search.n, 4))}
           /\ Settle(ListAlone(rad), "pin")

\* FFT_WELD_ORDER: any list that can be built.
PinWeld ==
    /\ phase = "order"
    /\ search.kind = "weld"
    /\ \E rad \in WeldLists(search.n) : Settle(ListAlone(rad), "pin")

StartSearch ==
    /\ phase = "order"
    /\ phase' = "search"
    /\ UNCHANGED <<search, bare, turn, best, other, timed, late, chosen, from>>

\* The search is off, has no memory for its buffers, or built no candidate.
NoResult ==
    \/ phase = "order"
    \/ phase = "search" /\ turn = 1 /\ timed = 0
    \/ phase = "search" /\ turn > Len(Pool) /\ best = 0

Default(s) ==
    CASE s.kind = "fp64" -> Greedy(s.n, 5)
      [] s.kind = "fp32" -> Greedy(s.n, 4)
      [] s.kind = "weld" -> Anchor(s.n, TRUE)

Fallback ==
    /\ NoResult
    /\ search.kind \in {"fp64", "fp32", "weld"}
    /\ Default(search) # Empty
    /\ Settle(ListAlone(Default(search)), "greedy")

\* The joint searches have no default, and the weld's may not be buildable.
NoFallback ==
    /\ NoResult
    /\ \/ search.kind \in {"conv", "batch"} /\ phase = "search"
       \/ search.kind = "weld" /\ Default(search) = Empty
    /\ GiveUp

Stopped == turn > Len(Pool) \/ (best # 0 /\ timed >= MinTimed /\ late)

\* The candidate is built, run and timed; the first one is always an
\* improvement.  again: the search may time it once more at the end.
Timed(again) ==
    /\ phase = "search" /\ ~Stopped
    /\ best' \in {turn} \cup ({best} \ {0})
    /\ other' \in {other} \cup (IF again THEN {turn} ELSE {})
    /\ timed' = IF timed < MinRefined THEN timed + 1 ELSE timed
    /\ late' \in {late, TRUE}
    /\ turn' = turn + 1
    /\ UNCHANGED <<search, bare, phase, chosen, from>>

Time64   == search.kind = "fp64" /\ Timed(FALSE)
TimeWeld == search.kind = "weld" /\ Timed(FALSE)

\* Lengths whose five fastest candidates may be too close to tell apart.
MidN(n) == n \in 512..4096

TimeF    == search.kind = "fp32" /\ Timed(MidN(search.n))
TimeConv == search.kind = "conv" /\ Timed(MidN(search.n))

\* A batch search times its extra candidates first, and only once.
IsLegacy == UsesLegacy(search) /\ turn = 1
IsBare   == UsesBare(search) /\ turn = Len(Extras)

TimeLegacy == search.kind = "batch" /\ IsLegacy /\ Timed(FALSE)
TimeBare   == search.kind = "batch" /\ IsBare /\ Timed(FALSE)
TimeBatch  == search.kind = "batch" /\ ~IsLegacy /\ ~IsBare /\ Timed(TRUE)

\* Its build throws: the search goes on without it.  The legacy kernel is
\* built before the search starts.
SkipCandidate ==
    /\ phase = "search" /\ ~Stopped
    /\ ~IsLegacy
    /\ late' \in {late, TRUE}
    /\ turn' = turn + 1
    /\ UNCHANGED <<search, bare, phase, best, other, timed, chosen, from>>

Winner(i) == Settle(Pool[i], "search")

EndSearch ==
    /\ phase = "search" /\ Stopped /\ best # 0
    /\ Winner(best)

\* Five timed candidates within the noise of the timer are timed again; the
\* fastest of them wins, in a batch search only if it beats the best time.
Refine ==
    /\ phase = "search" /\ Stopped /\ best # 0
    /\ timed = MinRefined /\ other # 0
    /\ Winner(other)

RefineF     == search.kind = "fp32" /\ MidN(search.n) /\ Refine
RefineConv  == search.kind = "conv" /\ MidN(search.n) /\ Refine
RefineBatch == search.kind = "batch" /\ Refine

\* fp64: a final 32 is split, or the create entry gives up: it has room for
\* MaxStages radices.
Shape64 ==
    /\ phase = "shape" /\ search.kind = "fp64"
    /\ \/ /\ chosen.rad[FinalStage(chosen.rad)] = 32 /\ Length(chosen.rad) = MaxStages
          /\ phase' = "null"
          /\ UNCHANGED chosen
       \/ /\ chosen.rad[FinalStage(chosen.rad)] = 32 => Length(chosen.rad) < MaxStages
          /\ chosen' = [chosen EXCEPT !.rad = SplitFinal32(@)]
          /\ phase' = "built"
    /\ UNCHANGED <<search, bare, turn, best, other, timed, late, from>>

\* fp32: an order that cannot run is replaced.
ShapeF ==
    /\ phase = "shape" /\ search.kind = "fp32"
    /\ chosen' = [chosen EXCEPT !.rad = RepairedF(@, search.n, search.windowed)]
    /\ phase' = "built"
    /\ UNCHANGED <<search, bare, turn, best, other, timed, late, from>>

\* The joint searches and the weld build what they found.
ShapeAsFound ==
    /\ phase = "shape" /\ search.kind \in {"conv", "batch", "weld"}
    /\ phase' = "built"
    /\ UNCHANGED <<search, bare, turn, best, other, timed, late, chosen, from>>

Next ==
    \/ PinOrder \/ PinWeld \/ StartSearch \/ Fallback \/ NoFallback
    \/ Time64 \/ TimeF \/ TimeConv \/ TimeLegacy \/ TimeBare \/ TimeBatch \/ TimeWeld
    \/ SkipCandidate \/ EndSearch \/ RefineF \/ RefineConv \/ RefineBatch
    \/ Shape64 \/ ShapeF \/ ShapeAsFound

Spec == Init /\ [][Next]_vars
-----------------------------------------------------------------------------
\* However the list was chosen, the kernel that is built has its n points and
\* a list its leaves can run: fp64 kernels end in a stage the fused boundary
\* operation supports (the pool does hold lists that end in 32), fp32 kernels
\* have whole block quads and pairs everywhere and never load a window or a
\* spectrum through a radix-32 stage, welded kernels find a leaf per stage.
FusedShapeValid ==
    LET rad == chosen.rad
    IN  (phase = "built" /\ rad # Empty) =>
            /\ Length(rad) \in 2..MaxStages
            /\ Product(DOMAIN rad, rad) = search.n
            /\ chosen.tile \in Nat
            /\ CASE search.kind = "fp64" -> rad[FinalStage(rad)] # 32
                 [] search.kind = "weld" -> Viable(rad, search.n)
                 [] OTHER -> ValidF(rad, search.windowed \/ chosen.place = "load")

\* Only a pinned order can make a create entry give up for its shape
\* (fft_jit.cpp:12276, "unreachable via search; forced pins only").
OnlyPinsFail == (phase = "null" /\ search.kind \in {"fp64", "fp32"}) => from = "pin"

\* No candidate overruns what the candidates of its search share: the arena
\* its tables are built in, and for welded kernels the scratch its padding
\* lanes spill past.  A welded candidate's own descriptors, at the end of the
\* arena it planned, survive its tables.
ArenaHolds ==
    (phase = "search" /\ turn = 1) =>
        \A c \in {d \in Range(Pool) : d.rad # Empty} :
            /\ WrittenBytes(search, c) <= Arena
            /\ search.kind = "weld" =>
                   /\ WeldTablesHold(c.rad)
                   /\ \A t \in DOMAIN c.rad : PaddingReach(c.rad, t) <= SearchSlack(search.n)

Places(pool) == {pool[j].place : j \in DOMAIN pool}

\* A search that ran out of time has still tried every placement of a fused
\* convolution (fft_jit.cpp:10241-10244, the round robin and the best time
\* per class "keep every class reaching the timer under the budget gate").
ClassesReached ==
    (from = "search" /\ search.kind = "conv") =>
        Places(Pool) \subseteq Places(First(turn - 1, Pool))
=============================================================================
