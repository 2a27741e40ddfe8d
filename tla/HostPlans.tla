------------------------------ MODULE HostPlans ------------------------------
(***************************************************************************)
(* The create entries and fft_plan_destroy of src/src/host/plan_cache.c    *)
(* seen from one call: what it allocates in which order, what it gives     *)
(* back when a later step fails or another thread has published the same   *)
(* plan first, and how a joint search (src/src/jit/fft_jit.cpp,            *)
(* joint_conv_create and joint_batch_create) hands its choice over: in     *)
(* statistics that are one global record per search.  PlanCache has the    *)
(* sharing of published plans.                                             *)
(*                                                                         *)
(* A create call is its list of steps.  A "get" step allocates; when it    *)
(* fails it frees undo and the call returns NULL, when it succeeds it      *)
(* frees drop.  The other steps are the search's and the hand-over's.      *)
(***************************************************************************)
EXTENDS HostExec

CONSTANTS
    Sessions,
    Requests,     \* [kind, n, nh, b, variant]
    LegacyMax,    \* 8: batches of such short blocks are not searched for
    FusedMin,     \* 32: shorter convolutions have no fused kernel
    OneSearch     \* the callers run one joint search at a time

MaxInt == 2147483647

Ints == 1..MaxInt      \* lengths and counts are positive ints

ASSUME RequestsAssumption ==
    \A r \in Requests : /\ r.kind \in HostKinds
                        /\ r.n \in Ints /\ r.b \in Ints
                        /\ r.nh \in 1..r.n
                        /\ r.kind # "batch" => r.b = 1      \* the others take one block

VARIABLES
    stats,    \* per joint search: radices (their product), place, form
    phase,    \* "idle", "busy": in the call, or "ready": it returned a plan
    at,       \* the call's next step
    req,      \* the call's request
    held,     \* what the call, then its plan, has allocated
    found,    \* what the call's own search chose
    plan      \* the plan under construction, and the one returned

vars == <<stats, phase, at, req, held, found, plan>>
-----------------------------------------------------------------------------
Get(what, undo)          == [act |-> "get", get |-> what, undo |-> undo, drop |-> {}]
GetThen(what, undo, drop) == [act |-> "get", get |-> what, undo |-> undo, drop |-> drop]
Do(act)                  == [act |-> act, get |-> {}, undo |-> {}, drop |-> {}]
Publish(undo)            == [act |-> "publish", get |-> {}, undo |-> undo, drop |-> {}]

JointSteps == <<Do("search"), Do("found"), Do("build"), Do("read")>>

BatchSteps(r) ==
    (IF r.n <= LegacyMax THEN <<Do("legacy"), Do("read")>> ELSE JointSteps)
        \o <<Do("window"), Get({"plan"}, {"G2", "jit"}), Publish({"G2", "jit", "plan"})>>

ConvStepsKeepH(r) ==         \* mutated form: the loser of a publication race keeps its spectrum
    <<Get({"jit"}, {}), Get({"scratch"}, {"jit"}),
      GetThen({"H"}, {"scratch", "jit"}, {"scratch"})>>
        \o (IF r.n >= FusedMin THEN JointSteps ELSE <<>>)
        \o <<Get({"plan"}, {"H", "jit"}), Publish({"jit", "plan"})>>

\* fp32 convolutions: a forward kernel makes the spectrum and is then replaced
\* by the searched one.
ConvSteps(r) ==
    <<Get({"jit"}, {}), Get({"scratch"}, {"jit"}),
      GetThen({"H"}, {"scratch", "jit"}, {"scratch"})>>
        \o (IF r.n >= FusedMin THEN JointSteps ELSE <<>>)
        \o <<Get({"plan"}, {"H", "jit"}), Publish({"H", "jit", "plan"})>>

\* Overlap-save plans are built like cyclic ones.
LinearSteps(r) == ConvSteps(r)

\* fp64 convolution, by route.
Conv64Steps(r) ==
    LET built == {"jit2", "jit", "h64", "hPad"}
        kernel == CASE r.variant = "weld" -> <<Get({"jit"}, {})>>
                    [] r.variant = "tiny" -> <<>>
                    [] r.variant \notin {"weld", "tiny"} ->
                         <<Get({"hPad"}, {}), Get({"jit"}, {"hPad"})>>
        extra  == CASE r.variant = "corr" ->
                         <<Get({"h2"}, {"jit", "hPad"}),
                           GetThen({"jit2"}, {"h2", "jit2", "jit", "hPad"}, {"h2"})>>
                    [] r.variant \in {"tailcorr", "tiny"} -> <<Get({"h64"}, {"jit", "hPad"})>>
                    [] r.variant \notin {"corr", "tailcorr", "tiny"} -> <<>>
        padded == IF r.variant \in {"pad", "corr", "tailcorr", "ola"}
                  THEN <<Get({"buf64"}, built)>> ELSE <<>>
        second == IF r.variant \in {"corr", "tailcorr", "ola"}
                  THEN <<Get({"buf2"}, built \cup {"buf64"})>> ELSE <<>>
    IN  kernel \o extra \o padded \o second
            \o <<GetThen({}, {}, {"hPad"}),
                 Get({"plan"}, {"buf2", "buf64", "jit2", "jit", "h64"}),
                 Publish({"buf2", "buf64", "jit2", "jit", "h64", "plan"})>>

Linear64Steps(r) ==
    (IF r.variant = "tiny" THEN <<Get({"h64"}, {})>>
     ELSE <<Get({"hPad"}, {}), GetThen({"jit"}, {"hPad"}, {"hPad"})>>)
        \o <<Get({"tail"}, {"jit", "h64"}), Get({"plan"}, {"tail", "jit", "h64"}),
             Publish({"tail", "h64", "jit", "plan"})>>

\* Dispatch plans are not shared.
DispatchSteps(r) ==
    <<Get({"plan"}, {})>>
        \o (IF r.variant = "direct" THEN <<Get({"h_copy"}, {"plan"})>>
            ELSE <<Get({"sub"}, {"plan"}),
                   Get({"work", "blk"}, {"sub", "work", "blk", "plan"})>>)
        \o <<Do("return")>>

\* A plan of one kernel, or of none.
OwnedBy(own) == <<Get(own, {}), Get({"plan"}, {"jit", "adapt"}), Publish({"jit", "adapt", "plan"})>>

\* fp32, outside the kernels' sizes with the adapter.
PlainSteps(r) == OwnedBy(IF r.variant = "adapt" THEN {"adapt"} ELSE {"jit"})

\* fp64: the host does the sums of a tiny or prime length itself.
Plain64Steps(r) == OwnedBy(IF r.variant = "floor" THEN {} ELSE {"jit"})

Inverse64Steps(r) == OwnedBy(IF r.variant = "floor" THEN {} ELSE {"jit"})

Steps(r) ==
    CASE r.kind = "batch" -> BatchSteps(r)
      [] r.kind = "conv" -> ConvSteps(r)
      [] r.kind = "linear" -> LinearSteps(r)
      [] r.kind = "conv64" -> Conv64Steps(r)
      [] r.kind = "lin64" -> Linear64Steps(r)
      [] r.kind = "dispatch" -> DispatchSteps(r)
      [] r.kind = "fp64" -> Plain64Steps(r)
      [] r.kind = "inv64" -> Inverse64Steps(r)
      [] r.kind \in {"forward", "gauss", "inverse"} -> PlainSteps(r)

\* What fft_plan_destroy frees.
Destroyed(kind) ==
    {"H", "G2", "buf64", "buf2", "h64", "tail", "jit2", "jit", "adapt", "plan"}
        \cup (IF kind = "dispatch" THEN {"sub", "h_copy", "work", "blk"} ELSE {})
-----------------------------------------------------------------------------
\* The kernel each kind gets without a joint search.
Kernel(n, ops) == [n |-> n, ops |-> ops, single |-> FALSE, contig |-> FALSE]

\* Of the fp64 inverses only the short power-of-two ones run a forward kernel.
FusedInverse(r) == r.kind = "inv64" /\ (r.n >= FusedMin \/ r.variant = "anyn")

PlainKernel(r) ==
    CASE r.kind = "gauss" -> Kernel(r.n, <<"W", "F">>)
      [] FusedInverse(r) -> Kernel(r.n, <<"C", "F", "S">>)
      [] r.kind \in {"conv64", "lin64", "dispatch"} -> Kernel(r.n, <<"Y">>)
      [] OTHER -> Kernel(r.n, <<"F">>)

Draft(r) == [kind |-> r.kind, n |-> r.n, nh |-> r.nh, b |-> r.b, variant |-> r.variant,
             fused |-> FusedInverse(r),
             place |-> "store", form |-> "single", kernel |-> PlainKernel(r)]

Search(r) == IF r.kind = "batch" THEN "batch" ELSE "conv"

NoStats == [n |-> 0, place |-> "store", form |-> "single"]    \* zeroed

Blank == [kind |-> "none"]

Winners(r) ==
    IF r.kind = "batch"
    THEN {<<"load", "single">>, <<"load", "slim">>, <<"load", "loop">>,
          <<"standalone", "single">>, <<"standalone", "loop">>,
          <<"presweep", "slim">>, <<"presweep", "loop">>}
    ELSE {<<"store", "single">>, <<"load", "single">>, <<"standalone", "single">>}

\* The final build takes everything from the statistics but the length of the
\* tables.
SearchedKernel(kind, st) ==
    IF kind = "batch"
    THEN [n |-> st.n, ops |-> IF st.place = "load" THEN <<"W", "F">> ELSE <<"F">>,
          single |-> st.form \in {"single", "slim"}, contig |-> st.form = "slim"]
    ELSE Kernel(st.n, IF st.place = "standalone" THEN <<"F">> ELSE <<"F", "H", "C", "F", "S">>)
-----------------------------------------------------------------------------
Init ==
    /\ stats = [q \in {"conv", "batch"} |-> NoStats]
    /\ phase = [s \in Sessions |-> "idle"]
    /\ at = [s \in Sessions |-> 1]
    /\ req = [s \in Sessions |-> Blank]
    /\ held = [s \in Sessions |-> {}]
    /\ found = [s \in Sessions |-> Blank]
    /\ plan = [s \in Sessions |-> Blank]

Busy(s) == phase[s] = "busy"

Step(s) == Steps(req[s])[at[s]]

Move(s, k) == at' = [at EXCEPT ![s] = @ + k] /\ UNCHANGED phase

\* The call returns without a plan of its own, having got some more and then
\* freed undo.
GiveBack(s, got, undo) ==
    /\ phase' = [phase EXCEPT ![s] = "idle"]
    /\ at'    = [at EXCEPT ![s] = 1]
    /\ held'  = [held EXCEPT ![s] = (@ \cup got) \ undo]
    /\ req'   = [req EXCEPT ![s] = Blank]
    /\ plan'  = [plan EXCEPT ![s] = Blank]
    /\ found' = [found EXCEPT ![s] = Blank]

Return(s, undo) == GiveBack(s, {}, undo)

Create(s, r) ==
    /\ phase[s] = "idle"
    /\ phase' = [phase EXCEPT ![s] = "busy"]
    /\ req'  = [req EXCEPT ![s] = r]
    /\ plan' = [plan EXCEPT ![s] = Draft(r)]
    /\ UNCHANGED <<stats, at, held, found>>

Allocate(s) ==
    /\ Busy(s) /\ Step(s).act = "get"
    /\ held' = [held EXCEPT ![s] = (@ \cup Step(s).get) \ Step(s).drop]
    /\ Move(s, 1)
    /\ UNCHANGED <<stats, req, found, plan>>

\* Any part of what the step allocates may be refused.
AllocateFails(s) ==
    /\ Busy(s) /\ Step(s).act = "get"
    /\ \E got \in SUBSET Step(s).get :
           /\ got # Step(s).get
           /\ GiveBack(s, got, Step(s).undo)
    /\ UNCHANGED stats

\* A joint search starts by clearing the record of its last run.
StartSearch(s) ==
    /\ Busy(s) /\ Step(s).act = "search"
    /\ OneSearch => \A q \in Sessions : Busy(q) => Step(q).act \notin {"found", "build", "read"}
    /\ stats' = [stats EXCEPT ![Search(req[s])] = NoStats]
    /\ Move(s, 1)
    /\ UNCHANGED <<req, held, found, plan>>

\* A short batch has a fixed kernel, and a record of it.
FixedKernel(s) ==
    /\ Busy(s) /\ Step(s).act = "legacy"
    /\ OneSearch => \A q \in Sessions : Busy(q) => Step(q).act \notin {"found", "build", "read"}
    /\ stats' = [stats EXCEPT !.batch = [n |-> 0, place |-> "load", form |-> "loop"]]
    /\ found' = [found EXCEPT ![s] = [place |-> "load", form |-> "loop"]]
    /\ plan'  = [plan EXCEPT ![s].kernel = Kernel(req[s].n, <<"W", "F">>)]
    /\ held'  = [held EXCEPT ![s] = @ \cup {"jit"}]
    /\ Move(s, 1)
    /\ UNCHANGED req

\* The search ends with a winner and records it.
EndSearch(s) ==
    /\ Busy(s) /\ Step(s).act = "found"
    /\ \E w \in Winners(req[s]) :
           /\ stats' = [stats EXCEPT ![Search(req[s])] = [n |-> req[s].n, place |-> w[1], form |-> w[2]]]
           /\ found' = [found EXCEPT ![s] = [place |-> w[1], form |-> w[2]]]
    /\ Move(s, 1)
    /\ UNCHANGED <<req, held, plan>>

\* A short block's straight-line kernel wins: there is nothing left to build.
LegacyWins(s) ==
    /\ Busy(s) /\ Step(s).act = "found" /\ req[s].kind = "batch"
    /\ stats' = [stats EXCEPT !.batch = [n |-> 0, place |-> "load", form |-> "loop"]]
    /\ found' = [found EXCEPT ![s] = [place |-> "load", form |-> "loop"]]
    /\ plan'  = [plan EXCEPT ![s].kernel = Kernel(req[s].n, <<"W", "F">>)]
    /\ held'  = [held EXCEPT ![s] = @ \cup {"jit"}]
    /\ Move(s, 2)
    /\ UNCHANGED req

Build(s) ==
    /\ Busy(s) /\ Step(s).act = "build"
    /\ plan' = [plan EXCEPT ![s].kernel = SearchedKernel(req[s].kind, stats[Search(req[s])])]
    /\ held' = [held EXCEPT ![s] = @ \cup {"jit"}]
    /\ Move(s, 1)
    /\ UNCHANGED <<stats, req, found>>

\* No memory, no candidate or a throwing build: a convolution goes on with its
\* forward kernel, a batch has none.
SearchFails(s) ==
    /\ Busy(s) /\ Step(s).act \in {"legacy", "found", "build"}
    /\ IF req[s].kind = "batch" THEN Return(s, {})
       ELSE /\ Move(s, IF Step(s).act = "found" THEN 3 ELSE 2)
            /\ UNCHANGED <<req, held, found, plan>>
    /\ UNCHANGED stats

\* The host looks the winner up.  For a convolution only whether its kernel is
\* fused matters.
ReadPlace(s) ==
    /\ Busy(s) /\ Step(s).act = "read"
    /\ LET st == stats[Search(req[s])]
       IN  plan' = IF req[s].kind = "batch"
                   THEN [plan EXCEPT ![s].place = st.place, ![s].form = st.form]
                   ELSE [plan EXCEPT ![s].fused = (st.place # "standalone")]
    /\ Move(s, 1)
    /\ UNCHANGED <<stats, req, held, found>>

\* A batch whose kernel takes no window gets the window's samples, twice each;
\* the table they are made from is freed.
Window(s) ==
    /\ Busy(s) /\ Step(s).act = "window"
    /\ \/ /\ plan[s].place \in {"standalone", "presweep"} => held' = [held EXCEPT ![s] = @ \cup {"G2"}]
          /\ plan[s].place \notin {"standalone", "presweep"} => held' = held
          /\ Move(s, 1)
          /\ UNCHANGED <<req, found, plan>>
       \/ /\ plan[s].place \in {"standalone", "presweep"}
          /\ Return(s, {"jit"})
    /\ UNCHANGED stats

\* The plan goes on its list, or another thread's equal plan is returned.
Finish(s) ==
    /\ Busy(s) /\ Step(s).act \in {"publish", "return"}
    /\ \/ /\ phase' = [phase EXCEPT ![s] = "ready"]
          /\ UNCHANGED <<at, req, held, found, plan>>
       \/ /\ Step(s).act = "publish"
          /\ Return(s, Step(s).undo)
    /\ UNCHANGED stats

\* The last reference is gone.
Destroy(s) ==
    /\ phase[s] = "ready"
    /\ Return(s, Destroyed(req[s].kind))
    /\ UNCHANGED stats

Next ==
    \E s \in Sessions :
        \/ \E r \in Requests : Create(s, r)
        \/ Allocate(s) \/ AllocateFails(s)
        \/ StartSearch(s) \/ FixedKernel(s) \/ EndSearch(s) \/ LegacyWins(s)
        \/ Build(s) \/ SearchFails(s) \/ ReadPlace(s) \/ Window(s)
        \/ Finish(s) \/ Destroy(s)

Spec == Init /\ [][Next]_vars
-----------------------------------------------------------------------------
\* Why nothing is left behind.  A ladder is a list of steps: of Rungs, which
\* allocate and free Things.
Things ==
    {"plan", "jit", "jit2", "adapt", "scratch", "H", "G2", "hPad", "h64", "h2",
     "buf64", "buf2", "tail", "sub", "h_copy", "work", "blk"}

Rungs ==
    {st \in [act : {"get", "search", "legacy", "found", "build", "read", "window",
                    "publish", "return"},
             get : SUBSET Things, undo : SUBSET Things, drop : SUBSET Things] :
        st.act # "get" => st.get = {} /\ st.drop = {}}

\* What a step adds to what the call holds, when it succeeds.
Gains(st) ==
    CASE st.act \in {"legacy", "build"} -> {"jit"}
      [] st.act = "window" -> {"G2"}
      [] st.act \notin {"legacy", "build", "window"} -> st.get

\* What a call that entered ladder s with A may hold at its k-th step: what it
\* entered with or gained since, unless a step dropped it.
MayHold(A, s, k) ==
    {x \in A : \A j \in 1..(k - 1) : x \notin s[j].drop}
        \cup UNION {{x \in Gains(s[i]) : \A j \in i..(k - 1) : x \notin s[j].drop} : i \in 1..(k - 1)}

\* A call of this kind that holds own may return from step st, in each of the
\* ways it does, and nothing is left behind.
GivesAllBack(st, own, kind) ==
    /\ st.act = "get" =>
           \A got \in SUBSET st.get : got # st.get => own \cup got \subseteq st.undo
    /\ st.act = "publish" => own \subseteq st.undo
    /\ st.act = "window" => own \subseteq {"jit"}
    /\ st.act \in {"legacy", "found", "build"} /\ kind = "batch" => own = {}
    /\ st.act \in {"publish", "return"} => own \subseteq Destroyed(kind)

\* The steps a search can skip are those of its own build.
SkipsStayInside(s, k, last, kind) ==
    /\ s[k].act \notin {"publish", "return"} => k < last
    /\ s[k].act = "legacy" => kind = "batch"
    /\ s[k].act = "found" => k + 3 <= last /\ s[k + 1].act = "build" /\ s[k + 2].act = "read"
    /\ s[k].act = "build" => k + 2 <= last /\ s[k + 1].act = "read"

Sound(A, s, last, kind) ==
    \A k \in DOMAIN s :
        /\ GivesAllBack(s[k], MayHold(A, s, k), kind)
        /\ SkipsStayInside(s, k, last, kind)

\* The variables are functions of the sessions.
Shape ==
    /\ phase \in [Sessions -> {"idle", "busy", "ready"}]
    /\ at = [s \in Sessions |-> at[s]]
    /\ req = [s \in Sessions |-> req[s]]
    /\ held = [s \in Sessions |-> held[s]]

\* A plan is of its request's kind and size to the end.
IsFor(p, r) ==
    /\ DOMAIN p = DOMAIN Draft(r)
    /\ \A field \in {"kind", "n", "nh", "b", "variant"} : p[field] = r[field]

OfItsKind(s) == phase[s] # "idle" => req[s] \in Requests /\ IsFor(plan[s], req[s])

PShape == Shape /\ plan = [s \in Sessions |-> plan[s]]

PInv == PShape /\ \A s \in Sessions : OfItsKind(s)

\* When callers run one search at a time, the record of the last search is the
\* one of the batch call that is about to read it.
Searching(s) ==
    Busy(s) /\ req[s].kind = "batch" /\ Step(s).act \in {"found", "build", "read"}

\* The search's result has been read.
Read(s) == phase[s] = "ready" \/ (Busy(s) /\ Step(s).act \in {"window", "get", "publish"})

Records(s) ==
    req[s].kind = "batch" =>
        /\ Busy(s) /\ Step(s).act \in {"build", "read"} =>
               stats.batch.place = found[s].place /\ stats.batch.form = found[s].form
        /\ Read(s) => plan[s].place = found[s].place /\ plan[s].form = found[s].form

RInv ==
    /\ stats = [q \in {"conv", "batch"} |-> stats[q]]
    /\ found = [s \in Sessions |-> found[s]]
    /\ \A s, q \in Sessions : Searching(s) /\ Searching(q) => s = q
    /\ \A s \in Sessions : Records(s)

\* The kinds with a joint search, and a call between the end of its search and
\* its look at the record.
Searched == {"batch", "conv", "linear"}

Hunting(s) ==
    Busy(s) /\ req[s].kind \in Searched /\ Step(s).act \in {"found", "build", "read"}

\* The kernel that a search for r builds when w wins.
KernelOf(r, w) == SearchedKernel(r.kind, [n |-> r.n, place |-> w[1], form |-> w[2]])

\* What a plan does by itself is what the host believes it does: the kernel is
\* of the plan's own length, and fused or windowed exactly when the host leaves
\* that part to it.
Fits(p, r) ==
    CASE r.kind = "batch" ->
            \E w \in Winners(r) :
                p.place = w[1] /\ p.form = w[2] /\ p.kernel = KernelOf(r, w)
      [] r.kind \in {"conv", "linear"} ->
            /\ p.fused \in BOOLEAN
            /\ p.kernel = KernelOf(r, <<IF p.fused THEN "store" ELSE "standalone", "single">>)
      [] r.kind \notin Searched -> p = Draft(r)

\* Until the call has looked the winner up, the record is the one of its own
\* search, and its kernel the one that record describes.
Fitted(s) ==
    LET r  == req[s]
        st == stats[Search(r)]
        w  == <<st.place, st.form>>
    IN  phase[s] # "idle" =>
            /\ Hunting(s) /\ Step(s).act = "build" => st.n = r.n /\ w \in Winners(r)
            /\ Hunting(s) /\ Step(s).act = "read" =>
                   w \in Winners(r) /\ plan[s].kernel = KernelOf(r, w)
            /\ IF r.kind = "batch" THEN Read(s) => Fits(plan[s], r)
               ELSE ~(Hunting(s) /\ Step(s).act = "read") => Fits(plan[s], r)

FInv ==
    /\ stats = [q \in {"conv", "batch"} |-> stats[q]]
    /\ \A s, q \in Sessions : Hunting(s) /\ Hunting(q) => s = q
    /\ \A s \in Sessions : Fitted(s)

\* Between its steps a call holds at most what the steps so far have gained.
HoldsLittle(s) ==
    /\ phase[s] = "idle" => at[s] = 1 /\ held[s] = {}
    /\ phase[s] # "idle" => req[s] \in Requests
    /\ phase[s] = "busy" => /\ at[s] \in DOMAIN Steps(req[s])
                            /\ held[s] \subseteq MayHold({}, Steps(req[s]), at[s])
    /\ phase[s] = "ready" => held[s] \subseteq Destroyed(req[s].kind)

IInv == Shape /\ \A s \in Sessions : HoldsLittle(s)
-----------------------------------------------------------------------------
\* The caller's buffer: blocks of n samples every stride, and what lies
\* between and behind them.
Longest == CHOOSE n \in {r.n : r \in Requests} : \A r \in Requests : r.n <= n

Fresh(p, stride) ==
    [a \in 0..(p.b * stride + Longest) |->
        [pos |-> IF a < p.b * stride /\ a % stride < p.n THEN a % stride ELSE 0 - 1,
         ops |-> <<>>]]

Strides(p) == IF p.kind = "batch" THEN {p.n, p.n + 1} ELSE {p.n}

Promised(p, stride, a) ==
    LET v == Fresh(p, stride)[a]
    IN  IF v.pos < 0 THEN v
        ELSE [pos |-> IF p.kind = "linear" THEN v.pos + p.nh - 1 ELSE v.pos,
              ops |-> Promise(p.kind)]

\* Through its own entry a plan does what its kind promises, once, to every
\* sample of every block, and nothing to what lies between the blocks, whatever
\* the search chose and wherever it and the allocations failed ("The public
\* contract is unchanged for every placement", plan_cache.c:1725).  The end of
\* an overlap-save block is the only part left open.
OwnEntryKeepsPromise ==
    \A s \in Sessions : phase[s] = "ready" =>
        LET p == plan[s]
        IN  \A stride \in Strides(p) :
                LET out == Execute(p, OwnEntry(p.kind), Fresh(p, stride), stride)
                IN  \A a \in DOMAIN out :
                        \/ p.kind = "linear" /\ a \in (p.n - p.nh + 1)..(p.n - 1)
                        \/ out[a] = Promised(p, stride, a)

\* Through any other entry, and with blocks that overlap, a plan leaves the
\* buffer alone.
OtherEntriesDoNothing ==
    \A s \in Sessions : phase[s] = "ready" =>
        LET p == plan[s]
        IN  \A stride \in {p.n - 1, p.n} \ {0}, entry \in Entries :
                (entry # OwnEntry(p.kind) \/ (p.kind = "batch" /\ stride < p.n)) =>
                    Execute(p, entry, Fresh(p, stride), stride) = Fresh(p, stride)

\* A create call that returned no plan of its own, and a destroyed plan, hold
\* nothing: every failure gives back what was allocated before it, and
\* fft_plan_destroy knows everything a plan of any kind and route can own.
NothingLeftBehind == \A s \in Sessions : phase[s] = "idle" => held[s] = {}

\* A plan runs what its own search found: the statistics of the last search
\* decide nothing (fft_jit.h:302-303, "diagnostics / evidence only").
StatsOnlyDiagnose ==
    \A s \in Sessions :
        (phase[s] = "ready" /\ found[s] # Blank /\ plan[s].kind = "batch") =>
            /\ plan[s].place = found[s].place
            /\ plan[s].form = found[s].form
=============================================================================
