# A verification model of megakernel-fft

TLA+ modules, TLC runs and TLAPS proofs for the library under `src/`: plans for
FFTs and convolutions that are created once, cached, shared by reference count,
executed in place, and backed by kernels a plan-time search picks and a JIT
emits. Paths below are relative to the repository (`src/README.md` is its
README, `src/src/...` its sources).

- [Inventory](#inventory): the system's parts
- [Modules](#modules): what is modelled and how it corresponds to the code
- [Runs](#runs): what TLC checks, on which bounds
- [Fairness](#fairness)
- [Proofs](#proofs): what TLAPS proves
- [Disagreements found](#disagreements-found)
- [Not modelled](#not-modelled), [Plan](#plan)

## Inventory

`src/src/host/plan_cache.c` (the host side), then `src/src/jit/fft_jit.cpp` and
`src/src/jit/weld_glue.c` (the JIT side):

| component | state | operations | interacts with |
|---|---|---|---|
| plan cache, plan_cache.c 296-640 and the end of every other create entry, 2245-2298 | six lists of plans, a reference count per plan, one mutex | create (lookup, build unlocked, lookup again, publish), `fft_plan_destroy` (drop, unlink, free) | every entry point; builds call the JIT with the lock released |
| create entries, throughout | what the call has allocated so far | staged allocations, each with what it gives back on failure; reading back what a search chose | JIT create entries; global search statistics |
| execute entries and wrappers, 1593-1668, 1983-2068, 2123-2240 | none | select by plan kind; conjugate, scale, multiply or window around a kernel call | all kernels |
| fp64 cyclic convolution, 642-1078 | route fields, two scratch buffers owned by the plan | route choice at create; execute: direct, padded, corrected, piecewise | power-of-two and welded kernels |
| convolution dispatch, 1909-1982, 2069-2121 | leg, taps, work and block buffer, a cached sub-plan | create; execute: direct sum or overlap-save blocks | the fp32 linear convolution plan |
| fp64 overlap-save, 1290-1489 | `ols_tail`, `ols_pos`, the kernel's spectrum buffer | create; execute one block; run a stream of blocks | the kernel's two entry stubs |
| fp64 kernels, fft_jit.cpp 1188-6177 | gather tables, twiddle tables, scratch, the emitted code | build; the emitted sweep in four hand-copied emitters (plain, convolution, overlap-save, inverse) | execute entries |
| fp32 kernels, 8117-10230 | the same, one table entry per block | build; transform, window, spectrum product on store or on load, batch loop | execute entries |
| fixed-shape kernels (`SmallEmitter`, `PoolEmitter`, `LutEmitter`) | registers, or the caller's array | straight-line code up to 16 points; fp32 radix-2 loops | the choice of an emitter in `fft_jit_kernel_create_ex` |
| schedule searches (fp64, fp32, joint, weld) | candidate pool, best so far, arena, two global statistics records | enumerate, rank, time under a budget, refine, fall back, repair the shape | kernel build; environment pins; create entries |
| original-size welds, 6178-8110 and weld_glue.c | ping-pong buffers with slack, tables, stage descriptors | factorise, build, run stages as emitted code or through vendored codelets | codelet registry |
| codelet registry, weld_glue.c | codelet tables, capture globals, a done flag | first-use initialisation | vendored FFTW codelets |

What is hard here, and what the properties are aimed at:

- **Interleaving.** Two create calls of one key both miss and both build; a
  create call meets a destroy call between its two critical sections; two
  searches share one statistics record.
- **State kept between calls.** Scratch buffers, the overlap tail and a freed
  plan's address outlive the call that wrote them.
- **In-place arithmetic.** The direct leg, the wrap and the tail correction read
  and overwrite one array; only one loop order is right.
- **Index boundaries.** The route table at powers of two, the last short piece
  or block, a valid prefix that ends inside a vector pair, an odd number of
  blocks, a codelet that computes a column too many.
- **Agreement of tables computed apart.** Digit reversal, twiddle tables, signs
  of twins, tile groups and final-store order must fit for every decomposition
  the search may choose, under any timing outcome and any pin.
- **Work split over two places.** A multiplication fused into a store, a load, a
  sweep of its own or the host's loop must be done exactly once, whoever chose
  the place.
- **Failure.** Every allocation and build may fail; the caller gets NULL and
  nothing stays behind.

## Modules

Host side:

| module | models | state and actions |
|---|---|---|
| `PlanStore` | the promise of `src/include/fft.h` 46-57: a session asks for a key and is granted an object that stays granted until it closes, one object per key at a time | abstract specification |
| `PlanKinds` | the ten kinds of cached plan, the flags each sets, the list each is pushed on and unlinked from, and the fields each lookup compares | constants only |
| `PlanCache` | the cache | `pc`, `req`, `plan` per session (a caller's create ... destroy bracket); `heap`, `made`, `refcount` per address; `list`. One action per critical section, and one per unlocked stretch that can fail or be observed |
| `PlanCacheProofs` | the theorems about `PlanCache`, the refinement of `PlanStore` among them | |
| `HostExec` | every execute entry over every kind of plan: the guard on the kind, and the sweeps around the kernel call (conjugate, scale, spectrum product, window, repack). A sweep's loops are recursive functions over the operations and the blocks, in the code's order | operators on a symbolic buffer |
| `HostPlans` | every create entry, one allocation per step, with what each failure and a lost publication give back; the joint searches' hand-over through the statistics record; what destroy frees | `stats`; per call `phase`, `at`, `req`, `held`, `found`, `plan` |
| `ConvMath` | reference convolutions, sums and products, `NextPow2` | pure |
| `ConvRoute` | the fields `fft_plan_create_conv_fp64` computes for a length under each setting of two environment variables, as a function of the ceiling and the number of direct taps | pure (`Answers`) |
| `Conv64` | `fft_execute_conv_fp64` on such a route | `io`, `buf`, `buf2`; one action per loop, the in-place correction one action per element, one action per piece |
| `ConvDispatch` | both legs of the dispatch plan | `io`, `work`, `blk`; one action per output sample (direct), per block step (overlap-save) |
| `OlsStream` | fp64 overlap-save as its callers use it | `tail`, `pos`, `lost`, `io`, `y`; `Feed`, `Execute`, `Take`, `Stream`, and `StreamUnstaged` for a stream call that cannot allocate its staging block |

JIT side:

| module | models | state and actions |
|---|---|---|
| `ModComplex` | complex arithmetic in a quadratic field GF(p²) whose norm-1 group has exact roots of unity, with the products in their FMA and non-FMA forms | pure |
| `Leaves` | the power-of-two leaves every emitter builds its stages from | pure |
| `SchedPlan` | decompositions, block sizes, tile groups, the repair of a final radix 32 | pure |
| `SchedFFT` | the kernels with a schedule: four fp64 emitters and the fp32 one | `kernel`, `scratch`, `spec`, `io`, `y` and the position in the schedule; `OneLeaf`, `Gather`, `Sweep`, `Final` |
| `RadixTwo` | the kernels without one, and which emitter a length and kind gets | extends `SchedFFT` and shares its variables; one step per butterfly level |
| `JitKernels` | every power-of-two kernel the JIT builds, whichever emitter wrote it, and what a call promises | `Next == ScheduledStep \/ FixedStep` |
| `WeldPlan` | which leaf a stage of an original-size kernel gets, which lists can be built, the slack padding lanes need | pure |
| `WeldFFT` | original-size kernels: forward, inverse, convolution | `io`, `scratch`, `scratch2`, `pc`. The build lays out a line of sweeps; one action per sort of sweep |
| `Candidates` | the candidate pools in the order they are tried, the bytes planned for a candidate and the bytes its build writes | pure |
| `PlanSearch` | the five searches (fp64, fp32, fp32 convolution, batch, weld): pins, timing loop, budget, refinement, fallback, repair | pool position, best, number timed, whether the budget is over, what is chosen |

`ConvMathProofs`, `Conv64Proofs`, `ConvDispatchProofs`, `OlsStreamProofs`,
`HostPlansProofs`, `JitKernelsProofs` and `WeldFFTProofs` hold the theorems about the
modules they are named for, `Conv64Proofs` also those about `ConvRoute`; the
inductive invariants (`IInv`, `PInv`, `RInv`, `FInv`, `KInv`, `WInv`) stand at the end
of the modules themselves.

`MCPlanCache`, `MCHostPlans`, `MCConv64`, `MCJitKernels`, `MCPlanSearch` and
`MCWeldFFT` give TLC its requests, inputs and symmetry. `MCConv64` also puts the
route table at its real ceiling next to the execution at a scaled one.

`PlanCache` refines `PlanStore`. `HostPlans` composes the create entries with
the searches' result and with `HostExec`; `Conv64` asks `ConvRoute`
at its own ceiling; kernels and searches share `SchedPlan` and `WeldPlan`, so what a search
may choose and what a kernel is checked for cannot drift apart.

How data is abstracted:

- *Samples.* Every operation on samples in these modules is linear (bilinear in
  input and taps), so impulses decide it: `ConvDispatch`, `OlsStream` and
  `Conv64` feed integer impulses at every position. Uninitialised or stale
  memory holds a value no right result has (`Garbage`, `Stale`).
- *Spectra.* A kernel called by `Conv64`, `OlsStream` or `ConvDispatch` is what
  it promises (a cyclic convolution). `SchedFFT`, `RadixTwo` and `WeldFFT` open
  the kernels up: their arithmetic is exact, so equality with the defining sum is
  decidable and a wrong exponent, sign, index or order shows as inequality.
  Rounding is outside the model.
- *What was done to a sample.* In `HostExec` a sample is its position and the
  list of operations done to it; that is what a promise of a kind ("windowed,
  then transformed, once") tells apart.
- *Plans.* A plan is an address; addresses are reused after `free`. What it was
  built from is the ghost `made`, which no guard reads except through the fields
  the code compares. In `PlanCache` the members a plan owns are built and freed
  with it; `HostPlans` has them one by one, and leaves the sharing of published
  plans to `PlanCache`.
- *Timing.* A measured time is any time: a search may prefer any candidate it
  timed, and the budget may end at any poll. The order in which candidates are
  tried is the code's.

In `PlanCache` `ExternalLock` is an assumption about callers: `TRUE` means that a
create and a destroy call of one cache key do not overlap in time. (Create calls
may overlap with each other, and destroy calls with each other, whatever the
key.) It is exactly what the code needs and does not enforce; the run
`resurrect` shows what happens without it. In `HostPlans` `OneSearch` is the same
sort of assumption, that joint searches do not overlap; the run `host_race`
shows what happens without it.

Definitions marked "mutated form" are not part of the model. Each is a plausible
bug in one definition, kept beside it to show that the properties notice it.

## Runs

Every property of a passing run is violated when a definition is replaced by its
mutated form.

| run | module, bounds | checks |
|---|---|---|
| `cache` | `MCPlanCache`: 2 sessions, 2 reusable addresses, all ten cached kinds, two values of every second key field; fair | `TypeOK`, `HandlesLive`, `RefcountExact`, `OnePlanPerKey`, `EqualRequestsShare`, `NoLeak`, `ListedLive`, `HandleForRequest`, `ReclaimedUnreferenced`, `CreateReturns`, `UnreferencedFreed`, and `ImplementsStore`: the refinement of `PlanStore`. Two sessions give a lost publication race, a create or destroy call beside another key's on the same list, and a reused address; all but the liveness properties are proved for any number of sessions |
| `host` | `MCHostPlans`: 2 calls interleaved, 28 requests: every kind in every variant and on both sides of the two length thresholds, which are scaled down (8 to 2 for batches, 32 to 4 for convolutions); batches of 3 blocks, with and without gaps | `OwnEntryKeepsPromise`, `OtherEntriesDoNothing`, `NothingLeftBehind`, with every allocation failing and every choice a search may make |
| `dispatch` | `ConvDispatch`: direct leg up to 2 taps, inputs up to 7, taps up to 4, all impulses, calls repeat | `OneCallIsLinearConv`, `DirectInPlaceSafe`, `OlsPrefixWelded`, `ExecuteReturns`. The code's threshold is larger; 2 puts both legs, and overlap-save calls of one and of two blocks with a short last one, within reach |
| `windows` | `OlsStream`: N in {1, 2, 4, 8}, inputs up to 9, taps up to 4 | `ConcatIsLinearConv`, `StreamComplete`, `TailIsNextHead` for a caller that feeds overlapping windows, per block and through the stream entry; N = 1, 2 are the lengths without a kernel, where a stream call may fail to stage its windows: those are lost (the entry returns nothing, the caller goes on), and no other |
| `conv64` | `MCConv64`: the route table for every length at the real ceiling 32768; execution at ceiling 16, every length up to 16, all impulses | `WeldsBuildable`, `NoAliasing`, `CorrectionFits`, `RouteTableAsDocumented` of the real table; `OneCallIsCyclicConv`, `CorrInPlaceSafe`, `OlaPrefixSummed` of the execution. The scaled ceiling keeps all routes: 9..12 are corrected with 3 or fewer and with more tail samples, 13..15 go in pieces |
| `jit` | `MCJitKernels`: 1 to 64 points, every list of radices, tile budgets 0, 4, 8, 16, every kind in both precisions, FMA and not, batches with and without gaps; field GF(127²) with a 128th root of unity | `BlocksAreTransforms`, `CallReturnsItsKind`, `DiscardZoneUntouched`, `GroupsStayResident`. Lists of 1 to 6 stages, all radices up to 32, groups of 2 to 4 stages, prefixes that end at an even and at an odd position, two stream blocks, two batch blocks; the loop kernels' constants move from the code to a table at 32 points (256 in the code) |
| `search` | `MCPlanSearch`: fp64 at 4096 points, fp32 at 64, 512 and 1024, convolutions at 64, 512 and 1024, batches of 16, 32 and 64, welds of 18, 60, 90 and 225; pinned orders, tiles, placements and forms | `FusedShapeValid`, `OnlyPinsFail`, `ArenaHolds`, `ClassesReached`, for every timing outcome, every end of the budget and every throwing build. The lengths include the first that is refined (512), the shortest batches, and welds with a scalar head, with padding lanes and with every sort of stage |
| `weld` | `MCWeldFFT`: lengths 6, 9, 12, 15, 28, 30, 45, 60, 84, 96, every list of factors that can be built; field GF(10079²) with a 10080th root of unity | `WeldBlocksAreTransforms`, `WeldReturnsItsKind`, `PaddingStaysInSlack`. Lists of 2 to 6 stages with own leaves, codelets with and without twiddles, even and odd column counts, a codelet or an own leaf at either end |

Deadlock is checked where the system always has a next call. It is off in
`search` (one create call), `jit` and `weld` (one execute call), and `windows` and
`blocks` (a caller stops when its finite input is used up).

Four runs (`resurrect`, `kernels`, `blocks`, `host_race`) are expected to fail;
see [Disagreements found](#disagreements-found).

## Fairness

`PlanCache!Fairness` is weak fairness of each session's steps inside a create and
inside a destroy call. A call blocks only on `g_cache_lock`, a mutex each holder
keeps for a few instructions without waiting for anything else, so a call that
has started keeps moving. Nothing is assumed of callers: no session has to call,
or to destroy what it holds. `ConvDispatch` assumes weak fairness of the steps of
a running call, which is one thread's straight-line code. The other modules state
no liveness property: a search or a kernel call is a bounded straight line whose
steps only move forward.

## Proofs

TLAPS proves what follows for every value of the constants the assumptions
allow; the runs show it on their instances first. Each inductive invariant can
be added to the INVARIANTs of its component's run (`IInv`; `PInv`, `RInv` and `FInv`
of `HostPlans`; `KInv` of `JitKernels`; `WInv` of `WeldFFT`): TLC finds it true on the
same bounds.

### Plan cache: any number of sessions, any addresses and requests

| theorem (`PlanCacheProofs`) | states |
|---|---|
| `TypeCorrect` | `TypeOK`, with no assumption on callers |
| `CacheInvariant` | `IInv` |
| `HandlesStayLive` | `HandlesLive` |
| `RefcountCounts` | `RefcountExact` |
| `ListsLinkLivePlans` | `ListedLive` |
| `OnePlanIsCached` | `OnePlanPerKey` |
| `EqualKeysShareAPlan` | `EqualRequestsShare` |
| `OnlyUnreferencedReclaimed` | `ReclaimedUnreferenced` |
| `NothingLeaks` | `NoLeak` |
| `HandlesServeTheirRequest` | `HandleForRequest`, where requests that differ have different cache keys: one h per length |
| `CacheImplementsStore` | `ImplementsStore`: `PlanCache` refines `PlanStore` |

All but the first assume `ExternalLock`; without it they are false (`resurrect`).
Without its second assumption `HandlesServeTheirRequest` is false too (`kernels`).

None of the properties is inductive. That no held plan is freed depends on the
last dropper being alone, which depends on the count being exact, which depends
on no create call finding the plan while it is being destroyed. `IInv` is the
conjunction that closes this circle:

- `TypeOK`, `Shape` (which control points have a request and a plan), `Owned` (a
  plan pointer denotes an allocated plan of the key asked for);
- `Private`: a plan that is about to be published is in no list and known to its
  session only, so the loser of a publication race may free it;
- `HeldListed`: a held plan is on the list its kind is looked up on, so a second
  create call of its key finds it;
- `LastOne`: a session that goes on to unlink is the only one that refers to the
  plan;
- `ListedLive`, `OnePlanPerKey`, `RefcountExact`;
- `Apart`: creators and destroyers of one key do not coexist; it is what
  `ExternalLock` gives, carried by `BeginCreate` and `BeginDestroy`.

There is one lemma per action (`BeginCreateKeeps` ... `FreeKeeps`), with a step
per conjunct the action can disturb; `UnlinkIsPush` is the fact about
`PlanKinds` that the two if-chains of flags agree. Counting uses the cardinality
facts of `FiniteSetTheorems`. `NoLeak` needs the exact count before and after the
step: a drop that leaves a positive count leaves another session behind it.

The refinement maps a session to its phase in the store and its handle to an
object. `StepRefines` has one case per action: `BeginCreate` asks, a hit and
both outcomes of the second lookup grant (`Granted`, which needs that a plan of
the key, if anyone holds one, is the one the lookup finds), a failed build or
calloc refuses, the last step of a destroy call ends the close, and everything
else, the first lookup's miss and the unlink among them, stutters.

### Convolutions: any length, impulses at any position

`ConvMathProofs` has the lemmas the convolutions' proofs share: `NextPow2` finds its power
of two up to 131072; a sum in which at most one term counts is that term
(`TotalOfOne`, proved with the least counterexample of `LeastNatural`); the
convolution of impulses is an impulse (`LinearOfImpulses`, `CyclicOfImpulses`). The
kernels' proofs take two more from it: a product over stages splits off any
stage (`ProductTimes`), and a sum of naturals is at least each of its terms
(`TotalAtLeast`).
The theorems are about impulses; for other samples they hold because every step
is linear, an argument made here and not by the prover.

| theorem | states |
|---|---|
| `RoutesAreSound` (`Conv64Proofs`) | a route's welds can be built, do not alias and leave the correction room (`Buildable`, `Unaliased`, `Corrected`), at every power-of-two ceiling from 4 to 32768 and for every number of direct taps |
| `RoutesAsDocumented` | `AsDocumented`, when the ceiling leaves room for a direct correction |
| `RealWeldsBuildable`, `RealNoAliasing`, `RealCorrectionFits`, `RealTableAsDocumented` | the four at the code's ceiling and tap count, as the run `conv64` asks them |
| `OneCallConvolves`, `CorrectionInPlace`, `PiecesAddUp` | `OneCallIsCyclicConv`, `CorrInPlaceSafe`, `OlaPrefixSummed` |
| `OneCallConvolves`, `DirectLegInPlace`, `OlsLegWelds` (`ConvDispatchProofs`) | `OneCallIsLinearConv`, `DirectInPlaceSafe`, `OlsPrefixWelded` |
| `FrontsConvolve`, `AllWindowsComplete`, `TailCarriesOver` (`OlsStreamProofs`) | `ConcatIsLinearConv` for callers that feed windows, `StreamComplete`, `TailIsNextHead` |

- *Route table.* `TableLayout` goes through the if-chain once and says what every
  arm lays out; an aliased weld's correlation of 2L+1 samples either fits a
  weld, which gives the corrected layout, or is longer than the ceiling, which
  gives pieces (`AliasedLayout`).
- *Cyclic convolution.* `Conv64!IInv` carries that layout (`Laid`), which loop belongs to which route, and what each loop leaves
  to the next (`Buffers`). `SecondWeld` shows that the second, short weld holds the
  wrapped samples, whichever way its kernel index wraps; `TailSampleIs` and
  `CorrSumIs` that what the correction takes off is what aliased; `PieceAdds`
  that one more piece adds its part, a short last piece included.
- *Dispatch.* `ConvDispatch!IInv` says that the work buffer is the shifted input
  and the block a window of it, and then the window's valid samples.
  `BlockIsValid` is the reason for overlap-save: what wraps around lands in
  front of the first valid sample. `ShiftDownIs` is the in-place move, `MacIsConv`
  the direct sum.
- *Overlap-save.* `OlsStream!IInv` ties the samples taken so far and the block in
  hand to the input. `FrontOfWindow` shows that the weld and the two lengths
  without a kernel return the same front. `UnstagedKeeps` is why a failed stream
  call spoils no window but its own: none is computed from the one before it. `TailCarriesOver` has no content for
  fresh blocks, where the property claims nothing.

### Create and destroy: any sessions and requests

| theorem (`HostPlansProofs`) | states |
|---|---|
| `NothingIsLeftBehind` | `NothingLeftBehind`, for all eleven create entries (the dispatch plan's, which no list caches, included) |
| `OtherEntriesLeaveAlone` | `OtherEntriesDoNothing`, for all six execute entries |
| `OneSearchIsHandedOver` | `StatsOnlyDiagnose`, assuming `OneSearch` |
| `OwnEntryKeeps` | `OwnEntryKeepsPromise`, for all eleven kinds, any length and number of blocks, assuming `OneSearch` |

`NothingLeftBehind` says nothing of a call under way, so its invariant must: `IInv`
has a running call hold at most what the steps so far can have gained
(`MayHold`) and a returned plan at most what destroy frees. That is preserved if
the ladder of the request is `Sound`: at every step, each way to return gives
back all that `MayHold` allows. Soundness of a ladder is proved the way a
program is, by triples {A} s {B} that compose (`Compose`, `Closes`): one lemma for
each form of step (`OneGet`, `OneDrop`, `OnePublish`, `Joint` for the four steps
of a search), and one for each create entry (`BatchEnds`, `ConvEnds`,
`Conv64Ends`, ...) that goes down its ladder, with a case for each route.
Leaving a member out of one undo list breaks the step of that allocation.

`PInv` (a plan keeps its request's kind and size whatever the search and the host
store into it) gives `OtherEntriesLeaveAlone` with the guards of the execute
entries (`UnservedEntry`).

`OneSearchIsHandedOver` is the other half of the finding `host_race`: the
assumption that the run drops is also enough. `RInv` says that at most one
session is between a search's start and its read, and that until then the
record is its own.

`OwnEntryKeeps` joins the two halves of the host. One is about the create entries:
`FInv` says that a returned plan fits its request (`Fits`), that is, that the
kernel it was given is of its length and multiplies by the spectrum or the window
exactly when the host does not. It has to say so of a call under way as well,
between the search, the build and the read of the record (`Fitted`), where a
second search would break it; hence `OneSearch`. There is again one lemma per step
(`StartSearchFits`, `EndSearchFits`, `BuildFits`, `ReadPlaceFits`, ...).

The other half is about the execute entries, as functions on a buffer. `Put`
says that a block of samples is in place and has had a list of operations,
`Grows` that a list of operations leads from one such list to another, `Rows` that
the first k blocks of a batch have had them and the others, and the gaps, not.
`ApplyPut` and `CallPut` take one operation and one kernel call, `NextBlock` and
`SweepsRow` a loop over blocks, `PairsAndLast` the block an odd count leaves over;
`FittingKeeps` goes through the kinds. That `Requests` are requests a caller may
make (`RequestsAssumption`: 1 to n taps, one block unless it is a batch) is checked
by the run. A window applied twice, or a product left to
neither side, would be seen here at every length; the run sees lengths up to 4.

### Kernels: any length, list, tile budget and input

| theorem (`JitKernelsProofs`) | states |
|---|---|
| `KernelInvariant` | `KInv` |
| `DiscardZoneKept` | `DiscardZoneUntouched` |
| `GroupsResident` | `GroupsStayResident` |
| `WeldInvariant` (`WeldFFTProofs`) | `WInv` |
| `PaddingKept` | `PaddingStaysInSlack` |

The first three are about every power-of-two length up to 32768 and every list
the code's guards admit: pinned, searched, or split because it ended in 32.
`KInv` has what the build fixes (`KernelBuilt`: the list multiplies up to the length,
its groups are cut by one budget), where the schedule can stand (`GroupStarts`),
how long the caller's arrays are, and `DiscardZoneUntouched` itself. `DecompositionIs`,
`SplitKeepsProduct` and `KernelListIs` show that every way to a list ends in one
that multiplies up; `BlocksAreEven` and `PrefixIsValid` that a prefix of valid
samples cut off inside a pair of columns still stores nothing behind it;
`GroupLenIs` that the `CHOOSE` of a group's length is the longest that fits.

The last two are about the original-size kernels. `WInv` fixes the list, the leaf of every stage, the slack and the
size of the scratch. `FlattenHas` and `WeldListIs` show what `weld_gen`'s recursion
can name (a list whose blocks divide the length and whose stages all have a
leaf), each by the least place at which it would fail. `HalfIs` goes through the
program of a kernel and shows that only a stage with an odd number of columns
pads them (`n1_odd`), and only a codelet head runs contiguously; `SlackHolds` that
the sum the slack is sized by has room for the lanes of any one of them; `LanesFit`
puts the two together. `WeldCallsAssumption`, checked by the run, is what the create entries ask for before
they build (fft_jit.cpp:12939, 13205), and that the length divides `Order`: the
field must have a root of unity of that order, and there is one for every length.

### Left to TLC

- Liveness under fairness (`CreateReturns`, `UnreferencedFreed`,
  `ExecuteReturns`): the prover has neither `ENABLED` nor a rule for fairness.
- The transforms (`BlocksAreTransforms`, `CallReturnsItsKind`,
  `WeldBlocksAreTransforms`, `WeldReturnsItsKind`): that a product of stages is the
  discrete Fourier transform needs induction over a list of radices and the
  algebra of sums in a finite field; the library's induction theorems take an
  operator as a parameter, which the installed provers cannot instantiate.
- `PlanSearch` (`FusedShapeValid`, `OnlyPinsFail`, `ArenaHolds`, `ClassesReached`). All
  four rest on what a pool contains, and a pool is built with `SelectSeq`, `SortSeq`,
  `@@` and `:>`, which the prover leaves uninterpreted. `OnlyPinsFail` needs in
  addition that the cost model sorts every list of eight stages that ends in 32
  behind 43 others: a computation, not a proof.

Recursive functions and folds are used instead of RECURSIVE operators
throughout. Where a proof unfolds one (`Total`, `ShiftDown`), it first proves that
the function defined by its equation exists, by giving it in closed form or by
the least argument at which it would fail.

## Disagreements found

| run | the code | the text |
|---|---|---|
| `resurrect` | `fft_plan_destroy` drops the last reference in one critical section (plan_cache.c:2250-2257) and unlinks in another (2259-2274); a create call in between returns the plan that is then freed | `src/include/fft.h` 54-57: the handle "remains valid until the matching fft_plan_destroy call" |
| `kernels` | the convolution lookups compare N (and nh), not h (plan_cache.c:301-379): a second kernel of equal length is answered with the first one's plan | `src/README.md` 74-75: "plans for equal parameters are cached"; `src/include/fft.h` 91 |
| `blocks` | the overlap tail is saved (plan_cache.c:1415) and never read: each block is convolved alone | `src/README.md` 153-155: "each execute consumes one fresh block of N samples", "Feed successive blocks and concatenate the valid fronts" |
| `host_race` | the create entries read the placement and form of their plan back from the global record of the last search (plan_cache.c:1516-1526, 1735-1743, 1848-1856), outside any lock | `src/src/jit/fft_jit.h` 302-303: the record is "diagnostics / evidence only" |

`ConcatIsLinearConv` holds for the callers that feed overlapping windows
(`windows`), which is what the stream entry's contract asks for (plan_cache.c:1447-1459).

Remarks met while modelling, without a run of their own:

- *Welded convolution without FMA.* `create_conv_weld` fills the odd entries of
  the spectrum's twin with the other sign when FMA is off (fft_jit.cpp:13094),
  but the product sweep in weld_glue.c 457-482 always uses the FMA form. It
  matters only with `FFT_SCHED_NOFMA` set and a codelet at both ends; the `weld`
  run leaves that combination out.
- *A greedy anchor that cannot be built.* `weld_anchor` may start a list with 4
  where no leaf exists for it (N = 12, or any N = 4 mod 8); with
  `FFT_WELD_SEARCH=off` the create call then returns NULL.
- *`scratch2`* is not freed for each timed candidate that ends in an odd codelet
  stage, nor when a welded convolution's create call fails after it.
- *The arena of a weld* is said to mirror "the builder's cursor advances exactly"
  (fft_jit.cpp:7163-7164, 7381-7384). A scalar radix-2 first stage takes 96 bytes
  nothing reserves and overwrites two descriptors. Both descriptors are dead
  and the field read of a third lies behind, so the kernel is right (`ArenaHolds`).
- *The bare batch anchor* is built with its own placement even when another one
  is pinned (`src/src/jit/fft_jit.h` 365).
- *"every class reaching the timer"* (fft_jit.cpp:10241-10248) holds for the three
  placements of a convolution (`ClassesReached`), not for the batch search's
  seven classes, of which the budget may end the search after three.
- *The fp64 pool may hold one schedule twice*: group lengths 1 under a tile and 0
  without one differ in the comparison (fft_jit.cpp:5461) and mean the same; the
  comment at 5440-5444 says distinct schedules only.
- *The comments at fft_jit.cpp:12265 and 12854* say that the search never picks a
  final radix of 32, but the second anchor, the reversed greedy list, ends in 32.
  The repair that follows is what makes the fused kernels right
  (`FusedShapeValid`, and `CallReturnsItsKind` for the kernels themselves), not
  only a defence against pins.
- *`weld_codelets_init`* sets its done flag before it fills its tables
  (weld_glue.c:213); that first use is single-threaded (weld_codelets.h:70) is
  left to callers.
- *`fft_ols_stream_fp64`* does not look at its plan's kind, unlike the other
  entries.
- *The fp64 bodies of `PoolEmitter` and `LutEmitter`* (fft_jit.cpp 357-457,
  992-1094) are never emitted: fp64 lengths from 32 on have a schedule.

## Not modelled

- Instruction selection, register allocation, spills, prefetches and
  non-temporal stores of the emitters; rounding.
- The codelet registry's first use by several threads, which its comment
  excludes, and its numeric probe of the codelets.
- Two threads that execute one plan at the same time: the library promises
  nothing about it, and equal requests do share scratch buffers.
- The int conversion of a huge block length (plan_cache.c:1915): whatever it
  yields, the sub-plan's own check of the length refuses it.
- `FFT_ANYN_LEAVES=hand` (weld_glue.c:237), a debug switch that opens radix 11
  with twiddles again. `WeldPlan` has the leaves of the default build.
- The adapter's body (a call of the vendored library). Vendored code: FFTW, its
  generated codelets, xbyak. Tests and benchmarks.

## Plan

Done, in order of importance: the cache and its proof; the cyclic, dispatch and
overlap-save convolutions; every power-of-two kernel in both precisions; every
search; the create and execute entries; the original-size welds.

Proved: the cache and its refinement of `PlanStore`; the route table at every
ceiling; the three convolutions at every length; the create entries, and what a
plan does through any execute entry, for all sessions and requests; the tile
groups, the discard zone and the padding lanes of the kernels at every length
and for every list.

What remains is listed under [Left to TLC](#left-to-tlc). Of it, the candidate
pools could be proved about if `Candidates` were written with recursive functions
in place of `SelectSeq` and `SortSeq`, at the price of TLC's time on the pools of
long kernels; the transforms would need a prover with induction.
