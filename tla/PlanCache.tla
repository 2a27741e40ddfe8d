------------------------------ MODULE PlanCache ------------------------------
(***************************************************************************)
(* The shared plan cache of src/src/host/plan_cache.c: create entries that *)
(* look up under g_cache_lock, build with the lock released, look up again *)
(* and publish; and fft_plan_destroy, which drops its reference in one     *)
(* critical section and unlinks in a second one.                           *)
(*                                                                         *)
(* A session is one create ... destroy bracket of a caller: it may create, *)
(* hold and destroy one handle, then start over.  A thread that holds      *)
(* several handles is several sessions.  Every critical section is one     *)
(* action (g_cache_lock is a plain mutex held for no longer), and so is    *)
(* every lock-free stretch between two of them that another thread could   *)
(* observe or that can fail.                                               *)
(*                                                                         *)
(* Blocks of memory are the addresses in Addr: calloc returns any free one *)
(* or fails, free gives it back, so addresses are reused.  The members a   *)
(* plan owns (kernel, H, buffers) are built and freed with it.             *)
(***************************************************************************)
EXTENDS PlanKinds, Integers, FiniteSets

CONSTANTS
    Sessions,     \* callers' create ... destroy brackets
    Addr,         \* the blocks calloc can return
    Null,         \* the NULL plan pointer
    Requests,     \* the create calls that are made
    NoRequest,    \* a session that asked for nothing
    ExternalLock  \* TRUE: callers keep a create and a destroy of one cache
                  \* key from overlapping; FALSE: they do not

ASSUME SessionsAssumption == IsFiniteSet(Sessions)
ASSUME NullAssumption == Null \notin Addr
ASSUME RequestsAssumption ==
    /\ \A r \in Requests : r.kind \in Kinds
    /\ NoRequest \notin Requests
ASSUME LockAssumption == ExternalLock \in BOOLEAN

VARIABLES
    pc,       \* where each session is
    req,      \* the request of each session
    plan,     \* its local plan pointer
    heap,     \* the allocated blocks
    made,     \* the request each block's plan was built from
    refcount, \* plan->refcount of each block
    list      \* the plans linked into each cache list

vars == <<pc, req, plan, heap, made, refcount, list>>

Creating   == {"lookup", "build", "alloc", "insert"}
Destroying == {"drop", "unlink", "free"}
PCs        == {"idle", "held"} \cup Creating \cup Destroying

\* The sessions whose pointer counts as a reference to its plan: from the
\* calloc (refcount = 1) or the cache hit to the decrement.
Referencing(a) == {s \in Sessions : plan[s] = a /\ pc[s] \in {"insert", "held", "drop"}}

Init ==
    /\ pc       = [s \in Sessions |-> "idle"]
    /\ req      = [s \in Sessions |-> NoRequest]
    /\ plan     = [s \in Sessions |-> Null]
    /\ heap     = {}
    /\ made     = [a \in Addr |-> NoRequest]
    /\ refcount = [a \in Addr |-> 0]
    /\ list     = [l \in Lists |-> {}]

Goto(s, l) == pc' = [pc EXCEPT ![s] = l]

\* The call returns without a plan: NULL from create, or a finished destroy.
ReturnNull(s) ==
    /\ Goto(s, "idle")
    /\ req'  = [req EXCEPT ![s] = NoRequest]
    /\ plan' = [plan EXCEPT ![s] = Null]

\* What cache_lookup_*_locked finds for session s in the list of its kind.
Matches(s) == {a \in list[PushList[req[s].kind]] :
                  CacheKey(made[a]) = CacheKey(req[s])}

(***************************************************************************)
(* Create.                                                                 *)
(***************************************************************************)
BeginCreate(s, r) ==
    /\ pc[s] = "idle"
    /\ ExternalLock => \A o \in Sessions : pc[o] \in Destroying =>
                                           CacheKey(req[o]) # CacheKey(r)
    /\ Goto(s, "lookup")
    /\ req' = [req EXCEPT ![s] = r]
    /\ UNCHANGED <<plan, heap, made, refcount, list>>

LookupHitNoRef(s, a) ==     \* mutated form: the hit takes no reference
    /\ pc[s] = "lookup"
    /\ a \in Matches(s)
    /\ plan' = [plan EXCEPT ![s] = a]
    /\ Goto(s, "held")
    /\ UNCHANGED <<req, heap, made, list, refcount>>

\* First critical section, hit: the cached plan is returned with one more
\* reference.
LookupHit(s, a) ==
    /\ pc[s] = "lookup"
    /\ a \in Matches(s)
    /\ refcount' = [refcount EXCEPT ![a] = @ + 1]
    /\ plan' = [plan EXCEPT ![s] = a]
    /\ Goto(s, "held")
    /\ UNCHANGED <<req, heap, made, list>>

LookupMiss(s) ==
    /\ pc[s] = "lookup"
    /\ Matches(s) = {}
    /\ Goto(s, "build")
    /\ UNCHANGED <<req, plan, heap, made, refcount, list>>

\* Kernel, table and buffer construction, with no lock held.
Build(s) ==
    /\ pc[s] = "build"
    /\ Goto(s, "alloc")
    /\ UNCHANGED <<req, plan, heap, made, refcount, list>>

\* Illegal shape, emit failure or OOM: whatever was built is freed and the
\* entry returns NULL.
BuildFail(s) ==
    /\ pc[s] = "build"
    /\ ReturnNull(s)
    /\ UNCHANGED <<heap, made, refcount, list>>

AllocUncounted(s, a) ==     \* mutated form: plan->refcount = 1 is missing
    /\ pc[s] = "alloc"
    /\ a \in Addr \ heap
    /\ heap' = heap \cup {a}
    /\ made' = [made EXCEPT ![a] = req[s]]
    /\ refcount' = [refcount EXCEPT ![a] = 0]
    /\ plan' = [plan EXCEPT ![s] = a]
    /\ Goto(s, "insert")
    /\ UNCHANGED <<req, list>>

\* calloc and the assignments that fill the plan in.
Alloc(s, a) ==
    /\ pc[s] = "alloc"
    /\ a \in Addr \ heap
    /\ heap' = heap \cup {a}
    /\ made' = [made EXCEPT ![a] = req[s]]
    /\ refcount' = [refcount EXCEPT ![a] = 1]
    /\ plan' = [plan EXCEPT ![s] = a]
    /\ Goto(s, "insert")
    /\ UNCHANGED <<req, list>>

AllocFailUnchecked(s) ==    \* mutated form: the NULL is not noticed
    /\ pc[s] = "alloc"
    /\ Goto(s, "insert")
    /\ UNCHANGED <<req, plan, heap, made, refcount, list>>

AllocFailRetry(s) ==        \* mutated form: the build is tried again
    /\ pc[s] = "alloc"
    /\ Goto(s, "build")
    /\ UNCHANGED <<req, plan, heap, made, refcount, list>>

\* calloc fails: the kernel is destroyed and the entry returns NULL.
AllocFail(s) ==
    /\ pc[s] = "alloc"
    /\ ReturnNull(s)
    /\ UNCHANGED <<heap, made, refcount, list>>

InsertHitKeepsOwn(s, a) ==  \* mutated form: the losing plan is not freed
    /\ pc[s] = "insert"
    /\ a \in Matches(s)
    /\ refcount' = [refcount EXCEPT ![a] = @ + 1]
    /\ plan' = [plan EXCEPT ![s] = a]
    /\ Goto(s, "held")
    /\ UNCHANGED <<req, heap, made, list>>

\* Second critical section, hit: another session published a plan of this
\* key meanwhile.  It is returned and the session's own plan, which nobody
\* else has seen, is freed after the unlock.
InsertHit(s, a) ==
    /\ pc[s] = "insert"
    /\ a \in Matches(s)
    /\ refcount' = [refcount EXCEPT ![a] = @ + 1]
    /\ heap' = heap \ {plan[s]}
    /\ made' = [made EXCEPT ![plan[s]] = NoRequest]
    /\ plan' = [plan EXCEPT ![s] = a]
    /\ Goto(s, "held")
    /\ UNCHANGED <<req, list>>

InsertNoRecheck(s) ==       \* mutated form: published without a second lookup
    /\ pc[s] = "insert"
    /\ list' = [list EXCEPT ![PushList[req[s].kind]] = @ \cup {plan[s]}]
    /\ Goto(s, "held")
    /\ UNCHANGED <<req, plan, heap, made, refcount>>

\* Second critical section, miss: the plan is pushed onto its list.
InsertNew(s) ==
    /\ pc[s] = "insert"
    /\ Matches(s) = {}
    /\ list' = [list EXCEPT ![PushList[req[s].kind]] = @ \cup {plan[s]}]
    /\ Goto(s, "held")
    /\ UNCHANGED <<req, plan, heap, made, refcount>>

(***************************************************************************)
(* Destroy.                                                                *)
(***************************************************************************)
BeginDestroy(s) ==
    /\ pc[s] = "held"
    /\ ExternalLock => \A o \in Sessions : pc[o] \in Creating =>
                                           CacheKey(req[o]) # CacheKey(req[s])
    /\ Goto(s, "drop")
    /\ UNCHANGED <<req, plan, heap, made, refcount, list>>

DropAlways(s) ==            \* mutated form: drops the plan at refcount 1
    /\ pc[s] = "drop"
    /\ refcount' = [refcount EXCEPT ![plan[s]] = @ - 1]
    /\ \/ /\ refcount[plan[s]] - 1 <= 1
          /\ Goto(s, "unlink")
          /\ UNCHANGED <<req, plan>>
       \/ /\ refcount[plan[s]] - 1 > 1
          /\ ReturnNull(s)
    /\ UNCHANGED <<heap, made, list>>

\* First critical section: plan->refcount-- and the decision to drop.
DropRef(s) ==
    /\ pc[s] = "drop"
    /\ refcount' = [refcount EXCEPT ![plan[s]] = @ - 1]
    /\ \/ /\ refcount[plan[s]] - 1 <= 0
          /\ Goto(s, "unlink")
          /\ UNCHANGED <<req, plan>>
       \/ /\ refcount[plan[s]] - 1 > 0
          /\ ReturnNull(s)
    /\ UNCHANGED <<heap, made, list>>

\* Second critical section: unlink from the list the flags select.  Nothing
\* is read again: a reference taken since the first one goes unnoticed.
Unlink(s) ==
    /\ pc[s] = "unlink"
    /\ list' = [list EXCEPT ![UnlinkList(Flags[made[plan[s]].kind])] = @ \ {plan[s]}]
    /\ Goto(s, "free")
    /\ UNCHANGED <<req, plan, heap, made, refcount>>

FreeLeak(s) ==              \* mutated form: free(plan) is missing
    /\ pc[s] = "free"
    /\ ReturnNull(s)
    /\ UNCHANGED <<heap, made, refcount, list>>

\* The members and the plan are freed, with no lock held.  The block keeps
\* its refcount until calloc zeroes it again.
Free(s) ==
    /\ pc[s] = "free"
    /\ heap' = heap \ {plan[s]}
    /\ made' = [made EXCEPT ![plan[s]] = NoRequest]
    /\ ReturnNull(s)
    /\ UNCHANGED <<refcount, list>>

CreateStep(s) ==
    \/ \E a \in Addr : LookupHit(s, a)
    \/ LookupMiss(s)
    \/ Build(s)
    \/ BuildFail(s)
    \/ \E a \in Addr : Alloc(s, a)
    \/ AllocFail(s)
    \/ \E a \in Addr : InsertHit(s, a)
    \/ InsertNew(s)

DestroyStep(s) ==
    \/ DropRef(s)
    \/ Unlink(s)
    \/ Free(s)

Next ==
    \E s \in Sessions :
        \/ \E r \in Requests : BeginCreate(s, r)
        \/ CreateStep(s)
        \/ BeginDestroy(s)
        \/ DestroyStep(s)

Spec == Init /\ [][Next]_vars

\* A call that was made runs to its end: no step of a create or a destroy
\* waits for anything but a mutex that is held for a few instructions.
\* Callers owe nothing: they need not call, nor ever destroy a handle.
Fairness == \A s \in Sessions : WF_vars(CreateStep(s)) /\ WF_vars(DestroyStep(s))

FairSpec == Spec /\ Fairness
-----------------------------------------------------------------------------
(***************************************************************************)
(* Properties.                                                             *)
(***************************************************************************)
\* Types of the variables of the cache.
TypeOK ==
    /\ pc \in [Sessions -> PCs]
    /\ req \in [Sessions -> Requests \cup {NoRequest}]
    /\ plan \in [Sessions -> Addr \cup {Null}]
    /\ heap \subseteq Addr
    /\ made \in [Addr -> Requests \cup {NoRequest}]
    /\ refcount \in [Addr -> Int]
    /\ list \in [Lists -> SUBSET Addr]

\* A handle that create returned and destroy has not yet released denotes an
\* allocated plan, however the other sessions' calls interleave with it
\* (fft.h:54-57; plan_cache.c:2245-2271 decides to drop and unlinks in two
\* separate critical sections).
HandlesLive == \A s \in Sessions : pc[s] \in {"held", "drop"} => plan[s] \in heap

\* plan->refcount of an allocated plan is the number of sessions that refer
\* to it, through every hit, race between two creates and partial destroy.
RefcountExact == \A a \in heap : refcount[a] = Cardinality(Referencing(a))

\* A cache list links only allocated plans, each on the list that lookups
\* for its kind search, so no lookup follows a pointer to freed memory.
ListedLive ==
    \A l \in Lists : \A a \in list[l] :
        /\ a \in heap
        /\ made[a] \in Requests
        /\ PushList[made[a].kind] = l

\* Two creates of one key that both missed and both built still leave one
\* plan of that key in the cache: the second to publish finds the first.
OnePlanPerKey ==
    \A l \in Lists : \A a, b \in list[l] :
        CacheKey(made[a]) = CacheKey(made[b]) => a = b

\* All handles of one key that are held at the same time denote one plan
\* (README.md:74, "plans for equal parameters are cached").
EqualRequestsShare ==
    \A s, t \in Sessions :
        /\ pc[s] = "held" /\ pc[t] = "held"
        /\ CacheKey(req[s]) = CacheKey(req[t])
        => plan[s] = plan[t]

\* Every allocated plan is still in some session's hands: no path through
\* create, the lost race or destroy leaks a block.
NoLeak == \A a \in heap : \E s \in Sessions : plan[s] = a

\* The plan behind a handle was built for the request that asked for it:
\* its kind, its lengths and its kernel samples h (fft.h:91, "Plan-time:
\* materialize H[k] = FFT(h)").
HandleForRequest ==
    \A s \in Sessions : pc[s] = "held" => made[plan[s]] = req[s]

\* A step that takes a plan off its list or frees it is never one that
\* leaves a session holding a reference to it.
ReclaimedUnreferenced ==
    [][\A a \in heap :
         (a \notin heap' \/ \E l \in Lists : a \in list[l] /\ a \notin list'[l])
         => \A s \in Sessions : ~(plan'[s] = a /\ pc'[s] \in {"held", "drop"})]_vars

\* Every create call returns, with a plan or with NULL.
CreateReturns ==
    \A s \in Sessions : pc[s] \in Creating ~> pc[s] \in {"held", "idle"}

\* A plan that no session refers to any more is eventually freed, whatever
\* the other sessions do.
UnreferencedFreed ==
    \A a \in Addr : (a \in heap /\ Referencing(a) = {}) ~> a \notin heap

\* The cache as callers see it, a handle denoting its plan for as long as the
\* plan is allocated.
Denotes(s) == pc[s] \in {"held"} \cup Destroying /\ plan[s] \in heap

storePhase == [s \in Sessions |->
                 IF pc[s] \in Creating THEN "asking"
                 ELSE IF pc[s] = "held" THEN "granted"
                 ELSE IF pc[s] \in Destroying THEN "closing" ELSE "none"]
storeAsked == [s \in Sessions |-> IF pc[s] = "idle" THEN Null ELSE CacheKey(req[s])]
storeObj   == [s \in Sessions |-> IF Denotes(s) THEN plan[s] ELSE Null]
storeServes == [s \in Sessions |-> IF Denotes(s) THEN CacheKey(made[plan[s]]) ELSE Null]

Store == INSTANCE PlanStore WITH
    Objects <- Addr,       Keys   <- {CacheKey(r) : r \in Requests},
    Nothing <- Null,       phase  <- storePhase, asked <- storeAsked,
    obj     <- storeObj,   serves <- storeServes

\* The cache implements what the plan layer promises.
ImplementsStore == Store!Spec
-----------------------------------------------------------------------------
(***************************************************************************)
(* The inductive invariant behind HandlesLive when callers keep creates    *)
(* and destroys of one key apart (PlanCacheProofs).                        *)
(***************************************************************************)
\* A session has a request from its call to its return, and a plan pointer
\* from the calloc or the hit on.
Shape ==
    \A s \in Sessions :
        /\ pc[s] # "idle" => req[s] \in Requests
        /\ plan[s] = Null <=> pc[s] \in {"idle", "lookup", "build", "alloc"}

\* A pointer denotes an allocated plan of the key the session asked for.
Owned ==
    \A s \in Sessions : plan[s] # Null =>
        /\ plan[s] \in heap
        /\ made[plan[s]] \in Requests
        /\ CacheKey(made[plan[s]]) = CacheKey(req[s])

\* A plan that is about to be published is its session's alone.
Private ==
    \A s \in Sessions : pc[s] = "insert" =>
        /\ made[plan[s]] = req[s]
        /\ \A l \in Lists : plan[s] \notin list[l]
        /\ \A t \in Sessions : t # s => plan[t] # plan[s]

\* A plan somebody holds is in its list.
HeldListed ==
    \A s \in Sessions : pc[s] \in {"held", "drop", "unlink"} =>
        plan[s] \in list[PushList[made[plan[s]].kind]]

\* The session that drops a plan is the last one to point to it.
LastOne ==
    \A s \in Sessions : pc[s] \in {"unlink", "free"} =>
        /\ \A t \in Sessions : t # s => plan[t] # plan[s]
        /\ pc[s] = "free" => \A l \in Lists : plan[s] \notin list[l]

\* What callers guarantee.
Apart ==
    \A s, t \in Sessions : pc[s] \in Creating /\ pc[t] \in Destroying =>
        CacheKey(req[s]) # CacheKey(req[t])

IInv ==
    /\ TypeOK /\ Shape /\ Owned /\ RefcountExact /\ Private /\ ListedLive
    /\ HeldListed /\ LastOne /\ OnePlanPerKey /\ Apart
=============================================================================
