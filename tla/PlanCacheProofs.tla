-------------------------- MODULE PlanCacheProofs --------------------------
(***************************************************************************)
(* Proofs about PlanCache for any number of sessions, blocks and requests. *)
(*                                                                         *)
(* TypeOK holds whatever callers do.  Everything else is proved for        *)
(* callers that keep a create and a destroy of one key apart               *)
(* (ExternalLock): without that assumption fft_plan_destroy can free a     *)
(* plan that a lookup has just handed out (run PlanCache_resurrect).       *)
(*                                                                         *)
(* HandlesLive is not inductive: that a held plan is allocated rests on    *)
(* the exact count, the count on the lists linking live plans only, these  *)
(* on a dropping session being the last one to point to its plan, and that *)
(* on no lookup of its key running meanwhile.  IInv is the conjunction;    *)
(* one lemma per action shows that it is kept.  The same invariant carries *)
(* the refinement of PlanStore in the last part of the module.             *)
(***************************************************************************)
EXTENDS PlanCache, FiniteSetTheorems, TLAPS

\* fft_plan_destroy unlinks a plan from the very list its create entry
\* pushed it onto: the order of the flag tests gets every kind right.
LEMMA UnlinkIsPush ==
    \A k \in Kinds : UnlinkList(Flags[k]) = PushList[k]
  BY DEF UnlinkList, Flags, PushList, Kinds

\* Every create entry pushes onto one of the list heads.
LEMMA PushListType == \A k \in Kinds : PushList[k] \in Lists
  <1> TAKE k \in Kinds
  <1>1. CASE k \in {"forward", "gauss", "inverse", "conv", "linear"}
    BY <1>1 DEF PushList, Kinds, Lists
  <1>2. CASE k \in {"fp64", "conv64", "inv64", "lin64", "batch"}
    BY <1>2 DEF PushList, Kinds, Lists
  <1> QED
    BY <1>1, <1>2 DEF Kinds

\* Only finitely many sessions refer to a plan, so they can be counted.
LEMMA RefsFinite == \A a : IsFiniteSet(Referencing(a))
  <1>1. TAKE a
  <1>2. Referencing(a) \in SUBSET Sessions
    BY DEF Referencing
  <1>3. QED
    BY <1>2, FS_Subset, SessionsAssumption

\* Entering a create call keeps the invariant: the guard of BeginCreate is
\* what keeps it apart from the destroys of its key.
LEMMA BeginCreateKeeps ==
  ASSUME IInv, NEW s \in Sessions, NEW r \in Requests, BeginCreate(s, r), ExternalLock
  PROVE  IInv'
  <1> USE RequestsAssumption, NullAssumption DEF PCs, Creating, Destroying
  <1>1. TypeOK'
    BY DEF IInv, BeginCreate, TypeOK, Goto
  <1>2. Shape'
    BY DEF IInv, BeginCreate, TypeOK, Shape, Goto
  <1>3. Owned'
    BY DEF IInv, BeginCreate, TypeOK, Shape, Owned, Goto
  <1>4. RefcountExact'
    BY DEF IInv, BeginCreate, TypeOK, RefcountExact, Goto, Referencing
  <1>5. Private'
    BY DEF IInv, BeginCreate, TypeOK, Private, Goto
  <1>6. ListedLive'
    BY DEF IInv, BeginCreate, TypeOK, ListedLive, Goto
  <1>7. HeldListed'
    BY DEF IInv, BeginCreate, TypeOK, HeldListed, Goto
  <1>8. LastOne'
    BY DEF IInv, BeginCreate, TypeOK, LastOne, Goto
  <1>9. OnePlanPerKey'
    BY DEF IInv, BeginCreate, TypeOK, OnePlanPerKey, Goto
  <1>10. Apart'
    BY DEF IInv, BeginCreate, TypeOK, Apart, Goto
  <1> QED
    BY <1>1, <1>2, <1>3, <1>4, <1>5, <1>6, <1>7, <1>8, <1>9, <1>10 DEF IInv

\* A cache hit keeps the invariant: the plan found is live, listed, of the
\* key asked for, and gains exactly one reference.
LEMMA LookupHitKeeps ==
  ASSUME IInv, NEW s \in Sessions, NEW a \in Addr, LookupHit(s, a), ExternalLock
  PROVE  IInv'
  <1> USE RequestsAssumption, NullAssumption DEF PCs, Creating, Destroying
  <1>a. /\ a \in heap /\ made[a] \in Requests /\ PushList[made[a].kind] = PushList[req[s].kind]
        /\ CacheKey(made[a]) = CacheKey(req[s]) /\ a \in list[PushList[made[a].kind]]
        /\ PushList[made[a].kind] \in Lists
    BY PushListType DEF IInv, TypeOK, Shape, ListedLive, LookupHit, Matches
  <1>1. TypeOK'
    BY <1>a DEF IInv, LookupHit, TypeOK, Goto
  <1>2. Shape'
    BY <1>a DEF IInv, LookupHit, TypeOK, Shape, Goto
  <1>3. Owned'
    BY <1>a DEF IInv, LookupHit, TypeOK, Owned, Goto
  <1>4. RefcountExact'
    <2> SUFFICES ASSUME NEW b \in heap'
                 PROVE  (refcount[b] = Cardinality(Referencing(b)))'
      BY DEF RefcountExact
    <2>1. CASE b = a
      <3>1. Referencing(b)' = Referencing(b) \cup {s} /\ s \notin Referencing(b)
        BY <1>a, <2>1 DEF IInv, TypeOK, LookupHit, Goto, Referencing
      <3>2. Cardinality(Referencing(b)') = Cardinality(Referencing(b)) + 1
        BY <3>1, RefsFinite, FS_AddElement
      <3> QED
        BY <1>a, <2>1, <3>2 DEF IInv, TypeOK, RefcountExact, LookupHit
    <2>2. CASE b # a
      <3>1. Referencing(b)' = Referencing(b) /\ refcount'[b] = refcount[b] /\ b \in heap
        BY <1>a, <2>2 DEF IInv, TypeOK, LookupHit, Goto, Referencing
      <3> QED
        BY <3>1 DEF IInv, RefcountExact
    <2> QED
      BY <2>1, <2>2
  <1>5. Private'
    BY <1>a DEF IInv, LookupHit, TypeOK, Private, Goto
  <1>6. ListedLive'
    BY <1>a DEF IInv, LookupHit, TypeOK, ListedLive, Goto
  <1>7. HeldListed'
    BY <1>a DEF IInv, LookupHit, TypeOK, HeldListed, Goto
  <1>8. LastOne'
    BY <1>a DEF IInv, LookupHit, TypeOK, Shape, Owned, LastOne, Apart, Goto
  <1>9. OnePlanPerKey'
    BY <1>a DEF IInv, LookupHit, TypeOK, OnePlanPerKey, Goto
  <1>10. Apart'
    BY <1>a DEF IInv, LookupHit, TypeOK, Apart, Goto
  <1> QED
    BY <1>1, <1>2, <1>3, <1>4, <1>5, <1>6, <1>7, <1>8, <1>9, <1>10 DEF IInv

\* A cache miss keeps the invariant.
LEMMA LookupMissKeeps ==
  ASSUME IInv, NEW s \in Sessions, LookupMiss(s), ExternalLock
  PROVE  IInv'
  <1> USE RequestsAssumption, NullAssumption DEF PCs, Creating, Destroying
  <1>1. TypeOK'
    BY DEF IInv, LookupMiss, TypeOK, Goto
  <1>2. Shape'
    BY DEF IInv, LookupMiss, TypeOK, Shape, Goto
  <1>3. Owned'
    BY DEF IInv, LookupMiss, TypeOK, Owned, Goto
  <1>4. RefcountExact'
    BY DEF IInv, LookupMiss, TypeOK, RefcountExact, Goto, Referencing
  <1>5. Private'
    BY DEF IInv, LookupMiss, TypeOK, Private, Goto
  <1>6. ListedLive'
    BY DEF IInv, LookupMiss, TypeOK, ListedLive, Goto
  <1>7. HeldListed'
    BY DEF IInv, LookupMiss, TypeOK, HeldListed, Goto
  <1>8. LastOne'
    BY DEF IInv, LookupMiss, TypeOK, LastOne, Goto
  <1>9. OnePlanPerKey'
    BY DEF IInv, LookupMiss, TypeOK, OnePlanPerKey, Goto
  <1>10. Apart'
    BY DEF IInv, LookupMiss, TypeOK, Apart, Goto
  <1> QED
    BY <1>1, <1>2, <1>3, <1>4, <1>5, <1>6, <1>7, <1>8, <1>9, <1>10 DEF IInv

\* Building with the lock released keeps the invariant.
LEMMA BuildKeeps ==
  ASSUME IInv, NEW s \in Sessions, Build(s), ExternalLock
  PROVE  IInv'
  <1> USE RequestsAssumption, NullAssumption DEF PCs, Creating, Destroying
  <1>1. TypeOK'
    BY DEF IInv, Build, TypeOK, Goto
  <1>2. Shape'
    BY DEF IInv, Build, TypeOK, Shape, Goto
  <1>3. Owned'
    BY DEF IInv, Build, TypeOK, Owned, Goto
  <1>4. RefcountExact'
    BY DEF IInv, Build, TypeOK, RefcountExact, Goto, Referencing
  <1>5. Private'
    BY DEF IInv, Build, TypeOK, Private, Goto
  <1>6. ListedLive'
    BY DEF IInv, Build, TypeOK, ListedLive, Goto
  <1>7. HeldListed'
    BY DEF IInv, Build, TypeOK, HeldListed, Goto
  <1>8. LastOne'
    BY DEF IInv, Build, TypeOK, LastOne, Goto
  <1>9. OnePlanPerKey'
    BY DEF IInv, Build, TypeOK, OnePlanPerKey, Goto
  <1>10. Apart'
    BY DEF IInv, Build, TypeOK, Apart, Goto
  <1> QED
    BY <1>1, <1>2, <1>3, <1>4, <1>5, <1>6, <1>7, <1>8, <1>9, <1>10 DEF IInv

\* A failed build returns NULL and keeps the invariant.
LEMMA BuildFailKeeps ==
  ASSUME IInv, NEW s \in Sessions, BuildFail(s), ExternalLock
  PROVE  IInv'
  <1> USE RequestsAssumption, NullAssumption DEF PCs, Creating, Destroying
  <1>1. TypeOK'
    BY DEF IInv, BuildFail, ReturnNull, TypeOK, Goto
  <1>2. Shape'
    BY DEF IInv, BuildFail, ReturnNull, TypeOK, Shape, Goto
  <1>3. Owned'
    BY DEF IInv, BuildFail, ReturnNull, TypeOK, Owned, Goto
  <1>4. RefcountExact'
    BY DEF IInv, BuildFail, ReturnNull, TypeOK, RefcountExact, Goto, Referencing
  <1>5. Private'
    BY DEF IInv, BuildFail, ReturnNull, TypeOK, Shape, Private, Goto
  <1>6. ListedLive'
    BY DEF IInv, BuildFail, ReturnNull, TypeOK, ListedLive, Goto
  <1>7. HeldListed'
    BY DEF IInv, BuildFail, ReturnNull, TypeOK, HeldListed, Goto
  <1>8. LastOne'
    BY DEF IInv, BuildFail, ReturnNull, TypeOK, Shape, LastOne, Goto
  <1>9. OnePlanPerKey'
    BY DEF IInv, BuildFail, ReturnNull, TypeOK, OnePlanPerKey, Goto
  <1>10. Apart'
    BY DEF IInv, BuildFail, ReturnNull, TypeOK, Apart, Goto
  <1> QED
    BY <1>1, <1>2, <1>3, <1>4, <1>5, <1>6, <1>7, <1>8, <1>9, <1>10 DEF IInv

\* calloc keeps the invariant: the block it returns is nobody else's and
\* starts with the one reference of its session.
LEMMA AllocKeeps ==
  ASSUME IInv, NEW s \in Sessions, NEW a \in Addr, Alloc(s, a), ExternalLock
  PROVE  IInv'
  <1> USE RequestsAssumption, NullAssumption DEF PCs, Creating, Destroying
  <1>1. TypeOK'
    BY DEF IInv, Alloc, TypeOK, Goto
  <1>2. Shape'
    BY DEF IInv, Alloc, TypeOK, Shape, Goto
  <1>3. Owned'
    BY DEF IInv, Alloc, TypeOK, Shape, Owned, Goto
  <1>4. RefcountExact'
    <2> SUFFICES ASSUME NEW b \in heap'
                 PROVE  (refcount[b] = Cardinality(Referencing(b)))'
      BY DEF RefcountExact
    <2>1. CASE b = a
      <3>1. Referencing(b)' = {s}
        BY <2>1 DEF IInv, TypeOK, Owned, Alloc, Goto, Referencing
      <3> QED
        BY <2>1, <3>1, FS_Singleton DEF IInv, TypeOK, Alloc
    <2>2. CASE b # a
      <3>1. Referencing(b)' = Referencing(b) /\ refcount'[b] = refcount[b] /\ b \in heap
        BY <2>2 DEF IInv, TypeOK, Alloc, Goto, Referencing
      <3> QED
        BY <3>1 DEF IInv, RefcountExact
    <2> QED
      BY <2>1, <2>2
  <1>5. Private'
    BY DEF IInv, Alloc, TypeOK, Shape, Owned, Private, ListedLive, LastOne, Goto
  <1>6. ListedLive'
    BY DEF IInv, Alloc, TypeOK, ListedLive, Goto
  <1>7. HeldListed'
    <2> SUFFICES ASSUME NEW t \in Sessions, pc'[t] \in {"held", "drop", "unlink"}
                 PROVE  plan'[t] \in list'[PushList[made'[plan'[t]].kind]]
      BY DEF HeldListed
    <2>1. CASE t = s
      BY <2>1 DEF IInv, TypeOK, Alloc, Goto
    <2>2. CASE t # s
      <3>1. /\ pc[t] \in {"held", "drop", "unlink"} /\ plan'[t] = plan[t]
            /\ made'[plan[t]] = made[plan[t]] /\ list' = list
        BY <2>2 DEF IInv, TypeOK, Shape, Owned, Alloc, Goto
      <3> QED
        BY <3>1 DEF IInv, HeldListed
    <2> QED
      BY <2>1, <2>2
  <1>8. LastOne'
    BY DEF IInv, Alloc, TypeOK, Shape, Owned, LastOne, Goto
  <1>9. OnePlanPerKey'
    BY DEF IInv, Alloc, TypeOK, Shape, ListedLive, OnePlanPerKey, Goto
  <1>10. Apart'
    BY DEF IInv, Alloc, TypeOK, Apart, Goto
  <1> QED
    BY <1>1, <1>2, <1>3, <1>4, <1>5, <1>6, <1>7, <1>8, <1>9, <1>10 DEF IInv

\* A failed calloc returns NULL and keeps the invariant.
LEMMA AllocFailKeeps ==
  ASSUME IInv, NEW s \in Sessions, AllocFail(s), ExternalLock
  PROVE  IInv'
  <1> USE RequestsAssumption, NullAssumption DEF PCs, Creating, Destroying
  <1>1. TypeOK'
    BY DEF IInv, AllocFail, ReturnNull, TypeOK, Goto
  <1>2. Shape'
    BY DEF IInv, AllocFail, ReturnNull, TypeOK, Shape, Goto
  <1>3. Owned'
    BY DEF IInv, AllocFail, ReturnNull, TypeOK, Owned, Goto
  <1>4. RefcountExact'
    BY DEF IInv, AllocFail, ReturnNull, TypeOK, RefcountExact, Goto, Referencing
  <1>5. Private'
    BY DEF IInv, AllocFail, ReturnNull, TypeOK, Shape, Private, Goto
  <1>6. ListedLive'
    BY DEF IInv, AllocFail, ReturnNull, TypeOK, ListedLive, Goto
  <1>7. HeldListed'
    BY DEF IInv, AllocFail, ReturnNull, TypeOK, HeldListed, Goto
  <1>8. LastOne'
    BY DEF IInv, AllocFail, ReturnNull, TypeOK, Shape, LastOne, Goto
  <1>9. OnePlanPerKey'
    BY DEF IInv, AllocFail, ReturnNull, TypeOK, OnePlanPerKey, Goto
  <1>10. Apart'
    BY DEF IInv, AllocFail, ReturnNull, TypeOK, Apart, Goto
  <1> QED
    BY <1>1, <1>2, <1>3, <1>4, <1>5, <1>6, <1>7, <1>8, <1>9, <1>10 DEF IInv

\* Losing the race of two creates keeps the invariant: the plan freed is in
\* no list and in no other session's hands.
LEMMA InsertHitKeeps ==
  ASSUME IInv, NEW s \in Sessions, NEW a \in Addr, InsertHit(s, a), ExternalLock
  PROVE  IInv'
  <1> USE RequestsAssumption, NullAssumption DEF PCs, Creating, Destroying
  <1>a. /\ a \in heap /\ made[a] \in Requests /\ PushList[made[a].kind] = PushList[req[s].kind]
        /\ CacheKey(made[a]) = CacheKey(req[s]) /\ a \in list[PushList[made[a].kind]]
        /\ PushList[made[a].kind] \in Lists
    BY PushListType DEF IInv, TypeOK, Shape, ListedLive, InsertHit, Matches
  <1>1. TypeOK'
    BY <1>a DEF IInv, InsertHit, TypeOK, Shape, Goto
  <1>2. Shape'
    BY <1>a DEF IInv, InsertHit, TypeOK, Shape, Goto
  <1>3. Owned'
    BY <1>a DEF IInv, InsertHit, TypeOK, Shape, Owned, Private, Goto
  <1>4. RefcountExact'
    <2> SUFFICES ASSUME NEW b \in heap'
                 PROVE  (refcount[b] = Cardinality(Referencing(b)))'
      BY DEF RefcountExact
    <2>1. CASE b = a
      <3>1. Referencing(b)' = Referencing(b) \cup {s} /\ s \notin Referencing(b)
        BY <1>a, <2>1 DEF IInv, TypeOK, InsertHit, Goto, Referencing
      <3>2. Cardinality(Referencing(b)') = Cardinality(Referencing(b)) + 1
        BY <3>1, RefsFinite, FS_AddElement
      <3> QED
        BY <1>a, <2>1, <3>2 DEF IInv, TypeOK, RefcountExact, InsertHit
    <2>2. CASE b # a
      <3>1. Referencing(b)' = Referencing(b) /\ refcount'[b] = refcount[b] /\ b \in heap
        BY <1>a, <2>2 DEF IInv, TypeOK, InsertHit, Goto, Referencing
      <3> QED
        BY <3>1 DEF IInv, RefcountExact
    <2> QED
      BY <2>1, <2>2
  <1>5. Private'
    BY <1>a DEF IInv, InsertHit, TypeOK, Private, Goto
  <1>6. ListedLive'
    BY <1>a DEF IInv, InsertHit, TypeOK, Shape, Owned, Private, ListedLive, Goto
  <1>7. HeldListed'
    <2> SUFFICES ASSUME NEW t \in Sessions, pc'[t] \in {"held", "drop", "unlink"}
                 PROVE  plan'[t] \in list'[PushList[made'[plan'[t]].kind]]
      BY DEF HeldListed
    <2>1. CASE t = s
      <3>1. /\ plan'[t] = a /\ made'[a] = made[a] /\ list' = list
        BY <1>a, <2>1 DEF IInv, TypeOK, Shape, Private, InsertHit
      <3> QED
        BY <1>a, <3>1
    <2>2. CASE t # s
      <3>1. /\ pc[t] \in {"held", "drop", "unlink"} /\ plan'[t] = plan[t]
            /\ made'[plan[t]] = made[plan[t]] /\ list' = list
        BY <2>2 DEF IInv, TypeOK, Shape, Private, InsertHit, Goto
      <3> QED
        BY <3>1 DEF IInv, HeldListed
    <2> QED
      BY <2>1, <2>2
  <1>8. LastOne'
    BY <1>a DEF IInv, InsertHit, TypeOK, Shape, Owned, LastOne, Apart, Goto
  <1>9. OnePlanPerKey'
    BY <1>a DEF IInv, InsertHit, TypeOK, Shape, Owned, Private, OnePlanPerKey, Goto
  <1>10. Apart'
    BY <1>a DEF IInv, InsertHit, TypeOK, Apart, Goto
  <1> QED
    BY <1>1, <1>2, <1>3, <1>4, <1>5, <1>6, <1>7, <1>8, <1>9, <1>10 DEF IInv

\* Publishing a plan keeps the invariant: the second lookup has just shown
\* that its key is not in the list.
LEMMA InsertNewKeeps ==
  ASSUME IInv, NEW s \in Sessions, InsertNew(s), ExternalLock
  PROVE  IInv'
  <1> USE RequestsAssumption, NullAssumption DEF PCs, Creating, Destroying
  <1>1. TypeOK'
    BY PushListType DEF IInv, InsertNew, Matches, TypeOK, Shape, Goto
  <1>2. Shape'
    BY DEF IInv, InsertNew, TypeOK, Shape, Goto
  <1>3. Owned'
    BY DEF IInv, InsertNew, TypeOK, Owned, Goto
  <1>4. RefcountExact'
    BY DEF IInv, InsertNew, TypeOK, RefcountExact, Goto, Referencing
  <1>5. Private'
    BY PushListType DEF IInv, InsertNew, Matches, TypeOK, Private, Goto
  <1>6. ListedLive'
    BY PushListType DEF IInv, InsertNew, Matches, TypeOK, Shape, Owned, Private, ListedLive, Goto
  <1>7. HeldListed'
    BY PushListType DEF IInv, InsertNew, Matches, TypeOK, Shape, Owned, Private, HeldListed, Goto
  <1>8. LastOne'
    BY PushListType DEF IInv, InsertNew, Matches, TypeOK, LastOne, Goto
  <1>9. OnePlanPerKey'
    BY PushListType DEF IInv, InsertNew, Matches, TypeOK, Shape, Owned, OnePlanPerKey, Goto
  <1>10. Apart'
    BY DEF IInv, InsertNew, TypeOK, Apart, Goto
  <1> QED
    BY <1>1, <1>2, <1>3, <1>4, <1>5, <1>6, <1>7, <1>8, <1>9, <1>10 DEF IInv

\* Entering a destroy call keeps the invariant.
LEMMA BeginDestroyKeeps ==
  ASSUME IInv, NEW s \in Sessions, BeginDestroy(s), ExternalLock
  PROVE  IInv'
  <1> USE RequestsAssumption, NullAssumption DEF PCs, Creating, Destroying
  <1>1. TypeOK'
    BY DEF IInv, BeginDestroy, TypeOK, Goto
  <1>2. Shape'
    BY DEF IInv, BeginDestroy, TypeOK, Shape, Goto
  <1>3. Owned'
    BY DEF IInv, BeginDestroy, TypeOK, Owned, Goto
  <1>4. RefcountExact'
    BY DEF IInv, BeginDestroy, TypeOK, RefcountExact, Goto, Referencing
  <1>5. Private'
    BY DEF IInv, BeginDestroy, TypeOK, Private, Goto
  <1>6. ListedLive'
    BY DEF IInv, BeginDestroy, TypeOK, ListedLive, Goto
  <1>7. HeldListed'
    BY DEF IInv, BeginDestroy, TypeOK, HeldListed, Goto
  <1>8. LastOne'
    BY DEF IInv, BeginDestroy, TypeOK, LastOne, Goto
  <1>9. OnePlanPerKey'
    BY DEF IInv, BeginDestroy, TypeOK, OnePlanPerKey, Goto
  <1>10. Apart'
    BY DEF IInv, BeginDestroy, TypeOK, Apart, Goto
  <1> QED
    BY <1>1, <1>2, <1>3, <1>4, <1>5, <1>6, <1>7, <1>8, <1>9, <1>10 DEF IInv

\* Dropping a reference keeps the invariant: a count that reaches 0 means that
\* no other session refers to the plan.
LEMMA DropRefKeeps ==
  ASSUME IInv, NEW s \in Sessions, DropRef(s), ExternalLock
  PROVE  IInv'
  <1> USE RequestsAssumption, NullAssumption DEF PCs, Creating, Destroying
  <1> DEFINE a == plan[s]
  <1>a. a \in heap /\ a \in Addr /\ s \in Referencing(a) /\ refcount[a] \in Int
    BY DEF IInv, TypeOK, Shape, Owned, DropRef, Referencing
  <1>b. refcount[a] = Cardinality(Referencing(a))
    BY <1>a DEF IInv, RefcountExact
  <1>c. /\ IsFiniteSet(Referencing(a) \ {s})
        /\ Cardinality(Referencing(a) \ {s}) = refcount[a] - 1
        /\ Cardinality(Referencing(a) \ {s}) \in Nat
    BY <1>a, <1>b, RefsFinite, FS_RemoveElement, FS_CardinalityType
  <1>d. ASSUME refcount[a] - 1 <= 0
        PROVE  Referencing(a) = {s}
    <2>1. Cardinality(Referencing(a) \ {s}) = 0
      BY <1>a, <1>c, <1>d
    <2>2. Referencing(a) \ {s} = {}
      BY <2>1, <1>c, FS_EmptySet
    <2> QED
      BY <2>2, <1>a
  <1>1. TypeOK'
    BY DEF IInv, DropRef, ReturnNull, TypeOK, Shape, Goto
  <1>2. Shape'
    BY DEF IInv, DropRef, ReturnNull, TypeOK, Shape, Goto
  <1>3. Owned'
    BY DEF IInv, DropRef, ReturnNull, TypeOK, Owned, Goto
  <1>4. RefcountExact'
    <2> SUFFICES ASSUME NEW b \in heap'
                 PROVE  (refcount[b] = Cardinality(Referencing(b)))'
      BY DEF RefcountExact
    <2>1. CASE b = a
      <3>1. Referencing(b)' = Referencing(b) \ {s}
        BY <2>1 DEF IInv, TypeOK, DropRef, ReturnNull, Goto, Referencing
      <3> QED
        BY <1>a, <1>c, <2>1, <3>1 DEF IInv, TypeOK, DropRef
    <2>2. CASE b # a
      <3>1. Referencing(b)' = Referencing(b) /\ refcount'[b] = refcount[b] /\ b \in heap
        BY <2>2 DEF IInv, TypeOK, DropRef, ReturnNull, Goto, Referencing
      <3> QED
        BY <3>1 DEF IInv, RefcountExact
    <2> QED
      BY <2>1, <2>2
  <1>5. Private'
    BY DEF IInv, DropRef, ReturnNull, TypeOK, Shape, Private, Goto
  <1>6. ListedLive'
    BY DEF IInv, DropRef, ReturnNull, TypeOK, ListedLive, Goto
  <1>7. HeldListed'
    BY DEF IInv, DropRef, ReturnNull, TypeOK, HeldListed, Goto
  <1>8. LastOne'
    <2>1. CASE refcount[a] - 1 <= 0
      <3>1. \A t \in Sessions : t # s => plan[t] # a
        BY <1>a, <1>d, <2>1 DEF IInv, TypeOK, Shape, LastOne, DropRef, Referencing
      <3> QED
        BY <2>1, <3>1 DEF IInv, TypeOK, Shape, LastOne, DropRef, Goto
    <2>2. CASE ~(refcount[a] - 1 <= 0)
      BY <2>2, <1>a DEF IInv, TypeOK, Shape, LastOne, DropRef, ReturnNull, Goto
    <2> QED
      BY <2>1, <2>2
  <1>9. OnePlanPerKey'
    BY DEF IInv, DropRef, ReturnNull, TypeOK, OnePlanPerKey, Goto
  <1>10. Apart'
    BY DEF IInv, DropRef, ReturnNull, TypeOK, Apart, Goto
  <1> QED
    BY <1>1, <1>2, <1>3, <1>4, <1>5, <1>6, <1>7, <1>8, <1>9, <1>10 DEF IInv

\* Unlinking keeps the invariant: only the dropping session still points to
\* the plan.
LEMMA UnlinkKeeps ==
  ASSUME IInv, NEW s \in Sessions, Unlink(s), ExternalLock
  PROVE  IInv'
  <1> USE RequestsAssumption, NullAssumption DEF PCs, Creating, Destroying
  <1>1. TypeOK'
    BY UnlinkIsPush, PushListType DEF IInv, Unlink, TypeOK, Goto
  <1>2. Shape'
    BY DEF IInv, Unlink, TypeOK, Shape, Goto
  <1>3. Owned'
    BY DEF IInv, Unlink, TypeOK, Owned, Goto
  <1>4. RefcountExact'
    BY DEF IInv, Unlink, TypeOK, RefcountExact, Goto, Referencing
  <1>5. Private'
    BY PushListType DEF IInv, Unlink, TypeOK, Private, Goto
  <1>6. ListedLive'
    BY UnlinkIsPush, PushListType DEF IInv, Unlink, TypeOK, ListedLive, Goto
  <1>7. HeldListed'
    BY UnlinkIsPush, PushListType DEF IInv, Unlink, TypeOK, Shape, Owned, HeldListed, LastOne, Goto
  <1>8. LastOne'
    BY UnlinkIsPush, PushListType DEF IInv, Unlink, TypeOK, Shape, ListedLive, LastOne, Goto
  <1>9. OnePlanPerKey'
    BY PushListType DEF IInv, Unlink, TypeOK, OnePlanPerKey, Goto
  <1>10. Apart'
    BY DEF IInv, Unlink, TypeOK, Apart, Goto
  <1> QED
    BY <1>1, <1>2, <1>3, <1>4, <1>5, <1>6, <1>7, <1>8, <1>9, <1>10 DEF IInv

\* Freeing keeps the invariant: nobody points to the block any more.
LEMMA FreeKeeps ==
  ASSUME IInv, NEW s \in Sessions, Free(s), ExternalLock
  PROVE  IInv'
  <1> USE RequestsAssumption, NullAssumption DEF PCs, Creating, Destroying
  <1>1. TypeOK'
    BY DEF IInv, Free, ReturnNull, TypeOK, Goto
  <1>2. Shape'
    BY DEF IInv, Free, ReturnNull, TypeOK, Shape, Goto
  <1>3. Owned'
    BY DEF IInv, Free, ReturnNull, TypeOK, Shape, Owned, LastOne, Goto
  <1>4. RefcountExact'
    BY DEF IInv, Free, ReturnNull, TypeOK, RefcountExact, Goto, Referencing
  <1>5. Private'
    BY DEF IInv, Free, ReturnNull, TypeOK, Shape, Private, Goto
  <1>6. ListedLive'
    BY DEF IInv, Free, ReturnNull, TypeOK, Shape, Owned, ListedLive, LastOne, Goto
  <1>7. HeldListed'
    <2> SUFFICES ASSUME NEW t \in Sessions, pc'[t] \in {"held", "drop", "unlink"}
                 PROVE  plan'[t] \in list'[PushList[made'[plan'[t]].kind]]
      BY DEF HeldListed
    <2>1. CASE t = s
      BY <2>1 DEF IInv, TypeOK, Free, ReturnNull, Goto
    <2>2. CASE t # s
      <3>1. /\ pc[t] \in {"held", "drop", "unlink"} /\ plan'[t] = plan[t]
            /\ made'[plan[t]] = made[plan[t]] /\ list' = list
        BY <2>2 DEF IInv, TypeOK, Shape, Owned, LastOne, Free, ReturnNull, Goto
      <3> QED
        BY <3>1 DEF IInv, HeldListed
    <2> QED
      BY <2>1, <2>2
  <1>8. LastOne'
    BY DEF IInv, Free, ReturnNull, TypeOK, Shape, LastOne, Goto
  <1>9. OnePlanPerKey'
    BY DEF IInv, Free, ReturnNull, TypeOK, Shape, Owned, LastOne, OnePlanPerKey, Goto
  <1>10. Apart'
    BY DEF IInv, Free, ReturnNull, TypeOK, Apart, Goto
  <1> QED
    BY <1>1, <1>2, <1>3, <1>4, <1>5, <1>6, <1>7, <1>8, <1>9, <1>10 DEF IInv

\* The empty cache satisfies the invariant.
LEMMA InitEstablishes == Init => IInv
  <1> SUFFICES ASSUME Init PROVE IInv
    OBVIOUS
  <1>1. TypeOK /\ Shape /\ Owned /\ Private /\ HeldListed /\ LastOne /\ Apart
    BY DEF Init, TypeOK, Shape, Owned, Private, HeldListed, LastOne, Apart,
           PCs, Creating, Destroying
  <1>2. RefcountExact /\ ListedLive /\ OnePlanPerKey
    BY DEF Init, RefcountExact, ListedLive, OnePlanPerKey
  <1> QED
    BY <1>1, <1>2 DEF IInv

\* A step of anything but the cache keeps the invariant.
LEMMA StutterKeeps ==
  ASSUME IInv, UNCHANGED vars
  PROVE  IInv'
  <1>1. (TypeOK /\ Shape /\ Owned /\ Private /\ HeldListed /\ LastOne /\ Apart)'
    BY DEF IInv, vars, TypeOK, Shape, Owned, Private, HeldListed, LastOne, Apart
  <1>2. (RefcountExact /\ ListedLive /\ OnePlanPerKey)'
    BY DEF IInv, vars, RefcountExact, Referencing, ListedLive, OnePlanPerKey
  <1> QED
    BY <1>1, <1>2 DEF IInv

\* Every step of create and destroy keeps the invariant.
LEMMA StepKeeps ==
  ASSUME ExternalLock, IInv, [Next]_vars
  PROVE  IInv'
  <1>1. CASE UNCHANGED vars
    BY <1>1, StutterKeeps
  <1>2. ASSUME NEW s \in Sessions, NEW r \in Requests, BeginCreate(s, r)
        PROVE  IInv'
    BY <1>2, BeginCreateKeeps
  <1>3. ASSUME NEW s \in Sessions, CreateStep(s)
        PROVE  IInv'
    BY <1>3, LookupHitKeeps, LookupMissKeeps, BuildKeeps, BuildFailKeeps,
       AllocKeeps, AllocFailKeeps, InsertHitKeeps, InsertNewKeeps
       DEF CreateStep
  <1>4. ASSUME NEW s \in Sessions, BeginDestroy(s)
        PROVE  IInv'
    BY <1>4, BeginDestroyKeeps
  <1>5. ASSUME NEW s \in Sessions, DestroyStep(s)
        PROVE  IInv'
    BY <1>5, DropRefKeeps, UnlinkKeeps, FreeKeeps DEF DestroyStep
  <1> QED
    BY <1>1, <1>2, <1>3, <1>4, <1>5 DEF Next
-----------------------------------------------------------------------------
\* The variables of the cache keep their types, with or without callers that
\* keep creates and destroys apart.  That a session which publishes or
\* destroys has a plan pointer at all (Shape) is part of the induction.
THEOREM TypeCorrect == Spec => []TypeOK
  <1> USE NullAssumption, RequestsAssumption DEF PCs, Creating, Destroying
  <1> DEFINE Inv == TypeOK /\ Shape
  <1>1. Init => Inv
    BY DEF Init, TypeOK, Shape
  <1>2. Inv /\ [Next]_vars => Inv'
    <2> SUFFICES ASSUME Inv, [Next]_vars PROVE Inv'
      OBVIOUS
    <2>1. CASE UNCHANGED vars
      BY <2>1 DEF vars, TypeOK, Shape
    <2>2. ASSUME NEW s \in Sessions, NEW r \in Requests, BeginCreate(s, r)
          PROVE  Inv'
      BY <2>2 DEF BeginCreate, Goto, TypeOK, Shape
    <2>3. ASSUME NEW s \in Sessions, NEW a \in Addr, LookupHit(s, a)
          PROVE  Inv'
      <3>1. TypeOK'
        BY <2>3 DEF LookupHit, Matches, Goto, TypeOK, Shape
      <3>2. Shape'
        BY <2>3 DEF LookupHit, Matches, Goto, TypeOK, Shape
      <3> QED
        BY <3>1, <3>2
    <2>4. ASSUME NEW s \in Sessions, LookupMiss(s) \/ Build(s)
          PROVE  Inv'
      BY <2>4 DEF LookupMiss, Build, Goto, TypeOK, Shape
    <2>5. ASSUME NEW s \in Sessions, BuildFail(s) \/ AllocFail(s)
          PROVE  Inv'
      BY <2>5 DEF BuildFail, AllocFail, ReturnNull, Goto, TypeOK, Shape
    <2>6. ASSUME NEW s \in Sessions, NEW a \in Addr, Alloc(s, a)
          PROVE  Inv'
      BY <2>6 DEF Alloc, Goto, TypeOK, Shape
    <2>7. ASSUME NEW s \in Sessions, NEW a \in Addr, InsertHit(s, a)
          PROVE  Inv'
      <3>1. TypeOK'
        BY <2>7 DEF InsertHit, Goto, TypeOK, Shape
      <3>2. Shape'
        BY <2>7 DEF InsertHit, Goto, TypeOK, Shape
      <3> QED
        BY <3>1, <3>2
    <2>8. ASSUME NEW s \in Sessions, InsertNew(s)
          PROVE  Inv'
      <3>1. TypeOK'
        BY <2>8, PushListType DEF InsertNew, Goto, TypeOK, Shape
      <3>2. Shape'
        BY <2>8 DEF InsertNew, Goto, TypeOK, Shape
      <3> QED
        BY <3>1, <3>2
    <2>9. ASSUME NEW s \in Sessions, BeginDestroy(s)
          PROVE  Inv'
      BY <2>9 DEF BeginDestroy, Goto, TypeOK, Shape
    <2>10. ASSUME NEW s \in Sessions, DropRef(s)
           PROVE  Inv'
      <3>1. TypeOK'
        BY <2>10 DEF DropRef, ReturnNull, Goto, TypeOK, Shape
      <3>2. Shape'
        BY <2>10 DEF DropRef, ReturnNull, Goto, TypeOK, Shape
      <3> QED
        BY <3>1, <3>2
    <2>11. ASSUME NEW s \in Sessions, Unlink(s)
           PROVE  Inv'
      <3>1. TypeOK'
        BY <2>11 DEF Unlink, Goto, TypeOK, Shape
      <3>2. Shape'
        BY <2>11 DEF Unlink, Goto, TypeOK, Shape
      <3> QED
        BY <3>1, <3>2
    <2>12. ASSUME NEW s \in Sessions, Free(s)
           PROVE  Inv'
      <3>1. TypeOK'
        BY <2>12 DEF Free, ReturnNull, Goto, TypeOK, Shape
      <3>2. Shape'
        BY <2>12 DEF Free, ReturnNull, Goto, TypeOK, Shape
      <3> QED
        BY <3>1, <3>2
    <2> QED
      BY <2>1, <2>2, <2>3, <2>4, <2>5, <2>6, <2>7, <2>8, <2>9, <2>10, <2>11, <2>12
         DEF Next, CreateStep, DestroyStep
  <1>3. Inv => TypeOK
    OBVIOUS
  <1> QED
    BY <1>1, <1>2, <1>3, PTL DEF Spec

\* The inductive invariant holds in every reachable state.
THEOREM CacheInvariant ==
  ASSUME ExternalLock
  PROVE  Spec => []IInv
  <1>1. Init => IInv
    BY InitEstablishes
  <1>2. IInv /\ [Next]_vars => IInv'
    BY StepKeeps
  <1> QED
    BY <1>1, <1>2, PTL DEF Spec

\* A handle stays valid until its own destroy, for any number of callers
\* whose calls interleave in any way ExternalLock allows.
THEOREM HandlesStayLive ==
  ASSUME ExternalLock
  PROVE  Spec => []HandlesLive
  <1>1. IInv => HandlesLive
    BY NullAssumption DEF IInv, Shape, Owned, HandlesLive
  <1> QED
    BY <1>1, CacheInvariant, PTL

\* plan->refcount is the number of sessions that refer to the plan.
THEOREM RefcountCounts ==
  ASSUME ExternalLock
  PROVE  Spec => []RefcountExact
  <1>1. IInv => RefcountExact
    BY DEF IInv
  <1> QED
    BY <1>1, CacheInvariant, PTL

\* The lists link live plans only, each on the list of its kind.
THEOREM ListsLinkLivePlans ==
  ASSUME ExternalLock
  PROVE  Spec => []ListedLive
  <1>1. IInv => ListedLive
    BY DEF IInv
  <1> QED
    BY <1>1, CacheInvariant, PTL

\* However many creates of a key race, one plan of that key is cached.
THEOREM OnePlanIsCached ==
  ASSUME ExternalLock
  PROVE  Spec => []OnePlanPerKey
  <1>1. IInv => OnePlanPerKey
    BY DEF IInv
  <1> QED
    BY <1>1, CacheInvariant, PTL

\* Requests with equal keys search the same list.
LEMMA KeyPicksList ==
  ASSUME NEW q, NEW r, CacheKey(q) = CacheKey(r)
  PROVE  PushList[q.kind] = PushList[r.kind]
  <1>1. ASSUME NEW p PROVE CacheKey(p)[1] = PushList[p.kind]
    BY DEF CacheKey
  <1> QED
    BY <1>1

\* All handles of one key that are held together denote one plan.
THEOREM EqualKeysShareAPlan ==
  ASSUME ExternalLock
  PROVE  Spec => []EqualRequestsShare
  <1>1. IInv => EqualRequestsShare
    <2> SUFFICES ASSUME IInv, NEW s \in Sessions, NEW t \in Sessions,
                        pc[s] = "held", pc[t] = "held",
                        CacheKey(req[s]) = CacheKey(req[t])
                 PROVE  plan[s] = plan[t]
      BY DEF EqualRequestsShare
    <2> DEFINE l == PushList[made[plan[s]].kind]
    <2>1. /\ made[plan[s]] \in Requests
          /\ CacheKey(made[plan[s]]) = CacheKey(req[s])
          /\ CacheKey(made[plan[t]]) = CacheKey(req[t])
      BY DEF IInv, Shape, Owned
    <2>2. l \in Lists
      BY <2>1, PushListType, RequestsAssumption
    <2>3. PushList[made[plan[t]].kind] = l
      BY <2>1, KeyPicksList
    <2>4. plan[s] \in list[l] /\ plan[t] \in list[l]
      BY <2>3 DEF IInv, HeldListed
    <2> QED
      BY <2>1, <2>2, <2>4 DEF IInv, OnePlanPerKey
  <1> QED
    BY <1>1, CacheInvariant, PTL

\* No step unlinks or frees a plan that a session still refers to.
THEOREM OnlyUnreferencedReclaimed ==
  ASSUME ExternalLock
  PROVE  Spec => ReclaimedUnreferenced
  <1> USE DEF Creating, Destroying
  <1> DEFINE Safe ==
        \A a \in heap :
          (a \notin heap' \/ \E l \in Lists : a \in list[l] /\ a \notin list'[l])
          => \A s \in Sessions : ~(plan'[s] = a /\ pc'[s] \in {"held", "drop"})
  <1>1. IInv /\ [Next]_vars => [Safe]_vars
    <2> SUFFICES ASSUME IInv, Next PROVE Safe
      OBVIOUS
    <2>1. CASE heap' = heap /\ \A l \in Lists : list[l] \subseteq list'[l]
      BY <2>1
    <2>2. ASSUME NEW s \in Sessions, NEW b \in Addr, InsertHit(s, b)
          PROVE  Safe
      <3>1. plan[s] # b /\ \A t \in Sessions : t # s => plan[t] # plan[s]
        BY <2>2, PushListType, RequestsAssumption
           DEF IInv, TypeOK, Shape, Private, InsertHit, Matches
      <3>2. \A t \in Sessions : plan'[t] # plan[s]
        BY <2>2, <3>1 DEF IInv, TypeOK, InsertHit
      <3> QED
        BY <2>2, <3>2 DEF InsertHit
    <2>3. ASSUME NEW s \in Sessions, Unlink(s) \/ Free(s)
          PROVE  Safe
      <3>1. /\ \A t \in Sessions : t # s => plan[t] # plan[s]
            /\ \A t \in Sessions : t # s => plan'[t] = plan[t]
            /\ pc'[s] \notin {"held", "drop"}
        BY <2>3 DEF IInv, TypeOK, LastOne, Unlink, Free, ReturnNull, Goto
      <3>2. \A t \in Sessions : ~(plan'[t] = plan[s] /\ pc'[t] \in {"held", "drop"})
        BY <3>1
      <3>3. /\ \A a \in heap : a # plan[s] => a \in heap'
            /\ \A l \in Lists : \A a \in list[l] : a # plan[s] => a \in list'[l]
        BY <2>3 DEF IInv, TypeOK, Unlink, Free
      <3> QED
        BY <3>2, <3>3
    <2>4. ASSUME NEW s \in Sessions, InsertNew(s)
          PROVE  heap' = heap /\ \A l \in Lists : list[l] \subseteq list'[l]
      BY <2>4 DEF IInv, TypeOK, InsertNew
    <2>5. ASSUME NEW s \in Sessions, NEW a \in Addr, Alloc(s, a)
          PROVE  Safe
      BY <2>5 DEF Alloc
    <2>6. ASSUME NEW s \in Sessions,
                 \/ \E r \in Requests : BeginCreate(s, r)
                 \/ \E a \in Addr : LookupHit(s, a)
                 \/ LookupMiss(s) \/ Build(s) \/ BuildFail(s) \/ AllocFail(s)
                 \/ BeginDestroy(s) \/ DropRef(s)
          PROVE  heap' = heap /\ list' = list
      BY <2>6 DEF BeginCreate, LookupHit, LookupMiss, Build, BuildFail, AllocFail,
                  BeginDestroy, DropRef
    <2> QED
      BY <2>1, <2>2, <2>3, <2>4, <2>5, <2>6 DEF Next, CreateStep, DestroyStep
  <1>2. [][Safe]_vars => ReclaimedUnreferenced
    BY DEF ReclaimedUnreferenced
  <1> QED
    BY <1>1, <1>2, CacheInvariant, PTL DEF Spec

\* No path through create, the lost race or destroy loses a block.  A drop
\* that leaves a positive count leaves, by the exact count, another session
\* that refers to the plan.
THEOREM NothingLeaks ==
  ASSUME ExternalLock
  PROVE  Spec => []NoLeak
  <1>1. Init => NoLeak
    BY DEF Init, NoLeak
  <1>2. IInv /\ IInv' /\ NoLeak /\ [Next]_vars => NoLeak'
    <2> SUFFICES ASSUME IInv, IInv', NoLeak, [Next]_vars,
                        NEW a \in heap', \A t \in Sessions : plan'[t] # a
                 PROVE  FALSE
      BY DEF NoLeak
    <2>1. Referencing(a)' = {}
      BY DEF Referencing
    <2>2. refcount'[a] = 0
      BY <2>1, FS_EmptySet DEF IInv, RefcountExact
    <2>3. CASE UNCHANGED vars
      BY <2>3 DEF vars, NoLeak
    <2>4. ASSUME NEW s \in Sessions, DropRef(s) PROVE FALSE
      <3>1. PICK t \in Sessions : plan[t] = a
        BY <2>4 DEF DropRef, NoLeak
      <3>2. t = s
        BY <2>4, <3>1 DEF DropRef, ReturnNull, IInv, TypeOK
      <3>3. refcount'[a] > 0
        BY <2>4, <3>1, <3>2 DEF DropRef, Goto, IInv, TypeOK
      <3> QED
        BY <2>2, <3>3
    <2>5. ASSUME NEW s \in Sessions, Free(s) PROVE FALSE
      <3>1. a \in heap /\ a # plan[s] /\ \A t \in Sessions : t # s => plan'[t] = plan[t]
        BY <2>5 DEF Free, ReturnNull
      <3> QED
        BY <3>1 DEF NoLeak
    <2>6. ASSUME NEW s \in Sessions, NEW b \in Addr, InsertHit(s, b) PROVE FALSE
      <3>1. a \in heap /\ a # plan[s] /\ \A t \in Sessions : t # s => plan'[t] = plan[t]
        BY <2>6 DEF InsertHit
      <3> QED
        BY <3>1 DEF NoLeak
    <2>7. ASSUME NEW s \in Sessions, NEW b \in Addr, LookupHit(s, b) \/ Alloc(s, b)
          PROVE  FALSE
      <3>1. plan[s] = Null /\ b \in Addr /\ a \in Addr /\ (a # b => a \in heap)
        BY <2>7 DEF LookupHit, Alloc, IInv, TypeOK, Shape
      <3>2. plan' = [plan EXCEPT ![s] = b]
        BY <2>7 DEF LookupHit, Alloc
      <3> QED
        BY <3>1, <3>2, NullAssumption DEF IInv, TypeOK, NoLeak
    <2>8. ASSUME NEW s \in Sessions, BuildFail(s) \/ AllocFail(s) PROVE FALSE
      <3>1. a \in heap /\ plan[s] = Null /\ \A t \in Sessions : t # s => plan'[t] = plan[t]
        BY <2>8 DEF BuildFail, AllocFail, ReturnNull, IInv, TypeOK, Shape
      <3> QED
        BY <3>1, NullAssumption DEF IInv, TypeOK, NoLeak
    <2>9. ASSUME NEW s \in Sessions, NEW r \in Requests, BeginCreate(s, r)
          PROVE  FALSE
      BY <2>9 DEF BeginCreate, NoLeak
    <2>10. ASSUME NEW s \in Sessions, LookupMiss(s) \/ Build(s) \/ InsertNew(s)
                                    \/ BeginDestroy(s) \/ Unlink(s)
           PROVE  FALSE
      BY <2>10 DEF LookupMiss, Build, InsertNew, BeginDestroy, Unlink, NoLeak
    <2> QED
      BY <2>3, <2>4, <2>5, <2>6, <2>7, <2>8, <2>9, <2>10 DEF Next, CreateStep, DestroyStep
  <1> QED
    BY <1>1, <1>2, CacheInvariant, PTL DEF Spec

\* Where requests that differ have different cache keys, a handle's plan was
\* built for the very request that asked for it.  The code's keys leave the
\* kernel samples h out, so for convolutions this asks callers to use one h
\* per length: with two, the run kernels refutes the conclusion.
THEOREM HandlesServeTheirRequest ==
  ASSUME ExternalLock,
         \A q, r \in Requests : CacheKey(q) = CacheKey(r) => q = r
  PROVE  Spec => []HandleForRequest
  <1>1. IInv => HandleForRequest
    BY DEF IInv, Shape, Owned, HandleForRequest
  <1> QED
    BY <1>1, CacheInvariant, PTL
-----------------------------------------------------------------------------
(***************************************************************************)
(* PlanCache implements PlanStore, for any number of sessions, blocks and  *)
(* requests, when callers keep a create and a destroy of one key apart:    *)
(* the lock-free builds, the second lookup and the two critical sections   *)
(* of fft_plan_destroy are invisible to callers.                           *)
(*                                                                         *)
(* A create call asks when it starts, is granted its plan by the hit or by *)
(* the push, and is refused by the failing build or calloc.  A destroy     *)
(* call ends where it returns: in the first critical section while others  *)
(* hold the plan, and at the free otherwise.  The rest are stutters.       *)
(***************************************************************************)

\* The sessions between the grant and the end of their destroy.
Holding(s) == pc[s] \in {"held"} \cup Destroying

\* Under the invariant a session denotes its plan whenever it has a handle,
\* and that plan serves the key the session asked for.
HandlesMapped ==
    /\ storeObj = [s \in Sessions |-> IF Holding(s) THEN plan[s] ELSE Null]
    /\ storeServes = [s \in Sessions |-> IF Holding(s) THEN CacheKey(req[s]) ELSE Null]
    /\ \A s \in Sessions : Holding(s) => plan[s] \in Addr

LEMMA MappedHandles == IInv => HandlesMapped
  <1> SUFFICES ASSUME IInv
               PROVE  /\ \A s \in Sessions : Holding(s) <=> Denotes(s)
                      /\ \A s \in Sessions : Holding(s) =>
                            CacheKey(made[plan[s]]) = CacheKey(req[s])
                      /\ \A s \in Sessions : Holding(s) => plan[s] \in Addr
    BY DEF HandlesMapped, storeObj, storeServes, Holding
  <1> QED
    BY NullAssumption DEF IInv, TypeOK, Shape, Owned, Denotes, Holding, Destroying

\* The same of the state after a step.
LEMMA MappedHandlesNext == IInv' => HandlesMapped'
  BY MappedHandles, PTL

\* A session without a handle, and one that keeps its handle, is seen by
\* callers as before: a step that moves one session within a phase, without
\* touching its request or its pointer while it holds one, is a stutter.
LEMMA WithinPhaseStutters ==
  ASSUME IInv, IInv', NEW s \in Sessions,
         req' = req,
         \A t \in Sessions : t # s => pc'[t] = pc[t] /\ plan'[t] = plan[t],
         \/ pc[s] \in Creating /\ pc'[s] \in Creating
         \/ pc[s] \in Destroying /\ pc'[s] \in Destroying /\ plan'[s] = plan[s]
  PROVE  UNCHANGED Store!storeVars
  <1>1. storePhase' = storePhase /\ storeAsked' = storeAsked
    BY DEF storePhase, storeAsked, Creating, Destroying
  <1>2. storeObj' = storeObj /\ storeServes' = storeServes
    BY MappedHandles, MappedHandlesNext DEF HandlesMapped, Holding, Creating, Destroying
  <1> QED
    BY <1>1, <1>2 DEF Store!storeVars

\* Two sessions of one key, one of which is creating, never conflict over a
\* destroy: the other one, if it has a handle, is holding it.
LEMMA HolderOfKeyHolds ==
  ASSUME IInv, NEW s \in Sessions, NEW t \in Sessions, pc[s] \in Creating,
         Holding(t), CacheKey(req[t]) = CacheKey(req[s])
  PROVE  /\ pc[t] = "held"
         /\ made[plan[t]] \in Requests
         /\ CacheKey(made[plan[t]]) = CacheKey(req[s])
         /\ PushList[made[plan[t]].kind] = PushList[req[s].kind]
         /\ PushList[req[s].kind] \in Lists
         /\ plan[t] \in Matches(s)
  <1>1. pc[t] = "held"
    BY DEF IInv, Apart, Holding
  <1>2. /\ plan[t] # Null /\ made[plan[t]] \in Requests
        /\ CacheKey(made[plan[t]]) = CacheKey(req[s])
        /\ plan[t] \in list[PushList[made[plan[t]].kind]]
    BY <1>1 DEF IInv, Shape, Owned, HeldListed
  <1>3. PushList[made[plan[t]].kind] = PushList[req[s].kind]
    BY <1>2, KeyPicksList
  <1>4. PushList[req[s].kind] \in Lists
    BY <1>2, <1>3, PushListType, RequestsAssumption
  <1> QED
    BY <1>1, <1>2, <1>3, <1>4 DEF Matches

\* A create that returns plan a of its key grants it: a is the object in use
\* for the key, or nobody uses it.
LEMMA Granted ==
  ASSUME IInv, IInv', NEW s \in Sessions, NEW a \in Addr,
         pc[s] \in Creating, pc' = [pc EXCEPT ![s] = "held"],
         plan' = [plan EXCEPT ![s] = a], req' = req,
         \A t \in Sessions : Holding(t) /\ plan[t] = a => CacheKey(req[t]) = CacheKey(req[s]),
         \A t \in Sessions : Holding(t) /\ CacheKey(req[t]) = CacheKey(req[s]) => plan[t] = a
  PROVE  Store!Grant(s, a)
  <1>1. storePhase[s] = "asking" /\ storeAsked[s] = CacheKey(req[s])
    BY DEF storePhase, storeAsked, Creating
  <1>2. storePhase' = [storePhase EXCEPT ![s] = "granted"]
    BY DEF IInv, TypeOK, storePhase, Creating, Destroying
  <1>3. storeAsked' = storeAsked
    BY DEF IInv, TypeOK, storeAsked, Creating
  <1>4. storeObj' = [storeObj EXCEPT ![s] = a]
    BY MappedHandles, MappedHandlesNext DEF HandlesMapped, IInv, TypeOK, Holding, Creating, Destroying
  <1>5. storeServes' = [storeServes EXCEPT ![s] = storeAsked[s]]
    BY <1>1, MappedHandles, MappedHandlesNext DEF HandlesMapped, IInv, TypeOK, Holding, Creating, Destroying
  <1>6. a \in Store!Candidates(CacheKey(req[s]))
    <2> DEFINE k == CacheKey(req[s])
               shared == {storeObj[t] : t \in {u \in Store!Using : storeAsked[u] = k}}
    <2>1. \A t \in Sessions : t \in Store!Using <=> Holding(t)
      BY MappedHandles, NullAssumption DEF HandlesMapped, Store!Using
    <2>2. Store!Using \subseteq Sessions
      BY DEF Store!Using
    <2>3. \A t \in Store!Using : storeObj[t] = plan[t] /\ storeAsked[t] = CacheKey(req[t])
      BY <2>1, <2>2, MappedHandles DEF HandlesMapped, storeAsked, Holding, Destroying
    <2>4. CASE shared # {}
      <3>1. PICK t \in Store!Using : storeAsked[t] = k
        BY <2>4
      <3>2. storeObj[t] = a
        BY <2>1, <2>2, <2>3, <3>1
      <3>3. a \in shared
        BY <3>1, <3>2
      <3> QED
        BY <2>4, <3>3 DEF Store!Candidates
    <2>5. CASE shared = {}
      <3>1. \A t \in Store!Using : storeObj[t] # a
        BY <2>1, <2>2, <2>3, <2>5
      <3> QED
        BY <2>5, <3>1 DEF Store!Candidates
    <2> QED
      BY <2>4, <2>5
  <1> QED
    BY <1>1, <1>2, <1>3, <1>4, <1>5, <1>6 DEF Store!Grant

\* A create that returns NULL is refused.
LEMMA Refused ==
  ASSUME IInv, IInv', NEW s \in Sessions, pc[s] \in Creating, ReturnNull(s)
  PROVE  Store!Refuse(s)
  <1>1. storePhase[s] = "asking"
    BY DEF storePhase, Creating
  <1>2. storePhase' = [storePhase EXCEPT ![s] = "none"]
    BY DEF IInv, TypeOK, storePhase, Creating, Destroying, ReturnNull, Goto
  <1>3. storeAsked' = [storeAsked EXCEPT ![s] = Null]
    BY DEF IInv, TypeOK, storeAsked, ReturnNull, Goto
  <1>4. storeObj' = storeObj /\ storeServes' = storeServes
    BY MappedHandles, MappedHandlesNext
       DEF HandlesMapped, IInv, TypeOK, Holding, Creating, Destroying, ReturnNull, Goto
  <1> QED
    BY <1>1, <1>2, <1>3, <1>4 DEF Store!Refuse

\* A destroy that returns closes its session.
LEMMA Closed ==
  ASSUME IInv, IInv', NEW s \in Sessions, pc[s] \in Destroying, ReturnNull(s)
  PROVE  Store!EndClose(s)
  <1>1. storePhase[s] = "closing"
    BY DEF storePhase, Creating, Destroying
  <1>2. storePhase' = [storePhase EXCEPT ![s] = "none"]
    BY DEF IInv, TypeOK, storePhase, Creating, Destroying, ReturnNull, Goto
  <1>3. storeAsked' = [storeAsked EXCEPT ![s] = Null]
    BY DEF IInv, TypeOK, storeAsked, ReturnNull, Goto
  <1>4. /\ storeObj' = [storeObj EXCEPT ![s] = Null]
        /\ storeServes' = [storeServes EXCEPT ![s] = Null]
    BY MappedHandles, MappedHandlesNext
       DEF HandlesMapped, IInv, TypeOK, Holding, Destroying, ReturnNull, Goto
  <1> QED
    BY <1>1, <1>2, <1>3, <1>4 DEF Store!EndClose

\* The empty cache is an empty store.
LEMMA InitIsEmptyStore == Init => Store!Init
  BY DEF Init, Store!Init, storePhase, storeAsked, storeObj, storeServes, Denotes,
         Creating, Destroying

\* Entering a create call asks for its key.
LEMMA BeginCreateAsks ==
  ASSUME IInv, IInv', NEW s \in Sessions, NEW r \in Requests, BeginCreate(s, r)
  PROVE  Store!Ask(s, CacheKey(r))
  <1>1. storePhase[s] = "none"
    BY DEF BeginCreate, storePhase, Creating, Destroying
  <1>2. storePhase' = [storePhase EXCEPT ![s] = "asking"]
    BY DEF IInv, TypeOK, storePhase, Creating, Destroying, BeginCreate, Goto
  <1>3. storeAsked' = [storeAsked EXCEPT ![s] = CacheKey(r)]
    BY DEF IInv, TypeOK, storeAsked, BeginCreate, Goto
  <1>4. storeObj' = storeObj /\ storeServes' = storeServes
    BY MappedHandles, MappedHandlesNext
       DEF HandlesMapped, IInv, TypeOK, Holding, Destroying, BeginCreate, Goto
  <1> QED
    BY <1>1, <1>2, <1>3, <1>4 DEF Store!Ask

\* A hit, in the first or in the second lookup, grants the plan found: it is
\* the only listed plan of its key, and holders of the key hold a listed one.
LEMMA HitGrants ==
  ASSUME IInv, IInv', NEW s \in Sessions, NEW a \in Addr,
         LookupHit(s, a) \/ InsertHit(s, a)
  PROVE  Store!Grant(s, a)
  <1>1. /\ pc[s] \in Creating /\ a \in Matches(s) /\ req' = req
        /\ pc' = [pc EXCEPT ![s] = "held"] /\ plan' = [plan EXCEPT ![s] = a]
    BY DEF LookupHit, InsertHit, Goto, Creating
  <1>2. \A t \in Sessions : Holding(t) /\ plan[t] = a => CacheKey(req[t]) = CacheKey(req[s])
    BY <1>1, NullAssumption DEF IInv, Shape, Owned, Matches, Holding, Destroying
  <1>3. ASSUME NEW t \in Sessions, Holding(t), CacheKey(req[t]) = CacheKey(req[s])
        PROVE  plan[t] = a
    BY <1>1, <1>3, HolderOfKeyHolds DEF IInv, OnePlanPerKey, Matches
  <1> QED
    BY <1>1, <1>2, <1>3, Granted

\* Publishing a plan grants it: nobody holds a plan of the key, because it
\* would be listed, and nobody else points to the new plan.
LEMMA PublishGrants ==
  ASSUME IInv, IInv', NEW s \in Sessions, InsertNew(s)
  PROVE  Store!Grant(s, plan[s]) /\ plan[s] \in Addr
  <1>1. /\ pc[s] \in Creating /\ pc[s] = "insert" /\ Matches(s) = {} /\ req' = req
        /\ pc' = [pc EXCEPT ![s] = "held"] /\ plan' = [plan EXCEPT ![s] = plan[s]]
        /\ plan[s] \in Addr
    BY NullAssumption DEF IInv, TypeOK, Shape, InsertNew, Goto, Creating
  <1>2. \A t \in Sessions : Holding(t) => plan[t] # plan[s]
    BY <1>1 DEF IInv, Private, Holding, Destroying
  <1>3. \A t \in Sessions : Holding(t) => CacheKey(req[t]) # CacheKey(req[s])
    BY <1>1, HolderOfKeyHolds
  <1> QED
    BY <1>1, <1>2, <1>3, Granted

\* Entering a destroy call closes the session's handle.
LEMMA BeginDestroyCloses ==
  ASSUME IInv, IInv', NEW s \in Sessions, BeginDestroy(s)
  PROVE  Store!BeginClose(s)
  <1>1. storePhase[s] = "granted" /\ storePhase' = [storePhase EXCEPT ![s] = "closing"]
    BY DEF IInv, TypeOK, storePhase, Creating, Destroying, BeginDestroy, Goto
  <1>2. storeAsked' = storeAsked
    BY DEF IInv, TypeOK, storeAsked, BeginDestroy, Goto
  <1>3. storeObj' = storeObj /\ storeServes' = storeServes
    BY MappedHandles, MappedHandlesNext
       DEF HandlesMapped, IInv, TypeOK, Holding, Destroying, BeginDestroy, Goto
  <1> QED
    BY <1>1, <1>2, <1>3 DEF Store!BeginClose

\* Every step of the cache is a step of the store or a stutter.
LEMMA StepRefines ==
  ASSUME IInv, IInv', [Next]_vars
  PROVE  [Store!Next]_(Store!storeVars)
  <1>1. CASE UNCHANGED vars
    BY <1>1 DEF vars, Store!storeVars, storePhase, storeAsked, storeObj, storeServes, Denotes
  <1>2. ASSUME NEW s \in Sessions, NEW r \in Requests, BeginCreate(s, r)
        PROVE  Store!Next
    BY <1>2, BeginCreateAsks DEF Store!Next
  <1>3. ASSUME NEW s \in Sessions, NEW a \in Addr, LookupHit(s, a) \/ InsertHit(s, a)
        PROVE  Store!Next
    BY <1>3, HitGrants DEF Store!Next
  <1>4. ASSUME NEW s \in Sessions, InsertNew(s)
        PROVE  Store!Next
    BY <1>4, PublishGrants DEF Store!Next
  <1>5. ASSUME NEW s \in Sessions, BuildFail(s) \/ AllocFail(s)
        PROVE  Store!Next
    BY <1>5, Refused DEF Store!Next, BuildFail, AllocFail, Creating
  <1>6. ASSUME NEW s \in Sessions, BeginDestroy(s)
        PROVE  Store!Next
    BY <1>6, BeginDestroyCloses DEF Store!Next
  <1>7. ASSUME NEW s \in Sessions, Free(s) \/ (DropRef(s) /\ ReturnNull(s))
        PROVE  Store!Next
    BY <1>7, Closed DEF Store!Next, Free, DropRef, Destroying
  <1>8. ASSUME NEW s \in Sessions, NEW a \in Addr, Alloc(s, a)
        PROVE  UNCHANGED Store!storeVars
    BY <1>8, WithinPhaseStutters DEF IInv, TypeOK, Alloc, Goto, Creating
  <1>9. ASSUME NEW s \in Sessions, LookupMiss(s) \/ Build(s) \/ Unlink(s)
                                  \/ (DropRef(s) /\ ~ReturnNull(s))
        PROVE  UNCHANGED Store!storeVars
    BY <1>9, WithinPhaseStutters
       DEF IInv, TypeOK, LookupMiss, Build, Unlink, DropRef, Goto, Creating, Destroying
  <1> QED
    BY <1>1, <1>2, <1>3, <1>4, <1>5, <1>6, <1>7, <1>8, <1>9
       DEF Next, CreateStep, DestroyStep

\* What fft.h promises holds of the cache: a granted handle denotes one plan
\* of its key until its own destroy, sessions of one key share the object in
\* use for it, and a refused create leaves no trace.
THEOREM CacheImplementsStore ==
  ASSUME ExternalLock
  PROVE  Spec => ImplementsStore
  <1>1. Init => Store!Init
    BY InitIsEmptyStore
  <1>2. IInv /\ IInv' /\ [Next]_vars => [Store!Next]_(Store!storeVars)
    BY StepRefines
  <1> QED
    BY <1>1, <1>2, CacheInvariant, PTL DEF Spec, ImplementsStore, Store!Spec
=============================================================================
