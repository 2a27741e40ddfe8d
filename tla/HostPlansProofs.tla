--------------------------- MODULE HostPlansProofs ---------------------------
(***************************************************************************)
(* Theorems about the create calls, for every set of requests and          *)
(* sessions, in three parts.                                               *)
(*                                                                         *)
(* Nothing is left behind, whatever a call was refused and however its     *)
(* search went.  A triple {A} s {B} of a ladder s says that a call which   *)
(* holds at most A when it enters s holds at most B when it leaves s, and  *)
(* nothing when it returns from within.  Triples compose, so each create   *)
(* entry is shown one allocation at a time.                                *)
(*                                                                         *)
(* A plan runs what its own search found, and what the plan does by itself *)
(* is what the host leaves to it (FInv).                                   *)
(*                                                                         *)
(* So a plan's own entry does what its kind promises: operations on a      *)
(* block (Put) and on a row of blocks (Rows) are followed through the      *)
(* wrappers and the loops of the host.                                     *)
(***************************************************************************)
EXTENDS HostPlans, SequenceTheorems, TLAPS

Math == INSTANCE ConvMathProofs

Leads(A, s, B, kind) ==
    /\ s \in Seq(Rungs)
    /\ Sound(A, s, Len(s) + 1, kind)
    /\ MayHold(A, s, Len(s) + 1) \subseteq B

\* The last part of a ladder, which every call leaves by returning.
Ends(A, s, kind) == s \in Seq(Rungs) /\ s # <<>> /\ Sound(A, s, Len(s), kind)
-----------------------------------------------------------------------------
\* The definition of MayHold, membership by membership.
LEMMA MayHoldMember ==
  ASSUME NEW A, NEW s, NEW k, NEW x
  PROVE  x \in MayHold(A, s, k) <=>
            \/ x \in A /\ \A j \in 1..(k - 1) : x \notin s[j].drop
            \/ \E i \in 1..(k - 1) : x \in Gains(s[i]) /\ \A j \in i..(k - 1) : x \notin s[j].drop
  BY DEF MayHold

\* A call enters a ladder with what it holds.
LEMMA MayHoldFirst ==
  ASSUME NEW A, NEW s
  PROVE  MayHold(A, s, 1) = A
  BY DEF MayHold

\* One step gains and drops.
LEMMA MayHoldNext ==
  ASSUME NEW A, NEW s, NEW k \in Nat \ {0}
  PROVE  MayHold(A, s, k + 1) = (MayHold(A, s, k) \cup Gains(s[k])) \ s[k].drop
  <1> SUFFICES ASSUME NEW x
               PROVE  x \in MayHold(A, s, k + 1) <=>
                         (x \in MayHold(A, s, k) \/ x \in Gains(s[k])) /\ x \notin s[k].drop
    OBVIOUS
  <1> DEFINE keeps(i, l) == \A j \in i..(l - 1) : x \notin s[j].drop
             gets(l)     == \E i \in 1..(l - 1) : x \in Gains(s[i]) /\ keeps(i, l)
  <1>1. \A i \in 1..k : keeps(i, k + 1) <=> keeps(i, k) /\ x \notin s[k].drop
    OBVIOUS
  <1>2. gets(k + 1) <=> (gets(k) \/ x \in Gains(s[k])) /\ x \notin s[k].drop
    <2>1. ASSUME gets(k + 1) PROVE (gets(k) \/ x \in Gains(s[k])) /\ x \notin s[k].drop
      BY <1>1, <2>1
    <2>2. ASSUME gets(k), x \notin s[k].drop PROVE gets(k + 1)
      BY <1>1, <2>2
    <2>3. ASSUME x \in Gains(s[k]), x \notin s[k].drop PROVE gets(k + 1)
      BY <1>1, <2>3
    <2> HIDE DEF gets
    <2> QED
      BY <2>1, <2>2, <2>3
  <1>3. x \in MayHold(A, s, k + 1) <=> (x \in A /\ keeps(1, k + 1)) \/ gets(k + 1)
    BY MayHoldMember
  <1>4. x \in MayHold(A, s, k) <=> (x \in A /\ keeps(1, k)) \/ gets(k)
    BY MayHoldMember
  <1> HIDE DEF keeps, gets
  <1> QED
    BY <1>1, <1>2, <1>3, <1>4

\* Who enters with more may hold more.
LEMMA MayHoldMonotone ==
  ASSUME NEW A, NEW B, A \subseteq B, NEW s, NEW k
  PROVE  MayHold(A, s, k) \subseteq MayHold(B, s, k)
  BY DEF MayHold

\* Only the steps before the k-th matter.
LEMMA MayHoldFront ==
  ASSUME NEW A, NEW s, NEW t, NEW k \in Nat, \A j \in 1..(k - 1) : s[j] = t[j]
  PROVE  MayHold(A, s, k) = MayHold(A, t, k)
  <1> SUFFICES ASSUME NEW x PROVE x \in MayHold(A, s, k) <=> x \in MayHold(A, t, k)
    OBVIOUS
  <1>1. \A i \in 1..(k - 1) : \A j \in i..(k - 1) : j \in 1..(k - 1)
    OBVIOUS
  <1> QED
    BY <1>1, MayHoldMember

\* Behind s, ladder t is entered with what s left.
LEMMA MayHoldBehind ==
  ASSUME NEW A, NEW s \in Seq(Rungs), NEW t \in Seq(Rungs)
  PROVE  \A k \in 1..(Len(t) + 1) :
            MayHold(A, s \o t, Len(s) + k) = MayHold(MayHold(A, s, Len(s) + 1), t, k)
  <1> DEFINE B    == MayHold(A, s, Len(s) + 1)
             P(k) == k <= Len(t) =>
                        MayHold(A, s \o t, Len(s) + k + 1) = MayHold(B, t, k + 1)
  <1>l. Len(s) \in Nat /\ Len(t) \in Nat
    BY LenProperties
  <1>1. P(0)
    <2>1. \A j \in 1..((Len(s) + 1) - 1) : s[j] = (s \o t)[j]
      BY <1>l, ConcatProperties
    <2>l. Len(s) + 1 \in Nat
      BY <1>l
    <2>2. MayHold(A, s, Len(s) + 1) = MayHold(A, s \o t, Len(s) + 1)
      BY <2>l, <2>1, MayHoldFront
    <2>3. MayHold(B, t, 1) = B
      BY MayHoldFirst
    <2> QED
      BY <1>l, <2>2, <2>3
  <1>2. ASSUME NEW k \in Nat, P(k) PROVE P(k + 1)
    <2> SUFFICES ASSUME k + 1 <= Len(t)
                 PROVE  MayHold(A, s \o t, Len(s) + (k + 1) + 1) = MayHold(B, t, (k + 1) + 1)
      OBVIOUS
    <2>1. MayHold(A, s \o t, Len(s) + k + 1) = MayHold(B, t, k + 1)
      BY <1>2, <1>l
    <2>2. (s \o t)[Len(s) + k + 1] = t[k + 1]
      BY <1>l, ConcatProperties
    <2>3. MayHold(B, t, (k + 1) + 1) = (MayHold(B, t, k + 1) \cup Gains(t[k + 1])) \ t[k + 1].drop
      <3> HIDE DEF B
      <3>1. k + 1 \in Nat \ {0}
        OBVIOUS
      <3> QED
        BY <3>1, MayHoldNext
    <2>4. Len(s) + k + 1 \in Nat \ {0}
      BY <1>l
    <2>5. MayHold(A, s \o t, (Len(s) + k + 1) + 1)
            = (MayHold(A, s \o t, Len(s) + k + 1) \cup Gains((s \o t)[Len(s) + k + 1]))
                 \ (s \o t)[Len(s) + k + 1].drop
      BY <2>4, MayHoldNext
    <2>6. (Len(s) + k + 1) + 1 = Len(s) + (k + 1) + 1
      BY <1>l
    <2> QED
      BY <2>1, <2>2, <2>3, <2>5, <2>6
  <1> HIDE DEF P
  <1>3. \A k \in Nat : P(k)
    <2> DEFINE Bad == {k \in Nat : ~P(k)}
    <2>1. ASSUME Bad # {} PROVE FALSE
      <3>1. PICK n \in Bad : \A k \in Bad : n <= k
        BY <2>1, Math!LeastNatural
      <3>2. n # 0
        BY <1>1
      <3>3. n - 1 \in Nat /\ n - 1 \notin Bad
        BY <3>1, <3>2
      <3> QED
        BY <1>2, <3>1, <3>3
    <2> QED
      BY <2>1
  <1>4. ASSUME NEW k \in 1..(Len(t) + 1)
        PROVE  MayHold(A, s \o t, Len(s) + k) = MayHold(B, t, k)
    <2>1. k - 1 \in Nat /\ k - 1 <= Len(t) /\ (k - 1) + 1 = k /\ Len(s) + (k - 1) + 1 = Len(s) + k
      BY <1>l
    <2>2. P(k - 1)
      BY <1>3, <2>1
    <2> QED
      BY <2>1, <2>2 DEF P
  <1> QED
    BY <1>4
\* Who holds less gives all of it back where more would be given back.
LEMMA GivesBackMonotone ==
  ASSUME NEW st, NEW own, NEW more, NEW kind, own \subseteq more, GivesAllBack(st, more, kind)
  PROVE  GivesAllBack(st, own, kind)
  BY DEF GivesAllBack

\* A sound ladder behind a sound one.
LEMMA SoundBehind ==
  ASSUME NEW A, NEW B, NEW kind, NEW s \in Seq(Rungs), NEW t \in Seq(Rungs),
         NEW last \in 1..(Len(t) + 1),
         Leads(A, s, B, kind), Sound(B, t, last, kind)
  PROVE  Sound(A, s \o t, Len(s) + last, kind)
  <1> DEFINE u == s \o t
  <1>l. Len(s) \in Nat /\ Len(t) \in Nat /\ Len(u) = Len(s) + Len(t) /\ last \in Nat /\ last >= 1
    BY LenProperties, ConcatProperties
  <1>d. DOMAIN s = 1..Len(s) /\ DOMAIN t = 1..Len(t) /\ DOMAIN u = 1..(Len(s) + Len(t))
    BY <1>l, ConcatProperties, LenProperties
  <1>s. \A k \in 1..Len(s) : u[k] = s[k]
    BY <1>l, ConcatProperties
  <1>t. \A k \in 1..Len(t) : u[Len(s) + k] = t[k]
    BY <1>l, ConcatProperties
  <1>1. ASSUME NEW k \in 1..Len(s)
        PROVE  GivesAllBack(u[k], MayHold(A, u, k), kind) /\ SkipsStayInside(u, k, Len(s) + last, kind)
    <2>1. GivesAllBack(s[k], MayHold(A, s, k), kind) /\ SkipsStayInside(s, k, Len(s) + 1, kind)
      BY <1>d DEF Leads, Sound
    <2>2. MayHold(A, s, k) = MayHold(A, u, k)
      <3>1. k \in Nat /\ \A j \in 1..(k - 1) : s[j] = u[j]
        BY <1>l, <1>s
      <3> HIDE DEF u
      <3> QED
        BY <3>1, MayHoldFront
    <2>3. SkipsStayInside(u, k, Len(s) + last, kind)
      <3>1. u[k] = s[k]
        BY <1>s
      <3>2. k + 3 <= Len(s) + 1 => u[k + 1] = s[k + 1] /\ u[k + 2] = s[k + 2] /\ k + 3 <= Len(s) + last
        BY <1>l, <1>s
      <3>3. k + 2 <= Len(s) + 1 => u[k + 1] = s[k + 1] /\ k + 2 <= Len(s) + last
        BY <1>l, <1>s
      <3>4. k < Len(s) + last
        BY <1>l
      <3> HIDE DEF u
      <3> QED
        BY <2>1, <3>1, <3>2, <3>3, <3>4 DEF SkipsStayInside
    <2> QED
      BY <1>s, <2>1, <2>2, <2>3
  <1>2. ASSUME NEW k \in 1..Len(t)
        PROVE  /\ GivesAllBack(u[Len(s) + k], MayHold(A, u, Len(s) + k), kind)
               /\ SkipsStayInside(u, Len(s) + k, Len(s) + last, kind)
    <2> DEFINE C == MayHold(A, s, Len(s) + 1)
    <2>1. GivesAllBack(t[k], MayHold(B, t, k), kind) /\ SkipsStayInside(t, k, last, kind)
      BY <1>d DEF Sound
    <2>2. MayHold(A, u, Len(s) + k) = MayHold(C, t, k)
      BY <1>l, MayHoldBehind
    <2>3. MayHold(C, t, k) \subseteq MayHold(B, t, k)
      <3>1. C \subseteq B
        BY DEF Leads
      <3> HIDE DEF C
      <3> QED
        BY <3>1, MayHoldMonotone
    <2>4. GivesAllBack(t[k], MayHold(C, t, k), kind)
      BY <2>1, <2>3, GivesBackMonotone
    <2>5. SkipsStayInside(u, Len(s) + k, Len(s) + last, kind)
      <3>1. u[Len(s) + k] = t[k]
        BY <1>t
      <3>2. k + 3 <= last => /\ u[(Len(s) + k) + 1] = t[k + 1] /\ u[(Len(s) + k) + 2] = t[k + 2]
                             /\ (Len(s) + k) + 3 <= Len(s) + last
        <4> SUFFICES ASSUME k + 3 <= last
                     PROVE  /\ u[(Len(s) + k) + 1] = t[k + 1] /\ u[(Len(s) + k) + 2] = t[k + 2]
                            /\ (Len(s) + k) + 3 <= Len(s) + last
          OBVIOUS
        <4>1. k + 1 \in 1..Len(t) /\ k + 2 \in 1..Len(t)
          BY <1>l
        <4>2. Len(s) + (k + 1) = (Len(s) + k) + 1 /\ Len(s) + (k + 2) = (Len(s) + k) + 2
          BY <1>l
        <4>3. (Len(s) + k) + 3 <= Len(s) + last
          BY <1>l
        <4> HIDE DEF u
        <4>4. u[Len(s) + (k + 1)] = t[k + 1] /\ u[Len(s) + (k + 2)] = t[k + 2]
          BY <1>t, <4>1
        <4> QED
          BY <4>2, <4>3, <4>4
      <3>3. k + 2 <= last => u[(Len(s) + k) + 1] = t[k + 1] /\ (Len(s) + k) + 2 <= Len(s) + last
        <4>1. k + 2 <= last => k + 1 \in 1..Len(t)
          BY <1>l
        <4>2. Len(s) + (k + 1) = (Len(s) + k) + 1
          BY <1>l
        <4> HIDE DEF u
        <4> QED
          BY <1>l, <1>t, <4>1, <4>2
      <3>4. k < last => Len(s) + k < Len(s) + last
        BY <1>l
      <3> HIDE DEF u
      <3> QED
        BY <2>1, <3>1, <3>2, <3>3, <3>4 DEF SkipsStayInside
    <2> HIDE DEF u, C
    <2> QED
      BY <1>t, <2>2, <2>4, <2>5
  <1>3. ASSUME NEW k \in DOMAIN u
        PROVE  GivesAllBack(u[k], MayHold(A, u, k), kind) /\ SkipsStayInside(u, k, Len(s) + last, kind)
    <2>1. k \in 1..Len(s) \/ (k - Len(s) \in 1..Len(t) /\ Len(s) + (k - Len(s)) = k)
      BY <1>d, <1>l
    <2> HIDE DEF u
    <2>2. CASE k \in 1..Len(s)
      BY <1>1, <2>2
    <2>3. CASE k - Len(s) \in 1..Len(t) /\ Len(s) + (k - Len(s)) = k
      <3> DEFINE m == k - Len(s)
      <3>1. m \in 1..Len(t) /\ Len(s) + m = k
        BY <2>3
      <3> HIDE DEF m
      <3> QED
        BY <1>2, <3>1
    <2> QED
      BY <2>1, <2>2, <2>3
  <1> QED
    BY <1>3 DEF Sound

\* Triples compose.
LEMMA Compose ==
  ASSUME NEW A, NEW s, NEW B, NEW t, NEW C, NEW kind,
         Leads(A, s, B, kind), Leads(B, t, C, kind)
  PROVE  Leads(A, s \o t, C, kind)
  <1>1. s \in Seq(Rungs) /\ t \in Seq(Rungs)
    BY DEF Leads
  <1>2. s \o t \in Seq(Rungs) /\ Len(s \o t) = Len(s) + Len(t) /\ Len(s) \in Nat /\ Len(t) \in Nat
    BY <1>1, ConcatProperties, LenProperties
  <1>3. Sound(A, s \o t, Len(s) + (Len(t) + 1), kind)
    <2>1. Len(t) + 1 \in 1..(Len(t) + 1) /\ Sound(B, t, Len(t) + 1, kind)
      BY <1>2 DEF Leads
    <2> QED
      BY <1>1, <2>1, SoundBehind
  <1>4. MayHold(A, s \o t, Len(s) + (Len(t) + 1)) \subseteq C
    <2>1. MayHold(A, s \o t, Len(s) + (Len(t) + 1)) = MayHold(MayHold(A, s, Len(s) + 1), t, Len(t) + 1)
      BY <1>1, <1>2, MayHoldBehind
    <2>2. MayHold(MayHold(A, s, Len(s) + 1), t, Len(t) + 1) \subseteq MayHold(B, t, Len(t) + 1)
      BY MayHoldMonotone DEF Leads
    <2> QED
      BY <2>1, <2>2 DEF Leads
  <1>5. Len(s \o t) + 1 = Len(s) + (Len(t) + 1)
    BY <1>2
  <1> QED
    BY <1>2, <1>3, <1>4, <1>5 DEF Leads

\* A triple before the end of a ladder.
LEMMA Closes ==
  ASSUME NEW A, NEW s, NEW B, NEW t, NEW kind, Leads(A, s, B, kind), Ends(B, t, kind)
  PROVE  Ends(A, s \o t, kind)
  <1>1. s \in Seq(Rungs) /\ t \in Seq(Rungs) /\ t # <<>>
    BY DEF Leads, Ends
  <1>2. s \o t \in Seq(Rungs) /\ Len(s \o t) = Len(s) + Len(t) /\ Len(s) \in Nat /\ Len(t) \in Nat \ {0}
    BY <1>1, ConcatProperties, LenProperties, EmptySeq
  <1>3. s \o t # <<>>
    BY <1>2, EmptySeq
  <1>4. Sound(A, s \o t, Len(s) + Len(t), kind)
    <2>1. Len(t) \in 1..(Len(t) + 1) /\ Sound(B, t, Len(t), kind)
      BY <1>2 DEF Ends
    <2> QED
      BY <1>1, <2>1, SoundBehind
  <1> QED
    BY <1>2, <1>3, <1>4 DEF Ends
-----------------------------------------------------------------------------
\* A ladder of several steps is the ladder of the first ones before the last.
LEMMA Two ==
  ASSUME NEW a, NEW b
  PROVE  <<a, b>> = <<a>> \o <<b>>
  <1> DEFINE S == {a, b}
  <1>1. <<a>> \in Seq(S) /\ <<b>> \in Seq(S) /\ <<a, b>> \in Seq(S)
    OBVIOUS
  <1>2. <<a>> \o <<b>> \in Seq(S) /\ Len(<<a>> \o <<b>>) = 2 /\ Len(<<a, b>>) = 2
    BY <1>1
  <1>3. \A i \in 1..2 : (<<a>> \o <<b>>)[i] = <<a, b>>[i]
    BY <1>1
  <1> QED
    BY <1>1, <1>2, <1>3, SeqEqual

LEMMA Three ==
  ASSUME NEW a, NEW b, NEW c
  PROVE  <<a, b, c>> = <<a, b>> \o <<c>>
  <1> DEFINE S == {a, b, c}
  <1>1. <<a, b>> \in Seq(S) /\ <<c>> \in Seq(S) /\ <<a, b, c>> \in Seq(S)
    OBVIOUS
  <1>2. <<a, b>> \o <<c>> \in Seq(S) /\ Len(<<a, b>> \o <<c>>) = 3 /\ Len(<<a, b, c>>) = 3
    BY <1>1
  <1>3. \A i \in 1..3 : (<<a, b>> \o <<c>>)[i] = <<a, b, c>>[i]
    BY <1>1
  <1> QED
    BY <1>1, <1>2, <1>3, SeqEqual

\* Leaving a ladder with less, and entering it with less.
LEMMA Weaken ==
  ASSUME NEW A, NEW B, NEW C, NEW s, NEW kind, Leads(A, s, B, kind), B \subseteq C
  PROVE  Leads(A, s, C, kind)
  BY DEF Leads

\* No step at all.
LEMMA NoRung ==
  ASSUME NEW A, NEW B, NEW kind, A \subseteq B
  PROVE  Leads(A, <<>>, B, kind)
  <1>1. <<>> \in Seq(Rungs) /\ Len(<<>>) = 0 /\ DOMAIN <<>> = {}
    OBVIOUS
  <1>2. MayHold(A, <<>>, 1) = A
    BY MayHoldFirst
  <1> QED
    BY <1>1, <1>2 DEF Leads, Sound

\* One step that skips nothing.
LEMMA OneRung ==
  ASSUME NEW A, NEW B, NEW kind, NEW st \in Rungs,
         st.act \in {"get", "search", "legacy", "read", "window"},
         st.act = "legacy" => kind = "batch",
         GivesAllBack(st, A, kind), (A \cup Gains(st)) \ st.drop \subseteq B
  PROVE  Leads(A, <<st>>, B, kind)
  <1> DEFINE s == <<st>>
  <1>1. s \in Seq(Rungs) /\ Len(s) = 1 /\ DOMAIN s = {1} /\ s[1] = st
    OBVIOUS
  <1> HIDE DEF s
  <1>2. MayHold(A, s, 1) = A
    BY MayHoldFirst
  <1>3. MayHold(A, s, 1 + 1) = (MayHold(A, s, 1) \cup Gains(s[1])) \ s[1].drop
    BY MayHoldNext
  <1>4. SkipsStayInside(s, 1, 2, kind)
    BY <1>1 DEF SkipsStayInside
  <1>5. Leads(A, s, B, kind)
    BY <1>1, <1>2, <1>3, <1>4 DEF Leads, Sound
  <1> QED
    BY <1>5 DEF s

\* One allocation of one thing, after which drop is freed.
LEMMA OneGet ==
  ASSUME NEW A, NEW B, NEW kind, NEW what \in Things,
         NEW undo \in SUBSET Things, NEW drop \in SUBSET Things,
         A \subseteq undo, (A \cup {what}) \ drop \subseteq B
  PROVE  Leads(A, <<GetThen({what}, undo, drop)>>, B, kind)
  <1> DEFINE st == GetThen({what}, undo, drop)
  <1>1. st \in Rungs
    BY DEF GetThen, Rungs
  <1>2. Gains(st) = {what} /\ st.drop = drop /\ st.act = "get" /\ st.get = {what} /\ st.undo = undo
    BY DEF GetThen, Gains
  <1> HIDE DEF st
  <1>3. GivesAllBack(st, A, kind)
    <2>1. \A got \in SUBSET st.get : got # st.get => got = {}
      BY <1>2
    <2> QED
      BY <1>2, <2>1 DEF GivesAllBack
  <1>4. Leads(A, <<st>>, B, kind)
    BY <1>1, <1>2, <1>3, OneRung
  <1> QED
    BY <1>4 DEF st

\* The same when nothing is freed.
LEMMA OneGetMore ==
  ASSUME NEW A, NEW B, NEW kind, NEW what \in Things, NEW undo \in SUBSET Things,
         A \subseteq undo, A \cup {what} \subseteq B
  PROVE  Leads(A, <<Get({what}, undo)>>, B, kind)
  <1>1. Get({what}, undo) = GetThen({what}, undo, {})
    BY DEF Get, GetThen
  <1>2. (A \cup {what}) \ {} \subseteq B /\ {} \in SUBSET Things
    OBVIOUS
  <1>3. Leads(A, <<GetThen({what}, undo, {})>>, B, kind)
    BY <1>2, OneGet
  <1> QED
    BY <1>1, <1>3

\* The publication, where the loser of a race frees undo.
LEMMA OnePublish ==
  ASSUME NEW A, NEW kind, NEW undo \in SUBSET Things, A \subseteq undo, A \subseteq Destroyed(kind)
  PROVE  Ends(A, <<Publish(undo)>>, kind)
  <1> DEFINE st == Publish(undo)
             s  == <<st>>
  <1>1. st \in Rungs
    BY DEF Publish, Rungs
  <1>2. st.act = "publish" /\ st.undo = undo
    BY DEF Publish
  <1> HIDE DEF st
  <1>3. s \in Seq(Rungs) /\ Len(s) = 1 /\ DOMAIN s = {1} /\ s[1] = st /\ s # <<>>
    BY <1>1
  <1> HIDE DEF s
  <1>4. MayHold(A, s, 1) = A
    BY MayHoldFirst
  <1>5. GivesAllBack(st, A, kind) /\ SkipsStayInside(s, 1, 1, kind)
    BY <1>2, <1>3 DEF GivesAllBack, SkipsStayInside
  <1>6. Ends(A, s, kind)
    BY <1>3, <1>4, <1>5 DEF Ends, Sound
  <1> QED
    BY <1>6 DEF s, st

\* The steps of a joint search: its build adds the kernel.
LEMMA Joint ==
  ASSUME NEW A, NEW kind, kind = "batch" => A = {}
  PROVE  Leads(A, JointSteps, A \cup {"jit"}, kind)
  <1> DEFINE s == JointSteps
  <1>1. \A act \in {"search", "found", "build", "read"} : Do(act) \in Rungs
    BY DEF Do, Rungs
  <1>2. /\ s \in Seq(Rungs) /\ Len(s) = 4 /\ DOMAIN s = 1..4
        /\ s[1] = Do("search") /\ s[2] = Do("found") /\ s[3] = Do("build") /\ s[4] = Do("read")
    BY <1>1 DEF JointSteps
  <1> HIDE DEF s
  <1>3. \A act : /\ Do(act).act = act /\ Do(act).get = {} /\ Do(act).drop = {}
    BY DEF Do
  <1>4. /\ Gains(s[1]) = {} /\ Gains(s[2]) = {} /\ Gains(s[3]) = {"jit"} /\ Gains(s[4]) = {}
    BY <1>2, <1>3 DEF Gains
  <1>5. MayHold(A, s, 1) = A
    BY MayHoldFirst
  <1>0. (A \cup {}) \ {} = A /\ s[1].drop = {} /\ s[2].drop = {} /\ s[3].drop = {}
    BY <1>2, <1>3
  <1>6. MayHold(A, s, 2) = A
    <2>1. MayHold(A, s, 1 + 1) = (MayHold(A, s, 1) \cup Gains(s[1])) \ s[1].drop
      BY MayHoldNext
    <2> QED
      BY <2>1, <1>0, <1>4, <1>5
  <1>7. MayHold(A, s, 3) = A
    <2>1. MayHold(A, s, 2 + 1) = (MayHold(A, s, 2) \cup Gains(s[2])) \ s[2].drop
      BY MayHoldNext
    <2> QED
      BY <2>1, <1>0, <1>4, <1>6
  <1>8. MayHold(A, s, 3 + 1) = A \cup {"jit"}
    <2>1. MayHold(A, s, 3 + 1) = (MayHold(A, s, 3) \cup Gains(s[3])) \ s[3].drop
      BY MayHoldNext
    <2> QED
      BY <2>1, <1>2, <1>3, <1>4, <1>7
  <1>9. MayHold(A, s, 4 + 1) = A \cup {"jit"}
    <2>1. MayHold(A, s, 4 + 1) = (MayHold(A, s, 4) \cup Gains(s[4])) \ s[4].drop
      BY MayHoldNext
    <2> QED
      BY <2>1, <1>2, <1>3, <1>4, <1>8
  <1>10. /\ GivesAllBack(s[1], MayHold(A, s, 1), kind) /\ GivesAllBack(s[2], MayHold(A, s, 2), kind)
         /\ GivesAllBack(s[3], MayHold(A, s, 3), kind) /\ GivesAllBack(s[4], MayHold(A, s, 4), kind)
    BY <1>2, <1>3, <1>5, <1>6, <1>7 DEF GivesAllBack
  <1>11. \A k \in 1..4 : SkipsStayInside(s, k, 5, kind)
    BY <1>2, <1>3 DEF SkipsStayInside
  <1>12. Sound(A, s, 5, kind)
    BY <1>2, <1>10, <1>11 DEF Sound
  <1> QED
    BY <1>2, <1>9, <1>12 DEF Leads, s

\* Two and three steps.
LEMMA LeadsTwo ==
  ASSUME NEW A, NEW B, NEW C, NEW a, NEW b, NEW kind,
         Leads(A, <<a>>, B, kind), Leads(B, <<b>>, C, kind)
  PROVE  Leads(A, <<a, b>>, C, kind)
  BY Compose, Two

LEMMA LeadsThree ==
  ASSUME NEW A, NEW B, NEW C, NEW D, NEW a, NEW b, NEW c, NEW kind,
         Leads(A, <<a>>, B, kind), Leads(B, <<b>>, C, kind), Leads(C, <<c>>, D, kind)
  PROVE  Leads(A, <<a, b, c>>, D, kind)
  <1>1. Leads(A, <<a, b>>, C, kind)
    BY LeadsTwo
  <1> QED
    BY <1>1, Compose, Three

LEMMA EndsTwo ==
  ASSUME NEW A, NEW B, NEW a, NEW b, NEW kind,
         Leads(A, <<a>>, B, kind), Ends(B, <<b>>, kind)
  PROVE  Ends(A, <<a, b>>, kind)
  BY Closes, Two

LEMMA EndsThree ==
  ASSUME NEW A, NEW B, NEW C, NEW a, NEW b, NEW c, NEW kind,
         Leads(A, <<a>>, B, kind), Leads(B, <<b>>, C, kind), Ends(C, <<c>>, kind)
  PROVE  Ends(A, <<a, b, c>>, kind)
  <1>1. Leads(A, <<a, b>>, C, kind)
    BY LeadsTwo
  <1> QED
    BY <1>1, Closes, Three
-----------------------------------------------------------------------------
\* The ladder of a windowed batch: the kernel is the search's, and what a
\* search leaves is one kernel whichever way it went.
LEMMA BatchEnds ==
  ASSUME NEW r, r.kind = "batch"
  PROVE  Ends({}, BatchSteps(r), "batch")
  <1> DEFINE kernel == IF r.n <= LegacyMax THEN <<Do("legacy"), Do("read")>> ELSE JointSteps
             rest   == <<Do("window"), Get({"plan"}, {"G2", "jit"}), Publish({"G2", "jit", "plan"})>>
  <1>1. Leads({}, <<Do("legacy"), Do("read")>>, {"jit"}, "batch")
    <2>1. Do("legacy") \in Rungs /\ Do("read") \in Rungs
      BY DEF Do, Rungs
    <2>2. Leads({}, <<Do("legacy")>>, {"jit"}, "batch")
      BY <2>1, OneRung DEF Do, Gains, GivesAllBack
    <2>3. Leads({"jit"}, <<Do("read")>>, {"jit"}, "batch")
      BY <2>1, OneRung DEF Do, Gains, GivesAllBack
    <2> QED
      BY <2>2, <2>3, LeadsTwo
  <1>2. Leads({}, JointSteps, {"jit"}, "batch")
    <2>1. Leads({}, JointSteps, {} \cup {"jit"}, "batch")
      BY Joint
    <2>2. {} \cup {"jit"} = {"jit"}
      OBVIOUS
    <2> QED
      BY <2>1, <2>2
  <1>3. Leads({}, kernel, {"jit"}, "batch")
    BY <1>1, <1>2
  <1>4. Ends({"jit"}, rest, "batch")
    <2>1. Do("window") \in Rungs
      BY DEF Do, Rungs
    <2>2. Leads({"jit"}, <<Do("window")>>, {"jit", "G2"}, "batch")
      BY <2>1, OneRung DEF Do, Gains, GivesAllBack
    <2>3. Leads({"jit", "G2"}, <<Get({"plan"}, {"G2", "jit"})>>, {"jit", "G2", "plan"}, "batch")
      <3>1. {"G2", "jit"} \in SUBSET Things /\ {"jit", "G2"} \subseteq {"G2", "jit"} /\ {"jit", "G2"} \cup {"plan"} \subseteq {"jit", "G2", "plan"} /\ "plan" \in Things
        BY DEF Things
      <3> QED
        BY <3>1, OneGetMore
    <2>4. Ends({"jit", "G2", "plan"}, <<Publish({"G2", "jit", "plan"})>>, "batch")
      <3>1. {"G2", "jit", "plan"} \in SUBSET Things /\ {"jit", "G2", "plan"} \subseteq {"G2", "jit", "plan"} /\ {"jit", "G2", "plan"} \subseteq Destroyed("batch")
        BY DEF Destroyed, Things
      <3> QED
        BY <3>1, OnePublish
    <2> QED
      BY <2>2, <2>3, <2>4, EndsThree
  <1>5. BatchSteps(r) = kernel \o rest
    BY DEF BatchSteps
  <1> HIDE DEF kernel, rest
  <1> QED
    BY <1>3, <1>4, <1>5, Closes

\* The ladder of an fp32 convolution, cyclic or overlap-save.
LEMMA ConvEnds ==
  ASSUME NEW r, NEW kind, kind # "batch"
  PROVE  Ends({}, ConvSteps(r), kind)
  <1> DEFINE spectrum == <<Get({"jit"}, {}), Get({"scratch"}, {"jit"}),
                           GetThen({"H"}, {"scratch", "jit"}, {"scratch"})>>
             kernel   == IF r.n >= FusedMin THEN JointSteps ELSE <<>>
             rest     == <<Get({"plan"}, {"H", "jit"}), Publish({"H", "jit", "plan"})>>
  <1>1. Leads({}, spectrum, {"jit", "H"}, kind)
    <2>1. Leads({}, <<Get({"jit"}, {})>>, {"jit"}, kind)
      <3>1. {} \in SUBSET Things /\ {} \subseteq {} /\ {} \cup {"jit"} \subseteq {"jit"} /\ "jit" \in Things
        BY DEF Things
      <3> QED
        BY <3>1, OneGetMore
    <2>2. Leads({"jit"}, <<Get({"scratch"}, {"jit"})>>, {"jit", "scratch"}, kind)
      <3>1. {"jit"} \in SUBSET Things /\ {"jit"} \subseteq {"jit"} /\ {"jit"} \cup {"scratch"} \subseteq {"jit", "scratch"} /\ "scratch" \in Things
        BY DEF Things
      <3> QED
        BY <3>1, OneGetMore
    <2>3. Leads({"jit", "scratch"}, <<GetThen({"H"}, {"scratch", "jit"}, {"scratch"})>>, {"jit", "H"}, kind)
      <3>1. /\ {"scratch", "jit"} \in SUBSET Things /\ {"scratch"} \in SUBSET Things
           /\ {"jit", "scratch"} \subseteq {"scratch", "jit"} /\ ({"jit", "scratch"} \cup {"H"}) \ {"scratch"} \subseteq {"jit", "H"} /\ "H" \in Things
        BY DEF Things
      <3> QED
        BY <3>1, OneGet
    <2> QED
      BY <2>1, <2>2, <2>3, LeadsThree
  <1>2. Leads({"jit", "H"}, kernel, {"jit", "H"}, kind)
    <2>1. Leads({"jit", "H"}, JointSteps, {"jit", "H"} \cup {"jit"}, kind)
      BY Joint
    <2>2. {"jit", "H"} \cup {"jit"} = {"jit", "H"}
      OBVIOUS
    <2>3. Leads({"jit", "H"}, <<>>, {"jit", "H"}, kind)
      BY NoRung
    <2> QED
      BY <2>1, <2>2, <2>3
  <1>3. Ends({"jit", "H"}, rest, kind)
    <2>1. Leads({"jit", "H"}, <<Get({"plan"}, {"H", "jit"})>>, {"jit", "H", "plan"}, kind)
      <3>1. {"H", "jit"} \in SUBSET Things /\ {"jit", "H"} \subseteq {"H", "jit"} /\ {"jit", "H"} \cup {"plan"} \subseteq {"jit", "H", "plan"} /\ "plan" \in Things
        BY DEF Things
      <3> QED
        BY <3>1, OneGetMore
    <2>2. Ends({"jit", "H", "plan"}, <<Publish({"H", "jit", "plan"})>>, kind)
      <3>1. {"H", "jit", "plan"} \in SUBSET Things /\ {"jit", "H", "plan"} \subseteq {"H", "jit", "plan"} /\ {"jit", "H", "plan"} \subseteq Destroyed(kind)
        BY DEF Destroyed, Things
      <3> QED
        BY <3>1, OnePublish
    <2> QED
      BY <2>1, <2>2, EndsTwo
  <1>4. ConvSteps(r) = spectrum \o kernel \o rest
    BY DEF ConvSteps
  <1> HIDE DEF spectrum, kernel, rest
  <1>5. Leads({}, spectrum \o kernel, {"jit", "H"}, kind)
    BY <1>1, <1>2, Compose
  <1> QED
    BY <1>3, <1>4, <1>5, Closes
-----------------------------------------------------------------------------
\* Several things at once, any part of which may be refused.
LEMMA OneGetAll ==
  ASSUME NEW A, NEW B, NEW kind, NEW what \in SUBSET Things, NEW undo \in SUBSET Things,
         A \cup what \subseteq undo, A \cup what \subseteq B
  PROVE  Leads(A, <<Get(what, undo)>>, B, kind)
  <1> DEFINE st == Get(what, undo)
  <1>1. st \in Rungs
    BY DEF Get, Rungs
  <1>2. Gains(st) = what /\ st.drop = {} /\ st.act = "get" /\ st.get = what /\ st.undo = undo
    BY DEF Get, Gains
  <1> HIDE DEF st
  <1>3. GivesAllBack(st, A, kind)
    BY <1>2 DEF GivesAllBack
  <1>4. Leads(A, <<st>>, B, kind)
    BY <1>1, <1>2, <1>3, OneRung
  <1> QED
    BY <1>4 DEF st

\* A step that only frees.
LEMMA OneDrop ==
  ASSUME NEW A, NEW B, NEW kind, NEW drop \in SUBSET Things, A \ drop \subseteq B
  PROVE  Leads(A, <<GetThen({}, {}, drop)>>, B, kind)
  <1> DEFINE st == GetThen({}, {}, drop)
  <1>1. st \in Rungs
    BY DEF GetThen, Rungs
  <1>2. Gains(st) = {} /\ st.drop = drop /\ st.act = "get" /\ st.get = {}
    BY DEF GetThen, Gains
  <1> HIDE DEF st
  <1>3. GivesAllBack(st, A, kind)
    BY <1>2 DEF GivesAllBack
  <1>4. Leads(A, <<st>>, B, kind)
    BY <1>1, <1>2, <1>3, OneRung
  <1> QED
    BY <1>4 DEF st

\* The return of a plan that is not shared.
LEMMA OneReturn ==
  ASSUME NEW A, NEW kind, A \subseteq Destroyed(kind)
  PROVE  Ends(A, <<Do("return")>>, kind)
  <1> DEFINE st == Do("return")
             s  == <<st>>
  <1>1. st \in Rungs /\ st.act = "return"
    BY DEF Do, Rungs
  <1> HIDE DEF st
  <1>2. s \in Seq(Rungs) /\ Len(s) = 1 /\ DOMAIN s = {1} /\ s[1] = st /\ s # <<>>
    BY <1>1
  <1> HIDE DEF s
  <1>3. MayHold(A, s, 1) = A
    BY MayHoldFirst
  <1>4. GivesAllBack(st, A, kind) /\ SkipsStayInside(s, 1, 1, kind)
    BY <1>1, <1>2 DEF GivesAllBack, SkipsStayInside
  <1>5. Ends(A, s, kind)
    BY <1>2, <1>3, <1>4 DEF Ends, Sound
  <1> QED
    BY <1>5 DEF s, st

\* The ladder of a plan of one kernel, or of none.
LEMMA OwnedEnds ==
  ASSUME NEW own, own \in {{}, {"jit"}, {"adapt"}}, NEW kind
  PROVE  Ends({}, OwnedBy(own), kind)
  <1> DEFINE first == Get(own, {})
  <1>1. Leads({}, <<first>>, {"jit", "adapt"}, kind)
    <2>1. CASE own = {}
      <3>1. Get({}, {}) = GetThen({}, {}, {})
        BY DEF Get, GetThen
      <3>2. {} \ {} \subseteq {"jit", "adapt"} /\ {} \in SUBSET Things
        OBVIOUS
      <3>3. Leads({}, <<GetThen({}, {}, {})>>, {"jit", "adapt"}, kind)
        BY <3>2, OneDrop
      <3> QED
        BY <2>1, <3>1, <3>3
    <2>2. CASE own \in {{"jit"}, {"adapt"}}
      <3>1. PICK what \in {"jit", "adapt"} : own = {what}
        BY <2>2
      <3>2. /\ what \in Things /\ {} \in SUBSET Things
            /\ {} \subseteq {} /\ {} \cup {what} \subseteq {"jit", "adapt"}
        BY DEF Things
      <3>3. Leads({}, <<Get({what}, {})>>, {"jit", "adapt"}, kind)
        BY <3>2, OneGetMore
      <3> QED
        BY <3>1, <3>3
    <2> QED
      BY <2>1, <2>2
  <1>2. Leads({"jit", "adapt"}, <<Get({"plan"}, {"jit", "adapt"})>>,
             {"jit", "adapt", "plan"}, kind)
    <2>1. /\ {"jit", "adapt"} \in SUBSET Things /\ {"jit", "adapt"} \subseteq {"jit", "adapt"}
          /\ {"jit", "adapt"} \cup {"plan"} \subseteq {"jit", "adapt", "plan"} /\ "plan" \in Things
      BY DEF Things
    <2> QED
      BY <2>1, OneGetMore
  <1>3. Ends({"jit", "adapt", "plan"}, <<Publish({"jit", "adapt", "plan"})>>, kind)
    <2>1. /\ {"jit", "adapt", "plan"} \in SUBSET Things /\ {"jit", "adapt", "plan"} \subseteq {"jit", "adapt", "plan"}
          /\ {"jit", "adapt", "plan"} \subseteq Destroyed(kind)
      BY DEF Destroyed, Things
    <2> QED
      BY <2>1, OnePublish
  <1> HIDE DEF first
  <1>4. Ends({}, <<first, Get({"plan"}, {"jit", "adapt"}), Publish({"jit", "adapt", "plan"})>>, kind)
    BY <1>1, <1>2, <1>3, EndsThree
  <1> QED
    BY <1>4 DEF first, OwnedBy

\* The ladder of an fp64 convolution.  Whatever the route, the call holds at
\* most the kernels, the taps and their padded spectrum before it gets the
\* buffers, and the plan keeps all of it but the spectrum.
LEMMA Conv64Ends ==
  ASSUME NEW r
  PROVE  Ends({}, Conv64Steps(r), "conv64")
  <1> DEFINE built  == {"jit2", "jit", "h64", "hPad"}
             kernel == CASE r.variant = "weld" -> <<Get({"jit"}, {})>>
                         [] r.variant = "tiny" -> <<>>
                         [] r.variant \notin {"weld", "tiny"} ->
                              <<Get({"hPad"}, {}), Get({"jit"}, {"hPad"})>>
             extra  == CASE r.variant = "corr" ->
                              <<Get({"h2"}, {"jit", "hPad"}),
                                GetThen({"jit2"}, {"h2", "jit2", "jit", "hPad"}, {"h2"})>>
                         [] r.variant \in {"tailcorr", "tiny"} -> <<Get({"h64"}, {"jit", "hPad"})>>
                         [] r.variant \notin {"corr", "tailcorr", "tiny"} -> <<>>
             padded == IF r.variant \in {"pad", "corr", "tailcorr", "ola"}
                       THEN <<Get({"buf64"}, built)>> ELSE <<>>
             second == IF r.variant \in {"corr", "tailcorr", "ola"}
                       THEN <<Get({"buf2"}, built \cup {"buf64"})>> ELSE <<>>
             rest   == <<GetThen({}, {}, {"hPad"}),
                         Get({"plan"}, {"buf2", "buf64", "jit2", "jit", "h64"}),
                         Publish({"buf2", "buf64", "jit2", "jit", "h64", "plan"})>>
  <1>1. Leads({}, kernel, {"jit", "hPad"}, "conv64")
    <2>1. Leads({}, <<Get({"jit"}, {})>>,
               {"jit", "hPad"}, "conv64")
      <3>1. /\ {} \in SUBSET Things /\ {} \subseteq {}
            /\ {} \cup {"jit"} \subseteq {"jit", "hPad"} /\ "jit" \in Things
        BY DEF Things
      <3> QED
        BY <3>1, OneGetMore
    <2>2. Leads({}, <<>>, {"jit", "hPad"}, "conv64")
      <3>1. {} \subseteq {"jit", "hPad"}
        OBVIOUS
      <3> QED
        BY <3>1, NoRung
    <2>3. Leads({}, <<Get({"hPad"}, {})>>,
               {"hPad"}, "conv64")
      <3>1. /\ {} \in SUBSET Things /\ {} \subseteq {}
            /\ {} \cup {"hPad"} \subseteq {"hPad"} /\ "hPad" \in Things
        BY DEF Things
      <3> QED
        BY <3>1, OneGetMore
    <2>4. Leads({"hPad"}, <<Get({"jit"}, {"hPad"})>>,
               {"jit", "hPad"}, "conv64")
      <3>1. /\ {"hPad"} \in SUBSET Things /\ {"hPad"} \subseteq {"hPad"}
            /\ {"hPad"} \cup {"jit"} \subseteq {"jit", "hPad"} /\ "jit" \in Things
        BY DEF Things
      <3> QED
        BY <3>1, OneGetMore
    <2>5. Leads({}, <<Get({"hPad"}, {}), Get({"jit"}, {"hPad"})>>, {"jit", "hPad"}, "conv64")
      BY <2>3, <2>4, LeadsTwo
    <2>6. CASE r.variant = "weld"
      BY <2>1, <2>6
    <2>7. CASE r.variant = "tiny"
      BY <2>2, <2>7
    <2>8. CASE r.variant \notin {"weld", "tiny"}
      BY <2>5, <2>8
    <2> QED
      BY <2>6, <2>7, <2>8
  <1>2. Leads({"jit", "hPad"}, extra, built, "conv64")
    <2>1. Leads({"jit", "hPad"}, <<Get({"h2"}, {"jit", "hPad"})>>,
               {"h2", "jit", "hPad"}, "conv64")
      <3>1. /\ {"jit", "hPad"} \in SUBSET Things /\ {"jit", "hPad"} \subseteq {"jit", "hPad"}
            /\ {"jit", "hPad"} \cup {"h2"} \subseteq {"h2", "jit", "hPad"} /\ "h2" \in Things
        BY DEF Things
      <3> QED
        BY <3>1, OneGetMore
    <2>2. Leads({"h2", "jit", "hPad"}, <<GetThen({"jit2"}, {"h2", "jit2", "jit", "hPad"}, {"h2"})>>,
               {"jit2", "jit", "h64", "hPad"}, "conv64")
      <3>1. /\ {"h2", "jit2", "jit", "hPad"} \in SUBSET Things /\ {"h2"} \in SUBSET Things /\ {"h2", "jit", "hPad"} \subseteq {"h2", "jit2", "jit", "hPad"}
            /\ ({"h2", "jit", "hPad"} \cup {"jit2"}) \ {"h2"} \subseteq {"jit2", "jit", "h64", "hPad"} /\ "jit2" \in Things
        BY DEF Things
      <3> QED
        BY <3>1, OneGet
    <2>3. Leads({"jit", "hPad"}, <<Get({"h64"}, {"jit", "hPad"})>>,
               {"jit2", "jit", "h64", "hPad"}, "conv64")
      <3>1. /\ {"jit", "hPad"} \in SUBSET Things /\ {"jit", "hPad"} \subseteq {"jit", "hPad"}
            /\ {"jit", "hPad"} \cup {"h64"} \subseteq {"jit2", "jit", "h64", "hPad"} /\ "h64" \in Things
        BY DEF Things
      <3> QED
        BY <3>1, OneGetMore
    <2>4. Leads({"jit", "hPad"}, <<>>, {"jit2", "jit", "h64", "hPad"}, "conv64")
      <3>1. {"jit", "hPad"} \subseteq {"jit2", "jit", "h64", "hPad"}
        OBVIOUS
      <3> QED
        BY <3>1, NoRung
    <2>5. Leads({"jit", "hPad"},
                <<Get({"h2"}, {"jit", "hPad"}),
                  GetThen({"jit2"}, {"h2", "jit2", "jit", "hPad"}, {"h2"})>>, built, "conv64")
      BY <2>1, <2>2, LeadsTwo
    <2>6. CASE r.variant = "corr"
      BY <2>5, <2>6
    <2>7. CASE r.variant \in {"tailcorr", "tiny"}
      BY <2>3, <2>7
    <2>8. CASE r.variant \notin {"corr", "tailcorr", "tiny"}
      BY <2>4, <2>8
    <2> QED
      BY <2>6, <2>7, <2>8
  <1>3. Leads(built, padded, built \cup {"buf64"}, "conv64")
    <2>1. /\ built \in SUBSET Things /\ built \subseteq built
          /\ built \cup {"buf64"} \subseteq built \cup {"buf64"} /\ "buf64" \in Things
          /\ built \subseteq built \cup {"buf64"}
      BY DEF Things
    <2>2. padded \in {<<Get({"buf64"}, built)>>, <<>>}
      OBVIOUS
    <2> HIDE DEF built, padded
    <2>3. Leads(built, <<Get({"buf64"}, built)>>, built \cup {"buf64"}, "conv64")
      BY <2>1, OneGetMore
    <2>4. Leads(built, <<>>, built \cup {"buf64"}, "conv64")
      BY <2>1, NoRung
    <2> QED
      BY <2>2, <2>3, <2>4
  <1>4. Leads(built \cup {"buf64"}, second, {"jit2", "jit", "h64", "hPad", "buf64", "buf2"}, "conv64")
    <2> DEFINE more == built \cup {"buf64"}
               all  == {"jit2", "jit", "h64", "hPad", "buf64", "buf2"}
    <2>1. /\ more \in SUBSET Things /\ more \subseteq more
          /\ more \cup {"buf2"} \subseteq all /\ "buf2" \in Things /\ more \subseteq all
      BY DEF Things
    <2>2. second \in {<<Get({"buf2"}, more)>>, <<>>}
      OBVIOUS
    <2> HIDE DEF built, second, more, all
    <2>3. Leads(more, <<Get({"buf2"}, more)>>, all, "conv64")
      BY <2>1, OneGetMore
    <2>4. Leads(more, <<>>, all, "conv64")
      BY <2>1, NoRung
    <2>5. Leads(more, second, all, "conv64")
      BY <2>2, <2>3, <2>4
    <2> QED
      BY <2>5 DEF more, all
  <1>5. Ends({"jit2", "jit", "h64", "hPad", "buf64", "buf2"}, rest, "conv64")
    <2>1. Leads({"jit2", "jit", "h64", "hPad", "buf64", "buf2"}, <<GetThen({}, {}, {"hPad"})>>,
                {"buf2", "buf64", "jit2", "jit", "h64"}, "conv64")
      <3>1. /\ {"hPad"} \in SUBSET Things
            /\ {"jit2", "jit", "h64", "hPad", "buf64", "buf2"} \ {"hPad"} \subseteq {"buf2", "buf64", "jit2", "jit", "h64"}
        BY DEF Things
      <3> QED
        BY <3>1, OneDrop
    <2>2. Leads({"buf2", "buf64", "jit2", "jit", "h64"}, <<Get({"plan"}, {"buf2", "buf64", "jit2", "jit", "h64"})>>,
               {"buf2", "buf64", "jit2", "jit", "h64", "plan"}, "conv64")
      <3>1. /\ {"buf2", "buf64", "jit2", "jit", "h64"} \in SUBSET Things /\ {"buf2", "buf64", "jit2", "jit", "h64"} \subseteq {"buf2", "buf64", "jit2", "jit", "h64"}
            /\ {"buf2", "buf64", "jit2", "jit", "h64"} \cup {"plan"} \subseteq {"buf2", "buf64", "jit2", "jit", "h64", "plan"} /\ "plan" \in Things
        BY DEF Things
      <3> QED
        BY <3>1, OneGetMore
    <2>3. Ends({"buf2", "buf64", "jit2", "jit", "h64", "plan"}, <<Publish({"buf2", "buf64", "jit2", "jit", "h64", "plan"})>>, "conv64")
      <3>1. /\ {"buf2", "buf64", "jit2", "jit", "h64", "plan"} \in SUBSET Things /\ {"buf2", "buf64", "jit2", "jit", "h64", "plan"} \subseteq {"buf2", "buf64", "jit2", "jit", "h64", "plan"}
            /\ {"buf2", "buf64", "jit2", "jit", "h64", "plan"} \subseteq Destroyed("conv64")
        BY DEF Destroyed, Things
      <3> QED
        BY <3>1, OnePublish
    <2> QED
      BY <2>1, <2>2, <2>3, EndsThree
  <1>6. Conv64Steps(r) = kernel \o extra \o padded \o second \o rest
    BY DEF Conv64Steps
  <1> HIDE DEF built, kernel, extra, padded, second, rest
  <1>7. Leads({}, kernel \o extra, built, "conv64")
    BY <1>1, <1>2, Compose
  <1>8. Leads({}, kernel \o extra \o padded, built \cup {"buf64"}, "conv64")
    BY <1>3, <1>7, Compose
  <1>9. Leads({}, kernel \o extra \o padded \o second, {"jit2", "jit", "h64", "hPad", "buf64", "buf2"}, "conv64")
    BY <1>4, <1>8, Compose
  <1> QED
    BY <1>5, <1>6, <1>9, Closes

\* The ladder of an fp64 overlap-save plan.
LEMMA Linear64Ends ==
  ASSUME NEW r
  PROVE  Ends({}, Linear64Steps(r), "lin64")
  <1> DEFINE kernel == IF r.variant = "tiny" THEN <<Get({"h64"}, {})>>
                       ELSE <<Get({"hPad"}, {}), GetThen({"jit"}, {"hPad"}, {"hPad"})>>
             rest   == <<Get({"tail"}, {"jit", "h64"}), Get({"plan"}, {"tail", "jit", "h64"}),
                         Publish({"tail", "h64", "jit", "plan"})>>
  <1>1. Leads({}, kernel, {"jit", "h64"}, "lin64")
    <2>1. Leads({}, <<Get({"h64"}, {})>>,
               {"jit", "h64"}, "lin64")
      <3>1. /\ {} \in SUBSET Things /\ {} \subseteq {}
            /\ {} \cup {"h64"} \subseteq {"jit", "h64"} /\ "h64" \in Things
        BY DEF Things
      <3> QED
        BY <3>1, OneGetMore
    <2>2. Leads({}, <<Get({"hPad"}, {})>>,
               {"hPad"}, "lin64")
      <3>1. /\ {} \in SUBSET Things /\ {} \subseteq {}
            /\ {} \cup {"hPad"} \subseteq {"hPad"} /\ "hPad" \in Things
        BY DEF Things
      <3> QED
        BY <3>1, OneGetMore
    <2>3. Leads({"hPad"}, <<GetThen({"jit"}, {"hPad"}, {"hPad"})>>,
               {"jit", "h64"}, "lin64")
      <3>1. /\ {"hPad"} \in SUBSET Things /\ {"hPad"} \in SUBSET Things /\ {"hPad"} \subseteq {"hPad"}
            /\ ({"hPad"} \cup {"jit"}) \ {"hPad"} \subseteq {"jit", "h64"} /\ "jit" \in Things
        BY DEF Things
      <3> QED
        BY <3>1, OneGet
    <2>4. Leads({}, <<Get({"hPad"}, {}), GetThen({"jit"}, {"hPad"}, {"hPad"})>>,
                {"jit", "h64"}, "lin64")
      BY <2>2, <2>3, LeadsTwo
    <2> QED
      BY <2>1, <2>4
  <1>2. Ends({"jit", "h64"}, rest, "lin64")
    <2>1. Leads({"jit", "h64"}, <<Get({"tail"}, {"jit", "h64"})>>,
               {"tail", "jit", "h64"}, "lin64")
      <3>1. /\ {"jit", "h64"} \in SUBSET Things /\ {"jit", "h64"} \subseteq {"jit", "h64"}
            /\ {"jit", "h64"} \cup {"tail"} \subseteq {"tail", "jit", "h64"} /\ "tail" \in Things
        BY DEF Things
      <3> QED
        BY <3>1, OneGetMore
    <2>2. Leads({"tail", "jit", "h64"}, <<Get({"plan"}, {"tail", "jit", "h64"})>>,
               {"tail", "h64", "jit", "plan"}, "lin64")
      <3>1. /\ {"tail", "jit", "h64"} \in SUBSET Things /\ {"tail", "jit", "h64"} \subseteq {"tail", "jit", "h64"}
            /\ {"tail", "jit", "h64"} \cup {"plan"} \subseteq {"tail", "h64", "jit", "plan"} /\ "plan" \in Things
        BY DEF Things
      <3> QED
        BY <3>1, OneGetMore
    <2>3. Ends({"tail", "h64", "jit", "plan"}, <<Publish({"tail", "h64", "jit", "plan"})>>, "lin64")
      <3>1. /\ {"tail", "h64", "jit", "plan"} \in SUBSET Things /\ {"tail", "h64", "jit", "plan"} \subseteq {"tail", "h64", "jit", "plan"}
            /\ {"tail", "h64", "jit", "plan"} \subseteq Destroyed("lin64")
        BY DEF Destroyed, Things
      <3> QED
        BY <3>1, OnePublish
    <2> QED
      BY <2>1, <2>2, <2>3, EndsThree
  <1>3. Linear64Steps(r) = kernel \o rest
    BY DEF Linear64Steps
  <1> HIDE DEF kernel, rest
  <1> QED
    BY <1>1, <1>2, <1>3, Closes

\* The ladder of a dispatch plan: the plan first, then what its leg needs.
LEMMA DispatchEnds ==
  ASSUME NEW r
  PROVE  Ends({}, DispatchSteps(r), "dispatch")
  <1> DEFINE plain == <<Get({"plan"}, {})>>
             leg   == IF r.variant = "direct" THEN <<Get({"h_copy"}, {"plan"})>>
                      ELSE <<Get({"sub"}, {"plan"}),
                             Get({"work", "blk"}, {"sub", "work", "blk", "plan"})>>
             all   == {"plan", "h_copy", "sub", "work", "blk"}
  <1>1. Leads({}, plain, {"plan"}, "dispatch")
    <2>1. Leads({}, <<Get({"plan"}, {})>>,
               {"plan"}, "dispatch")
      <3>1. /\ {} \in SUBSET Things /\ {} \subseteq {}
            /\ {} \cup {"plan"} \subseteq {"plan"} /\ "plan" \in Things
        BY DEF Things
      <3> QED
        BY <3>1, OneGetMore
    <2> QED
      BY <2>1
  <1>2. Leads({"plan"}, leg, all, "dispatch")
    <2>1. Leads({"plan"}, <<Get({"h_copy"}, {"plan"})>>,
               {"plan", "h_copy", "sub", "work", "blk"}, "dispatch")
      <3>1. /\ {"plan"} \in SUBSET Things /\ {"plan"} \subseteq {"plan"}
            /\ {"plan"} \cup {"h_copy"} \subseteq {"plan", "h_copy", "sub", "work", "blk"} /\ "h_copy" \in Things
        BY DEF Things
      <3> QED
        BY <3>1, OneGetMore
    <2>2. Leads({"plan"}, <<Get({"sub"}, {"plan"})>>,
               {"plan", "sub"}, "dispatch")
      <3>1. /\ {"plan"} \in SUBSET Things /\ {"plan"} \subseteq {"plan"}
            /\ {"plan"} \cup {"sub"} \subseteq {"plan", "sub"} /\ "sub" \in Things
        BY DEF Things
      <3> QED
        BY <3>1, OneGetMore
    <2>3. Leads({"plan", "sub"}, <<Get({"work", "blk"}, {"sub", "work", "blk", "plan"})>>, all, "dispatch")
      <3>1. /\ {"work", "blk"} \in SUBSET Things
            /\ {"sub", "work", "blk", "plan"} \in SUBSET Things
            /\ {"plan", "sub"} \cup {"work", "blk"} \subseteq {"sub", "work", "blk", "plan"}
            /\ {"plan", "sub"} \cup {"work", "blk"} \subseteq all
        BY DEF Things
      <3> HIDE DEF all
      <3> QED
        BY <3>1, OneGetAll
    <2>4. Leads({"plan"}, <<Get({"sub"}, {"plan"}),
                            Get({"work", "blk"}, {"sub", "work", "blk", "plan"})>>, all, "dispatch")
      <3> HIDE DEF all
      <3> QED
        BY <2>2, <2>3, LeadsTwo
    <2> QED
      BY <2>1, <2>4
  <1>3. Ends(all, <<Do("return")>>, "dispatch")
    <2>1. all \subseteq Destroyed("dispatch")
      BY DEF Destroyed
    <2> QED
      BY <2>1, OneReturn
  <1>4. DispatchSteps(r) = plain \o leg \o <<Do("return")>>
    BY DEF DispatchSteps
  <1> HIDE DEF plain, leg, all
  <1>5. Leads({}, plain \o leg, all, "dispatch")
    BY <1>1, <1>2, Compose
  <1> QED
    BY <1>3, <1>4, <1>5, Closes

\* Every ladder of the code gives everything back, and is at most what it
\* gained before.
LEMMA LaddersEnd ==
  ASSUME NEW r \in Requests
  PROVE  Ends({}, Steps(r), r.kind)
  <1>1. r.kind \in {"forward", "gauss", "inverse", "conv", "linear",
                    "fp64", "conv64", "inv64", "lin64", "batch", "dispatch"}
    BY RequestsAssumption DEF HostKinds, Kinds
  <1>2. CASE r.kind = "batch"
    BY <1>2, BatchEnds DEF Steps
  <1>3. CASE r.kind = "conv"
    BY <1>3, ConvEnds DEF Steps
  <1>4. CASE r.kind = "linear"
    BY <1>4, ConvEnds DEF Steps, LinearSteps
  <1>5. CASE r.kind = "conv64"
    BY <1>5, Conv64Ends DEF Steps
  <1>6. CASE r.kind = "lin64"
    BY <1>6, Linear64Ends DEF Steps
  <1>7. CASE r.kind = "dispatch"
    BY <1>7, DispatchEnds DEF Steps
  <1>8. CASE r.kind = "fp64"
    BY <1>8, OwnedEnds DEF Steps, Plain64Steps
  <1>9. CASE r.kind = "inv64"
    BY <1>9, OwnedEnds DEF Steps, Inverse64Steps
  <1>10. CASE r.kind \in {"forward", "gauss", "inverse"}
    BY <1>10, OwnedEnds DEF Steps, PlainSteps
  <1> QED
    BY <1>1, <1>2, <1>3, <1>4, <1>5, <1>6, <1>7, <1>8, <1>9, <1>10

\* What is known of a busy call's step.
LEMMA StepFacts ==
  ASSUME IInv, NEW s \in Sessions, Busy(s)
  PROVE  /\ req[s] \in Requests
         /\ Step(s) \in Rungs
         /\ held[s] \subseteq MayHold({}, Steps(req[s]), at[s])
         /\ GivesAllBack(Step(s), MayHold({}, Steps(req[s]), at[s]), req[s].kind)
         /\ SkipsStayInside(Steps(req[s]), at[s], Len(Steps(req[s])), req[s].kind)
         /\ at[s] \in 1..Len(Steps(req[s])) /\ Len(Steps(req[s])) \in Nat
  <1>1. /\ req[s] \in Requests /\ at[s] \in DOMAIN Steps(req[s])
        /\ held[s] \subseteq MayHold({}, Steps(req[s]), at[s])
    BY DEF IInv, HoldsLittle, Busy
  <1>2. Ends({}, Steps(req[s]), req[s].kind)
    BY <1>1, LaddersEnd
  <1>3. DOMAIN Steps(req[s]) = 1..Len(Steps(req[s])) /\ Len(Steps(req[s])) \in Nat
    BY <1>2, LenProperties DEF Ends
  <1>4. Steps(req[s])[at[s]] \in Rungs
    BY <1>1, <1>2, <1>3, ElementOfSeq DEF Ends
  <1> QED
    BY <1>1, <1>2, <1>3, <1>4 DEF Ends, Sound, Step

\* Moving k steps on, past steps that drop nothing.
LEMMA MovesOn ==
  ASSUME NEW st \in Seq(Rungs), NEW k \in 1..Len(st), NEW own,
         own \subseteq MayHold({}, st, k)
  PROVE  /\ (own \cup Gains(st[k])) \ st[k].drop \subseteq MayHold({}, st, k + 1)
         /\ st[k].act # "get" => own \cup Gains(st[k]) \subseteq MayHold({}, st, k + 1)
  <1>1. MayHold({}, st, k + 1) = (MayHold({}, st, k) \cup Gains(st[k])) \ st[k].drop
    <2>1. k \in Nat \ {0}
      BY LenProperties
    <2> QED
      BY <2>1, MayHoldNext
  <1>2. st[k].act # "get" => st[k].drop = {}
    <2>1. st[k] \in Rungs
      BY ElementOfSeq
    <2> QED
      BY <2>1 DEF Rungs
  <1> QED
    BY <1>1, <1>2

\* A step of one call leaves the others as they were.
LEMMA OneCall ==
  ASSUME IInv, NEW s \in Sessions, Shape', HoldsLittle(s)',
         \A t \in Sessions : t # s => /\ phase'[t] = phase[t] /\ at'[t] = at[t]
                                      /\ req'[t] = req[t] /\ held'[t] = held[t]
  PROVE  IInv'
  <1>1. ASSUME NEW t \in Sessions, t # s PROVE HoldsLittle(t)'
    BY <1>1 DEF IInv, HoldsLittle
  <1> QED
    BY <1>1 DEF IInv

\* A call that returns having given everything back.
LEMMA ReturnsEmpty ==
  ASSUME IInv, NEW s \in Sessions, NEW got, NEW undo, GiveBack(s, got, undo),
         held[s] \cup got \subseteq undo
  PROVE  IInv'
  <1>1. Shape'
    BY DEF IInv, Shape, GiveBack
  <1>2. phase'[s] = "idle" /\ at'[s] = 1 /\ held'[s] = {}
    BY DEF IInv, Shape, GiveBack
  <1>3. HoldsLittle(s)'
    BY <1>2 DEF HoldsLittle
  <1>4. \A t \in Sessions : t # s => /\ phase'[t] = phase[t] /\ at'[t] = at[t]
                                     /\ req'[t] = req[t] /\ held'[t] = held[t]
    BY DEF IInv, Shape, GiveBack
  <1> QED
    BY <1>1, <1>3, <1>4, OneCall

\* A call that goes on with what it may hold there.
LEMMA GoesOn ==
  ASSUME IInv, NEW s \in Sessions, Busy(s), NEW k \in Nat, Move(s, k), req' = req,
         NEW own, held' = [held EXCEPT ![s] = own],
         at[s] + k <= Len(Steps(req[s])),
         own \subseteq MayHold({}, Steps(req[s]), at[s] + k)
  PROVE  IInv'
  <1>1. Shape'
    BY DEF IInv, Shape, Move
  <1>2. phase'[s] = "busy" /\ at'[s] = at[s] + k /\ held'[s] = own /\ req'[s] = req[s]
    BY DEF IInv, Shape, Move, Busy
  <1>3. req[s] \in Requests /\ at[s] + k \in DOMAIN Steps(req[s])
    <2>1. req[s] \in Requests /\ at[s] \in 1..Len(Steps(req[s])) /\ Len(Steps(req[s])) \in Nat
      BY StepFacts
    <2>2. DOMAIN Steps(req[s]) = 1..Len(Steps(req[s]))
      BY <2>1, LaddersEnd, LenProperties DEF Ends
    <2> QED
      BY <2>1, <2>2
  <1>4. HoldsLittle(s)'
    BY <1>2, <1>3 DEF HoldsLittle
  <1>5. \A t \in Sessions : t # s => /\ phase'[t] = phase[t] /\ at'[t] = at[t]
                                     /\ req'[t] = req[t] /\ held'[t] = held[t]
    BY DEF IInv, Shape, Move
  <1> QED
    BY <1>1, <1>4, <1>5, OneCall

\* No call holds anything initially.
LEMMA InitHoldsNothing == Init => IInv
  BY DEF Init, IInv, Shape, HoldsLittle

\* A new call starts at the first step, holding nothing.
LEMMA CreatePreserves ==
  ASSUME IInv, NEW s \in Sessions, NEW r \in Requests, Create(s, r)
  PROVE  IInv'
  <1>1. Shape'
    BY DEF IInv, Shape, Create
  <1>2. phase'[s] = "busy" /\ at'[s] = 1 /\ held'[s] = {} /\ req'[s] = r
    BY DEF IInv, Shape, Create, HoldsLittle
  <1>3. 1 \in DOMAIN Steps(r)
    <2>1. Steps(r) \in Seq(Rungs) /\ Steps(r) # <<>>
      BY LaddersEnd DEF Ends
    <2>2. DOMAIN Steps(r) = 1..Len(Steps(r)) /\ Len(Steps(r)) \in Nat \ {0}
      BY <2>1, LenProperties, EmptySeq
    <2> QED
      BY <2>2
  <1>4. HoldsLittle(s)'
    BY <1>2, <1>3 DEF HoldsLittle
  <1>5. \A t \in Sessions : t # s => /\ phase'[t] = phase[t] /\ at'[t] = at[t]
                                     /\ req'[t] = req[t] /\ held'[t] = held[t]
    BY DEF IInv, Shape, Create
  <1> QED
    BY <1>1, <1>4, <1>5, OneCall

\* An allocation that succeeds.
LEMMA AllocatePreserves ==
  ASSUME IInv, NEW s \in Sessions, Allocate(s)
  PROVE  IInv'
  <1> DEFINE steps == Steps(req[s])
             own   == (held[s] \cup Step(s).get) \ Step(s).drop
  <1>0. Busy(s) /\ Step(s).act = "get"
    BY DEF Allocate
  <1>1. /\ steps \in Seq(Rungs) /\ at[s] \in 1..Len(steps) /\ at[s] + 1 <= Len(steps)
    BY <1>0, StepFacts, LaddersEnd DEF SkipsStayInside, Step, Ends
  <1>2. Gains(Step(s)) = Step(s).get
    BY <1>0 DEF Gains
  <1>3. own \subseteq MayHold({}, steps, at[s] + 1)
    BY <1>0, <1>1, <1>2, StepFacts, MovesOn DEF Step
  <1>4. Move(s, 1) /\ req' = req /\ held' = [held EXCEPT ![s] = own]
    BY DEF Allocate, IInv, Shape
  <1> HIDE DEF own
  <1> QED
    BY <1>0, <1>1, <1>3, <1>4, GoesOn

\* One that is refused.
LEMMA AllocateFailsPreserves ==
  ASSUME IInv, NEW s \in Sessions, AllocateFails(s)
  PROVE  IInv'
  <1>0. Busy(s) /\ Step(s).act = "get"
    BY DEF AllocateFails
  <1>1. PICK got \in SUBSET Step(s).get : got # Step(s).get /\ GiveBack(s, got, Step(s).undo)
    BY DEF AllocateFails
  <1>2. held[s] \cup got \subseteq Step(s).undo
    BY <1>0, <1>1, StepFacts DEF GivesAllBack
  <1> QED
    BY <1>1, <1>2, ReturnsEmpty

\* A step of a search, or the reading of its result, that allocates nothing.
LEMMA PlainMovePreserves ==
  ASSUME IInv, NEW s \in Sessions, Busy(s), Step(s).act \in {"search", "found", "read"},
         Move(s, 1), req' = req, held' = held
  PROVE  IInv'
  <1>1. /\ Steps(req[s]) \in Seq(Rungs) /\ at[s] \in 1..Len(Steps(req[s]))
        /\ at[s] + 1 <= Len(Steps(req[s]))
    BY StepFacts, LaddersEnd DEF SkipsStayInside, Step, Ends
  <1>2. held[s] \cup Gains(Step(s)) \subseteq MayHold({}, Steps(req[s]), at[s] + 1)
    BY <1>1, StepFacts, MovesOn DEF Step
  <1>3. held' = [held EXCEPT ![s] = held[s]]
    BY DEF IInv, Shape
  <1> QED
    BY <1>1, <1>2, <1>3, GoesOn

\* A kernel that is built is held from then on.
LEMMA KernelPreserves ==
  ASSUME IInv, NEW s \in Sessions, Busy(s), Step(s).act \in {"legacy", "build"},
         Move(s, 1), req' = req, held' = [held EXCEPT ![s] = @ \cup {"jit"}]
  PROVE  IInv'
  <1>1. /\ Steps(req[s]) \in Seq(Rungs) /\ at[s] \in 1..Len(Steps(req[s]))
        /\ at[s] + 1 <= Len(Steps(req[s]))
    BY StepFacts, LaddersEnd DEF SkipsStayInside, Step, Ends
  <1>2. Gains(Step(s)) = {"jit"}
    BY DEF Gains
  <1>3. held[s] \cup {"jit"} \subseteq MayHold({}, Steps(req[s]), at[s] + 1)
    BY <1>1, <1>2, StepFacts, MovesOn DEF Step
  <1>4. held' = [held EXCEPT ![s] = held[s] \cup {"jit"}]
    OBVIOUS
  <1> QED
    BY <1>1, <1>3, <1>4, GoesOn

\* What the steps of a search may hold, two and three steps on.
LEMMA SearchSteps ==
  ASSUME IInv, NEW s \in Sessions, Busy(s)
  PROVE  /\ Step(s).act = "found" =>
              /\ at[s] + 3 <= Len(Steps(req[s]))
              /\ held[s] \cup {"jit"} \subseteq MayHold({}, Steps(req[s]), at[s] + 2)
              /\ held[s] \cup {"jit"} \subseteq MayHold({}, Steps(req[s]), at[s] + 3)
         /\ Step(s).act = "build" =>
              /\ at[s] + 2 <= Len(Steps(req[s]))
              /\ held[s] \cup {"jit"} \subseteq MayHold({}, Steps(req[s]), at[s] + 2)
  <1> DEFINE u == Steps(req[s])
             k == at[s]
  <1>1. /\ u \in Seq(Rungs) /\ k \in 1..Len(u) /\ Len(u) \in Nat /\ held[s] \subseteq MayHold({}, u, k)
        /\ SkipsStayInside(u, k, Len(u), req[s].kind)
    BY StepFacts, LaddersEnd DEF Ends
  <1>2. Step(s) = u[k]
    BY DEF Step
  <1> HIDE DEF u, k
  <1>3. ASSUME u[k].act = "found"
        PROVE  /\ k + 3 <= Len(u)
               /\ held[s] \cup {"jit"} \subseteq MayHold({}, u, k + 2)
               /\ held[s] \cup {"jit"} \subseteq MayHold({}, u, k + 3)
    <2>1. k + 3 <= Len(u) /\ u[k + 1].act = "build" /\ u[k + 2].act = "read"
      BY <1>1, <1>3 DEF SkipsStayInside
    <2>2. k + 1 \in 1..Len(u) /\ k + 2 \in 1..Len(u) /\ (k + 1) + 1 = k + 2 /\ (k + 2) + 1 = k + 3
      BY <1>1, <2>1
    <2>3. held[s] \subseteq MayHold({}, u, k + 1)
      BY <1>1, <1>3, MovesOn
    <2>4. held[s] \cup Gains(u[k + 1]) \subseteq MayHold({}, u, (k + 1) + 1)
      BY <1>1, <2>1, <2>2, <2>3, MovesOn
    <2>5. held[s] \cup {"jit"} \subseteq MayHold({}, u, k + 2)
      BY <2>1, <2>2, <2>4 DEF Gains
    <2>6. held[s] \cup {"jit"} \cup Gains(u[k + 2]) \subseteq MayHold({}, u, (k + 2) + 1)
      BY <1>1, <2>1, <2>2, <2>5, MovesOn
    <2> QED
      BY <2>1, <2>2, <2>5, <2>6
  <1>4. ASSUME u[k].act = "build"
        PROVE  k + 2 <= Len(u) /\ held[s] \cup {"jit"} \subseteq MayHold({}, u, k + 2)
    <2>1. k + 2 <= Len(u) /\ u[k + 1].act = "read"
      BY <1>1, <1>4 DEF SkipsStayInside
    <2>2. k + 1 \in 1..Len(u) /\ (k + 1) + 1 = k + 2
      BY <1>1, <2>1
    <2>3. held[s] \cup Gains(u[k]) \subseteq MayHold({}, u, k + 1)
      BY <1>1, <1>4, MovesOn
    <2>4. held[s] \cup {"jit"} \subseteq MayHold({}, u, k + 1)
      BY <2>3, <1>4 DEF Gains
    <2>5. held[s] \cup {"jit"} \cup Gains(u[k + 1]) \subseteq MayHold({}, u, (k + 1) + 1)
      BY <1>1, <2>1, <2>2, <2>4, MovesOn
    <2> QED
      BY <2>1, <2>2, <2>5
  <1> QED
    BY <1>2, <1>3, <1>4 DEF u, k

\* A fixed kernel instead of a searched one.
LEMMA LegacyWinsPreserves ==
  ASSUME IInv, NEW s \in Sessions, LegacyWins(s)
  PROVE  IInv'
  <1>1. Busy(s) /\ Step(s).act = "found" /\ Move(s, 2) /\ req' = req
    BY DEF LegacyWins
  <1>2. held' = [held EXCEPT ![s] = held[s] \cup {"jit"}]
    BY DEF LegacyWins
  <1>3. at[s] + 2 <= Len(Steps(req[s]))
    BY <1>1, SearchSteps, StepFacts
  <1>4. held[s] \cup {"jit"} \subseteq MayHold({}, Steps(req[s]), at[s] + 2)
    BY <1>1, SearchSteps
  <1> QED
    BY <1>1, <1>2, <1>3, <1>4, GoesOn

\* A search that fails: a batch has nothing yet, a convolution skips the rest
\* of the search.
LEMMA SearchFailsPreserves ==
  ASSUME IInv, NEW s \in Sessions, SearchFails(s)
  PROVE  IInv'
  <1>0. Busy(s) /\ Step(s).act \in {"legacy", "found", "build"}
    BY DEF SearchFails
  <1>1. CASE req[s].kind = "batch"
    <2>1. held[s] \cup {} \subseteq {}
      BY <1>0, <1>1, StepFacts DEF GivesAllBack
    <2>2. GiveBack(s, {}, {})
      BY <1>1 DEF SearchFails, Return
    <2> QED
      BY <2>1, <2>2, ReturnsEmpty
  <1>2. CASE req[s].kind # "batch"
    <2>1. Step(s).act # "legacy"
      BY <1>0, <1>2, StepFacts DEF SkipsStayInside, Step
    <2>2. req' = req /\ held' = [held EXCEPT ![s] = held[s]]
      BY <1>2 DEF SearchFails, IInv, Shape
    <2>3. CASE Step(s).act = "found"
      <3>1. Move(s, 3)
        BY <1>2, <2>3 DEF SearchFails
      <3>2. at[s] + 3 <= Len(Steps(req[s])) /\ held[s] \subseteq MayHold({}, Steps(req[s]), at[s] + 3)
        BY <1>0, <2>3, SearchSteps
      <3> QED
        BY <1>0, <2>2, <3>1, <3>2, GoesOn
    <2>4. CASE Step(s).act = "build"
      <3>1. Move(s, 2)
        BY <1>2, <2>4 DEF SearchFails
      <3>2. at[s] + 2 <= Len(Steps(req[s])) /\ held[s] \subseteq MayHold({}, Steps(req[s]), at[s] + 2)
        BY <1>0, <2>4, SearchSteps
      <3> QED
        BY <1>0, <2>2, <3>1, <3>2, GoesOn
    <2> QED
      BY <1>0, <2>1, <2>3, <2>4
  <1> QED
    BY <1>1, <1>2

\* The window's samples, or no memory for them.
LEMMA WindowPreserves ==
  ASSUME IInv, NEW s \in Sessions, Window(s)
  PROVE  IInv'
  <1> DEFINE takesNone == plan[s].place \in {"standalone", "presweep"}
             own       == IF takesNone THEN held[s] \cup {"G2"} ELSE held[s]
  <1>0. Busy(s) /\ Step(s).act = "window"
    BY DEF Window
  <1>1. CASE Return(s, {"jit"})
    <2>1. held[s] \cup {} \subseteq {"jit"}
      BY <1>0, StepFacts DEF GivesAllBack
    <2> QED
      BY <1>1, <2>1, ReturnsEmpty DEF Return
  <1>2. CASE /\ takesNone => held' = [held EXCEPT ![s] = @ \cup {"G2"}]
             /\ ~takesNone => held' = held
             /\ Move(s, 1) /\ req' = req
    <2>1. /\ Steps(req[s]) \in Seq(Rungs) /\ at[s] \in 1..Len(Steps(req[s]))
          /\ at[s] + 1 <= Len(Steps(req[s]))
      BY <1>0, StepFacts, LaddersEnd DEF SkipsStayInside, Step, Ends
    <2>2. Gains(Step(s)) = {"G2"}
      BY <1>0 DEF Gains
    <2>3. held[s] \cup {"G2"} \subseteq MayHold({}, Steps(req[s]), at[s] + 1)
      BY <1>0, <2>1, <2>2, StepFacts, MovesOn DEF Step
    <2>4. held' = [held EXCEPT ![s] = own]
      BY <1>2 DEF IInv, Shape
    <2>5. own \subseteq MayHold({}, Steps(req[s]), at[s] + 1)
      BY <2>3
    <2> HIDE DEF own, takesNone
    <2> QED
      BY <1>0, <1>2, <2>1, <2>4, <2>5, GoesOn
  <1> QED
    BY <1>1, <1>2 DEF Window

\* The plan is handed out, or an equal one is.
LEMMA FinishPreserves ==
  ASSUME IInv, NEW s \in Sessions, Finish(s)
  PROVE  IInv'
  <1>0. Busy(s) /\ Step(s).act \in {"publish", "return"}
    BY DEF Finish
  <1>1. CASE Step(s).act = "publish" /\ Return(s, Step(s).undo)
    <2>1. held[s] \cup {} \subseteq Step(s).undo
      BY <1>1, <1>0, StepFacts DEF GivesAllBack
    <2> QED
      BY <1>1, <2>1, ReturnsEmpty DEF Return
  <1>2. CASE phase' = [phase EXCEPT ![s] = "ready"] /\ UNCHANGED <<at, req, held>>
    <2>1. held[s] \subseteq Destroyed(req[s].kind) /\ req[s] \in Requests
      BY <1>0, StepFacts DEF GivesAllBack
    <2>2. Shape' /\ phase'[s] = "ready" /\ \A t \in Sessions : t # s => phase'[t] = phase[t]
      BY <1>2 DEF IInv, Shape
    <2>3. HoldsLittle(s)'
      BY <1>2, <2>1, <2>2 DEF HoldsLittle
    <2> QED
      BY <1>2, <2>2, <2>3, OneCall
  <1> QED
    BY <1>1, <1>2 DEF Finish

\* Destroying a plan frees all of it.
LEMMA DestroyPreserves ==
  ASSUME IInv, NEW s \in Sessions, Destroy(s)
  PROVE  IInv'
  <1>1. held[s] \cup {} \subseteq Destroyed(req[s].kind)
    BY DEF Destroy, IInv, HoldsLittle
  <1>2. GiveBack(s, {}, Destroyed(req[s].kind))
    BY DEF Destroy, Return
  <1> QED
    BY <1>1, <1>2, ReturnsEmpty

LEMMA NextHoldsLittle == IInv /\ [Next]_vars => IInv'
  <1> SUFFICES ASSUME IInv, [Next]_vars PROVE IInv'
    OBVIOUS
  <1>1. ASSUME NEW s \in Sessions, NEW r \in Requests, Create(s, r) PROVE IInv'
    BY <1>1, CreatePreserves
  <1>2. ASSUME NEW s \in Sessions, Allocate(s) PROVE IInv'
    BY <1>2, AllocatePreserves
  <1>3. ASSUME NEW s \in Sessions, AllocateFails(s) PROVE IInv'
    BY <1>3, AllocateFailsPreserves
  <1>4. ASSUME NEW s \in Sessions, StartSearch(s) PROVE IInv'
    BY <1>4, PlainMovePreserves DEF StartSearch
  <1>5. ASSUME NEW s \in Sessions, FixedKernel(s) PROVE IInv'
    BY <1>5, KernelPreserves DEF FixedKernel
  <1>6. ASSUME NEW s \in Sessions, EndSearch(s) PROVE IInv'
    BY <1>6, PlainMovePreserves DEF EndSearch
  <1>7. ASSUME NEW s \in Sessions, LegacyWins(s) PROVE IInv'
    BY <1>7, LegacyWinsPreserves
  <1>8. ASSUME NEW s \in Sessions, Build(s) PROVE IInv'
    BY <1>8, KernelPreserves DEF Build
  <1>9. ASSUME NEW s \in Sessions, SearchFails(s) PROVE IInv'
    BY <1>9, SearchFailsPreserves
  <1>10. ASSUME NEW s \in Sessions, ReadPlace(s) PROVE IInv'
    BY <1>10, PlainMovePreserves DEF ReadPlace
  <1>11. ASSUME NEW s \in Sessions, Window(s) PROVE IInv'
    BY <1>11, WindowPreserves
  <1>12. ASSUME NEW s \in Sessions, Finish(s) PROVE IInv'
    BY <1>12, FinishPreserves
  <1>13. ASSUME NEW s \in Sessions, Destroy(s) PROVE IInv'
    BY <1>13, DestroyPreserves
  <1>14. CASE UNCHANGED vars
    BY <1>14 DEF vars, IInv, Shape, HoldsLittle
  <1> QED
    BY <1>1, <1>2, <1>3, <1>4, <1>5, <1>6, <1>7, <1>8, <1>9, <1>10, <1>11, <1>12, <1>13, <1>14 DEF Next

\* A create call that returned no plan of its own, and a destroyed plan, hold
\* nothing: no failed allocation, failed search or lost race of any of the
\* eleven create entries leaks, and fft_plan_destroy frees all of any plan.
THEOREM NothingIsLeftBehind == Spec => []NothingLeftBehind
  <1>1. IInv => NothingLeftBehind
    BY DEF IInv, HoldsLittle, NothingLeftBehind
  <1> QED
    BY <1>1, InitHoldsNothing, NextHoldsLittle, PTL DEF Spec
-----------------------------------------------------------------------------
\* What the search and the host put into a plan leaves its kind and size.
LEMMA ChangedPlan ==
  ASSUME NEW r, NEW p, IsFor(p, r),
         NEW q, \/ \E x : q = [p EXCEPT !.kernel = x]
                \/ \E x, y : q = [p EXCEPT !.place = x, !.form = y]
                \/ \E x : q = [p EXCEPT !.fused = x]
  PROVE  IsFor(q, r)
  <1>1. DOMAIN Draft(r) = {"kind", "n", "nh", "b", "variant", "fused", "place", "form", "kernel"}
    BY DEF Draft
  <1>2. DOMAIN q = DOMAIN p
    OBVIOUS
  <1>3. \A field \in {"kind", "n", "nh", "b", "variant"} : field \in DOMAIN p
    BY <1>1 DEF IsFor
  <1>4. \A field \in {"kind", "n", "nh", "b", "variant"} : q[field] = p[field]
    BY <1>3
  <1> QED
    BY <1>2, <1>4 DEF IsFor

\* A step that leaves a call's request, and what of its plan the request says.
LEMMA KeepsItsKind ==
  ASSUME PInv, NEW s \in Sessions, phase[s] # "idle", PShape', req' = req,
         \A t \in Sessions : t # s => phase'[t] = phase[t] /\ plan'[t] = plan[t],
         OfItsKind(s)'
  PROVE  PInv'
  BY DEF PInv, OfItsKind

\* A call that returns.
LEMMA ReturnKeepsKinds ==
  ASSUME PInv, NEW s \in Sessions, NEW got, NEW undo, GiveBack(s, got, undo)
  PROVE  PInv'
  <1>1. PShape' /\ phase'[s] = "idle"
    BY DEF PInv, Shape, PShape, GiveBack
  <1>2. \A t \in Sessions : t # s => phase'[t] = phase[t] /\ plan'[t] = plan[t] /\ req'[t] = req[t]
    BY DEF PInv, Shape, PShape, GiveBack
  <1> QED
    BY <1>1, <1>2 DEF PInv, OfItsKind

\* A plan's kind and size are those of its request, whatever the search put in.
LEMMA PlansKeepTheirKind == Spec => []PInv
  <1>1. Init => PInv
    BY DEF Init, PInv, Shape, PShape, OfItsKind
  <1>2. PInv /\ [Next]_vars => PInv'
    <2> SUFFICES ASSUME PInv, [Next]_vars PROVE PInv'
      OBVIOUS
    <2>1. ASSUME NEW s \in Sessions, NEW r \in Requests, Create(s, r) PROVE PInv'
      <3>1. PShape' /\ req'[s] = r /\ plan'[s] = Draft(r)
        BY <2>1 DEF PInv, Shape, PShape, Create
      <3>2. \A t \in Sessions : t # s => phase'[t] = phase[t] /\ plan'[t] = plan[t] /\ req'[t] = req[t]
        BY <2>1 DEF PInv, Shape, PShape, Create
      <3>3. OfItsKind(s)'
        BY <3>1 DEF OfItsKind, IsFor, Draft
      <3> QED
        BY <3>1, <3>2, <3>3 DEF PInv, OfItsKind
    <2>2. ASSUME NEW s \in Sessions, Allocate(s) PROVE PInv'
      BY <2>2 DEF PInv, Shape, PShape, OfItsKind, Allocate, Move
    <2>3. ASSUME NEW s \in Sessions, AllocateFails(s) PROVE PInv'
      BY <2>3, ReturnKeepsKinds DEF AllocateFails
    <2>4. ASSUME NEW s \in Sessions, StartSearch(s) PROVE PInv'
      BY <2>4 DEF PInv, Shape, PShape, OfItsKind, StartSearch, Move
    <2>5. ASSUME NEW s \in Sessions, Busy(s), Move(s, 1) \/ Move(s, 2), req' = req,
                 held' = [held EXCEPT ![s] = @ \cup {"jit"}],
                 NEW k, plan' = [plan EXCEPT ![s].kernel = k]
          PROVE PInv'
      <3>1. PShape' /\ phase[s] # "idle"
        BY <2>5 DEF PInv, Shape, PShape, Move, Busy
      <3>2. plan'[s] = [plan[s] EXCEPT !.kernel = k]
        BY <2>5 DEF PInv, Shape, PShape
      <3>3. OfItsKind(s)'
        <4> DEFINE r == req[s]
                   p == plan[s]
                   q == plan'[s]
        <4>1. r \in Requests /\ IsFor(p, r)
          BY <3>1 DEF PInv, OfItsKind
        <4>2. r = req'[s]
          BY <2>5
        <4>e. \E x : q = [p EXCEPT !.kernel = x]
          BY <3>2
        <4> HIDE DEF r, p, q
        <4>3. IsFor(q, r)
          BY <4>e, <4>1, ChangedPlan
        <4> QED
          BY <4>1, <4>2, <4>3 DEF OfItsKind, q
      <3>4. \A t \in Sessions : t # s => phase'[t] = phase[t] /\ plan'[t] = plan[t]
        BY <2>5 DEF PInv, Shape, PShape, Move
      <3> QED
        BY <2>5, <3>1, <3>3, <3>4, KeepsItsKind
    <2>6. ASSUME NEW s \in Sessions, FixedKernel(s) PROVE PInv'
      BY <2>5, <2>6 DEF FixedKernel
    <2>7. ASSUME NEW s \in Sessions, EndSearch(s) PROVE PInv'
      BY <2>7 DEF PInv, Shape, PShape, OfItsKind, EndSearch, Move
    <2>8. ASSUME NEW s \in Sessions, LegacyWins(s) PROVE PInv'
      BY <2>5, <2>8 DEF LegacyWins
    <2>9. ASSUME NEW s \in Sessions, Build(s) PROVE PInv'
      BY <2>5, <2>9 DEF Build
    <2>10. ASSUME NEW s \in Sessions, SearchFails(s) PROVE PInv'
      <3>1. CASE req[s].kind = "batch"
        BY <2>10, <3>1, ReturnKeepsKinds DEF SearchFails, Return
      <3>2. CASE req[s].kind # "batch"
        <4>1. \E k \in {2, 3} : Move(s, k)
          BY <2>10, <3>2 DEF SearchFails
        <4>2. UNCHANGED <<req, held, plan>>
          BY <2>10, <3>2 DEF SearchFails
        <4> QED
          BY <4>1, <4>2 DEF PInv, Shape, PShape, OfItsKind, Move
      <3> QED
        BY <3>1, <3>2
    <2>11. ASSUME NEW s \in Sessions, ReadPlace(s) PROVE PInv'
      <3> DEFINE st == stats[Search(req[s])]
      <3>1. Busy(s) /\ Move(s, 1) /\ req' = req /\ held' = held
        BY <2>11 DEF ReadPlace
      <3>2. PShape' /\ phase[s] # "idle"
        BY <2>11, <3>1 DEF PInv, Shape, PShape, Move, Busy, ReadPlace
      <3>3. \/ plan'[s] = [plan[s] EXCEPT !.place = st.place, !.form = st.form]
            \/ plan'[s] = [plan[s] EXCEPT !.fused = (st.place # "standalone")]
        BY <2>11 DEF PInv, Shape, PShape, ReadPlace
      <3> HIDE DEF st
      <3>4. OfItsKind(s)'
        <4> DEFINE r == req[s]
                   p == plan[s]
                   q == plan'[s]
        <4>1. r \in Requests /\ IsFor(p, r)
          BY <3>2 DEF PInv, OfItsKind
        <4>2. r = req'[s]
          BY <3>1
        <4>e. \/ \E x, y : q = [p EXCEPT !.place = x, !.form = y]
              \/ \E x : q = [p EXCEPT !.fused = x]
          BY <3>3
        <4> HIDE DEF r, p, q
        <4>3. IsFor(q, r)
          BY <4>e, <4>1, ChangedPlan
        <4> QED
          BY <4>1, <4>2, <4>3 DEF OfItsKind, q
      <3>5. \A t \in Sessions : t # s => phase'[t] = phase[t] /\ plan'[t] = plan[t]
        BY <2>11 DEF PInv, Shape, PShape, Move, ReadPlace
      <3> QED
        BY <3>1, <3>2, <3>4, <3>5, KeepsItsKind
    <2>12. ASSUME NEW s \in Sessions, Window(s) PROVE PInv'
      <3>1. CASE Return(s, {"jit"})
        BY <3>1, ReturnKeepsKinds DEF Return
      <3>2. CASE /\ held' = held \/ held' = [held EXCEPT ![s] = @ \cup {"G2"}]
                 /\ Move(s, 1) /\ UNCHANGED <<req, plan>>
        BY <3>2 DEF PInv, Shape, PShape, OfItsKind, Move
      <3> QED
        BY <2>12, <3>1, <3>2 DEF Window
    <2>13. ASSUME NEW s \in Sessions, Finish(s) PROVE PInv'
      <3>1. CASE Return(s, Step(s).undo)
        BY <3>1, ReturnKeepsKinds DEF Return
      <3>2. CASE phase' = [phase EXCEPT ![s] = "ready"] /\ UNCHANGED <<at, req, held, plan>>
        BY <2>13, <3>2 DEF PInv, Shape, PShape, OfItsKind, Finish, Busy
      <3> QED
        BY <2>13, <3>1, <3>2 DEF Finish
    <2>14. ASSUME NEW s \in Sessions, Destroy(s) PROVE PInv'
      BY <2>14, ReturnKeepsKinds DEF Destroy, Return
    <2>15. CASE UNCHANGED vars
      BY <2>15 DEF vars, PInv, Shape, PShape, OfItsKind
    <2> QED
      BY <2>1, <2>2, <2>3, <2>4, <2>6, <2>7, <2>8, <2>9, <2>10, <2>11, <2>12, <2>13, <2>14, <2>15 DEF Next
  <1> QED
    BY <1>1, <1>2, PTL DEF Spec

\* An entry that is not the plan's own leaves every buffer alone.
LEMMA UnservedEntry ==
  ASSUME NEW p, p.kind \in HostKinds, NEW entry \in Entries, entry # OwnEntry(p.kind),
         NEW buf, NEW stride
  PROVE  Execute(p, entry, buf, stride) = buf
  <1>1. p.kind \in {"forward", "gauss", "inverse", "conv", "linear", "dispatch"} =>
           OwnEntry(p.kind) = "execute" /\ {"fp64", "conv64", "inv64", "lin64", "batch"} \cap KindFlags(p.kind) = {}
    BY DEF OwnEntry, KindFlags, Flags
  <1>2. p.kind = "batch" => OwnEntry(p.kind) = "execute_windowed_batch" /\ KindFlags(p.kind) = {"batch"}
    BY DEF OwnEntry, KindFlags, Flags
  <1>3. p.kind = "fp64" => OwnEntry(p.kind) = "execute_fp64" /\ KindFlags(p.kind) = {"fp64"}
    BY DEF OwnEntry, KindFlags, Flags
  <1>4. p.kind = "conv64" => OwnEntry(p.kind) = "execute_conv_fp64" /\ KindFlags(p.kind) = {"fp64", "conv64"}
    BY DEF OwnEntry, KindFlags, Flags
  <1>5. p.kind = "inv64" => OwnEntry(p.kind) = "execute_fp64_inverse" /\ KindFlags(p.kind) = {"fp64", "inv64"}
    BY DEF OwnEntry, KindFlags, Flags
  <1>6. p.kind = "lin64" => OwnEntry(p.kind) = "execute_linear_conv_fp64" /\ KindFlags(p.kind) = {"fp64", "lin64"}
    BY DEF OwnEntry, KindFlags, Flags
  <1>7. p.kind \in {"forward", "gauss", "inverse", "conv", "linear", "dispatch",
                    "batch", "fp64", "conv64", "inv64", "lin64"}
    BY DEF HostKinds, Kinds
  <1> QED
    BY <1>1, <1>2, <1>3, <1>4, <1>5, <1>6, <1>7 DEF Execute, ExecuteF32, ExecuteF64, Entries

\* Through any other entry than its own, and with blocks that overlap, a plan
\* leaves the caller's buffer alone: each of the six execute entries turns away
\* every plan of the other kinds, whatever the search made of it.
THEOREM OtherEntriesLeaveAlone == Spec => []OtherEntriesDoNothing
  <1>1. PInv => OtherEntriesDoNothing
    <2> SUFFICES ASSUME PInv, NEW s \in Sessions, phase[s] = "ready",
                        NEW stride \in {plan[s].n - 1, plan[s].n} \ {0}, NEW entry \in Entries,
                        \/ entry # OwnEntry(plan[s].kind)
                        \/ plan[s].kind = "batch" /\ stride < plan[s].n
                 PROVE  Execute(plan[s], entry, Fresh(plan[s], stride), stride) = Fresh(plan[s], stride)
      BY DEF OtherEntriesDoNothing
    <2>1. plan[s].kind \in HostKinds
      BY RequestsAssumption DEF PInv, OfItsKind, IsFor
    <2>2. CASE entry # OwnEntry(plan[s].kind)
      BY <2>1, <2>2, UnservedEntry
    <2>3. CASE entry = OwnEntry(plan[s].kind) /\ plan[s].kind = "batch" /\ stride < plan[s].n
      <3>1. entry = "execute_windowed_batch" /\ KindFlags(plan[s].kind) = {"batch"}
        BY <2>3 DEF OwnEntry, KindFlags, Flags
      <3> QED
        BY <2>3, <3>1 DEF Execute, WindowedBatch
    <2> QED
      BY <2>2, <2>3
  <1> QED
    BY <1>1, PlansKeepTheirKind, PTL
-----------------------------------------------------------------------------
\* The steps of a batch, in their order.
LEMMA BatchOrder ==
  ASSUME NEW r, r.kind = "batch", NEW k \in 1..Len(Steps(r))
  PROVE  LET act(j) == Steps(r)[j].act
         IN  /\ act(1) \in {"legacy", "search"}
             /\ act(k) # "return"
             /\ act(k) = "search" => act(k + 1) = "found"
             /\ act(k) = "found"  => act(k + 1) = "build" /\ act(k + 2) = "read"
             /\ act(k) \in {"legacy", "build"} => act(k + 1) = "read"
             /\ act(k) = "read"   => act(k + 1) = "window"
             /\ act(k) = "window" => act(k + 1) = "get"
             /\ act(k) = "get"    => act(k + 1) = "publish"
  <1> DEFINE fixed == <<Do("legacy"), Do("read")>>
             rest  == <<Do("window"), Get({"plan"}, {"G2", "jit"}), Publish({"G2", "jit", "plan"})>>
  <1>a. \A act : Do(act).act = act
    BY DEF Do
  <1>b. \A what, undo : Get(what, undo).act = "get"
    BY DEF Get
  <1>c. \A undo : Publish(undo).act = "publish"
    BY DEF Publish
  <1>0. /\ rest[1].act = "window" /\ rest[2].act = "get" /\ rest[3].act = "publish"
        /\ \E S : rest \in Seq(S) /\ fixed \in Seq(S) /\ JointSteps \in Seq(S)
        /\ Len(rest) = 3 /\ Len(fixed) = 2 /\ Len(JointSteps) = 4
        /\ fixed[1].act = "legacy" /\ fixed[2].act = "read"
        /\ JointSteps[1].act = "search" /\ JointSteps[2].act = "found"
        /\ JointSteps[3].act = "build" /\ JointSteps[4].act = "read"
    <2> DEFINE S == {Do("legacy"), Do("read"), Do("window"), Get({"plan"}, {"G2", "jit"}),
                     Publish({"G2", "jit", "plan"}), Do("search"), Do("found"), Do("build")}
    <2>1. rest \in Seq(S) /\ fixed \in Seq(S) /\ JointSteps \in Seq(S)
      BY DEF JointSteps
    <2>2. Len(rest) = 3 /\ Len(fixed) = 2 /\ Len(JointSteps) = 4
      BY DEF JointSteps
    <2>3. /\ rest[1] = Do("window") /\ rest[2] = Get({"plan"}, {"G2", "jit"})
          /\ rest[3] = Publish({"G2", "jit", "plan"})
          /\ fixed[1] = Do("legacy") /\ fixed[2] = Do("read")
      OBVIOUS
    <2>4. /\ JointSteps[1] = Do("search") /\ JointSteps[2] = Do("found")
          /\ JointSteps[3] = Do("build") /\ JointSteps[4] = Do("read")
      BY DEF JointSteps
    <2> HIDE DEF S, rest, fixed
    <2> QED
      BY <2>1, <2>2, <2>3, <2>4, <1>a, <1>b, <1>c
  <1>1. Steps(r) = (IF r.n <= LegacyMax THEN fixed ELSE JointSteps) \o rest
    BY DEF Steps, BatchSteps
  <1> HIDE DEF fixed, rest
  <1>2. CASE r.n <= LegacyMax
    <2>1. Steps(r) = fixed \o rest
      BY <1>1, <1>2
    <2>2. Len(Steps(r)) = 5 /\ \A i \in 1..5 : Steps(r)[i] = IF i <= 2 THEN fixed[i] ELSE rest[i - 2]
      <3>1. PICK S : rest \in Seq(S) /\ fixed \in Seq(S)
        BY <1>0
      <3>2. /\ Len(fixed \o rest) = Len(fixed) + Len(rest)
            /\ \A i \in 1..(Len(fixed) + Len(rest)) :
                  (fixed \o rest)[i] = IF i <= Len(fixed) THEN fixed[i] ELSE rest[i - Len(fixed)]
        BY <3>1, ConcatProperties
      <3>3. Len(fixed) = 2 /\ Len(rest) = 3
        BY <1>0
      <3> QED
        BY <2>1, <3>2, <3>3
    <2>3. /\ Steps(r)[1].act = "legacy" /\ Steps(r)[2].act = "read" /\ Steps(r)[3].act = "window"
          /\ Steps(r)[4].act = "get" /\ Steps(r)[5].act = "publish"
      BY <1>0, <2>2
    <2>4. k \in 1..5
      BY <2>2
    <2> QED
      BY <2>3, <2>4
  <1>3. CASE ~(r.n <= LegacyMax)
    <2>1. Steps(r) = JointSteps \o rest
      BY <1>1, <1>3
    <2>2. Len(Steps(r)) = 7 /\ \A i \in 1..7 : Steps(r)[i] = IF i <= 4 THEN JointSteps[i] ELSE rest[i - 4]
      <3>1. PICK S : rest \in Seq(S) /\ JointSteps \in Seq(S)
        BY <1>0
      <3>2. /\ Len(JointSteps \o rest) = Len(JointSteps) + Len(rest)
            /\ \A i \in 1..(Len(JointSteps) + Len(rest)) :
                  (JointSteps \o rest)[i] = IF i <= Len(JointSteps) THEN JointSteps[i] ELSE rest[i - Len(JointSteps)]
        BY <3>1, ConcatProperties
      <3>3. Len(JointSteps) = 4 /\ Len(rest) = 3
        BY <1>0
      <3> QED
        BY <2>1, <3>2, <3>3
    <2>3. /\ Steps(r)[1].act = "search" /\ Steps(r)[2].act = "found" /\ Steps(r)[3].act = "build"
          /\ Steps(r)[4].act = "read" /\ Steps(r)[5].act = "window"
          /\ Steps(r)[6].act = "get" /\ Steps(r)[7].act = "publish"
      BY <1>0, <2>2
    <2>4. k \in 1..7
      BY <2>2
    <2> QED
      BY <2>3, <2>4
  <1> QED
    BY <1>2, <1>3

\* A step of one call leaves the records of the others, unless it changes the
\* statistics while they search.
LEMMA OneRecord ==
  ASSUME RInv, NEW s \in Sessions,
         stats' = [q \in {"conv", "batch"} |-> stats'[q]],
         found' = [t \in Sessions |-> found'[t]],
         \A t \in Sessions : t # s => /\ phase'[t] = phase[t] /\ at'[t] = at[t]
                                      /\ req'[t] = req[t] /\ found'[t] = found[t]
                                      /\ plan'[t] = plan[t],
         \/ stats'.batch = stats.batch
         \/ \A t \in Sessions : t # s => ~Searching(t),
         Searching(s)' => \A t \in Sessions : t # s => ~Searching(t),
         Records(s)'
  PROVE  RInv'
  <1>1. ASSUME NEW t \in Sessions, t # s
        PROVE  /\ Searching(t)' <=> Searching(t)
               /\ Read(t)' <=> Read(t)
               /\ Records(t)'
    <2>1. Step(t)' = Step(t) /\ (Busy(t)' <=> Busy(t)) /\ req'[t] = req[t]
      BY <1>1 DEF Step, Busy
    <2>2. Searching(t)' <=> Searching(t)
      BY <2>1 DEF Searching
    <2>3. Read(t)' <=> Read(t)
      BY <1>1, <2>1 DEF Read
    <2>4. Records(t)
      BY DEF RInv
    <2>5. Records(t)'
      BY <1>1, <2>1, <2>2, <2>3, <2>4 DEF Records, Searching
    <2> QED
      BY <2>2, <2>3, <2>5
  <1>2. ASSUME NEW t \in Sessions, NEW q \in Sessions, Searching(t)', Searching(q)' PROVE t = q
    BY <1>1, <1>2 DEF RInv
  <1>3. \A t \in Sessions : Records(t)'
    BY <1>1
  <1> QED
    BY <1>2, <1>3 DEF RInv

\* Nobody else searches while a call does.
LEMMA SearchesAlone ==
  ASSUME RInv, NEW s \in Sessions, Searching(s)
  PROVE  \A t \in Sessions : t # s => ~Searching(t)
  BY DEF RInv

\* A call that returns, and one of another kind than a batch.
LEMMA ReturnRecords ==
  ASSUME RInv, PInv, NEW s \in Sessions, NEW got, NEW undo, GiveBack(s, got, undo), stats' = stats
  PROVE  RInv'
  <1>1. /\ found' = [t \in Sessions |-> found'[t]]
        /\ \A t \in Sessions : t # s => /\ phase'[t] = phase[t] /\ at'[t] = at[t]
                                        /\ req'[t] = req[t] /\ found'[t] = found[t]
                                        /\ plan'[t] = plan[t]
    BY DEF RInv, PInv, PShape, Shape, GiveBack
  <1>2. req'[s] = Blank /\ phase'[s] = "idle"
    BY DEF PInv, PShape, Shape, GiveBack
  <1>3. ~Searching(s)' /\ Records(s)'
    BY <1>2 DEF Searching, Records, Busy, Blank
  <1>4. stats' = [q \in {"conv", "batch"} |-> stats'[q]] /\ stats'.batch = stats.batch
    BY DEF RInv
  <1> QED
    BY <1>1, <1>3, <1>4, OneRecord

LEMMA OtherKindRecords ==
  ASSUME RInv, NEW s \in Sessions, req[s].kind # "batch", req' = req,
         stats' = [q \in {"conv", "batch"} |-> stats'[q]], stats'.batch = stats.batch,
         found' = [t \in Sessions |-> found'[t]],
         \A t \in Sessions : t # s => /\ phase'[t] = phase[t] /\ at'[t] = at[t]
                                      /\ found'[t] = found[t] /\ plan'[t] = plan[t]
  PROVE  RInv'
  <1>1. ~Searching(s)' /\ Records(s)'
    BY DEF Searching, Records
  <1> QED
    BY <1>1, OneRecord

\* A batch's busy call: its step and the next.
LEMMA BatchStep ==
  ASSUME IInv, NEW s \in Sessions, Busy(s), req[s].kind = "batch"
  PROVE  LET act(j) == Steps(req[s])[j].act
         IN  /\ act(at[s]) = Step(s).act /\ Step(s).act # "return"
             /\ act(at[s]) = "search" => act(at[s] + 1) = "found"
             /\ act(at[s]) = "found"  => act(at[s] + 1) = "build" /\ act(at[s] + 2) = "read"
             /\ act(at[s]) \in {"legacy", "build"} => act(at[s] + 1) = "read"
             /\ act(at[s]) = "read"   => act(at[s] + 1) = "window"
             /\ act(at[s]) = "window" => act(at[s] + 1) = "get"
             /\ act(at[s]) = "get"    => act(at[s] + 1) = "publish"
  BY StepFacts, BatchOrder DEF Step

\* A step of a batch's call within its ladder.
LEMMA BatchMoves ==
  ASSUME IInv, PInv, RInv, NEW s \in Sessions, Busy(s), req[s].kind = "batch", req' = req,
         NEW k \in Nat, Move(s, k)
  PROVE  /\ Step(s)'.act = Steps(req[s])[at[s] + k].act
         /\ Busy(s)' /\ req'[s].kind = "batch"
         /\ \A t \in Sessions : t # s => phase'[t] = phase[t] /\ at'[t] = at[t] /\ req'[t] = req[t]
  <1>1. at'[s] = at[s] + k /\ phase' = phase /\ \A t \in Sessions : t # s => at'[t] = at[t]
    BY DEF PInv, PShape, Shape, Move
  <1>2. Step(s)' = Steps(req[s])[at[s] + k]
    BY <1>1 DEF Step
  <1>3. Busy(s)'
    BY <1>1 DEF Busy
  <1> QED
    BY <1>1, <1>2, <1>3

LEMMA CreateRecords ==
  ASSUME IInv, PInv, RInv, NEW s \in Sessions, NEW r \in Requests, Create(s, r)
  PROVE  RInv'
  <1>1. /\ phase'[s] = "busy" /\ at'[s] = 1 /\ req'[s] = r /\ stats' = stats
        /\ found' = [t \in Sessions |-> found'[t]]
        /\ stats' = [q \in {"conv", "batch"} |-> stats'[q]]
    BY DEF Create, IInv, Shape, HoldsLittle, RInv
  <1>2. \A t \in Sessions : t # s => /\ phase'[t] = phase[t] /\ at'[t] = at[t]
                                     /\ req'[t] = req[t] /\ found'[t] = found[t]
                                     /\ plan'[t] = plan[t]
    BY DEF Create, PInv, PShape, Shape
  <1>3. r.kind = "batch" => Step(s)'.act \in {"legacy", "search"}
    <2>1. Steps(r) \in Seq(Rungs) /\ Steps(r) # <<>>
      BY LaddersEnd DEF Ends
    <2>2. 1 \in 1..Len(Steps(r))
      BY <2>1, LenProperties, EmptySeq
    <2>3. r.kind = "batch" => Steps(r)[1].act \in {"legacy", "search"}
      BY <2>2, BatchOrder
    <2>4. Step(s)' = Steps(r)[1]
      BY <1>1 DEF Step
    <2> QED
      BY <2>3, <2>4
  <1>4. ~Searching(s)' /\ Records(s)'
    BY <1>1, <1>3 DEF Searching, Records, Read, Busy
  <1> QED
    BY <1>1, <1>2, <1>4, OneRecord

\* A batch's allocation of the plan, and its window.
LEMMA ReadStaysRead ==
  ASSUME IInv, PInv, RInv, NEW s \in Sessions, Busy(s), Step(s).act \in {"get", "window"},
         Move(s, 1), UNCHANGED <<stats, req, found, plan>>
  PROVE  RInv'
  <1>1. stats' = [q \in {"conv", "batch"} |-> stats'[q]] /\ found' = [t \in Sessions |-> found'[t]]
    BY DEF RInv
  <1>2. \A t \in Sessions : t # s => phase'[t] = phase[t] /\ at'[t] = at[t]
    BY DEF PInv, PShape, Shape, Move
  <1>3. CASE req[s].kind = "batch"
    <2>1. Step(s)'.act \in {"get", "publish"} /\ Busy(s)'
      BY <1>3, BatchStep, BatchMoves
    <2>2. Read(s)
      BY DEF Read
    <2>3. Records(s)
      BY DEF RInv
    <2>4. ~Searching(s)' /\ Records(s)'
      BY <1>3, <2>1, <2>2, <2>3 DEF Searching, Records
    <2> QED
      BY <1>1, <1>2, <2>4, OneRecord
  <1> QED
    BY <1>1, <1>2, <1>3, OtherKindRecords

LEMMA StartSearchRecords ==
  ASSUME OneSearch, IInv, PInv, RInv, NEW s \in Sessions, StartSearch(s)
  PROVE  RInv'
  <1>1. Busy(s) /\ Step(s).act = "search" /\ Move(s, 1) /\ UNCHANGED <<req, found, plan>>
    BY DEF StartSearch
  <1>2. /\ stats' = [q \in {"conv", "batch"} |-> stats'[q]]
        /\ req[s].kind # "batch" => stats'.batch = stats.batch
    BY DEF StartSearch, RInv, Search
  <1>3. found' = [t \in Sessions |-> found'[t]]
    BY <1>1 DEF RInv
  <1>4. \A t \in Sessions : t # s => phase'[t] = phase[t] /\ at'[t] = at[t]
    BY <1>1 DEF PInv, PShape, Shape, Move
  <1>5. CASE req[s].kind = "batch"
    <2>1. \A t \in Sessions : ~Searching(t)
      BY DEF StartSearch, Searching
    <2>2. Step(s)'.act = "found" /\ Busy(s)'
      BY <1>1, <1>5, BatchStep, BatchMoves
    <2>3. Records(s)'
      BY <1>5, <2>2 DEF Records, Read, Busy
    <2> QED
      BY <1>1, <1>2, <1>3, <1>4, <2>1, <2>3, OneRecord
  <1> QED
    BY <1>1, <1>2, <1>3, <1>4, <1>5, OtherKindRecords

LEMMA FixedKernelRecords ==
  ASSUME OneSearch, IInv, PInv, RInv, NEW s \in Sessions, FixedKernel(s)
  PROVE  RInv'
  <1>1. Busy(s) /\ Step(s).act = "legacy" /\ Move(s, 1) /\ req' = req
    BY DEF FixedKernel
  <1>2. /\ stats' = [q \in {"conv", "batch"} |-> stats'[q]]
        /\ stats'.batch.place = "load" /\ stats'.batch.form = "loop"
    BY DEF FixedKernel, RInv
  <1>3. /\ found' = [t \in Sessions |-> found'[t]]
        /\ found'[s].place = "load" /\ found'[s].form = "loop"
        /\ \A t \in Sessions : t # s => found'[t] = found[t]
    BY DEF FixedKernel, RInv
  <1>4. \A t \in Sessions : t # s => phase'[t] = phase[t] /\ at'[t] = at[t] /\ plan'[t] = plan[t]
    BY <1>1 DEF PInv, PShape, Shape, Move, FixedKernel
  <1>5. req[s].kind = "batch"
    BY <1>1, StepFacts DEF SkipsStayInside, Step
  <1>6. \A t \in Sessions : ~Searching(t)
    BY DEF FixedKernel, Searching
  <1>7. Step(s)'.act = "read" /\ Busy(s)'
    BY <1>1, <1>5, BatchStep, BatchMoves
  <1>8. Records(s)'
    BY <1>1, <1>2, <1>3, <1>7 DEF Records, Read, Busy
  <1> QED
    BY <1>1, <1>2, <1>3, <1>4, <1>6, <1>8, OneRecord

LEMMA EndSearchRecords ==
  ASSUME IInv, PInv, RInv, NEW s \in Sessions, EndSearch(s)
  PROVE  RInv'
  <1>1. Busy(s) /\ Step(s).act = "found" /\ Move(s, 1) /\ UNCHANGED <<req, plan>>
    BY DEF EndSearch
  <1>2. PICK w \in Winners(req[s]) :
           /\ stats' = [stats EXCEPT ![Search(req[s])] = [n |-> req[s].n, place |-> w[1], form |-> w[2]]]
           /\ found' = [found EXCEPT ![s] = [place |-> w[1], form |-> w[2]]]
    BY DEF EndSearch
  <1>3. /\ stats' = [q \in {"conv", "batch"} |-> stats'[q]]
        /\ found' = [t \in Sessions |-> found'[t]]
        /\ \A t \in Sessions : t # s => found'[t] = found[t]
    BY <1>2 DEF RInv
  <1>4. \A t \in Sessions : t # s => phase'[t] = phase[t] /\ at'[t] = at[t]
    BY <1>1 DEF PInv, PShape, Shape, Move
  <1>5. CASE req[s].kind = "batch"
    <2>1. stats'.batch.place = w[1] /\ stats'.batch.form = w[2]
      BY <1>2, <1>5 DEF Search, RInv
    <2>2. found'[s].place = w[1] /\ found'[s].form = w[2]
      BY <1>2 DEF RInv
    <2>3. Searching(s)
      BY <1>1, <1>5 DEF Searching
    <2>4. Step(s)'.act = "build" /\ Busy(s)'
      BY <1>1, <1>5, BatchStep, BatchMoves
    <2>5. Records(s)'
      BY <2>1, <2>2, <2>4 DEF Records, Read, Busy
    <2> QED
      BY <1>1, <1>3, <1>4, <2>3, <2>5, SearchesAlone, OneRecord
  <1>6. CASE req[s].kind # "batch"
    <2>1. stats'.batch = stats.batch
      BY <1>2, <1>6 DEF Search, RInv
    <2> QED
      BY <1>1, <1>3, <1>4, <1>6, <2>1, OtherKindRecords
  <1> QED
    BY <1>5, <1>6

LEMMA LegacyWinsRecords ==
  ASSUME IInv, PInv, RInv, NEW s \in Sessions, LegacyWins(s)
  PROVE  RInv'
  <1>1. Busy(s) /\ Step(s).act = "found" /\ req[s].kind = "batch" /\ Move(s, 2) /\ req' = req
    BY DEF LegacyWins
  <1>2. /\ stats' = [q \in {"conv", "batch"} |-> stats'[q]]
        /\ stats'.batch.place = "load" /\ stats'.batch.form = "loop"
    BY DEF LegacyWins, RInv
  <1>3. /\ found' = [t \in Sessions |-> found'[t]]
        /\ found'[s].place = "load" /\ found'[s].form = "loop"
        /\ \A t \in Sessions : t # s => found'[t] = found[t]
    BY DEF LegacyWins, RInv
  <1>4. \A t \in Sessions : t # s => phase'[t] = phase[t] /\ at'[t] = at[t] /\ plan'[t] = plan[t]
    BY <1>1 DEF PInv, PShape, Shape, Move, LegacyWins
  <1>5. Searching(s)
    BY <1>1 DEF Searching
  <1>6. Step(s)'.act = "read" /\ Busy(s)'
    BY <1>1, BatchStep, BatchMoves
  <1>7. Records(s)'
    BY <1>1, <1>2, <1>3, <1>6 DEF Records, Read, Busy
  <1> QED
    BY <1>1, <1>2, <1>3, <1>4, <1>5, <1>7, SearchesAlone, OneRecord

LEMMA BuildRecords ==
  ASSUME IInv, PInv, RInv, NEW s \in Sessions, Build(s)
  PROVE  RInv'
  <1>1. Busy(s) /\ Step(s).act = "build" /\ Move(s, 1) /\ UNCHANGED <<stats, req, found>>
    BY DEF Build
  <1>2. stats' = [q \in {"conv", "batch"} |-> stats'[q]] /\ found' = [t \in Sessions |-> found'[t]]
    BY <1>1 DEF RInv
  <1>3. \A t \in Sessions : t # s => phase'[t] = phase[t] /\ at'[t] = at[t] /\ plan'[t] = plan[t]
    BY <1>1 DEF PInv, PShape, Shape, Move, Build
  <1>4. CASE req[s].kind = "batch"
    <2>1. Searching(s) /\ Records(s)
      BY <1>1, <1>4 DEF Searching, RInv
    <2>2. Step(s)'.act = "read" /\ Busy(s)'
      BY <1>1, <1>4, BatchStep, BatchMoves
    <2>3. Records(s)'
      BY <1>1, <1>4, <2>1, <2>2 DEF Records, Read, Busy
    <2> QED
      BY <1>1, <1>2, <1>3, <2>1, <2>3, SearchesAlone, OneRecord
  <1> QED
    BY <1>1, <1>2, <1>3, <1>4, OtherKindRecords

LEMMA SearchFailsRecords ==
  ASSUME IInv, PInv, RInv, NEW s \in Sessions, SearchFails(s)
  PROVE  RInv'
  <1>1. CASE req[s].kind = "batch"
    BY <1>1, ReturnRecords DEF SearchFails, Return
  <1>2. CASE req[s].kind # "batch"
    <2>1. UNCHANGED <<stats, req, held, found, plan>> /\ \E k \in {2, 3} : Move(s, k)
      BY <1>2 DEF SearchFails
    <2>2. stats' = [q \in {"conv", "batch"} |-> stats'[q]] /\ found' = [t \in Sessions |-> found'[t]]
      BY <2>1 DEF RInv
    <2>3. \A t \in Sessions : t # s => phase'[t] = phase[t] /\ at'[t] = at[t]
      BY <2>1 DEF PInv, PShape, Shape, Move
    <2> QED
      BY <1>2, <2>1, <2>2, <2>3, OtherKindRecords
  <1> QED
    BY <1>1, <1>2

LEMMA ReadPlaceRecords ==
  ASSUME IInv, PInv, RInv, NEW s \in Sessions, ReadPlace(s)
  PROVE  RInv'
  <1>1. Busy(s) /\ Step(s).act = "read" /\ Move(s, 1) /\ UNCHANGED <<stats, req, found>>
    BY DEF ReadPlace
  <1>2. stats' = [q \in {"conv", "batch"} |-> stats'[q]] /\ found' = [t \in Sessions |-> found'[t]]
    BY <1>1 DEF RInv
  <1>3. \A t \in Sessions : t # s => phase'[t] = phase[t] /\ at'[t] = at[t] /\ plan'[t] = plan[t]
    BY <1>1 DEF PInv, PShape, Shape, Move, ReadPlace
  <1>4. CASE req[s].kind = "batch"
    <2>1. Records(s)
      BY DEF RInv
    <2>2. Step(s)'.act = "window" /\ Busy(s)'
      BY <1>1, <1>4, BatchStep, BatchMoves
    <2>3. plan'[s].place = stats.batch.place /\ plan'[s].form = stats.batch.form
      <3>1. "place" \in DOMAIN plan[s] /\ "form" \in DOMAIN plan[s]
        BY <1>1 DEF PInv, OfItsKind, IsFor, Draft, Busy
      <3>2. plan'[s] = [plan[s] EXCEPT !.place = stats.batch.place, !.form = stats.batch.form]
        BY <1>4 DEF ReadPlace, Search, PInv, PShape
      <3> QED
        BY <3>1, <3>2
    <2>4. ~Searching(s)' /\ Records(s)'
      BY <1>1, <1>4, <2>1, <2>2, <2>3 DEF Searching, Records
    <2> QED
      BY <1>1, <1>2, <1>3, <2>4, OneRecord
  <1> QED
    BY <1>1, <1>2, <1>3, <1>4, OtherKindRecords

LEMMA FinishRecords ==
  ASSUME IInv, PInv, RInv, NEW s \in Sessions, Finish(s)
  PROVE  RInv'
  <1>0. Busy(s) /\ Step(s).act \in {"publish", "return"} /\ stats' = stats
    BY DEF Finish
  <1>1. CASE Return(s, Step(s).undo)
    BY <1>0, <1>1, ReturnRecords DEF Return
  <1>2. CASE phase' = [phase EXCEPT ![s] = "ready"] /\ UNCHANGED <<at, req, held, found, plan>>
    <2>1. stats' = [q \in {"conv", "batch"} |-> stats'[q]] /\ found' = [t \in Sessions |-> found'[t]]
      BY <1>0, <1>2 DEF RInv
    <2>2. phase'[s] = "ready" /\ \A t \in Sessions : t # s => phase'[t] = phase[t]
      BY <1>2 DEF PInv, PShape, Shape
    <2>3. req[s].kind = "batch" => Step(s).act = "publish"
      BY <1>0, BatchStep
    <2>4. Records(s)
      BY DEF RInv
    <2>5. ~Searching(s)' /\ Records(s)'
      BY <1>0, <1>2, <2>2, <2>3, <2>4 DEF Searching, Records, Read, Busy
    <2> QED
      BY <1>0, <1>2, <2>1, <2>2, <2>5, OneRecord
  <1> QED
    BY <1>1, <1>2 DEF Finish

\* When callers run one joint search at a time, a batch plan runs what its own
\* search found: the records of the last search are then only diagnostics, as
\* fft_jit.h:302-303 says.  Without OneSearch it is false.
THEOREM OneSearchIsHandedOver ==
  ASSUME OneSearch
  PROVE  Spec => []StatsOnlyDiagnose
  <1>1. Init => RInv
    BY DEF Init, RInv, Searching, Records, Read, Busy, Blank
  <1>2. IInv /\ PInv /\ RInv /\ [Next]_vars => RInv'
    <2> SUFFICES ASSUME IInv, PInv, RInv, [Next]_vars PROVE RInv'
      OBVIOUS
    <2>1. ASSUME NEW s \in Sessions, NEW r \in Requests, Create(s, r) PROVE RInv'
      BY <2>1, CreateRecords
    <2>2. ASSUME NEW s \in Sessions, Allocate(s) PROVE RInv'
      BY <2>2, ReadStaysRead DEF Allocate
    <2>3. ASSUME NEW s \in Sessions, AllocateFails(s) PROVE RInv'
      BY <2>3, ReturnRecords DEF AllocateFails
    <2>4. ASSUME NEW s \in Sessions, StartSearch(s) PROVE RInv'
      BY <2>4, StartSearchRecords
    <2>5. ASSUME NEW s \in Sessions, FixedKernel(s) PROVE RInv'
      BY <2>5, FixedKernelRecords
    <2>6. ASSUME NEW s \in Sessions, EndSearch(s) PROVE RInv'
      BY <2>6, EndSearchRecords
    <2>7. ASSUME NEW s \in Sessions, LegacyWins(s) PROVE RInv'
      BY <2>7, LegacyWinsRecords
    <2>8. ASSUME NEW s \in Sessions, Build(s) PROVE RInv'
      BY <2>8, BuildRecords
    <2>9. ASSUME NEW s \in Sessions, SearchFails(s) PROVE RInv'
      BY <2>9, SearchFailsRecords
    <2>10. ASSUME NEW s \in Sessions, ReadPlace(s) PROVE RInv'
      BY <2>10, ReadPlaceRecords
    <2>11. ASSUME NEW s \in Sessions, Window(s) PROVE RInv'
      <3>1. CASE Return(s, {"jit"})
        BY <2>11, <3>1, ReturnRecords DEF Window, Return
      <3>2. CASE Move(s, 1) /\ UNCHANGED <<req, found, plan>>
        BY <2>11, <3>2, ReadStaysRead DEF Window
      <3> QED
        BY <2>11, <3>1, <3>2 DEF Window
    <2>12. ASSUME NEW s \in Sessions, Finish(s) PROVE RInv'
      BY <2>12, FinishRecords
    <2>13. ASSUME NEW s \in Sessions, Destroy(s) PROVE RInv'
      BY <2>13, ReturnRecords DEF Destroy, Return
    <2>14. CASE UNCHANGED vars
      BY <2>14 DEF vars, RInv, Searching, Records, Read, Busy, Step
    <2> QED
      BY <2>1, <2>2, <2>3, <2>4, <2>5, <2>6, <2>7, <2>8, <2>9, <2>10, <2>11, <2>12, <2>13, <2>14 DEF Next
  <1>3. PInv /\ RInv => StatsOnlyDiagnose
    <2> SUFFICES ASSUME PInv, RInv, NEW s \in Sessions, phase[s] = "ready", plan[s].kind = "batch"
                 PROVE  plan[s].place = found[s].place /\ plan[s].form = found[s].form
      BY DEF StatsOnlyDiagnose
    <2>1. req[s].kind = "batch"
      BY DEF PInv, OfItsKind, IsFor
    <2> QED
      BY <2>1 DEF RInv, Records, Read
  <1> QED
    BY <1>1, <1>2, <1>3, InitHoldsNothing, NextHoldsLittle, PlansKeepTheirKind, PTL DEF Spec
-----------------------------------------------------------------------------
\* The steps of the other kinds with a search, and of those without.
\* The steps of an fp32 convolution, in their order.
LEMMA ConvOrder ==
  ASSUME NEW r, r.kind \in {"conv", "linear"}, NEW k \in 1..Len(Steps(r))
  PROVE  LET act(j) == Steps(r)[j].act
         IN  /\ act(1) = "get"
             /\ act(k) \in {"get", "search", "found", "build", "read", "publish"}
             /\ act(k) = "search" => act(k + 1) = "found"
             /\ act(k) = "found"  => act(k + 1) = "build" /\ act(k + 3) = "get"
             /\ act(k) = "build"  => act(k + 1) = "read" /\ act(k + 2) = "get"
             /\ act(k) = "read"   => act(k + 1) = "get"
             /\ act(k) = "get"    => act(k + 1) \in {"get", "search", "publish"}
  <1> DEFINE first == <<Get({"jit"}, {}), Get({"scratch"}, {"jit"}),
                        GetThen({"H"}, {"scratch", "jit"}, {"scratch"})>>
             rest  == <<Get({"plan"}, {"H", "jit"}), Publish({"H", "jit", "plan"})>>
             middle == IF r.n >= FusedMin THEN JointSteps ELSE <<>>
  <1>a. \A act : Do(act).act = act
    BY DEF Do
  <1>b. /\ \A what, undo : Get(what, undo).act = "get"
        /\ \A what, undo, drop : GetThen(what, undo, drop).act = "get"
    BY DEF Get, GetThen
  <1>c. \A undo : Publish(undo).act = "publish"
    BY DEF Publish
  <1>0. /\ first[1].act = "get" /\ first[2].act = "get" /\ first[3].act = "get"
        /\ rest[1].act = "get" /\ rest[2].act = "publish"
        /\ \E S : first \in Seq(S) /\ rest \in Seq(S) /\ JointSteps \in Seq(S)
        /\ Len(first) = 3 /\ Len(rest) = 2 /\ Len(JointSteps) = 4
        /\ JointSteps[1].act = "search" /\ JointSteps[2].act = "found"
        /\ JointSteps[3].act = "build" /\ JointSteps[4].act = "read"
    <2> DEFINE S == {Get({"jit"}, {}), Get({"scratch"}, {"jit"}),
                     GetThen({"H"}, {"scratch", "jit"}, {"scratch"}),
                     Get({"plan"}, {"H", "jit"}), Publish({"H", "jit", "plan"}),
                     Do("search"), Do("found"), Do("build"), Do("read")}
    <2>1. first \in Seq(S) /\ rest \in Seq(S)
      OBVIOUS
    <2>2. JointSteps \in Seq(S) /\ Len(JointSteps) = 4
      BY DEF JointSteps
    <2>3. Len(first) = 3 /\ Len(rest) = 2
      OBVIOUS
    <2>4. /\ first[1] = Get({"jit"}, {}) /\ first[2] = Get({"scratch"}, {"jit"})
          /\ first[3] = GetThen({"H"}, {"scratch", "jit"}, {"scratch"})
          /\ rest[1] = Get({"plan"}, {"H", "jit"}) /\ rest[2] = Publish({"H", "jit", "plan"})
      OBVIOUS
    <2>5. /\ JointSteps[1] = Do("search") /\ JointSteps[2] = Do("found")
          /\ JointSteps[3] = Do("build") /\ JointSteps[4] = Do("read")
      BY DEF JointSteps
    <2> HIDE DEF S, first, rest
    <2> QED
      BY <2>1, <2>2, <2>3, <2>4, <2>5, <1>a, <1>b, <1>c
  <1>1. Steps(r) = first \o middle \o rest
    BY DEF Steps, ConvSteps, LinearSteps
  <1> HIDE DEF first, rest
  <1>2. CASE r.n >= FusedMin
    <2>1. PICK S : first \in Seq(S) /\ rest \in Seq(S) /\ JointSteps \in Seq(S)
      BY <1>0
    <2> DEFINE front == first \o JointSteps
    <2>2. /\ front \in Seq(S) /\ Len(front) = 7
          /\ \A i \in 1..7 : front[i] = IF i <= 3 THEN first[i] ELSE JointSteps[i - 3]
      <3>1. /\ first \o JointSteps \in Seq(S)
            /\ Len(first \o JointSteps) = Len(first) + Len(JointSteps)
            /\ \A i \in 1..(Len(first) + Len(JointSteps)) :
                  (first \o JointSteps)[i] = IF i <= Len(first) THEN first[i] ELSE JointSteps[i - Len(first)]
        BY <2>1, ConcatProperties
      <3>2. Len(first) = 3 /\ Len(JointSteps) = 4
        BY <1>0
      <3> QED
        BY <3>1, <3>2
    <2>3. Steps(r) = front \o rest
      BY <1>1, <1>2
    <2> HIDE DEF front
    <2>4. /\ Len(Steps(r)) = 9
          /\ \A i \in 1..9 : Steps(r)[i] = IF i <= 7 THEN front[i] ELSE rest[i - 7]
      <3>1. /\ Len(front \o rest) = Len(front) + Len(rest)
            /\ \A i \in 1..(Len(front) + Len(rest)) :
                  (front \o rest)[i] = IF i <= Len(front) THEN front[i] ELSE rest[i - Len(front)]
        BY <2>1, <2>2, ConcatProperties
      <3>2. Len(front) = 7 /\ Len(rest) = 2
        BY <1>0, <2>2
      <3> QED
        BY <2>3, <3>1, <3>2
    <2>5. /\ Steps(r)[1].act = "get" /\ Steps(r)[2].act = "get" /\ Steps(r)[3].act = "get"
          /\ Steps(r)[4].act = "search" /\ Steps(r)[5].act = "found"
          /\ Steps(r)[6].act = "build" /\ Steps(r)[7].act = "read"
          /\ Steps(r)[8].act = "get" /\ Steps(r)[9].act = "publish"
      BY <1>0, <2>2, <2>4
    <2>6. k \in 1..9
      BY <2>4
    <2> QED
      BY <2>5, <2>6
  <1>3. CASE ~(r.n >= FusedMin)
    <2>1. PICK S : first \in Seq(S) /\ rest \in Seq(S)
      BY <1>0
    <2>2. Steps(r) = first \o rest
      BY <1>1, <1>3, <2>1, ConcatEmptySeq
    <2>4. /\ Len(Steps(r)) = 5
          /\ \A i \in 1..5 : Steps(r)[i] = IF i <= 3 THEN first[i] ELSE rest[i - 3]
      <3>1. /\ Len(first \o rest) = Len(first) + Len(rest)
            /\ \A i \in 1..(Len(first) + Len(rest)) :
                  (first \o rest)[i] = IF i <= Len(first) THEN first[i] ELSE rest[i - Len(first)]
        BY <2>1, ConcatProperties
      <3>2. Len(first) = 3 /\ Len(rest) = 2
        BY <1>0
      <3> QED
        BY <2>2, <3>1, <3>2
    <2>5. /\ Steps(r)[1].act = "get" /\ Steps(r)[2].act = "get" /\ Steps(r)[3].act = "get"
          /\ Steps(r)[4].act = "get" /\ Steps(r)[5].act = "publish"
      BY <1>0, <2>4
    <2>6. k \in 1..5
      BY <2>4
    <2> QED
      BY <2>5, <2>6
  <1> QED
    BY <1>2, <1>3

\* The other kinds only allocate, publish and return.
Calm(st) == st.act \in {"get", "publish", "return"}

Quiet(s) == \E S : s \in Seq(S) /\ \A st \in S : Calm(st)

LEMMA CalmSteps ==
  /\ \A what, undo : Calm(Get(what, undo))
  /\ \A what, undo, drop : Calm(GetThen(what, undo, drop))
  /\ \A undo : Calm(Publish(undo))
  /\ Calm(Do("return"))
  BY DEF Calm, Get, GetThen, Publish, Do

LEMMA QuietLists ==
  /\ Quiet(<<>>)
  /\ \A x : Calm(x) => Quiet(<<x>>)
  /\ \A x, y : Calm(x) /\ Calm(y) => Quiet(<<x, y>>)
  /\ \A x, y, z : Calm(x) /\ Calm(y) /\ Calm(z) => Quiet(<<x, y, z>>)
  <1>1. Quiet(<<>>)
    <2> DEFINE list == <<>>
               S    == {}
    <2>1. list \in Seq(S) /\ \A st \in S : Calm(st)
      OBVIOUS
    <2> HIDE DEF list, S
    <2>2. Quiet(list)
      BY <2>1 DEF Quiet
    <2> QED
      BY <2>2 DEF list
  <1>2. ASSUME NEW x, Calm(x) PROVE Quiet(<<x>>)
    <2> DEFINE list == <<x>>
               S    == {x}
    <2>1. list \in Seq(S) /\ \A st \in S : Calm(st)
      BY <1>2
    <2> HIDE DEF list, S
    <2>2. Quiet(list)
      BY <2>1 DEF Quiet
    <2> QED
      BY <2>2 DEF list
  <1>3. ASSUME NEW x, NEW y, Calm(x), Calm(y) PROVE Quiet(<<x, y>>)
    <2> DEFINE list == <<x, y>>
               S    == {x, y}
    <2>1. list \in Seq(S) /\ \A st \in S : Calm(st)
      BY <1>3
    <2> HIDE DEF list, S
    <2>2. Quiet(list)
      BY <2>1 DEF Quiet
    <2> QED
      BY <2>2 DEF list
  <1>4. ASSUME NEW x, NEW y, NEW z, Calm(x), Calm(y), Calm(z) PROVE Quiet(<<x, y, z>>)
    <2> DEFINE list == <<x, y, z>>
               S    == {x, y, z}
    <2>1. list \in Seq(S) /\ \A st \in S : Calm(st)
      BY <1>4
    <2> HIDE DEF list, S
    <2>2. Quiet(list)
      BY <2>1 DEF Quiet
    <2> QED
      BY <2>2 DEF list
  <1> QED
    BY <1>1, <1>2, <1>3, <1>4

LEMMA QuietConcat == \A s, t : Quiet(s) /\ Quiet(t) => Quiet(s \o t)
  <1> SUFFICES ASSUME NEW s, NEW t, Quiet(s), Quiet(t) PROVE Quiet(s \o t)
    OBVIOUS
  <1>1. PICK S : s \in Seq(S) /\ \A st \in S : Calm(st)
    BY DEF Quiet
  <1>2. PICK T : t \in Seq(T) /\ \A st \in T : Calm(st)
    BY DEF Quiet
  <1>3. s \in Seq(S \cup T) /\ t \in Seq(S \cup T)
    BY <1>1, <1>2
  <1>4. s \o t \in Seq(S \cup T) /\ \A st \in S \cup T : Calm(st)
    BY <1>1, <1>2, <1>3, ConcatProperties
  <1> QED
    BY <1>4 DEF Quiet

LEMMA OwnedQuiet == ASSUME NEW own PROVE Quiet(OwnedBy(own))
  <1>1. /\ Calm(Get(own, {})) /\ Calm(Get({"plan"}, {"jit", "adapt"}))
        /\ Calm(Publish({"jit", "adapt", "plan"}))
    BY CalmSteps
  <1> QED
    BY <1>1, QuietLists DEF OwnedBy

LEMMA Conv64Quiet == ASSUME NEW r PROVE Quiet(Conv64Steps(r))
  <1> DEFINE built == {"jit2", "jit", "h64", "hPad"}
             kernel == CASE r.variant = "weld" -> <<Get({"jit"}, {})>>
                         [] r.variant = "tiny" -> <<>>
                         [] r.variant \notin {"weld", "tiny"} ->
                              <<Get({"hPad"}, {}), Get({"jit"}, {"hPad"})>>
             extra  == CASE r.variant = "corr" ->
                              <<Get({"h2"}, {"jit", "hPad"}),
                                GetThen({"jit2"}, {"h2", "jit2", "jit", "hPad"}, {"h2"})>>
                         [] r.variant \in {"tailcorr", "tiny"} -> <<Get({"h64"}, {"jit", "hPad"})>>
                         [] r.variant \notin {"corr", "tailcorr", "tiny"} -> <<>>
             padded == IF r.variant \in {"pad", "corr", "tailcorr", "ola"}
                       THEN <<Get({"buf64"}, built)>> ELSE <<>>
             second == IF r.variant \in {"corr", "tailcorr", "ola"}
                       THEN <<Get({"buf2"}, built \cup {"buf64"})>> ELSE <<>>
             rest == <<GetThen({}, {}, {"hPad"}),
                       Get({"plan"}, {"buf2", "buf64", "jit2", "jit", "h64"}),
                       Publish({"buf2", "buf64", "jit2", "jit", "h64", "plan"})>>
  <1>1. Quiet(kernel)
    <2>1. Calm(Get({"jit"}, {})) /\ Calm(Get({"hPad"}, {})) /\ Calm(Get({"jit"}, {"hPad"}))
      BY CalmSteps
    <2> QED
      BY <2>1, QuietLists
  <1>2. Quiet(extra)
    <2>1. /\ Calm(Get({"h2"}, {"jit", "hPad"})) /\ Calm(Get({"h64"}, {"jit", "hPad"}))
          /\ Calm(GetThen({"jit2"}, {"h2", "jit2", "jit", "hPad"}, {"h2"}))
      BY CalmSteps
    <2> QED
      BY <2>1, QuietLists
  <1>3. Quiet(padded)
    <2>1. Calm(Get({"buf64"}, built))
      BY CalmSteps
    <2> QED
      BY <2>1, QuietLists
  <1>4. Quiet(second)
    <2>1. Calm(Get({"buf2"}, built \cup {"buf64"}))
      BY CalmSteps
    <2> QED
      BY <2>1, QuietLists
  <1>5. Quiet(rest)
    <2>1. /\ Calm(GetThen({}, {}, {"hPad"}))
          /\ Calm(Get({"plan"}, {"buf2", "buf64", "jit2", "jit", "h64"}))
          /\ Calm(Publish({"buf2", "buf64", "jit2", "jit", "h64", "plan"}))
      BY CalmSteps
    <2> QED
      BY <2>1, QuietLists
  <1>6. Conv64Steps(r) = kernel \o extra \o padded \o second \o rest
    BY DEF Conv64Steps
  <1> HIDE DEF kernel, extra, padded, second, rest
  <1> QED
    BY <1>1, <1>2, <1>3, <1>4, <1>5, <1>6, QuietConcat

LEMMA Linear64Quiet == ASSUME NEW r PROVE Quiet(Linear64Steps(r))
  <1> DEFINE first == IF r.variant = "tiny" THEN <<Get({"h64"}, {})>>
                      ELSE <<Get({"hPad"}, {}), GetThen({"jit"}, {"hPad"}, {"hPad"})>>
             rest == <<Get({"tail"}, {"jit", "h64"}), Get({"plan"}, {"tail", "jit", "h64"}),
                       Publish({"tail", "h64", "jit", "plan"})>>
  <1>1. Quiet(first)
    <2>1. /\ Calm(Get({"h64"}, {})) /\ Calm(Get({"hPad"}, {}))
          /\ Calm(GetThen({"jit"}, {"hPad"}, {"hPad"}))
      BY CalmSteps
    <2> QED
      BY <2>1, QuietLists
  <1>2. Quiet(rest)
    <2>1. /\ Calm(Get({"tail"}, {"jit", "h64"})) /\ Calm(Get({"plan"}, {"tail", "jit", "h64"}))
          /\ Calm(Publish({"tail", "h64", "jit", "plan"}))
      BY CalmSteps
    <2> QED
      BY <2>1, QuietLists
  <1>3. Linear64Steps(r) = first \o rest
    BY DEF Linear64Steps
  <1> HIDE DEF first, rest
  <1> QED
    BY <1>1, <1>2, <1>3, QuietConcat

LEMMA DispatchQuiet == ASSUME NEW r PROVE Quiet(DispatchSteps(r))
  <1> DEFINE first  == <<Get({"plan"}, {})>>
             middle == IF r.variant = "direct" THEN <<Get({"h_copy"}, {"plan"})>>
                       ELSE <<Get({"sub"}, {"plan"}),
                              Get({"work", "blk"}, {"sub", "work", "blk", "plan"})>>
             last   == <<Do("return")>>
  <1>1. Quiet(first) /\ Quiet(last)
    <2>1. Calm(Get({"plan"}, {})) /\ Calm(Do("return"))
      BY CalmSteps
    <2> QED
      BY <2>1, QuietLists
  <1>2. Quiet(middle)
    <2>1. /\ Calm(Get({"h_copy"}, {"plan"})) /\ Calm(Get({"sub"}, {"plan"}))
          /\ Calm(Get({"work", "blk"}, {"sub", "work", "blk", "plan"}))
      BY CalmSteps
    <2> QED
      BY <2>1, QuietLists
  <1>3. DispatchSteps(r) = first \o middle \o last
    BY DEF DispatchSteps
  <1> HIDE DEF first, middle, last
  <1> QED
    BY <1>1, <1>2, <1>3, QuietConcat

LEMMA QuietOrder ==
  ASSUME NEW r, r.kind \in HostKinds \ Searched
  PROVE  \A k \in 1..Len(Steps(r)) : Steps(r)[k].act \in {"get", "publish", "return"}
  <1>1. Quiet(Steps(r))
    <2>1. CASE r.kind = "conv64"
      BY <2>1, Conv64Quiet DEF Steps
    <2>2. CASE r.kind = "lin64"
      BY <2>2, Linear64Quiet DEF Steps
    <2>3. CASE r.kind = "dispatch"
      BY <2>3, DispatchQuiet DEF Steps
    <2>4. CASE r.kind = "fp64"
      BY <2>4, OwnedQuiet DEF Steps, Plain64Steps
    <2>5. CASE r.kind = "inv64"
      BY <2>5, OwnedQuiet DEF Steps, Inverse64Steps
    <2>6. CASE r.kind \in {"forward", "gauss", "inverse"}
      BY <2>6, OwnedQuiet DEF Steps, PlainSteps
    <2> QED
      BY <2>1, <2>2, <2>3, <2>4, <2>5, <2>6 DEF HostKinds, Kinds, Searched
  <1>2. \A k \in 1..Len(Steps(r)) : Steps(r)[k].act \in {"get", "publish", "return"}
    BY <1>1, ElementOfSeq DEF Quiet, Calm
  <1> QED
    BY <1>2

-----------------------------------------------------------------------------
\* A busy call's step and the next, by kind.
LEMMA CallStep ==
  ASSUME IInv, NEW s \in Sessions, Busy(s)
  PROVE  LET act(j) == Steps(req[s])[j].act
         IN  /\ act(at[s]) = Step(s).act
             /\ Step(s).act \in {"search", "legacy", "found", "build", "read", "window"} =>
                   req[s].kind \in Searched
             /\ req[s].kind \in {"conv", "linear"} =>
                   /\ act(at[s]) \in {"get", "search", "found", "build", "read", "publish"}
                   /\ act(at[s]) = "search" => act(at[s] + 1) = "found"
                   /\ act(at[s]) = "found"  => act(at[s] + 1) = "build" /\ act(at[s] + 3) = "get"
                   /\ act(at[s]) = "build"  => act(at[s] + 1) = "read" /\ act(at[s] + 2) = "get"
                   /\ act(at[s]) = "read"   => act(at[s] + 1) = "get"
                   /\ act(at[s]) = "get"    => act(at[s] + 1) \in {"get", "search", "publish"}
  <1>1. req[s] \in Requests /\ at[s] \in 1..Len(Steps(req[s]))
    BY StepFacts
  <1>2. req[s].kind \in HostKinds
    BY <1>1, RequestsAssumption
  <1>3. req[s].kind \notin Searched => Step(s).act \in {"get", "publish", "return"}
    BY <1>1, <1>2, QuietOrder DEF Step
  <1>4. ASSUME req[s].kind \in {"conv", "linear"}
        PROVE  LET act(j) == Steps(req[s])[j].act
               IN  /\ act(at[s]) \in {"get", "search", "found", "build", "read", "publish"}
                   /\ act(at[s]) = "search" => act(at[s] + 1) = "found"
                   /\ act(at[s]) = "found"  => act(at[s] + 1) = "build" /\ act(at[s] + 3) = "get"
                   /\ act(at[s]) = "build"  => act(at[s] + 1) = "read" /\ act(at[s] + 2) = "get"
                   /\ act(at[s]) = "read"   => act(at[s] + 1) = "get"
                   /\ act(at[s]) = "get"    => act(at[s] + 1) \in {"get", "search", "publish"}
    BY <1>1, <1>4, ConvOrder
  <1> QED
    BY <1>3, <1>4 DEF Step

\* A step of a call within its ladder.
LEMMA CallMoves ==
  ASSUME PInv, NEW s \in Sessions, Busy(s), req' = req, NEW k \in Nat, Move(s, k)
  PROVE  /\ Step(s)'.act = Steps(req[s])[at[s] + k].act
         /\ Busy(s)' /\ phase' = phase
         /\ \A t \in Sessions : t # s => phase'[t] = phase[t] /\ at'[t] = at[t] /\ req'[t] = req[t]
  <1>1. at'[s] = at[s] + k /\ phase' = phase /\ \A t \in Sessions : t # s => at'[t] = at[t]
    BY DEF PInv, PShape, Shape, Move
  <1>2. Step(s)' = Steps(req[s])[at[s] + k]
    BY <1>1 DEF Step
  <1>3. Busy(s)'
    BY <1>1 DEF Busy
  <1> QED
    BY <1>1, <1>2, <1>3

\* A step of one call leaves what fits the others, unless it changes the
\* statistics while they hunt.
LEMMA OneFit ==
  ASSUME FInv, NEW s \in Sessions,
         stats' = [q \in {"conv", "batch"} |-> stats'[q]],
         \A t \in Sessions : t # s => /\ phase'[t] = phase[t] /\ at'[t] = at[t]
                                      /\ req'[t] = req[t] /\ plan'[t] = plan[t],
         stats' = stats \/ \A t \in Sessions : t # s => ~Hunting(t),
         Hunting(s)' => \A t \in Sessions : t # s => ~Hunting(t),
         Fitted(s)'
  PROVE  FInv'
  <1>1. ASSUME NEW t \in Sessions, t # s
        PROVE  (Hunting(t)' <=> Hunting(t)) /\ Fitted(t)'
    <2>1. Step(t)' = Step(t) /\ (Busy(t)' <=> Busy(t)) /\ req'[t] = req[t]
          /\ phase'[t] = phase[t] /\ plan'[t] = plan[t]
      BY <1>1 DEF Step, Busy
    <2>2. Hunting(t)' <=> Hunting(t)
      BY <2>1 DEF Hunting
    <2>3. Read(t)' <=> Read(t)
      BY <2>1 DEF Read
    <2>4. Fitted(t)
      BY DEF FInv
    <2>5. stats' = stats \/ ~Hunting(t)
      BY <1>1
    <2>6. Fitted(t)'
      <3>1. CASE stats' = stats
        BY <2>1, <2>2, <2>3, <2>4, <3>1 DEF Fitted
      <3>2. CASE ~Hunting(t)
        BY <2>1, <2>2, <2>3, <2>4, <3>2 DEF Fitted
      <3> QED
        BY <2>5, <3>1, <3>2
    <2> QED
      BY <2>2, <2>6
  <1>2. ASSUME NEW t \in Sessions, NEW q \in Sessions, Hunting(t)', Hunting(q)' PROVE t = q
    BY <1>1, <1>2 DEF FInv
  <1>3. \A t \in Sessions : Fitted(t)'
    BY <1>1
  <1> QED
    BY <1>2, <1>3 DEF FInv

\* Nobody else hunts while a call does.
LEMMA HuntsAlone ==
  ASSUME FInv, NEW s \in Sessions, Hunting(s)
  PROVE  \A t \in Sessions : t # s => ~Hunting(t)
  BY DEF FInv

\* A call that returns.
LEMMA ReturnFits ==
  ASSUME FInv, PInv, NEW s \in Sessions, NEW got, NEW undo, GiveBack(s, got, undo), stats' = stats
  PROVE  FInv'
  <1>1. \A t \in Sessions : t # s => /\ phase'[t] = phase[t] /\ at'[t] = at[t]
                                     /\ req'[t] = req[t] /\ plan'[t] = plan[t]
    BY DEF PInv, PShape, Shape, GiveBack
  <1>2. phase'[s] = "idle"
    BY DEF PInv, PShape, Shape, GiveBack
  <1>3. ~Hunting(s)' /\ Fitted(s)'
    BY <1>2 DEF Hunting, Fitted, Busy
  <1>4. stats' = [q \in {"conv", "batch"} |-> stats'[q]]
    BY DEF FInv
  <1> QED
    BY <1>1, <1>3, <1>4, OneFit

\* The plan a call starts with fits, but for a batch's.
LEMMA DraftFits ==
  ASSUME NEW r \in Requests, r.kind # "batch"
  PROVE  Fits(Draft(r), r)
  <1>1. CASE r.kind \in {"conv", "linear"}
    <2>1. Draft(r).fused = FALSE /\ Draft(r).kernel = Kernel(r.n, <<"F">>)
      BY <1>1 DEF Draft, FusedInverse, PlainKernel
    <2>2. KernelOf(r, <<"standalone", "single">>) = Kernel(r.n, <<"F">>)
      BY <1>1 DEF KernelOf, SearchedKernel
    <2> QED
      BY <1>1, <2>1, <2>2 DEF Fits, Searched
  <1>2. CASE r.kind \notin {"conv", "linear"}
    BY <1>2 DEF Fits, Searched
  <1> QED
    BY <1>1, <1>2

LEMMA CreateFits ==
  ASSUME IInv, PInv, FInv, NEW s \in Sessions, NEW r \in Requests, Create(s, r)
  PROVE  FInv'
  <1>1. /\ phase'[s] = "busy" /\ at'[s] = 1 /\ req'[s] = r /\ stats' = stats /\ plan'[s] = Draft(r)
        /\ stats' = [q \in {"conv", "batch"} |-> stats'[q]]
    BY DEF Create, IInv, Shape, HoldsLittle, FInv, PInv, PShape
  <1>2. \A t \in Sessions : t # s => /\ phase'[t] = phase[t] /\ at'[t] = at[t]
                                     /\ req'[t] = req[t] /\ plan'[t] = plan[t]
    BY DEF Create, PInv, PShape, Shape
  <1>3. /\ r.kind = "batch" => Step(s)'.act \in {"legacy", "search"}
        /\ r.kind \in {"conv", "linear"} => Step(s)'.act = "get"
    <2>1. Steps(r) \in Seq(Rungs) /\ Steps(r) # <<>>
      BY LaddersEnd DEF Ends
    <2>2. 1 \in 1..Len(Steps(r))
      BY <2>1, LenProperties, EmptySeq
    <2>3. r.kind = "batch" => Steps(r)[1].act \in {"legacy", "search"}
      BY <2>2, BatchOrder
    <2>4. r.kind \in {"conv", "linear"} => Steps(r)[1].act = "get"
      BY <2>2, ConvOrder
    <2>5. Step(s)' = Steps(r)[1]
      BY <1>1 DEF Step
    <2> QED
      BY <2>3, <2>4, <2>5
  <1>4. ~Hunting(s)'
    BY <1>1, <1>3 DEF Hunting, Searched
  <1>5. r.kind # "batch" => Fits(plan'[s], r)
    BY <1>1, DraftFits
  <1>6. r.kind = "batch" => ~Read(s)'
    BY <1>1, <1>3 DEF Read, Busy
  <1>7. Fitted(s)'
    BY <1>1, <1>4, <1>5, <1>6 DEF Fitted
  <1> QED
    BY <1>1, <1>2, <1>4, <1>7, OneFit

\* An allocation, a batch's window, and the start of a search.
LEMMA StaysFitted ==
  ASSUME IInv, PInv, FInv, NEW s \in Sessions, Busy(s), Step(s).act \in {"get", "window"},
         Move(s, 1), UNCHANGED <<stats, req, plan>>
  PROVE  FInv'
  <1>1. stats' = [q \in {"conv", "batch"} |-> stats'[q]] /\ plan' = plan /\ req' = req /\ stats' = stats
    BY DEF FInv
  <1>2. \A t \in Sessions : t # s => phase'[t] = phase[t] /\ at'[t] = at[t]
    BY DEF PInv, PShape, Shape, Move
  <1>3. Busy(s)' /\ phase' = phase /\ Step(s)'.act = Steps(req[s])[at[s] + 1].act
    BY CallMoves
  <1>4. Fitted(s) /\ phase[s] = "busy"
    BY DEF FInv, Busy
  <1>5. CASE req[s].kind = "batch"
    <2>1. Step(s)'.act \in {"get", "publish"}
      BY <1>3, <1>5, BatchStep
    <2>2. Read(s)
      BY DEF Read
    <2>3. ~Hunting(s)'
      BY <2>1 DEF Hunting
    <2>4. Fits(plan[s], req[s])
      BY <1>4, <1>5, <2>2 DEF Fitted
    <2>5. Fitted(s)'
      BY <1>1, <1>5, <2>3, <2>4 DEF Fitted
    <2> QED
      BY <1>1, <1>2, <2>3, <2>5, OneFit
  <1>6. CASE req[s].kind # "batch"
    <2>1. req[s].kind \in {"conv", "linear"} => Step(s)'.act \in {"get", "search", "publish"}
      BY <1>3, CallStep
    <2>2. ~Hunting(s)'
      BY <1>1, <1>6, <2>1 DEF Hunting, Searched
    <2>3. Fits(plan[s], req[s])
      BY <1>4, <1>6 DEF Fitted, Hunting
    <2>4. Fitted(s)'
      BY <1>1, <1>6, <2>2, <2>3 DEF Fitted
    <2> QED
      BY <1>1, <1>2, <2>2, <2>4, OneFit
  <1> QED
    BY <1>5, <1>6

LEMMA StartSearchFits ==
  ASSUME OneSearch, IInv, PInv, FInv, NEW s \in Sessions, StartSearch(s)
  PROVE  FInv'
  <1>1. Busy(s) /\ Step(s).act = "search" /\ Move(s, 1) /\ UNCHANGED <<req, plan>>
    BY DEF StartSearch
  <1>2. stats' = [q \in {"conv", "batch"} |-> stats'[q]]
    BY DEF StartSearch, FInv
  <1>3. \A t \in Sessions : ~Hunting(t)
    BY DEF StartSearch, Hunting
  <1>4. /\ Busy(s)' /\ phase' = phase /\ Step(s)'.act = Steps(req[s])[at[s] + 1].act
        /\ \A t \in Sessions : t # s => phase'[t] = phase[t] /\ at'[t] = at[t]
    BY <1>1, CallMoves
  <1>5. Step(s)'.act = "found" /\ req[s].kind \in Searched
    <2>1. req[s].kind \in Searched
      BY <1>1, CallStep
    <2>2. CASE req[s].kind = "batch"
      BY <1>1, <1>4, <2>1, <2>2, BatchStep
    <2>3. CASE req[s].kind \in {"conv", "linear"}
      BY <1>1, <1>4, <2>1, <2>3, CallStep
    <2> QED
      BY <2>1, <2>2, <2>3 DEF Searched
  <1>6. Fitted(s) /\ phase[s] = "busy"
    BY <1>1 DEF FInv, Busy
  <1>7. req[s].kind = "batch" => ~Read(s)'
    BY <1>4, <1>5 DEF Read, Busy
  <1>8. req[s].kind # "batch" => Fits(plan[s], req[s])
    BY <1>3, <1>6 DEF Fitted
  <1>9. Fitted(s)'
    BY <1>1, <1>5, <1>7, <1>8 DEF Fitted
  <1> QED
    BY <1>1, <1>2, <1>3, <1>4, <1>9, OneFit

\* A short batch's fixed kernel is that of a search that ends with its record.
LEMMA FixedWinner ==
  ASSUME NEW r, r.kind = "batch"
  PROVE  /\ <<"load", "loop">> \in Winners(r)
         /\ KernelOf(r, <<"load", "loop">>) = Kernel(r.n, <<"W", "F">>)
  <1>1. <<"load", "loop">> \in Winners(r)
    BY DEF Winners
  <1>2. KernelOf(r, <<"load", "loop">>) = Kernel(r.n, <<"W", "F">>)
    <2> DEFINE both == <<"W", "F">>
               st == [n |-> r.n, place |-> "load", form |-> "loop"]
    <2>1. KernelOf(r, <<"load", "loop">>) = SearchedKernel(r.kind, st)
      BY DEF KernelOf
    <2>2. st.n = r.n /\ st.place = "load" /\ st.form = "loop"
      OBVIOUS
    <2> HIDE DEF st
    <2>3. SearchedKernel(r.kind, st)
             = [n |-> st.n, ops |-> IF st.place = "load" THEN both ELSE <<"F">>,
                single |-> st.form \in {"single", "slim"}, contig |-> st.form = "slim"]
      BY DEF SearchedKernel
    <2>4. Kernel(r.n, both) = [n |-> r.n, ops |-> both, single |-> FALSE, contig |-> FALSE]
      BY DEF Kernel
    <2>5. (st.form \in {"single", "slim"}) = FALSE /\ (st.form = "slim") = FALSE
      BY <2>2
    <2> HIDE DEF both
    <2>6. SearchedKernel(r.kind, st) = Kernel(r.n, both)
      BY <2>2, <2>3, <2>4, <2>5
    <2> QED
      BY <2>1, <2>6 DEF both
  <1> QED
    BY <1>1, <1>2

LEMMA FixedKernelFits ==
  ASSUME OneSearch, IInv, PInv, FInv, NEW s \in Sessions, FixedKernel(s)
  PROVE  FInv'
  <1>1. Busy(s) /\ Step(s).act = "legacy" /\ Move(s, 1) /\ req' = req
    BY DEF FixedKernel
  <1>2. /\ stats' = [q \in {"conv", "batch"} |-> stats'[q]]
        /\ stats'["batch"].place = "load" /\ stats'["batch"].form = "loop"
    BY DEF FixedKernel, FInv
  <1>3. /\ Busy(s)' /\ phase' = phase /\ Step(s)'.act = Steps(req[s])[at[s] + 1].act
        /\ \A t \in Sessions : t # s => phase'[t] = phase[t] /\ at'[t] = at[t] /\ req'[t] = req[t]
    BY <1>1, CallMoves
  <1>4. \A t \in Sessions : t # s => plan'[t] = plan[t]
    BY DEF PInv, PShape, FixedKernel
  <1>5. req[s].kind = "batch"
    BY <1>1, StepFacts DEF SkipsStayInside, Step
  <1>6. \A t \in Sessions : ~Hunting(t)
    BY DEF FixedKernel, Hunting
  <1>7. Step(s)'.act = "read"
    BY <1>1, <1>3, <1>5, BatchStep
  <1>8. plan'[s].kernel = Kernel(req[s].n, <<"W", "F">>)
    BY <1>1 DEF FixedKernel, PInv, PShape, OfItsKind, IsFor, Draft, Busy
  <1>9. <<"load", "loop">> \in Winners(req[s]) /\ KernelOf(req[s], <<"load", "loop">>) = Kernel(req[s].n, <<"W", "F">>)
    BY <1>5, FixedWinner
  <1>10. Fitted(s)'
    <2>1. req'[s].kind = "batch" /\ Search(req'[s]) = "batch" /\ ~Read(s)'
      BY <1>1, <1>3, <1>5, <1>7 DEF Search, Read, Busy
    <2> QED
      BY <1>1, <1>2, <1>7, <1>8, <1>9, <2>1 DEF Fitted
  <1> QED
    BY <1>2, <1>3, <1>4, <1>6, <1>10, OneFit

LEMMA EndSearchFits ==
  ASSUME IInv, PInv, FInv, NEW s \in Sessions, EndSearch(s)
  PROVE  FInv'
  <1>1. Busy(s) /\ Step(s).act = "found" /\ Move(s, 1) /\ UNCHANGED <<req, plan>>
    BY DEF EndSearch
  <1>2. PICK w \in Winners(req[s]) :
           stats' = [stats EXCEPT ![Search(req[s])] = [n |-> req[s].n, place |-> w[1], form |-> w[2]]]
    BY DEF EndSearch
  <1>3. stats' = [q \in {"conv", "batch"} |-> stats'[q]]
    BY <1>2 DEF FInv
  <1>4. /\ Busy(s)' /\ phase' = phase /\ Step(s)'.act = Steps(req[s])[at[s] + 1].act
        /\ \A t \in Sessions : t # s => phase'[t] = phase[t] /\ at'[t] = at[t] /\ req'[t] = req[t]
    BY <1>1, CallMoves
  <1>5. Step(s)'.act = "build" /\ req[s].kind \in Searched
    <2>1. req[s].kind \in Searched
      BY <1>1, CallStep
    <2>2. CASE req[s].kind = "batch"
      BY <1>1, <1>4, <2>1, <2>2, BatchStep
    <2>3. CASE req[s].kind \in {"conv", "linear"}
      BY <1>1, <1>4, <2>1, <2>3, CallStep
    <2> QED
      BY <2>1, <2>2, <2>3 DEF Searched
  <1>6. Hunting(s) /\ Fitted(s) /\ phase[s] = "busy"
    BY <1>1, <1>5 DEF Hunting, FInv, Busy
  <1>7. stats'[Search(req[s])] = [n |-> req[s].n, place |-> w[1], form |-> w[2]]
    BY <1>2 DEF FInv, Search
  <1>8. <<w[1], w[2]>> = w
    BY DEF Winners
  <1>9. Fitted(s)'
    <2>1. /\ stats'[Search(req'[s])].n = req'[s].n
          /\ <<stats'[Search(req'[s])].place, stats'[Search(req'[s])].form>> \in Winners(req'[s])
      BY <1>1, <1>7, <1>8
    <2>2. req[s].kind = "batch" => ~Read(s)'
      BY <1>4, <1>5 DEF Read, Busy
    <2>3. req[s].kind # "batch" => Fits(plan[s], req[s])
      BY <1>1, <1>6 DEF Fitted
    <2> QED
      BY <1>1, <1>5, <2>1, <2>2, <2>3 DEF Fitted
  <1> QED
    BY <1>1, <1>3, <1>4, <1>6, <1>9, HuntsAlone, OneFit

LEMMA LegacyWinsFits ==
  ASSUME IInv, PInv, FInv, NEW s \in Sessions, LegacyWins(s)
  PROVE  FInv'
  <1>1. Busy(s) /\ Step(s).act = "found" /\ req[s].kind = "batch" /\ Move(s, 2) /\ req' = req
    BY DEF LegacyWins
  <1>2. /\ stats' = [q \in {"conv", "batch"} |-> stats'[q]]
        /\ stats'["batch"].place = "load" /\ stats'["batch"].form = "loop"
    BY DEF LegacyWins, FInv
  <1>3. /\ Busy(s)' /\ phase' = phase /\ Step(s)'.act = Steps(req[s])[at[s] + 2].act
        /\ \A t \in Sessions : t # s => phase'[t] = phase[t] /\ at'[t] = at[t] /\ req'[t] = req[t]
    BY <1>1, CallMoves
  <1>4. \A t \in Sessions : t # s => plan'[t] = plan[t]
    BY DEF PInv, PShape, LegacyWins
  <1>5. Hunting(s)
    BY <1>1 DEF Hunting, Searched
  <1>7. Step(s)'.act = "read"
    BY <1>1, <1>3, BatchStep
  <1>8. plan'[s].kernel = Kernel(req[s].n, <<"W", "F">>)
    BY <1>1 DEF LegacyWins, PInv, PShape, OfItsKind, IsFor, Draft, Busy
  <1>9. <<"load", "loop">> \in Winners(req[s]) /\ KernelOf(req[s], <<"load", "loop">>) = Kernel(req[s].n, <<"W", "F">>)
    BY <1>1, FixedWinner
  <1>10. Fitted(s)'
    <2>1. req'[s].kind = "batch" /\ Search(req'[s]) = "batch" /\ ~Read(s)'
      BY <1>1, <1>3, <1>7 DEF Search, Read, Busy
    <2> QED
      BY <1>1, <1>2, <1>7, <1>8, <1>9, <2>1 DEF Fitted
  <1> QED
    BY <1>2, <1>3, <1>4, <1>5, <1>10, HuntsAlone, OneFit

LEMMA BuildFits ==
  ASSUME IInv, PInv, FInv, NEW s \in Sessions, Build(s)
  PROVE  FInv'
  <1>1. Busy(s) /\ Step(s).act = "build" /\ Move(s, 1) /\ UNCHANGED <<stats, req>>
    BY DEF Build
  <1>2. stats' = [q \in {"conv", "batch"} |-> stats'[q]] /\ stats' = stats
    BY <1>1 DEF FInv
  <1>3. /\ Busy(s)' /\ phase' = phase /\ Step(s)'.act = Steps(req[s])[at[s] + 1].act
        /\ \A t \in Sessions : t # s => phase'[t] = phase[t] /\ at'[t] = at[t] /\ req'[t] = req[t]
    BY <1>1, CallMoves
  <1>4. \A t \in Sessions : t # s => plan'[t] = plan[t]
    BY DEF PInv, PShape, Build
  <1>5. Step(s)'.act = "read" /\ req[s].kind \in Searched
    <2>1. req[s].kind \in Searched
      BY <1>1, CallStep
    <2>2. CASE req[s].kind = "batch"
      BY <1>1, <1>3, <2>1, <2>2, BatchStep
    <2>3. CASE req[s].kind \in {"conv", "linear"}
      BY <1>1, <1>3, <2>1, <2>3, CallStep
    <2> QED
      BY <2>1, <2>2, <2>3 DEF Searched
  <1>6. Hunting(s) /\ Fitted(s) /\ phase[s] = "busy"
    BY <1>1, <1>5 DEF Hunting, FInv, Busy
  <1> DEFINE r  == req[s]
             st == stats[Search(r)]
             w  == <<st.place, st.form>>
  <1>7. st.n = r.n /\ w \in Winners(r)
    BY <1>1, <1>6 DEF Fitted
  <1>8. plan'[s].kernel = SearchedKernel(r.kind, st)
    BY <1>1 DEF Build, PInv, PShape, OfItsKind, IsFor, Draft, Busy
  <1>9. SearchedKernel(r.kind, st) = KernelOf(r, w)
    BY <1>7 DEF KernelOf, SearchedKernel
  <1>10. r.kind = "batch" => ~Read(s)'
    BY <1>3, <1>5 DEF Read, Busy
  <1>11. Hunting(s)'
    BY <1>1, <1>3, <1>5 DEF Hunting
  <1>12. Fitted(s)'
    BY <1>1, <1>5, <1>7, <1>8, <1>9, <1>10, <1>11 DEF Fitted
  <1> QED
    BY <1>1, <1>2, <1>3, <1>4, <1>6, <1>12, HuntsAlone, OneFit

LEMMA SearchFailsFits ==
  ASSUME IInv, PInv, FInv, NEW s \in Sessions, SearchFails(s)
  PROVE  FInv'
  <1>1. CASE req[s].kind = "batch"
    BY <1>1, ReturnFits DEF SearchFails, Return
  <1>2. CASE req[s].kind # "batch"
    <2>1. /\ Busy(s) /\ Step(s).act \in {"legacy", "found", "build"} /\ UNCHANGED <<stats, req, plan>>
          /\ Step(s).act = "found" => Move(s, 3)
          /\ Step(s).act # "found" => Move(s, 2)
      BY <1>2 DEF SearchFails
    <2>2. req[s].kind \in {"conv", "linear"} /\ Step(s).act \in {"found", "build"}
      BY <1>2, <2>1, CallStep DEF Searched
    <2>3. Fitted(s) /\ phase[s] = "busy"
      BY <2>1 DEF FInv, Busy
    <2>4. Fits(plan[s], req[s])
      BY <1>2, <2>2, <2>3 DEF Fitted
    <2>5. PICK k \in {2, 3} : Move(s, k) /\ Steps(req[s])[at[s] + k].act = "get"
      BY <2>1, <2>2, CallStep
    <2>6. /\ Busy(s)' /\ phase' = phase /\ Step(s)'.act = Steps(req[s])[at[s] + k].act
          /\ \A t \in Sessions : t # s => phase'[t] = phase[t] /\ at'[t] = at[t] /\ req'[t] = req[t]
      BY <2>1, <2>5, CallMoves
    <2>7. ~Hunting(s)'
      BY <2>5, <2>6 DEF Hunting
    <2>8. Fitted(s)'
      BY <1>2, <2>1, <2>4, <2>7 DEF Fitted
    <2>9. stats' = [q \in {"conv", "batch"} |-> stats'[q]] /\ stats' = stats
      BY <2>1 DEF FInv
    <2> QED
      BY <2>1, <2>6, <2>7, <2>8, <2>9, OneFit
  <1> QED
    BY <1>1, <1>2

\* Wherever a convolution's winner applies the spectrum, the kernel is the same
\* unless it leaves it to the host.
LEMMA ConvWinners ==
  ASSUME NEW r, r.kind \in {"conv", "linear"}, NEW place, NEW form, <<place, form>> \in Winners(r)
  PROVE  KernelOf(r, <<place, form>>)
            = KernelOf(r, <<IF place # "standalone" THEN "store" ELSE "standalone", "single">>)
  <1>1. place \in {"store", "load", "standalone"}
    BY DEF Winners
  <1> QED
    BY <1>1 DEF KernelOf, SearchedKernel

LEMMA ReadPlaceFits ==
  ASSUME IInv, PInv, FInv, NEW s \in Sessions, ReadPlace(s)
  PROVE  FInv'
  <1>1. Busy(s) /\ Step(s).act = "read" /\ Move(s, 1) /\ UNCHANGED <<stats, req>>
    BY DEF ReadPlace
  <1>2. stats' = [q \in {"conv", "batch"} |-> stats'[q]] /\ stats' = stats
    BY <1>1 DEF FInv
  <1>3. /\ Busy(s)' /\ phase' = phase /\ Step(s)'.act = Steps(req[s])[at[s] + 1].act
        /\ \A t \in Sessions : t # s => phase'[t] = phase[t] /\ at'[t] = at[t] /\ req'[t] = req[t]
    BY <1>1, CallMoves
  <1>4. \A t \in Sessions : t # s => plan'[t] = plan[t]
    BY DEF PInv, PShape, ReadPlace
  <1>5. req[s].kind \in Searched
    BY <1>1, CallStep
  <1>6. Hunting(s) /\ Fitted(s) /\ phase[s] = "busy"
    BY <1>1, <1>5 DEF Hunting, FInv, Busy
  <1> DEFINE r  == req[s]
             st == stats[Search(r)]
  <1>7. <<st.place, st.form>> \in Winners(r) /\ plan[s].kernel = KernelOf(r, <<st.place, st.form>>)
    BY <1>1, <1>6 DEF Fitted
  <1>d. {"place", "form", "fused", "kernel"} \subseteq DOMAIN plan[s]
    BY <1>1 DEF PInv, OfItsKind, IsFor, Draft, Busy
  <1>8. Fits(plan'[s], r) /\ ~Hunting(s)'
    <2>1. CASE r.kind = "batch"
      <3>1. plan'[s] = [plan[s] EXCEPT !.place = st.place, !.form = st.form]
        BY <2>1 DEF ReadPlace, PInv, PShape
      <3>2. plan'[s].place = st.place /\ plan'[s].form = st.form /\ plan'[s].kernel = plan[s].kernel
        BY <1>d, <3>1
      <3>3. \E v \in Winners(r) :
               plan'[s].place = v[1] /\ plan'[s].form = v[2] /\ plan'[s].kernel = KernelOf(r, v)
        <4> DEFINE v == <<st.place, st.form>>
        <4>1. v \in Winners(r) /\ v[1] = st.place /\ v[2] = st.form /\ plan[s].kernel = KernelOf(r, v)
          BY <1>7
        <4> HIDE DEF v
        <4> QED
          BY <3>2, <4>1
      <3>4. Step(s)'.act = "window"
        BY <1>1, <1>3, <2>1, BatchStep
      <3> QED
        BY <2>1, <3>3, <3>4 DEF Fits, Searched, Hunting
    <2>2. CASE r.kind \in {"conv", "linear"}
      <3>1. plan'[s] = [plan[s] EXCEPT !.fused = (st.place # "standalone")]
        BY <2>2 DEF ReadPlace, PInv, PShape
      <3>2. plan'[s].fused = (st.place # "standalone") /\ plan'[s].kernel = plan[s].kernel
        BY <1>d, <3>1
      <3>3. plan'[s].kernel = KernelOf(r, <<IF st.place # "standalone" THEN "store" ELSE "standalone", "single">>)
        BY <1>7, <2>2, <3>2, ConvWinners
      <3>4. plan'[s].fused \in BOOLEAN
            /\ plan'[s].kernel = KernelOf(r, <<IF plan'[s].fused THEN "store" ELSE "standalone", "single">>)
        BY <3>2, <3>3
      <3>5. Step(s)'.act = "get"
        BY <1>1, <1>3, <2>2, CallStep
      <3> QED
        BY <2>2, <3>4, <3>5 DEF Fits, Searched, Hunting
    <2> QED
      BY <1>5, <2>1, <2>2 DEF Searched
  <1>9. Fitted(s)'
    BY <1>1, <1>8 DEF Fitted
  <1> QED
    BY <1>1, <1>2, <1>3, <1>4, <1>8, <1>9, OneFit

LEMMA FinishFits ==
  ASSUME IInv, PInv, FInv, NEW s \in Sessions, Finish(s)
  PROVE  FInv'
  <1>0. Busy(s) /\ Step(s).act \in {"publish", "return"} /\ stats' = stats
    BY DEF Finish
  <1>1. CASE Return(s, Step(s).undo)
    BY <1>0, <1>1, ReturnFits DEF Return
  <1>2. CASE phase' = [phase EXCEPT ![s] = "ready"] /\ UNCHANGED <<at, req, held, found, plan>>
    <2>1. stats' = [q \in {"conv", "batch"} |-> stats'[q]]
      BY <1>0 DEF FInv
    <2>2. phase'[s] = "ready" /\ \A t \in Sessions : t # s => phase'[t] = phase[t]
      BY <1>2 DEF PInv, PShape, Shape
    <2>3. req[s].kind = "batch" => Step(s).act = "publish"
      BY <1>0, BatchStep
    <2>4. Fitted(s) /\ phase[s] = "busy"
      BY <1>0 DEF FInv, Busy
    <2>5. Fits(plan[s], req[s])
      BY <1>0, <2>3, <2>4 DEF Fitted, Read
    <2>6. ~Hunting(s)'
      BY <2>2 DEF Hunting, Busy
    <2>7. Fitted(s)'
      BY <1>2, <2>5, <2>6 DEF Fitted
    <2> QED
      BY <1>0, <1>2, <2>1, <2>2, <2>6, <2>7, OneFit
  <1> QED
    BY <1>1, <1>2 DEF Finish

LEMMA PlansFit ==
  ASSUME OneSearch
  PROVE  Spec => []FInv
  <1>1. Init => FInv
    BY DEF Init, FInv, Hunting, Fitted, Busy
  <1>2. IInv /\ PInv /\ FInv /\ [Next]_vars => FInv'
    <2> SUFFICES ASSUME IInv, PInv, FInv, [Next]_vars PROVE FInv'
      OBVIOUS
    <2>1. ASSUME NEW s \in Sessions, NEW r \in Requests, Create(s, r) PROVE FInv'
      BY <2>1, CreateFits
    <2>2. ASSUME NEW s \in Sessions, Allocate(s) PROVE FInv'
      BY <2>2, StaysFitted DEF Allocate
    <2>3. ASSUME NEW s \in Sessions, AllocateFails(s) PROVE FInv'
      BY <2>3, ReturnFits DEF AllocateFails
    <2>4. ASSUME NEW s \in Sessions, StartSearch(s) PROVE FInv'
      BY <2>4, StartSearchFits
    <2>5. ASSUME NEW s \in Sessions, FixedKernel(s) PROVE FInv'
      BY <2>5, FixedKernelFits
    <2>6. ASSUME NEW s \in Sessions, EndSearch(s) PROVE FInv'
      BY <2>6, EndSearchFits
    <2>7. ASSUME NEW s \in Sessions, LegacyWins(s) PROVE FInv'
      BY <2>7, LegacyWinsFits
    <2>8. ASSUME NEW s \in Sessions, Build(s) PROVE FInv'
      BY <2>8, BuildFits
    <2>9. ASSUME NEW s \in Sessions, SearchFails(s) PROVE FInv'
      BY <2>9, SearchFailsFits
    <2>10. ASSUME NEW s \in Sessions, ReadPlace(s) PROVE FInv'
      BY <2>10, ReadPlaceFits
    <2>11. ASSUME NEW s \in Sessions, Window(s) PROVE FInv'
      <3>1. CASE Return(s, {"jit"})
        BY <2>11, <3>1, ReturnFits DEF Window, Return
      <3>2. CASE Move(s, 1) /\ UNCHANGED <<req, found, plan>>
        BY <2>11, <3>2, StaysFitted DEF Window
      <3> QED
        BY <2>11, <3>1, <3>2 DEF Window
    <2>12. ASSUME NEW s \in Sessions, Finish(s) PROVE FInv'
      BY <2>12, FinishFits
    <2>13. ASSUME NEW s \in Sessions, Destroy(s) PROVE FInv'
      BY <2>13, ReturnFits DEF Destroy, Return
    <2>14. CASE UNCHANGED vars
      BY <2>14 DEF vars, FInv, Hunting, Fitted, Read, Busy, Step
    <2> QED
      BY <2>1, <2>2, <2>3, <2>4, <2>5, <2>6, <2>7, <2>8, <2>9, <2>10, <2>11, <2>12, <2>13, <2>14 DEF Next
  <1> QED
    BY <1>1, <1>2, InitHoldsNothing, NextHoldsLittle, PlansKeepTheirKind, PTL DEF Spec

-----------------------------------------------------------------------------
\* What operations do to a block, and to a row of blocks.
\* A buffer whose n samples from its start on are in their places and have all had ops.
Put(buf, from, n, ops) ==
    [a \in DOMAIN buf |-> IF a \in from..(from + n - 1) THEN [pos |-> a - from, ops |-> ops] ELSE buf[a]]

\* There is such a block.
Holds(buf, from, n) == from..(from + n - 1) \subseteq DOMAIN buf

\* One operation on such samples is done to all of them.
LEMMA ApplyPut ==
  ASSUME NEW buf, NEW from \in Int, NEW n \in Nat, NEW ops, NEW op, Holds(buf, from, n)
  PROVE  Apply(Put(buf, from, n, ops), from, n, op) =
            Put(buf, from, n, Append(ops, op))
  <1> DEFINE z == from..(from + n - 1)
             b == Put(buf, from, n, ops)
  <1>1. DOMAIN b = DOMAIN buf /\ \A a \in z : b[a] = [pos |-> a - from, ops |-> ops]
    BY DEF Put, Holds
  <1>2. \A a \in DOMAIN buf : a \notin z => b[a] = buf[a]
    BY DEF Put
  <1>3. ASSUME NEW a \in z
        PROVE  /\ b[a].pos = a - from /\ b[a].ops = ops
               /\ [b[a] EXCEPT !.ops = Append(@, op)] = [pos |-> a - from, ops |-> Append(ops, op)]
    <2>1. b[a] = [pos |-> a - from, ops |-> ops]
      BY <1>1
    <2>2. b[a].pos = a - from /\ b[a].ops = ops
      BY <2>1
    <2> HIDE DEF b
    <2>3. [b[a] EXCEPT !.ops = Append(@, op)] = [pos |-> a - from, ops |-> Append(ops, op)]
      <3> HIDE DEF z
      <3> DEFINE e == b[a]
                 p == a - from
      <3>1. e = [pos |-> p, ops |-> ops] /\ p \in Int
        BY <2>1 DEF z
      <3> HIDE DEF e, p
      <3>2. [e EXCEPT !.ops = Append(@, op)] = [pos |-> p, ops |-> Append(ops, op)]
        BY <3>1
      <3> QED
        BY <3>2 DEF e, p
    <2> QED
      BY <2>2, <2>3
  <1>4. \A a \in z : from \in z
    OBVIOUS
  <1>5. \A a \in z : b[a] = [pos |-> a - from, ops |-> b[from].ops]
    BY <1>1, <1>3, <1>4
  <1> HIDE DEF b
  <1>6. Apply(b, from, n, op) = [a \in DOMAIN b |-> IF a \notin z THEN b[a] ELSE [b[a] EXCEPT !.ops = Append(@, op)]]
    BY <1>3, <1>5 DEF Apply
  <1>7. Apply(b, from, n, op) = [a \in DOMAIN buf |-> IF a \notin z THEN buf[a] ELSE [pos |-> a - from, ops |-> Append(ops, op)]]
    BY <1>1, <1>2, <1>3, <1>6
  <1> QED
    BY <1>7 DEF b, Put

\* Doing ops, one after the other, to samples that have had low makes high of it:
\* after[k] is what the first k make.
Grows(low, ops, high) ==
    /\ Len(ops) \in Nat
    /\ \E after : /\ after[0] = low /\ after[Len(ops)] = high
                  /\ \A k \in Nat : k < Len(ops) => after[k + 1] = Append(after[k], ops[k + 1])

\* A kernel call does its operations in their order.
LEMMA CallPut ==
  ASSUME NEW buf, NEW from \in Int, NEW kernel, NEW n \in Nat, kernel.n = n, Holds(buf, from, n),
         NEW low, NEW high, Grows(low, kernel.ops, high)
  PROVE  Call(Put(buf, from, n, low), from, kernel) = Put(buf, from, n, high)
  <1> DEFINE m == Len(kernel.ops)
  <1>m. m \in Nat
    BY DEF Grows
  <1>a. PICK after : /\ after[0] = low /\ after[m] = high
                     /\ \A k \in Nat : k < m => after[k + 1] = Append(after[k], kernel.ops[k + 1])
    BY DEF Grows
  <1> DEFINE b(k) == Put(buf, from, n, after[k])
             Does(f) == f = [k \in 0..m |->
                               IF k = 0 THEN b(0)
                               ELSE Apply(f[k - 1], from, n, kernel.ops[k])]
             done == CHOOSE f : Does(f)
             made == [k \in 0..m |-> b(k)]
  <1>0. \A ops, op : Apply(Put(buf, from, n, ops), from, n, op) = Put(buf, from, n, Append(ops, op))
    BY ApplyPut
  <1>1. ASSUME NEW k \in 1..m PROVE Apply(b(k - 1), from, n, kernel.ops[k]) = b(k)
    <2>1. k - 1 \in Nat /\ k - 1 < m /\ (k - 1) + 1 = k
      BY <1>m
    <2>2. after[k] = Append(after[k - 1], kernel.ops[k])
      <3> HIDE DEF m
      <3>1. after[(k - 1) + 1] = Append(after[k - 1], kernel.ops[(k - 1) + 1])
        BY <1>a, <2>1
      <3> QED
        BY <2>1, <3>1
    <2>3. Apply(b(k - 1), from, n, kernel.ops[k]) = Put(buf, from, n, Append(after[k - 1], kernel.ops[k]))
      BY <1>0
    <2> QED
      BY <2>2, <2>3
  <1>b. Put(buf, from, n, low) = b(0) /\ Put(buf, from, n, high) = b(m)
    BY <1>a
  <1>c. Call(b(0), from, kernel) = done[m]
    BY DEF Call
  <1> HIDE DEF b
  <1>2. Does(made)
    BY <1>m, <1>1
  <1>3. Does(done)
    BY <1>2
  <1> HIDE DEF done, m
  <1>4. \A k \in 0..m : done[k] = b(k)
    <2> DEFINE Bad == {k \in Nat : k \in 0..m /\ done[k] # b(k)}
    <2>1. ASSUME Bad # {} PROVE FALSE
      <3>1. PICK k \in Bad : \A j \in Bad : k <= j
        BY <2>1, Math!LeastNatural
      <3>2. k # 0
        BY <1>m, <1>3, <3>1
      <3>3. k \in 1..m /\ k - 1 \in 0..m /\ k - 1 \notin Bad
        BY <1>m, <3>1, <3>2
      <3>4. done[k - 1] = b(k - 1)
        BY <1>m, <3>3
      <3>5. done[k] = Apply(done[k - 1], from, n, kernel.ops[k])
        BY <1>m, <1>3, <3>3
      <3> QED
        BY <1>1, <3>1, <3>3, <3>4, <3>5
    <2> QED
      BY <1>m, <2>1
  <1> QED
    BY <1>b, <1>c, <1>m, <1>4

\* Lists that grow by one.
LEMMA AppendIs ==
  ASSUME NEW S, NEW s \in Seq(S), NEW e \in S, NEW t \in Seq(S), Len(t) = Len(s) + 1,
         \A i \in 1..Len(s) : t[i] = s[i], t[Len(s) + 1] = e
  PROVE  Append(s, e) = t
  <1>1. Append(s, e) \in Seq(S) /\ Len(Append(s, e)) = Len(s) + 1 /\ Len(s) \in Nat
    BY AppendProperties, LenProperties
  <1>2. \A i \in 1..Len(t) : Append(s, e)[i] = t[i]
    BY <1>1, AppendProperties
  <1> QED
    BY <1>1, <1>2, SeqEqual

LEMMA AppendOne == ASSUME NEW a PROVE Append(<<>>, a) = <<a>>
  OBVIOUS

LEMMA AppendTwo ==
  ASSUME NEW a, NEW b
  PROVE  Append(<<a>>, b) = <<a, b>>
  <1> DEFINE S == {a, b}
             s == <<a>>
             t == <<a, b>>
  <1>1. s \in Seq(S) /\ t \in Seq(S) /\ b \in S /\ Len(s) = 1 /\ Len(t) = 2
    OBVIOUS
  <1>2. t[1] = s[1] /\ t[2] = b
    OBVIOUS
  <1> HIDE DEF s, t, S
  <1>3. Len(t) = Len(s) + 1 /\ t[Len(s) + 1] = b /\ \A i \in 1..Len(s) : t[i] = s[i]
    BY <1>1, <1>2
  <1>4. Append(s, b) = t
    BY <1>1, <1>3, AppendIs
  <1> QED
    BY <1>4 DEF s, t

LEMMA AppendThree ==
  ASSUME NEW a, NEW b, NEW c
  PROVE  Append(<<a, b>>, c) = <<a, b, c>>
  <1> DEFINE S == {a, b, c}
             s == <<a, b>>
             t == <<a, b, c>>
  <1>1. s \in Seq(S) /\ t \in Seq(S) /\ c \in S /\ Len(s) = 2 /\ Len(t) = 3
    OBVIOUS
  <1>2. t[1] = s[1] /\ t[2] = s[2] /\ t[3] = c
    OBVIOUS
  <1> HIDE DEF s, t, S
  <1>3. Len(t) = Len(s) + 1 /\ t[Len(s) + 1] = c /\ \A i \in 1..Len(s) : t[i] = s[i]
    BY <1>1, <1>2
  <1>4. Append(s, c) = t
    BY <1>1, <1>3, AppendIs
  <1> QED
    BY <1>4 DEF s, t

LEMMA AppendFour ==
  ASSUME NEW a, NEW b, NEW c, NEW d
  PROVE  Append(<<a, b, c>>, d) = <<a, b, c, d>>
  <1> DEFINE S == {a, b, c, d}
             s == <<a, b, c>>
             t == <<a, b, c, d>>
  <1>1. s \in Seq(S) /\ t \in Seq(S) /\ d \in S /\ Len(s) = 3 /\ Len(t) = 4
    OBVIOUS
  <1>2. t[1] = s[1] /\ t[2] = s[2] /\ t[3] = s[3] /\ t[4] = d
    OBVIOUS
  <1> HIDE DEF s, t, S
  <1>3. Len(t) = Len(s) + 1 /\ t[Len(s) + 1] = d /\ \A i \in 1..Len(s) : t[i] = s[i]
    BY <1>1, <1>2
  <1>4. Append(s, d) = t
    BY <1>1, <1>3, AppendIs
  <1> QED
    BY <1>4 DEF s, t

LEMMA AppendFive ==
  ASSUME NEW a, NEW b, NEW c, NEW d, NEW e
  PROVE  Append(<<a, b, c, d>>, e) = <<a, b, c, d, e>>
  <1> DEFINE S == {a, b, c, d, e}
             s == <<a, b, c, d>>
             t == <<a, b, c, d, e>>
  <1>1. s \in Seq(S) /\ t \in Seq(S) /\ e \in S /\ Len(s) = 4 /\ Len(t) = 5
    OBVIOUS
  <1>2. t[1] = s[1] /\ t[2] = s[2] /\ t[3] = s[3] /\ t[4] = s[4] /\ t[5] = e
    OBVIOUS
  <1> HIDE DEF s, t, S
  <1>3. Len(t) = Len(s) + 1 /\ t[Len(s) + 1] = e /\ \A i \in 1..Len(s) : t[i] = s[i]
    BY <1>1, <1>2
  <1>4. Append(s, e) = t
    BY <1>1, <1>3, AppendIs
  <1> QED
    BY <1>4 DEF s, t
\* What the kernels do, and what the host adds to them.
LEMMA GrowsOne ==
  ASSUME NEW low, NEW x
  PROVE  Grows(low, <<x>>, Append(low, x))
  <1> DEFINE ops == <<x>>
             l0 == low
             l1 == Append(low, x)
             after == [k \in 0..1 |-> IF k = 0 THEN l0 ELSE l1]
  <1>1. Len(ops) = 1 /\ ops[1] = x
    OBVIOUS
  <1>2. after[0] = l0 /\ after[1] = l1
    OBVIOUS
  <1>3. l1 = Append(l0, x)
    BY AppendOne, AppendTwo, AppendThree, AppendFour, AppendFive
  <1> HIDE DEF ops, after, l0, l1
  <1>4. ASSUME NEW k \in Nat, k < 1 PROVE after[k + 1] = Append(after[k], ops[k + 1])
    <2>1. k = 0
      BY <1>4
    <2> QED
      BY <1>1, <1>2, <1>3, <2>1
  <1>5. Grows(l0, ops, l1)
    BY <1>1, <1>2, <1>4 DEF Grows
  <1> QED
    BY <1>5 DEF ops, l0, l1

LEMMA GrowsWindow ==
  Grows(<<>>, <<"W", "F">>, <<"W", "F">>)
  <1> DEFINE ops == <<"W", "F">>
             l0 == <<>>
             l1 == <<"W">>
             l2 == <<"W", "F">>
             after == [k \in 0..2 |-> IF k = 0 THEN l0 ELSE IF k = 1 THEN l1 ELSE l2]
  <1>1. Len(ops) = 2 /\ ops[1] = "W" /\ ops[2] = "F"
    OBVIOUS
  <1>2. after[0] = l0 /\ after[1] = l1 /\ after[2] = l2
    OBVIOUS
  <1>3. l1 = Append(l0, "W") /\ l2 = Append(l1, "F")
    BY AppendOne, AppendTwo, AppendThree, AppendFour, AppendFive
  <1> HIDE DEF ops, after, l0, l1, l2
  <1>4. ASSUME NEW k \in Nat, k < 2 PROVE after[k + 1] = Append(after[k], ops[k + 1])
    <2>1. k = 0 \/ k = 1
      BY <1>4
    <2> QED
      BY <1>1, <1>2, <1>3, <2>1
  <1>5. Grows(l0, ops, l2)
    BY <1>1, <1>2, <1>4 DEF Grows
  <1> QED
    BY <1>5 DEF ops, l0, l2

LEMMA GrowsInverse ==
  Grows(<<>>, <<"C", "F", "S">>, <<"C", "F", "S">>)
  <1> DEFINE ops == <<"C", "F", "S">>
             l0 == <<>>
             l1 == <<"C">>
             l2 == <<"C", "F">>
             l3 == <<"C", "F", "S">>
             after == [k \in 0..3 |-> IF k = 0 THEN l0 ELSE IF k = 1 THEN l1 ELSE IF k = 2 THEN l2 ELSE l3]
  <1>1. Len(ops) = 3 /\ ops[1] = "C" /\ ops[2] = "F" /\ ops[3] = "S"
    OBVIOUS
  <1>2. after[0] = l0 /\ after[1] = l1 /\ after[2] = l2 /\ after[3] = l3
    OBVIOUS
  <1>3. l1 = Append(l0, "C") /\ l2 = Append(l1, "F") /\ l3 = Append(l2, "S")
    BY AppendOne, AppendTwo, AppendThree, AppendFour, AppendFive
  <1> HIDE DEF ops, after, l0, l1, l2, l3
  <1>4. ASSUME NEW k \in Nat, k < 3 PROVE after[k + 1] = Append(after[k], ops[k + 1])
    <2>1. k = 0 \/ k = 1 \/ k = 2
      BY <1>4
    <2> QED
      BY <1>1, <1>2, <1>3, <2>1
  <1>5. Grows(l0, ops, l3)
    BY <1>1, <1>2, <1>4 DEF Grows
  <1> QED
    BY <1>5 DEF ops, l0, l3

LEMMA GrowsFused ==
  Grows(<<>>, <<"F", "H", "C", "F", "S">>, <<"F", "H", "C", "F", "S">>)
  <1> DEFINE ops == <<"F", "H", "C", "F", "S">>
             l0 == <<>>
             l1 == <<"F">>
             l2 == <<"F", "H">>
             l3 == <<"F", "H", "C">>
             l4 == <<"F", "H", "C", "F">>
             l5 == <<"F", "H", "C", "F", "S">>
             after == [k \in 0..5 |-> IF k = 0 THEN l0 ELSE IF k = 1 THEN l1 ELSE IF k = 2 THEN l2 ELSE IF k = 3 THEN l3 ELSE IF k = 4 THEN l4 ELSE l5]
  <1>1. Len(ops) = 5 /\ ops[1] = "F" /\ ops[2] = "H" /\ ops[3] = "C" /\ ops[4] = "F" /\ ops[5] = "S"
    OBVIOUS
  <1>2. after[0] = l0 /\ after[1] = l1 /\ after[2] = l2 /\ after[3] = l3 /\ after[4] = l4 /\ after[5] = l5
    OBVIOUS
  <1>3. l1 = Append(l0, "F") /\ l2 = Append(l1, "H") /\ l3 = Append(l2, "C") /\ l4 = Append(l3, "F") /\ l5 = Append(l4, "S")
    BY AppendOne, AppendTwo, AppendThree, AppendFour, AppendFive
  <1> HIDE DEF ops, after, l0, l1, l2, l3, l4, l5
  <1>4. ASSUME NEW k \in Nat, k < 5 PROVE after[k + 1] = Append(after[k], ops[k + 1])
    <2>1. k = 0 \/ k = 1 \/ k = 2 \/ k = 3 \/ k = 4
      BY <1>4
    <2>2. /\ after[0 + 1] = Append(after[0], ops[0 + 1]) /\ after[1 + 1] = Append(after[1], ops[1 + 1])
          /\ after[2 + 1] = Append(after[2], ops[2 + 1])
      BY <1>1, <1>2, <1>3
    <2>3. after[3 + 1] = Append(after[3], ops[3 + 1]) /\ after[4 + 1] = Append(after[4], ops[4 + 1])
      BY <1>1, <1>2, <1>3
    <2> QED
      BY <2>1, <2>2, <2>3
  <1>5. Grows(l0, ops, l5)
    <2>1. after[Len(ops)] = l5 /\ Len(ops) \in Nat
      BY <1>1, <1>2
    <2>2. \A k \in Nat : k < Len(ops) => after[k + 1] = Append(after[k], ops[k + 1])
      BY <1>1, <1>4
    <2> QED
      BY <1>2, <2>1, <2>2 DEF Grows
  <1> QED
    BY <1>5 DEF ops, l0, l5

\* A row of blocks of n samples every stride: the first k have had high, the
\* others low.
Rows(buf, n, b, stride, k, low, high) ==
    [a \in DOMAIN buf |->
        IF a < b * stride /\ a % stride < n
        THEN [pos |-> a % stride, ops |-> IF a \div stride < k THEN high ELSE low]
        ELSE buf[a]]

\* Which block a sample belongs to.
LEMMA BlockOf ==
  ASSUME NEW stride \in Nat \ {0}, NEW a \in Nat, NEW k \in Nat
  PROVE  /\ a = (a \div stride) * stride + (a % stride)
         /\ a \div stride \in Nat /\ a % stride \in 0..(stride - 1)
         /\ a \in (k * stride)..(k * stride + stride - 1) => a \div stride = k
         /\ a \div stride < k <=> a < k * stride
  <1> DEFINE q == a \div stride
             r == a % stride
  <1>1. a = stride * q + r /\ q \in Int /\ r \in 0..(stride - 1)
    OBVIOUS
  <1>2. stride * q = q * stride
    BY <1>1
  <1> HIDE DEF q, r
  <1>3. q \in Nat
    <2>1. ASSUME q < 0 PROVE FALSE
      <3>1. q <= 0 - 1
        BY <1>1, <2>1
      <3>2. q * stride <= (0 - 1) * stride
        BY <1>1, <3>1
      <3> QED
        BY <1>1, <1>2, <3>2
    <2> QED
      BY <1>1, <2>1
  <1>4. q < k => a < k * stride
    <2> SUFFICES ASSUME q + 1 <= k PROVE a < k * stride
      BY <1>3
    <2>1. (q + 1) * stride <= k * stride
      BY <1>3
    <2>2. (q + 1) * stride = q * stride + stride
      BY <1>3
    <2> QED
      BY <1>1, <1>2, <1>3, <2>1, <2>2
  <1>5. k <= q => k * stride <= a
    <2> SUFFICES ASSUME k <= q PROVE k * stride <= a
      OBVIOUS
    <2>1. k * stride <= q * stride
      BY <1>3
    <2> QED
      BY <1>1, <1>2, <1>3, <2>1
  <1>6. a \in (k * stride)..(k * stride + stride - 1) => q = k
    <2> SUFFICES ASSUME k * stride <= a, a < k * stride + stride PROVE q = k
      OBVIOUS
    <2>1. ~(q < k)
      BY <1>4
    <2>2. ASSUME k + 1 <= q PROVE FALSE
      <3>1. (k + 1) * stride <= q * stride
        BY <1>3, <2>2
      <3>2. (k + 1) * stride = k * stride + stride
        OBVIOUS
      <3> QED
        BY <1>1, <1>2, <1>3, <3>1, <3>2
    <2> QED
      BY <1>3, <2>1, <2>2
  <1> QED
    BY <1>1, <1>2, <1>3, <1>4, <1>5, <1>6 DEF q, r

\* The buffer has room for the row.
Room(buf, n, b, stride) ==
    /\ n \in Nat \ {0} /\ b \in Nat /\ stride \in Nat /\ n <= stride
    /\ DOMAIN buf \subseteq Nat /\ \A a \in Nat : a < b * stride => a \in DOMAIN buf

\* The next block of a row.
LEMMA NextBlock ==
  ASSUME NEW buf, NEW n, NEW b, NEW stride, Room(buf, n, b, stride),
         NEW k \in Nat, k < b, NEW low, NEW high
  PROVE  LET row(j) == Rows(buf, n, b, stride, j, low, high)
         IN  /\ Holds(row(k), k * stride, n) /\ k * stride \in Nat
             /\ row(k) = Put(row(k), k * stride, n, low)
             /\ row(k + 1) = Put(row(k), k * stride, n, high)
  <1> DEFINE row(j) == Rows(buf, n, b, stride, j, low, high)
             start  == k * stride
  <1>0. n \in Nat \ {0} /\ b \in Nat /\ stride \in Nat \ {0} /\ n <= stride /\ DOMAIN buf \subseteq Nat
    BY DEF Room
  <1>1. start \in Nat /\ start + stride <= b * stride
    <2>1. (k + 1) * stride <= b * stride /\ (k + 1) * stride = k * stride + stride
      BY <1>0
    <2> QED
      BY <1>0, <2>1
  <1>2. ASSUME NEW a \in Nat
        PROVE  /\ a \in start..(start + n - 1) <=> a < b * stride /\ a % stride < n /\ a \div stride = k
               /\ a \in start..(start + n - 1) => a % stride = a - start
               /\ a \div stride < k + 1 <=> a \div stride < k \/ a \div stride = k
    <2>1. /\ a = (a \div stride) * stride + (a % stride)
          /\ a \div stride \in Nat /\ a % stride \in 0..(stride - 1)
          /\ a \in start..(start + stride - 1) => a \div stride = k
      BY <1>0, BlockOf
    <2>2. ASSUME a \div stride = k PROVE a = start + (a % stride)
      BY <2>1, <2>2
    <2> HIDE DEF start
    <2>3. ASSUME a \in start..(start + n - 1)
          PROVE  a < b * stride /\ a % stride < n /\ a \div stride = k /\ a % stride = a - start
      <3>1. a \in start..(start + stride - 1)
        BY <1>0, <1>1, <2>3
      <3>2. b * stride \in Nat
        BY <1>0
      <3> QED
        BY <1>0, <1>1, <2>1, <2>2, <2>3, <3>1, <3>2
    <2>4. ASSUME a % stride < n, a \div stride = k PROVE a \in start..(start + n - 1)
      BY <1>0, <1>1, <2>1, <2>2, <2>4
    <2> QED
      BY <2>1, <2>3, <2>4
  <1>d. \A j : DOMAIN row(j) = DOMAIN buf
    BY DEF Rows
  <1>3. Holds(row(k), start, n)
    <2>1. \A a \in start..(start + n - 1) : a \in DOMAIN buf
      BY <1>0, <1>1, <1>2 DEF Room
    <2> HIDE DEF start, row
    <2> QED
      BY <1>d, <2>1 DEF Holds
  <1>4. ASSUME NEW a \in DOMAIN buf
        PROVE  /\ row(k)[a] = IF a \in start..(start + n - 1) THEN [pos |-> a - start, ops |-> low] ELSE row(k)[a]
               /\ row(k + 1)[a] = IF a \in start..(start + n - 1) THEN [pos |-> a - start, ops |-> high] ELSE row(k)[a]
    <2>1. a \in Nat
      BY <1>0
    <2>2. \A j : row(j)[a] = IF a < b * stride /\ a % stride < n
                             THEN [pos |-> a % stride, ops |-> IF a \div stride < j THEN high ELSE low]
                             ELSE buf[a]
      BY DEF Rows
    <2>3. a \div stride = k => ~(a \div stride < k) /\ a \div stride < k + 1
      OBVIOUS
    <2> HIDE DEF row, start
    <2> QED
      BY <1>2, <2>1, <2>2, <2>3
  <1>5. row(k) = Put(row(k), start, n, low)
    <2> HIDE DEF start
    <2>1. row(k) = [a \in DOMAIN buf |-> row(k)[a]]
      BY DEF Rows
    <2>2. Put(row(k), start, n, low) = [a \in DOMAIN buf |-> IF a \in start..(start + n - 1) THEN [pos |-> a - start, ops |-> low] ELSE row(k)[a]]
      <3> HIDE DEF row
      <3> QED
        BY <1>d DEF Put
    <2> HIDE DEF row
    <2> QED
      BY <1>4, <2>1, <2>2
  <1>6. row(k + 1) = Put(row(k), start, n, high)
    <2> HIDE DEF start
    <2>1. row(k + 1) = [a \in DOMAIN buf |-> row(k + 1)[a]]
      BY DEF Rows
    <2>2. Put(row(k), start, n, high) = [a \in DOMAIN buf |-> IF a \in start..(start + n - 1) THEN [pos |-> a - start, ops |-> high] ELSE row(k)[a]]
      <3> HIDE DEF row
      <3> QED
        BY <1>d DEF Put
    <2> HIDE DEF row
    <2> QED
      BY <1>4, <2>1, <2>2
  <1> QED
    BY <1>1, <1>3, <1>5, <1>6

\* A plan for the row, and one whose kernel makes high of low.
SizedAs(p, n, b) == p.n = n /\ p.b = b

Makes(p, n, low, high) == p.kernel.n = n /\ Grows(low, p.kernel.ops, high)

SweepsAll(p, b, stride) == SweptBlocks(p, stride) = Blocks(b)

\* A loop that does every block of a row in turn does the row.
LEMMA SweepsRow ==
  ASSUME NEW buf, NEW p, NEW n, NEW b, NEW stride, SizedAs(p, n, b), Room(buf, n, b, stride),
         SweepsAll(p, b, stride), NEW low
  PROVE  Sweep(p, Rows(buf, n, b, stride, 0, low, Append(low, "W")), stride)
            = Rows(buf, n, b, stride, b, low, Append(low, "W"))
  <1> DEFINE high   == Append(low, "W")
             row(j) == Rows(buf, n, b, stride, j, low, high)
             Does(f) == f = [k \in 0..b |->
                               IF k = 0 THEN row(0)
                               ELSE IF k - 1 \in SweptBlocks(p, stride)
                                    THEN Apply(f[k - 1], (k - 1) * stride, n, "W")
                                    ELSE f[k - 1]]
             swept == CHOOSE f : Does(f)
             made == [k \in 0..b |-> row(k)]
  <1>0. b \in Nat /\ n \in Nat /\ p.n = n /\ p.b = b /\ SweptBlocks(p, stride) = Blocks(b)
    BY DEF Room, SizedAs, SweepsAll
  <1>1. ASSUME NEW k \in 1..b
        PROVE  k - 1 \in SweptBlocks(p, stride) /\ Apply(row(k - 1), (k - 1) * stride, n, "W") = row(k)
    <2> DEFINE i == k - 1
               start == i * stride
    <2>1. i \in Nat /\ i < b /\ i + 1 = k /\ i \in Blocks(b)
      BY <1>0 DEF Blocks
    <2> HIDE DEF i, high
    <2>2. Holds(row(i), start, n) /\ start \in Nat /\ row(i) = Put(row(i), start, n, low)
          /\ row(i + 1) = Put(row(i), start, n, high)
      BY <2>1, NextBlock
    <2> HIDE DEF row, start
    <2>3. Apply(Put(row(i), start, n, low), start, n, "W") = Put(row(i), start, n, high)
      BY <1>0, <2>2, ApplyPut DEF high
    <2>4. Apply(row(i), start, n, "W") = row(k)
      BY <2>1, <2>2, <2>3
    <2> QED
      BY <1>0, <2>1, <2>4 DEF i, start
  <1>c. Sweep(p, row(0), stride) = swept[b]
    BY <1>0 DEF Sweep
  <1> HIDE DEF row
  <1>2. Does(made)
    BY <1>0, <1>1
  <1>3. Does(swept)
    BY <1>2
  <1> HIDE DEF swept
  <1>4. \A k \in 0..b : swept[k] = row(k)
    <2> DEFINE Bad == {k \in Nat : k \in 0..b /\ swept[k] # row(k)}
    <2>1. ASSUME Bad # {} PROVE FALSE
      <3>1. PICK k \in Bad : \A j \in Bad : k <= j
        BY <2>1, Math!LeastNatural
      <3>2. k # 0
        BY <1>0, <1>3, <3>1
      <3>3. k \in 1..b /\ k - 1 \in 0..b /\ k - 1 \notin Bad
        BY <1>0, <3>1, <3>2
      <3>4. swept[k - 1] = row(k - 1)
        BY <1>0, <3>3
      <3>5. swept[k] = Apply(swept[k - 1], (k - 1) * stride, n, "W")
        BY <1>0, <1>1, <1>3, <3>3
      <3> QED
        BY <1>1, <3>1, <3>3, <3>4, <3>5
    <2> QED
      BY <1>0, <2>1
  <1> QED
    BY <1>c, <1>0, <1>4 DEF row

LEMMA RunsRow ==
  ASSUME NEW buf, NEW p, NEW n, NEW b, NEW stride, SizedAs(p, n, b), Room(buf, n, b, stride),
         NEW low, NEW high, Makes(p, n, low, high)
  PROVE  RunBlocks(p, Rows(buf, n, b, stride, 0, low, high), stride)
            = Rows(buf, n, b, stride, b, low, high)
  <1> DEFINE row(j) == Rows(buf, n, b, stride, j, low, high)
             Does(f) == f = [k \in 0..b |->
                               IF k = 0 THEN row(0)
                               ELSE Call(f[k - 1], (k - 1) * KernelStride(p, stride), p.kernel)]
             run == CHOOSE f : Does(f)
             made == [k \in 0..b |-> row(k)]
  <1>0. /\ b \in Nat /\ n \in Nat /\ p.n = n /\ p.b = b /\ KernelStride(p, stride) = stride
        /\ p.kernel.n = n /\ Grows(low, p.kernel.ops, high)
    BY DEF Room, KernelStride, SizedAs, Makes
  <1>1. ASSUME NEW k \in 1..b
        PROVE  Call(row(k - 1), (k - 1) * KernelStride(p, stride), p.kernel) = row(k)
    <2> DEFINE i == k - 1
               start == i * stride
    <2>1. i \in Nat /\ i < b /\ i + 1 = k
      BY <1>0
    <2> HIDE DEF i
    <2>2. Holds(row(i), start, n) /\ start \in Nat /\ row(i) = Put(row(i), start, n, low)
          /\ row(i + 1) = Put(row(i), start, n, high)
      BY <2>1, NextBlock
    <2> HIDE DEF row, start
    <2>3. Call(Put(row(i), start, n, low), start, p.kernel) = Put(row(i), start, n, high)
      BY <1>0, <2>2, CallPut
    <2>4. Call(row(i), start, p.kernel) = row(k)
      BY <2>1, <2>2, <2>3
    <2> QED
      BY <1>0, <2>4 DEF i, start
  <1>c. RunBlocks(p, row(0), stride) = run[b]
    BY <1>0 DEF RunBlocks
  <1> HIDE DEF row
  <1>2. Does(made)
    BY <1>0, <1>1
  <1>3. Does(run)
    BY <1>2
  <1> HIDE DEF run
  <1>4. \A k \in 0..b : run[k] = row(k)
    <2> DEFINE Bad == {k \in Nat : k \in 0..b /\ run[k] # row(k)}
    <2>1. ASSUME Bad # {} PROVE FALSE
      <3>1. PICK k \in Bad : \A j \in Bad : k <= j
        BY <2>1, Math!LeastNatural
      <3>2. k # 0
        BY <1>0, <1>3, <3>1
      <3>3. k \in 1..b /\ k - 1 \in 0..b /\ k - 1 \notin Bad
        BY <1>0, <3>1, <3>2
      <3>4. run[k - 1] = row(k - 1)
        BY <1>0, <3>3
      <3>5. run[k] = Call(run[k - 1], (k - 1) * KernelStride(p, stride), p.kernel)
        BY <1>0, <1>3, <3>3
      <3> QED
        BY <1>1, <3>1, <3>3, <3>4, <3>5
    <2> QED
      BY <1>0, <2>1
  <1> QED
    BY <1>c, <1>0, <1>4 DEF row

\* Before the first block all samples have had low; after the last, high.
LEMMA WholeRow ==
  ASSUME NEW buf, NEW n, NEW b, NEW stride, Room(buf, n, b, stride), NEW low, NEW high, NEW other
  PROVE  /\ Rows(buf, n, b, stride, b, low, high) = Rows(buf, n, b, stride, 0, high, other)
         /\ Rows(buf, n, b, stride, 0, low, high) = Rows(buf, n, b, stride, 0, low, other)
  <1>0. b \in Nat /\ stride \in Nat \ {0} /\ DOMAIN buf \subseteq Nat
    BY DEF Room
  <1>1. ASSUME NEW a \in DOMAIN buf
        PROVE  (a < b * stride => a \div stride < b) /\ ~(a \div stride < 0)
    <2>1. a \in Nat
      BY <1>0
    <2> QED
      BY <1>0, <2>1, BlockOf
  <1> QED
    BY <1>1 DEF Rows

\* The pairs and the block left over are all the blocks.
LEMMA PairsAndLast ==
  ASSUME NEW p, NEW stride, p.b \in Nat
  PROVE  Preswept(p, stride) = Blocks(p.b)
  <1> DEFINE h == p.b \div 2
  <1>1. h \in Nat /\ 2 * h <= p.b /\ p.b <= 2 * h + 1
    OBVIOUS
  <1>2. ASSUME NEW x \in 0..(p.b - 1)
        PROVE  x \in (2 * h)..(p.b - 1) \/ \E j \in 0..(h - 1) : x \in {2 * j, 2 * j + 1}
    <2> DEFINE j == x \div 2
    <2>1. j \in Nat /\ (x = 2 * j \/ x = 2 * j + 1)
      OBVIOUS
    <2>2. x < 2 * h => j \in 0..(h - 1)
      BY <1>1, <2>1
    <2> HIDE DEF j, h
    <2> QED
      BY <1>1, <2>1, <2>2
  <1>3. ASSUME NEW j \in 0..(h - 1) PROVE {2 * j, 2 * j + 1} \subseteq 0..(p.b - 1)
    BY <1>1
  <1>4. (2 * h)..(p.b - 1) \subseteq 0..(p.b - 1)
    BY <1>1
  <1> HIDE DEF h
  <1>5. (UNION {{2 * j, 2 * j + 1} : j \in 0..(h - 1)}) \cup (2 * h)..(p.b - 1) = 0..(p.b - 1)
    BY <1>2, <1>3, <1>4
  <1> QED
    BY <1>5 DEF Preswept, Blocks, h

-----------------------------------------------------------------------------
\* What an execute entry does to the caller's buffer.
\* There is a longest request.
LEMMA LongestIs == ASSUME Requests # {} PROVE Longest \in Nat
  <1> DEFINE Tops == {t \in Nat : \A r \in Requests : r.n <= t}
  <1>0. MaxInt \in Nat
    BY SMT DEF MaxInt
  <1>1. \A r \in Requests : r.n \in Nat /\ r.n >= 1 /\ r.n <= MaxInt
    BY <1>0, RequestsAssumption DEF Ints
  <1>2. MaxInt \in Tops
    BY <1>0, <1>1
  <1>3. PICK m \in Tops : \A t \in Tops : m <= t
    BY <1>2, Math!LeastNatural
  <1>4. \E r \in Requests : r.n = m
    <2> SUFFICES ASSUME \A r \in Requests : r.n # m PROVE FALSE
      OBVIOUS
    <2>1. m \in Nat /\ \A r \in Requests : r.n <= m - 1
      BY <1>1, <1>3
    <2>2. m - 1 \in Nat
      BY <1>1, <2>1
    <2>3. m - 1 \in Tops
      BY <2>1, <2>2
    <2> QED
      BY <1>3, <2>1, <2>3
  <1>5. m \in {r.n : r \in Requests} /\ \A r \in Requests : r.n <= m
    BY <1>3, <1>4
  <1>6. Longest \in {r.n : r \in Requests}
    BY <1>5 DEF Longest
  <1> QED
    BY <1>1, <1>6

\* The caller's buffer is a row of blocks to which nothing has been done.
LEMMA FreshRow ==
  ASSUME Requests # {}, NEW p, NEW n \in Nat \ {0}, NEW b \in Nat \ {0}, p.n = n, p.b = b,
         NEW stride \in Nat, n <= stride, NEW high
  PROVE  /\ Room(Fresh(p, stride), n, b, stride)
         /\ Fresh(p, stride) = Rows(Fresh(p, stride), n, b, stride, 0, <<>>, high)
         /\ \A a \in DOMAIN Fresh(p, stride) :
               /\ a \in Nat
               /\ Fresh(p, stride)[a] =
                     [pos |-> IF a < b * stride /\ a % stride < n THEN a % stride ELSE 0 - 1,
                      ops |-> <<>>]
  <1> DEFINE buf == Fresh(p, stride)
  <1>0. b * stride \in Nat /\ Longest \in Nat
    BY LongestIs
  <1>1. DOMAIN buf = 0..(b * stride + Longest)
    BY DEF Fresh
  <1>2. \A a \in DOMAIN buf :
           buf[a] = [pos |-> IF a < b * stride /\ a % stride < n THEN a % stride ELSE 0 - 1, ops |-> <<>>]
    BY DEF Fresh
  <1>f. buf = [a \in DOMAIN buf |-> buf[a]]
    BY DEF Fresh
  <1> HIDE DEF buf
  <1>3. Room(buf, n, b, stride)
    BY <1>0, <1>1 DEF Room
  <1>4. ASSUME NEW a \in DOMAIN buf PROVE a \in Nat /\ ~(a \div stride < 0)
    <2>1. a \in Nat /\ stride \in Nat \ {0}
      BY <1>0, <1>1
    <2> QED
      BY <2>1, BlockOf
  <1>5. ASSUME NEW a \in DOMAIN buf
        PROVE  buf[a] = IF a < b * stride /\ a % stride < n
                        THEN [pos |-> a % stride, ops |-> IF a \div stride < 0 THEN high ELSE <<>>]
                        ELSE buf[a]
    BY <1>2, <1>4
  <1>6. buf = Rows(buf, n, b, stride, 0, <<>>, high)
    BY <1>f, <1>5 DEF Rows
  <1> QED
    BY <1>2, <1>3, <1>4, <1>6 DEF buf

\* One block of it.
LEMMA FreshBlock ==
  ASSUME Requests # {}, NEW p, NEW n \in Nat \ {0}, p.n = n, p.b = 1
  PROVE  /\ Holds(Fresh(p, n), 0, n)
         /\ Fresh(p, n) = Put(Fresh(p, n), 0, n, <<>>)
         /\ \A a \in DOMAIN Fresh(p, n) :
               /\ a \in Nat
               /\ Fresh(p, n)[a] = [pos |-> IF a < n THEN a ELSE 0 - 1, ops |-> <<>>]
  <1> DEFINE buf == Fresh(p, n)
  <1>1. /\ Room(buf, n, 1, n) /\ buf = Rows(buf, n, 1, n, 0, <<>>, <<>>)
        /\ \A a \in DOMAIN buf :
              /\ a \in Nat
              /\ buf[a] = [pos |-> IF a < 1 * n /\ a % n < n THEN a % n ELSE 0 - 1, ops |-> <<>>]
    <2> DEFINE b == 1
    <2>1. b \in Nat \ {0} /\ p.b = b /\ n \in Nat /\ n <= n
      OBVIOUS
    <2> HIDE DEF b
    <2>2. /\ Room(buf, n, b, n) /\ buf = Rows(buf, n, b, n, 0, <<>>, <<>>)
          /\ \A a \in DOMAIN buf :
                /\ a \in Nat
                /\ buf[a] = [pos |-> IF a < b * n /\ a % n < n THEN a % n ELSE 0 - 1, ops |-> <<>>]
      BY <2>1, FreshRow
    <2> QED
      BY <2>2 DEF b
  <1> HIDE DEF buf
  <1>2. Holds(Rows(buf, n, 1, n, 0, <<>>, <<>>), 0 * n, n)
        /\ Rows(buf, n, 1, n, 0, <<>>, <<>>) = Put(Rows(buf, n, 1, n, 0, <<>>, <<>>), 0 * n, n, <<>>)
    BY <1>1, NextBlock
  <1>3. 0 * n = 0 /\ 1 * n = n
    OBVIOUS
  <1>4. ASSUME NEW a \in DOMAIN buf
        PROVE  a \in Nat /\ buf[a] = [pos |-> IF a < n THEN a ELSE 0 - 1, ops |-> <<>>]
    <2>1. a \in Nat /\ (a < n => a % n = a)
      BY <1>1, Math!NearRemainders
    <2> QED
      BY <1>1, <1>3, <2>1
  <1> QED
    BY <1>1, <1>2, <1>3, <1>4 DEF buf

\* A block after one operation of the host, and after a plain kernel.
LEMMA HostStep ==
  ASSUME NEW buf, NEW n \in Nat, Holds(buf, 0, n), NEW op, NEW low, NEW high, high = Append(low, op)
  PROVE  Apply(Put(buf, 0, n, low), 0, n, op) = Put(buf, 0, n, high)
  <1>1. 0 \in Int
    OBVIOUS
  <1> QED
    BY <1>1, ApplyPut

LEMMA KernelStep ==
  ASSUME NEW buf, NEW n \in Nat, Holds(buf, 0, n), NEW kernel, kernel.n = n,
         NEW low, NEW high, Grows(low, kernel.ops, high)
  PROVE  Call(Put(buf, 0, n, low), 0, kernel) = Put(buf, 0, n, high)
  <1>1. 0 \in Int
    OBVIOUS
  <1> QED
    BY <1>1, CallPut

\* A kernel that does the transform and no more.
IsPlain(kernel, n) == kernel.n = n /\ kernel.ops = <<"F">>

\* A kernel that does a whole convolution.
IsFused(kernel, n) == kernel.n = n /\ kernel.ops = <<"F", "H", "C", "F", "S">>

LEMMA PlainStep ==
  ASSUME NEW buf, NEW n \in Nat, Holds(buf, 0, n), NEW kernel, IsPlain(kernel, n),
         NEW low, NEW high, high = Append(low, "F")
  PROVE  Call(Put(buf, 0, n, low), 0, kernel) = Put(buf, 0, n, high)
  <1>1. Grows(low, kernel.ops, high) /\ kernel.n = n
    BY GrowsOne DEF IsPlain
  <1> QED
    BY <1>1, KernelStep

\* The host's wrappers around a plain kernel, and what a floor plan does itself.
LEMMA InverseIs ==
  ASSUME NEW buf, NEW n \in Nat, Holds(buf, 0, n)
  PROVE  /\ \A p : p.n = n /\ IsPlain(p.kernel, n) =>
               InverseWrap(p, Put(buf, 0, n, <<>>)) = Put(buf, 0, n, <<"C", "F", "S">>)
         /\ Apply(Apply(Apply(Put(buf, 0, n, <<>>), 0, n, "C"), 0, n, "F"), 0, n, "S")
               = Put(buf, 0, n, <<"C", "F", "S">>)
         /\ Apply(Put(buf, 0, n, <<>>), 0, n, "F") = Put(buf, 0, n, <<"F">>)
  <1> DEFINE l0 == <<>>
             l1 == <<"C">>
             l2 == <<"C", "F">>
             l3 == <<"C", "F", "S">>
             f1 == <<"F">>
  <1>0. /\ l1 = Append(l0, "C") /\ l2 = Append(l1, "F") /\ l3 = Append(l2, "S")
        /\ f1 = Append(l0, "F")
    BY AppendOne, AppendTwo, AppendThree
  <1> HIDE DEF l0, l1, l2, l3, f1
  <1>1. Apply(Put(buf, 0, n, l0), 0, n, "C") = Put(buf, 0, n, l1)
    BY <1>0, HostStep
  <1>2. \A kernel : IsPlain(kernel, n) => Call(Put(buf, 0, n, l1), 0, kernel) = Put(buf, 0, n, l2)
    BY <1>0, PlainStep
  <1>3. Apply(Put(buf, 0, n, l2), 0, n, "S") = Put(buf, 0, n, l3)
    BY <1>0, HostStep
  <1>4. Apply(Put(buf, 0, n, l0), 0, n, "F") = Put(buf, 0, n, f1)
    BY <1>0, HostStep
  <1>5. Apply(Put(buf, 0, n, l1), 0, n, "F") = Put(buf, 0, n, l2)
    BY <1>0, HostStep
  <1>6. ASSUME NEW p, p.n = n, IsPlain(p.kernel, n) PROVE InverseWrap(p, Put(buf, 0, n, l0)) = Put(buf, 0, n, l3)
    BY <1>1, <1>2, <1>3, <1>6 DEF InverseWrap
  <1>7. Apply(Apply(Apply(Put(buf, 0, n, l0), 0, n, "C"), 0, n, "F"), 0, n, "S") = Put(buf, 0, n, l3)
    BY <1>1, <1>3, <1>5
  <1> QED
    BY <1>4, <1>6, <1>7 DEF l0, l3, f1

\* The chain of a convolution with a plain kernel.
LEMMA PlainChain ==
  ASSUME NEW buf, NEW n \in Nat, Holds(buf, 0, n), NEW kernel, IsPlain(kernel, n)
  PROVE  Apply(Call(Apply(Apply(Call(Put(buf, 0, n, <<>>), 0, kernel), 0, n, "H"), 0, n, "C"), 0, kernel), 0, n, "S")
            = Put(buf, 0, n, <<"F", "H", "C", "F", "S">>)
  <1> DEFINE l0 == <<>>
             l1 == <<"F">>
             l2 == <<"F", "H">>
             l3 == <<"F", "H", "C">>
             l4 == <<"F", "H", "C", "F">>
             l5 == <<"F", "H", "C", "F", "S">>
  <1>0. /\ l1 = Append(l0, "F") /\ l2 = Append(l1, "H") /\ l3 = Append(l2, "C")
        /\ l4 = Append(l3, "F") /\ l5 = Append(l4, "S")
    BY AppendOne, AppendTwo, AppendThree, AppendFour, AppendFive
  <1> HIDE DEF l0, l1, l2, l3, l4, l5
  <1>p. \A low, high : high = Append(low, "F") => Call(Put(buf, 0, n, low), 0, kernel) = Put(buf, 0, n, high)
    <2> SUFFICES ASSUME NEW low, NEW high, high = Append(low, "F")
                 PROVE  Call(Put(buf, 0, n, low), 0, kernel) = Put(buf, 0, n, high)
      OBVIOUS
    <2>1. Grows(low, kernel.ops, high) /\ kernel.n = n
      BY GrowsOne DEF IsPlain
    <2> QED
      BY <2>1, KernelStep
  <1>1. Call(Put(buf, 0, n, l0), 0, kernel) = Put(buf, 0, n, l1)
    BY <1>0, <1>p
  <1>2. Apply(Put(buf, 0, n, l1), 0, n, "H") = Put(buf, 0, n, l2)
    BY <1>0, HostStep
  <1>3. Apply(Put(buf, 0, n, l2), 0, n, "C") = Put(buf, 0, n, l3)
    BY <1>0, HostStep
  <1>4. Call(Put(buf, 0, n, l3), 0, kernel) = Put(buf, 0, n, l4)
    BY <1>0, <1>p
  <1>5. Apply(Put(buf, 0, n, l4), 0, n, "S") = Put(buf, 0, n, l5)
    BY <1>0, HostStep
  <1>6. Apply(Call(Apply(Apply(Call(Put(buf, 0, n, l0), 0, kernel), 0, n, "H"), 0, n, "C"), 0, kernel), 0, n, "S")
           = Put(buf, 0, n, l5)
    BY <1>1, <1>2, <1>3, <1>4, <1>5
  <1> QED
    BY <1>6 DEF l0, l5

LEMMA FusedCall ==
  ASSUME NEW buf, NEW n \in Nat, Holds(buf, 0, n), NEW kernel, IsFused(kernel, n)
  PROVE  Call(Put(buf, 0, n, <<>>), 0, kernel) = Put(buf, 0, n, <<"F", "H", "C", "F", "S">>)
  <1> DEFINE l0 == <<>>
             l5 == <<"F", "H", "C", "F", "S">>
  <1>1. Grows(l0, l5, l5) /\ kernel.ops = l5 /\ kernel.n = n
    BY GrowsFused DEF IsFused
  <1> HIDE DEF l0, l5
  <1>2. Call(Put(buf, 0, n, l0), 0, kernel) = Put(buf, 0, n, l5)
    BY <1>1, KernelStep
  <1> QED
    BY <1>2 DEF l0, l5

LEMMA ConvIs ==
  ASSUME NEW buf, NEW n \in Nat, Holds(buf, 0, n)
  PROVE  \A p : p.n = n /\ (IF p.fused THEN IsFused(p.kernel, n) ELSE IsPlain(p.kernel, n)) =>
            ConvWrap(p, Put(buf, 0, n, <<>>)) = Put(buf, 0, n, <<"F", "H", "C", "F", "S">>)
  <1> DEFINE l0 == <<>>
             l5 == <<"F", "H", "C", "F", "S">>
  <1>1. \A kernel : IsPlain(kernel, n) =>
           Apply(Call(Apply(Apply(Call(Put(buf, 0, n, l0), 0, kernel), 0, n, "H"), 0, n, "C"), 0, kernel), 0, n, "S")
              = Put(buf, 0, n, l5)
    BY PlainChain
  <1>2. \A kernel : IsFused(kernel, n) => Call(Put(buf, 0, n, l0), 0, kernel) = Put(buf, 0, n, l5)
    BY FusedCall
  <1> HIDE DEF l0, l5
  <1>3. ASSUME NEW p, p.n = n, IF p.fused THEN IsFused(p.kernel, n) ELSE IsPlain(p.kernel, n)
        PROVE  ConvWrap(p, Put(buf, 0, n, l0)) = Put(buf, 0, n, l5)
    <2>1. CASE p.fused
      BY <1>2, <1>3, <2>1 DEF ConvWrap
    <2>2. CASE ~p.fused
      BY <1>1, <1>3, <2>2 DEF ConvWrap
    <2> QED
      BY <2>1, <2>2
  <1> QED
    BY <1>3 DEF l0, l5

\* What the plan's own entry does to the caller's buffer is what it promises.
Keeps(p, stride) ==
    LET out == Execute(p, OwnEntry(p.kind), Fresh(p, stride), stride)
    IN  \A a \in DOMAIN out :
            \/ p.kind = "linear" /\ a \in (p.n - p.nh + 1)..(p.n - 1)
            \/ out[a] = Promised(p, stride, a)

\* A plan of one block that has done to its block what it promises.
LEMMA BlockKept ==
  ASSUME Requests # {}, NEW p, NEW n \in Nat \ {0}, p.n = n, p.b = 1, p.kind # "linear",
         Execute(p, OwnEntry(p.kind), Fresh(p, n), n) = Put(Fresh(p, n), 0, n, Promise(p.kind))
  PROVE  Keeps(p, n)
  <1> DEFINE buf == Fresh(p, n)
             ops == Promise(p.kind)
             out == Put(buf, 0, n, ops)
  <1>1. \A a \in DOMAIN buf : a \in Nat /\ buf[a] = [pos |-> IF a < n THEN a ELSE 0 - 1, ops |-> <<>>]
    BY FreshBlock
  <1>2. DOMAIN out = DOMAIN buf
        /\ \A a \in DOMAIN buf : out[a] = IF a \in 0..(0 + n - 1) THEN [pos |-> a - 0, ops |-> ops] ELSE buf[a]
    BY DEF Put
  <1>p. \A a : Promised(p, n, a) = IF buf[a].pos < 0 THEN buf[a] ELSE [pos |-> buf[a].pos, ops |-> ops]
    BY DEF Promised
  <1> HIDE DEF buf, out, ops
  <1>3. ASSUME NEW a \in DOMAIN out PROVE out[a] = Promised(p, n, a)
    <2>1. a \in Nat /\ a \in DOMAIN buf
      BY <1>1, <1>2, <1>3
    <2>2. CASE a < n
      <3>1. buf[a] = [pos |-> a, ops |-> <<>>] /\ a \in 0..(0 + n - 1) /\ a - 0 = a
        BY <1>1, <2>1, <2>2
      <3>2. buf[a].pos = a /\ ~(a < 0)
        BY <2>1, <3>1
      <3> QED
        BY <1>2, <1>p, <2>1, <3>1, <3>2
    <2>3. CASE ~(a < n)
      <3>1. buf[a] = [pos |-> 0 - 1, ops |-> <<>>] /\ a \notin 0..(0 + n - 1)
        BY <1>1, <2>1, <2>3
      <3>2. buf[a].pos < 0
        BY <3>1
      <3> QED
        BY <1>2, <1>p, <2>1, <3>1, <3>2
    <2> QED
      BY <2>2, <2>3
  <1> QED
    BY <1>3 DEF Keeps, out, ops, buf

\* What each kind's own entry runs.
LEMMA OwnRuns ==
  ASSUME NEW p, NEW buf, NEW stride
  PROVE  LET out == Execute(p, OwnEntry(p.kind), buf, stride)
         IN  /\ p.kind \in {"forward", "gauss", "conv64", "lin64", "dispatch"} => out = Call(buf, 0, p.kernel)
             /\ p.kind = "inverse" => out = InverseWrap(p, buf)
             /\ p.kind = "conv" => out = ConvWrap(p, buf)
             /\ p.kind = "linear" => out = LinearWrap(p, buf)
             /\ p.kind = "fp64" => out = IF p.variant = "floor" THEN Apply(buf, 0, p.n, "F")
                                         ELSE Call(buf, 0, p.kernel)
             /\ p.kind = "inv64" => out = Inverse64(p, buf)
             /\ p.kind = "batch" => out = WindowedBatch(p, buf, stride)
  <1> DEFINE out == Execute(p, OwnEntry(p.kind), buf, stride)
  <1>1. p.kind \in {"forward", "gauss", "dispatch"} => out = Call(buf, 0, p.kernel)
    <2>1. p.kind \in {"forward", "gauss", "dispatch"} =>
             OwnEntry(p.kind) = "execute"
             /\ {"fp64", "batch", "conv", "linear", "inverse"} \cap KindFlags(p.kind) = {}
      BY DEF OwnEntry, KindFlags, Flags
    <2> QED
      BY <2>1 DEF Execute, ExecuteF32
  <1>2. p.kind = "inverse" => out = InverseWrap(p, buf)
    <2>1. p.kind = "inverse" => OwnEntry(p.kind) = "execute" /\ KindFlags(p.kind) = {"inverse"}
      BY DEF OwnEntry, KindFlags, Flags
    <2> QED
      BY <2>1 DEF Execute, ExecuteF32
  <1>3. p.kind = "conv" => out = ConvWrap(p, buf)
    <2>1. p.kind = "conv" => OwnEntry(p.kind) = "execute" /\ KindFlags(p.kind) = {"conv"}
      BY DEF OwnEntry, KindFlags, Flags
    <2> QED
      BY <2>1 DEF Execute, ExecuteF32
  <1>4. p.kind = "linear" => out = LinearWrap(p, buf)
    <2>1. p.kind = "linear" => OwnEntry(p.kind) = "execute" /\ KindFlags(p.kind) = {"linear"}
      BY DEF OwnEntry, KindFlags, Flags
    <2> QED
      BY <2>1 DEF Execute, ExecuteF32
  <1>5. p.kind = "fp64" => out = IF p.variant = "floor" THEN Apply(buf, 0, p.n, "F")
                                 ELSE Call(buf, 0, p.kernel)
    <2>1. p.kind = "fp64" => OwnEntry(p.kind) = "execute_fp64" /\ KindFlags(p.kind) = {"fp64"}
      BY DEF OwnEntry, KindFlags, Flags
    <2> QED
      BY <2>1 DEF Execute, ExecuteF64
  <1>6. p.kind = "conv64" => out = Call(buf, 0, p.kernel)
    <2>1. p.kind = "conv64" => OwnEntry(p.kind) = "execute_conv_fp64" /\ KindFlags(p.kind) = {"fp64", "conv64"}
      BY DEF OwnEntry, KindFlags, Flags
    <2> QED
      BY <2>1 DEF Execute
  <1>7. p.kind = "lin64" => out = Call(buf, 0, p.kernel)
    <2>1. p.kind = "lin64" => OwnEntry(p.kind) = "execute_linear_conv_fp64" /\ KindFlags(p.kind) = {"fp64", "lin64"}
      BY DEF OwnEntry, KindFlags, Flags
    <2> QED
      BY <2>1 DEF Execute
  <1>8. p.kind = "inv64" => out = Inverse64(p, buf)
    <2>1. p.kind = "inv64" => OwnEntry(p.kind) = "execute_fp64_inverse" /\ KindFlags(p.kind) = {"fp64", "inv64"}
      BY DEF OwnEntry, KindFlags, Flags
    <2> QED
      BY <2>1 DEF Execute
  <1>9. p.kind = "batch" => out = WindowedBatch(p, buf, stride)
    <2>1. p.kind = "batch" => OwnEntry(p.kind) = "execute_windowed_batch" /\ KindFlags(p.kind) = {"batch"}
      BY DEF OwnEntry, KindFlags, Flags
    <2> QED
      BY <2>1 DEF Execute
  <1> QED
    BY <1>1, <1>2, <1>3, <1>4, <1>5, <1>6, <1>7, <1>8, <1>9

\* A plan without a search of its own keeps its promise.
LEMMA AloneKeeps ==
  ASSUME NEW r \in Requests, r.kind \in HostKinds \ Searched, NEW p, p = Draft(r)
  PROVE  Keeps(p, r.n)
  <1> DEFINE n      == r.n
             buf    == Fresh(p, n)
             none   == <<>>
             out    == Execute(p, OwnEntry(p.kind), buf, n)
             done   == Put(buf, 0, n, Promise(p.kind))
             kernel == p.kernel
  <1>0. n \in Nat \ {0} /\ Requests # {}
    BY RequestsAssumption, 0 \in Nat DEF Ints
  <1>1. /\ p.n = n /\ p.b = 1 /\ p.kind = r.kind /\ p.kind # "linear" /\ p.variant = r.variant
        /\ p.fused = FusedInverse(r) /\ kernel = PlainKernel(r)
    BY RequestsAssumption DEF Draft, Searched
  <1>2. Holds(buf, 0, n) /\ buf = Put(buf, 0, n, none)
    BY <1>0, <1>1, FreshBlock
  <1>r. LET out0 == Execute(p, OwnEntry(p.kind), buf, n)
        IN  /\ p.kind \in {"forward", "gauss", "conv64", "lin64", "dispatch"} => out0 = Call(buf, 0, p.kernel)
            /\ p.kind = "inverse" => out0 = InverseWrap(p, buf)
            /\ p.kind = "conv" => out0 = ConvWrap(p, buf)
            /\ p.kind = "linear" => out0 = LinearWrap(p, buf)
            /\ p.kind = "fp64" => out0 = IF p.variant = "floor" THEN Apply(buf, 0, p.n, "F")
                                        ELSE Call(buf, 0, p.kernel)
            /\ p.kind = "inv64" => out0 = Inverse64(p, buf)
            /\ p.kind = "batch" => out0 = WindowedBatch(p, buf, n)
    BY OwnRuns
  <1>c. ASSUME kernel.n = n, Grows(none, kernel.ops, Promise(p.kind)) PROVE Call(buf, 0, kernel) = done
    <2> HIDE DEF buf, none, n, kernel
    <2>1. Call(Put(buf, 0, n, none), 0, kernel) = Put(buf, 0, n, Promise(p.kind))
      BY <1>0, <1>2, <1>c, KernelStep
    <2> QED
      BY <1>2, <2>1
  <1>3. CASE r.kind \in {"forward", "fp64"}
    <2>1. kernel.n = n /\ kernel.ops = <<"F">> /\ Promise(p.kind) = <<"F">>
      BY <1>1, <1>3 DEF PlainKernel, Kernel, Promise, FusedInverse
    <2>2. Grows(none, <<"F">>, <<"F">>)
      BY GrowsOne, AppendOne
    <2>3. Call(buf, 0, kernel) = done
      BY <1>c, <2>1, <2>2
    <2>4. Apply(Put(buf, 0, n, <<>>), 0, n, "F") = Put(buf, 0, n, <<"F">>)
      <3> HIDE DEF n, buf
      <3> QED
        BY <1>0, <1>2, InverseIs
    <2>5. Apply(buf, 0, n, "F") = done
      <3>1. Put(buf, 0, n, <<>>) = buf
        BY <1>2
      <3> QED
        BY <2>1, <2>4, <3>1
    <2>6. out = done
      BY <1>1, <1>3, <1>r, <2>3, <2>5
    <2> QED
      BY <1>0, <1>1, <2>6, BlockKept
  <1>4. CASE r.kind = "gauss"
    <2>1. kernel.n = n /\ kernel.ops = <<"W", "F">> /\ Promise(p.kind) = <<"W", "F">>
      <3>1. PlainKernel(r) = Kernel(n, <<"W", "F">>)
        BY <1>4 DEF PlainKernel, FusedInverse
      <3>2. kernel.n = n /\ kernel.ops = <<"W", "F">>
        BY <1>1, <3>1 DEF Kernel
      <3>3. Promise(p.kind) = <<"W", "F">>
        BY <1>1, <1>4 DEF Promise
      <3> QED
        BY <3>2, <3>3
    <2>2. Call(buf, 0, kernel) = done
      BY <1>c, <2>1, GrowsWindow
    <2>3. out = done
      BY <1>1, <1>4, <1>r, <2>2
    <2> QED
      BY <1>0, <1>1, <2>3, BlockKept
  <1>5. CASE r.kind \in {"conv64", "lin64", "dispatch"}
    <2>1. kernel.n = n /\ kernel.ops = <<"Y">> /\ Promise(p.kind) = <<"Y">>
      BY <1>1, <1>5 DEF PlainKernel, Kernel, Promise, FusedInverse
    <2>2. Grows(none, <<"Y">>, <<"Y">>)
      BY GrowsOne, AppendOne
    <2>3. Call(buf, 0, kernel) = done
      BY <1>c, <2>1, <2>2
    <2>4. out = done
      BY <1>1, <1>5, <1>r, <2>3
    <2> QED
      BY <1>0, <1>1, <2>4, BlockKept
  <1>i. ASSUME kernel.n = n, kernel.ops = <<"F">>, Promise(p.kind) = <<"C", "F", "S">>
        PROVE  InverseWrap(p, buf) = done
    <2>1. IsPlain(kernel, n)
      BY <1>i DEF IsPlain
    <2>2. \A pl : pl.n = n /\ IsPlain(pl.kernel, n) =>
             InverseWrap(pl, Put(buf, 0, n, <<>>)) = Put(buf, 0, n, <<"C", "F", "S">>)
      <3> HIDE DEF n, buf
      <3> QED
        BY <1>0, <1>2, InverseIs
    <2>3. InverseWrap(p, Put(buf, 0, n, <<>>)) = Put(buf, 0, n, <<"C", "F", "S">>)
      BY <1>1, <2>1, <2>2
    <2>4. Put(buf, 0, n, <<>>) = buf
      BY <1>2
    <2> QED
      BY <1>i, <2>3, <2>4
  <1>6. CASE r.kind = "inverse"
    <2>1. kernel.n = n /\ kernel.ops = <<"F">> /\ Promise(p.kind) = <<"C", "F", "S">>
      BY <1>1, <1>6 DEF PlainKernel, Kernel, Promise, FusedInverse
    <2>2. out = done
      BY <1>1, <1>6, <1>i, <1>r, <2>1
    <2> QED
      BY <1>0, <1>1, <2>2, BlockKept
  <1>7. CASE r.kind = "inv64"
    <2>0. Promise(p.kind) = <<"C", "F", "S">>
      BY <1>1, <1>7 DEF Promise
    <2>1. Apply(Apply(Apply(buf, 0, n, "C"), 0, n, "F"), 0, n, "S") = done
      <3>1. Apply(Apply(Apply(Put(buf, 0, n, <<>>), 0, n, "C"), 0, n, "F"), 0, n, "S")
               = Put(buf, 0, n, <<"C", "F", "S">>)
        <4> HIDE DEF n, buf
        <4> QED
          BY <1>0, <1>2, InverseIs
      <3>2. Put(buf, 0, n, <<>>) = buf
        BY <1>2
      <3> QED
        BY <2>0, <3>1, <3>2
    <2>2. ASSUME p.fused PROVE Call(buf, 0, kernel) = done
      <3>1. kernel.n = n /\ kernel.ops = <<"C", "F", "S">>
        BY <1>1, <1>7, <2>2 DEF PlainKernel, Kernel
      <3> QED
        BY <1>c, <2>0, <3>1, GrowsInverse
    <2>3. ASSUME ~p.fused PROVE InverseWrap(p, buf) = done
      <3>1. kernel.n = n /\ kernel.ops = <<"F">>
        BY <1>1, <1>7, <2>3 DEF PlainKernel, Kernel
      <3> QED
        BY <1>i, <2>0, <3>1
    <2>4. Inverse64(p, buf) = done
      <3> HIDE DEF done, buf
      <3> QED
        BY <1>1, <2>1, <2>2, <2>3 DEF Inverse64
    <2>5. out = done
      BY <1>1, <1>7, <1>r, <2>4
    <2> QED
      BY <1>0, <1>1, <2>5, BlockKept
  <1> QED
    BY <1>3, <1>4, <1>5, <1>6, <1>7 DEF HostKinds, Kinds, Searched

\* The kernel a convolution has built or kept.
LEMMA ConvKernel ==
  ASSUME NEW r, r.kind \in {"conv", "linear"}, NEW p, Fits(p, r)
  PROVE  IF p.fused THEN IsFused(p.kernel, r.n) ELSE IsPlain(p.kernel, r.n)
  <1>1. p.fused \in BOOLEAN /\ p.kernel = KernelOf(r, <<IF p.fused THEN "store" ELSE "standalone", "single">>)
    BY DEF Fits, Searched
  <1>2. KernelOf(r, <<"store", "single">>) = Kernel(r.n, <<"F", "H", "C", "F", "S">>)
    BY DEF KernelOf, SearchedKernel
  <1>3. KernelOf(r, <<"standalone", "single">>) = Kernel(r.n, <<"F">>)
    BY DEF KernelOf, SearchedKernel
  <1>4. CASE p.fused
    <2>1. p.kernel = Kernel(r.n, <<"F", "H", "C", "F", "S">>)
      BY <1>1, <1>2, <1>4
    <2>2. IsFused(p.kernel, r.n)
      BY <2>1 DEF Kernel, IsFused
    <2> QED
      BY <1>4, <2>2
  <1>5. CASE ~p.fused
    <2>1. p.kernel = Kernel(r.n, <<"F">>)
      BY <1>1, <1>3, <1>5
    <2>2. IsPlain(p.kernel, r.n)
      BY <2>1 DEF Kernel, IsPlain
    <2> QED
      BY <1>5, <2>2
  <1> QED
    BY <1>4, <1>5

\* The convolution of the caller's block, by either wrapper.
LEMMA ConvDone ==
  ASSUME NEW r \in Requests, r.kind \in {"conv", "linear"}, NEW p, IsFor(p, r), Fits(p, r)
  PROVE  ConvWrap(p, Fresh(p, r.n)) = Put(Fresh(p, r.n), 0, r.n, <<"F", "H", "C", "F", "S">>)
  <1> DEFINE n   == r.n
             buf == Fresh(p, n)
  <1>0. n \in Nat \ {0} /\ Requests # {}
    BY RequestsAssumption, 0 \in Nat DEF Ints
  <1>1. p.n = n /\ p.b = 1
    BY RequestsAssumption DEF IsFor
  <1>2. Holds(buf, 0, n) /\ buf = Put(buf, 0, n, <<>>)
    BY <1>0, <1>1, FreshBlock
  <1>3. IF p.fused THEN IsFused(p.kernel, n) ELSE IsPlain(p.kernel, n)
    BY ConvKernel
  <1>4. \A q : q.n = n /\ (IF q.fused THEN IsFused(q.kernel, n) ELSE IsPlain(q.kernel, n)) =>
            ConvWrap(q, Put(buf, 0, n, <<>>)) = Put(buf, 0, n, <<"F", "H", "C", "F", "S">>)
    <2> HIDE DEF buf, n
    <2> QED
      BY <1>0, <1>2, ConvIs
  <1> HIDE DEF buf, n
  <1>5. ConvWrap(p, Put(buf, 0, n, <<>>)) = Put(buf, 0, n, <<"F", "H", "C", "F", "S">>)
    BY <1>1, <1>3, <1>4
  <1>6. ConvWrap(p, buf) = Put(buf, 0, n, <<"F", "H", "C", "F", "S">>)
    BY <1>2, <1>5
  <1> QED
    BY <1>6 DEF buf, n

LEMMA ConvKeeps ==
  ASSUME NEW r \in Requests, r.kind = "conv", NEW p, IsFor(p, r), Fits(p, r)
  PROVE  Keeps(p, r.n)
  <1>0. r.n \in Nat \ {0} /\ Requests # {}
    BY RequestsAssumption, 0 \in Nat DEF Ints
  <1>1. p.n = r.n /\ p.b = 1 /\ p.kind = "conv"
    BY RequestsAssumption DEF IsFor
  <1>2. Promise(p.kind) = <<"F", "H", "C", "F", "S">>
    BY <1>1 DEF Promise
  <1>3. Execute(p, OwnEntry(p.kind), Fresh(p, r.n), r.n) = ConvWrap(p, Fresh(p, r.n))
    BY <1>1, OwnRuns
  <1>4. Execute(p, OwnEntry(p.kind), Fresh(p, r.n), r.n) = Put(Fresh(p, r.n), 0, r.n, Promise(p.kind))
    BY <1>2, <1>3, ConvDone
  <1> QED
    BY <1>0, <1>1, <1>4, BlockKept

\* The valid samples are the last ones, and move to the front.
LEMMA LinearKeeps ==
  ASSUME NEW r \in Requests, r.kind = "linear", NEW p, IsFor(p, r), Fits(p, r)
  PROVE  Keeps(p, r.n)
  <1> DEFINE n   == r.n
             nh  == r.nh
             buf == Fresh(p, n)
             ops == Promise(p.kind)
             out == Put(buf, 0, n, ops)
             moved == [a \in DOMAIN out |-> IF a \in 0..(n - nh) THEN out[a + nh - 1] ELSE out[a]]
  <1>0. n \in Nat \ {0} /\ Requests # {} /\ nh \in Nat /\ 1 <= nh /\ nh <= n
    BY RequestsAssumption, 0 \in Nat DEF Ints
  <1>1. p.n = n /\ p.b = 1 /\ p.kind = "linear" /\ p.nh = nh
    BY RequestsAssumption DEF IsFor
  <1>2. Promise(p.kind) = <<"F", "H", "C", "F", "S">>
    BY <1>1 DEF Promise
  <1>3. Execute(p, OwnEntry(p.kind), buf, n) = LinearWrap(p, buf)
    BY <1>1, OwnRuns
  <1>4. ConvWrap(p, buf) = out
    BY <1>2, ConvDone
  <1>5. LinearWrap(p, buf) = moved
    <2> HIDE DEF buf, out, n, nh
    <2> QED
      BY <1>1, <1>4 DEF LinearWrap
  <1>6. \A a \in DOMAIN buf : a \in Nat /\ buf[a] = [pos |-> IF a < n THEN a ELSE 0 - 1, ops |-> <<>>]
    BY <1>0, <1>1, FreshBlock
  <1>7. Holds(buf, 0, n)
    BY <1>0, <1>1, FreshBlock
  <1>8. DOMAIN out = DOMAIN buf
        /\ \A a \in DOMAIN buf : out[a] = IF a \in 0..(0 + n - 1) THEN [pos |-> a - 0, ops |-> ops] ELSE buf[a]
    BY DEF Put
  <1>p. \A a : Promised(p, n, a) = IF buf[a].pos < 0 THEN buf[a] ELSE [pos |-> buf[a].pos + nh - 1, ops |-> ops]
    BY <1>1 DEF Promised
  <1>q. \A a \in 0..(0 + n - 1) : a \in DOMAIN buf
    BY <1>7 DEF Holds
  <1> HIDE DEF buf, out, ops, n, nh
  <1>9. ASSUME NEW a \in DOMAIN moved
        PROVE  a \in (n - nh + 1)..(n - 1) \/ moved[a] = Promised(p, n, a)
    <2>1. a \in Nat /\ a \in DOMAIN buf
      BY <1>6, <1>8, <1>9
    <2>2. CASE a \in 0..(n - nh)
      <3>1. a + nh - 1 \in 0..(0 + n - 1) /\ (a + nh - 1) - 0 = a + nh - 1 /\ a < n
        BY <1>0, <2>1, <2>2
      <3>2. out[a + nh - 1] = [pos |-> a + nh - 1, ops |-> ops]
        BY <1>8, <1>q, <3>1
      <3>3. buf[a].pos = a /\ ~(a < 0)
        BY <1>6, <2>1, <3>1
      <3> QED
        BY <1>8, <1>p, <2>1, <2>2, <3>2, <3>3
    <2>3. CASE a > n - nh /\ ~(a \in (n - nh + 1)..(n - 1))
      <3>1. ~(a < n) /\ a \notin 0..(0 + n - 1) /\ a \notin 0..(n - nh)
        BY <1>0, <2>1, <2>3
      <3>2. buf[a] = [pos |-> 0 - 1, ops |-> <<>>]
        BY <1>6, <2>1, <3>1
      <3>3. buf[a].pos < 0
        BY <3>2
      <3> QED
        BY <1>8, <1>p, <2>1, <3>1, <3>3
    <2> QED
      BY <1>0, <2>1, <2>2, <2>3
  <1> HIDE DEF moved
  <1>10. Execute(p, OwnEntry(p.kind), buf, n) = moved
    BY <1>3, <1>5
  <1>11. Keeps(p, n)
    <2>1. \A a \in DOMAIN moved : a \in (p.n - p.nh + 1)..(p.n - 1) \/ moved[a] = Promised(p, n, a)
      BY <1>1, <1>9
    <2> QED
      BY <1>1, <1>10, <2>1 DEF Keeps, buf
  <1> QED
    BY <1>11 DEF n

\* Where the host has no window to sweep it does not touch the buffer.
LEMMA NoSweep ==
  ASSUME NEW p, p.b \in Nat, NEW buf, NEW stride, SweptBlocks(p, stride) = {}
  PROVE  Sweep(p, buf, stride) = buf
  <1> DEFINE b == p.b
             Does(f) == f = [k \in 0..b |->
                               IF k = 0 THEN buf
                               ELSE IF k - 1 \in SweptBlocks(p, stride)
                                    THEN Apply(f[k - 1], (k - 1) * stride, p.n, "W")
                                    ELSE f[k - 1]]
             swept == CHOOSE f : Does(f)
             made == [k \in 0..b |-> buf]
  <1>0. \A k \in 1..b : k - 1 \in 0..b
    OBVIOUS
  <1>1. Sweep(p, buf, stride) = swept[b]
    BY DEF Sweep
  <1>2. Does(made)
    BY <1>0
  <1>3. Does(swept)
    BY <1>2
  <1> HIDE DEF swept
  <1>4. \A k \in 0..b : swept[k] = buf
    <2> DEFINE Bad == {k \in Nat : k \in 0..b /\ swept[k] # buf}
    <2>1. ASSUME Bad # {} PROVE FALSE
      <3>1. PICK k \in Bad : \A j \in Bad : k <= j
        BY <2>1, Math!LeastNatural
      <3>2. k # 0
        BY <1>3, <3>1
      <3>3. k \in 1..b /\ k - 1 \in 0..b /\ k - 1 \notin Bad
        BY <3>1, <3>2
      <3>4. swept[k - 1] = buf
        BY <3>3
      <3>5. swept[k] = swept[k - 1]
        BY <1>3, <3>3
      <3> QED
        BY <3>1, <3>4, <3>5
    <2> QED
      BY <2>1
  <1> QED
    BY <1>1, <1>4

\* Window and transform of every block, by the host's sweep and the kernel or
\* by the kernel alone.
LEMMA BatchDone ==
  ASSUME NEW r \in Requests, r.kind = "batch", NEW p, IsFor(p, r), Fits(p, r),
         NEW stride \in Nat, r.n <= stride
  PROVE  WindowedBatch(p, Fresh(p, stride), stride)
            = Rows(Fresh(p, stride), r.n, r.b, stride, 0, <<"W", "F">>, <<>>)
  <1> DEFINE n    == r.n
             b    == r.b
             buf  == Fresh(p, stride)
             none == <<>>
             win  == <<"W">>
             ft   == <<"F">>
             both == <<"W", "F">>
  <1>0. n \in Nat \ {0} /\ b \in Nat \ {0} /\ Requests # {}
    BY RequestsAssumption, 0 \in Nat DEF Ints
  <1>1. p.n = n /\ p.b = b
    BY DEF IsFor
  <1>2. PICK w \in Winners(r) : p.place = w[1] /\ p.form = w[2] /\ p.kernel = KernelOf(r, w)
    BY DEF Fits, Searched
  <1>3. /\ w[1] \in {"load", "standalone", "presweep"}
        /\ w[2] \in {"single", "slim", "loop"}
    BY DEF Winners
  <1>4. p.kernel = [n |-> n, ops |-> IF p.place = "load" THEN both ELSE ft,
                    single |-> p.form \in {"single", "slim"}, contig |-> p.form = "slim"]
    BY <1>2 DEF KernelOf, SearchedKernel
  <1>5. p.kernel.n = n /\ HasForm(p)
    BY <1>4 DEF HasForm
  <1>5a. p.place = "load" => p.kernel.ops = both
    BY <1>4
  <1>5b. p.place # "load" => p.kernel.ops = ft
    BY <1>4
  <1>6. Room(buf, n, b, stride) /\ \A high : buf = Rows(buf, n, b, stride, 0, none, high)
    BY <1>0, <1>1, FreshRow
  <1>7. win = Append(none, "W") /\ Grows(none, both, both) /\ Grows(win, ft, both)
    <2>1. Append(win, "F") = both
      BY AppendTwo
    <2> QED
      BY <2>1, AppendOne, GrowsOne, GrowsWindow
  <1>8. ~(stride < p.n)
    BY <1>0, <1>1
  <1>9. /\ p.place = "standalone" => SweptBlocks(p, stride) = Blocks(b)
        /\ p.place = "presweep"   => SweptBlocks(p, stride) = Preswept(p, stride)
        /\ p.place = "load"       => SweptBlocks(p, stride) = {}
    BY <1>1 DEF SweptBlocks
  <1> HIDE DEF buf, n, b, none, win, ft, both
  <1>10. WindowedBatch(p, buf, stride) = RunBlocks(p, Sweep(p, buf, stride), stride)
    BY <1>5, <1>8 DEF WindowedBatch
  <1>11. Preswept(p, stride) = Blocks(b)
    BY <1>0, <1>1, PairsAndLast
  <1>a. Room(buf, n, b, stride) /\ SizedAs(p, n, b)
    BY <1>1, <1>6 DEF SizedAs
  <1>r. \A low, high : Makes(p, n, low, high) =>
           RunBlocks(p, Rows(buf, n, b, stride, 0, low, high), stride) = Rows(buf, n, b, stride, b, low, high)
    BY <1>a, RunsRow
  <1>s. SweepsAll(p, b, stride) =>
           \A low : Sweep(p, Rows(buf, n, b, stride, 0, low, Append(low, "W")), stride)
                      = Rows(buf, n, b, stride, b, low, Append(low, "W"))
    BY <1>a, SweepsRow
  <1>12. CASE p.place = "load"
    <2>1. SweptBlocks(p, stride) = {} /\ p.b \in Nat
      BY <1>0, <1>1, <1>9, <1>12
    <2>2. Sweep(p, buf, stride) = buf
      BY <2>1, NoSweep
    <2>3. Makes(p, n, none, both)
      BY <1>5, <1>5a, <1>7, <1>12 DEF Makes
    <2>4. RunBlocks(p, Rows(buf, n, b, stride, 0, none, both), stride) = Rows(buf, n, b, stride, b, none, both)
      BY <1>r, <2>3
    <2>5. RunBlocks(p, buf, stride) = Rows(buf, n, b, stride, b, none, both)
      BY <1>6, <2>4
    <2>6. Rows(buf, n, b, stride, b, none, both) = Rows(buf, n, b, stride, 0, both, none)
      BY <1>6, WholeRow
    <2>7. WindowedBatch(p, buf, stride) = Rows(buf, n, b, stride, 0, both, none)
      BY <1>10, <2>2, <2>5, <2>6
    <2> QED
      BY <2>7 DEF buf, n, b, both, none
  <1>13. CASE p.place \in {"standalone", "presweep"}
    <2>1. SweepsAll(p, b, stride)
      BY <1>9, <1>11, <1>13 DEF SweepsAll
    <2>2. Sweep(p, Rows(buf, n, b, stride, 0, none, win), stride) = Rows(buf, n, b, stride, b, none, win)
      <3>1. Sweep(p, Rows(buf, n, b, stride, 0, none, Append(none, "W")), stride)
               = Rows(buf, n, b, stride, b, none, Append(none, "W"))
        BY <1>s, <2>1
      <3> QED
        BY <1>7, <3>1
    <2>3. Sweep(p, buf, stride) = Rows(buf, n, b, stride, b, none, win)
      BY <1>6, <2>2
    <2>4. Rows(buf, n, b, stride, b, none, win) = Rows(buf, n, b, stride, 0, win, both)
      BY <1>6, WholeRow
    <2>5. Makes(p, n, win, both)
      BY <1>5, <1>5b, <1>7, <1>13 DEF Makes
    <2>6. RunBlocks(p, Rows(buf, n, b, stride, 0, win, both), stride) = Rows(buf, n, b, stride, b, win, both)
      BY <1>r, <2>5
    <2>7. Rows(buf, n, b, stride, b, win, both) = Rows(buf, n, b, stride, 0, both, none)
      BY <1>6, WholeRow
    <2>8. WindowedBatch(p, buf, stride) = Rows(buf, n, b, stride, 0, both, none)
      BY <1>10, <2>3, <2>4, <2>6, <2>7
    <2> QED
      BY <2>8 DEF buf, n, b, both, none
  <1> QED
    BY <1>2, <1>3, <1>12, <1>13

LEMMA BatchKeeps ==
  ASSUME NEW r \in Requests, r.kind = "batch", NEW p, IsFor(p, r), Fits(p, r),
         NEW stride \in Nat, r.n <= stride
  PROVE  Keeps(p, stride)
  <1> DEFINE n    == r.n
             b    == r.b
             buf  == Fresh(p, stride)
             ops  == Promise(p.kind)
             out  == Rows(buf, n, b, stride, 0, ops, <<>>)
  <1>0. n \in Nat \ {0} /\ b \in Nat \ {0} /\ Requests # {}
    BY RequestsAssumption, 0 \in Nat DEF Ints
  <1>1. p.n = n /\ p.b = b /\ p.kind = "batch"
    BY DEF IsFor
  <1>2. Promise(p.kind) = <<"W", "F">>
    BY <1>1 DEF Promise
  <1>3. Execute(p, OwnEntry(p.kind), buf, stride) = out
    BY <1>1, <1>2, OwnRuns, BatchDone
  <1>4. \A a \in DOMAIN buf :
           /\ a \in Nat
           /\ buf[a] = [pos |-> IF a < b * stride /\ a % stride < n THEN a % stride ELSE 0 - 1, ops |-> <<>>]
    BY <1>0, <1>1, FreshRow
  <1>5. DOMAIN out = DOMAIN buf
        /\ \A a \in DOMAIN buf :
              out[a] = IF a < b * stride /\ a % stride < n
                       THEN [pos |-> a % stride, ops |-> IF a \div stride < 0 THEN <<>> ELSE ops]
                       ELSE buf[a]
    BY DEF Rows
  <1>p. \A a : Promised(p, stride, a) = IF buf[a].pos < 0 THEN buf[a] ELSE [pos |-> buf[a].pos, ops |-> ops]
    BY <1>1 DEF Promised
  <1> HIDE DEF buf, out, ops, n, b
  <1>6. ASSUME NEW a \in DOMAIN out PROVE out[a] = Promised(p, stride, a)
    <2>1. a \in Nat /\ a \in DOMAIN buf
      BY <1>4, <1>5, <1>6
    <2>2. a % stride \in 0..(stride - 1) /\ a \div stride \in Nat
      <3>1. stride \in Nat \ {0}
        BY <1>0 DEF n
      <3> QED
        BY <2>1, <3>1, BlockOf
    <2>3. CASE a < b * stride /\ a % stride < n
      <3> DEFINE i == a % stride
      <3>1. out[a] = [pos |-> i, ops |-> ops] /\ buf[a] = [pos |-> i, ops |-> <<>>] /\ ~(i < 0)
        BY <1>4, <1>5, <2>1, <2>2, <2>3
      <3> HIDE DEF i
      <3>2. buf[a].pos = i
        BY <3>1
      <3> QED
        BY <1>p, <3>1, <3>2
    <2>4. CASE ~(a < b * stride /\ a % stride < n)
      <3>1. out[a] = buf[a] /\ buf[a] = [pos |-> 0 - 1, ops |-> <<>>]
        BY <1>4, <1>5, <2>1, <2>4
      <3>2. buf[a].pos < 0
        BY <3>1
      <3> QED
        BY <1>p, <3>1, <3>2
    <2> QED
      BY <2>3, <2>4
  <1> QED
    BY <1>3, <1>6 DEF Keeps, buf

\* A plan that fits its request keeps what its kind promises.
LEMMA FittingKeeps ==
  ASSUME NEW r \in Requests, NEW p, IsFor(p, r), Fits(p, r), NEW stride \in Strides(p)
  PROVE  Keeps(p, stride)
  <1>1. p.kind = r.kind /\ p.n = r.n /\ r.n \in Nat /\ r.kind \in HostKinds
    BY RequestsAssumption DEF IsFor, Ints
  <1>2. CASE r.kind = "batch"
    <2>1. stride \in Nat /\ r.n <= stride
      BY <1>1, <1>2 DEF Strides
    <2> QED
      BY <1>2, <2>1, BatchKeeps
  <1>3. CASE r.kind # "batch"
    <2>1. stride = r.n
      BY <1>1, <1>3 DEF Strides
    <2>2. CASE r.kind = "conv"
      BY <2>1, <2>2, ConvKeeps
    <2>3. CASE r.kind = "linear"
      BY <2>1, <2>3, LinearKeeps
    <2>4. CASE r.kind \notin Searched
      <3>1. p = Draft(r)
        BY <2>4 DEF Fits, Searched
      <3> QED
        BY <1>1, <2>1, <2>4, <3>1, AloneKeeps
    <2> QED
      BY <1>3, <2>2, <2>3, <2>4 DEF Searched
  <1> QED
    BY <1>2, <1>3

\* Through its own entry a plan does what its kind promises, once, to every
\* sample of every block and to nothing else, whatever the search chose and
\* wherever it or an allocation failed (plan_cache.c:1725, "The public contract
\* is unchanged for every placement"), when callers run one joint search at a
\* time.  Without OneSearch it is false.
THEOREM OwnEntryKeeps ==
  ASSUME OneSearch
  PROVE  Spec => []OwnEntryKeepsPromise
  <1>1. PInv /\ FInv => OwnEntryKeepsPromise
    <2> SUFFICES ASSUME PInv, FInv, NEW s \in Sessions, phase[s] = "ready",
                        NEW stride \in Strides(plan[s])
                 PROVE  Keeps(plan[s], stride)
      BY DEF OwnEntryKeepsPromise, Keeps
    <2>1. req[s] \in Requests /\ IsFor(plan[s], req[s])
      BY DEF PInv, OfItsKind
    <2>2. Fits(plan[s], req[s])
      BY DEF FInv, Fitted, Read, Hunting, Busy
    <2> QED
      BY <2>1, <2>2, FittingKeeps
  <1> QED
    BY <1>1, PlansKeepTheirKind, PlansFit, PTL
=============================================================================
