------------------------------ MODULE PlanStore ------------------------------
(***************************************************************************)
(* What the plan layer promises its callers (src/include/fft.h: a create   *)
(* call returns NULL or a refcounted handle that "remains valid until the  *)
(* matching fft_plan_destroy call", and equal requests share a plan).      *)
(*                                                                         *)
(* A session is one caller's create ... destroy bracket.  While a session  *)
(* is granted, obj[s] is the plan object its handle denotes and serves[s]  *)
(* the cache key that object was built for; neither changes before the     *)
(* session itself closes, and sessions of one key denote one object.       *)
(***************************************************************************)
CONSTANTS Sessions, Objects, Keys, Nothing

VARIABLES phase,   \* "none", "asking", "granted" or "closing"
          asked,   \* the key the session asked for
          obj,     \* the object its handle denotes
          serves   \* the key that object was built for

storeVars == <<phase, asked, obj, serves>>

Init ==
    /\ phase  = [s \in Sessions |-> "none"]
    /\ asked  = [s \in Sessions |-> Nothing]
    /\ obj    = [s \in Sessions |-> Nothing]
    /\ serves = [s \in Sessions |-> Nothing]

Ask(s, k) ==
    /\ phase[s] = "none"
    /\ phase' = [phase EXCEPT ![s] = "asking"]
    /\ asked' = [asked EXCEPT ![s] = k]
    /\ UNCHANGED <<obj, serves>>

\* Sessions that denote an object: from the grant to the end of the close.
Using == {s \in Sessions : obj[s] # Nothing}

\* The objects a handle for key k may denote: the one in use for k, if any,
\* and otherwise one that nobody uses.
Candidates(k) ==
    LET shared == {obj[t] : t \in {u \in Using : asked[u] = k}}
    IN  IF shared # {} THEN shared ELSE Objects \ {obj[t] : t \in Using}

Grant(s, o) ==
    /\ phase[s] = "asking"
    /\ o \in Candidates(asked[s])
    /\ phase'  = [phase EXCEPT ![s] = "granted"]
    /\ obj'    = [obj EXCEPT ![s] = o]
    /\ serves' = [serves EXCEPT ![s] = asked[s]]
    /\ UNCHANGED asked

Refuse(s) ==
    /\ phase[s] = "asking"
    /\ phase' = [phase EXCEPT ![s] = "none"]
    /\ asked' = [asked EXCEPT ![s] = Nothing]
    /\ UNCHANGED <<obj, serves>>

BeginClose(s) ==
    /\ phase[s] = "granted"
    /\ phase' = [phase EXCEPT ![s] = "closing"]
    /\ UNCHANGED <<asked, obj, serves>>

EndClose(s) ==
    /\ phase[s] = "closing"
    /\ phase'  = [phase EXCEPT ![s] = "none"]
    /\ asked'  = [asked EXCEPT ![s] = Nothing]
    /\ obj'    = [obj EXCEPT ![s] = Nothing]
    /\ serves' = [serves EXCEPT ![s] = Nothing]

Next ==
    \E s \in Sessions :
        \/ \E k \in Keys : Ask(s, k)
        \/ \E o \in Objects : Grant(s, o)
        \/ Refuse(s)
        \/ BeginClose(s)
        \/ EndClose(s)

Spec == Init /\ [][Next]_storeVars
=============================================================================
