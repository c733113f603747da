------------------------- MODULE RateLimiter_proofs --------------------------
(***************************************************************************)
(* Proofs about the rate limiter, for every limit, window and number of    *)
(* clients.  Inv says that a pruned slice is the whole history as far as   *)
(* the current window goes.  From it every step of the limiter is a step   *)
(* of SlidingWindow, and no window overflows.                              *)
(***************************************************************************)
EXTENDS RateLimiter, FiniteSetTheorems, TLAPS

USE DEF Promise!Admissions

-----------------------------------------------------------------------------
(* Windows. *)

\* The pruned slice and the history agree on the window that ends now.
LEMMA ValidIsWithin ==
  ASSUME Inv, NEW id \in Identifiers
  PROVE  ValidRequests(id) = Promise!Within(admitted[id], now)
BY DEF Inv, TypeOK, RemembersWindow, HistoryOK, Entries, ValidRequests, Promise!Within

\* The instance counts as FiniteSets does.
LEMMA SameCount == \A S : Promise!Cardinality(S) = Cardinality(S)
BY DEF Promise!Cardinality, Cardinality

LEMMA WithinIsFinite ==
  ASSUME NEW stamps, IsFiniteSet(stamps), NEW t
  PROVE  IsFiniteSet(Promise!Within(stamps, t))
<1>1. Promise!Within(stamps, t) \subseteq stamps BY DEF Promise!Within
<1> QED BY <1>1, FS_Subset

\* One more stamp is at most one more admission in a window.
LEMMA OneMore ==
  ASSUME NEW S, IsFiniteSet(S), NEW x, Cardinality(S) < MaxReqs
  PROVE  Cardinality(S \cup {x}) <= MaxReqs
<1>1. Cardinality(S) \in Nat BY FS_CardinalityType
<1>2. Cardinality(S \cup {x}) \in {Cardinality(S), Cardinality(S) + 1}
      BY FS_AddElement
<1> QED BY <1>1, <1>2, MaxReqsAssumption

-----------------------------------------------------------------------------
(* The invariant. *)

LEMMA InitInv == Init => Inv
<1> SUFFICES ASSUME Init PROVE Inv
    OBVIOUS
<1> USE DEF Init, Promise!Init
<1>1. TypeOK BY DEF TypeOK
<1>2. RemembersWindow BY DEF RemembersWindow, Entries, Promise!Within
<1>3. KeysHaveEntries BY DEF KeysHaveEntries
<1>4. HistoryOK BY FS_EmptySet DEF HistoryOK
<1> QED BY <1>1, <1>2, <1>3, <1>4 DEF Inv

LEMMA TickInv == Inv /\ Tick => Inv'
<1> SUFFICES ASSUME Inv, Tick PROVE Inv'
    OBVIOUS
<1> USE DEF Inv, Tick, Promise!Tick
<1>1. TypeOK' BY DEF TypeOK
<1>2. RemembersWindow'
  <2> SUFFICES ASSUME NEW id \in Identifiers
               PROVE  /\ Entries(id) \subseteq admitted[id]
                      /\ Promise!Within(admitted[id], now + 1) \subseteq Entries(id)
      BY DEF RemembersWindow, Entries
  <2>1. Entries(id) \subseteq admitted[id] BY DEF RemembersWindow
  <2>2. Promise!Within(admitted[id], now + 1) \subseteq Promise!Within(admitted[id], now)
        BY WindowAssumption DEF TypeOK, HistoryOK, Promise!Within
  <2> QED BY <2>1, <2>2 DEF RemembersWindow
<1>3. KeysHaveEntries' BY DEF KeysHaveEntries
<1>4. HistoryOK' BY DEF HistoryOK, TypeOK
<1> QED BY <1>1, <1>2, <1>3, <1>4

LEMMA CleanupInv == Inv /\ Cleanup => Inv'
<1> SUFFICES ASSUME Inv, Cleanup PROVE Inv'
    OBVIOUS
<1> USE DEF Inv, Cleanup, history
<1>1. TypeOK' BY DEF TypeOK, Entries, ValidRequests
<1>2. RemembersWindow'
  <2> SUFFICES ASSUME NEW id \in Identifiers
               PROVE  /\ Entries(id)' \subseteq admitted[id]
                      /\ Promise!Within(admitted[id], now) \subseteq Entries(id)'
      BY DEF RemembersWindow
  <2>1. Entries(id)' = ValidRequests(id) BY DEF Entries, ValidRequests
  <2>2. ValidRequests(id) = Promise!Within(admitted[id], now) BY ValidIsWithin
  <2> QED BY <2>1, <2>2 DEF Promise!Within
<1>3. KeysHaveEntries' BY DEF KeysHaveEntries
<1>4. HistoryOK' BY DEF HistoryOK
<1> QED BY <1>1, <1>2, <1>3, <1>4

LEMMA AllowInv == ASSUME Inv, NEW id \in Identifiers, Allow(id) PROVE Inv'
<1> DEFINE stamp == [at |-> now, nth |-> served]
<1>a. CASE Cardinality(ValidRequests(id)) >= MaxReqs
      BY <1>a DEF Inv, Allow, TypeOK, RemembersWindow, KeysHaveEntries, HistoryOK, Entries
<1>b. CASE ~(Cardinality(ValidRequests(id)) >= MaxReqs)
  <2>0. /\ Store(id, ValidRequests(id) \cup {stamp})
        /\ admitted' = [admitted EXCEPT ![id] = @ \cup {stamp}]
        /\ served' = served + 1
        /\ verdict' = [verdict EXCEPT ![id] = "admitted"]
        /\ now' = now
        BY <1>b DEF Allow
  <2>1. TypeOK' BY <2>0 DEF Inv, TypeOK, Entries, ValidRequests, Store
  <2>2. RemembersWindow'
    <3> SUFFICES ASSUME NEW k \in Identifiers
                 PROVE  /\ Entries(k)' \subseteq admitted'[k]
                        /\ Promise!Within(admitted'[k], now) \subseteq Entries(k)'
        BY <2>0 DEF RemembersWindow
    <3>1. CASE k # id BY <3>1, <2>0 DEF Inv, TypeOK, RemembersWindow, Entries, Store
    <3>2. CASE k = id
      <4>1. Entries(k)' = ValidRequests(id) \cup {stamp} BY <3>2, <2>0 DEF Entries, Store
      <4> QED BY <3>2, <2>0, <4>1, ValidIsWithin DEF Inv, TypeOK, HistoryOK, Promise!Within
    <3> QED BY <3>1, <3>2
  <2>3. KeysHaveEntries' BY <2>0 DEF Inv, KeysHaveEntries, Store
  <2>4. HistoryOK'
    <3> SUFFICES ASSUME NEW k \in Identifiers
                 PROVE  IsFiniteSet(admitted'[k]) /\ \A r \in admitted'[k] : r.at <= now
        BY <2>0 DEF HistoryOK
    <3>1. CASE k # id BY <3>1, <2>0 DEF Inv, TypeOK, HistoryOK
    <3>2. CASE k = id
      <4>1. admitted'[k] = admitted[id] \cup {stamp} BY <3>2, <2>0 DEF Inv, TypeOK
      <4>2. IsFiniteSet(admitted[id] \cup {stamp}) BY FS_AddElement DEF Inv, HistoryOK
      <4> QED BY <4>1, <4>2 DEF Inv, TypeOK, HistoryOK
    <3> QED BY <3>1, <3>2
  <2> QED BY <2>1, <2>2, <2>3, <2>4 DEF Inv
<1> QED BY <1>a, <1>b

\* Slices stay within the history and complete for the current window.
THEOREM Remembers == Spec => []Inv
<1>1. Init => Inv BY InitInv
<1>2. Inv /\ [Next]_vars => Inv'
  <2> SUFFICES ASSUME Inv, [Next]_vars PROVE Inv'
      OBVIOUS
  <2>1. CASE UNCHANGED vars
        BY <2>1 DEF vars, history, Inv, TypeOK, RemembersWindow, KeysHaveEntries, HistoryOK,
                    Entries, Promise!Within
  <2>2. CASE Tick BY <2>2, TickInv
  <2>3. CASE Cleanup BY <2>3, CleanupInv
  <2>4. ASSUME NEW id \in Identifiers, Allow(id) PROVE Inv' BY <2>4, AllowInv
  <2> QED BY <2>1, <2>2, <2>3, <2>4 DEF Next
<1> QED BY <1>1, <1>2, PTL DEF Spec

-----------------------------------------------------------------------------
(* The promise. *)

\* The limiter decides on its pruned slices as SlidingWindow does on the whole
\* history: it implements the abstract limiter, cleanup passes being invisible.
THEOREM Implementation == Spec => ImplementsSlidingWindow
<1>1. Init => Promise!Init BY DEF Init
<1>2. Inv /\ [Next]_vars => [Promise!Next]_(Promise!vars)
  <2> SUFFICES ASSUME Inv, [Next]_vars PROVE [Promise!Next]_(Promise!vars)
      OBVIOUS
  <2>1. CASE UNCHANGED vars BY <2>1 DEF vars, history, Promise!vars
  <2>2. CASE Tick BY <2>2 DEF Tick, Promise!Next
  <2>3. CASE Cleanup BY <2>3 DEF Cleanup, history, Promise!vars
  <2>4. ASSUME NEW id \in Identifiers, Allow(id) PROVE Promise!Next
    <3>1. ValidRequests(id) = Promise!Within(admitted[id], now) BY ValidIsWithin
    <3>2. Cardinality(ValidRequests(id)) \in Nat
          BY <3>1, WithinIsFinite, FS_CardinalityType DEF Inv, HistoryOK
    <3>3. CASE Cardinality(ValidRequests(id)) >= MaxReqs
          BY <3>1, <3>3, <2>4, SameCount DEF Allow, Promise!Next, Promise!Deny
    <3>4. CASE ~(Cardinality(ValidRequests(id)) >= MaxReqs)
      <4>1. Promise!Cardinality(Promise!Within(admitted[id], now)) < MaxReqs
            BY <3>1, <3>2, <3>4, SameCount, MaxReqsAssumption
      <4>2. Promise!Admit(id) BY <4>1, <3>4, <2>4 DEF Allow, Promise!Admit
      <4> QED BY <4>2 DEF Promise!Next
    <3> QED BY <3>3, <3>4
  <2> QED BY <2>1, <2>2, <2>3, <2>4 DEF Next
<1> QED BY <1>1, <1>2, Remembers, PTL DEF Spec, Promise!Spec, ImplementsSlidingWindow

Bounded ==
  \A id \in Identifiers : \A t \in 0..now :
    Cardinality(Promise!Within(admitted[id], t)) <= MaxReqs

LEMMA BoundedMeans == Bounded <=> AdmittedPerWindow
BY SameCount DEF Bounded, AdmittedPerWindow, Promise!AdmittedPerWindow

LEMMA WindowsStayBounded ==
  ASSUME Inv, Inv', Bounded, [Next]_vars
  PROVE  Bounded'
<1> USE DEF Bounded
<1>0. now \in Nat BY DEF Inv, TypeOK
<1>1. CASE UNCHANGED admitted /\ now' = now
      BY <1>1 DEF Promise!Within
<1>2. CASE Tick
  <2> SUFFICES ASSUME NEW id \in Identifiers, NEW t \in 0..(now + 1)
               PROVE  Cardinality(Promise!Within(admitted[id], t)) <= MaxReqs
      BY <1>2 DEF Tick, Promise!Tick, Promise!Within
  <2>1. CASE t \in 0..now BY <2>1
  <2>2. CASE t = now + 1
    <3>1. Promise!Within(admitted[id], t) \subseteq Promise!Within(admitted[id], now)
          BY <2>2, <1>0, WindowAssumption DEF Inv, TypeOK, HistoryOK, Promise!Within
    <3>2. IsFiniteSet(Promise!Within(admitted[id], now))
          BY WithinIsFinite DEF Inv, HistoryOK
    <3>3. Cardinality(Promise!Within(admitted[id], t))
            <= Cardinality(Promise!Within(admitted[id], now))
          BY <3>1, <3>2, FS_Subset
    <3>4. Cardinality(Promise!Within(admitted[id], now)) <= MaxReqs BY <1>0
    <3>5. /\ Cardinality(Promise!Within(admitted[id], t)) \in Nat
          /\ Cardinality(Promise!Within(admitted[id], now)) \in Nat
          BY <3>1, <3>2, FS_Subset, FS_CardinalityType
    <3> QED BY <3>3, <3>4, <3>5, MaxReqsAssumption
  <2> QED BY <2>1, <2>2, <1>0
<1>3. ASSUME NEW id \in Identifiers, Allow(id),
             ~(Cardinality(ValidRequests(id)) >= MaxReqs)
      PROVE  Bounded'
  <2> DEFINE stamp == [at |-> now, nth |-> served]
  <2>1. admitted' = [admitted EXCEPT ![id] = @ \cup {stamp}] /\ now' = now
        BY <1>3 DEF Allow
  <2> SUFFICES ASSUME NEW k \in Identifiers, NEW t \in 0..now
               PROVE  Cardinality(Promise!Within(admitted'[k], t)) <= MaxReqs
      BY <2>1 DEF Promise!Within
  <2>2. CASE k # id BY <2>2, <2>1 DEF Inv, TypeOK
  <2>3. CASE k = id /\ t # now
    <3>1. Promise!Within(admitted'[k], t) = Promise!Within(admitted[k], t)
          BY <2>3, <2>1, <1>0 DEF Inv, TypeOK, Promise!Within
    <3> QED BY <3>1
  <2>4. CASE k = id /\ t = now
    <3>1. Promise!Within(admitted'[k], t) = ValidRequests(id) \cup {stamp}
          BY <2>4, <2>1, <1>0, <1>3, ValidIsWithin, WindowAssumption DEF Inv, TypeOK, Promise!Within
    <3>2. IsFiniteSet(ValidRequests(id))
          BY <1>3, ValidIsWithin, WithinIsFinite DEF Inv, HistoryOK
    <3>3. Cardinality(ValidRequests(id)) < MaxReqs
          BY <3>2, <1>3, FS_CardinalityType, MaxReqsAssumption
    <3> QED BY <3>1, <3>2, <3>3, OneMore
  <2> QED BY <2>2, <2>3, <2>4
<1> QED
  <2>1. CASE UNCHANGED vars BY <1>1, <2>1 DEF vars, history
  <2>2. CASE Cleanup BY <1>1, <2>2 DEF Cleanup, history
  <2>3. ASSUME NEW id \in Identifiers, Allow(id), Cardinality(ValidRequests(id)) >= MaxReqs
        PROVE  Bounded'
        BY <1>1, <2>3 DEF Allow
  <2> QED BY <1>2, <1>3, <2>1, <2>2, <2>3 DEF Next

\* Whatever the limit, the window and the clients' timing, no window of time holds
\* more than MaxReqs admissions of an identifier.
THEOREM NoWindowOverflows == Spec => []AdmittedPerWindow
<1>1. Init => Bounded
  <2> SUFFICES ASSUME Init, NEW id \in Identifiers, NEW t \in 0..now
               PROVE  Cardinality(Promise!Within(admitted[id], t)) <= MaxReqs
      BY DEF Bounded
  <2>1. Promise!Within(admitted[id], t) = {} BY DEF Init, Promise!Init, Promise!Within
  <2> QED BY <2>1, FS_EmptySet, MaxReqsAssumption
<1>2. Inv /\ Inv' /\ Bounded /\ [Next]_vars => Bounded'
      BY WindowsStayBounded
<1> QED BY <1>1, <1>2, Remembers, BoundedMeans, PTL DEF Spec

=============================================================================
