------------------------ MODULE SyncLifecycleProofs ------------------------
(***************************************************************************)
(* What follows from the promise of module SyncLifecycle, for any tasks    *)
(* and units: a sync in progress is carried or lost, one that ended hides  *)
(* no work, and what is complete was delivered.                            *)
(***************************************************************************)
EXTENDS SyncLifecycle, TLAPS

\* A request holds the sync until it hands it over.
RequestHolds == requested => carrier = "held"

Inv == RequestHolds /\ Carried /\ NothingHidden /\ CompleteIsDelivered

\* The promise's first states keep the invariant.
LEMMA InitInv == Init => Inv
BY DEF Init, Inv, RequestHolds, Carried, NothingHidden, CompleteIsDelivered, InProgress

\* Where the tasks, what was delivered and the disturbance stay the same, so does
\* the last part of the invariant.
LEMMA DeliveredStays ==
  CompleteIsDelivered /\ (disturbed => disturbed') /\ complete' = complete
    /\ delivered \subseteq delivered' => CompleteIsDelivered'
BY DEF CompleteIsDelivered

\* Every step of the promise keeps the invariant.
LEMMA NextInv == Inv /\ [Next]_promise => Inv'
<1> SUFFICES ASSUME Inv, [Next]_promise PROVE Inv'
  OBVIOUS
<1> USE DEF Inv
<1>1. CASE UNCHANGED promise
  BY <1>1 DEF promise, RequestHolds, Carried, NothingHidden, CompleteIsDelivered, InProgress
<1>2. CASE Next
  <2>0. disturbed => disturbed'
    BY <1>2 DEF Next
  <2>1. CASE Request
    BY <2>0, <2>1, DeliveredStays DEF Request, RequestHolds, Carried, NothingHidden
  <2>2. CASE Forget
    <3>1. RequestHolds' /\ Carried' /\ NothingHidden'
      BY <2>2 DEF Forget, RequestHolds, Carried, NothingHidden, InProgress
    <3>2. CompleteIsDelivered'
      BY <2>0, <2>2 DEF Forget, CompleteIsDelivered
    <3> QED BY <3>1, <3>2
  <2>3. CASE HandOver
    BY <2>0, <2>3, DeliveredStays
    DEF HandOver, RequestHolds, Carried, NothingHidden, InProgress
  <2>4. CASE Deliver
    BY <2>0, <2>4, DeliveredStays
    DEF Deliver, RequestHolds, Carried, NothingHidden, InProgress
  <2>5. ASSUME NEW t \in Tasks, Complete(t) PROVE Inv'
    <3>1. RequestHolds' /\ Carried' /\ NothingHidden'
      BY <2>5 DEF Complete, RequestHolds, Carried, NothingHidden, InProgress
    <3>2. CompleteIsDelivered'
      BY <2>0, <2>5 DEF Complete, CompleteIsDelivered
    <3> QED BY <3>1, <3>2
  <2>6. CASE Interfere
    BY <2>6 DEF Interfere, RequestHolds, Carried, NothingHidden, CompleteIsDelivered
  <2>7. CASE Progress
    BY <2>0, <2>7, DeliveredStays
    DEF Progress, RequestHolds, Carried, NothingHidden, InProgress
  <2>8. CASE Release
    BY <2>0, <2>8, DeliveredStays
    DEF Release, RequestHolds, Carried, NothingHidden, InProgress
  <2>9. CASE UNCHANGED <<status, requested, delivered, complete, open, carrier>>
    BY <2>0, <2>9, DeliveredStays
    DEF RequestHolds, Carried, NothingHidden, InProgress
  <2> QED
    BY <1>2, <2>1, <2>2, <2>3, <2>4, <2>5, <2>6, <2>7, <2>8, <2>9 DEF Next
<1> QED BY <1>1, <1>2

\* A sync that is asked for never gets stuck unseen: it is carried, has ended, or was
\* lost in one of the ways the mapping of module Backfill names.
THEOREM SyncIsCarried == Spec => []Carried
<1>1. Inv => Carried
  BY DEF Inv
<1> QED BY <1>1, InitInv, NextInv, PTL DEF Spec

\* A sync shown as complete hides no work (markSyncAsCompleteAndStop).
THEOREM CompleteHidesNothing == Spec => []NothingHidden
<1>1. Inv => NothingHidden
  BY DEF Inv
<1> QED BY <1>1, InitInv, NextInv, PTL DEF Spec

\* A task marked complete was delivered to Jira, unless handlers disturbed each other.
THEOREM CompleteWasDelivered == Spec => []CompleteIsDelivered
<1>1. Inv => CompleteIsDelivered
  BY DEF Inv
<1> QED BY <1>1, InitInv, NextInv, PTL DEF Spec
=============================================================================
