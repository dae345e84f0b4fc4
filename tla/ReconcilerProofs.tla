-------------------------- MODULE ReconcilerProofs --------------------------
(***************************************************************************)
(* Proofs about Reconciler.tla for any pools and any number of changes.    *)
(* With TypeOK, NoEventLost is inductive.                                  *)
(***************************************************************************)
EXTENDS Reconciler, TLAPS

\* The two flags of the work queue stay Booleans through every step.
LEMMA FlagStep == TypeOK /\ [Next]_vars => queued' \in BOOLEAN /\ busy' \in BOOLEAN
<1> SUFFICES ASSUME TypeOK, [Next]_vars PROVE queued' \in BOOLEAN /\ busy' \in BOOLEAN
  OBVIOUS
<1>t. queued \in BOOLEAN /\ busy \in BOOLEAN
  BY DEF TypeOK
<1>1. ASSUME NEW f \in BOOLEAN, Return(f) PROVE queued' \in BOOLEAN /\ busy' \in BOOLEAN
  <2>1. (queued \/ f) \in BOOLEAN
    OBVIOUS
  <2> QED
    BY <1>1, <2>1, Zenon DEF Return
<1>2. CASE Reconcile
  BY <1>1, <1>2 DEF Reconcile, Clear, PoolSet, ConvertFails, GetFails
<1>3. CASE Write \/ UNCHANGED vars
  BY <1>3, <1>t DEF Write, vars
<1>4. CASE Deliver
  BY <1>4, <1>t, Zenon DEF Deliver
<1>5. CASE Get
  BY <1>5, Zenon DEF Get
<1>6. CASE Restart
  BY <1>6, Zenon DEF Restart
<1> QED
  BY <1>2, <1>3, <1>4, <1>5, <1>6 DEF Next

\* Every variable keeps its type.
LEMMA TypeStep == TypeOK /\ [Next]_vars => TypeOK'
<1> SUFFICES ASSUME TypeOK, [Next]_vars PROVE TypeOK'
  OBVIOUS
<1>f. queued' \in BOOLEAN /\ busy' \in BOOLEAN
  BY FlagStep
<1> USE <1>f, ReconcilerAssumption DEF TypeOK
<1>1. CASE Write
  <2>1. object' \in Object \cup {Absent}
    BY <1>1 DEF Write, Object, Absent
  <2> QED
    BY <1>1, <2>1 DEF Write
<1>2. CASE Deliver \/ Get
  BY <1>2 DEF Deliver, Get
<1>3. CASE Reconcile
  BY <1>3 DEF Reconcile, Clear, PoolSet, ConvertFails, GetFails, Return, Object, Absent
<1>4. CASE Restart \/ UNCHANGED vars
  BY <1>4 DEF Restart, vars
<1> QED
  BY <1>1, <1>2, <1>3, <1>4 DEF Next

\* No step leaves the datastore behind the cache without a Reconcile due.
LEMMA NoEventLostStep == TypeOK /\ NoEventLost /\ [Next]_vars => NoEventLost'
<1> SUFFICES ASSUME TypeOK, NoEventLost, [Next]_vars PROVE NoEventLost'
  OBVIOUS
<1> USE DEF NoEventLost, Image
<1>1. CASE Write \/ UNCHANGED vars
  <2>1. UNCHANGED <<cached, queued, read, busy, stored>>
    BY <1>1, Zenon DEF Write, vars
  <2> QED
    BY <2>1
<1>2. CASE Deliver \/ Get
  BY <1>2 DEF Deliver, Get
<1>3. CASE Clear
  <2>1. ~busy' /\ stored' = NoPool /\ cached' = cached /\ busy
    BY <1>3 DEF Clear, Return
  <2>2. ~queued' => ~queued
    BY <1>3, Zenon DEF Clear, Return
  <2>3. CASE read = Absent
    <3>1. Image(read) = NoPool
      BY <2>3 DEF Absent
    <3> QED
      BY <2>1, <2>2, <3>1
  <2>4. CASE read.deleting
    <3>1. Image(read) = NoPool
      BY <2>4
    <3> QED
      BY <2>1, <2>2, <3>1
  <2> QED
    BY <1>3, <2>3, <2>4 DEF Clear
<1>4. CASE PoolSet
  <2>1. ~busy' /\ stored' = read.pool /\ cached' = cached /\ busy /\ ~read.deleting
    BY <1>4 DEF PoolSet, Return
  <2>2. ~queued' => ~queued
    BY <1>4, Zenon DEF PoolSet, Return
  <2> QED
    BY <2>1, <2>2
<1>5. CASE ConvertFails \/ GetFails
  BY <1>5 DEF ConvertFails, GetFails, Return
<1>6. CASE Restart
  BY <1>6 DEF Restart, Absent
<1> QED
  BY <1>1, <1>2, <1>3, <1>4, <1>5, <1>6 DEF Next, Reconcile

\* The cache and the datastore of a process that has just been started agree.
LEMMA InitInv == Init => TypeOK /\ NoEventLost
<1> SUFFICES ASSUME Init PROVE TypeOK /\ NoEventLost
  OBVIOUS
<1>1. queued \in BOOLEAN /\ busy \in BOOLEAN
  BY Zenon DEF Init
<1>2. object \in Object \cup {Absent}
  BY DEF Init
<1>3. writes \in 0..MaxWrites
  BY ReconcilerAssumption DEF Init
<1>4. TypeOK
  BY <1>1, <1>2, <1>3 DEF Init, TypeOK
<1>5. Image(Absent) = NoPool
  BY DEF Image, Absent
<1> QED
  BY <1>4, <1>5 DEF Init, NoEventLost

(* Whenever the datastore differs from what the informer last delivered, a   *)
(* Reconcile that will see the difference is queued or running.              *)
THEOREM EventsAreNotLost == Spec => []NoEventLost
<1>1. TypeOK /\ NoEventLost /\ [Next]_vars => TypeOK' /\ NoEventLost'
  BY TypeStep, NoEventLostStep
<1> QED
  BY InitInv, <1>1, PTL DEF Spec
=============================================================================
