--------------------------- MODULE ReplicasProofs ---------------------------
(***************************************************************************)
(* Proofs about Replicas.tla for any set of replicas.                      *)
(***************************************************************************)
EXTENDS Replicas, TLAPS

\* With leader election, what a process believes of itself, the pool only its
\* reconciler can store, and what is done with it, do not outlive the lease.
LeaseInv ==
  /\ ~leaderElectionEnabled => holder = NoHolder
  /\ leaderElectionEnabled =>
       \A p \in Replica :
         /\ leading[p] => Running(p) /\ holder = p
         /\ isLeader[p] \/ pool[p] \/ acting[p] => leading[p]
  /\ leaderElectionEnabled => ~stray

Inv == TypeOK /\ LeaseInv

\* Before the first start nobody leads.
LEMMA InitInv == Init => Inv
<1> SUFFICES ASSUME Init PROVE Inv
  OBVIOUS
<1>1. /\ leaderElectionEnabled \in BOOLEAN /\ object \in BOOLEAN
      /\ stray \in BOOLEAN /\ calm \in BOOLEAN
      /\ leading \in [Replica -> BOOLEAN]
      /\ isLeader \in [Replica -> BOOLEAN]
      /\ pool \in [Replica -> BOOLEAN]
      /\ acting \in [Replica -> BOOLEAN]
  BY Zenon DEF Init
<1>2. TypeOK
  BY <1>1 DEF Init, TypeOK
<1>3. LeaseInv
  BY DEF Init, LeaseInv, Running
<1> QED
  BY <1>2, <1>3 DEF Inv

\* The end of a process takes its beliefs and its pool along.
LEMMA EndsInv ==
  ASSUME Inv, NEW p \in Replica, NEW lease \in {NoHolder, Expiring},
         Running(p), Ends(p, lease)
  PROVE  Inv'
<1> USE DEF Inv, Ends
<1>1. TypeOK'
  BY DEF TypeOK
<1>2. LeaseInv'
  BY ReplicasAssumption DEF LeaseInv, TypeOK, Running
<1> QED
  BY <1>1, <1>2

\* Every step keeps the invariant.
LEMMA InvStep == Inv /\ [Next]_vars => Inv'
<1> SUFFICES ASSUME Inv, [Next]_vars PROVE Inv'
  OBVIOUS
<1> USE ReplicasAssumption DEF Inv, electionVars, actVars
<1>1. CASE Write \/ CalmDown
  <2>1. object' \in BOOLEAN /\ calm' \in BOOLEAN
    BY <1>1, Zenon DEF Write, CalmDown, TypeOK
  <2> QED
    BY <1>1, <2>1 DEF Write, CalmDown, TypeOK, LeaseInv, Running
<1>2. CASE ExpireLease
  BY <1>2 DEF ExpireLease, TypeOK, LeaseInv, Running
<1>3. ASSUME NEW p \in Replica, Start(p)
      PROVE  Inv'
  <2>1. (~leaderElectionEnabled) \in BOOLEAN
    OBVIOUS
  <2>2. TypeOK'
    BY <1>3, <2>1 DEF Start, TypeOK
  <2>3. ~leaderElectionEnabled => LeaseInv'
    BY <1>3 DEF Start, TypeOK, LeaseInv
  <2>4. leaderElectionEnabled => LeaseInv'
    BY <1>3 DEF Start, TypeOK, LeaseInv, Running
  <2> QED
    BY <2>2, <2>3, <2>4
<1>4. ASSUME NEW p \in Replica, AcquireLease(p) \/ StartLeading(p) \/ Elected(p)
      PROVE  Inv'
  <2>1. CASE AcquireLease(p)
    BY <2>1 DEF AcquireLease, TypeOK, LeaseInv, Running
  <2>2. CASE StartLeading(p)
    BY <2>2 DEF StartLeading, TypeOK, LeaseInv, Running
  <2>3. CASE Elected(p)
    BY <2>3 DEF Elected, TypeOK, LeaseInv, Running
  <2> QED
    BY <1>4, <2>1, <2>2, <2>3
<1>5. ASSUME NEW p \in Replica, Reconcile(p)
      PROVE  Inv'
  BY <1>5 DEF Reconcile, TypeOK, LeaseInv, Running, Runs, NeedLeaderElection
<1>6. ASSUME NEW p \in Replica, Handle(p) \/ Tick(p)
      PROVE  Inv'
  <2>1. acting' = acting \/ (pool[p] /\ acting' = [acting EXCEPT ![p] = TRUE])
    BY <1>6 DEF Handle, Tick
  <2>2. UNCHANGED <<electionVars, pool, object, calm, stray>>
    BY <1>6 DEF Handle, Tick
  <2>3. TypeOK'
    BY <2>1, <2>2 DEF TypeOK
  <2>4. LeaseInv'
    BY <2>1, <2>2 DEF TypeOK, LeaseInv, Running
  <2> QED
    BY <2>3, <2>4
<1>10. ASSUME NEW p \in Replica, Scale(p)
       PROVE  Inv'
  <2>1. stray' \in BOOLEAN
    BY <1>10, Zenon DEF Scale, TypeOK
  <2>2. leaderElectionEnabled => holder = p
    BY <1>10 DEF Scale, LeaseInv
  <2>3. leaderElectionEnabled => ~stray'
    BY <1>10, <2>2, Zenon DEF Scale, LeaseInv
  <2> QED
    BY <1>10, <2>1, <2>3 DEF Scale, TypeOK, LeaseInv, Running
<1>7. ASSUME NEW p \in Replica, Signal(p) \/ LoseLease(p)
      PROVE  Inv'
  BY <1>7 DEF Signal, LoseLease, TypeOK, LeaseInv, Running
<1>8. ASSUME NEW p \in Replica, Crash(p) \/ TickWithoutPool(p) \/ Exit(p) \/ ExitLost(p)
      PROVE  Inv'
  BY <1>8, EndsInv DEF Crash, TickWithoutPool, Exit, ExitLost, Running
<1>9. CASE UNCHANGED vars
  BY <1>9 DEF vars, TypeOK, LeaseInv, Running
<1> QED
  BY <1>1, <1>2, <1>3, <1>4, <1>5, <1>6, <1>7, <1>8, <1>9, <1>10 DEF Next, Disturbance

\* The invariant holds in every reachable state.
LEMMA Invariance == Spec => []Inv
  BY InitInv, InvStep, PTL DEF Spec

(* Check and List report readiness on the holder of the lease only, for any  *)
(* number of replicas.                                                       *)
THEOREM OnlyLeaderServes == Spec => []ServingOnlyOnLeader
<1>1. Inv => ServingOnlyOnLeader
  <2> SUFFICES ASSUME Inv, leaderElectionEnabled, NEW p \in Replica, Runs(p, "health"),
                      \/ \E service \in {ReadinessCheckService, "", ExternalProcessor} :
                           Check(p, service) = "SERVING"
                      \/ List(p)[ReadinessCheckService] = "SERVING"
               PROVE  holder = p
    BY DEF ServingOnlyOnLeader
  <2>1. \E service \in {ReadinessCheckService, "", ExternalProcessor} :
          Check(p, service) = "SERVING"
    <3> DEFINE services ==
          {ExternalProcessor} \cup
          (IF leaderElectionEnabled THEN {LivenessCheckService, ReadinessCheckService} ELSE {})
    <3>1. ReadinessCheckService \in services
      OBVIOUS
    <3> HIDE DEF services
    <3>2. [service \in services |-> Check(p, service)][ReadinessCheckService]
            = Check(p, ReadinessCheckService)
      BY <3>1
    <3>3. List(p)[ReadinessCheckService] = Check(p, ReadinessCheckService)
      BY <3>2 DEF List, services
    <3> QED
      BY <3>3
  <2>2. isLeader[p]
    BY <2>1 DEF Check, Status, ReadinessCheckService, ExternalProcessor, LivenessCheckService
  <2> QED
    BY <2>2 DEF Inv, LeaseInv
<1> QED
  BY Invariance, <1>1, PTL

(* Whatever the order of elections, requests, ticks, late writes and ends of *)
(* processes, only the holder of the lease writes the scale subresource.     *)
THEOREM OnlyLeaderScales == Spec => []SoleScaler
<1>1. Inv => SoleScaler
  BY DEF Inv, LeaseInv, SoleScaler
<1> QED
  BY Invariance, <1>1, PTL
=============================================================================
