------------------------- MODULE ScaleToZeroProofs --------------------------
(***************************************************************************)
(* Proofs about ScaleToZero.tla for any number of requests and any timeouts. *)
(***************************************************************************)
EXTENDS ScaleToZero, TLAPS

\* A request in flight holds the pool it got from the datastore.
ViewInv == \A r \in Request : InFlight(r) => view[r] \in Pool

TypeInv == TypeOK /\ ViewInv

\* The state of a process that has just been started is well typed.
LEMMA InitTypeInv == Init => TypeInv
<1> SUFFICES ASSUME Init PROVE TypeInv
  OBVIOUS
<1> USE ProcessAssumption, ScaleTargetAssumption
<1>1. ActivatorTypeOK
  BY DEF Init, ActivatorInit, ActivatorTypeOK, Label
<1>2. DeactivatorTypeOK /\ overlap \in BOOLEAN
  BY DEF Init, DeactivatorInit, DeactivatorTypeOK
<1>3. ProcessTypeOK
  <2>1. pending \in BOOLEAN
    BY Zenon DEF Init, ProcessInit
  <2> QED
    BY <2>1 DEF Init, ProcessInit, ProcessTypeOK
<1>4. TargetTypeOK
  BY DEF Init, TargetInit, TargetTypeOK
<1>5. ViewInv
  BY DEF Init, ActivatorInit, ViewInv, InFlight
<1> QED
  BY <1>1, <1>2, <1>3, <1>4, <1>5 DEF TypeInv, TypeOK

\* The next-state relation step by step, for the proofs that follow.
LEMMA NextCases ==
  ASSUME [Next]_vars
  PROVE  \/ \E r \in Request : Arrive(r)
         \/ \E r \in Request : Handle(r)
         \/ Deactivate
         \/ Reconcile
         \/ Workload
         \/ Elapse
         \/ Shutdown
         \/ Restart
         \/ UNCHANGED vars
  BY DEF Next, Act

\* Every step keeps the types of the requests' and of the guard's variables;
\* a timer only runs while it is positive.
LEMMA ActivatorTypeStep == TypeInv /\ [Next]_vars => ActivatorTypeOK'
<1> SUFFICES ASSUME TypeInv, [Next]_vars PROVE ActivatorTypeOK'
  OBVIOUS
<1> USE ActivatorAssumption, ProcessAssumption
    DEF TypeInv, TypeOK, ActivatorTypeOK, ProcessTypeOK
<1>1. ASSUME NEW r \in Request, Arrive(r) PROVE ActivatorTypeOK'
  BY <1>1 DEF Arrive, MayActivate, Answer, Goto, guardVars, Label, Answered
<1>2. ASSUME NEW r \in Request, Handle(r) PROVE ActivatorTypeOK'
  <2> USE DEF Goto, GotoTimed, Answer, guardVars, Label, Answered
  <2>1. CASE IsScalingUp(r) \/ WaitDone(r) \/ WaitTimeout(r)
    BY <2>1 DEF IsScalingUp, WaitDone, WaitTimeout
  <2>2. CASE PoolNotAnnotated(r) \/ GetResourceForKindFails(r) \/ ScaleGetFails(r)
    BY <2>2 DEF PoolNotAnnotated, GetResourceForKindFails, ScaleGetFails
  <2>3. CASE ScaleGetReturns(r)
    <3>1. view[r].grace \in Nat
      BY <2>3 DEF ScaleGetReturns, ViewInv, InFlight, PoolType
    <3> QED
      BY <2>3, <3>1 DEF ScaleGetReturns
  <2>4. CASE PollDue(r) \/ PollNotReady(r) \/ PollWithoutStatus(r) \/ PollTimeout(r)
    BY <2>4 DEF PollDue, PollNotReady, PollWithoutStatus, PollTimeout
  <2>5. CASE PollReady(r)
    BY <2>5 DEF PollReady
  <2>6. CASE ScaleInferencePool(r)
    <3>1. scalingUp' \in BOOLEAN
      BY <2>6, Zenon DEF ScaleInferencePool, beginScalingUp
    <3> QED
      BY <2>6, <3>1 DEF ScaleInferencePool, beginScalingUp
  <2>7. CASE ScaleUpdateReturns(r) \/ ScaleUpdateFails(r) \/ Slept(r)
    BY <2>7 DEF ScaleUpdateReturns, ScaleUpdateFails, Slept
  <2>8. CASE EndScalingUp(r)
    <3>1. scalingUp' \in BOOLEAN
      BY <2>8, Zenon DEF EndScalingUp
    <3> QED
      BY <2>8, <3>1 DEF EndScalingUp, ReturnFromScaling
  <2>9. CASE ResetScaleDownDelay(r)
    BY <2>9 DEF ResetScaleDownDelay
  <2> QED
    BY <1>2, <2>1, <2>2, <2>3, <2>4, <2>5, <2>6, <2>7, <2>8, <2>9 DEF Handle, RequestStep
<1>3. CASE Deactivate \/ Reconcile \/ Workload \/ Shutdown \/ UNCHANGED vars
  BY <1>3 DEF Deactivate, Reconcile, Workload, Shutdown, vars, requestVars
<1>4. CASE Elapse
  BY <1>4 DEF Elapse, RequestsElapse, Urgent, Timed, Polling, guardVars, Label
<1>5. CASE Restart
  BY <1>5 DEF Restart, RequestsLost, Label, Answered
<1> QED
  BY <1>1, <1>2, <1>3, <1>4, <1>5, NextCases

\* A request that has passed PoolGet has a pool until it is answered.
LEMMA ViewStep == TypeInv /\ [Next]_vars => ViewInv'
<1> SUFFICES ASSUME TypeInv, [Next]_vars PROVE ViewInv'
  OBVIOUS
<1> USE ActivatorAssumption, ProcessAssumption
    DEF TypeInv, TypeOK, ActivatorTypeOK, ProcessTypeOK, ViewInv, InFlight, Answered
<1>1. ASSUME NEW r \in Request, Arrive(r) PROVE ViewInv'
  BY <1>1 DEF Arrive, MayActivate, Answer, Goto, guardVars
<1>2. ASSUME NEW r \in Request, Handle(r) PROVE ViewInv'
  <2> USE DEF Goto, GotoTimed, Answer
  <2>1. CASE IsScalingUp(r) \/ WaitDone(r) \/ WaitTimeout(r)
    BY <2>1 DEF IsScalingUp, WaitDone, WaitTimeout
  <2>2. CASE \/ PoolNotAnnotated(r) \/ GetResourceForKindFails(r)
             \/ ScaleGetFails(r) \/ ScaleGetReturns(r)
    BY <2>2 DEF PoolNotAnnotated, GetResourceForKindFails, ScaleGetFails, ScaleGetReturns
  <2>3. CASE PollDue(r) \/ PollNotReady(r) \/ PollWithoutStatus(r) \/ PollTimeout(r) \/ PollReady(r)
    BY <2>3 DEF PollDue, PollNotReady, PollWithoutStatus, PollTimeout, PollReady, Polling
  <2>4. CASE ScaleInferencePool(r) \/ ScaleUpdateReturns(r) \/ ScaleUpdateFails(r) \/ Slept(r)
    BY <2>4 DEF ScaleInferencePool, beginScalingUp, ScaleUpdateReturns, ScaleUpdateFails, Slept
  <2>5. CASE EndScalingUp(r) \/ ResetScaleDownDelay(r)
    BY <2>5 DEF EndScalingUp, ReturnFromScaling, ResetScaleDownDelay
  <2> QED
    BY <1>2, <2>1, <2>2, <2>3, <2>4, <2>5 DEF Handle, RequestStep
<1>3. CASE Deactivate \/ Reconcile \/ Workload \/ Shutdown \/ UNCHANGED vars
  BY <1>3 DEF Deactivate, Reconcile, Workload, Shutdown, vars, requestVars
<1>4. CASE Elapse
  BY <1>4 DEF Elapse, RequestsElapse
<1>5. CASE Restart
  BY <1>5 DEF Restart, RequestsLost
<1> QED
  BY <1>1, <1>2, <1>3, <1>4, <1>5, NextCases

\* The steps of a request that reset no ticker and cannot panic.
LEMMA ProcessUnchanged ==
  ASSUME NEW r \in Request, Handle(r),
         ~PollDue(r), ~ResetScaleDownDelay(r), ~EndScalingUp(r), ~PollWithoutStatus(r)
  PROVE  UNCHANGED processVars
  BY DEF Handle, RequestStep, IsScalingUp, WaitDone, WaitTimeout, PoolNotAnnotated,
     GetResourceForKindFails, ScaleGetFails, ScaleGetReturns, PollNotReady, PollReady,
     PollTimeout, ScaleInferencePool, beginScalingUp, ScaleUpdateReturns, ScaleUpdateFails,
     Slept

\* Ticker.Reset with any duration leaves a well-typed ticker, or panics.
LEMMA ResetTickerType ==
  ASSUME ProcessTypeOK, NEW d \in Nat, ResetTicker(d)
  PROVE  ProcessTypeOK'
<1>1. pending' \in BOOLEAN
  BY Zenon DEF ResetTicker, Reset, Panics, ProcessTypeOK
<1> QED
  BY <1>1 DEF ResetTicker, Reset, Panics, ProcessTypeOK, Panic

\* Every step keeps the types of the pool, the ticker and the phase.
LEMMA ProcessTypeStep == TypeInv /\ [Next]_vars => ProcessTypeOK'
<1> SUFFICES ASSUME TypeInv, [Next]_vars PROVE ProcessTypeOK'
  OBVIOUS
<1> USE ProcessAssumption
<1>t. ProcessTypeOK
  BY DEF TypeInv, TypeOK
<1>u. UNCHANGED processVars => ProcessTypeOK'
  BY <1>t DEF ProcessTypeOK, processVars
<1>1. ASSUME NEW r \in Request, Arrive(r) PROVE ProcessTypeOK'
  BY <1>1, <1>u DEF Arrive, MayActivate
<1>2. ASSUME NEW r \in Request, Handle(r) PROVE ProcessTypeOK'
  <2>1. CASE PollDue(r)
    BY <2>1, <1>t, ResetTickerType DEF PollDue
  <2>2. CASE ResetScaleDownDelay(r)
    <3>1. view[r].delay \in Nat
      BY <2>2 DEF ResetScaleDownDelay, TypeInv, ViewInv, InFlight, Answered, PoolType
    <3> QED
      BY <2>2, <3>1, <1>t, ResetTickerType DEF ResetScaleDownDelay
  <2>3. CASE EndScalingUp(r) \/ PollWithoutStatus(r)
    BY <2>3, <1>t, <1>u DEF EndScalingUp, PollWithoutStatus, Panics, ProcessTypeOK, Panic
  <2> QED
    BY <1>2, <2>1, <2>2, <2>3, <1>u, ProcessUnchanged
<1>3. CASE Deactivate
  <2>1. CASE MonitorStart
    BY <2>1, <1>t, ResetTickerType DEF MonitorStart
  <2>2. CASE MonitorStop
    <3>1. pending' \in BOOLEAN
      BY <2>2, Zenon DEF MonitorStop, StopTicker, Reset
    <3> QED
      BY <2>2, <3>1, <1>t DEF MonitorStop, StopTicker, Reset, ProcessTypeOK
  <2>3. CASE MonitorTick \/ MonitorTickSkipped
    <3>1. pending' \in BOOLEAN
      BY <2>3, Zenon DEF MonitorTick, MonitorTickSkipped, ReceiveTick
    <3> QED
      BY <2>3, <3>1, <1>t DEF MonitorTick, MonitorTickSkipped, ReceiveTick, ProcessTypeOK
  <2>4. CASE MonitorTickWithoutPool
    BY <2>4, <1>t DEF MonitorTickWithoutPool, Panics, ProcessTypeOK, Panic
  <2>5. CASE \/ MonitorScaleGet \/ MonitorScaleGetFails
             \/ MonitorScaleUpdate \/ MonitorScaleUpdateFails
    BY <2>5, <1>u DEF MonitorScaleGet, MonitorScaleGetFails, MonitorScaleUpdate,
       MonitorScaleUpdateFails
  <2> QED
    BY <1>3, <2>1, <2>2, <2>3, <2>4, <2>5 DEF Deactivate, MonitorStep
<1>4. CASE Reconcile
  BY <1>4, <1>t DEF Reconcile, PoolSet, ProcessTypeOK
<1>5. CASE Workload \/ UNCHANGED vars
  BY <1>5, <1>u DEF Workload, vars
<1>6. CASE Elapse
  <2>1. pending' \in BOOLEAN
    <3>1. (pending \/ left = 1) \in BOOLEAN
      OBVIOUS
    <3> QED
      BY <1>6, <3>1, Zenon DEF Elapse, TickerElapse
  <2>2. left \in Nat /\ period \in Nat /\ left <= period /\ (left = 0 => period = 0)
    BY <1>t DEF ProcessTypeOK
  <2>3. left' \in 0..period' /\ (left' = 0 => period' = 0)
    BY <1>6, <2>2 DEF Elapse, TickerElapse
  <2> QED
    BY <1>6, <2>1, <2>2, <2>3, <1>t DEF Elapse, TickerElapse, ProcessTypeOK
<1>7. CASE Shutdown
  BY <1>7, <1>t DEF Shutdown, Signal, ProcessTypeOK
<1>8. CASE Restart
  <2>1. pending' \in BOOLEAN
    BY <1>8, Zenon DEF Restart, Reset
  <2> QED
    BY <1>8, <2>1 DEF Restart, Reset, ProcessTypeOK
<1> QED
  BY <1>1, <1>2, <1>3, <1>4, <1>5, <1>6, <1>7, <1>8, NextCases

\* Every step keeps the types of the workload and of the copies of its scale.
LEMMA TargetTypeStep == TypeInv /\ [Next]_vars => TargetTypeOK'
<1> SUFFICES ASSUME TypeInv, [Next]_vars PROVE TargetTypeOK'
  OBVIOUS
<1> USE ScaleTargetAssumption, ActivatorAssumption, DeactivatorAssumption
    DEF TypeInv, TypeOK, TargetTypeOK
<1>u. UNCHANGED targetVars => TargetTypeOK'
  BY DEF targetVars
<1>f. \A c \in Client : ForgetScale(c) => TargetTypeOK'
  BY DEF ForgetScale
<1>1. ASSUME NEW r \in Request, Arrive(r) PROVE TargetTypeOK'
  BY <1>1, <1>u DEF Arrive, MayActivate
<1>2. ASSUME NEW r \in Request, Handle(r) PROVE TargetTypeOK'
  <2>1. CASE ScaleGetReturns(r)
    BY <2>1 DEF ScaleGetReturns, ScaleGet
  <2>2. CASE ScaleInferencePool(r)
    BY <2>2 DEF ScaleInferencePool, beginScalingUp
  <2>3. CASE ScaleUpdateReturns(r)
    BY <2>3 DEF ScaleUpdateReturns, ScaleUpdate
  <2>4. CASE EndScalingUp(r) \/ ResetScaleDownDelay(r)
    BY <2>4, <1>u, <1>f DEF EndScalingUp, ResetScaleDownDelay
  <2>5. CASE \/ IsScalingUp(r) \/ WaitDone(r) \/ WaitTimeout(r)
             \/ PoolNotAnnotated(r) \/ GetResourceForKindFails(r) \/ ScaleGetFails(r)
             \/ PollDue(r) \/ PollNotReady(r) \/ PollWithoutStatus(r)
             \/ PollReady(r) \/ PollTimeout(r)
             \/ ScaleUpdateFails(r) \/ Slept(r)
    BY <2>5, <1>u DEF IsScalingUp, WaitDone, WaitTimeout, PoolNotAnnotated, GetResourceForKindFails,
       ScaleGetFails, PollDue, PollNotReady, PollWithoutStatus, PollReady, PollTimeout,
       ScaleUpdateFails, Slept
  <2> QED
    BY <1>2, <2>1, <2>2, <2>3, <2>4, <2>5 DEF Handle, RequestStep
<1>3. CASE Deactivate
  <2>1. CASE MonitorScaleGet
    BY <2>1 DEF MonitorScaleGet
  <2>2. CASE MonitorScaleUpdate
    BY <2>2 DEF MonitorScaleUpdate, ScaleUpdate
  <2>3. CASE MonitorScaleUpdateFails
    BY <2>3, <1>f DEF MonitorScaleUpdateFails
  <2>4. CASE \/ MonitorStart \/ MonitorStop \/ MonitorTick \/ MonitorTickSkipped
             \/ MonitorTickWithoutPool \/ MonitorScaleGetFails
    BY <2>4, <1>u DEF MonitorStart, MonitorStop, MonitorTick, MonitorTickSkipped,
       MonitorTickWithoutPool, MonitorScaleGetFails
  <2> QED
    BY <1>3, <2>1, <2>2, <2>3, <2>4 DEF Deactivate, MonitorStep
<1>4. CASE Reconcile \/ Elapse \/ Shutdown \/ UNCHANGED vars
  BY <1>4, <1>u DEF Reconcile, Elapse, Shutdown, vars
<1>5. CASE Workload
  BY <1>5 DEF Workload, PodReady, PodGone, OutsideScale
<1>6. CASE Restart
  BY <1>6 DEF Restart
<1> QED
  BY <1>1, <1>2, <1>3, <1>4, <1>5, <1>6, NextCases

\* Every step keeps the types of the deactivator's state and of the history.
LEMMA DeactivatorTypeStep == TypeInv /\ [Next]_vars => DeactivatorTypeOK' /\ overlap' \in BOOLEAN
<1> SUFFICES ASSUME TypeInv, [Next]_vars
             PROVE  DeactivatorTypeOK' /\ overlap' \in BOOLEAN
  OBVIOUS
<1>1. DeactivatorTypeOK'
  <2> USE DEF TypeInv, TypeOK, DeactivatorTypeOK
  <2>1. CASE Deactivate
    BY <2>1 DEF Deactivate, MonitorStep, MonitorStart, MonitorStop, MonitorTick,
       MonitorTickSkipped, MonitorTickWithoutPool, MonitorScaleGet, MonitorScaleGetFails,
       MonitorScaleUpdate, MonitorScaleUpdateFails
  <2> QED
    BY <2>1, NextCases DEF Arrive, Handle, Reconcile, Workload, Elapse, Shutdown, Restart, vars
<1>2. overlap' \in BOOLEAN
  <2>1. ASSUME NEW r \in Request, Handle(r) PROVE overlap' \in BOOLEAN
    <3>1. (overlap \/ (scaler # {} /\ ~(scaler' \subseteq scaler))) \in BOOLEAN
      OBVIOUS
    <3> QED
      BY <2>1, <3>1, Zenon DEF Handle
  <2>2. CASE Restart
    BY <2>2, Zenon DEF Restart
  <2> QED
    BY <2>1, <2>2, NextCases
       DEF TypeInv, TypeOK, Arrive, Deactivate, Reconcile, Workload, Elapse, Shutdown, vars
<1> QED
  BY <1>1, <1>2

\* The types hold, and requests have their pools, in every reachable state.
LEMMA TypeInvariance == Spec => []TypeInv
<1>1. TypeInv /\ [Next]_vars => TypeInv'
  BY ActivatorTypeStep, ViewStep, ProcessTypeStep, TargetTypeStep, DeactivatorTypeStep
     DEF TypeInv, TypeOK
<1> QED
  BY InitTypeInv, <1>1, PTL DEF Spec

(* Every variable keeps its type for any number of requests and any          *)
(* timeouts: no timer of a request or of the ticker runs below zero, and a   *)
(* request never uses a pool it does not have.                               *)
THEOREM TypeCorrect == Spec => []TypeOK
<1>1. TypeInv => TypeOK
  BY DEF TypeInv
<1> QED
  BY TypeInvariance, <1>1, PTL
=============================================================================
