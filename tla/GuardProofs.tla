---------------------------- MODULE GuardProofs -----------------------------
(***************************************************************************)
(* Proofs about scalingUp and guard, for any number of requests, whatever  *)
(* the API server, the reconciler and the deactivator do.                  *)
(***************************************************************************)
EXTENDS ScaleToZeroProofs

\* Between beginScalingUp and endScalingUp, whatever the poll is doing.
Scaling == {"update", "sleep", "endOk", "endFail"}

\* The goroutines inside scaleInferencePool are the members of scaler, and a
\* closed channel was made by one of them or by a request that has left it.
ScalerInv ==
  \A r \in Request :
    /\ r \in scaler => pc[r] \in Scaling \cup Polling
    /\ pc[r] \in Scaling => r \in scaler
    /\ r \in closed => r \in scaler \/ pc[r] \in {"reset"} \cup Answered

GuardInv == TypeInv /\ ScalerInv /\ GuardOwned

\* Nobody scales up in a process that has just been started.
LEMMA InitGuardInv == Init => ScalerInv /\ GuardOwned /\ SoloScaling
<1> SUFFICES ASSUME Init PROVE ScalerInv /\ GuardOwned /\ SoloScaling
  OBVIOUS
<1> USE DEF Init, ActivatorInit, ProcessInit
<1>1. ScalerInv
  BY DEF ScalerInv, Scaling
<1>2. GuardOwned
  BY DEF GuardOwned
<1>3. SoloScaling
  BY DEF SoloScaling
<1> QED
  BY <1>1, <1>2, <1>3

\* The steps of a request that leave the guard alone.
LEMMA GuardUnchanged ==
  ASSUME NEW r \in Request, Handle(r), ~ScaleInferencePool(r), ~EndScalingUp(r)
  PROVE  UNCHANGED guardVars
  BY DEF Handle, RequestStep, IsScalingUp, WaitDone, WaitTimeout, PoolNotAnnotated,
     GetResourceForKindFails, ScaleGetFails, ScaleGetReturns, PollDue, PollNotReady,
     PollWithoutStatus, PollReady, PollTimeout, ScaleUpdateReturns, ScaleUpdateFails, Slept,
     ResetScaleDownDelay

\* A request is a scaler exactly between beginScalingUp and endScalingUp.
LEMMA ScalerStep == GuardInv /\ [Next]_vars => ScalerInv'
<1> SUFFICES ASSUME GuardInv, [Next]_vars PROVE ScalerInv'
  OBVIOUS
<1> USE DEF GuardInv, TypeInv, TypeOK, ActivatorTypeOK, ScalerInv, Scaling, Polling, Answered
<1>1. ASSUME NEW r \in Request, Arrive(r) PROVE ScalerInv'
  BY <1>1 DEF Arrive, MayActivate, Answer, Goto, guardVars
<1>2. ASSUME NEW r \in Request, Handle(r) PROVE ScalerInv'
  <2> USE DEF Goto, GotoTimed, Answer, guardVars
  <2>1. CASE IsScalingUp(r) \/ WaitDone(r) \/ WaitTimeout(r)
    BY <2>1 DEF IsScalingUp, WaitDone, WaitTimeout
  <2>2. CASE \/ PoolNotAnnotated(r) \/ GetResourceForKindFails(r)
             \/ ScaleGetFails(r) \/ ScaleGetReturns(r)
    BY <2>2 DEF PoolNotAnnotated, GetResourceForKindFails, ScaleGetFails, ScaleGetReturns
  <2>3. CASE PollDue(r) \/ PollNotReady(r) \/ PollWithoutStatus(r)
    BY <2>3 DEF PollDue, PollNotReady, PollWithoutStatus
  <2>4. CASE PollReady(r) \/ PollTimeout(r)
    BY <2>4 DEF PollReady, PollTimeout
  <2>5. CASE ScaleInferencePool(r)
    BY <2>5 DEF ScaleInferencePool, beginScalingUp
  <2>6. CASE ScaleUpdateReturns(r) \/ ScaleUpdateFails(r) \/ Slept(r)
    BY <2>6 DEF ScaleUpdateReturns, ScaleUpdateFails, Slept
  <2>7. CASE EndScalingUp(r)
    BY <2>7 DEF EndScalingUp, ReturnFromScaling, GuardOwned
  <2>8. CASE ResetScaleDownDelay(r)
    BY <2>8 DEF ResetScaleDownDelay
  <2> QED
    BY <1>2, <2>1, <2>2, <2>3, <2>4, <2>5, <2>6, <2>7, <2>8 DEF Handle, RequestStep
<1>3. CASE Deactivate \/ Reconcile \/ Workload \/ Shutdown \/ UNCHANGED vars
  BY <1>3 DEF Deactivate, Reconcile, Workload, Shutdown, vars, requestVars
<1>4. CASE Elapse
  BY <1>4 DEF Elapse, RequestsElapse, guardVars
<1>5. CASE Restart
  BY <1>5 DEF Restart, RequestsLost
<1> QED
  BY <1>1, <1>2, <1>3, <1>4, <1>5, NextCases

\* beginScalingUp and endScalingUp change the flag and the channel together.
LEMMA GuardOwnedStep == GuardInv /\ [Next]_vars => GuardOwned'
<1> SUFFICES ASSUME GuardInv, [Next]_vars PROVE GuardOwned'
  OBVIOUS
<1> USE ActivatorAssumption DEF GuardInv, GuardOwned
<1>u. UNCHANGED guardVars => GuardOwned'
  BY DEF guardVars
<1>1. ASSUME NEW r \in Request, Handle(r) PROVE GuardOwned'
  <2>1. CASE ScaleInferencePool(r)
    <3>1. r # NoGuard /\ r \notin closed
      BY <2>1 DEF ScaleInferencePool, beginScalingUp, ScalerInv, Scaling, Polling, Answered
    <3> QED
      BY <2>1, <3>1 DEF ScaleInferencePool, beginScalingUp
  <2>2. CASE EndScalingUp(r)
    BY <2>2 DEF EndScalingUp
  <2> QED
    BY <1>1, <2>1, <2>2, <1>u, GuardUnchanged
<1>2. CASE Restart
  BY <1>2 DEF Restart, RequestsLost
<1> QED
  BY <1>1, <1>2, <1>u, NextCases
     DEF Arrive, MayActivate, Deactivate, Reconcile, Workload, Elapse, RequestsElapse,
         Shutdown, vars, requestVars, guardVars

\* The invariant of the guard holds in every reachable state.
LEMMA GuardInvariance == Spec => []GuardInv
<1>1. GuardInv /\ [Next]_vars /\ TypeInv' => GuardInv'
  BY ScalerStep, GuardOwnedStep DEF GuardInv
<1>2. Init /\ TypeInv => GuardInv
  BY InitGuardInv DEF GuardInv
<1> QED
  BY TypeInvariance, <1>1, <1>2, PTL DEF Spec

(* scalingUp is true exactly when there is a guard, and the guard is the     *)
(* open channel of a request that is still scaling: endScalingUp closes no   *)
(* channel twice, and no request waits on a scale-up that has been given up. *)
THEOREM GuardAlwaysOwned == Spec => []GuardOwned
<1>1. GuardInv => GuardOwned
  BY DEF GuardInv
<1> QED
  BY GuardInvariance, <1>1, PTL

-----------------------------------------------------------------------------
\* Until two scale-ups overlap, every step keeps the guard that of the one
\* scaler, and every waiter on a channel that is or will be closed.
LEMMA SoloStep == GuardInv /\ SoloScaling /\ [Next]_vars => SoloScaling'
<1> SUFFICES ASSUME GuardInv, SoloScaling, [Next]_vars, ~overlap'
             PROVE  SoloScaling'
  BY DEF SoloScaling
<1> USE DEF SoloScaling, GuardInv, TypeInv, TypeOK, ActivatorTypeOK
<1>1. ASSUME NEW r \in Request, Arrive(r) PROVE SoloScaling'
  BY <1>1 DEF Arrive, MayActivate, Answer, Goto, guardVars, processVars
<1>2. ASSUME NEW r \in Request, Handle(r) PROVE SoloScaling'
  <2>0. ~overlap
    BY <1>2 DEF Handle
  <2> USE <2>0 DEF Goto, GotoTimed, Answer, guardVars, processVars
  <2>1. CASE IsScalingUp(r)
    BY <2>1 DEF IsScalingUp, GuardOwned
  <2>2. CASE WaitDone(r) \/ WaitTimeout(r)
    BY <2>2 DEF WaitDone, WaitTimeout
  <2>3. CASE \/ PoolNotAnnotated(r) \/ GetResourceForKindFails(r)
             \/ ScaleGetFails(r) \/ ScaleGetReturns(r)
    BY <2>3 DEF PoolNotAnnotated, GetResourceForKindFails, ScaleGetFails, ScaleGetReturns
  <2>4. CASE PollDue(r)
    BY <2>4 DEF PollDue, ResetTicker, Panics
  <2>5. CASE PollNotReady(r) \/ PollWithoutStatus(r) \/ PollReady(r) \/ PollTimeout(r)
    BY <2>5 DEF PollNotReady, PollWithoutStatus, Panics, PollReady, PollTimeout
  <2>6. CASE ScaleInferencePool(r)
    <3>1. r \notin scaler
      BY <2>6 DEF ScaleInferencePool, beginScalingUp, ScalerInv, Scaling, Polling
    <3>2. scaler = {}
      BY <1>2, <2>6, <3>1 DEF Handle, ScaleInferencePool, beginScalingUp
    <3> QED
      BY <2>6, <3>2 DEF ScaleInferencePool, beginScalingUp
  <2>7. CASE ScaleUpdateReturns(r) \/ ScaleUpdateFails(r) \/ Slept(r)
    BY <2>7 DEF ScaleUpdateReturns, ScaleUpdateFails, Slept
  <2>8. CASE EndScalingUp(r)
    <3>1. r \in scaler
      BY <2>8 DEF EndScalingUp, ScalerInv, Scaling
    <3>2. scaler = {r} /\ guard = r
      BY <3>1
    <3>3. guard # NoGuard
      BY <3>2, ActivatorAssumption
    <3> QED
      BY <2>8, <3>2, <3>3 DEF EndScalingUp, ReturnFromScaling
  <2>9. CASE ResetScaleDownDelay(r)
    BY <2>9 DEF ResetScaleDownDelay, ResetTicker, Panics
  <2> QED
    BY <1>2, <2>1, <2>2, <2>3, <2>4, <2>5, <2>6, <2>7, <2>8, <2>9 DEF Handle, RequestStep
<1>3. CASE Deactivate
  <2>1. phase' # "closeOfNilChannel" \/ phase' = phase
    BY <1>3 DEF Deactivate, MonitorStep, MonitorStart, MonitorStop, MonitorTick,
       MonitorTickSkipped, MonitorTickWithoutPool, MonitorScaleGet, MonitorScaleGetFails,
       MonitorScaleUpdate, MonitorScaleUpdateFails, ResetTicker, StopTicker, Panics, processVars
  <2> QED
    BY <1>3, <2>1 DEF Deactivate, requestVars
<1>4. CASE Reconcile \/ Workload \/ Shutdown \/ UNCHANGED vars
  BY <1>4 DEF Reconcile, PoolSet, Workload, Shutdown, Signal, vars, requestVars, processVars
<1>5. CASE Elapse
  BY <1>5 DEF Elapse, RequestsElapse, guardVars
<1>6. CASE Restart
  BY <1>6 DEF Restart, RequestsLost, Answered
<1> QED
  BY <1>1, <1>2, <1>3, <1>4, <1>5, <1>6, NextCases

(* Without overlapping scale-ups the guard works as meant: endScalingUp      *)
(* closes the channel its own request made, never a nil one, and whoever     *)
(* waits will be released by the request that scales.                        *)
THEOREM SoloScalingSafe == Spec => []SoloScaling
<1>1. Init => SoloScaling
  BY InitGuardInv
<1> QED
  BY GuardInvariance, SoloStep, <1>1, PTL DEF Spec

-----------------------------------------------------------------------------
\* A process that runs panics for the reason it gives; one that has panicked
\* stays as it is until it is restarted.
LEMMA PanicStep == GuardInv /\ SoloScaling /\ PanicsExplained /\ [Next]_vars => PanicsExplained'
<1> SUFFICES ASSUME GuardInv, SoloScaling, PanicsExplained, [Next]_vars, phase' \in Panic
             PROVE  PanicsExplained'
  BY DEF PanicsExplained, Panic
<1>u. ASSUME UNCHANGED <<requestVars, pool, phase, overlap>> PROVE PanicsExplained'
  BY <1>u DEF PanicsExplained, requestVars
<1>1. ASSUME NEW r \in Request, Arrive(r) PROVE FALSE
  BY <1>1 DEF Arrive, MayActivate, processVars, Panic
<1>2. ASSUME NEW r \in Request, Handle(r) PROVE PanicsExplained'
  <2>0. phase \notin Panic
    BY <1>2 DEF Handle, RequestStep, Alive, Panic
  <2>1. CASE PollDue(r)
    BY <2>0, <2>1, ProcessAssumption DEF PollDue, ResetTicker
  <2>2. CASE ResetScaleDownDelay(r)
    <3>1. /\ UNCHANGED <<pc, view>> /\ pc[r] = "reset" /\ view[r].delay = 0
          /\ phase' = "nonPositivePeriod"
      BY <2>0, <2>2 DEF ResetScaleDownDelay, ResetTicker, Panics
    <3> QED
      BY <3>1 DEF PanicsExplained
  <2>3. CASE EndScalingUp(r)
    <3>1. guard = NoGuard /\ phase' = "closeOfNilChannel"
      BY <2>0, <2>3 DEF EndScalingUp, Panics, processVars
    <3>2. r \in scaler
      BY <2>3 DEF EndScalingUp, GuardInv, ScalerInv, Scaling
    <3>3. overlap
      BY <3>1, <3>2, ActivatorAssumption DEF SoloScaling
    <3> QED
      BY <1>2, <3>1, <3>3 DEF Handle, PanicsExplained
  <2>4. CASE PollWithoutStatus(r)
    <3>1. /\ UNCHANGED pc /\ pc[r] \in {"get", "getLate"} /\ StatusOptional
          /\ phase' = "noStatus"
      BY <2>4 DEF PollWithoutStatus, Panics
    <3> QED
      BY <3>1 DEF PanicsExplained
  <2> QED
    BY <1>2, <2>0, <2>1, <2>2, <2>3, <2>4, ProcessUnchanged DEF processVars
<1>3. CASE Deactivate
  <2>0. phase \notin Panic
    BY <1>3 DEF Deactivate, MonitorStep, Alive, Panic
  <2>1. CASE MonitorTickWithoutPool
    BY <2>1 DEF MonitorTickWithoutPool, Panics, PanicsExplained
  <2> QED
    BY <1>3, <2>0, <2>1, ProcessAssumption
       DEF Deactivate, MonitorStep, MonitorStart, MonitorStop, MonitorTick, MonitorTickSkipped,
           MonitorScaleGet, MonitorScaleGetFails, MonitorScaleUpdate, MonitorScaleUpdateFails,
           ResetTicker, StopTicker, processVars
<1>4. CASE Reconcile \/ Shutdown \/ Restart
  BY <1>4 DEF Reconcile, PoolSet, Shutdown, Signal, Restart, Panic
<1>5. CASE Workload \/ UNCHANGED vars
  BY <1>5, <1>u DEF Workload, processVars, vars
<1>6. CASE Elapse
  BY <1>6 DEF Elapse, Alive, Panic
<1> QED
  BY <1>1, <1>2, <1>3, <1>4, <1>5, <1>6, NextCases

(* Every panic of the process has its own cause and no other: closing a nil  *)
(* channel overlapping scale-ups, a nil pointer a tick without a pool, a     *)
(* non-positive period a scale-down delay of zero, the type assertion a      *)
(* target without status.                                                    *)
THEOREM PanicsAreExplained == Spec => []PanicsExplained
<1>1. Init => PanicsExplained
  BY DEF Init, ProcessInit, PanicsExplained, Panic
<1> QED
  BY GuardInvariance, SoloScalingSafe, PanicStep, <1>1, PTL DEF Spec

-----------------------------------------------------------------------------
\* Only steps of r itself and the passing of time change where r stands.
LEMMA OthersStay ==
  ASSUME GuardInv, NEW r \in Request, Arrive(r) \/ Handle(r), NEW q \in Request \ {r}
  PROVE  /\ pc'[q] = pc[q] /\ timer'[q] = timer[q] /\ view'[q] = view[q]
         /\ waitOn'[q] = waitOn[q]
         /\ q \in scaler' <=> q \in scaler
<1>t. /\ pc \in [Request -> Label] /\ timer \in [Request -> Nat]
      /\ view \in [Request -> Pool \cup {NoPool}]
      /\ waitOn \in [Request -> Request \cup {NoGuard}]
  BY DEF GuardInv, TypeInv, TypeOK, ActivatorTypeOK
<1> USE <1>t DEF Goto, GotoTimed, Answer, guardVars
<1>1. CASE Arrive(r)
  BY <1>1 DEF Arrive, MayActivate
<1>2. CASE IsScalingUp(r) \/ WaitDone(r) \/ WaitTimeout(r)
  BY <1>2 DEF IsScalingUp, WaitDone, WaitTimeout
<1>3. CASE \/ PoolNotAnnotated(r) \/ GetResourceForKindFails(r)
           \/ ScaleGetFails(r) \/ ScaleGetReturns(r)
  BY <1>3 DEF PoolNotAnnotated, GetResourceForKindFails, ScaleGetFails, ScaleGetReturns
<1>4. CASE PollDue(r) \/ PollNotReady(r) \/ PollWithoutStatus(r) \/ PollReady(r) \/ PollTimeout(r)
  BY <1>4 DEF PollDue, PollNotReady, PollWithoutStatus, PollReady, PollTimeout
<1>5. CASE ScaleInferencePool(r) \/ ScaleUpdateReturns(r) \/ ScaleUpdateFails(r) \/ Slept(r)
  BY <1>5 DEF ScaleInferencePool, beginScalingUp, ScaleUpdateReturns, ScaleUpdateFails, Slept
<1>6. CASE EndScalingUp(r) \/ ResetScaleDownDelay(r)
  BY <1>6 DEF EndScalingUp, ReturnFromScaling, ResetScaleDownDelay
<1> QED
  BY <1>1, <1>2, <1>3, <1>4, <1>5, <1>6 DEF Handle, RequestStep

\* To the latch, a step of r is a step of r alone.
LEMMA LatchFrame ==
  ASSUME GuardInv, NEW r \in Request, Arrive(r) \/ Handle(r)
  PROVE  /\ role' = [role EXCEPT ![r] = role'[r]]
         /\ joined' = [joined EXCEPT ![r] = joined'[r]]
         /\ patience' = [patience EXCEPT ![r] = patience'[r]]
<1>1. \A q \in Request \ {r} : /\ role'[q] = role[q]
                               /\ joined'[q] = joined[q]
                               /\ patience'[q] = patience[q]
  BY OthersStay DEF role, joined, patience
<1>2. /\ role = [q \in Request |-> role[q]] /\ role' = [q \in Request |-> role'[q]]
      /\ joined = [q \in Request |-> joined[q]] /\ joined' = [q \in Request |-> joined'[q]]
      /\ patience = [q \in Request |-> patience[q]] /\ patience' = [q \in Request |-> patience'[q]]
  BY DEF role, joined, patience
<1> QED
  BY <1>1, <1>2

\* What the steps of r between isScalingUp and the end of its scale-up, other
\* than beginScalingUp and endScalingUp, are to the latch.
LEMMA LatchOwnStep ==
  ASSUME GuardInv, SoloScaling, ~overlap, NEW r \in Request, Handle(r),
         ~ScaleInferencePool(r), ~EndScalingUp(r)
  PROVE  \/ TheLatch!Pass(r) \/ TheLatch!Join(r) \/ TheLatch!Drop(r) \/ TheLatch!Leave(r)
         \/ UNCHANGED TheLatch!vars
<1>f. /\ role' = [role EXCEPT ![r] = role'[r]]
      /\ joined' = [joined EXCEPT ![r] = joined'[r]]
      /\ patience' = [patience EXCEPT ![r] = patience'[r]]
  BY LatchFrame
<1>g. UNCHANGED guardVars
  BY GuardUnchanged
<1>o. overlap' = overlap
  BY <1>g, Zenon DEF Handle, guardVars, GuardInv, TypeInv, TypeOK
<1>i. /\ role = [q \in Request |-> role[q]]
      /\ joined = [q \in Request |-> joined[q]]
      /\ patience = [q \in Request |-> patience[q]]
  BY DEF role, joined, patience
<1>u. ASSUME role'[r] = role[r], joined'[r] = joined[r], patience'[r] = patience[r]
      PROVE  UNCHANGED TheLatch!vars
  BY <1>f, <1>g, <1>o, <1>i, <1>u DEF TheLatch!vars, guardVars
<1>t. /\ pc \in [Request -> Label] /\ timer \in [Request -> Nat]
      /\ waitOn \in [Request -> Request \cup {NoGuard}]
  BY DEF GuardInv, TypeInv, TypeOK, ActivatorTypeOK
<1>s. /\ r \in scaler => pc[r] \in Scaling \cup Polling
      /\ pc[r] \in Scaling => r \in scaler
      /\ r \in scaler' <=> r \in scaler
  BY <1>g DEF GuardInv, ScalerInv, guardVars
<1>1. CASE IsScalingUp(r)
  <2>0. scalingUp <=> guard # NoGuard
    BY DEF GuardInv, GuardOwned
  <2>1. CASE scalingUp
    <3>1. role[r] = "out" /\ role'[r] = "waiting" /\ joined'[r] = guard /\ patience'[r] = Grace
      BY <1>1, <1>t, <1>s, <2>1 DEF IsScalingUp, GotoTimed, Goto, role, joined, patience, Polling, Scaling
    <3> QED
      BY <1>f, <1>g, <1>o, <2>0, <2>1, <3>1 DEF TheLatch!Join, guardVars
  <2>2. CASE ~scalingUp
    <3>1. /\ role[r] = "out" /\ role'[r] = "cleared"
          /\ joined'[r] = joined[r] /\ patience'[r] = patience[r]
      BY <1>1, <1>t, <1>s, <2>2 DEF IsScalingUp, Goto, role, joined, patience, Polling, Scaling
    <3> QED
      BY <1>f, <1>i, <1>g, <1>o, <2>0, <2>2, <3>1 DEF TheLatch!Pass, guardVars
  <2> QED
    BY <2>1, <2>2
<1>2. CASE WaitDone(r) \/ WaitTimeout(r)
  <2>1. /\ role[r] = "waiting" /\ role'[r] = "out"
        /\ joined'[r] = NoGuard /\ patience'[r] = 0
        /\ joined[r] = waitOn[r] /\ patience[r] = timer[r]
    BY <1>2, <1>t, <1>s
       DEF WaitDone, WaitTimeout, Answer, role, joined, patience, Polling, Scaling
  <2>2. waitOn[r] \in closed => waitOn[r] # guard
    BY ActivatorAssumption DEF GuardInv, GuardOwned, TypeInv, TypeOK, ActivatorTypeOK
  <2>3. joined[r] # guard \/ patience[r] = 0
    BY <1>2, <2>1, <2>2 DEF WaitDone, WaitTimeout
  <2> QED
    BY <1>f, <1>g, <1>o, <2>1, <2>3 DEF TheLatch!Leave, guardVars
<1>3. CASE PoolNotAnnotated(r) \/ GetResourceForKindFails(r) \/ ScaleGetFails(r)
           \/ (PollReady(r) /\ r \notin scaler)
  <2>1. /\ role[r] = "cleared" /\ role'[r] = "out"
        /\ joined'[r] = joined[r] /\ patience'[r] = patience[r]
    BY <1>3, <1>t, <1>s
       DEF PoolNotAnnotated, GetResourceForKindFails, ScaleGetFails, PollReady,
           Answer, Goto, GotoTimed, role, joined, patience, Polling, Scaling
  <2> QED
    BY <1>f, <1>i, <1>g, <1>o, <2>1 DEF TheLatch!Drop, guardVars
<1>4. CASE ScaleGetReturns(r) \/ PollDue(r) \/ PollNotReady(r) \/ PollWithoutStatus(r)
  <2>1. role'[r] = role[r] /\ joined'[r] = joined[r] /\ patience'[r] = patience[r]
    BY <1>4, <1>t, <1>s
       DEF ScaleGetReturns, PollDue, PollNotReady, PollWithoutStatus,
           Goto, GotoTimed, role, joined, patience, Polling, Scaling
  <2> QED
    BY <2>1, <1>u
<1>5. CASE (PollReady(r) /\ r \in scaler) \/ PollTimeout(r)
  <2>1. role'[r] = role[r] /\ joined'[r] = joined[r] /\ patience'[r] = patience[r]
    BY <1>5, <1>t, <1>s
       DEF PollReady, PollTimeout, Goto, GotoTimed, role, joined, patience, Polling, Scaling
  <2> QED
    BY <2>1, <1>u
<1>6. CASE ScaleUpdateReturns(r) \/ ScaleUpdateFails(r) \/ Slept(r) \/ ResetScaleDownDelay(r)
  <2>1. role'[r] = role[r] /\ joined'[r] = joined[r] /\ patience'[r] = patience[r]
    BY <1>6, <1>t, <1>s
       DEF ScaleUpdateReturns, ScaleUpdateFails, Slept, ResetScaleDownDelay, Answer,
           Goto, GotoTimed, role, joined, patience, Polling, Scaling
  <2> QED
    BY <2>1, <1>u
<1> QED
  BY <1>1, <1>2, <1>3, <1>4, <1>5, <1>6 DEF Handle, RequestStep

\* Every step of the process is a step of the latch, or none.
LEMMA LatchStep ==
  GuardInv /\ SoloScaling /\ [Next]_vars => [TheLatch!Next]_(TheLatch!vars)
<1> SUFFICES ASSUME GuardInv, SoloScaling, [Next]_vars
             PROVE  [TheLatch!Next]_(TheLatch!vars)
  OBVIOUS
<1>t. /\ pc \in [Request -> Label] /\ timer \in [Request -> Nat]
      /\ waitOn \in [Request -> Request \cup {NoGuard}] /\ scaler \subseteq Request
  BY DEF GuardInv, TypeInv, TypeOK, ActivatorTypeOK
<1>i. /\ role = [q \in Request |-> role[q]]
      /\ joined = [q \in Request |-> joined[q]]
      /\ patience = [q \in Request |-> patience[q]]
  BY DEF role, joined, patience
<1>r. CASE Restart
  <2>1. TheLatch!Restart
    BY <1>r, <1>t DEF Restart, RequestsLost, TheLatch!Restart, role, joined, patience, Answered, Polling
  <2> QED
    BY <2>1 DEF TheLatch!Next
<1>o. CASE overlap /\ ~Restart
  <2>1. overlap'
    BY <1>o, NextCases, Zenon
       DEF Arrive, Handle, Deactivate, Reconcile, Workload, Elapse, Shutdown, vars
  <2> QED
    BY <1>o, <2>1 DEF TheLatch!Next
<1> SUFFICES ASSUME ~overlap PROVE [TheLatch!Next]_(TheLatch!vars)
  BY <1>r, <1>o
<1>1. ASSUME NEW r \in Request, Arrive(r) PROVE UNCHANGED TheLatch!vars
  <2>1. r \notin scaler
    BY <1>1 DEF Arrive, MayActivate, GuardInv, ScalerInv, Scaling, Polling
  <2>2. role'[r] = role[r] /\ joined'[r] = joined[r] /\ patience'[r] = patience[r]
    BY <1>1, <1>t, <2>1 DEF Arrive, MayActivate, Answer, Goto, guardVars, role, joined, patience, Polling
  <2>3. UNCHANGED <<guard, overlap>>
    BY <1>1 DEF Arrive, MayActivate, guardVars
  <2> QED
    BY <1>1, <1>i, <2>2, <2>3, LatchFrame DEF TheLatch!vars
<1>2. ASSUME NEW r \in Request, Handle(r) PROVE [TheLatch!Next]_(TheLatch!vars)
  <2>f. /\ role' = [role EXCEPT ![r] = role'[r]]
        /\ joined' = [joined EXCEPT ![r] = joined'[r]]
        /\ patience' = [patience EXCEPT ![r] = patience'[r]]
    BY <1>2, LatchFrame
  <2>1. CASE ScaleInferencePool(r)
    <3>1. r \notin scaler
      BY <2>1 DEF ScaleInferencePool, GuardInv, ScalerInv, Scaling, Polling
    <3>2. /\ role[r] = "cleared" /\ role'[r] = "scaling" /\ guard' = r
          /\ joined'[r] = joined[r] /\ patience'[r] = patience[r]
      BY <2>1, <3>1, <1>t
         DEF ScaleInferencePool, beginScalingUp, Goto, role, joined, patience, Polling
    <3>3. ~(scaler' \subseteq scaler)
      BY <2>1, <3>1 DEF ScaleInferencePool
    <3>4. scaler # {} <=> guard # NoGuard
      BY ActivatorAssumption, <1>t DEF GuardInv, GuardOwned, SoloScaling
    <3>5. overlap' = (guard # NoGuard)
      BY <1>2, <3>3, <3>4, Zenon DEF Handle
    <3>6. TheLatch!Begin(r)
      BY <2>f, <1>i, <3>2, <3>5 DEF TheLatch!Begin
    <3> QED
      BY <3>6 DEF TheLatch!Next
  <2>2. CASE EndScalingUp(r)
    <3>1. r \in scaler
      BY <2>2 DEF EndScalingUp, GuardInv, ScalerInv, Scaling
    <3>2. guard = r /\ guard # NoGuard
      BY <3>1, ActivatorAssumption DEF SoloScaling
    <3>3. /\ role[r] = "scaling" /\ role'[r] = "out" /\ guard' = NoGuard
          /\ joined'[r] = joined[r] /\ patience'[r] = patience[r]
      BY <2>2, <3>1, <3>2, <1>t
         DEF EndScalingUp, ReturnFromScaling, Goto, Answer, role, joined, patience, Polling
    <3>4. scaler' \subseteq scaler
      BY <2>2, <3>2 DEF EndScalingUp
    <3>5. overlap' = overlap
      BY <1>2, <3>4, Zenon DEF Handle, GuardInv, TypeInv, TypeOK
    <3>6. TheLatch!Finish(r)
      BY <2>f, <1>i, <3>2, <3>3, <3>5 DEF TheLatch!Finish
    <3> QED
      BY <3>6 DEF TheLatch!Next
  <2> QED
    BY <1>2, <2>1, <2>2, LatchOwnStep DEF TheLatch!Next
<1>3. CASE Deactivate \/ Reconcile \/ Workload \/ Shutdown \/ UNCHANGED vars
  BY <1>3 DEF Deactivate, Reconcile, Workload, Shutdown, vars, requestVars,
     TheLatch!vars, role, joined, patience
<1>4. CASE Elapse
  <2>1. /\ \A q \in Request : pc'[q] = pc[q] \/ (pc[q] \in Polling /\ pc'[q] \in Polling)
        /\ \A q \in Request : pc[q] = "wait" => timer'[q] = timer[q] - 1
        /\ UNCHANGED <<waitOn, scaler, guard, overlap>>
    BY <1>4, <1>t DEF Elapse, RequestsElapse, guardVars, Polling, Timed
  <2>2. \A q \in Request : pc[q] = "wait" => waitOn[q] = guard /\ timer[q] > 0
    <3>1. \A q \in Request : pc[q] = "wait" => waitOn[q] \notin closed /\ timer[q] # 0
      BY <1>4 DEF Elapse, RequestsElapse, Urgent, Timed
    <3> QED
      BY <3>1, <1>t DEF SoloScaling
  <2>3. \A q \in Request : role[q] = "waiting" <=> pc[q] = "wait"
    BY <1>t DEF role, GuardInv, ScalerInv, Scaling, Polling
  <2>4. UNCHANGED <<role, joined>>
    BY <2>1 DEF role, joined, Polling
  <2>5. \A q \in Request : patience'[q] = IF role[q] = "waiting" THEN patience[q] - 1 ELSE 0
    BY <2>1, <2>3 DEF patience, Polling
  <2>6. patience' = [q \in Request |-> IF role[q] = "waiting" THEN patience[q] - 1 ELSE 0]
    BY <2>5 DEF patience
  <2>7. \A q \in Request : role[q] = "waiting" => joined[q] = guard /\ patience[q] > 0
    BY <2>2, <2>3 DEF joined, patience
  <2> QED
    BY <2>1, <2>4, <2>6, <2>7 DEF TheLatch!Next, TheLatch!Elapse
<1> QED
  BY <1>1, <1>2, <1>3, <1>4, <1>r, NextCases

(* For any number of requests and any timeouts, flag, channels and timers    *)
(* implement the latch until two scale-ups overlap: late requests join the   *)
(* scale-up under way and go on when it ends or when their patience does.    *)
THEOREM GuardImplementsLatch == Spec => LatchImplemented
<1>1. Init => TheLatch!Init
  BY DEF Init, ActivatorInit, TheLatch!Init, role, joined, patience, Polling
<1> QED
  BY <1>1, LatchStep, GuardInvariance, SoloScalingSafe, PTL
     DEF Spec, LatchImplemented, TheLatch!Spec
=============================================================================
