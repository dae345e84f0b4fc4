---------------------------- MODULE QuietProofs -----------------------------
(***************************************************************************)
(* The idleness ticker stays quiet during a scale-up, for any timeouts     *)
(* with DelaysOutlastScaling.  The invariant weighs the time left on the   *)
(* ticker against the time a scaler has spent since its first poll: both   *)
(* change by one when time passes, and every reset of the ticker, by       *)
(* whatever request, only adds to the sum.                                 *)
(***************************************************************************)
EXTENDS GuardProofs

\* The timers of a scaler are bounded by the timeouts they were started with.
TimerInv ==
  \A r \in scaler :
    /\ pc[r] = "poll" => timer[r] <= Grace
    /\ pc[r] \in {"due", "get"} => timer[r] <= Grace - 1
    /\ pc[r] = "getLate" => timer[r] <= Grace - 2
    /\ pc[r] = "sleep" => timer[r] <= Retention
    /\ pc[r] = "endOk" => timer[r] = 0

\* An upper bound on the time since r's first poll.
Spent(r) ==
  IF pc[r] \in {"sleep", "endOk"} THEN Grace - 1 + Retention - timer[r]
                                  ELSE Grace - 1 - timer[r]

QuietInv ==
  \A r \in scaler :
    PolledOnce(r) => /\ ~pending
                     /\ period = 0 \/ left + Spent(r) >= Grace + Retention

\* The time spent is a natural number, and while r's timer runs it is at least
\* two units short of the whole scale-up.
SpentInv ==
  \A r \in scaler :
    PolledOnce(r) => /\ Spent(r) \in Nat
                     /\ ~Urgent(r) => Spent(r) + 2 <= Grace + Retention

\* A scaler that still has time left has spent less than the delays outlast.
LEMMA SpentBounds == GuardInv /\ TimerInv => SpentInv
<1> SUFFICES ASSUME GuardInv, TimerInv, NEW r \in scaler, PolledOnce(r)
             PROVE  /\ Spent(r) \in Nat
                    /\ ~Urgent(r) => Spent(r) + 2 <= Grace + Retention
  BY DEF SpentInv
<1>1. r \in Request /\ timer[r] \in Nat /\ Grace \in Nat \ {0} /\ Retention \in Nat \ {0}
  BY ActivatorAssumption DEF GuardInv, TypeInv, TypeOK, ActivatorTypeOK
<1> QED
  BY <1>1 DEF TimerInv, PolledOnce, Spent, Urgent, Timed, Polling

\* No timeout of a request is larger than the one it was started with.
LEMMA TimerStep == GuardInv /\ TimerInv /\ [Next]_vars => TimerInv'
<1> SUFFICES ASSUME GuardInv, TimerInv, [Next]_vars PROVE TimerInv'
  OBVIOUS
<1>t. /\ pc \in [Request -> Label] /\ timer \in [Request -> Nat] /\ scaler \subseteq Request
      /\ Grace \in Nat \ {0} /\ Retention \in Nat \ {0}
  BY ActivatorAssumption DEF GuardInv, TypeInv, TypeOK, ActivatorTypeOK
<1> USE <1>t DEF TimerInv
<1>1. ASSUME NEW r \in Request, Arrive(r) PROVE TimerInv'
  BY <1>1 DEF Arrive, MayActivate, Answer, Goto, guardVars
<1>2. ASSUME NEW r \in Request, Handle(r) PROVE TimerInv'
  <2> USE DEF Goto, GotoTimed, Answer, guardVars
  <2>1. CASE IsScalingUp(r) \/ WaitDone(r) \/ WaitTimeout(r)
    BY <2>1 DEF IsScalingUp, WaitDone, WaitTimeout, GuardInv, ScalerInv, Scaling, Polling
  <2>2. CASE PoolNotAnnotated(r) \/ GetResourceForKindFails(r) \/ ScaleGetFails(r)
    BY <2>2 DEF PoolNotAnnotated, GetResourceForKindFails, ScaleGetFails
  <2>3. CASE ScaleGetReturns(r)
    BY <2>3 DEF ScaleGetReturns, GuardInv, ScalerInv, Scaling, Polling
  <2>4. CASE PollDue(r) \/ PollNotReady(r) \/ PollWithoutStatus(r) \/ PollTimeout(r)
    BY <2>4 DEF PollDue, PollNotReady, PollWithoutStatus, PollTimeout
  <2>5. CASE PollReady(r)
    BY <2>5 DEF PollReady
  <2>6. CASE ScaleInferencePool(r)
    BY <2>6 DEF ScaleInferencePool, beginScalingUp
  <2>7. CASE ScaleUpdateReturns(r) \/ ScaleUpdateFails(r) \/ Slept(r)
    BY <2>7 DEF ScaleUpdateReturns, ScaleUpdateFails, Slept
  <2>8. CASE EndScalingUp(r)
    BY <2>8 DEF EndScalingUp, ReturnFromScaling
  <2>9. CASE ResetScaleDownDelay(r)
    BY <2>9 DEF ResetScaleDownDelay
  <2> QED
    BY <1>2, <2>1, <2>2, <2>3, <2>4, <2>5, <2>6, <2>7, <2>8, <2>9 DEF Handle, RequestStep
<1>3. CASE Deactivate \/ Reconcile \/ Workload \/ Shutdown \/ UNCHANGED vars
  BY <1>3 DEF Deactivate, Reconcile, Workload, Shutdown, vars, requestVars
<1>4. CASE Elapse
  BY <1>4 DEF Elapse, RequestsElapse, Urgent, Timed, Polling, guardVars
<1>5. CASE Restart
  BY <1>5 DEF Restart, RequestsLost
<1> QED
  BY <1>1, <1>2, <1>3, <1>4, <1>5, NextCases

\* A step of a request other than the reset at the start of a poll makes no
\* request a polled one, and gives none of its time back.
LEMMA SpentGrows ==
  ASSUME GuardInv, TimerInv, NEW r \in Request, Handle(r), ~PollDue(r),
         NEW q \in scaler', PolledOnce(q)'
  PROVE  q \in scaler /\ PolledOnce(q) /\ Spent(q)' >= Spent(q)
<1>t. /\ pc \in [Request -> Label] /\ timer \in [Request -> Nat] /\ scaler \subseteq Request
      /\ Grace \in Nat \ {0} /\ Retention \in Nat \ {0}
  BY ActivatorAssumption DEF GuardInv, TypeInv, TypeOK, ActivatorTypeOK
<1> USE <1>t DEF PolledOnce, Spent, Goto, GotoTimed, Answer, guardVars
<1>s. q \in scaler => pc[q] \in Scaling \cup Polling
  BY DEF GuardInv, ScalerInv
<1>1. CASE IsScalingUp(r) \/ WaitDone(r) \/ WaitTimeout(r)
  BY <1>1, <1>s DEF IsScalingUp, WaitDone, WaitTimeout, Scaling, Polling
<1>2. CASE \/ PoolNotAnnotated(r) \/ GetResourceForKindFails(r)
           \/ ScaleGetFails(r) \/ ScaleGetReturns(r)
  BY <1>2, <1>s DEF PoolNotAnnotated, GetResourceForKindFails, ScaleGetFails,
     ScaleGetReturns, Scaling, Polling
<1>3. CASE PollNotReady(r) \/ PollWithoutStatus(r)
  BY <1>3 DEF PollNotReady, PollWithoutStatus
<1>4. CASE PollReady(r)
  BY <1>4 DEF PollReady
<1>5. CASE PollTimeout(r)
  BY <1>5 DEF PollTimeout
<1>6. CASE ScaleInferencePool(r)
  BY <1>6 DEF ScaleInferencePool, beginScalingUp
<1>7. CASE ScaleUpdateReturns(r) \/ ScaleUpdateFails(r)
  BY <1>7 DEF ScaleUpdateReturns, ScaleUpdateFails
<1>8. CASE Slept(r)
  BY <1>8 DEF Slept
<1>9. CASE EndScalingUp(r)
  BY <1>9 DEF EndScalingUp, ReturnFromScaling
<1>10. CASE ResetScaleDownDelay(r)
  BY <1>10, <1>s DEF ResetScaleDownDelay, Scaling, Polling
<1> QED
  BY <1>1, <1>2, <1>3, <1>4, <1>5, <1>6, <1>7, <1>8, <1>9, <1>10 DEF Handle, RequestStep

\* A ticker that was just reset or stopped satisfies the invariant.
LEMMA QuietAfterReset ==
  ASSUME SpentInv', ~pending', left' \in Nat,
         period' = 0 \/ left' >= Grace + Retention
  PROVE  QuietInv'
<1>1. Grace \in Nat /\ Retention \in Nat
  BY ActivatorAssumption
<1> SUFFICES ASSUME NEW q \in scaler', PolledOnce(q)', period' # 0
             PROVE  left' + Spent(q)' >= Grace + Retention
  BY DEF QuietInv
<1>2. Spent(q)' \in Nat
  BY DEF SpentInv
<1> QED
  BY <1>1, <1>2

\* The time left on the ticker and the time a polled scaler has spent always
\* cover the grace and the retention period.
LEMMA QuietStep ==
  ASSUME DelaysOutlastScaling, GuardInv, TimerInv, SpentInv, SpentInv', QuietInv, [Next]_vars
  PROVE  QuietInv'
<1>t. /\ period \in Nat /\ left \in Nat /\ left <= period
      /\ (left = 0 => period = 0)
      /\ Grace \in Nat \ {0} /\ Retention \in Nat \ {0}
      /\ DefaultDelay \in Nat \ {0} /\ DefaultDelay >= Grace + Retention
      /\ scaler \subseteq Request
  BY ActivatorAssumption, ProcessAssumption
     DEF GuardInv, TypeInv, TypeOK, ProcessTypeOK, ActivatorTypeOK, DelaysOutlastScaling
<1>1. ASSUME NEW r \in Request, Handle(r) PROVE QuietInv'
  <2>1. CASE PollDue(r)
    BY <2>1, <1>t, QuietAfterReset DEF PollDue, ResetTicker, Reset
  <2>2. CASE ~PollDue(r) /\ UNCHANGED tickerVars
    <3> SUFFICES ASSUME NEW q \in scaler', PolledOnce(q)'
                 PROVE  ~pending' /\ (period' = 0 \/ left' + Spent(q)' >= Grace + Retention)
      BY DEF QuietInv
    <3>1. q \in scaler /\ PolledOnce(q) /\ Spent(q)' >= Spent(q)
      BY <1>1, <2>2, SpentGrows
    <3>2. Spent(q) \in Nat /\ Spent(q)' \in Nat
      BY <3>1 DEF SpentInv
    <3>3. ~pending /\ (period = 0 \/ left + Spent(q) >= Grace + Retention)
      BY <3>1 DEF QuietInv
    <3> QED
      BY <1>t, <2>2, <3>1, <3>2, <3>3 DEF tickerVars
  <2>3. CASE ResetScaleDownDelay(r) /\ ~UNCHANGED tickerVars
    <3>1. view[r] \in Pool
      BY <2>3 DEF ResetScaleDownDelay, GuardInv, TypeInv, ViewInv, InFlight, Answered
    <3>2. view[r].delay \in Nat /\ (view[r].delay = 0 \/ view[r].delay >= Grace + Retention)
      BY <3>1, ProcessAssumption DEF PoolType, DelaysOutlastScaling
    <3>3. ~pending' /\ left' = view[r].delay /\ view[r].delay > 0
      BY <2>3 DEF ResetScaleDownDelay, ResetTicker, Reset, Panics, tickerVars
    <3> QED
      BY <3>2, <3>3, <1>t, QuietAfterReset
  <2>4. CASE EndScalingUp(r) \/ PollWithoutStatus(r)
    <3>1. UNCHANGED tickerVars
      BY <2>4 DEF EndScalingUp, PollWithoutStatus, Panics, processVars, tickerVars
    <3>2. ~PollDue(r)
      BY <2>4 DEF EndScalingUp, PollWithoutStatus, PollDue
    <3> QED
      BY <2>2, <3>1, <3>2
  <2>5. CASE /\ ~PollDue(r) /\ ~ResetScaleDownDelay(r)
             /\ ~EndScalingUp(r) /\ ~PollWithoutStatus(r)
    BY <1>1, <2>2, <2>5, ProcessUnchanged DEF processVars, tickerVars
  <2>6. ResetScaleDownDelay(r) => ~PollDue(r)
    BY DEF ResetScaleDownDelay, PollDue
  <2> QED
    BY <2>1, <2>2, <2>3, <2>4, <2>5, <2>6
<1>u. ASSUME UNCHANGED requestVars,
             \/ UNCHANGED tickerVars
             \/ ~pending' /\ UNCHANGED <<period, left>>
      PROVE  QuietInv'
  BY <1>u DEF QuietInv, PolledOnce, Spent, requestVars, tickerVars
<1>2. CASE Deactivate
  <2>1. UNCHANGED requestVars
    BY <1>2 DEF Deactivate
  <2>2. CASE MonitorStart
    BY <2>2, <1>t, QuietAfterReset DEF MonitorStart, ResetTicker, Reset
  <2>3. CASE MonitorStop
    BY <2>3, <1>t, QuietAfterReset DEF MonitorStop, StopTicker, Reset
  <2>4. CASE MonitorTick \/ MonitorTickSkipped
    BY <2>1, <2>4, <1>u DEF MonitorTick, MonitorTickSkipped, ReceiveTick
  <2>5. CASE MonitorTickWithoutPool
    BY <2>1, <2>5, <1>u DEF MonitorTickWithoutPool, Panics, tickerVars
  <2>6. CASE \/ MonitorScaleGet \/ MonitorScaleGetFails
             \/ MonitorScaleUpdate \/ MonitorScaleUpdateFails
    BY <2>1, <2>6, <1>u DEF MonitorScaleGet, MonitorScaleGetFails, MonitorScaleUpdate,
       MonitorScaleUpdateFails, processVars, tickerVars
  <2> QED
    BY <1>2, <2>2, <2>3, <2>4, <2>5, <2>6 DEF Deactivate, MonitorStep
<1>3. CASE Reconcile \/ Workload \/ Shutdown \/ UNCHANGED vars
  BY <1>3, <1>u DEF Reconcile, PoolSet, Workload, Shutdown, Signal, vars, processVars, tickerVars
<1>4. ASSUME NEW r \in Request, Arrive(r) PROVE QuietInv'
  <2>1. UNCHANGED <<tickerVars, scaler>>
    BY <1>4 DEF Arrive, MayActivate, guardVars, processVars, tickerVars
  <2>2. \A q \in scaler : PolledOnce(q)' => PolledOnce(q) /\ Spent(q)' = Spent(q)
    BY <1>4, <1>t DEF Arrive, MayActivate, Answer, Goto, PolledOnce, Spent, GuardInv, TypeInv,
       TypeOK, ActivatorTypeOK
  <2> QED
    BY <2>1, <2>2 DEF QuietInv, tickerVars
<1>5. CASE Elapse
  <2> SUFFICES ASSUME NEW q \in scaler', PolledOnce(q)'
               PROVE  ~pending' /\ (period' = 0 \/ left' + Spent(q)' >= Grace + Retention)
    BY DEF QuietInv
  <2>1. q \in scaler /\ ~Urgent(q)
    BY <1>5, <1>t DEF Elapse, RequestsElapse, guardVars
  <2>2. q \in Request /\ timer[q] \in Nat /\ pc[q] \in Label
    BY <2>1, <1>t DEF GuardInv, TypeInv, TypeOK, ActivatorTypeOK
  <2>3. PolledOnce(q) /\ Spent(q)' = Spent(q) + 1
    BY <1>5, <2>1, <2>2, <1>t
       DEF Elapse, RequestsElapse, PolledOnce, Spent, Urgent, Timed, Polling
  <2>4. ~pending /\ (period = 0 \/ left + Spent(q) >= Grace + Retention)
    BY <2>1, <2>3 DEF QuietInv
  <2>5. Spent(q) \in Nat /\ Spent(q) + 2 <= Grace + Retention
    BY <2>1, <2>3 DEF SpentInv
  <2>6. period = 0 \/ left > 1
    BY <2>4, <2>5, <1>t
  <2>7. ~pending'
    <3>1. left # 1
      BY <2>6, <1>t
    <3> QED
      BY <1>5, <2>4, <3>1, Zenon DEF Elapse, TickerElapse
  <2>8. period' = 0 \/ left' = left - 1
    BY <1>5, <2>6 DEF Elapse, TickerElapse
  <2>9. period' = period
    BY <1>5 DEF Elapse, TickerElapse
  <2> QED
    BY <2>3, <2>4, <2>5, <2>7, <2>8, <2>9, <1>t
<1>6. CASE Restart
  BY <1>6 DEF Restart, RequestsLost, QuietInv
<1> QED
  BY <1>1, <1>2, <1>3, <1>4, <1>5, <1>6, NextCases

(* From a scaler's first poll until it releases its request no idleness tick *)
(* fires, for all grace and retention periods that the scale-down delays     *)
(* outlast.                                                                  *)
THEOREM QuietTicker == Spec => []QuietWhileScaling
<1> DEFINE I == GuardInv /\ TimerInv /\ (DelaysOutlastScaling => QuietInv)
<1>1. Init /\ GuardInv => I
  BY DEF Init, ActivatorInit, TimerInv, QuietInv
<1>2. I /\ GuardInv' /\ [Next]_vars => I'
  <2> SUFFICES ASSUME I, GuardInv', [Next]_vars PROVE I'
    OBVIOUS
  <2>1. TimerInv'
    BY TimerStep
  <2>2. SpentInv
    BY SpentBounds
  <2>3. (GuardInv /\ TimerInv => SpentInv)'
    BY SpentBounds, PTL
  <2>4. DelaysOutlastScaling => QuietInv'
    BY <2>1, <2>2, <2>3, QuietStep
  <2>5. DelaysOutlastScaling' <=> DelaysOutlastScaling
    BY DEF DelaysOutlastScaling
  <2> QED
    BY <2>1, <2>4, <2>5
<1>3. I => QuietWhileScaling
  BY DEF QuietInv, QuietWhileScaling
<1> QED
  BY GuardInvariance, <1>1, <1>2, <1>3, PTL DEF Spec
=============================================================================
