-------------------------- MODULE StopwatchProofs --------------------------
(***************************************************************************)
(* What the two stopwatches show, for any number of requests and any       *)
(* timeouts.  MayActivate's waits are bounded: the invariant adds what a   *)
(* request has waited to what is left of its current wait: time moves one  *)
(* unit from one to the other, and the request enters at most three timed  *)
(* waits.  And the ticker tells of idleness: the time since a request was  *)
(* let through and the time left to the next tick add up to a period,      *)
(* except between the release of a waiter and the reset by its scaler,     *)
(* which takes no time and begins without a tick (QuietProofs).            *)
(***************************************************************************)
EXTENDS Stopwatch, QuietProofs

\* The longest time r may be kept.
Total(r) == view[r].grace + Grace + Retention

AgeInv ==
  \A r \in Request :
    /\ age[r] \in Nat
    /\ pc[r] \in {"idle", "check", "scaleGet"} \cup Answered => age[r] = 0
    /\ pc[r] = "wait" => age[r] + timer[r] <= Grace
    /\ pc[r] \in Polling /\ r \notin scaler => age[r] + timer[r] <= view[r].grace
    /\ pc[r] \in {"begin", "update"} => age[r] <= view[r].grace
    /\ pc[r] \in Polling /\ r \in scaler => age[r] + timer[r] <= view[r].grace + Grace
    /\ pc[r] = "sleep" => age[r] + timer[r] <= Total(r)
    /\ pc[r] \in {"endOk", "endFail", "reset"} => age[r] <= Total(r)

\* The history variables add nothing to what the process does.
LEMMA TimedImplements == TimedSpec => Spec
<1>1. TimedInit => Init
  BY DEF TimedInit
<1>2. [TimedNext]_timedVars => [Next]_vars
  BY DEF TimedNext, Next, timedVars
<1> QED
  BY <1>1, <1>2, PTL DEF TimedSpec, Spec

\* A step of r that is not answered by it starts its next wait within bounds.
LEMMA OwnStep ==
  ASSUME GuardInv, AgeInv, NEW r \in Request, Handle(r), InFlight(r)'
  PROVE  /\ pc'[r] = "scaleGet" => age[r] = 0
         /\ pc'[r] \notin {"idle", "check"} \cup Answered
         /\ pc'[r] = "wait" => age[r] + timer'[r] <= Grace
         /\ pc'[r] \in Polling /\ r \notin scaler' => age[r] + timer'[r] <= view'[r].grace
         /\ pc'[r] \in {"begin", "update"} => age[r] <= view'[r].grace
         /\ pc'[r] \in Polling /\ r \in scaler' => age[r] + timer'[r] <= view'[r].grace + Grace
         /\ pc'[r] = "sleep" => age[r] + timer'[r] <= view'[r].grace + Grace + Retention
         /\ pc'[r] \in {"endOk", "endFail", "reset"}
              => age[r] <= view'[r].grace + Grace + Retention
<1>t. /\ pc \in [Request -> Label] /\ timer \in [Request -> Nat]
      /\ view \in [Request -> Pool \cup {NoPool}]
      /\ Grace \in Nat \ {0} /\ Retention \in Nat \ {0}
  BY ActivatorAssumption DEF GuardInv, TypeInv, TypeOK, ActivatorTypeOK
<1>a. age[r] \in Nat /\ timer[r] \in Nat
  BY <1>t DEF AgeInv
<1>v. pc[r] \notin {"idle"} \cup Answered => view[r].grace \in Nat
  BY ProcessAssumption DEF GuardInv, TypeInv, ViewInv, InFlight, PoolType
<1>s. (r \in scaler => pc[r] \in Scaling \cup Polling) /\ (pc[r] \in Scaling => r \in scaler)
  BY DEF GuardInv, ScalerInv
<1> USE <1>t, <1>a, <1>v, <1>s
    DEF AgeInv, Total, InFlight, Answered, Polling, Scaling, Goto, GotoTimed, Answer, guardVars
<1>1. CASE IsScalingUp(r) \/ WaitDone(r) \/ WaitTimeout(r)
  BY <1>1 DEF IsScalingUp, WaitDone, WaitTimeout
<1>2. CASE PoolNotAnnotated(r) \/ GetResourceForKindFails(r) \/ ScaleGetFails(r)
  BY <1>2 DEF PoolNotAnnotated, GetResourceForKindFails, ScaleGetFails
<1>3. CASE ScaleGetReturns(r)
  BY <1>3 DEF ScaleGetReturns
<1>4. CASE PollDue(r)
  BY <1>4 DEF PollDue
<1>5. CASE PollNotReady(r) \/ PollWithoutStatus(r)
  BY <1>5 DEF PollNotReady, PollWithoutStatus
<1>6. CASE PollReady(r)
  BY <1>6 DEF PollReady
<1>7. CASE PollTimeout(r)
  BY <1>7 DEF PollTimeout
<1>8. CASE ScaleInferencePool(r)
  BY <1>8 DEF ScaleInferencePool, beginScalingUp
<1>9. CASE ScaleUpdateReturns(r) \/ ScaleUpdateFails(r) \/ Slept(r)
  BY <1>9 DEF ScaleUpdateReturns, ScaleUpdateFails, Slept
<1>10. CASE EndScalingUp(r)
  BY <1>10 DEF EndScalingUp, ReturnFromScaling
<1>11. CASE ResetScaleDownDelay(r)
  BY <1>11 DEF ResetScaleDownDelay
<1> QED
  BY <1>1, <1>2, <1>3, <1>4, <1>5, <1>6, <1>7, <1>8, <1>9, <1>10, <1>11 DEF Handle, RequestStep

\* Every step keeps what a request has waited and has left within bounds.
LEMMA AgeStep == GuardInv /\ GuardInv' /\ AgeInv /\ [TimedNext]_timedVars => AgeInv'
<1> SUFFICES ASSUME GuardInv, GuardInv', AgeInv, [TimedNext]_timedVars, NEW q \in Request
             PROVE  AgeInv!(q)'
  BY DEF AgeInv
<1>t. /\ pc \in [Request -> Label] /\ timer \in [Request -> Nat] /\ age[q] \in Nat
      /\ Grace \in Nat \ {0} /\ Retention \in Nat \ {0}
  BY ActivatorAssumption DEF GuardInv, TypeInv, TypeOK, ActivatorTypeOK, AgeInv
<1>1. CASE Elapse /\ age' = [r \in Request |-> IF pc[r] \in Timed THEN age[r] + 1 ELSE age[r]]
  <2>1. UNCHANGED <<view, scaler>> /\ ~Urgent(q)
    BY <1>1 DEF Elapse, RequestsElapse, guardVars
  <2>v. pc[q] \notin {"idle"} \cup Answered => view[q].grace \in Nat
    BY ProcessAssumption DEF GuardInv, TypeInv, ViewInv, InFlight, PoolType
  <2> QED
    BY <1>1, <1>t, <2>1, <2>v DEF Elapse, RequestsElapse, AgeInv, Total, Urgent, Timed, Polling,
       Answered
<1>2. CASE Act /\ age' = [r \in Request |-> IF InFlight(r)' THEN age[r] ELSE 0]
  <2>a. age'[q] = IF InFlight(q)' THEN age[q] ELSE 0
    BY <1>2
  <2>0. CASE ~InFlight(q)'
    BY <2>0, <2>a DEF AgeInv, InFlight, Polling, Answered
  <2>s. ASSUME InFlight(q)', pc'[q] = pc[q], timer'[q] = timer[q], view'[q] = view[q],
               q \in scaler' <=> q \in scaler
        PROVE  AgeInv!(q)'
    BY <2>s, <2>a DEF AgeInv, Total
  <2>1. ASSUME NEW r \in Request, Arrive(r), InFlight(q)' PROVE AgeInv!(q)'
    <3>1. CASE q = r
      BY <2>1, <2>a, <3>1, <1>t
         DEF AgeInv, Total, Arrive, MayActivate, Answer, Goto, guardVars, InFlight, Polling, Answered
    <3> QED
      BY <2>1, <2>s, <3>1, OthersStay
  <2>2. ASSUME NEW r \in Request, Handle(r), InFlight(q)' PROVE AgeInv!(q)'
    <3>1. CASE q = r
      BY <2>2, <2>a, <3>1, <1>t, OwnStep DEF AgeInv, Total, InFlight
    <3> QED
      BY <2>2, <2>s, <3>1, OthersStay
  <2>3. CASE (Deactivate \/ Reconcile \/ Workload \/ Shutdown) /\ InFlight(q)'
    BY <2>3, <2>s DEF Deactivate, Reconcile, Workload, Shutdown, requestVars
  <2>4. CASE Restart
    BY <2>4, <2>0 DEF Restart, RequestsLost, InFlight, Answered
  <2> QED
    BY <1>2, <2>0, <2>1, <2>2, <2>3, <2>4 DEF Act
<1>3. CASE UNCHANGED timedVars
  BY <1>3 DEF AgeInv, Total, timedVars, vars, requestVars
<1> QED
  BY <1>1, <1>2, <1>3 DEF TimedNext

(* However many requests arrive, overlap and fail, MayActivate keeps none    *)
(* longer than the pool's grace period, the default grace period and the     *)
(* retention period together, calls to the scale subresource not counted.    *)
THEOREM AnswerTimeBounded == TimedSpec => []AnsweredInTime
<1>1. TimedInit /\ GuardInv => AgeInv
  BY DEF TimedInit, Init, ActivatorInit, AgeInv, Polling
<1>2. GuardInv /\ AgeInv => AnsweredInTime
  <2> SUFFICES ASSUME GuardInv, AgeInv, NEW r \in Request, InFlight(r)
               PROVE  age[r] <= IF pc[r] = "wait" THEN Grace ELSE Total(r)
    BY DEF AnsweredInTime, Total
  <2>1. /\ pc[r] \in Label /\ timer[r] \in Nat /\ age[r] \in Nat /\ view[r].grace \in Nat
        /\ Grace \in Nat /\ Retention \in Nat
    BY ActivatorAssumption, ProcessAssumption
       DEF GuardInv, TypeInv, TypeOK, ActivatorTypeOK, ViewInv, AgeInv, PoolType
  <2> QED
    BY <2>1 DEF AgeInv, Total, Label, InFlight, Polling
<1>3. TimedSpec => []GuardInv
  BY TimedImplements, GuardInvariance, PTL
<1> QED
  BY <1>1, <1>2, <1>3, AgeStep, PTL DEF TimedSpec

-----------------------------------------------------------------------------
\* A request is about to reset the ticker, or it has just been reset.
Refreshed == left = period \/ \E r \in Request : pc[r] = "reset"

IdleInv ==
  /\ quiet \in Nat
  /\ released \subseteq closed
  /\ quiet + left >= period \/ \E r \in Request : pc[r] = "reset"
  /\ \A q \in Request : pc[q] = "wait" /\ waitOn[q] \in released => ~pending /\ Refreshed
  /\ pending => quiet >= period

\* Nobody but its own goroutine takes a request from its ResetTicker, and a
\* restart makes a new ticker.
LEMMA ResetLeft ==
  ASSUME GuardInv, Act, NEW q \in Request, pc[q] = "reset", pc'[q] # "reset"
  PROVE  left' = period' /\ ~pending'
<1>1. CASE Restart
  BY <1>1 DEF Restart, Reset
<1>2. ASSUME NEW r \in Request, Arrive(r) \/ Handle(r)
      PROVE  left' = period' /\ ~pending'
  <2>1. q = r
    BY <1>2, OthersStay
  <2>2. Handle(q)
    BY <1>2, <2>1 DEF Arrive, MayActivate
  <2>3. ResetScaleDownDelay(q) /\ Alive
    BY <2>2 DEF Handle, RequestStep, IsScalingUp, WaitDone, WaitTimeout, PoolNotAnnotated,
       GetResourceForKindFails, ScaleGetFails, ScaleGetReturns, PollDue, PollNotReady,
       PollWithoutStatus, PollReady, PollTimeout, ScaleInferencePool, ScaleUpdateReturns,
       ScaleUpdateFails, Slept, EndScalingUp, Polling
  <2>4. phase' = phase
    BY <2>3 DEF ResetScaleDownDelay
  <2>5. Reset(view[q].delay)
    BY <2>3, <2>4 DEF ResetScaleDownDelay, ResetTicker, Panics, Alive
  <2> QED
    BY <2>5 DEF Reset
<1>3. ~(Deactivate \/ Reconcile \/ Workload \/ Shutdown)
  BY DEF Deactivate, Reconcile, Workload, Shutdown, requestVars
<1> QED
  BY <1>1, <1>2, <1>3 DEF Act

\* A request joins an open channel, so one that waits on a released channel
\* did so before, or its scaler succeeds in this very step.
LEMMA WaitReleased ==
  ASSUME GuardInv, Act, released \subseteq closed,
         released' = {c \in closed' : c \in released \/ (c \notin closed /\ Succeeds)},
         NEW q \in Request, pc'[q] = "wait", waitOn'[q] \in released'
  PROVE  (pc[q] = "wait" /\ waitOn[q] \in released) \/ Succeeds
<1>1. SUFFICES ASSUME ~Succeeds PROVE pc[q] = "wait" /\ waitOn[q] \in released
  OBVIOUS
<1>2. waitOn'[q] \in released
  BY <1>1
<1>3. ASSUME NEW r \in Request, Arrive(r) \/ Handle(r)
      PROVE  pc[q] = "wait" /\ waitOn'[q] = waitOn[q]
  <2>1. CASE q # r
    BY <1>3, <2>1, OthersStay
  <2>2. CASE q = r
    <3>t. pc \in [Request -> Label] /\ waitOn \in [Request -> Request \cup {NoGuard}]
      BY DEF GuardInv, TypeInv, TypeOK, ActivatorTypeOK
    <3> USE <3>t DEF Goto, GotoTimed, Answer, guardVars
    <3>1. ~IsScalingUp(q)
      BY <1>2 DEF IsScalingUp, GuardInv, GuardOwned
    <3>2. ~Arrive(q)
      BY DEF Arrive, MayActivate
    <3> QED
      BY <1>3, <2>2, <3>1, <3>2
         DEF Handle, RequestStep, WaitDone, WaitTimeout, PoolNotAnnotated,
             GetResourceForKindFails, ScaleGetFails, ScaleGetReturns, PollDue, PollNotReady,
             PollWithoutStatus, PollReady, PollTimeout, ScaleInferencePool, ScaleUpdateReturns,
             ScaleUpdateFails, Slept, EndScalingUp, ReturnFromScaling, ResetScaleDownDelay
  <2> QED
    BY <2>1, <2>2
<1>4. CASE Deactivate \/ Reconcile \/ Workload \/ Shutdown
  BY <1>2, <1>4 DEF Deactivate, Reconcile, Workload, Shutdown, requestVars
<1>5. ~Restart
  BY DEF Restart, RequestsLost
<1> QED
  BY <1>2, <1>3, <1>4, <1>5 DEF Act

\* A step that takes no time sets the ticker anew or leaves it as it is, but
\* for a tick that is taken from it.
LEMMA TickerStep ==
  ASSUME Act
  PROVE  \/ left' = period' /\ ~pending'
         \/ UNCHANGED <<period, left>> /\ (pending' => pending)
<1>r. ASSUME NEW d, ResetTicker(d)
      PROVE  (left' = period' /\ ~pending') \/ UNCHANGED tickerVars
  BY <1>r DEF ResetTicker, Reset, Panics, tickerVars
<1>1. ASSUME NEW r \in Request, Handle(r)
      PROVE  (left' = period' /\ ~pending') \/ UNCHANGED tickerVars
  <2>1. CASE PollDue(r) \/ ResetScaleDownDelay(r)
    BY <2>1, <1>r DEF PollDue, ResetScaleDownDelay
  <2>2. CASE EndScalingUp(r) \/ PollWithoutStatus(r)
    BY <2>2 DEF EndScalingUp, PollWithoutStatus, Panics, processVars, tickerVars
  <2> QED
    BY <1>1, <2>1, <2>2, ProcessUnchanged DEF processVars, tickerVars
<1>2. CASE Deactivate
  <2>1. CASE MonitorStart \/ MonitorStop
    BY <2>1, <1>r DEF MonitorStart, MonitorStop, StopTicker, Reset, tickerVars
  <2>2. CASE MonitorTick \/ MonitorTickSkipped
    BY <2>2 DEF MonitorTick, MonitorTickSkipped, ReceiveTick
  <2>3. CASE MonitorTickWithoutPool
    BY <2>3 DEF MonitorTickWithoutPool, Panics
  <2>4. CASE \/ MonitorScaleGet \/ MonitorScaleGetFails
             \/ MonitorScaleUpdate \/ MonitorScaleUpdateFails
    BY <2>4 DEF MonitorScaleGet, MonitorScaleGetFails, MonitorScaleUpdate,
       MonitorScaleUpdateFails, processVars
  <2> QED
    BY <1>2, <2>1, <2>2, <2>3, <2>4 DEF Deactivate, MonitorStep
<1>3. CASE Reconcile \/ Workload \/ Shutdown
  BY <1>3 DEF Reconcile, PoolSet, Workload, Shutdown, Signal, processVars
<1>4. ASSUME NEW r \in Request, Arrive(r) PROVE UNCHANGED tickerVars
  BY <1>4 DEF Arrive, MayActivate, processVars, tickerVars
<1>5. CASE Restart
  BY <1>5 DEF Restart, Reset
<1> QED
  BY <1>1, <1>2, <1>3, <1>4, <1>5 DEF Act, tickerVars

\* Time moves one unit from what is left of the period to the quiet time, but
\* not while a request is about to reset the ticker or a waiter is released.
LEMMA IdleElapse ==
  ASSUME GuardInv, GuardInv', IdleInv, Elapse, UNCHANGED released,
         quiet' = IF quiet < period THEN quiet + 1 ELSE quiet
  PROVE  IdleInv'
<1>t. /\ period \in Nat /\ left \in Nat /\ (left = 0 => period = 0) /\ quiet \in Nat
  BY DEF GuardInv, TypeInv, TypeOK, ProcessTypeOK, IdleInv
<1>1. /\ left' = IF left > 1 THEN left - 1 ELSE period
      /\ period' = period
      /\ pending' => pending \/ left = 1
  BY DEF Elapse, TickerElapse
<1>2. /\ \A r \in Request : ~Urgent(r)
      /\ \A q \in Request : pc'[q] = "wait" => pc[q] = "wait"
      /\ waitOn' = waitOn /\ closed' = closed
  BY DEF Elapse, RequestsElapse, guardVars
<1>3. \A r \in Request : pc[r] # "reset"
  BY <1>2 DEF Urgent
<1>4. \A q \in Request : ~(pc'[q] = "wait" /\ waitOn'[q] \in released')
  BY <1>2 DEF Urgent, IdleInv
<1>5. quiet + left >= period
  BY <1>3 DEF IdleInv
<1>6. quiet' \in Nat /\ quiet' + left' >= period'
  BY <1>1, <1>5, <1>t
<1>7. pending' => quiet' >= period'
  <2>1. CASE pending
    BY <2>1, <1>1, <1>t DEF IdleInv
  <2>2. CASE left = 1
    BY <2>2, <1>1, <1>5, <1>t
  <2> QED
    BY <1>1, <2>1, <2>2, Zenon
<1>8. released' \subseteq closed'
  BY <1>2 DEF IdleInv
<1> QED
  BY <1>4, <1>6, <1>7, <1>8 DEF IdleInv

\* The steps that take no time.
LEMMA IdleAct ==
  ASSUME DelaysOutlastScaling, GuardInv, GuardInv', QuietWhileScaling, IdleInv, Act,
         quiet' = IF LetThrough THEN 0 ELSE quiet,
         released' = {c \in closed' : c \in released \/ (c \notin closed /\ Succeeds)}
  PROVE  IdleInv'
<1>t. /\ period \in Nat /\ left \in Nat /\ quiet \in Nat
      /\ period' \in Nat /\ left' \in Nat
  BY DEF GuardInv, TypeInv, TypeOK, ProcessTypeOK, IdleInv
<1>0. quiet' \in Nat /\ (LetThrough => quiet' = 0) /\ (~LetThrough => quiet' = quiet)
  <2>1. CASE LetThrough
    <3>1. quiet' = 0
      BY <2>1, Zenon
    <3> QED
      BY <2>1, <3>1
  <2>2. CASE ~LetThrough
    <3>1. quiet' = quiet
      BY <2>2, Zenon
    <3> QED
      BY <2>2, <3>1, <1>t
  <2> QED
    BY <2>1, <2>2
<1>c. released' \subseteq closed'
  OBVIOUS
<1>1. CASE left' = period' /\ ~pending'
  <2>1. quiet' + left' >= period'
    <3>1. \A m, n \in Nat : m + n >= n
      OBVIOUS
    <3>2. quiet' + period' >= period'
      BY <1>0, <1>t, <3>1, Zenon
    <3> QED
      BY <1>1, <3>2, Zenon
  <2> QED
    BY <1>0, <1>1, <1>c, <2>1, Zenon DEF IdleInv, Refreshed
<1>2. CASE ~(left' = period' /\ ~pending')
  <2>1. UNCHANGED <<period, left>> /\ (pending' => pending)
    BY <1>2, TickerStep
  <2>2. \A r \in Request : pc[r] = "reset" => pc'[r] = "reset"
    BY <1>2, ResetLeft
  <2>3. Refreshed => Refreshed'
    BY <2>1, <2>2 DEF Refreshed
  <2>4. LetThrough => ~pending /\ Refreshed
    BY <2>2 DEF LetThrough, IdleInv
  <2>5. Succeeds => ~pending /\ \E r \in Request : pc'[r] = "reset"
    BY DEF Succeeds, QuietWhileScaling, PolledOnce, GuardInv, ScalerInv, Scaling
  <2>6. \A q \in Request : pc'[q] = "wait" /\ waitOn'[q] \in released' => ~pending' /\ Refreshed'
    <3> SUFFICES ASSUME NEW q \in Request, pc'[q] = "wait", waitOn'[q] \in released'
                 PROVE  ~pending' /\ Refreshed'
      OBVIOUS
    <3>1. (pc[q] = "wait" /\ waitOn[q] \in released) \/ Succeeds
      BY WaitReleased DEF IdleInv
    <3>2. CASE pc[q] = "wait" /\ waitOn[q] \in released
      BY <3>2, <2>1, <2>3 DEF IdleInv
    <3>3. CASE Succeeds
      BY <3>3, <2>1, <2>5 DEF Refreshed
    <3> QED
      BY <3>1, <3>2, <3>3
  <2>7. quiet' + left' >= period' \/ \E r \in Request : pc'[r] = "reset"
    <3>1. CASE LetThrough
      BY <3>1, <1>0, <1>t, <2>1, <2>2, <2>4 DEF Refreshed
    <3>2. CASE ~LetThrough
      BY <3>2, <1>0, <2>1, <2>2 DEF IdleInv
    <3> QED
      BY <3>1, <3>2
  <2>8. pending' => quiet' >= period'
    <3> SUFFICES ASSUME pending' PROVE quiet' >= period'
      OBVIOUS
    <3>1. pending /\ ~LetThrough
      BY <2>1, <2>4
    <3> QED
      BY <3>1, <1>0, <2>1 DEF IdleInv
  <2> QED
    BY <1>0, <1>c, <2>6, <2>7, <2>8 DEF IdleInv
<1> QED
  BY <1>1, <1>2

(* However requests, polls, other pools and restarts reset the ticker, a     *)
(* tick waits for the deactivator only when no request, the waiters of a     *)
(* successful scale-up included, has been let through to ready pods for a    *)
(* whole period: for any number of requests and any delays that outlast a    *)
(* scale-up.                                                                 *)
THEOREM TicksMeanIdleness == TimedSpec => []IdleBeforeTick
<1> DEFINE I == DelaysOutlastScaling => IdleInv
<1>1. TimedInit => I
  <2> SUFFICES ASSUME TimedInit PROVE IdleInv
    OBVIOUS
  <2>1. /\ quiet = 0 /\ left = period /\ pending = FALSE /\ period \in Nat /\ released = {}
    BY ProcessAssumption DEF TimedInit, Init, ProcessInit
  <2> QED
    BY <2>1 DEF IdleInv
<1>2. I /\ GuardInv /\ GuardInv' /\ QuietWhileScaling /\ [TimedNext]_timedVars => I'
  <2> SUFFICES ASSUME I, GuardInv, GuardInv', QuietWhileScaling, [TimedNext]_timedVars,
                      DelaysOutlastScaling
               PROVE  IdleInv'
    BY DEF DelaysOutlastScaling
  <2>1. CASE UNCHANGED timedVars
    BY <2>1 DEF IdleInv, Refreshed, timedVars, vars, requestVars, processVars
  <2> QED
    BY <2>1, IdleElapse, IdleAct DEF TimedNext
<1>3. TimedSpec => []GuardInv /\ []QuietWhileScaling
  BY TimedImplements, GuardInvariance, QuietTicker, PTL
<1>4. I => IdleBeforeTick
  BY DEF IdleInv, IdleBeforeTick
<1> QED
  BY <1>1, <1>2, <1>3, <1>4, PTL DEF TimedSpec
=============================================================================
