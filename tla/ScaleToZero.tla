---------------------------- MODULE ScaleToZero -----------------------------
(***************************************************************************)
(* The activator process beside its cluster: any number of requests in     *)
(* MayActivate, the deactivator, the reconciler that sets and clears the   *)
(* pool, the workload's own controllers, time, signals and restarts.       *)
(***************************************************************************)
EXTENDS Activator, Deactivator

ASSUME CompositionAssumption == Client = Request \cup {Monitor} /\ Monitor \notin Request

\* History: two requests of this process have been scaling up at once.
VARIABLE overlap

vars == <<requestVars, dpc, processVars, targetVars, overlap>>

TypeOK ==
  /\ ActivatorTypeOK
  /\ DeactivatorTypeOK
  /\ ProcessTypeOK
  /\ TargetTypeOK
  /\ overlap \in BOOLEAN

Init ==
  /\ ActivatorInit
  /\ DeactivatorInit
  /\ ProcessInit
  /\ TargetInit
  /\ overlap = FALSE

-----------------------------------------------------------------------------
Arrive(r) ==
  /\ MayActivate(r)
  /\ UNCHANGED <<dpc, overlap>>

Handle(r) ==
  /\ RequestStep(r)
  /\ overlap' = (overlap \/ (scaler # {} /\ ~(scaler' \subseteq scaler)))
  /\ UNCHANGED dpc

Deactivate ==
  /\ MonitorStep
  /\ UNCHANGED <<requestVars, overlap>>

\* Reconcile, down to its PoolSet or Clear.
Reconcile ==
  /\ \E p \in (Pool \cup {NoPool}) \ {pool} : PoolSet(p)
  /\ UNCHANGED <<requestVars, dpc, targetVars, overlap>>

\* The workload's controllers, its pods, and other writers of its scale.
Workload ==
  /\ PodReady \/ PodGone \/ OutsideScale
  /\ UNCHANGED <<requestVars, dpc, processVars, overlap>>

Elapse ==
  /\ Alive
  /\ RequestsElapse
  /\ TickerElapse
  /\ UNCHANGED <<pool, phase, dpc, targetVars, overlap>>

Shutdown ==
  /\ Signal
  /\ UNCHANGED <<requestVars, dpc, targetVars, overlap>>

\* The process has stopped or died and its container is started again.  The
\* copies of the Scale object die with it.
Restart ==
  /\ phase # "running"
  /\ RequestsLost
  /\ dpc' = "start"
  /\ pool' = NoPool
  /\ Reset(InitialPeriod)
  /\ phase' = "running"
  /\ scaleObject' = [c \in Client |-> 0]
  /\ stale' = Client
  /\ overlap' = FALSE
  /\ UNCHANGED <<replicas, readyReplicas>>

\* The steps that take no time.
Act ==
  \/ \E r \in Request : Arrive(r) \/ Handle(r)
  \/ Deactivate
  \/ Reconcile
  \/ Workload
  \/ Shutdown
  \/ Restart

Next == Act \/ Elapse

Spec == Init /\ [][Next]_vars

(***************************************************************************)
(* Goroutines keep running, time passes, calls to the API server return,   *)
(* and a container that ended is started again.                            *)
(***************************************************************************)
Fairness ==
  /\ \A r \in Request : WF_vars(Handle(r))
  /\ WF_vars(Deactivate)
  /\ WF_vars(Elapse)
  /\ WF_vars(Restart)

FairSpec == Spec /\ Fairness

\* The API server does not refuse the deactivator for ever: each of its three
\* calls succeeds if it is made again and again.
ApiFairness ==
  /\ SF_vars(Deactivate /\ dpc = "select" /\ dpc' = "scaleGet")
  /\ SF_vars(Deactivate /\ dpc = "scaleGet" /\ dpc' = "update")
  /\ SF_vars(Deactivate /\ dpc = "update" /\ replicas' = 0)

ApiFairSpec == FairSpec /\ ApiFairness

-----------------------------------------------------------------------------
(* The flag and the channel of the Activator agree: scalingUp is true exactly *)
(* when there is a guard, and that guard is open and was made by a request   *)
(* that is still scaling.  So endScalingUp never closes a channel twice, and *)
(* once the last scaler has left, with or without success, no request will   *)
(* wait on a scale-up that nobody performs.                                  *)
GuardOwned ==
  /\ scalingUp <=> guard # NoGuard
  /\ guard # NoGuard => guard \in scaler \ closed

(* As long as scale-ups do not overlap, endScalingUp closes the channel that *)
(* the same request made, and every request in waitOnGuard waits on a        *)
(* channel that is closed or whose maker will close it.                      *)
SoloScaling ==
  ~overlap =>
    /\ phase # "closeOfNilChannel"
    /\ scaler # {} => scaler = {guard}
    /\ \A r \in Request : pc[r] = "wait" => waitOn[r] \in closed \cup scaler

\* What each request is to the latch of Latch.tla, whom it waits for, how long.
role ==
  [r \in Request |-> IF r \in scaler THEN "scaling"
                    ELSE IF pc[r] = "wait" THEN "waiting"
                    ELSE IF pc[r] \in {"scaleGet", "begin"} \cup Polling THEN "cleared"
                    ELSE "out"]

joined == [r \in Request |-> IF pc[r] = "wait" THEN waitOn[r] ELSE NoGuard]

patience == [r \in Request |-> IF pc[r] = "wait" THEN timer[r] ELSE 0]

TheLatch == INSTANCE Latch WITH current <- guard, broken <- overlap

(* Flag, channels and timeouts implement the latch of Latch.tla until two    *)
(* scale-ups overlap: a request that arrives during a scale-up joins it and  *)
(* does not scale up itself, goes on as soon as that very scale-up has       *)
(* ended, by success or failure, and otherwise after the grace period, not   *)
(* sooner; and an overlap takes a request that looked at the flag before the *)
(* other one had set it.                                                     *)
LatchImplemented == TheLatch!Spec

InFlight(r) == pc[r] \notin {"idle"} \cup Answered

(* What each panic takes: closing a nil channel, scale-ups that overlapped;  *)
(* the deactivator's nil pointer, a tick that finds no pool; a non-positive  *)
(* period, a request about to reset the ticker to a delay of zero, never the *)
(* default one; the type assertion, a request that polls a target without    *)
(* status.  Nothing else ends the process, whatever requests, reconciler and *)
(* deactivator do to the guard, the pool and the ticker.                     *)
PanicsExplained ==
  /\ phase = "closeOfNilChannel" => overlap
  /\ phase = "nilPoolDereference" => pool = NoPool
  /\ phase = "nonPositivePeriod" =>
       \E r \in Request : pc[r] = "reset" /\ view[r].delay = 0
  /\ phase = "noStatus" =>
       StatusOptional /\ \E r \in Request : pc[r] \in {"get", "getLate"}

\* r has polled at least once in its current scale-up, or has seen it ready.
PolledOnce(r) ==
  \/ pc[r] \in {"get", "getLate", "sleep", "endOk"}
  \/ pc[r] = "poll" /\ timer[r] < Grace
  \/ pc[r] = "due" /\ timer[r] < Grace - 1

\* All delays the ticker can be set to outlast a scale-up and its retention.
DelaysOutlastScaling ==
  /\ DefaultDelay >= Grace + Retention
  /\ \A p \in Pool : p.delay = 0 \/ p.delay >= Grace + Retention

(* ResetTicker in the poll turns the deactivator off: from a scaler's first  *)
(* poll until it releases its request no idleness tick fires, even when the  *)
(* GETs hang, other requests reset the ticker to their own delay, or the     *)
(* pods take the whole grace period.                                         *)
QuietWhileScaling ==
  DelaysOutlastScaling => \A r \in scaler : PolledOnce(r) => ~pending

(* Every MayActivate call returns, whatever happens to the guard it waits on *)
(* (the process may also end under it): overlapping scale-ups, a scaler that *)
(* fails, pods that never become ready, a GET that hangs.                    *)
RequestsAnswered == \A r \in Request : InFlight(r) ~> ~InFlight(r)

\* The process runs, its pool can be scaled, and no request is being handled.
Idle ==
  /\ phase = "running"
  /\ pool # NoPool /\ pool.valid
  /\ \A r \in Request : ~InFlight(r)

(* An idle pool is scaled to zero, and again whenever somebody else scales   *)
(* it up: a tick that found the API server failing, an update that lost to   *)
(* another writer and a restart only delay it.                               *)
IdleScalesToZero == <>[]Idle => []<>(replicas = 0)

-----------------------------------------------------------------------------
(* What comments of the code say and the code does not do *)

(* "This blocks until a signal is received" (runner.go:196): endScalingUp    *)
(* does not end the process by closing a nil channel.                        *)
NoCloseOfNilChannel == phase # "closeOfNilChannel"

(* "turn off the deactivator during scale from zero events"                  *)
(* (activator.go:170): once a scaler has polled, the deactivator does not    *)
(* scale the workload to zero under it.                                      *)
DeactivatorOffWhileScaling ==
  [][dpc = "update" /\ dpc' = "select" /\ replicas > replicas'
       => \A r \in scaler : ~PolledOnce(r)]_vars

(* "Need to scale inferencePool workload from zero to one replicas"          *)
(* (activator.go:160): the activator's update never takes replicas away.     *)
ActivatorNeverScalesDown ==
  [][\A r \in Request : pc[r] = "update" /\ pc'[r] = "poll" => replicas' >= replicas]_vars
=============================================================================
