----------------------------- MODULE Activator ------------------------------
(***************************************************************************)
(* requestcontrol/activator.go: what one MayActivate call, run by the      *)
(* goroutine of one ext-proc stream, does to the shared guard, the ticker  *)
(* and the scale subresource.  pc[r] is where request r stands:            *)
(*                                                                         *)
(*   idle      the request has not arrived                                 *)
(*   check     PoolGet returned a pool, isScalingUp is next                *)
(*   wait      in waitOnGuard                                              *)
(*   scaleGet  annotations, REST mapping and Scales.Get are next           *)
(*   poll      InferencePoolPodsReady waits for its next one-second tick   *)
(*   due       the tick is there, ResetTicker is next                      *)
(*   get       the GET of the target object is out                         *)
(*   getLate   the same, and the next tick is already there                *)
(*   begin     scaleInferencePool is next                                  *)
(*   update    Scales.Update is out                                        *)
(*   sleep     in time.Sleep after the pods became ready                   *)
(*   endOk, endFail  the deferred endScalingUp is next                     *)
(*   reset     InferencePoolReady was true, ResetTicker is next            *)
(*                                                                         *)
(* and, once answered: continue (nil), unavailable (ServiceUnavailable),   *)
(* error (the PoolGet error), lost (the process ended first).              *)
(*                                                                         *)
(* A call to the API server is out for any time and may always fail; time  *)
(* is counted in polling intervals.                                        *)
(***************************************************************************)
EXTENDS Process, ScaleTarget

CONSTANTS
  Request,    \* requests, one MayActivate call each
  NoGuard,    \* the nil channel
  Grace,      \* DefaultScaleFromZeroGracePeriod
  Retention   \* ScaleToZeroRequestRetentionPeriod

ASSUME ActivatorAssumption ==
  /\ Request \subseteq Client
  /\ NoGuard \notin Request
  /\ Grace \in Nat \ {0}
  /\ Retention \in Nat \ {0}

VARIABLES
  pc,
  view,       \* view[r]: the pool r got from the datastore
  timer,      \* timer[r]: what is left of r's current timeout or sleep
  scaler,     \* the requests between beginScalingUp and endScalingUp
  scalingUp,  \* Activator.scalingUp
  guard,      \* Activator.guard: the request that made the channel
  closed,     \* the channels that are closed
  waitOn      \* waitOn[r]: the channel r got from isScalingUp

guardVars == <<scaler, scalingUp, guard, closed>>
requestVars == <<pc, view, timer, scaler, scalingUp, guard, closed, waitOn>>

Answered == {"continue", "unavailable", "error", "lost"}
Label == {"idle", "check", "wait", "scaleGet", "poll", "due", "get", "getLate",
          "begin", "update", "sleep", "endOk", "endFail", "reset"} \cup Answered

\* The steps during which timer[r] runs, and the part of them in which
\* InferencePoolPodsReady polls.
Polling == {"poll", "due", "get", "getLate"}
Timed == Polling \cup {"wait", "sleep"}

ActivatorTypeOK ==
  /\ pc \in [Request -> Label]
  /\ view \in [Request -> Pool \cup {NoPool}]
  /\ timer \in [Request -> Nat]
  /\ scaler \in SUBSET Request
  /\ scalingUp \in BOOLEAN
  /\ guard \in Request \cup {NoGuard}
  /\ closed \in SUBSET Request
  /\ waitOn \in [Request -> Request \cup {NoGuard}]

\* NewActivatorWithConfig
ActivatorInit ==
  /\ pc = [r \in Request |-> "idle"]
  /\ view = [r \in Request |-> NoPool]
  /\ timer = [r \in Request |-> 0]
  /\ scaler = {}
  /\ scalingUp = FALSE
  /\ guard = NoGuard
  /\ closed = {}
  /\ waitOn = [r \in Request |-> NoGuard]

Goto(r, to) == pc' = [pc EXCEPT ![r] = to]

\* r goes on to a step with a timeout of t.
GotoTimed(r, to, t) ==
  /\ Goto(r, to)
  /\ timer' = [timer EXCEPT ![r] = t]

\* r is answered; what its goroutine held goes out of scope.
Answer(r, a) ==
  /\ pc' = [pc EXCEPT ![r] = a]
  /\ view' = [view EXCEPT ![r] = NoPool]
  /\ timer' = [timer EXCEPT ![r] = 0]
  /\ waitOn' = [waitOn EXCEPT ![r] = NoGuard]

-----------------------------------------------------------------------------
(* MayActivate up to the wait *)

\* PoolGet, and the return of its error.
MayActivate(r) ==
  /\ pc[r] = "idle"
  /\ phase = "running"
  /\ \/ /\ pool = NoPool
        /\ Answer(r, "error")
     \/ /\ pool # NoPool
        /\ Goto(r, "check")
        /\ view' = [view EXCEPT ![r] = pool]
        /\ UNCHANGED <<timer, waitOn>>
  /\ UNCHANGED <<guardVars, processVars, targetVars>>

IsScalingUpNeverWaits(r) ==
  /\ pc[r] = "check"
  /\ Goto(r, "scaleGet")
  /\ UNCHANGED <<timer, waitOn, view, guardVars, processVars, targetVars>>

\* isScalingUp, and the decision taken on what it returned.
IsScalingUp(r) ==
  /\ pc[r] = "check"
  /\ \/ /\ scalingUp
        /\ GotoTimed(r, "wait", Grace)
        /\ waitOn' = [waitOn EXCEPT ![r] = guard]
     \/ /\ ~scalingUp
        /\ Goto(r, "scaleGet")
        /\ UNCHANGED <<timer, waitOn>>
  /\ UNCHANGED <<view, guardVars, processVars, targetVars>>

\* waitOnGuard: the channel is closed.
WaitDone(r) ==
  /\ pc[r] = "wait"
  /\ waitOn[r] \in closed
  /\ Answer(r, "continue")
  /\ UNCHANGED <<guardVars, processVars, targetVars>>

\* waitOnGuard: time.After.  The request proceeds all the same.
WaitTimeout(r) ==
  /\ pc[r] = "wait"
  /\ timer[r] = 0
  /\ Answer(r, "continue")
  /\ UNCHANGED <<guardVars, processVars, targetVars>>

-----------------------------------------------------------------------------
(* InferencePoolReady *)

\* VerifyPoolObjectAnnotations: a required annotation is missing.
PoolNotAnnotated(r) ==
  /\ pc[r] = "scaleGet"
  /\ ~view[r].valid
  /\ Answer(r, "unavailable")
  /\ UNCHANGED <<guardVars, processVars, targetVars>>

\* The apiVersion does not parse, or the REST mapper does not know the kind.
GetResourceForKindFails(r) ==
  /\ pc[r] = "scaleGet"
  /\ view[r].valid
  /\ Answer(r, "unavailable")
  /\ UNCHANGED <<guardVars, processVars, targetVars>>

\* Scales.Get fails: the pool counts as ready.
ScaleGetFails(r) ==
  /\ pc[r] = "scaleGet"
  /\ view[r].valid
  /\ Goto(r, "reset")
  /\ UNCHANGED <<view, timer, waitOn, guardVars, processVars, targetVars>>

\* Scales.Get, and the test of spec.replicas.
ScaleGetReturns(r) ==
  /\ pc[r] = "scaleGet"
  /\ view[r].valid
  /\ ScaleGet(r)
  /\ IF replicas > 0
     THEN GotoTimed(r, "poll", view[r].grace)
     ELSE Goto(r, "begin") /\ UNCHANGED timer
  /\ UNCHANGED <<view, waitOn, guardVars, processVars>>

-----------------------------------------------------------------------------
(* InferencePoolPodsReady, called before (r not in scaler) and after         *)
(* (r in scaler) the scale-up                                                *)

PollDueWithoutReset(r) ==
  /\ pc[r] = "due"
  /\ Goto(r, "get")
  /\ UNCHANGED <<view, timer, waitOn, guardVars, processVars, targetVars>>

\* ResetTicker at the start of the condition function.
PollDue(r) ==
  /\ pc[r] = "due"
  /\ ResetTicker(DefaultDelay)
  /\ Goto(r, "get")
  /\ UNCHANGED <<view, timer, waitOn, guardVars, targetVars>>

PollNotReadyStartsOver(r) ==
  /\ pc[r] \in {"get", "getLate"}
  /\ GotoTimed(r, IF pc[r] = "get" THEN "poll" ELSE "due", view[r].grace)
  /\ UNCHANGED <<view, waitOn, guardVars, processVars, targetVars>>

\* The GET fails, or readyReplicas is unset or not the wanted number.  A tick
\* that came while the GET was out starts the next round at once.
PollNotReady(r) ==
  /\ pc[r] \in {"get", "getLate"}
  /\ Goto(r, IF pc[r] = "get" THEN "poll" ELSE "due")
  /\ UNCHANGED <<view, timer, waitOn, guardVars, processVars, targetVars>>

\* The object has no status yet: the type assertion on it panics.
PollWithoutStatus(r) ==
  /\ pc[r] \in {"get", "getLate"}
  /\ StatusOptional /\ readyReplicas = 0
  /\ Panics("noStatus")
  /\ UNCHANGED <<pc, view, timer, waitOn, guardVars, targetVars>>

\* numReplicas == readyReplicas
PollReady(r) ==
  /\ pc[r] \in {"get", "getLate"}
  /\ readyReplicas = scaleObject[r]
  /\ IF r \in scaler
     THEN GotoTimed(r, "sleep", Retention)
     ELSE GotoTimed(r, "reset", 0)
  /\ UNCHANGED <<view, waitOn, guardVars, processVars, targetVars>>

\* The poll's context expires, which also cancels the GET.
PollTimeout(r) ==
  /\ pc[r] \in Polling
  /\ timer[r] = 0
  /\ Goto(r, IF r \in scaler THEN "endFail" ELSE "begin")
  /\ UNCHANGED <<view, timer, waitOn, guardVars, processVars, targetVars>>

-----------------------------------------------------------------------------
(* scaleInferencePool *)

beginScalingUp(r) ==
  /\ scalingUp' = TRUE
  /\ guard' = r

ScaleInferencePoolIncrements(r) ==
  /\ pc[r] = "begin"
  /\ beginScalingUp(r)
  /\ scaler' = scaler \cup {r}
  /\ scaleObject' = [scaleObject EXCEPT ![r] = @ + 1]
  /\ Goto(r, "update")
  /\ UNCHANGED <<view, timer, closed, waitOn, processVars>>
  /\ UNCHANGED <<replicas, readyReplicas, stale>>

\* beginScalingUp, and spec.replicas = 1 in the copy.
ScaleInferencePool(r) ==
  /\ pc[r] = "begin"
  /\ beginScalingUp(r)
  /\ scaler' = scaler \cup {r}
  /\ scaleObject' = [scaleObject EXCEPT ![r] = 1]
  /\ Goto(r, "update")
  /\ UNCHANGED <<view, timer, closed, waitOn, processVars>>
  /\ UNCHANGED <<replicas, readyReplicas, stale>>

\* Scales.Update succeeds.
ScaleUpdateReturns(r) ==
  /\ pc[r] = "update"
  /\ ScaleUpdate(r, scaleObject[r])
  /\ GotoTimed(r, "poll", Grace)
  /\ UNCHANGED <<view, waitOn, scaleObject, guardVars, processVars>>

\* Scales.Update fails: a conflict with another writer, or any API error.
ScaleUpdateFails(r) ==
  /\ pc[r] = "update"
  /\ Goto(r, "endFail")
  /\ UNCHANGED <<view, timer, waitOn, guardVars, processVars, targetVars>>

\* The end of time.Sleep.
Slept(r) ==
  /\ pc[r] = "sleep"
  /\ timer[r] = 0
  /\ Goto(r, "endOk")
  /\ UNCHANGED <<view, timer, waitOn, guardVars, processVars, targetVars>>

\* The return of scaleInferencePool, and of MayActivate when it failed.
ReturnFromScaling(r) ==
  \/ /\ pc[r] = "endOk"
     /\ Goto(r, "reset")
     /\ UNCHANGED <<view, timer, waitOn>>
  \/ /\ pc[r] = "endFail"
     /\ Answer(r, "unavailable")

EndScalingUpKeepsGuard(r) ==
  /\ pc[r] \in {"endOk", "endFail"}
  /\ scalingUp' = FALSE
  /\ closed' = closed \cup {guard}
  /\ scaler' = scaler \ {r}
  /\ ReturnFromScaling(r)
  /\ ForgetScale(r)
  /\ UNCHANGED <<guard, processVars>>

EndScalingUpWithoutClose(r) ==
  /\ pc[r] \in {"endOk", "endFail"}
  /\ scalingUp' = FALSE
  /\ guard' = NoGuard
  /\ scaler' = scaler \ {r}
  /\ ReturnFromScaling(r)
  /\ ForgetScale(r)
  /\ UNCHANGED <<closed, processVars>>

EndScalingUpForgetsFirst(r) ==
  /\ pc[r] \in {"endOk", "endFail"}
  /\ scalingUp' = FALSE
  /\ guard' = NoGuard
  /\ Panics("closeOfNilChannel")
  /\ UNCHANGED <<pc, view, timer, scaler, closed, waitOn, targetVars>>

\* endScalingUp: closing a nil channel panics.
EndScalingUp(r) ==
  /\ pc[r] \in {"endOk", "endFail"}
  /\ scalingUp' = FALSE
  /\ \/ /\ guard = NoGuard
        /\ Panics("closeOfNilChannel")
        /\ UNCHANGED <<pc, view, timer, scaler, guard, closed, waitOn, targetVars>>
     \/ /\ guard # NoGuard
        /\ closed' = closed \cup {guard}
        /\ guard' = NoGuard
        /\ scaler' = scaler \ {r}
        /\ ReturnFromScaling(r)
        /\ ForgetScale(r)
        /\ UNCHANGED processVars

-----------------------------------------------------------------------------
ResetScaleDownDelayOmitted(r) ==
  /\ pc[r] = "reset"
  /\ Answer(r, "continue")
  /\ ForgetScale(r)
  /\ UNCHANGED <<guardVars, processVars>>

\* MayActivate resets the ticker to the pool's scale-down delay and returns,
\* unless the reset panics.
ResetScaleDownDelay(r) ==
  /\ pc[r] = "reset"
  /\ ResetTicker(view[r].delay)
  /\ \/ /\ phase' = phase
        /\ Answer(r, "continue")
        /\ ForgetScale(r)
     \/ /\ phase' # phase
        /\ UNCHANGED <<pc, view, timer, waitOn, targetVars>>
  /\ UNCHANGED guardVars

-----------------------------------------------------------------------------
\* The steps of a request that has arrived.
RequestStep(r) ==
  /\ Alive
  /\ \/ IsScalingUp(r)
     \/ WaitDone(r)
     \/ WaitTimeout(r)
     \/ PoolNotAnnotated(r)
     \/ GetResourceForKindFails(r)
     \/ ScaleGetFails(r)
     \/ ScaleGetReturns(r)
     \/ PollDue(r)
     \/ PollNotReady(r)
     \/ PollWithoutStatus(r)
     \/ PollReady(r)
     \/ PollTimeout(r)
     \/ ScaleInferencePool(r)
     \/ ScaleUpdateReturns(r)
     \/ ScaleUpdateFails(r)
     \/ Slept(r)
     \/ EndScalingUp(r)
     \/ ResetScaleDownDelay(r)

\* r has something to do that takes no time: a step of its own goroutine, or
\* the expiry of a timer.
Urgent(r) ==
  \/ pc[r] \in {"check", "due", "begin", "endOk", "endFail", "reset"}
  \/ pc[r] = "wait" /\ waitOn[r] \in closed
  \/ pc[r] \in Timed /\ timer[r] = 0

\* One unit of time passes for the requests: timers run, polls come due.
RequestsElapse ==
  /\ \A r \in Request : ~Urgent(r)
  /\ timer' = [r \in Request |-> IF pc[r] \in Timed THEN timer[r] - 1 ELSE timer[r]]
  /\ pc' = [r \in Request |-> CASE pc[r] = "poll" -> "due"
                                [] pc[r] = "get" -> "getLate"
                                [] OTHER -> pc[r]]
  /\ UNCHANGED <<view, waitOn, guardVars>>

\* The process ends: requests in flight get no answer, its memory is gone.
RequestsLost ==
  /\ pc' = [r \in Request |-> IF pc[r] \in {"idle"} \cup Answered THEN pc[r] ELSE "lost"]
  /\ view' = [r \in Request |-> NoPool]
  /\ timer' = [r \in Request |-> 0]
  /\ scaler' = {}
  /\ scalingUp' = FALSE
  /\ guard' = NoGuard
  /\ closed' = {}
  /\ waitOn' = [r \in Request |-> NoGuard]
=============================================================================
