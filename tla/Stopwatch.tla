----------------------------- MODULE Stopwatch ------------------------------
(***************************************************************************)
(* ScaleToZero with two measurements of time that no variable of the       *)
(* program holds: how long each request has been in the waits the code     *)
(* bounds itself (waitOnGuard, the polls of InferencePoolPodsReady,        *)
(* time.Sleep; Scales.Get and Scales.Update have no timeout in the code    *)
(* and are not counted), and how long ago a request was let through to     *)
(* pods that had been found ready.                                         *)
(***************************************************************************)
EXTENDS ScaleToZero

VARIABLES
  age,      \* age[r]: what request r has waited so far
  quiet,    \* time since LetThrough, up to the ticker's period
  released  \* the channels closed after a scale-up that succeeded

timedVars == <<vars, age, quiet, released>>

TimedInit ==
  /\ Init
  /\ age = [r \in Request |-> 0]
  /\ quiet = 0
  /\ released = {}

\* scaleInferencePool returns true.
Succeeds == \E r \in Request : pc[r] = "endOk" /\ pc'[r] = "reset"

(***************************************************************************)
(* MayActivate returns nil and the pods have been found ready: by the      *)
(* request itself, which then resets the ticker, or by the scaler whose    *)
(* success ended its wait, in which case it resets nothing.  A waiter that *)
(* times out, or whose scaler failed, also goes on, and is not counted.    *)
(***************************************************************************)
LetThrough ==
  \E r \in Request :
    /\ pc[r] = "reset" \/ (pc[r] = "wait" /\ waitOn[r] \in released)
    /\ pc'[r] = "continue"

TimedNext ==
  \/ /\ Elapse
     /\ age' = [r \in Request |-> IF pc[r] \in Timed THEN age[r] + 1 ELSE age[r]]
     /\ quiet' = IF quiet < period THEN quiet + 1 ELSE quiet
     /\ UNCHANGED released
  \/ /\ Act
     /\ age' = [r \in Request |-> IF InFlight(r)' THEN age[r] ELSE 0]
     /\ quiet' = IF LetThrough THEN 0 ELSE quiet
     /\ released' = {c \in closed' : c \in released \/ (c \notin closed /\ Succeeds)}

TimedSpec == TimedInit /\ [][TimedNext]_timedVars

(* MayActivate's waits add up, over overlapping scale-ups, hanging GETs and  *)
(* pods that come and go, to at most the pool's grace period, the default    *)
(* grace period and the retention period: 125 s with the code's defaults,    *)
(* which is more than the 120 s message_timeout of the Envoy filter.  A      *)
(* request that only waits for another one's scale-up waits one default      *)
(* grace period.                                                             *)
AnsweredInTime ==
  \A r \in Request :
    InFlight(r) => age[r] <= IF pc[r] = "wait" THEN Grace
                                              ELSE view[r].grace + Grace + Retention

(* The deactivator is told of idleness only when there was some: while a     *)
(* tick waits for it, no request has been let through to ready pods for as   *)
(* long as the ticker's period, whoever set that period last: a request to   *)
(* its pool's delay, a poll to the default one, or a restart to the initial  *)
(* one.  The requests that a successful scale-up releases from waitOnGuard   *)
(* count, although they do not reset the ticker and may go before the scaler *)
(* does; for them the delays must outlast a scale-up.  Those that waitOnGuard *)
(* lets go without ready pods do not count: a tick may follow them at once.  *)
IdleBeforeTick == DelaysOutlastScaling => (pending => quiet >= period)
=============================================================================
