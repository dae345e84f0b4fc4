---------------------------- MODULE Deactivator -----------------------------
(***************************************************************************)
(* requestcontrol/deactivator.go: the one goroutine that scales the        *)
(* workload to zero when the idleness ticker fires.  dpc is where it       *)
(* stands: "start", in "select", waiting for "scaleGet" or "update" to     *)
(* return, or "stopped".                                                   *)
(***************************************************************************)
EXTENDS Process, ScaleTarget

CONSTANT Monitor   \* the deactivator as a client of the scale subresource

ASSUME DeactivatorAssumption == Monitor \in Client

VARIABLE dpc

DeactivatorTypeOK == dpc \in {"start", "select", "scaleGet", "update", "stopped"}

DeactivatorInit == dpc = "start"

\* ResetTicker and GetTicker, before the loop.
MonitorStart ==
  /\ dpc = "start"
  /\ ResetTicker(DefaultDelay)
  /\ dpc' = "select"
  /\ UNCHANGED targetVars

\* ctx.Done() and the deferred StopTicker.
MonitorStop ==
  /\ dpc = "select"
  /\ phase = "stopping"
  /\ StopTicker
  /\ dpc' = "stopped"
  /\ UNCHANGED targetVars

\* A tick, and PoolGet returns a pool with the required annotations and a
\* known resource.
MonitorTick ==
  /\ dpc = "select"
  /\ pool # NoPool /\ pool.valid
  /\ ReceiveTick
  /\ dpc' = "scaleGet"
  /\ UNCHANGED <<pool, phase, targetVars>>

\* A tick, and an annotation is missing or GetResourceForKind fails.
MonitorTickSkipped ==
  /\ dpc = "select"
  /\ pool # NoPool
  /\ ReceiveTick
  /\ UNCHANGED <<dpc, pool, phase, targetVars>>

\* A tick, and PoolGet returns an error: the pool it logs is nil.
MonitorTickWithoutPool ==
  /\ dpc = "select"
  /\ pool = NoPool
  /\ pending
  /\ Panics("nilPoolDereference")
  /\ UNCHANGED <<dpc, targetVars>>

\* Scales.Get, and spec.replicas = 0 in the copy.
MonitorScaleGet ==
  /\ dpc = "scaleGet"
  /\ stale' = stale \ {Monitor}
  /\ dpc' = "update"
  /\ UNCHANGED <<replicas, readyReplicas, scaleObject, processVars>>

MonitorScaleGetFailsForGood ==
  /\ dpc = "scaleGet"
  /\ dpc' = "stopped"
  /\ UNCHANGED <<processVars, targetVars>>

MonitorScaleGetFails ==
  /\ dpc = "scaleGet"
  /\ dpc' = "select"
  /\ UNCHANGED <<processVars, targetVars>>

MonitorScaleUpdate ==
  /\ dpc = "update"
  /\ ScaleUpdate(Monitor, 0)
  /\ dpc' = "select"
  /\ UNCHANGED <<scaleObject, processVars>>

\* A conflict with another writer, or any API error: logged, not retried.
MonitorScaleUpdateFails ==
  /\ dpc = "update"
  /\ ForgetScale(Monitor)
  /\ dpc' = "select"
  /\ UNCHANGED processVars

MonitorStep ==
  /\ Alive
  /\ \/ MonitorStart
     \/ MonitorStop
     \/ MonitorTick
     \/ MonitorTickSkipped
     \/ MonitorTickWithoutPool
     \/ MonitorScaleGet
     \/ MonitorScaleGetFails
     \/ MonitorScaleUpdate
     \/ MonitorScaleUpdateFails
=============================================================================
