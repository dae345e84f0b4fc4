------------------------------ MODULE Replicas ------------------------------
(***************************************************************************)
(* Several replicas of the activator, with --ha-enable-leader-election or  *)
(* without: the health server's Check and List (health.go), isLeader       *)
(* (runner.go), what runs on the leader only and what runs everywhere, and *)
(* the deactivator, which Run starts on every replica.                     *)
(*                                                                         *)
(* The lease and the manager's use of it are controller-runtime's.  A      *)
(* manager that cannot renew its lease makes mgr.Start return an error, so *)
(* that main exits; it gives up (10 s) before the lease expires (15 s).    *)
(* One that is told to stop releases the lease only after its runnables    *)
(* have been waited for (LeaderElectionReleaseOnCancel).  A restarted      *)
(* process is a new candidate, and has to wait for its old lease to expire. *)
(***************************************************************************)

CONSTANTS
  Replica,
  NoHolder,   \* the lease is free
  Expiring    \* the lease is held by a process that is gone

ASSUME ReplicasAssumption ==
  NoHolder \notin Replica /\ Expiring \notin Replica /\ NoHolder # Expiring

VARIABLES
  leaderElectionEnabled,  \* --ha-enable-leader-election
  stage,     \* stage[p]: "down", "up", "stopping", or "lost" (its lease)
  holder,    \* who holds the lease
  leading,   \* leading[p]: p runs the runnables that need leader election
  isLeader,  \* isLeader[p]: the atomic.Bool the health server reads
  pool,      \* pool[p]: the datastore of p holds a pool
  object,    \* the InferencePool exists in the cluster
  acting,    \* acting[p]: a request or the deactivator of p got the pool from
             \* PoolGet and has yet to write the scale subresource
  stray,     \* a replica has written it without holding the lease
  calm       \* the world outside stops disturbing the replicas

electionVars == <<leaderElectionEnabled, stage, holder, leading, isLeader>>
actVars == <<acting, stray>>
vars == <<electionVars, pool, object, calm, actVars>>

TypeOK ==
  /\ leaderElectionEnabled \in BOOLEAN
  /\ stage \in [Replica -> {"down", "up", "stopping", "lost"}]
  /\ holder \in Replica \cup {NoHolder, Expiring}
  /\ leading \in [Replica -> BOOLEAN]
  /\ isLeader \in [Replica -> BOOLEAN]
  /\ pool \in [Replica -> BOOLEAN]
  /\ object \in BOOLEAN
  /\ calm \in BOOLEAN
  /\ acting \in [Replica -> BOOLEAN]
  /\ stray \in BOOLEAN

Init ==
  /\ leaderElectionEnabled \in BOOLEAN
  /\ stage = [p \in Replica |-> "down"]
  /\ holder = NoHolder
  /\ leading = [p \in Replica |-> FALSE]
  /\ isLeader = [p \in Replica |-> FALSE]
  /\ pool = [p \in Replica |-> FALSE]
  /\ object \in BOOLEAN
  /\ calm = FALSE
  /\ acting = [p \in Replica |-> FALSE]
  /\ stray = FALSE

Running(p) == stage[p] # "down"

NeedLeaderElectionNever(runnable) == FALSE

\* Both gRPC servers are wrapped in NoLeaderElection; a controller is not.
NeedLeaderElection(runnable) == runnable \notin {"ext-proc", "health"}

\* The manager of p runs this runnable.
Runs(p, runnable) == Running(p) /\ (NeedLeaderElection(runnable) => leading[p])

-----------------------------------------------------------------------------
(* The health server *)

LivenessCheckService == "liveness"
ReadinessCheckService == "readiness"
ExternalProcessor == "envoy.service.ext_proc.v3.ExternalProcessor"

Status(isPassing) == IF isPassing THEN "SERVING" ELSE "NOT_SERVING"

Check(p, service) ==
  IF ~leaderElectionEnabled
  THEN Status(pool[p])
  ELSE CASE service \in {ReadinessCheckService, "", ExternalProcessor} ->
              Status(pool[p] /\ isLeader[p])
         [] service = LivenessCheckService -> Status(TRUE)
         [] OTHER -> "SERVICE_UNKNOWN"

List(p) ==
  [service \in {ExternalProcessor} \cup
               (IF leaderElectionEnabled THEN {LivenessCheckService, ReadinessCheckService}
                                         ELSE {})
     |-> Check(p, service)]

-----------------------------------------------------------------------------
(* A replica *)

\* Run, up to mgr.Start.  Without leader election every replica is a "leader".
Start(p) ==
  /\ stage[p] = "down"
  /\ stage' = [stage EXCEPT ![p] = "up"]
  /\ leading' = [leading EXCEPT ![p] = ~leaderElectionEnabled]
  /\ isLeader' = [isLeader EXCEPT ![p] = ~leaderElectionEnabled]
  /\ UNCHANGED <<leaderElectionEnabled, holder, pool, object, calm, actVars>>

\* The process ends, and leaves the lease, if it holds it, as given.
Ends(p, lease) ==
  /\ stage' = [stage EXCEPT ![p] = "down"]
  /\ holder' = IF holder = p THEN lease ELSE holder
  /\ leading' = [leading EXCEPT ![p] = FALSE]
  /\ isLeader' = [isLeader EXCEPT ![p] = FALSE]
  /\ pool' = [pool EXCEPT ![p] = FALSE]
  /\ acting' = [acting EXCEPT ![p] = FALSE]
  /\ UNCHANGED <<leaderElectionEnabled, object, calm, stray>>

\* The manager becomes the holder of the lease ...
AcquireLease(p) ==
  /\ leaderElectionEnabled
  /\ stage[p] = "up" /\ holder = NoHolder
  /\ holder' = p
  /\ UNCHANGED <<leaderElectionEnabled, stage, leading, isLeader, pool, object, calm, actVars>>

\* ... and then starts what needs leader election.
StartLeading(p) ==
  /\ stage[p] = "up" /\ holder = p /\ ~leading[p]
  /\ leading' = [leading EXCEPT ![p] = TRUE]
  /\ UNCHANGED <<leaderElectionEnabled, stage, holder, isLeader, pool, object, calm, actVars>>

ElectedUnnoticed(p) ==
  /\ Running(p) /\ leading[p] /\ ~isLeader[p]
  /\ UNCHANGED vars

\* <-mgr.Elected(), isLeader.Store(true).  Nothing stores false again.
Elected(p) ==
  /\ Running(p) /\ leading[p] /\ ~isLeader[p]
  /\ isLeader' = [isLeader EXCEPT ![p] = TRUE]
  /\ UNCHANGED <<leaderElectionEnabled, stage, holder, leading, pool, object, calm, actVars>>

\* The reconciler brings the datastore up to date (Reconciler.tla).
Reconcile(p) ==
  /\ Runs(p, "reconciler") /\ pool[p] # object
  /\ pool' = [pool EXCEPT ![p] = object]
  /\ UNCHANGED <<electionVars, object, calm, actVars>>

\* The ext-proc server handles a request.  MayActivate goes on to look at the
\* scale if there is a pool; if there is none the error of PoolGet has no code,
\* the stream ends without a response, and Envoy lets the request through:
\* nothing remembers it, here or on the leader.
Handle(p) ==
  /\ Runs(p, "ext-proc")
  /\ \/ /\ pool[p] /\ ~acting[p]
        /\ acting' = [acting EXCEPT ![p] = TRUE]
     \/ /\ ~pool[p]
        /\ UNCHANGED acting
  /\ UNCHANGED <<electionVars, pool, object, calm, stray>>

\* A tick of the deactivator, which runs on every replica, with a pool.
Tick(p) ==
  /\ Running(p) /\ pool[p] /\ ~acting[p]
  /\ acting' = [acting EXCEPT ![p] = TRUE]
  /\ UNCHANGED <<electionVars, pool, object, calm, stray>>

\* Polls, timeouts and API calls later, Scales.Update, or no need for it.
Scale(p) ==
  /\ acting[p]
  /\ acting' = [acting EXCEPT ![p] = FALSE]
  /\ stray' \in {stray, stray \/ holder # p}
  /\ UNCHANGED <<electionVars, pool, object, calm>>

\* A tick of the deactivator without a pool: PoolGet returns an error and a
\* nil pool, whose name is read for the log, and the process panics.
TickWithoutPool(p) ==
  /\ Running(p) /\ ~pool[p]
  /\ Ends(p, Expiring)

-----------------------------------------------------------------------------
(* The end of a process *)

\* Any other panic, SIGKILL, or the loss of the node.
Crash(p) == Running(p) /\ Ends(p, Expiring)

\* The manager stops its runnables; requests being handled may still finish.
Signal(p) ==
  /\ stage[p] = "up"
  /\ stage' = [stage EXCEPT ![p] = "stopping"]
  /\ UNCHANGED <<leaderElectionEnabled, holder, leading, isLeader, pool, object, calm, actVars>>

\* They are done, or the grace period is over: the lease is released and
\* mgr.Start returns.
Exit(p) == stage[p] = "stopping" /\ Ends(p, NoHolder)

\* The lease cannot be renewed in time.
LoseLease(p) ==
  /\ stage[p] \in {"up", "stopping"} /\ holder = p
  /\ stage' = [stage EXCEPT ![p] = "lost"]
  /\ UNCHANGED <<leaderElectionEnabled, holder, leading, isLeader, pool, object, calm, actVars>>

ExitLostKeepsRunning(p) ==
  /\ stage[p] = "lost"
  /\ stage' = [stage EXCEPT ![p] = "up"]
  /\ holder' = Expiring
  /\ UNCHANGED <<leaderElectionEnabled, leading, isLeader, pool, object, calm, actVars>>

\* mgr.Start returns an error, Run returns it, and main exits.
ExitLost(p) == stage[p] = "lost" /\ Ends(p, Expiring)

ExpireLease ==
  /\ holder = Expiring
  /\ holder' = NoHolder
  /\ UNCHANGED <<leaderElectionEnabled, stage, leading, isLeader, pool, object, calm, actVars>>

\* The InferencePool is created or deleted.
Write ==
  /\ object' = ~object
  /\ UNCHANGED <<electionVars, pool, calm, actVars>>

-----------------------------------------------------------------------------
Disturbance ==
  /\ ~calm
  /\ \/ Write
     \/ \E p \in Replica : Crash(p) \/ Signal(p) \/ LoseLease(p)

\* The last disturbance, if there is one, has been.
CalmDown ==
  /\ ~calm
  /\ calm' = TRUE
  /\ UNCHANGED <<electionVars, pool, object, actVars>>

Next ==
  \/ Disturbance
  \/ CalmDown
  \/ ExpireLease
  \/ \E p \in Replica :
       \/ Start(p)
       \/ AcquireLease(p)
       \/ StartLeading(p)
       \/ Elected(p)
       \/ Reconcile(p)
       \/ Handle(p)
       \/ Tick(p)
       \/ Scale(p)
       \/ TickWithoutPool(p)
       \/ Exit(p)
       \/ ExitLost(p)

Spec == Init /\ [][Next]_vars

(***************************************************************************)
(* Processes are restarted, leases expire, goroutines run and tickers      *)
(* tick.  A replica may tick, and panic, between any two of its steps; but *)
(* candidates try every 2 s and a new leader reconciles at once, while the *)
(* first tick comes after DefaultScaleDownDelay, so neither is prevented   *)
(* for ever: strong fairness stands for that difference.                   *)
(***************************************************************************)
FairSpec ==
  /\ Spec
  /\ WF_vars(ExpireLease)
  /\ SF_vars(\E p \in Replica : AcquireLease(p))
  /\ \A p \in Replica :
       /\ WF_vars(Start(p))
       /\ WF_vars(Elected(p))
       /\ WF_vars(TickWithoutPool(p))
       /\ WF_vars(Exit(p))
       /\ WF_vars(ExitLost(p))
       /\ SF_vars(StartLeading(p))
       /\ SF_vars(Reconcile(p))

-----------------------------------------------------------------------------
(* With leader election the readiness of a replica, in Check under each name *)
(* and in List, passes on the holder of the lease only: isLeader is never    *)
(* stored back to false, so this rests on the exit after a lost lease.       *)
ServingOnlyOnLeader ==
  leaderElectionEnabled =>
    \A p \in Replica :
      /\ Runs(p, "health")
      /\ \/ \E service \in {ReadinessCheckService, "", ExternalProcessor} :
              Check(p, service) = "SERVING"
         \/ List(p)[ReadinessCheckService] = "SERVING"
      => holder = p

(* With leader election the scale subresource is written by the holder of    *)
(* the lease only, to scale up or down, although requests are handled and    *)
(* tickers tick on every replica, a write may come long after its PoolGet,   *)
(* and nothing in requestcontrol asks who the leader is: it rests on the     *)
(* reconciler, the only source of a pool, and on the end of the process.     *)
SoleScaler == leaderElectionEnabled => ~stray

\* p is up, and its readiness check passes.
Serves(p) == stage[p] = "up" /\ Check(p, ReadinessCheckService) = "SERVING"

(* Once the InferencePool exists and nothing disturbs it or the replicas any *)
(* more, some replica is ready and stays so, after any history of crashes,   *)
(* lost leases and restarts, with leader election and without.               *)
FailoverServes ==
  <>(calm /\ object) =>
    \E p \in Replica : <>[]Serves(p)

(* A replica that is not the leader is not restarted again and again: the    *)
(* liveness check "is to prevent the non-leader node from continuous         *)
(* restarts" (health.go:77), but the deactivator panics without a pool.      *)
NoContinuousRestarts ==
  <>(calm /\ object) => \A p \in Replica : <>[]Running(p)
=============================================================================
