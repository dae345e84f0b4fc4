------------------------------- MODULE Runner -------------------------------
(***************************************************************************)
(* One activator process from main to its exit: the steps of Run, the two  *)
(* gRPC servers it adds to the controller manager, each with the goroutine *)
(* that stops it, and the manager's stop procedure.  The manager and gRPC  *)
(* are libraries: the manager starts its runnables, stops when its context *)
(* is done or a runnable returns an error, cancels the runnables' context  *)
(* and waits for them until its grace period (30 s) is over; GracefulStop  *)
(* closes the listener and waits for the handlers.                         *)
(***************************************************************************)

Server == {"ext-proc", "health"}

VARIABLES
  stage,     \* "config", "wiring", "running", "stopping", "exited"
  canceled,  \* a signal has canceled the context of Run
  grpc,      \* grpc[s]: where Start of the runnable of s stands
  watcher,   \* watcher[s]: where the goroutine it started stands
  exit       \* how the process ended

runnerVars == <<stage, canceled, grpc, watcher, exit>>

Ended == {"returned", "failed"}

RunnerTypeOK ==
  /\ stage \in {"config", "wiring", "running", "stopping", "exited"}
  /\ canceled \in BOOLEAN
  /\ grpc \in [Server -> {"none", "starting", "created", "listening", "serving"} \cup Ended]
  /\ watcher \in [Server -> {"none", "select", "stop", "ended"}]
  /\ exit \in {"none", "error", "stopped", "timeout", "killed"}

RunnerInit ==
  /\ stage = "config"
  /\ canceled = FALSE
  /\ grpc = [s \in Server |-> "none"]
  /\ watcher = [s \in Server |-> "none"]
  /\ exit = "none"

-----------------------------------------------------------------------------
(* Run *)

\* Run returns, and main with it: every goroutine ends.
Exits(how) ==
  /\ stage' = "exited"
  /\ exit' = how
  /\ UNCHANGED <<canceled, grpc, watcher>>

\* No --pool-name.
validateFlagsFails == stage = "config" /\ Exits("error")

\* GetConfig, NewActivatorWithConfig or DeactivatorWithConfig returns an error.
ConfigFails == stage = "config" /\ Exits("error")

\* go deactivator.MonitorInferencePoolIdleness: it runs before there is a
\* manager, and therefore a reconciler, to set the pool.
StartDeactivator ==
  /\ stage = "config"
  /\ stage' = "wiring"
  /\ UNCHANGED <<canceled, grpc, watcher, exit>>

\* An unknown --pool-group.
defaultManagerOptionsFails == stage = "wiring" /\ Exits("error")

\* NewManager returns an error.
NewDefaultManagerFails == stage = "wiring" /\ Exits("error")

\* The reconciler cannot be set up, or mgr.Add returns an error.
SetupWithManagerFails == stage = "wiring" /\ Exits("error")
registerHealthServerFails == stage = "wiring" /\ Exits("error")
registerExtProcServerFails == stage = "wiring" /\ Exits("error")

\* mgr.Start starts the runnables that need no leader election.  The health
\* server is already there; the ext-proc server is made by its runnable.
ManagerStart ==
  /\ stage = "wiring"
  /\ stage' = "running"
  /\ grpc' = [s \in Server |-> IF s = "ext-proc" THEN "starting" ELSE "created"]
  /\ UNCHANGED <<canceled, watcher, exit>>

-----------------------------------------------------------------------------
(* The runnables: AsRunnable for the ext-proc server, GRPCServer for both *)

\* Start of the runnable of s goes from one step to the next.
Serves(s, from, to) ==
  /\ stage \in {"running", "stopping"}
  /\ grpc[s] = from
  /\ grpc' = [grpc EXCEPT ![s] = to]
  /\ UNCHANGED <<stage, canceled, exit>>

\* The certificate cannot be loaded.
LoadCertificateFails == Serves("ext-proc", "starting", "failed") /\ UNCHANGED watcher

\* The self-signed certificate cannot be created.
CreateSelfSignedTLSCertificateFails ==
  Serves("ext-proc", "starting", "failed") /\ UNCHANGED watcher

\* There is a certificate, or --secure-serving is off: the server is made and
\* handed to GRPCServer.
AsRunnable == Serves("ext-proc", "starting", "created") /\ UNCHANGED watcher

ListenFails(s) == Serves(s, "created", "failed") /\ UNCHANGED watcher

\* net.Listen, and the goroutine that waits for ctx.Done() or doneCh.
Listen(s) ==
  /\ Serves(s, "created", "listening")
  /\ watcher' = [watcher EXCEPT ![s] = "select"]

\* srv.Serve; on a server that was stopped before, it returns ErrServerStopped.
Serve(s) ==
  /\ Serves(s, "listening", IF watcher[s] = "select" THEN "serving" ELSE "returned")
  /\ UNCHANGED watcher

ServeFailsQuietly(s) == Serves(s, "serving", "returned") /\ UNCHANGED watcher

\* srv.Serve returns an error of its own.
ServeFails(s) ==
  /\ watcher[s] = "select"
  /\ Serves(s, "serving", "failed")
  /\ UNCHANGED watcher

\* GracefulStop has ended: srv.Serve returns nil.
ServeReturns(s) ==
  /\ watcher[s] = "ended"
  /\ Serves(s, "serving", "returned")
  /\ UNCHANGED watcher

Watches(s, from, to) ==
  /\ stage # "exited"
  /\ watcher[s] = from
  /\ watcher' = [watcher EXCEPT ![s] = to]
  /\ UNCHANGED <<stage, canceled, grpc, exit>>

\* case <-ctx.Done(): GracefulStop closes the listener.
WatchContext(s) == stage = "stopping" /\ Watches(s, "select", "stop")

GracefulStopAtOnce(s, handling) == Watches(s, "stop", "ended")

\* GracefulStop returns when no handler of s is running.
GracefulStop(s, handling) == ~handling /\ Watches(s, "stop", "ended")

\* case <-doneCh
WatchDone(s) == grpc[s] \in Ended /\ Watches(s, "select", "ended")

Accepting(s) == stage # "exited" /\ grpc[s] = "serving" /\ watcher[s] = "select"

-----------------------------------------------------------------------------
(* The manager and the outside world *)

\* SetupSignalHandler cancels the context.
Signal ==
  /\ stage # "exited" /\ ~canceled
  /\ canceled' = TRUE
  /\ UNCHANGED <<stage, grpc, watcher, exit>>

\* The manager leaves its select: the context is done, one of the two servers
\* returned an error, or another runnable (cache, controller, metrics) did.
ManagerStops ==
  /\ stage = "running"
  /\ canceled \/ \E s \in Server : grpc[s] = "failed"
  /\ stage' = "stopping"
  /\ UNCHANGED <<canceled, grpc, watcher, exit>>

ManagerFails ==
  /\ stage = "running"
  /\ stage' = "stopping"
  /\ UNCHANGED <<canceled, grpc, watcher, exit>>

\* Every runnable has returned, so mgr.Start returns: nil after a signal, or
\* the error that stopped the manager.
ManagerStopped ==
  /\ stage = "stopping"
  /\ \A s \in Server : grpc[s] \in Ended
  /\ Exits("stopped")

\* The manager's grace period is over: mgr.Start returns an error.
GracePeriodOver == stage = "stopping" /\ Exits("timeout")

\* A panic (ScaleToZero.tla), a second signal, SIGKILL, or a lost lease, on
\* which the manager returns without waiting for its runnables.
Killed == stage # "exited" /\ Exits("killed")

-----------------------------------------------------------------------------
\* Steps the process takes by itself; handling says whether a handler of the
\* ext-proc server is running (the ones of the health server return at once).
Runs(handling) ==
  \/ StartDeactivator
  \/ ManagerStart
  \/ AsRunnable
  \/ \E s \in Server :
       \/ Listen(s)
       \/ Serve(s)
       \/ ServeReturns(s)
       \/ WatchContext(s)
       \/ GracefulStop(s, s = "ext-proc" /\ handling)
       \/ WatchDone(s)
  \/ ManagerStops

\* Errors and signals, which may or may not come.
Disturbance ==
  \/ validateFlagsFails
  \/ ConfigFails
  \/ defaultManagerOptionsFails
  \/ NewDefaultManagerFails
  \/ SetupWithManagerFails
  \/ registerHealthServerFails
  \/ registerExtProcServerFails
  \/ LoadCertificateFails
  \/ CreateSelfSignedTLSCertificateFails
  \/ \E s \in Server : ListenFails(s) \/ ServeFails(s)
  \/ ManagerFails
  \/ Signal
=============================================================================
