------------------------------ MODULE Serving -------------------------------
(***************************************************************************)
(* An ext-proc stream and the life of the process that serves it: streams  *)
(* are opened while the ext-proc server accepts them, GracefulStop waits   *)
(* for Process to return, and the end of the process cuts off the rest.    *)
(***************************************************************************)
EXTENDS ExtProc, Runner

vars == <<streamVars, runnerVars>>

TypeOK == StreamTypeOK /\ RunnerTypeOK

Init == StreamInit /\ RunnerInit

Handling == spc \notin {"none", "ended"}

Open ==
  /\ EnvoyOpen
  /\ Accepting("ext-proc")
  /\ UNCHANGED runnerVars

NoStream ==
  /\ EnvoyNoStream
  /\ ~Accepting("ext-proc")
  /\ UNCHANGED runnerVars

Stream ==
  /\ Envoy \/ RecvFails
  /\ UNCHANGED runnerVars

Handle ==
  /\ Process
  /\ UNCHANGED runnerVars

Manage ==
  /\ Runs(Handling)
  /\ UNCHANGED streamVars

Disturb ==
  /\ Disturbance
  /\ UNCHANGED streamVars

\* The runnables have returned.  A handler can only be left if Serve failed.
Stop ==
  /\ ManagerStopped
  /\ IF Handling THEN Died ELSE UNCHANGED streamVars

Abort ==
  /\ GracePeriodOver \/ Killed
  /\ IF spc = "none" THEN UNCHANGED streamVars ELSE Died

Next ==
  \/ Open
  \/ NoStream
  \/ Stream
  \/ Handle
  \/ Manage
  \/ Disturb
  \/ Stop
  \/ Abort

Spec == Init /\ [][Next]_vars

(***************************************************************************)
(* Goroutines keep running, MayActivate returns (RequestsAnswered in       *)
(* ScaleToZero.tla), and the manager's grace period ends.  Nothing is      *)
(* assumed of Envoy.                                                       *)
(***************************************************************************)
FairSpec ==
  /\ Spec
  /\ WF_vars(Handle)
  /\ WF_vars(Manage)
  /\ WF_vars(Stop \/ (Abort /\ GracePeriodOver))

-----------------------------------------------------------------------------
\* Nobody is left to receive the answer, or to give it: Envoy reset the stream,
\* its connection broke, Send or Recv failed, or the process died.
CutOff == stream \in Gone \/ code \in {"unknown", "died"}

(* A request that MayActivate found no pods for is answered with a 503.      *)
(* failure_mode_allow lets through what gets no response, so the request     *)
(* goes upstream if the stream is cut off, by a Send that fails too, but     *)
(* Process ends in no other way without a response.                          *)
RefusalReachesEnvoy ==
  verdict = "unavailable" /\ http = "upstream" => CutOff

(* The goroutine of a stream ends once Envoy is done with the request,       *)
(* whether it waits for a message, is inside MayActivate or about to send.   *)
HandlerEnds == http # "pending" ~> spc \in {"none", "ended"}

(* Shutting down loses no request: when mgr.Start returns within its grace   *)
(* period, every stream the ext-proc server accepted has been handled to the *)
(* end, also one that was opened while the signal arrived; the only          *)
(* exception is a Serve that failed.                                         *)
DrainedOnExit ==
  exit = "stopped" /\ grpc["ext-proc"] # "failed" => code # "died"

(* The process does not outlive its servers or a signal: once either gRPC    *)
(* server has stopped, by itself or not, or a signal has come at any point   *)
(* of Run, the process exits, and is there to be restarted.                  *)
ProcessEnds ==
  canceled \/ (\E s \in Server : grpc[s] \in Ended) ~> stage = "exited"

-----------------------------------------------------------------------------
\* The gate that stream and process make up.
TheGate == INSTANCE Gate WITH
  decision <- verdict,
  cut <- CutOff

(* Stream, handler and process implement the gate of Gate.tla: MayActivate's *)
(* answer is the one the HTTP request gets, an admitted request is never     *)
(* refused, nor is one for which the pool was not synced, the outcome is     *)
(* final, and between a refusal and the request there is nothing but being   *)
(* cut off.                                                                  *)
GateImplemented == TheGate!Spec
=============================================================================
