--------------------------- MODULE ServingProofs ----------------------------
(***************************************************************************)
(* Proofs about Serving.tla for any number of messages on the stream.      *)
(***************************************************************************)
EXTENDS Serving, TLAPS

\* What is known of a stream at each step of Process: MayActivate is called
\* once, the response it leads to is the only one, and a refusal is on its way
\* to Envoy, or has arrived, unless the stream is cut off.
StreamInv ==
  /\ code = "none" <=> spc # "ended"
  /\ spc = "none" => sent = 0 /\ verdict = "none" /\ stream \in {"open", "canceled"}
  /\ spc # "none" => sent > 0
  /\ spc \in {"activate", "send"} \/ verdict # "none" => unread < sent
  /\ spc = "activate" => verdict = "none"
  /\ spc = "recv" => verdict \in {"none", "nil"}
  /\ spc \in {"none", "activate", "send"} => reply = "none"
  /\ verdict = "none" => reply = "none"
  /\ reply = "continue" => verdict = "nil"
  /\ reply \in Immediate \/ http = "refused" => verdict = "unavailable"
  /\ http = "reset" => stream = "canceled"
  /\ stream = "canceled" => http # "pending"
  /\ stream = "broken" => reply = "none"
  /\ spc \in {"recv", "activate", "send"} /\ http = "upstream" =>
       verdict = "nil" \/ stream \in Gone
  /\ verdict = "unavailable" =>
       \/ CutOff
       \/ spc = "send" /\ http # "upstream"
       \/ spc = "ended" /\ reply # "none" /\ http # "upstream"
       \/ spc = "ended" /\ http \notin {"pending", "upstream"}

\* While Process runs, the runnable of its server has not returned, unless
\* Serve failed, and GracefulStop is still waiting.
DrainInv ==
  /\ stage \in {"config", "wiring"} => grpc["ext-proc"] = "none"
  /\ stage # "exited" => exit = "none" /\ code # "died"
  /\ stage # "exited" /\ Handling =>
       \/ grpc["ext-proc"] = "failed"
       \/ grpc["ext-proc"] = "serving" /\ watcher["ext-proc"] \in {"select", "stop"}

Inv == TypeOK /\ StreamInv /\ DrainInv /\ DrainedOnExit

\* Before the process has read its flags there is no stream.
LEMMA InitInv == Init => Inv
<1> SUFFICES ASSUME Init PROVE Inv
  OBVIOUS
<1>1. canceled \in BOOLEAN
  BY Zenon DEF Init, RunnerInit
<1>2. TypeOK
  BY <1>1, ExtProcAssumption
     DEF Init, StreamInit, RunnerInit, TypeOK, StreamTypeOK, RunnerTypeOK, Immediate,
         continueHeadersResponse
<1>3. StreamInv /\ DrainInv /\ DrainedOnExit
  BY DEF Init, StreamInit, RunnerInit, StreamInv, DrainInv, DrainedOnExit, Handling, Server,
     Immediate
<1> QED
  BY <1>2, <1>3 DEF Inv

\* The steps of Run, of the runnables and of the manager keep their types.
LEMMA RunnerTypeStep ==
  ASSUME RunnerTypeOK, NEW handling \in BOOLEAN,
         \/ Runs(handling) \/ Disturbance
         \/ ManagerStopped \/ GracePeriodOver \/ Killed
  PROVE  RunnerTypeOK'
<1>1. canceled' \in BOOLEAN
  BY Zenon DEF RunnerTypeOK, Runs, Disturbance, StartDeactivator, ManagerStart, Listen, Serve,
     ServeReturns, WatchContext, GracefulStop, WatchDone, ManagerStops, validateFlagsFails,
     ConfigFails, defaultManagerOptionsFails, NewDefaultManagerFails, SetupWithManagerFails,
     registerHealthServerFails, registerExtProcServerFails, LoadCertificateFails, AsRunnable,
     CreateSelfSignedTLSCertificateFails, ListenFails, ServeFails, ManagerFails, Signal,
     ManagerStopped, GracePeriodOver, Killed, Exits, Serves, Watches
<1> USE <1>1 DEF RunnerTypeOK, Ended, Server
<1>2. CASE StartDeactivator \/ ManagerStart \/ ManagerStops
  BY <1>2 DEF StartDeactivator, ManagerStart, ManagerStops
<1>3. ASSUME NEW s \in Server,
             Listen(s) \/ Serve(s) \/ ServeReturns(s) \/ ListenFails(s) \/ ServeFails(s)
      PROVE  RunnerTypeOK'
  BY <1>3 DEF Listen, Serve, ServeReturns, ListenFails, ServeFails, Serves
<1>4. ASSUME NEW s \in Server, NEW b \in BOOLEAN,
             WatchContext(s) \/ GracefulStop(s, b) \/ WatchDone(s)
      PROVE  RunnerTypeOK'
  BY <1>4 DEF WatchContext, GracefulStop, WatchDone, Watches
<1>5. CASE AsRunnable \/ LoadCertificateFails \/ CreateSelfSignedTLSCertificateFails
  BY <1>5 DEF AsRunnable, LoadCertificateFails, CreateSelfSignedTLSCertificateFails, Serves
<1>6. CASE \/ validateFlagsFails \/ ConfigFails
           \/ defaultManagerOptionsFails \/ NewDefaultManagerFails
           \/ SetupWithManagerFails \/ registerHealthServerFails
           \/ registerExtProcServerFails
           \/ ManagerStopped \/ GracePeriodOver \/ Killed
  BY <1>6 DEF validateFlagsFails, ConfigFails, defaultManagerOptionsFails,
     NewDefaultManagerFails, SetupWithManagerFails,
     registerHealthServerFails, registerExtProcServerFails, ManagerStopped, GracePeriodOver,
     Killed, Exits
<1>7. CASE ManagerFails \/ Signal
  BY <1>7 DEF ManagerFails, Signal
<1> QED
  BY <1>2, <1>3, <1>4, <1>5, <1>6, <1>7 DEF Runs, Disturbance

\* Every step of Envoy and of Process keeps the stream well typed and its
\* refusal on the way.
LEMMA StreamStep ==
  ASSUME StreamTypeOK, StreamInv,
         \/ EnvoyOpen \/ EnvoyNoStream \/ Envoy \/ RecvFails \/ Process
         \/ (spc # "none" /\ Died)
  PROVE  StreamTypeOK' /\ StreamInv'
<1> USE ExtProcAssumption
    DEF StreamTypeOK, StreamInv, Immediate, Gone, CutOff, continueHeadersResponse, End
<1>1. CASE EnvoyOpen \/ EnvoyNoStream
  BY <1>1 DEF EnvoyOpen, EnvoyNoStream
<1>2. CASE EnvoySend
  BY <1>2 DEF EnvoySend
<1>3. CASE EnvoyReceive
  BY <1>3 DEF EnvoyReceive
<1>4. CASE EnvoyTimeout \/ EnvoyStreamEnds \/ ClientReset
  BY <1>4 DEF EnvoyTimeout, EnvoyStreamEnds, ClientReset
<1>12. CASE TransportBreaks
  BY <1>12 DEF TransportBreaks
<1>5. CASE ContextDone \/ RecvEOF \/ RecvFails
  BY <1>5 DEF ContextDone, RecvEOF, RecvFails
<1>6. CASE Recv
  BY <1>6 DEF Recv
<1>7. CASE MayActivate
  BY <1>7 DEF MayActivate
<1>8. CASE SendContinue
  BY <1>8 DEF SendContinue
<1>9. CASE SendImmediate
  BY <1>9 DEF SendImmediate, buildErrResponse, CanonicalCode
<1>10. CASE ReturnError \/ SendFails
  BY <1>10 DEF ReturnError, SendFails, buildErrResponse, CanonicalCode
<1>11. CASE spc # "none" /\ Died
  BY <1>11 DEF Died
<1> QED
  BY <1>1, <1>2, <1>3, <1>4, <1>5, <1>6, <1>7, <1>8, <1>9, <1>10, <1>11, <1>12
     DEF Envoy, Process

\* The stream's own steps end a handler, or start one on a server that
\* accepts; none of them is a death of the process.
LEMMA StreamDrain ==
  ASSUME StreamTypeOK, StreamInv, DrainInv, DrainedOnExit, UNCHANGED runnerVars,
         \/ EnvoyOpen /\ Accepting("ext-proc")
         \/ EnvoyNoStream \/ Envoy \/ RecvFails \/ Process
  PROVE  DrainInv' /\ DrainedOnExit'
<1>1. code' = "died" => code = "died"
  BY DEF EnvoyOpen, EnvoyNoStream, Envoy, EnvoySend, EnvoyReceive, EnvoyTimeout,
     EnvoyStreamEnds, ClientReset, TransportBreaks, RecvFails, Process, ContextDone, Recv, RecvEOF, MayActivate,
     SendContinue, SendImmediate, ReturnError, SendFails, End
<1>2. Handling' => Handling \/ Accepting("ext-proc")
  BY DEF Handling, EnvoyOpen, EnvoyNoStream, Envoy, EnvoySend, EnvoyReceive, EnvoyTimeout,
     EnvoyStreamEnds, ClientReset, TransportBreaks, RecvFails, Process, ContextDone, Recv, RecvEOF, MayActivate,
     SendContinue, SendImmediate, ReturnError, SendFails, End
<1> QED
  BY <1>1, <1>2 DEF DrainInv, DrainedOnExit, Accepting, runnerVars

\* No step of the process makes a runnable return under a handler.
LEMMA RunnerDrain ==
  ASSUME RunnerTypeOK, StreamInv, DrainInv, DrainedOnExit, UNCHANGED streamVars,
         Runs(Handling) \/ Disturbance
  PROVE  DrainInv' /\ DrainedOnExit'
<1>h. Handling' <=> Handling
  BY DEF Handling, streamVars
<1>c. code' = code
  BY DEF streamVars
<1> USE <1>h, <1>c DEF RunnerTypeOK, DrainInv, DrainedOnExit, Server, Ended
<1>1. CASE StartDeactivator \/ ManagerStart \/ ManagerStops
  BY <1>1 DEF StartDeactivator, ManagerStart, ManagerStops
<1>2. ASSUME NEW s \in Server,
             Listen(s) \/ Serve(s) \/ ServeReturns(s) \/ ListenFails(s) \/ ServeFails(s)
      PROVE  DrainInv' /\ DrainedOnExit'
  BY <1>2 DEF Listen, Serve, ServeReturns, ListenFails, ServeFails, Serves
<1>3. ASSUME NEW s \in Server,
             \/ WatchContext(s) \/ GracefulStop(s, s = "ext-proc" /\ Handling)
             \/ WatchDone(s)
      PROVE  DrainInv' /\ DrainedOnExit'
  BY <1>3 DEF WatchContext, GracefulStop, WatchDone, Watches
<1>4. CASE AsRunnable \/ LoadCertificateFails \/ CreateSelfSignedTLSCertificateFails
  BY <1>4 DEF AsRunnable, LoadCertificateFails, CreateSelfSignedTLSCertificateFails, Serves
<1>5. CASE \/ validateFlagsFails \/ ConfigFails
           \/ defaultManagerOptionsFails \/ NewDefaultManagerFails
           \/ SetupWithManagerFails \/ registerHealthServerFails
           \/ registerExtProcServerFails
  BY <1>5 DEF validateFlagsFails, ConfigFails, defaultManagerOptionsFails,
     NewDefaultManagerFails, SetupWithManagerFails,
     registerHealthServerFails, registerExtProcServerFails, Exits
<1>6. CASE ManagerFails \/ Signal
  BY <1>6 DEF ManagerFails, Signal
<1> QED
  BY <1>1, <1>2, <1>3, <1>4, <1>5, <1>6 DEF Runs, Disturbance

\* Every step of stream, process and outside world keeps the invariant.
LEMMA InvStep == Inv /\ [Next]_vars => Inv'
<1> SUFFICES ASSUME Inv, [Next]_vars PROVE Inv'
  OBVIOUS
<1>i. StreamTypeOK /\ RunnerTypeOK /\ StreamInv /\ DrainInv /\ DrainedOnExit
  BY DEF Inv, TypeOK
<1>s. UNCHANGED streamVars => StreamTypeOK' /\ StreamInv'
  BY <1>i DEF streamVars, StreamTypeOK, StreamInv, CutOff
<1>r. UNCHANGED runnerVars => RunnerTypeOK'
  BY <1>i DEF runnerVars, RunnerTypeOK
<1>b. Handling \in BOOLEAN
  BY DEF Handling
<1> USE DEF Inv, TypeOK
<1>1. CASE Open \/ NoStream \/ Stream \/ Handle
  BY <1>1, <1>i, <1>r, StreamStep, StreamDrain DEF Open, NoStream, Stream, Handle
<1>2. CASE Manage
  BY <1>2, <1>i, <1>s, <1>b, RunnerTypeStep, RunnerDrain DEF Manage
<1>3. CASE Disturb
  BY <1>3, <1>i, <1>s, <1>b, RunnerTypeStep, RunnerDrain DEF Disturb
<1>4. CASE Stop
  <2>1. RunnerTypeOK'
    BY <1>4, <1>i, <1>b, RunnerTypeStep DEF Stop
  <2>2. StreamTypeOK' /\ StreamInv'
    BY <1>4, <1>i, <1>s, StreamStep DEF Stop, Handling
  <2>3. stage' = "exited" /\ grpc' = grpc /\ stage # "exited" /\ grpc["ext-proc"] \in Ended
    BY <1>4 DEF Stop, ManagerStopped, Exits, Server
  <2>4. Handling => grpc["ext-proc"] = "failed"
    BY <1>i, <2>3 DEF DrainInv, Ended
  <2>5. ~Handling => code' # "died"
    BY <1>4, <1>i, <2>3 DEF Stop, DrainInv, streamVars
  <2> QED
    BY <2>1, <2>2, <2>3, <2>4, <2>5 DEF DrainInv, DrainedOnExit
<1>5. CASE Abort
  <2>1. RunnerTypeOK'
    BY <1>5, <1>i, <1>b, RunnerTypeStep DEF Abort
  <2>2. StreamTypeOK' /\ StreamInv'
    BY <1>5, <1>i, <1>s, StreamStep DEF Abort
  <2>3. stage' = "exited" /\ exit' # "stopped"
    BY <1>5 DEF Abort, GracePeriodOver, Killed, Exits
  <2> QED
    BY <2>1, <2>2, <2>3 DEF DrainInv, DrainedOnExit
<1>6. CASE UNCHANGED vars
  <2>1. UNCHANGED streamVars /\ UNCHANGED runnerVars
    BY <1>6 DEF vars
  <2>2. DrainInv' /\ DrainedOnExit'
    BY <1>i, <2>1 DEF DrainInv, DrainedOnExit, Handling, streamVars, runnerVars
  <2> QED
    BY <2>1, <2>2, <1>s, <1>r
<1> QED
  BY <1>1, <1>2, <1>3, <1>4, <1>5, <1>6 DEF Next

\* The invariant holds in every reachable state.
LEMMA Invariance == Spec => []Inv
  BY InitInv, InvStep, PTL DEF Spec

(* Streams and runnables stay well typed: the server never receives more     *)
(* messages than Envoy has sent.                                             *)
THEOREM TypeCorrect == Spec => []TypeOK
<1>1. Inv => TypeOK
  BY DEF Inv
<1> QED
  BY Invariance, <1>1, PTL

(* A refusal of MayActivate reaches Envoy as a 503, unless the stream is cut *)
(* off: reset by Envoy, its connection broken, Send failed, or the process   *)
(* dead.                                                                     *)
THEOREM RefusalIsDelivered == Spec => []RefusalReachesEnvoy
<1>1. Inv => RefusalReachesEnvoy
  BY DEF Inv, StreamInv, RefusalReachesEnvoy, CutOff
<1> QED
  BY Invariance, <1>1, PTL

(* A manager that stops within its grace period has let every accepted       *)
(* stream finish.                                                            *)
THEOREM ShutdownDrains == Spec => []DrainedOnExit
<1>1. Inv => DrainedOnExit
  BY DEF Inv
<1> QED
  BY Invariance, <1>1, PTL

-----------------------------------------------------------------------------
\* What Envoy, the handler and the end of the process do to the stream are
\* steps of the gate.
LEMMA GateStep ==
  ASSUME StreamTypeOK, StreamInv,
         \/ EnvoyOpen \/ EnvoyNoStream \/ Envoy \/ RecvFails \/ Process
         \/ (spc # "none" /\ Died)
  PROVE  [TheGate!Next]_(TheGate!vars)
<1> USE DEF StreamTypeOK, StreamInv, Gone, CutOff, End, TheGate!vars
<1>1. CASE EnvoyOpen \/ EnvoySend \/ Recv
  BY <1>1 DEF EnvoyOpen, EnvoySend, Recv
<1>2. CASE EnvoyNoStream \/ EnvoyStreamEnds
  BY <1>2 DEF EnvoyNoStream, EnvoyStreamEnds, TheGate!Next, TheGate!FailOpen
<1>3. CASE EnvoyReceive
  <2>1. CASE reply = "continue"
    BY <1>3, <2>1 DEF EnvoyReceive, TheGate!Next, TheGate!Admit, continueHeadersResponse
  <2>2. CASE reply \in Immediate
    BY <1>3, <2>2
       DEF EnvoyReceive, TheGate!Next, TheGate!Refuse, continueHeadersResponse, Immediate
  <2> QED
    BY <1>3, <2>1, <2>2 DEF EnvoyReceive, continueHeadersResponse
<1>4. CASE EnvoyTimeout \/ ClientReset
  BY <1>4
     DEF EnvoyTimeout, ClientReset, TheGate!Next, TheGate!CutOff, TheGate!FailOpen,
         TheGate!ClientReset
<1>5. CASE ContextDone \/ RecvEOF
  BY <1>5 DEF ContextDone, RecvEOF
<1>6. CASE MayActivate
  BY <1>6 DEF MayActivate, TheGate!Next, TheGate!Decide
<1>7. CASE SendContinue \/ SendImmediate \/ ReturnError
  BY <1>7 DEF SendContinue, SendImmediate, ReturnError
<1>8. CASE TransportBreaks \/ RecvFails \/ SendFails \/ Died
  BY <1>8 DEF TransportBreaks, RecvFails, SendFails, Died, TheGate!Next, TheGate!CutOff
<1> QED
  BY <1>1, <1>2, <1>3, <1>4, <1>5, <1>6, <1>7, <1>8 DEF Envoy, Process

(* Whatever the number of messages and the order in which streams, handlers, *)
(* servers and signals act, the HTTP request is treated as Gate.tla says:    *)
(* the answer of MayActivate is decided once and is the one the request      *)
(* gets, unless it is cut off.                                               *)
THEOREM ServingImplementsGate == Spec => GateImplemented
<1>1. Init => TheGate!Init
  BY DEF Init, StreamInit, CutOff, Gone, TheGate!Init
<1>2. Inv /\ [Next]_vars => [TheGate!Next]_(TheGate!vars)
  <2> SUFFICES ASSUME Inv, [Next]_vars PROVE [TheGate!Next]_(TheGate!vars)
    OBVIOUS
  <2>i. StreamTypeOK /\ StreamInv
    BY DEF Inv, TypeOK
  <2>s. UNCHANGED streamVars => [TheGate!Next]_(TheGate!vars)
    BY DEF streamVars, CutOff, TheGate!vars
  <2>1. CASE Open \/ NoStream \/ Stream \/ Handle
    BY <2>1, <2>i, GateStep DEF Open, NoStream, Stream, Handle
  <2>2. CASE Stop \/ Abort
    BY <2>2, <2>i, <2>s, GateStep DEF Stop, Abort, Handling
  <2> QED
    BY <2>1, <2>2, <2>s DEF Next, Manage, Disturb, vars
<1> QED
  BY Invariance, <1>1, <1>2, PTL DEF Spec, GateImplemented, TheGate!Spec
=============================================================================
