----------------------------- MODULE MCAnswers ------------------------------
(***************************************************************************)
(* Three requests, for liveness.  All behaviours of three requests are too *)
(* many for it, so the run begins in states of ScaleToZero from which the  *)
(* cases differ: two requests are still to come and the third has its      *)
(* answer; or the first two scale up at once, and the third waits on the   *)
(* channel of the first, which nobody will close because the second one's  *)
(* has taken its place.  TLC reaches each of these states from Init.       *)
(***************************************************************************)
EXTENDS MCScaleToZero

CONSTANTS First, Second, Third

ASSUME ThreeRequests ==
  Request = {First, Second, Third} /\ First # Second /\ Third \notin {First, Second}

\* The requests are where given; those in scaling have begun, Second last, with
\* a copy of the scale that is still current.
Situation(where, scaling) ==
  /\ pc = where
  /\ view = [r \in Request |-> IF where[r] \in {"idle", "error"} THEN NoPool ELSE Quick]
  /\ timer = [r \in Request |-> IF where[r] = "wait" THEN Grace ELSE 0]
  /\ waitOn = [r \in Request |-> IF where[r] = "wait" THEN First ELSE NoGuard]
  /\ scaler = scaling
  /\ scalingUp = (scaling # {})
  /\ guard = IF scaling = {} THEN NoGuard ELSE Second
  /\ closed = {}
  /\ replicas \in 0..MaxReplicas
  /\ readyReplicas \in 0..replicas
  /\ scaleObject = [c \in Client |-> IF c \in scaling THEN 1 ELSE 0]
  /\ stale = Client \ scaling
  /\ overlap = (scaling # {})

\* The process has its pool, and its deactivator waits for the ticker.
Started ==
  /\ pool = Quick
  /\ period = DefaultDelay
  /\ left = DefaultDelay
  /\ pending = FALSE
  /\ phase = "running"
  /\ dpc = "select"

TwoToCome == Situation([r \in Request |-> IF r = Third THEN "error" ELSE "idle"], {})

Orphaned ==
  Situation([r \in Request |-> IF r = Third THEN "wait" ELSE "update"], {First, Second})

AnswersInit == Started /\ (TwoToCome \/ Orphaned)

AnswersSpec == AnswersInit /\ [][Next]_vars /\ Fairness
=============================================================================
