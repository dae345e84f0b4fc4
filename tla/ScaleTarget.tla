---------------------------- MODULE ScaleTarget -----------------------------
(***************************************************************************)
(* The workload behind the InferencePool as the API server shows it: the   *)
(* scale subresource the activator and the deactivator read and update,    *)
(* and the status the activator polls.  All of it is external to the       *)
(* program and modelled from the calls in requestcontrol/.                 *)
(*                                                                         *)
(* Every change of the object gives it a new resourceVersion, and an       *)
(* update that carries an older one is refused.  The program only ever     *)
(* compares versions for equality, so a version is abstracted to the set   *)
(* of clients whose copy is no longer the current one.                     *)
(***************************************************************************)
EXTENDS Naturals

CONSTANTS
  Client,           \* holders of a Scale object: requests and the deactivator
  MaxReplicas,      \* bound on spec.replicas
  OutsideReplicas,  \* the values other writers (kubectl, an HPA) may set
  StatusOptional    \* TRUE if a target may have no status before its first pod

ASSUME ScaleTargetAssumption ==
  /\ MaxReplicas \in Nat \ {0}
  /\ OutsideReplicas \subseteq 0..MaxReplicas
  /\ StatusOptional \in BOOLEAN

VARIABLES
  replicas,         \* spec.replicas
  readyReplicas,    \* status.readyReplicas; 0 is the omitted field
  scaleObject,      \* scaleObject[c]: spec.replicas of the copy c holds
  stale             \* the clients whose copy has an old resourceVersion

targetVars == <<replicas, readyReplicas, scaleObject, stale>>

TargetTypeOK ==
  /\ replicas \in 0..MaxReplicas
  /\ readyReplicas \in 0..MaxReplicas
  /\ scaleObject \in [Client -> 0..MaxReplicas]
  /\ stale \in SUBSET Client

TargetInit ==
  /\ replicas \in 0..MaxReplicas
  /\ readyReplicas \in 0..replicas
  /\ scaleObject = [c \in Client |-> 0]
  /\ stale = Client

\* Scales(namespace).Get
ScaleGet(c) ==
  /\ scaleObject' = [scaleObject EXCEPT ![c] = replicas]
  /\ stale' = stale \ {c}
  /\ UNCHANGED <<replicas, readyReplicas>>

\* Scales(namespace).Update with the copy of c, whose spec.replicas is n.  An
\* update that changes nothing is not stored and gives no new version.  The
\* program updates with a copy once and never again.
ScaleUpdate(c, n) ==
  /\ c \notin stale
  /\ replicas' = n
  /\ stale' = IF n = replicas THEN stale \cup {c} ELSE Client
  /\ UNCHANGED readyReplicas

\* The copy of c goes out of scope.
ForgetScale(c) ==
  /\ scaleObject' = [scaleObject EXCEPT ![c] = 0]
  /\ stale' = stale \cup {c}
  /\ UNCHANGED <<replicas, readyReplicas>>

\* A pod passes its probes.
PodReady ==
  /\ readyReplicas < replicas
  /\ readyReplicas' = readyReplicas + 1
  /\ stale' = Client
  /\ UNCHANGED <<replicas, scaleObject>>

\* A surplus pod is removed, or a pod fails its probes.
PodGone ==
  /\ readyReplicas > 0
  /\ readyReplicas' = readyReplicas - 1
  /\ stale' = Client
  /\ UNCHANGED <<replicas, scaleObject>>

\* Another writer of the scale subresource.
OutsideScale ==
  \E n \in OutsideReplicas \ {replicas} :
    /\ replicas' = n
    /\ stale' = Client
    /\ UNCHANGED <<readyReplicas, scaleObject>>
=============================================================================
