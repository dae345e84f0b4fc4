----------------------------- MODULE Reconciler -----------------------------
(***************************************************************************)
(* controller/inferencepool_reconciler.go: how the InferencePool object of *)
(* the cluster gets into the datastore.  The API server, the informer      *)
(* cache that mgr.GetClient() reads, and the controller's work queue with  *)
(* its one worker are controller-runtime's and external.                   *)
(*                                                                         *)
(* The queue holds the one key there is: an event that arrives while the   *)
(* worker is busy is remembered, and a Reconcile that returns an error is  *)
(* queued again.                                                           *)
(***************************************************************************)
EXTENDS Naturals

CONSTANTS
  Pool,       \* contents an InferencePool object can have
  NoPool,     \* no object, and the nil pointer
  Group,      \* PoolGKNN.Group
  MaxWrites   \* bound on the changes made to the object

\* defaultManagerOptions and SetupWithManager refuse any other group.
ASSUME ReconcilerAssumption ==
  /\ NoPool \notin Pool
  /\ Group \in {"v1", "v1alpha2"}
  /\ MaxWrites \in Nat

\* An object of the cluster: a pool, or one with a deletionTimestamp.
Object == [pool : Pool, deleting : BOOLEAN]

Absent == [pool |-> NoPool, deleting |-> FALSE]

VARIABLES
  object,   \* the object in the API server
  cached,   \* the informer's copy
  queued,   \* the key is in the work queue
  read,     \* what c.Get returned to the running Reconcile
  busy,     \* a Reconcile runs
  stored,   \* datastore.pool
  writes    \* number of changes so far

vars == <<object, cached, queued, read, busy, stored, writes>>

TypeOK ==
  /\ object \in Object \cup {Absent}
  /\ cached \in Object \cup {Absent}
  /\ queued \in BOOLEAN
  /\ read \in Object \cup {Absent}
  /\ busy \in BOOLEAN
  /\ stored \in Pool \cup {NoPool}
  /\ writes \in 0..MaxWrites

Init ==
  /\ object \in {o \in Object : ~o.deleting} \cup {Absent}
  /\ cached = Absent
  /\ queued = FALSE
  /\ read = Absent
  /\ busy = FALSE
  /\ stored = NoPool
  /\ writes = 0

\* What the datastore should hold for an object.
Image(o) == IF o.deleting THEN NoPool ELSE o.pool

-----------------------------------------------------------------------------
(* The cluster and controller-runtime *)

\* The object is created, edited, marked for deletion or removed.  Nothing
\* takes a deletionTimestamp back.
Write ==
  /\ writes < MaxWrites
  /\ writes' = writes + 1
  /\ \/ /\ ~object.deleting
        /\ object' \in [pool : Pool, deleting : {FALSE}]
     \/ /\ object # Absent
        /\ object' \in {[object EXCEPT !.deleting = TRUE], Absent}
  /\ object' # object
  /\ UNCHANGED <<cached, queued, read, busy, stored>>

\* The informer's list or watch; its event handler adds the key.
Deliver ==
  /\ cached # object
  /\ cached' = object
  /\ queued' = TRUE
  /\ UNCHANGED <<object, read, busy, stored, writes>>

\* Reconcile returns, with an error or not.
Return(failed) ==
  /\ busy
  /\ busy' = FALSE
  /\ read' = Absent
  /\ queued' = (queued \/ failed)
  /\ UNCHANGED <<object, cached, writes>>

-----------------------------------------------------------------------------
(* Reconcile *)

\* The worker takes the key, and c.Get reads the cache.
Get ==
  /\ queued /\ ~busy
  /\ queued' = FALSE
  /\ busy' = TRUE
  /\ read' = cached
  /\ UNCHANGED <<object, cached, stored, writes>>

\* c.Get fails with another error than NotFound.
GetFails ==
  /\ Return(TRUE)
  /\ UNCHANGED stored

ClearOnlyIfMissing ==
  /\ read = Absent
  /\ Return(FALSE)
  /\ stored' = NoPool

\* NotFound, or a deletionTimestamp.
Clear ==
  /\ read = Absent \/ read.deleting
  /\ Return(FALSE)
  /\ stored' = NoPool

PoolSetAlways ==
  /\ read # Absent
  /\ Return(FALSE)
  /\ stored' = read.pool

\* A v1 object is stored as it is, a v1alpha2 one after ConvertTo.
PoolSet ==
  /\ read # Absent /\ ~read.deleting
  /\ Return(FALSE)
  /\ stored' = read.pool

ConvertFailsForGood ==
  /\ Group = "v1alpha2"
  /\ read # Absent /\ ~read.deleting
  /\ Return(FALSE)
  /\ UNCHANGED stored

ConvertFails ==
  /\ Group = "v1alpha2"
  /\ read # Absent /\ ~read.deleting
  /\ Return(TRUE)
  /\ UNCHANGED stored

Reconcile == Clear \/ PoolSet \/ ConvertFails \/ GetFails

\* The process ends and is started again, with an empty datastore and cache.
Restart ==
  /\ cached' = Absent
  /\ queued' = FALSE
  /\ read' = Absent
  /\ busy' = FALSE
  /\ stored' = NoPool
  /\ UNCHANGED <<object, writes>>

Next == Write \/ Deliver \/ Get \/ Reconcile \/ Restart

Spec == Init /\ [][Next]_vars

(***************************************************************************)
(* The informer delivers and the worker works, as long as the process is   *)
(* not restarted for ever, and neither c.Get nor ConvertTo fails every     *)
(* time.                                                                   *)
(***************************************************************************)
Fairness ==
  /\ WF_vars(Deliver)
  /\ WF_vars(Get)
  /\ WF_vars(Reconcile)
  /\ SF_vars(Clear \/ PoolSet)

FairSpec == Spec /\ Fairness

-----------------------------------------------------------------------------
(* Whenever the datastore does not hold what the informer last delivered, a  *)
(* Reconcile is due that will see it: no interleaving of events, retries and *)
(* a running Reconcile loses the last change, a deletion included.           *)
NoEventLost ==
  /\ ~queued /\ ~busy => stored = Image(cached)
  /\ ~queued /\ busy => read = cached

(* Once the object stops changing and the process stays up, the datastore    *)
(* holds it, or nothing if it is gone or being deleted, and keeps it.        *)
Settles == <>[][FALSE]_object /\ <>[][~Restart]_vars => <>[](stored = Image(object))
=============================================================================
