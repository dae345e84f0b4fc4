------------------------------ MODULE Process -------------------------------
(***************************************************************************)
(* What the goroutines of one activator process share: the datastore's     *)
(* pool and idleness ticker, and whether the process is up.  The datastore *)
(* methods are atomic here; Datastore.tla shows that their results are     *)
(* those of an atomic register.                                            *)
(*                                                                         *)
(* The ticker is a Go 1.23+ time.Ticker (go.mod says go 1.24.2): its       *)
(* channel holds at most one tick, and Reset and Stop discard it.          *)
(***************************************************************************)
EXTENDS Naturals

CONSTANTS
  Pool,          \* InferencePool objects, see PoolType
  NoPool,        \* the nil pointer
  InitialPeriod, \* period given to time.NewTicker in NewDatastore
  DefaultDelay   \* DefaultScaleDownDelay

(***************************************************************************)
(* An InferencePool is reduced to what the request path reads from its     *)
(* annotations: whether the three required ones are there, and the values  *)
(* of the two optional durations.  A duration that is absent has its       *)
(* default value; one that time.ParseDuration refuses is 0, because the    *)
(* code drops the error, and so is a negative one.                         *)
(***************************************************************************)
PoolType == [valid : BOOLEAN, grace : Nat, delay : Nat]

ASSUME ProcessAssumption ==
  /\ Pool \subseteq PoolType
  /\ NoPool \notin Pool
  /\ InitialPeriod \in Nat \ {0}
  /\ DefaultDelay \in Nat \ {0}

VARIABLES
  pool,     \* datastore.pool
  period,   \* datastore.ticker: its period, 0 when stopped
  left,     \* datastore.ticker: time left to the next tick
  pending,  \* datastore.ticker: a tick waits in the channel
  phase     \* "running", "stopping" after a signal, or why it panicked

tickerVars == <<period, left, pending>>
processVars == <<pool, period, left, pending, phase>>

\* The panics of the request path and of the deactivator.
Panic == {"closeOfNilChannel", "nilPoolDereference", "nonPositivePeriod", "noStatus"}

Alive == phase \in {"running", "stopping"}

ProcessTypeOK ==
  /\ pool \in Pool \cup {NoPool}
  /\ period \in Nat
  /\ left \in 0..period
  /\ left = 0 => period = 0
  /\ pending \in BOOLEAN
  /\ phase \in {"running", "stopping"} \cup Panic

\* NewDatastore
ProcessInit ==
  /\ pool = NoPool
  /\ period = InitialPeriod
  /\ left = InitialPeriod
  /\ pending = FALSE
  /\ phase = "running"

\* A goroutine panics: nothing recovers it, the process ends.
Panics(reason) ==
  /\ phase' = reason
  /\ UNCHANGED <<pool, period, left, pending>>

\* Ticker.Reset
Reset(d) ==
  /\ period' = d
  /\ left' = d
  /\ pending' = FALSE

\* datastore.ResetTicker; Ticker.Reset panics on a non-positive duration.
ResetTicker(d) ==
  \/ /\ d > 0
     /\ Reset(d)
     /\ UNCHANGED <<pool, phase>>
  \/ /\ d = 0
     /\ Panics("nonPositivePeriod")

\* datastore.StopTicker
StopTicker ==
  /\ Reset(0)
  /\ UNCHANGED <<pool, phase>>

\* A receive from ticker.C.
ReceiveTick ==
  /\ pending
  /\ pending' = FALSE
  /\ UNCHANGED <<period, left>>

\* One unit of time passes for the ticker; a tick nobody received is dropped.
TickerElapse ==
  /\ left' = IF left > 1 THEN left - 1 ELSE period
  /\ pending' = (pending \/ left = 1)
  /\ UNCHANGED period

\* The reconciler calls PoolSet with the pool it read, or Clear.
PoolSet(p) ==
  /\ phase = "running"
  /\ pool' = p
  /\ UNCHANGED <<period, left, pending, phase>>

\* The signal handler cancels the context given to Run.
Signal ==
  /\ phase = "running"
  /\ phase' = "stopping"
  /\ UNCHANGED <<pool, period, left, pending>>
=============================================================================
