# Verification of the llm-d activator

TLA+ models of the activator (`src/`, Go), model-checked with TLC, and theorems
about them proved with TLAPS.

## 1. The system

The activator sits beside an Envoy gateway as an external processor. It holds a
request back while the workload behind an `InferencePool` is being scaled from
zero to one replica, and scales the workload to zero once no request has come
for a while.

| Part | Source | State | Operations | What makes it hard |
|---|---|---|---|---|
| Datastore | `pkg/activator/datastore/datastore.go` | the pool, the idleness ticker, a read-write mutex | `PoolSet`, `Clear`, `PoolGet`, `PoolHasSynced`, `ResetTicker`, `GetTicker`, `StopTicker` | a read lock taken twice; a pool read twice |
| Activator | `pkg/activator/requestcontrol/activator.go`, `gvr.go`, `types.go` | `scalingUp`, `guard` and their mutex; per request a pool, a timeout, a `Scale` object | `MayActivate` and what it calls | check-then-act between requests, hanging or failing API calls, polls with timeouts, a copy of the scale that gets old |
| Deactivator | `pkg/activator/requestcontrol/deactivator.go` | where its loop stands | one iteration per tick | races with scale-ups, a pool that is not there, API failures |
| Reconciler | `pkg/activator/controller/inferencepool_reconciler.go` | none of its own | `Reconcile` | events during a `Reconcile`, deletion, retries |
| Ext-proc server | `pkg/activator/handlers/server.go` | one goroutine per stream | `Process`, `buildErrResponse` | Envoy's timeouts and resets, its `failure_mode_allow` |
| Health server | `cmd/activator/runner/health.go` | `isLeader` | `Check`, `List`, `Watch` | leader election |
| Runner | `cmd/activator/runner/runner.go`, `pkg/activator/runnable/`, `pkg/activator/server/` | the manager's runnables | start, graceful stop, election | shutdown with requests in flight, several replicas |
| Setup | `cmd/activator/main.go`, `pkg/activator/tls/tls.go` | none | flags, logging, a certificate | nothing concurrent |

The parts meet in three places: the datastore (reconciler, requests, deactivator
and health server share the pool; requests and deactivator share the ticker), the
`Activator` struct (all requests share `scalingUp` and `guard`), and the scale
subresource in the API server (requests, deactivator and anybody else write it).

## 2. Modules

| Module | Models | State and actions |
|---|---|---|
| `PoolRegister` | what the datastore promises | one register; calls, and the one step in which each takes effect |
| `Datastore` | `datastore.go` with its mutex | a `pc` per goroutine, one action per lock operation or access to `ds.pool` |
| `Process` | what the goroutines of a process share | pool, ticker (period, time left, a tick in the channel), and whether the process runs, is stopping or has panicked |
| `ScaleTarget` | scale subresource and status of the workload (external) | `spec.replicas`, `status.readyReplicas`, each client's copy and whether its `resourceVersion` is old |
| `Activator` | `activator.go` | a `pc` per request; one action per critical section, API call or timer |
| `Deactivator` | `deactivator.go` | `dpc`; one action per way through an iteration up to the next blocking call |
| `ScaleToZero` | all of these in one process beside its cluster | adds arrivals, the reconciler's effect, the workload's controllers, time, signals, restarts |
| `Reconciler` | `inferencepool_reconciler.go` | the object, the informer's copy, the work queue's key, the running `Reconcile` |
| `Latch` | what `scalingUp` and `guard` are for | per request whether it may scale up, scales up or waits, for whom and how long still; breaks when two scale up at once |
| `Stopwatch` | how long `MayActivate` keeps a request, how long ago one was let through to ready pods | `ScaleToZero` with a history variable for each, and one for the channels closed by a scale-up that succeeded |
| `Gate` | what the ext-proc server promises for a request | the decision, the outcome, and whether the request was cut off |
| `ExtProc` | `server.go`, one stream | Envoy's view of the request, messages both ways over a connection that may break, where `Process` stands |
| `Runner` | `main.go`, `runner.go`, `runserver.go`, `grpc.go`, `tls.go`: one process | the stages of `Run`, and per gRPC server where its runnable and the goroutine that stops it stand |
| `Serving` | a stream and the process that serves it | `ExtProc` and `Runner`: a stream is opened while the server accepts, `GracefulStop` waits for it, the end of the process cuts it off |
| `Replicas` | `health.go`, leader election, a deactivator per replica | the lease; per replica its stage, whether its reconciler runs, `isLeader`, whether its datastore has a pool, and whether a request or its deactivator is about to write the scale |
| `MCDatastore`, `MCScaleToZero`, `MCStopwatch`, `MCReconciler`, `MCServing`, `MCReplicas` | instances for TLC | values for the constants |
| `MCAnswers` | `MCScaleToZero` with three requests | the states in which the run `answers` begins |
| `DatastoreProofs`, `ScaleToZeroProofs`, `GuardProofs`, `QuietProofs`, `StopwatchProofs`, `ReconcilerProofs`, `ServingProofs`, `ReplicasProofs` | theorems | inductive invariants and proofs |

Operators whose name is that of an action with a suffix (`PoolSetWriteKeepsLock`)
are variants with a mistake in them. No specification uses them; `PROJECT.json`
pairs each with a property that fails when the variant takes the action's place.

**Abstractions.** A pool is what the request path reads of its annotations:
whether the required ones are there, and the two durations. A duration that
`time.ParseDuration` refuses is 0, as it is in the code, which drops the error; a
negative one has the same effect on a timeout and on a ticker as 0. Versions of
the `Scale` object are only compared for equality, so `stale`, the set of
clients whose copy is old, stands for them. `Datastore` justifies the atomic use
of the pool in `Process`: its results are those of an atomic register. That a call
may also never return is the subject of a run of its own.

**Time** is counted in polling intervals. It passes only when no goroutine has a
local step to make and no timer has expired, so a timeout is neither early nor
late; calls to the API server are not local and may take any time. The ticker
has the semantics of Go 1.23 and later (`go.mod`: 1.24.2): `Reset` and `Stop`
discard a tick that was not received.

**Failures.** Every API call can fail. A panic ends the process, because nothing
recovers it. After a panic or a signal the process can be restarted at any
moment: requests in flight are lost, memory is reset, and the cluster's state
stays.

**External parts.** controller-runtime (v0.22.1), gRPC, Envoy, the API server and
the kubelet are modelled from how the code uses them. The assumptions that carry
weight are: the manager stops when its context is done or a runnable fails, waits
30 s for the runnables and releases the lease only then; on a lost lease
`mgr.Start` returns an error at once, and the process is gone (renew deadline
10 s) before the lease has expired (15 s); what needs leader election is started
after the lease is acquired; `GracefulStop` waits for handlers; Envoy's filter has
`failure_mode_allow`; `Send` and `Recv` may fail at any time, and the connection may
break at any time and take an undelivered response with it. That the lease is
released and that `main` exits are one step of `Replicas`: the instant between them
is not modelled.

## 3. Runs

| Run | Checks | Result |
|---|---|---|
| `datastore` | `TypeOK`, `PoolGetNeverNil`, `BlockedOnlyByNestedRLock`, `Linearizable` | hold |
| `datastore_nested` | `CallsReturn` | violated |
| `scale_to_zero` | `TypeOK`, `GuardOwned`, `SoloScaling`, `QuietWhileScaling`, `AnsweredInTime`, `IdleBeforeTick`, `PanicsExplained`, `LatchImplemented` | hold |
| `answers` | `RequestsAnswered` | holds |
| `idle` | `IdleScalesToZero` | holds |
| `reconciler` | `NoEventLost`, `Settles` | hold |
| `ext_proc` | `TypeOK`, `RefusalReachesEnvoy`, `DrainedOnExit`, `GateImplemented`, `HandlerEnds`, `ProcessEnds` | hold |
| `replicas` | `ServingOnlyOnLeader`, `SoleScaler`, `FailoverServes` | hold |
| `close_nil`, `restarts`, `scale_down_race`, `scales_down` | one comment of the code each | violated |

What the violated ones show:

- **`datastore_nested`**: `PoolGet` takes the read lock and calls `PoolHasSynced`,
  which takes it again. A `PoolSet` that asks for the write lock in between waits
  for the first and blocks the second. `BlockedOnlyByNestedRLock`
  shows that this is the only way callers block one another.
- **`close_nil`**: two requests can pass `isScalingUp` before
  either reaches `beginScalingUp`. The first to finish closes the other's channel
  and sets `guard` to nil; the second then closes nil and the process dies.
  `SoloScaling` shows that the guard is right as long as this does not happen, and
  `LatchImplemented` that it takes two requests both cleared before either began.
- **`restarts`**: the deactivator logs `pool.Name` of a nil pool when a tick finds
  the datastore empty. With leader election only the leader has a pool, so every
  other replica is ended by its first tick, 120 s after each start.
- **`scale_down_race`**: resetting the ticker does not stop a deactivator that has
  already received its tick.
- **`scales_down`**: a workload with several replicas of which some are not ready
  for the grace period is set to one replica.

Six more observations need no run of their own.

- The grace-period annotation is used for the poll of a workload that already has
  replicas; the scale-from-zero itself waits for the default (`activator.go:162`,
  against the comment in line 130). A request can go through both polls and the
  retention: 60 + 60 + 5 = 125 s with the defaults (`AnsweredInTime`), more than the
  filter's `message_timeout` of 120 s and than the manager's 30 s for a graceful
  stop. `DrainedOnExit` is therefore about a stop that ends in time.
- `PanicsExplained` gives each panic its cause. Beside the two causes above these
  are a `scale-down-delay` that does not parse, which reaches `Ticker.Reset` as 0
  (`activator.go:111`), and a target object without a `status`
  (`activator.go:179`).
- `IdleBeforeTick` is about the period that is in force, which may be longer or
  shorter than the pool's `scale-down-delay`. Every poll sets the default one
  (`activator.go:170`), and a request that polls and then fails leaves it set.
- A request that `waitOnGuard` releases does not reset the ticker
  (`activator.go:99`). When the scale-up it waited for has succeeded,
  `IdleBeforeTick` covers it too: it goes on at the moment at which the scaler
  does, which resets the ticker, and no tick fires before that if the delays
  outlast a scale-up. When that scale-up failed,
  or the wait timed out, `MayActivate` lets the request through all the same,
  without ready pods, and a tick may follow at once.
- The ticker knows only of requests that its own process handled. A replica that
  is not the leader has no pool, so the error of `PoolGet` ends the stream without a
  response and Envoy lets the request through (`server.go:189`); the leader's
  deactivator does not learn of it. Without leader election each replica's
  deactivator likewise sees its own requests only. The chart has one replica.
  `SoleScaler` shows that with leader election at least only one replica scales.
- With `--health-checking` the ext-proc port reports SERVING at all times, on
  every replica (`runserver.go:150`).

**Bounds.**

- `datastore`: the four kinds of goroutines the program has, each with the
  methods it calls, and two pools, so that a changed and a cleared pool differ.
- `scale_to_zero`: two requests are enough for an overlap, for a waiter beside a
  scaler, and for a reset of the ticker by another request. Requests are
  interchangeable, so symmetry is used (no liveness in this run; `LatchImplemented`
  is a safety property). `Grace` = 2
  allows a poll after a failed one. `ShortDelay` = `Grace` + `Retention` is the
  boundary of `DelaysOutlastScaling`. Its only pool has a grace period of its
  own, so that the two of `AnsweredInTime` differ. A second pool with a zero delay
  makes the instance too large; `PanicsAreExplained` and `AnswerTimeBounded` are
  proved for zero delays too, and `idle` runs through them.
- `answers`, `idle`: liveness, with the smallest timeouts that keep every step.
  All behaviours of three requests are too many for liveness, so `answers` begins
  in states from which the cases differ: two requests still to come, the third
  done (which of them scale up, wait, or do both at once is then up to the run); or
  two about to update the scale at once and the third waiting on the channel of the
  first, which nobody will close. Each of these states, for each number of replicas
  and ready replicas, was found reachable from `Init`. Targets have a status
  there: one without ends the process, and with it every request. `idle` has one
  request, since it is about what happens when requests are over, all four kinds of
  pools, and other writers of the scale.
- `scales_down` needs two replicas.
- `reconciler`: two pools and four changes let an object be created, changed,
  marked for deletion and removed while a `Reconcile` runs.
- `ext_proc`: three messages are the headers and two others. Streams share nothing
  but the activator and the server that `GracefulStop` stops, and one stream is
  enough to be waited for.
- `replicas`: with three, a lease can change hands while a third replica waits for
  it. `restarts` needs two.

**Fairness.** `ScaleToZero`: goroutines are scheduled, time passes, API calls
return, and Kubernetes restarts a container. An API call sets no timeout of its
own, but the poll's `GET` is cancelled by the poll's context, and the other calls
of a request by the end of its stream, which Envoy brings about after
`message_timeout`; for the deactivator's calls it is an assumption about the API
server. `IdleScalesToZero` assumes in addition that the API server does not refuse
the same call of the deactivator for ever. No fairness is assumed of pods, other writers, the reconciler or arrivals. `Datastore`: a
goroutine inside a call keeps running, with strong fairness for the hand-over that
`sync.RWMutex` guarantees. `Reconciler`: informer and worker run, and a read or
conversion that is retried for ever succeeds at last; restarts stop. `Serving`:
`Process` and the runnables run, `MayActivate` returns, which is `RequestsAnswered`,
and the manager's grace period ends; nothing is assumed of Envoy. `Replicas`:
processes are restarted, leases expire, goroutines run and tickers tick. Strong
fairness for acquiring the lease, starting what needs it and reconciling stands for
a difference in time that the module does not have: candidates try every 2 s and a
new leader reconciles at once, while the first tick, which could end it, comes
after 120 s. `calm` marks the end of crashes, signals, lost leases and changes of
the object, after which `FailoverServes` expects a replica to become ready.

Deadlock is checked except in the two `Datastore` runs that contain the lock-order
deadlock described above and in `ext_proc`, where stream and process end.

## 4. Proofs

All theorems hold for every value of the constants under the named assumptions of
the modules (`DatastoreAssumption`, `ProcessAssumption`, ...), which only say that
sets and numbers are of the right kind.

- **`DatastoreProofs`**: `TypeCorrect`, `PoolGetSafe`, `DatastoreLinearizable`,
  `OnlyNestedRLockBlocks`.
  `PoolGetNeverNil` is not inductive. `LockInv` ties the mutex to the program
  counters: who holds how many read locks, and that a write happens with no reader
  in. `ReadInv` then says that what `PoolHasSynced` answered inside a `PoolGet`
  still holds when it returns. For the refinement every step that returns from a
  call is the register's step, and every other one is a stutter.
- **`ScaleToZeroProofs`**: `TypeCorrect`. It needs `ViewInv`, that a request in
  flight has a pool; timers stay natural numbers because time waits for an expired
  one.
- **`GuardProofs`**: `GuardAlwaysOwned`, `SoloScalingSafe`, `PanicsAreExplained`,
  `GuardImplementsLatch`. `ScalerInv` ties the set of scalers to program counters
  and says that only a request that has left, or lost its channel to another, has
  a closed one. For the refinement, `LatchFrame` says that a step of one request
  is a step of that request alone to the latch, and `LatchOwnStep` and `LatchStep`
  give the latch's step for each of the program's. `SoloScaling` is what makes the
  mapping work: without an overlap the channel a waiter holds is open exactly when
  it is the current one, so a closed channel is the end of the scale-up it joined.
- **`QuietProofs`**: `QuietTicker`. The time left on the ticker plus the time a
  scaler has spent since its first poll is at least `Grace + Retention`. When time
  passes one goes down as the other goes up, and a reset by whatever request only
  adds. `TimerInv` bounds the timers, so the time spent cannot reach the sum before
  the request is released.
- **`StopwatchProofs`**: `AnswerTimeBounded`, `TicksMeanIdleness`. What a request has
  waited plus what is left of its timer stays within what the part of `MayActivate`
  it is in, and the parts before it, allow; time takes from the one what it adds to
  the other. `IdleInv` does the same for the ticker: the quiet time plus the time
  left on a running ticker is at least its period. A request that found the pods
  ready sets the quiet time to zero and the time left to the period in one step, and
  a reset or a restart only restores the sum. A waiter sets only the quiet time;
  for it `IdleInv` adds that as long as a waiter of a successful scale-up has not
  left, the ticker was just reset or is about to be. That no tick is pending then
  is `QuietWhileScaling`, at the end of the scale-up.
- **`ReconcilerProofs`**: `EventsAreNotLost`. `NoEventLost` is
  inductive with the types.
- **`ServingProofs`**: `TypeCorrect`, `RefusalIsDelivered`, `ShutdownDrains`,
  `ServingImplementsGate`.
  `StreamInv` follows the one response of a stream from `MayActivate` to Envoy.
  `DrainInv` says that while `Process` runs, its server's runnable has not returned
  and `GracefulStop` has not either, unless `Serve` failed. `GateStep` maps each
  step of Envoy, handler and process to one of the gate or to none; it needs from
  `StreamInv` that an immediate response, on its way or applied, comes from a
  refusal, and that a request that was reset had its stream cancelled.
- **`ReplicasProofs`**: `OnlyLeaderServes`, `OnlyLeaderScales`.
  `LeaseInv`: with leader election, a process that leads runs and holds the lease,
  only one that leads has `isLeader` set or a pool, and only one that led when it
  read the pool, and has not ended since, is about to write the scale. It therefore
  still holds the lease when it writes.

Every safety property and refinement that a passing run checks
is also proved. Only model-checked are the liveness properties (`RequestsAnswered`,
`IdleScalesToZero`, `Settles`, `HandlerEnds`, `ProcessEnds`, `FailoverServes`), which
need fairness and `ENABLED` and are out of the prover's reach. The properties of the
violated runs are refuted by TLC's counterexamples.

## 5. Not modelled

- The contents of the TLS certificate, log setup, flag values, ports, cache
  options and the resolution of the pool's namespace: data that no state depends
  on. Whether these steps succeed is in `Runner`.
- `Watch` of the health server, which returns Unimplemented, and the two
  constructors nothing calls (`NewDefaultExtProcServerRunner`,
  `NewManagerWithOptions`).
- The metrics server and the inside of controller-runtime, gRPC and Envoy beyond
  the assumptions in section 2.
- Liveness probes: the chart has none, so `Check` is modelled and a kubelet that
  acts on it is not.
- One process with several streams and the whole request path: `Serving` takes
  from `ScaleToZero` only that `MayActivate` returns, and what it can return.
