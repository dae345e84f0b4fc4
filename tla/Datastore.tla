----------------------------- MODULE Datastore ------------------------------
(***************************************************************************)
(* pkg/activator/datastore/datastore.go at the granularity of its          *)
(* sync.RWMutex.  A goroutine's pc is the next lock operation or the next  *)
(* access to ds.pool it will perform.  The mutex itself is external (Go's  *)
(* standard library): a writer first announces itself, which keeps new     *)
(* readers out, and then waits for the readers that are already in.        *)
(*                                                                         *)
(* PoolGet takes the read lock and then calls PoolHasSynced, which takes   *)
(* the read lock again (lines 75 and 84).                                  *)
(***************************************************************************)
EXTENDS Naturals

CONSTANTS
  Caller,    \* goroutines that use the datastore
  Pool,      \* InferencePool objects the reconciler may store
  NoPool,    \* the nil pointer
  NoCaller,  \* no goroutine
  Ops        \* Ops[c]: the operations goroutine c performs

Result == {"none", "true", "false", "errPoolNotSynced"}

ASSUME DatastoreAssumption ==
  /\ NoPool \notin Pool \cup Result
  /\ NoCaller \notin Caller
  /\ Ops \in [Caller -> SUBSET {"PoolSet", "PoolGet", "PoolHasSynced", "Ticker"}]

VARIABLES
  pool,      \* ds.pool
  held,      \* poolMu: held[c] is the number of read locks c holds
  writer,    \* poolMu: the caller that announced or holds the write lock
  pc,        \* the next step of each caller
  arg,       \* arg[c]: the argument of the PoolSet c is inside of
  synced,    \* synced[c]: what PoolHasSynced answered inside c's PoolGet
  res        \* res[c]: what c's last call to a reader returned

vars == <<pool, held, writer, pc, arg, synced, res>>

Label == {"idle", "set", "setWait", "setWrite", "get", "getNested", "getCheck",
          "getReturn", "has", "hasCheck", "ticker", "tickerUse"}

TypeOK ==
  /\ pool \in Pool \cup {NoPool}
  /\ held \in [Caller -> 0..2]
  /\ writer \in Caller \cup {NoCaller}
  /\ pc \in [Caller -> Label]
  /\ arg \in [Caller -> Pool \cup {NoPool}]
  /\ synced \in [Caller -> BOOLEAN]
  /\ res \in [Caller -> Pool \cup {NoPool} \cup Result]

\* NewDatastore: the pool is the zero value, nobody holds the mutex.
Init ==
  /\ pool = NoPool
  /\ held = [c \in Caller |-> 0]
  /\ writer = NoCaller
  /\ pc = [c \in Caller |-> "idle"]
  /\ arg = [c \in Caller |-> NoPool]
  /\ synced = [c \in Caller |-> FALSE]
  /\ res = [c \in Caller |-> "none"]

-----------------------------------------------------------------------------
(* sync.RWMutex *)

Goto(c, from, to) ==
  /\ pc[c] = from
  /\ pc' = [pc EXCEPT ![c] = to]

\* A new call: the result of the previous one has been consumed.
Called(c, to) ==
  /\ Goto(c, "idle", to)
  /\ res' = [res EXCEPT ![c] = "none"]

RLock(c) ==
  /\ writer = NoCaller
  /\ held' = [held EXCEPT ![c] = @ + 1]
  /\ UNCHANGED writer

RUnlock(c) ==
  /\ held' = [held EXCEPT ![c] = @ - 1]
  /\ UNCHANGED writer

Announce(c) ==
  /\ writer = NoCaller
  /\ writer' = c
  /\ UNCHANGED held

ReadersGone == \A c \in Caller : held[c] = 0

-----------------------------------------------------------------------------
(* PoolSet, and Clear, which is PoolSet(nil) *)

PoolSetCall(c) ==
  /\ "PoolSet" \in Ops[c]
  /\ Called(c, "set")
  /\ \E p \in Pool \cup {NoPool} : arg' = [arg EXCEPT ![c] = p]
  /\ UNCHANGED <<pool, held, writer, synced>>

PoolSetLock(c) ==
  /\ Goto(c, "set", "setWait")
  /\ Announce(c)
  /\ UNCHANGED <<pool, arg, synced, res>>

PoolSetLocked(c) ==
  /\ Goto(c, "setWait", "setWrite")
  /\ ReadersGone
  /\ UNCHANGED <<pool, held, writer, arg, synced, res>>

PoolSetWriteKeepsLock(c) ==
  /\ Goto(c, "setWrite", "idle")
  /\ pool' = arg[c]
  /\ arg' = [arg EXCEPT ![c] = NoPool]
  /\ UNCHANGED <<held, writer, synced, res>>

\* ds.pool = pool and the deferred Unlock.
PoolSetWrite(c) ==
  /\ Goto(c, "setWrite", "idle")
  /\ pool' = arg[c]
  /\ arg' = [arg EXCEPT ![c] = NoPool]
  /\ writer' = NoCaller
  /\ UNCHANGED <<held, synced, res>>

-----------------------------------------------------------------------------
(* PoolGet, with its nested call of PoolHasSynced *)

PoolGetCall(c) ==
  /\ "PoolGet" \in Ops[c]
  /\ Called(c, "get")
  /\ UNCHANGED <<pool, held, writer, arg, synced>>

PoolGetRLock(c) ==
  /\ Goto(c, "get", "getNested")
  /\ RLock(c)
  /\ UNCHANGED <<pool, arg, synced, res>>

PoolGetNestedRLock(c) ==
  /\ Goto(c, "getNested", "getCheck")
  /\ RLock(c)
  /\ UNCHANGED <<pool, arg, synced, res>>

PoolGetCheckDropsLock(c) ==
  /\ Goto(c, "getCheck", "getReturn")
  /\ synced' = [synced EXCEPT ![c] = pool # NoPool]
  /\ held' = [held EXCEPT ![c] = 0]
  /\ UNCHANGED <<pool, writer, arg, res>>

\* return ds.pool != nil, and the RUnlock deferred by PoolHasSynced.
PoolGetCheck(c) ==
  /\ Goto(c, "getCheck", "getReturn")
  /\ synced' = [synced EXCEPT ![c] = pool # NoPool]
  /\ RUnlock(c)
  /\ UNCHANGED <<pool, arg, res>>

PoolGetReturnIgnoresSync(c) ==
  /\ Goto(c, "getReturn", "idle")
  /\ res' = [res EXCEPT ![c] = pool]
  /\ synced' = [synced EXCEPT ![c] = FALSE]
  /\ RUnlock(c)
  /\ UNCHANGED <<pool, arg>>

\* The second read of ds.pool, or the error, and the deferred RUnlock.
PoolGetReturn(c) ==
  /\ Goto(c, "getReturn", "idle")
  /\ res' = [res EXCEPT ![c] = IF synced[c] THEN pool ELSE "errPoolNotSynced"]
  /\ synced' = [synced EXCEPT ![c] = FALSE]
  /\ RUnlock(c)
  /\ UNCHANGED <<pool, arg>>

-----------------------------------------------------------------------------
(* PoolHasSynced called on its own, by the health server *)

PoolHasSyncedCall(c) ==
  /\ "PoolHasSynced" \in Ops[c]
  /\ Called(c, "has")
  /\ UNCHANGED <<pool, held, writer, arg, synced>>

PoolHasSyncedRLock(c) ==
  /\ Goto(c, "has", "hasCheck")
  /\ RLock(c)
  /\ UNCHANGED <<pool, arg, synced, res>>

PoolHasSyncedReturn(c) ==
  /\ Goto(c, "hasCheck", "idle")
  /\ res' = [res EXCEPT ![c] = IF pool # NoPool THEN "true" ELSE "false"]
  /\ RUnlock(c)
  /\ UNCHANGED <<pool, arg, synced>>

-----------------------------------------------------------------------------
(* ResetTicker, GetTicker and StopTicker use the ticker under the read lock; *)
(* what they do to the ticker is modelled in Process.tla.                    *)

TickerCall(c) ==
  /\ "Ticker" \in Ops[c]
  /\ Called(c, "ticker")
  /\ UNCHANGED <<pool, held, writer, arg, synced>>

TickerRLock(c) ==
  /\ Goto(c, "ticker", "tickerUse")
  /\ RLock(c)
  /\ UNCHANGED <<pool, arg, synced, res>>

TickerReturn(c) ==
  /\ Goto(c, "tickerUse", "idle")
  /\ RUnlock(c)
  /\ UNCHANGED <<pool, arg, synced, res>>

-----------------------------------------------------------------------------
Call(c) ==
  \/ PoolSetCall(c)
  \/ PoolGetCall(c)
  \/ PoolHasSyncedCall(c)
  \/ TickerCall(c)

Step(c) ==
  \/ PoolSetLock(c)
  \/ PoolSetLocked(c)
  \/ PoolSetWrite(c)
  \/ PoolGetRLock(c)
  \/ PoolGetNestedRLock(c)
  \/ PoolGetCheck(c)
  \/ PoolGetReturn(c)
  \/ PoolHasSyncedRLock(c)
  \/ PoolHasSyncedReturn(c)
  \/ TickerRLock(c)
  \/ TickerReturn(c)

Next == \E c \in Caller : Call(c) \/ Step(c)

Spec == Init /\ [][Next]_vars

\* A goroutine inside a call keeps running.  Strong fairness stands for the
\* hand-over in RWMutex.Unlock: a blocked reader or writer is admitted after
\* finitely many turns of the others.
Fairness == \A c \in Caller : SF_vars(Step(c))

FairSpec == Spec /\ Fairness

-----------------------------------------------------------------------------
(* PoolGet looks at ds.pool twice, once in PoolHasSynced and once in its     *)
(* return statement.  Whatever PoolSet or Clear does in between, it never    *)
(* returns a nil pool without an error: its callers dereference the pool.    *)
PoolGetNeverNil == \A c \in Caller : res[c] # NoPool

\* c is inside a call and its next step is a lock operation that must wait.
Blocked(c) ==
  \/ pc[c] \in {"set", "get", "getNested", "has", "ticker"} /\ writer # NoCaller
  \/ pc[c] = "setWait" /\ ~ReadersGone

(* Callers block one another for good in one way only: a PoolGet that holds  *)
(* the read lock waits, inside PoolHasSynced, behind a PoolSet that waits    *)
(* for that very read lock.                                                  *)
BlockedOnlyByNestedRLock ==
  (\E c \in Caller : pc[c] # "idle") /\ (\A c \in Caller : pc[c] # "idle" => Blocked(c))
    => \E c, w \in Caller : pc[c] = "getNested" /\ pc[w] = "setWait"

\* The operation a caller is inside of.
PendingOp(l) ==
  CASE l \in {"set", "setWait", "setWrite"} -> "PoolSet"
    [] l \in {"get", "getNested", "getCheck", "getReturn"} -> "PoolGet"
    [] l \in {"has", "hasCheck"} -> "PoolHasSynced"
    [] l \in {"ticker", "tickerUse"} -> "Ticker"
    [] OTHER -> "idle"

Register == INSTANCE PoolRegister WITH op <- [c \in Caller |-> PendingOp(pc[c])]

(* The locked datastore implements the atomic register: every PoolSet,       *)
(* PoolGet and PoolHasSynced takes effect at one moment between its call and *)
(* its return.                                                               *)
Linearizable == Register!Spec

(* Every call of a datastore method returns.                                 *)
CallsReturn == \A c \in Caller : pc[c] # "idle" ~> pc[c] = "idle"
=============================================================================
