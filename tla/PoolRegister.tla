---------------------------- MODULE PoolRegister ----------------------------
(***************************************************************************)
(* What the datastore promises its callers, without any lock: one register *)
(* that holds the InferencePool or nothing, whose operations each take     *)
(* effect in a single step somewhere between the call and the return.      *)
(* Datastore.tla is the implementation with its read-write mutex.          *)
(***************************************************************************)
CONSTANTS
  Caller,   \* goroutines that use the datastore
  Pool,     \* InferencePool objects
  NoPool    \* the nil pointer

VARIABLES
  pool,     \* the register
  op,       \* op[c]: the operation caller c has pending, or "idle"
  arg,      \* arg[c]: the argument of c's pending PoolSet
  res       \* res[c]: what c's last read returned

vars == <<pool, op, arg, res>>

Init ==
  /\ pool = NoPool
  /\ op = [c \in Caller |-> "idle"]
  /\ arg = [c \in Caller |-> NoPool]
  /\ res = [c \in Caller |-> "none"]

Call(c, o) ==
  /\ op[c] = "idle"
  /\ op' = [op EXCEPT ![c] = o]
  /\ res' = [res EXCEPT ![c] = "none"]
  /\ UNCHANGED pool

CallSet(c, p) ==
  /\ Call(c, "PoolSet")
  /\ arg' = [arg EXCEPT ![c] = p]

CallOther(c, o) ==
  /\ Call(c, o)
  /\ UNCHANGED arg

Return(c, o) ==
  /\ op[c] = o
  /\ op' = [op EXCEPT ![c] = "idle"]
  /\ arg' = [arg EXCEPT ![c] = NoPool]

Set(c) ==
  /\ Return(c, "PoolSet")
  /\ pool' = arg[c]
  /\ UNCHANGED res

\* The pool and the error come from one and the same moment.
Get(c) ==
  /\ Return(c, "PoolGet")
  /\ res' = [res EXCEPT ![c] = IF pool = NoPool THEN "errPoolNotSynced" ELSE pool]
  /\ UNCHANGED pool

HasSynced(c) ==
  /\ Return(c, "PoolHasSynced")
  /\ res' = [res EXCEPT ![c] = IF pool = NoPool THEN "false" ELSE "true"]
  /\ UNCHANGED pool

TickerCall(c) ==
  /\ Return(c, "Ticker")
  /\ UNCHANGED <<pool, res>>

Next ==
  \E c \in Caller :
    \/ \E p \in Pool \cup {NoPool} : CallSet(c, p)
    \/ \E o \in {"PoolGet", "PoolHasSynced", "Ticker"} : CallOther(c, o)
    \/ Set(c)
    \/ Get(c)
    \/ HasSynced(c)
    \/ TickerCall(c)

Spec == Init /\ [][Next]_vars
=============================================================================
