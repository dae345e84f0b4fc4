-------------------------- MODULE DatastoreProofs ---------------------------
(***************************************************************************)
(* Proofs about Datastore.tla for any number of goroutines.  PoolGetNeverNil *)
(* is not inductive: it needs to know that the read locks counted by the   *)
(* mutex are the ones the program counters imply, and that what            *)
(* PoolHasSynced answered inside a PoolGet stays true until that PoolGet   *)
(* returns.                                                                *)
(***************************************************************************)
EXTENDS Datastore, TLAPS

\* The number of read locks a goroutine holds at each step.
LocksAt(l) ==
  CASE l = "getCheck" -> 2
    [] l \in {"getNested", "getReturn", "hasCheck", "tickerUse"} -> 1
    [] OTHER -> 0

LockInv ==
  \A c \in Caller :
    /\ held[c] = LocksAt(pc[c])
    /\ pc[c] \in {"setWait", "setWrite"} <=> writer = c
    /\ pc[c] = "setWrite" => ReadersGone

ReadInv ==
  \A c \in Caller :
    /\ pc[c] = "getReturn" => (synced[c] <=> pool # NoPool)
    /\ pc[c] \notin {"set", "setWait", "setWrite"} => arg[c] = NoPool
    /\ res[c] # NoPool

Inv == TypeOK /\ LockInv /\ ReadInv

\* What NewDatastore returns satisfies the inductive invariant.
LEMMA InitInv == Init => Inv
  BY DatastoreAssumption
     DEF Init, Inv, TypeOK, LockInv, ReadInv, LocksAt, Label, Result, ReadersGone

\* PoolSet's write waits until no goroutine is inside a read section.
LEMMA WriteExcludesReaders ==
  ASSUME TypeOK, LockInv, NEW c \in Caller, pc[c] = "setWrite", NEW d \in Caller
  PROVE  pc[d] \notin {"getNested", "getCheck", "getReturn", "hasCheck", "tickerUse"}
  BY DEF LockInv, LocksAt, ReadersGone, TypeOK, Label

\* No step of a caller takes a field of the datastore out of its type.
LEMMA TypeStep == Inv /\ [Next]_vars => TypeOK'
<1> SUFFICES ASSUME Inv, [Next]_vars PROVE TypeOK'
  OBVIOUS
<1> USE DEF Inv, TypeOK, Goto, Called, Label, Result
<1>1. ASSUME NEW c \in Caller, Call(c) PROVE TypeOK'
  BY <1>1 DEF Call, PoolSetCall, PoolGetCall, PoolHasSyncedCall, TickerCall
<1>2. ASSUME NEW c \in Caller, Step(c) PROVE TypeOK'
  <2> USE DEF LockInv, LocksAt
  <2>1. CASE PoolSetLock(c) \/ PoolSetLocked(c) \/ PoolSetWrite(c)
    BY <2>1 DEF PoolSetLock, PoolSetLocked, PoolSetWrite, Announce
  <2>2. CASE PoolGetRLock(c) \/ PoolGetNestedRLock(c)
    BY <2>2 DEF PoolGetRLock, PoolGetNestedRLock, RLock
  <2>3. CASE PoolGetCheck(c)
    <3>1. synced' \in [Caller -> BOOLEAN]
      <4>1. (pool # NoPool) \in BOOLEAN
        OBVIOUS
      <4> QED
        BY <2>3, <4>1, Zenon DEF PoolGetCheck
    <3> QED
      BY <2>3, <3>1 DEF PoolGetCheck, RUnlock
  <2>4. CASE PoolHasSyncedRLock(c) \/ TickerRLock(c)
    BY <2>4 DEF PoolHasSyncedRLock, TickerRLock, RLock
  <2>5. CASE PoolHasSyncedReturn(c) \/ TickerReturn(c)
    BY <2>5 DEF PoolHasSyncedReturn, TickerReturn, RUnlock
  <2>6. CASE PoolGetReturn(c)
    <3>1. synced' \in [Caller -> BOOLEAN]
      BY <2>6, Zenon DEF PoolGetReturn
    <3>2. res' \in [Caller -> Pool \cup {NoPool} \cup Result]
      BY <2>6 DEF PoolGetReturn
    <3> QED
      BY <2>6, <3>1, <3>2 DEF PoolGetReturn, RUnlock
  <2> QED
    BY <1>2, <2>1, <2>2, <2>3, <2>4, <2>5, <2>6 DEF Step
<1>3. CASE UNCHANGED vars
  BY <1>3 DEF vars
<1> QED
  BY <1>1, <1>2, <1>3 DEF Next

\* Every Lock, RLock and their unlocks keep the mutex consistent with where
\* the callers stand.
LEMMA LockStep == Inv /\ [Next]_vars => LockInv'
<1> SUFFICES ASSUME Inv, [Next]_vars PROVE LockInv'
  OBVIOUS
<1> USE DatastoreAssumption DEF Inv, TypeOK, LockInv, LocksAt, Goto, Called, Label, ReadersGone
<1>1. ASSUME NEW c \in Caller, Call(c) PROVE LockInv'
  BY <1>1 DEF Call, PoolSetCall, PoolGetCall, PoolHasSyncedCall, TickerCall
<1>2. ASSUME NEW c \in Caller, Step(c) PROVE LockInv'
  <2>1. CASE PoolSetLock(c)
    BY <2>1 DEF PoolSetLock, Announce
  <2>2. CASE PoolSetLocked(c)
    BY <2>2 DEF PoolSetLocked
  <2>3. CASE PoolSetWrite(c)
    BY <2>3 DEF PoolSetWrite
  <2>4. CASE PoolGetRLock(c) \/ PoolGetNestedRLock(c)
    BY <2>4 DEF PoolGetRLock, PoolGetNestedRLock, RLock
  <2>5. CASE PoolGetCheck(c) \/ PoolGetReturn(c)
    BY <2>5 DEF PoolGetCheck, PoolGetReturn, RUnlock
  <2>6. CASE PoolHasSyncedRLock(c) \/ TickerRLock(c)
    BY <2>6 DEF PoolHasSyncedRLock, TickerRLock, RLock
  <2>7. CASE PoolHasSyncedReturn(c) \/ TickerReturn(c)
    BY <2>7 DEF PoolHasSyncedReturn, TickerReturn, RUnlock
  <2> QED
    BY <1>2, <2>1, <2>2, <2>3, <2>4, <2>5, <2>6, <2>7 DEF Step
<1>3. CASE UNCHANGED vars
  BY <1>3 DEF vars
<1> QED
  BY <1>1, <1>2, <1>3 DEF Next

\* What PoolHasSynced answered stays true until the PoolGet around it returns.
LEMMA ReadStep == Inv /\ [Next]_vars => ReadInv'
<1> SUFFICES ASSUME Inv, [Next]_vars PROVE ReadInv'
  OBVIOUS
<1> USE DatastoreAssumption DEF Inv, TypeOK, ReadInv, Goto, Called, Result
<1>1. ASSUME NEW c \in Caller, Call(c) PROVE ReadInv'
  BY <1>1 DEF Call, PoolSetCall, PoolGetCall, PoolHasSyncedCall, TickerCall
<1>2. ASSUME NEW c \in Caller, Step(c) PROVE ReadInv'
  <2>1. CASE PoolSetWrite(c)
    BY <2>1, WriteExcludesReaders DEF PoolSetWrite
  <2>2. CASE PoolSetLock(c) \/ PoolSetLocked(c)
    BY <2>2 DEF PoolSetLock, PoolSetLocked
  <2>3. CASE PoolGetRLock(c) \/ PoolGetNestedRLock(c) \/ PoolGetCheck(c)
    BY <2>3 DEF PoolGetRLock, PoolGetNestedRLock, PoolGetCheck
  <2>4. CASE PoolGetReturn(c)
    BY <2>4 DEF PoolGetReturn
  <2>5. CASE PoolHasSyncedRLock(c) \/ TickerRLock(c) \/ TickerReturn(c)
    BY <2>5 DEF PoolHasSyncedRLock, TickerRLock, TickerReturn
  <2>6. CASE PoolHasSyncedReturn(c)
    BY <2>6 DEF PoolHasSyncedReturn
  <2> QED
    BY <1>2, <2>1, <2>2, <2>3, <2>4, <2>5, <2>6 DEF Step
<1>3. CASE UNCHANGED vars
  BY <1>3 DEF vars
<1> QED
  BY <1>1, <1>2, <1>3 DEF Next

\* The inductive invariant holds in every reachable state.
LEMMA Invariance == Spec => []Inv
<1>1. Inv /\ [Next]_vars => Inv'
  BY TypeStep, LockStep, ReadStep DEF Inv
<1> QED
  BY InitInv, <1>1, PTL DEF Spec

(* The types of the datastore's fields and of the mutex hold in every state; *)
(* in particular no RUnlock is ever called without its RLock.                *)
THEOREM TypeCorrect == Spec => []TypeOK
<1>1. Inv => TypeOK
  BY DEF Inv
<1> QED
  BY Invariance, <1>1, PTL

(* PoolGet never returns a nil pool without an error, for any number of      *)
(* goroutines that set, clear and read the pool.                             *)
THEOREM PoolGetSafe == Spec => []PoolGetNeverNil
<1>1. Inv => PoolGetNeverNil
  BY DEF Inv, ReadInv, PoolGetNeverNil
<1> QED
  BY Invariance, <1>1, PTL

\* The invariant of the mutex excludes every other deadlock: a writer that has
\* the lock and a reader that needs no second one can always go on.
LEMMA BlockedByNestedRLock == Inv => BlockedOnlyByNestedRLock
<1> SUFFICES ASSUME Inv, NEW b \in Caller, pc[b] # "idle",
                    \A c \in Caller : pc[c] # "idle" => Blocked(c)
             PROVE  \E c, w \in Caller : pc[c] = "getNested" /\ pc[w] = "setWait"
  BY DEF BlockedOnlyByNestedRLock
<1> USE DatastoreAssumption DEF Inv, TypeOK, LockInv, LocksAt, Label, Blocked, ReadersGone
<1>1. writer # NoCaller
  BY DEF Blocked
<1>2. pc[writer] = "setWait"
  BY <1>1
<1>3. PICK c \in Caller : held[c] # 0
  BY <1>1, <1>2
<1>4. pc[c] = "getNested"
  BY <1>3
<1> QED
  BY <1>1, <1>2, <1>4

(* Goroutines that use the datastore can only stop each other through the    *)
(* second RLock of PoolGet: without it there is no deadlock.                 *)
THEOREM OnlyNestedRLockBlocks == Spec => []BlockedOnlyByNestedRLock
  BY Invariance, BlockedByNestedRLock, PTL

-----------------------------------------------------------------------------
(* The lock-level datastore implements the atomic register.  A PoolSet takes *)
(* effect at its write and a reader at its return; every other lock step is  *)
(* a stutter of the register.                                                *)

\* What a step of c alone does to the operations the register sees.
LEMMA PendingOpStep ==
  ASSUME NEW c \in Caller, NEW from, NEW to,
         pc \in [Caller -> Label], Goto(c, from, to)
  PROVE  /\ [d \in Caller |-> PendingOp(pc[d])][c] = PendingOp(from)
         /\ [d \in Caller |-> PendingOp(pc[d])]'
              = [[d \in Caller |-> PendingOp(pc[d])] EXCEPT ![c] = PendingOp(to)]
  BY DEF Goto

\* The operation a caller has pending right after its call and right before
\* its return.
LEMMA CallOps ==
  /\ PendingOp("idle") = "idle"
  /\ PendingOp("set") = "PoolSet"
  /\ PendingOp("get") = "PoolGet"
  /\ PendingOp("has") = "PoolHasSynced"
  /\ PendingOp("ticker") = "Ticker"
  /\ PendingOp("setWrite") = "PoolSet"
  /\ PendingOp("getReturn") = "PoolGet"
  /\ PendingOp("hasCheck") = "PoolHasSynced"
  /\ PendingOp("tickerUse") = "Ticker"
  BY DEF PendingOp

\* The new datastore is the empty register.
LEMMA RegisterInit == Init => Register!Init
  BY DEF Init, Register!Init, PendingOp

\* A step inside a call is a stutter of the register, the step that returns
\* from it is the register's own.
LEMMA RegisterStep == Inv /\ [Next]_vars => [Register!Next]_(Register!vars)
<1> SUFFICES ASSUME Inv, [Next]_vars PROVE [Register!Next]_(Register!vars)
  OBVIOUS
<1> DEFINE op == [d \in Caller |-> PendingOp(pc[d])]
<1>t. pc \in [Caller -> Label] /\ arg \in [Caller -> Pool \cup {NoPool}]
  BY DEF Inv, TypeOK
<1>o. ASSUME NEW c \in Caller, NEW from, NEW to, Goto(c, from, to)
      PROVE  op[c] = PendingOp(from) /\ op' = [op EXCEPT ![c] = PendingOp(to)]
  BY <1>o, <1>t, PendingOpStep
<1>1. ASSUME NEW c \in Caller, Call(c) PROVE Register!Next
  <2>1. CASE PoolSetCall(c)
    <3>0. Goto(c, "idle", "set")
      BY <2>1 DEF PoolSetCall, Called
    <3>1. op[c] = "idle" /\ op' = [op EXCEPT ![c] = "PoolSet"]
      <4>1. op[c] = PendingOp("idle") /\ op' = [op EXCEPT ![c] = PendingOp("set")]
        BY <3>0, <1>o
      <4> HIDE DEF op
      <4> QED
        BY <4>1, CallOps
    <3>2. PICK p \in Pool \cup {NoPool} : arg' = [arg EXCEPT ![c] = p]
      BY <2>1 DEF PoolSetCall
    <3>3. Register!CallSet(c, p)
      BY <2>1, <3>1, <3>2 DEF PoolSetCall, Called, Register!CallSet, Register!Call
    <3> QED
      BY <3>3 DEF Register!Next
  <2>2. ASSUME NEW o \in {"PoolGet", "PoolHasSynced", "Ticker"},
               op[c] = "idle", op' = [op EXCEPT ![c] = o],
               res' = [res EXCEPT ![c] = "none"], UNCHANGED <<pool, arg>>
        PROVE  Register!Next
    BY <2>2 DEF Register!Next, Register!CallOther, Register!Call
  <2>3. CASE PoolGetCall(c)
    <3>0. Goto(c, "idle", "get")
      BY <2>3 DEF PoolGetCall, Called
    <3>1. op[c] = "idle" /\ op' = [op EXCEPT ![c] = "PoolGet"]
      <4>1. op[c] = PendingOp("idle") /\ op' = [op EXCEPT ![c] = PendingOp("get")]
        BY <3>0, <1>o
      <4> HIDE DEF op
      <4> QED
        BY <4>1, CallOps
    <3> QED
      BY <2>2, <2>3, <3>1 DEF PoolGetCall, Called
  <2>4. CASE PoolHasSyncedCall(c)
    <3>0. Goto(c, "idle", "has")
      BY <2>4 DEF PoolHasSyncedCall, Called
    <3>1. op[c] = "idle" /\ op' = [op EXCEPT ![c] = "PoolHasSynced"]
      <4>1. op[c] = PendingOp("idle") /\ op' = [op EXCEPT ![c] = PendingOp("has")]
        BY <3>0, <1>o
      <4> HIDE DEF op
      <4> QED
        BY <4>1, CallOps
    <3> QED
      BY <2>2, <2>4, <3>1 DEF PoolHasSyncedCall, Called
  <2>5. CASE TickerCall(c)
    <3>0. Goto(c, "idle", "ticker")
      BY <2>5 DEF TickerCall, Called
    <3>1. op[c] = "idle" /\ op' = [op EXCEPT ![c] = "Ticker"]
      <4>1. op[c] = PendingOp("idle") /\ op' = [op EXCEPT ![c] = PendingOp("ticker")]
        BY <3>0, <1>o
      <4> HIDE DEF op
      <4> QED
        BY <4>1, CallOps
    <3> QED
      BY <2>2, <2>5, <3>1 DEF TickerCall, Called
  <2> QED
    BY <1>1, <2>1, <2>3, <2>4, <2>5 DEF Call
<1>2. ASSUME NEW c \in Caller, Step(c) PROVE [Register!Next]_(Register!vars)
  <2>1. ASSUME NEW from \in Label, NEW to \in Label, Goto(c, from, to),
               PendingOp(from) = PendingOp(to), UNCHANGED <<pool, arg, res>>
        PROVE  UNCHANGED Register!vars
    <3>1. op' = [op EXCEPT ![c] = PendingOp(to)] /\ op[c] = PendingOp(to)
      BY <2>1, <1>o
    <3>2. op' = op
      BY <3>1
    <3> QED
      BY <2>1, <3>2 DEF Register!vars
  <2>2. CASE \/ PoolSetLock(c) \/ PoolSetLocked(c)
             \/ PoolGetRLock(c) \/ PoolGetNestedRLock(c) \/ PoolGetCheck(c)
             \/ PoolHasSyncedRLock(c) \/ TickerRLock(c)
    BY <2>1, <2>2 DEF PoolSetLock, PoolSetLocked, PoolGetRLock, PoolGetNestedRLock,
       PoolGetCheck, PoolHasSyncedRLock, TickerRLock, Label, PendingOp
  <2>3. CASE PoolSetWrite(c)
    <3>0. Goto(c, "setWrite", "idle")
      BY <2>3 DEF PoolSetWrite
    <3>1. op[c] = "PoolSet" /\ op' = [op EXCEPT ![c] = "idle"]
      <4>1. op[c] = PendingOp("setWrite") /\ op' = [op EXCEPT ![c] = PendingOp("idle")]
        BY <3>0, <1>o
      <4> HIDE DEF op
      <4> QED
        BY <4>1, CallOps
    <3>2. Register!Set(c)
      BY <2>3, <3>1 DEF PoolSetWrite, Register!Set, Register!Return
    <3> QED
      BY <3>2 DEF Register!Next
  <2>4. CASE PoolGetReturn(c)
    <3>0. Goto(c, "getReturn", "idle")
      BY <2>4 DEF PoolGetReturn
    <3>1. op[c] = "PoolGet" /\ op' = [op EXCEPT ![c] = "idle"]
      <4>1. op[c] = PendingOp("getReturn") /\ op' = [op EXCEPT ![c] = PendingOp("idle")]
        BY <3>0, <1>o
      <4> HIDE DEF op
      <4> QED
        BY <4>1, CallOps
    <3>2. (synced[c] <=> pool # NoPool) /\ arg[c] = NoPool
      BY <2>4 DEF Inv, ReadInv, PoolGetReturn, Goto
    <3>3. arg' = [arg EXCEPT ![c] = NoPool]
      BY <2>4, <3>2, <1>t DEF PoolGetReturn
    <3>4. res' = [res EXCEPT ![c] = IF pool = NoPool THEN "errPoolNotSynced" ELSE pool]
      BY <2>4, <3>2 DEF PoolGetReturn
    <3>5. Register!Get(c)
      BY <2>4, <3>1, <3>3, <3>4 DEF PoolGetReturn, Register!Get, Register!Return
    <3> QED
      BY <3>5 DEF Register!Next
  <2>5. CASE PoolHasSyncedReturn(c)
    <3>0. Goto(c, "hasCheck", "idle")
      BY <2>5 DEF PoolHasSyncedReturn
    <3>1. op[c] = "PoolHasSynced" /\ op' = [op EXCEPT ![c] = "idle"]
      <4>1. op[c] = PendingOp("hasCheck") /\ op' = [op EXCEPT ![c] = PendingOp("idle")]
        BY <3>0, <1>o
      <4> HIDE DEF op
      <4> QED
        BY <4>1, CallOps
    <3>2. arg[c] = NoPool
      BY <2>5 DEF Inv, ReadInv, PoolHasSyncedReturn, Goto
    <3>3. arg' = [arg EXCEPT ![c] = NoPool]
      BY <2>5, <3>2, <1>t DEF PoolHasSyncedReturn
    <3>4. res' = [res EXCEPT ![c] = IF pool = NoPool THEN "false" ELSE "true"]
      BY <2>5 DEF PoolHasSyncedReturn
    <3>5. Register!HasSynced(c)
      BY <2>5, <3>1, <3>3, <3>4 DEF PoolHasSyncedReturn, Register!HasSynced, Register!Return
    <3> QED
      BY <3>5 DEF Register!Next
  <2>6. CASE TickerReturn(c)
    <3>0. Goto(c, "tickerUse", "idle")
      BY <2>6 DEF TickerReturn
    <3>1. op[c] = "Ticker" /\ op' = [op EXCEPT ![c] = "idle"]
      <4>1. op[c] = PendingOp("tickerUse") /\ op' = [op EXCEPT ![c] = PendingOp("idle")]
        BY <3>0, <1>o
      <4> HIDE DEF op
      <4> QED
        BY <4>1, CallOps
    <3>2. arg[c] = NoPool
      BY <2>6 DEF Inv, ReadInv, TickerReturn, Goto
    <3>3. arg' = [arg EXCEPT ![c] = NoPool]
      BY <2>6, <3>2, <1>t DEF TickerReturn
    <3>4. Register!TickerCall(c)
      BY <2>6, <3>1, <3>3 DEF TickerReturn, Register!TickerCall, Register!Return
    <3> QED
      BY <3>4 DEF Register!Next
  <2> QED
    BY <1>2, <2>2, <2>3, <2>4, <2>5, <2>6 DEF Step
<1>3. CASE UNCHANGED vars
  BY <1>3 DEF vars, Register!vars
<1> QED
  BY <1>1, <1>2, <1>3 DEF Next

(* Every behaviour of the datastore with its mutex is one of the atomic      *)
(* register: PoolSet, Clear, PoolGet and PoolHasSynced are linearizable.     *)
THEOREM DatastoreLinearizable == Spec => Linearizable
  BY Invariance, RegisterInit, RegisterStep, PTL
     DEF Spec, Linearizable, Register!Spec
=============================================================================
