------------------------------- MODULE Latch --------------------------------
(***************************************************************************)
(* What Activator.scalingUp and Activator.guard are for, without flag and  *)
(* channel: one request scales up, the requests that come meanwhile wait   *)
(* for it, and go on the moment it is done or when their patience ends.    *)
(*                                                                         *)
(* A request first looks whether a scale-up is under way, and begins its   *)
(* own later.  So one that was cleared before another began can begin too: *)
(* this is the only way to break the latch, which promises nothing after   *)
(* that until the process is restarted.                                    *)
(***************************************************************************)
EXTENDS Integers

CONSTANTS Request, NoGuard, Grace

VARIABLES
  role,      \* role[r]: "out", "cleared", "waiting" or "scaling"
  current,   \* the request that scales up
  joined,    \* joined[r]: the one whose scale-up r waits for
  patience,  \* patience[r]: how long r will still wait
  broken     \* two requests scale up at once

vars == <<role, current, joined, patience, broken>>

Init ==
  /\ role = [r \in Request |-> "out"]
  /\ current = NoGuard
  /\ joined = [r \in Request |-> NoGuard]
  /\ patience = [r \in Request |-> 0]
  /\ broken = FALSE

\* Nobody scales up.
Pass(r) ==
  /\ role[r] = "out" /\ current = NoGuard
  /\ role' = [role EXCEPT ![r] = "cleared"]
  /\ UNCHANGED <<current, joined, patience, broken>>

\* Somebody does.
Join(r) ==
  /\ role[r] = "out" /\ current # NoGuard
  /\ role' = [role EXCEPT ![r] = "waiting"]
  /\ joined' = [joined EXCEPT ![r] = current]
  /\ patience' = [patience EXCEPT ![r] = Grace]
  /\ UNCHANGED <<current, broken>>

\* The pool is ready after all, or cannot be scaled.
Drop(r) ==
  /\ role[r] = "cleared"
  /\ role' = [role EXCEPT ![r] = "out"]
  /\ UNCHANGED <<current, joined, patience, broken>>

Begin(r) ==
  /\ role[r] = "cleared"
  /\ role' = [role EXCEPT ![r] = "scaling"]
  /\ current' = r
  /\ broken' = (current # NoGuard)
  /\ UNCHANGED <<joined, patience>>

Finish(r) ==
  /\ role[r] = "scaling" /\ current = r
  /\ role' = [role EXCEPT ![r] = "out"]
  /\ current' = NoGuard
  /\ UNCHANGED <<joined, patience, broken>>

Leave(r) ==
  /\ role[r] = "waiting" /\ (joined[r] # current \/ patience[r] = 0)
  /\ role' = [role EXCEPT ![r] = "out"]
  /\ joined' = [joined EXCEPT ![r] = NoGuard]
  /\ patience' = [patience EXCEPT ![r] = 0]
  /\ UNCHANGED <<current, broken>>

\* No time passes for a request that has no more reason to wait.
Elapse ==
  /\ \A r \in Request : role[r] = "waiting" => joined[r] = current /\ patience[r] > 0
  /\ patience' = [r \in Request |-> IF role[r] = "waiting" THEN patience[r] - 1 ELSE 0]
  /\ UNCHANGED <<role, current, joined, broken>>

Restart ==
  /\ role' = [r \in Request |-> "out"]
  /\ current' = NoGuard
  /\ joined' = [r \in Request |-> NoGuard]
  /\ patience' = [r \in Request |-> 0]
  /\ broken' = FALSE

Next ==
  \/ broken /\ broken'
  \/ \E r \in Request : Pass(r) \/ Join(r) \/ Drop(r) \/ Begin(r) \/ Finish(r) \/ Leave(r)
  \/ Elapse
  \/ Restart

Spec == Init /\ [][Next]_vars
=============================================================================
