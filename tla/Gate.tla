-------------------------------- MODULE Gate --------------------------------
(***************************************************************************)
(* What the ext-proc server promises for an HTTP request, whatever streams, *)
(* goroutines and servers it is made of.  The activator decides once.  What *)
(* it admits goes upstream and what it refuses is refused; a request it    *)
(* gives no answer to goes upstream too, because the filter fails open.    *)
(* Only being cut off, by Envoy, the HTTP client, a broken connection, a   *)
(* failed Send or the end of the process, makes a difference to a request  *)
(* that was refused: it then goes upstream as well.                        *)
(***************************************************************************)
VARIABLES
  http,      \* "pending", or what became of the request
  decision,  \* "none", "nil", "unavailable", or "notSynced" for no answer
  cut        \* nobody waits for the answer, or nobody is left to give it

vars == <<http, decision, cut>>

Init ==
  /\ http = "pending"
  /\ decision = "none"
  /\ cut = FALSE

\* Nobody is scaled up for a request that already has its outcome, unless
\* the request was cut off during the call.
Decide ==
  /\ decision = "none" /\ (http = "pending" \/ cut)
  /\ decision' \in {"nil", "unavailable", "notSynced"}
  /\ UNCHANGED <<http, cut>>

Admit ==
  /\ http = "pending" /\ decision = "nil"
  /\ http' = "upstream"
  /\ UNCHANGED <<decision, cut>>

Refuse ==
  /\ http = "pending" /\ decision = "unavailable"
  /\ http' = "refused"
  /\ UNCHANGED <<decision, cut>>

FailOpen ==
  /\ http = "pending" /\ (decision = "unavailable" => cut)
  /\ http' = "upstream"
  /\ UNCHANGED <<decision, cut>>

\* Envoy stops waiting, the client goes away, the stream fails, or the process
\* ends.
CutOff ==
  /\ ~cut
  /\ cut' = TRUE
  /\ \/ http' = http
     \/ http = "pending" /\ http' \in {"upstream", "reset"}
  /\ UNCHANGED decision

\* A client may also go away from a gate that no longer answers.
ClientReset ==
  /\ http = "pending" /\ cut
  /\ http' = "reset"
  /\ UNCHANGED <<decision, cut>>

Next == Decide \/ Admit \/ Refuse \/ FailOpen \/ CutOff \/ ClientReset

Spec == Init /\ [][Next]_vars
=============================================================================
