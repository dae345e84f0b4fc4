----------------------------- MODULE MCReplicas -----------------------------
(* Replicas with a leader and candidates to take over from it.               *)
EXTENDS Replicas
=============================================================================
