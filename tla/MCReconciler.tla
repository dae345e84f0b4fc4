---------------------------- MODULE MCReconciler ----------------------------
(* Reconciler with two contents of the InferencePool and four changes of it. *)
EXTENDS Reconciler

CONSTANTS p1, p2

Pools == {p1, p2}

ChangeBound == 4
=============================================================================
