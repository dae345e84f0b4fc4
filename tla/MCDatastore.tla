---------------------------- MODULE MCDatastore -----------------------------
(* Instances of Datastore for TLC: the goroutines of the running program and *)
(* the datastore methods each of them calls.                                 *)
EXTENDS Datastore

Goroutines == {"reconciler", "request", "deactivator", "health"}

ProgramOps ==
  [c \in Goroutines |->
    CASE c = "reconciler" -> {"PoolSet"}
      [] c = "health" -> {"PoolHasSynced"}
      [] OTHER -> {"PoolGet", "Ticker"}]
=============================================================================
