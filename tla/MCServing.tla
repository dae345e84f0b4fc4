----------------------------- MODULE MCServing ------------------------------
(* Serving with the request headers and up to two messages of other kinds.   *)
EXTENDS Serving

MessageBound == 3
=============================================================================
