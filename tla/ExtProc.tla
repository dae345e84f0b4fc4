------------------------------ MODULE ExtProc -------------------------------
(***************************************************************************)
(* handlers/server.go: one ext-proc stream between Envoy and the activator. *)
(* Envoy opens a stream per HTTP request and Process handles each in a     *)
(* goroutine of its own; streams share nothing but the activator.  Envoy,  *)
(* gRPC and the filter configuration (charts/activator-filter:             *)
(* failure_mode_allow, message_timeout, request headers only) are external. *)
(*                                                                         *)
(* MayActivate may take any time, does not look at the stream's context    *)
(* while it polls or waits, and returns nil, a ServiceUnavailable error or *)
(* the datastore's error; what it does is in Activator.tla.  The request   *)
(* headers are the first message of a stream and there is one of them, so  *)
(* at most one response is on its way to Envoy.                            *)
(***************************************************************************)
EXTENDS Naturals

CONSTANT MaxMessages   \* bound on the messages Envoy sends on the stream

ASSUME ExtProcAssumption == MaxMessages \in Nat \ {0}

VARIABLES
  http,      \* what became of the HTTP request
  sent,      \* number of messages Envoy has sent
  unread,    \* number of them the server has not received yet
  stream,    \* "open", "halfClosed" by Envoy, "canceled", or "broken" transport
  spc,       \* where Process stands; "none" before the stream is opened
  verdict,   \* what MayActivate returned
  reply,     \* the response on its way to Envoy
  code       \* the status Process ended with

streamVars == <<http, sent, unread, stream, spc, verdict, reply, code>>

continueHeadersResponse == "continue"
Immediate == {"429", "500", "503", "400", "404"}

\* The stream's context is done: Envoy reset it, or its connection is gone.
Gone == {"canceled", "broken"}

StreamTypeOK ==
  /\ http \in {"pending", "upstream", "refused", "reset"}
  /\ sent \in 0..MaxMessages
  /\ unread \in 0..sent
  /\ stream \in {"open", "halfClosed"} \cup Gone
  /\ spc \in {"none", "recv", "activate", "send", "ended"}
  /\ verdict \in {"none", "nil", "unavailable", "notSynced"}
  /\ reply \in {"none", continueHeadersResponse} \cup Immediate
  /\ code \in {"none", "ok", "unknown", "canceled", "failed", "died"}

StreamInit ==
  /\ http = "pending"
  /\ sent = 0
  /\ unread = 0
  /\ stream = "open"
  /\ spc = "none"
  /\ verdict = "none"
  /\ reply = "none"
  /\ code = "none"

-----------------------------------------------------------------------------
(* Envoy *)

\* Envoy opens the stream and sends the request headers.
EnvoyOpen ==
  /\ http = "pending" /\ spc = "none"
  /\ sent' = 1
  /\ unread' = 1
  /\ spc' = "recv"
  /\ UNCHANGED <<http, stream, verdict, reply, code>>

\* No stream can be opened: failure_mode_allow lets the request through.
EnvoyNoStream ==
  /\ http = "pending" /\ spc = "none"
  /\ http' = "upstream"
  /\ UNCHANGED <<sent, unread, stream, spc, verdict, reply, code>>

\* Messages of other kinds are not configured, but handled.
EnvoySend ==
  /\ http = "pending" /\ stream = "open" /\ sent > 0 /\ code = "none"
  /\ sent < MaxMessages
  /\ sent' = sent + 1
  /\ unread' = unread + 1
  /\ UNCHANGED <<http, stream, spc, verdict, reply, code>>

\* CONTINUE lets the request through, an immediate response answers it.
EnvoyReceive ==
  /\ http = "pending" /\ reply # "none"
  /\ http' = IF reply = continueHeadersResponse THEN "upstream" ELSE "refused"
  /\ reply' = "none"
  /\ stream' = "halfClosed"
  /\ UNCHANGED <<sent, unread, spc, verdict, code>>

\* message_timeout passes without an answer: failure_mode_allow lets the
\* request through, and Envoy resets the stream.
EnvoyTimeout ==
  /\ http = "pending" /\ sent > 0
  /\ http' = "upstream"
  /\ stream' = "canceled"
  /\ UNCHANGED <<sent, unread, spc, verdict, reply, code>>

\* The stream ended without an answer: failure_mode_allow again.
EnvoyStreamEnds ==
  /\ http = "pending" /\ reply = "none"
  /\ code # "none" \/ stream = "broken"
  /\ http' = "upstream"
  /\ stream' = IF stream = "broken" THEN "broken" ELSE "halfClosed"
  /\ UNCHANGED <<sent, unread, spc, verdict, reply, code>>

\* The HTTP client goes away.
ClientReset ==
  /\ http = "pending"
  /\ http' = "reset"
  /\ stream' = "canceled"
  /\ UNCHANGED <<sent, unread, spc, verdict, reply, code>>

\* The connection under the stream breaks, at any point of Process; a response
\* that Send has accepted but Envoy not received is lost.
TransportBreaks ==
  /\ spc # "none" /\ stream \notin Gone
  /\ stream' = "broken"
  /\ reply' = "none"
  /\ UNCHANGED <<http, sent, unread, spc, verdict, code>>

-----------------------------------------------------------------------------
(* Process *)

\* Process returns; gRPC ends the stream with this status.
End(status) ==
  /\ spc' = "ended"
  /\ code' = status

\* ctx.Done() at the top of the loop.
ContextDone ==
  /\ spc = "recv" /\ stream \in Gone
  /\ End("canceled")
  /\ UNCHANGED <<http, sent, unread, stream, verdict, reply>>

\* Recv returns a message, which is handled if it is the request headers.  One
\* that has arrived may be returned although the context is done by now.
Recv ==
  /\ spc = "recv" /\ unread > 0
  /\ unread' = unread - 1
  /\ spc' = IF unread = sent THEN "activate" ELSE "recv"
  /\ UNCHANGED <<http, sent, stream, verdict, reply, code>>

RecvIgnoresEOF ==
  /\ spc = "recv" /\ stream \in Gone
  /\ End("ok")
  /\ UNCHANGED <<http, sent, unread, stream, verdict, reply>>

\* Recv returns EOF or Canceled.
RecvEOF ==
  /\ spc = "recv"
  /\ (stream = "halfClosed" /\ unread = 0) \/ stream \in Gone
  /\ End("ok")
  /\ UNCHANGED <<http, sent, unread, stream, verdict, reply>>

\* Recv returns another error, whatever the reason.
RecvFails ==
  /\ spc = "recv"
  /\ End("unknown")
  /\ UNCHANGED <<http, sent, unread, stream, verdict, reply>>

\* MayActivate returns.
MayActivate ==
  /\ spc = "activate"
  /\ verdict' \in {"nil", "unavailable", "notSynced"}
  /\ spc' = "send"
  /\ UNCHANGED <<http, sent, unread, stream, reply, code>>

\* errutil.CanonicalCode: the error of PoolGet carries no code of its own.
CanonicalCode(err) == IF err = "unavailable" THEN "ServiceUnavailable" ELSE "Unknown"

buildErrResponseWithoutUnavailable(c) ==
  CASE c = "InferencePoolResourceExhausted" -> "429"
    [] c = "Internal" -> "500"
    [] c = "BadRequest" -> "400"
    [] c = "BadConfiguration" -> "404"
    [] OTHER -> "statusError"

buildErrResponseTooEarly(c) ==
  CASE c = "ServiceUnavailable" -> "425"
    [] OTHER -> "statusError"

buildErrResponseFailsClosed(c) ==
  CASE c = "ServiceUnavailable" -> "503"
    [] OTHER -> "500"

\* The immediate response for an error code, or the default: a status error.
buildErrResponse(c) ==
  CASE c = "InferencePoolResourceExhausted" -> "429"
    [] c = "Internal" -> "500"
    [] c = "ServiceUnavailable" -> "503"
    [] c = "BadRequest" -> "400"
    [] c = "BadConfiguration" -> "404"
    [] OTHER -> "statusError"

\* MayActivate returned nil: CONTINUE, and the loop goes on.
SendContinue ==
  /\ spc = "send" /\ verdict = "nil" /\ stream \notin Gone
  /\ reply' = continueHeadersResponse
  /\ spc' = "recv"
  /\ UNCHANGED <<http, sent, unread, stream, verdict, code>>

\* MayActivate failed and the error has an immediate response: the last one.
SendImmediate ==
  /\ spc = "send" /\ verdict # "nil" /\ stream \notin Gone
  /\ buildErrResponse(CanonicalCode(verdict)) # "statusError"
  /\ reply' = buildErrResponse(CanonicalCode(verdict))
  /\ End("ok")
  /\ UNCHANGED <<http, sent, unread, stream, verdict>>

\* MayActivate failed and buildErrResponse returns an error: no response.
ReturnError ==
  /\ spc = "send" /\ verdict # "nil"
  /\ buildErrResponse(CanonicalCode(verdict)) = "statusError"
  /\ End("failed")
  /\ UNCHANGED <<http, sent, unread, stream, verdict, reply>>

\* Send returns an error: always once the stream is gone, and at any other time
\* for a reason of gRPC's own.
SendFails ==
  /\ spc = "send"
  /\ verdict = "nil" \/ buildErrResponse(CanonicalCode(verdict)) # "statusError"
  /\ End("unknown")
  /\ UNCHANGED <<http, sent, unread, stream, verdict, reply>>

\* The process ends under the stream; a response that has not left it is lost.
Died ==
  /\ End("died")
  /\ reply' \in {reply, "none"}
  /\ UNCHANGED <<http, sent, unread, stream, verdict>>

-----------------------------------------------------------------------------
\* Envoy, once the stream is open, the HTTP client and the network.
Envoy ==
  \/ EnvoySend
  \/ EnvoyReceive
  \/ EnvoyTimeout
  \/ EnvoyStreamEnds
  \/ ClientReset
  \/ TransportBreaks

Process ==
  \/ ContextDone
  \/ Recv
  \/ RecvEOF
  \/ MayActivate
  \/ SendContinue
  \/ SendImmediate
  \/ ReturnError
  \/ SendFails
=============================================================================
