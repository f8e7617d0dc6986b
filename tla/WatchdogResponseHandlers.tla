----------------------- MODULE WatchdogResponseHandlers -----------------------
(***************************************************************************)
(* What a service does with a message from the watchdog: the choice of the *)
(* handler by operation code (WatchdogConnection::handleReceivedMessage    *)
(* and getWatchdogResponseHandler) and the decisions of the handlers       *)
(* (ServiceWatchdogResponseHandlers.cpp), as a function from the message,  *)
(* the connection state and the sequence code to an outcome.  The outcomes *)
(* named Resend... and FailedToParse are the error codes of the            *)
(* WatchdogResponseHandlerException the handler throws.                    *)
(***************************************************************************)
CONSTANTS
  Code,      \* sequence codes
  ZeroCode,  \* the one an absent protobuf field reads as
  NoCode     \* the message has no sequence code

ASSUME CodeAssumption == ZeroCode \in Code /\ NoCode \notin Code

Operation == {"ConnectResponse", "PingResponse", "ReconnectResponse", "other"}

ResponseCode == {"Success", "InvalidConnectionState", "NotServiceIdentifier",
                 "ServiceNotExists", "Unknown"}

\* body: header.size is 0, the body does not parse, or it does and the other
\* fields are what it says.
Response ==
  [operationCode   : Operation,
   body            : {"none", "garbage", "data"},
   responsecode    : ResponseCode,
   sequencecode    : Code \union {NoCode},
   connectionstate : {"Registered", "Connected", "Disconnected", "absent"}]

Outcome == {"accepted", "rearm", "ignored", "FailedToParse", "ResendConnectRequest",
            "ResendPingRequest", "ResendReconnectRequest"}

\* handleReceivedConnectFailure and handleReceivedReconnectFailure.
FailureOutcome(r, resend) ==
  IF /\ r.responsecode = "InvalidConnectionState"
     /\ r.connectionstate \in {"Registered", "Disconnected"}
  THEN resend
  ELSE "ignored"

ConnectOutcome(r) ==
  CASE r.sequencecode = NoCode -> "ignored"
    [] r.sequencecode # NoCode /\ r.responsecode = "Success" -> "accepted"
    [] OTHER -> FailureOutcome(r, "ResendConnectRequest")

ReconnectOutcome(r) ==
  CASE r.responsecode # "Success" -> FailureOutcome(r, "ResendReconnectRequest")
    [] r.responsecode = "Success" /\ r.sequencecode = NoCode -> "ignored"
    [] OTHER -> "accepted"

\* Mutant: the comparison is negated.
PingOutcomeNegated(r, sequenceCode) ==
  IF sequenceCode = (IF r.sequencecode = NoCode THEN ZeroCode ELSE r.sequencecode)
  THEN "ResendPingRequest"
  ELSE "rearm"

PingOutcome(r, sequenceCode) ==
  IF sequenceCode = (IF r.sequencecode = NoCode THEN ZeroCode ELSE r.sequencecode)
  THEN "rearm"
  ELSE "ResendPingRequest"

\* Mutant: a reconnect response is accepted in any state.
HandleResponseInAnyState(r, connectionState, sequenceCode) ==
  CASE r.operationCode = "ReconnectResponse" /\ r.body = "data" -> ReconnectOutcome(r)
    [] r.operationCode = "PingResponse" /\ r.body = "data" -> PingOutcome(r, sequenceCode)
    [] r.operationCode = "ConnectResponse" /\ connectionState = "NotConnected" ->
         ConnectOutcome(r)
    [] OTHER -> "ignored"

HandleResponse(r, connectionState, sequenceCode) ==
  CASE r.operationCode = "other" -> "ignored"
    [] r.operationCode # "other" /\ r.body = "garbage" -> "FailedToParse"
    [] r.operationCode = "PingResponse" /\ r.body = "data" -> PingOutcome(r, sequenceCode)
    [] OTHER ->
         CASE connectionState # "NotConnected" -> "ignored"
           [] connectionState = "NotConnected" /\ r.operationCode = "ConnectResponse" ->
                ConnectOutcome(r)
           [] OTHER -> ReconnectOutcome(r)
=============================================================================
