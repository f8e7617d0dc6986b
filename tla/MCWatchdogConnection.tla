------------------------- MODULE MCWatchdogConnection -------------------------
(***************************************************************************)
(* Instances of WatchdogConnection for TLC: the main thread and two io     *)
(* threads, two sequence codes, and choices of what the watchdog sends.    *)
(***************************************************************************)
EXTENDS WatchdogConnection, TLC

CONSTANTS main1, io1, io2, w1, w2, c1, c2

AnyWrite == Permutations(Write)

Message(operation, body, code, sequence, state) ==
  [operationCode |-> operation, body |-> body, responsecode |-> code,
   sequencecode |-> sequence, connectionstate |-> state]

\* Answers that grant what was requested.
GrantingAnswer ==
  {Message("ConnectResponse", "data", "Success", c, "absent") : c \in Code}
  \union {Message("PingResponse", "data", "Success", c, "absent") : c \in Code}

\* The refusal of a connect request that asks for another one, and nothing else.
RefusingAnswer ==
  {Message("ConnectResponse", "data", "InvalidConnectionState", c1, "Registered")}

\* Answers of every kind the handlers tell apart.
VariedAnswer ==
  GrantingAnswer \union
  {Message("PingResponse", "none", "Success", NoCode, "absent"),
   Message("ConnectResponse", "garbage", "Success", NoCode, "absent"),
   Message("ConnectResponse", "data", "Success", NoCode, "absent"),
   Message("ConnectResponse", "data", "ServiceNotExists", c1, "absent"),
   Message("ConnectResponse", "data", "InvalidConnectionState", c1, "Registered"),
   Message("ReconnectResponse", "data", "Success", c2, "absent"),
   Message("other", "data", "Unknown", NoCode, "absent")}
=============================================================================
