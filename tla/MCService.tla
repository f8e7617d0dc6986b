------------------------------ MODULE MCService ------------------------------
(***************************************************************************)
(* An instance of Service for TLC: two threads, a watchdog that grants,    *)
(* and a module that sends datagrams without end, each of which takes a    *)
(* thread.                                                                 *)
(***************************************************************************)
EXTENDS Service

CONSTANTS main1, io1, w1, c1, t1, t2, a, type1

Granted ==
  {[operationCode |-> o, body |-> "data", responsecode |-> "Success", sequencecode |-> c1,
    connectionstate |-> "absent"] : o \in {"ConnectResponse", "PingResponse"}}

SameName == {<<type1, type1>>}

OneHandler == <<[cache |-> "subscription", type |-> type1, responds |-> TRUE]>>

From(m, kind) ==
  [endpoint |-> m, message |-> [sender |-> m, kind |-> kind, type |-> type1]]

Datagrams == {From(a, "other")}

Files == {<<"bad">>, <<"good", "good">>, <<"good", "bad", "missing">>, <<"good", "missing">>}
=============================================================================
