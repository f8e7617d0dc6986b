-------------------------- MODULE WatchdogConnection --------------------------
(***************************************************************************)
(* The connection of a service to the watchdog: the main thread that       *)
(* connects, sends the connect request and waits for the response          *)
(* (ServiceBase.cpp, ServiceMain.cpp, ServiceWatchdogConnectionState.cpp), *)
(* the chain of asynchronous reads that handles the responses, and the     *)
(* timer that sends pings (ServiceWatchdogConnection.cpp, Connection.hpp). *)
(* The requests go through the sending side of TcpConnection, instantiated *)
(* here with all its steps.  The watchdog is another program: it takes     *)
(* requests from the wire and puts responses into replies.                 *)
(*                                                                         *)
(* Nothing but the expiry of the timer sends a ping, and nothing but a     *)
(* matching ping response sets the timer again.                            *)
(***************************************************************************)
EXTENDS Naturals, Sequences, FiniteSets, WatchdogResponseHandlers

CONSTANTS
  Main,        \* the main thread
  Io,          \* the threads of the io_context that run timer handlers
  Write,       \* identities of chains of asynchronous writes
  Answer,      \* the messages the watchdog may send
  QueueBound,  \* bounds of the model on the queue,
  WireBound,   \* on the socket buffers towards the watchdog
  ReplyBound,  \* and back,
  TimerBound   \* and on the expired waits whose handler has not run

ASSUME WatchdogAssumption ==
  /\ Main \notin Io
  /\ Answer \subseteq Response
  /\ {QueueBound, WireBound, ReplyBound, TimerBound} \subseteq Nat

VARIABLES
  socket, messagesQueue, sendingInProgress, call, write, wire, undefined,
  main,             \* where the main thread is
  connectionState,
  sequenceCode,
  timer,            \* a wait on the timer is pending
  expired,          \* waits that ended, by expiry or cancellation, handler to run
  reader,           \* where the chain of asynchronous reads is
  received,         \* the message it handles, as a sequence of at most one
  replies,          \* what the watchdog has sent and the service not yet read
  terminated        \* an exception left io_context::run

Thread  == {Main} \union Io
Request == [operationCode : {"ConnectRequest"}, sequencecode : {NoCode}]
           \union [operationCode : {"PingRequest"}, sequencecode : Code]

Tcp == INSTANCE TcpConnection WITH Message <- Request, EmptyBody <- {}

tcpVars   == <<socket, messagesQueue, sendingInProgress, call, write, wire, undefined>>
codeVars  == <<connectionState, sequenceCode>>
timerVars == <<timer, expired>>
readVars  == <<reader, received, replies>>

vars == <<tcpVars, main, codeVars, timerVars, readVars, terminated>>

MainLabel   == {"connect", "send", "sending", "wait", "waiting", "woken", "arm",
                "running", "refused", "timedOut", "stopped"}
ReaderLabel == {"none", "reading", "handling", "accepted", "notifying", "dead"}

TypeOK ==
  /\ Tcp!TypeOK
  /\ main \in MainLabel
  /\ connectionState \in {"NotConnected", "Connected", "Shutdown"}
  /\ sequenceCode \in Code
  /\ timer \in BOOLEAN
  /\ expired \in Nat
  /\ reader \in ReaderLabel
  /\ received \in Seq(Response)
  /\ replies \in Seq(Response)
  /\ terminated \in BOOLEAN

\* The constructor leaves sequenceCode uninitialised.
Init ==
  /\ Tcp!Init
  /\ main = "connect"
  /\ connectionState = "NotConnected"
  /\ sequenceCode \in Code
  /\ timer = FALSE
  /\ expired = 0
  /\ reader = "none"
  /\ received = <<>>
  /\ replies = <<>>
  /\ terminated = FALSE

MainStep(from, to) ==
  /\ main = from
  /\ main' = to

ReaderStep(from, to) ==
  /\ reader = from
  /\ reader' = to

(***************************************************************************)
(* The main thread: connectToWatchdog and waitForConnectResponse.          *)
(***************************************************************************)

Connect ==
  /\ MainStep("connect", "send")
  /\ Tcp!Connect
  /\ UNCHANGED <<codeVars, timerVars, readVars, terminated>>

ConnectFails ==
  /\ MainStep("connect", "refused")
  /\ UNCHANGED <<tcpVars, codeVars, timerVars, readVars, terminated>>

SendConnectRequest ==
  /\ MainStep("send", "sending")
  /\ Tcp!SendMessage(Main, [operationCode |-> "ConnectRequest", sequencecode |-> NoCode])
  /\ UNCHANGED <<codeVars, timerVars, readVars, terminated>>

StartReading ==
  /\ MainStep("sending", "wait")
  /\ call[Main] = "idle"
  /\ ReaderStep("none", "reading")
  /\ UNCHANGED <<tcpVars, codeVars, timerVars, received, replies, terminated>>

WaitForConnection ==
  /\ MainStep("wait", "waiting")
  /\ UNCHANGED <<tcpVars, codeVars, timerVars, readVars, terminated>>

\* Mutant: a wait that ends without a notification is a timeout, whatever the state.
WakeTimedOut ==
  /\ MainStep("waiting", "timedOut")
  /\ UNCHANGED <<tcpVars, codeVars, timerVars, readVars, terminated>>

\* The ten seconds are over, or wait_for, which has no predicate, returns before.
WakeUnnotified ==
  /\ MainStep("waiting", "woken")
  /\ UNCHANGED <<tcpVars, codeVars, timerVars, readVars, terminated>>

\* Mutant: the state is not looked at.
ReturnFromWaitBlindly ==
  /\ MainStep("woken", "arm")
  /\ UNCHANGED <<tcpVars, codeVars, timerVars, readVars, terminated>>

ReturnFromWait ==
  /\ MainStep("woken", IF connectionState = "Connected" THEN "arm" ELSE "timedOut")
  /\ UNCHANGED <<tcpVars, codeVars, timerVars, readVars, terminated>>

\* expires_from_now cancels the wait that is pending; its handler runs as well,
\* because timerExpired takes no error code.
SetTimer ==
  /\ expired < TimerBound
  /\ timer' = TRUE
  /\ expired' = IF timer THEN expired + 1 ELSE expired

StartTimer ==
  /\ MainStep("arm", "running")
  /\ SetTimer
  /\ UNCHANGED <<tcpVars, codeVars, readVars, terminated>>

\* main returns and ~Base stops the io_context and joins its threads.
Stop ==
  /\ MainStep("refused", "stopped") \/ MainStep("timedOut", "stopped")
  /\ UNCHANGED <<tcpVars, codeVars, timerVars, readVars, terminated>>

(***************************************************************************)
(* The timer.                                                              *)
(***************************************************************************)

TimerExpires ==
  /\ timer
  /\ expired < TimerBound
  /\ timer' = FALSE
  /\ expired' = expired + 1
  /\ UNCHANGED <<tcpVars, main, codeVars, readVars, terminated>>

\* Mutants: the handler runs without an ended wait; it runs again and again.
OnTimerExpirationUnasked(t) ==
  /\ expired' = expired - 1
  /\ Tcp!SendMessage(t, [operationCode |-> "PingRequest", sequencecode |-> sequenceCode])
  /\ UNCHANGED <<main, codeVars, timer, readVars, terminated>>

OnTimerExpirationRepeated(t) ==
  /\ expired > 0
  /\ Tcp!SendMessage(t, [operationCode |-> "PingRequest", sequencecode |-> sequenceCode])
  /\ UNCHANGED <<main, codeVars, timerVars, readVars, terminated>>

\* The handler of an ended wait, on thread t: sendPingRequest.
OnTimerExpiration(t) ==
  /\ expired > 0
  /\ expired' = expired - 1
  /\ Tcp!SendMessage(t, [operationCode |-> "PingRequest", sequencecode |-> sequenceCode])
  /\ UNCHANGED <<main, codeVars, timer, readVars, terminated>>

(***************************************************************************)
(* The chain of asynchronous reads.                                        *)
(***************************************************************************)

\* Header and body of a message.  A header that announces an empty body ends the
\* chain: nothing reads the socket any more.
Receive ==
  /\ replies # <<>>
  /\ socket = "open"
  /\ ReaderStep("reading", IF Head(replies).body = "none" THEN "dead" ELSE "handling")
  /\ received' = IF Head(replies).body = "none" THEN <<>> ELSE <<Head(replies)>>
  /\ replies' = Tail(replies)
  /\ UNCHANGED <<tcpVars, main, codeVars, timerVars, terminated>>

\* disconnect() after an error; a read on a closed socket fails.
ReadFails ==
  /\ ReaderStep("reading", "dead")
  /\ Tcp!Disconnect \/ (socket = "closed" /\ UNCHANGED tcpVars)
  /\ UNCHANGED <<main, codeVars, timerVars, received, replies, terminated>>

\* The outcome of the handler, which releases the message when it returns.
Decided(outcome) ==
  /\ HandleResponse(Head(received), connectionState, sequenceCode) = outcome
  /\ received' = <<>>

AcceptCode ==
  /\ ReaderStep("handling", "accepted")
  /\ Decided("accepted")
  /\ sequenceCode' = Head(received).sequencecode
  /\ UNCHANGED <<tcpVars, main, connectionState, timerVars, replies, terminated>>

SetConnectionState ==
  /\ ReaderStep("accepted", "notifying")
  /\ connectionState' = "Connected"
  /\ UNCHANGED <<tcpVars, main, sequenceCode, timerVars, received, replies, terminated>>

\* Mutant: the handler starts the timer as well as the main thread.
NotifyOneAndStartTimer ==
  /\ ReaderStep("notifying", "reading")
  /\ SetTimer
  /\ main' = IF main = "waiting" THEN "woken" ELSE main
  /\ UNCHANGED <<tcpVars, codeVars, received, replies, terminated>>

\* A notification with nobody waiting is lost.
NotifyOne ==
  /\ ReaderStep("notifying", "reading")
  /\ main' = IF main = "waiting" THEN "woken" ELSE main
  /\ UNCHANGED <<tcpVars, codeVars, timerVars, received, replies, terminated>>

\* Mutant: the timer is not started again.
RearmTimerForgotten ==
  /\ ReaderStep("handling", "reading")
  /\ Decided("rearm")
  /\ UNCHANGED <<tcpVars, main, codeVars, timerVars, replies, terminated>>

RearmTimer ==
  /\ ReaderStep("handling", "reading")
  /\ Decided("rearm")
  /\ SetTimer
  /\ UNCHANGED <<tcpVars, main, codeVars, replies, terminated>>

IgnoreResponse ==
  /\ ReaderStep("handling", "reading")
  /\ Decided("ignored")
  /\ UNCHANGED <<tcpVars, main, codeVars, timerVars, replies, terminated>>

\* handleReceivedMessage calls the handler without the try block of
\* WatchdogConnection::handleResponse, which nothing calls: the exception leaves
\* the thread that runs the io_context.
HandlerThrows ==
  /\ ReaderStep("handling", "dead")
  /\ \E outcome \in Outcome \ {"accepted", "rearm", "ignored"} : Decided(outcome)
  /\ terminated' = TRUE
  /\ UNCHANGED <<tcpVars, main, codeVars, timerVars, replies>>

(***************************************************************************)
(* The watchdog.                                                           *)
(***************************************************************************)

Reply(r) ==
  /\ Len(replies) < ReplyBound
  /\ replies' = Append(replies, r)
  /\ UNCHANGED <<main, codeVars, timerVars, reader, received, terminated>>

WatchdogSends(r) == Reply(r) /\ UNCHANGED tcpVars

WatchdogTakes ==
  /\ Tcp!PeerTakes
  /\ UNCHANGED <<main, codeVars, timerVars, readVars, terminated>>

\* The messages that answer a request, and those that grant it.
IsPing(q) == q.operationCode = "PingRequest"
IsPong(r) == r.operationCode = "PingResponse"

Answers(r, q) ==
  IF IsPing(q) THEN IsPong(r) ELSE r.operationCode = "ConnectResponse"

Grants(r, q) ==
  /\ Answers(r, q)
  /\ r.body = "data"
  /\ r.responsecode = "Success"
  /\ r.sequencecode \in (IF IsPing(q) THEN {q.sequencecode} ELSE Code)

WatchdogAnswers(r) == Tcp!PeerTakes /\ Reply(r)

WatchdogGrants == wire # <<>> /\ \E r \in Answer : Grants(r, Head(wire)) /\ WatchdogAnswers(r)

\* What may come without a request: anything, answers that are repeated or late
\* included, but no ping response before the watchdog has connected the service.
Unasked(r) == IsPong(r) => connectionState = "Connected"

(***************************************************************************)
(* The service with two watchdogs: one that may send anything at any time, *)
(* as often as it likes, except a ping response before the service is      *)
(* connected; and one that grants every request once, with a service whose *)
(* io_context threads finish sending a request before the timer that was   *)
(* started after it expires.                                               *)
(***************************************************************************)

MainNext ==
  \/ Connect \/ ConnectFails \/ SendConnectRequest \/ StartReading \/ WaitForConnection
  \/ WakeUnnotified \/ ReturnFromWait \/ StartTimer \/ Stop

\* A step of the sending side alone.
Sending == UNCHANGED <<main, codeVars, timerVars, readVars, terminated>>

SendNext ==
  /\ \/ \E t \in Thread : Tcp!CallerStep(t)
     \/ \E w \in Write : Tcp!WriterStep(w)
  /\ Sending

HandlerNext ==
  \/ AcceptCode \/ SetConnectionState \/ NotifyOne \/ RearmTimer \/ IgnoreResponse
  \/ HandlerThrows

ServiceNext ==
  \/ MainNext
  \/ SendNext
  \/ \E t \in Io : OnTimerExpiration(t)
  \/ Receive \/ ReadFails \/ HandlerNext

Alive == ~undefined /\ ~terminated /\ main # "stopped"

FreeNext ==
  /\ Alive
  /\ \/ ServiceNext \/ TimerExpires \/ WatchdogTakes
     \/ wire # <<>> /\ \E r \in Answer : Answers(r, Head(wire)) /\ WatchdogAnswers(r)
     \/ \E r \in Answer : Unasked(r) /\ WatchdogSends(r)

Prompt == Tcp!NoCall /\ Tcp!NoWrite

PromptNext ==
  /\ Alive
  /\ \/ ServiceNext
     \/ Prompt /\ TimerExpires
     \/ WatchdogGrants

FreeSpec   == Init /\ [][FreeNext]_vars
PromptSpec == Init /\ [][PromptNext]_vars

\* Steps that are ready are taken: threads are scheduled, operations complete, a
\* started timer expires, a wait ends, the watchdog answers.  Nothing obliges the
\* network to fail or a connect to be refused.
Fairness ==
  /\ WF_vars(Alive /\ (MainNext /\ ~ConnectFails))
  /\ \A t \in Thread : WF_vars(Alive /\ Sending /\ Tcp!CallerStep(t))
  /\ \A w \in Write : WF_vars(Alive /\ Sending /\ Tcp!Progress(w))
  /\ WF_vars(Alive /\ \E t \in Io : OnTimerExpiration(t))
  /\ WF_vars(Alive /\ (Receive \/ HandlerNext))
  /\ WF_vars(Alive /\ Prompt /\ TimerExpires)
  /\ WF_vars(Alive /\ WatchdogGrants)

FairPromptSpec == PromptSpec /\ Fairness

(***************************************************************************)
(* Properties.                                                             *)
(***************************************************************************)

Positions(s, P(_)) == {i \in DOMAIN s : P(s[i])}

\* Every ping on its way carries the sequence code the service holds, and no ping
\* is sent before a code is accepted: the store of the code is seen by the handler
\* of the timer that the main thread starts once it sees the new state.
PingsCarryTheCode ==
  \A s \in {messagesQueue, wire} : \A i \in Positions(s, IsPing) :
    connectionState = "Connected" /\ s[i].sequencecode = sequenceCode

\* Once the service is connected, no message changes its sequence code.
CodeFrozen == [][connectionState = "Connected" => UNCHANGED sequenceCode]_vars

\* There is one heartbeat at most: a timer that is about to be started, pending or
\* expired, a ping, or the answer to a ping.
Heartbeats ==
  (IF main = "arm" THEN 1 ELSE 0) + (IF timer THEN 1 ELSE 0) + expired
  + Cardinality(Positions(Tcp!Unsent, IsPing)) + Cardinality(Positions(wire, IsPing))
  + Cardinality(Positions(replies, IsPong))
  + Cardinality(Positions(received, IsPong))

OneHeartbeat == Heartbeats <= 1

\* While the connection is up and read, a service that got through its start-up has
\* exactly one heartbeat: none is lost.
HeartbeatKept ==
  main = "running" /\ socket = "open" /\ reader # "dead" => Heartbeats = 1

\* The service keeps to the discipline under which the sending side is proved safe:
\* a message is sent only when the previous chain of writes has ended.
ImplementsSpacedTcp == Tcp!SpacedSpec

\* No message is left in the queue of an open connection.
NothingStranded == Tcp!NothingStranded

\* A service that has accepted a code before main looks at the state goes on to start
\* its timer and does not give up, even if the notification found nobody waiting and the
\* wait ends by its time limit: the state decides.
ConnectedServiceRuns ==
  (connectionState = "Connected" /\ main \in {"wait", "waiting", "woken"}) ~> main = "arm"

\* A running service pings the watchdog again and again until the connection closes.
HeartbeatGoesOn == main = "running" ~> (expired > 0 \/ socket = "closed")

\* No response ends the service: none makes its handler throw, whether it grants the
\* request or asks for another one.
ResponsesDoNotTerminate == ~terminated
=============================================================================
