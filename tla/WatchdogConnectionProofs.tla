----------------------- MODULE WatchdogConnectionProofs -----------------------
(***************************************************************************)
(* Proofs about WatchdogConnection with a watchdog that may send anything  *)
(* but a ping response before the service is connected, for any number of  *)
(* threads, any codes and any bounds.                                      *)
(***************************************************************************)
EXTENDS WatchdogConnection, SequenceTheorems, TLAPS

\* What is proved of the sending side alone.
TcpProofs == INSTANCE TcpConnectionProofs WITH Message <- Request, EmptyBody <- {}

\* The handlers accept a code only before the service is connected, and only from a
\* message that has one.
LEMMA AcceptedResponse ==
  ASSUME NEW r \in Response, NEW state, NEW code,
         HandleResponse(r, state, code) = "accepted"
  PROVE  state = "NotConnected" /\ r.sequencecode \in Code
<1>1. r.sequencecode \in Code \union {NoCode}
  BY DEF Response
<1>2. PingOutcome(r, code) # "accepted"
  BY DEF PingOutcome
<1>3. state = "NotConnected"
  BY <1>2 DEF HandleResponse
<1>4. FailureOutcome(r, "ResendConnectRequest") # "accepted"
      /\ FailureOutcome(r, "ResendReconnectRequest") # "accepted"
  BY DEF FailureOutcome
<1>5. ConnectOutcome(r) = "accepted" => r.sequencecode # NoCode
  BY <1>4 DEF ConnectOutcome
<1>6. ReconnectOutcome(r) = "accepted" => r.sequencecode # NoCode
  BY <1>4 DEF ReconnectOutcome
<1> QED
  BY <1>1, <1>2, <1>3, <1>5, <1>6 DEF HandleResponse

\* The handlers ask for the timer only when they have a ping response.
LEMMA RearmingResponse ==
  ASSUME NEW r \in Response, NEW state, NEW code,
         HandleResponse(r, state, code) = "rearm"
  PROVE  IsPong(r)
BY DEF HandleResponse, ConnectOutcome, ReconnectOutcome, FailureOutcome, IsPong

(***************************************************************************)
(* The sending side.  Its definitions are the same in both instances.      *)
(***************************************************************************)

\* The assumptions on the constants of the sending side hold here.
LEMMA TcpConstants == TcpProofs!ConstantsAssumption
BY WatchdogAssumption DEF TcpProofs!ConstantsAssumption

\* The initial state satisfies the type invariant of the sending side.
LEMMA TcpInit == Tcp!Init => TcpProofs!TypeInv
BY TcpConstants, TcpProofs!InitTypeInv DEF Tcp!Init, TcpProofs!Init

\* The steps of a call of sendMessage are the same.
LEMMA SameCallerStep ==
  ASSUME NEW t \in Thread
  PROVE  Tcp!CallerStep(t) <=> TcpProofs!CallerStep(t)
BY DEF Tcp!CallerStep, Tcp!CheckOpen, Tcp!CheckSending, Tcp!SetSending, Tcp!StartWriting,
   Tcp!CallStep, TcpProofs!CallerStep, TcpProofs!CheckOpen, TcpProofs!CheckSending,
   TcpProofs!SetSending, TcpProofs!StartWriting, TcpProofs!CallStep

\* The steps of a chain of writes are the same.
LEMMA SameWriterStep ==
  ASSUME NEW w \in Write
  PROVE  Tcp!WriterStep(w) <=> TcpProofs!WriterStep(w)
BY DEF Tcp!WriterStep, Tcp!HeaderSent, Tcp!MessageSent, Tcp!Pop, Tcp!WriteNext,
   Tcp!QueueDrained, Tcp!ClearSending, Tcp!WriteFails, Tcp!DisconnectAfterFailure,
   Tcp!WriteStep, Tcp!Close,
   TcpProofs!WriterStep, TcpProofs!HeaderSent, TcpProofs!MessageSent, TcpProofs!Pop,
   TcpProofs!WriteNext, TcpProofs!QueueDrained, TcpProofs!ClearSending,
   TcpProofs!WriteFails, TcpProofs!DisconnectAfterFailure, TcpProofs!WriteStep,
   TcpProofs!Close

\* The steps of the socket and of the peer are the same.
LEMMA SameSocketStep ==
  /\ Tcp!Connect <=> TcpProofs!Connect
  /\ Tcp!Disconnect <=> TcpProofs!Disconnect
  /\ Tcp!PeerTakes <=> TcpProofs!PeerTakes
BY DEF Tcp!Connect, Tcp!Disconnect, Tcp!PeerTakes, Tcp!Close, TcpProofs!Connect,
   TcpProofs!Disconnect, TcpProofs!PeerTakes, TcpProofs!Close

\* A step of the sending side other than the beginning of a call.
TcpStep ==
  \/ \E t \in Thread : Tcp!CallerStep(t)
  \/ \E w \in Write : Tcp!WriterStep(w)
  \/ Tcp!Connect \/ Tcp!Disconnect \/ Tcp!PeerTakes

\* Such a step keeps the type invariant of the sending side, and its queue and wire
\* within any set of messages that holds them.
LEMMA TcpStepKeeps ==
  ASSUME TcpProofs!TypeInv, ~undefined, TcpStep,
         NEW S, messagesQueue \in Seq(S), wire \in Seq(S)
  PROVE  TcpProofs!TypeInv' /\ messagesQueue' \in Seq(S) /\ wire' \in Seq(S)
<1>1. TcpProofs!FreeNext
  BY SameCallerStep, SameWriterStep, SameSocketStep
     DEF TcpStep, TcpProofs!FreeNext, TcpProofs!Internal
<1>2. TcpProofs!TypeInv'
  BY <1>1, TcpConstants, TcpProofs!TypeInvStep
<1>3. ASSUME NEW w \in Write, Tcp!WriterStep(w)
      PROVE  messagesQueue' \in Seq(S) /\ wire' \in Seq(S)
  BY <1>3, SameWriterStep, TcpConstants, TcpProofs!WriterStepSequences
     DEF TcpProofs!TypeInv
<1>4. CASE (\E t \in Thread : Tcp!CallerStep(t)) \/ Tcp!Connect \/ Tcp!Disconnect
  BY <1>2, <1>4 DEF Tcp!CallerStep, Tcp!CheckOpen, Tcp!CheckSending, Tcp!SetSending,
     Tcp!StartWriting, Tcp!Connect, Tcp!Disconnect
<1>5. CASE Tcp!PeerTakes
  BY <1>2, <1>5, HeadTailProperties DEF Tcp!PeerTakes
<1> QED
  BY <1>2, <1>3, <1>4, <1>5 DEF TcpStep

\* A call that begins puts its message at the end of the queue and keeps the type
\* invariant of the sending side.
LEMMA TcpSendKeeps ==
  ASSUME TcpProofs!TypeInv, NEW t \in Thread, NEW m \in Request, Tcp!SendMessage(t, m)
  PROVE  /\ TcpProofs!TypeInv'
         /\ messagesQueue' = Append(messagesQueue, m)
         /\ wire' = wire
<1> USE DEF Tcp!SendMessage, Tcp!CallStep
<1>1. messagesQueue \in Seq(Request)
  BY DEF TcpProofs!TypeInv, TcpProofs!TypeOK
<1>2. /\ messagesQueue' \in Seq(Request)
      /\ messagesQueue' # <<>>
  BY <1>1, AppendProperties
<1>3. TcpProofs!TypeOK'
  BY <1>2 DEF TcpProofs!TypeInv, TcpProofs!TypeOK, TcpProofs!CallLabel
<1>4. TcpProofs!WriteHasFront'
  BY <1>2 DEF TcpProofs!TypeInv, TcpProofs!WriteHasFront
<1> QED
  BY <1>3, <1>4 DEF TcpProofs!TypeInv

(***************************************************************************)
(* The sequence code.  That pings carry it is not inductive: a ping is     *)
(* sent by the handler of the timer, the timer is started by the main      *)
(* thread or by a ping response, and neither happens before the service is *)
(* connected, after which no message changes the code.                     *)
(***************************************************************************)
SoundRequest ==
  {q \in Request : IsPing(q) => connectionState = "Connected"
                                /\ q.sequencecode = sequenceCode}

SoundResponse == {r \in Response : IsPong(r) => connectionState = "Connected"}

Beating == main \in {"arm", "running"} \/ timer \/ expired > 0

Messages ==
  /\ messagesQueue \in Seq(SoundRequest)
  /\ wire \in Seq(SoundRequest)
  /\ replies \in Seq(SoundResponse)
  /\ received \in Seq(SoundResponse)
  /\ reader = "handling" => received # <<>>

\* The type invariant of the module is that of the sending side and its own.
OwnTypeOK ==
  /\ main \in MainLabel
  /\ connectionState \in {"NotConnected", "Connected", "Shutdown"}
  /\ sequenceCode \in Code
  /\ timer \in BOOLEAN
  /\ expired \in Nat
  /\ reader \in ReaderLabel
  /\ terminated \in BOOLEAN

CodeInv ==
  /\ TcpProofs!TypeInv
  /\ OwnTypeOK
  /\ Messages
  /\ Beating => connectionState = "Connected"

\* Sound messages are messages, so that the types of the sequences follow.
LEMMA CodeInvTypes == CodeInv => TypeOK
<1> SUFFICES ASSUME CodeInv PROVE TypeOK
  OBVIOUS
<1> USE DEF CodeInv
<1>1. replies \in Seq(Response) /\ received \in Seq(Response)
  <2>1. SoundResponse \subseteq Response
    BY DEF SoundResponse
  <2> QED
    BY <2>1, SeqMonotonic DEF Messages
<1>2. Tcp!TypeOK
  BY DEF TcpProofs!TypeInv, TcpProofs!TypeOK, TcpProofs!CallLabel, TcpProofs!WriteLabel,
     Tcp!TypeOK, Tcp!CallLabel, Tcp!WriteLabel
<1> QED
  BY <1>1, <1>2 DEF TypeOK, OwnTypeOK

\* The initial state satisfies the invariant.
LEMMA InitCodeInv == Init => CodeInv
<1> SUFFICES ASSUME Init PROVE CodeInv
  OBVIOUS
<1>1. TcpProofs!TypeInv
  BY TcpInit DEF Init
<1>2. OwnTypeOK
  BY DEF Init, OwnTypeOK, MainLabel, ReaderLabel
<1>3. Messages
  BY EmptySeq DEF Init, Messages, Tcp!Init
<1> QED
  BY <1>1, <1>2, <1>3 DEF Init, Beating, CodeInv

\* What was sound stays so as long as the state and the code stay, or the state is
\* not connected.
LEMMA SoundStays ==
  ASSUME \/ connectionState' = connectionState /\ sequenceCode' = sequenceCode
         \/ connectionState # "Connected"
  PROVE  SoundRequest \subseteq SoundRequest' /\ SoundResponse \subseteq SoundResponse'
BY DEF SoundRequest, SoundResponse, Request, Response

\* A step after which the messages are sound by the state before it, and which keeps
\* sound what was sound, keeps the messages sound.
LEMMA MessagesStay ==
  ASSUME SoundRequest \subseteq SoundRequest', SoundResponse \subseteq SoundResponse',
         messagesQueue' \in Seq(SoundRequest), wire' \in Seq(SoundRequest),
         replies' \in Seq(SoundResponse), received' \in Seq(SoundResponse),
         reader' = "handling" => received' # <<>>
  PROVE  Messages'
BY SeqMonotonic DEF Messages

\* Nothing of the sending side changes.
LEMMA TcpUnchanged ==
  ASSUME TcpProofs!TypeInv, UNCHANGED tcpVars
  PROVE  TcpProofs!TypeInv' /\ messagesQueue' = messagesQueue /\ wire' = wire
BY DEF tcpVars, TcpProofs!TypeInv, TcpProofs!TypeOK, TcpProofs!WriteHasFront

\* A step of the sending side alone.
LEMMA TcpStepCodeInv ==
  ASSUME CodeInv, ~undefined, TcpStep \/ UNCHANGED tcpVars,
         UNCHANGED <<main, codeVars, timerVars, readVars, terminated>>
  PROVE  CodeInv'
<1> USE DEF CodeInv, codeVars, timerVars, readVars
<1>1. /\ TcpProofs!TypeInv'
      /\ messagesQueue' \in Seq(SoundRequest)
      /\ wire' \in Seq(SoundRequest)
  BY TcpStepKeeps, TcpUnchanged DEF Messages
<1>2. Messages'
  BY <1>1, SoundStays, MessagesStay DEF Messages
<1>3. OwnTypeOK' /\ (Beating' => connectionState' = "Connected")
  BY DEF OwnTypeOK, Beating
<1> QED
  BY <1>1, <1>2, <1>3

\* Setting the timer.
LEMMA SetTimerTypes ==
  ASSUME OwnTypeOK, SetTimer
  PROVE  timer' \in BOOLEAN /\ expired' \in Nat
BY DEF OwnTypeOK, SetTimer

\* The main thread.
LEMMA MainCodeInv ==
  ASSUME CodeInv, ~undefined, MainNext
  PROVE  CodeInv'
<1> USE DEF CodeInv, codeVars, timerVars, readVars
<1>1. CASE Connect \/ ConnectFails \/ StartReading \/ WaitForConnection \/ WakeUnnotified
           \/ ReturnFromWait \/ Stop \/ StartTimer
  <2>1. UNCHANGED <<codeVars, received, replies, terminated>>
    BY <1>1 DEF Connect, ConnectFails, StartReading, WaitForConnection, WakeUnnotified,
       ReturnFromWait, Stop, StartTimer
  <2>2. TcpStep \/ UNCHANGED tcpVars
    BY <1>1 DEF TcpStep, Connect, ConnectFails, StartReading, WaitForConnection,
       WakeUnnotified, ReturnFromWait, Stop, StartTimer
  <2>3. /\ TcpProofs!TypeInv'
        /\ messagesQueue' \in Seq(SoundRequest)
        /\ wire' \in Seq(SoundRequest)
    BY <2>2, TcpStepKeeps, TcpUnchanged DEF Messages
  <2>4. reader' = "handling" => reader = "handling"
    BY <1>1 DEF Connect, ConnectFails, StartReading, WaitForConnection, WakeUnnotified,
       ReturnFromWait, Stop, StartTimer, ReaderStep
  <2>5. Messages'
    BY <2>1, <2>3, <2>4, SoundStays, MessagesStay DEF Messages
  <2>6. OwnTypeOK'
    BY <1>1, <2>1, SetTimerTypes DEF OwnTypeOK, MainLabel, ReaderLabel, MainStep,
       ReaderStep, Connect, ConnectFails, StartReading, WaitForConnection,
       WakeUnnotified, ReturnFromWait, Stop, StartTimer
  <2>7. Beating' => connectionState' = "Connected"
    BY <1>1, <2>1 DEF Beating, MainStep, SetTimer, Connect, ConnectFails, StartReading,
       WaitForConnection, WakeUnnotified, ReturnFromWait, Stop, StartTimer
  <2> QED
    BY <2>3, <2>5, <2>6, <2>7
<1>2. CASE SendConnectRequest
  <2> DEFINE q == [operationCode |-> "ConnectRequest", sequencecode |-> NoCode]
  <2>1. q \in Request /\ q \in SoundRequest
    BY DEF Request, SoundRequest, IsPing
  <2>2. Main \in Thread /\ Tcp!SendMessage(Main, q)
    BY <1>2 DEF SendConnectRequest, Thread
  <2>3. /\ TcpProofs!TypeInv'
        /\ messagesQueue' = Append(messagesQueue, q)
        /\ wire' = wire
    BY <2>1, <2>2, TcpSendKeeps
  <2>4. messagesQueue' \in Seq(SoundRequest)
    BY <2>1, <2>3, AppendProperties DEF Messages
  <2>5. Messages'
    BY <1>2, <2>3, <2>4, SoundStays, MessagesStay DEF Messages, SendConnectRequest
  <2>6. OwnTypeOK' /\ (Beating' => connectionState' = "Connected")
    BY <1>2 DEF SendConnectRequest, MainStep, OwnTypeOK, Beating, MainLabel
  <2> QED
    BY <2>3, <2>5, <2>6
<1> QED
  BY <1>1, <1>2 DEF MainNext

\* The timer, and the ping its handler sends.
LEMMA TimerCodeInv ==
  ASSUME CodeInv, ~undefined, TimerExpires \/ \E t \in Io : OnTimerExpiration(t)
  PROVE  CodeInv'
<1> USE DEF CodeInv, codeVars, timerVars, readVars
<1>1. CASE TimerExpires
  <2>1. TcpProofs!TypeInv' /\ messagesQueue' = messagesQueue /\ wire' = wire
    BY <1>1, TcpUnchanged DEF TimerExpires
  <2>2. Messages'
    BY <1>1, <2>1, SoundStays, MessagesStay DEF Messages, TimerExpires
  <2>3. connectionState' = "Connected"
    BY <1>1 DEF TimerExpires, Beating
  <2>4. expired' = expired + 1 /\ timer' = FALSE
        /\ UNCHANGED <<main, connectionState, sequenceCode, reader, terminated>>
    BY <1>1 DEF TimerExpires
  <2>5. expired' \in Nat
    BY <2>4 DEF OwnTypeOK
  <2>6. OwnTypeOK'
    BY <2>4, <2>5 DEF OwnTypeOK
  <2> QED
    BY <2>1, <2>2, <2>3, <2>6
<1>2. ASSUME NEW t \in Io, OnTimerExpiration(t) PROVE CodeInv'
  <2> DEFINE q == [operationCode |-> "PingRequest", sequencecode |-> sequenceCode]
  <2>1. connectionState = "Connected"
    BY <1>2 DEF OnTimerExpiration, Beating
  <2>2. q \in Request /\ q \in SoundRequest
    BY <2>1 DEF Request, SoundRequest, IsPing, OwnTypeOK
  <2>3. t \in Thread /\ Tcp!SendMessage(t, q)
    BY <1>2 DEF OnTimerExpiration, Thread
  <2>4. /\ TcpProofs!TypeInv'
        /\ messagesQueue' = Append(messagesQueue, q)
        /\ wire' = wire
    BY <2>2, <2>3, TcpSendKeeps
  <2>5. messagesQueue' \in Seq(SoundRequest)
    BY <2>2, <2>4, AppendProperties DEF Messages
  <2>6. Messages'
    BY <1>2, <2>4, <2>5, SoundStays, MessagesStay DEF Messages, OnTimerExpiration
  <2>7. OwnTypeOK' /\ (Beating' => connectionState' = "Connected")
    BY <1>2, <2>1 DEF OnTimerExpiration, OwnTypeOK
  <2> QED
    BY <2>4, <2>6, <2>7
<1> QED
  BY <1>1, <1>2

\* The handlers of the responses, and what they read.
LEMMA ReaderCodeInv ==
  ASSUME CodeInv, ~undefined, Receive \/ ReadFails \/ HandlerNext
  PROVE  CodeInv'
<1> USE DEF CodeInv, codeVars, timerVars, readVars
<1>1. CASE ReadFails
  <2>1. TcpStep \/ UNCHANGED tcpVars
    BY <1>1 DEF TcpStep, ReadFails
  <2>2. /\ TcpProofs!TypeInv'
        /\ messagesQueue' \in Seq(SoundRequest)
        /\ wire' \in Seq(SoundRequest)
    BY <2>1, TcpStepKeeps, TcpUnchanged DEF Messages
  <2>3. Messages'
    BY <1>1, <2>2, SoundStays, MessagesStay DEF Messages, ReadFails, ReaderStep
  <2> QED
    BY <1>1, <2>2, <2>3 DEF ReadFails, ReaderStep, ReaderLabel, OwnTypeOK, Beating
<1>2. CASE ~ReadFails
  <2>1. UNCHANGED tcpVars
    BY <1>2 DEF Receive, HandlerNext, AcceptCode, SetConnectionState, NotifyOne, RearmTimer,
       IgnoreResponse, HandlerThrows
  <2>2. TcpProofs!TypeInv' /\ messagesQueue' = messagesQueue /\ wire' = wire
    BY <2>1, TcpUnchanged
  <2>3. CASE Receive
    <3>1. Head(replies) \in SoundResponse /\ Tail(replies) \in Seq(SoundResponse)
      BY <2>3, HeadTailProperties DEF Receive, Messages
    <3>2. received' \in Seq(SoundResponse) /\ replies' \in Seq(SoundResponse)
      BY <2>3, <3>1, EmptySeq DEF Receive
    <3>3. reader' = "handling" => received' # <<>>
      BY <2>3 DEF Receive, ReaderStep
    <3>4. Messages'
      BY <2>2, <2>3, <3>2, <3>3, SoundStays, MessagesStay DEF Receive, Messages
    <3> QED
      BY <2>2, <2>3, <3>4 DEF Receive, ReaderStep, ReaderLabel, OwnTypeOK, Beating
  <2>4. CASE AcceptCode
    <3>1. Head(received) \in Response
      BY <2>4, HeadTailProperties DEF AcceptCode, ReaderStep, Messages, SoundResponse
    <3>2. connectionState = "NotConnected" /\ sequenceCode' \in Code
      BY <2>4, <3>1, AcceptedResponse DEF AcceptCode, Decided
    <3>3. received' = <<>> /\ reader' = "accepted"
      BY <2>4 DEF AcceptCode, Decided, ReaderStep
    <3>4. Messages'
      BY <2>2, <2>4, <3>2, <3>3, SoundStays, MessagesStay, EmptySeq DEF AcceptCode, Messages
    <3> QED
      BY <2>2, <2>4, <3>2, <3>3, <3>4 DEF AcceptCode, ReaderLabel, OwnTypeOK, Beating
  <2>5. CASE SetConnectionState
    <3>1. SoundRequest \subseteq SoundRequest' /\ SoundResponse \subseteq SoundResponse'
      BY <2>5, SoundStays DEF SetConnectionState
    <3>2. Messages'
      BY <2>2, <2>5, <3>1, MessagesStay DEF SetConnectionState, ReaderStep, Messages
    <3> QED
      BY <2>2, <2>5, <3>2 DEF SetConnectionState, ReaderStep, ReaderLabel, OwnTypeOK
  <2>6. CASE NotifyOne
    <3>1. Messages'
      BY <2>2, <2>6, SoundStays, MessagesStay DEF NotifyOne, ReaderStep, Messages
    <3> QED
      BY <2>2, <2>6, <3>1 DEF NotifyOne, ReaderStep, ReaderLabel, MainLabel, OwnTypeOK,
         Beating
  <2>7. CASE RearmTimer
    <3>1. Head(received) \in SoundResponse
      BY <2>7, HeadTailProperties DEF RearmTimer, ReaderStep, Messages
    <3>2. connectionState = "Connected"
      BY <2>7, <3>1, RearmingResponse DEF RearmTimer, Decided, SoundResponse
    <3>3. received' = <<>> /\ reader' = "reading"
      BY <2>7 DEF RearmTimer, Decided, ReaderStep
    <3>4. Messages'
      BY <2>2, <2>7, <3>3, SoundStays, MessagesStay, EmptySeq DEF RearmTimer, Messages
    <3>5. timer' \in BOOLEAN /\ expired' \in Nat
      BY <2>7, SetTimerTypes DEF RearmTimer
    <3> QED
      BY <2>2, <2>7, <3>2, <3>3, <3>4, <3>5 DEF RearmTimer, ReaderLabel, OwnTypeOK
  <2>8. CASE IgnoreResponse \/ HandlerThrows
    <3>1. received' = <<>> /\ reader' \in {"reading", "dead"}
      BY <2>8 DEF IgnoreResponse, HandlerThrows, Decided, ReaderStep
    <3>2. UNCHANGED <<codeVars, main, timerVars, replies>> /\ terminated' \in BOOLEAN
      BY <2>8 DEF IgnoreResponse, HandlerThrows, OwnTypeOK
    <3>3. Messages'
      BY <2>2, <3>1, <3>2, SoundStays, MessagesStay, EmptySeq DEF Messages
    <3> QED
      BY <2>2, <3>1, <3>2, <3>3 DEF ReaderLabel, OwnTypeOK, Beating
  <2> QED
    BY <1>2, <2>3, <2>4, <2>5, <2>6, <2>7, <2>8 DEF HandlerNext
<1> QED
  BY <1>1, <1>2

\* The watchdog.  It sends a ping response only when it takes a ping, and then the
\* service is connected, or when the service is connected anyway.
LEMMA WatchdogCodeInv ==
  ASSUME CodeInv, ~undefined, NEW r \in Answer, Reply(r),
         TcpStep \/ UNCHANGED tcpVars,
         IsPong(r) => connectionState = "Connected"
  PROVE  CodeInv'
<1> USE DEF CodeInv, codeVars, timerVars, Reply
<1>1. /\ TcpProofs!TypeInv'
      /\ messagesQueue' \in Seq(SoundRequest)
      /\ wire' \in Seq(SoundRequest)
  BY TcpStepKeeps, TcpUnchanged DEF Messages
<1>2. r \in SoundResponse
  BY WatchdogAssumption DEF SoundResponse
<1>3. replies' \in Seq(SoundResponse)
  BY <1>2, AppendProperties DEF Messages
<1>4. Messages'
  BY <1>1, <1>3, SoundStays, MessagesStay DEF Messages
<1> QED
  BY <1>1, <1>4 DEF OwnTypeOK, Beating

\* Every step preserves the invariant.
LEMMA CodeInvStep == CodeInv /\ [FreeNext]_vars => CodeInv'
<1> SUFFICES ASSUME CodeInv, [FreeNext]_vars PROVE CodeInv'
  OBVIOUS
<1>1. CASE UNCHANGED vars
  <2>1. UNCHANGED tcpVars /\ UNCHANGED <<connectionState, sequenceCode>>
    BY <1>1 DEF vars, codeVars
  <2>2. TcpProofs!TypeInv' /\ Messages'
    BY <1>1, <2>1, TcpUnchanged, SoundStays, MessagesStay
       DEF vars, readVars, CodeInv, Messages
  <2> QED
    BY <1>1, <2>2 DEF vars, codeVars, timerVars, readVars, CodeInv, OwnTypeOK, Beating
<1>2. CASE FreeNext
  <2>1. ~undefined
    BY <1>2 DEF FreeNext, Alive
  <2>2. CASE ServiceNext
    <3>1. CASE SendNext
      BY <2>1, <3>1, TcpStepCodeInv DEF SendNext, Sending, TcpStep
    <3> QED
      BY <2>1, <2>2, <3>1, MainCodeInv, TimerCodeInv, ReaderCodeInv DEF ServiceNext
  <2>3. CASE WatchdogTakes
    BY <2>1, <2>3, TcpStepCodeInv DEF WatchdogTakes, TcpStep
  <2>4. ASSUME wire # <<>>, NEW r \in Answer, Answers(r, Head(wire)), WatchdogAnswers(r)
        PROVE  CodeInv'
    <3>1. Head(wire) \in SoundRequest
      BY <2>4, HeadTailProperties DEF CodeInv, Messages
    <3>2. IsPong(r) => connectionState = "Connected"
      BY <2>4, <3>1 DEF Answers, IsPong, SoundRequest
    <3> QED
      BY <2>1, <2>4, <3>2, WatchdogCodeInv DEF WatchdogAnswers, TcpStep
  <2>5. ASSUME NEW r \in Answer, Unasked(r), WatchdogSends(r) PROVE CodeInv'
    BY <2>1, <2>5, WatchdogCodeInv DEF WatchdogSends, Unasked
  <2> QED
    BY <1>2, <2>1, <2>2, <2>3, <2>4, <2>5, TimerCodeInv DEF FreeNext
<1> QED
  BY <1>1, <1>2

\* The invariant holds in every reachable state.
LEMMA CodeInvariant == FreeSpec => []CodeInv
BY InitCodeInv, CodeInvStep, PTL DEF FreeSpec

\* WatchdogConnection is type-correct, whatever the watchdog sends.
THEOREM TypeCorrect == FreeSpec => []TypeOK
BY CodeInvariant, CodeInvTypes, PTL

\* What the code invariant says of the pings.
LEMMA CodeInvIsSafe == CodeInv => PingsCarryTheCode
<1> SUFFICES ASSUME CodeInv,
                    NEW s \in {messagesQueue, wire}, NEW i \in DOMAIN s, IsPing(s[i])
             PROVE  connectionState = "Connected" /\ s[i].sequencecode = sequenceCode
  BY DEF PingsCarryTheCode, Positions
<1>1. s[i] \in SoundRequest
  BY LenProperties, ElementOfSeq DEF CodeInv, Messages
<1> QED
  BY <1>1 DEF SoundRequest

\* No ping leaves the service before a code is accepted, and every ping on its way
\* carries the code the service holds.
THEOREM PingsCarryTheCodeAlways == FreeSpec => []PingsCarryTheCode
BY CodeInvIsSafe, CodeInvariant, PTL

\* Nothing disconnects a connected service, or gives it another code.
LEMMA ConnectedStays ==
  ASSUME CodeInv, [FreeNext]_vars, connectionState = "Connected"
  PROVE  UNCHANGED <<connectionState, sequenceCode>>
<1>1. ~AcceptCode
  <2> SUFFICES ASSUME AcceptCode PROVE FALSE
    OBVIOUS
  <2>1. Head(received) \in Response
    BY HeadTailProperties DEF AcceptCode, ReaderStep, CodeInv, Messages, SoundResponse
  <2> QED
    BY <2>1, AcceptedResponse DEF AcceptCode, Decided
<1>2. MainNext => UNCHANGED codeVars
  BY DEF MainNext, Connect, ConnectFails, SendConnectRequest, StartReading,
     WaitForConnection, WakeUnnotified, ReturnFromWait, StartTimer, Stop
<1>3. HandlerNext => UNCHANGED codeVars
  BY <1>1 DEF HandlerNext, SetConnectionState, NotifyOne, RearmTimer, IgnoreResponse,
     HandlerThrows, codeVars
<1> QED
  BY <1>2, <1>3 DEF vars, FreeNext, ServiceNext, SendNext, Sending, OnTimerExpiration,
     Receive, ReadFails, TimerExpires, WatchdogTakes, WatchdogAnswers, WatchdogSends, Reply,
     codeVars

\* Once the service is connected no message changes its sequence code.
THEOREM CodeIsFrozen == FreeSpec => CodeFrozen
<1>1. CodeInv /\ [FreeNext]_vars =>
        [connectionState = "Connected" => UNCHANGED sequenceCode]_vars
  BY ConnectedStays
<1> QED
  BY <1>1, CodeInvariant, PTL DEF FreeSpec, CodeFrozen
=============================================================================
