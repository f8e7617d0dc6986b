---------------------------- MODULE HeartbeatProofs ----------------------------
(***************************************************************************)
(* Proofs about WatchdogConnection with a watchdog that grants every       *)
(* request once and threads that finish sending before the timer expires   *)
(* (PromptSpec), for any number of threads, any codes and any bounds: the  *)
(* service has one heartbeat, and keeps to the discipline under which the  *)
(* sending side of its connection is safe.                                 *)
(***************************************************************************)
EXTENDS WatchdogConnectionProofs, FiniteSetTheorems

(***************************************************************************)
(* How many elements of a sequence are in a set.                           *)
(***************************************************************************)
Places(s, T) == {i \in DOMAIN s : s[i] \in T}

Count(s, T) == Cardinality(Places(s, T))

One(b) == IF b THEN 1 ELSE 0

\* The places are finitely many, so that they can be counted.
LEMMA CountIsNat ==
  ASSUME NEW S, NEW s \in Seq(S), NEW T
  PROVE  IsFiniteSet(Places(s, T)) /\ Count(s, T) \in Nat
<1>1. Len(s) \in Nat /\ DOMAIN s = 1 .. Len(s)
  BY LenProperties
<1>2. IsFiniteSet(1 .. Len(s))
  BY <1>1, FS_Interval
<1>3. Places(s, T) \in SUBSET (1 .. Len(s))
  BY <1>1 DEF Places
<1>4. IsFiniteSet(Places(s, T))
  BY <1>2, <1>3, FS_Subset
<1> QED
  BY <1>4, FS_CardinalityType DEF Count

\* Nothing is in an empty sequence.
LEMMA CountEmpty ==
  ASSUME NEW T
  PROVE  Count(<<>>, T) = 0
<1>1. Places(<<>>, T) = {}
  BY DEF Places
<1> QED
  BY <1>1, FS_EmptySet DEF Count

\* An element added at the end counts once if it is in the set.
LEMMA CountAppend ==
  ASSUME NEW S, NEW s \in Seq(S), NEW e \in S, NEW T
  PROVE  Count(Append(s, e), T) = Count(s, T) + One(e \in T)
<1>1. /\ Len(s) \in Nat
      /\ DOMAIN s = 1 .. Len(s)
      /\ DOMAIN Append(s, e) = 1 .. Len(s) + 1
      /\ \A i \in 1 .. Len(s) : Append(s, e)[i] = s[i]
      /\ Append(s, e)[Len(s) + 1] = e
  BY AppendProperties, LenProperties
<1>2. IsFiniteSet(Places(s, T)) /\ Count(s, T) \in Nat
  BY CountIsNat
<1>3. Len(s) + 1 \notin Places(s, T)
  BY <1>1 DEF Places
<1>4. CASE e \in T
  <2>1. Places(Append(s, e), T) = Places(s, T) \union {Len(s) + 1}
    BY <1>1, <1>4 DEF Places
  <2> QED
    BY <1>2, <1>3, <1>4, <2>1, FS_AddElement DEF Count, One
<1>5. CASE e \notin T
  <2>1. Places(Append(s, e), T) = Places(s, T)
    BY <1>1, <1>5 DEF Places
  <2> QED
    BY <1>2, <1>5, <2>1 DEF Count, One
<1> QED
  BY <1>4, <1>5

\* The first element, taken away, counted once if it is in the set.
LEMMA CountTail ==
  ASSUME NEW S, NEW s \in Seq(S), s # <<>>, NEW T
  PROVE  Count(s, T) = Count(Tail(s), T) + One(Head(s) \in T)
<1> DEFINE Later == Places(s, T) \ {1}
<1>1. /\ Len(s) \in Nat \ {0}
      /\ DOMAIN s = 1 .. Len(s)
      /\ DOMAIN Tail(s) = 1 .. Len(s) - 1
      /\ \A i \in 1 .. Len(s) - 1 : Tail(s)[i] = s[i + 1]
      /\ Head(s) = s[1]
  BY HeadTailProperties, LenProperties, EmptySeq
<1>2. /\ IsFiniteSet(Places(s, T)) /\ Count(s, T) \in Nat
      /\ IsFiniteSet(Places(Tail(s), T)) /\ Count(Tail(s), T) \in Nat
  BY CountIsNat, HeadTailProperties
<1>3. Cardinality(Later) = Count(Tail(s), T)
  <2> DEFINE shift == [i \in Places(Tail(s), T) |-> i + 1]
  <2>1. shift \in Bijection(Places(Tail(s), T), Later)
    <3>1. \A i \in Places(Tail(s), T) : i \in 1 .. Len(s) - 1 /\ s[i + 1] \in T
      BY <1>1 DEF Places
    <3>2. shift \in [Places(Tail(s), T) -> Later]
      BY <1>1, <3>1 DEF Places
    <3>3. \A i, j \in Places(Tail(s), T) : shift[i] = shift[j] => i = j
      BY <3>1
    <3>4. \A k \in Later : \E i \in Places(Tail(s), T) : shift[i] = k
      <4> SUFFICES ASSUME NEW k \in Later
                   PROVE  k - 1 \in Places(Tail(s), T) /\ shift[k - 1] = k
        OBVIOUS
      <4>1. k \in 2 .. Len(s) /\ s[k] \in T
        BY <1>1 DEF Places
      <4>2. k - 1 \in 1 .. Len(s) - 1 /\ Tail(s)[k - 1] = s[k]
        BY <1>1, <4>1
      <4>3. k - 1 \in Places(Tail(s), T)
        BY <1>1, <4>1, <4>2 DEF Places
      <4> QED
        BY <4>1, <4>3
    <3> QED
      BY <3>2, <3>3, <3>4 DEF Bijection, Injection, Surjection, IsInjective
  <2>2. ExistsBijection(Places(Tail(s), T), Later)
    BY <2>1 DEF ExistsBijection
  <2> QED
    BY <1>2, <2>2, FS_Bijection DEF Count
<1>4. 1 \in Places(s, T) <=> Head(s) \in T
  BY <1>1 DEF Places
<1>5. Cardinality(Later) = IF 1 \in Places(s, T) THEN Count(s, T) - 1 ELSE Count(s, T)
  BY <1>2, FS_RemoveElement DEF Count
<1> HIDE DEF Later
<1>6. CASE Head(s) \in T
  BY <1>2, <1>3, <1>4, <1>5, <1>6 DEF One
<1>7. CASE Head(s) \notin T
  BY <1>2, <1>3, <1>4, <1>5, <1>7 DEF One
<1> QED
  BY <1>6, <1>7

(***************************************************************************)
(* The parts of the heartbeat, counted.                                    *)
(***************************************************************************)
PingRequest == {q \in Request : IsPing(q)}

PongResponse == {r \in Response : IsPong(r)}

Arming  == One(main = "arm")
Pending == One(timer)
PingsUnsent  == Count(Tcp!Unsent, PingRequest)
PingsOnWire  == Count(wire, PingRequest)
PongsReplied == Count(replies, PongResponse)
PongsHandled == Count(received, PongResponse)

PartTypes ==
  /\ expired \in Nat
  /\ Tcp!Unsent \in Seq(Request) /\ wire \in Seq(Request)
  /\ replies \in Seq(Response) /\ received \in Seq(Response)

\* Counting pings by their positions is counting those in the set of pings.
LEMMA PingsCounted ==
  ASSUME NEW s \in Seq(Request)
  PROVE  Cardinality(Positions(s, IsPing)) = Count(s, PingRequest)
<1>1. \A i \in DOMAIN s : s[i] \in Request
  BY LenProperties, ElementOfSeq
<1>2. Positions(s, IsPing) = Places(s, PingRequest)
  BY <1>1 DEF Positions, Places, PingRequest
<1> QED
  BY <1>2 DEF Count

\* The same for the answers to pings.
LEMMA PongsCounted ==
  ASSUME NEW s \in Seq(Response)
  PROVE  Cardinality(Positions(s, IsPong)) = Count(s, PongResponse)
<1>1. \A i \in DOMAIN s : s[i] \in Response
  BY LenProperties, ElementOfSeq
<1>2. Positions(s, IsPong) = Places(s, PongResponse)
  BY <1>1 DEF Positions, Places, PongResponse
<1> QED
  BY <1>2 DEF Count

PartsAddUp ==
  /\ Heartbeats = Arming + Pending + expired + PingsUnsent + PingsOnWire + PongsReplied
                  + PongsHandled
  /\ {Arming, Pending, expired, PingsUnsent, PingsOnWire, PongsReplied, PongsHandled}
       \subseteq Nat

\* The heartbeats are the sum of the parts, each of which is a number.
LEMMA HeartbeatsAreTheParts == PartTypes => PartsAddUp
<1> SUFFICES ASSUME PartTypes PROVE PartsAddUp
  OBVIOUS
<1>1. {Arming, Pending, expired, PingsUnsent, PingsOnWire, PongsReplied, PongsHandled}
        \subseteq Nat
  BY CountIsNat DEF PartTypes, Arming, Pending, PingsUnsent, PingsOnWire, PongsReplied, PongsHandled, One
<1>2. /\ Cardinality(Positions(Tcp!Unsent, IsPing)) = PingsUnsent
      /\ Cardinality(Positions(wire, IsPing)) = PingsOnWire
      /\ Cardinality(Positions(replies, IsPong)) = PongsReplied
      /\ Cardinality(Positions(received, IsPong)) = PongsHandled
  BY PingsCounted, PongsCounted DEF PartTypes, PingsUnsent, PingsOnWire, PongsReplied, PongsHandled
<1> QED
  BY <1>1, <1>2 DEF PartsAddUp, Heartbeats, Arming, Pending, One

\* The same in the next state.
LEMMA HeartbeatsAreThePartsNext == PartTypes' => PartsAddUp'
BY HeartbeatsAreTheParts, PTL

(***************************************************************************)
(* The invariant.  That there is one heartbeat rests on the sending side   *)
(* losing and repeating none, which it does as long as calls are spaced;   *)
(* that they are spaced rests on there being one heartbeat: a second ended *)
(* wait would not have looked whether the first ping is sent.              *)
(***************************************************************************)
WithBody == {r \in Response : r.body = "data"}

RepliesHaveBodies == replies \in Seq(WithBody)

\* The message that is handled is there until the handler has decided.
ReceivedIsHandled ==
  IF reader = "handling" THEN \E r \in WithBody : received = <<r>> ELSE received = <<>>

\* Whoever is about to send finds the sending side at rest.
SenderFindsQuiet == main = "send" \/ expired > 0 => Prompt

SocketMade == socket = "new" => main \in {"connect", "refused", "stopped"}

Started == main \in {"arm", "running"}

HeartbeatCount ==
  /\ ~Started => Heartbeats = 0
  /\ Started => Heartbeats <= 1
  /\ Started /\ reader # "dead" => Heartbeats = 1

HeartbeatInv ==
  /\ CodeInv
  /\ TcpProofs!SpacedInv
  /\ RepliesHaveBodies /\ ReceivedIsHandled
  /\ SenderFindsQuiet
  /\ SocketMade
  /\ HeartbeatCount

\* A watchdog that grants answers, and a timer that is prompt expires.
LEMMA PromptIsFree == [PromptNext]_vars => [FreeNext]_vars
BY DEF PromptNext, FreeNext, WatchdogGrants, Grants

\* What the parts are counted in has its types.
LEMMA PartsTyped == CodeInv /\ TcpProofs!SpacedInv => PartTypes
<1> SUFFICES ASSUME CodeInv, TcpProofs!SpacedInv PROVE PartTypes
  OBVIOUS
<1> USE DEF CodeInv
<1>1. replies \in Seq(Response) /\ received \in Seq(Response)
  BY CodeInvTypes DEF TypeOK
<1>2. messagesQueue \in Seq(Request) /\ wire \in Seq(Request)
  BY DEF TcpProofs!TypeInv, TcpProofs!TypeOK
<1>3. (\E w \in Write : write[w] \in {"sent", "sentEmpty"}) => messagesQueue # <<>>
  BY DEF TcpProofs!SpacedInv, TcpProofs!SpacedSafe, TcpProofs!NeverUndefined,
     TcpProofs!SerialInv, TcpProofs!FrontUnpopped
<1>4. Tcp!Unsent \in Seq(Request)
  BY <1>2, <1>3, HeadTailProperties DEF Tcp!Unsent
<1> QED
  BY <1>1, <1>2, <1>4 DEF PartTypes, OwnTypeOK

\* The same in the next state.
LEMMA PartsTypedNext == CodeInv' /\ TcpProofs!SpacedInv' => PartTypes'
BY PartsTyped, PTL

(***************************************************************************)
(* The sending side: the service is one of the spaced callers.             *)
(***************************************************************************)

\* The spaced callers are the same in both instances.
LEMMA SameSpacedNext == [Tcp!SpacedNext]_(Tcp!vars) <=> [TcpProofs!SpacedNext]_(TcpProofs!vars)
<1>1. Tcp!Internal <=> TcpProofs!Internal
  BY SameCallerStep, SameWriterStep, SameSocketStep DEF Tcp!Internal, TcpProofs!Internal
<1>2. Tcp!NoCall /\ Tcp!NoWrite /\ Tcp!Send
        <=> TcpProofs!NoCall /\ TcpProofs!NoWrite /\ TcpProofs!Send
  BY DEF Tcp!NoCall, Tcp!NoWrite, Tcp!Send, Tcp!SendMessage, Tcp!CallStep,
     TcpProofs!NoCall, TcpProofs!NoWrite, TcpProofs!Send, TcpProofs!SendMessage,
     TcpProofs!CallStep
<1> QED
  BY <1>1, <1>2 DEF Tcp!SpacedNext, TcpProofs!SpacedNext, Tcp!vars, TcpProofs!vars

\* A wait that has ended is one of a service that has been started.
LEMMA ExpiredIsStarted == HeartbeatInv /\ expired > 0 => Started
<1> SUFFICES ASSUME HeartbeatInv, expired > 0 PROVE Started
  OBVIOUS
<1>1. PartsAddUp
  BY PartsTyped, HeartbeatsAreTheParts DEF HeartbeatInv
<1>2. Heartbeats > 0
  BY <1>1 DEF PartsAddUp
<1> QED
  BY <1>2 DEF HeartbeatInv, HeartbeatCount

\* Whoever sends does so when the sending side is at rest, on a socket that is made.
LEMMA SendIsSpaced ==
  ASSUME HeartbeatInv, ~undefined, main = "send" \/ expired > 0,
         NEW t \in Thread, NEW m \in Request, Tcp!SendMessage(t, m)
  PROVE  Tcp!SpacedNext
<1>1. Tcp!NoCall /\ Tcp!NoWrite
  BY DEF HeartbeatInv, SenderFindsQuiet, Prompt
<1>2. socket # "new"
  BY ExpiredIsStarted DEF HeartbeatInv, SocketMade, Started
<1> QED
  BY <1>1, <1>2 DEF Tcp!SpacedNext, Tcp!Send

\* A step of the service or of its watchdog is, for the sending side, a step that a
\* spaced caller takes or none.
LEMMA PromptIsSpaced == HeartbeatInv /\ [PromptNext]_vars => [Tcp!SpacedNext]_(Tcp!vars)
<1> SUFFICES ASSUME HeartbeatInv, [PromptNext]_vars
             PROVE  Tcp!SpacedNext \/ UNCHANGED tcpVars
  BY DEF tcpVars, Tcp!vars
<1>1. CASE UNCHANGED vars
  BY <1>1 DEF vars
<1>2. CASE PromptNext
  <2>1. ~undefined
    BY <1>2 DEF PromptNext, Alive
  <2>2. CASE TcpStep
    BY <2>1, <2>2 DEF TcpStep, Tcp!SpacedNext, Tcp!Internal
  <2>3. CASE SendConnectRequest
    <3>1. [operationCode |-> "ConnectRequest", sequencecode |-> NoCode] \in Request
      BY DEF Request
    <3> QED
      BY <2>1, <2>3, <3>1, SendIsSpaced DEF SendConnectRequest, MainStep, Thread
  <2>4. ASSUME NEW t \in Io, OnTimerExpiration(t) PROVE Tcp!SpacedNext
    <3>1. [operationCode |-> "PingRequest", sequencecode |-> sequenceCode] \in Request
      BY DEF Request, HeartbeatInv, CodeInv, OwnTypeOK
    <3> QED
      BY <2>1, <2>4, <3>1, SendIsSpaced DEF OnTimerExpiration, Thread
  <2>5. MainNext => TcpStep \/ SendConnectRequest \/ UNCHANGED tcpVars
    BY DEF MainNext, Connect, ConnectFails, StartReading, WaitForConnection, WakeUnnotified,
       ReturnFromWait, StartTimer, Stop, TcpStep
  <2>6. SendNext \/ ReadFails \/ WatchdogGrants => TcpStep \/ UNCHANGED tcpVars
    BY DEF SendNext, ReadFails, WatchdogGrants, WatchdogAnswers, TcpStep
  <2>7. TimerExpires \/ Receive \/ HandlerNext => UNCHANGED tcpVars
    BY DEF TimerExpires, Receive, HandlerNext, AcceptCode, SetConnectionState, NotifyOne,
       RearmTimer, IgnoreResponse, HandlerThrows
  <2> QED
    BY <1>2, <2>2, <2>3, <2>4, <2>5, <2>6, <2>7 DEF PromptNext, ServiceNext
<1> QED
  BY <1>1, <1>2

\* The step keeps the invariant of spaced callers.
LEMMA SpacedInvKept == HeartbeatInv /\ [PromptNext]_vars => TcpProofs!SpacedInv'
BY PromptIsSpaced, SameSpacedNext, TcpConstants, TcpProofs!SpacedInvStep DEF HeartbeatInv

(***************************************************************************)
(* What a step does to the parts.                                          *)
(***************************************************************************)

\* Nothing of the sending side changes.
LEMMA TcpRests ==
  ASSUME UNCHANGED tcpVars
  PROVE  PingsUnsent' = PingsUnsent /\ PingsOnWire' = PingsOnWire
BY DEF tcpVars, Tcp!Unsent, PingsUnsent, PingsOnWire

\* The sending side by itself keeps what it has: a ping that leaves the queue is on
\* the wire.
LEMMA TcpKeepsPings ==
  ASSUME HeartbeatInv, TcpProofs!SpacedInv', PartTypes, PartTypes', ~undefined, TcpStep,
         ~Tcp!PeerTakes
  PROVE  PingsUnsent' + PingsOnWire' = PingsUnsent + PingsOnWire
<1> USE DEF PingsUnsent, PingsOnWire
<1>1. Tcp!Unsent = TcpProofs!Unsent /\ Tcp!Unsent' = TcpProofs!Unsent'
  BY DEF Tcp!Unsent, TcpProofs!Unsent
<1>2. TcpProofs!SerialInv /\ TcpProofs!SerialInv'
  BY DEF HeartbeatInv, TcpProofs!SpacedInv
<1>3. TcpProofs!Fifo!Transmit \/ UNCHANGED TcpProofs!Fifo!vars
  <2>1. CASE \E t \in Thread : Tcp!CallerStep(t)
    BY <1>2, <2>1, SameCallerStep, TcpConstants, TcpProofs!CallerStepHidden
  <2>2. CASE \E w \in Write : Tcp!WriterStep(w)
    BY <1>2, <2>2, SameWriterStep, TcpConstants, TcpProofs!WriterStepTransmits
  <2>3. CASE Tcp!Connect \/ Tcp!Disconnect
    <3>1. UNCHANGED <<messagesQueue, wire, write>>
      BY <2>3 DEF Tcp!Connect, Tcp!Disconnect
    <3> QED
      BY <3>1 DEF TcpProofs!Fifo!vars, TcpProofs!Unsent
  <2> QED
    BY <2>1, <2>2, <2>3 DEF TcpStep
<1>4. CASE UNCHANGED TcpProofs!Fifo!vars
  BY <1>1, <1>4 DEF TcpProofs!Fifo!vars
<1>5. CASE TcpProofs!Fifo!Transmit
  <2>1. /\ Tcp!Unsent # <<>>
        /\ wire' = Append(wire, Head(Tcp!Unsent))
        /\ Tcp!Unsent' = Tail(Tcp!Unsent)
    BY <1>1, <1>5 DEF TcpProofs!Fifo!Transmit
  <2>2. Head(Tcp!Unsent) \in Request
    BY <2>1, HeadTailProperties DEF PartTypes
  <2>3. Count(Tcp!Unsent, PingRequest)
          = Count(Tcp!Unsent', PingRequest) + One(Head(Tcp!Unsent) \in PingRequest)
    BY <2>1, CountTail DEF PartTypes
  <2>4. Count(wire', PingRequest)
          = Count(wire, PingRequest) + One(Head(Tcp!Unsent) \in PingRequest)
    BY <2>1, <2>2, CountAppend DEF PartTypes
  <2>5. {Count(wire, PingRequest), Count(Tcp!Unsent', PingRequest)} \subseteq Nat
        /\ One(Head(Tcp!Unsent) \in PingRequest) \in Nat
    BY CountIsNat DEF PartTypes, One
  <2> QED
    BY <2>3, <2>4, <2>5
<1> QED
  BY <1>3, <1>4, <1>5

\* A message that is sent is not yet on the wire.
LEMMA SendAddsPing ==
  ASSUME HeartbeatInv, PartTypes, ~undefined,
         NEW t \in Thread, NEW m \in Request, Tcp!SendMessage(t, m)
  PROVE  PingsUnsent' = PingsUnsent + One(IsPing(m)) /\ PingsOnWire' = PingsOnWire
<1>1. TcpProofs!SerialInv
  BY DEF HeartbeatInv, TcpProofs!SpacedInv
<1>2. TcpProofs!SendMessage(t, m)
  BY DEF Tcp!SendMessage, Tcp!CallStep, TcpProofs!SendMessage, TcpProofs!CallStep
<1>3. TcpProofs!Fifo!Accept(m)
  BY <1>1, <1>2, TcpConstants, TcpProofs!SendAccepts
<1>4. Tcp!Unsent' = Append(Tcp!Unsent, m) /\ wire' = wire
  BY <1>3 DEF TcpProofs!Fifo!Accept, Tcp!Unsent, TcpProofs!Unsent
<1>5. m \in PingRequest <=> IsPing(m)
  BY DEF PingRequest
<1>6. Count(Tcp!Unsent', PingRequest) = Count(Tcp!Unsent, PingRequest) + One(m \in PingRequest)
  BY <1>4, CountAppend DEF PartTypes
<1> QED
  BY <1>4, <1>5, <1>6 DEF PingsUnsent, PingsOnWire, One

\* The watchdog grants a ping by one answer, and nothing else by an answer to a ping.
LEMMA GrantReplies ==
  ASSUME HeartbeatInv, PartTypes, PartTypes', WatchdogGrants
  PROVE  /\ PingsUnsent' = PingsUnsent
         /\ PingsOnWire' + PongsReplied' = PingsOnWire + PongsReplied
         /\ RepliesHaveBodies'
<1>1. PICK r \in Answer : Grants(r, Head(wire)) /\ Tcp!PeerTakes /\ Reply(r)
  BY DEF WatchdogGrants, WatchdogAnswers
<1>2. /\ wire # <<>> /\ wire' = Tail(wire)
      /\ replies' = Append(replies, r)
      /\ UNCHANGED <<messagesQueue, write>>
  BY <1>1 DEF Tcp!PeerTakes, Reply
<1>3. r \in WithBody /\ r \in Response
  BY <1>1, WatchdogAssumption DEF Grants, WithBody
<1>4. Head(wire) \in Request
  BY <1>2, HeadTailProperties DEF PartTypes
<1>5. Head(wire) \in PingRequest <=> r \in PongResponse
  BY <1>1, <1>3, <1>4 DEF Grants, Answers, IsPong, PingRequest, PongResponse
<1>6. Count(wire, PingRequest) = Count(wire', PingRequest) + One(r \in PongResponse)
  BY <1>2, <1>5, CountTail DEF PartTypes, One
<1>7. Count(replies', PongResponse) = Count(replies, PongResponse) + One(r \in PongResponse)
  BY <1>2, <1>3, CountAppend DEF PartTypes
<1>8. {Count(wire', PingRequest), Count(replies, PongResponse), One(r \in PongResponse)}
        \subseteq Nat
  BY CountIsNat DEF PartTypes, One
<1>9. RepliesHaveBodies'
  BY <1>2, <1>3, AppendProperties DEF HeartbeatInv, RepliesHaveBodies
<1> QED
  BY <1>2, <1>6, <1>7, <1>8, <1>9 DEF PingsUnsent, PingsOnWire, PongsReplied, Tcp!Unsent

\* One message counts once if it is in the set.
LEMMA CountOne ==
  ASSUME NEW r \in Response, NEW T
  PROVE  Count(<<r>>, T) = One(r \in T)
<1>1. <<>> \in Seq(Response) /\ Append(<<>>, r) = <<r>>
  BY EmptySeq
<1>2. Count(<<r>>, T) = Count(<<>>, T) + One(r \in T)
  BY <1>1, CountAppend
<1> QED
  BY <1>2, CountEmpty DEF One

\* A response that is read is the one that is handled: granted, it has a body.
LEMMA ReceiveHandles ==
  ASSUME HeartbeatInv, PartTypes, Receive
  PROVE  /\ PongsReplied' + PongsHandled' = PongsReplied + PongsHandled
         /\ reader' = "handling"
         /\ RepliesHaveBodies' /\ ReceivedIsHandled'
<1> USE DEF Receive, ReaderStep, PongsReplied, PongsHandled
<1>1. /\ Head(replies) \in WithBody
      /\ Tail(replies) \in Seq(WithBody)
  BY HeadTailProperties DEF HeartbeatInv, RepliesHaveBodies
<1>2. /\ reader' = "handling"
      /\ received' = <<Head(replies)>>
      /\ replies' = Tail(replies)
      /\ received = <<>>
  BY <1>1 DEF WithBody, HeartbeatInv, ReceivedIsHandled
<1>3. Count(replies, PongResponse)
        = Count(replies', PongResponse) + One(Head(replies) \in PongResponse)
  BY <1>2, CountTail DEF PartTypes
<1>4. Count(received', PongResponse) = One(Head(replies) \in PongResponse)
  BY <1>1, <1>2, CountOne DEF WithBody
<1>5. Count(received, PongResponse) = 0
  BY <1>2, CountEmpty
<1>6. Count(replies', PongResponse) \in Nat /\ One(Head(replies) \in PongResponse) \in Nat
  BY <1>1, <1>2, CountIsNat DEF One
<1>7. PongsReplied' + PongsHandled' = PongsReplied + PongsHandled
  BY <1>3, <1>4, <1>5, <1>6
<1>8. RepliesHaveBodies' /\ ReceivedIsHandled'
  BY <1>1, <1>2 DEF RepliesHaveBodies, ReceivedIsHandled
<1> QED
  BY <1>2, <1>7, <1>8

\* The handlers take the answer to a ping for what it is: they set the timer or throw.
LEMMA DecidedCounts ==
  ASSUME HeartbeatInv, reader = "handling", NEW outcome, Decided(outcome)
  PROVE  /\ PongsHandled' = 0
         /\ PongsHandled \in {0, 1}
         /\ outcome = "rearm" => PongsHandled = 1
         /\ outcome \in {"accepted", "ignored"} => PongsHandled = 0
<1>1. PICK r \in WithBody : received = <<r>>
  BY DEF HeartbeatInv, ReceivedIsHandled
<1>2. r \in Response /\ r.body = "data" /\ Head(received) = r
  BY <1>1 DEF WithBody
<1>3. HandleResponse(r, connectionState, sequenceCode) = outcome /\ received' = <<>>
  BY <1>2 DEF Decided
<1>4. PongsHandled' = 0 /\ PongsHandled = One(r \in PongResponse)
  BY <1>1, <1>2, <1>3, CountEmpty, CountOne DEF PongsHandled
<1>5. outcome = "rearm" => r \in PongResponse
  BY <1>2, <1>3, RearmingResponse DEF PongResponse
<1>6. r \in PongResponse => outcome \in {"rearm", "ResendPingRequest"}
  BY <1>2, <1>3 DEF PongResponse, IsPong, HandleResponse, PingOutcome
<1> QED
  BY <1>4, <1>5, <1>6 DEF One

\* Setting the timer begins one heartbeat, whatever was pending.
LEMMA SetTimerBegins ==
  ASSUME OwnTypeOK, SetTimer
  PROVE  Pending' + expired' = Pending + expired + 1
BY DEF OwnTypeOK, SetTimer, Pending, One

(***************************************************************************)
(* Every step preserves the invariant.                                     *)
(***************************************************************************)

\* No step makes a new socket.
LEMMA SocketStaysMade ==
  ASSUME HeartbeatInv, [PromptNext]_vars, socket' = "new"
  PROVE  socket = "new" /\ ~Connect
<1>1. CASE UNCHANGED tcpVars
  BY <1>1 DEF tcpVars, Connect, Tcp!Connect
<1>2. CASE Tcp!SpacedNext
  <2>1. socket' = socket \/ socket' \in {"open", "closed"}
    BY <1>2 DEF Tcp!SpacedNext, Tcp!Internal, Tcp!Send, Tcp!SendMessage, Tcp!CallerStep,
       Tcp!CheckOpen, Tcp!CheckSending, Tcp!SetSending, Tcp!StartWriting, Tcp!WriterStep,
       Tcp!HeaderSent, Tcp!MessageSent, Tcp!Pop, Tcp!WriteNext, Tcp!QueueDrained,
       Tcp!ClearSending, Tcp!WriteFails, Tcp!DisconnectAfterFailure, Tcp!Close, Tcp!Connect,
       Tcp!Disconnect, Tcp!PeerTakes
  <2> QED
    BY <2>1 DEF Connect, Tcp!Connect
<1> QED
  BY <1>1, <1>2, PromptIsSpaced DEF tcpVars, Tcp!vars

\* At rest the sending side starts nothing.
LEMMA RestIsKept ==
  ASSUME Prompt, TcpStep \/ UNCHANGED tcpVars
  PROVE  Prompt'
<1>1. ~ \E t \in Thread : Tcp!CallerStep(t)
  BY DEF Prompt, Tcp!NoCall, Tcp!CallerStep, Tcp!CheckOpen, Tcp!CheckSending, Tcp!SetSending,
     Tcp!StartWriting, Tcp!CallStep
<1>2. ~ \E w \in Write : Tcp!WriterStep(w)
  BY DEF Prompt, Tcp!NoWrite, Tcp!WriterStep, Tcp!HeaderSent, Tcp!MessageSent, Tcp!Pop,
     Tcp!WriteNext, Tcp!QueueDrained, Tcp!ClearSending, Tcp!WriteFails,
     Tcp!DisconnectAfterFailure, Tcp!WriteStep
<1> QED
  BY <1>1, <1>2 DEF TcpStep, Tcp!Connect, Tcp!Disconnect, Tcp!PeerTakes, tcpVars, Prompt,
     Tcp!NoCall, Tcp!NoWrite

Pulse == RepliesHaveBodies /\ ReceivedIsHandled /\ SenderFindsQuiet /\ HeartbeatCount

\* What every proof of a step below starts from.
PulseStep ==
  /\ HeartbeatInv /\ TcpProofs!SpacedInv'
  /\ PartTypes /\ PartTypes' /\ PartsAddUp /\ PartsAddUp'
  /\ ~undefined

\* Nobody but a service that is started has a heartbeat, and that has one.
LEMMA PartsAreFew ==
  ASSUME PulseStep
  PROVE  /\ ~Started => expired = 0 /\ ~timer
         /\ main = "arm" \/ PongsHandled = 1 => expired = 0 /\ ~timer
         /\ expired <= 1
         /\ expired > 0 => Started /\ ~timer
<1>1. Heartbeats <= 1 /\ (~Started => Heartbeats = 0)
  BY DEF PulseStep, HeartbeatInv, HeartbeatCount, PartsAddUp
<1> QED
  BY <1>1 DEF PulseStep, PartsAddUp, Arming, Pending, One

\* A step that leaves the reading side alone leaves what is read alone.
LEMMA ReadingRests ==
  ASSUME HeartbeatInv, UNCHANGED <<reader, received, replies>>
  PROVE  /\ RepliesHaveBodies' /\ ReceivedIsHandled'
         /\ PongsReplied' = PongsReplied /\ PongsHandled' = PongsHandled
BY DEF HeartbeatInv, RepliesHaveBodies, ReceivedIsHandled, PongsReplied, PongsHandled

\* A step of the sending side alone.
LEMMA SendPulse ==
  ASSUME PulseStep, SendNext
  PROVE  Pulse'
<1>1. TcpStep /\ ~Tcp!PeerTakes
  <2>1. \A t \in Thread : Tcp!CallerStep(t) => UNCHANGED wire
    BY DEF Tcp!CallerStep, Tcp!CheckOpen, Tcp!CheckSending, Tcp!SetSending, Tcp!StartWriting
  <2>2. \A w \in Write : Tcp!WriterStep(w) => write' # write
    BY DEF Tcp!WriterStep, Tcp!HeaderSent, Tcp!MessageSent, Tcp!Pop,
       Tcp!WriteNext, Tcp!QueueDrained, Tcp!ClearSending, Tcp!WriteFails,
       Tcp!DisconnectAfterFailure, Tcp!WriteStep, PulseStep, HeartbeatInv, CodeInv,
       TcpProofs!TypeInv, TcpProofs!TypeOK
  <2>3. Tcp!PeerTakes => wire' # wire /\ write' = write
    BY HeadTailProperties DEF PulseStep, PartTypes, Tcp!PeerTakes
  <2> QED
    BY <2>1, <2>2, <2>3 DEF SendNext, TcpStep
<1>2. UNCHANGED <<main, timer, expired, reader, received, replies>>
  BY DEF SendNext, Sending, timerVars, readVars
<1>3. PingsUnsent' + PingsOnWire' = PingsUnsent + PingsOnWire
  BY <1>1, TcpKeepsPings DEF PulseStep
<1>4. RepliesHaveBodies' /\ ReceivedIsHandled'
      /\ PongsReplied' = PongsReplied /\ PongsHandled' = PongsHandled
  BY <1>2, ReadingRests DEF PulseStep
<1>5. Heartbeats' = Heartbeats
  BY <1>2, <1>3, <1>4 DEF PulseStep, PartsAddUp, Arming, Pending
<1>6. SenderFindsQuiet'
  BY <1>1, <1>2, RestIsKept DEF PulseStep, HeartbeatInv, SenderFindsQuiet
<1> QED
  BY <1>2, <1>4, <1>5, <1>6 DEF Pulse, PulseStep, HeartbeatInv, HeartbeatCount, Started

\* The main thread.
LEMMA MainPulse ==
  ASSUME PulseStep, MainNext
  PROVE  Pulse'
<1> USE DEF Pulse, PulseStep, HeartbeatInv, HeartbeatCount, Started
<1>1. CASE Connect
  <2>1. TcpStep /\ ~Tcp!PeerTakes
    BY <1>1 DEF Connect, TcpStep, Tcp!Connect, Tcp!PeerTakes
  <2>2. main = "connect" /\ main' = "send"
        /\ UNCHANGED <<timer, expired, reader, received, replies>>
    BY <1>1 DEF Connect, MainStep, timerVars, readVars
  <2>3. PingsUnsent' + PingsOnWire' = PingsUnsent + PingsOnWire
    BY <2>1, TcpKeepsPings
  <2>4. RepliesHaveBodies' /\ ReceivedIsHandled'
        /\ PongsReplied' = PongsReplied /\ PongsHandled' = PongsHandled
    BY <2>2, ReadingRests
  <2>5. Heartbeats' = Heartbeats
    BY <2>2, <2>3, <2>4 DEF PartsAddUp, Arming, Pending, One
  <2>6. Prompt
    BY <1>1 DEF Connect, Tcp!Connect, TcpProofs!SpacedInv, TcpProofs!QuietBeforeConnect,
       TcpProofs!NoCall, TcpProofs!NoWrite, Prompt, Tcp!NoCall, Tcp!NoWrite
  <2>7. SenderFindsQuiet'
    BY <2>1, <2>6, RestIsKept DEF SenderFindsQuiet
  <2> QED
    BY <2>2, <2>4, <2>5, <2>7
<1>2. CASE SendConnectRequest
  <2> DEFINE q == [operationCode |-> "ConnectRequest", sequencecode |-> NoCode]
  <2>1. q \in Request /\ ~IsPing(q) /\ Main \in Thread
    BY DEF Request, IsPing, Thread
  <2>2. main = "send" /\ main' = "sending"
        /\ UNCHANGED <<timer, expired, reader, received, replies>>
        /\ Tcp!SendMessage(Main, q)
    BY <1>2 DEF SendConnectRequest, MainStep, timerVars, readVars
  <2>3. PingsUnsent' = PingsUnsent /\ PingsOnWire' = PingsOnWire
    BY <2>1, <2>2, SendAddsPing DEF One, PartsAddUp
  <2>4. RepliesHaveBodies' /\ ReceivedIsHandled'
        /\ PongsReplied' = PongsReplied /\ PongsHandled' = PongsHandled
    BY <2>2, ReadingRests
  <2>5. Heartbeats' = Heartbeats
    BY <2>2, <2>3, <2>4 DEF PartsAddUp, Arming, Pending, One
  <2>6. SenderFindsQuiet'
    BY <2>2, PartsAreFew DEF SenderFindsQuiet
  <2> QED
    BY <2>2, <2>4, <2>5, <2>6
<1>3. CASE StartTimer
  <2>1. main = "arm" /\ main' = "running" /\ SetTimer
        /\ UNCHANGED <<tcpVars, reader, received, replies>>
    BY <1>3 DEF StartTimer, MainStep, readVars
  <2>2. RepliesHaveBodies' /\ ReceivedIsHandled'
        /\ PongsReplied' = PongsReplied /\ PongsHandled' = PongsHandled
        /\ PingsUnsent' = PingsUnsent /\ PingsOnWire' = PingsOnWire
    BY <2>1, ReadingRests, TcpRests
  <2>3. Pending' + expired' = Pending + expired + 1
    BY <2>1, SetTimerBegins DEF CodeInv
  <2>4. Arming = 1 /\ Arming' = 0
    BY <2>1 DEF Arming, One
  <2>5. Heartbeats' = Heartbeats
    BY <2>2, <2>3, <2>4 DEF PartsAddUp
  <2>6. expired' = 0
    BY <2>1, PartsAreFew DEF SetTimer
  <2> QED
    BY <2>1, <2>2, <2>5, <2>6 DEF SenderFindsQuiet
<1>4. CASE ConnectFails \/ StartReading \/ WaitForConnection \/ WakeUnnotified
           \/ ReturnFromWait \/ Stop
  <2>1. ~Started /\ main' \notin {"running", "send"}
        /\ UNCHANGED <<tcpVars, timer, expired, received, replies>>
    BY <1>4 DEF ConnectFails, StartReading, WaitForConnection, WakeUnnotified,
       ReturnFromWait, Stop, MainStep, timerVars, readVars
  <2>2. reader' = reader \/ (reader = "none" /\ reader' = "reading")
    BY <1>4 DEF ConnectFails, StartReading, WaitForConnection, WakeUnnotified,
       ReturnFromWait, Stop, ReaderStep, readVars
  <2>3. PongsReplied' = PongsReplied /\ PongsHandled' = PongsHandled
        /\ PingsUnsent' = PingsUnsent /\ PingsOnWire' = PingsOnWire
    BY <2>1, TcpRests DEF PongsReplied, PongsHandled
  <2>4. RepliesHaveBodies' /\ ReceivedIsHandled'
    BY <2>1, <2>2 DEF RepliesHaveBodies, ReceivedIsHandled
  <2>5. Arming = 0 /\ Arming' = IF main' = "arm" THEN 1 ELSE 0
    BY <2>1 DEF Arming, One
  <2>6. Heartbeats' = IF main' = "arm" THEN 1 ELSE 0
    BY <2>1, <2>3, <2>5 DEF PartsAddUp, Pending
  <2>7. SenderFindsQuiet'
    BY <2>1, PartsAreFew DEF SenderFindsQuiet
  <2> QED
    BY <2>1, <2>4, <2>6, <2>7
<1> QED
  BY <1>1, <1>2, <1>3, <1>4 DEF MainNext

\* The timer, and the ping its handler sends.
LEMMA TimerPulse ==
  ASSUME PulseStep, (Prompt /\ TimerExpires) \/ \E t \in Io : OnTimerExpiration(t)
  PROVE  Pulse'
<1> USE DEF Pulse, PulseStep, HeartbeatInv, HeartbeatCount, Started
<1>1. UNCHANGED <<main, reader, received, replies>>
  BY DEF TimerExpires, OnTimerExpiration, readVars
<1>2. RepliesHaveBodies' /\ ReceivedIsHandled'
      /\ PongsReplied' = PongsReplied /\ PongsHandled' = PongsHandled
  BY <1>1, ReadingRests
<1>3. CASE Prompt /\ TimerExpires
  <2>1. UNCHANGED tcpVars /\ timer /\ ~timer' /\ expired' = expired + 1
    BY <1>3 DEF TimerExpires
  <2>2. PingsUnsent' = PingsUnsent /\ PingsOnWire' = PingsOnWire
    BY <2>1, TcpRests
  <2>3. Heartbeats' = Heartbeats
    BY <1>1, <1>2, <2>1, <2>2 DEF PartsAddUp, Arming, Pending, One
  <2>4. SenderFindsQuiet'
    BY <1>3, <2>1, RestIsKept DEF SenderFindsQuiet
  <2> QED
    BY <1>1, <1>2, <2>3, <2>4
<1>4. ASSUME NEW t \in Io, OnTimerExpiration(t) PROVE Pulse'
  <2> DEFINE q == [operationCode |-> "PingRequest", sequencecode |-> sequenceCode]
  <2>1. q \in Request /\ IsPing(q) /\ t \in Thread
    BY DEF Request, IsPing, Thread, CodeInv, OwnTypeOK
  <2>2. expired > 0 /\ expired' = expired - 1 /\ timer' = timer /\ Tcp!SendMessage(t, q)
    BY <1>4 DEF OnTimerExpiration
  <2>3. PingsUnsent' = PingsUnsent + 1 /\ PingsOnWire' = PingsOnWire
    BY <2>1, <2>2, SendAddsPing DEF One
  <2>4. Heartbeats' = Heartbeats
    BY <1>1, <1>2, <2>2, <2>3 DEF PartsAddUp, Arming, Pending
  <2>5. Started /\ expired = 1
    BY <2>2, PartsAreFew DEF PartTypes
  <2>6. SenderFindsQuiet'
    BY <1>1, <2>2, <2>5 DEF SenderFindsQuiet
  <2> QED
    BY <1>1, <1>2, <2>4, <2>6
<1> QED
  BY <1>3, <1>4

\* The reads, and the handlers of the responses.
LEMMA ReaderPulse ==
  ASSUME PulseStep, Receive \/ ReadFails \/ HandlerNext
  PROVE  Pulse'
<1> USE DEF Pulse, PulseStep, HeartbeatInv, HeartbeatCount, Started, ReaderStep
<1>1. CASE Receive
  <2>1. UNCHANGED <<tcpVars, main, timer, expired>> /\ reader = "reading"
    BY <1>1 DEF Receive, timerVars
  <2>2. /\ PongsReplied' + PongsHandled' = PongsReplied + PongsHandled
        /\ reader' = "handling"
        /\ RepliesHaveBodies' /\ ReceivedIsHandled'
    BY <1>1, ReceiveHandles
  <2>3. PingsUnsent' = PingsUnsent /\ PingsOnWire' = PingsOnWire
    BY <2>1, TcpRests
  <2>4. Heartbeats' = Heartbeats
    BY <2>1, <2>2, <2>3 DEF PartsAddUp, Arming, Pending
  <2>5. SenderFindsQuiet'
    BY <2>1, RestIsKept DEF SenderFindsQuiet
  <2> QED
    BY <2>1, <2>2, <2>4, <2>5
<1>2. CASE ReadFails
  <2>1. reader = "reading" /\ reader' = "dead"
        /\ UNCHANGED <<main, timer, expired, received, replies>>
    BY <1>2 DEF ReadFails, timerVars
  <2>2. (TcpStep /\ ~Tcp!PeerTakes) \/ UNCHANGED tcpVars
    BY <1>2 DEF ReadFails, TcpStep, Tcp!Disconnect, Tcp!Close, Tcp!PeerTakes
  <2>3. PingsUnsent' + PingsOnWire' = PingsUnsent + PingsOnWire
    BY <2>2, TcpKeepsPings, TcpRests
  <2>4. RepliesHaveBodies' /\ ReceivedIsHandled'
        /\ PongsReplied' = PongsReplied /\ PongsHandled' = PongsHandled
    BY <2>1 DEF RepliesHaveBodies, ReceivedIsHandled, PongsReplied, PongsHandled
  <2>5. Heartbeats' = Heartbeats
    BY <2>1, <2>3, <2>4 DEF PartsAddUp, Arming, Pending
  <2>6. SenderFindsQuiet'
    BY <2>1, <2>2, RestIsKept DEF SenderFindsQuiet
  <2> QED
    BY <2>1, <2>4, <2>5, <2>6
<1>3. CASE HandlerNext
  <2>1. UNCHANGED <<tcpVars, replies>>
        /\ PingsUnsent' = PingsUnsent /\ PingsOnWire' = PingsOnWire
        /\ PongsReplied' = PongsReplied
        /\ RepliesHaveBodies'
    <3>1. UNCHANGED <<tcpVars, replies>>
      BY <1>3 DEF HandlerNext, AcceptCode, SetConnectionState, NotifyOne, RearmTimer,
         IgnoreResponse, HandlerThrows
    <3> QED
      BY <3>1, TcpRests DEF PongsReplied, RepliesHaveBodies
  <2>2. CASE RearmTimer
    <3>1. reader = "handling" /\ reader' = "reading" /\ main' = main /\ Decided("rearm")
          /\ SetTimer
      BY <2>2 DEF RearmTimer
    <3>2. PongsHandled = 1 /\ PongsHandled' = 0 /\ ReceivedIsHandled'
      BY <3>1, DecidedCounts DEF Decided, ReceivedIsHandled
    <3>3. Pending' + expired' = Pending + expired + 1
      BY <3>1, SetTimerBegins DEF CodeInv
    <3>4. Heartbeats' = Heartbeats
      BY <2>1, <3>1, <3>2, <3>3 DEF PartsAddUp, Arming
    <3>5. expired' = 0
      BY <3>1, <3>2, PartsAreFew DEF SetTimer
    <3>6. SenderFindsQuiet'
      BY <2>1, <3>1, <3>5, RestIsKept DEF SenderFindsQuiet
    <3> QED
      BY <2>1, <3>1, <3>2, <3>4, <3>6
  <2>3. CASE AcceptCode \/ IgnoreResponse \/ HandlerThrows
    <3>1. PICK outcome : Decided(outcome)
            /\ reader = "handling" /\ UNCHANGED <<main, timer, expired>>
            /\ \/ outcome \in {"accepted", "ignored"} /\ reader' \in {"accepted", "reading"}
               \/ reader' = "dead"
      BY <2>3 DEF AcceptCode, IgnoreResponse, HandlerThrows, timerVars
    <3>2. /\ PongsHandled' = 0 /\ PongsHandled \in {0, 1}
          /\ outcome \in {"accepted", "ignored"} => PongsHandled = 0
          /\ ReceivedIsHandled'
      BY <3>1, DecidedCounts DEF Decided, ReceivedIsHandled
    <3>3. Heartbeats' = Heartbeats - PongsHandled
      BY <2>1, <3>1, <3>2 DEF PartsAddUp, Arming, Pending
    <3>4. SenderFindsQuiet'
      BY <2>1, <3>1, RestIsKept DEF SenderFindsQuiet
    <3>5. ~Started => PongsHandled = 0
      BY <3>2 DEF PartsAddUp
    <3> QED
      BY <2>1, <3>1, <3>2, <3>3, <3>4, <3>5 DEF PartsAddUp
  <2>4. CASE SetConnectionState \/ NotifyOne
    <3>1. /\ reader \in {"accepted", "notifying"} /\ reader' \in {"notifying", "reading"}
          /\ main' = main \/ (main = "waiting" /\ main' = "woken")
          /\ UNCHANGED <<timer, expired, received>>
      BY <2>4 DEF SetConnectionState, NotifyOne, timerVars
    <3>2. PongsHandled' = PongsHandled /\ ReceivedIsHandled'
      BY <3>1 DEF ReceivedIsHandled, PongsHandled
    <3>3. Heartbeats' = Heartbeats
      BY <2>1, <3>1, <3>2 DEF PartsAddUp, Arming, Pending, One
    <3>4. SenderFindsQuiet'
      BY <2>1, <3>1, RestIsKept DEF SenderFindsQuiet
    <3> QED
      BY <2>1, <3>1, <3>2, <3>3, <3>4
  <2> QED
    BY <1>3, <2>2, <2>3, <2>4 DEF HandlerNext
<1> QED
  BY <1>1, <1>2, <1>3

\* The watchdog.
LEMMA WatchdogPulse ==
  ASSUME PulseStep, WatchdogGrants
  PROVE  Pulse'
<1> USE DEF Pulse, PulseStep, HeartbeatInv, HeartbeatCount, Started
<1>1. Tcp!PeerTakes /\ UNCHANGED <<main, timer, expired, reader, received>>
  BY DEF WatchdogGrants, WatchdogAnswers, Reply, timerVars
<1>2. /\ PingsUnsent' = PingsUnsent
      /\ PingsOnWire' + PongsReplied' = PingsOnWire + PongsReplied
      /\ RepliesHaveBodies'
  BY GrantReplies
<1>3. PongsHandled' = PongsHandled /\ ReceivedIsHandled'
  BY <1>1 DEF PongsHandled, ReceivedIsHandled
<1>4. Heartbeats' = Heartbeats
  BY <1>1, <1>2, <1>3 DEF PartsAddUp, Arming, Pending
<1>5. SenderFindsQuiet'
  BY <1>1, RestIsKept DEF SenderFindsQuiet, TcpStep
<1> QED
  BY <1>1, <1>2, <1>3, <1>4, <1>5

\* The state of the main thread tells that the socket is made.
LEMMA SocketMadeKept ==
  ASSUME HeartbeatInv, [PromptNext]_vars
  PROVE  SocketMade'
<1> SUFFICES ASSUME socket' = "new" PROVE main' \in {"connect", "refused", "stopped"}
  BY DEF SocketMade
<1>1. main \in {"connect", "refused", "stopped"} /\ ~Connect
  BY SocketStaysMade DEF HeartbeatInv, SocketMade
<1> QED
  BY <1>1 DEF PromptNext, ServiceNext, MainNext, ConnectFails, SendConnectRequest, StartReading,
     WaitForConnection, WakeUnnotified, ReturnFromWait, StartTimer, Stop, MainStep, SendNext,
     Sending, OnTimerExpiration, Receive, ReadFails, HandlerNext, AcceptCode,
     SetConnectionState, NotifyOne, RearmTimer, IgnoreResponse, HandlerThrows, TimerExpires,
     WatchdogGrants, WatchdogAnswers, Reply, vars

\* Every step preserves the invariant.
LEMMA HeartbeatInvStep == HeartbeatInv /\ [PromptNext]_vars => HeartbeatInv'
<1> SUFFICES ASSUME HeartbeatInv, [PromptNext]_vars PROVE HeartbeatInv'
  OBVIOUS
<1>1. CodeInv'
  BY CodeInvStep, PromptIsFree DEF HeartbeatInv
<1>2. TcpProofs!SpacedInv'
  BY SpacedInvKept
<1>3. SocketMade'
  BY SocketMadeKept
<1>4. Pulse'
  <2>1. CASE UNCHANGED vars
    <3>1. UNCHANGED <<tcpVars, main, timer, expired, reader, received, replies>>
      BY <2>1 DEF vars, timerVars, readVars
    <3>2. Tcp!Unsent' = Tcp!Unsent /\ wire' = wire
      BY <3>1 DEF tcpVars, Tcp!Unsent
    <3>3. Heartbeats' = Heartbeats
      BY <3>1, <3>2 DEF Heartbeats, Positions
    <3> QED
      BY <3>1, <3>3, RestIsKept DEF HeartbeatInv, Pulse, RepliesHaveBodies, ReceivedIsHandled,
         SenderFindsQuiet, HeartbeatCount, Started
  <2>2. CASE PromptNext
    <3>1. PulseStep
      BY <1>1, <1>2, <2>2, PartsTyped, PartsTypedNext, HeartbeatsAreTheParts,
         HeartbeatsAreThePartsNext DEF HeartbeatInv, PulseStep, PromptNext, Alive
    <3> QED
      BY <2>2, <3>1, SendPulse, MainPulse, TimerPulse, ReaderPulse, WatchdogPulse
         DEF PromptNext, ServiceNext
  <2> QED
    BY <2>1, <2>2
<1> QED
  BY <1>1, <1>2, <1>3, <1>4 DEF HeartbeatInv, Pulse

\* That the program ends elsewhere touches nothing here.
LEMMA EndKeepsHeartbeat ==
  ASSUME HeartbeatInv, UNCHANGED <<tcpVars, main, codeVars, timerVars, readVars>>,
         terminated' \in BOOLEAN
  PROVE  HeartbeatInv'
<1> USE DEF HeartbeatInv, codeVars, timerVars, readVars
<1>1. TcpProofs!TypeInv' /\ messagesQueue' = messagesQueue /\ wire' = wire
  BY TcpUnchanged DEF CodeInv
<1>2. Messages'
  BY <1>1, SoundStays, MessagesStay DEF CodeInv, Messages
<1>3. CodeInv'
  BY <1>1, <1>2 DEF CodeInv, OwnTypeOK, Beating
<1>4. TcpProofs!SpacedInv'
  BY TcpConstants, TcpProofs!SpacedInvStep DEF tcpVars, TcpProofs!vars
<1>5. Tcp!Unsent' = Tcp!Unsent /\ socket' = socket
  BY DEF tcpVars, Tcp!Unsent
<1>6. Heartbeats' = Heartbeats
  BY <1>1, <1>5 DEF Heartbeats, Positions
<1> QED
  BY <1>3, <1>4, <1>5, <1>6, RestIsKept DEF RepliesHaveBodies, ReceivedIsHandled,
     SenderFindsQuiet, SocketMade, HeartbeatCount, Started

\* The initial state satisfies the invariant.
LEMMA InitHeartbeatInv == Init => HeartbeatInv
<1> SUFFICES ASSUME Init PROVE HeartbeatInv
  OBVIOUS
<1>1. CodeInv
  BY InitCodeInv
<1>2. TcpProofs!SpacedInv
  BY TcpConstants, TcpProofs!InitSpacedInv DEF Init, Tcp!Init, TcpProofs!Init
<1>3. RepliesHaveBodies /\ ReceivedIsHandled /\ SenderFindsQuiet /\ SocketMade
  BY EmptySeq DEF Init, RepliesHaveBodies, ReceivedIsHandled, SenderFindsQuiet, SocketMade
<1>4. Heartbeats = 0
  <2>1. PartsAddUp
    BY <1>1, <1>2, PartsTyped, HeartbeatsAreTheParts
  <2>2. Tcp!Unsent = <<>> /\ wire = <<>> /\ replies = <<>> /\ received = <<>>
    BY DEF Init, Tcp!Init, Tcp!Unsent
  <2>3. PingsUnsent = 0 /\ PingsOnWire = 0 /\ PongsReplied = 0 /\ PongsHandled = 0
    BY <2>2, CountEmpty DEF PingsUnsent, PingsOnWire, PongsReplied, PongsHandled
  <2> QED
    BY <2>1, <2>3 DEF PartsAddUp, Init, Arming, Pending, One
<1> QED
  BY <1>1, <1>2, <1>3, <1>4 DEF HeartbeatInv, HeartbeatCount, Started, Init

\* The invariant holds in every reachable state.
LEMMA HeartbeatInvariant == PromptSpec => []HeartbeatInv
BY InitHeartbeatInv, HeartbeatInvStep, PTL DEF PromptSpec

(***************************************************************************)
(* The theorems.                                                           *)
(***************************************************************************)

\* What the invariant says in the terms of the model.
LEMMA HeartbeatInvIsSafe ==
  HeartbeatInv => OneHeartbeat /\ HeartbeatKept /\ NothingStranded
<1>1. HeartbeatInv => OneHeartbeat /\ HeartbeatKept
  BY DEF HeartbeatInv, HeartbeatCount, OneHeartbeat, HeartbeatKept, Started
<1>2. HeartbeatInv => NothingStranded
  BY DEF HeartbeatInv, TcpProofs!SpacedInv, TcpProofs!SpacedSafe, NothingStranded,
     TcpProofs!NothingStranded, TcpProofs!NoCall, TcpProofs!NoWrite, Tcp!NothingStranded,
     Tcp!NoCall, Tcp!NoWrite
<1> QED
  BY <1>1, <1>2

\* The service has one heartbeat at most: one timer about to be started, pending or
\* expired, or one ping, or one answer to a ping, however sends, writes and reads
\* interleave and wherever the connection breaks.
THEOREM OneHeartbeatAlways == PromptSpec => []OneHeartbeat
BY HeartbeatInvIsSafe, HeartbeatInvariant, PTL

\* A service that got through its start-up loses its heartbeat nowhere, as long as the
\* connection is up and read.
THEOREM HeartbeatIsKept == PromptSpec => []HeartbeatKept
BY HeartbeatInvIsSafe, HeartbeatInvariant, PTL

\* The service sends a message only when the previous chain of writes has ended: it is
\* a caller of the sending side under the discipline that makes it safe.
THEOREM ServiceIsSpaced == PromptSpec => ImplementsSpacedTcp
<1>1. Init => Tcp!Init
  BY DEF Init
<1> QED
  BY <1>1, HeartbeatInvariant, PromptIsSpaced, PTL DEF PromptSpec, ImplementsSpacedTcp, Tcp!SpacedSpec

\* So no message of the service is left behind in the queue of an open connection, no
\* front() or pop() is executed on an empty queue and sendingInProgress is reset.
THEOREM ServiceSendsSafely ==
  PromptSpec => [](NothingStranded /\ Tcp!NeverUndefined /\ Tcp!FlagIsReset)
<1>1. HeartbeatInv => Tcp!NeverUndefined /\ Tcp!FlagIsReset
  BY DEF HeartbeatInv, TcpProofs!SpacedInv, TcpProofs!SpacedSafe, TcpProofs!NeverUndefined,
     TcpProofs!FlagIsReset, TcpProofs!NoWrite, Tcp!NeverUndefined, Tcp!FlagIsReset,
     Tcp!NoWrite
<1> QED
  BY <1>1, HeartbeatInvIsSafe, HeartbeatInvariant, PTL

\* A step of the service or of its watchdog is one of the channel, or hidden from it.
LEMMA PromptStepMaps ==
  HeartbeatInv /\ HeartbeatInv' /\ [PromptNext]_vars => [Tcp!Fifo!Next]_(Tcp!Fifo!vars)
<1> SUFFICES ASSUME HeartbeatInv, HeartbeatInv', [PromptNext]_vars
             PROVE  [Tcp!Fifo!Next]_(Tcp!Fifo!vars)
  OBVIOUS
<1>1. TcpProofs!SerialInv /\ TcpProofs!SerialInv'
  BY DEF HeartbeatInv, TcpProofs!SpacedInv
<1>2. [TcpProofs!SpacedNext]_(TcpProofs!vars)
  BY PromptIsSpaced, SameSpacedNext
<1>3. [TcpProofs!Fifo!Next]_(TcpProofs!Fifo!vars)
  BY <1>1, <1>2, TcpConstants, TcpProofs!SpacedIsSerial, TcpProofs!SerialStepMaps
<1> QED
  BY <1>3 DEF Tcp!Fifo!Next, Tcp!Fifo!Accept, Tcp!Fifo!Transmit, Tcp!Fifo!Take, Tcp!Fifo!vars,
     Tcp!Unsent, TcpProofs!Fifo!Next, TcpProofs!Fifo!Accept, TcpProofs!Fifo!Transmit,
     TcpProofs!Fifo!Take, TcpProofs!Fifo!vars, TcpProofs!Unsent

\* What the service says to the watchdog goes through a FIFO channel: each request once,
\* whole and in order, as long as the connection lasts.
THEOREM ServiceSendsInOrder == PromptSpec => Tcp!ImplementsChannel
<1>1. Init => Tcp!Fifo!Init
  BY DEF Init, Tcp!Init, Tcp!Fifo!Init, Tcp!Unsent
<1> QED
  BY <1>1, PromptStepMaps, HeartbeatInvariant, PTL
     DEF PromptSpec, Tcp!ImplementsChannel, Tcp!Fifo!Spec

(***************************************************************************)
(* The responses.  A ping response that does not carry the code of the     *)
(* service would end it; that the watchdog copies the code of the ping it  *)
(* grants is not enough, for the service could have another code by then.  *)
(***************************************************************************)
Granted ==
  {r \in Response :
     /\ r.body = "data" /\ r.responsecode = "Success"
     /\ r.operationCode \in {"ConnectResponse", "PingResponse"}
     /\ r.sequencecode \in Code
     /\ IsPong(r) => connectionState = "Connected" /\ r.sequencecode = sequenceCode}

GrantInv ==
  /\ HeartbeatInv
  /\ replies \in Seq(Granted)
  /\ received \in Seq(Granted)
  /\ ~terminated

\* No handler throws at a response that grants.
LEMMA GrantedDoesNotThrow ==
  ASSUME NEW r \in Granted
  PROVE  HandleResponse(r, connectionState, sequenceCode)
           \in {"accepted", "rearm", "ignored"}
BY CodeAssumption DEF Granted, IsPong, HandleResponse, PingOutcome, ConnectOutcome

\* What was granted stays so: only a service that is not connected accepts a code.
LEMMA GrantedStays ==
  ASSUME CodeInv, [PromptNext]_vars
  PROVE  Granted \subseteq Granted'
<1>1. connectionState = "Connected" => UNCHANGED <<connectionState, sequenceCode>>
  BY PromptIsFree, ConnectedStays
<1> QED
  BY <1>1 DEF Granted, IsPong, Response

\* Every step preserves the invariant.
LEMMA GrantInvStep == GrantInv /\ [PromptNext]_vars => GrantInv'
<1> SUFFICES ASSUME GrantInv, [PromptNext]_vars PROVE GrantInv'
  OBVIOUS
<1> USE DEF GrantInv
<1>1. HeartbeatInv' /\ CodeInv
  BY HeartbeatInvStep DEF HeartbeatInv
<1>2. Granted \subseteq Granted'
  BY <1>1, GrantedStays
<1>3. CASE UNCHANGED <<replies, received, terminated>>
  <2>1. replies' \in Seq(Granted') /\ received' \in Seq(Granted')
    BY <1>2, <1>3, SeqMonotonic
  <2> QED
    BY <1>1, <1>3, <2>1
<1>4. CASE Receive
  <2>1. Head(replies) \in Granted /\ Tail(replies) \in Seq(Granted)
    BY <1>4, HeadTailProperties DEF Receive
  <2>2. replies' \in Seq(Granted) /\ received' \in Seq(Granted) /\ terminated' = terminated
    BY <1>4, <2>1, EmptySeq DEF Receive
  <2>3. replies' \in Seq(Granted') /\ received' \in Seq(Granted')
    BY <1>2, <2>2, SeqMonotonic
  <2> QED
    BY <1>1, <2>2, <2>3
<1>5. CASE HandlerNext
  <2>1. ~HandlerThrows
    <3> SUFFICES ASSUME HandlerThrows PROVE FALSE
      OBVIOUS
    <3>1. Head(received) \in Granted
      BY HeadTailProperties DEF HandlerThrows, ReaderStep, HeartbeatInv, ReceivedIsHandled
    <3> QED
      BY <3>1, GrantedDoesNotThrow DEF HandlerThrows, Decided
  <2>2. replies' = replies /\ received' \in {received, <<>>} /\ terminated' = terminated
    BY <1>5, <2>1 DEF HandlerNext, AcceptCode, SetConnectionState, NotifyOne, RearmTimer,
       IgnoreResponse, Decided
  <2>3. replies' \in Seq(Granted') /\ received' \in Seq(Granted')
    BY <1>2, <2>2, SeqMonotonic, EmptySeq
  <2> QED
    BY <1>1, <2>2, <2>3
<1>6. CASE WatchdogGrants
  <2>1. PICK r \in Answer : Grants(r, Head(wire)) /\ Reply(r)
    BY <1>6 DEF WatchdogGrants, WatchdogAnswers
  <2>2. Head(wire) \in SoundRequest
    BY <1>1, <1>6, HeadTailProperties DEF WatchdogGrants, CodeInv, Messages
  <2>3. r \in Granted
    BY <1>1, <2>1, <2>2, WatchdogAssumption
       DEF Grants, Answers, IsPong, SoundRequest, Granted, CodeInv, OwnTypeOK
  <2>4. replies' \in Seq(Granted) /\ received' = received /\ terminated' = terminated
    BY <2>1, <2>3, AppendProperties DEF Reply
  <2>5. replies' \in Seq(Granted') /\ received' \in Seq(Granted')
    BY <1>2, <2>4, SeqMonotonic
  <2> QED
    BY <1>1, <2>4, <2>5
<1>7. \/ UNCHANGED <<replies, received, terminated>>
      \/ Receive \/ HandlerNext \/ WatchdogGrants
  BY DEF vars, readVars, PromptNext, ServiceNext, MainNext, Connect, ConnectFails,
     SendConnectRequest, StartReading, WaitForConnection, WakeUnnotified, ReturnFromWait,
     StartTimer, Stop, SendNext, Sending, OnTimerExpiration, ReadFails, TimerExpires
<1> QED
  BY <1>3, <1>4, <1>5, <1>6, <1>7

\* Granted responses never end the service: every answer to a ping carries the code the
\* service still holds when it handles it.
THEOREM GrantsDoNotTerminate == PromptSpec => []ResponsesDoNotTerminate
<1>1. Init => GrantInv
  BY InitHeartbeatInv, EmptySeq DEF Init, GrantInv
<1>2. GrantInv => ResponsesDoNotTerminate
  BY DEF GrantInv, ResponsesDoNotTerminate
<1> QED
  BY <1>1, <1>2, GrantInvStep, PTL DEF PromptSpec
=============================================================================
