------------------------- MODULE TcpConnectionProofs -------------------------
(***************************************************************************)
(* Proofs about TcpConnection, for any sets of threads, messages and       *)
(* chains of writes and any bounds.                                        *)
(***************************************************************************)
EXTENDS TcpConnection, SequenceTheorems, TLAPS

(***************************************************************************)
(* Type correctness, whatever the callers do.  It is not inductive alone:  *)
(* what MessageSent puts on the wire is a message only because an          *)
(* in-flight write refers to an element that is still in the queue.        *)
(***************************************************************************)
WriteHasFront ==
  ~undefined => \A w \in Write : write[w] \in {"header", "body"} => messagesQueue # <<>>

TypeInv == TypeOK /\ WriteHasFront

\* The initial state satisfies the type invariant and everything below.
LEMMA InitTypeInv == Init => TypeInv
<1> SUFFICES ASSUME Init PROVE TypeInv
  OBVIOUS
<1>1. messagesQueue \in Seq(Message) /\ wire \in Seq(Message)
  BY EmptySeq DEF Init
<1>2. call \in [Thread -> CallLabel] /\ write \in [Write -> WriteLabel]
  BY DEF Init, CallLabel, WriteLabel
<1> QED
  BY <1>1, <1>2 DEF Init, TypeInv, TypeOK, WriteHasFront

\* A step of a chain of writes puts nothing into the queue or on the wire that was not
\* in the queue: it keeps both within any set of messages that holds them.
LEMMA WriterStepSequences ==
  ASSUME NEW S, messagesQueue \in Seq(S), wire \in Seq(S),
         NEW w \in Write, WriteHasFront, ~undefined, WriterStep(w)
  PROVE  /\ messagesQueue' \in Seq(S)
         /\ wire' \in Seq(S)
<1>1. CASE MessageSent(w)
  <2>1. messagesQueue # <<>>
    BY <1>1 DEF WriteHasFront, MessageSent, WriteStep
  <2>2. Head(messagesQueue) \in S
    BY <2>1, HeadTailProperties
  <2> QED
    BY <1>1, <2>2 DEF MessageSent
<1>2. CASE Pop(w)
  BY <1>2, HeadTailProperties DEF Pop
<1>3. CASE ~MessageSent(w) /\ ~Pop(w)
  BY <1>3 DEF WriterStep, HeaderSent, WriteNext, QueueDrained, ClearSending,
     WriteFails, DisconnectAfterFailure
<1> QED
  BY <1>1, <1>2, <1>3

\* A step of a chain of writes changes its own label and no call.
LEMMA WriterStepLabels ==
  ASSUME NEW w \in Write, WriterStep(w)
  PROVE  /\ \E l \in WriteLabel : write' = [write EXCEPT ![w] = l]
         /\ write[w] # "idle"
         /\ call' = call
BY DEF WriterStep, HeaderSent, MessageSent, Pop, WriteNext, QueueDrained,
   ClearSending, WriteFails, DisconnectAfterFailure, WriteStep, WriteLabel

\* Every step of any discipline preserves the type invariant.
LEMMA TypeInvStep == TypeInv /\ [FreeNext]_vars => TypeInv'
<1> SUFFICES ASSUME TypeInv, [FreeNext]_vars PROVE TypeInv'
  OBVIOUS
<1> USE DEF TypeInv, TypeOK, WriteHasFront
<1>1. CASE ~undefined /\ Send
  BY <1>1, AppendProperties DEF Send, SendMessage, CallStep, CallLabel
<1>2. ASSUME NEW t \in Thread, ~undefined, CallerStep(t) PROVE TypeInv'
  <2>1. CASE StartWriting(t)
    BY <2>1 DEF StartWriting, CallStep, CallLabel, WriteLabel
  <2>2. CASE CheckOpen(t) \/ CheckSending(t) \/ SetSending(t)
    BY <2>2 DEF CheckOpen, CheckSending, SetSending, CallStep, CallLabel
  <2> QED
    BY <1>2, <2>1, <2>2 DEF CallerStep
<1>3. ASSUME NEW w \in Write, ~undefined, WriterStep(w) PROVE TypeInv'
  <2>1. TypeOK'
    <3>1. /\ socket' \in {"new", "open", "closed"}
          /\ sendingInProgress' \in BOOLEAN
          /\ undefined' \in BOOLEAN
      BY <1>3 DEF WriterStep, HeaderSent, MessageSent, Pop, WriteNext, QueueDrained,
         ClearSending, WriteFails, DisconnectAfterFailure, Close
    <3> QED
      BY <1>3, <3>1, WriterStepSequences, WriterStepLabels
  <2>2. WriteHasFront'
    <3>1. CASE Pop(w)
      BY <3>1 DEF Pop, WriteStep
    <3>2. CASE ~Pop(w)
      BY <1>3, <3>2 DEF WriterStep, HeaderSent, MessageSent, WriteNext, QueueDrained,
         ClearSending, WriteFails, DisconnectAfterFailure, WriteStep
    <3> QED
      BY <3>1, <3>2
  <2> QED
    BY <2>1, <2>2
<1>4. CASE Connect \/ Disconnect \/ PeerTakes
  BY <1>4, HeadTailProperties DEF Connect, Disconnect, PeerTakes, Close
<1>5. CASE UNCHANGED vars
  BY <1>5 DEF vars
<1> QED
  BY <1>1, <1>2, <1>3, <1>4, <1>5 DEF FreeNext, Internal

\* TcpConnection is type-correct, however its callers overlap.
THEOREM TypeCorrect == FreeSpec => []TypeOK
<1>1. FreeSpec => []TypeInv
  BY InitTypeInv, TypeInvStep, PTL DEF FreeSpec
<1>2. TypeInv => TypeOK
  BY DEF TypeInv
<1> QED
  BY <1>1, <1>2, PTL

(***************************************************************************)
(* Calls that do not overlap.  SingleWrite is not inductive alone: that no *)
(* second chain starts rests on the flag being true whenever a chain is    *)
(* active, and on nothing changing between the caller's test of the flag   *)
(* and the start of its chain.                                             *)
(***************************************************************************)
OneCall == \A s, t \in Thread : call[s] # "idle" /\ call[t] # "idle" => s = t

FlagCoversWrites ==
  /\ \A w \in Write : write[w] # "idle" => sendingInProgress
  /\ \A t \in Thread : call[t] = "claimed" => ~sendingInProgress
  /\ \A t \in Thread : call[t] = "starting" => sendingInProgress /\ NoWrite

\* Until it pops it, an active chain refers to the front of the queue.
FrontUnpopped ==
  ~undefined =>
    \A w \in Write : write[w] \in {"header", "body", "sent", "sentEmpty"} =>
                       messagesQueue # <<>>

SerialInv == TypeInv /\ OneCall /\ SingleWrite /\ FlagCoversWrites /\ FrontUnpopped

\* The serial discipline is one the free one allows.
LEMMA SerialIsFree == [SerialNext]_vars => [FreeNext]_vars
BY DEF SerialNext, FreeNext

\* A step of a chain of writes keeps the chains apart, and leaves the flag true
\* unless it ends the chain.
LEMMA WriterStepFlag ==
  ASSUME NEW w \in Write, WriterStep(w)
  PROVE  sendingInProgress' = sendingInProgress \/ write' = [write EXCEPT ![w] = "idle"]
BY DEF WriterStep, HeaderSent, MessageSent, Pop, WriteNext, QueueDrained,
   ClearSending, WriteFails, DisconnectAfterFailure, WriteStep

\* The initial state satisfies the invariant of calls that do not overlap.
LEMMA InitSerialInv == Init => SerialInv
<1> SUFFICES ASSUME Init PROVE SerialInv
  OBVIOUS
<1> QED
  BY InitTypeInv DEF Init, SerialInv, OneCall, SingleWrite, FlagCoversWrites,
     FrontUnpopped, NoWrite

\* Every step of callers whose calls do not overlap preserves the invariant.
LEMMA SerialInvStep == SerialInv /\ [SerialNext]_vars => SerialInv'
<1> SUFFICES ASSUME SerialInv, [SerialNext]_vars PROVE SerialInv'
  OBVIOUS
<1>0. TypeInv'
  BY TypeInvStep, SerialIsFree DEF SerialInv
<1> USE DEF SerialInv, OneCall, SingleWrite, FlagCoversWrites, FrontUnpopped, NoWrite
<1>1. CASE ~undefined /\ NoCall /\ Send
  BY <1>0, <1>1, AppendProperties DEF Send, SendMessage, CallStep, NoCall, TypeInv, TypeOK
<1>2. ASSUME NEW t \in Thread, ~undefined, CallerStep(t) PROVE SerialInv'
  <2> USE DEF TypeInv, TypeOK, CallStep
  <2>1. CASE CheckOpen(t)
    BY <1>0, <2>1 DEF CheckOpen
  <2>2. CASE CheckSending(t)
    BY <1>0, <2>2 DEF CheckSending
  <2>3. CASE SetSending(t)
    BY <1>0, <2>3 DEF SetSending
  <2>4. CASE StartWriting(t)
    <3>1. PICK w \in Write : write' = [write EXCEPT ![w] = "header"]
      BY <2>4 DEF StartWriting
    <3>2. NoWrite
      BY <2>4 DEF StartWriting
    <3> QED
      BY <1>0, <2>4, <3>1, <3>2 DEF StartWriting
  <2> QED
    BY <1>2, <2>1, <2>2, <2>3, <2>4 DEF CallerStep
<1>3. ASSUME NEW w \in Write, ~undefined, WriterStep(w) PROVE SerialInv'
  <2> USE DEF TypeInv, TypeOK
  <2>1. PICK l \in WriteLabel : write' = [write EXCEPT ![w] = l]
    BY <1>3, WriterStepLabels
  <2>2. /\ write[w] # "idle"
        /\ call' = call
        /\ \A v \in Write \ {w} : write[v] = "idle" /\ write'[v] = "idle"
    BY <1>3, <2>1, WriterStepLabels
  <2>3. OneCall' /\ SingleWrite'
    BY <2>1, <2>2
  <2>4. FlagCoversWrites'
    <3>1. sendingInProgress /\ \A t \in Thread : call[t] \notin {"claimed", "starting"}
      BY <2>2
    <3>2. sendingInProgress' \/ write'[w] = "idle"
      BY <1>3, <2>1, <3>1, WriterStepFlag
    <3> QED
      BY <2>1, <2>2, <3>1, <3>2
  <2>5. FrontUnpopped'
    <3>1. CASE Pop(w)
      BY <2>1, <2>2, <3>1 DEF Pop, WriteStep
    <3>2. CASE ~Pop(w)
      BY <1>3, <3>2 DEF WriterStep, HeaderSent, MessageSent, WriteNext, QueueDrained,
         ClearSending, WriteFails, DisconnectAfterFailure, WriteStep
    <3> QED
      BY <3>1, <3>2
  <2> QED
    BY <1>0, <2>3, <2>4, <2>5
<1>4. CASE Connect \/ Disconnect \/ PeerTakes
  BY <1>0, <1>4 DEF Connect, Disconnect, PeerTakes
<1>5. CASE UNCHANGED vars
  BY <1>0, <1>5 DEF vars
<1> QED
  BY <1>1, <1>2, <1>3, <1>4, <1>5 DEF SerialNext, Internal

\* The invariant holds throughout, as long as calls of sendMessage do not overlap.
LEMMA SerialInvariant == SerialSpec => []SerialInv
BY InitSerialInv, SerialInvStep, PTL DEF SerialSpec

\* sendMessage's test and set of sendingInProgress keep to one chain of writes
\* as long as calls of sendMessage do not overlap.
THEOREM SerialSingleWrite == SerialSpec => []SingleWrite
<1>1. SerialInv => SingleWrite
  BY DEF SerialInv
<1> QED
  BY <1>1, SerialInvariant, PTL

(***************************************************************************)
(* The connection implements the FIFO channel as long as calls do not      *)
(* overlap.  A message leaves the queue of the channel when it is          *)
(* transmitted, that of the connection when it is popped; the invariant    *)
(* says that the two differ by the front of the queue at most.             *)
(***************************************************************************)
SentUnpopped == \E w \in Write : write[w] \in {"sent", "sentEmpty"}

\* Steps that leave the queue, the wire and the set of chains between
\* transmission and pop alone are invisible in the channel.
LEMMA UnsentUnchanged ==
  ASSUME UNCHANGED <<messagesQueue, wire>>, SentUnpopped' <=> SentUnpopped
  PROVE  UNCHANGED Fifo!vars
BY DEF Fifo!vars, Unsent, SentUnpopped

\* A push is the acceptance of the message by the channel.
LEMMA SendAccepts ==
  ASSUME SerialInv, ~undefined, NEW t \in Thread, NEW m \in Message, SendMessage(t, m)
  PROVE  Fifo!Accept(m)
<1>1. /\ messagesQueue' = Append(messagesQueue, m)
      /\ UNCHANGED <<write, wire>>
  BY DEF SendMessage
<1>2. messagesQueue \in Seq(Message) /\ (SentUnpopped => messagesQueue # <<>>)
  BY DEF SerialInv, TypeInv, TypeOK, FrontUnpopped, SentUnpopped
<1>3. messagesQueue # <<>> => Tail(Append(messagesQueue, m)) = Append(Tail(messagesQueue), m)
  BY <1>2, HeadTailAppend
<1> QED
  BY <1>1, <1>2, <1>3 DEF Fifo!Accept, Unsent, SentUnpopped

\* A step of a chain of writes transmits the front of the channel or leaves the
\* channel as it is.
LEMMA WriterStepTransmits ==
  ASSUME SerialInv, SerialInv', ~undefined, NEW w \in Write, WriterStep(w)
  PROVE  Fifo!Transmit \/ UNCHANGED Fifo!vars
<1> USE DEF SerialInv, TypeInv, TypeOK
<1>1. \A v \in Write \ {w} : write[v] = "idle" /\ write'[v] = "idle"
  BY WriterStepLabels DEF SingleWrite
<1>2. CASE MessageSent(w)
  <2>1. ~SentUnpopped
    BY <1>1, <1>2 DEF MessageSent, WriteStep, SentUnpopped
  <2>2. SentUnpopped'
    BY <1>2 DEF MessageSent, WriteStep, SentUnpopped
  <2>3. messagesQueue # <<>>
    BY <1>2 DEF MessageSent, WriteStep, FrontUnpopped
  <2> QED
    BY <1>2, <2>1, <2>2, <2>3 DEF MessageSent, Fifo!Transmit, Unsent, SentUnpopped
<1>3. CASE Pop(w)
  <2>1. SentUnpopped /\ messagesQueue # <<>>
    BY <1>3 DEF Pop, WriteStep, SentUnpopped, FrontUnpopped
  <2>2. ~SentUnpopped'
    BY <1>1, <1>3 DEF Pop, WriteStep, SentUnpopped
  <2> QED
    BY <1>3, <2>1, <2>2 DEF Pop, Fifo!vars, Unsent, SentUnpopped
<1>4. CASE ~MessageSent(w) /\ ~Pop(w)
  <2>1. UNCHANGED <<messagesQueue, wire>>
    BY <1>4 DEF WriterStep, HeaderSent, WriteNext, QueueDrained, ClearSending,
       WriteFails, DisconnectAfterFailure
  <2>2. ~SentUnpopped /\ ~SentUnpopped'
    BY <1>1, <1>4 DEF WriterStep, HeaderSent, WriteNext, QueueDrained, ClearSending,
       WriteFails, DisconnectAfterFailure, WriteStep, SentUnpopped
  <2> QED
    BY <2>1, <2>2, UnsentUnchanged
<1> QED
  BY <1>2, <1>3, <1>4

\* Starting a chain of writes transmits nothing.
LEMMA CallerStepHidden ==
  ASSUME SerialInv, NEW t \in Thread, CallerStep(t)
  PROVE  UNCHANGED Fifo!vars
<1>1. UNCHANGED <<messagesQueue, wire>>
  BY DEF CallerStep, CheckOpen, CheckSending, SetSending, StartWriting
<1>2. SentUnpopped' <=> SentUnpopped
  BY DEF CallerStep, CheckOpen, CheckSending, SetSending, StartWriting, SentUnpopped,
     SerialInv, TypeInv, TypeOK
<1> QED
  BY <1>1, <1>2, UnsentUnchanged

\* A step of callers that do not overlap is one of the channel, or hidden from it.
LEMMA SerialStepMaps == SerialInv /\ SerialInv' /\ [SerialNext]_vars => [Fifo!Next]_(Fifo!vars)
<1> SUFFICES ASSUME SerialInv, SerialInv', [SerialNext]_vars
             PROVE  Fifo!Next \/ UNCHANGED Fifo!vars
  OBVIOUS
<1>1. CASE ~undefined /\ Send
  BY <1>1, SendAccepts DEF Send, Fifo!Next
<1>2. ASSUME NEW t \in Thread, CallerStep(t) PROVE UNCHANGED Fifo!vars
  BY <1>2, CallerStepHidden
<1>3. ASSUME NEW w \in Write, ~undefined, WriterStep(w)
      PROVE  Fifo!Next \/ UNCHANGED Fifo!vars
  BY <1>3, WriterStepTransmits DEF Fifo!Next
<1>4. CASE PeerTakes
  BY <1>4 DEF PeerTakes, Fifo!Next, Fifo!Take, Unsent
<1>5. CASE Connect \/ Disconnect \/ UNCHANGED vars
  BY <1>5, UnsentUnchanged DEF Connect, Disconnect, vars, SentUnpopped
<1> QED
  BY <1>1, <1>2, <1>3, <1>4, <1>5 DEF SerialNext, Internal

\* Every accepted message is transmitted once, whole and in the order of
\* acceptance, as long as calls of sendMessage do not overlap, whenever the
\* connection breaks and however the writes interleave with the next call.
THEOREM SerialImplementsChannel == SerialSpec => ImplementsChannel
<1>1. Init => Fifo!Init
  BY DEF Init, Fifo!Init, Unsent
<1> QED
  BY <1>1, SerialStepMaps, SerialInvariant, PTL DEF SerialSpec, ImplementsChannel, Fifo!Spec

(***************************************************************************)
(* Calls that wait for the previous chain of writes to end, of messages    *)
(* with a body.  Then a call finds the flag reset, its message is the only *)
(* one in the queue while its chain starts, and the chain ends on an empty *)
(* queue or on a closed socket.                                            *)
(***************************************************************************)
QuietBeforeConnect == socket = "new" => messagesQueue = <<>> /\ NoCall /\ NoWrite

CallFindsQuiet == \A t \in Thread : call[t] # "idle" => NoWrite /\ messagesQueue # <<>>

BodiesOnly == \A w \in Write : write[w] \notin {"sentEmpty", "poppedEmpty"}

ChainEndsClean ==
  \A w \in Write : write[w] = "clearing" => messagesQueue = <<>> \/ socket = "closed"

SpacedSafe == NeverUndefined /\ NothingStranded /\ FlagIsReset

SpacedInv ==
  /\ SerialInv
  /\ SpacedSafe
  /\ QuietBeforeConnect
  /\ CallFindsQuiet
  /\ BodiesOnly
  /\ ChainEndsClean

\* The spaced discipline is one the serial one allows.
LEMMA SpacedIsSerial == [SpacedNext]_vars => [SerialNext]_vars
BY DEF SpacedNext, SerialNext

\* Every step of a caller that found no chain of writes active preserves the
\* invariant.
LEMMA SpacedCallerStep ==
  ASSUME SpacedInv, SerialInv', NEW t \in Thread, CallerStep(t)
  PROVE  SpacedInv'
<1> USE DEF SpacedInv, SpacedSafe, SerialInv, TypeInv, TypeOK, OneCall, NeverUndefined,
            NothingStranded, FlagIsReset, QuietBeforeConnect, CallFindsQuiet, BodiesOnly,
            ChainEndsClean, NoCall, NoWrite, CallStep
<1>1. CASE CheckOpen(t)
  BY <1>1 DEF CheckOpen
<1>2. CASE CheckSending(t)
  <2>1. ~sendingInProgress
    BY <1>2 DEF CheckSending
  <2> QED
    BY <1>2, <2>1 DEF CheckSending
<1>3. CASE SetSending(t)
  BY <1>3 DEF SetSending
<1>4. CASE StartWriting(t)
  <2>1. PICK w \in Write : write' = [write EXCEPT ![w] = "header"]
    BY <1>4 DEF StartWriting
  <2>2. messagesQueue # <<>> /\ call' = [call EXCEPT ![t] = "idle"]
    BY <1>4 DEF StartWriting
  <2>3. \A s \in Thread : call'[s] = "idle"
    BY <1>4, <2>2 DEF StartWriting
  <2>4. /\ UNCHANGED <<socket, messagesQueue, sendingInProgress>>
        /\ undefined' = FALSE
        /\ write'[w] = "header"
    BY <1>4, <2>1, <2>2 DEF StartWriting
  <2>5. socket # "new"
    BY <1>4 DEF StartWriting
  <2> QED
    BY <2>1, <2>3, <2>4, <2>5
<1> QED
  BY <1>1, <1>2, <1>3, <1>4 DEF CallerStep

\* Every step of the chain of writes preserves the invariant, if no body is empty.
LEMMA SpacedWriterStep ==
  ASSUME EmptyBody = {}, SpacedInv, SerialInv', NEW w \in Write, WriterStep(w)
  PROVE  SpacedInv'
<1>1. /\ call' = call
      /\ \A v \in Write \ {w} : write[v] = "idle" /\ write'[v] = "idle"
      /\ write[w] # "idle"
  BY WriterStepLabels DEF SpacedInv, SerialInv, SingleWrite, TypeInv, TypeOK
<1>2. NoCall /\ socket # "new"
  BY <1>1 DEF SpacedInv, CallFindsQuiet, QuietBeforeConnect, NoCall, NoWrite
<1>3. NoCall' /\ CallFindsQuiet'
  BY <1>1, <1>2 DEF NoCall, CallFindsQuiet
<1> USE DEF SpacedInv, SpacedSafe, SerialInv, TypeInv, TypeOK, NeverUndefined,
            NothingStranded, FlagIsReset, QuietBeforeConnect, BodiesOnly,
            ChainEndsClean, NoWrite, WriteStep
<1>4. CASE HeaderSent(w)
  BY <1>1, <1>2, <1>3, <1>4 DEF HeaderSent
<1>5. CASE MessageSent(w)
  BY <1>1, <1>2, <1>3, <1>5 DEF MessageSent
<1>6. CASE Pop(w)
  <2>1. messagesQueue # <<>>
    BY <1>6 DEF Pop, FrontUnpopped
  <2> QED
    BY <1>1, <1>2, <1>3, <1>6, <2>1 DEF Pop
<1>7. CASE WriteNext(w)
  BY <1>1, <1>2, <1>3, <1>7 DEF WriteNext
<1>8. CASE QueueDrained(w)
  BY <1>1, <1>2, <1>3, <1>8 DEF QueueDrained
<1>9. CASE ClearSending(w)
  BY <1>1, <1>2, <1>3, <1>9 DEF ClearSending
<1>10. CASE WriteFails(w)
  BY <1>1, <1>2, <1>3, <1>10 DEF WriteFails
<1>11. CASE DisconnectAfterFailure(w)
  BY <1>1, <1>2, <1>3, <1>11 DEF DisconnectAfterFailure, Close
<1> QED
  BY <1>4, <1>5, <1>6, <1>7, <1>8, <1>9, <1>10, <1>11 DEF WriterStep

\* The initial state satisfies the invariant of spaced calls.
LEMMA InitSpacedInv == Init => SpacedInv
<1> SUFFICES ASSUME Init PROVE SpacedInv
  OBVIOUS
<1>1. SerialInv
  BY InitSerialInv
<1> QED
  BY <1>1 DEF Init, SpacedInv, SpacedSafe, NeverUndefined, NothingStranded, FlagIsReset,
     QuietBeforeConnect, CallFindsQuiet, BodiesOnly, ChainEndsClean, NoCall, NoWrite

\* Every step of callers whose calls are spaced preserves the invariant, if no body is
\* empty.
LEMMA SpacedInvStep ==
  ASSUME EmptyBody = {}
  PROVE  SpacedInv /\ [SpacedNext]_vars => SpacedInv'
<1> SUFFICES ASSUME SpacedInv, [SpacedNext]_vars PROVE SpacedInv'
  OBVIOUS
<1>1. SerialInv'
  BY SerialInvStep, SpacedIsSerial DEF SpacedInv
<1>2. CASE NoCall /\ NoWrite /\ Send
  BY <1>1, <1>2, AppendProperties DEF Send, SendMessage, CallStep, SpacedInv, SpacedSafe,
     SerialInv, TypeInv, TypeOK, NeverUndefined, NothingStranded, FlagIsReset,
     QuietBeforeConnect, CallFindsQuiet, BodiesOnly, ChainEndsClean, NoCall, NoWrite
<1>3. ASSUME NEW t \in Thread, CallerStep(t) PROVE SpacedInv'
  BY <1>1, <1>3, SpacedCallerStep
<1>4. ASSUME NEW w \in Write, WriterStep(w) PROVE SpacedInv'
  BY <1>1, <1>4, SpacedWriterStep
<1>5. CASE Connect \/ Disconnect \/ PeerTakes \/ UNCHANGED vars
  BY <1>1, <1>5 DEF Connect, Disconnect, Close, PeerTakes, vars, SpacedInv, SpacedSafe,
     NeverUndefined, NothingStranded, FlagIsReset, QuietBeforeConnect, CallFindsQuiet,
     BodiesOnly, ChainEndsClean, NoCall, NoWrite
<1> QED
  BY <1>2, <1>3, <1>4, <1>5 DEF SpacedNext, Internal

\* If a call begins only after the previous chain of writes has ended, and no
\* message has an empty body, no operation without a defined outcome is
\* executed, no message is left behind in the queue of an open connection and
\* sendingInProgress is always reset.
THEOREM SpacedIsSafe ==
  ASSUME EmptyBody = {}
  PROVE  SpacedSpec => [](NeverUndefined /\ NothingStranded /\ FlagIsReset)
<1>1. SpacedInv /\ [SpacedNext]_vars => SpacedInv'
  BY SpacedInvStep
<1>2. SpacedInv => NeverUndefined /\ NothingStranded /\ FlagIsReset
  BY DEF SpacedInv, SpacedSafe
<1> QED
  BY InitSpacedInv, <1>1, <1>2, PTL DEF SpacedSpec

\* Under the same conditions no front() and no pop() is executed on an empty queue.
COROLLARY SpacedNeverUndefined ==
  ASSUME EmptyBody = {}
  PROVE  SpacedSpec => []NeverUndefined
BY SpacedIsSafe, PTL

\* Under the same conditions sendingInProgress is true only while something is sent.
COROLLARY SpacedFlagIsReset ==
  ASSUME EmptyBody = {}
  PROVE  SpacedSpec => []FlagIsReset
BY SpacedIsSafe, PTL
=============================================================================
