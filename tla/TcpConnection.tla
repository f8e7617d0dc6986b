---------------------------- MODULE TcpConnection ----------------------------
(***************************************************************************)
(* The sending side of Connection::TcpConnection<T> and the MessageQueue   *)
(* it writes from (Connection.hpp, MessageQueue.hpp).                      *)
(*                                                                         *)
(* sendMessage is called by a thread and pushes a copy of the message; the *)
(* caller that finds sendingInProgress false starts a chain of             *)
(* asynchronous writes, whose completion handlers run on any io_context    *)
(* thread, write the header and the body of the message at the front of    *)
(* the queue, pop it and go on with the next one.  One action is one       *)
(* access to shared state: a locked queue operation, a load or a store of  *)
(* the atomic flag, a socket operation.                                    *)
(*                                                                         *)
(* An in-flight write holds a reference to the front element of the queue, *)
(* not a copy.  front() or pop() on an empty queue, and popping an element *)
(* another write still refers to, have no defined outcome: they set        *)
(* undefined, and the model says nothing of what comes after.              *)
(***************************************************************************)
EXTENDS Naturals, Sequences

CONSTANTS
  Thread,      \* threads that call sendMessage
  Message,     \* messages they send
  EmptyBody,   \* those whose body serialises to no bytes
  Write,       \* identities of chains of asynchronous writes
  QueueBound,  \* bound of the model on the queue, which the code leaves unbounded
  WireBound    \* messages the socket buffers hold before a write has to wait

ASSUME ConstantsAssumption ==
  /\ EmptyBody \subseteq Message
  /\ QueueBound \in Nat
  /\ WireBound \in Nat

VARIABLES
  socket,             \* "new", "open" or "closed": is_open() is socket = "open"
  messagesQueue,
  sendingInProgress,
  call,               \* where each thread is in sendMessage
  write,              \* what each chain of writes is about to do
  wire,               \* complete messages sent, not yet taken by the peer
  undefined           \* an operation without a defined outcome was executed

vars == <<socket, messagesQueue, sendingInProgress, call, write, wire, undefined>>

CallLabel  == {"idle", "pushed", "open", "claimed", "starting"}
WriteLabel == {"idle", "header", "body", "sent", "sentEmpty", "popped",
               "poppedEmpty", "failed", "clearing"}

TypeOK ==
  /\ socket \in {"new", "open", "closed"}
  /\ messagesQueue \in Seq(Message)
  /\ sendingInProgress \in BOOLEAN
  /\ call \in [Thread -> CallLabel]
  /\ write \in [Write -> WriteLabel]
  /\ wire \in Seq(Message)
  /\ undefined \in BOOLEAN

Init ==
  /\ socket = "new"
  /\ messagesQueue = <<>>
  /\ sendingInProgress = FALSE
  /\ call = [t \in Thread |-> "idle"]
  /\ write = [w \in Write |-> "idle"]
  /\ wire = <<>>
  /\ undefined = FALSE

(***************************************************************************)
(* The socket.                                                             *)
(***************************************************************************)

Connect ==
  /\ socket = "new"
  /\ socket' = "open"
  /\ UNCHANGED <<messagesQueue, sendingInProgress, call, write, wire, undefined>>

\* Mutant: disconnect() releases the socket instead of closing it.
CloseReleasing == socket' = IF socket = "open" THEN "released" ELSE socket

Close == socket' = IF socket = "open" THEN "closed" ELSE socket

\* disconnect() on the reading side, after a failed asynchronous read.
Disconnect ==
  /\ socket = "open"
  /\ Close
  /\ UNCHANGED <<messagesQueue, sendingInProgress, call, write, wire, undefined>>

(***************************************************************************)
(* sendMessage, step by step, on thread t.                                 *)
(***************************************************************************)

CallStep(t, from, to) ==
  /\ call[t] = from
  /\ call' = [call EXCEPT ![t] = to]

\* Mutant: the message is not pushed.
SendMessageUnqueued(t, m) ==
  /\ CallStep(t, "idle", "pushed")
  /\ UNCHANGED <<socket, messagesQueue, sendingInProgress, write, wire, undefined>>

SendMessage(t, m) ==
  /\ Len(messagesQueue) < QueueBound
  /\ CallStep(t, "idle", "pushed")
  /\ messagesQueue' = Append(messagesQueue, m)
  /\ UNCHANGED <<socket, sendingInProgress, write, wire, undefined>>

CheckOpen(t) ==
  /\ CallStep(t, "pushed", IF socket = "open" THEN "open" ELSE "idle")
  /\ UNCHANGED <<socket, messagesQueue, sendingInProgress, write, wire, undefined>>

\* Mutant: the condition is negated.
CheckSendingNegated(t) ==
  /\ CallStep(t, "open", IF sendingInProgress THEN "claimed" ELSE "idle")
  /\ UNCHANGED <<socket, messagesQueue, sendingInProgress, write, wire, undefined>>

CheckSending(t) ==
  /\ CallStep(t, "open", IF sendingInProgress THEN "idle" ELSE "claimed")
  /\ UNCHANGED <<socket, messagesQueue, sendingInProgress, write, wire, undefined>>

\* Mutant: the flag is not set.
SetSendingForgotten(t) ==
  /\ CallStep(t, "claimed", "starting")
  /\ UNCHANGED <<socket, messagesQueue, sendingInProgress, write, wire, undefined>>

SetSending(t) ==
  /\ CallStep(t, "claimed", "starting")
  /\ sendingInProgress' = TRUE
  /\ UNCHANGED <<socket, messagesQueue, write, wire, undefined>>

StartWriting(t) ==
  /\ CallStep(t, "starting", "idle")
  /\ \E w \in Write :
       /\ write[w] = "idle"
       /\ write' = [write EXCEPT ![w] = "header"]
  /\ undefined' = (messagesQueue = <<>>)
  /\ UNCHANGED <<socket, messagesQueue, sendingInProgress, wire>>

(***************************************************************************)
(* The chain of asynchronous writes w and its completion handlers.         *)
(***************************************************************************)

WriteStep(w, from, to) ==
  /\ write[w] = from
  /\ write' = [write EXCEPT ![w] = to]

\* The header of a message with a body: the handler goes on with the body.
HeaderSent(w) ==
  /\ WriteStep(w, "header", "body")
  /\ socket = "open"
  /\ Head(messagesQueue) \notin EmptyBody
  /\ UNCHANGED <<socket, messagesQueue, sendingInProgress, call, wire, undefined>>

\* The write that completes a message: the peer has it before the handler runs.
MessageSent(w) ==
  /\ \/ WriteStep(w, "body", "sent")
     \/ WriteStep(w, "header", "sentEmpty") /\ Head(messagesQueue) \in EmptyBody
  /\ socket = "open"
  /\ Len(wire) < WireBound
  /\ wire' = Append(wire, Head(messagesQueue))
  /\ UNCHANGED <<socket, messagesQueue, sendingInProgress, call, undefined>>

\* Mutants: the last message is removed instead of the first; none is.
PopLast(w) ==
  /\ \/ WriteStep(w, "sent", "popped")
     \/ WriteStep(w, "sentEmpty", "poppedEmpty")
  /\ messagesQueue' = SubSeq(messagesQueue, 1, Len(messagesQueue) - 1)
  /\ UNCHANGED <<socket, sendingInProgress, call, wire, undefined>>

PopNothing(w) ==
  /\ \/ WriteStep(w, "sent", "popped")
     \/ WriteStep(w, "sentEmpty", "poppedEmpty")
  /\ UNCHANGED <<socket, messagesQueue, sendingInProgress, call, wire, undefined>>

Pop(w) ==
  /\ \/ WriteStep(w, "sent", "popped")
     \/ WriteStep(w, "sentEmpty", "poppedEmpty")
  /\ messagesQueue' = IF messagesQueue = <<>> THEN <<>> ELSE Tail(messagesQueue)
  /\ undefined' = \/ messagesQueue = <<>>
                  \/ \E v \in Write \ {w} : write[v] \in {"header", "body"}
  /\ UNCHANGED <<socket, sendingInProgress, call, wire>>

\* empty() was false: the chain goes on with the new front of the queue.
WriteNext(w) ==
  /\ messagesQueue # <<>>
  /\ \/ WriteStep(w, "popped", "header")
     \/ WriteStep(w, "poppedEmpty", "header")
  /\ UNCHANGED <<socket, messagesQueue, sendingInProgress, call, wire, undefined>>

\* empty() was true: the chain ends.  Only postWriteMessageBody goes on to
\* reset the flag; postWriteMessageHeader does not.
QueueDrained(w) ==
  /\ messagesQueue = <<>>
  /\ \/ WriteStep(w, "popped", "clearing")
     \/ WriteStep(w, "poppedEmpty", "idle")
  /\ UNCHANGED <<socket, messagesQueue, sendingInProgress, call, wire, undefined>>

\* Mutant: the flag stays set.
ClearSendingForgotten(w) ==
  /\ WriteStep(w, "clearing", "idle")
  /\ UNCHANGED <<socket, messagesQueue, sendingInProgress, call, wire, undefined>>

ClearSending(w) ==
  /\ WriteStep(w, "clearing", "idle")
  /\ sendingInProgress' = FALSE
  /\ UNCHANGED <<socket, messagesQueue, call, wire, undefined>>

WriteFails(w) ==
  /\ \/ WriteStep(w, "header", "failed")
     \/ WriteStep(w, "body", "failed")
  /\ UNCHANGED <<socket, messagesQueue, sendingInProgress, call, wire, undefined>>

DisconnectAfterFailure(w) ==
  /\ WriteStep(w, "failed", "clearing")
  /\ Close
  /\ UNCHANGED <<messagesQueue, sendingInProgress, call, wire, undefined>>

\* The peer reads a complete message.
PeerTakes ==
  /\ wire # <<>>
  /\ wire' = Tail(wire)
  /\ UNCHANGED <<socket, messagesQueue, sendingInProgress, call, write, undefined>>

(***************************************************************************)
(* Three disciplines of the callers.  Any thread may call sendMessage at   *)
(* any time; calls do not overlap; a call begins only when, besides, the   *)
(* previous chain of writes has run to its end.                            *)
(***************************************************************************)

NoCall  == \A t \in Thread : call[t] = "idle"
NoWrite == \A w \in Write : write[w] = "idle"

CallerStep(t) == CheckOpen(t) \/ CheckSending(t) \/ SetSending(t) \/ StartWriting(t)

WriterStep(w) ==
  \/ HeaderSent(w) \/ MessageSent(w) \/ Pop(w) \/ WriteNext(w) \/ QueueDrained(w)
  \/ ClearSending(w) \/ WriteFails(w) \/ DisconnectAfterFailure(w)

Internal ==
  \/ \E t \in Thread : CallerStep(t)
  \/ \E w \in Write : WriterStep(w)
  \/ Connect \/ Disconnect \/ PeerTakes

\* Base::connectToWatchdog connects before anything is sent.
Send == socket # "new" /\ \E t \in Thread, m \in Message : SendMessage(t, m)

FreeNext   == ~undefined /\ (Internal \/ Send)
SerialNext == ~undefined /\ (Internal \/ (NoCall /\ Send))
SpacedNext == ~undefined /\ (Internal \/ (NoCall /\ NoWrite /\ Send))

FreeSpec   == Init /\ [][FreeNext]_vars
SerialSpec == Init /\ [][SerialNext]_vars
SpacedSpec == Init /\ [][SpacedNext]_vars

\* Handlers that are ready to run are run, and a write on an open socket, or
\* one cut off by the closing of the socket, completes.  The peer reads what
\* it is sent.  Nothing obliges a caller to send or the network to fail.
Progress(w) == WriterStep(w) /\ (WriteFails(w) => socket = "closed")

Fairness ==
  /\ \A t \in Thread : WF_vars(~undefined /\ CallerStep(t))
  /\ \A w \in Write : WF_vars(~undefined /\ Progress(w))
  /\ WF_vars(~undefined /\ PeerTakes)

FairSerialSpec == SerialSpec /\ Fairness
FairSpacedSpec == SpacedSpec /\ Fairness

(***************************************************************************)
(* Properties.                                                             *)
(***************************************************************************)

\* At most one chain of writes is active: what sendingInProgress is there to
\* ensure.  Two chains would interleave the bytes of two messages on the
\* socket and pop an element the other still refers to.
SingleWrite ==
  \A v, w \in Write : write[v] # "idle" /\ write[w] # "idle" => v = w

\* front() and pop() are never executed on an empty queue, and no element is
\* popped while another write refers to it.
NeverUndefined == ~undefined

\* When no call and no write is in progress and the socket is open, no message
\* is left in the queue: nothing would send it.
NothingStranded == NoCall /\ NoWrite /\ socket = "open" => messagesQueue = <<>>

\* The flag is true only while a chain of writes is active or about to start.
\* A flag left true keeps every later message in the queue.
FlagIsReset == sendingInProgress =>
  (\E t \in Thread : call[t] = "starting") \/ ~NoWrite

\* What is transmitted is transmitted in order, once and whole: the queue
\* without the message that is on the wire but not popped yet, and the wire,
\* behave as a FIFO channel.
Unsent ==
  IF \E w \in Write : write[w] \in {"sent", "sentEmpty"}
  THEN Tail(messagesQueue) ELSE messagesQueue

Fifo == INSTANCE Channel WITH pending <- Unsent
ImplementsChannel == Fifo!Spec

\* A message accepted on a connection is sent, unless the connection is closed.
EveryMessageSent ==
  messagesQueue # <<>> ~> (messagesQueue = <<>> \/ socket # "open")

\* A message stranded in the queue goes out with the next one: a call that finds no
\* chain of writes active, the flag reset and its message or others in the queue
\* gets the queue moving.
NextCallUnstrands ==
  (/\ NoWrite /\ ~sendingInProgress /\ messagesQueue # <<>>
   /\ \E t \in Thread : call[t] = "pushed") ~>
    (socket # "open" \/ \E w \in Write : write[w] \in {"popped", "poppedEmpty"})
=============================================================================
