------------------------- MODULE ContextWorkerProofs -------------------------
(***************************************************************************)
(* Proofs about ContextWorker, for any number of threads and modules and   *)
(* whatever the task registers.                                            *)
(***************************************************************************)
EXTENDS ContextWorker, SequenceTheorems, TLAPS

(***************************************************************************)
(* Type correctness, and with it the sender of a message.  What a thread   *)
(* appends to the subscribers is a module only because its copy of the     *)
(* message is of a datagram, and the copies of message and endpoint are of *)
(* the same datagram only because nothing is received between them.        *)
(***************************************************************************)
Copying == {"received", "copied", "ready"}

\* The shared buffer has one user: a started receive, or one handler that copies.
OneBufferUser ==
  \A t \in Worker : worker[t] \in Copying =>
    /\ receive = "none"
    /\ \A u \in Worker \ {t} : worker[u] \notin Copying

Buffered == \E d \in Datagram : d.message = messageBuffer /\ d.endpoint = remoteEndpoint

BufferFilled ==
  /\ receive = "completed" => Buffered
  /\ \A t \in Worker :
       /\ worker[t] \in {"received", "copied"} => Buffered
       /\ worker[t] = "copied" => message[t] = messageBuffer

BufferInv == OneBufferUser /\ BufferFilled /\ SenderMatches

(***************************************************************************)
(* Identifiers.  A new one is free only because those given so far are the *)
(* first numbers, in order.                                                *)
(***************************************************************************)
Numbered(events) == \A i \in DOMAIN events : events[i].id = i - 1

IdentifiersInv == Numbered(messageEvents) /\ Numbered(subscriptionEvents)

TypeInv == TypeOK /\ BufferInv /\ IdentifiersInv

\* The initial state satisfies the invariants.
LEMMA InitTypeInv == Init => TypeInv
<1> SUFFICES ASSUME Init PROVE TypeInv
  OBVIOUS
<1>1. TypeOK
  <2>1. /\ messageEvents \in Seq(MessageEvent)
        /\ subscriptionEvents \in Seq(Subscription)
        /\ serviceRequests \in [Worker -> Seq(Module)]
    BY EmptySeq DEF Init
  <2>2. 0 \in 0 .. Len(Registration)
    BY ConstantsAssumption, LenProperties
  <2> QED
    BY <2>1, <2>2 DEF Init, TypeOK, WorkerLabel, MainLabel
<1>2. BufferInv
  BY DEF Init, BufferInv, OneBufferUser, BufferFilled, SenderMatches, Copying
<1>3. IdentifiersInv
  BY DEF Init, IdentifiersInv, Numbered
<1> QED
  BY <1>1, <1>2, <1>3 DEF TypeInv

\* The new identifier of a cache is the number of its events.
LEMMA NewEventIDIsLen ==
  ASSUME NEW S, NEW events \in Seq(S), Numbered(events)
  PROVE  NewEventID(events) = Len(events)
<1> DEFINE Free(n) == /\ n = Len(events) \/ events[n + 1].id # n
                      /\ \A k \in 0 .. n - 1 : events[k + 1].id = k
<1>1. PICK length \in Nat : length = Len(events) /\ DOMAIN events = 1 .. length
  BY LenProperties
<1>2. \A n \in 0 .. length : n # length => events[n + 1].id = n
  <2> SUFFICES ASSUME NEW n \in 0 .. length, n # length PROVE events[n + 1].id = n
    OBVIOUS
  <2>1. n + 1 \in 1 .. length
    OBVIOUS
  <2> QED
    BY <1>1, <2>1 DEF Numbered
<1>3. Free(length)
  BY <1>1, <1>2
<1>4. ASSUME NEW n \in 0 .. length, Free(n) PROVE n = length
  BY <1>1, <1>2, <1>4
<1>5. NewEventID(events) = CHOOSE n \in 0 .. length : Free(n)
  BY <1>1 DEF NewEventID
<1> HIDE DEF Free
<1>6. NewEventID(events) \in 0 .. length /\ Free(NewEventID(events))
  BY <1>3, <1>5
<1> QED
  BY <1>1, <1>4, <1>6

\* An event added with the new identifier keeps the numbering.
LEMMA NumberedAppend ==
  ASSUME NEW S, NEW events \in Seq(S), NEW e, Numbered(events), e.id = Len(events)
  PROVE  Numbered(Append(events, e))
<1>1. events \in Seq(S \union {e})
  BY SeqMonotonic
<1> QED
  BY <1>1, AppendProperties, LenProperties DEF Numbered

\* A thread that handles a message has a copy of a message.
LEMMA HandledIsMessage ==
  ASSUME SenderMatches, NEW t \in Worker, worker[t] \notin {"idle", "received", "copied", "ended"}
  PROVE  message[t] \in Message
BY ConstantsAssumption DEF SenderMatches

\* What is received is a datagram.
LEMMA ArriveTypes ==
  ASSUME TypeOK, NEW d \in Datagram, Arrive(d)
  PROVE  TypeOK'
BY ConstantsAssumption DEF TypeOK, Arrive, localVars, triggerVars, cacheVars, mainVars

\* The locals of a handler, once released, have the types of nothing received.
LEMMA ForgetTypes ==
  ASSUME TypeOK, NEW t \in Worker, Forget(t)
  PROVE  /\ message' \in [Worker -> Message \union {None}]
         /\ sender' \in [Worker -> Module \union {None}]
         /\ position' \in [Worker -> Nat]
         /\ serviceRequests' \in [Worker -> Seq(Module)]
BY EmptySeq DEF TypeOK, Forget

\* What a subscription adds to an event leaves it one.
LEMMA WithSubscriberType ==
  ASSUME NEW e \in Subscription,
         NEW m \in Module, NEW type
  PROVE  WithSubscriber(e, m, type) \in Subscription
BY AppendProperties DEF WithSubscriber, Subscription

\* The notifications an event asks for go to modules.
LEMMA RequestsType ==
  ASSUME NEW e \in Subscription,
         NEW type
  PROVE  Requests(e, type) \in Seq(Module)
BY EmptySeq DEF Requests, Subscription

\* A step of a handler keeps the types.
LEMMA HandlerStepTypes ==
  ASSUME TypeInv, NEW t \in Worker, HandlerStep(t)
  PROVE  TypeOK'
<1> USE DEF TypeInv, TypeOK, BufferInv, WorkerStep, WorkerLabel, receiveVars, localVars,
     triggerVars, cacheVars, mainVars
<1>1. CASE CopyMessage(t) \/ CopySender(t) \/ StartRead(t)
  BY <1>1 DEF CopyMessage, CopySender, StartRead
<1>2. CASE Parse(t)
  BY <1>2 DEF Parse
<1>3. CASE Drop(t) \/ Notified(t)
  BY <1>3, ForgetTypes DEF Drop, Notified
<1>4. CASE LockMessageEvents(t) \/ TriggerMessageHandlers(t) \/ Reply(t)
           \/ LockSubscriptionEvents(t) \/ UnlockSubscriptionEvents(t)
  BY <1>4 DEF LockMessageEvents, TriggerMessageHandlers, Reply, LockSubscriptionEvents,
     UnlockSubscriptionEvents
<1>5. CASE TriggerSubscription(t)
  <2>1. subscriptionEvents[position[t] + 1] \in Subscription
    BY <1>5, LenProperties, ElementOfSeq DEF TriggerSubscription
  <2>2. Requests(subscriptionEvents[position[t] + 1], message[t].type) \in Seq(Module)
    BY <2>1, RequestsType
  <2>3. serviceRequests' \in [Worker -> Seq(Module)]
    BY <1>5, <2>2, ConcatProperties DEF TriggerSubscription
  <2> QED
    BY <1>5, <2>3 DEF TriggerSubscription
<1>6. CASE Notify(t)
  BY <1>6, HeadTailProperties DEF Notify
<1>7. CASE AddSubscriber(t)
  <2>1. message[t] \in Message
    BY <1>7, HandledIsMessage DEF AddSubscriber
  <2>2. \A i \in DOMAIN subscriptionEvents :
          WithSubscriber(subscriptionEvents[i], message[t].sender, message[t].type) \in Subscription
    BY <2>1, WithSubscriberType, ElementOfSeq DEF Message
  <2>3. /\ DOMAIN subscriptionEvents = 1 .. Len(subscriptionEvents)
        /\ Len(subscriptionEvents) \in Nat
    BY LenProperties
  <2>4. subscriptionEvents' \in [1 .. Len(subscriptionEvents) -> Subscription]
    BY <1>7, <2>2, <2>3 DEF AddSubscriber
  <2>5. subscriptionEvents' \in UNION {[1 .. n -> Subscription] : n \in Nat}
    BY <2>3, <2>4
  <2>6. subscriptionEvents' \in Seq(Subscription)
    BY <2>5, SeqDef
  <2> QED
    BY <1>7, <2>6, ForgetTypes DEF AddSubscriber
<1> QED
  BY <1>1, <1>2, <1>3, <1>4, <1>5, <1>6, <1>7 DEF HandlerStep

\* What is received, the begin of its handler and the end of a thread keep the shared
\* buffer with one user, and the copies of a handler those of one datagram.
LEMMA ReceiveSteps ==
  ASSUME TypeInv,
         \/ \E d \in Datagram : Arrive(d)
         \/ ReceiveFails
         \/ \E t \in Worker : Dispatch(t) \/ EndThread(t)
  PROVE  TypeOK' /\ BufferInv'
<1> USE DEF TypeInv, BufferInv, OneBufferUser, BufferFilled, Buffered, SenderMatches, Copying
<1>1. ASSUME NEW d \in Datagram, Arrive(d) PROVE TypeOK' /\ BufferInv'
  <2>1. TypeOK'
    BY <1>1, ArriveTypes
  <2>2. UNCHANGED <<worker, message, sender>>
    BY <1>1 DEF Arrive, localVars
  <2>3. d.message = messageBuffer' /\ d.endpoint = remoteEndpoint'
    BY <1>1 DEF Arrive
  <2>4. \A t \in Worker : worker[t] \notin Copying
    BY <1>1 DEF Arrive
  <2> QED
    BY <2>1, <2>2, <2>3, <2>4
<1>2. CASE ReceiveFails
  BY <1>2 DEF ReceiveFails, TypeOK, localVars, triggerVars, cacheVars, mainVars
<1>3. ASSUME NEW t \in Worker, Dispatch(t) PROVE TypeOK' /\ BufferInv'
  <2>1. TypeOK'
    BY <1>3 DEF Dispatch, WorkerStep, WorkerLabel, TypeOK, localVars, triggerVars,
       cacheVars, mainVars
  <2>2. /\ receive' = "none"
        /\ UNCHANGED <<messageBuffer, remoteEndpoint, message, sender>>
        /\ \A u \in Worker : u # t => worker'[u] = worker[u]
        /\ worker'[t] = "received" => receive = "completed"
        /\ worker'[t] \in {"idle", "received"}
    BY <1>3 DEF Dispatch, WorkerStep, localVars, TypeOK
  <2>3. \A u \in Worker : worker[u] \notin Copying
    BY <1>3 DEF Dispatch
  <2> QED
    BY <2>1, <2>2, <2>3
<1>4. ASSUME NEW t \in Worker, EndThread(t) PROVE TypeOK' /\ BufferInv'
  <2>1. TypeOK'
    BY <1>4 DEF EndThread, WorkerStep, WorkerLabel, TypeOK, receiveVars, localVars,
       triggerVars, cacheVars, mainVars
  <2>2. /\ UNCHANGED <<receive, messageBuffer, remoteEndpoint, message, sender>>
        /\ \A u \in Worker : u # t => worker'[u] = worker[u]
        /\ worker'[t] = "ended"
    BY <1>4 DEF EndThread, WorkerStep, receiveVars, localVars, TypeOK
  <2> QED
    BY <2>1, <2>2
<1> QED
  BY <1>1, <1>2, <1>3, <1>4

\* Past the copies, the locals of the handler stay as they are until it returns, and
\* nothing touches the shared buffer.
LEMMA HandlerLocals ==
  ASSUME TypeOK, NEW t \in Worker, HandlerStep(t),
         ~CopyMessage(t), ~CopySender(t), ~StartRead(t)
  PROVE  /\ UNCHANGED receiveVars
         /\ worker[t] \notin {"idle", "received", "copied", "ready", "ended"}
         /\ worker'[t] \notin {"received", "copied", "ready"}
         /\ \A u \in Worker : u # t =>
              /\ worker'[u] = worker[u]
              /\ message'[u] = message[u]
              /\ sender'[u] = sender[u]
         /\ \/ worker'[t] = "idle"
            \/ message'[t] = message[t] /\ sender'[t] = sender[t]
<1> USE DEF TypeOK, WorkerStep, receiveVars, localVars
<1>1. CASE Parse(t)
  BY <1>1 DEF Parse
<1>2. CASE Drop(t) \/ Notified(t) \/ AddSubscriber(t)
  BY <1>2 DEF Drop, Notified, AddSubscriber, Forget
<1>3. CASE LockMessageEvents(t) \/ TriggerMessageHandlers(t) \/ Reply(t)
           \/ LockSubscriptionEvents(t) \/ UnlockSubscriptionEvents(t)
  BY <1>3 DEF LockMessageEvents, TriggerMessageHandlers, Reply, LockSubscriptionEvents,
     UnlockSubscriptionEvents
<1>4. CASE TriggerSubscription(t) \/ Notify(t)
  BY <1>4 DEF TriggerSubscription, Notify
<1> QED
  BY <1>1, <1>2, <1>3, <1>4 DEF HandlerStep

\* A step of a handler preserves the invariants of the buffer.
LEMMA HandlerStepBuffer ==
  ASSUME TypeInv, NEW t \in Worker, HandlerStep(t)
  PROVE  BufferInv'
<1> USE DEF TypeInv, BufferInv, OneBufferUser, BufferFilled, Buffered, SenderMatches,
     Copying, receiveVars
<1>1. CASE CopyMessage(t)
  <2>1. /\ UNCHANGED <<receive, messageBuffer, remoteEndpoint, sender>>
        /\ worker[t] = "received" /\ worker'[t] = "copied"
        /\ message'[t] = messageBuffer
        /\ \A u \in Worker : u # t => worker'[u] = worker[u] /\ message'[u] = message[u]
    BY <1>1 DEF CopyMessage, WorkerStep, TypeOK
  <2> QED
    BY <2>1
<1>2. CASE CopySender(t)
  <2>1. /\ UNCHANGED <<receive, messageBuffer, remoteEndpoint, message>>
        /\ worker[t] = "copied" /\ worker'[t] = "ready"
        /\ sender'[t] = remoteEndpoint
        /\ \A u \in Worker : u # t => worker'[u] = worker[u] /\ sender'[u] = sender[u]
    BY <1>2 DEF CopySender, WorkerStep, TypeOK
  <2> QED
    BY <2>1
<1>3. CASE StartRead(t)
  <2>1. /\ UNCHANGED <<messageBuffer, remoteEndpoint, message, sender>>
        /\ worker[t] = "ready" /\ worker'[t] = "parse"
        /\ receive' = "pending"
        /\ \A u \in Worker : u # t => worker'[u] = worker[u]
    BY <1>3 DEF StartRead, WorkerStep, TypeOK, localVars
  <2> QED
    BY <2>1
<1>4. CASE ~CopyMessage(t) /\ ~CopySender(t) /\ ~StartRead(t)
  BY <1>4, HandlerLocals
<1> QED
  BY <1>1, <1>2, <1>3, <1>4

\* The main thread registers events and leaves the workers alone.
LEMMA MainStepTypes ==
  ASSUME TypeInv, MainNext
  PROVE  TypeOK' /\ BufferInv'
<1> USE DEF TypeInv, TypeOK, MainStep, MainLabel, receiveVars, localVars, triggerVars,
     cacheVars
<1>1. UNCHANGED <<receive, messageBuffer, remoteEndpoint, worker, message, sender>>
  BY DEF MainNext, StartUpFails, InitializeEventManager, RegisterEventHandler,
     RegisterSubscriptionHandler, TaskReturns, StopIoContext, Join
<1>2. BufferInv'
  BY <1>1 DEF BufferInv, OneBufferUser, BufferFilled, Buffered, SenderMatches, Copying
<1>3. ASSUME NEW cache, RegisterNext(cache)
      PROVE  /\ registered' \in 0 .. Len(Registration)
             /\ Registration[registered + 1] \in Handler
  BY <1>3, ConstantsAssumption, LenProperties, ElementOfSeq DEF RegisterNext
<1>4. /\ NewEventID(messageEvents) \in Nat
      /\ NewEventID(subscriptionEvents) \in Nat
  BY NewEventIDIsLen, LenProperties DEF IdentifiersInv
<1>5. TypeOK'
  <2>1. CASE RegisterEventHandler
    BY <2>1, <1>3, <1>4, AppendProperties DEF RegisterEventHandler, Handler, MessageEvent
  <2>2. CASE RegisterSubscriptionHandler
    BY <2>2, <1>3, <1>4, AppendProperties, EmptySeq
       DEF RegisterSubscriptionHandler, Handler, Subscription
  <2>3. CASE ~RegisterEventHandler /\ ~RegisterSubscriptionHandler
    BY <2>3 DEF MainNext, StartUpFails, InitializeEventManager, TaskReturns,
       StopIoContext, Join
  <2> QED
    BY <2>1, <2>2, <2>3
<1> QED
  BY <1>2, <1>5

\* The caches change by a registration or by a subscription only.
LEMMA CachesChange ==
  ASSUME [Next]_vars
  PROVE  \/ UNCHANGED cacheVars
         \/ RegisterEventHandler \/ RegisterSubscriptionHandler
         \/ \E t \in Worker : AddSubscriber(t)
<1> USE DEF cacheVars
<1>1. ASSUME NEW t \in Worker, HandlerStep(t) PROVE UNCHANGED cacheVars \/ AddSubscriber(t)
  BY <1>1 DEF HandlerStep, CopyMessage, CopySender, StartRead, Parse, Drop,
     LockMessageEvents, TriggerMessageHandlers, Reply, LockSubscriptionEvents,
     TriggerSubscription, UnlockSubscriptionEvents, Notify, Notified
<1>2. CASE MainNext
  BY <1>2 DEF MainNext, StartUpFails, InitializeEventManager, TaskReturns, StopIoContext,
     Join
<1>3. CASE UNCHANGED vars
  BY <1>3 DEF vars
<1> QED
  BY <1>1, <1>2, <1>3 DEF Next, Arrive, ReceiveFails, Dispatch, EndThread, Throws,
     HandlerThrows, LookUpThrows

\* Every step keeps the identifiers the first numbers, in order.
LEMMA IdentifiersStep == TypeInv /\ [Next]_vars => IdentifiersInv'
<1> SUFFICES ASSUME TypeInv, [Next]_vars PROVE IdentifiersInv'
  OBVIOUS
<1> USE DEF TypeInv, TypeOK, IdentifiersInv
<1>1. CASE UNCHANGED cacheVars
  BY <1>1 DEF cacheVars, Numbered
<1>2. CASE RegisterEventHandler
  <2>1. Numbered(messageEvents')
    BY <1>2, NewEventIDIsLen, NumberedAppend DEF RegisterEventHandler
  <2> QED
    BY <1>2, <2>1 DEF RegisterEventHandler, Numbered
<1>3. CASE RegisterSubscriptionHandler
  <2>1. Numbered(subscriptionEvents')
    BY <1>3, NewEventIDIsLen, NumberedAppend DEF RegisterSubscriptionHandler
  <2> QED
    BY <1>3, <2>1 DEF RegisterSubscriptionHandler, Numbered
<1>4. ASSUME NEW t \in Worker, AddSubscriber(t) PROVE IdentifiersInv'
  <2>1. \A m, type : \A e \in Subscription : WithSubscriber(e, m, type).id = e.id
    BY DEF WithSubscriber, Subscription
  <2>2. \A i \in DOMAIN subscriptionEvents : subscriptionEvents[i] \in Subscription
    BY LenProperties, ElementOfSeq
  <2>3. /\ DOMAIN subscriptionEvents' = DOMAIN subscriptionEvents
        /\ \A i \in DOMAIN subscriptionEvents :
             subscriptionEvents'[i].id = subscriptionEvents[i].id
    BY <1>4, <2>1, <2>2 DEF AddSubscriber
  <2> QED
    BY <1>4, <2>3 DEF AddSubscriber, Numbered
<1> QED
  BY <1>1, <1>2, <1>3, <1>4, CachesChange

\* Every step preserves the invariants.
LEMMA TypeInvStep == TypeInv /\ [Next]_vars => TypeInv'
<1> SUFFICES ASSUME TypeInv, [Next]_vars PROVE TypeInv'
  OBVIOUS
<1>1. TypeOK' /\ BufferInv'
  <2>1. CASE UNCHANGED vars
    BY <2>1 DEF vars, receiveVars, localVars, triggerVars, cacheVars, mainVars, TypeInv,
       TypeOK, BufferInv, OneBufferUser, BufferFilled, Buffered, SenderMatches, Copying
  <2>2. ASSUME NEW t \in Worker, Throws(t) PROVE TypeOK' /\ BufferInv'
    BY <2>2 DEF Throws, HandlerThrows, LookUpThrows, receiveVars, localVars, triggerVars,
       cacheVars, mainVars, TypeInv, TypeOK, BufferInv, OneBufferUser, BufferFilled, Buffered, SenderMatches, Copying
  <2> QED
    BY <2>1, <2>2, ReceiveSteps, HandlerStepTypes, HandlerStepBuffer, MainStepTypes
       DEF Next
<1> QED
  BY <1>1, IdentifiersStep DEF TypeInv

\* What happens elsewhere, the first receive before anything is received included,
\* touches nothing here.
LEMMA OthersKeepTypeInv ==
  ASSUME TypeInv,
         UNCHANGED <<messageBuffer, remoteEndpoint, worker, localVars, triggerVars, cacheVars,
                     mainVars>>,
         terminated' \in BOOLEAN,
         \/ receive' = receive
         \/ receive' \in {"none", "pending"} /\ \A t \in Worker : worker[t] = "idle"
  PROVE  TypeInv'
<1> USE DEF TypeInv, localVars, triggerVars, cacheVars, mainVars
<1>1. TypeOK'
  BY DEF TypeOK
<1>2. BufferInv'
  BY DEF BufferInv, OneBufferUser, BufferFilled, Buffered, SenderMatches, Copying
<1>3. IdentifiersInv'
  BY DEF IdentifiersInv, Numbered
<1> QED
  BY <1>1, <1>2, <1>3

\* The invariants hold in every reachable state.
LEMMA TypeInvHolds == Spec => []TypeInv
BY InitTypeInv, TypeInvStep, PTL DEF Spec

\* What the invariants say in the terms of the model.
LEMMA TypeInvIsSafe == TypeInv => TypeOK /\ SenderMatches /\ IdentifiersDiffer
<1>1. TypeInv => TypeOK /\ SenderMatches
  BY DEF TypeInv, BufferInv
<1>2. TypeInv => IdentifiersDiffer
  BY LenProperties DEF TypeInv, TypeOK, IdentifiersInv, Numbered, IdentifiersDiffer
<1> QED
  BY <1>1, <1>2

\* ContextWorker is type-correct for any number of threads.
THEOREM TypeCorrect == Spec => []TypeOK
BY TypeInvIsSafe, TypeInvHolds, PTL

\* Whatever the threads do, a message is handled under the endpoint it came from.
THEOREM SendersMatch == Spec => []SenderMatches
BY TypeInvIsSafe, TypeInvHolds, PTL

\* Whatever is registered, while datagrams are handled or not, no two events of a
\* cache get the same identifier.
THEOREM IdentifiersAreDistinct == Spec => []IdentifiersDiffer
BY TypeInvIsSafe, TypeInvHolds, PTL
=============================================================================
