---------------------------- MODULE ContextWorker ----------------------------
(***************************************************************************)
(* The server of the modules: Service::ContextWorker receives datagrams,   *)
(* runs the message handlers of the task and notifies subscribers, on all  *)
(* threads of the io_context at once (ServiceContextWorker.cpp); the two   *)
(* caches of handlers it consults (ServiceMessageEventsCache.cpp,          *)
(* ServiceSubscriptionEventsCache.cpp); and the main thread, which fills   *)
(* the caches through EventManager while datagrams are already handled,    *)
(* and stops the threads when it leaves (ServiceBase.cpp, EventManager.cpp).*)
(*                                                                         *)
(* There is one buffer and one endpoint for the datagram being received,   *)
(* and one receive operation at a time; each handler copies them before it *)
(* starts the next receive.  A lock held shared lasts from one step to     *)
(* another, and is read off the label of its holder; a lock held exclusive *)
(* is taken and released within one step.                                  *)
(***************************************************************************)
EXTENDS Naturals, SequencesExt

CONSTANTS
  Worker,          \* threads of the io_context
  Module,          \* modules: an identifier and the endpoint it sends from
  Type,            \* names of message types
  SuffixOf,        \* <<s, t>>: the name s is a suffix of the name t
  Registration,    \* what the task registers, in its order
  Datagram,        \* datagrams that may arrive
  None,            \* nothing received yet
  SubscriberBound  \* bound of the model on the subscribers of an event

\* What a datagram says: a request or a subscription for a type, or something the
\* handler drops, unparsable datagrams included.
Message == [sender : Module, kind : {"request", "subscription", "other"}, type : Type]

\* Event.hpp: what the caches hold.
MessageEvent == [id : Nat, type : Type, responds : BOOLEAN]
Subscription == [id : Nat, type : Type, responds : BOOLEAN, subscribers : Seq(Module)]

Handler == [cache : {"message", "subscription"}, type : Type, responds : BOOLEAN]

ASSUME ConstantsAssumption ==
  /\ {<<t, t>> : t \in Type} \subseteq SuffixOf
  /\ Registration \in Seq(Handler)
  /\ Datagram \subseteq [endpoint : Module, message : Message]
  /\ None \notin Module \union Message
  /\ SubscriberBound \in Nat

VARIABLES
  receive,             \* "none", "pending", "completed" or "failed", handler to run
  messageBuffer, remoteEndpoint,
  worker,              \* what each thread is doing
  message, sender,     \* its local copies
  position,            \* subscription events it has looked at
  serviceRequests,     \* the modules it has to notify
  messageEvents, subscriptionEvents,
  main,                \* where the main thread is
  registered,          \* how many handlers it has registered
  stopped,             \* the io_context is stopped
  terminated           \* an exception left io_context::run

receiveVars == <<receive, messageBuffer, remoteEndpoint>>
localVars   == <<message, sender>>
triggerVars == <<position, serviceRequests>>
cacheVars   == <<messageEvents, subscriptionEvents>>
mainVars    == <<main, registered, stopped>>

vars == <<receiveVars, worker, localVars, triggerVars, cacheVars, mainVars, terminated>>

WorkerLabel ==
  {"idle", "received", "copied", "ready", "parse", "request", "messages", "reply",
   "triggered", "subscriptions", "notify", "subscribe", "ended"}

MainLabel == {"starting", "registering", "running", "leaving", "joining", "left"}

TypeOK ==
  /\ receive \in {"none", "pending", "completed", "failed"}
  /\ messageBuffer \in Message \union {None}
  /\ remoteEndpoint \in Module \union {None}
  /\ worker \in [Worker -> WorkerLabel]
  /\ message \in [Worker -> Message \union {None}]
  /\ sender \in [Worker -> Module \union {None}]
  /\ position \in [Worker -> Nat]
  /\ serviceRequests \in [Worker -> Seq(Module)]
  /\ messageEvents \in Seq(MessageEvent)
  /\ subscriptionEvents \in Seq(Subscription)
  /\ main \in MainLabel
  /\ registered \in 0 .. Len(Registration)
  /\ stopped \in BOOLEAN
  /\ terminated \in BOOLEAN

\* After readAll and joinAll.  A socket that could not be bound receives nothing:
\* the exception is swallowed by the constructor.
Init ==
  /\ receive \in {"none", "pending"}
  /\ messageBuffer = None
  /\ remoteEndpoint = None
  /\ worker = [t \in Worker |-> "idle"]
  /\ message = [t \in Worker |-> None]
  /\ sender = [t \in Worker |-> None]
  /\ position = [t \in Worker |-> 0]
  /\ serviceRequests = [t \in Worker |-> <<>>]
  /\ messageEvents = <<>>
  /\ subscriptionEvents = <<>>
  /\ main = "starting"
  /\ registered = 0
  /\ stopped = FALSE
  /\ terminated = FALSE

WorkerStep(t, from, to) ==
  /\ worker[t] = from
  /\ worker' = [worker EXCEPT ![t] = to]

(***************************************************************************)
(* Receiving.                                                              *)
(***************************************************************************)

\* The bound: no subscription arrives once an event has enough subscribers.
Arrive(d) ==
  /\ receive = "pending"
  /\ \/ d.message.kind # "subscription"
     \/ \A i \in DOMAIN subscriptionEvents :
          Len(subscriptionEvents[i].subscribers) < SubscriberBound
  /\ receive' = "completed"
  /\ messageBuffer' = d.message
  /\ remoteEndpoint' = d.endpoint
  /\ UNCHANGED <<worker, localVars, triggerVars, cacheVars, mainVars, terminated>>

ReceiveFails ==
  /\ receive = "pending"
  /\ receive' = "failed"
  /\ UNCHANGED <<messageBuffer, remoteEndpoint, worker, localVars, triggerVars, cacheVars,
                 mainVars, terminated>>

\* Thread t runs the completion handler.  handleReadError does nothing.
Dispatch(t) ==
  /\ ~stopped
  /\ receive \in {"completed", "failed"}
  /\ WorkerStep(t, "idle", IF receive = "completed" THEN "received" ELSE "idle")
  /\ receive' = "none"
  /\ UNCHANGED <<messageBuffer, remoteEndpoint, localVars, triggerVars, cacheVars, mainVars,
                 terminated>>

\* Mutant: the next receive is started after the message is copied and before the
\* endpoint is.
CopyMessageAndRead(t) ==
  /\ WorkerStep(t, "received", "copied")
  /\ message' = [message EXCEPT ![t] = messageBuffer]
  /\ receive' = "pending"
  /\ UNCHANGED <<messageBuffer, remoteEndpoint, sender, triggerVars, cacheVars, mainVars,
                 terminated>>

CopyMessage(t) ==
  /\ WorkerStep(t, "received", "copied")
  /\ message' = [message EXCEPT ![t] = messageBuffer]
  /\ UNCHANGED <<receiveVars, sender, triggerVars, cacheVars, mainVars, terminated>>

CopySender(t) ==
  /\ WorkerStep(t, "copied", "ready")
  /\ sender' = [sender EXCEPT ![t] = remoteEndpoint]
  /\ UNCHANGED <<receiveVars, message, triggerVars, cacheVars, mainVars, terminated>>

\* Mutant: only a request starts the next receive.
StartReadAfterRequest(t) ==
  /\ WorkerStep(t, "ready", "parse")
  /\ receive' = IF message[t].kind = "request" THEN "pending" ELSE receive
  /\ UNCHANGED <<messageBuffer, remoteEndpoint, localVars, triggerVars, cacheVars, mainVars,
                 terminated>>

StartRead(t) ==
  /\ WorkerStep(t, "ready", "parse")
  /\ receive' = "pending"
  /\ UNCHANGED <<messageBuffer, remoteEndpoint, localVars, triggerVars, cacheVars, mainVars,
                 terminated>>

(***************************************************************************)
(* Handling the message.  When the handler returns its locals are gone.    *)
(***************************************************************************)

Forget(t) ==
  /\ message' = [message EXCEPT ![t] = None]
  /\ sender' = [sender EXCEPT ![t] = None]
  /\ position' = [position EXCEPT ![t] = 0]
  /\ serviceRequests' = [serviceRequests EXCEPT ![t] = <<>>]

Parse(t) ==
  /\ \/ WorkerStep(t, "parse", "request") /\ message[t].kind = "request"
     \/ WorkerStep(t, "parse", "subscribe") /\ message[t].kind = "subscription"
  /\ UNCHANGED <<receiveVars, localVars, triggerVars, cacheVars, mainVars, terminated>>

Drop(t) ==
  /\ WorkerStep(t, "parse", "idle")
  /\ message[t].kind = "other"
  /\ Forget(t)
  /\ UNCHANGED <<receiveVars, cacheVars, mainVars, terminated>>

Holding(label) == \E t \in Worker : worker[t] = label

\* MessageEventsCache::triggerMessageHandlers, under the shared lock.
LockMessageEvents(t) ==
  /\ WorkerStep(t, "request", "messages")
  /\ UNCHANGED <<receiveVars, localVars, triggerVars, cacheVars, mainVars, terminated>>

\* The handlers that validate the message have run; do they respond?
Responds(type) ==
  \E i \in DOMAIN messageEvents : messageEvents[i].type = type /\ messageEvents[i].responds

TriggerMessageHandlers(t) ==
  /\ WorkerStep(t, "messages", IF Responds(message[t].type) THEN "reply" ELSE "triggered")
  /\ UNCHANGED <<receiveVars, localVars, triggerVars, cacheVars, mainVars, terminated>>

\* The response is an Any and is copied into a Request: protobuf refuses to copy
\* from a message of another type, and the process ends.
Reply(t) ==
  /\ worker[t] = "reply"
  /\ terminated' = TRUE
  /\ UNCHANGED <<receiveVars, worker, localVars, triggerVars, cacheVars, mainVars>>

\* SubscriptionEventsCache::triggerMessageHandlers, event by event.
LockSubscriptionEvents(t) ==
  /\ WorkerStep(t, "triggered", "subscriptions")
  /\ UNCHANGED <<receiveVars, localVars, triggerVars, cacheVars, mainVars, terminated>>

\* What event e asks for when a message of the type comes: one notification for
\* each entry of its subscribers.  The type of the event has to be a suffix of the
\* type of the message.
Requests(e, type) ==
  IF <<e.type, type>> \in SuffixOf /\ e.responds THEN e.subscribers ELSE <<>>

TriggerSubscription(t) ==
  /\ worker[t] = "subscriptions"
  /\ position[t] < Len(subscriptionEvents)
  /\ position' = [position EXCEPT ![t] = @ + 1]
  /\ serviceRequests' = [serviceRequests EXCEPT ![t] =
       @ \o Requests(subscriptionEvents[position[t] + 1], message[t].type)]
  /\ UNCHANGED <<receiveVars, worker, localVars, cacheVars, mainVars, terminated>>

UnlockSubscriptionEvents(t) ==
  /\ position[t] = Len(subscriptionEvents)
  /\ WorkerStep(t, "subscriptions", "notify")
  /\ UNCHANGED <<receiveVars, localVars, triggerVars, cacheVars, mainVars, terminated>>

\* The notification is sent to the address the database has of the module.  It is
\* dropped if there is no record, or if the first field that is not as it should be
\* has another type.
Notify(t) ==
  /\ worker[t] = "notify"
  /\ serviceRequests[t] # <<>>
  /\ serviceRequests' = [serviceRequests EXCEPT ![t] = Tail(@)]
  /\ UNCHANGED <<receiveVars, worker, localVars, position, cacheVars, mainVars, terminated>>

Notified(t) ==
  /\ WorkerStep(t, "notify", "idle")
  /\ serviceRequests[t] = <<>>
  /\ Forget(t)
  /\ UNCHANGED <<receiveVars, cacheVars, mainVars, terminated>>

\* Two exceptions nothing catches: of a handler of the task; of the look-up of a
\* module, by the driver, by the first of the four fields of the record that is not
\* as it should be if it is absent, or by an address that is none.
HandlerThrows(t) ==
  /\ worker[t] \in {"messages", "subscriptions"}
  /\ terminated' = TRUE
  /\ UNCHANGED <<receiveVars, worker, localVars, triggerVars, cacheVars, mainVars>>

LookUpThrows(t) ==
  /\ worker[t] = "notify"
  /\ serviceRequests[t] # <<>>
  /\ terminated' = TRUE
  /\ UNCHANGED <<receiveVars, worker, localVars, triggerVars, cacheVars, mainVars>>

Throws(t) == HandlerThrows(t) \/ LookUpThrows(t)

\* The type has to be the type of the event; a module already in is added again.
WithSubscriber(e, m, type) ==
  IF e.type = type THEN [e EXCEPT !.subscribers = Append(@, m)] ELSE e

\* Mutants: the identifier is read after the message is released; the lock is taken
\* shared.
AddSubscriberReleased(t) ==
  /\ ~Holding("subscriptions")
  /\ WorkerStep(t, "subscribe", "idle")
  /\ Forget(t)
  /\ subscriptionEvents' = [i \in DOMAIN subscriptionEvents |->
       WithSubscriber(subscriptionEvents[i], sender'[t], message[t].type)]
  /\ UNCHANGED <<receiveVars, messageEvents, mainVars, terminated>>

AddSubscriberShared(t) ==
  /\ WorkerStep(t, "subscribe", "idle")
  /\ subscriptionEvents' = [i \in DOMAIN subscriptionEvents |->
       WithSubscriber(subscriptionEvents[i], message[t].sender, message[t].type)]
  /\ Forget(t)
  /\ UNCHANGED <<receiveVars, messageEvents, mainVars, terminated>>

AddSubscriber(t) ==
  /\ ~Holding("subscriptions")
  /\ WorkerStep(t, "subscribe", "idle")
  /\ subscriptionEvents' = [i \in DOMAIN subscriptionEvents |->
       WithSubscriber(subscriptionEvents[i], message[t].sender, message[t].type)]
  /\ Forget(t)
  /\ UNCHANGED <<receiveVars, messageEvents, mainVars, terminated>>

(***************************************************************************)
(* The main thread: EventManager and the end of main.                      *)
(***************************************************************************)

MainStep(from, to) ==
  /\ main = from
  /\ main' = to

\* The connection to the watchdog is refused or times out.
StartUpFails ==
  /\ MainStep("starting", "leaving")
  /\ UNCHANGED <<receiveVars, worker, localVars, triggerVars, cacheVars, registered, stopped,
                 terminated>>

InitializeEventManager ==
  /\ MainStep("starting", "registering")
  /\ UNCHANGED <<receiveVars, worker, localVars, triggerVars, cacheVars, registered, stopped,
                 terminated>>

\* Mutant: the search for a free identifier stops one short.
LastEventID(events) == IF events = <<>> THEN 0 ELSE Len(events) - 1

\* The first identifier that is not the one its position has.
NewEventID(events) ==
  CHOOSE n \in 0 .. Len(events) :
    /\ n = Len(events) \/ events[n + 1].id # n
    /\ \A k \in 0 .. n - 1 : events[k + 1].id = k

RegisterNext(cache) ==
  /\ main = "registering"
  /\ registered < Len(Registration)
  /\ Registration[registered + 1].cache = cache
  /\ registered' = registered + 1

RegisterEventHandler ==
  /\ RegisterNext("message")
  /\ ~Holding("messages")
  /\ messageEvents' = Append(messageEvents,
       [id       |-> NewEventID(messageEvents),
        type     |-> Registration[registered + 1].type,
        responds |-> Registration[registered + 1].responds])
  /\ UNCHANGED <<receiveVars, worker, localVars, triggerVars, subscriptionEvents, main,
                 stopped, terminated>>

RegisterSubscriptionHandler ==
  /\ RegisterNext("subscription")
  /\ ~Holding("subscriptions")
  /\ subscriptionEvents' = Append(subscriptionEvents,
       [id          |-> NewEventID(subscriptionEvents),
        type        |-> Registration[registered + 1].type,
        responds    |-> Registration[registered + 1].responds,
        subscribers |-> <<>>])
  /\ UNCHANGED <<receiveVars, worker, localVars, triggerVars, messageEvents, main,
                 stopped, terminated>>

\* The task returns: RUN_FOREVER makes the main thread join the io_context threads,
\* which nothing ever ends; with another code main returns.
TaskReturns ==
  /\ MainStep("registering", "running") \/ MainStep("registering", "leaving")
  /\ registered = Len(Registration)
  /\ UNCHANGED <<receiveVars, worker, localVars, triggerVars, cacheVars, registered, stopped,
                 terminated>>

\* Mutant: the threads are joined and the io_context is not stopped.
StopForgotten ==
  /\ MainStep("leaving", "joining")
  /\ UNCHANGED <<receiveVars, worker, localVars, triggerVars, cacheVars, registered, stopped,
                 terminated>>

\* ~Base.
StopIoContext ==
  /\ MainStep("leaving", "joining")
  /\ stopped' = TRUE
  /\ UNCHANGED <<receiveVars, worker, localVars, triggerVars, cacheVars, registered,
                 terminated>>

\* run() returns on thread t, which has finished its handler, once the io_context is
\* stopped: the work guard keeps it until then.
EndThread(t) ==
  /\ stopped
  /\ WorkerStep(t, "idle", "ended")
  /\ UNCHANGED <<receiveVars, localVars, triggerVars, cacheVars, mainVars, terminated>>

\* Mutant: one thread is joined.
JoinOne ==
  /\ MainStep("joining", "left")
  /\ \E t \in Worker : worker[t] = "ended"
  /\ UNCHANGED <<receiveVars, worker, localVars, triggerVars, cacheVars, registered, stopped,
                 terminated>>

\* The threads are joined one after the other: whatever the order, the last join returns
\* when all of them have ended.
Join ==
  /\ MainStep("joining", "left")
  /\ \A t \in Worker : worker[t] = "ended"
  /\ UNCHANGED <<receiveVars, worker, localVars, triggerVars, cacheVars, registered, stopped,
                 terminated>>

HandlerStep(t) ==
  \/ CopyMessage(t) \/ CopySender(t) \/ StartRead(t) \/ Parse(t) \/ Drop(t)
  \/ LockMessageEvents(t) \/ TriggerMessageHandlers(t) \/ Reply(t)
  \/ LockSubscriptionEvents(t) \/ TriggerSubscription(t) \/ UnlockSubscriptionEvents(t)
  \/ Notify(t) \/ Notified(t) \/ AddSubscriber(t)

MainNext ==
  \/ StartUpFails \/ InitializeEventManager \/ RegisterEventHandler
  \/ RegisterSubscriptionHandler \/ TaskReturns \/ StopIoContext \/ Join

\* Nothing holds back the network when main has left, nor a thread that were still there.
Alive == ~terminated

Next ==
  /\ Alive
  /\ \/ \E d \in Datagram : Arrive(d)
     \/ ReceiveFails
     \/ \E t \in Worker : Dispatch(t) \/ HandlerStep(t) \/ EndThread(t) \/ Throws(t)
     \/ MainNext

Spec == Init /\ [][Next]_vars

\* Threads are scheduled.  Nothing obliges a datagram to come or a handler to throw.
\* A thread that waits for an exclusive lock may wait for ever while the others take
\* turns holding it shared.
Fairness ==
  /\ WF_vars(Alive /\ \E t \in Worker : Dispatch(t))
  /\ \A t \in Worker : WF_vars(Alive /\ (HandlerStep(t) \/ EndThread(t)))
  /\ WF_vars(Alive /\ MainNext)

FairSpec == Spec /\ Fairness

(***************************************************************************)
(* Properties.                                                             *)
(***************************************************************************)

\* A message is handled under the endpoint it came from, although the next datagram
\* is received into the same buffer and endpoint while it is handled.
SenderMatches ==
  \A t \in Worker : worker[t] \notin {"idle", "received", "copied", "ended"} =>
    \E d \in Datagram : d.message = message[t] /\ d.endpoint = sender[t]

\* A request is published in one step, when its thread takes the shared lock: what the
\* thread owes is what it has collected and what the events it has not been through
\* ask for.  Nobody is notified twice for one subscription, or forgotten, or notified
\* for a subscription made behind the back of a thread that goes through the events.
Owed(t) ==
  serviceRequests[t] \o
    (IF worker[t] # "subscriptions" THEN <<>>
     ELSE FlattenSeq([i \in 1 .. Len(subscriptionEvents) - position[t] |->
            Requests(subscriptionEvents[position[t] + i], message[t].type)]))

PublishSubscribe == INSTANCE PublishSubscribe WITH
  events <- [i \in DOMAIN subscriptionEvents |->
              [type        |-> subscriptionEvents[i].type,
               responds    |-> subscriptionEvents[i].responds,
               subscribers |-> subscriptionEvents[i].subscribers]],
  owed <- [t \in Worker |-> Owed(t)]

ImplementsPublishSubscribe == PublishSubscribe!Spec

\* No two events of a cache have the same identifier.
IdentifiersDiffer ==
  \A events \in {messageEvents, subscriptionEvents} :
    \A i, j \in DOMAIN events : events[i].id = events[j].id => i = j

\* A datagram that has arrived does not stop the service from receiving the next one,
\* whatever it says and whatever the other threads do.
ListeningGoesOn == receive = "completed" ~> (receive = "pending" \/ stopped \/ terminated)

\* A service that leaves gets to the end of ~Base: its threads finish what they are doing,
\* end and are joined, unless one of them ends the process before.
ShutdownCompletes == main = "leaving" ~> (main = "left" \/ terminated)
=============================================================================
