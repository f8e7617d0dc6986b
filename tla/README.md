# Verification of the Process Manager service

This directory holds TLA+ specifications of the service program of this repository
(`src/Source`), the TLC configurations that check them on small instances, and theorems
about them whose proofs TLAPS checks. It is kept beside the code: every definition that
stands for code is tied to its lines in `PROJECT.json` under `map`, and the hazards the
properties are aimed at are listed there, each at the line where it bites.

- [The program](#the-program)
- [Modules](#modules)
- [Runs](#runs)
- [Bounds](#bounds)
- [Fairness](#fairness)
- [Proofs](#proofs)
- [What the checks found](#what-the-checks-found)
- [What is not modelled](#what-is-not-modelled)
- [Plan](#plan)

## The program

A *service* runs a task for a set of *modules* (other programs that send UDP datagrams) and
is supervised by a *watchdog* (another program, reached over TCP on 127.0.0.1:1235). One
process holds one `io_context`, run by five threads, and a main thread.

| Component | State | Operations | Hard behaviour |
|---|---|---|---|
| TCP connection, sending side (`Connection.hpp`, `MessageQueue.hpp`) | socket, `messagesQueue` (a deque under a mutex), `sendingInProgress` (an atomic flag), the asynchronous write in flight | `connect`, `sendMessage`, `postWriteMessageHeader`, `postWriteMessageBody`, `disconnect` | The flag is tested, set and reset in separate accesses, and `sendMessage` runs on other threads than the completion handlers; a write refers to the front of the queue, not to a copy |
| TCP connection, reading side and timer (`Connection.hpp`) | the chain of asynchronous reads, the deadline timer | `startReading`, `postRead…`, `setTimerExpiration`, `timerExpired` | A timer that is set again cancels its wait, and the cancelled handler runs too; an empty body ends the chain of reads |
| Watchdog response handlers | none: they read and write the connection's | three `handle` functions, one per response | Unparsable bodies, absent fields, responses for another state |
| Watchdog connection | `sequenceCode`, `connectionState` with its mutex and condition variable | connect handshake, pings, `timedWaitForConnection` | A notification nobody waits for; a wait without a predicate; a code that is uninitialised until it is accepted; a heartbeat that is one token going round |
| Service start-up and shutdown (`ServiceMain.cpp`, `ServiceBase.cpp`) | the contexts and their threads | `main`, `~Base` | Threads run before handlers are registered; a work guard keeps the threads until the context is stopped |
| UDP context worker (`ServiceContextWorker.cpp`) | one buffer and one endpoint for all receives | `startRead`, the request and subscription handlers | The next receive starts before the datagram is handled, so five handlers run at once |
| Event manager and event caches (`EventManager.cpp`, `Service*EventsCache.cpp`, `Event.hpp`) | two vectors of events, each under a shared mutex | add an event, trigger the handlers, add a subscriber | Handlers run under the shared lock while subscriptions and registrations want the exclusive one |
| Configuration (`ServiceConfigurationReader.cpp`, `ServiceConfiguration.cpp`) | four numbers, read once | `readConfiguration` | A missing key is no failure that is reported |
| MongoDB access (`MongoModulesCollection.cpp`) | none | look up the address of a module | Exceptions that nothing catches, on the thread of a datagram |
| Identifiers (`Types.cpp`) | none | tag and test module and service identifiers | Tags in the top byte of a signed integer |
| Logging, modules cache, system manager | see [What is not modelled](#what-is-not-modelled) | | |

They interact as follows. `main` creates the `ContextWorker`, which owns the `io_context` and
its threads, and the `WatchdogConnection`, which runs on the same `io_context`. The main
thread calls `connect`, `sendConnectRequest` and `startReading` on the connection and waits on
`WatchdogConnectionState`, which the handler of the connect response, on an `io_context` thread,
sets and notifies. The main thread then starts the timer, whose handler sends the ping whose
answer sets the timer again. After that the main thread runs the task, which registers handlers
through `EventManager` in the two caches; the handlers of datagrams, on all threads, read the
caches and notify subscribers through the database's addresses and the UDP socket.

What makes each component correct:

- *Sending side.* A message that is accepted goes out once, whole and in order; at most one chain
  of writes is active; `front()` and `pop()` find an element; no message is left behind.
- *Watchdog connection.* No ping goes out before the service is connected or with another code
  than the accepted one; the code of a connected service does not change; there is exactly one
  heartbeat, which goes on until the connection closes; a service whose connect response has come
  starts up.
- *Context worker.* A message is handled under the endpoint it came from; every datagram is
  followed by the next receive; a service that leaves ends.
- *Caches.* A request notifies those who subscribe at one moment, once for each subscription; the
  events' identifiers are distinct.
- *The whole.* The task runs only in a service the watchdog watches; the handlers of one component do
  not keep those of the other from the threads for ever; no handler outlives `~Base`.
- *Identifiers.* A conversion adds a code to a number of 24 bits or refuses; kinds do not mix.

## Modules

| Module | What it is |
|---|---|
| `Channel` | Abstract specification: a FIFO channel that transmits every accepted message once |
| `TcpConnection` | The sending side, one action per access to shared state |
| `WatchdogResponseHandlers` | The three handlers and their dispatch, as a function from message, state and code to an outcome |
| `WatchdogConnection` | Main thread, reading side, timer and watchdog; instantiates `TcpConnection` and extends `WatchdogResponseHandlers` |
| `ContextWorker` | Datagrams, event caches, registrations and shutdown |
| `PublishSubscribe` | Abstract specification: a request is published in one step, and each notification it owes is settled once and in order |
| `Service` | The whole program: `main`, and `WatchdogConnection` (its `PromptNext`: a watchdog that grants, threads that finish a send before the next timer expires) and `ContextWorker` on the threads they share |
| `Identifiers` | The conversions of `Types.cpp` on bytes |
| `MCTcpConnection`, `MCWatchdogConnection`, `MCContextWorker`, `MCService`, `MCIdentifiers` | Instances for TLC |
| `TcpConnectionProofs`, `WatchdogConnectionProofs`, `HeartbeatProofs`, `ContextWorkerProofs`, `PublishSubscribeProofs`, `ServiceProofs`, `IdentifiersProofs` | Theorems and proofs. `HeartbeatProofs` extends `WatchdogConnectionProofs` and is about `PromptSpec`; `PublishSubscribeProofs` extends `ContextWorkerProofs` and has the refinement |

An operator whose comment begins with "Mutant" is a deliberately wrong version of the definition
that follows it. No specification uses it; put in place of that definition, it makes the property
that `PROJECT.json` lists with it fail, which shows that the property depends on the code being right
there.

### TcpConnection

`messagesQueue`, `sendingInProgress` and `socket` are the members of the class; the socket's states
are before `connect`, open and closed. `call[t]` is where thread `t` is in `sendMessage`, `write[w]`
what the chain of writes `w` is about to do, and `wire` is what the peer can already read.

| Action | Code (`Connection.hpp`) |
|---|---|
| `SendMessage`, `CheckOpen`, `CheckSending`, `SetSending`, `StartWriting` | `sendMessage`: push, `is_open`, load of the flag, store of the flag, `front()` and start of the write |
| `HeaderSent`, `MessageSent` | a write completes on the socket: the header of a message with a body; the last part of a message. The completion handler runs in later actions, so the peer may answer before it |
| `Pop`, `WriteNext`, `QueueDrained`, `ClearSending` | the completion handlers: `pop`, `empty()` false or true, reset of the flag. The chain that ends in `postWriteMessageHeader`, on a message with an empty body, does not reset it |
| `WriteFails`, `DisconnectAfterFailure`, `Disconnect` | errors on the writing and on the reading side |

`front()` or `pop()` on an empty queue, and popping an element another write still refers to, have
no defined outcome. They set `undefined`, and every specification stops there: nothing is claimed of
what follows. `pop` of the model leaves an empty queue empty.

The class does not say how callers may use `sendMessage`, so there are three specifications.
`FreeSpec`: any thread, any time. `SerialSpec`: calls do not overlap. `SpacedSpec`: besides, a call
begins only when the previous chain of writes has run to its end. What the class guarantees depends
on which of them its user keeps to.

### WatchdogConnection

The variables of `TcpConnection` under the same names, and: `main`, the position of the main thread
in `connectToWatchdog`, `waitForConnectResponse` and the end of `main()`; `timer`, a wait is pending;
`expired`, the number of waits that ended and whose handler has not run; `reader` and `received`, the
chain of reads; `replies`, what the watchdog has sent; `terminated`, an exception left
`io_context::run`.

- Main thread: `Connect`, `ConnectFails`, `SendConnectRequest`, `StartReading`, `WaitForConnection`,
  `WakeUnnotified` (the ten seconds are over, or a spurious wake-up: the wait has no predicate),
  `ReturnFromWait`, `StartTimer`, `Stop`.
- Timer: `TimerExpires`; `OnTimerExpiration`, the handler on any `io_context` thread. `SetTimer`, used
  wherever the code calls `setTimerExpiration`, counts the cancelled wait as ended, because
  `timerExpired` takes no error code and sends a ping either way.
- Reading: `Receive`, `ReadFails`, then the handler: `AcceptCode`, `SetConnectionState` and `NotifyOne`
  in the order of the code, `RearmTimer`, `IgnoreResponse`, or `HandlerThrows`. There is one chain of
  reads, so handlers of responses do not run at once.
- The watchdog is not part of the repository. `FreeSpec` lets it send anything in `Answer` at any time,
  as often as it likes: answers to requests, answers that are repeated or late, answers to nothing. Only
  a ping response before the service is connected is left out (`Unasked`), because
  `PingResponseHandler` looks at no connection state and compares with a `sequenceCode` that may be
  uninitialised: it could match by accident, and then `PingsCarryTheCode` does not hold.
  `PromptSpec` has a watchdog that grants what it is asked, once, and lets the timer expire only when
  the previous send is over: the timer runs for a second, a completion handler for microseconds.
  In `FreeSpec` a repeated ping response does double the heartbeat, which is why `OneHeartbeat` is
  stated of `PromptSpec`.

### ContextWorker

`receive` is the state of the one receive operation; `messageBuffer` and `remoteEndpoint` are the
shared members; `worker[t]` is what thread `t` is doing and `message`, `sender`, `position` and
`serviceRequests` are its locals; `messageEvents` and `subscriptionEvents` are the caches; `main`,
`registered` and `stopped` belong to the main thread.

- `Arrive`, `ReceiveFails`, `Dispatch` (a thread takes the completion handler; `handleReadError` is
  empty, and no receive is started), `CopyMessage`, `CopySender`, `StartRead`: the order of
  `startRead`.
- `Parse` and `Drop` choose the handler. A request goes through both caches: `LockMessageEvents`,
  `TriggerMessageHandlers`, `Reply`, `LockSubscriptionEvents`, `TriggerSubscription` event by event,
  `UnlockSubscriptionEvents`, `Notify`, `Notified`. `HandlerThrows` is an exception of a task's
  handler, `LookUpThrows` one of the database (`getModule`, `viewToModuleRecord`: no answer, or a
  record without one of its fields; with a field of another type there is no notification, which is
  `Notify` too). Nothing catches them and the process ends.
- `Reply` ends the process too: the response is a `google::protobuf::Any` that is copied into a
  `Request`, and protobuf's `CopyFrom` does not return when the types differ.
- `AddSubscriber` and the registrations take a lock exclusive and release it within the action;
  a shared lock lasts from its label to the next.
- `SuffixOf` stands for `type_url().ends_with(…)` in the trigger, whereas `addSubscriber` compares
  whole names.
- `StartUpFails`, `InitializeEventManager`, `RegisterEventHandler`, `RegisterSubscriptionHandler`,
  `TaskReturns` (into `RUN_FOREVER`, which joins threads that nothing ends, or out of `main`),
  `StopIoContext` and `Join`, which are `~Base`. `EndThread` is the return of `run()` in one thread: only
  when the thread runs no handler and the context is stopped. `Join` waits until every thread has ended; a
  thread that has not may still go on, before and after. In the initial states the threads already run and
  nothing is registered; a socket that could not be bound receives nothing, for the constructor
  swallows the exception.

`ContextWorker` implements `PublishSubscribe`. The events of the one are those of the other without
their identifiers; what a thread owes (`Owed`) is what it has collected and what the events it has yet
to go through ask for. A request is published when its thread takes the shared lock; the steps from
event to event under the lock change nothing anyone owes; a subscription, under the exclusive lock,
changes what later requests owe and no earlier one.

### Service

`phase` is where `main` is before it connects; `startUp` and `task` are the variables `main` of the two
instances: the main thread goes through the one and then through the other, which `HandOver` says of
each step. `terminated` is one variable of both. The `io_context` gives a ready handler, of a datagram,
of an ended wait, of a response or of a write, to a free thread: `Handling` counts the handlers that are
running, `Running` are the threads that have not ended, and `Scheduled` lets a handler begin only if a
thread is free and the context is not stopped, and a thread end only if one is free. Nothing else keeps a
handler from running on after `~Base`: the model goes on when the main thread has left.

Everything that is checked and proved of `Service` rests on the two assumptions of `PromptNext`: the
watchdog grants each request, once, and the timer expires only when the previous send is over.

| Action | Code |
|---|---|
| `ReadConfiguration`, `ConfigurationFails` | `readConfiguration`: the first flaw of the file decides. A file that does not open, is no JSON or has a value of another type ends `main`; a missing key is undefined behaviour (`operator[]` of a const json) and ends the model |
| `InitializeSockets`, `SocketsFail` | `initializeSockets`, whose result `main` ignores |
| `ReadAll`, `JoinAll` | `readAll` and `joinAll`, which starts the threads |
| `WatchdogStep`, `ModulesStep` | a step of one component, with a watchdog that grants; the other is not touched |
| `EndThread`, `Join` (of `ContextWorker`) | the threads return from `run()` one by one, and `~Base` waits for all of them; a thread that runs a handler of the connection is not free to end |

### Identifiers

`identifier` is the union as its four signed bytes, least significant first, `given` what it was before
any conversion, `Number` the integer callers see. The actions are the two conversions, in any order and
any number. Nothing in the service calls them.

## Runs

| Run | Specification | What it shows |
|---|---|---|
| `tcp_serial` | `FairSerialSpec`, one body empty | With calls that do not overlap: one chain of writes at most, the FIFO channel is implemented (once, whole, in order, whatever breaks), and a message left behind goes out with a later one as long as callers keep sending and the flag is reset (an empty body may leave it set for ever) |
| `tcp_spaced` | `FairSpacedSpec`, no body empty | With spaced calls: nothing undefined, nothing stranded, the flag always reset, every message sent unless the connection closes |
| `tcp_free` | `FreeSpec` | **Violated:** two callers start two chains of writes |
| `tcp_serial_front` | `SerialSpec` | **Violated:** a caller that was overtaken calls `front()` on an empty queue |
| `tcp_empty_body` | `SpacedSpec`, one body empty | **Violated:** a chain that ends on an empty body leaves the flag set |
| `watchdog_prompt` | `FairPromptSpec` | Exactly one heartbeat while the connection is up, granted responses that never end the service, a use of the sending side that is spaced, pings again and again, and a connected service starts its timer and does not give up, even if the notification was lost or the wait timed out |
| `watchdog_free` | `FreeSpec` | Whatever the watchdog sends once the service is connected, and all but ping responses before: pings carry the accepted code, a connected service keeps its code |
| `watchdog_stranded` | `FreeSpec` | **Violated:** the service alone strands a ping |
| `watchdog_refused` | `FreeSpec` | **Violated:** a refusal for which the handler asks for another connect request ends the process. The watchdog of this run (`RefusingAnswer`) sends nothing but that refusal |
| `context_worker` | `FairSpec` | Senders match, identifiers differ, publish and subscribe is implemented, listening goes on, shutdown completes |
| `service` | `FairSpec` | The whole, with a watchdog that grants and threads that are prompt: the task is watched, nothing outlives `~Base`, the heartbeat, the datagrams and the shutdown go on however busy the threads are with each other |
| `identifiers` | `Spec` | Conversions add the code to 24 bits or refuse; kinds are final |

`tcp_serial` and `tcp_spaced` tell what users of the class may rely on; `watchdog_prompt` shows that
the one user there is, if its threads are prompt, keeps to the stricter discipline
(`ImplementsSpacedTcp` is `TcpConnection`'s `SpacedSpec` as a property of `WatchdogConnection`), so
that what holds of `SpacedSpec` holds of the service. `watchdog_stranded` shows that promptness is
needed.

Deadlock is checked only in `identifiers`: every other specification may stop, when the process ends, when the connection is
closed and nobody sends, or at `undefined`.

## Bounds

- *tcp_…*: two threads (the smallest number that can race), two messages (order and identity), two
  chains of writes (`Write`; a third would need `SingleWrite` broken already), a queue of
  `QueueBound` = 3 (the message in flight, one behind it, one pushed) and `WireBound` = 2.
  With a bounded wire a write waits for the peer, as on a full socket buffer.
- *watchdog_…*: the main thread and one or two `io_context` threads; the reading chain and the
  completion handlers are processes of their own, so that one timer thread already interleaves with
  them. Two codes, so that an answer can carry the wrong one; `QueueBound` = 2, `WireBound` and
  `ReplyBound` = 1: a heartbeat is one message, and a second one would show as a second token.
  `TimerBound` = 2 in `watchdog_prompt`, so that a doubled heartbeat is possible.
- *context_worker*: two threads, two modules, two types of which one name is a suffix of the other,
  two events in each cache, four datagrams (two requests, two subscriptions), any number of times; those
  that are dropped occur in `service`. `SubscriberBound` = 1: no subscription arrives once an event has a subscriber, but
  two that are already being handled both enter, so that lists of two entries do occur.

- *service*: two threads instead of five, so that two handlers, of one component or of both, take them
  all while others wait; datagrams come without end, of the kind that is dropped, for here they matter
  as what takes threads, and what they do is `context_worker`'s; one timer thread, one chain of writes,
  one code and one message everywhere, for the granting watchdog makes one heartbeat; four
  configuration files: good, bad at once, with a flaw of each kind, with both.
- *identifiers*: the extremes of a signed byte, both sides of zero and the two codes, in each of the
  four bytes: 2401 identifiers. The proofs cover all 2^32.

The bounds are guards of `SendMessage`, `MessageSent`, `SetTimer` and `TimerExpires`, `Reply` and
`Arrive`. The code has no such limits.

## Fairness

- A thread that can take a step takes it: the threads are scheduled, completion handlers that are
  ready are run as long as the `io_context` runs, and a thread that finds it stopped ends.
- An asynchronous write or read on an open socket completes, and so does one that the closing of the
  socket cuts off (`Progress`). A wait on a timer ends.
- The peer reads what it is sent. A watchdog that grants does answer.
- In `Service` a handler that becomes ready again and again, though others take the threads in between,
  is begun (strong fairness): asio's `io_context` runs handlers in the order in which they became ready.
  With weak fairness a ping could wait for ever behind datagrams, or the other way around.
- Nothing obliges the network to fail, a connect to be refused, a datagram to come, a caller to send,
  a wait to wake up early, or a handler to throw.
- `std::shared_mutex` is not fair: a thread that wants the exclusive lock may wait for ever. Weak
  fairness of its step gives no more, since readers can disable it again and again. This is why no
  property says that a subscription is eventually made. `ShutdownCompletes` holds nonetheless,
  because a stopped context dispatches no new handler.
- `NextCallUnstrands` and `EveryMessageSent` hold only with the escape of a closed socket.

## Proofs

TLAPS proves these for all values of the constants that satisfy the named assumptions
(`ConstantsAssumption`, `CodeAssumption`, `WatchdogAssumption`, `ConfigurationAssumption`,
`ComponentsAssumption`, `FinitenessAssumption`, `ByteAssumption`): any number of threads (in
`Service` finitely many, for they are counted), messages, codes, modules and events, any bounds. What is
proved of `PromptSpec` and of `Service` assumes besides a watchdog that grants and prompt threads.

| Theorem | Statement |
|---|---|
| `TcpConnectionProofs!TypeCorrect` | `FreeSpec => []TypeOK` |
| `TcpConnectionProofs!SerialSingleWrite` | `SerialSpec => []SingleWrite` |
| `TcpConnectionProofs!SerialImplementsChannel` | `SerialSpec => ImplementsChannel` |
| `TcpConnectionProofs!SpacedIsSafe` | `NeverUndefined`, `NothingStranded` and `FlagIsReset` always hold in `SpacedSpec`, if `EmptyBody = {}` |
| `TcpConnectionProofs!SpacedNeverUndefined`, `SpacedFlagIsReset` | two of them by themselves |
| `WatchdogConnectionProofs!TypeCorrect` | `FreeSpec => []TypeOK` |
| `WatchdogConnectionProofs!PingsCarryTheCodeAlways` | `FreeSpec => []PingsCarryTheCode` |
| `WatchdogConnectionProofs!CodeIsFrozen` | `FreeSpec => CodeFrozen` |
| `HeartbeatProofs!OneHeartbeatAlways`, `HeartbeatIsKept` | `PromptSpec => []OneHeartbeat`, `PromptSpec => []HeartbeatKept` |
| `HeartbeatProofs!ServiceIsSpaced` | `PromptSpec => ImplementsSpacedTcp` |
| `HeartbeatProofs!ServiceSendsSafely` | `NothingStranded`, `Tcp!NeverUndefined` and `Tcp!FlagIsReset` always hold in `PromptSpec` |
| `HeartbeatProofs!ServiceSendsInOrder` | `PromptSpec => Tcp!ImplementsChannel` |
| `HeartbeatProofs!GrantsDoNotTerminate` | `PromptSpec => []ResponsesDoNotTerminate` |
| `ContextWorkerProofs!TypeCorrect` | `Spec => []TypeOK` |
| `ContextWorkerProofs!SendersMatch` | `Spec => []SenderMatches` |
| `ContextWorkerProofs!IdentifiersAreDistinct` | `Spec => []IdentifiersDiffer` |
| `PublishSubscribeProofs!PublishesInOneStep` | `Spec => ImplementsPublishSubscribe` |
| `ServiceProofs!TypeCorrect` | `Spec => []TypeOK` |
| `ServiceProofs!NothingOutlives` | `Spec => []NothingOutlivesBase` |
| `ServiceProofs!TaskAlwaysConnected`, `TaskAlwaysWatched` | `Spec => []TaskIsConnected`, the first half of `TaskIsWatched`, and `Spec => []TaskIsWatched` |
| `ServiceProofs!ComponentsStaySafe` | In the whole program `PingsCarryTheCode`, `OneHeartbeat` and `NothingStranded` of the connection and `SenderMatches` and `IdentifiersDiffer` of the modules' server always hold |
| `ServiceProofs!ServicePublishesInOneStep` | `Spec => Modules!ImplementsPublishSubscribe` |
| `ServiceProofs!ServiceSendsInOrder` | `Spec => Watchdog!ImplementsSpacedTcp /\ Watchdog!Tcp!ImplementsChannel` |
| `IdentifiersProofs!TypeCorrect` | `Spec => []TypeOK` |
| `IdentifiersProofs!ConversionsAddTheCode` | `Spec => []ConversionAddsTheCode` |
| `IdentifiersProofs!KindsAreFinal` | `Spec => KindIsFinal` |

The argument for each:

- *TypeCorrect* of `TcpConnection`. What is put on the wire is the front of the queue, so types need
  `WriteHasFront`: a chain that is writing has an element at the front, or `undefined` is set.
- *SerialSingleWrite.* `SingleWrite` is not inductive: from a state with the flag false and a chain
  running, a caller starts a second one. Needed are `OneCall`, at most one thread is in `sendMessage`,
  and `FlagCoversWrites`: the flag is set as long as a chain is active, and from a caller's test of the
  flag to the start of its chain no other chain is.
- *SerialImplementsChannel.* The queue of the channel is `Unsent`: `messagesQueue` without the element
  that is on the wire and not yet popped. `FrontUnpopped` says that a chain that is writing or about to
  pop has an element at the front; with `SingleWrite` nobody else pops it, so `MessageSent` is the
  channel's `Transmit`, `SendMessage` its `Accept`, and every other step leaves both variables alone.
- *SpacedIsSafe.* `SpacedInv` adds to that invariant and the three properties: a call never meets a
  chain, and its message is still in the queue (`CallFindsQuiet`); a chain about to reset the flag has
  emptied the queue or closed the socket (`ChainEndsClean`); nothing happens before `connect`
  (`QuietBeforeConnect`); and with no empty body the labels from which a chain ends without a reset
  are not reached (`BodiesOnly`).
- *PingsCarryTheCodeAlways* and *CodeIsFrozen.* `CodeInv`: messages in the queue, on the wire and in
  the replies are sound for the present state and code (`SoundRequest`, `SoundResponse`), and where a
  heartbeat exists (main past the wait, a timer, an expired wait) the service is connected. The steps
  of the sending side move requests and make none, which the lemma `WriterStepSequences` of
  `TcpConnectionProofs` gives. `AcceptCode` needs the service not to be connected, by the handlers'
  test, and then there is no ping that could go stale.
- *OneHeartbeatAlways, HeartbeatIsKept, ServiceIsSpaced.* Neither can be proved before the other: that
  a caller finds the sending side at rest needs that there is no second heartbeat that could be sending,
  and that a ping is counted once, in the queue or on the wire, needs that chains of writes do not
  overlap. `HeartbeatInv` holds both. `HeartbeatCount` is the number of heartbeats: none before the
  start-up is through, then at most one, and exactly one while the reader lives. `SenderFindsQuiet` says
  that whoever is about to send, the main thread or the handler of an expired timer, finds the sending
  side at rest, and with it `SpacedInv` of `TcpConnectionProofs` and `CodeInv` hold here.
  `ReceivedIsHandled` (a response has one handler, and only while it runs) is what keeps an answer from
  being counted twice. The steps of the proof go by what a step does to the parts of the sum
  (`PartsAddUp`): it passes the token from one place to the next, or ends the reader.
- *ServiceSendsSafely, ServiceSendsInOrder.* What `TcpConnectionProofs` proves of spaced callers,
  instantiated: `PromptIsSpaced` maps each step of the service to a step of `SpacedSpec`.
- *GrantsDoNotTerminate.* `GrantInv`: every response on its way is one that grants, and a ping response
  carries the code the service holds at that moment (`Granted`). This survives an accepted code only
  because a connected service accepts none (`ConnectedStays`).
- *SendersMatch.* `BufferInv`: one user of the buffer at a time, the pending receive included
  (`OneBufferUser`), and a buffer that holds a datagram of `Datagram` from its arrival until the next
  receive is started (`BufferFilled`).
- *IdentifiersAreDistinct.* `Numbered`: an event's identifier is its position. Events are never
  removed, so `getNewEventID` always answers the length.
- *PublishesInOneStep.* Besides `TypeInv` it needs `CollectingInv`: a thread that neither goes through
  the events nor notifies has collected nothing and is at position 0, which makes what it owes when it
  takes the lock exactly what is published. `LockSubscriptionEvents` is `Publish`, `Notify` is `Settle`,
  `AddSubscriber` and `RegisterSubscriptionHandler`, which need the lock exclusive, are `Subscribe` and
  `Register`, and `TriggerSubscription` changes what is collected and what is ahead but not their
  concatenation. That last step is about `FlattenSeq`, which is defined by recursion on the length:
  `FlattenFirst` says that flattening a sequence is its first part with the flattened rest behind it.
  The library's induction rules take an operator and cannot be used, so `UpTo` derives an induction on
  sets from the well-foundedness of `<` on the naturals (`WFMin`), with which the existence of the
  recursive function, the types of its values and the law of its first part are proved.
- *Service.* `ComponentsInv` is `HeartbeatInv` of the one component, `TypeInv` and `CollectingInv` of the
  other, and that no handler runs before the threads do. `ServiceProofs` instantiates the proof modules
  of the components (`WatchdogProofs`, `ModulesProofs`); the lemmas `Same…` say that the definitions of
  these instances are those of the instances in `Service`. A step of one component keeps the invariant
  of the other because it touches none of its variables but `terminated`. `ComponentsAssumption` repeats
  the components' assumptions of their constants.
- *TaskAlwaysWatched.* `TaskIsConnected` and `HeartbeatCount`, in one state.
- *TaskAlwaysConnected.* `TaskIsConnected` needs `ArmedIsConnected`: main sets the timer only after it
  has seen the state Connected, which no step of the connection leaves (`WatchdogStepArms`). The task
  begins in one step (`TaskBegins`), which `HandOver` allows only at the end of the start-up.
- *NothingOutlives.* `Join` looks at the threads and the property is about the handlers, of both
  components, which the model counts separately; and the model goes on after `~Base`. `ThreadsInv` ties
  them: there are never more handlers than threads that have not ended, and once `~Base` is left none has
  not ended. It is kept because a step begins one handler at most (`OneHandlerMoves`) and then there was a
  free thread, because a thread ends one at a time (`OneThreadMoves`) and only when one is free, and because
  `~Base` is left only by `Join` (`OnlyJoinLeaves`). The counting needs `FinitenessAssumption`.
- *ConversionsAddTheCode.* An identifier that differs from the one that was given has a code or is -1
  (`Fresh`), so that a conversion of it refuses; `CodeIsAdded` is the arithmetic of the bytes.

Model-checked only: the liveness properties (`EveryMessageSent`, `NextCallUnstrands`, `HeartbeatGoesOn`,
`ConnectedServiceRuns`, `PingGoesOut`, `ListeningGoesOn`, `ShutdownCompletes`), for TLAPS 1.4.5 has no
`ENABLED`. Every invariant, action property and refinement that a passing run checks is also a theorem.

## What the checks found

Each is a run of its own and an entry of `findings`, with the lines of code and comment.

1. *Two chains of writes* (`tcp_free`). `sendingInProgress` is atomic, but it is loaded at
   `Connection.hpp:204` and stored at 207. An `exchange` or a `compare_exchange` would do.
2. *A caller overtaken* (`tcp_serial_front`). Between the push and the test of the flag the running
   chain may send and pop the message and reset the flag.
3. *The flag left set* (`tcp_empty_body`). Line 116 pops, finds the queue empty and returns. With the
   protocol's requests, which always have a body, it does not happen.
4. *A ping left behind* (`watchdog_stranded`). The queue is found empty at 143, the flag reset at 146.
   If the thread is held in between until the answer has come and the timer has expired, a second
   later, the ping is pushed and its sender sees the flag still set. Nothing else sends, so the
   heartbeat is over.
5. *A refused connect ends the process* (`watchdog_refused`). `handleReceivedMessage` calls the
   handler without the `try` of `handleResponse`, which nothing calls. An unparsable message and a wrong
   sequence code end it in the same way.

Other things a reader of the code may want to know, about which no document or comment says otherwise:

- A failed UDP receive is the last: `handleReadError` is empty.
- A response of a message handler ends the process (`Reply` above).
- A header that announces no body ends the chain of reads and leaves the connection open.
- After a disconnection nothing reconnects, and the state stays `Connected`.
- `wait_for` has no predicate, so a spurious wake-up ends the start-up with a report of a timeout.
- When the watchdog refuses the connection or does not answer in time, `main` reports it and returns 0.
- A key that is missing from the configuration file is undefined behaviour, not a reported failure, and
  a port above 65535 is narrowed.
- `main` ignores the result of `initializeSockets` and then uses a null `watchdogConnection`; `Base`
  ignores that of `Mongo::DbEnvironment::initialize`.
- `Globals::serviceIdentifier` is set by nothing in the service. The task is expected to, as the example
  `src/Tests/ExampleServicesTests/ServiceOneTest/ServiceOneTestMain.cpp:86` does in `Task::Task()`; a task
  that does not reads the configuration of service 0 and says 0 to the watchdog.
- A second subscription of the same module doubles its notifications.
- `async_send_to` is given the buffer of a local string.
- Requests and subscriptions that come before the task has registered its handlers are dropped.
- `ModulesCache` line 9 has its condition inverted, and `canBeModuleIdentifier` assigns (`= 0`) where
  a comparison was meant, so that it says yes of everything, while `canBeServiceIdentifier` says yes only
  of what `toServiceIdentifier` refuses; nothing calls them.

## What is not modelled

- *Logging* only writes. *Modules cache* is called by nothing. *System manager* is not built: its header
  is not in the repository.
- *MongoDB access* beyond the outcomes of a look-up: the driver, its pool of clients (which blocks when it
  has none left, and then gives one back), the conversion of a record into its fields.
- The values of the configuration: of the four numbers only the port is used, once.
- The exit code of `main`.
- Members that nothing calls: `makeNewSocket`, `sendReconnectRequest`, `closeSocket`,
  `blockingWriteMessageHeader`, `waitForConnectionStateChange`, `handleResponse`, `addSubscriber` by
  identifier, `size`.
- The branches of the completion handlers for a write of fewer bytes than asked (lines 41–42 and
  103–106 of `Connection.hpp`): `async_write` and `async_read` complete with all bytes or an error.
- Bytes. A message is whole or not; two chains of writes would interleave theirs, which is why
  `SingleWrite` is stated of chains. That an asio socket is used from two threads at once, which its
  documentation forbids, is not modelled: the operations are taken to be safe.
- Protobuf. Parsing succeeds or not by a field of the message. That requests have a body of at least
  one byte is an assumption about the `.proto` files, which are not in the repository. The handlers call
  `has_sequencecode()`, so scalar fields of these messages have presence, and a field that is set is
  written even if it is 0; with plain proto3 fields the connect request of service 0 would have no body,
  and `tcp_empty_body` would be the normal case.
- The contents of the datagrams the service sends: nothing in it reads them back.
- What a task's handlers do, beyond responding, not responding and throwing.

## Plan

The order followed: the sending side, for everything said to the watchdog goes through it; the watchdog
connection on top of it; the context worker and the caches; the abstract specification of publish and
subscribe; the whole program; the identifiers; and after each its proofs. Ahead:

1. What a shutdown may interrupt: that the heartbeat and the requests that are published when the
   main thread stops the `io_context` are the only things left undone, as an invariant of `Service`.
2. Safety lemmas on the way to the liveness properties: for each of them, that a step which is
   continuously enabled is disabled only by the step that fairness speaks of.

To repeat the checks, run `tlc -config <run>.cfg <module>` for a row of `runs` in `PROJECT.json`, and
`tlapm <module>.tla` for a module of proofs.
