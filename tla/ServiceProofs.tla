---------------------------- MODULE ServiceProofs ----------------------------
(***************************************************************************)
(* Proofs about Service, for any number of threads, modules, messages and  *)
(* configuration files.  As Service itself they rest on a watchdog that    *)
(* grants and on prompt threads.                                           *)
(***************************************************************************)
EXTENDS Service, FiniteSetTheorems, TLAPS

\* Nothing but the main thread moves the task.
LEMMA ModulesKeepTask ==
  ASSUME Modules!Next, ~Modules!MainNext
  PROVE  UNCHANGED task
<1>1. (\E d \in Datagram : Modules!Arrive(d)) \/ Modules!ReceiveFails => UNCHANGED task
  BY DEF Modules!Arrive, Modules!ReceiveFails, Modules!mainVars
<1>2. ASSUME NEW t \in Worker,
             \/ Modules!Dispatch(t) \/ Modules!HandlerStep(t)
             \/ Modules!EndThread(t) \/ Modules!Throws(t)
      PROVE  UNCHANGED task
  BY <1>2 DEF Modules!Dispatch, Modules!HandlerStep, Modules!EndThread, Modules!Throws,
     Modules!HandlerThrows, Modules!LookUpThrows, Modules!CopyMessage, Modules!CopySender, Modules!StartRead,
     Modules!Parse, Modules!Drop, Modules!LockMessageEvents,
     Modules!TriggerMessageHandlers, Modules!Reply, Modules!LockSubscriptionEvents,
     Modules!TriggerSubscription, Modules!UnlockSubscriptionEvents, Modules!Notify,
     Modules!Notified, Modules!AddSubscriber, Modules!mainVars
<1> QED
  BY <1>1, <1>2 DEF Modules!Next

(***************************************************************************)
(* The hand-over of the main thread from one component to the other.       *)
(***************************************************************************)

\* The main thread sets the timer only of a connected service.
ArmedIsConnected == startUp \in {"arm", "running"} => connectionState = "Connected"

\* A step of the connection ends no start-up that has come to its end, and sets the
\* timer only of a connected service; the state Connected is final.
LEMMA WatchdogStepArms ==
  ASSUME ArmedIsConnected, Watchdog!PromptNext
  PROVE  ArmedIsConnected' /\ (startUp = "running" => startUp' = "running")
<1>1. CASE Watchdog!MainNext
  BY <1>1 DEF ArmedIsConnected, Watchdog!MainNext, Watchdog!Connect, Watchdog!ConnectFails,
     Watchdog!SendConnectRequest, Watchdog!StartReading, Watchdog!WaitForConnection,
     Watchdog!WakeUnnotified, Watchdog!ReturnFromWait, Watchdog!StartTimer,
     Watchdog!Stop, Watchdog!MainStep, Watchdog!codeVars
<1>2. CASE Watchdog!HandlerNext
  BY <1>2 DEF ArmedIsConnected, Watchdog!HandlerNext, Watchdog!AcceptCode,
     Watchdog!SetConnectionState, Watchdog!NotifyOne, Watchdog!RearmTimer,
     Watchdog!IgnoreResponse, Watchdog!HandlerThrows, Watchdog!codeVars
<1>3. ASSUME \/ Watchdog!SendNext \/ Watchdog!Receive \/ Watchdog!ReadFails
             \/ Watchdog!TimerExpires \/ Watchdog!WatchdogGrants
             \/ \E t \in Io : Watchdog!OnTimerExpiration(t)
      PROVE  UNCHANGED <<startUp, connectionState>>
  BY <1>3 DEF Watchdog!SendNext, Watchdog!Sending, Watchdog!Receive, Watchdog!ReadFails,
     Watchdog!TimerExpires, Watchdog!WatchdogGrants, Watchdog!WatchdogAnswers,
     Watchdog!Reply, Watchdog!OnTimerExpiration, Watchdog!codeVars
<1> QED
  BY <1>1, <1>2, <1>3 DEF Watchdog!PromptNext, Watchdog!ServiceNext, ArmedIsConnected

\* A step of the modules' server has the task begin only from its start.
LEMMA TaskBegins ==
  ASSUME Modules!Next, task' \in {"registering", "running"},
         task \notin {"registering", "running"}
  PROVE  task = "starting" /\ task' = "registering"
<1>1. CASE Modules!MainNext
  BY <1>1 DEF Modules!MainNext, Modules!StartUpFails, Modules!InitializeEventManager,
     Modules!RegisterEventHandler, Modules!RegisterSubscriptionHandler,
     Modules!RegisterNext, Modules!TaskReturns, Modules!StopIoContext, Modules!Join,
     Modules!MainStep
<1>2. CASE ~Modules!MainNext
  BY <1>2, ModulesKeepTask
<1> QED
  BY <1>1, <1>2

\* Whatever the watchdog, the modules and the threads do: the task registers and runs
\* only in a service whose start-up is complete and which the watchdog has accepted.
THEOREM TaskAlwaysConnected == Spec => []TaskIsConnected
<1> DEFINE IInv == ArmedIsConnected /\ TaskIsConnected
<1>1. Init => IInv
  BY DEF Init, Watchdog!Init, Modules!Init, ArmedIsConnected, TaskIsConnected
<1>2. IInv /\ [Next]_vars => IInv'
  <2> SUFFICES ASSUME IInv, [Next]_vars PROVE IInv'
    OBVIOUS
  <2>1. CASE UNCHANGED vars
    BY <2>1 DEF vars, watchdogVars, modulesVars, ArmedIsConnected, TaskIsConnected
  <2>2. CASE Prelude
    BY <2>2 DEF Prelude, ReadConfiguration, ConfigurationFails, InitializeSockets,
       SocketsFail, ReadAll, JoinAll, watchdogVars, modulesVars, ArmedIsConnected,
       TaskIsConnected
  <2>3. CASE WatchdogStep(Watchdog!PromptNext)
    <3>1. UNCHANGED task /\ Watchdog!PromptNext
      BY <2>3 DEF WatchdogStep, modulesVars
    <3> QED
      BY <3>1, WatchdogStepArms DEF TaskIsConnected, ArmedIsConnected
  <2>4. CASE ModulesStep(Modules!Next)
    <3>1. UNCHANGED <<startUp, connectionState>> /\ Modules!Next /\ HandOver
      BY <2>4 DEF ModulesStep, watchdogVars
    <3> QED
      BY <3>1, TaskBegins DEF HandOver, TaskIsConnected, ArmedIsConnected
  <2> QED
    BY <2>1, <2>2, <2>3, <2>4 DEF Next
<1> QED
  BY <1>1, <1>2, PTL DEF Spec

(***************************************************************************)
(* The two components as parts of the service.  What is proved of each by  *)
(* itself is proved of instances of its proof module; their definitions    *)
(* are those of the instances of Service.                                  *)
(***************************************************************************)
WatchdogProofs == INSTANCE HeartbeatProofs WITH main <- startUp
ModulesProofs  == INSTANCE PublishSubscribeProofs WITH main <- task

\* The assumptions on the constants of the connection hold here.
LEMMA WatchdogConstants ==
  WatchdogProofs!CodeAssumption /\ WatchdogProofs!WatchdogAssumption
BY ComponentsAssumption
   DEF Watchdog!CodeAssumption, Watchdog!WatchdogAssumption, Watchdog!Response,
   Watchdog!Operation, Watchdog!ResponseCode, WatchdogProofs!CodeAssumption,
   WatchdogProofs!WatchdogAssumption, WatchdogProofs!Response, WatchdogProofs!Operation,
   WatchdogProofs!ResponseCode

\* So do those on the constants of the modules' server.
LEMMA ModulesConstants == ModulesProofs!ConstantsAssumption
BY ComponentsAssumption
   DEF Modules!ConstantsAssumption, Modules!Handler, Modules!Message,
   ModulesProofs!ConstantsAssumption, ModulesProofs!Handler, ModulesProofs!Message

\* A call of sendMessage begins and goes on in the same way.
LEMMA SameCall ==
  /\ \A t \in Watchdog!Thread :
       Watchdog!Tcp!CallerStep(t) <=> WatchdogProofs!Tcp!CallerStep(t)
  /\ \A t, m : Watchdog!Tcp!SendMessage(t, m) <=> WatchdogProofs!Tcp!SendMessage(t, m)
BY DEF Watchdog!Tcp!CallerStep, Watchdog!Tcp!CheckOpen, Watchdog!Tcp!CheckSending,
   Watchdog!Tcp!SetSending, Watchdog!Tcp!StartWriting, Watchdog!Tcp!CallStep,
   Watchdog!Tcp!SendMessage, WatchdogProofs!Tcp!SendMessage,
   WatchdogProofs!Tcp!CallerStep, WatchdogProofs!Tcp!CheckOpen,
   WatchdogProofs!Tcp!CheckSending, WatchdogProofs!Tcp!SetSending,
   WatchdogProofs!Tcp!StartWriting, WatchdogProofs!Tcp!CallStep

\* So does a chain of writes.
LEMMA SameWrite ==
  \A w \in Write : Watchdog!Tcp!WriterStep(w) <=> WatchdogProofs!Tcp!WriterStep(w)
BY DEF Watchdog!Tcp!WriterStep, Watchdog!Tcp!HeaderSent, Watchdog!Tcp!MessageSent,
   Watchdog!Tcp!Pop, Watchdog!Tcp!WriteNext, Watchdog!Tcp!QueueDrained,
   Watchdog!Tcp!ClearSending, Watchdog!Tcp!WriteFails, Watchdog!Tcp!DisconnectAfterFailure,
   Watchdog!Tcp!WriteStep, Watchdog!Tcp!Close,
   WatchdogProofs!Tcp!WriterStep, WatchdogProofs!Tcp!HeaderSent,
   WatchdogProofs!Tcp!MessageSent, WatchdogProofs!Tcp!Pop, WatchdogProofs!Tcp!WriteNext,
   WatchdogProofs!Tcp!QueueDrained, WatchdogProofs!Tcp!ClearSending,
   WatchdogProofs!Tcp!WriteFails, WatchdogProofs!Tcp!DisconnectAfterFailure,
   WatchdogProofs!Tcp!WriteStep, WatchdogProofs!Tcp!Close

\* The socket, its peer and the sending side at rest are the same.
LEMMA SameSocket ==
  /\ Watchdog!Tcp!Connect <=> WatchdogProofs!Tcp!Connect
  /\ Watchdog!Tcp!Disconnect <=> WatchdogProofs!Tcp!Disconnect
  /\ Watchdog!Tcp!PeerTakes <=> WatchdogProofs!Tcp!PeerTakes
  /\ Watchdog!Prompt <=> WatchdogProofs!Prompt
BY DEF Watchdog!Tcp!Connect, Watchdog!Tcp!Disconnect, Watchdog!Tcp!PeerTakes,
   Watchdog!Tcp!Close, Watchdog!Prompt, Watchdog!Tcp!NoCall, Watchdog!Tcp!NoWrite,
   WatchdogProofs!Tcp!Connect, WatchdogProofs!Tcp!Disconnect, WatchdogProofs!Tcp!PeerTakes,
   WatchdogProofs!Tcp!Close, WatchdogProofs!Prompt, WatchdogProofs!Tcp!NoCall,
   WatchdogProofs!Tcp!NoWrite, Watchdog!Thread, WatchdogProofs!Thread

\* The steps of the main thread through the start-up are the same.
LEMMA SameMain == Watchdog!MainNext <=> WatchdogProofs!MainNext
BY SameCall, SameSocket
   DEF Watchdog!MainNext, Watchdog!Connect, Watchdog!ConnectFails,
   Watchdog!SendConnectRequest, Watchdog!StartReading, Watchdog!WaitForConnection,
   Watchdog!WakeUnnotified, Watchdog!ReturnFromWait, Watchdog!StartTimer, Watchdog!SetTimer,
   Watchdog!Stop, Watchdog!MainStep, Watchdog!ReaderStep, Watchdog!tcpVars,
   Watchdog!codeVars, Watchdog!timerVars, Watchdog!readVars,
   WatchdogProofs!MainNext, WatchdogProofs!Connect, WatchdogProofs!ConnectFails,
   WatchdogProofs!SendConnectRequest, WatchdogProofs!StartReading,
   WatchdogProofs!WaitForConnection, WatchdogProofs!WakeUnnotified,
   WatchdogProofs!ReturnFromWait, WatchdogProofs!StartTimer, WatchdogProofs!SetTimer,
   WatchdogProofs!Stop, WatchdogProofs!MainStep, WatchdogProofs!ReaderStep,
   WatchdogProofs!tcpVars, WatchdogProofs!codeVars, WatchdogProofs!timerVars,
   WatchdogProofs!readVars

\* The decisions of the handlers are the same.
LEMMA SameDecision ==
  ASSUME NEW outcome
  PROVE  Watchdog!Decided(outcome) <=> WatchdogProofs!Decided(outcome)
BY DEF Watchdog!Decided, Watchdog!HandleResponse, Watchdog!PingOutcome,
   Watchdog!ConnectOutcome, Watchdog!ReconnectOutcome, Watchdog!FailureOutcome,
   WatchdogProofs!Decided, WatchdogProofs!HandleResponse, WatchdogProofs!PingOutcome,
   WatchdogProofs!ConnectOutcome, WatchdogProofs!ReconnectOutcome,
   WatchdogProofs!FailureOutcome

\* The reads and the handlers of the responses are the same.
LEMMA SameReader ==
  /\ Watchdog!Receive <=> WatchdogProofs!Receive
  /\ Watchdog!ReadFails <=> WatchdogProofs!ReadFails
  /\ Watchdog!HandlerNext <=> WatchdogProofs!HandlerNext
<1> USE DEF Watchdog!ReaderStep, Watchdog!tcpVars, Watchdog!codeVars, Watchdog!timerVars,
    WatchdogProofs!ReaderStep, WatchdogProofs!tcpVars, WatchdogProofs!codeVars,
    WatchdogProofs!timerVars
<1>1. Watchdog!Receive <=> WatchdogProofs!Receive
  BY DEF Watchdog!Receive, WatchdogProofs!Receive
<1>2. Watchdog!ReadFails <=> WatchdogProofs!ReadFails
  BY SameSocket DEF Watchdog!ReadFails, WatchdogProofs!ReadFails
<1>3. Watchdog!HandlerNext <=> WatchdogProofs!HandlerNext
  BY SameDecision
     DEF Watchdog!HandlerNext, Watchdog!AcceptCode, Watchdog!SetConnectionState,
     Watchdog!NotifyOne, Watchdog!RearmTimer, Watchdog!SetTimer, Watchdog!IgnoreResponse,
     Watchdog!HandlerThrows, Watchdog!Outcome,
     WatchdogProofs!HandlerNext, WatchdogProofs!AcceptCode,
     WatchdogProofs!SetConnectionState, WatchdogProofs!NotifyOne,
     WatchdogProofs!RearmTimer, WatchdogProofs!SetTimer, WatchdogProofs!IgnoreResponse,
     WatchdogProofs!HandlerThrows, WatchdogProofs!Outcome
<1> QED
  BY <1>1, <1>2, <1>3

\* The timer is the same.
LEMMA SameTimer ==
  /\ Watchdog!TimerExpires <=> WatchdogProofs!TimerExpires
  /\ \A t \in Io : Watchdog!OnTimerExpiration(t) <=> WatchdogProofs!OnTimerExpiration(t)
BY SameCall
   DEF Watchdog!TimerExpires, Watchdog!OnTimerExpiration, Watchdog!tcpVars,
   Watchdog!codeVars, Watchdog!timerVars, Watchdog!readVars,
   WatchdogProofs!TimerExpires, WatchdogProofs!OnTimerExpiration, WatchdogProofs!tcpVars,
   WatchdogProofs!codeVars, WatchdogProofs!timerVars, WatchdogProofs!readVars

\* The watchdog is the same.
LEMMA SameGrants == Watchdog!WatchdogGrants <=> WatchdogProofs!WatchdogGrants
BY SameSocket
   DEF Watchdog!WatchdogGrants, Watchdog!Grants, Watchdog!Answers, Watchdog!IsPing,
   Watchdog!IsPong, Watchdog!WatchdogAnswers, Watchdog!Reply, Watchdog!codeVars,
   Watchdog!timerVars,
   WatchdogProofs!WatchdogGrants, WatchdogProofs!Grants, WatchdogProofs!Answers,
   WatchdogProofs!IsPing, WatchdogProofs!IsPong, WatchdogProofs!WatchdogAnswers,
   WatchdogProofs!Reply, WatchdogProofs!codeVars, WatchdogProofs!timerVars

\* The steps of the connection are the same.
LEMMA SamePromptNext == Watchdog!PromptNext <=> WatchdogProofs!PromptNext
<1>1. Watchdog!SendNext <=> WatchdogProofs!SendNext
  BY SameCall, SameWrite
     DEF Watchdog!SendNext, Watchdog!Sending, Watchdog!Thread, Watchdog!codeVars,
     Watchdog!timerVars, Watchdog!readVars,
     WatchdogProofs!SendNext, WatchdogProofs!Sending, WatchdogProofs!Thread,
     WatchdogProofs!codeVars, WatchdogProofs!timerVars, WatchdogProofs!readVars
<1>2. Watchdog!Alive <=> WatchdogProofs!Alive
  BY DEF Watchdog!Alive, WatchdogProofs!Alive
<1> QED
  BY <1>1, <1>2, SameMain, SameReader, SameTimer, SameGrants, SameSocket
     DEF Watchdog!PromptNext, Watchdog!ServiceNext, WatchdogProofs!PromptNext,
     WatchdogProofs!ServiceNext

\* So are those of a spaced caller of the sending side
LEMMA SameSpacedNext ==
  [Watchdog!Tcp!SpacedNext]_(Watchdog!Tcp!vars)
    <=> [WatchdogProofs!Tcp!SpacedNext]_(WatchdogProofs!Tcp!vars)
BY SameCall, SameWrite, SameSocket
   DEF Watchdog!Tcp!SpacedNext, Watchdog!Tcp!Internal, Watchdog!Tcp!Send,
   Watchdog!Tcp!NoCall, Watchdog!Tcp!NoWrite, Watchdog!Tcp!vars, Watchdog!Thread,
   Watchdog!Request,
   WatchdogProofs!Tcp!SpacedNext, WatchdogProofs!Tcp!Internal, WatchdogProofs!Tcp!Send,
   WatchdogProofs!Tcp!NoCall, WatchdogProofs!Tcp!NoWrite, WatchdogProofs!Tcp!vars,
   WatchdogProofs!Thread, WatchdogProofs!Request

\* and those of the channel.
LEMMA SameFifo ==
  [Watchdog!Tcp!Fifo!Next]_(Watchdog!Tcp!Fifo!vars)
    <=> [WatchdogProofs!Tcp!Fifo!Next]_(WatchdogProofs!Tcp!Fifo!vars)
BY DEF Watchdog!Tcp!Fifo!Next, Watchdog!Tcp!Fifo!Accept, Watchdog!Tcp!Fifo!Transmit,
   Watchdog!Tcp!Fifo!Take, Watchdog!Tcp!Fifo!vars, Watchdog!Tcp!Unsent, Watchdog!Request,
   WatchdogProofs!Tcp!Fifo!Next, WatchdogProofs!Tcp!Fifo!Accept,
   WatchdogProofs!Tcp!Fifo!Transmit, WatchdogProofs!Tcp!Fifo!Take,
   WatchdogProofs!Tcp!Fifo!vars, WatchdogProofs!Tcp!Unsent, WatchdogProofs!Request

\* So are its initial states,
LEMMA SameInit == Watchdog!Init <=> WatchdogProofs!Init
BY DEF Watchdog!Init, Watchdog!Tcp!Init, Watchdog!Thread, WatchdogProofs!Init,
   WatchdogProofs!Tcp!Init, WatchdogProofs!Thread

\* its heartbeats
LEMMA SameHeartbeats == Watchdog!Heartbeats = WatchdogProofs!Heartbeats
BY DEF Watchdog!Heartbeats, Watchdog!Positions, Watchdog!Tcp!Unsent, Watchdog!IsPing,
   Watchdog!IsPong, Watchdog!Cardinality, WatchdogProofs!Heartbeats,
   WatchdogProofs!Cardinality, WatchdogProofs!Positions,
   WatchdogProofs!Tcp!Unsent, WatchdogProofs!IsPing, WatchdogProofs!IsPong

\* and its types.
LEMMA SameWatchdogTypes == WatchdogProofs!TypeOK => Watchdog!TypeOK
BY DEF Watchdog!TypeOK, Watchdog!Tcp!TypeOK, Watchdog!Tcp!CallLabel, Watchdog!Tcp!WriteLabel,
   Watchdog!Thread, Watchdog!Request, Watchdog!Response, Watchdog!Operation,
   Watchdog!ResponseCode, Watchdog!MainLabel, Watchdog!ReaderLabel,
   WatchdogProofs!TypeOK, WatchdogProofs!Tcp!TypeOK, WatchdogProofs!Tcp!CallLabel,
   WatchdogProofs!Tcp!WriteLabel, WatchdogProofs!Thread, WatchdogProofs!Request,
   WatchdogProofs!Response, WatchdogProofs!Operation, WatchdogProofs!ResponseCode,
   WatchdogProofs!MainLabel, WatchdogProofs!ReaderLabel

\* The steps of a handler of a datagram are the same.
LEMMA SameHandlerStep ==
  \A t \in Worker : Modules!HandlerStep(t) <=> ModulesProofs!HandlerStep(t)
BY DEF Modules!HandlerStep, Modules!CopyMessage, Modules!CopySender, Modules!StartRead,
   Modules!Parse, Modules!Drop, Modules!Forget, Modules!LockMessageEvents,
   Modules!TriggerMessageHandlers, Modules!Responds, Modules!Reply,
   Modules!LockSubscriptionEvents, Modules!TriggerSubscription, Modules!Requests,
   Modules!UnlockSubscriptionEvents, Modules!Notify, Modules!Notified,
   Modules!AddSubscriber, Modules!WithSubscriber, Modules!Holding, Modules!WorkerStep,
   Modules!receiveVars, Modules!localVars, Modules!triggerVars, Modules!cacheVars,
   Modules!mainVars,
   ModulesProofs!HandlerStep, ModulesProofs!CopyMessage, ModulesProofs!CopySender,
   ModulesProofs!StartRead, ModulesProofs!Parse, ModulesProofs!Drop, ModulesProofs!Forget,
   ModulesProofs!LockMessageEvents, ModulesProofs!TriggerMessageHandlers,
   ModulesProofs!Responds, ModulesProofs!Reply, ModulesProofs!LockSubscriptionEvents,
   ModulesProofs!TriggerSubscription, ModulesProofs!Requests,
   ModulesProofs!UnlockSubscriptionEvents, ModulesProofs!Notify, ModulesProofs!Notified,
   ModulesProofs!AddSubscriber, ModulesProofs!WithSubscriber, ModulesProofs!Holding,
   ModulesProofs!WorkerStep, ModulesProofs!receiveVars, ModulesProofs!localVars,
   ModulesProofs!triggerVars, ModulesProofs!cacheVars, ModulesProofs!mainVars

\* The steps of the main thread through the task are the same.
LEMMA SameModulesMain == Modules!MainNext <=> ModulesProofs!MainNext
BY DEF Modules!MainNext, Modules!StartUpFails, Modules!InitializeEventManager,
   Modules!RegisterEventHandler, Modules!RegisterSubscriptionHandler, Modules!RegisterNext,
   Modules!NewEventID, Modules!TaskReturns, Modules!StopIoContext, Modules!Join,
   Modules!MainStep, Modules!Holding, Modules!receiveVars, Modules!localVars,
   Modules!triggerVars, Modules!cacheVars,
   ModulesProofs!MainNext, ModulesProofs!StartUpFails,
   ModulesProofs!InitializeEventManager, ModulesProofs!RegisterEventHandler,
   ModulesProofs!RegisterSubscriptionHandler, ModulesProofs!RegisterNext,
   ModulesProofs!NewEventID, ModulesProofs!TaskReturns, ModulesProofs!StopIoContext,
   ModulesProofs!Join, ModulesProofs!MainStep, ModulesProofs!Holding,
   ModulesProofs!receiveVars, ModulesProofs!localVars, ModulesProofs!triggerVars,
   ModulesProofs!cacheVars

\* The steps of the modules' server are the same.
LEMMA SameModulesNext == Modules!Next <=> ModulesProofs!Next
<1> USE DEF Modules!receiveVars, Modules!localVars, Modules!triggerVars,
    Modules!cacheVars, Modules!mainVars, ModulesProofs!receiveVars,
    ModulesProofs!localVars, ModulesProofs!triggerVars, ModulesProofs!cacheVars,
    ModulesProofs!mainVars
<1>1. /\ Modules!ReceiveFails <=> ModulesProofs!ReceiveFails
      /\ \A d \in Datagram : Modules!Arrive(d) <=> ModulesProofs!Arrive(d)
  BY DEF Modules!ReceiveFails, Modules!Arrive, ModulesProofs!ReceiveFails,
     ModulesProofs!Arrive
<1>2. \A t \in Worker :
        /\ Modules!Dispatch(t) <=> ModulesProofs!Dispatch(t)
        /\ Modules!EndThread(t) <=> ModulesProofs!EndThread(t)
        /\ Modules!Throws(t) <=> ModulesProofs!Throws(t)
  BY DEF Modules!Dispatch, Modules!EndThread, Modules!WorkerStep, Modules!Throws,
     Modules!HandlerThrows, Modules!LookUpThrows, ModulesProofs!Dispatch,
     ModulesProofs!EndThread, ModulesProofs!WorkerStep, ModulesProofs!Throws,
     ModulesProofs!HandlerThrows, ModulesProofs!LookUpThrows
<1> QED
  BY <1>1, <1>2, SameHandlerStep, SameModulesMain
     DEF Modules!Next, Modules!Alive, ModulesProofs!Next, ModulesProofs!Alive

\* So are its initial states
LEMMA SameModulesInit == Modules!Init <=> ModulesProofs!Init
BY DEF Modules!Init, ModulesProofs!Init

\* what it publishes
LEMMA SamePublishSubscribe ==
  /\ Modules!PublishSubscribe!Init <=> ModulesProofs!PublishSubscribe!Init
  /\ Modules!PublishSubscribe!vars = ModulesProofs!PublishSubscribe!vars
  /\ Modules!PublishSubscribe!Next <=> ModulesProofs!PublishSubscribe!Next
BY DEF Modules!PublishSubscribe!Init, Modules!PublishSubscribe!vars,
   Modules!PublishSubscribe!Next, Modules!PublishSubscribe!Register,
   Modules!PublishSubscribe!Subscribe, Modules!PublishSubscribe!Publish,
   Modules!PublishSubscribe!Notified, Modules!PublishSubscribe!FlattenSeq,
   Modules!PublishSubscribe!Settle, Modules!Owed, Modules!FlattenSeq, Modules!Requests,
   ModulesProofs!PublishSubscribe!Init, ModulesProofs!PublishSubscribe!vars,
   ModulesProofs!PublishSubscribe!Next, ModulesProofs!PublishSubscribe!Register,
   ModulesProofs!PublishSubscribe!Subscribe, ModulesProofs!PublishSubscribe!Publish,
   ModulesProofs!PublishSubscribe!Notified, ModulesProofs!PublishSubscribe!FlattenSeq,
   ModulesProofs!PublishSubscribe!Settle, ModulesProofs!Owed, ModulesProofs!FlattenSeq,
   ModulesProofs!Requests

\* and its types.
LEMMA SameModulesTypes == ModulesProofs!TypeOK => Modules!TypeOK
BY DEF Modules!TypeOK, Modules!Message, Modules!WorkerLabel, Modules!MessageEvent,
   Modules!Subscription, Modules!MainLabel, ModulesProofs!TypeOK, ModulesProofs!Message,
   ModulesProofs!WorkerLabel, ModulesProofs!MessageEvent, ModulesProofs!Subscription,
   ModulesProofs!MainLabel

\* Before the threads are up nothing is received, and the rest of each component is as
\* it is by itself.
ComponentsInv ==
  /\ phase \in Phase
  /\ phase # "up" => \A t \in Worker : worker[t] = "idle"
  /\ WatchdogProofs!HeartbeatInv
  /\ ModulesProofs!TypeInv
  /\ ModulesProofs!CollectingInv

\* The initial state satisfies the invariant.
LEMMA InitComponentsInv == Init => ComponentsInv
<1> SUFFICES ASSUME Init PROVE ComponentsInv
  OBVIOUS
<1>1. WatchdogProofs!HeartbeatInv
  BY SameInit, WatchdogConstants, WatchdogProofs!InitHeartbeatInv DEF Init
<1>2. ModulesProofs!TypeInv /\ ModulesProofs!CollectingInv
  BY SameModulesInit, ModulesConstants, ModulesProofs!InitTypeInv, ModulesProofs!InitMaps
     DEF Init
<1> QED
  BY <1>1, <1>2 DEF Init, Modules!Init, ComponentsInv, Phase

\* A step outside the connection leaves it as it is, whether or not it ends the program.
LEMMA ConnectionRests ==
  ASSUME WatchdogProofs!HeartbeatInv, UNCHANGED watchdogVars, terminated' \in BOOLEAN
  PROVE  WatchdogProofs!HeartbeatInv'
BY WatchdogConstants, WatchdogProofs!EndKeepsHeartbeat
   DEF watchdogVars, WatchdogProofs!tcpVars, WatchdogProofs!codeVars,
   WatchdogProofs!timerVars, WatchdogProofs!readVars

\* A step of the connection leaves the modules' server as it is, and the first receive
\* finds it idle.
LEMMA ModulesRest ==
  ASSUME ModulesProofs!TypeInv, ModulesProofs!CollectingInv,
         UNCHANGED <<messageBuffer, remoteEndpoint, worker, message, sender, position,
                     serviceRequests, messageEvents, subscriptionEvents, task, registered,
                     stopped>>,
         terminated' \in BOOLEAN,
         \/ receive' = receive
         \/ receive' \in {"none", "pending"} /\ \A t \in Worker : worker[t] = "idle"
  PROVE  ModulesProofs!TypeInv' /\ ModulesProofs!CollectingInv'
<1> USE DEF ModulesProofs!localVars, ModulesProofs!triggerVars, ModulesProofs!cacheVars,
    ModulesProofs!mainVars
<1>1. ModulesProofs!TypeInv'
  BY ModulesConstants, ModulesProofs!OthersKeepTypeInv
<1>2. ModulesProofs!CollectingInv'
  BY ModulesConstants, ModulesProofs!OthersKeepCollecting
<1> QED
  BY <1>1, <1>2

\* A step of the modules' server ends the program or not.
LEMMA ModulesTerminate ==
  ASSUME ModulesProofs!TypeInv, Modules!Next
  PROVE  terminated' \in BOOLEAN
<1>1. ModulesProofs!TypeInv'
  BY SameModulesNext, ModulesConstants, ModulesProofs!TypeInvStep
<1> QED
  BY <1>1 DEF ModulesProofs!TypeInv, ModulesProofs!TypeOK

\* So does a step of the connection.
LEMMA WatchdogTerminates ==
  ASSUME WatchdogProofs!HeartbeatInv, Watchdog!PromptNext
  PROVE  WatchdogProofs!HeartbeatInv' /\ terminated' \in BOOLEAN
<1>1. WatchdogProofs!HeartbeatInv'
  BY SamePromptNext, WatchdogConstants, WatchdogProofs!HeartbeatInvStep
<1> QED
  BY <1>1 DEF WatchdogProofs!HeartbeatInv, WatchdogProofs!CodeInv, WatchdogProofs!OwnTypeOK

\* Every step preserves the invariant.
LEMMA ComponentsInvStep == ComponentsInv /\ [Next]_vars => ComponentsInv'
<1> SUFFICES ASSUME ComponentsInv, [Next]_vars PROVE ComponentsInv'
  OBVIOUS
<1> USE DEF ComponentsInv
<1>1. terminated \in BOOLEAN
  BY DEF ModulesProofs!TypeInv, ModulesProofs!TypeOK
<1>2. CASE UNCHANGED vars
  BY <1>1, <1>2, ConnectionRests, ModulesRest DEF vars, modulesVars
<1>3. CASE Prelude
  <2>1. phase # "up" /\ phase' \in Phase /\ terminated' \in BOOLEAN
        /\ UNCHANGED watchdogVars
    BY <1>1, <1>3 DEF Prelude, ReadConfiguration, ConfigurationFails, InitializeSockets,
       SocketsFail, ReadAll, JoinAll, PhaseStep, Phase
  <2>2. UNCHANGED <<messageBuffer, remoteEndpoint, worker, message, sender, position,
                    serviceRequests, messageEvents, subscriptionEvents, task, registered,
                    stopped>>
        /\ (receive' = receive \/ receive' \in {"none", "pending"})
    BY <1>3 DEF Prelude, ReadConfiguration, ConfigurationFails, InitializeSockets,
       SocketsFail, ReadAll, JoinAll, modulesVars
  <2> QED
    BY <2>1, <2>2, ConnectionRests, ModulesRest
<1>4. CASE WatchdogStep(Watchdog!PromptNext)
  BY <1>4, WatchdogTerminates, ModulesRest DEF WatchdogStep, modulesVars
<1>5. CASE ModulesStep(Modules!Next)
  <2>1. phase = "up" /\ phase' = phase /\ UNCHANGED watchdogVars /\ Modules!Next
    BY <1>5 DEF ModulesStep
  <2>2. ModulesProofs!TypeInv' /\ ModulesProofs!CollectingInv'
    BY <2>1, SameModulesNext, ModulesConstants, ModulesProofs!TypeInvStep,
       ModulesProofs!CollectingInvStep
  <2> QED
    BY <2>1, <2>2, ModulesTerminate, ConnectionRests
<1> QED
  BY <1>2, <1>3, <1>4, <1>5 DEF Next

\* The invariant holds in every reachable state.
LEMMA ComponentsInvHolds == Spec => []ComponentsInv
BY InitComponentsInv, ComponentsInvStep, PTL DEF Spec

\* The invariant in the terms of the model.
LEMMA ComponentsAreTyped == ComponentsInv => TypeOK
<1> SUFFICES ASSUME ComponentsInv PROVE TypeOK
  OBVIOUS
<1>1. Watchdog!TypeOK
  BY SameWatchdogTypes, WatchdogConstants, WatchdogProofs!CodeInvTypes
     DEF ComponentsInv, WatchdogProofs!HeartbeatInv
<1>2. Modules!TypeOK
  BY SameModulesTypes DEF ComponentsInv, ModulesProofs!TypeInv
<1> QED
  BY <1>1, <1>2 DEF ComponentsInv, TypeOK

\* Service is type-correct, whatever its components do to what they share.
THEOREM TypeCorrect == Spec => []TypeOK
BY ComponentsAreTyped, ComponentsInvHolds, PTL

\* The task registers and runs only in a service that the watchdog watches: as long as the
\* connection is up and read, there is a heartbeat, whatever the threads do for the
\* modules in the meantime, if the watchdog grants and the threads are prompt.
THEOREM TaskAlwaysWatched == Spec => []TaskIsWatched
<1>1. ComponentsInv /\ TaskIsConnected => TaskIsWatched
  BY SameHeartbeats DEF ComponentsInv, TaskIsConnected, TaskIsWatched,
     WatchdogProofs!HeartbeatInv, WatchdogProofs!HeartbeatCount, WatchdogProofs!Started
<1> QED
  BY <1>1, ComponentsInvHolds, TaskAlwaysConnected, PTL

\* What holds of each component by itself, of the connection with a watchdog that grants and
\* prompt threads, holds of it in the service: pings carry the accepted code, there is one
\* heartbeat, no message is left behind in the queue of an open connection, every message of
\* a module is handled under the endpoint it came from, and no identifier is given twice.
THEOREM ComponentsStaySafe ==
  Spec => [](/\ Watchdog!PingsCarryTheCode
             /\ Watchdog!OneHeartbeat
             /\ Watchdog!NothingStranded
             /\ Modules!SenderMatches
             /\ Modules!IdentifiersDiffer)
<1>1. ComponentsInv => Watchdog!OneHeartbeat /\ Watchdog!NothingStranded
  BY SameHeartbeats, WatchdogConstants, WatchdogProofs!HeartbeatInvIsSafe
     DEF ComponentsInv, Watchdog!OneHeartbeat, Watchdog!NothingStranded,
     Watchdog!Tcp!NothingStranded, Watchdog!Tcp!NoCall, Watchdog!Tcp!NoWrite,
     Watchdog!Thread, WatchdogProofs!OneHeartbeat, WatchdogProofs!NothingStranded,
     WatchdogProofs!Tcp!NothingStranded, WatchdogProofs!Tcp!NoCall,
     WatchdogProofs!Tcp!NoWrite, WatchdogProofs!Thread
<1>2. ComponentsInv => Modules!SenderMatches /\ Modules!IdentifiersDiffer
  BY ModulesConstants, ModulesProofs!TypeInvIsSafe
     DEF ComponentsInv, Modules!SenderMatches, Modules!IdentifiersDiffer,
     ModulesProofs!SenderMatches, ModulesProofs!IdentifiersDiffer
<1>3. ComponentsInv => Watchdog!PingsCarryTheCode
  BY WatchdogConstants, WatchdogProofs!CodeInvIsSafe
     DEF ComponentsInv, WatchdogProofs!HeartbeatInv, Watchdog!PingsCarryTheCode,
     Watchdog!Positions, Watchdog!IsPing, WatchdogProofs!PingsCarryTheCode,
     WatchdogProofs!Positions, WatchdogProofs!IsPing
<1> QED
  BY <1>1, <1>2, <1>3, ComponentsInvHolds, PTL

\* In the whole program, too, the threads and the subscription events cache do what
\* PublishSubscribe promises: what the connection, the start-up and the shutdown do to the
\* threads they share changes nothing of it.
THEOREM ServicePublishesInOneStep == Spec => Modules!ImplementsPublishSubscribe
<1>1. Init => Modules!PublishSubscribe!Init
  BY SameModulesInit, SamePublishSubscribe, ModulesConstants, ModulesProofs!InitMaps DEF Init
<1>2. ComponentsInv /\ [Next]_vars =>
        [Modules!PublishSubscribe!Next]_(Modules!PublishSubscribe!vars)
  <2> SUFFICES ASSUME ComponentsInv, [Next]_vars
               PROVE  \/ Modules!PublishSubscribe!Next
                      \/ UNCHANGED Modules!PublishSubscribe!vars
    OBVIOUS
  <2>1. CASE ModulesStep(Modules!Next)
    <3>1. ModulesProofs!Next
      BY <2>1, SameModulesNext DEF ModulesStep
    <3>2. [ModulesProofs!PublishSubscribe!Next]_(ModulesProofs!PublishSubscribe!vars)
      BY <3>1, ModulesConstants, ModulesProofs!StepMaps DEF ComponentsInv
    <3>3. CASE ModulesProofs!PublishSubscribe!Next
      BY <3>3, SamePublishSubscribe
    <3>4. CASE UNCHANGED ModulesProofs!PublishSubscribe!vars
      BY <3>4 DEF Modules!PublishSubscribe!vars, Modules!Owed, Modules!FlattenSeq,
         Modules!Requests, ModulesProofs!PublishSubscribe!vars, ModulesProofs!Owed,
         ModulesProofs!FlattenSeq, ModulesProofs!Requests
    <3> QED
      BY <3>2, <3>3, <3>4
  <2>2. CASE UNCHANGED <<worker, message, position, serviceRequests, subscriptionEvents>>
    BY <2>2, ModulesConstants, ModulesProofs!OthersKeepCollecting
       DEF ComponentsInv, ModulesProofs!triggerVars,
       Modules!PublishSubscribe!vars, Modules!Owed, Modules!FlattenSeq,
       Modules!Requests, ModulesProofs!PublishSubscribe!vars, ModulesProofs!Owed,
       ModulesProofs!FlattenSeq, ModulesProofs!Requests
  <2>3. CASE Prelude
    BY <2>2, <2>3 DEF Prelude, ReadConfiguration, ConfigurationFails, InitializeSockets,
       SocketsFail, ReadAll, JoinAll, modulesVars
  <2>4. CASE WatchdogStep(Watchdog!PromptNext) \/ UNCHANGED vars
    BY <2>2, <2>4 DEF WatchdogStep, vars, modulesVars
  <2> QED
    BY <2>1, <2>3, <2>4 DEF Next
<1> QED
  BY <1>1, <1>2, ComponentsInvHolds, PTL
     DEF Spec, Modules!ImplementsPublishSubscribe, Modules!PublishSubscribe!Spec

\* Nor does what the threads do for the modules touch the connection: with a watchdog that
\* grants and prompt threads it is used as a spaced caller uses it, and what is said to the
\* watchdog goes through a FIFO channel.
THEOREM ServiceSendsInOrder ==
  Spec => Watchdog!ImplementsSpacedTcp /\ Watchdog!Tcp!ImplementsChannel
<1>1. Init => Watchdog!Tcp!Init /\ Watchdog!Tcp!Fifo!Init
  BY DEF Init, Watchdog!Init, Watchdog!Tcp!Init, Watchdog!Tcp!Fifo!Init, Watchdog!Tcp!Unsent
<1>2. ComponentsInv /\ ComponentsInv' /\ [Next]_vars =>
        /\ [Watchdog!Tcp!SpacedNext]_(Watchdog!Tcp!vars)
        /\ [Watchdog!Tcp!Fifo!Next]_(Watchdog!Tcp!Fifo!vars)
  <2> SUFFICES ASSUME ComponentsInv, ComponentsInv', [Next]_vars
               PROVE  /\ [Watchdog!Tcp!SpacedNext]_(Watchdog!Tcp!vars)
                      /\ [Watchdog!Tcp!Fifo!Next]_(Watchdog!Tcp!Fifo!vars)
    OBVIOUS
  <2>1. CASE WatchdogStep(Watchdog!PromptNext)
    <3>1. WatchdogProofs!PromptNext
      BY <2>1, SamePromptNext DEF WatchdogStep
    <3>2. [WatchdogProofs!Tcp!SpacedNext]_(WatchdogProofs!Tcp!vars)
      BY <3>1, WatchdogConstants, WatchdogProofs!PromptIsSpaced DEF ComponentsInv
    <3>3. [WatchdogProofs!Tcp!Fifo!Next]_(WatchdogProofs!Tcp!Fifo!vars)
      BY <3>1, WatchdogConstants, WatchdogProofs!PromptStepMaps DEF ComponentsInv
    <3> QED
      BY <3>2, <3>3, SameSpacedNext, SameFifo
  <2>2. CASE UNCHANGED watchdogVars
    BY <2>2 DEF watchdogVars, Watchdog!Tcp!vars, Watchdog!Tcp!Fifo!vars, Watchdog!Tcp!Unsent
  <2>3. CASE Prelude \/ ModulesStep(Modules!Next) \/ UNCHANGED vars
    BY <2>2, <2>3 DEF Prelude, ReadConfiguration, ConfigurationFails, InitializeSockets,
       SocketsFail, ReadAll, JoinAll, ModulesStep, vars
  <2> QED
    BY <2>1, <2>3 DEF Next
<1> QED
  BY <1>1, <1>2, ComponentsInvHolds, PTL
     DEF Spec, Watchdog!ImplementsSpacedTcp, Watchdog!Tcp!SpacedSpec,
     Watchdog!Tcp!ImplementsChannel, Watchdog!Tcp!Fifo!Spec

(***************************************************************************)
(* The threads.  There are never more handlers than threads: a step begins *)
(* one handler at most, on a free thread, and a thread ends only if it is  *)
(* free.  When all threads have ended there is none left for a handler,    *)
(* and no thread ever begins again.                                        *)
(***************************************************************************)
BusyWorkers == {t \in Worker : worker[t] \notin {"idle", "ended"}}
BusyCallers == {t \in Io : call[t] # "idle"}
BusyReader  == IF reader \in {"handling", "accepted", "notifying"} THEN 1 ELSE 0
BusyWrites  == {w \in Write : write[w] \in {"popped", "poppedEmpty", "clearing"}}

ThreadsInv ==
  /\ Handling <= Cardinality(Running)
  /\ task = "left" => Running = {}

\* The size of a set that has at most one element more than another.
LEMMA AtMostOneMore ==
  ASSUME NEW S, NEW T, NEW x, IsFiniteSet(S), T \subseteq S \union {x}
  PROVE  /\ Cardinality(S) \in Nat /\ Cardinality(T) \in Nat
         /\ Cardinality(T) <= Cardinality(S) + 1
<1>1. IsFiniteSet(S \union {x}) /\ Cardinality(S \union {x}) <= Cardinality(S) + 1
      /\ Cardinality(S) \in Nat
  BY FS_AddElement, FS_CardinalityType
<1>2. IsFiniteSet(T) /\ Cardinality(T) <= Cardinality(S \union {x})
  BY <1>1, FS_Subset
<1> QED
  BY <1>1, <1>2, FS_CardinalityType

\* What is counted is finite.
Counted ==
  /\ IsFiniteSet(BusyWorkers) /\ IsFiniteSet(BusyCallers) /\ IsFiniteSet(BusyWrites)
  /\ IsFiniteSet(Running)
  /\ Cardinality(BusyWorkers) \in Nat /\ Cardinality(BusyCallers) \in Nat
  /\ Cardinality(BusyWrites) \in Nat /\ BusyReader \in {0, 1}
  /\ Cardinality(Running) \in Nat
  /\ Handling = Cardinality(BusyWorkers) + Cardinality(BusyCallers) + BusyReader
                  + Cardinality(BusyWrites)

\* It always is.
LEMMA BusyIsFinite == Counted
<1>1. /\ IsFiniteSet(BusyWorkers) /\ IsFiniteSet(BusyCallers) /\ IsFiniteSet(BusyWrites)
      /\ IsFiniteSet(Running)
  BY FinitenessAssumption, FS_Subset DEF BusyWorkers, BusyCallers, BusyWrites, Running
<1> QED
  BY <1>1, FS_CardinalityType
     DEF Counted, Handling, BusyWorkers, BusyCallers, BusyReader, BusyWrites

\* A step of the modules' server moves one thread at most, and ends it only if it is idle;
\* no thread that has ended moves again.
LEMMA OneThreadMoves ==
  ASSUME Modules!TypeOK, Modules!Next
  PROVE  \E t : /\ \A u \in Worker : u # t => worker'[u] = worker[u]
                /\ t \in Worker /\ worker[t] = "ended" => worker'[t] = "ended"
                /\ t \in Worker /\ worker'[t] = "ended" => worker[t] \in {"idle", "ended"}
<1> USE DEF Modules!TypeOK, Modules!WorkerStep
<1>1. ASSUME NEW t \in Worker,
             \/ Modules!Dispatch(t) \/ Modules!HandlerStep(t)
             \/ Modules!EndThread(t) \/ Modules!Throws(t)
      PROVE  /\ \A u \in Worker : u # t => worker'[u] = worker[u]
             /\ worker[t] = "ended" => worker'[t] = "ended"
             /\ worker'[t] = "ended" => worker[t] \in {"idle", "ended"}
  BY <1>1 DEF Modules!Dispatch, Modules!HandlerStep, Modules!EndThread, Modules!Throws,
     Modules!HandlerThrows, Modules!LookUpThrows, Modules!CopyMessage, Modules!CopySender,
     Modules!StartRead, Modules!Parse, Modules!Drop, Modules!LockMessageEvents,
     Modules!TriggerMessageHandlers, Modules!Reply, Modules!LockSubscriptionEvents,
     Modules!TriggerSubscription, Modules!UnlockSubscriptionEvents, Modules!Notify,
     Modules!Notified, Modules!AddSubscriber
<1>2. ASSUME \/ Modules!MainNext \/ Modules!ReceiveFails
             \/ \E d \in Datagram : Modules!Arrive(d)
      PROVE  UNCHANGED worker
  BY <1>2 DEF Modules!MainNext, Modules!StartUpFails, Modules!InitializeEventManager,
     Modules!RegisterEventHandler, Modules!RegisterSubscriptionHandler,
     Modules!TaskReturns, Modules!StopIoContext, Modules!Join, Modules!ReceiveFails,
     Modules!Arrive
<1> QED
  BY <1>1, <1>2 DEF Modules!Next

\* The main thread leaves in one way: the threads, all of them ended, are joined.
LEMMA OnlyJoinLeaves ==
  ASSUME Modules!Next, task # "left", task' = "left"
  PROVE  Running' = {}
<1>1. CASE Modules!MainNext
  BY <1>1 DEF Modules!MainNext, Modules!StartUpFails, Modules!InitializeEventManager,
     Modules!RegisterEventHandler, Modules!RegisterSubscriptionHandler,
     Modules!TaskReturns, Modules!StopIoContext, Modules!Join, Modules!MainStep, Running
<1> QED
  BY <1>1, ModulesKeepTask

\* A step of the connection is one of a caller of sendMessage, of a chain of writes or of
\* the reader, if of any of them.
LEMMA OneHandlerMoves ==
  ASSUME Watchdog!TypeOK, Watchdog!PromptNext
  PROVE  \/ /\ UNCHANGED reader
            /\ \E t : \A u \in Io : u # t => call'[u] = call[u]
            /\ BusyWrites' \subseteq BusyWrites
         \/ /\ UNCHANGED <<call, reader>>
            /\ \E w : \A v \in Write : v # w => write'[v] = write[v]
         \/ UNCHANGED <<call, write>>
<1> USE DEF Watchdog!TypeOK, Watchdog!Tcp!TypeOK, Watchdog!Thread, Watchdog!Tcp!CallStep,
    Watchdog!Tcp!WriteStep, Watchdog!tcpVars, Watchdog!readVars
<1>1. ASSUME NEW t \in Watchdog!Thread, UNCHANGED reader,
             \/ Watchdog!Tcp!CallerStep(t) \/ \E m : Watchdog!Tcp!SendMessage(t, m)
      PROVE  /\ \A u \in Io : u # t => call'[u] = call[u]
             /\ BusyWrites' \subseteq BusyWrites
  BY <1>1 DEF Watchdog!Tcp!CallerStep, Watchdog!Tcp!CheckOpen, Watchdog!Tcp!CheckSending,
     Watchdog!Tcp!SetSending, Watchdog!Tcp!StartWriting, Watchdog!Tcp!SendMessage,
     BusyWrites
<1>2. ASSUME NEW w \in Write, UNCHANGED reader, Watchdog!Tcp!WriterStep(w)
      PROVE  UNCHANGED call /\ \A v \in Write : v # w => write'[v] = write[v]
  BY <1>2 DEF Watchdog!Tcp!WriterStep, Watchdog!Tcp!HeaderSent, Watchdog!Tcp!MessageSent,
     Watchdog!Tcp!Pop, Watchdog!Tcp!WriteNext, Watchdog!Tcp!QueueDrained,
     Watchdog!Tcp!ClearSending, Watchdog!Tcp!WriteFails,
     Watchdog!Tcp!DisconnectAfterFailure
<1>3. CASE Watchdog!SendNext
  BY <1>1, <1>2, <1>3 DEF Watchdog!SendNext, Watchdog!Sending
<1>4. CASE Watchdog!SendConnectRequest \/ \E t \in Io : Watchdog!OnTimerExpiration(t)
  BY <1>1, <1>4 DEF Watchdog!SendConnectRequest, Watchdog!OnTimerExpiration
<1>5. ASSUME \/ Watchdog!MainNext /\ ~Watchdog!SendConnectRequest
             \/ Watchdog!Receive \/ Watchdog!ReadFails \/ Watchdog!HandlerNext
             \/ Watchdog!TimerExpires \/ Watchdog!WatchdogGrants
      PROVE  UNCHANGED <<call, write>>
  BY <1>5 DEF Watchdog!MainNext, Watchdog!Connect, Watchdog!ConnectFails,
     Watchdog!StartReading, Watchdog!WaitForConnection, Watchdog!WakeUnnotified,
     Watchdog!ReturnFromWait, Watchdog!StartTimer, Watchdog!Stop, Watchdog!Receive,
     Watchdog!ReadFails, Watchdog!HandlerNext, Watchdog!AcceptCode,
     Watchdog!SetConnectionState, Watchdog!NotifyOne, Watchdog!RearmTimer,
     Watchdog!IgnoreResponse, Watchdog!HandlerThrows, Watchdog!TimerExpires,
     Watchdog!WatchdogGrants, Watchdog!WatchdogAnswers, Watchdog!Tcp!Connect,
     Watchdog!Tcp!Disconnect, Watchdog!Tcp!PeerTakes
<1> QED
  BY <1>3, <1>4, <1>5 DEF Watchdog!PromptNext, Watchdog!ServiceNext

\* So a step of the connection begins one handler at most.
LEMMA ConnectionBeginsOne ==
  ASSUME Watchdog!TypeOK, Watchdog!PromptNext, UNCHANGED worker
  PROVE  Handling' <= Handling + 1
<1>1. BusyWorkers' = BusyWorkers
  BY DEF BusyWorkers
<1>2. Counted /\ Counted'
  BY BusyIsFinite, PTL
<1> USE DEF Counted
<1>3. ASSUME UNCHANGED reader, NEW t, \A u \in Io : u # t => call'[u] = call[u],
             BusyWrites' \subseteq BusyWrites
      PROVE  Handling' <= Handling + 1
  <2>1. BusyCallers' \subseteq BusyCallers \union {t}
    BY <1>3 DEF BusyCallers
  <2>2. Cardinality(BusyCallers') <= Cardinality(BusyCallers) + 1
    BY <1>2, <2>1, AtMostOneMore
  <2>3. Cardinality(BusyWrites') <= Cardinality(BusyWrites)
    BY <1>2, <1>3, FS_Subset
  <2>4. BusyReader' = BusyReader
    BY <1>3 DEF BusyReader
  <2> QED
    BY <1>1, <1>2, <2>2, <2>3, <2>4
<1>4. ASSUME UNCHANGED <<call, reader>>,
             NEW w, \A v \in Write : v # w => write'[v] = write[v]
      PROVE  Handling' <= Handling + 1
  <2>1. BusyWrites' \subseteq BusyWrites \union {w}
    BY <1>4 DEF BusyWrites
  <2>2. Cardinality(BusyWrites') <= Cardinality(BusyWrites) + 1
    BY <1>2, <2>1, AtMostOneMore
  <2>3. BusyReader' = BusyReader /\ BusyCallers' = BusyCallers
    BY <1>4 DEF BusyReader, BusyCallers
  <2> QED
    BY <1>1, <1>2, <2>2, <2>3
<1>5. ASSUME UNCHANGED <<call, write>> PROVE Handling' <= Handling + 1
  <2>1. BusyWrites' = BusyWrites /\ BusyCallers' = BusyCallers
    BY <1>5 DEF BusyWrites, BusyCallers
  <2> QED
    BY <1>1, <1>2, <2>1
<1> QED
  BY <1>3, <1>4, <1>5, OneHandlerMoves

\* There are as many threads as handlers after every step of the connection
LEMMA ConnectionKeepsThreads ==
  ASSUME Watchdog!TypeOK, ThreadsInv, WatchdogStep(Watchdog!PromptNext)
  PROVE  ThreadsInv'
<1>1. UNCHANGED <<worker, task>> /\ Watchdog!PromptNext /\ Scheduled
  BY DEF WatchdogStep, modulesVars
<1>2. Running' = Running
  BY <1>1 DEF Running
<1>3. Counted /\ Counted'
  BY BusyIsFinite, PTL
<1>4. Handling' <= Handling + 1
  BY <1>1, ConnectionBeginsOne
<1>5. Handling' > Handling => Handling < Cardinality(Running)
  BY <1>1 DEF Scheduled, HandlerBegins, FreeThread
<1> QED
  BY <1>1, <1>2, <1>3, <1>4, <1>5 DEF ThreadsInv, Counted

\* and of the modules' server.
LEMMA ModulesKeepThreads ==
  ASSUME Modules!TypeOK, ThreadsInv, ModulesStep(Modules!Next)
  PROVE  ThreadsInv'
<1>1. UNCHANGED <<call, reader, write>> /\ Modules!Next /\ Scheduled
  BY DEF ModulesStep, watchdogVars
<1>2. PICK t : /\ \A u \in Worker : u # t => worker'[u] = worker[u]
               /\ t \in Worker /\ worker[t] = "ended" => worker'[t] = "ended"
               /\ t \in Worker /\ worker'[t] = "ended" => worker[t] \in {"idle", "ended"}
  BY <1>1, OneThreadMoves
<1>3. /\ Running' \subseteq Running
      /\ Running \subseteq Running' \union {t}
      /\ Running' # Running => BusyWorkers' \subseteq BusyWorkers
      /\ BusyWorkers' \subseteq BusyWorkers \union {t}
  BY <1>2 DEF Running, BusyWorkers
<1>4. Counted /\ Counted'
  BY BusyIsFinite, PTL
<1> USE DEF Counted
<1>5. BusyCallers' = BusyCallers /\ BusyReader' = BusyReader /\ BusyWrites' = BusyWrites
  BY <1>1 DEF BusyCallers, BusyReader, BusyWrites
<1>6. Cardinality(BusyWorkers') <= Cardinality(BusyWorkers) + 1
  BY <1>3, <1>4, AtMostOneMore
<1>7. Handling' <= Cardinality(Running')
  <2>1. CASE Running' = Running
    <3>1. Handling' > Handling => Handling < Cardinality(Running)
      BY <1>1 DEF Scheduled, HandlerBegins, FreeThread
    <3> QED
      BY <1>4, <1>5, <1>6, <2>1, <3>1 DEF ThreadsInv
  <2>2. CASE Running' # Running
    <3>1. Handling < Cardinality(Running)
      BY <1>1, <2>2 DEF Scheduled, FreeThread
    <3>2. Cardinality(Running) <= Cardinality(Running') + 1
      BY <1>3, <1>4, AtMostOneMore
    <3>3. Cardinality(BusyWorkers') <= Cardinality(BusyWorkers)
      BY <1>3, <1>4, <2>2, FS_Subset
    <3> QED
      BY <1>4, <1>5, <3>1, <3>2, <3>3
  <2> QED
    BY <2>1, <2>2
<1>8. task' = "left" => Running' = {}
  BY <1>1, <1>3, OnlyJoinLeaves DEF ThreadsInv
<1> QED
  BY <1>7, <1>8 DEF ThreadsInv

\* There are never more handlers than threads that have not ended, and when the program
\* has left ~Base no thread is left.
LEMMA ThreadsInvHolds == Spec => []ThreadsInv
<1>1. Init => ThreadsInv
  <2> SUFFICES ASSUME Init PROVE ThreadsInv
    OBVIOUS
  <2>1. BusyWorkers = {} /\ BusyCallers = {} /\ BusyReader = 0 /\ BusyWrites = {}
    BY DEF Init, Watchdog!Init, Watchdog!Tcp!Init, Watchdog!Thread, Modules!Init,
       BusyWorkers, BusyCallers, BusyReader, BusyWrites
  <2>2. Handling = 0
    BY <2>1, BusyIsFinite, FS_EmptySet DEF Counted
  <2> QED
    BY <2>2, BusyIsFinite DEF Counted, ThreadsInv, Init, Modules!Init
<1>2. ComponentsInv /\ ThreadsInv /\ [Next]_vars => ThreadsInv'
  <2> SUFFICES ASSUME ComponentsInv, ThreadsInv, [Next]_vars PROVE ThreadsInv'
    OBVIOUS
  <2>1. Watchdog!TypeOK /\ Modules!TypeOK
    BY ComponentsAreTyped DEF TypeOK
  <2>2. CASE UNCHANGED <<worker, call, reader, write, task>>
    BY <2>2 DEF ThreadsInv, Handling, Running
  <2>3. CASE Prelude \/ UNCHANGED vars
    BY <2>2, <2>3 DEF Prelude, ReadConfiguration, ConfigurationFails, InitializeSockets,
       SocketsFail, ReadAll, JoinAll, watchdogVars, modulesVars, vars
  <2> QED
    BY <2>1, <2>3, ConnectionKeepsThreads, ModulesKeepThreads DEF Next
<1> QED
  BY <1>1, <1>2, ComponentsInvHolds, PTL DEF Spec

\* When the program has left ~Base no handler of either component is running, nor does
\* one begin, for any number of threads and whatever they were doing when the main
\* thread stopped the io_context: the threads are joined, and what runs, runs on them.
THEOREM NothingOutlives == Spec => []NothingOutlivesBase
<1>1. ThreadsInv => NothingOutlivesBase
  BY BusyIsFinite, FS_EmptySet DEF Counted, ThreadsInv, NothingOutlivesBase
<1> QED
  BY <1>1, ThreadsInvHolds, PTL
=============================================================================
