------------------------------- MODULE Service -------------------------------
(***************************************************************************)
(* The whole service: main (ServiceMain.cpp) from the configuration        *)
(* (ServiceConfigurationReader.cpp, ServiceConfiguration.cpp) through the  *)
(* connection to the watchdog and the task to the end of ~Base             *)
(* (ServiceBase.cpp), and the two components that share the threads of the *)
(* io_context: WatchdogConnection and ContextWorker.                       *)
(*                                                                         *)
(* Of the connection this is PromptNext, and what is shown here rests on   *)
(* its two assumptions: a watchdog that grants every request once, and     *)
(* threads that finish sending a request before the timer that was started *)
(* after it expires.                                                       *)
(*                                                                         *)
(* The main thread goes through the start-up of the one (startUp) and then *)
(* through the task of the other (task).  A thread of the io_context runs  *)
(* one handler at a time, of either component.                             *)
(***************************************************************************)
EXTENDS Naturals, Sequences, FiniteSets

LOCAL INSTANCE SequencesExt

CONSTANTS
  Main, Io, Write, Code, ZeroCode, NoCode, Answer,
  QueueBound, WireBound, ReplyBound, TimerBound,
  Worker, Module, Type, SuffixOf, Registration, Datagram, None, SubscriberBound,
  ConfigurationFile   \* what the configuration file may be

VARIABLES
  phase,   \* what main has come to before it connects to the watchdog
  socket, messagesQueue, sendingInProgress, call, write, wire, undefined,
  startUp, connectionState, sequenceCode, timer, expired, reader, received, replies,
  receive, messageBuffer, remoteEndpoint, worker, message, sender, position,
  serviceRequests, messageEvents, subscriptionEvents, task, registered, stopped,
  terminated

Watchdog == INSTANCE WatchdogConnection WITH main <- startUp
Modules  == INSTANCE ContextWorker WITH main <- task

watchdogVars ==
  <<socket, messagesQueue, sendingInProgress, call, write, wire, undefined, startUp,
    connectionState, sequenceCode, timer, expired, reader, received, replies>>
modulesVars ==
  <<receive, messageBuffer, remoteEndpoint, worker, message, sender, position,
    serviceRequests, messageEvents, subscriptionEvents, task, registered, stopped>>

vars == <<phase, watchdogVars, modulesVars, terminated>>

\* What is read of the configuration file, in this order: the file, its JSON, the object
\* ServerConfiguration and its four numbers.  Each is good, or bad (not there, not
\* JSON, of another type), or, from the object on, missing.
Part == {"good", "bad", "missing"}

ASSUME ConfigurationAssumption == ConfigurationFile \subseteq Seq(Part)

\* What the components assume of their constants.
ASSUME ComponentsAssumption ==
  Watchdog!CodeAssumption /\ Watchdog!WatchdogAssumption /\ Modules!ConstantsAssumption

\* The threads, and the chains of writes that can be under way, are counted.
ASSUME FinitenessAssumption ==
  IsFiniteSet(Worker) /\ IsFiniteSet(Io) /\ IsFiniteSet(Write)

Phase == {"configuration", "sockets", "reading", "threads", "up", "ended"}

TypeOK == phase \in Phase /\ Watchdog!TypeOK /\ Modules!TypeOK

Init ==
  /\ phase = "configuration"
  /\ Watchdog!Init
  /\ Modules!Init
  /\ receive = "none"

(***************************************************************************)
(* main before it connects.                                                *)
(***************************************************************************)

PhaseStep(from, to) ==
  /\ phase = from
  /\ phase' = to

\* The first part that is not good decides: a bad one is reported, and main returns,
\* with nothing to stop; a missing one is undefined behaviour, for the json is const.
FirstFlaw(file) == SelectInSeq(file, LAMBDA part : part # "good")

ReadConfiguration(file) ==
  /\ FirstFlaw(file) = 0
  /\ PhaseStep("configuration", "sockets")
  /\ UNCHANGED <<watchdogVars, modulesVars, terminated>>

ConfigurationFails(file) ==
  /\ FirstFlaw(file) # 0
  /\ PhaseStep("configuration", "ended")
  /\ terminated' = (file[FirstFlaw(file)] = "missing")
  /\ UNCHANGED <<watchdogVars, modulesVars>>

InitializeSockets ==
  /\ PhaseStep("sockets", "reading")
  /\ UNCHANGED <<watchdogVars, modulesVars, terminated>>

\* The exception is caught and reported, but main does not look: it calls connect on
\* the connection that was not made.
SocketsFail ==
  /\ phase = "sockets"
  /\ terminated' = TRUE
  /\ UNCHANGED <<phase, watchdogVars, modulesVars>>

\* A socket that could not be bound, which nobody notices, receives nothing.
ReadAll ==
  /\ PhaseStep("reading", "threads")
  /\ receive' \in {"none", "pending"}
  /\ UNCHANGED <<watchdogVars, messageBuffer, remoteEndpoint, worker, message, sender,
                 position, serviceRequests, messageEvents, subscriptionEvents, task,
                 registered, stopped, terminated>>

JoinAll ==
  /\ PhaseStep("threads", "up")
  /\ UNCHANGED <<watchdogVars, modulesVars, terminated>>

Prelude ==
  \/ \E file \in ConfigurationFile :
       ReadConfiguration(file) \/ ConfigurationFails(file)
  \/ InitializeSockets \/ SocketsFail \/ ReadAll \/ JoinAll

(***************************************************************************)
(* The threads of the io_context.                                          *)
(***************************************************************************)

\* The threads that have not ended.  Which of them runs a handler of the connection does
\* not matter: it is one that runs none of a datagram.
Running == {t \in Worker : worker[t] # "ended"}

\* The handlers that are running: of datagrams, of the timer, of a response of the
\* watchdog, of a write that has completed.
Handling ==
  Cardinality({t \in Worker : worker[t] \notin {"idle", "ended"}})
  + Cardinality({t \in Io : call[t] # "idle"})
  + (IF reader \in {"handling", "accepted", "notifying"} THEN 1 ELSE 0)
  + Cardinality({w \in Write : write[w] \in {"popped", "poppedEmpty", "clearing"}})

\* The step begins a handler, or is one.
HandlerBegins ==
  \/ Handling' > Handling
  \/ reader = "reading" /\ reader' # "reading"
  \/ receive \in {"completed", "failed"} /\ receive' = "none"
  \/ \E w \in Write : write[w] = "header" /\ write'[w] = "body"

FreeThread == Handling < Cardinality(Running)

\* A handler takes a free thread of an io_context that is not stopped; a thread that
\* ends is free.
Scheduled ==
  /\ HandlerBegins => ~stopped /\ FreeThread
  /\ Running' # Running => FreeThread

(***************************************************************************)
(* The main thread, from one component to the other.                       *)
(***************************************************************************)

\* Mutant: the event manager is initialised before the response is waited for.
HandOverEarly ==
  /\ startUp' # "stopped"
  /\ task = "starting" /\ task' = "leaving" => startUp \in {"refused", "timedOut"}
  /\ task = "starting" /\ task' = "registering" => startUp \in {"wait", "running"}

\* main leaves without a connection, and has the task run only with one; the end of
\* the program is that of the task.
HandOver ==
  /\ startUp' # "stopped"
  /\ task = "starting" /\ task' = "leaving" => startUp \in {"refused", "timedOut"}
  /\ task = "starting" /\ task' = "registering" => startUp = "running"

Alive == Watchdog!Alive /\ Modules!Alive /\ phase # "ended"

WatchdogStep(Step) ==
  /\ Alive /\ phase = "up"
  /\ UNCHANGED <<phase, modulesVars>>
  /\ Step
  /\ Scheduled /\ HandOver

ModulesStep(Step) ==
  /\ Alive /\ phase = "up"
  /\ UNCHANGED <<phase, watchdogVars>>
  /\ Step
  /\ Scheduled /\ HandOver

Next ==
  \/ Alive /\ Prelude
  \/ WatchdogStep(Watchdog!PromptNext)
  \/ ModulesStep(Modules!Next)

Spec == Init /\ [][Next]_vars

\* The main thread.
MainThread ==
  \/ Alive /\ Prelude
  \/ WatchdogStep(Watchdog!MainNext /\ ~Watchdog!ConnectFails)
  \/ WatchdogStep(Watchdog!Sending /\ Watchdog!Tcp!CallerStep(Main))
  \/ ModulesStep(Modules!MainNext)

\* The main thread is scheduled; a handler that has begun goes on; operations complete
\* and the watchdog grants.  A handler that is ready again and again is begun: the
\* io_context runs handlers in the order in which they became ready, so none is passed
\* over for ever while others take the threads.
Fairness ==
  /\ WF_vars(MainThread)
  /\ WF_vars(WatchdogStep(Watchdog!Prompt /\ Watchdog!TimerExpires))
  /\ WF_vars(WatchdogStep(Watchdog!WatchdogGrants))
  /\ \A t \in Io : WF_vars(WatchdogStep(Watchdog!Sending /\ Watchdog!Tcp!CallerStep(t)))
  /\ \A w \in Write : SF_vars(WatchdogStep(Watchdog!Sending /\ Watchdog!Tcp!Progress(w)))
  /\ SF_vars(WatchdogStep(\E t \in Io : Watchdog!OnTimerExpiration(t)))
  /\ SF_vars(WatchdogStep(Watchdog!Receive \/ Watchdog!HandlerNext))
  /\ SF_vars(ModulesStep(\E t \in Worker : Modules!Dispatch(t)))
  /\ \A t \in Worker : WF_vars(ModulesStep(Modules!HandlerStep(t)))
  /\ WF_vars(ModulesStep(\E t \in Worker : Modules!EndThread(t)))

FairSpec == Spec /\ Fairness

(***************************************************************************)
(* Properties.                                                             *)
(***************************************************************************)

\* While the task registers its handlers and runs, main is through with its start-up
\* and the watchdog has accepted the service.
TaskIsConnected ==
  task \in {"registering", "running"} =>
    startUp = "running" /\ connectionState = "Connected"

\* The task registers its handlers and runs in a service the watchdog watches: while
\* the connection is up there is a heartbeat.
TaskIsWatched ==
  /\ TaskIsConnected
  /\ task \in {"registering", "running"} /\ socket = "open" /\ reader # "dead"
       => Watchdog!Heartbeats = 1

\* When ~Base has joined the threads no handler of either component is left, and none
\* begins, that would use what is then destroyed: the connection, the caches, the
\* sockets.  The threads, of which ~Base knows, are counted against the handlers, of
\* which it does not.
NothingOutlivesBase == task = "left" => Handling = 0

\* However busy the threads are with datagrams, a ping whose time has come goes out.
PingGoesOut ==
  expired > 0 ~> (wire # <<>> \/ socket = "closed" \/ stopped \/ terminated)

\* However busy the threads are with the watchdog, a datagram is followed by the next.
ListeningGoesOn == receive = "completed" ~> (receive = "pending" \/ stopped \/ terminated)

\* A service that leaves gets to the end of ~Base, whatever its threads are doing for
\* either component, unless one of them ends the process before.
ShutdownCompletes == task = "leaving" ~> (task = "left" \/ terminated)
=============================================================================
