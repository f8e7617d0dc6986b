--------------------------- MODULE PublishSubscribe ---------------------------
(***************************************************************************)
(* What the subscription events cache and the threads that use it promise  *)
(* together: a request is published in one step, to those who subscribe at *)
(* that moment, once for each of their subscriptions and in the order of   *)
(* events and subscriptions; and each notification owed is settled once,   *)
(* in that order, whatever is published, subscribed and registered in the  *)
(* meantime by others.                                                     *)
(***************************************************************************)
EXTENDS Naturals, SequencesExt

CONSTANTS
  Worker,    \* who publishes
  Module,    \* who subscribes
  Type,      \* names of message types
  SuffixOf   \* <<s, t>>: the name s is a suffix of the name t

VARIABLES
  events,    \* the subscription events, with their subscribers
  owed       \* the modules each worker has still to notify

vars == <<events, owed>>

Event == [type : Type, responds : BOOLEAN, subscribers : Seq(Module)]

TypeOK == events \in Seq(Event) /\ owed \in [Worker -> Seq(Module)]

Init == events = <<>> /\ owed = [t \in Worker |-> <<>>]

Register(e) ==
  /\ e.subscribers = <<>>
  /\ events' = Append(events, e)
  /\ UNCHANGED owed

\* A module subscribes to the events of exactly this type.
Subscribe(m, type) ==
  /\ events' = [i \in DOMAIN events |->
       IF events[i].type = type THEN [events[i] EXCEPT !.subscribers = Append(@, m)]
       ELSE events[i]]
  /\ UNCHANGED owed

\* Whom event e notifies of a message whose type ends with its own.
Notified(e, type) ==
  IF <<e.type, type>> \in SuffixOf /\ e.responds THEN e.subscribers ELSE <<>>

Publish(t, type) ==
  /\ owed[t] = <<>>
  /\ owed' = [owed EXCEPT ![t] = FlattenSeq([i \in DOMAIN events |-> Notified(events[i], type)])]
  /\ UNCHANGED events

\* The notification is sent, or given up because the database has no usable record.
Settle(t) ==
  /\ owed[t] # <<>>
  /\ owed' = [owed EXCEPT ![t] = Tail(@)]
  /\ UNCHANGED events

Next ==
  \/ \E type \in Type, responds \in BOOLEAN :
       Register([type |-> type, responds |-> responds, subscribers |-> <<>>])
  \/ \E m \in Module, type \in Type : Subscribe(m, type)
  \/ \E t \in Worker : Settle(t) \/ \E type \in Type : Publish(t, type)

Spec == Init /\ [][Next]_vars
=============================================================================
