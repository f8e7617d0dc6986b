------------------------ MODULE PublishSubscribeProofs ------------------------
(***************************************************************************)
(* ContextWorker implements PublishSubscribe, for any number of threads    *)
(* and modules and whatever the task registers: the threads that go        *)
(* through the subscription events one by one, and the notifications they  *)
(* collect on the way, are requests published in one step.                 *)
(***************************************************************************)
EXTENDS ContextWorkerProofs, WellFoundedInduction

(***************************************************************************)
(* Sequences of sequences, one behind the other.  FlattenSeq goes through  *)
(* them from the last; what a thread does to them is take away the first.  *)
(***************************************************************************)

\* Induction up to a number.
LEMMA UpTo ==
  ASSUME NEW n \in Nat, NEW G, 0 \in G, \A k \in 0 .. n - 1 : k \in G => k + 1 \in G
  PROVE  0 .. n \subseteq G
<1> DEFINE T == (0 .. n) \ G
<1> SUFFICES ASSUME T # {} PROVE FALSE
  OBVIOUS
<1>1. T \subseteq Nat
  OBVIOUS
<1>2. PICK m \in T : \A k \in T : ~(<<k, m>> \in OpToRel(<, Nat))
  BY <1>1, WFMin, NatLessThanWellFounded
<1>3. \A k \in T : ~(k < m)
  BY <1>1, <1>2 DEF OpToRel
<1>4. m - 1 \in 0 .. n - 1 /\ m - 1 \notin T
  BY <1>3
<1> QED
  BY <1>4

\* The parts up to each place, as FlattenSeq defines them.
Step(parts, f, i) == IF i = 1 THEN parts[i] ELSE f[i - 1] \o parts[i]

Flattened(parts, f) == f = [i \in 1 .. Len(parts) |-> Step(parts, f, i)]

\* As far as place k.
FlattenedUpTo(k, parts, S) ==
  \E f \in [1 .. k -> Seq(S)] : \A i \in 1 .. k : f[i] = Step(parts, f, i)

\* What is given so far gives the next.
LEMMA FlattenedNext ==
  ASSUME NEW S, NEW parts \in Seq(Seq(S)), NEW k \in 0 .. Len(parts) - 1,
         FlattenedUpTo(k, parts, S)
  PROVE  FlattenedUpTo(k + 1, parts, S)
<1>1. PICK f \in [1 .. k -> Seq(S)] : \A i \in 1 .. k : f[i] = Step(parts, f, i)
  BY DEF FlattenedUpTo
<1> DEFINE g == [i \in 1 .. k + 1 |-> IF i = k + 1 THEN Step(parts, f, i) ELSE f[i]]
<1>2. parts[k + 1] \in Seq(S) /\ k \in Nat
  BY LenProperties, ElementOfSeq
<1>3. Step(parts, f, k + 1) \in Seq(S)
  BY <1>2, ConcatProperties DEF Step
<1>4. g \in [1 .. k + 1 -> Seq(S)]
  BY <1>2, <1>3
<1>5. ASSUME NEW i \in 1 .. k + 1 PROVE g[i] = Step(parts, g, i)
  <2>1. i # 1 => i - 1 \in 1 .. k /\ g[i - 1] = f[i - 1]
    BY <1>2
  <2>2. Step(parts, g, i) = Step(parts, f, i)
    BY <2>1 DEF Step
  <2>3. i # k + 1 => f[i] = Step(parts, f, i)
    BY <1>1, <1>2
  <2> QED
    BY <2>2, <2>3
<1> HIDE DEF g
<1> QED
  BY <1>4, <1>5 DEF FlattenedUpTo

\* So there is a function that gives them all.
LEMMA FlattenedExists ==
  ASSUME NEW S, NEW parts \in Seq(Seq(S))
  PROVE  \E f \in [1 .. Len(parts) -> Seq(S)] : Flattened(parts, f)
<1> DEFINE G == {k \in 0 .. Len(parts) : FlattenedUpTo(k, parts, S)}
<1>1. Len(parts) \in Nat
  BY LenProperties
<1>2. FlattenedUpTo(0, parts, S)
  <2>1. \A i \in 1 .. 0 : FALSE
    OBVIOUS
  <2>2. \E f : f \in [1 .. 0 -> Seq(S)]
    <3>1. [i \in 1 .. 0 |-> <<>>] \in [1 .. 0 -> Seq(S)]
      BY <2>1
    <3> QED
      BY <3>1
  <2> QED
    BY <2>1, <2>2 DEF FlattenedUpTo
<1>3. 0 \in G
  BY <1>1, <1>2
<1>4. ASSUME NEW k \in 0 .. Len(parts) - 1, k \in G PROVE k + 1 \in G
  <2>1. FlattenedUpTo(k + 1, parts, S)
    BY <1>4, FlattenedNext
  <2> QED
    BY <1>1, <2>1
<1>5. G \subseteq 0 .. Len(parts) /\ (Len(parts) \in G => FlattenedUpTo(Len(parts), parts, S))
  OBVIOUS
<1> HIDE DEF G
<1>6. 0 .. Len(parts) \subseteq G
  BY <1>1, <1>3, <1>4, UpTo
<1>7. FlattenedUpTo(Len(parts), parts, S)
  BY <1>1, <1>5, <1>6
<1> QED
  BY <1>7 DEF FlattenedUpTo, Flattened

\* FlattenSeq gives the last of one such function.
LEMMA FlattenFunction ==
  ASSUME NEW S, NEW parts \in Seq(Seq(S)), parts # <<>>
  PROVE  \E f : Flattened(parts, f) /\ FlattenSeq(parts) = f[Len(parts)]
<1> DEFINE f == CHOOSE f : Flattened(parts, f)
<1>1. Flattened(parts, f)
  BY FlattenedExists
<1>2. Len(parts) # 0
  BY LenProperties, EmptySeq
<1>3. FlattenSeq(parts) = f[Len(parts)]
  BY <1>2 DEF FlattenSeq, Flattened, Step
<1> QED
  BY <1>1, <1>3

\* Each place of such a function, and its type.
LEMMA FlattenedPlaces ==
  ASSUME NEW S, NEW parts \in Seq(Seq(S)), NEW f, Flattened(parts, f)
  PROVE  \A i \in 1 .. Len(parts) : f[i] = Step(parts, f, i) /\ f[i] \in Seq(S)
<1> DEFINE G == {k \in 0 .. Len(parts) : k = 0 \/ f[k] \in Seq(S)}
<1>1. Len(parts) \in Nat /\ \A i \in 1 .. Len(parts) : parts[i] \in Seq(S)
  BY LenProperties, ElementOfSeq
<1>2. \A i \in 1 .. Len(parts) : f[i] = Step(parts, f, i)
  BY DEF Flattened
<1>3. 0 \in G
  BY <1>1
<1>4. ASSUME NEW k \in 0 .. Len(parts) - 1, k \in G PROVE k + 1 \in G
  <2>1. k + 1 \in 1 .. Len(parts) /\ f[k + 1] = Step(parts, f, k + 1)
    BY <1>1, <1>2
  <2>2. f[k + 1] \in Seq(S)
    BY <1>1, <1>4, <2>1, ConcatProperties DEF Step
  <2> QED
    BY <1>1, <2>1, <2>2
<1>5. \A i \in 1 .. Len(parts) : i \in G => f[i] \in Seq(S)
  OBVIOUS
<1> HIDE DEF G
<1>6. 0 .. Len(parts) \subseteq G
  BY <1>1, <1>3, <1>4, UpTo
<1> QED
  BY <1>1, <1>2, <1>5, <1>6

\* FlattenSeq of nothing.
LEMMA FlattenEmpty == FlattenSeq(<<>>) = <<>>
BY EmptySeq DEF FlattenSeq

\* g puts the parts q one behind the other, and f a part p and then the parts q.
BothFlattened(S, n, p, q, f, g) ==
  /\ f[1] = p /\ \A k \in 1 .. n : f[k + 1] = f[k] \o q[k]
  /\ g[1] = q[1] /\ \A k \in 1 .. n - 1 : g[k + 1] = g[k] \o q[k + 1]
  /\ \A k \in 1 .. n : q[k] \in Seq(S) /\ g[k] \in Seq(S)

\* A part put before others is put before all of what is made of them.
LEMMA PutBefore ==
  ASSUME NEW S, NEW n \in Nat \ {0}, NEW p \in Seq(S), NEW q, NEW f, NEW g,
         BothFlattened(S, n, p, q, f, g)
  PROVE  f[n + 1] = p \o g[n]
<1> USE DEF BothFlattened
<1> DEFINE G == {k \in 0 .. n - 1 : f[k + 2] = p \o g[k + 1]}
<1>1. 0 \in G
  <2>1. 1 \in 1 .. n /\ 0 \in 0 .. n - 1
    OBVIOUS
  <2>2. f[1 + 1] = p \o g[1]
    BY <2>1
  <2> QED
    BY <2>1, <2>2
<1>2. ASSUME NEW k \in 0 .. (n - 1) - 1, k \in G PROVE k + 1 \in G
  <2>0. f[k + 2] = p \o g[k + 1]
    BY <1>2
  <2> HIDE DEF G
  <2>1. /\ k + 1 \in 0 .. n - 1 /\ k + 1 \in 1 .. n - 1 /\ k + 1 \in 1 .. n /\ k + 2 \in 1 .. n
        /\ (k + 1) + 1 = k + 2 /\ (k + 2) + 1 = k + 3 /\ (k + 1) + 2 = k + 3
    OBVIOUS
  <2>3. f[k + 3] = f[k + 2] \o q[k + 2]
    BY <2>1
  <2>4. g[k + 2] = g[k + 1] \o q[k + 2]
    BY <2>1
  <2>5. q[k + 2] \in Seq(S) /\ g[k + 1] \in Seq(S)
    BY <2>1
  <2>6. (p \o g[k + 1]) \o q[k + 2] = p \o (g[k + 1] \o q[k + 2])
    <3>1. PICK a \in Seq(S), c \in Seq(S) : a = g[k + 1] /\ c = q[k + 2]
      BY <2>5
    <3>2. (p \o a) \o c = p \o (a \o c)
      BY ConcatAssociative
    <3> QED
      BY <3>1, <3>2
  <2>7. f[(k + 1) + 2] = p \o g[(k + 1) + 1]
    BY <2>0, <2>1, <2>3, <2>4, <2>6
  <2> QED
    BY <2>1, <2>7 DEF G
<1>3. n - 1 \in G => f[n + 1] = p \o g[n]
  OBVIOUS
<1> HIDE DEF G
<1>4. n - 1 \in Nat
  OBVIOUS
<1>5. 0 .. n - 1 \subseteq G
  BY <1>1, <1>2, <1>4, UpTo
<1> QED
  BY <1>3, <1>4, <1>5

\* FlattenSeq of a first part with others behind it.
LEMMA FlattenFirst ==
  ASSUME NEW S, NEW parts \in Seq(Seq(S)), parts # <<>>
  PROVE  /\ FlattenSeq(parts) = Head(parts) \o FlattenSeq(Tail(parts))
         /\ FlattenSeq(parts) \in Seq(S)
         /\ FlattenSeq(Tail(parts)) \in Seq(S)
<1>0. PICK n \in Nat, q \in Seq(Seq(S)) : n + 1 = Len(parts) /\ q = Tail(parts)
  <2>1. Len(parts) - 1 \in Nat /\ (Len(parts) - 1) + 1 = Len(parts)
    BY LenProperties, EmptySeq
  <2> QED
    BY <2>1, HeadTailProperties
<1>1. /\ Head(parts) = parts[1] /\ Len(q) = n
      /\ \A i \in 1 .. n : q[i] = parts[i + 1]
      /\ \A i \in 1 .. n + 1 : parts[i] \in Seq(S)
  BY <1>0, HeadTailProperties, LenProperties, ElementOfSeq
<1>2. PICK f : Flattened(parts, f) /\ FlattenSeq(parts) = f[n + 1]
  BY <1>0, FlattenFunction
<1>3. \A i \in 1 .. n + 1 : f[i] = Step(parts, f, i) /\ f[i] \in Seq(S)
  BY <1>0, <1>2, FlattenedPlaces
<1>4. f[1] = parts[1] /\ \A k \in 1 .. n : f[k + 1] = f[k] \o q[k]
  <2>1. 1 \in 1 .. n + 1
    BY <1>1
  <2>2. f[1] = parts[1]
    BY <1>3, <2>1 DEF Step
  <2>3. ASSUME NEW k \in 1 .. n PROVE f[k + 1] = f[k] \o q[k]
    <3>1. k + 1 \in 1 .. n + 1 /\ k + 1 # 1 /\ (k + 1) - 1 = k /\ q[k] = parts[k + 1]
      BY <1>1
    <3>2. f[k + 1] = f[(k + 1) - 1] \o parts[k + 1]
      BY <1>3, <3>1 DEF Step
    <3> QED
      BY <3>1, <3>2
  <2> QED
    BY <2>2, <2>3
<1>5. CASE n = 0
  <2>1. q = <<>>
    BY <1>1, <1>5, EmptySeq
  <2>2. FlattenSeq(parts) = Head(parts) /\ FlattenSeq(q) = <<>>
    BY <1>1, <1>2, <1>4, <1>5, <2>1, FlattenEmpty
  <2>3. Head(parts) \in Seq(S) /\ <<>> \in Seq(S)
    BY <1>1, EmptySeq
  <2> QED
    BY <2>2, <2>3, <1>0, ConcatEmptySeq
<1>6. CASE n # 0
  <2>1. q # <<>>
    BY <1>1, <1>6, EmptySeq
  <2>2. PICK g : Flattened(q, g) /\ FlattenSeq(q) = g[n]
    BY <1>1, <2>1, FlattenFunction
  <2>3. \A i \in 1 .. n : g[i] = Step(q, g, i) /\ g[i] \in Seq(S)
    BY <1>1, <2>2, FlattenedPlaces
  <2>4. g[1] = q[1] /\ \A k \in 1 .. n - 1 : g[k + 1] = g[k] \o q[k + 1]
    <3>1. 1 \in 1 .. n
      BY <1>1, <1>6
    <3>2. g[1] = q[1]
      BY <2>3, <3>1 DEF Step
    <3>3. ASSUME NEW k \in 1 .. n - 1 PROVE g[k + 1] = g[k] \o q[k + 1]
      <4>1. k + 1 \in 1 .. n /\ k + 1 # 1 /\ (k + 1) - 1 = k
        BY <1>1
      <4>2. g[k + 1] = g[(k + 1) - 1] \o q[k + 1]
        BY <2>3, <4>1 DEF Step
      <4> QED
        BY <4>1, <4>2
    <3> QED
      BY <3>2, <3>3
  <2>5. /\ n \in Nat \ {0} /\ n \in 1 .. n /\ n + 1 \in 1 .. n + 1 /\ 1 \in 1 .. n + 1
        /\ \A k \in 1 .. n : q[k] \in Seq(S) /\ g[k] \in Seq(S)
    <3>1. \A k \in 1 .. n : q[k] \in Seq(S)
      BY <1>1, ElementOfSeq
    <3> QED
      BY <1>1, <1>6, <2>3, <3>1
  <2>6. parts[1] \in Seq(S)
    BY <1>1, <2>5
  <2>7. BothFlattened(S, n, parts[1], q, f, g)
    BY <1>4, <2>4, <2>5 DEF BothFlattened
  <2>8. f[n + 1] = parts[1] \o g[n]
    <3>1. n \in Nat \ {0}
      BY <2>5
    <3>2. PICK p \in Seq(S) : p = parts[1]
      BY <2>6
    <3>3. BothFlattened(S, n, p, q, f, g)
      BY <2>7, <3>2
    <3>4. f[n + 1] = p \o g[n]
      BY <3>1, <3>3, PutBefore
    <3> QED
      BY <3>2, <3>4
  <2>9. f[n + 1] \in Seq(S) /\ g[n] \in Seq(S)
    BY <1>3, <2>3, <2>5
  <2> QED
    BY <1>1, <1>2, <2>2, <2>8, <2>9, <1>0
<1> QED
  BY <1>5, <1>6

\* FlattenSeq of sequences over a set is a sequence over it.
LEMMA FlattenSeqType ==
  ASSUME NEW S, NEW parts \in Seq(Seq(S))
  PROVE  FlattenSeq(parts) \in Seq(S)
<1>1. CASE parts = <<>>
  BY <1>1, FlattenEmpty, EmptySeq
<1>2. CASE parts # <<>>
  BY <1>2, FlattenFirst
<1> QED
  BY <1>1, <1>2

(***************************************************************************)
(* What a thread has collected.  Only a thread that goes through the       *)
(* events, or notifies, has collected anything: its locals are fresh when  *)
(* it takes the shared lock, which is why what it owes then is what is     *)
(* published then.  And there are never fewer events than it has looked at.*)
(***************************************************************************)
Collects(t) == worker[t] \in {"subscriptions", "notify"}

CollectingInv ==
  \A t \in Worker :
    /\ ~Collects(t) => position[t] = 0 /\ serviceRequests[t] = <<>>
    /\ worker[t] = "subscriptions" => position[t] <= Len(subscriptionEvents)

\* The threads other than t, and all that one of them has collected.
OthersRest(t) ==
  \A u \in Worker \ {t} :
    /\ worker'[u] = worker[u] /\ message'[u] = message[u]
    /\ position'[u] = position[u] /\ serviceRequests'[u] = serviceRequests[u]

\* A step that collects nothing: the thread t it is of, if any, holds no lock on the
\* subscription events before it or after it.
CollectsNothing(t) ==
  /\ OthersRest(t)
  /\ subscriptionEvents' = subscriptionEvents
  /\ t \in Worker => /\ worker[t] # "subscriptions" /\ worker'[t] # "subscriptions"
                     /\ serviceRequests'[t] = serviceRequests[t]
                     /\ ~Collects(t)' => position'[t] = 0 /\ serviceRequests'[t] = <<>>

\* The steps the abstract specification sees nothing of.
LEMMA NothingCollected ==
  ASSUME TypeInv, CollectingInv, [Next]_vars
  PROVE  \/ \E t : CollectsNothing(t)
         \/ RegisterSubscriptionHandler
         \/ \E t \in Worker : \/ LockSubscriptionEvents(t) \/ TriggerSubscription(t)
                              \/ UnlockSubscriptionEvents(t) \/ Notify(t) \/ AddSubscriber(t)
<1> USE DEF TypeInv, TypeOK, CollectingInv, Collects, CollectsNothing, OthersRest, WorkerStep,
     localVars, triggerVars, cacheVars
<1>1. ASSUME UNCHANGED <<worker, message, triggerVars, subscriptionEvents>>
      PROVE  \E t : CollectsNothing(t)
  <2>1. PICK t : t \notin Worker
    BY NoSetContainsEverything
  <2> QED
    BY <1>1, <2>1
<1>2. ASSUME NEW d \in Datagram, Arrive(d) PROVE \E t : CollectsNothing(t)
  BY <1>1, <1>2 DEF Arrive
<1>3. CASE ReceiveFails
  BY <1>1, <1>3 DEF ReceiveFails
<1>4. ASSUME NEW t \in Worker, Dispatch(t) \/ EndThread(t) PROVE CollectsNothing(t)
  BY <1>4 DEF Dispatch, EndThread
<1>5. ASSUME NEW t \in Worker,
             \/ CopyMessage(t) \/ CopySender(t) \/ StartRead(t) \/ Parse(t)
             \/ LockMessageEvents(t) \/ TriggerMessageHandlers(t)
      PROVE  CollectsNothing(t)
  BY <1>5 DEF CopyMessage, CopySender, StartRead, Parse, LockMessageEvents,
     TriggerMessageHandlers
<1>6. ASSUME NEW t \in Worker, Drop(t) \/ Notified(t) PROVE CollectsNothing(t)
  BY <1>6 DEF Drop, Notified, Forget
<1>7. ASSUME NEW t \in Worker, Reply(t) \/ Throws(t) PROVE \E u : CollectsNothing(u)
  BY <1>1, <1>7 DEF Reply, Throws, HandlerThrows, LookUpThrows
<1>8. ASSUME MainNext, ~RegisterSubscriptionHandler PROVE \E t : CollectsNothing(t)
  BY <1>1, <1>8 DEF MainNext, StartUpFails, InitializeEventManager, RegisterEventHandler,
     TaskReturns, StopIoContext, Join
<1>9. CASE UNCHANGED vars
  BY <1>1, <1>9 DEF vars
<1> QED
  BY <1>2, <1>3, <1>4, <1>5, <1>6, <1>7, <1>8, <1>9 DEF Next, HandlerStep

\* Threads that rest keep what they have collected, and there are as many events.
LEMMA RestingCollect ==
  ASSUME TypeInv, TypeOK', CollectingInv, NEW t, OthersRest(t),
         Len(subscriptionEvents') >= Len(subscriptionEvents),
         t \in Worker =>
           /\ ~Collects(t)' => position'[t] = 0 /\ serviceRequests'[t] = <<>>
           /\ worker'[t] = "subscriptions" => position'[t] <= Len(subscriptionEvents')
  PROVE  CollectingInv'
<1>1. /\ Len(subscriptionEvents) \in Nat /\ Len(subscriptionEvents') \in Nat
      /\ \A u \in Worker : position[u] \in Nat
  BY LenProperties DEF TypeInv, TypeOK
<1> SUFFICES ASSUME NEW u \in Worker
             PROVE  /\ ~Collects(u)' => position'[u] = 0 /\ serviceRequests'[u] = <<>>
                    /\ worker'[u] = "subscriptions" => position'[u] <= Len(subscriptionEvents')
  BY DEF CollectingInv, Collects
<1>2. CASE u = t
  BY <1>2
<1>3. CASE u # t
  BY <1>1, <1>3 DEF OthersRest, CollectingInv, Collects
<1> QED
  BY <1>2, <1>3

\* Every step keeps what the threads have collected in order.
LEMMA CollectingInvStep == TypeInv /\ CollectingInv /\ [Next]_vars => CollectingInv'
<1> SUFFICES ASSUME TypeInv, CollectingInv, [Next]_vars PROVE CollectingInv'
  OBVIOUS
<1>1. TypeOK'
  BY TypeInvStep DEF TypeInv
<1>2. /\ Len(subscriptionEvents) \in Nat /\ Len(subscriptionEvents') \in Nat
      /\ \A u \in Worker : position[u] \in Nat
  BY <1>1, LenProperties DEF TypeInv, TypeOK
<1>3. ASSUME NEW t, CollectsNothing(t) PROVE CollectingInv'
  BY <1>1, <1>2, <1>3, RestingCollect DEF CollectsNothing
<1>4. CASE RegisterSubscriptionHandler
  <2>1. PICK t : t \notin Worker
    BY NoSetContainsEverything
  <2>2. OthersRest(t) /\ Len(subscriptionEvents') >= Len(subscriptionEvents)
    BY <1>2, <1>4, AppendProperties DEF RegisterSubscriptionHandler, OthersRest, localVars,
       triggerVars, TypeInv, TypeOK
  <2> QED
    BY <1>1, <2>1, <2>2, RestingCollect
<1>5. ASSUME NEW t \in Worker,
             \/ LockSubscriptionEvents(t) \/ TriggerSubscription(t)
             \/ UnlockSubscriptionEvents(t) \/ Notify(t)
      PROVE  CollectingInv'
  <2> USE DEF TypeInv, TypeOK, WorkerStep, localVars, triggerVars, cacheVars
  <2>1. OthersRest(t) /\ subscriptionEvents' = subscriptionEvents
    BY <1>5 DEF LockSubscriptionEvents, TriggerSubscription, UnlockSubscriptionEvents, Notify,
       OthersRest
  <2>2. Collects(t)'
    BY <1>5 DEF LockSubscriptionEvents, TriggerSubscription, UnlockSubscriptionEvents, Notify,
       Collects
  <2>3. worker'[t] = "subscriptions" => position'[t] <= Len(subscriptionEvents)
    <3>1. CASE LockSubscriptionEvents(t)
      <4>1. ~Collects(t) /\ position'[t] = position[t]
        BY <3>1 DEF LockSubscriptionEvents, Collects
      <4>2. position[t] = 0
        BY <4>1 DEF CollectingInv
      <4> HIDE DEF TypeInv, TypeOK
      <4> QED
        BY <1>2, <4>1, <4>2
    <3>2. CASE TriggerSubscription(t)
      BY <1>2, <3>2 DEF TriggerSubscription
    <3>3. CASE UnlockSubscriptionEvents(t) \/ Notify(t)
      BY <3>3 DEF UnlockSubscriptionEvents, Notify
    <3> QED
      BY <1>5, <3>1, <3>2, <3>3
  <2> QED
    BY <1>1, <1>2, <2>1, <2>2, <2>3, RestingCollect
<1>6. ASSUME NEW t \in Worker, AddSubscriber(t) PROVE CollectingInv'
  <2>1. OthersRest(t) /\ worker'[t] = "idle" /\ position'[t] = 0 /\ serviceRequests'[t] = <<>>
    BY <1>6 DEF AddSubscriber, Forget, OthersRest, WorkerStep, TypeInv, TypeOK
  <2>2. DOMAIN subscriptionEvents' = DOMAIN subscriptionEvents
    BY <1>6 DEF AddSubscriber
  <2>3. Len(subscriptionEvents') = Len(subscriptionEvents)
    BY <1>1, <1>2, <2>2, LenProperties DEF TypeInv, TypeOK
  <2> QED
    BY <1>1, <1>2, <2>1, <2>3, RestingCollect
<1> QED
  BY <1>3, <1>4, <1>5, <1>6, NothingCollected

(***************************************************************************)
(* The refinement.  The abstract events and what is owed, as the instance  *)
(* in ContextWorker gives them, under names of their own.                  *)
(***************************************************************************)
Published ==
  [i \in DOMAIN subscriptionEvents |->
    [type        |-> subscriptionEvents[i].type,
     responds    |-> subscriptionEvents[i].responds,
     subscribers |-> subscriptionEvents[i].subscribers]]

OwedByAll == [t \in Worker |-> Owed(t)]

\* What the events from the position of thread t on ask for.
Ahead(t) ==
  [i \in 1 .. Len(subscriptionEvents) - position[t] |->
    Requests(subscriptionEvents[position[t] + i], message[t].type)]

\* What is ahead of a thread are sequences of modules.
LEMMA AheadType ==
  ASSUME TypeInv, CollectingInv, NEW t \in Worker, worker[t] = "subscriptions"
  PROVE  /\ Ahead(t) \in Seq(Seq(Module))
         /\ Len(Ahead(t)) = Len(subscriptionEvents) - position[t]
         /\ Len(subscriptionEvents) - position[t] \in Nat
<1>1. PICK n \in Nat : n = Len(subscriptionEvents) - position[t]
  BY LenProperties DEF TypeInv, TypeOK, CollectingInv
<1>2. ASSUME NEW i \in 1 .. n
      PROVE  Requests(subscriptionEvents[position[t] + i], message[t].type) \in Seq(Module)
  <2>1. position[t] + i \in 1 .. Len(subscriptionEvents)
    BY <1>1, LenProperties DEF TypeInv, TypeOK
  <2>2. subscriptionEvents[position[t] + i] \in Subscription
    BY <2>1, ElementOfSeq DEF TypeInv, TypeOK
  <2> QED
    BY <2>2, RequestsType
<1>3. Ahead(t) \in [1 .. n -> Seq(Module)]
  BY <1>1, <1>2 DEF Ahead
<1>4. Ahead(t) \in Seq(Seq(Module))
  BY <1>3, SeqDef
<1> QED
  BY <1>1, <1>3, <1>4, LenProperties

\* What a thread owes is a sequence of modules: what it has collected, and while it
\* goes through the events what is ahead of it.
LEMMA OwedType ==
  ASSUME TypeInv, CollectingInv, NEW t \in Worker
  PROVE  /\ Owed(t) \in Seq(Module)
         /\ worker[t] # "subscriptions" => Owed(t) = serviceRequests[t]
         /\ worker[t] = "subscriptions" =>
              Owed(t) = serviceRequests[t] \o FlattenSeq(Ahead(t))
<1>1. serviceRequests[t] \in Seq(Module)
  BY DEF TypeInv, TypeOK
<1>2. worker[t] # "subscriptions" => Owed(t) = serviceRequests[t]
  BY <1>1, ConcatEmptySeq DEF Owed
<1>3. worker[t] = "subscriptions" => Owed(t) = serviceRequests[t] \o FlattenSeq(Ahead(t))
  BY DEF Owed, Ahead
<1>4. worker[t] = "subscriptions" => FlattenSeq(Ahead(t)) \in Seq(Module)
  BY AheadType, FlattenSeqType
<1> QED
  BY <1>1, <1>2, <1>3, <1>4, ConcatProperties

\* The same after a step.
LEMMA OwedNext ==
  ASSUME TypeOK', NEW t \in Worker
  PROVE  /\ worker'[t] # "subscriptions" => Owed(t)' = serviceRequests'[t]
         /\ worker'[t] = "subscriptions" =>
              Owed(t)' = serviceRequests'[t] \o FlattenSeq(Ahead(t)')
<1>1. serviceRequests'[t] \in Seq(Module)
  BY DEF TypeOK
<1> QED
  BY <1>1, ConcatEmptySeq DEF Owed, Ahead

\* A thread that rests owes the same, if the events it goes through are the same.
LEMMA OwedRests ==
  ASSUME TypeInv, TypeOK', CollectingInv, NEW t, OthersRest(t), NEW u \in Worker \ {t},
         worker[u] = "subscriptions" => subscriptionEvents' = subscriptionEvents
  PROVE  Owed(u)' = Owed(u)
<1>1. /\ worker'[u] = worker[u] /\ message'[u] = message[u]
      /\ position'[u] = position[u] /\ serviceRequests'[u] = serviceRequests[u]
  BY DEF OthersRest
<1>2. worker[u] = "subscriptions" => Ahead(u)' = Ahead(u)
  BY <1>1 DEF Ahead
<1> QED
  BY <1>1, <1>2, OwedType, OwedNext

\* A step that collects nothing stutters.
LEMMA NothingIsPublished ==
  ASSUME TypeInv, TypeOK', CollectingInv, NEW t, CollectsNothing(t)
  PROVE  UNCHANGED <<Published, OwedByAll>>
<1>1. ASSUME NEW u \in Worker PROVE Owed(u)' = Owed(u)
  <2>1. CASE u = t
    BY <2>1, OwedType, OwedNext DEF CollectsNothing
  <2>2. CASE u # t
    BY <2>2, OwedRests DEF CollectsNothing
  <2> QED
    BY <2>1, <2>2
<1>2. OwedByAll' = OwedByAll
  BY <1>1 DEF OwedByAll
<1>3. Published' = Published
  BY DEF Published, CollectsNothing
<1> QED
  BY <1>2, <1>3

\* The thread that takes the shared lock publishes its request: all that the events ask
\* for is ahead of it.
LEMMA LockPublishes ==
  ASSUME TypeInv, TypeOK', CollectingInv, NEW t \in Worker, LockSubscriptionEvents(t)
  PROVE  message[t].type \in Type /\ PublishSubscribe!Publish(t, message[t].type)
<1> USE DEF LockSubscriptionEvents, WorkerStep, localVars, triggerVars, cacheVars
<1>1. /\ worker[t] = "triggered" /\ worker'[t] = "subscriptions"
      /\ message'[t] = message[t] /\ subscriptionEvents' = subscriptionEvents
  BY DEF TypeInv, TypeOK
<1>2. serviceRequests[t] = <<>> /\ serviceRequests'[t] = <<>> /\ position'[t] = 0
  BY <1>1 DEF CollectingInv, Collects
<1>3. message[t].type \in Type
  BY <1>1, HandledIsMessage DEF TypeInv, BufferInv, Message
<1>4. Owed(t) = <<>>
  BY <1>1, <1>2, OwedType
<1> DEFINE Asked == [i \in DOMAIN Published |->
                      PublishSubscribe!Notified(Published[i], message[t].type)]
<1>5. Ahead(t)' = Asked
  <2>1. PICK n \in Nat : n = Len(subscriptionEvents) /\ DOMAIN subscriptionEvents = 1 .. n
    BY LenProperties DEF TypeInv, TypeOK
  <2>2. DOMAIN Published = 1 .. n
    BY <2>1 DEF Published
  <2>3. Ahead(t)' = [i \in 1 .. n |-> Requests(subscriptionEvents[i], message[t].type)]
    <3>1. Len(subscriptionEvents') - position'[t] = n
      BY <1>1, <1>2, <2>1
    <3>2. ASSUME NEW i \in 1 .. n
          PROVE  subscriptionEvents'[position'[t] + i] = subscriptionEvents[i]
      BY <1>1, <1>2
    <3>3. ASSUME NEW i \in 1 .. n
          PROVE  Requests(subscriptionEvents'[position'[t] + i], message'[t].type)
                   = Requests(subscriptionEvents[i], message[t].type)
      BY <1>1, <3>2
    <3> QED
      BY <3>1, <3>3 DEF Ahead
  <2>4. ASSUME NEW i \in 1 .. n
        PROVE  Requests(subscriptionEvents[i], message[t].type)
                 = PublishSubscribe!Notified(Published[i], message[t].type)
    BY <2>1 DEF Published, Requests, PublishSubscribe!Notified
  <2> QED
    BY <2>2, <2>3, <2>4
<1>6. Owed(t)' = FlattenSeq(Asked)
  <2>1. Owed(t)' = <<>> \o FlattenSeq(Ahead(t)')
    BY <1>1, <1>2, OwedNext
  <2>2. Asked \in Seq(Seq(Module))
    <3>1. \A i \in DOMAIN subscriptionEvents :
            Requests(subscriptionEvents[i], message[t].type) \in Seq(Module)
      BY RequestsType, ElementOfSeq DEF TypeInv, TypeOK
    <3>2. Asked \in [DOMAIN subscriptionEvents -> Seq(Module)]
      BY <3>1 DEF Published, Requests, PublishSubscribe!Notified
    <3>3. PICK n \in Nat : DOMAIN subscriptionEvents = 1 .. n
      BY LenProperties DEF TypeInv, TypeOK
    <3> HIDE DEF Asked
    <3> QED
      BY <3>2, <3>3, SeqDef
  <2>3. FlattenSeq(Asked) \in Seq(Module)
    BY <2>2, FlattenSeqType
  <2> QED
    BY <2>1, <2>3, <1>5, ConcatEmptySeq
<1>7. FlattenSeq(Asked) = PublishSubscribe!FlattenSeq(Asked)
  BY DEF FlattenSeq, PublishSubscribe!FlattenSeq
<1>8. OwedByAll' = [OwedByAll EXCEPT ![t] = FlattenSeq(Asked)]
  <2>1. OthersRest(t)
    BY DEF OthersRest, TypeInv, TypeOK
  <2>2. \A u \in Worker \ {t} : Owed(u)' = Owed(u)
    BY <1>1, <2>1, OwedRests
  <2> QED
    BY <1>6, <2>2 DEF OwedByAll
<1>9. Published' = Published
  BY <1>1 DEF Published
<1>10. OwedByAll[t] = <<>>
  BY <1>4 DEF OwedByAll
<1> QED
  BY <1>3, <1>7, <1>8, <1>9, <1>10 DEF PublishSubscribe!Publish, Published, OwedByAll

\* A thread that looks at one more event has collected what was ahead of it: all it owes
\* stays what it was.
LEMMA TriggerStutters ==
  ASSUME TypeInv, TypeOK', CollectingInv, NEW t \in Worker, TriggerSubscription(t)
  PROVE  UNCHANGED <<Published, OwedByAll>>
<1> USE DEF TriggerSubscription, localVars, triggerVars, cacheVars
<1>1. /\ worker' = worker /\ message' = message /\ subscriptionEvents' = subscriptionEvents
      /\ position[t] \in Nat /\ position'[t] = position[t] + 1
      /\ position[t] < Len(subscriptionEvents)
      /\ worker[t] = "subscriptions"
  BY DEF TypeInv, TypeOK
<1> DEFINE next == Requests(subscriptionEvents[position[t] + 1], message[t].type)
<1>2. serviceRequests[t] \in Seq(Module) /\ serviceRequests'[t] = serviceRequests[t] \o next
  BY DEF TypeInv, TypeOK
<1>3. PICK n \in Nat \ {0} : n = Len(subscriptionEvents) - position[t]
  BY <1>1, LenProperties DEF TypeInv, TypeOK
<1>4. Ahead(t) \in Seq(Seq(Module)) /\ Len(Ahead(t)) = n
  BY <1>1, <1>3, AheadType
<1>5. Ahead(t) # <<>>
  BY <1>3, <1>4, EmptySeq
<1>6. Head(Ahead(t)) = next
  BY <1>3, <1>4, <1>5, HeadTailProperties DEF Ahead
<1>7. Tail(Ahead(t)) = Ahead(t)'
  <2>1. /\ Tail(Ahead(t)) \in Seq(Seq(Module)) /\ Len(Tail(Ahead(t))) = n - 1
        /\ \A i \in 1 .. n - 1 : Tail(Ahead(t))[i] = Ahead(t)[i + 1]
    BY <1>4, <1>5, HeadTailProperties
  <2>2. Tail(Ahead(t)) = [i \in 1 .. n - 1 |-> Ahead(t)[i + 1]]
    BY <2>1, LenProperties
  <2>3. Len(subscriptionEvents') - position'[t] = n - 1
    BY <1>1, <1>3, LenProperties DEF TypeInv, TypeOK
  <2>4. ASSUME NEW i \in 1 .. n - 1
        PROVE  Requests(subscriptionEvents'[position'[t] + i], message'[t].type)
                 = Ahead(t)[i + 1]
    <3>1. i + 1 \in 1 .. n /\ position'[t] + i = position[t] + (i + 1)
      BY <1>1, <1>3
    <3> QED
      BY <1>1, <1>3, <3>1 DEF Ahead
  <2>5. Ahead(t)' = [i \in 1 .. n - 1 |-> Ahead(t)[i + 1]]
    BY <2>3, <2>4 DEF Ahead
  <2> QED
    BY <2>2, <2>5
<1>8. next \in Seq(Module)
  BY <1>4, <1>5, <1>6, HeadTailProperties
<1>9. /\ FlattenSeq(Ahead(t)) = next \o FlattenSeq(Ahead(t)')
      /\ FlattenSeq(Ahead(t)') \in Seq(Module)
  BY <1>4, <1>5, <1>6, <1>7, FlattenFirst
<1>10. Owed(t)' = Owed(t)
  <2>1. Owed(t) = serviceRequests[t] \o (next \o FlattenSeq(Ahead(t)'))
    BY <1>1, <1>9, OwedType
  <2>2. Owed(t)' = (serviceRequests[t] \o next) \o FlattenSeq(Ahead(t)')
    BY <1>1, <1>2, OwedNext
  <2>3. PICK p \in Seq(Module), c \in Seq(Module), r \in Seq(Module) :
          p = serviceRequests[t] /\ c = next /\ r = FlattenSeq(Ahead(t)')
    BY <1>2, <1>8, <1>9
  <2>4. (p \o c) \o r = p \o (c \o r)
    BY ConcatAssociative
  <2> QED
    BY <2>1, <2>2, <2>3, <2>4
<1>11. ASSUME NEW u \in Worker \ {t} PROVE Owed(u)' = Owed(u)
  <2>1. OthersRest(t)
    BY <1>1 DEF OthersRest, TypeInv, TypeOK
  <2> QED
    BY <1>1, <2>1, OwedRests
<1>12. OwedByAll' = OwedByAll
  BY <1>10, <1>11 DEF OwedByAll
<1>13. Published' = Published
  BY <1>1 DEF Published
<1> QED
  BY <1>12, <1>13

\* A thread that has been through all events owes what it has collected.
LEMMA UnlockStutters ==
  ASSUME TypeInv, TypeOK', CollectingInv, NEW t \in Worker, UnlockSubscriptionEvents(t)
  PROVE  UNCHANGED <<Published, OwedByAll>>
<1> USE DEF UnlockSubscriptionEvents, WorkerStep, localVars, triggerVars, cacheVars
<1>1. /\ worker[t] = "subscriptions" /\ worker'[t] = "notify"
      /\ serviceRequests'[t] = serviceRequests[t] /\ subscriptionEvents' = subscriptionEvents
      /\ OthersRest(t)
  BY DEF TypeInv, TypeOK, OthersRest
<1>2. Ahead(t) = <<>>
  <2>1. Len(subscriptionEvents) - position[t] = 0
    BY LenProperties DEF TypeInv, TypeOK
  <2> QED
    BY <1>1, <2>1, AheadType, EmptySeq
<1>3. Owed(t)' = Owed(t)
  <2>1. serviceRequests[t] \in Seq(Module)
    BY DEF TypeInv, TypeOK
  <2>2. Owed(t) = serviceRequests[t] \o <<>>
    BY <1>1, <1>2, FlattenEmpty, OwedType
  <2> QED
    BY <1>1, <2>1, <2>2, ConcatEmptySeq, OwedNext
<1>4. \A u \in Worker \ {t} : Owed(u)' = Owed(u)
  BY <1>1, OwedRests
<1> QED
  BY <1>1, <1>3, <1>4 DEF Published, OwedByAll

\* A notification is settled.
LEMMA NotifySettles ==
  ASSUME TypeInv, TypeOK', CollectingInv, NEW t \in Worker, Notify(t)
  PROVE  PublishSubscribe!Settle(t)
<1> USE DEF Notify, localVars, cacheVars
<1>1. /\ worker[t] = "notify" /\ worker'[t] = "notify"
      /\ serviceRequests[t] # <<>> /\ serviceRequests'[t] = Tail(serviceRequests[t])
      /\ subscriptionEvents' = subscriptionEvents
      /\ OthersRest(t)
  BY DEF TypeInv, TypeOK, OthersRest
<1>2. Owed(t) = serviceRequests[t] /\ Owed(t)' = Tail(serviceRequests[t])
  BY <1>1, OwedType, OwedNext
<1>3. \A u \in Worker \ {t} : Owed(u)' = Owed(u)
  BY <1>1, OwedRests
<1>4. OwedByAll[t] # <<>> /\ OwedByAll' = [OwedByAll EXCEPT ![t] = Tail(@)]
  BY <1>1, <1>2, <1>3 DEF OwedByAll
<1>5. Published' = Published
  BY <1>1 DEF Published
<1> QED
  BY <1>4, <1>5 DEF PublishSubscribe!Settle, Published, OwedByAll

\* A subscription is made while no thread goes through the events.
LEMMA AddSubscriberSubscribes ==
  ASSUME TypeInv, TypeOK', CollectingInv, NEW t \in Worker, AddSubscriber(t)
  PROVE  /\ message[t].sender \in Module /\ message[t].type \in Type
         /\ PublishSubscribe!Subscribe(message[t].sender, message[t].type)
<1> USE DEF AddSubscriber, WorkerStep, Forget
<1>1. /\ worker[t] = "subscribe" /\ worker'[t] = "idle" /\ serviceRequests'[t] = <<>>
      /\ \A u \in Worker : worker[u] # "subscriptions"
      /\ OthersRest(t)
  BY DEF TypeInv, TypeOK, OthersRest, Holding
<1>2. message[t].sender \in Module /\ message[t].type \in Type
  BY <1>1, HandledIsMessage DEF TypeInv, BufferInv, Message
<1>3. Owed(t) = <<>> /\ Owed(t)' = <<>>
  BY <1>1, OwedType, OwedNext DEF CollectingInv, Collects
<1>4. \A u \in Worker \ {t} : Owed(u)' = Owed(u)
  BY <1>1, OwedRests
<1>5. OwedByAll' = OwedByAll
  BY <1>3, <1>4 DEF OwedByAll
<1>6. Published' = [i \in DOMAIN Published |->
        IF Published[i].type = message[t].type
          THEN [Published[i] EXCEPT !.subscribers = Append(@, message[t].sender)]
          ELSE Published[i]]
  <2>1. /\ DOMAIN Published = DOMAIN subscriptionEvents
        /\ DOMAIN subscriptionEvents' = DOMAIN subscriptionEvents
    BY DEF Published
  <2>2. ASSUME NEW i \in DOMAIN subscriptionEvents
        PROVE  /\ subscriptionEvents[i] \in Subscription
               /\ subscriptionEvents'[i] =
                    WithSubscriber(subscriptionEvents[i], message[t].sender, message[t].type)
    BY ElementOfSeq DEF TypeInv, TypeOK
  <2>3. ASSUME NEW i \in DOMAIN subscriptionEvents
        PROVE  [type        |-> subscriptionEvents'[i].type,
                responds    |-> subscriptionEvents'[i].responds,
                subscribers |-> subscriptionEvents'[i].subscribers]
                 = IF Published[i].type = message[t].type
                     THEN [Published[i] EXCEPT !.subscribers = Append(@, message[t].sender)]
                     ELSE Published[i]
    BY <2>2 DEF Published, WithSubscriber, Subscription
  <2> QED
    BY <2>1, <2>3 DEF Published
<1> QED
  BY <1>2, <1>5, <1>6 DEF PublishSubscribe!Subscribe, Published, OwedByAll

\* So is a registration.
LEMMA RegistrationRegisters ==
  ASSUME TypeInv, TypeOK', CollectingInv, RegisterSubscriptionHandler
  PROVE  \E type \in Type, responds \in BOOLEAN :
           PublishSubscribe!Register([type |-> type, responds |-> responds, subscribers |-> <<>>])
<1> USE DEF RegisterSubscriptionHandler, localVars, triggerVars
<1>1. PICK h \in Handler :
        subscriptionEvents' = Append(subscriptionEvents,
          [id |-> NewEventID(subscriptionEvents), type |-> h.type, responds |-> h.responds,
           subscribers |-> <<>>])
  <2>1. Registration[registered + 1] \in Handler
    BY ConstantsAssumption, LenProperties, ElementOfSeq DEF RegisterNext, TypeInv, TypeOK
  <2> QED
    BY <2>1
<1> DEFINE e == [type |-> h.type, responds |-> h.responds, subscribers |-> <<>>]
<1>2. PICK outside : outside \notin Worker
  BY NoSetContainsEverything
<1>3. OthersRest(outside) /\ \A u \in Worker : worker[u] # "subscriptions"
  BY <1>2 DEF OthersRest, Holding
<1>4. OwedByAll' = OwedByAll
  BY <1>2, <1>3, OwedRests DEF OwedByAll
<1>5. Published' = Append(Published, e)
  <2>1. PICK n \in Nat : n = Len(subscriptionEvents) /\ DOMAIN subscriptionEvents = 1 .. n
    BY LenProperties DEF TypeInv, TypeOK
  <2>2. /\ Len(subscriptionEvents') = n + 1 /\ DOMAIN subscriptionEvents' = 1 .. n + 1
        /\ \A i \in 1 .. n : subscriptionEvents'[i] = subscriptionEvents[i]
        /\ subscriptionEvents'[n + 1].type = h.type
        /\ subscriptionEvents'[n + 1].responds = h.responds
        /\ subscriptionEvents'[n + 1].subscribers = <<>>
    BY <1>1, <2>1, AppendProperties, LenProperties DEF TypeInv, TypeOK
  <2>3. Published \in Seq(PublishSubscribe!Event) /\ Len(Published) = n
    <3>1. \A i \in 1 .. n : subscriptionEvents[i] \in Subscription
      BY <2>1, ElementOfSeq DEF TypeInv, TypeOK
    <3>2. Published \in [1 .. n -> PublishSubscribe!Event]
      BY <2>1, <3>1 DEF Published, PublishSubscribe!Event, Subscription
    <3>3. Published \in Seq(PublishSubscribe!Event)
      BY <3>2, SeqDef
    <3> QED
      BY <3>2, <3>3, LenProperties
  <2>4. e \in PublishSubscribe!Event
    BY EmptySeq DEF Handler, PublishSubscribe!Event
  <2> DEFINE added == Append(Published, e)
  <2> HIDE DEF e
  <2>5. /\ added \in Seq(PublishSubscribe!Event) /\ Len(added) = n + 1
        /\ \A i \in 1 .. n : added[i] = Published[i]
        /\ added[n + 1] = e
    BY <2>3, <2>4, AppendProperties
  <2> HIDE DEF added
  <2>6. added = [i \in 1 .. n + 1 |-> added[i]]
    BY <2>5, LenProperties
  <2>7. ASSUME NEW i \in 1 .. n + 1
        PROVE  [type        |-> subscriptionEvents'[i].type,
                responds    |-> subscriptionEvents'[i].responds,
                subscribers |-> subscriptionEvents'[i].subscribers] = added[i]
    <3>1. CASE i = n + 1
      BY <2>2, <2>5, <3>1 DEF e
    <3>2. CASE i # n + 1
      <4>1. i \in 1 .. n
        BY <3>2
      <4> QED
        BY <2>1, <2>2, <2>5, <4>1 DEF Published
    <3> QED
      BY <3>1, <3>2
  <2>8. Published' = [i \in 1 .. n + 1 |-> added[i]]
    BY <2>2, <2>7 DEF Published
  <2> QED
    BY <2>6, <2>8 DEF added
<1>6. e.subscribers = <<>> /\ h.type \in Type /\ h.responds \in BOOLEAN
  BY DEF Handler
<1> QED
  BY <1>4, <1>5, <1>6 DEF PublishSubscribe!Register, Published, OwedByAll

(***************************************************************************)
(* The initial states and all steps together.                              *)
(***************************************************************************)

\* Nobody has subscribed to anything and nobody owes anything.
LEMMA InitMaps == Init => CollectingInv /\ PublishSubscribe!Init
<1> SUFFICES ASSUME Init PROVE CollectingInv /\ PublishSubscribe!Init
  OBVIOUS
<1>1. CollectingInv
  BY DEF Init, CollectingInv, Collects
<1>2. \A t \in Worker : Owed(t) = <<>>
  BY InitTypeInv, <1>1, OwedType DEF Init
<1>3. OwedByAll = [t \in Worker |-> <<>>]
  BY <1>2 DEF OwedByAll
<1>4. Published = <<>>
  <2>1. DOMAIN subscriptionEvents = {}
    BY EmptySeq DEF Init
  <2> QED
    BY <2>1 DEF Published
<1> QED
  BY <1>1, <1>3, <1>4 DEF PublishSubscribe!Init, Published, OwedByAll

\* Every step is one of the abstract specification, or it sees nothing of it.
LEMMA StepMaps ==
  TypeInv /\ CollectingInv /\ [Next]_vars => [PublishSubscribe!Next]_(PublishSubscribe!vars)
<1> SUFFICES ASSUME TypeInv, CollectingInv, [Next]_vars
             PROVE  PublishSubscribe!Next \/ UNCHANGED <<Published, OwedByAll>>
  BY DEF PublishSubscribe!vars, Published, OwedByAll
<1>1. TypeOK'
  BY TypeInvStep DEF TypeInv
<1>2. ASSUME NEW t, CollectsNothing(t) PROVE UNCHANGED <<Published, OwedByAll>>
  BY <1>1, <1>2, NothingIsPublished
<1>3. CASE RegisterSubscriptionHandler
  BY <1>1, <1>3, RegistrationRegisters DEF PublishSubscribe!Next
<1>4. ASSUME NEW t \in Worker, LockSubscriptionEvents(t) PROVE PublishSubscribe!Next
  BY <1>1, <1>4, LockPublishes DEF PublishSubscribe!Next
<1>5. ASSUME NEW t \in Worker, TriggerSubscription(t) \/ UnlockSubscriptionEvents(t)
      PROVE  UNCHANGED <<Published, OwedByAll>>
  BY <1>1, <1>5, TriggerStutters, UnlockStutters
<1>6. ASSUME NEW t \in Worker, Notify(t) PROVE PublishSubscribe!Next
  BY <1>1, <1>6, NotifySettles DEF PublishSubscribe!Next
<1>7. ASSUME NEW t \in Worker, AddSubscriber(t) PROVE PublishSubscribe!Next
  <2>1. /\ message[t].sender \in Module /\ message[t].type \in Type
        /\ PublishSubscribe!Subscribe(message[t].sender, message[t].type)
    BY <1>1, <1>7, AddSubscriberSubscribes
  <2>2. PICK m \in Module, type \in Type : m = message[t].sender /\ type = message[t].type
    BY <2>1
  <2>3. PublishSubscribe!Subscribe(m, type)
    BY <2>1, <2>2 DEF PublishSubscribe!Subscribe
  <2> QED
    BY <2>3 DEF PublishSubscribe!Next
<1> QED
  BY <1>2, <1>3, <1>4, <1>5, <1>6, <1>7, NothingCollected

\* What happens elsewhere changes nothing here.
LEMMA OthersKeepCollecting ==
  ASSUME CollectingInv, UNCHANGED <<worker, message, triggerVars, subscriptionEvents>>
  PROVE  CollectingInv' /\ UNCHANGED PublishSubscribe!vars
<1> USE DEF triggerVars
<1>1. CollectingInv'
  BY DEF CollectingInv, Collects
<1>2. UNCHANGED Published
  BY DEF Published
<1>3. UNCHANGED OwedByAll
  BY DEF OwedByAll, Owed
<1> QED
  BY <1>1, <1>2, <1>3 DEF PublishSubscribe!vars, Published, OwedByAll

\* The threads and the subscription events cache do what PublishSubscribe promises: a
\* request is published in one step, to those subscribed at that moment, and every
\* notification owed is settled once, in order.
THEOREM PublishesInOneStep == Spec => ImplementsPublishSubscribe
<1>1. Init => TypeInv /\ CollectingInv /\ PublishSubscribe!Init
  BY InitTypeInv, InitMaps
<1>2. TypeInv /\ CollectingInv /\ [Next]_vars => TypeInv' /\ CollectingInv'
  BY TypeInvStep, CollectingInvStep
<1> QED
  BY <1>1, <1>2, StepMaps, PTL DEF Spec, ImplementsPublishSubscribe, PublishSubscribe!Spec
=============================================================================
