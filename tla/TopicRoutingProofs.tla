------------------------- MODULE TopicRoutingProofs -------------------------
(***************************************************************************)
(* Proofs about TopicRouting: for any number of instances of the module    *)
(* (SelfIsBound, and what they keep of the shared queue), or for one       *)
(* (ShareIsBound, DroppedOnlyIfUnsubscribed), any patterns and topics, and *)
(* any number of failures.                                                 *)
(***************************************************************************)
EXTENDS TopicRouting, TLAPS

\* A queue that is consumed exists.
ConsumedExists ==
  \A p \in Processes : Consuming(p) => QueuesExist(p)

\* As long as the process has a working connection, its queue, if it is there,
\* is bound as the process believes: after a reconnection once it is rebound.
Connected(p) == recv[p] \in {"restart", "loop"} /\ alive[p]
SelfMirrors ==
  /\ exchange_type # "topictype" => \A p \in Processes : bound_self[p] = {}
  /\ \A p \in Processes :
       Connected(p) /\ queue[p].exists => bound_self[p] \subseteq queue[p].bound

\* The fixed key of a module's queue is never unbound.
FixedIsThere == queue["share"].exists => FixedKeys \subseteq queue["share"].bound

IInv == TypeOK /\ ConsumedExists /\ SelfMirrors /\ FixedIsThere

\* What is special about a single instance: nobody else unbinds its keys ...
ShareMirrors ==
  \A p \in Processes :
    Connected(p) /\ queue["share"].exists => bound_share[p] \subseteq queue["share"].bound

\* ... or binds keys it has no callback for.  A key has its callback, or is about
\* to have one, or has had one; the message in hand has got beyond "about to".
Known(p) == callbacks[p] \cup unsubscribed[p]
KeysAreKnown ==
  exchange_type = "topictype" =>
    \A p \in Processes :
      /\ bound_share[p] \cup bound_self[p] \subseteq Known(p) \cup {app[p]}
      /\ \A q \in {"share", p} :
           /\ queue[q].bound \subseteq Known(p) \cup {app[p]}
           /\ \A t \in queue[q].queued :
                \E k \in Known(p) \cup {app[p]} : <<k, t>> \in Matches
      /\ inbox[p] # "none" => \E k \in Known(p) : <<k, inbox[p]>> \in Matches

SingleInv == ShareMirrors /\ KeysAreKnown /\ DroppedOnlyIfUnsubscribed

-----------------------------------------------------------------------------
\* What the actions do to the queues.

\* Setting a field of a queue gives a queue that differs in that field.
LEMMA QueueFields ==
  ASSUME NEW q \in Queue
  PROVE  /\ q.bound \in SUBSET Keys /\ q.queued \in SUBSET Topics /\ q.exists \in BOOLEAN
         /\ \A B \in SUBSET Keys :
              LET r == [q EXCEPT !.bound = B]
              IN  r \in Queue /\ r.bound = B /\ r.exists = q.exists /\ r.queued = q.queued
         /\ \A T \in SUBSET Topics :
              LET r == [q EXCEPT !.queued = T]
              IN  r \in Queue /\ r.queued = T /\ r.exists = q.exists /\ r.bound = q.bound
BY DEF Queue

LEMMA NoQueueFields ==
  /\ NoQueue \in Queue /\ ~NoQueue.exists /\ NoQueue.bound = {} /\ NoQueue.queued = {}
  /\ NewQueue \in Queue /\ NewQueue.exists /\ NewQueue.bound = {} /\ NewQueue.queued = {}
BY DEF NoQueue, NewQueue, Queue

\* A bind adds a key to one queue, if it gets through.
LEMMA SubscribeQueues ==
  ASSUME TypeOK, NEW p \in Processes, NEW k \in Patterns, NEW q \in Queues,
         Subscribe(p, k, q)
  PROVE  /\ queue' \in [Queues -> Queue]
         /\ \A r \in Queues :
              /\ queue'[r].exists = queue[r].exists /\ queue'[r].queued = queue[r].queued
              /\ queue'[r].bound = IF r = q /\ alive[p] /\ queue[q].exists
                                   THEN queue[r].bound \cup {k} ELSE queue[r].bound
<1>1. queue[q] \in Queue /\ queue[q].bound \cup {k} \in SUBSET Keys
  BY QueueFields DEF TypeOK, Keys
<1>2. CASE alive[p] /\ queue[q].exists
  <2> DEFINE x == [queue[q] EXCEPT !.bound = queue[q].bound \cup {k}]
  <2>1. queue' = [queue EXCEPT ![q] = x]
    BY <1>2 DEF Subscribe
  <2>2. /\ x \in Queue /\ x.bound = queue[q].bound \cup {k}
        /\ x.exists = queue[q].exists /\ x.queued = queue[q].queued
    BY <1>1, QueueFields
  <2> HIDE DEF x
  <2> QED
    BY <1>2, <2>1, <2>2 DEF TypeOK
<1>3. CASE ~(alive[p] /\ queue[q].exists)
  BY <1>3 DEF Subscribe, TypeOK
<1> QED
  BY <1>2, <1>3

\* An unbind removes a key from one queue, if it gets through.
LEMMA UnboundQueues ==
  ASSUME TypeOK, NEW p \in Processes, NEW k \in Patterns, NEW q \in Queues,
         queue' = Unbound(p, k, q)
  PROVE  /\ queue' \in [Queues -> Queue]
         /\ \A r \in Queues :
              /\ queue'[r].exists = queue[r].exists /\ queue'[r].queued = queue[r].queued
              /\ queue'[r].bound = IF r = q /\ alive[p]
                                   THEN queue[r].bound \ {k} ELSE queue[r].bound
<1>1. queue[q] \in Queue /\ queue[q].bound \ {k} \in SUBSET Keys
  BY QueueFields DEF TypeOK, Keys
<1>2. CASE alive[p]
  <2> DEFINE x == [queue[q] EXCEPT !.bound = queue[q].bound \ {k}]
  <2>1. queue' = [queue EXCEPT ![q] = x]
    BY <1>2 DEF Unbound
  <2>2. /\ x \in Queue /\ x.bound = queue[q].bound \ {k}
        /\ x.exists = queue[q].exists /\ x.queued = queue[q].queued
    BY <1>1, QueueFields
  <2> HIDE DEF x
  <2> QED
    BY <1>2, <2>1, <2>2 DEF TypeOK
<1>3. CASE ~alive[p]
  BY <1>3 DEF Unbound, TypeOK
<1> QED
  BY <1>2, <1>3

\* A delivery takes a topic from one queue.
LEMMA TakenQueues ==
  ASSUME TypeOK, NEW q \in Queues, NEW t \in Topics,
         queue' = [queue EXCEPT ![q].queued = @ \ {t}]
  PROVE  /\ queue' \in [Queues -> Queue]
         /\ \A r \in Queues :
              /\ queue'[r].exists = queue[r].exists /\ queue'[r].bound = queue[r].bound
              /\ queue'[r].queued \subseteq queue[r].queued
<1>1. queue[q] \in Queue /\ queue[q].queued \ {t} \in SUBSET Topics
  BY QueueFields DEF TypeOK
<1> DEFINE x == [queue[q] EXCEPT !.queued = queue[q].queued \ {t}]
<1>2. queue' = [queue EXCEPT ![q] = x]
  OBVIOUS
<1>3. /\ x \in Queue /\ x.bound = queue[q].bound /\ x.exists = queue[q].exists
      /\ x.queued = queue[q].queued \ {t}
  BY <1>1, QueueFields
<1> HIDE DEF x
<1> QED
  BY <1>2, <1>3 DEF TypeOK

\* A message puts its topic into the queues that are bound for it.
LEMMA DeliveredQueues ==
  ASSUME TypeOK, NEW t \in Topics, queue' = Delivered(t)
  PROVE  /\ queue' \in [Queues -> Queue]
         /\ \A r \in Queues :
              /\ queue'[r].exists = queue[r].exists /\ queue'[r].bound = queue[r].bound
              /\ queue'[r].queued = IF Routed(queue[r], t)
                                    THEN queue[r].queued \cup {t} ELSE queue[r].queued
<1>1. ASSUME NEW r \in Queues
      PROVE  queue[r] \in Queue /\ queue[r].queued \cup {t} \in SUBSET Topics
  BY QueueFields DEF TypeOK
<1>2. ASSUME NEW r \in Queues
      PROVE  queue'[r] = IF Routed(queue[r], t)
                         THEN [queue[r] EXCEPT !.queued = queue[r].queued \cup {t}]
                         ELSE queue[r]
  BY DEF Delivered
<1>3. queue' = [r \in Queues |-> queue'[r]]
  BY DEF Delivered
<1>4. ASSUME NEW r \in Queues
      PROVE  /\ queue'[r] \in Queue
             /\ queue'[r].exists = queue[r].exists /\ queue'[r].bound = queue[r].bound
             /\ queue'[r].queued = IF Routed(queue[r], t)
                                   THEN queue[r].queued \cup {t} ELSE queue[r].queued
  <2> DEFINE x == [queue[r] EXCEPT !.queued = queue[r].queued \cup {t}]
  <2>1. /\ x \in Queue /\ x.queued = queue[r].queued \cup {t}
        /\ x.exists = queue[r].exists /\ x.bound = queue[r].bound
    BY <1>1, QueueFields
  <2>2. queue'[r] = IF Routed(queue[r], t) THEN x ELSE queue[r]
    BY <1>2
  <2> HIDE DEF x
  <2> QED
    BY <1>1, <2>1, <2>2
<1>5. queue' \in [Queues -> Queue]
  <2> DEFINE f == queue'
  <2>1. f = [r \in Queues |-> f[r]] /\ \A r \in Queues : f[r] \in Queue
    BY <1>3, <1>4
  <2> HIDE DEF f
  <2>2. f \in [Queues -> Queue]
    BY <2>1
  <2> QED
    BY <2>2 DEF f
<1> QED
  BY <1>4, <1>5

\* A reconnection declares the queues anew and leaves what it finds.
LEMMA SetUpQueues ==
  ASSUME TypeOK, NEW p \in Processes, queue' = SetUp(p)
  PROVE  /\ queue' \in [Queues -> Queue]
         /\ \A r \in Queues \ {"share", p} : queue'[r] = queue[r]
         /\ queue'["share"].exists
         /\ queue'["share"].queued \subseteq queue["share"].queued
         /\ FixedKeys \subseteq queue'["share"].bound
         /\ queue["share"].exists => queue["share"].bound \subseteq queue'["share"].bound
         /\ queue'["share"].bound \subseteq queue["share"].bound \cup FixedKeys
         /\ queue[p].exists => queue'[p].exists
         /\ queue'[p].bound \subseteq queue[p].bound
         /\ queue'[p].queued \subseteq queue[p].queued
<1> DEFINE D == Declared(queue["share"])
           S == BoundWith(D, FixedKeys)
           O == IF exchange_type = "topictype" THEN Declared(queue[p]) ELSE queue[p]
<1>1. queue' = [[queue EXCEPT !["share"] = S] EXCEPT ![p] = O]
  BY TopicAssumption DEF SetUp, TypeOK, Queues
<1>2. \A r \in {"share", p} :
        /\ queue[r] \in Queue /\ Declared(queue[r]) \in Queue
        /\ Declared(queue[r]) = (IF queue[r].exists THEN queue[r] ELSE NewQueue)
  BY NoQueueFields DEF TypeOK, Queues, Declared
<1>3. D.bound \cup FixedKeys \in SUBSET Keys
  BY <1>2, QueueFields DEF FixedKeys, Keys
<1> HIDE DEF D
<1>4. /\ S \in Queue /\ S.bound = D.bound \cup FixedKeys
      /\ S.exists = D.exists /\ S.queued = D.queued
  BY <1>2, <1>3, QueueFields DEF D, BoundWith
<1>5. (O \in Queue /\ O = queue[p]) \/ O = Declared(queue[p])
  BY <1>2
<1>6. O \in Queue
  BY <1>2
<1> HIDE DEF S, O
<1>7. /\ queue' \in [Queues -> Queue] /\ queue'["share"] = S /\ queue'[p] = O
      /\ \A r \in Queues \ {"share", p} : queue'[r] = queue[r]
  BY <1>1, <1>4, <1>6, TopicAssumption DEF TypeOK, Queues
<1>8. /\ D.exists /\ D.queued \subseteq queue["share"].queued
      /\ D.bound \subseteq queue["share"].bound
      /\ queue["share"].exists => D.bound = queue["share"].bound
  BY <1>2, NoQueueFields DEF D
<1>9. /\ queue[p].exists => O.exists
      /\ O.bound \subseteq queue[p].bound /\ O.queued \subseteq queue[p].queued
  BY <1>2, <1>5, NoQueueFields
<1> QED
  BY <1>4, <1>7, <1>8, <1>9

\* Rebinding adds the keys the process believes in to the queues that are there.
LEMMA ReboundQueues ==
  ASSUME TypeOK, NEW p \in Processes, Rebind(p)
  PROVE  /\ queue' \in [Queues -> Queue]
         /\ \A r \in Queues : /\ queue'[r].exists = queue[r].exists
                              /\ queue'[r].queued = queue[r].queued
                              /\ queue[r].bound \subseteq queue'[r].bound
         /\ \A r \in Queues \ {"share", p} : queue'[r] = queue[r]
         /\ queue'["share"].bound
              \subseteq queue["share"].bound \cup bound_share[p] \cup FixedKeys
         /\ queue'[p].bound \subseteq queue[p].bound \cup bound_self[p]
         /\ alive' \in [Processes -> BOOLEAN]
         /\ \A r \in Processes : r # p => alive'[r] = alive[r]
         /\ alive'[p] => alive[p]
         /\ alive'[p] /\ queue["share"].exists
              => bound_share[p] \subseteq queue'["share"].bound
         /\ alive'[p] /\ queue[p].exists => bound_self[p] \subseteq queue'[p].bound
<1>0. /\ alive' \in [Processes -> BOOLEAN]
      /\ \A r \in Processes : r # p => alive'[r] = alive[r]
      /\ alive'[p] => alive[p] /\ ~Refused("share", ShareKeys(p))
  BY DEF Rebind, AliveAfterRebind, TypeOK
<1>1. CASE alive[p] /\ ~Refused("share", ShareKeys(p))
  <2> DEFINE keys == bound_share[p] \cup FixedKeys
             S == Rebound(queue["share"], keys)
             O == Rebound(queue[p], bound_self[p])
  <2>1. queue' = [[queue EXCEPT !["share"] = S] EXCEPT ![p] = O]
    BY <1>1, TopicAssumption DEF Rebind, ShareKeys, TypeOK, Queues
  <2>2. keys \in SUBSET Keys /\ bound_self[p] \in SUBSET Keys
    BY DEF TypeOK, Keys, FixedKeys
  <2>3. ASSUME NEW q \in Queue, NEW B \in SUBSET Keys
        PROVE  /\ Rebound(q, B) \in Queue
               /\ Rebound(q, B).exists = q.exists /\ Rebound(q, B).queued = q.queued
               /\ Rebound(q, B).bound = IF q.exists THEN q.bound \cup B ELSE q.bound
    <3>1. q.bound \cup B \in SUBSET Keys
      BY QueueFields
    <3>2. Rebound(q, B) = IF q.exists THEN [q EXCEPT !.bound = q.bound \cup B] ELSE q
      BY DEF Rebound, BoundWith
    <3> QED
      BY <3>1, <3>2, QueueFields
  <2>4. queue["share"] \in Queue /\ queue[p] \in Queue
    BY DEF TypeOK, Queues
  <2> HIDE DEF keys
  <2>5. /\ S \in Queue /\ S.exists = queue["share"].exists
        /\ S.queued = queue["share"].queued
        /\ S.bound = IF queue["share"].exists
                     THEN queue["share"].bound \cup keys ELSE queue["share"].bound
    BY <2>2, <2>3, <2>4
  <2>6. /\ O \in Queue /\ O.exists = queue[p].exists /\ O.queued = queue[p].queued
        /\ O.bound = IF queue[p].exists
                     THEN queue[p].bound \cup bound_self[p] ELSE queue[p].bound
    BY <2>2, <2>3, <2>4
  <2> HIDE DEF S, O
  <2>7. /\ queue' \in [Queues -> Queue] /\ queue'["share"] = S /\ queue'[p] = O
        /\ \A r \in Queues \ {"share", p} : queue'[r] = queue[r]
    BY <2>1, <2>5, <2>6, TopicAssumption DEF TypeOK, Queues
  <2> QED
    BY <1>0, <2>5, <2>6, <2>7 DEF keys
<1>2. CASE ~(alive[p] /\ ~Refused("share", ShareKeys(p)))
  BY <1>0, <1>2 DEF Rebind, TypeOK
<1> QED
  BY <1>1, <1>2

\* A queue that the broker drops is gone, the others stay.
LEMMA DroppedQueues ==
  ASSUME TypeOK, NEW p \in Processes, BrokerNotices(p)
  PROVE  /\ queue' \in [Queues -> Queue]
         /\ \A r \in Queues : queue'[r] = queue[r] \/ queue'[r] = NoQueue
         /\ \A r \in Processes : Consuming(r) => /\ queue'[r] = queue[r]
                                                 /\ queue'["share"] = queue["share"]
BY NoQueueFields, TopicAssumption DEF BrokerNotices, TypeOK, Queues

-----------------------------------------------------------------------------
\* The types, and what holds for any number of instances.

\* Every step keeps the types.
LEMMA StepTypeOK == TypeOK /\ [Next]_vars => TypeOK'
<1> USE TopicAssumption
<1> SUFFICES ASSUME TypeOK, [Next]_vars PROVE TypeOK'
  OBVIOUS
<1>1. ASSUME NEW p \in Processes, NEW k \in Patterns, NEW q \in Queues, Subscribe(p, k,
  q)
      PROVE  TypeOK'
  <2>1. queue' \in [Queues -> Queue]
    BY <1>1, SubscribeQueues DEF Subscribe, TypeOK
  <2> QED
    BY <1>1, <2>1 DEF Subscribe, TypeOK, Keys, client, broker, history
<1>2. ASSUME NEW p \in Processes, NEW k \in Patterns, Unsubscribe(p, k) PROVE TypeOK'
  <2>1. PICK q \in {"share", p} : queue' = Unbound(p, k, q)
    BY <1>2 DEF Unsubscribe
  <2>2. queue' \in [Queues -> Queue]
    BY <2>1, UnboundQueues DEF Queues
  <2> QED
    BY <1>2, <2>2 DEF Unsubscribe, TypeOK, Keys, client, broker, history
<1>3. ASSUME NEW p \in Processes, RegisterCallback(p) PROVE TypeOK'
  BY <1>3 DEF RegisterCallback, TypeOK, client, broker, history
<1>4. ASSUME NEW p \in Processes, NEW q \in Queues, NEW t \in Topics, TakeMessage(p, q,
  t)
      PROVE  TypeOK'
  <2>1. queue' = [queue EXCEPT ![q].queued = @ \ {t}]
    BY <1>4 DEF TakeMessage
  <2>2. queue' \in [Queues -> Queue]
    BY <2>1, TakenQueues
  <2> QED
    BY <1>4, <2>2 DEF TakeMessage, TypeOK, client, broker, history
<1>5. ASSUME NEW p \in Processes, NEW q \in Queues, NEW t \in Topics, LostToGhost(p, q,
  t)
      PROVE  TypeOK'
  <2>1. queue' = [queue EXCEPT ![q].queued = @ \ {t}]
    BY <1>5 DEF LostToGhost
  <2>2. queue' \in [Queues -> Queue]
    BY <2>1, TakenQueues
  <2> QED
    BY <1>5, <2>2 DEF LostToGhost, TypeOK, client, broker, history
<1>6. ASSUME NEW p \in Processes, Consume(p) PROVE TypeOK'
  BY <1>6 DEF Consume, TypeOK, client, broker, history
<1>7. ASSUME NEW p \in Processes, Dispatch(p) PROVE TypeOK'
  BY <1>7 DEF Dispatch, TypeOK, client, broker, history
<1>8. ASSUME NEW p \in Processes, HandOver(p) PROVE TypeOK'
  BY <1>8 DEF HandOver, TypeOK, client, broker, history
<1>9. ASSUME NEW p \in Processes, ConsumeFails(p) PROVE TypeOK'
  BY <1>9 DEF ConsumeFails, TypeOK, client, broker, history
<1>10. ASSUME NEW p \in Processes, Reconnect(p) PROVE TypeOK'
  <2>1. queue' = SetUp(p)
    BY <1>10 DEF Reconnect
  <2>2. queue' \in [Queues -> Queue]
    BY <2>1, SetUpQueues
  <2> QED
    BY <1>10, <2>2 DEF Reconnect, TypeOK, client, broker, history
<1>11. ASSUME NEW p \in Processes, Rebind(p) PROVE TypeOK'
  <2>1. queue' \in [Queues -> Queue] /\ alive' \in [Processes -> BOOLEAN]
    BY <1>11, ReboundQueues
  <2> QED
    BY <1>11, <2>1 DEF Rebind, TypeOK, Keys, client, broker, history
<1>12. ASSUME NEW p \in Processes, ConnectionBreaks(p) PROVE TypeOK'
  BY <1>12 DEF ConnectionBreaks, TypeOK, client, broker, history
<1>13. ASSUME NEW p \in Processes, BrokerNotices(p) PROVE TypeOK'
  <2>1. queue' \in [Queues -> Queue]
    BY <1>13, DroppedQueues DEF BrokerNotices, TypeOK
  <2> QED
    BY <1>13, <2>1 DEF BrokerNotices, TypeOK, Keys, client, broker, history
<1>14. ASSUME NEW t \in Topics, SendRabbitmqMessage(t) PROVE TypeOK'
  <2>1. queue' = Delivered(t)
    BY <1>14 DEF SendRabbitmqMessage
  <2>2. queue' \in [Queues -> Queue]
    BY <2>1, DeliveredQueues
  <2> QED
    BY <1>14, <2>2 DEF SendRabbitmqMessage, TypeOK, client, broker, history
<1>15. ASSUME BrokerRestarts PROVE TypeOK'
  <2>1. queue' \in [Queues -> Queue]
    BY <1>15, NoQueueFields DEF BrokerRestarts, TypeOK, Queues
  <2> QED
    BY <1>15, <2>1 DEF BrokerRestarts, TypeOK, Keys, client, broker, history
<1>16. CASE UNCHANGED vars
  BY <1>16 DEF TypeOK, vars, client, broker, history
<1> QED
  BY <1>1, <1>2, <1>3, <1>4, <1>5, <1>6, <1>7, <1>8, <1>9, <1>10, <1>11, <1>12, <1>13,
    <1>14, <1>15, <1>16 DEF Next, RecvSteps, PublishTopic, PublishFanout,
    SendWithoutKey, PublishDirect

\* Every step keeps the bindings that the client believes in.
LEMMA StepIInv == IInv /\ [Next]_vars => (ConsumedExists /\ SelfMirrors /\ FixedIsThere)'
<1> USE TopicAssumption
<1> DEFINE Mirrors == ConsumedExists /\ SelfMirrors /\ FixedIsThere
<1> SUFFICES ASSUME TypeOK, Mirrors, [Next]_vars PROVE Mirrors'
  BY DEF IInv
<1>1. ASSUME NEW p \in Processes, NEW k \in Patterns, NEW q \in Queues, Subscribe(p, k,
  q)
      PROVE  Mirrors'
  BY <1>1, SubscribeQueues DEF Subscribe, ConsumedExists, Consuming, QueuesExist,
    SelfMirrors, Connected, FixedIsThere, FixedKeys, TypeOK, Queues, client, broker,
    history
<1>2. ASSUME NEW p \in Processes, NEW k \in Patterns, Unsubscribe(p, k) PROVE Mirrors'
  <2>1. /\ UNCHANGED <<exchange_type, recv, alive>>
        /\ FixedKeys' = FixedKeys /\ k \notin FixedKeys
        /\ "share" \in Queues /\ p \in Queues /\ p # "share"
    BY <1>2 DEF Unsubscribe, FixedKeys, Queues
  <2>2. ASSUME NEW q \in {"share", p}, queue' = Unbound(p, k, q)
        PROVE  ConsumedExists' /\ FixedIsThere'
    <3>0. \A r \in Queues :
            /\ queue'[r].exists = queue[r].exists
            /\ queue'[r].bound = IF r = q /\ alive[p] THEN queue[r].bound \ {k}
                                 ELSE queue[r].bound
      BY <2>1, <2>2, UnboundQueues
    <3>1. /\ \A r \in Queues : queue'[r].exists = queue[r].exists
          /\ queue["share"].bound \ {k} \subseteq queue'["share"].bound
      BY <2>1, <3>0
    <3>2. ConsumedExists'
      BY <2>1, <3>1 DEF ConsumedExists, Consuming, QueuesExist, Queues
    <3>3. FixedIsThere'
      BY <2>1, <3>1 DEF FixedIsThere
    <3> QED
      BY <3>2, <3>3
  <2>3. CASE queue' = Unbound(p, k, "share") /\ UNCHANGED bound_self
    <3>1. \A r \in Processes : /\ queue'[r].exists = queue[r].exists
                              /\ queue'[r].bound = queue[r].bound
      <4>1. \A r \in Queues :
              /\ queue'[r].exists = queue[r].exists
              /\ queue'[r].bound = IF r = "share" /\ alive[p] THEN queue[r].bound \ {k}
                                   ELSE queue[r].bound
        BY <2>1, <2>3, UnboundQueues
      <4> QED
        BY <4>1 DEF Queues
    <3>2. SelfMirrors'
      BY <2>1, <2>3, <3>1 DEF SelfMirrors, Connected
    <3> QED
      BY <2>1, <2>2, <2>3, <3>2
  <2>4. CASE /\ queue' = Unbound(p, k, p)
             /\ exchange_type = "topictype"
             /\ bound_self' = [bound_self EXCEPT ![p] = @ \ {k}]
    <3>1. \A r \in Processes :
            /\ queue'[r].exists = queue[r].exists
            /\ queue[r].bound \ {k} \subseteq queue'[r].bound
            /\ r # p => queue'[r].bound = queue[r].bound
      <4>1. \A r \in Queues :
              /\ queue'[r].exists = queue[r].exists
              /\ queue'[r].bound = IF r = p /\ alive[p] THEN queue[r].bound \ {k}
                                   ELSE queue[r].bound
        BY <2>1, <2>4, UnboundQueues
      <4> QED
        BY <4>1 DEF Queues
    <3>2. \A r \in Processes :
            bound_self'[r] = IF r = p THEN bound_self[r] \ {k} ELSE bound_self[r]
      BY <2>4 DEF TypeOK
    <3>3. SelfMirrors'
      BY <2>1, <2>4, <3>1, <3>2 DEF SelfMirrors, Connected
    <3> QED
      BY <2>1, <2>2, <2>4, <3>3
  <2> QED
    BY <1>2, <2>3, <2>4 DEF Unsubscribe
<1>3. ASSUME NEW p \in Processes, RegisterCallback(p) PROVE Mirrors'
  BY <1>3 DEF RegisterCallback, ConsumedExists, Consuming, QueuesExist, SelfMirrors,
    Connected, FixedIsThere, FixedKeys, TypeOK, Queues, client, broker, history
<1>4. ASSUME NEW p \in Processes, NEW q \in Queues, NEW t \in Topics, TakeMessage(p, q,
  t)
      PROVE  Mirrors'
  <2>1. queue' = [queue EXCEPT ![q].queued = @ \ {t}]
    BY <1>4 DEF TakeMessage
  <2> QED
    BY <1>4, <2>1, TakenQueues DEF TakeMessage, ConsumedExists, Consuming, QueuesExist,
      SelfMirrors, Connected, FixedIsThere, FixedKeys, TypeOK, Queues, client, broker,
      history
<1>5. ASSUME NEW p \in Processes, NEW q \in Queues, NEW t \in Topics, LostToGhost(p, q,
  t)
      PROVE  Mirrors'
  <2>1. queue' = [queue EXCEPT ![q].queued = @ \ {t}]
    BY <1>5 DEF LostToGhost
  <2> QED
    BY <1>5, <2>1, TakenQueues DEF LostToGhost, ConsumedExists, Consuming, QueuesExist,
      SelfMirrors, Connected, FixedIsThere, FixedKeys, TypeOK, Queues, client, broker,
      history
<1>6. ASSUME NEW p \in Processes, Consume(p) PROVE Mirrors'
  BY <1>6 DEF Consume, ConsumedExists, Consuming, QueuesExist, SelfMirrors, Connected,
    FixedIsThere, FixedKeys, TypeOK, Queues, client, broker, history
<1>7. ASSUME NEW p \in Processes, Dispatch(p) PROVE Mirrors'
  BY <1>7 DEF Dispatch, ConsumedExists, Consuming, QueuesExist, SelfMirrors, Connected,
    FixedIsThere, FixedKeys, TypeOK, Queues, client, broker, history
<1>8. ASSUME NEW p \in Processes, HandOver(p) PROVE Mirrors'
  BY <1>8 DEF HandOver, ConsumedExists, Consuming, QueuesExist, SelfMirrors, Connected,
    FixedIsThere, FixedKeys, TypeOK, Queues, client, broker, history
<1>9. ASSUME NEW p \in Processes, ConsumeFails(p) PROVE Mirrors'
  BY <1>9 DEF ConsumeFails, ConsumedExists, Consuming, QueuesExist, SelfMirrors,
    Connected, FixedIsThere, FixedKeys, TypeOK, Queues, client, broker, history
<1>10. ASSUME NEW p \in Processes, Reconnect(p) PROVE Mirrors'
  <2>1. queue' = SetUp(p) /\ UNCHANGED <<exchange_type, bound_self>>
    BY <1>10 DEF Reconnect, client
  <2>2. \A r \in Processes :
          /\ recv'[r] = IF r = p THEN "rebind" ELSE recv[r]
          /\ alive'[r] = IF r = p THEN TRUE ELSE alive[r]
    BY <1>10 DEF Reconnect, TypeOK
  <2>3. ASSUME NEW r \in Processes, r # p PROVE r \in Queues \ {"share", p}
    BY <2>3 DEF Queues
  <2> USE <2>1, <2>2, <2>3, SetUpQueues
  <2>4. ConsumedExists'
    BY DEF ConsumedExists, Consuming, QueuesExist
  <2>5. SelfMirrors'
    BY DEF SelfMirrors, Connected
  <2>6. FixedIsThere'
    BY DEF FixedIsThere, FixedKeys
  <2> QED
    BY <2>4, <2>5, <2>6
<1>11. ASSUME NEW p \in Processes, Rebind(p) PROVE Mirrors'
  <2>1. UNCHANGED <<exchange_type, bound_self>>
    BY <1>11 DEF Rebind, client
  <2>2. \A r \in Processes : recv'[r] = IF r = p THEN "restart" ELSE recv[r]
    BY <1>11 DEF Rebind, TypeOK
  <2>3. ASSUME NEW r \in Processes PROVE r \in Queues /\ (r # p => queue'[r] = queue[r])
    BY <1>11, <2>3, ReboundQueues DEF Queues
  <2>4. "share" \in Queues
    BY DEF Queues
  <2> USE <2>1, <2>2, <2>3, <2>4, <1>11, ReboundQueues
  <2>5. ConsumedExists'
    BY DEF ConsumedExists, Consuming, QueuesExist
  <2>6. SelfMirrors'
    BY DEF SelfMirrors, Connected
  <2>7. FixedIsThere'
    BY DEF FixedIsThere, FixedKeys
  <2> QED
    BY <2>5, <2>6, <2>7
<1>12. ASSUME NEW p \in Processes, ConnectionBreaks(p) PROVE Mirrors'
  BY <1>12 DEF ConnectionBreaks, ConsumedExists, Consuming, QueuesExist, SelfMirrors,
    Connected, FixedIsThere, FixedKeys, TypeOK, Queues, client, broker, history
<1>13. ASSUME NEW p \in Processes, BrokerNotices(p) PROVE Mirrors'
  <2>1. UNCHANGED <<exchange_type, bound_self, alive, recv>>
    BY <1>13 DEF BrokerNotices, client
  <2>2. \A r \in Processes : r \in Queues
    BY DEF Queues
  <2>3. "share" \in Queues
    BY DEF Queues
  <2> USE <2>1, <2>2, <2>3, <1>13, DroppedQueues, NoQueueFields
  <2>4. ConsumedExists'
    BY DEF ConsumedExists, Consuming, QueuesExist
  <2>5. SelfMirrors'
    BY DEF SelfMirrors, Connected
  <2>6. FixedIsThere'
    BY DEF FixedIsThere, FixedKeys
  <2> QED
    BY <2>4, <2>5, <2>6
<1>14. ASSUME NEW t \in Topics, SendRabbitmqMessage(t) PROVE Mirrors'
  <2>1. queue' = Delivered(t)
    BY <1>14 DEF SendRabbitmqMessage
  <2> QED
    BY <1>14, <2>1, DeliveredQueues, ZenonT(60) DEF SendRabbitmqMessage, ConsumedExists, Consuming,
      QueuesExist, SelfMirrors, Connected, FixedIsThere, FixedKeys, TypeOK, Queues,
      client, broker, history
<1>15. ASSUME BrokerRestarts PROVE Mirrors'
  BY <1>15, NoQueueFields DEF BrokerRestarts, ConsumedExists, Consuming, QueuesExist,
    SelfMirrors, Connected, FixedIsThere, FixedKeys, TypeOK, Queues, client, broker,
    history
<1>16. CASE UNCHANGED vars
  BY <1>16 DEF ConsumedExists, Consuming, QueuesExist, SelfMirrors, Connected,
    FixedIsThere, FixedKeys, vars, client, broker, history
<1> QED
  BY <1>1, <1>2, <1>3, <1>4, <1>5, <1>6, <1>7, <1>8, <1>9, <1>10, <1>11, <1>12, <1>13,
    <1>14, <1>15, <1>16 DEF Next, RecvSteps, PublishTopic, PublishFanout,
    SendWithoutKey, PublishDirect

LEMMA InitIInv == Init => IInv
<1> USE TopicAssumption, NoQueueFields
<1> SUFFICES ASSUME Init PROVE IInv
  OBVIOUS
<1> DEFINE Q(q) == IF q = "share" THEN BoundWith(NewQueue, FixedKeys)
                   ELSE IF exchange_type = "topictype" THEN NewQueue ELSE NoQueue
<1>1. queue = [q \in Queues |-> Q(q)]
  BY DEF Init, BoundWith
<1>2. FixedKeys \in SUBSET Keys
  BY DEF FixedKeys, Keys
<1>3. /\ BoundWith(NewQueue, FixedKeys) \in Queue
      /\ BoundWith(NewQueue, FixedKeys).bound = FixedKeys
  BY <1>2, QueueFields DEF BoundWith
<1>4. /\ \A q \in Queues : Q(q) \in Queue
      /\ Q("share").bound = FixedKeys /\ "share" \in Queues
  BY <1>3 DEF Queues
<1> HIDE DEF Q
<1>5. queue \in [Queues -> Queue] /\ queue["share"].bound = FixedKeys
  BY <1>1, <1>4
<1>6. TypeOK
  BY <1>2, <1>5 DEF Init, TypeOK
<1>7. ConsumedExists /\ SelfMirrors /\ FixedIsThere
  BY <1>5 DEF Init, ConsumedExists, Consuming, SelfMirrors, FixedIsThere
<1> QED
  BY <1>6, <1>7 DEF IInv

\* The invariant holds in every reachable state.
THEOREM Invariance == Spec => []IInv
<1>1. IInv /\ [Next]_vars => IInv'
  BY StepTypeOK, StepIInv DEF IInv
<1> QED
  BY <1>1, InitIInv, PTL DEF Spec

\* The variables of clients and broker have their types, and conn_mutex is held
\* by a subscription or a reconnection that is under way, and by nobody else.
THEOREM TypeCorrect == Spec => []TypeOK
<1>1. IInv => TypeOK
  BY DEF IInv
<1> QED
  BY <1>1, Invariance, PTL

\* A consuming process has at the broker every binding of its own queue that it
\* believes to have, however many instances share the module.
THEOREM SelfIsBoundHolds == Spec => []SelfIsBound
<1>1. IInv => SelfIsBound
  BY DEF IInv, ConsumedExists, QueuesExist, SelfMirrors, Connected, SelfIsBound, Settled,
    Consuming, TypeOK
<1> QED
  BY <1>1, Invariance, PTL

-----------------------------------------------------------------------------
\* The shared queue, for any number of instances.

\* Only a topic wrapper's keys ever change.
OnlyFixedKeys ==
  exchange_type # "topictype" => \A p \in Processes : bound_share[p] \subseteq {"own"}

LEMMA OnlyFixedKeysHolds == Spec => []OnlyFixedKeys
<1>1. Init => OnlyFixedKeys
  <2>1. FixedKeys \subseteq {"own"}
    BY DEF FixedKeys
  <2>2. ASSUME Init, NEW p \in Processes PROVE bound_share[p] \in {FixedKeys, {}}
    <3>1. bound_share = [r \in Processes |-> IF exchange_type = "p2ptype" THEN FixedKeys ELSE {}]
      BY <2>2 DEF Init
    <3> QED BY <3>1
  <2> QED BY <2>1, <2>2 DEF OnlyFixedKeys
<1>2. OnlyFixedKeys /\ [Next]_vars => OnlyFixedKeys'
  <2> SUFFICES ASSUME OnlyFixedKeys, [Next]_vars PROVE OnlyFixedKeys'
    OBVIOUS
  <2>1. ASSUME NEW p \in Processes, NEW k \in Patterns,
               Unsubscribe(p, k) \/ \E q \in Queues : Subscribe(p, k, q)
        PROVE  OnlyFixedKeys'
    BY <2>1 DEF Unsubscribe, Subscribe, OnlyFixedKeys
  <2>2. CASE UNCHANGED client
    BY <2>2 DEF client, OnlyFixedKeys
  <2>3. ASSUME NEW p \in Processes,
               \/ RegisterCallback(p) \/ RecvSteps(p) \/ ConnectionBreaks(p)
               \/ BrokerNotices(p)
               \/ \E q \in Queues, t \in Topics : TakeMessage(p, q, t) \/ LostToGhost(p, q, t)
        PROVE  UNCHANGED <<exchange_type, bound_share>>
    BY <2>3 DEF RegisterCallback, RecvSteps, Consume, Dispatch, HandOver, ConsumeFails,
      Reconnect, Rebind, ConnectionBreaks, BrokerNotices, TakeMessage, LostToGhost, client
  <2>4. ASSUME NEW t \in Topics, SendRabbitmqMessage(t) PROVE UNCHANGED client
    BY <2>4 DEF SendRabbitmqMessage
  <2>5. ASSUME BrokerRestarts PROVE UNCHANGED client
    BY <2>5 DEF BrokerRestarts
  <2>6. CASE UNCHANGED vars
    BY <2>6 DEF vars, client, OnlyFixedKeys
  <2>7. CASE UNCHANGED <<exchange_type, bound_share>>
    BY <2>7 DEF OnlyFixedKeys
  <2> QED
    BY <2>1, <2>2, <2>3, <2>4, <2>5, <2>6, <2>7 DEF Next, PublishTopic, PublishFanout,
      SendWithoutKey, PublishDirect
<1> QED
  BY <1>1, <1>2, PTL DEF Spec

\* The queue of a p2p or broadcast module is bound as every instance of it believes,
\* however many share it, reconnect and declare it again (SetupExchgQueChannel).
THEOREM FixedShareIsBoundHolds == Spec => [](exchange_type # "topictype" => ShareIsBound)
<1>1. IInv /\ OnlyFixedKeys => (exchange_type # "topictype" => ShareIsBound)
  BY DEF IInv, OnlyFixedKeys, ConsumedExists, QueuesExist, FixedIsThere, FixedKeys,
    ShareIsBound, Settled, Consuming
<1> QED
  BY <1>1, Invariance, OnlyFixedKeysHolds, PTL

\* A key that some instance unsubscribes in this step.
Revoked(k) == \E p \in Processes : k \in bound_share[p] /\ k \notin bound_share'[p]

\* The shared queue loses no key under an instance that consumes it, unless some
\* instance unsubscribes that key: neither a lost connection of another instance
\* nor its reconnection takes a key away.  (One that does not consume yet may lose all.)
SharedKeysStay ==
  [][\A p \in Processes : Consuming(p) /\ Consuming(p)' =>
       \A k \in queue["share"].bound \ queue'["share"].bound : Revoked(k)]_vars

\* No other step takes a key from a queue that is consumed.
LEMMA StepKeepsShared ==
  ASSUME IInv, Next, NEW p \in Processes, Consuming(p), Consuming(p)',
         NEW k \in queue["share"].bound \ queue'["share"].bound
  PROVE  Revoked(k)
<1> USE TopicAssumption
<1>1. TypeOK /\ "share" \in Queues /\ queue["share"].exists
  BY DEF IInv, ConsumedExists, QueuesExist, Queues
<1>2. ASSUME NEW r \in Processes, NEW j \in Patterns, Unsubscribe(r, j)
      PROVE  Revoked(k)
  <2>1. CASE j \in bound_share[r] /\ bound_share' = [bound_share EXCEPT ![r] = @ \ {j}]
                 /\ queue' = Unbound(r, j, "share")
    <3>1. queue'["share"].bound = IF alive[r] THEN queue["share"].bound \ {j}
                                  ELSE queue["share"].bound
      <4>1. \A q \in Queues :
              queue'[q].bound = IF q = "share" /\ alive[r] THEN queue[q].bound \ {j}
                                ELSE queue[q].bound
        BY <1>1, <1>2, <2>1, UnboundQueues
      <4> QED BY <1>1, <4>1
    <3>2. k = j
      BY <3>1
    <3>3. j \notin bound_share'[r]
      BY <1>1, <2>1 DEF TypeOK
    <3> QED BY <2>1, <3>2, <3>3 DEF Revoked
  <2>2. CASE queue' = Unbound(r, j, r)
    <3>1. r \in Queues /\ r # "share"
      BY DEF Queues
    <3>2. queue'["share"].bound = queue["share"].bound
      <4>1. \A q \in Queues :
              queue'[q].bound = IF q = r /\ alive[r] THEN queue[q].bound \ {j}
                                ELSE queue[q].bound
        BY <1>1, <1>2, <2>2, <3>1, UnboundQueues
      <4> QED BY <1>1, <3>1, <4>1
    <3> QED BY <3>2
  <2> QED BY <1>2, <2>1, <2>2 DEF Unsubscribe
<1>3. queue["share"].bound \subseteq queue'["share"].bound
        \/ \E r \in Processes, j \in Patterns : Unsubscribe(r, j)
  <2>1. ASSUME NEW r \in Processes, NEW j \in Patterns, NEW q \in Queues, Subscribe(r, j, q)
        PROVE  queue["share"].bound \subseteq queue'["share"].bound
    BY <1>1, <2>1, SubscribeQueues
  <2>2. ASSUME NEW r \in Processes, NEW q \in Queues, NEW t \in Topics,
               TakeMessage(r, q, t) \/ LostToGhost(r, q, t)
        PROVE  queue["share"].bound \subseteq queue'["share"].bound
    <3>1. queue' = [queue EXCEPT ![q].queued = @ \ {t}]
      BY <2>2 DEF TakeMessage, LostToGhost
    <3> QED BY <1>1, <3>1, TakenQueues
  <2>3. ASSUME NEW r \in Processes, Reconnect(r)
        PROVE  queue["share"].bound \subseteq queue'["share"].bound
    <3>1. queue' = SetUp(r)
      BY <2>3 DEF Reconnect
    <3> QED BY <1>1, <3>1, SetUpQueues
  <2>4. ASSUME NEW r \in Processes, Rebind(r)
        PROVE  queue["share"].bound \subseteq queue'["share"].bound
    BY <1>1, <2>4, ReboundQueues
  <2>5. ASSUME NEW r \in Processes, BrokerNotices(r)
        PROVE  queue["share"].bound \subseteq queue'["share"].bound
    BY <1>1, <2>5, DroppedQueues
  <2>6. ASSUME NEW t \in Topics, SendRabbitmqMessage(t)
        PROVE  queue["share"].bound \subseteq queue'["share"].bound
    <3>1. queue' = Delivered(t)
      BY <2>6 DEF SendRabbitmqMessage
    <3> QED BY <1>1, <3>1, DeliveredQueues
  <2>7. ~BrokerRestarts
    BY DEF BrokerRestarts, Consuming
  <2>8. ASSUME NEW r \in Processes,
               \/ RegisterCallback(r) \/ Consume(r) \/ Dispatch(r) \/ HandOver(r)
               \/ ConsumeFails(r) \/ ConnectionBreaks(r)
        PROVE  queue["share"].bound \subseteq queue'["share"].bound
    BY <2>8 DEF RegisterCallback, Consume, Dispatch, HandOver, ConsumeFails,
      ConnectionBreaks, broker
  <2> QED
    BY <2>1, <2>2, <2>3, <2>4, <2>5, <2>6, <2>7, <2>8 DEF Next, RecvSteps, PublishTopic,
      PublishFanout, SendWithoutKey, PublishDirect
<1> QED
  BY <1>2, <1>3

\* A consuming instance loses a shared key by an unsubscription only.
THEOREM SharedKeysStayHolds == Spec => SharedKeysStay
<1>1. ASSUME IInv, [Next]_vars
      PROVE  [\A p \in Processes : Consuming(p) /\ Consuming(p)' =>
                \A k \in queue["share"].bound \ queue'["share"].bound : Revoked(k)]_vars
  BY <1>1, StepKeepsShared
<1> QED
  BY <1>1, Invariance, PTL DEF Spec, SharedKeysStay

-----------------------------------------------------------------------------
\* A single instance of the module.

SingleInstance == \A p, r \in Processes : p = r

\* Every step keeps the shared bindings of a single instance.
LEMMA StepShareMirrors ==
  ASSUME SingleInstance
  PROVE  IInv /\ ShareMirrors /\ [Next]_vars => ShareMirrors'
<1> USE TopicAssumption, SingleInstance DEF SingleInstance
<1> SUFFICES ASSUME TypeOK, ShareMirrors, [Next]_vars PROVE ShareMirrors'
  BY DEF IInv
<1>1. ASSUME NEW p \in Processes, NEW k \in Patterns, NEW q \in Queues, Subscribe(p, k,
  q)
      PROVE  ShareMirrors'
  BY <1>1, SubscribeQueues DEF Subscribe, ShareMirrors, Connected, TypeOK, Queues,
    client, broker, history
<1>2. ASSUME NEW p \in Processes, NEW k \in Patterns, Unsubscribe(p, k)
      PROVE  ShareMirrors'
  <2>1. /\ UNCHANGED <<recv, alive>> /\ "share" \in Queues /\ p \in Queues
        /\ p # "share"
    BY <1>2 DEF Unsubscribe, Queues
  <2>2. CASE /\ queue' = Unbound(p, k, "share")
             /\ bound_share' = [bound_share EXCEPT ![p] = @ \ {k}]
    <3>1. /\ queue'["share"].exists = queue["share"].exists
          /\ queue["share"].bound \ {k} \subseteq queue'["share"].bound
      <4>1. \A r \in Queues :
              /\ queue'[r].exists = queue[r].exists
              /\ queue'[r].bound = IF r = "share" /\ alive[p] THEN queue[r].bound \ {k}
                                   ELSE queue[r].bound
        BY <2>1, <2>2, UnboundQueues
      <4> QED
        BY <2>1, <4>1
    <3>2. bound_share'[p] = bound_share[p] \ {k}
      BY <2>2 DEF TypeOK
    <3> QED
      BY <2>1, <3>1, <3>2 DEF ShareMirrors, Connected
  <2>3. CASE queue' = Unbound(p, k, p) /\ UNCHANGED bound_share
    <3>1. /\ queue'["share"].exists = queue["share"].exists
          /\ queue'["share"].bound = queue["share"].bound
      <4>1. \A r \in Queues :
              /\ queue'[r].exists = queue[r].exists
              /\ queue'[r].bound = IF r = p /\ alive[p] THEN queue[r].bound \ {k}
                                   ELSE queue[r].bound
        BY <2>1, <2>3, UnboundQueues
      <4> QED
        BY <2>1, <4>1
    <3> QED
      BY <2>1, <2>3, <3>1 DEF ShareMirrors, Connected
  <2> QED
    BY <1>2, <2>2, <2>3 DEF Unsubscribe
<1>3. ASSUME NEW p \in Processes, RegisterCallback(p) PROVE ShareMirrors'
  BY <1>3 DEF RegisterCallback, ShareMirrors, Connected, TypeOK, Queues, client, broker,
    history
<1>4. ASSUME NEW p \in Processes, NEW q \in Queues, NEW t \in Topics, TakeMessage(p, q,
  t)
      PROVE  ShareMirrors'
  <2>1. queue' = [queue EXCEPT ![q].queued = @ \ {t}]
    BY <1>4 DEF TakeMessage
  <2> QED
    BY <1>4, <2>1, TakenQueues DEF TakeMessage, ShareMirrors, Connected, TypeOK, Queues,
      client, broker, history
<1>5. ASSUME NEW p \in Processes, NEW q \in Queues, NEW t \in Topics, LostToGhost(p, q,
  t)
      PROVE  ShareMirrors'
  <2>1. queue' = [queue EXCEPT ![q].queued = @ \ {t}]
    BY <1>5 DEF LostToGhost
  <2> QED
    BY <1>5, <2>1, TakenQueues DEF LostToGhost, ShareMirrors, Connected, TypeOK, Queues,
      client, broker, history
<1>6. ASSUME NEW p \in Processes, Consume(p) PROVE ShareMirrors'
  BY <1>6 DEF Consume, ShareMirrors, Connected, TypeOK, Queues, client, broker, history
<1>7. ASSUME NEW p \in Processes, Dispatch(p) PROVE ShareMirrors'
  BY <1>7 DEF Dispatch, ShareMirrors, Connected, TypeOK, Queues, client, broker, history
<1>8. ASSUME NEW p \in Processes, HandOver(p) PROVE ShareMirrors'
  BY <1>8 DEF HandOver, ShareMirrors, Connected, TypeOK, Queues, client, broker, history
<1>9. ASSUME NEW p \in Processes, ConsumeFails(p) PROVE ShareMirrors'
  BY <1>9 DEF ConsumeFails, ShareMirrors, Connected, TypeOK, Queues, client, broker,
    history
<1>10. ASSUME NEW p \in Processes, Reconnect(p) PROVE ShareMirrors'
  <2>1. queue' = SetUp(p)
    BY <1>10 DEF Reconnect
  <2> QED
    BY <1>10, <2>1, SetUpQueues DEF Reconnect, ShareMirrors, Connected, TypeOK, Queues,
      client, broker, history
<1>11. ASSUME NEW p \in Processes, Rebind(p) PROVE ShareMirrors'
  <2>1. /\ UNCHANGED bound_share /\ recv'[p] = "restart"
        /\ "share" \in Queues
    BY <1>11 DEF Rebind, client, TypeOK, Queues
  <2>2. /\ queue'["share"].exists = queue["share"].exists
        /\ alive'[p] /\ queue["share"].exists
             => bound_share[p] \subseteq queue'["share"].bound
    BY <1>11, <2>1, ReboundQueues
  <2> QED
    BY <2>1, <2>2 DEF ShareMirrors, Connected
<1>12. ASSUME NEW p \in Processes, ConnectionBreaks(p) PROVE ShareMirrors'
  BY <1>12 DEF ConnectionBreaks, ShareMirrors, Connected, TypeOK, Queues, client,
    broker, history
<1>13. ASSUME NEW p \in Processes, BrokerNotices(p) PROVE ShareMirrors'
  <2>1. UNCHANGED <<bound_share, recv, alive>> /\ "share" \in Queues
    BY <1>13 DEF BrokerNotices, client, Queues
  <2>2. queue'["share"] = queue["share"] \/ queue'["share"] = NoQueue
    BY <1>13, <2>1, DroppedQueues
  <2> QED
    BY <2>1, <2>2, NoQueueFields DEF ShareMirrors, Connected
<1>14. ASSUME NEW t \in Topics, SendRabbitmqMessage(t) PROVE ShareMirrors'
  <2>1. queue' = Delivered(t)
    BY <1>14 DEF SendRabbitmqMessage
  <2> QED
    BY <1>14, <2>1, DeliveredQueues DEF SendRabbitmqMessage, ShareMirrors, Connected,
      TypeOK, Queues, client, broker, history
<1>15. ASSUME BrokerRestarts PROVE ShareMirrors'
  BY <1>15, NoQueueFields DEF BrokerRestarts, ShareMirrors, Connected, TypeOK, Queues,
    client, broker, history
<1>16. CASE UNCHANGED vars
  BY <1>16 DEF ShareMirrors, Connected, vars, client, broker, history
<1> QED
  BY <1>1, <1>2, <1>3, <1>4, <1>5, <1>6, <1>7, <1>8, <1>9, <1>10, <1>11, <1>12, <1>13,
    <1>14, <1>15, <1>16 DEF Next, RecvSteps, PublishTopic, PublishFanout,
    SendWithoutKey, PublishDirect

\* What a step may do to the keys, the queues and the inbox of the instance without
\* disturbing KeysAreKnown.
Harmless(p) ==
  /\ Known(p) \subseteq Known(p)'
  /\ app[p] \in Known(p)' \cup {app'[p], "idle"}
  /\ bound_share'[p] \cup bound_self'[p]
       \subseteq bound_share[p] \cup bound_self[p] \cup {app'[p]}
  /\ \A q \in {"share", p} :
       /\ queue'[q].bound
            \subseteq queue[q].bound \cup bound_share[p] \cup bound_self[p] \cup {app'[p]}
       /\ \A t \in queue'[q].queued :
            t \in queue[q].queued \/ \E k \in queue[q].bound : <<k, t>> \in Matches
  /\ \/ inbox'[p] \in {inbox[p], "none"}
     \/ app[p] = "idle" /\ \E q \in {"share", p} : inbox'[p] \in queue[q].queued

LEMMA KeepsKnown ==
  ASSUME SingleInstance, TypeOK, TypeOK', KeysAreKnown,
         exchange_type' = exchange_type,
         exchange_type = "topictype" => \A p \in Processes : Harmless(p)
  PROVE  KeysAreKnown'
<1> USE TopicAssumption DEF Harmless
<1> SUFFICES ASSUME exchange_type = "topictype", NEW p \in Processes
             PROVE  (/\ bound_share[p] \cup bound_self[p] \subseteq Known(p) \cup {app[p]}
                     /\ \A q \in {"share", p} :
                          /\ queue[q].bound \subseteq Known(p) \cup {app[p]}
                          /\ \A t \in queue[q].queued :
                               \E k \in Known(p) \cup {app[p]} : <<k, t>> \in Matches
                     /\ inbox[p] # "none"
                          => \E k \in Known(p) : <<k, inbox[p]>> \in Matches)'
  BY DEF KeysAreKnown
<1> DEFINE old == Known(p) \cup {app[p]}
           new == Known(p)' \cup {app'[p]}
<1>1. old \subseteq new \cup {"idle"}
  OBVIOUS
<1>2. /\ bound_share[p] \cup bound_self[p] \subseteq old
      /\ \A q \in {"share", p} : /\ queue[q].bound \subseteq old
                                 /\ \A t \in queue[q].queued :
                                      \E k \in old : <<k, t>> \in Matches
      /\ inbox[p] # "none" => \E k \in Known(p) : <<k, inbox[p]>> \in Matches
  BY DEF KeysAreKnown
<1>3. \A t : <<"idle", t>> \notin Matches
  OBVIOUS
<1>4. "idle" \notin Keys
  BY DEF Keys
<1>5. bound_share'[p] \cup bound_self'[p] \subseteq new
  <2>1. bound_share'[p] \cup bound_self'[p] \subseteq Keys
    BY DEF TypeOK, Keys
  <2>2. bound_share'[p] \cup bound_self'[p] \subseteq old \cup {app'[p]}
    BY <1>2
  <2> QED
    BY <1>1, <1>4, <2>1, <2>2
<1>6. ASSUME NEW q \in {"share", p} PROVE queue'[q].bound \subseteq new
  <2>1. queue'[q].bound \subseteq Keys
    BY QueueFields DEF TypeOK, Queues, Queue
  <2>2. queue'[q].bound \subseteq old \cup {app'[p]}
    BY <1>2
  <2> QED
    BY <1>1, <1>4, <2>1, <2>2
<1>7. ASSUME NEW q \in {"share", p}, NEW t \in queue'[q].queued
      PROVE  \E k \in new : <<k, t>> \in Matches
  <2>1. \E k \in old : <<k, t>> \in Matches
    BY <1>2, <1>7
  <2> QED
    BY <1>1, <1>3, <2>1
<1>8. inbox'[p] # "none" => \E k \in Known(p)' : <<k, inbox'[p]>> \in Matches
  <2>1. CASE inbox'[p] \in {inbox[p], "none"}
    BY <1>2, <2>1
  <2>2. CASE app[p] = "idle" /\ \E q \in {"share", p} : inbox'[p] \in queue[q].queued
    <3>1. \E k \in old : <<k, inbox'[p]>> \in Matches
      BY <1>2, <2>2
    <3> QED
      BY <1>3, <2>2, <3>1
  <2> QED
    BY <2>1, <2>2
<1> QED
  BY <1>5, <1>6, <1>7, <1>8

\* Every step of a single instance keeps what is known of its keys.
LEMMA StepKeysAreKnown ==
  ASSUME SingleInstance
  PROVE  IInv /\ KeysAreKnown /\ [Next]_vars => KeysAreKnown'
<1> USE TopicAssumption, SingleInstance DEF SingleInstance
<1> DEFINE Kept == /\ exchange_type' = exchange_type
                   /\ exchange_type = "topictype" => \A x \in Processes : Harmless(x)
<1> SUFFICES ASSUME TypeOK, KeysAreKnown, [Next]_vars PROVE Kept
  BY StepTypeOK, KeepsKnown DEF IInv
<1>1. ASSUME NEW p \in Processes, NEW k \in Patterns, NEW q \in Queues, Subscribe(p, k,
  q)
      PROVE  Kept
  BY <1>1, SubscribeQueues DEF Subscribe, Harmless, Known, FixedKeys, TypeOK, Queues,
    client, broker, history
<1>2. ASSUME NEW p \in Processes, NEW k \in Patterns, Unsubscribe(p, k) PROVE Kept
  <2>1. /\ UNCHANGED <<exchange_type, app, inbox>>
        /\ Known(p) \subseteq Known(p)'
        /\ bound_share'[p] \cup bound_self'[p] \subseteq bound_share[p] \cup
          bound_self[p]
    BY <1>2 DEF Unsubscribe, Known, TypeOK
  <2>2. PICK q \in {"share", p} : queue' = Unbound(p, k, q)
    BY <1>2 DEF Unsubscribe
  <2>3. \A r \in Queues : /\ queue'[r].bound \subseteq queue[r].bound
                         /\ queue'[r].queued = queue[r].queued
    BY <2>2, UnboundQueues, ZenonT(60) DEF Queues
  <2> QED
    BY <2>1, <2>3 DEF Harmless, Queues
<1>3. ASSUME NEW p \in Processes, RegisterCallback(p) PROVE Kept
  BY <1>3 DEF RegisterCallback, Harmless, Known, FixedKeys, TypeOK, Queues, client,
    broker, history
<1>4. ASSUME NEW p \in Processes, NEW q \in Queues, NEW t \in Topics, TakeMessage(p, q,
  t)
      PROVE  Kept
  BY <1>4, TakenQueues DEF TakeMessage, Harmless, Known, FixedKeys, TypeOK, Queues,
    client, broker, history
<1>5. ASSUME NEW p \in Processes, NEW q \in Queues, NEW t \in Topics, LostToGhost(p, q,
  t)
      PROVE  Kept
  BY <1>5, TakenQueues DEF LostToGhost, Harmless, Known, FixedKeys, TypeOK, Queues,
    client, broker, history
<1>6. ASSUME NEW p \in Processes, Consume(p) PROVE Kept
  BY <1>6 DEF Consume, Harmless, Known, FixedKeys, TypeOK, Queues, client, broker,
    history
<1>7. ASSUME NEW p \in Processes, Dispatch(p) PROVE Kept
  BY <1>7 DEF Dispatch, Harmless, Known, FixedKeys, TypeOK, Queues, client, broker,
    history
<1>8. ASSUME NEW p \in Processes, HandOver(p) PROVE Kept
  BY <1>8 DEF HandOver, Harmless, Known, FixedKeys, TypeOK, Queues, client, broker,
    history
<1>9. ASSUME NEW p \in Processes, ConsumeFails(p) PROVE Kept
  BY <1>9 DEF ConsumeFails, Harmless, Known, FixedKeys, TypeOK, Queues, client, broker,
    history
<1>10. ASSUME NEW p \in Processes, Reconnect(p) PROVE Kept
  BY <1>10, SetUpQueues DEF Reconnect, Harmless, Known, FixedKeys, TypeOK, Queues,
    client, broker, history
<1>11. ASSUME NEW p \in Processes, Rebind(p) PROVE Kept
  <2>1. UNCHANGED <<client, app, inbox, unsubscribed>>
    BY <1>11 DEF Rebind, history
  <2>2. /\ queue'["share"].queued = queue["share"].queued
        /\ queue'[p].queued = queue[p].queued
        /\ queue'["share"].bound
             \subseteq queue["share"].bound \cup bound_share[p] \cup FixedKeys
        /\ queue'[p].bound \subseteq queue[p].bound \cup bound_self[p]
    BY <1>11, ReboundQueues DEF Queues
  <2> QED
    BY <2>1, <2>2 DEF Harmless, Known, FixedKeys, client
<1>12. ASSUME NEW p \in Processes, ConnectionBreaks(p) PROVE Kept
  BY <1>12 DEF ConnectionBreaks, Harmless, Known, FixedKeys, TypeOK, Queues, client,
    broker, history
<1>13. ASSUME NEW p \in Processes, BrokerNotices(p) PROVE Kept
  <2>1. UNCHANGED <<client, app, inbox, unsubscribed>>
    BY <1>13 DEF BrokerNotices, history
  <2>2. \A r \in Queues : /\ queue'[r].bound \subseteq queue[r].bound
                         /\ queue'[r].queued \subseteq queue[r].queued
    BY <1>13, DroppedQueues, NoQueueFields
  <2> QED
    BY <2>1, <2>2 DEF Harmless, Known, Queues, client
<1>14. ASSUME NEW t \in Topics, SendRabbitmqMessage(t) PROVE Kept
  <2>1. UNCHANGED <<client, app, inbox, unsubscribed>>
    BY <1>14 DEF SendRabbitmqMessage, history
  <2>2. \A r \in Queues : /\ queue'[r].bound = queue[r].bound
                         /\ queue'[r].queued = IF Routed(queue[r], t)
                              THEN queue[r].queued \cup {t} ELSE queue[r].queued
    BY <1>14, DeliveredQueues DEF SendRabbitmqMessage
  <2>3. ASSUME exchange_type = "topictype", NEW p \in Processes, NEW q \in {"share", p},
               Routed(queue[q], t)
        PROVE  \E k \in queue[q].bound : <<k, t>> \in Matches
    <3>1. queue[q].bound \subseteq Known(p) \cup {app[p]}
      BY <2>3 DEF KeysAreKnown
    <3>2. "own" \notin Known(p) \cup {app[p]}
      BY DEF Known, TypeOK
    <3> QED
      BY <2>3, <3>1, <3>2 DEF Routed
  <2> QED
    BY <2>1, <2>2, <2>3 DEF Harmless, Known, Queues, client
<1>15. ASSUME BrokerRestarts PROVE Kept
  BY <1>15, NoQueueFields DEF BrokerRestarts, Harmless, Known, FixedKeys, TypeOK,
    Queues, client, broker, history
<1>16. CASE UNCHANGED vars
  BY <1>16 DEF Harmless, Known, vars, client, broker, history
<1> QED
  BY <1>1, <1>2, <1>3, <1>4, <1>5, <1>6, <1>7, <1>8, <1>9, <1>10, <1>11, <1>12, <1>13,
    <1>14, <1>15, <1>16 DEF Next, RecvSteps, PublishTopic, PublishFanout,
    SendWithoutKey, PublishDirect

\* Every step of a single instance drops only what was unsubscribed.
LEMMA StepDropped ==
  ASSUME SingleInstance
  PROVE  IInv /\ SingleInv /\ [Next]_vars => DroppedOnlyIfUnsubscribed'
<1> USE SingleInstance DEF SingleInstance, DroppedOnlyIfUnsubscribed
<1> SUFFICES ASSUME TypeOK, KeysAreKnown, DroppedOnlyIfUnsubscribed, [Next]_vars
             PROVE  DroppedOnlyIfUnsubscribed'
  BY DEF IInv, SingleInv
<1>1. ASSUME NEW p \in Processes, NEW k \in Patterns, NEW q \in Queues, Subscribe(p, k,
  q)
      PROVE  DroppedOnlyIfUnsubscribed'
  BY <1>1 DEF Subscribe, history
<1>2. ASSUME NEW p \in Processes, NEW k \in Patterns, Unsubscribe(p, k)
      PROVE  DroppedOnlyIfUnsubscribed'
  <2>1. /\ UNCHANGED dropped
        /\ \A r \in Processes : unsubscribed[r] \subseteq unsubscribed'[r]
    BY <1>2 DEF Unsubscribe, TypeOK
  <2> QED
    BY <2>1
<1>3. ASSUME NEW p \in Processes, RegisterCallback(p) PROVE DroppedOnlyIfUnsubscribed'
  BY <1>3 DEF RegisterCallback, history
<1>4. ASSUME NEW p \in Processes, NEW q \in Queues, NEW t \in Topics, TakeMessage(p, q,
  t)
      PROVE  DroppedOnlyIfUnsubscribed'
  BY <1>4 DEF TakeMessage, history
<1>5. ASSUME NEW p \in Processes, NEW q \in Queues, NEW t \in Topics, LostToGhost(p, q,
  t)
      PROVE  DroppedOnlyIfUnsubscribed'
  BY <1>5 DEF LostToGhost, history
<1>6. ASSUME NEW p \in Processes, Consume(p) PROVE DroppedOnlyIfUnsubscribed'
  BY <1>6 DEF Consume, history
<1>7. ASSUME NEW p \in Processes, Dispatch(p) PROVE DroppedOnlyIfUnsubscribed'
  <2>1. UNCHANGED unsubscribed /\ exchange_type = "topictype" /\ inbox[p] # "none"
    BY <1>7 DEF Dispatch
  <2>2. PICK k \in Known(p) : <<k, inbox[p]>> \in Matches
    BY <2>1 DEF KeysAreKnown
  <2>3. k \notin unsubscribed[p] => UNCHANGED dropped
    BY <1>7, <2>2 DEF Dispatch, Matching, Known
  <2>4. \A r \in Processes : dropped'[r] \subseteq dropped[r] \cup {inbox[r]}
    BY <1>7 DEF Dispatch, TypeOK
  <2> QED
    BY <2>1, <2>2, <2>3, <2>4
<1>8. ASSUME NEW p \in Processes, HandOver(p) PROVE DroppedOnlyIfUnsubscribed'
  BY <1>8 DEF HandOver, history
<1>9. ASSUME NEW p \in Processes, ConsumeFails(p) PROVE DroppedOnlyIfUnsubscribed'
  BY <1>9 DEF ConsumeFails, history
<1>10. ASSUME NEW p \in Processes, Reconnect(p) PROVE DroppedOnlyIfUnsubscribed'
  BY <1>10 DEF Reconnect, history
<1>11. ASSUME NEW p \in Processes, Rebind(p) PROVE DroppedOnlyIfUnsubscribed'
  BY <1>11 DEF Rebind, history
<1>12. ASSUME NEW p \in Processes, ConnectionBreaks(p) PROVE DroppedOnlyIfUnsubscribed'
  BY <1>12 DEF ConnectionBreaks, history
<1>13. ASSUME NEW p \in Processes, BrokerNotices(p) PROVE DroppedOnlyIfUnsubscribed'
  BY <1>13 DEF BrokerNotices, history
<1>14. ASSUME NEW t \in Topics, SendRabbitmqMessage(t) PROVE DroppedOnlyIfUnsubscribed'
  BY <1>14 DEF SendRabbitmqMessage, history
<1>15. ASSUME BrokerRestarts PROVE DroppedOnlyIfUnsubscribed'
  BY <1>15 DEF BrokerRestarts, history
<1>16. CASE UNCHANGED vars
  BY <1>16 DEF vars, history
<1> QED
  BY <1>1, <1>2, <1>3, <1>4, <1>5, <1>6, <1>7, <1>8, <1>9, <1>10, <1>11, <1>12, <1>13,
    <1>14, <1>15, <1>16 DEF Next, RecvSteps, PublishTopic, PublishFanout,
    SendWithoutKey, PublishDirect

LEMMA InitSingleInv == Init => SingleInv
<1> SUFFICES ASSUME Init PROVE SingleInv
  OBVIOUS
<1>1. IInv
  BY InitIInv
<1>2. ShareMirrors
  BY <1>1 DEF Init, IInv, FixedIsThere, ShareMirrors, Connected
<1>3. KeysAreKnown
  <2> SUFFICES ASSUME exchange_type = "topictype", NEW p \in Processes
               PROVE  /\ bound_share[p] = {} /\ bound_self[p] = {} /\ inbox[p] = "none"
                      /\ \A q \in {"share", p} : queue[q].bound = {} /\ queue[q].queued = {}
    BY DEF KeysAreKnown
  <2>1. FixedKeys = {}
    BY DEF FixedKeys
  <2>2. queue[p] = NewQueue /\ queue["share"] = [NewQueue EXCEPT !.bound = {}]
    BY <2>1, TopicAssumption DEF Init, Queues
  <2>3. LET r == [NewQueue EXCEPT !.bound = {}] IN r.bound = {} /\ r.queued = {}
    BY NoQueueFields, QueueFields
  <2> QED
    BY <2>2, <2>3, NoQueueFields DEF Init
<1>4. DroppedOnlyIfUnsubscribed
  BY DEF Init, DroppedOnlyIfUnsubscribed
<1> QED
  BY <1>2, <1>3, <1>4 DEF SingleInv

\* The stronger invariant of a single instance holds in every reachable state.
THEOREM SingleInvariance == ASSUME SingleInstance PROVE Spec => []SingleInv
<1>1. IInv /\ SingleInv /\ [Next]_vars => SingleInv'
  BY SingleInstance, StepShareMirrors, StepKeysAreKnown, StepDropped DEF SingleInv
<1> QED
  BY <1>1, InitSingleInv, Invariance, PTL DEF Spec

\* What GetBoundRoutingShare returns is bound to the shared queue, and the fixed
\* key of a p2p or broadcast wrapper is: for one instance of the module.
THEOREM ShareIsBoundHolds == ASSUME SingleInstance PROVE Spec => []ShareIsBound
<1>1. IInv /\ SingleInv => ShareIsBound
  BY DEF IInv, SingleInv, ConsumedExists, QueuesExist, ShareMirrors, Connected, FixedIsThere,
    FixedKeys, ShareIsBound, Settled, Consuming, TypeOK
<1> QED
  BY <1>1, Invariance, SingleInvariance, SingleInstance, PTL

\* A message meets no callback only after an unsubscription: for one instance.
THEOREM DroppedOnlyIfUnsubscribedHolds ==
  ASSUME SingleInstance PROVE Spec => []DroppedOnlyIfUnsubscribed
<1>1. SingleInv => DroppedOnlyIfUnsubscribed
  BY DEF SingleInv
<1> QED
  BY <1>1, SingleInvariance, SingleInstance, PTL
=============================================================================
