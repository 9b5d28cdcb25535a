---------------------------- MODULE TopicRouting ----------------------------
(***************************************************************************)
(* The queues of a process: what it believes to be bound, what the broker  *)
(* has bound, and which callback a message reaches; for a wrapper of any   *)
(* type, though only topics are subscribed and unsubscribed.               *)
(*                                                                         *)
(* Processes are instances of one module.  They consume one queue together *)
(* (queue_name, "<module>-topicmsgque" and the like) and, with topics, each *)
(* a queue of its own (queue_name_self).  The queues are auto-delete: the  *)
(* broker drops a queue with its bindings when its last consumer goes.  A  *)
(* queue for p2p or broadcast messages is bound once and for all.  In a    *)
(* process                                                                 *)
(*                                                                         *)
(*   app    an application thread, which subscribes and unsubscribes;      *)
(*   recv   the receive thread: it consumes, dispatches and reconnects.    *)
(*                                                                         *)
(* A dead connection is dead for the client at once, but the broker may    *)
(* take its consumers for alive for a while: ghost[p].                     *)
(* Abstracted: a pattern matches a set of topics (MatchRoutingKey is       *)
(* modelled in RoutingKey; here broker and client agree), and a queue      *)
(* holds a set of topics, which stand for any messages if the wrapper is   *)
(* not of the topic type.  The publisher is any client.                    *)
(***************************************************************************)
EXTENDS Naturals

CONSTANTS
  Processes,    \* the instances of the module
  Patterns,     \* the binding patterns
  Topics,
  Matches,      \* the pairs <<pattern, topic>> that match
  MaxBreaks     \* bound: lost connections

ASSUME TopicAssumption ==
  /\ Matches \subseteq Patterns \X Topics
  /\ MaxBreaks \in Nat
  /\ "share" \notin Processes
  /\ "none" \notin Topics
  /\ "idle" \notin Patterns /\ "own" \notin Patterns

VARIABLES
  exchange_type, \* of the wrappers: "p2ptype", "topictype" or "broadcasttype"
  bound_share,   \* per process: bound_routing_keys_share
  bound_self,    \* per process: bound_routing_keys_self
  callbacks,     \* per process: the patterns in routing_key_callbacks
  conn_mutex,    \* per process: "free", "app" or "recv"
  app,           \* per process: the pattern being subscribed, or "idle"
  recv,          \* per process: "restart", "loop", "reconnect", "rebind"
  inbox,         \* per process: the topic of the message in hand, or "none"
  alive,         \* per process: its current connection works
  ghost,         \* per process: the broker has a consumer of a dead connection
  queue,         \* the queues at the broker: "share", and one per process
  breaks,
  unsubscribed,  \* history, per process: patterns that were unsubscribed
  dropped        \* history, per process: topics that met no callback

client == <<exchange_type, bound_share, bound_self, callbacks>>
broker == <<ghost, queue, breaks>>
history == <<unsubscribed, dropped>>
vars == <<exchange_type, bound_share, bound_self, callbacks, conn_mutex, app, recv, inbox, alive,
          ghost, queue, breaks, unsubscribed, dropped>>

\* The key of a queue that is not for topics: the name of the module, or "".
Keys == Patterns \cup {"own"}
Queues == {"share"} \cup Processes
Queue == [exists : BOOLEAN, bound : SUBSET Keys, queued : SUBSET Topics]
NoQueue == [exists |-> FALSE, bound |-> {}, queued |-> {}]
NewQueue == [NoQueue EXCEPT !.exists = TRUE]

\* What the queue of a module is bound with, without a subscription.
FixedKeys == IF exchange_type = "topictype" THEN {} ELSE {"own"}

TypeOK ==
  /\ exchange_type \in {"p2ptype", "topictype", "broadcasttype"}
  /\ bound_share \in [Processes -> SUBSET Keys]
  /\ bound_self \in [Processes -> SUBSET Patterns]
  /\ callbacks \in [Processes -> SUBSET Patterns]
  /\ conn_mutex \in [Processes -> {"free", "app", "recv"}]
  /\ app \in [Processes -> Patterns \cup {"idle"}]
  /\ recv \in [Processes -> {"restart", "loop", "reconnect", "rebind"}]
  /\ inbox \in [Processes -> Topics \cup {"none"}]
  /\ alive \in [Processes -> BOOLEAN]
  /\ ghost \in [Processes -> BOOLEAN]
  /\ queue \in [Queues -> Queue]
  /\ breaks \in 0 .. MaxBreaks
  /\ unsubscribed \in [Processes -> SUBSET Patterns]
  /\ dropped \in [Processes -> SUBSET Topics]
  \* who holds conn_mutex
  /\ \A p \in Processes :
       /\ app[p] # "idle" <=> conn_mutex[p] = "app"
       /\ recv[p] = "rebind" <=> conn_mutex[p] = "recv"

\* Every process has just returned from rabbitmq_init: the queues are declared,
\* the receive thread is about to consume them.
Init ==
  /\ exchange_type \in {"p2ptype", "topictype", "broadcasttype"}
  /\ bound_share = [p \in Processes |->
                       IF exchange_type = "p2ptype" THEN FixedKeys ELSE {}]
  /\ bound_self = [p \in Processes |-> {}]
  /\ callbacks = [p \in Processes |-> {}]
  /\ conn_mutex = [p \in Processes |-> "free"]
  /\ app = [p \in Processes |-> "idle"]
  /\ recv = [p \in Processes |-> "restart"]
  /\ inbox = [p \in Processes |-> "none"]
  /\ alive = [p \in Processes |-> TRUE]
  /\ ghost = [p \in Processes |-> FALSE]
  /\ queue = [q \in Queues |->
                 IF q = "share" THEN [NewQueue EXCEPT !.bound = FixedKeys]
                 ELSE IF exchange_type = "topictype" THEN NewQueue ELSE NoQueue]
  /\ breaks = 0
  /\ unsubscribed = [p \in Processes |-> {}]
  /\ dropped = [p \in Processes |-> {}]

-----------------------------------------------------------------------------
\* The application, if the wrapper is of the topic type: every call runs under
\* conn_mutex.

\* Variant: conn_mutex is not held until the callback is registered.
Subscribe_Unlocked(p, k, q) ==
  /\ exchange_type = "topictype"
  /\ app[p] = "idle" /\ conn_mutex[p] = "free"
  /\ q \in {"share", p}
  /\ app' = [app EXCEPT ![p] = k]
  /\ IF q = "share"
     THEN bound_share' = [bound_share EXCEPT ![p] = @ \cup {k}] /\ UNCHANGED bound_self
     ELSE bound_self' = [bound_self EXCEPT ![p] = @ \cup {k}] /\ UNCHANGED bound_share
  /\ queue' = IF alive[p] /\ queue[q].exists
              THEN [queue EXCEPT ![q].bound = @ \cup {k}]
              ELSE queue
  /\ alive' = [alive EXCEPT ![p] = @ /\ queue[q].exists]
  /\ UNCHANGED <<exchange_type, conn_mutex, callbacks, recv, inbox, ghost, breaks,
                 history>>

\* subscribleTopicMsg, first half: amqp_queue_bind, whose result is ignored,
\* and the set of bound keys.  To bind a queue that is gone closes the channel.
Subscribe(p, k, q) ==
  /\ exchange_type = "topictype"
  /\ app[p] = "idle" /\ conn_mutex[p] = "free"
  /\ q \in {"share", p}
  /\ conn_mutex' = [conn_mutex EXCEPT ![p] = "app"]
  /\ app' = [app EXCEPT ![p] = k]
  /\ IF q = "share"
     THEN bound_share' = [bound_share EXCEPT ![p] = @ \cup {k}] /\ UNCHANGED bound_self
     ELSE bound_self' = [bound_self EXCEPT ![p] = @ \cup {k}] /\ UNCHANGED bound_share
  /\ queue' = IF alive[p] /\ queue[q].exists
              THEN [queue EXCEPT ![q].bound = @ \cup {k}]
              ELSE queue
  /\ alive' = [alive EXCEPT ![p] = @ /\ queue[q].exists]
  /\ UNCHANGED <<exchange_type, callbacks, recv, inbox, ghost, breaks, history>>

\* Second half: the callback is registered and the lock released.
RegisterCallback(p) ==
  /\ app[p] # "idle"
  /\ callbacks' = [callbacks EXCEPT ![p] = @ \cup {app[p]}]
  /\ app' = [app EXCEPT ![p] = "idle"]
  /\ conn_mutex' = [conn_mutex EXCEPT ![p] = "free"]
  /\ UNCHANGED <<exchange_type, bound_share, bound_self, recv, inbox, alive, broker,
                 history>>

Unbound(p, k, q) == IF alive[p] THEN [queue EXCEPT ![q].bound = @ \ {k}] ELSE queue

\* unSubscribleTopicMsg: the shared binding if there is one, or else the own
\* one; the callback is erased either way.
Unsubscribe(p, k) ==
  /\ exchange_type = "topictype"
  /\ app[p] = "idle" /\ conn_mutex[p] = "free"
  /\ \/ /\ k \in bound_share[p]
        /\ queue' = Unbound(p, k, "share")
        /\ bound_share' = [bound_share EXCEPT ![p] = @ \ {k}]
        /\ UNCHANGED bound_self
     \/ /\ k \in bound_self[p] \ bound_share[p]
        /\ queue' = Unbound(p, k, p)
        /\ bound_self' = [bound_self EXCEPT ![p] = @ \ {k}]
        /\ UNCHANGED bound_share
  /\ callbacks' = [callbacks EXCEPT ![p] = @ \ {k}]
  /\ unsubscribed' = [unsubscribed EXCEPT ![p] = @ \cup {k}]
  /\ UNCHANGED <<exchange_type, conn_mutex, app, recv, inbox, alive, ghost, breaks,
                 dropped>>

-----------------------------------------------------------------------------
\* The receive thread.

QueuesExist(p) ==
  queue["share"].exists /\ (exchange_type = "topictype" => queue[p].exists)

\* thread_restart: consume the queues; without one of them the broker refuses
\* and closes the channel.
Consume(p) ==
  /\ recv[p] = "restart" /\ conn_mutex[p] = "free"
  /\ alive' = [alive EXCEPT ![p] = @ /\ QueuesExist(p)]
  /\ recv' = [recv EXCEPT ![p] = IF alive'[p] THEN "loop" ELSE "reconnect"]
  /\ UNCHANGED <<client, conn_mutex, app, inbox, broker, history>>

\* amqp_consume_message: a message from one of the queues.
TakeMessage(p, q, t) ==
  /\ recv[p] = "loop" /\ conn_mutex[p] = "free"
  /\ inbox[p] = "none" /\ alive[p]
  /\ q \in {"share", p} /\ t \in queue[q].queued
  /\ inbox' = [inbox EXCEPT ![p] = t]
  /\ queue' = [queue EXCEPT ![q].queued = @ \ {t}]
  /\ UNCHANGED <<client, conn_mutex, app, recv, alive, ghost, breaks, history>>

\* The callbacks that match, the first of which topicHandleMessage calls.
Matching(p, t) == {k \in callbacks[p] : <<k, t>> \in Matches}

\* topicHandleMessage, without conn_mutex.  The others of Matching hear nothing.
Dispatch(p) ==
  /\ exchange_type = "topictype"
  /\ inbox[p] # "none"
  /\ dropped' = IF Matching(p, inbox[p]) = {}
                THEN [dropped EXCEPT ![p] = @ \cup {inbox[p]}]
                ELSE dropped
  /\ inbox' = [inbox EXCEPT ![p] = "none"]
  /\ UNCHANGED <<client, conn_mutex, app, recv, alive, broker, unsubscribed>>

\* fanoutHandleMessage, which only prints, or p2pHandleMessage, for which see
\* RequestPeers.
HandOver(p) ==
  /\ exchange_type # "topictype"
  /\ inbox[p] # "none"
  /\ inbox' = [inbox EXCEPT ![p] = "none"]
  /\ UNCHANGED <<client, conn_mutex, app, recv, alive, broker, history>>

\* amqp_consume_message returns an exception.
ConsumeFails(p) ==
  /\ recv[p] = "loop" /\ inbox[p] = "none"
  /\ conn_mutex[p] = "free" /\ ~alive[p]
  /\ recv' = [recv EXCEPT ![p] = "reconnect"]
  /\ UNCHANGED <<client, conn_mutex, app, inbox, alive, broker, history>>

\* amqp_queue_bind for every key, and amqp_queue_declare.
BoundWith(q, keys) == [q EXCEPT !.bound = @ \cup keys]
Declared(q) == IF q.exists THEN q ELSE NewQueue

\* SetupExchgQueChannel: the queues are declared, and the module's is bound
\* unless it is for topics.
SetUp(p) ==
  [queue EXCEPT !["share"] = BoundWith(Declared(@), FixedKeys),
                ![p] = IF exchange_type = "topictype" THEN Declared(@) ELSE @]

\* ReconnectProc under conn_mutex: a new connection, set up.
\* An attempt that fails changes nothing here.
Reconnect(p) ==
  /\ recv[p] = "reconnect" /\ conn_mutex[p] = "free"
  /\ conn_mutex' = [conn_mutex EXCEPT ![p] = "recv"]
  /\ alive' = [alive EXCEPT ![p] = TRUE]
  /\ queue' = SetUp(p)
  /\ recv' = [recv EXCEPT ![p] = "rebind"]
  /\ UNCHANGED <<client, app, inbox, ghost, breaks, history>>

Rebound(q, keys) == IF q.exists THEN BoundWith(q, keys) ELSE q

\* To bind a queue that is gone closes the channel: what follows comes to nothing.
Refused(q, keys) == keys # {} /\ ~queue[q].exists
ShareKeys(p) == bound_share[p] \cup FixedKeys
AliveAfterRebind(p) ==
  [alive EXCEPT ![p] = @ /\ ~Refused("share", ShareKeys(p)) /\ ~Refused(p, bound_self[p])]

\* Variant: only the shared keys are bound again.
Rebind_ShareOnly(p) ==
  /\ recv[p] = "rebind"
  /\ queue' = IF alive[p]
              THEN [queue EXCEPT !["share"] = Rebound(@, ShareKeys(p))]
              ELSE queue
  /\ alive' = AliveAfterRebind(p)
  /\ recv' = [recv EXCEPT ![p] = "restart"]
  /\ conn_mutex' = [conn_mutex EXCEPT ![p] = "free"]
  /\ UNCHANGED <<client, app, inbox, ghost, breaks, history>>

\* Variant: only the keys of the own queue are bound again.
Rebind_SelfOnly(p) ==
  /\ recv[p] = "rebind"
  /\ queue' = IF alive[p]
              THEN [queue EXCEPT ![p] = Rebound(@, bound_self[p])]
              ELSE queue
  /\ alive' = AliveAfterRebind(p)
  /\ recv' = [recv EXCEPT ![p] = "restart"]
  /\ conn_mutex' = [conn_mutex EXCEPT ![p] = "free"]
  /\ UNCHANGED <<client, app, inbox, ghost, breaks, history>>

\* Still under conn_mutex: every key of both sets is bound again, or the fixed
\* one once more; the shared keys come first.
Rebind(p) ==
  /\ recv[p] = "rebind"
  /\ queue' = IF alive[p] /\ ~Refused("share", ShareKeys(p))
              THEN [queue EXCEPT !["share"] = Rebound(@, ShareKeys(p)),
                                 ![p] = Rebound(@, bound_self[p])]
              ELSE queue
  /\ alive' = AliveAfterRebind(p)
  /\ recv' = [recv EXCEPT ![p] = "restart"]
  /\ conn_mutex' = [conn_mutex EXCEPT ![p] = "free"]
  /\ UNCHANGED <<client, app, inbox, ghost, breaks, history>>

-----------------------------------------------------------------------------
\* The broker and the network.

Routed(q, t) == {k \in q.bound : k = "own" \/ <<k, t>> \in Matches} # {}

Delivered(t) == [q \in Queues |-> IF Routed(queue[q], t)
                                  THEN [queue[q] EXCEPT !.queued = @ \cup {t}]
                                  ELSE queue[q]]

\* SendRabbitmqMessage with a key, on a working connection.  (On another one
\* nothing happens.)
SendRabbitmqMessage(t) ==
  /\ queue' = Delivered(t)
  /\ UNCHANGED <<client, conn_mutex, app, recv, inbox, alive, ghost, breaks, history>>

\* The same without a key, which is refused unless the exchange ignores keys.
SendWithoutKey(t) == exchange_type = "broadcasttype" /\ SendRabbitmqMessage(t)

\* publishTopicMsg and publishFanoutMsg of some process, which refuse any other
\* type of wrapper; rmRequestMake and the like.
PublishTopic(t) == exchange_type = "topictype" /\ SendRabbitmqMessage(t)
PublishFanout(t) == exchange_type = "broadcasttype" /\ SendWithoutKey(t)
PublishDirect(t) == exchange_type = "p2ptype" /\ SendRabbitmqMessage(t)

\* The broker goes on delivering to the consumer of a dead connection.
LostToGhost(p, q, t) ==
  /\ ghost[p]
  /\ q \in {"share", p} /\ t \in queue[q].queued
  /\ queue' = [queue EXCEPT ![q].queued = @ \ {t}]
  /\ UNCHANGED <<client, conn_mutex, app, recv, inbox, alive, ghost, breaks, history>>

ConnectionBreaks(p) ==
  /\ breaks < MaxBreaks /\ alive[p]
  /\ breaks' = breaks + 1
  /\ alive' = [alive EXCEPT ![p] = FALSE]
  /\ ghost' = [ghost EXCEPT ![p] = @ \/ recv[p] = "loop"]
  /\ UNCHANGED <<client, conn_mutex, app, recv, inbox, queue, history>>

Consuming(p) == recv[p] = "loop" /\ alive[p]

\* The broker closes the dead connection; queues without a consumer go.
BrokerNotices(p) ==
  /\ ghost[p]
  /\ ghost' = [ghost EXCEPT ![p] = FALSE]
  /\ queue' = [q \in Queues |->
       IF \/ q = p /\ ~Consuming(p)
          \/ q = "share" /\ \A r \in Processes : ~Consuming(r) /\ (r # p => ~ghost[r])
       THEN NoQueue ELSE queue[q]]
  /\ UNCHANGED <<client, conn_mutex, app, recv, inbox, alive, breaks, history>>

BrokerRestarts ==
  /\ breaks < MaxBreaks
  /\ breaks' = breaks + 1
  /\ alive' = [p \in Processes |-> FALSE]
  /\ ghost' = [p \in Processes |-> FALSE]
  /\ queue' = [q \in Queues |-> NoQueue]
  /\ UNCHANGED <<client, conn_mutex, app, recv, inbox, history>>

-----------------------------------------------------------------------------

RecvSteps(p) ==
  \/ Consume(p) \/ Dispatch(p) \/ HandOver(p)
  \/ ConsumeFails(p) \/ Reconnect(p) \/ Rebind(p)

Next ==
  \/ \E p \in Processes :
       \/ \E k \in Patterns : Unsubscribe(p, k) \/ \E q \in Queues : Subscribe(p, k, q)
       \/ RegisterCallback(p)
       \/ \E q \in Queues, t \in Topics : TakeMessage(p, q, t) \/ LostToGhost(p, q, t)
       \/ RecvSteps(p)
       \/ ConnectionBreaks(p) \/ BrokerNotices(p)
  \/ \E t \in Topics : PublishTopic(t) \/ PublishFanout(t) \/ PublishDirect(t)
  \/ BrokerRestarts

Spec == Init /\ [][Next]_vars

\* The threads run; the receive thread gets conn_mutex in the end although the
\* application keeps taking it, and a broker that can be reached lets it in.
Fairness ==
  \A p \in Processes :
    /\ WF_vars(RegisterCallback(p))
    /\ SF_vars(RecvSteps(p))

FairSpec == Spec /\ Fairness

-----------------------------------------------------------------------------
\* Properties.

Settled(p) == Consuming(p) /\ conn_mutex[p] = "free"

\* A consuming process has at the broker every binding of its own queue that it
\* believes to have, whatever became of the connection, of the queue and of the
\* calls made in between (bind ignored on a dead connection, ReconnectProc).
SelfIsBound == \A p \in Processes : Settled(p) => bound_self[p] \subseteq queue[p].bound

\* "Get bound routing keys" (rabbitmqclient.h:174): the keys GetBoundRoutingShare
\* returns are bound to the shared queue, and so is the fixed key of a p2p or
\* broadcast wrapper.  True for a single instance.
ShareIsBound ==
  \A p \in Processes : Settled(p) =>
    /\ bound_share[p] \subseteq queue["share"].bound
    /\ exchange_type # "topictype" => "own" \in queue["share"].bound

\* A message is dropped for want of a callback only after an unsubscription: it
\* never overtakes the registration of the callback, nor does a reconnection
\* bind a key without a callback.  For a single instance.
DroppedOnlyIfUnsubscribed ==
  \A p \in Processes : \A t \in dropped[p] :
    \E k \in unsubscribed[p] : <<k, t>> \in Matches

\* A subscription that is not revoked takes effect in the end, on the shared queue
\* as on the own one, also if it was made while the connection was dead: the
\* process consumes the queue, and the queue is bound.  True for a single instance.
Subscribed(p, q) == IF q = "share" THEN bound_share[p] ELSE bound_self[p]
SubscriptionTakesEffect ==
  \A p \in Processes, k \in Patterns : \A q \in {"share", p} :
    (k \in Subscribed(p, q)) ~>
      (k \notin Subscribed(p, q) \/ (Consuming(p) /\ k \in queue[q].bound))

\* "unsubscrible topic message" (rabbitmqclient.h:187): once the call has
\* returned on a working connection no queue of the process gets the topic.
UnsubscribedIsUnbound ==
  [][\A p \in Processes, k \in Patterns :
       k \in callbacks[p] \ callbacks'[p] /\ alive[p]
         => k \notin queue'[p].bound \cup queue'["share"].bound]_vars
=============================================================================
