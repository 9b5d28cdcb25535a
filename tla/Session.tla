------------------------------ MODULE Session ------------------------------
(***************************************************************************)
(* The session of one RabbitMQWrapper with the broker: rabbitmq_init and   *)
(* rabbitmq_free, the threads that share the connection, and the           *)
(* reconnection.                                                           *)
(*                                                                         *)
(*   app    the application thread, inside rabbitmq_init or rabbitmq_free; *)
(*   user   another thread of the application, inside SendRabbitmqMessage; *)
(*   send   SendThreadProc, which counts failed heartbeat checks;          *)
(*   timer  TimerThreadProc, of which only the loop matters here;          *)
(*   recv   ReceiveThreadProc, which consumes, calls the application and   *)
(*          replaces the connection when it fails.                         *)
(*                                                                         *)
(* The states of the connection that the code can tell apart are           *)
(*   "null"    the pointer is nullptr;                                     *)
(*   "raw"     allocated, but ConnectInit failed before the queue was set  *)
(*             up;                                                         *)
(*   "ok"      logged in, exchange and queue declared;                     *)
(*   "refused" the server has refused a call and closed the channel with   *)
(*             its consumers, while the socket is open;                    *)
(*   "broken"  the peer is gone and nobody has noticed;                    *)
(*   "closed"  the library has noticed: amqp_get_sockfd returns -1.        *)
(*                                                                         *)
(* conn_mutex is held over several steps only in ReconnectProc; any other  *)
(* critical section is one step that needs the mutex to be free.           *)
(* Abstracted: messages, the 60 one-second ticks between two checks, and   *)
(* the timer tasks (the timer thread never takes conn_mutex).              *)
(***************************************************************************)
EXTENDS AmqpLibrary

CONSTANTS
  MaxHeartbeatErr,  \* MAX_HEARTBEAT_ERR
  MaxFailures,      \* bound: how often the connection or the broker fails, or
                    \* the server refuses a call
  MaxInits          \* bound: calls of rabbitmq_init

ASSUME SessionAssumption ==
  MaxHeartbeatErr \in Nat /\ MaxFailures \in Nat /\ MaxInits \in Nat

VARIABLES
  instanceType, \* of the singleton, "none" before it is created
  connection,   \* see above
  last_reply,   \* what amqp_get_rpc_reply returns for it
  consuming,    \* the queue has a consumer on this connection
  conn_mutex,   \* "free", or the thread that holds it
  stopThreads,
  initialized,
  heartbeaterr,
  app,          \* "idle", "login", "join", "close"
  user,         \* "idle", "send"
  send,         \* "none", "loop", "slept", "check"
  timer,        \* "none", "loop", "slept"
  recv,         \* "none", "restart", "reply", "backoff", "reconnect",
                \* "connect", "loop", "consume", "handle", "stuck"
  broker,       \* the broker accepts connections
  failures,     \* failures so far
  inits,        \* calls of rabbitmq_init so far
  result        \* of the last rabbitmq_init: "none", "true", "false", "refused"

session == <<connection, last_reply, consuming, conn_mutex, stopThreads, initialized,
             heartbeaterr>>
others == <<instanceType, user, timer>>
threads == <<app, send, recv>>
env == <<broker, failures>>
api == <<inits, result>>
vars == <<connection, last_reply, consuming, conn_mutex, stopThreads, initialized, heartbeaterr,
          app, send, recv, broker, failures, inits, result, instanceType, user, timer>>

ExchangeTypes == {"p2ptype", "topictype", "broadcasttype"}

TypeOK ==
  /\ instanceType \in ExchangeTypes \cup {"none"}
  /\ user \in {"idle", "send"}
  /\ timer \in {"none", "loop", "slept"}
  /\ connection \in Connections
  /\ last_reply \in ReplyTypes
  /\ consuming \in BOOLEAN
  /\ conn_mutex \in {"free", "recv"}
  /\ stopThreads \in BOOLEAN
  /\ initialized \in BOOLEAN
  /\ heartbeaterr \in 0 .. (MaxHeartbeatErr + 1)
  /\ app \in {"idle", "login", "join", "close"}
  /\ send \in {"none", "loop", "slept", "check"}
  /\ recv \in {"none", "restart", "reply", "backoff", "reconnect", "connect",
               "loop", "consume", "handle", "stuck"}
  /\ broker \in BOOLEAN
  /\ failures \in 0 .. MaxFailures
  /\ inits \in 0 .. MaxInits
  /\ result \in {"none", "true", "false", "refused"}

Init ==
  /\ connection = NoConnection /\ last_reply = "NONE"
  /\ consuming = FALSE /\ conn_mutex = "free"
  /\ stopThreads = FALSE /\ initialized = FALSE /\ heartbeaterr = 0
  /\ instanceType = "none"
  /\ app = "idle" /\ user = "idle"
  /\ send = "none" /\ recv = "none" /\ timer = "none"
  /\ broker = TRUE /\ failures = 0 /\ inits = 0 /\ result = "none"

-----------------------------------------------------------------------------
\* A synchronous call on a connection in state conn, under the lock or before
\* there is a second thread: the reply stays behind as the last one, and a call
\* the server refuses closes the channel.
CallOn(conn) ==
  \E o \in CallOutcomes(conn) :
    /\ connection' = o.connection /\ last_reply' = o.reply_type
    /\ IF o.connection = "refused" /\ conn # "refused"
       THEN failures < MaxFailures /\ failures' = failures + 1
       ELSE UNCHANGED failures

Exceptions == {"LIBRARY_EXCEPTION", "SERVER_EXCEPTION"}

-----------------------------------------------------------------------------
\* The application thread.

\* getInstance: the first call creates the wrapper and fixes its type; later ones
\* return it, or throw if they ask for another type.
GetInstance(type) ==
  /\ instanceType = "none"
  /\ instanceType' = type
  /\ UNCHANGED <<session, threads, env, api, user, timer>>

\* rabbitmq_init: nothing happens if initialized.  ConnectInit refuses if
\* there is a connection, and allocates one before it connects; rabbitmq_init
\* does not take conn_mutex.
InitConnection ==
  /\ instanceType # "none"
  /\ app = "idle" /\ ~initialized /\ inits < MaxInits
  /\ inits' = inits + 1
  /\ \/ /\ connection # "null"
        /\ result' = "refused"
        /\ UNCHANGED <<connection, last_reply, app>>
     \/ /\ connection = "null"
        /\ connection' = NewConnection /\ last_reply' = "NONE"
        /\ app' = "login"
        /\ UNCHANGED result
  /\ UNCHANGED <<consuming, conn_mutex, stopThreads, initialized, heartbeaterr,
                 send, recv, env, others>>

\* The login and the opening of the channel succeed, and the threads start.  What
\* comes of the declarations and the bind after that is not looked at.
StartThreads ==
  /\ app = "login" /\ broker
  /\ CallOn("ok")
  /\ send' = "loop" /\ recv' = "restart" /\ timer' = "loop"
  /\ initialized' = TRUE
  /\ app' = "idle" /\ result' = "true"
  /\ UNCHANGED <<consuming, conn_mutex, stopThreads, heartbeaterr, broker, inits,
                 instanceType, user>>

\* The socket, the login or the opening of the channel fails: the connection
\* stays as it is.
InitFails ==
  /\ app = "login"
  /\ app' = "idle" /\ result' = "false"
  /\ last_reply' \in {last_reply} \cup Exceptions
  /\ UNCHANGED <<connection, consuming, conn_mutex, stopThreads, initialized, heartbeaterr,
                 send, recv, env, inits, others>>

\* rabbitmq_free: nothing happens unless initialized.
StopThreads ==
  /\ app = "idle" /\ initialized
  /\ stopThreads' = TRUE
  /\ app' = "join"
  /\ UNCHANGED <<connection, last_reply, consuming, conn_mutex, initialized, heartbeaterr,
                 send, recv, env, api, others>>

\* The threads are joined one after the other.
Join ==
  /\ app = "join"
  /\ send = "none" /\ recv = "none" /\ timer = "none"
  /\ app' = "close"
  /\ UNCHANGED <<session, send, recv, env, api, others>>

CloseConnection ==
  /\ app = "close" /\ conn_mutex = "free"
  /\ connection' = NoConnection /\ last_reply' = "NONE" /\ consuming' = FALSE
  /\ initialized' = FALSE
  /\ app' = "idle"
  /\ UNCHANGED <<conn_mutex, stopThreads, heartbeaterr, send, recv, env, api, others>>

\* A synchronous call of the application (a bind, say), from its own thread or
\* from a callback.  Its result is not looked at.
LibraryCall ==
  /\ app = "idle" \/ recv = "handle"
  /\ conn_mutex = "free" /\ connection # NoConnection
  /\ CallOn(connection)
  /\ consuming' = (consuming /\ connection' # "refused")
  /\ UNCHANGED <<conn_mutex, stopThreads, initialized, heartbeaterr, threads, broker, api,
                 others>>

\* SendRabbitmqMessage, from any thread of the application at any time: the
\* pointer is looked at before the lock is taken ...
UserCheck ==
  /\ instanceType # "none"
  /\ user = "idle" /\ connection # "null"
  /\ user' = "send"
  /\ UNCHANGED <<session, threads, env, api, instanceType, timer>>

\* ... and used once it is held, whatever it points to by then (after a
\* rabbitmq_free, nothing).  The result is the last reply, of whatever call.
UserSend ==
  /\ user = "send" /\ conn_mutex = "free"
  /\ user' = "idle"
  /\ connection' \in AfterPublish(connection)
  /\ UNCHANGED <<last_reply, consuming, conn_mutex, stopThreads, initialized, heartbeaterr,
                 threads, env, api, instanceType, timer>>

-----------------------------------------------------------------------------
\* TimerThreadProc: a pass, and a second of sleep.

TimerLoop ==
  /\ timer = "loop"
  /\ timer' = IF stopThreads THEN "none" ELSE "slept"
  /\ UNCHANGED <<session, threads, env, api, instanceType, user>>

TimerSlept ==
  /\ timer = "slept"
  /\ timer' = "loop"
  /\ UNCHANGED <<session, threads, env, api, instanceType, user>>

-----------------------------------------------------------------------------
\* SendThreadProc.

SendLoop ==
  /\ send = "loop"
  /\ send' = IF stopThreads THEN "none" ELSE "slept"
  /\ UNCHANGED <<session, app, recv, env, api, others>>

\* A second has passed; every MAX_HEARTBEAT_TM seconds the connection is
\* checked, if the pointer, read without the lock, is not null.
SendSlept ==
  /\ send = "slept"
  /\ \/ send' = "loop"
     \/ connection # "null" /\ send' = "check"
  /\ UNCHANGED <<session, app, recv, env, api, others>>

\* Variant: a check that succeeds counts one failure less.
SendCheck_Decrements ==
  /\ send = "check" /\ conn_mutex = "free"
  /\ heartbeaterr' = IF connection = "closed" THEN heartbeaterr + 1 ELSE heartbeaterr - 1
  /\ send' = "loop"
  /\ UNCHANGED <<connection, last_reply, consuming, conn_mutex, stopThreads, initialized,
                 app, recv, env, api, others>>

\* The check itself.  The count is not followed beyond the limit.
SendCheck ==
  /\ send = "check" /\ conn_mutex = "free"
  /\ \E fd \in Sockfds(connection) :
       heartbeaterr' = IF fd # -1 THEN 0
                       ELSE IF heartbeaterr <= MaxHeartbeatErr THEN heartbeaterr + 1
                       ELSE heartbeaterr
  /\ send' = "loop"
  /\ UNCHANGED <<connection, last_reply, consuming, conn_mutex, stopThreads, initialized,
                 app, recv, env, api, others>>

-----------------------------------------------------------------------------
\* ReceiveThreadProc.

\* thread_restart: amqp_basic_consume under the lock.
Restart ==
  /\ recv = "restart" /\ conn_mutex = "free"
  /\ heartbeaterr' = 0
  /\ CallOn(connection)
  /\ consuming' = (connection' = "ok")
  /\ recv' = "reply"
  /\ UNCHANGED <<conn_mutex, stopThreads, initialized, app, send, broker, api, others>>

\* Variant: the thread returns when it cannot consume.
ConsumeReply_Returns ==
  /\ recv = "reply"
  /\ recv' = IF last_reply = "NORMAL" THEN "loop" ELSE "none"
  /\ UNCHANGED <<session, app, send, env, api, others>>

\* amqp_get_rpc_reply, without the lock: a call of another thread may have come
\* in between.
ConsumeReply ==
  /\ recv = "reply"
  /\ recv' = IF last_reply = "NORMAL" THEN "loop" ELSE "backoff"
  /\ UNCHANGED <<session, app, send, env, api, others>>

\* Three seconds later; stopThreads is not looked at.
Backoff ==
  /\ recv = "backoff"
  /\ recv' = "reconnect"
  /\ UNCHANGED <<session, app, send, env, api, others>>

\* Variant: ReconnectProc does not keep the lock while it connects.
ReconnectClose_Unlocked ==
  /\ recv = "reconnect" /\ conn_mutex = "free"
  /\ connection' = NoConnection /\ last_reply' = "NONE" /\ consuming' = FALSE
  /\ recv' = "connect"
  /\ UNCHANGED <<conn_mutex, stopThreads, initialized, heartbeaterr, app, send, env, api, others>>

\* ReconnectProc: take the lock, close and destroy the connection, ...
ReconnectClose ==
  /\ recv = "reconnect" /\ conn_mutex = "free"
  /\ conn_mutex' = "recv"
  /\ connection' = NoConnection /\ last_reply' = "NONE" /\ consuming' = FALSE
  /\ recv' = "connect"
  /\ UNCHANGED <<stopThreads, initialized, heartbeaterr, app, send, env, api, others>>

\* Variant: after a successful reconnection the loop goes on without a consumer.
ReconnectOk_NoRestart ==
  /\ recv = "connect" /\ broker
  /\ CallOn("ok")
  /\ conn_mutex' = "free"
  /\ recv' = "loop"
  /\ UNCHANGED <<consuming, stopThreads, initialized, heartbeaterr, app, send, broker, api,
                 others>>

\* ... make a new one, declare and rebind, whatever comes of it, and start again.
ReconnectOk ==
  /\ recv = "connect" /\ broker
  /\ CallOn("ok")
  /\ conn_mutex' = "free"
  /\ recv' = "restart"
  /\ UNCHANGED <<consuming, stopThreads, initialized, heartbeaterr, app, send, broker, api,
                 others>>

ReconnectFails ==
  /\ recv = "connect"
  /\ connection' = NewConnection /\ last_reply' \in {"NONE"} \cup Exceptions
  /\ conn_mutex' = "free"
  /\ recv' = "restart"
  /\ UNCHANGED <<consuming, stopThreads, initialized, heartbeaterr, app, send, env, api, others>>

\* Variant: the loop does not look at stopThreads.
RecvLoop_Forever ==
  /\ recv = "loop"
  /\ recv' = "consume"
  /\ UNCHANGED <<session, app, send, env, api, others>>

RecvLoop ==
  /\ recv = "loop"
  /\ recv' = IF stopThreads THEN "none" ELSE "consume"
  /\ UNCHANGED <<session, app, send, env, api, others>>

\* Too many failed checks: ReconnectProc is called inside the critical section
\* and locks conn_mutex, which this thread holds, a second time.
HeartbeatReconnect ==
  /\ recv = "consume" /\ conn_mutex = "free"
  /\ heartbeaterr > MaxHeartbeatErr
  /\ conn_mutex' = "recv"
  /\ recv' = "stuck"
  /\ UNCHANGED <<connection, last_reply, consuming, stopThreads, initialized, heartbeaterr,
                 app, send, env, api, others>>

\* What the loop makes of a reply.
NoMessage(r) == r.id = "GET_EMPTY" \/ r.library_error = "TIMEOUT"
Failed(r) == ~NoMessage(r) /\ r.reply_type # "NORMAL"

\* amqp_consume_message: no message within 100 microseconds, or a message, which
\* is handed over if its table can be read.
ConsumeMessage ==
  /\ recv = "consume" /\ conn_mutex = "free"
  /\ heartbeaterr <= MaxHeartbeatErr
  /\ \E r \in ConsumeReplies(connection) :
       /\ ~Failed(r)
       /\ \/ recv' = "loop"
          \/ ~NoMessage(r) /\ recv' = "handle"
  /\ UNCHANGED <<session, app, send, env, api, others>>

\* amqp_consume_message returns an exception.
ConsumeFails ==
  /\ recv = "consume" /\ conn_mutex = "free"
  /\ heartbeaterr <= MaxHeartbeatErr
  /\ \E r \in ConsumeReplies(connection) : Failed(r)
  /\ recv' = "reconnect"
  /\ UNCHANGED <<session, app, send, env, api, others>>

\* The application's callback returns.
Handled ==
  /\ recv = "handle"
  /\ recv' = "loop"
  /\ UNCHANGED <<session, app, send, env, api, others>>

-----------------------------------------------------------------------------
\* The network and the broker.

Broken == IF connection \in {"ok", "refused"} THEN "broken" ELSE connection

ConnectionBreaks ==
  /\ failures < MaxFailures /\ connection \in {"ok", "refused"}
  /\ failures' = failures + 1
  /\ connection' = Broken
  /\ UNCHANGED <<last_reply, consuming, conn_mutex, stopThreads, initialized, heartbeaterr,
                 threads, broker, api, others>>

BrokerDown ==
  /\ failures < MaxFailures /\ broker
  /\ failures' = failures + 1
  /\ broker' = FALSE
  /\ connection' = Broken
  /\ UNCHANGED <<last_reply, consuming, conn_mutex, stopThreads, initialized, heartbeaterr,
                 threads, api, others>>

BrokerUp ==
  /\ ~broker
  /\ broker' = TRUE
  /\ UNCHANGED <<session, threads, failures, api, others>>

-----------------------------------------------------------------------------

AppFinishes == StartThreads \/ InitFails \/ Join \/ CloseConnection
UserSteps == UserCheck \/ UserSend
TimerSteps == TimerLoop \/ TimerSlept
SendSteps == SendLoop \/ SendSlept \/ SendCheck
RecvSteps ==
  \/ Restart \/ ConsumeReply \/ Backoff
  \/ ReconnectClose \/ ReconnectOk \/ ReconnectFails
  \/ RecvLoop \/ HeartbeatReconnect \/ ConsumeMessage \/ ConsumeFails \/ Handled

Next ==
  \/ \E type \in ExchangeTypes : GetInstance(type)
  \/ InitConnection \/ StopThreads \/ AppFinishes
  \/ LibraryCall \/ UserSteps
  \/ TimerSteps
  \/ SendSteps
  \/ RecvSteps
  \/ ConnectionBreaks \/ BrokerDown \/ BrokerUp

Spec == Init /\ [][Next]_vars

\* Threads run.  A dead connection is noticed in the end, thanks to the
\* heartbeats of the protocol, and an attempt to connect to a broker that is
\* there succeeds in the end.
ThreadFairness ==
  /\ WF_vars(AppFinishes)
  /\ WF_vars(SendSteps)
  /\ WF_vars(TimerSteps)
  /\ WF_vars(RecvSteps)
  /\ SF_vars(ConsumeFails)
  /\ SF_vars(ReconnectOk)

\* A broker that went down comes back, or may stay away for ever.
FairSpec == Spec /\ ThreadFairness /\ WF_vars(BrokerUp)
NoBrokerSpec == Spec /\ ThreadFairness

-----------------------------------------------------------------------------
\* Properties.

\* No thread makes a library call on a connection that was destroyed: the
\* pointer the send thread has checked without the lock is valid once it holds
\* the lock, and rabbitmq_free destroys the connection behind both threads.
ServiceThreadsHaveConnection ==
  connection = "null" =>
    /\ send = "check" => conn_mutex # "free"
    /\ recv \in {"none", "connect"}

\* A message is sent on a connection that is there, although the pointer was
\* looked at without the lock and may have been replaced since, perhaps by a
\* connection that was not finished; unless rabbitmq_free came in between and
\* no rabbitmq_init has succeeded since.
SendersHaveConnection ==
  user = "send" /\ conn_mutex = "free" => connection # "null" \/ ~initialized

\* The receive loop listens without a consumer only after the server has refused
\* a call, and then every message the application sends is reported as failed:
\* however often the connection was replaced, and although the reply that lets
\* the loop in is read without the lock and may be that of another thread's call,
\* a session that looks sound to its application is not deaf.
NeverSilentlyDeaf ==
  recv \in {"loop", "consume", "handle"} => consuming \/ last_reply # "NORMAL"

\* A session that lost its connection, or whose consumers were refused, consumes
\* again, unless it is stopped, or the receive thread has run into its own lock.
\* (Nothing makes up for a call that is refused while the receive loop runs.)
Lost ==
  \/ connection \in {"raw", "broken", "closed"}
  \/ connection = "refused" /\ recv \in {"restart", "reply", "backoff", "reconnect"}
Recovers ==
  (initialized /\ Lost)
    ~> (stopThreads \/ (consuming /\ connection = "ok") \/ recv = "stuck")

\* "Cleanup and close connection", "Join threads" (rabbitmqclient.cpp:214,
\* 220): rabbitmq_free joins the threads and returns.
Freed == app = "idle" /\ connection = "null"
FreeReturns == (app = "join") ~> Freed

\* rabbitmq_free returns although the connection may be lost or replaced while
\* it waits: only the receive thread's own lock keeps it, if the broker is there.
FreeReturnsUnlessStuck == (app = "join") ~> (Freed \/ recv = "stuck")

\* "Start threads for sending and receiving" (rabbitmqclient.cpp:265): from a
\* successful rabbitmq_init until rabbitmq_free both threads are running.
InitStartsThreads ==
  initialized /\ app = "idle" => send # "none" /\ recv # "none" /\ timer # "none"
=============================================================================
