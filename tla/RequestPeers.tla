---------------------------- MODULE RequestPeers ----------------------------
(***************************************************************************)
(* Several p2p client processes that talk through the broker: requests,    *)
(* notifications with their automatic response, reports, and what becomes  *)
(* of them when a connection breaks, a process crashes and starts again,   *)
(* or an application destroys its client.                                  *)
(*                                                                         *)
(* In every process three threads are followed, each up to the points at   *)
(* which another one can see a difference:                                 *)
(*   call[m]["app"]   an application thread inside rmRequestMake and the   *)
(*                    like, call[m]["recv"] the same calls made from a     *)
(*                    callback of the receive thread;                      *)
(*   recv[m]          ReceiveThreadProc and p2pHandleMessage;              *)
(*   timer[m]         TimerThreadProc, which keeps timer_mutex during a    *)
(*                    pass, the timeout callbacks included.                *)
(*                                                                         *)
(* RequestTimers looks into the vector, the intervals and the pointer that *)
(* outlives its lock; here the tasks are a set, any of them may expire at  *)
(* any time, and recv[m].stale says that the pointer may have gone bad.    *)
(* Session and TopicRouting look into the reconnection, which is one step  *)
(* here.  Messages are the header tables of PropsTable; .id is the request *)
(* a message really belongs to, which no code can see.                     *)
(***************************************************************************)
EXTENDS PropsTable

CONSTANTS
  Modules,      \* the processes, by module name
  Peers,        \* per process: the modules it makes requests to
  LateHandlers, \* processes that may call rmInitMidwareClient before
                \* rmSetMidMsgHandler
  MaxCalls,     \* bound: requests, notifications, reports and temporary
                \* responses in all
  MaxLives,     \* bound: lives of a process
  MaxEvents     \* bound: crashes, lost connections, destroyed clients and failures
                \* reported on a sound connection in all

ASSUME PeersAssumption ==
  /\ Peers \in [Modules -> SUBSET Modules]
  /\ \A m \in Modules : CString(m) = m   \* the names come as const char *
  /\ LateHandlers \subseteq Modules
  /\ MaxCalls \in Nat
  /\ MaxLives \in Nat \ {0} /\ MaxEvents \in Nat

Rids == 0 .. (MaxCalls - 1)
Lives == 1 .. MaxLives
Threads == {"app", "recv"}
Kinds == {"RB_REQUEST", "RB_NOTIFICATION"}
\* A request by its rid, a report by a negative number.
Ids == Modules \X Lives \X (-MaxCalls .. MaxCalls - 1)

VARIABLES
  life,           \* "up", "stopping" (being destroyed), "freed" or "off" (crashed)
  lives,          \* how often the process was started
  handlers,       \* rmSetMidMsgHandler has been called
  next_timer_id,
  tasks,          \* timer_tasks: records of rid, kind and addressee
  call,           \* per thread: where it is in rmRequestMake / rmNotifyMake
  recv,           \* the receive thread, the message in its hands, the pointer
  timer,          \* the timer thread, tasks_to_remove and the current task
  open,           \* requests the application has yet to answer
  conn,           \* the connection works
  ghost,          \* the broker still serves the consumer of a dead connection
  queue,          \* the queue of each module, or NoQueue
  calls, events   \* counted against the bounds

\* History: what really happened to each request.
VARIABLES
  asked,          \* ids of requests and notifications whose task was added
  accepted,       \* ids whose call returned 0
  handled,        \* how often the addressee's application was given the id
  answered,       \* ids the addressee has sent a final response for
  outcome,        \* what the requester was told: "final", "ack" or "timeout",
                  \* "silent" without a handler, "misread" through the pointer
  credited        \* pairs: the request settled, the request the response was for

threads == <<call, recv, timer>>
broker == <<conn, ghost, queue>>
bounds == <<calls, events>>
history == <<asked, accepted, handled, answered, outcome, credited>>
local == <<life, lives, handlers, next_timer_id, tasks, open>>
vars == <<life, lives, handlers, next_timer_id, tasks, call, recv, timer, open,
          conn, ghost, queue, calls, events,
          asked, accepted, handled, answered, outcome, credited>>

-----------------------------------------------------------------------------

NoProps == [f \in {} |-> ""]
NoQueue == [exists |-> FALSE, messages |-> << >>]
NewQueue == [exists |-> TRUE, messages |-> << >>]
IdleCall == [pc |-> "idle", rid |-> -1, kind |-> "RB_REQUEST", to |-> "none"]
IdleRecv == [pc |-> "idle", props |-> NoProps, id |-> << >>, stale |-> FALSE]
Asleep == [pc |-> "sleep", marked |-> {}, rid |-> -1]

Task == [rid : Rids, kind : Kinds, to : Modules]
HeadersOf(msg) == msg.content.properties.headers
IsMessage(msg) ==
  /\ msg.id \in Ids
  /\ IsTable(HeadersOf(msg)) /\ Readable(msg.content.properties)
  /\ DOMAIN AmqpTable2IntProps(HeadersOf(msg)) = Fields

TypeOK ==
  /\ life \in [Modules -> {"up", "stopping", "freed", "off"}]
  /\ lives \in [Modules -> Lives]
  /\ handlers \in [Modules -> BOOLEAN]
  /\ next_timer_id \in [Modules -> 0 .. MaxCalls]
  /\ tasks \in [Modules -> SUBSET Task]
  /\ call \in [Modules -> [Threads -> [pc : {"idle", "begin", "publish", "reply", "undo"},
       rid : Rids \cup {-1}, kind : Kinds, to : Modules \cup {"none"}]]]
  /\ \A m \in Modules :
       /\ recv[m].pc \in {"idle", "handle", "found", "callback", "ack", "settle", "ended"}
       /\ IF recv[m].pc \in {"idle", "ended"}
          THEN recv[m] = [IdleRecv EXCEPT !.pc = recv[m].pc]
          ELSE /\ recv[m].id \in Ids /\ DOMAIN recv[m].props = Fields
               /\ recv[m].props.msgtype \in MessageTypes
       /\ timer[m].pc \in {"sleep", "scan", "callback", "stuck", "ended"}
       /\ timer[m].marked \subseteq Rids
       /\ \A i \in DOMAIN queue[m].messages : IsMessage(queue[m].messages[i])
       /\ \A o \in open[m] : o.from \in Modules /\ o.rid \in Rids
  \* a task has one record, and a rid that was handed out
  /\ \A m \in Modules : \A t, u \in tasks[m] : t.rid = u.rid => t = u
  /\ \A m \in Modules : \A t \in tasks[m] : t.rid < next_timer_id[m]
  /\ conn \in [Modules -> BOOLEAN] /\ ghost \in [Modules -> BOOLEAN]
  /\ asked \subseteq Ids /\ accepted \subseteq Ids /\ answered \subseteq Ids
  /\ handled \in [Ids -> Nat]

\* Every process has returned from rmInitMidwareClient and consumes.
Init ==
  /\ life = [m \in Modules |-> "up"]
  /\ lives = [m \in Modules |-> 1]
  /\ handlers = [m \in Modules |-> m \notin LateHandlers]
  /\ next_timer_id = [m \in Modules |-> 0]
  /\ tasks = [m \in Modules |-> {}]
  /\ call = [m \in Modules |-> [t \in Threads |-> IdleCall]]
  /\ recv = [m \in Modules |-> IdleRecv]
  /\ timer = [m \in Modules |-> Asleep]
  /\ open = [m \in Modules |-> {}]
  /\ conn = [m \in Modules |-> TRUE]
  /\ ghost = [m \in Modules |-> FALSE]
  /\ queue = [m \in Modules |-> NewQueue]
  /\ calls = 0 /\ events = 0
  /\ asked = {} /\ accepted = {} /\ answered = {} /\ credited = {}
  /\ handled = [i \in Ids |-> 0]
  /\ outcome = [i \in Ids |-> {}]

\* rmSetMidMsgHandler: may come after rmInitMidwareClient.
SetHandlers(m) ==
  /\ life[m] = "up" /\ ~handlers[m]
  /\ handlers' = [handlers EXCEPT ![m] = TRUE]
  /\ UNCHANGED <<life, lives, next_timer_id, tasks, open, threads, broker, bounds,
                 history>>

-----------------------------------------------------------------------------
\* Sending.

At(m, pc) == recv[m].pc = pc
IdOf(m, rid) == <<m, lives[m], rid>>

\* The message that carries props, marked with its id.
Packed(props, id) ==
  [content |-> Message(BasicProperties(SendFlags, IntProps2AmqpTable(props))), id |-> id]

\* SendRabbitmqMessage on a working connection: the exchange routes to the
\* queue of the addressee, if it exists, and drops the message otherwise.
Routed(props, id) ==
  LET to == props.receiver
  IN  IF queue[to].exists
      THEN [queue EXCEPT ![to].messages = Append(@, Packed(props, id))]
      ELSE queue

\* What the broker has after m has sent: on a dead connection nothing new.
Sent(m, props, id) == IF conn[m] THEN Routed(props, id) ELSE queue

\* Variant: timer_mutex is kept while the receive thread calls the application.
TimerMutexFree_NotInCallback(m) ==
  timer[m].pc \in {"sleep", "ended"} /\ recv[m].pc # "callback"

TimerMutexFree(m) == timer[m].pc \in {"sleep", "ended"}

\* Variant: an increment is lost.
NextTimerId_Lost(m) == next_timer_id[m]

\* m_next_timer_id++ under timer_mutex.
NextTimerId(m) == next_timer_id[m] + 1

\* The pointer of the receive thread may go bad when the vector changes.
Touched(m) == [recv EXCEPT ![m].stale = recv[m].pc = "found"]

\* rmRequestMake and rmNotifyMake are called, by the application or by a callback
\* of the receive thread ...
BeginCall(m, th, kind, to) ==
  /\ call[m][th].pc = "idle"
  /\ \/ th = "app" /\ life[m] \in {"up", "freed"}
     \/ th = "recv" /\ At(m, "callback")
  /\ calls < MaxCalls
  /\ calls' = calls + 1
  /\ call' = [call EXCEPT ![m][th] = [pc |-> "begin", rid |-> -1, kind |-> kind, to |-> to]]
  /\ UNCHANGED <<local, recv, timer, broker, events, history>>

\* ... up to p2pAddTimerTask.  Between handing out the rid and adding the task
\* nobody can tell the difference.
Register(m, th) ==
  /\ call[m][th].pc = "begin"
  /\ TimerMutexFree(m)
  /\ next_timer_id' = [next_timer_id EXCEPT ![m] = NextTimerId(m)]
  /\ tasks' = [tasks EXCEPT ![m] = @ \cup
       {[rid |-> next_timer_id[m], kind |-> call[m][th].kind, to |-> call[m][th].to]}]
  /\ call' = [call EXCEPT ![m][th].pc = "publish", ![m][th].rid = next_timer_id[m]]
  /\ recv' = Touched(m)
  /\ asked' = asked \cup {IdOf(m, next_timer_id[m])}
  /\ UNCHANGED <<life, lives, handlers, open, timer, broker, bounds, accepted, handled,
                 answered, outcome, credited>>

\* Variant: a message that was published may be published again, since the
\* result of a send says nothing about this message.
Publish_Retries(m, th) ==
  LET c == call[m][th]
  IN  /\ c.pc = "publish" /\ life[m] # "freed"
      /\ queue' = Sent(m, RequestProps(m, c.to, c.kind, c.rid, NoPointer), IdOf(m, c.rid))
      /\ \/ call' = [call EXCEPT ![m][th].pc = "reply"]
         \/ UNCHANGED call
      /\ UNCHANGED <<local, recv, timer, conn, ghost, bounds, history>>

\* amqp_basic_publish, whose result is not looked at: on a connection that is
\* dead the message is lost.
Publish(m, th) ==
  LET c == call[m][th]
  IN  /\ c.pc = "publish" /\ life[m] # "freed"
      /\ queue' = Sent(m, RequestProps(m, c.to, c.kind, c.rid, NoPointer), IdOf(m, c.rid))
      /\ call' = [call EXCEPT ![m][th].pc = "reply"]
      /\ UNCHANGED <<local, recv, timer, conn, ghost, bounds, history>>

\* SendRabbitmqMessage reports success, and the call returns 0.  By now the
\* addressee may have the message, and even have answered it.
ReturnOk(m, th) ==
  /\ call[m][th].pc = "reply"
  /\ accepted' = accepted \cup {IdOf(m, call[m][th].rid)}
  /\ call' = [call EXCEPT ![m][th] = IdleCall]
  /\ UNCHANGED <<local, recv, timer, broker, bounds, asked, handled, answered, outcome,
                 credited>>

\* SendRabbitmqMessage reports a failure: there is no connection, or the last
\* synchronous call failed, which tells nothing about the message.
PublishFails(m, th) ==
  /\ call[m][th].pc \in {"publish", "reply"}
  /\ \/ ~conn[m] /\ UNCHANGED events
     \/ /\ call[m][th].pc = "reply"
        /\ events < MaxEvents
        /\ events' = events + 1
  /\ call' = [call EXCEPT ![m][th].pc = "undo"]
  /\ UNCHANGED <<local, recv, timer, broker, calls, history>>

\* p2pRemoveTimerTask, and the call returns -1.
Undo(m, th) ==
  /\ call[m][th].pc = "undo"
  /\ TimerMutexFree(m)
  /\ tasks' = [tasks EXCEPT ![m] = {t \in @ : t.rid # call[m][th].rid}]
  /\ call' = [call EXCEPT ![m][th] = IdleCall]
  /\ recv' = Touched(m)
  /\ UNCHANGED <<life, lives, handlers, next_timer_id, open, timer, broker, bounds,
                 history>>

\* The application may call the library: from a thread of its own until it
\* destroys the client, from a callback while the threads are being joined.
MayCall(m) ==
  \/ life[m] = "up"
  \/ life[m] = "stopping" /\ (At(m, "callback") \/ timer[m].pc = "callback")

\* rmReportMake: a message without a task.
Report(m, to) ==
  /\ MayCall(m) /\ call[m]["app"].pc = "idle"
  /\ calls < MaxCalls
  /\ calls' = calls + 1
  /\ queue' = Sent(m, ReportProps(m, to), IdOf(m, -calls'))
  /\ UNCHANGED <<local, threads, conn, ghost, events, history>>

\* rmRequestTempResponse, by the application that has a request open.
TempResponse(m, o) ==
  /\ MayCall(m)
  /\ calls < MaxCalls
  /\ calls' = calls + 1
  /\ queue' = Sent(m, TempProps(m, o.from, o.rid, "100"), o.id)
  /\ UNCHANGED <<local, threads, conn, ghost, events, history>>

\* rmRequestFinalResponse, from the callback or later; the result may be false,
\* on a dead connection.
FinalResponse(m, o) ==
  /\ MayCall(m)
  /\ open' = [open EXCEPT ![m] = @ \ {o}]
  /\ queue' = Sent(m, FinalProps(m, o.from, o.rid, "200"), o.id)
  /\ answered' = answered \cup {o.id}
  /\ UNCHANGED <<life, lives, handlers, next_timer_id, tasks, threads, conn, ghost,
                 bounds, asked, accepted, handled, outcome, credited>>

-----------------------------------------------------------------------------
\* The receive thread.

\* int_props_st of the message in hand.
Props(m) == recv[m].props
Type(m) == Props(m).msgtype

\* Variant: the first task is as good as any.
MyTask_Any(m) == tasks[m]

MyTask(m) == {t \in tasks[m] : t.rid = Props(m).rid}

Goto(m, pc) == recv' = [recv EXCEPT ![m].pc = pc]
Done(m) == recv' = [recv EXCEPT ![m] = IdleRecv]

\* amqp_consume_message with no_ack: the message is gone from the queue.  A
\* table that cannot be read is dropped.
TakeMessage(m) ==
  /\ At(m, "idle") /\ life[m] \in {"up", "stopping"}
  /\ conn[m] /\ queue[m].messages # << >>
  /\ LET msg == Head(queue[m].messages)
     IN  recv' = IF Readable(msg.content.properties)
                 THEN [recv EXCEPT ![m] =
                         [pc |-> "handle", props |-> AmqpTable2IntProps(HeadersOf(msg)),
                          id |-> msg.id, stale |-> FALSE]]
                 ELSE recv
  /\ queue' = [queue EXCEPT ![m].messages = Tail(@)]
  /\ UNCHANGED <<local, call, timer, conn, ghost, bounds, history>>

\* Without handlers a message of any type is ignored.  They are uninitialised
\* then: should they not be null by chance, the call is a Crash.
Ignore(m) ==
  /\ At(m, "handle") /\ ~handlers[m]
  /\ Done(m)
  /\ UNCHANGED <<local, call, timer, broker, bounds, history>>

\* m_cbRequest, m_cbNotify, m_cbReport: the application is given the message,
\* and keeps a request until it answers.
HandleRequest(m) ==
  /\ At(m, "handle") /\ handlers[m]
  /\ Type(m) \in {"RB_REQUEST", "RB_NOTIFICATION", "RB_REPORT"}
  /\ handled' = [handled EXCEPT ![recv[m].id] = @ + 1]
  /\ open' = IF Type(m) = "RB_REQUEST"
             THEN [open EXCEPT ![m] = @ \cup {[from |-> Props(m).sender,
                                               rid |-> Props(m).rid,
                                               id |-> recv[m].id]}]
             ELSE open
  /\ Goto(m, "callback")
  /\ UNCHANGED <<life, lives, handlers, next_timer_id, tasks, call, timer, broker, bounds,
                 asked, accepted, answered, outcome, credited>>

\* A response: p2pGetTimerTaskInfo under timer_mutex.  Without a task it is
\* only logged.
Lookup(m) ==
  /\ At(m, "handle") /\ handlers[m]
  /\ Type(m) \in {"RB_TEMPORARY_RESPONSE", "RB_FINAL_RESPONSE"}
  /\ TimerMutexFree(m)
  /\ IF MyTask(m) = {} THEN Done(m) ELSE Goto(m, "found")
  /\ UNCHANGED <<local, call, timer, broker, bounds, history>>

Tell(m, id, what) == outcome' = [outcome EXCEPT ![id] = @ \cup {what}]
Credit(m, rid) == credited' = credited \cup {<<IdOf(m, rid), recv[m].id>>}

\* The callback for a temporary response, or for the final one of a request; a
\* notification is only acknowledged.  If the vector has changed under the
\* pointer, the read may find anything: the response may be swallowed, or handed
\* over with another task's names.
Dispatch(m) ==
  LET id == IdOf(m, Props(m).rid)
  IN  /\ At(m, "found")
      /\ \/ Type(m) = "RB_TEMPORARY_RESPONSE" /\ UNCHANGED <<outcome, credited>>
         \/ /\ Type(m) = "RB_FINAL_RESPONSE"
            /\ \E t \in MyTask(m) :
                 /\ Tell(m, id, IF t.kind = "RB_REQUEST" THEN "final" ELSE "ack")
                 /\ Credit(m, t.rid)
         \/ /\ Type(m) = "RB_FINAL_RESPONSE"
            /\ recv[m].stale
            /\ Tell(m, id, "misread")
            /\ UNCHANGED credited
      /\ Goto(m, "callback")
      /\ UNCHANGED <<local, call, timer, broker, bounds, asked, accepted, handled, answered>>

\* Variant: a report is acknowledged as a notification is.
CallbackReturns_AcksReports(m) ==
  /\ At(m, "callback") /\ call[m]["recv"].pc = "idle"
  /\ CASE Type(m) \in {"RB_NOTIFICATION", "RB_REPORT"} -> Goto(m, "ack")
       [] Type(m) \in {"RB_TEMPORARY_RESPONSE", "RB_FINAL_RESPONSE"} -> Goto(m, "settle")
       [] OTHER -> Done(m)
  /\ UNCHANGED <<local, call, timer, broker, bounds, history>>

\* The callback returns, after any calls it has made.
CallbackReturns(m) ==
  /\ At(m, "callback") /\ call[m]["recv"].pc = "idle"
  /\ CASE Type(m) = "RB_NOTIFICATION" -> Goto(m, "ack")
       [] Type(m) \in {"RB_TEMPORARY_RESPONSE", "RB_FINAL_RESPONSE"} -> Goto(m, "settle")
       [] OTHER -> Done(m)
  /\ UNCHANGED <<local, call, timer, broker, bounds, history>>

\* The automatic response to a notification, to its sender.
AutoResponse(m) ==
  /\ At(m, "ack")
  /\ queue' = Sent(m, FinalProps(m, Props(m).sender, Props(m).rid, "200"), recv[m].id)
  /\ answered' = answered \cup {recv[m].id}
  /\ Done(m)
  /\ UNCHANGED <<local, call, timer, conn, ghost, bounds, asked, accepted, handled, outcome,
                 credited>>

\* Variant: a temporary response settles a request as a final one does.
Settles_Temp(m) == TRUE

Settles(m) == Type(m) = "RB_FINAL_RESPONSE"

\* p2pRemoveTimerTask, or p2pRestartTimerTask, which leaves the set alone.
Settle(m) ==
  /\ At(m, "settle")
  /\ TimerMutexFree(m)
  /\ tasks' = IF Settles(m) THEN [tasks EXCEPT ![m] = @ \ MyTask(m)] ELSE tasks
  /\ Done(m)
  /\ UNCHANGED <<life, lives, handlers, next_timer_id, open, call, timer, broker, bounds,
                 history>>

-----------------------------------------------------------------------------
\* The timer thread.

\* A pass begins: timer_mutex is taken and the expired tasks are collected.
StartSweep(m) ==
  /\ timer[m].pc = "sleep" /\ life[m] \in {"up", "stopping"}
  /\ \E due \in SUBSET {t.rid : t \in tasks[m]} :
       /\ due # {}
       /\ timer' = [timer EXCEPT ![m] = [pc |-> "scan", marked |-> due, rid |-> -1]]
  /\ UNCHANGED <<local, call, recv, broker, bounds, history>>

\* p2pTimeoutProc for one of them, under the lock.
TimeoutProc(m, rid) ==
  /\ timer[m].pc = "scan" /\ rid \in timer[m].marked
  /\ timer' = [timer EXCEPT ![m].pc = "callback", ![m].rid = rid]
  /\ Tell(m, IdOf(m, rid), IF handlers[m] THEN "timeout" ELSE "silent")
  /\ UNCHANGED <<local, call, recv, broker, bounds, asked, accepted, handled, answered,
                 credited>>

\* The callback returns and the task is erased.
Erase(m) ==
  /\ timer[m].pc = "callback"
  /\ timer' = [timer EXCEPT ![m].pc = "scan", ![m].marked = @ \ {timer[m].rid}]
  /\ tasks' = [tasks EXCEPT ![m] = {t \in @ : t.rid # timer[m].rid}]
  /\ recv' = Touched(m)
  /\ UNCHANGED <<life, lives, handlers, next_timer_id, open, call, broker, bounds, history>>

\* The callback makes a request or a notification: p2pReqTimerId locks
\* timer_mutex, which this thread holds, and never returns.
TimeoutCallbackCalls(m) ==
  /\ timer[m].pc = "callback" /\ handlers[m]
  /\ timer' = [timer EXCEPT ![m].pc = "stuck"]
  /\ UNCHANGED <<local, call, recv, broker, bounds, history>>

EndSweep(m) ==
  /\ timer[m].pc = "scan" /\ timer[m].marked = {}
  /\ timer' = [timer EXCEPT ![m] = Asleep]
  /\ UNCHANGED <<local, call, recv, broker, bounds, history>>

-----------------------------------------------------------------------------
\* Connections and lives.

\* The broker goes on serving the consumer of a dead connection for a while.
Consuming(m) == conn[m] /\ life[m] \in {"up", "stopping"}

LostToGhost(m) ==
  /\ ghost[m] /\ queue[m].messages # << >>
  /\ queue' = [queue EXCEPT ![m].messages = Tail(@)]
  /\ UNCHANGED <<local, threads, conn, ghost, bounds, history>>

\* It notices; an auto-delete queue without another consumer goes.
BrokerNotices(m) ==
  /\ ghost[m]
  /\ ghost' = [ghost EXCEPT ![m] = FALSE]
  /\ queue' = IF Consuming(m) THEN queue ELSE [queue EXCEPT ![m] = NoQueue]
  /\ UNCHANGED <<local, threads, conn, bounds, history>>

ConnectionBreaks(m) ==
  /\ events < MaxEvents /\ Consuming(m)
  /\ events' = events + 1
  /\ conn' = [conn EXCEPT ![m] = FALSE]
  /\ ghost' = [ghost EXCEPT ![m] = TRUE]
  /\ UNCHANGED <<local, threads, queue, calls, history>>

Declared(q) == IF q.exists THEN q ELSE NewQueue

\* ReconnectProc, by the receive thread between two messages: the queue is
\* declared if it is gone, and consumed.
Reconnect(m) ==
  /\ At(m, "idle") /\ life[m] \in {"up", "stopping"} /\ ~conn[m]
  /\ conn' = [conn EXCEPT ![m] = TRUE]
  /\ queue' = [queue EXCEPT ![m] = Declared(@)]
  /\ UNCHANGED <<local, threads, ghost, bounds, history>>

\* The process dies with everything it knew.
Crash(m) ==
  /\ events < MaxEvents /\ life[m] \in {"up", "stopping"}
  /\ events' = events + 1
  /\ life' = [life EXCEPT ![m] = "off"]
  /\ handlers' = [handlers EXCEPT ![m] = FALSE]
  /\ tasks' = [tasks EXCEPT ![m] = {}]
  /\ open' = [open EXCEPT ![m] = {}]
  /\ call' = [call EXCEPT ![m] = [t \in Threads |-> IdleCall]]
  /\ recv' = [recv EXCEPT ![m] = IdleRecv]
  /\ timer' = [timer EXCEPT ![m] = Asleep]
  /\ ghost' = [ghost EXCEPT ![m] = @ \/ conn[m]]
  /\ conn' = [conn EXCEPT ![m] = FALSE]
  /\ UNCHANGED <<lives, next_timer_id, queue, calls, history>>

\* It is started again: the constructor sets m_next_timer_id to 0, and
\* rmInitMidwareClient declares and consumes the queue, the old one if the
\* broker has not noticed yet.
Restart(m) ==
  /\ life[m] = "off" /\ lives[m] < MaxLives
  /\ life' = [life EXCEPT ![m] = "up"]
  /\ lives' = [lives EXCEPT ![m] = @ + 1]
  /\ next_timer_id' = [next_timer_id EXCEPT ![m] = 0]
  /\ handlers' = [handlers EXCEPT ![m] = m \notin LateHandlers]
  /\ conn' = [conn EXCEPT ![m] = TRUE]
  /\ queue' = [queue EXCEPT ![m] = Declared(@)]
  /\ UNCHANGED <<tasks, open, threads, ghost, bounds, history>>

\* MidwareClientDestroy, while no other application thread is in a call:
\* stopThreads is set ...
Destroy(m) ==
  /\ life[m] = "up" /\ call[m]["app"].pc = "idle"
  /\ events < MaxEvents
  /\ events' = events + 1
  /\ life' = [life EXCEPT ![m] = "stopping"]
  /\ UNCHANGED <<lives, handlers, next_timer_id, tasks, open, threads, broker, calls, history>>

\* ... each thread ends at the head of its loop ...
ReceiveEnds(m) ==
  /\ life[m] = "stopping" /\ At(m, "idle")
  /\ Goto(m, "ended")
  /\ UNCHANGED <<local, call, timer, broker, bounds, history>>

TimerEnds(m) ==
  /\ life[m] = "stopping" /\ timer[m].pc = "sleep"
  /\ timer' = [timer EXCEPT ![m].pc = "ended"]
  /\ UNCHANGED <<local, call, recv, broker, bounds, history>>

\* Variant: the timer thread is not joined.
Joined_ReceiveOnly(m) == At(m, "ended")

Joined(m) == At(m, "ended") /\ timer[m].pc = "ended"

\* ... and is joined; then the connection is closed.
Freed(m) ==
  /\ life[m] = "stopping" /\ Joined(m)
  /\ life' = [life EXCEPT ![m] = "freed"]
  /\ conn' = [conn EXCEPT ![m] = FALSE]
  /\ queue' = IF conn[m] /\ ~ghost[m] THEN [queue EXCEPT ![m] = NoQueue] ELSE queue
  /\ UNCHANGED <<lives, handlers, next_timer_id, tasks, open, threads, ghost, bounds,
                 history>>

-----------------------------------------------------------------------------

CallSteps(m, th) ==
  \/ Register(m, th) \/ Publish(m, th) \/ ReturnOk(m, th) \/ PublishFails(m, th)
  \/ Undo(m, th)
NewCall(m) ==
  \/ \E th \in Threads, kind \in Kinds, to \in Peers[m] : BeginCall(m, th, kind, to)
  \/ \E to \in Peers[m] : Report(m, to)
Answering(m) == \E o \in open[m] : TempResponse(m, o) \/ FinalResponse(m, o)
HandleSteps(m) ==
  \/ Ignore(m) \/ HandleRequest(m) \/ Lookup(m) \/ Dispatch(m)
  \/ CallbackReturns(m) \/ AutoResponse(m) \/ Settle(m)
TimerSteps(m) ==
  \/ StartSweep(m) \/ Erase(m) \/ EndSweep(m) \/ TimerEnds(m)
  \/ \E rid \in Rids : TimeoutProc(m, rid)
Fault(m) == LostToGhost(m) \/ BrokerNotices(m) \/ ConnectionBreaks(m) \/ Crash(m)

Next == \E m \in Modules :
  \/ SetHandlers(m) \/ NewCall(m) \/ Answering(m)
  \/ \E th \in Threads : CallSteps(m, th)
  \/ TakeMessage(m) \/ HandleSteps(m) \/ ReceiveEnds(m)
  \/ TimerSteps(m) \/ TimeoutCallbackCalls(m)
  \/ Fault(m) \/ Reconnect(m) \/ Restart(m) \/ Destroy(m) \/ Freed(m)

Spec == Init /\ [][Next]_vars

\* The processes go on with what their threads have begun, and every task expires
\* in the end.  New calls, answers, reconnections and restarts need not come.  The
\* bounds leave every thread finitely many steps, so that one condition is enough
\* for all threads of all processes.
Going(m) ==
  \/ \E th \in Threads : CallSteps(m, th)
  \/ HandleSteps(m) \/ ReceiveEnds(m) \/ TimerSteps(m)
Fairness == WF_vars(\E m \in Modules : Going(m))

FairSpec == Spec /\ Fairness

-----------------------------------------------------------------------------
\* Properties.

\* The application of a module is never given the same request, notification or
\* report twice, whatever the connections and processes do: consumption with
\* no_ack means that nothing is redelivered, and nothing is ever sent again.
HandledAtMostOnce == \A i \in Ids : handled[i] <= 1

\* A response that settles a request was sent by the addressee's library after
\* its application had handled a request of the same module with the same rid:
\* this one, or one that an earlier life of the process left behind.
AnswerIsGenuine ==
  \A c \in credited :
    LET mine == c[1] theirs == c[2]
    IN  /\ theirs[1] = mine[1] /\ theirs[3] = mine[3] /\ theirs[2] <= mine[2]
        /\ handled[theirs] > 0 /\ theirs \in answered

\* Once MidwareClientDestroy has returned, the application is told nothing more
\* about its requests and given nothing to handle.
ToldOf(m) == [i \in {j \in Ids : j[1] = m} |-> outcome[i]]
SilentAfterDestroy ==
  [][\A m \in Modules : life[m] = "freed" =>
       /\ recv'[m] = recv[m] /\ timer'[m] = timer[m]
       /\ ToldOf(m)' = ToldOf(m)]_vars

\* A call that was made from a callback of the receive thread returns, and the
\* callback with it, unless a timeout callback has made a request: callbacks
\* may use the library.
TimerStuck(m) == timer[m].pc = "stuck"
CallbacksMayCall ==
  \A m \in Modules : []<>(~At(m, "callback") \/ TimerStuck(m))

\* Every request that was accepted is resolved in the end, if the application set
\* its handlers before it started the client: it is told of an answer, an
\* acknowledgement or a timeout, unless the pointer has spoilt the answer
\* ("misread"), the process dies or is destroyed, or a timeout callback has made
\* a request.  The addressee may be late with its handlers, or gone.
Told == {"final", "ack", "timeout", "misread"}
Unresolved(m, rid) ==
  life[m] = "up" /\ IdOf(m, rid) \in accepted /\ outcome[IdOf(m, rid)] \cap Told = {}
AcceptedIsResolved ==
  \A m \in Modules \ LateHandlers, rid \in Rids : []<>(~Unresolved(m, rid) \/ TimerStuck(m))

-----------------------------------------------------------------------------
\* Refinement: RequestExchange, which knows the messages only.

Exchange == INSTANCE RequestExchange WITH
  Numbers <- -MaxCalls .. MaxCalls - 1, given <- handled

\* What the processes do with their messages (p2pHandleMessage, rmMidLib.cpp) is
\* what they promise each other, over any crash, restart and lost connection.
ImplementsExchange == Exchange!Spec
=============================================================================
