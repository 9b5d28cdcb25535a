--------------------------- MODULE RequestTimers ---------------------------
(***************************************************************************)
(* The request/response tracking of one p2p client process.                *)
(*                                                                         *)
(* rmRequestMake and rmNotifyMake register a TimerTask before they publish *)
(* a message; the receive thread looks the task up when a response with    *)
(* the same rid comes back, calls the application and then removes or      *)
(* restarts the task; the timer thread reports the tasks that expire.      *)
(* Three kinds of threads share the vector timer_tasks:                    *)
(*                                                                         *)
(*   Callers   application threads, inside rmRequestMake / rmNotifyMake;   *)
(*   recv      ReceiveThreadProc, inside p2pHandleMessage;                 *)
(*   sweep     TimerThreadProc, inside one pass over the vector.           *)
(*                                                                         *)
(* timer_mutex is held for single steps by callers and receiver, and for a *)
(* whole pass by the timer thread, whose callbacks run under the lock: it  *)
(* is free exactly when sweep.pc = "sleep".  The receive thread keeps the  *)
(* pointer that p2pGetTimerTaskInfo returned after the lock is released:   *)
(* recv.ptr is that pointer, as an index into the current buffer of the    *)
(* vector, so an erase in front of it makes it denote the next task.       *)
(*                                                                         *)
(* Abstracted: message contents, the connection, the broker and the peers. *)
(* The fate of a message is the business of RequestPeers.  Here a response *)
(* may come with any rid at any time, repeatedly or never: p2pHandleMessage*)
(* looks at nothing but the rid, so what it handles may answer the message *)
(* just sent, one whose sending was reported as failed, or one that a      *)
(* former life of the process sent under the same rid.  A definition named *)
(* X_... before the definition X is a plausible bug in X, which the        *)
(* properties catch.                                                       *)
(***************************************************************************)
EXTENDS Integers, Sequences, SequencesExt

CONSTANTS
  Callers,      \* the application threads that make requests
  Timeouts,     \* the values of the timeout argument, in milliseconds
  MaxRequests,  \* bound: how many timer ids are ever handed out
  MaxReplies,   \* bound: how many responses ever come
  Handlers      \* the callbacks registered with rmSetMidMsgHandler

Kinds == {"request", "notify"}       \* RB_REQUEST, RB_NOTIFICATION
ReplyTypes == {"temp", "final"}      \* RB_TEMPORARY_RESPONSE, RB_FINAL_RESPONSE
HandlerFor == [temp |-> "RespTemp", final |-> "RespFinal"]
TimeoutHandlerFor == [request |-> "RequestTimeout", notify |-> "NotifyTimeout"]
AllHandlers == {"RespTemp", "RespFinal", "RequestTimeout", "NotifyTimeout"}

ASSUME ConstantsAssumption ==
  /\ Timeouts \subseteq Nat
  /\ MaxRequests \in Nat
  /\ MaxReplies \in Nat
  /\ Handlers \subseteq AllHandlers

Rids == 0 .. (MaxRequests - 1)
NoRid == -1

\* The timeout argument is in milliseconds, the interval of a task in
\* seconds: the division drops the rest.
Interval(timeout) == timeout \div 1000

VARIABLES
  next_timer_id,  \* m_next_timer_id
  timer_tasks,    \* the vector: id, kind, interval, seconds left to expire_time
  call,           \* per caller: where it is in rmRequestMake, and its arguments
  recv,           \* the receive thread: where it is, the response, the pointer
  sweep,          \* the timer thread: where it is, and tasks_to_remove
  kind,           \* what each rid was made for
  replies         \* how many responses have come so far

\* History: what the application was told about each rid.
VARIABLES
  ret,            \* "none", "ok" (returned 0) or "failed" (returned -1)
  timeouts,       \* calls of m_cbRequestTimeout / m_cbNotifyTimeout
  finals,         \* calls of m_cbRespFinal
  settled,        \* rids whose final response was handled to the end
  misread         \* rids whose task was read through a stale pointer

code == <<next_timer_id, timer_tasks, call, recv, sweep, kind, replies>>
history == <<ret, timeouts, finals, settled, misread>>
vars == <<next_timer_id, timer_tasks, call, recv, sweep, kind, replies,
          ret, timeouts, finals, settled, misread>>

-----------------------------------------------------------------------------

Task == [id : Rids, kind : Kinds, interval : Nat, left : Nat]
Call == [pc : {"idle", "add", "send", "undo"},
         rid : Rids \cup {NoRid}, kind : Kinds, interval : Nat]
Recv == [pc : {"idle", "lookup", "found", "settle"},
         type : ReplyTypes, rid : Rids \cup {NoRid}, ptr : Nat]
Sweep == [pc : {"sleep", "scan", "fired"}, marked : SUBSET Rids]

Types ==
  /\ next_timer_id \in 0 .. MaxRequests
  /\ timer_tasks \in Seq(Task)
  /\ call \in [Callers -> Call]
  /\ recv \in Recv
  /\ sweep \in Sweep
  /\ kind \in [Rids -> Kinds \cup {"none"}]
  /\ replies \in Nat
  /\ ret \in [Rids -> {"none", "ok", "failed"}]
  /\ timeouts \in [Rids -> Nat]
  /\ finals \in [Rids -> Nat]
  /\ settled \subseteq Rids
  /\ misread \subseteq Rids

UniqueIds ==
  \A i, j \in DOMAIN timer_tasks : timer_tasks[i].id = timer_tasks[j].id => i = j

\* Every variable has its type, and the vector holds one task per id at most:
\* a restart changes the task in place, it does not add another one.
TypeOK == Types /\ UniqueIds

IdleCall == [pc |-> "idle", rid |-> NoRid, kind |-> "request", interval |-> 0]
IdleRecv == [pc |-> "idle", type |-> "final", rid |-> NoRid, ptr |-> 0]
Asleep == [pc |-> "sleep", marked |-> {}]

Init ==
  /\ next_timer_id = 0
  /\ timer_tasks = << >>
  /\ call = [c \in Callers |-> IdleCall]
  /\ recv = IdleRecv
  /\ sweep = Asleep
  /\ kind = [r \in Rids |-> "none"]
  /\ replies = 0
  /\ ret = [r \in Rids |-> "none"]
  /\ timeouts = [r \in Rids |-> 0]
  /\ finals = [r \in Rids |-> 0]
  /\ settled = {}
  /\ misread = {}

-----------------------------------------------------------------------------
\* The vector.

Ids == {timer_tasks[i].id : i \in DOMAIN timer_tasks}

\* std::find_if: the first task with the id, which the caller knows to be there.
FindTask(id) ==
  CHOOSE i \in DOMAIN timer_tasks :
    /\ timer_tasks[i].id = id
    /\ \A j \in 1 .. (i - 1) : timer_tasks[j].id # id

\* Erase the task with the id, if there is one.
WithoutTask(id) ==
  IF id \in Ids THEN RemoveAt(timer_tasks, FindTask(id)) ELSE timer_tasks

\* The rid of the task that the receive thread's pointer denotes now, if any:
\* the buffer may have been reallocated (ptr = 0) or have become shorter.
Pointee == IF recv.ptr \in DOMAIN timer_tasks THEN timer_tasks[recv.ptr].id
                                              ELSE NoRid

TimerMutexFree == sweep.pc = "sleep"

-----------------------------------------------------------------------------
\* A caller, inside rmRequestMake or rmNotifyMake.

\* p2pReqTimerId: take the next id, under the lock.
ReqTimerId(c, k, timeout) ==
  /\ call[c].pc = "idle"
  /\ TimerMutexFree
  /\ next_timer_id < MaxRequests
  /\ next_timer_id' = next_timer_id + 1
  /\ call' = [call EXCEPT ![c] = [pc |-> "add", rid |-> next_timer_id,
                                  kind |-> k, interval |-> Interval(timeout)]]
  /\ kind' = [kind EXCEPT ![next_timer_id] = k]
  /\ UNCHANGED <<timer_tasks, recv, sweep, replies, history>>

\* p2pAddTimerTask: push_back under the lock.  The vector may move to a new
\* buffer, which frees the one a pointer of the receive thread points into.
AddTimerTask(c) ==
  /\ call[c].pc = "add"
  /\ TimerMutexFree
  /\ timer_tasks' = Append(timer_tasks, [id |-> call[c].rid,
                                         kind |-> call[c].kind,
                                         interval |-> call[c].interval,
                                         left |-> call[c].interval])
  /\ \/ recv' = [recv EXCEPT !.ptr = 0]
     \/ UNCHANGED recv
  /\ call' = [call EXCEPT ![c].pc = "send"]
  /\ UNCHANGED <<next_timer_id, sweep, kind, replies, history>>

\* SendRabbitmqMessage returned true, and the call returns 0: by then the
\* response may have been handled, or the timeout reported.
ReturnOk(c) ==
  /\ call[c].pc = "send"
  /\ ret' = [ret EXCEPT ![call[c].rid] = "ok"]
  /\ call' = [call EXCEPT ![c] = IdleCall]
  /\ UNCHANGED <<next_timer_id, timer_tasks, recv, sweep, kind, replies,
                 timeouts, finals, settled, misread>>

\* SendRabbitmqMessage returned false, whether or not the message left.
SendReportsFailure(c) ==
  /\ call[c].pc = "send"
  /\ call' = [call EXCEPT ![c].pc = "undo"]
  /\ UNCHANGED <<next_timer_id, timer_tasks, recv, sweep, kind, replies, history>>

\* Variant: a failed send leaves its task in the vector.
UndoTimerTask_Kept(c) ==
  /\ call[c].pc = "undo"
  /\ TimerMutexFree
  /\ ret' = [ret EXCEPT ![call[c].rid] = "failed"]
  /\ call' = [call EXCEPT ![c] = IdleCall]
  /\ UNCHANGED <<next_timer_id, timer_tasks, recv, sweep, kind, replies,
                 timeouts, finals, settled, misread>>

\* p2pRemoveTimerTask after a failed send; the call returns -1.
UndoTimerTask(c) ==
  /\ call[c].pc = "undo"
  /\ TimerMutexFree
  /\ timer_tasks' = WithoutTask(call[c].rid)
  /\ ret' = [ret EXCEPT ![call[c].rid] = "failed"]
  /\ call' = [call EXCEPT ![c] = IdleCall]
  /\ UNCHANGED <<next_timer_id, recv, sweep, kind, replies,
                 timeouts, finals, settled, misread>>

-----------------------------------------------------------------------------
\* The receive thread, inside p2pHandleMessage.

\* Any response may come with any rid, also with one not handed out yet: the
\* bound is all that limits them.
MayReply == replies < MaxReplies

\* A response arrives; without the callback for its type it is ignored.
ReceiveReply(r, t) ==
  /\ recv.pc = "idle"
  /\ MayReply
  /\ replies' = replies + 1
  /\ recv' = IF HandlerFor[t] \in Handlers
             THEN [pc |-> "lookup", type |-> t, rid |-> r, ptr |-> 0]
             ELSE recv
  /\ UNCHANGED <<next_timer_id, timer_tasks, call, sweep, kind, history>>

\* Variant: the vector is searched without the lock.
GetTimerTaskInfo_Unlocked ==
  /\ recv.pc = "lookup"
  /\ recv' = IF recv.rid \in Ids
             THEN [recv EXCEPT !.pc = "found", !.ptr = FindTask(recv.rid)]
             ELSE IdleRecv
  /\ UNCHANGED <<next_timer_id, timer_tasks, call, sweep, kind, replies,
                 history>>

\* p2pGetTimerTaskInfo: find the task under the lock and keep its address
\* when the lock is gone.  A response whose task is gone is only logged.
GetTimerTaskInfo ==
  /\ recv.pc = "lookup"
  /\ TimerMutexFree
  /\ recv' = IF recv.rid \in Ids
             THEN [recv EXCEPT !.pc = "found", !.ptr = FindTask(recv.rid)]
             ELSE IdleRecv
  /\ UNCHANGED <<next_timer_id, timer_tasks, call, sweep, kind, replies,
                 history>>

\* The kinds that reading pTaskInfo->intprops.msgtype without the lock may
\* yield: that of the task now at the address, anything if there is none.
KindsRead ==
  IF recv.ptr \in DOMAIN timer_tasks THEN {timer_tasks[recv.ptr].kind} ELSE Kinds

\* The callback is made with what the pointer denotes now: m_cbRespTemp always,
\* m_cbRespFinal only if the task read is that of a request.
Dispatch ==
  /\ recv.pc = "found"
  /\ \E k \in KindsRead :
       finals' = IF recv.type = "final" /\ k = "request"
                 THEN [finals EXCEPT ![recv.rid] = @ + 1]
                 ELSE finals
  /\ misread' = IF Pointee = recv.rid THEN misread ELSE misread \cup {recv.rid}
  /\ recv' = [recv EXCEPT !.pc = "settle"]
  /\ UNCHANGED <<next_timer_id, timer_tasks, call, sweep, kind, replies,
                 ret, timeouts, settled>>

\* Variant: the restarted task is pushed once more instead of being changed.
Restarted_Pushed(id) ==
  IF id \in Ids
  THEN LET task == timer_tasks[FindTask(id)]
       IN Append(timer_tasks, [task EXCEPT !.left = task.interval])
  ELSE timer_tasks

\* After the callback: p2pRestartTimerTask for a temporary response,
\* p2pRemoveTimerTask for a final one; either may find the task gone.
Restarted(id) ==
  [i \in DOMAIN timer_tasks |->
     IF timer_tasks[i].id = id
     THEN [timer_tasks[i] EXCEPT !.left = timer_tasks[i].interval]
     ELSE timer_tasks[i]]

\* Variant: every response removes the task, a temporary one too.
Settle_RemovesOnTemp ==
  /\ recv.pc = "settle"
  /\ TimerMutexFree
  /\ timer_tasks' = WithoutTask(recv.rid)
  /\ settled' = IF recv.type = "final" THEN settled \cup {recv.rid} ELSE settled
  /\ recv' = IdleRecv
  /\ UNCHANGED <<next_timer_id, call, sweep, kind, replies,
                 ret, timeouts, finals, misread>>

\* Variant: a final response restarts the task like a temporary one.
Settle_RestartsOnFinal ==
  /\ recv.pc = "settle"
  /\ TimerMutexFree
  /\ timer_tasks' = Restarted(recv.rid)
  /\ settled' = IF recv.type = "final" THEN settled \cup {recv.rid} ELSE settled
  /\ recv' = IdleRecv
  /\ UNCHANGED <<next_timer_id, call, sweep, kind, replies,
                 ret, timeouts, finals, misread>>

Settle ==
  /\ recv.pc = "settle"
  /\ TimerMutexFree
  /\ \/ /\ recv.type = "temp"
        /\ timer_tasks' = Restarted(recv.rid)
        /\ UNCHANGED settled
     \/ /\ recv.type = "final"
        /\ timer_tasks' = WithoutTask(recv.rid)
        /\ settled' = settled \cup {recv.rid}
  /\ recv' = IdleRecv
  /\ UNCHANGED <<next_timer_id, call, sweep, kind, replies,
                 ret, timeouts, finals, misread>>

-----------------------------------------------------------------------------
\* The timer thread, inside one pass of TimerThreadProc.

\* Variant: the pass collects the requests and forgets the notifications.
Due_RequestsOnly ==
  {timer_tasks[i].id : i \in {j \in DOMAIN timer_tasks :
     timer_tasks[j].left = 0 /\ timer_tasks[j].kind = "request"}}

Due == {timer_tasks[i].id : i \in {j \in DOMAIN timer_tasks : timer_tasks[j].left = 0}}

\* Take the lock and collect the ids of the expired tasks.  A pass that finds
\* none changes nothing and is not a step.
StartSweep ==
  /\ sweep.pc = "sleep"
  /\ Due # {}
  /\ sweep' = [pc |-> "scan", marked |-> Due]
  /\ UNCHANGED <<next_timer_id, timer_tasks, call, recv, kind, replies,
                 history>>

\* The first task of the vector that is marked.
IsCurrent(i) ==
  /\ i \in DOMAIN timer_tasks
  /\ timer_tasks[i].id \in sweep.marked
  /\ \A j \in 1 .. (i - 1) : timer_tasks[j].id \notin sweep.marked

\* p2pTimeoutProc: the timeout callback for the kind, under the lock.
TimeoutProc ==
  /\ sweep.pc = "scan"
  /\ \E i \in DOMAIN timer_tasks :
       /\ IsCurrent(i)
       /\ timeouts' = IF TimeoutHandlerFor[timer_tasks[i].kind] \in Handlers
                      THEN [timeouts EXCEPT ![timer_tasks[i].id] = @ + 1]
                      ELSE timeouts
  /\ sweep' = [sweep EXCEPT !.pc = "fired"]
  /\ UNCHANGED <<next_timer_id, timer_tasks, call, recv, kind, replies,
                 ret, finals, settled, misread>>

\* Variant: a pass does not erase the task it has reported.
EraseExpired_Kept ==
  /\ sweep.pc = "fired"
  /\ sweep' = [sweep EXCEPT !.pc = "scan"]
  /\ UNCHANGED <<next_timer_id, timer_tasks, call, recv, kind, replies, history>>

\* Erase the task just reported and go on with the pass.
EraseExpired ==
  /\ sweep.pc = "fired"
  /\ \E i \in DOMAIN timer_tasks :
       /\ IsCurrent(i)
       /\ timer_tasks' = RemoveAt(timer_tasks, i)
  /\ sweep' = [sweep EXCEPT !.pc = "scan"]
  /\ UNCHANGED <<next_timer_id, call, recv, kind, replies, history>>

\* No marked task is left: release the lock and sleep for a second.
EndSweep ==
  /\ sweep.pc = "scan"
  /\ Ids \cap sweep.marked = {}
  /\ sweep' = Asleep
  /\ UNCHANGED <<next_timer_id, timer_tasks, call, recv, kind, replies,
                 history>>

\* One second passes on the steady clock.
Tick ==
  /\ \E i \in DOMAIN timer_tasks : timer_tasks[i].left > 0
  /\ timer_tasks' = [i \in DOMAIN timer_tasks |->
                       [timer_tasks[i] EXCEPT !.left = IF @ > 0 THEN @ - 1 ELSE 0]]
  /\ UNCHANGED <<next_timer_id, call, recv, sweep, kind, replies, history>>

-----------------------------------------------------------------------------

NewCall(c) == \E k \in Kinds, t \in Timeouts : ReqTimerId(c, k, t)

CallSteps(c) ==
  \/ AddTimerTask(c)
  \/ ReturnOk(c)
  \/ SendReportsFailure(c)
  \/ UndoTimerTask(c)

Arrival == \E r \in Rids, t \in ReplyTypes : ReceiveReply(r, t)

RecvSteps == GetTimerTaskInfo \/ Dispatch \/ Settle

SweepSteps == StartSweep \/ TimeoutProc \/ EraseExpired \/ EndSweep

Next ==
  \/ \E c \in Callers : NewCall(c) \/ CallSteps(c)
  \/ Arrival
  \/ RecvSteps
  \/ SweepSteps
  \/ Tick

Spec == Init /\ [][Next]_vars

\* Every thread that is inside an operation goes on, and time passes.  New
\* calls and responses need not come.
Fairness ==
  /\ \A c \in Callers : WF_vars(CallSteps(c))
  /\ WF_vars(RecvSteps)
  /\ WF_vars(SweepSteps)
  /\ WF_vars(Tick)

FairSpec == Spec /\ Fairness

-----------------------------------------------------------------------------
\* Properties.

\* The application is never told twice that one request timed out, nor handed
\* two final responses for it, however often the peer answers
\* (p2pRemoveTimerTask after m_cbRespFinal, erase after p2pTimeoutProc).
AtMostOnce == \A r \in Rids : timeouts[r] <= 1 /\ finals[r] <= 1

\* Once rmRequestMake or rmNotifyMake has returned -1 its rid is forgotten: no
\* timeout is reported for it, whatever the timer thread was doing when the
\* send failed, and no response finds its task any more.  The one callback
\* that may still come is m_cbRespFinal for a response whose task the receive
\* thread had found before p2pRemoveTimerTask took it away.
FailedIsForgotten ==
  [][\A r \in Rids : ret[r] = "failed" =>
       /\ timeouts'[r] = timeouts[r]
       /\ finals'[r] # finals[r] => recv.pc = "found" /\ recv.rid = r
       /\ recv'.pc = "found" /\ recv'.rid = r => recv.pc = "found"]_vars

\* Once the final response of a rid has been handled its timeout is never
\* reported, even if the task had expired in between.
AnsweredNeverTimesOut ==
  [][\A r \in settled : timeouts'[r] = timeouts[r]]_vars

\* The receive thread finds a task only if the application has had no outcome
\* for it yet: a response that is looked up after the timeout was reported,
\* or after an earlier final response, is dropped.
LateReplyIsDropped ==
  [][recv.pc = "lookup" /\ recv'.pc = "found" =>
       timeouts[recv.rid] = 0 /\ finals[recv.rid] = 0]_vars

\* A request that was accepted and has had no outcome is still in the vector,
\* unless the receive thread read its task through a stale pointer: nothing
\* but that unprotected read ever loses a request.
Unresolved(r) == kind[r] = "request" /\ ret[r] = "ok" /\ timeouts[r] = 0 /\ finals[r] = 0
AcceptedIsTracked ==
  \A r \in Rids : Unresolved(r) /\ r \notin misread => r \in Ids

\* Every accepted request or notification is resolved in the end: a final
\* response, an acknowledgement or a timeout, again apart from stale reads.
Resolved(r) ==
  \/ timeouts[r] > 0
  \/ finals[r] > 0
  \/ kind[r] = "notify" /\ r \in settled
  \/ r \in misread
EventuallyResolved == \A r \in Rids : (ret[r] = "ok") ~> Resolved(r)

\* "notify message,do nothing" (rabbitmqclient.cpp:489): a final response that
\* makes no callback is one to a notification, or to a request whose timeout
\* was reported, at least where the pointer denotes a task at all.
OnlyNotifyDoesNothing ==
  [][/\ recv.pc = "found" /\ recv'.pc = "settle"
     /\ recv.type = "final" /\ recv.ptr \in DOMAIN timer_tasks
     /\ finals' = finals /\ timeouts[recv.rid] = 0
     => kind[recv.rid] = "notify"]_vars

-----------------------------------------------------------------------------
\* The inductive invariant behind the safety properties.

\* The task of r has been reported in this pass and is about to be erased.
Fired(r) ==
  /\ sweep.pc = "fired"
  /\ \E i \in DOMAIN timer_tasks : IsCurrent(i) /\ timer_tasks[i].id = r

\* Two calls never work on the same rid, and a call has not returned yet.
CallsApart ==
  \A c \in Callers : call[c].pc # "idle" =>
    /\ call[c].rid \in 0 .. (next_timer_id - 1)
    /\ ret[call[c].rid] = "none"
    /\ \A d \in Callers \ {c} : call[d].pc # "idle" => call[d].rid # call[c].rid

\* A rid that has no task yet: not handed out, or waiting for AddTimerTask.
Fresh(r) ==
  \/ r >= next_timer_id
  \/ \E c \in Callers : call[c].pc = "add" /\ call[c].rid = r

FreshIsUntouched ==
  \A r \in Rids : Fresh(r) =>
    /\ r \notin Ids \cup settled
    /\ ret[r] = "none" /\ timeouts[r] = 0 /\ finals[r] = 0

\* A reported task is erased before anybody else can see it.
TimeoutCloses ==
  \A r \in Rids : timeouts[r] <= 1 /\ (timeouts[r] = 1 /\ r \in Ids => Fired(r))

\* A final response closes its request, once its callback has returned.
FinalCloses ==
  /\ \A r \in Rids :
       /\ finals[r] <= 1
       /\ finals[r] = 1 /\ r \in Ids =>
            recv.pc = "settle" /\ recv.type = "final" /\ recv.rid = r
  /\ recv.pc = "found" /\ recv.type = "final" => finals[recv.rid] = 0
  /\ settled \cap Ids = {}

\* A response has a rid, and once its task was found the rid is one that has
\* been registered.
FoundWasRegistered ==
  /\ recv.pc # "idle" => recv.rid \in Rids
  /\ recv.pc \in {"found", "settle"} => ~Fresh(recv.rid)

FailureCloses == \A r \in Rids : ret[r] = "failed" => r \notin Ids

IInv ==
  /\ Types
  /\ UniqueIds
  /\ CallsApart
  /\ FreshIsUntouched
  /\ TimeoutCloses
  /\ FinalCloses
  /\ FoundWasRegistered
  /\ FailureCloses

-----------------------------------------------------------------------------
\* Refinement: RequestContract, with the vector and the threads hidden.

Phase(r) ==
  CASE r >= next_timer_id -> "unused"
    [] r < next_timer_id /\ \E c \in Callers : call[c].pc = "add" /\ call[c].rid = r
         -> "reserved"
    [] r \in Ids /\ ~Fired(r) -> "pending"
    [] OTHER -> "closed"

Answer ==
  IF recv.pc \in {"found", "settle"}
  THEN [request |-> recv.rid, type |-> recv.type, told |-> recv.pc = "settle"]
  ELSE [request |-> NoRid, type |-> "final", told |-> FALSE]

Contract == INSTANCE RequestContract WITH
  Requests <- Rids, Nobody <- NoRid,
  phase <- [r \in Rids |-> Phase(r)], answer <- Answer

\* The threads and the vector of rabbitmqclient.cpp keep what the contract
\* promises: every step is a step of the contract or leaves its state alone.
ImplementsContract == Contract!Spec
=============================================================================
