# A verification of the RabbitMQ client library

The library wraps one AMQP connection in a singleton (`RabbitMQWrapper`) and
offers three ways of talking: point-to-point requests with responses and
timeouts (`rmMidLib.cpp`), topic subscriptions, and broadcasts. This directory
holds TLA+ models of its parts, the TLC configurations that check them on small
instances, and proofs for TLAPS. File names below are relative to the
repository (`src/rabbitmqclient.cpp` is abbreviated RC).

## The system

| component | state | operations | hard behaviours |
|---|---|---|---|
| p2p request tracking (RC 436-499, 564-599, 1030-1126; rmMidLib) | `m_next_timer_id`, the vector `timer_tasks`, `timer_mutex` | make a request or a notification; handle a temporary or a final response; sweep expired tasks | three kinds of threads share a vector; a pointer into it outlives the lock; responses late, repeated, before the call returns; timeout against answer |
| p2p peers end to end (RC 436-499, 1128-1144; rmMidLib) | the handlers, requests in hand, queues at the broker | request, notification, report, temporary and final response, automatic response, `rmSetMidMsgHandler`, `MidwareClientDestroy` | callbacks that call the library, handlers set late, lost messages, a process that restarts and hands out the same rids again |
| session and singleton (RC 15-26, 213-272, 604-781, 895-1018) | `instanceType`, `connection`, `conn_mutex`, `stopThreads`, `initialized`, `heartbeaterr`, the threads | `getInstance`, `rabbitmq_init`, `rabbitmq_free`, send, consume, heartbeat check, reconnect | connection lost at any moment, broker away, init after free, join of a thread that reconnects, a mutex locked twice, replies read without the lock |
| topic routing and broadcast (RC 274-383, 415-434, 804-892, 1003-1010) | `bound_routing_keys_share`, `bound_routing_keys_self`, `routing_key_callbacks`, the queues at the broker | subscribe, unsubscribe, publish, dispatch, rebind | calls on a dead connection, auto-deleted queues, a second instance of the module, message against registration |
| `MatchRoutingKey` (RC 390-413) | none | pattern to regular expression | disagreement with the broker's matching |
| property codec (RC 28-190) | none | `IntProps2AmqpTable`, `AmqpTable2IntProps` | a key that is missing leaves a field uninitialised, an unknown one drops the message |
| logger (rbloger.cpp) | `LogMap`, the log file, its backups | `Log` | suppression window, threshold, rotation, failing disk |
| AMQP library and broker | tables, replies, connections; queues and bindings | the calls the client makes | a reply that belongs to another call, a dead peer that goes unnoticed |

They interact as follows. The receive thread of the session dispatches a
message to the p2p, the topic or the broadcast handler, according to the type
of the wrapper, under `handle_mutex`; the handlers call the application, which
may call the library again. The timer thread calls the application for expired
tasks. Calls of the application take `conn_mutex` for every use of the
connection, and so does the receive thread for each consume; `ReconnectProc`
holds it throughout. Everybody logs.

What makes each part correct:

* *requests*: the application hears at most one timeout and at most one final
  response per request, no timeout and no newly matched response after a call
  that failed, no timeout after a settled response, and in the end something for
  every call that succeeded;
* *peers*: no request is handled twice, an answer is one to a request of this
  module with this number, a destroyed client is silent, callbacks may call;
* *session*: no thread uses a destroyed connection, a lost session consumes
  again once the broker can be reached, a loop without consumers does not pass
  for a sound one, `rabbitmq_free` returns;
* *topics*: what the client believes to be bound is bound, a routed message
  meets its callback, a subscription takes effect in the end;
* *matching*: the client matches what the broker routes;
* *codec*: what is packed is accepted, and read back as it was;
* *logger*: repetition is bounded and hides nothing for longer than the window,
  and no backup is lost but in a flood, or when the clock is set back.

## The modules

| module | models | its proofs |
|---|---|---|
| `RequestContract` | what a client promises about a request: reserved, pending, closed (abstract specification) | |
| `RequestTimers` | the vector, the lock, callers, receive thread and timer thread; implements `RequestContract` | `RequestTimersProofs`, `RequestContractProofs` |
| `AmqpLibrary` | the data the client exchanges with the library: tables, messages, replies, states of a connection | |
| `PropsTable` | the codec, and the properties each function of rmMidLib.cpp fills in; extends `AmqpLibrary` | `PropsTableProofs` |
| `RequestExchange` | what processes promise each other about a message: asked, given, answered, settled (abstract specification) | |
| `RequestPeers` | several p2p processes joined by the broker, the messages being tables of `PropsTable`; implements `RequestExchange` | `RequestPeersProofs` |
| `Session` | singleton, life cycle, all threads, reconnection; extends `AmqpLibrary` | `SessionProofs` |
| `TopicRouting` | subscriptions of the instances of a module, broadcasts, and the broker's queues | `TopicRoutingProofs` |
| `RoutingKey` | `MatchRoutingKey` against topic matching: over bounded inputs for TLC, over all of them for the proofs | `RoutingKeyProofs` |
| `RbmqLogger` | suppression, rotation and backups | `RbmqLoggerProofs` |
| `MC...` | instances for TLC | |

A definition `X_Something` in front of a definition `X` is a plausible bug in
`X`; no specification uses it. Replacing `X` by it makes TLC report the
property it is paired with in `PROJECT.json`, which shows that the property
says something about that code.

`RequestTimers`, `Session`, `TopicRouting` and `RequestPeers` divide one
program. Each looks closely at what the others treat as one step: `RequestPeers`
keeps the tasks as a set and a reconnection as one action, `RequestTimers` looks
into the vector and the pointer, `Session` and `TopicRouting` into the
reconnection.

### RequestTimers

`timer_tasks` is a sequence of tasks with the seconds left until
`expire_time`; `Tick` lets a second pass. `call[c]` follows a thread through
`rmRequestMake`/`rmNotifyMake`: `ReqTimerId`, `AddTimerTask`, then
`ReturnOk`, or `SendReportsFailure` and `UndoTimerTask`. `recv` follows the
receive thread through `p2pHandleMessage`: `ReceiveReply`, `GetTimerTaskInfo`
(under `timer_mutex`), `Dispatch` (the callback, with no lock) and `Settle`
(remove or restart, under the lock). `sweep` follows one pass of
`TimerThreadProc`: `StartSweep` collects the ids, and `TimeoutProc` and
`EraseExpired` alternate until `EndSweep`. The timer thread keeps
`timer_mutex` for the whole pass, callbacks included, so the mutex is free
exactly when `sweep.pc = "sleep"`.

The pointer into the vector is `recv.ptr`, an index. An erase in front of it
makes it denote the next task; a `push_back` may reallocate and leave it
dangling (`ptr = 0`), and then the read yields any message type.

Responses are abstract: up to `MaxReplies` of any type, with any rid, at any
time. The code looks at nothing but the rid, so a response may answer the
message just sent, one whose sending was reported as a failure (what
`SendRabbitmqMessage` reports is the result of the last synchronous call, not of
the publication), or one that a former life of the process sent under the same
number. That is why a call that has returned -1 is not the end of all
callbacks: a response whose task was found before `p2pRemoveTimerTask` took it
away is still handed over. `FailedIsForgotten` says that this is all that may
come.

### PropsTable and AmqpLibrary

A message is `IntProps2AmqpTable` of the ten fields, sent with the flags
`CONTENT_TYPE` and `HEADERS`. `Readable` is the part of `AmqpTable2IntProps`
that refuses a message; the operator of that name gives the fields a readable
table sets, the last entry of a key counting. A field without an entry is
uninitialised in the code and absent from the result. Texts are packed by
`c_str()`, so a `std::string` ends at its first NUL on the wire: `CString(text)`
is what is left of it, and `TextAssumption` says that the literals of rmMidLib.cpp hold none.

`AmqpLibrary` holds what the client can learn of a connection. `CallOutcomes`
pairs the reply a synchronous call leaves behind with the state it leaves: on a
working connection the call succeeds, or the server refuses it, which closes the
channel with its consumers while the socket stays open (`"refused"`); on a dead
one it notices. `AfterPublish` says whether a publication notices,
`ConsumeReplies` what a consume may return. That calls on a closed channel return
with an exception, rather than not at all, is an assumption.

### RequestPeers

In every process `call[m]["app"]` is an application thread inside
`rmRequestMake` or `rmNotifyMake`, and `call[m]["recv"]` the same calls made by a
callback of the receive thread. `BeginCall`, `Register`, `Publish`, and then
`ReturnOk`, or `PublishFails` and `Undo`, are one call: between the publication
and its report the addressee may handle the message and even answer it, the
connection may break, or the process die. A failure may be reported of a message
that was sent. `recv[m]` follows the receive thread
through all of `p2pHandleMessage`: `HandleRequest` for the message types that go
to the application (a request stays `open` until it is answered, in the
callback or at any later time), `Lookup`, `Dispatch` and `Settle` for responses,
`AutoResponse` for the acknowledgement of a notification. `timer[m]` is
the timer thread, which keeps `timer_mutex` from `StartSweep` to `EndSweep`.

* Any task may be due at any time, since no clock is followed.
* `recv.stale` says that the vector has changed since the pointer into it was
  obtained; `Dispatch` may then misread the task.
* `TimeoutCallbackCalls` is a timeout callback that makes a request: it locks
  the mutex its thread holds, and the thread is `"stuck"` for good. The two
  liveness properties name this exception (`TimerStuck`).
* A broken connection leaves a `ghost` consumer at the broker for a while, which
  swallows messages (`LostToGhost`), until `BrokerNotices` and an auto-delete
  queue goes with its last consumer. A send on a dead connection is lost, and
  may be reported as either success or failure. A failure that is reported on a
  sound connection counts as one of the `MaxEvents`.
* `Crash` and `Restart` lose everything a process knew; `m_next_timer_id` starts
  at 0 again, while the queue may have survived. What the code cannot know, the
  life in which a request was made, is part of the ghost field `id` of a message.
* Processes in `LateHandlers` are up before `rmSetMidMsgHandler` was called;
  messages that come before it are ignored.
* `Destroy`, the ends of the two threads and `Freed` are
  `MidwareClientDestroy`. Callbacks that are running meanwhile may still call
  and answer (`MayCall`); afterwards calls may still be made and stay without
  effect.

`asked`, `handled`, `answered`, `credited`, `accepted` and `outcome` are histories
the properties speak about; the first four are the variables of `RequestExchange`.

### Session

`connection` distinguishes only what the code can tell apart, and `"raw"`, a
connection that `ConnectInit` allocated and did not finish. `"refused"` is a
connection on which the server has refused a call: `StartThreads`,
`ReconnectOk`, `Restart` and `LibraryCall` are the steps it may happen in, and
the results of the first two and of the last are not looked at. `last_reply` is what
`amqp_get_rpc_reply` says, to whichever thread asks. `conn_mutex` is
held over several steps only in `ReconnectProc`, by the receive thread; every
other critical section is one step that requires it to be free. `user` is
another application thread inside `SendRabbitmqMessage`: it looks at the pointer
(`UserCheck`) before it has the lock (`UserSend`). `LibraryCall` is any other
call of the application. Failures of
the connection and of the broker, and refusals, come at any moment,
`MaxFailures` in all. A
callback takes as long as it likes: if it outlasts `MAX_HEARTBEAT_ERR` + 1
heartbeat checks on a dead connection (four minutes), the receive thread takes
the step `HeartbeatReconnect` and is stuck on its own mutex.

### TopicRouting

Several processes of one module share a queue and, with topics, own one each. A
subscription is two steps under `conn_mutex` (bind, then register the callback);
dispatch does not take `conn_mutex`. `alive[p]` is the client's view of its
connection, `ghost[p]` says that the broker still counts the consumer of a dead
one. Queues are auto-delete: `BrokerNotices` drops one whose last consumer has
gone, with its bindings. A bind or a consume on a queue that is gone closes the
channel, in `Rebind` too, where the shared keys come first: what follows a bind
that was refused (`Refused`) comes to nothing. The model assumes that a refused consume is reported to
`amqp_get_rpc_reply`.

`exchange_type` is any of the three. A p2p or broadcast wrapper has no
subscriptions, but its queue has a fixed key (`FixedKeys`: the module's name, or
none), which `Reconnect` and `Rebind` must bring back for the same reasons;
`PublishDirect` and `PublishFanout` are its messages.

### RoutingKey

Patterns and keys grow by a word per step, so every pair within the bound is a
state. `MatchRoutingKey` works on the characters, as the regular expression
does: `Ends[i]` is the set of the positions in the key's text at which a match
of the pattern's first `i` characters may end, so that the key matches when the
last set has its end (an unescaped dot is any character). `TopicMatch` works on
the words, and `WordEnds` is its `Ends`. Words are any sequences of characters
but `Special` ones, which mean something in a regular expression, or which
its dot does not match (line ends).

### RbmqLogger

`Log` holds `mutex_` from beginning to end, so one call is one step with three
outcomes: suppressed, written, lost to the disk. The else branch at rbloger.cpp
58-62 cannot be reached, because `cleanupExpiredLogs` has removed such entries.
Two clocks are followed: the windows live by the steady one (`now`), and a backup
is named by the second that the local time (`wall`) shows when the file is moved
away. `SetClock` sets the local time, also back, as the end of daylight saving
does; `replayed` is the latest second shown before, and `burst` counts the lines
of the second shown now. `since` and `written` follow the windows on their own,
without a look at the entries.

## What the runs show

Runs that pass:

| run | instance | question |
|---|---|---|
| `request_timers` | 2 callers, 2 rids, timeouts of 500 and 1500 ms, 2 responses of any type with any rid; 0.9 million states | what the application may and may not be told; every accepted request is resolved; implementation of `RequestContract` |
| `request_peers` | a requester and a responder that may be late with its handlers, 2 calls, 2 lives, 1 crash, break, destruction or false report of a failure; 0.9 million states | nothing is handled twice, answers are genuine, silence after the destruction; callbacks return and the requester is told an answer, an acknowledgement or a timeout for every accepted request, but for a stuck timer thread; implementation of `RequestExchange` |
| `session` | 3 failures or refusals, 2 inits, callbacks of any length; 0.1 million states | destroyed connections are not used, by the threads or by a sender; the loop is never deaf while sends are reported as successful; a lost session consumes again and `rabbitmq_free` returns, unless the receive thread is stuck on its own mutex |
| `topic_routing` | 1 instance of any type, 2 patterns that match the same topic, 3 breaks; 0.5 million states | bindings mirror the sets; messages meet their callbacks; subscriptions take effect, on the shared queue and on the own one |
| `routing_key` | words of one and two letters, up to 4 per pattern and key; 0.1 million states | routed implies matched, but for an empty `#` |
| `logger` | 2 messages, threshold 3, window 1 s, files of 2 lines, 3 s, a disk that may fail and a clock that may be set; 3.2 million states | the flood is bounded; nothing is hidden for longer than the window; backups are replaced in a burst, or in a second shown again, only |

Runs that find a disagreement, each with its quotation in `PROJECT.json`:

| run | what happens |
|---|---|
| `only_notify_does_nothing` | the receive thread's pointer goes stale while in use (RC 476-493), and a final response to a request takes the notification branch and is swallowed |
| `free_returns_no_broker` | the restart loop (RC 673-690) ignores `stopThreads` while the broker is away |
| `free_returns_long_callback` | the heartbeat path locks `conn_mutex` twice (RC 697, 703, 992) |
| `init_starts_threads` | `stopThreads` is never cleared: init after free starts threads that end at once |
| `unsubscribed_is_unbound` | a key subscribed on both queues stays bound to one, without a callback |
| `hash_matches_zero_words` | `a.#` does not match `a` |

Met while modelling, without a run of their own:

* After a failed `rabbitmq_init` the connection is not null (RC 968), so every
  retry is refused with "has already been connected" (RC 963): in `Session`,
  `InitFails` leaves `"raw"` and `InitConnection` then only refuses.
* With two instances of a module `ShareIsBound` does not hold: one instance's
  `unSubscribleTopicMsg` unbinds the shared queue for the other (RC 870). It
  fails without an unsubscription, too: an instance has subscribed and does not
  consume yet, the broker drops the queue with the other one's dead connection,
  and the other one reconnects and declares it again (RC 1003). The first then
  consumes a queue without its keys, and nothing tells it so. For the shared
  queue `SubscriptionTakesEffect` fails with it.
* A timeout callback that makes a request locks `timer_mutex` twice (RC 587,
  1034): no task of that process expires, and no request can be made, from then on.
* A bind that the server refuses leaves the session deaf. Its result is not looked
  at (RC 838), the channel is closed with its consumers, consuming only times
  out, and the socket is open: neither the receive loop nor the heartbeat check
  sees anything wrong, and nothing reconnects. What the application can see is
  that its sends fail from then on (`NeverSilentlyDeaf`).
* A response is matched by its rid alone (RC 476), and rids start at 0 in every
  life of a process: a response to a request of the former life settles the one
  with the same number. `AnswerIsGenuine` says what remains true.
* The dots of a pattern are not escaped (RC 409): `*.*` matches `abb`, and its
  callback, if first in the map, takes the message of another subscription.
* A call may report -1 for a message that was sent, since the result is that of
  an earlier call (RC 915); the addressee then handles a request its sender has
  given up.
* The logger writes `log_threshold - 1` lines of a message, not `log_threshold`
  (rbloger.cpp 54): `log_threshold` is described as the number of repetitions
  (rbloger.cpp 7), and the comment at rbloger.cpp 55 suppresses beyond it.
  `FloodIsBounded` states the documented bound, which the code stays below. A line
  that the disk refused is counted too (rbloger.cpp 65).
* A local time that is set back makes the names of backups come again, and
  `rename` overwrites the old ones (rbloger.cpp 88).

### Bounds

Two rids suffice for the vector: one task in front of the other, each of
either kind, is what the stale pointer needs (the run that shows the wrong
branch uses three, with one caller). Two callers bring the interleavings of
registration, failure and sweep. A timeout of 500 ms becomes an interval of
0 s, one of 1500 ms an interval of 1 s, so a request may expire at once, later,
or be restarted in between. Two responses give a restart before the final
answer, a late and a repeated answer, one that came too early, and one to a call
that failed.

Two calls among the peers are two requests that race, the second perhaps from a
callback, or a request and a report or temporary response. One event lets a
process crash and come back with the same rids, or a connection break with a
request under way, or a client be destroyed with requests open, or a call fail
whose message was sent; several events are left to the proofs. `AcceptedIsResolved`
is about processes that set their handlers before they start the client; here
that is the requester, since a process without handlers is told nothing.

Three failures let a connection fail during the
recovery from a failure; two inits let an init follow a free and a failure.
Three breaks allow one while the broker has not noticed the previous one, and
another while the client reconnects. Three seconds are a window of one second,
its border and the beginning of the next; files of two lines are full within a
second or not.

### Fairness

* `RequestTimers`: threads inside an operation go on, and time passes; new
  calls and responses need not come. A callback is assumed to return.
* `RequestPeers`: the threads of a process go on with what they have begun
  (`Going`), and a task expires in the end. One weak fairness for all processes
  is enough, since the bounds leave their threads finitely many steps. New calls,
  answers, reconnections, restarts and whatever the broker does need not come.
* `Session`: threads go on (weak fairness). Strong fairness of `ConsumeFails`
  states that a dead connection is noticed, which the AMQP heartbeat asked for
  in `amqp_login` (RC 977) brings about; strong fairness of `ReconnectOk`
  states that not every attempt to reach a broker that is there fails. `FairSpec`
  also lets the broker come back; `NoBrokerSpec` does not.
* `TopicRouting`: the receive thread gets `conn_mutex` in the end although the
  application keeps taking it (strong fairness).

## What is proved

Every safety property of a passing run, and every refinement, is also a theorem
for all values of the constants. The assumptions are those the modules state
about their constants, and the ones named below. Each module proof has one
lemma per action or per group of actions, an inductive invariant `IInv` that
was first checked with TLC, and short theorems that take the properties from it.

**Requests** (`RequestTimersProofs`). Any number of callers, requests and
responses, any timeouts, any set of handlers. `AtMostOnce` is not inductive:
that a timeout has been reported once says nothing about the next pass. What
makes it true is that a reported task is erased before the lock is released,
and that a response finds a task only under that lock. `IInv` says so:

* `UniqueIds`: no two tasks have the same id; it needs `CallsApart` (two calls
  never work on the same rid) and `FreshIsUntouched` (a rid without a task yet
  has no outcome, no response and no task);
* `TimeoutCloses`: a task whose timeout was reported is the current one of the
  pass, about to be erased;
* `FinalCloses`: a request with a final response is out of the vector, or its
  callback has just been made and the removal is next; a settled rid has no task;
* `FoundWasRegistered` and `FailureCloses`: what a response has found was a
  registered rid, and a rid whose call failed has no task.

The second part of the module adds where a task goes when it leaves the vector:
`KindsAgree`, `SettledIsTold`, `FiredIsTold`, `OpenIsTracked`. `AcceptedIsTracked`
follows under the assumption that the application has set the handler for
request timeouts (`"RequestTimeout" \in Handlers`): without it a request may
expire in silence.

`RequestContractProofs` proves `Spec => ImplementsContract`. The phase of a rid
is read off the counter, the calls and the vector (`Phase`; `PhaseCases` puts it
in a form without `CASE`). `ReqTimerId` is `Reserve`, `AddTimerTask` is
`Register`, `ReturnOk` `Accept`, `UndoTimerTask` `Refuse`, `GetTimerTaskInfo`
`Take`, `Dispatch` `Tell`, `Settle` `Finish`, `TimeoutProc` `Expire`; the other
steps change nothing the contract speaks of.

**Codec** (`PropsTableProofs`). `RoundTrip`: reading a packed table gives every
field back, numbers as they were and texts up to their first NUL.
`PackedIsReadable`: the library accepts what it packs.

**Peers** (`RequestPeersProofs`). Any set of processes and of peers, any number
of calls, lives, crashes, breaks and destroyed clients. `IInv` consists of

* the types, with what the threads need: rids stay below `next_timer_id`, which
  with the calls that have no rid yet stays within the calls counted; two
  threads never publish the same rid; a destroyed client has no threads and a
  crashed one nothing at all;
* `AllHonest`: a message in a queue or in hand, and a request open at an
  application, tells the truth about the request it belongs to; a request or a
  notification travels only if its sender has registered its task, and a final
  response is one to a request that was handled. Here the codec is used: what is taken from a
  queue is what was put into it;
* `AsksOnce`: a request, notification or report is at one place at most, in the
  hands of a receive thread or at one position of one queue, and nowhere once
  it was handled; only a number that was never published may be sent. That is why
  reused rids do no harm: they belong to another life;
* `RidsAsked`: every rid that a living process has handed out belongs to a
  request that was registered;
* `Genuine`: the property `AnswerIsGenuine` itself, inductive with the others.

`ImplementsExchangeHolds` proves `Spec => ImplementsExchange`, for the messages
as they are: `Register` is `Ask`, `HandleRequest` is `Give`, `FinalResponse` and
`AutoResponse` are `Answer`, `Dispatch` is `Settle` if it settles; the other
steps, the publication and its report, those of the broker, a crash and a restart
included, change nothing the exchange speaks of. `AsksOnce` gives the guard of
`Give`, `AllHonest` and `RidsAsked` those of `Answer` and `Settle`. Nothing is
assumed of what a call reports: a message may be given before its call returns,
or although it returns -1. That the names of modules hold no NUL
(`PeersAssumption`) is used, since they are the addresses.

`SilentAfterDestroyHolds` follows step by step: `Joined` makes both threads end
before the client is freed, and no step of an ended thread is left.
`StuckTimerStopsHolds` says what a timeout callback that makes a request does to
its process, until that dies: no rid is handed out, no task comes or goes, and
`MidwareClientDestroy` does not end.

**Session** (`SessionProofs`). Any limit of failed checks, any number of failures
and inits. `LockedByReconnect` (over several steps the lock belongs to
`ReconnectProc`), `LifeCycle` (threads exist between init and free only),
`MissingIsReplaced` (the pointer is null only outside of that, or while it is
being replaced under the lock), `SenderIsSafe` (a sender past its check finds a
connection once it has the lock) and `ConsumerIsThere` (a good reply, whoever
caused it, was one on a connection with a consumer, since a refusal leaves a bad
one behind for good). There is one application thread that calls `rabbitmq_init`
and `rabbitmq_free`, and one further thread that sends. Two more theorems are the
safety side of what the runs report: `StuckForeverHolds` (nothing frees a receive
thread from its own lock, so a `rabbitmq_free` that waits for it never returns)
and `FailedInitIsFinalHolds` (after a failed `rabbitmq_init` no later one
succeeds: an unfinished connection is in the way, and `FailedIsUnusable` says that
neither a thread nor `rabbitmq_free` can clear it away).

**Topics** (`TopicRoutingProofs`). For any number of instances: `ConsumedExists`,
`SelfMirrors`, `FixedIsThere`, and from them `SelfIsBound`, and `ShareIsBound` for
wrappers that are not of the topic type. `SharedKeysStayHolds` says what is left of
`ShareIsBound` for topics when instances share the queue: while an instance consumes
it, the queue loses a key only by somebody's unsubscription, whatever
connections are lost. Under the assumption
that there is one instance (`SingleInstance`): `ShareMirrors` and `KeysAreKnown`
(a key that is bound or was routed by has a callback, is about to have one, or
has lost one by an unsubscription), and from them `ShareIsBound` and
`DroppedOnlyIfUnsubscribed`.

**Logger** (`RbmqLoggerProofs`). Any threshold, window and file size:
`LinesAreCounted` (an entry counts the lines of its window, and is as old as the
window in the history), `NoEntryNoWindow` (a message without an entry is in no
window), `FirstIsTried` (the first call of a window writes a line, or loses it),
`FileIsOfThisSecond` (after a backup in this second, if the local time shows it
for the first time, the file has only lines of this second).

**Matching** (`RoutingKeyProofs`). `RoutedTextIsMatched` is about the operators
alone: for any set of words without special characters, any pattern and any key,
whatever `TopicMatch` accepts (with at least one word for every `#`),
`MatchRoutingKey` accepts. `RoutedIsMatchedHolds` is the property of the run,
for any bound. The functions that recurse over the pattern are unfolded one
step by `TextsSteps`, `EndsSteps` and `WordEndsSteps`. The induction over the
pattern takes the least counterexample (`Upwards`, from the library's
well-founded induction), since the library's own rule has an operator as its
parameter. What it shows of a number `i` of words: wherever the broker can be in
the key after `i` words of the pattern, the regular expression can be at the same
place, behind that word's text, after as many characters. A step of a literal word goes
character by character (`LiteralStep`), one of `*` or `#` takes a non-empty
text (`WordStep`), and the pattern's dot takes the key's.

Only model-checked: everything about liveness, which is beyond the proof system
(`EventuallyResolved`, `CallbacksMayCall`, `AcceptedIsResolved`, `Recovers`,
`FreeReturnsUnlessStuck`, `SubscriptionTakesEffect`).

## What is not modelled

* The race on `routing_key_callbacks` between RC 424 and RC 851/875, undefined
  behaviour of the map: dispatch is one step of `TopicRouting`. Nor is what the
  library does inside when two threads use a connection at once (RC 682, 694);
  that the reply may be another thread's is in `Session`.
* `rabbitmq_free` called from a callback, where a thread joins itself (RC 223).
* A pattern that is no regular expression, which makes `std::regex` throw
  (RC 409), and patterns and keys with characters that mean something in one.
* `m_next_timer_id` beyond 2^31: ids are natural numbers.
* `setThreshold`, `setMaxLogSize` and `setLogFile` of the logger, which nothing
  in the repository calls.
* What an uninitialised handler does when it is not null by chance (it is a
  `Crash` of `RequestPeers`).
* Contents no code looks at: bodies, descriptions, time stamps.
* Tests, build and deployment. The vendored headers are modelled as far as the
  client names what they declare.
