--------------------------- MODULE SessionProofs ---------------------------
(***************************************************************************)
(* Proofs about Session: IInv is inductive, and the safety properties of   *)
(* the module follow from it, for any limit of failed heartbeat checks and *)
(* any number of failures and calls of rabbitmq_init.                      *)
(***************************************************************************)
EXTENDS Session, TLAPS

\* Over several steps the lock is held by ReconnectProc alone.
LockedByReconnect == conn_mutex = "recv" <=> recv \in {"connect", "stuck"}

\* There are threads only between rabbitmq_init and rabbitmq_free, which joins
\* them before it closes the connection.
LifeCycle ==
  /\ ~initialized \/ app = "close" => send = "none" /\ recv = "none" /\ timer = "none"
  /\ app = "login" => ~initialized /\ connection = "raw"
  /\ app \in {"join", "close"} => initialized /\ stopThreads

\* The connection is missing only while ReconnectProc replaces it, or outside
\* of rabbitmq_init and rabbitmq_free.
MissingIsReplaced ==
  /\ recv = "connect" => connection = "null"
  /\ connection = "null" => recv \in {"none", "connect"}
  /\ connection = "null" /\ initialized => recv = "connect"

\* Between amqp_basic_consume and the next reconnection a working connection has
\* its consumer, hence so has any on which a call succeeded since.
ConsumerIsThere ==
  recv \in {"reply", "loop", "consume", "handle"} =>
    /\ connection = "ok" => consuming
    /\ consuming \/ last_reply # "NORMAL"

IInv ==
  /\ TypeOK /\ LockedByReconnect /\ LifeCycle /\ MissingIsReplaced
  /\ ConsumerIsThere /\ NeverSilentlyDeaf

-----------------------------------------------------------------------------

\* The initial state satisfies the invariant.
LEMMA InitIInv == Init => IInv
<1> SUFFICES ASSUME Init PROVE IInv
  OBVIOUS
<1>1. consuming \in BOOLEAN /\ stopThreads \in BOOLEAN /\ initialized \in BOOLEAN
  BY Zenon DEF Init
<1>2. TypeOK
  BY <1>1, SessionAssumption DEF Init, TypeOK, NoConnection, Connections, ReplyTypes
<1>3. LockedByReconnect /\ LifeCycle /\ MissingIsReplaced
  BY DEF Init, LockedByReconnect, LifeCycle, MissingIsReplaced, NoConnection
<1>4. ConsumerIsThere /\ NeverSilentlyDeaf
  BY DEF Init, ConsumerIsThere, NeverSilentlyDeaf
<1> QED
  BY <1>2, <1>3, <1>4 DEF IInv

\* Every step keeps the types.
LEMMA StepTypeOK == TypeOK /\ [Next]_vars => TypeOK'
<1> USE SessionAssumption
<1> SUFFICES ASSUME TypeOK, [Next]_vars PROVE TypeOK'
  OBVIOUS
<1>1. ASSUME NEW type \in ExchangeTypes, GetInstance(type) PROVE TypeOK'
  BY <1>1 DEF GetInstance, ExchangeTypes, TypeOK, Connections, ReplyTypes, session,
    others, threads, env, api
<1>2. CASE InitConnection
  BY <1>2 DEF InitConnection, NewConnection, TypeOK, Connections, ReplyTypes, session,
    others, threads, env, api
<1>3. CASE StopThreads
  BY <1>3 DEF StopThreads, TypeOK, Connections, ReplyTypes, session, others, threads,
    env, api
<1>4. CASE StartThreads
  BY <1>4 DEF StartThreads, CallOn, CallOutcomes, Outcome, TypeOK, Connections,
    ReplyTypes, session, others, threads, env, api
<1>5. CASE InitFails
  BY <1>5 DEF InitFails, Exceptions, TypeOK, Connections, ReplyTypes, session, others,
    threads, env, api
<1>6. CASE Join
  BY <1>6 DEF Join, TypeOK, Connections, ReplyTypes, session, others, threads, env, api
<1>7. CASE CloseConnection
  <2>1. consuming' \in BOOLEAN /\ initialized' \in BOOLEAN
    BY <1>7, Zenon DEF CloseConnection
  <2> QED
    BY <1>7, <2>1 DEF CloseConnection, NoConnection, TypeOK, Connections, ReplyTypes,
      session, others, threads, env, api
<1>8. CASE LibraryCall
  BY <1>8 DEF LibraryCall, CallOn, CallOutcomes, Outcome, NoConnection, TypeOK, Connections,
    ReplyTypes, session, others, threads, env, api
<1>9. CASE UserCheck
  BY <1>9 DEF UserCheck, TypeOK, Connections, ReplyTypes, session, others, threads, env,
    api
<1>10. CASE UserSend
  BY <1>10 DEF UserSend, AfterPublish, TypeOK, Connections, ReplyTypes,
    session, others, threads, env, api
<1>11. CASE TimerLoop
  BY <1>11 DEF TimerLoop, TypeOK, Connections, ReplyTypes, session, others, threads,
    env, api
<1>12. CASE TimerSlept
  BY <1>12 DEF TimerSlept, TypeOK, Connections, ReplyTypes, session, others, threads,
    env, api
<1>13. CASE SendLoop
  BY <1>13 DEF SendLoop, TypeOK, Connections, ReplyTypes, session, others, threads, env,
    api
<1>14. CASE SendSlept
  BY <1>14 DEF SendSlept, TypeOK, Connections, ReplyTypes, session, others, threads,
    env, api
<1>15. CASE SendCheck
  BY <1>15 DEF SendCheck, Sockfds, TypeOK, Connections, ReplyTypes, session, others,
    threads, env, api
<1>16. CASE Restart
  BY <1>16 DEF Restart, CallOn, CallOutcomes, Outcome, TypeOK, Connections, ReplyTypes, session,
    others, threads, env, api
<1>17. CASE ConsumeReply
  BY <1>17 DEF ConsumeReply, TypeOK, Connections, ReplyTypes, session, others, threads,
    env, api
<1>18. CASE Backoff
  BY <1>18 DEF Backoff, TypeOK, Connections, ReplyTypes, session, others, threads, env,
    api
<1>19. CASE ReconnectClose
  <2>1. consuming' \in BOOLEAN
    BY <1>19, Zenon DEF ReconnectClose
  <2> QED
    BY <1>19, <2>1 DEF ReconnectClose, NoConnection, TypeOK, Connections, ReplyTypes,
      session, others, threads, env, api
<1>20. CASE ReconnectOk
  BY <1>20 DEF ReconnectOk, CallOn, CallOutcomes, Outcome, TypeOK, Connections,
    ReplyTypes, session, others, threads, env, api
<1>21. CASE ReconnectFails
  BY <1>21 DEF ReconnectFails, NewConnection, Exceptions, TypeOK, Connections, ReplyTypes,
    session, others, threads, env, api
<1>22. CASE RecvLoop
  BY <1>22 DEF RecvLoop, TypeOK, Connections, ReplyTypes, session, others, threads, env,
    api
<1>23. CASE HeartbeatReconnect
  BY <1>23 DEF HeartbeatReconnect, TypeOK, Connections, ReplyTypes, session, others,
    threads, env, api
<1>24. CASE ConsumeMessage
  BY <1>24 DEF ConsumeMessage, TypeOK, Connections, ReplyTypes, session, others,
    threads, env, api
<1>25. CASE ConsumeFails
  BY <1>25 DEF ConsumeFails, TypeOK, Connections, ReplyTypes, session, others, threads,
    env, api
<1>26. CASE Handled
  BY <1>26 DEF Handled, TypeOK, Connections, ReplyTypes, session, others, threads, env,
    api
<1>27. CASE ConnectionBreaks
  BY <1>27 DEF ConnectionBreaks, Broken, TypeOK, Connections, ReplyTypes, session,
    others, threads, env, api
<1>28. CASE BrokerDown
  <2>1. broker' \in BOOLEAN
    BY <1>28, Zenon DEF BrokerDown
  <2> QED
    BY <1>28, <2>1 DEF BrokerDown, Broken, TypeOK, Connections, ReplyTypes, session,
      others, threads, env, api
<1>29. CASE BrokerUp
  BY <1>29 DEF BrokerUp, TypeOK, Connections, ReplyTypes, session, others, threads, env,
    api
<1>30. CASE UNCHANGED vars
  BY <1>30 DEF TypeOK, Connections, ReplyTypes, vars
<1> QED
  BY <1>1, <1>2, <1>3, <1>4, <1>5, <1>6, <1>7, <1>8, <1>9, <1>10, <1>11, <1>12, <1>13,
    <1>14, <1>15, <1>16, <1>17, <1>18, <1>19, <1>20, <1>21, <1>22, <1>23, <1>24, <1>25,
    <1>26, <1>27, <1>28, <1>29, <1>30 DEF Next, AppFinishes, UserSteps, TimerSteps,
    SendSteps, RecvSteps

\* Every step keeps the life cycle of the threads and the connection.
LEMMA StepLifeCycle ==
  IInv /\ [Next]_vars
    => (LockedByReconnect /\ LifeCycle /\ MissingIsReplaced)'
<1> DEFINE Alive == LockedByReconnect /\ LifeCycle /\ MissingIsReplaced
<1> SUFFICES ASSUME IInv, [Next]_vars PROVE Alive'
  OBVIOUS
<1>1. ASSUME NEW type \in ExchangeTypes, GetInstance(type) PROVE Alive'
  BY <1>1 DEF GetInstance, ExchangeTypes, IInv, LockedByReconnect, LifeCycle,
    MissingIsReplaced, session, others, threads, env, api
<1>2. CASE InitConnection
  BY <1>2 DEF InitConnection, NewConnection, IInv, LockedByReconnect, LifeCycle,
    MissingIsReplaced, session, others, threads, env, api
<1>3. CASE StopThreads
  BY <1>3 DEF StopThreads, IInv, LockedByReconnect, LifeCycle, MissingIsReplaced,
    session, others, threads, env, api
<1>4. CASE StartThreads
  BY <1>4 DEF StartThreads, CallOn, CallOutcomes, Outcome, IInv, LockedByReconnect, LifeCycle,
    MissingIsReplaced, session, others, threads, env, api
<1>5. CASE InitFails
  BY <1>5 DEF InitFails, Exceptions, IInv, LockedByReconnect, LifeCycle,
    MissingIsReplaced, session, others, threads, env, api
<1>6. CASE Join
  BY <1>6 DEF Join, IInv, LockedByReconnect, LifeCycle, MissingIsReplaced,
    session, others, threads, env, api
<1>7. CASE CloseConnection
  BY <1>7 DEF CloseConnection, NoConnection, IInv, LockedByReconnect, LifeCycle,
    MissingIsReplaced, session, others, threads, env, api
<1>8. CASE LibraryCall
  BY <1>8 DEF LibraryCall, CallOn, CallOutcomes, Outcome, NoConnection, IInv, LockedByReconnect,
    LifeCycle, MissingIsReplaced, session, others, threads, env, api
<1>9. CASE UserCheck
  BY <1>9 DEF UserCheck, IInv, LockedByReconnect, LifeCycle, MissingIsReplaced,
    session, others, threads, env, api
<1>10. CASE UserSend
  BY <1>10 DEF UserSend, AfterPublish, IInv, LockedByReconnect, LifeCycle,
    MissingIsReplaced, session, others, threads, env, api
<1>11. CASE TimerLoop
  BY <1>11 DEF TimerLoop, IInv, LockedByReconnect, LifeCycle, MissingIsReplaced,
    session, others, threads, env, api
<1>12. CASE TimerSlept
  BY <1>12 DEF TimerSlept, IInv, LockedByReconnect, LifeCycle, MissingIsReplaced,
    session, others, threads, env, api
<1>13. CASE SendLoop
  BY <1>13 DEF SendLoop, IInv, LockedByReconnect, LifeCycle, MissingIsReplaced,
    session, others, threads, env, api
<1>14. CASE SendSlept
  BY <1>14 DEF SendSlept, IInv, LockedByReconnect, LifeCycle, MissingIsReplaced,
    session, others, threads, env, api
<1>15. CASE SendCheck
  BY <1>15 DEF SendCheck, Sockfds, IInv, LockedByReconnect, LifeCycle,
    MissingIsReplaced, session, others, threads, env, api
<1>16. CASE Restart
  BY <1>16 DEF Restart, CallOn, CallOutcomes, Outcome, IInv, LockedByReconnect, LifeCycle,
    MissingIsReplaced, session, others, threads, env, api
<1>17. CASE ConsumeReply
  BY <1>17 DEF ConsumeReply, IInv, LockedByReconnect, LifeCycle, MissingIsReplaced,
    session, others, threads, env, api
<1>18. CASE Backoff
  BY <1>18 DEF Backoff, IInv, LockedByReconnect, LifeCycle, MissingIsReplaced,
    session, others, threads, env, api
<1>19. CASE ReconnectClose
  BY <1>19 DEF ReconnectClose, NoConnection, IInv, LockedByReconnect, LifeCycle,
    MissingIsReplaced, session, others, threads, env, api
<1>20. CASE ReconnectOk
  BY <1>20 DEF ReconnectOk, CallOn, CallOutcomes, Outcome, IInv, LockedByReconnect, LifeCycle,
    MissingIsReplaced, session, others, threads, env, api
<1>21. CASE ReconnectFails
  BY <1>21 DEF ReconnectFails, NewConnection, Exceptions, IInv, LockedByReconnect,
    LifeCycle, MissingIsReplaced, session, others, threads, env, api
<1>22. CASE RecvLoop
  BY <1>22 DEF RecvLoop, IInv, LockedByReconnect, LifeCycle, MissingIsReplaced,
    session, others, threads, env, api
<1>23. CASE HeartbeatReconnect
  BY <1>23 DEF HeartbeatReconnect, IInv, LockedByReconnect, LifeCycle,
    MissingIsReplaced, session, others, threads, env, api
<1>24. CASE ConsumeMessage
  BY <1>24 DEF ConsumeMessage, IInv, LockedByReconnect, LifeCycle, MissingIsReplaced,
    session, others, threads, env, api
<1>25. CASE ConsumeFails
  BY <1>25 DEF ConsumeFails, IInv, LockedByReconnect, LifeCycle, MissingIsReplaced,
    session, others, threads, env, api
<1>26. CASE Handled
  BY <1>26 DEF Handled, IInv, LockedByReconnect, LifeCycle, MissingIsReplaced,
    session, others, threads, env, api
<1>27. CASE ConnectionBreaks
  BY <1>27 DEF ConnectionBreaks, Broken, IInv, LockedByReconnect, LifeCycle,
    MissingIsReplaced, session, others, threads, env, api
<1>28. CASE BrokerDown
  BY <1>28 DEF BrokerDown, Broken, IInv, LockedByReconnect, LifeCycle,
    MissingIsReplaced, session, others, threads, env, api
<1>29. CASE BrokerUp
  BY <1>29 DEF BrokerUp, IInv, LockedByReconnect, LifeCycle, MissingIsReplaced,
    session, others, threads, env, api
<1>30. CASE UNCHANGED vars
  BY <1>30 DEF IInv, LockedByReconnect, LifeCycle, MissingIsReplaced, vars
<1> QED
  BY <1>1, <1>2, <1>3, <1>4, <1>5, <1>6, <1>7, <1>8, <1>9, <1>10, <1>11, <1>12, <1>13,
    <1>14, <1>15, <1>16, <1>17, <1>18, <1>19, <1>20, <1>21, <1>22, <1>23, <1>24, <1>25,
    <1>26, <1>27, <1>28, <1>29, <1>30 DEF Next, AppFinishes, UserSteps, TimerSteps,
    SendSteps, RecvSteps

\* A call leaves a working connection behind only if it succeeds on one, and only
\* then is its reply a normal one.
LEMMA CallOnOutcome ==
  ASSUME NEW conn, CallOn(conn)
  PROVE  \/ conn = "ok" /\ connection' = "ok" /\ last_reply' = "NORMAL"
         \/ connection' # "ok" /\ last_reply' # "NORMAL"
<1>1. PICK o \in CallOutcomes(conn) :
        connection' = o.connection /\ last_reply' = o.reply_type
  BY DEF CallOn
<1>2. CASE conn = "ok"
  BY <1>1, <1>2 DEF CallOutcomes, Outcome
<1>3. CASE conn # "ok"
  <2>1. o.connection # "ok" /\ o.reply_type # "NORMAL"
    BY <1>1, <1>3 DEF CallOutcomes, Outcome
  <2> QED BY <1>1, <2>1
<1> QED BY <1>2, <1>3

\* Every step keeps the consumer where the receive loop needs it.
LEMMA StepConsumer == IInv /\ [Next]_vars => (ConsumerIsThere /\ NeverSilentlyDeaf)'
<1> DEFINE Heard == ConsumerIsThere /\ NeverSilentlyDeaf
<1> SUFFICES ASSUME IInv, [Next]_vars PROVE Heard'
  OBVIOUS
<1>1. ASSUME NEW type \in ExchangeTypes, GetInstance(type) PROVE Heard'
  BY <1>1 DEF GetInstance, ExchangeTypes, IInv, LockedByReconnect, LifeCycle,
    MissingIsReplaced, ConsumerIsThere, NeverSilentlyDeaf, session, others, threads, env, api
<1>2. CASE InitConnection
  BY <1>2 DEF InitConnection, NewConnection, IInv, LockedByReconnect, LifeCycle,
    MissingIsReplaced, ConsumerIsThere, NeverSilentlyDeaf, session, others, threads, env, api
<1>3. CASE StopThreads
  BY <1>3 DEF StopThreads, IInv, LockedByReconnect, LifeCycle, MissingIsReplaced,
    ConsumerIsThere, NeverSilentlyDeaf, session, others, threads, env, api
<1>4. CASE StartThreads
  BY <1>4 DEF StartThreads, CallOn, CallOutcomes, Outcome, IInv, LockedByReconnect, LifeCycle,
    MissingIsReplaced, ConsumerIsThere, NeverSilentlyDeaf, session, others, threads, env, api
<1>5. CASE InitFails
  BY <1>5 DEF InitFails, Exceptions, IInv, LockedByReconnect, LifeCycle,
    MissingIsReplaced, ConsumerIsThere, NeverSilentlyDeaf, session, others, threads, env, api
<1>6. CASE Join
  BY <1>6 DEF Join, IInv, LockedByReconnect, LifeCycle, MissingIsReplaced,
    ConsumerIsThere, NeverSilentlyDeaf, session, others, threads, env, api
<1>7. CASE CloseConnection
  BY <1>7 DEF CloseConnection, NoConnection, IInv, LockedByReconnect, LifeCycle,
    MissingIsReplaced, ConsumerIsThere, NeverSilentlyDeaf, session, others, threads, env, api
<1>8. CASE LibraryCall
  <2>1. /\ \/ connection = "ok" /\ connection' = "ok" /\ last_reply' = "NORMAL"
           \/ connection' # "ok" /\ last_reply' # "NORMAL"
        /\ consuming' = (consuming /\ connection' # "refused") /\ recv' = recv
    BY <1>8, CallOnOutcome DEF LibraryCall, threads
  <2>2. ConsumerIsThere'
    BY <2>1, Zenon DEF IInv, ConsumerIsThere
  <2> QED BY <2>2, Zenon DEF ConsumerIsThere, NeverSilentlyDeaf
<1>9. CASE UserCheck
  BY <1>9 DEF UserCheck, IInv, LockedByReconnect, LifeCycle, MissingIsReplaced,
    ConsumerIsThere, NeverSilentlyDeaf, session, others, threads, env, api
<1>10. CASE UserSend
  BY <1>10 DEF UserSend, AfterPublish, IInv, LockedByReconnect, LifeCycle,
    MissingIsReplaced, ConsumerIsThere, NeverSilentlyDeaf, session, others, threads, env, api
<1>11. CASE TimerLoop
  BY <1>11 DEF TimerLoop, IInv, LockedByReconnect, LifeCycle, MissingIsReplaced,
    ConsumerIsThere, NeverSilentlyDeaf, session, others, threads, env, api
<1>12. CASE TimerSlept
  BY <1>12 DEF TimerSlept, IInv, LockedByReconnect, LifeCycle, MissingIsReplaced,
    ConsumerIsThere, NeverSilentlyDeaf, session, others, threads, env, api
<1>13. CASE SendLoop
  BY <1>13 DEF SendLoop, IInv, LockedByReconnect, LifeCycle, MissingIsReplaced,
    ConsumerIsThere, NeverSilentlyDeaf, session, others, threads, env, api
<1>14. CASE SendSlept
  BY <1>14 DEF SendSlept, IInv, LockedByReconnect, LifeCycle, MissingIsReplaced,
    ConsumerIsThere, NeverSilentlyDeaf, session, others, threads, env, api
<1>15. CASE SendCheck
  BY <1>15 DEF SendCheck, Sockfds, IInv, LockedByReconnect, LifeCycle,
    MissingIsReplaced, ConsumerIsThere, NeverSilentlyDeaf, session, others, threads, env, api
<1>16. CASE Restart
  <2>1. /\ \/ connection' = "ok" /\ last_reply' = "NORMAL"
           \/ connection' # "ok" /\ last_reply' # "NORMAL"
        /\ consuming' = (connection' = "ok")
    BY <1>16, CallOnOutcome DEF Restart
  <2>2. ConsumerIsThere'
    BY <2>1, Zenon DEF ConsumerIsThere
  <2> QED BY <2>2, Zenon DEF ConsumerIsThere, NeverSilentlyDeaf
<1>17. CASE ConsumeReply
  BY <1>17 DEF ConsumeReply, IInv, LockedByReconnect, LifeCycle, MissingIsReplaced,
    ConsumerIsThere, NeverSilentlyDeaf, session, others, threads, env, api
<1>18. CASE Backoff
  BY <1>18 DEF Backoff, IInv, LockedByReconnect, LifeCycle, MissingIsReplaced,
    ConsumerIsThere, NeverSilentlyDeaf, session, others, threads, env, api
<1>19. CASE ReconnectClose
  BY <1>19 DEF ReconnectClose, NoConnection, IInv, LockedByReconnect, LifeCycle,
    MissingIsReplaced, ConsumerIsThere, NeverSilentlyDeaf, session, others, threads, env, api
<1>20. CASE ReconnectOk
  BY <1>20 DEF ReconnectOk, CallOn, CallOutcomes, Outcome, IInv, LockedByReconnect, LifeCycle,
    MissingIsReplaced, ConsumerIsThere, NeverSilentlyDeaf, session, others, threads, env, api
<1>21. CASE ReconnectFails
  BY <1>21 DEF ReconnectFails, NewConnection, Exceptions, IInv, LockedByReconnect,
    LifeCycle, MissingIsReplaced, ConsumerIsThere, NeverSilentlyDeaf, session, others, threads,
    env, api
<1>22. CASE RecvLoop
  BY <1>22 DEF RecvLoop, IInv, LockedByReconnect, LifeCycle, MissingIsReplaced,
    ConsumerIsThere, NeverSilentlyDeaf, session, others, threads, env, api
<1>23. CASE HeartbeatReconnect
  BY <1>23 DEF HeartbeatReconnect, IInv, LockedByReconnect, LifeCycle,
    MissingIsReplaced, ConsumerIsThere, NeverSilentlyDeaf, session, others, threads, env, api
<1>24. CASE ConsumeMessage
  BY <1>24 DEF ConsumeMessage, IInv, LockedByReconnect, LifeCycle, MissingIsReplaced,
    ConsumerIsThere, NeverSilentlyDeaf, session, others, threads, env, api
<1>25. CASE ConsumeFails
  BY <1>25 DEF ConsumeFails, IInv, LockedByReconnect, LifeCycle, MissingIsReplaced,
    ConsumerIsThere, NeverSilentlyDeaf, session, others, threads, env, api
<1>26. CASE Handled
  BY <1>26 DEF Handled, IInv, LockedByReconnect, LifeCycle, MissingIsReplaced,
    ConsumerIsThere, NeverSilentlyDeaf, session, others, threads, env, api
<1>27. CASE ConnectionBreaks
  BY <1>27 DEF ConnectionBreaks, Broken, IInv, LockedByReconnect, LifeCycle,
    MissingIsReplaced, ConsumerIsThere, NeverSilentlyDeaf, session, others, threads, env, api
<1>28. CASE BrokerDown
  BY <1>28 DEF BrokerDown, Broken, IInv, LockedByReconnect, LifeCycle,
    MissingIsReplaced, ConsumerIsThere, NeverSilentlyDeaf, session, others, threads, env, api
<1>29. CASE BrokerUp
  BY <1>29 DEF BrokerUp, IInv, LockedByReconnect, LifeCycle, MissingIsReplaced,
    ConsumerIsThere, NeverSilentlyDeaf, session, others, threads, env, api
<1>30. CASE UNCHANGED vars
  BY <1>30 DEF IInv, LockedByReconnect, LifeCycle, MissingIsReplaced, ConsumerIsThere,
    NeverSilentlyDeaf, vars
<1> QED
  BY <1>1, <1>2, <1>3, <1>4, <1>5, <1>6, <1>7, <1>8, <1>9, <1>10, <1>11, <1>12, <1>13,
    <1>14, <1>15, <1>16, <1>17, <1>18, <1>19, <1>20, <1>21, <1>22, <1>23, <1>24, <1>25,
    <1>26, <1>27, <1>28, <1>29, <1>30 DEF Next, AppFinishes, UserSteps, TimerSteps,
    SendSteps, RecvSteps

\* The inductive invariant holds in every reachable state, whatever the threads,
\* the network and the broker do.
THEOREM Invariance == Spec => []IInv
<1>1. Init => IInv
  BY InitIInv
<1>2. IInv /\ [Next]_vars => IInv'
  BY StepTypeOK, StepLifeCycle, StepConsumer DEF IInv
<1> QED
  BY <1>1, <1>2, PTL DEF Spec

\* The variables of the session have their types.
THEOREM TypeCorrect == Spec => []TypeOK
<1>1. IInv => TypeOK
  BY DEF IInv
<1> QED
  BY <1>1, Invariance, PTL

\* The send thread and the receive thread never use a destroyed connection:
\* neither rabbitmq_free nor ReconnectProc destroys it under their hands.
THEOREM ServiceThreadsHaveConnectionHolds == Spec => []ServiceThreadsHaveConnection
<1>1. IInv => ServiceThreadsHaveConnection
  BY DEF IInv, TypeOK, LockedByReconnect, LifeCycle, MissingIsReplaced,
    ServiceThreadsHaveConnection
<1> QED
  BY <1>1, Invariance, PTL

\* SendRabbitmqMessage, which looks at the connection before it has the lock,
\* finds one once it has it, in every session that rabbitmq_init has completed and
\* rabbitmq_free has not ended, the first one or a later one.
THEOREM SendersHaveConnectionHolds == Spec => []SendersHaveConnection
<1>1. IInv => SendersHaveConnection
  BY DEF IInv, LockedByReconnect, MissingIsReplaced, SendersHaveConnection
<1> QED
  BY <1>1, Invariance, PTL

\* The receive loop listens without a consumer only while every send is reported
\* as failed, although the reply that lets it in may be that of another thread's
\* call, and whichever call the server refuses.
THEOREM NeverSilentlyDeafHolds == Spec => []NeverSilentlyDeaf
<1>1. IInv => NeverSilentlyDeaf
  BY DEF IInv
<1> QED
  BY <1>1, Invariance, PTL
-----------------------------------------------------------------------------
(* What the two dead ends of the life cycle amount to. *)

\* The receive thread that has run into its own lock (rabbitmqclient.cpp:697,
\* 703, 992) never goes on, the lock is never given back, and rabbitmq_free never returns.
StuckForever ==
  [][recv = "stuck" => /\ recv' = "stuck" /\ conn_mutex' = "recv"
                       /\ app = "join" => app' = "join"]_vars

\* No step of another thread, of the network or of the broker sets it free.
THEOREM StuckForeverHolds == Spec => StuckForever
<1>1. ASSUME IInv, Next, recv = "stuck"
      PROVE  recv' = "stuck" /\ conn_mutex' = "recv" /\ (app = "join" => app' = "join")
  <2>1. conn_mutex = "recv" /\ app \notin {"login", "close"}
    BY <1>1 DEF IInv, LockedByReconnect, LifeCycle
  <2>2. ~Restart /\ ~ReconnectClose /\ ~HeartbeatReconnect /\ ~ConsumeMessage /\ ~ConsumeFails
    BY <1>1 DEF Restart, ReconnectClose, HeartbeatReconnect, ConsumeMessage, ConsumeFails
  <2>3. ~ConsumeReply /\ ~Backoff /\ ~ReconnectOk /\ ~ReconnectFails /\ ~RecvLoop /\ ~Handled
    BY <1>1 DEF ConsumeReply, Backoff, ReconnectOk, ReconnectFails, RecvLoop, Handled
  <2>4. ~AppFinishes
    BY <1>1, <2>1 DEF AppFinishes, StartThreads, InitFails, Join, CloseConnection
  <2>5. ~LibraryCall /\ ~UserSend /\ ~SendCheck
    BY <2>1 DEF LibraryCall, UserSend, SendCheck
  <2>6. ASSUME \/ \E type \in ExchangeTypes : GetInstance(type)
               \/ InitConnection \/ StopThreads
        PROVE  UNCHANGED <<recv, conn_mutex>> /\ (app = "join" => app' = "join")
    BY <2>6 DEF GetInstance, InitConnection, StopThreads, session, threads
  <2>7. ASSUME UserCheck \/ TimerSteps \/ SendLoop \/ SendSlept
        PROVE  UNCHANGED <<recv, conn_mutex, app>>
    BY <2>7 DEF UserCheck, TimerSteps, TimerLoop, TimerSlept, SendLoop, SendSlept, session,
      threads
  <2>8. ASSUME ConnectionBreaks \/ BrokerDown \/ BrokerUp
        PROVE  UNCHANGED <<recv, conn_mutex, app>>
    BY <2>8 DEF ConnectionBreaks, BrokerDown, BrokerUp, session, threads
  <2> QED
    BY <1>1, <2>1, <2>2, <2>3, <2>4, <2>5, <2>6, <2>7, <2>8
    DEF Next, UserSteps, SendSteps, RecvSteps
<1> QED
  BY <1>1, Invariance, PTL DEF Spec, StuckForever

\* The last rabbitmq_init that had something to do returned false: it failed, or was
\* refused because a former one left its connection behind
\* (rabbitmqclient.cpp:963, 968).
InitFailed == result \in {"false", "refused"}

\* A connection that was not finished is in the way, and nobody clears it away:
\* no thread runs, and rabbitmq_free does nothing for want of initialized.
FailedIsUnusable == InitFailed => ~initialized /\ connection # "null" /\ app = "idle"

\* Once rabbitmq_init has failed, no later call of it succeeds.
FailedInitIsFinal == [][InitFailed => InitFailed' /\ ~initialized']_vars

\* Every step keeps a failed session unusable.
LEMMA FailedStaysUnusable ==
  ASSUME IInv, FailedIsUnusable, Next
  PROVE  FailedIsUnusable' /\ (InitFailed => InitFailed' /\ ~initialized')
<1> DEFINE Goal == FailedIsUnusable' /\ (InitFailed => InitFailed' /\ ~initialized')
<1>1. CASE InitFailed
  <2>1. ~initialized /\ connection # "null" /\ app = "idle"
    BY <1>1 DEF FailedIsUnusable
  <2>2. send = "none" /\ recv = "none" /\ timer = "none"
    BY <2>1 DEF IInv, LifeCycle
  <2>3. ~RecvSteps
    BY <2>2 DEF RecvSteps, Restart, ConsumeReply, Backoff, ReconnectClose, ReconnectOk,
      ReconnectFails, RecvLoop, HeartbeatReconnect, ConsumeMessage, ConsumeFails, Handled
  <2>4. ~SendSteps /\ ~TimerSteps /\ ~AppFinishes /\ ~StopThreads
    BY <2>1, <2>2 DEF SendSteps, SendLoop, SendSlept, SendCheck, TimerSteps, TimerLoop,
      TimerSlept, AppFinishes, StartThreads, InitFails, Join, CloseConnection, StopThreads
  <2>5. CASE InitConnection
    BY <2>1, <2>5 DEF InitConnection, FailedIsUnusable, InitFailed
  <2>6. ASSUME \/ \E type \in ExchangeTypes : GetInstance(type)
               \/ UserCheck \/ BrokerUp
        PROVE  UNCHANGED <<result, initialized, connection, app>>
    BY <2>6 DEF GetInstance, UserCheck, BrokerUp, session, threads, api
  <2>7. ASSUME LibraryCall \/ UserSend \/ ConnectionBreaks \/ BrokerDown
        PROVE  UNCHANGED <<result, initialized, app>> /\ connection' # "null"
    BY <2>1, <2>7 DEF LibraryCall, UserSend, ConnectionBreaks, BrokerDown, CallOn, CallOutcomes,
      Outcome,      AfterPublish, Broken, threads, api
  <2> QED
    BY <1>1, <2>1, <2>3, <2>4, <2>5, <2>6, <2>7 DEF Next, UserSteps, FailedIsUnusable, InitFailed
<1>2. CASE ~InitFailed
  <2>1. CASE InitConnection
    BY <1>2, <2>1 DEF InitConnection, FailedIsUnusable, InitFailed
  <2>2. CASE InitFails
    BY <1>2, <2>2 DEF InitFails, IInv, LifeCycle, FailedIsUnusable
  <2>3. CASE StartThreads
    BY <1>2, <2>3 DEF StartThreads, FailedIsUnusable, InitFailed
  <2>4. ASSUME UNCHANGED result PROVE Goal
    BY <1>2, <2>4 DEF FailedIsUnusable, InitFailed
  <2>5. ASSUME \/ \E type \in ExchangeTypes : GetInstance(type)
               \/ StopThreads \/ Join \/ CloseConnection \/ LibraryCall \/ UserSteps
        PROVE  UNCHANGED result
    BY <2>5 DEF GetInstance, StopThreads, Join, CloseConnection, LibraryCall, UserSteps,
      UserCheck, UserSend, api
  <2>6. ASSUME TimerSteps \/ SendSteps \/ ConnectionBreaks \/ BrokerDown \/ BrokerUp
        PROVE  UNCHANGED result
    BY <2>6 DEF TimerSteps, TimerLoop, TimerSlept, SendSteps, SendLoop, SendSlept, SendCheck,
      ConnectionBreaks, BrokerDown, BrokerUp, api
  <2>7. ASSUME RecvSteps PROVE UNCHANGED result
    BY <2>7 DEF RecvSteps, Restart, ConsumeReply, Backoff, ReconnectClose, ReconnectOk,
      ReconnectFails, RecvLoop, HeartbeatReconnect, ConsumeMessage, ConsumeFails, Handled, api
  <2> QED
    BY <2>1, <2>2, <2>3, <2>4, <2>5, <2>6, <2>7 DEF Next, AppFinishes
<1> QED
  BY <1>1, <1>2

\* A singleton whose rabbitmq_init failed once stays unusable: every retry is
\* refused, and no thread of it ever runs.
THEOREM FailedInitIsFinalHolds == Spec => FailedInitIsFinal
<1>1. Init => FailedIsUnusable
  BY DEF Init, FailedIsUnusable, InitFailed
<1>2. ASSUME IInv, FailedIsUnusable, [Next]_vars
      PROVE  FailedIsUnusable' /\ [InitFailed => InitFailed' /\ ~initialized']_vars
  <2>1. CASE Next
    BY <1>2, <2>1, FailedStaysUnusable
  <2>2. CASE UNCHANGED vars
    BY <1>2, <2>2 DEF vars, FailedIsUnusable, InitFailed
  <2> QED BY <1>2, <2>1, <2>2
<1> QED
  BY <1>1, <1>2, Invariance, PTL DEF Spec, FailedInitIsFinal
=============================================================================
