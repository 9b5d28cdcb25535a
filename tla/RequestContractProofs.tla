----------------------- MODULE RequestContractProofs -----------------------
(***************************************************************************)
(* Proof that RequestTimers implements RequestContract: every step of the  *)
(* threads on the vector is a step of the contract, or changes nothing the *)
(* contract speaks of.                                                     *)
(***************************************************************************)
EXTENDS RequestTimersProofs

\* Some call has taken the id and is about to add its task.
Adding(r) == \E c \in Callers : call[c].pc = "add" /\ call[c].rid = r

\* The phase of every request, as the contract sees it.
PhaseMap == [r \in Rids |-> Phase(r)]

-----------------------------------------------------------------------------
\* Phases.

\* The cases of Phase, one by one.
PhaseIs(r) ==
  /\ r >= next_timer_id => Phase(r) = "unused"
  /\ r < next_timer_id /\ Adding(r) => Phase(r) = "reserved"
  /\ r \in Ids /\ ~Fired(r) => Phase(r) = "pending"
  /\ r < next_timer_id /\ ~Adding(r) /\ ~(r \in Ids /\ ~Fired(r)) => Phase(r) = "closed"
PhasesAreCases == \A r \in Rids : PhaseIs(r)

LEMMA PhaseCases == IInv => PhasesAreCases
<1> SUFFICES ASSUME IInv, NEW r \in Rids PROVE PhaseIs(r)
  BY DEF PhasesAreCases
<1>1. next_timer_id \in Int /\ r \in Int
  BY ConstantsAssumption DEF IInv, Types, Rids
<1>2. r \in Ids => r < next_timer_id /\ ~Adding(r)
  BY <1>1 DEF IInv, FreshIsUntouched, Fresh, Adding
<1> QED BY <1>1, <1>2 DEF Phase, Adding, PhaseIs

\* The same after a step.
LEMMA PhaseCasesNext == IInv' => PhasesAreCases'
BY PhaseCases, PTL

\* What Phase depends on.
LEMMA SamePhase ==
  ASSUME IInv, IInv', NEW r \in Rids,
         r >= next_timer_id' <=> r >= next_timer_id,
         Adding(r)' <=> Adding(r),
         r \in Ids' /\ ~Fired(r)' <=> r \in Ids /\ ~Fired(r)
  PROVE  Phase(r)' = Phase(r)
<1>1. next_timer_id \in Int /\ next_timer_id' \in Int /\ r \in Int
  BY ConstantsAssumption DEF IInv, Types, Rids
<1> QED BY <1>1, PhaseCases, PhaseCasesNext DEF PhasesAreCases, PhaseIs

LEMMA PhasesStay ==
  ASSUME \A r \in Rids : Phase(r)' = Phase(r)
  PROVE  PhaseMap' = PhaseMap
BY DEF PhaseMap

LEMMA OnePhaseMoves ==
  ASSUME NEW q \in Rids, NEW to, Phase(q)' = to,
         \A r \in Rids \ {q} : Phase(r)' = Phase(r)
  PROVE  PhaseMap' = [PhaseMap EXCEPT ![q] = to]
BY DEF PhaseMap

\* The task of a call: registered once it is past the reservation.
LEMMA CallPhase ==
  ASSUME IInv, NEW c \in Callers, call[c].pc # "idle"
  PROVE  /\ call[c].rid \in Rids /\ call[c].rid < next_timer_id
         /\ call[c].pc = "add" => Phase(call[c].rid) = "reserved"
         /\ call[c].pc # "add" => /\ ~Adding(call[c].rid)
                                  /\ Phase(call[c].rid) \in {"pending", "closed"}
<1>1. call[c].rid \in Rids /\ call[c].rid < next_timer_id
  BY ConstantsAssumption DEF IInv, Types, CallsApart, Rids
<1>2. call[c].pc = "add" => Adding(call[c].rid)
  BY DEF Adding
<1>3. call[c].pc # "add" => ~Adding(call[c].rid)
  BY DEF Adding, IInv, CallsApart
<1> QED BY <1>1, <1>2, <1>3, PhaseCases DEF PhasesAreCases, PhaseIs

\* While the timer thread sleeps, or has not reported anything, no task is fired.
LEMMA NotFired ==
  ASSUME sweep.pc # "fired"
  PROVE  \A r \in Rids : ~Fired(r)
BY DEF Fired

\* What the map of phases says of one request.
LEMMA PhaseMapAt ==
  ASSUME NEW r \in Rids
  PROVE  PhaseMap[r] = Phase(r)
BY DEF PhaseMap

\* A response that was matched carries a rid that has left its reservation.
LEMMA FoundAreRids ==
  ASSUME IInv, recv.pc \in {"found", "settle"}
  PROVE  recv.rid \in Rids /\ recv.rid < next_timer_id /\ ~Adding(recv.rid)
<1>1. recv.rid \in Rids /\ ~Fresh(recv.rid)
  BY DEF IInv, FoundWasRegistered
<1>2. recv.rid \in Int /\ next_timer_id \in Int
  BY <1>1, ConstantsAssumption DEF IInv, Types, Rids
<1> QED BY <1>1, <1>2 DEF Fresh, Adding

\* p2pRestartTimerTask moves the expiry of a task and nothing else.
LEMMA RestartKeepsIds ==
  ASSUME Types, UniqueIds, NEW id, timer_tasks' = Restarted(id)
  PROVE  Ids' = Ids
<1>1. DOMAIN timer_tasks' = DOMAIN timer_tasks
  BY DEF Restarted
<1>2. ASSUME NEW i \in DOMAIN timer_tasks PROVE timer_tasks'[i].id = timer_tasks[i].id
  <2>1. timer_tasks[i] \in Task
    BY TaskAt
  <2>2. \/ timer_tasks'[i] = timer_tasks[i]
        \/ timer_tasks'[i] = [timer_tasks[i] EXCEPT !.left = timer_tasks[i].interval]
    BY DEF Restarted
  <2> QED BY <2>1, <2>2 DEF Task
<1> QED BY <1>1, <1>2, SameIds

-----------------------------------------------------------------------------
\* The steps of the callers.

LEMMA ReqTimerIdReserves ==
  ASSUME IInv, IInv', NEW c \in Callers, NewCall(c)
  PROVE  Contract!Next
<1>1. PICK k \in Kinds, t \in Timeouts : ReqTimerId(c, k, t)
  BY DEF NewCall
<1> PICK q : q = next_timer_id
  OBVIOUS
<1>2. /\ q \in Rids /\ q \in Int /\ q >= q /\ next_timer_id' = q + 1
      /\ call[c].pc = "idle"
      /\ call'[c].pc = "add" /\ call'[c].rid = q
      /\ \A d \in Callers \ {c} : call'[d] = call[d]
      /\ UNCHANGED <<timer_tasks, recv, sweep, ret, timeouts, finals>>
  BY <1>1, ConstantsAssumption DEF ReqTimerId, IInv, Types, Rids, history
<1>3. Phase(q) = "unused"
  BY <1>2, PhaseCases DEF PhasesAreCases, PhaseIs
<1>4. Phase(q)' = "reserved"
  <2>1. Adding(q)' /\ q < next_timer_id'
    BY <1>2 DEF Adding
  <2> QED BY <1>2, <2>1, PhaseCasesNext DEF PhasesAreCases, PhaseIs
<1>5. ASSUME NEW r \in Rids \ {q} PROVE Phase(r)' = Phase(r)
  <2>1. r >= next_timer_id' <=> r >= next_timer_id
    BY <1>2 DEF Rids
  <2>2. Adding(r)' <=> Adding(r)
    BY <1>2 DEF Adding
  <2>3. r \in Ids' /\ ~Fired(r)' <=> r \in Ids /\ ~Fired(r)
    BY <1>2 DEF Ids, Fired, IsCurrent
  <2> QED BY <2>1, <2>2, <2>3, SamePhase
<1>6. PhaseMap' = [PhaseMap EXCEPT ![q] = "reserved"]
  BY <1>2, <1>4, <1>5, OnePhaseMoves
<1>7. Answer' = Answer
  BY <1>2 DEF Answer
<1>8. Contract!Reserve(q)
  BY <1>2, <1>3, <1>6, <1>7, PhaseMapAt DEF Contract!Reserve, Contract!Move, PhaseMap
<1> QED BY <1>2, <1>8 DEF Contract!Next

LEMMA AddTimerTaskRegisters ==
  ASSUME IInv, IInv', NEW c \in Callers, AddTimerTask(c)
  PROVE  Contract!Next
<1> PICK q : q = call[c].rid
  OBVIOUS
<1> DEFINE t == [id |-> q, kind |-> call[c].kind,
                 interval |-> call[c].interval, left |-> call[c].interval]
<1>1. /\ call[c] \in Call /\ call[c].pc = "add" /\ q \in Rids
      /\ q < next_timer_id /\ Phase(q) = "reserved"
  BY CallPhase DEF AddTimerTask, IInv, Types
<1>2. /\ call'[c].pc = "send" /\ call'[c].rid = q
      /\ \A d \in Callers \ {c} : call'[d] = call[d]
      /\ next_timer_id' = next_timer_id
      /\ timer_tasks' = Append(timer_tasks, t)
      /\ sweep.pc = "sleep" /\ sweep' = sweep
      /\ UNCHANGED <<ret, timeouts, finals>>
  BY <1>1 DEF AddTimerTask, IInv, Types, TimerMutexFree, history, Call
<1>3. t \in Task /\ t.id = q /\ q \notin Ids
  BY <1>1 DEF Task, Call, IInv, FreshIsUntouched, Fresh
<1> HIDE DEF t
<1>4. Ids' = Ids \cup {q}
  BY <1>2, <1>3, AppendTask DEF IInv
<1>5. ~Fired(q) /\ \A r \in Rids : ~Fired(r) /\ ~Fired(r)'
  BY <1>1, <1>2 DEF Fired
<1>6. Phase(q)' = "pending"
  BY <1>1, <1>4, <1>5, PhaseCasesNext DEF PhasesAreCases, PhaseIs
<1>7. ASSUME NEW r \in Rids \ {q} PROVE Phase(r)' = Phase(r)
  <2>1. Adding(r)' <=> Adding(r)
    BY <1>1, <1>2 DEF Adding
  <2> QED BY <1>2, <1>4, <1>5, <2>1, SamePhase
<1>8. PhaseMap' = [PhaseMap EXCEPT ![q] = "pending"]
  BY <1>1, <1>6, <1>7, OnePhaseMoves
<1>9. Answer' = Answer
  <2>1. recv \in Recv /\ (recv' = [recv EXCEPT !.ptr = 0] \/ recv' = recv)
    BY DEF AddTimerTask, IInv, Types
  <2>2. recv'.pc = recv.pc /\ recv'.type = recv.type /\ recv'.rid = recv.rid
    BY ONLY <2>1 DEF Recv
  <2> QED BY <2>2 DEF Answer
<1>10. Contract!Register(q)
  BY <1>1, <1>2, <1>8, <1>9, PhaseMapAt DEF Contract!Register, Contract!Move, PhaseMap
<1> QED BY <1>1, <1>10 DEF Contract!Next

\* A step of a call that is past the reservation and leaves the tasks alone.
LEMMA CallStepKeepsPhases ==
  ASSUME IInv, IInv', NEW c \in Callers, call[c].pc # "add", call'[c].pc # "add",
         \A d \in Callers \ {c} : call'[d] = call[d],
         UNCHANGED <<next_timer_id, timer_tasks, sweep>>
  PROVE  PhaseMap' = PhaseMap
<1>1. ASSUME NEW r \in Rids PROVE Phase(r)' = Phase(r)
  <2>1. Adding(r)' <=> Adding(r)
    BY DEF Adding
  <2>2. r \in Ids' /\ ~Fired(r)' <=> r \in Ids /\ ~Fired(r)
    BY DEF Ids, Fired, IsCurrent
  <2> QED BY <2>1, <2>2, SamePhase
<1> QED BY <1>1, PhasesStay

LEMMA SendingStutters ==
  ASSUME IInv, IInv', NEW c \in Callers, SendReportsFailure(c)
  PROVE  UNCHANGED Contract!vars
<1>1. /\ call[c].pc = "send" /\ call'[c].pc # "add"
      /\ \A d \in Callers \ {c} : call'[d] = call[d]
      /\ UNCHANGED <<next_timer_id, timer_tasks, recv, sweep, ret, timeouts, finals>>
  BY DEF SendReportsFailure, IInv, Types, history
<1>2. PhaseMap' = PhaseMap
  BY <1>1, CallStepKeepsPhases
<1>3. Answer' = Answer
  BY <1>1 DEF Answer
<1> QED BY <1>1, <1>2, <1>3 DEF Contract!vars, PhaseMap

LEMMA ReturnOkAccepts ==
  ASSUME IInv, IInv', NEW c \in Callers, ReturnOk(c)
  PROVE  Contract!Next
<1> PICK q : q = call[c].rid
  OBVIOUS
<1>1. /\ call[c].pc = "send" /\ call'[c].pc = "idle"
      /\ \A d \in Callers \ {c} : call'[d] = call[d]
      /\ ret' = [ret EXCEPT ![q] = "ok"]
      /\ UNCHANGED <<next_timer_id, timer_tasks, recv, sweep, timeouts, finals>>
  BY DEF ReturnOk, IInv, Types, IdleCall
<1>2. q \in Rids /\ Phase(q) \in {"pending", "closed"} /\ ret[q] = "none"
  BY <1>1, CallPhase DEF IInv, CallsApart
<1>3. PhaseMap' = PhaseMap /\ Answer' = Answer
  BY <1>1, CallStepKeepsPhases DEF Answer
<1>4. Contract!Accept(q)
  BY <1>1, <1>2, <1>3, PhaseMapAt DEF Contract!Accept, PhaseMap
<1> QED BY <1>2, <1>4 DEF Contract!Next

LEMMA UndoTimerTaskRefuses ==
  ASSUME IInv, IInv', NEW c \in Callers, UndoTimerTask(c)
  PROVE  Contract!Next
<1> PICK q : q = call[c].rid
  OBVIOUS
<1>1. /\ call[c].pc = "undo" /\ call'[c].pc = "idle"
      /\ \A d \in Callers \ {c} : call'[d] = call[d]
      /\ ret' = [ret EXCEPT ![q] = "failed"]
      /\ timer_tasks' = WithoutTask(q)
      /\ sweep.pc = "sleep"
      /\ UNCHANGED <<next_timer_id, recv, sweep, timeouts, finals>>
  BY DEF UndoTimerTask, IInv, Types, IdleCall, TimerMutexFree
<1>2. /\ q \in Rids /\ q < next_timer_id /\ ~Adding(q)
      /\ Phase(q) \in {"pending", "closed"} /\ ret[q] = "none"
  BY <1>1, CallPhase DEF IInv, CallsApart
<1>3. Ids' = Ids \ {q}
  BY <1>1, WithoutTaskErases DEF IInv
<1>4. \A r \in Rids : ~Fired(r) /\ ~Fired(r)'
  BY <1>1 DEF Fired
<1>5. \A r \in Rids : Adding(r)' <=> Adding(r)
  BY <1>1 DEF Adding
<1>6. Phase(q)' = "closed"
  BY <1>1, <1>2, <1>3, <1>5, PhaseCasesNext DEF PhasesAreCases, PhaseIs
<1>7. ASSUME NEW r \in Rids \ {q} PROVE Phase(r)' = Phase(r)
  BY <1>1, <1>3, <1>4, <1>5, SamePhase
<1>8. PhaseMap' = [PhaseMap EXCEPT ![q] = "closed"]
  BY <1>2, <1>6, <1>7, OnePhaseMoves
<1>9. Answer' = Answer
  BY <1>1 DEF Answer
<1>10. Contract!Refuse(q)
  BY <1>1, <1>2, <1>8, <1>9, PhaseMapAt DEF Contract!Refuse, PhaseMap
<1> QED BY <1>2, <1>10 DEF Contract!Next

-----------------------------------------------------------------------------
\* The steps of the receive thread.

\* A step that touches neither the calls nor the vector nor the pass.
LEMMA ReceiverKeepsPhases ==
  ASSUME IInv, IInv', UNCHANGED <<next_timer_id, call, timer_tasks, sweep>>
  PROVE  PhaseMap' = PhaseMap
<1>1. ASSUME NEW r \in Rids PROVE Phase(r)' = Phase(r)
  <2>1. Adding(r)' <=> Adding(r)
    BY DEF Adding
  <2>2. r \in Ids' /\ ~Fired(r)' <=> r \in Ids /\ ~Fired(r)
    BY DEF Ids, Fired, IsCurrent
  <2> QED BY <2>1, <2>2, SamePhase
<1> QED BY <1>1, PhasesStay

LEMMA ArrivalStutters ==
  ASSUME IInv, IInv', Arrival
  PROVE  UNCHANGED Contract!vars
<1>1. /\ recv.pc = "idle" /\ recv'.pc \in {"idle", "lookup"}
      /\ UNCHANGED <<next_timer_id, timer_tasks, call, sweep, ret, timeouts, finals>>
  BY DEF Arrival, ReceiveReply, history
<1>2. PhaseMap' = PhaseMap
  BY <1>1, ReceiverKeepsPhases
<1>3. Answer' = Answer
  BY <1>1 DEF Answer
<1> QED BY <1>1, <1>2, <1>3 DEF Contract!vars, PhaseMap

LEMMA LookupTakes ==
  ASSUME IInv, IInv', GetTimerTaskInfo
  PROVE  Contract!Next \/ UNCHANGED Contract!vars
<1>1. /\ recv.pc = "lookup" /\ sweep.pc = "sleep" /\ recv \in Recv
      /\ UNCHANGED <<next_timer_id, timer_tasks, call, sweep, ret, timeouts, finals>>
  BY DEF GetTimerTaskInfo, TimerMutexFree, IInv, Types, history
<1>2. PhaseMap' = PhaseMap
  BY <1>1, ReceiverKeepsPhases
<1>3. Answer = Contract!NoAnswer
  BY <1>1 DEF Answer, Contract!NoAnswer
<1>4. CASE recv.rid \notin Ids
  <2>1. recv' = IdleRecv
    BY <1>4 DEF GetTimerTaskInfo
  <2>2. Answer' = Answer
    BY <1>1, <2>1 DEF Answer, IdleRecv
  <2> QED BY <1>1, <1>2, <2>2 DEF Contract!vars, PhaseMap
<1>5. CASE recv.rid \in Ids
  <2> PICK q, t : q = recv.rid /\ t = recv.type
    OBVIOUS
  <2>1. q \in Rids /\ t \in {"temp", "final"}
    BY <1>1 DEF IInv, FoundWasRegistered, Recv, ReplyTypes
  <2>2. Phase(q) = "pending"
    BY <1>1, <1>5, <2>1, NotFired, PhaseCases DEF PhasesAreCases, PhaseIs
  <2>3. recv'.pc = "found" /\ recv'.rid = q /\ recv'.type = t
    BY <1>1, <1>5 DEF GetTimerTaskInfo, Recv
  <2>4. Answer' = [request |-> q, type |-> t, told |-> FALSE]
    BY <2>3 DEF Answer
  <2>5. Contract!Take(q, t)
    BY <1>1, <1>2, <1>3, <2>1, <2>2, <2>4, PhaseMapAt DEF Contract!Take, PhaseMap
  <2> QED BY <2>1, <2>5 DEF Contract!Next
<1> QED BY <1>4, <1>5

LEMMA ToldExcept ==
  ASSUME NEW q, NEW t, NEW b, NEW d
  PROVE  [[request |-> q, type |-> t, told |-> b] EXCEPT !.told = d]
           = [request |-> q, type |-> t, told |-> d]
OBVIOUS

LEMMA DispatchTells ==
  ASSUME IInv, IInv', Dispatch
  PROVE  Contract!Next
<1> PICK q, t : q = recv.rid /\ t = recv.type
  OBVIOUS
<1>1. /\ recv.pc = "found" /\ recv \in Recv /\ q \in Rids
      /\ UNCHANGED <<next_timer_id, timer_tasks, call, sweep, ret, timeouts>>
  BY FoundAreRids DEF Dispatch, IInv, Types
<1>2. recv' = [recv EXCEPT !.pc = "settle"]
  BY DEF Dispatch
<1>3. recv'.pc = "settle" /\ recv'.rid = q /\ recv'.type = t
  BY <1>1, <1>2 DEF Recv
<1>4. /\ Answer = [request |-> q, type |-> t, told |-> FALSE]
      /\ Answer' = [request |-> q, type |-> t, told |-> TRUE]
  BY <1>1, <1>3 DEF Answer
<1>5. (t = "final" /\ finals' = [finals EXCEPT ![q] = @ + 1]) \/ finals' = finals
  BY DEF Dispatch
<1>6. PhaseMap' = PhaseMap
  BY <1>1, ReceiverKeepsPhases
<1>7. q # NoRid
  BY <1>1, ConstantsAssumption DEF Rids, NoRid
<1>8. Contract!Tell
  <2>1. /\ Answer.request = q /\ ~Answer.told /\ Answer.type = t
        /\ Answer' = [Answer EXCEPT !.told = TRUE]
    <3>1. Answer.request = q /\ Answer.type = t /\ Answer.told = FALSE
      BY <1>4
    <3> PICK b, d : b = FALSE /\ d = TRUE
      OBVIOUS
    <3>2. /\ Answer = [request |-> q, type |-> t, told |-> b]
          /\ Answer' = [request |-> q, type |-> t, told |-> d]
      BY <1>4
    <3>3. Answer' = [Answer EXCEPT !.told = d]
      BY ONLY <3>2, ToldExcept, SMT
    <3> QED BY <3>1, <3>3, Zenon
  <2>2. Answer.request # NoRid /\ UNCHANGED <<PhaseMap, ret, timeouts>>
    BY <1>1, <1>6, <1>7, <2>1
  <2>3. \/ Answer.type = "final" /\ finals' = [finals EXCEPT ![Answer.request] = @ + 1]
        \/ UNCHANGED finals
    BY <1>5, <2>1
  <2> QED BY <2>1, <2>2, <2>3 DEF Contract!Tell, PhaseMap
<1> QED BY <1>8 DEF Contract!Next

LEMMA SettleFinishes ==
  ASSUME IInv, IInv', Settle
  PROVE  Contract!Next
<1> PICK q, t : q = recv.rid /\ t = recv.type
  OBVIOUS
<1>1. /\ recv.pc = "settle" /\ recv \in Recv /\ q \in Rids /\ q < next_timer_id /\ ~Adding(q)
      /\ sweep.pc = "sleep" /\ recv' = IdleRecv
      /\ UNCHANGED <<next_timer_id, call, sweep, ret, timeouts, finals>>
  BY FoundAreRids DEF Settle, IInv, Types, TimerMutexFree
<1>2. /\ Answer = [request |-> q, type |-> t, told |-> TRUE]
      /\ Answer' = Contract!NoAnswer
  BY <1>1 DEF Answer, IdleRecv, Contract!NoAnswer
<1>3. \A r \in Rids : ~Fired(r) /\ ~Fired(r)'
  BY <1>1 DEF Fired
<1>4. \A r \in Rids : Adding(r)' <=> Adding(r)
  BY <1>1 DEF Adding
<1>5. CASE t = "temp"
  <2>1. Ids' = Ids
    BY <1>5, RestartKeepsIds DEF Settle, IInv
  <2>2. PhaseMap' = PhaseMap
    BY <1>1, <1>3, <1>4, <2>1, SamePhase, PhasesStay
  <2>3. Contract!Finish
    BY <1>1, <1>2, <1>5, <2>2 DEF Contract!Finish, PhaseMap
  <2> QED BY <2>3 DEF Contract!Next
<1>6. CASE t = "final"
  <2>1. timer_tasks' = WithoutTask(recv.rid)
    BY <1>6 DEF Settle
  <2>2. Ids' = Ids \ {q}
    BY <2>1, WithoutTaskErases DEF IInv
  <2>3. Phase(q)' = "closed"
    BY <1>1, <1>4, <2>2, PhaseCasesNext DEF PhasesAreCases, PhaseIs
  <2>4. ASSUME NEW r \in Rids \ {q} PROVE Phase(r)' = Phase(r)
    BY <1>1, <1>3, <1>4, <2>2, SamePhase
  <2>5. PhaseMap' = [PhaseMap EXCEPT ![q] = "closed"]
    BY <1>1, <2>3, <2>4, OnePhaseMoves
  <2>6. Contract!Finish
    BY <1>1, <1>2, <1>6, <2>5 DEF Contract!Finish, PhaseMap
  <2> QED BY <2>6 DEF Contract!Next
<1> QED BY <1>1, <1>5, <1>6 DEF Recv, ReplyTypes

-----------------------------------------------------------------------------
\* The steps of the timer thread, and time.

LEMMA SweepBoundsStutter ==
  ASSUME IInv, IInv', StartSweep \/ EndSweep
  PROVE  UNCHANGED Contract!vars
<1>1. /\ sweep.pc # "fired" /\ sweep'.pc # "fired"
      /\ UNCHANGED <<next_timer_id, timer_tasks, call, recv, ret, timeouts, finals>>
  BY DEF StartSweep, EndSweep, Asleep, history
<1>2. ASSUME NEW r \in Rids PROVE Phase(r)' = Phase(r)
  <2>1. (Adding(r)' <=> Adding(r)) /\ Ids' = Ids /\ ~Fired(r) /\ ~Fired(r)'
    BY <1>1 DEF Adding, Ids, Fired
  <2> QED BY <1>1, <2>1, SamePhase
<1>3. PhaseMap' = PhaseMap
  BY <1>2, PhasesStay
<1>4. Answer' = Answer
  BY <1>1 DEF Answer
<1> QED BY <1>1, <1>3, <1>4 DEF Contract!vars, PhaseMap

LEMMA TimeoutProcExpires ==
  ASSUME IInv, IInv', TimeoutProc
  PROVE  Contract!Next
<1>1. PICK i \in DOMAIN timer_tasks :
        /\ IsCurrent(i)
        /\ \/ timeouts' = timeouts
           \/ timeouts' = [timeouts EXCEPT ![timer_tasks[i].id] = @ + 1]
  BY DEF TimeoutProc
<1> PICK q : q = timer_tasks[i].id
  OBVIOUS
<1>2. /\ sweep.pc = "scan" /\ sweep'.pc = "fired" /\ sweep'.marked = sweep.marked
      /\ UNCHANGED <<next_timer_id, timer_tasks, call, recv, ret, finals>>
  BY DEF TimeoutProc, IInv, Types, Sweep
<1>3. Types /\ UniqueIds
  BY DEF IInv
<1>4. q \in Rids /\ q \in Ids /\ Ids' = Ids
  BY <1>2, <1>3, TaskAt DEF Ids
<1>5. \A r \in Rids : ~Fired(r)
  BY <1>2, NotFired
<1>6. \A j \in DOMAIN timer_tasks : IsCurrent(j)' <=> IsCurrent(j)
  BY <1>2 DEF IsCurrent
<1>7. \A r \in Rids : Fired(r)' <=> r = q
  <2>1. Fired(q)'
    BY <1>1, <1>2, <1>6 DEF Fired
  <2>2. ASSUME NEW r \in Rids, Fired(r)' PROVE r = q
    <3>1. PICK j \in DOMAIN timer_tasks : IsCurrent(j)' /\ timer_tasks'[j].id = r
      BY <1>2, <2>2 DEF Fired
    <3>2. j = i
      BY <1>1, <1>3, <1>6, <3>1, CurrentIsUnique
    <3> QED BY <1>2, <3>1, <3>2
  <2> QED BY <2>1, <2>2
<1>8. \A r \in Rids : Adding(r)' <=> Adding(r)
  BY <1>2 DEF Adding
<1>9. Phase(q) = "pending"
  BY <1>4, <1>5, PhaseCases DEF PhasesAreCases, PhaseIs
<1>10. q < next_timer_id /\ ~Adding(q)
  <2>1. ~Fresh(q)
    BY <1>4 DEF IInv, FreshIsUntouched
  <2>2. q \in Int /\ next_timer_id \in Int
    BY <1>3, <1>4, ConstantsAssumption DEF Types, Rids
  <2> QED BY <2>1, <2>2 DEF Fresh, Adding
<1>11. Phase(q)' = "closed"
  BY <1>2, <1>4, <1>7, <1>8, <1>10, PhaseCasesNext DEF PhasesAreCases, PhaseIs
<1>12. ASSUME NEW r \in Rids \ {q} PROVE Phase(r)' = Phase(r)
  BY <1>2, <1>4, <1>5, <1>7, <1>8, SamePhase
<1>13. PhaseMap' = [PhaseMap EXCEPT ![q] = "closed"]
  BY <1>4, <1>11, <1>12, OnePhaseMoves
<1>14. Answer' = Answer
  BY <1>2 DEF Answer
<1>15. Contract!Expire(q)
  BY <1>1, <1>2, <1>4, <1>9, <1>13, <1>14, PhaseMapAt
     DEF Contract!Expire, Contract!Move, PhaseMap
<1> QED BY <1>4, <1>15 DEF Contract!Next

LEMMA EraseExpiredStutters ==
  ASSUME IInv, IInv', EraseExpired
  PROVE  UNCHANGED Contract!vars
<1>1. PICK i \in DOMAIN timer_tasks :
        IsCurrent(i) /\ timer_tasks' = RemoveAt(timer_tasks, i)
  BY DEF EraseExpired
<1> PICK q : q = timer_tasks[i].id
  OBVIOUS
<1>2. /\ sweep.pc = "fired" /\ sweep'.pc = "scan"
      /\ UNCHANGED <<next_timer_id, call, recv, ret, timeouts, finals>>
  BY DEF EraseExpired, IInv, Types, Sweep, history
<1>3. Types /\ UniqueIds
  BY DEF IInv
<1>4. Ids' = Ids \ {q}
  BY <1>1, <1>3, EraseAt
<1>5. \A r \in Rids : Fired(r) <=> r = q
  <2>1. ASSUME NEW r \in Rids, Fired(r) PROVE r = q
    <3>1. PICK j \in DOMAIN timer_tasks : IsCurrent(j) /\ timer_tasks[j].id = r
      BY <2>1 DEF Fired
    <3> QED BY <1>1, <1>3, <3>1, CurrentIsUnique
  <2>2. Fired(q)
    BY <1>1, <1>2 DEF Fired
  <2> QED BY <2>1, <2>2
<1>6. \A r \in Rids : ~Fired(r)'
  BY <1>2 DEF Fired
<1>7. ASSUME NEW r \in Rids PROVE Phase(r)' = Phase(r)
  <2>1. Adding(r)' <=> Adding(r)
    BY <1>2 DEF Adding
  <2> QED BY <1>2, <1>4, <1>5, <1>6, <2>1, SamePhase
<1>8. PhaseMap' = PhaseMap
  BY <1>7, PhasesStay
<1>9. Answer' = Answer
  BY <1>2 DEF Answer
<1> QED BY <1>2, <1>8, <1>9 DEF Contract!vars, PhaseMap

LEMMA TickStutters ==
  ASSUME IInv, IInv', Tick
  PROVE  UNCHANGED Contract!vars
<1>1. UNCHANGED <<next_timer_id, call, recv, sweep, ret, timeouts, finals>>
  BY DEF Tick, history
<1>2. Types /\ UniqueIds
  BY DEF IInv
<1>3. /\ DOMAIN timer_tasks' = DOMAIN timer_tasks
      /\ \A i \in DOMAIN timer_tasks : timer_tasks'[i].id = timer_tasks[i].id
  <2>1. ASSUME NEW i \in DOMAIN timer_tasks PROVE timer_tasks'[i].id = timer_tasks[i].id
    <3>1. timer_tasks[i] \in Task
      BY <1>2, TaskAt
    <3>2. \E n : timer_tasks'[i] = [timer_tasks[i] EXCEPT !.left = n]
      BY DEF Tick
    <3> QED BY <3>1, <3>2 DEF Task
  <2> QED BY <2>1 DEF Tick
<1>4. Ids' = Ids
  BY <1>2, <1>3, SameIds
<1>5. DOMAIN timer_tasks = 1 .. Len(timer_tasks) /\ Len(timer_tasks) \in Nat
  BY <1>2 DEF Types
<1>6. \A i \in DOMAIN timer_tasks : \A j \in 1 .. (i - 1) : j \in DOMAIN timer_tasks
  BY <1>5
<1>7. \A i \in DOMAIN timer_tasks : IsCurrent(i)' <=> IsCurrent(i)
  BY <1>1, <1>3, <1>6 DEF IsCurrent
<1>8. ASSUME NEW r \in Rids PROVE Phase(r)' = Phase(r)
  <2>1. Fired(r)' <=> Fired(r)
    BY <1>1, <1>3, <1>7 DEF Fired
  <2>2. Adding(r)' <=> Adding(r)
    BY <1>1 DEF Adding
  <2> QED BY <1>1, <1>4, <2>1, <2>2, SamePhase
<1>9. PhaseMap' = PhaseMap
  BY <1>8, PhasesStay
<1>10. Answer' = Answer
  BY <1>1 DEF Answer
<1> QED BY <1>1, <1>9, <1>10 DEF Contract!vars, PhaseMap

-----------------------------------------------------------------------------
\* The refinement.

LEMMA InitMaps == Init => Contract!Init
<1> SUFFICES ASSUME Init PROVE Contract!Init
  OBVIOUS
<1>1. ASSUME NEW r \in Rids PROVE Phase(r) = "unused"
  <2>1. r >= next_timer_id
    BY ConstantsAssumption DEF Init, Rids
  <2> QED BY <2>1, InitIInv, PhaseCases DEF PhasesAreCases, PhaseIs
<1>2. Answer = Contract!NoAnswer
  BY DEF Init, IdleRecv, Answer, Contract!NoAnswer
<1> QED BY <1>1, <1>2 DEF Contract!Init, Init

LEMMA NextMaps == IInv /\ IInv' /\ [Next]_vars => [Contract!Next]_Contract!vars
<1> SUFFICES ASSUME IInv, IInv', [Next]_vars
             PROVE  Contract!Next \/ UNCHANGED Contract!vars
  OBVIOUS
<1>1. ASSUME NEW c \in Callers, NewCall(c) PROVE Contract!Next
  BY <1>1, ReqTimerIdReserves
<1>2. ASSUME NEW c \in Callers, CallSteps(c)
      PROVE  Contract!Next \/ UNCHANGED Contract!vars
  BY <1>2, AddTimerTaskRegisters, SendingStutters, ReturnOkAccepts, UndoTimerTaskRefuses
     DEF CallSteps
<1>3. CASE Arrival
  BY <1>3, ArrivalStutters
<1>4. CASE RecvSteps
  BY <1>4, LookupTakes, DispatchTells, SettleFinishes DEF RecvSteps
<1>5. CASE SweepSteps
  BY <1>5, SweepBoundsStutter, TimeoutProcExpires, EraseExpiredStutters DEF SweepSteps
<1>6. CASE Tick
  BY <1>6, TickStutters
<1>7. CASE UNCHANGED vars
  <2>1. UNCHANGED <<next_timer_id, call, timer_tasks, sweep, recv, ret, timeouts, finals>>
    BY <1>7 DEF vars
  <2>2. PhaseMap' = PhaseMap /\ Answer' = Answer
    BY <2>1, ReceiverKeepsPhases DEF Answer
  <2> QED BY <2>1, <2>2 DEF Contract!vars, PhaseMap
<1> QED BY <1>1, <1>2, <1>3, <1>4, <1>5, <1>6, <1>7 DEF Next

\* The vector and the threads of rabbitmqclient.cpp implement the contract: every
\* behaviour of RequestTimers is one of RequestContract, with the phase of a request
\* read off the vector and the answer off the receive thread (p2pGetTimerTaskInfo,
\* p2pRemoveTimerTask and TimerThreadProc together close a request once).
THEOREM ImplementsContractHolds == Spec => ImplementsContract
<1>1. Init => Contract!Init
  BY InitMaps
<1>2. IInv /\ IInv' /\ [Next]_vars => [Contract!Next]_Contract!vars
  BY NextMaps
<1> QED BY <1>1, <1>2, Invariance, PTL DEF Spec, Contract!Spec, ImplementsContract
=============================================================================
