------------------------ MODULE RequestTimersProofs ------------------------
(***************************************************************************)
(* Proofs about RequestTimers: the invariant IInv is inductive, and the    *)
(* safety properties of the module follow from it, for any set of callers, *)
(* any bounds and any choice of registered callbacks.                      *)
(***************************************************************************)
EXTENDS RequestTimers, SequenceTheorems, TLAPS

\* RemoveAt(s, i) has the elements of s without the one at position i.
LEMMA RemoveAtElements ==
  ASSUME NEW S, NEW s \in Seq(S), NEW i \in 1 .. Len(s)
  PROVE  /\ RemoveAt(s, i) \in Seq(S)
         /\ Len(RemoveAt(s, i)) = Len(s) - 1
         /\ \A j \in 1 .. (Len(s) - 1) :
              RemoveAt(s, i)[j] = IF j < i THEN s[j] ELSE s[j + 1]
<1> DEFINE u == SubSeq(s, 1, i - 1)
           v == SubSeq(s, i + 1, Len(s))
<1>1. /\ u \in Seq(S) /\ Len(u) = i - 1
      /\ \A j \in 1 .. (i - 1) : u[j] = s[j]
  BY SubSeqProperties
<1>2. /\ v \in Seq(S) /\ Len(v) = Len(s) - i
      /\ \A j \in 1 .. (Len(s) - i) : v[j] = s[i + j]
  BY SubSeqProperties
<1>3. RemoveAt(s, i) = u \o v
  BY DEF RemoveAt
<1> HIDE DEF u, v
<1>4. /\ u \o v \in Seq(S)
      /\ Len(u \o v) = Len(u) + Len(v)
      /\ \A j \in 1 .. Len(u) + Len(v) :
           (u \o v)[j] = IF j <= Len(u) THEN u[j] ELSE v[j - Len(u)]
  BY <1>1, <1>2, ConcatProperties
<1>5. \A j \in 1 .. (Len(s) - 1) : (u \o v)[j] = IF j < i THEN s[j] ELSE s[j + 1]
  BY <1>1, <1>2, <1>4, SMTT(30)
<1> QED BY <1>1, <1>2, <1>3, <1>4, <1>5

IdsOf(s) == {s[i].id : i \in DOMAIN s}

Distinct(s) == \A i, j \in DOMAIN s : s[i].id = s[j].id => i = j

\* Erasing one task of a vector without duplicates removes exactly its id.
LEMMA EraseTask ==
  ASSUME NEW s \in Seq(Task), NEW i \in 1 .. Len(s), Distinct(s)
  PROVE  /\ RemoveAt(s, i) \in Seq(Task)
         /\ Distinct(RemoveAt(s, i))
         /\ IdsOf(RemoveAt(s, i)) = IdsOf(s) \ {s[i].id}
<1> DEFINE t == RemoveAt(s, i)
<1>1. /\ t \in Seq(Task)
      /\ Len(t) = Len(s) - 1
      /\ \A j \in 1 .. (Len(s) - 1) : t[j] = IF j < i THEN s[j] ELSE s[j + 1]
  BY RemoveAtElements
<1> HIDE DEF t
<1>2. DOMAIN t = 1 .. (Len(s) - 1) /\ DOMAIN s = 1 .. Len(s) /\ Len(s) \in Nat
  BY <1>1
<1>3. \A j, k \in DOMAIN t : t[j].id = t[k].id => j = k
  <2> SUFFICES ASSUME NEW j \in DOMAIN t, NEW k \in DOMAIN t, t[j].id = t[k].id
               PROVE  j = k
    OBVIOUS
  <2> DEFINE f(n) == IF n < i THEN n ELSE n + 1
  <2>1. f(j) \in 1 .. Len(s) /\ f(k) \in 1 .. Len(s)
    BY <1>2
  <2>2. t[j] = s[f(j)] /\ t[k] = s[f(k)]
    BY <1>1, <1>2
  <2>3. f(j) = f(k)
    BY <2>1, <2>2, <1>2 DEF Distinct
  <2> QED BY <2>3, <1>2
<1>4. \A j \in DOMAIN t : \E k \in DOMAIN s : k # i /\ t[j] = s[k]
  <2> TAKE j \in DOMAIN t
  <2>1. CASE j < i
    BY <1>1, <1>2, <2>1
  <2>2. CASE ~(j < i)
    <3>1. j + 1 \in DOMAIN s /\ j + 1 # i /\ t[j] = s[j + 1]
      BY <1>1, <1>2, <2>2
    <3> QED BY <3>1
  <2> QED BY <2>1, <2>2
<1>5. \A k \in DOMAIN s : k # i => \E j \in DOMAIN t : t[j] = s[k]
  <2> TAKE k \in DOMAIN s
  <2> HAVE k # i
  <2>1. CASE k < i
    <3>1. k \in DOMAIN t /\ t[k] = s[k]
      BY <1>1, <1>2, <2>1
    <3> QED BY <3>1
  <2>2. CASE ~(k < i)
    <3>1. (k - 1) \in DOMAIN t /\ ~((k - 1) < i) /\ (k - 1) + 1 = k
      BY <1>2, <2>2
    <3>2. t[k - 1] = s[k]
      BY <3>1, <1>1, <1>2
    <3> QED BY <3>1, <3>2
  <2> QED BY <2>1, <2>2
<1>6. IdsOf(t) = IdsOf(s) \ {s[i].id}
  <2>1. ASSUME NEW x \in IdsOf(t) PROVE x \in IdsOf(s) \ {s[i].id}
    BY <2>1, <1>2, <1>4 DEF IdsOf, Distinct
  <2>2. ASSUME NEW x \in IdsOf(s), x # s[i].id PROVE x \in IdsOf(t)
    BY <2>2, <1>5 DEF IdsOf
  <2> QED BY <2>1, <2>2
<1>7. Distinct(t)
  BY <1>3 DEF Distinct
<1> QED BY <1>1, <1>6, <1>7 DEF t

-----------------------------------------------------------------------------
\* The vector, when no two tasks have the same id.

LEMMA TaskAt ==
  ASSUME Types, NEW i \in DOMAIN timer_tasks
  PROVE  timer_tasks[i] \in Task /\ timer_tasks[i].id \in Rids /\ timer_tasks[i].id \in Ids
<1>1. timer_tasks[i] \in Task
  BY DEF Types
<1>2. timer_tasks[i].id \in Ids
  BY DEF Ids
<1> QED BY <1>1, <1>2 DEF Task

\* Moving the expiry of a task keeps its id.
LEMMA TaskExcept ==
  ASSUME NEW t \in Task, NEW n \in Nat
  PROVE  [t EXCEPT !.left = n] \in Task /\ [t EXCEPT !.left = n].id = t.id
BY DEF Task

\* std::find_if finds the task that is there.
LEMMA FindTaskIsThere ==
  ASSUME Types, UniqueIds, NEW id \in Ids
  PROVE  FindTask(id) \in DOMAIN timer_tasks /\ timer_tasks[FindTask(id)].id = id
<1>1. PICK i \in DOMAIN timer_tasks : timer_tasks[i].id = id
  BY DEF Ids
<1>2. DOMAIN timer_tasks = 1 .. Len(timer_tasks) /\ Len(timer_tasks) \in Nat
  BY DEF Types
<1>3. \A j \in 1 .. (i - 1) : timer_tasks[j].id # id
  BY <1>1, <1>2 DEF UniqueIds
<1> DEFINE P(n) == /\ timer_tasks[n].id = id
                   /\ \A j \in 1 .. (n - 1) : timer_tasks[j].id # id
<1>4. P(i)
  BY <1>1, <1>3
<1>5. FindTask(id) = CHOOSE n \in DOMAIN timer_tasks : P(n)
  BY DEF FindTask
<1> HIDE DEF P
<1>6. FindTask(id) \in DOMAIN timer_tasks /\ P(FindTask(id))
  BY <1>1, <1>4, <1>5
<1> QED BY <1>6 DEF P

\* Erasing the task at a position.
LEMMA EraseAt ==
  ASSUME Types, UniqueIds, NEW i \in DOMAIN timer_tasks,
         timer_tasks' = RemoveAt(timer_tasks, i)
  PROVE  /\ timer_tasks' \in Seq(Task)
         /\ UniqueIds'
         /\ Ids' = Ids \ {timer_tasks[i].id}
<1>1. timer_tasks \in Seq(Task) /\ i \in 1 .. Len(timer_tasks)
  BY DEF Types
<1>2. Distinct(timer_tasks) /\ Ids = IdsOf(timer_tasks)
  BY DEF UniqueIds, Ids, Distinct, IdsOf
<1>3. /\ timer_tasks' \in Seq(Task)
      /\ Distinct(timer_tasks')
      /\ IdsOf(timer_tasks') = IdsOf(timer_tasks) \ {timer_tasks[i].id}
  BY <1>1, <1>2, EraseTask
<1>4. (UniqueIds' <=> Distinct(timer_tasks')) /\ Ids' = IdsOf(timer_tasks')
  BY DEF UniqueIds, Ids, Distinct, IdsOf
<1> QED BY <1>2, <1>3, <1>4

\* p2pRemoveTimerTask: afterwards there is no task with the id.
LEMMA WithoutTaskErases ==
  ASSUME Types, UniqueIds, NEW id, timer_tasks' = WithoutTask(id)
  PROVE  /\ timer_tasks' \in Seq(Task)
         /\ UniqueIds'
         /\ Ids' = Ids \ {id}
<1>1. CASE id \in Ids
  <2>1. FindTask(id) \in DOMAIN timer_tasks /\ timer_tasks[FindTask(id)].id = id
    BY <1>1, FindTaskIsThere
  <2>2. timer_tasks' = RemoveAt(timer_tasks, FindTask(id))
    BY <1>1 DEF WithoutTask
  <2> QED BY <2>1, <2>2, EraseAt
<1>2. CASE id \notin Ids
  BY <1>2 DEF WithoutTask, Types, UniqueIds, Ids
<1> QED BY <1>1, <1>2

\* Changing only the seconds left keeps the ids in their places.
LEMMA SameIds ==
  ASSUME Types, UniqueIds,
         DOMAIN timer_tasks' = DOMAIN timer_tasks,
         \A i \in DOMAIN timer_tasks : timer_tasks'[i].id = timer_tasks[i].id
  PROVE  UniqueIds' /\ Ids' = Ids
BY DEF UniqueIds, Ids

\* p2pAddTimerTask of an id that is not there.
LEMMA AppendTask ==
  ASSUME Types, UniqueIds, NEW t \in Task, t.id \notin Ids,
         timer_tasks' = Append(timer_tasks, t)
  PROVE  /\ timer_tasks' \in Seq(Task)
         /\ UniqueIds'
         /\ Ids' = Ids \cup {t.id}
<1>1. /\ timer_tasks \in Seq(Task) /\ Len(timer_tasks) \in Nat
      /\ DOMAIN timer_tasks = 1 .. Len(timer_tasks)
  BY DEF Types
<1>2. /\ timer_tasks' \in Seq(Task)
      /\ DOMAIN timer_tasks' = 1 .. (Len(timer_tasks) + 1)
      /\ \A i \in 1 .. Len(timer_tasks) : timer_tasks'[i] = timer_tasks[i]
      /\ timer_tasks'[Len(timer_tasks) + 1] = t
  BY <1>1, AppendProperties
<1>3. \A i \in DOMAIN timer_tasks : timer_tasks[i].id # t.id
  BY DEF Ids
<1>4. UniqueIds'
  BY <1>1, <1>2, <1>3 DEF UniqueIds
<1>5. Ids' = Ids \cup {t.id}
  <2>1. ASSUME NEW x \in Ids' PROVE x \in Ids \cup {t.id}
    BY <1>1, <1>2, <2>1 DEF Ids
  <2>2. ASSUME NEW x \in Ids PROVE x \in Ids'
    <3>1. PICK i \in DOMAIN timer_tasks : timer_tasks[i].id = x
      BY DEF Ids
    <3>2. i \in DOMAIN timer_tasks' /\ timer_tasks'[i].id = x
      BY <1>1, <1>2, <3>1
    <3> QED BY <3>2 DEF Ids
  <2>3. t.id \in Ids'
    <3>1. (Len(timer_tasks) + 1) \in DOMAIN timer_tasks'
      BY <1>1, <1>2
    <3> QED BY <1>2, <3>1 DEF Ids
  <2> QED BY <2>1, <2>2, <2>3
<1> QED BY <1>2, <1>4, <1>5

-----------------------------------------------------------------------------
\* The invariant holds initially.

LEMMA InitIInv == Init => IInv
<1> SUFFICES ASSUME Init PROVE IInv
  OBVIOUS
<1> USE DEF Init
<1>1. Types
  BY ConstantsAssumption DEF Types, Task, Call, Recv, Sweep, IdleCall, IdleRecv,
     Asleep, Kinds, ReplyTypes, Rids, NoRid
<1>2. Ids = {}
  BY DEF Ids
<1>3. UniqueIds
  BY DEF UniqueIds
<1>4. CallsApart
  BY DEF CallsApart, IdleCall
<1>5. FreshIsUntouched /\ TimeoutCloses /\ FinalCloses /\ FailureCloses
  BY <1>2 DEF FreshIsUntouched, TimeoutCloses, FinalCloses, FailureCloses, IdleRecv
<1>6. FoundWasRegistered
  BY DEF FoundWasRegistered, IdleRecv
<1> QED BY <1>1, <1>3, <1>4, <1>5, <1>6 DEF IInv

-----------------------------------------------------------------------------
\* Every action keeps it.  The actions of the callers.

LEMMA ReqTimerIdKeeps ==
  ASSUME IInv, NEW c \in Callers, NewCall(c)
  PROVE  IInv'
<1>1. PICK k \in Kinds, t \in Timeouts : ReqTimerId(c, k, t)
  BY DEF NewCall
<1> USE <1>1 DEF ReqTimerId, IInv, history
<1>2. Interval(t) \in Nat
  BY ConstantsAssumption DEF Interval
<1>3. next_timer_id \in Rids /\ next_timer_id' = next_timer_id + 1
  BY ConstantsAssumption DEF Types, Rids
<1>4. Types'
  BY <1>2, <1>3, ConstantsAssumption, SMTT(30) DEF Types, Call
<1>5. UniqueIds' /\ Ids' = Ids
  BY DEF UniqueIds, Ids
<1>6. Fresh(next_timer_id)
  BY DEF Fresh, Types
<1>7. CallsApart'
  BY <1>3, <1>6 DEF CallsApart, FreshIsUntouched, Types, Call
<1>8. \A r \in Rids : Fresh(r)' => Fresh(r)
  BY <1>3, <1>6 DEF Fresh, Types, Call, Rids
<1>9. FreshIsUntouched'
  BY <1>5, <1>8 DEF FreshIsUntouched
<1>10. TimeoutCloses'
  BY <1>5 DEF TimeoutCloses, Fired, IsCurrent
<1>11. FinalCloses' /\ FoundWasRegistered' /\ FailureCloses'
  BY <1>5, <1>8 DEF FinalCloses, FoundWasRegistered, FailureCloses
<1> QED BY <1>4, <1>5, <1>7, <1>9, <1>10, <1>11

LEMMA AddTimerTaskKeeps ==
  ASSUME IInv, NEW c \in Callers, AddTimerTask(c)
  PROVE  IInv'
<1> DEFINE t == [id |-> call[c].rid, kind |-> call[c].kind,
                 interval |-> call[c].interval, left |-> call[c].interval]
<1> USE DEF AddTimerTask, IInv, history
<1>1. call[c] \in Call /\ call[c].pc = "add" /\ call[c].rid \in Rids
  BY ConstantsAssumption DEF Types, CallsApart, Rids, Call
<1>2. t \in Task /\ t.id = call[c].rid
  BY <1>1 DEF Task, Call
<1>3. Fresh(t.id) /\ t.id \in Rids
  BY <1>1 DEF Fresh
<1>4. /\ t.id \notin Ids \cup settled
      /\ ret[t.id] = "none" /\ timeouts[t.id] = 0 /\ finals[t.id] = 0
  BY <1>3 DEF FreshIsUntouched
<1>5. timer_tasks' \in Seq(Task) /\ UniqueIds' /\ Ids' = Ids \cup {t.id}
  BY <1>2, <1>4, AppendTask
<1> HIDE DEF t
<1>6. /\ recv'.pc = recv.pc /\ recv'.type = recv.type /\ recv'.rid = recv.rid
      /\ recv' \in Recv
  <2>1. recv \in Recv
    BY DEF Types
  <2>2. recv' = [recv EXCEPT !.ptr = 0] \/ recv' = recv
    OBVIOUS
  <2> QED BY ONLY <2>1, <2>2 DEF Recv
<1>7. Types'
  BY <1>1, <1>5, <1>6 DEF Types, Call
<1>8. CallsApart'
  BY <1>1 DEF CallsApart, Types, Call
<1>9. \A r \in Rids : Fresh(r)' => Fresh(r) /\ r # t.id
  <2> TAKE r \in Rids
  <2> HAVE Fresh(r)'
  <2>1. CASE r >= next_timer_id
    BY <1>1, <1>2, <2>1 DEF Fresh, CallsApart, Types, Rids
  <2>2. CASE \E d \in Callers : call'[d].pc = "add" /\ call'[d].rid = r
    <3>1. PICK d \in Callers : call'[d].pc = "add" /\ call'[d].rid = r
      BY <2>2
    <3>2. d # c /\ call[d].pc = "add" /\ call[d].rid = r
      BY <3>1 DEF Types
    <3> QED BY <1>1, <1>2, <3>2 DEF Fresh, CallsApart
  <2> QED BY <2>1, <2>2 DEF Fresh
<1>10. FreshIsUntouched'
  BY <1>5, <1>9 DEF FreshIsUntouched
<1>11. TimeoutCloses'
  BY <1>4, <1>5 DEF TimeoutCloses, Fired, TimerMutexFree
<1>12. FinalCloses' /\ FailureCloses'
  BY <1>4, <1>5, <1>6 DEF FinalCloses, FailureCloses
<1>13. FoundWasRegistered'
  BY <1>6, <1>9 DEF FoundWasRegistered
<1> QED BY <1>5, <1>7, <1>8, <1>10, <1>11, <1>12, <1>13

\* A step of a call whose task has been registered: its rid is not fresh, and
\* no other rid becomes so.
LEMMA FreshShrinks ==
  ASSUME Types, CallsApart, NEW c \in Callers,
         call[c].pc \notin {"idle", "add"}, call'[c].pc # "add",
         \A d \in Callers \ {c} : call'[d] = call[d],
         next_timer_id' = next_timer_id
  PROVE  \A r \in Rids : Fresh(r)' => Fresh(r) /\ r # call[c].rid
<1> TAKE r \in Rids
<1> HAVE Fresh(r)'
<1>1. call[c].rid \in 0 .. (next_timer_id - 1)
  BY DEF CallsApart
<1>2. CASE r >= next_timer_id
  BY <1>1, <1>2 DEF Fresh, Types, Rids
<1>3. CASE \E d \in Callers : call'[d].pc = "add" /\ call'[d].rid = r
  <2>1. PICK d \in Callers : call'[d].pc = "add" /\ call'[d].rid = r
    BY <1>3
  <2>2. d # c /\ call[d].pc = "add" /\ call[d].rid = r
    BY <2>1
  <2> QED BY <2>2 DEF Fresh, CallsApart
<1> QED BY <1>2, <1>3 DEF Fresh

LEMMA ReturnOkKeeps ==
  ASSUME IInv, NEW c \in Callers, ReturnOk(c)
  PROVE  IInv'
<1> USE DEF ReturnOk, IInv
<1>1. call[c] \in Call /\ call[c].pc = "send" /\ call[c].rid \in Rids
  BY ConstantsAssumption DEF Types, CallsApart, Rids, Call
<1>2. Types'
  BY <1>1 DEF Types, Call, IdleCall, NoRid, Kinds
<1>3. UniqueIds' /\ Ids' = Ids
  BY DEF UniqueIds, Ids
<1>4. CallsApart'
  BY <1>1 DEF CallsApart, Types, Call, IdleCall
<1>5. \A r \in Rids : Fresh(r)' => Fresh(r) /\ r # call[c].rid
  <2>1. call'[c].pc = "idle" /\ \A d \in Callers \ {c} : call'[d] = call[d]
    BY DEF Types, IdleCall
  <2> QED BY <1>1, <2>1, FreshShrinks
<1>6. FreshIsUntouched'
  BY <1>1, <1>3, <1>5 DEF FreshIsUntouched, Types
<1>7. TimeoutCloses'
  BY <1>3 DEF TimeoutCloses, Fired, IsCurrent
<1>8. FinalCloses' /\ FoundWasRegistered'
  BY <1>3, <1>5 DEF FinalCloses, FoundWasRegistered
<1>9. FailureCloses'
  BY <1>1, <1>3 DEF FailureCloses, Types
<1> QED BY <1>2, <1>3, <1>4, <1>6, <1>7, <1>8, <1>9

LEMMA SendReportsFailureKeeps ==
  ASSUME IInv, NEW c \in Callers, SendReportsFailure(c)
  PROVE  IInv'
<1> USE DEF SendReportsFailure, IInv, history
<1>1. call[c] \in Call /\ call[c].pc = "send" /\ call[c].rid \in Rids
  BY ConstantsAssumption DEF Types, CallsApart, Rids, Call
<1>2. Types'
  BY <1>1 DEF Types, Call
<1>3. UniqueIds' /\ Ids' = Ids
  BY DEF UniqueIds, Ids
<1>4. CallsApart'
  BY <1>1 DEF CallsApart, Types, Call
<1>5. \A r \in Rids : Fresh(r)' => Fresh(r)
  <2>1. /\ call'[c].pc = "undo"
        /\ \A d \in Callers \ {c} : call'[d] = call[d]
    BY <1>1 DEF Types
  <2> QED BY <1>1, <2>1, FreshShrinks
<1>6. FreshIsUntouched'
  BY <1>3, <1>5 DEF FreshIsUntouched
<1>7. TimeoutCloses'
  BY <1>3 DEF TimeoutCloses, Fired, IsCurrent
<1>8. FinalCloses' /\ FoundWasRegistered' /\ FailureCloses'
  BY <1>3, <1>5 DEF FinalCloses, FoundWasRegistered, FailureCloses
<1> QED BY <1>2, <1>3, <1>4, <1>6, <1>7, <1>8

LEMMA UndoTimerTaskKeeps ==
  ASSUME IInv, NEW c \in Callers, UndoTimerTask(c)
  PROVE  IInv'
<1> USE DEF UndoTimerTask, IInv
<1>1. call[c] \in Call /\ call[c].pc = "undo" /\ call[c].rid \in Rids
  BY ConstantsAssumption DEF Types, CallsApart, Rids, Call
<1>2. timer_tasks' \in Seq(Task) /\ UniqueIds' /\ Ids' = Ids \ {call[c].rid}
  BY WithoutTaskErases
<1>3. Types'
  BY <1>1, <1>2 DEF Types, Call, IdleCall, NoRid, Kinds
<1>4. CallsApart'
  BY <1>1 DEF CallsApart, Types, Call, IdleCall
<1>5. \A r \in Rids : Fresh(r)' => Fresh(r) /\ r # call[c].rid
  <2>1. call'[c].pc = "idle" /\ \A d \in Callers \ {c} : call'[d] = call[d]
    BY DEF Types, IdleCall
  <2> QED BY <1>1, <2>1, FreshShrinks
<1>6. FreshIsUntouched'
  BY <1>1, <1>2, <1>5 DEF FreshIsUntouched, Types
<1>7. TimeoutCloses'
  BY <1>2 DEF TimeoutCloses, Fired, TimerMutexFree
<1>8. FinalCloses' /\ FoundWasRegistered'
  BY <1>2, <1>5 DEF FinalCloses, FoundWasRegistered
<1>9. FailureCloses'
  BY <1>1, <1>2 DEF FailureCloses, Types, CallsApart
<1> QED BY <1>2, <1>3, <1>4, <1>6, <1>7, <1>8, <1>9

-----------------------------------------------------------------------------
\* The actions of the receive thread.  None of them touches a caller.

LEMMA ReceiveReplyKeeps ==
  ASSUME IInv, Arrival
  PROVE  IInv'
<1>1. PICK r \in Rids, t \in ReplyTypes : ReceiveReply(r, t)
  BY DEF Arrival
<1> USE <1>1 DEF ReceiveReply, IInv, history
<1>2. Types'
  BY DEF Types, Recv
<1>3. UniqueIds' /\ Ids' = Ids
  BY DEF UniqueIds, Ids
<1>4. CallsApart' /\ FreshIsUntouched' /\ FailureCloses'
  BY <1>3 DEF CallsApart, FreshIsUntouched, Fresh, FailureCloses
<1>5. TimeoutCloses'
  BY <1>3 DEF TimeoutCloses, Fired, IsCurrent
<1>6. FinalCloses' /\ FoundWasRegistered'
  BY <1>3 DEF FinalCloses, FoundWasRegistered
<1> QED BY <1>2, <1>3, <1>4, <1>5, <1>6

LEMMA GetTimerTaskInfoKeeps ==
  ASSUME IInv, GetTimerTaskInfo
  PROVE  IInv'
<1> USE DEF GetTimerTaskInfo, IInv, history
<1>1. recv.rid \in Ids => FindTask(recv.rid) \in Nat
  <2> HAVE recv.rid \in Ids
  <2>1. FindTask(recv.rid) \in DOMAIN timer_tasks
    BY FindTaskIsThere
  <2> QED BY <2>1 DEF Types
<1>2. Types'
  BY <1>1 DEF Types, Recv, IdleRecv, ReplyTypes, NoRid
<1>3. UniqueIds' /\ Ids' = Ids
  BY DEF UniqueIds, Ids
<1>4. CallsApart' /\ FreshIsUntouched' /\ FailureCloses'
  BY <1>3 DEF CallsApart, FreshIsUntouched, Fresh, FailureCloses
<1>5. TimeoutCloses'
  BY <1>3 DEF TimeoutCloses, Fired, IsCurrent
<1>6. FoundWasRegistered'
  BY DEF FoundWasRegistered, FreshIsUntouched, Fresh, Types, Recv, IdleRecv
<1>7. CASE recv.rid \in Ids
  <2>1. recv'.pc = "found" /\ recv'.rid = recv.rid /\ recv.rid \in Rids
    <3>1. recv \in Recv /\ recv.pc = "lookup" /\ recv.rid \in Rids
      BY DEF Types, FoundWasRegistered
    <3>2. recv' = [recv EXCEPT !.pc = "found", !.ptr = FindTask(recv.rid)]
      BY <1>7
    <3> QED BY ONLY <3>1, <3>2 DEF Recv
  <2>2. finals[recv.rid] = 0
    <3>1. finals[recv.rid] \in Nat
      BY <2>1 DEF Types
    <3>2. FinalCloses /\ recv.pc = "lookup" /\ recv.rid \in Rids
      BY <2>1
    <3> QED BY ONLY <1>7, <3>1, <3>2 DEF FinalCloses
  <2>3. FinalCloses'
    BY <1>3, <2>1, <2>2 DEF FinalCloses
  <2> QED BY <1>2, <1>3, <1>4, <1>5, <1>6, <2>3
<1>8. CASE recv.rid \notin Ids
  <2>1. FinalCloses'
    BY <1>3, <1>8 DEF FinalCloses, IdleRecv
  <2> QED BY <1>2, <1>3, <1>4, <1>5, <1>6, <2>1
<1> QED BY <1>7, <1>8

LEMMA DispatchKeeps ==
  ASSUME IInv, Dispatch
  PROVE  IInv'
<1> USE DEF Dispatch, IInv
<1>1. recv \in Recv /\ recv.pc = "found" /\ recv.rid \in Rids /\ ~Fresh(recv.rid)
  BY DEF Types, FoundWasRegistered
<1>2. recv' \in Recv /\ recv'.pc = "settle" /\ recv'.type = recv.type /\ recv'.rid = recv.rid
  BY <1>1 DEF Recv
<1>3. \/ finals' = finals
      \/ recv.type = "final" /\ finals' = [finals EXCEPT ![recv.rid] = @ + 1]
  OBVIOUS
<1>4. finals' \in [Rids -> Nat] /\ misread' \subseteq Rids
  BY <1>1, <1>3 DEF Types
<1>5. Types'
  BY <1>2, <1>4 DEF Types
<1>6. UniqueIds' /\ Ids' = Ids
  BY DEF UniqueIds, Ids
<1>7. CallsApart' /\ FailureCloses'
  BY <1>6 DEF CallsApart, FailureCloses
<1>8. FreshIsUntouched'
  <2>1. \A r \in Rids : Fresh(r)' <=> Fresh(r)
    BY DEF Fresh
  <2> QED BY <1>1, <1>3, <1>6, <2>1 DEF FreshIsUntouched, Types
<1>9. TimeoutCloses'
  BY <1>6 DEF TimeoutCloses, Fired, IsCurrent
<1>10. FinalCloses'
  BY <1>1, <1>2, <1>3, <1>6 DEF FinalCloses, Types
<1>11. FoundWasRegistered'
  BY <1>1, <1>2 DEF FoundWasRegistered, Fresh
<1> QED BY <1>5, <1>6, <1>7, <1>8, <1>9, <1>10, <1>11

LEMMA SettleKeeps ==
  ASSUME IInv, Settle
  PROVE  IInv'
<1> USE DEF Settle, IInv
<1>1. recv \in Recv /\ recv.pc = "settle" /\ recv.rid \in Rids /\ ~Fresh(recv.rid)
  BY DEF Types, FoundWasRegistered
<1>2. recv' \in Recv /\ recv'.pc = "idle"
  BY DEF Recv, IdleRecv, ReplyTypes, NoRid
<1>3. /\ timer_tasks' \in Seq(Task) /\ UniqueIds' /\ settled' \subseteq Rids
      /\ \/ Ids' = Ids /\ settled' = settled /\ recv.type # "final"
         \/ Ids' = Ids \ {recv.rid} /\ settled' = settled \cup {recv.rid}
  <2>1. CASE recv.type = "temp" /\ timer_tasks' = Restarted(recv.rid) /\ UNCHANGED settled
    <3>1. /\ timer_tasks \in Seq(Task)
          /\ DOMAIN timer_tasks' = DOMAIN timer_tasks
          /\ \A i \in DOMAIN timer_tasks :
               /\ timer_tasks'[i] \in Task
               /\ timer_tasks'[i].id = timer_tasks[i].id
      <4>1. timer_tasks \in Seq(Task)
        BY DEF Types
      <4>2. DOMAIN timer_tasks' = DOMAIN timer_tasks
        BY <2>1 DEF Restarted
      <4>3. ASSUME NEW i \in DOMAIN timer_tasks
            PROVE  timer_tasks'[i] \in Task /\ timer_tasks'[i].id = timer_tasks[i].id
        <5>1. timer_tasks[i] \in Task /\ timer_tasks[i].interval \in Nat
          BY TaskAt DEF Task
        <5>2. \/ timer_tasks'[i] = timer_tasks[i]
              \/ timer_tasks'[i] = [timer_tasks[i] EXCEPT !.left = timer_tasks[i].interval]
          BY <2>1 DEF Restarted
        <5> QED BY <5>1, <5>2, TaskExcept
      <4> QED BY <4>1, <4>2, <4>3
    <3>2. timer_tasks' \in Seq(Task)
      <4>1. DOMAIN timer_tasks = 1 .. Len(timer_tasks) /\ Len(timer_tasks) \in Nat
        BY <3>1
      <4>2. timer_tasks' = [i \in 1 .. Len(timer_tasks) |-> timer_tasks'[i]]
        BY <2>1, <4>1 DEF Restarted
      <4> QED BY <3>1, <4>1, <4>2, IsASeq
    <3>3. UniqueIds' /\ Ids' = Ids
      BY <3>1, SameIds
    <3> QED BY <2>1, <3>2, <3>3 DEF Types
  <2>2. CASE /\ recv.type = "final" /\ timer_tasks' = WithoutTask(recv.rid)
             /\ settled' = settled \cup {recv.rid}
    <3>1. timer_tasks' \in Seq(Task) /\ UniqueIds' /\ Ids' = Ids \ {recv.rid}
      BY <2>2, WithoutTaskErases
    <3> QED BY <1>1, <2>2, <3>1 DEF Types
  <2> QED BY <2>1, <2>2
<1>4. Types'
  BY <1>2, <1>3 DEF Types
<1>5. CallsApart' /\ FailureCloses'
  BY <1>3 DEF CallsApart, FailureCloses
<1>6. FreshIsUntouched'
  BY <1>1, <1>3 DEF FreshIsUntouched, Fresh
<1>7. TimeoutCloses'
  BY <1>3 DEF TimeoutCloses, Fired, TimerMutexFree
<1>8. FinalCloses' /\ FoundWasRegistered'
  BY <1>1, <1>2, <1>3 DEF FinalCloses, FoundWasRegistered
<1> QED BY <1>3, <1>4, <1>5, <1>6, <1>7, <1>8

-----------------------------------------------------------------------------
\* The actions of the timer thread, and time.

LEMMA StartSweepKeeps ==
  ASSUME IInv, StartSweep
  PROVE  IInv'
<1> USE DEF StartSweep, IInv, history
<1>1. Due \subseteq Rids
  BY TaskAt DEF Due
<1>2. Types'
  BY <1>1 DEF Types, Sweep
<1>3. UniqueIds' /\ Ids' = Ids
  BY DEF UniqueIds, Ids
<1>4. CallsApart' /\ FreshIsUntouched' /\ FailureCloses'
  BY <1>3 DEF CallsApart, FreshIsUntouched, Fresh, FailureCloses
<1>5. TimeoutCloses'
  BY <1>3 DEF TimeoutCloses, Fired
<1>6. FinalCloses' /\ FoundWasRegistered'
  BY <1>3 DEF FinalCloses, FoundWasRegistered, Fresh
<1> QED BY <1>2, <1>3, <1>4, <1>5, <1>6

LEMMA TimeoutProcKeeps ==
  ASSUME IInv, TimeoutProc
  PROVE  IInv'
<1> USE DEF TimeoutProc, IInv
<1>1. PICK i \in DOMAIN timer_tasks :
        /\ IsCurrent(i)
        /\ \/ timeouts' = timeouts
           \/ timeouts' = [timeouts EXCEPT ![timer_tasks[i].id] = @ + 1]
  OBVIOUS
<1> DEFINE cur == timer_tasks[i].id
<1>2. cur \in Rids /\ cur \in Ids
  BY TaskAt
<1>3. sweep' \in Sweep /\ sweep'.pc = "fired" /\ sweep'.marked = sweep.marked
  BY DEF Types, Sweep
<1>4. Fired(cur)'
  BY <1>1, <1>3 DEF Fired, IsCurrent
<1> HIDE DEF cur
<1>5. timeouts[cur] = 0 /\ timeouts \in [Rids -> Nat]
  BY <1>2 DEF TimeoutCloses, Fired, Types
<1>6. \/ timeouts' = timeouts
      \/ timeouts' = [timeouts EXCEPT ![cur] = 1]
  BY <1>1, <1>5 DEF cur
<1>7. Types'
  <2>1. timeouts' \in [Rids -> Nat]
    BY ONLY <1>5, <1>6
  <2> QED BY <1>3, <2>1 DEF Types
<1>8. UniqueIds' /\ Ids' = Ids
  BY DEF UniqueIds, Ids
<1>9. CallsApart' /\ FailureCloses'
  BY <1>8 DEF CallsApart, FailureCloses
<1>10. FreshIsUntouched'
  BY <1>2, <1>5, <1>6, <1>8 DEF FreshIsUntouched, Fresh
<1>11. TimeoutCloses'
  <2>1. \A r \in Rids : timeouts[r] = 1 => r \notin Ids
    BY DEF TimeoutCloses, Fired
  <2>2. \A r \in Rids : timeouts[r] <= 1
    BY DEF TimeoutCloses
  <2>3. \A r \in Rids : timeouts'[r] <= 1 /\ (timeouts'[r] = 1 => r = cur \/ r \notin Ids)
    BY ONLY <1>2, <1>5, <1>6, <2>1, <2>2
  <2> QED BY <1>4, <1>8, <2>3 DEF TimeoutCloses, cur
<1>12. FinalCloses' /\ FoundWasRegistered'
  BY <1>8 DEF FinalCloses, FoundWasRegistered, Fresh
<1> QED BY <1>7, <1>8, <1>9, <1>10, <1>11, <1>12

\* At most one task is the current one of a pass.
LEMMA CurrentIsUnique ==
  ASSUME Types, NEW i \in DOMAIN timer_tasks, NEW j \in DOMAIN timer_tasks,
         IsCurrent(i), IsCurrent(j)
  PROVE  i = j
<1>1. DOMAIN timer_tasks = 1 .. Len(timer_tasks) /\ Len(timer_tasks) \in Nat
  BY DEF Types
<1>2. ~(i < j) /\ ~(j < i)
  BY <1>1 DEF IsCurrent
<1> QED BY <1>1, <1>2

LEMMA EraseExpiredKeeps ==
  ASSUME IInv, EraseExpired
  PROVE  IInv'
<1> USE DEF EraseExpired, IInv, history
<1>1. PICK i \in DOMAIN timer_tasks :
        IsCurrent(i) /\ timer_tasks' = RemoveAt(timer_tasks, i)
  OBVIOUS
<1>2. /\ timer_tasks' \in Seq(Task) /\ UniqueIds'
      /\ Ids' = Ids \ {timer_tasks[i].id}
  BY <1>1, EraseAt
<1>3. \A r \in Rids : Fired(r) => r = timer_tasks[i].id
  <2> TAKE r \in Rids
  <2> HAVE Fired(r)
  <2>1. PICK j \in DOMAIN timer_tasks : IsCurrent(j) /\ timer_tasks[j].id = r
    BY DEF Fired
  <2>2. i = j
    BY <1>1, <2>1, CurrentIsUnique
  <2> QED BY <2>1, <2>2
<1>4. sweep' \in Sweep /\ sweep'.pc = "scan"
  BY DEF Types, Sweep
<1>5. Types'
  BY <1>2, <1>4 DEF Types
<1>6. CallsApart' /\ FreshIsUntouched' /\ FailureCloses'
  BY <1>2 DEF CallsApart, FreshIsUntouched, Fresh, FailureCloses
<1>7. TimeoutCloses'
  BY <1>2, <1>3 DEF TimeoutCloses
<1>8. FinalCloses' /\ FoundWasRegistered'
  BY <1>2 DEF FinalCloses, FoundWasRegistered, Fresh
<1> QED BY <1>2, <1>5, <1>6, <1>7, <1>8

LEMMA EndSweepKeeps ==
  ASSUME IInv, EndSweep
  PROVE  IInv'
<1> USE DEF EndSweep, IInv, history
<1>1. Types'
  BY DEF Types, Sweep, Asleep
<1>2. UniqueIds' /\ Ids' = Ids
  BY DEF UniqueIds, Ids
<1>3. CallsApart' /\ FreshIsUntouched' /\ FailureCloses'
  BY <1>2 DEF CallsApart, FreshIsUntouched, Fresh, FailureCloses
<1>4. TimeoutCloses'
  BY <1>2 DEF TimeoutCloses, Fired
<1>5. FinalCloses' /\ FoundWasRegistered'
  BY <1>2 DEF FinalCloses, FoundWasRegistered, Fresh
<1> QED BY <1>1, <1>2, <1>3, <1>4, <1>5

LEMMA TickKeeps ==
  ASSUME IInv, Tick
  PROVE  IInv'
<1> USE DEF Tick, IInv, history
<1>1. /\ timer_tasks \in Seq(Task)
      /\ DOMAIN timer_tasks' = DOMAIN timer_tasks
      /\ \A i \in DOMAIN timer_tasks :
           timer_tasks'[i] \in Task /\ timer_tasks'[i].id = timer_tasks[i].id
  <2>1. timer_tasks \in Seq(Task) /\ DOMAIN timer_tasks' = DOMAIN timer_tasks
    BY DEF Types
  <2>2. ASSUME NEW i \in DOMAIN timer_tasks
        PROVE  timer_tasks'[i] \in Task /\ timer_tasks'[i].id = timer_tasks[i].id
    <3> DEFINE left == timer_tasks[i].left
               n == IF left > 0 THEN left - 1 ELSE 0
    <3>1. timer_tasks[i] \in Task /\ n \in Nat
      BY TaskAt DEF Task
    <3>2. timer_tasks'[i] = [timer_tasks[i] EXCEPT !.left = n]
      OBVIOUS
    <3> QED BY <3>1, <3>2, TaskExcept
  <2> QED BY <2>1, <2>2
<1>2. timer_tasks' \in Seq(Task)
  <2>1. DOMAIN timer_tasks = 1 .. Len(timer_tasks) /\ Len(timer_tasks) \in Nat
    BY <1>1
  <2>2. timer_tasks' = [i \in 1 .. Len(timer_tasks) |-> timer_tasks'[i]]
    BY <2>1
  <2> QED BY <1>1, <2>1, <2>2, IsASeq
<1>3. Types'
  BY <1>2 DEF Types
<1>4. UniqueIds' /\ Ids' = Ids
  BY <1>1, SameIds
<1>5. CallsApart' /\ FreshIsUntouched' /\ FailureCloses'
  BY <1>4 DEF CallsApart, FreshIsUntouched, Fresh, FailureCloses
<1>6. \A r \in Rids : Fired(r) => Fired(r)'
  <2>1. \A i \in DOMAIN timer_tasks : IsCurrent(i) => IsCurrent(i)'
    <3>1. DOMAIN timer_tasks = 1 .. Len(timer_tasks) /\ Len(timer_tasks) \in Nat
      BY <1>1
    <3> QED BY <1>1, <3>1 DEF IsCurrent
  <2> QED BY <1>1, <2>1 DEF Fired
<1>7. TimeoutCloses'
  BY <1>4, <1>6 DEF TimeoutCloses
<1>8. FinalCloses' /\ FoundWasRegistered'
  BY <1>4 DEF FinalCloses, FoundWasRegistered, Fresh
<1> QED BY <1>3, <1>4, <1>5, <1>7, <1>8

-----------------------------------------------------------------------------
\* The theorems.

LEMMA NextKeeps == IInv /\ [Next]_vars => IInv'
<1> SUFFICES ASSUME IInv, [Next]_vars PROVE IInv'
  OBVIOUS
<1>1. ASSUME NEW c \in Callers, NewCall(c) PROVE IInv'
  BY <1>1, ReqTimerIdKeeps
<1>2. ASSUME NEW c \in Callers, CallSteps(c) PROVE IInv'
  BY <1>2, AddTimerTaskKeeps, ReturnOkKeeps, SendReportsFailureKeeps,
     UndoTimerTaskKeeps DEF CallSteps
<1>3. CASE Arrival
  BY <1>3, ReceiveReplyKeeps
<1>4. CASE RecvSteps
  BY <1>4, GetTimerTaskInfoKeeps, DispatchKeeps, SettleKeeps DEF RecvSteps
<1>5. CASE SweepSteps
  BY <1>5, StartSweepKeeps, TimeoutProcKeeps, EraseExpiredKeeps, EndSweepKeeps
     DEF SweepSteps
<1>6. CASE Tick
  BY <1>6, TickKeeps
<1>7. CASE UNCHANGED vars
  BY <1>7 DEF vars, IInv, Types, UniqueIds, Ids, CallsApart, FreshIsUntouched, Fresh,
     TimeoutCloses, Fired, IsCurrent, FinalCloses, FoundWasRegistered, FailureCloses
<1> QED BY <1>1, <1>2, <1>3, <1>4, <1>5, <1>6, <1>7 DEF Next

\* The invariant holds in every reachable state.
THEOREM Invariance == Spec => []IInv
BY InitIInv, NextKeeps, PTL DEF Spec

\* Every variable keeps its type; the vector holds only well-formed tasks, one
\* per id at most.
THEOREM TypeCorrect == Spec => []TypeOK
<1>1. IInv => TypeOK
  BY DEF IInv, TypeOK
<1> QED BY <1>1, Invariance, PTL

\* At most one timeout and one final response are reported for a request, for
\* any number of threads and requests and however often the peers answer.
THEOREM AtMostOnceHolds == Spec => []AtMostOnce
<1>1. IInv => AtMostOnce
  BY DEF IInv, TimeoutCloses, FinalCloses, AtMostOnce
<1> QED BY <1>1, Invariance, PTL

\* Only the timer thread reports timeouts, and only of a task that is there.
LEMMA TimeoutsComeFromTasks ==
  ASSUME IInv, [Next]_vars, NEW r \in Rids, timeouts'[r] # timeouts[r]
  PROVE  r \in Ids
<1>1. CASE TimeoutProc
  <2>1. PICK i \in DOMAIN timer_tasks :
          \/ timeouts' = timeouts
          \/ timeouts' = [timeouts EXCEPT ![timer_tasks[i].id] = @ + 1]
    BY <1>1 DEF TimeoutProc
  <2>2. timer_tasks[i].id \in Ids
    BY DEF Ids
  <2>3. r = timer_tasks[i].id
    BY <2>1 DEF IInv, Types
  <2> QED BY <2>2, <2>3
<1>2. CASE ~TimeoutProc
  <2>1. timeouts' = timeouts
    BY <1>2 DEF Next, vars, history, NewCall, ReqTimerId, CallSteps, AddTimerTask,
       ReturnOk, SendReportsFailure, UndoTimerTask, Arrival, ReceiveReply, RecvSteps,
       GetTimerTaskInfo, Dispatch, Settle, SweepSteps, StartSweep, EraseExpired, EndSweep, Tick
  <2> QED BY <2>1
<1> QED BY <1>1, <1>2

\* Only the receive thread hands over final responses, and only for the
\* response whose task it has found.
LEMMA FinalsComeFromFound ==
  ASSUME IInv, [Next]_vars, NEW r \in Rids, finals'[r] # finals[r]
  PROVE  recv.pc = "found" /\ recv.rid = r
<1>1. CASE Dispatch
  <2>1. \/ finals' = finals
        \/ finals' = [finals EXCEPT ![recv.rid] = @ + 1]
    BY <1>1 DEF Dispatch
  <2>2. r = recv.rid
    BY <2>1 DEF IInv, Types
  <2> QED BY <1>1, <2>2 DEF Dispatch
<1>2. CASE ~Dispatch
  <2>1. finals' = finals
    BY <1>2 DEF Next, vars, history, NewCall, ReqTimerId, CallSteps, AddTimerTask,
       ReturnOk, SendReportsFailure, UndoTimerTask, Arrival, ReceiveReply, RecvSteps,
       GetTimerTaskInfo, Settle, SweepSteps, StartSweep, TimeoutProc, EraseExpired, EndSweep, Tick
  <2> QED BY <2>1
<1> QED BY <1>1, <1>2

\* A response is matched by the lookup alone, and only if its task is there.
LEMMA FoundByLookup ==
  ASSUME IInv, [Next]_vars, recv.pc # "found", recv'.pc = "found"
  PROVE  /\ recv.pc = "lookup" /\ TimerMutexFree
         /\ recv.rid \in Ids /\ recv'.rid = recv.rid
<1>1. recv \in Recv
  BY DEF IInv, Types
<1>2. ASSUME NEW c \in Callers, AddTimerTask(c) PROVE FALSE
  BY <1>1, <1>2 DEF AddTimerTask, Recv
<1>3. ASSUME NEW c \in Callers, NewCall(c) \/ CallSteps(c) PROVE FALSE
  BY <1>2, <1>3 DEF NewCall, ReqTimerId, CallSteps, ReturnOk, SendReportsFailure,
     UndoTimerTask
<1>4. ~Arrival /\ ~SweepSteps /\ ~Tick
  BY DEF Arrival, ReceiveReply, SweepSteps, StartSweep, TimeoutProc, EraseExpired,
     EndSweep, Tick
<1>5. GetTimerTaskInfo
  BY <1>3, <1>4 DEF Next, vars, RecvSteps, Dispatch, Settle, IdleRecv
<1>6. recv.pc = "lookup" /\ TimerMutexFree /\ recv.rid \in Ids
  BY <1>5 DEF GetTimerTaskInfo, IdleRecv
<1>7. recv'.rid = recv.rid
  <2>1. recv' = [recv EXCEPT !.pc = "found", !.ptr = FindTask(recv.rid)]
    BY <1>5, <1>6 DEF GetTimerTaskInfo
  <2> QED BY ONLY <1>1, <2>1 DEF Recv
<1> QED BY <1>6, <1>7

\* After a call has returned -1 its task is gone: no timeout is reported for its
\* rid and no response is matched, whatever responses come, so that the only
\* callback left is that of a response found before.
THEOREM FailedIsForgottenHolds == Spec => FailedIsForgotten
<1> DEFINE Forgotten(r) ==
             /\ timeouts'[r] = timeouts[r]
             /\ finals'[r] # finals[r] => recv.pc = "found" /\ recv.rid = r
             /\ recv'.pc = "found" /\ recv'.rid = r => recv.pc = "found"
<1>1. ASSUME IInv, [Next]_vars, NEW r \in Rids, ret[r] = "failed"
      PROVE  Forgotten(r)
  <2>1. r \notin Ids
    BY <1>1 DEF IInv, FailureCloses
  <2>2. timeouts'[r] = timeouts[r]
    BY <1>1, <2>1, TimeoutsComeFromTasks
  <2>3. finals'[r] # finals[r] => recv.pc = "found" /\ recv.rid = r
    BY <1>1, FinalsComeFromFound
  <2>4. recv'.pc = "found" /\ recv'.rid = r => recv.pc = "found"
    BY <1>1, <2>1, FoundByLookup
  <2> QED BY <2>2, <2>3, <2>4
<1>2. IInv /\ [Next]_vars => [\A r \in Rids : ret[r] = "failed" => Forgotten(r)]_vars
  BY <1>1
<1> QED BY <1>2, Invariance, PTL DEF FailedIsForgotten, Spec

\* Once a final response has been handled to the end, no timeout follows.
THEOREM AnsweredNeverTimesOutHolds == Spec => AnsweredNeverTimesOut
<1>1. IInv /\ [Next]_vars => [\A r \in settled : timeouts'[r] = timeouts[r]]_vars
  <2> SUFFICES ASSUME IInv, [Next]_vars, NEW r \in settled
               PROVE  timeouts'[r] = timeouts[r]
    OBVIOUS
  <2>1. r \in Rids /\ r \notin Ids
    BY DEF IInv, Types, FinalCloses
  <2> QED BY <2>1, TimeoutsComeFromTasks
<1> QED BY <1>1, Invariance, PTL DEF AnsweredNeverTimesOut, Spec

\* A response that is looked up after an outcome was reported is dropped.
THEOREM LateReplyIsDroppedHolds == Spec => LateReplyIsDropped
<1>1. IInv /\ [Next]_vars =>
        [recv.pc = "lookup" /\ recv'.pc = "found" =>
           timeouts[recv.rid] = 0 /\ finals[recv.rid] = 0]_vars
  <2> SUFFICES ASSUME IInv, Next, recv.pc = "lookup", recv'.pc = "found"
               PROVE  timeouts[recv.rid] = 0 /\ finals[recv.rid] = 0
    BY DEF vars
  <2>2. recv.rid \in Ids /\ sweep.pc = "sleep"
    BY FoundByLookup DEF TimerMutexFree
  <2>3. recv.rid \in Rids /\ timeouts[recv.rid] \in Nat /\ finals[recv.rid] \in Nat
    BY DEF IInv, Types, FoundWasRegistered
  <2> QED BY <2>2, <2>3 DEF IInv, TimeoutCloses, Fired, FinalCloses
<1> QED BY <1>1, Invariance, PTL DEF LateReplyIsDropped, Spec

-----------------------------------------------------------------------------
(* An accepted request is tracked until it has an outcome: nothing but a   *)
(* read through a stale pointer loses one, if the application listens to   *)
(* timeouts.                                                               *)

\* A task is of the kind its rid was made for, and so is the call about to add it.
KindsAgree ==
  /\ \A i \in DOMAIN timer_tasks : timer_tasks[i].kind = kind[timer_tasks[i].id]
  /\ \A c \in Callers : call[c].pc = "add" => call[c].kind = kind[call[c].rid]

\* A request whose final response was handed over is about to leave the vector
\* with the callback made, or with the wrong task read.
SettledIsTold ==
  recv.pc = "settle" /\ recv.type = "final" /\ kind[recv.rid] = "request"
    => finals[recv.rid] > 0 \/ recv.rid \in misread

\* A request that is about to be erased by the timer thread was reported.
FiredIsTold ==
  sweep.pc = "fired" =>
    \A i \in DOMAIN timer_tasks :
      IsCurrent(i) /\ timer_tasks[i].kind = "request" => timeouts[timer_tasks[i].id] > 0

\* From its registration on a request without outcome has a task.
Open(r) ==
  /\ kind[r] = "request" /\ ret[r] # "failed" /\ timeouts[r] = 0 /\ finals[r] = 0
  /\ r \notin misread
OpenIsTracked == \A r \in Rids : ~Fresh(r) /\ Open(r) => r \in Ids

Tracking == KindsAgree /\ SettledIsTold /\ FiredIsTold /\ OpenIsTracked

\* A task that is left after an erasure was there before.
LEMMA RemainingTasks ==
  ASSUME Types, NEW i \in DOMAIN timer_tasks, timer_tasks' = RemoveAt(timer_tasks, i)
  PROVE  \A j \in DOMAIN timer_tasks' :
           \E k \in DOMAIN timer_tasks : timer_tasks'[j] = timer_tasks[k]
<1>1. /\ timer_tasks \in Seq(Task) /\ i \in 1 .. Len(timer_tasks)
      /\ DOMAIN timer_tasks = 1 .. Len(timer_tasks) /\ Len(timer_tasks) \in Nat
  BY DEF Types
<1>2. /\ timer_tasks' \in Seq(Task) /\ Len(timer_tasks') = Len(timer_tasks) - 1
      /\ \A j \in 1 .. (Len(timer_tasks) - 1) :
           timer_tasks'[j] = IF j < i THEN timer_tasks[j] ELSE timer_tasks[j + 1]
  BY <1>1, RemoveAtElements
<1>3. DOMAIN timer_tasks' = 1 .. (Len(timer_tasks) - 1)
  BY <1>2
<1> TAKE j \in DOMAIN timer_tasks'
<1>4. CASE j < i
  BY <1>1, <1>2, <1>3, <1>4
<1>5. CASE ~(j < i)
  <2>1. (j + 1) \in DOMAIN timer_tasks /\ timer_tasks'[j] = timer_tasks[j + 1]
    BY <1>1, <1>2, <1>3, <1>5
  <2> QED BY <2>1
<1> QED BY <1>4, <1>5

LEMMA RemainingWithoutTask ==
  ASSUME Types, UniqueIds, NEW id, timer_tasks' = WithoutTask(id)
  PROVE  \A j \in DOMAIN timer_tasks' :
           \E k \in DOMAIN timer_tasks : timer_tasks'[j] = timer_tasks[k]
<1>1. CASE id \in Ids
  <2>1. FindTask(id) \in DOMAIN timer_tasks /\ timer_tasks' = RemoveAt(timer_tasks, FindTask(id))
    BY <1>1, FindTaskIsThere DEF WithoutTask
  <2> QED BY <2>1, RemainingTasks
<1>2. CASE id \notin Ids
  BY <1>2 DEF WithoutTask
<1> QED BY <1>1, <1>2

LEMMA InitTracking == Init => Tracking
<1> SUFFICES ASSUME Init PROVE Tracking
  OBVIOUS
<1>1. DOMAIN timer_tasks = {}
  BY DEF Init
<1>2. \A r \in Rids : Fresh(r)
  BY DEF Init, Fresh, Rids
<1>3. \A c \in Callers : call[c].pc = "idle"
  BY DEF Init, IdleCall
<1>4. recv.pc = "idle" /\ sweep.pc = "sleep"
  BY DEF Init, IdleRecv, Asleep
<1> QED
  BY <1>1, <1>2, <1>3, <1>4 DEF Tracking, KindsAgree, SettledIsTold, FiredIsTold,
    OpenIsTracked

-----------------------------------------------------------------------------
\* The actions of the callers.

LEMMA NewCallTracks ==
  ASSUME IInv, Tracking, NEW c \in Callers, NewCall(c)
  PROVE  Tracking'
<1>1. PICK k \in Kinds, t \in Timeouts : ReqTimerId(c, k, t)
  BY DEF NewCall
<1> USE <1>1 DEF ReqTimerId, IInv, history
<1>2. next_timer_id \in Rids /\ Fresh(next_timer_id)
  BY ConstantsAssumption DEF Types, Rids, Fresh
<1>3. next_timer_id \notin Ids
  BY <1>2 DEF FreshIsUntouched
<1>4. \A r \in Rids : r # next_timer_id => kind'[r] = kind[r]
  BY DEF Types
<1>5. \A i \in DOMAIN timer_tasks :
        timer_tasks[i].id \in Rids /\ timer_tasks[i].id # next_timer_id
  BY <1>3, TaskAt DEF Ids
<1>6. /\ call'[c].pc = "add" /\ call'[c].kind = k /\ call'[c].rid = next_timer_id
      /\ kind'[next_timer_id] = k
      /\ \A d \in Callers \ {c} : call'[d] = call[d]
  BY <1>2 DEF Types
<1>7. \A d \in Callers : call[d].pc = "add" =>
        call[d].rid \in Rids /\ call[d].rid # next_timer_id
  <2> SUFFICES ASSUME NEW d \in Callers, call[d].pc = "add"
               PROVE  call[d].rid \in Rids /\ call[d].rid # next_timer_id
    OBVIOUS
  <2>1. call[d].rid \in 0 .. (next_timer_id - 1)
    BY DEF CallsApart
  <2>2. next_timer_id \in Nat /\ next_timer_id < MaxRequests /\ MaxRequests \in Nat
    BY ConstantsAssumption DEF Types
  <2> HIDE DEF IInv, ReqTimerId
  <2> QED BY <2>1, <2>2 DEF Rids
<1>8. KindsAgree'
  BY <1>4, <1>5, <1>6, <1>7 DEF Tracking, KindsAgree
<1>9. SettledIsTold'
  BY <1>2, <1>4 DEF Tracking, SettledIsTold, FoundWasRegistered, Types
<1>10. FiredIsTold'
  BY DEF Tracking, FiredIsTold, IsCurrent, TimerMutexFree
<1>11. OpenIsTracked'
  <2> SUFFICES ASSUME NEW r \in Rids, ~Fresh(r)', Open(r)' PROVE r \in Ids'
    BY DEF OpenIsTracked
  <2>1. r # next_timer_id
    BY <1>6 DEF Fresh
  <2>2. ~Fresh(r)
    BY <1>6, <2>1 DEF Fresh, Types, Rids
  <2>3. Open(r)
    BY <1>4, <2>1 DEF Open
  <2> QED BY <2>2, <2>3 DEF Tracking, OpenIsTracked, Ids
<1> QED BY <1>8, <1>9, <1>10, <1>11 DEF Tracking

LEMMA AddTimerTaskTracks ==
  ASSUME IInv, Tracking, NEW c \in Callers, AddTimerTask(c)
  PROVE  Tracking'
<1> DEFINE t == [id |-> call[c].rid, kind |-> call[c].kind,
                 interval |-> call[c].interval, left |-> call[c].interval]
<1> USE DEF AddTimerTask, IInv, history
<1>1. call[c] \in Call /\ call[c].pc = "add" /\ call[c].rid \in Rids
  BY ConstantsAssumption DEF Types, CallsApart, Rids, Call
<1>2. t \in Task /\ t.id = call[c].rid /\ t.kind = kind[t.id]
  BY <1>1 DEF Task, Call, Tracking, KindsAgree
<1>3. t.id \notin Ids
  BY <1>1, <1>2 DEF FreshIsUntouched, Fresh
<1>4. Ids' = Ids \cup {t.id}
  BY <1>2, <1>3, AppendTask
<1>5. /\ timer_tasks \in Seq(Task) /\ Len(timer_tasks) \in Nat
      /\ DOMAIN timer_tasks = 1 .. Len(timer_tasks) /\ timer_tasks' = Append(timer_tasks, t)
  BY DEF Types
<1>6. \A i \in DOMAIN timer_tasks' : timer_tasks'[i] = t \/ \E j \in DOMAIN timer_tasks :
                                       timer_tasks'[i] = timer_tasks[j]
  BY <1>2, <1>5, AppendProperties
<1> HIDE DEF t
<1>7. /\ call'[c].pc = "send"
      /\ \A d \in Callers \ {c} : call'[d] = call[d]
  BY <1>1 DEF Types, Call
<1>8. KindsAgree'
  <2>1. \A i \in DOMAIN timer_tasks' : timer_tasks'[i].kind = kind[timer_tasks'[i].id]
    BY <1>2, <1>6 DEF Tracking, KindsAgree
  <2>2. \A d \in Callers : call'[d].pc = "add" => call'[d].kind = kind[call'[d].rid]
    BY <1>7 DEF Tracking, KindsAgree
  <2> QED BY <2>1, <2>2 DEF KindsAgree
<1>9. SettledIsTold'
  <2>1. recv'.pc = recv.pc /\ recv'.type = recv.type /\ recv'.rid = recv.rid
    <3>1. recv \in Recv /\ (recv' = [recv EXCEPT !.ptr = 0] \/ recv' = recv)
      BY DEF Types
    <3> QED BY ONLY <3>1 DEF Recv
  <2> QED BY <2>1 DEF Tracking, SettledIsTold
<1>10. FiredIsTold'
  BY DEF FiredIsTold, TimerMutexFree
<1>11. OpenIsTracked'
  <2> SUFFICES ASSUME NEW r \in Rids, ~Fresh(r)', Open(r)', r # t.id PROVE r \in Ids'
    BY <1>4 DEF OpenIsTracked
  <2>1. ~Fresh(r)
    BY <1>2, <1>7 DEF Fresh
  <2>2. Open(r)
    BY DEF Open
  <2> QED BY <1>4, <2>1, <2>2 DEF Tracking, OpenIsTracked
<1> QED BY <1>8, <1>9, <1>10, <1>11 DEF Tracking

\* A step of a call that has registered its task and erases none.
LEMMA RegisteredTracks ==
  ASSUME IInv, Tracking, NEW c \in Callers,
         ReturnOk(c) \/ SendReportsFailure(c)
  PROVE  Tracking'
<1> USE DEF ReturnOk, SendReportsFailure, IInv, history
<1>1. call[c].pc \notin {"idle", "add"} /\ call[c].rid \in Rids /\ ret[call[c].rid] = "none"
  BY ConstantsAssumption DEF Types, CallsApart, Rids, Call
<1>2. /\ call'[c].pc # "add"
      /\ \A d \in Callers \ {c} : call'[d] = call[d]
  BY <1>1 DEF Types, Call, IdleCall
<1>3. UNCHANGED <<timer_tasks, next_timer_id, recv, sweep, kind, timeouts, finals, misread>>
  OBVIOUS
<1>4. KindsAgree'
  BY <1>2, <1>3 DEF Tracking, KindsAgree
<1>5. SettledIsTold' /\ FiredIsTold'
  BY <1>3 DEF Tracking, SettledIsTold, FiredIsTold, IsCurrent
<1>6. OpenIsTracked'
  <2> SUFFICES ASSUME NEW r \in Rids, ~Fresh(r)', Open(r)' PROVE r \in Ids'
    BY DEF OpenIsTracked
  <2>1. ~Fresh(r)
    BY <1>1, <1>2, <1>3 DEF Fresh
  <2>2. ret'[r] # "failed" => ret[r] # "failed"
    BY <1>1 DEF Types
  <2>3. Open(r)
    BY <1>3, <2>2 DEF Open
  <2> QED BY <1>3, <2>1, <2>3 DEF Tracking, OpenIsTracked, Ids
<1> QED BY <1>4, <1>5, <1>6 DEF Tracking

LEMMA UndoTimerTaskTracks ==
  ASSUME IInv, Tracking, NEW c \in Callers, UndoTimerTask(c)
  PROVE  Tracking'
<1> USE DEF UndoTimerTask, IInv
<1>1. call[c].pc = "undo" /\ call[c].rid \in Rids
  BY ConstantsAssumption DEF Types, CallsApart, Rids, Call
<1>2. /\ call'[c].pc = "idle"
      /\ \A d \in Callers \ {c} : call'[d] = call[d]
  BY DEF Types, IdleCall
<1>3. Ids' = Ids \ {call[c].rid}
  BY WithoutTaskErases
<1>4. \A i \in DOMAIN timer_tasks' :
        \E j \in DOMAIN timer_tasks : timer_tasks'[i] = timer_tasks[j]
  BY RemainingWithoutTask
<1>5. KindsAgree'
  BY <1>2, <1>4 DEF Tracking, KindsAgree
<1>6. SettledIsTold' /\ FiredIsTold'
  BY DEF Tracking, SettledIsTold, FiredIsTold, TimerMutexFree
<1>7. OpenIsTracked'
  <2> SUFFICES ASSUME NEW r \in Rids, ~Fresh(r)', Open(r)' PROVE r \in Ids'
    BY DEF OpenIsTracked
  <2>1. r # call[c].rid /\ ret'[r] = ret[r]
    BY <1>1 DEF Open, Types
  <2>2. ~Fresh(r)
    BY <1>1, <1>2 DEF Fresh
  <2>3. Open(r)
    BY <2>1 DEF Open
  <2> QED BY <1>3, <2>1, <2>2, <2>3 DEF Tracking, OpenIsTracked
<1> QED BY <1>5, <1>6, <1>7 DEF Tracking

-----------------------------------------------------------------------------
\* The receive thread.

LEMMA LookupTracks ==
  ASSUME IInv, Tracking, Arrival \/ GetTimerTaskInfo
  PROVE  Tracking'
<1>1. /\ UNCHANGED <<timer_tasks, next_timer_id, call, sweep, kind, ret, timeouts, finals, misread>>
      /\ recv'.pc # "settle"
  <2>1. CASE Arrival
    BY <2>1 DEF Arrival, ReceiveReply, history
  <2>2. CASE GetTimerTaskInfo
    BY <2>2 DEF GetTimerTaskInfo, IInv, Types, Recv, IdleRecv, history
  <2> QED BY <2>1, <2>2
<1> QED
  BY <1>1 DEF Tracking, KindsAgree, SettledIsTold, FiredIsTold, IsCurrent, OpenIsTracked,
    Fresh, Open, Ids

LEMMA DispatchTracks ==
  ASSUME IInv, Tracking, Dispatch
  PROVE  Tracking'
<1> USE DEF Dispatch, IInv
<1>1. recv \in Recv /\ recv.pc = "found" /\ recv.rid \in Rids
  BY DEF Types, FoundWasRegistered
<1>2. recv'.pc = "settle" /\ recv'.type = recv.type /\ recv'.rid = recv.rid
  BY <1>1 DEF Recv
<1>3. \A r \in Rids : finals'[r] = 0 => finals[r] = 0
  BY <1>1 DEF Types
<1>4. SettledIsTold'
  <2> SUFFICES ASSUME recv.type = "final", kind[recv.rid] = "request",
                      recv.rid \notin misread'
               PROVE  finals'[recv.rid] > 0
    BY <1>2 DEF SettledIsTold
  <2>1. recv.ptr \in DOMAIN timer_tasks /\ timer_tasks[recv.ptr].id = recv.rid
    BY <1>1 DEF Pointee, Rids, NoRid
  <2>2. KindsRead = {"request"}
    BY <2>1 DEF KindsRead, Tracking, KindsAgree
  <2>3. finals' = [finals EXCEPT ![recv.rid] = @ + 1] /\ finals[recv.rid] \in Nat
    BY <1>1, <2>2 DEF Types
  <2> QED BY <1>1, <2>3 DEF Types
<1>5. KindsAgree' /\ FiredIsTold'
  BY DEF Tracking, KindsAgree, FiredIsTold, IsCurrent
<1>6. OpenIsTracked'
  BY <1>3 DEF Tracking, OpenIsTracked, Open, Fresh, Ids
<1> QED BY <1>4, <1>5, <1>6 DEF Tracking

LEMMA SettleTracks ==
  ASSUME IInv, Tracking, Settle
  PROVE  Tracking'
<1> USE DEF Settle, IInv
<1>1. recv.pc = "settle" /\ recv.rid \in Rids
  BY DEF Types, FoundWasRegistered
<1>2. SettledIsTold' /\ FiredIsTold'
  BY DEF SettledIsTold, FiredIsTold, IdleRecv, TimerMutexFree
<1>3. CASE recv.type = "temp" /\ timer_tasks' = Restarted(recv.rid)
  <2>1. /\ DOMAIN timer_tasks' = DOMAIN timer_tasks
        /\ \A i \in DOMAIN timer_tasks : /\ timer_tasks'[i].id = timer_tasks[i].id
                                         /\ timer_tasks'[i].kind = timer_tasks[i].kind
    <3>1. DOMAIN timer_tasks' = DOMAIN timer_tasks
      BY <1>3 DEF Restarted
    <3>2. ASSUME NEW i \in DOMAIN timer_tasks
          PROVE  /\ timer_tasks'[i].id = timer_tasks[i].id
                 /\ timer_tasks'[i].kind = timer_tasks[i].kind
      <4>1. timer_tasks[i] \in Task
        BY TaskAt
      <4>2. \/ timer_tasks'[i] = timer_tasks[i]
            \/ timer_tasks'[i] = [timer_tasks[i] EXCEPT !.left = timer_tasks[i].interval]
        BY <1>3 DEF Restarted
      <4> QED BY <4>1, <4>2 DEF Task
    <3> QED BY <3>1, <3>2
  <2>2. Ids' = Ids
    BY <2>1, SameIds
  <2>3. KindsAgree'
    BY <2>1 DEF Tracking, KindsAgree
  <2>4. OpenIsTracked'
    BY <2>2 DEF Tracking, OpenIsTracked, Open, Fresh
  <2> QED BY <1>2, <2>3, <2>4 DEF Tracking
<1>4. CASE recv.type = "final" /\ timer_tasks' = WithoutTask(recv.rid)
  <2>1. Ids' = Ids \ {recv.rid}
    BY <1>4, WithoutTaskErases
  <2>2. KindsAgree'
    BY <1>4, RemainingWithoutTask DEF Tracking, KindsAgree
  <2>3. ~Open(recv.rid)
    BY <1>1, <1>4 DEF Tracking, SettledIsTold, Open
  <2>4. OpenIsTracked'
    BY <2>1, <2>3 DEF Tracking, OpenIsTracked, Open, Fresh
  <2> QED BY <1>2, <2>2, <2>4 DEF Tracking
<1> QED BY <1>3, <1>4

-----------------------------------------------------------------------------
\* The timer thread.

LEMMA TimeoutProcTracks ==
  ASSUME "RequestTimeout" \in Handlers, IInv, Tracking, TimeoutProc
  PROVE  Tracking'
<1> USE DEF TimeoutProc, IInv
<1>1. PICK i \in DOMAIN timer_tasks :
        /\ IsCurrent(i)
        /\ timeouts' = IF TimeoutHandlerFor[timer_tasks[i].kind] \in Handlers
                       THEN [timeouts EXCEPT ![timer_tasks[i].id] = @ + 1]
                       ELSE timeouts
  OBVIOUS
<1>2. timer_tasks[i].id \in Rids /\ timeouts \in [Rids -> Nat]
  BY TaskAt DEF Types
<1>3. \A r \in Rids : timeouts'[r] = 0 => timeouts[r] = 0
  BY <1>1, <1>2
<1>4. sweep'.marked = sweep.marked
  BY DEF Types, Sweep
<1>5. FiredIsTold'
  <2> SUFFICES ASSUME NEW j \in DOMAIN timer_tasks, IsCurrent(j),
                      timer_tasks[j].kind = "request"
               PROVE  timeouts'[timer_tasks[j].id] > 0
    BY <1>4 DEF FiredIsTold, IsCurrent
  <2>1. j = i
    BY <1>1, CurrentIsUnique
  <2>2. TimeoutHandlerFor[timer_tasks[i].kind] \in Handlers
    BY <2>1 DEF TimeoutHandlerFor
  <2> QED BY <1>1, <1>2, <2>1, <2>2
<1>6. KindsAgree' /\ SettledIsTold'
  BY DEF Tracking, KindsAgree, SettledIsTold
<1>7. OpenIsTracked'
  BY <1>3 DEF Tracking, OpenIsTracked, Open, Fresh, Ids
<1> QED BY <1>5, <1>6, <1>7 DEF Tracking

LEMMA EraseExpiredTracks ==
  ASSUME IInv, Tracking, EraseExpired
  PROVE  Tracking'
<1> USE DEF EraseExpired, IInv, history
<1>1. PICK i \in DOMAIN timer_tasks :
        IsCurrent(i) /\ timer_tasks' = RemoveAt(timer_tasks, i)
  OBVIOUS
<1>2. Ids' = Ids \ {timer_tasks[i].id}
  BY <1>1, EraseAt
<1>3. KindsAgree'
  BY <1>1, RemainingTasks DEF Tracking, KindsAgree
<1>4. SettledIsTold' /\ FiredIsTold'
  BY DEF Tracking, SettledIsTold, FiredIsTold, Types, Sweep
<1>5. timer_tasks[i].id \in Rids /\ ~Open(timer_tasks[i].id)
  <2>1. timer_tasks[i].id \in Rids /\ timeouts[timer_tasks[i].id] \in Nat
    BY TaskAt DEF Types
  <2>2. timer_tasks[i].kind = kind[timer_tasks[i].id]
    BY DEF Tracking, KindsAgree
  <2>3. timer_tasks[i].kind = "request" => timeouts[timer_tasks[i].id] > 0
    BY <1>1 DEF Tracking, FiredIsTold
  <2> HIDE DEF IInv, EraseExpired
  <2> QED BY <2>1, <2>2, <2>3 DEF Open
<1>6. OpenIsTracked'
  BY <1>2, <1>5 DEF Tracking, OpenIsTracked, Open, Fresh
<1> QED BY <1>3, <1>4, <1>6 DEF Tracking

LEMMA SweepBoundsTrack ==
  ASSUME IInv, Tracking, StartSweep \/ EndSweep
  PROVE  Tracking'
<1>1. /\ UNCHANGED <<timer_tasks, next_timer_id, call, recv, kind, ret, timeouts, finals, misread>>
      /\ sweep'.pc # "fired"
  BY DEF StartSweep, EndSweep, Asleep, history
<1> QED
  BY <1>1 DEF Tracking, KindsAgree, SettledIsTold, FiredIsTold, OpenIsTracked, Fresh, Open, Ids

LEMMA TickTracks ==
  ASSUME IInv, Tracking, Tick
  PROVE  Tracking'
<1> USE DEF Tick, IInv, history
<1>1. /\ DOMAIN timer_tasks' = DOMAIN timer_tasks
      /\ \A i \in DOMAIN timer_tasks : /\ timer_tasks'[i].id = timer_tasks[i].id
                                       /\ timer_tasks'[i].kind = timer_tasks[i].kind
  <2>1. DOMAIN timer_tasks' = DOMAIN timer_tasks
    OBVIOUS
  <2>2. ASSUME NEW i \in DOMAIN timer_tasks
        PROVE  /\ timer_tasks'[i].id = timer_tasks[i].id
               /\ timer_tasks'[i].kind = timer_tasks[i].kind
    <3>1. timer_tasks[i] \in Task
      BY TaskAt
    <3>2. \E n : timer_tasks'[i] = [timer_tasks[i] EXCEPT !.left = n]
      OBVIOUS
    <3> QED BY <3>1, <3>2 DEF Task
  <2> QED BY <2>1, <2>2
<1>2. Ids' = Ids
  BY <1>1, SameIds
<1>3. KindsAgree'
  BY <1>1 DEF Tracking, KindsAgree
<1>4. SettledIsTold'
  BY DEF Tracking, SettledIsTold
<1>5. FiredIsTold'
  <2>1. DOMAIN timer_tasks = 1 .. Len(timer_tasks) /\ Len(timer_tasks) \in Nat
    BY DEF Types
  <2>2. \A i \in DOMAIN timer_tasks : IsCurrent(i)' => IsCurrent(i)
    <3> TAKE i \in DOMAIN timer_tasks
    <3> HAVE IsCurrent(i)'
    <3>1. sweep' = sweep /\ timer_tasks[i].id \in sweep.marked
      BY <1>1 DEF IsCurrent
    <3>2. \A j \in 1 .. (i - 1) :
            j \in DOMAIN timer_tasks /\ timer_tasks'[j].id \notin sweep'.marked
      <4> HIDE DEF Tick, IInv
      <4>1. \A j \in 1 .. (i - 1) : timer_tasks'[j].id \notin sweep'.marked
        BY DEF IsCurrent
      <4>2. \A j \in 1 .. (i - 1) : j \in DOMAIN timer_tasks
        BY <2>1
      <4> QED BY <4>1, <4>2
    <3>3. \A j \in 1 .. (i - 1) : timer_tasks[j].id \notin sweep.marked
      BY <1>1, <3>1, <3>2
    <3> QED BY <3>1, <3>3 DEF IsCurrent
  <2> QED BY <1>1, <2>2 DEF Tracking, FiredIsTold
<1>6. OpenIsTracked'
  BY <1>2 DEF Tracking, OpenIsTracked, Open, Fresh
<1> QED BY <1>3, <1>4, <1>5, <1>6 DEF Tracking

-----------------------------------------------------------------------------

LEMMA NextTracks ==
  ASSUME "RequestTimeout" \in Handlers
  PROVE  IInv /\ Tracking /\ [Next]_vars => Tracking'
<1> SUFFICES ASSUME IInv, Tracking, [Next]_vars PROVE Tracking'
  OBVIOUS
<1>1. ASSUME NEW c \in Callers, NewCall(c) PROVE Tracking'
  BY <1>1, NewCallTracks
<1>2. ASSUME NEW c \in Callers, CallSteps(c) PROVE Tracking'
  BY <1>2, AddTimerTaskTracks, RegisteredTracks, UndoTimerTaskTracks DEF CallSteps
<1>3. CASE Arrival \/ GetTimerTaskInfo
  BY <1>3, LookupTracks
<1>4. CASE Dispatch \/ Settle
  BY <1>4, DispatchTracks, SettleTracks
<1>5. CASE SweepSteps
  BY <1>5, TimeoutProcTracks, EraseExpiredTracks, SweepBoundsTrack DEF SweepSteps
<1>6. CASE Tick
  BY <1>6, TickTracks
<1>7. CASE UNCHANGED vars
  BY <1>7 DEF vars, Tracking, KindsAgree, SettledIsTold, FiredIsTold, IsCurrent,
    OpenIsTracked, Open, Fresh, Ids
<1> QED BY <1>1, <1>2, <1>3, <1>4, <1>5, <1>6, <1>7 DEF Next, RecvSteps

\* A request that was accepted and has had no outcome is in the vector, where the
\* timer thread will find it, unless its task was read through a stale pointer:
\* for any application that listens to the timeouts of its requests.
THEOREM AcceptedIsTrackedHolds ==
  ASSUME "RequestTimeout" \in Handlers
  PROVE  Spec => []AcceptedIsTracked
<1>1. IInv /\ Tracking => AcceptedIsTracked
  <2> SUFFICES ASSUME IInv, Tracking, NEW r \in Rids, Unresolved(r), r \notin misread
               PROVE  r \in Ids
    BY DEF AcceptedIsTracked
  <2>1. ~Fresh(r)
    BY DEF IInv, FreshIsUntouched, Unresolved
  <2>2. Open(r)
    BY DEF Unresolved, Open
  <2> QED BY <2>1, <2>2 DEF Tracking, OpenIsTracked
<1>2. Init => Tracking
  BY InitTracking
<1>3. IInv /\ Tracking /\ [Next]_vars => Tracking'
  BY "RequestTimeout" \in Handlers, NextTracks
<1> QED BY <1>1, <1>2, <1>3, Invariance, PTL DEF Spec
=============================================================================
