------------------------- MODULE RequestPeersProofs -------------------------
(***************************************************************************)
(* Proofs about RequestPeers: for any set of processes, whoever makes      *)
(* requests to whom, and any number of calls, lives, crashes and lost      *)
(* connections.                                                            *)
(***************************************************************************)
EXTENDS RequestPeers, PropsTableProofs

-----------------------------------------------------------------------------
\* What travels.

AskTypes == {"RB_REQUEST", "RB_NOTIFICATION", "RB_REPORT"}
AnswerTypes == {"RB_TEMPORARY_RESPONSE", "RB_FINAL_RESPONSE"}

\* The properties of all messages the library makes, and the messages.
AllProps ==
  {RequestProps(f, t, k, r, NoPointer) : f \in Modules, t \in Modules, k \in Kinds,
                                         r \in Rids}
  \cup {ReportProps(f, t) : f \in Modules, t \in Modules}
  \cup {TempProps(f, t, r, "100") : f \in Modules, t \in Modules, r \in Rids}
  \cup {FinalProps(f, t, r, "200") : f \in Modules, t \in Modules, r \in Rids}
Wire == {Packed(p, i) : p \in AllProps, i \in Ids}
PropsOf(w) == AmqpTable2IntProps(HeadersOf(w))

LEMMA RequestFields ==
  ASSUME NEW f \in Modules, NEW t \in Modules, NEW k \in Kinds, NEW r \in Rids
  PROVE  LET p == RequestProps(f, t, k, r, NoPointer)
         IN  /\ p \in AllProps /\ p.msgtype = k
             /\ p.sender = f /\ p.receiver = t /\ p.rid = r
<1>1. RequestProps(f, t, k, r, NoPointer) \in AllProps
  BY DEF AllProps
<1>2. QED BY <1>1 DEF RequestProps

LEMMA ReportFields ==
  ASSUME NEW f \in Modules, NEW t \in Modules
  PROVE  LET p == ReportProps(f, t)
         IN  /\ p \in AllProps /\ p.msgtype = "RB_REPORT"
             /\ p.sender = f /\ p.receiver = t
<1>1. ReportProps(f, t) \in AllProps
  BY DEF AllProps
<1>2. QED BY <1>1 DEF ReportProps

LEMMA TempFields ==
  ASSUME NEW f \in Modules, NEW t \in Modules, NEW r \in Rids
  PROVE  LET p == TempProps(f, t, r, "100")
         IN  /\ p \in AllProps /\ p.msgtype = "RB_TEMPORARY_RESPONSE"
             /\ p.sender = f /\ p.receiver = t /\ p.rid = r
<1>1. TempProps(f, t, r, "100") \in AllProps
  BY DEF AllProps
<1>2. QED BY <1>1 DEF TempProps

LEMMA FinalFields ==
  ASSUME NEW f \in Modules, NEW t \in Modules, NEW r \in Rids
  PROVE  LET p == FinalProps(f, t, r, "200")
         IN  /\ p \in AllProps /\ p.msgtype = "RB_FINAL_RESPONSE"
             /\ p.sender = f /\ p.receiver = t /\ p.rid = r
<1>1. FinalProps(f, t, r, "200") \in AllProps
  BY DEF AllProps
<1>2. QED BY <1>1 DEF FinalProps

\* Every field of every message; a table that is read back is the one sent.
LEMMA AllFields ==
  ASSUME NEW p \in AllProps
  PROVE  /\ p.msgtype \in AskTypes \cup AnswerTypes
         /\ p.sender \in Modules /\ p.receiver \in Modules
         /\ p.msgtype # "RB_REPORT" => p.rid \in Rids
<1>1. CASE p \in {RequestProps(f, t, k, r, NoPointer) :
                    f \in Modules, t \in Modules, k \in Kinds, r \in Rids}
  BY <1>1, RequestFields DEF AskTypes, AnswerTypes, Kinds
<1>2. CASE p \in {ReportProps(f, t) : f \in Modules, t \in Modules}
  BY <1>2, ReportFields DEF AskTypes, AnswerTypes
<1>3. CASE p \in {TempProps(f, t, r, "100") : f \in Modules, t \in Modules, r \in Rids}
  BY <1>3, TempFields DEF AskTypes, AnswerTypes
<1>4. CASE p \in {FinalProps(f, t, r, "200") : f \in Modules, t \in Modules, r \in Rids}
  BY <1>4, FinalFields DEF AskTypes, AnswerTypes
<1> QED BY <1>1, <1>2, <1>3, <1>4 DEF AllProps

IsProps(p) ==
  p = [sender |-> p.sender, receiver |-> p.receiver, msgtype |-> p.msgtype,
       msgname |-> p.msgname, rid |-> p.rid, inarg |-> p.inarg, timestamp |-> p.timestamp,
       rspcode |-> p.rspcode, rspdesc |-> p.rspdesc, trans |-> p.trans]

\* The texts that are not the names of modules have no NUL in them.
Whole(p) ==
  /\ CString(p.msgname) = p.msgname /\ CString(p.rspcode) = p.rspcode
  /\ CString(p.rspdesc) = p.rspdesc /\ CString(p.trans) = p.trans

LEMMA ReadBack ==
  ASSUME NEW p \in AllProps
  PROVE  AmqpTable2IntProps(IntProps2AmqpTable(p)) = p
<1> DEFINE q == AmqpTable2IntProps(IntProps2AmqpTable(p))
<1>1. IsProps(p)
  <2>1. \A f, t, k, r : IsProps(RequestProps(f, t, k, r, NoPointer))
    BY DEF IsProps, RequestProps
  <2>2. \A f, t : IsProps(ReportProps(f, t))
    BY DEF IsProps, ReportProps
  <2>3. \A f, t, r : IsProps(TempProps(f, t, r, "100"))
    BY DEF IsProps, TempProps
  <2>4. \A f, t, r : IsProps(FinalProps(f, t, r, "200"))
    BY DEF IsProps, FinalProps
  <2> QED BY <2>1, <2>2, <2>3, <2>4 DEF AllProps
<1>0. /\ CString(p.sender) = p.sender /\ CString(p.receiver) = p.receiver
      /\ CString(p.msgname) = p.msgname /\ CString(p.rspcode) = p.rspcode
      /\ CString(p.rspdesc) = p.rspdesc /\ CString(p.trans) = p.trans
  <2>1. p.sender \in Modules /\ p.receiver \in Modules
    BY AllFields
  <2>2. Whole(p)
    <3>1. \A f, t, k, r : Whole(RequestProps(f, t, k, r, NoPointer))
      <4> SUFFICES ASSUME NEW f, NEW t, NEW k, NEW r
                   PROVE  Whole(RequestProps(f, t, k, r, NoPointer))
        OBVIOUS
      <4> QED BY TextAssumption DEF Whole, RequestProps
    <3>2. \A f, t : Whole(ReportProps(f, t))
      BY TextAssumption DEF Whole, ReportProps
    <3>3. \A f, t, r : Whole(TempProps(f, t, r, "100"))
      BY TextAssumption DEF Whole, TempProps
    <3>4. \A f, t, r : Whole(FinalProps(f, t, r, "200"))
      BY TextAssumption DEF Whole, FinalProps
    <3> QED BY <3>1, <3>2, <3>3, <3>4 DEF AllProps
  <2> QED BY <2>1, <2>2, PeersAssumption DEF Whole
<1>2. /\ DOMAIN q = Fields
      /\ q.sender = p.sender /\ q.receiver = p.receiver
      /\ q.msgtype = p.msgtype /\ q.msgname = p.msgname /\ q.rid = p.rid
      /\ q.inarg = p.inarg /\ q.timestamp = p.timestamp
      /\ q.rspcode = p.rspcode /\ q.rspdesc = p.rspdesc /\ q.trans = p.trans
  BY <1>0, RoundTrip
<1>3. q = [f \in DOMAIN q |-> q[f]]
  BY DEF AmqpTable2IntProps
<1> HIDE DEF q
<1>4. Fields = {"sender", "receiver", "msgtype", "msgname", "rid", "inarg", "timestamp",
                "rspcode", "rspdesc", "trans"}
  BY EntryFields DEF Fields
<1>5. q = p
  BY <1>1, <1>2, <1>3, <1>4 DEF IsProps
<1> QED BY <1>5 DEF q

LEMMA PackedFacts ==
  ASSUME NEW p \in AllProps, NEW i \in Ids
  PROVE  LET w == Packed(p, i)
         IN  /\ w \in Wire /\ w.id = i /\ PropsOf(w) = p /\ IsMessage(w)
<1> DEFINE w == Packed(p, i)
           b == BasicProperties(SendFlags, IntProps2AmqpTable(p))
<1>1. w.id = i /\ w.content.properties = b
  BY DEF Packed, Message
<1>2. HeadersOf(w) = IntProps2AmqpTable(p)
  BY DEF Packed, Message, HeadersOf, BasicProperties
<1>3. Readable(b)
  BY PackedIsReadable
<1>4. IsTable(IntProps2AmqpTable(p))
  <2> DEFINE t == IntProps2AmqpTable(p)
             Known(j) == t[j].value.kind \in FieldKinds
  <2>1. Len(t) = 10
    BY Entries
  <2>2. /\ Known(1) /\ Known(2) /\ Known(3) /\ Known(4) /\ Known(5)
        /\ Known(6) /\ Known(7) /\ Known(8) /\ Known(9) /\ Known(10)
    <3>1. PICK u : u = t
      OBVIOUS
    <3> HIDE DEF t
    <3>2. /\ u[1].value.kind = "BYTES" /\ u[2].value.kind = "BYTES"
          /\ u[3].value.kind = "I32" /\ u[4].value.kind = "BYTES"
          /\ u[5].value.kind = "I32" /\ u[6].value.kind = "I64"
          /\ u[7].value.kind = "I64" /\ u[8].value.kind = "BYTES"
          /\ u[9].value.kind = "BYTES" /\ u[10].value.kind = "BYTES"
      BY <3>1, EntryKeys DEF t
    <3> QED BY <3>1, <3>2 DEF FieldKinds
  <2> HIDE DEF Known
  <2>3. \A j \in 1 .. 10 : Known(j)
    BY <2>2
  <2> HIDE DEF t
  <2>4. IsTable(t)
    BY <2>1, <2>3 DEF IsTable, Known
  <2> QED BY <2>4 DEF t
<1>5. PropsOf(w) = p
  BY <1>2, ReadBack DEF PropsOf
<1>6. DOMAIN AmqpTable2IntProps(IntProps2AmqpTable(p)) = Fields
  BY RoundTrip
<1> HIDE DEF b
<1>7. IsMessage(w)
  <2> HIDE DEF w
  <2> QED BY <1>1, <1>2, <1>3, <1>4, <1>6 DEF IsMessage
<1> QED BY <1>1, <1>5, <1>7 DEF Wire

LEMMA WireFacts ==
  ASSUME NEW w \in Wire
  PROVE  w.id \in Ids /\ PropsOf(w) \in AllProps /\ IsMessage(w)
<1>1. PICK p \in AllProps, i \in Ids : w = Packed(p, i)
  BY DEF Wire
<1> QED BY <1>1, PackedFacts

-----------------------------------------------------------------------------
\* The invariant, in parts.

CallRecords == [pc : {"idle", "begin", "publish", "reply", "undo"}, rid : Rids \cup {-1},
                kind : Kinds, to : Modules \cup {"none"}]
RecvRecords == [pc : {"idle", "handle", "found", "callback", "ack", "settle", "ended"},
                props : AllProps \cup {NoProps}, id : Ids \cup {<< >>}, stale : BOOLEAN]
TimerRecords == [pc : {"sleep", "scan", "callback", "stuck", "ended"},
                 marked : SUBSET Rids, rid : Rids \cup {-1}]
QueueRecords == [exists : BOOLEAN, messages : Seq(Wire)]
OpenRecords == [from : Modules, rid : Rids, id : Ids]
Outcomes == {"final", "ack", "timeout", "silent", "misread"}

LifeOK ==
  /\ life \in [Modules -> {"up", "stopping", "freed", "off"}]
  /\ lives \in [Modules -> Lives]
  /\ handlers \in [Modules -> BOOLEAN]
  /\ conn \in [Modules -> BOOLEAN] /\ ghost \in [Modules -> BOOLEAN]

\* Every rid that was handed out, and every call that has yet to get one, is a
\* call that was counted.  Two threads never have the same rid in their hands.
Begun(m, th) == IF call[m][th].pc = "begin" THEN 1 ELSE 0
CallsOK ==
  /\ call \in [Modules -> [Threads -> CallRecords]]
  /\ next_timer_id \in [Modules -> Nat]
  /\ calls \in 0 .. MaxCalls
  /\ \A m \in Modules :
       /\ next_timer_id[m] + Begun(m, "app") + Begun(m, "recv") <= calls
       /\ \A th \in Threads :
            /\ call[m][th].pc # "idle" => call[m][th].to \in Modules
            /\ call[m][th].pc \in {"publish", "reply", "undo"} =>
                 call[m][th].rid \in Rids /\ call[m][th].rid < next_timer_id[m]
            /\ life[m] = "off" => call[m][th].pc = "idle"
       /\ call[m]["app"].pc = "publish" /\ call[m]["recv"].pc = "publish" =>
            call[m]["app"].rid # call[m]["recv"].rid

TasksOK ==
  /\ tasks \in [Modules -> SUBSET Task]
  /\ \A m \in Modules :
       /\ \A t, u \in tasks[m] : t.rid = u.rid => t = u
       /\ \A t \in tasks[m] : t.rid < next_timer_id[m]
       /\ life[m] = "off" => tasks[m] = {}

\* A destroyed client has no threads.
RecvOK ==
  /\ recv \in [Modules -> RecvRecords]
  /\ \A m \in Modules :
       /\ recv[m].pc \in {"idle", "ended"} =>
            recv[m].props = NoProps /\ recv[m].id = << >> /\ ~recv[m].stale
       /\ recv[m].pc \notin {"idle", "ended"} => recv[m].props \in AllProps /\ recv[m].id \in Ids
       /\ recv[m].pc = "ended" => life[m] \in {"stopping", "freed"}
       /\ life[m] = "freed" => recv[m].pc = "ended"
       /\ life[m] = "off" => recv[m].pc = "idle"

TimerOK ==
  /\ timer \in [Modules -> TimerRecords]
  /\ \A m \in Modules :
       /\ timer[m].pc = "ended" => life[m] \in {"stopping", "freed"}
       /\ life[m] = "freed" => timer[m].pc = "ended"

QueueOK == queue \in [Modules -> QueueRecords]
OpenOK == open \in [Modules -> SUBSET OpenRecords]

HistoryOK ==
  /\ asked \subseteq Ids /\ accepted \subseteq Ids /\ answered \subseteq Ids
  /\ handled \in [Ids -> Nat]
  /\ outcome \in [Ids -> SUBSET Outcomes]

TypeInv ==
  LifeOK /\ CallsOK /\ TasksOK /\ RecvOK /\ TimerOK /\ QueueOK /\ OpenOK /\ HistoryOK

\* Whatever travels, is in the hands of a receive thread or open at an application
\* says of its request what is true, and a final response comes from one that was
\* handled.
Honest(m, p, i) ==
  /\ i[2] <= lives[i[1]]
  /\ p.msgtype \in Kinds => p.sender = i[1] /\ p.rid = i[3] /\ i \in asked
  /\ p.msgtype = "RB_REPORT" => i[3] < 0
  /\ p.msgtype = "RB_FINAL_RESPONSE" =>
       i[1] = m /\ i[3] = p.rid /\ handled[i] > 0 /\ i \in answered
AllHonest ==
  \A m \in Modules :
    /\ \A k \in 1 .. Len(queue[m].messages) :
         Honest(m, PropsOf(queue[m].messages[k]), queue[m].messages[k].id)
    /\ recv[m].pc \notin {"idle", "ended"} =>
         /\ Honest(m, recv[m].props, recv[m].id)
         /\ recv[m].pc \in {"callback", "ack"} /\ recv[m].props.msgtype \in AskTypes =>
              handled[recv[m].id] > 0
         /\ recv[m].pc = "ack" => recv[m].props.msgtype = "RB_NOTIFICATION"
    /\ \A o \in open[m] :
         /\ o.from = o.id[1] /\ o.rid = o.id[3] /\ o.id[2] <= lives[o.from]
         /\ handled[o.id] > 0 /\ o.id \in asked
Genuine == credited \subseteq Ids \X Ids /\ AnswerIsGenuine

\* A request, notification or report is in one place at most: in the hands of a
\* receive thread (place 0) or in a queue.  Once it was handled it is nowhere.
AskAt(m, k, i) ==
  \/ /\ k = 0 /\ recv[m].pc = "handle"
     /\ recv[m].props.msgtype \in AskTypes /\ recv[m].id = i
  \/ /\ k \in 1 .. Len(queue[m].messages)
     /\ PropsOf(queue[m].messages[k]).msgtype \in AskTypes
     /\ queue[m].messages[k].id = i
Issued(i) ==
  /\ i[2] <= lives[i[1]]
  /\ i[3] < 0 => -i[3] <= calls
  /\ i[3] >= 0 /\ i[2] = lives[i[1]] =>
       /\ i[3] < next_timer_id[i[1]]
       /\ \A th \in Threads : ~(call[i[1]][th].pc = "publish" /\ call[i[1]][th].rid = i[3])
AsksOnce ==
  \A i \in Ids :
    /\ \A m, n \in Modules, k, l \in Nat : AskAt(m, k, i) /\ AskAt(n, l, i) => m = n /\ k = l
    /\ handled[i] <= 1
    /\ handled[i] > 0 => Issued(i) /\ \A m \in Modules, k \in Nat : ~AskAt(m, k, i)
    /\ \A m \in Modules, k \in Nat : AskAt(m, k, i) => Issued(i)

\* Every rid that a living process has handed out belongs to a task that was added.
RidsAsked == \A m \in Modules : \A r \in Rids : r < next_timer_id[m] => IdOf(m, r) \in asked

IInv == TypeInv /\ AllHonest /\ RidsAsked /\ Genuine /\ AsksOnce

-----------------------------------------------------------------------------
\* The steps.

Step(m) ==
  \/ SetHandlers(m) \/ NewCall(m) \/ Answering(m)
  \/ \E th \in Threads : CallSteps(m, th)
  \/ TakeMessage(m) \/ HandleSteps(m) \/ ReceiveEnds(m)
  \/ TimerSteps(m) \/ TimeoutCallbackCalls(m)
  \/ Fault(m) \/ Reconnect(m) \/ Restart(m) \/ Destroy(m) \/ Freed(m)

LEMMA NextIsStep ==
  ASSUME Next
  PROVE  \E m \in Modules : Step(m)
BY DEF Next, Step

\* Ids and lives.
LEMMA IdFacts ==
  ASSUME LifeOK, NEW m \in Modules, NEW r \in -MaxCalls .. MaxCalls - 1
  PROVE  /\ IdOf(m, r) \in Ids
         /\ IdOf(m, r)[1] = m /\ IdOf(m, r)[2] = lives[m] /\ IdOf(m, r)[3] = r
BY PeersAssumption DEF IdOf, Ids, LifeOK

LEMMA IdParts ==
  ASSUME NEW i \in Ids
  PROVE  /\ i[1] \in Modules /\ i[2] \in Lives /\ i[3] \in -MaxCalls .. MaxCalls - 1
         /\ i = <<i[1], i[2], i[3]>>
BY DEF Ids

LEMMA SomeSizes ==
  /\ MaxCalls \in Nat /\ MaxLives \in Nat \ {0}
  /\ Rids \subseteq Nat /\ Rids \subseteq -MaxCalls .. MaxCalls - 1
  /\ \A r \in Nat : r \in Rids <=> r < MaxCalls
BY PeersAssumption DEF Rids

-----------------------------------------------------------------------------
\* Lives and connections.

LEMMA LifeKept ==
  ASSUME LifeOK, NEW m \in Modules, Step(m)
  PROVE  LifeOK'
<1> USE DEF LifeOK
<1>1. CASE SetHandlers(m)
  BY <1>1 DEF SetHandlers, broker
<1>2. CASE BrokerNotices(m)
  BY <1>2 DEF BrokerNotices, local
<1>3. CASE ConnectionBreaks(m)
  BY <1>3 DEF ConnectionBreaks, local
<1>4. CASE Reconnect(m)
  BY <1>4 DEF Reconnect, local
<1>5. CASE Crash(m)
  BY <1>5 DEF Crash
<1>6. CASE Restart(m)
  <2>1. lives[m] + 1 \in Lives
    BY <1>6, PeersAssumption DEF Restart, Lives
  <2> QED BY <1>6, <2>1 DEF Restart
<1>7. CASE Destroy(m)
  BY <1>7 DEF Destroy, broker
<1>8. CASE Freed(m)
  BY <1>8 DEF Freed
<1>9. CASE UNCHANGED <<life, lives, handlers, conn, ghost>>
  BY <1>9
<1> HIDE DEF LifeOK
<1>10. ASSUME NewCall(m) \/ Answering(m) \/ (\E th \in Threads : CallSteps(m, th))
       PROVE  UNCHANGED <<life, lives, handlers, conn, ghost>>
  BY <1>10 DEF NewCall, Answering, CallSteps, BeginCall, Report, TempResponse, FinalResponse,
               Register, Publish, ReturnOk, PublishFails, Undo, local, broker
<1>11. ASSUME TakeMessage(m) \/ HandleSteps(m) \/ ReceiveEnds(m)
       PROVE  UNCHANGED <<life, lives, handlers, conn, ghost>>
  BY <1>11 DEF TakeMessage, HandleSteps, ReceiveEnds, Ignore, HandleRequest, Lookup, Dispatch,
               CallbackReturns, AutoResponse, Settle, local, broker
<1>12. ASSUME TimerSteps(m) \/ TimeoutCallbackCalls(m) \/ LostToGhost(m)
       PROVE  UNCHANGED <<life, lives, handlers, conn, ghost>>
  BY <1>12 DEF TimerSteps, TimeoutCallbackCalls, LostToGhost, StartSweep, Erase, EndSweep,
               TimerEnds, TimeoutProc, local, broker
<1> QED
  BY <1>1, <1>2, <1>3, <1>4, <1>5, <1>6, <1>7, <1>8, <1>9, <1>10, <1>11, <1>12
  DEF Step, Fault

\* What never goes back.
LEMMA Grows ==
  ASSUME LifeOK, HistoryOK, NEW m \in Modules, Step(m), recv[m].pc = "handle" => recv[m].id \in Ids
  PROVE  /\ \A n \in Modules : lives'[n] >= lives[n]
         /\ \A i \in Ids : handled'[i] >= handled[i]
         /\ answered \subseteq answered' /\ asked \subseteq asked'
<1> USE DEF LifeOK, HistoryOK, Lives
<1>1. CASE Restart(m)
  BY <1>1 DEF Restart, history
<1>2. CASE HandleRequest(m)
  BY <1>2 DEF HandleRequest, At
<1>3. CASE /\ answered \subseteq answered' /\ asked \subseteq asked'
           /\ UNCHANGED <<lives, handled>>
  BY <1>3
<1>10. ASSUME NewCall(m) \/ Answering(m) \/ (\E th \in Threads : CallSteps(m, th)) \/ SetHandlers(m)
       PROVE  /\ answered \subseteq answered' /\ asked \subseteq asked'
              /\ UNCHANGED <<lives, handled>>
  BY <1>10 DEF NewCall, Answering, CallSteps, BeginCall, Report, TempResponse, FinalResponse,
               Register, Publish, ReturnOk, PublishFails, Undo, local, broker, SetHandlers, history
<1>11. ASSUME TakeMessage(m) \/ HandleSteps(m) \/ ReceiveEnds(m), ~HandleRequest(m)
       PROVE  /\ answered \subseteq answered' /\ asked \subseteq asked'
              /\ UNCHANGED <<lives, handled>>
  BY <1>11 DEF TakeMessage, HandleSteps, ReceiveEnds, Ignore, Lookup, Dispatch,
               CallbackReturns, AutoResponse, Settle, local, broker, history
<1>12. ASSUME TimerSteps(m) \/ TimeoutCallbackCalls(m) \/ Fault(m)
       PROVE  /\ answered \subseteq answered' /\ asked \subseteq asked'
              /\ UNCHANGED <<lives, handled>>
  BY <1>12 DEF TimerSteps, TimeoutCallbackCalls, LostToGhost, StartSweep, Erase, EndSweep,
               TimerEnds, TimeoutProc, local, broker, Fault, BrokerNotices, ConnectionBreaks,
               Crash, history
<1>13. ASSUME Reconnect(m) \/ Destroy(m) \/ Freed(m)
       PROVE  /\ answered \subseteq answered' /\ asked \subseteq asked'
              /\ UNCHANGED <<lives, handled>>
  BY <1>13 DEF Reconnect, Destroy, Freed, local, history
<1> HIDE DEF LifeOK, HistoryOK
<1> QED
  BY <1>1, <1>2, <1>3, <1>10, <1>11, <1>12, <1>13 DEF Step

-----------------------------------------------------------------------------
\* Calls.

\* One call changes.
CallSet(m, th, c) ==
  /\ call'[m][th] = c
  /\ \A n \in Modules, t \in Threads : n # m \/ t # th => call'[n][t] = call[n][t]
  /\ call' \in [Modules -> [Threads -> CallRecords]]

LEMMA CallUpdate ==
  ASSUME CallsOK, NEW m \in Modules, NEW th \in Threads, NEW c \in CallRecords,
         call' = [call EXCEPT ![m][th] = c]
  PROVE  CallSet(m, th, c)
BY DEF CallsOK, CallSet

LEMMA CallFields ==
  ASSUME NEW c \in CallRecords
  PROVE  /\ c.pc \in {"idle", "begin", "publish", "reply", "undo"} /\ c.rid \in Rids \cup {-1}
         /\ c.kind \in Kinds /\ c.to \in Modules \cup {"none"}
BY DEF CallRecords

LEMMA CallWithPc ==
  ASSUME NEW c \in CallRecords, NEW pc \in {"reply", "undo"}
  PROVE  LET d == [c EXCEPT !.pc = pc]
         IN  d \in CallRecords /\ d.pc = pc /\ d.rid = c.rid /\ d.to = c.to
BY DEF CallRecords

LEMMA CallWithRid ==
  ASSUME NEW c \in CallRecords, NEW r \in Rids
  PROVE  LET d == [c EXCEPT !.pc = "publish", !.rid = r]
         IN  d \in CallRecords /\ d.pc = "publish" /\ d.rid = r /\ d.to = c.to
BY DEF CallRecords

LEMMA IdleCallFields ==
  IdleCall \in CallRecords /\ IdleCall.pc = "idle"
BY DEF IdleCall, CallRecords, Kinds

LEMMA PeersAreModules ==
  ASSUME NEW m \in Modules
  PROVE  Peers[m] \subseteq Modules
BY PeersAssumption

\* The parts of CallsOK about one process.
CallsOf(m) ==
  /\ next_timer_id[m] + Begun(m, "app") + Begun(m, "recv") <= calls
  /\ \A th \in Threads :
       /\ call[m][th].pc # "idle" => call[m][th].to \in Modules
       /\ call[m][th].pc \in {"publish", "reply", "undo"} =>
            call[m][th].rid \in Rids /\ call[m][th].rid < next_timer_id[m]
       /\ life[m] = "off" => call[m][th].pc = "idle"
  /\ call[m]["app"].pc = "publish" /\ call[m]["recv"].pc = "publish" =>
       call[m]["app"].rid # call[m]["recv"].rid

\* A process whose calls do not change keeps its part.
LEMMA OtherCalls ==
  ASSUME CallsOK, NEW n \in Modules, calls' \in Nat, calls' >= calls,
         call'[n] = call[n], next_timer_id'[n] = next_timer_id[n],
         life'[n] = "off" => life[n] = "off"
  PROVE  CallsOf(n)'
<1>1. CallsOf(n) /\ calls \in Nat /\ next_timer_id[n] \in Nat
  BY SomeSizes DEF CallsOK, CallsOf
<1>2. Begun(n, "app")' = Begun(n, "app") /\ Begun(n, "recv")' = Begun(n, "recv")
  BY DEF Begun
<1>3. Begun(n, "app") \in Nat /\ Begun(n, "recv") \in Nat
  BY DEF Begun
<1>4. next_timer_id'[n] + Begun(n, "app")' + Begun(n, "recv")' <= calls'
  BY <1>1, <1>2, <1>3 DEF CallsOf
<1> QED BY <1>1, <1>4 DEF CallsOf

\* Everything that follows from one call changing, in a process that lives.
LEMMA OneCall ==
  ASSUME CallsOK, NEW m \in Modules, NEW th \in Threads, NEW c \in CallRecords,
         CallSet(m, th, c),
         life' = life, next_timer_id' \in [Modules -> Nat],
         \A n \in Modules : n # m => next_timer_id'[n] = next_timer_id[n],
         next_timer_id'[m] >= next_timer_id[m],
         calls' \in 0 .. MaxCalls, calls' >= calls,
         CallsOf(m)'
  PROVE  CallsOK'
<1>1. \A n \in Modules : n # m => CallsOf(n)'
  <2> SUFFICES ASSUME NEW n \in Modules, n # m PROVE CallsOf(n)'
    OBVIOUS
  <2>1. call'[n] = call[n]
    BY DEF CallSet, CallsOK
  <2> QED BY <2>1, OtherCalls, SomeSizes
<1>2. \A n \in Modules : CallsOf(n)'
  BY <1>1
<1>3. call' \in [Modules -> [Threads -> CallRecords]]
  BY DEF CallSet
<1> QED BY <1>2, <1>3 DEF CallsOK, CallsOf

LEMMA CallsSame ==
  ASSUME CallsOK, UNCHANGED <<call, next_timer_id>>, calls' \in 0 .. MaxCalls, calls' >= calls,
         \A n \in Modules : life'[n] = "off" => life[n] = "off"
  PROVE  CallsOK'
<1>1. \A n \in Modules : CallsOf(n)'
  BY OtherCalls, SomeSizes
<1> QED BY <1>1 DEF CallsOK, CallsOf

LEMMA BeginCallKeepsCalls ==
  ASSUME CallsOK, RecvOK, NEW m \in Modules, NEW th \in Threads, NEW kind \in Kinds,
         NEW to \in Peers[m], BeginCall(m, th, kind, to)
  PROVE  CallsOK'
<1> DEFINE c == [pc |-> "begin", rid |-> -1, kind |-> kind, to |-> to]
<1>1. c \in CallRecords /\ c.pc = "begin" /\ c.to \in Modules
  BY PeersAreModules DEF CallRecords
<1>2. call' = [call EXCEPT ![m][th] = c] /\ call[m][th].pc = "idle"
  BY DEF BeginCall
<1> HIDE DEF c
<1>3. CallSet(m, th, c)
  BY <1>1, <1>2, CallUpdate
<1>4. calls' = calls + 1 /\ calls < MaxCalls /\ UNCHANGED <<life, next_timer_id>>
  BY DEF BeginCall, local
<1>5. calls' \in 0 .. MaxCalls /\ calls' >= calls
  BY <1>4, SomeSizes DEF CallsOK
<1>6. CallsOf(m) /\ next_timer_id[m] \in Nat /\ calls \in Nat
  BY DEF CallsOf, CallsOK
<1>7. CallsOf(m)'
  <2>1. Begun(m, th)' = 1 /\ Begun(m, th) = 0
    BY <1>1, <1>2, <1>3 DEF Begun, CallSet
  <2>2. \A t \in Threads : t # th => call'[m][t] = call[m][t]
    BY <1>3 DEF CallSet
  <2>3. \A t \in Threads : t # th => Begun(m, t)' = Begun(m, t) /\ Begun(m, t) \in Nat
    BY <2>2 DEF Begun
  <2>4. next_timer_id'[m] + Begun(m, "app")' + Begun(m, "recv")' <= calls'
    <3>1. CASE th = "app"
      BY <1>4, <1>6, <2>1, <2>3, <3>1 DEF CallsOf, Threads
    <3>2. CASE th = "recv"
      BY <1>4, <1>6, <2>1, <2>3, <3>2 DEF CallsOf, Threads
    <3> QED BY <3>1, <3>2 DEF Threads
  <2>5. life[m] # "off"
    <3>1. th = "app" => life[m] # "off"
      BY DEF BeginCall
    <3>2. th = "recv" => life[m] # "off"
      BY DEF BeginCall, At, RecvOK
    <3> QED BY <3>1, <3>2 DEF Threads
  <2>6. call'[m][th].pc = "begin" /\ call'[m][th].to \in Modules
    BY <1>1, <1>3 DEF CallSet
  <2> QED BY <1>4, <1>6, <2>2, <2>4, <2>5, <2>6 DEF CallsOf, Threads
<1> QED BY <1>1, <1>3, <1>4, <1>5, <1>7, OneCall, SMTT(30) DEF CallsOK

LEMMA RegisterKeepsCalls ==
  ASSUME CallsOK, NEW m \in Modules, NEW th \in Threads, Register(m, th)
  PROVE  /\ CallsOK' /\ next_timer_id[m] \in Rids
         /\ next_timer_id' = [next_timer_id EXCEPT ![m] = next_timer_id[m] + 1]
         /\ call[m][th].to \in Modules
<1> DEFINE r == next_timer_id[m]
           c == [call[m][th] EXCEPT !.pc = "publish", !.rid = r]
<1>1. CallsOf(m) /\ r \in Nat /\ calls \in 0 .. MaxCalls /\ call[m][th] \in CallRecords
  BY DEF CallsOf, CallsOK
<1>2. call[m][th].pc = "begin"
  BY DEF Register
<1>3. r < calls
  <2>1. Begun(m, th) = 1
    BY <1>2 DEF Begun
  <2>2. \A t \in Threads : Begun(m, t) \in Nat
    BY DEF Begun
  <2>3. CASE th = "app"
    BY <1>1, <2>1, <2>2, <2>3, SomeSizes DEF CallsOf, Threads
  <2>4. CASE th = "recv"
    BY <1>1, <2>1, <2>2, <2>4, SomeSizes DEF CallsOf, Threads
  <2> QED BY <2>3, <2>4 DEF Threads
<1>4. r \in Rids
  BY <1>1, <1>3, SomeSizes DEF Rids
<1>5. call' = [call EXCEPT ![m][th] = c]
  BY DEF Register
<1>6. c \in CallRecords /\ c.pc = "publish" /\ c.rid = r /\ c.to = call[m][th].to
  BY <1>1, <1>4, CallWithRid
<1> HIDE DEF c
<1>7. CallSet(m, th, c)
  BY <1>5, <1>6, CallUpdate
<1>8. /\ next_timer_id' = [next_timer_id EXCEPT ![m] = r + 1]
      /\ UNCHANGED <<life, calls>>
  BY DEF Register, NextTimerId, bounds
<1>9. /\ next_timer_id' \in [Modules -> Nat] /\ next_timer_id'[m] = r + 1
      /\ \A n \in Modules : n # m => next_timer_id'[n] = next_timer_id[n]
  BY <1>1, <1>8 DEF CallsOK
<1>10. call[m][th].to \in Modules /\ life[m] # "off"
  BY <1>1, <1>2 DEF CallsOf
<1>11. CallsOf(m)'
  <2>1. Begun(m, th)' = 0 /\ Begun(m, th) = 1
    BY <1>2, <1>6, <1>7 DEF Begun, CallSet
  <2>2. \A t \in Threads : t # th => call'[m][t] = call[m][t]
    BY <1>7 DEF CallSet
  <2>3. \A t \in Threads : t # th => Begun(m, t)' = Begun(m, t) /\ Begun(m, t) \in Nat
    BY <2>2 DEF Begun
  <2>4. next_timer_id'[m] + Begun(m, "app")' + Begun(m, "recv")' <= calls'
    <3>1. CASE th = "app"
      BY <1>1, <1>8, <1>9, <2>1, <2>3, <3>1 DEF CallsOf, Threads
    <3>2. CASE th = "recv"
      BY <1>1, <1>8, <1>9, <2>1, <2>3, <3>2 DEF CallsOf, Threads
    <3> QED BY <3>1, <3>2 DEF Threads
  <2>5. call'[m][th].pc = "publish" /\ call'[m][th].to \in Modules /\ call'[m][th].rid = r
    BY <1>6, <1>7, <1>10 DEF CallSet
  <2>6. \A t \in Threads :
          /\ call'[m][t].pc # "idle" => call'[m][t].to \in Modules
          /\ call'[m][t].pc \in {"publish", "reply", "undo"} =>
               call'[m][t].rid \in Rids /\ call'[m][t].rid < r + 1
          /\ t # th /\ call'[m][t].pc \in {"publish", "reply", "undo"} => call'[m][t].rid # r
    <3> SUFFICES ASSUME NEW t \in Threads
                 PROVE  /\ call'[m][t].pc # "idle" => call'[m][t].to \in Modules
                        /\ call'[m][t].pc \in {"publish", "reply", "undo"} =>
                             call'[m][t].rid \in Rids /\ call'[m][t].rid < r + 1
                        /\ t # th /\ call'[m][t].pc \in {"publish", "reply", "undo"} =>
                             call'[m][t].rid # r
      OBVIOUS
    <3>1. CASE t = th
      BY <1>1, <1>4, <2>5, <3>1
    <3>2. CASE t # th
      <4>1. call'[m][t] = call[m][t]
        BY <2>2, <3>2
      <4>2. call[m][t].pc \in {"publish", "reply", "undo"} =>
              call[m][t].rid \in Nat /\ call[m][t].rid < r
        BY <1>1, SomeSizes DEF CallsOf
      <4>3. call[m][t].pc \in {"publish", "reply", "undo"} =>
              call[m][t].rid < r + 1 /\ call[m][t].rid # r
        BY <1>1, <4>2
      <4> QED BY <1>1, <3>2, <4>1, <4>3 DEF CallsOf
    <3> QED BY <3>1, <3>2
  <2>7. call'[m]["app"].pc = "publish" /\ call'[m]["recv"].pc = "publish" =>
          call'[m]["app"].rid # call'[m]["recv"].rid
    <3>1. CASE th = "app"
      BY <2>5, <2>6, <3>1 DEF Threads
    <3>2. CASE th = "recv"
      BY <2>5, <2>6, <3>2 DEF Threads
    <3> QED BY <3>1, <3>2 DEF Threads
  <2> QED BY <1>8, <1>9, <1>10, <2>4, <2>6, <2>7 DEF CallsOf
<1>12. next_timer_id'[m] >= next_timer_id[m]
  BY <1>1, <1>9
<1>13. calls' \in 0 .. MaxCalls /\ calls' >= calls
  BY <1>1, <1>8, SomeSizes
<1>14. CallsOK'
  BY <1>6, <1>7, <1>8, <1>9, <1>11, <1>12, <1>13, OneCall
<1> QED BY <1>4, <1>8, <1>10, <1>14

\* A call that ends, has sent or has failed to send asks nothing more.
LEMMA EndOfCall ==
  ASSUME CallsOK, NEW m \in Modules, NEW th \in Threads, NEW c \in CallRecords,
         call' = [call EXCEPT ![m][th] = c], UNCHANGED <<life, next_timer_id, calls>>,
         call[m][th].pc \in {"publish", "reply", "undo"},
         \/ c.pc = "idle"
         \/ c.pc \in {"reply", "undo"} /\ c.rid = call[m][th].rid /\ c.to = call[m][th].to
  PROVE  CallsOK'
<1>1. CallsOf(m) /\ next_timer_id[m] \in Nat /\ calls \in 0 .. MaxCalls
  BY DEF CallsOf, CallsOK
<1>2. CallSet(m, th, c)
  BY CallUpdate
<1>3. \A t \in Threads : call'[m][t] = IF t = th THEN c ELSE call[m][t]
  BY <1>2 DEF CallSet
<1>4. CallsOf(m)'
  <2>1. Begun(m, "app")' = Begun(m, "app") /\ Begun(m, "recv")' = Begun(m, "recv")
    BY <1>3 DEF Begun, Threads
  <2>2. next_timer_id'[m] + Begun(m, "app")' + Begun(m, "recv")' <= calls'
    BY <1>1, <2>1 DEF CallsOf
  <2> QED BY <1>1, <1>3, <2>2 DEF CallsOf, Threads
<1>5. /\ next_timer_id' \in [Modules -> Nat] /\ next_timer_id'[m] >= next_timer_id[m]
      /\ \A n \in Modules : n # m => next_timer_id'[n] = next_timer_id[n]
  BY <1>1 DEF CallsOK
<1>6. calls' \in 0 .. MaxCalls /\ calls' >= calls
  BY <1>1, SomeSizes
<1> QED BY <1>2, <1>4, <1>5, <1>6, OneCall

LEMMA CrashKeepsCalls ==
  ASSUME CallsOK, NEW m \in Modules, Crash(m)
  PROVE  CallsOK'
<1>1. /\ call' = [call EXCEPT ![m] = [t \in Threads |-> IdleCall]]
      /\ life' = [life EXCEPT ![m] = "off"] /\ UNCHANGED <<next_timer_id, calls>>
  BY DEF Crash
<1>2. /\ \A t \in Threads : call'[m][t] = IdleCall
      /\ \A n \in Modules : n # m => call'[n] = call[n]
      /\ call' \in [Modules -> [Threads -> CallRecords]]
  BY <1>1, IdleCallFields DEF CallsOK
<1>3. CallsOf(m) /\ next_timer_id[m] \in Nat /\ calls \in 0 .. MaxCalls
  BY DEF CallsOf, CallsOK
<1>4. CallsOf(m)'
  <2>1. \A t \in Threads : call'[m][t].pc = "idle"
    BY <1>2, IdleCallFields
  <2>2. Begun(m, "app")' = 0 /\ Begun(m, "recv")' = 0
    BY <2>1 DEF Begun, Threads
  <2>3. Begun(m, "app") \in Nat /\ Begun(m, "recv") \in Nat
    BY DEF Begun
  <2>4. next_timer_id'[m] + Begun(m, "app")' + Begun(m, "recv")' <= calls'
    BY <1>1, <1>3, <2>2, <2>3, SomeSizes DEF CallsOf
  <2> QED BY <2>1, <2>4 DEF CallsOf, Threads
<1>5. \A n \in Modules : n # m => CallsOf(n)'
  <2> SUFFICES ASSUME NEW n \in Modules, n # m PROVE CallsOf(n)'
    OBVIOUS
  <2>1. life'[n] = "off" => life[n] = "off"
    BY <1>1
  <2> QED BY <1>1, <1>2, <1>3, <2>1, OtherCalls, SomeSizes
<1>6. \A n \in Modules : CallsOf(n)'
  BY <1>4, <1>5
<1> QED BY <1>1, <1>2, <1>6 DEF CallsOK, CallsOf

LEMMA RestartKeepsCalls ==
  ASSUME LifeOK, CallsOK, NEW m \in Modules, Restart(m)
  PROVE  CallsOK'
<1>1. /\ next_timer_id' = [next_timer_id EXCEPT ![m] = 0]
      /\ life' = [life EXCEPT ![m] = "up"] /\ life[m] = "off"
      /\ UNCHANGED <<call, calls>>
  BY DEF Restart, threads, bounds
<1>2. CallsOf(m) /\ next_timer_id[m] \in Nat /\ calls \in 0 .. MaxCalls
  BY DEF CallsOf, CallsOK
<1>3. CallsOf(m)'
  <2>1. \A t \in Threads : call[m][t].pc = "idle"
    BY <1>1, <1>2 DEF CallsOf
  <2>2. Begun(m, "app")' = 0 /\ Begun(m, "recv")' = 0
    BY <1>1, <2>1 DEF Begun, Threads
  <2>3. next_timer_id'[m] = 0 /\ life'[m] # "off"
    BY <1>1 DEF CallsOK, LifeOK
  <2>4. next_timer_id'[m] + Begun(m, "app")' + Begun(m, "recv")' <= calls'
    BY <1>1, <1>2, <2>2, <2>3, SomeSizes
  <2> QED BY <1>1, <2>1, <2>3, <2>4 DEF CallsOf, Threads
<1>4. \A n \in Modules : n # m => CallsOf(n)'
  <2> SUFFICES ASSUME NEW n \in Modules, n # m PROVE CallsOf(n)'
    OBVIOUS
  <2>1. (life'[n] = "off" => life[n] = "off") /\ next_timer_id'[n] = next_timer_id[n]
    BY <1>1 DEF CallsOK
  <2> QED BY <1>1, <1>2, <2>1, OtherCalls, SomeSizes
<1>5. \A n \in Modules : CallsOf(n)'
  BY <1>3, <1>4
<1>6. next_timer_id' \in [Modules -> Nat]
  BY <1>1 DEF CallsOK
<1> QED BY <1>1, <1>5, <1>6 DEF CallsOK, CallsOf

LEMMA CallsKept ==
  ASSUME LifeOK, CallsOK, RecvOK, NEW m \in Modules, Step(m)
  PROVE  CallsOK'
<1>1. ASSUME NEW th \in Threads, NEW kind \in Kinds, NEW to \in Peers[m],
             BeginCall(m, th, kind, to)
      PROVE  CallsOK'
  BY <1>1, BeginCallKeepsCalls
<1>2. ASSUME NEW th \in Threads, Register(m, th)
      PROVE  CallsOK'
  BY <1>2, RegisterKeepsCalls
<1>3. ASSUME NEW th \in Threads, ReturnOk(m, th) \/ Undo(m, th)
      PROVE  CallsOK'
  <2>1. call' = [call EXCEPT ![m][th] = IdleCall] /\ call[m][th].pc \in {"publish", "reply", "undo"}
    BY <1>3 DEF ReturnOk, Undo
  <2>2. UNCHANGED <<life, next_timer_id, calls>>
    BY <1>3 DEF ReturnOk, Undo, local, bounds
  <2> QED BY <2>1, <2>2, IdleCallFields, EndOfCall
<1>4. ASSUME NEW th \in Threads, NEW pc \in {"reply", "undo"},
             \/ Publish(m, th) /\ pc = "reply"
             \/ PublishFails(m, th) /\ pc = "undo"
      PROVE  CallsOK'
  <2> DEFINE c == [call[m][th] EXCEPT !.pc = pc]
  <2>1. call' = [call EXCEPT ![m][th] = c] /\ call[m][th].pc \in {"publish", "reply", "undo"}
    BY <1>4 DEF Publish, PublishFails
  <2>2. UNCHANGED <<life, next_timer_id, calls>>
    BY <1>4 DEF Publish, PublishFails, local, bounds
  <2>3. call[m][th] \in CallRecords
    BY DEF CallsOK
  <2>4. c \in CallRecords /\ c.pc = pc /\ c.rid = call[m][th].rid /\ c.to = call[m][th].to
    BY <2>3, CallWithPc
  <2> HIDE DEF c
  <2> QED BY <2>1, <2>2, <2>4, EndOfCall
<1>5. ASSUME \/ \E to \in Peers[m] : Report(m, to)
             \/ \E o \in open[m] : TempResponse(m, o)
      PROVE  CallsOK'
  <2>1. UNCHANGED <<life, next_timer_id, call>> /\ calls' = calls + 1 /\ calls < MaxCalls
    BY <1>5 DEF Report, TempResponse, local, threads
  <2>2. calls' \in 0 .. MaxCalls /\ calls' >= calls
    BY <2>1, SomeSizes DEF CallsOK
  <2> QED BY <2>1, <2>2, CallsSame
<1>6. CASE Crash(m)
  BY <1>6, CrashKeepsCalls
<1>7. CASE Restart(m)
  BY <1>7, RestartKeepsCalls
<1>8. CASE UNCHANGED <<call, next_timer_id, calls>>
           /\ \A n \in Modules : life'[n] = "off" => life[n] = "off"
  <2>1. calls' \in 0 .. MaxCalls /\ calls' >= calls
    BY <1>8, SomeSizes DEF CallsOK
  <2> QED BY <1>8, <2>1, CallsSame
<1>9. ASSUME SetHandlers(m) \/ \E o \in open[m] : FinalResponse(m, o)
      PROVE  UNCHANGED <<call, next_timer_id, calls, life>>
  BY <1>9 DEF SetHandlers, FinalResponse, threads, bounds
<1>10. ASSUME TakeMessage(m) \/ HandleSteps(m) \/ ReceiveEnds(m)
       PROVE  UNCHANGED <<call, next_timer_id, calls, life>>
  BY <1>10 DEF TakeMessage, HandleSteps, ReceiveEnds, Ignore, HandleRequest, Lookup, Dispatch,
               CallbackReturns, AutoResponse, Settle, local, bounds
<1>11. ASSUME TimerSteps(m) \/ TimeoutCallbackCalls(m)
       PROVE  UNCHANGED <<call, next_timer_id, calls, life>>
  BY <1>11 DEF TimerSteps, TimeoutCallbackCalls, StartSweep, Erase, EndSweep,
               TimerEnds, TimeoutProc, local, bounds
<1>12. ASSUME LostToGhost(m) \/ BrokerNotices(m) \/ ConnectionBreaks(m) \/ Reconnect(m)
       PROVE  UNCHANGED <<call, next_timer_id, calls, life>>
  BY <1>12 DEF LostToGhost, BrokerNotices, ConnectionBreaks, Reconnect, local, threads, bounds
<1>13. ASSUME Destroy(m) \/ Freed(m)
       PROVE  /\ UNCHANGED <<call, next_timer_id, calls>>
              /\ \A n \in Modules : life'[n] = "off" => life[n] = "off"
  BY <1>13 DEF Destroy, Freed, threads, bounds, LifeOK
<1> QED
  BY <1>1, <1>2, <1>3, <1>4, <1>5, <1>6, <1>7, <1>8, <1>9, <1>10, <1>11, <1>12, <1>13
  DEF Step, Fault, NewCall, Answering, CallSteps

-----------------------------------------------------------------------------
\* Tasks.

\* Tasks only go, and no rid comes back.
LEMMA FewerTasks ==
  ASSUME TasksOK, UNCHANGED next_timer_id, DOMAIN tasks' = Modules,
         tasks' = [n \in Modules |-> tasks'[n]],
         \A n \in Modules : tasks'[n] \subseteq tasks[n],
         \A n \in Modules : life'[n] = "off" => life[n] = "off"
  PROVE  TasksOK'
<1>1. tasks' \in [Modules -> SUBSET Task]
  BY DEF TasksOK
<1> QED BY <1>1 DEF TasksOK

LEMMA TasksKept ==
  ASSUME LifeOK, CallsOK, TasksOK, NEW m \in Modules, Step(m)
  PROVE  TasksOK'
<1>1. ASSUME NEW th \in Threads, Register(m, th)
      PROVE  TasksOK'
  <2> DEFINE r == next_timer_id[m]
             t == [rid |-> r, kind |-> call[m][th].kind, to |-> call[m][th].to]
  <2>1. r \in Rids /\ next_timer_id' = [next_timer_id EXCEPT ![m] = r + 1]
        /\ call[m][th].to \in Modules
    BY <1>1, RegisterKeepsCalls
  <2>2. tasks' = [tasks EXCEPT ![m] = tasks[m] \cup {t}] /\ life' = life
    BY <1>1 DEF Register
  <2>3. call[m][th].kind \in Kinds
    <3>1. call[m][th] \in CallRecords
      BY DEF CallsOK
    <3> QED BY <3>1 DEF CallRecords
  <2>4. t \in Task /\ t.rid = r
    BY <2>1, <2>3 DEF Task
  <2>5. life[m] # "off"
    BY <1>1 DEF Register, CallsOK
  <2> HIDE DEF t
  <2>6. tasks' \in [Modules -> SUBSET Task]
    BY <2>2, <2>4 DEF TasksOK
  <2>7. r \in Nat /\ next_timer_id \in [Modules -> Nat]
    BY <2>1, SomeSizes DEF CallsOK
  <2>8. \A u \in tasks[m] : u.rid \in Nat /\ u.rid < r
    <3>1. \A u \in tasks[m] : u \in Task /\ u.rid < r
      BY DEF TasksOK
    <3>2. \A u \in Task : u.rid \in Nat
      BY SomeSizes DEF Task
    <3> QED BY <3>1, <3>2
  <2>9. \A u \in tasks'[m] : u.rid < next_timer_id'[m]
    BY <2>1, <2>2, <2>4, <2>7, <2>8 DEF TasksOK
  <2>10. \A u, v \in tasks'[m] : u.rid = v.rid => u = v
    BY <2>2, <2>4, <2>7, <2>8 DEF TasksOK
  <2>11. \A n \in Modules : n # m => tasks'[n] = tasks[n] /\ next_timer_id'[n] = next_timer_id[n]
    BY <2>1, <2>2, <2>7 DEF TasksOK
  <2> QED BY <2>2, <2>5, <2>6, <2>9, <2>10, <2>11 DEF TasksOK
<1>2. CASE Restart(m)
  <2>1. /\ next_timer_id' = [next_timer_id EXCEPT ![m] = 0]
        /\ life' = [life EXCEPT ![m] = "up"] /\ life[m] = "off" /\ tasks' = tasks
    BY <1>2 DEF Restart
  <2>2. tasks[m] = {}
    BY <2>1 DEF TasksOK
  <2> QED BY <2>1, <2>2 DEF TasksOK, CallsOK, LifeOK
<1>3. CASE Crash(m)
  BY <1>3 DEF Crash, TasksOK
<1>4. CASE Erase(m) \/ Settle(m) \/ \E th \in Threads : Undo(m, th)
  <2>1. /\ UNCHANGED next_timer_id /\ life' = life
        /\ tasks' = tasks \/ \E S \in SUBSET tasks[m] : tasks' = [tasks EXCEPT ![m] = S]
    <3>1. CASE Erase(m)
      BY <3>1 DEF Erase
    <3>2. CASE Settle(m)
      BY <3>2 DEF Settle
    <3>3. CASE \E th \in Threads : Undo(m, th)
      BY <3>3 DEF Undo
    <3> QED BY <1>4, <3>1, <3>2, <3>3
  <2>2. /\ DOMAIN tasks' = Modules /\ tasks' = [n \in Modules |-> tasks'[n]]
        /\ \A n \in Modules : tasks'[n] \subseteq tasks[n]
    BY <2>1 DEF TasksOK
  <2> QED BY <2>1, <2>2, FewerTasks
<1>5. CASE UNCHANGED <<tasks, next_timer_id>>
           /\ \A n \in Modules : life'[n] = "off" => life[n] = "off"
  BY <1>5 DEF TasksOK
<1>6. ASSUME \/ SetHandlers(m) \/ NewCall(m) \/ Answering(m)
             \/ \E th \in Threads : Publish(m, th) \/ ReturnOk(m, th) \/ PublishFails(m, th)
      PROVE  UNCHANGED <<tasks, next_timer_id, life>>
  BY <1>6 DEF NewCall, Answering, BeginCall, Report, TempResponse, FinalResponse,
              Publish, ReturnOk, PublishFails, SetHandlers, local
<1>7. ASSUME TakeMessage(m) \/ HandleSteps(m) \/ ReceiveEnds(m), ~Settle(m)
      PROVE  UNCHANGED <<tasks, next_timer_id, life>>
  BY <1>7 DEF TakeMessage, HandleSteps, ReceiveEnds, Ignore, HandleRequest, Lookup, Dispatch,
              CallbackReturns, AutoResponse, local
<1>8. ASSUME TimerSteps(m) \/ TimeoutCallbackCalls(m), ~Erase(m)
      PROVE  UNCHANGED <<tasks, next_timer_id, life>>
  BY <1>8 DEF TimerSteps, TimeoutCallbackCalls, StartSweep, EndSweep, TimerEnds, TimeoutProc,
              local
<1>9. ASSUME LostToGhost(m) \/ BrokerNotices(m) \/ ConnectionBreaks(m) \/ Reconnect(m)
      PROVE  UNCHANGED <<tasks, next_timer_id, life>>
  BY <1>9 DEF LostToGhost, BrokerNotices, ConnectionBreaks, Reconnect, local
<1>10. ASSUME Destroy(m) \/ Freed(m)
       PROVE  /\ UNCHANGED <<tasks, next_timer_id>>
              /\ \A n \in Modules : life'[n] = "off" => life[n] = "off"
  BY <1>10 DEF Destroy, Freed, LifeOK
<1> QED
  BY <1>1, <1>2, <1>3, <1>4, <1>5, <1>6, <1>7, <1>8, <1>9, <1>10
  DEF Step, Fault, CallSteps

-----------------------------------------------------------------------------
\* The receive thread.

\* The record of one receive thread changes, to one of the right type.
RecvSet(m, r) ==
  /\ recv'[m] = r
  /\ \A n \in Modules : n # m => recv'[n] = recv[n]
  /\ recv' \in [Modules -> RecvRecords]

LEMMA RecvUpdate ==
  ASSUME RecvOK, NEW m \in Modules, NEW r \in RecvRecords, recv' = [recv EXCEPT ![m] = r]
  PROVE  RecvSet(m, r)
BY DEF RecvOK, RecvSet

LEMMA RecvWithPc ==
  ASSUME NEW r \in RecvRecords,
         NEW pc \in {"idle", "handle", "found", "callback", "ack", "settle", "ended"}
  PROVE  LET s == [r EXCEPT !.pc = pc]
         IN  /\ s \in RecvRecords /\ s.pc = pc
             /\ s.props = r.props /\ s.id = r.id /\ s.stale = r.stale
BY DEF RecvRecords

LEMMA RecvWithStale ==
  ASSUME NEW r \in RecvRecords, NEW b \in BOOLEAN
  PROVE  LET s == [r EXCEPT !.stale = b]
         IN  /\ s \in RecvRecords /\ s.pc = r.pc
             /\ s.props = r.props /\ s.id = r.id /\ s.stale = b
             /\ b = r.stale => s = r
BY DEF RecvRecords

LEMMA IdleRecvFields ==
  /\ IdleRecv \in RecvRecords /\ IdleRecv.pc = "idle" /\ IdleRecv.props = NoProps
  /\ IdleRecv.id = << >> /\ IdleRecv.stale = FALSE
BY DEF IdleRecv, RecvRecords

\* The parts of RecvOK about one process.
RecvOf(m) ==
  /\ recv[m].pc \in {"idle", "ended"} =>
       recv[m].props = NoProps /\ recv[m].id = << >> /\ ~recv[m].stale
  /\ recv[m].pc \notin {"idle", "ended"} => recv[m].props \in AllProps /\ recv[m].id \in Ids
  /\ recv[m].pc = "ended" => life[m] \in {"stopping", "freed"}
  /\ life[m] = "freed" => recv[m].pc = "ended"
  /\ life[m] = "off" => recv[m].pc = "idle"

LEMMA OneRecv ==
  ASSUME RecvOK, NEW m \in Modules, NEW r \in RecvRecords, RecvSet(m, r), RecvOf(m)',
         \A n \in Modules : n # m => life'[n] = life[n]
  PROVE  RecvOK'
BY DEF RecvOK, RecvSet, RecvOf

\* What each kind of update does.
LEMMA TouchedRecv ==
  ASSUME RecvOK, NEW m \in Modules, recv' = Touched(m)
  PROVE  \E r \in RecvRecords :
           /\ RecvSet(m, r)
           /\ r.pc = recv[m].pc /\ r.props = recv[m].props /\ r.id = recv[m].id
           /\ r.stale = (recv[m].pc = "found")
           /\ recv[m].pc \in {"idle", "ended"} => r = recv[m]
<1>1. PICK b \in BOOLEAN : b = (recv[m].pc = "found")
  OBVIOUS
<1>2. recv' = [recv EXCEPT ![m] = [recv[m] EXCEPT !.stale = b]]
  BY <1>1 DEF Touched
<1>3. recv[m] \in RecvRecords /\ RecvOf(m)
  BY DEF RecvOK, RecvOf
<1> DEFINE r == [recv[m] EXCEPT !.stale = b]
<1>4. /\ r \in RecvRecords /\ r.pc = recv[m].pc
      /\ r.props = recv[m].props /\ r.id = recv[m].id /\ r.stale = b
      /\ b = recv[m].stale => r = recv[m]
  BY <1>3, RecvWithStale
<1>5. recv' = [recv EXCEPT ![m] = r]
  BY <1>2
<1> HIDE DEF r
<1>6. RecvSet(m, r)
  BY <1>4, <1>5, RecvUpdate
<1>7. recv[m].pc \in {"idle", "ended"} => recv[m].stale = b
  <2>1. recv[m].stale \in BOOLEAN
    BY <1>3 DEF RecvRecords
  <2>2. recv[m].pc \in {"idle", "ended"} => ~recv[m].stale
    BY <1>3 DEF RecvOf
  <2>3. recv[m].pc \in {"idle", "ended"} => ~b
    BY <1>1
  <2> QED BY <2>1, <2>2, <2>3
<1> QED BY <1>1, <1>4, <1>6, <1>7

LEMMA GotoRecv ==
  ASSUME RecvOK, NEW m \in Modules,
         NEW pc \in {"idle", "handle", "found", "callback", "ack", "settle", "ended"},
         Goto(m, pc)
  PROVE  \E r \in RecvRecords :
           /\ RecvSet(m, r)
           /\ r.pc = pc /\ r.props = recv[m].props /\ r.id = recv[m].id
           /\ r.stale = recv[m].stale
<1> DEFINE r == [recv[m] EXCEPT !.pc = pc]
<1>1. recv' = [recv EXCEPT ![m] = r]
  BY DEF Goto
<1>2. recv[m] \in RecvRecords
  BY DEF RecvOK
<1>3. /\ r \in RecvRecords /\ r.pc = pc
      /\ r.props = recv[m].props /\ r.id = recv[m].id /\ r.stale = recv[m].stale
  BY <1>2, RecvWithPc
<1> HIDE DEF r
<1> QED BY <1>1, <1>3, RecvUpdate

LEMMA DoneRecv ==
  ASSUME RecvOK, NEW m \in Modules, Done(m)
  PROVE  RecvSet(m, IdleRecv)
BY IdleRecvFields, RecvUpdate DEF Done

\* A message is taken from a queue.
LEMMA HeadFacts ==
  ASSUME QueueOK, NEW m \in Modules, queue[m].messages # << >>
  PROVE  LET s == queue[m].messages
         IN  /\ s \in Seq(Wire) /\ Len(s) \in Nat \ {0} /\ Head(s) = s[1] /\ Head(s) \in Wire
             /\ Tail(s) \in Seq(Wire) /\ Len(Tail(s)) = Len(s) - 1
             /\ \A k \in 1 .. Len(s) - 1 : Tail(s)[k] = s[k + 1]
<1> DEFINE s == queue[m].messages
<1>1. s \in Seq(Wire)
  BY DEF QueueOK, QueueRecords
<1> HIDE DEF s
<1>2. ASSUME s # << >>
      PROVE  /\ Len(s) \in Nat \ {0} /\ Head(s) = s[1] /\ Head(s) \in Wire
             /\ Tail(s) \in Seq(Wire) /\ Len(Tail(s)) = Len(s) - 1
             /\ \A k \in 1 .. Len(s) - 1 : Tail(s)[k] = s[k + 1]
  BY <1>1, <1>2
<1> QED BY <1>1, <1>2 DEF s

LEMMA TakeRecv ==
  ASSUME RecvOK, QueueOK, NEW m \in Modules, TakeMessage(m)
  PROVE  LET w == Head(queue[m].messages)
         IN  \E r \in RecvRecords :
               RecvSet(m, r) /\ r.pc = "handle" /\ r.props = PropsOf(w) /\ r.id = w.id
<1> DEFINE w == Head(queue[m].messages)
           r == [pc |-> "handle", props |-> PropsOf(w), id |-> w.id, stale |-> FALSE]
<1>1. w \in Wire
  BY HeadFacts DEF TakeMessage
<1>2. PropsOf(w) \in AllProps /\ w.id \in Ids /\ Readable(w.content.properties)
  BY <1>1, WireFacts DEF IsMessage
<1>3. recv' = [recv EXCEPT ![m] = r]
  BY <1>2 DEF TakeMessage, PropsOf
<1> HIDE DEF w
<1>4. r \in RecvRecords /\ r.pc = "handle" /\ r.props = PropsOf(w) /\ r.id = w.id
  BY <1>2 DEF RecvRecords
<1> HIDE DEF r
<1>5. RecvSet(m, r)
  BY <1>3, <1>4, RecvUpdate
<1> QED BY <1>4, <1>5 DEF w

\* All that can happen to a receive thread in a step of its process.
Moved(m, r) == r.props = recv[m].props /\ r.id = recv[m].id
Stays(m, r) ==
  r.pc = recv[m].pc /\ Moved(m, r) /\ (recv[m].pc \in {"idle", "ended"} => r = recv[m])
Takes(m, r) ==
  /\ TakeMessage(m)
  /\ r.pc = "handle" /\ r.props = PropsOf(Head(queue[m].messages))
  /\ r.id = Head(queue[m].messages).id
Finishes(m, r) == r = IdleRecv /\ (recv[m].pc \notin {"idle", "ended"} \/ Crash(m))
Ends(m, r) == ReceiveEnds(m) /\ r.pc = "ended" /\ Moved(m, r) /\ r.stale = recv[m].stale
Proceeds(m, r) ==
  /\ recv[m].pc \notin {"idle", "ended"} /\ r.pc \in {"found", "callback", "ack", "settle"}
  /\ Moved(m, r)
  /\ r.pc = "callback" => HandleRequest(m) \/ recv[m].props.msgtype \notin AskTypes
  /\ r.pc = "ack" => recv[m].pc = "callback" /\ recv[m].props.msgtype = "RB_NOTIFICATION"
Change(m, r) == Stays(m, r) \/ Takes(m, r) \/ Finishes(m, r) \/ Ends(m, r) \/ Proceeds(m, r)

LEMMA HandlingRecv ==
  ASSUME RecvOK, NEW m \in Modules, HandleSteps(m)
  PROVE  \E r \in RecvRecords : RecvSet(m, r) /\ (Finishes(m, r) \/ Proceeds(m, r))
<1>1. ASSUME Done(m), recv[m].pc \notin {"idle", "ended"}
      PROVE  \E r \in RecvRecords : RecvSet(m, r) /\ Finishes(m, r)
  BY <1>1, DoneRecv, IdleRecvFields DEF Finishes
<1>2. CASE Ignore(m) \/ AutoResponse(m) \/ Settle(m)
  BY <1>1, <1>2 DEF Ignore, AutoResponse, Settle, At
<1>3. CASE HandleRequest(m)
  <2>1. Goto(m, "callback") /\ recv[m].pc = "handle"
    BY <1>3 DEF HandleRequest, At
  <2>2. PICK r \in RecvRecords : RecvSet(m, r) /\ r.pc = "callback" /\ Moved(m, r)
    BY <2>1, GotoRecv DEF Moved
  <2> QED BY <1>3, <2>1, <2>2 DEF Proceeds
<1>4. CASE Lookup(m)
  <2>1. recv[m].pc = "handle" /\ (Done(m) \/ Goto(m, "found"))
    BY <1>4 DEF Lookup, At
  <2>2. ASSUME Goto(m, "found")
        PROVE  \E r \in RecvRecords : RecvSet(m, r) /\ r.pc = "found" /\ Moved(m, r)
    BY <2>2, GotoRecv DEF Moved
  <2> QED BY <1>1, <2>1, <2>2 DEF Proceeds
<1>5. CASE Dispatch(m)
  <2>1. /\ Goto(m, "callback") /\ recv[m].pc = "found"
        /\ recv[m].props.msgtype \in AnswerTypes
    BY <1>5 DEF Dispatch, At, Type, Props, AnswerTypes
  <2>2. PICK r \in RecvRecords : RecvSet(m, r) /\ r.pc = "callback" /\ Moved(m, r)
    BY <2>1, GotoRecv DEF Moved
  <2> QED BY <2>1, <2>2 DEF Proceeds, AnswerTypes, AskTypes
<1>6. CASE CallbackReturns(m)
  <2>1. /\ recv[m].pc = "callback"
        /\ \/ recv[m].props.msgtype = "RB_NOTIFICATION" /\ Goto(m, "ack")
           \/ Goto(m, "settle")
           \/ Done(m)
    <3>1. CASE Type(m) = "RB_NOTIFICATION"
      BY <1>6, <3>1 DEF CallbackReturns, At, Type, Props
    <3>2. CASE Type(m) \in {"RB_TEMPORARY_RESPONSE", "RB_FINAL_RESPONSE"}
      BY <1>6, <3>2 DEF CallbackReturns, At
    <3>3. CASE Type(m) \notin {"RB_NOTIFICATION", "RB_TEMPORARY_RESPONSE", "RB_FINAL_RESPONSE"}
      BY <1>6, <3>3 DEF CallbackReturns, At
    <3> QED BY <3>1, <3>2, <3>3
  <2>2. ASSUME Goto(m, "ack")
        PROVE  \E r \in RecvRecords : RecvSet(m, r) /\ r.pc = "ack" /\ Moved(m, r)
    BY <2>2, GotoRecv DEF Moved
  <2>3. ASSUME Goto(m, "settle")
        PROVE  \E r \in RecvRecords : RecvSet(m, r) /\ r.pc = "settle" /\ Moved(m, r)
    BY <2>3, GotoRecv DEF Moved
  <2> QED BY <1>1, <2>1, <2>2, <2>3 DEF Proceeds
<1> QED
  BY <1>2, <1>3, <1>4, <1>5, <1>6 DEF HandleSteps

LEMMA RecvChanges ==
  ASSUME RecvOK, QueueOK, NEW m \in Modules, Step(m)
  PROVE  \E r \in RecvRecords : RecvSet(m, r) /\ Change(m, r)
<1>1. ASSUME recv' = Touched(m)
      PROVE  \E r \in RecvRecords : RecvSet(m, r) /\ Stays(m, r)
  BY <1>1, TouchedRecv DEF Stays, Moved
<1>2. CASE Erase(m) \/ \E th \in Threads : Register(m, th) \/ Undo(m, th)
  BY <1>1, <1>2 DEF Erase, Register, Undo, Change
<1>3. CASE TakeMessage(m)
  BY <1>3, TakeRecv DEF Change, Takes
<1>4. CASE HandleSteps(m)
  BY <1>4, HandlingRecv DEF Change
<1>5. CASE ReceiveEnds(m)
  <2>1. Goto(m, "ended")
    BY <1>5 DEF ReceiveEnds
  <2> QED BY <1>5, <2>1, GotoRecv DEF Change, Ends, Moved
<1>6. CASE Crash(m)
  BY <1>6, RecvUpdate, IdleRecvFields DEF Crash, Change, Finishes
<1>7. CASE recv' = recv
  <2>1. RecvSet(m, recv[m]) /\ recv[m] \in RecvRecords
    BY <1>7 DEF RecvOK, RecvSet
  <2> QED BY <2>1 DEF Change, Stays, Moved
<1>8. ASSUME \/ SetHandlers(m) \/ NewCall(m) \/ Answering(m)
             \/ \E th \in Threads : Publish(m, th) \/ ReturnOk(m, th) \/ PublishFails(m, th)
      PROVE  recv' = recv
  BY <1>8 DEF NewCall, Answering, BeginCall, Report, TempResponse, FinalResponse,
              Publish, ReturnOk, PublishFails, SetHandlers, threads
<1>9. ASSUME TimerSteps(m) \/ TimeoutCallbackCalls(m), ~Erase(m)
      PROVE  recv' = recv
  BY <1>9 DEF TimerSteps, TimeoutCallbackCalls, StartSweep, EndSweep, TimerEnds, TimeoutProc
<1>10. ASSUME \/ LostToGhost(m) \/ BrokerNotices(m) \/ ConnectionBreaks(m) \/ Reconnect(m)
              \/ Destroy(m) \/ Freed(m) \/ Restart(m)
       PROVE  recv' = recv
  BY <1>10 DEF LostToGhost, BrokerNotices, ConnectionBreaks, Reconnect, Destroy, Freed, Restart,
               threads
<1> QED
  BY <1>2, <1>3, <1>4, <1>5, <1>6, <1>7, <1>8, <1>9, <1>10
  DEF Step, Fault, CallSteps

\* What can happen to the life of a process.
LEMMA LifeChanges ==
  ASSUME LifeOK, NEW m \in Modules, Step(m)
  PROVE  /\ \A n \in Modules : n # m => life'[n] = life[n]
         /\ \/ life' = life /\ ~Crash(m)
            \/ Crash(m) /\ life'[m] = "off"
            \/ Restart(m) /\ life[m] = "off" /\ life'[m] = "up" /\ recv' = recv /\ timer' = timer
            \/ Destroy(m) /\ life[m] = "up" /\ life'[m] = "stopping"
                 /\ recv' = recv /\ timer' = timer
            \/ /\ Freed(m) /\ life[m] = "stopping" /\ life'[m] = "freed"
               /\ recv[m].pc = "ended" /\ timer[m].pc = "ended"
               /\ recv' = recv /\ timer' = timer
<1>1. CASE Crash(m)
  BY <1>1 DEF Crash, LifeOK
<1>2. CASE Restart(m)
  BY <1>2 DEF Restart, LifeOK, threads
<1>3. CASE Destroy(m)
  BY <1>3 DEF Destroy, LifeOK, threads
<1>4. CASE Freed(m)
  BY <1>4 DEF Freed, LifeOK, threads, Joined, At
<1>5. CASE life' = life /\ ~Crash(m)
  BY <1>5
<1>6. ASSUME \/ SetHandlers(m) \/ NewCall(m) \/ Answering(m)
             \/ \E th \in Threads : CallSteps(m, th)
      PROVE  life' = life
  BY <1>6 DEF NewCall, Answering, BeginCall, Report, TempResponse, FinalResponse, CallSteps,
              Publish, ReturnOk, PublishFails, SetHandlers, Register, Undo, local
<1>7. ASSUME TakeMessage(m) \/ HandleSteps(m) \/ ReceiveEnds(m)
      PROVE  life' = life
  BY <1>7 DEF TakeMessage, HandleSteps, ReceiveEnds, Ignore, HandleRequest, Lookup, Dispatch,
              CallbackReturns, AutoResponse, Settle, local
<1>8. ASSUME TimerSteps(m) \/ TimeoutCallbackCalls(m)
      PROVE  life' = life
  BY <1>8 DEF TimerSteps, TimeoutCallbackCalls, StartSweep, EndSweep, TimerEnds, TimeoutProc,
              Erase, local
<1>9. ASSUME LostToGhost(m) \/ BrokerNotices(m) \/ ConnectionBreaks(m) \/ Reconnect(m)
      PROVE  life' = life
  BY <1>9 DEF LostToGhost, BrokerNotices, ConnectionBreaks, Reconnect, local
<1> QED
  BY <1>1, <1>2, <1>3, <1>4, <1>5, <1>6, <1>7, <1>8, <1>9 DEF Step, Fault

LEMMA RecvKept ==
  ASSUME LifeOK, RecvOK, QueueOK, NEW m \in Modules, Step(m)
  PROVE  RecvOK'
<1>1. PICK r \in RecvRecords : RecvSet(m, r) /\ Change(m, r)
  BY RecvChanges
<1>2. /\ recv'[m] = r /\ RecvOf(m)
      /\ \A n \in Modules : n # m => life'[n] = life[n]
  BY <1>1, LifeChanges DEF RecvSet, RecvOK, RecvOf
<1>3. CASE Crash(m)
  <2>1. r = IdleRecv /\ life'[m] = "off"
    BY <1>2, <1>3, LifeChanges DEF Crash, RecvOK, LifeOK
  <2>2. RecvOf(m)'
    BY <1>2, <2>1, IdleRecvFields DEF RecvOf
  <2> QED BY <1>1, <1>2, <2>2, OneRecv
<1>4. CASE life' = life /\ ~Crash(m)
  <2>2. CASE Takes(m, r)
    <3>1. r.props \in AllProps /\ r.id \in Ids /\ r.pc = "handle"
      BY <2>2, HeadFacts, WireFacts DEF Takes, TakeMessage
    <3>2. life[m] \in {"up", "stopping"}
      BY <2>2 DEF Takes, TakeMessage
    <3>3. RecvOf(m)'
      BY <1>2, <1>4, <3>1, <3>2 DEF RecvOf
    <3> QED BY <1>1, <1>2, <3>3, OneRecv
  <2>3. CASE Finishes(m, r)
    <3>1. life[m] \notin {"freed", "off"}
      BY <1>2, <1>4, <2>3 DEF Finishes, RecvOf
    <3>2. RecvOf(m)'
      BY <1>2, <1>4, <2>3, <3>1, IdleRecvFields DEF RecvOf, Finishes
    <3> QED BY <1>1, <1>2, <3>2, OneRecv
  <2>4. CASE Ends(m, r)
    <3>1. life[m] = "stopping" /\ recv[m].pc = "idle"
      BY <2>4 DEF Ends, ReceiveEnds, At
    <3>2. RecvOf(m)'
      BY <1>2, <1>4, <2>4, <3>1 DEF RecvOf, Ends, Moved
    <3> QED BY <1>1, <1>2, <3>2, OneRecv
  <2>5. CASE Proceeds(m, r)
    <3>1. RecvOf(m)'
      BY <1>2, <1>4, <2>5 DEF RecvOf, Proceeds, Moved
    <3> QED BY <1>1, <1>2, <3>1, OneRecv
  <2>6. Stays(m, r) => RecvOf(m)'
    BY <1>2, <1>4 DEF Stays, Moved, RecvOf
  <2> QED BY <1>1, <1>2, <2>2, <2>3, <2>4, <2>5, <2>6, OneRecv DEF Change
<1>5. CASE recv' = recv /\ ~(life' = life) /\ ~Crash(m)
  <2>1. RecvOf(m)'
    BY <1>2, <1>5, LifeChanges DEF RecvOf
  <2> QED BY <1>1, <1>2, <2>1, OneRecv
<1> QED
  BY <1>3, <1>4, <1>5, LifeChanges

-----------------------------------------------------------------------------
\* The timer thread.

TimerSet(m, r) ==
  /\ timer'[m] = r
  /\ \A n \in Modules : n # m => timer'[n] = timer[n]
  /\ timer' \in [Modules -> TimerRecords]

LEMMA TimerUpdate ==
  ASSUME TimerOK, NEW m \in Modules, NEW r \in TimerRecords, timer' = [timer EXCEPT ![m] = r]
  PROVE  TimerSet(m, r)
BY DEF TimerOK, TimerSet

LEMMA TimerWithPc ==
  ASSUME NEW r \in TimerRecords, NEW pc \in {"sleep", "scan", "callback", "stuck", "ended"}
  PROVE  LET s == [r EXCEPT !.pc = pc]
         IN  s \in TimerRecords /\ s.pc = pc
BY DEF TimerRecords

LEMMA TimerFields ==
  ASSUME NEW r \in TimerRecords
  PROVE  /\ r.pc \in {"sleep", "scan", "callback", "stuck", "ended"}
         /\ r.marked \in SUBSET Rids /\ r.rid \in Rids \cup {-1}
BY DEF TimerRecords

\* A step of a timer thread: while it runs, and does not end except when it is told.
LEMMA TimerChanges ==
  ASSUME TimerOK, TasksOK, LifeOK, NEW m \in Modules, Step(m)
  PROVE  \/ timer' = timer
         \/ /\ \E r \in TimerRecords :
                 TimerSet(m, r) /\ (r.pc = "ended" => TimerEnds(m))
            /\ timer[m].pc # "ended" \/ Crash(m)
<1>0. timer[m] \in TimerRecords
  BY DEF TimerOK
<1>1. CASE StartSweep(m)
  <2>1. PICK due \in SUBSET {t.rid : t \in tasks[m]} :
          timer' = [timer EXCEPT ![m] = [pc |-> "scan", marked |-> due, rid |-> -1]]
    BY <1>1 DEF StartSweep
  <2>2. due \subseteq Rids
    BY DEF TasksOK, Task
  <2> DEFINE r == [pc |-> "scan", marked |-> due, rid |-> -1]
  <2>3. r \in TimerRecords /\ r.pc = "scan"
    BY <2>2 DEF TimerRecords
  <2>4. timer[m].pc # "ended" /\ timer' = [timer EXCEPT ![m] = r]
    BY <1>1, <2>1 DEF StartSweep
  <2> HIDE DEF r
  <2> QED BY <2>3, <2>4, TimerUpdate
<1>2. ASSUME NEW rid \in Rids, TimeoutProc(m, rid)
      PROVE  \E r \in TimerRecords : TimerSet(m, r) /\ r.pc = "callback"
  <2> DEFINE r == [timer[m] EXCEPT !.pc = "callback", !.rid = rid]
  <2>1. r \in TimerRecords /\ r.pc = "callback"
    BY <1>0 DEF TimerRecords
  <2>2. timer' = [timer EXCEPT ![m] = r]
    BY <1>2 DEF TimeoutProc
  <2> HIDE DEF r
  <2> QED BY <2>1, <2>2, TimerUpdate
<1>3. ASSUME Erase(m)
      PROVE  \E r \in TimerRecords : TimerSet(m, r) /\ r.pc = "scan"
  <2> DEFINE r == [timer[m] EXCEPT !.pc = "scan", !.marked = timer[m].marked \ {timer[m].rid}]
  <2>1. timer[m].marked \ {timer[m].rid} \in SUBSET Rids
    BY <1>0, TimerFields
  <2>2. r \in TimerRecords /\ r.pc = "scan"
    BY <1>0, <2>1 DEF TimerRecords
  <2>3. timer' = [timer EXCEPT ![m] = r]
    BY <1>3 DEF Erase
  <2> HIDE DEF r
  <2> QED BY <2>2, <2>3, TimerUpdate
<1>4. ASSUME TimeoutCallbackCalls(m)
      PROVE  \E r \in TimerRecords : TimerSet(m, r) /\ r.pc = "stuck"
  <2> DEFINE r == [timer[m] EXCEPT !.pc = "stuck"]
  <2>1. r \in TimerRecords /\ r.pc = "stuck"
    BY <1>0, TimerWithPc
  <2>2. timer' = [timer EXCEPT ![m] = r]
    BY <1>4 DEF TimeoutCallbackCalls
  <2> HIDE DEF r
  <2> QED BY <2>1, <2>2, TimerUpdate
<1>5. ASSUME TimerEnds(m)
      PROVE  \E r \in TimerRecords : TimerSet(m, r)
  <2> DEFINE r == [timer[m] EXCEPT !.pc = "ended"]
  <2>1. r \in TimerRecords
    BY <1>0, TimerWithPc
  <2>2. timer' = [timer EXCEPT ![m] = r]
    BY <1>5 DEF TimerEnds
  <2> HIDE DEF r
  <2> QED BY <2>1, <2>2, TimerUpdate
<1>6. ASSUME EndSweep(m) \/ Crash(m)
      PROVE  \E r \in TimerRecords : TimerSet(m, r) /\ r.pc = "sleep"
  <2>1. Asleep \in TimerRecords /\ Asleep.pc = "sleep"
    BY DEF Asleep, TimerRecords
  <2>2. timer' = [timer EXCEPT ![m] = Asleep]
    BY <1>6 DEF EndSweep, Crash
  <2> QED BY <2>1, <2>2, TimerUpdate
<1>7. CASE timer' = timer
  BY <1>7
<1>8. ASSUME \/ Erase(m) \/ EndSweep(m) \/ TimerEnds(m) \/ TimeoutCallbackCalls(m)
             \/ \E rid \in Rids : TimeoutProc(m, rid)
      PROVE  timer[m].pc # "ended"
  BY <1>8 DEF Erase, EndSweep, TimerEnds, TimeoutCallbackCalls, TimeoutProc
<1>9. ASSUME \/ SetHandlers(m) \/ NewCall(m) \/ Answering(m)
             \/ \E th \in Threads : CallSteps(m, th)
      PROVE  timer' = timer
  BY <1>9 DEF NewCall, Answering, BeginCall, Report, TempResponse, FinalResponse, CallSteps,
              Publish, ReturnOk, PublishFails, SetHandlers, Register, Undo, threads
<1>10. ASSUME TakeMessage(m) \/ HandleSteps(m) \/ ReceiveEnds(m)
       PROVE  timer' = timer
  BY <1>10 DEF TakeMessage, HandleSteps, ReceiveEnds, Ignore, HandleRequest, Lookup, Dispatch,
               CallbackReturns, AutoResponse, Settle
<1>11. ASSUME \/ LostToGhost(m) \/ BrokerNotices(m) \/ ConnectionBreaks(m) \/ Reconnect(m)
              \/ Destroy(m) \/ Freed(m) \/ Restart(m)
       PROVE  timer' = timer
  BY <1>11 DEF LostToGhost, BrokerNotices, ConnectionBreaks, Reconnect, Destroy, Freed, Restart,
               threads
<1> QED
  BY <1>1, <1>2, <1>3, <1>4, <1>5, <1>6, <1>7, <1>8, <1>9, <1>10, <1>11
  DEF Step, Fault, TimerSteps

LEMMA TimerKept ==
  ASSUME LifeOK, TasksOK, TimerOK, NEW m \in Modules, Step(m)
  PROVE  TimerOK'
<1>1. CASE Crash(m)
  <2>1. timer' = [timer EXCEPT ![m] = Asleep] /\ life' = [life EXCEPT ![m] = "off"]
    BY <1>1 DEF Crash
  <2>2. Asleep \in TimerRecords /\ Asleep.pc = "sleep"
    BY DEF Asleep, TimerRecords
  <2> QED BY <2>1, <2>2 DEF TimerOK, LifeOK
<1>2. CASE timer' = timer /\ ~Crash(m)
  BY <1>2, LifeChanges DEF TimerOK
<1>3. CASE ~(timer' = timer) /\ ~Crash(m)
  <2>1. PICK r \in TimerRecords : TimerSet(m, r) /\ (r.pc = "ended" => TimerEnds(m))
    BY <1>3, TimerChanges
  <2>2. life' = life /\ timer[m].pc # "ended"
    BY <1>3, TimerChanges, LifeChanges
  <2>3. r.pc = "ended" => life[m] = "stopping"
    BY <2>1 DEF TimerEnds
  <2> QED BY <2>1, <2>2, <2>3 DEF TimerOK, TimerSet
<1> QED BY <1>1, <1>2, <1>3

-----------------------------------------------------------------------------
\* The queues.

\* The messages in the queue of one process.
Messages(n) == queue[n].messages

\* A message with these properties and this id is put into a queue, or lost.
Put(p, i) ==
  /\ queue' \in [Modules -> QueueRecords]
  /\ \A n \in Modules :
       \/ Messages(n)' = Messages(n)
       \/ n = p.receiver /\ Messages(n)' = Append(Messages(n), Packed(p, i))

LEMMA QueueFields ==
  ASSUME NEW q \in QueueRecords
  PROVE  /\ q.exists \in BOOLEAN /\ q.messages \in Seq(Wire)
         /\ \A s \in Seq(Wire) :
              LET r == [q EXCEPT !.messages = s]
              IN  r \in QueueRecords /\ r.messages = s
BY DEF QueueRecords

LEMMA EmptyQueues ==
  /\ NoQueue \in QueueRecords /\ NoQueue.messages = << >>
  /\ NewQueue \in QueueRecords /\ NewQueue.messages = << >>
BY DEF NoQueue, NewQueue, QueueRecords

LEMMA SentPut ==
  ASSUME QueueOK, NEW m \in Modules, NEW p \in AllProps, NEW i \in Ids,
         queue' = Sent(m, p, i)
  PROVE  Put(p, i)
<1> DEFINE to == p.receiver
<1>1. to \in Modules
  BY AllFields
<1>2. queue[to] \in QueueRecords
  BY <1>1 DEF QueueOK
<1>3. CASE conn[m] /\ queue[to].exists
  <2> DEFINE s == Append(queue[to].messages, Packed(p, i))
             r == [queue[to] EXCEPT !.messages = s]
  <2>1. queue' = [queue EXCEPT ![to] = r]
    BY <1>3 DEF Sent, Routed
  <2>2. s \in Seq(Wire)
    BY <1>2, PackedFacts, QueueFields
  <2>3. r \in QueueRecords /\ r.messages = s
    BY <1>2, <2>2, QueueFields
  <2> HIDE DEF r
  <2>4. queue' \in [Modules -> QueueRecords] /\ queue'[to].messages = s
        /\ \A n \in Modules : n # to => queue'[n] = queue[n]
    BY <1>1, <2>1, <2>3 DEF QueueOK
  <2> QED BY <1>1, <2>4 DEF Put, Messages
<1>4. CASE ~(conn[m] /\ queue[to].exists)
  BY <1>4 DEF Sent, Routed, Put, Messages, QueueOK
<1> QED BY <1>3, <1>4

\* A message leaves the queue of one process.
Drops(m) ==
  /\ Messages(m) # << >> /\ Messages(m)' = Tail(Messages(m))
  /\ \A n \in Modules : n # m => Messages(n)' = Messages(n)
Fades == \A n \in Modules : Messages(n)' \in {Messages(n), << >>}

LEMMA DropsOne ==
  ASSUME QueueOK, NEW m \in Modules, queue[m].messages # << >>,
         queue' = [queue EXCEPT ![m].messages = Tail(queue[m].messages)]
  PROVE  Drops(m) /\ queue' \in [Modules -> QueueRecords]
<1> DEFINE s == Tail(queue[m].messages)
           r == [queue[m] EXCEPT !.messages = s]
<1>1. s \in Seq(Wire) /\ queue[m] \in QueueRecords
  BY HeadFacts DEF QueueOK
<1>2. r \in QueueRecords /\ r.messages = s
  BY <1>1, QueueFields
<1>3. queue' = [queue EXCEPT ![m] = r]
  OBVIOUS
<1> HIDE DEF r, s
<1>4. /\ queue' \in [Modules -> QueueRecords] /\ queue'[m].messages = s
      /\ \A n \in Modules : n # m => queue'[n] = queue[n]
  BY <1>2, <1>3 DEF QueueOK
<1> QED BY <1>4 DEF Drops, Messages, s

LEMMA Empties ==
  ASSUME QueueOK, NEW m \in Modules,
         \/ queue' = queue
         \/ queue' = [queue EXCEPT ![m] = NoQueue]
         \/ queue' = [queue EXCEPT ![m] = Declared(queue[m])]
  PROVE  Fades /\ queue' \in [Modules -> QueueRecords]
<1>1. CASE queue' = queue
  BY <1>1 DEF Fades, Messages, QueueOK
<1>2. CASE queue' = [queue EXCEPT ![m] = NoQueue]
  BY <1>2, EmptyQueues DEF Fades, Messages, QueueOK
<1>3. CASE queue' = [queue EXCEPT ![m] = Declared(queue[m])]
  BY <1>3, EmptyQueues DEF Fades, Messages, QueueOK, Declared
<1> QED BY <1>1, <1>2, <1>3

\* Who puts a message into a queue.
SendsRequest(m, p, i) ==
  \E th \in Threads :
    /\ Publish(m, th) /\ i = IdOf(m, call[m][th].rid)
    /\ p.receiver = call[m][th].to
    /\ p.msgtype \in Kinds /\ p.sender = m /\ p.rid = call[m][th].rid
SendsReport(m, p, i) ==
  \E to \in Peers[m] :
    /\ Report(m, to) /\ i = IdOf(m, -calls') /\ p.receiver = to
    /\ p.msgtype = "RB_REPORT"
SendsTemp(m, p, i) ==
  \E o \in open[m] :
    /\ TempResponse(m, o) /\ i = o.id /\ p.receiver = o.from
    /\ p.msgtype = "RB_TEMPORARY_RESPONSE"
SendsFinal(m, p, i) ==
  \/ \E o \in open[m] :
       /\ FinalResponse(m, o) /\ i = o.id /\ p.receiver = o.from
       /\ p.msgtype = "RB_FINAL_RESPONSE" /\ p.rid = o.rid
  \/ /\ AutoResponse(m) /\ i = recv[m].id /\ p.receiver = recv[m].props.sender
     /\ p.msgtype = "RB_FINAL_RESPONSE" /\ p.rid = recv[m].props.rid
Sends(m, p, i) ==
  SendsRequest(m, p, i) \/ SendsReport(m, p, i) \/ SendsTemp(m, p, i) \/ SendsFinal(m, p, i)

LEMMA SendingPuts ==
  ASSUME LifeOK, CallsOK, RecvOK, QueueOK, OpenOK, AllHonest, NEW m \in Modules,
         \/ \E th \in Threads : Publish(m, th)
         \/ \E to \in Peers[m] : Report(m, to)
         \/ Answering(m) \/ AutoResponse(m)
  PROVE  \E p \in AllProps, i \in Ids : Put(p, i) /\ Sends(m, p, i)
<1>1. ASSUME NEW th \in Threads, Publish(m, th)
      PROVE  \E p \in AllProps, i \in Ids : Put(p, i) /\ SendsRequest(m, p, i)
  <2> DEFINE c == call[m][th]
             p == RequestProps(m, c.to, c.kind, c.rid, NoPointer)
             i == IdOf(m, c.rid)
  <2>1. c \in CallRecords /\ c.to \in Modules /\ c.rid \in Rids
    BY <1>1 DEF Publish, CallsOK
  <2>2. c.kind \in Kinds
    BY <2>1, CallFields
  <2>3. /\ p \in AllProps /\ p.msgtype = c.kind
        /\ p.sender = m /\ p.receiver = c.to /\ p.rid = c.rid
    BY <2>1, <2>2, RequestFields
  <2>4. i \in Ids
    BY <2>1, SomeSizes, IdFacts
  <2>5. queue' = Sent(m, p, i)
    BY <1>1 DEF Publish
  <2> HIDE DEF p, i
  <2>6. Put(p, i)
    BY <2>3, <2>4, <2>5, SentPut
  <2>7. SendsRequest(m, p, i)
    BY <1>1, <2>2, <2>3 DEF SendsRequest, i
  <2> QED BY <2>3, <2>4, <2>6, <2>7
<1>2. ASSUME NEW to \in Peers[m], Report(m, to)
      PROVE  \E p \in AllProps, i \in Ids : Put(p, i) /\ SendsReport(m, p, i)
  <2> DEFINE p == ReportProps(m, to)
             i == IdOf(m, -calls')
  <2>1. p \in AllProps /\ p.msgtype = "RB_REPORT" /\ p.receiver = to
    BY ReportFields, PeersAreModules
  <2>2. calls' = calls + 1 /\ calls < MaxCalls /\ calls \in Nat
    BY <1>2, SomeSizes DEF Report, CallsOK
  <2>3. i \in Ids
    <3>1. -calls' \in -MaxCalls .. MaxCalls - 1
      BY <2>2, SomeSizes
    <3> QED BY <3>1, IdFacts
  <2>4. queue' = Sent(m, p, i)
    BY <1>2 DEF Report
  <2> HIDE DEF p, i
  <2>5. Put(p, i)
    BY <2>1, <2>3, <2>4, SentPut
  <2>6. SendsReport(m, p, i)
    BY <1>2, <2>1 DEF SendsReport, i
  <2> QED BY <2>1, <2>3, <2>5, <2>6
<1>3. ASSUME NEW o \in open[m], TempResponse(m, o)
      PROVE  \E p \in AllProps, i \in Ids : Put(p, i) /\ SendsTemp(m, p, i)
  <2> DEFINE p == TempProps(m, o.from, o.rid, "100")
  <2>1. o.from \in Modules /\ o.rid \in Rids /\ o.id \in Ids
    BY DEF OpenOK, OpenRecords
  <2>2. p \in AllProps /\ p.msgtype = "RB_TEMPORARY_RESPONSE" /\ p.receiver = o.from
    BY <2>1, TempFields
  <2>3. queue' = Sent(m, p, o.id)
    BY <1>3 DEF TempResponse
  <2> HIDE DEF p
  <2>4. Put(p, o.id)
    BY <2>1, <2>2, <2>3, SentPut
  <2>5. SendsTemp(m, p, o.id)
    BY <1>3, <2>2 DEF SendsTemp
  <2> QED BY <2>1, <2>2, <2>4, <2>5
<1>4. ASSUME NEW o \in open[m], FinalResponse(m, o)
      PROVE  \E p \in AllProps, i \in Ids : Put(p, i) /\ SendsFinal(m, p, i)
  <2> DEFINE p == FinalProps(m, o.from, o.rid, "200")
  <2>1. o.from \in Modules /\ o.rid \in Rids /\ o.id \in Ids
    BY DEF OpenOK, OpenRecords
  <2>2. /\ p \in AllProps /\ p.msgtype = "RB_FINAL_RESPONSE" /\ p.receiver = o.from
        /\ p.rid = o.rid
    BY <2>1, FinalFields
  <2>3. queue' = Sent(m, p, o.id)
    BY <1>4 DEF FinalResponse
  <2> HIDE DEF p
  <2>4. Put(p, o.id)
    BY <2>1, <2>2, <2>3, SentPut
  <2>5. SendsFinal(m, p, o.id)
    BY <1>4, <2>2 DEF SendsFinal
  <2> QED BY <2>1, <2>2, <2>4, <2>5
<1>5. ASSUME AutoResponse(m)
      PROVE  \E p \in AllProps, i \in Ids : Put(p, i) /\ SendsFinal(m, p, i)
  <2> DEFINE q == recv[m].props
             i == recv[m].id
             p == FinalProps(m, q.sender, q.rid, "200")
  <2>1. recv[m].pc = "ack"
    BY <1>5 DEF AutoResponse, At
  <2>2. q \in AllProps /\ i \in Ids /\ q.msgtype = "RB_NOTIFICATION"
    BY <2>1 DEF RecvOK, AllHonest
  <2>3. q.sender \in Modules /\ q.rid \in Rids
    BY <2>2, AllFields
  <2>4. /\ p \in AllProps /\ p.msgtype = "RB_FINAL_RESPONSE" /\ p.receiver = q.sender
        /\ p.rid = q.rid
    BY <2>3, FinalFields
  <2>5. queue' = Sent(m, p, i)
    BY <1>5 DEF AutoResponse, Props
  <2> HIDE DEF p
  <2>6. Put(p, i)
    BY <2>2, <2>4, <2>5, SentPut
  <2>7. SendsFinal(m, p, i)
    BY <1>5, <2>4 DEF SendsFinal
  <2> QED BY <2>2, <2>4, <2>6, <2>7
<1> QED
  BY <1>1, <1>2, <1>3, <1>4, <1>5 DEF Answering, Sends

\* All that can happen to the queues in a step.
LEMMA QueueChanges ==
  ASSUME LifeOK, CallsOK, RecvOK, QueueOK, OpenOK, AllHonest, NEW m \in Modules, Step(m)
  PROVE  /\ queue' \in [Modules -> QueueRecords]
         /\ \/ Fades /\ ~TakeMessage(m)
            \/ Drops(m) /\ (TakeMessage(m) \/ recv' = recv)
            \/ \E p \in AllProps, i \in Ids : Put(p, i) /\ Sends(m, p, i)
<1>1. CASE \/ \E th \in Threads : Publish(m, th)
           \/ \E to \in Peers[m] : Report(m, to)
           \/ Answering(m) \/ AutoResponse(m)
  BY <1>1, SendingPuts DEF Put
<1>2. CASE TakeMessage(m) \/ LostToGhost(m)
  <2>1. queue[m].messages # << >>
        /\ queue' = [queue EXCEPT ![m].messages = Tail(queue[m].messages)]
    BY <1>2 DEF TakeMessage, LostToGhost
  <2>2. LostToGhost(m) => recv' = recv
    BY DEF LostToGhost, threads
  <2> QED BY <1>2, <2>1, <2>2, DropsOne
<1>3. CASE BrokerNotices(m) \/ Reconnect(m) \/ Restart(m) \/ Freed(m)
  <2>1. \/ queue' = queue \/ queue' = [queue EXCEPT ![m] = NoQueue]
        \/ queue' = [queue EXCEPT ![m] = Declared(queue[m])]
    BY <1>3 DEF BrokerNotices, Reconnect, Restart, Freed
  <2>2. recv' = recv
    BY <1>3 DEF BrokerNotices, Reconnect, Restart, Freed, threads
  <2>3. ~TakeMessage(m)
    <3>1. TakeMessage(m) => recv'[m].pc = "handle" /\ recv[m].pc = "idle"
      BY TakeRecv DEF TakeMessage, At, RecvSet
    <3> QED BY <2>2, <3>1
  <2> QED BY <2>1, <2>3, Empties
<1>4. CASE queue' = queue /\ ~TakeMessage(m)
  BY <1>4, Empties
<1>5. ASSUME \/ SetHandlers(m)
             \/ \E th \in Threads, kind \in Kinds, to \in Peers[m] : BeginCall(m, th, kind, to)
             \/ \E th \in Threads :
                  Register(m, th) \/ Undo(m, th) \/ ReturnOk(m, th) \/ PublishFails(m, th)
      PROVE  queue' = queue
  BY <1>5 DEF BeginCall, SetHandlers, Register, Undo, ReturnOk, PublishFails, broker
<1>6. ASSUME HandleSteps(m) \/ ReceiveEnds(m), ~AutoResponse(m)
      PROVE  queue' = queue
  BY <1>6 DEF HandleSteps, ReceiveEnds, Ignore, HandleRequest, Lookup, Dispatch,
              CallbackReturns, Settle, broker
<1>7. ASSUME TimerSteps(m) \/ TimeoutCallbackCalls(m)
      PROVE  queue' = queue
  BY <1>7 DEF TimerSteps, TimeoutCallbackCalls, StartSweep, EndSweep, TimerEnds, TimeoutProc,
              Erase, broker
<1>8. ASSUME ConnectionBreaks(m) \/ Crash(m) \/ Destroy(m)
      PROVE  queue' = queue
  BY <1>8 DEF ConnectionBreaks, Crash, Destroy, broker
<1> QED
  BY <1>1, <1>2, <1>3, <1>4, <1>5, <1>6, <1>7, <1>8
  DEF Step, Fault, CallSteps, NewCall

\* Requests that are open: one more when the application is given one.
Opens(m, o) ==
  /\ HandleRequest(m) /\ recv[m].props.msgtype = "RB_REQUEST"
  /\ o = [from |-> recv[m].props.sender, rid |-> recv[m].props.rid, id |-> recv[m].id]

LEMMA OpenChanges ==
  ASSUME RecvOK, OpenOK, NEW m \in Modules, Step(m)
  PROVE  /\ open' \in [Modules -> SUBSET OpenRecords]
         /\ \A n \in Modules : \A o \in open'[n] : o \in open[n] \/ (n = m /\ Opens(m, o))
<1>0. ASSUME open' \in [Modules -> SUBSET OpenRecords],
             \A n \in Modules : open'[n] \subseteq open[n]
      PROVE  \A n \in Modules : \A o \in open'[n] : o \in open[n] \/ (n = m /\ Opens(m, o))
  BY <1>0
<1>1. CASE HandleRequest(m)
  <2> DEFINE p == recv[m].props
             o == [from |-> p.sender, rid |-> p.rid, id |-> recv[m].id]
  <2>1. p \in AllProps /\ recv[m].id \in Ids
    BY <1>1 DEF HandleRequest, At, RecvOK
  <2>2. CASE p.msgtype = "RB_REQUEST"
    <3>1. o \in OpenRecords
      BY <2>1, <2>2, AllFields DEF OpenRecords
    <3>2. open' = [open EXCEPT ![m] = open[m] \cup {o}]
      BY <1>1, <2>2 DEF HandleRequest, Type, Props
    <3>3. Opens(m, o)
      BY <1>1, <2>2 DEF Opens
    <3> HIDE DEF o
    <3>4. open' \in [Modules -> SUBSET OpenRecords]
      BY <3>1, <3>2 DEF OpenOK
    <3>5. \A n \in Modules : open'[n] = IF n = m THEN open[m] \cup {o} ELSE open[n]
      BY <3>2 DEF OpenOK
    <3>6. \A n \in Modules : \A x \in open'[n] : x \in open[n] \/ (n = m /\ x = o)
      BY <3>5
    <3> QED BY <3>3, <3>4, <3>6
  <2>3. CASE p.msgtype # "RB_REQUEST"
    <3>1. open' = open
      BY <1>1, <2>3 DEF HandleRequest, Type, Props
    <3> QED BY <1>0, <3>1 DEF OpenOK
  <2> QED BY <2>2, <2>3
<1>2. ASSUME NEW o \in open[m], FinalResponse(m, o)
      PROVE  /\ open' \in [Modules -> SUBSET OpenRecords]
             /\ \A n \in Modules : open'[n] \subseteq open[n]
  BY <1>2 DEF FinalResponse, OpenOK
<1>3. CASE Crash(m)
  <2>1. /\ open' \in [Modules -> SUBSET OpenRecords]
        /\ \A n \in Modules : open'[n] \subseteq open[n]
    BY <1>3 DEF Crash, OpenOK
  <2> QED BY <1>0, <2>1
<1>4. CASE open' = open
  <2>1. /\ open' \in [Modules -> SUBSET OpenRecords]
        /\ \A n \in Modules : open'[n] \subseteq open[n]
    BY <1>4 DEF OpenOK
  <2> QED BY <1>0, <2>1
<1>5. ASSUME \/ SetHandlers(m) \/ NewCall(m) \/ (\E o \in open[m] : TempResponse(m, o))
             \/ \E th \in Threads : CallSteps(m, th)
      PROVE  open' = open
  BY <1>5 DEF NewCall, BeginCall, Report, TempResponse, CallSteps,
              Publish, ReturnOk, PublishFails, SetHandlers, Register, Undo, local
<1>6. ASSUME TakeMessage(m) \/ HandleSteps(m) \/ ReceiveEnds(m), ~HandleRequest(m)
      PROVE  open' = open
  BY <1>6 DEF TakeMessage, HandleSteps, ReceiveEnds, Ignore, Lookup, Dispatch,
              CallbackReturns, AutoResponse, Settle, local
<1>7. ASSUME TimerSteps(m) \/ TimeoutCallbackCalls(m)
      PROVE  open' = open
  BY <1>7 DEF TimerSteps, TimeoutCallbackCalls, StartSweep, EndSweep, TimerEnds, TimeoutProc,
              Erase, local
<1>8. ASSUME \/ LostToGhost(m) \/ BrokerNotices(m) \/ ConnectionBreaks(m) \/ Reconnect(m)
             \/ Destroy(m) \/ Freed(m) \/ Restart(m)
      PROVE  open' = open
  BY <1>8 DEF LostToGhost, BrokerNotices, ConnectionBreaks, Reconnect, Destroy, Freed, Restart,
              local
<1>9. CASE \E o \in open[m] : FinalResponse(m, o)
  BY <1>0, <1>2, <1>9
<1> QED
  BY <1>1, <1>3, <1>4, <1>5, <1>6, <1>7, <1>8, <1>9 DEF Step, Fault, Answering

-----------------------------------------------------------------------------
\* History.

LEMMA OutcomeStep ==
  ASSUME HistoryOK, NEW i \in Ids, NEW what \in Outcomes, NEW m, Tell(m, i, what)
  PROVE  /\ outcome' \in [Ids -> SUBSET Outcomes]
         /\ \A j \in Ids : j # i => outcome'[j] = outcome[j]
BY DEF HistoryOK, Tell

\* Only the threads of a process tell it something.
LEMMA OutcomeChanges ==
  ASSUME LifeOK, RecvOK, TasksOK, HistoryOK, NEW m \in Modules, Step(m)
  PROVE  /\ outcome' \in [Ids -> SUBSET Outcomes]
         /\ \/ outcome' = outcome
            \/ /\ Dispatch(m) \/ \E rid \in Rids : TimeoutProc(m, rid)
               /\ \A j \in Ids : j[1] # m => outcome'[j] = outcome[j]
<1>1. CASE Dispatch(m)
  <2> DEFINE id == IdOf(m, Props(m).rid)
  <2>1. recv[m].props \in AllProps
    BY <1>1 DEF Dispatch, At, RecvOK
  <2>2. CASE Type(m) = "RB_FINAL_RESPONSE"
    <3>1. Props(m).rid \in Rids
      BY <2>1, <2>2, AllFields DEF Type, Props
    <3>2. id \in Ids /\ id[1] = m
      BY <3>1, IdFacts, SomeSizes
    <3>3. \E what \in Outcomes : Tell(m, id, what)
      BY <1>1, <2>2 DEF Dispatch, Outcomes
    <3> HIDE DEF id
    <3>4. PICK what \in Outcomes : Tell(m, id, what)
      BY <3>3
    <3>5. /\ outcome' \in [Ids -> SUBSET Outcomes]
          /\ \A j \in Ids : j # id => outcome'[j] = outcome[j]
      BY <3>2, <3>4, OutcomeStep
    <3> QED BY <1>1, <3>2, <3>5
  <2>3. CASE Type(m) # "RB_FINAL_RESPONSE"
    BY <1>1, <2>3 DEF Dispatch, HistoryOK
  <2> QED BY <2>2, <2>3
<1>2. ASSUME NEW rid \in Rids, TimeoutProc(m, rid)
      PROVE  /\ outcome' \in [Ids -> SUBSET Outcomes]
             /\ \A j \in Ids : j[1] # m => outcome'[j] = outcome[j]
  <2> DEFINE id == IdOf(m, rid)
  <2>1. id \in Ids /\ id[1] = m
    BY IdFacts, SomeSizes
  <2>2. \E what \in Outcomes : Tell(m, id, what)
    BY <1>2 DEF TimeoutProc, Outcomes
  <2> HIDE DEF id
  <2>3. PICK what \in Outcomes : Tell(m, id, what)
    BY <2>2
  <2>4. /\ outcome' \in [Ids -> SUBSET Outcomes]
        /\ \A j \in Ids : j # id => outcome'[j] = outcome[j]
    BY <2>1, <2>3, OutcomeStep
  <2> QED BY <2>1, <2>4
<1>3. CASE outcome' = outcome
  BY <1>3 DEF HistoryOK
<1>4. ASSUME \/ SetHandlers(m) \/ NewCall(m) \/ Answering(m)
             \/ \E th \in Threads : CallSteps(m, th)
      PROVE  outcome' = outcome
  BY <1>4 DEF NewCall, BeginCall, Report, Answering, TempResponse, FinalResponse, CallSteps,
              Publish, ReturnOk, PublishFails, SetHandlers, Register, Undo, history
<1>5. ASSUME TakeMessage(m) \/ HandleSteps(m) \/ ReceiveEnds(m), ~Dispatch(m)
      PROVE  outcome' = outcome
  BY <1>5 DEF TakeMessage, HandleSteps, ReceiveEnds, Ignore, HandleRequest, Lookup,
              CallbackReturns, AutoResponse, Settle, history
<1>6. ASSUME StartSweep(m) \/ EndSweep(m) \/ TimerEnds(m) \/ Erase(m) \/ TimeoutCallbackCalls(m)
      PROVE  outcome' = outcome
  BY <1>6 DEF TimeoutCallbackCalls, StartSweep, EndSweep, TimerEnds, Erase, history
<1>7. ASSUME \/ LostToGhost(m) \/ BrokerNotices(m) \/ ConnectionBreaks(m) \/ Reconnect(m)
             \/ Crash(m) \/ Destroy(m) \/ Freed(m) \/ Restart(m)
      PROVE  outcome' = outcome
  BY <1>7 DEF LostToGhost, BrokerNotices, ConnectionBreaks, Reconnect, Crash, Destroy, Freed,
              Restart, history
<1> QED
  BY <1>1, <1>2, <1>3, <1>4, <1>5, <1>6, <1>7 DEF Step, Fault, TimerSteps

\* Ids that are asked, accepted and answered are ids, and counting goes up by one.
LEMMA HistoryKept ==
  ASSUME LifeOK, CallsOK, TasksOK, RecvOK, OpenOK, HistoryOK, NEW m \in Modules, Step(m)
  PROVE  /\ HistoryOK'
         /\ \/ handled' = handled
            \/ HandleRequest(m) /\ handled' = [handled EXCEPT ![recv[m].id] = @ + 1]
<1>1. outcome' \in [Ids -> SUBSET Outcomes]
  BY OutcomeChanges
<1>2. ASSUME NEW th \in Threads, Register(m, th)
      PROVE  asked' \subseteq Ids /\ UNCHANGED <<accepted, answered, handled>>
  <2>1. next_timer_id[m] \in Rids
    BY <1>2, RegisterKeepsCalls
  <2>2. IdOf(m, next_timer_id[m]) \in Ids
    BY <2>1, IdFacts, SomeSizes
  <2> QED BY <1>2, <2>2 DEF Register, HistoryOK
<1>3. ASSUME NEW o \in open[m], FinalResponse(m, o)
      PROVE  answered' \subseteq Ids /\ UNCHANGED <<asked, accepted, handled>>
  <2>1. o.id \in Ids
    BY DEF OpenOK, OpenRecords
  <2> QED BY <1>3, <2>1 DEF FinalResponse, HistoryOK
<1>4. ASSUME AutoResponse(m)
      PROVE  answered' \subseteq Ids /\ UNCHANGED <<asked, accepted, handled>>
  <2>1. recv[m].id \in Ids
    BY <1>4 DEF AutoResponse, At, RecvOK
  <2> QED BY <1>4, <2>1 DEF AutoResponse, HistoryOK
<1>5. ASSUME HandleRequest(m)
      PROVE  /\ UNCHANGED <<asked, accepted, answered>>
             /\ handled' = [handled EXCEPT ![recv[m].id] = @ + 1] /\ handled' \in [Ids -> Nat]
  <2>1. recv[m].id \in Ids
    BY <1>5 DEF HandleRequest, At, RecvOK
  <2> QED BY <1>5, <2>1 DEF HandleRequest, HistoryOK
<1>6. CASE UNCHANGED <<asked, accepted, answered, handled>>
  BY <1>1, <1>6 DEF HistoryOK
<1>7. ASSUME \/ SetHandlers(m) \/ NewCall(m) \/ (\E o \in open[m] : TempResponse(m, o))
             \/ \E th \in Threads : Publish(m, th) \/ Undo(m, th) \/ PublishFails(m, th)
      PROVE  UNCHANGED <<asked, accepted, answered, handled>>
  BY <1>7 DEF NewCall, BeginCall, Report, TempResponse, PublishFails, SetHandlers, Publish,
              Undo, history
<1>8. ASSUME TakeMessage(m) \/ HandleSteps(m) \/ ReceiveEnds(m),
             ~HandleRequest(m), ~AutoResponse(m)
      PROVE  UNCHANGED <<asked, accepted, answered, handled>>
  BY <1>8 DEF TakeMessage, HandleSteps, ReceiveEnds, Ignore, Lookup, Dispatch,
              CallbackReturns, Settle, history
<1>9. ASSUME TimerSteps(m) \/ TimeoutCallbackCalls(m)
      PROVE  UNCHANGED <<asked, accepted, answered, handled>>
  BY <1>9 DEF TimerSteps, TimeoutCallbackCalls, StartSweep, EndSweep, TimerEnds, TimeoutProc,
              Erase, history
<1>10. ASSUME \/ LostToGhost(m) \/ BrokerNotices(m) \/ ConnectionBreaks(m) \/ Reconnect(m)
              \/ Crash(m) \/ Destroy(m) \/ Freed(m) \/ Restart(m)
       PROVE  UNCHANGED <<asked, accepted, answered, handled>>
  BY <1>10 DEF LostToGhost, BrokerNotices, ConnectionBreaks, Reconnect, Crash, Destroy, Freed,
               Restart, history
<1>11. ASSUME NEW th \in Threads, ReturnOk(m, th)
       PROVE  accepted' \subseteq Ids /\ UNCHANGED <<asked, answered, handled>>
  <2>1. call[m][th].rid \in Rids
    BY <1>11 DEF ReturnOk, CallsOK
  <2>2. IdOf(m, call[m][th].rid) \in Ids
    BY <2>1, IdFacts, SomeSizes
  <2> QED BY <1>11, <2>2 DEF ReturnOk, HistoryOK
<1> USE DEF HistoryOK
<1>12. ASSUME HandleRequest(m)
       PROVE  HistoryOK'
  BY <1>1, <1>5, <1>12
<1> QED
  BY <1>1, <1>2, <1>3, <1>4, <1>5, <1>6, <1>7, <1>8, <1>9, <1>10, <1>11, <1>12
  DEF Step, Fault, Answering, CallSteps

-----------------------------------------------------------------------------
\* The type invariant is inductive.

LEMMA TypeKept ==
  ASSUME TypeInv, AllHonest, NEW m \in Modules, Step(m)
  PROVE  TypeInv'
<1> USE DEF TypeInv
<1>1. LifeOK' /\ CallsOK' /\ TasksOK'
  BY LifeKept, CallsKept, TasksKept
<1>2. RecvOK' /\ TimerOK'
  BY RecvKept, TimerKept
<1>3. QueueOK' /\ OpenOK' /\ HistoryOK'
  BY QueueChanges, OpenChanges, HistoryKept DEF QueueOK, OpenOK
<1> QED BY <1>1, <1>2, <1>3

-----------------------------------------------------------------------------
\* What messages say of their requests stays true.

LEMMA HonestStays ==
  ASSUME LifeOK, LifeOK', HistoryOK, HistoryOK', NEW n, NEW p, NEW i \in Ids, Honest(n, p, i),
         \A k \in Modules : lives'[k] >= lives[k],
         \A j \in Ids : handled'[j] >= handled[j],
         answered \subseteq answered', asked \subseteq asked'
  PROVE  Honest(n, p, i)'
<1>1. i[1] \in Modules /\ i[2] \in Lives
  BY IdParts
<1>2. /\ lives[i[1]] \in Int /\ lives'[i[1]] \in Int /\ i[2] \in Int
      /\ handled[i] \in Int /\ handled'[i] \in Int
  BY <1>1 DEF LifeOK, HistoryOK, Lives
<1>3. i[2] <= lives'[i[1]]
  BY <1>1, <1>2 DEF Honest
<1>4. handled[i] > 0 => handled'[i] > 0
  BY <1>2
<1> QED BY <1>3, <1>4 DEF Honest

\* Where the messages of a queue come from.
LEMMA MessageOrigins ==
  ASSUME QueueOK, NEW m \in Modules, NEW n \in Modules, NEW k \in 1 .. Len(Messages(n)'),
         \/ Fades
         \/ Drops(m)
         \/ \E p \in AllProps, i \in Ids : Put(p, i) /\ Sends(m, p, i)
  PROVE  \/ \E l \in 1 .. Len(Messages(n)) : Messages(n)'[k] = Messages(n)[l]
         \/ \E p \in AllProps, i \in Ids :
              /\ Put(p, i) /\ Sends(m, p, i) /\ n = p.receiver
              /\ Messages(n)'[k] = Packed(p, i)
<1>1. Messages(n) \in Seq(Wire)
  BY DEF QueueOK, QueueRecords, Messages
<1>2. CASE Messages(n)' = Messages(n)
  BY <1>2
<1>3. CASE Messages(n)' = << >>
  BY <1>3
<1>4. CASE Messages(n) # << >> /\ Messages(n)' = Tail(Messages(n))
  <2> DEFINE s == Messages(n)
  <2>1. s # << >> /\ Messages(n)' = Tail(s)
    BY <1>4
  <2>2. Len(s) \in Nat /\ Len(Tail(s)) = Len(s) - 1 /\ \A j \in 1 .. Len(s) - 1 : Tail(s)[j] = s[j + 1]
    BY <2>1, HeadFacts DEF Messages
  <2>3. k \in 1 .. Len(s) - 1
    BY <2>1, <2>2
  <2>4. k + 1 \in 1 .. Len(s)
    BY <2>2, <2>3
  <2> QED BY <2>1, <2>2, <2>3, <2>4
<1>5. ASSUME NEW p \in AllProps, NEW i \in Ids, Put(p, i), Sends(m, p, i), n = p.receiver,
             Messages(n)' = Append(Messages(n), Packed(p, i))
      PROVE  \/ \E l \in 1 .. Len(Messages(n)) : Messages(n)'[k] = Messages(n)[l]
             \/ Messages(n)'[k] = Packed(p, i)
  <2> DEFINE s == Messages(n)
             w == Packed(p, i)
  <2>1. s \in Seq(Wire) /\ w \in Wire /\ Messages(n)' = Append(s, w)
    BY <1>1, <1>5, PackedFacts
  <2> HIDE DEF s, w
  <2>2. /\ Len(Append(s, w)) = Len(s) + 1 /\ Len(s) \in Nat
        /\ Append(s, w)[Len(s) + 1] = w
        /\ \A j \in 1 .. Len(s) : Append(s, w)[j] = s[j]
    BY <2>1
  <2>3. k \in 1 .. Len(s) \/ k = Len(s) + 1
    BY <2>1, <2>2
  <2> QED BY <2>1, <2>2, <2>3 DEF s, w
<1>6. CASE Fades
  BY <1>2, <1>3, <1>6 DEF Fades
<1>7. CASE Drops(m)
  BY <1>2, <1>4, <1>7 DEF Drops
<1>8. CASE \E p \in AllProps, i \in Ids : Put(p, i) /\ Sends(m, p, i)
  BY <1>2, <1>5, <1>8 DEF Put
<1> QED BY <1>6, <1>7, <1>8

\* A rid is handed out and its task is added in one step under timer_mutex.
LEMMA RidsAskedKept ==
  ASSUME TypeInv, RidsAsked, NEW m \in Modules, Step(m)
  PROVE  RidsAsked'
<1>0. /\ lives \in [Modules -> Lives] /\ next_timer_id \in [Modules -> Nat]
      /\ Rids \subseteq Nat
  BY SomeSizes DEF TypeInv, LifeOK, CallsOK
<1>1. ASSUME NEW th \in Threads, Register(m, th)
      PROVE  RidsAsked'
  <2> DEFINE r == next_timer_id[m]
  <2>1. next_timer_id' = [next_timer_id EXCEPT ![m] = r + 1]
    BY <1>1, RegisterKeepsCalls DEF TypeInv
  <2>2. lives' = lives /\ asked' = asked \cup {IdOf(m, r)}
    BY <1>1 DEF Register
  <2> HIDE DEF r
  <2>3. r \in Nat /\ r = next_timer_id[m]
    BY <1>0 DEF r
  <2> SUFFICES ASSUME NEW n \in Modules, NEW q \in Rids, q < next_timer_id'[n]
               PROVE  <<n, lives'[n], q>> \in asked'
    BY DEF RidsAsked, IdOf
  <2>4. q < next_timer_id[n] \/ (n = m /\ q = r)
    BY <1>0, <2>1, <2>3
  <2>5. q < next_timer_id[n] => <<n, lives[n], q>> \in asked
    BY DEF RidsAsked, IdOf
  <2> QED BY <2>2, <2>4, <2>5 DEF IdOf
<1>2. CASE Restart(m)
  <2>1. /\ next_timer_id' = [next_timer_id EXCEPT ![m] = 0]
        /\ lives' = [lives EXCEPT ![m] = lives[m] + 1] /\ asked' = asked
    BY <1>2 DEF Restart, history
  <2> SUFFICES ASSUME NEW n \in Modules, NEW q \in Rids, q < next_timer_id'[n]
               PROVE  <<n, lives'[n], q>> \in asked'
    BY DEF RidsAsked, IdOf
  <2>2. q \in Nat
    BY <1>0
  <2>3. n # m
    BY <1>0, <2>1, <2>2
  <2>4. next_timer_id'[n] = next_timer_id[n] /\ lives'[n] = lives[n]
    BY <1>0, <2>1, <2>3
  <2> QED BY <2>1, <2>4 DEF RidsAsked, IdOf
<1>3. CASE UNCHANGED <<lives, next_timer_id, asked>>
  BY <1>3 DEF RidsAsked, IdOf
<1>4. ASSUME \/ SetHandlers(m) \/ NewCall(m) \/ Answering(m)
             \/ \E th \in Threads : CallSteps(m, th) /\ ~Register(m, th)
      PROVE  UNCHANGED <<lives, next_timer_id, asked>>
  BY <1>4 DEF NewCall, BeginCall, Report, Answering, TempResponse, FinalResponse, CallSteps,
              Publish, ReturnOk, PublishFails, SetHandlers, Undo, local, history
<1>5. ASSUME TakeMessage(m) \/ HandleSteps(m) \/ ReceiveEnds(m)
      PROVE  UNCHANGED <<lives, next_timer_id, asked>>
  BY <1>5 DEF TakeMessage, HandleSteps, ReceiveEnds, Ignore, HandleRequest, Lookup, Dispatch,
              CallbackReturns, AutoResponse, Settle, local, history
<1>6. ASSUME TimerSteps(m) \/ TimeoutCallbackCalls(m)
      PROVE  UNCHANGED <<lives, next_timer_id, asked>>
  BY <1>6 DEF TimerSteps, TimeoutCallbackCalls, TimeoutProc, StartSweep, EndSweep, TimerEnds,
              Erase, local, history
<1>7. ASSUME \/ LostToGhost(m) \/ BrokerNotices(m) \/ ConnectionBreaks(m) \/ Reconnect(m)
             \/ Crash(m) \/ Destroy(m) \/ Freed(m)
      PROVE  UNCHANGED <<lives, next_timer_id, asked>>
  BY <1>7 DEF LostToGhost, BrokerNotices, ConnectionBreaks, Reconnect, Crash, Destroy, Freed,
              local, history
<1> QED
  BY <1>1, <1>2, <1>3, <1>4, <1>5, <1>6, <1>7 DEF Step, Fault

\* A message is true when it is sent.
LEMMA SentHonest ==
  ASSUME TypeInv, AllHonest, RidsAsked, TypeInv', NEW m \in Modules, Step(m),
         NEW p \in AllProps, NEW i \in Ids, Sends(m, p, i)
  PROVE  Honest(p.receiver, p, i)'
<1> USE DEF TypeInv
<1>0. /\ \A k \in Modules : lives'[k] >= lives[k] /\ lives[k] \in Int /\ lives'[k] \in Int
      /\ \A j \in Ids : handled'[j] >= handled[j] /\ handled[j] \in Int /\ handled'[j] \in Int
  <2>1. recv[m].pc = "handle" => recv[m].id \in Ids
    BY DEF RecvOK
  <2>2. /\ \A k \in Modules : lives'[k] >= lives[k]
        /\ \A j \in Ids : handled'[j] >= handled[j]
    BY <2>1, Grows
  <2>3. LifeOK /\ LifeOK' /\ HistoryOK /\ HistoryOK'
    OBVIOUS
  <2> QED BY <2>2, <2>3 DEF LifeOK, HistoryOK, Lives
<1>1. CASE SendsRequest(m, p, i)
  <2>1. PICK th \in Threads :
          /\ Publish(m, th) /\ i = IdOf(m, call[m][th].rid)
          /\ p.msgtype \in Kinds /\ p.sender = m /\ p.rid = call[m][th].rid
    BY <1>1 DEF SendsRequest
  <2>2. i[1] = m /\ i[2] = lives[m] /\ i[3] = p.rid
    BY <2>1 DEF IdOf
  <2>3. i[2] <= lives'[i[1]]
    BY <1>0, <2>1, <2>2
  <2>4. call[m][th].rid \in Rids /\ call[m][th].rid < next_timer_id[m]
    BY <2>1 DEF Publish, CallsOK
  <2>5. i \in asked'
    BY <2>1, <2>4 DEF RidsAsked, Publish, history
  <2> QED BY <2>1, <2>2, <2>3, <2>5 DEF Honest, Kinds
<1>2. CASE SendsReport(m, p, i)
  <2>1. i = IdOf(m, -calls') /\ p.msgtype = "RB_REPORT"
    BY <1>2 DEF SendsReport
  <2>2. i[2] <= lives'[i[1]]
    BY <1>0, <2>1 DEF IdOf
  <2>3. i[3] < 0
    <3>1. calls' = calls + 1 /\ calls \in Nat
      BY <1>2 DEF SendsReport, Report, CallsOK
    <3>2. i[3] = -calls'
      BY <2>1 DEF IdOf
    <3> QED BY <3>1, <3>2
  <2> QED BY <2>1, <2>2, <2>3 DEF Honest, Kinds
<1>3. CASE SendsTemp(m, p, i)
  <2>1. PICK o \in open[m] : i = o.id /\ p.msgtype = "RB_TEMPORARY_RESPONSE"
    BY <1>3 DEF SendsTemp
  <2>2. o.from = i[1] /\ i[2] <= lives[o.from]
    BY <2>1 DEF AllHonest
  <2>3. i[1] \in Modules /\ i[2] \in Int
    BY IdParts DEF Lives
  <2>4. i[2] <= lives'[i[1]]
    BY <1>0, <2>2, <2>3
  <2> QED BY <2>1, <2>4 DEF Honest, Kinds
<1>4. CASE SendsFinal(m, p, i)
  <2>1. /\ p.receiver = i[1] /\ p.rid = i[3] /\ i[2] <= lives[i[1]] /\ handled[i] > 0
        /\ p.msgtype = "RB_FINAL_RESPONSE" /\ i \in answered'
    <3>1. ASSUME NEW o \in open[m], FinalResponse(m, o), i = o.id, p.receiver = o.from,
                 p.rid = o.rid
          PROVE  /\ p.receiver = i[1] /\ p.rid = i[3] /\ i[2] <= lives[i[1]] /\ handled[i] > 0
                 /\ i \in answered'
      BY <3>1 DEF AllHonest, FinalResponse
    <3>2. ASSUME AutoResponse(m), i = recv[m].id, p.receiver = recv[m].props.sender,
                 p.rid = recv[m].props.rid
          PROVE  /\ p.receiver = i[1] /\ p.rid = i[3] /\ i[2] <= lives[i[1]] /\ handled[i] > 0
                 /\ i \in answered'
      <4>1. recv[m].pc = "ack" /\ i \in answered'
        BY <3>2 DEF AutoResponse, At
      <4>2. /\ recv[m].props.msgtype = "RB_NOTIFICATION"
            /\ Honest(m, recv[m].props, recv[m].id)
        BY <4>1 DEF AllHonest
      <4>3. handled[recv[m].id] > 0
        BY <4>1, <4>2 DEF AllHonest, AskTypes
      <4> QED BY <3>2, <4>1, <4>2, <4>3 DEF Honest, Kinds
    <3> QED BY <1>4, <3>1, <3>2 DEF SendsFinal
  <2>2. i[1] \in Modules /\ i[2] \in Int
    BY IdParts DEF Lives
  <2>3. i[2] <= lives'[i[1]] /\ handled'[i] > 0
    BY <1>0, <2>1, <2>2
  <2> QED BY <2>1, <2>3 DEF Honest, Kinds
<1> QED BY <1>1, <1>2, <1>3, <1>4 DEF Sends

\* Honest in the next state, of properties and an id as they are now.
HonestNext(m, p, i) ==
  /\ i[2] <= lives'[i[1]]
  /\ p.msgtype \in Kinds => p.sender = i[1] /\ p.rid = i[3] /\ i \in asked'
  /\ p.msgtype = "RB_REPORT" => i[3] < 0
  /\ p.msgtype = "RB_FINAL_RESPONSE" =>
       i[1] = m /\ i[3] = p.rid /\ handled'[i] > 0 /\ i \in answered'

LEMMA HonestyKept ==
  ASSUME TypeInv, AllHonest, RidsAsked, TypeInv', NEW m \in Modules, Step(m)
  PROVE  AllHonest'
<1> USE DEF TypeInv
<1>1. /\ \A k \in Modules : lives'[k] >= lives[k]
      /\ \A j \in Ids : handled'[j] >= handled[j]
      /\ answered \subseteq answered' /\ asked \subseteq asked'
  BY Grows DEF RecvOK
<1>2. ASSUME NEW n \in Modules, NEW p, NEW i \in Ids, Honest(n, p, i)
      PROVE  HonestNext(n, p, i)
  <2>1. Honest(n, p, i)'
    BY <1>1, <1>2, HonestStays
  <2> QED BY <2>1 DEF Honest, HonestNext
<1>3. ASSUME NEW i \in Ids, handled[i] > 0
      PROVE  handled'[i] > 0
  <2>1. handled[i] \in Int /\ handled'[i] \in Int /\ handled'[i] >= handled[i]
    BY <1>1 DEF HistoryOK
  <2> QED BY <1>3, <2>1
<1>4. ASSUME HandleRequest(m)
      PROVE  handled'[recv[m].id] > 0
  <2>1. recv[m].id \in Ids
    BY <1>4 DEF HandleRequest, At, RecvOK
  <2>2. handled'[recv[m].id] = handled[recv[m].id] + 1 /\ handled[recv[m].id] \in Nat
    BY <1>4, <2>1 DEF HandleRequest, HistoryOK
  <2> QED BY <2>2
<1>5. ASSUME NEW n \in Modules, NEW k \in 1 .. Len(Messages(n)'), NEW w,
             w = Messages(n)'[k]
      PROVE  HonestNext(n, PropsOf(w), w.id)
  <2>1. CASE \E l \in 1 .. Len(Messages(n)) : Messages(n)'[k] = Messages(n)[l]
    <3>1. PICK l \in 1 .. Len(Messages(n)) : w = Messages(n)[l]
      BY <1>5, <2>1
    <3>2. Honest(n, PropsOf(w), w.id)
      BY <3>1 DEF AllHonest, Messages
    <3>3. w \in Wire
      BY <3>1 DEF QueueOK, QueueRecords, Messages
    <3> QED BY <1>2, <3>2, <3>3, WireFacts
  <2>2. ASSUME NEW p \in AllProps, NEW i \in Ids, Sends(m, p, i), n = p.receiver,
               Messages(n)'[k] = Packed(p, i)
        PROVE  HonestNext(n, PropsOf(w), w.id)
    <3>1. HonestNext(n, p, i)
      <4>1. Honest(p.receiver, p, i)'
        BY <2>2, SentHonest
      <4> QED BY <2>2, <4>1 DEF Honest, HonestNext
    <3>2. PropsOf(Packed(p, i)) = p /\ Packed(p, i).id = i
      BY PackedFacts
    <3>3. PropsOf(w) = p /\ w.id = i
      BY <1>5, <2>2, <3>2
    <3> QED BY <3>1, <3>3
  <2>3. \/ Fades \/ Drops(m) \/ \E p \in AllProps, i \in Ids : Put(p, i) /\ Sends(m, p, i)
    BY QueueChanges
  <2> QED BY <2>1, <2>2, <2>3, MessageOrigins
<1>6. PICK r \in RecvRecords : RecvSet(m, r) /\ Change(m, r)
  BY RecvChanges
<1> DEFINE Says(n, q) ==
             q.pc \notin {"idle", "ended"} =>
               /\ Honest(n, q.props, q.id)
               /\ q.pc \in {"callback", "ack"} /\ q.props.msgtype \in AskTypes =>
                    handled[q.id] > 0
               /\ q.pc = "ack" => q.props.msgtype = "RB_NOTIFICATION"
           SaysNext(n, q) ==
             q.pc \notin {"idle", "ended"} =>
               /\ HonestNext(n, q.props, q.id)
               /\ q.pc \in {"callback", "ack"} /\ q.props.msgtype \in AskTypes =>
                    handled'[q.id] > 0
               /\ q.pc = "ack" => q.props.msgtype = "RB_NOTIFICATION"
<1>7. \A n \in Modules : Says(n, recv[n])
  BY DEF AllHonest
<1>8. \A n \in Modules : recv[n].pc \notin {"idle", "ended"} => recv[n].id \in Ids
  BY DEF RecvOK
<1>9. ASSUME NEW n \in Modules PROVE SaysNext(n, recv[n])
  BY <1>2, <1>3, <1>7, <1>8
<1>10. SaysNext(m, r)
  <2>1. CASE Stays(m, r)
    BY <1>9, <2>1 DEF Stays, Moved
  <2>2. CASE Takes(m, r)
    <3>1. PICK w : w = Messages(m)[1]
      OBVIOUS
    <3>2. /\ r.pc = "handle" /\ r.props = PropsOf(w) /\ r.id = w.id
          /\ 1 \in 1 .. Len(Messages(m)) /\ w \in Wire
      BY <2>2, <3>1, HeadFacts DEF Takes, TakeMessage, Messages
    <3>3. Honest(m, PropsOf(w), w.id)
      BY <3>1, <3>2 DEF AllHonest, Messages
    <3>4. HonestNext(m, PropsOf(w), w.id)
      BY <1>2, <3>2, <3>3, WireFacts
    <3> QED BY <3>2, <3>4
  <2>3. CASE Finishes(m, r) \/ Ends(m, r)
    BY <2>3, IdleRecvFields DEF Finishes, Ends
  <2>4. CASE Proceeds(m, r)
    <3>1. /\ recv[m].pc \notin {"idle", "ended"} /\ r.props = recv[m].props
          /\ r.id = recv[m].id
      BY <2>4 DEF Proceeds, Moved
    <3>2. HonestNext(m, r.props, r.id)
      BY <1>2, <1>7, <1>8, <3>1
    <3>3. r.pc = "callback" /\ r.props.msgtype \in AskTypes => handled'[r.id] > 0
      BY <1>4, <2>4, <3>1 DEF Proceeds
    <3>4. r.pc = "ack" => r.props.msgtype = "RB_NOTIFICATION" /\ handled'[r.id] > 0
      <4>1. r.pc = "ack" => recv[m].pc = "callback" /\ recv[m].props.msgtype = "RB_NOTIFICATION"
        BY <2>4 DEF Proceeds
      <4>2. r.pc = "ack" => handled[recv[m].id] > 0
        BY <1>7, <4>1 DEF AskTypes
      <4> QED BY <1>3, <1>8, <3>1, <4>1, <4>2
    <3> QED BY <3>2, <3>3, <3>4
  <2> QED BY <1>6, <2>1, <2>2, <2>3, <2>4 DEF Change
<1>11. ASSUME NEW n \in Modules PROVE SaysNext(n, recv'[n])
  <2>1. recv'[n] = IF n = m THEN r ELSE recv[n]
    BY <1>6 DEF RecvSet
  <2> HIDE DEF SaysNext
  <2> QED BY <1>9, <1>10, <2>1
<1>12. ASSUME NEW n \in Modules, NEW o \in open'[n]
       PROVE  /\ o.from = o.id[1] /\ o.rid = o.id[3] /\ o.id[2] <= lives'[o.from]
              /\ handled'[o.id] > 0 /\ o.id \in asked'
  <2>1. o \in open[n] \/ (n = m /\ Opens(m, o))
    BY <1>12, OpenChanges
  <2>2. CASE o \in open[n]
    <3>1. o.id \in Ids /\ o.from \in Modules
      BY <2>2 DEF OpenOK, OpenRecords
    <3>2. /\ o.from = o.id[1] /\ o.rid = o.id[3] /\ o.id[2] <= lives[o.from]
          /\ handled[o.id] > 0 /\ o.id \in asked
      BY <2>2 DEF AllHonest
    <3>3. lives[o.from] \in Int /\ lives'[o.from] \in Int /\ o.id[2] \in Int
      BY <3>1, IdParts DEF LifeOK, Lives
    <3>4. o.id[2] <= lives'[o.from]
      BY <1>1, <3>1, <3>2, <3>3
    <3> QED BY <1>1, <1>3, <3>1, <3>2, <3>4
  <2>3. CASE Opens(m, o)
    <3>1. /\ HandleRequest(m) /\ recv[m].props.msgtype = "RB_REQUEST"
          /\ o.from = recv[m].props.sender /\ o.rid = recv[m].props.rid /\ o.id = recv[m].id
      BY <2>3 DEF Opens
    <3>2. recv[m].pc = "handle"
      BY <3>1 DEF HandleRequest, At
    <3>3. HonestNext(m, recv[m].props, recv[m].id)
      BY <1>2, <1>7, <1>8, <3>2
    <3>4. handled'[o.id] > 0
      BY <1>4, <3>1
    <3> QED BY <3>1, <3>3, <3>4 DEF HonestNext, Kinds
  <2> QED BY <2>1, <2>2, <2>3
<1>13. ASSUME NEW n \in Modules, NEW k \in 1 .. Len(queue'[n].messages)
       PROVE  HonestNext(n, PropsOf(queue'[n].messages[k]), queue'[n].messages[k].id)
  BY <1>5 DEF Messages
<1> QED BY <1>11, <1>12, <1>13 DEF AllHonest, Honest, HonestNext

-----------------------------------------------------------------------------
\* Only a genuine response settles a request.

LEMMA GenuineKept ==
  ASSUME TypeInv, AllHonest, Genuine, TypeInv', NEW m \in Modules, Step(m)
  PROVE  Genuine'
<1> USE DEF TypeInv
<1>1. /\ \A j \in Ids : handled'[j] >= handled[j] /\ handled[j] \in Int /\ handled'[j] \in Int
      /\ answered \subseteq answered'
  <2>1. recv[m].pc = "handle" => recv[m].id \in Ids
    BY DEF RecvOK
  <2>2. /\ \A j \in Ids : handled'[j] >= handled[j]
        /\ answered \subseteq answered'
    BY <2>1, Grows
  <2> QED BY <2>2 DEF HistoryOK
<1> DEFINE Fair(c) ==
             /\ c[1] \in Ids /\ c[2] \in Ids
             /\ c[2][1] = c[1][1] /\ c[2][3] = c[1][3] /\ c[2][2] <= c[1][2]
             /\ handled[c[2]] > 0 /\ c[2] \in answered
<1>2. credited \subseteq Ids \X Ids /\ \A c \in credited : Fair(c)
  BY DEF Genuine, AnswerIsGenuine
<1>3. ASSUME \A c \in credited' : c \in Ids \X Ids /\ Fair(c)
      PROVE  Genuine'
  <2>1. \A c \in credited' :
          LET mine == c[1] theirs == c[2]
          IN  /\ theirs[1] = mine[1] /\ theirs[3] = mine[3] /\ theirs[2] <= mine[2]
              /\ handled'[theirs] > 0 /\ theirs \in answered'
    <3> SUFFICES ASSUME NEW c \in credited'
                 PROVE  /\ c[2][1] = c[1][1] /\ c[2][3] = c[1][3] /\ c[2][2] <= c[1][2]
                        /\ handled'[c[2]] > 0 /\ c[2] \in answered'
      OBVIOUS
    <3>1. Fair(c)
      BY <1>3
    <3>2. handled'[c[2]] > 0
      BY <1>1, <3>1
    <3> QED BY <1>1, <3>1, <3>2
  <2> QED BY <1>3, <2>1 DEF Genuine, AnswerIsGenuine
<1>4. CASE Dispatch(m)
  <2> DEFINE p == recv[m].props
             i == recv[m].id
  <2>1. recv[m].pc = "found" /\ p \in AllProps /\ i \in Ids /\ Honest(m, p, i)
    BY <1>4 DEF Dispatch, At, RecvOK, AllHonest
  <2>2. CASE credited' = credited
    BY <1>2, <1>3, <2>2
  <2>3. CASE credited' # credited
    <3>1. PICK t \in MyTask(m) : Credit(m, t.rid) /\ p.msgtype = "RB_FINAL_RESPONSE"
      BY <1>4, <2>3 DEF Dispatch, Type, Props
    <3>2. t.rid = p.rid /\ p.rid \in Rids
      BY <2>1, <3>1, AllFields DEF MyTask, Props
    <3>3. credited' = credited \cup {<<IdOf(m, p.rid), i>>}
      BY <3>1, <3>2 DEF Credit
    <3>4. /\ IdOf(m, p.rid) \in Ids /\ IdOf(m, p.rid)[1] = m
          /\ IdOf(m, p.rid)[2] = lives[m] /\ IdOf(m, p.rid)[3] = p.rid
      BY <3>2, IdFacts, SomeSizes
    <3>5. i[1] = m /\ i[3] = p.rid /\ handled[i] > 0 /\ i \in answered /\ i[2] <= lives[m]
      BY <2>1, <3>1 DEF Honest
    <3>6. Fair(<<IdOf(m, p.rid), i>>)
      BY <2>1, <3>4, <3>5
    <3> HIDE DEF Fair, p, i
    <3>7. IdOf(m, p.rid) \in Ids /\ i \in Ids
      BY <2>1, <3>4 DEF p, i
    <3>8. \A c \in credited' : c \in Ids \X Ids /\ Fair(c)
      BY <1>2, <3>3, <3>6, <3>7 DEF p, i
    <3> QED BY <1>3, <3>8 DEF Fair
  <2> QED BY <2>2, <2>3
<1>5. CASE credited' = credited
  BY <1>2, <1>3, <1>5
<1>6. ASSUME \/ SetHandlers(m) \/ NewCall(m) \/ Answering(m)
             \/ \E th \in Threads : CallSteps(m, th)
      PROVE  credited' = credited
  BY <1>6 DEF NewCall, BeginCall, Report, Answering, TempResponse, FinalResponse, CallSteps,
              Publish, ReturnOk, PublishFails, SetHandlers, Register, Undo, history
<1>7. ASSUME TakeMessage(m) \/ HandleSteps(m) \/ ReceiveEnds(m), ~Dispatch(m)
      PROVE  credited' = credited
  BY <1>7 DEF TakeMessage, HandleSteps, ReceiveEnds, Ignore, HandleRequest, Lookup,
              CallbackReturns, AutoResponse, Settle, history
<1>8. ASSUME TimerSteps(m) \/ TimeoutCallbackCalls(m)
      PROVE  credited' = credited
  BY <1>8 DEF TimerSteps, TimeoutCallbackCalls, TimeoutProc, StartSweep, EndSweep, TimerEnds,
              Erase, history
<1>9. ASSUME \/ LostToGhost(m) \/ BrokerNotices(m) \/ ConnectionBreaks(m) \/ Reconnect(m)
             \/ Crash(m) \/ Destroy(m) \/ Freed(m) \/ Restart(m)
      PROVE  credited' = credited
  BY <1>9 DEF LostToGhost, BrokerNotices, ConnectionBreaks, Reconnect, Crash, Destroy, Freed,
              Restart, history
<1> QED
  BY <1>4, <1>5, <1>6, <1>7, <1>8, <1>9 DEF Step, Fault

-----------------------------------------------------------------------------
\* Requests, notifications and reports are never in two places.

\* What a step does to the calls that are being made.
LEMMA CallChanges ==
  ASSUME TypeInv, NEW m \in Modules, Step(m)
  PROVE  /\ calls' >= calls
         /\ \A n \in Modules :
              /\ next_timer_id'[n] >= next_timer_id[n] \/ (Restart(m) /\ n = m)
              /\ \A th \in Threads : call'[n][th].pc = "publish" =>
                   \/ call[n][th].pc = "publish" /\ call'[n][th].rid = call[n][th].rid
                   \/ call'[n][th].rid >= next_timer_id[n]
<1> USE DEF TypeInv
<1>0. /\ calls \in Nat /\ call \in [Modules -> [Threads -> CallRecords]]
      /\ next_timer_id \in [Modules -> Nat]
  BY SomeSizes DEF CallsOK
<1> DEFINE SameCalls ==
             \A n \in Modules, th \in Threads : call'[n][th].pc = "publish" =>
               call[n][th].pc = "publish" /\ call'[n][th].rid = call[n][th].rid
<1>1. ASSUME SameCalls, calls' = calls \/ calls' = calls + 1,
             next_timer_id' = next_timer_id \/ Restart(m)
      PROVE  /\ calls' >= calls
             /\ \A n \in Modules :
                  /\ next_timer_id'[n] >= next_timer_id[n] \/ (Restart(m) /\ n = m)
                  /\ \A th \in Threads : call'[n][th].pc = "publish" =>
                       call[n][th].pc = "publish" /\ call'[n][th].rid = call[n][th].rid
  <2>1. calls' >= calls
    BY <1>0, <1>1
  <2>2. \A n \in Modules : next_timer_id'[n] >= next_timer_id[n] \/ (Restart(m) /\ n = m)
    BY <1>0, <1>1 DEF Restart
  <2> QED BY <1>1, <2>1, <2>2
<1>2. ASSUME NEW th \in Threads, Register(m, th)
      PROVE  /\ calls' >= calls
             /\ \A n \in Modules :
                  /\ next_timer_id'[n] >= next_timer_id[n]
                  /\ \A t \in Threads : call'[n][t].pc = "publish" =>
                       \/ call[n][t].pc = "publish" /\ call'[n][t].rid = call[n][t].rid
                       \/ call'[n][t].rid >= next_timer_id[n]
  <2> DEFINE r == next_timer_id[m]
             c == [call[m][th] EXCEPT !.pc = "publish", !.rid = r]
  <2>1. r \in Rids /\ next_timer_id' = [next_timer_id EXCEPT ![m] = r + 1] /\ r \in Nat
    BY <1>0, <1>2, RegisterKeepsCalls
  <2>2. call' = [call EXCEPT ![m][th] = c] /\ calls' = calls
    BY <1>2 DEF Register, bounds
  <2>3. c \in CallRecords /\ c.rid = r
    <3>1. call[m][th] \in CallRecords
      BY <1>0
    <3> HIDE DEF r
    <3> QED BY <2>1, <3>1, CallWithRid
  <2> HIDE DEF c
  <2>4. CallSet(m, th, c)
    BY <2>2, <2>3, CallUpdate
  <2>5. \A n \in Modules : next_timer_id'[n] >= next_timer_id[n]
    BY <1>0, <2>1
  <2>6. \A n \in Modules, t \in Threads : call'[n][t].pc = "publish" =>
                       \/ call[n][t].pc = "publish" /\ call'[n][t].rid = call[n][t].rid
                       \/ call'[n][t].rid >= next_timer_id[n]
    BY <2>1, <2>3, <2>4 DEF CallSet
  <2> QED BY <1>0, <2>2, <2>5, <2>6
<1>3. ASSUME NEW th \in Threads, NEW c \in CallRecords, call' = [call EXCEPT ![m][th] = c],
             c.pc # "publish"
      PROVE  SameCalls
  <2>1. CallSet(m, th, c)
    BY <1>3, CallUpdate
  <2> QED BY <1>3, <2>1 DEF CallSet
<1>4. ASSUME NEW th \in Threads, NEW kind \in Kinds, NEW to \in Peers[m],
             BeginCall(m, th, kind, to)
      PROVE  SameCalls /\ calls' = calls + 1 /\ next_timer_id' = next_timer_id
  <2> DEFINE c == [pc |-> "begin", rid |-> -1, kind |-> kind, to |-> to]
  <2>1. c \in CallRecords /\ c.pc # "publish"
    BY PeersAreModules DEF CallRecords
  <2>2. /\ call' = [call EXCEPT ![m][th] = c]
        /\ calls' = calls + 1 /\ next_timer_id' = next_timer_id
    BY <1>4 DEF BeginCall, local
  <2> HIDE DEF c, SameCalls
  <2> QED BY <1>3, <2>1, <2>2
<1>5. ASSUME NEW th \in Threads, ReturnOk(m, th) \/ Undo(m, th)
      PROVE  SameCalls /\ calls' = calls /\ next_timer_id' = next_timer_id
  <2>1. call' = [call EXCEPT ![m][th] = IdleCall] /\ calls' = calls
        /\ next_timer_id' = next_timer_id
    BY <1>5 DEF ReturnOk, Undo, local, bounds
  <2>2. IdleCall.pc # "publish"
    BY IdleCallFields
  <2> HIDE DEF SameCalls
  <2> QED BY <1>3, <2>1, <2>2, IdleCallFields
<1>6. ASSUME NEW th \in Threads, NEW pc \in {"reply", "undo"},
             \/ Publish(m, th) /\ pc = "reply"
             \/ PublishFails(m, th) /\ pc = "undo"
      PROVE  SameCalls /\ calls' = calls /\ next_timer_id' = next_timer_id
  <2> DEFINE c == [call[m][th] EXCEPT !.pc = pc]
  <2>1. c \in CallRecords /\ c.pc = pc
    <3>1. call[m][th] \in CallRecords
      BY <1>0
    <3> QED BY <3>1, CallWithPc
  <2>2. /\ call' = [call EXCEPT ![m][th] = c]
        /\ calls' = calls /\ next_timer_id' = next_timer_id
    BY <1>6 DEF Publish, PublishFails, local, bounds
  <2> HIDE DEF c, SameCalls
  <2> QED BY <1>3, <2>1, <2>2
<1>7. ASSUME Crash(m)
      PROVE  SameCalls /\ calls' = calls /\ next_timer_id' = next_timer_id
  <2>1. /\ call' = [call EXCEPT ![m] = [t \in Threads |-> IdleCall]]
        /\ calls' = calls /\ next_timer_id' = next_timer_id
    BY <1>7 DEF Crash
  <2>2. \A n \in Modules, t \in Threads :
          call'[n][t] = call[n][t] \/ call'[n][t].pc = "idle"
    BY <1>0, <2>1, IdleCallFields
  <2> QED BY <2>1, <2>2
<1>8. ASSUME \/ SetHandlers(m) \/ Answering(m) \/ \E to \in Peers[m] : Report(m, to)
      PROVE  SameCalls /\ (calls' = calls \/ calls' = calls + 1) /\ next_timer_id' = next_timer_id
  <2>1. call' = call /\ (calls' = calls \/ calls' = calls + 1) /\ next_timer_id' = next_timer_id
    BY <1>8 DEF Answering, TempResponse, FinalResponse, Report, SetHandlers, local, threads,
                bounds
  <2> QED BY <2>1
<1>9. ASSUME TakeMessage(m) \/ HandleSteps(m) \/ ReceiveEnds(m)
      PROVE  SameCalls /\ calls' = calls /\ next_timer_id' = next_timer_id
  <2>1. UNCHANGED <<call, calls, next_timer_id>>
    BY <1>9 DEF TakeMessage, HandleSteps, ReceiveEnds, Ignore, HandleRequest, Lookup, Dispatch,
                CallbackReturns, AutoResponse, Settle, local, bounds
  <2> QED BY <2>1
<1>10. ASSUME TimerSteps(m) \/ TimeoutCallbackCalls(m)
       PROVE  SameCalls /\ calls' = calls /\ next_timer_id' = next_timer_id
  <2>1. UNCHANGED <<call, calls, next_timer_id>>
    BY <1>10 DEF TimerSteps, TimeoutCallbackCalls, TimeoutProc, StartSweep, EndSweep, TimerEnds,
                Erase, local, bounds
  <2> QED BY <2>1
<1>11. ASSUME \/ LostToGhost(m) \/ BrokerNotices(m) \/ ConnectionBreaks(m) \/ Reconnect(m)
              \/ Destroy(m) \/ Freed(m) \/ Restart(m)
       PROVE  SameCalls /\ calls' = calls /\ (next_timer_id' = next_timer_id \/ Restart(m))
  <2>1. UNCHANGED <<call, calls>> /\ (next_timer_id' = next_timer_id \/ Restart(m))
    BY <1>11 DEF LostToGhost, BrokerNotices, ConnectionBreaks, Reconnect, Destroy, Freed,
                 Restart, local, threads, bounds
  <2> QED BY <2>1
<1> HIDE DEF SameCalls
<1>12. \/ SameCalls /\ (calls' = calls \/ calls' = calls + 1)
          /\ (next_timer_id' = next_timer_id \/ Restart(m))
       \/ \E th \in Threads : Register(m, th)
  BY <1>4, <1>5, <1>6, <1>7, <1>8, <1>9, <1>10, <1>11 DEF Step, Fault, NewCall, CallSteps
<1> QED BY <1>1, <1>2, <1>12

\* A request that was sent stays sent.
LEMMA IssuedStays ==
  ASSUME TypeInv, TypeInv', NEW m \in Modules, Step(m), NEW i \in Ids, Issued(i)
  PROVE  Issued(i)'
<1> USE DEF TypeInv
<1> DEFINE n == i[1]
<1>0. n \in Modules /\ i[2] \in Int /\ i[3] \in Int
  BY IdParts DEF Lives
<1>1. /\ lives'[n] >= lives[n] /\ lives[n] \in Int /\ lives'[n] \in Int
  <2>1. recv[m].pc = "handle" => recv[m].id \in Ids
    BY DEF RecvOK
  <2>2. lives'[n] >= lives[n]
    BY <1>0, <2>1, Grows
  <2> QED BY <1>0, <2>2 DEF LifeOK, Lives
<1>2. calls \in Int /\ calls' \in Int /\ next_timer_id[n] \in Int /\ next_timer_id'[n] \in Int
  BY <1>0, SomeSizes DEF CallsOK
<1>3. /\ calls' >= calls
      /\ next_timer_id'[n] >= next_timer_id[n] \/ (Restart(m) /\ n = m)
      /\ \A th \in Threads : call'[n][th].pc = "publish" =>
           \/ call[n][th].pc = "publish" /\ call'[n][th].rid = call[n][th].rid
           \/ call'[n][th].rid >= next_timer_id[n]
  BY <1>0, CallChanges
<1>4. i[2] <= lives'[n] /\ (i[3] < 0 => -i[3] <= calls')
  BY <1>0, <1>1, <1>2, <1>3 DEF Issued
<1>5. ASSUME i[3] >= 0, i[2] = lives'[n]
      PROVE  /\ i[3] < next_timer_id'[n]
             /\ \A th \in Threads : ~(call'[n][th].pc = "publish" /\ call'[n][th].rid = i[3])
  <2>1. i[2] = lives[n]
    BY <1>0, <1>1, <1>5 DEF Issued
  <2>2. ~(Restart(m) /\ n = m)
    <3>1. Restart(m) /\ n = m => lives'[n] = lives[n] + 1
      BY <1>0 DEF Restart, LifeOK
    <3> QED BY <1>1, <1>5, <2>1, <3>1
  <2>3. /\ i[3] < next_timer_id[n]
        /\ \A th \in Threads : ~(call[n][th].pc = "publish" /\ call[n][th].rid = i[3])
    BY <1>5, <2>1 DEF Issued
  <2>4. i[3] < next_timer_id'[n]
    BY <1>0, <1>2, <1>3, <2>2, <2>3
  <2>5. ASSUME NEW th \in Threads, call'[n][th].pc = "publish", call'[n][th].rid = i[3]
        PROVE  FALSE
    BY <1>0, <1>2, <1>3, <2>3, <2>5
  <2> QED BY <2>4, <2>5
<1> QED BY <1>4, <1>5 DEF Issued

\* The messages at one process move: place k gets what was at place f[k].
LEMMA AsksMove ==
  ASSUME AsksOnce, handled' = handled, \A i \in Ids : Issued(i) => Issued(i)',
         NEW n0 \in Modules, NEW f \in [Nat -> Nat],
         \A k, l \in Nat : f[k] = f[l] => k = l,
         \A i \in Ids, n \in Modules, k \in Nat :
           AskAt(n, k, i)' => IF n = n0 THEN AskAt(n, f[k], i) ELSE AskAt(n, k, i)
  PROVE  AsksOnce'
<1>0. \A k \in Nat : f[k] \in Nat
  OBVIOUS
<1> SUFFICES ASSUME NEW i \in Ids
             PROVE  /\ \A m, n \in Modules, k, l \in Nat :
                         AskAt(m, k, i)' /\ AskAt(n, l, i)' => m = n /\ k = l
                    /\ handled'[i] <= 1
                    /\ handled'[i] > 0 =>
                         Issued(i)' /\ \A m \in Modules, k \in Nat : ~AskAt(m, k, i)'
                    /\ \A m \in Modules, k \in Nat : AskAt(m, k, i)' => Issued(i)'
  BY DEF AsksOnce
<1>1. /\ \A m, n \in Modules, k, l \in Nat :
           AskAt(m, k, i) /\ AskAt(n, l, i) => m = n /\ k = l
      /\ handled[i] <= 1
      /\ handled[i] > 0 => Issued(i) /\ \A m \in Modules, k \in Nat : ~AskAt(m, k, i)
      /\ \A m \in Modules, k \in Nat : AskAt(m, k, i) => Issued(i)
  BY DEF AsksOnce
<1>2. ASSUME NEW m \in Modules, NEW n \in Modules, NEW k \in Nat, NEW l \in Nat,
             AskAt(m, k, i)', AskAt(n, l, i)'
      PROVE  m = n /\ k = l
  <2>1. \E j \in Nat : j = (IF m = n0 THEN f[k] ELSE k) /\ AskAt(m, j, i)
    BY <1>0, <1>2
  <2>2. \E j \in Nat : j = (IF n = n0 THEN f[l] ELSE l) /\ AskAt(n, j, i)
    BY <1>0, <1>2
  <2>3. m = n /\ (IF m = n0 THEN f[k] ELSE k) = (IF n = n0 THEN f[l] ELSE l)
    BY <1>1, <2>1, <2>2
  <2> QED BY <2>3
<1>3. ASSUME NEW m \in Modules, NEW k \in Nat, AskAt(m, k, i)'
      PROVE  ~(handled[i] > 0) /\ Issued(i)'
  <2>1. \E j \in Nat : AskAt(m, j, i)
    BY <1>0, <1>3
  <2>2. Issued(i) /\ ~(handled[i] > 0)
    BY <1>0, <1>1, <2>1
  <2> QED BY <2>2
<1> QED BY <1>1, <1>2, <1>3

\* A message that was never sent before is put into one place.
LEMMA AsksNew ==
  ASSUME AsksOnce, handled' = handled, \A i \in Ids : Issued(i) => Issued(i)',
         NEW i0 \in Ids, ~Issued(i0), Issued(i0)',
         NEW n0 \in Modules, NEW k0 \in Nat,
         \A i \in Ids, n \in Modules, k \in Nat :
           AskAt(n, k, i)' => AskAt(n, k, i) \/ (i = i0 /\ n = n0 /\ k = k0)
  PROVE  AsksOnce'
<1> SUFFICES ASSUME NEW i \in Ids
             PROVE  /\ \A m, n \in Modules, k, l \in Nat :
                         AskAt(m, k, i)' /\ AskAt(n, l, i)' => m = n /\ k = l
                    /\ handled'[i] <= 1
                    /\ handled'[i] > 0 =>
                         Issued(i)' /\ \A m \in Modules, k \in Nat : ~AskAt(m, k, i)'
                    /\ \A m \in Modules, k \in Nat : AskAt(m, k, i)' => Issued(i)'
  BY DEF AsksOnce
<1>1. /\ \A m, n \in Modules, k, l \in Nat :
           AskAt(m, k, i) /\ AskAt(n, l, i) => m = n /\ k = l
      /\ handled[i] <= 1
      /\ handled[i] > 0 => Issued(i) /\ \A m \in Modules, k \in Nat : ~AskAt(m, k, i)
      /\ \A m \in Modules, k \in Nat : AskAt(m, k, i) => Issued(i)
  BY DEF AsksOnce
<1>2. i = i0 => \A n \in Modules, k \in Nat : AskAt(n, k, i)' => n = n0 /\ k = k0
  BY <1>1
<1>3. i # i0 => \A n \in Modules, k \in Nat : AskAt(n, k, i)' => AskAt(n, k, i)
  OBVIOUS
<1>4. i = i0 => ~(handled[i] > 0)
  BY <1>1
<1> QED BY <1>1, <1>2, <1>3, <1>4

\* A message is handled, and is in no place any more.
LEMMA AsksHandled ==
  ASSUME AsksOnce, HistoryOK, \A i \in Ids : Issued(i) => Issued(i)',
         NEW i0 \in Ids, NEW n0 \in Modules, AskAt(n0, 0, i0),
         handled' = [handled EXCEPT ![i0] = handled[i0] + 1],
         \A i \in Ids, n \in Modules, k \in Nat :
           AskAt(n, k, i)' => AskAt(n, k, i) /\ ~(n = n0 /\ k = 0)
  PROVE  AsksOnce'
<1> SUFFICES ASSUME NEW i \in Ids
             PROVE  /\ \A m, n \in Modules, k, l \in Nat :
                         AskAt(m, k, i)' /\ AskAt(n, l, i)' => m = n /\ k = l
                    /\ handled'[i] <= 1
                    /\ handled'[i] > 0 =>
                         Issued(i)' /\ \A m \in Modules, k \in Nat : ~AskAt(m, k, i)'
                    /\ \A m \in Modules, k \in Nat : AskAt(m, k, i)' => Issued(i)'
  BY DEF AsksOnce
<1>1. /\ \A m, n \in Modules, k, l \in Nat :
           AskAt(m, k, i) /\ AskAt(n, l, i) => m = n /\ k = l
      /\ handled[i] <= 1
      /\ handled[i] > 0 => Issued(i) /\ \A m \in Modules, k \in Nat : ~AskAt(m, k, i)
      /\ \A m \in Modules, k \in Nat : AskAt(m, k, i) => Issued(i)
  BY DEF AsksOnce
<1>2. CASE i = i0
  <2>1. handled[i] = 0 /\ Issued(i)
    <3>1. handled[i] \in Nat /\ ~(handled[i] > 0)
      BY <1>1, <1>2 DEF HistoryOK
    <3> QED BY <1>1, <1>2, <3>1
  <2>2. handled'[i] = 1
    BY <1>2, <2>1 DEF HistoryOK
  <2>3. \A m \in Modules, k \in Nat : ~AskAt(m, k, i)'
    BY <1>1, <1>2
  <2> QED BY <2>1, <2>2, <2>3
<1>3. CASE i # i0
  <2>1. handled'[i] = handled[i]
    BY <1>3 DEF HistoryOK
  <2> QED BY <1>1, <2>1
<1> QED BY <1>2, <1>3

\* The places of the next state, seen from this one.
LEMMA HandPlace ==
  ASSUME RecvOK, NEW m \in Modules, NEW r \in RecvRecords, RecvSet(m, r), Change(m, r),
         NEW n \in Modules, NEW i \in Ids, AskAt(n, 0, i)'
  PROVE  \/ n = m /\ TakeMessage(m) /\ r.id = i /\ r.props.msgtype \in AskTypes
            /\ r.props = PropsOf(Head(queue[m].messages)) /\ r.id = Head(queue[m].messages).id
         \/ AskAt(n, 0, i) /\ ~(HandleRequest(m) /\ n = m)
<1>1. /\ recv'[n].pc = "handle" /\ recv'[n].props.msgtype \in AskTypes /\ recv'[n].id = i
  BY DEF AskAt
<1>2. CASE n # m
  BY <1>1, <1>2 DEF RecvSet, AskAt
<1>3. CASE n = m
  <2>1. r.pc = "handle" /\ r.props.msgtype \in AskTypes /\ r.id = i
    BY <1>1, <1>3 DEF RecvSet
  <2>2. CASE Takes(m, r)
    BY <1>3, <2>1, <2>2 DEF Takes
  <2>3. CASE Stays(m, r)
    <3>1. AskAt(n, 0, i)
      BY <1>3, <2>1, <2>3 DEF Stays, Moved, AskAt
    <3>2. ~HandleRequest(m)
      <4>1. HandleRequest(m) => recv'[m].pc = "callback"
        <5>1. HandleRequest(m) => Goto(m, "callback")
          BY DEF HandleRequest
        <5> QED BY <5>1, GotoRecv DEF RecvSet
      <4> QED BY <1>1, <1>3, <4>1
    <3> QED BY <3>1, <3>2
  <2>4. ~Finishes(m, r) /\ ~Ends(m, r) /\ ~Proceeds(m, r)
    BY <2>1, IdleRecvFields DEF Finishes, Ends, Proceeds
  <2> QED BY <2>2, <2>3, <2>4 DEF Change
<1> QED BY <1>2, <1>3

\* A place in a queue.
QueueAsk(w, i) == PropsOf(w).msgtype \in AskTypes /\ w.id = i

LEMMA QueuePlace ==
  ASSUME NEW n \in Modules, NEW k \in Nat \ {0}, NEW i \in Ids
  PROVE  AskAt(n, k, i) <=> k \in 1 .. Len(Messages(n)) /\ QueueAsk(Messages(n)[k], i)
BY DEF AskAt, QueueAsk, Messages

LEMMA NextQueuePlace ==
  ASSUME NEW n \in Modules, NEW k \in Nat \ {0}, NEW i \in Ids
  PROVE  AskAt(n, k, i)' <=> k \in 1 .. Len(Messages(n)') /\ QueueAsk(Messages(n)'[k], i)
BY DEF AskAt, QueueAsk, Messages

LEMMA AsksKept ==
  ASSUME TypeInv, AllHonest, AsksOnce, TypeInv', NEW m \in Modules, Step(m)
  PROVE  AsksOnce'
<1> USE DEF TypeInv
<1>1. \A i \in Ids : Issued(i) => Issued(i)'
  BY IssuedStays
<1>2. PICK r \in RecvRecords : RecvSet(m, r) /\ Change(m, r)
  BY RecvChanges
<1>3. /\ queue' \in [Modules -> QueueRecords]
      /\ \/ Fades /\ ~TakeMessage(m)
         \/ Drops(m) /\ (TakeMessage(m) \/ recv' = recv)
         \/ \E p \in AllProps, i \in Ids : Put(p, i) /\ Sends(m, p, i)
  BY QueueChanges
<1>4. \/ handled' = handled
      \/ HandleRequest(m) /\ handled' = [handled EXCEPT ![recv[m].id] = @ + 1]
  BY HistoryKept
<1>5. \A n \in Modules, i \in Ids : ~TakeMessage(m) /\ AskAt(n, 0, i)' =>
        AskAt(n, 0, i) /\ ~(HandleRequest(m) /\ n = m)
  BY <1>2, HandPlace
<1>6. ASSUME Fades
      PROVE  \A n \in Modules, k \in Nat \ {0}, i \in Ids : AskAt(n, k, i)' => AskAt(n, k, i)
  <2> SUFFICES ASSUME NEW n \in Modules, NEW k \in Nat \ {0}, NEW i \in Ids, AskAt(n, k, i)'
               PROVE  AskAt(n, k, i)
    OBVIOUS
  <2>1. k \in 1 .. Len(Messages(n)') /\ QueueAsk(Messages(n)'[k], i)
    BY NextQueuePlace
  <2>2. Messages(n)' = Messages(n)
    BY <1>6, <2>1 DEF Fades
  <2> QED BY <2>1, <2>2, QueuePlace
<1> DEFINE id == [k \in Nat |-> k]
<1>7. /\ id \in [Nat -> Nat] /\ \A k \in Nat : id[k] = k
      /\ \A k, l \in Nat : id[k] = id[l] => k = l
  OBVIOUS
<1> HIDE DEF id
<1>8. ASSUME handled' = handled,
             \A n \in Modules, k \in Nat, i \in Ids : AskAt(n, k, i)' => AskAt(n, k, i)
      PROVE  AsksOnce'
  <2>1. \A i \in Ids, n \in Modules, k \in Nat :
          AskAt(n, k, i)' => IF n = m THEN AskAt(n, id[k], i) ELSE AskAt(n, k, i)
    <3> SUFFICES ASSUME NEW i \in Ids, NEW n \in Modules, NEW k \in Nat, AskAt(n, k, i)'
                 PROVE  IF n = m THEN AskAt(n, id[k], i) ELSE AskAt(n, k, i)
      OBVIOUS
    <3>1. AskAt(n, k, i) /\ id[k] = k
      BY <1>7, <1>8
    <3>2. AskAt(n, id[k], i)
      BY <3>1
    <3> QED BY <3>1, <3>2
  <2> QED BY <1>1, <1>7, <1>8, <2>1, AsksMove
<1>9. CASE Fades /\ ~TakeMessage(m)
  <2>1. \A n \in Modules, k \in Nat, i \in Ids : AskAt(n, k, i)' => AskAt(n, k, i)
    BY <1>5, <1>6, <1>9
  <2>2. CASE handled' = handled
    BY <1>8, <2>1, <2>2
  <2>3. CASE HandleRequest(m) /\ handled' = [handled EXCEPT ![recv[m].id] = @ + 1]
    <3>1. recv[m].id \in Ids /\ AskAt(m, 0, recv[m].id)
      BY <2>3 DEF HandleRequest, At, RecvOK, AskAt, AskTypes, Type, Props
    <3>2. \A i \in Ids, n \in Modules, k \in Nat :
            AskAt(n, k, i)' => AskAt(n, k, i) /\ ~(n = m /\ k = 0)
      BY <1>5, <1>9, <2>1, <2>3
    <3>3. PICK i0 \in Ids : i0 = recv[m].id
      BY <3>1
    <3> QED BY <1>1, <2>3, <3>1, <3>2, <3>3, AsksHandled
  <2> QED BY <1>4, <2>2, <2>3
<1>10. CASE Drops(m) /\ (TakeMessage(m) \/ recv' = recv)
  <2>1. handled' = handled
    <3>1. TakeMessage(m) => handled' = handled
      BY DEF TakeMessage, history
    <3>2. ~(HandleRequest(m) /\ recv' = recv)
      <4>1. HandleRequest(m) => recv[m].pc = "handle" /\ Goto(m, "callback")
        BY DEF HandleRequest, At
      <4>2. HandleRequest(m) => recv'[m].pc = "callback"
        BY <4>1, GotoRecv DEF RecvSet
      <4> QED BY <4>1, <4>2
    <3> QED BY <1>4, <1>10, <3>1, <3>2
  <2>2. /\ Len(Messages(m)) \in Nat \ {0} /\ Len(Messages(m)') = Len(Messages(m)) - 1
        /\ \A k \in 1 .. Len(Messages(m)) - 1 : Messages(m)'[k] = Messages(m)[k + 1]
        /\ Head(queue[m].messages) = Messages(m)[1]
    BY <1>10, HeadFacts DEF Drops, Messages
  <2>3. ASSUME NEW i \in Ids, NEW n \in Modules, NEW k \in Nat \ {0}, AskAt(n, k, i)'
        PROVE  IF n = m THEN AskAt(n, k + 1, i) ELSE AskAt(n, k, i)
    <3>1. k \in 1 .. Len(Messages(n)') /\ QueueAsk(Messages(n)'[k], i)
      BY <2>3, NextQueuePlace
    <3>2. CASE n = m
      <4>1. k + 1 \in 1 .. Len(Messages(n)) /\ k + 1 \in Nat \ {0}
            /\ Messages(n)'[k] = Messages(n)[k + 1]
        BY <2>2, <3>1, <3>2
      <4>2. AskAt(n, k + 1, i)
        BY <3>1, <4>1, QueuePlace
      <4> QED BY <3>2, <4>2
    <3>3. CASE n # m
      <4>1. Messages(n)' = Messages(n)
        BY <1>10, <3>3 DEF Drops
      <4> QED BY <3>1, <3>3, <4>1, QueuePlace
    <3> QED BY <3>2, <3>3
  <2>4. CASE TakeMessage(m)
    <3> DEFINE f == [k \in Nat |-> k + 1]
    <3>1. /\ f \in [Nat -> Nat] /\ \A k, l \in Nat : f[k] = f[l] => k = l
          /\ \A k \in Nat : f[k] = k + 1
      OBVIOUS
    <3> HIDE DEF f
    <3>2. ASSUME NEW i \in Ids, NEW n \in Modules, NEW k \in Nat, AskAt(n, k, i)'
          PROVE  IF n = m THEN AskAt(n, f[k], i) ELSE AskAt(n, k, i)
      <4>1. CASE k = 0 /\ n = m
        <5>1. ~AskAt(m, 0, i)
          BY <2>4 DEF TakeMessage, At, AskAt
        <5>2. QueueAsk(Messages(m)[1], i)
          <6>1. AskAt(n, 0, i)'
            BY <3>2, <4>1
          <6>2. /\ r.id = i /\ r.props.msgtype \in AskTypes
                /\ r.props = PropsOf(Head(queue[m].messages))
                /\ r.id = Head(queue[m].messages).id
            BY <1>2, <4>1, <5>1, <6>1, HandPlace
          <6> QED BY <2>2, <6>2 DEF QueueAsk
        <5>3. 1 \in 1 .. Len(Messages(m)) /\ 1 \in Nat \ {0}
          BY <2>2
        <5>4. AskAt(m, 1, i)
          BY <5>2, <5>3, QueuePlace
        <5>5. f[k] = 1
          BY <3>1, <4>1
        <5> QED BY <4>1, <5>4, <5>5
      <4>2. CASE k = 0 /\ n # m
        <5>1. AskAt(n, 0, i)'
          BY <3>2, <4>2
        <5>2. AskAt(n, 0, i)
          BY <1>2, <4>2, <5>1, HandPlace
        <5> QED BY <4>2, <5>2
      <4>3. CASE k # 0
        <5>1. f[k] = k + 1
          BY <3>1
        <5> QED BY <2>3, <3>2, <4>3, <5>1
      <4> QED BY <4>1, <4>2, <4>3
    <3> QED BY <1>1, <2>1, <3>1, <3>2, AsksMove
  <2>5. CASE ~TakeMessage(m)
    <3> DEFINE f == [k \in Nat |-> IF k = 0 THEN 0 ELSE k + 1]
    <3>1. /\ f \in [Nat -> Nat] /\ \A k, l \in Nat : f[k] = f[l] => k = l
          /\ f[0] = 0 /\ \A k \in Nat \ {0} : f[k] = k + 1
      OBVIOUS
    <3> HIDE DEF f
    <3>2. ASSUME NEW i \in Ids, NEW n \in Modules, NEW k \in Nat, AskAt(n, k, i)'
          PROVE  IF n = m THEN AskAt(n, f[k], i) ELSE AskAt(n, k, i)
      <4>1. CASE k = 0
        <5>1. AskAt(n, 0, i)
          BY <1>5, <2>5, <3>2, <4>1
        <5> QED BY <3>1, <4>1, <5>1
      <4>2. CASE k # 0
        <5>1. f[k] = k + 1
          BY <3>1, <4>2
        <5> QED BY <2>3, <3>2, <4>2, <5>1
      <4> QED BY <4>1, <4>2
    <3> QED BY <1>1, <2>1, <3>1, <3>2, AsksMove
  <2> QED BY <2>4, <2>5
<1>11. ASSUME NEW p \in AllProps, NEW i0 \in Ids, Put(p, i0), Sends(m, p, i0)
       PROVE  AsksOnce'
  <2> DEFINE n0 == p.receiver
             k0 == Len(Messages(n0)) + 1
  <2>1. n0 \in Modules /\ Messages(n0) \in Seq(Wire)
    <3>1. n0 \in Modules
      BY AllFields
    <3> QED BY <3>1 DEF QueueOK, QueueRecords, Messages
  <2>2. k0 \in Nat /\ Len(Messages(n0)) \in Nat
    BY <2>1
  <2>3. ~TakeMessage(m) /\ ~HandleRequest(m) /\ handled' = handled
    <3>1. /\ TakeMessage(m) => recv[m].pc = "idle" /\ recv'[m].pc = "handle"
          /\ HandleRequest(m) => recv[m].pc = "handle" /\ recv'[m].pc = "callback"
      <4>1. TakeMessage(m) => recv'[m].pc = "handle"
        BY TakeRecv DEF RecvSet
      <4>2. HandleRequest(m) => Goto(m, "callback")
        BY DEF HandleRequest
      <4>3. HandleRequest(m) => recv'[m].pc = "callback"
        BY <4>2, GotoRecv DEF RecvSet
      <4> QED BY <4>1, <4>3 DEF TakeMessage, HandleRequest, At
    <3>2. recv' = recv \/ (recv[m].pc = "ack" /\ recv'[m].pc = "idle")
      <4>1. SendsRequest(m, p, i0) \/ SendsReport(m, p, i0) \/ SendsTemp(m, p, i0) => recv' = recv
        BY DEF SendsRequest, SendsReport, SendsTemp, Publish, Report, TempResponse, threads
      <4>2. (\E o \in open[m] : FinalResponse(m, o)) => recv' = recv
        BY DEF FinalResponse, threads
      <4>3. AutoResponse(m) => recv[m].pc = "ack" /\ recv'[m].pc = "idle"
        BY DoneRecv, IdleRecvFields DEF AutoResponse, At, RecvSet
      <4> QED BY <1>11, <4>1, <4>2, <4>3 DEF Sends, SendsFinal
    <3> QED BY <1>4, <3>1, <3>2
  <2>4. ASSUME NEW i \in Ids, NEW n \in Modules, NEW k \in Nat, AskAt(n, k, i)'
        PROVE  \/ AskAt(n, k, i)
               \/ i = i0 /\ n = n0 /\ k = k0 /\ p.msgtype \in AskTypes
    <3>1. CASE k = 0
      <4>1. AskAt(n, 0, i)'
        BY <2>4, <3>1
      <4> QED BY <1>5, <2>3, <3>1, <4>1
    <3>2. CASE k # 0
      <4>1. k \in 1 .. Len(Messages(n)') /\ QueueAsk(Messages(n)'[k], i)
        BY <2>4, <3>2, NextQueuePlace
      <4>2. CASE Messages(n)' = Messages(n)
        BY <3>2, <4>1, <4>2, QueuePlace
      <4>3. CASE n = n0 /\ Messages(n)' = Append(Messages(n), Packed(p, i0))
        <5> DEFINE s == Messages(n0)
                   w == Packed(p, i0)
        <5>1. s \in Seq(Wire) /\ w \in Wire /\ PropsOf(w) = p /\ w.id = i0
          BY <2>1, PackedFacts
        <5>2. Messages(n)' = Append(s, w)
          BY <4>3
        <5> HIDE DEF s, w
        <5>3. /\ Len(Append(s, w)) = Len(s) + 1 /\ Len(s) \in Nat
              /\ Append(s, w)[Len(s) + 1] = w
              /\ \A j \in 1 .. Len(s) : Append(s, w)[j] = s[j]
          BY <5>1
        <5>4. CASE k \in 1 .. Len(s)
          <6>1. Messages(n)'[k] = s[k]
            BY <5>2, <5>3, <5>4
          <6>2. QueueAsk(Messages(n)[k], i) /\ k \in 1 .. Len(Messages(n))
            BY <4>1, <4>3, <5>4, <6>1 DEF s
          <6> QED BY <3>2, <6>2, QueuePlace
        <5>5. CASE k = Len(s) + 1
          <6>1. QueueAsk(w, i)
            BY <4>1, <5>2, <5>3, <5>5
          <6> QED BY <4>3, <5>1, <5>5, <6>1 DEF QueueAsk, s
        <5>6. k \in 1 .. Len(s) \/ k = Len(s) + 1
          BY <4>1, <5>2, <5>3
        <5> QED BY <5>4, <5>5, <5>6
      <4> QED BY <1>11, <4>2, <4>3 DEF Put
    <3> QED BY <3>1, <3>2
  <2>5. CASE p.msgtype \in AskTypes
    <3>1. SendsRequest(m, p, i0) \/ SendsReport(m, p, i0)
      BY <1>11, <2>5 DEF Sends, SendsTemp, SendsFinal, AskTypes
    <3>2. ~Issued(i0) /\ Issued(i0)'
      <4>1. CASE SendsRequest(m, p, i0)
        <5>1. PICK th \in Threads : Publish(m, th) /\ i0 = IdOf(m, call[m][th].rid)
          BY <4>1 DEF SendsRequest
        <5>2. call[m][th].pc = "publish"
          BY <5>1 DEF Publish
        <5>3. /\ call[m][th].rid \in Rids /\ call[m][th].rid < next_timer_id[m]
              /\ call[m]["app"].pc = "publish" /\ call[m]["recv"].pc = "publish" =>
                   call[m]["app"].rid # call[m]["recv"].rid
          BY <5>2 DEF CallsOK
        <5>0. call[m][th].rid \in Nat /\ lives[m] \in Nat
          <6>1. call[m][th].rid \in Nat
            BY <5>3, SomeSizes
          <6>2. lives[m] \in 1 .. MaxLives
            BY DEF LifeOK, Lives
          <6> QED BY <6>1, <6>2, SomeSizes
        <5>4. i0[1] = m /\ i0[2] = lives[m] /\ i0[3] = call[m][th].rid /\ i0[3] >= 0
          <6>1. i0[1] = m /\ i0[2] = lives[m] /\ i0[3] = call[m][th].rid
            BY <5>1 DEF IdOf
          <6> QED BY <5>0, <6>1
        <5>5. ~Issued(i0)
          BY <5>2, <5>4 DEF Issued
        <5> DEFINE c == [call[m][th] EXCEPT !.pc = "reply"]
        <5>6. /\ call' = [call EXCEPT ![m][th] = c]
              /\ next_timer_id' = next_timer_id /\ lives' = lives
          BY <5>1 DEF Publish, local
        <5>11. c \in CallRecords /\ c.pc = "reply"
          <6>1. call[m][th] \in CallRecords
            BY DEF CallsOK
          <6> QED BY <6>1, CallWithPc
        <5> HIDE DEF c
        <5>7. CallSet(m, th, c)
          BY <5>6, <5>11, CallUpdate
        <5>8. ASSUME NEW t \in Threads, call'[m][t].pc = "publish", call'[m][t].rid = i0[3]
              PROVE  FALSE
          <6>1. t # th
            BY <5>7, <5>8, <5>11 DEF CallSet
          <6>2. call[m][t].pc = "publish" /\ call[m][t].rid = call[m][th].rid
            BY <5>4, <5>7, <5>8, <6>1 DEF CallSet
          <6> QED BY <5>2, <5>3, <6>1, <6>2 DEF Threads
        <5>9. lives[m] <= lives[m] /\ ~(i0[3] < 0)
          BY <5>0, <5>4
        <5>10. Issued(i0)'
          BY <5>3, <5>4, <5>6, <5>8, <5>9 DEF Issued
        <5> QED BY <5>5, <5>10
      <4>2. CASE SendsReport(m, p, i0)
        <5>1. PICK to \in Peers[m] : Report(m, to) /\ i0 = IdOf(m, -calls')
          BY <4>2 DEF SendsReport
        <5>2. calls' = calls + 1 /\ lives' = lives /\ calls \in Nat
          BY <5>1, SomeSizes DEF Report, local, CallsOK
        <5>3. i0[1] = m /\ i0[2] = lives[m] /\ i0[3] = -(calls + 1)
          BY <5>1, <5>2 DEF IdOf
        <5>4. i0[3] < 0 /\ -i0[3] = calls + 1 /\ lives[m] <= lives[m] /\ ~(calls + 1 <= calls)
          BY <5>2, <5>3 DEF LifeOK, Lives
        <5>5. ~Issued(i0)
          BY <5>4 DEF Issued
        <5>6. Issued(i0)'
          <6>1. i0[2] <= lives'[i0[1]] /\ -i0[3] <= calls' /\ ~(i0[3] >= 0)
            BY <5>2, <5>3, <5>4
          <6> QED BY <6>1 DEF Issued
        <5> QED BY <5>5, <5>6
      <4> QED BY <3>1, <4>1, <4>2
    <3>3. \A i \in Ids, n \in Modules, k \in Nat :
            AskAt(n, k, i)' => AskAt(n, k, i) \/ (i = i0 /\ n = n0 /\ k = k0)
      BY <2>4
    <3>4. PICK n1 \in Modules, k1 \in Nat : n1 = n0 /\ k1 = k0
      BY <2>1, <2>2
    <3> HIDE DEF n0, k0
    <3>5. \A i \in Ids, n \in Modules, k \in Nat :
            AskAt(n, k, i)' => AskAt(n, k, i) \/ (i = i0 /\ n = n1 /\ k = k1)
      BY <3>3, <3>4
    <3> QED BY <1>1, <2>3, <3>2, <3>5, AsksNew
  <2>6. CASE p.msgtype \notin AskTypes
    <3>1. \A n \in Modules, k \in Nat, i \in Ids : AskAt(n, k, i)' => AskAt(n, k, i)
      BY <2>4, <2>6
    <3> QED BY <1>8, <2>3, <3>1
  <2> QED BY <2>5, <2>6
<1> QED BY <1>3, <1>9, <1>10, <1>11

-----------------------------------------------------------------------------
\* Theorems.

LEMMA InitOK ==
  ASSUME Init
  PROVE  IInv
<1>1. LifeOK
  BY PeersAssumption DEF Init, LifeOK, Lives
<1>2. CallsOK
  <2>1. call = [m \in Modules |-> [t \in Threads |-> IdleCall]]
    BY DEF Init
  <2>2. \A m \in Modules : \A t \in Threads : call[m][t].pc = "idle"
    BY <2>1, IdleCallFields
  <2>3. call \in [Modules -> [Threads -> CallRecords]]
    BY <2>1, IdleCallFields
  <2>4. \A m \in Modules : Begun(m, "app") = 0 /\ Begun(m, "recv") = 0
    BY <2>2 DEF Begun, Threads
  <2>5. /\ next_timer_id \in [Modules -> Nat] /\ calls \in 0 .. MaxCalls
        /\ \A m \in Modules :
             next_timer_id[m] + Begun(m, "app") + Begun(m, "recv") <= calls
    BY <2>4, SomeSizes DEF Init
  <2> QED BY <2>2, <2>3, <2>5 DEF CallsOK, Threads
<1>3. TasksOK
  BY DEF Init, TasksOK
<1>4. RecvOK
  BY IdleRecvFields DEF Init, RecvOK
<1>5. TimerOK
  <2>1. Asleep \in TimerRecords /\ Asleep.pc = "sleep"
    BY DEF Asleep, TimerRecords
  <2> QED BY <2>1 DEF Init, TimerOK
<1>6. QueueOK /\ \A m \in Modules : queue[m].messages = << >>
  BY EmptyQueues DEF Init, QueueOK
<1>7. OpenOK /\ HistoryOK
  BY DEF Init, OpenOK, HistoryOK
<1>8. \A m \in Modules : open[m] = {} /\ recv[m].pc = "idle"
  BY IdleRecvFields DEF Init
<1>9. AllHonest
  BY <1>6, <1>8 DEF AllHonest
<1>10. Genuine
  BY DEF Init, Genuine, AnswerIsGenuine
<1>11. AsksOnce
  <2>1. \A i \in Ids, m \in Modules, k \in Nat : ~AskAt(m, k, i)
    BY <1>6, <1>8 DEF AskAt
  <2>2. \A i \in Ids : handled[i] = 0
    BY DEF Init
  <2> QED BY <2>1, <2>2 DEF AsksOnce
<1>12. RidsAsked
  BY SomeSizes DEF Init, RidsAsked
<1> QED
  BY <1>1, <1>2, <1>3, <1>4, <1>5, <1>6, <1>7, <1>9, <1>10, <1>11, <1>12 DEF IInv, TypeInv

LEMMA StutterKeeps ==
  ASSUME IInv, UNCHANGED vars
  PROVE  IInv'
<1>1. TypeInv'
  BY DEF IInv, TypeInv, LifeOK, CallsOK, Begun, TasksOK, RecvOK, TimerOK, QueueOK, OpenOK,
         HistoryOK, vars
<1>2. AllHonest' /\ RidsAsked' /\ Genuine'
  BY DEF IInv, AllHonest, Honest, RidsAsked, IdOf, Genuine, AnswerIsGenuine, vars
<1>3. AsksOnce'
  <2>1. ASSUME NEW i \in Ids
        PROVE  /\ handled'[i] = handled[i] /\ Issued(i)' = Issued(i)
               /\ \A m \in Modules, k \in Nat : AskAt(m, k, i)' = AskAt(m, k, i)
    BY DEF AskAt, Issued, vars
  <2> QED BY <2>1 DEF IInv, AsksOnce
<1> QED BY <1>1, <1>2, <1>3 DEF IInv

\* The inductive invariant: who has which request in hand, and what every message
\* says of the request it belongs to (rmMidLib.cpp, p2pHandleMessage).
THEOREM Invariance == Spec => []IInv
<1>1. ASSUME IInv, [Next]_vars
      PROVE  IInv'
  <2>1. ASSUME NEW m \in Modules, Step(m)
        PROVE  IInv'
    <3>1. TypeInv'
      BY <1>1, <2>1, TypeKept DEF IInv
    <3> QED
      BY <1>1, <2>1, <3>1, HonestyKept, RidsAskedKept, GenuineKept, AsksKept DEF IInv
  <2> QED BY <1>1, <2>1, NextIsStep, StutterKeeps
<1> QED
  BY <1>1, InitOK, PTL DEF Spec

\* The application of a module is never given the same request, notification or
\* report twice, for any processes, crashes and lost connections.
THEOREM HandledAtMostOnceHolds == Spec => []HandledAtMostOnce
<1>1. IInv => HandledAtMostOnce
  BY DEF IInv, AsksOnce, HandledAtMostOnce
<1> QED BY <1>1, Invariance, PTL

\* Whatever settles a request was sent by the addressee's library for a request of
\* the same module with the same rid, after its application had handled that one.
THEOREM AnswerIsGenuineHolds == Spec => []AnswerIsGenuine
<1>1. IInv => AnswerIsGenuine
  BY DEF IInv, Genuine
<1> QED BY <1>1, Invariance, PTL

-----------------------------------------------------------------------------
\* The type invariant of the specification follows from the one that is inductive.

LEMMA AllProps10 ==
  ASSUME NEW p \in AllProps
  PROVE  DOMAIN p = Fields /\ p.msgtype \in MessageTypes
<1>1. DOMAIN AmqpTable2IntProps(IntProps2AmqpTable(p)) = Fields
  BY RoundTrip
<1>2. p.msgtype \in AskTypes \cup AnswerTypes
  BY AllFields
<1> QED BY <1>1, <1>2, ReadBack DEF AskTypes, AnswerTypes, MessageTypes

LEMMA RecvIsTyped ==
  ASSUME RecvOK, NEW m \in Modules
  PROVE  /\ recv[m].pc \in {"idle", "handle", "found", "callback", "ack", "settle", "ended"}
         /\ IF recv[m].pc \in {"idle", "ended"}
            THEN recv[m] = [IdleRecv EXCEPT !.pc = recv[m].pc]
            ELSE /\ recv[m].id \in Ids /\ DOMAIN recv[m].props = Fields
                 /\ recv[m].props.msgtype \in MessageTypes
<1>1. recv[m] \in RecvRecords
  BY DEF RecvOK
<1>2. PICK r \in RecvRecords : r = recv[m]
  BY <1>1
<1>3. r.pc \in {"idle", "handle", "found", "callback", "ack", "settle", "ended"}
  BY DEF RecvRecords
<1>4. CASE r.pc \in {"idle", "ended"}
  <2>1. r.props = NoProps /\ r.id = << >> /\ r.stale = FALSE
    <3>1. r.stale \in BOOLEAN
      BY DEF RecvRecords
    <3> QED BY <1>2, <1>4, <3>1 DEF RecvOK
  <2>2. PICK s : s = [IdleRecv EXCEPT !.pc = r.pc]
    OBVIOUS
  <2>3. s \in RecvRecords /\ s.pc = r.pc /\ s.props = NoProps /\ s.id = << >> /\ s.stale = FALSE
    BY <1>3, <2>2, RecvWithPc, IdleRecvFields, ZenonT(60)
  <2>4. r = s
    BY <2>1, <2>3 DEF RecvRecords
  <2> QED BY <1>2, <1>3, <1>4, <2>2, <2>4
<1>5. CASE r.pc \notin {"idle", "ended"}
  <2>1. recv[m].props \in AllProps /\ recv[m].id \in Ids
    BY <1>2, <1>5 DEF RecvOK
  <2> QED BY <1>2, <1>3, <1>5, <2>1, AllProps10
<1> QED BY <1>4, <1>5

LEMMA TypeInvIsTypeOK == TypeInv => TypeOK
<1> SUFFICES ASSUME TypeInv
             PROVE  TypeOK
  OBVIOUS
<1>0. LifeOK /\ CallsOK /\ TasksOK /\ RecvOK /\ TimerOK /\ QueueOK /\ OpenOK /\ HistoryOK
  BY DEF TypeInv
<1>1. next_timer_id \in [Modules -> 0 .. MaxCalls]
  <2>1. ASSUME NEW m \in Modules
        PROVE  next_timer_id[m] \in 0 .. MaxCalls
    <3>1. next_timer_id[m] \in Nat /\ calls <= MaxCalls /\ calls \in Nat
      BY <1>0, SomeSizes DEF CallsOK
    <3>2. Begun(m, "app") \in Nat /\ Begun(m, "recv") \in Nat
      BY DEF Begun
    <3>3. next_timer_id[m] + Begun(m, "app") + Begun(m, "recv") <= calls
      BY <1>0 DEF CallsOK
    <3> QED BY <3>1, <3>2, <3>3, SomeSizes
  <2> QED BY <1>0, <2>1 DEF CallsOK
<1>2. ASSUME NEW m \in Modules
      PROVE  /\ timer[m].pc \in {"sleep", "scan", "callback", "stuck", "ended"}
             /\ timer[m].marked \subseteq Rids
  <2>1. timer[m] \in TimerRecords
    BY <1>0 DEF TimerOK
  <2> QED BY <2>1, TimerFields
<1>3. ASSUME NEW m \in Modules
      PROVE  \A i \in DOMAIN queue[m].messages : IsMessage(queue[m].messages[i])
  <2>1. queue[m].messages \in Seq(Wire)
    BY <1>0 DEF QueueOK, QueueRecords
  <2>2. \A i \in DOMAIN queue[m].messages : queue[m].messages[i] \in Wire
    BY <2>1
  <2> QED BY <2>2, WireFacts
<1>4. ASSUME NEW m \in Modules
      PROVE  \A o \in open[m] : o.from \in Modules /\ o.rid \in Rids
  BY <1>0 DEF OpenOK, OpenRecords
<1>5. call \in [Modules -> [Threads -> [pc : {"idle", "begin", "publish", "reply", "undo"},
        rid : Rids \cup {-1}, kind : Kinds, to : Modules \cup {"none"}]]]
  BY <1>0 DEF CallsOK, CallRecords
<1>6. /\ tasks \in [Modules -> SUBSET Task]
      /\ \A m \in Modules : \A t, u \in tasks[m] : t.rid = u.rid => t = u
      /\ \A m \in Modules : \A t \in tasks[m] : t.rid < next_timer_id[m]
  BY <1>0 DEF TasksOK
<1>7. /\ life \in [Modules -> {"up", "stopping", "freed", "off"}]
      /\ lives \in [Modules -> Lives]
      /\ handlers \in [Modules -> BOOLEAN]
      /\ conn \in [Modules -> BOOLEAN] /\ ghost \in [Modules -> BOOLEAN]
  BY <1>0 DEF LifeOK
<1>8. /\ asked \subseteq Ids /\ accepted \subseteq Ids /\ answered \subseteq Ids
      /\ handled \in [Ids -> Nat]
  BY <1>0 DEF HistoryOK
<1> QED BY <1>0, <1>1, <1>2, <1>3, <1>4, <1>5, <1>6, <1>7, <1>8, RecvIsTyped DEF TypeOK

\* The type invariant: the ids of a process stay within the calls that were
\* counted, no two tasks share a rid, whatever is in a queue is a table that the
\* receiver can read.
THEOREM TypeCorrect == Spec => []TypeOK
<1>1. IInv => TypeOK
  BY TypeInvIsTypeOK DEF IInv
<1> QED BY <1>1, Invariance, PTL

-----------------------------------------------------------------------------
\* After the destruction.

LEMMA FreedIsQuiet ==
  ASSUME TypeInv, NEW m \in Modules, life[m] = "freed", NEW n \in Modules, Step(n)
  PROVE  recv'[m] = recv[m] /\ timer'[m] = timer[m] /\ ToldOf(m)' = ToldOf(m)
<1>0. LifeOK /\ CallsOK /\ TasksOK /\ RecvOK /\ TimerOK /\ QueueOK /\ OpenOK /\ HistoryOK
  BY DEF TypeInv
<1>1. recv[m].pc = "ended" /\ timer[m].pc = "ended"
  BY <1>0 DEF RecvOK, TimerOK
<1>2. ~Crash(m) /\ ~ReceiveEnds(m) /\ ~TakeMessage(m)
  BY <1>1 DEF Crash, ReceiveEnds, TakeMessage, At
<1>3. recv'[m] = recv[m]
  <2>1. PICK r \in RecvRecords : RecvSet(n, r) /\ Change(n, r)
    BY <1>0, RecvChanges
  <2>2. CASE n # m
    BY <2>1, <2>2 DEF RecvSet
  <2>3. CASE n = m
    <3>1. r = recv[m]
      BY <1>1, <1>2, <2>1, <2>3 DEF Change, Stays, Takes, Finishes, Ends, Proceeds
    <3> QED BY <2>1, <2>3, <3>1 DEF RecvSet
  <2> QED BY <2>2, <2>3
<1>4. timer'[m] = timer[m]
  <2>1. CASE timer' = timer
    BY <2>1
  <2>2. CASE timer' # timer
    <3>1. /\ \E r \in TimerRecords : TimerSet(n, r)
          /\ timer[n].pc # "ended" \/ Crash(n)
      BY <1>0, <2>2, TimerChanges
    <3>2. n # m
      BY <1>1, <1>2, <3>1
    <3> QED BY <3>1, <3>2 DEF TimerSet
  <2> QED BY <2>1, <2>2
<1>5. \A j \in Ids : j[1] = m => outcome'[j] = outcome[j]
  <2>1. CASE outcome' = outcome
    BY <2>1
  <2>2. CASE ~(outcome' = outcome)
    <3>1. /\ Dispatch(n) \/ \E rid \in Rids : TimeoutProc(n, rid)
          /\ \A j \in Ids : j[1] # n => outcome'[j] = outcome[j]
      BY <1>0, <2>2, OutcomeChanges
    <3>2. n # m
      BY <1>1, <3>1 DEF Dispatch, TimeoutProc, At
    <3> QED BY <3>1, <3>2
  <2> QED BY <2>1, <2>2
<1> QED BY <1>3, <1>4, <1>5 DEF ToldOf

\* Once MidwareClientDestroy has returned the two threads are gone for good: what
\* the application was told and what it was given to handle stays as it is.
THEOREM SilentAfterDestroyHolds == Spec => SilentAfterDestroy
<1> DEFINE Quiet == \A m \in Modules : life[m] = "freed" =>
                      /\ recv'[m] = recv[m] /\ timer'[m] = timer[m]
                      /\ ToldOf(m)' = ToldOf(m)
<1>1. IInv /\ [Next]_vars => [Quiet]_vars
  <2>1. ASSUME IInv, Next
        PROVE  Quiet
    <3>1. PICK n \in Modules : Step(n)
      BY <2>1, NextIsStep
    <3> QED BY <2>1, <3>1, FreedIsQuiet DEF IInv
  <2> HIDE DEF Quiet
  <2> QED BY <2>1
<1>2. Spec => [][Quiet]_vars
  <2> HIDE DEF Quiet
  <2> QED BY <1>1, Invariance, PTL DEF Spec
<1> QED BY <1>2 DEF SilentAfterDestroy

-----------------------------------------------------------------------------
\* After a timeout callback has made a request.

Running(m) == life[m] \in {"up", "stopping"}

\* The timer thread waits for the lock it holds (rabbitmqclient.cpp:587, 1034) as
\* long as the process lives: no rid is handed out and no task comes or goes, so that no request
\* can be made and none expires, and MidwareClientDestroy does not come to its end.
StuckTimerStops ==
  [][\A m \in Modules : TimerStuck(m) /\ Running(m) /\ life'[m] # "off" =>
       /\ TimerStuck(m)' /\ Running(m)'
       /\ next_timer_id'[m] = next_timer_id[m] /\ tasks'[m] = tasks[m]]_vars

\* Whatever would go on needs the lock, or the timer thread.
LEMMA StuckStaysStuck ==
  ASSUME TypeInv, NEW m \in Modules, TimerStuck(m), Running(m), life'[m] # "off",
         NEW n \in Modules, Step(n)
  PROVE  /\ timer'[m].pc = "stuck" /\ life'[m] \in {"up", "stopping"}
         /\ next_timer_id'[m] = next_timer_id[m] /\ tasks'[m] = tasks[m]
<1> DEFINE Same == /\ timer'[m] = timer[m] /\ life'[m] = life[m]
                   /\ next_timer_id'[m] = next_timer_id[m] /\ tasks'[m] = tasks[m]
<1>0. /\ life \in [Modules -> {"up", "stopping", "freed", "off"}]
      /\ next_timer_id \in [Modules -> Nat] /\ tasks \in [Modules -> SUBSET Task]
      /\ timer \in [Modules -> TimerRecords]
  BY DEF TypeInv, LifeOK, CallsOK, TasksOK, TimerOK
<1>1. timer[m].pc = "stuck" /\ life[m] \in {"up", "stopping"}
  BY DEF TimerStuck, Running
<1>2. ASSUME UNCHANGED <<life, next_timer_id, tasks, timer>> PROVE Same
  BY <1>2
<1>3. ASSUME NEW th \in Threads, Register(n, th) \/ Undo(n, th) PROVE Same
  <2>1. n # m
    BY <1>1, <1>3 DEF Register, Undo, TimerMutexFree
  <2>2. CASE Register(n, th)
    BY <1>0, <2>1, <2>2 DEF Register
  <2>3. CASE Undo(n, th)
    BY <1>0, <2>1, <2>3 DEF Undo
  <2> QED BY <1>3, <2>2, <2>3
<1>4. CASE Settle(n)
  <2>1. n # m
    BY <1>1, <1>4 DEF Settle, TimerMutexFree
  <2>2. UNCHANGED <<life, next_timer_id, timer>>
    BY <1>4 DEF Settle
  <2>3. tasks' = tasks \/ tasks' = [tasks EXCEPT ![n] = tasks[n] \ MyTask(n)]
    BY <1>4 DEF Settle
  <2>4. tasks'[m] = tasks[m]
    BY <1>0, <2>1, <2>3
  <2> QED BY <1>1, <2>2, <2>4
<1>5. ASSUME TimerSteps(n) \/ TimeoutCallbackCalls(n) PROVE Same
  <2>1. n # m
    BY <1>1, <1>5 DEF TimerSteps, TimeoutCallbackCalls, StartSweep, Erase, EndSweep, TimerEnds,
                      TimeoutProc
  <2>2. CASE Erase(n)
    BY <1>0, <2>1, <2>2 DEF Erase
  <2>3. CASE StartSweep(n)
    BY <1>0, <2>1, <2>3 DEF StartSweep, local
  <2>4. CASE EndSweep(n) \/ TimerEnds(n) \/ TimeoutCallbackCalls(n)
    BY <1>0, <2>1, <2>4 DEF EndSweep, TimerEnds, TimeoutCallbackCalls, local
  <2>5. ASSUME NEW rid \in Rids, TimeoutProc(n, rid) PROVE Same
    BY <1>0, <2>1, <2>5 DEF TimeoutProc, local
  <2> QED BY <1>5, <2>2, <2>3, <2>4, <2>5 DEF TimerSteps
<1>6. CASE Crash(n)
  <2>1. n # m
    BY <1>0, <1>6 DEF Crash
  <2> QED BY <1>0, <1>1, <1>6, <2>1 DEF Crash
<1>7. CASE Restart(n)
  <2>1. n # m
    BY <1>1, <1>7 DEF Restart
  <2> QED BY <1>0, <1>1, <1>7, <2>1 DEF Restart, threads
<1>8. CASE Destroy(n)
  BY <1>0, <1>1, <1>8 DEF Destroy, threads
<1>9. CASE Freed(n)
  <2>1. n # m
    BY <1>1, <1>9 DEF Freed, Joined
  <2> QED BY <1>0, <1>1, <1>9, <2>1 DEF Freed, threads
<1>10. ASSUME \/ SetHandlers(n) \/ NewCall(n) \/ Answering(n)
              \/ \E th \in Threads : Publish(n, th) \/ ReturnOk(n, th) \/ PublishFails(n, th)
       PROVE  UNCHANGED <<life, next_timer_id, tasks, timer>>
  BY <1>10 DEF SetHandlers, NewCall, BeginCall, Report, Answering, TempResponse, FinalResponse,
               Publish, ReturnOk, PublishFails, local, threads
<1>11. ASSUME \/ TakeMessage(n) \/ ReceiveEnds(n) \/ Ignore(n) \/ HandleRequest(n) \/ Lookup(n)
              \/ Dispatch(n) \/ CallbackReturns(n) \/ AutoResponse(n)
       PROVE  UNCHANGED <<life, next_timer_id, tasks, timer>>
  BY <1>11 DEF TakeMessage, ReceiveEnds, Ignore, HandleRequest, Lookup, Dispatch,
               CallbackReturns, AutoResponse, local
<1>12. ASSUME LostToGhost(n) \/ BrokerNotices(n) \/ ConnectionBreaks(n) \/ Reconnect(n)
       PROVE  UNCHANGED <<life, next_timer_id, tasks, timer>>
  BY <1>12 DEF LostToGhost, BrokerNotices, ConnectionBreaks, Reconnect, local, threads
<1>13. ASSUME Same
       PROVE  /\ timer'[m].pc = "stuck" /\ life'[m] \in {"up", "stopping"}
              /\ next_timer_id'[m] = next_timer_id[m] /\ tasks'[m] = tasks[m]
  BY <1>1, <1>13
<1> HIDE DEF Same
<1> QED
  BY <1>2, <1>3, <1>4, <1>5, <1>6, <1>7, <1>8, <1>9, <1>10, <1>11, <1>12, <1>13
  DEF Step, CallSteps, HandleSteps, Fault

\* A timeout callback that makes a request stops its process for good.
THEOREM StuckTimerStopsHolds == Spec => StuckTimerStops
<1> DEFINE Stops == \A m \in Modules : TimerStuck(m) /\ Running(m) /\ life'[m] # "off" =>
                      /\ TimerStuck(m)' /\ Running(m)'
                      /\ next_timer_id'[m] = next_timer_id[m] /\ tasks'[m] = tasks[m]
<1>1. IInv /\ [Next]_vars => [Stops]_vars
  <2>1. ASSUME IInv, Next
        PROVE  Stops
    <3>1. PICK n \in Modules : Step(n)
      BY <2>1, NextIsStep
    <3> QED BY <2>1, <3>1, StuckStaysStuck DEF IInv, TimerStuck, Running
  <2> HIDE DEF Stops
  <2> QED BY <2>1
<1>2. Spec => [][Stops]_vars
  <2> HIDE DEF Stops
  <2> QED BY <1>1, Invariance, PTL DEF Spec
<1> QED BY <1>2 DEF StuckTimerStops

-----------------------------------------------------------------------------
\* RequestPeers implements RequestExchange.

LEMMA ExchangeIds == Exchange!Messages = Ids
BY DEF Exchange!Messages, Ids

\* An application is given a message for the first time, and only one that was
\* asked for.
LEMMA HandlingGives ==
  ASSUME IInv, NEW m \in Modules, HandleRequest(m)
  PROVE  Exchange!Next
<1> DEFINE i == recv[m].id
<1>1. /\ recv[m].pc = "handle" /\ recv[m].props.msgtype \in AskTypes
      /\ handled' = [handled EXCEPT ![i] = handled[i] + 1]
      /\ UNCHANGED <<asked, answered, credited>>
  BY DEF HandleRequest, At, Type, Props, AskTypes
<1>2. i \in Ids /\ Honest(m, recv[m].props, i)
  BY <1>1 DEF IInv, TypeInv, RecvOK, AllHonest
<1>3. AskAt(m, 0, i)
  BY <1>1 DEF AskAt
<1>4. handled[i] = 0
  <2>1. handled[i] \in Nat
    BY <1>2 DEF IInv, TypeInv, HistoryOK
  <2>2. ~(handled[i] > 0)
    BY <1>2, <1>3 DEF IInv, AsksOnce
  <2> QED BY <2>1, <2>2
<1>5. i \in asked \/ i[3] < 0
  BY <1>1, <1>2 DEF Honest, AskTypes, Kinds
<1> HIDE DEF i
<1>6. Exchange!Give(i)
  BY <1>1, <1>4, <1>5 DEF Exchange!Give, Exchange!IsReport
<1> QED BY <1>2, <1>6, ExchangeIds DEF Exchange!Next

\* A final response is to a request or notification that was given.
LEMMA RespondingAnswers ==
  ASSUME IInv, NEW m \in Modules,
         AutoResponse(m) \/ \E o \in open[m] : FinalResponse(m, o)
  PROVE  Exchange!Next
<1>1. ASSUME NEW i \in Ids, i \in asked, handled[i] > 0, answered' = answered \cup {i},
             UNCHANGED <<asked, handled, credited>>
      PROVE  Exchange!Next
  <2>1. handled[i] \in Nat /\ handled[i] <= 1
    BY DEF IInv, TypeInv, HistoryOK, AsksOnce
  <2>2. handled[i] = 1
    BY <1>1, <2>1
  <2>3. Exchange!Answer(i)
    BY <1>1, <2>2 DEF Exchange!Answer
  <2> QED BY <2>3, ExchangeIds DEF Exchange!Next
<1>2. CASE AutoResponse(m)
  <2>1. /\ recv[m].pc = "ack" /\ answered' = answered \cup {recv[m].id}
        /\ UNCHANGED <<asked, handled, credited>>
    BY <1>2 DEF AutoResponse, At
  <2>2. recv[m].props.msgtype = "RB_NOTIFICATION" /\ Honest(m, recv[m].props, recv[m].id)
    BY <2>1 DEF IInv, AllHonest
  <2>3. recv[m].id \in Ids /\ handled[recv[m].id] > 0
    BY <2>1, <2>2 DEF IInv, TypeInv, RecvOK, AllHonest, AskTypes
  <2>4. recv[m].id \in asked
    BY <2>2 DEF Honest, Kinds
  <2> QED BY <1>1, <2>1, <2>3, <2>4
<1>3. ASSUME NEW o \in open[m], FinalResponse(m, o)
      PROVE  Exchange!Next
  <2>1. o.id \in Ids /\ o.id \in asked /\ handled[o.id] > 0
    BY DEF IInv, TypeInv, OpenOK, OpenRecords, AllHonest
  <2>2. answered' = answered \cup {o.id} /\ UNCHANGED <<asked, handled, credited>>
    BY <1>3 DEF FinalResponse
  <2> QED BY <1>1, <2>1, <2>2
<1> QED BY <1>2, <1>3

\* A response settles the request of its number, or nothing that counts.
LEMMA DispatchSettles ==
  ASSUME IInv, NEW m \in Modules, Dispatch(m)
  PROVE  Exchange!Next \/ UNCHANGED Exchange!vars
<1> DEFINE p == recv[m].props
           i == recv[m].id
<1>1. recv[m].pc = "found" /\ p \in AllProps /\ i \in Ids /\ Honest(m, p, i)
  BY DEF IInv, TypeInv, Dispatch, At, RecvOK, AllHonest
<1>2. UNCHANGED <<asked, handled, answered>>
  BY DEF Dispatch
<1>3. CASE credited' = credited
  BY <1>2, <1>3 DEF Exchange!vars
<1>4. CASE credited' # credited
  <2>1. PICK t \in MyTask(m) : Credit(m, t.rid) /\ p.msgtype = "RB_FINAL_RESPONSE"
    BY <1>4 DEF Dispatch, Type, Props
  <2>2. t.rid = p.rid /\ p.rid \in Rids
    BY <1>1, <2>1, AllFields DEF MyTask, Props
  <2> DEFINE mine == IdOf(m, p.rid)
  <2>3. credited' = credited \cup {<<mine, i>>}
    BY <2>1, <2>2 DEF Credit
  <2>4. mine \in Ids /\ mine[1] = m /\ mine[2] = lives[m] /\ mine[3] = p.rid
    BY <2>2, IdFacts, SomeSizes DEF IInv, TypeInv
  <2>5. i[1] = m /\ i[3] = p.rid /\ i \in answered /\ i[2] <= lives[m]
    BY <1>1, <2>1 DEF Honest
  <2>7. mine \in asked
    <3>1. t \in tasks[m]
      BY <2>1 DEF MyTask
    <3>2. p.rid < next_timer_id[m]
      BY <2>2, <3>1 DEF IInv, TypeInv, TasksOK
    <3> QED BY <2>2, <3>2 DEF IInv, RidsAsked
  <2> HIDE DEF mine, i, p
  <2>6. Exchange!Settle(mine, i)
    BY <1>2, <2>3, <2>4, <2>5 DEF Exchange!Settle
  <2> QED BY <2>5, <2>6, <2>7 DEF Exchange!Next
<1> QED BY <1>3, <1>4

\* Every step of a process is one of the exchange, or nothing to it.
LEMMA StepExchanges ==
  ASSUME IInv, NEW m \in Modules, Step(m)
  PROVE  Exchange!Next \/ UNCHANGED Exchange!vars
<1>1. CASE HandleRequest(m)
  BY <1>1, HandlingGives
<1>2. CASE AutoResponse(m) \/ \E o \in open[m] : FinalResponse(m, o)
  BY <1>2, RespondingAnswers
<1>3. CASE Dispatch(m)
  BY <1>3, DispatchSettles
<1>4. ASSUME NEW th \in Threads, Register(m, th)
      PROVE  Exchange!Next
  <2> DEFINE i == IdOf(m, next_timer_id[m])
  <2>1. asked' = asked \cup {i} /\ UNCHANGED <<handled, answered, credited>>
    BY <1>4 DEF Register
  <2>2. i \in Ids
    <3>1. next_timer_id[m] \in Rids
      BY <1>4, RegisterKeepsCalls DEF IInv, TypeInv
    <3> QED BY <3>1, IdFacts, SomeSizes DEF IInv, TypeInv
  <2> HIDE DEF i
  <2>3. Exchange!Ask(i)
    BY <2>1 DEF Exchange!Ask
  <2> QED BY <2>2, <2>3, ExchangeIds DEF Exchange!Next
<1>5. CASE UNCHANGED <<asked, handled, answered, credited>>
  BY <1>5 DEF Exchange!vars
<1>6. ASSUME \/ SetHandlers(m) \/ NewCall(m) \/ \E o \in open[m] : TempResponse(m, o)
             \/ \E th \in Threads :
                  Publish(m, th) \/ ReturnOk(m, th) \/ PublishFails(m, th) \/ Undo(m, th)
      PROVE  UNCHANGED <<asked, handled, answered, credited>>
  BY <1>6 DEF SetHandlers, NewCall, BeginCall, Report, TempResponse, Publish, ReturnOk,
              PublishFails, Undo, history
<1>7. ASSUME \/ TakeMessage(m) \/ ReceiveEnds(m) \/ Ignore(m) \/ Lookup(m)
             \/ CallbackReturns(m) \/ Settle(m)
      PROVE  UNCHANGED <<asked, handled, answered, credited>>
  BY <1>7 DEF TakeMessage, ReceiveEnds, Ignore, Lookup, CallbackReturns, Settle, history
<1>8. ASSUME TimerSteps(m) \/ TimeoutCallbackCalls(m)
      PROVE  UNCHANGED <<asked, handled, answered, credited>>
  BY <1>8 DEF TimerSteps, TimeoutCallbackCalls, TimeoutProc, StartSweep, EndSweep, TimerEnds,
              Erase, history
<1>9. ASSUME Fault(m) \/ Reconnect(m) \/ Destroy(m) \/ Freed(m) \/ Restart(m)
      PROVE  UNCHANGED <<asked, handled, answered, credited>>
  BY <1>9 DEF Fault, LostToGhost, BrokerNotices, ConnectionBreaks, Reconnect, Crash, Destroy,
              Freed, Restart, history
<1> QED
  BY <1>1, <1>2, <1>3, <1>4, <1>5, <1>6, <1>7, <1>8, <1>9
  DEF Step, Answering, CallSteps, HandleSteps

\* The processes keep what they promise each other, over any crash, restart and
\* lost connection: a request is given to an application only after its sender has
\* begun to wait for the response, whatever the call then reports, and never twice;
\* it is answered only then, and settled only by such an answer.
THEOREM ImplementsExchangeHolds == Spec => ImplementsExchange
<1>1. Init => Exchange!Init
  BY ExchangeIds DEF Init, Exchange!Init
<1>2. ASSUME IInv, [Next]_vars
      PROVE  [Exchange!Next]_(Exchange!vars)
  <2>1. ASSUME NEW m \in Modules, Step(m)
        PROVE  Exchange!Next \/ UNCHANGED Exchange!vars
    BY <1>2, <2>1, StepExchanges
  <2>2. CASE UNCHANGED vars
    BY <2>2 DEF vars, Exchange!vars
  <2> QED BY <1>2, <2>1, <2>2, NextIsStep
<1> QED BY <1>1, <1>2, Invariance, PTL DEF Spec, ImplementsExchange, Exchange!Spec
=============================================================================
