-------------------------- MODULE RequestExchange --------------------------
(***************************************************************************)
(* What p2p processes promise each other about their messages, without the *)
(* broker, the threads, the tasks or the lives of connections:             *)
(*                                                                         *)
(*   a request or a notification is given to an application only after     *)
(*   its sender has begun to wait for the response, whatever the call then *)
(*   reports, and no message is given twice;                               *)
(*   an answer is sent only to what an application was given, and never to *)
(*   a report;                                                             *)
(*   a request that was made is settled only by an answer that was sent,   *)
(*   to a message of the same module with the same number, of this life    *)
(*   or a former one.                                                      *)
(*                                                                         *)
(* A message is known by its module, the life of the process that made it, *)
(* and its number, which is negative for a report: nobody waits for one.   *)
(*                                                                         *)
(* RequestPeers implements this specification.                             *)
(***************************************************************************)
EXTENDS Integers

CONSTANTS Modules, Lives, Numbers

Messages == Modules \X Lives \X Numbers

VARIABLES
  asked,     \* requests and notifications whose sender waits, or has waited
  given,     \* how often an application was given a message
  answered,  \* messages that a final response was sent to
  credited   \* pairs: the message settled, the message the response was to

vars == <<asked, given, answered, credited>>

Init ==
  /\ asked = {}
  /\ given = [i \in Messages |-> 0]
  /\ answered = {}
  /\ credited = {}

Ask(i) ==
  /\ asked' = asked \cup {i}
  /\ UNCHANGED <<given, answered, credited>>

IsReport(i) == i[3] < 0

Give(i) ==
  /\ i \in asked \/ IsReport(i)
  /\ given[i] = 0
  /\ given' = [given EXCEPT ![i] = 1]
  /\ UNCHANGED <<asked, answered, credited>>

Answer(i) ==
  /\ i \in asked /\ given[i] = 1
  /\ answered' = answered \cup {i}
  /\ UNCHANGED <<asked, given, credited>>

Settle(mine, theirs) ==
  /\ theirs[1] = mine[1] /\ theirs[3] = mine[3] /\ theirs[2] <= mine[2]
  /\ credited' = credited \cup {<<mine, theirs>>}
  /\ UNCHANGED <<asked, given, answered>>

Next ==
  \/ \E i \in Messages : Ask(i) \/ Give(i) \/ Answer(i)
  \/ \E mine \in asked, theirs \in answered : Settle(mine, theirs)

Spec == Init /\ [][Next]_vars
=============================================================================
