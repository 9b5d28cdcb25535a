-------------------------- MODULE RequestContract --------------------------
(***************************************************************************)
(* What the p2p client promises the application about the requests it      *)
(* makes, without the vector of tasks, the threads or the lock:            *)
(*                                                                         *)
(*   a request is pending from its registration until it is closed, once;  *)
(*   only a pending request can expire, and expiring closes it;            *)
(*   an answer is taken only for a pending request, and one at a time; the *)
(*   application is told of it while the request may expire in parallel;   *)
(*   a refused request is closed by the refusal.                           *)
(*                                                                         *)
(* RequestTimers implements this specification.                            *)
(***************************************************************************)
EXTENDS Naturals

CONSTANTS
  Requests,
  Nobody     \* not a request: the value of answer.request while there is none

VARIABLES
  phase,     \* per request: "unused", "reserved", "pending" or "closed"
  answer,    \* the answer being handled: request, "temp" or "final", told yet
  ret,       \* what the call that made the request returned
  timeouts,  \* reports of a timeout to the application
  finals     \* final responses handed to the application

vars == <<phase, answer, ret, timeouts, finals>>

Phases == {"unused", "reserved", "pending", "closed"}
NoAnswer == [request |-> Nobody, type |-> "final", told |-> FALSE]

Init ==
  /\ phase = [r \in Requests |-> "unused"]
  /\ answer = NoAnswer
  /\ ret = [r \in Requests |-> "none"]
  /\ timeouts = [r \in Requests |-> 0]
  /\ finals = [r \in Requests |-> 0]

Move(r, from, to) == phase[r] = from /\ phase' = [phase EXCEPT ![r] = to]

Reserve(r) == Move(r, "unused", "reserved") /\ UNCHANGED <<answer, ret, timeouts, finals>>

Register(r) == Move(r, "reserved", "pending") /\ UNCHANGED <<answer, ret, timeouts, finals>>

Accept(r) ==
  /\ phase[r] \in {"pending", "closed"}
  /\ ret[r] = "none"
  /\ ret' = [ret EXCEPT ![r] = "ok"]
  /\ UNCHANGED <<phase, answer, timeouts, finals>>

Refuse(r) ==
  /\ phase[r] \in {"pending", "closed"}
  /\ ret[r] = "none"
  /\ ret' = [ret EXCEPT ![r] = "failed"]
  /\ phase' = [phase EXCEPT ![r] = "closed"]
  /\ UNCHANGED <<answer, timeouts, finals>>

\* The timeout is reported if a callback for it was registered.
Expire(r) ==
  /\ Move(r, "pending", "closed")
  /\ \/ timeouts' = [timeouts EXCEPT ![r] = @ + 1]
     \/ UNCHANGED timeouts
  /\ UNCHANGED <<answer, ret, finals>>

Take(r, t) ==
  /\ answer = NoAnswer
  /\ phase[r] = "pending"
  /\ answer' = [request |-> r, type |-> t, told |-> FALSE]
  /\ UNCHANGED <<phase, ret, timeouts, finals>>

\* A final response may be swallowed, a temporary one is not counted.
Tell ==
  /\ answer.request # Nobody /\ ~answer.told
  /\ answer' = [answer EXCEPT !.told = TRUE]
  /\ \/ answer.type = "final" /\ finals' = [finals EXCEPT ![answer.request] = @ + 1]
     \/ UNCHANGED finals
  /\ UNCHANGED <<phase, ret, timeouts>>

Finish ==
  /\ answer.told
  /\ answer' = NoAnswer
  /\ phase' = IF answer.type = "final"
              THEN [phase EXCEPT ![answer.request] = "closed"]
              ELSE phase
  /\ UNCHANGED <<ret, timeouts, finals>>

Next ==
  \/ \E r \in Requests :
       \/ Reserve(r) \/ Register(r) \/ Accept(r) \/ Refuse(r) \/ Expire(r)
       \/ \E t \in {"temp", "final"} : Take(r, t)
  \/ Tell
  \/ Finish

Spec == Init /\ [][Next]_vars
=============================================================================
