--------------------------- MODULE MCRequestPeers ---------------------------
(* A requester and a responder, by the names of their modules. *)
EXTENDS RequestPeers

CONSTANTS a, b

TwoModules == {a, b}
OnlyB == {b}
OnlyAAsks == [m \in TwoModules |-> IF m = a THEN {b} ELSE {}]

\* No text of the instance holds a NUL.
Whole(text) == text
=============================================================================
