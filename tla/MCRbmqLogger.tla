---------------------------- MODULE MCRbmqLogger ----------------------------
(* Two messages, so that the expiry of one entry meets the count of another. *)
EXTENDS RbmqLogger

CONSTANTS m1, m2

TwoMessages == {m1, m2}
=============================================================================
