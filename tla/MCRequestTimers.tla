-------------------------- MODULE MCRequestTimers --------------------------
(* Small instances of RequestTimers for TLC. *)
EXTENDS RequestTimers

CONSTANTS c1, c2

OneCaller == {c1}
TwoCallers == {c1, c2}
\* 500 ms becomes an interval of 0 s, 1500 ms one of 1 s.
ShortAndLong == {500, 1500}
OnlyLong == {1000}
=============================================================================
