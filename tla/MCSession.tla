----------------------------- MODULE MCSession -----------------------------
(* Session has only numeric and Boolean constants: the configurations give *)
(* them their values.                                                      *)
EXTENDS Session
=============================================================================
