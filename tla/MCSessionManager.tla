-------------------------- MODULE MCSessionManager --------------------------
(* SessionManager with two tabs and a few commands. *)
EXTENDS SessionManager, TLC

CONSTANTS o1, o2, c1, c2
=============================================================================
