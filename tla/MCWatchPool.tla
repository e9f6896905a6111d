---------------------------- MODULE MCWatchPool ----------------------------
(* The pool with a few panel effects on one directory. *)
EXTENDS WatchPool, TLC

CONSTANTS p1, u1, u2, u3
=============================================================================
