------------------------------- MODULE Absent -------------------------------
(* The value of an Option that is none, of a variable that is null or       *)
(* undefined, of a name that is not bound: one for all modules.             *)
CONSTANT None
=============================================================================
