-------------------------- MODULE MCHelperManager --------------------------
(* HelperManager on small sets of command invocations. *)
EXTENDS HelperManager, TLC

CONSTANTS h1, h2, o1, o2, c1, c2, k1

Symmetric == Permutations(Calls) \cup Permutations(Opens)
                \cup Permutations(Hosts)
=============================================================================
