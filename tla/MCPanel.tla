------------------------------ MODULE MCPanel ------------------------------
(* The app and the helper it talks to, one part per behaviour: a keyed     *)
(* lease, the watch pool over the helper's table, the helper's serving     *)
(* loop, or the terminals. `focus` names the part that runs; the others    *)
(* stay as they start, where no fair action is enabled.                    *)
EXTENDS Lease, WatchPool, HelperServer, SessionManager, TLC

CONSTANTS k1, k2, u1, u2, u3, o1, o2, c1

VARIABLE focus

\* The pool drives the helper's table; the server is the rest of the helper.
poolOnly == <<poolVars, forgotten, watcherVars, wireVars>>
serverOnly == <<readVars, loopVars, pumpVars, gitVars, out>>
panelVars == <<focus, leaseVars, poolOnly, serverVars, managerVars>>

DeepInTop == [p \in Paths |-> IF p = "deep" THEN {"top", "deep"} ELSE {p}]
Line(is, size, at, below) == [is |-> is, size |-> size, path |-> at, recursive |-> below]
ServerRequests ==
    {Line("op", 1, "top", FALSE), Line("op", 3, "top", FALSE), Line("junk", 1, "top", FALSE),
     Line("labelled", 2, "top", FALSE), Line("blank", 1, "top", FALSE),
     Line("shutdown", 1, "top", FALSE), Line("unsubscribe", 1, "deep", FALSE)}
    \cup {Line("subscribe", 1, p, r) : p \in Paths, r \in BOOLEAN}

PanelInit ==
    /\ focus \in {"lease", "pool", "server", "sessions"}
    /\ LeaseInit /\ PoolInit /\ ServerInit /\ SessionInit

PanelNext ==
    /\ UNCHANGED focus
    /\ \/ focus = "lease" /\ LeaseNext /\ UNCHANGED <<poolOnly, serverVars, managerVars>>
       \/ focus = "pool" /\ PoolNext /\ UNCHANGED <<leaseVars, serverOnly, managerVars>>
       \/ focus = "server" /\ ServerNext /\ UNCHANGED <<leaseVars, poolOnly, managerVars>>
       \/ focus = "sessions" /\ SessionNext /\ UNCHANGED <<leaseVars, poolOnly, serverVars>>

PanelFairSpec ==
    /\ PanelInit /\ [][PanelNext]_panelVars
    /\ LeaseFairness /\ PoolFairness /\ ServerFairness /\ SessionFairness
=============================================================================
