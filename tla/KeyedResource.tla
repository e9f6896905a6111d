--------------------------- MODULE KeyedResource ---------------------------
(***************************************************************************)
(* What a keyed lease promises, with no timers, counts or promises in it:  *)
(* under each key there is at most one current resource, the users of a    *)
(* key share it, it retires only when nobody uses it, and a retired        *)
(* resource that ever opened is closed, once.  A resource is named by the  *)
(* user whose arrival made it.                                             *)
(***************************************************************************)
CONSTANTS Keys,   \* what the users ask for
          Users,  \* each uses one key, once
          None

VARIABLES
    current,   \* current[k]: the resource users of k share, or None
    uses,      \* uses[u]: the resource u holds, or None
    state,     \* state[r]: whether the resource was made, opened or failed
    retired,   \* the resources no user will get any more
    closed     \* the resources that have been closed

rvars == <<current, uses, state, retired, closed>>

TypeOK ==
    /\ current \in [Keys -> Users \cup {None}]
    /\ uses \in [Users -> Users \cup {None}]
    /\ state \in [Users -> {"none", "opening", "open", "failed"}]
    /\ retired \in SUBSET Users
    /\ closed \in SUBSET Users

Init ==
    /\ current = [k \in Keys |-> None]
    /\ uses = [u \in Users |-> None]
    /\ state = [u \in Users |-> "none"]
    /\ retired = {}
    /\ closed = {}

Share(u, k) ==
    /\ uses[u] = None
    /\ current[k] # None
    /\ uses' = [uses EXCEPT ![u] = current[k]]
    /\ UNCHANGED <<current, state, retired, closed>>

Make(u, k) ==
    /\ uses[u] = None
    /\ current[k] = None
    /\ state[u] = "none"
    /\ current' = [current EXCEPT ![k] = u]
    /\ uses' = [uses EXCEPT ![u] = u]
    /\ state' = [state EXCEPT ![u] = "opening"]
    /\ UNCHANGED <<retired, closed>>

Leave(u) ==
    /\ uses[u] # None
    /\ uses' = [uses EXCEPT ![u] = None]
    /\ UNCHANGED <<current, state, retired, closed>>

Settle(r, outcome) ==
    /\ state[r] = "opening"
    /\ state' = [state EXCEPT ![r] = outcome]
    /\ UNCHANGED <<current, uses, retired, closed>>

Unused(r) == \A u \in Users : uses[u] # r

Retire(k, r) ==
    /\ current[k] = r
    /\ Unused(r)
    /\ current' = [current EXCEPT ![k] = None]
    /\ retired' = retired \cup {r}
    /\ UNCHANGED <<uses, state, closed>>

Shut(r) ==
    /\ r \in retired \ closed
    /\ state[r] = "open"
    /\ closed' = closed \cup {r}
    /\ UNCHANGED <<current, uses, state, retired>>

Next ==
    \/ \E u \in Users, k \in Keys :
        Share(u, k) \/ Make(u, k) \/ Retire(k, u)
    \/ \E u \in Users :
        Leave(u) \/ Shut(u) \/ Settle(u, "open") \/ Settle(u, "failed")

Spec == Init /\ [][Next]_rvars
=============================================================================
