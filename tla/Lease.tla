------------------------------- MODULE Lease -------------------------------
(***************************************************************************)
(* The keyed lease of the desktop app's frontend (lib/lease.ts), which the *)
(* terminal attach and the panel's helper connection share.  A user is one *)
(* React effect: it acquires its key when it mounts and releases it in its *)
(* cleanup.  Acquire, release, the deferred tick and the settling of a     *)
(* promise each run to completion on the one JavaScript thread; anything   *)
(* may happen between them.  A slot object is named by the user whose      *)
(* acquire built it.                                                       *)
(***************************************************************************)
EXTENDS Naturals, FiniteSets, Absent

CONSTANTS Keys, Users

ASSUME LeaseAssumption ==
    /\ IsFiniteSet(Users)
    /\ None \notin Users

VARIABLES
    slots,    \* slots[k]: the Map, the slot found under k or None
    holders,  \* holders[s]: Slot::holders
    closed,   \* the slots with Slot::closed set
    ticks,    \* ticks[s]: deferred closes scheduled and not yet run
    opening,  \* opening[s]: what the promise of open() has come to
    due,      \* due[s]: close callbacks chained on the promise, not yet run
    closes,   \* closes[s]: how often close(value) has run
    user,     \* user[u]: where the effect is
    keyOf,    \* keyOf[u]: the key the effect acquired
    joined    \* joined[u]: the slot whose value the acquire returned

slotVars == <<slots, holders, closed, ticks, opening, due, closes>>
userVars == <<user, keyOf, joined>>
leaseVars == <<slotVars, userVars>>

LeaseTypeOK ==
    /\ slots \in [Keys -> Users \cup {None}]
    /\ holders \in [Users -> Nat]
    /\ closed \in SUBSET Users
    /\ ticks \in [Users -> Nat]
    /\ opening \in [Users -> {"none", "opening", "open", "failed"}]
    /\ due \in [Users -> Nat]
    /\ closes \in [Users -> Nat]
    /\ user \in [Users -> {"idle", "mounted", "gone"}]
    /\ keyOf \in [Users -> Keys \cup {None}]
    /\ joined \in [Users -> Users \cup {None}]

LeaseInit ==
    /\ slots = [k \in Keys |-> None]
    /\ holders = [u \in Users |-> 0]
    /\ closed = {}
    /\ ticks = [u \in Users |-> 0]
    /\ opening = [u \in Users |-> "none"]
    /\ due = [u \in Users |-> 0]
    /\ closes = [u \in Users |-> 0]
    /\ user = [u \in Users |-> "idle"]
    /\ keyOf = [u \in Users |-> None]
    /\ joined = [u \in Users |-> None]

Mount(u, k, s) ==
    /\ user[u] = "idle"
    /\ user' = [user EXCEPT ![u] = "mounted"]
    /\ keyOf' = [keyOf EXCEPT ![u] = k]
    /\ joined' = [joined EXCEPT ![u] = s]

\* acquire on a key that has a slot: join it, even at zero holders.
AcquireJoins(u, k) ==
    /\ slots[k] # None
    /\ Mount(u, k, slots[k])
    /\ holders' = [holders EXCEPT ![slots[k]] = @ + 1]
    /\ UNCHANGED <<slots, closed, ticks, opening, due, closes>>

\* acquire on a key without one: a fresh slot, and open() is called.
AcquireOpens(u, k) ==
    /\ slots[k] = None
    /\ Mount(u, k, u)
    /\ slots' = [slots EXCEPT ![k] = u]
    /\ holders' = [holders EXCEPT ![u] = 1]
    /\ opening' = [opening EXCEPT ![u] = "opening"]
    /\ UNCHANGED <<closed, ticks, due, closes>>

\* release finds its slot by the key alone; the last holder schedules a tick.
Release(u) ==
    LET s == slots[keyOf[u]] IN
    /\ user[u] = "mounted"
    /\ user' = [user EXCEPT ![u] = "gone"]
    /\ IF s = None \/ holders[s] = 0
       THEN UNCHANGED <<holders, ticks>>
       ELSE /\ holders' = [holders EXCEPT ![s] = @ - 1]
            /\ ticks' = IF holders[s] = 1
                        THEN [ticks EXCEPT ![s] = @ + 1]
                        ELSE ticks
    /\ UNCHANGED <<slots, closed, opening, due, closes, keyOf, joined>>

\* Mutants: the deferred close forgets to ask whether the slot was
\* re-acquired, or whether it is closed already.
CommitsIfHeld(s) == s \notin closed

\* The deferred callback: nothing if the slot was closed or re-acquired, else
\* the slot leaves the map and close is chained on the promise.
Commits(s) == s \notin closed /\ holders[s] = 0

\* Mutants: the slot stays in the map; a promise still pending is not chained.
TickKeepsSlot(s) ==
    /\ ticks[s] > 0
    /\ ticks' = [ticks EXCEPT ![s] = @ - 1]
    /\ IF Commits(s)
       THEN /\ closed' = closed \cup {s}
            /\ due' = [due EXCEPT ![s] = @ + 1]
       ELSE UNCHANGED <<closed, due>>
    /\ UNCHANGED <<slots, holders, opening, closes, userVars>>

TickClosesOpened(s) ==
    /\ ticks[s] > 0
    /\ ticks' = [ticks EXCEPT ![s] = @ - 1]
    /\ IF Commits(s)
       THEN /\ closed' = closed \cup {s}
            /\ slots' = [k \in Keys |-> IF slots[k] = s THEN None
                                        ELSE slots[k]]
            /\ due' = IF opening[s] = "open" THEN [due EXCEPT ![s] = @ + 1]
                      ELSE due
       ELSE UNCHANGED <<closed, slots, due>>
    /\ UNCHANGED <<holders, opening, closes, userVars>>

Tick(s) ==
    /\ ticks[s] > 0
    /\ ticks' = [ticks EXCEPT ![s] = @ - 1]
    /\ IF Commits(s)
       THEN /\ closed' = closed \cup {s}
            /\ slots' = [k \in Keys |-> IF slots[k] = s THEN None
                                        ELSE slots[k]]
            /\ due' = [due EXCEPT ![s] = @ + 1]
       ELSE UNCHANGED <<closed, slots, due>>
    /\ UNCHANGED <<holders, opening, closes, userVars>>

Settle(s, outcome) ==
    /\ opening[s] = "opening"
    /\ opening' = [opening EXCEPT ![s] = outcome]
    /\ UNCHANGED <<slots, holders, closed, ticks, due, closes, userVars>>

\* The chained callback runs on the resolved value; a rejection is swallowed.
CloseRuns(s) ==
    /\ due[s] > 0
    /\ opening[s] = "open"
    /\ due' = [due EXCEPT ![s] = @ - 1]
    /\ closes' = [closes EXCEPT ![s] = @ + 1]
    /\ UNCHANGED <<slots, holders, closed, ticks, opening, userVars>>

LeaseNext ==
    \/ \E u \in Users, k \in Keys : AcquireJoins(u, k) \/ AcquireOpens(u, k)
    \/ \E u \in Users :
        \/ Release(u)
        \/ Tick(u)
        \/ Settle(u, "open")
        \/ Settle(u, "failed")
        \/ CloseRuns(u)

LeaseSpec == LeaseInit /\ [][LeaseNext]_leaseVars

\* Timers fire and callbacks of a settled promise run.  Whether an open
\* settles, and whether an effect is cleaned up, is not assumed.
LeaseFairness ==
    \A s \in Users : WF_leaseVars(Tick(s)) /\ WF_leaseVars(CloseRuns(s))

LeaseFairSpec == LeaseSpec /\ LeaseFairness

-----------------------------------------------------------------------------
Holding(s) == {u \in Users : user[u] = "mounted" /\ joined[u] = s}

(* The file's invariant: a release always finds the slot it holds.  While  *)
(* a user is mounted, its key leads to the slot it joined, whatever other  *)
(* users, ticks and closes of the key have come and gone.                  *)
HolderFindsItsSlot ==
    \A u \in Users : user[u] = "mounted" => slots[keyOf[u]] = joined[u]

(* No resource is closed, or has its close chained, under a live holder.   *)
HeldIsNotClosed ==
    \A u \in Users :
        user[u] = "mounted" =>
            /\ joined[u] \notin closed
            /\ due[joined[u]] = 0
            /\ closes[joined[u]] = 0

(* However many releases schedule a tick, close runs at most once.         *)
ClosedAtMostOnce == \A s \in Users : due[s] + closes[s] <= 1

(* A slot that nobody holds has a tick coming, or its close is committed:  *)
(* no release leaves a resource without the callback that closes it.       *)
UnheldWillClose ==
    \A s \in Users :
        (opening[s] # "none" /\ Holding(s) = {}) =>
            s \in closed \/ ticks[s] > 0

(* A resource that opened and has no holder left is closed in the end,     *)
(* unless a mount joins it first.                                          *)
NoLeakedResource ==
    \A s \in Users :
        (opening[s] = "open" /\ Holding(s) = {})
            ~> (closes[s] = 1 \/ Holding(s) # {})

-----------------------------------------------------------------------------
(* The inductive invariant behind the safety properties, in named parts.   *)

\* The count of a slot is the number of mounted users that joined it.
HoldersAreCounted == \A s \in Users : holders[s] = Cardinality(Holding(s))

\* A user that has not mounted has no key, and nothing bears its name.
UnmountedIsBlank ==
    \A u \in Users :
        IF user[u] = "idle"
        THEN /\ keyOf[u] = None /\ joined[u] = None
             /\ opening[u] = "none"
        ELSE keyOf[u] \in Keys /\ joined[u] \in Users

\* What was never opened has no tick and no close to come.
UnopenedIsBlank ==
    \A s \in Users :
        opening[s] = "none" => ticks[s] = 0 /\ s \notin closed

\* The map holds exactly the slots that were opened and not closed.
MapHoldsTheLive ==
    /\ \A k \in Keys :
        slots[k] # None =>
            /\ keyOf[slots[k]] = k
            /\ opening[slots[k]] # "none"
            /\ slots[k] \notin closed
    /\ \A s \in Users :
        (opening[s] # "none" /\ s \notin closed) => slots[keyOf[s]] = s

\* One close per slot that left the map, chained or run.
ClosesAreCommitted ==
    \A s \in Users : due[s] + closes[s] = IF s \in closed THEN 1 ELSE 0

LeaseInvariant ==
    /\ LeaseTypeOK
    /\ HoldersAreCounted
    /\ UnmountedIsBlank
    /\ UnopenedIsBlank
    /\ MapHoldsTheLive
    /\ ClosesAreCommitted
    /\ HolderFindsItsSlot
    /\ UnheldWillClose

-----------------------------------------------------------------------------
\* The lease implements the promise: a user uses the slot it joined.
Uses == [u \in Users |-> IF user[u] = "mounted" THEN joined[u] ELSE None]
Resource == INSTANCE KeyedResource
    WITH current <- slots, uses <- Uses, state <- opening,
         retired <- closed, closed <- {s \in Users : closes[s] > 0}

(* Every step of the lease is a step of the keyed resource or none.        *)
ImplementsKeyedResource == Resource!Spec
=============================================================================
