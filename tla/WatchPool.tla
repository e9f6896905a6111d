----------------------------- MODULE WatchPool -----------------------------
(***************************************************************************)
(* The panel's shared watch subscriptions (createWatchPool of              *)
(* lib/panel/watch.ts) over one helper connection, with the remote's       *)
(* subscription table at the far end.  A user is one panel effect that     *)
(* acquires a watch and later releases it; an Entry object is named by the *)
(* user whose acquire built it.  Each helper_call runs on a thread of its  *)
(* own, so requests reach the remote, and answers the frontend, in any     *)
(* order.                                                                  *)
(***************************************************************************)
EXTENDS SubscriptionTable, FiniteSets, Absent

CONSTANT Watchers

ASSUME PoolAssumption == None \notin Watchers

PoolKeys == Paths \X BOOLEAN

VARIABLES
    poolTable,   \* poolTable[k]: the entry under the key, or None
    poolHolders, \* poolHolders[e]: Entry::holders
    entryId,     \* entryId[e]: Entry::id, 0 while null
    abandoned,   \* the entries with Entry::abandoned set
    live,        \* the pool's count of entries
    forgotten,   \* the channel has closed and forget has run
    watcher,     \* watcher[u]: where the effect is
    watchKeyOf,  \* watchKeyOf[u]: the key the effect acquired
    entryOf,     \* entryOf[u]: the entry its release closure captured
    requests,    \* helper_calls on their way to the remote
    answers,     \* subscribe answers on their way back; id 0 is an error
    expired      \* entries whose subscribe timed out while on its way

poolVars == <<poolTable, poolHolders, entryId, abandoned, live>>
watcherVars == <<watcher, watchKeyOf, entryOf>>
wireVars == <<requests, answers, expired>>
watchVars == <<tableVars, poolVars, forgotten, watcherVars, wireVars>>

SubscribeCall(e) == [op |-> "subscribe", of |-> e, id |-> 0]
UnsubscribeCall(e, id) == [op |-> "unsubscribe", of |-> e, id |-> id]
Request == [op : {"subscribe", "unsubscribe"}, of : Watchers, id : Nat]

PoolTypeOK ==
    /\ TableTypeOK
    /\ poolTable \in [PoolKeys -> Watchers \cup {None}]
    /\ poolHolders \in [Watchers -> Nat]
    /\ entryId \in [Watchers -> Nat]
    /\ abandoned \in SUBSET Watchers
    /\ live \in Nat
    /\ forgotten \in BOOLEAN
    /\ watcher \in [Watchers -> {"idle", "holding", "gone"}]
    /\ watchKeyOf \in [Watchers -> PoolKeys \cup {None}]
    /\ entryOf \in [Watchers -> Watchers \cup {None}]
    /\ requests \in SUBSET Request
    /\ answers \in SUBSET [of : Watchers, id : Nat]
    /\ expired \in SUBSET Watchers

PoolInit ==
    /\ TableInit
    /\ poolTable = [k \in PoolKeys |-> None]
    /\ poolHolders = [u \in Watchers |-> 0]
    /\ entryId = [u \in Watchers |-> 0]
    /\ abandoned = {}
    /\ live = 0
    /\ forgotten = FALSE
    /\ watcher = [u \in Watchers |-> "idle"]
    /\ watchKeyOf = [u \in Watchers |-> None]
    /\ entryOf = [u \in Watchers |-> None]
    /\ requests = {}
    /\ answers = {}
    /\ expired = {}

-----------------------------------------------------------------------------
(* The pool *)

Hold(u, k, e) ==
    /\ watcher[u] = "idle"
    /\ watcher' = [watcher EXCEPT ![u] = "holding"]
    /\ watchKeyOf' = [watchKeyOf EXCEPT ![u] = k]
    /\ entryOf' = [entryOf EXCEPT ![u] = e]
    /\ poolHolders' = [poolHolders EXCEPT ![e] = @ + 1]

PoolJoins(u, k) ==
    /\ ~forgotten
    /\ poolTable[k] # None
    /\ Hold(u, k, poolTable[k])
    /\ UNCHANGED <<tableVars, poolTable, entryId, abandoned, live, forgotten,
                   wireVars>>

PoolSubscribes(u, k) ==
    /\ ~forgotten
    /\ poolTable[k] = None
    /\ Hold(u, k, u)
    /\ poolTable' = [poolTable EXCEPT ![k] = u]
    /\ live' = live + 1
    /\ requests' = requests \cup {SubscribeCall(u)}
    /\ UNCHANGED <<tableVars, entryId, abandoned, forgotten, answers, expired>>

Drop(k) ==
    /\ poolTable' = [poolTable EXCEPT ![k] = None]
    /\ live' = live - 1

\* Mutant: a watch whose id is known is left to the remote.
EndWatchOnlyPending(e) ==
    /\ abandoned' = IF entryId[e] = 0 THEN abandoned \cup {e} ELSE abandoned
    /\ UNCHANGED requests

\* Unsubscribe under the known id, or leave that to the answer's arrival.
EndWatch(e) ==
    IF entryId[e] # 0
    THEN /\ requests' = requests \cup {UnsubscribeCall(e, entryId[e])}
         /\ UNCHANGED abandoned
    ELSE /\ abandoned' = abandoned \cup {e}
         /\ UNCHANGED requests

\* The release closure: nothing once its entry is not the table's any more.
PoolRelease(u) ==
    LET e == entryOf[u] IN
    /\ watcher[u] = "holding"
    /\ watcher' = [watcher EXCEPT ![u] = "gone"]
    /\ IF poolTable[watchKeyOf[u]] # e
       THEN UNCHANGED <<poolVars, requests>>
       ELSE /\ poolHolders' = [poolHolders EXCEPT ![e] = @ - 1]
            /\ UNCHANGED entryId
            /\ IF poolHolders[e] > 1
               THEN UNCHANGED <<poolTable, abandoned, live, requests>>
               ELSE Drop(watchKeyOf[u]) /\ EndWatch(e)
    /\ UNCHANGED <<tableVars, forgotten, watchKeyOf, entryOf, answers, expired>>

\* Mutant: the id is remembered whoever is left.
SubscribeResolvesAnyway(a) ==
    /\ a \in answers
    /\ a.id # 0
    /\ answers' = answers \ {a}
    /\ entryId' = [entryId EXCEPT ![a.of] = a.id]
    /\ UNCHANGED <<tableVars, poolTable, poolHolders, abandoned, live, forgotten,
                   watcherVars, requests, expired>>

\* The subscribe resolved: remember the id, or end a watch nobody is left for.
SubscribeResolves(a) ==
    LET e == a.of IN
    /\ a \in answers
    /\ a.id # 0
    /\ answers' = answers \ {a}
    /\ IF e \in abandoned \/ poolTable[watchKeyOf[e]] # e
       THEN /\ requests' = requests \cup {UnsubscribeCall(e, a.id)}
            /\ UNCHANGED entryId
       ELSE /\ entryId' = [entryId EXCEPT ![e] = a.id]
            /\ UNCHANGED requests
    /\ UNCHANGED <<tableVars, poolTable, poolHolders, abandoned, live, forgotten,
                   watcherVars, expired>>

\* The subscribe rejected: drop the entry, if it still is the table's.
Reject(e) ==
    IF poolTable[watchKeyOf[e]] = e THEN Drop(watchKeyOf[e]) ELSE UNCHANGED <<poolTable, live>>

SubscribeRejects(a) ==
    /\ a \in answers
    /\ a.id = 0
    /\ answers' = answers \ {a}
    /\ Reject(a.of)
    /\ UNCHANGED <<tableVars, poolHolders, entryId, abandoned, forgotten, watcherVars,
                   requests, expired>>

\* helper_call gave up; the request itself is still on its way.
SubscribeExpires(e) ==
    /\ e \notin expired
    /\ SubscribeCall(e) \in requests
    /\ expired' = expired \cup {e}
    /\ Reject(e)
    /\ UNCHANGED <<tableVars, poolHolders, entryId, abandoned, forgotten, watcherVars,
                   requests, answers>>

\* The channel closed: the remote is gone with its table, every call on its
\* way fails, and the client's table is dropped.
Forget ==
    /\ ~forgotten
    /\ forgotten' = TRUE
    /\ poolTable' = [k \in PoolKeys |-> None]
    /\ live' = live - Cardinality({k \in PoolKeys : poolTable[k] # None})
    /\ requests' = {}
    /\ answers' = {}
    /\ entries' = {}
    /\ watched' = {}
    /\ UNCHANGED <<nextId, poolHolders, entryId, abandoned, watcherVars, expired>>

-----------------------------------------------------------------------------
(* The remote *)

Answer(e, id) ==
    answers' = IF e \in expired THEN answers
               ELSE answers \cup {[of |-> e, id |-> id]}

RemoteSubscribes(e, id) ==
    /\ SubscribeCall(e) \in requests
    /\ Subscribe(watchKeyOf[e][1], watchKeyOf[e][2], id)
    /\ requests' = requests \ {SubscribeCall(e)}
    /\ Answer(e, id)
    /\ UNCHANGED <<poolVars, forgotten, watcherVars, expired>>

RemoteRefuses(e) ==
    /\ SubscribeCall(e) \in requests
    /\ requests' = requests \ {SubscribeCall(e)}
    /\ Answer(e, 0)
    /\ UNCHANGED <<tableVars, poolVars, forgotten, watcherVars, expired>>

RemoteUnsubscribes(q) ==
    /\ q \in requests
    /\ q.op = "unsubscribe"
    /\ Unsubscribe(ById(q.id))
    /\ requests' = requests \ {q}
    /\ UNCHANGED <<poolVars, forgotten, watcherVars, answers, expired>>

RemoteNext ==
    \/ \E e \in Watchers :
        \/ \E id \in 1 .. MaxIds : RemoteSubscribes(e, id)
        \/ RemoteRefuses(e)
    \/ \E q \in requests : RemoteUnsubscribes(q)

PoolNext ==
    \/ \E u \in Watchers, k \in PoolKeys : PoolJoins(u, k) \/ PoolSubscribes(u, k)
    \/ \E u \in Watchers : PoolRelease(u) \/ SubscribeExpires(u)
    \/ \E a \in answers : SubscribeResolves(a) \/ SubscribeRejects(a)
    \/ Forget
    \/ RemoteNext

PoolSpec == PoolInit /\ [][PoolNext]_watchVars

\* A connection that is not closed delivers requests and answers.
PoolFairness ==
    /\ WF_watchVars(RemoteNext)
    /\ WF_watchVars(\E a \in answers : SubscribeResolves(a) \/ SubscribeRejects(a))

PoolFairSpec == PoolSpec /\ PoolFairness

-----------------------------------------------------------------------------
HoldersOf(e) == {u \in Watchers : watcher[u] = "holding" /\ entryOf[u] = e}

(* The table counts right: an entry is in it exactly while somebody holds  *)
(* it and its subscribe has not failed, and live is the number of entries. *)
CountsAreRight ==
    /\ \A k \in PoolKeys :
        poolTable[k] # None =>
            /\ poolHolders[poolTable[k]] = Cardinality(HoldersOf(poolTable[k]))
            /\ HoldersOf(poolTable[k]) # {}
            /\ watchKeyOf[poolTable[k]] = k
    /\ live = Cardinality({k \in PoolKeys : poolTable[k] # None})

(* A subscription on the remote always has somebody who will end it: an    *)
(* entry that knows its id or is about to, or an unsubscribe on its way.   *)
(* Only a subscribe the frontend gave up on is left to the channel's end.  *)
NoLeakedSubscription ==
    \A s \in entries :
        \/ \E k \in PoolKeys : poolTable[k] # None /\ entryId[poolTable[k]] = s.id
        \/ \E a \in answers : a.id = s.id
        \/ \E q \in requests : q.op = "unsubscribe" /\ q.id = s.id
        \/ \E e \in expired : watchKeyOf[e] = <<s.path, s.recursive>>

(* Nothing is said to a dead connection: once the client is forgotten no   *)
(* release and no late answer sends an unsubscribe.                        *)
SilentAfterForget == forgotten => requests = {}

(* Both ends of a watch agree on who still needs it: the pool's counts and *)
(* the helper's entries, and the entries and what its OS watcher watches.  *)
PoolIsSound ==
    /\ CountsAreRight /\ NoLeakedSubscription /\ SilentAfterForget
    /\ WatchedIffSubscribed /\ NoDuplicates

(* When every effect has gone the remote ends up watching nothing for      *)
(* them, whatever order requests and answers took.                         *)
WatchingEnds ==
    [](\A u \in Watchers : watcher[u] = "gone")
        ~> (expired # {} \/ entries = {})

(* The doc of the pool: a remount joins the same entry rather than         *)
(* subscribing again, so what a mounted panel holds is watched.            *)
HeldIsWatched ==
    \A u \in Watchers :
        (/\ watcher[u] = "holding"
         /\ ~forgotten
         /\ poolTable[watchKeyOf[u]] = entryOf[u]
         /\ entryId[entryOf[u]] # 0)
        => ById(entryId[entryOf[u]]) # {}
=============================================================================
