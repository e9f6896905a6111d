------------------------- MODULE SubscriptionTable -------------------------
(***************************************************************************)
(* The remote helper's table of watch subscriptions (the Inner and the OS  *)
(* watcher of faragent-helper's watch.rs).  The session handles one        *)
(* request at a time, so subscribe and unsubscribe are single steps.       *)
(***************************************************************************)
EXTENDS Naturals

CONSTANTS Paths,   \* the directories a client may watch
          MaxIds   \* subscriptions per session, a bound of the model

ASSUME TableAssumption == MaxIds \in Nat

VARIABLES
    entries,   \* Inner::entries
    nextId,    \* Inner::next_id
    watched    \* the paths registered with the OS watcher

tableVars == <<entries, nextId, watched>>

Entry == [id : Nat \ {0}, path : Paths, recursive : BOOLEAN]

TableTypeOK ==
    /\ entries \in SUBSET Entry
    /\ nextId \in Nat \ {0}
    /\ watched \in SUBSET Paths

TableInit ==
    /\ entries = {}
    /\ nextId = 1
    /\ watched = {}

Found(p, r) == {e \in entries : e.path = p /\ e.recursive = r}

\* A repeated subscribe returns the existing id and watches nothing more.
SubscribeAgain(p, r, id) ==
    /\ \E e \in Found(p, r) : id = e.id
    /\ UNCHANGED tableVars

SubscribeNew(p, r, id) ==
    /\ Found(p, r) = {}
    /\ nextId <= MaxIds
    /\ id = nextId
    /\ watched' = watched \cup {p}
    /\ entries' = entries \cup {[id |-> id, path |-> p, recursive |-> r]}
    /\ nextId' = nextId + 1

Subscribe(p, r, id) == SubscribeAgain(p, r, id) \/ SubscribeNew(p, r, id)

\* Drop what matches; stop watching the paths that no survivor names.
Unsubscribe(gone) ==
    LET survivors == entries \ gone
        orphans == {e.path : e \in gone} \ {e.path : e \in survivors}
    IN  /\ entries' = survivors
        /\ watched' = watched \ orphans
        /\ UNCHANGED nextId

ById(id) == {e \in entries : e.id = id}
ByPath(p) == {e \in entries : e.path = p}

TableNext ==
    \/ \E p \in Paths, r \in BOOLEAN, id \in 1 .. MaxIds : Subscribe(p, r, id)
    \/ \E id \in 1 .. MaxIds : Unsubscribe(ById(id))
    \/ \E p \in Paths : Unsubscribe(ByPath(p))
    \/ \E id \in 1 .. MaxIds, p \in Paths : Unsubscribe(ById(id) \cup ByPath(p))

TableSpec == TableInit /\ [][TableNext]_tableVars

-----------------------------------------------------------------------------
(* The OS watches a directory exactly as long as a subscription names it,  *)
(* though one directory can be subscribed recursively and not.             *)
WatchedIffSubscribed == watched = {e.path : e \in entries}

(* Subscribing is idempotent: no watch is entered twice, no id stands for  *)
(* two subscriptions.                                                      *)
NoDuplicates ==
    \A d, e \in entries :
        (d.id = e.id \/ (d.path = e.path /\ d.recursive = e.recursive))
            => d = e

(* An id that has been dropped never comes back: a late unsubscribe of it  *)
(* cannot hit a newer subscription.                                        *)
IdsAreNotReused ==
    [][\A e \in entries' : e \in entries \/ e.id >= nextId]_tableVars

\* Ids are minted upwards, so what is in the table lies below the next one.
IdsAreMinted == \A e \in entries : e.id < nextId

TableInvariant ==
    /\ TableTypeOK
    /\ IdsAreMinted
    /\ NoDuplicates
    /\ WatchedIffSubscribed
=============================================================================
