------------------------------- MODULE Attach -------------------------------
(***************************************************************************)
(* The terminal attach of a workspace tab (lib/use-attach.ts): the lease,  *)
(* with the tab's key, and on top of it the channel the backend sends the  *)
(* PTY's events to, the queue of input typed before the session answered,  *)
(* and the terminal's size.  A user of the lease is one mount of the hook; *)
(* a channel object is named by the mount that built it and a session by   *)
(* the slot that opened it.                                                *)
(***************************************************************************)
EXTENDS Lease, Sequences

CONSTANTS Sizes,     \* the sizes a terminal may report
          MaxTyped   \* keystrokes per mount, a bound of the model

ASSUME AttachAssumption ==
    /\ MaxTyped \in Nat
    /\ None \notin Sizes

VARIABLES
    channels,    \* channels[k]: the module map, the channel of key k or None
    chan,        \* chan[u]: the channel the mount captured
    bound,       \* bound[c]: the mount whose handler is c.onmessage
    given,       \* given[s]: the channel attach_open of session s was called with
    id,          \* id[u]: the session the mount knows, or None
    typed,       \* typed[u]: keystrokes so far, numbered in order; a history
    typedAhead,  \* typedAhead[u]: keystrokes queued until the session is known
    sentKeys,    \* sentKeys[u]: keystrokes handed to attach_write; a history
    size,        \* size[u]: the last size reported; queued while id is None
    told         \* told[s]: the size attach_resize last gave the session

channelVars == <<channels, chan, bound, given>>
inputVars == <<id, typed, typedAhead, sentKeys, size, told>>
attachVars == <<leaseVars, channelVars, inputVars>>

AttachTypeOK ==
    /\ LeaseTypeOK
    /\ channels \in [Keys -> Users \cup {None}]
    /\ chan \in [Users -> Users \cup {None}]
    /\ bound \in [Users -> Users \cup {None}]
    /\ given \in [Users -> Users \cup {None}]
    /\ id \in [Users -> Users \cup {None}]
    /\ typed \in [Users -> 0 .. MaxTyped]
    /\ typedAhead \in [Users -> Seq(1 .. MaxTyped)]
    /\ sentKeys \in [Users -> Seq(1 .. MaxTyped)]
    /\ size \in [Users -> Sizes \cup {None}]
    /\ told \in [Users -> Sizes \cup {None}]

AttachInit ==
    /\ LeaseInit
    /\ channels = [k \in Keys |-> None]
    /\ chan = [u \in Users |-> None]
    /\ bound = [u \in Users |-> None]
    /\ given = [u \in Users |-> None]
    /\ id = [u \in Users |-> None]
    /\ typed = [u \in Users |-> 0]
    /\ typedAhead = [u \in Users |-> <<>>]
    /\ sentKeys = [u \in Users |-> <<>>]
    /\ size = [u \in Users |-> None]
    /\ told = [u \in Users |-> None]

-----------------------------------------------------------------------------
\* The tab calls the hook once, so a key has at most one mount at a time.
FirstOfItsTab(k) ==
    \A v \in Users : user[v] = "mounted" => keyOf[v] # k

\* Mutant: one module-level channel instead of one per key.
OneChannel(u, k) ==
    IF \E j \in Keys : channels[j] # None
    THEN channels[CHOOSE j \in Keys : channels[j] # None]
    ELSE u

ChannelFor(u, k) == IF channels[k] = None THEN u ELSE channels[k]

\* createAttach: find or build the channel, take over its handler, acquire.
AttachMount(u, k) ==
    LET c == ChannelFor(u, k) IN
    /\ FirstOfItsTab(k)
    /\ channels' = [channels EXCEPT ![k] = c]
    /\ chan' = [chan EXCEPT ![u] = c]
    /\ bound' = [bound EXCEPT ![c] = u]
    /\ \/ AcquireJoins(u, k) /\ UNCHANGED given
       \/ AcquireOpens(u, k) /\ given' = [given EXCEPT ![u] = c]
    /\ UNCHANGED inputVars

\* Mutants: the queue is flushed and kept; the queued size is not sent.
AttachOpenedKeepsQueue(u) ==
    LET s == joined[u] IN
    /\ user[u] = "mounted"
    /\ id[u] = None
    /\ opening[s] = "open"
    /\ id' = [id EXCEPT ![u] = s]
    /\ sentKeys' = [sentKeys EXCEPT ![u] = @ \o typedAhead[u]]
    /\ \E live \in Sizes \cup {None} :
        LET z == IF size[u] = None THEN live ELSE size[u] IN
        told' = IF z = None THEN told ELSE [told EXCEPT ![s] = z]
    /\ UNCHANGED <<leaseVars, channelVars, typed, typedAhead, size>>

AttachOpenedForgetsSize(u) ==
    /\ user[u] = "mounted"
    /\ id[u] = None
    /\ opening[joined[u]] = "open"
    /\ id' = [id EXCEPT ![u] = joined[u]]
    /\ sentKeys' = [sentKeys EXCEPT ![u] = @ \o typedAhead[u]]
    /\ typedAhead' = [typedAhead EXCEPT ![u] = <<>>]
    /\ UNCHANGED <<leaseVars, channelVars, typed, size, told>>

\* The acquire's promise resolves in a mount that is still there: the queue is
\* flushed, then the session learns the size, the queued or the live one.
AttachOpened(u) ==
    LET s == joined[u] IN
    /\ user[u] = "mounted"
    /\ id[u] = None
    /\ opening[s] = "open"
    /\ id' = [id EXCEPT ![u] = s]
    /\ sentKeys' = [sentKeys EXCEPT ![u] = @ \o typedAhead[u]]
    /\ typedAhead' = [typedAhead EXCEPT ![u] = <<>>]
    /\ \E live \in Sizes \cup {None} :
        LET z == IF size[u] = None THEN live ELSE size[u] IN
        told' = IF z = None THEN told ELSE [told EXCEPT ![s] = z]
    /\ UNCHANGED <<leaseVars, channelVars, typed, size>>

Write(u) ==
    /\ user[u] = "mounted"
    /\ typed[u] < MaxTyped
    /\ typed' = [typed EXCEPT ![u] = @ + 1]
    /\ IF id[u] = None
       THEN /\ typedAhead' = [typedAhead EXCEPT ![u] = Append(@, typed'[u])]
            /\ UNCHANGED sentKeys
       ELSE /\ sentKeys' = [sentKeys EXCEPT ![u] = Append(@, typed'[u])]
            /\ UNCHANGED typedAhead
    /\ UNCHANGED <<leaseVars, channelVars, id, size, told>>

TerminalResize(u, z) ==
    /\ user[u] = "mounted"
    /\ size' = [size EXCEPT ![u] = z]
    /\ told' = IF id[u] = None THEN told ELSE [told EXCEPT ![id[u]] = z]
    /\ UNCHANGED <<leaseVars, channelVars, id, typed, typedAhead, sentKeys>>

\* The mount lets go of its key; the histories of its input end with it.
Dispose(u) ==
    /\ Release(u)
    /\ typed' = [typed EXCEPT ![u] = 0]
    /\ sentKeys' = [sentKeys EXCEPT ![u] = <<>>]
    /\ UNCHANGED <<channelVars, id, typedAhead, size, told>>

AttachTick(s) == Tick(s) /\ UNCHANGED <<channelVars, inputVars>>

AttachSettle(s, outcome) ==
    Settle(s, outcome) /\ UNCHANGED <<channelVars, inputVars>>

\* The lease's close: the key's channel is forgotten, the PTY hung up.
ClosePty(s) ==
    /\ CloseRuns(s)
    /\ channels' = [channels EXCEPT ![keyOf[s]] = None]
    /\ UNCHANGED <<chan, bound, given, inputVars>>

AttachNext ==
    \/ \E u \in Users, k \in Keys : AttachMount(u, k)
    \/ \E u \in Users :
        \/ AttachOpened(u)
        \/ Write(u)
        \/ \E z \in Sizes : TerminalResize(u, z)
        \/ Dispose(u)
        \/ AttachTick(u)
        \/ AttachSettle(u, "open")
        \/ AttachSettle(u, "failed")
        \/ ClosePty(u)

AttachSpec == AttachInit /\ [][AttachNext]_attachVars

-----------------------------------------------------------------------------
\* What the backend sends for session s reaches this mount, if it is mounted.
Listener(s) == bound[given[s]]

Running(s) == opening[s] = "open" /\ closes[s] = 0

Hears(u) == Running(joined[u]) /\ Listener(joined[u]) = u

(* Bytes never cross tabs: whichever mounts, closes and reopens have come  *)
(* and gone, the handler a running session feeds belongs to its own key.   *)
EventsStayInTheTab ==
    \A s \in Users : Running(s) => keyOf[Listener(s)] = keyOf[s]

(* A terminal that receives its session's output receives it until it is   *)
(* unmounted: nobody takes its handler away.                               *)
HearingLasts ==
    [][\A u \in Users :
        (user[u] = "mounted" /\ Hears(u) /\ user'[u] = "mounted")
            => Hears(u)']_attachVars

(* Input is neither lost, doubled nor reordered on its way through the     *)
(* queue: what was sent, then what is queued, is what was typed.           *)
InputInOrder ==
    \A u \in Users :
        user[u] = "mounted" =>
            sentKeys[u] \o typedAhead[u] = [i \in 1 .. typed[u] |-> i]

(* A session the mount knows has been told the last size it reported.      *)
SessionKnowsTheSize ==
    \A u \in Users :
        (user[u] = "mounted" /\ id[u] # None /\ size[u] # None)
            => told[id[u]] = size[u]

(* Invariant 2 of the module doc: a remount finds the channel its attach   *)
(* was opened with, so a mounted terminal with a running session hears it. *)
MountedTerminalHears ==
    \A u \in Users :
        (user[u] = "mounted" /\ Running(joined[u])) => Hears(u)
=============================================================================
