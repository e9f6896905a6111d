--------------------------- MODULE SessionManager ---------------------------
(***************************************************************************)
(* The backend's terminal sessions (src-tauri/src/attach.rs): one `ssh     *)
(* -tt` in a local PTY per attach, one mutex over the map of all of them,  *)
(* and per session a pump thread that streams the output and reaps.  An    *)
(* element of Commands is one attach_write, attach_resize or attach_close, *)
(* each on a thread of its own.  The window size lives in the PTY and is   *)
(* left out; a chunk of input or output stands for the bytes.              *)
(***************************************************************************)
EXTENDS Naturals, FiniteSets, Absent

CONSTANTS Opens, Commands,
          PtyCap,     \* chunks of input the PTY holds before a write blocks
          MaxUnread   \* chunks of output not yet read, a bound of the model

ASSUME SessionAssumption ==
    /\ Opens \cap Commands = {}
    /\ None \notin Opens \cup Commands
    /\ PtyCap \in Nat \ {0}
    /\ MaxUnread \in Nat \ {0}

VARIABLES
    lock,      \* who keeps SessionManager::sessions locked while it blocks
    table,     \* the ids in the map
    opener,    \* opener[o]: where attach_open is
    child,     \* child[o]: the ssh process
    pump,      \* pump[o]: where the session's thread is
    deaf,      \* the sessions whose on_event.send fails
    input,     \* input[o]: chunks written and not read by ssh
    output,    \* output[o]: chunks ssh wrote and the pump has not read
    events,    \* events[o]: which of "error" and "exit" were sent
    command,   \* command[c]: where the command's thread is
    what,      \* what[c]: the command
    on         \* on[c]: the session it names

sessionVars == <<table, opener, child, pump, deaf, input, output, events>>
commandVars == <<command, what, on>>
managerVars == <<lock, sessionVars, commandVars>>

SessionTypeOK ==
    /\ lock \in Opens \cup Commands \cup {None}
    /\ table \in SUBSET Opens
    /\ opener \in [Opens -> {"idle", "spawned", "returned"}]
    /\ child \in [Opens -> {"none", "alive", "exited"}]
    /\ pump \in [Opens -> {"none", "reading", "reaping", "waiting", "done"}]
    /\ deaf \in SUBSET Opens
    /\ input \in [Opens -> 0 .. PtyCap]
    /\ output \in [Opens -> 0 .. MaxUnread]
    /\ events \in [Opens -> SUBSET {"error", "exit"}]
    /\ command \in [Commands -> {"idle", "called", "writing", "done"}]
    /\ what \in [Commands -> {"write", "resize", "close", None}]
    /\ on \in [Commands -> Opens \cup {None}]

SessionInit ==
    /\ lock = None
    /\ table = {}
    /\ opener = [o \in Opens |-> "idle"]
    /\ child = [o \in Opens |-> "none"]
    /\ pump = [o \in Opens |-> "none"]
    /\ deaf = {}
    /\ input = [o \in Opens |-> 0]
    /\ output = [o \in Opens |-> 0]
    /\ events = [o \in Opens |-> {}]
    /\ command = [c \in Commands |-> "idle"]
    /\ what = [c \in Commands |-> None]
    /\ on = [c \in Commands |-> None]

-----------------------------------------------------------------------------
(* attach_open *)

\* connect and attach_stream, without the lock: from here a child runs.
OpenSpawn(o) ==
    /\ opener[o] = "idle"
    /\ opener' = [opener EXCEPT ![o] = "spawned"]
    /\ child' = [child EXCEPT ![o] = "alive"]
    /\ UNCHANGED <<lock, table, pump, deaf, input, output, events,
                   commandVars>>

\* The stream enters the map, the pump starts and the frontend has the id.
OpenInsert(o) ==
    /\ opener[o] = "spawned"
    /\ lock = None
    /\ opener' = [opener EXCEPT ![o] = "returned"]
    /\ table' = table \cup {o}
    /\ pump' = [pump EXCEPT ![o] = "reading"]
    /\ UNCHANGED <<lock, child, deaf, input, output, events, commandVars>>

-----------------------------------------------------------------------------
(* The commands *)

Call(c, w, o) ==
    /\ command[c] = "idle"
    /\ opener[o] = "returned"
    /\ command' = [command EXCEPT ![c] = "called"]
    /\ what' = [what EXCEPT ![c] = w]
    /\ on' = [on EXCEPT ![c] = o]
    /\ UNCHANGED <<lock, sessionVars>>

CommandReturns(c) ==
    /\ command' = [command EXCEPT ![c] = "done"]
    /\ UNCHANGED <<what, on>>

\* A command whose session is gone: an error, or nothing to do.
CommandMisses(c) ==
    /\ command[c] = "called"
    /\ lock = None
    /\ on[c] \notin table
    /\ CommandReturns(c)
    /\ UNCHANGED <<lock, sessionVars>>

\* write keeps the map locked from the lookup to the flush.
WriteBegins(c) ==
    /\ command[c] = "called" /\ what[c] = "write"
    /\ lock = None
    /\ on[c] \in table
    /\ lock' = c
    /\ command' = [command EXCEPT ![c] = "writing"]
    /\ UNCHANGED <<sessionVars, what, on>>

\* Mutants: the PTY takes bytes it has no room for; a write to a PTY whose
\* child is gone never ends.
WriteUnbounded(c) ==
    /\ command[c] = "writing"
    /\ input' = [input EXCEPT ![on[c]] = @ + 1]
    /\ lock' = None
    /\ CommandReturns(c)
    /\ UNCHANGED <<table, opener, child, pump, deaf, output, events>>

WriteEndsIfAlive(c) ==
    /\ command[c] = "writing"
    /\ child[on[c]] = "alive"
    /\ input[on[c]] < PtyCap
    /\ input' = [input EXCEPT ![on[c]] = @ + 1]
    /\ lock' = None
    /\ CommandReturns(c)
    /\ UNCHANGED <<table, opener, child, pump, deaf, output, events>>

\* The PTY takes the bytes when it has room, and fails or drops them when the
\* child is gone.
WriteEnds(c) ==
    LET o == on[c] IN
    /\ command[c] = "writing"
    /\ \/ child[o] = "exited" /\ UNCHANGED input
       \/ /\ child[o] = "alive"
          /\ input[o] < PtyCap
          /\ input' = [input EXCEPT ![o] = @ + 1]
    /\ lock' = None
    /\ CommandReturns(c)
    /\ UNCHANGED <<table, opener, child, pump, deaf, output, events>>

Resize(c) ==
    /\ command[c] = "called" /\ what[c] = "resize"
    /\ lock = None
    /\ on[c] \in table
    /\ CommandReturns(c)
    /\ UNCHANGED <<lock, sessionVars>>

\* The removed stream is dropped, which kills its child, under the lock.
Close(c) ==
    /\ command[c] = "called" /\ what[c] = "close"
    /\ lock = None
    /\ on[c] \in table
    /\ table' = table \ {on[c]}
    /\ child' = [child EXCEPT ![on[c]] = "exited"]
    /\ CommandReturns(c)
    /\ UNCHANGED <<lock, opener, pump, deaf, input, output, events>>

-----------------------------------------------------------------------------
(* The pump thread *)

PumpData(o) ==
    /\ pump[o] = "reading"
    /\ output[o] > 0
    /\ o \notin deaf
    /\ output' = [output EXCEPT ![o] = @ - 1]
    /\ UNCHANGED <<lock, table, opener, child, pump, deaf, input, events,
                   commandVars>>

\* Mutant: the loop asks for the child instead of the end of the stream.
PumpEndsWithChild(o) ==
    /\ pump[o] = "reading"
    /\ child[o] = "exited" \/ (output[o] > 0 /\ o \in deaf)
    /\ pump' = [pump EXCEPT ![o] = "reaping"]
    /\ UNCHANGED <<lock, table, opener, child, deaf, input, output, events,
                   commandVars>>

\* The loop ends at the stream's end, which a PTY may report as an error, or
\* at output that nobody listens to.
PumpEnds(o) ==
    /\ pump[o] = "reading"
    /\ pump' = [pump EXCEPT ![o] = "reaping"]
    /\ \/ /\ output[o] = 0 /\ child[o] = "exited"
          /\ \E e \in {{}, {"error"}} :
                events' = IF o \in deaf THEN events
                          ELSE [events EXCEPT ![o] = @ \cup e]
          /\ UNCHANGED output
       \/ /\ output[o] > 0 /\ o \in deaf
          /\ output' = [output EXCEPT ![o] = @ - 1]
          /\ UNCHANGED events
    /\ UNCHANGED <<lock, table, opener, child, deaf, input, commandVars>>

\* Mutant: the map is unlocked before the child is waited for.
PumpReapUnlocks(o) ==
    /\ pump[o] = "reaping"
    /\ lock = None
    /\ table' = table \ {o}
    /\ pump' = [pump EXCEPT ![o] = IF o \in table THEN "waiting" ELSE "done"]
    /\ UNCHANGED <<lock, opener, child, deaf, input, output, events,
                   commandVars>>

\* Under the lock: out of the map, and then a wait for the child.  A session
\* that was closed meanwhile is nobody's to report.
PumpReap(o) ==
    /\ pump[o] = "reaping"
    /\ lock = None
    /\ table' = table \ {o}
    /\ IF o \in table
       THEN lock' = o /\ pump' = [pump EXCEPT ![o] = "waiting"]
       ELSE UNCHANGED lock /\ pump' = [pump EXCEPT ![o] = "done"]
    /\ UNCHANGED <<opener, child, deaf, input, output, events, commandVars>>

\* wait returns; the exit is reported, the stream dropped, the map unlocked.
PumpExit(o) ==
    /\ pump[o] = "waiting"
    /\ child[o] = "exited"
    /\ events' = IF o \in deaf THEN events
                 ELSE [events EXCEPT ![o] = @ \cup {"exit"}]
    /\ lock' = None
    /\ pump' = [pump EXCEPT ![o] = "done"]
    /\ UNCHANGED <<table, opener, child, deaf, input, output, commandVars>>

-----------------------------------------------------------------------------
(* ssh at the other end of the PTY, and the webview *)

RemoteReads(o) ==
    /\ child[o] = "alive"
    /\ input[o] > 0
    /\ input' = [input EXCEPT ![o] = @ - 1]
    /\ UNCHANGED <<lock, table, opener, child, pump, deaf, output, events,
                   commandVars>>

RemoteWrites(o) ==
    /\ child[o] = "alive"
    /\ output[o] < MaxUnread
    /\ output' = [output EXCEPT ![o] = @ + 1]
    /\ UNCHANGED <<lock, table, opener, child, pump, deaf, input, events,
                   commandVars>>

RemoteExits(o) ==
    /\ child[o] = "alive"
    /\ child' = [child EXCEPT ![o] = "exited"]
    /\ UNCHANGED <<lock, table, opener, pump, deaf, input, output, events,
                   commandVars>>

WebviewGoes(o) ==
    /\ pump[o] \in {"reading", "reaping", "waiting"}
    /\ o \notin deaf
    /\ deaf' = deaf \cup {o}
    /\ UNCHANGED <<lock, table, opener, child, pump, input, output, events,
                   commandVars>>

-----------------------------------------------------------------------------
SessionNext ==
    \/ \E o \in Opens : OpenSpawn(o) \/ OpenInsert(o)
    \/ \E c \in Commands :
        \/ \E w \in {"write", "resize", "close"}, o \in Opens : Call(c, w, o)
        \/ CommandMisses(c)
        \/ WriteBegins(c)
        \/ WriteEnds(c)
        \/ Resize(c)
        \/ Close(c)
    \/ \E o \in Opens :
        \/ PumpData(o)
        \/ PumpEnds(o)
        \/ PumpReap(o)
        \/ PumpExit(o)
        \/ RemoteReads(o)
        \/ RemoteWrites(o)
        \/ RemoteExits(o)
        \/ WebviewGoes(o)

SessionSpec == SessionInit /\ [][SessionNext]_managerVars

\* Threads run when they can.  Nothing is assumed of ssh or of the webview.
SessionFairness ==
    /\ \A o \in Opens :
        /\ WF_managerVars(OpenInsert(o))
        /\ WF_managerVars(PumpData(o) \/ PumpEnds(o))
        /\ WF_managerVars(PumpReap(o))
        /\ WF_managerVars(PumpExit(o))
    /\ \A c \in Commands :
        WF_managerVars(\/ CommandMisses(c) \/ WriteBegins(c) \/ WriteEnds(c)
                \/ Resize(c) \/ Close(c))

SessionFairSpec == SessionSpec /\ SessionFairness

-----------------------------------------------------------------------------
(* Every ssh child that runs belongs to someone who will end it or wait    *)
(* for it: the open that spawned it, the map, or the pump that reaps it.   *)
ChildHasAnOwner ==
    \A o \in Opens :
        child[o] = "alive" =>
            opener[o] = "spawned" \/ o \in table \/ pump[o] = "waiting"

(* When attach_close returns, the session's ssh no longer runs, even if    *)
(* its pump took the session out of the map first.                         *)
ClosedIsDead ==
    \A c \in Commands :
        (command[c] = "done" /\ what[c] = "close") => child[on[c]] = "exited"

(* An exit is reported after the last byte of output and of a session     *)
(* that has left the map: nothing can still be written to it.              *)
ExitIsTheLastWord ==
    \A o \in Opens :
        "exit" \in events[o] =>
            output[o] = 0 /\ child[o] = "exited" /\ o \notin table

\* What each thread's place says about its session, and who has the lock.
OpensAreOrdered ==
    \A o \in Opens :
        /\ opener[o] = "idle" <=> child[o] = "none"
        /\ opener[o] = "returned" <=> pump[o] # "none"
        /\ o \in table => pump[o] \in {"reading", "reaping"}
        /\ "exit" \in events[o] => pump[o] = "done"

LockIsHeld ==
    /\ \A o \in Opens : lock = o <=> pump[o] = "waiting"
    /\ \A c \in Commands :
        /\ lock = c <=> command[c] = "writing"
        /\ command[c] = "writing" => on[c] \in table /\ what[c] = "write"

CommandsNameSessions ==
    \A c \in Commands :
        command[c] # "idle" => on[c] \in Opens /\ opener[on[c]] = "returned"

\* A pump leaves its loop at the end of the output, or deaf.
ReapedIsDrained ==
    \A o \in Opens :
        pump[o] \in {"reaping", "waiting"} =>
            o \in deaf \/ (output[o] = 0 /\ child[o] = "exited")

SessionInvariant ==
    /\ SessionTypeOK
    /\ OpensAreOrdered
    /\ LockIsHeld
    /\ CommandsNameSessions
    /\ ReapedIsDrained
    /\ ChildHasAnOwner
    /\ ClosedIsDead
    /\ ExitIsTheLastWord

\* Somebody keeps the map locked until a live ssh does something.
Stuck ==
    \/ \E o \in Opens : pump[o] = "waiting" /\ child[o] = "alive"
    \/ \E c \in Commands : /\ command[c] = "writing"
                           /\ child[on[c]] = "alive"
                           /\ input[on[c]] = PtyCap

(* A command of any tab returns, and a session whose ssh is gone is        *)
(* drained, leaves the map and is reported, as long as nobody blocks on a  *)
(* live ssh with the map locked.                                           *)
SessionsSettle ==
    /\ \A c \in Commands :
          command[c] = "called" ~> (command[c] = "done" \/ Stuck)
    /\ \A o \in Opens :
          (pump[o] = "reading" /\ child[o] = "exited")
              ~> ((pump[o] = "done" /\ o \notin table) \/ Stuck)

(* The comment on the reap: dropping the removed session kills a           *)
(* straggler.  So an ssh whose session is being reaped is gone in the end. *)
StragglerDies ==
    \A o \in Opens : pump[o] = "waiting" ~> child[o] = "exited"
=============================================================================
