--------------------------- MODULE RemoteSessions ---------------------------
(***************************************************************************)
(* Agent sessions on one remote host: listing them (faragent-remote        *)
(* list_script, parse_list; faragent-service merge_sessions), and starting *)
(* or resuming one (ensure_tmux_session, start_script; ensure_win_session).*)
(* A client is the TUI or the app. A conversation is the id of an agent's  *)
(* transcript. On POSIX an agent runs in a tmux session named after an id; *)
(* on Windows it runs in the foreground and shows in a process scan.       *)
(***************************************************************************)
EXTENDS Naturals, FiniteSets, Absent

CONSTANTS
    Clients,
    Ids,        \* session ids: minted by the client, or by an agent's CLI
    Old        \* the ids of the conversations there are to begin with

VARIABLES
    os,         \* the dialect: "posix" or "windows"
    pinnable,   \* does the CLI know --session-id?
    dir,        \* does the working directory exist?
    minted,     \* ids given out
    disk,       \* conversations with a transcript file
    agents,     \* running agents
    client,     \* client[c]: where it stands
    rows,       \* rows[c]: the list it shows
    seen,       \* seen[c]: the names or processes its listing has read so far
    wants,      \* wants[c]: what it opens
    started     \* started[c]: what its last start answered

clientVars == <<client, rows, seen, wants, started>>
remoteSessionVars == <<os, pinnable, dir, minted, disk, agents, clientVars>>

\* tmux_name, legacy_tmux_name: a prefix, the agent, and the tail of an id,
\* which is taken to tell ids apart
Name(id) == [legacy |-> FALSE, of |-> id]
LegacyName(id) == [legacy |-> TRUE, of |-> id]
Names == [legacy : BOOLEAN, of : Ids]
\* name: its tmux session; arg: the id on its command line; conv: its conversation
Agents == [name : Names \cup {None}, arg : Ids \cup {None}, conv : Ids \cup {None}]
Rows == [id : Ids \cup {None}, live : BOOLEAN, running : BOOLEAN, tmux : Names \cup {None},
         transcript : BOOLEAN]
\* id: the one to resume, or the one minted for a new session
Wants == [id : Ids, resume : BOOLEAN, create : BOOLEAN]
Started == [is : {"ok", "err", "cwd_missing"}, name : Names \cup {None}, pinned : Ids \cup {None}]

ASSUME SessionsAssumption ==
    Old \subseteq Ids /\ None \notin Ids \cup Names \cup Wants \cup Started

RemoteSessionsTypeOK ==
    /\ os \in {"posix", "windows"} /\ pinnable \in BOOLEAN /\ dir \in BOOLEAN
    /\ minted \subseteq Ids /\ disk \subseteq Ids /\ agents \subseteq Agents
    /\ client \in [Clients -> {"idle", "listing", "start", "has", "legacy", "new", "launch"}]
    /\ rows \in [Clients -> SUBSET Rows]
    /\ seen \in [Clients -> SUBSET Agents]
    /\ wants \in [Clients -> Wants \cup {None}]
    /\ started \in [Clients -> Started \cup {None}]

RemoteSessionsInit ==
    /\ os \in {"posix", "windows"} /\ pinnable \in BOOLEAN /\ dir \in BOOLEAN
    /\ minted = Old /\ disk = Old
    /\ agents \in {{}} \cup {{[name |-> LegacyName(id), arg |-> id, conv |-> id]} : id \in Old}
    /\ os = "windows" => agents = {}
    /\ client = [c \in Clients |-> "idle"]
    /\ rows = [c \in Clients |-> {}]
    /\ seen = [c \in Clients |-> {}]
    /\ wants = [c \in Clients |-> None]
    /\ started = [c \in Clients |-> None]

Pane(name) == {a \in agents : a.name = name}
Steps(c, to) == client' = [client EXCEPT ![c] = to]

-----------------------------------------------------------------------------
(* Listing                                                                 *)

\* row_from_file and the tmux half of merge_sessions
FileRow(id, names) ==
    LET tmux == IF Name(id) \in names THEN Name(id)
                ELSE IF LegacyName(id) \in names THEN LegacyName(id) ELSE None
    IN [id |-> id, live |-> tmux # None, running |-> FALSE,
        tmux |-> IF tmux = None THEN Name(id) ELSE tmux, transcript |-> TRUE]
LiveRow(name) ==
    [id |-> name.of, live |-> TRUE, running |-> FALSE, tmux |-> name, transcript |-> FALSE]
\* ... and its process half: a process whose id matches no row gets one of its own
RunningRow(id) ==
    [id |-> id, live |-> FALSE, running |-> TRUE, tmux |-> None, transcript |-> FALSE]

MergeSessions(files, names, procs) ==
    LET fileRows == {FileRow(id, names) : id \in files}
        shown == {r.tmux : r \in {x \in fileRows : x.live}}
    IN {[r EXCEPT !.running = r.id \in procs] : r \in fileRows}
       \cup {LiveRow(name) : name \in names \ shown}
       \cup {RunningRow(id) : id \in procs \ files}

\* The script prints the tmux sessions first (the processes last, on Windows)
ListTmux(c) ==
    /\ client[c] = "idle"
    /\ Steps(c, "listing")
    /\ seen' = [seen EXCEPT ![c] = agents]
    /\ UNCHANGED <<os, pinnable, dir, minted, disk, agents, rows, wants, started>>

ListFiles(c) ==
    /\ client[c] = "listing"
    /\ Steps(c, "idle")
    /\ seen' = [seen EXCEPT ![c] = {}]
    /\ rows' = [rows EXCEPT ![c] =
           IF os = "posix" THEN MergeSessions(disk, {a.name : a \in seen[c]}, {})
                           ELSE MergeSessions(disk, {}, {a.arg : a \in agents})]
    /\ UNCHANGED <<os, pinnable, dir, minted, disk, agents, wants, started>>

-----------------------------------------------------------------------------
(* Opening: a row of the list, or a new session                            *)

OpensSession(c, want) ==
    /\ wants' = [wants EXCEPT ![c] = want]
    /\ started' = [started EXCEPT ![c] = None]
    /\ Steps(c, "start")

\* A live row is attached to, never resumed; a running one is asked about
\* first, and the answer is yes
OpenRow(c) ==
    /\ client[c] = "idle"
    /\ \E row \in rows[c] : /\ ~row.live /\ row.id # None
                            /\ OpensSession(c, [id |-> row.id, resume |-> TRUE, create |-> FALSE])
    /\ UNCHANGED <<os, pinnable, dir, minted, disk, agents, rows, seen>>

\* agents::new_session_id
OpenNew(c) ==
    /\ client[c] = "idle"
    /\ \E id \in Ids \ minted : /\ OpensSession(c, [id |-> id, resume |-> FALSE, create |-> FALSE])
                                /\ minted' = minted \cup {id}
    /\ UNCHANGED <<os, pinnable, dir, disk, agents, rows, seen>>

\* "create the missing directory?", and yes
ConfirmDir(c) ==
    /\ client[c] = "idle" /\ started[c] # None /\ started[c].is = "cwd_missing"
    /\ OpensSession(c, [wants[c] EXCEPT !.create = TRUE])
    /\ UNCHANGED <<os, pinnable, dir, minted, disk, agents, rows, seen>>

-----------------------------------------------------------------------------
(* start_script and win::start_script, on the remote                       *)

Ends(c, is, name, pinned) ==
    /\ started' = [started EXCEPT ![c] = [is |-> is, name |-> name, pinned |-> pinned]]
    /\ Steps(c, "idle")

\* tmux_missing, agent_missing, mkdir_failed; the connection may also fail
StartFails(c) ==
    /\ client[c] \in {"start", "has", "legacy", "new"}
    /\ Ends(c, "err", None, None)
    /\ UNCHANGED <<os, pinnable, dir, minted, disk, agents, rows, seen, wants>>

\* cwd_block
StartDir(c) ==
    /\ client[c] = "start"
    /\ IF dir \/ wants[c].create
       THEN /\ dir' = TRUE
            /\ Steps(c, IF os = "posix" THEN "has" ELSE "launch")
            /\ UNCHANGED started
       ELSE Ends(c, "cwd_missing", None, None) /\ UNCHANGED dir
    /\ UNCHANGED <<os, pinnable, minted, disk, agents, rows, seen, wants>>

\* Launch: a resume names its conversation; a new session does when the CLI's
\* own --help knows the flag (pin_block)
Mutant_PinAsHoped(c) == wants[c].id
Pin(c) == IF wants[c].resume \/ pinnable THEN wants[c].id ELSE None

StartHas(c) ==
    /\ client[c] = "has"
    /\ IF Pane(Name(wants[c].id)) # {}
       THEN Ends(c, "ok", Name(wants[c].id), Pin(c))
       ELSE Steps(c, "legacy") /\ UNCHANGED started
    /\ UNCHANGED <<os, pinnable, dir, minted, disk, agents, rows, seen, wants>>

StartHasLegacy(c) ==
    /\ client[c] = "legacy"
    /\ IF Pane(LegacyName(wants[c].id)) # {}
       THEN Ends(c, "ok", LegacyName(wants[c].id), Pin(c))
       ELSE Steps(c, "new") /\ UNCHANGED started
    /\ UNCHANGED <<os, pinnable, dir, minted, disk, agents, rows, seen, wants>>

Launched(c, name) ==
    LET told == IF wants[c].resume \/ (pinnable /\ os = "posix") THEN wants[c].id ELSE None
    IN [name |-> name, arg |-> told, conv |-> told]

\* tmux new-session refuses a name that exists by now (tmux_new_failed)
Mutant_StartUnderAnyName(c) ==
    /\ client[c] = "new"
    /\ LET name == IF Pane(Name(wants[c].id)) = {} THEN Name(wants[c].id) ELSE None
       IN /\ agents' = agents \cup {Launched(c, name)}
          /\ Ends(c, "ok", name, Pin(c))
    /\ UNCHANGED <<os, pinnable, dir, minted, disk, rows, seen, wants>>
StartNew(c) ==
    /\ client[c] = "new"
    /\ IF Pane(Name(wants[c].id)) = {}
       THEN /\ agents' = agents \cup {Launched(c, Name(wants[c].id))}
            /\ Ends(c, "ok", Name(wants[c].id), Pin(c))
       ELSE Ends(c, "err", None, None) /\ UNCHANGED agents
    /\ UNCHANGED <<os, pinnable, dir, minted, disk, rows, seen, wants>>

\* ensure_win_session, and the foreground launch that follows it
WinLaunch(c) ==
    /\ client[c] = "launch"
    /\ agents' = agents \cup {Launched(c, None)}
    /\ Ends(c, "ok", None, IF wants[c].resume THEN wants[c].id ELSE None)
    /\ UNCHANGED <<os, pinnable, dir, minted, disk, rows, seen, wants>>

-----------------------------------------------------------------------------
(* The agents: one that was not told an id mints its own; a transcript is  *)
(* written with the first record                                           *)
AgentWrites(a) ==
    /\ IF a.conv # None
       THEN /\ a.conv \notin disk
            /\ disk' = disk \cup {a.conv}
            /\ UNCHANGED <<agents, minted>>
       ELSE \E id \in Ids \ minted :
            /\ minted' = minted \cup {id}
            /\ disk' = disk \cup {id}
            /\ agents' = (agents \ {a}) \cup {[a EXCEPT !.conv = id]}
    /\ UNCHANGED <<os, pinnable, dir, clientVars>>

AgentExits(a) ==
    /\ agents' = agents \ {a}
    /\ UNCHANGED <<os, pinnable, dir, minted, disk, clientVars>>

RemoteSessionsNext ==
    \/ \E c \in Clients : \/ ListTmux(c) \/ ListFiles(c)
                          \/ OpenRow(c) \/ OpenNew(c) \/ ConfirmDir(c)
                          \/ StartFails(c) \/ StartDir(c) \/ StartHas(c) \/ StartHasLegacy(c)
                          \/ StartNew(c) \/ WinLaunch(c)
    \/ \E a \in agents : AgentWrites(a) \/ AgentExits(a)
RemoteSessionsSpec == RemoteSessionsInit /\ [][RemoteSessionsNext]_remoteSessionVars

-----------------------------------------------------------------------------
Together(a, b) == a # b /\ a.conv = b.conv /\ a.conv # None

\* On POSIX, with a CLI that takes an id, no conversation is ever open in two
\* agents: whatever lists are out of date, however two starts interleave, and
\* with sessions left from before the rename (start_script, merge_sessions).
OneAgentPerConversation ==
    os = "posix" /\ pinnable => \A a, b \in agents : ~Together(a, b)

\* An id that a start answers with is the conversation of the session it names,
\* for as long as that runs: a transcript path made from it is the right one.
PinNamesTheConversation ==
    \A c \in Clients :
        LET s == started[c] IN
        s # None /\ s.pinned # None /\ os = "posix" =>
            \A a \in Pane(s.name) : a.conv = s.pinned
=============================================================================
