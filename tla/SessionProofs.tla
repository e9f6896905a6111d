--------------------------- MODULE SessionProofs ----------------------------
(***************************************************************************)
(* Theorems about sessions: those of agents on a host, for any clients, ids*)
(* and conversations to begin with; those of terminals, for any sets of    *)
(* opens and commands and any size of the PTY's buffers; and about the     *)
(* terminal UI that offers them, for any hosts, agents, sign-in modes and  *)
(* failures and any number of sessions listed, with its choice of a        *)
(* directory, for any tree of directories and any paths typed.             *)
(***************************************************************************)
EXTENDS RemoteSessions, SessionManager, Tui, DirPicker, SequenceTheorems, TLAPS

-----------------------------------------------------------------------------
(* The agent sessions of a host                                            *)

(* On POSIX every agent, running or listed, has a tmux session. *)
AgentsHaveNames == os = "posix" =>
    /\ \A a \in agents : a.name \in Names
    /\ \A c \in Clients : \A a \in seen[c] : a.name \in Names

(* Where a client stands, it knows what it opens. *)
ClientsKnow == \A c \in Clients :
    /\ client[c] \notin {"idle", "listing"} \/ started[c] # None => wants[c] # None
    /\ os = "posix" => client[c] # "launch"

(* Every id in use was given out. *)
IdsAreMinted ==
    /\ disk \subseteq minted
    /\ \A c \in Clients : wants[c] # None => wants[c].id \in minted
    /\ \A a \in agents : /\ a.conv # None => a.conv \in minted
                         /\ a.arg # None => a.arg \in minted
                         /\ a.name # None => a.name.of \in minted
    /\ \A c \in Clients : \A a \in seen[c] : a.name # None => a.name.of \in minted
    /\ \A c \in Clients : \A row \in rows[c] : row.id # None => row.id \in minted

(* On POSIX only what has a transcript is resumed. *)
ResumedIsOnDisk == os = "posix" =>
    /\ \A c \in Clients : \A row \in rows[c] : ~row.live => row.id \in disk
    /\ \A c \in Clients : wants[c] # None /\ wants[c].resume => wants[c].id \in disk

(* On POSIX a tmux session is named after the conversation in it, but for   *)
(* one that was started unpinned, and then no transcript has that name.     *)
NamesTell == os = "posix" =>
    /\ pinnable => \A a \in agents : a.arg = a.name.of /\ a.conv = a.name.of
    /\ ~pinnable =>
           /\ \A a \in agents : /\ a.conv # None => a.conv \in disk
                                /\ a.conv # a.name.of => a.name.of \notin disk
           /\ \A c \in Clients : wants[c] # None /\ ~wants[c].resume => wants[c].id \notin disk

(* A session from before the rename is not come back to under a new name. *)
LegacyIsFirst == os = "posix" =>
    /\ \A c \in Clients : client[c] = "new" => Pane(LegacyName(wants[c].id)) = {}
    /\ \A a, b \in agents : a.name.of = b.name.of => a.name = b.name

(* The id a start answers with is that of the session it names. *)
PinsFollowNames == os = "posix" =>
    \A c \in Clients : started[c] # None /\ started[c].pinned # None =>
        /\ started[c].name \in Names /\ started[c].name.of = started[c].pinned
        /\ pinnable \/ started[c].pinned \in disk

RemoteSessionsInvariant ==
    /\ RemoteSessionsTypeOK
    /\ AgentsHaveNames
    /\ ClientsKnow
    /\ IdsAreMinted
    /\ ResumedIsOnDisk
    /\ NamesTell
    /\ LegacyIsFirst
    /\ PinsFollowNames

-----------------------------------------------------------------------------
(* The agents there are to begin with run under their old names. *)
LEMMA RemoteSessionsStart == RemoteSessionsInit => RemoteSessionsInvariant
<1> SUFFICES ASSUME RemoteSessionsInit PROVE RemoteSessionsInvariant
    OBVIOUS
<1> USE SessionsAssumption DEF RemoteSessionsInit
<1>1. \A a \in agents : \E id \in Old : a = [name |-> LegacyName(id), arg |-> id, conv |-> id]
    OBVIOUS
<1>2. \A id \in Ids : LegacyName(id) \in Names /\ LegacyName(id).of = id
    BY DEF LegacyName, Names
<1>3. agents \subseteq Agents
    BY <1>1, <1>2 DEF Agents
<1>4. RemoteSessionsTypeOK
    BY <1>3 DEF RemoteSessionsTypeOK
<1>5. AgentsHaveNames /\ ClientsKnow /\ IdsAreMinted
    BY <1>1, <1>2 DEF AgentsHaveNames, ClientsKnow, IdsAreMinted
<1>6. ResumedIsOnDisk /\ NamesTell
    BY <1>1, <1>2 DEF ResumedIsOnDisk, NamesTell
<1>7. LegacyIsFirst /\ PinsFollowNames
    <2>1. \A a, b \in agents : a.name.of = b.name.of => a.name = b.name
        BY <1>1, <1>2
    <2> QED
        BY <2>1 DEF LegacyIsFirst, PinsFollowNames
<1> QED
    BY <1>4, <1>5, <1>6, <1>7 DEF RemoteSessionsInvariant

-----------------------------------------------------------------------------
(* The rows of a merge are rows; those that are not live have a transcript, *)
(* unless they were found in a scan of processes.                           *)
LEMMA MergedRows ==
    ASSUME NEW files \in SUBSET Ids, NEW names \in SUBSET Names,
           NEW procs \in SUBSET (Ids \cup {None})
    PROVE  /\ MergeSessions(files, names, procs) \in SUBSET Rows
           /\ \A row \in MergeSessions(files, names, procs) :
                  /\ row.id \in files \cup {name.of : name \in names} \cup procs
                  /\ procs = {} /\ ~row.live => row.id \in files
<1>1. ASSUME NEW id \in files
      PROVE  FileRow(id, names) \in Rows /\ FileRow(id, names).id = id
    <2>1. Name(id) \in Names /\ LegacyName(id) \in Names
        BY DEF Name, LegacyName, Names
    <2> HIDE DEF Name, LegacyName
    <2> QED
        BY <2>1 DEF FileRow, Rows
<1>2. ASSUME NEW id \in files, NEW b \in BOOLEAN
      PROVE  /\ [FileRow(id, names) EXCEPT !.running = b] \in Rows
             /\ [FileRow(id, names) EXCEPT !.running = b].id = id
    BY <1>1 DEF Rows
<1>3. \A name \in names : /\ LiveRow(name) \in Rows /\ LiveRow(name).live
                           /\ LiveRow(name).id = name.of
    BY DEF LiveRow, Rows, Names
<1>4. \A id \in procs : RunningRow(id) \in Rows /\ RunningRow(id).id = id
    BY DEF RunningRow, Rows
<1>5. ASSUME NEW row \in MergeSessions(files, names, procs)
      PROVE  \/ \E id \in files, b \in BOOLEAN : row = [FileRow(id, names) EXCEPT !.running = b]
             \/ \E name \in names : row = LiveRow(name)
             \/ \E id \in procs : row = RunningRow(id)
    <2> DEFINE fileRows == {FileRow(id, names) : id \in files}
    <2>1. CASE row \in {[r EXCEPT !.running = r.id \in procs] : r \in fileRows}
        <3>1. PICK r \in fileRows : row = [r EXCEPT !.running = r.id \in procs]
            BY <2>1
        <3>2. PICK id \in files : r = FileRow(id, names)
            BY <3>1
        <3>3. (r.id \in procs) \in BOOLEAN
            OBVIOUS
        <3> QED
            BY <3>1, <3>2, <3>3
    <2> QED
        BY <1>5, <2>1 DEF MergeSessions
<1>6. ASSUME NEW row \in MergeSessions(files, names, procs)
      PROVE  /\ row \in Rows
             /\ row.id \in files \cup {name.of : name \in names} \cup procs
             /\ procs = {} /\ ~row.live => row.id \in files
    <2>1. ASSUME NEW id \in files, NEW b \in BOOLEAN,
                 row = [FileRow(id, names) EXCEPT !.running = b]
          PROVE  row \in Rows /\ row.id \in files
        BY <1>2, <2>1
    <2>2. CASE \E name \in names : row = LiveRow(name)
        BY <1>3, <2>2
    <2>3. CASE \E id \in procs : row = RunningRow(id)
        BY <1>4, <2>3
    <2> QED
        BY <1>5, <2>1, <2>2, <2>3
<1> QED
    BY <1>6

(* The session a start makes. *)
LEMMA LaunchedFields ==
    ASSUME RemoteSessionsTypeOK, NEW c \in Clients, wants[c] # None,
           NEW name \in Names \cup {None}
    PROVE  /\ Launched(c, name) \in Agents
           /\ Launched(c, name).name = name
           /\ Launched(c, name).conv = Launched(c, name).arg
           /\ Launched(c, name).conv \in {wants[c].id, None}
           /\ wants[c].resume \/ (pinnable /\ os = "posix") => Launched(c, name).conv = wants[c].id
           /\ ~wants[c].resume /\ ~pinnable => Launched(c, name).conv = None
BY DEF RemoteSessionsTypeOK, Launched, Agents, Wants

(* The id a start answers with is the one it was asked for, if any. *)
LEMMA PinType ==
    ASSUME RemoteSessionsTypeOK, NEW c \in Clients, wants[c] # None
    PROVE  /\ Pin(c) \in Ids \cup {None}
           /\ Pin(c) # None => Pin(c) = wants[c].id
           /\ Pin(c) # None => wants[c].resume \/ pinnable
BY SessionsAssumption DEF RemoteSessionsTypeOK, Pin, Wants

-----------------------------------------------------------------------------
(* The kinds of steps a client takes.                                       *)

Opening(c, want) ==
    /\ want \in Wants /\ OpensSession(c, want)
    /\ minted \subseteq minted' /\ minted' \subseteq Ids /\ want.id \in minted'
    /\ os = "posix" /\ want.resume => want.id \in disk
    /\ os = "posix" /\ ~pinnable /\ ~want.resume => want.id \notin disk
    /\ UNCHANGED <<os, pinnable, dir, disk, agents, rows, seen>>

Moving(c, to) ==
    /\ wants[c] # None /\ to \in {"has", "legacy", "new", "launch"} /\ dir' \in BOOLEAN
    /\ os = "posix" => to # "launch"
    /\ to = "new" => \A a \in agents : a.name # LegacyName(wants[c].id)
    /\ Steps(c, to)
    /\ UNCHANGED <<os, pinnable, minted, disk, agents, rows, seen, wants, started>>

Answering(c, s) ==
    /\ wants[c] # None /\ s \in Started /\ started' = [started EXCEPT ![c] = s]
    /\ os = "posix" /\ s.pinned # None =>
           /\ s.pinned = wants[c].id /\ s.name \in Names /\ s.name.of = s.pinned
           /\ wants[c].resume \/ pinnable
    /\ Steps(c, "idle")
    /\ UNCHANGED <<os, pinnable, dir, minted, disk, rows, seen, wants>>

Launching(c, name) ==
    /\ wants[c] # None /\ name \in {Name(wants[c].id), None}
    /\ agents' = agents \cup {Launched(c, name)}
    /\ os = "posix" => /\ client[c] = "new" /\ name = Name(wants[c].id)
                       /\ \A a \in agents : a.name # name

(* What a client opens is on disk, when it resumes, and new otherwise. *)
LEMMA OpensAreOpening ==
    ASSUME RemoteSessionsInvariant, NEW c \in Clients,
           OpenRow(c) \/ OpenNew(c) \/ ConfirmDir(c)
    PROVE  \E want \in Wants : Opening(c, want)
<1> USE SessionsAssumption DEF Opening
<1>1. /\ RemoteSessionsTypeOK /\ ClientsKnow /\ IdsAreMinted /\ ResumedIsOnDisk /\ NamesTell
      /\ minted \subseteq Ids
    BY DEF RemoteSessionsInvariant, RemoteSessionsTypeOK
<1>2. CASE OpenRow(c)
    <2>1. PICK row \in rows[c] :
              /\ ~row.live /\ row.id # None
              /\ OpensSession(c, [id |-> row.id, resume |-> TRUE, create |-> FALSE])
        BY <1>2 DEF OpenRow
    <2>2. row \in Rows /\ row.id \in Ids
        BY <1>1, <2>1 DEF RemoteSessionsTypeOK, Rows
    <2>3. row.id \in minted
        BY <1>1, <2>1, <2>2 DEF ResumedIsOnDisk, IdsAreMinted
    <2> DEFINE want == [id |-> row.id, resume |-> TRUE, create |-> FALSE]
    <2>4. want \in Wants
        BY <2>2 DEF Wants
    <2>5. os = "posix" => row.id \in disk
        BY <1>1, <2>1 DEF ResumedIsOnDisk
    <2>6. Opening(c, want)
        BY <1>1, <1>2, <2>1, <2>3, <2>4, <2>5 DEF OpenRow
    <2> QED
        BY <2>4, <2>6
<1>3. CASE OpenNew(c)
    <2>1. PICK id \in Ids \ minted :
              /\ OpensSession(c, [id |-> id, resume |-> FALSE, create |-> FALSE])
              /\ minted' = minted \cup {id}
        BY <1>3 DEF OpenNew
    <2> DEFINE want == [id |-> id, resume |-> FALSE, create |-> FALSE]
    <2>2. want \in Wants
        BY DEF Wants
    <2>3. Opening(c, want)
        BY <1>1, <1>3, <2>1, <2>2 DEF OpenNew, IdsAreMinted
    <2> QED
        BY <2>2, <2>3
<1>4. CASE ConfirmDir(c)
    <2> DEFINE want == [wants[c] EXCEPT !.create = TRUE]
    <2>1. wants[c] # None /\ wants[c] \in Wants
        BY <1>1, <1>4 DEF ConfirmDir, ClientsKnow, RemoteSessionsTypeOK
    <2>2. want \in Wants /\ want.id = wants[c].id /\ want.resume = wants[c].resume
        BY <2>1 DEF Wants
    <2>3. /\ wants[c].id \in minted
          /\ os = "posix" /\ wants[c].resume => wants[c].id \in disk
          /\ os = "posix" /\ ~pinnable /\ ~wants[c].resume => wants[c].id \notin disk
        BY <1>1, <2>1 DEF IdsAreMinted, ResumedIsOnDisk, NamesTell
    <2>4. OpensSession(c, want) /\ UNCHANGED <<os, pinnable, dir, minted, disk, agents, rows, seen>>
        BY <1>4 DEF ConfirmDir
    <2> HIDE DEF want
    <2>5. Opening(c, want)
        BY <1>1, <2>2, <2>3, <2>4
    <2> QED
        BY <2>2, <2>5
<1> QED
    BY <1>2, <1>3, <1>4

(* A start goes on, or answers, or launches an agent and answers. *)
LEMMA StartsAreAnswers ==
    ASSUME RemoteSessionsInvariant, NEW c \in Clients,
           \/ StartFails(c) \/ StartDir(c) \/ StartHas(c) \/ StartHasLegacy(c)
           \/ StartNew(c) \/ WinLaunch(c)
    PROVE  \/ \E to \in {"has", "legacy", "new", "launch"} : Moving(c, to)
           \/ \E s \in Started : Answering(c, s) /\ UNCHANGED agents
           \/ \E s \in Started, name \in Names \cup {None} : Answering(c, s) /\ Launching(c, name)
<1> USE SessionsAssumption
<1>1. /\ RemoteSessionsTypeOK /\ ClientsKnow /\ dir \in BOOLEAN
      /\ os = "posix" \/ os = "windows"
    BY DEF RemoteSessionsInvariant, RemoteSessionsTypeOK
<1>2. wants[c] # None /\ wants[c].id \in Ids
    BY <1>1 DEF ClientsKnow, RemoteSessionsTypeOK, Wants, StartFails, StartDir, StartHas,
                StartHasLegacy, StartNew, WinLaunch
<1>3. /\ Pin(c) \in Ids \cup {None} /\ (Pin(c) # None => Pin(c) = wants[c].id)
      /\ Pin(c) # None => wants[c].resume \/ pinnable
    BY <1>1, <1>2, PinType
<1>4. \A legacy \in BOOLEAN : [legacy |-> legacy, of |-> wants[c].id] \in Names
    BY <1>2 DEF Names
<1>5. ASSUME NEW is \in {"ok", "err", "cwd_missing"}, NEW name \in Names \cup {None},
             NEW pinned \in Ids \cup {None}, Ends(c, is, name, pinned),
             UNCHANGED <<os, pinnable, dir, minted, disk, rows, seen, wants>>,
             os = "posix" /\ pinned # None =>
                 /\ pinned = wants[c].id /\ name \in Names /\ name.of = pinned
                 /\ wants[c].resume \/ pinnable
      PROVE  \E s \in Started : Answering(c, s)
    <2> DEFINE s == [is |-> is, name |-> name, pinned |-> pinned]
    <2>1. s \in Started /\ s.name = name /\ s.pinned = pinned
        BY DEF Started
    <2>2. Answering(c, s)
        BY <1>2, <1>5, <2>1 DEF Answering, Ends
    <2> QED
        BY <2>1, <2>2
<1>6. CASE StartFails(c)
    BY <1>5, <1>6 DEF StartFails
<1>7. CASE StartDir(c)
    <2>1. CASE Ends(c, "cwd_missing", None, None) /\ UNCHANGED dir
        BY <1>5, <1>7, <2>1 DEF StartDir
    <2>2. CASE /\ dir' = TRUE /\ UNCHANGED started
               /\ Steps(c, IF os = "posix" THEN "has" ELSE "launch")
        BY <1>1, <1>2, <1>7, <2>2 DEF StartDir, Moving
    <2> QED
        BY <1>7, <2>1, <2>2 DEF StartDir
<1>8. CASE StartHas(c)
    <2>1. CASE Ends(c, "ok", Name(wants[c].id), Pin(c))
        BY <1>3, <1>4, <1>5, <1>8, <2>1 DEF StartHas, Name
    <2>2. CASE Steps(c, "legacy") /\ UNCHANGED started
        BY <1>1, <1>2, <1>8, <2>2 DEF StartHas, Moving
    <2> QED
        BY <1>8, <2>1, <2>2 DEF StartHas
<1>9. CASE StartHasLegacy(c)
    <2>1. CASE Ends(c, "ok", LegacyName(wants[c].id), Pin(c))
        BY <1>3, <1>4, <1>5, <1>9, <2>1 DEF StartHasLegacy, LegacyName
    <2>2. CASE Pane(LegacyName(wants[c].id)) = {} /\ Steps(c, "new") /\ UNCHANGED started
        <3>1. \A a \in agents : a.name # LegacyName(wants[c].id)
            BY <2>2 DEF Pane
        <3> QED
            BY <1>1, <1>2, <1>9, <2>2, <3>1 DEF StartHasLegacy, Moving
    <2> QED
        BY <1>9, <2>1, <2>2 DEF StartHasLegacy
<1>10. CASE StartNew(c)
    <2>1. CASE Ends(c, "err", None, None) /\ UNCHANGED agents
        BY <1>5, <1>10, <2>1 DEF StartNew
    <2>2. CASE /\ Pane(Name(wants[c].id)) = {} /\ Ends(c, "ok", Name(wants[c].id), Pin(c))
               /\ agents' = agents \cup {Launched(c, Name(wants[c].id))}
        <3>1. Name(wants[c].id) \in Names /\ Name(wants[c].id).of = wants[c].id
            BY <1>4 DEF Name
        <3>2. Launching(c, Name(wants[c].id))
            BY <1>2, <1>10, <2>2, <3>1 DEF Launching, Pane, StartNew
        <3>3. \E s \in Started : Answering(c, s)
            BY <1>3, <1>5, <1>10, <2>2, <3>1 DEF StartNew
        <3> QED
            BY <3>1, <3>2, <3>3
    <2> QED
        BY <1>10, <2>1, <2>2 DEF StartNew
<1>11. CASE WinLaunch(c)
    <2>1. os = "windows"
        BY <1>1, <1>11 DEF WinLaunch, ClientsKnow
    <2>2. Launching(c, None)
        BY <1>2, <1>11, <2>1 DEF Launching, WinLaunch
    <2>3. \E s \in Started : Answering(c, s)
        BY <1>2, <1>5, <1>11, <2>1 DEF WinLaunch
    <2> QED
        BY <2>2, <2>3
<1> QED
    BY <1>6, <1>7, <1>8, <1>9, <1>10, <1>11

(* A record written by an agent changes at most its conversation. *)
LEMMA WritesFields ==
    ASSUME RemoteSessionsInvariant, NEW a \in agents, AgentWrites(a)
    PROVE  \/ /\ a.conv # None /\ disk' = disk \cup {a.conv}
              /\ UNCHANGED <<os, pinnable, dir, minted, agents, clientVars>>
           \/ \E id \in Ids \ minted :
                  /\ a.conv = None /\ minted' = minted \cup {id} /\ disk' = disk \cup {id}
                  /\ \A b \in agents' : \/ b \in agents
                                        \/ /\ b \in Agents /\ b.name = a.name /\ b.arg = a.arg
                                           /\ b.conv = id
                  /\ UNCHANGED <<os, pinnable, dir, clientVars>>
<1>1. a \in Agents
    BY DEF RemoteSessionsInvariant, RemoteSessionsTypeOK
<1>2. ASSUME NEW id \in Ids
      PROVE  /\ [a EXCEPT !.conv = id] \in Agents /\ [a EXCEPT !.conv = id].name = a.name
             /\ [a EXCEPT !.conv = id].arg = a.arg /\ [a EXCEPT !.conv = id].conv = id
    BY <1>1 DEF Agents
<1>3. CASE a.conv # None
    BY <1>3 DEF AgentWrites
<1>4. CASE a.conv = None
    <2>1. PICK id \in Ids \ minted : /\ minted' = minted \cup {id} /\ disk' = disk \cup {id}
                                     /\ agents' = (agents \ {a}) \cup {[a EXCEPT !.conv = id]}
        BY <1>4 DEF AgentWrites
    <2>2. \A b \in agents' : \/ b \in agents
                             \/ b \in Agents /\ b.name = a.name /\ b.arg = a.arg /\ b.conv = id
        BY <1>2, <2>1
    <2> QED
        BY <1>4, <2>1, <2>2 DEF AgentWrites
<1> QED
    BY <1>3, <1>4

(* Every step is of one of these kinds. *)
LEMMA StepKinds ==
    ASSUME RemoteSessionsInvariant, [RemoteSessionsNext]_remoteSessionVars
    PROVE  \/ UNCHANGED remoteSessionVars
           \/ \E c \in Clients : ListTmux(c) \/ ListFiles(c)
           \/ \E c \in Clients, want \in Wants : Opening(c, want)
           \/ \E c \in Clients, to \in {"has", "legacy", "new", "launch"} : Moving(c, to)
           \/ \E c \in Clients, s \in Started : Answering(c, s) /\ UNCHANGED agents
           \/ \E c \in Clients, s \in Started, name \in Names \cup {None} :
                  Answering(c, s) /\ Launching(c, name)
           \/ \E a \in agents : AgentWrites(a) \/ AgentExits(a)
<1>1. ASSUME NEW c \in Clients, OpenRow(c) \/ OpenNew(c) \/ ConfirmDir(c)
      PROVE  \E want \in Wants : Opening(c, want)
    BY <1>1, OpensAreOpening
<1>2. ASSUME NEW c \in Clients,
             \/ StartFails(c) \/ StartDir(c) \/ StartHas(c) \/ StartHasLegacy(c)
             \/ StartNew(c) \/ WinLaunch(c)
      PROVE  \/ \E to \in {"has", "legacy", "new", "launch"} : Moving(c, to)
             \/ \E s \in Started : Answering(c, s) /\ UNCHANGED agents
             \/ \E s \in Started, name \in Names \cup {None} :
                    Answering(c, s) /\ Launching(c, name)
    BY <1>2, StartsAreAnswers
<1>3. CASE \E c \in Clients : OpenRow(c) \/ OpenNew(c) \/ ConfirmDir(c)
    BY <1>1, <1>3
<1>4. CASE \E c \in Clients : \/ StartFails(c) \/ StartDir(c) \/ StartHas(c)
                               \/ StartHasLegacy(c) \/ StartNew(c) \/ WinLaunch(c)
    BY <1>2, <1>4
<1> QED
    BY <1>3, <1>4 DEF RemoteSessionsNext

(* A listing shows rows of what was minted; on POSIX, what it would resume   *)
(* is on disk.                                                              *)
LEMMA ListingFields ==
    ASSUME RemoteSessionsInvariant, NEW c \in Clients, ListFiles(c)
    PROVE  /\ rows' \in [Clients -> SUBSET Rows] /\ seen' \in [Clients -> SUBSET Agents]
           /\ \A d \in Clients : seen'[d] \subseteq seen[d]
           /\ \A d \in Clients : d # c => rows'[d] = rows[d]
           /\ os = "posix" => \A row \in rows'[c] : ~row.live => row.id \in disk
           /\ \A row \in rows'[c] : row.id # None => row.id \in minted
<1>1. RemoteSessionsTypeOK /\ AgentsHaveNames /\ IdsAreMinted
    BY DEF RemoteSessionsInvariant
<1>2. disk \in SUBSET Ids /\ \A a \in agents : a.arg \in Ids \cup {None}
    BY <1>1 DEF RemoteSessionsTypeOK, Agents
<1>3. seen' \in [Clients -> SUBSET Agents] /\ \A d \in Clients : seen'[d] \subseteq seen[d]
    BY <1>1 DEF RemoteSessionsTypeOK, ListFiles
<1>4. CASE os = "posix"
    <2> DEFINE names == {a.name : a \in seen[c]}
    <2>1. names \in SUBSET Names /\ \A name \in names : name.of \in minted
        BY <1>1, <1>4, SessionsAssumption DEF AgentsHaveNames, IdsAreMinted
    <2>2. rows' = [rows EXCEPT ![c] = MergeSessions(disk, names, {})]
        BY <1>4 DEF ListFiles
    <2> HIDE DEF names
    <2>3. /\ MergeSessions(disk, names, {}) \in SUBSET Rows
          /\ \A row \in MergeSessions(disk, names, {}) :
                 /\ row.id \in disk \cup {name.of : name \in names}
                 /\ ~row.live => row.id \in disk
        BY <1>2, <2>1, MergedRows
    <2>4. rows'[c] = MergeSessions(disk, names, {})
        BY <1>1, <2>2 DEF RemoteSessionsTypeOK
    <2>5. \A row \in rows'[c] : /\ row.id \in minted
                                /\ ~row.live => row.id \in disk
        BY <1>1, <2>1, <2>3, <2>4 DEF IdsAreMinted
    <2>6. /\ rows' \in [Clients -> SUBSET Rows]
          /\ \A d \in Clients : d # c => rows'[d] = rows[d]
        BY <1>1, <2>2, <2>3 DEF RemoteSessionsTypeOK
    <2> QED
        BY <1>3, <2>5, <2>6
<1>5. CASE os # "posix"
    <2> DEFINE procs == {a.arg : a \in agents}
    <2>1. procs \in SUBSET (Ids \cup {None}) /\ \A id \in procs : id # None => id \in minted
        BY <1>1, <1>2 DEF IdsAreMinted
    <2>2. rows' = [rows EXCEPT ![c] = MergeSessions(disk, {}, procs)]
        BY <1>5 DEF ListFiles
    <2> HIDE DEF procs
    <2>3. /\ MergeSessions(disk, {}, procs) \in SUBSET Rows
          /\ \A row \in MergeSessions(disk, {}, procs) : row.id \in disk \cup procs
        BY <1>2, <2>1, MergedRows
    <2> QED
        BY <1>1, <1>5, <1>3, <2>1, <2>2, <2>3 DEF RemoteSessionsTypeOK, IdsAreMinted
<1> QED
    BY <1>4, <1>5

(* A launch adds one agent to those there are. *)
LEMMA LaunchingFields ==
    ASSUME RemoteSessionsInvariant, NEW c \in Clients, NEW name \in Names \cup {None},
           Launching(c, name), UNCHANGED <<os, pinnable>>
    PROVE  \E new \in Agents :
               /\ agents' = agents \cup {new} /\ new.name = name /\ new.arg = new.conv
               /\ new.conv \in {wants[c].id, None} /\ wants[c].id \in Ids
               /\ name # None => name.of = wants[c].id
               /\ os = "posix" =>
                      /\ name \in Names /\ name.of = wants[c].id /\ client[c] = "new"
                      /\ name = Name(wants[c].id) /\ \A a \in agents : a.name # name
                      /\ wants[c].resume \/ pinnable => new.conv = wants[c].id
                      /\ ~wants[c].resume /\ ~pinnable => new.conv = None
<1>1. RemoteSessionsTypeOK /\ wants[c] # None
    BY DEF RemoteSessionsInvariant, Launching
<1>2. wants[c].id \in Ids
    BY <1>1 DEF RemoteSessionsTypeOK, Wants
<1>3. Name(wants[c].id) \in Names /\ Name(wants[c].id).of = wants[c].id
    BY <1>2 DEF Name, Names
<1>4. Launched(c, name) \in Agents
    BY <1>1, LaunchedFields
<1> QED
    BY <1>1, <1>2, <1>3, <1>4, LaunchedFields DEF Launching

(* Every step keeps the types. *)
LEMMA SessionsKeepTypes ==
    RemoteSessionsInvariant /\ [RemoteSessionsNext]_remoteSessionVars => RemoteSessionsTypeOK'
<1> SUFFICES ASSUME RemoteSessionsInvariant, [RemoteSessionsNext]_remoteSessionVars
             PROVE  RemoteSessionsTypeOK'
    OBVIOUS
<1> USE SessionsAssumption DEF RemoteSessionsTypeOK
<1>1. RemoteSessionsTypeOK /\ AgentsHaveNames
    BY DEF RemoteSessionsInvariant
<1>2. CASE UNCHANGED remoteSessionVars
    BY <1>1, <1>2 DEF remoteSessionVars, clientVars
<1>3. ASSUME NEW c \in Clients, ListTmux(c) PROVE RemoteSessionsTypeOK'
    BY <1>1, <1>3 DEF ListTmux, Steps
<1>4. ASSUME NEW c \in Clients, ListFiles(c) PROVE RemoteSessionsTypeOK'
    BY <1>1, <1>4, ListingFields DEF ListFiles, Steps
<1>5. ASSUME NEW c \in Clients, NEW want \in Wants, Opening(c, want) PROVE RemoteSessionsTypeOK'
    BY <1>1, <1>5 DEF Opening, OpensSession, Steps
<1>6. ASSUME NEW c \in Clients, NEW to \in {"has", "legacy", "new", "launch"}, Moving(c, to)
      PROVE  RemoteSessionsTypeOK'
    BY <1>1, <1>6 DEF Moving, Steps
<1>7. ASSUME NEW c \in Clients, NEW s \in Started, Answering(c, s), UNCHANGED agents
      PROVE  RemoteSessionsTypeOK'
    BY <1>1, <1>7 DEF Answering, Steps
<1>8. ASSUME NEW c \in Clients, NEW s \in Started, NEW name \in Names \cup {None},
             Answering(c, s), Launching(c, name)
      PROVE  RemoteSessionsTypeOK'
    BY <1>1, <1>8, LaunchingFields DEF Answering, Steps
<1>9. ASSUME NEW a \in agents, AgentWrites(a) PROVE RemoteSessionsTypeOK'
    <2>1. a.conv \in Ids \cup {None}
        BY <1>1 DEF Agents
    <2>2. agents' \subseteq Agents /\ disk' \subseteq Ids /\ minted' \subseteq Ids
        BY <1>1, <1>9, <2>1, WritesFields
    <2>3. UNCHANGED <<os, pinnable, dir, client, rows, seen, wants, started>>
        BY <1>9, WritesFields DEF clientVars
    <2> QED
        BY <1>1, <2>2, <2>3
<1>10. ASSUME NEW a \in agents, AgentExits(a) PROVE RemoteSessionsTypeOK'
    BY <1>1, <1>10 DEF AgentExits, clientVars
<1> QED
    BY StepKinds, <1>2, <1>3, <1>4, <1>5, <1>6, <1>7, <1>8, <1>9, <1>10

(* Every step keeps a name on every agent, and what a client is about. *)
LEMMA SessionsKeepNames ==
    RemoteSessionsInvariant /\ [RemoteSessionsNext]_remoteSessionVars => AgentsHaveNames' /\
       ClientsKnow'
<1> SUFFICES ASSUME RemoteSessionsInvariant, [RemoteSessionsNext]_remoteSessionVars
             PROVE  AgentsHaveNames' /\ ClientsKnow'
    OBVIOUS
<1> USE SessionsAssumption DEF AgentsHaveNames, ClientsKnow
<1>1. RemoteSessionsTypeOK /\ AgentsHaveNames /\ ClientsKnow
    BY DEF RemoteSessionsInvariant
<1>2. CASE UNCHANGED remoteSessionVars
    BY <1>1, <1>2 DEF remoteSessionVars, clientVars
<1>3. ASSUME NEW c \in Clients, ListTmux(c) PROVE AgentsHaveNames' /\ ClientsKnow'
    BY <1>1, <1>3 DEF ListTmux, Steps
<1>4. ASSUME NEW c \in Clients, ListFiles(c) PROVE AgentsHaveNames' /\ ClientsKnow'
    BY <1>1, <1>4, ListingFields DEF ListFiles, Steps
<1>5. ASSUME NEW c \in Clients, NEW want \in Wants, Opening(c, want) PROVE AgentsHaveNames' /\
   ClientsKnow'
    <2>1. AgentsHaveNames'
        BY <1>1, <1>5 DEF Opening
    <2>2. /\ client' = [client EXCEPT ![c] = "start"] /\ wants' = [wants EXCEPT ![c] = want]
          /\ started' = [started EXCEPT ![c] = None] /\ UNCHANGED os /\ want # None
        BY <1>5 DEF Opening, OpensSession, Steps
    <2>3. ClientsKnow'
        BY <1>1, <2>2 DEF RemoteSessionsTypeOK
    <2> QED
        BY <2>1, <2>3
<1>6. ASSUME NEW c \in Clients, NEW to \in {"has", "legacy", "new", "launch"}, Moving(c, to)
      PROVE  AgentsHaveNames' /\ ClientsKnow'
    BY <1>1, <1>6 DEF Moving, Steps
<1>7. ASSUME NEW c \in Clients, NEW s \in Started, Answering(c, s), UNCHANGED agents
      PROVE  AgentsHaveNames' /\ ClientsKnow'
    BY <1>1, <1>7 DEF Answering, Steps
<1>8. ASSUME NEW c \in Clients, NEW s \in Started, NEW name \in Names \cup {None},
             Answering(c, s), Launching(c, name)
      PROVE  AgentsHaveNames' /\ ClientsKnow'
    BY <1>1, <1>8, LaunchingFields DEF Answering, Steps
<1>9. ASSUME NEW a \in agents, AgentWrites(a) PROVE AgentsHaveNames' /\ ClientsKnow'
    BY <1>1, <1>9, WritesFields DEF clientVars
<1>10. ASSUME NEW a \in agents, AgentExits(a) PROVE AgentsHaveNames' /\ ClientsKnow'
    BY <1>1, <1>10 DEF AgentExits, clientVars
<1> QED
    BY StepKinds, <1>2, <1>3, <1>4, <1>5, <1>6, <1>7, <1>8, <1>9, <1>10

(* Every step keeps ids minted before they are used. *)
LEMMA SessionsKeepIdsMinted ==
    RemoteSessionsInvariant /\ [RemoteSessionsNext]_remoteSessionVars => IdsAreMinted'
<1> SUFFICES ASSUME RemoteSessionsInvariant, [RemoteSessionsNext]_remoteSessionVars
             PROVE  IdsAreMinted'
    OBVIOUS
<1> USE SessionsAssumption DEF IdsAreMinted
<1>1. RemoteSessionsTypeOK /\ AgentsHaveNames /\ IdsAreMinted
    BY DEF RemoteSessionsInvariant
<1>2. CASE UNCHANGED remoteSessionVars
    BY <1>1, <1>2 DEF remoteSessionVars, clientVars
<1>3. ASSUME NEW c \in Clients, ListTmux(c) PROVE IdsAreMinted'
    BY <1>1, <1>3 DEF ListTmux, Steps
<1>4. ASSUME NEW c \in Clients, ListFiles(c) PROVE IdsAreMinted'
    BY <1>1, <1>4, ListingFields DEF ListFiles, Steps
<1>5. ASSUME NEW c \in Clients, NEW want \in Wants, Opening(c, want) PROVE IdsAreMinted'
    BY <1>1, <1>5 DEF Opening, OpensSession, Steps
<1>6. ASSUME NEW c \in Clients, NEW to \in {"has", "legacy", "new", "launch"}, Moving(c, to)
      PROVE  IdsAreMinted'
    BY <1>1, <1>6 DEF Moving, Steps
<1>7. ASSUME NEW c \in Clients, NEW s \in Started, Answering(c, s), UNCHANGED agents
      PROVE  IdsAreMinted'
    BY <1>1, <1>7 DEF Answering, Steps
<1>8. ASSUME NEW c \in Clients, NEW s \in Started, NEW name \in Names \cup {None},
             Answering(c, s), Launching(c, name)
      PROVE  IdsAreMinted'
    <2>1. PICK new \in Agents :
              /\ agents' = agents \cup {new} /\ new.name = name /\ new.arg = new.conv
              /\ new.conv \in {wants[c].id, None} /\ wants[c].id \in Ids
              /\ name # None => name.of = wants[c].id
              /\ os = "posix" =>
                     /\ name \in Names /\ name.of = wants[c].id /\ client[c] = "new"
                     /\ name = Name(wants[c].id) /\ \A a \in agents : a.name # name
                     /\ wants[c].resume \/ pinnable => new.conv = wants[c].id
                     /\ ~wants[c].resume /\ ~pinnable => new.conv = None
        BY <1>8, LaunchingFields DEF Answering
    <2>2. /\ started' = [started EXCEPT ![c] = s] /\ client' = [client EXCEPT ![c] = "idle"]
          /\ UNCHANGED <<os, pinnable, dir, minted, disk, rows, seen, wants>> /\ wants[c] # None
        BY <1>8 DEF Answering, Steps
    <2>3. wants[c].id \in minted
        BY <1>1, <2>2
    <2>4. \A a \in agents' : /\ a.conv # None => a.conv \in minted
                             /\ a.arg # None => a.arg \in minted
                             /\ a.name # None => a.name.of \in minted
        BY <1>1, <2>1, <2>3
    <2> QED
        BY <1>1, <2>2, <2>4
<1>9. ASSUME NEW a \in agents, AgentWrites(a) PROVE IdsAreMinted'
    BY <1>1, <1>9, WritesFields DEF clientVars
<1>10. ASSUME NEW a \in agents, AgentExits(a) PROVE IdsAreMinted'
    BY <1>1, <1>10 DEF AgentExits, clientVars
<1> QED
    BY StepKinds, <1>2, <1>3, <1>4, <1>5, <1>6, <1>7, <1>8, <1>9, <1>10

(* Every step keeps on disk what is resumed: transcripts are not removed. *)
LEMMA SessionsResumeFromDisk ==
    RemoteSessionsInvariant /\ [RemoteSessionsNext]_remoteSessionVars => ResumedIsOnDisk'
<1> SUFFICES ASSUME RemoteSessionsInvariant, [RemoteSessionsNext]_remoteSessionVars
             PROVE  ResumedIsOnDisk'
    OBVIOUS
<1> USE SessionsAssumption DEF ResumedIsOnDisk
<1>1. RemoteSessionsTypeOK /\ AgentsHaveNames /\ ResumedIsOnDisk
    BY DEF RemoteSessionsInvariant
<1>2. CASE UNCHANGED remoteSessionVars
    BY <1>1, <1>2 DEF remoteSessionVars, clientVars
<1>3. ASSUME NEW c \in Clients, ListTmux(c) PROVE ResumedIsOnDisk'
    BY <1>1, <1>3 DEF ListTmux, Steps
<1>4. ASSUME NEW c \in Clients, ListFiles(c) PROVE ResumedIsOnDisk'
    BY <1>1, <1>4, ListingFields DEF ListFiles, Steps
<1>5. ASSUME NEW c \in Clients, NEW want \in Wants, Opening(c, want) PROVE ResumedIsOnDisk'
    BY <1>1, <1>5 DEF Opening, OpensSession, Steps
<1>6. ASSUME NEW c \in Clients, NEW to \in {"has", "legacy", "new", "launch"}, Moving(c, to)
      PROVE  ResumedIsOnDisk'
    BY <1>1, <1>6 DEF Moving, Steps
<1>7. ASSUME NEW c \in Clients, NEW s \in Started, Answering(c, s), UNCHANGED agents
      PROVE  ResumedIsOnDisk'
    BY <1>1, <1>7 DEF Answering, Steps
<1>8. ASSUME NEW c \in Clients, NEW s \in Started, NEW name \in Names \cup {None},
             Answering(c, s), Launching(c, name)
      PROVE  ResumedIsOnDisk'
    BY <1>1, <1>8, LaunchingFields DEF Answering, Steps
<1>9. ASSUME NEW a \in agents, AgentWrites(a) PROVE ResumedIsOnDisk'
    BY <1>1, <1>9, WritesFields DEF clientVars
<1>10. ASSUME NEW a \in agents, AgentExits(a) PROVE ResumedIsOnDisk'
    BY <1>1, <1>10 DEF AgentExits, clientVars
<1> QED
    BY StepKinds, <1>2, <1>3, <1>4, <1>5, <1>6, <1>7, <1>8, <1>9, <1>10

(* Every step keeps the names of sessions telling. *)
LEMMA SessionsKeepNamesTelling ==
    RemoteSessionsInvariant /\ [RemoteSessionsNext]_remoteSessionVars => NamesTell'
<1> SUFFICES ASSUME RemoteSessionsInvariant, [RemoteSessionsNext]_remoteSessionVars
             PROVE  NamesTell'
    OBVIOUS
<1> USE SessionsAssumption DEF NamesTell
<1>1. RemoteSessionsTypeOK /\ AgentsHaveNames /\ IdsAreMinted
      /\ ResumedIsOnDisk /\ NamesTell
    BY DEF RemoteSessionsInvariant
<1>2. CASE UNCHANGED remoteSessionVars
    BY <1>1, <1>2 DEF remoteSessionVars, clientVars
<1>3. ASSUME NEW c \in Clients, ListTmux(c) PROVE NamesTell'
    BY <1>1, <1>3 DEF ListTmux, Steps
<1>4. ASSUME NEW c \in Clients, ListFiles(c) PROVE NamesTell'
    BY <1>1, <1>4, ListingFields DEF ListFiles, Steps
<1>5. ASSUME NEW c \in Clients, NEW want \in Wants, Opening(c, want) PROVE NamesTell'
    BY <1>1, <1>5 DEF Opening, OpensSession, Steps
<1>6. ASSUME NEW c \in Clients, NEW to \in {"has", "legacy", "new", "launch"}, Moving(c, to)
      PROVE  NamesTell'
    BY <1>1, <1>6 DEF Moving, Steps
<1>7. ASSUME NEW c \in Clients, NEW s \in Started, Answering(c, s), UNCHANGED agents
      PROVE  NamesTell'
    BY <1>1, <1>7 DEF Answering, Steps
<1>8. ASSUME NEW c \in Clients, NEW s \in Started, NEW name \in Names \cup {None},
             Answering(c, s), Launching(c, name)
      PROVE  NamesTell'
    <2>1. PICK new \in Agents :
              /\ agents' = agents \cup {new} /\ new.name = name /\ new.arg = new.conv
              /\ new.conv \in {wants[c].id, None} /\ wants[c].id \in Ids
              /\ name # None => name.of = wants[c].id
              /\ os = "posix" =>
                     /\ name \in Names /\ name.of = wants[c].id /\ client[c] = "new"
                     /\ name = Name(wants[c].id) /\ \A a \in agents : a.name # name
                     /\ wants[c].resume \/ pinnable => new.conv = wants[c].id
                     /\ ~wants[c].resume /\ ~pinnable => new.conv = None
        BY <1>8, LaunchingFields DEF Answering
    <2>2. /\ started' = [started EXCEPT ![c] = s] /\ client' = [client EXCEPT ![c] = "idle"]
          /\ UNCHANGED <<os, pinnable, dir, minted, disk, rows, seen, wants>> /\ wants[c] # None
        BY <1>8 DEF Answering, Steps
    <2>3. ASSUME os = "posix", pinnable, NEW a \in agents'
          PROVE  a.arg = a.name.of /\ a.conv = a.name.of
        BY <1>1, <2>1, <2>3
    <2>4. ASSUME os = "posix", ~pinnable, NEW a \in agents'
          PROVE  /\ a.conv # None => a.conv \in disk
                 /\ a.conv # a.name.of => a.name.of \notin disk
        <3>1. CASE a \in agents
            BY <1>1, <2>4, <3>1
        <3>2. CASE a = new /\ wants[c].resume
            <4>1. wants[c].id \in disk
                BY <1>1, <2>2, <2>4, <3>2 DEF ResumedIsOnDisk
            <4>2. new.conv = wants[c].id /\ new.name.of = wants[c].id
                BY <2>1, <2>4, <3>2
            <4> QED
                BY <3>2, <4>1, <4>2
        <3>3. CASE a = new /\ ~wants[c].resume
            BY <1>1, <2>1, <2>2, <2>4, <3>3
        <3> QED
            BY <2>1, <2>4, <3>1, <3>2, <3>3
    <2> QED
        BY <1>1, <2>2, <2>3, <2>4
<1>9. ASSUME NEW a \in agents, AgentWrites(a) PROVE NamesTell'
    <2>1. CASE /\ a.conv # None /\ disk' = disk \cup {a.conv}
               /\ UNCHANGED <<os, pinnable, dir, minted, agents, clientVars>>
        BY <1>1, <1>9, <2>1 DEF clientVars
    <2>2. ASSUME NEW id \in Ids \ minted, a.conv = None, disk' = disk \cup {id},
                 \A b \in agents' : \/ b \in agents
                                   \/ /\ b \in Agents /\ b.name = a.name /\ b.arg = a.arg
                                      /\ b.conv = id,
                 UNCHANGED <<os, pinnable, dir, clientVars>>
          PROVE  NamesTell'
        <3>1. UNCHANGED <<wants, started>>
            BY <2>2 DEF clientVars
        <3>2. ASSUME os = "posix" PROVE a.name.of \in minted /\ a.name \in Names /\ ~pinnable
            <4>1. a.name \in Names /\ a.name # None
                BY <1>1, <1>9, <3>2 DEF AgentsHaveNames
            <4>2. a.name.of \in Ids
                BY <4>1 DEF Names
            <4>3. pinnable => a.conv = a.name.of
                BY <1>1, <1>9, <3>2
            <4> QED
                BY <1>1, <2>2, <4>1, <4>2, <4>3 DEF IdsAreMinted
        <3>3. ASSUME os = "posix", NEW b \in agents'
              PROVE  /\ b.conv # None => b.conv \in disk'
                     /\ b.conv # b.name.of => b.name.of \notin disk'
            <4>1. CASE b \in agents
                <5>1. b.name.of \in minted
                    BY <1>1, <3>3, <4>1 DEF AgentsHaveNames, IdsAreMinted
                <5> QED
                    BY <1>1, <2>2, <3>2, <3>3, <4>1, <5>1
            <4>2. CASE b.name = a.name /\ b.conv = id
                <5>1. a.conv # a.name.of => a.name.of \notin disk
                    BY <1>1, <1>9, <3>2, <3>3
                <5>2. a.name.of # None
                    BY <3>2, <3>3 DEF Names
                <5> QED
                    BY <2>2, <3>2, <3>3, <4>2, <5>1, <5>2
            <4> QED
                BY <2>2, <3>3, <4>1, <4>2
        <3>4. \A c \in Clients : wants[c] # None => wants[c].id \in minted
            BY <1>1 DEF IdsAreMinted
        <3> QED
            BY <1>1, <2>2, <3>1, <3>2, <3>3, <3>4
    <2> QED
        BY <1>9, <2>1, <2>2, WritesFields
<1>10. ASSUME NEW a \in agents, AgentExits(a) PROVE NamesTell'
    BY <1>1, <1>10 DEF AgentExits, clientVars
<1> QED
    BY StepKinds, <1>2, <1>3, <1>4, <1>5, <1>6, <1>7, <1>8, <1>9, <1>10

(* Every step keeps one session to an id. *)
LEMMA SessionsKeepLegacyFirst ==
    RemoteSessionsInvariant /\ [RemoteSessionsNext]_remoteSessionVars => LegacyIsFirst'
<1> SUFFICES ASSUME RemoteSessionsInvariant, [RemoteSessionsNext]_remoteSessionVars
             PROVE  LegacyIsFirst'
    OBVIOUS
<1> USE SessionsAssumption DEF LegacyIsFirst, Pane
<1>1. RemoteSessionsTypeOK /\ AgentsHaveNames /\ ClientsKnow /\ LegacyIsFirst
    BY DEF RemoteSessionsInvariant
<1>2. CASE UNCHANGED remoteSessionVars
    BY <1>1, <1>2 DEF remoteSessionVars, clientVars
<1>3. ASSUME NEW c \in Clients, ListTmux(c) PROVE LegacyIsFirst'
    BY <1>1, <1>3 DEF ListTmux, Steps
<1>4. ASSUME NEW c \in Clients, ListFiles(c) PROVE LegacyIsFirst'
    BY <1>1, <1>4, ListingFields DEF ListFiles, Steps
<1>5. ASSUME NEW c \in Clients, NEW want \in Wants, Opening(c, want) PROVE LegacyIsFirst'
    <2>1. /\ client' = [client EXCEPT ![c] = "start"] /\ wants' = [wants EXCEPT ![c] = want]
          /\ UNCHANGED <<os, agents>>
        BY <1>5 DEF Opening, OpensSession, Steps
    <2>2. \A d \in Clients : client'[d] = "new" => client[d] = "new" /\ wants'[d] = wants[d]
        BY <1>1, <2>1 DEF RemoteSessionsTypeOK
    <2> QED
        BY <1>1, <2>1, <2>2
<1>6. ASSUME NEW c \in Clients, NEW to \in {"has", "legacy", "new", "launch"}, Moving(c, to)
      PROVE  LegacyIsFirst'
    BY <1>1, <1>6 DEF Moving, Steps
<1>7. ASSUME NEW c \in Clients, NEW s \in Started, Answering(c, s), UNCHANGED agents
      PROVE  LegacyIsFirst'
    BY <1>1, <1>7 DEF Answering, Steps
<1>8. ASSUME NEW c \in Clients, NEW s \in Started, NEW name \in Names \cup {None},
             Answering(c, s), Launching(c, name)
      PROVE  LegacyIsFirst'
    <2>1. PICK new \in Agents :
              /\ agents' = agents \cup {new} /\ new.name = name /\ new.arg = new.conv
              /\ new.conv \in {wants[c].id, None} /\ wants[c].id \in Ids
              /\ name # None => name.of = wants[c].id
              /\ os = "posix" =>
                     /\ name \in Names /\ name.of = wants[c].id /\ client[c] = "new"
                     /\ name = Name(wants[c].id) /\ \A a \in agents : a.name # name
                     /\ wants[c].resume \/ pinnable => new.conv = wants[c].id
                     /\ ~wants[c].resume /\ ~pinnable => new.conv = None
        BY <1>8, LaunchingFields DEF Answering
    <2>2. /\ started' = [started EXCEPT ![c] = s] /\ client' = [client EXCEPT ![c] = "idle"]
          /\ UNCHANGED <<os, pinnable, dir, minted, disk, rows, seen, wants>> /\ wants[c] # None
        BY <1>8 DEF Answering, Steps
    <2>3. \A d \in Clients : client'[d] = "new" => client[d] = "new"
        BY <1>1, <2>2 DEF RemoteSessionsTypeOK
    <2>4. ASSUME os = "posix" PROVE \A id \in Ids : name # LegacyName(id)
        BY <2>1, <2>4 DEF Name, LegacyName
    <2>5. \A d \in Clients : client[d] = "new" => wants[d].id \in Ids
        BY <1>1 DEF ClientsKnow, RemoteSessionsTypeOK, Wants
    <2>6. ASSUME os = "posix", NEW d \in Clients, client'[d] = "new", NEW a \in agents'
          PROVE  a.name # LegacyName(wants'[d].id)
        BY <1>1, <2>1, <2>2, <2>3, <2>4, <2>5, <2>6
    <2>7. ASSUME os = "posix", NEW a \in agents, a.name.of = name.of PROVE FALSE
        <3>1. a.name \in Names /\ a.name.of = wants[c].id
            BY <1>1, <2>1, <2>7 DEF AgentsHaveNames
        <3>2. a.name = Name(wants[c].id) \/ a.name = LegacyName(wants[c].id)
            BY <3>1 DEF Names, Name, LegacyName
        <3> QED
            BY <1>1, <2>1, <2>7, <3>2
    <2>8. ASSUME os = "posix", NEW a \in agents', NEW b \in agents', a.name.of = b.name.of
          PROVE  a.name = b.name
        BY <1>1, <2>1, <2>7, <2>8
    <2> QED
        BY <2>2, <2>6, <2>8
<1>9. ASSUME NEW a \in agents, AgentWrites(a) PROVE LegacyIsFirst'
    BY <1>1, <1>9, WritesFields DEF clientVars
<1>10. ASSUME NEW a \in agents, AgentExits(a) PROVE LegacyIsFirst'
    BY <1>1, <1>10 DEF AgentExits, clientVars
<1> QED
    BY StepKinds, <1>2, <1>3, <1>4, <1>5, <1>6, <1>7, <1>8, <1>9, <1>10

(* Every step keeps the answers of starts true. *)
LEMMA SessionsKeepPins ==
    RemoteSessionsInvariant /\ [RemoteSessionsNext]_remoteSessionVars => PinsFollowNames'
<1> SUFFICES ASSUME RemoteSessionsInvariant, [RemoteSessionsNext]_remoteSessionVars
             PROVE  PinsFollowNames'
    OBVIOUS
<1> USE SessionsAssumption DEF PinsFollowNames
<1>1. RemoteSessionsTypeOK /\ ResumedIsOnDisk /\ PinsFollowNames
    BY DEF RemoteSessionsInvariant
<1>2. CASE UNCHANGED remoteSessionVars
    BY <1>1, <1>2 DEF remoteSessionVars, clientVars
<1>3. ASSUME NEW c \in Clients, ListTmux(c) PROVE PinsFollowNames'
    BY <1>1, <1>3 DEF ListTmux, Steps
<1>4. ASSUME NEW c \in Clients, ListFiles(c) PROVE PinsFollowNames'
    BY <1>1, <1>4, ListingFields DEF ListFiles, Steps
<1>5. ASSUME NEW c \in Clients, NEW want \in Wants, Opening(c, want) PROVE PinsFollowNames'
    BY <1>1, <1>5 DEF Opening, OpensSession, Steps
<1>6. ASSUME NEW c \in Clients, NEW to \in {"has", "legacy", "new", "launch"}, Moving(c, to)
      PROVE  PinsFollowNames'
    BY <1>1, <1>6 DEF Moving, Steps
<1>7. ASSUME NEW c \in Clients, NEW s \in Started, Answering(c, s), UNCHANGED agents
      PROVE  PinsFollowNames'
    <2>1. /\ started' = [started EXCEPT ![c] = s]
          /\ UNCHANGED <<os, pinnable, disk>> /\ wants[c] # None
          /\ os = "posix" /\ s.pinned # None =>
                 /\ s.pinned = wants[c].id /\ s.name \in Names /\ s.name.of = s.pinned
                 /\ wants[c].resume \/ pinnable
        BY <1>7 DEF Answering
    <2>2. started'[c] = s /\ \A d \in Clients : d # c => started'[d] = started[d]
        BY <1>1, <2>1 DEF RemoteSessionsTypeOK
    <2>3. os = "posix" /\ s.pinned # None => pinnable \/ s.pinned \in disk
        BY <1>1, <2>1 DEF ResumedIsOnDisk
    <2> QED
        BY <1>1, <2>1, <2>2, <2>3
<1>8. ASSUME NEW c \in Clients, NEW s \in Started, NEW name \in Names \cup {None},
             Answering(c, s), Launching(c, name)
      PROVE  PinsFollowNames'
    <2>1. /\ started' = [started EXCEPT ![c] = s]
          /\ UNCHANGED <<os, pinnable, disk>> /\ wants[c] # None
          /\ os = "posix" /\ s.pinned # None =>
                 /\ s.pinned = wants[c].id /\ s.name \in Names /\ s.name.of = s.pinned
                 /\ wants[c].resume \/ pinnable
        BY <1>8 DEF Answering
    <2>2. started'[c] = s /\ \A d \in Clients : d # c => started'[d] = started[d]
        BY <1>1, <2>1 DEF RemoteSessionsTypeOK
    <2>3. os = "posix" /\ s.pinned # None => pinnable \/ s.pinned \in disk
        BY <1>1, <2>1 DEF ResumedIsOnDisk
    <2> QED
        BY <1>1, <2>1, <2>2, <2>3
<1>9. ASSUME NEW a \in agents, AgentWrites(a) PROVE PinsFollowNames'
    BY <1>1, <1>9, WritesFields DEF clientVars
<1>10. ASSUME NEW a \in agents, AgentExits(a) PROVE PinsFollowNames'
    BY <1>1, <1>10 DEF AgentExits, clientVars
<1> QED
    BY StepKinds, <1>2, <1>3, <1>4, <1>5, <1>6, <1>7, <1>8, <1>9, <1>10

-----------------------------------------------------------------------------
(* The inductive invariant: what names, conversations, transcripts and the  *)
(* clients' lists say of each other.                                        *)
THEOREM RemoteSessionsIsInvariant == RemoteSessionsSpec => []RemoteSessionsInvariant
<1>1. RemoteSessionsInvariant /\ [RemoteSessionsNext]_remoteSessionVars
          => RemoteSessionsInvariant'
    BY SessionsKeepTypes, SessionsKeepNames, SessionsKeepIdsMinted, SessionsResumeFromDisk,
       SessionsKeepNamesTelling, SessionsKeepLegacyFirst, SessionsKeepPins
       DEF RemoteSessionsInvariant
<1> QED
    BY RemoteSessionsStart, <1>1, PTL DEF RemoteSessionsSpec

(* start_script never opens a conversation in a second agent, with a CLI    *)
(* that takes an id: however stale the lists and however starts interleave. *)
THEOREM OneAgent == RemoteSessionsSpec => []OneAgentPerConversation
<1>1. RemoteSessionsInvariant => OneAgentPerConversation
    <2> SUFFICES ASSUME RemoteSessionsInvariant, os = "posix", pinnable,
                        NEW a \in agents, NEW b \in agents
                 PROVE  ~Together(a, b)
        BY DEF OneAgentPerConversation
    <2>1. a \in Agents /\ b \in Agents
        BY DEF RemoteSessionsInvariant, RemoteSessionsTypeOK
    <2>2. /\ a.arg = a.name.of /\ a.conv = a.name.of /\ b.arg = b.name.of /\ b.conv = b.name.of
          /\ a.name.of = b.name.of => a.name = b.name
        BY DEF RemoteSessionsInvariant, NamesTell, LegacyIsFirst
    <2>3. a.conv = b.conv => a = b
        BY <2>1, <2>2 DEF Agents
    <2> QED
        BY <2>3 DEF Together
<1> QED
    BY <1>1, RemoteSessionsIsInvariant, PTL

(* The id start_script answers with is the conversation of the session it   *)
(* names, as long as that runs.                                             *)
THEOREM PinsAreTrue == RemoteSessionsSpec => []PinNamesTheConversation
<1>1. RemoteSessionsInvariant => PinNamesTheConversation
    <2> SUFFICES ASSUME RemoteSessionsInvariant, os = "posix", NEW c \in Clients,
                        started[c] # None, started[c].pinned # None,
                        NEW a \in Pane(started[c].name)
                 PROVE  a.conv = started[c].pinned
        BY DEF PinNamesTheConversation
    <2>1. a \in agents /\ a.name = started[c].name
        BY DEF Pane
    <2>2. /\ a.name.of = started[c].pinned
          /\ pinnable \/ started[c].pinned \in disk
        BY <2>1 DEF RemoteSessionsInvariant, RemoteSessionsTypeOK, PinsFollowNames
    <2>3. CASE pinnable
        BY <2>1, <2>2, <2>3 DEF RemoteSessionsInvariant, NamesTell
    <2>4. CASE ~pinnable
        BY <2>1, <2>2, <2>4 DEF RemoteSessionsInvariant, NamesTell
    <2> QED
        BY <2>3, <2>4
<1> QED
    BY <1>1, RemoteSessionsIsInvariant, PTL

-----------------------------------------------------------------------------
(* The terminal sessions of this machine                               *)

USE SessionAssumption DEF sessionVars, commandVars

(* The invariant holds before the first open.                              *)
LEMMA InitHolds == SessionInit => SessionInvariant
BY DEF SessionInit, SessionInvariant, SessionTypeOK, OpensAreOrdered, LockIsHeld,
       CommandsNameSessions, ReapedIsDrained, ChildHasAnOwner, ClosedIsDead,
       ExitIsTheLastWord

-----------------------------------------------------------------------------
(* Each part of the invariant survives each step. *)

(* Every step keeps the types.                                             *)
LEMMA TypeIsKept ==
    ASSUME SessionInvariant, [SessionNext]_managerVars
    PROVE  SessionTypeOK'
<1> USE DEF SessionInvariant, SessionTypeOK
<1>1. ASSUME NEW o \in Opens, OpenSpawn(o) \/ OpenInsert(o)
      PROVE  SessionTypeOK'
    BY <1>1 DEF OpenSpawn, OpenInsert
<1>2. ASSUME NEW c \in Commands, NEW o \in Opens,
             NEW w \in {"write", "resize", "close"}, Call(c, w, o)
      PROVE  SessionTypeOK'
    BY <1>2 DEF Call
<1>3. ASSUME NEW c \in Commands,
             CommandMisses(c) \/ WriteBegins(c) \/ Resize(c)
      PROVE  SessionTypeOK'
    BY <1>3 DEF CommandMisses, CommandReturns, WriteBegins, Resize
<1>4. ASSUME NEW c \in Commands, WriteEnds(c)
      PROVE  SessionTypeOK'
    <2>1. on[c] \in Opens
        BY <1>4 DEF WriteEnds, CommandsNameSessions
    <2>2. input' \in [Opens -> 0 .. PtyCap]
        BY <1>4, <2>1 DEF WriteEnds
    <2> QED
        BY <1>4, <2>2 DEF WriteEnds, CommandReturns
<1>5. ASSUME NEW c \in Commands, Close(c)
      PROVE  SessionTypeOK'
    BY <1>5 DEF Close, CommandReturns
<1>6. ASSUME NEW o \in Opens, PumpData(o)
      PROVE  SessionTypeOK'
    BY <1>6 DEF PumpData
<1>7. ASSUME NEW o \in Opens, PumpEnds(o)
      PROVE  SessionTypeOK'
    BY <1>7 DEF PumpEnds
<1>8. ASSUME NEW o \in Opens, PumpReap(o) \/ PumpExit(o)
      PROVE  SessionTypeOK'
    BY <1>8 DEF PumpReap, PumpExit
<1>9. ASSUME NEW o \in Opens,
             \/ RemoteReads(o) \/ RemoteWrites(o)
             \/ RemoteExits(o) \/ WebviewGoes(o)
      PROVE  SessionTypeOK'
    BY <1>9 DEF RemoteReads, RemoteWrites, RemoteExits, WebviewGoes
<1>10. CASE UNCHANGED managerVars
    BY <1>10 DEF managerVars
<1> QED
    BY <1>1, <1>2, <1>3, <1>4, <1>5, <1>6, <1>7, <1>8, <1>9, <1>10 DEF SessionNext

(* What a session's child, pump and entry say of each other. *)
LEMMA OrderIsKept ==
    ASSUME SessionInvariant, [SessionNext]_managerVars
    PROVE  OpensAreOrdered'
<1> USE DEF SessionInvariant, SessionTypeOK, OpensAreOrdered, LockIsHeld
<1>1. ASSUME NEW o \in Opens, OpenSpawn(o) \/ OpenInsert(o)
      PROVE  OpensAreOrdered'
    BY <1>1 DEF OpenSpawn, OpenInsert
<1>2. ASSUME NEW c \in Commands, NEW o \in Opens,
             NEW w \in {"write", "resize", "close"}, Call(c, w, o)
      PROVE  OpensAreOrdered'
    BY <1>2 DEF Call
<1>3. ASSUME NEW c \in Commands, CommandMisses(c)
      PROVE  OpensAreOrdered'
    BY <1>3 DEF CommandMisses, CommandReturns
<1>4. ASSUME NEW c \in Commands, WriteBegins(c) \/ WriteEnds(c)
      PROVE  OpensAreOrdered'
    BY <1>4 DEF WriteBegins, WriteEnds, CommandReturns
<1>5. ASSUME NEW c \in Commands, Resize(c) \/ Close(c)
      PROVE  OpensAreOrdered'
    BY <1>5 DEF Resize, Close, CommandReturns
<1>6. ASSUME NEW o \in Opens, PumpData(o) \/ PumpEnds(o)
      PROVE  OpensAreOrdered'
    BY <1>6 DEF PumpData, PumpEnds
<1>7. ASSUME NEW o \in Opens, PumpReap(o) \/ PumpExit(o)
      PROVE  OpensAreOrdered'
    BY <1>7 DEF PumpReap, PumpExit
<1>8. ASSUME NEW o \in Opens,
             \/ RemoteReads(o) \/ RemoteWrites(o)
             \/ RemoteExits(o) \/ WebviewGoes(o)
      PROVE  OpensAreOrdered'
    BY <1>8 DEF RemoteReads, RemoteWrites, RemoteExits, WebviewGoes
<1>9. CASE UNCHANGED managerVars
    BY <1>9 DEF managerVars
<1> QED
    BY <1>1, <1>2, <1>3, <1>4, <1>5, <1>6, <1>7, <1>8, <1>9 DEF SessionNext

(* The map is locked by the pump that waits or the command that writes. *)
LEMMA LockIsKept ==
    ASSUME SessionInvariant, [SessionNext]_managerVars
    PROVE  LockIsHeld'
<1> USE DEF SessionInvariant, SessionTypeOK, OpensAreOrdered, LockIsHeld
<1>1. ASSUME NEW o \in Opens, OpenSpawn(o) \/ OpenInsert(o)
      PROVE  LockIsHeld'
    BY <1>1 DEF OpenSpawn, OpenInsert
<1>2. ASSUME NEW c \in Commands, NEW o \in Opens,
             NEW w \in {"write", "resize", "close"}, Call(c, w, o)
      PROVE  LockIsHeld'
    BY <1>2 DEF Call
<1>3. ASSUME NEW c \in Commands, CommandMisses(c)
      PROVE  LockIsHeld'
    BY <1>3 DEF CommandMisses, CommandReturns
<1>4. ASSUME NEW c \in Commands, WriteBegins(c) \/ WriteEnds(c)
      PROVE  LockIsHeld'
    BY <1>4 DEF WriteBegins, WriteEnds, CommandReturns
<1>5. ASSUME NEW c \in Commands, Resize(c) \/ Close(c)
      PROVE  LockIsHeld'
    BY <1>5 DEF Resize, Close, CommandReturns
<1>6. ASSUME NEW o \in Opens, PumpData(o) \/ PumpEnds(o)
      PROVE  LockIsHeld'
    BY <1>6 DEF PumpData, PumpEnds
<1>7. ASSUME NEW o \in Opens, PumpReap(o) \/ PumpExit(o)
      PROVE  LockIsHeld'
    BY <1>7 DEF PumpReap, PumpExit
<1>8. ASSUME NEW o \in Opens,
             \/ RemoteReads(o) \/ RemoteWrites(o)
             \/ RemoteExits(o) \/ WebviewGoes(o)
      PROVE  LockIsHeld'
    BY <1>8 DEF RemoteReads, RemoteWrites, RemoteExits, WebviewGoes
<1>9. CASE UNCHANGED managerVars
    BY <1>9 DEF managerVars
<1> QED
    BY <1>1, <1>2, <1>3, <1>4, <1>5, <1>6, <1>7, <1>8, <1>9 DEF SessionNext

(* A command is only ever given the id of an open that returned. *)
LEMMA NamesAreKept ==
    ASSUME SessionInvariant, [SessionNext]_managerVars
    PROVE  CommandsNameSessions'
<1> USE DEF SessionInvariant, SessionTypeOK, CommandsNameSessions
<1>1. ASSUME NEW o \in Opens, OpenSpawn(o) \/ OpenInsert(o)
      PROVE  CommandsNameSessions'
    BY <1>1 DEF OpenSpawn, OpenInsert
<1>2. ASSUME NEW c \in Commands, NEW o \in Opens,
             NEW w \in {"write", "resize", "close"}, Call(c, w, o)
      PROVE  CommandsNameSessions'
    BY <1>2 DEF Call
<1>3. ASSUME NEW c \in Commands, CommandMisses(c)
      PROVE  CommandsNameSessions'
    BY <1>3 DEF CommandMisses, CommandReturns
<1>4. ASSUME NEW c \in Commands, WriteBegins(c) \/ WriteEnds(c)
      PROVE  CommandsNameSessions'
    BY <1>4 DEF WriteBegins, WriteEnds, CommandReturns
<1>5. ASSUME NEW c \in Commands, Resize(c) \/ Close(c)
      PROVE  CommandsNameSessions'
    BY <1>5 DEF Resize, Close, CommandReturns
<1>6. ASSUME NEW o \in Opens, PumpData(o) \/ PumpEnds(o)
      PROVE  CommandsNameSessions'
    BY <1>6 DEF PumpData, PumpEnds
<1>7. ASSUME NEW o \in Opens, PumpReap(o) \/ PumpExit(o)
      PROVE  CommandsNameSessions'
    BY <1>7 DEF PumpReap, PumpExit
<1>8. ASSUME NEW o \in Opens,
             \/ RemoteReads(o) \/ RemoteWrites(o)
             \/ RemoteExits(o) \/ WebviewGoes(o)
      PROVE  CommandsNameSessions'
    BY <1>8 DEF RemoteReads, RemoteWrites, RemoteExits, WebviewGoes
<1>9. CASE UNCHANGED managerVars
    BY <1>9 DEF managerVars
<1> QED
    BY <1>1, <1>2, <1>3, <1>4, <1>5, <1>6, <1>7, <1>8, <1>9 DEF SessionNext

(* A pump out of its loop is deaf, or has drained a child that is gone. *)
LEMMA DrainIsKept ==
    ASSUME SessionInvariant, [SessionNext]_managerVars
    PROVE  ReapedIsDrained'
<1> USE DEF SessionInvariant, SessionTypeOK, ReapedIsDrained, OpensAreOrdered
<1>1. ASSUME NEW o \in Opens, OpenSpawn(o) \/ OpenInsert(o)
      PROVE  ReapedIsDrained'
    BY <1>1 DEF OpenSpawn, OpenInsert
<1>2. ASSUME NEW c \in Commands, NEW o \in Opens,
             NEW w \in {"write", "resize", "close"}, Call(c, w, o)
      PROVE  ReapedIsDrained'
    BY <1>2 DEF Call
<1>3. ASSUME NEW c \in Commands, CommandMisses(c)
      PROVE  ReapedIsDrained'
    BY <1>3 DEF CommandMisses, CommandReturns
<1>4. ASSUME NEW c \in Commands, WriteBegins(c) \/ WriteEnds(c)
      PROVE  ReapedIsDrained'
    BY <1>4 DEF WriteBegins, WriteEnds, CommandReturns
<1>5. ASSUME NEW c \in Commands, Resize(c) \/ Close(c)
      PROVE  ReapedIsDrained'
    BY <1>5 DEF Resize, Close, CommandReturns
<1>6. ASSUME NEW o \in Opens, PumpData(o) \/ PumpEnds(o)
      PROVE  ReapedIsDrained'
    BY <1>6 DEF PumpData, PumpEnds
<1>7. ASSUME NEW o \in Opens, PumpReap(o) \/ PumpExit(o)
      PROVE  ReapedIsDrained'
    BY <1>7 DEF PumpReap, PumpExit
<1>8. ASSUME NEW o \in Opens,
             \/ RemoteReads(o) \/ RemoteWrites(o)
             \/ RemoteExits(o) \/ WebviewGoes(o)
      PROVE  ReapedIsDrained'
    BY <1>8 DEF RemoteReads, RemoteWrites, RemoteExits, WebviewGoes
<1>9. CASE UNCHANGED managerVars
    BY <1>9 DEF managerVars
<1> QED
    BY <1>1, <1>2, <1>3, <1>4, <1>5, <1>6, <1>7, <1>8, <1>9 DEF SessionNext

(* A live child keeps an owner. *)
LEMMA OwnerIsKept ==
    ASSUME SessionInvariant, [SessionNext]_managerVars
    PROVE  ChildHasAnOwner'
<1> USE DEF SessionInvariant, SessionTypeOK, ChildHasAnOwner, OpensAreOrdered, LockIsHeld
<1>1. ASSUME NEW o \in Opens, OpenSpawn(o) \/ OpenInsert(o)
      PROVE  ChildHasAnOwner'
    BY <1>1 DEF OpenSpawn, OpenInsert
<1>2. ASSUME NEW c \in Commands, NEW o \in Opens,
             NEW w \in {"write", "resize", "close"}, Call(c, w, o)
      PROVE  ChildHasAnOwner'
    BY <1>2 DEF Call
<1>3. ASSUME NEW c \in Commands, CommandMisses(c)
      PROVE  ChildHasAnOwner'
    BY <1>3 DEF CommandMisses, CommandReturns
<1>4. ASSUME NEW c \in Commands, WriteBegins(c) \/ WriteEnds(c)
      PROVE  ChildHasAnOwner'
    BY <1>4 DEF WriteBegins, WriteEnds, CommandReturns
<1>5. ASSUME NEW c \in Commands, Resize(c) \/ Close(c)
      PROVE  ChildHasAnOwner'
    BY <1>5 DEF Resize, Close, CommandReturns
<1>6. ASSUME NEW o \in Opens, PumpData(o) \/ PumpEnds(o)
      PROVE  ChildHasAnOwner'
    BY <1>6 DEF PumpData, PumpEnds
<1>7. ASSUME NEW o \in Opens, PumpReap(o) \/ PumpExit(o)
      PROVE  ChildHasAnOwner'
    BY <1>7 DEF PumpReap, PumpExit
<1>8. ASSUME NEW o \in Opens,
             \/ RemoteReads(o) \/ RemoteWrites(o)
             \/ RemoteExits(o) \/ WebviewGoes(o)
      PROVE  ChildHasAnOwner'
    BY <1>8 DEF RemoteReads, RemoteWrites, RemoteExits, WebviewGoes
<1>9. CASE UNCHANGED managerVars
    BY <1>9 DEF managerVars
<1> QED
    BY <1>1, <1>2, <1>3, <1>4, <1>5, <1>6, <1>7, <1>8, <1>9 DEF SessionNext

(* A close that finds no entry comes after the pump's wait, which has the lock. *)
LEMMA ClosedIsKept ==
    ASSUME SessionInvariant, [SessionNext]_managerVars
    PROVE  ClosedIsDead'
<1> USE DEF SessionInvariant, SessionTypeOK, ClosedIsDead, ChildHasAnOwner, OpensAreOrdered,
            LockIsHeld, CommandsNameSessions
<1>1. ASSUME NEW o \in Opens, OpenSpawn(o) \/ OpenInsert(o)
      PROVE  ClosedIsDead'
    BY <1>1 DEF OpenSpawn, OpenInsert
<1>2. ASSUME NEW c \in Commands, NEW o \in Opens,
             NEW w \in {"write", "resize", "close"}, Call(c, w, o)
      PROVE  ClosedIsDead'
    BY <1>2 DEF Call
<1>3. ASSUME NEW c \in Commands, CommandMisses(c)
      PROVE  ClosedIsDead'
    BY <1>3 DEF CommandMisses, CommandReturns
<1>4. ASSUME NEW c \in Commands, WriteBegins(c) \/ WriteEnds(c)
      PROVE  ClosedIsDead'
    BY <1>4 DEF WriteBegins, WriteEnds, CommandReturns
<1>5. ASSUME NEW c \in Commands, Resize(c) \/ Close(c)
      PROVE  ClosedIsDead'
    BY <1>5 DEF Resize, Close, CommandReturns
<1>6. ASSUME NEW o \in Opens, PumpData(o) \/ PumpEnds(o)
      PROVE  ClosedIsDead'
    BY <1>6 DEF PumpData, PumpEnds
<1>7. ASSUME NEW o \in Opens, PumpReap(o) \/ PumpExit(o)
      PROVE  ClosedIsDead'
    BY <1>7 DEF PumpReap, PumpExit
<1>8. ASSUME NEW o \in Opens,
             \/ RemoteReads(o) \/ RemoteWrites(o)
             \/ RemoteExits(o) \/ WebviewGoes(o)
      PROVE  ClosedIsDead'
    BY <1>8 DEF RemoteReads, RemoteWrites, RemoteExits, WebviewGoes
<1>9. CASE UNCHANGED managerVars
    BY <1>9 DEF managerVars
<1> QED
    BY <1>1, <1>2, <1>3, <1>4, <1>5, <1>6, <1>7, <1>8, <1>9 DEF SessionNext

(* Nothing is written to, or read from, a session whose exit was reported. *)
LEMMA LastWordIsKept ==
    ASSUME SessionInvariant, [SessionNext]_managerVars
    PROVE  ExitIsTheLastWord'
<1> USE DEF SessionInvariant, SessionTypeOK, ExitIsTheLastWord, ReapedIsDrained, OpensAreOrdered,
            CommandsNameSessions, LockIsHeld
<1>1. ASSUME NEW o \in Opens, OpenSpawn(o) \/ OpenInsert(o)
      PROVE  ExitIsTheLastWord'
    BY <1>1 DEF OpenSpawn, OpenInsert
<1>2. ASSUME NEW c \in Commands, NEW o \in Opens,
             NEW w \in {"write", "resize", "close"}, Call(c, w, o)
      PROVE  ExitIsTheLastWord'
    BY <1>2 DEF Call
<1>3. ASSUME NEW c \in Commands, CommandMisses(c)
      PROVE  ExitIsTheLastWord'
    BY <1>3 DEF CommandMisses, CommandReturns
<1>4. ASSUME NEW c \in Commands, WriteBegins(c) \/ WriteEnds(c)
      PROVE  ExitIsTheLastWord'
    BY <1>4 DEF WriteBegins, WriteEnds, CommandReturns
<1>5. ASSUME NEW c \in Commands, Resize(c) \/ Close(c)
      PROVE  ExitIsTheLastWord'
    BY <1>5 DEF Resize, Close, CommandReturns
<1>6. ASSUME NEW o \in Opens, PumpData(o) \/ PumpEnds(o)
      PROVE  ExitIsTheLastWord'
    BY <1>6 DEF PumpData, PumpEnds
<1>7. ASSUME NEW o \in Opens, PumpReap(o) \/ PumpExit(o)
      PROVE  ExitIsTheLastWord'
    BY <1>7 DEF PumpReap, PumpExit
<1>8. ASSUME NEW o \in Opens,
             \/ RemoteReads(o) \/ RemoteWrites(o)
             \/ RemoteExits(o) \/ WebviewGoes(o)
      PROVE  ExitIsTheLastWord'
    BY <1>8 DEF RemoteReads, RemoteWrites, RemoteExits, WebviewGoes
<1>9. CASE UNCHANGED managerVars
    BY <1>9 DEF managerVars
<1> QED
    BY <1>1, <1>2, <1>3, <1>4, <1>5, <1>6, <1>7, <1>8, <1>9 DEF SessionNext

(* Every step keeps the invariant.                                         *)
LEMMA NextHolds == SessionInvariant /\ [SessionNext]_managerVars => SessionInvariant'
BY TypeIsKept, OrderIsKept, LockIsKept, NamesAreKept, DrainIsKept,
   OwnerIsKept, ClosedIsKept, LastWordIsKept DEF SessionInvariant

-----------------------------------------------------------------------------
(* The inductive invariant holds in every reachable state of the sessions. *)
THEOREM SessionIsInvariant == SessionSpec => []SessionInvariant
<1>1. SessionInit => SessionInvariant
    BY InitHolds
<1>2. SessionInvariant /\ [SessionNext]_managerVars => SessionInvariant'
    BY NextHolds
<1> QED
    BY <1>1, <1>2, PTL DEF SessionSpec

(* No ssh child runs that nobody will kill or wait for, whatever opens,    *)
(* closes and reaps do to the map (attach.rs).                             *)
THEOREM ChildrenAreOwned == SessionSpec => []ChildHasAnOwner
<1>1. SessionInvariant => ChildHasAnOwner
    BY DEF SessionInvariant
<1> QED
    BY <1>1, SessionIsInvariant, PTL

(* attach_close returns only when the session's ssh is gone: killed by the *)
(* drop, or waited for by a pump that reaped it first.                     *)
THEOREM CloseKills == SessionSpec => []ClosedIsDead
<1>1. SessionInvariant => ClosedIsDead
    BY DEF SessionInvariant
<1> QED
    BY <1>1, SessionIsInvariant, PTL

(* The exit event follows all output of the session and its leaving the    *)
(* map.                                                                    *)
THEOREM ExitIsLast == SessionSpec => []ExitIsTheLastWord
<1>1. SessionInvariant => ExitIsTheLastWord
    BY DEF SessionInvariant
<1> QED
    BY <1>1, SessionIsInvariant, PTL

-----------------------------------------------------------------------------
(* The terminal UI                                                         *)

\* The screens that work on a probe of the highlighted host
ProbeScreens == {"Agents", "Sessions", "NewCwd", "NewDirConfirm", "Confirm", "RunningConfirm"}

SelectionTyped ==
    /\ sel \in [host : TuiHosts, agent : AgentKinds, row : Nat]
    /\ plan \in PlansMade \cup {None}

ProbeIsHighlighted == probe # None /\ probe.host = sel.host

\* A retry runs again the step that was made from the screen it goes back to.
RetryMatchesBack ==
    \/ retry = "Probe" /\ back = "Hosts"
    \/ retry = "Reload" /\ back \in {"Agents", "Sessions"}

\* The screens of a report lead back to where the probe is right.
ReportsLeadBack ==
    screen \in {"Problem", "Password"} /\ back # "Hosts" => ProbeIsHighlighted

TuiInvariant ==
    /\ SelectionTyped
    /\ RetryMatchesBack
    /\ ReportsLeadBack
    /\ ScreenMatchesSelection

(* The invariant holds on the first screen.                                *)
LEMMA TuiInitHolds == TuiInit => TuiInvariant
BY DEF TuiInit, TuiInvariant, SelectionTyped, RetryMatchesBack, ReportsLeadBack,
       ScreenMatchesSelection

(* What the screens rely on is left alone.                                 *)
LEMMA ScreenStays ==
    ASSUME TuiInvariant, UNCHANGED <<screen, sel, probe, pending, plan, retry, back>>
    PROVE  TuiInvariant'
BY DEF TuiInvariant, SelectionTyped, RetryMatchesBack, ReportsLeadBack, ScreenMatchesSelection,
       ProbeIsHighlighted, Highlighted

(* A round trip made from a screen s with the right probe ends on a screen *)
(* that needs no more than that, or in a report that leads back to s.      *)
LEMMA RoundTripLands ==
    ASSUME TuiInvariant, NEW o, NEW s \in {"Agents", "Sessions"}, NEW d,
           NEW to \in {"Hosts", "Agents", "Sessions", "NewCwd", "RunningConfirm"},
           ProbeIsHighlighted', SelectionTyped',
           Reports(o, "Reload", s, d), screen' = Shown(o, to)
    PROVE  TuiInvariant'
<1> USE DEF TuiInvariant, Reports, Shown, RetryMatchesBack, ReportsLeadBack,
            ScreenMatchesSelection, ProbeIsHighlighted
<1>1. CASE o.is = "problem"
    BY <1>1
<1>2. CASE o.is # "problem"
    BY <1>2
<1> QED
    BY <1>1, <1>2

(* probe_selected_host                                                     *)
LEMMA ProbesLand ==
    ASSUME TuiInvariant, NEW o, NEW c, Probes(o, c)
    PROVE  TuiInvariant'
<1> USE DEF TuiInvariant, RetryMatchesBack, ReportsLeadBack, ScreenMatchesSelection,
            SelectionTyped, ProbeIsHighlighted
<1>0. plan' = plan
    BY DEF Probes
<1>1. CASE screen' = "Password" /\ retry' = "Probe" /\ back' = "Hosts" /\ sel' = sel
    BY <1>0, <1>1
<1>2. CASE o = Done /\ Probes(o, c) /\ screen' = "Agents"
  <2>1. o.is # "problem"
    BY <1>2 DEF Done
  <2>2. retry' = retry /\ back' = back
    BY <1>2, <2>1 DEF Probes, Reports
  <2>3. Probed(sel.host) /\ \E a \in AgentKinds : sel' = [sel EXCEPT !.agent = a]
    BY <1>2 DEF Probes
  <2>4. ProbeIsHighlighted' /\ SelectionTyped'
    BY <1>0, <2>3, TuiAssumption DEF Probed, ProbesMade
  <2> QED
    BY <1>2, <2>2, <2>4
<1>3. CASE /\ o # Done /\ Reports(o, "Probe", "Hosts", None)
           /\ screen' = Shown(o, "Hosts") /\ sel' = sel
    BY <1>0, <1>3 DEF Reports, Shown
<1> QED
    BY <1>1, <1>2, <1>3 DEF Probes

(* reload_sessions and reload_probe_and_sessions, which report from s, the *)
(* screen they were asked on or the one the last report leads back to.     *)
LEMMA ListsLand ==
    ASSUME TuiInvariant, NEW p, NEW d, NEW to \in {"Sessions", "NewCwd"},
           ProbeIsHighlighted', SelectionTyped', Lists(p, d), screen' = Shown(p, to)
    PROVE  TuiInvariant'
BY RoundTripLands DEF Lists

(* A list that is loaded again keeps the invariant.                        *)
LEMMA ReloadsLand ==
    ASSUME TuiInvariant, ProbeIsHighlighted, NEW o, NEW p, NEW d, NEW c,
           NEW s \in {"Agents", "Sessions"}, Reloads(s, o, p, d, c), plan' \in {plan, None}
    PROVE  TuiInvariant'
<1>1. SelectionTyped' /\ sel' = sel
    BY DEF Reloads, TuiInvariant, SelectionTyped
<1>2. ProbeIsHighlighted'
  <2>1. CASE o = Done
    <3>1. Probed(sel.host)
      BY <2>1 DEF Reloads
    <3> QED
      BY <1>1, <3>1, TuiAssumption
      DEF Probed, ProbesMade, ProbeIsHighlighted, TuiInvariant, SelectionTyped
  <2>2. CASE o # Done
    BY <1>1, <2>2 DEF Reloads, ProbeIsHighlighted
  <2> QED
    BY <2>1, <2>2
<1>3. CASE o = Done /\ s \in {"Sessions", "NewCwd"}
    BY <1>1, <1>2, <1>3, ListsLand DEF Reloads
<1>4. CASE ~(o = Done /\ s \in {"Sessions", "NewCwd"})
    BY <1>1, <1>2, <1>4, RoundTripLands DEF Reloads
<1> QED
    BY <1>3, <1>4

(* What failed runs again: the probe, or the reload of a screen whose      *)
(* probe is right.                                                         *)
LEMMA RetriesLand ==
    ASSUME TuiInvariant, screen \in {"Problem", "Password"},
           NEW o, NEW p, NEW c, Retries(o, p, c)
    PROVE  TuiInvariant'
<1>1. CASE retry = "Probe"
    BY <1>1, ProbesLand DEF Retries
<1>2. CASE retry # "Probe"
  <2>1. back \in {"Agents", "Sessions"} /\ ProbeIsHighlighted
    BY <1>2 DEF TuiInvariant, RetryMatchesBack, ReportsLeadBack
  <2> QED
    BY <1>2, <2>1, ReloadsLand DEF Retries
<1> QED
    BY <1>1, <1>2

(* open_confirm, on the agent list or again on the confirmation            *)
LEMMA ConfirmLands ==
    ASSUME TuiInvariant, screen \in {"Agents", "Confirm"},
           NEW action \in Actions, NEW o, OpensConfirm(action, o)
    PROVE  TuiInvariant'
<1> USE DEF TuiInvariant, RetryMatchesBack, ReportsLeadBack, ScreenMatchesSelection,
            SelectionTyped, ProbeIsHighlighted
<1>1. /\ Reports(o, "Reload", "Agents", diag)
      /\ UNCHANGED <<sel, probe, pending>>
    BY DEF OpensConfirm
<1>2. CASE o = Done
  <2>1. o.is # "problem"
    BY <1>2 DEF Done
  <2>2. /\ plan' \in [of : {Highlighted}, action : {action}, can : BOOLEAN]
        /\ screen' = "Confirm"
    BY <1>2 DEF OpensConfirm
  <2>3. Highlighted \in TuiHosts \X AgentKinds /\ Highlighted' = Highlighted
    BY <1>1 DEF Highlighted
  <2>4. plan' \in PlansMade /\ plan' # None /\ plan'.of = Highlighted'
    BY <2>2, <2>3, TuiAssumption DEF PlansMade
  <2>5. retry' = retry /\ back' = back
    BY <1>1, <2>1 DEF Reports
  <2> QED
    BY <1>1, <2>2, <2>4, <2>5
<1>3. CASE o # Done
  <2>1. screen' = Shown(o, screen) /\ plan' = plan
    BY <1>3 DEF OpensConfirm
  <2>2. Highlighted' = Highlighted
    BY <1>1 DEF Highlighted
  <2> QED
    BY <1>1, <2>1, <2>2 DEF Reports, Shown
<1> QED
    BY <1>2, <1>3

(* start_session, from a screen of the highlighted host's sessions         *)
LEMMA StartsLand ==
    ASSUME TuiInvariant, ProbeIsHighlighted, NEW row \in Nat, NEW create, NEW begun, NEW o,
           Starts(row, create, begun, o)
    PROVE  TuiInvariant'
<1> USE DEF TuiInvariant, SelectionTyped, ProbeIsHighlighted
<1>1. UNCHANGED <<sel, probe, plan>> /\ Highlighted \in TuiHosts \X AgentKinds
    BY DEF Starts, DropsInto, dataVars, Highlighted
<1>2. ASSUME NEW p, DropsInto(p)
      PROVE  TuiInvariant'
    BY <1>1, <1>2, ListsLand DEF DropsInto
<1>3. CASE /\ pending' = [of |-> Highlighted, resume |-> row > 0]
           /\ screen' = "NewDirConfirm"
           /\ UNCHANGED <<plan, problemVars>>
  <2>1. pending' \in StartsAsked
    <3>1. (row > 0) \in BOOLEAN
      OBVIOUS
    <3> QED
      BY <1>1, <1>3, <3>1 DEF StartsAsked
  <2>2. pending' # None /\ pending'.of = Highlighted
    BY <1>3, <2>1, TuiAssumption
  <2> QED
    BY <1>1, <1>3, <2>2
    DEF RetryMatchesBack, ReportsLeadBack, ScreenMatchesSelection, Highlighted, problemVars
<1>4. CASE /\ Reports(begun, "Reload", "Sessions", diag)
           /\ screen' = Shown(begun, "Sessions")
    BY <1>1, <1>4, RoundTripLands
<1> QED
    BY <1>2, <1>3, <1>4 DEF Starts

-----------------------------------------------------------------------------
(* Every key and every answer keeps the invariant.                         *)
LEMMA TuiNextHolds == TuiInvariant /\ [TuiNext]_tuiVars => TuiInvariant'
<1> SUFFICES ASSUME TuiInvariant, [TuiNext]_tuiVars
             PROVE  TuiInvariant'
    OBVIOUS
<1> USE DEF problemVars, dataVars
\* The keys that only move about.
<1>1. ASSUME OtherScreens \/ LeaveAgents \/ LeaveConfirm \/ LeaveNewDir \/ LeavePassword
      PROVE  TuiInvariant'
    BY <1>1 DEF OtherScreens, LeaveAgents, LeaveConfirm, LeaveNewDir, LeavePassword, Moves,
        TuiInvariant, SelectionTyped, RetryMatchesBack, ReportsLeadBack,
        ScreenMatchesSelection, ProbeIsHighlighted, Highlighted
<1>2. CASE Select
    BY <1>2 DEF Select, TuiInvariant, SelectionTyped, RetryMatchesBack, ReportsLeadBack,
        ScreenMatchesSelection, ProbeIsHighlighted, Highlighted
<1>3. CASE CycleAuth \/ \E h \in TuiHosts : MasterExpires(h)
    BY <1>3, ScreenStays DEF CycleAuth, MasterExpires
<1>4. CASE LeaveProblem \/ OpenPrompt
    BY <1>4 DEF LeaveProblem, OpenPrompt, TuiInvariant, SelectionTyped, RetryMatchesBack,
        ReportsLeadBack, ScreenMatchesSelection, ProbeIsHighlighted
<1>5. ASSUME screen \in {"Sessions"}, BeginsNew
      PROVE  TuiInvariant'
    BY <1>5 DEF BeginsNew, TuiInvariant, SelectionTyped, RetryMatchesBack,
        ReportsLeadBack, ScreenMatchesSelection, ProbeIsHighlighted
<1>6. screen \in ProbeScreens => ProbeIsHighlighted
    BY DEF TuiInvariant, ScreenMatchesSelection, ProbeScreens, ProbeIsHighlighted
<1>7. sel.row \in Nat
    BY DEF TuiInvariant, SelectionTyped
<1>8. ASSUME NEW o, NEW p, RoundTrips(o, p)
      PROVE  TuiInvariant'
  <2>1. CASE EnterHost(o)
    BY <2>1, ProbesLand DEF EnterHost
  <2>2. CASE Refresh(o, p)
    BY <1>6, <2>2, ReloadsLand DEF Refresh, ProbeScreens
  <2>3. CASE Retry(o, p)
    BY <2>3, RetriesLand DEF Retry
  <2>4. CASE EnterAgent(o)
    <3>1. CASE ~Usable
      BY <2>4, <3>1, ConfirmLands DEF EnterAgent, Actions
    <3>2. CASE Usable
      <4>1. /\ screen' = "Sessions" /\ sel' = [sel EXCEPT !.row = 1]
            /\ UNCHANGED <<probe, plan, pending>>
            /\ Reports(o, "Reload", "Sessions", diag)
        BY <2>4, <3>2 DEF EnterAgent, Lists
      <4>2. ProbeIsHighlighted' /\ SelectionTyped'
        BY <1>6, <2>4, <4>1
        DEF EnterAgent, ProbeScreens, ProbeIsHighlighted, TuiInvariant, SelectionTyped
      <4> QED
        BY <4>1, <4>2 DEF Reports, TuiInvariant, RetryMatchesBack, ReportsLeadBack,
            ScreenMatchesSelection, ProbeIsHighlighted
    <3> QED
      BY <3>1, <3>2
  <2>5. CASE Replan(o)
    <3>1. plan.action \in Actions
      BY <2>5 DEF Replan, TuiInvariant, ScreenMatchesSelection, SelectionTyped, PlansMade
    <3> QED
      BY <2>5, <3>1, ConfirmLands DEF Replan
  <2>6. CASE ExecutePlan(o)
    BY <1>6, <2>6, ReloadsLand DEF ExecutePlan, ProbeScreens
  <2>7. CASE GithubSync(o)
    BY <2>7 DEF GithubSync, Reports, Shown, TuiInvariant, SelectionTyped, RetryMatchesBack,
        ReportsLeadBack, ScreenMatchesSelection, ProbeIsHighlighted
  <2>8. ASSUME NEW action \in Actions, AgentAction(action, o)
        PROVE  TuiInvariant'
    BY <2>8, ConfirmLands DEF AgentAction, Actions
  <2>9. CASE EnterSession(o, p)
    <3>1. screen = "Sessions" /\ ProbeIsHighlighted
      BY <1>6, <2>9 DEF EnterSession, ProbeScreens
    <3>2. CASE listed.rows = <<>>
      BY <1>5, <2>9, <3>1, <3>2 DEF EnterSession
    <3>3. CASE DropsInto(p) /\ UNCHANGED pending
      <4>1. ProbeIsHighlighted' /\ SelectionTyped'
        BY <3>1, <3>3 DEF DropsInto, ProbeIsHighlighted, TuiInvariant, SelectionTyped
      <4> QED
        BY <3>3, <4>1, ListsLand DEF DropsInto
    <3>4. CASE Moves("Sessions", "RunningConfirm") /\ UNCHANGED <<sel, dataVars>>
      BY <3>1, <3>4 DEF Moves, TuiInvariant, SelectionTyped, RetryMatchesBack,
          ReportsLeadBack, ScreenMatchesSelection, ProbeIsHighlighted
    <3>5. CASE Starts(sel.row, FALSE, o, p)
      BY <2>9, <3>1, <3>5, <1>7, StartsLand
    <3> QED
      BY <2>9, <3>2, <3>3, <3>4, <3>5 DEF EnterSession
  <2>10. CASE ConfirmRunning(o, p)
    BY <1>6, <1>7, <2>10, StartsLand DEF ConfirmRunning, ProbeScreens
  <2>11. CASE StartFromCwd(o, p)
    BY <1>6, <2>11, StartsLand DEF StartFromCwd, ProbeScreens
  <2>12. CASE ConfirmNewDir(o, p)
    BY <1>6, <2>12, StartsLand DEF ConfirmNewDir, ProbeScreens
  <2> QED
    BY <1>8, <2>1, <2>2, <2>3, <2>4, <2>5, <2>6, <2>7, <2>8, <2>9, <2>10, <2>11, <2>12
    DEF RoundTrips
<1>9. ASSUME NEW pw, NEW o, NEW p, Authenticate(pw, o, p)
      PROVE  TuiInvariant'
    BY <1>9, RetriesLand, ScreenStays DEF Authenticate, tuiVars
<1>10. ASSUME NEW pw, NEW o, NEW p, EnterPassword(pw, o, p)
      PROVE  TuiInvariant'
    BY <1>10, RetriesLand DEF EnterPassword
<1>11. CASE UNCHANGED tuiVars
    BY <1>11, ScreenStays DEF tuiVars
<1> QED
    BY <1>1, <1>2, <1>3, <1>4, <1>5, <1>8, <1>9, <1>10, <1>11 DEF TuiNext, BeginNew

-----------------------------------------------------------------------------
(* The inductive invariant of the screens: retry and back go together, and *)
(* the screen a report leads back to has the probe it needs.               *)
THEOREM TuiIsInvariant == TuiSpec => []TuiInvariant
<1>1. TuiInit => TuiInvariant
    BY TuiInitHolds
<1>2. TuiInvariant /\ [TuiNext]_tuiVars => TuiInvariant'
    BY TuiNextHolds
<1> QED
    BY <1>1, <1>2, PTL DEF TuiSpec

(* Whatever way a screen was reached, by keys, reports, retries or         *)
(* prompts, it works on the probe, plan and request of what the user       *)
(* highlighted (tui.rs: probe_selected_host, open_confirm, start_session,  *)
(* retry_problem).                                                         *)
THEOREM ScreensMatch == TuiSpec => []ScreenMatchesSelection
<1>1. TuiInvariant => ScreenMatchesSelection
    BY DEF TuiInvariant
<1> QED
    BY <1>1, TuiIsInvariant, PTL

-----------------------------------------------------------------------------
(* The directory picker                                                    *)

\* What is shown as listed is a path, its parent and names of directories.
PickerInvariant ==
    /\ remote \in Boxes
    /\ cwds \in Seq(PathText \cup {None})
    /\ cwdInput \in PathText
    /\ dirListing # None =>
        /\ dirListing \in Listing
        /\ dirListing.parent = ScriptParent(dirListing.cwd)

(* A path means a sequence of names, and so do the paths made of it.       *)
LEMMA WhereIsNames ==
    ASSUME PickerInvariant, NEW p \in PathText
    PROVE  Where(p) \in Seq(STRING)
BY DirPickerAssumption, ConcatProperties DEF PickerInvariant, Where, PathText

(* What Front keeps of a sequence that is not empty.                       *)
LEMMA FrontIsShorter ==
    ASSUME NEW s \in Seq(STRING), s # <<>>
    PROVE  /\ Front(s) \in Seq(STRING)
           /\ Len(s) \in Nat \ {0}
           /\ Len(Front(s)) = Len(s) - 1
           /\ \A i \in 1 .. (Len(s) - 1) : Front(s)[i] = s[i]
<1>1. Len(s) \in Nat \ {0}
    BY EmptySeq
<1>2. PICK n \in Nat : n = Len(s) - 1
    BY <1>1
<1>3. \A i \in 1 .. n : s[i] \in STRING
    BY <1>1, <1>2, ElementOfSeq
<1>4. Front(s) = SubSeq(s, 1, n)
    BY <1>2 DEF Front
<1>5. /\ SubSeq(s, 1, n) \in Seq(STRING)
      /\ Len(SubSeq(s, 1, n)) = IF 1 <= n THEN n - 1 + 1 ELSE 0
      /\ \A i \in 1 .. n - 1 + 1 : SubSeq(s, 1, n)[i] = s[1 + i - 1]
    BY <1>3, SubSeqProperties
<1>6. n = IF 1 <= n THEN n - 1 + 1 ELSE 0
    OBVIOUS
<1>7. \A i \in 1 .. n : SubSeq(s, 1, n)[i] = s[i]
  <2> TAKE i \in 1 .. n
  <2>1. 1 + i - 1 = i /\ i \in 1 .. n - 1 + 1
    OBVIOUS
  <2> QED
    BY <1>5, <2>1
<1> QED
    BY <1>1, <1>2, <1>4, <1>5, <1>6, <1>7

(* Front of a concatenation is that of its second part.                    *)
LEMMA FrontOfConcat ==
    ASSUME NEW a \in Seq(STRING), NEW b \in Seq(STRING), b # <<>>
    PROVE  /\ a \o b # <<>>
           /\ a \o Front(b) = Front(a \o b)
<1>1. PICK s \in Seq(STRING) : s = a \o b
    BY ConcatProperties
<1>2. /\ Len(a) \in Nat /\ Len(b) \in Nat \ {0} /\ Len(s) = Len(a) + Len(b)
      /\ \A i \in 1 .. Len(s) : s[i] = IF i <= Len(a) THEN a[i] ELSE b[i - Len(a)]
    BY <1>1, EmptySeq, LenProperties, ConcatProperties
<1>3. s # <<>>
    BY <1>2, EmptySeq
<1>4. PICK f \in Seq(STRING) : f = Front(b)
    BY FrontIsShorter
<1>5. Len(f) = Len(b) - 1 /\ \A i \in 1 .. Len(f) : f[i] = b[i]
    BY <1>4, FrontIsShorter
<1>6. PICK t \in Seq(STRING) : t = a \o f
    BY ConcatProperties
<1>7. /\ Len(t) = Len(a) + Len(f)
      /\ \A i \in 1 .. Len(t) : t[i] = IF i <= Len(a) THEN a[i] ELSE f[i - Len(a)]
    BY <1>6, ConcatProperties
<1>8. PICK u \in Seq(STRING) : u = Front(s)
    BY <1>3, FrontIsShorter
<1>9. Len(u) = Len(s) - 1 /\ \A i \in 1 .. Len(u) : u[i] = s[i]
    BY <1>3, <1>8, FrontIsShorter
<1>10. Len(t) = Len(u)
    BY <1>2, <1>5, <1>7, <1>9
<1>11. ASSUME NEW i \in 1 .. Len(t)
       PROVE  t[i] = u[i]
  <2>1. Len(t) \in Nat /\ i \in 1 .. Len(s) /\ i \in 1 .. Len(u)
    BY <1>2, <1>5, <1>7, <1>10
  <2>2. CASE i <= Len(a)
    BY <1>2, <1>7, <1>9, <2>1, <2>2
  <2>3. CASE ~(i <= Len(a))
    <3>1. i - Len(a) \in 1 .. Len(f)
      BY <1>2, <1>5, <1>7, <2>1, <2>3
    <3> QED
      BY <1>2, <1>5, <1>7, <1>9, <2>1, <2>3, <3>1
  <2> QED
    BY <2>2, <2>3
<1>12. t = u
    BY <1>10, <1>11, SeqEqual
<1> QED
    BY <1>1, <1>3, <1>4, <1>6, <1>8, <1>12

(* The last name of a path is a name.                                      *)
LEMMA LastIsAName ==
    ASSUME NEW s \in Seq(STRING), s # <<>>
    PROVE  Last(s) \in STRING
BY DEF Last

(* One up from a path is a path.                                           *)
LEMMA UpIsAPath ==
    ASSUME NEW p \in PathText, p.names # <<>>
    PROVE  Up(p) \in PathText
BY FrontIsShorter DEF Up, Path, PathText

(* Both ways of taking a parent give a path.                               *)
LEMMA ParentsArePaths ==
    ASSUME NEW p \in PathText
    PROVE  /\ ParentDir(p) \in PathText
           /\ ScriptParent(p) \in PathText
<1>1. PosixParent(p) \in PathText
    BY UpIsAPath DEF PosixParent, Path, PathText
<1>2. WinParent(p) \in PathText
    BY UpIsAPath DEF WinParent, Path, PathText
<1>3. Path(p.at, p.names) \in PathText
    BY DEF Path, PathText
<1> QED
    BY <1>1, <1>2, <1>3, UpIsAPath DEF ParentDir, ScriptParent

(* Expanding the home directory leads to the same place.                   *)
LEMMA ExpandIsSamePlace ==
    ASSUME PickerInvariant, NEW p \in PathText
    PROVE  Expand(p) \in PathText /\ Where(Expand(p)) = Where(p)
<1>1. CASE p.at # "home"
    BY <1>1 DEF Expand
<1>2. CASE p.at = "home"
  <2>1. Where(p) \in Seq(STRING)
    BY WhereIsNames
  <2>2. Expand(p) = [p EXCEPT !.at = "root", !.names = Where(p)]
    BY <1>2 DEF Expand
  <2>3. Expand(p) \in PathText /\ Expand(p).at = "root" /\ Expand(p).names = Where(p)
    BY <2>1, <2>2 DEF PathText
  <2> QED
    BY <2>3 DEF Where
<1> QED
    BY <1>1, <1>2

(* A round trip leaves the field on the place it was asked for, listed or  *)
(* not.                                                                    *)
LEMMA RefreshKeepsThePlace ==
    ASSUME PickerInvariant, NEW p \in PathText, Refreshes(p)
    PROVE  PickerInvariant' /\ Where(cwdInput') = Where(p)
<1> DEFINE found == IF p.at = "empty" THEN None ELSE ListDirs(Expand(p))
<1>1. /\ dirListing' = found
      /\ cwdInput' = IF found = None THEN p ELSE found.cwd
      /\ remote' = remote /\ cwds' = cwds
    BY DEF Refreshes
<1>2. CASE found = None
    BY <1>1, <1>2 DEF PickerInvariant
<1>3. CASE found # None
  <2> DEFINE e == Expand(p)
             inside == {d \in remote.dirs : Len(d) = Len(Where(e)) + 1 /\ Front(d) = Where(e)}
  <2>1. e \in PathText /\ Where(e) = Where(p)
    BY ExpandIsSamePlace
  <2>2. found = [cwd |-> e, parent |-> ScriptParent(e), dirs |-> {Last(d) : d \in inside}]
    BY <1>3 DEF ListDirs
  <2>3. Where(e) \in Seq(STRING) /\ remote.dirs \in SUBSET Seq(STRING)
    BY <2>1, WhereIsNames, DirPickerAssumption DEF PickerInvariant
  <2>4. \A d \in inside : d \in Seq(STRING) /\ d # <<>>
    BY <2>3, EmptySeq, LenProperties
  <2>5. {Last(d) : d \in inside} \in SUBSET STRING
    BY <2>4, LastIsAName
  <2>6. ScriptParent(e) \in PathText
    BY <2>1, ParentsArePaths
  <2> HIDE DEF inside, e, found
  <2>7. found \in Listing /\ found.cwd = e /\ found.parent = ScriptParent(e)
    BY <2>1, <2>2, <2>5, <2>6 DEF Listing
  <2> QED
    BY <1>1, <1>3, <2>1, <2>7 DEF PickerInvariant, ScriptParent, Windows
<1> QED
    BY <1>2, <1>3

(* The parent is the directory above, for every path the picker gets right. *)
LEMMA ParentIsAbove ==
    ASSUME PickerInvariant, NEW p \in PathText, Full(p), NEW up \in {ParentDir(p), ScriptParent(p)}
    PROVE  Where(up) = IF Where(p) = <<>> THEN <<>> ELSE Front(Where(p))
<1>1. CASE p.names = <<>>
  <2>1. p.at = "root" /\ Where(p) = <<>>
    BY <1>1 DEF Full, Where
  <2>2. up.at = "root" /\ up.names = <<>>
    BY <1>1, <2>1
    DEF Full, ParentDir, ScriptParent, PosixParent, WinParent, Path, Windows
  <2> QED
    BY <2>1, <2>2 DEF Where
<1>2. CASE p.names # <<>>
  <2>1. up = Up(p)
    BY <1>2 DEF Full, ParentDir, ScriptParent, PosixParent, WinParent, Windows, PathText
  <2>2. up.at = p.at /\ up.names = Front(p.names) /\ p.names \in Seq(STRING)
    BY <2>1 DEF Up, Path, PathText
  <2>3. CASE p.at = "root"
    BY <1>2, <2>2, <2>3 DEF Where
  <2>4. CASE p.at = "home"
    <3>1. remote.home \in Seq(STRING)
      BY DirPickerAssumption DEF PickerInvariant
    <3>2. /\ remote.home \o p.names # <<>>
          /\ remote.home \o Front(p.names) = Front(remote.home \o p.names)
      BY <1>2, <2>2, <3>1, FrontOfConcat
    <3> QED
      BY <2>2, <2>4, <3>2 DEF Where
  <2> QED
    BY <2>3, <2>4 DEF Full
<1> QED
    BY <1>1, <1>2

(* Joining a name leads one below.                                         *)
LEMMA ChildIsBelow ==
    ASSUME PickerInvariant, NEW p \in PathText, NEW name \in STRING
    PROVE  /\ JoinDir(p, name) \in PathText
           /\ Full(p) => Where(JoinDir(p, name)) = Append(Where(p), name)
<1>1. p.names \in Seq(STRING) /\ remote.home \in Seq(STRING)
    BY DirPickerAssumption DEF PickerInvariant, PathText
<1>2. Append(p.names, name) \in Seq(STRING)
    BY <1>1, AppendProperties
<1>3. remote.home \o Append(p.names, name) = Append(remote.home \o p.names, name)
  <2>1. remote.home \o p.names \in Seq(STRING) /\ <<name>> \in Seq(STRING)
    BY <1>1, ConcatProperties
  <2>2. remote.home \o Append(p.names, name) = remote.home \o (p.names \o <<name>>)
    BY <1>1, AppendIsConcat
  <2>3. @ = (remote.home \o p.names) \o <<name>>
    <3>1. \A a, b, c \in Seq(STRING) : (a \o b) \o c = a \o (b \o c)
      BY ConcatAssociative
    <3> QED
      BY <1>1, <2>1, <3>1
  <2>4. @ = Append(remote.home \o p.names, name)
    BY <2>1, AppendIsConcat
  <2> QED
    BY <2>2, <2>3, <2>4
<1> QED
    BY <1>2, <1>3 DEF JoinDir, Path, PathText, Full, Where

(* A row leads to a path, and to where it says if the directory on the     *)
(* screen is one the picker gets right.                                    *)
LEMMA RowLeads ==
    ASSUME PickerInvariant, NEW row \in PickerRows
    PROVE  /\ Navigate(row) \in PathText
           /\ Full(OnScreen) =>
                Where(Navigate(row)) =
                    CASE row.is = "recent" -> Where(row.path)
                      [] row.is = "child"  -> Append(Where(OnScreen), row.name)
                      [] row.is = "parent" -> IF Where(OnScreen) = <<>> THEN <<>>
                                              ELSE Front(Where(OnScreen))
<1>1. OnScreen \in PathText /\ PickerBase = OnScreen
    BY DEF OnScreen, PickerBase, PickerInvariant, Listing
<1>2. CASE row.is = "recent"
  <2>1. row.path \in Recents
    BY <1>2 DEF PickerRows, Row
  <2>2. row.path \in PathText
    BY <2>1, ElementOfSeq DEF Recents, ToSet, PickerInvariant
  <2> QED
    BY <1>2, <2>2 DEF Navigate
<1>3. CASE row.is = "child"
  <2>1. dirListing # None /\ row.name \in dirListing.dirs
    BY <1>3 DEF PickerRows, Row
  <2>2. row.name \in STRING
    BY <2>1 DEF PickerInvariant, Listing
  <2> QED
    BY <1>1, <1>3, <2>2, ChildIsBelow DEF Navigate
<1>4. CASE row.is = "parent"
  <2>1. Navigate(row) \in {ParentDir(OnScreen), ScriptParent(OnScreen)}
    BY <1>1, <1>4 DEF Navigate, OnScreen, PickerInvariant
  <2> QED
    BY <1>1, <1>4, <2>1, ParentsArePaths, ParentIsAbove
<1> QED
    BY <1>2, <1>3, <1>4 DEF PickerRows, Row

(* The picker's invariant holds before it is opened.                       *)
LEMMA PickerInitHolds == DirPickerInit => PickerInvariant
<1> SUFFICES ASSUME DirPickerInit PROVE PickerInvariant
    OBVIOUS
<1>1. Path("empty", <<>>) \in PathText
    BY DEF Path, PathText
<1> QED
    BY <1>1, DirPickerAssumption DEF DirPickerInit, PickerInvariant

(* Every step of the picker keeps it.                                      *)
LEMMA PickerNextHolds ==
    PickerInvariant /\ [DirPickerNext]_dirPickerVars => PickerInvariant'
<1> SUFFICES ASSUME PickerInvariant, [DirPickerNext]_dirPickerVars
             PROVE  PickerInvariant'
    OBVIOUS
<1>1. CASE Begins
  <2>1. Path("root", remote.home) \in PathText
    BY DirPickerAssumption DEF PickerInvariant, Path, PathText
  <2>2. \A i \in DOMAIN cwds : cwds[i] # None => cwds[i] \in PathText
    BY ElementOfSeq DEF PickerInvariant
  <2> QED
    BY <1>1, <2>1, <2>2, RefreshKeepsThePlace DEF Begins
<1>2. CASE Types
    BY <1>2, DirPickerAssumption DEF Types, PickerInvariant, ScriptParent, Windows
<1>3. CASE Relists
    BY <1>3, RefreshKeepsThePlace DEF Relists, PickerInvariant
<1>4. ASSUME NEW row \in PickerRows, Picks(row)
      PROVE  PickerInvariant'
    BY <1>4, RowLeads, RefreshKeepsThePlace DEF Picks
<1>5. CASE UNCHANGED dirPickerVars
    BY <1>5 DEF dirPickerVars, PickerInvariant, ScriptParent, Windows
<1> QED
    BY <1>1, <1>2, <1>3, <1>4, <1>5 DEF DirPickerNext

(* The picker's inductive invariant.                                       *)
THEOREM PickerIsInvariant == DirPickerSpec => []PickerInvariant
<1>1. DirPickerInit => PickerInvariant
    BY PickerInitHolds
<1>2. PickerInvariant /\ [DirPickerNext]_dirPickerVars => PickerInvariant'
    BY PickerNextHolds
<1> QED
    BY <1>1, <1>2, PTL DEF DirPickerSpec

(* A row leads where it says, though the text was edited since the listing *)
(* and the path is expanded on its way (tui.rs, navigate_picker; dirs.rs,  *)
(* join_dir; faragent-core, expand_home).                                  *)
THEOREM RowsLead == DirPickerSpec => RowsLeadWhereTheySay
<1> DEFINE Leads ==
        \A row \in PickerRows :
          Picks(row) /\ Full(OnScreen) =>
              Where(cwdInput') =
                  CASE row.is = "recent" -> Where(row.path)
                    [] row.is = "child"  -> Append(Where(OnScreen), row.name)
                    [] row.is = "parent" -> IF Where(OnScreen) = <<>> THEN <<>>
                                            ELSE Front(Where(OnScreen))
<1>1. PickerInvariant => Leads
    BY RowLeads, RefreshKeepsThePlace DEF Picks
<1>2. PickerInvariant /\ [DirPickerNext]_dirPickerVars => [Leads]_dirPickerVars
    BY <1>1
<1> QED
    BY <1>2, PickerIsInvariant, PTL DEF DirPickerSpec, RowsLeadWhereTheySay
=============================================================================
