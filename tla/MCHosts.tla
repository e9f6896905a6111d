------------------------------ MODULE MCHosts ------------------------------
(* What must never happen, one part per behaviour: watches and terminals,  *)
(* installing the helper, passwords, agent sessions, the helper's answers, *)
(* installing agents, choosing a directory, and the TUI. `focus` names the *)
(* part that runs; the others stay in one initial state.                   *)
EXTENDS WatchPool, SessionManager, HelperInstall, Askpass, RemoteSessions,
        Fallback, AgentInstall, DirPicker, Tui, TLC

CONSTANTS u1, u2, u3, v1, v2, w1, w2, h1, h2, i1, i2

VARIABLE focus

\* A Linux host, and an Arm one of a system no helper is built for
TwoUnames == {<<"linux", "amd64">>, <<"mingw", "arm64">>}
PasswordHosts == [accepts : [TuiHosts -> {"password"}], mux : {TRUE}, noise : [TuiHosts -> {{}}]]
AutoMode == <<"auto">>

\* Worktrees that differ in what one operation reads of them
Change(tag, xy, name) ==
    [tag |-> tag, xy |-> xy, path |-> name,
     orig |-> [tag |-> "1", xy |-> <<".", "M">>, path |-> "old"]]
Changes == {Change("1", <<"M", ".">>, "p"), Change("2", <<"R", ".">>, "q"),
            Change("u", <<"U", "U">>, "r"), Change("?", <<"?", "?">>, "s")}
Bare == [dirs |-> <<"none", "file">>, changes |-> <<>>, patch |-> 1, refs |-> <<>>,
         commits |-> <<>>, kind |-> "file", names |-> <<>>, bytes |-> <<>>,
         hidden |-> FALSE, readable |-> TRUE]
Trees ==
    {[Bare EXCEPT !.changes = c, !.patch = p] : c \in SeqOf(Changes, 3), p \in {1, 3}}
    \cup {[Bare EXCEPT !.commits = [i \in DOMAIN c |-> [id |-> i, split |-> c[i]]], !.bytes = b] :
              c \in SeqOf({FALSE}, 5) \cup SeqOf(BOOLEAN, 3),
              b \in SeqOf({"t"}, 4) \cup SeqOf({"t", "nul"}, 3)}
    \cup {[Bare EXCEPT !.kind = k, !.names = n, !.hidden = a[1], !.readable = a[2]] :
              k \in {"none", "file", "dir", "other"} \cup Links, n \in {<<3, 1>>, <<3, 1, 2>>},
              a \in {<<FALSE, TRUE>>, <<FALSE, FALSE>>, <<TRUE, TRUE>>}}
    \cup {[Bare EXCEPT !.dirs = d] : d \in SeqOf({"none", "file", "dir", "link", "other"}, 3)}
    \cup {[Bare EXCEPT !.refs = [i \in DOMAIN s |-> [name |-> i, counts |-> s[i]]]] :
              s \in SeqOf(BOOLEAN, 3)}
AllRequests ==
    [op : {"git.status", "git.branches", "fs.list", "fs.stat", "git.discover"},
     filesOnly : {FALSE}, limit : {0}, skip : {0}]
    \cup [op : {"git.diff"}, filesOnly : BOOLEAN, limit : {0}, skip : {0}]
    \cup [op : {"git.log", "fs.read"}, filesOnly : {FALSE}, limit : 0..4, skip : 0..2]

AnyTools == {{}, {"base64"}, {"base64", "git"}}
Edited == {[Bare EXCEPT !.dirs = <<"none">>], [Bare EXCEPT !.changes = <<Change("2", <<"R", ".">>, "q")>>]}

\* Two levels of directories, any of which may be closed to the listing
Tree == {<<>>, <<"a">>, <<"b">>, <<"a", "b">>}
Remotes == [os : {"posix", "windows"}, home : {<<"a">>, <<"a", "b">>}, dirs : {Tree},
            open : {{<<>>} \cup o : o \in SUBSET (Tree \ {<<>>})}]
TypedPaths == {Path("root", <<"a">>), [Path("root", <<"a">>) EXCEPT !.slash = TRUE], Path("home", <<"b">>),
               Path("here", <<>>), Path("bare", <<"b">>), Path("drive", <<>>), Path("empty", <<>>)}
Sessions == {<<>>, <<None, Path("root", <<"a", "b">>), Path("empty", <<>>)>>}

appVars == <<watchVars, managerVars>>
hostVars == <<installVars, askpassVars, remoteSessionVars, opsVars, fallbackVars, agentInstallVars>>
screenVars == <<tuiVars, dirPickerVars>>

HostsInit ==
    /\ focus \in {"pool", "sessions", "helper", "askpass", "remote", "ops", "fallback", "agents", "dirs", "tui"}
    /\ PoolInit /\ SessionInit
    /\ InstallInit /\ (focus # "helper" =>
           /\ host = [os |-> "posix", uname |-> <<"linux", "amd64">>, tool |-> TRUE, noexec |-> FALSE]
           /\ ships = [i \in Installers |-> None] /\ file = None)
    /\ AskpassInit /\ (focus # "askpass" => authMode = [h \in AskHosts |-> "auto"])
    /\ RemoteSessionsInit /\ (focus # "remote" => os = "posix" /\ pinnable /\ dir /\ agents = {})
    /\ (os = "windows" \/ ~pinnable => dir /\ agents = {})
    /\ FallbackInit /\ (focus \notin {"ops", "fallback"} => tree = Bare)
    /\ (focus # "fallback" => tools = {"base64", "git"})
    /\ (tools # {"base64", "git"} => tree = Bare)
    /\ (focus = "fallback" => tree.patch = 1 /\ tree.refs = <<>>)
    /\ AgentInstallInit /\ (focus # "agents" =>
           product = "claude" /\ box = [os |-> "posix", pkg |-> "none", has |-> {}])
    /\ DirPickerInit /\ (focus # "dirs" =>
           cwds = <<>> /\ remote = [os |-> "posix", home |-> <<"a">>, dirs |-> Tree, open |-> {<<>>}])
    /\ TuiInit /\ (focus # "tui" =>
           screen = "Hosts" /\ sel.host = h1)
    /\ ssh.known = TuiHosts

HostsNext ==
    \/ focus = "pool" /\ PoolNext /\ UNCHANGED <<focus, managerVars, hostVars, screenVars>>
    \/ focus = "sessions" /\ SessionNext /\ UNCHANGED <<focus, watchVars, hostVars, screenVars>>
    \/ focus = "helper" /\ InstallNext
       /\ UNCHANGED <<focus, appVars, askpassVars, remoteSessionVars, opsVars, fallbackVars,
                      agentInstallVars, screenVars>>
    \/ focus = "askpass" /\ AskpassNext
       /\ UNCHANGED <<focus, appVars, installVars, remoteSessionVars, opsVars, fallbackVars,
                      agentInstallVars, screenVars>>
    \/ focus = "remote" /\ RemoteSessionsNext
       /\ UNCHANGED <<focus, appVars, installVars, askpassVars, opsVars, fallbackVars,
                      agentInstallVars, screenVars>>
    \/ focus = "ops" /\ OpsNext
       /\ UNCHANGED <<focus, appVars, installVars, askpassVars, remoteSessionVars,
                      fallbackVars, agentInstallVars, screenVars>>
    \/ focus = "fallback" /\ FallbackNext
       /\ UNCHANGED <<focus, appVars, installVars, askpassVars, remoteSessionVars,
                      agentInstallVars, screenVars>>
    \/ focus = "agents" /\ AgentInstallNext
       /\ UNCHANGED <<focus, appVars, installVars, askpassVars, remoteSessionVars, opsVars,
                      fallbackVars, screenVars>>
    \/ focus = "tui" /\ TuiNext /\ UNCHANGED <<focus, appVars, hostVars, dirPickerVars>>
    \/ focus = "dirs" /\ DirPickerNext /\ UNCHANGED <<focus, appVars, hostVars, tuiVars>>

HostsSpec == HostsInit /\ [][HostsNext]_<<focus, appVars, hostVars, screenVars>>

Symmetric == Permutations({v1, v2})

HostsTypeOK ==
    \/ focus = "pool" /\ PoolTypeOK
    \/ focus = "sessions" /\ SessionTypeOK
    \/ focus = "helper" /\ InstallTypeOK
    \/ focus = "askpass" /\ AskpassTypeOK
    \/ focus = "remote" /\ RemoteSessionsTypeOK
    \/ focus = "agents" /\ AgentInstallTypeOK
    \/ focus = "tui" /\ TuiTypeOK
    \/ focus \in {"ops", "fallback", "dirs"}
=============================================================================
