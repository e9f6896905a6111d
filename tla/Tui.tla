-------------------------------- MODULE Tui --------------------------------
(***************************************************************************)
(* The terminal UI (faragent-tui tui.rs, pty.rs) over the diagnosis of a   *)
(* failed ssh (faragent-service diagnose.rs, error_for and the flavors of  *)
(* faragent-transport ssh.rs). One key press runs one handler to its end,  *)
(* round trips included: a handler is an action, the outcomes of its round *)
(* trips are its choices. What the App holds outlives the screen it was    *)
(* made for, so every handler relies on what earlier ones left behind.     *)
(***************************************************************************)
EXTENDS Naturals, Sequences, Absent

CONSTANTS
    TuiHosts,    \* rows of the host list
    AgentKinds,  \* the agents, each probed for
    Worlds,      \* what a host accepts and what its ssh prints: see TuiInit
    AuthModes,   \* the modes `g` cycles through, in order
    Troubles,    \* failures other than of credentials that a round trip may meet
    MaxRows      \* bound: sessions listed

Actions == {"Install", "Upgrade", "Uninstall"}
ProbesMade == [host : TuiHosts, found : SUBSET AgentKinds, supported : BOOLEAN]
PlansMade == [of : TuiHosts \X AgentKinds, action : Actions, can : BOOLEAN]
StartsAsked == [of : TuiHosts \X AgentKinds, resume : BOOLEAN]

ASSUME TuiAssumption ==
    /\ MaxRows \in Nat
    /\ AuthModes \in Seq({"auto", "key", "password"})
    /\ None \notin ProbesMade \cup PlansMade \cup StartsAsked

VARIABLES
    world,     \* the hosts, and whether this machine's ssh multiplexes
    auth,      \* App.auth: the sign-in mode of each host
    ssh,       \* what an ssh run has: the hosts whose key is in known_hosts, those
               \* with a live ControlMaster, the password askpass holds for each
    screen,    \* App.screen
    sel,       \* the highlighted host, agent and session row
    probe,     \* App.probe, with the host it was made of
    listed,    \* App.sessions, with the host and agent they were read from
    pending,   \* App.pending, with the host and agent it was asked for
    plan,      \* App.plan, with its host
    diag,      \* App.diag
    retry,     \* App.retry
    back       \* App.problem_from

problemVars == <<diag, retry, back>>
dataVars == <<probe, listed, pending, plan>>
tuiVars == <<world, auth, ssh, screen, sel, dataVars, problemVars>>

Screens == {"Language", "Hosts", "Agents", "Sessions", "NewCwd", "NewDirConfirm",
            "GithubConfirm", "Confirm", "Problem", "Password", "RunningConfirm", "quit"}
SessionRows == {"live", "running", "idle"}

-----------------------------------------------------------------------------
(* The diagnosis. What ssh prints is the set of rules of `classify` it     *)
(* would match, plus the methods a server lists when it refuses.           *)
Order == <<"ssh_missing", "host_key_changed", "version_mismatch", "host_key_unknown",
           "private_file_permissions", "key_passphrase", "key_unreadable", "key_missing",
           "too_many_auth_failures", "kex_closed", "connection_timeout", "connection_refused",
           "no_route", "dns_failure", "remote_bash", "remote_shell_unsupported",
           "password_denied", "permission denied">>
Problems == {Order[i] : i \in 1..(Len(Order) - 1)}
                \cup {"publickey_denied", "needs_password", "unknown"}

Classify(raw) ==
    LET hits == {i \in 1..Len(Order) : Order[i] \in raw}
        first == Order[CHOOSE i \in hits : \A j \in hits : i <= j]
    IN IF hits = {} THEN "unknown"
       ELSE IF first # "permission denied" THEN first
       ELSE IF "password" \in raw THEN "needs_password" ELSE "publickey_denied"

IsAuthFailure(raw) ==
    raw \cap {"permission denied", "password_denied", "too_many_auth_failures"} # {}

\* error_for: on a refusal, the server is asked for its methods (not in password mode)
NeedsAuth(m, raw, offers) ==
    IsAuthFailure(raw) /\ (m = "password" \/ offers \/ "password" \in raw)

Diagnosis(h, raw) ==
    [problem    |-> Classify(raw),
     needs_auth |-> NeedsAuth(auth[h], raw, auth[h] # "password" /\ world.accepts[h] = "password")]

\* OpenSshTransport::flavor and args_for: what a non-interactive ssh may try
Mutant_FlavorForgetsAuto(h, c) ==
    IF auth[h] = "key" THEN "Key"
    ELSE IF auth[h] = "password" /\ c.held[h] # None THEN "InteractivePassword"
    ELSE "BatchPassword"
Flavor(h, c) ==
    IF auth[h] = "key" THEN "Key"
    ELSE IF c.held[h] = None THEN "BatchPassword"
    ELSE IF auth[h] = "auto" THEN "InteractiveKey" ELSE "InteractivePassword"
InteractiveFlavor(h) == IF auth[h] = "password" THEN "InteractivePassword" ELSE "InteractiveKey"

\* Does sshd let this flavor in, when a prompt is answered with password p?
Accepted(h, flavor, p) ==
    IF world.accepts[h] = "key" THEN flavor # "InteractivePassword"
    ELSE flavor \in {"InteractiveKey", "InteractivePassword"} /\ p = "right"
SignedIn(h, c) == h \in c.master \/ (h \in c.known /\ Accepted(h, Flavor(h, c), c.held[h]))
Refusal(h, c) ==
    IF h \notin c.known THEN {"host_key_unknown"}
    ELSE world.noise[h] \cup {"permission denied"}
             \cup (IF world.accepts[h] = "password" THEN {"password"} ELSE {})

(* One round trip: it works, it fails to connect with a report, or it      *)
(* fails in a way that is no connection problem (a one-line error).        *)
Done == [is |-> "ok"]
Plain == [is |-> "error"]
Failure(d) == [is |-> "problem", diag |-> d]
Attempt(h, c) == IF SignedIn(h, c) THEN Done ELSE Failure(Diagnosis(h, Refusal(h, c)))
Outcomes(h, c) == {Attempt(h, c), Plain} \cup {Failure(Diagnosis(h, {t})) : t \in Troubles}

\* ControlMaster=auto: the first connection that authenticates is the master
WithMaster(h, c) == IF world.mux THEN [c EXCEPT !.master = @ \cup {h}] ELSE c
Connected(h, o, c) == ssh' = IF o = Done THEN WithMaster(h, c) ELSE c

(* report_error: a connection failure becomes the report and asks for the  *)
(* Problem screen; anything else keeps the report there was, d.            *)
Mutant_ReportsKeepTheFirstWayBack(o, why, from, d) ==
    IF o.is = "problem"
    THEN /\ diag' = o.diag
         /\ IF diag = None THEN retry' = why /\ back' = from ELSE UNCHANGED <<retry, back>>
    ELSE diag' = d /\ UNCHANGED <<retry, back>>
Reports(o, why, from, d) ==
    IF o.is = "problem"
    THEN diag' = o.diag /\ retry' = why /\ back' = from
    ELSE diag' = d /\ UNCHANGED <<retry, back>>
Shown(o, otherwise) == IF o.is = "problem" THEN "Problem" ELSE otherwise

-----------------------------------------------------------------------------
TuiTypeOK ==
    /\ world \in [mux : BOOLEAN, accepts : [TuiHosts -> {"key", "password"}],
                  noise : [TuiHosts -> SUBSET Problems]]
    /\ auth \in [TuiHosts -> {"auto", "key", "password"}]
    /\ ssh \in [known : SUBSET TuiHosts, master : SUBSET TuiHosts,
                held : [TuiHosts -> {None, "right", "wrong"}]]
    /\ screen \in Screens
    /\ sel \in [host : TuiHosts, agent : AgentKinds, row : 1..(MaxRows + 1)]
    /\ probe \in ProbesMade \cup {None}
    /\ listed.of \in (TuiHosts \X AgentKinds) \cup {None}
    /\ listed.rows \in Seq(SessionRows) /\ Len(listed.rows) <= MaxRows
    /\ pending \in StartsAsked \cup {None}
    /\ plan \in PlansMade \cup {None}
    /\ diag \in [problem : Problems, needs_auth : BOOLEAN] \cup {None}
    /\ retry \in {"Probe", "Reload"}
    /\ back \in Screens

TuiInit ==
    /\ world \in Worlds
    /\ auth = [h \in TuiHosts |-> AuthModes[1]]
    /\ ssh \in [known : SUBSET TuiHosts, master : {{}}, held : [TuiHosts -> {None}]]
    /\ screen \in {"Language", "Hosts"}
    /\ sel \in [host : TuiHosts, agent : AgentKinds, row : {1}]
    /\ probe = None
    /\ listed = [of |-> None, rows |-> <<>>]
    /\ pending = None
    /\ plan = None
    /\ diag = None
    /\ retry = "Probe"
    /\ back = "Hosts"

Highlighted == <<sel.host, sel.agent>>

(* A master expires (ControlPersist) or dies with its connection.          *)
MasterExpires(h) ==
    /\ h \in ssh.master
    /\ ssh' = [ssh EXCEPT !.master = @ \ {h}]
    /\ UNCHANGED <<world, auth, screen, sel, dataVars, problemVars>>

-----------------------------------------------------------------------------
(* Keys that only move about.                                              *)
Moves(from, to) ==
    /\ screen = from
    /\ screen' = to
    /\ UNCHANGED <<world, auth, ssh, problemVars>>

\* commit_language, begin_language; begin_github_sync and its Esc; q and Ctrl-C
OtherScreens ==
    /\ \/ Moves("Language", "Hosts") \/ Moves("Hosts", "Language")
       \/ Moves("Hosts", "GithubConfirm") \/ Moves("GithubConfirm", "Hosts")
       \/ Moves("RunningConfirm", "Sessions")
       \/ Moves("NewCwd", "Sessions") \/ Moves("Sessions", "Agents")
       \/ \E s \in Screens \ {"quit"} : Moves(s, "quit")
    /\ UNCHANGED <<sel, dataVars>>

\* move_sel, and `r` on the host list
Select ==
    /\ UNCHANGED <<world, auth, ssh, screen, dataVars, problemVars>>
    /\ \/ screen = "Hosts" /\ \E h \in TuiHosts : sel' = [sel EXCEPT !.host = h]
       \/ screen = "Agents" /\ \E a \in AgentKinds : sel' = [sel EXCEPT !.agent = a]
       \/ /\ screen = "Sessions"
          /\ \E i \in 1..Len(listed.rows) : sel' = [sel EXCEPT !.row = i]

\* Esc on the agent list: the probe belongs to this visit of the host
LeaveAgents ==
    /\ Moves("Agents", "Hosts")
    /\ probe' = None
    /\ plan' = None
    /\ UNCHANGED <<sel, listed, pending>>
LeaveConfirm ==
    /\ Moves("Confirm", "Agents")
    /\ plan' = None
    /\ UNCHANGED <<sel, probe, listed, pending>>
LeaveNewDir ==
    /\ Moves("NewDirConfirm", "NewCwd")
    /\ pending' = None
    /\ UNCHANGED <<sel, probe, listed, plan>>

\* cycle_auth
CycleAuth ==
    /\ screen = "Hosts"
    /\ LET n == CHOOSE i \in 1..Len(AuthModes) : AuthModes[i] = auth[sel.host]
       IN auth' = [auth EXCEPT ![sel.host] = AuthModes[(n % Len(AuthModes)) + 1]]
    /\ UNCHANGED <<world, ssh, screen, sel, dataVars, problemVars>>

-----------------------------------------------------------------------------
(* Probing, and the way back from a connection problem.                    *)
Probed(h) == probe' \in [host : {h}, found : SUBSET AgentKinds, supported : BOOLEAN]

\* probe_selected_host, with what ssh has by then in c and its outcome in o
Probes(o, c) ==
    LET h == sel.host IN
    /\ UNCHANGED <<world, auth, listed, pending, plan>>
    /\ IF auth[h] = "password" /\ ~world.mux /\ c.held[h] = None
       THEN /\ screen' = "Password"
            /\ diag' = None /\ retry' = "Probe" /\ back' = "Hosts"
            /\ ssh' = c
            /\ UNCHANGED <<sel, probe>>
       ELSE /\ Connected(h, o, c)
            /\ Reports(o, "Probe", "Hosts", None)
            /\ IF o = Done
               THEN /\ Probed(h)
                    /\ screen' = "Agents"
                    /\ \E a \in AgentKinds : sel' = [sel EXCEPT !.agent = a]
               ELSE screen' = Shown(o, "Hosts") /\ UNCHANGED <<probe, sel>>

EnterHost(o) == screen = "Hosts" /\ Probes(o, ssh)

\* reload_sessions, whose outcome is p
Lists(p, d) ==
    /\ Reports(p, "Reload", "Sessions", d)
    /\ IF p = Done
       THEN \E n \in 0..MaxRows : \E rows \in [1..n -> SessionRows] :
                listed' = [of |-> Highlighted, rows |-> rows]
       ELSE UNCHANGED listed

\* reload_probe_and_sessions from screen s, with outcomes o and then p
Reloads(s, o, p, d, c) ==
    /\ Connected(sel.host, o, c)
    /\ IF o = Done THEN Probed(sel.host) ELSE UNCHANGED probe
    /\ IF o = Done /\ s \in {"Sessions", "NewCwd"}
       THEN Lists(p, d) /\ screen' = Shown(p, s)
       ELSE Reports(o, "Reload", s, d) /\ screen' = Shown(o, s) /\ UNCHANGED listed
    /\ UNCHANGED <<world, auth, sel, pending>>

\* `r` on the agent and session lists
Refresh(o, p) ==
    /\ screen \in {"Agents", "Sessions"}
    /\ Reloads(screen, o, p, diag, ssh)
    /\ UNCHANGED plan

Retries(o, p, c) ==
    IF retry = "Probe" THEN Probes(o, c) ELSE Reloads(back, o, p, None, c) /\ UNCHANGED plan

\* `r` on the problem screen, and Esc
Retry(o, p) == screen = "Problem" /\ Retries(o, p, ssh)
LeaveProblem ==
    /\ screen = "Problem"
    /\ screen' = back
    /\ diag' = None
    /\ UNCHANGED <<world, auth, ssh, sel, dataVars, retry, back>>

(* authenticate: without multiplexing a credential problem opens the       *)
(* in-memory prompt; else ssh prompts on the terminal (pw is what is typed *)
(* there) and, if that gets in, what failed runs again.                    *)
PromptsInMemory ==
    ~world.mux /\ diag # None /\ diag.problem \in {"needs_password", "password_denied"}
OnTerminal(h) == WithMaster(h, [ssh EXCEPT !.known = @ \cup {h}])
Authenticate(pw, o, p) ==
    /\ screen = "Problem"
    /\ ~PromptsInMemory
    /\ IF Accepted(sel.host, InteractiveFlavor(sel.host), pw)
       THEN Retries(o, p, OnTerminal(sel.host))
       ELSE UNCHANGED tuiVars
OpenPrompt ==
    /\ screen = "Problem"
    /\ PromptsInMemory
    /\ screen' = "Password"
    /\ UNCHANGED <<world, auth, ssh, sel, dataVars, problemVars>>

\* handle_password_key: Enter (install_session, then retry) and Esc
HoldingPassword(h, pw) == [ssh EXCEPT !.held[h] = pw]
EnterPassword(pw, o, p) ==
    screen = "Password" /\ Retries(o, p, HoldingPassword(sel.host, pw))
LeavePassword == /\ Moves("Password", back)
                 /\ UNCHANGED <<sel, dataVars>>

-----------------------------------------------------------------------------
(* Agents: their sessions, or the plan of an action.                       *)
AgentFound == probe # None /\ sel.agent \in probe.found
Usable == AgentFound /\ probe.supported

\* open_confirm: a preflight of outcome o, then the plan
OpensConfirm(action, o) ==
    /\ Connected(sel.host, o, ssh)
    /\ Reports(o, "Reload", "Agents", diag)
    /\ IF o = Done
       THEN /\ plan' \in [of : {Highlighted}, action : {action}, can : BOOLEAN]
            /\ screen' = "Confirm"
       ELSE screen' = Shown(o, screen) /\ UNCHANGED plan
    /\ UNCHANGED <<world, auth, sel, probe, listed, pending>>

\* on_enter of the agent list: the screen is set after the report of reload_sessions
EnterAgent(o) ==
    /\ screen = "Agents"
    /\ IF ~Usable THEN OpensConfirm("Install", o)
       ELSE /\ Connected(sel.host, o, ssh)
            /\ Lists(o, diag)
            /\ screen' = "Sessions"
            /\ sel' = [sel EXCEPT !.row = 1]
            /\ UNCHANGED <<world, auth, probe, pending, plan>>

\* begin_agent_action
AgentAction(action, o) ==
    /\ screen = "Agents"
    /\ action = "Uninstall" => AgentFound
    /\ OpensConfirm(IF action = "Upgrade" /\ ~AgentFound THEN "Install" ELSE action, o)

\* `r` on the confirmation plans again
Replan(o) == screen = "Confirm" /\ OpensConfirm(plan.action, o)

\* execute_plan: the run's exit is only a status line; o and p are the reload's
ExecutePlan(o) ==
    /\ screen = "Confirm"
    /\ plan.can
    /\ plan' = None
    /\ Reloads("Agents", o, Plain, diag, ssh)

\* run_github_sync
GithubSync(o) ==
    /\ screen = "GithubConfirm"
    /\ Connected(sel.host, o, ssh)
    /\ Reports(o, "Probe", "Hosts", diag)
    /\ screen' = Shown(o, "Hosts")
    /\ UNCHANGED <<world, auth, sel, dataVars>>

-----------------------------------------------------------------------------
(* Sessions.                                                               *)
\* begin_new: Enter on an empty list, and `n`
BeginsNew ==
    /\ Usable
    /\ pending' = None
    /\ screen' = "NewCwd"
    /\ UNCHANGED <<world, auth, ssh, sel, probe, listed, plan, problemVars>>
BeginNew == screen = "Sessions" /\ BeginsNew

\* drop_into_tmux, drop_into_win_session: attached until detached, then listed again
DropsInto(o) ==
    /\ Lists(o, diag)
    /\ screen' = Shown(o, "Sessions")
    /\ UNCHANGED <<world, auth, sel, probe, plan>>

\* start_session, of the row it resumes (0: a new one)
Starts(row, create, started, o) ==
    /\ Connected(sel.host, started, ssh)
    /\ \/ /\ started = Done
          /\ pending' = None
          /\ DropsInto(o)
       \/ /\ started = Plain /\ ~create          \* the directory is missing
          /\ pending' = [of |-> Highlighted, resume |-> row > 0]
          /\ screen' = "NewDirConfirm"
          /\ UNCHANGED <<world, auth, sel, probe, listed, plan, problemVars>>
       \/ /\ started # Done
          /\ Reports(started, "Reload", "Sessions", diag)
          /\ screen' = Shown(started, "Sessions")
          /\ UNCHANGED <<world, auth, sel, dataVars>>

\* on_enter of the session list: attach_existing, open_session
EnterSession(started, o) ==
    /\ screen = "Sessions"
    /\ IF listed.rows = <<>> THEN BeginsNew
       ELSE /\ sel.row <= Len(listed.rows)
            /\ CASE listed.rows[sel.row] = "live" ->
                       /\ Connected(sel.host, o, ssh)
                       /\ DropsInto(o)
                       /\ UNCHANGED pending
                 [] listed.rows[sel.row] = "running" ->
                       /\ Moves("Sessions", "RunningConfirm")
                       /\ UNCHANGED <<sel, dataVars>>
                 [] OTHER -> Starts(sel.row, FALSE, started, o)

\* Enter on the three screens that ask before they start
ConfirmRunning(started, o) ==
    /\ screen = "RunningConfirm"
    /\ Starts(sel.row, FALSE, started, o)
StartFromCwd(started, o) == screen = "NewCwd" /\ Starts(0, FALSE, started, o)
ConfirmNewDir(started, o) ==
    /\ screen = "NewDirConfirm"
    /\ Starts(IF pending.resume THEN 1 ELSE 0, TRUE, started, o)

-----------------------------------------------------------------------------
RoundTrips(o, p) ==
    \/ EnterHost(o) \/ Refresh(o, p) \/ Retry(o, p)
    \/ EnterAgent(o) \/ Replan(o) \/ ExecutePlan(o) \/ GithubSync(o)
    \/ \E action \in Actions : AgentAction(action, o)
    \/ EnterSession(o, p) \/ ConfirmRunning(o, p) \/ StartFromCwd(o, p) \/ ConfirmNewDir(o, p)

TuiNext ==
    \/ OtherScreens \/ Select \/ LeaveAgents \/ LeaveConfirm \/ LeaveNewDir \/ CycleAuth
    \/ LeaveProblem \/ OpenPrompt \/ LeavePassword \/ BeginNew
    \/ \E h \in TuiHosts : MasterExpires(h)
    \/ \E o, p \in Outcomes(sel.host, ssh) : RoundTrips(o, p)
    \/ \E pw \in {"right", "wrong"} :
          \/ \E o, p \in Outcomes(sel.host, OnTerminal(sel.host)) : Authenticate(pw, o, p)
          \/ \E o, p \in Outcomes(sel.host, HoldingPassword(sel.host, pw)) : EnterPassword(pw, o, p)
TuiSpec == TuiInit /\ [][TuiNext]_tuiVars

(* The user who wants in keeps answering the prompts with the right        *)
(* password, and the network lets those attempts through.                  *)
AuthenticatesWell ==
    LET o == Attempt(sel.host, OnTerminal(sel.host)) IN Authenticate("right", o, o)
EntersTheRightPassword ==
    LET o == Attempt(sel.host, HoldingPassword(sel.host, "right")) IN EnterPassword("right", o, o)
TuiFairness ==
    /\ SF_tuiVars(OpenPrompt)
    /\ SF_tuiVars(EntersTheRightPassword)
    /\ SF_tuiVars(AuthenticatesWell)
TuiFairSpec == TuiSpec /\ TuiFairness

-----------------------------------------------------------------------------
(* What a screen works on is what the user highlighted: its probe is of    *)
(* the highlighted host, and the plan Enter runs and the directory Enter   *)
(* creates are of the highlighted host and agent. Handlers only check that *)
(* a probe, plan or request is there, never whose it is, while a report    *)
(* remembers the screen to go back to and a retry the step to run again.   *)
ScreenMatchesSelection ==
    /\ screen \in {"Agents", "Sessions", "NewCwd", "NewDirConfirm", "Confirm", "RunningConfirm"}
         => probe # None /\ probe.host = sel.host
    /\ screen = "Confirm" => plan # None /\ plan.of = Highlighted
    /\ screen = "NewDirConfirm" => pending # None /\ pending.of = Highlighted

(* A user who is refused for want of credentials and keeps answering the   *)
(* prompts with the right password gets past report and prompt, unless the *)
(* mode forbids prompts: what askpass or the master holds is what the next *)
(* attempt uses (authenticate, flavor, handle_password_key).               *)
SignsIn ==
    (/\ screen = "Problem" /\ diag.needs_auth
     /\ world.accepts[sel.host] = "password" /\ auth[sel.host] # "key")
        ~> screen \notin {"Problem", "Password"}
=============================================================================
