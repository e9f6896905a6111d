---------------------------- MODULE AgentInstall ----------------------------
(***************************************************************************)
(* Installing, upgrading and removing an agent on a host (faragent-install *)
(* lib.rs). A preflight says what the host has, a plan is made of it on    *)
(* the laptop, and the confirmed plan runs there as one script, possibly   *)
(* after the host has changed.                                             *)
(***************************************************************************)
EXTENDS Naturals, Sequences

CONSTANTS
    Products,     \* of "claude" (updates itself), "codex" (reinstalls), "pi" (runs on node)
    Oses,         \* of "posix", "windows"
    Pkgs,         \* of "brew" (no sudo), "apt" (sudo), "none"
    MaxChanges    \* bound: changes others make to the host

ASSUME AgentInstallAssumption == /\ Products \subseteq {"claude", "codex", "pi"}
                            /\ Oses \subseteq {"posix", "windows"}
                            /\ Pkgs \subseteq {"brew", "apt", "none"}
                            /\ MaxChanges \in Nat

VARIABLES
    product,      \* the agent
    box,          \* the host: its os, its package manager and what is installed
    changes,      \* changes made by others
    preflight,    \* Preflight, as last parsed: what was installed
    job,          \* the Plan that is shown or runs
    at,           \* the step that runs next; 0 before the confirmation
    status        \* of the last script: "none", "zero", "failed"

agentInstallVars == <<product, box, changes, preflight, job, at, status>>

Tools == {"curl", "node", "nvm", "tmux", "winget", "agent"}
PlanActions == {"Install", "Upgrade", "Uninstall"}
NoJob == [action |-> "Install", steps |-> <<>>, blocked |-> "NothingToDo"]
CanRun(j) == j.blocked = "no" /\ j.steps # <<>>

-----------------------------------------------------------------------------
(* The plan, a function of the agent a, the host's os and package manager  *)
(* and the set pf of what it has. A step is named for what it puts there.  *)
If(cond, steps) == IF cond THEN steps ELSE <<>>

PlanInstallPosix(a, pkg, pf) ==
    LET wantAgent == "agent" \notin pf
        wantTmux  == "tmux" \notin pf
        wantNode  == wantAgent /\ a = "pi" /\ "node" \notin pf
        wantCurl  == wantAgent /\ "curl" \notin pf
        refused == IF ~wantAgent /\ wantTmux /\ pkg = "none" THEN "TmuxOnlyNoPkg"
                   ELSE IF wantCurl /\ pkg = "none" THEN "NoCurlNoPkg" ELSE "no"
        tools == If(wantCurl /\ pkg # "none", <<"curl">>) \o If(wantTmux /\ pkg # "none", <<"tmux">>)
        steps == tools
                 \o If(wantNode /\ refused = "no", <<"nvm", "node">>)
                 \o If(wantAgent /\ refused = "no", <<"agent", "verify">>)
                 \o If(~wantAgent /\ tools # <<>>, <<"verifyTmux">>)
    IN [action |-> "Install", steps |-> steps,
        blocked |-> IF refused = "no" /\ steps = <<>> THEN "NothingToDo" ELSE refused]

PlanInstallWindows(a, pf) ==
    LET wantAgent == "agent" \notin pf
        steps == If(wantAgent /\ a = "pi" /\ "node" \notin pf /\ "winget" \in pf, <<"node">>)
                     \o If(wantAgent, <<"agent", "verify">>)
    IN [action |-> "Install", steps |-> steps,
        blocked |-> IF steps = <<>> THEN "NothingToDo" ELSE "no"]

PlanInstall(a, os, pkg, pf) ==
    IF os = "posix" THEN PlanInstallPosix(a, pkg, pf) ELSE PlanInstallWindows(a, pf)

Mutant_UpgradeUnverified(a, os, pkg, pf) ==
    IF "agent" \notin pf THEN PlanInstall(a, os, pkg, pf)
    ELSE [action |-> "Upgrade", steps |-> <<"upgrade">>, blocked |-> "no"]
PlanUpgrade(a, os, pkg, pf) ==
    IF "agent" \notin pf THEN PlanInstall(a, os, pkg, pf)
    ELSE [action |-> "Upgrade", steps |-> <<"upgrade", "verify">>, blocked |-> "no"]

PlanUninstall(pf) ==
    IF "agent" \notin pf THEN [action |-> "Uninstall", steps |-> <<>>, blocked |-> "NotInstalled"]
    ELSE [action |-> "Uninstall", steps |-> <<"uninstall">>, blocked |-> "no"]

PlanFor(action, a, os, pkg, pf) ==
    CASE action = "Install"   -> PlanInstall(a, os, pkg, pf)
      [] action = "Upgrade"   -> PlanUpgrade(a, os, pkg, pf)
      [] action = "Uninstall" -> PlanUninstall(pf)

-----------------------------------------------------------------------------
(* What a step's command needs of the host to succeed, and what it can     *)
(* leave there when it does. An installer may exit 0 and still leave no    *)
(* agent on the PATH.                                                      *)
Reinstalls == (IF box.os = "posix" THEN {"curl"} ELSE {})
                  \cup (IF product = "pi" THEN {"node"} ELSE {})
Ready(step) ==
    CASE step \in {"curl", "tmux"} -> box.pkg # "none"
      [] step = "nvm"         -> "curl" \in box.has
      [] step = "node"        -> IF box.os = "posix" THEN "nvm" \in box.has ELSE "winget" \in box.has
      [] step = "agent"       -> Reinstalls \subseteq box.has
      [] step = "upgrade"     -> (product = "claude" /\ "agent" \in box.has) \/ Reinstalls \subseteq box.has
      [] step = "verify"      -> "agent" \in box.has
      [] step = "verifyTmux" -> "tmux" \in box.has
      [] OTHER                -> TRUE
Leaves(step) ==
    CASE step \in Tools \ {"agent"}   -> {box.has \cup {step}}
      [] step \in {"agent", "upgrade"} -> {box.has \cup {"agent"}, box.has}
      [] step = "uninstall"           -> {box.has \ {"agent"}}
      [] OTHER                        -> {box.has}

AtLast == at = Len(job.steps)
Step == job.steps[at]

-----------------------------------------------------------------------------
AgentInstallTypeOK ==
    /\ product \in Products
    /\ box \in [os : Oses, pkg : Pkgs, has : SUBSET Tools]
    /\ changes \in 0..MaxChanges
    /\ preflight \subseteq Tools
    /\ job.action \in PlanActions
    /\ \A i \in DOMAIN job.steps :
          job.steps[i] \in Tools \cup {"verify", "verifyTmux", "upgrade", "uninstall"}
    /\ job.blocked \in {"no", "NoCurlNoPkg", "TmuxOnlyNoPkg", "NotInstalled", "NothingToDo"}
    /\ at \in 0..Len(job.steps)
    /\ status \in {"none", "zero", "failed"}

AgentInstallInit ==
    /\ product \in Products
    /\ box \in [os : Oses, pkg : Pkgs, has : SUBSET Tools]
    /\ box.os = "posix" => "winget" \notin box.has
    /\ box.os = "windows" => box.pkg = "none" /\ box.has \cap {"tmux", "nvm", "curl"} = {}
    /\ changes = 0
    /\ preflight = {}
    /\ job = NoJob
    /\ at = 0
    /\ status = "none"

\* Someone else installs or removes something
HostChanges ==
    /\ changes < MaxChanges
    /\ \E t \in {"curl", "tmux", "node", "agent"} :
          box' = [box EXCEPT !.has = IF t \in @ THEN @ \ {t} ELSE @ \cup {t}]
    /\ changes' = changes + 1
    /\ UNCHANGED <<product, preflight, job, at, status>>

\* preflight_host, then plan_for
Plans(action) ==
    /\ at = 0
    /\ preflight' = box.has
    /\ job' = PlanFor(action, product, box.os, box.pkg, box.has)
    /\ status' = "none"
    /\ UNCHANGED <<product, box, changes, at>>

\* Enter on the confirmation: the script starts
Confirms ==
    /\ at = 0
    /\ status = "none"
    /\ CanRun(job)
    /\ at' = 1
    /\ UNCHANGED <<product, box, changes, preflight, job, status>>

(* A step of the script: render_script_posix stops at the first failure    *)
(* with its status, render_script_windows goes on and ends with status 0.  *)
ScriptEnds(s) == at' = 0 /\ status' = s
StepWorks ==
    /\ at > 0
    /\ Ready(Step)
    /\ \E has \in Leaves(Step) : box' = [box EXCEPT !.has = has]
    /\ IF AtLast THEN ScriptEnds("zero") ELSE at' = at + 1 /\ UNCHANGED status
    /\ UNCHANGED <<product, changes, preflight, job>>
StepFails ==
    /\ at > 0
    /\ IF box.os = "posix" THEN ScriptEnds("failed")
       ELSE IF AtLast THEN ScriptEnds("zero") ELSE at' = at + 1 /\ UNCHANGED status
    /\ UNCHANGED <<product, box, changes, preflight, job>>

AgentInstallNext ==
    \/ HostChanges \/ Confirms \/ StepWorks \/ StepFails
    \/ \E action \in PlanActions : Plans(action)
AgentInstallSpec == AgentInstallInit /\ [][AgentInstallNext]_agentInstallVars

-----------------------------------------------------------------------------
(* A plan that may run is one that can work: on a POSIX host as it was at  *)
(* the preflight, each step of an install has what it needs once the steps *)
(* before it have done their part (curl before what is piped from it, nvm  *)
(* before node, node before Pi), and the plan ends with agent and, given a *)
(* package manager, tmux.                                                  *)
HasAfter(j, n) == preflight \cup {j.steps[i] : i \in 1..n}
InstallPlansWork ==
    (box.os = "posix" /\ job.action = "Install" /\ CanRun(job)) =>
        LET j == job
            end == HasAfter(j, Len(j.steps))
        IN /\ "agent" \in end
           /\ box.pkg = "none" \/ "tmux" \in end
           /\ \A n \in DOMAIN j.steps :
                 LET has == HasAfter(j, n - 1)
                 IN /\ j.steps[n] \in {"nvm", "agent"} => "curl" \in has
                    /\ j.steps[n] = "node" => "nvm" \in has
                    /\ (j.steps[n] = "agent" /\ product = "pi") => "node" \in has
                    /\ j.steps[n] \in {"curl", "tmux"} => box.pkg # "none"

(* Such a plan is the only one that runs, and what `remote_ok` reports of  *)
(* it is true: a script of a POSIX host that ends with status 0 after an   *)
(* install or an upgrade of the agent leaves the agent there, although     *)
(* installers may exit 0 without installing and the host may change after  *)
(* the preflight (set -e, verify_step, plan_upgrade).                      *)
PlansDeliver ==
    /\ []InstallPlansWork
    /\ [][(/\ at > 0 /\ status' = "zero" /\ box.os = "posix"
           /\ \E i \in DOMAIN job.steps : job.steps[i] \in {"agent", "upgrade"})
             => "agent" \in box'.has]_agentInstallVars
=============================================================================
