------------------------------ MODULE MCLinks ------------------------------
(* What is asked of a host over ssh, one part per behaviour: a command and *)
(* its pipes, the probe of the host's dialect, the GitHub sync, or signing *)
(* in from the TUI. `focus` names the part that runs; the others stay as   *)
(* they start, where no fair action is enabled.                            *)
EXTENDS Exec, Dialect, GithubSync, Tui, TLC

CONSTANTS t1, t2, g1, g2, h1, a1

VARIABLE focus

linksVars == <<focus, execVars, dialectVars, syncVars, tuiVars>>

ExecPayload == <<0, 2>>
LiveWorlds == [accepts : [TuiHosts -> {"password"}], mux : BOOLEAN, noise : [TuiHosts -> {{}}]]
Modes == <<"auto", "key", "password">>

LinksInit ==
    /\ focus \in {"exec", "dialect", "github", "tui"}
    /\ ExecInit
    /\ DialectInit /\ (focus # "dialect" => spoken = "posix" /\ cached = None)
    /\ GithubInit /\ (focus # "github" => login = g1 /\ hostKey = "none" /\ owner = None)
    /\ TuiInit /\ (focus # "tui" => ~world.mux /\ ssh.known = {} /\ screen = "Hosts")

LinksNext ==
    /\ UNCHANGED focus
    /\ \/ focus = "exec" /\ ExecNext /\ UNCHANGED <<dialectVars, syncVars, tuiVars>>
       \/ focus = "dialect" /\ DialectNext /\ UNCHANGED <<execVars, syncVars, tuiVars>>
       \/ focus = "github" /\ GithubNext /\ UNCHANGED <<execVars, dialectVars, tuiVars>>
       \/ focus = "tui" /\ TuiNext /\ UNCHANGED <<execVars, dialectVars, syncVars>>

LinksFairSpec ==
    /\ LinksInit /\ [][LinksNext]_linksVars
    /\ ExecFairness /\ DialectFairness /\ GithubFairness /\ TuiFairness
=============================================================================
