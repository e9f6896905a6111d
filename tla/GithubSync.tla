----------------------------- MODULE GithubSync -----------------------------
(***************************************************************************)
(* Copying the local GitHub login to a host (faragent-service github.rs):  *)
(* two runs of the local gh, a script on the host, the registration of its *)
(* key with GitHub, and the rewrite of its git urls. Any of them may fail  *)
(* after the earlier ones took effect; the user syncs again. The local     *)
(* login may be switched meanwhile.                                        *)
(***************************************************************************)
EXTENDS Naturals, Absent

CONSTANTS
    Accounts,     \* GitHub accounts the local gh is logged in to
    MaxSwitches   \* bound: switches of the active one

ASSUME GithubAssumption == None \notin Accounts /\ MaxSwitches \in Nat

VARIABLES
    login,     \* the account the local gh acts as
    switches,
    hostsYml,  \* hosts.yml on the host: whose token, under which user
    hostKey,   \* ~/.ssh/id_ed25519 there: "none", "bare" (no .pub), "pair"
    owner,     \* the account its public key is registered with
    rewritten, \* are https urls rewritten to ssh there?
    sync       \* the sync: its step, the token and user it read, and its report

syncVars == <<login, switches, hostsYml, hostKey, owner, rewritten, sync>>

GithubTypeOK ==
    /\ login \in Accounts
    /\ switches \in 0..MaxSwitches
    /\ hostsYml \in [token : Accounts \cup {None}, user : Accounts \cup {None}]
    /\ hostKey \in {"none", "bare", "pair"}
    /\ owner \in Accounts \cup {None}
    /\ rewritten \in BOOLEAN
    /\ sync \in [at : {"unasked", "idle", "user", "install", "key", "rewrite"}, token : Accounts,
                 user : Accounts, added : BOOLEAN, report : {"none", "synced", "failed"}]

GithubInit ==
    /\ login \in Accounts
    /\ switches = 0
    /\ hostsYml = [token |-> None, user |-> None]
    /\ hostKey \in {"none", "bare", "pair"}
    /\ owner \in IF hostKey = "pair" THEN Accounts \cup {None} ELSE {None}
    /\ rewritten = FALSE
    /\ sync = [at |-> "unasked", token |-> login, user |-> login, added |-> FALSE, report |-> "none"]

SwitchLogin ==
    /\ switches < MaxSwitches
    /\ switches' = switches + 1
    /\ login' \in Accounts \ {login}
    /\ UNCHANGED <<hostsYml, hostKey, owner, rewritten, sync>>

RemoteVars == <<hostsYml, hostKey, owner, rewritten>>
SyncFails == sync' = [sync EXCEPT !.at = "idle", !.report = "failed"]

\* local_auth_token; a gh that is missing or logged out fails the sync
AuthToken ==
    /\ sync.at \in {"unasked", "idle"}
    /\ UNCHANGED <<login, switches, RemoteVars>>
    /\ \/ sync' = [sync EXCEPT !.at = "user", !.token = login, !.added = FALSE, !.report = "none"]
       \/ SyncFails
\* local_auth_user, another run of gh
AuthUser ==
    /\ sync.at = "user"
    /\ UNCHANGED <<login, switches, RemoteVars>>
    /\ \/ sync' = [sync EXCEPT !.at = "install", !.user = login]
       \/ SyncFails

(* install_on_remote and parse_remote_pubkey: hosts.yml is written first;  *)
(* a key is made unless there is one, and without its public half the sync *)
(* ends here, whatever was written; so it does when the answer is lost.    *)
InstallOnRemote ==
    /\ sync.at = "install"
    /\ UNCHANGED <<login, switches, owner, rewritten>>
    /\ \/ SyncFails /\ UNCHANGED <<hostsYml, hostKey>>
       \/ /\ hostsYml' = [token |-> sync.token, user |-> sync.user]
          /\ hostKey' \in IF hostKey = "none" THEN {"none", "pair"} ELSE {hostKey}
          /\ \/ hostKey' = "pair" /\ sync' = [sync EXCEPT !.at = "key"]
             \/ SyncFails

\* GitHub takes a key once; a second registration, by anyone, is refused as
\* known. Its answer to either may be lost.
Mutant_KnownIsAnError(now) == owner = None /\ now # None
Accepts(now) == now # None
AddSshKey ==
    /\ sync.at = "key"
    /\ UNCHANGED <<login, switches, hostsYml, hostKey, rewritten>>
    /\ owner' \in IF owner = None THEN {None, login} ELSE {owner}
    /\ \E answered \in BOOLEAN :
           sync' = [sync EXCEPT !.at = "rewrite", !.added = answered /\ Accepts(owner')]

\* git_rewrite_on_remote; a failure is a warning
GitRewrite ==
    /\ sync.at = "rewrite"
    /\ UNCHANGED <<login, switches, hostsYml, hostKey, owner>>
    /\ rewritten' \in {rewritten, TRUE}
    /\ sync' = [sync EXCEPT !.at = "idle", !.report = "synced"]

GithubNext ==
    SwitchLogin \/ AuthToken \/ AuthUser \/ InstallOnRemote \/ AddSshKey \/ GitRewrite
GithubSpec == GithubInit /\ [][GithubNext]_syncVars

(* A user who has synced syncs again until it works, and each part works   *)
(* in the end.                                                             *)
GithubFairness ==
    /\ WF_syncVars(sync.at = "idle" /\ AuthToken)
    /\ WF_syncVars(AuthUser \/ InstallOnRemote \/ AddSshKey \/ GitRewrite)
    /\ WF_syncVars(sync.at = "idle" /\ AuthToken /\ sync'.at = "user")
    /\ SF_syncVars(AuthUser /\ sync'.at = "install")
    /\ SF_syncVars(InstallOnRemote /\ sync'.at = "key")
    /\ SF_syncVars(AddSshKey /\ sync'.added)
    /\ SF_syncVars(GitRewrite /\ rewritten')
GithubFairSpec == GithubSpec /\ GithubFairness

-----------------------------------------------------------------------------
(* Syncing again completes what an earlier sync left half done, and says   *)
(* so: unless the host's key has lost its public half, the host ends with  *)
(* one login, token and user alike, a registered key and rewritten urls,   *)
(* under a report that calls the key registered.                           *)
ResyncCompletes ==
    (hostKey # "bare" /\ sync.at # "unasked") ~>
        /\ hostsYml.token # None /\ hostsYml.token = hostsYml.user
        /\ owner # None /\ rewritten
        /\ sync.report = "synced" /\ sync.added

=============================================================================
