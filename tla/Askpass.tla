------------------------------- MODULE Askpass -------------------------------
(***************************************************************************)
(* Authentication of the ssh children (faragent-transport askpass.rs and   *)
(* the flavors of ssh.rs): a password is held per host, each install has a *)
(* loopback listener with a thread that answers askpass children one after *)
(* the other. An install is named by its generation, which stands for its  *)
(* token and its password too.                                             *)
(***************************************************************************)
EXTENDS Naturals, Sequences, SequencesExt, Absent

CONSTANTS
    AskHosts,       \* hosts
    Asks,           \* ssh commands, each asking for the password once
    Ports,          \* loopback ports the kernel hands out
    MaxServes,      \* answers of one listener
    MaxGeneration   \* bound: installs

ASSUME AskpassAssumption == /\ MaxServes \in Nat
                            /\ MaxGeneration \in Nat
                            /\ None \notin AskHosts
                            /\ None \notin Nat
                            /\ None \notin [generation : Nat, port : Ports]

VARIABLES
    authMode,    \* the AuthMode configured for each host
    sessions,    \* sessions[h]: the installed Session
    generation,  \* the last generation given out
    listener,    \* listener[g]: serve() of generation g
    ask          \* ask[a]: an ssh command and its askpass child

askpassVars == <<authMode, sessions, generation, listener, ask>>

Generations == 1..MaxGeneration
Flavors == {"Key", "BatchPassword", "InteractiveKey", "InteractivePassword"}
Session == [generation : Generations, port : Ports]
Listener == [at : {"none", "accept", "read", "gone"}, port : Ports \cup {None},
             served : 0..MaxServes, queue : Seq(Asks)]
Command == [at : {"idle", "flavor", "ssh", "connected", "done"}, host : AskHosts \cup {None},
            flavor : Flavors \cup {None}, env : Session \cup {None},
            got : Generations \cup {None}]
Unasked == [at |-> "idle", host |-> None, flavor |-> None, env |-> None, got |-> None]

AskpassTypeOK ==
    /\ authMode \in [AskHosts -> {"auto", "key", "password"}]
    /\ sessions \in [AskHosts -> Session \cup {None}]
    /\ generation \in 0..MaxGeneration
    /\ listener \in [Generations -> Listener]
    /\ ask \in [Asks -> Command]

AskpassInit ==
    /\ authMode \in [AskHosts -> {"auto", "key", "password"}]
    /\ sessions = [h \in AskHosts |-> None]
    /\ generation = 0
    /\ listener = [g \in Generations |->
                      [at |-> "none", port |-> None, served |-> 0, queue |-> <<>>]]
    /\ ask = [a \in Asks |-> Unasked]

Serving(g) == listener[g].at \in {"accept", "read"}
ActiveFor(h) == sessions[h] # None
\* generation_alive: is the session of this listener still installed?
Alive(g) == \E h \in AskHosts : ActiveFor(h) /\ sessions[h].generation = g

-----------------------------------------------------------------------------
\* install_session: bind a free port, mint a generation, replace, serve
InstallSession(h) ==
    /\ generation < MaxGeneration
    /\ generation' = generation + 1
    /\ \E p \in Ports \ {listener[g].port : g \in {x \in Generations : Serving(x)}} :
           /\ sessions' = [sessions EXCEPT ![h] = [generation |-> generation', port |-> p]]
           /\ listener' = [listener EXCEPT ![generation'].at = "accept",
                                           ![generation'].port = p]
    /\ UNCHANGED <<authMode, ask>>

\* clear: as the TUI exits
ClearSessions ==
    /\ generation < MaxGeneration
    /\ generation' = generation + 1
    /\ sessions' = [h \in AskHosts |-> None]
    /\ UNCHANGED <<authMode, listener, ask>>

\* OpenSshTransport::flavor
FlavorFor(mode, held) ==
    CASE mode = "key"               -> "Key"
      [] mode = "auto" /\ held      -> "InteractiveKey"
      [] mode = "password" /\ held  -> "InteractivePassword"
      [] OTHER                      -> "BatchPassword"

\* A command of host h is built: its flavor, then (apply) its environment
AskFlavor(a, h) ==
    /\ ask[a].at = "idle"
    /\ ask' = [ask EXCEPT ![a].at = "flavor", ![a].host = h,
                          ![a].flavor = FlavorFor(authMode[h], ActiveFor(h))]
    /\ UNCHANGED <<authMode, sessions, generation, listener>>

AskApply(a) ==
    /\ ask[a].at = "flavor"
    /\ ask' = [ask EXCEPT ![a].at = "ssh", ![a].env = sessions[ask[a].host]]
    /\ UNCHANGED <<authMode, sessions, generation, listener>>

\* ssh ends without asking: a key was accepted, a batch flavor was refused, a
\* host key question (should_answer), no askpass in the environment
AskNothing(a) ==
    /\ ask[a].at = "ssh"
    /\ ask' = [ask EXCEPT ![a].at = "done"]
    /\ UNCHANGED <<authMode, sessions, generation, listener>>

\* run_child, fetch: connect to the port of the environment, send the token
AskConnects(a) ==
    /\ ask[a].at = "ssh" /\ ask[a].env # None
    /\ ask[a].flavor \in {"InteractiveKey", "InteractivePassword"}
    /\ LET up == {g \in Generations : Serving(g) /\ listener[g].port = ask[a].env.port}
       IN IF up = {} THEN /\ ask' = [ask EXCEPT ![a].at = "done"]
                          /\ UNCHANGED listener
          ELSE \E g \in up : /\ ask' = [ask EXCEPT ![a].at = "connected"]
                             /\ listener' = [listener EXCEPT ![g].queue = Append(@, a)]
    /\ UNCHANGED <<authMode, sessions, generation>>

\* serve: the next connection, or the end of the thread with its whole queue
ServeAccept(g) ==
    /\ listener[g].at = "accept" /\ listener[g].queue # <<>>
    /\ IF listener[g].served >= MaxServes \/ ~Alive(g)
       THEN /\ ask' = [a \in Asks |-> IF a \in ToSet(listener[g].queue)
                                      THEN [ask[a] EXCEPT !.at = "done"] ELSE ask[a]]
            /\ listener' = [listener EXCEPT ![g].at = "gone", ![g].queue = <<>>]
       ELSE listener' = [listener EXCEPT ![g].at = "read"] /\ UNCHANGED ask
    /\ UNCHANGED <<authMode, sessions, generation>>

\* The token is read; under the lock the session is looked up by generation
Mutant_AnswersByPort(g, a) == Alive(g)
Answers(g, a) == /\ Alive(g) /\ ask[a].env.generation = g
ServeAnswer(g) ==
    /\ listener[g].at = "read"
    /\ LET a == Head(listener[g].queue)
           ok == Answers(g, a)
       IN /\ ask' = [ask EXCEPT ![a].at = "done", ![a].got = IF ok THEN g ELSE None]
          /\ listener' = [listener EXCEPT ![g].at = "accept", ![g].queue = Tail(@),
                                          ![g].served = IF ok THEN @ + 1 ELSE @]
    /\ UNCHANGED <<authMode, sessions, generation>>

AskpassNext ==
    \/ \E h \in AskHosts : InstallSession(h)
    \/ ClearSessions
    \/ \E a \in Asks : (\E h \in AskHosts : AskFlavor(a, h)) \/ AskApply(a) \/ AskNothing(a)
                       \/ AskConnects(a)
    \/ \E g \in Generations : ServeAccept(g) \/ ServeAnswer(g)
AskpassSpec == AskpassInit /\ [][AskpassNext]_askpassVars

-----------------------------------------------------------------------------
\* A password leaves the process only for a command of the host it was typed
\* for, and only while it is the one held for that host: not to a child left
\* over from a replaced password whose port was given out again, and not after
\* clear (serve, generation_alive).
PasswordStaysWithItsHost ==
    [][\A a \in Asks : ask[a].got # ask'[a].got =>
           /\ ActiveFor(ask[a].host)
           /\ sessions[ask[a].host].generation = ask'[a].got]_askpassVars
=============================================================================
