-------------------------------- MODULE Exec --------------------------------
(***************************************************************************)
(* One remote command as a local ssh child (faragent-transport ssh.rs):    *)
(* spawn, write stdin, poll with a deadline while two reader threads drain *)
(* stdout and stderr, join them. The remote side may read, write, exit or  *)
(* hang whenever it likes; a connection that is lost ends ssh by its       *)
(* keepalives (ServerAliveInterval), a hung remote command does not.       *)
(***************************************************************************)
EXTENDS Naturals

CONSTANTS
    Runs,       \* command invocations
    Payload,    \* Payload[r]: frames of stdin the run pipes in; 0 is Stdio::null
    PipeSize,   \* frames a pipe (and the channel behind it) holds
    MaxOut      \* bound: frames of output one command writes

ASSUME ExecAssumption == /\ Payload \in [Runs -> Nat]
                         /\ PipeSize \in Nat \ {0}
                         /\ MaxOut \in Nat

VARIABLES
    run,       \* run[r]: where the caller stands
    result,    \* result[r]: what it returned
    unsent,    \* unsent[r]: frames of stdin not written yet
    stdin,     \* stdin[r]: frames in the child's stdin pipe
    child,     \* child[r]: the ssh child
    wrote,     \* wrote[r]: frames of output it has written
    stdout,    \* stdout[r]: frames in its stdout pipe
    reader     \* reader[r]: the reader thread: its state, and the frames it has

execVars == <<run, result, unsent, stdin, child, wrote, stdout, reader>>

Idle == [at |-> "none", got |-> 0]

ExecTypeOK ==
    /\ run \in [Runs -> {"idle", "writing", "waiting", "joining", "done"}]
    /\ result \in [Runs -> [is : {"none", "spawn_error", "timeout", "output"},
                            frames : 0..MaxOut]]
    /\ unsent \in [Runs -> Nat]
    /\ stdin \in [Runs -> 0..PipeSize]
    /\ child \in [Runs -> {"none", "alive", "exited", "reaped"}]
    /\ wrote \in [Runs -> 0..MaxOut]
    /\ stdout \in [Runs -> 0..PipeSize]
    /\ reader \in [Runs -> [at : {"none", "reads", "ended"}, got : 0..MaxOut]]

ExecInit ==
    /\ run = [r \in Runs |-> "idle"]
    /\ result = [r \in Runs |-> [is |-> "none", frames |-> 0]]
    /\ unsent = Payload
    /\ stdin = [r \in Runs |-> 0]
    /\ child = [r \in Runs |-> "none"]
    /\ wrote = [r \in Runs |-> 0]
    /\ stdout = [r \in Runs |-> 0]
    /\ reader = [r \in Runs |-> Idle]

Returns(r, is, frames) ==
    /\ run' = [run EXCEPT ![r] = "done"]
    /\ result' = [result EXCEPT ![r] = [is |-> is, frames |-> frames]]

-----------------------------------------------------------------------------
\* exec_stdio_timeout, run_cmd: spawn the child, or fail
ExecSpawn(r) ==
    /\ run[r] = "idle"
    /\ run' = [run EXCEPT ![r] = "writing"]
    /\ child' = [child EXCEPT ![r] = "alive"]
    /\ UNCHANGED <<result, unsent, stdin, wrote, stdout, reader>>

ExecSpawnFails(r) ==
    /\ run[r] = "idle"
    /\ Returns(r, "spawn_error", 0)
    /\ UNCHANGED <<unsent, stdin, child, wrote, stdout, reader>>

\* write_all on the pipe: blocks while it is full, fails (and is ignored) when
\* the child is gone
ExecWrites(r) ==
    /\ run[r] = "writing" /\ unsent[r] > 0
    /\ \/ /\ child[r] = "alive" /\ stdin[r] < PipeSize
          /\ stdin' = [stdin EXCEPT ![r] = @ + 1]
          /\ unsent' = [unsent EXCEPT ![r] = @ - 1]
       \/ /\ child[r] = "exited"
          /\ unsent' = [unsent EXCEPT ![r] = 0]
          /\ UNCHANGED stdin
    /\ UNCHANGED <<run, result, child, wrote, stdout, reader>>

\* wait_child_timeout begins: the readers start, and the clock
ExecWaits(r) ==
    /\ run[r] = "writing" /\ unsent[r] = 0
    /\ run' = [run EXCEPT ![r] = "waiting"]
    /\ reader' = [reader EXCEPT ![r].at = "reads"]
    /\ UNCHANGED <<result, unsent, stdin, child, wrote, stdout>>

\* try_wait finds the child exited
ExecReaps(r) ==
    /\ run[r] = "waiting" /\ child[r] = "exited"
    /\ run' = [run EXCEPT ![r] = "joining"]
    /\ child' = [child EXCEPT ![r] = "reaped"]
    /\ UNCHANGED <<result, unsent, stdin, wrote, stdout, reader>>

\* Mutant: the child is waited for without a deadline.
Mutant_ExecWaitsForever(r) == FALSE

\* The deadline: kill and reap the child; the readers are left to end alone
ExecTimesOut(r) ==
    /\ run[r] = "waiting" /\ child[r] = "alive"
    /\ Returns(r, "timeout", 0)
    /\ child' = [child EXCEPT ![r] = "reaped"]
    /\ UNCHANGED <<unsent, stdin, wrote, stdout, reader>>

Mutant_ExecDoesNotJoin(r) ==
    /\ run[r] = "joining"
    /\ Returns(r, "output", reader[r].got)
    /\ UNCHANGED <<unsent, stdin, child, wrote, stdout, reader>>
ExecJoins(r) ==
    /\ run[r] = "joining" /\ reader[r].at = "ended"
    /\ Returns(r, "output", reader[r].got)
    /\ UNCHANGED <<unsent, stdin, child, wrote, stdout, reader>>

\* The reader thread: read_to_end
ReaderReads(r) ==
    /\ reader[r].at = "reads"
    /\ \/ /\ stdout[r] > 0
          /\ stdout' = [stdout EXCEPT ![r] = @ - 1]
          /\ reader' = [reader EXCEPT ![r].got = @ + 1]
       \/ /\ stdout[r] = 0 /\ child[r] \in {"exited", "reaped"}
          /\ reader' = [reader EXCEPT ![r].at = "ended"]
          /\ UNCHANGED stdout
    /\ UNCHANGED <<run, result, unsent, stdin, child, wrote>>

\* The remote command, through ssh
ChildReads(r) ==
    /\ child[r] = "alive" /\ stdin[r] > 0
    /\ stdin' = [stdin EXCEPT ![r] = @ - 1]
    /\ UNCHANGED <<run, result, unsent, child, wrote, stdout, reader>>
ChildWrites(r) ==
    /\ child[r] = "alive" /\ wrote[r] < MaxOut /\ stdout[r] < PipeSize
    /\ wrote' = [wrote EXCEPT ![r] = @ + 1]
    /\ stdout' = [stdout EXCEPT ![r] = @ + 1]
    /\ UNCHANGED <<run, result, unsent, stdin, child, reader>>
ChildExits(r) ==
    /\ child[r] = "alive"
    /\ child' = [child EXCEPT ![r] = "exited"]
    /\ UNCHANGED <<run, result, unsent, stdin, wrote, stdout, reader>>

ExecNext == \E r \in Runs :
    \/ ExecSpawn(r) \/ ExecSpawnFails(r) \/ ExecWrites(r) \/ ExecWaits(r) \/ ExecReaps(r)
    \/ ExecTimesOut(r) \/ ExecJoins(r) \/ ReaderReads(r)
    \/ ChildReads(r) \/ ChildWrites(r) \/ ChildExits(r)

ExecSpec == ExecInit /\ [][ExecNext]_execVars

\* The caller and its readers are threads of this process; the remote owes nothing
ExecFairness == \A r \in Runs :
    WF_execVars(\/ ExecWrites(r) \/ ExecWaits(r) \/ ExecReaps(r) \/ ExecTimesOut(r)
                \/ ExecJoins(r))
    /\ WF_execVars(ReaderReads(r))
ExecFairSpec == ExecSpec /\ ExecFairness

-----------------------------------------------------------------------------
\* Output that is returned is all the child wrote, and its process is reaped:
\* the exit is noticed before the pipes are empty, the result is made after.
OutputIsWhole == \A r \in Runs :
    /\ result[r].is = "output" => result[r].frames = wrote[r]
    /\ result[r].is \in {"output", "timeout"} => child[r] = "reaped"

\* A command that pipes nothing in returns, whatever the remote does or does not.
QuietRunsReturn == \A r \in Runs :
    Payload[r] = 0 => (run[r] = "writing" ~> run[r] = "done")
=============================================================================
