----------------------------- MODULE HostProofs -----------------------------
(***************************************************************************)
(* Theorems about what is run and installed on a host. ssh children: a     *)
(* remote command as a local child, for any commands, any payloads and any *)
(* size of pipe; and the passwords held for them, for any hosts, any       *)
(* commands, any ports and any number of installs. The helper's binary, for*)
(* any number of installers that follow one another or overlap, any builds *)
(* and any platform; and the agents, for any agent, host and preflight,    *)
(* whatever others change on the host meanwhile.                           *)
(***************************************************************************)
EXTENDS Exec, Askpass, HelperInstall, AgentInstall, SequenceTheorems, TLAPS

-----------------------------------------------------------------------------
(* A remote command                                                        *)

(* No frame of output is lost on its way: it is in the pipe or read. *)
OutputIsCounted == \A r \in Runs : wrote[r] = stdout[r] + reader[r].got

(* A reader thread ends when nothing can come any more. *)
ReaderEndsLast == \A r \in Runs :
    reader[r].at = "ended" => stdout[r] = 0 /\ child[r] \in {"exited", "reaped"}

(* What the caller's place says of its child and of its result. *)
CallerKnows == \A r \in Runs :
    /\ run[r] = "idle" => child[r] = "none" /\ reader[r].at = "none"
    /\ run[r] = "joining" => child[r] = "reaped"
    /\ result[r].is # "none" => run[r] = "done"

ExecInvariant ==
    /\ ExecTypeOK
    /\ OutputIsCounted
    /\ ReaderEndsLast
    /\ CallerKnows
    /\ OutputIsWhole

-----------------------------------------------------------------------------
(* A step of the reader thread, field by field. *)
LEMMA ReadingSteps ==
    ASSUME ExecTypeOK, NEW r \in Runs, ReaderReads(r)
    PROVE  /\ \A s \in Runs : s # r => reader'[s] = reader[s] /\ stdout'[s] = stdout[s]
           /\ reader[r].at = "reads"
           /\ \/ /\ stdout[r] > 0 /\ stdout'[r] = stdout[r] - 1
                 /\ reader'[r].at = "reads" /\ reader'[r].got = reader[r].got + 1
              \/ /\ stdout[r] = 0 /\ stdout' = stdout
                 /\ child[r] \in {"exited", "reaped"}
                 /\ reader'[r].at = "ended" /\ reader'[r].got = reader[r].got
<1>1. \A s \in Runs : s # r => reader'[s] = reader[s] /\ stdout'[s] = stdout[s]
    BY DEF ReaderReads, ExecTypeOK
<1>2. CASE stdout[r] > 0 /\ stdout' = [stdout EXCEPT ![r] = @ - 1]
           /\ reader' = [reader EXCEPT ![r].got = @ + 1]
    <2>1. reader'[r].got = reader[r].got + 1 /\ reader'[r].at = reader[r].at
        BY <1>2 DEF ExecTypeOK
    <2>2. stdout'[r] = stdout[r] - 1
        BY <1>2 DEF ExecTypeOK
    <2> QED
        BY <1>1, <1>2, <2>1, <2>2 DEF ReaderReads
<1>3. CASE /\ stdout[r] = 0 /\ child[r] \in {"exited", "reaped"}
           /\ reader' = [reader EXCEPT ![r].at = "ended"] /\ UNCHANGED stdout
    BY <1>1, <1>3 DEF ReaderReads, ExecTypeOK
<1> QED
    BY <1>2, <1>3 DEF ReaderReads

(* Before the first run no pipe has anything in it. *)
LEMMA ExecStarts == ExecInit => ExecInvariant
BY ExecAssumption
   DEF ExecInit, ExecInvariant, ExecTypeOK, OutputIsCounted, ReaderEndsLast, CallerKnows,
       OutputIsWhole, Idle

(* Every step keeps the types: what the reader has is bounded by what was   *)
(* written.                                                                 *)
LEMMA ExecKeepsTypes == ExecInvariant /\ [ExecNext]_execVars => ExecTypeOK'
<1> SUFFICES ASSUME ExecInvariant, [ExecNext]_execVars PROVE ExecTypeOK'
    OBVIOUS
<1> USE ExecAssumption DEF ExecTypeOK, Returns
<1>1. ExecTypeOK
    BY DEF ExecInvariant
<1>2. CASE UNCHANGED execVars
    BY <1>1, <1>2 DEF execVars
<1>3. ASSUME NEW r \in Runs, ExecSpawn(r) PROVE ExecTypeOK'
    BY <1>1, <1>3 DEF ExecSpawn
<1>4. ASSUME NEW r \in Runs, ExecSpawnFails(r) PROVE ExecTypeOK'
    BY <1>1, <1>4 DEF ExecSpawnFails
<1>5. ASSUME NEW r \in Runs, ExecWrites(r) PROVE ExecTypeOK'
    <2>1. CASE stdin[r] < PipeSize /\ stdin' = [stdin EXCEPT ![r] = @ + 1]
               /\ unsent' = [unsent EXCEPT ![r] = @ - 1]
        <3>1. stdin[r] + 1 \in 0..PipeSize /\ unsent[r] - 1 \in Nat
            BY <1>1, <1>5, <2>1 DEF ExecWrites
        <3> QED
            BY <1>1, <1>5, <2>1, <3>1 DEF ExecWrites
    <2>2. CASE unsent' = [unsent EXCEPT ![r] = 0] /\ UNCHANGED stdin
        BY <1>1, <1>5, <2>2 DEF ExecWrites
    <2> QED
        BY <1>5, <2>1, <2>2 DEF ExecWrites
<1>6. ASSUME NEW r \in Runs, ExecWaits(r) PROVE ExecTypeOK'
    BY <1>1, <1>6 DEF ExecWaits
<1>7. ASSUME NEW r \in Runs, ExecReaps(r) PROVE ExecTypeOK'
    BY <1>1, <1>7 DEF ExecReaps
<1>8. ASSUME NEW r \in Runs, ExecTimesOut(r) PROVE ExecTypeOK'
    BY <1>1, <1>8 DEF ExecTimesOut
<1>9. ASSUME NEW r \in Runs, ExecJoins(r) PROVE ExecTypeOK'
    BY <1>1, <1>9 DEF ExecJoins
<1>10. ASSUME NEW r \in Runs, ReaderReads(r) PROVE ExecTypeOK'
    <2>1. wrote[r] = stdout[r] + reader[r].got /\ wrote[r] \in 0..MaxOut
        BY <1>1 DEF ExecInvariant, OutputIsCounted
    <2>2. CASE stdout[r] > 0 /\ stdout' = [stdout EXCEPT ![r] = @ - 1]
               /\ reader' = [reader EXCEPT ![r].got = @ + 1]
        <3>1. reader[r].got + 1 \in 0..MaxOut /\ stdout[r] - 1 \in 0..PipeSize
            BY <1>1, <2>1, <2>2
        <3> QED
            BY <1>1, <1>10, <2>2, <3>1 DEF ReaderReads
    <2>3. CASE reader' = [reader EXCEPT ![r].at = "ended"] /\ UNCHANGED stdout
        BY <1>1, <1>10, <2>3 DEF ReaderReads
    <2> QED
        BY <1>10, <2>2, <2>3 DEF ReaderReads
<1>11. ASSUME NEW r \in Runs, ChildReads(r) PROVE ExecTypeOK'
    BY <1>1, <1>11 DEF ChildReads
<1>12. ASSUME NEW r \in Runs, ChildWrites(r) PROVE ExecTypeOK'
    BY <1>1, <1>12 DEF ChildWrites
<1>13. ASSUME NEW r \in Runs, ChildExits(r) PROVE ExecTypeOK'
    BY <1>1, <1>13 DEF ChildExits
<1> QED
    BY <1>2, <1>3, <1>4, <1>5, <1>6, <1>7, <1>8, <1>9, <1>10, <1>11, <1>12, <1>13
       DEF ExecNext

(* Every step keeps the count of the output: only the child adds to it, and *)
(* the reader moves a frame from the pipe.                                  *)
LEMMA ExecKeepsTheCount == ExecInvariant /\ [ExecNext]_execVars => OutputIsCounted'
<1> SUFFICES ASSUME ExecInvariant, [ExecNext]_execVars PROVE OutputIsCounted'
    OBVIOUS
<1>1. ExecTypeOK /\ OutputIsCounted
    BY DEF ExecInvariant
<1>2. CASE UNCHANGED <<wrote, stdout, reader>>
    BY <1>1, <1>2 DEF OutputIsCounted
<1>3. ASSUME NEW r \in Runs, ExecWaits(r) PROVE OutputIsCounted'
    BY <1>1, <1>3 DEF ExecWaits, OutputIsCounted, ExecTypeOK
<1>4. ASSUME NEW r \in Runs, ReaderReads(r) PROVE OutputIsCounted'
    <2>1. \A s \in Runs : wrote'[s] = wrote[s]
        BY <1>4 DEF ReaderReads
    <2>2. wrote[r] = stdout'[r] + reader'[r].got
        BY <1>1, <1>4, ReadingSteps DEF OutputIsCounted, ExecTypeOK
    <2> QED
        BY <1>1, <1>4, <2>1, <2>2, ReadingSteps DEF OutputIsCounted
<1>5. ASSUME NEW r \in Runs, ChildWrites(r) PROVE OutputIsCounted'
    <2>1. \A s \in Runs : s # r => wrote'[s] = wrote[s] /\ stdout'[s] = stdout[s]
        BY <1>1, <1>5 DEF ChildWrites, ExecTypeOK
    <2>2. wrote'[r] = wrote[r] + 1 /\ stdout'[r] = stdout[r] + 1 /\ reader' = reader
        BY <1>1, <1>5 DEF ChildWrites, ExecTypeOK
    <2>3. wrote'[r] = stdout'[r] + reader'[r].got
        BY <1>1, <2>2 DEF OutputIsCounted, ExecTypeOK
    <2> QED
        BY <1>1, <2>1, <2>2, <2>3 DEF OutputIsCounted
<1> QED
    BY <1>2, <1>3, <1>4, <1>5
       DEF ExecNext, execVars, ExecSpawn, ExecSpawnFails, ExecWrites, ExecReaps,
           ExecTimesOut, ExecJoins, ChildReads, ChildExits

(* Every step keeps what a reader's end says, and what the caller's place   *)
(* says: a child that exited does not come back.                            *)
LEMMA ExecKeepsThePlaces ==
    ExecInvariant /\ [ExecNext]_execVars => ReaderEndsLast' /\ CallerKnows'
<1> SUFFICES ASSUME ExecInvariant, [ExecNext]_execVars
             PROVE  ReaderEndsLast' /\ CallerKnows'
    OBVIOUS
<1> USE DEF ReaderEndsLast, CallerKnows, ExecTypeOK, Returns
<1>1. ExecTypeOK /\ ReaderEndsLast /\ CallerKnows
    BY DEF ExecInvariant
<1>2. CASE UNCHANGED execVars
    BY <1>1, <1>2 DEF execVars
<1>3. ASSUME NEW r \in Runs, ExecSpawn(r) PROVE ReaderEndsLast' /\ CallerKnows'
    BY <1>1, <1>3 DEF ExecSpawn
<1>4. ASSUME NEW r \in Runs, ExecSpawnFails(r) PROVE ReaderEndsLast' /\ CallerKnows'
    BY <1>1, <1>4 DEF ExecSpawnFails
<1>5. ASSUME NEW r \in Runs, ExecWrites(r) PROVE ReaderEndsLast' /\ CallerKnows'
    BY <1>1, <1>5 DEF ExecWrites
<1>6. ASSUME NEW r \in Runs, ExecWaits(r) PROVE ReaderEndsLast' /\ CallerKnows'
    BY <1>1, <1>6 DEF ExecWaits
<1>7. ASSUME NEW r \in Runs, ExecReaps(r) PROVE ReaderEndsLast' /\ CallerKnows'
    BY <1>1, <1>7 DEF ExecReaps
<1>8. ASSUME NEW r \in Runs, ExecTimesOut(r) PROVE ReaderEndsLast' /\ CallerKnows'
    BY <1>1, <1>8 DEF ExecTimesOut
<1>9. ASSUME NEW r \in Runs, ExecJoins(r) PROVE ReaderEndsLast' /\ CallerKnows'
    BY <1>1, <1>9 DEF ExecJoins
<1>10. ASSUME NEW r \in Runs, ReaderReads(r) PROVE ReaderEndsLast' /\ CallerKnows'
    <2>1. ReaderEndsLast'
      <3>1. child' = child
          BY <1>10 DEF ReaderReads
      <3>2. /\ \A s \in Runs : s # r => reader'[s] = reader[s] /\ stdout'[s] = stdout[s]
            /\ reader'[r].at = "ended" =>
                 stdout[r] = 0 /\ stdout' = stdout /\ child[r] \in {"exited", "reaped"}
          BY <1>1, <1>10, ReadingSteps
      <3> QED
          BY <1>1, <3>1, <3>2
    <2>2. CallerKnows'
      <3>1. UNCHANGED <<run, result, unsent, stdin, child, wrote>>
          BY <1>10 DEF ReaderReads
      <3>2. /\ \A s \in Runs : s # r => reader'[s] = reader[s]
            /\ reader[r].at = "reads" /\ reader'[r].at \in {"reads", "ended"}
          BY <1>1, <1>10, ReadingSteps
      <3> QED
          BY <1>1, <3>1, <3>2
    <2> QED
        BY <2>1, <2>2
<1>11. ASSUME NEW r \in Runs, ChildReads(r) PROVE ReaderEndsLast' /\ CallerKnows'
    BY <1>1, <1>11 DEF ChildReads
<1>12. ASSUME NEW r \in Runs, ChildWrites(r) PROVE ReaderEndsLast' /\ CallerKnows'
    BY <1>1, <1>12 DEF ChildWrites
<1>13. ASSUME NEW r \in Runs, ChildExits(r) PROVE ReaderEndsLast' /\ CallerKnows'
    BY <1>1, <1>13 DEF ChildExits
<1> QED
    BY <1>2, <1>3, <1>4, <1>5, <1>6, <1>7, <1>8, <1>9, <1>10, <1>11, <1>12, <1>13
       DEF ExecNext

(* Every step keeps a returned output whole: it is taken from a reader that *)
(* ended, and a reaped child writes no more.                                *)
LEMMA ExecKeepsOutputWhole == ExecInvariant /\ [ExecNext]_execVars => OutputIsWhole'
<1> SUFFICES ASSUME ExecInvariant, [ExecNext]_execVars PROVE OutputIsWhole'
    OBVIOUS
<1> USE DEF OutputIsWhole, ExecTypeOK, Returns
<1>1. ExecTypeOK /\ OutputIsWhole /\ CallerKnows
    BY DEF ExecInvariant
<1>2. CASE UNCHANGED execVars
    BY <1>1, <1>2 DEF execVars
<1>3. ASSUME NEW r \in Runs, ExecSpawn(r) PROVE OutputIsWhole'
    BY <1>1, <1>3 DEF ExecSpawn, CallerKnows
<1>4. ASSUME NEW r \in Runs, ExecSpawnFails(r) PROVE OutputIsWhole'
    BY <1>1, <1>4 DEF ExecSpawnFails
<1>5. CASE UNCHANGED <<result, wrote, child>>
    BY <1>1, <1>5
<1>6. ASSUME NEW r \in Runs, ExecReaps(r) PROVE OutputIsWhole'
    BY <1>1, <1>6 DEF ExecReaps
<1>7. ASSUME NEW r \in Runs, ExecTimesOut(r) PROVE OutputIsWhole'
    BY <1>1, <1>7 DEF ExecTimesOut
<1>8. ASSUME NEW r \in Runs, ExecJoins(r) PROVE OutputIsWhole'
    <2>1. stdout[r] = 0 /\ wrote[r] = stdout[r] + reader[r].got
        BY <1>8 DEF ExecInvariant, ReaderEndsLast, OutputIsCounted, ExecJoins
    <2>2. wrote[r] = reader[r].got
        BY <1>1, <2>1
    <2>3. child[r] = "reaped"
        BY <1>1, <1>8 DEF CallerKnows, ExecJoins
    <2> QED
        BY <1>1, <1>8, <2>2, <2>3 DEF ExecJoins
<1>9. ASSUME NEW r \in Runs, ChildWrites(r) PROVE OutputIsWhole'
    BY <1>1, <1>9 DEF ChildWrites
<1>10. ASSUME NEW r \in Runs, ChildExits(r) PROVE OutputIsWhole'
    BY <1>1, <1>10 DEF ChildExits
<1> QED
    BY <1>2, <1>3, <1>4, <1>5, <1>6, <1>7, <1>8, <1>9, <1>10
       DEF ExecNext, ExecWrites, ExecWaits, ReaderReads, ChildReads

-----------------------------------------------------------------------------
(* The inductive invariant: where caller, child and reader stand together.  *)
THEOREM ExecIsInvariant == ExecSpec => []ExecInvariant
<1>1. ExecInvariant /\ [ExecNext]_execVars => ExecInvariant'
    BY ExecKeepsTypes, ExecKeepsTheCount, ExecKeepsThePlaces, ExecKeepsOutputWhole
       DEF ExecInvariant
<1> QED
    BY ExecStarts, <1>1, PTL DEF ExecSpec

(* wait_child_timeout never returns part of an output: the exit is noticed  *)
(* while frames are still in the pipes, and the result is made after them.  *)
THEOREM OutputsAreWhole == ExecSpec => []OutputIsWhole
BY ExecIsInvariant, PTL DEF ExecInvariant

(* The type invariant: a pipe never holds more than its size, and a reader  *)
(* never has more than the largest output.                                  *)
THEOREM ExecTypes == ExecSpec => []ExecTypeOK
BY ExecIsInvariant, PTL DEF ExecInvariant

-----------------------------------------------------------------------------
(* The passwords                                                           *)

(* What a generation names: at most one host, and never a later install. *)
SessionsDiffer ==
    /\ \A h \in AskHosts : ActiveFor(h) => sessions[h].generation <= generation
    /\ \A h, k \in AskHosts :
           /\ ActiveFor(h) /\ ActiveFor(k)
           /\ sessions[h].generation = sessions[k].generation
           => h = k

(* The generation in a command's environment names no host but its own. *)
EnvIsOfItsHost == \A a \in Asks :
    /\ ask[a].at \in {"idle", "flavor"} => ask[a].env = None
    /\ ask[a].at # "idle" => ask[a].host \in AskHosts
    /\ ask[a].at = "connected" => ask[a].env # None
    /\ ask[a].env # None =>
           /\ ask[a].at # "idle"
           /\ ask[a].env.generation <= generation
           /\ \A h \in AskHosts :
                  ActiveFor(h) /\ sessions[h].generation = ask[a].env.generation
                  => h = ask[a].host

Place(g) == 1..Len(listener[g].queue)

(* A command waits in one place of one queue, and has no password yet. *)
QueuedAreWaiting ==
    /\ \A a \in Asks : ask[a].at # "done" => ask[a].got = None
    /\ \A g \in Generations : listener[g].at = "read" =>
           listener[g].queue # <<>> /\ listener[g].served < MaxServes
    /\ \A g \in Generations : \A i \in Place(g) :
           /\ ask[listener[g].queue[i]].at = "connected"
           /\ \A k \in Generations : \A j \in Place(k) :
                  listener[g].queue[i] = listener[k].queue[j] => g = k /\ i = j

AskpassInvariant ==
    /\ AskpassTypeOK
    /\ SessionsDiffer
    /\ EnvIsOfItsHost
    /\ QueuedAreWaiting

-----------------------------------------------------------------------------
(* What an install changes, field by field. *)
LEMMA InstallFields ==
    ASSUME AskpassTypeOK, NEW h \in AskHosts, InstallSession(h)
    PROVE  /\ generation' = generation + 1 /\ generation' \in Generations
           /\ listener' \in [Generations -> Listener]
           /\ sessions' \in [AskHosts -> Session \cup {None}]
           /\ \A k \in AskHosts : k # h => sessions'[k] = sessions[k]
           /\ sessions'[h] # None /\ sessions'[h].generation = generation + 1
           /\ \A g \in Generations : listener'[g].queue = listener[g].queue
           /\ \A g \in Generations : listener'[g].at \in {"accept", listener[g].at}
           /\ \A g \in Generations : listener'[g].served = listener[g].served
           /\ UNCHANGED ask
<1> USE AskpassAssumption
<1> DEFINE n == generation + 1
<1>1. generation' = n /\ n \in Generations /\ generation \in Nat
    BY DEF InstallSession, AskpassTypeOK, Generations
<1>2. PICK p \in Ports : /\ sessions' = [sessions EXCEPT ![h] = [generation |-> n, port |-> p]]
                         /\ listener' = [listener EXCEPT ![n].at = "accept", ![n].port = p]
    BY <1>1 DEF InstallSession
<1>3. [generation |-> n, port |-> p] \in Session /\ [generation |-> n, port |-> p] # None
    BY <1>1 DEF Session
<1> HIDE DEF n
<1>4. listener[n] \in Listener
    BY <1>1 DEF AskpassTypeOK
<1>5. \A g \in Generations : g # n => listener'[g] = listener[g]
    BY <1>1, <1>2 DEF AskpassTypeOK
<1>6. /\ listener'[n].queue = listener[n].queue /\ listener'[n].at = "accept"
      /\ listener'[n].served = listener[n].served /\ listener'[n] \in Listener
    BY <1>1, <1>2, <1>4 DEF AskpassTypeOK, Listener
<1> QED
    BY <1>1, <1>2, <1>3, <1>4, <1>5, <1>6 DEF InstallSession, AskpassTypeOK, Listener, n

(* Connecting appends a waiting command to one queue, or ends it. *)
LEMMA ConnectFields ==
    ASSUME AskpassTypeOK, NEW a \in Asks, AskConnects(a)
    PROVE  /\ ask[a].at = "ssh" /\ ask[a].env # None
           /\ ask' \in [Asks -> Command]
           /\ \A b \in Asks : b # a => ask'[b] = ask[b]
           /\ ask'[a].host = ask[a].host /\ ask'[a].env = ask[a].env
           /\ ask'[a].got = ask[a].got
           /\ \/ ask'[a].at = "done" /\ UNCHANGED listener
              \/ /\ ask'[a].at = "connected"
                 /\ \E g \in Generations :
                        listener' = [listener EXCEPT ![g].queue = Append(@, a)]
<1>1. ask[a].at = "ssh" /\ ask[a].env # None
    BY DEF AskConnects
<1>2. \/ ask' = [ask EXCEPT ![a].at = "done"] /\ UNCHANGED listener
      \/ /\ ask' = [ask EXCEPT ![a].at = "connected"]
         /\ \E g \in Generations : listener' = [listener EXCEPT ![g].queue = Append(@, a)]
    BY DEF AskConnects
<1>3. ASSUME NEW place \in {"done", "connected"}, ask' = [ask EXCEPT ![a].at = place]
      PROVE  /\ \A b \in Asks : b # a => ask'[b] = ask[b]
             /\ ask'[a] = [ask[a] EXCEPT !.at = place]
             /\ ask' \in [Asks -> Command]
    <2>1. [ask[a] EXCEPT !.at = place] \in Command
        BY DEF AskpassTypeOK, Command
    <2> QED
        BY <1>3, <2>1 DEF AskpassTypeOK
<1> QED
    BY <1>1, <1>2, <1>3 DEF AskpassTypeOK, Command

(* An append to one queue, place by place. *)
LEMMA AppendFields ==
    ASSUME AskpassTypeOK, NEW a \in Asks, NEW g \in Generations,
           listener' = [listener EXCEPT ![g].queue = Append(@, a)]
    PROVE  /\ listener' \in [Generations -> Listener]
           /\ \A k \in Generations : k # g => listener'[k] = listener[k]
           /\ listener'[g].at = listener[g].at
           /\ listener'[g].queue # <<>>
           /\ Len(listener'[g].queue) = Len(listener[g].queue) + 1
           /\ \A i \in Place(g) : listener'[g].queue[i] = listener[g].queue[i]
           /\ listener'[g].queue[Len(listener[g].queue) + 1] = a
<1> DEFINE q == listener[g].queue
<1>1. q \in Seq(Asks)
    BY DEF AskpassTypeOK, Listener
<1>2. /\ Append(q, a) \in Seq(Asks)
      /\ Len(Append(q, a)) = Len(q) + 1
      /\ \A i \in 1..Len(q) : Append(q, a)[i] = q[i]
      /\ Append(q, a)[Len(q) + 1] = a
    BY <1>1, AppendProperties
<1>3. Append(q, a) # <<>>
    BY <1>1, <1>2, EmptySeq, LenProperties
<1>4. /\ listener'[g].queue = Append(q, a) /\ listener'[g].at = listener[g].at
      /\ listener'[g].port = listener[g].port /\ listener'[g].served = listener[g].served
      /\ \A k \in Generations : k # g => listener'[k] = listener[k]
    BY DEF AskpassTypeOK, Listener
<1>5. listener' \in [Generations -> Listener]
    <2>1. [listener[g] EXCEPT !.queue = Append(q, a)] \in Listener
        BY <1>2 DEF AskpassTypeOK, Listener
    <2> HIDE DEF q
    <2>2. listener' = [listener EXCEPT ![g] = [listener[g] EXCEPT !.queue = Append(q, a)]]
        BY DEF q
    <2> QED
        BY <2>1, <2>2 DEF AskpassTypeOK
<1> QED
    BY <1>2, <1>3, <1>4, <1>5 DEF Place

(* An answer takes the head of a queue, which is a waiting command. *)
LEMMA AnswerFields ==
    ASSUME AskpassTypeOK, QueuedAreWaiting, NEW g \in Generations, ServeAnswer(g)
    PROVE  LET a == listener[g].queue[1]
               ok == Answers(g, a)
           IN /\ a \in Asks /\ 1 \in Place(g) /\ ask[a].at = "connected"
              /\ ask' \in [Asks -> Command]
              /\ \A b \in Asks : b # a => ask'[b] = ask[b]
              /\ ask'[a].at = "done" /\ ask'[a].env = ask[a].env
              /\ ask'[a].host = ask[a].host
              /\ ask'[a].got = IF ok THEN g ELSE None
              /\ \A k \in Generations : k # g => listener'[k] = listener[k]
              /\ listener'[g].at = "accept"
              /\ listener' \in [Generations -> Listener]
              /\ Len(listener'[g].queue) = Len(listener[g].queue) - 1
              /\ \A i \in 1..Len(listener'[g].queue) :
                     listener'[g].queue[i] = listener[g].queue[i + 1]
<1> DEFINE q == listener[g].queue
           a == Head(q)
           ok == Answers(g, a)
<1>1. q \in Seq(Asks) /\ q # <<>>
    BY DEF AskpassTypeOK, Listener, QueuedAreWaiting, ServeAnswer
<1>2. /\ a \in Asks /\ Tail(q) \in Seq(Asks) /\ Len(Tail(q)) = Len(q) - 1
      /\ \A i \in 1..Len(Tail(q)) : Tail(q)[i] = q[i + 1]
    BY <1>1, HeadTailProperties
<1>3. a = q[1]
    BY <1>1
<1>4. 1 \in 1..Len(q)
    BY <1>1, EmptySeq, LenProperties
<1>5. ask[a].at = "connected"
    BY <1>3, <1>4 DEF QueuedAreWaiting, Place
<1>6. /\ ask' = [ask EXCEPT ![a].at = "done", ![a].got = IF ok THEN g ELSE None]
      /\ listener' = [listener EXCEPT ![g].at = "accept", ![g].queue = Tail(@),
                                      ![g].served = IF ok THEN @ + 1 ELSE @]
    BY DEF ServeAnswer
<1> HIDE DEF q, a, ok
<1>7. /\ ask' \in [Asks -> Command]
      /\ \A b \in Asks : b # a => ask'[b] = ask[b]
      /\ ask'[a].at = "done" /\ ask'[a].env = ask[a].env /\ ask'[a].host = ask[a].host
      /\ ask'[a].got = IF ok THEN g ELSE None
    <2>1. [ask[a] EXCEPT !.at = "done", !.got = IF ok THEN g ELSE None] \in Command
        <3>1. ask[a] \in Command /\ (IF ok THEN g ELSE None) \in Generations \cup {None}
            BY <1>2 DEF AskpassTypeOK
        <3> QED
            BY <3>1 DEF Command
    <2>2. ask' = [ask EXCEPT ![a] = [ask[a] EXCEPT !.at = "done", !.got = IF ok THEN g ELSE None]]
        BY <1>6
    <2> QED
        BY <1>2, <2>1, <2>2 DEF AskpassTypeOK, Command
<1>8. /\ \A k \in Generations : k # g => listener'[k] = listener[k]
      /\ listener'[g].at = "accept" /\ listener'[g].queue = Tail(q)
    BY <1>6 DEF AskpassTypeOK, Listener, q
<1>9. listener' \in [Generations -> Listener]
    <2> DEFINE n == IF ok THEN listener[g].served + 1 ELSE listener[g].served
    <2>1. listener[g] \in Listener /\ listener[g].served < MaxServes
        BY DEF AskpassTypeOK, QueuedAreWaiting, ServeAnswer
    <2>2. n \in 0..MaxServes
        BY <2>1, AskpassAssumption DEF Listener
    <2>3. listener' = [listener EXCEPT ![g] = [listener[g] EXCEPT
                           !.at = "accept", !.queue = Tail(q), !.served = n]]
        BY <1>6 DEF q
    <2> HIDE DEF n
    <2>4. [listener[g] EXCEPT !.at = "accept", !.queue = Tail(q), !.served = n] \in Listener
        BY <1>2, <2>1, <2>2 DEF Listener
    <2> QED
        BY <2>3, <2>4 DEF AskpassTypeOK
<1> QED
    BY <1>2, <1>3, <1>4, <1>5, <1>7, <1>8, <1>9 DEF Place, q, ok

(* The end of a thread ends the commands of its queue, which were waiting. *)
Drained(g) == [a \in Asks |-> IF a \in ToSet(listener[g].queue)
                              THEN [ask[a] EXCEPT !.at = "done"] ELSE ask[a]]

(* Drained leaves everything of a command but where it is. *)
LEMMA DrainedFields ==
    ASSUME AskpassTypeOK, QueuedAreWaiting, NEW g \in Generations
    PROVE  /\ Drained(g) \in [Asks -> Command]
           /\ \A a \in Asks : /\ Drained(g)[a].host = ask[a].host
                               /\ Drained(g)[a].env = ask[a].env
                               /\ Drained(g)[a].got = ask[a].got
                               /\ \/ Drained(g)[a].at = ask[a].at
                                  \/ Drained(g)[a].at = "done" /\ ask[a].at = "connected"
           /\ \A k \in Generations : k # g =>
                  \A i \in Place(k) : Drained(g)[listener[k].queue[i]].at = "connected"
<1> DEFINE q == listener[g].queue
<1>1. \A a \in ToSet(q) : \E i \in Place(g) : a = q[i]
    <2>1. q \in Seq(Asks)
        BY DEF AskpassTypeOK, Listener
    <2> QED
        BY <2>1, LenProperties DEF ToSet, Place
<1>2. \A a \in ToSet(q) : ask[a].at = "connected"
    BY <1>1 DEF QueuedAreWaiting
<1>3. ASSUME NEW a \in Asks
      PROVE  /\ Drained(g)[a] \in Command
             /\ Drained(g)[a].host = ask[a].host /\ Drained(g)[a].env = ask[a].env
             /\ Drained(g)[a].got = ask[a].got
             /\ \/ Drained(g)[a] = ask[a]
                \/ Drained(g)[a].at = "done" /\ ask[a].at = "connected" /\ a \in ToSet(q)
    <2>1. ask[a] \in Command
        BY DEF AskpassTypeOK
    <2> QED
        BY <1>2, <2>1 DEF Drained, Command
<1>4. Drained(g) \in [Asks -> Command]
    BY <1>3 DEF Drained
<1>5. ASSUME NEW k \in Generations, k # g, NEW i \in Place(k)
      PROVE  Drained(g)[listener[k].queue[i]].at = "connected"
    <2>1. listener[k].queue[i] \in Asks
        BY ElementOfSeq DEF AskpassTypeOK, Listener, Place
    <2>2. listener[k].queue[i] \notin ToSet(q)
        BY <1>1, <1>5 DEF QueuedAreWaiting
    <2> QED
        BY <1>3, <2>1, <2>2 DEF QueuedAreWaiting
<1> QED
    BY <1>3, <1>4, <1>5

(* The next connection is read from, or the thread ends. *)
LEMMA AcceptFields ==
    ASSUME AskpassTypeOK, NEW g \in Generations, ServeAccept(g)
    PROVE  /\ listener[g].queue # <<>> /\ listener' \in [Generations -> Listener]
           /\ \A k \in Generations : k # g => listener'[k] = listener[k]
           /\ \/ /\ listener'[g].at = "gone" /\ listener'[g].queue = <<>>
                 /\ ask' = Drained(g)
              \/ /\ listener'[g].queue = listener[g].queue
                 /\ listener'[g].served < MaxServes
                 /\ ask' = ask
<1> DEFINE q == listener[g].queue
<1>1. q \in Seq(Asks) /\ q # <<>> /\ listener[g] \in Listener
    BY DEF AskpassTypeOK, Listener, ServeAccept
<1>2. CASE /\ ask' = Drained(g)
           /\ listener' = [listener EXCEPT ![g].at = "gone", ![g].queue = <<>>]
    <2>1. /\ \A k \in Generations : k # g => listener'[k] = listener[k]
          /\ listener'[g].at = "gone" /\ listener'[g].queue = <<>>
          /\ listener' \in [Generations -> Listener]
        BY <1>1, <1>2, EmptySeq DEF AskpassTypeOK, Listener
    <2> QED
        BY <1>1, <1>2, <2>1
<1>3. CASE /\ listener[g].served < MaxServes
           /\ listener' = [listener EXCEPT ![g].at = "read"] /\ ask' = ask
    <2>1. /\ \A k \in Generations : k # g => listener'[k] = listener[k]
          /\ listener'[g].queue = q /\ listener'[g].served = listener[g].served
          /\ listener' \in [Generations -> Listener]
        BY <1>1, <1>3 DEF AskpassTypeOK, Listener
    <2> QED
        BY <1>1, <1>3, <2>1
<1>4. listener[g].served \in Nat
    BY <1>1, AskpassAssumption DEF Listener
<1> QED
    BY <1>2, <1>3, <1>4, AskpassAssumption DEF ServeAccept, Drained

-----------------------------------------------------------------------------
(* To begin with no password is held, and no command is on its way. *)
LEMMA AskpassStarts == AskpassInit => AskpassInvariant
<1> SUFFICES ASSUME AskpassInit PROVE AskpassInvariant
    OBVIOUS
<1> USE AskpassAssumption DEF AskpassInit
<1>1. <<>> \in Seq(Asks) /\ Len(<<>>) = 0
    BY EmptySeq
<1>2. AskpassTypeOK
    BY <1>1 DEF AskpassTypeOK, Listener, Command, Unasked
<1>3. SessionsDiffer
    BY DEF SessionsDiffer, ActiveFor
<1>4. EnvIsOfItsHost
    BY DEF EnvIsOfItsHost, Unasked
<1>5. QueuedAreWaiting
    BY <1>1 DEF QueuedAreWaiting, Unasked, Place
<1> QED
    BY <1>2, <1>3, <1>4, <1>5 DEF AskpassInvariant

(* Every step keeps the types. *)
LEMMA AskpassKeepsTypes ==
    AskpassInvariant /\ [AskpassNext]_askpassVars => AskpassTypeOK'
<1> SUFFICES ASSUME AskpassInvariant, [AskpassNext]_askpassVars PROVE AskpassTypeOK'
    OBVIOUS
<1>1. AskpassTypeOK /\ QueuedAreWaiting
    BY DEF AskpassInvariant
<1>2. CASE UNCHANGED askpassVars
    BY <1>1, <1>2 DEF askpassVars, AskpassTypeOK
<1>3. ASSUME NEW h \in AskHosts, InstallSession(h) PROVE AskpassTypeOK'
    <2>1. generation' \in 0..MaxGeneration
        BY <1>1, <1>3, InstallFields, AskpassAssumption DEF Generations
    <2>2. /\ sessions' \in [AskHosts -> Session \cup {None}] /\ UNCHANGED <<authMode, ask>>
          /\ listener' \in [Generations -> Listener]
        BY <1>1, <1>3, InstallFields DEF InstallSession
    <2> QED
        BY <1>1, <2>1, <2>2 DEF AskpassTypeOK
<1>4. CASE ClearSessions
    BY <1>1, <1>4, AskpassAssumption DEF AskpassTypeOK, ClearSessions
<1>5. ASSUME NEW a \in Asks, NEW h \in AskHosts, AskFlavor(a, h) PROVE AskpassTypeOK'
    <2>1. FlavorFor(authMode[h], ActiveFor(h)) \in Flavors
        BY DEF FlavorFor, Flavors
    <2>2. [ask[a] EXCEPT !.at = "flavor", !.host = h,
                           !.flavor = FlavorFor(authMode[h], ActiveFor(h))] \in Command
        BY <1>1, <2>1 DEF AskpassTypeOK, Command
    <2> QED
        BY <1>1, <1>5, <2>2 DEF AskpassTypeOK, AskFlavor
<1>6. ASSUME NEW a \in Asks, AskApply(a) PROVE AskpassTypeOK'
    <2>1. ask[a].host \in AskHosts
        BY <1>6 DEF AskApply, AskpassInvariant, EnvIsOfItsHost
    <2>2. ask[a] \in Command /\ sessions[ask[a].host] \in Session \cup {None}
        BY <1>1, <2>1 DEF AskpassTypeOK
    <2>3. [ask[a] EXCEPT !.at = "ssh", !.env = sessions[ask[a].host]] \in Command
        BY <2>2 DEF Command
    <2> QED
        BY <1>1, <1>6, <2>3 DEF AskpassTypeOK, AskApply
<1>7. ASSUME NEW a \in Asks, AskNothing(a) PROVE AskpassTypeOK'
    BY <1>1, <1>7 DEF AskpassTypeOK, AskNothing, Command
<1>8. ASSUME NEW a \in Asks, AskConnects(a) PROVE AskpassTypeOK'
    BY <1>1, <1>8, ConnectFields, AppendFields DEF AskpassTypeOK, AskConnects
<1>9. ASSUME NEW g \in Generations, ServeAccept(g) PROVE AskpassTypeOK'
    BY <1>1, <1>9, AcceptFields, DrainedFields DEF AskpassTypeOK, ServeAccept
<1>10. ASSUME NEW g \in Generations, ServeAnswer(g) PROVE AskpassTypeOK'
    BY <1>1, <1>10, AnswerFields DEF AskpassTypeOK, ServeAnswer
<1> QED
    BY <1>2, <1>3, <1>4, <1>5, <1>6, <1>7, <1>8, <1>9, <1>10 DEF AskpassNext

(* Every step keeps generations apart: an install mints a later one. *)
LEMMA AskpassKeepsSessionsApart ==
    AskpassInvariant /\ [AskpassNext]_askpassVars => SessionsDiffer' /\ EnvIsOfItsHost'
<1> SUFFICES ASSUME AskpassInvariant, [AskpassNext]_askpassVars
             PROVE  SessionsDiffer' /\ EnvIsOfItsHost'
    OBVIOUS
<1> USE AskpassAssumption DEF SessionsDiffer, EnvIsOfItsHost, ActiveFor
<1>1. AskpassTypeOK /\ QueuedAreWaiting /\ SessionsDiffer /\ EnvIsOfItsHost /\ generation \in Nat
    BY DEF AskpassInvariant, AskpassTypeOK
<1>2. CASE UNCHANGED askpassVars
    BY <1>1, <1>2 DEF askpassVars
<1>3. ASSUME NEW h \in AskHosts, InstallSession(h) PROVE SessionsDiffer' /\ EnvIsOfItsHost'
    <2>1. \A k \in AskHosts : sessions[k] # None => sessions[k].generation \in Nat
        BY <1>1 DEF AskpassTypeOK, Session, Generations
    <2>2. \A a \in Asks : ask[a].env # None => ask[a].env.generation \in Nat
        BY <1>1 DEF AskpassTypeOK, Command, Session, Generations
    <2>3. SessionsDiffer'
        BY <1>1, <1>3, <2>1, InstallFields
    <2>4. EnvIsOfItsHost'
        BY <1>1, <1>3, <2>2, InstallFields
    <2> QED
        BY <2>3, <2>4
<1>4. CASE ClearSessions
    <2>1. \A a \in Asks : ask[a].env # None => ask[a].env.generation \in Nat
        BY <1>1 DEF AskpassTypeOK, Command, Session, Generations
    <2> QED
        BY <1>1, <1>4, <2>1 DEF ClearSessions
<1>5. ASSUME NEW a \in Asks, NEW h \in AskHosts, AskFlavor(a, h)
      PROVE  SessionsDiffer' /\ EnvIsOfItsHost'
    <2>1. /\ \A b \in Asks : b # a => ask'[b] = ask[b]
          /\ ask'[a].at = "flavor" /\ ask'[a].host = h /\ ask'[a].env = ask[a].env
        BY <1>1, <1>5 DEF AskFlavor, AskpassTypeOK, Command
    <2>2. UNCHANGED <<sessions, generation>> /\ ask[a].at = "idle"
        BY <1>5 DEF AskFlavor
    <2>3. ask[a].env = None
        BY <1>1, <2>2
    <2>4. EnvIsOfItsHost'
        BY <1>1, <2>1, <2>2, <2>3
    <2> QED
        BY <1>1, <2>2, <2>4
<1>6. ASSUME NEW a \in Asks, AskApply(a) PROVE SessionsDiffer' /\ EnvIsOfItsHost'
    <2>1. /\ \A b \in Asks : b # a => ask'[b] = ask[b]
          /\ ask'[a].at = "ssh" /\ ask'[a].host = ask[a].host
          /\ ask'[a].env = sessions[ask[a].host]
        BY <1>1, <1>6 DEF AskApply, AskpassTypeOK, Command
    <2>2. ask[a].host \in AskHosts
        BY <1>1, <1>6 DEF AskApply
    <2>3. UNCHANGED <<sessions, generation>>
        BY <1>6 DEF AskApply
    <2>4. EnvIsOfItsHost'
        BY <1>1, <2>1, <2>2, <2>3
    <2> QED
        BY <1>1, <2>3, <2>4
<1>7. ASSUME NEW a \in Asks, AskNothing(a) PROVE SessionsDiffer' /\ EnvIsOfItsHost'
    <2>1. /\ \A b \in Asks : b # a => ask'[b] = ask[b]
          /\ ask'[a].at = "done" /\ ask'[a].host = ask[a].host /\ ask'[a].env = ask[a].env
        BY <1>1, <1>7 DEF AskNothing, AskpassTypeOK, Command
    <2> QED
        BY <1>1, <1>7, <2>1 DEF AskNothing
<1>8. ASSUME NEW a \in Asks, AskConnects(a) PROVE SessionsDiffer' /\ EnvIsOfItsHost'
    BY <1>1, <1>8, ConnectFields DEF AskConnects
<1>9. ASSUME NEW g \in Generations, ServeAccept(g) PROVE SessionsDiffer' /\ EnvIsOfItsHost'
    <2>1. UNCHANGED <<sessions, generation>>
        BY <1>9 DEF ServeAccept
    <2>2. \A a \in Asks : /\ ask'[a].host = ask[a].host /\ ask'[a].env = ask[a].env
                          /\ ask'[a].at \in {"done", ask[a].at}
                          /\ ask[a].at = "idle" => ask'[a].at = "idle"
        BY <1>1, <1>9, AcceptFields, DrainedFields
    <2> QED
        BY <1>1, <2>1, <2>2
<1>10. ASSUME NEW g \in Generations, ServeAnswer(g) PROVE SessionsDiffer' /\ EnvIsOfItsHost'
    <2>1. UNCHANGED <<sessions, generation>>
        BY <1>10 DEF ServeAnswer
    <2>2. \A a \in Asks : /\ ask'[a].host = ask[a].host /\ ask'[a].env = ask[a].env
                          /\ \/ ask'[a].at = ask[a].at
                             \/ ask'[a].at = "done" /\ ask[a].at = "connected"
        BY <1>1, <1>10, AnswerFields
    <2> QED
        BY <1>1, <2>1, <2>2
<1> QED
    BY <1>2, <1>3, <1>4, <1>5, <1>6, <1>7, <1>8, <1>9, <1>10 DEF AskpassNext

(* Every step keeps a command in one place of one queue. *)
LEMMA AskpassKeepsQueues ==
    AskpassInvariant /\ [AskpassNext]_askpassVars => QueuedAreWaiting'
<1> SUFFICES ASSUME AskpassInvariant, [AskpassNext]_askpassVars PROVE QueuedAreWaiting'
    OBVIOUS
<1> USE AskpassAssumption DEF QueuedAreWaiting
<1>1. AskpassTypeOK /\ QueuedAreWaiting
    BY DEF AskpassInvariant
<1>2. ASSUME NEW k \in Generations, NEW i \in Place(k)
      PROVE  listener[k].queue[i] \in Asks /\ Len(listener[k].queue) \in Nat
    BY <1>1, ElementOfSeq, LenProperties DEF AskpassTypeOK, Listener, Place
<1>3. ASSUME NEW a \in Asks, ask[a].at # "connected", UNCHANGED listener,
             \A b \in Asks : b # a => ask'[b] = ask[b],
             ask'[a].at # "done" => ask'[a].got = None
      PROVE  QueuedAreWaiting'
    BY <1>1, <1>2, <1>3 DEF Place
<1>4. CASE UNCHANGED askpassVars
    BY <1>1, <1>4 DEF askpassVars, Place
<1>5. ASSUME NEW h \in AskHosts, InstallSession(h) PROVE QueuedAreWaiting'
    BY <1>1, <1>5, InstallFields DEF Place
<1>6. CASE ClearSessions
    BY <1>1, <1>6 DEF ClearSessions, Place
<1>7. ASSUME NEW a \in Asks, NEW h \in AskHosts, AskFlavor(a, h) PROVE QueuedAreWaiting'
    <2>1. ask'[a].got = ask[a].got /\ \A b \in Asks : b # a => ask'[b] = ask[b]
        BY <1>1, <1>7 DEF AskFlavor, AskpassTypeOK, Command
    <2> QED
        BY <1>1, <1>3, <1>7, <2>1 DEF AskFlavor
<1>8. ASSUME NEW a \in Asks, AskApply(a) PROVE QueuedAreWaiting'
    <2>1. ask'[a].got = ask[a].got /\ \A b \in Asks : b # a => ask'[b] = ask[b]
        BY <1>1, <1>8 DEF AskApply, AskpassTypeOK, Command
    <2> QED
        BY <1>1, <1>3, <1>8, <2>1 DEF AskApply
<1>9. ASSUME NEW a \in Asks, AskNothing(a) PROVE QueuedAreWaiting'
    <2>1. ask'[a].at = "done" /\ \A b \in Asks : b # a => ask'[b] = ask[b]
        BY <1>1, <1>9 DEF AskNothing, AskpassTypeOK, Command
    <2> QED
        BY <1>1, <1>3, <1>9, <2>1 DEF AskNothing
<1>10. ASSUME NEW a \in Asks, AskConnects(a) PROVE QueuedAreWaiting'
    <2>1. CASE ask'[a].at = "done" /\ UNCHANGED listener
        BY <1>1, <1>3, <1>10, <2>1, ConnectFields
    <2>2. ASSUME NEW g \in Generations, ask'[a].at = "connected",
                 listener' = [listener EXCEPT ![g].queue = Append(@, a)]
          PROVE  QueuedAreWaiting'
        <3>1. \A b \in Asks : ask'[b].at # "done" => ask'[b].got = None
            BY <1>1, <1>10, <2>2, ConnectFields
        <3>2. \A k \in Generations : listener'[k].at = "read" =>
                  listener'[k].queue # <<>> /\ listener'[k].served < MaxServes
            BY <1>1, <2>2, AppendFields
        <3>3. Len(listener[g].queue) \in Nat
            BY <1>1, LenProperties DEF AskpassTypeOK, Listener
        <3>4. ASSUME NEW k \in Generations, NEW i \in Place(k)'
              PROVE  \/ /\ i \in Place(k) /\ listener'[k].queue[i] = listener[k].queue[i]
                        /\ listener[k].queue[i] # a
                     \/ k = g /\ i = Len(listener[g].queue) + 1 /\ listener'[k].queue[i] = a
            <4>1. ask[a].at = "ssh"
                BY <1>1, <1>10, ConnectFields
            <4>2. CASE k = g
                BY <1>1, <2>2, <3>3, <3>4, <4>1, <4>2, AppendFields DEF Place
            <4>3. CASE k # g
                BY <1>1, <2>2, <3>4, <4>1, <4>3, AppendFields DEF Place
            <4> QED
                BY <4>2, <4>3
        <3>5. ASSUME NEW k \in Generations, NEW i \in Place(k)'
              PROVE  ask'[listener'[k].queue[i]].at = "connected"
            <4>1. \A b \in Asks : b # a => ask'[b] = ask[b]
                BY <1>1, <1>10, ConnectFields
            <4>2. CASE listener'[k].queue[i] = a
                BY <2>2, <4>2
            <4>3. CASE i \in Place(k) /\ listener'[k].queue[i] = listener[k].queue[i]
                       /\ listener[k].queue[i] # a
                <5>1. listener[k].queue[i] \in Asks /\ ask[listener[k].queue[i]].at = "connected"
                    BY <1>1, <1>2, <4>3
                <5> QED
                    BY <4>1, <4>3, <5>1
            <4> QED
                BY <3>4, <3>5, <4>2, <4>3
        <3>6. ASSUME NEW k \in Generations, NEW i \in Place(k)',
                     NEW m \in Generations, NEW j \in Place(m)',
                     listener'[k].queue[i] = listener'[m].queue[j]
              PROVE  k = m /\ i = j
            BY <1>1, <3>4, <3>6
        <3> QED
            BY <3>1, <3>2, <3>5, <3>6
    <2>3. \/ ask'[a].at = "done" /\ UNCHANGED listener
          \/ /\ ask'[a].at = "connected"
             /\ \E g \in Generations :
                    listener' = [listener EXCEPT ![g].queue = Append(@, a)]
        BY <1>1, <1>10, ConnectFields
    <2> QED
        BY <2>1, <2>2, <2>3
<1>11. ASSUME NEW g \in Generations, ServeAccept(g) PROVE QueuedAreWaiting'
    <2>1. CASE listener'[g].queue = <<>> /\ ask' = Drained(g)
        <3>1. Place(g)' = {} /\ \A k \in Generations : k # g => Place(k)' = Place(k)
            BY <1>1, <1>11, <2>1, EmptySeq, AcceptFields DEF Place
        <3>2. ASSUME NEW k \in Generations, NEW i \in Place(k)'
              PROVE  /\ k # g /\ i \in Place(k) /\ listener'[k].queue = listener[k].queue
                     /\ ask'[listener'[k].queue[i]].at = "connected"
            BY <1>1, <1>11, <2>1, <3>1, <3>2, AcceptFields, DrainedFields
        <3>3. \A a \in Asks : ask'[a].at # "done" => ask'[a].got = None
            BY <1>1, <2>1, DrainedFields
        <3>4. \A k \in Generations : listener'[k].at = "read" =>
                  listener'[k].queue # <<>> /\ listener'[k].served < MaxServes
            BY <1>1, <1>11, <2>1, AcceptFields
        <3> QED
            BY <1>1, <3>2, <3>3, <3>4
    <2>2. CASE /\ listener'[g].queue = listener[g].queue /\ listener'[g].served < MaxServes
               /\ ask' = ask
        <3>1. \A k \in Generations : listener'[k].queue = listener[k].queue
            BY <1>1, <1>11, <2>2, AcceptFields
        <3>2. \A k \in Generations : Place(k)' = Place(k)
            BY <3>1 DEF Place
        <3>3. \A k \in Generations : listener'[k].at = "read" =>
                  listener'[k].queue # <<>> /\ listener'[k].served < MaxServes
            BY <1>1, <1>11, <2>2, AcceptFields
        <3> QED
            BY <1>1, <2>2, <3>1, <3>2, <3>3
    <2> QED
        BY <1>1, <1>11, <2>1, <2>2, AcceptFields
<1>12. ASSUME NEW g \in Generations, ServeAnswer(g) PROVE QueuedAreWaiting'
    <2> DEFINE a == listener[g].queue[1]
    <2>1. /\ a \in Asks /\ 1 \in Place(g) /\ ask'[a].at = "done"
          /\ \A b \in Asks : b # a => ask'[b] = ask[b]
          /\ \A k \in Generations : k # g => listener'[k] = listener[k]
          /\ listener'[g].at = "accept"
          /\ Len(listener'[g].queue) = Len(listener[g].queue) - 1
          /\ \A i \in 1..Len(listener'[g].queue) :
                 listener'[g].queue[i] = listener[g].queue[i + 1]
        BY <1>1, <1>12, AnswerFields
    <2>2. Len(listener[g].queue) \in Nat
        BY <1>1, LenProperties DEF AskpassTypeOK, Listener
    <2>3. ASSUME NEW k \in Generations, NEW i \in Place(k)'
          PROVE  \E j \in Place(k) : /\ listener'[k].queue[i] = listener[k].queue[j]
                                     /\ j = (IF k = g THEN i + 1 ELSE i)
                                     /\ listener[k].queue[j] # a
        <3>1. CASE k = g
            <4>1. i + 1 \in Place(g) /\ i + 1 # 1
                BY <2>1, <2>2, <2>3, <3>1 DEF Place
            <4> QED
                BY <1>1, <2>1, <2>3, <3>1, <4>1 DEF Place
        <3>2. CASE k # g
            BY <1>1, <2>1, <2>3, <3>2 DEF Place
        <3> QED
            BY <3>1, <3>2
    <2> HIDE DEF a
    <2>4. ASSUME NEW k \in Generations, NEW i \in Place(k)'
          PROVE  ask'[listener'[k].queue[i]].at = "connected"
        BY <1>1, <1>2, <2>1, <2>3, <2>4
    <2>5. ASSUME NEW k \in Generations, NEW i \in Place(k)',
                 NEW m \in Generations, NEW j \in Place(m)',
                 listener'[k].queue[i] = listener'[m].queue[j]
          PROVE  k = m /\ i = j
        <3>1. PICK ii \in Place(k) : /\ listener'[k].queue[i] = listener[k].queue[ii]
                                     /\ ii = (IF k = g THEN i + 1 ELSE i)
            BY <2>3
        <3>2. PICK jj \in Place(m) : /\ listener'[m].queue[j] = listener[m].queue[jj]
                                     /\ jj = (IF m = g THEN j + 1 ELSE j)
            BY <2>3
        <3>0. listener[k].queue[ii] = listener[m].queue[jj]
            BY <2>5, <3>1, <3>2
        <3>3. k = m /\ ii = jj
            BY <1>1, <3>0
        <3>4. i \in Int /\ j \in Int
            BY DEF Place
        <3> QED
            BY <3>1, <3>2, <3>3, <3>4
    <2>6. \A k \in Generations : listener'[k].at = "read" =>
              listener'[k].queue # <<>> /\ listener'[k].served < MaxServes
        BY <1>1, <2>1
    <2>7. \A b \in Asks : ask'[b].at # "done" => ask'[b].got = None
        BY <1>1, <2>1
    <2> QED
        BY <2>4, <2>5, <2>6, <2>7
<1> QED
    BY <1>4, <1>5, <1>6, <1>7, <1>8, <1>9, <1>10, <1>11, <1>12 DEF AskpassNext

-----------------------------------------------------------------------------
(* The inductive invariant: what generations, environments and queues say   *)
(* of each other.                                                           *)
THEOREM AskpassIsInvariant == AskpassSpec => []AskpassInvariant
<1>1. AskpassInvariant /\ [AskpassNext]_askpassVars => AskpassInvariant'
    BY AskpassKeepsTypes, AskpassKeepsSessionsApart, AskpassKeepsQueues DEF AskpassInvariant
<1> QED
    BY AskpassStarts, <1>1, PTL DEF AskpassSpec

(* serve hands a password only to a command of the host it was typed for,   *)
(* and only while it is the one held, whatever ports are given out again    *)
(* and however replacements interleave with commands on their way.          *)
THEOREM PasswordsStay == AskpassSpec => PasswordStaysWithItsHost
<1>1. ASSUME AskpassInvariant, [AskpassNext]_askpassVars,
             NEW a \in Asks, ask[a].got # ask'[a].got
      PROVE  /\ ActiveFor(ask[a].host)
             /\ sessions[ask[a].host].generation = ask'[a].got
    <2> USE <1>1
    <2>1. AskpassTypeOK /\ QueuedAreWaiting /\ EnvIsOfItsHost
        BY DEF AskpassInvariant
    <2>2. PICK g \in Generations : ServeAnswer(g)
        <3>1. ASSUME NEW b \in Asks, NEW h \in AskHosts, AskFlavor(b, h)
              PROVE  ask'[a].got = ask[a].got
            BY <2>1, <3>1 DEF AskFlavor, AskpassTypeOK, Command
        <3>2. ASSUME NEW b \in Asks, AskApply(b) PROVE ask'[a].got = ask[a].got
            BY <2>1, <3>2 DEF AskApply, AskpassTypeOK, Command
        <3>3. ASSUME NEW b \in Asks, AskNothing(b) PROVE ask'[a].got = ask[a].got
            BY <2>1, <3>3 DEF AskNothing, AskpassTypeOK, Command
        <3>4. ASSUME NEW b \in Asks, AskConnects(b) PROVE ask'[a].got = ask[a].got
            BY <2>1, <3>4, ConnectFields
        <3>5. ASSUME NEW g \in Generations, ServeAccept(g) PROVE ask'[a].got = ask[a].got
            BY <2>1, <3>5, AcceptFields, DrainedFields
        <3>6. ~(UNCHANGED ask)
            OBVIOUS
        <3> QED
            BY <3>1, <3>2, <3>3, <3>4, <3>5, <3>6
               DEF AskpassNext, askpassVars, InstallSession, ClearSessions
    <2> DEFINE b == listener[g].queue[1]
    <2>3. /\ b \in Asks /\ ask[b].at = "connected" /\ \A c \in Asks : c # b => ask'[c] = ask[c]
          /\ ask'[b].got = IF Answers(g, b) THEN g ELSE None
        BY <2>1, <2>2, AnswerFields
    <2>4. a = b /\ ask[b].got = None
        BY <2>1, <2>3 DEF QueuedAreWaiting
    <2>5. Answers(g, a) /\ ask'[a].got = g
        BY <2>3, <2>4
    <2>6. PICK h \in AskHosts : ActiveFor(h) /\ sessions[h].generation = g
        BY <2>5 DEF Answers, Alive
    <2>7. ask[a].env # None /\ ask[a].env.generation = g
        BY <2>1, <2>3, <2>4, <2>5 DEF Answers, EnvIsOfItsHost
    <2> QED
        BY <2>1, <2>5, <2>6, <2>7 DEF EnvIsOfItsHost
<1>2. AskpassInvariant /\ [AskpassNext]_askpassVars =>
          [\A a \in Asks : ask[a].got # ask'[a].got =>
               /\ ActiveFor(ask[a].host)
               /\ sessions[ask[a].host].generation = ask'[a].got]_askpassVars
    BY <1>1
<1> QED
    BY <1>2, AskpassIsInvariant, PTL DEF AskpassSpec, PasswordStaysWithItsHost

-----------------------------------------------------------------------------
(* The helper's binary                                                     *)

Whole(i) == [digest |-> ships[i], x |-> TRUE]
OneBuild(i) == \A j \in Installers : ships[j] \in {ships[i], None}

(* The script of an installer starts after its probe, for a build it has. *)
ScriptsFollowPlans == \A i \in Installers :
    /\ stage[i] \in {"idle", "probe", "digest", "plan"} => script[i] = "none"
    /\ stage[i] \in {"sending", "waiting", "verify", "execute"} => script[i] # "none"
    /\ script[i] # "none" => ships[i] # None
    /\ mode[i] # None => stage[i] = "done"

(* What the script has checked of its temporary file stays true of it. *)
CheckedIsWhole == \A i \in Installers :
    /\ script[i] \in {"cat", "hash", "chmod", "mv"} => tmp[i] \in Binary
    /\ script[i] \in {"chmod", "mv"} => tmp[i].digest = ships[i]
    /\ script[i] = "mv" => tmp[i].x = TRUE

(* A digest that was seen stays in place while all carry the same build. *)
SeenStaysInPlace == \A i \in Installers :
    /\ stage[i] \in {"plan", "execute"} \/ mode[i] = "native"
    /\ mode[i] = "native" \/ saw[i].digest = ships[i]
    /\ ships[i] # None \/ mode[i] = "native"
    /\ OneBuild(i)
    => file # None /\ file.digest = ships[i] /\ ships[i] # None

(* A run of the binary shows that its directory may be executed from. *)
UploadedRuns == \A i \in Installers :
    mode[i] = "native" /\ script[i] # "none" => ~host.noexec

InstallInvariant ==
    /\ InstallTypeOK
    /\ ScriptsFollowPlans
    /\ CheckedIsWhole
    /\ SeenStaysInPlace
    /\ UploadedRuns

-----------------------------------------------------------------------------
(* To begin with no script runs, and nobody has seen anything. *)
LEMMA InstallStarts == InstallInit => InstallInvariant
<1> SUFFICES ASSUME InstallInit PROVE InstallInvariant
    OBVIOUS
<1> USE InstallAssumption DEF InstallInit
<1>1. InstallTypeOK
    <2>1. file \in Binary \cup {None}
        <3>1. [digest |-> "torn", x |-> TRUE] \in Binary
            BY DEF Binary, Contents
        <3> QED
            BY <3>1
    <2>2. saw \in [Installers -> [present : BOOLEAN, digest : Contents \cup {None}]]
        BY DEF Unseen
    <2> QED
        BY <2>1, <2>2 DEF InstallTypeOK
<1>2. ScriptsFollowPlans /\ CheckedIsWhole /\ UploadedRuns
    BY DEF ScriptsFollowPlans, CheckedIsWhole, UploadedRuns
<1>3. SeenStaysInPlace
    BY DEF SeenStaysInPlace
<1> QED
    BY <1>1, <1>2, <1>3 DEF InstallInvariant

(* The plan reuses what has the digest, uploads what there is a build for, *)
(* and concludes with a reason otherwise.                                  *)
LEMMA FollowFields ==
    ASSUME NEW i \in Installers, NEW babble \in BOOLEAN, Follow(i, Plan(i, babble))
    PROVE  \/ /\ Concludes(i, "native") /\ UNCHANGED remoteVars
              /\ saw[i].digest = ships[i] /\ ships[i] # None /\ ~babble
           \/ /\ stage' = [stage EXCEPT ![i] = "sending"] /\ ships[i] # None
              /\ script' = [script EXCEPT ![i] = "mkdir"]
              /\ UNCHANGED <<saw, mode, file, tmp, sent, code>>
           \/ \E reason \in Reasons : Concludes(i, reason) /\ UNCHANGED remoteVars
<1>1. \/ Plan(i, babble) = "reuse" /\ saw[i].digest = ships[i] /\ ships[i] # None /\ ~babble
      \/ Plan(i, babble) = "upload" /\ ships[i] # None
      \/ Plan(i, babble) \in Reasons
    BY DEF Plan, Reasons
<1>2. CASE Plan(i, babble) = "reuse" /\ saw[i].digest = ships[i] /\ ships[i] # None /\ ~babble
    BY <1>2 DEF Follow
<1>3. CASE Plan(i, babble) = "upload" /\ ships[i] # None
    BY <1>3 DEF Follow
<1>4. CASE Plan(i, babble) \in Reasons
    BY <1>4 DEF Follow, Reasons
<1> QED
    BY <1>1, <1>2, <1>3, <1>4

-----------------------------------------------------------------------------
(* Every step keeps the types. *)
LEMMA InstallKeepsTypes ==
    InstallInvariant /\ [InstallNext]_installVars => InstallTypeOK'
<1> SUFFICES ASSUME InstallInvariant, [InstallNext]_installVars PROVE InstallTypeOK'
    OBVIOUS
<1> USE InstallAssumption DEF InstallTypeOK, Binary, Contents, Reasons, Unseen
<1>1. InstallTypeOK /\ ScriptsFollowPlans /\ CheckedIsWhole
    BY DEF InstallInvariant
<1>2. CASE UNCHANGED installVars
    BY <1>1, <1>2 DEF installVars, remoteVars, localVars
<1>3. ASSUME NEW i \in Installers, EnsureHelper(i) PROVE InstallTypeOK'
    <2>1. CASE Concludes(i, "windows_remote")
        BY <1>1, <1>3, <2>1 DEF EnsureHelper, Concludes, remoteVars
    <2>2. CASE stage' = [stage EXCEPT ![i] = "probe"] /\ UNCHANGED <<saw, mode>>
        BY <1>1, <1>3, <2>2 DEF EnsureHelper, remoteVars
    <2> QED
        BY <1>3, <2>1, <2>2 DEF EnsureHelper
<1>4. ASSUME NEW i \in Installers, ProbePresence(i) PROVE InstallTypeOK'
    <2>1. [saw[i] EXCEPT !.present = file # None] \in
              [present : BOOLEAN, digest : Contents \cup {None}]
        <3>1. saw[i] \in [present : BOOLEAN, digest : Contents \cup {None}]
            BY <1>1, <1>4
        <3>2. \A p \in BOOLEAN : [saw[i] EXCEPT !.present = p] \in
                  [present : BOOLEAN, digest : Contents \cup {None}]
            BY <3>1
        <3> QED
            BY <3>2
    <2>2. saw' = [saw EXCEPT ![i] = [saw[i] EXCEPT !.present = file # None]]
        BY <1>4 DEF ProbePresence
    <2> HIDE DEF Contents
    <2> QED
        BY <1>1, <1>4, <2>1, <2>2 DEF ProbePresence, remoteVars
<1>5. ASSUME NEW i \in Installers, ProbeDigest(i) PROVE InstallTypeOK'
    BY <1>1, <1>5 DEF ProbeDigest, Digest, remoteVars, localVars
<1>6. ASSUME NEW i \in Installers, ProbeFails(i) PROVE InstallTypeOK'
    BY <1>1, <1>6 DEF ProbeFails, Concludes, remoteVars, localVars
<1>7. ASSUME NEW i \in Installers, ProbeBabbles(i) PROVE InstallTypeOK'
    <2>1. \/ /\ Concludes(i, "native") /\ UNCHANGED remoteVars
             /\ saw[i].digest = ships[i] /\ ships[i] # None /\ ~TRUE
          \/ /\ stage' = [stage EXCEPT ![i] = "sending"] /\ ships[i] # None
             /\ script' = [script EXCEPT ![i] = "mkdir"]
             /\ UNCHANGED <<saw, mode, file, tmp, sent, code>>
          \/ \E reason \in Reasons : Concludes(i, reason) /\ UNCHANGED remoteVars
        BY <1>7, FollowFields DEF ProbeBabbles
    <2>2. CASE Concludes(i, "native") /\ UNCHANGED remoteVars /\ saw[i].digest = ships[i]
               /\ ships[i] # None /\ ~TRUE
        BY <1>1, <1>7, <2>2 DEF ProbeBabbles, Concludes, remoteVars, localVars
    <2>3. CASE /\ stage' = [stage EXCEPT ![i] = "sending"] /\ ships[i] # None
               /\ script' = [script EXCEPT ![i] = "mkdir"]
               /\ UNCHANGED <<saw, mode, file, tmp, sent, code>>
        BY <1>1, <1>7, <2>3 DEF ProbeBabbles, remoteVars, localVars
    <2>4. ASSUME NEW reason \in Reasons, Concludes(i, reason), UNCHANGED remoteVars
          PROVE  InstallTypeOK'
        BY <1>1, <1>7, <2>4 DEF ProbeBabbles, Concludes, Reasons, remoteVars, localVars
    <2> QED
        BY <2>1, <2>2, <2>3, <2>4
<1>8. ASSUME NEW i \in Installers, InstallPlan(i) PROVE InstallTypeOK'
    <2>1. \/ /\ Concludes(i, "native") /\ UNCHANGED remoteVars
             /\ saw[i].digest = ships[i] /\ ships[i] # None /\ ~FALSE
          \/ /\ stage' = [stage EXCEPT ![i] = "sending"] /\ ships[i] # None
             /\ script' = [script EXCEPT ![i] = "mkdir"]
             /\ UNCHANGED <<saw, mode, file, tmp, sent, code>>
          \/ \E reason \in Reasons : Concludes(i, reason) /\ UNCHANGED remoteVars
        BY <1>8, FollowFields DEF InstallPlan
    <2>2. CASE Concludes(i, "native") /\ UNCHANGED remoteVars /\ saw[i].digest = ships[i]
               /\ ships[i] # None /\ ~FALSE
        BY <1>1, <1>8, <2>2 DEF InstallPlan, Concludes, remoteVars, localVars
    <2>3. CASE /\ stage' = [stage EXCEPT ![i] = "sending"] /\ ships[i] # None
               /\ script' = [script EXCEPT ![i] = "mkdir"]
               /\ UNCHANGED <<saw, mode, file, tmp, sent, code>>
        BY <1>1, <1>8, <2>3 DEF InstallPlan, remoteVars, localVars
    <2>4. ASSUME NEW reason \in Reasons, Concludes(i, reason), UNCHANGED remoteVars
          PROVE  InstallTypeOK'
        BY <1>1, <1>8, <2>4 DEF InstallPlan, Concludes, Reasons, remoteVars, localVars
    <2> QED
        BY <2>1, <2>2, <2>3, <2>4
<1>9. ASSUME NEW i \in Installers, UploadSent(i) PROVE InstallTypeOK'
    BY <1>1, <1>9 DEF UploadSent, remoteVars, localVars
<1>10. ASSUME NEW i \in Installers, UploadReturns(i) PROVE InstallTypeOK'
    <2>1. CASE stage' = [stage EXCEPT ![i] = "verify"] /\ UNCHANGED <<saw, mode>>
        BY <1>1, <1>10, <2>1 DEF UploadReturns, remoteVars
    <2>2. CASE Concludes(i, "upload_failed")
        BY <1>1, <1>10, <2>2 DEF UploadReturns, Concludes, remoteVars
    <2> QED
        BY <1>10, <2>1, <2>2 DEF UploadReturns
<1>11. ASSUME NEW i \in Installers, UploadTimesOut(i) PROVE InstallTypeOK'
    BY <1>1, <1>11 DEF UploadTimesOut, UploadGivesUp, Concludes, remoteVars, localVars
<1>12. ASSUME NEW i \in Installers, UploadDrops(i) PROVE InstallTypeOK'
    BY <1>1, <1>12 DEF UploadDrops, UploadGivesUp, Concludes, remoteVars, localVars
<1>13. ASSUME NEW i \in Installers, VerifyDigest(i) PROVE InstallTypeOK'
    BY <1>1, <1>13 DEF VerifyDigest, Digest, remoteVars, localVars
<1>14. ASSUME NEW i \in Installers, VerifyExecutes(i) PROVE InstallTypeOK'
    BY <1>1, <1>14 DEF VerifyExecutes, Concludes, remoteVars, localVars
<1>15. ASSUME NEW i \in Installers, VerifyFails(i) PROVE InstallTypeOK'
    BY <1>1, <1>15 DEF VerifyFails, Concludes, remoteVars, localVars
<1>16. ASSUME NEW i \in Installers, ScriptMkdir(i) PROVE InstallTypeOK'
    <2>1. CASE Discards(i, 3)
        BY <1>1, <1>16, <2>1 DEF Discards, ScriptExits, localVars, ScriptMkdir
    <2>2. CASE /\ ScriptGoes(i, "cat")
               /\ tmp' = [tmp EXCEPT ![i] = [digest |-> "torn", x |-> FALSE]]
               /\ UNCHANGED <<host, ships, file, sent, localVars>>
        BY <1>1, <1>16, <2>2 DEF ScriptGoes, ScriptExits, localVars, ScriptMkdir
    <2> QED
        BY <1>16, <2>1, <2>2 DEF ScriptMkdir
<1>17. ASSUME NEW i \in Installers, ScriptCat(i) PROVE InstallTypeOK'
    <2>0. [tmp[i] EXCEPT !.digest = IF sent[i] = "all" THEN ships[i] ELSE "torn"] \in Binary
        <3>1. tmp[i] \in Binary /\ ships[i] \in Builds
            BY <1>1, <1>17 DEF ScriptCat, CheckedIsWhole, ScriptsFollowPlans
        <3> QED
            BY <3>1
    <2>1. CASE Discards(i, 4)
        BY <1>1, <1>17, <2>1 DEF Discards, ScriptExits, localVars, ScriptCat
    <2>2. CASE /\ ScriptGoes(i, "hash") /\ UNCHANGED <<host, ships, file, sent, localVars>>
               /\ tmp' = [tmp EXCEPT ![i] = [tmp[i] EXCEPT
                            !.digest = IF sent[i] = "all" THEN ships[i] ELSE "torn"]]
        BY <1>1, <1>17, <2>2, <2>0 DEF ScriptGoes, ScriptExits, localVars, ScriptCat
    <2> QED
        BY <1>17, <2>1, <2>2 DEF ScriptCat
<1>18. ASSUME NEW i \in Installers, ScriptHash(i) PROVE InstallTypeOK'
    <2>1. ASSUME NEW ended \in {7, 8}, Discards(i, ended) PROVE InstallTypeOK'
        BY <1>1, <1>18, <2>1 DEF Discards, ScriptExits, localVars
    <2>2. CASE /\ tmp[i].digest = ships[i] /\ ScriptGoes(i, "chmod")
               /\ UNCHANGED <<host, ships, file, tmp, sent, localVars>>
        BY <1>1, <1>18, <2>2 DEF ScriptGoes, localVars
    <2> QED
        BY <1>18, <2>1, <2>2 DEF ScriptHash
<1>19. ASSUME NEW i \in Installers, ScriptChmod(i) PROVE InstallTypeOK'
    <2>0. /\ [tmp[i] EXCEPT !.x = TRUE] \in Binary
          /\ [tmp[i] EXCEPT !.x = TRUE].digest = ships[i]
          /\ [tmp[i] EXCEPT !.x = TRUE].x = TRUE
        <3>1. tmp[i] \in Binary /\ tmp[i].digest = ships[i]
            BY <1>1, <1>19 DEF ScriptChmod, CheckedIsWhole
        <3> QED
            BY <3>1
    <2>1. CASE Discards(i, 5)
        BY <1>1, <1>19, <2>1 DEF Discards, ScriptExits, localVars, ScriptChmod
    <2>2. CASE /\ ScriptGoes(i, "mv") /\ UNCHANGED <<host, ships, file, sent, localVars>>
               /\ tmp' = [tmp EXCEPT ![i] = [tmp[i] EXCEPT !.x = TRUE]]
        BY <1>1, <1>19, <2>2, <2>0 DEF ScriptGoes, ScriptExits, localVars, ScriptChmod
    <2> QED
        BY <1>19, <2>1, <2>2 DEF ScriptChmod
<1>20. ASSUME NEW i \in Installers, ScriptMv(i) PROVE InstallTypeOK'
    <2>1. CASE Discards(i, 6)
        BY <1>1, <1>20, <2>1 DEF Discards, ScriptExits, localVars, ScriptMv
    <2>2. CASE /\ ScriptExits(i, 0) /\ file' = tmp[i] /\ tmp' = [tmp EXCEPT ![i] = None]
               /\ UNCHANGED <<host, ships, sent, localVars>>
        BY <1>1, <1>20, <2>2 DEF ScriptGoes, ScriptExits, localVars, ScriptMv
    <2> QED
        BY <1>20, <2>1, <2>2 DEF ScriptMv
<1>21. ASSUME NEW i \in Installers, ScriptKilled(i) PROVE InstallTypeOK'
    BY <1>1, <1>21 DEF ScriptKilled, ScriptExits, remoteVars, localVars
<1> QED
    BY <1>2, <1>3, <1>4, <1>5, <1>6, <1>7, <1>8, <1>9, <1>10, <1>11, <1>12, <1>13, <1>14,
       <1>15, <1>16, <1>17, <1>18, <1>19, <1>20, <1>21
       DEF InstallNext, OpenNext, ScriptNext

(* Every step keeps the order of probe, plan, script and answer. *)
LEMMA InstallKeepsTheOrder ==
    InstallInvariant /\ [InstallNext]_installVars => ScriptsFollowPlans' /\ UploadedRuns'
<1> SUFFICES ASSUME InstallInvariant, [InstallNext]_installVars PROVE ScriptsFollowPlans' /\
   UploadedRuns'
    OBVIOUS
<1> USE InstallAssumption DEF InstallTypeOK, ScriptsFollowPlans, UploadedRuns
<1>1. InstallTypeOK /\ ScriptsFollowPlans /\ UploadedRuns
    BY DEF InstallInvariant
<1>2. CASE UNCHANGED installVars
    BY <1>1, <1>2 DEF installVars, remoteVars, localVars
<1>3. ASSUME NEW i \in Installers, EnsureHelper(i) PROVE ScriptsFollowPlans' /\ UploadedRuns'
    BY <1>1, <1>3 DEF EnsureHelper, Concludes, remoteVars, localVars
<1>4. ASSUME NEW i \in Installers, ProbePresence(i) PROVE ScriptsFollowPlans' /\ UploadedRuns'
    BY <1>1, <1>4 DEF ProbePresence, remoteVars, localVars
<1>5. ASSUME NEW i \in Installers, ProbeDigest(i) PROVE ScriptsFollowPlans' /\ UploadedRuns'
    BY <1>1, <1>5 DEF ProbeDigest, Digest, remoteVars, localVars
<1>6. ASSUME NEW i \in Installers, ProbeFails(i) PROVE ScriptsFollowPlans' /\ UploadedRuns'
    BY <1>1, <1>6 DEF ProbeFails, Concludes, remoteVars, localVars
<1>7. ASSUME NEW i \in Installers, ProbeBabbles(i) PROVE ScriptsFollowPlans' /\ UploadedRuns'
    <2>1. \/ /\ Concludes(i, "native") /\ UNCHANGED remoteVars
             /\ saw[i].digest = ships[i] /\ ships[i] # None /\ ~TRUE
          \/ /\ stage' = [stage EXCEPT ![i] = "sending"] /\ ships[i] # None
             /\ script' = [script EXCEPT ![i] = "mkdir"]
             /\ UNCHANGED <<saw, mode, file, tmp, sent, code>>
          \/ \E reason \in Reasons : Concludes(i, reason) /\ UNCHANGED remoteVars
        BY <1>7, FollowFields DEF ProbeBabbles
    <2>2. CASE Concludes(i, "native") /\ UNCHANGED remoteVars /\ saw[i].digest = ships[i]
               /\ ships[i] # None /\ ~TRUE
        BY <1>1, <1>7, <2>2 DEF ProbeBabbles, Concludes, remoteVars, localVars
    <2>3. CASE /\ stage' = [stage EXCEPT ![i] = "sending"] /\ ships[i] # None
               /\ script' = [script EXCEPT ![i] = "mkdir"]
               /\ UNCHANGED <<saw, mode, file, tmp, sent, code>>
        BY <1>1, <1>7, <2>3 DEF ProbeBabbles, remoteVars, localVars
    <2>4. ASSUME NEW reason \in Reasons, Concludes(i, reason), UNCHANGED remoteVars
          PROVE  ScriptsFollowPlans' /\ UploadedRuns'
        BY <1>1, <1>7, <2>4 DEF ProbeBabbles, Concludes, Reasons, remoteVars, localVars
    <2> QED
        BY <2>1, <2>2, <2>3, <2>4
<1>8. ASSUME NEW i \in Installers, InstallPlan(i) PROVE ScriptsFollowPlans' /\ UploadedRuns'
    <2>1. \/ /\ Concludes(i, "native") /\ UNCHANGED remoteVars
             /\ saw[i].digest = ships[i] /\ ships[i] # None /\ ~FALSE
          \/ /\ stage' = [stage EXCEPT ![i] = "sending"] /\ ships[i] # None
             /\ script' = [script EXCEPT ![i] = "mkdir"]
             /\ UNCHANGED <<saw, mode, file, tmp, sent, code>>
          \/ \E reason \in Reasons : Concludes(i, reason) /\ UNCHANGED remoteVars
        BY <1>8, FollowFields DEF InstallPlan
    <2>2. CASE Concludes(i, "native") /\ UNCHANGED remoteVars /\ saw[i].digest = ships[i]
               /\ ships[i] # None /\ ~FALSE
        BY <1>1, <1>8, <2>2 DEF InstallPlan, Concludes, remoteVars, localVars
    <2>3. CASE /\ stage' = [stage EXCEPT ![i] = "sending"] /\ ships[i] # None
               /\ script' = [script EXCEPT ![i] = "mkdir"]
               /\ UNCHANGED <<saw, mode, file, tmp, sent, code>>
        BY <1>1, <1>8, <2>3 DEF InstallPlan, remoteVars, localVars
    <2>4. ASSUME NEW reason \in Reasons, Concludes(i, reason), UNCHANGED remoteVars
          PROVE  ScriptsFollowPlans' /\ UploadedRuns'
        BY <1>1, <1>8, <2>4 DEF InstallPlan, Concludes, Reasons, remoteVars, localVars
    <2> QED
        BY <2>1, <2>2, <2>3, <2>4
<1>9. ASSUME NEW i \in Installers, UploadSent(i) PROVE ScriptsFollowPlans' /\ UploadedRuns'
    BY <1>1, <1>9 DEF UploadSent, remoteVars, localVars
<1>10. ASSUME NEW i \in Installers, UploadReturns(i) PROVE ScriptsFollowPlans' /\ UploadedRuns'
    BY <1>1, <1>10 DEF UploadReturns, Concludes, remoteVars, localVars
<1>11. ASSUME NEW i \in Installers, UploadTimesOut(i) PROVE ScriptsFollowPlans' /\ UploadedRuns'
    BY <1>1, <1>11 DEF UploadTimesOut, UploadGivesUp, Concludes, remoteVars, localVars
<1>12. ASSUME NEW i \in Installers, UploadDrops(i) PROVE ScriptsFollowPlans' /\ UploadedRuns'
    BY <1>1, <1>12 DEF UploadDrops, UploadGivesUp, Concludes, remoteVars, localVars
<1>13. ASSUME NEW i \in Installers, VerifyDigest(i) PROVE ScriptsFollowPlans' /\ UploadedRuns'
    BY <1>1, <1>13 DEF VerifyDigest, Digest, remoteVars, localVars
<1>14. ASSUME NEW i \in Installers, VerifyExecutes(i) PROVE ScriptsFollowPlans' /\ UploadedRuns'
    BY <1>1, <1>14 DEF VerifyExecutes, Concludes, remoteVars, localVars
<1>15. ASSUME NEW i \in Installers, VerifyFails(i) PROVE ScriptsFollowPlans' /\ UploadedRuns'
    BY <1>1, <1>15 DEF VerifyFails, Concludes, remoteVars, localVars
<1>16. ASSUME NEW i \in Installers, ScriptMkdir(i) PROVE ScriptsFollowPlans' /\ UploadedRuns'
    BY <1>1, <1>16 DEF ScriptMkdir, ScriptGoes, Discards, ScriptExits, remoteVars, localVars
<1>17. ASSUME NEW i \in Installers, ScriptCat(i) PROVE ScriptsFollowPlans' /\ UploadedRuns'
    BY <1>1, <1>17 DEF ScriptCat, ScriptGoes, Discards, ScriptExits, remoteVars, localVars
<1>18. ASSUME NEW i \in Installers, ScriptHash(i) PROVE ScriptsFollowPlans' /\ UploadedRuns'
    BY <1>1, <1>18 DEF ScriptHash, ScriptGoes, Discards, ScriptExits, remoteVars, localVars
<1>19. ASSUME NEW i \in Installers, ScriptChmod(i) PROVE ScriptsFollowPlans' /\ UploadedRuns'
    BY <1>1, <1>19 DEF ScriptChmod, ScriptGoes, Discards, ScriptExits, remoteVars, localVars
<1>20. ASSUME NEW i \in Installers, ScriptMv(i) PROVE ScriptsFollowPlans' /\ UploadedRuns'
    BY <1>1, <1>20 DEF ScriptMv, Discards, ScriptExits, remoteVars, localVars
<1>21. ASSUME NEW i \in Installers, ScriptKilled(i) PROVE ScriptsFollowPlans' /\ UploadedRuns'
    BY <1>1, <1>21 DEF ScriptKilled, ScriptExits, remoteVars, localVars
<1> QED
    BY <1>2, <1>3, <1>4, <1>5, <1>6, <1>7, <1>8, <1>9, <1>10, <1>11, <1>12, <1>13, <1>14,
       <1>15, <1>16, <1>17, <1>18, <1>19, <1>20, <1>21
       DEF InstallNext, OpenNext, ScriptNext

(* Every step keeps what a script has checked of its own file. *)
LEMMA InstallKeepsChecked ==
    InstallInvariant /\ [InstallNext]_installVars => CheckedIsWhole'
<1> SUFFICES ASSUME InstallInvariant, [InstallNext]_installVars PROVE CheckedIsWhole'
    OBVIOUS
<1> USE InstallAssumption DEF InstallTypeOK, ScriptsFollowPlans, CheckedIsWhole, Binary,
   Contents
<1>1. InstallTypeOK /\ ScriptsFollowPlans /\ CheckedIsWhole
    BY DEF InstallInvariant
<1>2. CASE UNCHANGED installVars
    BY <1>1, <1>2 DEF installVars, remoteVars, localVars
<1>3. ASSUME NEW i \in Installers, EnsureHelper(i) PROVE CheckedIsWhole'
    BY <1>1, <1>3 DEF EnsureHelper, Concludes, remoteVars, localVars
<1>4. ASSUME NEW i \in Installers, ProbePresence(i) PROVE CheckedIsWhole'
    BY <1>1, <1>4 DEF ProbePresence, remoteVars, localVars
<1>5. ASSUME NEW i \in Installers, ProbeDigest(i) PROVE CheckedIsWhole'
    BY <1>1, <1>5 DEF ProbeDigest, Digest, remoteVars, localVars
<1>6. ASSUME NEW i \in Installers, ProbeFails(i) PROVE CheckedIsWhole'
    BY <1>1, <1>6 DEF ProbeFails, Concludes, remoteVars, localVars
<1>7. ASSUME NEW i \in Installers, ProbeBabbles(i) PROVE CheckedIsWhole'
    BY <1>1, <1>7 DEF ProbeBabbles, Follow, Plan, Concludes, remoteVars, localVars
<1>8. ASSUME NEW i \in Installers, InstallPlan(i) PROVE CheckedIsWhole'
    BY <1>1, <1>8 DEF InstallPlan, Follow, Plan, Concludes, remoteVars, localVars
<1>9. ASSUME NEW i \in Installers, UploadSent(i) PROVE CheckedIsWhole'
    BY <1>1, <1>9 DEF UploadSent, remoteVars, localVars
<1>10. ASSUME NEW i \in Installers, UploadReturns(i) PROVE CheckedIsWhole'
    BY <1>1, <1>10 DEF UploadReturns, Concludes, remoteVars, localVars
<1>11. ASSUME NEW i \in Installers, UploadTimesOut(i) PROVE CheckedIsWhole'
    BY <1>1, <1>11 DEF UploadTimesOut, UploadGivesUp, Concludes, remoteVars, localVars
<1>12. ASSUME NEW i \in Installers, UploadDrops(i) PROVE CheckedIsWhole'
    BY <1>1, <1>12 DEF UploadDrops, UploadGivesUp, Concludes, remoteVars, localVars
<1>13. ASSUME NEW i \in Installers, VerifyDigest(i) PROVE CheckedIsWhole'
    BY <1>1, <1>13 DEF VerifyDigest, Digest, remoteVars, localVars
<1>14. ASSUME NEW i \in Installers, VerifyExecutes(i) PROVE CheckedIsWhole'
    BY <1>1, <1>14 DEF VerifyExecutes, Concludes, remoteVars, localVars
<1>15. ASSUME NEW i \in Installers, VerifyFails(i) PROVE CheckedIsWhole'
    BY <1>1, <1>15 DEF VerifyFails, Concludes, remoteVars, localVars
<1>16. ASSUME NEW i \in Installers, ScriptMkdir(i) PROVE CheckedIsWhole'
    <2>1. CASE Discards(i, 3)
        BY <1>1, <1>16, <2>1 DEF Discards, ScriptExits, localVars, ScriptMkdir
    <2>2. CASE /\ ScriptGoes(i, "cat")
               /\ tmp' = [tmp EXCEPT ![i] = [digest |-> "torn", x |-> FALSE]]
               /\ UNCHANGED <<host, ships, file, sent, localVars>>
        BY <1>1, <1>16, <2>2 DEF ScriptGoes, ScriptExits, localVars, ScriptMkdir
    <2> QED
        BY <1>16, <2>1, <2>2 DEF ScriptMkdir
<1>17. ASSUME NEW i \in Installers, ScriptCat(i) PROVE CheckedIsWhole'
    <2>0. [tmp[i] EXCEPT !.digest = IF sent[i] = "all" THEN ships[i] ELSE "torn"] \in Binary
        <3>1. tmp[i] \in Binary /\ ships[i] \in Builds
            BY <1>1, <1>17 DEF ScriptCat, CheckedIsWhole, ScriptsFollowPlans
        <3> QED
            BY <3>1
    <2>1. CASE Discards(i, 4)
        BY <1>1, <1>17, <2>1 DEF Discards, ScriptExits, localVars, ScriptCat
    <2>2. CASE /\ ScriptGoes(i, "hash") /\ UNCHANGED <<host, ships, file, sent, localVars>>
               /\ tmp' = [tmp EXCEPT ![i] = [tmp[i] EXCEPT
                            !.digest = IF sent[i] = "all" THEN ships[i] ELSE "torn"]]
        BY <1>1, <1>17, <2>2, <2>0 DEF ScriptGoes, ScriptExits, localVars, ScriptCat
    <2> QED
        BY <1>17, <2>1, <2>2 DEF ScriptCat
<1>18. ASSUME NEW i \in Installers, ScriptHash(i) PROVE CheckedIsWhole'
    BY <1>1, <1>18 DEF ScriptHash, ScriptGoes, Discards, ScriptExits, remoteVars, localVars
<1>19. ASSUME NEW i \in Installers, ScriptChmod(i) PROVE CheckedIsWhole'
    <2>0. /\ [tmp[i] EXCEPT !.x = TRUE] \in Binary
          /\ [tmp[i] EXCEPT !.x = TRUE].digest = ships[i]
          /\ [tmp[i] EXCEPT !.x = TRUE].x = TRUE
        <3>1. tmp[i] \in Binary /\ tmp[i].digest = ships[i]
            BY <1>1, <1>19 DEF ScriptChmod, CheckedIsWhole
        <3> QED
            BY <3>1
    <2>1. CASE Discards(i, 5)
        BY <1>1, <1>19, <2>1 DEF Discards, ScriptExits, localVars, ScriptChmod
    <2>2. CASE /\ ScriptGoes(i, "mv") /\ UNCHANGED <<host, ships, file, sent, localVars>>
               /\ tmp' = [tmp EXCEPT ![i] = [tmp[i] EXCEPT !.x = TRUE]]
        BY <1>1, <1>19, <2>2, <2>0 DEF ScriptGoes, ScriptExits, localVars, ScriptChmod
    <2> QED
        BY <1>19, <2>1, <2>2 DEF ScriptChmod
<1>20. ASSUME NEW i \in Installers, ScriptMv(i) PROVE CheckedIsWhole'
    <2>1. CASE Discards(i, 6)
        BY <1>1, <1>20, <2>1 DEF Discards, ScriptExits, localVars, ScriptMv
    <2>2. CASE /\ ScriptExits(i, 0) /\ file' = tmp[i] /\ tmp' = [tmp EXCEPT ![i] = None]
               /\ UNCHANGED <<host, ships, sent, localVars>>
        BY <1>1, <1>20, <2>2 DEF ScriptGoes, ScriptExits, localVars, ScriptMv
    <2> QED
        BY <1>20, <2>1, <2>2 DEF ScriptMv
<1>21. ASSUME NEW i \in Installers, ScriptKilled(i) PROVE CheckedIsWhole'
    BY <1>1, <1>21 DEF ScriptKilled, ScriptExits, remoteVars, localVars
<1> QED
    BY <1>2, <1>3, <1>4, <1>5, <1>6, <1>7, <1>8, <1>9, <1>10, <1>11, <1>12, <1>13, <1>14,
       <1>15, <1>16, <1>17, <1>18, <1>19, <1>20, <1>21
       DEF InstallNext, OpenNext, ScriptNext

(* Every step keeps what was seen in place: a file is replaced only by a
   build some installer carries, which is the same one. *)
LEMMA InstallKeepsSeen ==
    InstallInvariant /\ [InstallNext]_installVars => SeenStaysInPlace'
<1> SUFFICES ASSUME InstallInvariant, [InstallNext]_installVars PROVE SeenStaysInPlace'
    OBVIOUS
<1> USE InstallAssumption DEF SeenStaysInPlace, OneBuild, InstallTypeOK
<1>1. InstallTypeOK /\ ScriptsFollowPlans /\ CheckedIsWhole /\ SeenStaysInPlace
    BY DEF InstallInvariant
<1>2. CASE UNCHANGED installVars
    BY <1>1, <1>2 DEF installVars, remoteVars, localVars
<1>3. ASSUME NEW i \in Installers, EnsureHelper(i) PROVE SeenStaysInPlace'
    BY <1>1, <1>3 DEF EnsureHelper, Concludes, remoteVars, localVars
<1>4. ASSUME NEW i \in Installers, ProbePresence(i) PROVE SeenStaysInPlace'
    BY <1>1, <1>4 DEF ProbePresence, remoteVars, localVars
<1>5. ASSUME NEW i \in Installers, ProbeDigest(i) PROVE SeenStaysInPlace'
    BY <1>1, <1>5 DEF ProbeDigest, Digest, remoteVars, localVars
<1>6. ASSUME NEW i \in Installers, ProbeFails(i) PROVE SeenStaysInPlace'
    BY <1>1, <1>6 DEF ProbeFails, Concludes, remoteVars, localVars
<1>7. ASSUME NEW i \in Installers, ProbeBabbles(i) PROVE SeenStaysInPlace'
    <2>1. \/ /\ Concludes(i, "native") /\ UNCHANGED remoteVars
             /\ saw[i].digest = ships[i] /\ ships[i] # None /\ ~TRUE
          \/ /\ stage' = [stage EXCEPT ![i] = "sending"] /\ ships[i] # None
             /\ script' = [script EXCEPT ![i] = "mkdir"]
             /\ UNCHANGED <<saw, mode, file, tmp, sent, code>>
          \/ \E reason \in Reasons : Concludes(i, reason) /\ UNCHANGED remoteVars
        BY <1>7, FollowFields DEF ProbeBabbles
    <2>2. CASE Concludes(i, "native") /\ UNCHANGED remoteVars /\ saw[i].digest = ships[i]
               /\ ships[i] # None /\ ~TRUE
        BY <1>1, <1>7, <2>2 DEF ProbeBabbles, Concludes, remoteVars, localVars
    <2>3. CASE /\ stage' = [stage EXCEPT ![i] = "sending"] /\ ships[i] # None
               /\ script' = [script EXCEPT ![i] = "mkdir"]
               /\ UNCHANGED <<saw, mode, file, tmp, sent, code>>
        BY <1>1, <1>7, <2>3 DEF ProbeBabbles, remoteVars, localVars
    <2>4. ASSUME NEW reason \in Reasons, Concludes(i, reason), UNCHANGED remoteVars
          PROVE  SeenStaysInPlace'
        BY <1>1, <1>7, <2>4 DEF ProbeBabbles, Concludes, Reasons, remoteVars, localVars
    <2> QED
        BY <2>1, <2>2, <2>3, <2>4
<1>8. ASSUME NEW i \in Installers, InstallPlan(i) PROVE SeenStaysInPlace'
    <2>1. \/ /\ Concludes(i, "native") /\ UNCHANGED remoteVars
             /\ saw[i].digest = ships[i] /\ ships[i] # None /\ ~FALSE
          \/ /\ stage' = [stage EXCEPT ![i] = "sending"] /\ ships[i] # None
             /\ script' = [script EXCEPT ![i] = "mkdir"]
             /\ UNCHANGED <<saw, mode, file, tmp, sent, code>>
          \/ \E reason \in Reasons : Concludes(i, reason) /\ UNCHANGED remoteVars
        BY <1>8, FollowFields DEF InstallPlan
    <2>2. CASE Concludes(i, "native") /\ UNCHANGED remoteVars /\ saw[i].digest = ships[i]
               /\ ships[i] # None /\ ~FALSE
        BY <1>1, <1>8, <2>2 DEF InstallPlan, Concludes, remoteVars, localVars
    <2>3. CASE /\ stage' = [stage EXCEPT ![i] = "sending"] /\ ships[i] # None
               /\ script' = [script EXCEPT ![i] = "mkdir"]
               /\ UNCHANGED <<saw, mode, file, tmp, sent, code>>
        BY <1>1, <1>8, <2>3 DEF InstallPlan, remoteVars, localVars
    <2>4. ASSUME NEW reason \in Reasons, Concludes(i, reason), UNCHANGED remoteVars
          PROVE  SeenStaysInPlace'
        BY <1>1, <1>8, <2>4 DEF InstallPlan, Concludes, Reasons, remoteVars, localVars
    <2> QED
        BY <2>1, <2>2, <2>3, <2>4
<1>9. ASSUME NEW i \in Installers, UploadSent(i) PROVE SeenStaysInPlace'
    BY <1>1, <1>9 DEF UploadSent, remoteVars, localVars
<1>10. ASSUME NEW i \in Installers, UploadReturns(i) PROVE SeenStaysInPlace'
    BY <1>1, <1>10 DEF UploadReturns, Concludes, remoteVars, localVars
<1>11. ASSUME NEW i \in Installers, UploadTimesOut(i) PROVE SeenStaysInPlace'
    BY <1>1, <1>11 DEF UploadTimesOut, UploadGivesUp, Concludes, remoteVars, localVars
<1>12. ASSUME NEW i \in Installers, UploadDrops(i) PROVE SeenStaysInPlace'
    BY <1>1, <1>12 DEF UploadDrops, UploadGivesUp, Concludes, remoteVars, localVars
<1>13. ASSUME NEW i \in Installers, VerifyDigest(i) PROVE SeenStaysInPlace'
    BY <1>1, <1>13 DEF VerifyDigest, Digest, remoteVars, localVars
<1>14. ASSUME NEW i \in Installers, VerifyExecutes(i) PROVE SeenStaysInPlace'
    <2>1. CASE Concludes(i, "native") /\ saw[i].digest = ships[i]
        BY <1>1, <1>14, <2>1 DEF VerifyExecutes, Concludes, ScriptsFollowPlans, remoteVars
    <2>2. ASSUME NEW reason \in {"verify_failed", "not_executable"}, Concludes(i, reason)
          PROVE  SeenStaysInPlace'
        BY <1>1, <1>14, <2>2 DEF VerifyExecutes, Concludes, remoteVars
    <2> QED
        BY <1>14, <2>1, <2>2 DEF VerifyExecutes
<1>15. ASSUME NEW i \in Installers, VerifyFails(i) PROVE SeenStaysInPlace'
    BY <1>1, <1>15 DEF VerifyFails, Concludes, remoteVars, localVars
<1>16. ASSUME NEW i \in Installers, ScriptMkdir(i) PROVE SeenStaysInPlace'
    BY <1>1, <1>16 DEF ScriptMkdir, ScriptGoes, Discards, ScriptExits, remoteVars, localVars
<1>17. ASSUME NEW i \in Installers, ScriptCat(i) PROVE SeenStaysInPlace'
    BY <1>1, <1>17 DEF ScriptCat, ScriptGoes, Discards, ScriptExits, remoteVars, localVars
<1>18. ASSUME NEW i \in Installers, ScriptHash(i) PROVE SeenStaysInPlace'
    BY <1>1, <1>18 DEF ScriptHash, ScriptGoes, Discards, ScriptExits, remoteVars, localVars
<1>19. ASSUME NEW i \in Installers, ScriptChmod(i) PROVE SeenStaysInPlace'
    BY <1>1, <1>19 DEF ScriptChmod, ScriptGoes, Discards, ScriptExits, remoteVars, localVars
<1>20. ASSUME NEW i \in Installers, ScriptMv(i) PROVE SeenStaysInPlace'
    <2>1. CASE Discards(i, 6)
        BY <1>1, <1>20, <2>1 DEF Discards, localVars
    <2>2. CASE file' = tmp[i] /\ UNCHANGED <<host, ships, sent, localVars>>
        <3>1. tmp[i] # None /\ tmp[i].digest = ships[i] /\ ships[i] # None
            BY <1>1, <1>20 DEF ScriptMv, CheckedIsWhole, ScriptsFollowPlans, Binary, Contents
        <3> QED
            BY <1>1, <2>2, <3>1 DEF localVars
    <2> QED
        BY <1>20, <2>1, <2>2 DEF ScriptMv
<1>21. ASSUME NEW i \in Installers, ScriptKilled(i) PROVE SeenStaysInPlace'
    BY <1>1, <1>21 DEF ScriptKilled, ScriptExits, remoteVars, localVars
<1> QED
    BY <1>2, <1>3, <1>4, <1>5, <1>6, <1>7, <1>8, <1>9, <1>10, <1>11, <1>12, <1>13, <1>14,
       <1>15, <1>16, <1>17, <1>18, <1>19, <1>20, <1>21
       DEF InstallNext, OpenNext, ScriptNext

-----------------------------------------------------------------------------
(* The inductive invariant: what plans, scripts and the file say of each    *)
(* other.                                                                   *)
THEOREM InstallIsInvariant == InstallSpec => []InstallInvariant
<1>1. InstallInvariant /\ [InstallNext]_installVars => InstallInvariant'
    BY InstallKeepsTypes, InstallKeepsTheOrder, InstallKeepsChecked, InstallKeepsSeen
       DEF InstallInvariant
<1> QED
    BY InstallStarts, <1>1, PTL DEF InstallSpec

(* install_helper answers "native" only with the app's own bytes in place,  *)
(* whichever scripts still run, and only where an upload could be executed. *)
THEOREM NativeIsTrue == InstallSpec => []NativeIsVerified
<1>1. InstallInvariant => NativeIsVerified
    BY DEF InstallInvariant, NativeIsVerified, SeenStaysInPlace, UploadedRuns, OneBuild
<1> QED
    BY <1>1, InstallIsInvariant, PTL

(* upload_script replaces the installed file only by a whole, executable    *)
(* build, wherever a transfer or a script is cut.                           *)
THEOREM UploadsAreWhole == InstallSpec => OnlyWholeBinaries
<1>1. ASSUME InstallInvariant, [InstallNext]_installVars, file' # file
      PROVE  \E i \in Installers : file' = [digest |-> ships[i], x |-> TRUE]
    <2>1. PICK i \in Installers : ScriptMv(i)
        BY <1>1 DEF InstallNext, OpenNext, ScriptNext, installVars, remoteVars, localVars,
            EnsureHelper, ProbePresence, ProbeDigest, ProbeFails, ProbeBabbles, InstallPlan,
            Follow, UploadSent, UploadReturns, UploadTimesOut, UploadDrops, UploadGivesUp,
            VerifyDigest, VerifyExecutes, VerifyFails, ScriptMkdir, ScriptCat, ScriptHash,
            ScriptChmod, ScriptKilled, ScriptGoes, ScriptExits, Discards
    <2>2. file' = tmp[i] /\ script[i] = "mv"
        BY <1>1, <2>1 DEF ScriptMv, Discards
    <2>3. tmp[i] = Whole(i)
        BY <1>1, <2>2 DEF InstallInvariant, CheckedIsWhole, Binary, Whole
    <2> QED
        BY <2>2, <2>3 DEF Whole
<1>2. InstallInvariant /\ [InstallNext]_installVars =>
          [file' # file => \E i \in Installers : file' = [digest |-> ships[i], x |-> TRUE]]_file
    BY <1>1
<1> QED
    BY <1>2, InstallIsInvariant, PTL DEF InstallSpec, OnlyWholeBinaries

-----------------------------------------------------------------------------
(* The agents: what a plan is                                              *)

StepNames == {"curl", "tmux", "nvm", "node", "agent", "verify", "verifyTmux"}

(* The plans are made of sequences of no, one or two steps.                *)
LEMMA ShortSequences ==
    ASSUME NEW S
    PROVE  /\ <<>> \in Seq(S)
           /\ \A x \in S : <<x>> \in Seq(S)
           /\ \A x, y \in S : <<x, y>> \in Seq(S)
<1>1. <<>> \in Seq(S)
    BY EmptySeq
<1>2. ASSUME NEW x \in S
      PROVE  <<x>> \in Seq(S)
    OBVIOUS
<1>3. ASSUME NEW x \in S, NEW y \in S
      PROVE  <<x, y>> \in Seq(S)
    OBVIOUS
<1> QED
    BY <1>1, <1>2, <1>3

StepsInOrder(s, c, t, n) ==
    /\ s \in Seq(StepNames)
    /\ Len(s) \in Nat \ {0}
    /\ s[Len(s)] = "verify"
    /\ \E i \in 1 .. Len(s) : s[i] = "agent"
    /\ t => \E i \in 1 .. Len(s) : s[i] = "tmux"
    /\ \A m \in 1 .. Len(s) :
         /\ s[m] \in {"curl", "tmux", "nvm", "node", "agent", "verify"}
         /\ s[m] = "curl" => c
         /\ s[m] = "tmux" => t
         /\ s[m] \in {"nvm", "node"} => n
         /\ s[m] \in {"nvm", "agent"} /\ c => \E i \in 1 .. (m - 1) : s[i] = "curl"
         /\ s[m] = "node" => \E i \in 1 .. (m - 1) : s[i] = "nvm"
         /\ s[m] = "agent" /\ n => \E i \in 1 .. (m - 1) : s[i] = "node"

(* What the steps of a plan that installs the agent are, and what stands   *)
(* before each of them.                                                    *)
LEMMA StepsOf ==
    ASSUME NEW c \in BOOLEAN, NEW t \in BOOLEAN, NEW n \in BOOLEAN, NEW s,
           s = If(c, <<"curl">>) \o If(t, <<"tmux">>) \o If(n, <<"nvm", "node">>)
                 \o <<"agent", "verify">> \o <<>>
    PROVE  StepsInOrder(s, c, t, n)
<1> USE DEF If
<1>0. s \in Seq(StepNames)
  <2>1. /\ If(c, <<"curl">>) \in Seq(StepNames) /\ If(t, <<"tmux">>) \in Seq(StepNames)
        /\ If(n, <<"nvm", "node">>) \in Seq(StepNames) /\ <<"agent", "verify">> \in Seq(StepNames)
        /\ <<>> \in Seq(StepNames)
    BY ShortSequences DEF StepNames
  <2> QED
    BY <2>1, ConcatProperties
<1>1. CASE c /\ t /\ n
  <2>1. /\ Len(s) = 6 /\ s[1] = "curl" /\ s[2] = "tmux" /\ s[3] = "nvm"
        /\ s[4] = "node" /\ s[5] = "agent" /\ s[6] = "verify"
    BY <1>1
  <2> QED
    BY <1>0, <1>1, <2>1 DEF StepsInOrder
<1>2. CASE c /\ t /\ ~n
  <2>1. /\ Len(s) = 4 /\ s[1] = "curl" /\ s[2] = "tmux" /\ s[3] = "agent" /\ s[4] = "verify"
    BY <1>2
  <2> QED
    BY <1>0, <1>2, <2>1 DEF StepsInOrder
<1>3. CASE c /\ ~t /\ n
  <2>1. /\ Len(s) = 5 /\ s[1] = "curl" /\ s[2] = "nvm"
        /\ s[3] = "node" /\ s[4] = "agent" /\ s[5] = "verify"
    BY <1>3
  <2> QED
    BY <1>0, <1>3, <2>1 DEF StepsInOrder
<1>4. CASE c /\ ~t /\ ~n
  <2>1. Len(s) = 3 /\ s[1] = "curl" /\ s[2] = "agent" /\ s[3] = "verify"
    BY <1>4
  <2> QED
    BY <1>0, <1>4, <2>1 DEF StepsInOrder
<1>5. CASE ~c /\ t /\ n
  <2>1. /\ Len(s) = 5 /\ s[1] = "tmux" /\ s[2] = "nvm"
        /\ s[3] = "node" /\ s[4] = "agent" /\ s[5] = "verify"
    BY <1>5
  <2> QED
    BY <1>0, <1>5, <2>1 DEF StepsInOrder
<1>6. CASE ~c /\ t /\ ~n
  <2>1. Len(s) = 3 /\ s[1] = "tmux" /\ s[2] = "agent" /\ s[3] = "verify"
    BY <1>6
  <2> QED
    BY <1>0, <1>6, <2>1 DEF StepsInOrder
<1>7. CASE ~c /\ ~t /\ n
  <2>1. Len(s) = 4 /\ s[1] = "nvm" /\ s[2] = "node" /\ s[3] = "agent" /\ s[4] = "verify"
    BY <1>7
  <2> QED
    BY <1>0, <1>7, <2>1 DEF StepsInOrder
<1>8. CASE ~c /\ ~t /\ ~n
  <2>1. Len(s) = 2 /\ s[1] = "agent" /\ s[2] = "verify"
    BY <1>8
  <2> QED
    BY <1>0, <1>8, <2>1 DEF StepsInOrder
<1> QED
    BY <1>0, <1>1, <1>2, <1>3, <1>4, <1>5, <1>6, <1>7, <1>8

(* What a POSIX install plan is, by what it finds missing.                 *)
WantCurl(pf) == "agent" \notin pf /\ "curl" \notin pf
WantNode(a, pf) == "agent" \notin pf /\ a = "pi" /\ "node" \notin pf
Installs(pkg, pf) == "agent" \notin pf /\ (WantCurl(pf) => pkg # "none")

(* A POSIX install of an agent that is missing has these steps, unless it  *)
(* is refused.                                                             *)
LEMMA AgentPlanSteps ==
    ASSUME NEW a, NEW pkg, NEW pf, Installs(pkg, pf), NEW j, j = PlanInstallPosix(a, pkg, pf)
    PROVE  /\ j.blocked = "no"
           /\ j.steps = If(WantCurl(pf) /\ pkg # "none", <<"curl">>)
                            \o If("tmux" \notin pf /\ pkg # "none", <<"tmux">>)
                            \o If(WantNode(a, pf), <<"nvm", "node">>)
                            \o <<"agent", "verify">> \o <<>>
<1>1. /\ j.steps = If(WantCurl(pf) /\ pkg # "none", <<"curl">>)
                       \o If("tmux" \notin pf /\ pkg # "none", <<"tmux">>)
                       \o If(WantNode(a, pf), <<"nvm", "node">>)
                       \o <<"agent", "verify">> \o <<>>
      /\ j.blocked = IF j.steps = <<>> THEN "NothingToDo" ELSE "no"
    BY DEF PlanInstallPosix, Installs, WantCurl, WantNode, If
<1>2. j.steps # <<>>
    BY <1>1, StepsOf, EmptySeq DEF StepsInOrder, WantCurl, WantNode
<1> QED
    BY <1>1, <1>2

(* The steps of a plan that installs only tmux.                            *)
LEMMA TmuxPlanSteps ==
    ASSUME NEW s, s = <<"tmux">> \o <<"verifyTmux">>
    PROVE  /\ s \in Seq(StepNames)
           /\ Len(s) = 2 /\ s[1] = "tmux" /\ s[2] = "verifyTmux"
           /\ \A m \in 1 .. Len(s) : s[m] \notin {"agent", "upgrade"}
<1>1. s \in Seq(StepNames)
    BY ShortSequences, ConcatProperties DEF StepNames
<1>2. Len(s) = 2 /\ s[1] = "tmux" /\ s[2] = "verifyTmux"
    OBVIOUS
<1> QED
    BY <1>1, <1>2

(* A POSIX install where the agent is there, or that is refused, runs only *)
(* to add tmux.                                                            *)
LEMMA ToolPlanSteps ==
    ASSUME NEW a, NEW pkg, NEW pf, ~Installs(pkg, pf), NEW j, j = PlanInstallPosix(a, pkg, pf)
    PROVE  /\ j.steps \in Seq(StepNames)
           /\ \A m \in 1 .. Len(j.steps) : j.steps[m] \notin {"agent", "upgrade"}
           /\ CanRun(j) =>
                /\ "agent" \in pf /\ pkg # "none"
                /\ Len(j.steps) = 2 /\ j.steps[1] = "tmux" /\ j.steps[2] = "verifyTmux"
<1> DEFINE tools == If(WantCurl(pf) /\ pkg # "none", <<"curl">>)
                        \o If("tmux" \notin pf /\ pkg # "none", <<"tmux">>)
           last == If("agent" \in pf /\ tools # <<>>, <<"verifyTmux">>)
<1>1. /\ j.steps = tools \o <<>> \o <<>> \o last
      /\ "agent" \notin pf => j.blocked # "no"
      /\ j.steps = <<>> => j.blocked # "no"
    BY DEF PlanInstallPosix, Installs, WantCurl, WantNode, If
<1>2. /\ <<>> \in Seq(StepNames) /\ <<"tmux">> \in Seq(StepNames)
      /\ <<"verifyTmux">> \in Seq(StepNames)
    BY ShortSequences DEF StepNames
<1>3. CASE "agent" \in pf /\ "tmux" \notin pf /\ pkg # "none"
  <2>1. tools = <<>> \o <<"tmux">>
    BY <1>3 DEF If, WantCurl
  <2>2. tools = <<"tmux">>
    BY <1>2, <2>1, ConcatEmptySeq
  <2>3. tools # <<>>
    BY <2>2
  <2>4. last = <<"verifyTmux">>
    BY <1>3, <2>3 DEF If
  <2>5. j.steps = <<"tmux">> \o <<"verifyTmux">>
    BY <1>1, <1>2, <2>2, <2>4, ConcatEmptySeq
  <2>6. /\ j.steps \in Seq(StepNames)
        /\ Len(j.steps) = 2 /\ j.steps[1] = "tmux" /\ j.steps[2] = "verifyTmux"
        /\ \A m \in 1 .. Len(j.steps) : j.steps[m] \notin {"agent", "upgrade"}
    BY <2>5, TmuxPlanSteps
  <2> QED
    BY <1>3, <2>6
<1>4. CASE ~("agent" \in pf /\ "tmux" \notin pf /\ pkg # "none")
  <2>1. tools = <<>> \o <<>>
    BY <1>4 DEF If, WantCurl, Installs
  <2>2. tools = <<>>
    BY <1>2, <2>1, ConcatEmptySeq
  <2>3. last = <<>>
    BY <2>2 DEF If
  <2>4. j.steps = <<>>
    BY <1>1, <1>2, <2>2, <2>3, ConcatEmptySeq
  <2>5. Len(j.steps) = 0 /\ j.steps \in Seq(StepNames) /\ ~CanRun(j)
    BY <1>1, <1>2, <2>4, EmptySeq DEF CanRun
  <2> QED
    BY <2>5
<1> QED
    BY <1>3, <1>4

-----------------------------------------------------------------------------
(* What every plan is: its steps are steps, one that a POSIX host can run  *)
(* works there, and one that changes the agent ends by verifying it.       *)
AllSteps == StepNames \cup {"winget", "upgrade", "uninstall"}
GetsTo(j, pf, n) == pf \cup {j.steps[i] : i \in 1 .. n}
WorkingPlan(j, a, pkg, pf) ==
    /\ "agent" \in GetsTo(j, pf, Len(j.steps))
    /\ pkg = "none" \/ "tmux" \in GetsTo(j, pf, Len(j.steps))
    /\ \A n \in DOMAIN j.steps :
          /\ j.steps[n] \in {"nvm", "agent"} => "curl" \in GetsTo(j, pf, n - 1)
          /\ j.steps[n] = "node" => "nvm" \in GetsTo(j, pf, n - 1)
          /\ (j.steps[n] = "agent" /\ a = "pi") => "node" \in GetsTo(j, pf, n - 1)
          /\ j.steps[n] \in {"curl", "tmux"} => pkg # "none"
VerifiesLast(j) ==
    (\E i \in DOMAIN j.steps : j.steps[i] \in {"agent", "upgrade"})
        => j.steps[Len(j.steps)] = "verify"
GoodPlan(j, a, os, pkg, pf) ==
    /\ j.steps \in Seq(AllSteps)
    /\ j.action \in PlanActions
    /\ j.blocked \in {"no", "NoCurlNoPkg", "TmuxOnlyNoPkg", "NotInstalled", "NothingToDo"}
    /\ os = "posix" =>
         /\ j.action = "Install" /\ CanRun(j) => WorkingPlan(j, a, pkg, pf)
         /\ VerifiesLast(j)

(* What an install plan is made of are steps.                              *)
LEMMA StepNamesAreSteps == Seq(StepNames) \subseteq Seq(AllSteps)
<1> SUFFICES ASSUME NEW s \in Seq(StepNames) PROVE s \in Seq(AllSteps)
    OBVIOUS
<1>1. \A i \in 1 .. Len(s) : s[i] \in AllSteps
    BY ElementOfSeq DEF AllSteps
<1>2. Len(s) \in Nat
    BY LenProperties
<1>3. s = [i \in 1 .. Len(s) |-> s[i]]
    BY LenProperties
<1> QED
    BY <1>1, <1>2, <1>3, IsASeq

(* An install plan of a POSIX host is good: what a step needs comes before *)
(* it.                                                                     *)
LEMMA PosixInstallIsGood ==
    ASSUME NEW a, NEW pkg, NEW pf
    PROVE  GoodPlan(PlanInstallPosix(a, pkg, pf), a, "posix", pkg, pf)
<1> DEFINE j == PlanInstallPosix(a, pkg, pf)
           c == WantCurl(pf) /\ pkg # "none"
           t == "tmux" \notin pf /\ pkg # "none"
           n == WantNode(a, pf)
<1>1. /\ j.action = "Install"
      /\ j.blocked \in {"no", "NoCurlNoPkg", "TmuxOnlyNoPkg", "NotInstalled", "NothingToDo"}
    BY DEF PlanInstallPosix
<1> HIDE DEF j
<1>2. CASE Installs(pkg, pf)
  <2>1. /\ c \in BOOLEAN /\ t \in BOOLEAN /\ n \in BOOLEAN
        /\ j.steps = If(c, <<"curl">>) \o If(t, <<"tmux">>) \o If(n, <<"nvm", "node">>)
                         \o <<"agent", "verify">> \o <<>>
    BY <1>2, AgentPlanSteps DEF WantCurl, WantNode, j
  <2> HIDE DEF c, t, n
  <2>2. StepsInOrder(j.steps, c, t, n)
    BY <2>1, StepsOf
  <2>3. j.steps \in Seq(StepNames) /\ DOMAIN j.steps = 1 .. Len(j.steps)
    BY <2>2, LenProperties DEF StepsInOrder
  <2>4. WorkingPlan(j, a, pkg, pf)
    <3>1. "agent" \in GetsTo(j, pf, Len(j.steps))
        BY <2>2 DEF GetsTo, StepsInOrder
    <3>2. pkg = "none" \/ "tmux" \in GetsTo(j, pf, Len(j.steps))
        BY <2>2 DEF GetsTo, StepsInOrder, t
    <3>3. ASSUME NEW m \in 1 .. Len(j.steps)
          PROVE  /\ j.steps[m] \in {"nvm", "agent"} => "curl" \in GetsTo(j, pf, m - 1)
                 /\ j.steps[m] = "node" => "nvm" \in GetsTo(j, pf, m - 1)
                 /\ (j.steps[m] = "agent" /\ a = "pi") => "node" \in GetsTo(j, pf, m - 1)
                 /\ j.steps[m] \in {"curl", "tmux"} => pkg # "none"
      <4>1. /\ j.steps[m] \in {"nvm", "node"} => n
            /\ j.steps[m] \in {"curl", "tmux"} => c \/ t
            /\ j.steps[m] \in {"nvm", "agent"} /\ c => \E i \in 1 .. (m - 1) : j.steps[i] = "curl"
            /\ j.steps[m] = "node" => \E i \in 1 .. (m - 1) : j.steps[i] = "nvm"
            /\ j.steps[m] = "agent" /\ n => \E i \in 1 .. (m - 1) : j.steps[i] = "node"
          BY <2>2 DEF StepsInOrder
      <4>2. j.steps[m] \in {"nvm", "agent"} => "curl" \in GetsTo(j, pf, m - 1)
          BY <1>2, <4>1 DEF GetsTo, Installs, WantCurl, c
      <4>3. j.steps[m] = "node" => "nvm" \in GetsTo(j, pf, m - 1)
          BY <4>1 DEF GetsTo
      <4>4. (j.steps[m] = "agent" /\ a = "pi") => "node" \in GetsTo(j, pf, m - 1)
          BY <1>2, <4>1 DEF GetsTo, Installs, WantNode, n
      <4> QED
          BY <4>1, <4>2, <4>3, <4>4 DEF c, t
    <3> QED
        BY <2>3, <3>1, <3>2, <3>3 DEF WorkingPlan
  <2>5. VerifiesLast(j)
    BY <2>2 DEF VerifiesLast, StepsInOrder
  <2>6. j.action \in PlanActions
    BY <1>1 DEF PlanActions
  <2>7. GoodPlan(j, a, "posix", pkg, pf)
    BY <1>1, <2>3, <2>4, <2>5, <2>6, StepNamesAreSteps DEF GoodPlan
  <2> QED
    BY <2>7 DEF j
<1>3. CASE ~Installs(pkg, pf)
  <2>1. /\ j.steps \in Seq(StepNames)
        /\ \A m \in 1 .. Len(j.steps) : j.steps[m] \notin {"agent", "upgrade"}
        /\ CanRun(j) =>
             /\ "agent" \in pf /\ pkg # "none"
             /\ Len(j.steps) = 2 /\ j.steps[1] = "tmux" /\ j.steps[2] = "verifyTmux"
    BY <1>3, ToolPlanSteps DEF j
  <2>2. DOMAIN j.steps = 1 .. Len(j.steps)
    BY <2>1, LenProperties
  <2>3. ASSUME CanRun(j)
        PROVE  WorkingPlan(j, a, pkg, pf)
    <3>1. /\ "agent" \in GetsTo(j, pf, Len(j.steps))
          /\ "tmux" \in GetsTo(j, pf, Len(j.steps))
        BY <2>1, <2>3 DEF GetsTo
    <3>2. \A m \in 1 .. Len(j.steps) : j.steps[m] \in {"tmux", "verifyTmux"}
        BY <2>1, <2>3
    <3> QED
        BY <2>1, <2>2, <2>3, <3>1, <3>2 DEF WorkingPlan
  <2>4. VerifiesLast(j)
    BY <2>1, <2>2 DEF VerifiesLast
  <2>5. j.action \in PlanActions
    BY <1>1 DEF PlanActions
  <2>7. GoodPlan(j, a, "posix", pkg, pf)
    BY <1>1, <2>1, <2>3, <2>4, <2>5, StepNamesAreSteps DEF GoodPlan
  <2> QED
    BY <2>7 DEF j
<1> QED
    BY <1>2, <1>3 DEF j

(* So is every plan, of any action and any host.                           *)
LEMMA EveryPlanIsGood ==
    ASSUME NEW action \in PlanActions, NEW a, NEW os, NEW pkg, NEW pf
    PROVE  GoodPlan(PlanFor(action, a, os, pkg, pf), a, os, pkg, pf)
<1>1. /\ <<>> \in Seq(AllSteps) /\ <<"node">> \in Seq(AllSteps) /\ <<"uninstall">> \in Seq(AllSteps)
      /\ <<"agent", "verify">> \in Seq(AllSteps) /\ <<"upgrade", "verify">> \in Seq(AllSteps)
    BY ShortSequences DEF AllSteps, StepNames
<1>2. GoodPlan(PlanInstall(a, os, pkg, pf), a, os, pkg, pf)
  <2>1. CASE os = "posix"
    BY <2>1, PosixInstallIsGood DEF PlanInstall
  <2>2. CASE os # "posix"
    <3> DEFINE j == PlanInstallWindows(a, pf)
    <3>1. j.steps \in Seq(AllSteps)
        BY <1>1, ConcatProperties DEF PlanInstallWindows, If
    <3>2. /\ j.action = "Install"
          /\ j.blocked \in {"no", "NothingToDo"}
        BY DEF PlanInstallWindows
    <3> QED
        BY <2>2, <3>1, <3>2 DEF PlanInstall, GoodPlan, PlanActions
  <2> QED
    BY <2>1, <2>2
<1>3. GoodPlan(PlanUpgrade(a, os, pkg, pf), a, os, pkg, pf)
  <2>1. CASE "agent" \notin pf
    BY <1>2, <2>1 DEF PlanUpgrade
  <2>2. CASE "agent" \in pf
    <3> DEFINE s == <<"upgrade", "verify">>
    <3>1. PlanUpgrade(a, os, pkg, pf) = [action |-> "Upgrade", steps |-> s, blocked |-> "no"]
        BY <2>2 DEF PlanUpgrade
    <3>2. s \in Seq(AllSteps) /\ s[Len(s)] = "verify"
        BY <1>1
    <3> HIDE DEF s
    <3> QED
        BY <3>1, <3>2 DEF GoodPlan, VerifiesLast, PlanActions
  <2> QED
    BY <2>1, <2>2
<1>4. GoodPlan(PlanUninstall(pf), a, os, pkg, pf)
  <2>1. CASE "agent" \notin pf
    BY <1>1, <2>1 DEF PlanUninstall, GoodPlan, VerifiesLast, PlanActions
  <2>2. CASE "agent" \in pf
    <3> DEFINE s == <<"uninstall">>
    <3>1. PlanUninstall(pf) = [action |-> "Uninstall", steps |-> s, blocked |-> "no"]
        BY <2>2 DEF PlanUninstall
    <3>2. s \in Seq(AllSteps) /\ \A i \in DOMAIN s : s[i] = "uninstall"
        BY <1>1
    <3> HIDE DEF s
    <3> QED
        BY <3>1, <3>2 DEF GoodPlan, VerifiesLast, PlanActions
  <2> QED
    BY <2>1, <2>2
<1> QED
    BY <1>2, <1>3, <1>4 DEF PlanFor, PlanActions

(* The invariant: whatever is shown or runs is a good plan for the host as *)
(* the preflight found it.                                                 *)
AgentInstallInvariant ==
    /\ AgentInstallTypeOK
    /\ GoodPlan(job, product, box.os, box.pkg, preflight)
    /\ at > 0 => status = "none"

(* The invariant of the agent installer: the plan that is shown or runs    *)
(* stays good for the preflight it was made of.                            *)
THEOREM AgentInstallIsInvariant == AgentInstallSpec => []AgentInstallInvariant
<1>1. AgentInstallInit => AgentInstallInvariant
  <2> SUFFICES ASSUME AgentInstallInit PROVE AgentInstallInvariant
    OBVIOUS
  <2>1. /\ job.steps = <<>> /\ DOMAIN job.steps = {} /\ Len(job.steps) = 0
        /\ job.steps \in Seq(AllSteps)
    BY ShortSequences DEF AgentInstallInit, NoJob
  <2>2. GoodPlan(job, product, box.os, box.pkg, preflight)
    BY <2>1 DEF AgentInstallInit, NoJob, GoodPlan, VerifiesLast, PlanActions, CanRun
  <2>3. AgentInstallTypeOK
    BY <2>1, AgentInstallAssumption
    DEF AgentInstallInit, AgentInstallTypeOK, NoJob, PlanActions
  <2> QED
    BY <2>2, <2>3 DEF AgentInstallInvariant, AgentInstallInit
<1>2. AgentInstallInvariant /\ [AgentInstallNext]_agentInstallVars => AgentInstallInvariant'
  <2> SUFFICES ASSUME AgentInstallInvariant, [AgentInstallNext]_agentInstallVars
               PROVE  AgentInstallInvariant'
    OBVIOUS
  <2> USE DEF AgentInstallInvariant
  <2>0. /\ job.steps \in Seq(AllSteps) /\ Len(job.steps) \in Nat
        /\ box \in [os : Oses, pkg : Pkgs, has : SUBSET Tools]
    BY LenProperties DEF GoodPlan, AgentInstallTypeOK
  <2>1. CASE HostChanges
    <3>1. /\ box' \in [os : Oses, pkg : Pkgs, has : SUBSET Tools]
          /\ box'.os = box.os /\ box'.pkg = box.pkg
        BY <2>0, <2>1 DEF HostChanges, Tools
    <3>2. changes' \in 0 .. MaxChanges
        BY <2>1, AgentInstallAssumption DEF HostChanges, AgentInstallTypeOK
    <3> QED
        BY <2>1, <3>1, <3>2 DEF HostChanges, AgentInstallTypeOK
  <2>2. ASSUME NEW action \in PlanActions, Plans(action)
        PROVE  AgentInstallInvariant'
    <3>1. preflight' = box.has /\ job' = PlanFor(action, product, box.os, box.pkg, preflight')
        BY <2>2 DEF Plans
    <3>2. GoodPlan(job, product, box.os, box.pkg, preflight)'
        BY <2>2, <3>1, EveryPlanIsGood DEF Plans
    <3>3. job'.steps \in Seq(AllSteps) /\ Len(job'.steps) \in Nat
        BY <3>2, LenProperties DEF GoodPlan
    <3>4. \A i \in DOMAIN job'.steps : job'.steps[i] \in AllSteps
        BY <3>3, ElementOfSeq, LenProperties
    <3> QED
        BY <2>0, <2>2, <3>1, <3>2, <3>3, <3>4
        DEF Plans, AgentInstallTypeOK, GoodPlan, AllSteps, StepNames, Tools
  <2>3. CASE Confirms
    <3>1. Len(job.steps) # 0
        BY <2>0, <2>3, EmptySeq DEF Confirms, CanRun
    <3> QED
        BY <2>0, <2>3, <3>1 DEF Confirms, AgentInstallTypeOK
  <2>4. CASE StepWorks
    <3>1. at' \in 0 .. Len(job.steps) /\ status' \in {"none", "zero", "failed"}
        BY <2>0, <2>4 DEF StepWorks, AtLast, ScriptEnds, AgentInstallTypeOK
    <3>2. Step \in AllSteps
        BY <2>0, <2>4, ElementOfSeq DEF StepWorks, Step, AgentInstallTypeOK
    <3>3. Leaves(Step) \subseteq SUBSET Tools
        BY <2>0 DEF Leaves, Tools
    <3>4. /\ box' \in [os : Oses, pkg : Pkgs, has : SUBSET Tools]
          /\ box'.os = box.os /\ box'.pkg = box.pkg
        BY <2>0, <2>4, <3>3 DEF StepWorks
    <3> QED
        BY <2>4, <3>1, <3>4 DEF StepWorks, ScriptEnds, AgentInstallTypeOK
  <2>5. CASE StepFails
    <3>1. at' \in 0 .. Len(job.steps) /\ status' \in {"none", "zero", "failed"}
        BY <2>0, <2>5 DEF StepFails, AtLast, ScriptEnds, AgentInstallTypeOK
    <3> QED
        BY <2>5, <3>1 DEF StepFails, ScriptEnds, AgentInstallTypeOK
  <2>6. CASE UNCHANGED agentInstallVars
    BY <2>6 DEF agentInstallVars, AgentInstallTypeOK
  <2> QED
    BY <2>1, <2>2, <2>3, <2>4, <2>5, <2>6 DEF AgentInstallNext
<1> QED
    BY <1>1, <1>2, PTL DEF AgentInstallSpec

(* An install plan that may run can work, and a POSIX script that ends     *)
(* with status 0 after an install or an upgrade leaves the agent there     *)
(* (plan_install_posix, plan_upgrade, verify_step).                        *)
THEOREM PlansAreDelivered == AgentInstallSpec => PlansDeliver
<1>1. AgentInstallInvariant => InstallPlansWork
    BY DEF AgentInstallInvariant, GoodPlan, WorkingPlan, InstallPlansWork, HasAfter, GetsTo
<1>2. AgentInstallInvariant /\ [AgentInstallNext]_agentInstallVars
        => [(/\ at > 0 /\ status' = "zero" /\ box.os = "posix"
             /\ \E i \in DOMAIN job.steps : job.steps[i] \in {"agent", "upgrade"})
               => "agent" \in box'.has]_agentInstallVars
  <2> SUFFICES ASSUME AgentInstallInvariant, AgentInstallNext,
                      at > 0, status' = "zero", box.os = "posix",
                      \E i \in DOMAIN job.steps : job.steps[i] \in {"agent", "upgrade"}
               PROVE  "agent" \in box'.has
    OBVIOUS
  <2>1. job.steps[Len(job.steps)] = "verify"
    BY DEF AgentInstallInvariant, GoodPlan, VerifiesLast
  <2>2. status # "zero"
    BY DEF AgentInstallInvariant
  <2>3. ~HostChanges /\ ~Confirms /\ ~StepFails /\ \A action \in PlanActions : ~Plans(action)
    BY <2>2 DEF HostChanges, Confirms, StepFails, Plans, ScriptEnds
  <2>4. StepWorks
    BY <2>3 DEF AgentInstallNext
  <2>5. Step = "verify"
    BY <2>1, <2>2, <2>4 DEF StepWorks, AtLast, Step
  <2>6. "agent" \in box.has /\ Leaves(Step) = {box.has}
    BY <2>4, <2>5 DEF StepWorks, Ready, Leaves, Tools
  <2> QED
    BY <2>4, <2>6 DEF StepWorks, AgentInstallInvariant, AgentInstallTypeOK
<1> QED
    BY <1>1, <1>2, AgentInstallIsInvariant, PTL DEF AgentInstallSpec, PlansDeliver
=============================================================================
