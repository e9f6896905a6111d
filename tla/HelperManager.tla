--------------------------- MODULE HelperManager ---------------------------
(***************************************************************************)
(* The helper connections of the desktop app: HelperManager of             *)
(* src-tauri/src/helper.rs.  Every Tauri command runs on its own blocking  *)
(* thread, so an element of Opens, Calls or Closes is one invocation of    *)
(* helper_open, helper_call or helper_close, and each registered session   *)
(* has a pump thread of its own.  A session is named by the open that made *)
(* it: ids come from an atomic counter and are never reused.               *)
(***************************************************************************)
EXTENDS Naturals, Sequences, FiniteSets, Absent

CONSTANTS Hosts,     \* the ssh hosts of the sidebar
          Opens,     \* invocations of helper_open, and the sessions they make
          Calls,     \* invocations of helper_call
          Closes,    \* invocations of helper_close
          PipeCap    \* frames the far end's stdin holds before a write blocks

ASSUME ConstantsAssumption ==
    /\ PipeCap \in Nat \ {0}
    /\ None \notin Hosts \cup Opens \cup Calls \cup Closes

VARIABLES
    opener,     \* opener[o]: how far the open has come
    hostOf,     \* hostOf[s]: Session::host
    table,      \* Shared::sessions, the sessions the manager knows
    child,      \* child[s]: the local ssh process behind the session
    stdin,      \* stdin[s]: what Session::writer holds, the pipe or a sink
    holder,     \* holder[s]: the call that holds the lock of Session::writer
    inq,        \* inq[s]: request frames in the pipe to the remote
    outq,       \* outq[s]: frames the remote wrote and the pump has not read
    nextReq,    \* nextReq[s]: Session::next_request
    pending,    \* pending[s]: the calls whose waiter is registered
    pump,       \* pump[s]: where the session's pump thread is
    deaf,       \* the sessions whose webview channel no longer listens
    ends,       \* the activations of Session::terminate that are running
    call,       \* call[c]: where the call is
    target,     \* target[c]: the session the call fetched from the table
    req,        \* req[c]: the request id the call minted
    result,     \* result[c]: the call's mpsc cell and, once done, its outcome
    closer      \* closer[k]: where the close is

sessionVars == <<hostOf, table, child, stdin, holder, inq, outq, nextReq,
                 pending, pump, deaf>>
callVars == <<call, target, req, result>>
vars == <<opener, sessionVars, ends, callVars, closer>>

-----------------------------------------------------------------------------
Frame == [req : Nat, call : Calls]
Reply(f) == [kind |-> "reply", req |-> f.req, call |-> f.call]
Push == [kind |-> "push", req |-> 0, call |-> None]
OutFrame == [kind : {"reply", "push"}, req : Nat, call : Calls \cup {None}]

Outcome == [kind : {"none", "ok", "disconnected", "timeout", "refused"},
            from : Calls \cup {None}]
Verdict(kind) == [kind |-> kind, from |-> None]
Answer(c) == [kind |-> "ok", from |-> c]

\* One activation of terminate: the thread in it, the session, the next step.
End(role, who, s, step) == [role |-> role, who |-> who, of |-> s,
                            step |-> step]
Activation == [role : {"open", "pump", "close"}, who : Opens \cup Closes,
               of : Opens, step : {"swap", "kill"}]
Busy(role, who) == \E e \in ends : e.role = role /\ e.who = who

TypeOK ==
    /\ opener \in [Opens -> {"idle", "spawned", "inserted", "returned"}]
    /\ hostOf \in [Opens -> Hosts \cup {None}]
    /\ table \in SUBSET Opens
    /\ child \in [Opens -> {"none", "alive", "dead"}]
    /\ stdin \in [Opens -> {"pipe", "sink"}]
    /\ holder \in [Opens -> Calls \cup {None}]
    /\ inq \in [Opens -> Seq(Frame)]
    /\ outq \in [Opens -> Seq(OutFrame)]
    /\ nextReq \in [Opens -> Nat]
    /\ pending \in [Opens -> SUBSET Calls]
    /\ pump \in [Opens -> {"none", "reading", "drained", "ending", "done"}]
    /\ deaf \in SUBSET Opens
    /\ ends \in SUBSET Activation
    /\ call \in [Calls -> {"idle", "fetched", "registered", "writing",
                           "waiting", "done"}]
    /\ target \in [Calls -> Opens \cup {None}]
    /\ req \in [Calls -> Nat]
    /\ result \in [Calls -> Outcome]
    /\ closer \in [Closes -> {"idle", "ending", "done"}]

Init ==
    /\ opener = [o \in Opens |-> "idle"]
    /\ hostOf = [o \in Opens |-> None]
    /\ table = {}
    /\ child = [o \in Opens |-> "none"]
    /\ stdin = [o \in Opens |-> "pipe"]
    /\ holder = [o \in Opens |-> None]
    /\ inq = [o \in Opens |-> <<>>]
    /\ outq = [o \in Opens |-> <<>>]
    /\ nextReq = [o \in Opens |-> 0]
    /\ pending = [o \in Opens |-> {}]
    /\ pump = [o \in Opens |-> "none"]
    /\ deaf = {}
    /\ ends = {}
    /\ call = [c \in Calls |-> "idle"]
    /\ target = [c \in Calls |-> None]
    /\ req = [c \in Calls |-> 0]
    /\ result = [c \in Calls |-> Verdict("none")]
    /\ closer = [k \in Closes |-> "idle"]

-----------------------------------------------------------------------------
(* open and adopt *)

\* The probe, the install decision and the spawn: from here a child runs.
OpenSpawn(o, h) ==
    /\ opener[o] = "idle"
    /\ opener' = [opener EXCEPT ![o] = "spawned"]
    /\ hostOf' = [hostOf EXCEPT ![o] = h]
    /\ child' = [child EXCEPT ![o] = "alive"]
    /\ UNCHANGED <<table, stdin, holder, inq, outq, nextReq, pending,
                   pump, deaf, ends, callVars, closer>>

\* Mutant: only sessions whose process still runs are replaced.
StaleIfAlive(o) == {s \in table : hostOf[s] = hostOf[o] /\ child[s] = "alive"}

Stale(o) == {s \in table : hostOf[s] = hostOf[o]}

\* Under the table's lock: out with every session of the host, in with this
\* one.  The replaced ones are terminated after the lock is released.
OpenInsert(o) ==
    /\ opener[o] = "spawned"
    /\ opener' = [opener EXCEPT ![o] = "inserted"]
    /\ table' = (table \ Stale(o)) \cup {o}
    /\ ends' = ends \cup {End("open", o, s, "swap") : s \in Stale(o)}
    /\ UNCHANGED <<hostOf, child, stdin, holder, inq, outq, nextReq,
                   pending, pump, deaf, callVars, closer>>

\* Only when every replaced session is terminated does the pump start and the
\* id reach the frontend.
OpenReturn(o) ==
    /\ opener[o] = "inserted"
    /\ ~Busy("open", o)
    /\ opener' = [opener EXCEPT ![o] = "returned"]
    /\ pump' = [pump EXCEPT ![o] = "reading"]
    /\ UNCHANGED <<hostOf, table, child, stdin, holder, inq, outq,
                   nextReq, pending, deaf, ends, callVars, closer>>

-----------------------------------------------------------------------------
(* Session::terminate, by an open, a close or a pump *)

\* Replacing the writer takes its lock, so it waits for a call that writes.
TerminateSwap(e) ==
    /\ e \in ends
    /\ e.step = "swap"
    /\ holder[e.of] = None
    /\ stdin' = [stdin EXCEPT ![e.of] = "sink"]
    /\ ends' = (ends \ {e}) \cup {End(e.role, e.who, e.of, "kill")}
    /\ UNCHANGED <<opener, hostOf, table, child, holder, inq, outq,
                   nextReq, pending, pump, deaf, callVars, closer>>

\* Mutant: terminate trusts the end of stdin and kills nothing.
TerminateTrustsEof(e) ==
    /\ e \in ends
    /\ e.step = "kill"
    /\ ends' = ends \ {e}
    /\ UNCHANGED <<opener, sessionVars, callVars, closer>>

TerminateKill(e) ==
    /\ e \in ends
    /\ e.step = "kill"
    /\ child' = [child EXCEPT ![e.of] = "dead"]
    /\ ends' = ends \ {e}
    /\ UNCHANGED <<opener, hostOf, table, stdin, holder, inq, outq,
                   nextReq, pending, pump, deaf, callVars, closer>>

-----------------------------------------------------------------------------
(* call *)

\* Mutant: the counter is read, not advanced.
CallFetchReusesId(c, s) ==
    /\ call[c] = "idle"
    /\ opener[s] = "returned"
    /\ s \in table
    /\ call' = [call EXCEPT ![c] = "fetched"]
    /\ target' = [target EXCEPT ![c] = s]
    /\ req' = [req EXCEPT ![c] = nextReq[s] + 1]
    /\ UNCHANGED <<opener, sessionVars, ends, result, closer>>

\* The session is cloned out of the table and a request id minted.  Nothing
\* keeps the session in the table from here on.
CallFetch(c, s) ==
    /\ call[c] = "idle"
    /\ opener[s] = "returned"
    /\ s \in table
    /\ call' = [call EXCEPT ![c] = "fetched"]
    /\ target' = [target EXCEPT ![c] = s]
    /\ nextReq' = [nextReq EXCEPT ![s] = @ + 1]
    /\ req' = [req EXCEPT ![c] = nextReq'[s]]
    /\ UNCHANGED <<opener, hostOf, table, child, stdin, holder, inq,
                   outq, pending, pump, deaf, ends, result, closer>>

CallFinish(c, verdict) ==
    /\ call' = [call EXCEPT ![c] = "done"]
    /\ result' = [result EXCEPT ![c] = verdict]

CallUnknown(c, s) ==
    /\ call[c] = "idle"
    /\ opener[s] = "returned"
    /\ s \notin table
    /\ CallFinish(c, Verdict("disconnected"))
    /\ UNCHANGED <<opener, sessionVars, ends, target, req, closer>>

\* encode_request refuses a frame above the cap.
CallRefuse(c) ==
    /\ call[c] = "fetched"
    /\ CallFinish(c, Verdict("refused"))
    /\ UNCHANGED <<opener, sessionVars, ends, target, req, closer>>

CallRegister(c) ==
    /\ call[c] = "fetched"
    /\ call' = [call EXCEPT ![c] = "registered"]
    /\ pending' = [pending EXCEPT ![target[c]] = @ \cup {c}]
    /\ UNCHANGED <<opener, hostOf, table, child, stdin, holder, inq,
                   outq, nextReq, pump, deaf, ends, target, req, result,
                   closer>>

CallLock(c) ==
    /\ call[c] = "registered"
    /\ holder[target[c]] = None
    /\ call' = [call EXCEPT ![c] = "writing"]
    /\ holder' = [holder EXCEPT ![target[c]] = c]
    /\ UNCHANGED <<opener, hostOf, table, child, stdin, inq, outq,
                   nextReq, pending, pump, deaf, ends, target, req, result,
                   closer>>

\* A write into the sink succeeds and goes nowhere; one into the pipe waits,
\* with the lock, for room.
CallWrite(c) ==
    LET s == target[c] IN
    /\ call[c] = "writing"
    /\ \/ /\ stdin[s] = "sink"
          /\ UNCHANGED inq
       \/ /\ stdin[s] = "pipe"
          /\ child[s] = "alive"
          /\ Len(inq[s]) < PipeCap
          /\ inq' = [inq EXCEPT ![s] =
                        Append(@, [req |-> req[c], call |-> c])]
    /\ call' = [call EXCEPT ![c] = "waiting"]
    /\ holder' = [holder EXCEPT ![s] = None]
    /\ UNCHANGED <<opener, hostOf, table, child, stdin, outq, nextReq,
                   pending, pump, deaf, ends, target, req, result, closer>>

\* The pipe of a dead child answers a write with an error.
CallWriteFails(c) ==
    LET s == target[c] IN
    /\ call[c] = "writing"
    /\ stdin[s] = "pipe"
    /\ child[s] = "dead"
    /\ pending' = [pending EXCEPT ![s] = @ \ {c}]
    /\ holder' = [holder EXCEPT ![s] = None]
    /\ CallFinish(c, Verdict("disconnected"))
    /\ UNCHANGED <<opener, hostOf, table, child, stdin, inq, outq,
                   nextReq, pump, deaf, ends, target, req, closer>>

CallReceive(c) ==
    /\ call[c] = "waiting"
    /\ result[c].kind # "none"
    /\ CallFinish(c, result[c])
    /\ UNCHANGED <<opener, sessionVars, ends, target, req, closer>>

\* Mutants: the timed-out call keeps its waiter; it blames the connection; it
\* waits with recv, which has no deadline.
CallTimeoutKeepsWaiter(c) ==
    /\ call[c] = "waiting"
    /\ result[c].kind = "none"
    /\ CallFinish(c, Verdict("timeout"))
    /\ UNCHANGED <<opener, sessionVars, ends, target, req, closer>>

CallTimeoutDisconnects(c) ==
    /\ call[c] = "waiting"
    /\ result[c].kind = "none"
    /\ pending' = [pending EXCEPT ![target[c]] = @ \ {c}]
    /\ CallFinish(c, Verdict("disconnected"))
    /\ UNCHANGED <<opener, hostOf, table, child, stdin, holder, inq,
                   outq, nextReq, pump, deaf, ends, target, req, closer>>

CallTimeoutNever(c) == FALSE /\ UNCHANGED vars

\* recv_timeout runs out: the caller deregisters, the request is not recalled.
CallTimeout(c) ==
    /\ call[c] = "waiting"
    /\ result[c].kind = "none"
    /\ pending' = [pending EXCEPT ![target[c]] = @ \ {c}]
    /\ CallFinish(c, Verdict("timeout"))
    /\ UNCHANGED <<opener, hostOf, table, child, stdin, holder, inq,
                   outq, nextReq, pump, deaf, ends, target, req, closer>>

-----------------------------------------------------------------------------
(* close *)

\* Mutant: the session is dropped and not terminated.
CloseDropsOnly(k, s) ==
    /\ closer[k] = "idle"
    /\ opener[s] = "returned"
    /\ closer' = [closer EXCEPT ![k] = "ending"]
    /\ table' = table \ {s}
    /\ UNCHANGED <<opener, hostOf, child, stdin, holder, inq, outq,
                   nextReq, pending, pump, deaf, ends, callVars>>

Close(k, s) ==
    /\ closer[k] = "idle"
    /\ opener[s] = "returned"
    /\ closer' = [closer EXCEPT ![k] = "ending"]
    /\ table' = table \ {s}
    /\ ends' = ends \cup IF s \in table THEN {End("close", k, s, "swap")} ELSE {}
    /\ UNCHANGED <<opener, hostOf, child, stdin, holder, inq, outq,
                   nextReq, pending, pump, deaf, callVars>>

CloseReturn(k) ==
    /\ closer[k] = "ending"
    /\ ~Busy("close", k)
    /\ closer' = [closer EXCEPT ![k] = "done"]
    /\ UNCHANGED <<opener, sessionVars, ends, callVars>>

-----------------------------------------------------------------------------
(* The pump thread *)

Waiters(s, r) == {c \in pending[s] : req[c] = r}

\* A reply goes to the waiter registered under its id, if there is one still.
PumpReply(s) ==
    /\ pump[s] = "reading"
    /\ outq[s] # <<>>
    /\ Head(outq[s]).kind = "reply"
    /\ outq' = [outq EXCEPT ![s] = Tail(@)]
    /\ LET f == Head(outq[s]) IN
       \/ /\ Waiters(s, f.req) = {}
          /\ UNCHANGED <<pending, result>>
       \/ \E c \in Waiters(s, f.req) :
          /\ pending' = [pending EXCEPT ![s] = @ \ {c}]
          /\ result' = [result EXCEPT ![c] = Answer(f.call)]
    /\ UNCHANGED <<opener, hostOf, table, child, stdin, holder, inq,
                   nextReq, pump, deaf, ends, call, target, req, closer>>

PumpPush(s) ==
    /\ pump[s] = "reading"
    /\ outq[s] # <<>>
    /\ Head(outq[s]).kind = "push"
    /\ s \notin deaf
    /\ outq' = [outq EXCEPT ![s] = Tail(@)]
    /\ UNCHANGED <<opener, hostOf, table, child, stdin, holder, inq,
                   nextReq, pending, pump, deaf, ends, callVars, closer>>

\* Mutant: the loop does not notice the end of the stream.
PumpDrainMissesEof(s) ==
    /\ pump[s] = "reading"
    /\ outq[s] # <<>>
    /\ Head(outq[s]).kind = "push" /\ s \in deaf
    /\ pump' = [pump EXCEPT ![s] = "drained"]
    /\ result' = [c \in Calls |-> IF c \in pending[s]
                                  THEN Verdict("disconnected")
                                  ELSE result[c]]
    /\ pending' = [pending EXCEPT ![s] = {}]
    /\ UNCHANGED <<opener, hostOf, table, child, stdin, holder, inq,
                   outq, nextReq, deaf, ends, call, target, req, closer>>

\* The loop ends at the end of the stream, or at a push nobody listens to;
\* whoever waits then is told.
PumpDrain(s) ==
    /\ pump[s] = "reading"
    /\ IF outq[s] = <<>>
       THEN child[s] = "dead"
       ELSE Head(outq[s]).kind = "push" /\ s \in deaf
    /\ pump' = [pump EXCEPT ![s] = "drained"]
    /\ result' = [c \in Calls |-> IF c \in pending[s]
                                  THEN Verdict("disconnected")
                                  ELSE result[c]]
    /\ pending' = [pending EXCEPT ![s] = {}]
    /\ UNCHANGED <<opener, hostOf, table, child, stdin, holder, inq,
                   outq, nextReq, deaf, ends, call, target, req, closer>>

PumpReap(s) ==
    /\ pump[s] = "drained"
    /\ pump' = [pump EXCEPT ![s] = "ending"]
    /\ table' = table \ {s}
    /\ ends' = ends \cup {End("pump", s, s, "swap")}
    /\ UNCHANGED <<opener, hostOf, child, stdin, holder, inq, outq,
                   nextReq, pending, deaf, callVars, closer>>

\* HelperEvent::Closed, and the thread is over.
PumpReturn(s) ==
    /\ pump[s] = "ending"
    /\ ~Busy("pump", s)
    /\ pump' = [pump EXCEPT ![s] = "done"]
    /\ UNCHANGED <<opener, hostOf, table, child, stdin, holder, inq,
                   outq, nextReq, pending, deaf, ends, callVars, closer>>

-----------------------------------------------------------------------------
(* The far end and the webview *)

RemoteAnswer(s) ==
    /\ child[s] = "alive"
    /\ inq[s] # <<>>
    /\ inq' = [inq EXCEPT ![s] = Tail(@)]
    /\ outq' = [outq EXCEPT ![s] = Append(@, Reply(Head(inq[s])))]
    /\ UNCHANGED <<opener, hostOf, table, child, stdin, holder,
                   nextReq, pending, pump, deaf, ends, callVars, closer>>

\* One unread push at a time bounds the queue.
RemotePush(s) ==
    /\ child[s] = "alive"
    /\ \A i \in 1 .. Len(outq[s]) : outq[s][i].kind # "push"
    /\ outq' = [outq EXCEPT ![s] = Append(@, Push)]
    /\ UNCHANGED <<opener, hostOf, table, child, stdin, holder, inq,
                   nextReq, pending, pump, deaf, ends, callVars, closer>>

\* The connection breaks, the remote crashes, or it exits on its stdin's EOF.
RemoteDies(s) ==
    /\ child[s] = "alive"
    /\ child' = [child EXCEPT ![s] = "dead"]
    /\ UNCHANGED <<opener, hostOf, table, stdin, holder, inq, outq,
                   nextReq, pending, pump, deaf, ends, callVars, closer>>

WebviewGoes(s) ==
    /\ pump[s] = "reading"
    /\ s \notin deaf
    /\ deaf' = deaf \cup {s}
    /\ UNCHANGED <<opener, hostOf, table, child, stdin, holder, inq,
                   outq, nextReq, pending, pump, ends, callVars, closer>>

-----------------------------------------------------------------------------
OpenNext == \E o \in Opens :
    \/ \E h \in Hosts : OpenSpawn(o, h)
    \/ OpenInsert(o)
    \/ OpenReturn(o)

TerminateNext == \E e \in ends : TerminateSwap(e) \/ TerminateKill(e)

CallNext == \E c \in Calls :
    \/ \E s \in Opens : CallFetch(c, s) \/ CallUnknown(c, s)
    \/ CallRefuse(c)
    \/ CallRegister(c)
    \/ CallLock(c)
    \/ CallWrite(c)
    \/ CallWriteFails(c)
    \/ CallReceive(c)
    \/ CallTimeout(c)

CloseNext == \E k \in Closes :
    \/ \E s \in Opens : Close(k, s)
    \/ CloseReturn(k)

PumpNext == \E s \in Opens :
    \/ PumpReply(s)
    \/ PumpPush(s)
    \/ PumpDrain(s)
    \/ PumpReap(s)
    \/ PumpReturn(s)

RemoteNext == \E s \in Opens :
    \/ RemoteAnswer(s)
    \/ RemotePush(s)
    \/ RemoteDies(s)
    \/ WebviewGoes(s)

Next == OpenNext \/ TerminateNext \/ CallNext \/ CloseNext \/ PumpNext
            \/ RemoteNext

Spec == Init /\ [][Next]_vars

\* A thread that can run is run: each blocking-pool or pump thread keeps
\* going, and recv_timeout's clock runs.  Nothing is assumed of the remote or
\* of the user.
Fairness ==
    /\ \A o \in Opens :
        /\ WF_vars(OpenInsert(o))
        /\ WF_vars(OpenReturn(o))
        /\ WF_vars(PumpReply(o) \/ PumpPush(o) \/ PumpDrain(o))
        /\ WF_vars(PumpReap(o))
        /\ WF_vars(PumpReturn(o))
    /\ WF_vars(TerminateNext)
    /\ \A c \in Calls :
        /\ WF_vars(CallRegister(c))
        /\ WF_vars(CallLock(c))
        /\ WF_vars(CallWrite(c) \/ CallWriteFails(c))
        /\ WF_vars(CallReceive(c) \/ CallTimeout(c))
    /\ \A k \in Closes : WF_vars(CloseReturn(k))

FairSpec == Spec /\ Fairness

-----------------------------------------------------------------------------
(* A reply reaches the call that asked: however the answers of concurrent  *)
(* calls, timeouts and the drain interleave, a call that succeeds returns  *)
(* what the remote answered to its own frame.                              *)
ReplyToItsCaller ==
    \A c \in Calls : result[c].kind = "ok" => result[c].from = c

(* One connection per host: opens race each other, closes and pumps, and   *)
(* the table still never holds two sessions of one host.                   *)
OneSessionPerHost ==
    \A s, t \in table : hostOf[s] = hostOf[t] => s = t

(* No child outlives its session: a live ssh the table does not know is    *)
(* either still being adopted or has a terminate on its way to the kill.   *)
NoOrphanedChild ==
    \A s \in Opens :
        child[s] = "alive" =>
            \/ s \in table
            \/ opener[s] = "spawned"
            \/ \E e \in ends : e.of = s

(* A session that calls can still reach is never being terminated.         *)
TerminatedIsUnreachable == \A e \in ends : e.of \notin table

(* A call that has returned, however it did, leaves no waiter behind for   *)
(* the life of the session.                                                *)
NoLeakedWaiter ==
    \A c \in Calls, s \in Opens :
        c \in pending[s] =>
            /\ target[c] = s
            /\ call[c] \in {"registered", "writing", "waiting"}

(* "disconnected" is the truth: a call that fetched a session reports it   *)
(* only once the session's process is gone or its pump has stopped.        *)
DisconnectedIsTrue ==
    \A c \in Calls :
        (call[c] = "done" /\ result[c].kind = "disconnected"
            /\ target[c] # None)
        => \/ child[target[c]] = "dead"
           \/ pump[target[c]] \in {"drained", "ending", "done"}

(* A terminate that starts is carried through: the child it is about dies, *)
(* whatever calls are writing to it.                                       *)
EndedChildDies ==
    \A s \in Opens :
        (\E e \in ends : e.of = s) ~> (child[s] = "dead")

(* While the pipe has room for what is asked, every call that got hold of  *)
(* a session returns, whether or not the remote answers.                   *)
EveryCallReturns ==
    \A c \in Calls : (call[c] = "fetched") ~> (call[c] = "done")

(* Every adopted session gets its pump: the open returns.                  *)
EveryOpenReturns ==
    \A o \in Opens : (opener[o] = "spawned") ~> (opener[o] = "returned")

(* The frontend always gets its answer, from a call and from an open.       *)
CommandsReturn == EveryCallReturns /\ EveryOpenReturns

(* Once its child is dead a session's pump thread ends and the table has   *)
(* forgotten the session.                                                  *)
DeadSessionIsReaped ==
    \A s \in Opens :
        (child[s] = "dead") ~> (pump[s] = "done" /\ s \notin table)

-----------------------------------------------------------------------------
(* The inductive invariant behind the safety properties, in named parts.   *)

\* What the table, the pump and terminate know has been inserted by its open.
SessionsAreAdopted ==
    /\ \A s \in table : opener[s] \in {"inserted", "returned"}
    /\ \A e \in ends : opener[e.of] \in {"inserted", "returned"}
    /\ \A s \in Opens : pump[s] # "none" => opener[s] = "returned"

\* A call is tied to its session from the fetch on, and only then.
CallsHaveTargets ==
    \A c \in Calls :
        /\ call[c] = "idle" => target[c] = None
        /\ call[c] \in {"fetched", "registered", "writing", "waiting"}
             => target[c] \in Opens
        /\ call[c] \in {"idle", "fetched"} => result[c].kind = "none"
        /\ target[c] # None => opener[target[c]] = "returned"

\* Within a session a request id is minted once.
RequestIdsAreUnique ==
    /\ \A c \in Calls : target[c] # None => req[c] <= nextReq[target[c]]
    /\ \A c, d \in Calls :
        (target[c] # None /\ target[c] = target[d] /\ req[c] = req[d])
            => c = d

\* A frame on the wire belongs to the call that wrote it, under its id.
InFramesBelong(s) ==
    \A i \in 1 .. Len(inq[s]) :
        LET f == inq[s][i] IN target[f.call] = s /\ req[f.call] = f.req
OutFramesBelong(s) ==
    \A i \in 1 .. Len(outq[s]) :
        LET f == outq[s][i] IN
        f.kind = "reply" =>
            /\ f.call \in Calls
            /\ target[f.call] = s
            /\ req[f.call] = f.req
FramesBelong == \A s \in Opens : InFramesBelong(s) /\ OutFramesBelong(s)

\* An answered call has no waiter left for a second answer.
AnsweredOnce ==
    \A c \in Calls, s \in Opens : c \in pending[s] => result[c].kind = "none"

DisconnectedSession(s) ==
    child[s] = "dead" \/ pump[s] \in {"drained", "ending", "done"}
DisconnectedHasCause ==
    \A c \in Calls :
        (result[c].kind = "disconnected" /\ target[c] # None)
            => DisconnectedSession(target[c])

IInv ==
    /\ TypeOK
    /\ SessionsAreAdopted
    /\ OneSessionPerHost
    /\ NoOrphanedChild
    /\ TerminatedIsUnreachable
    /\ CallsHaveTargets
    /\ RequestIdsAreUnique
    /\ FramesBelong
    /\ NoLeakedWaiter
    /\ AnsweredOnce
    /\ ReplyToItsCaller
    /\ DisconnectedHasCause
=============================================================================
