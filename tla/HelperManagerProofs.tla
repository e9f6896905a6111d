------------------------ MODULE HelperManagerProofs ------------------------
EXTENDS HelperManager, TLAPS

-----------------------------------------------------------------------------
(* Sequences, as the two queues of a session use them. *)

(* What a write does to the pipe and the remote to its output. *)
LEMMA AppendFacts ==
    ASSUME NEW S, NEW q \in Seq(S), NEW x \in S
    PROVE  /\ Append(q, x) \in Seq(S)
           /\ Len(Append(q, x)) = Len(q) + 1
           /\ \A i \in 1 .. Len(q) : Append(q, x)[i] = q[i]
           /\ Append(q, x)[Len(q) + 1] = x
    OBVIOUS

(* What reading a frame leaves. *)
LEMMA TailFacts ==
    ASSUME NEW S, NEW q \in Seq(S), q # <<>>
    PROVE  /\ Head(q) \in S
           /\ Head(q) = q[1]
           /\ Tail(q) \in Seq(S)
           /\ Len(Tail(q)) = Len(q) - 1
           /\ \A i \in 1 .. Len(Tail(q)) : Tail(q)[i] = q[i + 1]
           /\ 1 \in 1 .. Len(q)
    OBVIOUS

(* A frame of a queue is a frame. *)
LEMMA ElementFacts ==
    ASSUME NEW S, NEW q \in Seq(S), NEW i \in 1 .. Len(q)
    PROVE  q[i] \in S
    OBVIOUS

-----------------------------------------------------------------------------
(* Types *)

(* Every step keeps the variables in their types. *)
LEMMA TypeStep == TypeOK /\ [Next]_vars => TypeOK'
<1> SUFFICES ASSUME TypeOK, [Next]_vars PROVE TypeOK'
    OBVIOUS
<1> USE DEF TypeOK, sessionVars, callVars
<1>1. ASSUME NEW o \in Opens, NEW h \in Hosts, OpenSpawn(o, h) PROVE TypeOK'
    BY <1>1 DEF OpenSpawn
<1>2. ASSUME NEW o \in Opens, OpenInsert(o) PROVE TypeOK'
  <2>1. Stale(o) \subseteq Opens
    BY DEF Stale
  <2>2. {End("open", o, s, "swap") : s \in Stale(o)} \subseteq Activation
    BY <2>1 DEF End, Activation
  <2> QED
    BY <1>2, <2>1, <2>2 DEF OpenInsert
<1>3. ASSUME NEW o \in Opens, OpenReturn(o) PROVE TypeOK'
    BY <1>3 DEF OpenReturn
<1>4. ASSUME NEW e \in ends, TerminateSwap(e) PROVE TypeOK'
  <2>1. e.of \in Opens /\ End(e.role, e.who, e.of, "kill") \in Activation
    BY DEF End, Activation
  <2> QED
    BY <1>4, <2>1 DEF TerminateSwap
<1>5. ASSUME NEW e \in ends, TerminateKill(e) PROVE TypeOK'
  <2>1. e.of \in Opens
    BY DEF Activation
  <2> QED
    BY <1>5, <2>1 DEF TerminateKill
<1>6. ASSUME NEW c \in Calls, NEW s \in Opens, CallFetch(c, s) PROVE TypeOK'
  <2>1. nextReq[s] + 1 \in Nat
    OBVIOUS
  <2>2. nextReq' \in [Opens -> Nat]
    BY <1>6, <2>1 DEF CallFetch
  <2>3. req' \in [Calls -> Nat]
    BY <1>6, <2>2 DEF CallFetch
  <2> QED
    BY <1>6, <2>1, <2>2, <2>3 DEF CallFetch
<1>7. ASSUME NEW c \in Calls, NEW s \in Opens, CallUnknown(c, s) PROVE TypeOK'
  <2>1. result' \in [Calls -> Outcome]
    BY <1>7 DEF CallUnknown, CallFinish, Outcome, Verdict
  <2> QED
    BY <1>7, <2>1 DEF CallUnknown, CallFinish
<1>8. ASSUME NEW c \in Calls, CallRefuse(c) PROVE TypeOK'
  <2>1. result' \in [Calls -> Outcome]
    BY <1>8 DEF CallRefuse, CallFinish, Outcome, Verdict
  <2> QED
    BY <1>8, <2>1 DEF CallRefuse, CallFinish
<1>9. ASSUME NEW c \in Calls, CallRegister(c) PROVE TypeOK'
    BY <1>9 DEF CallRegister
<1>10. ASSUME NEW c \in Calls, CallLock(c) PROVE TypeOK'
    BY <1>10 DEF CallLock
<1>11. ASSUME NEW c \in Calls, CallWrite(c) PROVE TypeOK'
  <2>1. inq' \in [Opens -> Seq(Frame)]
    <3>1. CASE UNCHANGED inq
      BY <3>1
    <3>2. CASE stdin[target[c]] = "pipe" /\ inq' = [inq EXCEPT ![target[c]] =
                    Append(@, [req |-> req[c], call |-> c])]
      <4> DEFINE f == [req |-> req[c], call |-> c]
      <4>1. f \in Frame
        BY DEF Frame
      <4>2. \A o \in Opens : Append(inq[o], f) \in Seq(Frame)
        BY <4>1, AppendFacts
      <4> QED
        BY <3>2, <4>2
    <3> QED
      BY <1>11, <3>1, <3>2 DEF CallWrite
  <2> QED
    BY <1>11, <2>1 DEF CallWrite
<1>12. ASSUME NEW c \in Calls, CallWriteFails(c) PROVE TypeOK'
  <2>1. result' \in [Calls -> Outcome]
    BY <1>12 DEF CallWriteFails, CallFinish, Outcome, Verdict
  <2>2. pending' \in [Opens -> SUBSET Calls]
    BY <1>12 DEF CallWriteFails
  <2>3. holder' \in [Opens -> Calls \cup {None}]
    BY <1>12 DEF CallWriteFails
  <2> QED
    BY <1>12, <2>1, <2>2, <2>3 DEF CallWriteFails, CallFinish
<1>13. ASSUME NEW c \in Calls, CallReceive(c) PROVE TypeOK'
    BY <1>13 DEF CallReceive, CallFinish
<1>14. ASSUME NEW c \in Calls, CallTimeout(c) PROVE TypeOK'
  <2>1. result' \in [Calls -> Outcome]
    BY <1>14 DEF CallTimeout, CallFinish, Outcome, Verdict
  <2> QED
    BY <1>14, <2>1 DEF CallTimeout, CallFinish
<1>15. ASSUME NEW k \in Closes, NEW s \in Opens, Close(k, s) PROVE TypeOK'
  <2>1. End("close", k, s, "swap") \in Activation
    BY DEF End, Activation
  <2> QED
    BY <1>15, <2>1 DEF Close
<1>16. ASSUME NEW k \in Closes, CloseReturn(k) PROVE TypeOK'
    BY <1>16 DEF CloseReturn
<1>17. ASSUME NEW s \in Opens, PumpReply(s) PROVE TypeOK'
  <2>1. Head(outq[s]) \in OutFrame /\ Tail(outq[s]) \in Seq(OutFrame)
    BY <1>17, TailFacts DEF PumpReply
  <2>2. Answer(Head(outq[s]).call) \in Outcome
    BY <2>1 DEF Answer, Outcome, OutFrame
  <2>3. pending' \in [Opens -> SUBSET Calls] /\ result' \in [Calls -> Outcome]
    <3>1. CASE UNCHANGED <<pending, result>>
      BY <3>1
    <3>2. ASSUME NEW c \in Waiters(s, Head(outq[s]).req),
                 pending' = [pending EXCEPT ![s] = @ \ {c}],
                 result' = [result EXCEPT ![c] = Answer(Head(outq[s]).call)]
          PROVE  pending' \in [Opens -> SUBSET Calls] /\ result' \in [Calls -> Outcome]
      BY <2>2, <3>2 DEF Waiters
    <3> QED
      BY <1>17, <3>1, <3>2 DEF PumpReply
  <2> QED
    BY <1>17, <2>1, <2>2, <2>3 DEF PumpReply
<1>18. ASSUME NEW s \in Opens, PumpPush(s) PROVE TypeOK'
  <2>1. Head(outq[s]) \in OutFrame /\ Tail(outq[s]) \in Seq(OutFrame)
    BY <1>18, TailFacts DEF PumpPush
  <2> QED
    BY <1>18, <2>1 DEF PumpPush
<1>19. ASSUME NEW s \in Opens, PumpDrain(s) PROVE TypeOK'
  <2>1. result' \in [Calls -> Outcome]
    BY <1>19 DEF PumpDrain, Verdict, Outcome
  <2> QED
    BY <1>19, <2>1 DEF PumpDrain
<1>20. ASSUME NEW s \in Opens, PumpReap(s) PROVE TypeOK'
  <2>1. End("pump", s, s, "swap") \in Activation
    BY DEF End, Activation
  <2> QED
    BY <1>20, <2>1 DEF PumpReap
<1>21. ASSUME NEW s \in Opens, PumpReturn(s) PROVE TypeOK'
    BY <1>21 DEF PumpReturn
<1>22. ASSUME NEW s \in Opens, RemoteAnswer(s) PROVE TypeOK'
  <2>1. Head(inq[s]) \in Frame /\ Tail(inq[s]) \in Seq(Frame)
    BY <1>22, TailFacts DEF RemoteAnswer
  <2>2. Reply(Head(inq[s])) \in OutFrame
    BY <2>1 DEF Reply, Frame, OutFrame
  <2>3. Append(outq[s], Reply(Head(inq[s]))) \in Seq(OutFrame)
    BY <2>2, AppendFacts
  <2> QED
    BY <1>22, <2>1, <2>2, <2>3 DEF RemoteAnswer
<1>23. ASSUME NEW s \in Opens, RemotePush(s) PROVE TypeOK'
  <2>1. Append(outq[s], Push) \in Seq(OutFrame)
    BY AppendFacts DEF Push, OutFrame
  <2> QED
    BY <1>23, <2>1 DEF RemotePush
<1>24. ASSUME NEW s \in Opens, RemoteDies(s) PROVE TypeOK'
    BY <1>24 DEF RemoteDies
<1>25. ASSUME NEW s \in Opens, WebviewGoes(s) PROVE TypeOK'
    BY <1>25 DEF WebviewGoes
<1>26. CASE UNCHANGED vars
    BY <1>26 DEF vars, sessionVars, callVars
<1> QED
    BY <1>1, <1>2, <1>3, <1>4, <1>5, <1>6, <1>7, <1>8, <1>9, <1>10, <1>11, <1>12, <1>13, <1>14, <1>15, <1>16, <1>17, <1>18, <1>19, <1>20, <1>21, <1>22, <1>23, <1>24, <1>25, <1>26
    DEF Next, OpenNext, TerminateNext, CallNext, CloseNext, PumpNext, RemoteNext

-----------------------------------------------------------------------------
(* The table and the threads that end sessions *)

(* What the table, the pumps and terminate refer to has been inserted. *)
LEMMA AdoptedStep ==
    TypeOK /\ SessionsAreAdopted /\ [Next]_vars => SessionsAreAdopted'
<1> SUFFICES ASSUME TypeOK, SessionsAreAdopted, [Next]_vars
             PROVE  SessionsAreAdopted'
    OBVIOUS
<1> USE DEF SessionsAreAdopted, TypeOK, Activation, End, Stale, sessionVars, callVars
<1>1. ASSUME NEW o \in Opens, NEW h \in Hosts, OpenSpawn(o, h)
      PROVE  SessionsAreAdopted'
    BY <1>1 DEF OpenSpawn
<1>2. ASSUME NEW o \in Opens, OpenInsert(o)
      PROVE  SessionsAreAdopted'
    BY <1>2 DEF OpenInsert
<1>3. ASSUME NEW o \in Opens, OpenReturn(o)
      PROVE  SessionsAreAdopted'
    BY <1>3 DEF OpenReturn
<1>4. ASSUME NEW e \in ends, TerminateSwap(e)
      PROVE  SessionsAreAdopted'
    BY <1>4 DEF TerminateSwap
<1>5. ASSUME NEW e \in ends, TerminateKill(e)
      PROVE  SessionsAreAdopted'
    BY <1>5 DEF TerminateKill
<1>6. ASSUME NEW k \in Closes, NEW s \in Opens, Close(k, s)
      PROVE  SessionsAreAdopted'
    BY <1>6 DEF Close
<1>7. ASSUME NEW s \in Opens, PumpDrain(s)
      PROVE  SessionsAreAdopted'
    BY <1>7 DEF PumpDrain
<1>8. ASSUME NEW s \in Opens, PumpReap(s)
      PROVE  SessionsAreAdopted'
    BY <1>8 DEF PumpReap
<1>9. ASSUME NEW s \in Opens, PumpReturn(s)
      PROVE  SessionsAreAdopted'
    BY <1>9 DEF PumpReturn
<1>10. CASE UNCHANGED <<opener, table, ends, pump>>
    BY <1>10
<1> QED
    BY <1>1, <1>2, <1>3, <1>4, <1>5, <1>6, <1>7, <1>8, <1>9, <1>10
    DEF Next, OpenNext, TerminateNext, CallNext, CloseNext, PumpNext,
           RemoteNext, vars, sessionVars, callVars, CallFetch,
           CallUnknown, CallRefuse, CallRegister, CallLock,
           CallWrite, CallWriteFails, CallReceive, CallTimeout,
           CloseReturn, PumpReply, PumpPush, RemoteAnswer,
           RemotePush, RemoteDies, WebviewGoes, CallFinish

(* The stale sessions leave the table in the step that inserts the new one. *)
LEMMA OnePerHostStep ==
    TypeOK /\ SessionsAreAdopted /\ OneSessionPerHost /\ [Next]_vars => OneSessionPerHost'
<1> SUFFICES ASSUME TypeOK, SessionsAreAdopted, OneSessionPerHost, [Next]_vars
             PROVE  OneSessionPerHost'
    OBVIOUS
<1> USE DEF OneSessionPerHost, TypeOK, SessionsAreAdopted, Stale, sessionVars, callVars
<1>1. ASSUME NEW o \in Opens, NEW h \in Hosts, OpenSpawn(o, h)
      PROVE  OneSessionPerHost'
  <2> SUFFICES ASSUME NEW t \in table', NEW u \in table', hostOf'[t] = hostOf'[u]
               PROVE  t = u
    OBVIOUS
  <2> QED
    BY <1>1 DEF OpenSpawn
<1>2. ASSUME NEW o \in Opens, OpenInsert(o)
      PROVE  OneSessionPerHost'
    BY <1>2 DEF OpenInsert
<1>3. ASSUME NEW k \in Closes, NEW s \in Opens, Close(k, s)
      PROVE  OneSessionPerHost'
    BY <1>3 DEF Close
<1>4. ASSUME NEW s \in Opens, PumpReap(s)
      PROVE  OneSessionPerHost'
    BY <1>4 DEF PumpReap
<1>5. CASE UNCHANGED <<table, hostOf>>
    BY <1>5
<1> QED
    BY <1>1, <1>2, <1>3, <1>4, <1>5
    DEF Next, OpenNext, TerminateNext, CallNext, CloseNext, PumpNext,
           RemoteNext, vars, sessionVars, callVars, OpenReturn,
           TerminateSwap, TerminateKill, CallFetch, CallUnknown,
           CallRefuse, CallRegister, CallLock, CallWrite,
           CallWriteFails, CallReceive, CallTimeout, CloseReturn,
           PumpReply, PumpPush, PumpDrain, PumpReturn,
           RemoteAnswer, RemotePush, RemoteDies, WebviewGoes,
           CallFinish

(* Whoever takes a session out of the table starts its terminate. *)
LEMMA OrphanStep ==
    TypeOK /\ SessionsAreAdopted /\ NoOrphanedChild /\ [Next]_vars => NoOrphanedChild'
<1> SUFFICES ASSUME TypeOK, SessionsAreAdopted, NoOrphanedChild, [Next]_vars
             PROVE  NoOrphanedChild'
    OBVIOUS
<1> USE DEF NoOrphanedChild, TypeOK, SessionsAreAdopted, sessionVars, callVars
<1>1. ASSUME NEW o \in Opens, NEW h \in Hosts, OpenSpawn(o, h)
      PROVE  NoOrphanedChild'
    BY <1>1 DEF OpenSpawn
<1>2. ASSUME NEW o \in Opens, OpenInsert(o)
      PROVE  NoOrphanedChild'
  <2> SUFFICES ASSUME NEW t \in Opens, child'[t] = "alive", t \notin table',
                      opener'[t] # "spawned"
               PROVE  \E a \in ends' : a.of = t
    OBVIOUS
  <2>1. CASE t \in Stale(o)
    <3>1. End("open", o, t, "swap") \in ends'
      BY <1>2, <2>1 DEF OpenInsert
    <3>2. End("open", o, t, "swap").of = t
      BY <2>1 DEF End
    <3> QED
      BY <3>1, <3>2
  <2>2. CASE ~(t \in Stale(o))
    <3>1. opener[t] # "spawned" /\ child[t] = "alive" /\ t \notin table
      BY <1>2, <2>2 DEF OpenInsert, Stale
    <3>2. PICK a \in ends : a.of = t
      BY <3>1
    <3> QED
      BY <1>2, <3>2 DEF OpenInsert
  <2> QED
    BY <2>1, <2>2
<1>3. ASSUME NEW o \in Opens, OpenReturn(o)
      PROVE  NoOrphanedChild'
    BY <1>3 DEF OpenReturn
<1>4. ASSUME NEW e \in ends, TerminateSwap(e)
      PROVE  NoOrphanedChild'
  <2> SUFFICES ASSUME NEW t \in Opens, child'[t] = "alive", t \notin table',
                      opener'[t] # "spawned"
               PROVE  \E a \in ends' : a.of = t
    OBVIOUS
  <2>1. PICK a \in ends : a.of = t
    BY <1>4 DEF TerminateSwap
  <2>2. CASE a = e
    <3>1. End(e.role, e.who, e.of, "kill") \in ends'
      BY <1>4 DEF TerminateSwap
    <3>2. End(e.role, e.who, e.of, "kill").of = t
      BY <2>1, <2>2 DEF End
    <3> QED
      BY <3>1, <3>2
  <2>3. CASE a # e
    BY <1>4, <2>1, <2>3 DEF TerminateSwap
  <2> QED
    BY <2>2, <2>3
<1>5. ASSUME NEW e \in ends, TerminateKill(e)
      PROVE  NoOrphanedChild'
  <2> SUFFICES ASSUME NEW t \in Opens, child'[t] = "alive", t \notin table',
                      opener'[t] # "spawned"
               PROVE  \E a \in ends' : a.of = t
    OBVIOUS
  <2>1. t # e.of /\ child[t] = "alive"
    BY <1>5 DEF TerminateKill
  <2>2. PICK a \in ends : a.of = t
    BY <1>5, <2>1 DEF TerminateKill
  <2> QED
    BY <1>5, <2>1, <2>2 DEF TerminateKill
<1>6. ASSUME NEW k \in Closes, NEW s \in Opens, Close(k, s)
      PROVE  NoOrphanedChild'
  <2> SUFFICES ASSUME NEW t \in Opens, child'[t] = "alive", t \notin table',
                      opener'[t] # "spawned"
               PROVE  \E a \in ends' : a.of = t
    OBVIOUS
  <2>1. CASE t = s /\ s \in table
    <3>1. End("close", k, s, "swap") \in ends'
      BY <1>6, <2>1 DEF Close
    <3>2. End("close", k, s, "swap").of = t
      BY <2>1 DEF End
    <3> QED
      BY <3>1, <3>2
  <2>2. CASE ~(t = s /\ s \in table)
    <3>1. opener[t] # "spawned" /\ child[t] = "alive" /\ t \notin table
      BY <1>6, <2>2 DEF Close, Stale
    <3>2. PICK a \in ends : a.of = t
      BY <3>1
    <3> QED
      BY <1>6, <3>2 DEF Close
  <2> QED
    BY <2>1, <2>2
<1>7. ASSUME NEW s \in Opens, PumpReap(s)
      PROVE  NoOrphanedChild'
  <2> SUFFICES ASSUME NEW t \in Opens, child'[t] = "alive", t \notin table',
                      opener'[t] # "spawned"
               PROVE  \E a \in ends' : a.of = t
    OBVIOUS
  <2>1. CASE t = s
    <3>1. End("pump", s, s, "swap") \in ends'
      BY <1>7, <2>1 DEF PumpReap
    <3>2. End("pump", s, s, "swap").of = t
      BY <2>1 DEF End
    <3> QED
      BY <3>1, <3>2
  <2>2. CASE ~(t = s)
    <3>1. opener[t] # "spawned" /\ child[t] = "alive" /\ t \notin table
      BY <1>7, <2>2 DEF PumpReap, Stale
    <3>2. PICK a \in ends : a.of = t
      BY <3>1
    <3> QED
      BY <1>7, <3>2 DEF PumpReap
  <2> QED
    BY <2>1, <2>2
<1>8. ASSUME NEW s \in Opens, RemoteDies(s)
      PROVE  NoOrphanedChild'
    BY <1>8 DEF RemoteDies
<1>9. CASE UNCHANGED <<table, opener, ends, child>>
    BY <1>9
<1> QED
    BY <1>1, <1>2, <1>3, <1>4, <1>5, <1>6, <1>7, <1>8, <1>9
    DEF Next, OpenNext, TerminateNext, CallNext, CloseNext, PumpNext,
           RemoteNext, vars, sessionVars, callVars, CallFetch,
           CallUnknown, CallRefuse, CallRegister, CallLock,
           CallWrite, CallWriteFails, CallReceive, CallTimeout,
           CloseReturn, PumpReply, PumpPush, PumpDrain,
           PumpReturn, RemoteAnswer, RemotePush, WebviewGoes,
           CallFinish

(* Terminate is started on what has left the table and never returns to it. *)
LEMMA UnreachableStep ==
    TypeOK /\ SessionsAreAdopted /\ TerminatedIsUnreachable /\ [Next]_vars => TerminatedIsUnreachable'
<1> SUFFICES ASSUME TypeOK, SessionsAreAdopted, TerminatedIsUnreachable, [Next]_vars
             PROVE  TerminatedIsUnreachable'
    OBVIOUS
<1> USE DEF TerminatedIsUnreachable, TypeOK, SessionsAreAdopted, End, Activation, sessionVars, callVars
<1>1. ASSUME NEW o \in Opens, OpenInsert(o)
      PROVE  TerminatedIsUnreachable'
  <2> SUFFICES ASSUME NEW a \in ends'
               PROVE  a.of \notin table'
    OBVIOUS
  <2>1. o \notin table
    BY <1>1 DEF OpenInsert
  <2>2. CASE a \in ends
    BY <1>1, <2>2 DEF OpenInsert
  <2>3. ASSUME NEW s \in Stale(o), a = End("open", o, s, "swap")
        PROVE  a.of \notin table'
    BY <1>1, <2>1, <2>3 DEF OpenInsert, Stale
  <2> QED
    BY <1>1, <2>2, <2>3 DEF OpenInsert
<1>2. ASSUME NEW e \in ends, TerminateSwap(e)
      PROVE  TerminatedIsUnreachable'
    BY <1>2 DEF TerminateSwap
<1>3. ASSUME NEW e \in ends, TerminateKill(e)
      PROVE  TerminatedIsUnreachable'
    BY <1>3 DEF TerminateKill
<1>4. ASSUME NEW k \in Closes, NEW s \in Opens, Close(k, s)
      PROVE  TerminatedIsUnreachable'
    BY <1>4 DEF Close
<1>5. ASSUME NEW s \in Opens, PumpReap(s)
      PROVE  TerminatedIsUnreachable'
    BY <1>5 DEF PumpReap
<1>6. CASE UNCHANGED <<table, ends>>
    BY <1>6
<1> QED
    BY <1>1, <1>2, <1>3, <1>4, <1>5, <1>6
    DEF Next, OpenNext, TerminateNext, CallNext, CloseNext, PumpNext,
           RemoteNext, vars, sessionVars, callVars, OpenSpawn,
           OpenReturn, CallFetch, CallUnknown, CallRefuse,
           CallRegister, CallLock, CallWrite, CallWriteFails,
           CallReceive, CallTimeout, CloseReturn, PumpReply,
           PumpPush, PumpDrain, PumpReturn, RemoteAnswer,
           RemotePush, RemoteDies, WebviewGoes, CallFinish

-----------------------------------------------------------------------------
(* Calls, request ids and the frames on the wire *)

(* A call keeps the session it fetched, and has no verdict before it registers. *)
LEMMA TargetsStep ==
    TypeOK /\ SessionsAreAdopted /\ NoLeakedWaiter /\ CallsHaveTargets /\ [Next]_vars => CallsHaveTargets'
<1> SUFFICES ASSUME TypeOK, SessionsAreAdopted, NoLeakedWaiter, CallsHaveTargets, [Next]_vars
             PROVE  CallsHaveTargets'
    OBVIOUS
<1> USE DEF CallsHaveTargets, TypeOK, NoLeakedWaiter, sessionVars, callVars
<1>1. ASSUME NEW o \in Opens, NEW h \in Hosts, OpenSpawn(o, h)
      PROVE  CallsHaveTargets'
  <2>1. \A d \in Calls : target[d] # None => target[d] \in Opens /\ target[d] # o
    BY <1>1 DEF OpenSpawn
  <2> QED
    BY <1>1, <2>1 DEF OpenSpawn
<1>2. ASSUME NEW o \in Opens, OpenInsert(o)
      PROVE  CallsHaveTargets'
  <2>1. \A d \in Calls : target[d] # None => target[d] \in Opens /\ target[d] # o
    BY <1>2 DEF OpenInsert
  <2> QED
    BY <1>2, <2>1 DEF OpenInsert
<1>3. ASSUME NEW o \in Opens, OpenReturn(o)
      PROVE  CallsHaveTargets'
  <2>1. \A d \in Calls : target[d] # None => target[d] \in Opens
    OBVIOUS
  <2> QED
    BY <1>3, <2>1 DEF OpenReturn
<1>4. ASSUME NEW c \in Calls, NEW s \in Opens, CallFetch(c, s)
      PROVE  CallsHaveTargets'
    BY <1>4 DEF CallFetch
<1>5. ASSUME NEW c \in Calls, NEW s \in Opens, CallUnknown(c, s)
      PROVE  CallsHaveTargets'
    BY <1>5 DEF CallUnknown, CallFinish
<1>6. ASSUME NEW c \in Calls, CallRefuse(c)
      PROVE  CallsHaveTargets'
    BY <1>6 DEF CallRefuse, CallFinish
<1>7. ASSUME NEW c \in Calls, CallRegister(c)
      PROVE  CallsHaveTargets'
    BY <1>7 DEF CallRegister
<1>8. ASSUME NEW c \in Calls, CallLock(c)
      PROVE  CallsHaveTargets'
    BY <1>8 DEF CallLock
<1>9. ASSUME NEW c \in Calls, CallWrite(c)
      PROVE  CallsHaveTargets'
    BY <1>9 DEF CallWrite
<1>10. ASSUME NEW c \in Calls, CallWriteFails(c)
      PROVE  CallsHaveTargets'
    BY <1>10 DEF CallWriteFails, CallFinish
<1>11. ASSUME NEW c \in Calls, CallReceive(c)
      PROVE  CallsHaveTargets'
    BY <1>11 DEF CallReceive, CallFinish
<1>12. ASSUME NEW c \in Calls, CallTimeout(c)
      PROVE  CallsHaveTargets'
    BY <1>12 DEF CallTimeout, CallFinish
<1>13. ASSUME NEW s \in Opens, PumpReply(s)
      PROVE  CallsHaveTargets'
  <2>1. CASE UNCHANGED result
    BY <1>13, <2>1 DEF PumpReply
  <2>2. ASSUME NEW c \in Waiters(s, Head(outq[s]).req),
               result' = [result EXCEPT ![c] = Answer(Head(outq[s]).call)]
        PROVE  CallsHaveTargets'
    BY <1>13, <2>2 DEF PumpReply, Waiters
  <2> QED
    BY <1>13, <2>1, <2>2 DEF PumpReply
<1>14. ASSUME NEW s \in Opens, PumpDrain(s)
      PROVE  CallsHaveTargets'
    BY <1>14 DEF PumpDrain
<1>15. CASE UNCHANGED <<call, target, result, opener>>
    BY <1>15
<1> QED
    BY <1>1, <1>2, <1>3, <1>4, <1>5, <1>6, <1>7, <1>8, <1>9, <1>10, <1>11, <1>12, <1>13, <1>14, <1>15
    DEF Next, OpenNext, TerminateNext, CallNext, CloseNext, PumpNext,
           RemoteNext, vars, sessionVars, callVars, TerminateSwap,
           TerminateKill, Close, CloseReturn, PumpPush, PumpReap,
           PumpReturn, RemoteAnswer, RemotePush, RemoteDies,
           WebviewGoes

(* fetch_add gives a call a request id above all earlier ones of the session. *)
LEMMA RequestIdsStep ==
    TypeOK /\ CallsHaveTargets /\ RequestIdsAreUnique /\ [Next]_vars => RequestIdsAreUnique'
<1> SUFFICES ASSUME TypeOK, CallsHaveTargets, RequestIdsAreUnique, [Next]_vars
             PROVE  RequestIdsAreUnique'
    OBVIOUS
<1> USE DEF RequestIdsAreUnique, TypeOK, CallsHaveTargets, sessionVars, callVars
<1>1. ASSUME NEW c \in Calls, NEW s \in Opens, CallFetch(c, s)
      PROVE  RequestIdsAreUnique'
    BY <1>1 DEF CallFetch
<1>2. CASE UNCHANGED <<target, req, nextReq>>
    BY <1>2
<1> QED
    BY <1>1, <1>2
    DEF Next, OpenNext, TerminateNext, CallNext, CloseNext, PumpNext,
           RemoteNext, vars, sessionVars, callVars, OpenSpawn,
           OpenInsert, OpenReturn, TerminateSwap, TerminateKill,
           CallUnknown, CallRefuse, CallRegister, CallLock,
           CallWrite, CallWriteFails, CallReceive, CallTimeout,
           Close, CloseReturn, PumpReply, PumpPush, PumpDrain,
           PumpReap, PumpReturn, RemoteAnswer, RemotePush,
           RemoteDies, WebviewGoes, CallFinish

(* The write puts the caller's id on the frame; queues and remote keep it. *)
LEMMA FramesStep ==
    TypeOK /\ CallsHaveTargets /\ FramesBelong /\ [Next]_vars => FramesBelong'
<1> SUFFICES ASSUME TypeOK, CallsHaveTargets, FramesBelong, [Next]_vars
             PROVE  FramesBelong'
    OBVIOUS
<1> USE DEF FramesBelong, TypeOK, CallsHaveTargets, InFramesBelong, OutFramesBelong, sessionVars, callVars
<1>1. ASSUME NEW c \in Calls, NEW s \in Opens, CallFetch(c, s)
      PROVE  FramesBelong'
  <2> SUFFICES ASSUME NEW t \in Opens
               PROVE  /\ InFramesBelong(t)'
                      /\ OutFramesBelong(t)'
    OBVIOUS
  <2> target[c] # t
    BY <1>1, ConstantsAssumption DEF CallFetch
  <2>1. \A i \in 1 .. Len(inq[t]) :
           inq[t][i].call # c /\ inq[t][i].call \in Calls
    <3>1. \A i \in 1 .. Len(inq[t]) : inq[t][i] \in Frame
      BY ElementFacts
    <3> QED
      BY <3>1 DEF Frame
  <2>2. \A i \in 1 .. Len(outq[t]) :
           outq[t][i].kind = "reply" => outq[t][i].call # c
    OBVIOUS
  <2>3. InFramesBelong(t)'
    BY <1>1, <2>1 DEF CallFetch, InFramesBelong
  <2>4. OutFramesBelong(t)'
    BY <1>1, <2>2 DEF CallFetch, OutFramesBelong
  <2> QED
    BY <2>3, <2>4
<1>2. ASSUME NEW c \in Calls, CallWrite(c)
      PROVE  FramesBelong'
  <2> SUFFICES ASSUME NEW t \in Opens
               PROVE  /\ InFramesBelong(t)'
                      /\ OutFramesBelong(t)'
    OBVIOUS
  <2>1. OutFramesBelong(t)'
    BY <1>2 DEF CallWrite, OutFramesBelong
  <2>2. CASE UNCHANGED inq
    BY <1>2, <2>1, <2>2 DEF CallWrite, InFramesBelong
  <2>3. CASE inq' = [inq EXCEPT ![target[c]] =
                        Append(@, [req |-> req[c], call |-> c])]
    <3> DEFINE f == [req |-> req[c], call |-> c]
    <3>1. f \in Frame /\ f.call = c /\ f.req = req[c] /\ target[c] \in Opens
      BY <1>2 DEF Frame, CallWrite
    <3>2. CASE t = target[c]
      <4>1. inq'[t] = Append(inq[t], f) /\ inq[t] \in Seq(Frame)
        BY <2>3, <3>2
      <4>2. \A i \in 1 .. Len(inq'[t]) :
               inq'[t][i] = IF i = Len(inq[t]) + 1 THEN f ELSE inq[t][i]
        BY <3>1, <4>1, AppendFacts
      <4>3. Len(inq'[t]) = Len(inq[t]) + 1 /\ Len(inq[t]) \in Nat
        BY <3>1, <4>1, AppendFacts
      <4>4. UNCHANGED <<target, req>>
        BY <1>2 DEF CallWrite
      <4> HIDE DEF f
      <4>5. InFramesBelong(t)'
        BY <3>1, <3>2, <4>2, <4>3, <4>4
      <4> QED
        BY <2>1, <4>5
    <3>3. CASE t # target[c]
      BY <1>2, <2>1, <2>3, <3>3 DEF CallWrite, InFramesBelong
    <3> QED
      BY <3>2, <3>3
  <2> QED
    BY <1>2, <2>2, <2>3 DEF CallWrite
<1>3. ASSUME NEW s \in Opens, PumpReply(s)
      PROVE  FramesBelong'
  <2> SUFFICES ASSUME NEW t \in Opens
               PROVE  /\ InFramesBelong(t)'
                      /\ OutFramesBelong(t)'
    OBVIOUS
  <2>1. InFramesBelong(t)'
    BY <1>3 DEF PumpReply, InFramesBelong
  <2>2. CASE t = s
    <3>1. outq'[t] = Tail(outq[t]) /\ outq[t] # <<>> /\ outq[t] \in Seq(OutFrame)
      BY <1>3, <2>2 DEF PumpReply
    <3>2. Len(outq'[t]) = Len(outq[t]) - 1 /\ Len(outq[t]) \in Nat
      BY <3>1, TailFacts
    <3>3. \A i \in 1 .. Len(outq'[t]) : outq'[t][i] = outq[t][i + 1]
      BY <3>1, TailFacts
    <3>4. \A i \in 1 .. Len(outq'[t]) : i + 1 \in 1 .. Len(outq[t])
      BY <3>2
    <3>5. UNCHANGED <<target, req>>
      BY <1>3 DEF PumpReply
    <3>6. OutFramesBelong(t)'
      <4> SUFFICES ASSUME NEW i \in 1 .. Len(outq'[t]),
                          outq'[t][i].kind = "reply"
                   PROVE  /\ outq'[t][i].call \in Calls
                          /\ target'[outq'[t][i].call] = t
                          /\ req'[outq'[t][i].call] = outq'[t][i].req
        OBVIOUS
      <4>1. i + 1 \in 1 .. Len(outq[t]) /\ outq'[t][i] = outq[t][i + 1]
        BY <3>3, <3>4
      <4>2. \A k \in 1 .. Len(outq[t]) : outq[t][k].kind = "reply" =>
               /\ outq[t][k].call \in Calls
               /\ target[outq[t][k].call] = t
               /\ req[outq[t][k].call] = outq[t][k].req
        OBVIOUS
      <4> QED
        BY <3>5, <4>1, <4>2
    <3> QED
      BY <2>1, <3>6
  <2>3. CASE t # s
    BY <1>3, <2>1, <2>3 DEF PumpReply, OutFramesBelong
  <2> QED
    BY <2>2, <2>3
<1>4. ASSUME NEW s \in Opens, PumpPush(s)
      PROVE  FramesBelong'
  <2> SUFFICES ASSUME NEW t \in Opens
               PROVE  /\ InFramesBelong(t)'
                      /\ OutFramesBelong(t)'
    OBVIOUS
  <2>1. InFramesBelong(t)'
    BY <1>4 DEF PumpPush, InFramesBelong
  <2>2. CASE t = s
    <3>1. outq'[t] = Tail(outq[t]) /\ outq[t] # <<>> /\ outq[t] \in Seq(OutFrame)
      BY <1>4, <2>2 DEF PumpPush
    <3>2. Len(outq'[t]) = Len(outq[t]) - 1 /\ Len(outq[t]) \in Nat
      BY <3>1, TailFacts
    <3>3. \A i \in 1 .. Len(outq'[t]) : outq'[t][i] = outq[t][i + 1]
      BY <3>1, TailFacts
    <3>4. \A i \in 1 .. Len(outq'[t]) : i + 1 \in 1 .. Len(outq[t])
      BY <3>2
    <3>5. UNCHANGED <<target, req>>
      BY <1>4 DEF PumpPush
    <3>6. OutFramesBelong(t)'
      <4> SUFFICES ASSUME NEW i \in 1 .. Len(outq'[t]),
                          outq'[t][i].kind = "reply"
                   PROVE  /\ outq'[t][i].call \in Calls
                          /\ target'[outq'[t][i].call] = t
                          /\ req'[outq'[t][i].call] = outq'[t][i].req
        OBVIOUS
      <4>1. i + 1 \in 1 .. Len(outq[t]) /\ outq'[t][i] = outq[t][i + 1]
        BY <3>3, <3>4
      <4>2. \A k \in 1 .. Len(outq[t]) : outq[t][k].kind = "reply" =>
               /\ outq[t][k].call \in Calls
               /\ target[outq[t][k].call] = t
               /\ req[outq[t][k].call] = outq[t][k].req
        OBVIOUS
      <4> QED
        BY <3>5, <4>1, <4>2
    <3> QED
      BY <2>1, <3>6
  <2>3. CASE t # s
    BY <1>4, <2>1, <2>3 DEF PumpPush, OutFramesBelong
  <2> QED
    BY <2>2, <2>3
<1>5. ASSUME NEW s \in Opens, RemoteAnswer(s)
      PROVE  FramesBelong'
  <2> SUFFICES ASSUME NEW t \in Opens
               PROVE  /\ InFramesBelong(t)'
                      /\ OutFramesBelong(t)'
    OBVIOUS
  <2>1. CASE t = s
    <3> DEFINE f == Head(inq[s])
               r == Reply(f)
    <3>1. inq'[s] = Tail(inq[s]) /\ inq[s] # <<>> /\ inq[s] \in Seq(Frame)
      BY <1>5 DEF RemoteAnswer
    <3>2. outq'[s] = Append(outq[s], r) /\ outq[s] \in Seq(OutFrame)
      BY <1>5 DEF RemoteAnswer
    <3>3. f \in Frame /\ f = inq[s][1] /\ 1 \in 1 .. Len(inq[s])
      BY <3>1, TailFacts
    <3>4. target[f.call] = s /\ req[f.call] = f.req /\ f.call \in Calls
      BY <3>3 DEF InFramesBelong, Frame
    <3>5. r \in OutFrame /\ r.call = f.call /\ r.req = f.req
      BY <3>3 DEF Reply, OutFrame, Frame
    <3>6. Len(inq'[s]) = Len(inq[s]) - 1 /\ Len(inq[s]) \in Nat
      BY <3>1, TailFacts
    <3>7. \A i \in 1 .. Len(inq'[s]) :
             i + 1 \in 1 .. Len(inq[s]) /\ inq'[s][i] = inq[s][i + 1]
      BY <3>1, <3>6, TailFacts
    <3>8. InFramesBelong(s)'
      BY <1>5, <3>7 DEF RemoteAnswer, InFramesBelong
    <3>9. Len(outq'[s]) = Len(outq[s]) + 1 /\ Len(outq[s]) \in Nat
      BY <3>2, <3>5, AppendFacts
    <3>10. \A i \in 1 .. Len(outq'[s]) :
              outq'[s][i] = IF i = Len(outq[s]) + 1 THEN r ELSE outq[s][i]
      BY <3>2, <3>5, AppendFacts
    <3> HIDE DEF f, r
    <3>11. OutFramesBelong(s)'
      BY <1>5, <3>4, <3>5, <3>9, <3>10 DEF RemoteAnswer, OutFramesBelong
    <3> QED
      BY <2>1, <3>8, <3>11
  <2>2. CASE t # s
    BY <1>5, <2>2 DEF RemoteAnswer, InFramesBelong, OutFramesBelong
  <2> QED
    BY <2>1, <2>2
<1>6. ASSUME NEW s \in Opens, RemotePush(s)
      PROVE  FramesBelong'
  <2> SUFFICES ASSUME NEW t \in Opens
               PROVE  /\ InFramesBelong(t)'
                      /\ OutFramesBelong(t)'
    OBVIOUS
  <2>1. InFramesBelong(t)'
    BY <1>6 DEF RemotePush, InFramesBelong
  <2>2. CASE t = s
    <3>1. outq'[t] = Append(outq[t], Push) /\ outq[t] \in Seq(OutFrame)
      BY <1>6, <2>2 DEF RemotePush
    <3>2. Push \in OutFrame /\ Push.kind # "reply"
      BY DEF Push, OutFrame
    <3>3. Len(outq'[t]) = Len(outq[t]) + 1 /\ Len(outq[t]) \in Nat
      BY <3>1, <3>2, AppendFacts
    <3>4. \A i \in 1 .. Len(outq'[t]) :
             outq'[t][i] = IF i = Len(outq[t]) + 1 THEN Push ELSE outq[t][i]
      BY <3>1, <3>2, AppendFacts
    <3>5. OutFramesBelong(t)'
      BY <1>6, <3>2, <3>3, <3>4 DEF RemotePush, OutFramesBelong
    <3> QED
      BY <2>1, <3>5
  <2>3. CASE t # s
    BY <1>6, <2>1, <2>3 DEF RemotePush, OutFramesBelong
  <2> QED
    BY <2>2, <2>3
<1>7. CASE UNCHANGED <<inq, outq, target, req>>
    BY <1>7
<1> QED
    BY <1>1, <1>2, <1>3, <1>4, <1>5, <1>6, <1>7
    DEF Next, OpenNext, TerminateNext, CallNext, CloseNext, PumpNext,
           RemoteNext, vars, sessionVars, callVars, OpenSpawn,
           OpenInsert, OpenReturn, TerminateSwap, TerminateKill,
           CallUnknown, CallRefuse, CallRegister, CallLock,
           CallWriteFails, CallReceive, CallTimeout, Close,
           CloseReturn, PumpDrain, PumpReap, PumpReturn,
           RemoteDies, WebviewGoes, CallFinish

(* Every way out of a call takes its waiter out of the pending map. *)
LEMMA WaitersStep ==
    TypeOK /\ CallsHaveTargets /\ AnsweredOnce /\ NoLeakedWaiter /\ [Next]_vars => NoLeakedWaiter'
<1> SUFFICES ASSUME TypeOK, CallsHaveTargets, AnsweredOnce, NoLeakedWaiter, [Next]_vars
             PROVE  NoLeakedWaiter'
    OBVIOUS
<1> USE DEF NoLeakedWaiter, TypeOK, CallsHaveTargets, AnsweredOnce, sessionVars, callVars
<1>1. ASSUME NEW c \in Calls, NEW s \in Opens, CallFetch(c, s)
      PROVE  NoLeakedWaiter'
    BY <1>1 DEF CallFetch
<1>2. ASSUME NEW c \in Calls, NEW s \in Opens, CallUnknown(c, s)
      PROVE  NoLeakedWaiter'
  <2> SUFFICES ASSUME NEW d \in Calls, NEW t \in Opens, d \in pending'[t]
               PROVE  /\ target'[d] = t
                      /\ call'[d] \in {"registered", "writing", "waiting"}
    OBVIOUS
  <2>1. d \in pending[t]
    BY <1>2 DEF CallUnknown
  <2>2. d # c
    BY <1>2, <2>1 DEF CallUnknown
  <2> QED
    BY <1>2, <2>1, <2>2 DEF CallUnknown, CallFinish
<1>3. ASSUME NEW c \in Calls, CallRefuse(c)
      PROVE  NoLeakedWaiter'
  <2> SUFFICES ASSUME NEW d \in Calls, NEW t \in Opens, d \in pending'[t]
               PROVE  /\ target'[d] = t
                      /\ call'[d] \in {"registered", "writing", "waiting"}
    OBVIOUS
  <2>1. d \in pending[t]
    BY <1>3 DEF CallRefuse
  <2>2. d # c
    BY <1>3, <2>1 DEF CallRefuse
  <2> QED
    BY <1>3, <2>1, <2>2 DEF CallRefuse, CallFinish
<1>4. ASSUME NEW c \in Calls, CallRegister(c)
      PROVE  NoLeakedWaiter'
    BY <1>4 DEF CallRegister
<1>5. ASSUME NEW c \in Calls, CallLock(c)
      PROVE  NoLeakedWaiter'
    BY <1>5 DEF CallLock
<1>6. ASSUME NEW c \in Calls, CallWrite(c)
      PROVE  NoLeakedWaiter'
    BY <1>6 DEF CallWrite
<1>7. ASSUME NEW c \in Calls, CallWriteFails(c)
      PROVE  NoLeakedWaiter'
    BY <1>7 DEF CallWriteFails, CallFinish
<1>8. ASSUME NEW c \in Calls, CallReceive(c)
      PROVE  NoLeakedWaiter'
  <2> SUFFICES ASSUME NEW d \in Calls, NEW t \in Opens, d \in pending'[t]
               PROVE  /\ target'[d] = t
                      /\ call'[d] \in {"registered", "writing", "waiting"}
    OBVIOUS
  <2>1. d \in pending[t]
    BY <1>8 DEF CallReceive
  <2>2. d # c
    BY <1>8, <2>1 DEF CallReceive
  <2> QED
    BY <1>8, <2>1, <2>2 DEF CallReceive, CallFinish
<1>9. ASSUME NEW c \in Calls, CallTimeout(c)
      PROVE  NoLeakedWaiter'
    BY <1>9 DEF CallTimeout, CallFinish
<1>10. ASSUME NEW s \in Opens, PumpReply(s)
      PROVE  NoLeakedWaiter'
  <2> SUFFICES ASSUME NEW d \in Calls, NEW t \in Opens, d \in pending'[t]
               PROVE  /\ target'[d] = t
                      /\ call'[d] \in {"registered", "writing", "waiting"}
    OBVIOUS
  <2>1. CASE UNCHANGED <<pending, result>>
    BY <1>10, <2>1 DEF PumpReply
  <2>2. ASSUME NEW c \in Waiters(s, Head(outq[s]).req),
               pending' = [pending EXCEPT ![s] = @ \ {c}],
               result' = [result EXCEPT ![c] = Answer(Head(outq[s]).call)]
        PROVE  d \in pending[t] /\ result'[d] = result[d]
    <3>1. d \in pending[t] /\ c \in Calls /\ c \in pending[s]
      BY <2>2 DEF Waiters
    <3>2. d # c
      BY <2>2, <3>1
    <3> QED
      BY <2>2, <3>1, <3>2
  <2>3. UNCHANGED <<target, call>>
    BY <1>10 DEF PumpReply
  <2>4. d \in pending[t]
    <3>1. \/ UNCHANGED <<pending, result>>
          \/ \E c \in Waiters(s, Head(outq[s]).req) :
                /\ pending' = [pending EXCEPT ![s] = @ \ {c}]
                /\ result' = [result EXCEPT ![c] = Answer(Head(outq[s]).call)]
      BY <1>10 DEF PumpReply
    <3> QED
      BY <2>2, <3>1
  <2> QED
    BY <2>3, <2>4
<1>11. ASSUME NEW s \in Opens, PumpDrain(s)
      PROVE  NoLeakedWaiter'
    BY <1>11 DEF PumpDrain
<1>12. CASE UNCHANGED <<pending, target, call>>
    BY <1>12
<1> QED
    BY <1>1, <1>2, <1>3, <1>4, <1>5, <1>6, <1>7, <1>8, <1>9, <1>10, <1>11, <1>12
    DEF Next, OpenNext, TerminateNext, CallNext, CloseNext, PumpNext,
           RemoteNext, vars, sessionVars, callVars, OpenSpawn,
           OpenInsert, OpenReturn, TerminateSwap, TerminateKill,
           Close, CloseReturn, PumpPush, PumpReap, PumpReturn,
           RemoteAnswer, RemotePush, RemoteDies, WebviewGoes

(* Whoever sends to a waiter removes it first. *)
LEMMA AnsweredStep ==
    TypeOK /\ CallsHaveTargets /\ NoLeakedWaiter /\ AnsweredOnce /\ [Next]_vars => AnsweredOnce'
<1> SUFFICES ASSUME TypeOK, CallsHaveTargets, NoLeakedWaiter, AnsweredOnce, [Next]_vars
             PROVE  AnsweredOnce'
    OBVIOUS
<1> USE DEF AnsweredOnce, TypeOK, CallsHaveTargets, NoLeakedWaiter, sessionVars, callVars
<1>1. ASSUME NEW c \in Calls, NEW s \in Opens, CallUnknown(c, s)
      PROVE  AnsweredOnce'
  <2> SUFFICES ASSUME NEW d \in Calls, NEW t \in Opens, d \in pending'[t]
               PROVE  result'[d].kind = "none"
    OBVIOUS
  <2>1. d \in pending[t]
    BY <1>1 DEF CallUnknown
  <2>2. d # c
    BY <1>1, <2>1 DEF CallUnknown
  <2> QED
    BY <1>1, <2>1, <2>2 DEF CallUnknown, CallFinish
<1>2. ASSUME NEW c \in Calls, CallRefuse(c)
      PROVE  AnsweredOnce'
  <2> SUFFICES ASSUME NEW d \in Calls, NEW t \in Opens, d \in pending'[t]
               PROVE  result'[d].kind = "none"
    OBVIOUS
  <2>1. d \in pending[t]
    BY <1>2 DEF CallRefuse
  <2>2. d # c
    BY <1>2, <2>1 DEF CallRefuse
  <2> QED
    BY <1>2, <2>1, <2>2 DEF CallRefuse, CallFinish
<1>3. ASSUME NEW c \in Calls, CallRegister(c)
      PROVE  AnsweredOnce'
    BY <1>3 DEF CallRegister
<1>4. ASSUME NEW c \in Calls, CallWriteFails(c)
      PROVE  AnsweredOnce'
    BY <1>4 DEF CallWriteFails, CallFinish
<1>5. ASSUME NEW c \in Calls, CallReceive(c)
      PROVE  AnsweredOnce'
  <2> SUFFICES ASSUME NEW d \in Calls, NEW t \in Opens, d \in pending'[t]
               PROVE  result'[d].kind = "none"
    OBVIOUS
  <2>1. d \in pending[t]
    BY <1>5 DEF CallReceive
  <2>2. d # c
    BY <1>5, <2>1 DEF CallReceive
  <2> QED
    BY <1>5, <2>1, <2>2 DEF CallReceive, CallFinish
<1>6. ASSUME NEW c \in Calls, CallTimeout(c)
      PROVE  AnsweredOnce'
    BY <1>6 DEF CallTimeout, CallFinish
<1>7. ASSUME NEW s \in Opens, PumpReply(s)
      PROVE  AnsweredOnce'
  <2> SUFFICES ASSUME NEW d \in Calls, NEW t \in Opens, d \in pending'[t]
               PROVE  result'[d].kind = "none"
    OBVIOUS
  <2>1. CASE UNCHANGED <<pending, result>>
    BY <1>7, <2>1 DEF PumpReply
  <2>2. ASSUME NEW c \in Waiters(s, Head(outq[s]).req),
               pending' = [pending EXCEPT ![s] = @ \ {c}],
               result' = [result EXCEPT ![c] = Answer(Head(outq[s]).call)]
        PROVE  d \in pending[t] /\ result'[d] = result[d]
    <3>1. d \in pending[t] /\ c \in Calls /\ c \in pending[s]
      BY <2>2 DEF Waiters
    <3>2. d # c
      BY <2>2, <3>1
    <3> QED
      BY <2>2, <3>1, <3>2
  <2> QED
    BY <1>7, <2>1, <2>2 DEF PumpReply
<1>8. ASSUME NEW s \in Opens, PumpDrain(s)
      PROVE  AnsweredOnce'
    BY <1>8 DEF PumpDrain
<1>9. CASE UNCHANGED <<pending, result>>
    BY <1>9
<1> QED
    BY <1>1, <1>2, <1>3, <1>4, <1>5, <1>6, <1>7, <1>8, <1>9
    DEF Next, OpenNext, TerminateNext, CallNext, CloseNext, PumpNext,
           RemoteNext, vars, sessionVars, callVars, OpenSpawn,
           OpenInsert, OpenReturn, TerminateSwap, TerminateKill,
           CallFetch, CallLock, CallWrite, Close, CloseReturn,
           PumpPush, PumpReap, PumpReturn, RemoteAnswer,
           RemotePush, RemoteDies, WebviewGoes

(* A waiter found under a frame's id is the call that wrote the frame. *)
LEMMA ReplyStep ==
    TypeOK /\ RequestIdsAreUnique /\ FramesBelong /\ NoLeakedWaiter /\ ReplyToItsCaller /\ [Next]_vars => ReplyToItsCaller'
<1> SUFFICES ASSUME TypeOK, RequestIdsAreUnique, FramesBelong, NoLeakedWaiter, ReplyToItsCaller, [Next]_vars
             PROVE  ReplyToItsCaller'
    OBVIOUS
<1> USE DEF ReplyToItsCaller, TypeOK, Verdict, Answer, sessionVars, callVars
<1>1. ASSUME NEW c \in Calls, NEW s \in Opens, CallUnknown(c, s)
      PROVE  ReplyToItsCaller'
    BY <1>1 DEF CallUnknown, CallFinish
<1>2. ASSUME NEW c \in Calls, CallRefuse(c)
      PROVE  ReplyToItsCaller'
    BY <1>2 DEF CallRefuse, CallFinish
<1>3. ASSUME NEW c \in Calls, CallWriteFails(c)
      PROVE  ReplyToItsCaller'
    BY <1>3 DEF CallWriteFails, CallFinish
<1>4. ASSUME NEW c \in Calls, CallReceive(c)
      PROVE  ReplyToItsCaller'
    BY <1>4 DEF CallReceive, CallFinish
<1>5. ASSUME NEW c \in Calls, CallTimeout(c)
      PROVE  ReplyToItsCaller'
    BY <1>5 DEF CallTimeout, CallFinish
<1>6. ASSUME NEW s \in Opens, PumpReply(s)
      PROVE  ReplyToItsCaller'
  <2>1. CASE UNCHANGED result
    BY <2>1
  <2>2. ASSUME NEW c \in Waiters(s, Head(outq[s]).req),
               result' = [result EXCEPT ![c] = Answer(Head(outq[s]).call)]
        PROVE  ReplyToItsCaller'
    <3> DEFINE f == Head(outq[s])
    <3>1. f = outq[s][1] /\ 1 \in 1 .. Len(outq[s]) /\ f.kind = "reply"
      BY <1>6, TailFacts DEF PumpReply
    <3>2. f.call \in Calls /\ target[f.call] = s /\ req[f.call] = f.req
      <4>1. OutFramesBelong(s)
        BY DEF FramesBelong
      <4> QED
        BY <3>1, <4>1 DEF OutFramesBelong
    <3>3. c \in Calls /\ target[c] = s /\ req[c] = f.req
      BY <2>2 DEF Waiters, NoLeakedWaiter
    <3>4. c = f.call
      BY <3>2, <3>3, ConstantsAssumption DEF RequestIdsAreUnique
    <3>5. result' = [result EXCEPT ![c] = Answer(c)]
      BY <2>2, <3>4
    <3> QED
      BY <3>3, <3>5
  <2> QED
    BY <1>6, <2>1, <2>2 DEF PumpReply
<1>7. ASSUME NEW s \in Opens, PumpDrain(s)
      PROVE  ReplyToItsCaller'
    BY <1>7 DEF PumpDrain
<1>8. CASE UNCHANGED <<result>>
    BY <1>8
<1> QED
    BY <1>1, <1>2, <1>3, <1>4, <1>5, <1>6, <1>7, <1>8
    DEF Next, OpenNext, TerminateNext, CallNext, CloseNext, PumpNext,
           RemoteNext, vars, sessionVars, callVars, OpenSpawn,
           OpenInsert, OpenReturn, TerminateSwap, TerminateKill,
           CallFetch, CallRegister, CallLock, CallWrite, Close,
           CloseReturn, PumpPush, PumpReap, PumpReturn,
           RemoteAnswer, RemotePush, RemoteDies, WebviewGoes

(* Only a dead child or a drained pump makes a call disconnected. *)
LEMMA CauseStep ==
    TypeOK /\ SessionsAreAdopted /\ CallsHaveTargets /\ NoLeakedWaiter /\ DisconnectedHasCause /\ [Next]_vars => DisconnectedHasCause'
<1> SUFFICES ASSUME TypeOK, SessionsAreAdopted, CallsHaveTargets, NoLeakedWaiter, DisconnectedHasCause, [Next]_vars
             PROVE  DisconnectedHasCause'
    OBVIOUS
<1> USE DEF DisconnectedHasCause, TypeOK, SessionsAreAdopted, CallsHaveTargets, DisconnectedSession, sessionVars, callVars
<1>1. ASSUME NEW o \in Opens, NEW h \in Hosts, OpenSpawn(o, h)
      PROVE  DisconnectedHasCause'
  <2> SUFFICES ASSUME NEW d \in Calls, target'[d] # None,
                      result'[d].kind = "disconnected"
               PROVE  DisconnectedSession(target[d])' /\ target'[d] = target[d]
    OBVIOUS
  <2>1. target[d] \in Opens /\ DisconnectedSession(target[d])
    BY <1>1 DEF OpenSpawn
  <2> QED
    BY <1>1, <2>1 DEF OpenSpawn, DisconnectedSession, Verdict, Answer
<1>2. ASSUME NEW o \in Opens, OpenReturn(o)
      PROVE  DisconnectedHasCause'
  <2> SUFFICES ASSUME NEW d \in Calls, target'[d] # None,
                      result'[d].kind = "disconnected"
               PROVE  DisconnectedSession(target[d])' /\ target'[d] = target[d]
    OBVIOUS
  <2>1. target[d] \in Opens /\ DisconnectedSession(target[d])
    BY <1>2 DEF OpenReturn
  <2> QED
    BY <1>2, <2>1 DEF OpenReturn, DisconnectedSession, Verdict, Answer
<1>3. ASSUME NEW e \in ends, TerminateKill(e)
      PROVE  DisconnectedHasCause'
  <2> SUFFICES ASSUME NEW d \in Calls, target'[d] # None,
                      result'[d].kind = "disconnected"
               PROVE  DisconnectedSession(target[d])' /\ target'[d] = target[d]
    OBVIOUS
  <2>1. target[d] \in Opens /\ DisconnectedSession(target[d])
    BY <1>3 DEF TerminateKill
  <2> QED
    BY <1>3, <2>1 DEF TerminateKill, DisconnectedSession, Verdict, Answer
<1>4. ASSUME NEW c \in Calls, NEW s \in Opens, CallFetch(c, s)
      PROVE  DisconnectedHasCause'
  <2> SUFFICES ASSUME NEW d \in Calls, target'[d] # None,
                      result'[d].kind = "disconnected"
               PROVE  DisconnectedSession(target[d])' /\ target'[d] = target[d]
    OBVIOUS
  <2>1. d # c
    BY <1>4 DEF CallFetch
  <2>2. target[d] \in Opens /\ DisconnectedSession(target[d])
    BY <1>4, <2>1 DEF CallFetch
  <2> QED
    BY <1>4, <2>1, <2>2 DEF CallFetch, DisconnectedSession, Verdict, Answer
<1>5. ASSUME NEW c \in Calls, NEW s \in Opens, CallUnknown(c, s)
      PROVE  DisconnectedHasCause'
  <2> SUFFICES ASSUME NEW d \in Calls, target'[d] # None,
                      result'[d].kind = "disconnected"
               PROVE  DisconnectedSession(target[d])' /\ target'[d] = target[d]
    OBVIOUS
  <2>1. CASE d = c
    BY <1>5, <2>1 DEF CallUnknown, CallFinish, Verdict, DisconnectedSession
  <2>2. CASE d # c
    BY <1>5, <2>2 DEF CallUnknown, CallFinish, DisconnectedSession
  <2> QED
    BY <1>5, <2>1, <2>2 DEF CallUnknown, CallFinish, DisconnectedSession, Verdict, Answer
<1>6. ASSUME NEW c \in Calls, CallRefuse(c)
      PROVE  DisconnectedHasCause'
  <2> SUFFICES ASSUME NEW d \in Calls, target'[d] # None,
                      result'[d].kind = "disconnected"
               PROVE  DisconnectedSession(target[d])' /\ target'[d] = target[d]
    OBVIOUS
  <2>1. CASE d = c
    BY <1>6, <2>1 DEF CallRefuse, CallFinish, Verdict, DisconnectedSession
  <2>2. CASE d # c
    BY <1>6, <2>2 DEF CallRefuse, CallFinish, DisconnectedSession
  <2> QED
    BY <1>6, <2>1, <2>2 DEF CallRefuse, CallFinish, DisconnectedSession, Verdict, Answer
<1>7. ASSUME NEW c \in Calls, CallWriteFails(c)
      PROVE  DisconnectedHasCause'
    BY <1>7 DEF CallWriteFails, CallFinish
<1>8. ASSUME NEW c \in Calls, CallReceive(c)
      PROVE  DisconnectedHasCause'
  <2> SUFFICES ASSUME NEW d \in Calls, target'[d] # None,
                      result'[d].kind = "disconnected"
               PROVE  DisconnectedSession(target[d])' /\ target'[d] = target[d]
    OBVIOUS
  <2>1. CASE d = c
    BY <1>8, <2>1 DEF CallReceive, CallFinish, Verdict, DisconnectedSession
  <2>2. CASE d # c
    BY <1>8, <2>2 DEF CallReceive, CallFinish, DisconnectedSession
  <2> QED
    BY <1>8, <2>1, <2>2 DEF CallReceive, CallFinish, DisconnectedSession, Verdict, Answer
<1>9. ASSUME NEW c \in Calls, CallTimeout(c)
      PROVE  DisconnectedHasCause'
  <2> SUFFICES ASSUME NEW d \in Calls, target'[d] # None,
                      result'[d].kind = "disconnected"
               PROVE  DisconnectedSession(target[d])' /\ target'[d] = target[d]
    OBVIOUS
  <2>1. CASE d = c
    BY <1>9, <2>1 DEF CallTimeout, CallFinish, Verdict, DisconnectedSession
  <2>2. CASE d # c
    BY <1>9, <2>2 DEF CallTimeout, CallFinish, DisconnectedSession
  <2> QED
    BY <1>9, <2>1, <2>2 DEF CallTimeout, CallFinish, DisconnectedSession, Verdict, Answer
<1>10. ASSUME NEW s \in Opens, PumpReply(s)
      PROVE  DisconnectedHasCause'
  <2>1. \A d \in Calls : result'[d].kind = "disconnected" => result'[d] = result[d]
    <3>1. CASE UNCHANGED result
      BY <3>1
    <3>2. ASSUME NEW c \in Waiters(s, Head(outq[s]).req),
                 result' = [result EXCEPT ![c] = Answer(Head(outq[s]).call)]
          PROVE  \A d \in Calls : result'[d].kind = "disconnected"
                                     => result'[d] = result[d]
      BY <3>2 DEF Waiters, Answer
    <3> QED
      BY <1>10, <3>1, <3>2 DEF PumpReply
  <2> QED
    BY <1>10, <2>1 DEF PumpReply, DisconnectedSession
<1>11. ASSUME NEW s \in Opens, PumpDrain(s)
      PROVE  DisconnectedHasCause'
  <2> SUFFICES ASSUME NEW d \in Calls, target'[d] # None,
                      result'[d].kind = "disconnected"
               PROVE  DisconnectedSession(target[d])' /\ target'[d] = target[d]
    OBVIOUS
  <2>1. target'[d] = target[d]
    BY <1>11 DEF PumpDrain
  <2>2. CASE d \in pending[s]
    BY <1>11, <2>1, <2>2 DEF PumpDrain, DisconnectedSession, NoLeakedWaiter
  <2>3. CASE d \notin pending[s]
    <3>1. result'[d] = result[d]
      BY <1>11, <2>3 DEF PumpDrain
    <3> QED
      BY <1>11, <2>1, <3>1 DEF PumpDrain, DisconnectedSession
  <2> QED
    BY <2>2, <2>3
<1>12. ASSUME NEW s \in Opens, PumpReap(s)
      PROVE  DisconnectedHasCause'
  <2> SUFFICES ASSUME NEW d \in Calls, target'[d] # None,
                      result'[d].kind = "disconnected"
               PROVE  DisconnectedSession(target[d])' /\ target'[d] = target[d]
    OBVIOUS
  <2>1. target[d] \in Opens /\ DisconnectedSession(target[d])
    BY <1>12 DEF PumpReap
  <2> QED
    BY <1>12, <2>1 DEF PumpReap, DisconnectedSession, Verdict, Answer
<1>13. ASSUME NEW s \in Opens, PumpReturn(s)
      PROVE  DisconnectedHasCause'
  <2> SUFFICES ASSUME NEW d \in Calls, target'[d] # None,
                      result'[d].kind = "disconnected"
               PROVE  DisconnectedSession(target[d])' /\ target'[d] = target[d]
    OBVIOUS
  <2>1. target[d] \in Opens /\ DisconnectedSession(target[d])
    BY <1>13 DEF PumpReturn
  <2> QED
    BY <1>13, <2>1 DEF PumpReturn, DisconnectedSession, Verdict, Answer
<1>14. ASSUME NEW s \in Opens, RemoteDies(s)
      PROVE  DisconnectedHasCause'
  <2> SUFFICES ASSUME NEW d \in Calls, target'[d] # None,
                      result'[d].kind = "disconnected"
               PROVE  DisconnectedSession(target[d])' /\ target'[d] = target[d]
    OBVIOUS
  <2>1. target[d] \in Opens /\ DisconnectedSession(target[d])
    BY <1>14 DEF RemoteDies
  <2> QED
    BY <1>14, <2>1 DEF RemoteDies, DisconnectedSession, Verdict, Answer
<1>15. CASE UNCHANGED <<result, target, child, pump>>
    BY <1>15
<1> QED
    BY <1>1, <1>2, <1>3, <1>4, <1>5, <1>6, <1>7, <1>8, <1>9, <1>10, <1>11, <1>12, <1>13, <1>14, <1>15
    DEF Next, OpenNext, TerminateNext, CallNext, CloseNext, PumpNext,
           RemoteNext, vars, sessionVars, callVars, OpenInsert,
           TerminateSwap, CallRegister, CallLock, CallWrite,
           Close, CloseReturn, PumpPush, RemoteAnswer, RemotePush,
           WebviewGoes

-----------------------------------------------------------------------------
(* The inductive invariant and what follows from it *)

(* The initial state, with no session and no call, satisfies every part. *)
LEMMA InitInvariant == Init => IInv
<1> SUFFICES ASSUME Init PROVE IInv
    OBVIOUS
<1> USE DEF Init
<1>1. TypeOK
    BY DEF TypeOK, Outcome, Verdict
<1>2. SessionsAreAdopted /\ OneSessionPerHost /\ NoOrphanedChild
        /\ TerminatedIsUnreachable
    BY DEF SessionsAreAdopted, OneSessionPerHost, NoOrphanedChild,
           TerminatedIsUnreachable
<1>3. CallsHaveTargets /\ RequestIdsAreUnique /\ NoLeakedWaiter /\ AnsweredOnce
    BY DEF CallsHaveTargets, RequestIdsAreUnique, NoLeakedWaiter,
           AnsweredOnce, Verdict
<1>4. FramesBelong
    BY DEF FramesBelong, InFramesBelong, OutFramesBelong
<1>5. ReplyToItsCaller /\ DisconnectedHasCause
    BY DEF ReplyToItsCaller, DisconnectedHasCause, Verdict
<1> QED
    BY <1>1, <1>2, <1>3, <1>4, <1>5 DEF IInv

(* Each part is kept by every step that starts from the whole. *)
LEMMA StepInvariant == IInv /\ [Next]_vars => IInv'
<1> SUFFICES ASSUME IInv, [Next]_vars PROVE IInv'
    OBVIOUS
<1>1. /\ TypeOK /\ SessionsAreAdopted /\ OneSessionPerHost /\ NoOrphanedChild
      /\ TerminatedIsUnreachable /\ CallsHaveTargets /\ RequestIdsAreUnique
      /\ FramesBelong /\ NoLeakedWaiter /\ AnsweredOnce /\ ReplyToItsCaller
      /\ DisconnectedHasCause
    BY DEF IInv
<1>2. TypeOK' /\ SessionsAreAdopted' /\ OneSessionPerHost'
        /\ NoOrphanedChild' /\ TerminatedIsUnreachable'
    BY <1>1, TypeStep, AdoptedStep, OnePerHostStep, OrphanStep,
       UnreachableStep
<1>3. CallsHaveTargets' /\ RequestIdsAreUnique' /\ FramesBelong'
    BY <1>1, TargetsStep, RequestIdsStep, FramesStep
<1>4. NoLeakedWaiter' /\ AnsweredOnce' /\ ReplyToItsCaller'
        /\ DisconnectedHasCause'
    BY <1>1, WaitersStep, AnsweredStep, ReplyStep, CauseStep
<1> QED
    BY <1>2, <1>3, <1>4 DEF IInv

(* The invariant holds throughout, for any sets of hosts and commands. *)
THEOREM Invariance == Spec => []IInv
<1>1. Init => IInv
    BY InitInvariant
<1>2. IInv /\ [Next]_vars => IInv'
    BY StepInvariant
<1> QED
    BY <1>1, <1>2, PTL DEF Spec

(* Type correctness of the manager's state. *)
THEOREM TypeCorrectness == Spec => []TypeOK
<1>1. IInv => TypeOK
    BY DEF IInv
<1> QED
    BY <1>1, Invariance, PTL

(* adopt replaces: no two sessions in the table share a host. *)
THEOREM OneSession == Spec => []OneSessionPerHost
<1>1. IInv => OneSessionPerHost
    BY DEF IInv
<1> QED
    BY <1>1, Invariance, PTL

(* terminate's promise: a live child that left the table is being ended, and
   nothing in the table is. *)
THEOREM NoOrphans == Spec => [](NoOrphanedChild /\ TerminatedIsUnreachable)
<1>1. IInv => NoOrphanedChild /\ TerminatedIsUnreachable
    BY DEF IInv
<1> QED
    BY <1>1, Invariance, PTL

(* The routing of replies: a call that succeeds has the answer to its own
   request. *)
THEOREM ReplyRouting == Spec => []ReplyToItsCaller
<1>1. IInv => ReplyToItsCaller
    BY DEF IInv
<1> QED
    BY <1>1, Invariance, PTL

(* A waiter is that of a call that still waits on this session: one that has
   returned, by a reply, a timeout or its session's end, has none left. *)
THEOREM NoWaiterLeaks == Spec => []NoLeakedWaiter
<1>1. IInv => NoLeakedWaiter
    BY DEF IInv
<1> QED
    BY <1>1, Invariance, PTL

(* A fetched session is reported disconnected only once it is gone. *)
THEOREM HonestDisconnects == Spec => []DisconnectedIsTrue
<1>1. IInv => DisconnectedIsTrue
    BY DEF IInv, DisconnectedHasCause, DisconnectedSession, DisconnectedIsTrue
<1> QED
    BY <1>1, Invariance, PTL
=============================================================================
