---------------------------- MODULE HelperProofs ----------------------------
(***************************************************************************)
(* Theorems about the helper process and the watches it keeps: its         *)
(* serving loop, for any request lines and any capacity of its pipes; its  *)
(* subscription table, for any directories and any number of               *)
(* subscriptions; and the pool that shares a watch between panels, for     *)
(* any number of panel effects.                                            *)
(***************************************************************************)
EXTENDS WatchPool, HelperServer, FiniteSetTheorems, SequenceTheorems, TLAPS

-----------------------------------------------------------------------------
(* The serving loop                                                        *)

(* What the lines of w are owed, in order, is what is left of e after its  *)
(* first d ids: each of those ids is the answer to a line that is not      *)
(* blank, in the order of the lines, and no such line is left out.         *)
Lines == [line : Requests, id : LineIds]
AnswersFor(w, e, d, f) ==
    /\ f \in [1 .. (Len(e) - d) -> 1 .. Len(w)]
    /\ \A k \in 1 .. (Len(e) - d) :
          ~IsBlank(w[f[k]].line) /\ e[k + d] = IdOf(w[f[k]].line, w[f[k]].id)
    /\ \A j, k \in 1 .. (Len(e) - d) : j < k => f[j] < f[k]
    /\ \A i \in 1 .. Len(w) : IsBlank(w[i].line) \/ \E k \in 1 .. (Len(e) - d) : f[k] = i
Owed(w, e, d) == \E f : AnswersFor(w, e, d, f)

(* A blank line adds nothing to what is owed.                              *)
LEMMA BlankAdds ==
    ASSUME NEW S, NEW w \in Seq(S), NEW x \in S, NEW T, NEW e \in Seq(T), NEW d \in {0, 1},
           Owed(w, e, d), IsBlank(x.line)
    PROVE  Owed(Append(w, x), e, d)
<1> DEFINE v == Append(w, x)
<1>1. PICK f : AnswersFor(w, e, d, f)
    BY DEF Owed
<1>2. /\ Len(v) = Len(w) + 1 /\ v[Len(w) + 1] = x
      /\ \A i \in 1 .. Len(w) : v[i] = w[i]
      /\ Len(w) \in Nat /\ Len(e) \in Nat
    BY AppendProperties, LenProperties
<1> HIDE DEF v
<1>3. f \in [1 .. (Len(e) - d) -> 1 .. Len(w)]
    BY <1>1 DEF AnswersFor
<1>4. \A k \in 1 .. (Len(e) - d) : f[k] \in 1 .. Len(w) /\ v[f[k]] = w[f[k]]
    BY <1>2, <1>3
<1>5. f \in [1 .. (Len(e) - d) -> 1 .. Len(v)]
    BY <1>2, <1>3
<1>6. \A i \in 1 .. Len(v) : IsBlank(v[i].line) \/ \E k \in 1 .. (Len(e) - d) : f[k] = i
  <2> SUFFICES ASSUME NEW i \in 1 .. Len(v)
               PROVE  IsBlank(v[i].line) \/ \E k \in 1 .. (Len(e) - d) : f[k] = i
    OBVIOUS
  <2>1. CASE i = Len(w) + 1
    BY <1>2, <2>1
  <2>2. CASE i \in 1 .. Len(w)
    BY <1>1, <1>2, <2>2 DEF AnswersFor
  <2> QED
    BY <1>2, <2>1, <2>2
<1>7. AnswersFor(v, e, d, f)
    BY <1>1, <1>4, <1>5, <1>6 DEF AnswersFor
<1> QED
    BY <1>7 DEF Owed, v

(* Any other line adds the id of its answer at the end.                    *)
LEMMA LineAdds ==
    ASSUME NEW S, NEW w \in Seq(S), NEW x \in S, NEW T, NEW e \in Seq(T), NEW d \in {0, 1},
           Owed(w, e, d), ~IsBlank(x.line), d <= Len(e), IdOf(x.line, x.id) \in T
    PROVE  Owed(Append(w, x), Append(e, IdOf(x.line, x.id)), d)
<1> DEFINE v == Append(w, x)
           id == IdOf(x.line, x.id)
           g == Append(e, id)
<1>1. PICK f : AnswersFor(w, e, d, f)
    BY DEF Owed
<1>2. /\ Len(v) = Len(w) + 1 /\ v[Len(w) + 1] = x
      /\ \A i \in 1 .. Len(w) : v[i] = w[i]
      /\ Len(w) \in Nat /\ Len(e) \in Nat
    BY AppendProperties, LenProperties
<1>3. /\ Len(g) = Len(e) + 1 /\ g[Len(e) + 1] = id
      /\ \A i \in 1 .. Len(e) : g[i] = e[i]
    BY AppendProperties, LenProperties
<1> DEFINE n == Len(e) - d
           h == [k \in 1 .. (n + 1) |-> IF k = n + 1 THEN Len(w) + 1 ELSE f[k]]
<1>4. n \in Nat /\ Len(g) - d = n + 1
    BY <1>2, <1>3
<1>5. /\ f \in [1 .. n -> 1 .. Len(w)]
      /\ \A k \in 1 .. n : ~IsBlank(w[f[k]].line) /\ e[k + d] = IdOf(w[f[k]].line, w[f[k]].id)
      /\ \A j, k \in 1 .. n : j < k => f[j] < f[k]
      /\ \A i \in 1 .. Len(w) : IsBlank(w[i].line) \/ \E k \in 1 .. n : f[k] = i
    BY <1>1 DEF AnswersFor
<1>6. \A k \in 1 .. n : k + d \in 1 .. Len(e)
    BY <1>2
<1>6a. n + 1 + d = Len(e) + 1
    BY <1>2
<1> HIDE DEF v, g, n, id
<1>7. h \in [1 .. (n + 1) -> 1 .. Len(v)]
    BY <1>2, <1>4, <1>5
<1>8. ASSUME NEW k \in 1 .. (n + 1)
      PROVE  ~IsBlank(v[h[k]].line) /\ g[k + d] = IdOf(v[h[k]].line, v[h[k]].id)
  <2>1. CASE k = n + 1
    BY <1>2, <1>3, <1>4, <1>6a, <2>1 DEF id
  <2>2. CASE k \in 1 .. n
    <3>1. h[k] = f[k] /\ f[k] \in 1 .. Len(w) /\ v[f[k]] = w[f[k]]
        BY <1>2, <1>4, <1>5, <2>2
    <3>2. g[k + d] = e[k + d]
        BY <1>3, <1>6, <2>2
    <3> QED
        BY <1>5, <2>2, <3>1, <3>2
  <2> QED
    BY <1>4, <2>1, <2>2
<1>9. \A j, k \in 1 .. (n + 1) : j < k => h[j] < h[k]
  <2> SUFFICES ASSUME NEW j \in 1 .. (n + 1), NEW k \in 1 .. (n + 1), j < k
               PROVE  h[j] < h[k]
    OBVIOUS
  <2>1. j \in 1 .. n /\ h[j] = f[j] /\ f[j] \in 1 .. Len(w)
    BY <1>4, <1>5
  <2>2. CASE k = n + 1
    BY <1>2, <2>1, <2>2
  <2>3. CASE k \in 1 .. n
    BY <1>4, <1>5, <2>1, <2>3
  <2> QED
    BY <1>4, <2>2, <2>3
<1>10. ASSUME NEW i \in 1 .. Len(v)
       PROVE  IsBlank(v[i].line) \/ \E k \in 1 .. (n + 1) : h[k] = i
  <2>1. CASE i = Len(w) + 1
    BY <1>4, <2>1
  <2>2. CASE i \in 1 .. Len(w)
    <3>1. IsBlank(w[i].line) \/ \E k \in 1 .. n : f[k] = i
        BY <1>5, <2>2
    <3>2. \A k \in 1 .. n : k \in 1 .. (n + 1) /\ h[k] = f[k]
        BY <1>4
    <3> QED
        BY <1>2, <2>2, <3>1, <3>2
  <2> QED
    BY <1>2, <2>1, <2>2
<1> HIDE DEF h
<1>11. AnswersFor(v, g, d, h)
    BY <1>4, <1>7, <1>8, <1>9, <1>10 DEF AnswersFor
<1> QED
    BY <1>11 DEF Owed, v, g, id

(* A blank line that is served leaves what is owed as it is.               *)
LEMMA BlankServed ==
    ASSUME NEW S, NEW w \in Seq(S), w # <<>>, NEW T, NEW e \in Seq(T), NEW d \in {0, 1},
           Owed(w, e, d), IsBlank(w[1].line)
    PROVE  Owed(Tail(w), e, d)
<1> DEFINE v == Tail(w)
           n == Len(e) - d
<1>1. PICK f : AnswersFor(w, e, d, f)
    BY DEF Owed
<1> DEFINE h == [k \in 1 .. n |-> f[k] - 1]
<1>2. /\ Len(w) \in Nat \ {0} /\ Len(e) \in Nat /\ Len(v) = Len(w) - 1
      /\ \A i \in 1 .. Len(v) : v[i] = w[i + 1]
    BY HeadTailProperties, EmptySeq, LenProperties
<1>3. /\ f \in [1 .. n -> 1 .. Len(w)]
      /\ \A k \in 1 .. n : ~IsBlank(w[f[k]].line) /\ e[k + d] = IdOf(w[f[k]].line, w[f[k]].id)
      /\ \A j, k \in 1 .. n : j < k => f[j] < f[k]
      /\ \A i \in 1 .. Len(w) : IsBlank(w[i].line) \/ \E k \in 1 .. n : f[k] = i
    BY <1>1 DEF AnswersFor
<1> HIDE DEF v, n
<1>4. ASSUME NEW k \in 1 .. n
      PROVE  /\ f[k] \in 2 .. Len(w) /\ h[k] = f[k] - 1 /\ h[k] \in 1 .. Len(v)
             /\ v[h[k]] = w[f[k]]
  <2>1. f[k] \in 1 .. Len(w) /\ f[k] # 1
    BY <1>3
  <2>2. f[k] \in 2 .. Len(w) /\ h[k] = f[k] - 1 /\ h[k] \in 1 .. Len(v)
    BY <1>2, <2>1
  <2> QED
    BY <1>2, <2>2
<1>5. h \in [1 .. n -> 1 .. Len(v)]
    BY <1>4
<1>6. \A j, k \in 1 .. n : j < k => h[j] < h[k]
    BY <1>3, <1>4, <1>2
<1>7. ASSUME NEW i \in 1 .. Len(v)
      PROVE  IsBlank(v[i].line) \/ \E k \in 1 .. n : h[k] = i
  <2>1. i + 1 \in 1 .. Len(w) /\ v[i] = w[i + 1]
    BY <1>2
  <2>2. IsBlank(w[i + 1].line) \/ \E k \in 1 .. n : f[k] = i + 1
    BY <1>3, <2>1
  <2>3. \A k \in 1 .. n : f[k] = i + 1 => h[k] = i
    BY <1>4, <1>2
  <2> QED
    BY <2>1, <2>2, <2>3
<1>8. \A k \in 1 .. n : ~IsBlank(v[h[k]].line) /\ e[k + d] = IdOf(v[h[k]].line, v[h[k]].id)
    BY <1>3, <1>4
<1> HIDE DEF h
<1>9. AnswersFor(v, e, d, h)
    BY <1>5, <1>6, <1>7, <1>8 DEF AnswersFor, n
<1> QED
    BY <1>9 DEF Owed, v

(* The first id that is owed is that of the first line, if it is not blank *)
(* and nothing is being answered.                                          *)
LEMMA LineServed ==
    ASSUME NEW S, NEW w \in Seq(S), w # <<>>, NEW T, NEW e \in Seq(T),
           Owed(w, e, 0), ~IsBlank(w[1].line)
    PROVE  /\ Len(e) >= 1 /\ e[1] = IdOf(w[1].line, w[1].id)
           /\ Owed(Tail(w), e, 1)
<1> DEFINE v == Tail(w)
           n == Len(e)
<1>1. PICK f : AnswersFor(w, e, 0, f)
    BY DEF Owed
<1> DEFINE h == [k \in 1 .. (n - 1) |-> f[k + 1] - 1]
<1>2. /\ Len(w) \in Nat \ {0} /\ n \in Nat /\ Len(v) = Len(w) - 1
      /\ \A i \in 1 .. Len(v) : v[i] = w[i + 1]
    BY HeadTailProperties, EmptySeq, LenProperties
<1>3a. n - 0 = n /\ \A k \in 1 .. n : k + 0 = k
    BY <1>2
<1>3. /\ f \in [1 .. n -> 1 .. Len(w)]
      /\ \A k \in 1 .. n : ~IsBlank(w[f[k]].line) /\ e[k] = IdOf(w[f[k]].line, w[f[k]].id)
      /\ \A j, k \in 1 .. n : j < k => f[j] < f[k]
      /\ \A i \in 1 .. Len(w) : IsBlank(w[i].line) \/ \E k \in 1 .. n : f[k] = i
    BY <1>1, <1>3a DEF AnswersFor
<1> HIDE DEF v, n
<1>4. PICK k1 \in 1 .. n : f[k1] = 1
    BY <1>2, <1>3
<1>5. n >= 1 /\ f[1] = 1
  <2>1. n >= 1 /\ 1 \in 1 .. n
    BY <1>2, <1>4
  <2>2. f[1] \in 1 .. Len(w)
    BY <1>3, <2>1
  <2>3. k1 # 1 => f[1] < f[k1]
    BY <1>2, <1>3, <1>4, <2>1
  <2> QED
    BY <1>2, <1>4, <2>1, <2>2, <2>3
<1>6. e[1] = IdOf(w[1].line, w[1].id)
    BY <1>2, <1>3, <1>5
<1>7. ASSUME NEW k \in 1 .. (n - 1)
      PROVE  /\ k + 1 \in 1 .. n /\ f[k + 1] \in 2 .. Len(w) /\ h[k] = f[k + 1] - 1
             /\ h[k] \in 1 .. Len(v) /\ v[h[k]] = w[f[k + 1]]
  <2>1. k + 1 \in 1 .. n /\ 1 \in 1 .. n /\ 1 < k + 1
    BY <1>2
  <2>2. f[k + 1] \in 1 .. Len(w) /\ f[1] < f[k + 1]
    BY <1>3, <2>1
  <2>3. f[k + 1] \in 2 .. Len(w) /\ h[k] = f[k + 1] - 1 /\ h[k] \in 1 .. Len(v)
    BY <1>2, <1>5, <2>2
  <2> QED
    BY <1>2, <2>1, <2>3
<1>8. h \in [1 .. (n - 1) -> 1 .. Len(v)]
    BY <1>7
<1>9. \A j, k \in 1 .. (n - 1) : j < k => h[j] < h[k]
  <2> SUFFICES ASSUME NEW j \in 1 .. (n - 1), NEW k \in 1 .. (n - 1), j < k
               PROVE  h[j] < h[k]
    OBVIOUS
  <2>1. j + 1 \in 1 .. n /\ k + 1 \in 1 .. n /\ j + 1 < k + 1
    BY <1>2
  <2>2. f[j + 1] < f[k + 1]
    BY <1>3, <2>1
  <2> QED
    BY <1>2, <1>7, <2>2
<1>10. ASSUME NEW i \in 1 .. Len(v)
       PROVE  IsBlank(v[i].line) \/ \E k \in 1 .. (n - 1) : h[k] = i
  <2>1. i + 1 \in 1 .. Len(w) /\ v[i] = w[i + 1]
    BY <1>2
  <2>2. CASE ~IsBlank(v[i].line)
    <3>1. PICK k \in 1 .. n : f[k] = i + 1
        BY <1>3, <2>1, <2>2
    <3>2. k # 1
        BY <1>5, <3>1
    <3>3. k - 1 \in 1 .. (n - 1) /\ (k - 1) + 1 = k
        BY <1>2, <3>1, <3>2
    <3>4. h[k - 1] = i
        BY <1>7, <3>1, <3>3
    <3> QED
        BY <3>3, <3>4
  <2> QED
    BY <2>2
<1>11. \A k \in 1 .. (n - 1) :
          ~IsBlank(v[h[k]].line) /\ e[k + 1] = IdOf(v[h[k]].line, v[h[k]].id)
    BY <1>3, <1>7
<1> HIDE DEF h
<1>12. AnswersFor(v, e, 1, h)
    BY <1>8, <1>9, <1>10, <1>11 DEF AnswersFor, n
<1> QED
    BY <1>5, <1>6, <1>12 DEF Owed, v, n

(* The answer that is written is no longer owed.                           *)
LEMMA AnswerWritten ==
    ASSUME NEW w, NEW T, NEW e \in Seq(T), e # <<>>, Owed(w, e, 1)
    PROVE  Owed(w, Tail(e), 0)
<1> DEFINE g == Tail(e)
<1>1. PICK f : AnswersFor(w, e, 1, f)
    BY DEF Owed
<1>2. /\ Len(e) \in Nat \ {0} /\ Len(g) = Len(e) - 1
      /\ \A i \in 1 .. Len(g) : g[i] = e[i + 1]
    BY HeadTailProperties, EmptySeq, LenProperties
<1> HIDE DEF g
<1>3. Len(g) - 0 = Len(e) - 1 /\ \A k \in 1 .. (Len(g) - 0) : g[k + 0] = e[k + 1]
    BY <1>2
<1>4. AnswersFor(w, g, 0, f)
    BY <1>1, <1>3 DEF AnswersFor
<1> QED
    BY <1>4 DEF Owed, g

-----------------------------------------------------------------------------
(* The loop's invariant: the buffer holds what was taken of the line, or   *)
(* nothing once that is more than a frame; and the lines that wait are     *)
(* owed what the client expects, after the answer being written.           *)
Answering == loop \in {"replying", "leaving"}
Due == IF Answering THEN 1 ELSE 0
LoopTypeOK ==
    /\ wire \in Seq(Lines) /\ lines \in 0..MaxLines
    /\ expects \in Seq(LineIds \cup {Null})
    /\ loop \in {"reading", "replying", "leaving", "exited"}
BufferIsTheLine ==
    /\ taken \in Nat
    /\ IF wire = <<>> THEN taken = 0 ELSE taken <= Here.line.size
    /\ buf = IF taken <= FrameCap THEN taken ELSE Null
AnswersTheFirst == Answering => expects # <<>> /\ reply.id = expects[1]
LoopInvariant ==
    /\ LoopTypeOK
    /\ BufferIsTheLine
    /\ AnswersTheFirst
    /\ Owed(wire, expects, Due)

(* The line being read has a size.                                        *)
LEMMA SizesAreNumbers ==
    \A s \in Seq(Lines) : s # <<>> => Head(s) \in Lines /\ Head(s).line.size \in Nat
<1> SUFFICES ASSUME NEW s \in Seq(Lines), s # <<>>
             PROVE  Head(s) \in Lines /\ Head(s).line.size \in Nat
    OBVIOUS
<1>1. Head(s) \in Lines
    BY HeadTailProperties
<1>2. Head(s).line \in Requests
    BY <1>1 DEF Lines
<1> QED
    BY <1>1, <1>2, ServerAssumption

(* What serving a line does: nothing for a blank one, an answer that names *)
(* it otherwise.                                                           *)
LEMMA ServingAnswers ==
    ASSUME LoopInvariant, ServesLine
    PROVE  /\ loop = "reading" /\ wire # <<>> /\ wire' = Tail(wire) /\ taken' = 0 /\ buf' = 0
           /\ UNCHANGED <<lines, expects>>
           /\ \/ IsBlank(Here.line) /\ UNCHANGED <<loop, reply>>
              \/ /\ ~IsBlank(Here.line) /\ loop' \in {"replying", "leaving"}
                 /\ reply'.id = IdOf(Here.line, Here.id)
<1>1. /\ loop = "reading" /\ wire # <<>> /\ taken = Here.line.size
      /\ wire' = Tail(wire) /\ taken' = 0 /\ buf' = 0 /\ UNCHANGED <<lines, expects>>
      /\ \/ buf # Null /\ (BlankLine \/ PlainOp \/ Shutdown \/ SubscribeOp \/ UnsubscribeOp)
         \/ RejectedLine(buf)
    BY DEF ServesLine, NextLine
<1>2. buf = Null <=> Here.line.size > FrameCap
    BY <1>1, ServerAssumption DEF LoopInvariant, BufferIsTheLine
<1>3. Here.line.size \in Nat /\ FrameCap \in Nat
    BY <1>1, ServerAssumption DEF LoopInvariant, BufferIsTheLine
<1>4. CASE buf # Null /\ BlankLine
    BY <1>1, <1>2, <1>3, <1>4 DEF BlankLine, IsBlank
<1>5. CASE buf # Null /\ (PlainOp \/ Shutdown \/ SubscribeOp \/ UnsubscribeOp)
  <2>1. /\ Here.line.is \in {"op", "shutdown", "subscribe", "unsubscribe"}
        /\ loop' \in {"replying", "leaving"} /\ reply'.id = Here.id
    BY <1>5 DEF PlainOp, Shutdown, SubscribeOp, UnsubscribeOp, Replies, ReplyTo
  <2> QED
    BY <1>1, <1>2, <1>5, <2>1 DEF IsBlank, IdOf
<1>6. CASE RejectedLine(buf)
    BY <1>1, <1>2, <1>3, <1>6 DEF RejectedLine, Replies, ReplyTo, IsBlank, IdOf
<1> QED
    BY <1>1, <1>4, <1>5, <1>6

(* What the other steps leave alone.                                       *)
LEMMA QuietSteps ==
    ASSUME \/ ClientHears \/ ClientHangsUp \/ Commit
           \/ \E d \in Paths : FileChanges(d, d) \/ FileChanges(d, Null)
           \/ PumpEvent \/ PumpPolls \/ PumpWrites
           \/ UNCHANGED serverVars
    PROVE  UNCHANGED <<wire, lines, taken, buf, loop, reply, expects>>
BY DEF ClientHears, ClientHangsUp, Commit, FileChanges, PumpEvent, PumpPolls, PumpWrites,
       serverVars, readVars, loopVars

(* The serving loop's invariant: what was taken of a line, and what the    *)
(* lines that wait are owed.                                               *)
THEOREM LoopIsInvariant == ServerSpec => []LoopInvariant
<1>1. ServerInit => LoopInvariant
  <2> SUFFICES ASSUME ServerInit PROVE LoopInvariant
    OBVIOUS
  <2>1. /\ wire \in Seq(Lines) /\ Len(wire) = 0
        /\ expects \in Seq(LineIds \cup {Null}) /\ Len(expects) = 0
    BY EmptySeq DEF ServerInit
  <2>2. AnswersFor(wire, expects, 0, [k \in 1 .. 0 |-> k])
    BY <2>1 DEF AnswersFor
  <2>3. Owed(wire, expects, Due)
    BY <2>2 DEF Owed, Due, Answering, ServerInit
  <2> QED
    BY <2>1, <2>3, ServerAssumption
    DEF ServerInit, LoopInvariant, LoopTypeOK, BufferIsTheLine, AnswersTheFirst, Answering
<1>2. LoopInvariant /\ [ServerNext]_serverVars => LoopInvariant'
  <2> SUFFICES ASSUME LoopInvariant, [ServerNext]_serverVars
               PROVE  LoopInvariant'
    OBVIOUS
  <2>0. /\ wire \in Seq(Lines) /\ lines \in 0..MaxLines
        /\ expects \in Seq(LineIds \cup {Null})
        /\ Due \in {0, 1} /\ (Due = 1 <=> Answering) /\ Owed(wire, expects, Due)
    BY DEF LoopInvariant, LoopTypeOK, Due
  <2>1. ASSUME NEW line \in Requests, ClientSends(line)
        PROVE  LoopInvariant'
    <3> DEFINE x == [line |-> line, id |-> lines + 1]
    <3>1. /\ lines + 1 \in LineIds /\ lines' = lines + 1 /\ x \in Lines
          /\ wire' = Append(wire, x)
          /\ expects' = IF IsBlank(line) THEN expects ELSE Append(expects, IdOf(line, lines + 1))
          /\ UNCHANGED <<taken, buf, loop, reply>>
        BY <2>0, <2>1, ServerAssumption DEF ClientSends, loopVars, readVars, LineIds, Lines
    <3>2. IdOf(line, lines + 1) \in LineIds \cup {Null}
        BY <3>1 DEF IdOf
    <3>3. LoopTypeOK'
      <4>1. Append(wire, x) \in Seq(Lines)
          BY <2>0, <3>1, AppendProperties
      <4>2. Append(expects, IdOf(line, lines + 1)) \in Seq(LineIds \cup {Null})
          BY <2>0, <3>2, AppendProperties
      <4>3. lines' \in 0..MaxLines
          BY <3>1 DEF LineIds
      <4> QED
          BY <2>0, <3>1, <4>1, <4>2, <4>3 DEF LoopInvariant, LoopTypeOK
    <3>4. /\ wire # <<>> => wire' # <<>> /\ Head(wire') = Head(wire)
          /\ wire = <<>> => wire' # <<>> /\ Head(wire') = x
        BY <2>0, <3>1, AppendProperties, HeadTailProperties, EmptySeq, LenProperties
    <3>5. BufferIsTheLine'
      <4>1. wire' # <<>> /\ wire' \in Seq(Lines)
          BY <3>3, <3>4 DEF LoopTypeOK
      <4>2. Head(wire').line.size \in Nat
          BY <4>1, SizesAreNumbers
      <4>3. taken <= Head(wire').line.size
          BY <3>4, <4>2 DEF LoopInvariant, BufferIsTheLine, Here
      <4> QED
          BY <3>1, <4>1, <4>3 DEF LoopInvariant, BufferIsTheLine, Here
    <3>6. /\ expects # <<>> => expects' # <<>> /\ expects'[1] = expects[1]
          /\ Due <= Len(expects)
      <4>1. Due <= Len(expects)
          BY <2>0, EmptySeq, LenProperties DEF LoopInvariant, AnswersTheFirst, Due
      <4>2. expects # <<>> => Len(expects) >= 1
          BY <2>0, EmptySeq, LenProperties
      <4> QED
          BY <2>0, <3>1, <3>2, <4>1, <4>2, AppendProperties
    <3>7. AnswersTheFirst'
        BY <3>1, <3>6 DEF LoopInvariant, AnswersTheFirst, Answering
    <3>8. Owed(wire', expects', Due)
      <4>1. x.line = line /\ x.id = lines + 1
          OBVIOUS
      <4>2. CASE IsBlank(line)
          BY <2>0, <3>1, <4>1, <4>2, BlankAdds
      <4>3. CASE ~IsBlank(line)
          BY <2>0, <3>1, <3>2, <3>6, <4>1, <4>3, LineAdds
      <4> QED
          BY <4>2, <4>3
    <3>9. Owed(wire, expects, Due)'
        BY <3>1, <3>8 DEF Due, Answering
    <3> QED
        BY <3>3, <3>5, <3>7, <3>9 DEF LoopInvariant
  <2>2. CASE ReadsPart
    <3>1. PICK n \in 1 .. (Here.line.size - taken) : taken' = taken + n /\ buf' = Kept(n)
        BY <2>2 DEF ReadsPart
    <3>2. /\ wire # <<>> /\ UNCHANGED <<wire, lines, loop, reply, expects>>
          /\ Here \in Lines /\ Here.line.size \in Nat
        BY <2>0, <2>2, SizesAreNumbers DEF ReadsPart, loopVars, Here
    <3>3. /\ taken' \in Nat /\ taken' <= Here.line.size
          /\ buf' = IF taken' <= FrameCap THEN taken' ELSE Null
        BY <3>1, <3>2, ServerAssumption DEF LoopInvariant, BufferIsTheLine, Kept
    <3>4. BufferIsTheLine'
        BY <3>2, <3>3 DEF BufferIsTheLine, Here
    <3> QED
        BY <3>2, <3>4 DEF LoopInvariant, LoopTypeOK, AnswersTheFirst, Answering, Due
  <2>3. CASE ServesLine
    <3>1. /\ loop = "reading" /\ wire # <<>> /\ wire' = Tail(wire) /\ taken' = 0 /\ buf' = 0
          /\ UNCHANGED <<lines, expects>>
          /\ \/ IsBlank(Here.line) /\ UNCHANGED <<loop, reply>>
             \/ /\ ~IsBlank(Here.line) /\ loop' \in {"replying", "leaving"}
                /\ reply'.id = IdOf(Here.line, Here.id)
        BY <2>3, ServingAnswers
    <3>2. Here = wire[1] /\ Tail(wire) \in Seq(Lines)
        BY <2>0, <3>1, HeadTailProperties, EmptySeq DEF Here
    <3>3. LoopTypeOK'
        BY <2>0, <3>1, <3>2 DEF LoopTypeOK
    <3>5. BufferIsTheLine'
      <4>1. wire' # <<>> => Head(wire').line.size \in Nat
          BY <3>1, <3>2, SizesAreNumbers
      <4> QED
          BY <3>1, <4>1, ServerAssumption DEF BufferIsTheLine, Here
    <3>6. Due = 0
        BY <3>1 DEF Due, Answering
    <3>7. CASE IsBlank(Here.line) /\ UNCHANGED <<loop, reply>>
      <4>1. Owed(wire', expects, Due)
          BY <2>0, <3>1, <3>2, <3>7, BlankServed
      <4> QED
          BY <3>1, <3>3, <3>5, <3>7, <4>1 DEF LoopInvariant, Due, Answering, AnswersTheFirst
    <3>8. CASE /\ ~IsBlank(Here.line) /\ loop' \in {"replying", "leaving"}
               /\ reply'.id = IdOf(Here.line, Here.id)
      <4>1. /\ Len(expects) >= 1 /\ expects[1] = IdOf(Here.line, Here.id)
            /\ Owed(wire', expects, 1)
          BY <2>0, <3>1, <3>2, <3>6, <3>8, LineServed
      <4>2. expects # <<>>
          BY <4>1, EmptySeq
      <4> QED
          BY <3>1, <3>3, <3>5, <3>8, <4>1, <4>2 DEF LoopInvariant, Due, Answering, AnswersTheFirst
    <3> QED
        BY <3>1, <3>7, <3>8
  <2>4. CASE ServesEof
    <3>1. /\ UNCHANGED <<wire, lines, taken, buf, reply, expects>>
          /\ loop = "reading" /\ loop' = "exited"
        BY <2>4 DEF ServesEof, readVars
    <3> QED
        BY <3>1 DEF LoopInvariant, LoopTypeOK, BufferIsTheLine, Here, AnswersTheFirst,
                    Answering, Due
  <2>5. CASE WritesReply
    <3>1. /\ Answering /\ loop' \in {"reading", "exited"} /\ UNCHANGED <<wire, lines, taken, buf>>
          /\ expects' = IF expects = <<>> THEN expects ELSE Tail(expects)
        BY <2>5 DEF WritesReply, Answering, readVars
    <3>2. expects # <<>> /\ Due = 1
        BY <2>0, <3>1 DEF LoopInvariant, AnswersTheFirst
    <3>3. expects' \in Seq(LineIds \cup {Null})
        BY <2>0, <3>1, <3>2, HeadTailProperties
    <3>4. Owed(wire, expects', 0)
        BY <2>0, <3>1, <3>2, AnswerWritten
    <3> QED
        BY <2>0, <3>1, <3>3, <3>4
        DEF LoopInvariant, LoopTypeOK, BufferIsTheLine, Here, AnswersTheFirst, Answering, Due
  <2>6. CASE UNCHANGED <<wire, lines, taken, buf, loop, reply, expects>>
    BY <2>6 DEF LoopInvariant, LoopTypeOK, BufferIsTheLine, Here, AnswersTheFirst, Answering, Due
  <2> QED
    BY <2>1, <2>2, <2>3, <2>4, <2>5, <2>6, QuietSteps DEF ServerNext
<1> QED
    BY <1>1, <1>2, PTL DEF ServerSpec

(* Every answer the loop writes is the one owed next, and names the line   *)
(* it answers, whatever lines came before it (read_line, handle, id_of).   *)
THEOREM AnswersAreNamed == ServerSpec => AnswersNameTheirLine
<1>1. LoopInvariant /\ [ServerNext]_serverVars
        => [(loop \in {"replying", "leaving"}) /\ reply' = Null =>
               expects # <<>> /\ reply.id = Head(expects)]_serverVars
  <2>1. LoopInvariant /\ Answering => expects # <<>> /\ reply.id = Head(expects)
    BY HeadTailProperties DEF LoopInvariant, LoopTypeOK, AnswersTheFirst
  <2> QED
    BY <2>1 DEF Answering
<1> QED
    BY <1>1, LoopIsInvariant, PTL DEF ServerSpec, AnswersNameTheirLine

USE TableAssumption DEF Entry, TableTypeOK

-----------------------------------------------------------------------------
(* The remote's subscription table                                         *)

(* An empty table satisfies its invariant.                                 *)
LEMMA TableInitHolds == TableInit => TableInvariant
BY DEF TableInit, TableInvariant, IdsAreMinted, NoDuplicates,
       WatchedIffSubscribed

(* A subscribe that finds nothing adds one entry under a fresh id. *)
LEMMA SubscribeKeeps ==
    ASSUME TableInvariant, NEW p \in Paths, NEW r \in BOOLEAN,
           NEW id \in 1 .. MaxIds, Subscribe(p, r, id)
    PROVE  TableInvariant'
<1> USE DEF TableInvariant, IdsAreMinted, NoDuplicates, WatchedIffSubscribed
<1>1. CASE SubscribeAgain(p, r, id)
    BY <1>1 DEF SubscribeAgain, tableVars
<1>2. CASE SubscribeNew(p, r, id)
  <2> DEFINE new == [id |-> id, path |-> p, recursive |-> r]
  <2>1. /\ id = nextId
        /\ nextId' = nextId + 1
        /\ entries' = entries \cup {new}
        /\ watched' = watched \cup {p}
    BY <1>2 DEF SubscribeNew
  <2>2. new \in Entry /\ new.path = p /\ new.recursive = r /\ new.id = id
    OBVIOUS
  <2>3. TableTypeOK'
    BY <2>1, <2>2
  <2>4. IdsAreMinted'
    BY <2>1, <2>2
  <2>5. \A e \in entries :
            e.id # id /\ ~(e.path = p /\ e.recursive = r)
    BY <1>2, <2>1 DEF SubscribeNew, Found
  <2>6. NoDuplicates'
    BY <2>1, <2>2, <2>5
  <2>7. WatchedIffSubscribed'
    BY <2>1, <2>2
  <2> QED
    BY <2>3, <2>4, <2>6, <2>7
<1> QED
    BY <1>1, <1>2 DEF Subscribe

(* Dropping entries stops exactly the watches no survivor needs. *)
LEMMA UnsubscribeKeeps ==
    ASSUME TableInvariant, NEW gone \in SUBSET entries, Unsubscribe(gone)
    PROVE  TableInvariant'
<1> USE DEF TableInvariant
<1>1. entries' = entries \ gone /\ nextId' = nextId
    BY DEF Unsubscribe
<1>2. watched' =
        watched \ ({e.path : e \in gone} \ {e.path : e \in entries \ gone})
    BY DEF Unsubscribe
<1>3. TableTypeOK' /\ IdsAreMinted' /\ NoDuplicates'
    BY <1>1, <1>2 DEF IdsAreMinted, NoDuplicates
<1>4. WatchedIffSubscribed'
    BY <1>1, <1>2 DEF WatchedIffSubscribed
<1> QED
    BY <1>3, <1>4

(* Every step of the table keeps its invariant.                            *)
LEMMA TableNextHolds ==
    TableInvariant /\ [TableNext]_tableVars => TableInvariant'
<1> SUFFICES ASSUME TableInvariant, [TableNext]_tableVars
             PROVE  TableInvariant'
    OBVIOUS
<1>1. ASSUME NEW p \in Paths, NEW r \in BOOLEAN, NEW id \in 1 .. MaxIds,
             Subscribe(p, r, id)
      PROVE  TableInvariant'
    BY <1>1, SubscribeKeeps
<1>2. ASSUME NEW id \in 1 .. MaxIds, Unsubscribe(ById(id))
      PROVE  TableInvariant'
    BY <1>2, UnsubscribeKeeps DEF ById
<1>3. ASSUME NEW p \in Paths, Unsubscribe(ByPath(p))
      PROVE  TableInvariant'
    BY <1>3, UnsubscribeKeeps DEF ByPath
<1>4. ASSUME NEW id \in 1 .. MaxIds, NEW p \in Paths,
             Unsubscribe(ById(id) \cup ByPath(p))
      PROVE  TableInvariant'
    BY <1>4, UnsubscribeKeeps DEF ById, ByPath
<1>5. CASE UNCHANGED tableVars
    BY <1>5 DEF TableInvariant, tableVars, IdsAreMinted, NoDuplicates,
                WatchedIffSubscribed
<1> QED
    BY <1>1, <1>2, <1>3, <1>4, <1>5 DEF TableNext

(* No step brings an entry under an id that was minted before. *)
LEMMA FreshIds ==
    ASSUME TableInvariant, [TableNext]_tableVars
    PROVE  \A e \in entries' : e \in entries \/ e.id >= nextId
<1>1. ASSUME NEW p \in Paths, NEW r \in BOOLEAN, NEW id \in 1 .. MaxIds,
             Subscribe(p, r, id)
      PROVE  \A e \in entries' : e \in entries \/ e.id >= nextId
  <2>1. CASE SubscribeAgain(p, r, id)
    BY <2>1 DEF SubscribeAgain, tableVars
  <2>2. CASE SubscribeNew(p, r, id)
    <3>1. entries' = entries
                        \cup {[id |-> nextId, path |-> p, recursive |-> r]}
        BY <2>2 DEF SubscribeNew
    <3> QED
        BY <3>1 DEF TableInvariant
  <2> QED
    BY <1>1, <2>1, <2>2 DEF Subscribe
<1>2. ASSUME NEW gone \in SUBSET entries, Unsubscribe(gone)
      PROVE  entries' \subseteq entries
    BY <1>2 DEF Unsubscribe
<1>3. CASE UNCHANGED tableVars
    BY <1>3 DEF tableVars
<1> QED
    BY <1>1, <1>2, <1>3 DEF TableNext, ById, ByPath

-----------------------------------------------------------------------------
(* The table's inductive invariant.                                        *)
THEOREM TableIsInvariant == TableSpec => []TableInvariant
<1>1. TableInit => TableInvariant
    BY TableInitHolds
<1>2. TableInvariant /\ [TableNext]_tableVars => TableInvariant'
    BY TableNextHolds
<1> QED
    BY <1>1, <1>2, PTL DEF TableSpec

(* The OS watches a directory exactly as long as an entry names it: the    *)
(* survivors of an unsubscribe keep their watch, and no watch is left      *)
(* behind (watch.rs, unsubscribe).                                         *)
THEOREM WatchesFollowEntries == TableSpec => []WatchedIffSubscribed
<1>1. TableInvariant => WatchedIffSubscribed
    BY DEF TableInvariant
<1> QED
    BY <1>1, TableIsInvariant, PTL

(* One entry per watch and one watch per id (watch.rs, find).              *)
THEOREM EntriesAreDistinct == TableSpec => []NoDuplicates
<1>1. TableInvariant => NoDuplicates
    BY DEF TableInvariant
<1> QED
    BY <1>1, TableIsInvariant, PTL

(* An id that was dropped is not given out again (watch.rs, next_id).      *)
THEOREM IdsStayFresh == TableSpec => IdsAreNotReused
<1>1. TableInvariant /\ [TableNext]_tableVars
        => [\A e \in entries' : e \in entries \/ e.id >= nextId]_tableVars
    BY FreshIds
<1> QED
    BY <1>1, TableIsInvariant, PTL DEF TableSpec, IdsAreNotReused

-----------------------------------------------------------------------------
(* The pool                                                                *)

\* An effect that has acquired names an entry of its key, one that has not
\* is no entry; an entry is named by the effect whose acquire built it.
WatchersNameEntries ==
    \A u \in Watchers :
        IF watcher[u] = "idle"
        THEN poolHolders[u] = 0 /\ entryId[u] = 0 /\ entryOf[u] = None
        ELSE /\ watchKeyOf[u] \in PoolKeys
             /\ entryOf[u] \in Watchers
             /\ watcher[entryOf[u]] # "idle"
             /\ watchKeyOf[entryOf[u]] = watchKeyOf[u]

Filled == {k \in PoolKeys : poolTable[k] # None}

\* The counts are of finite sets.
CountsAreFinite ==
    /\ IsFiniteSet(Filled)
    /\ \A k \in Filled : IsFiniteSet(HoldersOf(poolTable[k]))

Subscribing(e) ==
    SubscribeCall(e) \in requests \/ e \in expired \/ \E a \in answers : a.of = e

\* An entry subscribes once: its call is on its way, or its answer is, or it
\* has its id or its rejection.
OneSubscribeEach ==
    /\ \A e \in Watchers : Subscribing(e) => watcher[e] # "idle"
    /\ \A e \in Watchers :
        SubscribeCall(e) \in requests => entryId[e] = 0 /\ \A a \in answers : a.of # e
    /\ \A a, b \in answers : a.of = b.of => a = b
    /\ \A a \in answers : entryId[a.of] = 0

ForgottenIsEmpty ==
    forgotten => requests = {} /\ answers = {} /\ Filled = {}

PoolInvariant ==
    /\ PoolTypeOK
    /\ TableInvariant
    /\ WatchersNameEntries
    /\ CountsAreFinite
    /\ OneSubscribeEach
    /\ ForgottenIsEmpty
    /\ CountsAreRight
    /\ NoLeakedSubscription

(* The invariant holds before the first panel.                             *)
LEMMA PoolInitHolds == PoolInit => PoolInvariant
<1> SUFFICES ASSUME PoolInit PROVE PoolInvariant
    OBVIOUS
<1>1. TableInvariant
    BY TableInitHolds DEF PoolInit
<1>2. PoolTypeOK
    BY <1>1 DEF PoolInit, PoolTypeOK, TableInvariant
<1>3. Filled = {}
    BY DEF PoolInit, Filled
<1>4. CountsAreFinite /\ CountsAreRight
    BY <1>3, FS_EmptySet DEF CountsAreFinite, CountsAreRight, Filled, PoolInit
<1>5. WatchersNameEntries /\ OneSubscribeEach /\ ForgottenIsEmpty
    BY DEF PoolInit, WatchersNameEntries, OneSubscribeEach, ForgottenIsEmpty, Subscribing
<1>6. NoLeakedSubscription
    BY DEF PoolInit, TableInit, NoLeakedSubscription
<1> QED
    BY <1>1, <1>2, <1>4, <1>5, <1>6 DEF PoolInvariant

(* What the pool and the remote do to the table are its own operations,    *)
(* and a closed channel leaves it empty.                                   *)
LEMMA PoolKeepsTable ==
    ASSUME PoolTypeOK, TableInvariant, WatchersNameEntries, OneSubscribeEach,
           [PoolNext]_watchVars
    PROVE  TableInvariant'
<1>1. ASSUME UNCHANGED tableVars
      PROVE  TableInvariant'
    BY <1>1 DEF TableInvariant, tableVars, IdsAreMinted, NoDuplicates, WatchedIffSubscribed
<1>2. ASSUME NEW e \in Watchers, NEW id \in 1 .. MaxIds, RemoteSubscribes(e, id)
      PROVE  TableInvariant'
  <2>1. watchKeyOf[e] \in PoolKeys
    BY <1>2 DEF RemoteSubscribes, OneSubscribeEach, Subscribing, WatchersNameEntries
  <2>2. watchKeyOf[e][1] \in Paths /\ watchKeyOf[e][2] \in BOOLEAN
    BY <2>1 DEF PoolKeys
  <2> QED
    BY <1>2, <2>2, SubscribeKeeps DEF RemoteSubscribes
<1>3. ASSUME NEW q \in requests, RemoteUnsubscribes(q)
      PROVE  TableInvariant'
    BY <1>3, UnsubscribeKeeps DEF RemoteUnsubscribes, ById
<1>4. CASE Forget
    BY <1>4 DEF Forget, TableInvariant, IdsAreMinted, NoDuplicates, WatchedIffSubscribed
<1> QED
    BY <1>1, <1>2, <1>3, <1>4
    DEF PoolNext, RemoteNext, watchVars, PoolJoins, PoolSubscribes, PoolRelease,
        SubscribeExpires, SubscribeResolves, SubscribeRejects, RemoteRefuses

(* Every step keeps what a watcher says of its entry.                      *)
LEMMA PoolKeepsNames ==
    ASSUME PoolTypeOK, WatchersNameEntries, OneSubscribeEach, CountsAreRight,
           [PoolNext]_watchVars
    PROVE  WatchersNameEntries'
<1> USE PoolAssumption DEF WatchersNameEntries, PoolTypeOK
<1>1. ASSUME UNCHANGED <<watcherVars, poolHolders, entryId>>
      PROVE  WatchersNameEntries'
    BY <1>1 DEF watcherVars
<1>2. ASSUME NEW u \in Watchers, NEW k \in PoolKeys, PoolJoins(u, k)
      PROVE  WatchersNameEntries'
  <2>1. /\ poolTable[k] \in Watchers
        /\ watchKeyOf[poolTable[k]] = k
        /\ watcher[poolTable[k]] # "idle"
    <3>1. /\ poolTable[k] \in Watchers
          /\ watchKeyOf[poolTable[k]] = k
          /\ HoldersOf(poolTable[k]) # {}
      BY <1>2 DEF PoolJoins, CountsAreRight
    <3>2. PICK w \in Watchers : watcher[w] = "holding" /\ entryOf[w] = poolTable[k]
      BY <3>1 DEF HoldersOf
    <3> QED
      BY <3>1, <3>2
  <2> QED
    BY <1>2, <2>1 DEF PoolJoins, Hold
<1>3. ASSUME NEW u \in Watchers, NEW k \in PoolKeys, PoolSubscribes(u, k)
      PROVE  WatchersNameEntries'
    BY <1>3 DEF PoolSubscribes, Hold
<1>4. ASSUME NEW u \in Watchers, PoolRelease(u)
      PROVE  WatchersNameEntries'
    BY <1>4 DEF PoolRelease, poolVars, Drop, EndWatch
<1>5. ASSUME NEW a \in answers, SubscribeResolves(a)
      PROVE  WatchersNameEntries'
  <2>1. a.of \in Watchers /\ watcher[a.of] # "idle"
    BY DEF OneSubscribeEach, Subscribing
  <2> QED
    BY <1>5, <2>1 DEF SubscribeResolves, watcherVars
<1> QED
    BY <1>1, <1>2, <1>3, <1>4, <1>5
    DEF PoolNext, RemoteNext, watchVars, poolVars, watcherVars,
        SubscribeExpires, SubscribeRejects, Forget,
        RemoteSubscribes, RemoteRefuses, RemoteUnsubscribes

(* Every step keeps at most one subscribe of an entry under way.           *)
LEMMA PoolKeepsOneSubscribe ==
    ASSUME PoolTypeOK, WatchersNameEntries, OneSubscribeEach, [PoolNext]_watchVars
    PROVE  OneSubscribeEach'
<1> USE PoolAssumption
    DEF OneSubscribeEach, Subscribing, SubscribeCall, UnsubscribeCall, Request, PoolTypeOK
<1>1. ASSUME NEW u \in Watchers, NEW k \in PoolKeys, PoolJoins(u, k)
      PROVE  OneSubscribeEach'
    BY <1>1 DEF PoolJoins, Hold, wireVars
<1>2. ASSUME NEW u \in Watchers, NEW k \in PoolKeys, PoolSubscribes(u, k)
      PROVE  OneSubscribeEach'
    BY <1>2 DEF PoolSubscribes, Hold, WatchersNameEntries
<1>3. ASSUME NEW u \in Watchers, PoolRelease(u)
      PROVE  OneSubscribeEach'
    BY <1>3 DEF PoolRelease, EndWatch, Drop, poolVars
<1>4. ASSUME NEW e \in Watchers, SubscribeExpires(e)
      PROVE  OneSubscribeEach'
    BY <1>4 DEF SubscribeExpires, watcherVars
<1>5. ASSUME NEW a \in answers, SubscribeResolves(a)
      PROVE  OneSubscribeEach'
    BY <1>5 DEF SubscribeResolves, watcherVars
<1>6. ASSUME NEW a \in answers, SubscribeRejects(a)
      PROVE  OneSubscribeEach'
    BY <1>6 DEF SubscribeRejects, watcherVars
<1>7. CASE Forget
    BY <1>7 DEF Forget, watcherVars
<1>8. ASSUME NEW e \in Watchers, NEW id \in Nat, SubscribeCall(e) \in requests,
             requests' = requests \ {SubscribeCall(e)}, Answer(e, id),
             UNCHANGED <<poolVars, watcherVars, expired>>
      PROVE  OneSubscribeEach'
    BY <1>8 DEF Answer, watcherVars, poolVars
<1>9. ASSUME NEW e \in Watchers, NEW id \in 1 .. MaxIds, RemoteSubscribes(e, id)
      PROVE  OneSubscribeEach'
    BY <1>8, <1>9 DEF RemoteSubscribes
<1>10. ASSUME NEW e \in Watchers, RemoteRefuses(e)
       PROVE  OneSubscribeEach'
    BY <1>8, <1>10 DEF RemoteRefuses
<1>11. ASSUME NEW q \in requests, RemoteUnsubscribes(q)
       PROVE  OneSubscribeEach'
    BY <1>11 DEF RemoteUnsubscribes, watcherVars, poolVars
<1>12. CASE UNCHANGED watchVars
    BY <1>12 DEF watchVars, watcherVars, poolVars, wireVars
<1> QED
    BY <1>1, <1>2, <1>3, <1>4, <1>5, <1>6, <1>7, <1>9, <1>10, <1>11, <1>12
    DEF PoolNext, RemoteNext

(* Every step keeps an entry that was forgotten empty.                     *)
LEMMA PoolKeepsForgotten ==
    ASSUME PoolTypeOK, WatchersNameEntries, ForgottenIsEmpty, [PoolNext]_watchVars
    PROVE  ForgottenIsEmpty'
<1> USE PoolAssumption DEF ForgottenIsEmpty, Filled, PoolTypeOK
<1>1. CASE Forget
    BY <1>1 DEF Forget
<1>2. ASSUME NEW u \in Watchers, PoolRelease(u)
      PROVE  ForgottenIsEmpty'
    BY <1>2 DEF PoolRelease, WatchersNameEntries, poolVars
<1> QED
    BY <1>1, <1>2
    DEF PoolNext, RemoteNext, watchVars, poolVars, wireVars, PoolJoins, PoolSubscribes,
        SubscribeExpires, SubscribeResolves, SubscribeRejects, RemoteSubscribes,
        RemoteRefuses, RemoteUnsubscribes

-----------------------------------------------------------------------------
(* The counts                                                              *)

\* Both parts of CountsAreRight, with the finiteness they rest on.
EntryCounted(k) ==
    poolTable[k] # None =>
        /\ IsFiniteSet(HoldersOf(poolTable[k]))
        /\ poolHolders[poolTable[k]] = Cardinality(HoldersOf(poolTable[k]))
        /\ HoldersOf(poolTable[k]) # {}
        /\ watchKeyOf[poolTable[k]] = k
LiveCounted ==
    /\ IsFiniteSet(Filled)
    /\ live = Cardinality(Filled)

(* The counts are right when the live entries and each entry's uses are    *)
(* counted.                                                                *)
LEMMA CountsAreThese ==
    CountsAreRight /\ CountsAreFinite <=> LiveCounted /\ \A k \in PoolKeys : EntryCounted(k)
BY DEF CountsAreRight, CountsAreFinite, LiveCounted, EntryCounted, Filled

(* Dropping an entry is counted, and leaves the other entries in place.    *)
LEMMA DropIsCounted ==
    ASSUME PoolTypeOK, LiveCounted, NEW k \in PoolKeys, poolTable[k] # None, Drop(k)
    PROVE  /\ LiveCounted'
           /\ \A j \in PoolKeys : poolTable'[j] # None => j # k /\ poolTable'[j] = poolTable[j]
<1> USE DEF Drop, PoolTypeOK
<1>1. Filled' = Filled \ {k} /\ k \in Filled
    BY DEF Filled
<1>2. IsFiniteSet(Filled') /\ Cardinality(Filled') = Cardinality(Filled) - 1
    BY <1>1, FS_RemoveElement DEF LiveCounted
<1>3. live' = live - 1
    OBVIOUS
<1> QED
    BY <1>2, <1>3 DEF LiveCounted

(* An entry's count follows whoever acquires or releases it.               *)
LEMMA HoldIsCounted ==
    ASSUME PoolTypeOK, WatchersNameEntries, LiveCounted, NEW j \in PoolKeys, EntryCounted(j),
           NEW u \in Watchers, NEW k \in PoolKeys, Hold(u, k, poolTable[k]), EntryCounted(k),
           poolTable[k] # None, UNCHANGED poolTable
    PROVE  EntryCounted(j)'
<1> DEFINE e == poolTable[k]
           d == poolTable[j]
<1> SUFFICES ASSUME d # None
             PROVE  EntryCounted(j)'
    BY DEF EntryCounted
<1>1. e \in Watchers /\ d \in Watchers
    BY DEF PoolTypeOK
<1>2. /\ watcher[u] = "idle"
      /\ watcher' = [watcher EXCEPT ![u] = "holding"]
      /\ watchKeyOf' = [watchKeyOf EXCEPT ![u] = k]
      /\ entryOf' = [entryOf EXCEPT ![u] = e]
      /\ poolHolders' = [poolHolders EXCEPT ![e] = @ + 1]
    BY DEF Hold
<1>3. PICK w \in Watchers : watcher[w] = "holding" /\ entryOf[w] = d
    BY DEF EntryCounted, HoldersOf
<1>4. watcher[d] # "idle"
    BY <1>1, <1>3 DEF WatchersNameEntries
<1>5. d # u /\ watchKeyOf'[d] = j
    BY <1>1, <1>2, <1>4 DEF EntryCounted, PoolTypeOK
<1>6. u \notin HoldersOf(d)
    BY <1>2 DEF HoldersOf
<1>7. CASE j = k
  <2>1. HoldersOf(d)' = HoldersOf(d) \cup {u}
    BY <1>1, <1>2, <1>7 DEF HoldersOf, PoolTypeOK
  <2>2. /\ IsFiniteSet(HoldersOf(d)')
        /\ Cardinality(HoldersOf(d)') = Cardinality(HoldersOf(d)) + 1
    BY <1>6, <2>1, FS_AddElement DEF EntryCounted
  <2>3. poolHolders'[d] = poolHolders[d] + 1
    BY <1>1, <1>2, <1>7 DEF PoolTypeOK
  <2> QED
    BY <1>5, <1>7, <2>1, <2>2, <2>3 DEF EntryCounted
<1>8. CASE j # k
  <2>1. d # e
    BY <1>8 DEF EntryCounted
  <2>2. HoldersOf(d)' = HoldersOf(d)
    BY <1>1, <1>2, <2>1 DEF HoldersOf, PoolTypeOK
  <2>3. poolHolders'[d] = poolHolders[d]
    BY <1>1, <1>2, <2>1 DEF PoolTypeOK
  <2> QED
    BY <1>5, <2>2, <2>3 DEF EntryCounted
<1> QED
    BY <1>7, <1>8

\* An effect's acquire that builds its own entry
LEMMA SubscribeIsCounted ==
    ASSUME PoolTypeOK, WatchersNameEntries, LiveCounted, \A j \in PoolKeys : EntryCounted(j),
           NEW u \in Watchers, NEW k \in PoolKeys, PoolSubscribes(u, k)
    PROVE  LiveCounted' /\ \A j \in PoolKeys : EntryCounted(j)'
<1> USE PoolAssumption DEF PoolTypeOK
<1>1. /\ watcher[u] = "idle"
      /\ watcher' = [watcher EXCEPT ![u] = "holding"]
      /\ watchKeyOf' = [watchKeyOf EXCEPT ![u] = k]
      /\ entryOf' = [entryOf EXCEPT ![u] = u]
      /\ poolHolders' = [poolHolders EXCEPT ![u] = @ + 1]
      /\ poolTable' = [poolTable EXCEPT ![k] = u]
      /\ poolTable[k] = None
      /\ live' = live + 1
    BY DEF PoolSubscribes, Hold
<1>2. LiveCounted'
  <2>1. Filled' = Filled \cup {k} /\ k \notin Filled
    BY <1>1 DEF Filled
  <2>2. IsFiniteSet(Filled') /\ Cardinality(Filled') = Cardinality(Filled) + 1
    BY <2>1, FS_AddElement DEF LiveCounted
  <2> QED
    BY <1>1, <2>2 DEF LiveCounted
<1>3. EntryCounted(k)'
  <2>1. poolTable'[k] = u /\ watchKeyOf'[u] = k /\ poolHolders'[u] = 1
    BY <1>1 DEF WatchersNameEntries
  <2>2. HoldersOf(u)' = {u}
    BY <1>1 DEF HoldersOf, WatchersNameEntries
  <2>3. IsFiniteSet(HoldersOf(u)') /\ Cardinality(HoldersOf(u)') = 1
    <3>1. IsFiniteSet({u}) /\ Cardinality({u}) = 1
      BY FS_Singleton
    <3> HIDE DEF HoldersOf
    <3> QED
      BY <2>2, <3>1
  <2> QED
    BY <2>1, <2>2, <2>3 DEF EntryCounted
<1>4. ASSUME NEW j \in PoolKeys, j # k, poolTable[j] # None
      PROVE  EntryCounted(j)'
  <2> DEFINE d == poolTable[j]
  <2>1. d \in Watchers /\ poolTable'[j] = d
    BY <1>1, <1>4
  <2>2. EntryCounted(j)
    BY <1>4
  <2>3. PICK w \in Watchers : watcher[w] = "holding" /\ entryOf[w] = d
    BY <1>4, <2>2 DEF EntryCounted, HoldersOf
  <2>4. d # u
    BY <1>1, <2>1, <2>3 DEF WatchersNameEntries
  <2>5. HoldersOf(d)' = HoldersOf(d)
    BY <1>1, <2>1, <2>4 DEF HoldersOf
  <2>6. poolHolders'[d] = poolHolders[d] /\ watchKeyOf'[d] = watchKeyOf[d]
    BY <1>1, <2>1, <2>4
  <2> QED
    BY <1>4, <2>1, <2>2, <2>5, <2>6 DEF EntryCounted
<1>5. ASSUME NEW j \in PoolKeys, j # k, poolTable[j] = None
      PROVE  EntryCounted(j)'
    BY <1>1, <1>5 DEF EntryCounted
<1> QED
    BY <1>2, <1>3, <1>4, <1>5

(* A release counts down its own entry, and only while that is the         *)
(* table's: the last holder takes the entry with it.                       *)
LEMMA ReleaseIsCounted ==
    ASSUME PoolTypeOK, WatchersNameEntries, LiveCounted, \A j \in PoolKeys : EntryCounted(j),
           NEW u \in Watchers, PoolRelease(u)
    PROVE  LiveCounted' /\ \A j \in PoolKeys : EntryCounted(j)'
<1> DEFINE e == entryOf[u]
           k == watchKeyOf[u]
<1>1. /\ watcher[u] = "holding"
      /\ watcher' = [watcher EXCEPT ![u] = "gone"]
      /\ watchKeyOf' = watchKeyOf /\ entryOf' = entryOf
    BY DEF PoolRelease
<1>2. e \in Watchers /\ k \in PoolKeys
    BY <1>1 DEF WatchersNameEntries
<1>3. u \in HoldersOf(e)
    BY <1>1 DEF HoldersOf
\* An entry of which u is no holder is counted as before.
<1>4. ASSUME NEW j \in PoolKeys, poolTable[j] # None, poolTable[j] # e,
             poolTable'[j] = poolTable[j],
             poolHolders'[poolTable[j]] = poolHolders[poolTable[j]]
      PROVE  EntryCounted(j)'
  <2>1. HoldersOf(poolTable[j])' = HoldersOf(poolTable[j])
    BY <1>1, <1>4 DEF HoldersOf, PoolTypeOK
  <2>2. EntryCounted(j)
    OBVIOUS
  <2> QED
    BY <1>1, <1>4, <2>1, <2>2 DEF EntryCounted
<1>5. ASSUME NEW j \in PoolKeys, poolTable'[j] = None
      PROVE  EntryCounted(j)'
    BY <1>5 DEF EntryCounted
<1>6. CASE poolTable[k] # e
  <2>1. UNCHANGED poolVars
    BY <1>6 DEF PoolRelease
  <2>2. LiveCounted'
    BY <2>1 DEF LiveCounted, Filled, poolVars
  <2>3. ASSUME NEW j \in PoolKeys, poolTable[j] # None
        PROVE  poolTable[j] # e
    <3>1. EntryCounted(j) /\ watchKeyOf[e] = k
      BY <1>1 DEF WatchersNameEntries
    <3> QED
      BY <1>6, <2>3, <3>1 DEF EntryCounted
  <2> QED
    BY <1>4, <1>5, <2>1, <2>2, <2>3 DEF poolVars
<1>7. CASE poolTable[k] = e
  <2>1. e # None /\ EntryCounted(k)
    BY <1>2, PoolAssumption
  <2>2. poolHolders' = [poolHolders EXCEPT ![e] = @ - 1]
    BY <1>7 DEF PoolRelease
  <2>3. HoldersOf(e)' = HoldersOf(e) \ {u}
    BY <1>1 DEF HoldersOf, PoolTypeOK
  <2>4. /\ IsFiniteSet(HoldersOf(e)')
        /\ Cardinality(HoldersOf(e)') = Cardinality(HoldersOf(e)) - 1
    BY <1>3, <1>7, <2>1, <2>3, FS_RemoveElement DEF EntryCounted
  <2>5. \A j \in PoolKeys : j # k /\ poolTable[j] # None => poolTable[j] # e
    BY <1>7, <2>1 DEF EntryCounted
  <2>6. CASE poolHolders[e] > 1
    <3>1. poolTable' = poolTable /\ live' = live
      BY <1>7, <2>6 DEF PoolRelease
    <3>2. LiveCounted'
      BY <3>1 DEF LiveCounted, Filled
    <3>3. poolHolders[e] = Cardinality(HoldersOf(e)) /\ poolHolders[e] \in Nat
      BY <1>2, <1>7, <2>1 DEF EntryCounted, PoolTypeOK
    <3>4. Cardinality(HoldersOf(e)') # 0
      BY <2>4, <2>6, <3>3
    <3>5. HoldersOf(e)' # {}
      BY <3>4, FS_EmptySet
    <3>6. poolHolders'[e] = Cardinality(HoldersOf(e)')
      BY <1>2, <2>2, <2>4, <3>3 DEF PoolTypeOK
    <3>7. EntryCounted(k)'
      BY <1>1, <1>7, <2>1, <2>4, <3>1, <3>5, <3>6 DEF EntryCounted
    <3>8. ASSUME NEW j \in PoolKeys, j # k, poolTable[j] # None
          PROVE  EntryCounted(j)'
      <4>1. poolTable[j] # e /\ poolHolders'[poolTable[j]] = poolHolders[poolTable[j]]
        BY <2>2, <2>5, <3>8 DEF PoolTypeOK
      <4> QED
        BY <1>4, <3>1, <3>8, <4>1
    <3> QED
      <4>1. ASSUME NEW j \in PoolKeys, poolTable[j] = None
            PROVE  EntryCounted(j)'
        BY <1>5, <3>1, <4>1
      <4> QED
        BY <1>1, <3>2, <3>7, <3>8, <4>1
  <2>7. CASE ~(poolHolders[e] > 1)
    <3>1. Drop(k)
      BY <1>7, <2>7 DEF PoolRelease
    <3>2. /\ LiveCounted'
          /\ \A j \in PoolKeys :
                poolTable'[j] # None => j # k /\ poolTable'[j] = poolTable[j]
      BY <1>2, <1>7, <2>1, <3>1, DropIsCounted
    <3>3. ASSUME NEW j \in PoolKeys, poolTable'[j] # None
          PROVE  EntryCounted(j)'
      <4>1. poolTable[j] # e /\ poolTable'[j] = poolTable[j] /\ poolTable[j] # None
        BY <2>5, <3>2, <3>3
      <4>2. poolHolders'[poolTable[j]] = poolHolders[poolTable[j]]
        BY <2>2, <4>1 DEF PoolTypeOK
      <4> QED
        BY <1>4, <4>1, <4>2
    <3> QED
      BY <1>5, <3>2, <3>3
  <2> QED
    BY <2>6, <2>7
<1> QED
    BY <1>6, <1>7

(* Every step keeps the counts right.                                      *)
LEMMA PoolKeepsCounts ==
    ASSUME PoolTypeOK, WatchersNameEntries, OneSubscribeEach, CountsAreRight,
           CountsAreFinite, [PoolNext]_watchVars
    PROVE  CountsAreRight' /\ CountsAreFinite'
<1>1. LiveCounted /\ \A k \in PoolKeys : EntryCounted(k)
    BY CountsAreThese
<1> SUFFICES LiveCounted' /\ \A k \in PoolKeys : EntryCounted(k)'
    BY DEF CountsAreRight, CountsAreFinite, LiveCounted, EntryCounted, Filled
<1>2. ASSUME UNCHANGED <<poolTable, poolHolders, live, watcherVars>>
      PROVE  LiveCounted' /\ \A k \in PoolKeys : EntryCounted(k)'
    BY <1>1, <1>2 DEF LiveCounted, EntryCounted, Filled, HoldersOf, watcherVars
<1>3. ASSUME NEW e \in Watchers, watchKeyOf[e] \in PoolKeys, Reject(e),
             UNCHANGED <<poolHolders, watcherVars>>
      PROVE  LiveCounted' /\ \A k \in PoolKeys : EntryCounted(k)'
  <2>1. CASE poolTable[watchKeyOf[e]] # e
    BY <1>2, <1>3, <2>1 DEF Reject
  <2>2. CASE poolTable[watchKeyOf[e]] = e
    <3>1. Drop(watchKeyOf[e]) /\ e # None
      BY <1>3, <2>2, PoolAssumption DEF Reject
    <3>2. /\ LiveCounted'
          /\ \A j \in PoolKeys : poolTable'[j] # None => poolTable'[j] = poolTable[j]
      BY <1>1, <1>3, <2>2, <3>1, DropIsCounted
    <3> QED
      BY <1>1, <1>3, <3>2 DEF EntryCounted, HoldersOf, watcherVars
  <2> QED
    BY <2>1, <2>2
<1>4. \A e \in Watchers : Subscribing(e) => watchKeyOf[e] \in PoolKeys
    BY DEF OneSubscribeEach, WatchersNameEntries
<1>5. ASSUME NEW u \in Watchers, NEW k \in PoolKeys, PoolJoins(u, k)
      PROVE  LiveCounted' /\ \A j \in PoolKeys : EntryCounted(j)'
  <2>1. /\ Hold(u, k, poolTable[k]) /\ poolTable[k] # None
        /\ UNCHANGED <<poolTable, live>>
    BY <1>5 DEF PoolJoins
  <2>2. LiveCounted'
    BY <1>1, <2>1 DEF LiveCounted, Filled
  <2> QED
    BY <1>1, <2>1, <2>2, HoldIsCounted
<1>6. ASSUME NEW u \in Watchers, NEW k \in PoolKeys, PoolSubscribes(u, k)
      PROVE  LiveCounted' /\ \A j \in PoolKeys : EntryCounted(j)'
    BY <1>1, <1>6, SubscribeIsCounted
<1>7. ASSUME NEW u \in Watchers, PoolRelease(u)
      PROVE  LiveCounted' /\ \A j \in PoolKeys : EntryCounted(j)'
    BY <1>1, <1>7, ReleaseIsCounted
<1>8. ASSUME NEW e \in Watchers, SubscribeExpires(e)
      PROVE  LiveCounted' /\ \A j \in PoolKeys : EntryCounted(j)'
    BY <1>3, <1>4, <1>8 DEF SubscribeExpires, Subscribing
<1>9. ASSUME NEW a \in answers, SubscribeRejects(a)
      PROVE  LiveCounted' /\ \A j \in PoolKeys : EntryCounted(j)'
  <2>1. a.of \in Watchers /\ Subscribing(a.of)
    BY DEF PoolTypeOK, Subscribing
  <2> QED
    BY <1>3, <1>4, <1>9, <2>1 DEF SubscribeRejects
<1>10. CASE Forget
  <2>1. /\ poolTable' = [k \in PoolKeys |-> None]
        /\ live' = live - Cardinality(Filled)
    BY <1>10 DEF Forget, Filled
  <2>2. Filled' = {}
    BY <2>1 DEF Filled
  <2>3. Cardinality(Filled) \in Nat
    BY <1>1, FS_CardinalityType DEF LiveCounted
  <2>4. LiveCounted'
    BY <1>1, <2>1, <2>2, <2>3, FS_EmptySet DEF LiveCounted
  <2> QED
    BY <2>1, <2>4 DEF EntryCounted
<1> QED
    BY <1>2, <1>5, <1>6, <1>7, <1>8, <1>9, <1>10
    DEF PoolNext, RemoteNext, watchVars, poolVars, SubscribeResolves,
        RemoteSubscribes, RemoteRefuses, RemoteUnsubscribes

-----------------------------------------------------------------------------
(* The ends of a subscription                                              *)

\* Who will end the subscription s.
Ended(s) ==
    \/ \E k \in PoolKeys : poolTable[k] # None /\ entryId[poolTable[k]] = s.id
    \/ \E a \in answers : a.id = s.id
    \/ \E q \in requests : q.op = "unsubscribe" /\ q.id = s.id
    \/ \E e \in expired : watchKeyOf[e] = <<s.path, s.recursive>>

(* What one party gives up another takes over: the entry that goes leaves  *)
(* an unsubscribe, the answer its id, the expired call its key.            *)
LEMMA PoolKeepsEnds ==
    ASSUME PoolTypeOK, TableInvariant, WatchersNameEntries, OneSubscribeEach,
           CountsAreRight, NoLeakedSubscription, [PoolNext]_watchVars
    PROVE  NoLeakedSubscription'
<1> USE PoolAssumption DEF SubscribeCall, UnsubscribeCall
<1>1. \A s \in entries : Ended(s) /\ s.id \in Nat \ {0}
    BY DEF NoLeakedSubscription, Ended, TableInvariant
<1> SUFFICES ASSUME NEW s \in entries'
             PROVE  Ended(s)'
    BY DEF NoLeakedSubscription, Ended
<1> USE DEF Ended, PoolTypeOK
\* An expired call keeps the key of its entry, which is not idle.
<1>2. \A e \in expired : e \in Watchers /\ watcher[e] # "idle"
    BY DEF OneSubscribeEach, Subscribing
\* An entry that is still subscribing has no id to lose.
<1>3. \A e \in Watchers, k \in PoolKeys :
        Reject(e) /\ entryId[e] = 0 /\ poolTable[k] # None /\ entryId[poolTable[k]] # 0
            => poolTable'[k] = poolTable[k]
    BY DEF Reject, Drop
<1>4. ASSUME NEW u \in Watchers, NEW k \in PoolKeys, PoolJoins(u, k)
      PROVE  Ended(s)'
    BY <1>1, <1>2, <1>4 DEF PoolJoins, Hold, tableVars, wireVars
<1>5. ASSUME NEW u \in Watchers, NEW k \in PoolKeys, PoolSubscribes(u, k)
      PROVE  Ended(s)'
  <2>1. /\ s \in entries
        /\ poolTable[k] = None
        /\ poolTable' = [poolTable EXCEPT ![k] = u]
        /\ requests \subseteq requests'
        /\ UNCHANGED <<entryId, answers, expired>>
    BY <1>5 DEF PoolSubscribes, tableVars
  <2>2. \A e \in expired : watchKeyOf'[e] = watchKeyOf[e]
    BY <1>2, <1>5 DEF PoolSubscribes, Hold
  <2>3. \A j \in PoolKeys : poolTable[j] # None => poolTable'[j] = poolTable[j]
    BY <2>1
  <2>4. UNCHANGED <<answers, expired>> /\ s \in entries /\ requests \subseteq requests'
    BY <2>1
  <2>5. ASSUME NEW j \in PoolKeys, poolTable[j] # None, entryId[poolTable[j]] = s.id
        PROVE  Ended(s)'
    BY <2>1, <2>3, <2>5
  <2> QED
    BY <1>1, <2>2, <2>4, <2>5
<1>6. ASSUME NEW u \in Watchers, PoolRelease(u)
      PROVE  Ended(s)'
  <2> DEFINE e == entryOf[u]
             key == watchKeyOf[u]
  <2>1. /\ s \in entries /\ s.id # 0
        /\ UNCHANGED <<entryId, answers, expired, watchKeyOf>>
    BY <1>1, <1>6 DEF PoolRelease, tableVars, poolVars
  <2>2. e \in Watchers /\ key \in PoolKeys
    BY <1>6 DEF PoolRelease, WatchersNameEntries
  <2>3. requests \subseteq requests'
    BY <1>6 DEF PoolRelease, EndWatch
  <2>4. \A k \in PoolKeys :
            \/ poolTable'[k] = poolTable[k]
            \/ poolTable[k] = e /\ EndWatch(e)
    BY <1>6, <2>2 DEF PoolRelease, Drop, poolVars
  <2>5. ASSUME EndWatch(e), entryId[e] = s.id
        PROVE  Ended(s)'
    <3>1. UnsubscribeCall(e, s.id) \in requests'
      BY <2>1, <2>5 DEF EndWatch
    <3> QED
      BY <3>1
  <2>6. ASSUME NEW k \in PoolKeys, poolTable[k] # None, entryId[poolTable[k]] = s.id
        PROVE  Ended(s)'
    BY <2>1, <2>4, <2>5, <2>6
  <2> QED
    BY <1>1, <2>1, <2>3, <2>6
<1>7. ASSUME NEW e \in Watchers, SubscribeExpires(e)
      PROVE  Ended(s)'
  <2>1. entryId[e] = 0 /\ Reject(e) /\ s \in entries /\ s.id # 0
    BY <1>1, <1>7 DEF SubscribeExpires, OneSubscribeEach, tableVars
  <2>2. /\ UNCHANGED <<entryId, answers, requests, watchKeyOf>>
        /\ expired \subseteq expired'
    BY <1>7 DEF SubscribeExpires, watcherVars
  <2> QED
    BY <1>1, <1>3, <2>1, <2>2
<1>8. ASSUME NEW a \in answers, SubscribeRejects(a)
      PROVE  Ended(s)'
  <2>1. /\ entryId[a.of] = 0 /\ a.of \in Watchers /\ a.id = 0 /\ Reject(a.of)
        /\ s \in entries /\ s.id # 0
    BY <1>1, <1>8 DEF SubscribeRejects, OneSubscribeEach, tableVars
  <2>2. /\ UNCHANGED <<entryId, requests, watchKeyOf, expired>>
        /\ answers' = answers \ {a}
    BY <1>8 DEF SubscribeRejects, watcherVars
  <2> QED
    BY <1>1, <1>3, <2>1, <2>2
<1>9. ASSUME NEW a \in answers, SubscribeResolves(a)
      PROVE  Ended(s)'
  <2> DEFINE e == a.of
  <2>1. /\ entryId[e] = 0 /\ e \in Watchers /\ s \in entries /\ s.id # 0
        /\ answers' = answers \ {a}
        /\ UNCHANGED <<poolTable, watchKeyOf, expired>>
    BY <1>1, <1>9 DEF SubscribeResolves, OneSubscribeEach, tableVars, watcherVars
  <2>2. CASE e \in abandoned \/ poolTable[watchKeyOf[e]] # e
    <3>1. requests' = requests \cup {UnsubscribeCall(e, a.id)} /\ entryId' = entryId
      BY <1>9, <2>2 DEF SubscribeResolves
    <3>2. a.id = s.id => Ended(s)'
      <4>1. UnsubscribeCall(e, a.id) \in requests'
        BY <3>1
      <4> QED
        BY <4>1
    <3>3. UNCHANGED entryId /\ requests \subseteq requests'
      BY <3>1
    <3> QED
      BY <1>1, <2>1, <3>2, <3>3
  <2>3. CASE ~(e \in abandoned \/ poolTable[watchKeyOf[e]] # e)
    <3>1. entryId' = [entryId EXCEPT ![e] = a.id] /\ requests' = requests
      BY <1>9, <2>3 DEF SubscribeResolves
    <3>2. watchKeyOf[e] \in PoolKeys
      BY DEF OneSubscribeEach, Subscribing, WatchersNameEntries
    <3>3. a.id = s.id => Ended(s)'
      BY <2>1, <2>3, <3>1, <3>2
    <3> QED
      BY <1>1, <2>1, <3>1, <3>3
  <2> QED
    BY <2>2, <2>3
<1>10. CASE Forget
    BY <1>10 DEF Forget
<1>11. ASSUME NEW e \in Watchers, NEW id \in 1 .. MaxIds, RemoteSubscribes(e, id)
       PROVE  Ended(s)'
  <2>1. /\ requests' = requests \ {SubscribeCall(e)}
        /\ answers \subseteq answers'
        /\ UNCHANGED <<poolTable, entryId, expired, watchKeyOf>>
    BY <1>11 DEF RemoteSubscribes, Answer, poolVars, watcherVars
  <2>2. CASE s \in entries
    <3>1. \A q \in requests : q.op = "unsubscribe" => q \in requests'
      BY <2>1
    <3> QED
      BY <1>1, <2>1, <2>2, <3>1
  <2>3. CASE s \notin entries
    <3>1. /\ s.id = id
          /\ s.path = watchKeyOf[e][1] /\ s.recursive = watchKeyOf[e][2]
      BY <1>11, <2>3 DEF RemoteSubscribes, Subscribe, SubscribeAgain, SubscribeNew, tableVars
    <3>2. CASE e \in expired
      <4>1. watchKeyOf[e] \in PoolKeys
        BY <1>2, <3>2 DEF WatchersNameEntries
      <4>2. watchKeyOf[e] = <<s.path, s.recursive>>
        BY <3>1, <4>1 DEF PoolKeys
      <4> QED
        BY <2>1, <3>2, <4>2
    <3>3. CASE e \notin expired
      <4>1. [of |-> e, id |-> id] \in answers'
        BY <1>11, <3>3 DEF RemoteSubscribes, Answer
      <4> QED
        BY <3>1, <4>1
    <3> QED
      BY <3>2, <3>3
  <2> QED
    BY <2>2, <2>3
<1>12. ASSUME NEW e \in Watchers, RemoteRefuses(e)
       PROVE  Ended(s)'
  <2>1. /\ s \in entries
        /\ requests' = requests \ {SubscribeCall(e)}
        /\ answers \subseteq answers'
        /\ UNCHANGED <<poolTable, entryId, expired, watchKeyOf>>
    BY <1>12 DEF RemoteRefuses, Answer, tableVars, poolVars, watcherVars
  <2>2. \A q \in requests : q.op = "unsubscribe" => q \in requests'
    BY <2>1
  <2> QED
    BY <1>1, <2>1, <2>2
<1>13. ASSUME NEW q \in requests, RemoteUnsubscribes(q)
       PROVE  Ended(s)'
  <2>1. s \in entries /\ s.id # q.id
    BY <1>13 DEF RemoteUnsubscribes, Unsubscribe, ById
  <2> QED
    BY <1>1, <1>13, <2>1 DEF RemoteUnsubscribes, poolVars, watcherVars
<1>14. CASE UNCHANGED watchVars
    BY <1>1, <1>14 DEF watchVars, tableVars, poolVars, watcherVars, wireVars
<1> QED
    BY <1>4, <1>5, <1>6, <1>7, <1>8, <1>9, <1>10, <1>11, <1>12, <1>13, <1>14
    DEF PoolNext, RemoteNext

-----------------------------------------------------------------------------
(* Types, last: the counts are numbers because they count.                 *)
LEMMA PoolKeepsTypes ==
    ASSUME PoolTypeOK, TableInvariant', WatchersNameEntries, OneSubscribeEach,
           CountsAreRight, CountsAreFinite, CountsAreRight', CountsAreFinite',
           [PoolNext]_watchVars
    PROVE  PoolTypeOK'
<1> USE PoolAssumption DEF PoolTypeOK, SubscribeCall, UnsubscribeCall, Request
<1>1. TableTypeOK'
    BY DEF TableInvariant
<1>2. live' \in Nat
    BY FS_CardinalityType DEF CountsAreRight, CountsAreFinite, Filled
<1> HIDE DEF TableTypeOK
<1>3. ASSUME NEW u \in Watchers, NEW k \in PoolKeys, PoolJoins(u, k)
      PROVE  PoolTypeOK'
    BY <1>1, <1>3 DEF PoolJoins, Hold, wireVars
<1>4. ASSUME NEW u \in Watchers, NEW k \in PoolKeys, PoolSubscribes(u, k)
      PROVE  PoolTypeOK'
    BY <1>1, <1>4 DEF PoolSubscribes, Hold
<1>5. ASSUME NEW u \in Watchers, PoolRelease(u)
      PROVE  PoolTypeOK'
  <2>1. /\ entryOf[u] \in Watchers /\ watchKeyOf[u] \in PoolKeys
        /\ u \in HoldersOf(entryOf[u])
    BY <1>5 DEF PoolRelease, WatchersNameEntries, HoldersOf
  <2>2. poolTable[watchKeyOf[u]] = entryOf[u] => poolHolders[entryOf[u]] - 1 \in Nat
    <3> SUFFICES ASSUME poolTable[watchKeyOf[u]] = entryOf[u]
                 PROVE  poolHolders[entryOf[u]] - 1 \in Nat
      OBVIOUS
    <3>1. /\ IsFiniteSet(HoldersOf(entryOf[u]))
          /\ poolHolders[entryOf[u]] = Cardinality(HoldersOf(entryOf[u]))
      BY <2>1 DEF CountsAreRight, CountsAreFinite, Filled
    <3>2. Cardinality(HoldersOf(entryOf[u])) # 0
      BY <2>1, <3>1, FS_EmptySet
    <3> QED
      BY <2>1, <3>1, <3>2
  <2>3. /\ poolTable' \in [PoolKeys -> Watchers \cup {None}]
        /\ poolHolders' \in [Watchers -> Nat]
        /\ abandoned' \in SUBSET Watchers
        /\ requests' \in SUBSET Request
        /\ entryId' \in [Watchers -> Nat]
    BY <1>5, <2>1, <2>2 DEF PoolRelease, Drop, EndWatch, poolVars
  <2> QED
    BY <1>1, <1>2, <1>5, <2>3 DEF PoolRelease
<1>6. ASSUME NEW e \in Watchers, SubscribeExpires(e)
      PROVE  PoolTypeOK'
    BY <1>1, <1>2, <1>6 DEF SubscribeExpires, Reject, Drop, watcherVars
<1>7. ASSUME NEW a \in answers, SubscribeRejects(a)
      PROVE  PoolTypeOK'
    BY <1>1, <1>2, <1>7 DEF SubscribeRejects, Reject, Drop, watcherVars
<1>8. ASSUME NEW a \in answers, SubscribeResolves(a)
      PROVE  PoolTypeOK'
    BY <1>1, <1>8 DEF SubscribeResolves, watcherVars
<1>9. CASE Forget
    BY <1>1, <1>2, <1>9 DEF Forget, watcherVars
<1>10. ASSUME NEW e \in Watchers, NEW id \in 1 .. MaxIds, RemoteSubscribes(e, id)
       PROVE  PoolTypeOK'
    BY <1>1, <1>10 DEF RemoteSubscribes, Answer, poolVars, watcherVars
<1>11. ASSUME NEW e \in Watchers, RemoteRefuses(e)
       PROVE  PoolTypeOK'
    BY <1>1, <1>11 DEF RemoteRefuses, Answer, poolVars, watcherVars
<1>12. ASSUME NEW q \in requests, RemoteUnsubscribes(q)
       PROVE  PoolTypeOK'
    BY <1>1, <1>12 DEF RemoteUnsubscribes, poolVars, watcherVars
<1>13. CASE UNCHANGED watchVars
    BY <1>1, <1>13 DEF watchVars, poolVars, watcherVars, wireVars
<1> QED
    BY <1>3, <1>4, <1>5, <1>6, <1>7, <1>8, <1>9, <1>10, <1>11, <1>12, <1>13
    DEF PoolNext, RemoteNext

(* Every step keeps the invariant.                                         *)
LEMMA PoolNextHolds == PoolInvariant /\ [PoolNext]_watchVars => PoolInvariant'
<1> SUFFICES ASSUME PoolInvariant, [PoolNext]_watchVars
             PROVE  PoolInvariant'
    OBVIOUS
<1> USE DEF PoolInvariant
<1>1. TableInvariant'
    BY PoolKeepsTable
<1>2. CountsAreRight' /\ CountsAreFinite'
    BY PoolKeepsCounts
<1>3. PoolTypeOK'
    BY <1>1, <1>2, PoolKeepsTypes
<1>4. WatchersNameEntries'
    BY PoolKeepsNames
<1>5. OneSubscribeEach'
    BY PoolKeepsOneSubscribe
<1>6. ForgottenIsEmpty'
    BY PoolKeepsForgotten
<1>7. NoLeakedSubscription'
    BY PoolKeepsEnds
<1> QED
    BY <1>1, <1>2, <1>3, <1>4, <1>5, <1>6, <1>7

(* The inductive invariant of the pool and the table it drives.            *)
THEOREM PoolIsInvariant == PoolSpec => []PoolInvariant
<1>1. PoolInit => PoolInvariant
    BY PoolInitHolds
<1>2. PoolInvariant /\ [PoolNext]_watchVars => PoolInvariant'
    BY PoolNextHolds
<1> QED
    BY <1>1, <1>2, PTL DEF PoolSpec

(* Both ends of a watch agree on who still needs it, whatever order        *)
(* requests, answers, deadlines and releases come in: the pool's counts    *)
(* are of its holders, every entry of the helper has somebody who will end *)
(* it, a closed connection is not spoken to, and the OS watches what the   *)
(* helper's entries name (watch.ts, createWatchPool; watch.rs).            *)
THEOREM BothEndsAgree == PoolSpec => []PoolIsSound
<1>1. PoolInvariant => PoolIsSound
    BY DEF PoolInvariant, PoolIsSound, TableInvariant, SilentAfterForget, ForgottenIsEmpty
<1> QED
    BY <1>1, PoolIsInvariant, PTL
=============================================================================
