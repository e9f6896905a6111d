----------------------------- MODULE Transcript -----------------------------
(***************************************************************************)
(* Tailing a session's transcript (lib/chat/transcript.ts) over the helper *)
(* connection: a window at the end of a growing file, a drain that follows *)
(* it on pushes, an earlier window for a reader who scrolls up. Every call *)
(* is a round trip; what the client holds may change before its answer.    *)
(* A file is a sequence of bytes, a line one or two of them. All tails of  *)
(* one directory share one subscription of the remote, which knows paths.  *)
(***************************************************************************)
EXTENDS Naturals, Sequences, SequencesExt, FiniteSetsExt, Absent

CONSTANTS
    Tails,       \* transcripts in one directory, each opened at most once
    WindowBytes, ChunkBytes,
    MaxAwaitRetries,
    MaxBytes,    \* bound: bytes written for a transcript, in all its files
    MaxFiles,    \* bound: how often its file is made anew
    MaxFailures  \* bound: reads and stats the helper or the channel fails

ASSUME TranscriptAssumption ==
    /\ {WindowBytes, ChunkBytes} \subseteq Nat \ {0}
    /\ {MaxAwaitRetries, MaxBytes, MaxFiles, MaxFailures} \subseteq Nat

VARIABLES
    files,      \* files[t]: the contents of t's file, one after another
    directory,  \* does the directory exist?
    watch,      \* its subscription on the remote, or None
    minted,     \* subscription ids given out
    unsubs,     \* unsubscribes on their way
    changed,    \* changed[t]: fs.changed of t's file on their way
    failures,   \* how many reads and stats have failed
    tail        \* tail[t]: a TranscriptTail, see TranscriptInit

farVars == <<files, directory, watch, minted, unsubs, changed, failures>>
transcriptVars == <<farVars, tail>>

-----------------------------------------------------------------------------
(* Framing, and the model                                                  *)

\* The byte at i ends a line, and what stands before it since the last line
\* end is that line's head: what JSON.parse accepts
Whole(bytes, i) ==
    /\ bytes[i].last
    /\ IF bytes[i].first THEN i = 1 \/ bytes[i - 1].last
       ELSE /\ i > 1 /\ bytes[i - 1].first /\ ~bytes[i - 1].last
            /\ bytes[i - 1].line = bytes[i].line
            /\ i = 2 \/ bytes[i - 2].last
Ends(bytes) == {i \in DOMAIN bytes : Whole(bytes, i)}
\* The k-th of a set of positions
Nth(S, k) == CHOOSE i \in S : Cardinality({j \in S : j <= i}) = k
Records(bytes) == [k \in 1 .. Cardinality(Ends(bytes)) |-> bytes[Nth(Ends(bytes), k)].line]
LineEnds(bytes) == {i \in DOMAIN bytes : bytes[i].last}
Rest(bytes) == SubSeq(bytes, Max(LineEnds(bytes) \cup {0}) + 1, Len(bytes))
From(bytes, i) == SubSeq(bytes, i, Len(bytes))
Least(a, b) == IF a < b THEN a ELSE b
\* What is kept of a window from `at` on: it begins behind its first line end
FirstEnd(bytes) == IF LineEnds(bytes) = {} THEN 0 ELSE Min(LineEnds(bytes))
Kept(bytes, at) == IF at > 0 THEN From(bytes, FirstEnd(bytes) + 1) ELSE bytes

\* `of` is not the code's: which file of `files` the bytes were read from
Blank == [records |-> <<>>, start |-> 0, offset |-> 0, partial |-> <<>>, of |-> 0]

\* mutant: the window's first line, cut by its edge or not, is kept
Mutant_OpenTailKeepsTheEdge(bytes, size, of) ==
    [records |-> Records(bytes), partial |-> Rest(bytes), of |-> of,
     start |-> size - Least(Len(bytes), size), offset |-> size]
OpenTail(bytes, size, of) ==
    LET at == size - Least(Len(bytes), size)
    IN IF at > 0 /\ FirstEnd(bytes) = 0
       THEN [Blank EXCEPT !.partial = bytes, !.start = size, !.offset = size, !.of = of]
       ELSE [records |-> Records(Kept(bytes, at)), partial |-> Rest(Kept(bytes, at)), of |-> of,
             start |-> IF at > 0 THEN at + FirstEnd(bytes) ELSE 0, offset |-> at + Len(bytes)]

AppendTo(m, bytes, of) ==
    LET joined == m.partial \o bytes
    IN [m EXCEPT !.records = @ \o Records(joined), !.partial = Rest(joined),
                 !.offset = @ + Len(bytes), !.of = of]

Prepend(m, bytes) ==
    LET at == m.start - Least(Len(bytes), m.start)
    IN IF at > 0 /\ FirstEnd(bytes) = 0 THEN m
       ELSE [m EXCEPT !.records = Records(Kept(bytes, at)) \o @,
                      !.start = IF at > 0 THEN at + FirstEnd(bytes) ELSE 0]

-----------------------------------------------------------------------------
(* The calls, each with its answer once the remote has given one           *)
NoCall == [op |-> "none", offset |-> 0, limit |-> 0, size |-> 0, stale |-> FALSE, answer |-> None]
StatCall == [NoCall EXCEPT !.op = "stat"]
\* readFile: from an offset, or the window that ends at the size stat has given
ReadCall(from, n) == [NoCall EXCEPT !.op = "read", !.offset = from, !.limit = n]
WindowCall(size, n) == [NoCall EXCEPT !.op = "window", !.offset = size - n, !.limit = n, !.size = size]

File(t) == Last(files[t])
Truth(t, c) ==
    IF files[t] = <<>> THEN [is |-> "not_found"]
    ELSE [is   |-> "ok", size |-> Len(File(t)), of |-> Len(files[t]),
          data |-> IF c.op = "stat" THEN <<>>
                   ELSE SubSeq(File(t), c.offset + 1,
                               Least(c.offset + Max({c.limit, 1}), Len(File(t))))]
Failure == [is |-> "error"]

-----------------------------------------------------------------------------
(* The tail's own steps, as functions of the tail. `raced`, not the code's, *)
(* names the races a tail has lost so far.                                 *)

Gone(x) == x.at \in {"closed", "failed"}
Lost(x, race, happened) == IF happened THEN [x EXCEPT !.raced = @ \cup {race}] ELSE x
\* What an earlier window in flight was asked for is no longer what is held
Stales(x) == [x EXCEPT !.earlier.stale = x.earlier # NoCall]

\* settled: a wait is over, and so is its timer
Settled(x) == [x EXCEPT !.awaiting = FALSE, !.retries = 0,
                        !.knock = IF @ = "armed" THEN "none" ELSE @]
HoldEmpty(x) ==
    Stales(Lost([x EXCEPT !.awaiting = TRUE, !.model = Blank], "overtaken", x.model.offset > 0))
ScheduleAwaitRetry(x) ==
    IF Gone(x) \/ ~x.awaiting \/ x.retries >= MaxAwaitRetries
    THEN [x EXCEPT !.knock = "none"]
    ELSE [x EXCEPT !.knock = "armed", !.retries = @ + 1]
\* A window replaces the model. Once it holds a record, or is the whole file,
\* the tail is settled; else a wider one is asked for.
TakeWindow(x, c, job) ==
    LET a == c.answer
        m == OpenTail(a.data, a.size, a.of)
        older == a.of < x.model.of \/ (a.of = x.model.of /\ m.offset < x.model.offset)
        y == Stales(Lost(Lost([x EXCEPT !.model = m], "overtaken", older), "grew", a.size > c.size))
    IN IF m.records # <<>> \/ c.limit >= c.size THEN [Settled(y) EXCEPT ![job] = NoCall]
       ELSE [y EXCEPT ![job] = WindowCall(c.size, Least(2 * c.limit, c.size))]

\* mutant: a push that finds the drain busy is taken to be covered by it
Mutant_RefreshJoinsOnly(x) ==
    IF Gone(x) \/ x.drain # NoCall THEN x
    ELSE [x EXCEPT !.dirty = FALSE, !.drain = ReadCall(x.model.offset, ChunkBytes)]
\* refresh: the second marks the drain dirty rather than racing it
Refresh(x) ==
    IF Gone(x) THEN x
    ELSE IF x.drain # NoCall THEN [x EXCEPT !.dirty = TRUE]
    ELSE [x EXCEPT !.dirty = FALSE, !.drain = ReadCall(x.model.offset, ChunkBytes)]
\* The end of the drain resumes a knock that awaits it
EndDrain(x) ==
    LET y == [x EXCEPT !.drain = NoCall]
    IN IF x.knock = "refreshing" THEN ScheduleAwaitRetry(y) ELSE y
\* readToEnd is done: once more if something was pushed meanwhile
EndPass(x) ==
    IF x.dirty /\ ~Gone(x)
    THEN [x EXCEPT !.dirty = FALSE, !.drain = ReadCall(x.model.offset, ChunkBytes)]
    ELSE EndDrain(x)

\* readTail, begun by open or by a rewind, on the answer to its stat
ReadTail(x, job) == [x EXCEPT ![job] = StatCall]
AskWindow(x, job, size) == [x EXCEPT ![job] = WindowCall(size, Least(WindowBytes, size))]
\* readToEnd, on the answer to a read: rewind, or append and read on
TakeChunk(x, c) ==
    LET a == c.answer
        raced == Lost(Lost(Settled(x), "overtaken", c.offset # x.model.offset),
                      "spliced", x.model.offset > 0 /\ a.of # x.model.of)
        read == [raced EXCEPT !.model = AppendTo(@, a.data, a.of)]
    IN IF a.size < c.offset THEN ReadTail(Settled(x), "drain")
       ELSE IF a.data = <<>> \/ c.offset + Len(a.data) >= a.size THEN EndPass(read)
       ELSE [read EXCEPT !.drain = ReadCall(read.model.offset, ChunkBytes)]
\* open resolves; a tail that waits unwatched knocks
Opened(x) ==
    LET y == [x EXCEPT !.at = "open", !.open = NoCall]
    IN IF y.sub = None THEN ScheduleAwaitRetry(y) ELSE y
\* close, as the reader's or as that of an open that failed
Shut(x, at) == [x EXCEPT !.at = at, !.open = NoCall, !.hears = FALSE, !.sub = None,
                         !.knock = IF @ = "armed" THEN "none" ELSE @]

-----------------------------------------------------------------------------
(* The files, the helper, and the wire                                     *)

Fresh == [at |-> "new", sub |-> None, hears |-> FALSE, awaiting |-> FALSE, retries |-> 0,
          dirty |-> FALSE, knock |-> "none", ask |-> "none", given |-> None, model |-> Blank,
          open |-> NoCall, drain |-> NoCall, earlier |-> NoCall, raced |-> {}]
Jobs == {"open", "drain", "earlier"}

TranscriptInit ==
    /\ files = [t \in Tails |-> <<>>]
    /\ directory \in BOOLEAN
    /\ watch = None /\ minted = 0 /\ unsubs = {} /\ failures = 0
    /\ changed = [t \in Tails |-> FALSE]
    /\ tail = [t \in Tails |-> Fresh]

\* The helper's answer is on its way; the pushes of one batch are one
Pushed(t) == changed' = [changed EXCEPT ![t] = @ \/ watch # None]
DirectoryAppears ==
    /\ ~directory /\ directory' = TRUE
    /\ UNCHANGED <<files, watch, minted, unsubs, changed, tail, failures>>
FileIsMade(t) ==
    /\ directory /\ Len(files[t]) < MaxFiles
    /\ files' = [files EXCEPT ![t] = Append(@, <<>>)] /\ Pushed(t)
    /\ UNCHANGED <<directory, watch, minted, unsubs, tail, failures>>
\* A line of one byte, or of two
FileGrows(t) ==
    /\ files[t] # <<>> /\ Len(FlattenSeq(files[t])) < MaxBytes
    /\ LET bytes == File(t)
           starts == bytes = <<>> \/ Last(bytes).last
           line == IF starts THEN <<Len(files[t]), Len(bytes)>> ELSE Last(bytes).line
       IN \E last \in (IF starts THEN BOOLEAN ELSE {TRUE}) :
             files' = [files EXCEPT ![t][Len(files[t])] =
                          Append(@, [line |-> line, first |-> starts, last |-> last])]
    /\ Pushed(t)
    /\ UNCHANGED <<directory, watch, minted, unsubs, tail, failures>>

\* A directory that is watched already keeps its id, whoever asks
Subscribes(t) ==
    /\ tail[t].ask = "sent"
    /\ \/ /\ directory /\ watch # None
          /\ tail' = [tail EXCEPT ![t].ask = "taken", ![t].given = watch]
          /\ UNCHANGED <<watch, minted>>
       \/ /\ directory /\ watch = None
          /\ watch' = minted + 1 /\ minted' = minted + 1
          /\ tail' = [tail EXCEPT ![t].ask = "taken", ![t].given = minted + 1]
       \/ /\ ~directory
          /\ tail' = [tail EXCEPT ![t].ask = "refused"]
          /\ UNCHANGED <<watch, minted>>
    /\ UNCHANGED <<files, directory, unsubs, changed, failures>>
Unsubscribes ==
    /\ \E id \in unsubs : /\ unsubs' = unsubs \ {id}
                         /\ watch' = IF watch = id THEN None ELSE watch
    /\ UNCHANGED <<files, directory, minted, changed, tail, failures>>
Serves(t, job) ==
    /\ tail[t][job] # NoCall /\ tail[t][job].answer = None
    /\ \/ /\ tail' = [tail EXCEPT ![t][job].answer = Truth(t, tail[t][job])]
          /\ UNCHANGED failures
       \/ /\ failures < MaxFailures /\ failures' = failures + 1
          /\ tail' = [tail EXCEPT ![t][job].answer = Failure]
    /\ UNCHANGED <<files, directory, watch, minted, unsubs, changed>>

-----------------------------------------------------------------------------
(* The tail's steps                                                        *)

Becomes(t, x) == tail' = [tail EXCEPT ![t] = x]
Drops(id) == unsubs' = unsubs \cup ({id} \ {None})

TabOpens(t) ==
    /\ tail[t].at = "new"
    /\ Becomes(t, [tail[t] EXCEPT !.at = "subscribing", !.ask = "sent"])
    /\ UNCHANGED farVars
\* The watch first, then the window; a watch that is refused is not fatal
Listens(x) == IF x.ask = "taken"
              THEN [x EXCEPT !.ask = "none", !.given = None, !.sub = x.given, !.hears = TRUE]
              ELSE [x EXCEPT !.ask = "none"]
OpenListens(t) ==
    /\ tail[t].at = "subscribing" /\ tail[t].ask \in {"taken", "refused"}
    /\ Becomes(t, ReadTail([Listens(tail[t]) EXCEPT !.at = "reading"], "open"))
    /\ UNCHANGED farVars
\* readTail in open: anything but an absent file is the open's own failure
OpenReads(t) ==
    LET x == tail[t]
        c == x.open
        a == c.answer
    IN /\ c.op # "none" /\ a # None
       /\ \/ /\ a.is = "ok" /\ c.op = "stat"
             /\ Becomes(t, AskWindow(x, "open", a.size)) /\ UNCHANGED unsubs
          \/ /\ a.is = "ok" /\ c.op = "window"
             /\ LET y == TakeWindow(x, c, "open")
                IN Becomes(t, IF y.open = NoCall THEN Opened(y) ELSE y)
             /\ UNCHANGED unsubs
          \/ /\ a.is = "not_found" /\ c.op = "stat"
             /\ Becomes(t, Opened(HoldEmpty(x))) /\ UNCHANGED unsubs
          \/ /\ a.is = "error" \/ (a.is = "not_found" /\ c.op = "window")
             /\ Becomes(t, Shut(x, "failed")) /\ Drops(x.sub)
       /\ UNCHANGED <<files, directory, watch, minted, changed, failures>>

\* The event channel; a handler that is not there, or of a closed tail, drops it
PushArrives(t) ==
    /\ changed[t] /\ changed' = [changed EXCEPT ![t] = FALSE]
    /\ Becomes(t, IF tail[t].hears THEN Refresh(tail[t]) ELSE tail[t])
    /\ UNCHANGED <<files, directory, watch, minted, unsubs, failures>>

\* The drain: a failure ends it, and what was pushed meanwhile waits for the next
DrainReads(t) ==
    LET x == tail[t]
        c == x.drain
        a == c.answer
    IN /\ c.op # "none" /\ a # None
       /\ \/ a.is = "ok" /\ c.op = "read" /\ Becomes(t, TakeChunk(x, c))
          \/ a.is = "ok" /\ c.op = "stat" /\ Becomes(t, AskWindow(x, "drain", a.size))
          \/ /\ a.is = "ok" /\ c.op = "window"
             /\ LET y == TakeWindow(x, c, "drain")
                IN Becomes(t, IF y.drain = NoCall THEN EndPass(y) ELSE y)
          \/ /\ a.is = "not_found"
             /\ c.op = "stat" \/ (c.op = "read" /\ c.offset = 0 /\ x.model.records = <<>>)
             /\ Becomes(t, EndPass(HoldEmpty(x)))
          \/ /\ \/ a.is = "error"
                \/ a.is = "not_found" /\ c.op = "window"
                \/ a.is = "not_found" /\ c.op = "read" /\ (c.offset > 0 \/ x.model.records # <<>>)
             /\ Becomes(t, EndDrain(Lost(x, IF c.op = "window" THEN "torn" ELSE "failed", TRUE)))
       /\ UNCHANGED farVars

\* loadEarlier: one at a time (loadingRef); wider while `start` does not move
LoadsEarlier(t) ==
    LET want == Least(ChunkBytes, tail[t].model.start)
    IN /\ tail[t].at = "open" /\ want > 0 /\ tail[t].earlier = NoCall
       /\ Becomes(t, [tail[t] EXCEPT !.earlier = ReadCall(tail[t].model.start - want, want)])
       /\ UNCHANGED farVars
EarlierReads(t) ==
    LET x == tail[t]
        c == x.earlier
        a == c.answer
        before == c.offset + c.limit
        m == IF a.data = <<>> THEN x.model ELSE Prepend(x.model, a.data)
        y == Lost(Lost([x EXCEPT !.model = m], "earlier", c.stale /\ m # x.model),
                  "spliced", ~c.stale /\ a.of # x.model.of)
        wider == Least(2 * c.limit, before)
    IN /\ c.op # "none" /\ a # None
       /\ IF a.is # "ok" \/ m.start < before \/ c.limit >= before \/ wider > m.start
          THEN Becomes(t, [(IF a.is = "ok" THEN y ELSE x) EXCEPT !.earlier = NoCall])
          ELSE Becomes(t, [y EXCEPT !.earlier = ReadCall(m.start - wider, wider)])
       /\ UNCHANGED farVars

KnockFires(t) ==
    LET x == tail[t]
    IN /\ x.knock = "armed"
       /\ Becomes(t, IF x.sub = None THEN [x EXCEPT !.knock = "subscribing", !.ask = "sent"]
                      ELSE Refresh([x EXCEPT !.knock = "refreshing"]))
       /\ UNCHANGED farVars
\* A tail that was closed meanwhile gives back what it was just given
KnockListens(t) ==
    LET x == tail[t]
    IN /\ x.knock = "subscribing" /\ x.ask \in {"taken", "refused"}
       /\ IF Gone(x)
          THEN /\ Becomes(t, [x EXCEPT !.knock = "none", !.ask = "none", !.given = None])
               /\ Drops(x.given)
          ELSE /\ Becomes(t, Refresh([Listens(x) EXCEPT !.knock = "refreshing"]))
               /\ UNCHANGED unsubs
       /\ UNCHANGED <<files, directory, watch, minted, changed, failures>>

\* The last mount's lease closes what it opened
TabCloses(t) ==
    /\ tail[t].at = "open"
    /\ Becomes(t, Shut(tail[t], "closed")) /\ Drops(tail[t].sub)
    /\ UNCHANGED <<files, directory, watch, minted, changed, failures>>

TranscriptNext ==
    \/ DirectoryAppears
    \/ Unsubscribes
    \/ \E t \in Tails :
          \/ FileIsMade(t) \/ FileGrows(t)
          \/ TabOpens(t) \/ LoadsEarlier(t) \/ TabCloses(t)
          \/ Subscribes(t) \/ \E job \in Jobs : Serves(t, job)
          \/ OpenListens(t) \/ OpenReads(t) \/ PushArrives(t) \/ DrainReads(t)
          \/ EarlierReads(t) \/ KnockFires(t) \/ KnockListens(t)

\* The helper serves and the page's promises resolve; nobody need write or read
TranscriptFairness ==
    /\ WF_transcriptVars(Unsubscribes)
    /\ \A t \in Tails :
          /\ WF_transcriptVars(Subscribes(t))
          /\ \A job \in Jobs : WF_transcriptVars(Serves(t, job))
          /\ WF_transcriptVars(OpenListens(t)) /\ WF_transcriptVars(OpenReads(t))
          /\ WF_transcriptVars(PushArrives(t)) /\ WF_transcriptVars(DrainReads(t))
          /\ WF_transcriptVars(EarlierReads(t))
          /\ WF_transcriptVars(KnockFires(t)) /\ WF_transcriptVars(KnockListens(t))

TranscriptSpec == TranscriptInit /\ [][TranscriptNext]_transcriptVars
TranscriptFairSpec == TranscriptSpec /\ TranscriptFairness

-----------------------------------------------------------------------------
(* Properties                                                              *)

\* What a tail shows: the records of one file from a line boundary to where
\* the next read begins, and the unfinished line behind them
Faithful(m, t) ==
    \/ m = Blank
    \/ /\ m.of \in DOMAIN files[t]
       /\ LET bytes == files[t][m.of]
              held == SubSeq(bytes, m.start + 1, m.offset)
          IN /\ m.start <= m.offset /\ m.offset <= Len(bytes)
             /\ m.start = 0 \/ bytes[m.start].last
             /\ m.records = Records(held) /\ m.partial = Rest(held)
\* Read by someone, and not between two windows of one readTail
Shown(x) == x.at = "open" /\ x.drain.op # "window"

\* However writes, pushes, windows and scrolls up interleave, a tail holds a
\* stretch of one file: no record twice, none left out between two others,
\* none put together from two. `raced` names the interleavings it does lose:
\* a file that grows between stat and window, a push handled while open still
\* reads, a scroll up answered after a rewind, a file replaced by a longer one.
HeldIsTheFile ==
    \A t \in Tails : (Shown(tail[t]) /\ tail[t].raced \subseteq {"failed"})
                        => Faithful(tail[t].model, t)

CaughtUp(t) ==
    \/ files[t] = <<>>
    \/ tail[t].model.of = Len(files[t]) /\ tail[t].model.offset = Len(File(t))
    \/ File(t) = <<>> /\ tail[t].model.offset = 0
Watched(t) == tail[t].at = "open" /\ tail[t].sub # None /\ tail[t].sub = watch
\* A tail that is open and watched reaches the end of its file over and over,
\* whichever push or knock comes first; and when every tab has left, or failed
\* to open, the directory is watched no more.
TailFollows ==
    /\ \A t \in Tails : []<>(~Watched(t) \/ tail[t].raced # {} \/ CaughtUp(t))
    /\ []<>(watch = None \/ \E t \in Tails : ~Gone(tail[t]))

\* use-transcript.ts:8-13: a first close that unsubscribes the survivor is what
\* the lease keyed by host and path is there for.
OpenTailIsWatched == \A t \in Tails : (tail[t].at = "open" /\ tail[t].sub # None) => Watched(t)
=============================================================================
