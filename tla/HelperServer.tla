---------------------------- MODULE HelperServer ----------------------------
(***************************************************************************)
(* The faragent-helper process on the remote host: the serving loop        *)
(* (main.rs, lib.rs) reads request lines from stdin and answers each; the  *)
(* pump thread (watch.rs) turns watcher events and git polls into pushes.  *)
(* Both write whole frames to one stdout under its lock, and the loop      *)
(* stands still while that pipe is full. Paths are directories: an event   *)
(* at d is about a file in d.                                              *)
(***************************************************************************)
EXTENDS SubscriptionTable, Sequences, SequencesExt

CONSTANTS
    Above,        \* Above[p]: p and the directories it is in
    Repos,        \* the directories inside a git repository
    FrameCap,     \* MAX_FRAME_BYTES
    Requests,     \* request lines a client may send
    OutSize,      \* frames the stdout pipe holds
    MaxLines,     \* bound: lines sent
    MaxCommits,   \* bound: changes of HEAD or index
    MaxPending,   \* bound: watcher events not taken yet
    Null

ASSUME ServerAssumption ==
    /\ Above \in [Paths -> SUBSET Paths] /\ \A p \in Paths : p \in Above[p]
    /\ Repos \subseteq Paths
    /\ FrameCap \in Nat \ {0} /\ OutSize \in Nat \ {0}
    /\ \A line \in Requests : line.size \in Nat
    /\ MaxLines \in Nat /\ MaxCommits \in Nat /\ MaxPending \in Nat
    /\ Null \notin 0..FrameCap

VARIABLES
    wire,      \* lines on their way to stdin; the head is being read
    lines,     \* lines sent so far; the id of a request
    hungUp,    \* has the client closed its end?
    taken,     \* bytes of the head line read_line has consumed
    buf,       \* bytes it has kept of them, or Null once it is oversized
    loop,      \* the serving loop
    reply,     \* the frame it is about to write
    expects,   \* the ids the client's unanswered lines are owed, in order
    pumping,   \* the pump thread: "none", "recv" or "emit"
    pushes,    \* the frames the pump is about to write
    chan,      \* watcher events the pump has not taken
    head,      \* the version of HEAD and index
    stamp,     \* stamp[id]: the version the entry last saw (git_stamp)
    told,      \* told[id]: the version the client last learned of
    out        \* frames in the stdout pipe

readVars == <<wire, lines, hungUp, taken, buf>>
loopVars == <<loop, reply, expects>>
pumpVars == <<pumping, pushes, chan>>
gitVars == <<head, stamp, told>>
serverVars == <<tableVars, readVars, loopVars, pumpVars, gitVars, out>>

Ids == 1..MaxIds
LineIds == 1..MaxLines
ReplyTo(id, is) == [id |-> id, is |-> is]
Push(id, is, version) == [push |-> id, is |-> is, version |-> version]
Answers == [id : LineIds \cup {Null}, is : {"ok", "error", "too_large", "bye"}]
Pushes == [push : Ids, is : {"fs", "git"}, version : 0..MaxCommits]

ServerTypeOK ==
    /\ TableTypeOK
    /\ lines \in 0..MaxLines /\ Len(wire) <= MaxLines /\ hungUp \in BOOLEAN
    /\ \A i \in DOMAIN wire : wire[i].line \in Requests
    /\ taken \in Nat /\ buf \in 0..FrameCap \cup {Null}
    /\ loop \in {"reading", "replying", "leaving", "exited"}
    /\ reply \in Answers \cup {Null}
    /\ expects \in Seq(LineIds \cup {Null})
    /\ pumping \in {"none", "recv", "emit"} /\ pushes \in Seq(Pushes)
    /\ chan \in Seq(Paths \cup {Null}) /\ Len(chan) <= MaxPending
    /\ head \in 0..MaxCommits
    /\ stamp \in [Ids -> 0..MaxCommits] /\ told \in [Ids -> 0..MaxCommits]
    /\ out \in Seq(Answers \cup Pushes) /\ Len(out) <= OutSize

ServerInit ==
    /\ TableInit
    /\ wire = <<>> /\ lines = 0 /\ hungUp = FALSE /\ taken = 0 /\ buf = 0
    /\ loop = "reading" /\ reply = Null /\ expects = <<>>
    /\ pumping = "none" /\ pushes = <<>> /\ chan = <<>>
    /\ head = 0 /\ stamp = [id \in Ids |-> 0] /\ told = [id \in Ids |-> 0]
    /\ out = <<>>

-----------------------------------------------------------------------------
(* The client and the host around it                                       *)

\* The id the reply to a line carries: Null when nothing can be read of it
\* (id_of), or when it is too long to be kept (reject_oversized)
IsBlank(line) == line.is = "blank" /\ line.size <= FrameCap
IdOf(line, id) == IF line.size > FrameCap \/ line.is = "junk" THEN Null ELSE id

ClientSends(line) ==
    /\ lines < MaxLines /\ ~hungUp /\ loop # "exited"
    /\ lines' = lines + 1
    /\ wire' = Append(wire, [line |-> line, id |-> lines'])
    /\ expects' = IF IsBlank(line) THEN expects ELSE Append(expects, IdOf(line, lines'))
    /\ UNCHANGED <<tableVars, hungUp, taken, buf, loop, reply, pumpVars, gitVars, out>>

ClientHears ==
    /\ out # <<>>
    /\ out' = Tail(out)
    /\ told' = IF "push" \in DOMAIN Head(out) /\ Head(out).is = "git"
               THEN [told EXCEPT ![Head(out).push] = Head(out).version] ELSE told
    /\ UNCHANGED <<tableVars, readVars, loopVars, pumpVars, head, stamp>>

ClientHangsUp ==
    /\ ~hungUp
    /\ hungUp' = TRUE
    /\ UNCHANGED <<tableVars, wire, lines, taken, buf, loopVars, pumpVars, gitVars, out>>

\* A file in d changes, or is read (Access, which kind_of drops): the OS tells
\* a watcher of d or of a directory above
FileChanges(d, event) ==
    /\ pumping # "none" /\ Len(chan) < MaxPending
    /\ Above[d] \cap watched # {}
    /\ event \in {d, Null}
    /\ chan' = Append(chan, event)
    /\ UNCHANGED <<tableVars, readVars, loopVars, pumping, pushes, gitVars, out>>

Commit ==
    /\ head < MaxCommits
    /\ head' = head + 1
    /\ UNCHANGED <<tableVars, readVars, loopVars, pumpVars, stamp, told, out>>

-----------------------------------------------------------------------------
(* read_line: a line arrives in pieces of any length                       *)

Here == Head(wire)
Kept(n) == IF buf = Null \/ buf + n > FrameCap THEN Null ELSE buf + n

ReadsPart ==
    /\ loop = "reading" /\ wire # <<>>
    /\ \E n \in 1..(Here.line.size - taken) : taken' = taken + n /\ buf' = Kept(n)
    /\ UNCHANGED <<tableVars, wire, lines, hungUp, loopVars, pumpVars, gitVars, out>>

\* The newline: the next line starts with an empty buffer
Mutant_NextLine == buf' = buf /\ taken' = 0 /\ wire' = Tail(wire)
NextLine == buf' = 0 /\ taken' = 0 /\ wire' = Tail(wire)

Replies(frame) == reply' = frame /\ loop' = "replying"

BlankLine ==
    /\ Here.line.is = "blank"
    /\ UNCHANGED <<tableVars, loop, reply, pumping, stamp>>

\* reject_oversized; handle, for a line that is not a request
Mutant_SilentWhenOversized(kept) ==
    /\ \/ kept = Null /\ UNCHANGED <<reply, loop>>
       \/ kept # Null /\ Here.line.is = "junk" /\ Replies(ReplyTo(Null, "error"))
       \/ kept # Null /\ Here.line.is = "labelled" /\ Replies(ReplyTo(Here.id, "error"))
    /\ UNCHANGED <<tableVars, pumping, stamp>>
RejectedLine(kept) ==
    /\ \/ kept = Null /\ Replies(ReplyTo(Null, "error"))
       \/ kept # Null /\ Here.line.is = "junk" /\ Replies(ReplyTo(Null, "error"))
       \/ kept # Null /\ Here.line.is = "labelled" /\ Replies(ReplyTo(Here.id, "error"))
    /\ UNCHANGED <<tableVars, pumping, stamp>>

\* Request ops other than the watch ops answer with data, an error, or a reply
\* that encode found too large; none of them changes the server
PlainOp ==
    /\ Here.line.is = "op"
    /\ \E is \in {"ok", "error", "too_large"} : Replies(ReplyTo(Here.id, is))
    /\ UNCHANGED <<tableVars, pumping, stamp>>

Shutdown ==
    /\ Here.line.is = "shutdown"
    /\ reply' = ReplyTo(Here.id, "bye") /\ loop' = "leaving"
    /\ UNCHANGED <<tableVars, pumping, stamp>>

\* Watchers::subscribe: the baseline is taken with the entry
Baseline(id) == IF id \in {e.id : e \in entries} THEN stamp ELSE [stamp EXCEPT ![id] = head]

SubscribeOp ==
    /\ Here.line.is = "subscribe"
    /\ \/ \E id \in Ids :
              /\ Subscribe(Here.line.path, Here.line.recursive, id)
              /\ stamp' = Baseline(id)
              /\ pumping' = IF pumping = "none" THEN "recv" ELSE pumping
              /\ Replies(ReplyTo(Here.id, "ok"))
       \/ /\ Found(Here.line.path, Here.line.recursive) = {}
          \* no watcher can be started, or it refuses the path
          /\ pumping' \in {pumping} \cup (IF pumping = "none" THEN {"recv"} ELSE {})
          /\ Replies(ReplyTo(Here.id, "error"))
          /\ UNCHANGED <<tableVars, stamp>>

UnsubscribeOp ==
    /\ Here.line.is = "unsubscribe"
    /\ Unsubscribe(ByPath(Here.line.path))
    /\ Replies(ReplyTo(Here.id, "ok"))
    /\ UNCHANGED <<pumping, stamp>>

\* main.rs run: one line, served
ServesLine ==
    /\ loop = "reading" /\ wire # <<>> /\ taken = Here.line.size
    /\ NextLine
    /\ \/ buf # Null /\ (BlankLine \/ PlainOp \/ Shutdown \/ SubscribeOp \/ UnsubscribeOp)
       \/ RejectedLine(buf)
    /\ told' = [id \in Ids |-> IF stamp'[id] # stamp[id] THEN stamp'[id] ELSE told[id]]
    /\ UNCHANGED <<lines, hungUp, expects, pushes, chan, head, out>>

\* The peer closed the pipe: an orderly end. The pump ends with the process.
ServesEof ==
    /\ loop = "reading" /\ wire = <<>> /\ hungUp
    /\ loop' = "exited"
    /\ UNCHANGED <<tableVars, readVars, reply, expects, pumpVars, gitVars, out>>

\* write_frame: blocks while the pipe is full, and drops the frame when the
\* reader is gone
Writes(frame) ==
    \/ Len(out) < OutSize /\ out' = Append(out, frame)
    \/ hungUp /\ UNCHANGED out

WritesReply ==
    /\ loop \in {"replying", "leaving"}
    /\ Writes(reply)
    /\ loop' = IF loop = "leaving" THEN "exited" ELSE "reading"
    /\ reply' = Null
    /\ expects' = IF expects = <<>> THEN expects ELSE Tail(expects)
    /\ UNCHANGED <<tableVars, readVars, pumpVars, gitVars>>

-----------------------------------------------------------------------------
(* The pump                                                                *)

\* emit_fs: the most specific subscription above the path owns the event, and
\* the last one entered among equals
Homes(d) == {e \in entries : e.path \in Above[d]}
Owner(d) == CHOOSE e \in Homes(d) : \A f \in Homes(d) :
               \/ Cardinality(Above[f.path]) < Cardinality(Above[e.path])
               \/ Cardinality(Above[f.path]) = Cardinality(Above[e.path]) /\ f.id <= e.id

PumpEvent ==
    /\ pumping = "recv" /\ chan # <<>> /\ loop # "exited"
    /\ chan' = Tail(chan)
    /\ IF Head(chan) = Null \/ Homes(Head(chan)) = {}
       THEN UNCHANGED <<pumping, pushes>>
       ELSE pumping' = "emit" /\ pushes' = <<Push(Owner(Head(chan)).id, "fs", 0)>>
    /\ UNCHANGED <<tableVars, readVars, loopVars, gitVars, out>>

\* recv_timeout: no event for a whole interval; emit_git under the table's lock
Stale == {e.id : e \in {x \in entries : x.path \in Repos /\ stamp[x.id] # head}}

Mutant_PollPushesOne ==
    /\ pumping = "recv" /\ chan = <<>> /\ loop # "exited"
    /\ Stale # {}
    /\ stamp' = [id \in Ids |-> IF id \in Stale THEN head ELSE stamp[id]]
    /\ \E id \in Stale : pushes' = <<Push(id, "git", head)>>
    /\ pumping' = "emit"
    /\ UNCHANGED <<tableVars, readVars, loopVars, chan, head, told, out>>
PumpPolls ==
    /\ pumping = "recv" /\ chan = <<>> /\ loop # "exited"
    /\ Stale # {}
    /\ stamp' = [id \in Ids |-> IF id \in Stale THEN head ELSE stamp[id]]
    /\ pushes' = SetToSortSeq({Push(id, "git", head) : id \in Stale},
                              LAMBDA a, b : a.push < b.push)
    /\ pumping' = "emit"
    /\ UNCHANGED <<tableVars, readVars, loopVars, chan, head, told, out>>

\* The frames are written with no lock on the table
PumpWrites ==
    /\ pumping = "emit" /\ loop # "exited"
    /\ Writes(Head(pushes))
    /\ pushes' = Tail(pushes)
    /\ pumping' = IF Tail(pushes) = <<>> THEN "recv" ELSE pumping
    /\ UNCHANGED <<tableVars, readVars, loopVars, chan, gitVars>>

-----------------------------------------------------------------------------
ServerNext ==
    \/ \E line \in Requests : ClientSends(line)
    \/ ClientHears \/ ClientHangsUp \/ Commit
    \/ \E d \in Paths : FileChanges(d, d) \/ FileChanges(d, Null)
    \/ ReadsPart \/ ServesLine \/ ServesEof \/ WritesReply
    \/ PumpEvent \/ PumpPolls \/ PumpWrites

\* The loop and the pump are threads of the process; the client reads what it
\* is sent (its reader thread does nothing else). Each thread gets the lock of
\* the writer some time though the other one keeps taking it.
ServerFairness ==
    /\ WF_serverVars(ReadsPart \/ ServesLine) /\ SF_serverVars(WritesReply)
    /\ WF_serverVars(PumpEvent \/ PumpPolls) /\ SF_serverVars(PumpWrites)
    /\ WF_serverVars(ClientHears)
ServerSpec == ServerInit /\ [][ServerNext]_serverVars
ServerFairSpec == ServerSpec /\ ServerFairness

-----------------------------------------------------------------------------
\* Every line that is not blank is owed one frame that names it, and gets it in
\* its turn: however the bytes arrive, whatever the line before it was, and
\* whatever the pump writes in between (read_line, handle, id_of).
AnswersNameTheirLine ==
    [][(loop \in {"replying", "leaving"}) /\ reply' = Null =>
           expects # <<>> /\ reply.id = Head(expects)]_serverVars

\* ... and it does get it, as long as the process has not been told to leave.
EveryLineIsAnswered ==
    expects # <<>> ~> expects = <<>> \/ hungUp \/ loop = "exited"

\* A commit after the subscribe's baseline is pushed, even one within the first
\* interval, unless file events keep coming (watch.rs: git_stamp, pump).
Unaware(id) == \E e \in entries : e.id = id /\ e.path \in Repos /\ told[id] # head
CommitIsPushed ==
    \A id \in Ids : Unaware(id) ~> ~Unaware(id) \/ chan # <<>> \/ hungUp \/ loop = "exited"
=============================================================================
