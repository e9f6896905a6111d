------------------------------ MODULE HelperOps ------------------------------
(***************************************************************************)
(* The read-only ops of faragent-helper (ops/fs.rs, ops/git.rs): what one  *)
(* request answers, from the file system and from what git prints. Names   *)
(* and paths are values; git's NUL-separated tokens keep their order and   *)
(* their first byte, and a path may start with any byte.                   *)
(***************************************************************************)
EXTENDS Integers, Sequences, FiniteSets, SequencesExt

CONSTANTS
    ListCap,      \* MAX_LIST_ENTRIES
    ReadCap,      \* MAX_READ_CHUNK
    FileCap,      \* MAX_FILE_BYTES
    PatchCap,     \* MAX_PATCH_BYTES
    SniffBytes,
    Worktrees,    \* the worktrees to ask about
    OpRequests,   \* the requests to make of them
    Nil

ASSUME OpsAssumption == {ListCap, ReadCap, FileCap, PatchCap, SniffBytes} \subseteq Nat \ {0}

\* Names are strings; those of a listing are numbers, for their order
GitRecord == [tag : STRING, xy : STRING \X STRING, path : STRING]
GitChange ==
    [tag : {"1", "2", "u", "?"}, xy : STRING \X STRING, path : STRING, orig : GitRecord]
GitCommit == [id : Nat, split : BOOLEAN]
Worktree ==
    [dirs : Seq(STRING), changes : Seq(GitChange), patch : Nat,
     refs : Seq([name : Nat, counts : BOOLEAN]), commits : Seq(GitCommit), kind : STRING,
     names : Seq(Nat), bytes : Seq(STRING), hidden : BOOLEAN, readable : BOOLEAN]
OpRequest == [op : STRING, filesOnly : BOOLEAN, limit : Nat, skip : Nat]

\* What became of a file: in the index if that differs, else in the worktree
Letter(xy) == IF xy[1] \in {".", "?"} THEN xy[2] ELSE xy[1]

\* git's records of a rename or copy are those its letters call one
IsWorktree(t) ==
    /\ t \in Worktree
    /\ \A c \in ToSet(t.changes) : c.tag = "2" <=> Letter(c.xy) \in {"R", "C"}

ASSUME WorktreesAssumption == \A t \in Worktrees : IsWorktree(t)
ASSUME OpRequestsAssumption == OpRequests \subseteq OpRequest

VARIABLES
    tree,     \* what is on disk and in git: a Worktree
    asked,    \* the request, or Nil
    answer    \* the reply, or Nil

opsVars == <<tree, asked, answer>>

Refuse(code) == [error |-> code]
Prefix(s, n) == SubSeq(s, 1, IF n < Len(s) THEN n ELSE Len(s))
\* a list-shaped reply keeps the first n of what it goes through
Listed(s, n) == [entries |-> Prefix(s, n), truncated |-> Len(s) > n]

\* ... or of those that count; past the n-th one even an item that does not
\* count makes the list look cut
CountOne(list, item, n) ==
    IF list.truncated THEN list
    ELSE IF Len(list.entries) >= n THEN [list EXCEPT !.truncated = TRUE]
    ELSE IF item.counts THEN [list EXCEPT !.entries = Append(@, item)]
    ELSE list
NoEntries == [entries |-> <<>>, truncated |-> FALSE]
Counted(items, n) == FoldLeft(LAMBDA list, item : CountOne(list, item, n), NoEntries, items)

-----------------------------------------------------------------------------
(* git.discover: walk up to the directory that holds `.git`                *)

\* dirs: what each `.git` is, from the asked directory upwards
IsRepoDir(dot) == dot \in {"dir", "file"}
Discover(dirs) ==
    LET walk[i \in 1..Len(dirs) + 1] ==
            IF i > Len(dirs) THEN 0 ELSE IF IsRepoDir(dirs[i]) THEN i ELSE walk[i + 1]
    IN walk[1]

InRepo(reply) == IF Discover(tree.dirs) = 0 THEN Refuse("not_a_repo") ELSE reply

-----------------------------------------------------------------------------
(* git.status and git.diff: tokens back to files                           *)

LetterStatus(letter) ==
    CASE letter = "A" -> "added"   [] letter = "D" -> "deleted"
      [] letter = "R" -> "renamed" [] letter = "C" -> "copied"
      [] letter = "T" -> "typechange" [] OTHER -> "modified"

EntryFromXy(xy, path, orig, unmerged) ==
    [path |-> path, orig |-> orig, staged |-> xy[1] \notin {".", "?"},
     status |-> IF unmerged THEN "conflicted" ELSE LetterStatus(Letter(xy))]

\* What git prints for a change: its record, and after a rename the old path,
\* whose first byte says nothing
Porcelain(c) ==
    <<[tag |-> c.tag, xy |-> c.xy, path |-> c.path]>>
    \o IF c.tag = "2" THEN <<c.orig>> ELSE <<>>
StatusTokens == FlattenSeq([i \in DOMAIN tree.changes |-> Porcelain(tree.changes[i])])

\* The files from some token on
NoMore == [files |-> <<>>, truncated |-> FALSE]
Cut == [files |-> <<>>, truncated |-> TRUE]
Preceded(entry, rest) == [files |-> <<entry>> \o rest.files, truncated |-> rest.truncated]

\* parse_status, from token i with n files found before it
ParseStatus(tokens) ==
    LET from[i \in 1..Len(tokens) + 2] == [n \in 0..ListCap |->
            IF i > Len(tokens) THEN NoMore
            ELSE IF n >= ListCap THEN Cut
            ELSE LET rec == tokens[i]
                     found(entry, next) == Preceded(entry, from[next][n + 1])
                 IN CASE rec.tag = "1" ->
                           found(EntryFromXy(rec.xy, rec.path, Nil, FALSE), i + 1)
                      [] rec.tag = "u" ->
                           found(EntryFromXy(rec.xy, rec.path, Nil, TRUE), i + 1)
                      [] rec.tag = "2" ->
                           IF i < Len(tokens)
                           THEN found(EntryFromXy(rec.xy, rec.path, tokens[i + 1].path, FALSE), i + 2)
                           ELSE found(EntryFromXy(rec.xy, rec.path, Nil, FALSE), i + 1)
                      [] rec.tag = "?" ->
                           found([path |-> rec.path, orig |-> Nil, staged |-> FALSE,
                                  status |-> "untracked"], i + 1)
                      [] OTHER -> from[i + 1][n]]
    IN from[1][0]

Mutant_StatusOpForgetsOrig ==
    LET parsed == ParseStatus([i \in DOMAIN StatusTokens |->
                      IF StatusTokens[i].tag = "2" THEN [StatusTokens[i] EXCEPT !.tag = "1"]
                      ELSE StatusTokens[i]])
    IN InRepo([files |-> parsed.files, truncated |-> parsed.truncated,
               clean |-> parsed.files = <<>> /\ ~parsed.truncated])
StatusOp ==
    LET parsed == ParseStatus(StatusTokens)
    IN InRepo([files |-> parsed.files, truncated |-> parsed.truncated,
               clean |-> parsed.files = <<>> /\ ~parsed.truncated])

\* `diff --name-status -z`: a letter, then one path, or old and new
NameStatus(c) ==
    LET letter == Letter(c.xy)
    IN IF letter \in {"R", "C"} THEN <<letter, c.orig.path, c.path>> ELSE <<letter, c.path>>
Tracked ==
    FlattenSeq([i \in DOMAIN tree.changes |->
                   IF tree.changes[i].tag = "?" THEN <<>> ELSE <<tree.changes[i]>>])
NameTokens == FlattenSeq([i \in DOMAIN Tracked |-> NameStatus(Tracked[i])])

ParseNameStatus(tokens) ==
    LET from[i \in 1..Len(tokens) + 3] == [n \in 0..ListCap |->
            IF i > Len(tokens) THEN NoMore
            ELSE IF n >= ListCap THEN Cut
            ELSE LET renamed == tokens[i] \in {"R", "C"}
                 IN Preceded([path |-> tokens[IF renamed THEN i + 2 ELSE i + 1],
                              orig |-> IF renamed THEN tokens[i + 1] ELSE Nil,
                              status |-> LetterStatus(tokens[i])],
                             from[IF renamed THEN i + 3 ELSE i + 2][n + 1])]
    IN from[1][0]

\* run_git_limited: at most PatchCap bytes, or the child is killed
DiffOp(filesOnly) ==
    LET named == ParseNameStatus(NameTokens)
        over == tree.patch > PatchCap
    IN InRepo([files |-> named.files, truncated |-> named.truncated,
               filesOnly |-> filesOnly \/ over,
               diff |-> IF filesOnly \/ over THEN Nil ELSE tree.patch])

-----------------------------------------------------------------------------
(* git.branches and git.log                                                *)

\* `<remote>/HEAD` is skipped where there is room for a branch; where there is
\* none it makes the list look cut
BranchesOp == InRepo(Counted(tree.refs, ListCap))

Clamp(n, low, high) == IF n < low THEN low ELSE IF n > high THEN high ELSE n

\* What git prints of n commits: a record of each, and where the subject holds
\* a record separator a second one that has not the fields of a commit
Printed(commit) ==
    <<[id |-> commit.id, counts |-> TRUE]>>
    \o IF commit.split THEN <<[id |-> commit.id, counts |-> FALSE]>> ELSE <<>>
LogRecords(skip, n) ==
    LET shown == SubSeq(tree.commits, skip + 1, Len(tree.commits))
    IN FlattenSeq([i \in DOMAIN Prefix(shown, n) |-> Printed(shown[i])])

\* One commit more than the page is asked of git
LogOp(limit, skip) ==
    LET n == Clamp(limit, 1, ListCap)
        page == Counted(LogRecords(skip, n + 1), n)
    IN InRepo([commits |-> page.entries, limit |-> n, truncated |-> page.truncated])

-----------------------------------------------------------------------------
(* fs.list, fs.stat and fs.read                                            *)

\* io_error: a directory on the way cannot be searched, or nothing is there
Nowhere == tree.hidden \/ tree.kind = "none"
IoError == Refuse(IF tree.hidden THEN "unreadable" ELSE "not_found")

\* names in the order of their numbers
Sorted(names) ==
    LET S == ToSet(names)
    IN [i \in 1..Cardinality(S) |-> CHOOSE x \in S : Cardinality({y \in S : y < x}) = i - 1]

\* readdir's order decides what is kept, and the names are sorted after that
ListOp ==
    IF Nowhere THEN IoError
    ELSE IF tree.kind \notin {"dir", "link_to_dir"} THEN Refuse("not_a_dir")
    ELSE IF ~tree.readable THEN Refuse("unreadable")
    ELSE LET kept == Listed(tree.names, ListCap)
         IN [entries |-> Sorted(kept.entries), truncated |-> kept.truncated]

\* symlink_metadata: the link itself
Links == {"link_to_dir", "link_to_file", "dangling"}
StatOp ==
    IF Nowhere THEN IoError
    ELSE [kind |-> IF tree.kind \in Links THEN "symlink" ELSE tree.kind]

\* A NUL in the head of the file, or in the chunk, makes it binary
LooksBinary(bytes) == "nul" \in ToSet(bytes)

ReadOp(offset, limit) ==
    LET size == Len(tree.bytes)
        n == Clamp(limit, 1, ReadCap)
        start == IF offset < size THEN offset ELSE size
        chunk == SubSeq(tree.bytes, start + 1, IF start + n < size THEN start + n ELSE size)
    IN IF Nowhere \/ tree.kind = "dangling" THEN IoError
       ELSE IF tree.kind \notin {"file", "link_to_file"} THEN Refuse("unreadable")
       ELSE IF size > FileCap THEN Refuse("too_large")
       ELSE IF ~tree.readable THEN Refuse("unreadable")
       ELSE IF LooksBinary(Prefix(tree.bytes, SniffBytes)) \/ LooksBinary(chunk)
            THEN Refuse("binary")
       ELSE [data |-> chunk, eof |-> start + Len(chunk) >= size, size |-> size]

-----------------------------------------------------------------------------
Dispatch(req) ==
    CASE req.op = "git.status"   -> StatusOp
      [] req.op = "git.diff"     -> DiffOp(req.filesOnly)
      [] req.op = "git.branches" -> BranchesOp
      [] req.op = "git.log"      -> LogOp(req.limit, req.skip)
      [] req.op = "fs.list"      -> ListOp
      [] req.op = "fs.stat"      -> StatOp
      [] req.op = "fs.read"      -> ReadOp(req.skip, req.limit)
      [] req.op = "git.discover" -> InRepo([root |-> Discover(tree.dirs)])

OpsInit == tree \in Worktrees /\ asked = Nil /\ answer = Nil
\* run_git: git may fail whenever there is a repository to run it in
GitFails(req) ==
    /\ req.op \in {"git.status", "git.diff", "git.branches", "git.log"}
    /\ Discover(tree.dirs) # 0
\* One request of the worktree as it is
Ask(req) ==
    /\ asked = Nil
    /\ asked' = req
    /\ \/ answer' = Dispatch(req)
       \/ GitFails(req) /\ answer' = Refuse("git_failed")
    /\ UNCHANGED tree
OpsNext == \E req \in OpRequests : Ask(req)
OpsSpec == OpsInit /\ [][OpsNext]_opsVars

-----------------------------------------------------------------------------
Answered(op) == asked # Nil /\ asked.op = op /\ "error" \notin DOMAIN answer

\* Every change git reports comes back as itself and in order, up to the cap: a
\* record is never read where a rename's old path stands (parse_status,
\* parse_name_status), and a worktree is clean when nothing was reported.
ChangesComeBack ==
    LET same(files, changes) ==
            LET shown == Prefix(changes, ListCap)
            IN /\ Len(files) = Len(shown)
               /\ \A i \in DOMAIN files :
                      /\ files[i].path = shown[i].path
                      /\ files[i].orig = IF shown[i].tag = "2" THEN shown[i].orig.path ELSE Nil
               /\ answer.truncated = (Len(changes) > ListCap)
    IN /\ Answered("git.status") =>
              same(answer.files, tree.changes) /\ answer.clean = (tree.changes = <<>>)
       /\ Answered("git.diff") => same(answer.files, Tracked)

\* Asking for page after page meets every commit once, and chunk after chunk
\* every byte once, until the reply says there is no more, whatever page or
\* chunk size is asked for and whatever it is clamped to (git.log, fs.read).
PagesMeet ==
    LET pages[at \in 0..Len(tree.commits)] ==
            LET page == LogOp(asked.limit, at)
            IN page.commits \o IF page.truncated THEN pages[at + page.limit] ELSE <<>>
        chunks[at \in 0..Len(tree.bytes)] ==
            LET chunk == ReadOp(at, asked.limit)
            IN chunk.data \o IF chunk.eof THEN <<>> ELSE chunks[at + Len(chunk.data)]
        ids(records) == [i \in DOMAIN records |-> records[i].id]
    IN /\ Answered("git.log") => ids(pages[0]) = ids(tree.commits)
       /\ Answered("fs.read") /\ ~LooksBinary(tree.bytes) => chunks[0] = tree.bytes

\* What git and the file hold reaches the client whole, in one reply or many.
RepliesAreWhole == ChangesComeBack /\ PagesMeet
=============================================================================
