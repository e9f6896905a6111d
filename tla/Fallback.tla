------------------------------ MODULE Fallback ------------------------------
(***************************************************************************)
(* The bash fallback channel (remote/fs.rs, remote/git.rs): the script that *)
(* answers where faragent-helper cannot be deployed, in the helper's wire  *)
(* format. It implements the read-only ops a second time, with shell tests *)
(* and a stream it can read only once.                                     *)
(***************************************************************************)
EXTENDS HelperOps, FiniteSetsExt

CONSTANTS
    Hosts,        \* the tools a host may have of {"base64", "git"}
    Edits         \* what a worktree may become while a status is read

ASSUME EditsAssumption == \A t \in Edits : IsWorktree(t)

VARIABLES
    tools,        \* HAVE_BASE64, HAVE_GIT
    line,         \* the request the loop is serving, or Nil
    stream,       \* has the first git of a status run? "closed", "open", "failed"
    frame         \* the frame written, or Nil

fallbackVars == <<tools, line, stream, frame>>

-----------------------------------------------------------------------------
(* fs.list, fs.stat and fs.read, in shell tests                            *)

\* `[ -e ]` follows a link, and cannot tell a missing path from a hidden one
NotThere == Nowhere \/ tree.kind = "dangling"

ScriptStat ==
    IF Nowhere THEN Refuse("not_found")
    ELSE [kind |-> IF tree.kind \in Links THEN "symlink" ELSE tree.kind]

\* The names are sorted before the cap is applied
ScriptList ==
    IF Nowhere THEN Refuse("not_found")
    ELSE IF tree.kind \notin {"dir", "link_to_dir"} THEN Refuse("not_a_dir")
    ELSE IF ~tree.readable THEN Refuse("unreadable")
    ELSE Listed(Sorted(tree.names), ListCap)

\* A chunk is looked at only where it reaches past the head that was sniffed
ScriptRead(skip, limit) ==
    LET size == Len(tree.bytes)
        offset == IF skip > size THEN size ELSE skip
        data == Prefix(SubSeq(tree.bytes, offset + 1, size), Clamp(limit, 1, ReadCap))
        reached == offset + Len(data)
    IN IF NotThere THEN Refuse("not_found")
       ELSE IF tree.kind \notin {"file", "link_to_file"} THEN Refuse("unreadable")
       ELSE IF size > FileCap THEN Refuse("too_large")
       ELSE IF ~tree.readable THEN Refuse("unreadable")
       ELSE IF \/ size > 0 /\ LooksBinary(Prefix(tree.bytes, SniffBytes))
               \/ reached > SniffBytes /\ LooksBinary(data)
            THEN Refuse("binary")
       ELSE [data |-> data, eof |-> reached >= size, size |-> size]

-----------------------------------------------------------------------------
(* git.discover, git.log and git.status                                    *)

\* discover_root: `[ -d ]` and `[ -f ]` follow a `.git` that is a link
ScriptRoot ==
    LET found == {i \in DOMAIN tree.dirs : tree.dirs[i] \in {"dir", "file", "link"}}
    IN IF found = {} THEN 0 ELSE Min(found)
InScriptRepo(reply) == IF ScriptRoot = 0 THEN Refuse("not_a_repo") ELSE reply

\* A record that lacks fields is passed over before the page is counted
PageOne(list, rec, n) ==
    IF list.truncated \/ ~rec.counts THEN list
    ELSE IF Len(list.entries) >= n THEN [list EXCEPT !.truncated = TRUE]
    ELSE [list EXCEPT !.entries = Append(@, rec)]
ScriptLog(limit, skip) ==
    LET n == Clamp(limit, 1, ListCap)
        page == FoldLeft(LAMBDA list, rec : PageOne(list, rec, n), NoEntries,
                         LogRecords(skip, n + 1))
    IN [commits |-> page.entries, limit |-> n, truncated |-> page.truncated]

\* set_xy, append_file
SetXy(xy, unmerged) ==
    IF unmerged THEN "conflicted" ELSE LetterStatus(Letter(xy))
FileOf(rec) ==
    [path |-> rec.path, orig |-> Nil,
     staged |-> rec.tag # "?" /\ rec.xy[1] \notin {".", "?"},
     status |-> IF rec.tag = "?" THEN "untracked" ELSE SetXy(rec.xy, rec.tag = "u")]

\* One `read -d ''` of the stream. After a rename the next read, whatever it
\* brings, is its old path.
Mutant_ReadRecord(found, rec) ==
    IF found.truncated THEN found
    ELSE IF Len(found.files) >= ListCap THEN [found EXCEPT !.truncated = TRUE]
    ELSE [found EXCEPT !.files = Append(@, FileOf(rec))]
ReadRecord(found, rec) ==
    IF found.truncated THEN found
    ELSE IF found.renames
         THEN [found EXCEPT !.files[Len(found.files)].orig = rec.path, !.renames = FALSE]
    ELSE IF Len(found.files) >= ListCap THEN [found EXCEPT !.truncated = TRUE]
    ELSE [found EXCEPT !.files = Append(@, FileOf(rec)), !.renames = rec.tag = "2"]

StatusOf(records) ==
    LET found == FoldLeft(ReadRecord, [files |-> <<>>, truncated |-> FALSE, renames |-> FALSE],
                          records)
    IN [files |-> found.files, truncated |-> found.truncated,
        clean |-> found.files = <<>> /\ ~found.truncated]

-----------------------------------------------------------------------------
(* The loop: one line in, one frame out                                    *)

FallbackInit ==
    /\ OpsInit
    /\ tools \in Hosts
    /\ line = Nil /\ stream = "closed" /\ frame = Nil

Takes(req) ==
    /\ line = Nil
    /\ line' = req
    /\ UNCHANGED <<opsVars, tools, stream, frame>>

Handles(ops) == line # Nil /\ frame = Nil /\ stream = "closed" /\ line.op \in ops
Frames(reply) == frame' = reply /\ UNCHANGED <<opsVars, tools, line, stream>>

FsOps == {"fs.list", "fs.stat", "fs.read"}
GitOps == {"git.discover", "git.status", "git.log"}

\* serve_line, op_git_dispatch: what a host without the tools gets, and the ops
\* the script does not speak
CannotServe ==
    /\ Handles({req.op : req \in OpRequests})
    /\ \/ "base64" \notin tools /\ Frames(Refuse("internal"))
       \/ "base64" \in tools /\ line.op \notin FsOps \cup GitOps /\ Frames(Refuse("bad_request"))
       \/ "base64" \in tools /\ line.op \in GitOps /\ "git" \notin tools /\ Frames(Refuse("internal"))

ServesFs ==
    /\ Handles(FsOps) /\ "base64" \in tools
    /\ Frames(CASE line.op = "fs.list" -> ScriptList
                [] line.op = "fs.stat" -> ScriptStat
                [] line.op = "fs.read" -> ScriptRead(line.skip, line.limit))

ServesGit ==
    /\ Handles({"git.discover", "git.log"}) /\ tools = {"base64", "git"}
    /\ \/ Frames(InScriptRepo(IF line.op = "git.discover" THEN [root |-> ScriptRoot]
                              ELSE ScriptLog(line.limit, line.skip)))
       \/ ScriptRoot # 0 /\ line.op = "git.log" /\ Frames(Refuse("git_failed"))

\* op_git_status runs git once for its exit status ...
ChecksStatus ==
    /\ Handles({"git.status"}) /\ tools = {"base64", "git"}
    /\ \/ ScriptRoot = 0 /\ Frames(Refuse("not_a_repo"))
       \/ ScriptRoot # 0 /\ Frames(Refuse("git_failed"))
       \/ /\ ScriptRoot # 0 /\ stream' = "open"
          /\ UNCHANGED <<opsVars, tools, line, frame>>

WorktreeChanges(edited) ==
    /\ stream = "open" /\ frame = Nil
    /\ tree' = edited
    /\ UNCHANGED <<asked, answer, fallbackVars>>

\* ... and once more for the records, whose exit status nobody sees
StreamsStatus ==
    /\ stream = "open" /\ frame = Nil
    /\ \/ ScriptRoot # 0 /\ stream' = "closed" /\ frame' = StatusOf(StatusTokens)
       \/ stream' = "failed" /\ frame' = StatusOf(<<>>)
    /\ UNCHANGED <<opsVars, tools, line>>

FallbackNext ==
    \/ \E req \in OpRequests : Takes(req)
    \/ CannotServe \/ ServesFs \/ ServesGit \/ ChecksStatus \/ StreamsStatus
    \/ \E edited \in Edits : WorktreeChanges(edited)
FallbackSpec == FallbackInit /\ [][FallbackNext]_<<opsVars, fallbackVars>>

-----------------------------------------------------------------------------
\* Where the two are known to part: a path under a directory that cannot be
\* searched, a listing past the cap (sorted before it is cut, or after), a
\* `.git` that is a link, a commit that prints two records, and a second git
\* that fails, which reads as a clean worktree.
Apart(op) ==
    CASE op \in {"fs.stat", "fs.read"} -> tree.hidden
      [] op = "fs.list" -> tree.hidden \/ Len(tree.names) > ListCap
      [] op = "git.status" -> "link" \in ToSet(tree.dirs) \/ stream = "failed"
      [] op = "git.discover" -> "link" \in ToSet(tree.dirs)
      [] op = "git.log" -> "link" \in ToSet(tree.dirs) \/ \E c \in ToSet(tree.commits) : c.split

\* The script answers what the helper answers, error codes and all, for every
\* op it speaks on a host that has the tools (fs.rs, git.rs, ops/); a status
\* whose worktree changes between the two runs of git is of the changed one.
FallbackAgrees ==
    frame # Nil /\ tools = {"base64", "git"} /\ line.op \in FsOps \cup GitOps =>
        frame \in {Dispatch(line), Refuse("git_failed")} \/ Apart(line.op)
=============================================================================
