----------------------------- MODULE DirPicker -----------------------------
(***************************************************************************)
(* Choosing the directory of a new session (faragent-tui's NewCwd screen,  *)
(* faragent-remote dirs.rs, faragent-core expand_home): the cwd field, the *)
(* dirListing of some directory, and the rows that are joined to one of them. *)
(* The dirListing is one round trip; a key press runs its handler to the end. *)
(* Names hold no separator, no control character and no blank at an end:   *)
(* what the scripts' Clean and the field's trim would change.              *)
(***************************************************************************)
EXTENDS SequencesExt, Absent

CONSTANTS
    Boxes,    \* the remotes: [os, home, dirs, open], of which `open` can be listed
    Typed,    \* paths a user types
    Histories \* sequences of the cwds of the listed sessions, newest first

VARIABLES
    remote,      \* what stands on the host
    cwds,        \* App.sessions, their cwds
    cwdInput,    \* App.cwd_input
    dirListing   \* App.dir_listing, or None

dirPickerVars == <<remote, cwds, cwdInput, dirListing>>

\* A path as text: where it starts, its names, and whether a separator ends it.
\* "root" is / or C:\, "drive" the drive-relative C:, "here" starts with . and
\* "bare" with a name; "home" starts with ~; "empty" is no text at all.
PathText == [at : {"root", "drive", "here", "bare", "home", "empty"},
             names : Seq(STRING), slash : BOOLEAN]
Listing == [cwd : PathText, parent : PathText, dirs : SUBSET STRING]

ASSUME DirPickerAssumption ==
    /\ \A b \in Boxes : /\ b.os \in {"posix", "windows"}
                        /\ b.home \in Seq(STRING)
                        /\ b.dirs \in SUBSET Seq(STRING)
    /\ Typed \subseteq PathText
    /\ Histories \subseteq Seq(PathText \cup {None})
    /\ None \notin PathText \cup Listing

Path(at, names) == [at |-> at, names |-> names, slash |-> FALSE]
Windows == remote.os = "windows"

\* The directory a path means to the remote's shell, which starts at home
Where(p) == IF p.at = "root" THEN p.names ELSE remote.home \o p.names

Expand(p) == IF p.at = "home" THEN [p EXCEPT !.at = "root", !.names = Where(p)] ELSE p

-----------------------------------------------------------------------------
(* join_dir, on the client                                                 *)
Up(p) == Path(p.at, Front(p.names))
PosixParent(p) ==
    CASE p.at = "root" /\ p.names = <<>>             -> p
      [] p.at # "bare" /\ p.names # <<>>             -> Up(p)
      [] p.at = "bare" /\ Len(p.names) > 1           -> Up(p)
      [] OTHER                                       -> Path("here", <<>>)
WinParent(p) ==
    CASE p.at \in {"root", "drive"} /\ p.names = <<>> -> Path("root", <<>>)
      [] p.at # "bare" /\ p.names # <<>>              -> Up(p)
      [] p.at = "bare" /\ Len(p.names) > 1            -> Up(p)
      [] OTHER                                        -> p
ParentDir(p) == IF Windows THEN WinParent(p) ELSE PosixParent(p)
\* "C:" and a name make a path from the root
JoinDir(p, name) ==
    Path(IF p.at = "drive" THEN "root" ELSE p.at, Append(p.names, name))

(* The dirListing script and parse_listing                                    *)

\* dirname, which is PosixParent; and GetDirectoryName, which only takes a
\* final separator off and gives nothing for a path of one part: then the cwd
ScriptParent(p) ==
    IF ~Windows THEN PosixParent(p)
    ELSE IF p.slash THEN Path(p.at, p.names)
    ELSE IF p.names = <<>> \/ (p.at = "bare" /\ Len(p.names) = 1) THEN p
    ELSE Up(p)
ListDirs(p) ==
    IF Where(p) \notin remote.dirs \cap remote.open THEN None
    ELSE [cwd    |-> p,
          parent |-> ScriptParent(p),
          dirs   |-> {Last(d) : d \in {d \in remote.dirs :
                          /\ Len(d) = Len(Where(p)) + 1
                          /\ Front(d) = Where(p)}}]

-----------------------------------------------------------------------------
(* The screen                                                              *)
Recents == {p \in ToSet(cwds) : p # None /\ p.at # "empty"}
Row(is, path, name) == [is |-> is, path |-> path, name |-> name]
PickerRows ==
    {Row("recent", p, None) : p \in Recents}
    \cup {Row("parent", None, None)}
    \cup (IF dirListing = None THEN {} ELSE {Row("child", None, n) : n \in dirListing.dirs})

Mutant_PickerBase == cwdInput
\* The rows are joined to the directory listed, whatever was typed since
PickerBase == IF dirListing = None THEN cwdInput ELSE dirListing.cwd

Navigate(row) ==
    CASE row.is = "recent" -> row.path
      [] row.is = "parent" -> IF dirListing # None THEN dirListing.parent ELSE ParentDir(PickerBase)
      [] row.is = "child"  -> JoinDir(PickerBase, row.name)

\* refresh_dir_listing: on success the field shows the path that was listed, on
\* failure it stays and there is no dirListing
Refreshes(p) ==
    LET found == IF p.at = "empty" THEN None ELSE ListDirs(Expand(p))
    IN /\ dirListing' = found
       /\ cwdInput' = IF found = None THEN p ELSE found.cwd
       /\ UNCHANGED <<remote, cwds>>

DirPickerInit ==
    /\ remote \in Boxes
    /\ cwds \in Histories
    /\ cwdInput = Path("empty", <<>>)
    /\ dirListing = None

\* n on the sessions screen: the newest session's cwd, or home
Begins ==
    \/ /\ \A i \in DOMAIN cwds : cwds[i] = None
       /\ Refreshes(Path("root", remote.home))
    \/ \E i \in DOMAIN cwds :
          /\ cwds[i] # None
          /\ \A j \in 1 .. (i - 1) : cwds[j] = None
          /\ Refreshes(cwds[i])
\* Characters and Backspace: the dirListing stays
Types ==
    /\ cwdInput' \in {p \in Typed : p.at = "drive" => Windows}
    /\ UNCHANGED <<remote, cwds, dirListing>>
\* Tab
Relists == Refreshes(cwdInput)
\* Enter on a row; j and k reach every one
Picks(row) == row \in PickerRows /\ Refreshes(Navigate(row))

DirPickerNext == Begins \/ Types \/ Relists \/ \E row \in PickerRows : Picks(row)
DirPickerSpec == DirPickerInit /\ [][DirPickerNext]_dirPickerVars

-----------------------------------------------------------------------------
\* Paths whose parent the picker gets right: not C:, nothing relative, and on
\* Windows nothing typed with a final separator, which Parent only takes off.
Full(p) == p.at \in {"root", "home"} /\ (p.at = "home" => p.names # <<>>)
               /\ ~(Windows /\ p.slash)

\* The directory on the screen: the one listed, or the one that could not be
OnScreen == IF dirListing # None THEN dirListing.cwd ELSE cwdInput

\* Enter takes the user where the highlighted row says: to a child of the
\* directory on the screen or to its parent, also from a child that could not
\* be listed; text typed since the dirListing plays no part (navigate_picker).
RowsLeadWhereTheySay ==
    [][\A row \in PickerRows :
          Picks(row) /\ Full(OnScreen) =>
              Where(cwdInput') =
                  CASE row.is = "recent" -> Where(row.path)
                    [] row.is = "child"  -> Append(Where(OnScreen), row.name)
                    [] row.is = "parent" -> IF Where(OnScreen) = <<>> THEN <<>>
                                            ELSE Front(Where(OnScreen))]_dirPickerVars
=============================================================================
