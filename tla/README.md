# FarAgent in TLA+

FarAgent runs coding agents on remote hosts over OpenSSH and shows them in a
desktop app (Tauri: Rust behind, React in front) and in a TUI. This directory
holds TLA+ models of the parts of it that are concurrent, stateful or easy to
get wrong at an edge, the TLC configurations that check them, and proofs checked
by TLAPS. Paths below are relative to the repository; `app/` abbreviates
`apps/faragent-app/`.

## Inventory

| Component | State | Operations | Talks to |
| --- | --- | --- | --- |
| `app/src-tauri/src/helper.rs` HelperManager | table of sessions, each with a writer lock, an ssh child, a map of waiting calls, a request counter | `open`/`adopt`, `call`, `close`, the pump thread | frontend commands and `Channel`; ssh child's stdio |
| `app/src-tauri/src/attach.rs` SessionManager | one mutex over all PTY streams | open, write, resize, close, pump and reap | frontend, ssh child's PTY |
| `app/src/lib/lease.ts` | slots by key: holders, closed, the promise | acquire, release, deferred close | attach and helper context |
| `app/src/lib/panel/lease.ts`, `components/panel/helper-context.tsx` | a generation per host, the holders' listeners | keyFor, renew, watch | lease, `helper_open` |
| `app/src/lib/use-attach.ts`, `tab-attach.ts` | channel per key, input queue, queued size | mount, write, resize, dispose | lease, `attach_*` commands |
| `app/src/lib/panel/watch.ts`, `panel-watch.tsx` | reference-counted watches per client; what is stale | acquire, release, forget; applying pushes | helper connection |
| `app/src/lib/chat/transcript.ts`, `components/chat/use-transcript.ts` | the records held of a file, an offset, a subscription, a knock timer | open, refresh, loadEarlier, close | helper connection |
| rest of `app/src/lib/chat` | none: reducers | adapters, echoes, composer, window | |
| `crates/faragent-helper` lib, main, proto | stdin framing | dispatch, replies, shutdown | stdin and stdout |
| `crates/faragent-helper` watch | subscription table, OS watcher, git stamps | subscribe, unsubscribe, the pump | stdout |
| `crates/faragent-helper` ops | none | fs and git requests | file system, git |
| `crates/faragent-remote` fs, git | none | the same requests, as a bash script | shell, git |
| `crates/faragent-service` helper | the installed binary on the host | probe, plan, upload, verify | transport |
| `crates/faragent-service` sessions, `faragent-remote` remote, win | tmux sessions and transcripts on the host | list, merge, start, resume | transport |
| `crates/faragent-service` github, probe, diagnose | login and key on the host; none | sync, probe, explain a failure | transport, `gh` |
| `crates/faragent-install` | a plan | preflight, plan, run | transport |
| `crates/faragent-transport` ssh, askpass, dialect | child processes, held passwords, a dialect cache | exec with a deadline, authentication, detection | OpenSSH |
| `crates/faragent-core` | configuration file; tables | load, save | |
| `crates/faragent-tui` | the screen and what earlier screens left behind | keys and round trips | services |
| `crates/faragent-cli`, doctor | none | dispatch, printing | services |

What is hard in it:

* **Threads behind a command.** Every `helper_*` command runs on a thread of
  its own; calls, opens, closes and pump threads share a table and, per
  session, a writer lock, a child and a map of waiters. Correct means: replies
  reach their caller, one session per host, no ssh child without an owner, a
  close that always gets through.
* **Callbacks behind an effect.** React effects mount and unmount in any
  order; what they share is closed a tick later, and a promise may settle
  before or after either. Correct means: what is held stays open, what is not
  held is closed, once, and bytes go to the tab they belong to.
* **Calls out of order.** Two helper calls travel on two threads: a subscribe
  and the unsubscribe before it may arrive swapped, or an answer after its
  deadline; a file changes between two reads. Correct means: nobody watches for
  nobody, nobody believes in a watch that is gone, no record is shown twice.
* **Half-done work on a remote.** Uploads, syncs and install scripts are cut
  anywhere, run twice, and meet another client. Correct means: a file is whole
  or not there, and doing it again completes it.
* **Stale beliefs.** A cached dialect, a list of sessions, a held password, the
  plan on the screen: each was true of another moment or another host.
* **Two implementations of one protocol.** The helper and the bash fallback
  answer the same requests, and a client cannot tell which.
* **A remote that dies or goes silent**, anywhere in between.

`PROJECT.json` lists the hazards at their lines with the properties that watch
over them.

## Modules

`HelperManager` models `helper.rs`. An element of `Opens`, `Calls`, `Closes` is
one command invocation, hence one thread; a session is named by the open that
made it (ids are minted once). `opener`, `call`, `closer` and `pump` are program
counters; an action is the code between two points where another thread can
get in, which are the lock acquisitions, the write, the wait. `ends` holds the
activations of `Session::terminate`, each at its swap (which takes the writer
lock, `holder`) or its kill. The pipe to the remote holds `PipeCap` frames
before a write blocks; a wedged remote is one that never takes `RemoteAnswer`.
A reply carries, besides the request id the code routes by, the call that
really asked, so that misrouting would show. `adopt` is two steps, the insert
under the table's lock and the return that starts the pump, with the
terminates of the replaced sessions in between. `stderr_tail` and wording are
left out.

`Lease` models `lease.ts`: acquire, release, the deferred tick, the settling of
`open()` and the chained close, each atomic on the JavaScript thread. A user is
one effect and lives once; a remount is another user. `KeyedResource` is the
abstract specification of a lease: under a key one current resource, shared,
retired only when unused, closed at most once and only when retired. `Lease`
implements it (`ImplementsKeyedResource`): the refinement maps the slot map to
`current`, the closed flag to `retired`, and a close that ran to `closed`.

`Attach` extends `Lease` with `createAttach` of `use-attach.ts`: the module's
channel map, the handler bound on a channel object, the channel `attach_open`
was called with, input queued until the id is known, the queued size. That a tab
calls the hook once (`tab-attach.ts`) is the guard `FirstOfItsTab`.

`Transcript` models `transcript.ts` down to bytes: a file is a sequence of them,
a line one or two, and the model a tail holds is what its reducers make of the
bytes they are given. Each `channel` call is a record with the answer the helper
puts in it (`Serves`); the steps between two awaits are functions of the tail.
`raced` is a history the code does not have: the races a tail has lost (below).

`SessionManager` models `attach.rs`: the map of PTY streams under one mutex, the
commands, and per session the pump thread. `lock` says who blocks with the map
locked: a write on a full PTY, or a reap in `wait`. Bytes are counted, not kept.

`SubscriptionTable` models `subscribe` and `unsubscribe` of the remote helper's
`watch.rs`. `WatchPool` extends it with `createWatchPool` of `watch.ts`: requests
and answers are sets, as `helper_call` runs on a thread each. A call may be
refused, may time out on its way (`SubscribeExpires`; the request still
arrives), and the channel may close (`Forget`). `HelperServer` extends it with
the rest of the helper process: `read_line` on a stream that arrives in pieces,
the serving loop, the pump thread with watcher events and git polls, one stdout
of bounded size that both write.

`HelperOps` states each request of `ops/fs.rs` and `ops/git.rs` as a function of
a worktree: git's NUL-separated tokens are sequences, an entry of a directory a
number. A loop that walks tokens with an index is a recursive function of the
index and of how many files it has; a loop over records is a fold of one of its
turns (`CountOne`, `PageOne`, `ReadRecord`). `Fallback` extends it with the bash
script's version of the same requests, which reads git's second run from a
stream while the worktree changes.

`HelperInstall` models `install_helper` and the upload script, which goes on
when its ssh is cut; `Exec` the one function every remote command goes through,
with its pipes, reader threads and deadline; `Askpass` the passwords held for
ssh children and the listeners that hand them out; `Dialect` the cached
dialect; `GithubSync` the copy of the GitHub login; `RemoteSessions` the agent
sessions of a host under clients that list, start and resume; `AgentInstall` the
plans for the agents themselves; `DirPicker` the choice of a directory; `Tui`
the screens, over the failures `diagnose.rs` tells apart. Their header comments
say what stands for what. In `Tui` a key press is one action: the handler and
its round trips, whose outcomes are choices.

`Absent` holds `None`. `MCHelperManager`, `MCWatchPool`, `MCSessionManager`
instantiate one module for TLC. `MCPanel`, `MCLinks`, `MCHosts` and `MCAttach`
put several side by side, which share no state: a variable `focus`, chosen
initially, says which of them runs, and the others stay in one initial state.
Checking them together is checking each of them on its own.

Operators named `Mutant_...`, or whose comment starts with "Mutant", are not
part of the models: each is a plausible bug, put in place of a definition to see
that a property notices.

## Runs

| Run | Bounds | Shows |
| --- | --- | --- |
| `helper_safety` | 2 opens of 1 host, 2 calls, 1 close, pipe of 1 | replies, table, terminates and waiters under every interleaving |
| `helper_live` | 2 opens of 1 host, 1 call, pipe of 1, fair threads | commands return, terminates are carried through, dead sessions are reaped |
| `attach` | 3 users, 2 keys, 2 sizes, 2 keystrokes a mount; 1 transcript of 3 bytes in up to 2 files, 1 failure | events stay in their tab, input order, size; what a reader sees is the file |
| `transcript` | 1 transcript of 2 bytes in up to 2 files, 1 knock, fair | a watched tail catches up over and over; no watch is left behind |
| `panel` | lease: 3 users, 2 keys; pool: 2 watchers, 2 paths, 2 ids; server: 2 lines, limit of 2 bytes, 1 commit; 2 terminals, 1 command; fair | the lease implements the keyed resource and leaks nothing, watching ends, lines are answered and commits pushed, terminal commands return |
| `links` | 2 commands, one with stdin; 2 probers, 1 reinstall; 2 GitHub accounts, 1 switch; 1 host in every sign-in mode; fair | a command returns, whole; the cache heals; a second sync completes the first; the right password gets in |
| `hosts` | 3 watchers; 2 terminals, 2 commands; 2 installers, 2 builds; 2 hosts with passwords, 2 ssh, 2 ports, 3 passwords; 2 clients, 2 conversations; worktrees of up to 3 changes, 5 commits, 4 bytes; 3 agents, 1 change; trees of two levels; 2 hosts of known keys in the TUI | what must never happen in any of them, see the properties |
| `helper_wedged` | 1 open, 2 calls, 1 close, pipe of 1, fair threads | **violation**: see below |
| `attach_deaf` | 3 users, 1 key | **violation** |
| `watch_pool_remount` | 3 users, 1 path | **violation** |
| `sessions_straggler` | 1 terminal, 1 command, fair threads | **violation** |
| `transcript_deaf` | 2 transcripts in 1 directory, 1 byte each | **violation** |

Why these bounds. In the helper two opens of one host are the least for a
replacement, two calls the least for a misrouted reply and for one call to
hold the writer lock another waits for, and a pipe of one frame is full as
soon as one call has written. Sessions of different hosts do not interact
except in `Stale`, so one host is the hard case. Three users of a lease give a
close that is late for a second mount and wrong for a third; two keys let them
interfere. Three watches of a path give a subscription, its late end, and a
subscription that shares its id. Two terminals make the mutex shared, two
commands let a write or a reap hold it against a close. Two installers of two
builds are the least for a file that changes under the one that verified it;
three passwords on two ports the least for a port given out again while a child
still holds its number; two clients the least for two starts on one list. A
transcript of three bytes has a whole line, a line in two bytes, and a window
that begins inside it. The worktrees take every record kind and every limit
(`ListCap` 2, `ReadCap` 3, `PatchCap` 2, `FileCap` 4) from both sides.

`MaxTyped`, `MaxUnread`, `MaxIds`, `MaxOut`, `MaxReinstalls`, `MaxSwitches`,
`MaxGeneration`, `MaxLines`, `MaxCommits`, `MaxPending`, `MaxRows`, `MaxChanges`,
`MaxBytes`, `MaxFiles` and `MaxFailures` bound what would otherwise be counted
without end (keystrokes, unread output, subscription ids, output of a command,
changes of the world); every other invocation happens once. `MaxServes`,
`MaxAwaitRetries`, the caps and the window and chunk sizes are the code's own
constants, made small. Deadlock is not checked: all of these systems stop when
every invocation has been used. `attach` follows a transcript only until its
tail is closed or has lost a race (`CONSTRAINT Unlost`): `HeldIsTheFile` claims
nothing of the states after that. Symmetry is used in safety runs only.

Fairness. A thread that can run does (weak fairness per thread; a call's wait
ends because `recv_timeout` has a deadline); a scheduled tick fires and a
callback on a settled promise runs; an open connection delivers. Nothing is
assumed of the remote, or of whether an `open()` settles: what `SessionsSettle`
promises of terminals is conditional on `Stuck`, a thread that blocks on a live
ssh with the map locked; `QuietRunsReturn` holds though the remote hangs. In
`WatchPool` and `Transcript` the remote helper serves what it is sent as long as
the channel is open. `HelperServer`'s threads take turns at the lock of stdout
(strong fairness) and the client reads. Three assumptions are about a user or
the network: a probe of the right dialect succeeds some time (`Dialect`), a
user syncs again and each step succeeds some time (`GithubSync`), a user goes
on answering prompts with the right password (`Tui`).

## What the checks found

* `helper_wedged`: the doc of `Session` (`helper.rs:212`) promises that a write
  blocked on a wedged remote cannot hold the lock `close` needs. It can:
  `terminate` takes the writer lock before it kills, and `call` holds that lock
  while it writes. The close, and with it a re-open's pump, waits with it.
* `attach_deaf`: an `open()` outlives its slot, so the close of a slot may run
  when a newer slot of the same key is open on the same channel; it deletes the
  key's channel entry, and the next remount builds a channel the backend does
  not know. `use-attach.ts:30` says a remount must find its channel.
* `watch_pool_remount`: a release unsubscribes at once. A remount a tick later
  subscribes anew, and if that request overtakes the unsubscribe it is given
  the existing id, which the unsubscribe then ends; the panel holds a watch
  that is gone. `watch.ts:212` says the remount joins the same entry.
* `sessions_straggler`: the comment on the reap (`attach.rs:136`) says dropping
  the session kills a straggler. The reap waits for the child before the drop,
  with the mutex of all terminals held: a pump that ended because the webview
  went away waits for a child nobody kills.
* `transcript_deaf`: the lease keyed by host and file is there so that a first
  close cannot take the survivor's subscription (`use-transcript.ts:8`). A tail
  subscribes to the *directory*, so two sessions of one working directory share
  the id all the same, and closing one tab silences the other.

### Races a tail loses

`HeldIsTheFile` holds of a tail that met none of these; each is a member of
`raced`, and every one is reachable:

* "grew": the window is read after `stat`, its offset taken from the size the
  read reports; what was written in between is skipped (the module's invariant
  2 says the offset only moves with bytes read);
* "overtaken": the first `readTail` is not behind the drain, so a push during
  `open` reads from offset 0 and appends what the window then holds, or the
  reverse (invariant 5);
* "earlier": the answer of `loadEarlier` is prepended after a rewind;
* "spliced": a file replaced by one that outgrew the offset, which the code
  documents as indistinguishable;
* "torn", "failed": a window or read that fails leaves the drain with its dirty
  mark unserved.

### Seen while modelling

Not checked as findings, in the words of the code:

* TUI: a failed connection from the agent list is lost, as `on_enter`
  (`tui.rs:682-685`) sets the session screen after `reload_sessions` reported,
  though the user guide (line 320) promises an error screen; `r` on a report of a
  preflight or a sync probes instead of repeating that step; a reload can leave
  `session_idx` past the list; without multiplexing, a missing key reported in
  auto mode never offers the in-memory prompt.
* Sessions: a session started without an id is listed beside its own
  transcript, whose resume starts a second agent on it (`agents.rs:59`: "Never
  used when tmux is live").
* Picker: a typed `C:` lists the drive's current directory but joins to `C:\`;
  the parent of a Windows path with a final separator only drops it.
* Installer: an upgrade does not bootstrap curl; Windows scripts always end
  with 0.
* GitHub sync: token and user are read by two runs of `gh`, between which the
  login may switch; a key registered with another account counts as registered;
  urls are rewritten although the registration failed.
* Helper: a steady stream of events starves the git poll; a deep event goes to a
  non-recursive subscription above it. The fallback and the helper part in the
  cases listed at `Apart` in `Fallback`.
* `Exec`: the deadline starts after the last byte of stdin. `HelperInstall`:
  reuse never checks that the file is executable. `HelperManager`: a call that
  registers after the drain waits for its deadline, against the comment at
  `helper.rs:572`. Configuration: concurrent setters lose each other's fields.

## Proofs

Eight modules hold the theorems: one for each group of components, and one of facts
about recursion and folds, which is about no component. Each other theorem
is of the module's own specification and for every value of its constants under
the module's assumption on them, which TLC evaluates on every run. The inductive
invariants were checked with TLC before they were proved; no run lists them, for
the theorems carry them for every instance.

`HelperManagerProofs` proves of `HelperManager!Spec`, for any sets of hosts,
opens, calls and closes and any pipe capacity (`ConstantsAssumption`):

* `OneSession`: the table never holds two sessions of a host;
* `NoOrphans`: a live child out of the table is on its way to be killed, and
  what is being terminated cannot be reached by a new call;
* `ReplyRouting`: a call that succeeds has the answer to its own request;
* `NoWaiterLeaks`: a call that returned left no waiter behind;
* `HonestDisconnects`: a call is told "disconnected" only when that is so;
* `TypeCorrectness`, and `Invariance` of `IInv`, from which they follow.

The invariant is not inductive without help. Reply routing needs request ids to
be unique within a session (`RequestIdsAreUnique`, from the counter), frames on
both queues to carry the id of the call that wrote them (`FramesBelong`), and a
waiter to be without an answer (`AnsweredOnce`), so that a waiter found under a
frame's id is the frame's author. `NoOrphanedChild` needs to know that only
inserted sessions are in the table or being terminated (`SessionsAreAdopted`).
Each part has a lemma that every step keeps it, with one case per action.

`AttachProofs` proves of `Lease!LeaseSpec`, for any keys and any finite set of
users (`LeaseAssumption`; a count of holders is the cardinality of a set, which
is where finiteness is needed):

* `ReleaseFinds`, `HeldStaysOpen`, `NoDoubleClose`: a release finds its slot,
  what is held is not closed nor committed to be, a close runs at most once;
* `LeaseIsInvariant`, of `LeaseInvariant`, from which those follow;
* `LeaseImplements`: every step of the lease is a step of `KeyedResource` or
  leaves it as it was.

Again the properties need help. A tick closes a slot because its count is zero,
so "no holder" has to follow from the count: `HoldersAreCounted`, carried over
each mount and release by the finite-set lemmas `MountCounts` and
`ReleaseCounts`. That a release, which looks its slot up by key, meets the slot
it joined needs the map to hold exactly the slots opened and not closed
(`MapHoldsTheLive`); that a close is committed once, the same and
`ClosesAreCommitted`.

Its second part is about `Attach!AttachSpec`. A step of the attach is one of
the lease or leaves it alone (`AttachIsALease`), so all of the above holds of
the attach too. On top of it: `EventsStay`, terminal events are heard by the tab
of their key; `InputStaysInOrder`, what was typed before the id was known comes
before what is typed after it; `SizeArrives`, a session learns the size its tab
has; `HearingStays`, a tab that hears its session hears it until it is unmounted. They follow from `AttachInvariant`
(`AttachIsInvariant`): at most one mount of a key (`OneMountPerKey`, which is
where `FirstOfItsTab` is used); the channel in the map, the channel a session was
opened with and whoever took a handler over are all of one key
(`ChannelsKeepTheirKey`); an id is the one of the slot that was joined, or none
yet (`KnowsItsSession`); and nothing stays queued once it is known
(`QueuedUntilKnown`).

`TranscriptProofs` proves of `Transcript!TranscriptSpec`, for any transcripts, any
windows and chunks and any number of bytes, files and failures
(`TranscriptAssumption`), that what a tail shows is a stretch of one file
(`TailsHoldTheFile`, of `HeldIsTheFile`). It has three layers.

* Framing. The records of a text are told from the ranks of its line ends: the
  k-th record is the line that ends at the position with k line ends up to it. A
  text that ends a line and another behind it are framed one after the other
  (`RecordsOfBoth`, `RestOfBoth`); so reading on from an unfinished line is
  reading all at once (`ReadingOn`). Counting stands in for an induction.
* The model. `append`, `prepend` and `openTail` of the bytes that belong there
  make a stretch of a file a longer one (`AppendHolds`, `PrependHolds`) or a new
  one (`OpenTailHolds`), and a stretch stays one as its file grows
  (`StretchGrows`).
* The calls. What was answered is what stood in the file when the helper read it
  (`AnswerIsTrue`), which growth does not change (`AnswersStay`). Whether those
  bytes still belong where the model ends or begins once the answer is taken is
  the question: an append compares its offset and its file, a window its size with
  the stat's, a scroll up was asked for what ends where the model begins unless
  the model was replaced meanwhile (`EarlierOK`). Each way to be wrong is one of the
  named races, so a tail with none of them but failed reads took only bytes that
  belong (`ChunkHolds`, `TakeWindowHolds`, `ScrollHolds`). `TranscriptInvariant`
  (`TranscriptIsInvariant`) says so of every tail at once.

That a tail which lost a race may show something else is the code's behaviour,
and `HeldIsTheFile` says which races they are.

`SessionProofs` is about sessions and the screens that start them. Of
`SessionManager!SessionSpec`, for any opens, commands and buffer sizes
(`SessionAssumption`): `ChildrenAreOwned`, `CloseKills` and `ExitIsLast`, from
`SessionInvariant` (`SessionIsInvariant`). That a close which finds no entry may
still claim a dead child rests on the lock: the pump that took the entry holds it
until its child is gone (`LockIsHeld`). That an exit is the last word rests on
why a pump left its loop (`ReapedIsDrained`). Of
`RemoteSessions!RemoteSessionsSpec`, for any clients and ids and any sessions
left from before the rename (`SessionsAssumption`): `OneAgent` and `PinsAreTrue`,
both on POSIX. Between a listing and a start everything may change, so neither
follows from what a client saw. A tmux name tells its conversation, but for one
started unpinned, which no transcript is named after (`NamesTell`); a
conversation has one name, as the old one is looked for first (`LegacyIsFirst`);
what is resumed has a transcript (`ResumedIsOnDisk`); and the answered id follows
the name (`PinsFollowNames`).

Of `Tui!TuiSpec`, for any hosts, rows, working directories and failures
(`TuiAssumption`): `ScreensMatch`, a screen works on the host, the agent and the
row that are highlighted. A report may have been made anywhere, so what a retry
repeats must be the step made from where it goes back to (`RetryMatchesBack`),
and the probe must still be the highlighted host's there (`ReportsLeadBack`). Of
`DirPicker!DirPickerSpec`, for any trees and texts (`DirPickerAssumption`):
`RowsLead`, a row that is chosen leads where it says.

`HelperProofs` is about the helper process and what it watches, in three parts.

* The table, `SubscriptionTable!TableSpec`, for any directories and number of
  ids: `WatchesFollowEntries`, `EntriesAreDistinct`, `IdsStayFresh`, from
  `TableInvariant` (ids lie below the next one).
* The pool over the table, `WatchPool!PoolSpec`, for any watchers, paths and number
  of ids (`PoolAssumption`): `BothEndsAgree`, that the client's pool and the remote's
  table describe the same watches (`PoolIsSound`). A count is a number on the
  client and a set of watchers in truth (`CountsAreRight`, `CountsAreFinite`); a
  watcher holds an entry that exists (`WatchersNameEntries`); an entry has at
  most one subscribe on its way, among its request, its answer and its id
  (`OneSubscribeEach`), so that an id is let go of exactly when nobody will ask
  for it (`NoLeakedSubscription`); and a forgotten pool has nothing under way
  (`ForgottenIsEmpty`).
* The serving loop, `HelperServer!ServerSpec`, for any request lines, any pieces
  they arrive in and any capacity of stdout (`ServerAssumption`):
  `AnswersAreNamed`, the replies that are written carry the ids of the lines that
  expect one, in their order. What the loop owes is a line-up of two sequences of
  different length: an increasing map from the ids that are still expected onto
  the lines that are not blank (`Owed`), extended by each line that is sent and
  shortened by each that is answered.

`HostProofs` is about what a host is told over ssh, and what is installed there.
Of `Exec!ExecSpec`, for any commands, payloads, output and pipe sizes
(`ExecAssumption`): `OutputsAreWhole`, what a command returns is all its child
wrote. The result is made when the reader thread has ended; that nothing is on
its way then needs every frame to be counted in the pipe or with the reader
(`OutputIsCounted`), and a reader to end only when the pipe is empty and no more
can come (`ReaderEndsLast`). Of `Askpass!AskpassSpec`, for any hosts, commands,
ports and installs (`AskpassAssumption`): `PasswordsStay`, a password goes to a
command of its own host, while it is the one held. A listener serves by
generation, so a generation names at most one host (`SessionsDiffer`), and the
one a command carries names no host but its own (`EnvIsOfItsHost`), though both
sessions and ports are replaced under way. Answers and ends of threads write the
state of whoever is queued, so a command waits in one place of one queue
(`QueuedAreWaiting`).

Of `HelperInstall!InstallSpec`, for any installers, builds and platform
(`InstallAssumption`): `NativeIsTrue` and `UploadsAreWhole`. What a script
checked of its own temporary file stays true until the `mv` (`CheckedIsWhole`),
which gives the second. For the first, a digest that an installer saw must
survive the late scripts of the others: they replace the file by the same build
(`SeenStaysInPlace`), and an uploaded binary that answered shows that its
directory may be executed from (`UploadedRuns`). Of
`AgentInstall!AgentInstallSpec`, for any agent, host and preflight:
`PlansAreDelivered`, a POSIX script that ends with status 0 leaves what its plan
promised, whatever else changed on the host in the meantime. A plan is a
concatenation of optional steps; that each step has its means before it
(`GoodPlan`) is proved of both kinds of plan and carried through the run
(`AgentInstallIsInvariant`).

`RecursionProofs` is what a proof about recursive functions and folds needs, for
data of any size. The library's induction rules take an operator, which no
prover here can be given; but that a relation is well founded is stated of sets
(`NatLessThanWellFounded`, `WFMin`), and the rest follows:

* a set of naturals has a least element, so a set that holds 0 and with a number
  the next one holds them all (`LeastNatural`, `InductionUpTo`);
* a recursive definition names *some* function that satisfies it, if there is
  one. There is (`RecursionHasASolution`), when the domain has a rank and a value
  looks at lower ranks only: a solution up to one rank is extended to the next;
* `FlattenSeq` puts each of its sequences where the one before it ends
  (`FlattenPlaces`), a fold from the left is the last of a run that starts at the
  base and takes one step an element (`FoldRuns`), and what is put together piece
  by piece, each where the last one ended, is the whole (`GatheredIsWhole`).

`OpsProofs` is about the requests of the helper, `HelperOps!OpsSpec`, and of the
script, `Fallback!FallbackSpec`: for any worktrees, requests and edits, any caps,
and any number of changes, commits, entries and bytes. Its assumptions are that
the caps are positive (`OpsAssumption`), that the constants have their shape
(`WorktreesAssumption`, `EditsAssumption`, `OpRequestsAssumption`), and of git
that it prints a "2" record exactly where the letter of the change is R or C,
which is why `status` and `diff --name-status` agree on what has an old path.

* `RepliesWhole`, of `RepliesAreWhole`. A parser is a pass over tokens (`IsPass`):
  with `n` files found at token `i`, it stops at the cap or takes the entry there
  and goes on behind it. If git puts the record of each change where the one
  before it ended, which `FlattenPlaces` says of what it prints, then a pass
  stands on the records only and never on an old path, and shows the changes up to
  the cap (`PassShows`, for both parsers: `ParseStatusShows`, `ParseNameShows`).
  A page of the log is counted record by record, so that after `k` commits the
  entries and the mark are known (`CommitsAreCounted`); a page is a piece of the
  log, a chunk one of the file, and pieces gather to the whole (`PagesAreWhole`,
  `ChunksAreWhole`). The invariant, `OpsInv`, is that the worktree stays one git can
  report and the answer is what was asked of it, or git's failure.
* `FallbackAgreement`, of `FallbackAgrees`. The two implementations are brought to
  the same description: the script's stream of records, in which a read may be an
  old path and the last file is mended, shows what the parser shows
  (`StatusesAgree`); a walk up finds the least directory with a `.git`
  (`DiscoverFindsFirst`), which is what the script looks for; a NUL the script
  does not look for lies in the head it sniffed (`ReadsAgree`); without a second
  record of a commit nothing is passed over, so it does not matter whether that
  comes before the count or after it (`LogsAgree`); and short of the cap the
  order of sorting and cutting does not matter (`ListsAgree`). `FallbackInv` adds to
  the property that the line is a request, that a frame has a line, and that a
  stream is open for a status only, so that an edit of the worktree finds no
  frame it could make wrong.

Only model-checked, and why:

* what happens under fairness, as the prover has neither liveness nor ENABLED:
  `NoLeakedResource`, `EndedChildDies`, `CommandsReturn`, `DeadSessionIsReaped`,
  `QuietRunsReturn`, `CacheHeals`, `ResyncCompletes`, `SignsIn`, `WatchingEnds`,
  `EveryLineIsAnswered`, `CommitIsPushed`, `SessionsSettle`, `TailFollows`; and
  the findings, which hold of the instance they name;
* `HostsTypeOK`, the type invariants of several modules side by side: the parts
  that have theorems prove their own type invariant with them.

## Plan

1. The panel's and the helper lease's generations composed with
   `HelperManager`'s replacement of a host's session.
2. Pure reducers of the chat view and the panel (echo, virtual window, session
   groups, cache) against reference definitions.

## Not modelled

* Parsers, generated scripts as text, rendering, i18n and DTOs: data, not
  behaviour; a conversion is modelled only where a property is about it.
* The panel's change-tracking reducers and the chat view model: pure functions
  over data, no state of their own across steps.
* The helper lease's generations over `Lease`: planned.
* The CLI and the doctor: straight-line calls of the services modelled here,
  then printing.
* Configuration other than the cached system of a host; the core vocabulary.
* `raced` exceptions of the frontend's queries: a retry of a read.
