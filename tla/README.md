# A formal model of herdr-context

herdr-context is a Herdr plugin: a narrow terminal pane (a *dock*) beside a
terminal or coding agent, with a Files view and a History view. This directory
holds TLA+ specifications of the parts of it that are concurrent or must
survive failures, TLC configurations that check them on small instances, and
theorems checked by TLAPS. Everything is translated from the Rust source at
one commit; `PROJECT.json` maps each definition to the lines it stands for.

## 1. The system

A user key starts a short-lived **hook process** (`herdr-context toggle`) that
opens a dock; a startup hook (`restore`) brings docks back after a server
restart; a `pane.exited` hook prunes records. The dock itself is a long-lived
process: one thread draws and handles input, two worker threads do the rest.
Several docks, possibly of one project, and several hooks run at the same time
and share files in the plugin's state directory.

| Component | State | Operations | Hard because |
|---|---|---|---|
| Worker runtime (`worker/mod.rs`) | active keys, pending jobs, two lanes, result channel | submit, try_recv, recv_timeout, shutdown, the lane threads | bounded channels, coalescing by key and generation, joins |
| Subprocess runner (`worker/process.rs`), command execution (`host/client.rs`) | child group, two reader threads | run | deadline, cancellation, output limit, descendants that keep pipes open |
| Dock state file (`host/dock_state.rs`) | `docks.json`, `docks.lock` | upsert, remove, remove_by_pane, replace a section, load | several processes, crashes between file operations, lock deadline |
| Launcher and hooks (`host/launch.rs`, `main.rs`) | a lock per tab; panes of the server | toggle, restore, on-event | check-then-act across processes, calls that fail or answer late, restarts |
| Conversation index (`conversations/index.rs`) | sessions, a watermark per source, generations of cache files | open, refresh_page, persist | failed pages, other docks in one directory, deaths |
| Discovery and JSONL stores (`conversations/discovery.rs`, `sources/known_stores.rs`) | watermark entries | inventory, scan, extract | files change between the steps, paging, resumption |
| Other sources (`generic_jsonl`, `project_local`, `opencode`), formats | - | parse | parsing, mostly |
| Active sessions (`conversations/active.rs`) | - | match, merge | ambiguous matches |
| Controller (`controller.rs`), view model | requested and applied generations, live sensor, pane-input queue, launch gate | apply_result, schedule, intents | stale results, backoff, one key for two kinds of request |
| Files runtime (`runtime.rs`, `files/`) | tree, generations of loads, expansions, searches, status refresh | reload, expand, search, toggle ignored, panics | stale results, retry after panics |
| VCS (`vcs/`), project (`project/`), config, input, ui, perf | - | pure or sequential | parsing |

They interact in few ways. The application loop polls the worker runtime and
hands results to the controller, which hands some to the files runtime; both
submit jobs. A discovery job opens the index, asks the sources for a page,
merges and persists it, and its result makes the controller schedule the next
page. The launcher updates the state file and drives the Herdr server through
the host client, one subprocess per call.

What makes each part correct, in one line:

* worker runtime - one job of a key at a time, the newest request is never
  lost and is delivered, nothing blocks for ever;
* state file - updates of different processes are never mixed or lost, a crash
  leaves the old or the new file;
* launcher - one dock in a tab, records agree with open docks, the last
  ordinary terminal of a tab is not closed, every hook ends;
* discovery - what is passed over is listed, what is listed is accounted for,
  what is still there does not disappear, and a refresh catches up;
* cache - opened before or after a replacement it is whole, nothing is left
  behind, `current` names a file;
* files runtime and controller - a stale result changes nothing, every request
  is answered or superseded, gates open again;
* views - a row, a mark or a selection on screen is true of what was last read,
  and results that arrive while the user works do not move the selection.

## 2. Modules

| Module | Models | Runs |
|---|---|---|
| `LatestWins` | the promise of the executor: a mailbox per key that hands back the newest accepted generation | `backlog`, as `EventuallyDelivers` |
| `WorkerRuntime` | `worker/mod.rs`, step by step, with the loop of `app.rs` as poller | `backlog` |
| `Subprocess`, `HostCommands` | one command with its group, pipes and readers; what a job does with commands | `jobs` |
| `DockRecords` | the data of `docks.json`: sections, caps, the four updates | through the next three |
| `AtomicRecords` | the promise of `with_locked_state()`: an update is one step | `hooks`, as `ImplementsAtomic` |
| `DockStateFile` | lock, load, truncate, write, rename, failure, crash | `hooks` |
| `DockLauncher` | toggle, restore and on-event processes over an atomic state file | `hooks`, `disk`, `lostrecord` |
| `ConversationCache` | the cache directory under several docks | `disk` |
| `ConversationDiscovery` | pages of discovery over a store of changing transcripts, merged into the index | `sources` |
| `OpenCodeSource`, `ProjectLocalSource` | the same for the other kinds of source | `sources`, `stay` |
| `StoreInventory` | the walks of Pi, OMP, Claude Code and Codex over their stores, with limits | `disk` |
| `Transcripts` | the resumable scan of one transcript of each format | `jobs` |
| `Controller` | `controller.rs` | `controller`, `recovers` |
| `FilesRuntime` | the Files view: reloads, expansions, status commands, panics, over a changing disk | `files` |
| `FilesSearch` | its search: index, pages, projections | `views` |
| `FilesTree`, `VcsStatus`, `ChangesPane` | tree and statuses; what the two panes show | `views`, `vanish` |
| `HistoryList` | the list of conversations and its merge with live sessions | `views` |
| `KeyBindings` | settling the conflicts of configured keys | `disk` |
| `WorkerRuntimeProofs`, `ConversationCacheProofs`, `ConversationDiscoveryProofs`, `FilesRuntimeProofs`, `HostCommandsProofs`, `ControllerProofs` | theorems about the module of that name, and about instances of `HistoryList`, `Transcripts` and others | TLAPS |
| `DockProofs` | theorems about `DockStateFile` and about an instance of `DockLauncher` | TLAPS |
| `FilesViewProofs` | theorems about instances of `FilesSearch` and `ChangesPane` | TLAPS |

The `MC` modules give the instances. Five of them (`MCDockScenarios`, `MCDisk`,
`MCSources`, `MCJobs`, `MCViews`) check several components in one run: a
constant variable picks at the start which component a behaviour is about, and
the variables of the others stay at rest. The components do not interact there;
sharing a run only saves runs, and a property names the component it is about.

How they fit together. `DockStateFile` implements `AtomicRecords`, which is why
`DockLauncher` may update the records in one step (`Applied` of `DockRecords`).
`WorkerRuntime` implements `LatestWins`, which is why `Controller`,
`FilesRuntime` and `FilesSearch` model a job as a mailbox. `HostCommands`
extends `Subprocess`: each command of a job is a run of it.
`ConversationDiscovery` writes the index in one step; `ConversationCache` splits
that step into file operations and leaves the content out. It also takes a
page's listing of files as given, which `StoreInventory` walks for, and says of
a file only from which line it names a session, which `Transcripts` derives from
records. `ChangesPane` builds on `FilesTree` and `VcsStatus`.

### Worker runtime

`active`, `latest` and `pending` are the maps of the struct, `queue` and
`results` its channels, `worker` and `held` where each lane's thread is and the
job it has. `main` and `call` say where the one thread that owns the runtime
is: outside, inside `try_recv`/`recv_timeout`, pumping pending keys one by one,
waiting with a timeout, or joining lanes in `shutdown`. A job is its key and
generation; running it (panics included, which `run_lane` catches) is one step
`Finish`. A stale result is dropped by `AcceptCompletion`, as in the code.

### Subprocess and host commands

`Subprocess` has the state of a process group (leader, forked child), two pipes
of one buffer, two reader threads, and the caller's polling loop with its
deadline, cancellation and limit; `runner` distinguishes `process.rs` (git, jj)
from `client.rs` (Herdr). `HostCommands` is a job: resuming a conversation (four
commands under one deadline, of which a part is reserved to close the new tab
again), sending a reference and walking the focus back, or a status. What Herdr
was asked for it may do after the command has been given up, or never. Time is
what is left of the deadline.

### Dock state file

A process waits for the lock, reads, truncates the temporary file, writes it,
renames it. Any operation can fail and the process can die after each; the
system releases an advisory lock with its holder. A record is the pane that the
dock of a tab has: workspace, ratio and other fields never decide anything.
`Clamped` drops what exceeds the cap on servers when the file is read. It also
cuts long sections in the code; no file that the program writes has one
(`SectionsWithinCaps`), and files that another program has written are left out.
There is no fsync in the code; loss of power is not modelled.

### Launcher

A pane identifier belongs to one tab and is used once (`unused`, then `shell`,
`dock` or, after a restart, a shell with the dock's old title, then `gone`).
A hook is a sequence of calls: take the tab's lock, query the panes, verify
which are docks, close duplicates, decide, open or close, persist. `restore`
does this for every record of the server it read at its start and finally
overwrites the server's section with what it kept (`Overlay`). Calls may fail
(`CallFails`), take effect without an answer (`LoseOpen`, `LoseClose`), take
effect after the hook gave up (`LateOpen`); hooks may die. Focus is left to
chance, since it only decides whether a toggle focuses or closes.

### Discovery

The store is a set of files of one or two *units* (what one page may read of a
file), a session that is named from some unit on, and a stamp for modification
time and length. Agents create, append, replace and delete files, and a file
may become unreadable, between any two steps of a page. A page is: decode the
watermark, take the inventory (`StartPage`), look at files newest first
(`LookAtNext`: skip, postpone, or scan), make the batch (`Batch`), extract each
candidate (`Extract`), merge (`Merge`). `Purge` is the branch of discovery for
a watermark that cannot be decoded. Two variables are not in the code and no
action reads them: `contested` (sessions that two files claimed while one of
them was not seen) and `strays` (listed from a page that failed).

`OpenCodeSource` has the database as its files, marks and committed rows, and a
page as capture, query in one read transaction, validation of the rows, check of
the database's identity, hand over, extract, merge; OpenCode commits and checkpoints between any two. `ProjectLocalSource`
reads its whole directory in every page and extracts what changed.
`StoreInventory` is the walk alone: a step enumerates a directory, looks at its
entries or ends the walk, under `MAX_STORE_FILES` and the limits of
directories, and `Complete` is what the code derives from the errors noted.

### Transcripts

A file is a sequence of records and a tail after the last newline. Each format
decides per record: names the session, dates it, titles it, rejects it, goes on.
An entry of the watermark carries where the scan stopped, the guard on the
prefix, what was found and what is parked. The reference definition says of all records
at once what makes them a session (`Good`) and what it is (`SessionOf`), without
going through them one by one.

### Cache

`Begin`/`Clean`/`Find`/`Read` are the opening of the index at the start of a
job, `Write`/`Publish`/`Point`/`Switch`/`Sweep` its replacement at the end. A
directory listing is one step, each removal another, and to find a listed file
gone is an error that ends the job, as in the code. The two listings look at the
first `MAX_CACHE_DIRECTORY_ENTRIES` (64) entries, in whatever order the system gives
them: `Listings` are all sets of `MaxEntries` entries. What is beyond stays for a
later job, so `Tidy` promises that nothing old is left only if both listings of the
job saw everything (`whole`, auxiliary); that the new index is there and that
generations advance holds in any case.

### Controller

A job of a key is its newest: none, one that waits, or what it found
(`discovery`, `live`, `launch`, `input`). The gates of the jobs that change Herdr
are `launch_running` and `input_running`, `queue` is the queue of references; what
reached the pane (`inserted`), what a page was last asked for (`asked`) and what
quiet polls have met (`drifted`) are kept for the properties only. Polls are loud or quiet under one key. The time to the next poll is
left open (`Elapse`), so any backoff is covered.

### Files view

`FilesRuntime` has the struct's own variables: `expanded`, `desired_expanded`,
`pending_expansions`, `reload_pending`, the running listing (with what it is
for), whether the rows are those of a search (`filtering`), and of `RefreshCoordinator` whether a status is requested and whether a
command runs. Generations are only ever compared with the newest one, so
`invalidated` (the newest filesystem generation is newer than every job's),
`status_requested` and `outdated` (the tree revision has changed since the
command took the tree along) stand for them. The tree is, for each directory,
what was last listed there, when (`stamp` counts the changes of the disk) and
whether with ignored files; a status is the stamp it was read at.

Every action ends as the handlers do: with `start_next_filesystem()` and
`start_next_vcs_refresh()` where the code calls them, directly or through
`retry_pending()`. A listing job reads one directory at a time (`LoadOne`) while
the disk changes; a status command reads at one moment (`ReadStatus`). The
queue of the worker may refuse jobs for a while (`QueueFills`). A listing that
fails is one whose directory is gone. While a search has a query, nothing is folded
or unfolded by the user, and `rebuild_visible_rows()` returns before it forgets the
folding of directories that are gone (`Rebuilt`); it catches up when the query is
cleared (`ForgetsQuery`). `strayed` (auxiliary) has the unfolded directories whose
node went away meanwhile.

`FilesSearch` has the index of a search, the pages that fill it and the
projections on the query, with the epoch and generation under which a result is
taken; `ChangesPane` both panes with selection, window, focus, folding and
pointer, over `FilesTree` (listings, virtual nodes of deleted files, inherited
marks) and `VcsStatus` (what each record of `git status` and of jj's summary and
conflict lists becomes).

### History list and keys

`HistoryList` merges sessions on disk with those that live in Herdr, groups them
by provider, and has selection and scrolling with their migration when a result
replaces the list. A sorted row is given by the ranks of its elements (`InOrder`):
the element in place i is the one with i - 1 before it. `KeyBindings` takes the loop that resolves conflicts between
configured and default chords, one pass per step.

## 3. Runs

| Run | Question | Instance | States |
|---|---|---|---|
| `backlog` | Do jobs of a key overlap, is the newest lost, does a lane block, is the newest delivered, does shutdown return? | 3 high keys on 1 slot, 1 low, 2 generations | 1 million |
| `hooks` | Is an update of `docks.json` atomic? Do two hooks leave two docks in a tab? Do hooks end? | "file": 2 processes, 2 servers, 3 tabs, caps of one; "overlap": 1 tab, 2 hooks, 5 panes, 1 fault, 1 restart | 0.43 million |
| `disk` | Is the cache replaced whole and left tidy? Do records and docks agree through a restart? Does an inventory that counts as complete miss a transcript? Do keys settle? | "cache": 2 docks, 2 jobs, 2 faults, listings of 3 entries; "restart": 2 tabs, 7 panes, 1 fault, 1 restart; "inventory": 4 formats, 3 files, store limit 2, directory limits 1 and 2, 3 edits; "keys": 3 actions, 5 texts | 1.3 million |
| `files` | Is a reload or a wish lost, does the view go back in time, does polling end, does the status catch up? | a directory with an ignored one inside, 1 change of the disk, 3 intents, 1 fault, both cadences | 1.1 million |
| `controller` | Do gates match jobs? Is a reference lost or sent out of order, is the list complete, do polls settle? | 1 conversation, queue of 1, 1 change, 3 intents, 1 fault, adaptive polling | 1.1 million |
| `jobs` | Does a command leave processes behind? Does a failed resume close its tab? Is a transcript scanned in pages what it would be read whole? Does work end? | commands: deadline cut to 2 per command, 1 for readiness, overrun 1, 1 to 3 panes; scans: 4 formats, 3 or 4 records, page of 2, 2 titles | 1 million |
| `sources` | For each kind of source: is what is passed over listed, what is listed accounted for, does anything that is still there disappear, does a refresh catch up? | 3 files, 2 sessions, 1 scan per page, 4 edits, 1 fault; OpenCode 2 sessions, 4 edits, 1 replacement; 3 places of records, 4 edits | 1.3 million |
| `views` | Is what is drawn true? Does a search come to rest, and the selection stay? | search: 1 directory, 2 files, page of 1; list: 2 tools, 3 sessions with a transcript each, heights 2 and 4, 3 changes; panes: few workspaces, 1 edit, 2 intents, and each of many workspaces at rest | 0.5 million |
| `lostrecord` | Is the record of an open dock ever dropped? | "restart" with a user who does not wait | violated |
| `recovers` | Do live rows come back after one failed refresh? | as `controller`, 2 intents | violated |
| `stay` | Does an OpenCode session that is still in its database stay? | as `sources` | violated |
| `vanish` | Does a listed file that is on disk keep its row? | 2 files, 2 edits | violated |

Why the bounds are enough. *Worker*: every decision concerns a key against one
other key that holds the slot, and a generation against a newer one; three keys
on one slot give a pending job that is overtaken while it waits. *State file*: a
second process is one that could interfere with the first, and caps of one make
both caps bite. *Launcher*: two hooks overlap in every way two can; two tabs are
needed for `restore` to work on one while the other changes. *Discovery*: two
files of one session make duplicates, a third with its own session can disappear
from sight, four edits are the shortest way to create, duplicate, hide and
delete, and one scan per page makes every page partial. The proofs cover what
is beyond: section 4 tells of a mistake that needed ten edits. *Cache*: one
dock finishes a generation while the other is slow or dies, a limit of three entries is
below what a failed and an overlapping job leave behind, and a job that starts in a
directory that is small enough sees everything. *Inventory*:
each limit is met exactly and exceeded by one. *Files view, controller*: an
intent, a change of mind while its job runs and a third step make every order of
the handlers; a queue of one is full after one reference. *Commands*: the
deadline is cut so short that every command can be the one that meets it.
*Transcripts*: a page of two records, a guard of two and files of four make a
scan stop, resume, and find its prefix replaced. *Views*: heights above and
below the number of rows make scrolling necessary and idle.

Deadlock is not checked where the system stops: after `shutdown`, when the
bounded restarts, panes, edits, intents or jobs are used up.

### Findings

Found violated, by a run:

* `lostrecord`: `restore()` replaces the section of its server with what it
  read at its start. A dock toggled open meanwhile in another tab loses its
  record, and is not restored the next time.
* `recovers`: a refresh that fails clears the live rows, but the sensor keeps the
  fingerprint of the last answer. Quiet polls that find Herdr unchanged return
  before they apply anything (`controller.rs:424`), so the rows stay gone.
* `stay`: one OpenCode title of more than 256 bytes makes the page fail as
  `InvalidData`, which purges the source: every OpenCode session disappears.
* `vanish`: a status puts a virtual node over the listed node of a deleted file,
  the next one removes all virtual nodes; a file that has come back has no row
  until the tree is read again.

Found violated by a configuration that is kept but is no run (`tlc -config ...`):

* `MCSources_purge.cfg`: an empty transcript (or a new one that cannot be read at
  first) gets a watermark entry that `decode_watermark()` refuses. The next page
  drops every session of that source and starts over.
* `MCDisk_dangles.cfg`: a slow dock points `current` at its file after a faster
  one has removed it as an older generation. The next opening starts from
  nothing, and files of newer generations stay until a generation passes theirs.
* `MCDisk_listed.cfg`: `list_directory()` fails with `NotFound` when an entry
  disappears between its two looks at it (`known_stores.rs:1429`). Pi, OMP and
  Claude Code take `NotFound` for a directory that does not exist, so the
  inventory is empty and complete, and the project's sessions leave the list
  until the next refresh; Codex skips the whole day.
* `MCChangesPane_inherits.cfg`: README.md:76-77 says "directories inherit the
  strongest status of their descendants", and `DirectoriesInherit` of `ChangesPane`
  states it. `insert_status_with_ancestors()` gives directories only conflicted or
  modified (`tree.rs:547`): one whose single change is an added file shows as
  modified. The same holds of files that are renamed, copied, deleted, untracked or
  of another type. `StatusTrue` says of directories only what code and README agree
  on, and leaves these cases out.
* `MCHistoryList_migrates.cfg`: all conversations of OpenCode have the database as
  their transcript, so a selection that is matched by transcript jumps to another
  conversation when a snapshot replaces the list.

Met while modelling:

* A poll can be armed while a status command runs, when the command was started
  for a request that came during the one before. If the command takes longer than
  the interval, the poll asks for another one, the result is no longer current and
  is dropped, and the interval does not grow since the command did not fail. This
  goes on for as long as the view stays. Polling is off unless configured.
* A dock that exits before its toggle has recorded it (`launch.rs:169`) leaves a
  record that nothing prunes, although `main.rs:81` says of the exit hook that it
  prunes such docks "so a later restart does not resurrect them". Without
  `UserWaits`, `RecordsAreDocks` shows it.
* Duplicates of a session are looked for among the files of one inventory
  (`known_stores.rs:811`). A file that it missed (its directory could not be
  read) keeps an entry for a session that another file names meanwhile; neither
  entry is marked. When one of the two goes away the session is removed, and the
  other file, unchanged, is passed over from then on: its session is not listed
  again until the file changes. `tests/conversation_external_discovery.rs:1898`
  says that the surviving file is indexed again. A rename of a record file while
  another cannot be read does the same to the project-local source.
* More than 256 record files make the project-local source fail as `InvalidData`
  rather than as incomplete, so that all its sessions are removed; so does a
  watermark in which kept and listed files together exceed 256.
* An OpenCode database that is replaced by another file blocks its source for
  good (`Blocked`). A store that disappears between two probes writes an empty
  watermark. Entries that exceed `MAX_STORE_FILES` after an incomplete inventory
  are dropped (`known_stores.rs:938`). The newest sessions are kept by
  `trim_oldest()` while the watermark has the others' files as read.
* Transcripts: a file rewritten in place beyond the 4 KiB guard is taken for one
  that grew; whether a record longer than a page is parked depends on the byte
  the file ended with at that moment.
* Controller: a quiet poll that fails after it superseded a loud one leaves
  "loading" on while Herdr stays down; with no host binary and adaptive polling
  the loop does not wait (`controller.rs:337`); the errors of sources are computed
  and not shown (`controller.rs:826`); a session that starts between a page and the
  first loud answer is taken for known and never looked for on disk.
* Files view: after a second panic `desired_expanded` keeps directories that are
  neither unfolded nor pending, so a key to unfold them does nothing until they
  have been folded once (`abandoned`). A click on the selected row of the other
  pane moves the focus without drawing it. `has_notice` omits the notice of a
  reference, which covers the last row. A conflicted file that is gone from the disk is not
  shown as missing; a changed
  file that is tracked and ignored has a row below but none in the tree; jj's
  conflicts that `@` has resolved are still shown as conflicts. The index of a
  search keeps the visibility of the first `/` (`runtime.rs:683`). An unfolded
  directory that is removed and made again while a search is on screen keeps its
  place in `expanded` (`runtime.rs:1605`), and is unfolded and empty from then on
  until the next reload.
* A loud poll that is superseded by a quiet one leaves the line "loading" on; a quiet
  answer with an unchanged fingerprint takes it away without redrawing, so a click
  selects the row below the one under the pointer (`ClickSelects` of `HistoryList`).
* History list: two rows may stand for one session until transcript and live
  snapshot agree (`active.rs:20`); keys and pointer act on rows that a loading
  line or an error hides.
* `try_wait()?` in `client.rs:918` returns without ending the group; `NoneLeft`
  assumes that it does not fail.

The properties are stated up to these, and hold otherwise:
`SessionsStayDecoded` and `OneRefreshSuffices` up to `purge`, `Covered` and
`OneRefreshSuffices` up to lost duplicates (`contested`), `PromptStatusCatchesUp`
up to commands that are overtaken, `GenerationsAdvance` and `Tidy` up to
overlapping jobs, `RecordsAreDocks` up to a user who waits for the startup hook.
`TerminalRemains` also needs that user: the shell to close is chosen before the
dock is opened, and a terminal that exits in between makes that shell the last.

### Fairness

* *Lane threads* run and the *caller keeps polling* (`App::run` calls
  `try_recv` in every turn of its loop); a wait in `recv_timeout` ends. Nobody
  has to submit. Weak fairness is enough: a key that waits for a slot is pumped
  by the poll that frees one.
* *Hooks and state-file updates* go on: each call has a timeout, and polling a
  lock has a deadline. A hook may be starved of a lock and then gives up.
* *Commands*: the caller polls, readers read, and the deadline expires, each
  weakly; the command itself and Herdr need not do anything.
* *Controller*: jobs run and the clock ticks, weakly. Applying the answer of a
  poll is strongly fair: an answer may be superseded again and again by requests
  of the user, and the loop, which polls many times a second, meets one.
* *Files view and search*: the worker's threads run (`LoadOne`, `ReadStatus`),
  results are polled and `tick()` is called by the application's loop
  (`CompleteFilesystem`, `CompleteVcs`, `CompletePage`, `CompleteProjection`,
  `Tick`), a full queue drains and a reload is applied. Users, the disk, panics
  and the results of other jobs need not come.
* *Discovery*: a page that is due is read and ends. Of a transcript, pages are
  fair once its agent is silent, since an agent that replaces the file before
  each page may starve its scan. Agents and users need not do anything.
* *Keys*: the loop goes on.

## 4. Theorems

TLAPS proves the following for any constants that satisfy the modules'
assumptions.

**Worker runtime** (`TypeCorrect`, `AtMostOneInFlight`, `LanesNeverBlock`,
`NewestIsKept`, `ExecutorIsMailbox`). The inductive invariant is `TypeOK /\
Phases /\ Ownership /\ OneInFlight /\ Counted`, and `Fresh` for the last two.
`OneInFlight` alone is not inductive: that a key may be sent to a lane rests on
its not being in `active`, so `Ownership` says that whatever is in a lane, a
thread or the channel belongs to an active key and to the lane of its priority.
For `LanesNeverBlock` jobs are counted: those under way are at most the active
keys, accepted keys at most the places of the result channel, so a thread that
has a result to send finds room even while `shutdown` does not read. `Fresh`
says that generations only move forward: what is on its way is newer than what was
delivered and older than what waits behind it, and what waits is the newest. With it
each step is a step
of `LatestWins` (`newest` is `latest`, `closed` is `ShuttingDown`; accepting a
submission is `Accept`, `AcceptCompletion` of the newest is `Deliver`, `Shutdown`
is `Close`, the end of the joins `Forget`) or leaves the mailbox alone.

**Dock state file** (`StateFileTypes`, `StateFileExclusive`,
`StateFileRefines`, `SectionsWithinCaps`), in `DockProofs`. `Exclusive` is inductive with the types:
the holder of the lock has read what is still on disk. From it each `Rename` is
one `Apply` of `AtomicRecords`, every other step a stutter or a `GiveUp`. `SectionsWithinCaps` justifies that `Clamped`
does not cut sections.

**Launcher** (`LauncherTypes`, `OneDockInTab`, `LastTerminalStays`,
`RecordsNameTheDocks`), in the same module as instance `La`, for any servers, tabs,
panes and processes. The runs'
properties of the same names restrict these to a scenario.
`OneDockInTab` needs what each process knows between its query and its action:
under the tab's lock its view of the docks is the tab's (`View`), a pane that was
asked for cannot appear late unless a call failed (`NoneLate`), and what a process
has still to look at is what it has seen (`Sees`). `LastTerminalStays`, for a user
who does not close panes behind a command's back, says of every process that is
about to close a shell that another terminal of the tab remains (`Companies`).
`RecordsNameTheDocks` assumes `RecordsKept`: hooks of a server do not overlap its
startup hook, that hook is enabled, and the file has room for every tab. Its
invariant (`Book`) says for every process at every step what the file may lack or
have too much: the record of the dock that it is about to name, or the one of the
pane that has exited.

**Conversation cache** (`CacheTypes`, `CacheGenerations`, `CacheTidy`), for
any number of docks, jobs and faults. `Fresh` says that a job's file name was
never used before; so publishing it changes nothing that `current` names.
`Alone` says what the directory may hold at each step of the only job
(`Swept`: which temporaries; `Succeeds`: that its file is the successor of
what `current` names, and that what it will remove is older); `OnlyJob`
reduces a step without overlap to a step of that job. `CacheTidy` is proved for any
limit on the entries that a listing looks at, 64 in the code: a job that ends in its
usual way leaves its index and the pointer to it in any case, and nothing older and no
temporary file if its listings saw the whole directory. So `Swept` says what a listing
has only under `whole`.

**Conversation discovery** (`DiscoveryTypes`, `PassedOverIsListed`,
`ListedIsNamed`, `ReadableSessionsStay`), for any files, sessions, limits and
numbers of edits and faults; the properties are `Covered`, `Accounted` and
`SessionsStayDecoded`. A page works on what it saw when it began while the files
change, and only the growth of stamps keeps it from believing an old observation.
`DiscoveryInv` is `TypeOK`, `Stamped` (every stamp noted anywhere is one that the
file has had), `Phases`, `Findings` (an unchanged finding is the old entry, a
failed one keeps it, a new one was read from the file as it was at its stamp),
`Batched` (removals and candidates are those that the findings call for),
`Distinct` (two files whose entries name one session both know it, or the session
is `contested`), `Covered` and `Accounted`. Without `Distinct` the removal of one
file could take a session off the list whose other file is then passed over. For
`SessionsStayDecoded`, `StayInv` adds that what is known of a file makes each later
scan reach the line that names its session, as long as the file is the one that was
listed (`Reads`, `Current`, `Ages`).

The attempt to prove `Covered` showed that the model's own bookkeeping was wrong:
`Merge` let a session leave `contested` even if the page had failed, when its
candidates are not listed and removals are not made. A violation needs about ten
edits over four files, beyond what TLC can reach; `contested` now changes as the
merge does. The invariants were then checked by TLC on the run's instance and one
with more edits, two faults and two scans per page before they were proved.

**Other sources and the walk**, at the end of the same module, as instances `DB`,
`Loc` and `Inv`.
`OpenCodeTypes`, `OpenCodeIsListed`, `OpenCodeSkipsSoundly`: `TypeOK`,
`WatermarkListed` and `SkipIsSound` of `OpenCodeSource` for any sessions, limit,
edits, replacements and faults. Every edit leaves marks that the database never had
(`Marked`), so marks that it still has when the page ends vouch for everything that
was read in between (`ReadAsMarked`). `LocalTypes`, `LocalPassedOverIsListed`,
`LocalListedIsNamed`: `TypeOK`, `Covered` and `Accounted` of `ProjectLocalSource`, for
any natural number of files. What one page decides is the value of a recursive
function over the files; instead of an induction the proof takes the first file at
which the function would have no value (`LocalLoop`), or at which its value would not
be as claimed (`LocalTaken`). `Made` says what the loop leaves, `Batched` that the
batch under way is that, `Rivals` that two entries of one session are `contested`.
Of the run's `OthersCovered` these are all four parts.
`InventoryTypes`, `InventoryHasAll` (`InventoryComplete`), `InventoryProves`
(`ListedStayUnlessMissed`): the walk of each store, for any layout that is a tree of
its format's depth (`LayoutIsTree`, `LimitsAreNumbers`; `MCDisk` has TLC evaluate both
for its stores), any limits and edits. `NothingLost` says that a transcript that was
there since the walk began has been found, or a directory on the way to it is still to
be listed, or an error has been noted; it needs `Enumerated` (the enumeration has what
was there all along) and `Rooted` (with a transcript there is every directory on the
way to it). The exception, an entry that goes away under the very listing, is by
`InventoryProves` the only cause of what `MCDisk_listed.cfg` finds.

**Files view** (`FilesTypes`, `PendingNeverRefused`, `EveryWishServed`,
`PollingGoesOn`, `ReloadReached`, `TreeNeverGoesBack`, `UnfoldedIsListed`),
for any tree of directories, visibility, cadence and bounds. Three lemmas say what
a call of `start_next_filesystem()` or `start_next_vcs_refresh()` keeps, whatever it
is called with; a step of the view is such a call with its own arguments.
`NeverRefused` is inductive by itself. `WishesServed` needs it (a result that is
applied finds nothing pending) and `StillFolded` (what is being listed is not
unfolded yet), `Polls` needs `ActiveOnScreen`. `ReloadReaches` and `TreeAdvances`
follow from `FilesInv`, of which `Timely` orders the stamps of the disk, the
listings, the job and the latest reload, `ListingFresh` and `StatusFresh` say that a
result that would be applied is no older than what it replaces, and
`ReachesUnfolded` that a listing covers what is unfolded. `NodesStay` says that a
directory which a reload must reach keeps its node, whatever was pruned during a
search, unless an ignored directory above it went out of sight: what is unfolded again
with the query cleared is then nothing that the reload has missed. `UnfoldedIsListed`
says that without a search every unfolded directory has a node, and that one whose
node did not go away under a search has been listed. A result is folded into
the tree one listing at a time; instead of an induction the proof takes the first
listing after which the claim would fail (`NothingApplied` and well-foundedness of
the naturals).

**Search of the Files view** (`SearchTypes`, `SearchFindsAll`, `SearchShowsMatches`), in
`FilesViewProofs` as instance `Fs`, for any finite project of numbered names, any
ignore rules, limits and size of a page; the properties are `TypeOK`, `ScanCovers` (the
run's `ScanFinds`) and `ResultsMatch` (part of its `RowsTrue`). `SearchInv` says of the
directories that are to be listed, `Waiting`, or `PageWaiting` for the page under way,
that they are in the index, none twice and none below another (`Frontier`), and that
what has been on the disk since the scan began is in the index or below one of them,
and nothing else is (`Finds`). That none lies below another is what makes a listing
safe: what it takes off the index with a directory that is gone cannot have been
listed earlier in the scan. It needs that the disk and the index have with a path
what is above it (`RootedDisk`, `RootedIndex`), and that an ignored directory hides
what is below. `PageMatches` says that the entries searched that a page assembles are
those of the index it assembles; `Awaits` that the projection that runs is of what is
searched now. TLC checked `SearchInv` on an instance with two nested directories and
three files (2.3 million states) before it was proved; the proof then asked for two more
conjuncts (`truncated => complete`, and that a page that was cut short has nothing left
to do), which were checked in the same way.

**Panes of the Files view** (`PanesRowsTrue`, `PanesShowSelected`), in the same module as
instance `Cp`, for any finite set of directories and files, any workspaces, heights and
bounds; the properties are `RowsTrue` and `SelectionShown` of `ChangesPane`, which the run
checks together with those of the list. `PaneAssumption` is the module's
`WorkspaceAssumption`, `NoneAssumption` and `BoundAssumption` (`MCViews` has TLC evaluate
them). `PaneInv` is `PaneTree` (only a deleted file is in the tree without its directory,
`RootedTree`; what is open is a directory; the rows are those of the tree; one of them is
selected, or none), `PaneList` (the list has the file selected) and `PaneView` (the windows
are where a drawing would leave them, and the screen shows them). The last is needed
because a key that selects what is selected already draws nothing: `PaneUndrawn` says that
a drawing would have changed nothing, which rests on `EnsureVisible` being idempotent. The
rows are a recursive function over directories; instead of an induction `PaneUnfolds` and
`PaneRowsBelow` take the directory with the fewest paths below it for which the claim
would fail. A deleted file hangs below the nearest directory that is left
(`PaneDisplayParent`), so that each node is below exactly one (`PaneParts`, `PaneApart`).
`PaneLoaded` follows a listing of several directories in the same way, and `PaneFirstRow`
says that the view opens with its first row selected.

**Status of the workspace** (`PanesTellStatus`), of the same instance, for any files and
any contents, moves and conflicts of the three trees that `VcsStatus` compares; the
property is `StatusTrue`. `StatusAssumption` adds `RepositoriesAssumption` to
`PaneAssumption`. Two things are proved. That a report tells the truth is a fact about one
workspace: `VcsSnapshot` says of the entries that either adapter makes of its records
(`Told`) that the strongest kind of a file's entries is the mark that the three trees give
it, that the entries that name it as their source are those of the files that came from
it, and that a file which is gone from the last tree is said to be deleted.
`VcsGitReport` and `VcsJjReport` turn the sets of records into what is said of one file
(`GitTold`, `JjTold`); an entry may leave out a kind only if it keeps a stronger one
(`VcsDominates`). `VcsAfterRead` says that jj, whose command takes a snapshot of the disk,
reports the same before and after it. That the panes show what the report told is then
`PaneStatusTells`: what is made of the entries has the files in the order of paths, each
once, and no mark but theirs on a directory. `StatusInv`, the inductive invariant, carries
this through the steps in between: what a command that runs has read is told by its
entries, whatever is edited since, and the list and the marks are those of the status
applied last; a listing, a failed or an overtaken command leaves them alone.

**Host commands** (`FailedResumesClose`, `CommandsLeaveNone`), for every timeout and
every overrun that is shorter than a timeout. `TimeLeft` says that each
command before the last leaves the reserve of the deadline, so that closing the tab
has time left; `Closing` that a closing under way has been asked for. `NoneLeft` is proved of the
runner with its group, its pipes and its readers.

**Transcripts** (`TranscriptTypes`, `TranscriptsReadAsWhole`), in the same module as
instance `Tr`, for any sizes of a page and of the guard, any limit of records and any
number of records that agents append, retitle or lose (`TranscriptsAssumption`, which
`MCJobs` has TLC evaluate); `ReadAsWhole` is the run's `ScannedAsWhole`. `Told` says that
what a scan carries from page to page is what the records up to its offset say, with
what the next one will be compared with; `Kept` that an entry whose file is the same one
holds such a state of records that the file still has, but for the title slot, which is
the first record of the guard. One more record keeps `Told` or shows that no session has
these records, format by format (`PiNext`, `OmpNext`, `CodexNext`, `ClaudeNext`). The
loop over a page is a recursive function; instead of an induction the proof takes the
first record at which it would have no value (`FoldLoop`) or not the one claimed
(`FoldMade`). `PageFacts` and `ReadableFacts` say where a page ends and that a scan
reaches exactly the records before the first one longer than a page, so that a page
that is parked or refused is so for what the whole file says (`PageRead`). TLC checked
`TypeOK` and `Kept` on the run's instance first.

**Conversation list** (`ListRowsTrue`, `ListShowsSelected`, `ListFollowsSelection`), in
`ConversationCacheProofs` as instance `Hl`, for any finite set of sessions, any
providers, pages, reports and heights. The properties are those of that name of the
module, which the run checks together with those of the panes. `ListAssumption` is the
module's, `ReportedAlone` says that a transcript Herdr reports by its path is of one
session (`MCViews` has TLC evaluate them): a path that several sessions share, as those
of OpenCode share a database, names none of them, so Herdr has to report these by their
id. Nothing is assumed of other transcripts:
`SelectionFollows` says that the selection is left alone as long as its row is listed,
and else moves only to a row of the same tool and the same transcript. That it stays
with its session (`SelectionStays`) is false of a shared database, as
`MCHistoryList_migrates.cfg` shows; the run's sessions have a transcript each. `ListInv` says
that the rows are always the merge of the last snapshots, that the selected provider has
rows and the selected row is one of them, not folded away (`Chosen`), and that what is on
the screen holds it (`Shows`). A step that draws nothing is the hard one: it may bring
the selected row into the window again, by a warning that is lower by now than the one
drawn, so `Shows` keeps the row above the window's end and `ListPlaces` shows that the
window then never moves down. The lemmas on the rows say that `InOrder` has every
element once, that a finite set of rows is told apart by its references
(`ListMergedRows`), that a report matches at most its own session (`ListMatch`,
`ListMergedTells`), that the lines are the headers and unfolded rows of the list
(`ListLines`) and that the window holds the selected one and is full unless at the top
(`ListWindow`).

**Controller** (`ControllerTypes`, `GatesAgree`, `ReferencesInOrder`,
`DropsAreTold`, `EverythingAskedIsListed`), for any set of conversations and queue.
`GatesMatch` is inductive with the types. `ReferencesInOrder` adds `PickedInOrder`:
what is sent, in flight and waiting is one increasing sequence, whose last is not
newer than the last one picked; taking the head and dropping the tail keep that.
`EverythingAskedIsListed` adds `PagingKept`: a page was asked for since each
new session was met, and the page that ends the paging has all that was on the disk
when it was asked for.

### Only model-checked

* Liveness, which the proof system cannot do under fairness: `EventuallyDelivers`
  (its safety part is `ExecutorIsMailbox`), `ShutdownReturns`, `HooksEnd`,
  `PromptStatusCatchesUp`, `LiveSettles`, `WorkEnds`, `SourcesSettle`, `SearchRests`,
  `KeysSettle`.

## 5. Plan

Done: all components of section 1 but those of section 6, and proofs about fifteen
of their modules: every safety property and every action property that a passing run
checks, in whole or for each of its parts (section 4). What is left is liveness, which
stays with TLC.

## 6. Not modelled

Rendering beyond which rows are where, the syntax of transcripts, of VCS output and
of the configuration (data, with unit tests of their own), the SQLite VFS
(consistency is SQLite's), project resolution, performance counters. Permissions and
path validation are not behaviour over time. Of modelled components these are left
out: `trim_oldest()` and the byte budget of watermarks, unregistered sources, mtimes
and cancellation inside a walk, symbolic links in the tree, Jujutsu's modes that the
application never sets, patterns of ignore files, the ranking of matches, letter case
and labels of keys, retries of a busy executable. `PROJECT.json` lists every component
with its reason and every hazard with the property that covers it.
