---------------------------- MODULE FilesRuntime ----------------------------
(***************************************************************************)
(* The Files view (src/src/runtime.rs, over src/src/files/mod.rs,          *)
(* refresh.rs and tree.rs).  The user expands and collapses directories,   *)
(* asks for reloads, shows and hides ignored files, searches, which hides  *)
(* the folding until the search is cleared, and leaves the view.           *)
(* Directories are listed, and the status of the repository is read, by    *)
(* jobs of a worker thread, one of each kind at a time, while the disk     *)
(* changes.  What comes back is applied to the tree on screen, or is out   *)
(* of date and is asked for again.                                         *)
(*                                                                         *)
(* A path is the sequence of its names, here numbers.  Only directories    *)
(* are modelled, and the disk has a stamp, the number of its changes: a listing and a    *)
(* status carry the stamp they were read at.  Generations are compared     *)
(* only with the latest one, so three Booleans stand for them.             *)
(***************************************************************************)
EXTENDS Naturals, FiniteSets, SequencesExt

CONSTANTS Dirs,        \* the directories the project may have
          Ignored,     \* those that the ignore rules hide
          Configurations,  \* whether ignored files are shown at first, and Git polled
          None, Failed,
          MaxEdits,    \* bound on the changes of the disk
          MaxIntents,  \* bound on what the user does in the view
          MaxFaults    \* bound on panics, failing commands and full queues

Root == <<>>
Places == Dirs \cup {Root}
Parent(d) == Front(d)
Within(p, d) == IsPrefix(d, p)

ASSUME DirsAssumption == /\ Dirs \subseteq Seq(Nat) \ {Root}
                         /\ \A d \in Dirs : Parent(d) \in Places
ASSUME IgnoredAssumption == Ignored \subseteq Dirs
ASSUME ConfigurationsAssumption ==
    Configurations \subseteq [show_ignored : BOOLEAN, cadence : {"adaptive", "manual"}]
ASSUME BoundAssumption == MaxEdits \in Nat /\ MaxIntents \in Nat /\ MaxFaults \in Nat

VARIABLES cadence,                   \* whether the configuration has Git polled
          present,                   \* directories on the disk
          stamp,                     \* the number of changes of the disk
          view,                      \* the view on screen
          background_active,
          tree,                      \* what the view shows, before folding
          show_ignored,
          filtering,                 \* has_search_filter(): the rows are those of a search
          expanded, desired_expanded,
          strayed,                   \* auxiliary: unfolded when its node went under a search
          pending_expansions,
          reload_pending,
          invalidated,               \* the generation is newer than every job's
          filesystem_panic_retried,
          filesystem_running,
          filesystem_reload_running,
          filesystem_expansions_running,
          job,                       \* the listing job, until its result is applied
          status_requested,          \* a request newer than every status command
          status_running,
          statusJob,                 \* the status command, until it is applied
          next_status_refresh,       \* whether the poll is armed
          full,                      \* the queue of the worker takes no job
          owed,                      \* auxiliary: what the latest reload must reach
          abandoned,                 \* auxiliary: expansions given up after panics
          intents, faults

disk == <<cadence, present, stamp>>
shape == <<view, background_active, tree, show_ignored>>
folds == <<filtering, expanded, desired_expanded, strayed>>
running == <<filesystem_running, filesystem_reload_running, filesystem_expansions_running, job>>
listing == <<pending_expansions, reload_pending, invalidated, running>>
polling == <<status_requested, status_running, statusJob, next_status_refresh>>
ghosts == <<owed, abandoned>>
vars == <<disk, shape, folds, listing, filesystem_panic_retried, polling, full, ghosts,
          intents, faults>>

Listing == [children : SUBSET Dirs, at : Nat, ignored : BOOLEAN]
Tree == [loaded : [Places -> Listing \cup {None}], ignored : BOOLEAN, status : Nat]
Job == [ignored : BOOLEAN, todo : SUBSET Places, result : [Places -> Listing \cup {None}]]
StatusJob == [tree : Tree, outdated : BOOLEAN, read : Nat \cup {None, Failed}]

ASSUME NoneAssumption ==
    /\ None \notin Nat \cup {Failed} \cup Listing \cup Job \cup StatusJob
    /\ Failed \notin Nat

(* Whether the tree has a node for the directory.                          *)
Known(t, d) ==
    d = Root \/ (t.loaded[Parent(d)] # None /\ d \in t.loaded[Parent(d)].children)

Rooted(t) ==
    /\ t.loaded[Root] # None
    /\ \A p, d \in Dirs : t.loaded[p] # None /\ Within(p, d) => Known(t, d)

(* The types, and the shape of the tree: the root is listed, and of the    *)
(* directories only those that have a node, as has all above them          *)
(* (apply_directory()).                                                    *)
TypeOK ==
    /\ cadence \in {"adaptive", "manual"}
    /\ present \subseteq Dirs
    /\ stamp \in Nat
    /\ view \in {"files", "conversations"}
    /\ background_active \in BOOLEAN
    /\ tree \in Tree
    /\ Rooted(tree)
    /\ show_ignored \in BOOLEAN
    /\ filtering \in BOOLEAN
    /\ expanded \subseteq Dirs
    /\ strayed \subseteq Dirs
    /\ desired_expanded \subseteq Dirs
    /\ pending_expansions \subseteq Dirs
    /\ reload_pending \in BOOLEAN
    /\ invalidated \in BOOLEAN
    /\ filesystem_panic_retried \in BOOLEAN
    /\ filesystem_running \in BOOLEAN
    /\ filesystem_reload_running \in BOOLEAN
    /\ filesystem_expansions_running \subseteq Dirs
    /\ job \in IF filesystem_running THEN Job ELSE {None}
    /\ status_requested \in BOOLEAN
    /\ status_running \in BOOLEAN
    /\ statusJob \in IF status_running THEN StatusJob ELSE {None}
    /\ next_status_refresh \in BOOLEAN
    /\ full \in BOOLEAN
    /\ owed \in [at : Nat, dirs : SUBSET Places]
    /\ abandoned \subseteq Dirs
    /\ intents \in Nat
    /\ faults \in Nat

-----------------------------------------------------------------------------
(* The tree.                                                               *)

(* The listing of a directory, as DirectoryLoader::load() reads it now.    *)
ListingOf(d, ignored) ==
    [children |-> {c \in present : Parent(c) = d /\ (ignored \/ c \notin Ignored)},
     at |-> stamp, ignored |-> ignored]

(* The listings of a job are applied from the top of the tree down: one    *)
(* that failed, or of a directory whose node is gone, is passed over, and  *)
(* what is no longer listed goes with all below it (apply_directory()).    *)
Entry(t, listings, d) == IF listings[d] # None THEN listings[d] ELSE t.loaded[d]
Reached(t, listings, p) ==
    \A d \in Dirs : Within(p, d) => /\ Entry(t, listings, Parent(d)) # None
                                    /\ d \in Entry(t, listings, Parent(d)).children
Applied(t, listings) ==
    [t EXCEPT !.loaded = [p \in Places |-> IF Reached(t, listings, p)
                                           THEN Entry(t, listings, p) ELSE None]]

(* A directory has a row, and shows what is in it, once no search hides it.*)
Visible(d) == Known(tree, d) /\ \A p \in Dirs \ {d} : Within(d, p) => p \in expanded
Shown == {Root} \cup {d \in expanded : Visible(d)}

(* rebuild_visible_rows() forgets the folding of what has no node any      *)
(* more, but not while there is a search: then it returns early.           *)
Pruned(t, dirs) == {d \in dirs : Known(t, d)}
Rebuilt(dirs) == IF filtering' THEN dirs ELSE Pruned(tree', dirs)
Strays(dirs) == strayed' = dirs \cap (strayed \cup {d \in Dirs : ~Known(tree', d)})

-----------------------------------------------------------------------------
(* Starting the jobs.                                                      *)

(* start_next_filesystem(), called with what is pending, with whether the  *)
(* generation is newer than every job's, and with whether no job runs.     *)
StartNextFilesystem(reload, expansions, newer, idle) ==
    LET directories == expansions \cup IF reload THEN {Root} \cup expanded' ELSE {}
        starts == background_active' /\ idle /\ directories # {} /\ newer /\ ~full
    IN  /\ reload_pending' = (reload /\ ~starts)
        /\ pending_expansions' = IF starts THEN {} ELSE expansions
        /\ invalidated' = (newer /\ ~starts)
        /\ filesystem_running' = (starts \/ ~idle)
        /\ filesystem_reload_running' =
              IF starts THEN reload ELSE ~idle /\ filesystem_reload_running
        /\ filesystem_expansions_running' = IF starts THEN expansions
                                            ELSE IF idle THEN {}
                                            ELSE filesystem_expansions_running
        /\ job' = IF starts
                  THEN [ignored |-> tree'.ignored, todo |-> directories,
                        result |-> [p \in Places |-> None]]
                  ELSE IF idle THEN None ELSE job

(* Mutant: a refused command does not arm the poll.                        *)
MutStartNextVcsRefresh(requested, armed, idle, changed) ==
    LET starts == background_active' /\ idle /\ requested /\ ~full
    IN  /\ status_requested' = (requested /\ ~starts)
        /\ next_status_refresh' = armed
        /\ status_running' = (~idle \/ starts)
        /\ statusJob' = IF starts THEN [tree |-> tree', outdated |-> FALSE, read |-> None]
                        ELSE IF idle THEN None
                        ELSE [statusJob EXCEPT !.outdated = @ \/ changed]

(* start_next_vcs_refresh(): the command takes along the tree it will be   *)
(* merged into.  When the queue takes no job, the poll is armed, as        *)
(* schedule_next_status_refresh() does after every result.                 *)
StartNextVcsRefresh(requested, armed, idle, changed) ==
    LET wanted == background_active' /\ idle /\ requested
    IN  /\ status_requested' = (requested /\ ~(wanted /\ ~full))
        /\ next_status_refresh' = (armed \/ (wanted /\ full /\ cadence = "adaptive"))
        /\ status_running' = (~idle \/ (wanted /\ ~full))
        /\ statusJob' = IF wanted /\ ~full
                        THEN [tree |-> tree', outdated |-> FALSE, read |-> None]
                        ELSE IF idle THEN None
                        ELSE [statusJob EXCEPT !.outdated = @ \/ changed]

(* retry_pending() starts what is pending of each kind.                    *)
RetryVcs(changed) ==
    StartNextVcsRefresh(status_requested, next_status_refresh, ~status_running, changed)
RetryFilesystem ==
    StartNextFilesystem(reload_pending, pending_expansions, invalidated, ~filesystem_running)

(* request_reload().                                                       *)
RequestReload(changed) ==
    /\ StartNextFilesystem(TRUE, pending_expansions, TRUE, ~filesystem_running)
    /\ StartNextVcsRefresh(TRUE, FALSE, ~status_running, changed)
    /\ owed' = [at |-> stamp, dirs |-> Shown \cap (present \cup {Root})]

-----------------------------------------------------------------------------
(* The view is bootstrapped with the listing of the root.                  *)

Init ==
    /\ \E c \in Configurations : show_ignored = c.show_ignored /\ cadence = c.cadence
    /\ present \in SUBSET Dirs
    /\ \A d \in present, p \in Dirs : Within(d, p) => p \in present
    /\ stamp = 0
    /\ view = "conversations"
    /\ background_active = TRUE
    /\ tree = [loaded |-> [p \in Places |-> IF p = Root THEN ListingOf(Root, show_ignored)
                                            ELSE None],
               ignored |-> show_ignored, status |-> 0]
    /\ filtering = FALSE
    /\ expanded = {}
    /\ strayed = {}
    /\ desired_expanded = {}
    /\ pending_expansions = {}
    /\ reload_pending = FALSE
    /\ invalidated = TRUE
    /\ filesystem_panic_retried = FALSE
    /\ filesystem_running = FALSE
    /\ filesystem_reload_running = FALSE
    /\ filesystem_expansions_running = {}
    /\ job = None
    /\ status_requested = FALSE
    /\ status_running = FALSE
    /\ statusJob = None
    /\ next_status_refresh = FALSE
    /\ full = FALSE
    /\ owed = [at |-> 0, dirs |-> {}]
    /\ abandoned = {}
    /\ intents = 0
    /\ faults = 0

-----------------------------------------------------------------------------
(* The disk, and the queue of the worker.                                  *)

Edits(dirs) == /\ stamp < MaxEdits
               /\ stamp' = stamp + 1
               /\ present' = dirs
               /\ owed' = [owed EXCEPT !.dirs = @ \ (present \ dirs)]
               /\ UNCHANGED <<cadence, shape, folds, listing, filesystem_panic_retried, polling,
                              full, abandoned, intents, faults>>

MakeDirectory(d) == d \notin present /\ Parent(d) \in present \cup {Root} /\ Edits(present \cup {d})
RemoveDirectory(d) == d \in present /\ Edits({p \in present : ~Within(p, d)})
Rewrite == Edits(present)

Fault == faults < MaxFaults /\ faults' = faults + 1

QueueFills == /\ ~full
              /\ Fault
              /\ full' = TRUE
              /\ UNCHANGED <<disk, shape, folds, listing, filesystem_panic_retried, polling,
                             ghosts, intents>>
QueueDrains == /\ full
               /\ full' = FALSE
               /\ UNCHANGED <<disk, shape, folds, listing, filesystem_panic_retried, polling,
                              ghosts, intents, faults>>

-----------------------------------------------------------------------------
(* The user.                                                               *)

Intent == view = "files" /\ intents < MaxIntents /\ intents' = intents + 1

(* request_expansion(), of a row with a directory that is not unfolded.    *)
(* Nothing is unfolded or folded in the rows of a search.                  *)
Expand(d) ==
    /\ Intent
    /\ ~filtering
    /\ Visible(d)
    /\ d \notin desired_expanded
    /\ desired_expanded' = desired_expanded \cup {d}
    /\ UNCHANGED <<disk, shape, filtering, expanded, strayed>>
    /\ StartNextFilesystem(reload_pending, pending_expansions \cup {d}, TRUE, ~filesystem_running)
    /\ UNCHANGED <<filesystem_panic_retried, polling, full, ghosts, faults>>

(* collapse_or_ascend() and toggle_selected(): an unfolded directory, or   *)
(* one that is still to be.                                                *)
Collapse(d) ==
    /\ Intent
    /\ ~filtering
    /\ Visible(d)
    /\ d \in desired_expanded
    /\ UNCHANGED <<disk, shape, filtering>>
    /\ desired_expanded' = IF d \in expanded THEN Rebuilt(desired_expanded \ {d})
                                             ELSE desired_expanded \ {d}
    /\ expanded' = IF d \in expanded THEN Rebuilt(expanded \ {d}) ELSE expanded
    /\ Strays(expanded')
    /\ pending_expansions' = pending_expansions \ {d}
    /\ invalidated' = (invalidated \/ filesystem_running)
    /\ abandoned' = abandoned \ {d}
    /\ UNCHANGED <<reload_pending, running, filesystem_panic_retried, polling, full,
                   owed, faults>>

Refresh ==
    /\ Intent
    /\ UNCHANGED <<disk, shape, folds>>
    /\ RequestReload(FALSE)
    /\ UNCHANGED <<filesystem_panic_retried, full, abandoned, faults>>

(* append_search_query(), of a search that is open: the first character.   *)
Search ==
    /\ Intent
    /\ ~filtering
    /\ filtering' = TRUE
    /\ UNCHANGED <<disk, shape, expanded, desired_expanded, strayed, listing,
                   filesystem_panic_retried, polling, full, ghosts, faults>>

(* clear_search_query(), and backspace_search_query() of its last          *)
(* character.  Without a query the folding is of what has a node already.  *)
ForgetsQuery ==
    /\ filtering' = FALSE
    /\ expanded' = IF filtering THEN Rebuilt(expanded) ELSE expanded
    /\ desired_expanded' = IF filtering THEN Rebuilt(desired_expanded) ELSE desired_expanded
    /\ Strays(expanded')

ClearSearch ==
    /\ view = "files"
    /\ filtering
    /\ UNCHANGED <<disk, shape>>
    /\ ForgetsQuery
    /\ UNCHANGED <<listing, filesystem_panic_retried, polling, full, ghosts, intents, faults>>

(* toggle_ignored_files(): the tree stays, and what lists it changes.      *)
ToggleIgnored ==
    /\ Intent
    /\ show_ignored' = ~show_ignored
    /\ tree' = [tree EXCEPT !.ignored = show_ignored']
    /\ UNCHANGED <<disk, view, background_active>>
    /\ ForgetsQuery
    /\ RequestReload(TRUE)
    /\ UNCHANGED <<filesystem_panic_retried, full, abandoned, faults>>

(* switch_view(), with pause_background() and start_background().          *)
Hide ==
    /\ Intent
    /\ view' = "conversations"
    /\ background_active' = FALSE
    /\ next_status_refresh' = FALSE
    /\ UNCHANGED <<disk, tree, show_ignored, folds, listing, filesystem_panic_retried,
                   status_requested, status_running, statusJob, full, ghosts, faults>>

Show ==
    /\ view = "conversations"
    /\ view' = "files"
    /\ background_active' = TRUE
    /\ UNCHANGED <<disk, tree, show_ignored, folds>>
    /\ RequestReload(FALSE)
    /\ UNCHANGED <<filesystem_panic_retried, full, abandoned, intents, faults>>

-----------------------------------------------------------------------------
(* The listing job.                                                        *)

(* Listings are read from the top of the tree down.                        *)
LoadOne ==
    /\ filesystem_running
    /\ \E d \in job.todo :
          /\ \A e \in job.todo : Len(d) <= Len(e)
          /\ job' = [job EXCEPT !.todo = @ \ {d},
                                !.result[d] = IF d \in present \cup {Root}
                                              THEN ListingOf(d, job.ignored) ELSE None]
    /\ UNCHANGED <<disk, shape, folds, pending_expansions, reload_pending, invalidated,
                   filesystem_running, filesystem_reload_running, filesystem_expansions_running,
                   filesystem_panic_retried, polling, full, ghosts, intents, faults>>

(* What there is still to unfold when the running job brings nothing.      *)
StillWanted == pending_expansions \cup (filesystem_expansions_running \cap desired_expanded)

(* Mutant: the reload that is out of date is forgotten.                    *)
MutDropListingReload ==
    /\ invalidated
    /\ UNCHANGED <<shape, folds, filesystem_panic_retried>>
    /\ StartNextFilesystem(reload_pending, StillWanted, TRUE, TRUE)
    /\ RetryVcs(FALSE)

(* Mutant: so are the directories to unfold.                               *)
MutDropListingExpansions ==
    /\ invalidated
    /\ UNCHANGED <<shape, folds, filesystem_panic_retried>>
    /\ StartNextFilesystem(reload_pending \/ filesystem_reload_running, pending_expansions,
                           TRUE, TRUE)
    /\ RetryVcs(FALSE)

(* complete_filesystem() with a result that is out of date: what it was    *)
(* for is pending again, unless it has been folded meanwhile.              *)
DropListing ==
    /\ invalidated
    /\ UNCHANGED <<shape, folds, filesystem_panic_retried>>
    /\ StartNextFilesystem(reload_pending \/ filesystem_reload_running, StillWanted, TRUE, TRUE)
    /\ RetryVcs(FALSE)

(* complete_filesystem() with the result that is expected.  A directory is *)
(* unfolded when it has been listed.                                       *)
ApplyListing ==
    LET Listed(d) == Known(tree', d) /\ job.result[d] # None
        Kept(dirs) == IF \E d \in Places : Listed(d) THEN Rebuilt(dirs) ELSE dirs
    IN  /\ ~invalidated
        /\ tree' = Applied(tree, job.result)
        /\ UNCHANGED filtering
        /\ expanded' = Kept(expanded \cup
              {d \in filesystem_expansions_running \cap desired_expanded : Listed(d)})
        /\ desired_expanded' = Kept(desired_expanded \
              {d \in filesystem_expansions_running : ~Listed(d)})
        /\ Strays(expanded')
        /\ filesystem_panic_retried' = FALSE
        /\ UNCHANGED <<view, background_active, show_ignored>>
        /\ StartNextFilesystem(reload_pending, pending_expansions, FALSE, TRUE)
        /\ RetryVcs(\E d \in Places : Listed(d))

CompleteFilesystem ==
    /\ filesystem_running
    /\ job.todo = {}
    /\ DropListing \/ ApplyListing
    /\ UNCHANGED <<disk, full, ghosts, intents, faults>>

(* fail_background(): the work of a job that panicked is tried once more.  *)
FilesystemPanics ==
    LET reload == reload_pending \/ filesystem_reload_running
        again == ~filesystem_panic_retried /\ (reload \/ StillWanted # {})
    IN  /\ filesystem_running
        /\ Fault
        /\ filesystem_panic_retried' = (filesystem_panic_retried \/ again)
        /\ UNCHANGED <<disk, shape, folds>>
        /\ IF again
           THEN /\ StartNextFilesystem(reload, StillWanted, TRUE, TRUE)
                /\ UNCHANGED ghosts
           ELSE /\ StartNextFilesystem(FALSE, {}, TRUE, TRUE)
                /\ owed' = IF reload THEN [owed EXCEPT !.dirs = {}] ELSE owed
                /\ abandoned' = abandoned \cup StillWanted
        /\ RetryVcs(FALSE)
        /\ UNCHANGED <<full, intents>>

-----------------------------------------------------------------------------
(* The status command.                                                     *)

(* request_vcs_refresh(), when the poll is due.                            *)
Tick ==
    /\ view = "files"
    /\ background_active
    /\ next_status_refresh
    /\ UNCHANGED <<disk, shape, folds, listing, filesystem_panic_retried>>
    /\ StartNextVcsRefresh(TRUE, FALSE, ~status_running, FALSE)
    /\ UNCHANGED <<full, ghosts, intents, faults>>

ReadStatus ==
    /\ status_running
    /\ statusJob.read = None
    /\ \/ statusJob' = [statusJob EXCEPT !.read = stamp] /\ UNCHANGED faults
       \/ statusJob' = [statusJob EXCEPT !.read = Failed] /\ Fault
    /\ UNCHANGED <<disk, shape, folds, listing, filesystem_panic_retried, status_requested,
                   status_running, next_status_refresh, full, ghosts, intents>>

(* Mutant: a newer tree is not looked for.                                 *)
MutCompleteVcs ==
    /\ status_running
    /\ statusJob.read # None
    /\ tree' = IF ~status_requested /\ statusJob.read # Failed
               THEN [statusJob.tree EXCEPT !.status = statusJob.read] ELSE tree
    /\ UNCHANGED <<disk, view, background_active, show_ignored, folds>>
    /\ RetryFilesystem
    /\ StartNextVcsRefresh(status_requested, background_active /\ cadence = "adaptive", TRUE,
                           FALSE)
    /\ UNCHANGED <<filesystem_panic_retried, full, ghosts, intents, faults>>

(* complete_prepared_refresh(): the tree the command took along, with the  *)
(* status, replaces the tree, unless a newer request or a newer tree is    *)
(* there.  Then the poll is armed, and what is requested started.          *)
CompleteVcs ==
    LET applied == ~status_requested /\ ~statusJob.outdated /\ statusJob.read # Failed
    IN  /\ status_running
        /\ statusJob.read # None
        /\ tree' = IF applied THEN [statusJob.tree EXCEPT !.status = statusJob.read] ELSE tree
        /\ UNCHANGED filtering
        /\ expanded' = IF applied THEN Rebuilt(expanded) ELSE expanded
        /\ desired_expanded' = IF applied THEN Rebuilt(desired_expanded) ELSE desired_expanded
        /\ Strays(expanded')
        /\ UNCHANGED <<disk, view, background_active, show_ignored>>
        /\ RetryFilesystem
        /\ StartNextVcsRefresh(status_requested \/ statusJob.outdated,
                               background_active /\ cadence = "adaptive", TRUE, FALSE)
        /\ UNCHANGED <<filesystem_panic_retried, full, ghosts, intents, faults>>

(* Mutant: the command that panicked is not asked for again.               *)
MutVcsPanics ==
    /\ status_running
    /\ Fault
    /\ UNCHANGED <<disk, shape, folds>>
    /\ RetryFilesystem
    /\ StartNextVcsRefresh(status_requested, next_status_refresh, TRUE, FALSE)
    /\ UNCHANGED <<filesystem_panic_retried, full, ghosts, intents>>

(* fail_background() of a status command asks for another one.             *)
VcsPanics ==
    /\ status_running
    /\ Fault
    /\ UNCHANGED <<disk, shape, folds>>
    /\ RetryFilesystem
    /\ StartNextVcsRefresh(TRUE, next_status_refresh, TRUE, FALSE)
    /\ UNCHANGED <<filesystem_panic_retried, full, ghosts, intents>>

(* The result of some other job: apply_result() retries what is pending.   *)
OtherResult ==
    /\ UNCHANGED <<disk, shape, folds>>
    /\ RetryFilesystem
    /\ RetryVcs(FALSE)
    /\ UNCHANGED <<filesystem_panic_retried, full, ghosts, intents, faults>>

Next == \/ \E d \in Dirs : MakeDirectory(d) \/ RemoveDirectory(d) \/ Expand(d) \/ Collapse(d)
        \/ Rewrite \/ QueueFills \/ QueueDrains
        \/ Refresh \/ Search \/ ClearSearch \/ ToggleIgnored \/ Hide \/ Show
        \/ LoadOne \/ CompleteFilesystem \/ FilesystemPanics
        \/ Tick \/ ReadStatus \/ CompleteVcs \/ VcsPanics \/ OtherResult

(* The threads of the worker run, and the loop of the application polls.   *)
Fairness == /\ WF_vars(QueueDrains)
            /\ WF_vars(LoadOne) /\ WF_vars(CompleteFilesystem)
            /\ WF_vars(Tick) /\ WF_vars(ReadStatus) /\ WF_vars(CompleteVcs)

Spec == Init /\ [][Next]_vars /\ Fairness

-----------------------------------------------------------------------------
(* Properties.                                                             *)

(* A reload reaches every directory that showed its contents when it was   *)
(* asked for, and still does: unless the reload is pending or running, the *)
(* listing on screen is no older, and follows the choice of ignored files. *)
(* Unfolding, folding, leaving the view, a panic and a full queue, in any  *)
(* order, do not lose it (complete_filesystem(), fail_background()).       *)
ReloadReaches ==
    reload_pending \/ filesystem_reload_running \/
    \A d \in owed.dirs \cap Shown :
        /\ tree.loaded[d].at >= owed.at
        /\ tree.loaded[d].ignored = show_ignored

(* A directory the user wants unfolded is unfolded, or about to be, or its *)
(* listing panicked twice; and no other one is.                            *)
WishesServed ==
    /\ expanded \subseteq desired_expanded
    /\ desired_expanded \subseteq expanded \cup pending_expansions \cup abandoned
                                  \cup filesystem_expansions_running

(* A directory that is unfolded shows what a listing brought, and not an   *)
(* empty space: it has a node, and has been listed since it has that one   *)
(* (apply_directory() and rebuild_visible_rows(), whatever is removed and  *)
(* made again between the listings).  Only one whose node went while there *)
(* was a search may stay unfolded without it, until the search is cleared, *)
(* or be unfolded and empty when its node comes back.                      *)
UnfoldedListed ==
    /\ \A d \in expanded \ strayed : Known(tree, d) /\ tree.loaded[d] # None
    /\ ~filtering => \A d \in expanded : Known(tree, d)

(* What is pending has a newer generation than every job the worker has    *)
(* taken: the worker will not refuse it as stale (submit() of              *)
(* worker/mod.rs).                                                         *)
NeverRefused == reload_pending \/ pending_expansions # {} => invalidated

(* What is on screen never goes back in time: neither a late listing nor   *)
(* the tree a status command took along replaces what is newer, and a new  *)
(* listing follows the choice of ignored files.                            *)
TreeAdvances ==
    [][/\ tree'.status >= tree.status
       /\ tree'.ignored = show_ignored'
       /\ \A p \in Places :
            tree'.loaded[p] # tree.loaded[p] /\ tree'.loaded[p] # None =>
                /\ tree'.loaded[p].ignored = show_ignored
                /\ tree.loaded[p] # None => tree'.loaded[p].at >= tree.loaded[p].at]_vars

(* Where the status is polled it stays so while the view is on screen: the *)
(* poll is armed, or a command runs whose result arms it.                  *)
Polls == view = "files" /\ cadence = "adaptive" => next_status_refresh \/ status_running

(* The polled status on screen catches up with every change of the disk,   *)
(* if the view stays (schedule_next_status_refresh()).                     *)
StatusCatchesUp ==
    \A n \in 1..MaxEdits :
        view = "files" /\ cadence = "adaptive" /\ stamp >= n ~> tree.status >= n \/ view # "files"

(* It does when, from some time on, no request comes while a command runs. *)
PromptStatusCatchesUp == <>[]~(status_running /\ status_requested) => StatusCatchesUp

-----------------------------------------------------------------------------
(* The parts of the inductive invariant behind the properties above.       *)

(* The view is active while it is on screen.                               *)
ActiveOnScreen == view = "files" => background_active

(* What is being unfolded is not unfolded yet, and is left when its job is.*)
StillFolded ==
    /\ expanded \cap (pending_expansions \cup filesystem_expansions_running) = {}
    /\ ~filesystem_running => filesystem_expansions_running = {}

(* Nothing was read in the future, and what a reload must reach is there.  *)
Timely ==
    /\ owed.at <= stamp /\ owed.dirs \subseteq present \cup {Root}
    /\ tree.status <= stamp
    /\ \A p \in Places : tree.loaded[p] # None => tree.loaded[p].at <= stamp
    /\ filesystem_running =>
          \A p \in Places : job.result[p] # None => job.result[p].at <= stamp

(* The result of a listing job is newer than the tree and than the latest  *)
(* reload, and follows the choice of ignored files, unless it is to be     *)
(* dropped.  A reload lists the root and what is unfolded.                 *)
ListingFresh ==
    /\ tree.ignored = show_ignored
    /\ filesystem_reload_running => filesystem_running
    /\ filesystem_running /\ ~invalidated =>
          /\ job.ignored = show_ignored
          /\ \A p \in Places : job.result[p] # None =>
                /\ job.result[p].ignored = show_ignored
                /\ job.result[p].at >= owed.at
                /\ tree.loaded[p] # None => job.result[p].at >= tree.loaded[p].at
          /\ filesystem_reload_running =>
                \A p \in {Root} \cup (expanded \cap owed.dirs) :
                    p \in job.todo \/ job.result[p] # None

(* The tree a status command took along is the tree, unless it is outdated.*)
StatusFresh ==
    status_running =>
        /\ ~statusJob.outdated => statusJob.tree = tree
        /\ statusJob.read \in Nat => tree.status <= statusJob.read /\ statusJob.read <= stamp

(* A directory that a reload must reach, there since it was asked for, has *)
(* a node, unless an ignored one takes it along; and while ignored files   *)
(* are hidden no listing that is expected brings that one back.            *)
NodesStay ==
    /\ \A d \in present, p \in Dirs : Within(d, p) => p \in present
    /\ \A d \in owed.dirs, p \in Dirs : Within(d, p) => p \in owed.dirs
    /\ \A d \in owed.dirs :
          Known(tree, d) \/ \E p \in Ignored : ~show_ignored /\ Within(d, p) /\ ~Known(tree, p)
    /\ filesystem_running /\ ~invalidated =>
          \A d \in Dirs : job.result[Parent(d)] # None =>
             IF d \in job.result[Parent(d)].children THEN show_ignored \/ d \notin Ignored
             ELSE d \in owed.dirs => d \in Ignored /\ ~show_ignored

(* ReloadReaches, of what is unfolded below a folded directory too.        *)
ReachesUnfolded ==
    reload_pending \/ filesystem_reload_running \/
    \A p \in owed.dirs \cap ({Root} \cup Pruned(tree, expanded)) :
        /\ tree.loaded[p] # None
        /\ tree.loaded[p].at >= owed.at
        /\ tree.loaded[p].ignored = show_ignored
=============================================================================
