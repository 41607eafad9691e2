---------------------------- MODULE FilesSearch ----------------------------
(***************************************************************************)
(* The search of the Files view (FileSearchState of src/src/runtime.rs,    *)
(* over src/src/files/search.rs and tree.rs).  The user types a query;     *)
(* pages of directories are listed by a job of the worker into an index of *)
(* the search's own, and another job projects the index on the query.      *)
(* Meanwhile the disk changes, status commands end, the tree is reloaded,  *)
(* the view is left, jobs panic and the queue of the worker is full.       *)
(*                                                                         *)
(* A path is the sequence of its names, a query a sequence of names that   *)
(* is looked for in it.  A result is applied only under the generation and *)
(* epoch asked for last, so the model keeps the last page and the last     *)
(* projection, and forgets a job when its result will be passed over.      *)
(* Paths keep their type: no file is replaced by a directory.              *)
(***************************************************************************)
EXTENDS FilesTree

CONSTANTS Ignored,         \* the paths that the ignore rules hide
          Tracked,         \* the files whose deletion the status reports
          Letters,         \* the names a query is made of
          Limits,          \* bounds on the index, one of which is configured
          SearchIgnored,   \* whether the search is configured to find ignored files
          PageSize,        \* DIRECTORIES_PER_PAGE
          MaxQuery, MaxEdits, MaxIntents, MaxFaults

RulesAssumption == Ignored \subseteq Paths /\ Tracked \subseteq Files
LimitsAssumption == Limits \subseteq [entries : Nat \ {0}, examined : Nat \ {0}]
BoundAssumption == /\ PageSize \in Nat \ {0} /\ SearchIgnored \in BOOLEAN
                   /\ {MaxQuery, MaxEdits, MaxIntents, MaxFaults} \subseteq Nat

VARIABLES present,               \* what is on the disk
          limit,                 \* MAX_INDEX_ENTRIES and MAX_EXAMINED_ENTRIES
          show_ignored, virtual, \* of the tree: its choice, and its deleted files
          reloading,             \* a listing of the tree will be applied
          background_active,
          begun,                 \* there is a search state
          editing, query,
          loader_ignored,        \* whether the index lists ignored files
          index, selection,      \* the tree of the search
          searchable,            \* the entries of it that a query is matched with
          matches,
          pending_directories,
          page,                  \* the page that runs, if its result will be taken
          scanned_entries, examined_entries, skipped_directories,
          complete, truncated,
          projection_requested,  \* a projection is wanted that no job is for
          projection_applied,    \* no projection is awaited
          projection,            \* the projection that runs, if it will be taken
          full,                  \* the queue of the worker takes no job
          steady, absent,        \* auxiliary: on, and off, the disk since the scan began
          panicked,              \* auxiliary: the jobs whose last run panicked
          edits, intents, faults

disk == <<present, edits>>
tree == <<show_ignored, virtual, reloading>>
typed == <<editing, query>>
indexed == <<index, selection, searchable>>
counts == <<scanned_entries, examined_entries, skipped_directories, complete, truncated>>
scan == <<pending_directories, page, counts>>
shown == <<matches, projection_requested, projection_applied, projection>>
ghosts == <<steady, absent, panicked>>
environment == <<limit, full, intents, faults>>
vars == <<disk, tree, background_active, begun, typed, loader_ignored, indexed, scan, shown,
          ghosts, environment>>

Index == {nodes \in [Paths -> {None, "directory", "file", "virtual"}] :
            \A f \in Files : nodes[f] # "directory"}
Searchable == [Files -> {None, "file", "virtual"}]
Page == [index : Index, selection : Paths \cup {None}, searchable : Searchable,
         directories : Seq(Places), todo : Seq(Places),
         discovered : Seq(Dirs), listed : SUBSET Places, found : SUBSET Paths,
         scanned : Nat, examined : Nat, skipped : Nat, truncated : BOOLEAN]
Projection == [searchable : Searchable, query : Seq(Letters)]

NoneAssumption == /\ None \notin {"directory", "file", "virtual"}
                  /\ None \notin Paths \cup Page \cup Projection

SearchAssumption == /\ PathsAssumption /\ RulesAssumption /\ LimitsAssumption
                    /\ BoundAssumption /\ NoneAssumption
ASSUME SearchInstance == SearchAssumption

(* The types, and that the entries searched are those of the index.        *)
TypeOK ==
    /\ present \subseteq Paths /\ limit \in Limits
    /\ show_ignored \in BOOLEAN /\ virtual \subseteq Tracked /\ reloading \in BOOLEAN
    /\ background_active \in BOOLEAN /\ begun \in BOOLEAN
    /\ editing \in BOOLEAN /\ query \in Seq(Letters) /\ loader_ignored \in BOOLEAN
    /\ index \in Index /\ selection \in Paths \cup {None}
    /\ searchable = [f \in Files |-> index[f]]
    /\ matches \subseteq Files
    /\ pending_directories \in Seq(Places)
    /\ page \in Page \cup {None}
    /\ scanned_entries \in Nat /\ examined_entries \in Nat /\ skipped_directories \in Nat
    /\ complete \in BOOLEAN /\ truncated \in BOOLEAN
    /\ projection_requested \in BOOLEAN /\ projection_applied \in BOOLEAN
    /\ projection \in Projection \cup {None}
    /\ full \in BOOLEAN
    /\ steady \subseteq Files /\ absent \subseteq Files
    /\ panicked \subseteq {"page", "projection"}
    /\ edits \in Nat /\ intents \in Nat /\ faults \in Nat

-----------------------------------------------------------------------------
(* The tree of the search.                                                 *)

Hidden(p) == \E q \in Ignored : IsPrefix(q, p)
VisibleTo(ignored, p) == ignored \/ ~Hidden(p)

(* sync_virtual_entries().                                                 *)
SyncVirtualEntries(entries, nodes) ==
    [f \in Files |-> IF nodes[f] = "virtual" THEN "virtual"
                     ELSE IF entries[f] = "virtual" THEN None ELSE entries[f]]

Matching(entries, q) ==
    {f \in Files : /\ entries[f] # None
                   /\ \E i \in 0..(Len(f) - Len(q)) : SubSeq(f, i + 1, i + Len(q)) = q}

Active == query # <<>>
ShouldScan == editing \/ Active
Scanning == ~complete \/ page # None \/ ~projection_applied

-----------------------------------------------------------------------------
(* Starting the jobs.                                                      *)

(* start_next_search_page(), with the directories that are pending, the    *)
(* verdicts on the scan, and whether no page runs.                         *)
StartNextSearchPage(pending, done, cut, idle) ==
    LET tries == background_active' /\ begun' /\ idle /\ ~done /\ (editing' \/ query' # <<>>)
        over == \/ scanned_entries' >= limit.entries
                \/ examined_entries' >= limit.examined
        starts == tries /\ ~over /\ pending # <<>> /\ ~full'
        n == Min({PageSize, Len(pending)})
    IN  /\ complete' = (done \/ (tries /\ (over \/ pending = <<>>)))
        /\ truncated' = (cut \/ (tries /\ over))
        /\ pending_directories' = IF tries /\ over THEN <<>>
                                  ELSE IF starts THEN SubSeq(pending, n + 1, Len(pending))
                                  ELSE pending
        /\ page' = IF starts
                   THEN [index |-> index', selection |-> selection', searchable |-> searchable',
                         directories |-> SubSeq(pending, 1, n), todo |-> SubSeq(pending, 1, n),
                         discovered |-> <<>>, listed |-> {}, found |-> {},
                         scanned |-> 0, examined |-> 0, skipped |-> 0, truncated |-> FALSE]
                   ELSE IF idle THEN None ELSE page

RetryPage == StartNextSearchPage(pending_directories, complete, truncated, page = None)

(* start_next_search_projection(), with whether one is wanted, and the one *)
(* that runs.                                                              *)
StartNextProjection(wanted, runs) ==
    LET starts == background_active' /\ begun' /\ query' # <<>> /\ wanted /\ ~full'
    IN  /\ projection_requested' = (wanted /\ ~starts)
        /\ projection' = IF starts THEN [searchable |-> searchable', query |-> query'] ELSE runs

RetryProjection == StartNextProjection(projection_requested, projection)

(* queue_search_projection(): the projection that runs is overtaken.       *)
QueueProjection ==
    IF query' # <<>>
    THEN StartNextProjection(TRUE, None) /\ projection_applied' = FALSE
    ELSE RetryProjection /\ UNCHANGED projection_applied

(* clear_search_projection().                                              *)
ClearProjection ==
    /\ matches' = {}
    /\ projection_requested' = FALSE
    /\ projection_applied' = TRUE
    /\ projection' = None

(* Mutant: only what was not listed before is listed again.                *)
MutRestartScan ==
    /\ scanned_entries' = Cardinality({f \in Files : searchable[f] = "virtual"})
    /\ examined_entries' = 0
    /\ skipped_directories' = 0
    /\ steady' = Files \cap present
    /\ absent' = Files \ present
    /\ panicked' = panicked \ {"page"}
    /\ StartNextSearchPage(pending_directories, FALSE, FALSE, TRUE)

(* restart_search_scan() and the page that follows it.                     *)
RestartScan ==
    /\ scanned_entries' = Cardinality({f \in Files : searchable[f] = "virtual"})
    /\ examined_entries' = 0
    /\ skipped_directories' = 0
    /\ steady' = Files \cap present
    /\ absent' = Files \ present
    /\ panicked' = panicked \ {"page"}
    /\ StartNextSearchPage(<<Root>>, FALSE, FALSE, TRUE)

-----------------------------------------------------------------------------
Init ==
    /\ present \in SUBSET Paths
    /\ \A p \in present, d \in Dirs : Below(p, d) => d \in present
    /\ limit \in Limits
    /\ show_ignored \in BOOLEAN
    /\ virtual = {}
    /\ reloading = FALSE
    /\ background_active = TRUE
    /\ begun = FALSE
    /\ editing = FALSE
    /\ query = <<>>
    /\ loader_ignored = FALSE
    /\ index = [p \in Paths |-> None]
    /\ selection = None
    /\ searchable = [f \in Files |-> None]
    /\ matches = {}
    /\ pending_directories = <<>>
    /\ page = None
    /\ scanned_entries = 0
    /\ examined_entries = 0
    /\ skipped_directories = 0
    /\ complete = FALSE
    /\ truncated = FALSE
    /\ projection_requested = FALSE
    /\ projection_applied = TRUE
    /\ projection = None
    /\ full = FALSE
    /\ steady = {}
    /\ absent = {}
    /\ panicked = {}
    /\ edits = 0
    /\ intents = 0
    /\ faults = 0

-----------------------------------------------------------------------------
(* The disk, the tree and the queue of the worker.                         *)

Edits(paths) == /\ edits < MaxEdits
                /\ edits' = edits + 1
                /\ present' = paths
                /\ steady' = steady \cap paths
                /\ absent' = absent \ paths
                /\ UNCHANGED <<tree, background_active, begun, typed, loader_ignored, indexed,
                               scan, shown, panicked, environment>>

MakePath(p) == p \notin present /\ Parent(p) \in present \cup {Root} /\ Edits(present \cup {p})
RemovePath(p) == p \in present /\ Edits({q \in present : ~IsPrefix(p, q)})

(* complete_vcs_refresh() with a status that is applied.                   *)
StatusApplied ==
    /\ edits < MaxEdits
    /\ edits' = edits + 1
    /\ virtual' = {f \in Tracked \ present : VisibleTo(show_ignored, f)}
    /\ IF begun
       THEN /\ index' = SyncOverlay(index, virtual')
            /\ selection' = RestoreSelection(index', selection)
            /\ searchable' = SyncVirtualEntries(searchable, index')
       ELSE UNCHANGED indexed
    /\ UNCHANGED <<present, show_ignored, reloading, background_active, begun, typed,
                   loader_ignored, matches, scanned_entries, examined_entries,
                   skipped_directories, ghosts, environment>>
    /\ QueueProjection
    /\ RetryPage

(* complete_filesystem() with a listing that was a reload's.               *)
ReloadApplied ==
    /\ reloading
    /\ reloading' = FALSE
    /\ UNCHANGED <<disk, show_ignored, virtual, background_active, begun, typed, loader_ignored,
                   indexed, matches, projection_applied, environment>>
    /\ IF begun THEN RestartScan ELSE UNCHANGED <<scan, ghosts>>
    /\ RetryProjection

Fault == faults < MaxFaults /\ faults' = faults + 1

QueueFills == /\ ~full
              /\ Fault
              /\ full' = TRUE
              /\ UNCHANGED <<disk, tree, background_active, begun, typed, loader_ignored, indexed,
                             scan, shown, ghosts, limit, intents>>

(* A job of another kind is done, and its result retries what is pending.  *)
QueueDrains == /\ full
               /\ full' = FALSE
               /\ UNCHANGED <<disk, tree, background_active, begun, typed, loader_ignored,
                              indexed, matches, projection_applied, scanned_entries,
                              examined_entries, skipped_directories, ghosts, limit, intents,
                              faults>>
               /\ RetryPage
               /\ RetryProjection

-----------------------------------------------------------------------------
(* The user.                                                               *)

Intent == background_active /\ intents < MaxIntents /\ intents' = intents + 1

(* begin_search(): the index starts with the deleted files of the tree,    *)
(* and with the choice of ignored files that holds now.                    *)
BeginSearch ==
    /\ Intent
    /\ ~editing
    /\ editing' = TRUE
    /\ begun' = TRUE
    /\ IF begun
       THEN UNCHANGED <<loader_ignored, indexed, scanned_entries, steady, absent>>
       ELSE /\ loader_ignored' = (show_ignored \/ SearchIgnored)
            /\ index' = [p \in Paths |-> IF p \in virtual THEN "virtual" ELSE None]
            /\ \E s \in virtual \cup {None} : selection' = RestoreSelection(index', s)
            /\ searchable' = [f \in Files |-> index'[f]]
            /\ scanned_entries' = Cardinality(virtual)
            /\ steady' = Files \cap present
            /\ absent' = Files \ present
    /\ UNCHANGED <<disk, tree, background_active, query, shown, examined_entries,
                   skipped_directories, panicked, limit, full, faults>>
    /\ IF begun THEN RetryPage
       ELSE StartNextSearchPage(<<Root>>, FALSE, FALSE, TRUE)

(* append_search_query().                                                  *)
AppendQuery(c) ==
    /\ Intent
    /\ editing
    /\ Len(query) < MaxQuery
    /\ query' = Append(query, c)
    /\ matches' = {}
    /\ UNCHANGED <<disk, tree, background_active, begun, editing, loader_ignored, indexed,
                   scanned_entries, examined_entries, skipped_directories, ghosts, limit, full,
                   faults>>
    /\ QueueProjection
    /\ RetryPage

(* backspace_search_query().                                               *)
Backspace ==
    /\ Intent
    /\ editing
    /\ Active
    /\ query' = Front(query)
    /\ UNCHANGED <<disk, tree, background_active, begun, editing, loader_ignored, indexed, scan,
                   ghosts, limit, full, faults>>
    /\ IF query' = <<>> THEN ClearProjection ELSE matches' = {} /\ QueueProjection

(* clear_search_query().                                                   *)
ClearQuery(keep_editing) ==
    /\ query' = <<>>
    /\ editing' = keep_editing
    /\ ClearProjection

Clear == /\ Intent
         /\ begun
         /\ \/ editing /\ Active /\ ClearQuery(TRUE)
            \/ (editing \/ Active) /\ ClearQuery(FALSE)
         /\ UNCHANGED <<disk, tree, background_active, begun, loader_ignored, indexed, scan,
                        ghosts, limit, full, faults>>

(* commit_search().                                                        *)
Commit == /\ Intent
          /\ editing
          /\ editing' = FALSE
          /\ UNCHANGED <<disk, tree, background_active, begun, query, loader_ignored, indexed,
                         scan, shown, ghosts, limit, full, faults>>

(* select_path(), of a match.                                              *)
Select(f) ==
    /\ Intent
    /\ Active
    /\ f \in matches \ {selection}
    /\ index[f] # None
    /\ selection' = f
    /\ UNCHANGED <<disk, tree, background_active, begun, typed, loader_ignored, index,
                   searchable, scan, shown, ghosts, limit, full, faults>>

(* request_reload(), and toggle_ignored_files(), which leaves the search.  *)
Refresh ==
    /\ Intent
    /\ ~editing
    /\ reloading' = TRUE
    /\ \/ UNCHANGED <<show_ignored, typed, shown>>
       \/ /\ show_ignored' = ~show_ignored
          /\ IF begun THEN ClearQuery(FALSE) ELSE UNCHANGED <<typed, shown>>
    /\ UNCHANGED <<disk, virtual, background_active, begun, loader_ignored, indexed, scan,
                   ghosts, limit, full, faults>>

(* Mutant: the projection that was cancelled is not asked for again.       *)
MutHide ==
    /\ Intent
    /\ background_active' = FALSE
    /\ editing' = FALSE
    /\ pending_directories' = IF page = None THEN pending_directories
                              ELSE page.directories \o pending_directories
    /\ page' = None
    /\ projection' = None
    /\ UNCHANGED <<disk, tree, begun, query, loader_ignored, indexed, counts, matches,
                   projection_requested, projection_applied, ghosts, limit, full, faults>>

(* switch_view() away from the view, with pause_background().              *)
Hide ==
    /\ Intent
    /\ background_active' = FALSE
    /\ editing' = FALSE
    /\ pending_directories' = IF page = None THEN pending_directories
                              ELSE page.directories \o pending_directories
    /\ page' = None
    /\ projection_requested' = (projection_requested \/ projection # None)
    /\ projection' = None
    /\ UNCHANGED <<disk, tree, begun, query, loader_ignored, indexed, counts, matches,
                   projection_applied, ghosts, limit, full, faults>>

(* switch_view() back to it, with start_background().                      *)
Show ==
    /\ ~background_active
    /\ background_active' = TRUE
    /\ reloading' = TRUE
    /\ UNCHANGED <<disk, show_ignored, virtual, begun, typed, loader_ignored, indexed, matches,
                   projection_applied, scanned_entries, examined_entries, skipped_directories,
                   ghosts, environment>>
    /\ RetryPage
    /\ RetryProjection

-----------------------------------------------------------------------------
(* The page that runs.                                                     *)

(* What visible_entries_with_bounds() reads of a directory, in the order   *)
(* of the disk: all of it, or as much as it may examine, or the entries    *)
(* there is room for and the one that it then finds too many.              *)
Readings(d, room, budget) ==
    LET all == {p \in present : Parent(p) = d}
        Seen(read) == {p \in read : VisibleTo(loader_ignored, p)}
        Reading(read, examined) == [entries |-> Seen(read), examined |-> examined,
                                    truncated |-> read # all]
        some == {r \in SUBSET all \ {all} : /\ Cardinality(r) <= budget
                                            /\ Cardinality(Seen(r)) <= room}
    IN  IF Cardinality(all) <= budget /\ Cardinality(Seen(all)) <= room
        THEN {Reading(all, Cardinality(all))}
        ELSE {Reading(r, budget) : r \in {s \in some : Cardinality(s) = budget}}
             \cup {Reading(r, Cardinality(r) + 1) :
                     r \in {s \in some : /\ Cardinality(s) < budget
                                         /\ Cardinality(Seen(s)) = room
                                         /\ Seen(all) \ s # {}}}

(* What a directory adds to the page: the tree, and what apply_directory() *)
(* makes of it, are the job's own until it is done.                        *)
Add(d, entries) ==
    LET nodes == ListedNodes(page.index, d, entries)
    IN  [page EXCEPT !.index = nodes, !.selection = RestoreSelection(nodes, @),
                     !.discovered = @ \o SetToSeq(entries \cap Dirs),
                     !.listed = @ \cup {d}, !.found = @ \cup entries,
                     !.scanned = @ + Cardinality(entries)]

(* prepare_page(), one directory.                                          *)
LoadOne ==
    /\ page # None
    /\ page.todo # <<>>
    /\ LET d == Head(page.todo)
           room == limit.entries - scanned_entries - page.scanned
           budget == limit.examined - examined_entries - page.examined
       IN  \/ /\ room <= 0 \/ budget <= 0
              /\ page' = [page EXCEPT !.todo = <<>>, !.truncated = TRUE]
              /\ UNCHANGED faults
           \/ /\ room > 0 /\ budget > 0
              /\ \/ d \notin present \cup {Root} /\ UNCHANGED faults
                 \/ Fault
              /\ page' = [page EXCEPT !.todo = Tail(@), !.skipped = @ + 1]
           \/ /\ room > 0 /\ budget > 0
              /\ d \in present \cup {Root}
              /\ \E r \in Readings(d, room, budget) :
                   page' = [Add(d, r.entries) EXCEPT
                              !.todo = IF r.truncated THEN <<>> ELSE Tail(@),
                              !.examined = @ + r.examined,
                              !.truncated = r.truncated]
              /\ UNCHANGED faults
    /\ UNCHANGED <<disk, tree, background_active, begun, typed, loader_ignored, indexed,
                   pending_directories, counts, shown, ghosts, limit, full, intents>>

(* prepare_page(): the entries searched follow what was listed.            *)
PageSearchable(nodes) ==
    [f \in Files |->
       IF nodes[f] = None THEN None
       ELSE IF f \in page.found THEN "file"
       ELSE IF page.searchable[f] # "virtual" /\ Parent(f) \in page.listed THEN None
       ELSE page.searchable[f]]

(* complete_search_page().                                                 *)
CompletePage ==
    LET pending == pending_directories \o page.discovered
    IN  /\ page # None
        /\ page.todo = <<>>
        /\ index' = page.index
        /\ selection' = page.selection
        /\ searchable' = PageSearchable(page.index)
        /\ scanned_entries' = scanned_entries + page.scanned
        /\ examined_entries' = examined_entries + page.examined
        /\ skipped_directories' = skipped_directories + page.skipped
        /\ UNCHANGED <<disk, tree, background_active, begun, typed, loader_ignored, matches,
                       ghosts, environment>>
        /\ QueueProjection
        /\ StartNextSearchPage(IF page.truncated THEN <<>> ELSE pending,
                               page.truncated \/ pending = <<>>, page.truncated, TRUE)

(* fail_background(): what a page that panicked was to list is given up.   *)
PagePanics ==
    /\ page # None
    /\ Fault
    /\ panicked' = panicked \cup {"page"}
    /\ UNCHANGED <<disk, tree, background_active, begun, typed, loader_ignored, indexed, matches,
                   projection_applied, scanned_entries, examined_entries, skipped_directories,
                   steady, absent, limit, full, intents>>
    /\ StartNextSearchPage(pending_directories, TRUE, truncated, TRUE)
    /\ RetryProjection

-----------------------------------------------------------------------------
(* The projection that runs.                                               *)

(* complete_search_projection(): the first match is selected, unless one   *)
(* is; which of them comes first is left open.                             *)
CompleteProjection ==
    /\ projection # None
    /\ projection' = None
    /\ projection_applied' = TRUE
    /\ matches' = Matching(projection.searchable, projection.query)
    /\ IF selection \in matches' \/ matches' = {} THEN UNCHANGED selection
       ELSE \E f \in matches' : selection' = IF index[f] # None THEN f ELSE selection
    /\ panicked' = panicked \ {"projection"}
    /\ UNCHANGED <<disk, tree, background_active, begun, typed, loader_ignored, index,
                   searchable, projection_requested, scanned_entries, examined_entries,
                   skipped_directories, steady, absent, environment>>
    /\ RetryPage

(* fail_background().                                                      *)
ProjectionPanics ==
    /\ projection # None
    /\ Fault
    /\ projection' = None
    /\ projection_applied' = TRUE
    /\ panicked' = panicked \cup {"projection"}
    /\ UNCHANGED <<disk, tree, background_active, begun, typed, loader_ignored, indexed, matches,
                   projection_requested, scanned_entries, examined_entries, skipped_directories,
                   steady, absent, limit, full, intents>>
    /\ RetryPage

-----------------------------------------------------------------------------
Next == \/ \E p \in Paths : MakePath(p) \/ RemovePath(p)
        \/ StatusApplied \/ ReloadApplied \/ QueueFills \/ QueueDrains
        \/ BeginSearch \/ Backspace \/ Clear \/ Commit \/ Refresh \/ Hide \/ Show
        \/ \E c \in Letters : AppendQuery(c)
        \/ \E f \in Files : Select(f)
        \/ LoadOne \/ CompletePage \/ PagePanics \/ CompleteProjection \/ ProjectionPanics

(* The threads of the worker run, and their results are taken.             *)
Fairness == /\ WF_vars(QueueDrains) /\ WF_vars(ReloadApplied)
            /\ WF_vars(LoadOne) /\ WF_vars(CompletePage) /\ WF_vars(CompleteProjection)

Spec == Init /\ [][Next]_vars /\ Fairness

-----------------------------------------------------------------------------
(* Properties.                                                             *)

(* When the search is at rest the rows are the entries of the index that   *)
(* match the query on screen, and the row selected is one of them, however *)
(* keys, pages, status commands, hiding and a full queue came in between   *)
(* (queue_search_projection(), complete_search_projection()).              *)
ResultsMatch ==
    Active /\ projection_applied /\ "projection" \notin panicked =>
        /\ matches = Matching([f \in Files |-> index[f]], query)
        /\ matches # {} => selection \in matches

(* A search that says it is complete, not cut short and with nothing       *)
(* skipped, has found every visible file that has been there since its     *)
(* scan began, and nothing that has been gone since                        *)
(* (restart_search_scan(), complete_search_page(), pause_background()).    *)
ScanCovers ==
    begun /\ complete /\ page = None /\ ~truncated /\ skipped_directories = 0
          /\ "page" \notin panicked =>
        /\ \A f \in steady : VisibleTo(loader_ignored, f) => index[f] # None
        /\ \A f \in absent : index[f] # "file"

(* A search on screen comes to rest: it does not say "scanning" for ever.  *)
SearchEnds ==
    begun /\ ShouldScan /\ background_active ~>
        ~Scanning \/ ~ShouldScan \/ ~background_active

-----------------------------------------------------------------------------
(* What keeps the properties.                                              *)

(* The disk, and an index but for its deleted files, have with a path what *)
(* is above it.                                                            *)
RootedDisk == \A p \in present, d \in Dirs : Below(p, d) => d \in present
RootedIndex(nodes) == \A p \in Paths, d \in Dirs :
    nodes[p] \notin {None, "virtual"} /\ Below(p, d) => nodes[d] = "directory"

(* The directories that are to be listed are in the index, each once, and  *)
(* none together with one above it.                                        *)
Apart(s) == \A i, j \in DOMAIN s : i # j => ~IsPrefix(s[i], s[j])
Waiting == IF page = None THEN pending_directories ELSE page.directories \o pending_directories
PageWaiting == page.todo \o (pending_directories \o page.discovered)
InIndex(nodes, s) == \A d \in Range(s) \ {Root} : nodes[d] = "directory"
Frontier == /\ Apart(Waiting) /\ InIndex(index, Waiting)
            /\ page # None => Apart(PageWaiting) /\ InIndex(page.index, PageWaiting)

(* What has been on the disk since the scan began is in the index, and     *)
(* what has not is not, but for what is below a directory to be listed.    *)
Finds(nodes, s) ==
    /\ \A f \in steady : VisibleTo(loader_ignored, f) =>
          nodes[f] = "file" \/ \E d \in Range(s) : Below(f, d)
    /\ \A f \in absent : nodes[f] = "file" => \E d \in Range(s) : Below(f, d)
Undisturbed == ~truncated /\ skipped_directories = 0 /\ "page" \notin panicked
ScanInv ==
    /\ complete => page = None
    /\ truncated => complete
    /\ Undisturbed /\ complete => pending_directories = <<>>
    /\ Undisturbed => Finds(index, Waiting)
    /\ page # None /\ page.truncated => page.todo = <<>>
    /\ page # None /\ Undisturbed /\ ~page.truncated /\ page.skipped = 0 =>
          Finds(page.index, PageWaiting)

(* The entries searched by the page that runs are those of its index.      *)
PageMatches ==
    page # None =>
        \A f \in Files :
            /\ f \in page.found => page.index[f] \in {None, "file"}
            /\ f \notin page.found =>
                  /\ page.index[f] \in {None, page.searchable[f]}
                  /\ page.searchable[f] # "virtual" /\ Parent(f) \in page.listed =>
                        page.index[f] = None

(* The projection that runs is the one that the rows await.                *)
Awaits ==
    /\ projection # None => /\ Active /\ ~projection_requested
                            /\ projection = [searchable |-> searchable, query |-> query]
    /\ projection_requested => Active
    /\ Active => begun

SearchInv == /\ TypeOK /\ RootedDisk /\ RootedIndex(index)
             /\ page # None => RootedIndex(page.index)
             /\ steady \subseteq present /\ absent \cap present = {}
             /\ editing => begun
             /\ Frontier /\ ScanInv /\ PageMatches /\ Awaits /\ ResultsMatch

=============================================================================
