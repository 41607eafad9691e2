------------------------------- MODULE MCViews -------------------------------
(***************************************************************************)
(* The views of a dock that change under their user's hands, one in each   *)
(* behaviour: the search of the Files view, over a file at the root that   *)
(* is ignored and one in a directory, whose deletion the status reports;   *)
(* the list of conversations, of two tools, where Herdr may report the     *)
(* sessions of the first by their id or by their transcript, one of which  *)
(* is named by that id; and the two panes of the Files view, either over a *)
(* few workspaces that change while the user works, or over each of many   *)
(* workspaces that stay as they are.                                       *)
(***************************************************************************)
EXTENDS FilesSearch, TLC

CONSTANTS a, b

MCDirs == {<<2>>}
MCFiles == {<<1>>, <<2, 1>>}
MCIgnored == {<<1>>}
MCTracked == {<<2, 1>>}
MCLimits == {[entries |-> 9, examined |-> 9], [entries |-> 2, examined |-> 2]}

VARIABLES mode,                  \* which view this behaviour is about
          filesystem, live, aligned, fingerprint, poll, items, collapsed_providers,
          selected_provider, scroll, loading, live_loading, notices, active, changes,
          chosen,                \* selection of the list
          repo, backend, nodes, statuses, changed_files, visible_rows, expanded,
          desired_expanded, pending, refresh, status_seen, status_is_stale, failure_notice,
          pane_input_notice, inserting, focused_pane, changed_selected, viewport_offset,
          changed_offset, panes, read,
          height, screen         \* of the list, or of the panes

ByIds(S) == [session : S, form : {"native"}]
ByPaths(S) == [session : S, form : {"path"}]
TwoTools == <<a, b>>
ToolOf == <<a, a, b>>
PathOf == <<"p", "q", "r">>
Found == {{}, {1}, {2, 3}}
ReportedSets == {{}, ByIds({1}) \cup ByPaths({2}), ByPaths({1}) \cup ByIds({2})}

List == INSTANCE HistoryList
          WITH Providers <- TwoTools, Sessions <- 1..3, Discovered <- Found, Tool <- ToolOf,
               Path <- PathOf, Documented <- {1}, Reported <- ReportedSets, Heights <- {2, 4},
               MaxChanges <- 3, selection <- chosen, shown <- screen

ASSUME ListInstance ==
    /\ List!SessionsAssumption /\ List!ReportedAssumption /\ List!BoundAssumption
    /\ \A r \in UNION ReportedSets, s \in 1..3 :
          r.form = "path" /\ PathOf[s] = PathOf[r.session] => s = r.session

(* One file at the root, one in a directory, and one outside the view.     *)
Elsewhere == <<3>>
Workspace == MCFiles \cup {Elsewhere}
State(h, i, w) == [head |-> h, index |-> i, work |-> w, conflict |-> "no"]
Workspaces(S) == {[f \in Workspace |-> IF f = <<1>> THEN t[1] ELSE IF f = <<2, 1>> THEN t[2] ELSE t[3]] :
                    t \in S}
Same == State("file", "file", "file")
Changed == State("file", "file", "other")
Gone == State("file", "file", "absent")
Removed == State("file", "absent", "absent")
Added == State("absent", "file", "file")
Conflict(kinds, contents) == [head : {"file"}, index : {"file"}, work : contents, conflict : kinds]

Few == Workspaces({<<Gone, Same, Same>>, <<Removed, Added, Same>>, <<Changed, Gone, Same>>})

AnyOf(contents) == [head : contents, index : contents, work : contents, conflict : {"no"}]
Contents == {"absent", "file", "other", "symlink"}
Conflicts == Conflict({"DD", "AU", "UD", "UA", "DU", "AA", "UU", "head", "index", "both"},
                      {"absent", "file"})
Many == Workspaces((AnyOf(Contents) \X {Same, Removed} \X {Same})
                   \cup (AnyOf({"absent", "file"}) \X AnyOf({"absent", "file"})
                           \X {Same, Removed, Added})
                   \cup ({Same, Removed} \X Conflicts \X {Same})
                   \cup (Conflicts \X {Changed} \X {Same}))

Panes == INSTANCE ChangesPane
           WITH WorkspaceFiles <- Workspace, Repositories <- Few, Ignored <- {<<2, 1>>},
                Heights <- {4, 6}, MaxStatusEntries <- 1, MaxEdits <- 1, MaxIntents <- 2, MaxFaults <- 0
Still == INSTANCE ChangesPane
           WITH WorkspaceFiles <- Workspace, Repositories <- Many, Ignored <- {<<2, 1>>},
                Heights <- {6}, MaxStatusEntries <- 2, MaxEdits <- 0, MaxIntents <- 0, MaxFaults <- 1

ASSUME PaneInstances ==
    /\ Panes!WorkspaceAssumption /\ Panes!RepositoriesAssumption /\ Panes!BoundAssumption
    /\ Still!RepositoriesAssumption /\ Still!BoundAssumption /\ Still!NoneAssumption

IsSearch == mode = "search"
IsList == mode = "list"
ArePanes == mode \in {"panes", "still"}

ofList == <<filesystem, live, aligned, fingerprint, poll, items, collapsed_providers,
            selected_provider, scroll, loading, live_loading, notices, active, changes, chosen>>
ofPanes == <<repo, backend, nodes, statuses, changed_files, visible_rows, expanded,
             desired_expanded, pending, refresh, status_seen, status_is_stale, failure_notice,
             pane_input_notice, inserting, focused_pane, changed_selected, viewport_offset,
             changed_offset, panes, read>>
drawing == <<height, screen>>
onlySearch == <<present, virtual, reloading, background_active, begun, editing, query,
                loader_ignored, index, searchable, pending_directories, page, scanned_entries,
                examined_entries, skipped_directories, complete, truncated, matches,
                projection_requested, projection_applied, projection, steady, absent, panicked,
                limit, full>>
shared == <<show_ignored, selection, edits, intents, faults>>

NoList == /\ filesystem = 0 /\ live = 0 /\ aligned = 0 /\ fingerprint = 0 /\ poll = 0
          /\ items = 0 /\ collapsed_providers = 0 /\ selected_provider = 0 /\ scroll = 0
          /\ loading = 0 /\ live_loading = 0 /\ notices = 0 /\ active = 0 /\ changes = 0
          /\ chosen = 0
NoPanes == /\ repo = 0 /\ backend = 0 /\ nodes = 0 /\ statuses = 0 /\ changed_files = 0
           /\ visible_rows = 0 /\ expanded = 0 /\ desired_expanded = 0 /\ pending = 0
           /\ refresh = 0 /\ status_seen = 0 /\ status_is_stale = 0 /\ failure_notice = 0
           /\ pane_input_notice = 0 /\ inserting = 0 /\ focused_pane = 0 /\ changed_selected = 0
           /\ viewport_offset = 0 /\ changed_offset = 0 /\ panes = 0 /\ read = 0
NoSearch == /\ present = 0 /\ virtual = 0 /\ reloading = 0 /\ background_active = 0
            /\ begun = FALSE /\ editing = 0 /\ query = 0 /\ loader_ignored = 0 /\ index = 0
            /\ searchable = 0 /\ pending_directories = 0 /\ page = 0 /\ scanned_entries = 0
            /\ examined_entries = 0 /\ skipped_directories = 0 /\ complete = 0 /\ truncated = 0
            /\ matches = 0 /\ projection_requested = 0 /\ projection_applied = 0
            /\ projection = 0 /\ steady = 0 /\ absent = 0 /\ panicked = 0 /\ limit = 0
            /\ full = 0
NoneShared == /\ show_ignored = 0 /\ selection = 0 /\ edits = 0 /\ intents = 0 /\ faults = 0
NoDrawing == /\ height = 0 /\ screen = 0

all == <<mode, vars, ofList, ofPanes, drawing>>
OnlySearch == UNCHANGED <<mode, ofList, ofPanes, drawing>>

MCInit == \/ IsSearch /\ Init /\ NoList /\ NoPanes /\ NoDrawing
          \/ IsList /\ List!Init /\ NoSearch /\ NoneShared /\ NoPanes
          \/ mode = "panes" /\ Panes!Init /\ NoSearch /\ NoList
          \/ mode = "still" /\ Still!Init /\ NoSearch /\ NoList
MCNext == \/ IsSearch /\ Next /\ OnlySearch
          \/ IsList /\ List!Next /\ UNCHANGED <<mode, vars, ofPanes>>
          \/ mode = "panes" /\ Panes!Next /\ UNCHANGED <<mode, onlySearch, ofList>>
          \/ mode = "still" /\ Still!Next /\ UNCHANGED <<mode, onlySearch, ofList>>
MCSpec == /\ MCInit /\ [][MCNext]_all
          /\ WF_all(IsSearch /\ QueueDrains /\ OnlySearch)
          /\ WF_all(IsSearch /\ ReloadApplied /\ OnlySearch)
          /\ WF_all(IsSearch /\ LoadOne /\ OnlySearch)
          /\ WF_all(IsSearch /\ CompletePage /\ OnlySearch)
          /\ WF_all(IsSearch /\ CompleteProjection /\ OnlySearch)

-----------------------------------------------------------------------------
(* A complete scan has found every visible file that has been there since  *)
(* it began, and none that has not been there since.                       *)
ScanFinds == IsSearch => ScanCovers

(* A search on screen comes to rest.                                       *)
SearchRests ==
    (IsSearch /\ begun /\ ShouldScan /\ background_active) ~>
        (IsSearch => ~Scanning \/ ~ShouldScan \/ ~background_active)

(* What the rows of a view tell is true: those of a search at rest are the *)
(* entries of its index that match the query on screen; merging sessions   *)
(* neither loses one nor marks a wrong one as live; and the tree of the    *)
(* Files view has a row for each of its nodes whose directories are open.  *)
RowsTrue == /\ IsSearch => ResultsMatch
            /\ IsList => List!RowsTrue
            /\ ArePanes => Panes!RowsTrue

(* A drawn list shows its selected row, no line is empty while rows are    *)
(* scrolled away above; and so do the two panes of the Files view, each in *)
(* lines of its own.                                                       *)
SelectionShown == /\ IsList => List!SelectionShown
                  /\ ArePanes => Panes!SelectionShown

(* The list of changed files, and the marks of the tree, tell what the     *)
(* status command has found, each file as the strongest of its changes.    *)
(* Nothing is said of a directory below which another kind than conflicted *)
(* or modified is the strongest: see DirectoriesInherit of ChangesPane.    *)
StatusTrue == ArePanes => Panes!StatusTrue

(* What a job finds never moves the selection to a session of another file.*)
SelectionFollows == [][IsList => List!Follows]_<<mode, ofList, drawing>>
=============================================================================
