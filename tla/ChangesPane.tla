----------------------------- MODULE ChangesPane -----------------------------
(***************************************************************************)
(* The Files view as the user sees it (FilesRuntime of src/src/runtime.rs, *)
(* drawn by src/src/ui/files.rs): the tree above and the flat list of      *)
(* changed files below a rule, each with a selected row and a window that  *)
(* scrolls.  Status commands run beside the user, the disk and git change, *)
(* listings and statuses are merged into the tree, and the view is drawn   *)
(* after each step that says it changed something (src/src/app.rs).        *)
(*                                                                         *)
(* A status command starts, reads the workspace, looks which of the files  *)
(* that may be gone are on the disk, and is applied unless another has     *)
(* been asked for or the tree has changed since; a listing is read and     *)
(* applied in one step.  How their jobs are queued, panic and are retried  *)
(* is in FilesRuntime, searching in FilesSearch.  The view stays on        *)
(* screen, its root has a name, and its only notices are those of a failed *)
(* status command and of a reference that was not inserted.                *)
(***************************************************************************)
EXTENDS Integers, FilesTree

CONSTANTS WorkspaceFiles,   \* those of the workspace, some of them not in the view
          MaxStatusEntries,
          Repositories,     \* what the workspace may become
          Ignored,          \* the paths that the ignore rules hide from a listing
          Heights,          \* of the view
          MaxEdits, MaxIntents, MaxFaults

INSTANCE VcsStatus

Backends == {"git", "Fresh", "Passive"}

WorkspaceAssumption == PathsAssumption /\ Files \subseteq WorkspaceFiles
NoneAssumption == /\ None \notin Paths \cup WorkspaceFiles
                  /\ None \notin Kinds \cup {"directory", "file", "virtual"}
RepositoriesAssumption == Repositories \subseteq [WorkspaceFiles -> File]
BoundAssumption == Heights \subseteq Nat /\ {MaxEdits, MaxIntents, MaxFaults} \subseteq Nat

VARIABLES repo,                  \* the workspace
          backend,               \* git, or Jujutsu and its mode
          show_ignored,
          nodes, statuses,       \* of the tree; None where there is none
          changed_files,         \* a sequence of [path, kind, missing]
          selection, visible_rows, expanded, desired_expanded,
          pending,               \* the directories that will be listed
          refresh,               \* the status command that runs, or None
          status_seen, status_is_stale, failure_notice,
          pane_input_notice,     \* "none", or what it says
          inserting,             \* a reference is on its way to the other pane
          focused_pane, changed_selected,
          viewport_offset, changed_offset,
          height, panes,         \* of the view; [tree, divider, changed] at the last drawing
          screen,                \* auxiliary: what the last drawing has put on the screen
          read,                  \* auxiliary: what the applied status was made of, or None
          edits, intents, faults

workspace == <<repo, backend, edits>>
tree == <<nodes, statuses, changed_files>>
folded == <<visible_rows, expanded, desired_expanded>>
status == <<status_seen, status_is_stale, failure_notice, read>>
focus == <<focused_pane, changed_selected>>
offsets == <<viewport_offset, changed_offset>>
drawn == <<panes, screen>>
input == <<pane_input_notice, inserting>>
vars == <<workspace, show_ignored, tree, selection, folded, pending, refresh, status, input, focus,
          offsets, height, drawn, intents, faults>>

Hidden(p) == \E q \in Ignored : IsPrefix(q, p)
VisibleNow(p) == show_ignored \/ ~Hidden(p)
Fits(mode, r) ==
    \A f \in WorkspaceFiles :
        r[f].conflict \in {"no"} \cup IF mode = "git" THEN GitConflicts ELSE JujutsuConflicts
OnDisk(f) == repo[f].work # "absent"

-----------------------------------------------------------------------------
(* merge_workspace_status().  Files is what the visibility policy lets in  *)
(* below the root of the view; the rest is left out, but not what the      *)
(* ignore rules hide.                                                      *)

(* Mutant: only a file that is deleted as a whole is looked for.           *)
MutCandidates(entries) ==
    {e \in [path : Files, kind : Kinds] :
        \E n \in entries : /\ n.kind = e.kind
                           /\ \/ n.path = e.path /\ n.kind = "Deleted"
                              \/ n.source = e.path}

(* The files that may be gone, with the kind each would have.              *)
Candidates(entries) ==
    {e \in [path : Files, kind : Kinds] :
        \E n \in entries : /\ n.kind = e.kind
                           /\ \/ n.path = e.path /\ "Deleted" \in {n.kind, n.index, n.work}
                              \/ n.source = e.path}
Missing(entries, gone) == {e \in Candidates(entries) : e.path \in gone}

Present(entries) ==
    {e \in [path : Files, kind : Kinds] : \E n \in entries : n.path = e.path /\ n.kind = e.kind}

(* insert_status_with_ancestors() of each.                                 *)
Statuses(marked) ==
    [p \in Paths |->
        LET own == {e.kind : e \in {m \in marked : m.path = p}}
            above == {IF e.kind = "Conflicted" THEN "Conflicted" ELSE "Modified" :
                        e \in {m \in marked : Below(m.path, p)}}
        IN  IF own \cup above = {} THEN None ELSE Strongest(own \cup above)]

(* upsert_changed_file() of each: sorted by path, a path once.             *)
ChangedFiles(marked, missing) ==
    LET paths == InPathOrder({e.path : e \in marked})
    IN  [i \in DOMAIN paths |->
            [path |-> paths[i],
             kind |-> Strongest({e.kind : e \in {m \in marked : m.path = paths[i]}}),
             missing |-> \E e \in missing : e.path = paths[i]]]

-----------------------------------------------------------------------------
(* The rows of the tree: append_visible_children().                        *)

Children(kinds, d) ==
    LET here == {p \in Paths : kinds[p] # None /\ DisplayParent(kinds, p) = d}
        Folder(p) == kinds[p] = "directory"
    IN  InOrder(here, {pair \in here \X here :
                         \/ Folder(pair[1]) /\ ~Folder(pair[2])
                         \/ (Folder(pair[1]) <=> Folder(pair[2])) /\ PathLess(pair[1], pair[2])})

Rows(kinds, open) ==
    LET below[d \in Places] ==
            LET children == Children(kinds, d)
            IN  FlattenSeq([i \in DOMAIN children |->
                    IF kinds[children[i]] = "directory" /\ children[i] \in open
                    THEN <<children[i]>> \o below[children[i]] ELSE <<children[i]>>])
    IN  below[Root]

(* restore_visible_selection(): the nearest row above, or the first.       *)
Above(kinds, p) == {d \in Dirs : Below(p, d) /\ (kinds[p] # "virtual" \/ kinds[d] = "directory")}
RestoreVisible(kinds, rows, selected) ==
    LET above == Above(kinds, selected) \cap ToSet(rows)
    IN  IF selected = None \/ selected \in ToSet(rows) \/ rows = <<>> THEN selected
        ELSE IF above = {} THEN rows[1]
        ELSE CHOOSE d \in above : \A e \in above : IsPrefix(e, d)

(* ensure_selection_visible() and ensure_changed_selection_visible(), with *)
(* the row selected counted from 1, or 0 when there is none.               *)
EnsureVisible(top, row, rows, room) ==
    IF row = 0 THEN 0
    ELSE LET moved == IF row - 1 < top THEN row - 1
                      ELSE IF room # 0 /\ row > top + room THEN (IF row > room THEN row - room ELSE 0)
                      ELSE top
         IN  IF moved < rows THEN moved ELSE rows - 1

RowOf(rows, p) == IF \E i \in DOMAIN rows : rows[i] = p
                  THEN CHOOSE i \in DOMAIN rows : rows[i] = p ELSE 0
PathsOf(files) == [i \in DOMAIN files |-> files[i].path]
TreeTop(top, rows, selected) == EnsureVisible(top, RowOf(rows, selected), Len(rows), panes.tree)
ChangedTop(top, files, selected) ==
    EnsureVisible(top, RowOf(PathsOf(files), selected), Len(files), panes.changed)

-----------------------------------------------------------------------------
(* Drawing: render() of the runtime.                                       *)

Least(m, n) == IF m < n THEN m ELSE n
Less(m, n) == IF m < n THEN 0 ELSE m - n

Layout(lines, noticed) ==
    LET content == Less(lines, IF noticed THEN 1 ELSE 0)
        divider == IF content >= 3 THEN 1 ELSE 0
        changed == IF divider = 0 THEN 0 ELSE (content - divider) \div 2
    IN  [tree |-> Less(content - divider - changed, 1), divider |-> divider, changed |-> changed]

(* The lines of the view: its header, the rows of the tree, the rule, and  *)
(* the list; a notice takes the last.                                      *)
TreeLine(line) == line - 1
ChangedLine(line) == line - 1 - panes.tree - panes.divider
TreeWindow == SubSeq(visible_rows, viewport_offset + 1,
                     Least(viewport_offset + panes.tree, Len(visible_rows)))
ChangedWindow == SubSeq(changed_files, changed_offset + 1,
                        Least(changed_offset + panes.changed, Len(changed_files)))

Screen ==
    [tree |-> [i \in DOMAIN TreeWindow |->
                 [path |-> TreeWindow[i], kind |-> nodes[TreeWindow[i]],
                  mark |-> statuses[TreeWindow[i]], band |-> TreeWindow[i] = selection]],
     changed |-> [i \in DOMAIN ChangedWindow |->
                    [file |-> ChangedWindow[i],
                     band |-> focused_pane = "changed" /\ ChangedWindow[i].path = changed_selected]],
     lit |-> panes.divider = 1 /\ focused_pane = "changed",
     notice |-> pane_input_notice # "none" \/ failure_notice,
     empty |-> IF ChangedWindow # <<>> \/ panes.changed = 0 THEN "rows"
               ELSE IF failure_notice \/ status_is_stale THEN "unavailable"
               ELSE IF status_seen THEN "clean" ELSE "loading"]

Draw(top, changed_top) ==
    /\ panes' = Layout(height', failure_notice' \/ status_is_stale')
    /\ viewport_offset' = EnsureVisible(top, RowOf(visible_rows', selection'), Len(visible_rows'),
                                        panes'.tree)
    /\ changed_offset' = IF panes'.changed = 0 THEN changed_top
                         ELSE EnsureVisible(changed_top,
                                            RowOf(PathsOf(changed_files'), changed_selected'),
                                            Len(changed_files'), panes'.changed)
    /\ screen' = Screen'
Undrawn(top, changed_top) ==
    viewport_offset' = top /\ changed_offset' = changed_top /\ UNCHANGED drawn

(* Draws if it says so.                                                    *)
Says(changed, top, changed_top) ==
    IF changed THEN Draw(top, changed_top) ELSE Undrawn(top, changed_top)

-----------------------------------------------------------------------------
(* Asking for a status, and rebuilding the rows.                           *)

Started(mode) == [backend |-> mode, outdated |-> FALSE, stage |-> "runs", snapshot |-> None,
                  seen |-> None, gone |-> {}]

(* request_refresh() and begin_refresh(): one command at a time.           *)
Request == refresh' = IF refresh = None THEN Started(backend)
                      ELSE [refresh EXCEPT !.outdated = TRUE]

(* rebuild_visible_rows().                                                 *)
Rebuild(kinds, selected, open, wanted) ==
    LET directories == {d \in Dirs : kinds[d] = "directory"}
    IN  /\ expanded' = open \cap directories /\ desired_expanded' = wanted \cap directories
        /\ visible_rows' = Rows(kinds, expanded')
        /\ selection' = RestoreVisible(kinds, visible_rows', selected)

(* What a directory holds; one is there as long as a file is below it.     *)
DirectoryOnDisk(d) == \E f \in Files : Below(f, d) /\ OnDisk(f)
Entries(d) == {p \in Paths : /\ Parent(p) = d /\ VisibleNow(p)
                             /\ IF p \in Dirs THEN DirectoryOnDisk(p) ELSE OnDisk(p)}

(* One directory of a listing, in the order of their depth.                *)
Load(t, d) ==
    IF d # Root /\ (t.kinds[d] # "directory" \/ ~DirectoryOnDisk(d)) THEN t
    ELSE LET kinds == ListedNodes(t.kinds, d, Entries(d))
         IN  [kinds |-> kinds, selected |-> RestoreSelection(kinds, t.selected),
              loaded |-> t.loaded \cup {d}]

(* bootstrap() has listed the root, and start_background() asks for all.   *)
Init ==
    /\ repo \in Repositories /\ backend \in Backends /\ Fits(backend, repo)
    /\ show_ignored \in BOOLEAN
    /\ nodes = ListedNodes([p \in Paths |-> None], Root, Entries(Root))
    /\ statuses = [p \in Paths |-> None] /\ changed_files = <<>>
    /\ selection = OrderedFirst(nodes) /\ visible_rows = Rows(nodes, {})
    /\ expanded = {} /\ desired_expanded = {}
    /\ pending = {Root} /\ refresh = Started(backend)
    /\ status_seen = FALSE /\ status_is_stale = (backend = "Passive") /\ failure_notice = FALSE
    /\ pane_input_notice = "none" /\ inserting = FALSE
    /\ focused_pane = "tree" /\ changed_selected = None
    /\ viewport_offset = 0 /\ changed_offset = 0
    /\ height \in Heights /\ panes = Layout(height, status_is_stale) /\ screen = Screen
    /\ read = None
    /\ edits = 0 /\ intents = 0 /\ faults = 0

-----------------------------------------------------------------------------
(* The workspace, the status command and the listing.                      *)

Edit == /\ edits < MaxEdits /\ edits' = edits + 1
        /\ repo' \in Repositories \ {repo} /\ Fits(backend, repo')
        /\ UNCHANGED <<backend, show_ignored, tree, selection, folded, pending, refresh, status,
                       input, focus, offsets, height, drawn, intents, faults>>

(* The poll comes due, at any time; there is none for Fresh.               *)
Polls == /\ backend # "Fresh"
         /\ Request
         /\ UNCHANGED <<workspace, show_ignored, tree, selection, folded, pending, status, input,
                        focus, height, intents, faults>>
         /\ Draw(viewport_offset, changed_offset)

(* The command reads the workspace, of which jj takes a snapshot; or fails.*)
Reads ==
    /\ refresh # None /\ refresh.stage = "runs"
    /\ repo' = IF refresh.backend = "Fresh"
               THEN [f \in WorkspaceFiles |-> [repo[f] EXCEPT !.index = repo[f].work]] ELSE repo
    /\ \E fails \in BOOLEAN :
          /\ fails => faults < MaxFaults
          /\ faults' = IF fails THEN faults + 1 ELSE faults
          /\ refresh' = [refresh EXCEPT !.stage = "read", !.seen = repo',
                            !.snapshot = IF fails THEN None ELSE Snapshot(refresh.backend, repo)]
    /\ UNCHANGED <<backend, edits, show_ignored, tree, selection, folded, pending, status, input,
                   focus, offsets, height, drawn, intents>>

(* The job looks for the files that may be gone.                           *)
Looks ==
    /\ refresh # None /\ refresh.stage = "read" /\ refresh.snapshot # None
    /\ refresh' = [refresh EXCEPT !.stage = "merged", !.gone = {f \in Files : ~OnDisk(f)}]
    /\ UNCHANGED <<workspace, show_ignored, tree, selection, folded, pending, status, input,
                   focus, offsets, height, drawn, intents, faults>>

(* complete_vcs_refresh(): a result that has been overtaken is asked for   *)
(* again, one that failed leaves the tree as it is.                        *)
Overtaken ==
    /\ refresh.outdated
    /\ refresh' = Started(backend)
    /\ UNCHANGED <<workspace, show_ignored, tree, selection, folded, pending, status, input,
                   focus, height, intents, faults>>
    /\ Draw(viewport_offset, changed_offset)

Failed ==
    /\ ~refresh.outdated /\ refresh.snapshot = None
    /\ refresh' = None
    /\ failure_notice' = TRUE
    /\ UNCHANGED <<workspace, show_ignored, tree, selection, folded, pending, status_seen,
                   status_is_stale, read, input, focus, height, intents, faults>>
    /\ Draw(viewport_offset, changed_offset)

(* restore_changed_selection().                                            *)
KeptOrFirst(files, selected) ==
    IF selected \in ToSet(PathsOf(files)) THEN selected
    ELSE IF files = <<>> THEN None ELSE files[1].path

Applied ==
    /\ ~refresh.outdated /\ refresh.snapshot # None
    /\ \E missing \in {Missing(refresh.snapshot.entries, refresh.gone)} :
       \E marked \in {Present(refresh.snapshot.entries) \cup missing} :
          /\ nodes' = SyncOverlay(nodes, {e.path : e \in missing})
          /\ statuses' = Statuses(marked)
          /\ changed_files' = ChangedFiles(marked, missing)
    /\ refresh' = None
    /\ status_seen' = TRUE /\ status_is_stale' = refresh.snapshot.stale /\ failure_notice' = FALSE
    /\ read' = [repo |-> refresh.seen, backend |-> refresh.backend, gone |-> refresh.gone]
    /\ changed_selected' = KeptOrFirst(changed_files', changed_selected)
    /\ Rebuild(nodes', RestoreSelection(nodes', selection), expanded, desired_expanded)
    /\ UNCHANGED <<workspace, show_ignored, pending, input, focused_pane, height, intents, faults>>
    /\ Draw(TreeTop(viewport_offset, visible_rows', selection'),
            ChangedTop(changed_offset, changed_files', changed_selected'))

Completes ==
    /\ refresh # None
    /\ \/ refresh.stage = "merged"
       \/ refresh.stage = "read" /\ refresh.snapshot = None
    /\ Overtaken \/ Failed \/ Applied

(* complete_filesystem(), for what is pending.                             *)
FilesystemApplied ==
    LET directories == IF Root \in pending THEN pending \cup expanded ELSE pending
        order == InPathOrder(directories)
        upTo[i \in 0..Len(order)] ==
            IF i = 0 THEN [kinds |-> nodes, selected |-> selection, loaded |-> {}]
            ELSE Load(upTo[i - 1], order[i])
        wishes == pending \ {Root}
    IN  /\ pending # {}
        /\ pending' = {}
        /\ \E t \in {upTo[Len(order)]} :
              LET open == {d \in t.loaded \cap wishes : t.kinds[d] = "directory"}
              IN  /\ nodes' = t.kinds
                  /\ IF t.loaded = {}
                     THEN /\ desired_expanded' = desired_expanded \ wishes
                          /\ UNCHANGED <<selection, expanded, visible_rows, refresh>>
                     ELSE /\ Rebuild(t.kinds, t.selected, expanded \cup (open \cap desired_expanded),
                                     desired_expanded \ (wishes \ open))
                          /\ refresh' = IF refresh = None THEN None
                                        ELSE [refresh EXCEPT !.outdated = TRUE]
        /\ UNCHANGED <<workspace, show_ignored, statuses, changed_files, status, input, focus,
                       height, intents, faults>>
        /\ Draw(TreeTop(viewport_offset, visible_rows', selection'), changed_offset)

(* A reference arrives in the other pane, or does not.                     *)
Inserted ==
    /\ inserting /\ inserting' = FALSE
    /\ pane_input_notice' \in {"none", "refused"}
    /\ UNCHANGED <<workspace, show_ignored, tree, selection, folded, pending, refresh, status,
                   focus, height, intents, faults>>
    /\ Says(pane_input_notice' # pane_input_notice, viewport_offset, changed_offset)

-----------------------------------------------------------------------------
(* The user: handle_intent(), and the controller's answer to the key that  *)
(* toggles.                                                                *)

Intent == intents < MaxIntents /\ intents' = intents + 1
          /\ UNCHANGED <<workspace, tree, status, faults>>

(* select_path() and select_changed_index().                               *)
SelectPath(p) ==
    /\ selection' = p
    /\ UNCHANGED <<visible_rows, changed_files, changed_selected>>
    /\ Says(p # selection, TreeTop(viewport_offset, visible_rows, p), changed_offset)
SelectChanged(p) ==
    /\ changed_selected' = p
    /\ UNCHANGED <<visible_rows, changed_files, selection>>
    /\ Says(p # changed_selected, viewport_offset, ChangedTop(changed_offset, changed_files, p))

Keys == {"previous", "next", "first", "last"}
RowAfter(key, row, rows) ==
    IF row = 0 /\ key \in {"previous", "next"} THEN 1
    ELSE CASE key = "previous" -> IF row = 1 THEN 1 ELSE row - 1
           [] key = "next" -> Least(row + 1, rows)
           [] key = "first" -> 1
           [] key = "last" -> rows

Moves(key) ==
    /\ Intent
    /\ UNCHANGED <<show_ignored, expanded, desired_expanded, pending, refresh, input, focused_pane,
                   height>>
    /\ LET rows == IF focused_pane = "tree" THEN visible_rows ELSE PathsOf(changed_files)
           selected == IF focused_pane = "tree" THEN selection ELSE changed_selected
       IN  /\ rows # <<>>
           /\ \E p \in {rows[RowAfter(key, RowOf(rows, selected), Len(rows))]} :
                 IF focused_pane = "tree" THEN SelectPath(p) ELSE SelectChanged(p)

(* request_expansion(), of a directory that is not to be open already.     *)
Expandable(p) == nodes[p] = "directory" /\ p \notin desired_expanded
RequestExpansion(p) ==
    /\ Expandable(p)
    /\ desired_expanded' = desired_expanded \cup {p} /\ pending' = pending \cup {p}
    /\ UNCHANGED <<visible_rows, expanded>>

(* The half of toggle_selected() and collapse_or_ascend() that closes.     *)
Closes(p) ==
    /\ p \in desired_expanded
    /\ pending' = pending \ {p}
    /\ IF p \in expanded THEN Rebuild(nodes, p, expanded \ {p}, desired_expanded \ {p})
       ELSE /\ desired_expanded' = desired_expanded \ {p}
            /\ selection' = p /\ UNCHANGED <<expanded, visible_rows>>

Untouched == UNCHANGED <<show_ignored, refresh, input, focus, height>>

ExpandOrDescend ==
    /\ Intent /\ focused_pane = "tree" /\ selection # None
    /\ \/ /\ selection \in expanded /\ Children(nodes, selection) # <<>>
          /\ UNCHANGED <<expanded, desired_expanded, pending, show_ignored, refresh, input,
                         focused_pane, height>>
          /\ SelectPath(Children(nodes, selection)[1])
       \/ /\ selection \notin expanded
          /\ RequestExpansion(selection)
          /\ UNCHANGED selection /\ Untouched
          /\ Draw(viewport_offset, changed_offset)

CollapseOrAscend ==
    /\ Intent /\ focused_pane = "tree" /\ selection # None
    /\ \/ /\ Closes(selection) /\ Untouched
          /\ Draw(TreeTop(viewport_offset, visible_rows', selection'), changed_offset)
       \/ /\ selection \notin desired_expanded
          /\ DisplayParent(nodes, selection) # Root
          /\ UNCHANGED <<expanded, desired_expanded, pending, show_ignored, refresh, input,
                         focused_pane, height>>
          /\ SelectPath(DisplayParent(nodes, selection))

(* Of a file, a reference is sent; of a symbolic link none, which FilesTree*)
(* does not tell from a file.                                              *)
ToggleTree ==
    /\ Intent /\ focused_pane = "tree" /\ selection # None
    /\ \/ /\ nodes[selection] = "file" /\ inserting' = TRUE
          /\ UNCHANGED <<show_ignored, refresh, focus, height, selection, folded, pending,
                         pane_input_notice, offsets, drawn>>
       \/ /\ \/ Closes(selection)
             \/ RequestExpansion(selection) /\ UNCHANGED selection
          /\ Untouched
          /\ Draw(TreeTop(viewport_offset, visible_rows', selection'), changed_offset)

(* changed_file_reference(): the disk is asked, whatever the status says.  *)
ToggleChanged ==
    /\ Intent /\ focused_pane = "changed" /\ changed_selected # None
    /\ LET file == changed_files[RowOf(PathsOf(changed_files), changed_selected)]
           refused == IF file.missing \/ ~OnDisk(file.path) THEN "missing"
                      ELSE IF repo[file.path].work = "symlink" THEN "not a file" ELSE "none"
       IN  /\ inserting' = (inserting \/ refused = "none")
           /\ pane_input_notice' = IF refused = "none" THEN pane_input_notice ELSE refused
    /\ UNCHANGED <<show_ignored, refresh, focus, height, selection, folded, pending>>
    /\ Says(pane_input_notice' # pane_input_notice, viewport_offset, changed_offset)

(* request_reload(), by key, or once ignored files are shown or hidden.    *)
Reloads ==
    /\ Intent
    /\ show_ignored' \in BOOLEAN
    /\ selection' = IF show_ignored' = show_ignored THEN selection
                    ELSE RestoreSelection(nodes, selection)
    /\ pending' = pending \cup {Root}
    /\ Request
    /\ UNCHANGED <<folded, input, focus, height>>
    /\ Draw(viewport_offset, changed_offset)

SwitchFilesPane ==
    /\ Intent /\ panes.changed # 0
    /\ focused_pane' = IF focused_pane = "tree" THEN "changed" ELSE "tree"
    /\ UNCHANGED <<show_ignored, refresh, input, changed_selected, height, selection, folded, pending>>
    /\ Draw(viewport_offset, changed_offset)

ChangedIndex(line) == IF ChangedLine(line) \in 0..(panes.changed - 1)
                      THEN changed_offset + ChangedLine(line) + 1 ELSE 0
TreeIndex(line) == IF TreeLine(line) \in 0..(panes.tree - 1)
                   THEN viewport_offset + TreeLine(line) + 1 ELSE 0

Click(line) ==
    /\ Intent
    /\ UNCHANGED <<show_ignored, expanded, desired_expanded, pending, refresh, input, height>>
    /\ \/ /\ ChangedIndex(line) \in DOMAIN changed_files
          /\ focused_pane' = "changed"
          /\ SelectChanged(changed_files[ChangedIndex(line)].path)
       \/ /\ TreeIndex(line) \in DOMAIN visible_rows
          /\ focused_pane' = "tree"
          /\ SelectPath(visible_rows[TreeIndex(line)])

(* toggle_viewport_row(): selects, and toggles unless the list has focus.  *)
RightClick(line) ==
    /\ Intent
    /\ TreeIndex(line) \in DOMAIN visible_rows
    /\ \E p \in {visible_rows[TreeIndex(line)]} :
          \/ /\ focused_pane = "tree"
             /\ \/ Closes(p)
                \/ RequestExpansion(p) /\ selection' = p
             /\ Untouched
             /\ Draw(TreeTop(viewport_offset, visible_rows', selection'), changed_offset)
          \/ /\ focused_pane = "changed" \/ ~(p \in desired_expanded \/ Expandable(p))
             /\ UNCHANGED <<show_ignored, expanded, desired_expanded, pending, refresh, input,
                            focused_pane, height>>
             /\ SelectPath(p)

Resize ==
    /\ Intent /\ height' \in Heights \ {height}
    /\ UNCHANGED <<show_ignored, refresh, input, focus, selection, folded, pending>>
    /\ Draw(viewport_offset, changed_offset)

Lines == 0..(height - 1)
Intents == \/ \E key \in Keys : Moves(key)
           \/ ExpandOrDescend \/ CollapseOrAscend \/ ToggleTree \/ ToggleChanged
           \/ Reloads \/ SwitchFilesPane \/ Resize
           \/ \E line \in Lines : Click(line) \/ RightClick(line)

Next == \/ Edit \/ Polls \/ Reads \/ Looks \/ Completes \/ FilesystemApplied \/ Inserted \/ Intents

Spec == Init /\ [][Next]_vars

-----------------------------------------------------------------------------
(* The list of changed files, and the marks of the tree, tell what the     *)
(* status command has found: a file of the view is listed exactly if it    *)
(* has changed, or is the old name of one that was moved and is gone, with *)
(* the strongest of its kinds; as missing only if it is gone, and always   *)
(* if it was reported as deleted.  Of the directories it says what the     *)
(* code and README.md:76-77 agree on: one is marked exactly if such a file *)
(* is below it, as conflicted exactly if one of them is, and as modified   *)
(* where that is the strongest below.  Left out are directories below      *)
(* which the strongest is any other kind (renamed, copied, of another      *)
(* type, deleted, added, untracked): the code marks them as modified, and  *)
(* DirectoriesInherit states what README.md says of them.                  *)
StatusTrue ==
    read # None =>
        LET own(f) == {MarkOf(read.backend, read.repo, f)} \ {None}
            left(f) == IF f \in read.gone THEN HeirMarks(read.backend, read.repo, f) ELSE {}
            listed == {f \in Files : own(f) \cup left(f) # {}}
            mark == [f \in listed |-> Strongest(own(f) \cup left(f))]
            deleted == {f \in listed \cap read.gone :
                          /\ read.repo[f].conflict \in {"no", "DD", "DU", "UD"}
                          /\ Stages3(read.backend, read.repo)[3][f] = "absent"}
        IN  /\ PathsOf(changed_files) = InPathOrder(listed)
            /\ \A i \in DOMAIN changed_files :
                  LET file == changed_files[i]
                  IN  /\ file.kind = mark[file.path] /\ statuses[file.path] = mark[file.path]
                      /\ file.missing => file.path \in read.gone
                      /\ file.path \in deleted => file.missing
            /\ \A f \in Files \ listed : statuses[f] = None
            /\ \A d \in Dirs :
                  LET below == {mark[f] : f \in {g \in listed : Below(g, d)}}
                  IN  /\ statuses[d] = None <=> below = {}
                      /\ statuses[d] = "Conflicted" <=> "Conflicted" \in below
                      /\ (below # {} /\ Strongest(below) = "Modified") => statuses[d] = "Modified"

(* README.md:76-77: "directories inherit the strongest status of their     *)
(* descendants".  It does not hold of insert_status_with_ancestors().      *)
DirectoriesInherit ==
    \A d \in Dirs :
        LET below == {statuses[f] : f \in {g \in Files : Below(g, d)}} \ {None}
        IN  nodes[d] # None /\ below # {} => statuses[d] = Strongest(below)

(* The rows of the tree are the nodes all of whose directories are open,   *)
(* each once, and the screen shows the rows, the marks and the list as     *)
(* they are now.                                                           *)
RowsTrue ==
    LET Open(p) == \A d \in Dirs : (Below(p, d) /\ nodes[d] # None) => d \in expanded
    IN  /\ IsInjective(visible_rows)
        /\ ToSet(visible_rows) = {p \in Paths : nodes[p] # None /\ Open(p)}
        /\ screen.tree = Screen.tree /\ screen.empty = Screen.empty
        /\ Len(screen.changed) = Len(Screen.changed)
        /\ \A i \in DOMAIN screen.changed : screen.changed[i].file = Screen.changed[i].file

(* The row selected is on the screen, in the pane that has the focus, and  *)
(* the panes, the rule and a notice have lines of their own.               *)
SelectionShown ==
    /\ 1 + panes.tree + panes.divider + panes.changed
          + (IF failure_notice \/ status_is_stale THEN 1 ELSE 0) <= (IF height < 2 THEN 2 ELSE height)
    /\ (selection # None /\ panes.tree # 0) => \E i \in DOMAIN screen.tree : screen.tree[i].band
    /\ (screen.lit /\ changed_files # <<>>) => \E i \in DOMAIN screen.changed : screen.changed[i].band

(* A row of the tree whose file is on the disk and not hidden stays, as    *)
(* long as its directory is there and open.                                *)
FilesKept ==
    [][\A f \in Files :
          (nodes[f] # None /\ OnDisk(f) /\ VisibleNow(f)
             /\ Parent(f) \in {Root} \cup expanded) => nodes'[f] # None]_vars
=============================================================================
