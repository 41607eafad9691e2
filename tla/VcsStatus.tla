------------------------------ MODULE VcsStatus ------------------------------
(***************************************************************************)
(* The status of a workspace as git (src/src/vcs/git.rs) and Jujutsu       *)
(* (src/src/vcs/jj.rs) report it, and what the two adapters make of a      *)
(* report: entries of one vocabulary (src/src/vcs/status.rs).              *)
(*                                                                         *)
(* A file is in three places: head is the commit it is compared with,      *)
(* index is git's index or Jujutsu's last snapshot, work is the disk.  Of  *)
(* its contents only the type and whether two are equal is kept.  A report *)
(* is the set of its records: whatever is made of entries is sorted by     *)
(* path, and does not depend on their order.                               *)
(***************************************************************************)
EXTENDS Naturals, FiniteSets

CONSTANTS WorkspaceFiles,      \* the files of the workspace
          MaxStatusEntries,    \* MAX_STATUS_ENTRIES
          None

Contents == {"absent", "file", "other", "symlink"}
FileType(c) == IF c = "other" THEN "file" ELSE c

(* The stages of a conflict in git, and the commits of Jujutsu that hold   *)
(* one.                                                                    *)
GitConflicts == {"DD", "AU", "UD", "UA", "DU", "AA", "UU"}
JujutsuConflicts == {"head", "index", "both"}
File == [head : Contents, index : Contents, work : Contents,
         conflict : {"no"} \cup GitConflicts \cup JujutsuConflicts]

(* status_order(), which combined_kind() follows as well.                  *)
Order == [Conflicted |-> 0, Renamed |-> 1, Copied |-> 2, TypeChanged |-> 3, Deleted |-> 4,
          Added |-> 5, Modified |-> 6, Untracked |-> 7]
Kinds == DOMAIN Order
Strongest(kinds) == CHOOSE k \in kinds : \A l \in kinds : Order[k] <= Order[l]

-----------------------------------------------------------------------------
(* What the tools find between two trees, functions of the files.          *)

Letter(old, new) == IF old = new THEN "."
                    ELSE IF old = "absent" THEN "A"
                    ELSE IF new = "absent" THEN "D"
                    ELSE IF FileType(old) # FileType(new) THEN "T" ELSE "M"

(* A file that was added may have come from one that was removed, of the   *)
(* same contents; of several that came from it one is its new name.        *)
Sources(old, new, f) ==
    {s \in WorkspaceFiles : /\ old[f] = "absent" /\ new[f] # "absent"
                            /\ old[s] = new[f] /\ new[s] = "absent"}
SourceOf(old, new, f) ==
    IF Sources(old, new, f) = {} THEN None ELSE CHOOSE s \in Sources(old, new, f) : TRUE
NewName(old, new, s) ==
    LET heirs == {f \in WorkspaceFiles : SourceOf(old, new, f) = s}
    IN  IF heirs = {} THEN None ELSE CHOOSE f \in heirs : TRUE
MoveLetter(old, new, f) ==
    IF SourceOf(old, new, f) = None THEN Letter(old[f], new[f])
    ELSE IF NewName(old, new, SourceOf(old, new, f)) = f THEN "R" ELSE "C"

-----------------------------------------------------------------------------
(* git status --porcelain=v2 --untracked-files=all.                        *)

GitRecords(repo) ==
    LET head == [f \in WorkspaceFiles |-> repo[f].head]
        index == [f \in WorkspaceFiles |-> repo[f].index]
        merged == {f \in WorkspaceFiles : repo[f].conflict = "no"}
        moved == {f \in merged : NewName(head, index, f) # None}
        X(f) == MoveLetter(head, index, f)
        Y(f) == IF index[f] = "absent" THEN "." ELSE Letter(index[f], repo[f].work)
        tracked == {f \in merged \ moved : X(f) # "." \/ Y(f) # "."}
    IN  {[tag |-> "u", xy |-> repo[f].conflict, x |-> ".", y |-> ".", path |-> f, source |-> None] :
           f \in WorkspaceFiles \ merged}
        \cup {[tag |-> IF SourceOf(head, index, f) = None THEN "1" ELSE "2", xy |-> "no",
               x |-> X(f), y |-> Y(f), path |-> f, source |-> SourceOf(head, index, f)] :
                f \in tracked}
        \cup {[tag |-> "?", xy |-> "no", x |-> ".", y |-> ".", path |-> f, source |-> None] :
                f \in {g \in merged : index[g] = "absent" /\ repo[g].work # "absent"}}

(* map_state() of the two bytes of a status field.                         *)
MapState(letter) ==
    CASE letter = "." -> None         [] letter = "M" -> "Modified"
      [] letter = "A" -> "Added"      [] letter = "D" -> "Deleted"
      [] letter = "R" -> "Renamed"    [] letter = "C" -> "Copied"
      [] letter = "T" -> "TypeChanged" [] letter = "U" -> "Conflicted"
Stages(xy) ==
    CASE xy = "DD" -> <<"D", "D">> [] xy = "AU" -> <<"A", "U">> [] xy = "UD" -> <<"U", "D">>
      [] xy = "UA" -> <<"U", "A">> [] xy = "DU" -> <<"D", "U">> [] xy = "AA" -> <<"A", "A">>
      [] xy = "UU" -> <<"U", "U">>

Entry(path, source, kind, index, work) ==
    [path |-> path, source |-> source, kind |-> kind, index |-> index, work |-> work]

(* combined_kind().                                                        *)
CombinedKind(index, work) == Strongest({index, work} \ {None})

(* parse_ordinary(), parse_rename_or_copy(), parse_unmerged() and          *)
(* parse_untracked().                                                      *)
GitEntry(r) ==
    CASE r.tag = "1" -> Entry(r.path, None, CombinedKind(MapState(r.x), MapState(r.y)),
                              MapState(r.x), MapState(r.y))
      [] r.tag = "2" -> Entry(r.path, r.source, MapState(r.x), MapState(r.x), MapState(r.y))
      [] r.tag = "u" -> Entry(r.path, None, "Conflicted", MapState(Stages(r.xy)[1]),
                              MapState(Stages(r.xy)[2]))
      [] r.tag = "?" -> Entry(r.path, None, "Untracked", None, "Untracked")

-----------------------------------------------------------------------------
(* jj diff -r @ --template: the working copy's commit with its parent.     *)
(* Fresh takes a snapshot first, Passive ignores the working copy.         *)

JujutsuTree(repo, mode) ==
    [f \in WorkspaceFiles |-> IF mode = "Fresh" THEN repo[f].work ELSE repo[f].index]

JujutsuRecords(repo, mode) ==
    LET head == [f \in WorkspaceFiles |-> repo[f].head]
        tree == JujutsuTree(repo, mode)
        source_conflict(f) == repo[f].conflict \in {"head", "both"}
        target_conflict(f) == repo[f].conflict \in {"index", "both"}
        odd == {f \in WorkspaceFiles : repo[f].conflict # "no"}
        moved == {f \in WorkspaceFiles \ odd : NewName(head, tree, f) # None}
        changed == {f \in WorkspaceFiles \ (odd \cup moved) : head[f] # tree[f]}
                   \cup {f \in odd : source_conflict(f) # target_conflict(f)}
    IN  {[status |-> IF f \in odd THEN "M" ELSE IF MoveLetter(head, tree, f) = "T" THEN "M"
                     ELSE MoveLetter(head, tree, f),
          source |-> IF f \in odd \/ SourceOf(head, tree, f) = None THEN f
                     ELSE SourceOf(head, tree, f),
          target |-> f,
          source_conflict |-> source_conflict(f), target_conflict |-> target_conflict(f),
          source_type |-> IF source_conflict(f) THEN "conflict" ELSE FileType(head[f]),
          target_type |-> IF target_conflict(f) THEN "conflict" ELSE FileType(tree[f])] :
            f \in changed}

(* parse_templated_diff(), one record that is not passed over.             *)
JujutsuKind(r) ==
    IF r.source_conflict \/ r.target_conflict \/ "conflict" \in {r.source_type, r.target_type}
    THEN "Conflicted"
    ELSE IF /\ MapState(r.status) = "Modified"
            /\ "absent" \notin {r.source_type, r.target_type} /\ r.source_type # r.target_type
    THEN "TypeChanged"
    ELSE MapState(r.status)
JujutsuEntry(r) ==
    Entry(r.target, IF r.status \in {"R", "C"} THEN r.source ELSE None, JujutsuKind(r),
          IF r.source_conflict THEN "Conflicted" ELSE None,
          IF r.target_conflict THEN "Conflicted" ELSE None)
NoFile(r) == {r.source_type, r.target_type} \subseteq {"absent", "tree"}

-----------------------------------------------------------------------------
(* The snapshot of a status command; None when there are too many entries, *)
(* for then it fails as a whole.  A backend is "git", or Jujutsu's mode.   *)

GitSnapshot(repo) ==
    LET records == GitRecords(repo)
    IN  IF Cardinality(records) > MaxStatusEntries THEN None
        ELSE [entries |-> {GitEntry(r) : r \in records}, stale |-> FALSE]

JujutsuSnapshot(repo, mode) ==
    LET records == JujutsuRecords(repo, mode)
    IN  IF Cardinality(records) > MaxStatusEntries THEN None
        ELSE [entries |-> {JujutsuEntry(r) : r \in {q \in records : ~NoFile(q)}},
              stale |-> mode = "Passive"]

Snapshot(backend, repo) ==
    IF backend = "git" THEN GitSnapshot(repo) ELSE JujutsuSnapshot(repo, backend)

-----------------------------------------------------------------------------
(* For the properties: the mark a file should bear, told without records;  *)
(* None when it has not changed.                                           *)

Differences(old, new, f) ==
    LET from == IF old[f] = new[f] THEN {}
                ELSE IF old[f] = "absent" THEN {"Added"}
                ELSE IF new[f] = "absent" THEN {"Deleted"}
                ELSE IF FileType(old[f]) # FileType(new[f]) THEN {"TypeChanged"} ELSE {"Modified"}
    IN  IF SourceOf(old, new, f) = None THEN from
        ELSE IF NewName(old, new, SourceOf(old, new, f)) = f THEN {"Renamed"} ELSE {"Copied"}

Stages3(backend, repo) ==
    LET head == [f \in WorkspaceFiles |-> repo[f].head]
        index == [f \in WorkspaceFiles |-> repo[f].index]
        work == [f \in WorkspaceFiles |-> repo[f].work]
    IN  CASE backend = "git" -> <<head, index, work>>
          [] backend = "Fresh" -> <<head, work, work>>
          [] backend = "Passive" -> <<head, index, index>>

MarkOf(backend, repo, f) ==
    LET trees == Stages3(backend, repo)
        untracked == trees[2][f] = "absent" /\ trees[3][f] # "absent"
        between == IF trees[2][f] = "absent" THEN {} ELSE Differences(trees[2], trees[3], f)
        moved == NewName(trees[1], trees[2], f) # None
        marks == (IF moved THEN {} ELSE Differences(trees[1], trees[2], f))
                 \cup between \cup (IF untracked THEN {"Untracked"} ELSE {})
    IN  CASE repo[f].conflict = "both" -> None
          [] repo[f].conflict \notin {"no", "both"} -> "Conflicted"
          [] OTHER -> IF marks = {} THEN None ELSE Strongest(marks)

(* The kinds of the files that came from f.                                *)
HeirMarks(backend, repo, f) ==
    LET trees == Stages3(backend, repo)
    IN  {IF NewName(trees[1], trees[2], f) = t THEN "Renamed" ELSE "Copied" :
           t \in {u \in WorkspaceFiles : /\ repo[u].conflict = "no"
                                         /\ SourceOf(trees[1], trees[2], u) = f}}
=============================================================================
