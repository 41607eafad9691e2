------------------------------ MODULE FilesTree ------------------------------
(***************************************************************************)
(* The tree of files (src/src/files/tree.rs): what it makes of a listing   *)
(* of one directory, where it hangs the files that are deleted, and what   *)
(* becomes of the path selected.  A path is the sequence of its names;     *)
(* nodes is a function from the paths to the kinds of their nodes, None    *)
(* where there is no node.  The kind of a deleted file is "virtual".       *)
(***************************************************************************)
EXTENDS Naturals, FiniteSets, SequencesExt, FiniteSetsExt

CONSTANTS Dirs, Files,     \* the directories and files the project may have
          None

Root == <<>>
Paths == Dirs \cup Files
Places == Dirs \cup {Root}
Parent(p) == Front(p)
Below(p, d) == IsStrictPrefix(d, p)
Kind(p) == IF p \in Dirs THEN "directory" ELSE "file"

PathsAssumption ==
    /\ Root \notin Paths
    /\ Dirs \cap Files = {}
    /\ IsFiniteSet(Paths) /\ Paths \subseteq Seq(Nat)
    /\ \A p \in Paths : \A k \in 0..(Len(p) - 1) : SubSeq(p, 1, k) \in Places

PathLess(p, q) == \/ IsStrictPrefix(p, q)
                  \/ \E i \in DOMAIN p \cap DOMAIN q :
                       SubSeq(p, 1, i - 1) = SubSeq(q, 1, i - 1) /\ p[i] < q[i]

(* A set in a row, each element behind those that come before it.          *)
InOrder(S, before) ==
    [i \in 1..Cardinality(S) |-> CHOOSE x \in S : Cardinality({y \in S : <<y, x>> \in before}) = i - 1]
InPathOrder(S) == InOrder(S, {pair \in S \X S : PathLess(pair[1], pair[2])})

(* display_parent(): a deleted file hangs below the nearest directory.     *)
DisplayParent(nodes, p) ==
    LET above == {d \in Dirs : Below(p, d) /\ nodes[d] = "directory"}
    IN  IF nodes[p] # "virtual" THEN Parent(p)
        ELSE IF above = {} THEN Root
        ELSE CHOOSE d \in above : \A e \in above : IsPrefix(e, d)

(* ordered_first_path(): directories come first, then the order of paths.  *)
OrderedFirst(nodes) ==
    LET top == {p \in Paths : nodes[p] # None /\ DisplayParent(nodes, p) = Root}
        dirs == {p \in top : nodes[p] = "directory"}
        rows == IF dirs # {} THEN dirs ELSE top
    IN  IF top = {} THEN None
        ELSE CHOOSE p \in rows : \A q \in rows \ {p} : PathLess(p, q)

(* restore_selection(): what is gone gives way to the nearest path above.  *)
RestoreSelection(nodes, selected) ==
    LET above == {d \in Dirs : Below(selected, d) /\ nodes[d] # None}
    IN  IF selected = None THEN OrderedFirst(nodes)
        ELSE IF nodes[selected] # None THEN selected
        ELSE IF above = {} THEN OrderedFirst(nodes)
        ELSE CHOOSE d \in above : \A e \in above : IsPrefix(e, d)

(* apply_directory(): deleted files stay, what is not listed goes with all *)
(* below it.                                                               *)
ListedNodes(nodes, d, entries) ==
    LET removed == {p \in Paths : /\ Parent(p) = d /\ p \notin entries
                                  /\ nodes[p] \notin {None, "virtual"}}
    IN  [p \in Paths |-> IF p \in entries THEN Kind(p)
                         ELSE IF nodes[p] = "virtual" THEN "virtual"
                         ELSE IF p \in removed \/ \E r \in removed : Below(p, r) THEN None
                         ELSE nodes[p]]

(* sync_status_overlay_from(), and the end of merge_workspace_status():    *)
(* these deleted files replace those of the tree.                          *)
SyncOverlay(nodes, deleted) ==
    [p \in Paths |-> IF p \in deleted THEN "virtual"
                     ELSE IF nodes[p] = "virtual" THEN None ELSE nodes[p]]
=============================================================================
