---------------------------- MODULE MCChangesPane ----------------------------
(***************************************************************************)
(* The Files view over a workspace of a file at the root and one in a      *)
(* directory; the first is deleted and comes back, or the second is new in *)
(* the index and nothing else has changed.                                 *)
(***************************************************************************)
EXTENDS ChangesPane, TLC

MCDirs == {<<2>>}
MCFiles == {<<1>>, <<2, 1>>}
MCIgnored == {<<2, 1>>}
State(head, index, work) == [head |-> head, index |-> index, work |-> work, conflict |-> "no"]
Same == State("file", "file", "file")
Gone == State("file", "file", "absent")
MCRepositories == {[f \in MCFiles |-> Same], [f \in MCFiles |-> IF f = <<1>> THEN Gone ELSE Same]}
Added == State("absent", "file", "file")
MCAddedBelow == {[f \in MCFiles |-> IF f = <<1>> THEN Same ELSE Added]}
=============================================================================
