--------------------------- MODULE MCFilesRuntime ---------------------------
(***************************************************************************)
(* Instances of FilesRuntime for TLC: a directory with an ignored one      *)
(* below it.                                                               *)
(***************************************************************************)
EXTENDS FilesRuntime

MCDirs == {<<1>>, <<1, 2>>}
MCIgnored == {<<1, 2>>}
MCConfigurations == {[show_ignored |-> FALSE, cadence |-> "adaptive"],
                     [show_ignored |-> TRUE, cadence |-> "manual"]}
=============================================================================
