--------------------------- MODULE MCWorkerRuntime ---------------------------
(***************************************************************************)
(* Instances of WorkerRuntime for TLC: the lane of each key.  Keys of one  *)
(* lane are never told apart, but a run with liveness takes no symmetry.   *)
(***************************************************************************)
EXTENDS WorkerRuntime

CONSTANTS HighKeys, LowKeys

MCKeys == HighKeys \cup LowKeys
MCPriorityOf == [k \in MCKeys |-> IF k \in HighKeys THEN "high" ELSE "low"]
=============================================================================
