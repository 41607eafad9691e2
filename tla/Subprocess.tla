----------------------------- MODULE Subprocess -----------------------------
(***************************************************************************)
(* One command at a time, as it is run: run() of src/src/worker/process.rs *)
(* for git and jj ("worker") and run_command() of src/src/host/client.rs   *)
(* for Herdr's own ("client").  The command leads a process group and may  *)
(* fork a child that inherits both pipes; a thread reads each of them, and *)
(* the caller looks at the child, the limits and the threads in turn.      *)
(*                                                                         *)
(* Output is counted in buffers of read_limited(); a pipe holds one.       *)
(***************************************************************************)
EXTENDS Naturals

CONSTANTS Limit,         \* buffers a stream may yield: stdout_limit, MAX_COMMAND_OUTPUT
          MayLeave       \* whether a child can leave the process group

ASSUME SubprocessAssumption == Limit \in Nat /\ MayLeave \in BOOLEAN

Streams == {"stdout", "stderr"}

VARIABLES
    runner,              \* which of the two functions runs
    at,                  \* where it is
    reaped,              \* exit_status is known
    result,
    leader, status,      \* the command: "running", "exited"; how it exits
    child,               \* "none", "running", "left" (the group), "gone"
    holding,             \* the child holds the pipes
    unread, read,        \* buffers in the pipe, and read from it
    reader,              \* the threads: "reading", "eof", "over"
    expired, cancelled

process == <<leader, status, child, holding>>
streams == <<unread, read, reader>>
control == <<runner, at, reaped, result>>
subprocess == <<control, process, streams, expired, cancelled>>

Each(value) == [s \in Streams |-> value]

SubprocessInit ==
    /\ runner = "worker" /\ at = "idle" /\ reaped = FALSE /\ result = "none"
    /\ leader = "exited" /\ status = "success" /\ child = "none" /\ holding = FALSE
    /\ unread = Each(0) /\ read = Each(0) /\ reader = Each("eof")
    /\ expired = FALSE /\ cancelled = FALSE

(* spawn_command(): the command is started, or is not when its file cannot *)
(* be run or stays busy, or the caller is cancelled before.                *)
Starts(function) ==
    /\ runner' = function
    /\ reaped' = FALSE /\ expired' = FALSE
    /\ child' = "none" /\ holding' = FALSE /\ status' = "success"
    /\ \/ /\ function = "worker" => ~cancelled
          /\ at' = "waiting" /\ result' = "none" /\ leader' = "running"
          /\ unread' = Each(0) /\ read' = Each(0) /\ reader' = Each("reading")
       \/ /\ at' = "done" /\ result' = "not_started" /\ leader' = "exited"
          /\ UNCHANGED streams
    /\ UNCHANGED cancelled

-----------------------------------------------------------------------------
(* The command and its child.                                              *)

Alive == child \in {"running", "left"}
Open == leader = "running" \/ (Alive /\ holding)

Forks == /\ leader = "running"
         /\ child = "none"
         /\ child' \in {"running"} \cup (IF MayLeave THEN {"left"} ELSE {})
         /\ holding' = TRUE
         /\ UNCHANGED <<control, leader, status, streams, expired, cancelled>>
ChildRedirects == /\ Alive /\ holding
                  /\ holding' = FALSE
                  /\ UNCHANGED <<control, leader, status, child, streams, expired, cancelled>>
ChildEnds == /\ Alive
             /\ child' = "gone"
             /\ UNCHANGED <<control, leader, status, holding, streams, expired, cancelled>>
LeaderExits(code) == /\ leader = "running"
                     /\ leader' = "exited"
                     /\ status' = code
                     /\ UNCHANGED <<control, child, holding, streams, expired, cancelled>>
Writes(s) == /\ Open
             /\ reader[s] = "reading" /\ unread[s] = 0
             /\ unread' = [unread EXCEPT ![s] = 1]
             /\ UNCHANGED <<control, process, read, reader, expired, cancelled>>

-----------------------------------------------------------------------------
(* The threads: read_limited(), read_bounded().                            *)

Reads(s) ==
    /\ reader[s] = "reading"
    /\ unread[s] = 1
    /\ unread' = [unread EXCEPT ![s] = 0]
    /\ IF read[s] = Limit
       THEN reader' = [reader EXCEPT ![s] = "over"] /\ UNCHANGED read
       ELSE read' = [read EXCEPT ![s] = @ + 1] /\ UNCHANGED reader
    /\ UNCHANGED <<control, process, expired, cancelled>>
MeetsEnd(s) ==
    /\ reader[s] = "reading"
    /\ unread[s] = 0
    /\ ~Open
    /\ reader' = [reader EXCEPT ![s] = "eof"]
    /\ UNCHANGED <<control, process, unread, read, expired, cancelled>>

-----------------------------------------------------------------------------
(* The caller.                                                             *)

Expires == /\ at \notin {"idle", "done"}
           /\ ~expired
           /\ expired' = TRUE
           /\ UNCHANGED <<control, process, streams, cancelled>>

TryWait == /\ at = "waiting"
           /\ reaped' = (leader = "exited")
           /\ at' = "limits"
           /\ UNCHANGED <<runner, result, process, streams, expired, cancelled>>

(* The group is killed: every member that has not left it ends.            *)
Killed == child' = IF child = "running" THEN "gone" ELSE child

(* terminate_group(); the worker then joins both threads.                  *)
Fail(error) ==
    /\ result' = error
    /\ at' = IF runner = "worker" THEN "collecting" ELSE "done"
    /\ reaped' = TRUE
    /\ leader' = "exited"
    /\ status' = IF leader = "running" THEN "killed" ELSE status
    /\ Killed
    /\ UNCHANGED <<runner, holding>>

ReadersEnded == \A s \in Streams : reader[s] # "reading"
Over == \E s \in Streams : reader[s] = "over"

(* Only the worker looks here at the limits, its caller and the deadline.  *)
CheckLimits ==
    /\ at = "limits"
    /\ IF runner = "worker" /\ (Over \/ cancelled \/ expired)
       THEN Fail(IF Over THEN "output_limit" ELSE IF cancelled THEN "cancelled" ELSE "timed_out")
       ELSE at' = "finished" /\ UNCHANGED <<runner, reaped, result, process>>
    /\ UNCHANGED <<streams, expired, cancelled>>

CheckFinished ==
    /\ at = "finished"
    /\ IF reaped /\ ReadersEnded
       THEN at' = "joining" /\ UNCHANGED <<runner, reaped, result, process>>
       ELSE IF runner = "client" /\ expired THEN Fail("timed_out")
       ELSE at' = "waiting" /\ UNCHANGED <<runner, reaped, result, process>>
    /\ UNCHANGED <<streams, expired, cancelled>>

(* fail_and_collect().                                                     *)
Collect == /\ at = "collecting"
           /\ ReadersEnded
           /\ at' = "done"
           /\ UNCHANGED <<runner, reaped, result, process, streams, expired, cancelled>>

(* Mutant: what is left of the group goes on.                              *)
MutJoin == /\ at = "joining"
           /\ ReadersEnded
           /\ result' = IF Over THEN "unreadable" ELSE "output"
           /\ at' = "done"
           /\ UNCHANGED <<runner, reaped, process, streams, expired, cancelled>>

(* join_reader() twice, and terminate_remaining_group().                   *)
Join == /\ at = "joining"
        /\ ReadersEnded
        /\ result' = IF Over THEN "unreadable" ELSE "output"
        /\ at' = "done"
        /\ Killed
        /\ UNCHANGED <<runner, reaped, leader, status, holding, streams, expired, cancelled>>

RunnerSteps == TryWait \/ CheckLimits \/ CheckFinished \/ Collect \/ Join
ReaderSteps == \E s \in Streams : Reads(s) \/ MeetsEnd(s)

-----------------------------------------------------------------------------
(* A command that has ended leaves no member of its group behind           *)
(* (tests/process_safety.rs, "successful_status_kills_background_...").    *)
NoneLeft == at = "done" => leader = "exited" /\ child # "running"

(* With what makes it inductive: when the threads are joined the command   *)
(* has been waited for.                                                    *)
GroupInv == /\ NoneLeft
            /\ reaped => leader = "exited"
            /\ at = "joining" => reaped
            /\ at = "collecting" => leader = "exited" /\ child # "running"

(* A run comes to its end, its threads too, however long the command and   *)
(* its child go on (tests/process_safety.rs, "timeout_kills_descendants_   *)
(* that_keep_status_pipes_open").                                          *)
RunEnds == at # "idle" ~> at \in {"done", "idle"} /\ ReadersEnded
=============================================================================
