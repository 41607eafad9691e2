---------------------------- MODULE DockStateFile ----------------------------
(***************************************************************************)
(* How hook processes update docks.json: with_locked_state() of            *)
(* src/src/host/dock_state.rs, one file operation per step.  A process     *)
(* locks docks.lock, reads docks.json, applies its update, rewrites        *)
(* docks.json.tmp and renames it over docks.json.  It may die anywhere:    *)
(* its lock is released by the system, its temporary file stays behind.    *)
(***************************************************************************)
EXTENDS DockRecords

CONSTANTS Procs,        \* hook processes: toggle, restore and on-event
          NoProc,       \* nobody holds the lock
          NoRequest,
          Torn,         \* a file that is only partly written
          Missing       \* no such file

ASSUME ProcsAssumption == NoProc \notin Procs
ASSUME MarksAssumption == /\ Torn \notin Files /\ Missing \notin Files /\ Torn # Missing
                          /\ NoRequest \notin Requests

VARIABLES disk,         \* docks.json
          tmp,          \* docks.json.tmp
          lock,         \* who holds docks.lock
          pc,           \* where each process is in with_locked_state()
          request,      \* the update it makes
          buf           \* the state it is about to write

vars == <<disk, tmp, lock, pc, request, buf>>

Init == /\ disk = EmptyFile
        /\ tmp = Missing
        /\ lock = NoProc
        /\ pc = [p \in Procs |-> "idle"]
        /\ request = [p \in Procs |-> NoRequest]
        /\ buf = [p \in Procs |-> EmptyFile]

Goto(p, l) == pc' = [pc EXCEPT ![p] = l]

(* Leaving with_locked_state(): the lock file is closed.                   *)
Leave(p) == /\ pc' = [pc EXCEPT ![p] = "idle"]
            /\ request' = [request EXCEPT ![p] = NoRequest]
            /\ buf' = [buf EXCEPT ![p] = EmptyFile]
            /\ lock' = IF lock = p THEN NoProc ELSE lock

Submit(p, r) == /\ pc[p] = "idle"
                /\ Goto(p, "locking")
                /\ request' = [request EXCEPT ![p] = r]
                /\ UNCHANGED <<disk, tmp, lock, buf>>

MutAcquire(p) == /\ pc[p] = "locking"
                 /\ lock' = p
                 /\ Goto(p, "loading")
                 /\ UNCHANGED <<disk, tmp, request, buf>>

(* acquire_lock(): try_lock() until it succeeds or the deadline passes.    *)
Acquire(p) == /\ pc[p] = "locking"
              /\ lock = NoProc
              /\ lock' = p
              /\ Goto(p, "loading")
              /\ UNCHANGED <<disk, tmp, request, buf>>

TimeOut(p) == /\ pc[p] = "locking"
              /\ lock \notin {p, NoProc}
              /\ Leave(p)
              /\ UNCHANGED <<disk, tmp>>

(* load(): a file that cannot be parsed counts as an empty one.            *)
Loaded == IF disk \in {Torn, Missing} THEN EmptyFile ELSE Clamped(disk)

MutLoad(p) ==
    /\ pc[p] = "loading"
    /\ IF Writes(request[p], Loaded)
       THEN /\ buf' = [buf EXCEPT ![p] = Result(request[p], EmptyFile)]
            /\ Goto(p, "truncating")
            /\ UNCHANGED <<lock, request>>
       ELSE Leave(p)
    /\ UNCHANGED <<disk, tmp>>

(* Read the file and apply the update; nothing is written when the update  *)
(* changes nothing or is refused.                                          *)
Load(p) ==
    /\ pc[p] = "loading"
    /\ IF Writes(request[p], Loaded)
       THEN /\ buf' = [buf EXCEPT ![p] = Result(request[p], Loaded)]
            /\ Goto(p, "truncating")
            /\ UNCHANGED <<lock, request>>
       ELSE Leave(p)
    /\ UNCHANGED <<disk, tmp>>

(* write_state_file(): open and truncate, write, rename.                   *)
Truncate(p) == /\ pc[p] = "truncating"
               /\ tmp' = Torn
               /\ Goto(p, "writing")
               /\ UNCHANGED <<disk, lock, request, buf>>

Write(p) == /\ pc[p] = "writing"
            /\ tmp' = buf[p]
            /\ Goto(p, "renaming")
            /\ UNCHANGED <<disk, lock, request, buf>>

Rename(p) == /\ pc[p] = "renaming"
             /\ disk' = tmp
             /\ tmp' = Missing
             /\ Leave(p)

(* A file operation fails.                                                 *)
Fail(p) == /\ pc[p] \in {"truncating", "writing", "renaming"}
           /\ Leave(p)
           /\ UNCHANGED <<disk, tmp>>

Crash(p) == /\ pc[p] # "idle"
            /\ Leave(p)
            /\ UNCHANGED <<disk, tmp>>

Step(p) == Acquire(p) \/ TimeOut(p) \/ Load(p) \/ Truncate(p) \/ Write(p) \/ Rename(p)

Next == \E p \in Procs : \/ \E r \in Requests : Submit(p, r)
                         \/ Step(p) \/ Fail(p) \/ Crash(p)

Spec == Init /\ [][Next]_vars

(* A process keeps running, unless it dies: a retry loop with a deadline   *)
(* and a straight line of file operations.                                 *)
FairSpec == Spec /\ \A p \in Procs : WF_vars(Step(p))

-----------------------------------------------------------------------------
(* Properties.                                                             *)

Writing(p) == pc[p] \in {"truncating", "writing", "renaming"}

TypeOK ==
    /\ disk \in Files
    /\ tmp \in Files \cup {Torn, Missing}
    /\ lock \in Procs \cup {NoProc}
    /\ pc \in [Procs -> {"idle", "locking", "loading", "truncating", "writing", "renaming"}]
    /\ request \in [Procs -> Requests \cup {NoRequest}]
    /\ \A p \in Procs : request[p] = NoRequest <=> pc[p] = "idle"
    /\ buf \in [Procs -> Files]

(* One process at a time is between taking docks.lock and leaving it, and  *)
(* what the holder will rename is exactly its update of the records as     *)
(* they are now: nobody changed them since it read them.                   *)
Exclusive ==
    \A p \in Procs :
        /\ pc[p] = "loading" \/ Writing(p) => lock = p
        /\ Writing(p) => /\ Writes(request[p], Clamped(disk))
                         /\ buf[p] = Result(request[p], Clamped(disk))
        /\ pc[p] = "renaming" => tmp = buf[p]

(* docks.json changes only by one whole update of one process, applied to  *)
(* the latest records: no update of another process, of this server or of  *)
(* another one, is ever overwritten, and no torn file is ever published.   *)
Atomic == INSTANCE AtomicRecords WITH records <- disk
ImplementsAtomic == Atomic!Spec

(* A process that wants to update the file is never stuck behind others:   *)
(* its update is made or given up within the lock deadline.                *)
UpdatesEnd == \A p \in Procs : pc[p] # "idle" ~> pc[p] = "idle"
=============================================================================
