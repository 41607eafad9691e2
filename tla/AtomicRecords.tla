---------------------------- MODULE AtomicRecords ----------------------------
(***************************************************************************)
(* What with_locked_state() of src/src/host/dock_state.rs promises: every  *)
(* update is applied in one step to the records as they are at that moment, *)
(* or not at all, whatever other hook processes do and wherever they die.  *)
(***************************************************************************)
EXTENDS DockRecords

CONSTANTS Procs,        \* hook processes: toggle, restore and on-event
          NoRequest

VARIABLES records,      \* the contents of docks.json
          request       \* the update each process wants to make

vars == <<records, request>>

Init == /\ records = EmptyFile
        /\ request = [p \in Procs |-> NoRequest]

Submit(p, r) == /\ request[p] = NoRequest
                /\ request' = [request EXCEPT ![p] = r]
                /\ UNCHANGED records

Apply(p) == /\ request[p] # NoRequest
            /\ records' = Applied(request[p], records)
            /\ request' = [request EXCEPT ![p] = NoRequest]

(* The lock times out, a file operation fails, or the process dies.        *)
GiveUp(p) == /\ request[p] # NoRequest
             /\ request' = [request EXCEPT ![p] = NoRequest]
             /\ UNCHANGED records

Next == \E p \in Procs : Apply(p) \/ GiveUp(p) \/ \E r \in Requests : Submit(p, r)

Spec == Init /\ [][Next]_vars
=============================================================================
