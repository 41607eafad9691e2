----------------------------- MODULE LatestWins -----------------------------
(***************************************************************************)
(* What the background executor of herdr-context promises its caller, with *)
(* no lane, no channel and no worker thread in sight: one mailbox per job  *)
(* key that remembers the newest accepted generation and hands back that   *)
(* generation and nothing older ("keyed, latest-wins jobs", the first line *)
(* of src/src/worker/mod.rs).  WorkerRuntime implements this module.       *)
(***************************************************************************)
EXTENDS Integers

CONSTANTS Keys, Generations

Unset == -1

VARIABLES newest,     \* the newest accepted generation of each key
          delivered,  \* the generation the caller last received for each key
          closed      \* the caller has shut the executor down

absVars == <<newest, delivered, closed>>

Init == /\ newest = [k \in Keys |-> Unset]
        /\ delivered = [k \in Keys |-> Unset]
        /\ closed = FALSE

(* A submission is accepted only if it is newer than every accepted one.   *)
Accept(k, g) == /\ ~closed
                /\ g > newest[k]
                /\ newest' = [newest EXCEPT ![k] = g]
                /\ UNCHANGED <<delivered, closed>>

(* The caller receives the newest accepted generation, once.               *)
Deliver(k) == /\ ~closed
              /\ delivered[k] < newest[k]
              /\ delivered' = [delivered EXCEPT ![k] = newest[k]]
              /\ UNCHANGED <<newest, closed>>

Close == /\ ~closed
         /\ closed' = TRUE
         /\ UNCHANGED <<newest, delivered>>

(* Once closed the executor forgets what it had accepted.                  *)
Forget == /\ closed
          /\ newest' = [k \in Keys |-> Unset]
          /\ UNCHANGED <<delivered, closed>>

Next == \/ \E k \in Keys, g \in Generations : Accept(k, g)
        \/ \E k \in Keys : Deliver(k)
        \/ Close
        \/ Forget

Spec == Init /\ [][Next]_absVars

(* While the caller keeps polling, the newest generation is handed back    *)
(* unless it is superseded or the executor is closed first.                *)
FairSpec == Spec /\ \A k \in Keys : WF_absVars(Deliver(k))
=============================================================================
