---------------------------- MODULE WorkerRuntime ----------------------------
(***************************************************************************)
(* The bounded background executor of src/src/worker/mod.rs.  The main     *)
(* thread submits keyed jobs and polls for completions; two lane threads,  *)
(* high and low, each drain a bounded job channel and push completions     *)
(* into one bounded result channel, on which they block when it is full.   *)
(*                                                                         *)
(* The rejections of submit() (ShuttingDown, RejectedStale, Backpressure)  *)
(* leave every variable alone, so they are stuttering steps here.  A task  *)
(* is its key and its generation; whether it returned or panicked is       *)
(* payload of the completion, which is sent either way.                    *)
(***************************************************************************)
EXTENDS Integers, Sequences, FiniteSets

CONSTANTS Keys,          \* job keys: a kind and a root directory
          Generations,   \* generation numbers callers may submit
          PriorityOf,    \* the lane of a key: every caller fixes it per job kind
          HighCapacity,  \* slots of the job channel of the high lane
          LowCapacity    \* slots of the job channel of the low lane

Lanes == {"high", "low"}

ASSUME KeysAssumption == IsFiniteSet(Keys)
ASSUME GenerationsAssumption == Generations \subseteq Nat
ASSUME PriorityAssumption == PriorityOf \in [Keys -> Lanes]
ASSUME CapacityAssumption == HighCapacity \in Nat \ {0} /\ LowCapacity \in Nat \ {0}

Unset == -1
Job == [key : Keys, generation : Generations]
NoJob == <<>>

LaneCapacity(l) == IF l = "high" THEN HighCapacity ELSE LowCapacity

(* Room for every job the lanes can hold, queued or running.               *)
ResultCapacity == HighCapacity + LowCapacity + 2

VARIABLES
    active,     \* keys with a job in a lane, in a worker or in the results
    latest,     \* newest accepted generation of each key
    pending,    \* generation waiting behind the active job of each key
    queue,      \* the job channel of each lane
    worker,     \* what each lane thread is doing
    held,       \* the job each lane thread took from its channel
    results,    \* the result channel
    main,       \* what the main thread is doing
    call,       \* the polling call it is in
    pumping,    \* keys pump_pending() has still to visit
    delivered   \* newest generation handed to the caller (history)

laneVars == <<queue, worker, held>>
mainVars == <<active, latest, pending, main, call, pumping, delivered>>
vars == <<active, latest, pending, queue, worker, held, results,
          main, call, pumping, delivered>>

(* shutdown() sets shutting_down and the shared cancellation flag, and the *)
(* flag stays set.                                                         *)
ShuttingDown == main \in {"joinHigh", "joinLow", "stopped"}

MutSenderOpen(l) == main # "stopped"

(* A lane's sender is dropped by stop(), first the high lane's.            *)
SenderOpen(l) == IF l = "high" THEN ~ShuttingDown
                               ELSE main \notin {"joinLow", "stopped"}

Holds(l) == worker[l] \in {"running", "sending"}

PendingKeys == {k \in Keys : pending[k] # Unset}
Outstanding == Cardinality(active \cup PendingKeys)
HasRoom(l) == Len(queue[l]) < LaneCapacity(l)

Init == /\ active = {}
        /\ latest = [k \in Keys |-> Unset]
        /\ pending = [k \in Keys |-> Unset]
        /\ queue = [l \in Lanes |-> <<>>]
        /\ worker = [l \in Lanes |-> "receiving"]
        /\ held = [l \in Lanes |-> NoJob]
        /\ results = <<>>
        /\ main = "idle"
        /\ call = "try_recv"
        /\ pumping = {}
        /\ delivered = [k \in Keys |-> Unset]

-----------------------------------------------------------------------------
(* The main thread: submit().                                              *)

Enqueue(k, g) ==
    queue' = [queue EXCEPT ![PriorityOf[k]] = Append(@, [key |-> k, generation |-> g])]

(* A newer job for a busy key waits in pending, replacing what waits there.*)
Coalesce(k, g) ==
    /\ main = "idle"
    /\ g > latest[k]
    /\ k \in active \cup PendingKeys
    /\ latest' = [latest EXCEPT ![k] = g]
    /\ pending' = [pending EXCEPT ![k] = g]
    /\ UNCHANGED <<active, laneVars, results, main, call, pumping, delivered>>

MutQueueNewBusy(k, g) ==
    /\ main = "idle"
    /\ g > latest[k]
    /\ k \notin PendingKeys
    /\ Outstanding < ResultCapacity
    /\ HasRoom(PriorityOf[k])
    /\ Enqueue(k, g)
    /\ latest' = [latest EXCEPT ![k] = g]
    /\ active' = active \cup {k}
    /\ UNCHANGED <<pending, worker, held, results, main, call, pumping, delivered>>

(* queue_new(): a job of an idle key goes to its lane, if both the executor *)
(* and the lane have room.                                                 *)
QueueNew(k, g) ==
    /\ main = "idle"
    /\ g > latest[k]
    /\ k \notin active \cup PendingKeys
    /\ Outstanding < ResultCapacity
    /\ HasRoom(PriorityOf[k])
    /\ Enqueue(k, g)
    /\ latest' = [latest EXCEPT ![k] = g]
    /\ active' = active \cup {k}
    /\ UNCHANGED <<pending, worker, held, results, main, call, pumping, delivered>>

-----------------------------------------------------------------------------
(* The main thread: try_recv() and recv_timeout().                         *)

Poll(c) == /\ main = "idle"
           /\ main' = "receiving"
           /\ call' = c
           /\ UNCHANGED <<active, latest, pending, laneVars, results, pumping, delivered>>

MutPumpKey(k, busy) ==
    /\ pending' = [pending EXCEPT ![k] = Unset]
    /\ IF pending[k] # Unset /\ HasRoom(PriorityOf[k])
       THEN Enqueue(k, pending[k]) /\ active' = busy \cup {k}
       ELSE active' = busy /\ UNCHANGED queue

(* pump_key(): move the pending job of k to its lane, or leave it pending  *)
(* when the lane is full.  "busy" is the set of active keys without k.     *)
PumpKey(k, busy) ==
    IF pending[k] # Unset /\ HasRoom(PriorityOf[k])
    THEN /\ Enqueue(k, pending[k])
         /\ pending' = [pending EXCEPT ![k] = Unset]
         /\ active' = busy \cup {k}
    ELSE /\ active' = busy
         /\ UNCHANGED <<pending, queue>>

Return == main' = "idle" /\ call' = "try_recv"

(* accept_completion(): retire the job, start its successor, and hand the  *)
(* completion to the caller only if nothing newer was accepted meanwhile.  *)
AcceptCompletion ==
    /\ main \in {"receiving", "waiting"}
    /\ results # <<>>
    /\ LET done == Head(results) IN
       /\ results' = Tail(results)
       /\ PumpKey(done.key, active \ {done.key})
       /\ IF latest[done.key] = done.generation
          THEN /\ delivered' = [delivered EXCEPT ![done.key] = done.generation]
               /\ Return
          ELSE UNCHANGED <<delivered, main, call>>
    /\ UNCHANGED <<latest, worker, held, pumping>>

MutBeginPump ==
    /\ main = "receiving"
    /\ results = <<>>
    /\ main' = "pumping"
    /\ UNCHANGED <<active, latest, pending, laneVars, results, call, pumping, delivered>>

(* The result channel is empty: pump_pending() takes the keys to visit.    *)
BeginPump ==
    /\ main = "receiving"
    /\ results = <<>>
    /\ main' = "pumping"
    /\ pumping' = PendingKeys \ active
    /\ UNCHANGED <<active, latest, pending, laneVars, results, call, delivered>>

PumpOne(k) ==
    /\ main = "pumping"
    /\ k \in pumping
    /\ PumpKey(k, active)
    /\ pumping' = pumping \ {k}
    /\ UNCHANGED <<latest, worker, held, results, main, call, delivered>>

(* try_recv() returns nothing; recv_timeout() goes on to block.            *)
EndPump ==
    /\ main = "pumping"
    /\ pumping = {}
    /\ IF call = "try_recv" THEN Return ELSE main' = "waiting" /\ UNCHANGED call
    /\ UNCHANGED <<active, latest, pending, laneVars, results, pumping, delivered>>

TimeOut == /\ main = "waiting"
           /\ Return
           /\ UNCHANGED <<active, latest, pending, laneVars, results, pumping, delivered>>

-----------------------------------------------------------------------------
(* The main thread: shutdown().                                            *)

Shutdown ==
    /\ main = "idle"
    /\ main' = "joinHigh"
    /\ pending' = [k \in Keys |-> Unset]
    /\ UNCHANGED <<active, latest, laneVars, results, call, pumping, delivered>>

JoinHigh ==
    /\ main = "joinHigh"
    /\ worker["high"] = "exited"
    /\ main' = "joinLow"
    /\ UNCHANGED <<active, latest, pending, laneVars, results, call, pumping, delivered>>

JoinLow ==
    /\ main = "joinLow"
    /\ worker["low"] = "exited"
    /\ main' = "stopped"
    /\ results' = <<>>
    /\ active' = {}
    /\ latest' = [k \in Keys |-> Unset]
    /\ UNCHANGED <<pending, laneVars, call, pumping, delivered>>

-----------------------------------------------------------------------------
(* A lane thread: run_lane().                                              *)

Start(l) ==
    /\ worker[l] = "receiving"
    /\ queue[l] # <<>>
    /\ ~ShuttingDown
    /\ queue' = [queue EXCEPT ![l] = Tail(@)]
    /\ held' = [held EXCEPT ![l] = Head(queue[l])]
    /\ worker' = [worker EXCEPT ![l] = "running"]
    /\ UNCHANGED <<mainVars, results>>

(* Jobs still queued when the flag is set are taken and dropped.           *)
Skip(l) ==
    /\ worker[l] = "receiving"
    /\ queue[l] # <<>>
    /\ ShuttingDown
    /\ queue' = [queue EXCEPT ![l] = Tail(@)]
    /\ UNCHANGED <<mainVars, worker, held, results>>

(* The task returns or panics: catch_unwind makes both a completion.       *)
Finish(l) ==
    /\ worker[l] = "running"
    /\ worker' = [worker EXCEPT ![l] = "sending"]
    /\ UNCHANGED <<mainVars, queue, held, results>>

(* send() blocks while the result channel is full.                         *)
Send(l) ==
    /\ worker[l] = "sending"
    /\ Len(results) < ResultCapacity
    /\ results' = Append(results, held[l])
    /\ held' = [held EXCEPT ![l] = NoJob]
    /\ worker' = [worker EXCEPT ![l] = "receiving"]
    /\ UNCHANGED <<mainVars, queue>>

Exit(l) ==
    /\ worker[l] = "receiving"
    /\ queue[l] = <<>>
    /\ ~SenderOpen(l)
    /\ worker' = [worker EXCEPT ![l] = "exited"]
    /\ UNCHANGED <<mainVars, queue, held, results>>

LaneStep(l) == Start(l) \/ Skip(l) \/ Finish(l) \/ Send(l) \/ Exit(l)

PollStep == \/ Poll("try_recv")
            \/ AcceptCompletion
            \/ BeginPump
            \/ \E k \in Keys : PumpOne(k)
            \/ EndPump
            \/ TimeOut

Next == \/ \E k \in Keys, g \in Generations : Coalesce(k, g) \/ QueueNew(k, g)
        \/ PollStep
        \/ Poll("recv_timeout")
        \/ Shutdown \/ JoinHigh \/ JoinLow
        \/ \E l \in Lanes : LaneStep(l)

Spec == Init /\ [][Next]_vars

(* Lane threads are scheduled and every task ends (subprocesses have       *)
(* deadlines and tasks poll the flag); the application loop polls while    *)
(* work is outstanding; a join returns once its thread has exited.         *)
Fairness == /\ \A l \in Lanes : WF_vars(LaneStep(l))
            /\ WF_vars(PollStep)
            /\ WF_vars(JoinHigh \/ JoinLow)

FairSpec == Spec /\ Fairness

-----------------------------------------------------------------------------
(* Properties.                                                             *)

TypeOK ==
    /\ active \in SUBSET Keys
    /\ latest \in [Keys -> Generations \cup {Unset}]
    /\ pending \in [Keys -> Generations \cup {Unset}]
    /\ queue \in [Lanes -> Seq(Job)]
    /\ worker \in [Lanes -> {"receiving", "running", "sending", "exited"}]
    /\ held \in [Lanes -> Job \cup {NoJob}]
    /\ \A l \in Lanes : Holds(l) => held[l] \in Job
    /\ results \in Seq(Job)
    /\ main \in {"idle", "receiving", "pumping", "waiting",
                  "joinHigh", "joinLow", "stopped"}
    /\ call \in {"try_recv", "recv_timeout"}
    /\ pumping \in SUBSET Keys
    /\ delivered \in [Keys -> Generations \cup {Unset}]

KeysIn(jobs) == {jobs[i].key : i \in 1..Len(jobs)}
Distinct(jobs) == \A i, j \in 1..Len(jobs) : jobs[i].key = jobs[j].key => i = j

(* At most one job of a key is anywhere between submit() and try_recv():   *)
(* queued, running, or completed and unread.  Two runs of one key never    *)
(* overlap, whatever the caller submits while the first is under way.      *)
OneInFlight ==
    /\ Distinct(results)
    /\ \A l \in Lanes :
          /\ Distinct(queue[l])
          /\ KeysIn(queue[l]) \cap KeysIn(results) = {}
          /\ Holds(l) => held[l].key \notin KeysIn(queue[l]) \cup KeysIn(results)

Carried(job) == \/ \E i \in 1..Len(results) : results[i] = job
                \/ \E l \in Lanes : \/ Holds(l) /\ held[l] = job
                                    \/ \E i \in 1..Len(queue[l]) : queue[l][i] = job

(* The newest accepted generation of a key is never lost: until shutdown   *)
(* it has been handed over, waits in pending, or is carried by a lane, a   *)
(* thread or the result channel.  It is what makes dropping stale          *)
(* completions in accept_completion() safe.                                *)
NewestSurvives ==
    ~ShuttingDown => \A k \in Keys :
        \/ latest[k] \in {delivered[k], pending[k]}
        \/ Carried([key |-> k, generation |-> latest[k]])

(* A lane thread never blocks on the result channel: whenever it has a     *)
(* completion to send there is room, although the main thread may poll     *)
(* rarely and, inside shutdown(), does not poll at all while it joins.     *)
SendNeverBlocks ==
    \A l \in Lanes : worker[l] = "sending" => Len(results) < ResultCapacity

-----------------------------------------------------------------------------
(* The parts of the inductive invariant behind the properties above.       *)

(* What lies in a lane, a thread or the result channel belongs to an       *)
(* active key, and to the lane of that key.                                *)
Ownership ==
    main # "stopped" =>
        /\ KeysIn(results) \subseteq active
        /\ \A l \in Lanes :
              /\ KeysIn(queue[l]) \subseteq {k \in active : PriorityOf[k] = l}
              /\ Holds(l) => held[l].key \in active /\ PriorityOf[held[l].key] = l

(* Which thread states go with which phase of the main thread.             *)
Phases ==
    /\ main # "pumping" => pumping = {}
    /\ pumping \cap active = {}
    /\ ShuttingDown => PendingKeys = {}
    /\ main = "stopped" => results = <<>> /\ active = {}
    /\ main \in {"joinLow", "stopped"} => worker["high"] = "exited"
    /\ main = "stopped" => worker["low"] = "exited"
    /\ \A l \in Lanes : worker[l] = "exited" => queue[l] = <<>> /\ ShuttingDown

(* The jobs of a lane, queued or taken by its thread, and of both lanes.   *)
Load(l) == IF Holds(l) THEN Len(queue[l]) + 1 ELSE Len(queue[l])
LaneCount == Load("high") + Load("low")

(* Jobs under way are counted by active, and what is accepted never        *)
(* exceeds the size of the result channel.                                 *)
Counted ==
    main # "stopped" => /\ LaneCount + Len(results) <= Cardinality(active)
                        /\ Outstanding <= ResultCapacity

(* Generations only move forward: what is on its way is newer than what    *)
(* was delivered and older than what waits behind it.                      *)
Fresh ==
    ~ShuttingDown =>
        /\ \A job \in Job : Carried(job) =>
              /\ delivered[job.key] < job.generation
              /\ job.generation <= latest[job.key]
              /\ pending[job.key] # Unset => job.generation < pending[job.key]
        /\ \A k \in PendingKeys : pending[k] = latest[k] /\ delivered[k] < latest[k]
        /\ \A k \in Keys : delivered[k] <= latest[k]

-----------------------------------------------------------------------------
(* The executor implements the latest-wins mailbox of LatestWins.          *)
Mailbox == INSTANCE LatestWins WITH newest <- latest, closed <- ShuttingDown

ImplementsMailbox == Mailbox!Spec

(* The newest accepted generation of every key reaches the caller unless   *)
(* it is superseded or the executor shut down, as long as somebody polls.  *)
EventuallyDelivers == Mailbox!FairSpec

(* shutdown() returns: joining the lanes never waits for a thread that     *)
(* waits for the joining thread to read the result channel.                *)
ShutdownReturns == (main = "joinHigh") ~> (main = "stopped")
=============================================================================
