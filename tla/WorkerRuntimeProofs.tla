------------------------- MODULE WorkerRuntimeProofs -------------------------
(***************************************************************************)
(* Machine-checked proofs about WorkerRuntime, for every set of keys, every *)
(* set of generations and every capacity of the lanes.                     *)
(***************************************************************************)
EXTENDS WorkerRuntime, TLAPS, FiniteSetTheorems, SequenceTheorems

(***************************************************************************)
(* Channels: what adding and taking a job does to a channel.               *)
(***************************************************************************)

JobsIn(jobs) == {jobs[i] : i \in 1..Len(jobs)}

(* A job added at the end of a channel adds itself and nothing else.       *)
LEMMA AppendEffect ==
  ASSUME NEW s \in Seq(Job), NEW j \in Job
  PROVE  /\ Append(s, j) \in Seq(Job)
         /\ Len(Append(s, j)) = Len(s) + 1
         /\ JobsIn(Append(s, j)) = JobsIn(s) \cup {j}
         /\ KeysIn(Append(s, j)) = KeysIn(s) \cup {j.key}
         /\ Distinct(s) /\ j.key \notin KeysIn(s) => Distinct(Append(s, j))
<1> DEFINE t == Append(s, j)
<1>1. /\ t \in Seq(Job)
      /\ Len(t) = Len(s) + 1
      /\ Len(s) \in Nat
      /\ \A i \in 1..Len(s) : t[i] = s[i]
      /\ t[Len(s) + 1] = j
  BY DEF Job
<1> HIDE DEF t
<1>2. 1..Len(t) = (1..Len(s)) \cup {Len(s) + 1}
  BY <1>1
<1>3. JobsIn(t) = JobsIn(s) \cup {j}
  BY <1>1, <1>2 DEF JobsIn
<1>4. KeysIn(t) = KeysIn(s) \cup {j.key}
  BY <1>1, <1>2 DEF KeysIn
<1>5. ASSUME Distinct(s), j.key \notin KeysIn(s)
      PROVE  Distinct(t)
  BY <1>1, <1>2, <1>5 DEF Distinct, KeysIn
<1> QED
  BY <1>1, <1>3, <1>4, <1>5 DEF t

(* A job taken from the front of a channel leaves the others in place.     *)
LEMMA TakeEffect ==
  ASSUME NEW s \in Seq(Job), s # <<>>
  PROVE  /\ Head(s) \in Job
         /\ Tail(s) \in Seq(Job)
         /\ Len(Tail(s)) = Len(s) - 1
         /\ Len(s) \in Nat \ {0}
         /\ JobsIn(s) = JobsIn(Tail(s)) \cup {Head(s)}
         /\ KeysIn(s) = KeysIn(Tail(s)) \cup {Head(s).key}
         /\ Distinct(s) => Distinct(Tail(s)) /\ Head(s).key \notin KeysIn(Tail(s))
<1> DEFINE t == Tail(s)
<1>1. /\ Head(s) \in Job
      /\ t \in Seq(Job)
      /\ Len(t) = Len(s) - 1
      /\ \A i \in 1..Len(t) : t[i] = s[i + 1]
      /\ Head(s) = s[1]
      /\ Len(s) \in Nat \ {0}
  BY HeadTailProperties, EmptySeq
<1> HIDE DEF t
<1>2. /\ 1 \in 1..Len(s)
      /\ \A i \in 1..Len(t) : i + 1 \in 1..Len(s) /\ i + 1 # 1 /\ t[i] = s[i + 1]
      /\ \A i \in 1..Len(s) : i = 1 \/ (i - 1 \in 1..Len(t) /\ s[i] = t[i - 1])
  <2>1. ASSUME NEW i \in 1..Len(s), i # 1
        PROVE  i - 1 \in 1..Len(t) /\ s[i] = t[i - 1]
    <3>1. i - 1 \in 1..Len(t)
      BY <1>1, <2>1
    <3>2. t[i - 1] = s[(i - 1) + 1] /\ (i - 1) + 1 = i
      BY <1>1, <3>1
    <3> QED
      BY <3>1, <3>2
  <2> QED
    BY <1>1, <2>1
<1>3. JobsIn(s) = JobsIn(t) \cup {Head(s)}
  <2>1. JobsIn(s) \subseteq JobsIn(t) \cup {Head(s)}
    BY <1>1, <1>2 DEF JobsIn
  <2>2. JobsIn(t) \cup {Head(s)} \subseteq JobsIn(s)
    BY <1>1, <1>2 DEF JobsIn
  <2> QED
    BY <2>1, <2>2
<1>4. KeysIn(s) = KeysIn(t) \cup {Head(s).key}
  <2>1. KeysIn(s) \subseteq KeysIn(t) \cup {Head(s).key}
    BY <1>1, <1>2 DEF KeysIn
  <2>2. KeysIn(t) \cup {Head(s).key} \subseteq KeysIn(s)
    BY <1>1, <1>2 DEF KeysIn
  <2> QED
    BY <2>1, <2>2
<1>5. ASSUME Distinct(s)
      PROVE  Distinct(t) /\ Head(s).key \notin KeysIn(t)
  <2>1. Distinct(t)
    <3> SUFFICES ASSUME NEW i \in 1..Len(t), NEW j \in 1..Len(t), t[i].key = t[j].key
                 PROVE  i = j
      BY DEF Distinct
    <3>1. i + 1 = j + 1
      BY <1>2, <1>5 DEF Distinct
    <3> QED
      BY <3>1
  <2>2. \A i \in 1..Len(t) : t[i].key # Head(s).key
    BY <1>1, <1>2, <1>5 DEF Distinct
  <2> QED
    BY <2>1, <2>2 DEF KeysIn
<1> QED
  BY <1>1, <1>3, <1>4, <1>5 DEF t

LEMMA Carries ==
  ASSUME NEW job
  PROVE  Carried(job) <=> \/ job \in JobsIn(results)
                          \/ \E l \in Lanes : \/ Holds(l) /\ held[l] = job
                                              \/ job \in JobsIn(queue[l])
BY DEF Carried, JobsIn

LEMMA KeyOfMember ==
  ASSUME NEW s, NEW job \in JobsIn(s)
  PROVE  job.key \in KeysIn(s)
BY DEF JobsIn, KeysIn

(* Enqueue touches one lane, and adds one job there.                       *)
LEMMA EnqueueEffect ==
  ASSUME TypeOK, NEW k \in Keys, NEW g \in Generations, Enqueue(k, g)
  PROVE  LET p == PriorityOf[k]
             j == [key |-> k, generation |-> g]
         IN  /\ p \in Lanes
             /\ j \in Job /\ j.key = k
             /\ queue' \in [Lanes -> Seq(Job)]
             /\ \A l \in Lanes : l # p => queue'[l] = queue[l]
             /\ queue'[p] = Append(queue[p], j)
             /\ Len(queue'[p]) = Len(queue[p]) + 1
             /\ JobsIn(queue'[p]) = JobsIn(queue[p]) \cup {j}
             /\ KeysIn(queue'[p]) = KeysIn(queue[p]) \cup {k}
             /\ Distinct(queue[p]) /\ k \notin KeysIn(queue[p]) => Distinct(queue'[p])
<1> DEFINE p == PriorityOf[k]
           j == [key |-> k, generation |-> g]
<1>1. p \in Lanes
  BY PriorityAssumption
<1>2. j \in Job /\ j.key = k
  BY DEF Job
<1>3. queue \in [Lanes -> Seq(Job)] /\ queue[p] \in Seq(Job)
  BY <1>1 DEF TypeOK
<1>4. queue' = [queue EXCEPT ![p] = Append(queue[p], j)]
  BY DEF Enqueue
<1> HIDE DEF p, j
<1>5. queue'[p] = Append(queue[p], j) /\ \A l \in Lanes : l # p => queue'[l] = queue[l]
  BY <1>1, <1>3, <1>4
<1>6. queue' \in [Lanes -> Seq(Job)]
  BY <1>2, <1>3, <1>4, AppendEffect
<1>7. /\ Len(queue'[p]) = Len(queue[p]) + 1
      /\ JobsIn(queue'[p]) = JobsIn(queue[p]) \cup {j}
      /\ KeysIn(queue'[p]) = KeysIn(queue[p]) \cup {k}
      /\ Distinct(queue[p]) /\ k \notin KeysIn(queue[p]) => Distinct(queue'[p])
  BY <1>2, <1>3, <1>5, AppendEffect
<1> QED
  BY <1>1, <1>2, <1>5, <1>6, <1>7 DEF p, j

(* PumpKey keeps the types of what it changes.                             *)
LEMMA PumpTypes ==
  ASSUME TypeOK, NEW k \in Keys, NEW busy \in SUBSET Keys, PumpKey(k, busy)
  PROVE  /\ active' \in SUBSET Keys
         /\ pending' \in [Keys -> Generations \cup {Unset}]
         /\ queue' \in [Lanes -> Seq(Job)]
<1>1. CASE pending[k] # Unset /\ HasRoom(PriorityOf[k])
  <2>1. pending[k] \in Generations
    BY <1>1 DEF TypeOK
  <2>2. Enqueue(k, pending[k])
    BY <1>1 DEF PumpKey
  <2>3. queue' \in [Lanes -> Seq(Job)]
    BY <2>1, <2>2, EnqueueEffect
  <2> QED
    BY <1>1, <2>3 DEF PumpKey, TypeOK
<1>2. CASE ~(pending[k] # Unset /\ HasRoom(PriorityOf[k]))
  BY <1>2 DEF PumpKey, TypeOK
<1> QED
  BY <1>1, <1>2

(* Every step of either thread keeps every variable in its type.           *)
LEMMA TypeStep == TypeOK /\ [Next]_vars => TypeOK'
<1> SUFFICES ASSUME TypeOK, [Next]_vars
             PROVE  TypeOK'
  OBVIOUS
<1> USE DEF vars, mainVars, laneVars
<1>1. ASSUME NEW k \in Keys, NEW g \in Generations, Coalesce(k, g)
      PROVE  TypeOK'
  BY <1>1 DEF Coalesce, TypeOK, Holds
<1>2. ASSUME NEW k \in Keys, NEW g \in Generations, QueueNew(k, g)
      PROVE  TypeOK'
  <2>1. queue' \in [Lanes -> Seq(Job)]
    BY <1>2, EnqueueEffect DEF QueueNew
  <2> QED
    BY <1>2, <2>1 DEF QueueNew, TypeOK, Holds
<1>3. ASSUME NEW c \in {"try_recv", "recv_timeout"}, Poll(c)
      PROVE  TypeOK'
  BY <1>3 DEF Poll, TypeOK, Holds
<1>4. CASE AcceptCompletion
  <2> DEFINE done == Head(results)
  <2>1. done \in Job /\ results' \in Seq(Job)
    BY <1>4, TakeEffect DEF AcceptCompletion, TypeOK
  <2>2. done.key \in Keys /\ done.generation \in Generations
    BY <2>1 DEF Job
  <2>3. PumpKey(done.key, active \ {done.key})
    BY <1>4 DEF AcceptCompletion
  <2>4. active \ {done.key} \in SUBSET Keys
    BY DEF TypeOK
  <2>5. /\ active' \in SUBSET Keys
        /\ pending' \in [Keys -> Generations \cup {Unset}]
        /\ queue' \in [Lanes -> Seq(Job)]
    BY <2>2, <2>3, <2>4, PumpTypes
  <2> HIDE DEF done
  <2>6. \/ delivered' = [delivered EXCEPT ![done.key] = done.generation] /\ Return
        \/ UNCHANGED <<delivered, main, call>>
    BY <1>4 DEF AcceptCompletion, done
  <2>7. UNCHANGED <<latest, worker, held, pumping>>
    BY <1>4 DEF AcceptCompletion
  <2> QED
    BY <2>1, <2>2, <2>5, <2>6, <2>7 DEF TypeOK, Holds, Return
<1>5. CASE BeginPump
  BY <1>5 DEF BeginPump, PendingKeys, TypeOK, Holds
<1>6. ASSUME NEW k \in Keys, PumpOne(k)
      PROVE  TypeOK'
  <2>1. /\ active' \in SUBSET Keys
        /\ pending' \in [Keys -> Generations \cup {Unset}]
        /\ queue' \in [Lanes -> Seq(Job)]
    BY <1>6, PumpTypes DEF PumpOne, TypeOK
  <2> QED
    BY <1>6, <2>1 DEF PumpOne, TypeOK, Holds
<1>7. CASE EndPump
  BY <1>7 DEF EndPump, Return, TypeOK, Holds
<1>8. CASE TimeOut
  BY <1>8 DEF TimeOut, Return, TypeOK, Holds
<1>9. CASE Shutdown
  BY <1>9 DEF Shutdown, TypeOK, Holds
<1>10. CASE JoinHigh
  BY <1>10 DEF JoinHigh, TypeOK, Holds
<1>11. CASE JoinLow
  BY <1>11, EmptySeq DEF JoinLow, TypeOK, Holds
<1>12. ASSUME NEW l \in Lanes, LaneStep(l)
       PROVE  TypeOK'
  <2>1. queue[l] # <<>> => Head(queue[l]) \in Job /\ Tail(queue[l]) \in Seq(Job)
    BY TakeEffect DEF TypeOK
  <2>2. CASE Start(l)
    BY <2>1, <2>2 DEF Start, TypeOK, Holds
  <2>3. CASE Skip(l)
    BY <2>1, <2>3 DEF Skip, TypeOK, Holds
  <2>4. CASE Finish(l)
    BY <2>4 DEF Finish, TypeOK, Holds
  <2>5. CASE Send(l)
    <3>1. held[l] \in Job
      BY <2>5 DEF Send, TypeOK, Holds
    <3>2. results' \in Seq(Job)
      BY <2>5, <3>1, AppendEffect DEF Send, TypeOK
    <3> QED
      BY <2>5, <3>2 DEF Send, TypeOK, Holds
  <2>6. CASE Exit(l)
    BY <2>6 DEF Exit, TypeOK, Holds
  <2> QED
    BY <1>12, <2>2, <2>3, <2>4, <2>5, <2>6 DEF LaneStep
<1>13. CASE UNCHANGED vars
  BY <1>13 DEF TypeOK, Holds
<1> QED
  BY <1>1, <1>2, <1>3, <1>4, <1>5, <1>6, <1>7, <1>8, <1>9, <1>10, <1>11,
     <1>12, <1>13 DEF Next, PollStep

(* Every variable of the executor keeps its type, whatever the capacities, *)
(* the keys and the generations.                                           *)
THEOREM TypeCorrect == Spec => []TypeOK
<1>1. Init => TypeOK
  BY EmptySeq DEF Init, TypeOK, Holds
<1> QED
  BY <1>1, TypeStep, PTL DEF Spec

(***************************************************************************)
(* The phases of the main thread and of the lanes.                         *)
(***************************************************************************)

LEMMA PhasesInit == Init => Phases
BY DEF Init, Phases, ShuttingDown, PendingKeys

LEMMA PhasesStep ==
  ASSUME TypeOK, Phases, [Next]_vars
  PROVE  Phases'
<1> USE DEF vars, mainVars, laneVars, ShuttingDown, PendingKeys
<1>0. ~ShuttingDown => \A l \in Lanes : worker[l] # "exited"
  BY DEF Phases
<1>1. ASSUME NEW k \in Keys, NEW g \in Generations, Coalesce(k, g)
      PROVE  Phases'
  BY <1>1 DEF Coalesce, Phases
<1>2. ASSUME NEW k \in Keys, NEW g \in Generations, QueueNew(k, g)
      PROVE  Phases'
  BY <1>0, <1>2 DEF QueueNew, Phases
<1>3. ASSUME NEW c \in {"try_recv", "recv_timeout"}, Poll(c)
      PROVE  Phases'
  BY <1>3 DEF Poll, Phases
<1>4. CASE AcceptCompletion
  <2>1. /\ main \in {"receiving", "waiting"}
        /\ main' \in {main, "idle"}
        /\ UNCHANGED <<worker, pumping>>
    BY <1>4 DEF AcceptCompletion, Return
  <2> QED
    BY <1>0, <2>1 DEF Phases
<1>5. CASE BeginPump
  BY <1>5 DEF BeginPump, Phases
<1>6. ASSUME NEW k \in Keys, PumpOne(k)
      PROVE  Phases'
  <2>1. /\ main = "pumping"
        /\ k \in pumping
        /\ pumping' = pumping \ {k}
        /\ UNCHANGED <<results, worker, main>>
    BY <1>6 DEF PumpOne
  <2>2. active' \subseteq active \cup {k}
    BY <1>6 DEF PumpOne, PumpKey
  <2> QED
    BY <1>0, <2>1, <2>2 DEF Phases
<1>7. CASE EndPump
  BY <1>7 DEF EndPump, Return, Phases
<1>8. CASE TimeOut
  BY <1>8 DEF TimeOut, Return, Phases
<1>9. CASE Shutdown
  BY <1>0, <1>9 DEF Shutdown, Phases
<1>10. CASE JoinHigh
  BY <1>10 DEF JoinHigh, Phases
<1>11. CASE JoinLow
  BY <1>11 DEF JoinLow, Phases
<1>12. ASSUME NEW l \in Lanes, LaneStep(l)
       PROVE  Phases'
  <2>0. worker[l] # "exited"
    BY <1>12 DEF LaneStep, Start, Skip, Finish, Send, Exit
  <2>a. main # "stopped"
    BY <2>0 DEF Phases, Lanes
  <2>1. CASE Start(l)
    BY <2>0, <2>1 DEF Start, Phases, TypeOK, Lanes
  <2>2. CASE Skip(l)
    BY <2>0, <2>2 DEF Skip, Phases, TypeOK, Lanes
  <2>3. CASE Finish(l)
    BY <2>0, <2>3 DEF Finish, Phases, TypeOK, Lanes
  <2>4. CASE Send(l)
    BY <2>0, <2>a, <2>4 DEF Send, Phases, TypeOK, Lanes
  <2>5. CASE Exit(l)
    BY <2>0, <2>5 DEF Exit, Phases, TypeOK, Lanes, SenderOpen
  <2> QED
    BY <1>12, <2>1, <2>2, <2>3, <2>4, <2>5 DEF LaneStep
<1>13. CASE UNCHANGED vars
  BY <1>13 DEF Phases
<1> QED
  BY <1>1, <1>2, <1>3, <1>4, <1>5, <1>6, <1>7, <1>8, <1>9, <1>10, <1>11,
     <1>12, <1>13 DEF Next, PollStep

(***************************************************************************)
(* At most one job of a key is in flight.                                  *)
(***************************************************************************)

LEMMA NothingIn == KeysIn(<<>>) = {} /\ Distinct(<<>>)
BY DEF KeysIn, Distinct

LEMMA OwnershipInit == Init => Ownership /\ OneInFlight
BY NothingIn DEF Init, Ownership, OneInFlight, Holds

(* Sending a job of a key that is nowhere in flight, or whose completion   *)
(* has just been received, keeps keys owned and unique.                    *)
LEMMA EnqueueKeepsOwnership ==
  ASSUME TypeOK, Ownership, OneInFlight,
         main # "stopped",
         NEW k \in Keys, NEW g \in Generations, Enqueue(k, g),
         \A l \in Lanes : k \notin KeysIn(queue[l]) /\ (Holds(l) => held[l].key # k),
         Distinct(results'), KeysIn(results') \subseteq KeysIn(results) \ {k},
         active' = active \cup {k},
         UNCHANGED <<worker, held>>
  PROVE  Ownership' /\ OneInFlight'
<1> DEFINE p == PriorityOf[k]
<1>1. /\ p \in Lanes
      /\ \A l \in Lanes : l # p => queue'[l] = queue[l]
      /\ KeysIn(queue'[p]) = KeysIn(queue[p]) \cup {k}
      /\ Distinct(queue[p]) /\ k \notin KeysIn(queue[p]) => Distinct(queue'[p])
  BY EnqueueEffect
<1>2. \A l \in Lanes : Holds(l)' <=> Holds(l)
  BY DEF Holds
<1>3. ASSUME NEW l \in Lanes
      PROVE  /\ KeysIn(queue'[l]) \subseteq {q \in active' : PriorityOf[q] = l}
             /\ Holds(l)' => held'[l].key \in active' /\ PriorityOf[held'[l].key] = l
             /\ Distinct(queue'[l])
             /\ KeysIn(queue'[l]) \cap KeysIn(results') = {}
             /\ Holds(l)' => held'[l].key \notin KeysIn(queue'[l]) \cup KeysIn(results')
  <2>1. /\ KeysIn(queue[l]) \subseteq {q \in active : PriorityOf[q] = l}
        /\ Holds(l) => held[l].key \in active /\ PriorityOf[held[l].key] = l
    BY DEF Ownership
  <2>2. /\ Distinct(queue[l])
        /\ KeysIn(queue[l]) \cap KeysIn(results) = {}
        /\ Holds(l) => held[l].key \notin KeysIn(queue[l]) \cup KeysIn(results)
    BY DEF OneInFlight
  <2>3. CASE l = p
    BY <1>1, <1>2, <2>1, <2>2, <2>3
  <2>4. CASE l # p
    BY <1>1, <1>2, <2>1, <2>2, <2>4
  <2> QED
    BY <2>3, <2>4
<1>4. KeysIn(results') \subseteq active'
  BY DEF Ownership
<1> QED
  BY <1>3, <1>4 DEF Ownership, OneInFlight

(* Retiring a received completion of k keeps keys owned and unique.        *)
LEMMA RetireKeepsOwnership ==
  ASSUME TypeOK, Ownership, OneInFlight,
         main # "stopped",
         NEW k \in Keys,
         \A l \in Lanes : k \notin KeysIn(queue[l]) /\ (Holds(l) => held[l].key # k),
         Distinct(results'), KeysIn(results') \subseteq KeysIn(results) \ {k},
         active' = active \ {k},
         UNCHANGED <<queue, worker, held>>
  PROVE  Ownership' /\ OneInFlight'
BY DEF Ownership, OneInFlight, Holds

LEMMA OwnershipStep ==
  ASSUME TypeOK, Phases, Ownership, OneInFlight, [Next]_vars
  PROVE  Ownership' /\ OneInFlight'
<1> USE DEF vars, mainVars, laneVars
<1>0. ASSUME UNCHANGED <<active, queue, worker, held, results>>,
             main = "stopped" => main' = "stopped"
      PROVE  Ownership' /\ OneInFlight'
  BY <1>0 DEF Ownership, OneInFlight, Holds
<1>a. ASSUME main # "stopped", NEW k \in Keys \ active
      PROVE  /\ k \notin KeysIn(results)
             /\ \A l \in Lanes : k \notin KeysIn(queue[l]) /\ (Holds(l) => held[l].key # k)
  BY <1>a DEF Ownership
<1>1. ASSUME NEW k \in Keys, NEW g \in Generations, Coalesce(k, g)
      PROVE  Ownership' /\ OneInFlight'
  BY <1>0, <1>1 DEF Coalesce
<1>2. ASSUME NEW k \in Keys, NEW g \in Generations, QueueNew(k, g)
      PROVE  Ownership' /\ OneInFlight'
  <2>1. /\ main # "stopped"
        /\ k \in Keys \ active
        /\ Enqueue(k, g)
        /\ active' = active \cup {k}
        /\ UNCHANGED <<worker, held, results>>
    BY <1>2 DEF QueueNew
  <2>2. Distinct(results') /\ KeysIn(results') \subseteq KeysIn(results) \ {k}
    BY <1>a, <2>1 DEF OneInFlight
  <2> QED
    BY <1>a, <2>1, <2>2, EnqueueKeepsOwnership
<1>3. ASSUME NEW c \in {"try_recv", "recv_timeout"}, Poll(c)
      PROVE  Ownership' /\ OneInFlight'
  BY <1>0, <1>3 DEF Poll
<1>4. CASE AcceptCompletion
  <2> DEFINE done == Head(results)
             k == done.key
  <2>1. /\ main # "stopped"
        /\ results # <<>>
        /\ results' = Tail(results)
        /\ PumpKey(k, active \ {k})
        /\ UNCHANGED <<worker, held>>
    BY <1>4 DEF AcceptCompletion
  <2>2. /\ done \in Job
        /\ KeysIn(results) = KeysIn(results') \cup {k}
        /\ Distinct(results) => Distinct(results') /\ k \notin KeysIn(results')
    BY <2>1, TakeEffect DEF TypeOK
  <2>3. k \in Keys
    BY <2>2 DEF Job
  <2> HIDE DEF done, k
  <2>4. /\ k \in KeysIn(results)
        /\ Distinct(results') /\ KeysIn(results') \subseteq KeysIn(results) \ {k}
    BY <2>2 DEF OneInFlight
  <2>5. \A l \in Lanes : k \notin KeysIn(queue[l]) /\ (Holds(l) => held[l].key # k)
    BY <2>4 DEF OneInFlight
  <2>6. k \in active
    BY <2>1, <2>4 DEF Ownership
  <2>7. CASE pending[k] # Unset /\ HasRoom(PriorityOf[k])
    <3>1. Enqueue(k, pending[k]) /\ active' = active \cup {k}
      BY <2>1, <2>6, <2>7 DEF PumpKey
    <3>2. pending[k] \in Generations
      BY <2>3, <2>7 DEF TypeOK
    <3> QED
      BY <2>1, <2>3, <2>4, <2>5, <3>1, <3>2, EnqueueKeepsOwnership
  <2>8. CASE ~(pending[k] # Unset /\ HasRoom(PriorityOf[k]))
    <3>1. active' = active \ {k} /\ UNCHANGED queue
      BY <2>1, <2>8 DEF PumpKey
    <3> QED
      BY <2>1, <2>3, <2>4, <2>5, <3>1, RetireKeepsOwnership
  <2> QED
    BY <2>7, <2>8
<1>5. CASE BeginPump
  BY <1>0, <1>5 DEF BeginPump
<1>6. ASSUME NEW k \in Keys, PumpOne(k)
      PROVE  Ownership' /\ OneInFlight'
  <2>1. /\ main # "stopped"
        /\ main' = main
        /\ k \in Keys \ active
        /\ PumpKey(k, active)
        /\ UNCHANGED <<worker, held, results>>
    BY <1>6 DEF PumpOne, Phases
  <2>2. CASE pending[k] # Unset /\ HasRoom(PriorityOf[k])
    <3>1. Enqueue(k, pending[k]) /\ active' = active \cup {k}
      BY <2>1, <2>2 DEF PumpKey
    <3>2. pending[k] \in Generations
      BY <2>2 DEF TypeOK
    <3>3. Distinct(results') /\ KeysIn(results') \subseteq KeysIn(results) \ {k}
      BY <1>a, <2>1 DEF OneInFlight
    <3> QED
      BY <1>a, <2>1, <3>1, <3>2, <3>3, EnqueueKeepsOwnership
  <2>3. CASE ~(pending[k] # Unset /\ HasRoom(PriorityOf[k]))
    BY <1>0, <2>1, <2>3 DEF PumpKey
  <2> QED
    BY <2>2, <2>3
<1>7. CASE EndPump
  BY <1>0, <1>7 DEF EndPump, Return
<1>8. CASE TimeOut
  BY <1>0, <1>8 DEF TimeOut, Return
<1>9. CASE Shutdown
  BY <1>0, <1>9 DEF Shutdown
<1>10. CASE JoinHigh
  BY <1>0, <1>10 DEF JoinHigh
<1>11. CASE JoinLow
  <2>1. \A l \in Lanes : worker[l] = "exited" /\ queue[l] = <<>>
    BY <1>11 DEF JoinLow, Phases, Lanes
  <2> QED
    BY <1>11, <2>1, NothingIn DEF JoinLow, Ownership, OneInFlight, Holds
<1>12. ASSUME NEW l \in Lanes, LaneStep(l)
       PROVE  Ownership' /\ OneInFlight'
  <2>1. UNCHANGED mainVars /\ worker[l] # "exited"
    BY <1>12 DEF LaneStep, Start, Skip, Finish, Send, Exit
  <2>2. main # "stopped"
    BY <2>1 DEF Phases, Lanes
  <2>3. queue[l] # <<>> =>
          /\ Head(queue[l]) \in Job
          /\ KeysIn(queue[l]) = KeysIn(Tail(queue[l])) \cup {Head(queue[l]).key}
          /\ Distinct(Tail(queue[l])) /\ Head(queue[l]).key \notin KeysIn(Tail(queue[l]))
    BY TakeEffect DEF TypeOK, OneInFlight
  <2>4. CASE Start(l)
    <3>1. /\ queue[l] # <<>>
          /\ queue' = [queue EXCEPT ![l] = Tail(queue[l])]
          /\ held' = [held EXCEPT ![l] = Head(queue[l])]
          /\ worker' = [worker EXCEPT ![l] = "running"]
          /\ results' = results
      BY <2>4 DEF Start
    <3> QED
      BY <2>1, <2>2, <2>3, <3>1 DEF Ownership, OneInFlight, Holds, TypeOK
  <2>5. CASE Skip(l)
    <3>1. /\ queue[l] # <<>>
          /\ queue' = [queue EXCEPT ![l] = Tail(queue[l])]
          /\ UNCHANGED <<held, worker, results>>
      BY <2>5 DEF Skip
    <3> QED
      BY <2>1, <2>2, <2>3, <3>1 DEF Ownership, OneInFlight, Holds, TypeOK
  <2>6. CASE Finish(l)
    BY <2>1, <2>2, <2>6 DEF Finish, Ownership, OneInFlight, Holds, TypeOK
  <2>7. CASE Send(l)
    <3>1. /\ Holds(l)
          /\ results' = Append(results, held[l])
          /\ worker' = [worker EXCEPT ![l] = "receiving"]
          /\ held' = [held EXCEPT ![l] = NoJob]
          /\ queue' = queue
      BY <2>7 DEF Send, Holds
    <3>2. /\ KeysIn(results') = KeysIn(results) \cup {held[l].key}
          /\ Distinct(results')
      BY <3>1, AppendEffect DEF TypeOK, OneInFlight
    <3>3. \A m \in Lanes : /\ Holds(m)' => m # l /\ Holds(m) /\ held'[m] = held[m]
      BY <3>1 DEF Holds, TypeOK
    <3>4. /\ held[l].key \in active /\ PriorityOf[held[l].key] = l
          /\ held[l].key \notin KeysIn(queue[l])
      BY <2>2, <3>1 DEF Ownership, OneInFlight
    <3>5. Ownership'
      BY <2>1, <2>2, <3>1, <3>2, <3>3, <3>4 DEF Ownership
    <3>6. ASSUME NEW m \in Lanes
          PROVE  /\ Distinct(queue'[m])
                 /\ KeysIn(queue'[m]) \cap KeysIn(results') = {}
                 /\ Holds(m)' => held'[m].key \notin KeysIn(queue'[m]) \cup KeysIn(results')
      <4>1. /\ Distinct(queue[m])
            /\ KeysIn(queue[m]) \cap KeysIn(results) = {}
            /\ Holds(m) => held[m].key \notin KeysIn(queue[m]) \cup KeysIn(results)
        BY DEF OneInFlight
      <4>2. /\ KeysIn(queue[m]) \subseteq {q \in active : PriorityOf[q] = m}
            /\ Holds(m) => PriorityOf[held[m].key] = m
        BY <2>2 DEF Ownership
      <4> QED
        BY <3>1, <3>2, <3>3, <3>4, <4>1, <4>2
    <3> QED
      BY <3>2, <3>5, <3>6 DEF OneInFlight
  <2>8. CASE Exit(l)
    BY <2>1, <2>2, <2>8 DEF Exit, Ownership, OneInFlight, Holds, TypeOK
  <2> QED
    BY <1>12, <2>4, <2>5, <2>6, <2>7, <2>8 DEF LaneStep
<1>13. CASE UNCHANGED vars
  BY <1>0, <1>13
<1> QED
  BY <1>1, <1>2, <1>3, <1>4, <1>5, <1>6, <1>7, <1>8, <1>9, <1>10, <1>11,
     <1>12, <1>13 DEF Next, PollStep

(* For every capacity and every set of keys, no two jobs of one key are    *)
(* ever queued, running or completed-and-unread at the same time.          *)
THEOREM AtMostOneInFlight == Spec => []OneInFlight
<1> DEFINE I == TypeOK /\ Phases /\ Ownership /\ OneInFlight
<1>1. Init => I
  BY PhasesInit, OwnershipInit, EmptySeq DEF Init, TypeOK, Holds
<1>2. I /\ [Next]_vars => I'
  BY TypeStep, PhasesStep, OwnershipStep
<1>3. I => OneInFlight
  OBVIOUS
<1> QED
  BY <1>1, <1>2, <1>3, PTL DEF Spec

(***************************************************************************)
(* Jobs in flight are counted, so the result channel always has room.      *)
(***************************************************************************)

LEMMA Cardinalities ==
  ASSUME TypeOK
  PROVE  /\ IsFiniteSet(active) /\ Cardinality(active) \in Nat
         /\ IsFiniteSet(active \cup PendingKeys) /\ Outstanding \in Nat
         /\ Cardinality(active) <= Outstanding
<1>1. active \subseteq Keys /\ active \cup PendingKeys \subseteq Keys
  BY DEF TypeOK, PendingKeys
<1>2. IsFiniteSet(active) /\ IsFiniteSet(active \cup PendingKeys)
  BY <1>1, KeysAssumption, FS_Subset
<1>3. Cardinality(active) <= Cardinality(active \cup PendingKeys)
  BY <1>2, FS_Subset
<1> QED
  BY <1>2, <1>3, FS_CardinalityType DEF Outstanding

(* The lengths that are counted are natural numbers.                       *)
LEMMA Lengths ==
  ASSUME TypeOK
  PROVE  /\ Len(results) \in Nat
         /\ \A l \in Lanes : Len(queue[l]) \in Nat /\ Load(l) \in Nat
         /\ LaneCount \in Nat
<1>1. Len(results) \in Nat /\ \A l \in Lanes : Len(queue[l]) \in Nat
  BY LenProperties DEF TypeOK
<1>2. \A l \in Lanes : Load(l) \in Nat
  BY <1>1 DEF Load
<1>3. Load("high") \in Nat /\ Load("low") \in Nat
  BY <1>2 DEF Lanes
<1>4. LaneCount \in Nat
  BY <1>3 DEF LaneCount
<1> QED
  BY <1>1, <1>2, <1>4

(* A lane whose load changes while the other keeps its own.                *)
LEMMA LoadMoves ==
  ASSUME TypeOK, NEW l \in Lanes, NEW d \in Int, Load(l)' = Load(l) + d,
         \A m \in Lanes : m # l => Load(m)' = Load(m)
  PROVE  LaneCount' = LaneCount + d
<1>1. Load("high") \in Nat /\ Load("low") \in Nat
  BY Lengths DEF Lanes
<1>2. CASE l = "high"
  <2>1. Load("low")' = Load("low") /\ Load("high")' = Load("high") + d
    BY <1>2 DEF Lanes
  <2> QED
    BY <1>1, <2>1 DEF LaneCount
<1>3. CASE l = "low"
  <2>1. Load("high")' = Load("high") /\ Load("low")' = Load("low") + d
    BY <1>3 DEF Lanes
  <2> QED
    BY <1>1, <2>1 DEF LaneCount
<1> QED
  BY <1>2, <1>3 DEF Lanes

LEMMA EnqueueCounts ==
  ASSUME TypeOK, NEW k \in Keys, NEW g \in Generations, Enqueue(k, g), worker' = worker
  PROVE  LaneCount' = LaneCount + 1
<1> DEFINE p == PriorityOf[k]
<1>1. /\ p \in Lanes
      /\ \A l \in Lanes : l # p => queue'[l] = queue[l]
      /\ Len(queue'[p]) = Len(queue[p]) + 1
  BY EnqueueEffect
<1> HIDE DEF p
<1>2. Len(queue[p]) \in Nat
  BY <1>1, Lengths
<1>3. Load(p)' = Load(p) + 1
  <2>1. Holds(p)' <=> Holds(p)
    BY DEF Holds
  <2>2. CASE Holds(p)
    BY <1>1, <1>2, <2>1, <2>2 DEF Load
  <2>3. CASE ~Holds(p)
    BY <1>1, <1>2, <2>1, <2>3 DEF Load
  <2> QED
    BY <2>2, <2>3
<1>4. \A m \in Lanes : m # p => Load(m)' = Load(m)
  BY <1>1 DEF Load, Holds
<1> QED
  BY <1>1, <1>3, <1>4, LoadMoves

(* What a lane step moves stays counted, or leaves the count.              *)
LEMMA LaneStepCounts ==
  ASSUME TypeOK, NEW l \in Lanes, LaneStep(l)
  PROVE  LaneCount' + Len(results') <= LaneCount + Len(results)
<1>0. Len(results) \in Nat /\ LaneCount \in Nat /\ Len(queue[l]) \in Nat
  BY Lengths
<1>1. /\ queue' = [queue EXCEPT ![l] = queue'[l]]
      /\ worker' = [worker EXCEPT ![l] = worker'[l]]
  BY DEF LaneStep, Start, Skip, Finish, Send, Exit, TypeOK
<1>2. \A m \in Lanes : m # l => Load(m)' = Load(m)
  BY <1>1 DEF Load, Holds, TypeOK
<1>3. queue[l] # <<>> => Len(Tail(queue[l])) = Len(queue[l]) - 1
  BY TakeEffect DEF TypeOK
<1>4. CASE Start(l)
  <2>1. queue[l] # <<>> /\ queue'[l] = Tail(queue[l]) /\ results' = results
    BY <1>4 DEF Start, TypeOK
  <2>2. ~Holds(l) /\ Holds(l)'
    BY <1>4 DEF Start, Holds, TypeOK
  <2>3. Load(l)' = Load(l) + 0
    BY <1>0, <1>3, <2>1, <2>2 DEF Load
  <2>4. LaneCount' = LaneCount + 0
    BY <1>2, <2>3, LoadMoves
  <2> QED
    BY <1>0, <2>1, <2>4
<1>5. CASE Skip(l)
  <2>1. queue[l] # <<>> /\ queue'[l] = Tail(queue[l]) /\ UNCHANGED <<worker, results>>
    BY <1>5 DEF Skip, TypeOK
  <2>2. ~Holds(l) /\ ~Holds(l)'
    BY <1>5, <2>1 DEF Skip, Holds
  <2>4. Load(l)' = Load(l) + (-1)
    BY <1>0, <1>3, <2>1, <2>2 DEF Load
  <2>3. LaneCount' = LaneCount + (-1)
    BY <1>2, <2>4, LoadMoves
  <2> QED
    BY <1>0, <2>1, <2>3
<1>6. CASE Finish(l) \/ Exit(l)
  <2>1. UNCHANGED <<queue, results>> /\ (Holds(l)' <=> Holds(l))
    BY <1>6 DEF Finish, Exit, Holds, TypeOK
  <2>2. Load(l)' = Load(l)
    BY <2>1 DEF Load
  <2>4. Load(l) \in Nat
    BY Lengths
  <2>3. LaneCount' = LaneCount + 0
    BY <1>2, <2>2, <2>4, LoadMoves
  <2> QED
    BY <1>0, <2>1, <2>3
<1>7. CASE Send(l)
  <2>1. queue' = queue /\ results' = Append(results, held[l]) /\ held[l] \in Job
    BY <1>7 DEF Send, Holds, TypeOK
  <2>2. Len(results') = Len(results) + 1
    BY <2>1, AppendEffect DEF TypeOK
  <2>3. Holds(l) /\ ~Holds(l)'
    BY <1>7 DEF Send, Holds, TypeOK
  <2>4. Load(l)' = Load(l) + (-1)
    BY <1>0, <2>1, <2>3 DEF Load
  <2>5. LaneCount' = LaneCount + (-1)
    BY <1>2, <2>4, LoadMoves
  <2> QED
    BY <1>0, <2>2, <2>5
<1> QED
  BY <1>4, <1>5, <1>6, <1>7 DEF LaneStep

LEMMA CountedInit == Init => Counted
<1> SUFFICES ASSUME Init
             PROVE  Counted
  OBVIOUS
<1>1. active \cup PendingKeys = {}
  BY DEF Init, PendingKeys
<1>2. LaneCount = 0 /\ Len(results) = 0
  BY DEF Init, LaneCount, Load, Holds, Lanes
<1>3. Cardinality({}) = 0 /\ ResultCapacity \in Nat
  BY FS_EmptySet, CapacityAssumption DEF ResultCapacity
<1>4. Outstanding = 0 /\ Cardinality(active) = 0
  BY <1>1, <1>3 DEF Outstanding, Init
<1> QED
  BY <1>2, <1>3, <1>4 DEF Counted

(* The same facts about the next state.                                    *)
LEMMA NextNumbers ==
  ASSUME TypeOK'
  PROVE  /\ IsFiniteSet(active') /\ Cardinality(active') \in Nat
         /\ Outstanding' \in Nat
         /\ Len(results') \in Nat
         /\ LaneCount' \in Nat
<1>1. active' \subseteq Keys /\ (active \cup PendingKeys)' \subseteq Keys
  BY DEF TypeOK, PendingKeys
<1>2. IsFiniteSet(active') /\ IsFiniteSet((active \cup PendingKeys)')
  BY <1>1, KeysAssumption, FS_Subset
<1>3. Load("high")' \in Nat /\ Load("low")' \in Nat
  <2>1. \A l \in Lanes : Len(queue'[l]) \in Nat
    BY LenProperties DEF TypeOK
  <2>2. \A l \in Lanes : Load(l)' \in Nat
    BY <2>1 DEF Load
  <2> QED
    BY <2>2 DEF Lanes
<1>4. Len(results') \in Nat
  BY LenProperties DEF TypeOK
<1> QED
  BY <1>2, <1>3, <1>4, FS_CardinalityType DEF Outstanding, LaneCount

LEMMA CountedStep ==
  ASSUME TypeOK, Phases, Ownership, Counted, [Next]_vars
  PROVE  Counted'
<1> USE DEF vars, mainVars, laneVars
<1>a. TypeOK'
  BY TypeStep
<1>b. /\ Cardinality(active') \in Nat /\ Outstanding' \in Nat
      /\ Len(results') \in Nat /\ LaneCount' \in Nat
  BY <1>a, NextNumbers
<1>c. /\ Cardinality(active) \in Nat /\ Outstanding \in Nat /\ IsFiniteSet(active)
      /\ Len(results) \in Nat /\ LaneCount \in Nat
      /\ ResultCapacity \in Nat
  BY Cardinalities, Lengths, CapacityAssumption DEF ResultCapacity
(* Steps that count nothing in and leave the jobs accepted as they are.    *)
<1>0. ASSUME LaneCount' + Len(results') <= LaneCount + Len(results),
             active' = active, Outstanding' <= Outstanding,
             main' # "stopped" => main # "stopped"
      PROVE  Counted'
  BY <1>0, <1>b, <1>c DEF Counted
<1>d. ASSUME UNCHANGED <<queue, worker>> PROVE LaneCount' = LaneCount
  BY <1>d DEF LaneCount, Load, Holds
<1>e. ASSUME UNCHANGED <<queue, worker, results, active, pending>>,
             main' # "stopped" => main # "stopped"
      PROVE  Counted'
  <2>1. Outstanding' = Outstanding
    BY <1>e DEF Outstanding, PendingKeys
  <2>2. LaneCount' = LaneCount
    BY <1>d, <1>e
  <2> QED
    BY <1>0, <1>c, <1>e, <2>1, <2>2
<1>1. ASSUME NEW k \in Keys, NEW g \in Generations, Coalesce(k, g)
      PROVE  Counted'
  <2>1. (active \cup PendingKeys)' = active \cup PendingKeys
    BY <1>1, GenerationsAssumption DEF Coalesce, PendingKeys, TypeOK, Unset
  <2>2. Outstanding' = Outstanding
    BY <2>1 DEF Outstanding
  <2>3. LaneCount' = LaneCount /\ UNCHANGED <<results, active, main>>
    BY <1>1, <1>d DEF Coalesce
  <2> QED
    BY <1>0, <1>c, <2>2, <2>3
<1>2. ASSUME NEW k \in Keys, NEW g \in Generations, QueueNew(k, g)
      PROVE  Counted'
  <2>1. LaneCount' = LaneCount + 1
    BY <1>2, EnqueueCounts DEF QueueNew
  <2>2. Cardinality(active') = Cardinality(active) + 1
    BY <1>2, <1>c, FS_AddElement DEF QueueNew
  <2>3. Outstanding' = Outstanding + 1
    <3>1. (active \cup PendingKeys)' = (active \cup PendingKeys) \cup {k}
      BY <1>2 DEF QueueNew, PendingKeys
    <3> QED
      BY <1>2, <3>1, Cardinalities, FS_AddElement DEF QueueNew, Outstanding
  <2>4. Outstanding < ResultCapacity /\ results' = results /\ main = "idle"
    BY <1>2 DEF QueueNew
  <2> QED
    BY <1>c, <2>1, <2>2, <2>3, <2>4 DEF Counted
<1>3. CASE Poll("try_recv") \/ Poll("recv_timeout")
  BY <1>3, <1>e DEF Poll
<1>4. CASE AcceptCompletion
  <2> DEFINE done == Head(results)
             k == done.key
             rest == active \ {k}
  <2>1. /\ results # <<>> /\ results' = Tail(results) /\ PumpKey(k, rest)
        /\ worker' = worker /\ main # "stopped"
    BY <1>4 DEF AcceptCompletion
  <2>2. done \in Job /\ k \in Keys /\ Len(results') = Len(results) - 1
    BY <2>1, TakeEffect, KeyOfMember DEF TypeOK, Job
  <2>3. k \in active
    BY <2>1, TakeEffect DEF TypeOK, Ownership, KeysIn
  <2>4. IsFiniteSet(rest) /\ Cardinality(rest) = Cardinality(active) - 1
    BY <1>c, <2>3, FS_RemoveElement
  <2>5. CASE pending[k] # Unset /\ HasRoom(PriorityOf[k])
    <3>1. /\ Enqueue(k, pending[k])
          /\ pending' = [pending EXCEPT ![k] = Unset]
          /\ active' = active
      BY <2>1, <2>3, <2>5 DEF PumpKey
    <3>2. pending[k] \in Generations
      BY <2>2, <2>5 DEF TypeOK
    <3>3. LaneCount' = LaneCount + 1
      BY <2>1, <2>2, <3>1, <3>2, EnqueueCounts
    <3>4. (active \cup PendingKeys)' = active \cup PendingKeys
      BY <2>2, <2>3, <3>1 DEF PendingKeys, TypeOK
    <3>5. Outstanding' = Outstanding
      BY <3>4 DEF Outstanding
    <3>6. LaneCount' + Len(results') = LaneCount + Len(results)
      BY <1>c, <2>2, <3>3
    <3> QED
      BY <1>0, <1>c, <2>1, <3>1, <3>5, <3>6
  <2>6. CASE ~(pending[k] # Unset /\ HasRoom(PriorityOf[k]))
    <3>1. active' = rest /\ UNCHANGED <<pending, queue>>
      BY <2>1, <2>6 DEF PumpKey
    <3>2. (active \cup PendingKeys)' \subseteq active \cup PendingKeys
      BY <3>1 DEF PendingKeys
    <3>3. Outstanding' <= Outstanding
      BY <3>2, Cardinalities, FS_Subset DEF Outstanding
    <3>4. /\ LaneCount' = LaneCount
          /\ Len(results') = Len(results) - 1
          /\ Cardinality(active') = Cardinality(active) - 1
      BY <1>d, <2>1, <2>2, <2>4, <3>1
    <3>5. /\ LaneCount + Len(results) <= Cardinality(active)
          /\ Outstanding <= ResultCapacity
      BY <2>1 DEF Counted
    <3>6. LaneCount' + Len(results') <= Cardinality(active')
      BY <1>c, <3>4, <3>5
    <3>7. Outstanding' <= ResultCapacity
      BY <1>b, <1>c, <3>3, <3>5
    <3> QED
      BY <3>6, <3>7 DEF Counted
  <2> QED
    BY <2>5, <2>6
<1>5. CASE BeginPump \/ EndPump \/ TimeOut
  BY <1>5, <1>e DEF BeginPump, EndPump, TimeOut, Return
<1>6. ASSUME NEW k \in Keys, PumpOne(k)
      PROVE  Counted'
  <2>1. k \notin active /\ PumpKey(k, active) /\ UNCHANGED <<worker, results, main>>
    BY <1>6 DEF PumpOne, Phases
  <2>2. CASE pending[k] # Unset /\ HasRoom(PriorityOf[k])
    <3>1. /\ Enqueue(k, pending[k])
          /\ pending' = [pending EXCEPT ![k] = Unset]
          /\ active' = active \cup {k}
      BY <2>1, <2>2 DEF PumpKey
    <3>2. pending[k] \in Generations
      BY <2>2 DEF TypeOK
    <3>3. LaneCount' = LaneCount + 1
      BY <2>1, <3>1, <3>2, EnqueueCounts
    <3>4. (active \cup PendingKeys)' = active \cup PendingKeys
      BY <2>2, <3>1 DEF PendingKeys, TypeOK
    <3>5. Cardinality(active') = Cardinality(active) + 1
      BY <1>c, <2>1, <3>1, FS_AddElement
    <3>6. Outstanding' = Outstanding
      BY <3>4 DEF Outstanding
    <3>7. main # "stopped" /\ results' = results
      BY <1>6, <2>1 DEF PumpOne
    <3>8. /\ LaneCount + Len(results) <= Cardinality(active)
          /\ Outstanding <= ResultCapacity
      BY <3>7 DEF Counted
    <3>9. LaneCount' + Len(results') <= Cardinality(active')
      BY <1>c, <3>3, <3>5, <3>7, <3>8
    <3> QED
      BY <3>6, <3>8, <3>9 DEF Counted
  <2>3. CASE ~(pending[k] # Unset /\ HasRoom(PriorityOf[k]))
    <3>1. UNCHANGED <<active, pending, queue>>
      BY <2>1, <2>3 DEF PumpKey
    <3> QED
      BY <1>e, <2>1, <3>1
  <2> QED
    BY <2>2, <2>3
<1>7. CASE Shutdown
  <2>1. PendingKeys' = {} /\ active' = active /\ UNCHANGED <<queue, worker, results>>
        /\ main # "stopped"
    BY <1>7 DEF Shutdown, PendingKeys
  <2>2. Outstanding' <= Outstanding
    BY <2>1, Cardinalities DEF Outstanding
  <2> QED
    BY <1>0, <1>c, <1>d, <2>1, <2>2
<1>8. CASE JoinHigh
  BY <1>8, <1>e DEF JoinHigh
<1>9. CASE JoinLow
  BY <1>9 DEF JoinLow, Counted
<1>10. ASSUME NEW l \in Lanes, LaneStep(l)
       PROVE  Counted'
  <2>1. UNCHANGED mainVars
    BY <1>10 DEF LaneStep, Start, Skip, Finish, Send, Exit
  <2> QED
    BY <1>0, <1>10, <1>c, <2>1, LaneStepCounts DEF Outstanding, PendingKeys
<1>11. CASE UNCHANGED vars
  BY <1>11, <1>e
<1> QED
  BY <1>1, <1>2, <1>3, <1>4, <1>5, <1>6, <1>7, <1>8, <1>9, <1>10, <1>11
     DEF Next, PollStep

(* Whatever the capacities, a thread with a completion to send finds room  *)
(* in the result channel; so joining a lane in shutdown() cannot deadlock. *)
THEOREM LanesNeverBlock == Spec => []SendNeverBlocks
<1> DEFINE I == TypeOK /\ Phases /\ Ownership /\ OneInFlight /\ Counted
<1>1. Init => I
  BY PhasesInit, OwnershipInit, CountedInit, EmptySeq DEF Init, TypeOK, Holds
<1>2. I /\ [Next]_vars => I'
  BY TypeStep, PhasesStep, OwnershipStep, CountedStep
<1>3. I => SendNeverBlocks
  <2> SUFFICES ASSUME I, NEW l \in Lanes, worker[l] = "sending"
               PROVE  Len(results) < ResultCapacity
    BY DEF SendNeverBlocks
  <2>1. main # "stopped"
    BY DEF Phases, Lanes
  <2>2. /\ Len(queue[l]) \in Nat /\ Load("high") \in Nat /\ Load("low") \in Nat
        /\ Len(results) \in Nat /\ LaneCount \in Nat
        /\ Cardinality(active) \in Nat /\ Outstanding \in Nat /\ Cardinality(active) <= Outstanding
        /\ ResultCapacity \in Nat
    BY Lengths, Cardinalities, CapacityAssumption DEF Lanes, ResultCapacity
  <2>3. 1 <= Load(l)
    BY <2>2 DEF Load, Holds
  <2>4. 1 <= LaneCount
    <3>1. CASE l = "high"
      BY <2>2, <2>3, <3>1 DEF LaneCount
    <3>2. CASE l = "low"
      BY <2>2, <2>3, <3>2 DEF LaneCount
    <3> QED
      BY <3>1, <3>2 DEF Lanes
  <2>5. LaneCount + Len(results) <= Cardinality(active) /\ Outstanding <= ResultCapacity
    BY <2>1 DEF Counted
  <2> QED
    BY <2>2, <2>4, <2>5
<1> QED
  BY <1>1, <1>2, <1>3, PTL DEF Spec

(***************************************************************************)
(* Generations: the newest one is never lost.                              *)
(***************************************************************************)

(* The jobs of the lanes, queued or held by a thread.                      *)
InLanes(job) == \E l \in Lanes : (Holds(l) /\ held[l] = job) \/ job \in JobsIn(queue[l])
JobOf(k, g) == [key |-> k, generation |-> g]

LEMMA CarriedJobs ==
  ASSUME NEW job
  PROVE  /\ Carried(job) <=> job \in JobsIn(results) \/ InLanes(job)
         /\ Carried(job)' <=> job \in JobsIn(results') \/ InLanes(job)'
BY DEF Carried, JobsIn, InLanes

(* A job that is queued is the one that the lanes carry from then on.      *)
LEMMA EnqueueCarries ==
  ASSUME TypeOK, NEW k \in Keys, NEW g \in Generations, Enqueue(k, g),
         UNCHANGED <<worker, held>>, NEW job
  PROVE  InLanes(job)' <=> InLanes(job) \/ job = JobOf(k, g)
<1> DEFINE p == PriorityOf[k]
<1>1. /\ p \in Lanes
      /\ \A l \in Lanes : l # p => queue'[l] = queue[l]
      /\ JobsIn(queue'[p]) = JobsIn(queue[p]) \cup {JobOf(k, g)}
  BY EnqueueEffect DEF JobOf
<1> HIDE DEF p
<1>2. \A l \in Lanes : Holds(l)' <=> Holds(l)
  BY DEF Holds
<1> QED
  BY <1>1, <1>2 DEF InLanes

(* What pump_key() moves stays carried or waiting.                         *)
LEMMA PumpCarries ==
  ASSUME TypeOK, NEW k \in Keys, NEW busy \in SUBSET Keys, PumpKey(k, busy),
         UNCHANGED <<worker, held>>
  PROVE  \/ /\ pending[k] # Unset /\ JobOf(k, pending[k]) \in Job
            /\ pending' = [pending EXCEPT ![k] = Unset]
            /\ \A job : InLanes(job)' <=> InLanes(job) \/ job = JobOf(k, pending[k])
         \/ /\ UNCHANGED pending
            /\ \A job : InLanes(job)' <=> InLanes(job)
<1>1. CASE pending[k] # Unset /\ HasRoom(PriorityOf[k])
  <2>1. Enqueue(k, pending[k]) /\ pending' = [pending EXCEPT ![k] = Unset]
    BY <1>1 DEF PumpKey
  <2>2. pending[k] \in Generations
    BY <1>1 DEF TypeOK
  <2>3. JobOf(k, pending[k]) \in Job
    BY <2>2 DEF JobOf, Job
  <2> QED
    BY <1>1, <2>1, <2>2, <2>3, EnqueueCarries
<1>2. CASE ~(pending[k] # Unset /\ HasRoom(PriorityOf[k]))
  <2>1. UNCHANGED <<pending, queue>>
    BY <1>2 DEF PumpKey
  <2> QED
    BY <2>1 DEF InLanes, Holds
<1> QED
  BY <1>1, <1>2

(* A lane's thread moves jobs and loses none before shutdown.              *)
LEMMA LaneStepCarries ==
  ASSUME TypeOK, ~ShuttingDown, NEW l \in Lanes, LaneStep(l), NEW job
  PROVE  Carried(job)' <=> Carried(job)
<1>1. CASE Start(l)
  <2>1. /\ queue[l] # <<>> /\ ~Holds(l) /\ results' = results
        /\ queue' = [queue EXCEPT ![l] = Tail(queue[l])]
        /\ held' = [held EXCEPT ![l] = Head(queue[l])]
        /\ worker' = [worker EXCEPT ![l] = "running"]
    BY <1>1 DEF Start, Holds
  <2>2. JobsIn(queue[l]) = JobsIn(Tail(queue[l])) \cup {Head(queue[l])}
    BY <2>1, TakeEffect DEF TypeOK
  <2>3. InLanes(job)' <=> InLanes(job)
    BY <2>1, <2>2 DEF InLanes, Holds, TypeOK
  <2> QED
    BY <2>1, <2>3, CarriedJobs
<1>2. CASE Finish(l)
  <2>1. UNCHANGED <<queue, held, results>> /\ \A m \in Lanes : Holds(m)' <=> Holds(m)
    BY <1>2 DEF Finish, Holds, TypeOK
  <2> QED
    BY <2>1, CarriedJobs DEF InLanes
<1>3. CASE Send(l)
  <2>1. /\ Holds(l) /\ queue' = queue /\ results' = Append(results, held[l])
        /\ held' = [held EXCEPT ![l] = NoJob]
        /\ worker' = [worker EXCEPT ![l] = "receiving"]
    BY <1>3 DEF Send, Holds
  <2>2. JobsIn(results') = JobsIn(results) \cup {held[l]}
    BY <2>1, AppendEffect DEF TypeOK
  <2>3. InLanes(job) <=> InLanes(job)' \/ job = held[l]
    BY <2>1 DEF InLanes, Holds, TypeOK
  <2> QED
    BY <2>2, <2>3, CarriedJobs
<1>4. CASE Exit(l)
  <2>1. UNCHANGED <<queue, held, results>> /\ \A m \in Lanes : Holds(m)' <=> Holds(m)
    BY <1>4 DEF Exit, Holds, TypeOK
  <2> QED
    BY <2>1, CarriedJobs DEF InLanes
<1> QED
  BY <1>1, <1>2, <1>3, <1>4 DEF LaneStep, Skip

(* A completion is received: no other job of its key is anywhere, it is    *)
(* delivered if it is the newest, and its successor is queued or waits.    *)
LEMMA AcceptEffect ==
  ASSUME TypeOK, OneInFlight, AcceptCompletion, NEW done, done = Head(results)
  PROVE  /\ done \in Job /\ done.key \in Keys /\ done.generation \in Generations
         /\ done = JobOf(done.key, done.generation)
         /\ Carried(done) /\ ~ShuttingDown
         /\ \A job : job \in JobsIn(results') \/ InLanes(job)
                        => Carried(job) /\ job.key # done.key
         /\ \A job : Carried(job) => \/ job = done
                                     \/ job \in JobsIn(results') \/ InLanes(job)
         /\ UNCHANGED <<latest, worker, held>>
         /\ PumpKey(done.key, active \ {done.key})
         /\ \/ /\ latest[done.key] = done.generation
               /\ delivered' = [delivered EXCEPT ![done.key] = done.generation]
            \/ latest[done.key] # done.generation /\ UNCHANGED delivered
<1>1. /\ results # <<>> /\ results' = Tail(results) /\ ~ShuttingDown
      /\ UNCHANGED <<latest, worker, held>>
      /\ PumpKey(done.key, active \ {done.key})
      /\ \/ /\ latest[done.key] = done.generation
            /\ delivered' = [delivered EXCEPT ![done.key] = done.generation]
         \/ latest[done.key] # done.generation /\ UNCHANGED delivered
  BY DEF AcceptCompletion, ShuttingDown
<1>2. /\ done \in Job
      /\ JobsIn(results) = JobsIn(results') \cup {done}
      /\ KeysIn(results) = KeysIn(results') \cup {done.key}
      /\ done.key \notin KeysIn(results')
  BY <1>1, TakeEffect DEF TypeOK, OneInFlight
<1>3. ASSUME NEW job, job \in JobsIn(results') \/ InLanes(job)
      PROVE  Carried(job) /\ job.key # done.key
  <2>1. CASE job \in JobsIn(results')
    BY <1>2, <2>1, CarriedJobs, KeyOfMember
  <2>2. CASE InLanes(job)
    <3>1. PICK l \in Lanes : (Holds(l) /\ held[l] = job) \/ job \in JobsIn(queue[l])
      BY <2>2 DEF InLanes
    <3>2. /\ done.key \notin KeysIn(queue[l])
          /\ Holds(l) => held[l].key # done.key
      BY <1>2 DEF OneInFlight
    <3> QED
      BY <2>2, <3>1, <3>2, CarriedJobs, KeyOfMember
  <2> QED
    BY <1>3, <2>1, <2>2
<1>4. \A job : Carried(job) => job = done \/ job \in JobsIn(results') \/ InLanes(job)
  BY <1>2, CarriedJobs
<1>5. Carried(done)
  BY <1>2, CarriedJobs
<1>6. /\ done.key \in Keys /\ done.generation \in Generations
      /\ done = JobOf(done.key, done.generation)
  BY <1>2 DEF Job, JobOf
<1> QED
  BY <1>1, <1>2, <1>3, <1>4, <1>5, <1>6

(* The main thread's steps that touch no job.                              *)
LEMMA QuietSteps ==
  ASSUME \/ Poll("try_recv") \/ Poll("recv_timeout") \/ BeginPump \/ EndPump \/ TimeOut
         \/ UNCHANGED vars
  PROVE  /\ UNCHANGED <<latest, pending, delivered, results, queue, worker, held>>
         /\ ShuttingDown' <=> ShuttingDown
         /\ \A job : Carried(job)' <=> Carried(job)
<1>1. UNCHANGED <<latest, pending, delivered, results, queue, worker, held>>
  BY DEF Poll, BeginPump, EndPump, TimeOut, Return, vars, laneVars
<1>2. ShuttingDown' <=> ShuttingDown
  BY DEF Poll, BeginPump, EndPump, TimeOut, Return, vars, ShuttingDown
<1> QED
  BY <1>1, <1>2 DEF Carried, Holds

LEMMA Numbers ==
  ASSUME TypeOK
  PROVE  /\ Generations \subseteq Int
         /\ \A k \in Keys : latest[k] \in Int /\ delivered[k] \in Int /\ pending[k] \in Int
<1>1. Generations \subseteq Int /\ Unset \in Int
  BY GenerationsAssumption DEF Unset
<1>2. Generations \cup {Unset} \subseteq Int
  BY <1>1
<1>3. ASSUME NEW k \in Keys
      PROVE  /\ latest[k] \in Generations \cup {Unset}
             /\ delivered[k] \in Generations \cup {Unset}
             /\ pending[k] \in Generations \cup {Unset}
  BY DEF TypeOK
<1> QED
  BY <1>1, <1>2, <1>3

(* Fresh about one job, and about one key.                                 *)
FreshJob(job) == /\ delivered[job.key] < job.generation
                 /\ job.generation <= latest[job.key]
                 /\ pending[job.key] # Unset => job.generation < pending[job.key]
FreshKey(k) == /\ delivered[k] <= latest[k]
               /\ pending[k] # Unset => pending[k] = latest[k] /\ delivered[k] < latest[k]

LEMMA FreshParts ==
  ASSUME ~ShuttingDown
  PROVE  Fresh <=> /\ \A job \in Job : Carried(job) => FreshJob(job)
                   /\ \A k \in Keys : FreshKey(k)
BY DEF Fresh, FreshJob, FreshKey, PendingKeys

LEMMA FreshStep ==
  ASSUME TypeOK, OneInFlight, Phases, Fresh, [Next]_vars
  PROVE  Fresh'
<1> SUFFICES ASSUME ~ShuttingDown'
             PROVE  (\A job \in Job : Carried(job) => FreshJob(job))' /\ \A k \in Keys : FreshKey(k)'
  BY DEF Fresh, FreshJob, FreshKey, PendingKeys
<1> DEFINE Kept == (\A job \in Job : Carried(job)' => FreshJob(job)') /\ \A k \in Keys : FreshKey(k)'
<1>0. ASSUME ~ShuttingDown
      PROVE  (\A job \in Job : Carried(job) => FreshJob(job)) /\ \A k \in Keys : FreshKey(k)
  BY <1>0, FreshParts
<1>1. ASSUME UNCHANGED <<latest, pending, delivered>>, ~ShuttingDown,
             \A job \in Job : Carried(job)' => Carried(job)
      PROVE  Kept
  BY <1>0, <1>1 DEF FreshJob, FreshKey
<1>2. ASSUME NEW k \in Keys, NEW g \in Generations, Coalesce(k, g)
      PROVE  Kept
  <2>1. /\ g > latest[k] /\ ~ShuttingDown
        /\ latest' = [latest EXCEPT ![k] = g]
        /\ pending' = [pending EXCEPT ![k] = g]
        /\ UNCHANGED <<delivered, laneVars, results>>
    BY <1>2 DEF Coalesce, ShuttingDown
  <2>2. \A job \in Job : Carried(job)' <=> Carried(job)
    BY <2>1 DEF Carried, Holds, laneVars
  <2>3. \A q \in Keys : FreshKey(q)'
    BY <1>0, <2>1, Numbers DEF FreshKey, TypeOK
  <2>4. ASSUME NEW job \in Job, Carried(job) PROVE FreshJob(job)'
    <3>1. job.key \in Keys /\ job.generation \in Int
      BY Numbers DEF Job
    <3> QED
      BY <1>0, <2>1, <2>4, <3>1, Numbers DEF FreshJob, TypeOK
  <2> QED
    BY <2>2, <2>3, <2>4
<1>3. ASSUME NEW k \in Keys, NEW g \in Generations, QueueNew(k, g)
      PROVE  Kept
  <2>1. /\ g > latest[k] /\ ~ShuttingDown /\ k \notin PendingKeys
        /\ Enqueue(k, g)
        /\ latest' = [latest EXCEPT ![k] = g]
        /\ UNCHANGED <<delivered, pending, worker, held, results>>
    BY <1>3 DEF QueueNew, ShuttingDown
  <2>2. \A job \in Job : Carried(job)' <=> Carried(job) \/ job = JobOf(k, g)
    BY <2>1, EnqueueCarries, CarriedJobs
  <2>3. \A q \in Keys : FreshKey(q)'
    BY <1>0, <2>1, Numbers DEF FreshKey, TypeOK, PendingKeys
  <2>4. ASSUME NEW job \in Job, Carried(job) PROVE FreshJob(job)'
    <3>1. job.key \in Keys /\ job.generation \in Int
      BY Numbers DEF Job
    <3> QED
      BY <1>0, <2>1, <2>4, <3>1, Numbers DEF FreshJob, TypeOK
  <2>5. FreshJob(JobOf(k, g))'
    BY <1>0, <2>1, Numbers DEF FreshJob, FreshKey, JobOf, TypeOK, PendingKeys
  <2> QED
    BY <2>2, <2>3, <2>4, <2>5
<1>4. CASE AcceptCompletion
  <2> DEFINE done == Head(results)
  <2>1. /\ done \in Job /\ done.key \in Keys /\ done.generation \in Generations
        /\ Carried(done) /\ ~ShuttingDown
        /\ \A job : job \in JobsIn(results') \/ InLanes(job) => Carried(job) /\ job.key # done.key
        /\ UNCHANGED <<latest, worker, held>>
        /\ PumpKey(done.key, active \ {done.key})
        /\ \/ /\ latest[done.key] = done.generation
              /\ delivered' = [delivered EXCEPT ![done.key] = done.generation]
           \/ latest[done.key] # done.generation /\ UNCHANGED delivered
    BY <1>4, AcceptEffect
  <2> HIDE DEF done
  <2>2. FreshJob(done) /\ FreshKey(done.key)
    BY <1>0, <2>1
  <2>3. /\ \A q \in Keys \ {done.key} : delivered'[q] = delivered[q]
        /\ delivered'[done.key] \in Int /\ delivered'[done.key] <= latest[done.key]
        /\ pending[done.key] # Unset => delivered'[done.key] = delivered[done.key]
    BY <2>1, <2>2, Numbers DEF FreshJob, FreshKey, TypeOK
  <2>4. ASSUME NEW job \in Job, job \in JobsIn(results') \/ InLanes(job),
               pending'[job.key] = pending[job.key]
        PROVE  FreshJob(job)'
    <3>1. job.key \in Keys \ {done.key} /\ Carried(job)
      BY <2>1, <2>4 DEF Job
    <3> QED
      BY <1>0, <2>1, <2>3, <2>4, <3>1 DEF FreshJob
  <2>5. active \ {done.key} \in SUBSET Keys
    BY DEF TypeOK
  <2>6. CASE /\ pending[done.key] # Unset
             /\ pending' = [pending EXCEPT ![done.key] = Unset]
             /\ JobOf(done.key, pending[done.key]) \in Job
             /\ \A job : InLanes(job)' <=> InLanes(job) \/ job = JobOf(done.key, pending[done.key])
    <3>0. PICK next \in Job : next = JobOf(done.key, pending[done.key])
      BY <2>6
    <3>1. /\ pending'[done.key] = Unset
          /\ \A q \in Keys \ {done.key} : pending'[q] = pending[q]
      BY <2>1, <2>6 DEF TypeOK
    <3>2. FreshJob(next)'
      <4>1. next.key = done.key /\ next.generation = pending[done.key]
        BY <3>0 DEF JobOf
      <4>2. delivered[done.key] < latest[done.key] /\ pending[done.key] = latest[done.key]
        BY <2>2, <2>6 DEF FreshKey
      <4> QED
        BY <2>1, <2>3, <2>6, <3>1, <4>1, <4>2, Numbers DEF FreshJob
    <3>3. \A q \in Keys : FreshKey(q)'
      BY <1>0, <2>1, <2>3, <3>1 DEF FreshKey
    <3>4. ASSUME NEW job \in Job, Carried(job)'
          PROVE  FreshJob(job)'
      <4>1. \/ job \in JobsIn(results') \/ InLanes(job)
            \/ job = next
        BY <2>6, <3>0, <3>4, CarriedJobs
      <4>2. job \in JobsIn(results') \/ InLanes(job) => pending'[job.key] = pending[job.key]
        BY <2>1, <3>1 DEF Job
      <4> QED
        BY <2>4, <3>2, <4>1, <4>2
    <3> QED
      BY <3>3, <3>4
  <2>7. CASE UNCHANGED pending /\ \A job : InLanes(job)' <=> InLanes(job)
    <3>1. \A q \in Keys : FreshKey(q)'
      BY <1>0, <2>1, <2>3, <2>7 DEF FreshKey
    <3>2. \A job \in Job : Carried(job)' => FreshJob(job)'
      BY <2>4, <2>7, CarriedJobs
    <3> QED
      BY <3>1, <3>2
  <2> QED
    BY <2>1, <2>5, <2>6, <2>7, PumpCarries
<1>5. ASSUME NEW k \in Keys, PumpOne(k)
      PROVE  Kept
  <2>1. /\ PumpKey(k, active) /\ active \in SUBSET Keys /\ ~ShuttingDown
        /\ UNCHANGED <<latest, delivered, worker, held, results>>
    BY <1>5 DEF PumpOne, ShuttingDown, TypeOK
  <2>2. CASE /\ pending[k] # Unset
             /\ pending' = [pending EXCEPT ![k] = Unset]
             /\ JobOf(k, pending[k]) \in Job
             /\ \A job : InLanes(job)' <=> InLanes(job) \/ job = JobOf(k, pending[k])
    <3>0. PICK next \in Job : next = JobOf(k, pending[k])
      BY <2>2
    <3>1. \A q \in Keys : pending'[q] \in {pending[q], Unset}
      BY <2>2 DEF TypeOK
    <3>2. \A q \in Keys : FreshKey(q)'
      BY <1>0, <2>1, <3>1 DEF FreshKey
    <3>3. ASSUME NEW job \in Job, Carried(job) PROVE FreshJob(job)'
      <4>1. job.key \in Keys
        BY DEF Job
      <4> QED
        BY <1>0, <2>1, <3>1, <3>3, <4>1 DEF FreshJob
    <3>4. FreshJob(next)'
      <4>1. pending'[k] = Unset /\ next.key = k /\ next.generation = pending[k]
        BY <2>2, <3>0 DEF TypeOK, JobOf
      <4>2. delivered[k] < latest[k] /\ pending[k] = latest[k]
        BY <1>0, <2>1, <2>2 DEF FreshKey
      <4> QED
        BY <2>1, <4>1, <4>2, Numbers DEF FreshJob
    <3>5. \A job \in Job : Carried(job)' => Carried(job) \/ job = next
      BY <2>1, <2>2, <3>0, CarriedJobs
    <3> QED
      BY <3>2, <3>3, <3>4, <3>5
  <2>3. CASE UNCHANGED pending /\ \A job : InLanes(job)' <=> InLanes(job)
    BY <1>1, <2>1, <2>3, CarriedJobs
  <2> QED
    BY <2>1, <2>2, <2>3, PumpCarries
<1>6. CASE Shutdown \/ JoinHigh \/ JoinLow
  BY <1>6 DEF Shutdown, JoinHigh, JoinLow, ShuttingDown
<1>7. ASSUME NEW l \in Lanes, LaneStep(l)
      PROVE  Kept
  <2>1. UNCHANGED mainVars
    BY <1>7 DEF LaneStep, Start, Skip, Finish, Send, Exit
  <2>2. ~ShuttingDown /\ UNCHANGED <<latest, pending, delivered>>
    BY <2>1 DEF mainVars, ShuttingDown
  <2> QED
    BY <1>1, <1>7, <2>2, LaneStepCarries
<1>8. CASE Poll("try_recv") \/ Poll("recv_timeout") \/ BeginPump \/ EndPump \/ TimeOut
           \/ UNCHANGED vars
  BY <1>1, <1>8, QuietSteps
<1> QED
  BY <1>2, <1>3, <1>4, <1>5, <1>6, <1>7, <1>8 DEF Next, PollStep

(* NewestSurvives about one key.                                           *)
Survives(k) == \/ latest[k] \in {delivered[k], pending[k]}
               \/ Carried(JobOf(k, latest[k]))

LEMMA NewestStep ==
  ASSUME TypeOK, OneInFlight, Phases, Fresh, NewestSurvives, [Next]_vars
  PROVE  NewestSurvives'
<1> SUFFICES ASSUME ~ShuttingDown', NEW k \in Keys
             PROVE  Survives(k)'
  BY DEF NewestSurvives, Survives, JobOf
<1>0. ASSUME ~ShuttingDown PROVE Survives(k)
  BY <1>0 DEF NewestSurvives, Survives, JobOf
<1>1. ASSUME latest'[k] = latest[k], delivered'[k] = delivered[k], pending'[k] = pending[k],
             ~ShuttingDown, \A job : Carried(job) => Carried(job)'
      PROVE  Survives(k)'
  BY <1>0, <1>1 DEF Survives, JobOf
<1>2. ASSUME NEW q \in Keys, NEW g \in Generations, Coalesce(q, g)
      PROVE  Survives(k)'
  <2>1. /\ latest' = [latest EXCEPT ![q] = g] /\ pending' = [pending EXCEPT ![q] = g]
        /\ UNCHANGED <<delivered, laneVars, results>> /\ ~ShuttingDown
    BY <1>2 DEF Coalesce, ShuttingDown
  <2>2. \A job : Carried(job) => Carried(job)'
    BY <2>1 DEF Carried, Holds, laneVars
  <2>3. CASE q = k
    BY <2>1, <2>3 DEF Survives, TypeOK
  <2>4. CASE q # k
    BY <1>1, <2>1, <2>2, <2>4 DEF TypeOK
  <2> QED
    BY <2>3, <2>4
<1>3. ASSUME NEW q \in Keys, NEW g \in Generations, QueueNew(q, g)
      PROVE  Survives(k)'
  <2>1. /\ latest' = [latest EXCEPT ![q] = g] /\ Enqueue(q, g)
        /\ UNCHANGED <<delivered, pending, worker, held, results>> /\ ~ShuttingDown
    BY <1>3 DEF QueueNew, ShuttingDown
  <2>2. \A job : Carried(job)' <=> Carried(job) \/ job = JobOf(q, g)
    BY <2>1, EnqueueCarries, CarriedJobs
  <2>3. CASE q = k
    <3>1. latest'[k] = g
      BY <2>1, <2>3 DEF TypeOK
    <3> QED
      BY <2>2, <2>3, <3>1 DEF Survives
  <2>4. CASE q # k
    BY <1>1, <2>1, <2>2, <2>4 DEF TypeOK
  <2> QED
    BY <2>3, <2>4
<1>4. CASE AcceptCompletion
  <2>0. PICK done : done = Head(results)
    OBVIOUS
  <2>1. /\ done \in Job /\ done.key \in Keys /\ done.generation \in Generations
        /\ done = JobOf(done.key, done.generation) /\ ~ShuttingDown
        /\ \A job : Carried(job) => \/ job = done
                                    \/ job \in JobsIn(results') \/ InLanes(job)
        /\ UNCHANGED <<latest, worker, held>>
        /\ PumpKey(done.key, active \ {done.key})
        /\ \/ /\ latest[done.key] = done.generation
              /\ delivered' = [delivered EXCEPT ![done.key] = done.generation]
           \/ latest[done.key] # done.generation /\ UNCHANGED delivered
    BY <1>4, <2>0, AcceptEffect
  <2>2. active \ {done.key} \in SUBSET Keys
    BY DEF TypeOK
  <2>3. CASE k = done.key /\ latest[k] = done.generation
    <3>1. delivered'[k] = latest'[k]
      BY <2>1, <2>3 DEF TypeOK
    <3> QED
      BY <3>1 DEF Survives
  <2>4. CASE ~(k = done.key /\ latest[k] = done.generation)
    <3>1. delivered'[k] = delivered[k] /\ latest'[k] = latest[k]
      BY <2>1, <2>4 DEF TypeOK
    <3>2. JobOf(k, latest[k]) # done
      BY <2>1, <2>4 DEF JobOf
    <3>3. PICK newest : newest = JobOf(k, latest[k])
      OBVIOUS
    <3>4. \/ latest[k] \in {delivered[k], pending[k]}
          \/ newest \in JobsIn(results') \/ InLanes(newest)
      BY <1>0, <2>1, <3>2, <3>3 DEF Survives
    <3>5. /\ InLanes(newest) => InLanes(newest)'
          /\ \/ pending'[k] = pending[k]
             \/ pending[k] # latest[k]
             \/ InLanes(newest)'
      <4>1. CASE /\ pending' = [pending EXCEPT ![done.key] = Unset]
                 /\ \A job : InLanes(job)' <=> \/ InLanes(job)
                                               \/ job = JobOf(done.key, pending[done.key])
        BY <2>1, <3>3, <4>1 DEF TypeOK
      <4>2. CASE UNCHANGED pending /\ \A job : InLanes(job)' <=> InLanes(job)
        BY <4>2
      <4> QED
        BY <2>1, <2>2, <4>1, <4>2, PumpCarries
    <3>6. newest = JobOf(k, latest'[k])
      BY <3>1, <3>3
    <3>7. Carried(newest)' \/ latest'[k] \in {delivered'[k], pending'[k]}
      BY <3>1, <3>4, <3>5, CarriedJobs
    <3> QED
      BY <3>6, <3>7 DEF Survives
  <2> QED
    BY <2>3, <2>4
<1>5. ASSUME NEW q \in Keys, PumpOne(q)
      PROVE  Survives(k)'
  <2>1. /\ PumpKey(q, active) /\ active \in SUBSET Keys /\ ~ShuttingDown
        /\ UNCHANGED <<latest, delivered, worker, held, results>>
    BY <1>5 DEF PumpOne, ShuttingDown, TypeOK
  <2>2. CASE /\ pending[q] # Unset
             /\ pending' = [pending EXCEPT ![q] = Unset]
             /\ \A job : InLanes(job)' <=> InLanes(job) \/ job = JobOf(q, pending[q])
    <3>1. \A job : Carried(job) => Carried(job)'
      BY <2>1, <2>2, CarriedJobs
    <3>2. CASE q = k
      <4>1. PICK newest : newest = JobOf(k, latest[k])
        OBVIOUS
      <4>2. pending[k] = latest[k]
        BY <2>1, <2>2, <3>2, FreshParts DEF FreshKey
      <4>3. Carried(newest)' /\ newest = JobOf(k, latest'[k])
        BY <2>1, <2>2, <3>2, <4>1, <4>2, CarriedJobs
      <4> QED
        BY <4>3 DEF Survives
    <3>3. CASE q # k
      BY <1>1, <2>1, <2>2, <3>1, <3>3 DEF TypeOK
    <3> QED
      BY <3>2, <3>3
  <2>3. CASE UNCHANGED pending /\ \A job : InLanes(job)' <=> InLanes(job)
    BY <1>1, <2>1, <2>3, CarriedJobs
  <2> QED
    BY <2>1, <2>2, <2>3, PumpCarries
<1>6. CASE Shutdown \/ JoinHigh \/ JoinLow
  BY <1>6 DEF Shutdown, JoinHigh, JoinLow, ShuttingDown
<1>7. ASSUME NEW l \in Lanes, LaneStep(l)
      PROVE  Survives(k)'
  <2>1. UNCHANGED mainVars
    BY <1>7 DEF LaneStep, Start, Skip, Finish, Send, Exit
  <2>2. ~ShuttingDown /\ UNCHANGED <<latest, pending, delivered>>
    BY <2>1 DEF mainVars, ShuttingDown
  <2> QED
    BY <1>1, <1>7, <2>2, LaneStepCarries
<1>8. CASE Poll("try_recv") \/ Poll("recv_timeout") \/ BeginPump \/ EndPump \/ TimeOut
           \/ UNCHANGED vars
  BY <1>1, <1>8, QuietSteps
<1> QED
  BY <1>2, <1>3, <1>4, <1>5, <1>6, <1>7, <1>8 DEF Next, PollStep

LEMMA FreshInit == Init => Fresh /\ NewestSurvives
BY DEF Init, Fresh, NewestSurvives, Carried, Holds, PendingKeys, Unset

Inv == TypeOK /\ Phases /\ Ownership /\ OneInFlight /\ Fresh /\ NewestSurvives

LEMMA InvHolds == Spec => []Inv
<1>1. Init => Inv
  BY PhasesInit, OwnershipInit, FreshInit, EmptySeq DEF Init, TypeOK, Holds, Inv
<1>2. Inv /\ [Next]_vars => Inv'
  BY TypeStep, PhasesStep, OwnershipStep, FreshStep, NewestStep DEF Inv
<1> QED
  BY <1>1, <1>2, PTL DEF Spec

(* Until shutdown the newest accepted generation of a key is delivered,    *)
(* waits or is under way.                                                  *)
THEOREM NewestIsKept == Spec => []NewestSurvives
BY InvHolds, PTL DEF Inv

(***************************************************************************)
(* The executor implements the latest-wins mailbox.                        *)
(***************************************************************************)

LEMMA MailboxStep ==
  ASSUME Inv, [Next]_vars
  PROVE  [Mailbox!Next]_(Mailbox!absVars)
<1> USE DEF Mailbox!absVars
<1>1. ASSUME NEW k \in Keys, NEW g \in Generations, Coalesce(k, g) \/ QueueNew(k, g)
      PROVE  Mailbox!Accept(k, g)
  <2>1. /\ ~ShuttingDown /\ g > latest[k] /\ latest' = [latest EXCEPT ![k] = g]
        /\ UNCHANGED <<delivered, main>>
    BY <1>1 DEF Coalesce, QueueNew, ShuttingDown
  <2> QED
    BY <2>1 DEF Mailbox!Accept, ShuttingDown
<1>2. CASE AcceptCompletion
  <2>0. PICK done : done = Head(results)
    OBVIOUS
  <2>1. /\ done \in Job /\ done.key \in Keys /\ Carried(done) /\ ~ShuttingDown
        /\ UNCHANGED latest
        /\ \/ /\ latest[done.key] = done.generation
              /\ delivered' = [delivered EXCEPT ![done.key] = done.generation]
           \/ latest[done.key] # done.generation /\ UNCHANGED delivered
    BY <1>2, <2>0, AcceptEffect DEF Inv
  <2>2. ~ShuttingDown'
    BY <1>2 DEF AcceptCompletion, Return, ShuttingDown
  <2>3. delivered[done.key] < done.generation
    BY <2>1, FreshParts DEF FreshJob, Inv
  <2>4. (ShuttingDown)' = ShuttingDown
    BY <2>1, <2>2 DEF ShuttingDown
  <2>5. CASE latest[done.key] = done.generation
    <3>1. Mailbox!Deliver(done.key)
      BY <2>1, <2>3, <2>4, <2>5 DEF Mailbox!Deliver
    <3> QED
      BY <2>1, <3>1 DEF Mailbox!Next
  <2>6. CASE latest[done.key] # done.generation
    BY <2>1, <2>4, <2>6
  <2> QED
    BY <2>5, <2>6
<1>3. ASSUME NEW k \in Keys, PumpOne(k)
      PROVE  UNCHANGED Mailbox!absVars
  BY <1>3 DEF PumpOne, ShuttingDown
<1>4. CASE Poll("try_recv") \/ Poll("recv_timeout") \/ BeginPump \/ EndPump \/ TimeOut
           \/ UNCHANGED vars
  BY <1>4 DEF Poll, BeginPump, EndPump, TimeOut, Return, vars, ShuttingDown
<1>5. CASE Shutdown
  BY <1>5 DEF Shutdown, ShuttingDown, Mailbox!Next, Mailbox!Close
<1>6. CASE JoinHigh
  BY <1>6 DEF JoinHigh, ShuttingDown
<1>7. CASE JoinLow
  BY <1>7 DEF JoinLow, ShuttingDown, Mailbox!Next, Mailbox!Forget, Unset, Mailbox!Unset
<1>8. ASSUME NEW l \in Lanes, LaneStep(l)
      PROVE  UNCHANGED Mailbox!absVars
  <2>1. UNCHANGED mainVars
    BY <1>8 DEF LaneStep, Start, Skip, Finish, Send, Exit
  <2> QED
    BY <2>1 DEF mainVars, ShuttingDown
<1> QED
  BY <1>1, <1>2, <1>3, <1>4, <1>5, <1>6, <1>7, <1>8 DEF Next, PollStep, Mailbox!Next

(* What the caller sees of the lanes, threads and channels is a mailbox    *)
(* per key that hands back the newest accepted generation, each once.      *)
THEOREM ExecutorIsMailbox == Spec => ImplementsMailbox
<1>1. Init => Mailbox!Init
  BY DEF Init, Mailbox!Init, ShuttingDown, Unset, Mailbox!Unset
<1>2. Inv /\ [Next]_vars => [Mailbox!Next]_(Mailbox!absVars)
  BY MailboxStep
<1> QED
  BY <1>1, <1>2, InvHolds, PTL DEF Spec, ImplementsMailbox, Mailbox!Spec

=============================================================================
