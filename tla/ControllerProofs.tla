-------------------------- MODULE ControllerProofs ---------------------------
(***************************************************************************)
(* Machine-checked proofs about Controller, for every set of               *)
(* conversations, every length of the queue and every bound.               *)
(***************************************************************************)
EXTENDS Controller, TLAPS, SequenceTheorems

(***************************************************************************)
(* What an action can disturb: most leave the jobs that change Herdr, the  *)
(* references and the paging alone.                                        *)
(***************************************************************************)

Untouched == UNCHANGED <<gate, inputs>> /\ intents' \in {intents, intents + 1}

(* The agents, Herdr, the queue of the worker, and starting.               *)
Surroundings == \/ \E c \in Conversations : AgentStarts(c)
                \/ AgentStops \/ StatusChanges \/ HerdrFails \/ HerdrRecovers
                \/ QueueFills \/ QueueDrains
                \/ ConfigLoads \/ Bootstrapped \/ BootstrapFails
                \/ SwitchView \/ Refresh
(* Paging and polling.                                                     *)
Listing == \/ ReadPage \/ ApplyPage \/ PageFails
           \/ ReadSessions \/ ApplyLive \/ ApplyUnchanged \/ ApplyChanged \/ LiveFails
           \/ Elapse \/ TickLiveSensor

LEMMA NextCases ==
  ASSUME [Next]_vars
  PROVE  \/ Surroundings \/ Listing
         \/ LaunchConversation \/ Launched
         \/ SendFileReference \/ InputDone \/ InputFails
         \/ UNCHANGED vars
BY DEF Next, Surroundings, Listing

LEMMA SurroundingsLeaveGates ==
  ASSUME Surroundings
  PROVE  Untouched
<1> USE DEF Untouched, gate, inputs, bounds
<1>1. ASSUME NEW c \in Conversations, AgentStarts(c) PROVE Untouched
  BY <1>1 DEF AgentStarts, Changes
<1>2. CASE AgentStops
  BY <1>2 DEF AgentStops, Changes
<1>3. CASE StatusChanges
  BY <1>3 DEF StatusChanges, Changes
<1>4. CASE HerdrFails \/ HerdrRecovers
  BY <1>4 DEF HerdrFails, HerdrRecovers
<1>5. CASE QueueFills \/ QueueDrains
  BY <1>5 DEF QueueFills, QueueDrains
<1>6. CASE ConfigLoads \/ Bootstrapped \/ BootstrapFails
  BY <1>6 DEF ConfigLoads, Bootstrapped, BootstrapFails
<1>7. CASE SwitchView \/ Refresh
  BY <1>7 DEF SwitchView, Refresh, Intent
<1> QED
  BY <1>1, <1>2, <1>3, <1>4, <1>5, <1>6, <1>7 DEF Surroundings

LEMMA ListingLeavesGates ==
  ASSUME Listing
  PROVE  Untouched
<1> USE DEF Untouched, gate, inputs, bounds
<1>1. CASE ReadPage \/ ApplyPage \/ PageFails
  BY <1>1 DEF ReadPage, ApplyPage, PageFails
<1>2. CASE ReadSessions \/ LiveFails
  BY <1>2 DEF ReadSessions, LiveFails
<1>3. CASE ApplyLive \/ ApplyUnchanged \/ ApplyChanged
  BY <1>3 DEF ApplyLive, ApplyUnchanged, ApplyChanged
<1>4. CASE Elapse \/ TickLiveSensor
  BY <1>4 DEF Elapse, TickLiveSensor
<1> QED
  BY <1>1, <1>2, <1>3, <1>4 DEF Listing

(* The pages, the list and what they are of.                               *)
paging == <<store, sessions, history, live, drifted>>

LEMMA JobsLeavePaging ==
  ASSUME LaunchConversation \/ Launched \/ SendFileReference \/ InputDone \/ InputFails
  PROVE  UNCHANGED <<disk, paging>>
<1> USE DEF paging, disk, world, lives
<1>1. CASE LaunchConversation \/ Launched
  BY <1>1 DEF LaunchConversation, Launched
<1>2. CASE SendFileReference \/ InputDone \/ InputFails
  BY <1>2 DEF SendFileReference, InputDone, InputFails
<1> QED
  BY <1>1, <1>2

(***************************************************************************)
(* Types.                                                                  *)
(***************************************************************************)

LEMMA JobsDiffer ==
  /\ None \notin Nat /\ Waiting \notin Page \cup Sessions /\ Failed \notin Page \cup Sessions
  /\ None \notin Page \cup Sessions \cup Conversations
  /\ None # Waiting /\ None # Failed /\ Waiting # Failed
BY NoneAssumption

LEMMA AppendNat ==
  ASSUME NEW s \in Seq(Nat), NEW n \in Nat
  PROVE  /\ Append(s, n) \in Seq(Nat) /\ Append(s, n) # <<>>
         /\ Len(Append(s, n)) = Len(s) + 1
         /\ \A i \in 1..Len(s) : Append(s, n)[i] = s[i]
         /\ Append(s, n)[Len(s) + 1] = n
BY AppendProperties

(* start_next_pane_input() leaves the input idle, as it is, or sending the *)
(* first of what waits.                                                    *)
LEMMA StartsNext ==
  ASSUME NEW waiting, NEW running, NEW said, StartNextInput(waiting, running, said)
  PROVE  \/ running /\ queue' = waiting /\ input_running' = running /\ input' = input
         \/ ~running /\ queue' = <<>> /\ input_running' = FALSE /\ input' = None
            /\ (waiting # <<>> => notice' = "unavailable")
         \/ ~running /\ waiting # <<>>
            /\ queue' = Tail(waiting) /\ input_running' = TRUE /\ input' = Head(waiting)
BY DEF StartNextInput

LEMMA InputTypesStep ==
  ASSUME TypeOK, [Next]_vars
  PROVE  /\ launch' \in {None, Waiting}
         /\ input' \in Nat \cup {None}
         /\ queue' \in Seq(Nat)
         /\ inserted' \in Seq(Nat)
         /\ intents' \in Nat
<1>1. ASSUME NEW waiting \in Seq(Nat), NEW running, NEW said,
             StartNextInput(waiting, running, said)
      PROVE  input' \in Nat \cup {None} /\ queue' \in Seq(Nat)
  <2>1. waiting # <<>> => Head(waiting) \in Nat /\ Tail(waiting) \in Seq(Nat)
    BY HeadTailProperties
  <2>2. input \in Nat \cup {None}
    BY DEF TypeOK
  <2>3. <<>> \in Seq(Nat)
    BY EmptySeq
  <2> QED
    BY <1>1, <2>1, <2>2, <2>3, StartsNext
<1>2. CASE Surroundings \/ Listing \/ UNCHANGED vars
  <2>1. Untouched
    BY <1>2, SurroundingsLeaveGates, ListingLeavesGates DEF Untouched, vars, bounds
  <2> QED
    BY <2>1 DEF Untouched, TypeOK, gate, inputs
<1>3. CASE LaunchConversation \/ Launched
  BY <1>3 DEF LaunchConversation, Launched, Intent, TypeOK, inputs, bounds
<1>4. CASE SendFileReference
  <2> DEFINE picked == Append(queue, intents')
  <2>1. intents' = intents + 1 /\ UNCHANGED <<launch, inserted>>
    BY <1>4 DEF SendFileReference, Intent, gate
  <2>2. picked \in Seq(Nat) /\ picked # <<>>
    <3>1. queue \in Seq(Nat) /\ intents' \in Nat
      BY <2>1 DEF TypeOK
    <3> QED
      BY <3>1, AppendNat
  <2>3. Head(picked) \in Nat /\ Tail(picked) \in Seq(Nat) /\ <<>> \in Seq(Nat)
    BY <2>2, HeadTailProperties, EmptySeq
  <2>4. \/ UNCHANGED <<input, queue>>
        \/ StartNextInput(picked, input_running, notice)
    BY <1>4 DEF SendFileReference
  <2> HIDE DEF picked
  <2>5. /\ input' \in {input, None, Head(picked)}
        /\ queue' \in {queue, picked, <<>>, Tail(picked)}
    BY <2>4 DEF StartNextInput
  <2>6. intents' \in Nat /\ launch' \in {None, Waiting}
    BY <2>1 DEF TypeOK
  <2>7. inserted' \in Seq(Nat)
    BY <2>1 DEF TypeOK
  <2>8. input' \in Nat \cup {None}
    BY <2>3, <2>5 DEF TypeOK
  <2>9. queue' \in Seq(Nat)
    BY <2>2, <2>3, <2>5 DEF TypeOK
  <2> QED
    BY <2>6, <2>7, <2>8, <2>9
<1>5. CASE InputDone \/ InputFails
  <2>1. /\ input \in Nat
        /\ inserted' \in {inserted, Append(inserted, input)}
        /\ UNCHANGED <<launch, intents>>
    BY <1>5 DEF InputDone, InputFails, TypeOK, gate, bounds
  <2>2. Append(inserted, input) \in Seq(Nat)
    <3>1. inserted \in Seq(Nat)
      BY DEF TypeOK
    <3> QED
      BY <2>1, <3>1, AppendNat
  <2>3. \E said : StartNextInput(queue, FALSE, said)
    BY <1>5 DEF InputDone, InputFails
  <2> QED
    BY <1>1, <2>1, <2>2, <2>3 DEF TypeOK
<1> QED
  BY <1>2, <1>3, <1>4, <1>5, NextCases

(* A page without an end that was cut short has all that is on the disk.   *)
LEMMA ReadPageEffect ==
  ASSUME TypeOK, ReadPage
  PROVE  /\ UNCHANGED <<store, sessions, live, loading, filesystem, asked, degraded, drifted>>
         /\ index' \subseteq store
         /\ \/ discovery' = Failed
            \/ /\ discovery' \in Page
               /\ ~discovery'.more /\ ~discovery'.degraded
                     => store \subseteq discovery'.conversations
<1>1. UNCHANGED <<store, sessions, live, loading, filesystem, asked, degraded, drifted>>
  BY DEF ReadPage, world, lives
<1>2. index' \subseteq store
  BY DEF ReadPage, TypeOK
<1>3. index' \subseteq Conversations /\ store \subseteq Conversations
  BY <1>2 DEF TypeOK
<1>4. CASE discovery' = [conversations |-> index', more |-> index' # store, degraded |-> FALSE]
  <2>1. CASE index' = store
    BY <1>1, <1>2, <1>3, <1>4, <2>1 DEF Page
  <2>2. CASE index' # store
    BY <1>1, <1>2, <1>3, <1>4, <2>2 DEF Page
  <2> QED
    BY <2>1, <2>2
<1>5. ASSUME NEW found \in SUBSET store,
             discovery' = [conversations |-> found, more |-> FALSE, degraded |-> TRUE]
      PROVE  discovery' \in Page /\ discovery'.degraded
  BY <1>3, <1>5 DEF Page
<1> QED
  BY <1>1, <1>2, <1>4, <1>5 DEF ReadPage

(* The transcripts, the sessions, and the jobs that read them.             *)
LEMMA ReadTypesStep ==
  ASSUME TypeOK, [Next]_vars
  PROVE  /\ store' \subseteq Conversations /\ index' \subseteq store'
         /\ sessions' \in Sessions
         /\ discovery' \in {None, Waiting, Failed} \cup Page
         /\ live' \in {None, Waiting, Failed} \cup Sessions
<1> DEFINE Read == <<store, index, sessions, discovery, live>>
<1> DEFINE Goal == /\ store' \subseteq Conversations /\ index' \subseteq store'
                   /\ sessions' \in Sessions
                   /\ discovery' \in {None, Waiting, Failed} \cup Page
                   /\ live' \in {None, Waiting, Failed} \cup Sessions
<1>1. CASE UNCHANGED Read
  BY <1>1 DEF TypeOK
<1>2. ASSUME NEW c \in Conversations, AgentStarts(c) PROVE Goal
  <2>1. UNCHANGED <<index, discovery, live>>
    BY <1>2 DEF AgentStarts, Changes, history, lives
  <2>2. sessions' \in Sessions /\ store' = store \cup {c}
    BY <1>2 DEF AgentStarts, Sessions, Statuses
  <2> QED
    BY <2>1, <2>2 DEF TypeOK
<1>3. CASE AgentStops \/ StatusChanges
  <2>1. UNCHANGED <<store, index, discovery, live>>
    BY <1>3 DEF AgentStops, StatusChanges, Changes, history, lives
  <2>2. CASE AgentStops
    BY <2>1, <2>2 DEF AgentStops, Sessions, TypeOK
  <2>3. CASE StatusChanges
    <3>1. sessions \in [reference : Conversations, status : Statuses]
      BY <2>3 DEF StatusChanges, TypeOK, Sessions, NoSession
    <3>2. sessions' \in [reference : Conversations, status : Statuses]
      BY <2>3, <3>1 DEF StatusChanges
    <3> QED
      BY <2>1, <3>2 DEF TypeOK, Sessions
  <2> QED
    BY <1>3, <2>2, <2>3
<1>4. CASE HerdrFails \/ HerdrRecovers \/ QueueFills \/ QueueDrains
           \/ Bootstrapped \/ BootstrapFails \/ SwitchView
  BY <1>1, <1>4 DEF HerdrFails, HerdrRecovers, QueueFills, QueueDrains, Bootstrapped,
     BootstrapFails, SwitchView, disk, world, history, lives
<1>5. CASE ConfigLoads \/ Refresh
  <2>1. UNCHANGED <<store, index, sessions>>
    BY <1>5 DEF ConfigLoads, Refresh, disk, world
  <2>2. discovery' \in {None, Waiting} /\ live' \in {None, Waiting}
    BY <1>5 DEF ConfigLoads, Refresh, ScheduleConversations, SchedulePage, ScheduleLive
  <2> QED
    BY <2>1, <2>2 DEF TypeOK
<1>6. CASE LaunchConversation \/ Launched \/ SendFileReference \/ InputDone \/ InputFails
  BY <1>1, <1>6, JobsLeavePaging DEF disk, paging, history, lives
<1>7. CASE ReadPage
  BY <1>7, ReadPageEffect DEF TypeOK
<1>8. CASE ApplyPage \/ PageFails
  <2>1. UNCHANGED <<store, index, sessions, live>>
    BY <1>8 DEF ApplyPage, PageFails, disk, world, lives
  <2>2. discovery' \in {None, Waiting}
    BY <1>8 DEF ApplyPage, PageFails
  <2> QED
    BY <2>1, <2>2 DEF TypeOK
<1>9. CASE ReadSessions \/ ApplyLive \/ ApplyUnchanged \/ LiveFails \/ Elapse \/ TickLiveSensor
  <2>1. UNCHANGED <<store, index, sessions, discovery>>
    BY <1>9 DEF ReadSessions, ApplyLive, ApplyUnchanged, LiveFails, Elapse, TickLiveSensor,
       disk, world, history
  <2>2. live' \in {live, None, Waiting, Failed, sessions}
    BY <1>9 DEF ReadSessions, ApplyLive, ApplyUnchanged, LiveFails, Elapse, TickLiveSensor, lives
  <2> QED
    BY <2>1, <2>2 DEF TypeOK
<1>10. CASE ApplyChanged
  <2>1. UNCHANGED <<store, index, sessions>> /\ live' = None
    BY <1>10 DEF ApplyChanged, disk, world
  <2>2. discovery' \in {discovery, None, Waiting}
    BY <1>10 DEF ApplyChanged, SchedulePage
  <2> QED
    BY <2>1, <2>2 DEF TypeOK
<1>11. CASE UNCHANGED vars
  BY <1>1, <1>11 DEF vars, disk, world, history, lives
<1> QED
  BY <1>2, <1>3, <1>4, <1>5, <1>6, <1>7, <1>8, <1>9, <1>10, <1>11, NextCases
     DEF Surroundings, Listing

(* The types hold in every state.                                          *)
THEOREM ControllerTypes == Spec => []TypeOK
<1>1. Init => TypeOK
  BY EmptySeq DEF Init, TypeOK
<1>2. TypeOK /\ [Next]_vars => TypeOK'
  BY InputTypesStep, ReadTypesStep DEF TypeOK
<1> QED
  BY <1>1, <1>2, PTL DEF Spec

(***************************************************************************)
(* The gates.                                                              *)
(***************************************************************************)

LEMMA GatesMatchStep ==
  ASSUME TypeOK, GatesMatch, [Next]_vars
  PROVE  GatesMatch'
<1>1. CASE Surroundings \/ Listing \/ UNCHANGED vars
  <2>1. UNCHANGED <<gate, inputs>>
    BY <1>1, SurroundingsLeaveGates, ListingLeavesGates DEF Untouched, vars
  <2> QED
    BY <2>1 DEF GatesMatch, gate, inputs
<1>2. CASE LaunchConversation \/ Launched
  <2>1. UNCHANGED inputs
    BY <1>2 DEF LaunchConversation, Launched
  <2>2. launch_running' <=> launch' # None
    BY <1>2, JobsDiffer DEF LaunchConversation, Launched
  <2> QED
    BY <2>1, <2>2 DEF GatesMatch, inputs
<1>3. CASE SendFileReference
  <2> DEFINE picked == Append(queue, intents')
  <2>1. picked \in Seq(Nat) /\ picked # <<>>
    <3>1. intents' = intents + 1
      BY <1>3 DEF SendFileReference, Intent
    <3>2. queue \in Seq(Nat) /\ intents' \in Nat
      BY <3>1 DEF TypeOK
    <3> QED
      BY <3>2, AppendNat
  <2>2. Head(picked) # None
    BY <2>1, HeadTailProperties, NoneAssumption
  <2>3. UNCHANGED gate
    BY <1>3 DEF SendFileReference
  <2>4. \/ UNCHANGED <<input, input_running, queue>>
        \/ StartNextInput(picked, input_running, notice)
    BY <1>3 DEF SendFileReference
  <2> HIDE DEF picked
  <2> QED
    BY <2>1, <2>2, <2>3, <2>4 DEF GatesMatch, gate, StartNextInput
<1>4. CASE InputDone \/ InputFails
  <2>1. queue # <<>> => Head(queue) # None
    BY HeadTailProperties, NoneAssumption DEF TypeOK
  <2>2. UNCHANGED gate
    BY <1>4 DEF InputDone, InputFails
  <2>3. \E said : StartNextInput(queue, FALSE, said)
    BY <1>4 DEF InputDone, InputFails
  <2> QED
    BY <2>1, <2>2, <2>3 DEF GatesMatch, gate, StartNextInput
<1> QED
  BY <1>1, <1>2, <1>3, <1>4, NextCases

(* The gates agree with the jobs in every state.                           *)
THEOREM GatesAgree == Spec => []GatesMatch
<1>1. Init => GatesMatch
  BY DEF Init, GatesMatch
<1>2. TypeOK /\ GatesMatch /\ [Next]_vars => GatesMatch'
  BY GatesMatchStep
<1> QED
  BY <1>1, <1>2, ControllerTypes, PTL DEF Spec

(***************************************************************************)
(* The order of the references.                                            *)
(***************************************************************************)

LEMMA IncreasingAppend ==
  ASSUME NEW s \in Seq(Nat), NEW n \in Nat, Increasing(s), \A i \in 1..Len(s) : s[i] < n
  PROVE  Increasing(Append(s, n))
BY AppendNat DEF Increasing

LEMMA IncreasingTail ==
  ASSUME NEW s \in Seq(Nat), s # <<>>, Increasing(s)
  PROVE  /\ Increasing(Tail(s))
         /\ \A j \in 1..Len(Tail(s)) : Tail(s)[j] = s[j + 1] /\ j + 1 \in 1..Len(s)
         /\ \A j \in 1..Len(Tail(s)) : s[1] < Tail(s)[j]
         /\ 1 \in 1..Len(s) /\ Head(s) = s[1]
<1>1. Len(s) \in Nat \ {0} /\ Len(Tail(s)) = Len(s) - 1 /\ Head(s) = s[1]
  BY EmptySeq, LenProperties, HeadTailProperties
<1>2. \A j \in 1..Len(Tail(s)) : Tail(s)[j] = s[j + 1] /\ j + 1 \in 1..Len(s)
  BY <1>1, HeadTailProperties
<1> QED
  BY <1>1, <1>2 DEF Increasing

(* Sending the first of what waits, or giving all of it up, keeps the      *)
(* order.                                                                  *)
LEMMA StartsInOrder ==
  ASSUME NEW ins \in Seq(Nat), NEW waiting \in Seq(Nat), NEW top \in Nat,
         Increasing(ins), Increasing(waiting),
         \A i \in 1..Len(ins) : ins[i] <= top,
         \A j \in 1..Len(waiting) : waiting[j] <= top,
         \A i \in 1..Len(ins), j \in 1..Len(waiting) : ins[i] < waiting[j],
         inserted' = ins, intents' = top,
         \/ queue' = <<>> /\ input' = None
         \/ waiting # <<>> /\ queue' = Tail(waiting) /\ input' = Head(waiting)
  PROVE  PickedInOrder'
<1>1. CASE queue' = <<>> /\ input' = None
  BY <1>1 DEF PickedInOrder, Increasing
<1>2. CASE waiting # <<>> /\ queue' = Tail(waiting) /\ input' = Head(waiting)
  BY <1>2, IncreasingTail DEF PickedInOrder
<1> QED
  BY <1>1, <1>2

LEMMA PickedInOrderStep ==
  ASSUME TypeOK, GatesMatch, PickedInOrder, [Next]_vars
  PROVE  PickedInOrder'
<1>1. CASE UNCHANGED <<input, queue, inserted>> /\ intents' \in {intents, intents + 1}
  BY <1>1, LenProperties, ElementOfSeq DEF PickedInOrder, Increasing, TypeOK
<1>2. CASE Surroundings \/ Listing \/ UNCHANGED vars
  BY <1>1, <1>2, SurroundingsLeaveGates, ListingLeavesGates DEF Untouched, vars, inputs, bounds
<1>3. CASE LaunchConversation \/ Launched
  BY <1>1, <1>3 DEF LaunchConversation, Launched, Intent, inputs, bounds
<1>4. CASE SendFileReference
  <2>1. intents' = intents + 1 /\ UNCHANGED inserted
    BY <1>4 DEF SendFileReference, Intent
  <2>2. CASE UNCHANGED <<input, queue>>
    BY <1>1, <2>1, <2>2
  <2>3. CASE StartNextInput(Append(queue, intents'), input_running, notice)
    <3> DEFINE picked == Append(queue, intents')
    <3>1. /\ intents \in Nat /\ intents' \in Nat /\ queue \in Seq(Nat) /\ Increasing(queue)
          /\ inserted \in Seq(Nat) /\ Increasing(inserted)
      BY <2>1 DEF TypeOK, PickedInOrder
    <3>2. \A j \in 1..Len(queue) : queue[j] < intents'
      BY <2>1, <3>1, ElementOfSeq DEF PickedInOrder
    <3>3. /\ picked \in Seq(Nat) /\ picked # <<>> /\ Len(picked) = Len(queue) + 1
          /\ \A j \in 1..Len(queue) : picked[j] = queue[j]
          /\ picked[Len(queue) + 1] = intents'
      BY <3>1, AppendNat
    <3>0. Increasing(picked)
      BY <3>1, <3>2, IncreasingAppend
    <3>4. /\ \A j \in 1..Len(picked) : picked[j] = intents' \/ j \in 1..Len(queue)
          /\ \A j \in 1..Len(picked) : picked[j] <= intents'
      <4>1. Len(queue) \in Nat /\ \A j \in 1..Len(queue) : queue[j] <= intents'
        BY <3>1, <3>2, LenProperties, ElementOfSeq
      <4> HIDE DEF picked
      <4>2. \A j \in 1..Len(picked) : j \in 1..Len(queue) \/ j = Len(queue) + 1
        BY <3>3, <4>1
      <4>3. ASSUME NEW j \in 1..Len(picked)
            PROVE  (picked[j] = intents' \/ j \in 1..Len(queue)) /\ picked[j] <= intents'
        <5>1. CASE j \in 1..Len(queue)
          BY <3>3, <4>1, <5>1
        <5>2. CASE j = Len(queue) + 1
          BY <3>1, <3>3, <5>2
        <5> QED
          BY <4>2, <5>1, <5>2
      <4> QED
        BY <4>3
    <3>5. /\ \A i \in 1..Len(inserted) : inserted[i] < intents' /\ inserted[i] <= intents'
          /\ \A i \in 1..Len(inserted), j \in 1..Len(picked) : inserted[i] < picked[j]
      BY <2>1, <3>1, <3>3, <3>4, ElementOfSeq DEF PickedInOrder
    <3>6. CASE input_running
      <4>1. queue' = picked /\ input' = input
        BY <2>3, <3>6 DEF StartNextInput
      <4>2. input # None => \A j \in 1..Len(picked) : input < picked[j]
        BY <2>1, <3>1, <3>3, <3>4 DEF PickedInOrder, TypeOK
      <4> HIDE DEF picked
      <4> QED
        BY <2>1, <3>0, <3>1, <3>3, <3>4, <3>5, <4>1, <4>2 DEF PickedInOrder, TypeOK, Increasing
    <3>7. CASE ~input_running
      <4>1. \/ queue' = <<>> /\ input' = None
            \/ queue' = Tail(picked) /\ input' = Head(picked)
        BY <2>3, <3>3, <3>7 DEF StartNextInput
      <4> HIDE DEF picked
      <4> QED
        BY <2>1, <3>0, <3>1, <3>3, <3>4, <3>5, <4>1, StartsInOrder
    <3> QED
      BY <3>6, <3>7
  <2> QED
    BY <1>4, <2>2, <2>3 DEF SendFileReference
<1>5. CASE InputDone \/ InputFails
  <2>1. /\ input \in Nat
        /\ inserted' \in {inserted, Append(inserted, input)}
        /\ intents' = intents
    BY <1>5 DEF InputDone, InputFails, TypeOK, bounds
  <2>2. \/ queue' = <<>> /\ input' = None
        \/ queue # <<>> /\ queue' = Tail(queue) /\ input' = Head(queue)
    BY <1>5 DEF InputDone, InputFails, StartNextInput
  <2>3. CASE inserted' = inserted
    BY <2>1, <2>2, <2>3, StartsInOrder DEF PickedInOrder, TypeOK
  <2>4. CASE inserted' = Append(inserted, input)
    <3> DEFINE ins == Append(inserted, input)
    <3>1. /\ inserted \in Seq(Nat) /\ Increasing(inserted)
          /\ queue \in Seq(Nat) /\ Increasing(queue) /\ intents \in Nat
          /\ \A i \in 1..Len(inserted) : inserted[i] < input
      BY <2>1, NoneAssumption DEF PickedInOrder, TypeOK
    <3>2. /\ ins \in Seq(Nat) /\ Increasing(ins) /\ Len(ins) = Len(inserted) + 1
          /\ \A i \in 1..Len(inserted) : ins[i] = inserted[i]
          /\ ins[Len(inserted) + 1] = input
      BY <2>1, <3>1, AppendNat, IncreasingAppend
    <3>3. \A i \in 1..Len(ins) :
             ins[i] = input \/ (i \in 1..Len(inserted) /\ ins[i] = inserted[i])
      BY <3>1, <3>2, LenProperties
    <3>4. input # None
      BY <2>1, NoneAssumption
    <3>5. /\ \A i \in 1..Len(ins) : ins[i] <= intents
          /\ \A j \in 1..Len(queue) : queue[j] <= intents
          /\ \A i \in 1..Len(ins), j \in 1..Len(queue) : ins[i] < queue[j]
      BY <2>1, <3>3, <3>4 DEF PickedInOrder
    <3> HIDE DEF ins
    <3>6. inserted' = ins
      BY <2>4 DEF ins
    <3> QED
      BY <2>1, <2>2, <3>1, <3>2, <3>5, <3>6, StartsInOrder
  <2> QED
    BY <2>1, <2>3, <2>4
<1> QED
  BY <1>2, <1>3, <1>4, <1>5, NextCases

(* The parts are one sequence that increases.                              *)
LEMMA OnTheWayInOrder ==
  ASSUME TypeOK, PickedInOrder
  PROVE  InputsInOrder
<1> DEFINE sending == IF input = None THEN <<>> ELSE <<input>>
<1> DEFINE here == inserted \o sending
<1>1. inserted \in Seq(Nat) /\ queue \in Seq(Nat) /\ (input # None => input \in Nat)
  BY DEF TypeOK
<1>2. /\ sending \in Seq(Nat)
      /\ Len(sending) = IF input = None THEN 0 ELSE 1
      /\ \A i \in 1..Len(sending) : sending[i] = input /\ input # None
  BY <1>1
<1> HIDE DEF sending
<1>3. /\ here \in Seq(Nat) /\ Len(here) = Len(inserted) + Len(sending)
      /\ \A i \in 1..Len(here) :
            here[i] = IF i <= Len(inserted) THEN inserted[i] ELSE sending[i - Len(inserted)]
  <2>1. inserted \in Seq(Nat) /\ sending \in Seq(Nat)
    BY <1>1, <1>2
  <2>2. Len(here) = Len(inserted) + Len(sending)
    BY <2>1, ConcatProperties
  <2> QED
    BY <2>1, <2>2, ConcatProperties
<1>4. Increasing(here) /\ \A i \in 1..Len(here), j \in 1..Len(queue) : here[i] < queue[j]
  <2> HIDE DEF here
  <2>1. Len(inserted) \in Nat /\ Len(sending) \in {0, 1}
    BY <1>1, <1>2, LenProperties
  <2>2. \A i \in 1..Len(here) : \/ i \in 1..Len(inserted) /\ here[i] = inserted[i]
                                \/ i = Len(inserted) + 1 /\ here[i] = input /\ input # None
    BY <1>2, <1>3, <2>1
  <2> QED
    BY <2>1, <2>2 DEF PickedInOrder, Increasing
<1> HIDE DEF here
<1>5. /\ Len(here \o queue) = Len(here) + Len(queue)
      /\ \A i \in 1..Len(here) + Len(queue) : (here \o queue)[i] =
            IF i <= Len(here) THEN here[i] ELSE queue[i - Len(here)]
  BY <1>1, <1>3, ConcatProperties
<1>6. Len(here) \in Nat /\ Len(queue) \in Nat /\ Increasing(queue)
  BY <1>1, <1>3, LenProperties DEF PickedInOrder
<1>7. Increasing(here \o queue)
  BY <1>4, <1>5, <1>6 DEF Increasing
<1>8. OnTheWay = here \o queue
  BY DEF OnTheWay, here, sending
<1> QED
  BY <1>7, <1>8 DEF InputsInOrder, Increasing

(* References reach the pane in the order they were picked, each once.     *)
THEOREM ReferencesInOrder == Spec => []InputsInOrder
<1>1. Init => PickedInOrder
  BY DEF Init, PickedInOrder, Increasing
<1>2. TypeOK /\ GatesMatch /\ PickedInOrder /\ [Next]_vars => PickedInOrder'
  BY PickedInOrderStep
<1>3. TypeOK /\ PickedInOrder => InputsInOrder
  BY OnTheWayInOrder
<1> QED
  BY <1>1, <1>2, <1>3, ControllerTypes, GatesAgree, PTL DEF Spec

(***************************************************************************)
(* What is given up is told.                                               *)
(***************************************************************************)

LEMMA ToSetOfAppend ==
  ASSUME NEW s \in Seq(Nat), NEW n \in Nat
  PROVE  ToSet(Append(s, n)) = ToSet(s) \cup {n}
<1>1. /\ Append(s, n) \in Seq(Nat) /\ Len(Append(s, n)) = Len(s) + 1
      /\ \A i \in 1..Len(s) : Append(s, n)[i] = s[i]
      /\ Append(s, n)[Len(s) + 1] = n
  BY AppendNat
<1>2. Len(s) \in Nat /\ DOMAIN s = 1..Len(s) /\ DOMAIN Append(s, n) = 1..Len(s) + 1
  BY <1>1, LenProperties
<1>3. \A i \in 1..Len(s) + 1 : i \in 1..Len(s) \/ i = Len(s) + 1
  BY <1>2
<1>4. \A i \in 1..Len(s) : i \in 1..Len(s) + 1
  BY <1>2
<1>5. Len(s) + 1 \in 1..Len(s) + 1
  BY <1>2
<1> QED
  BY <1>1, <1>2, <1>3, <1>4, <1>5 DEF ToSet

LEMMA ToSetOfTail ==
  ASSUME NEW s \in Seq(Nat), s # <<>>
  PROVE  ToSet(s) = {Head(s)} \cup ToSet(Tail(s))
<1>1. /\ Len(s) \in Nat \ {0} /\ Head(s) = s[1]
      /\ Tail(s) \in Seq(Nat) /\ Len(Tail(s)) = Len(s) - 1
      /\ \A i \in 1..Len(s) - 1 : Tail(s)[i] = s[i + 1]
  BY EmptySeq, LenProperties, HeadTailProperties
<1>2. DOMAIN s = 1..Len(s) /\ DOMAIN Tail(s) = 1..Len(s) - 1
  BY <1>1, LenProperties
<1>3. \A i \in 1..Len(s) : i = 1 \/ (i - 1 \in 1..Len(s) - 1 /\ s[i] = Tail(s)[i - 1])
  BY <1>1
<1>4. \A i \in 1..Len(s) - 1 : i + 1 \in 1..Len(s)
  BY <1>1
<1>5. 1 \in 1..Len(s)
  BY <1>1
<1>6. ASSUME NEW x \in ToSet(s) PROVE x \in {Head(s)} \cup ToSet(Tail(s))
  <2>1. PICK i \in 1..Len(s) : x = s[i]
    BY <1>2, <1>6 DEF ToSet
  <2> QED
    BY <1>1, <1>2, <1>3, <2>1 DEF ToSet
<1>7. ASSUME NEW x \in {Head(s)} \cup ToSet(Tail(s)) PROVE x \in ToSet(s)
  <2>1. CASE x = s[1]
    BY <1>2, <1>5, <2>1 DEF ToSet
  <2>2. CASE x \in ToSet(Tail(s))
    <3>1. PICK i \in 1..Len(s) - 1 : x = Tail(s)[i]
      BY <1>2, <2>2 DEF ToSet
    <3> QED
      BY <1>1, <1>2, <1>4, <3>1 DEF ToSet
  <2> QED
    BY <1>1, <1>7, <2>1, <2>2
<1> QED
  BY <1>6, <1>7

LEMMA ToSetOfConcat ==
  ASSUME NEW s \in Seq(Nat), NEW t \in Seq(Nat)
  PROVE  ToSet(s \o t) = ToSet(s) \cup ToSet(t)
<1>1. /\ s \o t \in Seq(Nat) /\ Len(s \o t) = Len(s) + Len(t)
      /\ \A i \in 1..Len(s) + Len(t) :
            (s \o t)[i] = IF i <= Len(s) THEN s[i] ELSE t[i - Len(s)]
  BY ConcatProperties
<1>2. /\ Len(s) \in Nat /\ Len(t) \in Nat /\ DOMAIN s = 1..Len(s) /\ DOMAIN t = 1..Len(t)
      /\ DOMAIN (s \o t) = 1..Len(s) + Len(t)
  BY <1>1, LenProperties
<1>3. \A i \in 1..Len(s) : i \in 1..Len(s) + Len(t) /\ (s \o t)[i] = s[i]
  BY <1>1, <1>2
<1>4. \A i \in 1..Len(t) : /\ Len(s) + i \in 1..Len(s) + Len(t)
                           /\ (s \o t)[Len(s) + i] = t[i]
  BY <1>1, <1>2
<1>5. \A i \in 1..Len(s) + Len(t) : \/ i \in 1..Len(s) /\ (s \o t)[i] = s[i]
                                    \/ i - Len(s) \in 1..Len(t) /\ (s \o t)[i] = t[i - Len(s)]
  BY <1>1, <1>2
<1>6. ASSUME NEW x \in ToSet(s \o t) PROVE x \in ToSet(s) \cup ToSet(t)
  <2>1. PICK i \in 1..Len(s) + Len(t) : x = (s \o t)[i]
    BY <1>2, <1>6 DEF ToSet
  <2> QED
    BY <1>2, <1>5, <2>1 DEF ToSet
<1>7. ASSUME NEW x \in ToSet(s) PROVE x \in ToSet(s \o t)
  <2>1. PICK i \in 1..Len(s) : x = s[i]
    BY <1>2, <1>7 DEF ToSet
  <2> QED
    BY <1>2, <1>3, <2>1 DEF ToSet
<1>8. ASSUME NEW x \in ToSet(t) PROVE x \in ToSet(s \o t)
  <2>1. PICK i \in 1..Len(t) : x = t[i]
    BY <1>2, <1>8 DEF ToSet
  <2> QED
    BY <1>2, <1>4, <2>1 DEF ToSet
<1> QED
  BY <1>6, <1>7, <1>8

(* The references on the way: in the pane, being sent, waiting.            *)
LEMMA ToSetOfParts ==
  ASSUME NEW ins \in Seq(Nat), NEW cur \in Nat \cup {None}, NEW q \in Seq(Nat)
  PROVE  ToSet(ins \o (IF cur = None THEN <<>> ELSE <<cur>>) \o q)
            = ToSet(ins) \cup ({cur} \ {None}) \cup ToSet(q)
<1>1. CASE cur = None
  <2>1. ins \o <<>> = ins
    BY ConcatEmptySeq
  <2> QED
    BY <1>1, <2>1, ToSetOfConcat
<1>2. CASE cur \in Nat /\ cur # None
  <2>1. <<cur>> \in Seq(Nat) /\ ToSet(<<cur>>) = {cur}
    BY <1>2 DEF ToSet
  <2>2. ins \o <<cur>> \in Seq(Nat) /\ ToSet(ins \o <<cur>>) = ToSet(ins) \cup {cur}
    BY <2>1, ConcatProperties, ToSetOfConcat
  <2> QED
    BY <1>2, <2>2, ToSetOfConcat
<1> QED
  BY <1>1, <1>2

LEMMA NoSilentDropStep ==
  ASSUME TypeOK, TypeOK', GatesMatch, [Next]_vars,
         ~(ToSet(OnTheWay) \subseteq ToSet(OnTheWay'))
  PROVE  notice' # "none"
<1> DEFINE Here == ToSet(inserted) \cup ({input} \ {None}) \cup ToSet(queue)
<1>1. ToSet(OnTheWay) = Here
  <2>1. inserted \in Seq(Nat) /\ input \in Nat \cup {None} /\ queue \in Seq(Nat)
    BY DEF TypeOK
  <2> QED
    BY <2>1, ToSetOfParts DEF OnTheWay
<1>2. ToSet(OnTheWay') = Here'
  <2>1. inserted' \in Seq(Nat) /\ input' \in Nat \cup {None} /\ queue' \in Seq(Nat)
    BY DEF TypeOK
  <2> QED
    BY <2>1, ToSetOfParts DEF OnTheWay
<1>3. ~(UNCHANGED <<inserted, input, queue>>)
  BY <1>1, <1>2
<1>4. ASSUME Untouched \/ LaunchConversation \/ Launched \/ UNCHANGED vars
      PROVE  FALSE
  BY <1>3, <1>4 DEF Untouched, LaunchConversation, Launched, vars, inputs
<1>5. CASE SendFileReference
  <2> DEFINE picked == Append(queue, intents')
  <2>1. UNCHANGED inserted
    BY <1>5 DEF SendFileReference
  <2>2. queue \in Seq(Nat) /\ intents' \in Nat
    BY <1>5 DEF SendFileReference, Intent, TypeOK
  <2>3. picked \in Seq(Nat) /\ picked # <<>> /\ ToSet(queue) \subseteq ToSet(picked)
    BY <2>2, AppendNat, ToSetOfAppend
  <2>4. ToSet(picked) = {Head(picked)} \cup ToSet(Tail(picked)) /\ Head(picked) # None
    BY <2>3, ToSetOfTail, HeadTailProperties, NoneAssumption
  <2>5. StartNextInput(picked, input_running, notice)
    BY <1>3, <1>5 DEF SendFileReference
  <2> HIDE DEF picked
  <2>6. CASE input_running
    <3>1. queue' = picked /\ input' = input
      BY <2>5, <2>6 DEF StartNextInput
    <3> QED
      BY <1>1, <1>2, <2>1, <2>3, <3>1
  <2>7. CASE ~input_running /\ full
    BY <2>3, <2>5, <2>7 DEF StartNextInput
  <2>8. CASE ~input_running /\ ~full
    <3>1. queue' = Tail(picked) /\ input' = Head(picked) /\ input = None
      BY <2>3, <2>5, <2>8 DEF StartNextInput, GatesMatch
    <3> QED
      BY <1>1, <1>2, <2>1, <2>3, <2>4, <3>1
  <2> QED
    BY <2>6, <2>7, <2>8
<1>6. CASE InputDone
  <2>1. inserted \in Seq(Nat) /\ input \in Nat /\ queue \in Seq(Nat)
    BY <1>6 DEF InputDone, TypeOK
  <2>2. ToSet(inserted') = ToSet(inserted) \cup {input}
    BY <1>6, <2>1, ToSetOfAppend DEF InputDone
  <2>3. StartNextInput(queue, FALSE, "none")
    BY <1>6 DEF InputDone
  <2>4. CASE queue = <<>>
    <3>1. queue' = queue
      BY <2>3, <2>4 DEF StartNextInput
    <3> QED
      BY <1>1, <1>2, <2>2, <3>1
  <2>5. CASE queue # <<>> /\ full
    BY <2>3, <2>5 DEF StartNextInput
  <2>6. CASE queue # <<>> /\ ~full
    <3>1. queue' = Tail(queue) /\ input' = Head(queue)
      BY <2>3, <2>6 DEF StartNextInput
    <3>2. ToSet(queue) = {Head(queue)} \cup ToSet(Tail(queue)) /\ Head(queue) # None
      BY <2>1, <2>6, ToSetOfTail, HeadTailProperties, NoneAssumption
    <3> QED
      BY <1>1, <1>2, <2>2, <3>1, <3>2
  <2> QED
    BY <2>4, <2>5, <2>6
<1>7. CASE InputFails
  BY <1>7 DEF InputFails, StartNextInput
<1> QED
  BY <1>4, <1>5, <1>6, <1>7, NextCases, SurroundingsLeaveGates, ListingLeavesGates

(* A reference that is given up leaves a notice.                           *)
THEOREM DropsAreTold == Spec => NoSilentDrop
<1>1. TypeOK /\ TypeOK' /\ GatesMatch /\ [Next]_vars
         => [~(ToSet(OnTheWay) \subseteq ToSet(OnTheWay')) => notice' # "none"]_vars
  BY NoSilentDropStep
<1> QED
  BY <1>1, ControllerTypes, GatesAgree, PTL DEF Spec, NoSilentDrop

(***************************************************************************)
(* What is listed once the paging has come to its end.                     *)
(***************************************************************************)

(* A page that is asked for covers all that is on the disk, and leaves no  *)
(* end of the paging behind.                                               *)
LEMMA PageAskedFor ==
  ASSUME PagingKept, TypeOK, NEW show_loading, SchedulePage(show_loading)
  PROVE  /\ asked' = store /\ discovery' \in {None, Waiting}
         /\ discovery' = None => loading' = "error"
BY JobsDiffer DEF SchedulePage, PagingKept

LEMMA PagingStep ==
  ASSUME TypeOK, PagingKept, ListComplete, [Next]_vars
  PROVE  PagingKept' /\ ListComplete'
<1> DEFINE Kept == PagingKept' /\ ListComplete'
<1>1. CASE UNCHANGED <<discovery, loading, filesystem, asked, degraded, drifted>>
           /\ store \subseteq store'
           /\ sessions'.reference \in store' \cup {None}
           /\ (live' = live \/ live' \notin Sessions \/ live' = sessions)
  BY <1>1 DEF PagingKept, ListComplete
<1>2. ASSUME NEW c \in Conversations, AgentStarts(c) PROVE Kept
  BY <1>1, <1>2 DEF AgentStarts, Changes, history, lives
<1>3. CASE AgentStops \/ StatusChanges
  <2>1. sessions'.reference \in store \cup {None}
    <3>1. CASE AgentStops
      BY <3>1 DEF AgentStops, NoSession
    <3>2. CASE StatusChanges
      <4>1. sessions \in [reference : Conversations, status : Statuses]
        BY <3>2 DEF StatusChanges, TypeOK, Sessions, NoSession
      <4> QED
        BY <3>2, <4>1 DEF StatusChanges, PagingKept
    <3> QED
      BY <1>3, <3>1, <3>2
  <2> QED
    BY <1>1, <1>3, <2>1 DEF AgentStops, StatusChanges, Changes, history, lives
<1>4. CASE HerdrFails \/ HerdrRecovers \/ QueueFills \/ QueueDrains
           \/ Bootstrapped \/ BootstrapFails \/ SwitchView
  BY <1>1, <1>4 DEF HerdrFails, HerdrRecovers, QueueFills, QueueDrains, Bootstrapped,
     BootstrapFails, SwitchView, disk, world, history, lives, PagingKept
<1>5. CASE ConfigLoads \/ Refresh
  <2>1. UNCHANGED <<store, sessions>> /\ ScheduleConversations
    BY <1>5 DEF ConfigLoads, Refresh, disk, world
  <2>2. UNCHANGED drifted /\ ScheduleLive /\ SchedulePage(TRUE)
    BY <2>1 DEF ScheduleConversations
  <2>3. live' \in {None, Waiting}
    BY <2>2 DEF ScheduleLive
  <2>4. /\ asked' = store /\ discovery' \in {None, Waiting}
        /\ discovery' = None => loading' = "error"
    BY <2>2, PageAskedFor
  <2> QED
    BY <2>1, <2>2, <2>3, <2>4, JobsDiffer DEF PagingKept, ListComplete
<1>6. CASE LaunchConversation \/ Launched \/ SendFileReference \/ InputDone \/ InputFails
  <2>1. UNCHANGED <<disk, paging, sessions>>
    BY <1>6, JobsLeavePaging DEF paging
  <2> QED
    BY <1>1, <2>1 DEF disk, paging, history, lives, PagingKept
<1>7. CASE ReadPage
  <2>1. /\ UNCHANGED <<store, sessions, live, loading, filesystem, asked, degraded, drifted>>
        /\ discovery' # None
        /\ discovery' \in Page /\ ~discovery'.more /\ ~discovery'.degraded
              => store \subseteq discovery'.conversations
    BY <1>7, ReadPageEffect, JobsDiffer
  <2> QED
    BY <2>1 DEF PagingKept, ListComplete
<1>8. CASE ApplyPage
  <2>1. UNCHANGED <<store, sessions, live, drifted>>
    BY <1>8 DEF ApplyPage, disk, world, lives
  <2>2. CASE ~discovery.more
    BY <1>8, <2>1, <2>2, JobsDiffer DEF ApplyPage, PagingKept, ListComplete
  <2>3. CASE discovery.more
    BY <1>8, <2>1, <2>3, JobsDiffer DEF ApplyPage, PagingKept, ListComplete
  <2> QED
    BY <2>2, <2>3
<1>9. CASE PageFails
  BY <1>9, JobsDiffer DEF PageFails, disk, world, lives, PagingKept, ListComplete
<1>10. CASE ReadSessions \/ ApplyLive \/ ApplyUnchanged \/ LiveFails \/ Elapse \/ TickLiveSensor
  <2>1. UNCHANGED <<store, sessions, history, drifted>>
    BY <1>10 DEF ReadSessions, ApplyLive, ApplyUnchanged, LiveFails, Elapse, TickLiveSensor,
       disk, world
  <2>2. live' \in {live, None, Waiting, Failed, sessions}
    BY <1>10 DEF ReadSessions, ApplyLive, ApplyUnchanged, LiveFails, Elapse, TickLiveSensor, lives
  <2> QED
    BY <1>1, <2>1, <2>2, JobsDiffer DEF history, PagingKept
<1>11. CASE ApplyChanged
  <2>1. /\ UNCHANGED <<store, sessions, filesystem, degraded>> /\ live' = None
        /\ live \in Sessions
    BY <1>11 DEF ApplyChanged, disk, world
  <2>2. CASE ReferenceChanged(live)
    <3>1. /\ asked' = store /\ discovery' \in {None, Waiting}
          /\ discovery' = None => loading' = "error"
      BY <1>11, <2>2, PageAskedFor DEF ApplyChanged
    <3>2. drifted' = drifted \cup {live.reference} /\ live.reference \in store
      BY <1>11, <2>1, <2>2 DEF ApplyChanged, ReferenceChanged, PagingKept
    <3> QED
      BY <2>1, <3>1, <3>2, JobsDiffer DEF PagingKept, ListComplete
  <2>3. CASE ~ReferenceChanged(live)
    <3>1. UNCHANGED <<drifted, discovery, loading, asked>>
      BY <1>11, <2>3 DEF ApplyChanged, ReferenceChanged
    <3> QED
      BY <1>1, <2>1, <3>1, JobsDiffer DEF PagingKept
  <2> QED
    BY <2>2, <2>3
<1>12. CASE UNCHANGED vars
  BY <1>1, <1>12 DEF vars, disk, world, history, lives, PagingKept
<1> QED
  BY <1>2, <1>3, <1>4, <1>5, <1>6, <1>7, <1>8, <1>9, <1>10, <1>11, <1>12, NextCases
     DEF Surroundings, Listing

(* Everything that was asked for, and every session met, is listed once    *)
(* the paging has come to its end.                                         *)
THEOREM EverythingAskedIsListed == Spec => []ListComplete
<1>1. Init => PagingKept /\ ListComplete
  BY JobsDiffer DEF Init, PagingKept, ListComplete
<1>2. TypeOK /\ PagingKept /\ ListComplete /\ [Next]_vars => PagingKept' /\ ListComplete'
  BY PagingStep
<1> QED
  BY <1>1, <1>2, ControllerTypes, PTL DEF Spec

=============================================================================
