----------------------------- MODULE Controller -----------------------------
(***************************************************************************)
(* The controller of a dock (src/src/controller.rs): it starts the         *)
(* subsystems, pages through the conversations on disk, polls the sessions *)
(* that live in Herdr, opens conversations and sends file references, each *)
(* by a job of the worker, and applies what the jobs bring back.           *)
(*                                                                         *)
(* Of the jobs of one key the worker hands back the newest only            *)
(* (LatestWins), so a key is modelled by its newest job: none, one that    *)
(* waits, or what it found.  A generation that is not the newest request's *)
(* is then one of no job, and pending_generation is whether the newest     *)
(* live request is a quiet one.  The time to the next poll is left open.   *)
(***************************************************************************)
EXTENDS Naturals, FiniteSets, SequencesExt

CONSTANTS Conversations,   \* the conversations that agents may start
          None, Waiting, Failed,   \* no job; one that waits or runs; one without an answer
          Adaptive,        \* the configuration has a live sensor
          MaxQueue,        \* MAX_PENDING_PANE_INPUTS
          MaxChanges, MaxIntents, MaxFaults

Views == {"files", "conversations"}
Statuses == {"working", "idle"}
Page == [conversations : SUBSET Conversations, more : BOOLEAN, degraded : BOOLEAN]
NoSession == [reference |-> None, status |-> "idle"]
Sessions == {NoSession} \cup [reference : Conversations, status : Statuses]

ASSUME NoneAssumption ==
    /\ None # Waiting /\ None # Failed /\ Waiting # Failed
    /\ {None, Waiting, Failed} \cap (Conversations \cup Sessions \cup Page \cup Nat) = {}
ASSUME BoundAssumption ==
    Adaptive \in BOOLEAN /\ MaxQueue \in Nat \ {0} /\ {MaxChanges, MaxIntents, MaxFaults} \subseteq Nat

VARIABLES
    store, index,            \* transcripts on the disk, those the cache knows
    sessions, herdr,         \* what lives in Herdr's pane, whether Herdr answers
    full,                    \* a key without a job finds no place in the worker
    view, started,           \* active_view, subsystems_started
    bootstrap, files,        \* its job; the files runtime: "absent", "paused", "active"
    discovery, loading, filesystem,
    live, live_loading, live_error, live_snapshot,
    pending_sensor, fingerprint, references, due,    \* the LiveSensor
    launch, launch_running,
    input, input_running, queue, notice,
    inserted,                \* auxiliary: the references that reached the pane
    asked,                   \* auxiliary: what was to be listed when a page was last asked for
    drifted,                 \* auxiliary: the sessions that quiet polls have met
    degraded,                \* auxiliary: the last page had no cache
    changes, intents, faults

disk == <<store, index>>
world == <<sessions, herdr>>
sensor == <<pending_sensor, fingerprint, references, due>>
lives == <<live, live_loading, live_error, live_snapshot>>
history == <<discovery, loading, filesystem, asked, degraded>>
gate == <<launch, launch_running>>
inputs == <<input, input_running, queue, notice, inserted>>
filesVars == <<bootstrap, files>>
bounds == <<changes, intents, faults>>
vars == <<disk, world, full, view, started, filesVars, history, lives, sensor, drifted,
          gate, inputs, bounds>>

-----------------------------------------------------------------------------
(* Submitting jobs.  A job for a key that has one is always taken.         *)

Takes(job) == job # None \/ ~full

(* schedule_conversation_page().                                           *)
SchedulePage(show_loading) ==
    /\ discovery' = IF Takes(discovery) THEN Waiting ELSE None
    /\ loading' = IF ~Takes(discovery) THEN "error"
                  ELSE IF show_loading THEN "loading" ELSE loading
    /\ asked' = asked \cup store

(* schedule_live_poll() for the user, with take_pending_live_sensor().     *)
ScheduleLive ==
    /\ pending_sensor' = FALSE
    /\ live' = IF Takes(live) THEN Waiting ELSE None
    /\ IF Takes(live)
       THEN live_loading' = TRUE /\ UNCHANGED <<live_error, live_snapshot>>
       ELSE live_loading' = FALSE /\ live_error' = TRUE /\ live_snapshot' = None
    /\ UNCHANGED <<fingerprint, references, due>>

(* schedule_conversations().                                               *)
ScheduleConversations ==
    /\ SchedulePage(TRUE)
    /\ ScheduleLive
    /\ UNCHANGED <<filesystem, degraded, drifted>>

(* Mutant: what a full worker refuses is dropped without a notice.         *)
MutStartNextInput(waiting, running, said) ==
    IF running \/ waiting = <<>>
    THEN /\ queue' = waiting
         /\ input_running' = running
         /\ notice' = said
         /\ input' = IF running THEN input ELSE None
    ELSE /\ queue' = IF full THEN <<>> ELSE Tail(waiting)
         /\ input_running' = ~full
         /\ notice' = said
         /\ input' = IF full THEN None ELSE Head(waiting)

(* Mutant: the reference sent is looked at and left in the queue.          *)
MutPeek(waiting, running, said) ==
    IF running \/ waiting = <<>>
    THEN /\ queue' = waiting
         /\ input_running' = running
         /\ notice' = said
         /\ input' = IF running THEN input ELSE None
    ELSE /\ queue' = IF full THEN <<>> ELSE waiting
         /\ input_running' = ~full
         /\ notice' = IF full THEN "unavailable" ELSE said
         /\ input' = IF full THEN None ELSE Head(waiting)

(* start_next_pane_input(), after its job is done or with a reference that *)
(* was pushed.                                                             *)
StartNextInput(waiting, running, said) ==
    IF running \/ waiting = <<>>
    THEN /\ queue' = waiting
         /\ input_running' = running
         /\ notice' = said
         /\ input' = IF running THEN input ELSE None
    ELSE IF full
    THEN /\ queue' = <<>>
         /\ input_running' = FALSE
         /\ notice' = "unavailable"
         /\ input' = None
    ELSE /\ queue' = Tail(waiting)
         /\ input_running' = TRUE
         /\ notice' = said
         /\ input' = Head(waiting)

-----------------------------------------------------------------------------
Init ==
    /\ store \in SUBSET Conversations
    /\ index \in SUBSET store
    /\ sessions \in Sessions
    /\ sessions.reference \in store \cup {None}
    /\ herdr = "up"
    /\ full = FALSE
    /\ view = "files"
    /\ started = FALSE
    /\ bootstrap = None /\ files = "absent"
    /\ discovery = None /\ loading = "loading" /\ filesystem = None
    /\ live = None /\ live_loading = FALSE /\ live_error = FALSE /\ live_snapshot = None
    /\ pending_sensor = FALSE /\ fingerprint = None /\ references = None /\ due = FALSE
    /\ launch = None /\ launch_running = FALSE
    /\ input = None /\ input_running = FALSE /\ queue = <<>> /\ notice = "none"
    /\ inserted = <<>>
    /\ asked = {} /\ drifted = {} /\ degraded = FALSE
    /\ changes = 0 /\ intents = 0 /\ faults = 0

-----------------------------------------------------------------------------
(* The agents, Herdr, and the queue of the worker.                         *)

Changes == /\ changes < MaxChanges
           /\ changes' = changes + 1
           /\ UNCHANGED <<index, full, view, started, filesVars, history, lives, sensor,
                          drifted, gate, inputs, intents, faults>>

(* An agent of the pane starts a session, stops, or changes its status.    *)
AgentStarts(c) == /\ c # sessions.reference
                  /\ sessions' = [reference |-> c, status |-> "working"]
                  /\ store' = store \cup {c}
                  /\ UNCHANGED herdr
                  /\ Changes
AgentStops == /\ sessions.reference # None
              /\ sessions' = NoSession
              /\ UNCHANGED <<store, herdr>>
              /\ Changes
StatusChanges == /\ sessions.reference # None
                 /\ \E s \in Statuses \ {sessions.status} :
                      sessions' = [sessions EXCEPT !.status = s]
                 /\ UNCHANGED <<store, herdr>>
                 /\ Changes

Fault == faults < MaxFaults /\ faults' = faults + 1

HerdrFails == /\ herdr = "up"
              /\ herdr' = "down"
              /\ Fault
              /\ UNCHANGED <<disk, sessions, full, view, started, filesVars, history,
                             lives, sensor, drifted, gate, inputs, changes, intents>>
HerdrRecovers == /\ herdr = "down"
                 /\ herdr' = "up"
                 /\ UNCHANGED <<disk, sessions, full, view, started, filesVars, history,
                                lives, sensor, drifted, gate, inputs, bounds>>

QueueFills == /\ ~full
              /\ full' = TRUE
              /\ Fault
              /\ UNCHANGED <<disk, world, view, started, filesVars, history, lives,
                             sensor, drifted, gate, inputs, changes, intents>>
QueueDrains == /\ full
               /\ full' = FALSE
               /\ UNCHANGED <<disk, world, view, started, filesVars, history, lives,
                              sensor, drifted, gate, inputs, bounds>>

-----------------------------------------------------------------------------
(* Starting.                                                               *)

(* apply_config_load() and start_subsystems(), whichever way the job of    *)
(* the configuration ends.                                                 *)
ConfigLoads ==
    /\ ~started
    /\ started' = TRUE
    /\ bootstrap' = IF full THEN None ELSE Waiting
    /\ ScheduleConversations
    /\ UNCHANGED <<disk, world, full, view, files, gate, inputs, bounds>>

(* The bootstrap's result.                                                 *)
Bootstrapped ==
    /\ bootstrap = Waiting
    /\ bootstrap' = None
    /\ files' = IF view = "files" THEN "active" ELSE "paused"
    /\ UNCHANGED <<disk, world, full, view, started, history, lives, sensor, drifted,
                   gate, inputs, bounds>>

(* The bootstrap fails or panics: the Files view keeps its error.          *)
BootstrapFails ==
    /\ bootstrap = Waiting
    /\ Fault
    /\ bootstrap' = None
    /\ UNCHANGED <<disk, world, full, view, started, files, history, lives, sensor,
                   drifted, gate, inputs, changes, intents>>

-----------------------------------------------------------------------------
(* The user.                                                               *)

Intent == intents < MaxIntents /\ intents' = intents + 1

(* switch_view().                                                          *)
SwitchView ==
    /\ Intent
    /\ \E v \in Views \ {view} :
         /\ view' = v
         /\ files' = IF files = "absent" THEN "absent"
                     ELSE IF v = "files" THEN "active" ELSE "paused"
    /\ UNCHANGED <<disk, world, full, started, bootstrap, history, lives, sensor,
                   drifted, gate, inputs, changes, faults>>

(* apply() of a refresh in the History view.                               *)
Refresh ==
    /\ Intent
    /\ view = "conversations"
    /\ ScheduleConversations
    /\ UNCHANGED <<disk, world, full, view, started, filesVars, gate, inputs, changes,
                   faults>>

(* launch_conversation() of a conversation that can be resumed.            *)
LaunchConversation ==
    /\ Intent
    /\ view = "conversations"
    /\ filesystem # None
    /\ filesystem # {} \/ live_snapshot \notin {None, NoSession}
    /\ ~launch_running
    /\ launch_running' = ~full
    /\ launch' = IF full THEN None ELSE Waiting
    /\ UNCHANGED <<disk, world, full, view, started, filesVars, history, lives, sensor,
                   drifted, inputs, changes, faults>>

(* send_file_reference(); references are numbered in the order they are    *)
(* picked.                                                                 *)
SendFileReference ==
    /\ Intent
    /\ view = "files"
    /\ files # "absent"
    /\ IF Len(queue) >= MaxQueue
       THEN notice' = "full" /\ UNCHANGED <<input, input_running, queue>>
       ELSE StartNextInput(Append(queue, intents'), input_running, notice)
    /\ UNCHANGED <<disk, world, full, view, started, filesVars, history, lives, sensor,
                   drifted, gate, inserted, changes, faults>>

-----------------------------------------------------------------------------
(* The jobs, and their results.                                            *)

(* load_conversations(): one more transcript enters the cache, or a part   *)
(* of it is read; without the cache what a walk of its own finds, which it *)
(* may have cut short.                                                     *)
ReadPage ==
    /\ discovery = Waiting
    /\ \/ /\ index' \in {index} \cup {index \cup {c} : c \in store \ index}
          /\ discovery' = [conversations |-> index', more |-> index' # store,
                           degraded |-> FALSE]
          /\ UNCHANGED faults
       \/ /\ Fault
          /\ \E found \in SUBSET store :
               discovery' = [conversations |-> found, more |-> FALSE, degraded |-> TRUE]
          /\ UNCHANGED index
       \/ /\ Fault
          /\ discovery' = Failed
          /\ UNCHANGED index
    /\ UNCHANGED <<store, world, full, view, started, filesVars, loading, filesystem,
                   asked, degraded, lives, sensor, drifted, gate, inputs, changes, intents>>

(* apply_result() of a page: without the cache nothing listed is dropped.  *)
ApplyPage ==
    /\ discovery \in Page
    /\ filesystem' = IF discovery.degraded /\ filesystem # None
                     THEN filesystem \cup discovery.conversations
                     ELSE discovery.conversations
    /\ degraded' = discovery.degraded
    /\ IF ~discovery.more
       THEN discovery' = None /\ loading' = "ready" /\ UNCHANGED asked
       ELSE /\ discovery' = IF full THEN None ELSE Waiting
            /\ loading' = IF full THEN "error" ELSE "ready"
            /\ asked' = asked \cup store
    /\ UNCHANGED <<disk, world, full, view, started, filesVars, lives, sensor, drifted,
                   gate, inputs, bounds>>

(* A page that failed, or whose job panics.                                *)
PageFails ==
    /\ \/ discovery = Failed /\ UNCHANGED faults
       \/ discovery # None /\ Fault
    /\ discovery' = None
    /\ loading' = "error"
    /\ UNCHANGED <<disk, world, full, view, started, filesVars, filesystem, asked,
                   degraded, lives, sensor, drifted, gate, inputs, changes, intents>>

(* load_live_conversations().                                              *)
ReadSessions ==
    /\ live = Waiting
    /\ live' = IF herdr = "up" THEN sessions ELSE Failed
    /\ UNCHANGED <<disk, world, full, view, started, filesVars, history, live_loading,
                   live_error, live_snapshot, sensor, drifted, gate, inputs, bounds>>

(* seed_live_baseline().                                                   *)
SeedBaseline(snapshot) ==
    IF Adaptive /\ started
    THEN /\ fingerprint' = snapshot
         /\ references' = snapshot.reference
         /\ due' = FALSE
    ELSE UNCHANGED <<fingerprint, references, due>>

(* The answer to the user's request.                                       *)
ApplyLive ==
    /\ live \in Sessions
    /\ ~pending_sensor
    /\ SeedBaseline(live)
    /\ live' = None
    /\ live_snapshot' = live
    /\ live_error' = FALSE
    /\ live_loading' = FALSE
    /\ UNCHANGED <<disk, world, full, view, started, filesVars, history, pending_sensor,
                   drifted, gate, inputs, bounds>>

(* Mutant: the early return leaves the note that sessions are loading.     *)
MutApplyUnchanged ==
    /\ live \in Sessions
    /\ pending_sensor
    /\ fingerprint = live
    /\ pending_sensor' = FALSE
    /\ live' = None
    /\ due' = FALSE
    /\ UNCHANGED <<disk, world, full, view, started, filesVars, history, live_loading,
                   live_error, live_snapshot, fingerprint, references, drifted, gate, inputs,
                   bounds>>

(* apply_sensor_snapshot(), of sessions that are those of the baseline.    *)
ApplyUnchanged ==
    /\ live \in Sessions
    /\ pending_sensor
    /\ fingerprint = live
    /\ pending_sensor' = FALSE
    /\ live' = None
    /\ live_loading' = FALSE
    /\ due' = FALSE
    /\ UNCHANGED <<disk, world, full, view, started, filesVars, history, live_error,
                   live_snapshot, fingerprint, references, drifted, gate, inputs, bounds>>

(* Mutant: the baseline is seeded before the references are compared.      *)
MutReferenceChanged(snapshot) == snapshot.reference \notin {None, snapshot.reference}

ReferenceChanged(snapshot) == snapshot.reference \notin {None, references}

(* apply_sensor_snapshot(), of sessions that have changed.                 *)
ApplyChanged ==
    /\ live \in Sessions
    /\ pending_sensor
    /\ fingerprint # live
    /\ SeedBaseline(live)
    /\ pending_sensor' = FALSE
    /\ live' = None
    /\ live_snapshot' = live
    /\ live_error' = FALSE
    /\ live_loading' = FALSE
    /\ drifted' = IF live.reference \in {None, references} THEN drifted
                  ELSE drifted \cup {live.reference}
    /\ UNCHANGED <<disk, world, full, view, started, filesVars, filesystem, degraded,
                   gate, inputs, bounds>>
    /\ IF ReferenceChanged(live) THEN SchedulePage(FALSE)
       ELSE UNCHANGED <<discovery, loading, asked>>

(* The job found no Herdr, or panics.                                      *)
LiveFails ==
    /\ \/ live = Failed /\ UNCHANGED faults
       \/ live # None /\ Fault
    /\ live' = None
    /\ pending_sensor' = FALSE
    /\ IF pending_sensor
       THEN due' = FALSE /\ UNCHANGED <<live_error, live_snapshot, live_loading>>
       ELSE /\ live_error' = TRUE
            /\ live_snapshot' = None
            /\ live_loading' = FALSE
            /\ UNCHANGED due
    /\ UNCHANGED <<disk, world, full, view, started, filesVars, history, fingerprint,
                   references, drifted, gate, inputs, changes, intents>>

(* The interval of the sensor passes.                                      *)
Elapse ==
    /\ Adaptive
    /\ started
    /\ ~due
    /\ due' = TRUE
    /\ UNCHANGED <<disk, world, full, view, started, filesVars, history, lives,
                   pending_sensor, fingerprint, references, drifted, gate, inputs, bounds>>

(* tick_live_sensor() and schedule_live_poll(), quietly.                   *)
TickLiveSensor ==
    /\ due
    /\ view = "conversations"
    /\ due' = FALSE
    /\ live' = IF Takes(live) THEN Waiting ELSE None
    /\ pending_sensor' = Takes(live)
    /\ UNCHANGED <<disk, world, full, view, started, filesVars, history, live_loading,
                   live_error, live_snapshot, fingerprint, references, drifted, gate, inputs,
                   bounds>>

(* The conversation was opened, or could not be, or the job panics.        *)
Launched ==
    /\ launch = Waiting
    /\ launch' = None
    /\ launch_running' = FALSE
    /\ UNCHANGED <<disk, world, full, view, started, filesVars, history, lives, sensor,
                   drifted, inputs, bounds>>

(* Mutant: what is waiting is put off until the next reference is picked.  *)
MutInputDone ==
    /\ input # None
    /\ inserted' = Append(inserted, input)
    /\ input' = None
    /\ input_running' = FALSE
    /\ notice' = "none"
    /\ UNCHANGED queue
    /\ UNCHANGED <<disk, world, full, view, started, filesVars, history, lives, sensor,
                   drifted, gate, bounds>>

(* The reference was inserted.                                             *)
InputDone ==
    /\ input # None
    /\ inserted' = Append(inserted, input)
    /\ StartNextInput(queue, FALSE, "none")
    /\ UNCHANGED <<disk, world, full, view, started, filesVars, history, lives, sensor,
                   drifted, gate, bounds>>

(* Herdr refused it, or the job panics, before or after the text was sent. *)
InputFails ==
    /\ input # None
    /\ Fault
    /\ inserted' \in {inserted, Append(inserted, input)}
    /\ StartNextInput(queue, FALSE, "failed")
    /\ UNCHANGED <<disk, world, full, view, started, filesVars, history, lives, sensor,
                   drifted, gate, changes, intents>>

-----------------------------------------------------------------------------
Next == \/ \E c \in Conversations : AgentStarts(c)
        \/ AgentStops \/ StatusChanges \/ HerdrFails \/ HerdrRecovers
        \/ QueueFills \/ QueueDrains
        \/ ConfigLoads \/ Bootstrapped \/ BootstrapFails
        \/ SwitchView \/ Refresh \/ LaunchConversation \/ SendFileReference
        \/ ReadPage \/ ApplyPage \/ PageFails
        \/ ReadSessions \/ ApplyLive \/ ApplyUnchanged \/ ApplyChanged \/ LiveFails
        \/ Elapse \/ TickLiveSensor
        \/ Launched \/ InputDone \/ InputFails

(* Of the answers of Herdr infinitely many come before the next poll is    *)
(* due, which would supersede them: SF.                                    *)
Fairness ==
    /\ WF_vars(ConfigLoads) /\ WF_vars(QueueDrains) /\ WF_vars(Elapse) /\ WF_vars(TickLiveSensor)
    /\ WF_vars(ReadPage) /\ WF_vars(ApplyPage) /\ WF_vars(discovery = Failed /\ PageFails)
    /\ WF_vars(ReadSessions)
    /\ SF_vars(ApplyLive \/ ApplyUnchanged \/ ApplyChanged \/ (live = Failed /\ LiveFails))
    /\ WF_vars(Launched) /\ WF_vars(InputDone)

Spec == Init /\ [][Next]_vars /\ Fairness

-----------------------------------------------------------------------------
(* The gates of the two jobs that change Herdr are open exactly while no   *)
(* such job is on its way, however the last one ended, and no reference    *)
(* waits at an open gate.                                                  *)
GatesMatch == /\ launch_running <=> launch # None
              /\ input_running <=> input # None
              /\ queue # <<>> => input_running

(* References reach the pane in the order the user picked them, each once. *)
OnTheWay == inserted \o (IF input = None THEN <<>> ELSE <<input>>) \o queue
InputsInOrder == \A i, j \in 1..Len(OnTheWay) : i < j => OnTheWay[i] < OnTheWay[j]

(* A reference that is given up, because the queue or the worker is full   *)
(* or Herdr refused it, leaves a notice (MAX_PENDING_PANE_INPUTS).         *)
NoSilentDrop ==
    [][~(ToSet(OnTheWay) \subseteq ToSet(OnTheWay')) => notice' # "none"]_vars

(* Once the paging of the conversations has come to its end, everything    *)
(* that was on the disk when a page was last asked for is listed, and so   *)
(* is every session that a quiet poll has met (reference drift).           *)
ListComplete ==
    discovery = None /\ loading = "ready" /\ ~degraded => asked \cup drifted \subseteq filesystem

(* The live sessions were taken from the list by a failed refresh, and are *)
(* those of the baseline: the quiet polls see no change.                   *)
Forgotten == live_snapshot = None /\ live_error /\ fingerprint = sessions

Polled == Adaptive /\ view = "conversations" /\ herdr = "up"

(* While the History view is polled and Herdr answers, the note that       *)
(* sessions are loading ends and the sessions shown become those that      *)
(* live, but for those forgotten.                                          *)
LiveSettles == <>[]Polled => <>[](~live_loading /\ (live_snapshot = sessions \/ Forgotten))

(* README.md:152-154, "Unmatched live rows appear transiently and survive  *)
(* until the filesystem transcript appears": they are shown again once     *)
(* Herdr answers.                                                          *)
LiveRecovers == <>[]Polled => <>[](live_snapshot = sessions)

-----------------------------------------------------------------------------
(* The parts of the inductive invariants behind the properties above.      *)

TypeOK ==
    /\ store \subseteq Conversations /\ index \subseteq store
    /\ sessions \in Sessions
    /\ discovery \in {None, Waiting, Failed} \cup Page
    /\ live \in {None, Waiting, Failed} \cup Sessions
    /\ launch \in {None, Waiting}
    /\ input \in Nat \cup {None}
    /\ queue \in Seq(Nat)
    /\ inserted \in Seq(Nat)
    /\ intents \in Nat

(* The references are numbers that the user has picked so far; what is     *)
(* inserted, being sent and waiting was picked in this order.              *)
Increasing(s) == \A i, j \in 1..Len(s) : i < j => s[i] < s[j]
PickedInOrder ==
    /\ Increasing(inserted) /\ Increasing(queue)
    /\ \A j \in 1..Len(queue) : queue[j] <= intents
    /\ \A i \in 1..Len(inserted) :
          /\ inserted[i] <= intents
          /\ input # None => inserted[i] < input
          /\ \A j \in 1..Len(queue) : inserted[i] < queue[j]
    /\ input # None => input <= intents /\ \A j \in 1..Len(queue) : input < queue[j]

(* Sessions are those of transcripts on the disk, a page was asked for     *)
(* since each new one was met, and the page that ends the paging has all   *)
(* that was on the disk when it was asked for.                             *)
PagingKept ==
    /\ drifted \subseteq asked /\ asked \subseteq store
    /\ sessions.reference \in store \cup {None}
    /\ live \in Sessions => live.reference \in store \cup {None}
    /\ discovery \in Page /\ ~discovery.more /\ ~discovery.degraded
          => asked \subseteq discovery.conversations
=============================================================================
