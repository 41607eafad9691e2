---------------------------- MODULE HostCommands ----------------------------
(***************************************************************************)
(* What a worker's job does with commands: it opens a conversation in a    *)
(* new tab (resume_conversation() of src/src/host/client.rs, four commands *)
(* under one deadline), sends a file reference and walks the focus back    *)
(* (send_text(), focus_origin_pane()), or asks git or jj for a status      *)
(* (run() of src/src/worker/process.rs).  Each command is a run of         *)
(* Subprocess; what Herdr was asked for it may do after the command has    *)
(* been given up, or never.                                                *)
(*                                                                         *)
(* Time is what is left of the deadline; a command takes at most the time  *)
(* it was given and Overrun, for a poll and the end of its group.          *)
(***************************************************************************)
EXTENDS Subprocess, FiniteSets

CONSTANTS Panes, Dock, Origin,
          Layouts,           \* what may be left of each pane; it changes as panes move
          Timeout,           \* DEFAULT_COMMAND_TIMEOUT
          ReadyTimeout,      \* DEFAULT_AGENT_READY_TIMEOUT
          Overrun,
          MaxSteps           \* MAX_FOCUS_STEPS

ASSUME TimeAssumption ==
    /\ {Timeout, ReadyTimeout, Overrun, MaxSteps} \subseteq Nat
    /\ Overrun < Timeout
ASSUME PanesAssumption == Layouts \subseteq [Panes -> Panes] /\ {Dock, Origin} \subseteq Panes

VARIABLES
    job,             \* "resume", "input", "status"
    step,            \* the command it is at, or how it ended
    remaining,       \* of the deadline
    given,           \* the timeout of the command that runs
    known,           \* tab_id of the new tab
    current, steps,  \* of focus_origin_pane()
    asked,           \* what Herdr was asked for and has not answered
    tab,             \* the new tab: "none", "open", "closed"
    inserted,        \* whether the reference is in the pane
    sent             \* auxiliary: the commands that were started

caller == <<job, step, remaining, given, known, current, steps, sent>>
herdr == <<asked, tab, inserted>>
vars == <<subprocess, caller, herdr>>

Ended == {"succeeded", "failed"}
Requests == {"create", "start", "focus", "close", "text", "walk"}

Init == /\ SubprocessInit
        /\ job \in {"resume", "input", "status"}
        /\ step = [resume |-> "create", input |-> "text", status |-> "status"][job]
        /\ remaining = IF job = "resume" THEN ReadyTimeout + 4 * Timeout ELSE Timeout
        /\ given = 0 /\ known = FALSE
        /\ current = Dock /\ steps = 0
        /\ asked = {} /\ tab = "none" /\ inserted = FALSE
        /\ sent = {}

Less(a, b) == IF a > b THEN a - b ELSE 0
Smaller(a, b) == IF a < b THEN a ELSE b

-----------------------------------------------------------------------------
(* A command.                                                              *)

(* command_timeout(): what is left but for the reserve, up to a limit.     *)
Available(reserve, limit) == Smaller(Less(remaining, reserve), limit)

(* run_with_timeout() and run(), up to the end of the command.             *)
Begin(request, timeout) ==
    /\ at = "idle"
    /\ Starts(IF request = "status" THEN "worker" ELSE "client")
    /\ given' = timeout
    /\ sent' = sent \cup {request}
    /\ asked' = IF at' = "waiting" /\ request # "status" THEN asked \cup {request} ELSE asked
    /\ UNCHANGED <<job, step, remaining, known, current, steps, tab, inserted>>

Answered == result = "output" /\ status = "success" /\ step \notin asked

(* The command is over; the time it took is gone.                          *)
Returns == /\ at = "done"
           /\ at' = "idle"
           /\ \E spent \in 0..(given + Overrun) :
                /\ result = "timed_out" => spent >= given
                /\ remaining' = Less(remaining, spent)
           /\ UNCHANGED <<runner, reaped, result, process, streams, expired, cancelled,
                          job, given, sent, herdr>>

Goto(s) == step' = s

-----------------------------------------------------------------------------
(* resume_conversation().                                                  *)

(* What each command leaves for close_created_tab().                       *)
Reserve == Timeout

Step(request, limit) ==
    /\ job = "resume"
    /\ step = request
    /\ at = "idle"
    /\ IF Available(Reserve, limit) > 0
       THEN Begin(request, Available(Reserve, limit))
       ELSE /\ Goto(IF known THEN "close" ELSE "failed")
            /\ UNCHANGED <<subprocess, herdr, job, remaining, given, known, current, steps, sent>>

Create == Step("create", Timeout)
Start == Step("start", ReadyTimeout + Timeout)
Focus == Step("focus", Timeout)

(* The answer may name the tab and not its pane, or nothing.               *)
Created == /\ step = "create"
           /\ Returns
           /\ IF Answered
              THEN \/ known' = TRUE /\ step' \in {"start", "close"}
                   \/ UNCHANGED known /\ Goto("failed")
              ELSE UNCHANGED known /\ Goto("failed")
           /\ UNCHANGED <<current, steps>>

(* Mutant: the tab is kept when the agent does not start in time.          *)
MutStarted == /\ step = "start"
              /\ Returns
              /\ Goto(IF Answered THEN "focus"
                      ELSE IF result = "timed_out" THEN "failed" ELSE "close")
              /\ UNCHANGED <<known, current, steps>>

Started == /\ step = "start"
           /\ Returns
           /\ Goto(IF Answered THEN "focus" ELSE "close")
           /\ UNCHANGED <<known, current, steps>>

Focused == /\ step = "focus"
           /\ Returns
           /\ Goto(IF Answered THEN "succeeded" ELSE "close")
           /\ UNCHANGED <<known, current, steps>>

(* close_created_tab().                                                    *)
Close == /\ step = "close"
         /\ at = "idle"
         /\ IF remaining > 0
            THEN Begin("close", Smaller(remaining, Timeout))
            ELSE /\ Goto("failed")
                 /\ UNCHANGED <<subprocess, herdr, job, remaining, given, known, current, steps,
                                sent>>
Closed == step = "close" /\ Returns /\ Goto("failed") /\ UNCHANGED <<known, current, steps>>

-----------------------------------------------------------------------------
(* send_text() and focus_origin_pane().                                    *)

SendText == step = "text" /\ Begin("text", Timeout)

TextSent == /\ step = "text"
            /\ at = "done" /\ at' = "idle"
            /\ remaining' = Timeout
            /\ Goto(IF ~Answered THEN "failed" ELSE IF Dock = Origin THEN "succeeded" ELSE "walk")
            /\ UNCHANGED <<runner, reaped, result, process, streams, expired, cancelled,
                           job, given, known, current, steps, sent, herdr>>

Walk == /\ step = "walk"
        /\ at = "idle"
        /\ IF steps < MaxSteps /\ remaining > 0
           THEN Begin("walk", remaining)
           ELSE /\ Goto("failed")
                /\ UNCHANGED <<subprocess, herdr, job, remaining, given, known, current, steps,
                               sent>>

Walked == /\ step = "walk"
          /\ Returns
          /\ \E left \in Layouts :
               /\ Goto(IF ~Answered THEN "failed"
                       ELSE IF left[current] = Origin THEN "succeeded"
                       ELSE IF left[current] = current THEN "failed" ELSE "walk")
               /\ current' = left[current]
          /\ steps' = steps + 1
          /\ UNCHANGED known

-----------------------------------------------------------------------------
(* A status of git or jj; the worker is shut down meanwhile.               *)

Status == step = "status" /\ Begin("status", Timeout)
StatusReturns == /\ step = "status"
                 /\ Returns
                 /\ Goto(IF Answered THEN "succeeded" ELSE "failed")
                 /\ UNCHANGED <<known, current, steps>>
Cancels == /\ step = "status"
           /\ ~cancelled
           /\ cancelled' = TRUE
           /\ UNCHANGED <<control, process, streams, expired, caller, herdr>>

-----------------------------------------------------------------------------
(* Herdr does what it was asked for, if the tab is still there.            *)
Serves(request) ==
    /\ request \in asked
    /\ asked' = asked \ {request}
    /\ tab' = CASE request = "create" -> "open"
                [] request = "close" /\ tab = "open" -> "closed"
                [] OTHER -> tab
    /\ inserted' = (inserted \/ request = "text")
    /\ UNCHANGED <<subprocess, caller>>

(* The command exits: well, with what it asked for done, or with an error. *)
CommandExits ==
    /\ \/ step \notin asked /\ LeaderExits("success")
       \/ LeaderExits("failure")
    /\ UNCHANGED <<caller, herdr>>

CommandSteps ==
    /\ Forks \/ ChildRedirects \/ ChildEnds \/ (\E s \in Streams : Writes(s)) \/ Expires
    /\ UNCHANGED <<caller, herdr>>

Runs == /\ RunnerSteps \/ ReaderSteps
        /\ UNCHANGED <<caller, herdr>>

JobSteps == \/ Create \/ Created \/ Start \/ Started \/ Focus \/ Focused \/ Close \/ Closed
            \/ SendText \/ TextSent \/ Walk \/ Walked \/ Status \/ StatusReturns

Next == \/ JobSteps \/ Cancels
        \/ \E r \in Requests : Serves(r)
        \/ CommandExits \/ CommandSteps \/ Runs

(* The threads of the program run and time passes; nothing is asked of the *)
(* commands, their children and Herdr.                                     *)
Fairness == /\ WF_vars(JobSteps)
            /\ WF_vars(RunnerSteps /\ UNCHANGED <<caller, herdr>>)
            /\ \A s \in Streams : WF_vars((Reads(s) \/ MeetsEnd(s)) /\ UNCHANGED <<caller, herdr>>)
            /\ WF_vars(Expires /\ UNCHANGED <<caller, herdr>>)

Spec == Init /\ [][Next]_vars /\ Fairness

-----------------------------------------------------------------------------
(* A resume that fails closes the tab it opened: it has sent the command   *)
(* for it whenever it has learned of the tab, wherever it failed and       *)
(* however little of its deadline was left (close_created_tab()).          *)
TabClosed == job = "resume" /\ step = "failed" /\ known => "close" \in sent

(* Every job ends.                                                         *)
JobEnds == <>(step \in Ended)

-----------------------------------------------------------------------------
(* The parts of the inductive invariant behind TabClosed.                  *)

ResumeSteps == {"create", "start", "focus", "close"} \cup Ended

CallerType == /\ remaining \in Nat /\ given \in Nat
              /\ job = "resume" => step \in ResumeSteps
              /\ step = "create" => ~known

(* A command before the last leaves the reserve, and once the tab may be   *)
(* known closing it has time left.                                         *)
TimeLeft ==
    /\ step \in {"create", "start", "focus"} /\ at # "idle" => given + Timeout <= remaining
    /\ step \in {"start", "focus"} \/ (step = "close" /\ at = "idle") => remaining > 0

Closing == step = "close" /\ at # "idle" => "close" \in sent
=============================================================================
