------------------------- MODULE HostCommandsProofs -------------------------
(***************************************************************************)
(* Whatever the timeouts of the commands and the deadline of the whole, a  *)
(* resume that fails has time left to close the tab it opened: TabClosed   *)
(* for every value of the constants.  And the other work of a thread that  *)
(* MCJobs runs, the scan of a transcript, at the end.                      *)
(***************************************************************************)
EXTENDS HostCommands, TLAPS, SequenceTheorems, FiniteSetTheorems, WellFoundedInduction

IInv == CallerType /\ TimeLeft /\ Closing /\ TabClosed

(* What is left after a subtraction is a natural number.                   *)
LEMMA LessFacts == ASSUME NEW a \in Nat, NEW b \in Nat
                   PROVE  Less(a, b) \in Nat /\ Less(a, b) + b >= a /\ Less(a, b) <= a
                          /\ (a > b => Less(a, b) = a - b)
  BY DEF Less

(* command_timeout() leaves the reserve.                                   *)
LEMMA AvailableFacts ==
    ASSUME NEW reserve \in Nat, NEW limit \in Nat, remaining \in Nat
    PROVE  /\ Available(reserve, limit) \in Nat
           /\ Available(reserve, limit) > 0 => Available(reserve, limit) + reserve <= remaining
<1>1. Less(remaining, reserve) \in Nat /\ (Less(remaining, reserve) > 0 => Less(remaining, reserve) = remaining - reserve)
  BY DEF Less
<1>2. Available(reserve, limit) \in Nat /\ Available(reserve, limit) <= Less(remaining, reserve)
  BY <1>1 DEF Available, Smaller
<1> QED  BY <1>1, <1>2

(* A command that was begun is not idle, and its job stays where it is.    *)
LEMMA BeginFacts ==
    ASSUME NEW request, NEW timeout, Begin(request, timeout)
    PROVE  /\ at = "idle" /\ at' # "idle" /\ given' = timeout /\ sent' = sent \cup {request}
           /\ UNCHANGED <<job, step, remaining, known>>
  BY DEF Begin, Starts

LEMMA SpentFacts ==
    ASSUME NEW left \in Nat, NEW timeout \in Nat, NEW over \in Nat, NEW spent \in 0..(timeout + over)
    PROVE  Less(left, spent) \in Nat /\ Less(left, spent) + timeout + over >= left
<1>1. spent \in Nat /\ spent <= timeout + over
  OBVIOUS
<1> QED  BY <1>1 DEF Less

(* A command that returns was not idle, and took from the deadline what it *)
(* was given and Overrun at most.                                          *)
LEMMA ReturnsFacts ==
    ASSUME CallerType, TimeAssumption, Returns
    PROVE  /\ at # "idle" /\ at' = "idle" /\ remaining' \in Nat /\ remaining' + given + Overrun >= remaining
           /\ UNCHANGED <<job, given, sent>>
<1>1. PICK spent \in 0..(given + Overrun) : remaining' = Less(remaining, spent)
  BY DEF Returns
<1>t. given \in Nat /\ remaining \in Nat /\ Overrun \in Nat
  BY DEF CallerType, TimeAssumption
<1>2. remaining' \in Nat /\ remaining' + given + Overrun >= remaining
  BY <1>1, <1>t, SpentFacts
<1> QED  BY <1>2 DEF Returns

(* A first command that returns leaves time to close.                      *)
LEMMA TimeAfter ==
    ASSUME CallerType, TimeLeft, TimeAssumption, Returns, step \in {"create", "start", "focus"}
    PROVE  remaining' > 0
<1>1. at # "idle" /\ remaining' \in Nat /\ remaining' + given + Overrun >= remaining
  BY ReturnsFacts
<1>2. given + Timeout <= remaining
  BY <1>1 DEF TimeLeft
<1> QED  BY <1>1, <1>2 DEF TimeAssumption, CallerType

(* What the command, its threads and Herdr do leaves the job alone.        *)
LEMMA AtStays ==
    ASSUME \/ RunnerSteps \/ ReaderSteps \/ (\E code \in {"success", "failure"} : LeaderExits(code))
           \/ Forks \/ ChildRedirects \/ ChildEnds \/ (\E s \in Streams : Writes(s)) \/ Expires
    PROVE  at' = "idle" <=> at = "idle"
<1>1. CASE RunnerSteps
  BY <1>1 DEF RunnerSteps, TryWait, CheckLimits, CheckFinished, Collect, Join, Fail
<1>2. CASE ReaderSteps
  BY <1>2 DEF ReaderSteps, Reads, MeetsEnd, control
<1>3. CASE \E code \in {"success", "failure"} : LeaderExits(code)
  BY <1>3 DEF LeaderExits, control
<1>4. CASE Forks \/ ChildRedirects \/ ChildEnds \/ (\E s \in Streams : Writes(s)) \/ Expires
  BY <1>4 DEF Forks, ChildRedirects, ChildEnds, Writes, Expires, control
<1> QED  BY <1>1, <1>2, <1>3, <1>4

LEMMA InitHolds == Init /\ TimeAssumption => IInv
<1> SUFFICES ASSUME Init, TimeAssumption PROVE IInv
  OBVIOUS
<1>1. at = "idle" /\ remaining \in Nat /\ given \in Nat /\ known = FALSE
  BY DEF Init, SubprocessInit, TimeAssumption
<1>2. step \in {"create", "text", "status"} /\ (job = "resume" => step = "create")
  BY DEF Init
<1> QED  BY <1>1, <1>2 DEF IInv, CallerType, TimeLeft, Closing, TabClosed, ResumeSteps, Ended

(* Every step of a resume's job, and of the others.                        *)
LEMMA JobStepHolds ==
    ASSUME IInv, TimeAssumption, JobSteps
    PROVE  IInv'
<1> USE DEF IInv
<1> DEFINE Others == <<job, step, remaining, known>>
<1>c. Timeout \in Nat /\ Overrun \in Nat /\ ReadyTimeout \in Nat /\ Timeout > Overrun /\ ReadyTimeout + Timeout \in Nat
  BY DEF TimeAssumption
<1>n. remaining \in Nat /\ given \in Nat
  BY DEF CallerType
<1>1. ASSUME NEW request \in {"create", "start", "focus"}, NEW limit \in Nat, Step(request, limit)
      PROVE  IInv'
  <2>0. job = "resume" /\ step = request /\ at = "idle"
    BY <1>1 DEF Step
  <2>1. CASE Available(Reserve, limit) > 0
    <3>1. Begin(request, Available(Reserve, limit))
      BY <1>1, <2>1 DEF Step
    <3>2. at' # "idle" /\ given' = Available(Reserve, limit) /\ sent' = sent \cup {request}
          /\ UNCHANGED Others
      BY <3>1, BeginFacts
    <3>3. given' \in Nat /\ given' + Timeout <= remaining
      BY <2>1, <3>2, <1>c, <1>n, AvailableFacts DEF Reserve
    <3> QED  BY <2>0, <3>2, <3>3 DEF CallerType, TimeLeft, Closing, TabClosed, ResumeSteps, Ended
  <2>2. CASE ~(Available(Reserve, limit) > 0)
    <3>1. step' = (IF known THEN "close" ELSE "failed") /\ at' = at
          /\ UNCHANGED <<job, remaining, given, known, sent>>
      BY <1>1, <2>2 DEF Step, Goto, subprocess, control
    <3>2. known => step \in {"start", "focus"}
      BY <2>0 DEF CallerType
    <3> QED  BY <2>0, <3>1, <3>2 DEF CallerType, TimeLeft, Closing, TabClosed, ResumeSteps, Ended
  <2> QED  BY <2>1, <2>2
<1>2. ASSUME Created \/ Started \/ Focused
      PROVE  IInv'
  <2>1. Returns /\ step \in {"create", "start", "focus"}
    BY <1>2 DEF Created, Started, Focused
  <2>2. at' = "idle" /\ remaining' \in Nat /\ remaining' > 0 /\ UNCHANGED <<job, given, sent>>
    BY <2>1, ReturnsFacts, TimeAfter
  <2>3. /\ step' \in {"start", "close", "focus", "succeeded", "failed"}
        /\ step' = "failed" => ~known'
    BY <1>2, <2>1 DEF Created, Started, Focused, Goto, CallerType
  <2>4. job = "resume" => step' \in ResumeSteps
    BY <2>3 DEF ResumeSteps, Ended
  <2> QED  BY <2>2, <2>3, <2>4, <1>n DEF CallerType, TimeLeft, Closing, TabClosed
<1>3. ASSUME Close
      PROVE  IInv'
  <2>1. step = "close" /\ at = "idle" /\ remaining > 0
    BY <1>3 DEF Close, TimeLeft
  <2>2. Begin("close", Smaller(remaining, Timeout))
    BY <1>3, <2>1 DEF Close
  <2>3. at' # "idle" /\ given' = Smaller(remaining, Timeout) /\ "close" \in sent'
        /\ UNCHANGED Others
    BY <2>2, BeginFacts
  <2>4. given' \in Nat
    BY <2>3, <1>c, <1>n DEF Smaller
  <2> QED  BY <2>1, <2>3, <2>4 DEF CallerType, TimeLeft, Closing, TabClosed, ResumeSteps, Ended
<1>4. ASSUME Closed
      PROVE  IInv'
  <2>1. Returns /\ step = "close" /\ step' = "failed" /\ known' = known
    BY <1>4 DEF Closed, Goto
  <2>2. at # "idle" /\ at' = "idle" /\ remaining' \in Nat /\ UNCHANGED <<job, given, sent>>
    BY <2>1, ReturnsFacts
  <2>3. "close" \in sent
    BY <2>1, <2>2 DEF Closing
  <2> QED  BY <2>1, <2>2, <2>3, <1>n DEF CallerType, TimeLeft, Closing, TabClosed, ResumeSteps, Ended
<1>5. ASSUME SendText \/ Walk \/ Status
      PROVE  IInv'
  <2>1. step \in {"text", "walk", "status"} /\ job # "resume"
    BY <1>5 DEF SendText, Walk, Status, CallerType, ResumeSteps, Ended
  <2>2. CASE \E request \in {"text", "walk", "status"}, timeout \in Nat : Begin(request, timeout)
    <3>1. at' # "idle" /\ given' \in Nat /\ UNCHANGED Others
      BY <2>2, BeginFacts
    <3> QED  BY <2>1, <3>1, <1>n DEF CallerType, TimeLeft, Closing, TabClosed
  <2>3. CASE step' = "failed" /\ UNCHANGED <<job, remaining, given, known>>
    BY <2>1, <2>3, <1>n DEF CallerType, TimeLeft, Closing, TabClosed
  <2> QED  BY <1>5, <2>2, <2>3, <1>c, <1>n DEF SendText, Walk, Status, Goto
<1>6. ASSUME TextSent \/ Walked \/ StatusReturns
      PROVE  IInv'
  <2>1. step \in {"text", "walk", "status"} /\ job # "resume"
    BY <1>6 DEF TextSent, Walked, StatusReturns, CallerType, ResumeSteps, Ended
  <2>2. remaining' \in Nat /\ UNCHANGED <<job, given>>
    <3>1. CASE TextSent
      BY <3>1, <1>c DEF TextSent
    <3>2. CASE Walked \/ StatusReturns
      BY <3>2, ReturnsFacts DEF Walked, StatusReturns
    <3> QED  BY <1>6, <3>1, <3>2
  <2>3. step' \in {"walk"} \cup Ended
    BY <1>6 DEF TextSent, Walked, StatusReturns, Goto, Ended
  <2> QED  BY <2>1, <2>2, <2>3, <1>n DEF CallerType, TimeLeft, Closing, TabClosed, Ended
<1> QED
  <2>1. CASE Create
    BY <2>1, <1>1, <1>c DEF Create
  <2>2. CASE Start
    BY <2>2, <1>1, <1>c DEF Start
  <2>3. CASE Focus
    BY <2>3, <1>1, <1>c DEF Focus
  <2> QED  BY <2>1, <2>2, <2>3, <1>2, <1>3, <1>4, <1>5, <1>6 DEF JobSteps

LEMMA NextHolds == IInv /\ TimeAssumption /\ [Next]_vars => IInv'
<1> SUFFICES ASSUME IInv, TimeAssumption, [Next]_vars PROVE IInv'
  OBVIOUS
<1>1. CASE JobSteps
  BY <1>1, JobStepHolds
<1>2. ASSUME UNCHANGED caller, at' = "idle" <=> at = "idle" PROVE IInv'
  BY <1>2 DEF IInv, CallerType, TimeLeft, Closing, TabClosed, caller
<1>3. CASE CommandExits \/ CommandSteps \/ Runs
  BY <1>3, <1>2, AtStays DEF CommandExits, CommandSteps, Runs
<1>4. CASE Cancels \/ (\E r \in Requests : Serves(r)) \/ UNCHANGED vars
  BY <1>4, <1>2 DEF Cancels, Serves, vars, subprocess, control
<1> QED  BY <1>1, <1>3, <1>4 DEF Next

(* However the time of a resume is spent, one that fails after it learned  *)
(* of its tab has sent the command that closes it (resume_conversation()). *)
THEOREM FailedResumesClose == Spec => []TabClosed
<1>1. Init => IInv
  BY InitHolds, TimeAssumption
<1>2. IInv /\ [Next]_vars => IInv'
  BY NextHolds, TimeAssumption
<1>3. IInv => TabClosed
  BY DEF IInv
<1> QED  BY <1>1, <1>2, <1>3, PTL DEF Spec
-----------------------------------------------------------------------------
(* The end of a command.                                                   *)

LEMMA JobGroup ==
    ASSUME GroupInv, JobSteps
    PROVE  GroupInv'
<1>1. ASSUME NEW request, NEW timeout, Begin(request, timeout)
      PROVE  GroupInv'
  <2>1. reaped' = FALSE /\ child' = "none"
        /\ (at' = "waiting" \/ (at' = "done" /\ leader' = "exited"))
    BY <1>1 DEF Begin, Starts
  <2> QED  BY <2>1 DEF GroupInv, NoneLeft
<1>2. ASSUME UNCHANGED <<reaped, process>>, at' = "idle" \/ at' = at
      PROVE  GroupInv'
  BY <1>2 DEF GroupInv, NoneLeft, process
<1>3. ASSUME NEW request, NEW limit, Step(request, limit)
      PROVE  GroupInv'
  BY <1>1, <1>2, <1>3 DEF Step, subprocess, control
<1>4. CASE Create \/ Start \/ Focus
  BY <1>3, <1>4 DEF Create, Start, Focus
<1>5. CASE Close \/ SendText \/ Walk \/ Status
  BY <1>1, <1>2, <1>5 DEF Close, SendText, Walk, Status, subprocess, control
<1>6. CASE Created \/ Started \/ Focused \/ Closed \/ Walked \/ StatusReturns
  <2>1. Returns
    BY <1>6 DEF Created, Started, Focused, Closed, Walked, StatusReturns
  <2> QED  BY <2>1, <1>2 DEF Returns
<1>7. CASE TextSent
  BY <1>7, <1>2 DEF TextSent
<1> QED  BY <1>4, <1>5, <1>6, <1>7 DEF JobSteps

LEMMA RunnerGroup ==
    ASSUME GroupInv, RunnerSteps
    PROVE  GroupInv'
<1> USE DEF GroupInv, NoneLeft
<1>1. ASSUME NEW error, Fail(error), at \in {"limits", "finished"}
      PROVE  GroupInv'
  BY <1>1 DEF Fail, Killed
<1>2. ASSUME at' = "finished" \/ at' = "waiting" \/ (at' = "joining" /\ reaped), UNCHANGED <<reaped, process>>
      PROVE  GroupInv'
  BY <1>2 DEF process
<1>3. CASE TryWait
  BY <1>3 DEF TryWait, process
<1>4. CASE CheckLimits
  BY <1>4, <1>1, <1>2 DEF CheckLimits
<1>5. CASE CheckFinished
  BY <1>5, <1>1, <1>2 DEF CheckFinished
<1>6. CASE Collect
  BY <1>6 DEF Collect, process
<1>7. CASE Join
  BY <1>7 DEF Join, Killed
<1> QED  BY <1>3, <1>4, <1>5, <1>6, <1>7 DEF RunnerSteps

LEMMA NextGroup == GroupInv /\ [Next]_vars => GroupInv'
<1> SUFFICES ASSUME GroupInv, [Next]_vars PROVE GroupInv'
  OBVIOUS
<1>1. ASSUME UNCHANGED <<reaped, at>>, leader = "exited" => leader' = "exited",
             child' = "running" => child = "running" \/ leader = "running"
      PROVE  GroupInv'
  BY <1>1 DEF GroupInv, NoneLeft
<1>2. CASE JobSteps
  BY <1>2, JobGroup
<1>3. CASE Runs
  <2>1. CASE RunnerSteps
    BY <2>1, RunnerGroup
  <2>2. CASE ReaderSteps
    BY <2>2, <1>1 DEF ReaderSteps, Reads, MeetsEnd, control, process
  <2> QED  BY <1>3, <2>1, <2>2 DEF Runs
<1>4. CASE CommandExits
  BY <1>4, <1>1 DEF CommandExits, LeaderExits, control
<1>5. CASE CommandSteps
  BY <1>5, <1>1 DEF CommandSteps, Forks, ChildRedirects, ChildEnds, Writes, Expires, control, process
<1>6. CASE Cancels \/ (\E r \in Requests : Serves(r)) \/ UNCHANGED vars
  BY <1>6, <1>1 DEF Cancels, Serves, vars, subprocess, control, process
<1> QED  BY <1>2, <1>3, <1>4, <1>5, <1>6 DEF Next

(* When a command is over, however it ended, the command itself has exited *)
(* and no child of it is left in its group (run(), run_command()).         *)
THEOREM CommandsLeaveNone == Spec => []NoneLeft
<1>1. Init => GroupInv
  BY DEF Init, SubprocessInit, GroupInv, NoneLeft
<1>2. GroupInv /\ [Next]_vars => GroupInv'
  BY NextGroup
<1>3. GroupInv => NoneLeft
  BY DEF GroupInv
<1> QED  BY <1>1, <1>2, <1>3, PTL DEF Spec

-----------------------------------------------------------------------------
(***************************************************************************)
(* The scan of a transcript (Transcripts).  What a scan carries from page  *)
(* to page is what the records it has read say (Told).  One more record    *)
(* keeps that or shows that the records are no session's, format by format *)
(* (StepMade); the loop over a page does so by the first record at which   *)
(* it would not (FoldMade); where a page ends decides how much of the file *)
(* a scan can reach (PageFacts, ReadableFacts); and a file that its agent  *)
(* writes on, or whose title it changes, still has the records that were   *)
(* read, when the guard says so (ScanStarts, WriteKeeps).                  *)
(***************************************************************************)

CONSTANTS Titles, Untitled, Directories, Page, Guard, MaxOmpRecords, MaxRecords, MaxTime, MaxOdd
VARIABLES format, file, silent, entry

Tr == INSTANCE Transcripts WITH Page <- Page

(* The records that may stand where, format by format.                     *)
LEMMA PiRecords ==
    ASSUME format = "pi", NEW i \in Nat
    PROVE  Tr!RecordsAt(i) =
             IF i = 1 THEN [kind : {"header"}, time : Tr!Times]
             ELSE [kind : {"entry"}, fields : Tr!Fields, parent : Tr!Parents, time : Tr!Times] \cup Tr!Odd
<1>1. Tr!Headers["pi"] = [kind : {"header"}, time : Tr!Times]
  BY DEF Tr!Headers, Tr!Formats
<1>2. Tr!Items["pi"] = [kind : {"entry"}, fields : Tr!Fields, parent : Tr!Parents, time : Tr!Times]
  BY DEF Tr!Items, Tr!Formats
<1>3. Tr!AnyItem["pi"] = Tr!Items["pi"] \cup Tr!Odd
  BY DEF Tr!AnyItem, Tr!Formats
<1>4. Tr!RecordsAt(i) = IF i = 1 THEN Tr!Headers["pi"] ELSE Tr!AnyItem["pi"]
  BY DEF Tr!RecordsAt, Tr!HeaderRecords
<1> QED BY <1>1, <1>2, <1>3, <1>4

(* Of OMP.                                                                 *)
LEMMA OmpRecords ==
    ASSUME format = "omp", NEW i \in Nat
    PROVE  /\ i = 1 => Tr!RecordsAt(i) = Tr!Slots
           /\ i = 2 => Tr!RecordsAt(i) = [kind : {"header"}, time : Tr!Times]
           /\ i > 2 => Tr!RecordsAt(i) =
                 [kind : {"entry"}, fields : Tr!Fields, parent : Tr!Parents, time : Tr!Times] \cup Tr!Odd
<1>1. Tr!Headers["omp"] = [kind : {"header"}, time : Tr!Times]
  BY DEF Tr!Headers, Tr!Formats
<1>2. Tr!Items["omp"] = [kind : {"entry"}, fields : Tr!Fields, parent : Tr!Parents, time : Tr!Times]
  BY DEF Tr!Items, Tr!Formats
<1>3. Tr!AnyItem["omp"] = Tr!Items["omp"] \cup Tr!Odd
  BY DEF Tr!AnyItem, Tr!Formats
<1>4. /\ i = 1 => Tr!RecordsAt(i) = Tr!Slots
      /\ i = 2 => Tr!RecordsAt(i) = Tr!Headers["omp"]
      /\ i > 2 => Tr!RecordsAt(i) = Tr!AnyItem["omp"]
  BY DEF Tr!RecordsAt, Tr!HeaderRecords
<1> QED BY <1>1, <1>2, <1>3, <1>4

(* Of Codex.                                                               *)
LEMMA CodexRecords ==
    ASSUME format = "codex", NEW i \in Nat
    PROVE  /\ i = 1 => Tr!RecordsAt(i) =
                 [kind : {"header"}, time : Tr!Times, written : Tr!Times, ordinal : {-1, 0}]
           /\ i > 1 => Tr!RecordsAt(i) =
                 [kind : {"item"}, fields : Tr!Fields,
                  ordinal : {-1} \cup 1..(MaxRecords["codex"] - 1), time : Tr!Times] \cup Tr!Odd
<1>1. Tr!Headers["codex"] = [kind : {"header"}, time : Tr!Times, written : Tr!Times, ordinal : {-1, 0}]
  BY DEF Tr!Headers, Tr!Formats, Tr!None
<1>2. Tr!Items["codex"] = [kind : {"item"}, fields : Tr!Fields,
                          ordinal : {-1} \cup 1..(MaxRecords["codex"] - 1), time : Tr!Times]
  BY DEF Tr!Items, Tr!Formats, Tr!None
<1>3. Tr!AnyItem["codex"] = Tr!Items["codex"] \cup Tr!Odd
  BY DEF Tr!AnyItem, Tr!Formats
<1>4. /\ i = 1 => Tr!RecordsAt(i) = Tr!Headers["codex"]
      /\ i > 1 => Tr!RecordsAt(i) = Tr!AnyItem["codex"]
  BY DEF Tr!RecordsAt, Tr!HeaderRecords
<1> QED BY <1>1, <1>2, <1>3, <1>4

(* Of Claude.                                                              *)
LEMMA ClaudeRecords ==
    ASSUME format = "claude", NEW i \in Nat
    PROVE  Tr!RecordsAt(i) =
             [kind : {"turn"}, parent : {"none", "other", "boundary"}, cwd : Directories, time : Tr!Times]
             \cup [kind : {"stamp"}, time : Tr!Times] \cup [kind : {"ai", "custom"}, title : Titles]
             \cup [kind : {"other"}] \cup Tr!Odd
<1>1. Tr!Items["claude"] =
        [kind : {"turn"}, parent : {"none", "other", "boundary"}, cwd : Directories, time : Tr!Times]
        \cup [kind : {"stamp"}, time : Tr!Times] \cup [kind : {"ai", "custom"}, title : Titles]
        \cup [kind : {"other"}]
  BY DEF Tr!Items, Tr!Formats
<1>2. Tr!AnyItem["claude"] = Tr!Items["claude"] \cup Tr!Odd
  BY DEF Tr!AnyItem, Tr!Formats
<1>3. Tr!RecordsAt(i) = Tr!AnyItem["claude"]
  BY DEF Tr!RecordsAt, Tr!HeaderRecords
<1> QED BY <1>1, <1>2, <1>3

(* What a record of each format is.                                        *)
LEMMA RecordFacts ==
    ASSUME Tr!TranscriptsAssumption, Tr!TypeOK, NEW i \in 1..Len(file.records)
    PROVE  LET r == file.records[i]
           IN  /\ format = "pi" => /\ i = 1 => r.kind = "header"
                                   /\ i = 1 \/ r.kind = "entry" => r.time \in Nat
               /\ format = "omp" => /\ i = 1 => r.kind = "slot"
                                    /\ i = 2 => r.kind = "header"
                                    /\ i <= 2 \/ r.kind = "entry" => r.time \in Nat
               /\ format = "codex" =>
                     /\ i = 1 => /\ r.kind = "header" /\ r.time \in Nat /\ r.written \in Nat
                                 /\ r.ordinal \in {-1, 0}
                     /\ r.kind = "item" => r.time \in Nat /\ r.ordinal \in Int
<1> DEFINE r == file.records[i]
<1> HIDE DEF r
<1> USE DEF Tr!Slots, Tr!Odd, Tr!Times
<1>0. r \in Tr!RecordsAt(i) /\ MaxTime \in Nat /\ i \in Nat /\ i >= 1
  BY DEF Tr!TypeOK, Tr!TranscriptsAssumption, r
<1>t. MaxRecords["codex"] \in Nat
  BY DEF Tr!TranscriptsAssumption
<1>1. ASSUME format = "pi"
      PROVE  (i = 1 => r.kind = "header") /\ (i = 1 \/ r.kind = "entry" => r.time \in Nat)
  <2>1. Tr!RecordsAt(i) =
             IF i = 1 THEN [kind : {"header"}, time : Tr!Times]
             ELSE [kind : {"entry"}, fields : Tr!Fields, parent : Tr!Parents, time : Tr!Times] \cup Tr!Odd
    BY <1>0, <1>1, PiRecords
  <2>2. CASE i = 1
    <3>1. r \in [kind : {"header"}, time : Tr!Times]
      BY <1>0, <2>1, <2>2
    <3> QED BY <1>0, <3>1
  <2>3. CASE i # 1
    BY <1>0, <1>1, <2>1, <2>3
  <2> QED BY <2>2, <2>3
<1>2. ASSUME format = "omp"
      PROVE  /\ i = 1 => r.kind = "slot"
             /\ i = 2 => r.kind = "header"
             /\ i <= 2 \/ r.kind = "entry" => r.time \in Nat
  <2>1. CASE i = 1
    <3>1. r \in Tr!Slots
      BY <1>0, <1>2, <2>1, OmpRecords
    <3> QED BY <1>0, <2>1, <3>1
  <2>2. CASE i = 2
    <3>1. r \in [kind : {"header"}, time : Tr!Times]
      BY <1>0, <1>2, <2>2, OmpRecords
    <3> QED BY <1>0, <2>2, <3>1
  <2>3. CASE i > 2
    <3>1. \/ r \in [kind : {"entry"}, fields : Tr!Fields, parent : Tr!Parents, time : Tr!Times]
          \/ r \in Tr!Odd
      BY <1>0, <1>2, <2>3, OmpRecords
    <3> QED BY <1>0, <2>3, <3>1
  <2> QED BY <1>0, <2>1, <2>2, <2>3
<1>3. ASSUME format = "codex"
      PROVE  /\ i = 1 => /\ r.kind = "header" /\ r.time \in Nat /\ r.written \in Nat
                         /\ r.ordinal \in {-1, 0}
             /\ r.kind = "item" => r.time \in Nat /\ r.ordinal \in Int
  <2>1. CASE i = 1
    <3>1. r \in [kind : {"header"}, time : Tr!Times, written : Tr!Times, ordinal : {-1, 0}]
      BY <1>0, <1>3, <2>1, CodexRecords
    <3> QED BY <1>0, <3>1, <2>1
  <2>2. CASE i # 1
    <3>0. i > 1 /\ r \in Tr!RecordsAt(i) /\ i \in Nat
      BY <1>0, <2>2
    <3> HIDE DEF Tr!Odd, Tr!Times
    <3>2. Tr!RecordsAt(i) =
                 [kind : {"item"}, fields : Tr!Fields,
                  ordinal : {-1} \cup 1..(MaxRecords["codex"] - 1), time : Tr!Times] \cup Tr!Odd
      BY <1>3, <3>0, CodexRecords
    <3>1. \/ r \in [kind : {"item"}, fields : Tr!Fields,
                   ordinal : {-1} \cup 1..(MaxRecords["codex"] - 1), time : Tr!Times]
          \/ r \in Tr!Odd
      BY <3>0, <3>2
    <3> QED BY <1>0, <1>t, <2>2, <3>1 DEF Tr!Odd, Tr!Times
  <2> QED BY <2>1, <2>2
<1> QED BY <1>1, <1>2, <1>3 DEF r

(* What a record of Claude's is.                                           *)
LEMMA ClaudeFacts ==
    ASSUME Tr!TranscriptsAssumption, Tr!TypeOK, format = "claude", NEW i \in 1..Len(file.records)
    PROVE  LET r == file.records[i]
           IN  /\ r.kind \in {"turn", "stamp", "ai", "custom", "other", "malformed", "huge"}
               /\ ("time" \in DOMAIN r) <=> r.kind \in {"turn", "stamp"}
               /\ "time" \in DOMAIN r => r.time \in Nat /\ r.time >= 1
               /\ r.kind \in {"ai", "custom"} => r.title \in Titles
               /\ r.kind = "turn" => r.parent \in {"none", "other", "boundary"}
<1> DEFINE r == file.records[i]
           Fact == /\ r.kind \in {"turn", "stamp", "ai", "custom", "other", "malformed", "huge"}
                   /\ ("time" \in DOMAIN r) <=> r.kind \in {"turn", "stamp"}
                   /\ "time" \in DOMAIN r => r.time \in Nat /\ r.time >= 1
                   /\ r.kind \in {"ai", "custom"} => r.title \in Titles
                   /\ r.kind = "turn" => r.parent \in {"none", "other", "boundary"}
<1> HIDE DEF r
<1>0. r \in Tr!RecordsAt(i) /\ MaxTime \in Nat /\ i \in Nat
  BY DEF Tr!TypeOK, Tr!TranscriptsAssumption, r
<1>00. \/ r \in [kind : {"turn"}, parent : {"none", "other", "boundary"}, cwd : Directories, time : Tr!Times]
       \/ r \in [kind : {"stamp"}, time : Tr!Times] \/ r \in [kind : {"ai", "custom"}, title : Titles]
       \/ r \in [kind : {"other"}] \/ r \in Tr!Odd
  <2>1. Tr!RecordsAt(i) =
             [kind : {"turn"}, parent : {"none", "other", "boundary"}, cwd : Directories, time : Tr!Times]
             \cup [kind : {"stamp"}, time : Tr!Times] \cup [kind : {"ai", "custom"}, title : Titles]
             \cup [kind : {"other"}] \cup Tr!Odd
    BY <1>0, ClaudeRecords
  <2> QED BY <1>0, <2>1
<1>1. ASSUME r \in [kind : {"turn"}, parent : {"none", "other", "boundary"}, cwd : Directories, time : Tr!Times] PROVE Fact
  BY <1>0, <1>1 DEF Tr!Times
<1>2. ASSUME r \in [kind : {"stamp"}, time : Tr!Times] PROVE Fact
  BY <1>0, <1>2 DEF Tr!Times
<1>3. ASSUME r \in [kind : {"ai", "custom"}, title : Titles] PROVE Fact
  BY <1>3
<1>4. ASSUME r \in [kind : {"other"}] PROVE Fact
  BY <1>4
<1>5. ASSUME r \in Tr!Odd PROVE Fact
  BY <1>5 DEF Tr!Odd
<1> HIDE DEF Fact
<1>6. Fact
  BY <1>00, <1>1, <1>2, <1>3, <1>4, <1>5
<1> QED BY <1>6 DEF r, Fact

(* One more record of Pi's.                                                *)
LEMMA PiNext ==
    ASSUME Tr!TranscriptsAssumption, Tr!TypeOK, format = "pi", NEW m,
           NEW n \in 1..(Len(file.records) - 1), Tr!Told(m, file.records, n)
    PROVE  \/ /\ Tr!Step(m, file.records[n + 1]) = Tr!Rejected
              /\ ~Tr!Good(file.records, n + 1)
           \/ Tr!Told(Tr!Step(m, file.records[n + 1]), file.records, n + 1)
<1> DEFINE rs == file.records
           r == rs[n + 1]
           tail == IF n = 1 THEN -1 ELSE 0
           Fits == /\ r.kind = "entry" /\ r.parent = IF n = 1 THEN "none" ELSE "other"
                   /\ r.time >= rs[n].time
<1> HIDE DEF rs
<1>1. Tr!PiGood(rs, n) /\ m = Tr!Parsed(Untitled, rs[1].time, rs[n].time, rs[n].time, tail, Tr!Root, n)
  BY DEF Tr!Told, Tr!Good, Tr!None, rs
<1>2. m.is = "metadata" /\ m.updated = rs[n].time /\ m.tail = tail /\ m.count = n
  BY <1>1 DEF Tr!Parsed
<1>3. Tr!Step(m, r) = Tr!PiStep(m, r)
  BY <1>2 DEF Tr!Step, Tr!Rejected
<1>4. Tr!Verified(r)
  BY DEF Tr!Verified
<1>5. n \in Nat /\ n >= 1 /\ n + 1 \in 1..Len(file.records) /\ n \in 1..Len(file.records)
  BY DEF Tr!TypeOK
<1>6. \A i \in 1..(n + 1) : (i = 1 \/ rs[i].kind = "entry") => rs[i].time \in Nat
  <2> SUFFICES ASSUME NEW i \in 1..(n + 1), i = 1 \/ rs[i].kind = "entry" PROVE rs[i].time \in Nat
    OBVIOUS
  <2>1. i \in 1..Len(file.records)
    BY <1>5
  <2> QED BY <2>1, RecordFacts DEF rs
<1>7. \A i \in 1..n : rs[i].time \in Nat /\ rs[i].time <= rs[n].time
  BY <1>1, <1>5, <1>6 DEF Tr!PiGood, Tr!Ordered, Tr!AllOf, Tr!Of
<1>8. CASE Fits
  <2>1. Tr!PiStep(m, r) = [m EXCEPT !.updated = r.time, !.chain = r.time, !.tail = 0, !.count = @ + 1]
    BY <1>2, <1>4, <1>8 DEF Tr!PiStep, Tr!None
  <2>2. Tr!PiStep(m, r) = Tr!Parsed(Untitled, rs[1].time, r.time, r.time, 0, Tr!Root, n + 1)
    BY <1>1, <2>1 DEF Tr!Parsed
  <2>3. Tr!PiGood(rs, n + 1)
    <3>1. Tr!AllOf(rs, 2, n + 1, "entry")
      BY <1>1, <1>5, <1>8 DEF Tr!PiGood, Tr!AllOf, Tr!Of
    <3>2. Tr!Ordered(rs, 1, n + 1)
      <4> SUFFICES ASSUME NEW i \in 1..(n + 1), NEW j \in 1..(n + 1), i <= j
                   PROVE  rs[i].time <= rs[j].time
        BY DEF Tr!Ordered
      <4>1. CASE j <= n
        BY <1>1, <1>5, <4>1 DEF Tr!PiGood, Tr!Ordered
      <4>2. CASE j = n + 1
        BY <1>5, <1>6, <1>7, <1>8, <4>2
      <4> QED BY <1>5, <4>1, <4>2
    <3>3. ASSUME NEW i \in 2..(n + 1) PROVE rs[i].parent = IF i = 2 THEN "none" ELSE "other"
      BY <1>1, <1>5, <1>8 DEF Tr!PiGood
    <3> QED BY <3>1, <3>2, <3>3 DEF Tr!PiGood
  <2>4. Tr!Told(Tr!PiStep(m, r), rs, n + 1)
    BY <1>5, <2>2, <2>3 DEF Tr!Told, Tr!Good
  <2> QED BY <1>3, <2>4 DEF rs
<1>9. CASE ~Fits
  <2>1. Tr!PiStep(m, r) = Tr!Rejected
    BY <1>2, <1>4, <1>9 DEF Tr!PiStep, Tr!None
  <2>2. ~Tr!PiGood(rs, n + 1)
    <3> SUFFICES ASSUME Tr!PiGood(rs, n + 1) PROVE FALSE
      OBVIOUS
    <3>1. r.kind = "entry"
      BY <1>5 DEF Tr!PiGood, Tr!AllOf, Tr!Of
    <3>2. r.parent = IF n = 1 THEN "none" ELSE "other"
      BY <1>5 DEF Tr!PiGood
    <3>3. rs[n].time <= r.time
      BY <1>5 DEF Tr!PiGood, Tr!Ordered
    <3>4. r.time \in Nat /\ rs[n].time \in Nat
      BY <1>5, <1>6, <1>7, <3>1
    <3> QED BY <1>9, <3>1, <3>2, <3>3, <3>4
  <2> QED BY <1>3, <2>1, <2>2 DEF rs, Tr!Good
<1> QED BY <1>8, <1>9

(* One more record of OMP's.                                               *)
LEMMA OmpNext ==
    ASSUME Tr!TranscriptsAssumption, Tr!TypeOK, format = "omp", NEW m,
           NEW n \in 1..(Len(file.records) - 1), Tr!Told(m, file.records, n)
    PROVE  \/ /\ Tr!Step(m, file.records[n + 1]) = Tr!Rejected
              /\ ~Tr!Good(file.records, n + 1)
           \/ Tr!Told(Tr!Step(m, file.records[n + 1]), file.records, n + 1)
<1> DEFINE rs == file.records
           r == rs[n + 1]
           tail == IF n = 2 THEN -1 ELSE 0
           Fits == /\ r.kind = "entry" /\ r.parent # "self" /\ r.fields = "known"
                   /\ r.time >= rs[n].time /\ n < MaxOmpRecords
<1> HIDE DEF rs
<1>1. /\ Tr!OmpGood(rs, n)
      /\ m = Tr!Parsed(rs[1].title, rs[2].time, Tr!Latest(rs[1].time, rs[n].time), rs[n].time, tail, Tr!Root, n)
  BY DEF Tr!Told, Tr!Good, Tr!None, rs
<1>2. m.is = "metadata" /\ m.chain = rs[n].time /\ m.count = n /\ m.updated = Tr!Latest(rs[1].time, rs[n].time)
  BY <1>1 DEF Tr!Parsed
<1>3. Tr!Step(m, r) = Tr!OmpStep(m, r)
  BY <1>2 DEF Tr!Step, Tr!Rejected
<1>4. Tr!Verified(r) <=> r.fields = "known"
  BY DEF Tr!Verified
<1>5. n \in Nat /\ n >= 2 /\ n + 1 \in 1..Len(file.records) /\ n \in 1..Len(file.records) /\ MaxOmpRecords \in Nat
  BY <1>1 DEF Tr!TypeOK, Tr!OmpGood, Tr!TranscriptsAssumption
<1>6. \A i \in 1..(n + 1) : (i <= 2 \/ rs[i].kind = "entry") => rs[i].time \in Nat
  <2> SUFFICES ASSUME NEW i \in 1..(n + 1), i <= 2 \/ rs[i].kind = "entry" PROVE rs[i].time \in Nat
    OBVIOUS
  <2>1. i \in 1..Len(file.records)
    BY <1>5
  <2> QED BY <2>1, RecordFacts DEF rs
<1>7. rs[1].time \in Nat /\ \A i \in 2..n : rs[i].time \in Nat /\ rs[i].time <= rs[n].time
  BY <1>1, <1>5, <1>6 DEF Tr!OmpGood, Tr!Ordered, Tr!AllOf, Tr!Of
<1>8. CASE Fits
  <2>0. r.time \in Nat /\ rs[n].time \in Nat
    BY <1>5, <1>6, <1>7, <1>8
  <2>1. Tr!OmpStep(m, r) = [m EXCEPT !.updated = IF r.time > @ THEN r.time ELSE @,
                                     !.chain = r.time, !.tail = 0, !.count = @ + 1]
    BY <1>2, <1>4, <1>8 DEF Tr!OmpStep
  <2>2. (IF r.time > m.updated THEN r.time ELSE m.updated) = Tr!Latest(rs[1].time, r.time)
    BY <1>2, <1>7, <1>8, <2>0 DEF Tr!Latest, Tr!None
  <2>3. Tr!OmpStep(m, r) = Tr!Parsed(rs[1].title, rs[2].time, Tr!Latest(rs[1].time, r.time), r.time, 0, Tr!Root, n + 1)
    BY <1>1, <2>1, <2>2 DEF Tr!Parsed
  <2>4. Tr!OmpGood(rs, n + 1)
    <3>1. Tr!AllOf(rs, 3, n + 1, "entry")
      BY <1>1, <1>5, <1>8 DEF Tr!OmpGood, Tr!AllOf, Tr!Of
    <3>2. Tr!Ordered(rs, 2, n + 1)
      <4> SUFFICES ASSUME NEW i \in 2..(n + 1), NEW j \in 2..(n + 1), i <= j
                   PROVE  rs[i].time <= rs[j].time
        BY DEF Tr!Ordered
      <4>1. CASE j <= n
        BY <1>1, <1>5, <4>1 DEF Tr!OmpGood, Tr!Ordered
      <4>2. CASE j = n + 1
        BY <1>5, <1>7, <1>8, <2>0, <4>2
      <4> QED BY <1>5, <4>1, <4>2
    <3>3. ASSUME NEW i \in 3..(n + 1) PROVE rs[i].parent # "self" /\ rs[i].fields = "known"
      BY <1>1, <1>5, <1>8 DEF Tr!OmpGood
    <3>4. n + 1 \in 2..(IF MaxOmpRecords > 2 THEN MaxOmpRecords ELSE 2)
      BY <1>5, <1>8
    <3>5. rs[2].kind = "header" /\ rs[2].time <= rs[1].time
      BY <1>1 DEF Tr!OmpGood
    <3> QED BY <3>1, <3>2, <3>3, <3>4, <3>5 DEF Tr!OmpGood
  <2>5. Tr!Told(Tr!OmpStep(m, r), rs, n + 1)
    BY <1>5, <2>3, <2>4 DEF Tr!Told, Tr!Good
  <2> QED BY <1>3, <2>5 DEF rs
<1>9. CASE ~Fits
  <2>1. Tr!OmpStep(m, r) = Tr!Rejected
    BY <1>2, <1>4, <1>9 DEF Tr!OmpStep
  <2>2. ~Tr!OmpGood(rs, n + 1)
    <3> SUFFICES ASSUME Tr!OmpGood(rs, n + 1) PROVE FALSE
      OBVIOUS
    <3>1. r.kind = "entry"
      BY <1>5 DEF Tr!OmpGood, Tr!AllOf, Tr!Of
    <3>2. r.parent # "self" /\ r.fields = "known"
      BY <1>5 DEF Tr!OmpGood
    <3>3. rs[n].time <= r.time
      BY <1>5 DEF Tr!OmpGood, Tr!Ordered
    <3>4. r.time \in Nat /\ rs[n].time \in Nat
      BY <1>5, <1>6, <1>7, <3>1
    <3>5. n < MaxOmpRecords
      BY <1>5 DEF Tr!OmpGood
    <3> QED BY <1>9, <3>1, <3>2, <3>3, <3>4, <3>5
  <2> QED BY <1>3, <2>1, <2>2 DEF rs, Tr!Good
<1> QED BY <1>8, <1>9

(* One more record of Codex's.                                             *)
LEMMA CodexNext ==
    ASSUME Tr!TranscriptsAssumption, Tr!TypeOK, format = "codex", NEW m,
           NEW n \in 1..(Len(file.records) - 1), Tr!Told(m, file.records, n)
    PROVE  \/ /\ Tr!Step(m, file.records[n + 1]) = Tr!Rejected
              /\ ~Tr!Good(file.records, n + 1)
           \/ Tr!Told(Tr!Step(m, file.records[n + 1]), file.records, n + 1)
<1> DEFINE rs == file.records
           r == rs[n + 1]
           last == Tr!CodexTime(rs, n)
           tail == IF rs[1].ordinal = -1 THEN -1 ELSE n - 1
           expected == IF rs[1].ordinal = -1 THEN -1 ELSE n
           Fits == r.kind = "item" /\ r.ordinal = expected /\ r.time >= last
<1> HIDE DEF rs
<1>1. Tr!CodexGood(rs, n) /\ m = Tr!Parsed(Untitled, rs[1].time, last, last, tail, Tr!Root, n)
  BY DEF Tr!Told, Tr!Good, Tr!None, rs
<1>2. m.is = "metadata" /\ m.updated = last /\ m.tail = tail /\ m.count = n
  BY <1>1 DEF Tr!Parsed
<1>3. Tr!Step(m, r) = Tr!CodexStep(m, r)
  BY <1>2 DEF Tr!Step, Tr!Rejected
<1>4. Tr!Verified(r)
  BY DEF Tr!Verified
<1>5. n \in Nat /\ n >= 1 /\ n + 1 \in 1..Len(file.records) /\ n \in 1..Len(file.records) /\ 1 \in 1..Len(file.records)
  BY DEF Tr!TypeOK
<1>6. \A i \in 1..(n + 1) : rs[i].kind = "item" => rs[i].time \in Nat /\ rs[i].ordinal \in Int
  <2> SUFFICES ASSUME NEW i \in 1..(n + 1), rs[i].kind = "item" PROVE rs[i].time \in Nat /\ rs[i].ordinal \in Int
    OBVIOUS
  <2>1. i \in 1..Len(file.records)
    BY <1>5
  <2> QED BY <2>1, RecordFacts DEF rs
<1>7. rs[1].time \in Nat /\ rs[1].written \in Nat /\ rs[1].ordinal \in {-1, 0}
  BY <1>5, RecordFacts DEF rs
<1>8. last \in Nat /\ rs[1].written <= last
  BY <1>1, <1>5, <1>6, <1>7 DEF Tr!CodexGood, Tr!AllOf, Tr!Of, Tr!CodexTime
<1>9. \A i \in 2..n : rs[i].time \in Nat /\ rs[i].time <= last
  BY <1>1, <1>5, <1>6 DEF Tr!CodexGood, Tr!Ordered, Tr!AllOf, Tr!Of, Tr!CodexTime
<1>e. expected = IF tail = -1 THEN -1 ELSE tail + 1
  BY <1>5, <1>7
<1>f. Tr!CodexTime(rs, n + 1) = r.time
  BY <1>5 DEF Tr!CodexTime
<1> HIDE DEF last
<1>10. CASE Fits
  <2>0. r.time \in Nat
    BY <1>5, <1>6, <1>10
  <2>1. Tr!CodexStep(m, r) = [m EXCEPT !.updated = r.time, !.chain = r.time, !.tail = r.ordinal, !.count = @ + 1]
    BY <1>2, <1>4, <1>10, <1>e DEF Tr!CodexStep, Tr!None
  <2>2. Tr!CodexStep(m, r) = Tr!Parsed(Untitled, rs[1].time, r.time, r.time, r.ordinal, Tr!Root, n + 1)
    BY <1>1, <2>1 DEF Tr!Parsed
  <2>3. r.ordinal = IF rs[1].ordinal = -1 THEN -1 ELSE (n + 1) - 1
    BY <1>5, <1>10
  <2>4. Tr!CodexGood(rs, n + 1)
    <3>1. Tr!AllOf(rs, 2, n + 1, "item")
      BY <1>1, <1>5, <1>10 DEF Tr!CodexGood, Tr!AllOf, Tr!Of
    <3>2. Tr!Ordered(rs, 2, n + 1)
      <4> SUFFICES ASSUME NEW i \in 2..(n + 1), NEW j \in 2..(n + 1), i <= j
                   PROVE  rs[i].time <= rs[j].time
        BY DEF Tr!Ordered
      <4>1. CASE j <= n
        BY <1>1, <1>5, <4>1 DEF Tr!CodexGood, Tr!Ordered
      <4>2. CASE j = n + 1
        BY <1>5, <1>8, <1>9, <1>10, <2>0, <4>2
      <4> QED BY <1>5, <4>1, <4>2
    <3>3. ASSUME NEW i \in 2..(n + 1)
          PROVE  rs[i].ordinal = (IF rs[1].ordinal = -1 THEN -1 ELSE i - 1) /\ rs[1].written <= rs[i].time
      <4>1. CASE i <= n
        BY <1>1, <1>5, <4>1 DEF Tr!CodexGood, Tr!None
      <4>2. CASE i = n + 1
        BY <1>5, <1>7, <1>8, <1>10, <2>0, <2>3, <4>2
      <4> QED BY <1>5, <4>1, <4>2
    <3>4. rs[1].time <= rs[1].written
      BY <1>1 DEF Tr!CodexGood
    <3> QED BY <3>1, <3>2, <3>3, <3>4 DEF Tr!CodexGood, Tr!None
  <2>5. Tr!Told(Tr!CodexStep(m, r), rs, n + 1)
    BY <1>5, <1>f, <2>2, <2>3, <2>4 DEF Tr!Told, Tr!Good, Tr!None
  <2> QED BY <1>3, <2>5 DEF rs
<1>11. CASE ~Fits
  <2>1. Tr!CodexStep(m, r) = Tr!Rejected
    BY <1>2, <1>4, <1>11, <1>e DEF Tr!CodexStep, Tr!None
  <2>2. ~Tr!CodexGood(rs, n + 1)
    <3> SUFFICES ASSUME Tr!CodexGood(rs, n + 1) PROVE FALSE
      OBVIOUS
    <3>1. r.kind = "item"
      BY <1>5 DEF Tr!CodexGood, Tr!AllOf, Tr!Of
    <3>2. r.ordinal = expected
      BY <1>5 DEF Tr!CodexGood, Tr!None
    <3>3. last <= r.time
      BY <1>5, <1>7 DEF Tr!CodexGood, Tr!Ordered, last, Tr!CodexTime
    <3>4. r.time \in Nat
      BY <1>5, <1>6, <3>1
    <3> QED BY <1>8, <1>11, <3>1, <3>2, <3>3, <3>4
  <2> QED BY <1>3, <2>1, <2>2 DEF rs, Tr!Good
<1> QED BY <1>10, <1>11

(* One more record adds itself to those of its kind, and its time.         *)
LEMMA OfNext ==
    ASSUME NEW rs, NEW n \in Nat, NEW k
    PROVE  /\ Tr!Of(rs, n, k) \subseteq 1..n
           /\ Tr!Of(rs, n + 1, k) = Tr!Of(rs, n, k) \cup (IF rs[n + 1].kind = k THEN {n + 1} ELSE {})
<1>1. 1..(n + 1) = (1..n) \cup {n + 1}
  OBVIOUS
<1> QED BY <1>1 DEF Tr!Of

(* Its time, if it has one.                                                *)
LEMMA TimesNext ==
    ASSUME NEW rs, NEW n \in Nat
    PROVE  Tr!TimesOf(rs, n + 1) =
             Tr!TimesOf(rs, n) \cup (IF "time" \in DOMAIN rs[n + 1] THEN {rs[n + 1].time} ELSE {})
<1>1. 1..(n + 1) = (1..n) \cup {n + 1}
  OBVIOUS
<1>2. CASE "time" \in DOMAIN rs[n + 1]
  <2>1. {j \in 1..(n + 1) : "time" \in DOMAIN rs[j]} = {j \in 1..n : "time" \in DOMAIN rs[j]} \cup {n + 1}
    BY <1>1, <1>2
  <2> QED BY <1>2, <2>1 DEF Tr!TimesOf
<1>3. CASE "time" \notin DOMAIN rs[n + 1]
  <2>1. {j \in 1..(n + 1) : "time" \in DOMAIN rs[j]} = {j \in 1..n : "time" \in DOMAIN rs[j]}
    BY <1>1, <1>3
  <2> QED BY <1>3, <2>1 DEF Tr!TimesOf
<1> QED BY <1>2, <1>3

(* Bounds of a set with one more.                                          *)
LEMMA DatedNext ==
    ASSUME NEW m, NEW a, NEW ts \in SUBSET Nat, NEW t \in Nat, Tr!Dated(m, ts),
           a.created = Tr!Earliest(m.created, t), a.updated = Tr!Latest(m.updated, t)
    PROVE  Tr!Dated(a, ts \cup {t})
<1>1. CASE ts = {}
  <2>1. a.created = t /\ a.updated = t
    BY <1>1 DEF Tr!Dated, Tr!Earliest, Tr!Latest
  <2> QED BY <1>1, <2>1 DEF Tr!Dated, Tr!IsEarliest, Tr!IsLatest
<1>2. CASE ts # {}
  <2>1. Tr!IsEarliest(m.created, ts) /\ Tr!IsLatest(m.updated, ts)
    BY <1>2 DEF Tr!Dated
  <2>2. m.created \in Nat /\ m.updated \in Nat
    BY <2>1 DEF Tr!IsEarliest, Tr!IsLatest
  <2>3. /\ a.created = IF t < m.created THEN t ELSE m.created
        /\ a.updated = IF t > m.updated THEN t ELSE m.updated
    BY <2>2 DEF Tr!Earliest, Tr!Latest, Tr!None
  <2>4. Tr!IsEarliest(a.created, ts \cup {t})
    BY <2>1, <2>2, <2>3 DEF Tr!IsEarliest
  <2>5. Tr!IsLatest(a.updated, ts \cup {t})
    BY <2>1, <2>2, <2>3 DEF Tr!IsLatest
  <2> QED BY <2>4, <2>5 DEF Tr!Dated
<1> QED BY <1>1, <1>2

(* The title after one more record.                                        *)
LEMMA TitledNext ==
    ASSUME NEW rs, NEW n \in Nat, NEW title, Tr!Titled(title, rs, n), Untitled \notin Titles,
           \A i \in 1..(n + 1) : rs[i].kind \in {"ai", "custom"} => rs[i].title \in Titles
    PROVE  /\ rs[n + 1].kind = "custom" => Tr!Titled(rs[n + 1].title, rs, n + 1)
           /\ rs[n + 1].kind = "ai" =>
                Tr!Titled(IF title = Untitled THEN rs[n + 1].title ELSE title, rs, n + 1)
           /\ rs[n + 1].kind \notin {"ai", "custom"} => Tr!Titled(title, rs, n + 1)
<1> DEFINE r == rs[n + 1]
           customs == Tr!Of(rs, n, "custom")
           ais == Tr!Of(rs, n, "ai")
<1>1. /\ customs \subseteq 1..n /\ ais \subseteq 1..n
      /\ Tr!Of(rs, n + 1, "custom") = customs \cup (IF r.kind = "custom" THEN {n + 1} ELSE {})
      /\ Tr!Of(rs, n + 1, "ai") = ais \cup (IF r.kind = "ai" THEN {n + 1} ELSE {})
  BY OfNext
<1>2. \A i \in customs \cup ais : rs[i].title \in Titles
  BY DEF Tr!Of
<1>3. \/ \E i \in customs : Tr!IsLatest(i, customs) /\ title = rs[i].title
      \/ customs = {} /\ \E i \in ais : Tr!IsEarliest(i, ais) /\ title = rs[i].title
      \/ customs \cup ais = {} /\ title = Untitled
  BY DEF Tr!Titled
<1>4. title = Untitled <=> customs \cup ais = {}
  BY <1>2, <1>3
<1> HIDE DEF customs, ais
<1>5. CASE r.kind = "custom"
  <2>1. Tr!IsLatest(n + 1, customs \cup {n + 1})
    BY <1>1 DEF Tr!IsLatest
  <2> QED BY <1>1, <1>5, <2>1 DEF Tr!Titled
<1>6. CASE r.kind = "ai"
  <2>0. Tr!Of(rs, n + 1, "custom") = customs /\ Tr!Of(rs, n + 1, "ai") = ais \cup {n + 1}
    BY <1>1, <1>6
  <2>1. CASE \E i \in customs : Tr!IsLatest(i, customs) /\ title = rs[i].title
    BY <1>4, <1>6, <2>0, <2>1 DEF Tr!Titled
  <2>2. CASE customs = {} /\ \E i \in ais : Tr!IsEarliest(i, ais) /\ title = rs[i].title
    <3>1. PICK i \in ais : Tr!IsEarliest(i, ais) /\ title = rs[i].title
      BY <2>2
    <3>2. Tr!IsEarliest(i, ais \cup {n + 1})
      BY <1>1, <3>1 DEF Tr!IsEarliest
    <3>3. title # Untitled
      BY <1>4, <3>1
    <3> QED BY <1>6, <2>0, <2>2, <3>1, <3>2, <3>3 DEF Tr!Titled
  <2>3. CASE customs \cup ais = {} /\ title = Untitled
    <3>1. Tr!IsEarliest(n + 1, {n + 1})
      BY DEF Tr!IsEarliest
    <3> QED BY <1>6, <2>0, <2>3, <3>1 DEF Tr!Titled
  <2> QED BY <1>3, <2>1, <2>2, <2>3
<1>7. CASE r.kind \notin {"ai", "custom"}
  <2>1. Tr!Of(rs, n + 1, "custom") = customs /\ Tr!Of(rs, n + 1, "ai") = ais
    BY <1>1, <1>7
  <2> QED BY <1>3, <1>7, <2>1 DEF Tr!Titled
<1> QED BY <1>5, <1>6, <1>7

(* Whether one more record may be of the session.                          *)
LEMMA ClaudeGoodNext ==
    ASSUME NEW rs, NEW n \in Nat, Tr!ClaudeGood(rs, n)
    PROVE  Tr!ClaudeGood(rs, n + 1) <=>
             /\ rs[n + 1].kind \notin {"malformed", "huge"}
             /\ rs[n + 1].kind = "turn" =>
                  rs[n + 1].parent # IF Tr!Of(rs, n, "turn") = {} THEN "other" ELSE "none"
<1> DEFINE r == rs[n + 1]
           turns == Tr!Of(rs, n, "turn")
           more == Tr!Of(rs, n + 1, "turn")
<1>1. turns \subseteq 1..n /\ more = turns \cup (IF r.kind = "turn" THEN {n + 1} ELSE {})
  BY OfNext
<1>2. /\ Tr!Of(rs, n + 1, "malformed") = {} <=> r.kind # "malformed"
      /\ Tr!Of(rs, n + 1, "huge") = {} <=> r.kind # "huge"
  <2>1. Tr!Of(rs, n, "malformed") = {} /\ Tr!Of(rs, n, "huge") = {}
    BY DEF Tr!ClaudeGood
  <2> QED BY <2>1, OfNext
<1>3. \A i \in turns : rs[i].parent # IF Tr!IsEarliest(i, turns) THEN "other" ELSE "none"
  BY DEF Tr!ClaudeGood
<1> HIDE DEF turns, more
<1>4. \A i \in turns : Tr!IsEarliest(i, more) <=> Tr!IsEarliest(i, turns)
  BY <1>1 DEF Tr!IsEarliest
<1>5. r.kind = "turn" => (Tr!IsEarliest(n + 1, more) <=> turns = {})
  BY <1>1 DEF Tr!IsEarliest
<1>6. (\A i \in more : rs[i].parent # IF Tr!IsEarliest(i, more) THEN "other" ELSE "none")
        <=> (r.kind = "turn" => r.parent # IF turns = {} THEN "other" ELSE "none")
  <2>1. CASE r.kind = "turn"
    <3>1. more = turns \cup {n + 1}
      BY <1>1, <2>1
    <3> QED BY <1>3, <1>4, <1>5, <2>1, <3>1
  <2>2. CASE r.kind # "turn"
    <3>1. more = turns
      BY <1>1, <2>2
    <3> QED BY <1>3, <2>2, <3>1
  <2> QED BY <2>1, <2>2
<1> QED BY <1>2, <1>6 DEF Tr!ClaudeGood, turns, more

(* What is kept of a session of Claude's is of one of two shapes, and its  *)
(* title, times and count may be put in place of others.                   *)
LEMMA ClaudeShape ==
    ASSUME NEW rs, NEW n \in Nat, NEW m, Tr!ClaudeTold(m, rs, n)
    PROVE  /\ m.is = IF Tr!Of(rs, n, "turn") = {} THEN "pending" ELSE "metadata"
           /\ Tr!HasChain(m) <=> Tr!Of(rs, n, "turn") # {}
           /\ m.count = n
<1>1. CASE Tr!Of(rs, n, "turn") = {}
  BY <1>1 DEF Tr!ClaudeTold, Tr!Pending, Tr!HasChain
<1>2. CASE Tr!Of(rs, n, "turn") # {}
  <2>1. m = Tr!Parsed(m.title, m.created, m.updated, m.chain, 0, m.cwd, m.count)
    BY <1>2 DEF Tr!ClaudeTold
  <2>2. m.is = "metadata" /\ m.tail = 0
    BY <2>1 DEF Tr!Parsed
  <2> QED BY <1>2, <2>2 DEF Tr!ClaudeTold, Tr!HasChain, Tr!None
<1> QED BY <1>1, <1>2

(* A record that is none of a session's identity.                          *)
LEMMA ClaudeOther ==
    ASSUME NEW rs, NEW n \in Nat, NEW m, Tr!ClaudeTold(m, rs, n), rs[n + 1].kind # "turn",
           NEW title, NEW created, NEW updated, NEW a,
           a = [m EXCEPT !.count = n + 1, !.title = title, !.created = created, !.updated = updated],
           Tr!Titled(title, rs, n + 1),
           Tr!Dated([created |-> created, updated |-> updated], Tr!TimesOf(rs, n + 1))
    PROVE  Tr!ClaudeTold(a, rs, n + 1)
<1> DEFINE turns == Tr!Of(rs, n, "turn")
<1>1. Tr!Of(rs, n + 1, "turn") = turns
  <2>1. Tr!Of(rs, n + 1, "turn") = turns \cup (IF rs[n + 1].kind = "turn" THEN {n + 1} ELSE {})
    BY OfNext
  <2> QED BY <2>1
<1>2. CASE turns = {}
  <2>1. m = Tr!Pending(m.title, m.created, m.updated, m.count)
    BY <1>2 DEF Tr!ClaudeTold
  <2>2. a = Tr!Pending(title, created, updated, n + 1)
    <3>1. PICK t, c, u, k : m = Tr!Pending(t, c, u, k)
      BY <2>1
    <3> QED BY <3>1 DEF Tr!Pending
  <2>3. a.title = title /\ a.created = created /\ a.updated = updated /\ a.count = n + 1
    BY <2>2 DEF Tr!Pending
  <2> QED BY <1>1, <1>2, <2>2, <2>3 DEF Tr!ClaudeTold, Tr!Dated
<1>3. CASE turns # {}
  <2>1. /\ m = Tr!Parsed(m.title, m.created, m.updated, m.chain, 0, m.cwd, m.count)
        /\ \E i \in turns : Tr!IsEarliest(i, turns) /\ m.cwd = rs[i].cwd
    BY <1>3 DEF Tr!ClaudeTold
  <2>2. a = Tr!Parsed(title, created, updated, m.chain, 0, m.cwd, n + 1)
    <3>1. PICK t, c, u, h, d, k : m = Tr!Parsed(t, c, u, h, 0, d, k)
      BY <2>1
    <3> QED BY <3>1 DEF Tr!Parsed
  <2>3. /\ a.title = title /\ a.created = created /\ a.updated = updated /\ a.count = n + 1
        /\ a.chain = m.chain /\ a.cwd = m.cwd
    BY <2>2 DEF Tr!Parsed
  <2> QED BY <1>1, <1>3, <2>1, <2>2, <2>3 DEF Tr!ClaudeTold, Tr!Dated
<1> QED BY <1>2, <1>3

(* One more record of Claude's.                                            *)
LEMMA ClaudeNext ==
    ASSUME Tr!TranscriptsAssumption, Tr!TypeOK, format = "claude", NEW m,
           NEW n \in 0..(Len(file.records) - 1), Tr!Told(m, file.records, n)
    PROVE  \/ /\ Tr!Step(m, file.records[n + 1]) = Tr!Rejected
              /\ ~Tr!Good(file.records, n + 1)
           \/ Tr!Told(Tr!Step(m, file.records[n + 1]), file.records, n + 1)
<1> DEFINE rs == file.records
           r == rs[n + 1]
           turns == Tr!Of(rs, n, "turn")
           times == Tr!TimesOf(rs, n)
           a == Tr!Step(m, r)
<1> HIDE DEF rs, a
<1>1. Tr!ClaudeGood(rs, n) /\ Tr!ClaudeTold(m, rs, n)
  BY DEF Tr!Told, Tr!Good, rs
<1>5. n \in Nat /\ n + 1 \in 1..Len(file.records)
  BY DEF Tr!TypeOK
<1>2. /\ m.is = IF turns = {} THEN "pending" ELSE "metadata"
      /\ Tr!HasChain(m) <=> turns # {}
      /\ m.count = n
  BY <1>1, <1>5, ClaudeShape
<1>3. a = Tr!ClaudeStep(m, r)
  BY <1>2 DEF Tr!Step, Tr!Rejected, a
<1>4. Tr!Titled(m.title, rs, n) /\ Tr!Dated(m, times)
  BY <1>1 DEF Tr!ClaudeTold
<1>6. ASSUME NEW i \in 1..(n + 1)
      PROVE  /\ rs[i].kind \in {"turn", "stamp", "ai", "custom", "other", "malformed", "huge"}
             /\ ("time" \in DOMAIN rs[i]) <=> rs[i].kind \in {"turn", "stamp"}
             /\ "time" \in DOMAIN rs[i] => rs[i].time \in Nat
             /\ rs[i].kind \in {"ai", "custom"} => rs[i].title \in Titles
             /\ rs[i].kind = "turn" => rs[i].parent \in {"none", "other", "boundary"}
  <2>1. i \in 1..Len(file.records)
    BY <1>5
  <2> QED BY <2>1, ClaudeFacts DEF rs
<1>r. /\ ("time" \in DOMAIN r) <=> r.kind \in {"turn", "stamp"}
      /\ "time" \in DOMAIN r => r.time \in Nat
  <2>1. n + 1 \in 1..(n + 1)
    BY <1>5
  <2> QED BY <1>6, <2>1
<1>7. times \in SUBSET Nat
  BY <1>6 DEF Tr!TimesOf
<1>8. Tr!TimesOf(rs, n + 1) = times \cup (IF "time" \in DOMAIN r THEN {r.time} ELSE {})
  BY <1>5, TimesNext
<1>9. Tr!ClaudeGood(rs, n + 1) <=>
             /\ r.kind \notin {"malformed", "huge"}
             /\ r.kind = "turn" => r.parent # IF turns = {} THEN "other" ELSE "none"
  BY <1>1, <1>5, ClaudeGoodNext
<1>10. Untitled \notin Titles
  BY DEF Tr!TranscriptsAssumption
<1>11. /\ r.kind = "custom" => Tr!Titled(r.title, rs, n + 1)
       /\ r.kind = "ai" => Tr!Titled(IF m.title = Untitled THEN r.title ELSE m.title, rs, n + 1)
       /\ r.kind \notin {"ai", "custom"} => Tr!Titled(m.title, rs, n + 1)
  <2>1. \A i \in 1..(n + 1) : rs[i].kind \in {"ai", "custom"} => rs[i].title \in Titles
    BY <1>6
  <2> QED BY <1>4, <1>5, <1>10, <2>1, TitledNext
<1>12. Tr!Dated([created |-> m.created, updated |-> m.updated], times)
  BY <1>4 DEF Tr!Dated
<1>13. r.kind \in {"turn", "stamp"} =>
          /\ r.time \in Nat
          /\ Tr!Dated([created |-> Tr!Earliest(m.created, r.time), updated |-> Tr!Latest(m.updated, r.time)],
                      Tr!TimesOf(rs, n + 1))
  <2> SUFFICES ASSUME r.kind \in {"turn", "stamp"}
               PROVE  /\ r.time \in Nat
                      /\ Tr!Dated([created |-> Tr!Earliest(m.created, r.time),
                                   updated |-> Tr!Latest(m.updated, r.time)], times \cup {r.time})
    BY <1>r, <1>8
  <2>1. r.time \in Nat
    BY <1>5, <1>6
  <2> DEFINE b == [created |-> Tr!Earliest(m.created, r.time), updated |-> Tr!Latest(m.updated, r.time)]
  <2>2. b.created = Tr!Earliest(m.created, r.time) /\ b.updated = Tr!Latest(m.updated, r.time)
    OBVIOUS
  <2> HIDE DEF b
  <2>3. Tr!Dated(b, times \cup {r.time})
    BY <1>4, <1>7, <2>1, <2>2, DatedNext
  <2> QED BY <2>1, <2>3 DEF b
<1>14. r.kind \notin {"turn", "stamp"} =>
          Tr!Dated([created |-> m.created, updated |-> m.updated], Tr!TimesOf(rs, n + 1))
  BY <1>r, <1>8, <1>12
<1> HIDE DEF times, turns
<1>15. CASE r.kind = "turn"
  <2> DEFINE Fits == r.parent # IF turns = {} THEN "other" ELSE "none"
             created == Tr!Earliest(m.created, r.time)
             updated == Tr!Latest(m.updated, r.time)
             cwd == IF m.is = "metadata" THEN m.cwd ELSE r.cwd
  <2>1. r.parent \in {"none", "other", "boundary"}
    BY <1>5, <1>6, <1>15
  <2>2. a = IF Fits THEN Tr!Parsed(m.title, created, updated, updated, 0, cwd, n + 1) ELSE Tr!Rejected
    BY <1>2, <1>3, <1>15, <2>1 DEF Tr!ClaudeStep, Tr!ClaudeTurn
  <2>3. CASE ~Fits
    BY <1>9, <1>15, <2>2, <2>3 DEF Tr!Good, a, rs
  <2>4. CASE Fits
    <3> HIDE DEF created, updated, cwd
    <3>1. /\ a.title = m.title /\ a.created = created /\ a.updated = updated /\ a.count = n + 1
          /\ a.chain = updated /\ a.cwd = cwd
          /\ a = Tr!Parsed(a.title, a.created, a.updated, a.chain, 0, a.cwd, a.count)
      BY <2>2, <2>4 DEF Tr!Parsed
    <3>2. turns \subseteq 1..n /\ Tr!Of(rs, n + 1, "turn") = turns \cup {n + 1}
      BY <1>5, <1>15, OfNext DEF turns
    <3>3. \E i \in turns \cup {n + 1} : Tr!IsEarliest(i, turns \cup {n + 1}) /\ cwd = rs[i].cwd
      <4>1. CASE turns = {}
        BY <1>2, <1>5, <4>1 DEF cwd, Tr!IsEarliest
      <4>2. CASE turns # {}
        <5>1. PICK i \in turns : Tr!IsEarliest(i, turns) /\ m.cwd = rs[i].cwd
          BY <1>1, <4>2 DEF Tr!ClaudeTold, turns
        <5>2. Tr!IsEarliest(i, turns \cup {n + 1})
          BY <1>5, <3>2, <5>1 DEF Tr!IsEarliest
        <5> QED BY <1>2, <4>2, <5>1, <5>2 DEF cwd
      <4> QED BY <4>1, <4>2
    <3>4. Tr!Titled(a.title, rs, n + 1)
      BY <1>11, <1>15, <3>1
    <3>5. Tr!Dated(a, Tr!TimesOf(rs, n + 1))
      BY <1>13, <1>15, <3>1 DEF Tr!Dated, created, updated
    <3>6. Tr!ClaudeTold(a, rs, n + 1)
      BY <3>1, <3>2, <3>3, <3>4, <3>5 DEF Tr!ClaudeTold
    <3>7. Tr!ClaudeGood(rs, n + 1)
      BY <1>9, <1>15, <2>4
    <3> QED BY <3>6, <3>7 DEF Tr!Told, Tr!Good, a, rs
  <2> QED BY <2>3, <2>4
<1>16. CASE r.kind \in {"malformed", "huge"}
  <2>1. a = Tr!Rejected
    BY <1>3, <1>16 DEF Tr!ClaudeStep, Tr!ClaudeAuxiliary
  <2> QED BY <1>9, <1>16, <2>1 DEF Tr!Good, a, rs
<1>17. ASSUME r.kind \in {"stamp", "custom", "ai", "other"}, Tr!ClaudeTold(a, rs, n + 1)
       PROVE  Tr!Told(Tr!Step(m, file.records[n + 1]), file.records, n + 1)
  BY <1>9, <1>17 DEF Tr!Told, Tr!Good, a, rs
<1>18. CASE r.kind = "stamp"
  <2>1. a = [m EXCEPT !.count = n + 1, !.title = m.title, !.created = Tr!Earliest(m.created, r.time),
                      !.updated = Tr!Latest(m.updated, r.time)]
    BY <1>2, <1>3, <1>18 DEF Tr!ClaudeStep, Tr!ClaudeAuxiliary, Tr!Stamped
  <2>2. Tr!ClaudeTold(a, rs, n + 1)
    BY <1>1, <1>5, <1>11, <1>13, <1>18, <2>1, ClaudeOther
  <2> QED BY <1>17, <1>18, <2>2
<1>19. CASE r.kind = "custom"
  <2>1. a = [m EXCEPT !.count = n + 1, !.title = r.title, !.created = m.created, !.updated = m.updated]
    BY <1>2, <1>3, <1>19 DEF Tr!ClaudeStep, Tr!ClaudeAuxiliary
  <2>2. Tr!ClaudeTold(a, rs, n + 1)
    BY <1>1, <1>5, <1>11, <1>14, <1>19, <2>1, ClaudeOther
  <2> QED BY <1>17, <1>19, <2>2
<1>20. CASE r.kind = "ai"
  <2>1. a = [m EXCEPT !.count = n + 1, !.title = IF m.title = Untitled THEN r.title ELSE m.title,
                      !.created = m.created, !.updated = m.updated]
    BY <1>2, <1>3, <1>20 DEF Tr!ClaudeStep, Tr!ClaudeAuxiliary
  <2>2. Tr!ClaudeTold(a, rs, n + 1)
    BY <1>1, <1>5, <1>11, <1>14, <1>20, <2>1, ClaudeOther
  <2> QED BY <1>17, <1>20, <2>2
<1>21. CASE r.kind = "other"
  <2>1. a = [m EXCEPT !.count = n + 1, !.title = m.title, !.created = m.created, !.updated = m.updated]
    BY <1>2, <1>3, <1>21 DEF Tr!ClaudeStep, Tr!ClaudeAuxiliary
  <2>2. Tr!ClaudeTold(a, rs, n + 1)
    BY <1>1, <1>5, <1>11, <1>14, <1>21, <2>1, ClaudeOther
  <2> QED BY <1>17, <1>21, <2>2
<1>22. r.kind \in {"turn", "stamp", "ai", "custom", "other", "malformed", "huge"}
  BY <1>5, <1>6
<1> QED BY <1>15, <1>16, <1>18, <1>19, <1>20, <1>21, <1>22

(* What more records may be those of a session, fewer may.                 *)
LEMMA GoodPrefix ==
    ASSUME Tr!TranscriptsAssumption, Tr!TypeOK, NEW rs, NEW n \in Nat, NEW k \in Nat, n <= k,
           n >= Tr!HeaderRecords, Tr!Good(rs, k)
    PROVE  Tr!Good(rs, n)
<1>0. format \in {"pi", "omp", "codex", "claude"}
  BY DEF Tr!TypeOK, Tr!Formats
<1>1. CASE format = "pi"
  <2>1. Tr!PiGood(rs, k) /\ n >= 1
    BY <1>1 DEF Tr!Good, Tr!HeaderRecords
  <2>2. Tr!PiGood(rs, n)
    BY <2>1 DEF Tr!PiGood, Tr!AllOf, Tr!Of, Tr!Ordered
  <2> QED BY <1>1, <2>2 DEF Tr!Good
<1>2. CASE format = "omp"
  <2>1. Tr!OmpGood(rs, k) /\ n >= 2 /\ MaxOmpRecords \in Nat
    BY <1>2 DEF Tr!Good, Tr!HeaderRecords, Tr!TranscriptsAssumption
  <2>2. Tr!OmpGood(rs, n)
    BY <2>1 DEF Tr!OmpGood, Tr!AllOf, Tr!Of, Tr!Ordered
  <2> QED BY <1>2, <2>2 DEF Tr!Good
<1>3. CASE format = "codex"
  <2>1. Tr!CodexGood(rs, k) /\ n >= 1
    BY <1>3 DEF Tr!Good, Tr!HeaderRecords
  <2>2. Tr!CodexGood(rs, n)
    BY <2>1 DEF Tr!CodexGood, Tr!AllOf, Tr!Of, Tr!Ordered
  <2> QED BY <1>3, <2>2 DEF Tr!Good
<1>4. CASE format = "claude"
  <2>1. Tr!ClaudeGood(rs, k)
    BY <1>4 DEF Tr!Good
  <2>2. \A kind : Tr!Of(rs, n, kind) = {i \in Tr!Of(rs, k, kind) : i <= n}
    BY DEF Tr!Of
  <2>3. \A i \in Tr!Of(rs, n, "turn") :
           Tr!IsEarliest(i, Tr!Of(rs, n, "turn")) <=> Tr!IsEarliest(i, Tr!Of(rs, k, "turn"))
    <3>1. Tr!Of(rs, k, "turn") \subseteq 1..k
      BY DEF Tr!Of
    <3> QED BY <2>2, <3>1 DEF Tr!IsEarliest
  <2>4. Tr!ClaudeGood(rs, n)
    BY <2>1, <2>2, <2>3 DEF Tr!ClaudeGood
  <2> QED BY <1>4, <2>4 DEF Tr!Good
<1> QED BY <1>0, <1>1, <1>2, <1>3, <1>4

(* What the first n records have made of a session: what they say, or a    *)
(* failure if they are those of none.                                      *)
Made(m, n) == \/ m = Tr!Rejected /\ ~Tr!Good(file.records, n)
              \/ Tr!Told(m, file.records, n)

(* One more record, in any format.                                         *)
LEMMA StepMade ==
    ASSUME Tr!TranscriptsAssumption, Tr!TypeOK, NEW m,
           NEW n \in Tr!HeaderRecords..(Len(file.records) - 1), Made(m, n)
    PROVE  Made(Tr!Step(m, file.records[n + 1]), n + 1)
<1> DEFINE a == Tr!Step(m, file.records[n + 1])
<1>0. /\ format \in {"pi", "omp", "codex", "claude"} /\ Len(file.records) \in Nat
      /\ Tr!HeaderRecords = IF format = "omp" THEN 2 ELSE IF format = "claude" THEN 0 ELSE 1
  BY DEF Tr!TypeOK, Tr!Formats, Tr!HeaderRecords
<1>1. CASE m = Tr!Rejected /\ ~Tr!Good(file.records, n)
  <2>1. a = Tr!Rejected
    BY <1>1 DEF Tr!Step, Tr!Rejected
  <2>2. ~Tr!Good(file.records, n + 1)
    <3>1. n \in Nat /\ n + 1 \in Nat /\ n <= n + 1 /\ n >= Tr!HeaderRecords
      BY <1>0
    <3> QED BY <1>1, <3>1, GoodPrefix
  <2> QED BY <2>1, <2>2 DEF Made
<1>2. CASE Tr!Told(m, file.records, n)
  <2>1. CASE format = "pi"
    BY <1>0, <1>2, <2>1, PiNext DEF Made
  <2>2. CASE format = "omp"
    BY <1>0, <1>2, <2>2, OmpNext DEF Made
  <2>3. CASE format = "codex"
    BY <1>0, <1>2, <2>3, CodexNext DEF Made
  <2>4. CASE format = "claude"
    BY <1>0, <1>2, <2>4, ClaudeNext DEF Made
  <2> QED BY <1>0, <2>1, <2>2, <2>3, <2>4
<1> QED BY <1>1, <1>2 DEF Made

(* The records that open a session.                                        *)
LEMMA HeaderMade ==
    ASSUME Tr!TranscriptsAssumption, Tr!TypeOK, Len(file.records) >= Tr!HeaderRecords
    PROVE  Made(Tr!Header, Tr!HeaderRecords)
<1> DEFINE rs == file.records
<1>0. /\ format \in {"pi", "omp", "codex", "claude"} /\ Len(file.records) \in Nat
      /\ Tr!HeaderRecords = IF format = "omp" THEN 2 ELSE IF format = "claude" THEN 0 ELSE 1
  BY DEF Tr!TypeOK, Tr!Formats, Tr!HeaderRecords
<1>h. 1 \in 1..Len(rs)
  BY DEF Tr!TypeOK
<1> HIDE DEF rs
<1>1. CASE format = "pi"
  <2>1. rs[1].kind = "header" /\ rs[1].time \in Nat
    BY <1>1, <1>h, RecordFacts DEF rs
  <2>2. Tr!Header = Tr!Parsed(Untitled, rs[1].time, rs[1].time, rs[1].time, -1, Tr!Root, 1)
    BY <1>1, <2>1 DEF Tr!Header, Tr!PiHeader, Tr!None, rs
  <2>3. Tr!PiGood(rs, 1)
    BY <2>1 DEF Tr!PiGood, Tr!AllOf, Tr!Of, Tr!Ordered
  <2> QED BY <1>0, <1>1, <2>2, <2>3 DEF Made, Tr!Told, Tr!Good, Tr!None, rs
<1>2. CASE format = "omp"
  <2>0. 2 \in 1..Len(rs)
    BY <1>0, <1>2 DEF rs
  <2>1. rs[1].kind = "slot" /\ rs[2].kind = "header" /\ rs[1].time \in Nat /\ rs[2].time \in Nat
    BY <1>2, <1>h, <2>0, RecordFacts DEF rs
  <2>2. Tr!Header = IF rs[1].time >= rs[2].time
                    THEN Tr!Parsed(rs[1].title, rs[2].time, rs[1].time, rs[2].time, -1, Tr!Root, 2)
                    ELSE Tr!Rejected
    BY <1>2, <2>1 DEF Tr!Header, Tr!OmpHeader, Tr!None, rs
  <2>3. Tr!OmpGood(rs, 2) <=> rs[1].time >= rs[2].time
    <3>1. MaxOmpRecords \in Nat
      BY DEF Tr!TranscriptsAssumption
    <3>2. Tr!AllOf(rs, 3, 2, "entry") /\ Tr!Ordered(rs, 2, 2)
      BY <2>1 DEF Tr!AllOf, Tr!Ordered, Tr!Of
    <3> QED BY <2>1, <3>1, <3>2 DEF Tr!OmpGood
  <2>4. rs[1].time >= rs[2].time => Tr!Latest(rs[1].time, rs[2].time) = rs[1].time
    BY <2>1 DEF Tr!Latest, Tr!None
  <2> QED BY <1>0, <1>2, <2>2, <2>3, <2>4 DEF Made, Tr!Told, Tr!Good, Tr!None, rs
<1>3. CASE format = "codex"
  <2>1. rs[1].kind = "header" /\ rs[1].time \in Nat /\ rs[1].written \in Nat /\ rs[1].ordinal \in {-1, 0}
    BY <1>3, <1>h, RecordFacts DEF rs
  <2>2. Tr!Header = IF rs[1].written >= rs[1].time
                    THEN Tr!Parsed(Untitled, rs[1].time, rs[1].written, rs[1].written, rs[1].ordinal, Tr!Root, 1)
                    ELSE Tr!Rejected
    BY <1>3, <2>1 DEF Tr!Header, Tr!CodexHeader, Tr!None, rs
  <2>3. Tr!CodexGood(rs, 1) <=> rs[1].written >= rs[1].time
    <3>1. Tr!AllOf(rs, 2, 1, "item") /\ Tr!Ordered(rs, 2, 1)
      BY DEF Tr!AllOf, Tr!Ordered, Tr!Of
    <3> QED BY <2>1, <3>1 DEF Tr!CodexGood
  <2>4. rs[1].ordinal = (IF rs[1].ordinal = -1 THEN -1 ELSE 1 - 1) /\ Tr!CodexTime(rs, 1) = rs[1].written
    BY <2>1 DEF Tr!CodexTime
  <2> QED BY <1>0, <1>3, <2>2, <2>3, <2>4 DEF Made, Tr!Told, Tr!Good, Tr!None, rs
<1>4. CASE format = "claude"
  <2>1. Tr!Header = Tr!Pending(Untitled, -1, -1, 0)
    BY <1>4 DEF Tr!Header, Tr!None
  <2>2. \A kind : Tr!Of(rs, 0, kind) = {}
    BY DEF Tr!Of
  <2>3. Tr!TimesOf(rs, 0) = {}
    BY DEF Tr!TimesOf
  <2>4. Tr!ClaudeGood(rs, 0)
    BY <2>2 DEF Tr!ClaudeGood
  <2>5. Tr!ClaudeTold(Tr!Header, rs, 0)
    BY <2>1, <2>2, <2>3 DEF Tr!ClaudeTold, Tr!Titled, Tr!Dated, Tr!Pending, Tr!None
  <2> QED BY <1>0, <1>4, <2>4, <2>5 DEF Made, Tr!Told, Tr!Good, rs
<1> QED BY <1>0, <1>1, <1>2, <1>3, <1>4

(* The loop over the records defines what it computes: by the first record *)
(* it would not.                                                           *)
LEMMA FoldLoop ==
    ASSUME NEW m, NEW from \in Nat, Len(file.records) \in Nat, from <= Len(file.records)
    PROVE  \A n \in from..Len(file.records) :
              Tr!Fold(m, from)[n] = IF n = from THEN m
                                    ELSE Tr!Step(Tr!Fold(m, from)[n - 1], file.records[n])
<1> DEFINE rs == file.records
           max == Len(rs)
           Loops(g, k) == g =
             [n \in from..k |->
                IF n = from THEN m
                ELSE CHOOSE after \in {Tr!Step(before, rs[n]) : before \in {g[n - 1]}} : TRUE]
           Stuck == {k \in from..max : \A g : ~Loops(g, k)}
<1>0. \A x, r : (CHOOSE after \in {Tr!Step(before, r) : before \in {x}} : TRUE) = Tr!Step(x, r)
  OBVIOUS
<1>1. Stuck = {}
  <2> SUFFICES ASSUME Stuck # {} PROVE FALSE
    OBVIOUS
  <2>0. Stuck \subseteq from..max /\ Stuck \subseteq Nat
    OBVIOUS
  <2>1. PICK k \in Stuck : \A j \in Stuck : ~(<<j, k>> \in OpToRel(<, Nat))
    <3> HIDE DEF Stuck
    <3> QED BY <2>0, WFMin, NatLessThanWellFounded
  <2>2. k \in from..max /\ \A j \in from..max : j < k => j \notin Stuck
    <3> HIDE DEF Stuck
    <3> QED BY <2>0, <2>1 DEF OpToRel
  <2>3. CASE k = from
    <3> DEFINE g == [n \in from..from |-> m]
    <3>1. Loops(g, from)
      OBVIOUS
    <3> QED BY <2>1, <2>3, <3>1
  <2>4. CASE k # from
    <3>1. k - 1 \in from..max /\ k \in Nat /\ k > from
      BY <2>2, <2>4
    <3>2. PICK h : Loops(h, k - 1)
      BY <2>2, <3>1
    <3> DEFINE g == [n \in from..k |-> IF n = k THEN Tr!Step(h[k - 1], rs[k]) ELSE h[n]]
    <3>3. ASSUME NEW n \in from..k
          PROVE  g[n] = IF n = from THEN m
                        ELSE CHOOSE after \in {Tr!Step(before, rs[n]) : before \in {g[n - 1]}} : TRUE
      <4>1. CASE n = k
        <5>1. g[n - 1] = h[k - 1] /\ g[n] = Tr!Step(h[k - 1], rs[k])
          BY <3>1, <4>1
        <5>2. g[n] = Tr!Step(g[n - 1], rs[n])
          BY <4>1, <5>1
        <5> HIDE DEF g
        <5> QED BY <1>0, <3>1, <4>1, <5>2
      <4>2. CASE n # k
        <5>1. n \in from..(k - 1) /\ g[n] = h[n] /\ (n # from => g[n - 1] = h[n - 1])
          BY <3>1, <4>2
        <5>2. h[n] = IF n = from THEN m
                     ELSE CHOOSE after \in {Tr!Step(before, rs[n]) : before \in {h[n - 1]}} : TRUE
          BY <3>2, <5>1
        <5> HIDE DEF g
        <5> QED BY <5>1, <5>2
      <4> QED BY <4>1, <4>2
    <3>4. Loops(g, k)
      <4> HIDE DEF g
      <4>1. g = [n \in from..k |-> g[n]]
        BY DEF g
      <4> QED BY <3>3, <4>1
    <3> QED BY <2>1, <3>4
  <2> QED BY <2>3, <2>4
<1>2. max \notin Stuck /\ max \in from..max
  BY <1>1
<1>3. \E g : Loops(g, max)
  BY <1>2
<1>4. Tr!Fold(m, from) = CHOOSE g : Loops(g, max)
  BY DEF Tr!Fold
<1>5. Loops(Tr!Fold(m, from), max)
  BY <1>3, <1>4
<1> DEFINE f == Tr!Fold(m, from)
<1> HIDE DEF f
<1>6. \A n \in from..max :
         f[n] = IF n = from THEN m
                ELSE CHOOSE after \in {Tr!Step(before, rs[n]) : before \in {f[n - 1]}} : TRUE
  BY <1>5 DEF f
<1>7. \A n \in from..max : f[n] = IF n = from THEN m ELSE Tr!Step(f[n - 1], rs[n])
  BY <1>0, <1>6
<1> QED BY <1>7 DEF f

(* A loop that starts with what the first records say does so at its end.  *)
LEMMA FoldMade ==
    ASSUME Tr!TranscriptsAssumption, Tr!TypeOK, NEW m,
           NEW from \in Tr!HeaderRecords..Len(file.records), Made(m, from),
           NEW k \in from..Len(file.records)
    PROVE  Made(Tr!Fold(m, from)[k], k)
<1> DEFINE f == Tr!Fold(m, from)
           Lost == {n \in from..Len(file.records) : ~Made(f[n], n)}
<1>0. Len(file.records) \in Nat /\ from \in Nat /\ from <= Len(file.records)
  BY DEF Tr!TypeOK, Tr!HeaderRecords
<1>1. \A n \in from..Len(file.records) : f[n] = IF n = from THEN m ELSE Tr!Step(f[n - 1], file.records[n])
  BY <1>0, FoldLoop
<1> HIDE DEF f
<1>2. Lost = {}
  <2> SUFFICES ASSUME Lost # {} PROVE FALSE
    OBVIOUS
  <2>0. Lost \subseteq Nat
    BY <1>0
  <2>1. PICK n \in Lost : \A j \in Lost : ~(<<j, n>> \in OpToRel(<, Nat))
    <3> HIDE DEF Lost
    <3> QED BY <2>0, WFMin, NatLessThanWellFounded
  <2>2. n \in from..Len(file.records) /\ ~Made(f[n], n)
    OBVIOUS
  <2>3. \A j \in Lost : ~(j < n)
    <3> HIDE DEF Lost
    <3> QED BY <2>0, <2>1 DEF OpToRel
  <2>4. n # from
    BY <1>1, <2>2
  <2>5. n - 1 \in from..Len(file.records) /\ n - 1 < n
    BY <1>0, <2>2, <2>4
  <2>6. Made(f[n - 1], n - 1)
    BY <2>3, <2>5
  <2>7. n - 1 \in Tr!HeaderRecords..(Len(file.records) - 1) /\ (n - 1) + 1 = n
    BY <1>0, <2>2, <2>5 DEF Tr!HeaderRecords
  <2>8. Made(Tr!Step(f[n - 1], file.records[n]), n)
    BY <2>6, <2>7, StepMade
  <2>9. f[n] = Tr!Step(f[n - 1], file.records[n])
    BY <1>1, <2>2, <2>4
  <2> QED BY <2>2, <2>8, <2>9
<1> QED BY <1>2 DEF f

(* The end of a page of Claude's records changes nothing of what they say. *)
LEMMA EndTold ==
    ASSUME NEW m, NEW n \in Nat, Tr!Told(m, file.records, n), format = "claude"
    PROVE  Tr!Told(Tr!ClaudeEnd(m), file.records, n)
<1> DEFINE rs == file.records
           a == Tr!ClaudeEnd(m)
<1>1. Tr!ClaudeTold(m, rs, n) /\ Tr!Good(rs, n)
  BY DEF Tr!Told
<1>2. m.is = IF Tr!Of(rs, n, "turn") = {} THEN "pending" ELSE "metadata"
  BY <1>1, ClaudeShape
<1>3. CASE Tr!Of(rs, n, "turn") = {}
  BY <1>1, <1>2, <1>3 DEF Tr!Told, Tr!ClaudeEnd
<1>4. CASE Tr!Of(rs, n, "turn") # {}
  <2>1. PICK t, c, u, h, d, j : m = Tr!Parsed(t, c, u, h, 0, d, j)
    BY <1>1, <1>4 DEF Tr!ClaudeTold
  <2>2. a = Tr!Parsed(t, c, u, u, 0, d, j)
    BY <1>2, <1>4, <2>1 DEF Tr!ClaudeEnd, Tr!Parsed
  <2>3. /\ a.title = m.title /\ a.created = m.created /\ a.updated = m.updated /\ a.cwd = m.cwd
        /\ a.count = m.count /\ a = Tr!Parsed(a.title, a.created, a.updated, a.chain, 0, a.cwd, a.count)
    BY <2>1, <2>2 DEF Tr!Parsed
  <2> HIDE DEF a
  <2>4. Tr!ClaudeTold(a, rs, n)
    BY <1>1, <1>4, <2>3 DEF Tr!ClaudeTold, Tr!Dated
  <2> QED BY <1>1, <2>4 DEF Tr!Told, a
<1> QED BY <1>3, <1>4

(* A page: what is made of it is what the records say up to its end.       *)
LEMMA ParseMade ==
    ASSUME Tr!TranscriptsAssumption, Tr!TypeOK, NEW previous, NEW n \in Nat, NEW m \in n..Len(file.records),
           \/ previous.is \in {"metadata", "pending"} /\ n >= Tr!HeaderRecords /\ Tr!Told(previous, file.records, n)
           \/ previous.is \notin {"metadata", "pending"} /\ n = 0
    PROVE  IF n = 0 /\ previous.is \notin {"metadata", "pending"} /\ m < Tr!HeaderRecords
           THEN Tr!Parse(n, m, previous) = Tr!Rejected ELSE Made(Tr!Parse(n, m, previous), m)
<1> DEFINE resumed == previous.is \in {"metadata", "pending"}
           end == IF resumed THEN Tr!Fold(previous, n)[m]
                  ELSE IF m < Tr!HeaderRecords THEN Tr!Rejected
                  ELSE Tr!Fold(Tr!Header, Tr!HeaderRecords)[m]
<1>0. /\ Len(file.records) \in Nat /\ m \in Nat /\ n <= m /\ m <= Len(file.records)
      /\ Tr!HeaderRecords \in Nat
  BY DEF Tr!TypeOK, Tr!HeaderRecords
<1>1. Tr!Parse(n, m, previous) = IF format = "claude" THEN Tr!ClaudeEnd(end) ELSE end
  BY DEF Tr!Parse
<1>e. Tr!ClaudeEnd(Tr!Rejected) = Tr!Rejected
  BY DEF Tr!ClaudeEnd, Tr!Rejected
<1>2. CASE ~resumed /\ m < Tr!HeaderRecords
  BY <1>1, <1>2, <1>e
<1>3. CASE resumed \/ ~(m < Tr!HeaderRecords)
  <2>1. Made(end, m)
    <3>1. CASE resumed
      <4>1. n \in Tr!HeaderRecords..Len(file.records) /\ Made(previous, n)
        BY <1>0, <3>1 DEF Made
      <4> QED BY <1>0, <3>1, <4>1, FoldMade
    <3>2. CASE ~resumed
      <4>1. Tr!HeaderRecords \in Tr!HeaderRecords..Len(file.records) /\ m \in Tr!HeaderRecords..Len(file.records)
        BY <1>0, <1>3, <3>2
      <4>2. Made(Tr!Header, Tr!HeaderRecords)
        BY <1>0, <4>1, HeaderMade
      <4>3. Made(Tr!Fold(Tr!Header, Tr!HeaderRecords)[m], m)
        BY <4>1, <4>2, FoldMade
      <4> QED BY <1>0, <1>3, <3>2, <4>3
    <3> QED BY <3>1, <3>2
  <2> HIDE DEF end
  <2>2. Made(IF format = "claude" THEN Tr!ClaudeEnd(end) ELSE end, m)
    <3>1. CASE end = Tr!Rejected /\ ~Tr!Good(file.records, m)
      BY <1>e, <3>1 DEF Made
    <3>2. CASE Tr!Told(end, file.records, m)
      BY <1>0, <3>2, EndTold DEF Made
    <3> QED BY <2>1, <3>1, <3>2 DEF Made
  <2> QED BY <1>1, <1>3, <2>2
<1> QED BY <1>2, <1>3

(* A number times more is at least so much more.                           *)
LEMMA TimesMore ==
    ASSUME NEW p \in Nat, NEW c \in Nat, NEW d \in Nat, c < d
    PROVE  p * c \in Nat /\ p * d \in Nat /\ p * d >= p * c + p
<1>1. p * c \in Nat /\ p * (d - c - 1) \in Nat
  BY SMT
<1>2. p * d = p * c + p + p * (d - c - 1)
  BY SMT
<1> QED BY <1>1, <1>2

(* The records after the n-th that are longer than a page.                 *)
After(n) == {i \in Tr!Huge : i > n}

(* The size of what is left of a file tells how many of those there are.   *)
LEMMA Sizes ==
    ASSUME Tr!TranscriptsAssumption, Tr!TypeOK, NEW n \in 0..Len(file.records), NEW m \in n..Len(file.records)
    PROVE  /\ Tr!SizeFrom(n) \in Nat /\ Tr!SizeFrom(m) \in Nat
           /\ Tr!SizeFrom(m) >= (Len(file.records) - m) + file.tail
           /\ Tr!SizeFrom(Len(file.records)) = file.tail
           /\ After(n) = After(m) => Tr!SizeFrom(n) - Tr!SizeFrom(m) = m - n
           /\ After(n) # After(m) => Tr!SizeFrom(n) - Tr!SizeFrom(m) > Page
<1> DEFINE N == Len(file.records)
           C(k) == Cardinality(After(k))
<1>0. N \in Nat /\ file.tail \in Nat /\ Page \in Nat /\ n \in Nat /\ m \in Nat /\ n <= m /\ m <= N
  BY DEF Tr!TypeOK, Tr!TranscriptsAssumption
<1>1. \A S : Tr!Cardinality(S) = Cardinality(S)
  BY DEF Tr!Cardinality, Cardinality
<1>2. Tr!Huge \subseteq 1..N /\ IsFiniteSet(Tr!Huge)
  <2>1. DOMAIN file.records = 1..N
    BY DEF Tr!TypeOK
  <2>2. Tr!Huge \subseteq 1..N
    BY <2>1 DEF Tr!Huge
  <2>3. IsFiniteSet(1..N)
    BY <1>0, FS_Interval
  <2> QED BY <2>2, <2>3, FS_Subset
<1>3. \A k : IsFiniteSet(After(k)) /\ C(k) \in Nat
  BY <1>2, FS_Subset, FS_CardinalityType DEF After
<1>4. \A k : Tr!SizeFrom(k) = (N - k) + Page * C(k) + file.tail
  BY <1>1 DEF Tr!SizeFrom, After
<1>n. \A i \in Tr!Huge : i \in Nat /\ i <= N
  BY <1>0, <1>2
<1> HIDE DEF C, N
<1>5. After(m) \subseteq After(n)
  BY <1>0, <1>n DEF After
<1>6. C(m) <= C(n) /\ (After(m) # After(n) => C(m) < C(n))
  <2>1. /\ IsFiniteSet(After(n)) /\ After(m) \in SUBSET After(n)
        /\ Cardinality(After(n)) \in Nat /\ Cardinality(After(m)) \in Nat
    BY <1>3, <1>5 DEF C
  <2>2. /\ Cardinality(After(m)) <= Cardinality(After(n))
        /\ Cardinality(After(n)) = Cardinality(After(m)) => After(n) = After(m)
    BY <2>1, FS_Subset
  <2> QED BY <2>1, <2>2 DEF C
<1>7. After(N) = {} /\ C(N) = 0
  <2>1. After(N) = {}
    BY <1>0, <1>n DEF After
  <2> QED BY <2>1, FS_EmptySet DEF C
<1>8. Page * C(m) \in Nat /\ Page * C(n) \in Nat
  BY <1>0, <1>3
<1>9. Tr!SizeFrom(N) = file.tail
  BY <1>0, <1>4, <1>7
<1>10. After(n) = After(m) => Tr!SizeFrom(n) - Tr!SizeFrom(m) = m - n
  BY <1>0, <1>4, <1>8 DEF C
<1>11. After(n) # After(m) => Tr!SizeFrom(n) - Tr!SizeFrom(m) > Page
  <2> SUFFICES ASSUME After(n) # After(m) PROVE Tr!SizeFrom(n) - Tr!SizeFrom(m) > Page
    OBVIOUS
  <2>1. Page * C(n) >= Page * C(m) + Page
    BY <1>0, <1>3, <1>6, TimesMore
  <2>2. n < m
    BY <1>0
  <2> QED BY <1>0, <1>4, <1>8, <2>1, <2>2
<1>12. Tr!SizeFrom(n) \in Nat /\ Tr!SizeFrom(m) \in Nat /\ Tr!SizeFrom(m) >= (N - m) + file.tail
  BY <1>0, <1>4, <1>8
<1> QED BY <1>9, <1>10, <1>11, <1>12 DEF N

(* A page ends before a record that is longer than a page, and has at      *)
(* least two that are not.                                                 *)
LEMMA PageFacts ==
    ASSUME Tr!TranscriptsAssumption, Tr!TypeOK, NEW n \in 0..Len(file.records)
    PROVE  LET m == Tr!PageEnd(n)
           IN  /\ m \in n..Len(file.records)
               /\ \A i \in Tr!Huge : i <= n \/ m < i
               /\ m = n /\ n < Len(file.records) => n + 1 \in Tr!Huge
               /\ n + 2 <= Len(file.records) /\ {n + 1, n + 2} \cap Tr!Huge = {} => m >= n + 2
               /\ Tr!SizeFrom(n) <= Page => m = Len(file.records)
<1> DEFINE N == Len(file.records)
           m == Tr!PageEnd(n)
           fits == {k \in n..N : Tr!SizeFrom(n) - Tr!SizeFrom(k) <= Page}
<1>0. N \in Nat /\ Page \in Nat /\ n \in Nat /\ n <= N /\ Page >= 2
  BY DEF Tr!TypeOK, Tr!TranscriptsAssumption
<1>1. \A k \in n..N : /\ Tr!SizeFrom(n) \in Nat /\ Tr!SizeFrom(k) \in Nat
                      /\ After(n) = After(k) => Tr!SizeFrom(n) - Tr!SizeFrom(k) = k - n
                      /\ After(n) # After(k) => Tr!SizeFrom(n) - Tr!SizeFrom(k) > Page
  BY Sizes
<1>2. \E k \in fits : \A j \in fits : j <= k
  <2> DEFINE left == {N - k : k \in fits}
  <2>1. left \subseteq Nat
    BY <1>0
  <2>2. n \in fits
    BY <1>0, <1>1
  <2>3. left # {}
    BY <2>2
  <2>4. PICK l \in left : \A j \in left : ~(<<j, l>> \in OpToRel(<, Nat))
    <3> HIDE DEF left
    <3> QED BY <2>1, <2>3, WFMin, NatLessThanWellFounded
  <2>5. \A j \in left : ~(j < l)
    <3> HIDE DEF left
    <3> QED BY <2>1, <2>4 DEF OpToRel
  <2>6. PICK k \in fits : l = N - k
    OBVIOUS
  <2>7. \A j \in fits : j <= k
    <3> SUFFICES ASSUME NEW j \in fits PROVE j <= k
      OBVIOUS
    <3>1. N - j \in left
      OBVIOUS
    <3>2. ~(N - j < N - k)
      BY <2>5, <2>6, <3>1
    <3>3. j \in Int /\ k \in Int
      BY <1>0
    <3> QED BY <1>0, <3>2, <3>3
  <2> QED BY <2>7
<1>3. m = CHOOSE k \in fits : \A j \in fits : j <= k
  BY DEF Tr!PageEnd
<1> HIDE DEF m
<1>4. m \in fits /\ \A j \in fits : j <= m
  BY <1>2, <1>3
<1>5. m \in n..N /\ Tr!SizeFrom(n) - Tr!SizeFrom(m) <= Page
  BY <1>4
<1>6. After(n) = After(m)
  BY <1>0, <1>1, <1>5
<1>7. \A i \in Tr!Huge : i \in Nat
  BY DEF Tr!Huge, Tr!TypeOK
<1>8. \A i \in Tr!Huge : i <= n \/ m < i
  BY <1>0, <1>5, <1>6, <1>7 DEF After
<1>9. ASSUME NEW k \in n..N, \A i \in Tr!Huge : i <= n \/ k < i, k - n <= Page PROVE k <= m
  <2>1. After(n) = After(k)
    BY <1>0, <1>7, <1>9 DEF After
  <2> QED BY <1>0, <1>1, <1>4, <1>9, <2>1
<1>10. ASSUME m = n, n < N PROVE n + 1 \in Tr!Huge
  <2> SUFFICES ASSUME n + 1 \notin Tr!Huge PROVE FALSE
    OBVIOUS
  <2>1. \A i \in Tr!Huge : i <= n \/ n + 1 < i
    BY <1>0, <1>7
  <2> QED BY <1>0, <1>9, <1>10, <2>1
<1>11. ASSUME n + 2 <= N, n + 1 \notin Tr!Huge, n + 2 \notin Tr!Huge PROVE m >= n + 2
  <2>1. \A i \in Tr!Huge : i <= n \/ n + 2 < i
    BY <1>0, <1>7, <1>11
  <2> QED BY <1>0, <1>5, <1>9, <1>11, <2>1
<1>12. ASSUME Tr!SizeFrom(n) <= Page PROVE m = N
  <2>1. Tr!SizeFrom(n) - Tr!SizeFrom(N) <= Page
    BY <1>0, <1>1, <1>12
  <2>2. N \in fits
    BY <1>0, <2>1
  <2> QED BY <1>0, <1>4, <1>5, <2>2
<1> QED BY <1>5, <1>8, <1>10, <1>11, <1>12 DEF m

(* What n records say is of those records only.                            *)
LEMMA ToldSame ==
    ASSUME NEW m, NEW n \in Nat, n >= 1, NEW rs, NEW ss, \A i \in 1..n : ss[i] = rs[i],
           format \in Tr!Formats, Tr!Told(m, rs, n)
    PROVE  Tr!Told(m, ss, n)
<1>0. 1 \in 1..n /\ n \in 1..n
  OBVIOUS
<1>1. \A k : Tr!Of(ss, n, k) = Tr!Of(rs, n, k)
  BY DEF Tr!Of
<1>2. CASE format = "pi"
  <2>1. Tr!PiGood(ss, n)
    BY <1>1, <1>2 DEF Tr!Told, Tr!Good, Tr!PiGood, Tr!AllOf, Tr!Ordered
  <2> QED BY <1>0, <1>2, <2>1 DEF Tr!Told, Tr!Good
<1>3. CASE format = "omp"
  <2>0. Tr!OmpGood(rs, n) /\ 2 \in 1..n
    BY <1>3 DEF Tr!Told, Tr!Good, Tr!OmpGood
  <2>1. ss[1] = rs[1] /\ ss[2] = rs[2] /\ ss[n] = rs[n]
    BY <1>0, <2>0
  <2>2. Tr!OmpGood(ss, n)
    BY <1>1, <2>0, <2>1 DEF Tr!OmpGood, Tr!AllOf, Tr!Ordered
  <2> QED BY <1>3, <2>1, <2>2 DEF Tr!Told, Tr!Good
<1>4. CASE format = "codex"
  <2>0. Tr!CodexGood(rs, n) /\ ss[1] = rs[1] /\ ss[n] = rs[n]
    BY <1>0, <1>4 DEF Tr!Told, Tr!Good
  <2>1. Tr!CodexTime(ss, n) = Tr!CodexTime(rs, n)
    BY <2>0 DEF Tr!CodexTime
  <2>2. Tr!CodexGood(ss, n)
    BY <1>1, <2>0 DEF Tr!CodexGood, Tr!AllOf, Tr!Ordered
  <2> QED BY <1>4, <2>0, <2>1, <2>2 DEF Tr!Told, Tr!Good
<1>5. CASE format = "claude"
  <2>1. Tr!TimesOf(ss, n) = Tr!TimesOf(rs, n)
    <3>1. {j \in 1..n : "time" \in DOMAIN ss[j]} = {j \in 1..n : "time" \in DOMAIN rs[j]}
      OBVIOUS
    <3> QED BY <3>1 DEF Tr!TimesOf
  <2>2. \A k : \A i \in Tr!Of(rs, n, k) : ss[i] = rs[i]
    BY DEF Tr!Of
  <2>3. Tr!ClaudeGood(rs, n) /\ Tr!ClaudeTold(m, rs, n)
    BY <1>5 DEF Tr!Told, Tr!Good
  <2>4. Tr!ClaudeGood(ss, n)
    BY <1>1, <2>2, <2>3 DEF Tr!ClaudeGood
  <2>5. Tr!Titled(m.title, ss, n)
    <3>1. Tr!Titled(m.title, rs, n)
      BY <2>3 DEF Tr!ClaudeTold
    <3> QED BY <1>1, <2>2, <3>1 DEF Tr!Titled
  <2>6. Tr!ClaudeTold(m, ss, n)
    <3>1. CASE Tr!Of(rs, n, "turn") = {}
      BY <1>1, <2>1, <2>3, <2>5, <3>1 DEF Tr!ClaudeTold
    <3>2. CASE Tr!Of(rs, n, "turn") # {}
      <4>1. /\ Tr!Dated(m, Tr!TimesOf(ss, n)) /\ m.count = n
            /\ m = Tr!Parsed(m.title, m.created, m.updated, m.chain, 0, m.cwd, m.count)
            /\ \E i \in Tr!Of(rs, n, "turn") : Tr!IsEarliest(i, Tr!Of(rs, n, "turn")) /\ m.cwd = rs[i].cwd
        BY <2>1, <2>3, <3>2 DEF Tr!ClaudeTold
      <4>2. \E i \in Tr!Of(ss, n, "turn") : Tr!IsEarliest(i, Tr!Of(ss, n, "turn")) /\ m.cwd = ss[i].cwd
        BY <1>1, <2>2, <4>1
      <4> QED BY <1>1, <2>5, <3>2, <4>1, <4>2 DEF Tr!ClaudeTold
    <3> QED BY <3>1, <3>2
  <2> QED BY <1>5, <2>4, <2>6 DEF Tr!Told, Tr!Good
<1> QED BY <1>2, <1>3, <1>4, <1>5 DEF Tr!Formats

(* A set of numbers has one earliest and one latest.                       *)
LEMMA OneOf ==
    ASSUME NEW S \in SUBSET Nat, NEW t \in S
    PROVE  /\ Tr!IsEarliest(t, S) => t = CHOOSE u \in S : Tr!IsEarliest(u, S)
           /\ Tr!IsLatest(t, S) => t = CHOOSE u \in S : Tr!IsLatest(u, S)
<1> DEFINE early == CHOOSE u \in S : Tr!IsEarliest(u, S)
           late == CHOOSE u \in S : Tr!IsLatest(u, S)
<1>1. Tr!IsEarliest(t, S) => early \in S /\ Tr!IsEarliest(early, S)
  OBVIOUS
<1>2. Tr!IsLatest(t, S) => late \in S /\ Tr!IsLatest(late, S)
  OBVIOUS
<1> HIDE DEF early, late
<1>3. Tr!IsEarliest(t, S) => t = early
  <2> SUFFICES ASSUME Tr!IsEarliest(t, S) PROVE t = early
    OBVIOUS
  <2>1. t <= early /\ early <= t /\ t \in Nat /\ early \in Nat
    BY <1>1 DEF Tr!IsEarliest
  <2> QED BY <2>1
<1>4. Tr!IsLatest(t, S) => t = late
  <2> SUFFICES ASSUME Tr!IsLatest(t, S) PROVE t = late
    OBVIOUS
  <2>1. t <= late /\ late <= t /\ t \in Nat /\ late \in Nat
    BY <1>2 DEF Tr!IsLatest
  <2> QED BY <2>1
<1> QED BY <1>3, <1>4 DEF early, late

(* What is told of a session is what its records say.                      *)
LEMMA SessionTold ==
    ASSUME Tr!TranscriptsAssumption, Tr!TypeOK, NEW m, NEW n \in 1..Len(file.records),
           Tr!Told(m, file.records, n)
    PROVE  /\ m.is \in {"metadata", "pending"}
           /\ m.is = "pending" => Tr!SessionOf(file.records, n) = Tr!NoSession
           /\ m.is = "metadata" =>
                Tr!Session(m.title, m.created, m.updated, m.cwd, m.count) = Tr!SessionOf(file.records, n)
<1> DEFINE rs == file.records
<1> HIDE DEF rs
<1>0. format \in {"pi", "omp", "codex", "claude"} /\ n \in Nat
  BY DEF Tr!TypeOK, Tr!Formats
<1>g. Tr!Good(rs, n)
  BY DEF Tr!Told, rs
<1>1. CASE format = "pi"
  <2>1. m = Tr!Parsed(Untitled, rs[1].time, rs[n].time, rs[n].time, IF n = 1 THEN Tr!None ELSE 0, Tr!Root, n)
    BY <1>1 DEF Tr!Told, rs
  <2>2. /\ m.is = "metadata" /\ m.title = Untitled /\ m.created = rs[1].time /\ m.updated = rs[n].time
        /\ m.cwd = Tr!Root /\ m.count = n
    BY <2>1 DEF Tr!Parsed
  <2>3. Tr!SessionOf(rs, n) = Tr!Session(Untitled, rs[1].time, rs[n].time, Tr!Root, n)
    BY <1>1, <1>g DEF Tr!SessionOf
  <2> QED BY <2>2, <2>3 DEF rs
<1>2. CASE format = "omp"
  <2>1. m = Tr!Parsed(rs[1].title, rs[2].time, Tr!Latest(rs[1].time, rs[n].time), rs[n].time,
                          IF n = 2 THEN Tr!None ELSE 0, Tr!Root, n)
    BY <1>2 DEF Tr!Told, rs
  <2>2. /\ m.is = "metadata" /\ m.title = rs[1].title /\ m.created = rs[2].time
        /\ m.updated = Tr!Latest(rs[1].time, rs[n].time) /\ m.cwd = Tr!Root /\ m.count = n
    BY <2>1 DEF Tr!Parsed
  <2>3. Tr!SessionOf(rs, n) =
          Tr!Session(rs[1].title, rs[2].time, Tr!Latest(rs[1].time, rs[n].time), Tr!Root, n)
    BY <1>2, <1>g DEF Tr!SessionOf
  <2> QED BY <2>2, <2>3 DEF rs
<1>3. CASE format = "codex"
  <2>1. m = Tr!Parsed(Untitled, rs[1].time, Tr!CodexTime(rs, n), Tr!CodexTime(rs, n),
                          IF rs[1].ordinal = Tr!None THEN Tr!None ELSE n - 1, Tr!Root, n)
    BY <1>3 DEF Tr!Told, rs
  <2>2. /\ m.is = "metadata" /\ m.title = Untitled /\ m.created = rs[1].time /\ m.updated = Tr!CodexTime(rs, n)
        /\ m.cwd = Tr!Root /\ m.count = n
    BY <2>1 DEF Tr!Parsed
  <2>3. Tr!SessionOf(rs, n) = Tr!Session(Untitled, rs[1].time, Tr!CodexTime(rs, n), Tr!Root, n)
    BY <1>3, <1>g DEF Tr!SessionOf
  <2> QED BY <2>2, <2>3 DEF rs
<1>4. CASE format = "claude"
  <2> DEFINE turns == Tr!Of(rs, n, "turn")
             times == Tr!TimesOf(rs, n)
  <2>1. Tr!ClaudeTold(m, rs, n)
    BY <1>4 DEF Tr!Told, rs
  <2>2. m.is = IF turns = {} THEN "pending" ELSE "metadata"
    BY <1>0, <2>1, ClaudeShape
  <2>3. CASE turns = {}
    BY <1>4, <2>2, <2>3 DEF Tr!SessionOf, rs
  <2>4. CASE turns # {}
    <3>0. Tr!SessionOf(rs, n) = Tr!ClaudeSession(rs, n)
      BY <1>4, <1>g, <2>4 DEF Tr!SessionOf
    <3>1. \A i \in 1..n : "time" \in DOMAIN rs[i] => rs[i].time \in Nat
      <4> SUFFICES ASSUME NEW i \in 1..n, "time" \in DOMAIN rs[i] PROVE rs[i].time \in Nat
        OBVIOUS
      <4>1. i \in 1..Len(file.records)
        BY <1>0
      <4> QED BY <1>4, <4>1, ClaudeFacts DEF rs
    <3>2. times \subseteq Nat /\ \A k : Tr!Of(rs, n, k) \subseteq Nat
      BY <3>1 DEF Tr!TimesOf, Tr!Of
    <3>3. times # {}
      <4>1. PICK i \in turns : TRUE
        BY <2>4
      <4>2. i \in 1..n /\ i \in 1..Len(file.records) /\ rs[i].kind = "turn"
        BY <1>0 DEF Tr!Of
      <4>3. "time" \in DOMAIN rs[i]
        BY <1>4, <4>2, ClaudeFacts DEF rs
      <4> QED BY <4>2, <4>3 DEF Tr!TimesOf
    <3>4. Tr!IsEarliest(m.created, times) /\ Tr!IsLatest(m.updated, times)
      BY <2>1, <3>3 DEF Tr!ClaudeTold, Tr!Dated
    <3> HIDE DEF times, turns
    <3>5. \A S \in SUBSET Nat : \A t \in S : Tr!IsEarliest(t, S) => t = CHOOSE u \in S : Tr!IsEarliest(u, S)
      BY OneOf
    <3>6. \A S \in SUBSET Nat : \A t \in S : Tr!IsLatest(t, S) => t = CHOOSE u \in S : Tr!IsLatest(u, S)
      BY OneOf
    <3>7. /\ m.created = CHOOSE t \in times : Tr!IsEarliest(t, times)
          /\ m.updated = CHOOSE t \in times : Tr!IsLatest(t, times)
      <4>1. m.created \in times /\ m.updated \in times
        BY <3>4 DEF Tr!IsEarliest, Tr!IsLatest
      <4> QED BY <3>2, <3>4, <3>5, <3>6, <4>1
    <3>8. m.cwd = rs[CHOOSE i \in turns : Tr!IsEarliest(i, turns)].cwd /\ m.count = n
      <4>1. PICK i \in turns : Tr!IsEarliest(i, turns) /\ m.cwd = rs[i].cwd
        BY <2>1, <2>4 DEF Tr!ClaudeTold, turns
      <4>2. turns \in SUBSET Nat
        BY <3>2 DEF turns
      <4>3. i = CHOOSE u \in turns : Tr!IsEarliest(u, turns)
        BY <3>5, <4>1, <4>2
      <4> QED BY <2>1, <4>1, <4>3 DEF Tr!ClaudeTold
    <3>9. m.title = Tr!ClaudeTitle(rs, n)
      <4> DEFINE customs == Tr!Of(rs, n, "custom")
                 ais == Tr!Of(rs, n, "ai")
      <4>0. customs \in SUBSET Nat /\ ais \in SUBSET Nat
        BY <3>2
      <4>1. Tr!Titled(m.title, rs, n)
        BY <2>1 DEF Tr!ClaudeTold
      <4>2. CASE \E i \in customs : Tr!IsLatest(i, customs) /\ m.title = rs[i].title
        <5>1. PICK i \in customs : Tr!IsLatest(i, customs) /\ m.title = rs[i].title
          BY <4>2
        <5>2. i = CHOOSE u \in customs : Tr!IsLatest(u, customs)
          BY <3>6, <4>0, <5>1
        <5> QED BY <5>1, <5>2 DEF Tr!ClaudeTitle
      <4>3. CASE customs = {} /\ \E i \in ais : Tr!IsEarliest(i, ais) /\ m.title = rs[i].title
        <5>1. PICK i \in ais : Tr!IsEarliest(i, ais) /\ m.title = rs[i].title
          BY <4>3
        <5>2. i = CHOOSE u \in ais : Tr!IsEarliest(u, ais)
          BY <3>5, <4>0, <5>1
        <5> QED BY <4>3, <5>1, <5>2 DEF Tr!ClaudeTitle
      <4>4. CASE customs \cup ais = {} /\ m.title = Untitled
        BY <4>4 DEF Tr!ClaudeTitle
      <4> QED BY <4>1, <4>2, <4>3, <4>4 DEF Tr!Titled
    <3>10. Tr!Session(m.title, m.created, m.updated, m.cwd, m.count) = Tr!ClaudeSession(rs, n)
      BY <3>7, <3>8, <3>9 DEF Tr!ClaudeSession, times, turns
    <3> QED BY <2>2, <2>4, <3>0, <3>10 DEF rs
  <2> QED BY <2>3, <2>4
<1> QED BY <1>0, <1>1, <1>2, <1>3, <1>4

(* Records that have been understood are no longer than a page.            *)
LEMMA NoHuge ==
    ASSUME Tr!TranscriptsAssumption, Tr!TypeOK, NEW n \in Nat, n >= Tr!HeaderRecords,
           Tr!Good(file.records, n)
    PROVE  \A i \in Tr!Huge : n < i
<1> DEFINE rs == file.records
<1>0. format \in {"pi", "omp", "codex", "claude"}
  BY DEF Tr!TypeOK, Tr!Formats
<1> SUFFICES ASSUME NEW i \in Tr!Huge, ~(n < i) PROVE FALSE
  OBVIOUS
<1>1. i \in 1..Len(rs) /\ rs[i].kind = "huge" /\ i \in Nat /\ i \in 1..n /\ i <= n
  <2>1. DOMAIN rs = 1..Len(rs) /\ Len(rs) \in Nat
    BY DEF Tr!TypeOK
  <2>2. i \in 1..Len(rs) /\ rs[i].kind = "huge"
    BY <2>1 DEF Tr!Huge
  <2> QED BY <2>1, <2>2
<1>2. CASE format = "pi"
  <2>1. \A j \in 2..n : rs[j].kind = "entry"
    BY <1>2 DEF Tr!Good, Tr!PiGood, Tr!AllOf, Tr!Of
  <2>2. i = 1 => rs[i].kind = "header"
    BY <1>1, <1>2, RecordFacts
  <2> QED BY <1>1, <2>1, <2>2
<1>3. CASE format = "omp"
  <2>1. \A j \in 3..n : rs[j].kind = "entry"
    BY <1>3 DEF Tr!Good, Tr!OmpGood, Tr!AllOf, Tr!Of
  <2>2. (i = 1 => rs[i].kind = "slot") /\ (i = 2 => rs[i].kind = "header")
    BY <1>1, <1>3, RecordFacts
  <2> QED BY <1>1, <2>1, <2>2
<1>4. CASE format = "codex"
  <2>1. \A j \in 2..n : rs[j].kind = "item"
    BY <1>4 DEF Tr!Good, Tr!CodexGood, Tr!AllOf, Tr!Of
  <2>2. i = 1 => rs[i].kind = "header"
    BY <1>1, <1>4, RecordFacts
  <2> QED BY <1>1, <2>1, <2>2
<1>5. CASE format = "claude"
  <2>1. Tr!Of(rs, n, "huge") = {}
    BY <1>5 DEF Tr!Good, Tr!ClaudeGood
  <2> QED BY <1>1, <2>1 DEF Tr!Of
<1> QED BY <1>0, <1>2, <1>3, <1>4, <1>5

(* What a scan can reach of a file.                                        *)
LEMMA ReadableFacts ==
    ASSUME Tr!TypeOK
    PROVE  /\ Tr!Readable \in 0..Len(file.records)
           /\ Tr!Huge = {} => Tr!Readable = Len(file.records)
           /\ \A n \in 0..Len(file.records) :
                (\A i \in Tr!Huge : n < i) => /\ n <= Tr!Readable
                                              /\ n + 1 \in Tr!Huge => Tr!Readable = n
<1> DEFINE N == Len(file.records)
           first == CHOOSE i \in Tr!Huge : Tr!IsEarliest(i, Tr!Huge)
<1>0. N \in Nat /\ Tr!Huge \subseteq 1..N
  <2>1. DOMAIN file.records = 1..N /\ N \in Nat
    BY DEF Tr!TypeOK
  <2> QED BY <2>1 DEF Tr!Huge
<1>1. Tr!Huge # {} => first \in Tr!Huge /\ first \in 1..N /\ \A i \in Tr!Huge : first <= i
  <2> SUFFICES ASSUME Tr!Huge # {} PROVE first \in Tr!Huge /\ first \in 1..N /\ \A i \in Tr!Huge : first <= i
    OBVIOUS
  <2>0. Tr!Huge \subseteq Nat
    BY <1>0
  <2>1. PICK l \in Tr!Huge : \A j \in Tr!Huge : ~(<<j, l>> \in OpToRel(<, Nat))
    BY <2>0, WFMin, NatLessThanWellFounded
  <2>2. \A j \in Tr!Huge : l <= j
    <3>1. \A j \in Tr!Huge : ~(j < l)
      BY <2>0, <2>1 DEF OpToRel
    <3> QED BY <2>0, <3>1
  <2>3. Tr!IsEarliest(l, Tr!Huge)
    BY <2>2 DEF Tr!IsEarliest
  <2>4. first \in Tr!Huge /\ Tr!IsEarliest(first, Tr!Huge)
    BY <2>3
  <2> QED BY <1>0, <2>4 DEF Tr!IsEarliest
<1>2. Tr!Readable = IF Tr!Huge = {} THEN N ELSE first - 1
  BY DEF Tr!Readable
<1> HIDE DEF first, N
<1> SUFFICES /\ Tr!Readable \in 0..N
             /\ Tr!Huge = {} => Tr!Readable = N
             /\ \A n \in 0..N :
                  (\A i \in Tr!Huge : n < i) => /\ n <= Tr!Readable
                                                /\ n + 1 \in Tr!Huge => Tr!Readable = n
  BY DEF N
<1>4. CASE Tr!Huge = {}
  BY <1>0, <1>2, <1>4
<1>5. CASE Tr!Huge # {}
  <2>1. first \in 1..N /\ first \in Tr!Huge /\ \A i \in Tr!Huge : first <= i
    BY <1>1, <1>5
  <2>2. Tr!Readable = first - 1
    BY <1>2, <1>5
  <2> QED BY <1>0, <1>5, <2>1, <2>2
<1> QED BY <1>4, <1>5

(* What a page makes, and what it is refused for.                          *)
Refused(n, m, previous, outcome) ==
    LET parked == m = n /\ previous.is = "metadata" /\ Tr!SizeFrom(n) > Page
    IN  \/ m = n /\ previous.is # "metadata"
        \/ parked /\ file.tail = 0
        \/ outcome = Tr!Rejected
        \/ (Tr!SizeFrom(n) <= Page \/ parked) /\ outcome.is = "pending"

(* Whether a page ends the scan.                                           *)
AtEnd(n, m, previous) ==
    Tr!SizeFrom(n) <= Page \/ (m = n /\ previous.is = "metadata" /\ Tr!SizeFrom(n) > Page)

(* A page that is refused has read a file that says nothing; another page  *)
(* is told of its records, and if it is the last what it says is the       *)
(* session of the file.                                                    *)
LEMMA PageRead ==
    ASSUME Tr!TranscriptsAssumption, Tr!TypeOK, NEW n \in 0..Len(file.records), NEW previous,
           \/ previous = Tr!Absent /\ n = 0
           \/ n >= 1 /\ Tr!Told(previous, file.records, n),
           NEW m, m = Tr!PageEnd(n), NEW outcome,
           outcome = IF m = n THEN previous ELSE Tr!Parse(n, m, previous)
    PROVE  /\ Refused(n, m, previous, outcome) => Tr!FileSession = Tr!NoSession
           /\ ~Refused(n, m, previous, outcome) =>
                /\ m \in 1..Len(file.records) /\ Tr!Told(outcome, file.records, m)
                /\ AtEnd(n, m, previous) =>
                     Tr!Session(outcome.title, outcome.created, outcome.updated, outcome.cwd, outcome.count)
                       = Tr!FileSession
<1> DEFINE rs == file.records
           N == Len(file.records)
           headers == IF format = "omp" THEN 2 ELSE IF format = "claude" THEN 0 ELSE 1
<1>0. /\ N \in Nat /\ N >= 1 /\ n \in Nat /\ n <= N /\ Page \in Nat /\ file.tail \in Nat
      /\ format \in {"pi", "omp", "codex", "claude"}
      /\ Tr!HeaderRecords = headers
  BY DEF Tr!TypeOK, Tr!TranscriptsAssumption, Tr!Formats, Tr!HeaderRecords
<1>1. n >= 1 => /\ Tr!Told(previous, rs, n) /\ Tr!Good(rs, n) /\ n >= headers
                /\ previous.is \in {"metadata", "pending"}
  <2> SUFFICES ASSUME n >= 1
               PROVE  /\ Tr!Told(previous, rs, n) /\ Tr!Good(rs, n) /\ n >= headers
                      /\ previous.is \in {"metadata", "pending"}
    OBVIOUS
  <2>1. Tr!Told(previous, rs, n) /\ n \in 1..N
    BY <1>0
  <2>2. Tr!Good(rs, n)
    BY <2>1 DEF Tr!Told
  <2>3. n >= headers
    <3>1. CASE format = "omp"
      <4>1. Tr!OmpGood(rs, n)
        BY <2>2, <3>1 DEF Tr!Good
      <4> QED BY <3>1, <4>1 DEF Tr!OmpGood
    <3>2. CASE format # "omp"
      BY <3>2
    <3> QED BY <3>1, <3>2
  <2>4. previous.is \in {"metadata", "pending"}
    BY <2>1, SessionTold
  <2> QED BY <2>1, <2>2, <2>3, <2>4
<1>2. n < 1 => n = 0 /\ previous = Tr!Absent /\ previous.is = "absent"
  BY <1>0 DEF Tr!Absent
<1>3. \A i \in Tr!Huge : n < i
  <2>1. CASE n >= 1
    BY <1>0, <1>1, <2>1, NoHuge
  <2>2. CASE n < 1
    <3>1. Tr!Huge \subseteq 1..N
      BY DEF Tr!Huge, Tr!TypeOK
    <3> QED BY <1>2, <2>2, <3>1
  <2> QED BY <1>0, <2>1, <2>2
<1>4. /\ m \in n..N
      /\ \A i \in Tr!Huge : i <= n \/ m < i
      /\ m = n /\ n < N => n + 1 \in Tr!Huge
      /\ n + 2 <= N /\ {n + 1, n + 2} \cap Tr!Huge = {} => m >= n + 2
      /\ Tr!SizeFrom(n) <= Page => m = N
  BY PageFacts
<1>5. m \in Nat /\ n <= m /\ m <= N /\ \A i \in Tr!Huge : m < i
  <2>1. Tr!Huge \subseteq 1..N
    BY DEF Tr!Huge, Tr!TypeOK
  <2> QED BY <1>0, <1>3, <1>4, <2>1
<1>6. /\ Tr!Readable \in 0..N
      /\ Tr!Huge = {} => Tr!Readable = N
      /\ m <= Tr!Readable
      /\ m + 1 \in Tr!Huge => Tr!Readable = m
  BY <1>0, <1>5, ReadableFacts
<1>7. /\ Tr!Readable = 0 => Tr!FileSession = Tr!NoSession
      /\ Tr!Huge # {} /\ file.tail = 0 => Tr!FileSession = Tr!NoSession
      /\ Tr!FileSession \in {Tr!NoSession, Tr!SessionOf(rs, Tr!Readable)}
      /\ Tr!Readable # 0 /\ ~(Tr!Huge # {} /\ file.tail = 0) => Tr!FileSession = Tr!SessionOf(rs, Tr!Readable)
  BY DEF Tr!FileSession
<1>8. Tr!SizeFrom(N) = file.tail
  BY <1>0, Sizes
<1>9. m = n => Tr!Readable = n
  BY <1>0, <1>4, <1>5, <1>6
<1>10. Tr!SizeFrom(n) <= Page => m = N /\ Tr!Huge = {} /\ Tr!Readable = m
  <2> SUFFICES ASSUME Tr!SizeFrom(n) <= Page PROVE m = N /\ Tr!Huge = {} /\ Tr!Readable = m
    OBVIOUS
  <2>1. m = N
    BY <1>4
  <2>2. Tr!Huge = {}
    <3>1. Tr!Huge \subseteq 1..N
      BY DEF Tr!Huge, Tr!TypeOK
    <3> QED BY <1>0, <1>5, <2>1, <3>1
  <2> QED BY <1>6, <2>1, <2>2
<1>11. m # n => /\ m >= 1
                /\ \/ outcome = Tr!Rejected /\ (m < headers \/ ~Tr!Good(rs, m))
                   \/ Tr!Told(outcome, rs, m)
                /\ m < headers => n = 0
  <2> SUFFICES ASSUME m # n
               PROVE  /\ m >= 1
                      /\ \/ outcome = Tr!Rejected /\ (m < headers \/ ~Tr!Good(rs, m))
                         \/ Tr!Told(outcome, rs, m)
                      /\ m < headers => n = 0
    OBVIOUS
  <2>1. outcome = Tr!Parse(n, m, previous)
    OBVIOUS
  <2>2. \/ previous.is \in {"metadata", "pending"} /\ n >= Tr!HeaderRecords /\ Tr!Told(previous, rs, n)
        \/ previous.is \notin {"metadata", "pending"} /\ n = 0
    BY <1>0, <1>1, <1>2
  <2>3. IF n = 0 /\ previous.is \notin {"metadata", "pending"} /\ m < Tr!HeaderRecords
        THEN outcome = Tr!Rejected ELSE Made(outcome, m)
    BY <1>0, <1>4, <2>1, <2>2, ParseMade
  <2>4. m < headers \/ Made(outcome, m)
    BY <1>0, <2>3
  <2>5. m < headers => n = 0 /\ outcome = Tr!Rejected
    <3> SUFFICES ASSUME m < headers PROVE n = 0 /\ outcome = Tr!Rejected
      OBVIOUS
    <3>1. n < headers /\ headers \in Nat
      BY <1>0, <1>5
    <3>2. n = 0
      BY <1>0, <1>1, <3>1
    <3> QED BY <1>0, <1>2, <2>3, <3>2
  <2>6. Made(outcome, m) => (outcome = Tr!Rejected /\ ~Tr!Good(rs, m)) \/ Tr!Told(outcome, rs, m)
    BY DEF Made
  <2> QED BY <1>0, <1>5, <2>4, <2>5, <2>6
<1>12. Tr!Told(outcome, rs, m) /\ m >= 1 =>
          /\ outcome.is \in {"metadata", "pending"}
          /\ outcome.is = "pending" => Tr!SessionOf(rs, m) = Tr!NoSession
          /\ outcome.is = "metadata" =>
               Tr!Session(outcome.title, outcome.created, outcome.updated, outcome.cwd, outcome.count)
                 = Tr!SessionOf(rs, m)
  <2> SUFFICES ASSUME Tr!Told(outcome, rs, m), m \in 1..N
               PROVE  /\ outcome.is \in {"metadata", "pending"}
                      /\ outcome.is = "pending" => Tr!SessionOf(rs, m) = Tr!NoSession
                      /\ outcome.is = "metadata" =>
                           Tr!Session(outcome.title, outcome.created, outcome.updated, outcome.cwd, outcome.count)
                             = Tr!SessionOf(rs, m)
    BY <1>0, <1>5
  <2> QED BY SessionTold
<1>13. outcome = Tr!Rejected => outcome.is = "rejected"
  BY DEF Tr!Rejected
<1>14. ~Tr!Good(rs, Tr!Readable) => Tr!FileSession = Tr!NoSession
  <2>1. ~Tr!Good(rs, Tr!Readable) => Tr!SessionOf(rs, Tr!Readable) = Tr!NoSession
    BY DEF Tr!SessionOf
  <2> QED BY <1>7, <2>1
<1> HIDE DEF headers, N
<1>15. CASE m = n /\ previous.is # "metadata"
  <2>1. Refused(n, m, previous, outcome)
    BY <1>15 DEF Refused
  <2>2. Tr!FileSession = Tr!NoSession
    <3>1. CASE n >= 1
      <4>1. outcome.is = "pending" /\ Tr!Told(outcome, rs, m) /\ m >= 1
        BY <1>1, <1>15, <3>1
      <4>2. Tr!SessionOf(rs, Tr!Readable) = Tr!NoSession
        BY <1>9, <1>12, <1>15, <4>1
      <4> QED BY <1>7, <4>2
    <3>2. CASE n < 1
      BY <1>2, <1>7, <1>9, <1>15, <3>2
    <3> QED BY <1>0, <3>1, <3>2
  <2> QED BY <2>1, <2>2
<1>16. CASE m = n /\ previous.is = "metadata"
  <2>1. n >= 1 /\ outcome = previous /\ Tr!Told(outcome, rs, m) /\ m >= 1
    BY <1>0, <1>1, <1>2, <1>16
  <2>2. outcome # Tr!Rejected /\ outcome.is # "pending" /\ outcome.is = "metadata"
    BY <1>13, <1>16, <2>1
  <2>3. Tr!Session(outcome.title, outcome.created, outcome.updated, outcome.cwd, outcome.count)
          = Tr!SessionOf(rs, Tr!Readable)
    BY <1>9, <1>12, <1>16, <2>1, <2>2
  <2>4. m \in 1..N
    BY <1>0, <1>5, <2>1
  <2>5. Tr!Readable # 0
    BY <1>0, <1>9, <1>16, <2>1
  <2>6. CASE Tr!SizeFrom(n) > Page /\ file.tail = 0
    <3>1. Tr!Huge # {}
      <4>1. n # N
        BY <1>0, <1>8, <2>6
      <4> QED BY <1>0, <1>4, <1>16, <4>1
    <3> QED BY <1>7, <1>16, <2>6, <3>1 DEF Refused
  <2>7. CASE ~(Tr!SizeFrom(n) > Page /\ file.tail = 0)
    <3>1. ~Refused(n, m, previous, outcome)
      BY <1>16, <2>2, <2>7 DEF Refused
    <3>2. AtEnd(n, m, previous) => ~(Tr!Huge # {} /\ file.tail = 0)
      <4>1. CASE Tr!SizeFrom(n) <= Page
        BY <1>10, <4>1
      <4>2. CASE Tr!SizeFrom(n) > Page
        BY <2>7, <4>2
      <4> QED BY <4>1, <4>2 DEF AtEnd
    <3> QED BY <1>7, <2>1, <2>3, <2>4, <2>5, <3>1, <3>2 DEF N
  <2> QED BY <2>6, <2>7
<1>17. CASE m # n /\ outcome = Tr!Rejected
  <2>1. Refused(n, m, previous, outcome)
    BY <1>17 DEF Refused
  <2>2. ~Tr!Told(outcome, rs, m)
    BY <1>11, <1>12, <1>13, <1>17
  <2>3. CASE m < headers
    <3>1. n = 0 /\ m >= 1 /\ format = "omp" /\ m = 1
      BY <1>0, <1>11, <1>17, <2>3, <1>5 DEF headers
    <3>2. N = 1
      <4> SUFFICES ASSUME N >= 2 PROVE FALSE
        BY <1>0
      <4>1. {1, 2} \cap Tr!Huge = {}
        <5>1. 1 \in 1..N /\ 2 \in 1..N
          BY <1>0
        <5>2. rs[1].kind = "slot" /\ rs[2].kind = "header"
          BY <3>1, <5>1, RecordFacts DEF N
        <5> QED BY <5>2 DEF Tr!Huge
      <4> QED BY <1>0, <1>4, <3>1, <4>1
    <3>3. ~Tr!Good(rs, Tr!Readable)
      <4>1. Tr!Readable \notin 2..(IF MaxOmpRecords > 2 THEN MaxOmpRecords ELSE 2)
        BY <1>6, <3>2
      <4>2. ~Tr!OmpGood(rs, Tr!Readable)
        BY <4>1 DEF Tr!OmpGood
      <4> QED BY <3>1, <4>2 DEF Tr!Good
    <3> QED BY <1>14, <2>1, <3>3
  <2>4. CASE ~(m < headers)
    <3>1. ~Tr!Good(rs, m)
      BY <1>11, <1>17, <2>2, <2>4
    <3>2. m >= Tr!HeaderRecords /\ Tr!Readable \in Nat /\ m <= Tr!Readable
      BY <1>0, <1>5, <1>6, <2>4 DEF headers
    <3>3. ~Tr!Good(rs, Tr!Readable)
      BY <1>5, <3>1, <3>2, GoodPrefix
    <3> QED BY <1>14, <2>1, <3>3
  <2> QED BY <2>3, <2>4
<1>18. CASE m # n /\ outcome # Tr!Rejected
  <2>1. Tr!Told(outcome, rs, m) /\ m >= 1 /\ m \in 1..N
    BY <1>0, <1>5, <1>11, <1>18
  <2>2. CASE Tr!SizeFrom(n) <= Page
    <3>1. /\ Tr!Readable = m /\ Tr!Huge = {} /\ Tr!Readable # 0
          /\ Tr!FileSession = Tr!SessionOf(rs, m)
      BY <1>7, <1>10, <2>1, <2>2
    <3>2. CASE outcome.is = "pending"
      BY <1>12, <2>1, <2>2, <3>1, <3>2 DEF Refused
    <3>3. CASE outcome.is # "pending"
      <4>1. outcome.is = "metadata"
        BY <1>12, <2>1, <3>3
      <4>2. ~Refused(n, m, previous, outcome)
        BY <1>18, <3>3 DEF Refused
      <4> QED BY <1>12, <2>1, <3>1, <4>1, <4>2 DEF N
    <3> QED BY <3>2, <3>3
  <2>3. CASE ~(Tr!SizeFrom(n) <= Page)
    <3>1. ~Refused(n, m, previous, outcome) /\ ~AtEnd(n, m, previous)
      BY <1>18, <2>3 DEF Refused, AtEnd
    <3> QED BY <2>1, <3>1 DEF N
  <2> QED BY <2>2, <2>3
<1> QED BY <1>15, <1>16, <1>17, <1>18

(* A scan goes on from records that are still there and still told.        *)
LEMMA ScanStarts ==
    ASSUME Tr!TranscriptsAssumption, Tr!TypeOK, Tr!Kept, Tr!Resumable
    PROVE  /\ entry.offset \in 1..Len(file.records)
           /\ Tr!Told(entry.outcome, file.records, entry.offset)
           /\ entry.guard[1] = file.records[1]
<1>1. Tr!IsOpen /\ entry.same
  BY DEF Tr!Resumable, Tr!IsOpen
<1>2. entry.offset \in 1..Len(file.records) /\ Tr!Told(entry.outcome, Tr!AsScanned, entry.offset)
  BY <1>1 DEF Tr!Kept
<1>3. Len(file.records) \in Nat /\ Guard \in Nat /\ Guard >= 1 /\ file.records \in Seq(Tr!AnyRecord)
  BY DEF Tr!TypeOK, Tr!TranscriptsAssumption
<1>4. entry.guard[1] = file.records[1]
  <2>2. entry.offset >= 1 /\ entry.offset \in Nat /\ entry.offset <= Len(file.records)
    BY <1>2, <1>3
  <2> DEFINE k == IF entry.offset < Guard THEN entry.offset ELSE Guard
  <2>1. entry.guard = SubSeq(file.records, 1, k)
    BY DEF Tr!Resumable, Tr!Prefix
  <2>3. k \in 1..Len(file.records)
    BY <1>3, <2>2
  <2> HIDE DEF k
  <2>4. SubSeq(file.records, 1, k)[1] = file.records[1]
    BY <1>3, <2>3
  <2> QED BY <2>1, <2>4
<1>5. \A i \in 1..entry.offset : file.records[i] = Tr!AsScanned[i]
  <2>1. DOMAIN file.records = 1..Len(file.records) /\ file.records = [i \in 1..Len(file.records) |-> file.records[i]]
    BY <1>3
  <2>2. \A i \in 1..Len(file.records) : Tr!AsScanned[i] = IF i = 1 THEN entry.guard[1] ELSE file.records[i]
    BY <2>1 DEF Tr!AsScanned
  <2> QED BY <1>2, <1>3, <1>4, <2>2
<1>6. Tr!Told(entry.outcome, file.records, entry.offset)
  <2>1. format \in Tr!Formats /\ entry.offset \in Nat /\ entry.offset >= 1
    BY <1>2, <1>3 DEF Tr!TypeOK
  <2> DEFINE ss == file.records
             rs == Tr!AsScanned
             m == entry.outcome
             n == entry.offset
  <2>2. Tr!Told(m, rs, n) /\ \A i \in 1..n : ss[i] = rs[i]
    BY <1>2, <1>5
  <2> HIDE DEF ss, rs, m, n
  <2>3. n \in Nat /\ n >= 1
    BY <2>1 DEF n
  <2>4. Tr!Told(m, ss, n)
    BY <2>1, <2>2, <2>3, ToldSame
  <2> QED BY <2>4 DEF ss, m, n
<1> QED BY <1>2, <1>4, <1>6

(* The guard of a scan begins with the file's first record.                *)
LEMMA GuardBegins ==
    ASSUME Tr!TranscriptsAssumption, Tr!TypeOK, NEW n \in Nat, NEW m \in 1..Len(file.records),
           n # 0 => entry.guard[1] = file.records[1]
    PROVE  [file.records EXCEPT ![1] = Tr!Guarded(n, m)[1]] = file.records
<1>1. Len(file.records) \in Nat /\ Guard \in Nat /\ Guard >= 1 /\ file.records \in Seq(Tr!AnyRecord)
  BY DEF Tr!TypeOK, Tr!TranscriptsAssumption
<1> DEFINE k == IF m < Guard THEN m ELSE Guard
<1>2. k \in 1..Len(file.records) /\ 1 \in 1..Len(file.records)
  BY <1>1
<1>3. Tr!Prefix(m) = SubSeq(file.records, 1, k)
  BY DEF Tr!Prefix
<1> HIDE DEF k
<1>4. SubSeq(file.records, 1, k)[1] = file.records[1]
  BY <1>1, <1>2
<1>5. Tr!Guarded(n, m)[1] = file.records[1]
  BY <1>3, <1>4 DEF Tr!Guarded
<1>6. file.records = [i \in 1..Len(file.records) |-> file.records[i]]
  BY <1>1
<1> QED BY <1>2, <1>5, <1>6

(* A scan leaves what is kept.                                             *)
LEMMA ScanKeeps ==
    ASSUME Tr!TranscriptsAssumption, Tr!TypeOK, Tr!Kept, Tr!Scan
    PROVE  Tr!TypeOK' /\ Tr!Kept' /\ Tr!ReadAsWhole'
<1>0. format' = format /\ file' = file /\ silent' = silent /\ ~Tr!Settled
  BY DEF Tr!Scan
<1>1. PICK n \in {IF Tr!Resumable THEN entry.offset ELSE 0} :
        \E m \in {Tr!PageEnd(n)}, previous \in {IF Tr!Resumable THEN entry.outcome ELSE Tr!Absent} :
        \E outcome \in {IF m = n THEN previous ELSE Tr!Parse(n, m, previous)} : Tr!Ends(n, m, previous, outcome)
  BY DEF Tr!Scan
<1>2. PICK m \in {Tr!PageEnd(n)}, previous \in {IF Tr!Resumable THEN entry.outcome ELSE Tr!Absent} :
        \E outcome \in {IF m = n THEN previous ELSE Tr!Parse(n, m, previous)} : Tr!Ends(n, m, previous, outcome)
  BY <1>1
<1>3. PICK outcome \in {IF m = n THEN previous ELSE Tr!Parse(n, m, previous)} : Tr!Ends(n, m, previous, outcome)
  BY <1>2
<1>4. /\ n \in 0..Len(file.records) /\ n \in Nat
      /\ \/ previous = Tr!Absent /\ n = 0
         \/ n >= 1 /\ Tr!Told(previous, file.records, n)
      /\ n # 0 => entry.guard[1] = file.records[1]
  <2>0. Len(file.records) \in Nat
    BY DEF Tr!TypeOK
  <2>1. CASE Tr!Resumable
    <3>1. n = entry.offset /\ previous = entry.outcome
      BY <1>1, <1>2, <2>1
    <3> QED BY <2>0, <2>1, <3>1, ScanStarts
  <2>2. CASE ~Tr!Resumable
    BY <1>1, <1>2, <2>0, <2>2
  <2> QED BY <2>1, <2>2
<1>5. m = Tr!PageEnd(n) /\ outcome = IF m = n THEN previous ELSE Tr!Parse(n, m, previous)
  BY <1>2, <1>3
<1>6. /\ Refused(n, m, previous, outcome) => Tr!FileSession = Tr!NoSession
      /\ ~Refused(n, m, previous, outcome) =>
           /\ m \in 1..Len(file.records) /\ Tr!Told(outcome, file.records, m)
           /\ AtEnd(n, m, previous) =>
                Tr!Session(outcome.title, outcome.created, outcome.updated, outcome.cwd, outcome.count)
                  = Tr!FileSession
  BY <1>4, <1>5, PageRead
<1>7. /\ Refused(n, m, previous, outcome) => entry' = Tr!Entry(0, <<>>, FALSE, Tr!Rejected)
      /\ ~Refused(n, m, previous, outcome) =>
           entry' = Tr!Entry(m, Tr!Guarded(n, m), AtEnd(n, m, previous), outcome)
  BY <1>3 DEF Tr!Ends, Refused, AtEnd
<1>8. AtEnd(n, m, previous) \in BOOLEAN
  BY DEF AtEnd
<1>9. Tr!FileSession' = Tr!FileSession
  BY <1>0 DEF Tr!FileSession, Tr!Huge, Tr!Readable, Tr!SessionOf, Tr!Good
<1>10. Tr!TypeOK'
  <2>1. /\ entry' = [current |-> entry'.current, same |-> entry'.same, offset |-> entry'.offset,
                     guard |-> entry'.guard, complete |-> entry'.complete, outcome |-> entry'.outcome]
        /\ {entry'.current, entry'.same, entry'.complete} \subseteq BOOLEAN
    <3>1. PICK o, g, c, out : entry' = Tr!Entry(o, g, c, out) /\ c \in BOOLEAN
      BY <1>7, <1>8
    <3> DEFINE e == entry'
    <3>2. e = [current |-> TRUE, same |-> TRUE, offset |-> o, guard |-> g, complete |-> c, outcome |-> out]
      BY <3>1 DEF Tr!Entry
    <3> HIDE DEF e
    <3>3. /\ e = [current |-> e.current, same |-> e.same, offset |-> e.offset,
                  guard |-> e.guard, complete |-> e.complete, outcome |-> e.outcome]
      BY <3>2
    <3>4. {e.current, e.same, e.complete} \subseteq BOOLEAN
      BY <3>1, <3>2
    <3> QED BY <3>3, <3>4 DEF e
  <2>2. \A i : Tr!RecordsAt(i)' = Tr!RecordsAt(i)
    BY <1>0 DEF Tr!RecordsAt, Tr!HeaderRecords
  <2>3. Tr!HeaderRecords' = Tr!HeaderRecords
    BY <1>0 DEF Tr!HeaderRecords
  <2> QED BY <1>0, <2>1, <2>2, <2>3 DEF Tr!TypeOK
<1>11. CASE Refused(n, m, previous, outcome)
  <2>1. entry'.outcome = Tr!Rejected /\ entry'.outcome.is = "rejected"
    BY <1>7, <1>11 DEF Tr!Entry, Tr!Rejected
  <2>2. Tr!Kept'
    BY <2>1 DEF Tr!Kept, Tr!IsOpen
  <2>3. Tr!ReadAsWhole'
    BY <1>6, <1>9, <1>11, <2>1 DEF Tr!ReadAsWhole
  <2> QED BY <1>10, <2>2, <2>3
<1>12. CASE ~Refused(n, m, previous, outcome)
  <2>1. /\ entry'.outcome = outcome /\ entry'.offset = m /\ entry'.guard = Tr!Guarded(n, m)
        /\ entry'.complete = AtEnd(n, m, previous) /\ outcome # Tr!Rejected
    BY <1>7, <1>12 DEF Tr!Entry, Refused
  <2>2. m \in 1..Len(file.records) /\ Tr!Told(outcome, file.records, m)
    BY <1>6, <1>12
  <2>3. Tr!AsScanned' = file.records
    <3>1. [file.records EXCEPT ![1] = Tr!Guarded(n, m)[1]] = file.records
      BY <1>4, <2>2, GuardBegins
    <3> QED BY <1>0, <2>1, <3>1 DEF Tr!AsScanned
  <2>4. Tr!Told(entry.outcome, Tr!AsScanned, entry.offset)'
    BY <1>0, <2>1, <2>2, <2>3 DEF Tr!Told, Tr!Good
  <2>5. Tr!Kept'
    BY <1>0, <2>1, <2>2, <2>4 DEF Tr!Kept
  <2>6. Tr!ReadAsWhole'
    <3>1. CASE AtEnd(n, m, previous)
      BY <1>6, <1>9, <1>12, <2>1, <3>1 DEF Tr!ReadAsWhole
    <3>2. CASE ~AtEnd(n, m, previous)
      BY <2>1, <3>2 DEF Tr!ReadAsWhole, Tr!Settled
    <3> QED BY <3>1, <3>2
  <2> QED BY <1>10, <2>5, <2>6
<1> QED BY <1>11, <1>12

(* Which records may stand where depends on the format only.               *)
LEMMA Stands ==
    ASSUME Tr!TranscriptsAssumption, format \in Tr!Formats, NEW i \in Nat, i >= 1
    PROVE  /\ Tr!RecordsAt(i) \subseteq Tr!AnyRecord
           /\ Tr!HeaderRecords \in 0..2
           /\ i > Tr!HeaderRecords => Tr!RecordsAt(i) = Tr!AnyItem[format]
           /\ format = "omp" => Tr!HeaderRecords = 2
           /\ format = "omp" /\ i = 1 => Tr!RecordsAt(i) = Tr!Slots
           /\ i = Tr!HeaderRecords => Tr!RecordsAt(i) = Tr!Headers[format]
<1>1. Tr!HeaderRecords = IF format = "omp" THEN 2 ELSE IF format = "claude" THEN 0 ELSE 1
  BY DEF Tr!HeaderRecords, Tr!Formats
<1>2. Tr!RecordsAt(i) = IF format = "omp" /\ i = 1 THEN Tr!Slots
                        ELSE IF i = Tr!HeaderRecords THEN Tr!Headers[format] ELSE Tr!AnyItem[format]
  <2>1. CASE format = "omp" /\ i = 1
    BY <1>1, <2>1 DEF Tr!RecordsAt
  <2>2. CASE ~(format = "omp" /\ i = 1) /\ i = Tr!HeaderRecords
    BY <2>2 DEF Tr!RecordsAt
  <2>3. CASE ~(format = "omp" /\ i = 1) /\ i # Tr!HeaderRecords
    BY <2>3 DEF Tr!RecordsAt
  <2> QED BY <2>1, <2>2, <2>3
<1>3. Tr!Slots \subseteq Tr!AnyRecord
  BY DEF Tr!AnyRecord
<1>4. Tr!Headers[format] \cup Tr!AnyItem[format] \subseteq Tr!AnyRecord
  BY DEF Tr!AnyRecord
<1> QED BY <1>1, <1>2, <1>3, <1>4

(* And the format never changes.                                           *)
LEMMA StandsPrimed ==
    ASSUME format' = format
    PROVE  /\ \A i : Tr!RecordsAt(i)' = Tr!RecordsAt(i)
           /\ Tr!HeaderRecords' = Tr!HeaderRecords
  BY DEF Tr!RecordsAt, Tr!HeaderRecords

(* A write leaves every record that was read, but for the title slot.      *)
LEMMA WriteKeeps ==
    ASSUME Tr!TranscriptsAssumption, Tr!TypeOK, Tr!Kept,
           NEW records \in Seq(Tr!AnyRecord), NEW tail \in Nat, Tr!Becomes(records, tail),
           Len(records) >= Len(file.records),
           \A i \in 1..Len(records) : records[i] \in Tr!RecordsAt(i),
           \A i \in 2..Len(file.records) : records[i] = file.records[i]
    PROVE  Tr!TypeOK' /\ Tr!Kept' /\ Tr!ReadAsWhole'
<1>0. /\ format' = format /\ silent' = silent /\ file' = [records |-> records, tail |-> tail]
      /\ file'.records = records /\ file'.tail = tail
      /\ entry' = [entry EXCEPT !.current = FALSE]
  BY DEF Tr!Becomes
<1>1. /\ entry = [current |-> entry.current, same |-> entry.same, offset |-> entry.offset,
                  guard |-> entry.guard, complete |-> entry.complete, outcome |-> entry.outcome]
      /\ {entry.current, entry.same, entry.complete} \subseteq BOOLEAN
      /\ Len(file.records) \in Nat /\ Len(file.records) >= 1 /\ Len(records) \in Nat
      /\ file.records \in Seq(Tr!AnyRecord)
  BY DEF Tr!TypeOK
<1>2. /\ entry' = [current |-> entry'.current, same |-> entry'.same, offset |-> entry'.offset,
                   guard |-> entry'.guard, complete |-> entry'.complete, outcome |-> entry'.outcome]
      /\ entry'.same = entry.same /\ entry'.complete = entry.complete /\ entry'.current = FALSE
      /\ entry'.offset = entry.offset /\ entry'.guard = entry.guard /\ entry'.outcome = entry.outcome
  <2> DEFINE a == entry.same
             b == entry.offset
             c == entry.guard
             d == entry.complete
             e == entry.outcome
             f == entry.current
  <2>1. entry = [current |-> f, same |-> a, offset |-> b, guard |-> c, complete |-> d, outcome |-> e]
    BY <1>1
  <2> HIDE DEF a, b, c, d, e, f
  <2>2. entry' = [[current |-> f, same |-> a, offset |-> b, guard |-> c, complete |-> d, outcome |-> e]
                    EXCEPT !.current = FALSE]
    BY <1>0, <2>1
  <2>3. /\ entry' = [current |-> entry'.current, same |-> entry'.same, offset |-> entry'.offset,
                     guard |-> entry'.guard, complete |-> entry'.complete, outcome |-> entry'.outcome]
        /\ entry'.same = a /\ entry'.complete = d /\ entry'.current = FALSE
        /\ entry'.offset = b /\ entry'.guard = c /\ entry'.outcome = e
    BY <2>2
  <2> QED BY <2>3 DEF a, b, c, d, e
<1>3. Tr!TypeOK'
  <2>1. /\ file'.records \in Seq(Tr!AnyRecord) /\ Len(file'.records) >= 1 /\ file'.tail \in Nat
        /\ file' = [records |-> file'.records, tail |-> file'.tail]
        /\ \A i \in 1..Len(file'.records) : file'.records[i] \in Tr!RecordsAt(i)
    BY <1>0, <1>1
  <2>2. format \in Tr!Formats /\ silent \in BOOLEAN /\ (silent \/ Len(file.records) >= Tr!HeaderRecords)
    BY DEF Tr!TypeOK
  <2>3. silent \/ Len(file'.records) >= Tr!HeaderRecords
    <3>1. Tr!HeaderRecords \in Int
      BY <2>2 DEF Tr!HeaderRecords, Tr!Formats
    <3> QED BY <1>0, <1>1, <2>2, <3>1
  <2>4. {entry'.current, entry'.same, entry'.complete} \subseteq BOOLEAN
    BY <1>1, <1>2
  <2> QED BY <1>0, <1>2, <2>1, <2>2, <2>3, <2>4, StandsPrimed DEF Tr!TypeOK
<1>4. Tr!ReadAsWhole'
  BY <1>2 DEF Tr!ReadAsWhole, Tr!Settled
<1>5. Tr!Kept'
  <2> SUFFICES ASSUME Tr!IsOpen', entry'.same
               PROVE  /\ (entry.offset \in 1..Len(file.records))'
                      /\ Tr!Told(entry.outcome, Tr!AsScanned, entry.offset)'
    BY DEF Tr!Kept
  <2>1. Tr!IsOpen /\ entry.same
    BY <1>2 DEF Tr!IsOpen
  <2>2. entry.offset \in 1..Len(file.records) /\ Tr!Told(entry.outcome, Tr!AsScanned, entry.offset)
    BY <2>1 DEF Tr!Kept
  <2> DEFINE rs == Tr!AsScanned
             ss == [records EXCEPT ![1] = entry.guard[1]]
             m == entry.outcome
             n == entry.offset
  <2>3. \A i \in 1..n : ss[i] = rs[i]
    <3>1. file.records = [i \in 1..Len(file.records) |-> file.records[i]]
      <4>1. \A q \in Seq(Tr!AnyRecord) : q = [i \in 1..Len(q) |-> q[i]]
        OBVIOUS
      <4> QED BY <1>1, <4>1
    <3>0. records = [i \in 1..Len(records) |-> records[i]]
      OBVIOUS
    <3>2. \A i \in 1..Len(file.records) : rs[i] = IF i = 1 THEN entry.guard[1] ELSE file.records[i]
      BY <3>1 DEF Tr!AsScanned
    <3>3. \A i \in 1..Len(records) : ss[i] = IF i = 1 THEN entry.guard[1] ELSE records[i]
      BY <3>0
    <3>4. \A i \in 1..n : i \in 1..Len(file.records) /\ i \in 1..Len(records)
      BY <1>1, <2>2
    <3> HIDE DEF rs, ss, n
    <3>5. \A i \in 1..n : i # 1 => records[i] = file.records[i]
      BY <1>1, <3>4
    <3> QED BY <3>2, <3>3, <3>4, <3>5
  <2>4. n \in Nat /\ n >= 1 /\ n <= Len(records) /\ format \in Tr!Formats
    BY <1>1, <2>2 DEF Tr!TypeOK
  <2>5. Tr!AsScanned' = ss /\ entry'.outcome = m /\ entry'.offset = n
    BY <1>0, <1>2 DEF Tr!AsScanned
  <2>6. Tr!Told(m, rs, n)
    BY <2>2
  <2>7. Tr!Told(m, ss, n)
    <3> HIDE DEF rs, ss, m, n
    <3> QED BY <2>3, <2>4, <2>6, ToldSame
  <2>8. Tr!Told(entry.outcome, Tr!AsScanned, entry.offset)'
    BY <1>0, <2>5, <2>7 DEF Tr!Told, Tr!Good
  <2>9. (entry.offset \in 1..Len(file.records))'
    BY <1>0, <1>1, <2>4, <2>5
  <2> QED BY <2>8, <2>9
<1> QED BY <1>3, <1>4, <1>5

(* What agents write leaves what is kept.                                  *)
LEMMA EditKeeps ==
    ASSUME Tr!TranscriptsAssumption, Tr!TypeOK, Tr!Kept, Tr!Edits
    PROVE  Tr!TypeOK' /\ Tr!Kept' /\ Tr!ReadAsWhole'
<1> DEFINE rs == file.records
           N == Len(file.records)
<1>0. /\ format \in Tr!Formats /\ rs \in Seq(Tr!AnyRecord) /\ N \in Nat /\ N >= 1 /\ ~silent
      /\ N >= Tr!HeaderRecords /\ \A i \in 1..N : rs[i] \in Tr!RecordsAt(i)
      /\ Page \in Nat
  BY DEF Tr!TypeOK, Tr!Edits, Tr!TranscriptsAssumption
<1>1. Tr!HeaderRecords \in 0..2
  BY <1>0, Stands
<1>2. CASE Tr!Appends
  <2>1. PICK r \in Tr!AnyItem[format] : Tr!Becomes(Append(rs, r), 0)
    BY <1>2 DEF Tr!Appends
  <2>2. Tr!RecordsAt(N + 1) = Tr!AnyItem[format] /\ r \in Tr!AnyRecord
    <3>1. N + 1 \in Nat /\ N + 1 >= 1 /\ N + 1 > Tr!HeaderRecords
      BY <1>0, <1>1
    <3> HIDE DEF N
    <3>2. Tr!RecordsAt(N + 1) = Tr!AnyItem[format] /\ Tr!RecordsAt(N + 1) \subseteq Tr!AnyRecord
      BY <1>0, <3>1, Stands
    <3> QED BY <3>2
  <2> DEFINE records == Append(rs, r)
  <2>3. /\ records \in Seq(Tr!AnyRecord) /\ Len(records) = N + 1
        /\ \A i \in 1..N : records[i] = rs[i]
        /\ records[N + 1] = r
    BY <1>0, <2>2
  <2>4. \A i \in 1..Len(records) : records[i] \in Tr!RecordsAt(i)
    BY <1>0, <2>2, <2>3
  <2>5. \A i \in 2..N : records[i] = rs[i]
    BY <1>0, <2>3
  <2>6. Tr!Becomes(records, 0) /\ Len(records) >= N
    BY <1>0, <2>1, <2>3
  <2> HIDE DEF records
  <2> QED BY <2>3, <2>4, <2>5, <2>6, WriteKeeps
<1>3. CASE Tr!StartsRecord
  <2>1. PICK size \in {1, Page + 1} : Tr!Becomes(rs, size)
    BY <1>3 DEF Tr!StartsRecord
  <2>2. size \in Nat /\ N >= N
    BY <1>0
  <2> QED BY <1>0, <2>1, <2>2, WriteKeeps
<1>4. CASE Tr!Retitles
  <2>1. PICK s \in Tr!Slots : Tr!Becomes([rs EXCEPT ![1] = s], 0)
    BY <1>4 DEF Tr!Retitles
  <2>2. Tr!RecordsAt(1) = Tr!Slots /\ Tr!RecordsAt(1) \subseteq Tr!AnyRecord
    BY <1>0, <1>4, Stands DEF Tr!Retitles
  <2> DEFINE records == [rs EXCEPT ![1] = s]
  <2>3. /\ records \in Seq(Tr!AnyRecord) /\ Len(records) = N
        /\ \A i \in 1..N : records[i] = IF i = 1 THEN s ELSE rs[i]
    <3>1. s \in Tr!AnyRecord
      BY <2>2
    <3> QED BY <1>0, <3>1
  <2>4. \A i \in 1..Len(records) : records[i] \in Tr!RecordsAt(i)
    BY <1>0, <2>2, <2>3
  <2>5. \A i \in 2..N : records[i] = rs[i]
    BY <1>0, <2>3
  <2>6. Tr!Becomes(records, 0) /\ Len(records) >= N
    BY <1>0, <2>1, <2>3
  <2> HIDE DEF records
  <2> QED BY <2>3, <2>4, <2>5, <2>6, WriteKeeps
<1>5. CASE Tr!Replaces
  <2>0. /\ entry' = [entry EXCEPT !.current = FALSE, !.same = FALSE]
        /\ silent' = TRUE /\ format' = format
    BY <1>5 DEF Tr!Replaces
  <2>1. PICK n \in 1..N : file' = [records |-> SubSeq(rs, 1, n), tail |-> 0]
    BY <1>5 DEF Tr!Replaces
  <2>2. file'.records = SubSeq(rs, 1, n) /\ file'.tail = 0 /\ file' = [records |-> file'.records, tail |-> file'.tail]
    BY <2>1
  <2> DEFINE ss == SubSeq(rs, 1, n)
  <2>3. ss \in Seq(Tr!AnyRecord) /\ Len(ss) = n /\ \A i \in 1..n : ss[i] = rs[i]
    BY <1>0
  <2>4. \A i \in 1..Len(ss) : ss[i] \in Tr!RecordsAt(i)
    BY <1>0, <2>3
  <2>5. /\ entry' = [current |-> entry'.current, same |-> entry'.same, offset |-> entry'.offset,
                     guard |-> entry'.guard, complete |-> entry'.complete, outcome |-> entry'.outcome]
        /\ entry'.same = FALSE /\ entry'.complete \in BOOLEAN /\ entry'.current = FALSE
    <3> DEFINE a == entry.same
               b == entry.offset
               c == entry.guard
               d == entry.complete
               e == entry.outcome
               f == entry.current
    <3>1. entry = [current |-> f, same |-> a, offset |-> b, guard |-> c, complete |-> d, outcome |-> e]
          /\ d \in BOOLEAN
      BY DEF Tr!TypeOK
    <3> HIDE DEF a, b, c, d, e, f
    <3>2. entry' = [[current |-> f, same |-> a, offset |-> b, guard |-> c, complete |-> d, outcome |-> e]
                      EXCEPT !.current = FALSE, !.same = FALSE]
      BY <2>0, <3>1
    <3>3. /\ entry' = [current |-> entry'.current, same |-> entry'.same, offset |-> entry'.offset,
                       guard |-> entry'.guard, complete |-> entry'.complete, outcome |-> entry'.outcome]
          /\ entry'.same = FALSE /\ entry'.complete = d /\ entry'.current = FALSE
      BY <3>2
    <3> QED BY <3>1, <3>3
  <2>6. Tr!TypeOK'
    <3>1. /\ file'.records \in Seq(Tr!AnyRecord) /\ Len(file'.records) >= 1 /\ file'.tail \in Nat
          /\ \A i \in 1..Len(file'.records) : file'.records[i] \in Tr!RecordsAt(i)
      BY <1>0, <2>2, <2>3, <2>4
    <3> QED BY <1>0, <2>0, <2>2, <2>5, <3>1, StandsPrimed DEF Tr!TypeOK
  <2>7. Tr!Kept'
    BY <2>5 DEF Tr!Kept
  <2>8. Tr!ReadAsWhole'
    BY <2>5 DEF Tr!ReadAsWhole, Tr!Settled
  <2> QED BY <2>6, <2>7, <2>8
<1> QED BY <1>2, <1>3, <1>4, <1>5 DEF Tr!Edits

(* A transcript that has not been scanned yet.                             *)
LEMMA TranscriptBegins ==
    ASSUME Tr!TranscriptsAssumption, Tr!Init PROVE Tr!TranscriptInv
<1>1. PICK records \in Tr!Beginnings : file = [records |-> records, tail |-> 0]
  BY DEF Tr!Init
<1>2. format \in Tr!Formats /\ silent = FALSE /\ entry = Tr!NoEntry
  BY DEF Tr!Init
<1>3. /\ records \in Seq(Tr!AnyRecord) /\ Len(records) >= 1 /\ Len(records) >= Tr!HeaderRecords
      /\ \A i \in 1..Len(records) : records[i] \in Tr!RecordsAt(i)
  <2>0. /\ Tr!RecordsAt(1) \subseteq Tr!AnyRecord /\ Tr!RecordsAt(2) \subseteq Tr!AnyRecord
        /\ 1 > Tr!HeaderRecords => Tr!RecordsAt(1) = Tr!AnyItem[format]
        /\ format = "omp" => Tr!HeaderRecords = 2
        /\ format = "omp" => Tr!RecordsAt(1) = Tr!Slots
        /\ 1 = Tr!HeaderRecords => Tr!RecordsAt(1) = Tr!Headers[format]
        /\ 2 = Tr!HeaderRecords => Tr!RecordsAt(2) = Tr!Headers[format]
    BY <1>2, Stands
  <2>1. CASE format = "omp"
    <3>1. PICK s \in Tr!Slots, h \in Tr!Headers["omp"] : records = <<s, h>>
      BY <1>1, <2>1 DEF Tr!Beginnings
    <3>2. s \in Tr!RecordsAt(1) /\ h \in Tr!RecordsAt(2)
      BY <2>0, <2>1
    <3>3. s \in Tr!AnyRecord /\ h \in Tr!AnyRecord
      BY <2>0, <3>2
    <3>4. records \in Seq(Tr!AnyRecord) /\ Len(records) = 2 /\ records[1] = s /\ records[2] = h
      BY <3>1, <3>3
    <3>5. \A i \in 1..2 : i = 1 \/ i = 2
      OBVIOUS
    <3> QED BY <2>0, <2>1, <3>2, <3>4, <3>5
  <2>2. CASE format = "claude"
    <3>1. PICK r \in Tr!Items["claude"] : records = <<r>>
      BY <1>1, <2>2 DEF Tr!Beginnings
    <3>2. Tr!HeaderRecords = 0
      BY <2>2 DEF Tr!HeaderRecords
    <3>3. r \in Tr!RecordsAt(1)
      <4>1. r \in Tr!AnyItem["claude"]
        BY DEF Tr!AnyItem, Tr!Formats
      <4> QED BY <2>0, <2>2, <3>2, <4>1
    <3>4. records \in Seq(Tr!AnyRecord) /\ Len(records) = 1 /\ records[1] = r
      BY <2>0, <3>1, <3>3
    <3> QED BY <3>2, <3>3, <3>4
  <2>3. CASE format \in {"pi", "codex"}
    <3>1. PICK h \in Tr!Headers[format] : records = <<h>>
      BY <1>1, <2>3 DEF Tr!Beginnings
    <3>2. Tr!HeaderRecords = 1
      BY <2>3 DEF Tr!HeaderRecords
    <3>3. h \in Tr!RecordsAt(1)
      BY <2>0, <3>2
    <3>4. records \in Seq(Tr!AnyRecord) /\ Len(records) = 1 /\ records[1] = h
      BY <2>0, <3>1, <3>3
    <3> QED BY <3>2, <3>3, <3>4
  <2> QED BY <1>2, <2>1, <2>2, <2>3 DEF Tr!Formats
<1>4. Tr!TypeOK
  BY <1>1, <1>2, <1>3 DEF Tr!TypeOK, Tr!NoEntry
<1>5. Tr!Kept
  BY <1>2 DEF Tr!Kept, Tr!IsOpen, Tr!NoEntry, Tr!Absent
<1>6. Tr!ReadAsWhole
  BY <1>2 DEF Tr!ReadAsWhole, Tr!Settled, Tr!NoEntry
<1> QED BY <1>4, <1>5, <1>6 DEF Tr!TranscriptInv

(* Every step keeps what is kept between the pages.                        *)
LEMMA TranscriptSteps ==
    ASSUME Tr!TranscriptsAssumption, Tr!TranscriptInv, [Tr!Next]_(Tr!vars)
    PROVE  Tr!TranscriptInv'
<1>0. Tr!TypeOK /\ Tr!Kept /\ Tr!ReadAsWhole
  BY DEF Tr!TranscriptInv
<1>1. CASE Tr!Scan
  BY <1>0, <1>1, ScanKeeps DEF Tr!TranscriptInv
<1>2. CASE Tr!Edits
  BY <1>0, <1>2, EditKeeps DEF Tr!TranscriptInv
<1>3. CASE (Tr!FallsSilent \/ UNCHANGED Tr!vars)
  <2>1. format' = format /\ file' = file /\ entry' = entry /\ (silent' = TRUE \/ silent' = silent)
    BY <1>3 DEF Tr!FallsSilent, Tr!vars
  <2>2. Tr!TypeOK'
    BY <1>0, <2>1, StandsPrimed DEF Tr!TypeOK
  <2>3. Tr!AsScanned' = Tr!AsScanned
    BY <2>1 DEF Tr!AsScanned
  <2>4. Tr!Kept'
    BY <1>0, <2>1, <2>3 DEF Tr!Kept, Tr!IsOpen, Tr!Told, Tr!Good
  <2>5. Tr!FileSession' = Tr!FileSession
    BY <2>1 DEF Tr!FileSession, Tr!Huge, Tr!Readable, Tr!SessionOf, Tr!Good
  <2>6. Tr!ReadAsWhole'
    BY <1>0, <2>1, <2>5 DEF Tr!ReadAsWhole, Tr!Settled
  <2> QED BY <2>2, <2>4, <2>6 DEF Tr!TranscriptInv
<1> QED BY <1>1, <1>2, <1>3 DEF Tr!Next

(* Types of the file and of its entry, for any sizes of page and guard,    *)
(* any limits and any number of records.                                   *)
THEOREM TranscriptTypes == Tr!TranscriptsAssumption => (Tr!Spec => []Tr!TypeOK)
<1> SUFFICES ASSUME Tr!TranscriptsAssumption PROVE Tr!Spec => []Tr!TypeOK
  OBVIOUS
<1>1. Tr!TranscriptInv => Tr!TypeOK
  BY DEF Tr!TranscriptInv
<1> QED BY <1>1, TranscriptBegins, TranscriptSteps, PTL DEF Tr!Spec

(* ReadAsWhole: whatever the pages in which scan_file() read a transcript, *)
(* and however it was extended, retitled, replaced or left half written    *)
(* between them, what is stored once the scan is over is what all of its   *)
(* records say, read at once, and it is refused exactly if they say        *)
(* nothing.                                                                *)
THEOREM TranscriptsReadAsWhole == Tr!TranscriptsAssumption => (Tr!Spec => []Tr!ReadAsWhole)
<1> SUFFICES ASSUME Tr!TranscriptsAssumption PROVE Tr!Spec => []Tr!ReadAsWhole
  OBVIOUS
<1>1. Tr!TranscriptInv => Tr!ReadAsWhole
  BY DEF Tr!TranscriptInv
<1> QED BY <1>1, TranscriptBegins, TranscriptSteps, PTL DEF Tr!Spec
=============================================================================
