------------------------------- MODULE MCJobs -------------------------------
(***************************************************************************)
(* Two kinds of work that the threads of the worker do, one in each        *)
(* behaviour: a job's commands, for a dock, its origin and a pane in       *)
(* between that may have nothing left of it; and the scan of a transcript. *)
(***************************************************************************)
EXTENDS HostCommands

VARIABLES mode,                              \* which work this behaviour is about
          format, file, silent, entry

MCPanes == {1, 2, 3}
MCLayouts == {<<1, 1, 2>>, <<1, 2, 2>>}
Records == [pi |-> 4, omp |-> 4, codex |-> 3, claude |-> 3]

Scanned == INSTANCE Transcripts
             WITH Titles <- {"t", "u"}, Untitled <- "none", Directories <- {1}, Page <- 2,
                  Guard <- 2, MaxOmpRecords <- 3, MaxRecords <- Records, MaxTime <- 2, MaxOdd <- 1

ASSUME LimitsOfScan == Scanned!TranscriptsAssumption

IsCommands == mode = "commands"
IsScan == mode = "scan"

transcript == <<format, file, silent, entry>>
NoTranscript == format = "" /\ file = 0 /\ silent = FALSE /\ entry = 0
NoJob == /\ SubprocessInit
         /\ job = "" /\ step = "" /\ remaining = 0 /\ given = 0 /\ known = FALSE
         /\ current = Dock /\ steps = 0 /\ asked = {} /\ tab = "none" /\ inserted = FALSE
         /\ sent = {}

all == <<mode, vars, transcript>>
OnlyCommands == UNCHANGED <<mode, transcript>>

MCInit == \/ IsCommands /\ Init /\ NoTranscript
          \/ IsScan /\ Scanned!Init /\ NoJob
MCNext == \/ IsCommands /\ Next /\ OnlyCommands
          \/ IsScan /\ Scanned!Next /\ UNCHANGED <<mode, vars>>
MCSpec == /\ MCInit /\ [][MCNext]_all
          /\ WF_all(IsCommands /\ JobSteps /\ OnlyCommands)
          /\ WF_all(IsCommands /\ RunnerSteps /\ UNCHANGED <<caller, herdr>> /\ OnlyCommands)
          /\ \A s \in Streams :
                WF_all(IsCommands /\ (Reads(s) \/ MeetsEnd(s)) /\ UNCHANGED <<caller, herdr>> /\ OnlyCommands)
          /\ WF_all(IsCommands /\ Expires /\ UNCHANGED <<caller, herdr>> /\ OnlyCommands)
          /\ WF_all(IsScan /\ silent /\ Scanned!Scan /\ UNCHANGED <<mode, vars>>)

-----------------------------------------------------------------------------
(* What is stored of a transcript once its scan is over is what all of its *)
(* records say, read at once, in whatever pages it was read and however it *)
(* changed between them.                                                   *)
ScannedAsWhole == IsScan => Scanned!ReadAsWhole

(* Every job ends; and the scan of a transcript does once its agent is     *)
(* silent: pages advance, or start again a bounded number of times.        *)
WorkEnds == (IsCommands \/ silent) ~> (IF IsCommands THEN step \in Ended ELSE Scanned!Settled)
=============================================================================
