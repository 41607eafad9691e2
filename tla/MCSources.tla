----------------------------- MODULE MCSources ------------------------------
(***************************************************************************)
(* The three kinds of source, one in each behaviour: a store of known      *)
(* transcripts (ConversationDiscovery), OpenCode's database, and the       *)
(* project-local directory.                                                *)
(*                                                                         *)
(* Known transcripts: files a and b may hold copies of one session, with   *)
(* one or two units to read; c has a session of its own.  Files a and c    *)
(* may become unreadable.                                                  *)
(***************************************************************************)
EXTENDS ConversationDiscovery, TLC

CONSTANTS a, b, c, s, u

Useless == {[session |-> NoSession, len |-> l, named |-> 1] : l \in 0..1}
MCShapes == a :> {[session |-> s, len |-> 1, named |-> 1], [session |-> s, len |-> 2, named |-> 2]}
         @@ b :> {[session |-> s, len |-> 2, named |-> 1]} \cup Useless
         @@ c :> {[session |-> u, len |-> 1, named |-> 1]}

VARIABLES subject,                              \* which source this behaviour is about
          memory, titles, step, changes,        \* of the other two sources their watermark,
                                                \* list, pc, edits
          disk, captured, rows, replacements,   \* of OpenCode
          mishaps,                              \* its faults
          here, reads, batch,                   \* of the project-local source
          records, sealed, ahead, taken,        \* its file, hidden, todo, extracted,
          lacking, astray, disputed             \* failed, strays, contested

OpenCode == INSTANCE OpenCodeSource
              WITH Sessions <- 1..2, Limit <- 1, MaxEdits <- 4, MaxReplacements <- 1,
                   MaxFaults <- 1, watermark <- memory, list <- titles, pc <- step,
                   edits <- changes, faults <- mishaps
Local == INSTANCE ProjectLocalSource
           WITH NumFiles <- 3, Sessions <- {"s", "t"}, Bad <- "bad", Limit <- 1, MaxFiles <- 2,
                MaxEdits <- 4, watermark <- memory, list <- titles, pc <- step,
                edits <- changes, file <- records, hidden <- sealed, todo <- ahead,
                extracted <- taken, failed <- lacking, strays <- astray, contested <- disputed

IsKnown == subject = "known"
IsOpenCode == subject = "OpenCode"
IsLocal == subject = "project-local"

ofOthers == <<memory, titles, step, changes>>
ofOpenCode == <<disk, captured, rows, replacements, mishaps>>
ofLocal == <<here, reads, batch, records, sealed, ahead, taken, lacking, astray, disputed>>
all == <<subject, vars, ofOthers, ofOpenCode, ofLocal>>

NoOthers == memory = 0 /\ titles = 0 /\ step = 0 /\ changes = 0
NoOpenCode == disk = 0 /\ captured = 0 /\ rows = 0 /\ replacements = 0 /\ mishaps = 0
NoLocal == /\ here = 0 /\ reads = 0 /\ batch = 0 /\ records = 0 /\ sealed = 0 /\ ahead = 0
           /\ taken = 0 /\ lacking = 0 /\ astray = 0 /\ disputed = 0

(* Known transcripts are at rest in the behaviours of the others.          *)
MCInit == /\ Init
          /\ \/ IsKnown /\ NoOthers /\ NoOpenCode /\ NoLocal
             \/ IsOpenCode /\ OpenCode!Init /\ NoLocal
             \/ IsLocal /\ Local!Init /\ NoOpenCode

OnlyKnown == UNCHANGED <<subject, ofOthers, ofOpenCode, ofLocal>>
OnlyOpenCode == UNCHANGED <<subject, vars, ofLocal>>
OnlyLocal == UNCHANGED <<subject, vars, ofOpenCode>>

MCNext == \/ IsKnown /\ Next /\ OnlyKnown
          \/ IsOpenCode /\ OpenCode!Next /\ OnlyOpenCode
          \/ IsLocal /\ Local!Next /\ OnlyLocal

MCSpec == /\ MCInit /\ [][MCNext]_all
          /\ WF_all(IsKnown /\ Work /\ OnlyKnown)
          /\ WF_all(IsOpenCode /\ OpenCode!Page /\ OnlyOpenCode)
          /\ WF_all(IsLocal /\ Local!Page /\ OnlyLocal)

-----------------------------------------------------------------------------
(* Of known transcripts the properties are those of ConversationDiscovery: *)
(* Covered, Accounted, SessionsStayDecoded, and SessionsStay, which does   *)
(* not hold (MCSources_purge.cfg).                                         *)

(* Of the other two sources as well, a record file or a row of OpenCode    *)
(* that a page passes over, because the watermark has it as read and       *)
(* unchanged, has its session on the list: it would never be found again.  *)
(* A whole page of OpenCode that is passed over, because the marks of the  *)
(* database are those of the watermark, would have changed nothing.        *)
(* Conversely a session listed from a record file is one the watermark     *)
(* names, unless it was taken from a page that failed.                     *)
OthersCovered == /\ IsOpenCode => OpenCode!WatermarkListed /\ OpenCode!SkipIsSound
                 /\ IsLocal => Local!Covered /\ Local!Accounted

(* When nobody writes any more, one refresh of known transcripts is        *)
(* enough, the index comes to hold the sessions of the database, and of    *)
(* the record files those that exactly one file has.                       *)
SourcesSettle == /\ OneRefreshSuffices
                 /\ <>[](/\ IsOpenCode => OpenCode!Agrees
                         /\ IsLocal => (here => Local!Agrees))

(* What README.md:158 says, of OpenCode: a session disappears only after a *)
(* refresh proves it was deleted or replaced.                              *)
OpenCodeStay == [][IsOpenCode => OpenCode!Stay]_all
=============================================================================
