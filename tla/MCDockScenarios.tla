-------------------------- MODULE MCDockScenarios ---------------------------
(***************************************************************************)
(* Hook processes and docks.json, in two scenarios, one per behaviour.     *)
(*                                                                         *)
(* "file": two servers, one with two tabs, share a docks.json with room    *)
(* for one section of one record, so that every cap is met; the variables  *)
(* of DockStateFile, at rest in the other scenario.                        *)
(*                                                                         *)
(* "overlap": hooks overlap in the only tab; pane 1 is the terminal that   *)
(* it starts with.                                                         *)
(***************************************************************************)
EXTENDS DockStateFile, TLC

CONSTANTS a, b, c, NoTab

MCTabs == {a, b, c}
MCServerOf == (a :> 1) @@ (b :> 1) @@ (c :> 2)

VARIABLES scenario,
          at,        \* where each hook of the launcher is
          pane, records, exits, startups, tabLock, job, seen, docks, stale, opened, todo, kept,
          faults, restarts

OneServer == {1}
OneTab == {a}
OneServerOf == a :> 1
FivePanes == 1..5
OneHomeOf == [x \in 1..5 |-> a]
TabTerminal == {1}
DockPanes == 2..5
Overlap == INSTANCE DockLauncher
             WITH Servers <- OneServer, Tabs <- OneTab, Panes <- FivePanes, ServerOf <- OneServerOf,
                  HomeOf <- OneHomeOf, Terminals <- TabTerminal, Mortal <- DockPanes,
                  RestoreOnStartup <- TRUE, UserWaits <- FALSE, MaxFaults <- 1, MaxRestarts <- 1,
                  pc <- at

IsFile == scenario = "file"
IsOverlap == scenario = "overlap"

NoHooks == /\ at = 0 /\ pane = 0 /\ records = 0 /\ exits = 0 /\ startups = 0 /\ tabLock = 0
           /\ job = 0 /\ seen = 0 /\ docks = 0 /\ stale = 0 /\ opened = 0 /\ todo = 0 /\ kept = 0
           /\ faults = 0 /\ restarts = 0
MCInit == /\ Init
          /\ \/ IsFile /\ NoHooks
             \/ IsOverlap /\ Overlap!Init

hooks == <<at, pane, records, exits, startups, tabLock, job, seen, docks, stale, opened, todo,
           kept, faults, restarts>>
all == <<scenario, vars, hooks>>

OnlyFile == UNCHANGED <<scenario, hooks>>
OnlyHooks == UNCHANGED <<scenario, vars>>

MCNext == \/ IsFile /\ Next /\ OnlyFile
          \/ IsOverlap /\ Overlap!Next /\ OnlyHooks
StepOf(x) == \/ IsFile /\ Step(x) /\ OnlyFile
             \/ IsOverlap /\ Overlap!Step(x) /\ OnlyHooks
MCSpec == /\ MCInit /\ [][MCNext]_all
          /\ \A x \in Procs : WF_all(StepOf(x))

-----------------------------------------------------------------------------
(* Two overlapping hooks never leave two docks in a tab, as long as no     *)
(* call fails.                                                             *)
OneDockPerTab == IsOverlap => Overlap!OneDockPerTab
(* Every hook ends, whoever else wants the lock of its tab or of the file: *)
(* neither lock is waited for beyond its deadline.                         *)
Busy(x) == IF IsFile THEN pc[x] # "idle" ELSE Overlap!Running(x)
HooksEnd == \A x \in Procs : Busy(x) ~> ~Busy(x)
=============================================================================
