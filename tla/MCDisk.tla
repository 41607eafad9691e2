------------------------------- MODULE MCDisk --------------------------------
(***************************************************************************)
(* What a dock finds on disk and leaves there, one part in each behaviour. *)
(*                                                                         *)
(* "cache": two docks of one project replace its conversation cache; the   *)
(* variables of ConversationCache, at rest otherwise.                      *)
(*                                                                         *)
(* "restart": the records of docks of two tabs of one Herdr server, whose  *)
(* user waits for hooks to end, through a restart of the server; panes 1   *)
(* and 5 are the terminals the tabs start with, and may exit like any      *)
(* other.                                                                  *)
(*                                                                         *)
(* "inventory": pages of discovery walk the stores of the known tools,     *)
(* each with a transcript, an entry or a directory more than a limit.      *)
(*                                                                         *)
(* "keys": the configuration gives up to two texts to each of three        *)
(* actions, of which one may be given.                                     *)
(***************************************************************************)
EXTENDS ConversationCache, TLC

CONSTANTS a, b, p, q, NoProc, NoTab, Absent

VARIABLES scenario,
          hook, mishaps, pane, records, exits, startups, tabLock, job, seen, docks, stale,
          opened, todo, kept, restarts,                \* the launcher's; hook and mishaps are
                                                        \* its pc and faults
          format, max_dirs, entries, unreadable, at, ahead, names, children, found, visited,
          errors, index, steady, missed, edits,        \* the inventory's; at, ahead and
                                                        \* found are its pc, todo, files
          written, bindings, configured, warned, pass  \* the keys'; pass is their pc

TwoTabs == {a, b}
HomesOf == [x \in 1..7 |-> IF x <= 4 THEN a ELSE b]
Restart == INSTANCE DockLauncher
             WITH Servers <- {1}, Tabs <- TwoTabs, Panes <- 1..7,
                  ServerOf <- [t \in TwoTabs |-> 1], MaxServers <- 1, MaxRecords <- 2,
                  Procs <- {p, q}, HomeOf <- HomesOf, Terminals <- {1, 5}, Mortal <- 1..7,
                  RestoreOnStartup <- TRUE, UserWaits <- TRUE, MaxFaults <- 1, MaxRestarts <- 1,
                  pc <- hook, faults <- mishaps

FlatLayout == (<<1>> :> "file") @@ (<<2>> :> "file") @@ (<<3>> :> "directory")
Stores ==
    [pi |-> FlatLayout @@ (<<4>> :> "other"),
     omp |-> FlatLayout,
     claude |-> (<<1>> :> "directory") @@ (<<2>> :> "directory") @@ (<<3>> :> "other")
                @@ (<<1, 1>> :> "file") @@ (<<1, 2>> :> "file") @@ (<<1, 3>> :> "directory")
                @@ (<<2, 1>> :> "file"),
     codex |-> (<<1>> :> "directory") @@ (<<2>> :> "directory")
               @@ (<<1, 1>> :> "directory") @@ (<<2, 1>> :> "directory")
               @@ (<<1, 1, 1>> :> "directory") @@ (<<2, 1, 1>> :> "directory")
               @@ (<<2, 1, 2>> :> "directory")
               @@ (<<1, 1, 1, 1>> :> "file") @@ (<<2, 1, 1, 1>> :> "file")
               @@ (<<2, 1, 2, 1>> :> "file") @@ (<<2, 1, 2, 2>> :> "file")]
Inventory == INSTANCE StoreInventory
               WITH Layout <- Stores, Expected <- <<1>>, DirLimits <- 1..2, MaxFiles <- 3,
                    MaxStore <- 2, MaxEdits <- 3, pc <- at, todo <- ahead, files <- found
ASSUME StoresAreTrees == Inventory!LayoutIsTree /\ Inventory!LimitsAreNumbers

Plain(key) == [before |-> <<>>, key |-> key]
KeyTexts == {Plain("q"), Plain("w"), Plain("backtab"), [before |-> <<"shift">>, key |-> "backtab"],
             [before |-> <<"ctrl", "ctrl">>, key |-> "w"]}
Keys == INSTANCE KeyBindings
          WITH Count <- 3, Texts <- KeyTexts, MaxChords <- 1, MaxWritten <- 2,
               Defaults <- << <<Plain("q")>>, <<Plain("backtab")>>, <<Plain("w")>> >>,
               pc <- pass

IsCache == scenario = "cache"
IsRestart == scenario = "restart"
IsInventory == scenario = "inventory"
IsKeys == scenario = "keys"

ofHooks == <<hook, mishaps, pane, records, exits, startups, tabLock, job, seen, docks, stale,
             opened, todo, kept, restarts>>
ofInventory == <<format, max_dirs, entries, unreadable, at, ahead, names, children, found,
                 visited, errors, index, steady, missed, edits>>
ofKeys == <<written, bindings, configured, warned, pass>>
NoHooks == /\ hook = 0 /\ mishaps = 0 /\ pane = 0 /\ records = 0 /\ exits = 0 /\ startups = 0
           /\ tabLock = 0 /\ job = 0 /\ seen = 0 /\ docks = 0 /\ stale = 0 /\ opened = 0
           /\ todo = 0 /\ kept = 0 /\ restarts = 0
NoInventory == /\ format = 0 /\ max_dirs = 0 /\ entries = 0 /\ unreadable = 0 /\ at = 0
               /\ ahead = 0 /\ names = 0 /\ children = 0 /\ found = 0 /\ visited = 0
               /\ errors = 0 /\ index = 0 /\ steady = 0 /\ missed = 0 /\ edits = 0
NoKeys == written = 0 /\ bindings = 0 /\ configured = 0 /\ warned = 0 /\ pass = 0

all == <<scenario, vars, ofHooks, ofInventory, ofKeys>>
MCInit == /\ Init
          /\ \/ IsCache /\ NoHooks /\ NoInventory /\ NoKeys
             \/ IsRestart /\ Restart!Init /\ NoInventory /\ NoKeys
             \/ IsInventory /\ Inventory!Init /\ NoHooks /\ NoKeys
             \/ IsKeys /\ Keys!Init /\ NoHooks /\ NoInventory
MCNext == \/ IsCache /\ Next /\ UNCHANGED <<scenario, ofHooks, ofInventory, ofKeys>>
          \/ IsRestart /\ Restart!Next /\ UNCHANGED <<scenario, vars, ofInventory, ofKeys>>
          \/ IsInventory /\ Inventory!Next /\ UNCHANGED <<scenario, vars, ofHooks, ofKeys>>
          \/ IsKeys /\ Keys!Next /\ UNCHANGED <<scenario, vars, ofHooks, ofInventory>>
MCSpec == /\ MCInit /\ [][MCNext]_all
          /\ WF_all(IsKeys /\ Keys!Next /\ UNCHANGED <<scenario, vars, ofHooks, ofInventory>>)

-----------------------------------------------------------------------------
(* When all hooks are done, the records are exactly the open docks.        *)
RecordsAreDocks == IsRestart => Restart!RecordsAreDocks
(* Closing a stale shell never takes the last terminal of a tab.           *)
TerminalRemains == [][IsRestart => Restart!Remains]_<<scenario, pane>>
(* A complete inventory of a store has every transcript that was there all *)
(* along.                                                                  *)
InventoryComplete == IsInventory => Inventory!InventoryComplete
(* What README.md:158 says, of transcripts that are there all along: not   *)
(* so (MCDisk_listed.cfg).                                                 *)
ListedStay == [][IsInventory => Inventory!Proved]_<<scenario, ofInventory>>
(* The bindings of keys come to be free of conflicts.                      *)
KeysSettle == <>[](IsKeys => pass = "settled" /\ Keys!Unambiguous /\ Keys!Respected)
=============================================================================
