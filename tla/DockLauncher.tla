---------------------------- MODULE DockLauncher -----------------------------
(***************************************************************************)
(* The short-lived hook processes of the plugin: toggle, restore and       *)
(* on-event (src/src/main.rs, src/src/host/launch.rs).  Each is a process  *)
(* of its own that queries and changes the panes of a Herdr server through *)
(* its command line, one call per step, under an advisory lock per tab,    *)
(* and updates docks.json in one atomic step (DockStateFile shows that     *)
(* with_locked_state() is one).                                            *)
(*                                                                         *)
(* The Herdr server and the user are the environment: panes exit, servers  *)
(* restart, calls fail, and a call may fail although the server did what   *)
(* it asked.  Which pane has focus is left to chance: it only decides      *)
(* whether a toggle focuses or closes the dock.  Placing and focusing a    *)
(* dock ("placing") may fail without consequence for panes and records.    *)
(***************************************************************************)
EXTENDS DockRecords, FiniteSetsExt

CONSTANTS Procs, NoProc, NoTab,
          HomeOf,            \* the tab in which a pane identifier is used
          Terminals,         \* ordinary terminals that are open at first
          Mortal,            \* panes that may exit by themselves
          RestoreOnStartup,  \* the option dock.restore_on_startup
          UserWaits,         \* the user waits for hooks of the server to end
          MaxFaults,         \* bound on failing calls and dying hooks
          MaxRestarts        \* bound on server restarts

VARIABLES pane,       \* what each pane identifier denotes
          records,    \* the contents of docks.json
          exits,      \* exited panes whose pane.exited hook has not started
          startups,   \* servers whose startup hook has not started
          tabLock,    \* who holds the lock of each tab
          pc,         \* where each hook process is
          job,        \* its mode, server and tab
          seen,       \* the panes of the tab it read last
          docks,      \* those of them verified as docks, the keeper first
          stale,      \* restore: the shell to close
          opened,     \* it has opened a dock in the tab
          todo,       \* restore: records to process, by tab
          kept,       \* restore: records processed and kept
          faults, restarts

world == <<pane, exits, startups, restarts>>
locals == <<job, seen, docks, stale, opened, todo, kept>>
vars == <<pane, records, exits, startups, tabLock, pc, locals, faults, restarts>>

(* A former dock may come back from a restart under its old title.         *)
IsDock(x) == pane[x] \in {"dock", "titled"}
IsTerminal(x) == pane[x] = "shell"
Open(x) == pane[x] \in {"dock", "titled", "shell"}
PanesIn(t) == {x \in Panes : HomeOf[x] = t /\ Open(x)}
DocksIn(t) == {x \in PanesIn(t) : pane[x] = "dock"}
Unused(t) == {x \in Panes : HomeOf[x] = t /\ pane[x] = "unused"}

NoJob == [mode |-> "none", server |-> 0, tab |-> NoTab]
Running(p) == pc[p] # "idle"
Toggling(t) == \E p \in Procs : job[p].mode = "toggle" /\ job[p].tab = t
Restoring(s) == s \in startups \/ \E p \in Procs : job[p].mode = "restore" /\ job[p].server = s

(* Bound: a toggle starts only while identifiers for every dock that may   *)
(* be opened in the tab remain, so that none is refused for want of one.   *)
Spare(t) == Cardinality(Unused(t)) >
    Cardinality({p \in Procs : job[p].tab = t \/ t \in todo[p]})
        + Cardinality(startups) + MaxRestarts - restarts

Init == /\ pane = [x \in Panes |-> IF x \in Terminals THEN "shell" ELSE "unused"]
        /\ records = EmptyFile
        /\ exits = {}
        /\ startups = {}
        /\ tabLock = [t \in Tabs |-> NoProc]
        /\ pc = [p \in Procs |-> "idle"]
        /\ job = [p \in Procs |-> NoJob]
        /\ seen = [p \in Procs |-> {}]
        /\ docks = [p \in Procs |-> {}]
        /\ stale = [p \in Procs |-> NoPane]
        /\ opened = [p \in Procs |-> FALSE]
        /\ todo = [p \in Procs |-> {}]
        /\ kept = [p \in Procs |-> EmptyFile]
        /\ faults = 0
        /\ restarts = 0

Goto(p, l) == pc' = [pc EXCEPT ![p] = l]
Unlock(p) == tabLock' = [t \in Tabs |-> IF tabLock[t] = p THEN NoProc ELSE tabLock[t]]
Fault == faults < MaxFaults /\ faults' = faults + 1

(* What a process knows of the tab it works in.                            *)
ForgetTab(p) == /\ seen' = [seen EXCEPT ![p] = {}]
                /\ docks' = [docks EXCEPT ![p] = {}]
                /\ stale' = [stale EXCEPT ![p] = NoPane]
                /\ opened' = [opened EXCEPT ![p] = FALSE]

(* The process ends; the system drops its locks.                           *)
End(p) == /\ Goto(p, "idle")
          /\ Unlock(p)
          /\ job' = [job EXCEPT ![p] = NoJob]
          /\ todo' = [todo EXCEPT ![p] = {}]
          /\ kept' = [kept EXCEPT ![p] = EmptyFile]
          /\ ForgetTab(p)

-----------------------------------------------------------------------------
(* The environment: the user and the Herdr servers.                        *)

(* The toggle action of the plugin, in a tab with a pane to invoke it from. *)
StartToggle(p, t) ==
    /\ pc[p] = "idle"
    /\ PanesIn(t) # {} /\ Spare(t)
    /\ UserWaits => ~Restoring(ServerOf[t])
    /\ Goto(p, "tabLock")
    /\ job' = [job EXCEPT ![p] = [mode |-> "toggle", server |-> ServerOf[t], tab |-> t]]
    /\ UNCHANGED <<world, records, tabLock, seen, docks, stale, opened, todo, kept, faults>>

(* The startup hook reads the records of its server, without the lock.     *)
StartRestore(p, s) ==
    /\ pc[p] = "idle"
    /\ s \in startups
    /\ startups' = startups \ {s}
    /\ LET mine == Section(Clamped(records), s) IN
       IF mine = {}
       THEN UNCHANGED <<pc, job, todo, kept>>
       ELSE /\ Goto(p, "nextRecord")
            /\ job' = [job EXCEPT ![p] = [mode |-> "restore", server |-> s, tab |-> NoTab]]
            /\ todo' = [todo EXCEPT ![p] = mine]
            /\ kept' = [kept EXCEPT ![p] = [t \in Tabs |-> IF t \in mine THEN records[t]
                                                                        ELSE NoPane]]
    /\ UNCHANGED <<pane, exits, restarts, records, tabLock, seen, docks, stale, opened, faults>>

MutOnExit(x) ==
    /\ x \in exits
    /\ exits' = exits \ {x}
    /\ records' = Applied([kind |-> "remove", tab |-> HomeOf[x]], records)
    /\ UNCHANGED <<pane, startups, restarts, tabLock, pc, locals, faults>>

(* The hook of a pane.exited event prunes the records of the pane.         *)
OnExit(x) ==
    /\ x \in exits
    /\ exits' = exits \ {x}
    /\ \/ /\ records' = Applied([kind |-> "prune", server |-> ServerOf[HomeOf[x]],
                                 pane |-> x], records)
          /\ UNCHANGED faults
       \/ Fault /\ UNCHANGED records
    /\ UNCHANGED <<pane, startups, restarts, tabLock, pc, locals>>

(* A dock is quit, or a terminal is closed, by whoever uses it.            *)
PaneExits(x) ==
    /\ x \in Mortal
    /\ Open(x)
    /\ UserWaits => ~Toggling(HomeOf[x]) /\ ~Restoring(ServerOf[HomeOf[x]])
    /\ pane' = [pane EXCEPT ![x] = "gone"]
    /\ exits' = exits \cup {x}
    /\ UNCHANGED <<records, startups, restarts, tabLock, pc, locals, faults>>

(* A restarted server has every pane back under its identifier, former     *)
(* docks as plain shells.  Its hooks have ended by then.                   *)
Restart(s) ==
    /\ restarts < MaxRestarts
    /\ \A p \in Procs : job[p].server # s
    /\ \A x \in Panes : ServerOf[HomeOf[x]] = s => x \notin exits /\ pane[x] # "late"
    /\ restarts' = restarts + 1
    /\ startups' = IF RestoreOnStartup THEN startups \cup {s} ELSE startups
    /\ \E look \in {"shell", "titled"} :
          pane' = [x \in Panes |-> IF ServerOf[HomeOf[x]] = s /\ pane[x] = "dock"
                                   THEN look ELSE pane[x]]
    /\ UNCHANGED <<records, exits, tabLock, pc, locals, faults>>

(* An open request that was answered too late takes effect.                *)
LateOpen(x) ==
    /\ pane[x] = "late"
    /\ pane' = [pane EXCEPT ![x] = "dock"]
    /\ UNCHANGED <<records, exits, startups, restarts, tabLock, pc, locals, faults>>

-----------------------------------------------------------------------------
(* The lock of a tab: TabLock::acquire().                                  *)

NextRecord(p) ==
    /\ pc[p] = "nextRecord"
    /\ \E t \in todo[p] : job' = [job EXCEPT ![p].tab = t]
    /\ Goto(p, "tabLock")
    /\ UNCHANGED <<world, records, tabLock, seen, docks, stale, opened, todo, kept, faults>>

MutLockTab(p) ==
    /\ pc[p] = "tabLock"
    /\ tabLock' = [tabLock EXCEPT ![job[p].tab] = p]
    /\ Goto(p, "query")
    /\ UNCHANGED <<world, records, locals, faults>>

LockTab(p) ==
    /\ pc[p] = "tabLock"
    /\ tabLock[job[p].tab] = NoProc
    /\ tabLock' = [tabLock EXCEPT ![job[p].tab] = p]
    /\ Goto(p, "query")
    /\ UNCHANGED <<world, records, locals, faults>>

-----------------------------------------------------------------------------
(* A restore has processed the record of its tab: it keeps a record of     *)
(* pane x, or drops the record (NoPane), and goes on to the next.          *)
DoneWith(p, x) ==
    /\ kept' = [kept EXCEPT ![p][job[p].tab] = x]
    /\ todo' = [todo EXCEPT ![p] = @ \ {job[p].tab}]
    /\ Goto(p, IF todo[p] = {job[p].tab} THEN "overlay" ELSE "nextRecord")
    /\ job' = [job EXCEPT ![p].tab = NoTab]
    /\ Unlock(p)
    /\ ForgetTab(p)

(* An error ends a toggle; a restore keeps the record for the next restart. *)
Abandon(p) == IF job[p].mode = "toggle" THEN End(p)
                                        ELSE DoneWith(p, kept[p][job[p].tab])

MutStaleShell(p) ==
    LET x == kept[p][job[p].tab] IN
    IF /\ job[p].mode = "restore"
       /\ x \in PanesIn(job[p].tab)
    THEN x ELSE NoPane

(* The pane of the record, if the tab has an ordinary terminal besides it. *)
StaleShell(p) ==
    LET x == kept[p][job[p].tab] IN
    IF /\ job[p].mode = "restore"
       /\ x \in PanesIn(job[p].tab)
       /\ \E y \in PanesIn(job[p].tab) \ {x} : IsTerminal(y)
    THEN x ELSE NoPane

(* panes_in_tab(): before reconciling, and again after opening a dock.     *)
Query(p) ==
    /\ pc[p] = "query"
    /\ IF PanesIn(job[p].tab) = {} /\ job[p].mode = "restore" /\ ~opened[p]
       THEN DoneWith(p, NoPane)
       ELSE /\ seen' = [seen EXCEPT ![p] = PanesIn(job[p].tab)]
            /\ stale' = [stale EXCEPT ![p] = IF opened[p] THEN @ ELSE StaleShell(p)]
            /\ Goto(p, "verify")
            /\ UNCHANGED <<tabLock, job, docks, opened, todo, kept>>
    /\ UNCHANGED <<world, records, faults>>

(* reconcile_docks(): ask the server which candidates are docks of ours.   *)
Verify(p) ==
    /\ pc[p] = "verify"
    /\ docks' = [docks EXCEPT ![p] = {x \in seen[p] : pane[x] = "dock"}]
    /\ Goto(p, "dedupe")
    /\ UNCHANGED <<world, records, tabLock, job, seen, stale, opened, todo, kept, faults>>

Keeper(p) == Min(docks[p])

(* ... and close all but the first of them, in order.                      *)
Dedupe(p) ==
    /\ pc[p] = "dedupe"
    /\ Cardinality(docks[p]) > 1
    /\ LET x == Min(docks[p] \ {Keeper(p)}) IN
       IF pane[x] = "dock"
       THEN /\ pane' = [pane EXCEPT ![x] = "gone"]
            /\ exits' = exits \cup {x}
            /\ docks' = [docks EXCEPT ![p] = @ \ {x}]
            /\ UNCHANGED <<tabLock, pc, job, seen, stale, opened, todo, kept>>
       ELSE Abandon(p) /\ UNCHANGED <<pane, exits>>
    /\ UNCHANGED <<records, startups, restarts, faults>>

(* decide_toggle() and the corresponding choice of restore_record().  A    *)
(* dock that is not there after it was opened is an error.                 *)
Decide(p) ==
    /\ pc[p] = "dedupe"
    /\ Cardinality(docks[p]) <= 1
    /\ IF docks[p] = {} /\ opened[p]
       THEN Abandon(p)
       ELSE /\ \/ docks[p] = {} /\ Goto(p, "opening")
               \/ docks[p] # {} /\ job[p].mode = "restore" /\ Goto(p, "closeStale")
               \/ docks[p] # {} /\ job[p].mode = "toggle" /\ opened[p] /\ Goto(p, "persist")
               \/ /\ docks[p] # {} /\ job[p].mode = "toggle" /\ ~opened[p]
                  /\ \E next \in {"placing", "closeDock"} : Goto(p, next)
            /\ UNCHANGED <<tabLock, locals>>
    /\ UNCHANGED <<world, records, faults>>

(* open_dock(): split a pane that was seen in the tab.                     *)
OpenDock(p) ==
    /\ pc[p] = "opening"
    /\ \/ /\ \E y \in seen[p] : Open(y)
          /\ Unused(job[p].tab) # {}
          /\ pane' = [pane EXCEPT ![Min(Unused(job[p].tab))] = "dock"]
          /\ opened' = [opened EXCEPT ![p] = TRUE]
          /\ Goto(p, "query")
          /\ UNCHANGED <<tabLock, job, seen, docks, stale, todo, kept>>
       \/ (seen[p] = {} \/ \E y \in seen[p] : ~Open(y)) /\ Abandon(p) /\ UNCHANGED pane
    /\ UNCHANGED <<records, exits, startups, restarts, faults>>

(* The server opens the dock, but the call times out.                      *)
LoseOpen(p) ==
    /\ pc[p] = "opening"
    /\ Unused(job[p].tab) # {}
    /\ Fault
    /\ pane' = [pane EXCEPT ![Min(Unused(job[p].tab))] = "late"]
    /\ Abandon(p)
    /\ UNCHANGED <<records, exits, startups, restarts>>

(* persist_open(): best effort, under the lock of the tab.                 *)
Persist(p) ==
    /\ pc[p] = "persist"
    /\ \/ /\ records' = Applied([kind |-> "upsert", tab |-> job[p].tab,
                                 pane |-> Keeper(p)], records)
          /\ UNCHANGED faults
       \/ Fault /\ UNCHANGED records
    /\ Goto(p, "placing")
    /\ UNCHANGED <<world, tabLock, locals>>

Place(p) ==
    /\ pc[p] = "placing"
    /\ End(p)
    /\ UNCHANGED <<world, records, faults>>

CloseDock(p) ==
    /\ pc[p] = "closeDock"
    /\ IF pane[Keeper(p)] = "dock"
       THEN /\ pane' = [pane EXCEPT ![Keeper(p)] = "gone"]
            /\ exits' = exits \cup {Keeper(p)}
            /\ Goto(p, "forget")
            /\ UNCHANGED <<tabLock, locals>>
       ELSE End(p) /\ UNCHANGED <<pane, exits>>
    /\ UNCHANGED <<records, startups, restarts, faults>>

(* The server closes the dock, but the call times out.                     *)
LoseClose(p) ==
    /\ pc[p] = "closeDock"
    /\ pane[Keeper(p)] = "dock"
    /\ Fault
    /\ pane' = [pane EXCEPT ![Keeper(p)] = "gone"]
    /\ exits' = exits \cup {Keeper(p)}
    /\ End(p)
    /\ UNCHANGED <<records, startups, restarts>>

(* persist_close(): best effort, under the lock of the tab.                *)
Forget(p) ==
    /\ pc[p] = "forget"
    /\ \/ /\ records' = Applied([kind |-> "remove", tab |-> job[p].tab], records)
          /\ UNCHANGED faults
       \/ Fault /\ UNCHANGED records
    /\ End(p)
    /\ UNCHANGED world

(* close_restored_shell(), whose errors are ignored; the record now names  *)
(* the dock.                                                               *)
CloseStale(p) ==
    /\ pc[p] = "closeStale"
    /\ IF stale[p] # NoPane /\ stale[p] # Keeper(p) /\ pane[stale[p]] \in {"shell", "titled"}
       THEN \/ /\ pane' = [pane EXCEPT ![stale[p]] = "gone"]
               /\ exits' = exits \cup {stale[p]}
               /\ UNCHANGED faults
            \/ Fault /\ UNCHANGED <<pane, exits>>
       ELSE UNCHANGED <<pane, exits, faults>>
    /\ DoneWith(p, Keeper(p))
    /\ UNCHANGED <<records, startups, restarts>>

(* replace_socket_records(): the kept records become the server's section. *)
Overlay(p) ==
    /\ pc[p] = "overlay"
    /\ \/ /\ records' = Applied([kind |-> "replace", server |-> job[p].server,
                                 kept |-> kept[p]], records)
          /\ UNCHANGED faults
       \/ Fault /\ UNCHANGED records
    /\ End(p)
    /\ UNCHANGED world

-----------------------------------------------------------------------------
(* Failures.                                                               *)

MutTimeOut(p) ==
    /\ pc[p] = "tabLock"
    /\ tabLock[job[p].tab] # NoProc
    /\ UNCHANGED vars

(* The deadline of the lock passes while another holds it.                 *)
TimeOut(p) ==
    /\ pc[p] = "tabLock"
    /\ tabLock[job[p].tab] # NoProc
    /\ Abandon(p)
    /\ UNCHANGED <<world, records, faults>>

(* A call fails without effect.                                            *)
CallFails(p) ==
    /\ pc[p] \in {"tabLock", "query", "verify", "dedupe", "opening", "closeDock"}
    /\ Fault
    /\ Abandon(p)
    /\ UNCHANGED <<world, records>>

Dies(p) ==
    /\ Running(p)
    /\ Fault
    /\ End(p)
    /\ UNCHANGED <<world, records>>

-----------------------------------------------------------------------------
Step(p) == \/ NextRecord(p) \/ LockTab(p) \/ TimeOut(p) \/ Query(p) \/ Verify(p) \/ Dedupe(p)
           \/ Decide(p) \/ OpenDock(p) \/ Persist(p) \/ Place(p) \/ CloseDock(p)
           \/ Forget(p) \/ CloseStale(p) \/ Overlay(p)

Environment == \/ \E x \in Panes : OnExit(x) \/ PaneExits(x) \/ LateOpen(x)
               \/ \E s \in Servers : Restart(s)

Next == \/ Environment
        \/ \E p \in Procs : \/ \E t \in Tabs : StartToggle(p, t)
                            \/ \E s \in Servers : StartRestore(p, s)
                            \/ Step(p)
                            \/ LoseOpen(p) \/ LoseClose(p) \/ CallFails(p) \/ Dies(p)

Spec == Init /\ [][Next]_vars

(* A hook process keeps running; each call returns within its timeout, and *)
(* polling a lock that is held ends at the deadline.                       *)
FairSpec == Spec /\ \A p \in Procs : WF_vars(Step(p))

-----------------------------------------------------------------------------
(* Properties.                                                             *)

(* Types, and who holds a lock: a process that works in a tab holds the    *)
(* lock of that tab and of no other.                                       *)
TypeOK ==
    /\ pane \in [Panes -> {"unused", "late", "shell", "titled", "dock", "gone"}]
    /\ records \in Files
    /\ exits \in SUBSET Panes
    /\ startups \in SUBSET Servers
    /\ tabLock \in [Tabs -> Procs \cup {NoProc}]
    /\ pc \in [Procs -> {"idle", "nextRecord", "tabLock", "query", "verify", "dedupe",
                          "opening", "persist", "placing", "closeDock", "forget",
                          "closeStale", "overlay"}]
    /\ job \in [Procs -> [mode : {"none", "toggle", "restore"},
                           server : Servers \cup {0}, tab : Tabs \cup {NoTab}]]
    /\ seen \in [Procs -> SUBSET Panes]
    /\ docks \in [Procs -> SUBSET Panes]
    /\ stale \in [Procs -> Panes \cup {NoPane}]
    /\ opened \in [Procs -> BOOLEAN]
    /\ todo \in [Procs -> SUBSET Tabs]
    /\ kept \in [Procs -> Files]
    /\ faults \in 0..MaxFaults
    /\ restarts \in 0..MaxRestarts
    /\ \A p \in Procs, t \in Tabs :
          tabLock[t] = p <=> job[p].tab = t /\ pc[p] # "tabLock"

(* Two hooks never leave two docks in a tab, however toggles and restores  *)
(* of that tab overlap; only an open request whose answer was lost can.    *)
OneDockPerTab == faults = 0 => \A t \in Tabs : Cardinality(DocksIn(t)) <= 1

(* The record of an open dock is never dropped, even when calls fail and   *)
(* hooks die: a record goes only after its pane has gone.                  *)
RecordStays == \A t \in Tabs : records[t] \in DocksIn(t) /\ records'[t] = NoPane
                                 => pane'[records[t]] # "dock"
LiveRecordsStay == [][RecordStays]_records

AtRest == /\ \A p \in Procs : ~Running(p)
          /\ exits = {} /\ startups = {}
          /\ \A x \in Panes : pane[x] # "late"

(* When all hooks are done, the records are exactly the open docks: what a *)
(* restart will bring back is what is open now, no dock more and none less. *)
RecordsAreDocks ==
    AtRest /\ faults = 0 =>
        \A t \in Tabs : {records[t]} \ {NoPane} = DocksIn(t)

(* Closing the shell left in a former dock's place never takes the last    *)
(* ordinary terminal of the tab.                                           *)
Remains == \A t \in Tabs : (\E x \in PanesIn(t) : IsTerminal(x)) /\ (\E p \in Procs : CloseStale(p))
                             => (\E x \in PanesIn(t) : IsTerminal(x))'
TerminalRemains == [][Remains]_pane

(* Every hook process ends although none is made to give up a lock: the    *)
(* locks of tabs and the state file are never waited for in a circle.      *)
HooksEnd == \A p \in Procs : Running(p) ~> ~Running(p)
=============================================================================
