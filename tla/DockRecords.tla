----------------------------- MODULE DockRecords -----------------------------
(***************************************************************************)
(* The contents of docks.json (src/src/host/dock_state.rs): which dock is  *)
(* open in which tab, in one section per Herdr server, and what the four   *)
(* updates of that file do to it.                                          *)
(*                                                                         *)
(* A tab stands for a (socket, workspace, tab) triple, so a file maps tabs *)
(* to dock panes and the section of a server is the part of that map that  *)
(* covers its tabs.  The width of a dock is copied along and left out.     *)
(***************************************************************************)
EXTENDS Integers, FiniteSets

CONSTANTS Servers,      \* server sockets, by their order in the file
          Tabs,         \* workspace tabs of all servers
          Panes,        \* pane identifiers, in their order
          ServerOf,     \* the server of each tab
          MaxServers,   \* sections the file may have
          MaxRecords    \* records a section may have

ASSUME ServersAssumption == Servers \subseteq Nat /\ IsFiniteSet(Servers)
ASSUME TabsAssumption == IsFiniteSet(Tabs) /\ ServerOf \in [Tabs -> Servers]
ASSUME PanesAssumption == Panes \subseteq Nat \ {0} /\ IsFiniteSet(Panes)
ASSUME CapsAssumption == MaxServers \in Nat \ {0} /\ MaxRecords \in Nat \ {0}

NoPane == 0
Files == [Tabs -> Panes \cup {NoPane}]
EmptyFile == [t \in Tabs |-> NoPane]

Section(f, s) == {t \in Tabs : ServerOf[t] = s /\ f[t] # NoPane}
Tracked(f) == {s \in Servers : Section(f, s) # {}}

(* Sections within their cap.  upsert() adds to no other, and what         *)
(* replaces a section is made from one that was loaded.                    *)
WithinCaps(f) == \A s \in Servers : Cardinality(Section(f, s)) <= MaxRecords

(* DockStateFile::clamped(): beyond the cap, the last sections in key order *)
(* are dropped.  It also cuts sections down to MaxRecords, which no file   *)
(* of this model needs: its files are WithinCaps (SectionsWithinCaps in    *)
(* DockProofs), and one that another program has written is left out.      *)
Before(f, s) == {r \in Tracked(f) : r < s}
Clamped(f) == [t \in Tabs |-> IF Cardinality(Before(f, ServerOf[t])) < MaxServers
                              THEN f[t] ELSE NoPane]

(* upsert() replaces a record always and adds one within the caps.         *)
HasRoomFor(f, t) ==
    \/ f[t] # NoPane
    \/ ServerOf[t] \notin Tracked(f) /\ Cardinality(Tracked(f)) < MaxServers
    \/ /\ ServerOf[t] \in Tracked(f)
       /\ Cardinality(Section(f, ServerOf[t])) < MaxRecords

-----------------------------------------------------------------------------
(* The updates, as requests made to with_locked_state().                   *)

SectionsOf(s) == {f \in Files : WithinCaps(f) /\ \A t \in Tabs : ServerOf[t] # s => f[t] = NoPane}

Requests ==
    [kind : {"upsert"}, tab : Tabs, pane : Panes]
    \cup [kind : {"remove"}, tab : Tabs]
    \cup [kind : {"prune"}, server : Servers, pane : Panes]
    \cup UNION {[kind : {"replace"}, server : {s}, kept : SectionsOf(s)] : s \in Servers}

Result(r, f) ==
    CASE r.kind = "upsert"  -> [f EXCEPT ![r.tab] = r.pane]
      [] r.kind = "remove"  -> [f EXCEPT ![r.tab] = NoPane]
      [] r.kind = "prune"   -> [t \in Tabs |-> IF ServerOf[t] = r.server /\ f[t] = r.pane
                                               THEN NoPane ELSE f[t]]
      [] r.kind = "replace" -> [t \in Tabs |-> IF ServerOf[t] = r.server
                                               THEN r.kept[t] ELSE f[t]]

(* Whether the update writes the file; a refused upsert() does not.        *)
Writes(r, f) ==
    CASE r.kind = "upsert"  -> HasRoomFor(f, r.tab)
      [] r.kind = "replace" -> TRUE
      [] OTHER              -> Result(r, f) # f

(* What the file holds after the update.                                   *)
Applied(r, f) == IF Writes(r, Clamped(f)) THEN Result(r, Clamped(f)) ELSE f
=============================================================================
