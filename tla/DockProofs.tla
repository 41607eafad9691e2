--------------------------- MODULE DockProofs -------------------------------
(***************************************************************************)
(* Machine-checked proofs about the hook processes of the dock, for any    *)
(* number of processes, servers, tabs and panes.                           *)
(*                                                                         *)
(* About DockStateFile: for any caps, docks.json is only ever replaced by  *)
(* one whole update of its latest contents.                                *)
(*                                                                         *)
(* About DockLauncher, which takes that for one step: two hooks never      *)
(* leave two docks in a tab, restoring a dock never closes the last        *)
(* terminal of a tab, and the file names exactly the open docks when all   *)
(* hooks are done.                                                         *)
(***************************************************************************)
EXTENDS DockStateFile, TLAPS, FiniteSetTheorems, WellFoundedInduction

(***************************************************************************)
(* The updates map files to files.                                         *)
(***************************************************************************)

LEMMA ClampedFile ==
  ASSUME NEW f \in Files
  PROVE  Clamped(f) \in Files
BY DEF Clamped, Files

LEMMA ResultFile ==
  ASSUME NEW r \in Requests, NEW f \in Files
  PROVE  Result(r, f) \in Files
<1>1. CASE r \in [kind : {"upsert"}, tab : Tabs, pane : Panes]
  BY <1>1 DEF Result, Files
<1>2. CASE r \in [kind : {"remove"}, tab : Tabs]
  BY <1>2 DEF Result, Files
<1>3. CASE r \in [kind : {"prune"}, server : Servers, pane : Panes]
  BY <1>3 DEF Result, Files
<1>4. CASE r \in UNION {[kind : {"replace"}, server : {s}, kept : SectionsOf(s)] : s \in Servers}
  <2>1. r.kind = "replace" /\ r.kept \in Files
    BY <1>4 DEF SectionsOf
  <2>2. Result(r, f) = [t \in Tabs |-> IF ServerOf[t] = r.server THEN r.kept[t] ELSE f[t]]
    BY <2>1 DEF Result
  <2> QED
    BY <2>1, <2>2 DEF Files
<1> QED
  BY <1>1, <1>2, <1>3, <1>4 DEF Requests

LEMMA AnEmptyFile == EmptyFile \in Files
BY DEF EmptyFile, Files

(***************************************************************************)
(* Types and mutual exclusion.                                             *)
(***************************************************************************)

LEMMA LeaveTypes ==
  ASSUME TypeOK, NEW p \in Procs, Leave(p)
  PROVE  /\ lock' \in Procs \cup {NoProc}
         /\ pc' \in [Procs -> {"idle", "locking", "loading", "truncating", "writing", "renaming"}]
         /\ request' \in [Procs -> Requests \cup {NoRequest}]
         /\ \A q \in Procs : request'[q] = NoRequest <=> pc'[q] = "idle"
         /\ buf' \in [Procs -> Files]
         /\ pc'[p] = "idle"
         /\ \A q \in Procs : q # p => /\ pc'[q] = pc[q]
                                      /\ request'[q] = request[q]
                                      /\ buf'[q] = buf[q]
                                      /\ lock = q => lock' = q
<1>1. /\ pc' = [pc EXCEPT ![p] = "idle"]
      /\ request' = [request EXCEPT ![p] = NoRequest]
      /\ buf' = [buf EXCEPT ![p] = EmptyFile]
      /\ lock' = IF lock = p THEN NoProc ELSE lock
  BY DEF Leave
<1>2. /\ pc'[p] = "idle"
      /\ \A q \in Procs : q # p => pc'[q] = pc[q] /\ request'[q] = request[q] /\ buf'[q] = buf[q]
  BY <1>1 DEF TypeOK
<1>3. request' \in [Procs -> Requests \cup {NoRequest}] /\ buf' \in [Procs -> Files]
  BY <1>1, AnEmptyFile DEF TypeOK
<1> QED
  BY <1>1, <1>2, <1>3 DEF TypeOK

(* Under mutual exclusion, the one who holds docks.lock is alone past it.  *)
LEMMA Alone ==
  ASSUME Exclusive, NEW p \in Procs, NEW q \in Procs, lock # q
  PROVE  pc[q] # "loading" /\ ~Writing(q)
BY DEF Exclusive

LEMMA LoadEffect ==
  ASSUME TypeOK, NEW p \in Procs, Load(p), Writes(request[p], Loaded)
  PROVE  /\ buf' = [buf EXCEPT ![p] = Result(request[p], Clamped(disk))]
         /\ pc' = [pc EXCEPT ![p] = "truncating"]
         /\ UNCHANGED <<disk, tmp, lock, request>>
         /\ request[p] \in Requests
         /\ Result(request[p], Clamped(disk)) \in Files
         /\ Writes(request[p], Clamped(disk))
<1>1. Loaded = Clamped(disk)
  BY MarksAssumption DEF Loaded, TypeOK
<1>2. request[p] \in Requests
  BY DEF Load, TypeOK
<1>3. Clamped(disk) \in Files
  BY ClampedFile DEF TypeOK
<1>4. Result(request[p], Clamped(disk)) \in Files
  BY <1>2, <1>3, ResultFile
<1> QED
  BY <1>1, <1>2, <1>4 DEF Load, Goto

LEMMA TypeStep ==
  ASSUME TypeOK, Exclusive, [Next]_vars
  PROVE  TypeOK'
<1>1. ASSUME NEW p \in Procs, NEW r \in Requests, Submit(p, r)
      PROVE  TypeOK'
  BY <1>1, MarksAssumption DEF Submit, Goto, TypeOK
<1>2. ASSUME NEW p \in Procs, Acquire(p)
      PROVE  TypeOK'
  BY <1>2 DEF Acquire, Goto, TypeOK
<1>3. ASSUME NEW p \in Procs, Load(p)
      PROVE  TypeOK'
  <2>1. CASE Writes(request[p], Loaded)
    <3>1. pc[p] = "loading"
      BY <1>3 DEF Load
    <3> QED
      BY <1>3, <2>1, <3>1, LoadEffect DEF TypeOK
  <2>2. CASE ~Writes(request[p], Loaded)
    <3>1. Leave(p) /\ UNCHANGED <<disk, tmp>>
      BY <1>3, <2>2 DEF Load
    <3> QED
      BY <3>1, LeaveTypes DEF TypeOK
  <2> QED
    BY <2>1, <2>2
<1>4. ASSUME NEW p \in Procs, Truncate(p) \/ Write(p)
      PROVE  TypeOK'
  BY <1>4 DEF Truncate, Write, Goto, TypeOK
<1>5. ASSUME NEW p \in Procs, Rename(p)
      PROVE  TypeOK'
  <2>1. tmp \in Files
    BY <1>5 DEF Rename, Exclusive, TypeOK
  <2> QED
    BY <1>5, <2>1, LeaveTypes DEF Rename, TypeOK
<1>6. ASSUME NEW p \in Procs, TimeOut(p) \/ Fail(p) \/ Crash(p)
      PROVE  TypeOK'
  <2>1. Leave(p) /\ UNCHANGED <<disk, tmp>>
    BY <1>6 DEF TimeOut, Fail, Crash
  <2> QED
    BY <2>1, LeaveTypes DEF TypeOK
<1>7. CASE UNCHANGED vars
  BY <1>7 DEF vars, TypeOK
<1> QED
  BY <1>1, <1>2, <1>3, <1>4, <1>5, <1>6, <1>7 DEF Next, Step

LEMMA ExclusiveStep ==
  ASSUME TypeOK, Exclusive, [Next]_vars
  PROVE  Exclusive'
(* A process that leaves the file as it is disturbs nobody.                *)
<1>0. ASSUME NEW p \in Procs, Leave(p), UNCHANGED <<disk, tmp>>
      PROVE  Exclusive'
  BY <1>0, LeaveTypes DEF Exclusive, Writing
<1>1. ASSUME NEW p \in Procs, NEW r \in Requests, Submit(p, r)
      PROVE  Exclusive'
  BY <1>1 DEF Submit, Goto, Exclusive, Writing, TypeOK
<1>2. ASSUME NEW p \in Procs, Acquire(p)
      PROVE  Exclusive'
  <2>1. \A q \in Procs : pc[q] # "loading" /\ ~Writing(q)
    BY <1>2, ProcsAssumption DEF Acquire, Exclusive
  <2> QED
    BY <1>2, <2>1 DEF Acquire, Goto, Exclusive, Writing, TypeOK
<1>3. ASSUME NEW p \in Procs, Load(p)
      PROVE  Exclusive'
  <2>1. CASE Writes(request[p], Loaded)
    <3>1. lock = p /\ \A q \in Procs : q # p => pc[q] # "loading" /\ ~Writing(q)
      BY <1>3 DEF Load, Exclusive
    <3>2. /\ pc'[p] = "truncating" /\ buf'[p] = Result(request[p], Clamped(disk))
          /\ \A q \in Procs : q # p => pc'[q] = pc[q] /\ buf'[q] = buf[q]
      BY <1>3, <2>1, LoadEffect DEF TypeOK
    <3>3. UNCHANGED <<disk, tmp, lock, request>> /\ Writes(request[p], Clamped(disk))
      BY <1>3, <2>1, LoadEffect
    <3> QED
      BY <3>1, <3>2, <3>3 DEF Exclusive, Writing
  <2>2. CASE ~Writes(request[p], Loaded)
    BY <1>0, <1>3, <2>2 DEF Load
  <2> QED
    BY <2>1, <2>2
<1>4. ASSUME NEW p \in Procs, Truncate(p) \/ Write(p)
      PROVE  Exclusive'
  <2>1. lock = p /\ \A q \in Procs : q # p => pc[q] # "loading" /\ ~Writing(q)
    BY <1>4 DEF Truncate, Write, Exclusive, Writing
  <2>2. /\ UNCHANGED <<disk, lock, request, buf>>
        /\ \/ pc'[p] = "writing"
           \/ pc'[p] = "renaming" /\ tmp' = buf[p]
        /\ \A q \in Procs : q # p => pc'[q] = pc[q]
    BY <1>4 DEF Truncate, Write, Goto, TypeOK
  <2>3. Writing(p)
    BY <1>4 DEF Truncate, Write, Writing
  <2> QED
    BY <2>1, <2>2, <2>3 DEF Exclusive, Writing
<1>5. ASSUME NEW p \in Procs, Rename(p)
      PROVE  Exclusive'
  <2>1. \A q \in Procs : q # p => pc[q] # "loading" /\ ~Writing(q)
    BY <1>5 DEF Rename, Exclusive, Writing
  <2>2. pc'[p] = "idle" /\ \A q \in Procs : q # p => pc'[q] = pc[q]
    BY <1>5, LeaveTypes DEF Rename
  <2> QED
    BY <2>1, <2>2 DEF Exclusive, Writing
<1>6. ASSUME NEW p \in Procs, TimeOut(p) \/ Fail(p) \/ Crash(p)
      PROVE  Exclusive'
  BY <1>0, <1>6 DEF TimeOut, Fail, Crash
<1>7. CASE UNCHANGED vars
  BY <1>7 DEF vars, Exclusive, Writing
<1> QED
  BY <1>1, <1>2, <1>3, <1>4, <1>5, <1>6, <1>7 DEF Next, Step

IInv == TypeOK /\ Exclusive

LEMMA Invariance == Spec => []IInv
<1>1. Init => IInv
  BY AnEmptyFile DEF Init, IInv, TypeOK, Exclusive, Writing
<1>2. IInv /\ [Next]_vars => IInv'
  BY TypeStep, ExclusiveStep DEF IInv
<1> QED
  BY <1>1, <1>2, PTL DEF Spec

(* docks.json always holds a whole file, for every reader at every time,   *)
(* and every variable keeps its type, whatever dies where.                 *)
THEOREM StateFileTypes == Spec => []TypeOK
BY Invariance, PTL DEF IInv

(* Only the holder of docks.lock is past it, and what it is about to       *)
(* rename is its update of the records as they are now.                    *)
THEOREM StateFileExclusive == Spec => []Exclusive
BY Invariance, PTL DEF IInv

(***************************************************************************)
(* Refinement.                                                             *)
(***************************************************************************)

(* The abstract module's copies of the operators are the same operators.   *)
LEMMA SameRecords ==
  /\ Atomic!EmptyFile = EmptyFile
  /\ Atomic!Requests = Requests
  /\ \A r, f : Atomic!Applied(r, f) = Applied(r, f)
<1>1. Atomic!EmptyFile = EmptyFile
  BY DEF Atomic!EmptyFile, EmptyFile, Atomic!NoPane, NoPane
<1>3. \A f, s : Atomic!Section(f, s) = Section(f, s)
  BY DEF Atomic!Section, Section, Atomic!NoPane, NoPane
<1>5. \A S : Atomic!Cardinality(S) = Cardinality(S)
  BY DEF Atomic!Cardinality, Cardinality
<1>2. Atomic!Requests = Requests
  <2>1. \A f : Atomic!WithinCaps(f) <=> WithinCaps(f)
    BY <1>3, <1>5 DEF Atomic!WithinCaps, WithinCaps
  <2> QED
    BY <2>1 DEF Atomic!Requests, Requests, Atomic!SectionsOf, SectionsOf, Atomic!Files, Files,
                Atomic!NoPane, NoPane
<1>4. \A f : Atomic!Tracked(f) = Tracked(f)
  BY <1>3 DEF Atomic!Tracked, Tracked
<1>6. \A f, t : Atomic!HasRoomFor(f, t) <=> HasRoomFor(f, t)
  BY <1>3, <1>4, <1>5 DEF Atomic!HasRoomFor, HasRoomFor, Atomic!NoPane, NoPane
<1>7. \A f, s : Atomic!Before(f, s) = Before(f, s)
  BY <1>4 DEF Atomic!Before, Before
<1>8. ASSUME NEW f PROVE Atomic!Clamped(f) = Clamped(f)
  BY <1>7, <1>5 DEF Atomic!Clamped, Clamped, Atomic!NoPane, NoPane
<1>9. ASSUME NEW r, NEW f PROVE Atomic!Result(r, f) = Result(r, f)
  BY DEF Atomic!Result, Result, Atomic!NoPane, NoPane
<1>10. ASSUME NEW r, NEW f PROVE Atomic!Writes(r, f) <=> Writes(r, f)
  BY <1>6, <1>9 DEF Atomic!Writes, Writes
<1>11. ASSUME NEW r, NEW f PROVE Atomic!Applied(r, f) = Applied(r, f)
  BY <1>9, <1>10, <1>8 DEF Atomic!Applied, Applied
<1> QED
  BY <1>1, <1>2, <1>11

LEMMA StepApplies ==
  ASSUME IInv, [Next]_vars
  PROVE  [Atomic!Next]_(Atomic!vars)
<1> USE DEF IInv
(* Leaving without a rename is giving the update up.                       *)
<1>0. ASSUME NEW p \in Procs, Leave(p), disk' = disk, pc[p] # "idle"
      PROVE  Atomic!Next
  <2>1. request[p] # NoRequest
    BY <1>0, MarksAssumption DEF TypeOK
  <2>2. Atomic!GiveUp(p)
    BY <1>0, <2>1 DEF Leave, Atomic!GiveUp
  <2> QED
    BY <2>2 DEF Atomic!Next
<1>1. ASSUME NEW p \in Procs, NEW r \in Requests, Submit(p, r)
      PROVE  Atomic!Next
  <2>1. Atomic!Submit(p, r)
    BY <1>1 DEF Submit, Atomic!Submit, TypeOK
  <2> QED
    BY <2>1, SameRecords DEF Atomic!Next
<1>2. ASSUME NEW p \in Procs, Acquire(p) \/ Truncate(p) \/ Write(p)
      PROVE  UNCHANGED <<disk, request>>
  BY <1>2 DEF Acquire, Truncate, Write
<1>3. ASSUME NEW p \in Procs, Load(p)
      PROVE  [Atomic!Next]_<<disk, request>>
  <2>1. CASE Writes(request[p], Loaded)
    BY <1>3, <2>1, LoadEffect
  <2>2. CASE ~Writes(request[p], Loaded)
    BY <1>0, <1>3, <2>2 DEF Load
  <2> QED
    BY <2>1, <2>2
<1>4. ASSUME NEW p \in Procs, Rename(p)
      PROVE  Atomic!Next
  <2>1. /\ tmp = Result(request[p], Clamped(disk))
        /\ Writes(request[p], Clamped(disk))
    BY <1>4 DEF Rename, Exclusive, Writing
  <2>2. disk' = Applied(request[p], disk)
    BY <1>4, <2>1 DEF Rename, Applied
  <2>3. request[p] # NoRequest
    BY <1>4 DEF Rename, TypeOK
  <2>4. Atomic!Apply(p)
    BY <1>4, <2>2, <2>3, SameRecords DEF Rename, Leave, Atomic!Apply
  <2> QED
    BY <2>4 DEF Atomic!Next
<1>5. ASSUME NEW p \in Procs, TimeOut(p) \/ Fail(p) \/ Crash(p)
      PROVE  Atomic!Next
  BY <1>0, <1>5 DEF TimeOut, Fail, Crash
<1>6. CASE UNCHANGED vars
  BY <1>6 DEF vars, Atomic!vars
<1> QED
  BY <1>1, <1>2, <1>3, <1>4, <1>5, <1>6 DEF Next, Step, Atomic!vars

(* For any number of processes, the file protocol implements atomic        *)
(* updates: no update is ever lost under another one, of any server.       *)
THEOREM StateFileRefines == Spec => ImplementsAtomic
<1>1. Init => Atomic!Init
  BY SameRecords DEF Init, Atomic!Init
<1>2. IInv /\ [Next]_vars => [Atomic!Next]_(Atomic!vars)
  BY StepApplies
<1> QED
  BY <1>1, <1>2, Invariance, PTL DEF Spec, ImplementsAtomic, Atomic!Spec

(***************************************************************************)
(* The cap of a section.                                                   *)
(***************************************************************************)

LEMMA SectionSize ==
  ASSUME NEW f, NEW s
  PROVE  IsFiniteSet(Section(f, s)) /\ Cardinality(Section(f, s)) \in Nat
<1>1. Section(f, s) \subseteq Tabs
  BY DEF Section
<1> QED
  BY <1>1, TabsAssumption, FS_Subset, FS_CardinalityType

LEMMA SmallerSections ==
  ASSUME NEW f, NEW g, WithinCaps(g), \A s \in Servers : Section(f, s) \subseteq Section(g, s)
  PROVE  WithinCaps(f)
<1> SUFFICES ASSUME NEW s \in Servers
             PROVE  Cardinality(Section(f, s)) <= MaxRecords
  BY DEF WithinCaps
<1>1. Cardinality(Section(f, s)) <= Cardinality(Section(g, s))
  BY SectionSize, FS_Subset
<1>2. Cardinality(Section(g, s)) <= MaxRecords
  BY DEF WithinCaps
<1> QED
  BY <1>1, <1>2, SectionSize, CapsAssumption

LEMMA UpdateKeepsCaps ==
  ASSUME NEW r \in Requests, NEW g \in Files, WithinCaps(g), Writes(r, g)
  PROVE  WithinCaps(Result(r, g))
<1>1. CASE r \in [kind : {"upsert"}, tab : Tabs, pane : Panes]
  <2> DEFINE t == r.tab
             f == [g EXCEPT ![t] = r.pane]
  <2>1. r.kind = "upsert" /\ t \in Tabs /\ r.pane \in Panes /\ r.pane # NoPane
    BY <1>1, PanesAssumption DEF NoPane
  <2>2. Result(r, g) = f /\ HasRoomFor(g, t)
    BY <2>1 DEF Result, Writes
  <2>3. \A u \in Tabs : f[u] = IF u = t THEN r.pane ELSE g[u]
    BY DEF Files
  <2>4. ASSUME NEW s \in Servers
        PROVE  Cardinality(Section(f, s)) <= MaxRecords
    <3>1. Cardinality(Section(g, s)) <= MaxRecords
      BY DEF WithinCaps
    <3>2. CASE ServerOf[t] # s \/ g[t] # NoPane
      <4>1. Section(f, s) = Section(g, s)
        BY <2>1, <2>3, <3>2 DEF Section
      <4> QED BY <3>1, <4>1
    <3>3. CASE ServerOf[t] = s /\ g[t] = NoPane
      <4>1. Section(f, s) = Section(g, s) \cup {t} /\ t \notin Section(g, s)
        BY <2>1, <2>3, <3>3 DEF Section
      <4>2. Cardinality(Section(f, s)) = Cardinality(Section(g, s)) + 1
        BY <4>1, SectionSize, FS_AddElement
      <4>3. CASE s \in Tracked(g)
        <5>1. Cardinality(Section(g, s)) < MaxRecords
          BY <2>2, <3>3, <4>3 DEF HasRoomFor
        <5> QED BY <4>2, <5>1, SectionSize, CapsAssumption
      <4>4. CASE s \notin Tracked(g)
        <5>1. Cardinality(Section(g, s)) = 0
          BY <4>4, FS_EmptySet DEF Tracked
        <5> QED BY <4>2, <5>1, CapsAssumption
      <4> QED BY <4>3, <4>4
    <3> QED BY <3>2, <3>3
  <2> QED BY <2>2, <2>4 DEF WithinCaps
<1>2. CASE r \in [kind : {"remove"}, tab : Tabs]
  <2>1. Result(r, g) = [g EXCEPT ![r.tab] = NoPane]
    BY <1>2 DEF Result
  <2>2. \A s \in Servers : Section(Result(r, g), s) \subseteq Section(g, s)
    BY <2>1 DEF Section, Files
  <2> QED BY <2>2, SmallerSections
<1>3. CASE r \in [kind : {"prune"}, server : Servers, pane : Panes]
  <2>1. Result(r, g) = [t \in Tabs |-> IF ServerOf[t] = r.server /\ g[t] = r.pane
                                       THEN NoPane ELSE g[t]]
    BY <1>3 DEF Result
  <2>2. \A s \in Servers : Section(Result(r, g), s) \subseteq Section(g, s)
    BY <2>1 DEF Section, Files
  <2> QED BY <2>2, SmallerSections
<1>4. CASE r \in UNION {[kind : {"replace"}, server : {s}, kept : SectionsOf(s)] : s \in Servers}
  <2>1. r.kind = "replace" /\ WithinCaps(r.kept)
    BY <1>4 DEF SectionsOf
  <2>2. Result(r, g) = [t \in Tabs |-> IF ServerOf[t] = r.server THEN r.kept[t] ELSE g[t]]
    BY <2>1 DEF Result
  <2>3. ASSUME NEW s \in Servers
        PROVE  Section(Result(r, g), s) = Section(IF s = r.server THEN r.kept ELSE g, s)
    BY <2>2 DEF Section
  <2> QED BY <2>1, <2>3 DEF WithinCaps
<1> QED
  BY <1>1, <1>2, <1>3, <1>4 DEF Requests

(* No section of docks.json is ever longer than its cap, so that what      *)
(* clamped() would cut off does not arise from the updates themselves      *)
(* (upsert() and replace_socket_records()).                                *)
THEOREM SectionsWithinCaps == Spec => []WithinCaps(disk)
<1>1. Init => WithinCaps(disk)
  <2> SUFFICES ASSUME Init, NEW s \in Servers
               PROVE  Cardinality(Section(disk, s)) <= MaxRecords
    BY DEF WithinCaps
  <2>1. Section(disk, s) = {}
    BY DEF Init, EmptyFile, Section
  <2> QED BY <2>1, FS_EmptySet, CapsAssumption
<1>2. IInv /\ WithinCaps(disk) /\ [Next]_vars => WithinCaps(disk)'
  <2> SUFFICES ASSUME IInv, WithinCaps(disk), [Next]_vars
               PROVE  WithinCaps(disk)'
    OBVIOUS
  <2>1. ASSUME NEW p \in Procs, Rename(p)
        PROVE  WithinCaps(disk')
    <3>1. /\ disk' = Result(request[p], Clamped(disk))
          /\ Writes(request[p], Clamped(disk)) /\ request[p] \in Requests
      BY <2>1 DEF Rename, IInv, TypeOK, Exclusive, Writing
    <3>2. Clamped(disk) \in Files
      BY ClampedFile DEF IInv, TypeOK
    <3>3. \A s \in Servers : Section(Clamped(disk), s) \subseteq Section(disk, s)
      BY DEF Section, Clamped
    <3>4. WithinCaps(Clamped(disk))
      BY <3>3, SmallerSections
    <3> QED BY <3>1, <3>2, <3>4, UpdateKeepsCaps
  <2>2. CASE UNCHANGED disk
    BY <2>2 DEF WithinCaps, Section
  <2>3. (\E p \in Procs : Rename(p)) \/ UNCHANGED disk
    BY DEF Next, Step, Submit, Acquire, TimeOut, Load, Truncate, Write, Fail, Crash, vars
  <2> QED BY <2>1, <2>2, <2>3 DEF WithinCaps, Section
<1> QED
  BY <1>1, <1>2, Invariance, PTL DEF Spec

-----------------------------------------------------------------------------
(***************************************************************************)
(* The hook processes that use the file: DockLauncher, on variables of its *)
(* own but over the same servers, tabs, panes and processes.               *)
(***************************************************************************)
CONSTANTS NoTab, HomeOf, Terminals, Mortal, RestoreOnStartup, UserWaits, MaxFaults, MaxRestarts
VARIABLES pane, records, exits, startups, tabLock, place, job, seen, docks, stale, opened, todo,
          kept, faults, restarts

La == INSTANCE DockLauncher WITH pc <- place

(* The instance has the operators of the library.                          *)
LEMMA LauncherOperators ==
  \A S : La!Cardinality(S) = Cardinality(S) /\ (La!IsFiniteSet(S) <=> IsFiniteSet(S))
<1>1. \A S : La!Cardinality(S) = Cardinality(S)
  BY DEF La!Cardinality, Cardinality
<1>2. \A S : La!IsFiniteSet(S) <=> IsFiniteSet(S)
  BY DEF La!IsFiniteSet, IsFiniteSet
<1> QED
  BY <1>1, <1>2

(* What the constants stand for; the theorems assume it.                   *)
LauncherConstants ==
    /\ HomeOf \in [Panes -> Tabs]
    /\ Terminals \subseteq Panes
    /\ NoTab \notin Tabs
    /\ NoProc \notin Procs
    /\ MaxFaults \in Nat
    /\ MaxRestarts \in Nat

(***************************************************************************)
(* Sets of panes: they have a first, and one of more than one has two.     *)
(***************************************************************************)

LEMMA FirstPane ==
  ASSUME NEW S \in SUBSET Panes, S # {}
  PROVE  La!Min(S) \in S
<1>1. S \subseteq Nat
  BY PanesAssumption
<1>2. PICK x \in S : \A y \in S : ~(<<y, x>> \in OpToRel(<, Nat))
  BY <1>1, WFMin, NatLessThanWellFounded
<1>3. \A y \in S : x <= y
  <2>1. TAKE y \in S
  <2>2. x \in Nat /\ y \in Nat
    BY <1>1
  <2>3. ~(y < x)
    BY <1>2, <2>2 DEF OpToRel
  <2> QED
    BY <2>2, <2>3
<1> QED
  BY <1>3 DEF La!Min

LEMMA AtMostOne ==
  ASSUME NEW S \in SUBSET Panes, \A x, y \in S : x = y
  PROVE  La!Cardinality(S) <= 1
<1>1. CASE S = {}
  BY <1>1, FS_EmptySet, LauncherOperators
<1>2. CASE S # {}
  <2>1. PICK x \in S : S = {x}
    BY <1>2
  <2> QED
    BY <2>1, FS_Singleton, LauncherOperators
<1> QED
  BY <1>1, <1>2

LEMMA AnotherPane ==
  ASSUME NEW S \in SUBSET Panes, La!Cardinality(S) > 1, NEW k
  PROVE  S \ {k} # {}
<1>1. SUFFICES ASSUME S \subseteq {k} PROVE FALSE
  OBVIOUS
<1>2. La!Cardinality(S) <= 1
  BY <1>1, AtMostOne
<1>3. La!Cardinality(S) \in Nat
  BY PanesAssumption, FS_Subset, FS_CardinalityType, LauncherOperators
<1> QED
  BY <1>2, <1>3

(***************************************************************************)
(* Types, by who changes what: the world and the file (Globals), what the  *)
(* hook processes know (Locals), and where a process is in its work        *)
(* (Where).                                                                *)
(***************************************************************************)

Globals ==
    /\ pane \in [Panes -> {"unused", "late", "shell", "titled", "dock", "gone"}]
    /\ records \in La!Files
    /\ exits \in SUBSET Panes
    /\ startups \in SUBSET Servers
    /\ faults \in 0..MaxFaults
    /\ restarts \in 0..MaxRestarts

Places == {"idle", "nextRecord", "tabLock", "query", "verify", "dedupe", "opening", "persist",
           "placing", "closeDock", "forget", "closeStale", "overlay"}
InTab == Places \ {"idle", "nextRecord", "overlay"}     \* it works in a tab
Jobs == [mode : {"none", "toggle", "restore"}, server : Servers \cup {0}, tab : Tabs \cup {NoTab}]

Locals ==
    /\ place \in [Procs -> Places]
    /\ job \in [Procs -> Jobs]
    /\ seen \in [Procs -> SUBSET Panes]
    /\ docks \in [Procs -> SUBSET Panes]
    /\ stale \in [Procs -> Panes \cup {La!NoPane}]
    /\ opened \in [Procs -> BOOLEAN]
    /\ todo \in [Procs -> SUBSET Tabs]
    /\ kept \in [Procs -> La!Files]

Locks == /\ tabLock \in [Tabs -> Procs \cup {NoProc}]
         /\ \A p \in Procs, t \in Tabs :
                tabLock[t] = p <=> job[p].tab = t /\ place[p] # "tabLock"

Where ==
    \A p \in Procs :
        /\ job[p].tab \in Tabs <=> place[p] \in InTab
        /\ place[p] \in {"persist", "closeDock", "closeStale"} => docks[p] # {}
        /\ job[p].mode = "restore" =>
               /\ \A t \in todo[p] : ServerOf[t] = job[p].server
               /\ job[p].tab \in Tabs => ServerOf[job[p].tab] = job[p].server

LEMMA TypesInParts == La!TypeOK <=> Globals /\ Locals /\ Locks
BY DEF La!TypeOK, Globals, Locals, Locks, Places, Jobs

(* The updates hooks make map files to files.                              *)
LEMMA AppliedFile ==
  ASSUME NEW r, NEW f \in La!Files,
         \/ r.kind = "upsert" /\ r.tab \in Tabs /\ r.pane \in Panes
         \/ r.kind \in {"remove", "prune"}
         \/ r.kind = "replace" /\ r.kept \in La!Files
  PROVE  La!Applied(r, f) \in La!Files
<1>1. La!Clamped(f) \in La!Files
  BY DEF La!Clamped, La!Files
<1>2. ASSUME NEW g \in La!Files PROVE La!Result(r, g) \in La!Files
  <2>1. CASE r.kind = "upsert" /\ r.tab \in Tabs /\ r.pane \in Panes
    BY <2>1 DEF La!Result, La!Files
  <2>2. CASE r.kind = "remove"
    BY <2>2 DEF La!Result, La!Files
  <2>3. CASE r.kind = "prune"
    BY <2>3 DEF La!Result, La!Files
  <2>4. CASE r.kind = "replace" /\ r.kept \in La!Files
    BY <2>4 DEF La!Result, La!Files
  <2> QED
    BY <2>1, <2>2, <2>3, <2>4
<1> QED
  BY <1>1, <1>2 DEF La!Applied

(* The parts of the invariant that one process cannot disturb in another.  *)
Knowledge(p) == <<place[p], job[p], seen[p], docks[p], stale[p], opened[p], todo[p], kept[p]>>

(* The process is done with its tab, and no other process notices.         *)
Leaves(p) == /\ place'[p] \notin InTab
             /\ stale'[p] = La!NoPane
             /\ \A q \in Procs \ {p} : Knowledge(q)' = Knowledge(q)

LEMMA EndEffect ==
  ASSUME LauncherConstants, Locals, Locks, Where, NEW p \in Procs, La!End(p)
  PROVE  Locals' /\ Locks' /\ Where' /\ Leaves(p)
<1> USE DEF La!End, La!Goto, La!Unlock, La!ForgetTab
<1>1. La!NoJob \in Jobs /\ La!NoJob.tab = NoTab /\ La!NoJob.mode = "none"
  BY DEF Jobs, La!NoJob
<1>2. La!EmptyFile \in La!Files
  BY DEF La!EmptyFile, La!Files
<1>3. Locals'
  BY <1>1, <1>2 DEF Locals, Places
<1>4. \A q \in Procs \ {p} : Knowledge(q)' = Knowledge(q)
  BY DEF Knowledge, Locals
<1>5. job'[p] = La!NoJob /\ place'[p] = "idle" /\ todo'[p] = {} /\ stale'[p] = La!NoPane
  BY DEF Locals
<1>6. Locks'
  <2>1. tabLock' \in [Tabs -> Procs \cup {NoProc}]
    BY DEF Locks
  <2>2. ASSUME NEW q \in Procs, NEW t \in Tabs
        PROVE  tabLock'[t] = q <=> job'[q].tab = t /\ place'[q] # "tabLock"
    <3>1. tabLock'[t] = IF tabLock[t] = p THEN NoProc ELSE tabLock[t]
      BY DEF Locks
    <3>2. CASE q = p
      BY <3>1, <3>2, <1>1, <1>5 DEF LauncherConstants
    <3>3. CASE q # p
      <4>1. job'[q] = job[q] /\ place'[q] = place[q]
        BY <3>3 DEF Locals
      <4> QED
        BY <4>1, <3>1, <3>3 DEF Locks, LauncherConstants
    <3> QED
      BY <3>2, <3>3
  <2> QED
    BY <2>1, <2>2 DEF Locks
<1>7. Where'
  <2> SUFFICES ASSUME NEW q \in Procs
               PROVE  /\ job'[q].tab \in Tabs <=> place'[q] \in InTab
                      /\ place'[q] \in {"persist", "closeDock", "closeStale"} => docks'[q] # {}
                      /\ job'[q].mode = "restore" =>
                            /\ \A t \in todo'[q] : ServerOf[t] = job'[q].server
                            /\ job'[q].tab \in Tabs => ServerOf[job'[q].tab] = job'[q].server
    BY DEF Where
  <2>1. CASE q = p
    BY <2>1, <1>1, <1>5 DEF LauncherConstants, InTab
  <2>2. CASE q # p
    BY <2>2, <1>4 DEF Where, Knowledge
  <2> QED
    BY <2>1, <2>2
<1> QED
  BY <1>1, <1>3, <1>4, <1>5, <1>6, <1>7 DEF Leaves, InTab

LEMMA DoneWithEffect ==
  ASSUME LauncherConstants, Locals, Locks, Where, NEW p \in Procs, place[p] \in InTab,
         NEW x \in Panes \cup {La!NoPane}, La!DoneWith(p, x)
  PROVE  Locals' /\ Locks' /\ Where' /\ Leaves(p)
<1> USE DEF La!DoneWith, La!Goto, La!Unlock, La!ForgetTab
<1>1. job[p].tab \in Tabs /\ job[p] \in Jobs
  BY DEF Where, Locals
<1>2. job' = [job EXCEPT ![p] = [job[p] EXCEPT !.tab = NoTab]]
  OBVIOUS
<1>3. [job[p] EXCEPT !.tab = NoTab] \in Jobs
  BY <1>1 DEF Jobs
<1>4. /\ job'[p].tab = NoTab
      /\ job'[p].mode = job[p].mode
      /\ job'[p].server = job[p].server
  BY <1>1, <1>2 DEF Locals, Jobs
<1>5. /\ place'[p] \in {"overlay", "nextRecord"}
      /\ todo'[p] = todo[p] \ {job[p].tab}
      /\ stale'[p] = La!NoPane
  BY DEF Locals
<1>6. Locals'
  <2>1. place' \in [Procs -> Places]
    BY DEF Locals, Places
  <2>2. job' \in [Procs -> Jobs]
    BY <1>2, <1>3 DEF Locals
  <2>3. kept' \in [Procs -> La!Files]
    <3>1. kept' = [kept EXCEPT ![p] = [kept[p] EXCEPT ![job[p].tab] = x]]
      OBVIOUS
    <3>2. [kept[p] EXCEPT ![job[p].tab] = x] \in La!Files
      BY <1>1 DEF Locals, La!Files
    <3> QED
      BY <3>1, <3>2 DEF Locals
  <2>4. todo' \in [Procs -> SUBSET Tabs]
    BY DEF Locals
  <2>5. /\ seen' \in [Procs -> SUBSET Panes]
        /\ docks' \in [Procs -> SUBSET Panes]
        /\ stale' \in [Procs -> Panes \cup {La!NoPane}]
        /\ opened' \in [Procs -> BOOLEAN]
    BY DEF Locals
  <2> QED
    BY <2>1, <2>2, <2>3, <2>4, <2>5 DEF Locals
<1>7. \A q \in Procs \ {p} : Knowledge(q)' = Knowledge(q)
  BY <1>2 DEF Knowledge, Locals
<1>8. Locks'
  <2>1. tabLock' \in [Tabs -> Procs \cup {NoProc}]
    BY DEF Locks
  <2>2. ASSUME NEW q \in Procs, NEW t \in Tabs
        PROVE  tabLock'[t] = q <=> job'[q].tab = t /\ place'[q] # "tabLock"
    <3>1. tabLock'[t] = IF tabLock[t] = p THEN NoProc ELSE tabLock[t]
      BY DEF Locks
    <3>2. CASE q = p
      BY <3>1, <3>2, <1>4 DEF LauncherConstants
    <3>3. CASE q # p
      <4>1. job'[q] = job[q] /\ place'[q] = place[q]
        BY <3>3, <1>7 DEF Knowledge
      <4> QED
        BY <4>1, <3>1, <3>3 DEF Locks, LauncherConstants
    <3> QED
      BY <3>2, <3>3
  <2> QED
    BY <2>1, <2>2 DEF Locks
<1>9. Where'
  <2> SUFFICES ASSUME NEW q \in Procs
               PROVE  /\ job'[q].tab \in Tabs <=> place'[q] \in InTab
                      /\ place'[q] \in {"persist", "closeDock", "closeStale"} => docks'[q] # {}
                      /\ job'[q].mode = "restore" =>
                            /\ \A t \in todo'[q] : ServerOf[t] = job'[q].server
                            /\ job'[q].tab \in Tabs => ServerOf[job'[q].tab] = job'[q].server
    BY DEF Where
  <2>1. CASE q = p
    <3>1. job'[q].tab \notin Tabs /\ place'[q] \notin InTab
      BY <2>1, <1>4, <1>5 DEF LauncherConstants, InTab
    <3>2. place'[q] \notin {"persist", "closeDock", "closeStale"}
      BY <2>1, <1>5
    <3>3. job'[q].mode = "restore" => \A t \in todo'[q] : ServerOf[t] = job'[q].server
      BY <2>1, <1>4, <1>5 DEF Where
    <3> QED
      BY <3>1, <3>2, <3>3
  <2>2. CASE q # p
    BY <2>2, <1>7 DEF Where, Knowledge
  <2> QED
    BY <2>1, <2>2
<1> QED
  BY <1>5, <1>6, <1>7, <1>8, <1>9 DEF Leaves, InTab

LEMMA AbandonEffect ==
  ASSUME LauncherConstants, Locals, Locks, Where, NEW p \in Procs, place[p] \in InTab, La!Abandon(p)
  PROVE  Locals' /\ Locks' /\ Where' /\ Leaves(p)
<1>1. CASE job[p].mode = "toggle"
  BY <1>1, EndEffect DEF La!Abandon
<1>2. CASE job[p].mode # "toggle"
  <2>1. kept[p][job[p].tab] \in Panes \cup {La!NoPane}
    BY DEF Where, Locals, La!Files
  <2> QED
    BY <1>2, <2>1, DoneWithEffect DEF La!Abandon
<1> QED
  BY <1>1, <1>2

(* The process goes on in its tab, whose lock it holds.                    *)
LEMMA MoveEffect ==
  ASSUME Locals, Locks, Where, NEW p \in Procs, place[p] \in InTab \ {"tabLock"},
         NEW l \in InTab \ {"tabLock"}, La!Goto(p, l), UNCHANGED <<tabLock, job, todo, kept>>,
         l \in {"persist", "closeDock", "closeStale"} => docks'[p] # {},
         seen' \in [Procs -> SUBSET Panes], docks' \in [Procs -> SUBSET Panes],
         stale' \in [Procs -> Panes \cup {La!NoPane}], opened' \in [Procs -> BOOLEAN],
         \A q \in Procs \ {p} : docks'[q] = docks[q]
  PROVE  Locals' /\ Locks' /\ Where'
<1> USE DEF La!Goto
<1>1. Locals'
  BY DEF Locals, InTab
<1>2. \A q \in Procs : /\ place'[q] = IF q = p THEN l ELSE place[q]
                       /\ place'[q] \in InTab <=> place[q] \in InTab
                       /\ place'[q] = "tabLock" <=> place[q] = "tabLock"
  BY DEF Locals, InTab
<1>3. Locks'
  BY <1>2 DEF Locks
<1>4. Where'
  BY <1>2 DEF Where
<1> QED
  BY <1>1, <1>3, <1>4

TypeInv == Globals /\ Locals /\ Locks /\ Where

LEMMA TypeInit ==
  ASSUME LauncherConstants, La!Init
  PROVE  TypeInv
<1> USE DEF La!Init
<1>1. La!EmptyFile \in La!Files
  BY DEF La!EmptyFile, La!Files
<1>2. La!NoJob \in Jobs /\ La!NoJob.tab = NoTab /\ La!NoJob.mode = "none"
  BY DEF Jobs, La!NoJob
<1>3. Globals
  BY <1>1 DEF Globals, LauncherConstants
<1>4. Locals
  BY <1>1, <1>2 DEF Locals, Places
<1>5. Locks
  BY <1>2 DEF Locks, LauncherConstants
<1>6. Where
  BY <1>2 DEF Where, InTab, LauncherConstants
<1> QED
  BY <1>3, <1>4, <1>5, <1>6 DEF TypeInv

(* The environment leaves the hook processes alone.                        *)
LEMMA EnvironmentTypes ==
  ASSUME LauncherConstants, TypeInv, La!Environment
  PROVE  TypeInv' /\ UNCHANGED <<tabLock, place, La!locals>>
<1> USE DEF TypeInv
<1>1. UNCHANGED <<tabLock, place, La!locals>>
  BY DEF La!Environment, La!OnExit, La!PaneExits, La!LateOpen, La!Restart
<1>2. Locals' /\ Locks' /\ Where'
  BY <1>1 DEF La!locals, Locals, Locks, Where
<1>3. ASSUME NEW x \in Panes, La!OnExit(x) PROVE Globals'
  <2>1. La!Applied([kind |-> "prune", server |-> ServerOf[HomeOf[x]], pane |-> x], records)
          \in La!Files
    BY AppliedFile DEF Globals
  <2>2. records' \in La!Files
    BY <1>3, <2>1 DEF La!OnExit, Globals
  <2> QED
    BY <1>3, <2>2 DEF La!OnExit, La!Fault, Globals, LauncherConstants
<1>4. ASSUME NEW x \in Panes, La!PaneExits(x) PROVE Globals'
  BY <1>4 DEF La!PaneExits, Globals
<1>5. ASSUME NEW x \in Panes, La!LateOpen(x) PROVE Globals'
  BY <1>5 DEF La!LateOpen, Globals
<1>6. ASSUME NEW s \in Servers, La!Restart(s) PROVE Globals'
  BY <1>6 DEF La!Restart, Globals, LauncherConstants
<1> QED
  BY <1>1, <1>2, <1>3, <1>4, <1>5, <1>6 DEF La!Environment

LEMMA StartToggleTypes ==
  ASSUME LauncherConstants, TypeInv, NEW p \in Procs, NEW t \in Tabs, La!StartToggle(p, t)
  PROVE  TypeInv'
<1> USE DEF La!StartToggle, La!Goto, La!world, TypeInv
<1> DEFINE start == [mode |-> "toggle", server |-> ServerOf[t], tab |-> t]
<1>1. Globals'
  BY DEF Globals
<1>2. start \in Jobs
  BY TabsAssumption DEF Jobs
<1>3. Locals'
  BY <1>2 DEF Locals, Places
<1>4. \A q \in Procs : /\ place'[q] = IF q = p THEN "tabLock" ELSE place[q]
                       /\ job'[q] = IF q = p THEN start ELSE job[q]
  BY DEF Locals
<1>5. Locks'
  <2>1. job[p].tab \notin Tabs
    BY DEF Where, InTab
  <2> QED
    BY <1>4, <2>1 DEF Locks
<1>6. Where'
  BY <1>4 DEF Where, InTab, Places
<1> QED
  BY <1>1, <1>3, <1>5, <1>6

LEMMA StartRestoreTypes ==
  ASSUME LauncherConstants, TypeInv, NEW p \in Procs, NEW s \in Servers, La!StartRestore(p, s)
  PROVE  TypeInv'
<1> USE DEF TypeInv
<1> DEFINE mine == La!Section(La!Clamped(records), s)
           start == [mode |-> "restore", server |-> s, tab |-> NoTab]
           copy == [t \in Tabs |-> IF t \in mine THEN records[t] ELSE La!NoPane]
<1>1. Globals'
  BY DEF La!StartRestore, Globals
<1>2. CASE UNCHANGED <<place, job, todo, kept>>
  BY <1>1, <1>2 DEF La!StartRestore, Locals, Locks, Where
<1>3. CASE /\ La!Goto(p, "nextRecord")
           /\ job' = [job EXCEPT ![p] = start]
           /\ todo' = [todo EXCEPT ![p] = mine]
           /\ kept' = [kept EXCEPT ![p] = copy]
  <2> USE <1>3 DEF La!Goto
  <2>1. UNCHANGED <<tabLock, seen, docks, stale, opened>> /\ place[p] = "idle"
    BY DEF La!StartRestore
  <2>2. start \in Jobs /\ copy \in La!Files /\ mine \in SUBSET Tabs
    BY DEF Jobs, La!Files, Globals, La!Section
  <2>3. /\ place' \in [Procs -> Places]
        /\ job' \in [Procs -> Jobs]
        /\ todo' \in [Procs -> SUBSET Tabs]
        /\ kept' \in [Procs -> La!Files]
    BY <2>2 DEF Locals, Places
  <2>4. Locals'
    BY <2>1, <2>3 DEF Locals
  <2>5. \A q \in Procs : /\ place'[q] = IF q = p THEN "nextRecord" ELSE place[q]
                         /\ job'[q] = IF q = p THEN start ELSE job[q]
                         /\ todo'[q] = IF q = p THEN mine ELSE todo[q]
    BY DEF Locals
  <2>6. start.tab = NoTab /\ start.server = s /\ \A t \in mine : ServerOf[t] = s
    BY DEF La!Section
  <2>7. Locks'
    <3>1. job[p].tab \notin Tabs
      BY <2>1 DEF Where, InTab
    <3> QED
      BY <2>1, <2>5, <2>6, <3>1 DEF Locks, LauncherConstants
  <2>8. Where'
    BY <2>1, <2>5, <2>6 DEF Where, InTab, LauncherConstants
  <2> QED
    BY <1>1, <2>4, <2>7, <2>8
<1> QED
  BY <1>2, <1>3 DEF La!StartRestore

LEMMA NextRecordTypes ==
  ASSUME LauncherConstants, TypeInv, NEW p \in Procs, La!NextRecord(p)
  PROVE  TypeInv'
<1> USE DEF TypeInv, La!Goto
<1>1. Globals'
  BY DEF La!NextRecord, La!world, Globals
<1>2. PICK t \in todo[p] : job' = [job EXCEPT ![p].tab = t]
  BY DEF La!NextRecord
<1>3. t \in Tabs /\ job[p] \in Jobs
  BY DEF Locals
<1>4. [job[p] EXCEPT !.tab = t] \in Jobs
  BY <1>3 DEF Jobs
<1>5. UNCHANGED <<tabLock, seen, docks, stale, opened, todo, kept>>
      /\ place[p] = "nextRecord" /\ place' = [place EXCEPT ![p] = "tabLock"]
  BY DEF La!NextRecord
<1>6. Locals'
  <2>1. job' \in [Procs -> Jobs] /\ place' \in [Procs -> Places]
    BY <1>2, <1>4, <1>5 DEF Locals, Places
  <2> QED
    BY <1>5, <2>1 DEF Locals
<1>7. /\ place'[p] = "tabLock" /\ job'[p].tab = t
      /\ job'[p].mode = job[p].mode /\ job'[p].server = job[p].server
  BY <1>2, <1>3, <1>5 DEF Locals, Jobs
<1>8. \A q \in Procs \ {p} : place'[q] = place[q] /\ job'[q] = job[q]
  BY <1>2, <1>5 DEF Locals
<1>9. Locks'
  <2>1. job[p].tab \notin Tabs
    BY <1>5 DEF Where, InTab
  <2>2. ASSUME NEW q \in Procs, NEW u \in Tabs
        PROVE  tabLock[u] = q <=> job'[q].tab = u /\ place'[q] # "tabLock"
    BY <1>7, <1>8, <2>1 DEF Locks
  <2> QED
    BY <1>5, <2>2 DEF Locks
<1>10. Where'
  <2> SUFFICES ASSUME NEW q \in Procs
               PROVE  /\ job'[q].tab \in Tabs <=> place'[q] \in InTab
                      /\ place'[q] \in {"persist", "closeDock", "closeStale"} => docks'[q] # {}
                      /\ job'[q].mode = "restore" =>
                            /\ \A u \in todo'[q] : ServerOf[u] = job'[q].server
                            /\ job'[q].tab \in Tabs => ServerOf[job'[q].tab] = job'[q].server
    BY DEF Where
  <2>1. CASE q = p
    BY <2>1, <1>3, <1>5, <1>7 DEF Where, InTab, Places
  <2>2. CASE q # p
    BY <2>2, <1>5, <1>8 DEF Where
  <2> QED
    BY <2>1, <2>2
<1> QED
  BY <1>1, <1>6, <1>9, <1>10

LEMMA LockTabTypes ==
  ASSUME LauncherConstants, TypeInv, NEW p \in Procs, La!LockTab(p)
  PROVE  TypeInv'
<1> USE DEF La!LockTab, TypeInv, La!Goto
<1>1. Globals'
  BY DEF La!world, Globals
<1>2. Locals'
  BY DEF La!locals, Locals, Places
<1>3. job[p].tab \in Tabs
  BY DEF Where, InTab, Places
<1>4. \A q \in Procs : place'[q] = IF q = p THEN "query" ELSE place[q]
  BY DEF Locals
<1>5. \A t \in Tabs : tabLock'[t] = IF t = job[p].tab THEN p ELSE tabLock[t]
  BY DEF Locks
<1>6. Locks'
  <2>1. tabLock' \in [Tabs -> Procs \cup {NoProc}]
    BY DEF Locks
  <2>2. ASSUME NEW q \in Procs, NEW t \in Tabs
        PROVE  tabLock'[t] = q <=> job[q].tab = t /\ place'[q] # "tabLock"
    BY <1>3, <1>4, <1>5 DEF Locks, LauncherConstants
  <2> QED
    BY <2>1, <2>2 DEF Locks, La!locals
<1>7. Where'
  BY <1>4 DEF Where, La!locals, InTab, Places
<1> QED
  BY <1>1, <1>2, <1>6, <1>7

LEMMA QueryTypes ==
  ASSUME LauncherConstants, TypeInv, NEW p \in Procs, La!Query(p)
  PROVE  TypeInv'
<1> USE DEF TypeInv
<1>1. Globals'
  BY DEF La!Query, La!world, Globals
<1>2. place[p] = "query" /\ place[p] \in InTab \ {"tabLock"} /\ "verify" \in InTab \ {"tabLock"}
  BY DEF La!Query, InTab, Places
<1>3. CASE La!DoneWith(p, La!NoPane)
  BY <1>1, <1>2, <1>3, DoneWithEffect
<1>4. CASE /\ seen' = [seen EXCEPT ![p] = La!PanesIn(job[p].tab)]
           /\ stale' = [stale EXCEPT ![p] = IF opened[p] THEN @ ELSE La!StaleShell(p)]
           /\ La!Goto(p, "verify")
           /\ UNCHANGED <<tabLock, job, docks, opened, todo, kept>>
  <2>1. seen' \in [Procs -> SUBSET Panes]
    BY <1>4 DEF Locals, La!PanesIn
  <2>2. La!StaleShell(p) \in Panes \cup {La!NoPane}
    BY DEF La!StaleShell, La!PanesIn
  <2>3. stale' \in [Procs -> Panes \cup {La!NoPane}]
    BY <1>4, <2>2 DEF Locals
  <2>4. docks' \in [Procs -> SUBSET Panes] /\ opened' \in [Procs -> BOOLEAN]
    BY <1>4 DEF Locals
  <2> QED
    BY <1>1, <1>2, <1>4, <2>1, <2>3, <2>4, MoveEffect
<1> QED
  BY <1>3, <1>4 DEF La!Query

LEMMA VerifyTypes ==
  ASSUME LauncherConstants, TypeInv, NEW p \in Procs, La!Verify(p)
  PROVE  TypeInv'
<1> USE DEF TypeInv, La!Verify
<1>1. Globals'
  BY DEF La!world, Globals
<1>2. place[p] \in InTab \ {"tabLock"} /\ "dedupe" \in InTab \ {"tabLock"}
  BY DEF InTab, Places
<1>3. {x \in seen[p] : pane[x] = "dock"} \in SUBSET Panes
  BY DEF Locals
<1>4. docks' \in [Procs -> SUBSET Panes] /\ \A q \in Procs \ {p} : docks'[q] = docks[q]
  BY <1>3 DEF Locals
<1>5. /\ seen' \in [Procs -> SUBSET Panes]
      /\ stale' \in [Procs -> Panes \cup {La!NoPane}]
      /\ opened' \in [Procs -> BOOLEAN]
  BY DEF Locals
<1> QED
  BY <1>1, <1>2, <1>4, <1>5, MoveEffect

(* The surplus dock that a process closes next.                            *)
LEMMA Surplus ==
  ASSUME Locals, NEW p \in Procs, La!Cardinality(docks[p]) > 1
  PROVE  /\ docks[p] # {}
         /\ La!Min(docks[p] \ {La!Keeper(p)}) \in docks[p] \ {La!Keeper(p)}
<1>1. docks[p] \in SUBSET Panes
  BY DEF Locals
<1>2. docks[p] \ {La!Keeper(p)} # {}
  BY <1>1, AnotherPane
<1> QED
  BY <1>1, <1>2, FirstPane

LEMMA DedupeTypes ==
  ASSUME LauncherConstants, TypeInv, NEW p \in Procs, La!Dedupe(p)
  PROVE  TypeInv'
<1> USE DEF TypeInv
<1> DEFINE x == La!Min(docks[p] \ {La!Keeper(p)})
<1>1. x \in docks[p] /\ docks[p] \in SUBSET Panes
  BY Surplus DEF La!Dedupe, Locals
<1>2. Globals'
  <2>1. pane' \in [Panes -> {"unused", "late", "shell", "titled", "dock", "gone"}]
    BY DEF La!Dedupe, Globals
  <2>2. exits' \in SUBSET Panes
    BY <1>1 DEF La!Dedupe, Globals
  <2> QED
    BY <2>1, <2>2 DEF La!Dedupe, Globals
<1>3. place[p] \in InTab
  BY DEF La!Dedupe, InTab, Places
<1>4. CASE La!Abandon(p)
  BY <1>2, <1>3, <1>4, AbandonEffect
<1>5. CASE /\ docks' = [docks EXCEPT ![p] = @ \ {x}]
           /\ UNCHANGED <<tabLock, place, job, seen, stale, opened, todo, kept>>
  <2>1. docks' \in [Procs -> SUBSET Panes]
    BY <1>5 DEF Locals
  <2>2. Locals'
    BY <1>5, <2>1 DEF Locals
  <2>3. place[p] = "dedupe" /\ \A q \in Procs \ {p} : docks'[q] = docks[q]
    BY <1>5 DEF La!Dedupe, Locals
  <2>4. Locks'
    BY <1>5 DEF Locks
  <2>5. Where'
    BY <1>5, <2>3 DEF Where
  <2> QED
    BY <1>2, <2>2, <2>4, <2>5
<1> QED
  BY <1>4, <1>5 DEF La!Dedupe

LEMMA DecideTypes ==
  ASSUME LauncherConstants, TypeInv, NEW p \in Procs, La!Decide(p)
  PROVE  TypeInv'
<1> USE DEF TypeInv
<1>1. Globals'
  BY DEF La!Decide, La!world, Globals
<1>2. place[p] \in InTab \ {"tabLock"}
  BY DEF La!Decide, InTab, Places
<1>3. CASE La!Abandon(p)
  BY <1>1, <1>2, <1>3, AbandonEffect
<1>4. CASE UNCHANGED <<tabLock, La!locals>>
  <2>1. /\ seen' \in [Procs -> SUBSET Panes]
        /\ docks' \in [Procs -> SUBSET Panes]
        /\ stale' \in [Procs -> Panes \cup {La!NoPane}]
        /\ opened' \in [Procs -> BOOLEAN]
    BY <1>4 DEF La!locals, Locals
  <2>2. UNCHANGED <<tabLock, job, todo, kept, docks>>
    BY <1>4 DEF La!locals
  <2>3. PICK l \in {"opening", "closeStale", "persist", "placing", "closeDock"} :
           La!Goto(p, l) /\ (l # "opening" => docks[p] # {})
    <3>1. ~(docks[p] = {} /\ opened[p])
      <4> SUFFICES ASSUME La!Abandon(p) PROVE FALSE
        BY DEF La!Decide
      <4>1. job'[p] = job[p]
        BY <2>2
      <4>2. Where' /\ place'[p] \notin InTab
        BY <1>2, AbandonEffect DEF Leaves
      <4>3. job[p].tab \in Tabs
        BY <1>2 DEF Where
      <4> QED
        BY <4>1, <4>2, <4>3 DEF Where
    <3> QED
      BY <3>1 DEF La!Decide
  <2>4. l \in InTab \ {"tabLock"}
    BY DEF InTab, Places
  <2>5. l \in {"persist", "closeDock", "closeStale"} => docks'[p] # {}
    BY <2>2, <2>3
  <2>6. \A q \in Procs \ {p} : docks'[q] = docks[q]
    BY <2>2
  <2>7. La!Goto(p, l)
    BY <2>3
  <2> QED
    BY <1>1, <1>2, <2>1, <2>2, <2>4, <2>5, <2>6, <2>7, MoveEffect
<1> QED
  BY <1>3, <1>4 DEF La!Decide

LEMMA OpeningTypes ==
  ASSUME LauncherConstants, TypeInv, NEW p \in Procs, La!OpenDock(p) \/ La!LoseOpen(p)
  PROVE  TypeInv'
<1> USE DEF TypeInv
<1>1. Globals'
  BY DEF La!OpenDock, La!LoseOpen, La!Fault, Globals, LauncherConstants
<1>2. place[p] \in InTab \ {"tabLock"} /\ "query" \in InTab \ {"tabLock"}
  BY DEF La!OpenDock, La!LoseOpen, InTab, Places
<1>3. CASE La!Abandon(p)
  BY <1>1, <1>2, <1>3, AbandonEffect
<1>4. CASE /\ opened' = [opened EXCEPT ![p] = TRUE]
           /\ La!Goto(p, "query")
           /\ UNCHANGED <<tabLock, job, seen, docks, stale, todo, kept>>
  <2>1. /\ seen' \in [Procs -> SUBSET Panes]
        /\ docks' \in [Procs -> SUBSET Panes]
        /\ stale' \in [Procs -> Panes \cup {La!NoPane}]
        /\ opened' \in [Procs -> BOOLEAN]
    BY <1>4 DEF Locals
  <2>2. \A q \in Procs \ {p} : docks'[q] = docks[q]
    BY <1>4
  <2> QED
    BY <1>1, <1>2, <1>4, <2>1, <2>2, MoveEffect
<1> QED
  BY <1>3, <1>4 DEF La!OpenDock, La!LoseOpen

(* The dock that a process keeps.                                          *)
LEMMA KeeperIsDock ==
  ASSUME Locals, NEW p \in Procs, docks[p] # {}
  PROVE  La!Keeper(p) \in docks[p] /\ La!Keeper(p) \in Panes
BY FirstPane DEF La!Keeper, Locals

LEMMA PersistTypes ==
  ASSUME LauncherConstants, TypeInv, NEW p \in Procs, La!Persist(p)
  PROVE  TypeInv'
<1> USE DEF TypeInv
<1>1. place[p] = "persist" /\ place[p] \in InTab \ {"tabLock"} /\ "placing" \in InTab \ {"tabLock"}
  BY DEF La!Persist, InTab, Places
<1>2. La!Keeper(p) \in Panes /\ job[p].tab \in Tabs
  BY <1>1, KeeperIsDock DEF Where
<1>3. La!Applied([kind |-> "upsert", tab |-> job[p].tab, pane |-> La!Keeper(p)], records)
        \in La!Files
  BY <1>2, AppliedFile DEF Globals
<1>4. Globals'
  BY <1>3 DEF La!Persist, La!Fault, La!world, Globals, LauncherConstants
<1>5. /\ seen' \in [Procs -> SUBSET Panes]
      /\ docks' \in [Procs -> SUBSET Panes]
      /\ stale' \in [Procs -> Panes \cup {La!NoPane}]
      /\ opened' \in [Procs -> BOOLEAN]
  BY DEF La!Persist, La!locals, Locals
<1>6. UNCHANGED <<tabLock, job, todo, kept, docks>> /\ La!Goto(p, "placing")
  BY DEF La!Persist, La!locals
<1> QED
  BY <1>1, <1>4, <1>5, <1>6, MoveEffect

LEMMA CloseDockTypes ==
  ASSUME LauncherConstants, TypeInv, NEW p \in Procs, La!CloseDock(p) \/ La!LoseClose(p)
  PROVE  TypeInv'
<1> USE DEF TypeInv
<1>1. /\ place[p] = "closeDock"
      /\ place[p] \in InTab \ {"tabLock"}
      /\ "forget" \in InTab \ {"tabLock"}
  BY DEF La!CloseDock, La!LoseClose, InTab, Places
<1>2. La!Keeper(p) \in Panes
  BY <1>1, KeeperIsDock DEF Where
<1>3. Globals'
  BY <1>2 DEF La!CloseDock, La!LoseClose, La!Fault, Globals, LauncherConstants
<1>4. CASE La!End(p)
  BY <1>3, <1>4, EndEffect
<1>5. CASE La!Goto(p, "forget") /\ UNCHANGED <<tabLock, La!locals>>
  <2>1. /\ seen' \in [Procs -> SUBSET Panes]
        /\ docks' \in [Procs -> SUBSET Panes]
        /\ stale' \in [Procs -> Panes \cup {La!NoPane}]
        /\ opened' \in [Procs -> BOOLEAN]
    BY <1>5 DEF La!locals, Locals
  <2>2. UNCHANGED <<tabLock, job, todo, kept, docks>>
    BY <1>5 DEF La!locals
  <2> QED
    BY <1>1, <1>3, <1>5, <2>1, <2>2, MoveEffect
<1> QED
  BY <1>4, <1>5 DEF La!CloseDock, La!LoseClose

LEMMA CloseStaleTypes ==
  ASSUME LauncherConstants, TypeInv, NEW p \in Procs, La!CloseStale(p)
  PROVE  TypeInv' /\ Leaves(p)
<1> USE DEF TypeInv
<1>1. place[p] = "closeStale" /\ place[p] \in InTab
  BY DEF La!CloseStale, InTab, Places
<1>2. La!Keeper(p) \in Panes \cup {La!NoPane} /\ stale[p] \in Panes \cup {La!NoPane}
  BY <1>1, KeeperIsDock DEF Where, Locals
<1>3. Globals'
  BY <1>2 DEF La!CloseStale, La!Fault, Globals, LauncherConstants
<1>4. La!DoneWith(p, La!Keeper(p))
  BY DEF La!CloseStale
<1> QED
  BY <1>1, <1>2, <1>3, <1>4, DoneWithEffect

(* The steps with which a process leaves its tab without touching a pane.  *)
LEMMA LeavingTypes ==
  ASSUME LauncherConstants, TypeInv, NEW p \in Procs,
         La!TimeOut(p) \/ La!Place(p) \/ La!Forget(p) \/ La!Overlay(p)
         \/ La!CallFails(p) \/ La!Dies(p)
  PROVE  TypeInv' /\ Leaves(p) /\ UNCHANGED pane
<1> USE DEF TypeInv, La!Fault, La!world
<1>1. ASSUME La!TimeOut(p) \/ La!CallFails(p) PROVE TypeInv' /\ Leaves(p) /\ UNCHANGED pane
  <2>1. La!Abandon(p) /\ place[p] \in InTab
    BY <1>1 DEF La!TimeOut, La!CallFails, InTab, Places
  <2>2. Globals'
    BY <1>1 DEF La!TimeOut, La!CallFails, Globals, LauncherConstants
  <2>3. UNCHANGED pane
    BY <1>1 DEF La!TimeOut, La!CallFails
  <2> QED
    BY <2>1, <2>2, <2>3, AbandonEffect
<1>2. ASSUME La!Place(p) \/ La!Forget(p) \/ La!Overlay(p) \/ La!Dies(p)
      PROVE  TypeInv' /\ Leaves(p) /\ UNCHANGED pane
  <2>1. La!End(p) /\ UNCHANGED pane
    BY <1>2 DEF La!Place, La!Forget, La!Overlay, La!Dies
  <2>2. La!Applied([kind |-> "remove", tab |-> job[p].tab], records) \in La!Files
    BY AppliedFile DEF Globals
  <2>3. kept[p] \in La!Files
    BY DEF Locals
  <2>4. La!Applied([kind |-> "replace", server |-> job[p].server, kept |-> kept[p]], records)
          \in La!Files
    BY <2>3, AppliedFile DEF Globals
  <2>5. Globals'
    <3>1. records' \in La!Files
      BY <1>2, <2>2, <2>4 DEF La!Place, La!Forget, La!Overlay, La!Dies, Globals
    <3>2. faults' \in 0..MaxFaults
      BY <1>2 DEF La!Place, La!Forget, La!Overlay, La!Dies, Globals, LauncherConstants
    <3>3. UNCHANGED <<pane, exits, startups, restarts>>
      BY <1>2 DEF La!Place, La!Forget, La!Overlay, La!Dies
    <3> QED
      BY <3>1, <3>2, <3>3 DEF Globals
  <2> QED
    BY <2>1, <2>5, EndEffect
<1> QED
  BY <1>1, <1>2

LEMMA LauncherTypeStep ==
  ASSUME LauncherConstants, TypeInv, [La!Next]_(La!vars)
  PROVE  TypeInv'
<1>1. CASE UNCHANGED La!vars
  BY <1>1 DEF La!vars, La!world, La!locals, TypeInv, Globals, Locals, Locks, Where
<1>2. CASE La!Environment
  BY <1>2, EnvironmentTypes
<1>3. ASSUME NEW p \in Procs, NEW t \in Tabs, La!StartToggle(p, t) PROVE TypeInv'
  BY <1>3, StartToggleTypes
<1>4. ASSUME NEW p \in Procs, NEW s \in Servers, La!StartRestore(p, s) PROVE TypeInv'
  BY <1>4, StartRestoreTypes
<1>5. ASSUME NEW p \in Procs, La!Step(p) PROVE TypeInv'
  BY <1>5, NextRecordTypes, LockTabTypes, QueryTypes, VerifyTypes, DedupeTypes, DecideTypes,
     OpeningTypes, PersistTypes, CloseDockTypes, CloseStaleTypes, LeavingTypes DEF La!Step
<1>6. ASSUME NEW p \in Procs, La!LoseOpen(p) \/ La!LoseClose(p) \/ La!CallFails(p) \/ La!Dies(p)
      PROVE  TypeInv'
  BY <1>6, OpeningTypes, CloseDockTypes, LeavingTypes
<1> QED
  BY <1>1, <1>2, <1>3, <1>4, <1>5, <1>6 DEF La!Next

(* Every variable keeps its type, and a process that works in a tab holds  *)
(* the lock of that tab and of no other (TabLock::acquire(), dropped at    *)
(* the end of toggle() and of each record of restore()).                   *)
THEOREM LauncherTypes ==
  ASSUME LauncherConstants
  PROVE  La!Spec => [](La!TypeOK /\ Where)
<1>1. La!Init => TypeInv
  BY TypeInit
<1>2. TypeInv /\ [La!Next]_(La!vars) => TypeInv'
  BY LauncherTypeStep
<1>3. TypeInv => La!TypeOK /\ Where
  BY TypesInParts DEF TypeInv
<1> QED
  BY <1>1, <1>2, <1>3, PTL DEF La!Spec

(***************************************************************************)
(* One dock per tab.  What a process saw of its tab stays true of docks    *)
(* while it holds the lock: only the holder adds one (Sees), and no        *)
(* request that was given up is still to be answered.                      *)
(***************************************************************************)

Sees(p) ==
    /\ place[p] = "verify" => La!DocksIn(job[p].tab) \subseteq seen[p]
    /\ place[p] = "dedupe" => La!DocksIn(job[p].tab) \subseteq docks[p]
    /\ place[p] = "opening" => La!DocksIn(job[p].tab) = {}

Single == \A t \in Tabs : \A x, y \in La!DocksIn(t) : x = y
NoneLate == \A x \in Panes : pane[x] # "late"
View == faults = 0 => Single /\ NoneLate /\ \A p \in Procs : Sees(p)

LEMMA SingleIsOne ==
  ASSUME View
  PROVE  La!OneDockPerTab
<1> SUFFICES ASSUME faults = 0, NEW t \in Tabs PROVE La!Cardinality(La!DocksIn(t)) <= 1
  BY DEF La!OneDockPerTab
<1>1. La!DocksIn(t) \in SUBSET Panes
  BY DEF La!DocksIn, La!PanesIn
<1> QED
  BY <1>1, AtMostOne DEF View, Single

(* A step that adds no dock: what the others see stays true.               *)
LEMMA ViewStays ==
  ASSUME TypeInv, View, faults' = 0 => faults = 0,
         faults' = 0 => \A x \in Panes : pane'[x] \in {"dock", "late"} => pane'[x] = pane[x],
         faults' = 0 => \A q \in Procs : Knowledge(q)' = Knowledge(q) \/ Sees(q)'
  PROVE  View'
<1> SUFFICES ASSUME faults' = 0
             PROVE  (Single /\ NoneLate)' /\ \A q \in Procs : Sees(q)'
  BY DEF View
<1>1. NoneLate'
  BY DEF View, NoneLate
<1>2. \A t \in Tabs : La!DocksIn(t)' \subseteq La!DocksIn(t)
  BY DEF La!DocksIn, La!PanesIn, La!Open
<1>3. Single'
  BY <1>2 DEF View, Single
<1>4. ASSUME NEW q \in Procs, Knowledge(q)' = Knowledge(q) PROVE Sees(q)'
  <2>1. /\ place'[q] = place[q]
        /\ job'[q] = job[q]
        /\ seen'[q] = seen[q]
        /\ docks'[q] = docks[q]
    BY <1>4 DEF Knowledge
  <2>2. Sees(q)
    BY DEF View
  <2>3. CASE place[q] \in {"verify", "dedupe", "opening"}
    <3>1. job[q].tab \in Tabs
      BY <2>3 DEF TypeInv, Where, InTab, Places
    <3>2. La!DocksIn(job[q].tab)' = {x \in Panes : HomeOf[x] = job[q].tab /\ pane'[x] = "dock"}
      BY <2>1 DEF La!DocksIn, La!PanesIn, La!Open
    <3>3. La!DocksIn(job[q].tab) = {x \in Panes : HomeOf[x] = job[q].tab /\ pane[x] = "dock"}
      BY DEF La!DocksIn, La!PanesIn, La!Open
    <3>4. La!DocksIn(job[q].tab)' \subseteq La!DocksIn(job[q].tab)
      BY <3>2, <3>3
    <3> QED
      BY <2>1, <2>2, <3>4 DEF Sees
  <2>4. CASE place[q] \notin {"verify", "dedupe", "opening"}
    BY <2>1, <2>4 DEF Sees
  <2> QED
    BY <2>3, <2>4
<1> QED
  BY <1>1, <1>3, <1>4

(* A process elsewhere than between its query and its decision.            *)
LEMMA SeesNothing ==
  ASSUME NEW p \in Procs, place'[p] \notin {"verify", "dedupe", "opening"}
  PROVE  Sees(p)'
BY DEF Sees

LEMMA LeavesView ==
  ASSUME NEW p \in Procs, Leaves(p)
  PROVE  \A q \in Procs : Knowledge(q)' = Knowledge(q) \/ Sees(q)'
<1>1. Sees(p)'
  BY SeesNothing DEF Leaves, InTab, Places
<1> QED
  BY <1>1 DEF Leaves

LEMMA FaultsGrow ==
  ASSUME TypeInv, LauncherConstants, [La!Next]_(La!vars)
  PROVE  (faults' = 0 => faults = 0) /\ (La!Fault => faults' # 0)
<1>1. faults \in Nat
  BY DEF TypeInv, Globals, LauncherConstants
<1>2. faults' = faults \/ La!Fault
  BY DEF La!Next, La!Environment, La!Step, La!vars, La!world, La!StartToggle, La!StartRestore,
      La!OnExit, La!PaneExits, La!LateOpen,
     La!Restart, La!NextRecord, La!LockTab, La!TimeOut, La!Query, La!Verify, La!Dedupe,
     La!Decide, La!OpenDock, La!Persist, La!Place,
     La!CloseDock, La!Forget, La!CloseStale, La!Overlay, La!LoseOpen, La!LoseClose, La!CallFails,
     La!Dies
<1> QED
  BY <1>1, <1>2 DEF La!Fault

LEMMA EnvironmentView ==
  ASSUME LauncherConstants, TypeInv, View, La!Environment
  PROVE  View'
<1>1. UNCHANGED <<tabLock, place, La!locals>>
  BY EnvironmentTypes
<1>2. \A q \in Procs : Knowledge(q)' = Knowledge(q)
  BY <1>1 DEF La!locals, Knowledge
<1>3. faults' = 0 => faults = 0
  BY FaultsGrow DEF La!Next
<1>4. faults' = 0 => \A x \in Panes : pane'[x] \in {"dock", "late"} => pane'[x] = pane[x]
  <2> SUFFICES ASSUME faults' = 0, NEW x \in Panes, pane'[x] \in {"dock", "late"}
               PROVE  pane'[x] = pane[x]
    OBVIOUS
  <2>1. pane[x] # "late"
    BY <1>3 DEF View, NoneLate
  <2> USE DEF TypeInv, Globals
  <2>2. ASSUME NEW y \in Panes, La!OnExit(y) PROVE pane'[x] = pane[x]
    BY <2>2 DEF La!OnExit
  <2>3. ASSUME NEW y \in Panes, La!PaneExits(y) PROVE pane'[x] = pane[x]
    BY <2>3 DEF La!PaneExits
  <2>4. ASSUME NEW y \in Panes, La!LateOpen(y) PROVE pane'[x] = pane[x]
    <3>1. y # x
      BY <2>4, <2>1 DEF La!LateOpen
    <3> QED
      BY <2>4, <3>1 DEF La!LateOpen
  <2>5. ASSUME NEW r \in Servers, La!Restart(r) PROVE pane'[x] = pane[x]
    BY <2>5 DEF La!Restart
  <2> QED
    BY <2>2, <2>3, <2>4, <2>5 DEF La!Environment
<1> QED
  BY <1>2, <1>3, <1>4, ViewStays

LEMMA QueryView ==
  ASSUME LauncherConstants, TypeInv, NEW p \in Procs, La!Query(p)
  PROVE  \A q \in Procs : Knowledge(q)' = Knowledge(q) \/ Sees(q)'
<1>1. CASE La!DoneWith(p, La!NoPane)
  <2>1. place[p] \in InTab
    BY DEF La!Query, InTab, Places
  <2> QED
    BY <1>1, <2>1, DoneWithEffect, LeavesView DEF TypeInv
<1>2. CASE /\ seen' = [seen EXCEPT ![p] = La!PanesIn(job[p].tab)]
           /\ stale' = [stale EXCEPT ![p] = IF opened[p] THEN @ ELSE La!StaleShell(p)]
           /\ La!Goto(p, "verify")
           /\ UNCHANGED <<tabLock, job, docks, opened, todo, kept>>
  <2>1. ASSUME NEW q \in Procs, q # p PROVE Knowledge(q)' = Knowledge(q)
    BY <1>2, <2>1 DEF Knowledge, La!Goto, TypeInv, Locals
  <2>2. Sees(p)'
    <3>1. /\ place'[p] = "verify"
          /\ seen'[p] = La!PanesIn(job[p].tab)
          /\ UNCHANGED <<job, pane>>
      BY <1>2 DEF La!Query, La!world, La!Goto, TypeInv, Locals
    <3>2. La!DocksIn(job[p].tab)' \subseteq La!PanesIn(job[p].tab)
      BY <3>1 DEF La!DocksIn, La!PanesIn, La!Open
    <3> QED
      BY <3>1, <3>2 DEF Sees
  <2> QED
    BY <2>1, <2>2
<1> QED
  BY <1>1, <1>2 DEF La!Query

LEMMA VerifyView ==
  ASSUME TypeInv, View, faults = 0, NEW p \in Procs, La!Verify(p)
  PROVE  \A q \in Procs : Knowledge(q)' = Knowledge(q) \/ Sees(q)'
<1> USE DEF La!Verify
<1>1. ASSUME NEW q \in Procs, q # p PROVE Knowledge(q)' = Knowledge(q)
  BY <1>1 DEF Knowledge, La!Goto, TypeInv, Locals
<1>2. /\ place'[p] = "dedupe"
      /\ docks'[p] = {x \in seen[p] : pane[x] = "dock"}
      /\ UNCHANGED <<job, pane>>
  BY DEF La!world, La!Goto, TypeInv, Locals
<1>3. La!DocksIn(job[p].tab) \subseteq seen[p]
  BY DEF View, Sees
<1>4. La!DocksIn(job[p].tab)' = La!DocksIn(job[p].tab)
  BY <1>2 DEF La!DocksIn, La!PanesIn, La!Open
<1>5. La!DocksIn(job[p].tab) \subseteq docks'[p]
  BY <1>2, <1>3 DEF La!DocksIn
<1>6. Sees(p)'
  BY <1>2, <1>4, <1>5 DEF Sees
<1> QED
  BY <1>1, <1>6

LEMMA DedupeView ==
  ASSUME LauncherConstants, TypeInv, View, faults = 0, NEW p \in Procs, La!Dedupe(p)
  PROVE  \A q \in Procs : Knowledge(q)' = Knowledge(q) \/ Sees(q)'
<1> DEFINE x == La!Min(docks[p] \ {La!Keeper(p)})
<1>1. CASE La!Abandon(p)
  <2>1. place[p] \in InTab
    BY DEF La!Dedupe, InTab, Places
  <2> QED
    BY <1>1, <2>1, AbandonEffect, LeavesView DEF TypeInv
<1>2. CASE /\ pane' = [pane EXCEPT ![x] = "gone"]
           /\ docks' = [docks EXCEPT ![p] = @ \ {x}]
           /\ UNCHANGED <<tabLock, place, job, seen, stale, opened, todo, kept>>
  <2>1. ASSUME NEW q \in Procs, q # p PROVE Knowledge(q)' = Knowledge(q)
    BY <1>2, <2>1 DEF Knowledge, TypeInv, Locals
  <2>2. x \in docks[p] /\ docks[p] \in SUBSET Panes
    BY Surplus DEF La!Dedupe, TypeInv, Locals
  <2>3. /\ place'[p] = "dedupe" /\ docks'[p] = docks[p] \ {x}
        /\ \A y \in Panes : pane'[y] = IF y = x THEN "gone" ELSE pane[y]
    BY <1>2 DEF La!Dedupe, TypeInv, Locals, Globals
  <2>4. La!DocksIn(job[p].tab) \subseteq docks[p]
    BY DEF La!Dedupe, View, Sees
  <2>5. La!DocksIn(job[p].tab)' \subseteq La!DocksIn(job[p].tab) \ {x}
    <3> HIDE DEF x
    <3>1. UNCHANGED job
      BY <1>2
    <3> QED
      BY <2>3, <3>1 DEF La!DocksIn, La!PanesIn, La!Open
  <2>6. Sees(p)'
    BY <2>3, <2>4, <2>5 DEF Sees
  <2> QED
    BY <2>1, <2>6
<1> QED
  BY <1>1, <1>2 DEF La!Dedupe

LEMMA DecideView ==
  ASSUME LauncherConstants, TypeInv, View, faults = 0, NEW p \in Procs, La!Decide(p)
  PROVE  \A q \in Procs : Knowledge(q)' = Knowledge(q) \/ Sees(q)'
<1>1. CASE La!Abandon(p)
  <2>1. place[p] \in InTab
    BY DEF La!Decide, InTab, Places
  <2> QED
    BY <1>1, <2>1, AbandonEffect, LeavesView DEF TypeInv
<1>2. CASE ~La!Abandon(p)
  <2>1. UNCHANGED <<pane, La!locals>>
    BY <1>2 DEF La!Decide, La!world
  <2>2. PICK l \in {"opening", "closeStale", "persist", "placing", "closeDock"} :
           La!Goto(p, l) /\ (l = "opening" => docks[p] = {})
    BY <1>2 DEF La!Decide
  <2>3. ASSUME NEW q \in Procs, q # p PROVE Knowledge(q)' = Knowledge(q)
    BY <2>1, <2>2, <2>3 DEF Knowledge, La!locals, La!Goto, TypeInv, Locals
  <2>4. place'[p] = l
    BY <2>2 DEF La!Goto, TypeInv, Locals
  <2>5. La!DocksIn(job[p].tab) \subseteq docks[p]
    BY DEF La!Decide, View, Sees
  <2>6. La!DocksIn(job[p].tab)' = La!DocksIn(job[p].tab)
    BY <2>1 DEF La!DocksIn, La!PanesIn, La!Open, La!locals
  <2>7. Sees(p)'
    BY <2>2, <2>4, <2>5, <2>6 DEF Sees
  <2> QED
    BY <2>3, <2>7
<1> QED
  BY <1>1, <1>2

(* The new dock is the only one of the tab, and only its opener is at work  *)
(* in that tab.                                                            *)
LEMMA OpenDockView ==
  ASSUME LauncherConstants, TypeInv, View, faults' = 0 => faults = 0, NEW p \in Procs,
         La!OpenDock(p)
  PROVE  View'
<1>1. place[p] = "opening" /\ place[p] \in InTab /\ job[p].tab \in Tabs
  BY DEF La!OpenDock, TypeInv, Where, InTab, Places
<1>2. CASE La!Abandon(p) /\ UNCHANGED pane
  BY <1>1, <1>2, AbandonEffect, LeavesView, ViewStays DEF TypeInv
<1>3. CASE /\ La!Unused(job[p].tab) # {}
           /\ pane' = [pane EXCEPT ![La!Min(La!Unused(job[p].tab))] = "dock"]
           /\ opened' = [opened EXCEPT ![p] = TRUE]
           /\ La!Goto(p, "query")
           /\ UNCHANGED <<tabLock, job, seen, docks, stale, todo, kept>>
  <2>1. PICK x \in La!Unused(job[p].tab) : x = La!Min(La!Unused(job[p].tab))
    BY <1>3, FirstPane DEF La!Unused
  <2>2. x \in Panes /\ HomeOf[x] = job[p].tab /\ pane[x] = "unused"
    BY DEF La!Unused
  <2>3. \A y \in Panes : pane'[y] = IF y = x THEN "dock" ELSE pane[y]
    BY <1>3, <2>1, <2>2 DEF TypeInv, Globals
  <2> SUFFICES ASSUME faults' = 0
               PROVE  (Single /\ NoneLate)' /\ \A q \in Procs : Sees(q)'
    BY DEF View
  <2>4. NoneLate'
    BY <2>3 DEF View, NoneLate
  <2>5. \A t \in Tabs \ {job[p].tab} : La!DocksIn(t)' = La!DocksIn(t)
    BY <2>2, <2>3 DEF La!DocksIn, La!PanesIn, La!Open
  <2>6. La!DocksIn(job[p].tab) = {}
    BY <1>1 DEF View, Sees
  <2>7. \A y \in Panes : HomeOf[y] = job[p].tab => pane[y] # "dock"
    BY <2>6 DEF La!DocksIn, La!PanesIn, La!Open
  <2>8. \A t \in Tabs : t = job[p].tab => La!DocksIn(t)' \subseteq {x}
    BY <2>3, <2>7 DEF La!DocksIn, La!PanesIn, La!Open
  <2>9. Single'
    <3> SUFFICES ASSUME NEW t \in Tabs, NEW y \in La!DocksIn(t)', NEW z \in La!DocksIn(t)'
                 PROVE  y = z
      BY DEF Single
    <3>1. CASE t = job[p].tab
      BY <3>1, <2>8
    <3>2. CASE t # job[p].tab
      BY <3>2, <2>5 DEF View, Single
    <3> QED
      BY <3>1, <3>2
  <2>10. ASSUME NEW q \in Procs PROVE Sees(q)'
    <3>1. CASE q = p
      <4>1. place'[q] = "query"
        BY <1>3, <3>1 DEF La!Goto, TypeInv, Locals
      <4> QED
        BY <4>1, SeesNothing
    <3>2. CASE q # p
      <4>1. /\ place'[q] = place[q]
            /\ UNCHANGED <<job, seen, docks>>
        BY <1>3, <3>2 DEF La!Goto, TypeInv, Locals
      <4>2. Sees(q)
        BY DEF View
      <4>3. CASE place[q] \in {"verify", "dedupe", "opening"}
        <5>1. /\ job[q].tab \in Tabs /\ tabLock[job[q].tab] = q
              /\ tabLock[job[p].tab] = p
          BY <1>1, <4>3 DEF TypeInv, Where, Locks, InTab, Places
        <5>2. job[q].tab \in Tabs \ {job[p].tab}
          BY <5>1, <3>2
        <5>3. PICK t \in Tabs \ {job[p].tab} : t = job[q].tab
          BY <5>2
        <5>4. La!DocksIn(t)' = La!DocksIn(t) /\ job'[q].tab = t
          BY <2>5, <4>1, <5>3
        <5> QED
          BY <4>1, <4>2, <5>3, <5>4 DEF Sees, La!DocksIn, La!PanesIn, La!Open
      <4>4. CASE place[q] \notin {"verify", "dedupe", "opening"}
        BY <4>1, <4>4, SeesNothing
      <4> QED
        BY <4>3, <4>4
    <3> QED
      BY <3>1, <3>2
  <2> QED
    BY <2>4, <2>9, <2>10
<1> QED
  BY <1>2, <1>3 DEF La!OpenDock

LEMMA ViewStep ==
  ASSUME LauncherConstants, TypeInv, View, [La!Next]_(La!vars)
  PROVE  View'
<1> DEFINE Others == \A q \in Procs : Knowledge(q)' = Knowledge(q) \/ Sees(q)'
           NoNewDock == \A x \in Panes : pane'[x] \in {"dock", "late"} => pane'[x] = pane[x]
<1>1. faults' = 0 => faults = 0
  BY FaultsGrow
<1>2. La!Fault => View'
  BY FaultsGrow DEF View
<1>3. CASE UNCHANGED La!vars
  <2>1. Others /\ NoNewDock
    BY <1>3 DEF La!vars, La!world, La!locals, Knowledge
  <2> QED
    BY <1>1, <2>1, ViewStays
<1>4. CASE La!Environment
  BY <1>4, EnvironmentView
<1>5. ASSUME NEW p \in Procs, \/ \E t \in Tabs : La!StartToggle(p, t)
                              \/ \E s \in Servers : La!StartRestore(p, s)
                              \/ La!NextRecord(p) \/ La!LockTab(p)
      PROVE  View'
  <2>1. NoNewDock
    BY <1>5 DEF La!StartToggle, La!StartRestore, La!NextRecord, La!LockTab, La!world
  <2>2. UNCHANGED <<seen, docks, stale, opened>>
    BY <1>5 DEF La!StartToggle, La!StartRestore, La!NextRecord, La!LockTab, La!locals
  <2>3. ASSUME NEW q \in Procs, q # p PROVE Knowledge(q)' = Knowledge(q)
    BY <1>5, <2>2, <2>3
       DEF La!StartToggle, La!StartRestore, La!NextRecord, La!LockTab, Knowledge, La!Goto,
           TypeInv, Locals, La!locals
  <2>4. Knowledge(p)' = Knowledge(p) \/ place'[p] \in {"tabLock", "nextRecord", "query"}
    BY <1>5, <2>2
       DEF La!StartToggle, La!StartRestore, La!NextRecord, La!LockTab, Knowledge, La!Goto,
           TypeInv, Locals
  <2>5. Knowledge(p)' = Knowledge(p) \/ Sees(p)'
    BY <2>4, SeesNothing
  <2> QED
    BY <1>1, <2>1, <2>3, <2>5, ViewStays
<1>6. ASSUME NEW p \in Procs, La!Query(p) \/ La!Verify(p) \/ La!Dedupe(p) \/ La!Decide(p)
      PROVE  View'
  <2>1. NoNewDock
    BY <1>6 DEF La!Query, La!Verify, La!Dedupe, La!Decide, La!world, TypeInv, Globals
  <2>2. faults' = 0 => Others
    BY <1>1, <1>6, QueryView, VerifyView, DedupeView, DecideView
  <2> QED
    BY <1>1, <2>1, <2>2, ViewStays
<1>7. ASSUME NEW p \in Procs, La!OpenDock(p) PROVE View'
  BY <1>1, <1>7, OpenDockView
<1>8. ASSUME NEW p \in Procs, La!Persist(p) \/ La!CloseDock(p)
      PROVE  View'
  <2>1. NoNewDock
    BY <1>8 DEF La!Persist, La!CloseDock, La!world, TypeInv, Globals
  <2>2. CASE La!End(p)
    BY <1>1, <2>1, <2>2, EndEffect, LeavesView, ViewStays DEF TypeInv
  <2>3. CASE ~La!End(p)
    <3>1. UNCHANGED La!locals /\ (La!Goto(p, "placing") \/ La!Goto(p, "forget"))
      BY <1>8, <2>3 DEF La!Persist, La!CloseDock
    <3>2. ASSUME NEW q \in Procs, q # p PROVE Knowledge(q)' = Knowledge(q)
      BY <3>1, <3>2 DEF Knowledge, La!locals, La!Goto, TypeInv, Locals
    <3>3. place'[p] \in {"placing", "forget"}
      BY <3>1 DEF La!Goto, TypeInv, Locals
    <3>4. Sees(p)'
      BY <3>3, SeesNothing
    <3> QED
      BY <1>1, <2>1, <3>2, <3>4, ViewStays
  <2> QED
    BY <2>2, <2>3
<1>9. ASSUME NEW p \in Procs, La!CloseStale(p) PROVE View'
  <2>1. NoNewDock
    BY <1>9 DEF La!CloseStale, TypeInv, Globals
  <2> QED
    BY <1>1, <1>9, <2>1, CloseStaleTypes, LeavesView, ViewStays
<1>10. ASSUME NEW p \in Procs, La!TimeOut(p) \/ La!Place(p) \/ La!Forget(p) \/ La!Overlay(p)
       PROVE  View'
  BY <1>1, <1>10, LeavingTypes, LeavesView, ViewStays
<1>11. ASSUME NEW p \in Procs, La!LoseOpen(p) \/ La!LoseClose(p) \/ La!CallFails(p) \/ La!Dies(p)
       PROVE  View'
  BY <1>2, <1>11 DEF La!LoseOpen, La!LoseClose, La!CallFails, La!Dies
<1> QED
  BY <1>3, <1>4, <1>5, <1>6, <1>7, <1>8, <1>9, <1>10, <1>11 DEF La!Next, La!Step

(* However toggles and restores of a tab overlap, and however panes exit   *)
(* and servers restart, no two docks are open in it, unless a call failed  *)
(* (toggle() and restore_record() under the lock of the tab).              *)
THEOREM OneDockInTab ==
  ASSUME LauncherConstants
  PROVE  La!Spec => []La!OneDockPerTab
<1> DEFINE Inv == TypeInv /\ View
<1>1. La!Init => Inv
  <2> SUFFICES ASSUME La!Init PROVE Inv
    OBVIOUS
  <2>1. \A x \in Panes : pane[x] \notin {"dock", "late"}
    BY DEF La!Init
  <2>2. \A t \in Tabs : La!DocksIn(t) = {}
    BY <2>1 DEF La!DocksIn, La!PanesIn
  <2>3. View
    BY <2>1, <2>2 DEF View, Single, NoneLate, Sees, La!Init
  <2> QED
    BY <2>3, TypeInit
<1>2. Inv /\ [La!Next]_(La!vars) => Inv'
  BY LauncherTypeStep, ViewStep
<1>3. Inv => La!OneDockPerTab
  BY SingleIsOne
<1> QED
  BY <1>1, <1>2, <1>3, PTL DEF La!Spec

(***************************************************************************)
(* The last terminal.  While a restore holds the lock of a tab with a      *)
(* stale shell to close, another terminal stays open in that tab: the user *)
(* waits for the restore, and no other hook works in the tab.              *)
(***************************************************************************)

Company(p) ==
    stale[p] # La!NoPane =>
        /\ place[p] \in InTab \ {"tabLock"}
        /\ job[p].mode = "restore"
        /\ HomeOf[stale[p]] = job[p].tab
        /\ \E y \in Panes : y # stale[p] /\ HomeOf[y] = job[p].tab /\ pane[y] = "shell"

Companies == \A p \in Procs : Company(p)

(* The process forgets the shell, or goes on in the same tab.              *)
Follows(q) == \/ stale'[q] = La!NoPane
              \/ /\ stale'[q] = stale[q]
                 /\ job'[q] = job[q]
                 /\ place[q] \in InTab \ {"tabLock"} => place'[q] \in InTab \ {"tabLock"}

ShellsStay(t) == \A y \in Panes : HomeOf[y] = t /\ pane[y] = "shell" => pane'[y] = "shell"

LEMMA CompanyStays ==
  ASSUME NEW q \in Procs, Company(q), Follows(q), stale[q] # La!NoPane => ShellsStay(job[q].tab)
  PROVE  Company(q)'
BY DEF Company, Follows, ShellsStay

LEMMA LeavesFollows ==
  ASSUME NEW p \in Procs, Leaves(p)
  PROVE  \A q \in Procs : Follows(q)
BY DEF Leaves, Follows, Knowledge

LEMMA StaleInTab ==
  ASSUME TypeInv, NEW q \in Procs, Company(q), stale[q] # La!NoPane
  PROVE  /\ job[q].tab \in Tabs
         /\ tabLock[job[q].tab] = q
         /\ La!Restoring(ServerOf[job[q].tab])
<1>1. job[q].tab \in Tabs /\ place[q] # "tabLock" /\ job[q].mode = "restore"
  BY DEF Company, TypeInv, Where
<1>2. tabLock[job[q].tab] = q
  BY <1>1 DEF TypeInv, Locks
<1>3. ServerOf[job[q].tab] = job[q].server
  BY <1>1 DEF TypeInv, Where
<1> QED
  BY <1>1, <1>2, <1>3 DEF La!Restoring

LEMMA EnvironmentCompany ==
  ASSUME LauncherConstants, UserWaits, TypeInv, Companies, La!Environment
  PROVE  Companies'
<1>1. UNCHANGED <<tabLock, place, La!locals>>
  BY EnvironmentTypes
<1> SUFFICES ASSUME NEW q \in Procs PROVE Company(q)'
  BY DEF Companies
<1>2. Follows(q) /\ Company(q)
  BY <1>1 DEF La!locals, Follows, Companies
<1>3. stale[q] # La!NoPane => ShellsStay(job[q].tab)
  <2> SUFFICES ASSUME stale[q] # La!NoPane, NEW y \in Panes,
                      HomeOf[y] = job[q].tab, pane[y] = "shell"
               PROVE  pane'[y] = "shell"
    BY DEF ShellsStay
  <2>1. La!Restoring(ServerOf[HomeOf[y]])
    BY <1>2, StaleInTab
  <2> USE DEF TypeInv, Globals
  <2>2. ASSUME NEW x \in Panes, La!OnExit(x) PROVE pane'[y] = "shell"
    BY <2>2 DEF La!OnExit
  <2>3. ASSUME NEW x \in Panes, La!PaneExits(x) PROVE pane'[y] = "shell"
    <3>1. x # y
      BY <2>1, <2>3 DEF La!PaneExits
    <3> QED
      BY <2>3, <3>1 DEF La!PaneExits
  <2>4. ASSUME NEW x \in Panes, La!LateOpen(x) PROVE pane'[y] = "shell"
    BY <2>4 DEF La!LateOpen
  <2>5. ASSUME NEW r \in Servers, La!Restart(r) PROVE pane'[y] = "shell"
    BY <2>5 DEF La!Restart
  <2> QED
    BY <2>2, <2>3, <2>4, <2>5 DEF La!Environment
<1> QED
  BY <1>2, <1>3, CompanyStays

LEMMA QueryCompany ==
  ASSUME LauncherConstants, TypeInv, Companies, NEW p \in Procs, La!Query(p)
  PROVE  Companies'
<1> SUFFICES ASSUME NEW q \in Procs PROVE Company(q)'
  BY DEF Companies
<1>1. ShellsStay(job[q].tab) /\ UNCHANGED pane
  BY DEF La!Query, La!world, ShellsStay
<1>2. place[p] \in InTab /\ Company(q)
  BY DEF La!Query, InTab, Places, Companies
<1>3. CASE La!DoneWith(p, La!NoPane)
  BY <1>1, <1>2, <1>3, DoneWithEffect, LeavesFollows, CompanyStays DEF TypeInv
<1>4. CASE /\ stale' = [stale EXCEPT ![p] = IF opened[p] THEN @ ELSE La!StaleShell(p)]
           /\ La!Goto(p, "verify")
           /\ UNCHANGED job
  <2>1. /\ stale'[q] = IF q = p /\ ~opened[p] THEN La!StaleShell(p) ELSE stale[q]
        /\ place'[q] = IF q = p THEN "verify" ELSE place[q]
    BY <1>4 DEF La!Goto, TypeInv, Locals
  <2>2. CASE q = p /\ ~opened[p]
    <3>1. stale'[p] = La!StaleShell(p) /\ place'[p] \in InTab \ {"tabLock"}
      BY <2>1, <2>2 DEF InTab, Places
    <3>2. stale'[p] # La!NoPane =>
             /\ job[p].mode = "restore"
             /\ stale'[p] \in La!PanesIn(job[p].tab)
             /\ \E y \in La!PanesIn(job[p].tab) \ {stale'[p]} : La!IsTerminal(y)
      BY <3>1 DEF La!StaleShell
    <3>3. UNCHANGED <<job, pane>>
      BY <1>1, <1>4
    <3> QED
      BY <2>2, <3>1, <3>2, <3>3 DEF Company, La!PanesIn, La!IsTerminal
  <2>3. CASE ~(q = p /\ ~opened[p])
    <3>1. Follows(q)
      BY <1>4, <2>1, <2>3 DEF Follows, InTab, Places
    <3> QED
      BY <1>1, <1>2, <3>1, CompanyStays
  <2> QED
    BY <2>2, <2>3
<1> QED
  BY <1>3, <1>4 DEF La!Query

(* The shell that is closed has company, and is of no other tab.           *)
LEMMA CloseStaleCompany ==
  ASSUME LauncherConstants, TypeInv, Companies, NEW p \in Procs, La!CloseStale(p)
  PROVE  Companies'
<1> SUFFICES ASSUME NEW q \in Procs PROVE Company(q)'
  BY DEF Companies
<1>1. Company(p) /\ Company(q)
  BY DEF Companies
<1>2. Follows(q) /\ stale'[p] = La!NoPane
  BY CloseStaleTypes, LeavesFollows DEF Leaves
<1>3. CASE q = p
  BY <1>2, <1>3 DEF Company
<1>4. CASE q # p
  <2>1. ASSUME stale[q] # La!NoPane PROVE ShellsStay(job[q].tab)
    <3>1. CASE stale[p] = La!NoPane
      BY <3>1 DEF La!CloseStale, ShellsStay
    <3>2. CASE stale[p] # La!NoPane
      <4>1. HomeOf[stale[p]] = job[p].tab /\ job[p].tab # job[q].tab
        BY <1>1, <1>4, <2>1, <3>2, StaleInTab DEF Company
      <4>2. pane' = pane \/ pane' = [pane EXCEPT ![stale[p]] = "gone"]
        BY DEF La!CloseStale
      <4> QED
        BY <4>1, <4>2 DEF ShellsStay, TypeInv, Globals
    <3> QED
      BY <3>1, <3>2
  <2> QED
    BY <1>1, <1>2, <2>1, CompanyStays
<1> QED
  BY <1>3, <1>4

LEMMA WorkingCompany ==
  ASSUME LauncherConstants, TypeInv, Companies, NEW p \in Procs,
         \/ (\E t \in Tabs : La!StartToggle(p, t)) \/ (\E s \in Servers : La!StartRestore(p, s))
         \/ La!NextRecord(p) \/ La!LockTab(p) \/ La!Verify(p) \/ La!Dedupe(p) \/ La!Decide(p)
         \/ La!OpenDock(p)
         \/ La!Persist(p) \/ La!CloseDock(p) \/ La!LoseOpen(p) \/ La!LoseClose(p)
  PROVE  Companies'
<1> SUFFICES ASSUME NEW q \in Procs PROVE Company(q)'
  BY DEF Companies
<1>1. \A t : ShellsStay(t)
  <2>1. ASSUME La!Dedupe(p) PROVE \A t : ShellsStay(t)
    BY <2>1 DEF La!Dedupe, ShellsStay, TypeInv, Globals
  <2>2. ASSUME La!CloseDock(p) \/ La!LoseClose(p) PROVE \A t : ShellsStay(t)
    BY <2>2 DEF La!CloseDock, La!LoseClose, ShellsStay, TypeInv, Globals
  <2>3. ASSUME NEW u \in Tabs, La!Unused(u) # {}, NEW v,
               pane' = [pane EXCEPT ![La!Min(La!Unused(u))] = v]
        PROVE  \A t : ShellsStay(t)
    <3>1. La!Min(La!Unused(u)) \in La!Unused(u)
      BY <2>3, FirstPane DEF La!Unused
    <3>2. pane[La!Min(La!Unused(u))] = "unused"
      BY <3>1 DEF La!Unused
    <3> QED
      BY <2>3, <3>2 DEF ShellsStay, TypeInv, Globals
  <2>4. ASSUME La!OpenDock(p) \/ La!LoseOpen(p) PROVE \A t : ShellsStay(t)
    <3>1. job[p].tab \in Tabs
      BY <2>4 DEF La!OpenDock, La!LoseOpen, TypeInv, Where, InTab, Places
    <3>2. \/ UNCHANGED pane
          \/ \E v : La!Unused(job[p].tab) # {}
                /\ pane' = [pane EXCEPT ![La!Min(La!Unused(job[p].tab))] = v]
      BY <2>4 DEF La!OpenDock, La!LoseOpen
    <3> QED
      BY <2>3, <3>1, <3>2 DEF ShellsStay
  <2>5. CASE UNCHANGED pane
    BY <2>5 DEF ShellsStay
  <2> QED
    BY <2>1, <2>2, <2>4, <2>5
       DEF La!StartToggle, La!StartRestore, La!NextRecord, La!LockTab, La!Verify, La!Decide,
           La!Persist, La!world
<1>2. Company(q)
  BY DEF Companies
<1>3. ASSUME (\E t \in Tabs : La!StartToggle(p, t)) \/ (\E s \in Servers : La!StartRestore(p, s))
                \/ La!NextRecord(p) \/ La!LockTab(p)
      PROVE  Follows(q)
  <2>1. UNCHANGED stale /\ place[p] \notin InTab \ {"tabLock"}
    BY <1>3 DEF La!StartToggle, La!StartRestore, La!NextRecord, La!LockTab, La!locals, InTab,
        Places
  <2>2. CASE q = p
    BY <1>2, <2>1, <2>2 DEF Company, Follows
  <2>3. CASE q # p
    BY <1>3, <2>1, <2>3
       DEF La!StartToggle, La!StartRestore, La!NextRecord, La!LockTab, La!locals, La!Goto,
           Follows, TypeInv, Locals
  <2> QED
    BY <2>2, <2>3
<1>4. ASSUME La!Verify(p) \/ La!Dedupe(p) \/ La!Decide(p) \/ La!OpenDock(p)
                \/ La!Persist(p) \/ La!CloseDock(p) \/ La!LoseOpen(p) \/ La!LoseClose(p)
      PROVE  Follows(q)
  <2>1. place[p] \in InTab
    BY <1>4 DEF La!Verify, La!Dedupe, La!Decide, La!OpenDock, La!Persist, La!CloseDock,
        La!LoseOpen, La!LoseClose,
                InTab, Places
  <2>2. CASE La!Abandon(p)
    BY <2>1, <2>2, AbandonEffect, LeavesFollows DEF TypeInv
  <2>3. CASE La!End(p)
    BY <2>3, EndEffect, LeavesFollows DEF TypeInv
  <2>4. CASE ~La!Abandon(p) /\ ~La!End(p)
    <3>1. UNCHANGED <<job, stale>>
      BY <1>4, <2>4 DEF La!Verify, La!Dedupe, La!Decide, La!OpenDock, La!Persist, La!CloseDock,
          La!LoseOpen, La!LoseClose,
                        La!locals
    <3>2. \/ UNCHANGED place
          \/ \E l \in InTab \ {"tabLock"} : La!Goto(p, l)
      BY <1>4, <2>4 DEF La!Verify, La!Dedupe, La!Decide, La!OpenDock, La!Persist, La!CloseDock,
          La!LoseOpen, La!LoseClose,
                        InTab, Places
    <3> QED
      BY <3>1, <3>2 DEF Follows, La!Goto, TypeInv, Locals
  <2> QED
    BY <2>2, <2>3, <2>4
<1>5. Follows(q)
  BY <1>3, <1>4
<1> QED
  BY <1>1, <1>2, <1>5, CompanyStays

LEMMA CompanyStep ==
  ASSUME LauncherConstants, UserWaits, TypeInv, Companies, [La!Next]_(La!vars)
  PROVE  Companies'
<1>1. CASE UNCHANGED La!vars
  BY <1>1 DEF La!vars, La!world, La!locals, Companies, Company
<1>2. CASE La!Environment
  BY <1>2, EnvironmentCompany
<1>3. ASSUME NEW p \in Procs, La!Query(p) PROVE Companies'
  BY <1>3, QueryCompany
<1>4. ASSUME NEW p \in Procs, La!CloseStale(p) PROVE Companies'
  BY <1>4, CloseStaleCompany
<1>5. ASSUME NEW p \in Procs,
             La!TimeOut(p) \/ La!Place(p) \/ La!Forget(p) \/ La!Overlay(p)
             \/ La!CallFails(p) \/ La!Dies(p)
      PROVE  Companies'
  <2>1. Leaves(p) /\ UNCHANGED pane
    BY <1>5, LeavingTypes
  <2>2. \A q \in Procs : Follows(q) /\ ShellsStay(job[q].tab)
    BY <2>1, LeavesFollows DEF ShellsStay
  <2> QED
    BY <2>2, CompanyStays DEF Companies
<1> QED
  BY <1>1, <1>2, <1>3, <1>4, <1>5, WorkingCompany DEF La!Next, La!Step

LEMMA CompanyRemains ==
  ASSUME LauncherConstants, TypeInv, Companies
  PROVE  La!Remains
<1> SUFFICES ASSUME NEW t \in Tabs, NEW x \in La!PanesIn(t), La!IsTerminal(x),
                    NEW p \in Procs, La!CloseStale(p)
             PROVE  (\E y \in La!PanesIn(t) : La!IsTerminal(y))'
  BY DEF La!Remains
<1>1. PICK y \in Panes : HomeOf[y] = t /\ pane'[y] = "shell"
  <2>1. x \in Panes /\ HomeOf[x] = t /\ pane[x] = "shell"
    BY DEF La!PanesIn, La!IsTerminal
  <2>2. \/ UNCHANGED pane
        \/ stale[p] # La!NoPane /\ pane' = [pane EXCEPT ![stale[p]] = "gone"]
    BY DEF La!CloseStale
  <2>3. CASE UNCHANGED pane
    BY <2>1, <2>3
  <2>4. CASE stale[p] # La!NoPane /\ pane' = [pane EXCEPT ![stale[p]] = "gone"]
    <3>1. \A y \in Panes \ {stale[p]} : pane'[y] = pane[y]
      BY <2>4 DEF TypeInv, Globals
    <3>2. CASE x # stale[p]
      BY <2>1, <3>1, <3>2
    <3>3. CASE x = stale[p]
      <4>1. PICK y \in Panes : y # stale[p] /\ HomeOf[y] = t /\ pane[y] = "shell"
        BY <2>1, <2>4, <3>3 DEF Companies, Company
      <4> QED
        BY <3>1, <4>1
    <3> QED
      BY <3>2, <3>3
  <2> QED
    BY <2>2, <2>3, <2>4
<1> QED
  BY <1>1 DEF La!PanesIn, La!Open, La!IsTerminal

(* When the user waits for the hooks of a server, closing the shell that a *)
(* restart left in a dock's place never takes the last ordinary terminal   *)
(* of the tab, although it is closed some calls after the terminals were   *)
(* counted (restore_record(), close_restored_shell()).                     *)
THEOREM LastTerminalStays ==
  ASSUME LauncherConstants, UserWaits
  PROVE  La!Spec => La!TerminalRemains
<1> DEFINE Inv == TypeInv /\ Companies
<1>1. La!Init => Inv
  BY TypeInit DEF La!Init, Companies, Company
<1>2. Inv /\ [La!Next]_(La!vars) => Inv'
  BY LauncherTypeStep, CompanyStep
<1>3. Inv => La!Remains
  BY CompanyRemains
<1>4. Inv /\ [La!Next]_(La!vars) => [La!Remains]_pane
  BY <1>3
<1> QED
  BY <1>1, <1>2, <1>4, PTL DEF La!Spec, La!TerminalRemains

(***************************************************************************)
(* The records are the docks.  As long as no call fails, the file follows  *)
(* the panes: a tab nobody restores has its dock in the file, but for the  *)
(* one its toggle has just opened; a server that is to be restored has no  *)
(* dock; and a restore keeps for each tab it is done with the dock that    *)
(* is open there.                                                          *)
(***************************************************************************)

(* Docks are opened by hooks only after the startup hooks are done, the    *)
(* startup hook of a server runs, and the file has room for every tab.     *)
RecordsKept ==
    /\ UserWaits /\ RestoreOnStartup
    /\ Cardinality(Servers) <= MaxServers
    /\ \A s \in Servers : Cardinality({t \in Tabs : ServerOf[t] = s}) <= MaxRecords

(* What a process is about.                                                *)
Mode(p) ==
    /\ job[p].mode = "none" <=> place[p] = "idle"
    /\ job[p].mode = "toggle" => job[p].tab \in Tabs /\ job[p].server = ServerOf[job[p].tab]
    /\ place[p] \in {"persist", "placing", "closeDock", "forget"} => job[p].mode = "toggle"
    /\ place[p] \in {"nextRecord", "closeStale", "overlay"} => job[p].mode = "restore"
    /\ opened[p] => place[p] \in {"query", "verify", "dedupe", "persist", "placing", "closeStale"}
    /\ job[p].mode = "restore" => /\ job[p].tab \in Tabs => job[p].tab \in todo[p]
                                  /\ place[p] = "overlay" => todo[p] = {}

(* What it knows of the tab whose lock it holds.                           *)
Knows(p) ==
    /\ place[p] \in {"verify", "dedupe", "opening"} =>
          /\ seen[p] \subseteq La!PanesIn(job[p].tab)
          /\ job[p].mode = "restore" => seen[p] # {}
    /\ place[p] \in {"dedupe", "persist", "closeDock", "closeStale"} =>
          docks[p] = La!DocksIn(job[p].tab)
    /\ place[p] \in {"query", "verify", "dedupe"} /\ opened[p] => La!DocksIn(job[p].tab) # {}
    /\ place[p] = "forget" => La!DocksIn(job[p].tab) = {}

(* It has opened a dock that is not in the file yet.                       *)
Opening(p, t) ==
    /\ job[p].mode = "toggle" /\ job[p].tab = t /\ opened[p]
    /\ place[p] \in {"query", "verify", "dedupe", "persist"}

Calm(t) ==
    ~La!Restoring(ServerOf[t]) =>
        /\ records[t] \in La!DocksIn(t) \cup exits \cup {La!NoPane}
        /\ La!DocksIn(t) \subseteq {records[t]} \/ \E p \in Procs : Opening(p, t)
Waiting(t) == ServerOf[t] \in startups => La!DocksIn(t) = {}
Restored(p, t) ==
    job[p].mode = "restore" /\ job[p].server = ServerOf[t] =>
        IF t \in todo[p] THEN La!DocksIn(t) = {} \/ (job[p].tab = t /\ opened[p])
        ELSE /\ kept[p][t] \in La!DocksIn(t) \cup {La!NoPane}
             /\ La!DocksIn(t) \subseteq {kept[p][t]}

(* A restore is alone with its server.                                     *)
NoOther(p) ==
    /\ job[p].mode # "none" => job[p].server \in Servers \ startups
    /\ job[p].mode = "restore" =>
          \A q \in Procs \ {p} : job[q].mode # "none" => job[q].server # job[p].server

(* A record names a pane of its tab, and an exited pane is gone.           *)
Homes ==
    /\ \A t \in Tabs : records[t] # La!NoPane => HomeOf[records[t]] = t
    /\ \A x \in exits : pane[x] = "gone"

Book ==
    faults = 0 =>
        /\ Homes
        /\ \A p \in Procs : Mode(p) /\ Knows(p) /\ NoOther(p)
        /\ \A t \in Tabs : Calm(t) /\ Waiting(t) /\ \A p \in Procs : Restored(p, t)

(* With room for every tab the file drops no record.                       *)
LEMMA Uncut ==
  ASSUME RecordsKept, NEW f \in La!Files
  PROVE  /\ La!Clamped(f) = f
         /\ \A t \in Tabs : La!HasRoomFor(f, t)
<1>1. /\ La!IsFiniteSet(Servers) /\ La!IsFiniteSet(Tabs) /\ La!Cardinality(Servers) \in Nat
      /\ MaxServers \in Nat /\ MaxRecords \in Nat
  BY ServersAssumption, TabsAssumption, CapsAssumption, FS_CardinalityType, LauncherOperators
<1>2. ASSUME NEW s \in Servers, NEW S \in SUBSET (Servers \ {s})
      PROVE  La!Cardinality(S) < MaxServers
  <2>1. La!Cardinality(Servers \ {s}) = La!Cardinality(Servers) - 1 /\ La!IsFiniteSet(Servers \ {s})
    BY <1>1, FS_RemoveElement, LauncherOperators
  <2>2. La!Cardinality(S) <= La!Cardinality(Servers \ {s}) /\ La!Cardinality(S) \in Nat
    BY <2>1, FS_Subset, FS_CardinalityType, LauncherOperators
  <2> QED
    BY <1>1, <2>1, <2>2, LauncherOperators DEF RecordsKept
<1>3. \A t \in Tabs : ServerOf[t] \in Servers
  BY TabsAssumption
<1>4. La!Clamped(f) = f
  <2>1. \A t \in Tabs : La!Cardinality(La!Before(f, ServerOf[t])) < MaxServers
    <3> TAKE t \in Tabs
    <3>1. La!Before(f, ServerOf[t]) \in SUBSET (Servers \ {ServerOf[t]})
      <4>1. \A r \in Servers : r < ServerOf[t] => r # ServerOf[t]
        BY ServersAssumption, <1>3
      <4> QED
        BY <4>1 DEF La!Before, La!Tracked
    <3> QED
      BY <1>2, <1>3, <3>1
  <2> QED
    BY <2>1 DEF La!Clamped, La!Files
<1>5. ASSUME NEW t \in Tabs PROVE La!HasRoomFor(f, t)
  <2> DEFINE s == ServerOf[t]
             Of == {u \in Tabs : ServerOf[u] = s}
  <2>1. CASE s \notin La!Tracked(f)
    <3>1. La!Tracked(f) \in SUBSET (Servers \ {s})
      BY <2>1 DEF La!Tracked
    <3> QED
      BY <1>2, <1>3, <2>1, <3>1 DEF La!HasRoomFor
  <2>2. CASE f[t] # La!NoPane
    BY <2>2 DEF La!HasRoomFor
  <2>3. CASE s \in La!Tracked(f) /\ f[t] = La!NoPane
    <3>1. La!IsFiniteSet(Of) /\ La!Cardinality(Of) \in Nat
      BY <1>1, FS_Subset, FS_CardinalityType, LauncherOperators
    <3>2. La!Cardinality(Of \ {t}) = La!Cardinality(Of) - 1 /\ La!IsFiniteSet(Of \ {t})
      BY <3>1, FS_RemoveElement, LauncherOperators
    <3>3. La!Section(f, s) \subseteq Of \ {t}
      BY <2>3 DEF La!Section
    <3>4. La!Cardinality(La!Section(f, s)) <= La!Cardinality(Of \ {t})
          /\ La!Cardinality(La!Section(f, s)) \in Nat
      BY <3>2, <3>3, FS_Subset, FS_CardinalityType, LauncherOperators
    <3>5. La!Cardinality(Of) <= MaxRecords
      BY <1>3, LauncherOperators DEF RecordsKept
    <3>6. La!Cardinality(La!Section(f, s)) < MaxRecords
      <4> HIDE DEF Of, s
      <4> QED BY <1>1, <3>1, <3>2, <3>4, <3>5
    <3> QED
      BY <2>3, <3>6 DEF La!HasRoomFor
  <2> QED
    BY <2>1, <2>2, <2>3
<1> QED
  BY <1>4, <1>5

LEMMA AppliedHere ==
  ASSUME RecordsKept, NEW f \in La!Files, NEW r,
         r.kind \in {"upsert", "remove", "prune", "replace"},
         r.kind = "upsert" => r.tab \in Tabs
  PROVE  La!Applied(r, f) = La!Result(r, f)
BY Uncut DEF La!Applied, La!Writes

(***************************************************************************)
(* A step of one process leaves the tabs and the knowledge of the others   *)
(* alone: they are in other tabs, or wait for the lock of this one.        *)
(***************************************************************************)

LEMMA TabOfJob ==
  ASSUME TypeInv, NEW p \in Procs, Mode(p), job[p].tab \in Tabs
  PROVE  job[p].mode # "none" /\ job[p].server = ServerOf[job[p].tab]
BY DEF TypeInv, Where, Mode, Locals, Jobs, InTab, Places

Elsewhere(p) ==
    /\ \A q \in Procs \ {p} : Knowledge(q)' = Knowledge(q)
    /\ startups' = startups /\ exits \subseteq exits'
    /\ UNCHANGED pane \/ place[p] # "tabLock"
    /\ \A x \in Panes : HomeOf[x] # job[p].tab => pane'[x] = pane[x]
    /\ \A t \in Tabs : t # job[p].tab => records'[t] = records[t]
    /\ \/ job'[p].mode = job[p].mode /\ job'[p].server = job[p].server
       \/ job'[p].mode = "none" /\ job[p].mode # "restore"
       \/ /\ job[p].mode = "none" /\ job'[p].mode = "toggle"
          /\ job'[p].server \in Servers /\ ~La!Restoring(job'[p].server)

LEMMA AloneStays ==
  ASSUME TypeInv, \A q \in Procs : Mode(q) /\ NoOther(q), NEW p \in Procs, Elsewhere(p)
  PROVE  /\ \A q \in Procs : NoOther(q)'
         /\ \A s : La!Restoring(s)' <=> La!Restoring(s)
<1>1. \A q \in Procs \ {p} : job'[q] = job[q]
  BY DEF Elsewhere, Knowledge
<1>2. ASSUME NEW q \in Procs PROVE NoOther(q)'
  <2>1. CASE job'[p].mode = job[p].mode /\ job'[p].server = job[p].server
    <3>1. \A r \in Procs : job'[r].mode = job[r].mode /\ job'[r].server = job[r].server
      BY <1>1, <2>1
    <3> QED
      BY <3>1 DEF NoOther, Elsewhere
  <2>2. CASE job'[p].mode = "none" /\ job[p].mode # "restore"
    BY <1>1, <2>2 DEF NoOther, Elsewhere
  <2>3. CASE /\ job[p].mode = "none" /\ job'[p].mode = "toggle"
             /\ job'[p].server \in Servers /\ ~La!Restoring(job'[p].server)
    <3>1. /\ job'[p].server \notin startups
          /\ \A r \in Procs : job[r].mode = "restore" => job[r].server # job'[p].server
      BY <2>3 DEF La!Restoring
    <3> QED
      BY <1>1, <2>3, <3>1 DEF NoOther, Elsewhere
  <2> QED
    BY <2>1, <2>2, <2>3 DEF Elsewhere
<1>3. ASSUME NEW s PROVE La!Restoring(s)' <=> La!Restoring(s)
  <2>1. \A q \in Procs : /\ job'[q].mode = "restore" <=> job[q].mode = "restore"
                         /\ job[q].mode = "restore" => job'[q].server = job[q].server
    BY <1>1 DEF Elsewhere
  <2> QED
    BY <2>1 DEF La!Restoring, Elsewhere
<1> QED
  BY <1>2, <1>3

LEMMA SameTab ==
  ASSUME NEW t, \A x \in Panes : HomeOf[x] = t => pane'[x] = pane[x]
  PROVE  La!DocksIn(t)' = La!DocksIn(t) /\ La!PanesIn(t)' = La!PanesIn(t)
BY DEF La!DocksIn, La!PanesIn, La!Open

LEMMA BookByProcess ==
  ASSUME LauncherConstants, TypeInv, Book, faults = 0, NEW p \in Procs, Elsewhere(p),
         Homes', Mode(p)', Knows(p)', \A t \in Tabs : Restored(p, t)',
         \A t \in Tabs : t = job[p].tab => Calm(t)'
  PROVE  Book'
<1>1. \A q \in Procs : Mode(q) /\ Knows(q) /\ NoOther(q)
  BY DEF Book
<1>2. (\A q \in Procs : NoOther(q)') /\ \A s : La!Restoring(s)' <=> La!Restoring(s)
  BY <1>1, AloneStays
<1>3. \A q \in Procs \ {p} :
         /\ place'[q] = place[q] /\ job'[q] = job[q] /\ seen'[q] = seen[q] /\ docks'[q] = docks[q]
         /\ opened'[q] = opened[q] /\ todo'[q] = todo[q] /\ kept'[q] = kept[q]
  BY DEF Elsewhere, Knowledge
<1>4. ASSUME NEW t, t # job[p].tab \/ UNCHANGED pane
      PROVE  La!DocksIn(t)' = La!DocksIn(t) /\ La!PanesIn(t)' = La!PanesIn(t)
  <2>1. \A x \in Panes : HomeOf[x] = t => pane'[x] = pane[x]
    BY <1>4 DEF Elsewhere
  <2> QED
    BY <2>1, SameTab
<1>5. ASSUME NEW q \in Procs, q # p PROVE Mode(q)'
  BY <1>1, <1>3, <1>5 DEF Mode
<1>6. ASSUME NEW q \in Procs, q # p PROVE Knows(q)'
  <2>1. CASE place[q] \in InTab \ {"tabLock"}
    <3>1. job[q].tab \in Tabs /\ tabLock[job[q].tab] = q
      BY <2>1 DEF TypeInv, Where, Locks
    <3>2. job[q].tab # job[p].tab \/ UNCHANGED pane
      <4>1. CASE place[p] # "tabLock"
        BY <1>6, <3>1, <4>1 DEF TypeInv, Locks
      <4> QED
        BY <4>1 DEF Elsewhere
    <3>3. PICK t \in Tabs : t = job[q].tab
      BY <3>1
    <3>4. La!DocksIn(t)' = La!DocksIn(t) /\ La!PanesIn(t)' = La!PanesIn(t)
      BY <1>4, <3>2, <3>3
    <3>5. job'[q].tab = t
      BY <1>3, <1>6, <3>3
    <3>6. Knows(q)
      BY <1>1
    <3> QED
      BY <1>3, <1>6, <3>3, <3>4, <3>5, <3>6 DEF Knows, La!DocksIn, La!PanesIn, La!Open
  <2>2. CASE place[q] \notin InTab \ {"tabLock"}
    BY <1>3, <1>6, <2>2 DEF Knows, InTab, Places
  <2> QED
    BY <2>1, <2>2
<1>7. ASSUME NEW q \in Procs, q # p, NEW t \in Tabs PROVE Restored(q, t)'
  <2>1. CASE job[q].mode = "restore" /\ job[q].server = ServerOf[t]
    <3>1. t # job[p].tab
      BY <1>1, <1>7, <2>1, TabOfJob DEF NoOther
    <3>2. La!DocksIn(t)' = La!DocksIn(t)
      BY <1>4, <3>1
    <3>3. Restored(q, t)
      BY DEF Book
    <3> QED
      BY <1>3, <1>7, <3>2, <3>3 DEF Restored
  <2>2. CASE ~(job[q].mode = "restore" /\ job[q].server = ServerOf[t])
    BY <1>3, <1>7, <2>2 DEF Restored
  <2> QED
    BY <2>1, <2>2
<1>8. ASSUME NEW t \in Tabs PROVE Waiting(t)'
  <2>1. CASE t = job[p].tab
    <3>1. ServerOf[t] \notin startups'
      BY <1>1, <2>1, TabOfJob DEF NoOther, Elsewhere
    <3> QED
      BY <3>1 DEF Waiting
  <2>2. CASE t # job[p].tab
    <3>1. La!DocksIn(t)' = La!DocksIn(t) /\ Waiting(t)
      BY <1>4, <2>2 DEF Book
    <3> QED
      BY <3>1 DEF Waiting, Elsewhere
  <2> QED
    BY <2>1, <2>2
<1>9. ASSUME NEW t \in Tabs, t # job[p].tab PROVE Calm(t)'
  <2>1. La!DocksIn(t)' = La!DocksIn(t) /\ Calm(t) /\ records'[t] = records[t]
    BY <1>4, <1>9 DEF Book, Elsewhere
  <2>2. ASSUME NEW q \in Procs, Opening(q, t) PROVE Opening(q, t)'
    <3>1. q # p
      BY <1>9, <2>2 DEF Opening
    <3> QED
      BY <1>3, <2>2, <3>1 DEF Opening
  <2>3. La!Restoring(ServerOf[t])' <=> La!Restoring(ServerOf[t])
    BY <1>2
  <2> QED
    BY <2>1, <2>2, <2>3 DEF Calm, Elsewhere
<1> QED
  BY <1>1, <1>2, <1>5, <1>6, <1>7, <1>8, <1>9 DEF Book

(* A step of p that leaves the panes and the file alone.                   *)
LEMMA QuietStep ==
  ASSUME LauncherConstants, TypeInv, Book, faults = 0, NEW p \in Procs,
         UNCHANGED <<La!world, records>>,
         \A q \in Procs \ {p} : Knowledge(q)' = Knowledge(q),
         \/ job'[p].mode = job[p].mode /\ job'[p].server = job[p].server
         \/ job'[p].mode = "none" /\ job[p].mode # "restore"
         \/ /\ job[p].mode = "none" /\ job'[p].mode = "toggle"
            /\ job'[p].server \in Servers /\ ~La!Restoring(job'[p].server),
         Mode(p)', Knows(p)', \A t \in Tabs : Restored(p, t)',
         \A t \in Tabs : Opening(p, t) => Opening(p, t)'
  PROVE  Book'
<1>1. Elsewhere(p)
  BY DEF La!world, Elsewhere
<1>2. Homes'
  BY DEF Book, Homes, La!world
<1>3. ASSUME NEW t \in Tabs PROVE Calm(t)'
  <2>1. La!DocksIn(t)' = La!DocksIn(t)
    BY DEF La!world, La!DocksIn, La!PanesIn, La!Open
  <2>2. \A q \in Procs : Opening(q, t) => Opening(q, t)'
    BY DEF Opening, Knowledge
  <2>3. \A s : La!Restoring(s)' <=> La!Restoring(s)
    BY <1>1, AloneStays DEF Book
  <2>4. Calm(t)
    BY DEF Book
  <2> QED
    BY <2>1, <2>2, <2>3, <2>4 DEF Calm, La!world
<1> QED
  BY <1>1, <1>2, <1>3, BookByProcess

(* The process works on in its tab.                                        *)
LEMMA SameRestored ==
  ASSUME NEW p \in Procs, NEW t \in Tabs, Restored(p, t), UNCHANGED pane,
         job'[p] = job[p], todo'[p] = todo[p], kept'[p] = kept[p], opened'[p] = opened[p]
  PROVE  Restored(p, t)'
<1>1. La!DocksIn(t)' = La!DocksIn(t)
  BY DEF La!DocksIn, La!PanesIn, La!Open
<1> QED
  BY <1>1 DEF Restored

(* A toggle that ends.                                                     *)
LEMMA EndedHook ==
  ASSUME LauncherConstants, TypeInv, NEW p \in Procs, La!End(p)
  PROVE  /\ \A q \in Procs \ {p} : Knowledge(q)' = Knowledge(q)
         /\ job'[p].mode = "none" /\ job'[p].tab \notin Tabs
         /\ Mode(p)' /\ Knows(p)' /\ \A t : Restored(p, t)'
<1>1. \A q \in Procs \ {p} : Knowledge(q)' = Knowledge(q)
  BY EndEffect DEF TypeInv, Leaves
<1>2. /\ place'[p] = "idle" /\ job'[p] = La!NoJob /\ opened'[p] = FALSE
  BY DEF La!End, La!Goto, La!ForgetTab, TypeInv, Locals
<1>3. La!NoJob.mode = "none" /\ La!NoJob.tab = NoTab
  BY DEF La!NoJob
<1> QED
  BY <1>1, <1>2, <1>3 DEF Mode, Knows, Restored, LauncherConstants

(* A restore that is done with the record of its tab, where it leaves the  *)
(* dock it found or none.                                                  *)
LEMMA DoneRestore ==
  ASSUME LauncherConstants, TypeInv, Book, faults = 0, NEW p \in Procs, job[p].mode = "restore",
         place[p] \in InTab, NEW x \in Panes \cup {La!NoPane}, La!DoneWith(p, x),
         \A y \in Panes : pane'[y] = "dock" <=> pane[y] = "dock",
         La!DocksIn(job[p].tab) \subseteq {x}, x \in La!DocksIn(job[p].tab) \cup {La!NoPane}
  PROVE  /\ \A q \in Procs \ {p} : Knowledge(q)' = Knowledge(q)
         /\ job'[p].mode = job[p].mode /\ job'[p].server = job[p].server
         /\ Mode(p)' /\ Knows(p)' /\ \A t \in Tabs : Restored(p, t)'
<1>1. \A q \in Procs \ {p} : Knowledge(q)' = Knowledge(q)
  BY DoneWithEffect DEF TypeInv, Leaves
<1>2. PICK u \in Tabs : u = job[p].tab
  BY DEF TypeInv, Where
<1>3. /\ place'[p] = IF todo[p] = {u} THEN "overlay" ELSE "nextRecord"
      /\ todo'[p] = todo[p] \ {u}
      /\ opened'[p] = FALSE
  BY <1>2 DEF La!DoneWith, La!Goto, La!ForgetTab, TypeInv, Locals
<1>4. kept'[p] = [kept[p] EXCEPT ![u] = x]
  BY <1>2 DEF La!DoneWith, TypeInv, Locals
<1>5. \A t \in Tabs : kept'[p][t] = IF t = u THEN x ELSE kept[p][t]
  BY <1>2, <1>4 DEF TypeInv, Locals, La!Files
<1>6. /\ job'[p].mode = job[p].mode /\ job'[p].server = job[p].server /\ job'[p].tab = NoTab
  <2>1. job'[p] = [job[p] EXCEPT !.tab = NoTab] /\ job[p] \in Jobs
    BY DEF La!DoneWith, TypeInv, Locals
  <2> QED
    BY <2>1 DEF Jobs
<1>7. Mode(p)' /\ Knows(p)'
  BY <1>3, <1>6 DEF Mode, Knows, LauncherConstants
<1>8. ASSUME NEW t \in Tabs PROVE Restored(p, t)'
  <2>1. La!DocksIn(t)' = La!DocksIn(t)
    BY DEF La!DocksIn, La!PanesIn, La!Open
  <2>2. Restored(p, t)
    BY DEF Book
  <2>3. CASE t = u
    <3>1. t \notin todo'[p] /\ kept'[p][t] = x
      BY <1>3, <1>5, <2>3
    <3> QED
      BY <1>2, <2>1, <2>3, <3>1 DEF Restored
  <2>4. CASE t # u
    <3>1. (t \in todo'[p] <=> t \in todo[p]) /\ kept'[p][t] = kept[p][t]
      BY <1>3, <1>5, <2>4
    <3> QED
      BY <1>2, <1>6, <2>1, <2>2, <2>4, <3>1 DEF Restored
  <2> QED
    BY <2>3, <2>4
<1> QED
  BY <1>1, <1>6, <1>7, <1>8

LEMMA NextRecordBook ==
  ASSUME LauncherConstants, TypeInv, Book, faults = 0, NEW p \in Procs, La!NextRecord(p)
  PROVE  Book'
<1>1. /\ UNCHANGED <<La!world, records>> /\ UNCHANGED <<opened, todo, kept>>
      /\ \A q \in Procs \ {p} : Knowledge(q)' = Knowledge(q)
  BY DEF La!NextRecord, La!Goto, Knowledge, TypeInv, Locals
<1>2. PICK u \in todo[p] : job' = [job EXCEPT ![p].tab = u]
  BY DEF La!NextRecord
<1>3. job[p].mode = "restore" /\ job[p].tab \notin Tabs /\ ~opened[p] /\ u \in Tabs
  BY DEF La!NextRecord, Book, Mode, TypeInv, Where, InTab, Locals
<1>4. /\ job'[p].mode = job[p].mode /\ job'[p].server = job[p].server /\ job'[p].tab = u
      /\ place'[p] = "tabLock"
  <2>1. job'[p] = [job[p] EXCEPT !.tab = u] /\ job[p] \in Jobs
    BY <1>2 DEF TypeInv, Locals
  <2> QED
    BY <2>1 DEF Jobs, La!NextRecord, La!Goto, TypeInv, Locals
<1>5. Mode(p)' /\ Knows(p)'
  BY <1>1, <1>3, <1>4 DEF Mode, Knows
<1>6. ASSUME NEW t \in Tabs PROVE Restored(p, t)'
  <2>1. Restored(p, t) /\ La!DocksIn(t)' = La!DocksIn(t)
    BY <1>1 DEF Book, La!world, La!DocksIn, La!PanesIn, La!Open
  <2> QED
    BY <1>1, <1>3, <1>4, <2>1 DEF Restored
<1>7. \A t \in Tabs : ~Opening(p, t)
  BY <1>3 DEF Opening
<1> QED
  BY <1>1, <1>4, <1>5, <1>6, <1>7, QuietStep

LEMMA LockTabBook ==
  ASSUME LauncherConstants, TypeInv, Book, faults = 0, NEW p \in Procs, La!LockTab(p)
  PROVE  Book'
<1>1. /\ UNCHANGED <<La!world, records>> /\ UNCHANGED La!locals
      /\ place[p] = "tabLock" /\ place'[p] = "query"
      /\ \A q \in Procs \ {p} : Knowledge(q)' = Knowledge(q)
  BY DEF La!LockTab, La!Goto, Knowledge, TypeInv, Locals, La!locals
<1>2. Mode(p) /\ ~opened[p]
  BY <1>1 DEF Book, Mode
<1>3. Mode(p)' /\ Knows(p)'
  BY <1>1, <1>2 DEF Mode, Knows, La!locals
<1>4. \A t \in Tabs : Restored(p, t)'
  BY <1>1, SameRestored DEF Book, La!world, La!locals
<1>5. \A t \in Tabs : ~Opening(p, t)
  BY <1>2 DEF Opening
<1> QED
  BY <1>1, <1>3, <1>4, <1>5, QuietStep DEF La!locals

LEMMA TimeOutBook ==
  ASSUME LauncherConstants, TypeInv, Book, faults = 0, NEW p \in Procs, La!TimeOut(p)
  PROVE  Book'
<1>1. place[p] = "tabLock" /\ Mode(p) /\ ~opened[p] /\ UNCHANGED <<La!world, records>>
  BY DEF La!TimeOut, Book, Mode
<1>2. job[p].mode = "toggle"
  <2>1. PICK u \in Tabs : u = job[p].tab
    BY <1>1 DEF TypeInv, Where, InTab, Places
  <2>2. PICK q \in Procs : tabLock[u] = q
    BY <2>1 DEF La!TimeOut, TypeInv, Locks
  <2>3. job[q].tab = u /\ q # p
    BY <1>1, <2>1, <2>2 DEF TypeInv, Locks
  <2>4. /\ job[q].mode # "none" /\ job[q].server = ServerOf[u]
        /\ job[p].mode # "none" /\ job[p].server = ServerOf[u]
    BY <2>1, <2>3, TabOfJob DEF Book
  <2>5. job[p].mode # "restore"
    BY <2>3, <2>4 DEF Book, NoOther
  <2> QED
    BY <2>4, <2>5 DEF TypeInv, Locals, Jobs
<1>3. La!End(p)
  BY <1>2 DEF La!TimeOut, La!Abandon
<1>4. \A t \in Tabs : ~Opening(p, t)
  BY <1>1 DEF Opening
<1> QED
  BY <1>1, <1>2, <1>3, <1>4, EndedHook, QuietStep

LEMMA PlaceBook ==
  ASSUME LauncherConstants, TypeInv, Book, faults = 0, NEW p \in Procs, La!Place(p)
  PROVE  Book'
<1>1. place[p] = "placing" /\ Mode(p) /\ UNCHANGED <<La!world, records>> /\ La!End(p)
  BY DEF La!Place, Book
<1>2. job[p].mode = "toggle" /\ \A t \in Tabs : ~Opening(p, t)
  BY <1>1 DEF Mode, Opening
<1> QED
  BY <1>1, <1>2, EndedHook, QuietStep

LEMMA StartToggleBook ==
  ASSUME LauncherConstants, RecordsKept, TypeInv, Book, faults = 0, NEW p \in Procs,
         NEW u \in Tabs, La!StartToggle(p, u)
  PROVE  Book'
<1>1. /\ UNCHANGED <<La!world, records>> /\ UNCHANGED opened /\ place[p] = "idle"
      /\ place'[p] = "tabLock"
      /\ \A q \in Procs \ {p} : Knowledge(q)' = Knowledge(q)
  BY DEF La!StartToggle, La!Goto, Knowledge, TypeInv, Locals
<1>2. job'[p] = [mode |-> "toggle", server |-> ServerOf[u], tab |-> u]
  BY DEF La!StartToggle, TypeInv, Locals
<1>3. /\ ServerOf[u] \in Servers /\ ~La!Restoring(ServerOf[u])
      /\ job'[p].mode = "toggle" /\ job'[p].server = ServerOf[u] /\ job'[p].tab = u
  BY <1>2, TabsAssumption DEF La!StartToggle, RecordsKept
<1>4. Mode(p) /\ job[p].mode = "none" /\ ~opened[p]
  BY <1>1 DEF Book, Mode
<1>5. Mode(p)' /\ Knows(p)' /\ \A t \in Tabs : Restored(p, t)'
  BY <1>1, <1>3, <1>4 DEF Mode, Knows, Restored
<1>6. \A t \in Tabs : ~Opening(p, t)
  BY <1>4 DEF Opening
<1> QED
  BY <1>1, <1>3, <1>4, <1>5, <1>6, QuietStep

LEMMA QueryBook ==
  ASSUME LauncherConstants, TypeInv, Book, faults = 0, NEW p \in Procs, La!Query(p)
  PROVE  Book'
<1>1. /\ UNCHANGED <<La!world, records>> /\ UNCHANGED pane /\ place[p] = "query"
      /\ place[p] \in InTab
      /\ Mode(p) /\ Knows(p)
  BY DEF La!Query, La!world, Book, InTab, Places
<1>2. CASE La!PanesIn(job[p].tab) = {} /\ job[p].mode = "restore" /\ ~opened[p]
  <2>1. La!DoneWith(p, La!NoPane)
    BY <1>2 DEF La!Query
  <2>2. La!DocksIn(job[p].tab) = {}
    BY <1>2 DEF La!DocksIn
  <2>3. \A t \in Tabs : ~Opening(p, t)
    BY <1>2 DEF Opening
  <2> QED
    BY <1>1, <1>2, <2>1, <2>2, <2>3, DoneRestore, QuietStep
<1>3. CASE ~(La!PanesIn(job[p].tab) = {} /\ job[p].mode = "restore" /\ ~opened[p])
  <2>1. /\ seen'[p] = La!PanesIn(job[p].tab) /\ place'[p] = "verify"
        /\ UNCHANGED <<job, docks, opened, todo, kept>>
        /\ \A q \in Procs \ {p} : Knowledge(q)' = Knowledge(q)
    BY <1>3 DEF La!Query, La!Goto, Knowledge, TypeInv, Locals
  <2>2. Mode(p)'
    BY <1>1, <2>1 DEF Mode
  <2>3. Knows(p)'
    <3>1. /\ La!PanesIn(job[p].tab)' = La!PanesIn(job[p].tab)
          /\ La!DocksIn(job[p].tab)' = La!DocksIn(job[p].tab)
          /\ La!DocksIn(job[p].tab) \subseteq La!PanesIn(job[p].tab)
      BY <1>1, <2>1 DEF La!DocksIn, La!PanesIn, La!Open
    <3>2. opened[p] => La!DocksIn(job[p].tab) # {}
      BY <1>1 DEF Knows
    <3>3. job[p].mode = "restore" => La!PanesIn(job[p].tab) # {}
      BY <1>3, <3>1, <3>2
    <3> QED
      BY <2>1, <3>1, <3>2, <3>3 DEF Knows
  <2>4. \A t \in Tabs : Restored(p, t)'
    BY <1>1, <2>1, SameRestored DEF Book
  <2>5. \A t \in Tabs : Opening(p, t) => Opening(p, t)'
    BY <2>1 DEF Opening
  <2> QED
    BY <1>1, <2>1, <2>2, <2>3, <2>4, <2>5, QuietStep
<1> QED
  BY <1>2, <1>3

LEMMA VerifyBook ==
  ASSUME LauncherConstants, TypeInv, View, Book, faults = 0, NEW p \in Procs, La!Verify(p)
  PROVE  Book'
<1>1. /\ UNCHANGED <<La!world, records>> /\ UNCHANGED pane /\ place[p] = "verify"
      /\ place'[p] = "dedupe"
      /\ docks'[p] = {x \in seen[p] : pane[x] = "dock"}
      /\ UNCHANGED <<job, seen, opened, todo, kept>>
      /\ \A q \in Procs \ {p} : Knowledge(q)' = Knowledge(q)
  BY DEF La!Verify, La!world, La!Goto, Knowledge, TypeInv, Locals
<1>2. Mode(p) /\ Knows(p)
  BY DEF Book
<1>3. Mode(p)'
  BY <1>1, <1>2 DEF Mode
<1>4. Knows(p)'
  <2>1. /\ La!PanesIn(job[p].tab)' = La!PanesIn(job[p].tab)
        /\ La!DocksIn(job[p].tab)' = La!DocksIn(job[p].tab)
    BY <1>1 DEF La!DocksIn, La!PanesIn, La!Open
  <2>2. La!DocksIn(job[p].tab) \subseteq seen[p] /\ seen[p] \subseteq La!PanesIn(job[p].tab)
    BY <1>1, <1>2 DEF View, Sees, Knows
  <2>3. docks'[p] = La!DocksIn(job[p].tab)
    BY <1>1, <2>2 DEF La!DocksIn
  <2>4. /\ job[p].mode = "restore" => seen[p] # {}
        /\ opened[p] => La!DocksIn(job[p].tab) # {}
    BY <1>1, <1>2 DEF Knows
  <2> QED
    BY <1>1, <2>1, <2>2, <2>3, <2>4 DEF Knows
<1>5. \A t \in Tabs : Restored(p, t)'
  BY <1>1, SameRestored DEF Book
<1>6. \A t \in Tabs : Opening(p, t) => Opening(p, t)'
  BY <1>1 DEF Opening
<1> QED
  BY <1>1, <1>3, <1>4, <1>5, <1>6, QuietStep

LEMMA DecideBook ==
  ASSUME LauncherConstants, TypeInv, Book, faults = 0, NEW p \in Procs, La!Decide(p)
  PROVE  Book'
<1>1. /\ UNCHANGED <<La!world, records>> /\ UNCHANGED pane /\ place[p] = "dedupe"
      /\ Mode(p) /\ Knows(p) /\ docks[p] = La!DocksIn(job[p].tab)
  BY DEF La!Decide, La!world, Book, Knows
<1>2. ~(docks[p] = {} /\ opened[p])
  BY <1>1 DEF Knows
<1>3. UNCHANGED La!locals
  BY <1>2 DEF La!Decide
<1>4. PICK l \in {"opening", "closeStale", "persist", "placing", "closeDock"} :
         /\ La!Goto(p, l)
         /\ l = "opening" => docks[p] = {}
         /\ l = "closeStale" => job[p].mode = "restore"
         /\ l \in {"persist", "placing", "closeDock"} => job[p].mode = "toggle"
         /\ l \in {"placing", "closeDock"} => ~opened[p]
  BY <1>2 DEF La!Decide
<1>5. place'[p] = l /\ \A q \in Procs \ {p} : Knowledge(q)' = Knowledge(q)
  BY <1>3, <1>4 DEF La!Goto, Knowledge, La!locals, TypeInv, Locals
<1>6. Mode(p)'
  BY <1>1, <1>2, <1>3, <1>4, <1>5 DEF Mode, La!locals
<1>7. Knows(p)'
  <2>1. /\ La!PanesIn(job[p].tab)' = La!PanesIn(job[p].tab)
        /\ La!DocksIn(job[p].tab)' = La!DocksIn(job[p].tab)
    BY <1>1, <1>3 DEF La!DocksIn, La!PanesIn, La!Open, La!locals
  <2>2. /\ seen[p] \subseteq La!PanesIn(job[p].tab)
        /\ job[p].mode = "restore" => seen[p] # {}
    BY <1>1 DEF Knows
  <2> QED
    BY <1>1, <1>3, <1>4, <1>5, <2>1, <2>2 DEF Knows, La!locals
<1>8. \A t \in Tabs : Restored(p, t)'
  BY <1>1, <1>3, SameRestored DEF Book, La!locals
<1>9. \A t \in Tabs : Opening(p, t) => Opening(p, t)'
  <2>1. opened[p] /\ job[p].mode = "toggle" => l = "persist"
    BY <1>2, <1>4
  <2> QED
    BY <1>3, <1>5, <2>1 DEF Opening, La!locals
<1> QED
  BY <1>1, <1>3, <1>5, <1>6, <1>7, <1>8, <1>9, QuietStep DEF La!locals

LEMMA OneSeen ==
  ASSUME TypeInv, View, Book, faults = 0, NEW p \in Procs, place[p] = "dedupe"
  PROVE  La!Cardinality(docks[p]) <= 1
<1>1. docks[p] = La!DocksIn(job[p].tab) /\ job[p].tab \in Tabs
  BY DEF Book, Knows, TypeInv, Where, InTab, Places
<1>2. \A x, y \in docks[p] : x = y
  BY <1>1 DEF View, Single
<1> QED
  BY <1>2, AtMostOne DEF TypeInv, Locals

LEMMA NoDedupe ==
  ASSUME TypeInv, View, Book, faults = 0, NEW p \in Procs, La!Dedupe(p)
  PROVE  FALSE
<1>1. La!Cardinality(docks[p]) <= 1 /\ La!Cardinality(docks[p]) > 1
  BY OneSeen DEF La!Dedupe
<1>2. La!Cardinality(docks[p]) \in Nat
  BY PanesAssumption, FS_Subset, FS_CardinalityType, LauncherOperators DEF TypeInv, Locals
<1> QED
  BY <1>1, <1>2

LEMMA OpenDockBook ==
  ASSUME LauncherConstants, TypeInv, View, Book, faults = 0, NEW p \in Procs, La!OpenDock(p)
  PROVE  Book'
<1>1. /\ place[p] = "opening" /\ Mode(p) /\ Knows(p) /\ ~opened[p]
      /\ UNCHANGED <<records, exits, startups, restarts>>
  BY DEF La!OpenDock, Book, Mode
<1>2. PICK u \in Tabs : u = job[p].tab
  BY <1>1 DEF TypeInv, Where, InTab, Places
<1>3. \A t \in Tabs : ~Opening(p, t)
  BY <1>1 DEF Opening
<1>4. /\ job[p].mode # "none" /\ job[p].server = ServerOf[u]
      /\ job[p].mode = "restore" => u \in todo[p]
  BY <1>1, <1>2, TabOfJob DEF Mode
<1>5. CASE (seen[p] = {} \/ \E y \in seen[p] : ~La!Open(y)) /\ La!Abandon(p) /\ UNCHANGED pane
  <2>1. \A y \in seen[p] : La!Open(y)
    BY <1>1 DEF Knows, La!PanesIn
  <2>2. job[p].mode = "toggle"
    BY <1>1, <1>4, <1>5, <2>1 DEF Knows, TypeInv, Locals, Jobs
  <2>3. La!End(p)
    BY <1>5, <2>2 DEF La!Abandon
  <2> QED
    BY <1>1, <1>3, <1>5, <2>2, <2>3, EndedHook, QuietStep DEF La!world
<1>6. CASE /\ La!Unused(job[p].tab) # {}
           /\ pane' = [pane EXCEPT ![La!Min(La!Unused(job[p].tab))] = "dock"]
           /\ opened' = [opened EXCEPT ![p] = TRUE]
           /\ La!Goto(p, "query")
           /\ UNCHANGED <<tabLock, job, seen, docks, stale, todo, kept>>
  <2>1. PICK x \in La!Unused(u) : x = La!Min(La!Unused(u))
    BY <1>2, <1>6, FirstPane DEF La!Unused
  <2>2. x \in Panes /\ HomeOf[x] = u /\ pane[x] = "unused"
    BY DEF La!Unused
  <2>3. \A y \in Panes : pane'[y] = IF y = x THEN "dock" ELSE pane[y]
    BY <1>2, <1>6, <2>1, <2>2 DEF TypeInv, Globals
  <2>4. /\ place'[p] = "query" /\ opened'[p] /\ job'[p] = job[p] /\ todo'[p] = todo[p]
        /\ kept'[p] = kept[p]
        /\ \A q \in Procs \ {p} : Knowledge(q)' = Knowledge(q)
    BY <1>6 DEF La!Goto, Knowledge, TypeInv, Locals
  <2>5. La!DocksIn(u) = {}
    BY <1>1, <1>2 DEF View, Sees
  <2>6. La!DocksIn(u)' = {x}
    BY <2>2, <2>3, <2>5 DEF La!DocksIn, La!PanesIn, La!Open
  <2>7. Elsewhere(p)
    BY <1>1, <1>2, <2>2, <2>3, <2>4 DEF Elsewhere
  <2>8. Homes'
    <3>1. \A y \in exits : y # x
      BY <2>2 DEF Book, Homes
    <3> QED
      BY <1>1, <2>3, <3>1 DEF Book, Homes, TypeInv, Globals
  <2>9. Mode(p)'
    BY <1>1, <2>4 DEF Mode
  <2>10. Knows(p)'
    <3>1. job'[p].tab = u
      BY <1>2, <2>4
    <3> QED
      BY <2>4, <2>6, <3>1 DEF Knows, La!DocksIn, La!PanesIn, La!Open
  <2>11. ASSUME NEW t \in Tabs PROVE Restored(p, t)'
    <3>1. CASE t = u
      BY <1>2, <1>4, <2>4, <3>1 DEF Restored
    <3>2. CASE t # u
      <4>1. La!DocksIn(t)' = La!DocksIn(t)
        BY <2>2, <2>3, <3>2 DEF La!DocksIn, La!PanesIn, La!Open
      <4>2. Restored(p, t)
        BY DEF Book
      <4> QED
        BY <1>1, <2>4, <4>1, <4>2 DEF Restored
    <3> QED
      BY <3>1, <3>2
  <2>12. Calm(u)'
    <3>1. CASE La!Restoring(ServerOf[u])'
      BY <3>1 DEF Calm
    <3>2. CASE ~La!Restoring(ServerOf[u])'
      <4>1. ~La!Restoring(ServerOf[u])
        BY <2>7, <3>2, AloneStays DEF Book
      <4>2. job[p].mode = "toggle"
        BY <1>4, <4>1 DEF La!Restoring, TypeInv, Locals, Jobs
      <4>3. Opening(p, u)'
        BY <1>2, <2>4, <4>2 DEF Opening
      <4>4. records[u] \in exits \cup {La!NoPane}
        BY <2>5, <4>1 DEF Book, Calm
      <4> QED
        BY <1>1, <4>3, <4>4 DEF Calm
    <3> QED
      BY <3>1, <3>2
  <2> QED
    BY <1>2, <2>7, <2>8, <2>9, <2>10, <2>11, <2>12, BookByProcess
<1> QED
  BY <1>5, <1>6 DEF La!OpenDock

LEMMA PersistBook ==
  ASSUME LauncherConstants, RecordsKept, TypeInv, View, Book, faults = 0, NEW p \in Procs,
         La!Persist(p), ~La!Fault
  PROVE  Book'
<1>1. /\ place[p] = "persist" /\ place'[p] = "placing" /\ Mode(p) /\ Knows(p)
      /\ UNCHANGED <<La!world, La!locals>> /\ UNCHANGED pane
      /\ records' = La!Applied([kind |-> "upsert", tab |-> job[p].tab, pane |-> La!Keeper(p)], records)
      /\ \A q \in Procs \ {p} : Knowledge(q)' = Knowledge(q)
  BY DEF La!Persist, Book, La!world, La!Goto, Knowledge, La!locals, TypeInv, Locals
<1>2. PICK u \in Tabs : u = job[p].tab
  BY <1>1 DEF TypeInv, Where, InTab, Places
<1>3. PICK x \in La!DocksIn(u) : x = La!Keeper(p)
  BY <1>1, <1>2, KeeperIsDock DEF Knows, TypeInv, Where
<1>4. La!DocksIn(u) = {x} /\ x \in Panes /\ HomeOf[x] = u
  BY DEF View, Single, La!DocksIn, La!PanesIn
<1>5. job[p].mode = "toggle"
  BY <1>1 DEF Mode
<1>6. \A t \in Tabs : records'[t] = IF t = u THEN x ELSE records[t]
  <2> DEFINE r == [kind |-> "upsert", tab |-> u, pane |-> x]
  <2>1. records' = La!Applied(r, records)
    BY <1>1, <1>2, <1>3
  <2>2. /\ r.kind = "upsert" /\ r.tab = u /\ r.pane = x
    OBVIOUS
  <2>3. La!Result(r, records) = [records EXCEPT ![u] = x]
    BY <2>2 DEF La!Result
  <2>4. La!Applied(r, records) = La!Result(r, records)
    <3> HIDE DEF r
    <3> QED BY <2>2, AppliedHere DEF TypeInv, Globals
  <2> QED
    BY <2>1, <2>3, <2>4 DEF TypeInv, Globals, La!Files
<1>7. Elsewhere(p)
  BY <1>1, <1>2, <1>6 DEF Elsewhere, La!world, La!locals
<1>8. Homes'
  BY <1>1, <1>4, <1>6 DEF Book, Homes, La!world
<1>9. Mode(p)' /\ Knows(p)'
  BY <1>1 DEF Mode, Knows, La!locals
<1>10. \A t \in Tabs : Restored(p, t)'
  BY <1>1, <1>5 DEF Restored, La!locals
<1>11. Calm(u)'
  <2>1. La!DocksIn(u)' = La!DocksIn(u)
    BY <1>1 DEF La!DocksIn, La!PanesIn, La!Open
  <2> QED
    BY <1>4, <1>6, <2>1 DEF Calm
<1> QED
  BY <1>2, <1>7, <1>8, <1>9, <1>10, <1>11, BookByProcess

LEMMA CloseDockBook ==
  ASSUME LauncherConstants, TypeInv, View, Book, faults = 0, NEW p \in Procs, La!CloseDock(p)
  PROVE  Book'
<1>1. /\ place[p] = "closeDock" /\ Mode(p) /\ Knows(p)
      /\ UNCHANGED <<records, startups, restarts>>
  BY DEF La!CloseDock, Book
<1>2. PICK u \in Tabs : u = job[p].tab
  BY <1>1 DEF TypeInv, Where, InTab, Places
<1>3. PICK x \in La!DocksIn(u) : x = La!Keeper(p)
  BY <1>1, <1>2, KeeperIsDock DEF Knows, TypeInv, Where
<1>4. La!DocksIn(u) = {x} /\ x \in Panes /\ HomeOf[x] = u /\ pane[x] = "dock"
  BY DEF View, Single, La!DocksIn, La!PanesIn
<1>5. job[p].mode = "toggle" /\ ~opened[p]
  BY <1>1 DEF Mode
<1>6. /\ \A y \in Panes : pane'[y] = IF y = x THEN "gone" ELSE pane[y]
      /\ exits' = exits \cup {x}
      /\ UNCHANGED La!locals /\ La!Goto(p, "forget")
  BY <1>3, <1>4 DEF La!CloseDock, TypeInv, Globals
<1>7. place'[p] = "forget" /\ \A q \in Procs \ {p} : Knowledge(q)' = Knowledge(q)
  BY <1>6 DEF La!Goto, Knowledge, La!locals, TypeInv, Locals
<1>8. Elsewhere(p)
  BY <1>1, <1>2, <1>4, <1>6, <1>7 DEF Elsewhere, La!locals
<1>9. Homes'
  <2>1. Homes /\ exits \in SUBSET Panes
    BY DEF Book, TypeInv, Globals
  <2>2. \A y \in exits' : pane'[y] = "gone"
    BY <1>4, <1>6, <2>1 DEF Homes
  <2> QED
    BY <1>1, <2>1, <2>2 DEF Homes
<1>10. La!DocksIn(u)' = {}
  BY <1>4, <1>6 DEF La!DocksIn, La!PanesIn, La!Open
<1>11. Mode(p)' /\ Knows(p)'
  <2>1. job'[p].tab = u
    BY <1>2, <1>6 DEF La!locals
  <2> QED
    BY <1>1, <1>5, <1>6, <1>7, <1>10, <2>1 DEF Mode, Knows, La!locals, La!DocksIn, La!PanesIn,
        La!Open
<1>12. \A t \in Tabs : Restored(p, t)'
  BY <1>5, <1>6 DEF Restored, La!locals
<1>13. Calm(u)'
  <2>1. La!Restoring(ServerOf[u])' <=> La!Restoring(ServerOf[u])
    BY <1>8, AloneStays DEF Book
  <2>2. Calm(u)
    BY DEF Book
  <2> QED
    BY <1>1, <1>4, <1>6, <1>10, <2>1, <2>2 DEF Calm
<1> QED
  BY <1>2, <1>8, <1>9, <1>11, <1>12, <1>13, BookByProcess

LEMMA ForgetBook ==
  ASSUME LauncherConstants, RecordsKept, TypeInv, Book, faults = 0, NEW p \in Procs,
         La!Forget(p), ~La!Fault
  PROVE  Book'
<1>1. /\ place[p] = "forget" /\ Mode(p) /\ Knows(p) /\ La!End(p)
      /\ UNCHANGED La!world /\ UNCHANGED pane
      /\ records' = La!Applied([kind |-> "remove", tab |-> job[p].tab], records)
  BY DEF La!Forget, Book, La!world
<1>2. PICK u \in Tabs : u = job[p].tab
  BY <1>1 DEF TypeInv, Where, InTab, Places
<1>3. job[p].mode = "toggle" /\ La!DocksIn(u) = {}
  BY <1>1, <1>2 DEF Mode, Knows
<1>4. \A t \in Tabs : records'[t] = IF t = u THEN La!NoPane ELSE records[t]
  <2> DEFINE r == [kind |-> "remove", tab |-> u]
  <2>1. records' = La!Applied(r, records)
    BY <1>1, <1>2
  <2>2. r.kind = "remove" /\ r.tab = u
    OBVIOUS
  <2>3. La!Result(r, records) = [records EXCEPT ![u] = La!NoPane]
    BY <2>2 DEF La!Result
  <2>4. La!Applied(r, records) = La!Result(r, records)
    <3> HIDE DEF r
    <3> QED BY <2>2, AppliedHere DEF TypeInv, Globals
  <2> QED
    BY <2>1, <2>3, <2>4 DEF TypeInv, Globals, La!Files
<1>5. Elsewhere(p)
  BY <1>1, <1>2, <1>3, <1>4, EndedHook DEF Elsewhere, La!world
<1>6. Homes'
  BY <1>1, <1>4 DEF Book, Homes, La!world
<1>7. Calm(u)'
  <2>1. La!DocksIn(u)' = La!DocksIn(u)
    BY <1>1 DEF La!DocksIn, La!PanesIn, La!Open
  <2> QED
    BY <1>3, <1>4, <2>1 DEF Calm
<1> QED
  BY <1>1, <1>2, <1>5, <1>6, <1>7, EndedHook, BookByProcess

LEMMA CloseStaleBook ==
  ASSUME LauncherConstants, TypeInv, View, Companies, Book, faults = 0, NEW p \in Procs,
         La!CloseStale(p), ~La!Fault
  PROVE  Book'
<1>1. /\ place[p] = "closeStale" /\ place[p] \in InTab /\ Mode(p) /\ Knows(p)
      /\ La!DoneWith(p, La!Keeper(p))
      /\ UNCHANGED <<records, startups, restarts>>
  BY DEF La!CloseStale, Book, InTab, Places
<1>2. PICK u \in Tabs : u = job[p].tab
  BY <1>1 DEF TypeInv, Where
<1>3. PICK x \in La!DocksIn(u) : x = La!Keeper(p)
  BY <1>1, <1>2, KeeperIsDock DEF Knows, TypeInv, Where
<1>4. La!DocksIn(u) = {x} /\ x \in Panes
  BY DEF View, Single, La!DocksIn, La!PanesIn
<1>5. job[p].mode = "restore"
  BY <1>1 DEF Mode
<1>6. PICK S \in SUBSET Panes :
         /\ \A y \in S : HomeOf[y] = u /\ pane[y] # "dock"
         /\ \A y \in Panes : pane'[y] = IF y \in S THEN "gone" ELSE pane[y]
         /\ exits' = exits \cup S
  <2>1. CASE UNCHANGED <<pane, exits>>
    <3> WITNESS {} \in SUBSET Panes
    <3> QED
      BY <2>1
  <2>2. CASE /\ stale[p] # La!NoPane /\ pane[stale[p]] \in {"shell", "titled"}
             /\ pane' = [pane EXCEPT ![stale[p]] = "gone"]
             /\ exits' = exits \cup {stale[p]}
    <3>1. stale[p] \in Panes /\ HomeOf[stale[p]] = u
      BY <1>2, <2>2 DEF Companies, Company, TypeInv, Locals
    <3>2. \A y \in Panes : pane'[y] = IF y \in {stale[p]} THEN "gone" ELSE pane[y]
      BY <2>2 DEF TypeInv, Globals
    <3> QED
      BY <2>2, <3>1, <3>2
  <2> QED
    BY <2>1, <2>2 DEF La!CloseStale
<1>7. \A y \in Panes : pane'[y] = "dock" <=> pane[y] = "dock"
  BY <1>6
<1>8. /\ \A q \in Procs \ {p} : Knowledge(q)' = Knowledge(q)
      /\ job'[p].mode = job[p].mode /\ job'[p].server = job[p].server
      /\ Mode(p)' /\ Knows(p)' /\ \A t \in Tabs : Restored(p, t)'
  <2>1. La!DocksIn(job[p].tab) \subseteq {x} /\ x \in La!DocksIn(job[p].tab) \cup {La!NoPane}
    BY <1>2, <1>4
  <2> QED
    BY <1>1, <1>3, <1>4, <1>5, <1>7, <2>1, DoneRestore
<1>9. Elsewhere(p)
  BY <1>1, <1>2, <1>6, <1>8 DEF Elsewhere
<1>10. Homes'
  <2>1. Homes /\ exits \in SUBSET Panes
    BY DEF Book, TypeInv, Globals
  <2>2. \A y \in exits' : pane'[y] = "gone"
    BY <1>6, <2>1 DEF Homes
  <2> QED
    BY <1>1, <2>1, <2>2 DEF Homes
<1>11. Calm(u)'
  <2>1. job[p].server = ServerOf[u]
    BY <1>1, <1>2, TabOfJob
  <2>2. La!Restoring(ServerOf[u])'
    BY <1>5, <1>8, <2>1 DEF La!Restoring
  <2> QED
    BY <2>2 DEF Calm
<1> QED
  BY <1>2, <1>8, <1>9, <1>10, <1>11, BookByProcess

(* The steps that concern several tabs, or none that a process is in.      *)

(* The panes stay: what the processes know and keep stays true.            *)
LEMMA SameKnowledge ==
  ASSUME NEW q \in Procs, Knowledge(q)' = Knowledge(q), UNCHANGED pane
  PROVE  /\ Mode(q) => Mode(q)'
         /\ Knows(q) => Knows(q)'
         /\ \A t : (Restored(q, t) => Restored(q, t)') /\ (Opening(q, t) => Opening(q, t)')
<1>1. /\ place'[q] = place[q] /\ job'[q] = job[q] /\ seen'[q] = seen[q] /\ docks'[q] = docks[q]
      /\ opened'[q] = opened[q] /\ todo'[q] = todo[q] /\ kept'[q] = kept[q]
  BY DEF Knowledge
<1>2. \A t : La!DocksIn(t)' = La!DocksIn(t) /\ La!PanesIn(t)' = La!PanesIn(t)
  BY DEF La!DocksIn, La!PanesIn, La!Open
<1>3. Mode(q) => Mode(q)'
  BY <1>1 DEF Mode
<1>4. Knows(q) => Knows(q)'
  BY <1>1 DEF Knows, La!DocksIn, La!PanesIn, La!Open
<1>5. ASSUME NEW t PROVE Restored(q, t) => Restored(q, t)'
  BY <1>1, <1>2 DEF Restored
<1>6. ASSUME NEW t PROVE Opening(q, t) => Opening(q, t)'
  BY <1>1 DEF Opening
<1> QED
  BY <1>3, <1>4, <1>5, <1>6

LEMMA OverlayBook ==
  ASSUME LauncherConstants, RecordsKept, TypeInv, Book, faults = 0, NEW p \in Procs,
         La!Overlay(p), ~La!Fault
  PROVE  Book'
<1> DEFINE s == job[p].server
           r == [kind |-> "replace", server |-> s, kept |-> kept[p]]
<1>1. /\ place[p] = "overlay" /\ Mode(p) /\ NoOther(p) /\ La!End(p)
      /\ UNCHANGED La!world /\ UNCHANGED <<pane, exits, startups>>
      /\ records' = La!Applied(r, records)
  BY DEF La!Overlay, Book, La!world
<1>2. job[p].mode = "restore" /\ todo[p] = {} /\ s \in Servers \ startups
  BY <1>1 DEF Mode, NoOther
<1>3. \A t \in Tabs : records'[t] = IF ServerOf[t] = s THEN kept[p][t] ELSE records[t]
  <2>1. r.kind = "replace" /\ r.server = s /\ r.kept = kept[p]
    OBVIOUS
  <2>2. La!Result(r, records) = [t \in Tabs |-> IF ServerOf[t] = s THEN kept[p][t] ELSE records[t]]
    BY <2>1 DEF La!Result
  <2>3. La!Applied(r, records) = La!Result(r, records)
    <3> HIDE DEF r
    <3> QED BY <2>1, AppliedHere DEF TypeInv, Globals
  <2> QED
    BY <1>1, <2>2, <2>3
<1> HIDE DEF r
<1>4. \A t : La!DocksIn(t)' = La!DocksIn(t)
  BY <1>1 DEF La!DocksIn, La!PanesIn, La!Open
<1>5. ASSUME NEW t \in Tabs, ServerOf[t] = s
      PROVE  /\ records'[t] \in La!DocksIn(t) \cup {La!NoPane}
             /\ La!DocksIn(t) \subseteq {records'[t]}
  <2>1. Restored(p, t)
    BY DEF Book
  <2> QED
    BY <1>2, <1>3, <1>5, <2>1 DEF Restored
<1>6. Homes'
  <2>1. \A t \in Tabs : records'[t] # La!NoPane => HomeOf[records'[t]] = t
    <3> TAKE t \in Tabs
    <3>1. CASE ServerOf[t] = s
      BY <1>5, <3>1 DEF La!DocksIn, La!PanesIn
    <3>2. CASE ServerOf[t] # s
      BY <1>3, <3>2 DEF Book, Homes
    <3> QED
      BY <3>1, <3>2
  <2> QED
    BY <1>1, <2>1 DEF Book, Homes
<1>7. /\ \A q \in Procs \ {p} : Knowledge(q)' = Knowledge(q) /\ job'[q] = job[q]
      /\ job'[p].mode = "none"
      /\ Mode(p)' /\ Knows(p)' /\ \A t \in Tabs : Restored(p, t)'
  BY <1>1, EndedHook DEF Knowledge
<1>8. ASSUME NEW q \in Procs
      PROVE  Mode(q)' /\ Knows(q)' /\ \A t \in Tabs : Restored(q, t)'
  <2>1. CASE q = p
    BY <1>7, <2>1
  <2>2. CASE q # p
    <3>1. Mode(q) /\ Knows(q) /\ \A t \in Tabs : Restored(q, t)
      BY DEF Book
    <3> QED
      BY <1>1, <1>7, <2>2, <3>1, SameKnowledge
  <2> QED
    BY <2>1, <2>2
<1>9. ASSUME NEW q \in Procs PROVE NoOther(q)'
  <2>1. NoOther(q)
    BY DEF Book
  <2> QED
    BY <1>1, <1>7, <2>1 DEF NoOther
<1>10. ASSUME NEW t \in Tabs PROVE Waiting(t)'
  <2>1. Waiting(t)
    BY DEF Book
  <2> QED
    BY <1>1, <1>4, <2>1 DEF Waiting
<1>11. ASSUME NEW t \in Tabs PROVE Calm(t)'
  <2>1. CASE ServerOf[t] = s
    BY <1>4, <1>5, <2>1 DEF Calm
  <2>2. CASE ServerOf[t] # s
    <3>1. La!Restoring(ServerOf[t])' <=> La!Restoring(ServerOf[t])
      BY <1>1, <1>7, <2>2 DEF La!Restoring
    <3>2. \A q \in Procs : Opening(q, t) => Opening(q, t)'
      <4> TAKE q \in Procs
      <4>1. CASE q = p
        BY <1>2, <4>1 DEF Opening
      <4>2. CASE q # p
        BY <1>1, <1>7, <4>2, SameKnowledge
      <4> QED
        BY <4>1, <4>2
    <3>3. Calm(t) /\ records'[t] = records[t]
      BY <1>3, <2>2 DEF Book
    <3> QED
      BY <1>1, <1>4, <3>1, <3>2, <3>3 DEF Calm
  <2> QED
    BY <2>1, <2>2
<1> QED
  BY <1>6, <1>8, <1>9, <1>10, <1>11 DEF Book

LEMMA StartRestoreBook ==
  ASSUME LauncherConstants, RecordsKept, TypeInv, Book, faults = 0, NEW p \in Procs,
         NEW s \in Servers, La!StartRestore(p, s)
  PROVE  Book'
<1> DEFINE mine == La!Section(records, s)
<1>1. /\ place[p] = "idle" /\ s \in startups /\ startups' = startups \ {s}
      /\ UNCHANGED <<pane, exits, records, seen, docks, stale, opened>>
  BY DEF La!StartRestore
<1>2. \A t : La!DocksIn(t)' = La!DocksIn(t)
  BY <1>1 DEF La!DocksIn, La!PanesIn, La!Open
<1>3. ASSUME NEW t \in Tabs, ServerOf[t] = s PROVE La!DocksIn(t) = {}
  BY <1>1, <1>3 DEF Book, Waiting
<1>4. Mode(p) /\ job[p].mode = "none" /\ ~opened[p]
  BY <1>1 DEF Book, Mode
<1>5. Homes'
  BY <1>1 DEF Book, Homes
<1>6. \/ mine = {} /\ UNCHANGED <<place, job, todo, kept>>
      \/ /\ La!Goto(p, "nextRecord")
         /\ job' = [job EXCEPT ![p] = [mode |-> "restore", server |-> s, tab |-> NoTab]]
         /\ todo' = [todo EXCEPT ![p] = mine]
         /\ kept' = [kept EXCEPT ![p] = [t \in Tabs |-> IF t \in mine THEN records[t] ELSE La!NoPane]]
  <2>1. La!Clamped(records) = records
    BY Uncut DEF TypeInv, Globals
  <2> QED
    BY <2>1 DEF La!StartRestore
<1> HIDE DEF mine
<1>7. \A q \in Procs \ {p} : Knowledge(q)' = Knowledge(q) /\ job'[q] = job[q]
  BY <1>1, <1>6 DEF La!Goto, Knowledge, TypeInv, Locals
<1>8. \/ UNCHANGED Knowledge(p) /\ mine = {}
      \/ /\ job'[p] = [mode |-> "restore", server |-> s, tab |-> NoTab]
         /\ place'[p] = "nextRecord" /\ opened'[p] = opened[p]
         /\ todo'[p] = mine
         /\ \A t \in Tabs : t \notin mine => kept'[p][t] = La!NoPane
  BY <1>1, <1>6 DEF La!Goto, Knowledge, TypeInv, Locals
<1>9. Mode(p)' /\ Knows(p)' /\ \A t \in Tabs : Restored(p, t)'
  <2>1. CASE UNCHANGED Knowledge(p)
    BY <1>1, <2>1, SameKnowledge DEF Book
  <2>2. CASE /\ job'[p] = [mode |-> "restore", server |-> s, tab |-> NoTab]
             /\ place'[p] = "nextRecord" /\ opened'[p] = opened[p]
             /\ todo'[p] = mine
             /\ \A t \in Tabs : t \notin mine => kept'[p][t] = La!NoPane
    <3>1. job'[p].mode = "restore" /\ job'[p].server = s /\ job'[p].tab = NoTab
      BY <2>2
    <3>2. Mode(p)' /\ Knows(p)'
      BY <1>4, <2>2, <3>1 DEF Mode, Knows, LauncherConstants
    <3>3. ASSUME NEW t \in Tabs PROVE Restored(p, t)'
      BY <1>2, <1>3, <2>2, <3>1 DEF Restored
    <3> QED
      BY <3>2, <3>3
  <2> QED
    BY <1>8, <2>1, <2>2
<1>10. ASSUME NEW q \in Procs
      PROVE  Mode(q)' /\ Knows(q)' /\ \A t \in Tabs : Restored(q, t)'
  <2>1. CASE q = p
    BY <1>9, <2>1
  <2>2. CASE q # p
    <3>1. Mode(q) /\ Knows(q) /\ \A t \in Tabs : Restored(q, t)
      BY DEF Book
    <3> QED
      BY <1>1, <1>7, <2>2, <3>1, SameKnowledge
  <2> QED
    BY <2>1, <2>2
<1>11. \A q \in Procs : job[q].mode # "none" => job[q].server # s
  BY <1>1 DEF Book, NoOther
<1>12. \/ \A q \in Procs : job'[q] = job[q]
       \/ /\ job'[p].mode = "restore" /\ job'[p].server = s
          /\ \A q \in Procs \ {p} : job'[q] = job[q]
  BY <1>7, <1>8 DEF Knowledge
<1>13. ASSUME NEW q \in Procs PROVE NoOther(q)'
  <2>1. NoOther(q)
    BY DEF Book
  <2>2. CASE \A r \in Procs : job'[r] = job[r]
    BY <1>1, <2>1, <2>2 DEF NoOther
  <2>3. CASE /\ job'[p].mode = "restore" /\ job'[p].server = s
             /\ \A r \in Procs \ {p} : job'[r] = job[r]
    BY <1>1, <1>11, <2>1, <2>3 DEF NoOther
  <2> QED
    BY <1>12, <2>2, <2>3
<1>14. ASSUME NEW t \in Tabs PROVE Waiting(t)'
  <2>1. Waiting(t)
    BY DEF Book
  <2> QED
    BY <1>1, <1>2, <2>1 DEF Waiting
<1>15. ASSUME NEW t \in Tabs PROVE Calm(t)'
  <2>1. CASE ServerOf[t] = s
    <3>1. CASE mine = {}
      <4>1. records[t] = La!NoPane
        BY <2>1, <3>1 DEF mine, La!Section
      <4> QED
        BY <1>1, <1>2, <1>3, <2>1, <4>1 DEF Calm
    <3>2. CASE mine # {}
      <4>1. La!Restoring(ServerOf[t])'
        BY <1>8, <2>1, <3>2 DEF La!Restoring
      <4> QED
        BY <4>1 DEF Calm
    <3> QED
      BY <3>1, <3>2
  <2>2. CASE ServerOf[t] # s
    <3>1. La!Restoring(ServerOf[t])' <=> La!Restoring(ServerOf[t])
      BY <1>1, <1>4, <1>12, <2>2 DEF La!Restoring
    <3>2. \A q \in Procs : Opening(q, t) => Opening(q, t)'
      <4> TAKE q \in Procs
      <4>1. CASE q = p
        BY <1>4, <4>1 DEF Opening
      <4>2. CASE q # p
        BY <1>1, <1>7, <4>2, SameKnowledge
      <4> QED
        BY <4>1, <4>2
    <3>3. Calm(t)
      BY DEF Book
    <3> QED
      BY <1>1, <1>2, <3>1, <3>2, <3>3 DEF Calm
  <2> QED
    BY <2>1, <2>2
<1> QED
  BY <1>5, <1>10, <1>13, <1>14, <1>15 DEF Book

LEMMA OnExitBook ==
  ASSUME LauncherConstants, RecordsKept, TypeInv, Book, faults = 0, NEW x \in Panes,
         La!OnExit(x), ~La!Fault
  PROVE  Book'
<1> DEFINE r == [kind |-> "prune", server |-> ServerOf[HomeOf[x]], pane |-> x]
<1>1. /\ x \in exits /\ exits' = exits \ {x}
      /\ UNCHANGED <<pane, startups, place, La!locals>>
      /\ records' = La!Applied(r, records)
  BY DEF La!OnExit
<1>2. Homes /\ pane[x] = "gone"
  BY <1>1 DEF Book, Homes
<1>3. \A t \in Tabs : records'[t] = IF records[t] = x THEN La!NoPane ELSE records[t]
  <2>1. r.kind = "prune" /\ r.server = ServerOf[HomeOf[x]] /\ r.pane = x
    OBVIOUS
  <2>2. La!Result(r, records) = [t \in Tabs |-> IF ServerOf[t] = r.server /\ records[t] = r.pane
                                             THEN La!NoPane ELSE records[t]]
    BY <2>1 DEF La!Result
  <2>3. La!Applied(r, records) = La!Result(r, records)
    <3> HIDE DEF r
    <3> QED BY <2>1, AppliedHere DEF TypeInv, Globals
  <2>4. \A t \in Tabs : records[t] = x => ServerOf[t] = ServerOf[HomeOf[x]]
    <3>1. x # La!NoPane
      BY PanesAssumption DEF La!NoPane
    <3> QED
      BY <1>2, <3>1 DEF Homes
  <2> QED
    BY <1>1, <2>1, <2>2, <2>3, <2>4
<1> HIDE DEF r
<1>4. ASSUME NEW q \in Procs
      PROVE  /\ (Mode(q) /\ Knows(q) /\ NoOther(q))' /\ \A t \in Tabs : Restored(q, t)'
             /\ job'[q] = job[q]
             /\ \A t \in Tabs : Opening(q, t) => Opening(q, t)'
  <2>1. Knowledge(q)' = Knowledge(q) /\ job' = job
    BY <1>1 DEF Knowledge, La!locals
  <2>2. Mode(q) /\ Knows(q) /\ NoOther(q) /\ \A t \in Tabs : Restored(q, t)
    BY DEF Book
  <2>3. NoOther(q)'
    BY <1>1, <2>1, <2>2 DEF NoOther
  <2> QED
    BY <1>1, <2>1, <2>2, <2>3, SameKnowledge
<1>5. Homes'
  BY <1>1, <1>2, <1>3 DEF Homes
<1>6. ASSUME NEW t \in Tabs PROVE Waiting(t)' /\ Calm(t)'
  <2>1. La!DocksIn(t)' = La!DocksIn(t)
    BY <1>1 DEF La!DocksIn, La!PanesIn, La!Open
  <2>2. Waiting(t) /\ Calm(t)
    BY DEF Book
  <2>3. La!Restoring(ServerOf[t])' <=> La!Restoring(ServerOf[t])
    BY <1>1 DEF La!Restoring, La!locals
  <2>4. x \notin La!DocksIn(t)
    BY <1>2 DEF La!DocksIn
  <2>5. Waiting(t)'
    BY <1>1, <2>1, <2>2 DEF Waiting
  <2>6. Calm(t)'
    BY <1>1, <1>3, <1>4, <2>1, <2>2, <2>3, <2>4 DEF Calm
  <2> QED
    BY <2>5, <2>6
<1> QED
  BY <1>4, <1>5, <1>6 DEF Book

(* The panes of a server change, in none of whose tabs a hook is at work.  *)
LEMMA BookElsewhere ==
  ASSUME LauncherConstants, TypeInv, Book, faults = 0,
         UNCHANGED <<place, La!locals>>, NEW S \in SUBSET Tabs,
         \A x \in Panes : HomeOf[x] \notin S => pane'[x] = pane[x],
         \A q \in Procs : job[q].tab \notin S,
         \A q \in Procs, t \in S : job[q].mode = "restore" => job[q].server # ServerOf[t]
  PROVE  /\ \A q \in Procs : Mode(q)' /\ Knows(q)' /\ \A t \in Tabs : Restored(q, t)'
         /\ \A t \in Tabs \ S : La!DocksIn(t)' = La!DocksIn(t)
         /\ \A q \in Procs, t \in Tabs : Opening(q, t) => Opening(q, t)'
<1>1. \A t : t \notin S => La!DocksIn(t)' = La!DocksIn(t) /\ La!PanesIn(t)' = La!PanesIn(t)
  BY DEF La!DocksIn, La!PanesIn, La!Open
<1>2. ASSUME NEW q \in Procs PROVE Mode(q)' /\ Knows(q)' /\ \A t \in Tabs : Restored(q, t)'
  <2>1. Mode(q) /\ Knows(q) /\ \A t \in Tabs : Restored(q, t)
    BY DEF Book
  <2>2. Mode(q)'
    BY <2>1 DEF Mode, La!locals
  <2>3. Knows(q)'
    <3>1. /\ La!DocksIn(job[q].tab)' = La!DocksIn(job[q].tab)
          /\ La!PanesIn(job[q].tab)' = La!PanesIn(job[q].tab)
      <4>1. PICK u : u = job[q].tab
        OBVIOUS
      <4>2. La!DocksIn(u)' = La!DocksIn(u) /\ La!PanesIn(u)' = La!PanesIn(u) /\ job'[q].tab = u
        BY <1>1, <4>1 DEF La!locals
      <4> QED
        BY <4>1, <4>2 DEF La!DocksIn, La!PanesIn, La!Open
    <3> QED
      BY <2>1, <3>1 DEF Knows, La!locals
  <2>4. ASSUME NEW t \in Tabs PROVE Restored(q, t)'
    <3>1. Restored(q, t)
      BY <2>1
    <3>2. CASE t \in S
      BY <3>2 DEF Restored, La!locals
    <3>3. CASE t \notin S
      <4>1. La!DocksIn(t)' = La!DocksIn(t)
        BY <1>1, <3>3
      <4> QED
        BY <3>1, <4>1 DEF Restored, La!locals
    <3> QED
      BY <3>2, <3>3
  <2> QED
    BY <2>2, <2>3, <2>4
<1>3. \A q \in Procs, t \in Tabs : Opening(q, t) => Opening(q, t)'
  BY DEF Opening, La!locals
<1> QED
  BY <1>1, <1>2, <1>3

LEMMA PaneExitsBook ==
  ASSUME LauncherConstants, RecordsKept, TypeInv, Book, faults = 0, NEW x \in Panes, La!PaneExits(x)
  PROVE  Book'
<1>1. /\ La!Open(x) /\ exits' = exits \cup {x}
      /\ UNCHANGED <<records, startups>> /\ UNCHANGED <<place, La!locals>>
      /\ \A y \in Panes : pane'[y] = IF y = x THEN "gone" ELSE pane[y]
  BY DEF La!PaneExits, TypeInv, Globals
<1>2. PICK u \in Tabs : u = HomeOf[x]
  BY DEF LauncherConstants
<1>3. ~La!Toggling(u) /\ ~La!Restoring(ServerOf[u])
  BY <1>2 DEF La!PaneExits, RecordsKept
<1>4. \A q \in Procs : job[q].mode = "restore" => job[q].server # ServerOf[u]
  BY <1>3 DEF La!Restoring
<1>5. ASSUME NEW q \in Procs PROVE job[q].tab # u
  <2>1. SUFFICES ASSUME job[q].tab = u PROVE FALSE
    OBVIOUS
  <2>2. job[q].mode # "none" /\ job[q].server = ServerOf[u]
    BY <2>1, TabOfJob DEF Book
  <2>3. job[q].mode # "toggle"
    BY <1>3, <2>1 DEF La!Toggling
  <2> QED
    BY <1>4, <2>2, <2>3 DEF TypeInv, Locals, Jobs
<1>6. /\ \A q \in Procs : Mode(q)' /\ Knows(q)' /\ \A t \in Tabs : Restored(q, t)'
      /\ \A t \in Tabs \ {u} : La!DocksIn(t)' = La!DocksIn(t)
      /\ \A q \in Procs, t \in Tabs : Opening(q, t) => Opening(q, t)'
  <2>1. \A y \in Panes : HomeOf[y] \notin {u} => pane'[y] = pane[y]
    BY <1>1, <1>2
  <2>2. /\ \A q \in Procs : job[q].tab \notin {u}
        /\ \A q \in Procs, t \in {u} : job[q].mode = "restore" => job[q].server # ServerOf[t]
    BY <1>4, <1>5
  <2>3. {u} \in SUBSET Tabs
    OBVIOUS
  <2> QED
    BY <1>1, <2>1, <2>2, <2>3, BookElsewhere
<1>7. La!DocksIn(u)' = La!DocksIn(u) \ {x}
  BY <1>1 DEF La!DocksIn, La!PanesIn, La!Open
<1>8. Homes'
  <2>1. Homes /\ exits \in SUBSET Panes
    BY DEF Book, TypeInv, Globals
  <2>2. \A y \in exits' : pane'[y] = "gone"
    BY <1>1, <2>1 DEF Homes
  <2> QED
    BY <1>1, <2>1, <2>2 DEF Homes
<1>9. \A q \in Procs : NoOther(q)'
  BY <1>1 DEF Book, NoOther, La!locals
<1>10. ASSUME NEW t \in Tabs PROVE Waiting(t)' /\ Calm(t)'
  <2>1. Waiting(t) /\ Calm(t)
    BY DEF Book
  <2>2. La!Restoring(ServerOf[t])' <=> La!Restoring(ServerOf[t])
    BY <1>1 DEF La!Restoring, La!locals
  <2>3. CASE t = u
    <3>1. Waiting(t)'
      BY <1>1, <1>3, <2>3 DEF Waiting, La!Restoring
    <3>2. Calm(t)'
      BY <1>1, <1>3, <1>6, <1>7, <2>1, <2>3 DEF Calm
    <3> QED
      BY <3>1, <3>2
  <2>4. CASE t # u
    <3>1. La!DocksIn(t)' = La!DocksIn(t)
      BY <1>6, <2>4
    <3> QED
      BY <1>1, <1>6, <2>1, <2>2, <3>1 DEF Waiting, Calm
  <2> QED
    BY <2>3, <2>4
<1> QED
  BY <1>6, <1>8, <1>9, <1>10 DEF Book

LEMMA RestartBook ==
  ASSUME LauncherConstants, RecordsKept, TypeInv, Book, faults = 0, NEW s \in Servers, La!Restart(s)
  PROVE  Book'
<1> DEFINE S == {t \in Tabs : ServerOf[t] = s}
<1>1. /\ \A q \in Procs : job[q].server # s
      /\ startups' = startups \cup {s}
      /\ UNCHANGED <<records, exits>> /\ UNCHANGED <<place, La!locals>>
  BY DEF La!Restart, RecordsKept
<1>2. PICK look \in {"shell", "titled"} :
         \A y \in Panes : pane'[y] = IF ServerOf[HomeOf[y]] = s /\ pane[y] = "dock"
                                     THEN look ELSE pane[y]
  BY DEF La!Restart
<1>3. /\ \A q \in Procs : Mode(q)' /\ Knows(q)' /\ \A t \in Tabs : Restored(q, t)'
      /\ \A t \in Tabs \ S : La!DocksIn(t)' = La!DocksIn(t)
      /\ \A q \in Procs, t \in Tabs : Opening(q, t) => Opening(q, t)'
  <2>1. \A y \in Panes : HomeOf[y] \notin S => pane'[y] = pane[y]
    BY <1>2 DEF LauncherConstants
  <2>2. \A q \in Procs : job[q].tab \notin S
    BY <1>1, TabOfJob DEF Book
  <2>3. \A q \in Procs, t \in S : job[q].mode = "restore" => job[q].server # ServerOf[t]
    BY <1>1
  <2>4. S \in SUBSET Tabs
    OBVIOUS
  <2> HIDE DEF S
  <2> QED
    BY <1>1, <2>1, <2>2, <2>3, <2>4, BookElsewhere
<1>4. Homes'
  BY <1>1, <1>2 DEF Book, Homes, TypeInv, Globals
<1>5. \A q \in Procs : NoOther(q)'
  BY <1>1 DEF Book, NoOther, La!locals
<1>6. ASSUME NEW t \in Tabs PROVE Waiting(t)' /\ Calm(t)'
  <2>1. CASE t \in S
    <3>1. La!Restoring(ServerOf[t])'
      BY <1>1, <2>1 DEF La!Restoring
    <3>2. La!DocksIn(t)' = {}
      BY <1>2, <2>1 DEF La!DocksIn, La!PanesIn
    <3> QED
      BY <3>1, <3>2 DEF Waiting, Calm
  <2>2. CASE t \notin S
    <3>1. La!DocksIn(t)' = La!DocksIn(t)
      BY <1>3, <2>2
    <3>2. La!Restoring(ServerOf[t])' <=> La!Restoring(ServerOf[t])
      BY <1>1, <2>2 DEF La!Restoring, La!locals
    <3>3. Waiting(t) /\ Calm(t) /\ ServerOf[t] # s
      BY <2>2 DEF Book
    <3> QED
      BY <1>1, <1>3, <3>1, <3>2, <3>3 DEF Waiting, Calm
  <2> QED
    BY <2>1, <2>2
<1> QED
  BY <1>3, <1>4, <1>5, <1>6 DEF Book

LEMMA BookStep ==
  ASSUME LauncherConstants, RecordsKept, TypeInv, View, Companies, Book, [La!Next]_(La!vars)
  PROVE  Book'
<1>1. CASE faults' # 0
  BY <1>1 DEF Book
<1>2. CASE faults' = 0
  <2>1. faults = 0 /\ ~La!Fault
    BY <1>2, FaultsGrow
  <2>2. CASE UNCHANGED La!vars
    BY <2>2 DEF La!vars, La!world, La!locals, Book, Homes, Mode, Knows, NoOther, Calm, Waiting,
        Restored,
                La!Restoring, Opening, La!DocksIn, La!PanesIn, La!Open
  <2>3. ASSUME NEW x \in Panes, La!LateOpen(x) PROVE FALSE
    BY <2>1, <2>3 DEF La!LateOpen, View, NoneLate
  <2>4. CASE La!Environment
    BY <2>1, <2>3, <2>4, OnExitBook, PaneExitsBook, RestartBook DEF La!Environment
  <2>5. ASSUME NEW p \in Procs, NEW t \in Tabs, La!StartToggle(p, t) PROVE Book'
    BY <2>1, <2>5, StartToggleBook
  <2>6. ASSUME NEW p \in Procs, NEW s \in Servers, La!StartRestore(p, s) PROVE Book'
    BY <2>1, <2>6, StartRestoreBook
  <2>7. ASSUME NEW p \in Procs, La!Step(p) PROVE Book'
    <3>1. ~La!Dedupe(p)
      BY <2>1, NoDedupe
    <3> QED
      BY <2>1, <2>7, <3>1, NextRecordBook, LockTabBook, TimeOutBook, QueryBook, VerifyBook,
         DecideBook, OpenDockBook, PersistBook, PlaceBook, CloseDockBook, ForgetBook,
         CloseStaleBook, OverlayBook DEF La!Step
  <2>8. ASSUME NEW p \in Procs, La!LoseOpen(p) \/ La!LoseClose(p) \/ La!CallFails(p) \/ La!Dies(p)
        PROVE  FALSE
    BY <2>1, <2>8 DEF La!LoseOpen, La!LoseClose, La!CallFails, La!Dies
  <2> QED
    BY <2>2, <2>4, <2>5, <2>6, <2>7, <2>8 DEF La!Next
<1> QED
  BY <1>1, <1>2

LEMMA BookInit ==
  ASSUME LauncherConstants, La!Init
  PROVE  Book
<1>1. \A t : La!DocksIn(t) = {}
  BY DEF La!Init, La!DocksIn, La!PanesIn
<1>2. La!NoJob.mode = "none" /\ La!NoJob.tab = NoTab
  BY DEF La!NoJob
<1>3. \A p \in Procs : job[p] = La!NoJob /\ place[p] = "idle" /\ ~opened[p] /\ docks[p] = {}
  BY DEF La!Init
<1>4. \A t \in Tabs : records[t] = La!NoPane
  BY DEF La!Init, La!EmptyFile
<1>5. exits = {}
  BY DEF La!Init
<1> QED
  BY <1>1, <1>2, <1>3, <1>4, <1>5
     DEF Book, Homes, Mode, Knows, NoOther, Calm, Waiting, Restored, LauncherConstants

LEMMA BookAtRest ==
  ASSUME LauncherConstants, Book
  PROVE  La!RecordsAreDocks
<1> SUFFICES ASSUME La!AtRest, faults = 0, NEW t \in Tabs
             PROVE  {records[t]} \ {La!NoPane} = La!DocksIn(t)
  BY DEF La!RecordsAreDocks
<1>1. \A q \in Procs : job[q].mode = "none"
  BY DEF La!AtRest, La!Running, Book, Mode
<1>2. ~La!Restoring(ServerOf[t])
  BY <1>1 DEF La!AtRest, La!Restoring
<1>3. ~\E q \in Procs : Opening(q, t)
  BY <1>1 DEF Opening
<1>4. records[t] \in La!DocksIn(t) \cup {La!NoPane} /\ La!DocksIn(t) \subseteq {records[t]}
  BY <1>2, <1>3 DEF Book, Calm, La!AtRest
<1>5. La!NoPane \notin La!DocksIn(t)
  BY PanesAssumption DEF La!NoPane, La!DocksIn, La!PanesIn
<1> QED
  BY <1>4, <1>5

(* When all hooks are done and none failed, docks.json names exactly the   *)
(* docks that are open, whatever opened, closed or restored them and in    *)
(* whatever order their events came (persist_open(), persist_close(),      *)
(* prune_pane(), replace_socket_records()).                                *)
THEOREM RecordsNameTheDocks ==
  ASSUME LauncherConstants, RecordsKept
  PROVE  La!Spec => []La!RecordsAreDocks
<1> DEFINE Inv == TypeInv /\ View /\ Companies /\ Book
<1>1. La!Init => Inv
  <2> SUFFICES ASSUME La!Init PROVE Inv
    OBVIOUS
  <2>1. \A x \in Panes : pane[x] \notin {"dock", "late"}
    BY DEF La!Init
  <2>2. \A t \in Tabs : La!DocksIn(t) = {}
    BY <2>1 DEF La!DocksIn, La!PanesIn
  <2>3. View
    BY <2>1, <2>2 DEF View, Single, NoneLate, Sees, La!Init
  <2>4. Companies
    BY DEF La!Init, Companies, Company
  <2> QED
    BY <2>3, <2>4, TypeInit, BookInit
<1>2. Inv /\ [La!Next]_(La!vars) => Inv'
  BY LauncherTypeStep, ViewStep, CompanyStep, BookStep DEF RecordsKept
<1>3. Inv => La!RecordsAreDocks
  BY BookAtRest
<1> QED
  BY <1>1, <1>2, <1>3, PTL DEF La!Spec
=============================================================================
