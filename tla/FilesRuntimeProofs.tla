------------------------- MODULE FilesRuntimeProofs -------------------------
(***************************************************************************)
(* What holds of FilesRuntime for all directories, configurations and      *)
(* bounds.                                                                 *)
(***************************************************************************)
EXTENDS FilesRuntime, TLAPS, SequenceTheorems, FiniteSetTheorems, WellFoundedInduction

(* Nothing is pending but under a generation that is newer than every      *)
(* job's: the first fact about start_next_filesystem(), whatever is        *)
(* pending when it is called, if what is pending is under a newer one.     *)
LEMMA StartKeepsNewer ==
    ASSUME NEW reload, NEW expansions, NEW newer \in BOOLEAN, NEW idle,
           reload \/ expansions # {} => newer,
           StartNextFilesystem(reload, expansions, newer, idle)
    PROVE  NeverRefused'
BY DEF StartNextFilesystem, NeverRefused

LEMMA NeverRefusedStep ==
    ASSUME NeverRefused, [Next]_vars PROVE NeverRefused'
<1>1. CASE UNCHANGED listing
  BY <1>1 DEF listing, NeverRefused
<1>2. ASSUME RetryFilesystem PROVE NeverRefused'
  <2>1. /\ reload_pending' => reload_pending
        /\ pending_expansions' \in {{}, pending_expansions}
        /\ (reload_pending' \/ pending_expansions' # {}) /\ invalidated => invalidated'
    BY <1>2 DEF RetryFilesystem, StartNextFilesystem
  <2> QED BY <2>1 DEF NeverRefused
<1>3. ASSUME NEW c, RequestReload(c) PROVE NeverRefused'
  BY <1>3, StartKeepsNewer DEF RequestReload
<1>4. ASSUME NEW d \in Dirs, Expand(d) PROVE NeverRefused'
  BY <1>4, StartKeepsNewer DEF Expand
<1>5. ASSUME NEW d \in Dirs, Collapse(d) PROVE NeverRefused'
  BY <1>5 DEF Collapse, NeverRefused
<1>6. CASE LoadOne
  BY <1>6 DEF LoadOne, NeverRefused
<1>7. CASE CompleteFilesystem
  <2>1. CASE DropListing BY <2>1, StartKeepsNewer DEF DropListing
  <2>2. CASE ApplyListing
    <3>2. ~reload_pending /\ pending_expansions = {}
      BY <2>2 DEF ApplyListing, NeverRefused
    <3>3. StartNextFilesystem(reload_pending, pending_expansions, FALSE, TRUE)
      BY <2>2 DEF ApplyListing
    <3> QED BY <3>2, <3>3, StartKeepsNewer
  <2> QED BY <1>7, <2>1, <2>2 DEF CompleteFilesystem
<1>8. CASE FilesystemPanics
  <2>1. StartNextFilesystem(reload_pending \/ filesystem_reload_running, StillWanted, TRUE, TRUE)
          \/ StartNextFilesystem(FALSE, {}, TRUE, TRUE)
    BY <1>8 DEF FilesystemPanics
  <2> QED BY <2>1, StartKeepsNewer
<1> QED
  BY <1>1, <1>2, <1>3, <1>4, <1>5, <1>6, <1>7, <1>8
  DEF Next, MakeDirectory, RemoveDirectory, Rewrite, Edits, QueueFills, QueueDrains, Refresh,
      Search, ClearSearch, ToggleIgnored, Hide, Show, Tick, ReadStatus, CompleteVcs, VcsPanics,
      OtherResult, vars

(* The worker never refuses a listing that is pending as stale: submit()   *)
(* of worker/mod.rs refuses only a generation it has seen.                 *)
THEOREM PendingNeverRefused == Spec => []NeverRefused
<1>1. Init => NeverRefused BY DEF Init, NeverRefused
<1> QED BY <1>1, NeverRefusedStep, PTL DEF Spec

-----------------------------------------------------------------------------
(* The second fact about start_next_filesystem(): what is to unfold is     *)
(* pending or being listed, and a worker that is idle lists nothing.       *)
LEMMA StartKeepsExpansions ==
    ASSUME NEW reload, NEW expansions, NEW newer, NEW idle \in BOOLEAN,
           StartNextFilesystem(reload, expansions, newer, idle)
    PROVE  /\ idle => pending_expansions' \cup filesystem_expansions_running' = expansions
           /\ ~idle => pending_expansions' \cup filesystem_expansions_running' =
                          expansions \cup filesystem_expansions_running
           /\ ~filesystem_running' => filesystem_expansions_running' = {}
BY DEF StartNextFilesystem

(* WishesServed rests on StillFolded, and on NeverRefused where a result   *)
(* that is expected finds nothing pending.                                 *)
FoldsInv == NeverRefused /\ StillFolded /\ WishesServed /\ filesystem_running \in BOOLEAN

LEMMA FoldsStep ==
    ASSUME FoldsInv, [Next]_vars PROVE FoldsInv'
<1> USE DEF FoldsInv
<1> DEFINE Coming == pending_expansions \cup filesystem_expansions_running
<1>1. NeverRefused' BY NeverRefusedStep
<1>2. filesystem_running' \in BOOLEAN
  <2>1. ASSUME NEW r, NEW e, NEW n, NEW i \in BOOLEAN, StartNextFilesystem(r, e, n, i)
        PROVE filesystem_running' \in BOOLEAN
    BY <2>1 DEF StartNextFilesystem
  <2>2. ASSUME RetryFilesystem PROVE filesystem_running' \in BOOLEAN
    BY <2>1, <2>2 DEF RetryFilesystem
  <2>3. ASSUME NEW c, RequestReload(c) PROVE filesystem_running' \in BOOLEAN
    BY <2>1, <2>3 DEF RequestReload
  <2>4. ASSUME NEW d, Expand(d) PROVE filesystem_running' \in BOOLEAN
    BY <2>1, <2>4 DEF Expand
  <2>5. CASE CompleteFilesystem
    BY <2>1, <2>5 DEF CompleteFilesystem, DropListing, ApplyListing
  <2>6. CASE FilesystemPanics
    BY <2>1, <2>6 DEF FilesystemPanics
  <2> QED
    BY <2>2, <2>3, <2>4, <2>5, <2>6
    DEF Next, MakeDirectory, RemoveDirectory, Rewrite, Edits, QueueFills, QueueDrains, Refresh,
        Search, ClearSearch, ToggleIgnored, Hide, Show, Collapse, LoadOne, Tick, ReadStatus,
        CompleteVcs, VcsPanics, OtherResult, vars, listing, running
<1> DEFINE Same == expanded' = expanded /\ desired_expanded' = desired_expanded
           Fewer == /\ expanded' = Pruned(tree', expanded)
                    /\ desired_expanded' = Pruned(tree', desired_expanded)
<1>3. ASSUME Same \/ Fewer, abandoned' = abandoned, Coming' = Coming,
             ~filesystem_running' => filesystem_expansions_running' = {}
      PROVE  StillFolded' /\ WishesServed'
  <2>1. CASE Same BY <1>3, <2>1 DEF StillFolded, WishesServed
  <2>2. CASE Fewer BY <1>3, <2>2 DEF Pruned, StillFolded, WishesServed
  <2> QED BY <1>3, <2>1, <2>2
<1>4. ASSUME RetryFilesystem, abandoned' = abandoned, Same \/ Fewer
      PROVE  StillFolded' /\ WishesServed'
  <2>1. Coming' = Coming /\ (~filesystem_running' => filesystem_expansions_running' = {})
    BY <1>4, StartKeepsExpansions DEF RetryFilesystem, StillFolded
  <2> QED BY <1>3, <1>4, <2>1
<1>12. UNCHANGED folds => Same
  BY DEF folds
<1>13. ForgetsQuery => Same \/ Fewer
  BY DEF ForgetsQuery, Rebuilt
<1>5. ASSUME Same \/ Fewer, abandoned' = abandoned, NEW c, RequestReload(c)
      PROVE  StillFolded' /\ WishesServed'
  <2>1. Coming' = Coming /\ (~filesystem_running' => filesystem_expansions_running' = {})
    BY <1>5, StartKeepsExpansions DEF RequestReload, StillFolded
  <2> QED BY <1>3, <1>5, <2>1
<1>6. ASSUME NEW d \in Dirs, Expand(d) PROVE StillFolded' /\ WishesServed'
  <2>1. /\ Coming' = Coming \cup {d}
        /\ ~filesystem_running' => filesystem_expansions_running' = {}
    BY ZenonT(60), <1>6, StartKeepsExpansions DEF Expand, StillFolded
  <2>2. /\ d \notin desired_expanded /\ desired_expanded' = desired_expanded \cup {d}
        /\ expanded' = expanded /\ abandoned' = abandoned
    BY <1>6 DEF Expand, ghosts
  <2> QED BY <2>1, <2>2 DEF StillFolded, WishesServed
<1>7. ASSUME NEW d \in Dirs, Collapse(d) PROVE StillFolded' /\ WishesServed'
  <2>1. /\ expanded' = IF d \in expanded THEN Pruned(tree', expanded \ {d}) ELSE expanded
        /\ desired_expanded' = IF d \in expanded THEN Pruned(tree', desired_expanded \ {d})
                                                 ELSE desired_expanded \ {d}
        /\ pending_expansions' = pending_expansions \ {d}
        /\ abandoned' = abandoned \ {d}
        /\ UNCHANGED <<filesystem_running, filesystem_expansions_running>>
    BY <1>7 DEF Collapse, Rebuilt, running
  <2>2. CASE d \in expanded
    BY <2>1, <2>2 DEF Pruned, StillFolded, WishesServed
  <2>3. CASE d \notin expanded
    BY <2>1, <2>3 DEF StillFolded, WishesServed
  <2> QED BY <2>2, <2>3
<1>8. ASSUME DropListing, UNCHANGED ghosts PROVE StillFolded' /\ WishesServed'
  <2>1. Coming' = StillWanted /\ (~filesystem_running' => filesystem_expansions_running' = {})
    BY <1>8, StartKeepsExpansions DEF DropListing
  <2> QED BY <1>8, <2>1 DEF DropListing, StillWanted, StillFolded, WishesServed, folds, ghosts
<1>9. ASSUME ApplyListing, UNCHANGED ghosts PROVE StillFolded' /\ WishesServed'
  <2> DEFINE Listed(d) == Known(tree', d) /\ job.result[d] # None
              Redone(dirs) == IF \E d \in Places : Listed(d) THEN Rebuilt(dirs) ELSE dirs
              Unfolded == expanded \cup
                  {d \in filesystem_expansions_running \cap desired_expanded : Listed(d)}
              Wished == desired_expanded \ {d \in filesystem_expansions_running : ~Listed(d)}
  <2>1. pending_expansions = {}
    BY <1>9 DEF ApplyListing, NeverRefused
  <2>2. Coming' = {} /\ (~filesystem_running' => filesystem_expansions_running' = {})
    BY <1>9, <2>1, StartKeepsExpansions DEF ApplyListing
  <2>3. /\ expanded' = Redone(Unfolded)
        /\ desired_expanded' = Redone(Wished)
        /\ abandoned' = abandoned
    BY <1>9 DEF ApplyListing, ghosts
  <2>4. Unfolded \subseteq Wished /\ Wished \subseteq Unfolded \cup abandoned
    <3> HIDE DEF Listed
    <3> QED BY <2>1 DEF StillFolded, WishesServed
  <2>5. \/ expanded' = Unfolded /\ desired_expanded' = Wished
        \/ expanded' = Pruned(tree', Unfolded) /\ desired_expanded' = Pruned(tree', Wished)
    BY <2>3 DEF Rebuilt
  <2> HIDE DEF Unfolded, Wished
  <2> QED BY <2>2, <2>3, <2>4, <2>5 DEF Pruned, StillFolded, WishesServed
<1>10. ASSUME FilesystemPanics PROVE StillFolded' /\ WishesServed'
  <2>1. /\ \/ Coming' = StillWanted /\ abandoned' = abandoned
           \/ Coming' = {} /\ abandoned' = abandoned \cup StillWanted
        /\ ~filesystem_running' => filesystem_expansions_running' = {}
    <3>1. \/ /\ abandoned' = abandoned
             /\ StartNextFilesystem(reload_pending \/ filesystem_reload_running, StillWanted,
                                    TRUE, TRUE)
          \/ /\ abandoned' = abandoned \cup StillWanted
             /\ StartNextFilesystem(FALSE, {}, TRUE, TRUE)
      BY <1>10 DEF FilesystemPanics, ghosts
    <3> QED BY <3>1, StartKeepsExpansions
  <2>2. UNCHANGED folds BY <1>10 DEF FilesystemPanics
  <2> QED BY <2>1, <2>2 DEF StillWanted, StillFolded, WishesServed, folds
<1>11. StillFolded' /\ WishesServed'
  <2>1. CASE /\ Same \/ Fewer
             /\ UNCHANGED <<abandoned, pending_expansions, filesystem_running,
                            filesystem_expansions_running>>
    BY <1>3, <2>1 DEF StillFolded
  <2>2. CASE (Same \/ Fewer) /\ UNCHANGED <<abandoned, listing>>
    BY <2>1, <2>2 DEF listing, running
  <2>3. CASE LoadOne
    BY <1>12, <2>1, <2>3 DEF LoadOne, ghosts
  <2>4. CASE \E d \in Dirs : MakeDirectory(d) \/ RemoveDirectory(d)
    BY <1>12, <2>2, <2>4 DEF MakeDirectory, RemoveDirectory, Edits, ghosts
  <2>5. CASE Rewrite \/ QueueFills \/ QueueDrains \/ Hide \/ Tick \/ ReadStatus \/ UNCHANGED vars
    BY <1>12, <2>2, <2>5 DEF Rewrite, Edits, QueueFills, QueueDrains, Hide, Tick, ReadStatus,
                             vars, ghosts
  <2>10. CASE Search \/ ClearSearch
    BY <1>13, <2>2, <2>10 DEF Search, ClearSearch, ghosts
  <2>6. CASE Refresh \/ ToggleIgnored \/ Show
    BY <1>5, <1>12, <1>13, <2>6 DEF Refresh, ToggleIgnored, Show
  <2>7. CASE VcsPanics \/ OtherResult
    <3>1. RetryFilesystem /\ abandoned' = abandoned /\ UNCHANGED folds
      BY <2>7 DEF VcsPanics, OtherResult, ghosts
    <3> QED BY <1>4, <1>12, <3>1
  <2>9. CASE CompleteVcs
    <3>1. RetryFilesystem /\ abandoned' = abandoned BY <2>9 DEF CompleteVcs, ghosts
    <3>2. Same \/ Fewer BY <2>9 DEF CompleteVcs, Rebuilt
    <3> QED BY <1>4, <3>1, <3>2
  <2>8. CASE CompleteFilesystem
    BY <1>8, <1>9, <2>8 DEF CompleteFilesystem
  <2> QED
    BY <1>6, <1>7, <1>10, <2>3, <2>4, <2>5, <2>6, <2>7, <2>8, <2>9, <2>10 DEF Next
<1> QED BY <1>1, <1>2, <1>11

(* A directory that the user wants unfolded is unfolded, pending, being    *)
(* listed, or given up after its listing panicked twice: Expand and        *)
(* Collapse in any order with complete_filesystem() and fail_background(). *)
THEOREM EveryWishServed == Spec => []WishesServed
<1>1. Init => FoldsInv
  BY DEF Init, FoldsInv, NeverRefused, StillFolded, WishesServed
<1>2. FoldsInv /\ [Next]_vars => FoldsInv' BY FoldsStep
<1>3. FoldsInv => WishesServed BY DEF FoldsInv
<1> QED BY <1>1, <1>2, <1>3, PTL DEF Spec

-----------------------------------------------------------------------------
(* start_next_vcs_refresh() leaves the poll armed or a command running, if *)
(* it finds it so or is asked for one.                                     *)
LEMMA StartKeepsPolling ==
    ASSUME NEW requested, NEW armed \in BOOLEAN, NEW idle \in BOOLEAN, NEW changed,
           cadence = "adaptive", background_active', requested \/ armed \/ ~idle,
           StartNextVcsRefresh(requested, armed, idle, changed)
    PROVE  next_status_refresh' \/ status_running'
BY DEF StartNextVcsRefresh

PollsInv == /\ ActiveOnScreen /\ Polls
            /\ next_status_refresh \in BOOLEAN /\ status_running \in BOOLEAN

LEMMA PollsStep ==
    ASSUME PollsInv, [Next]_vars PROVE PollsInv'
<1> USE DEF PollsInv
<1>1. ActiveOnScreen'
  BY DEF ActiveOnScreen, Next, MakeDirectory, RemoveDirectory, Rewrite, Edits, QueueFills,
         QueueDrains, Expand, Collapse, Refresh, Search, ClearSearch, ToggleIgnored, Hide, Show,
         LoadOne, CompleteFilesystem, DropListing, ApplyListing, FilesystemPanics, Tick, ReadStatus,
         CompleteVcs, VcsPanics, OtherResult, vars, shape
<1>2. ASSUME NEW r, NEW a \in BOOLEAN, NEW i \in BOOLEAN, NEW c, cadence' = cadence,
             StartNextVcsRefresh(r, a, i, c),
             view' = "files" /\ cadence = "adaptive" => r \/ a \/ ~i
      PROVE  Polls' /\ next_status_refresh' \in BOOLEAN /\ status_running' \in BOOLEAN
  <2>1. next_status_refresh' \in BOOLEAN /\ status_running' \in BOOLEAN
    BY <1>2 DEF StartNextVcsRefresh
  <2>2. Polls'
    BY <1>1, <1>2, StartKeepsPolling DEF Polls, ActiveOnScreen
  <2> QED BY <2>1, <2>2
<1>3. ASSUME NEW c, RequestReload(c), cadence' = cadence
      PROVE  Polls' /\ next_status_refresh' \in BOOLEAN /\ status_running' \in BOOLEAN
  BY <1>2, <1>3 DEF RequestReload
<1>4. ASSUME NEW c, RetryVcs(c), UNCHANGED <<view, cadence>>
      PROVE  Polls' /\ next_status_refresh' \in BOOLEAN /\ status_running' \in BOOLEAN
  BY <1>2, <1>4 DEF RetryVcs, Polls
<1>5. CASE UNCHANGED <<view, cadence, status_running, next_status_refresh>>
  BY <1>1, <1>5 DEF Polls
<1>6. CASE \E d \in Dirs : MakeDirectory(d) \/ RemoveDirectory(d) \/ Expand(d) \/ Collapse(d)
  BY <1>5, <1>6 DEF MakeDirectory, RemoveDirectory, Edits, Expand, Collapse, disk, shape, polling
<1>7. CASE \/ Rewrite \/ QueueFills \/ QueueDrains \/ Search \/ ClearSearch \/ LoadOne
           \/ ReadStatus \/ UNCHANGED vars
  BY <1>5, <1>7 DEF Rewrite, Edits, QueueFills, QueueDrains, Search, ClearSearch, LoadOne,
                    ReadStatus, disk, shape, polling, vars
<1>8. CASE Hide
  BY <1>1, <1>8 DEF Hide, Polls
<1>9. CASE Refresh \/ ToggleIgnored \/ Show
  BY <1>1, <1>3, <1>9 DEF Refresh, ToggleIgnored, Show, disk
<1>10. CASE CompleteFilesystem \/ FilesystemPanics
  BY <1>1, <1>4, <1>10 DEF CompleteFilesystem, DropListing, ApplyListing, FilesystemPanics, disk,
                           shape
<1>11. CASE OtherResult
  BY <1>1, <1>4, <1>11 DEF OtherResult, disk, shape
<1>12. CASE Tick
  BY <1>1, <1>2, <1>12 DEF Tick, disk
<1>13. CASE VcsPanics
  BY <1>1, <1>2, <1>13 DEF VcsPanics, disk
<1>14. CASE CompleteVcs
  <2>1. (background_active /\ cadence = "adaptive") \in BOOLEAN
    OBVIOUS
  <2>2. view' = view /\ cadence' = cadence
    BY <1>14 DEF CompleteVcs, disk
  <2>3. view = "files" /\ cadence = "adaptive" => background_active /\ cadence = "adaptive"
    BY DEF ActiveOnScreen
  <2>4. StartNextVcsRefresh(status_requested \/ statusJob.outdated,
                            background_active /\ cadence = "adaptive", TRUE, FALSE)
    BY <1>14 DEF CompleteVcs
  <2> QED BY <1>1, <1>2, <2>1, <2>2, <2>3, <2>4
<1> QED
  BY <1>6, <1>7, <1>8, <1>9, <1>10, <1>11, <1>12, <1>13, <1>14 DEF Next

(* Where Git is polled the poll is armed, or a command runs, all the time  *)
(* the view is on screen: a queue that takes no job, a panic and a change  *)
(* of view do not end the polling (schedule_next_status_refresh()).        *)
THEOREM PollingGoesOn == Spec => []Polls
<1>1. Init => PollsInv
  BY DEF Init, PollsInv, ActiveOnScreen, Polls
<1>2. PollsInv /\ [Next]_vars => PollsInv' BY PollsStep
<1>3. PollsInv => Polls BY DEF PollsInv
<1> QED BY <1>1, <1>2, <1>3, PTL DEF Spec

-----------------------------------------------------------------------------
(* Paths.                                                                  *)

LEMMA PathTypes ==
    ASSUME NEW p \in Places
    PROVE  p \in Seq(Nat) /\ Len(p) \in Nat /\ (p = Root <=> Len(p) = 0)
<1>1. p \in Seq(Nat)
  BY DirsAssumption, EmptySeq DEF Places, Root
<1> QED BY <1>1, EmptySeq, LenProperties DEF Root

LEMMA PrefixMeans ==
    ASSUME NEW p \in Seq(Nat), NEW d \in Seq(Nat)
    PROVE  Within(p, d) <=> Len(d) <= Len(p) /\ \A i \in 1..Len(d) : p[i] = d[i]
<1>1. ASSUME Len(d) <= Len(p)
      PROVE  SubSeq(d, 1, Len(d)) = SubSeq(p, 1, Len(d)) <=> \A i \in 1..Len(d) : p[i] = d[i]
  <2>1. SubSeq(d, 1, Len(d)) = [i \in 1..Len(d) |-> d[i]]
    OBVIOUS
  <2>2. SubSeq(p, 1, Len(d)) = [i \in 1..Len(d) |-> p[i]]
    BY <1>1
  <2> QED BY <2>1, <2>2
<1> QED BY <1>1 DEF Within, IsPrefix

LEMMA ParentMeans ==
    ASSUME NEW d \in Dirs
    PROVE  /\ Parent(d) \in Places
           /\ Len(d) \in Nat \ {0}
           /\ Len(Parent(d)) = Len(d) - 1
           /\ \A i \in 1..(Len(d) - 1) : Parent(d)[i] = d[i]
<1>1. Parent(d) \in Places /\ d \in Seq(Nat) /\ Len(d) \in Nat \ {0}
  BY DirsAssumption, PathTypes DEF Places
<1>2. Parent(d) = [i \in 1..(Len(d) - 1) |-> d[i]]
  BY <1>1 DEF Parent, Front
<1> QED BY <1>1, <1>2

LEMMA WithinItself == ASSUME NEW p \in Places PROVE Within(p, p)
BY PathTypes, PrefixMeans

LEMMA WithinRoot == ASSUME NEW d \in Dirs PROVE ~Within(Root, d)
<1>1. Len(d) \in Nat \ {0} /\ Root \in Places
  BY ParentMeans DEF Places
<1>2. Len(Root) = 0 /\ d \in Seq(Nat) /\ Root \in Seq(Nat)
  BY <1>1, PathTypes DEF Places
<1>3. Within(Root, d) => Len(d) <= Len(Root)
  BY <1>2, PrefixMeans
<1> QED BY <1>1, <1>2, <1>3

LEMMA WithinWithin ==
    ASSUME NEW p \in Places, NEW d \in Places, NEW e \in Places, Within(p, d), Within(d, e)
    PROVE  Within(p, e)
<1>1. Len(d) \in Nat /\ Len(p) \in Nat /\ Len(e) \in Nat
  BY PathTypes
<1>2. Len(e) <= Len(d) /\ \A i \in 1..Len(e) : d[i] = e[i]
  BY PathTypes, PrefixMeans
<1>3. Len(d) <= Len(p) /\ \A i \in 1..Len(d) : p[i] = d[i]
  BY PathTypes, PrefixMeans
<1> QED BY <1>1, <1>2, <1>3, PathTypes, PrefixMeans

LEMMA WithinParent ==
    ASSUME NEW p \in Dirs, NEW d \in Dirs
    PROVE  /\ Within(p, Parent(p))
           /\ Within(p, d) /\ p # d => Within(Parent(p), d)
<1>1. p \in Seq(Nat) /\ d \in Seq(Nat) /\ Parent(p) \in Seq(Nat)
  BY ParentMeans, PathTypes DEF Places
<1>2. Within(p, Parent(p))
  BY <1>1, ParentMeans, PrefixMeans
<1>3. ASSUME Within(p, d), p # d PROVE Within(Parent(p), d)
  <2>1. Len(d) <= Len(p) /\ \A i \in 1..Len(d) : p[i] = d[i]
    BY <1>1, <1>3, PrefixMeans
  <2>2. Len(d) # Len(p)
    BY <1>1, <1>3, <2>1, SeqEqual
  <2>3. Len(d) \in Nat /\ Len(p) \in Nat
    BY <1>1, LenProperties
  <2>4. Len(d) <= Len(p) - 1
    BY <2>1, <2>2, <2>3
  <2>5. \A i \in 1..Len(d) : Parent(p)[i] = d[i]
    BY <2>1, <2>3, <2>4, ParentMeans
  <2> QED BY <1>1, <2>3, <2>4, <2>5, ParentMeans, PrefixMeans
<1> QED BY <1>2, <1>3

-----------------------------------------------------------------------------
(* The tree to which listings have been applied.                           *)

Listings == [Places -> Listing \cup {None}]

LEMMA ReachedByParent ==
    ASSUME NEW t, NEW b, NEW p \in Dirs
    PROVE  Reached(t, b, p) <=> /\ Reached(t, b, Parent(p))
                                /\ Entry(t, b, Parent(p)) # None
                                /\ p \in Entry(t, b, Parent(p)).children
<1>1. ASSUME NEW d \in Dirs PROVE Within(p, d) <=> d = p \/ Within(Parent(p), d)
  <2>1. Within(Parent(p), d) => Within(p, d)
    BY ParentMeans, WithinParent, WithinWithin DEF Places
  <2> QED BY <2>1, WithinItself, WithinParent DEF Places
<1> QED BY <1>1 DEF Reached

LEMMA RootReached == ASSUME NEW t, NEW b PROVE Reached(t, b, Root)
BY WithinRoot DEF Reached

LEMMA KnownIsReached ==
    ASSUME NEW t \in Tree, NEW b \in Listings, NEW p \in Places
    PROVE  Known(Applied(t, b), p) <=> Reached(t, b, p)
<1>1. \A q \in Places : Applied(t, b).loaded[q] = IF Reached(t, b, q) THEN Entry(t, b, q) ELSE None
  BY DEF Applied, Tree
<1>2. CASE p = Root
  BY <1>2, RootReached DEF Known
<1>3. CASE p \in Dirs
  BY <1>1, <1>3, ParentMeans, ReachedByParent, DirsAssumption DEF Known
<1> QED BY <1>2, <1>3 DEF Places

LEMMA AppliedTree ==
    ASSUME NEW t \in Tree, Rooted(t), NEW b \in Listings
    PROVE  /\ Applied(t, b) \in Tree
           /\ Rooted(Applied(t, b))
           /\ Applied(t, b).ignored = t.ignored
           /\ Applied(t, b).status = t.status
           /\ \A p \in Places :
                 Applied(t, b).loaded[p] = IF Known(Applied(t, b), p)
                                           THEN IF b[p] # None THEN b[p] ELSE t.loaded[p]
                                           ELSE None
<1> DEFINE A == Applied(t, b)
<1>1. \A p \in Places : Entry(t, b, p) \in Listing \cup {None}
  BY DEF Entry, Listings, Tree
<1>2. A \in Tree /\ A.ignored = t.ignored /\ A.status = t.status
  BY <1>1 DEF Applied, Tree
<1>3. \A p \in Places : A.loaded[p] = IF Reached(t, b, p) THEN Entry(t, b, p) ELSE None
  BY DEF Applied, Tree
<1>4. Rooted(A)
  <2>1. A.loaded[Root] # None
    BY <1>3, RootReached DEF Entry, Rooted, Places
  <2>2. ASSUME NEW p \in Dirs, NEW d \in Dirs, A.loaded[p] # None, Within(p, d)
        PROVE  Known(A, d)
    <3>1. Reached(t, b, p)
      BY <1>3, <2>2 DEF Places
    <3>2. Reached(t, b, d)
      BY <2>2, <3>1, WithinWithin DEF Reached, Places
    <3> QED BY <3>2, KnownIsReached DEF Places
  <2> HIDE DEF A
  <2> QED BY <2>1, <2>2 DEF Rooted
<1> QED BY <1>2, <1>3, <1>4, KnownIsReached DEF Entry

(* Listings none of which finds its directory leave the tree as it is: by  *)
(* the shortest path at which they would not.                              *)
LEMMA NothingApplied ==
    ASSUME NEW t \in Tree, Rooted(t), NEW b \in Listings,
           \A p \in Places : Known(Applied(t, b), p) => b[p] = None
    PROVE  Applied(t, b) = t
<1> DEFINE Lost == {p \in Places : t.loaded[p] # None /\ ~Reached(t, b, p)}
<1>1. Lost = {}
  <2> SUFFICES ASSUME Lost # {} PROVE FALSE
    OBVIOUS
  <2>1. {Len(p) : p \in Lost} \subseteq Nat /\ {Len(p) : p \in Lost} # {}
    BY PathTypes
  <2>2. PICK n \in {Len(p) : p \in Lost} :
           \A m \in {Len(p) : p \in Lost} : ~(<<m, n>> \in OpToRel(<, Nat))
    BY <2>1, WFMin, NatLessThanWellFounded
  <2>3. PICK p \in Lost : Len(p) = n
    BY <2>2
  <2>4. \A q \in Lost : ~(Len(q) < Len(p))
    BY <2>1, <2>2, <2>3 DEF OpToRel
  <2>5. p \in Dirs
    BY RootReached DEF Places
  <2>6. PICK d \in Dirs : /\ Within(p, d)
                          /\ ~(/\ Entry(t, b, Parent(d)) # None
                               /\ d \in Entry(t, b, Parent(d)).children)
    BY <2>3 DEF Reached
  <2>7. /\ t.loaded[Parent(d)] # None /\ d \in t.loaded[Parent(d)].children
    BY <2>5, <2>6, DirsAssumption DEF Rooted, Known
  <2>8. Parent(d) \in Places /\ Len(Parent(d)) < Len(p)
    BY <2>5, <2>6, ParentMeans, PathTypes, PrefixMeans DEF Places
  <2>9. Reached(t, b, Parent(d))
    BY <2>4, <2>7, <2>8
  <2>10. b[Parent(d)] = None
    BY <2>8, <2>9, KnownIsReached
  <2> QED BY <2>6, <2>7, <2>10 DEF Entry
<1>2. \A p \in Places : Applied(t, b).loaded[p] = t.loaded[p]
  BY <1>1, AppliedTree, KnownIsReached
<1>3. Applied(t, b).loaded = t.loaded
  BY <1>2, AppliedTree DEF Tree
<1> QED BY <1>3, AppliedTree DEF Tree

-----------------------------------------------------------------------------
(* The types.  The tree changes in four ways: with the choice of ignored   *)
(* files, when listings are applied, when a status is merged, or not.      *)

Merges == /\ status_running /\ statusJob.read \in Nat /\ ~statusJob.outdated
          /\ tree' = [tree EXCEPT !.status = statusJob.read]
Applies == /\ CompleteFilesystem
           /\ ApplyListing
Toggles == /\ tree' = [tree EXCEPT !.ignored = show_ignored']
           /\ ToggleIgnored

LEMMA CompleteVcsStep ==
    ASSUME TypeOK, StatusFresh, CompleteVcs PROVE UNCHANGED tree \/ Merges
<1>1. CASE ~status_requested /\ ~statusJob.outdated /\ statusJob.read # Failed
  <2>1. status_running /\ statusJob \in StatusJob /\ statusJob.read # None
    BY DEF CompleteVcs, TypeOK
  <2>2. statusJob.read \in Nat
    BY <1>1, <2>1 DEF StatusJob
  <2>3. statusJob.tree = tree
    BY <1>1, <2>1 DEF StatusFresh
  <2>4. tree' = [statusJob.tree EXCEPT !.status = statusJob.read]
    BY <1>1 DEF CompleteVcs
  <2> QED BY <1>1, <2>1, <2>2, <2>3, <2>4 DEF Merges
<1>2. CASE ~(~status_requested /\ ~statusJob.outdated /\ statusJob.read # Failed)
  BY <1>2 DEF CompleteVcs
<1> QED BY <1>1, <1>2

LEMMA TreeStep ==
    ASSUME TypeOK, StatusFresh, [Next]_vars
    PROVE  UNCHANGED tree \/ (Merges /\ CompleteVcs) \/ Applies \/ Toggles
<1>1. CASE \E d \in Dirs : MakeDirectory(d) \/ RemoveDirectory(d) \/ Expand(d) \/ Collapse(d)
  BY <1>1 DEF MakeDirectory, RemoveDirectory, Edits, Expand, Collapse, shape
<1>2. CASE \/ Rewrite \/ QueueFills \/ QueueDrains \/ Refresh \/ Search \/ ClearSearch \/ Hide
           \/ Show \/ LoadOne
  BY <1>2 DEF Rewrite, Edits, QueueFills, QueueDrains, Refresh, Search, ClearSearch, Hide, Show,
              LoadOne, shape
<1>3. CASE ToggleIgnored BY <1>3 DEF ToggleIgnored, Toggles
<1>4. CASE CompleteFilesystem
  BY <1>4 DEF CompleteFilesystem, DropListing, Applies, shape
<1>5. CASE FilesystemPanics \/ Tick \/ ReadStatus \/ VcsPanics \/ OtherResult \/ UNCHANGED vars
  BY <1>5 DEF FilesystemPanics, Tick, ReadStatus, VcsPanics, OtherResult, vars, shape
<1>6. CASE CompleteVcs BY <1>6, CompleteVcsStep
<1> QED BY <1>1, <1>2, <1>3, <1>4, <1>5, <1>6 DEF Next

TreeTypes == tree \in Tree /\ Rooted(tree)
ListTypes == /\ pending_expansions \subseteq Dirs
             /\ reload_pending \in BOOLEAN
             /\ invalidated \in BOOLEAN
             /\ filesystem_running \in BOOLEAN
             /\ filesystem_reload_running \in BOOLEAN
             /\ filesystem_expansions_running \subseteq Dirs
             /\ job \in IF filesystem_running THEN Job ELSE {None}
StatusTypes == /\ status_requested \in BOOLEAN
               /\ status_running \in BOOLEAN
               /\ statusJob \in IF status_running THEN StatusJob ELSE {None}
               /\ next_status_refresh \in BOOLEAN
FoldTypes == /\ filtering \in BOOLEAN
             /\ expanded \subseteq Dirs
             /\ desired_expanded \subseteq Dirs
             /\ strayed \subseteq Dirs
OtherTypes == /\ cadence \in {"adaptive", "manual"}
              /\ present \subseteq Dirs
              /\ stamp \in Nat
              /\ view \in {"files", "conversations"}
              /\ background_active \in BOOLEAN
              /\ show_ignored \in BOOLEAN
              /\ filesystem_panic_retried \in BOOLEAN
              /\ full \in BOOLEAN
              /\ owed \in [at : Nat, dirs : SUBSET Places]
              /\ abandoned \subseteq Dirs
              /\ intents \in Nat
              /\ faults \in Nat

LEMMA TypesTogether ==
    TypeOK <=> TreeTypes /\ ListTypes /\ StatusTypes /\ FoldTypes /\ OtherTypes
BY DEF TypeOK, TreeTypes, ListTypes, StatusTypes, FoldTypes, OtherTypes

LEMMA TreeTypesStep ==
    ASSUME TypeOK, StatusFresh, [Next]_vars PROVE TreeTypes' /\ tree'.ignored \in BOOLEAN
<1> USE DEF TreeTypes
<1>1. tree \in Tree /\ Rooted(tree) BY DEF TypeOK
<1>2. CASE UNCHANGED tree BY <1>1, <1>2 DEF Tree
<1>3. CASE Merges
  BY <1>1, <1>3 DEF Merges, Tree, Rooted, Known
<1>4. CASE Applies
  <2>1. job \in Job /\ tree' = Applied(tree, job.result)
    BY <1>4 DEF Applies, CompleteFilesystem, ApplyListing, TypeOK
  <2>2. job.result \in Listings
    BY <2>1 DEF Job, Listings
  <2>3. tree' \in Tree /\ Rooted(tree')
    BY <1>1, <2>1, <2>2, AppliedTree
  <2> QED BY <2>3 DEF Tree
<1>5. CASE Toggles
  BY <1>1, <1>5 DEF Toggles, ToggleIgnored, TypeOK, Tree, Rooted, Known
<1> QED BY <1>2, <1>3, <1>4, <1>5, TreeStep

LEMMA RebuiltLess == ASSUME NEW dirs PROVE Rebuilt(dirs) \subseteq dirs
BY DEF Rebuilt, Pruned

LEMMA FoldTypesStep ==
    ASSUME TypeOK, [Next]_vars PROVE FoldTypes'
<1> USE DEF TypeOK
<1>1. CASE UNCHANGED folds BY <1>1 DEF FoldTypes, folds
<1>2. CASE Search \/ \E d \in Dirs : Expand(d)
  BY <1>2 DEF Search, Expand, FoldTypes
<1>3. ASSUME filtering' \in BOOLEAN, Strays(expanded'), expanded' \subseteq Dirs,
             desired_expanded' \subseteq Dirs
      PROVE  FoldTypes'
  <2>1. strayed' \subseteq expanded' BY <1>3 DEF Strays
  <2> QED BY <1>3, <2>1 DEF FoldTypes
<1>4. CASE \E d \in Dirs : Collapse(d)
  <2>1. PICK d \in Dirs : Collapse(d) BY <1>4
  <2>2. /\ expanded' \in {expanded, Rebuilt(expanded \ {d})}
        /\ desired_expanded' \in {desired_expanded \ {d}, Rebuilt(desired_expanded \ {d})}
        /\ filtering' = filtering /\ Strays(expanded')
    BY <2>1 DEF Collapse
  <2> QED BY <1>3, <2>2, RebuiltLess
<1>5. CASE ApplyListing
  <2> DEFINE Listed(d) == Known(tree', d) /\ job.result[d] # None
             Unfolded == {d \in filesystem_expansions_running \cap desired_expanded : Listed(d)}
             Gone == {d \in filesystem_expansions_running : ~Listed(d)}
  <2>1. /\ expanded' \in {expanded \cup Unfolded, Rebuilt(expanded \cup Unfolded)}
        /\ desired_expanded' \in {desired_expanded \ Gone, Rebuilt(desired_expanded \ Gone)}
        /\ filtering' = filtering /\ Strays(expanded')
    BY <1>5 DEF ApplyListing
  <2>2. Unfolded \subseteq Dirs
    OBVIOUS
  <2> HIDE DEF Unfolded, Gone
  <2> QED BY <1>3, <2>1, <2>2, RebuiltLess
<1>6. CASE CompleteVcs \/ ForgetsQuery
  <2>1. /\ expanded' \in {expanded, Rebuilt(expanded)}
        /\ desired_expanded' \in {desired_expanded, Rebuilt(desired_expanded)}
        /\ filtering' \in BOOLEAN /\ Strays(expanded')
    BY <1>6 DEF CompleteVcs, ForgetsQuery
  <2> QED BY <1>3, <2>1, RebuiltLess
<1>7. CASE UNCHANGED vars BY <1>1, <1>7 DEF vars
<1>8. CASE ClearSearch \/ ToggleIgnored
  BY <1>6, <1>8 DEF ClearSearch, ToggleIgnored
<1> QED
  BY <1>1, <1>2, <1>4, <1>5, <1>6, <1>7, <1>8
  DEF Next, MakeDirectory, RemoveDirectory, Rewrite, Edits, QueueFills, QueueDrains, Refresh,
      Hide, Show, LoadOne, CompleteFilesystem, DropListing, FilesystemPanics, Tick, ReadStatus,
      VcsPanics, OtherResult

LEMMA StartTypes ==
    ASSUME NEW reload \in BOOLEAN, NEW expansions \in SUBSET Dirs,
           NEW newer \in BOOLEAN, NEW idle \in BOOLEAN,
           ListTypes, ~idle => filesystem_running, TreeTypes', FoldTypes',
           StartNextFilesystem(reload, expansions, newer, idle)
    PROVE  ListTypes'
<1> DEFINE directories == expansions \cup IF reload THEN {Root} \cup expanded' ELSE {}
           starts == background_active' /\ idle /\ directories # {} /\ newer /\ ~full
<1>1. directories \in SUBSET Places /\ tree'.ignored \in BOOLEAN
  BY DEF FoldTypes, TreeTypes, Tree, Places
<1>2. CASE starts
  <2>1. /\ ~reload_pending' /\ pending_expansions' = {} /\ ~invalidated'
        /\ reload_pending' \in BOOLEAN /\ invalidated' \in BOOLEAN
        /\ filesystem_running' = TRUE
        /\ filesystem_reload_running' = reload
        /\ filesystem_expansions_running' = expansions
        /\ job' = [ignored |-> tree'.ignored, todo |-> directories,
                   result |-> [p \in Places |-> None]]
    BY <1>2 DEF StartNextFilesystem
  <2>2. job' \in Job
    <3> HIDE DEF directories
    <3> QED BY <1>1, <2>1 DEF Job
  <2> QED BY <2>1, <2>2 DEF ListTypes
<1>3. CASE ~starts
  <2>1. /\ reload_pending' = reload
        /\ pending_expansions' = expansions
        /\ invalidated' = newer
        /\ filesystem_running' = ~idle
        /\ filesystem_reload_running' = (~idle /\ filesystem_reload_running)
        /\ filesystem_expansions_running' = IF idle THEN {} ELSE filesystem_expansions_running
        /\ job' = IF idle THEN None ELSE job
    BY <1>3 DEF StartNextFilesystem
  <2> QED BY <2>1 DEF ListTypes
<1> QED BY <1>2, <1>3

LEMMA StartStatusTypes ==
    ASSUME NEW requested \in BOOLEAN, NEW armed \in BOOLEAN, NEW idle \in BOOLEAN,
           NEW changed \in BOOLEAN,
           StatusTypes, ~idle => status_running, TreeTypes',
           StartNextVcsRefresh(requested, armed, idle, changed)
    PROVE  StatusTypes'
<1>1. /\ status_requested' \in BOOLEAN /\ next_status_refresh' \in BOOLEAN
      /\ status_running' \in BOOLEAN
  BY DEF StartNextVcsRefresh
<1> DEFINE starts == background_active' /\ idle /\ requested /\ ~full
<1>2. CASE starts
  <2>1. status_running' /\ statusJob' = [tree |-> tree', outdated |-> FALSE, read |-> None]
    BY <1>2 DEF StartNextVcsRefresh
  <2> QED BY <1>1, <2>1 DEF StatusTypes, StatusJob, TreeTypes
<1>3. CASE ~starts /\ idle
  BY <1>1, <1>3 DEF StatusTypes, StartNextVcsRefresh
<1>4. CASE ~idle
  <2>1. /\ status_running'
        /\ statusJob' = [statusJob EXCEPT !.outdated = @ \/ changed]
        /\ statusJob \in StatusJob
    BY <1>4 DEF StatusTypes, StartNextVcsRefresh
  <2> QED BY <1>1, <2>1 DEF StatusTypes, StatusJob
<1> QED BY <1>2, <1>3, <1>4

LEMMA ListTypesStep ==
    ASSUME TypeOK, StatusFresh, [Next]_vars PROVE ListTypes'
<1> USE TreeTypesStep, FoldTypesStep
<1>1. ListTypes BY TypesTogether
<1>2. CASE UNCHANGED listing BY <1>1, <1>2 DEF ListTypes, listing, running
<1>3. ASSUME RetryFilesystem PROVE ListTypes'
  <2>1. ~(~filesystem_running) => filesystem_running OBVIOUS
  <2> QED BY <1>1, <1>3, <2>1, StartTypes DEF ListTypes, RetryFilesystem
<1>4. ASSUME NEW c, RequestReload(c) PROVE ListTypes'
  BY <1>1, <1>4, StartTypes DEF ListTypes, RequestReload
<1>5. ASSUME NEW d \in Dirs, Expand(d) PROVE ListTypes'
  <2>1. pending_expansions \cup {d} \in SUBSET Dirs BY <1>1 DEF ListTypes
  <2>2. StartNextFilesystem(reload_pending, pending_expansions \cup {d}, TRUE,
                            ~filesystem_running)
    BY <1>5 DEF Expand
  <2> QED BY <1>1, <2>1, <2>2, StartTypes DEF ListTypes
<1>6. ASSUME NEW d \in Dirs, Collapse(d) PROVE ListTypes'
  BY <1>1, <1>6 DEF ListTypes, Collapse, running
<1>7. CASE LoadOne
  <2>1. PICK d \in job.todo :
           job' = [job EXCEPT !.todo = @ \ {d},
                              !.result[d] = IF d \in present \cup {Root}
                                            THEN ListingOf(d, job.ignored) ELSE None]
    BY <1>7 DEF LoadOne
  <2>2. job \in Job /\ filesystem_running /\ d \in Places
    BY <1>1, <1>7 DEF LoadOne, ListTypes, Job
  <2>3. ListingOf(d, job.ignored) \in Listing
    BY <2>2 DEF ListingOf, Listing, Job, TypeOK
  <2>4. job' \in Job
    BY <2>1, <2>2, <2>3 DEF Job
  <2> QED BY <1>1, <1>7, <2>2, <2>4 DEF LoadOne, ListTypes
<1>8. StillWanted \in SUBSET Dirs BY <1>1 DEF ListTypes, StillWanted
<1>9. CASE CompleteFilesystem
  <2>1. CASE DropListing
    <3>1. StartNextFilesystem(reload_pending \/ filesystem_reload_running, StillWanted, TRUE, TRUE)
      BY <2>1 DEF DropListing
    <3>2. (reload_pending \/ filesystem_reload_running) \in BOOLEAN OBVIOUS
    <3> QED BY <1>1, <1>8, <3>1, <3>2, StartTypes
  <2>2. CASE ApplyListing
    BY <1>1, <2>2, StartTypes DEF ApplyListing, ListTypes
  <2> QED BY <1>9, <2>1, <2>2 DEF CompleteFilesystem
<1>10. CASE FilesystemPanics
  <2>1. StartNextFilesystem(reload_pending \/ filesystem_reload_running, StillWanted, TRUE, TRUE)
          \/ StartNextFilesystem(FALSE, {}, TRUE, TRUE)
    BY <1>10 DEF FilesystemPanics
  <2>2. (reload_pending \/ filesystem_reload_running) \in BOOLEAN OBVIOUS
  <2> QED BY <1>1, <1>8, <2>1, <2>2, StartTypes
<1> QED
  BY <1>2, <1>3, <1>4, <1>5, <1>6, <1>7, <1>9, <1>10
  DEF Next, MakeDirectory, RemoveDirectory, Rewrite, Edits, QueueFills, QueueDrains, Refresh,
      Search, ClearSearch, ToggleIgnored, Hide, Show, Tick, ReadStatus, CompleteVcs, VcsPanics,
      OtherResult, vars

LEMMA StatusTypesStep ==
    ASSUME TypeOK, StatusFresh, [Next]_vars PROVE StatusTypes'
<1> USE TreeTypesStep
<1>1. StatusTypes BY TypesTogether
<1>2. CASE UNCHANGED polling BY <1>1, <1>2 DEF StatusTypes, polling
<1>3. ASSUME NEW c \in BOOLEAN, RetryVcs(c) PROVE StatusTypes'
  BY <1>1, <1>3, StartStatusTypes DEF StatusTypes, RetryVcs
<1>4. ASSUME NEW c \in BOOLEAN, RequestReload(c) PROVE StatusTypes'
  BY <1>1, <1>4, StartStatusTypes DEF StatusTypes, RequestReload
<1>5. CASE Hide
  BY <1>1, <1>5 DEF StatusTypes, Hide
<1>6. CASE CompleteFilesystem
  <2>1. PICK c \in BOOLEAN : RetryVcs(c)
    BY <1>6 DEF CompleteFilesystem, DropListing, ApplyListing
  <2> QED BY <1>3, <2>1
<1>7. CASE Tick
  BY <1>1, <1>7, StartStatusTypes DEF StatusTypes, Tick
<1>8. CASE ReadStatus
  <2>1. status_running /\ statusJob \in StatusJob
    BY <1>1, <1>8 DEF ReadStatus, StatusTypes
  <2>2. /\ statusJob' \in {[statusJob EXCEPT !.read = stamp], [statusJob EXCEPT !.read = Failed]}
        /\ UNCHANGED <<status_requested, status_running, next_status_refresh>>
    BY <1>8 DEF ReadStatus
  <2>3. stamp \in Nat BY DEF TypeOK
  <2>4. statusJob' \in StatusJob BY <2>1, <2>2, <2>3 DEF StatusJob
  <2> QED BY <1>1, <2>1, <2>2, <2>4 DEF StatusTypes
<1>9. CASE CompleteVcs
  <2>1. statusJob \in StatusJob
    BY <1>1, <1>9 DEF CompleteVcs, StatusTypes
  <2>2. (status_requested \/ statusJob.outdated) \in BOOLEAN
        /\ (background_active /\ cadence = "adaptive") \in BOOLEAN
    OBVIOUS
  <2> QED BY <1>1, <1>9, <2>2, StartStatusTypes DEF CompleteVcs
<1>10. CASE VcsPanics
  BY <1>1, <1>10, StartStatusTypes DEF StatusTypes, VcsPanics
<1> QED
  BY <1>2, <1>3, <1>4, <1>5, <1>6, <1>7, <1>8, <1>9, <1>10
  DEF Next, MakeDirectory, RemoveDirectory, Rewrite, Edits, QueueFills, QueueDrains, Expand,
      Collapse, Refresh, Search, ClearSearch, ToggleIgnored, Show, LoadOne, FilesystemPanics,
      OtherResult, vars

LEMMA OtherTypesStep ==
    ASSUME TypeOK, [Next]_vars PROVE OtherTypes'
<1>1. OtherTypes BY TypesTogether
<1> DEFINE Disk == /\ cadence \in {"adaptive", "manual"}
                   /\ present \subseteq Dirs
                   /\ stamp \in Nat
           Screen == /\ view \in {"files", "conversations"}
                     /\ background_active \in BOOLEAN
                     /\ show_ignored \in BOOLEAN
           Flags == filesystem_panic_retried \in BOOLEAN /\ full \in BOOLEAN
           Ghosts == owed \in [at : Nat, dirs : SUBSET Places] /\ abandoned \subseteq Dirs
           Bounds == intents \in Nat /\ faults \in Nat
<1>2. Disk /\ Screen /\ Flags /\ Ghosts /\ Bounds BY <1>1 DEF OtherTypes
<1>3. Disk'
  <2>1. CASE UNCHANGED disk BY <1>2, <2>1 DEF disk
  <2>2. ASSUME NEW dirs \in SUBSET Dirs, Edits(dirs) PROVE Disk'
    BY <1>2, <2>2 DEF Edits
  <2>3. \A d \in Dirs : present \cup {d} \in SUBSET Dirs
                        /\ {p \in present : ~Within(p, d)} \in SUBSET Dirs
    BY <1>2
  <2>4. present \in SUBSET Dirs BY <1>2
  <2> QED
    BY <2>1, <2>2, <2>3, <2>4
    DEF Next, MakeDirectory, RemoveDirectory, Rewrite, QueueFills, QueueDrains, Expand, Collapse,
        Refresh, Search, ClearSearch, ToggleIgnored, Hide, Show, LoadOne, CompleteFilesystem,
        FilesystemPanics, Tick, ReadStatus, CompleteVcs, VcsPanics, OtherResult, vars
<1>4. Screen'
  <2>1. CASE UNCHANGED <<view, background_active, show_ignored>> BY <1>2, <2>1
  <2>2. CASE ToggleIgnored BY <1>2, <2>2 DEF ToggleIgnored
  <2>3. CASE Hide BY <1>2, <2>3 DEF Hide
  <2>4. CASE Show BY <1>2, <2>4 DEF Show
  <2>5. CASE UNCHANGED shape BY <2>1, <2>5 DEF shape
  <2> QED
    BY <2>1, <2>2, <2>3, <2>4, <2>5
    DEF Next, MakeDirectory, RemoveDirectory, Rewrite, Edits, QueueFills, QueueDrains, Expand,
        Collapse, Refresh, Search, ClearSearch, LoadOne, CompleteFilesystem, DropListing,
        ApplyListing, FilesystemPanics, Tick, ReadStatus, CompleteVcs, VcsPanics, OtherResult,
        vars
<1>5. Flags'
  <2>1. CASE UNCHANGED <<filesystem_panic_retried, full>> BY <1>2, <2>1
  <2>2. CASE QueueFills BY <1>2, <2>2 DEF QueueFills
  <2>3. CASE QueueDrains BY <1>2, <2>3 DEF QueueDrains
  <2>4. CASE CompleteFilesystem /\ ApplyListing
    BY <1>2, <2>4 DEF CompleteFilesystem, ApplyListing
  <2>5. CASE FilesystemPanics BY <1>2, <2>5 DEF FilesystemPanics
  <2> QED
    BY <2>1, <2>2, <2>3, <2>4, <2>5
    DEF Next, MakeDirectory, RemoveDirectory, Rewrite, Edits, Expand, Collapse, Refresh, Search,
        ClearSearch, Hide, Show, ToggleIgnored, LoadOne, CompleteFilesystem, DropListing, Tick,
        ReadStatus, CompleteVcs, VcsPanics, OtherResult, vars
<1>6. Ghosts'
  <2>1. CASE UNCHANGED ghosts BY <1>2, <2>1 DEF ghosts
  <2>2. ASSUME NEW dirs, Edits(dirs) PROVE Ghosts'
    BY <1>2, <2>2 DEF Edits
  <2>3. ASSUME NEW d \in Dirs, Collapse(d) PROVE Ghosts'
    BY <1>2, <2>3 DEF Collapse
  <2>4. ASSUME NEW c, RequestReload(c), abandoned' = abandoned PROVE Ghosts'
    BY <1>2, <1>3, <2>4 DEF RequestReload, Places
  <2>5. CASE FilesystemPanics
    <3>1. /\ owed' \in {owed, [owed EXCEPT !.dirs = {}]}
          /\ abandoned' \in {abandoned, abandoned \cup StillWanted}
      BY <2>5 DEF FilesystemPanics, ghosts
    <3> QED BY <1>2, <3>1 DEF StillWanted, TypeOK
  <2> QED
    BY <2>1, <2>2, <2>3, <2>4, <2>5
    DEF Next, MakeDirectory, RemoveDirectory, Rewrite, QueueFills, QueueDrains, Expand, Refresh,
        Search, ClearSearch, Hide, Show, ToggleIgnored, LoadOne, CompleteFilesystem, Tick,
        ReadStatus, CompleteVcs, VcsPanics, OtherResult, vars
<1>7. Bounds'
  <2>1. CASE intents' \in {intents, intents + 1} /\ faults' \in {faults, faults + 1}
    BY <1>2, <2>1
  <2> QED
    BY <2>1
    DEF Next, MakeDirectory, RemoveDirectory, Rewrite, Edits, QueueFills, QueueDrains, Expand,
        Collapse, Refresh, Search, ClearSearch, Hide, Show, ToggleIgnored, LoadOne,
        CompleteFilesystem, FilesystemPanics, Tick, ReadStatus, CompleteVcs, VcsPanics,
        OtherResult, Intent, Fault, vars
<1> QED BY <1>3, <1>4, <1>5, <1>6, <1>7 DEF OtherTypes

LEMMA TypesStep ==
    ASSUME TypeOK, StatusFresh, [Next]_vars PROVE TypeOK'
<1>1. TreeTypes' BY TreeTypesStep
<1>2. ListTypes' BY ListTypesStep
<1>3. StatusTypes' BY StatusTypesStep
<1>4. FoldTypes' BY FoldTypesStep
<1>5. OtherTypes' BY OtherTypesStep
<1> QED BY <1>1, <1>2, <1>3, <1>4, <1>5
  DEF TypeOK, TreeTypes, ListTypes, StatusTypes, FoldTypes, OtherTypes

-----------------------------------------------------------------------------
(* What is on screen and what is on its way: Timely, ListingFresh,         *)
(* StatusFresh, NodesStay and ReachesUnfolded are inductive together.      *)

FilesInv == /\ TypeOK /\ NeverRefused /\ Timely /\ ListingFresh /\ StatusFresh
            /\ NodesStay /\ ReachesUnfolded

(* What start_next_filesystem() comes to: a job with nothing read yet, no  *)
(* job, or the job that runs.                                              *)
LEMMA StartEffect ==
    ASSUME NEW reload \in BOOLEAN, NEW expansions, NEW newer \in BOOLEAN, NEW idle \in BOOLEAN,
           filesystem_reload_running \in BOOLEAN,
           StartNextFilesystem(reload, expansions, newer, idle)
    PROVE  \/ /\ idle /\ filesystem_running' /\ ~invalidated'
              /\ filesystem_reload_running' = reload
              /\ job'.ignored = tree'.ignored
              /\ reload => {Root} \cup expanded' \subseteq job'.todo
              /\ job'.result = [p \in Places |-> None]
           \/ /\ idle /\ ~filesystem_running' /\ ~filesystem_reload_running'
              /\ reload_pending' = reload
           \/ /\ ~idle /\ filesystem_running' /\ job' = job
              /\ filesystem_reload_running' = filesystem_reload_running
              /\ reload_pending' = reload /\ invalidated' = newer
<1> DEFINE directories == expansions \cup IF reload THEN {Root} \cup expanded' ELSE {}
           starts == background_active' /\ idle /\ directories # {} /\ newer /\ ~full
<1>1. CASE starts
  <2>1. /\ idle /\ filesystem_running' /\ ~invalidated'
        /\ filesystem_reload_running' = reload
        /\ job' = [ignored |-> tree'.ignored, todo |-> directories,
                   result |-> [p \in Places |-> None]]
    BY <1>1 DEF StartNextFilesystem
  <2>2. reload => {Root} \cup expanded' \subseteq directories
    OBVIOUS
  <2> HIDE DEF directories
  <2> QED BY <2>1, <2>2
<1>2. CASE ~starts
  BY <1>2 DEF StartNextFilesystem
<1> QED BY <1>1, <1>2

LEMMA JobStep ==
    ASSUME TypeOK, [Next]_vars, filesystem_running'
    PROVE  \/ filesystem_running /\ job' = job
           \/ job'.result = [p \in Places |-> None]
           \/ LoadOne
<1>1. CASE UNCHANGED listing BY <1>1 DEF listing, running
<1>2. CASE LoadOne BY <1>2
<1>3. ASSUME NEW r \in BOOLEAN, NEW e, NEW n \in BOOLEAN, NEW i \in BOOLEAN,
             StartNextFilesystem(r, e, n, i), ~i => filesystem_running
      PROVE  \/ filesystem_running /\ job' = job
             \/ job'.result = [p \in Places |-> None]
  BY <1>3, StartEffect DEF TypeOK
<1>4. /\ reload_pending \in BOOLEAN /\ invalidated \in BOOLEAN /\ filesystem_running \in BOOLEAN
      /\ filesystem_reload_running \in BOOLEAN
  BY DEF TypeOK
<1>5. CASE RetryFilesystem
  BY <1>3, <1>4, <1>5 DEF RetryFilesystem
<1>6. CASE \E c : RequestReload(c)
  BY <1>3, <1>4, <1>6 DEF RequestReload
<1>7. CASE \E d \in Dirs : Expand(d)
  BY <1>3, <1>4, <1>7 DEF Expand
<1>8. CASE \E d \in Dirs : Collapse(d)
  BY <1>8 DEF Collapse, running
<1>9. (reload_pending \/ filesystem_reload_running) \in BOOLEAN OBVIOUS
<1>10. CASE CompleteFilesystem
  BY <1>3, <1>4, <1>9, <1>10 DEF CompleteFilesystem, DropListing, ApplyListing
<1>11. CASE FilesystemPanics
  BY <1>3, <1>4, <1>9, <1>11 DEF FilesystemPanics
<1> QED
  BY <1>1, <1>2, <1>5, <1>6, <1>7, <1>8, <1>10, <1>11
  DEF Next, MakeDirectory, RemoveDirectory, Rewrite, Edits, QueueFills, QueueDrains, Refresh,
      Search, ClearSearch, ToggleIgnored, Hide, Show, Tick, ReadStatus, CompleteVcs, VcsPanics,
      OtherResult, vars

(* Reading one directory of the job.                                       *)
LEMMA LoadOneEffect ==
    ASSUME TypeOK, LoadOne
    PROVE  /\ filesystem_running' /\ job'.ignored = job.ignored
           /\ \E d \in Places :
                 /\ job'.todo = job.todo \ {d}
                 /\ d \in present \cup {Root} =>
                       job'.result[d] # None /\ job'.result[d].at = stamp
                       /\ job'.result[d].ignored = job.ignored
                       /\ job'.result[d].children = {c \in present :
                             Parent(c) = d /\ (job.ignored \/ c \notin Ignored)}
                 /\ d \notin present \cup {Root} => job'.result[d] = None
                 /\ \A p \in Places \ {d} : job'.result[p] = job.result[p]
<1>1. job \in Job /\ filesystem_running' = filesystem_running /\ filesystem_running
  BY DEF LoadOne, TypeOK
<1>2. PICK d \in job.todo :
         job' = [job EXCEPT !.todo = @ \ {d},
                            !.result[d] = IF d \in present \cup {Root}
                                          THEN ListingOf(d, job.ignored) ELSE None]
  BY DEF LoadOne
<1>3. d \in Places BY <1>1 DEF Job
<1>4. /\ ListingOf(d, job.ignored) \in Listing
      /\ ListingOf(d, job.ignored).at = stamp /\ ListingOf(d, job.ignored).ignored = job.ignored
      /\ ListingOf(d, job.ignored).children =
            {c \in present : Parent(c) = d /\ (job.ignored \/ c \notin Ignored)}
  BY <1>1 DEF ListingOf, Listing, Job, TypeOK
<1>5. ListingOf(d, job.ignored) # None BY <1>4, NoneAssumption
<1>6. /\ job'.todo = job.todo \ {d} /\ job'.ignored = job.ignored
      /\ job'.result[d] = IF d \in present \cup {Root} THEN ListingOf(d, job.ignored) ELSE None
      /\ \A p \in Places \ {d} : job'.result[p] = job.result[p]
  BY <1>1, <1>2, <1>3 DEF Job
<1> QED BY <1>1, <1>3, <1>4, <1>5, <1>6

LEMMA StampStep ==
    ASSUME TypeOK, [Next]_vars PROVE stamp' \in Nat /\ stamp <= stamp'
<1>1. stamp \in Nat BY DEF TypeOK
<1>2. stamp' \in {stamp, stamp + 1}
  BY DEF Next, MakeDirectory, RemoveDirectory, Rewrite, Edits, QueueFills, QueueDrains, Expand,
         Collapse, Refresh, Search, ClearSearch, ToggleIgnored, Hide, Show, LoadOne,
         CompleteFilesystem, FilesystemPanics, Tick, ReadStatus, CompleteVcs, VcsPanics,
         OtherResult, vars, disk
<1> QED BY <1>1, <1>2

LEMMA OwedStep ==
    ASSUME TypeOK, [Next]_vars
    PROVE  \/ owed'.at = owed.at /\ owed'.dirs \subseteq owed.dirs
              /\ owed'.dirs \cap (present \ present') = {}
           \/ present' = present /\ stamp' = stamp /\ owed'.at = stamp
              /\ owed'.dirs \subseteq present \cup {Root}
<1>1. owed \in [at : Nat, dirs : SUBSET Places] BY DEF TypeOK
<1>2. CASE owed' = owed /\ present' = present BY <1>2
<1>3. ASSUME NEW dirs, Edits(dirs)
      PROVE  owed'.at = owed.at /\ owed'.dirs \subseteq owed.dirs
             /\ owed'.dirs \cap (present \ present') = {}
  BY <1>1, <1>3 DEF Edits
<1>4. CASE Refresh \/ ToggleIgnored \/ Show
  <2>1. /\ owed' = [at |-> stamp, dirs |-> Shown \cap (present \cup {Root})]
        /\ present' = present /\ stamp' = stamp
    BY <1>4 DEF Refresh, ToggleIgnored, Show, RequestReload, disk
  <2> QED BY <2>1
<1>5. CASE FilesystemPanics
  <2>1. owed' \in {owed, [owed EXCEPT !.dirs = {}]} /\ present' = present
    BY <1>5 DEF FilesystemPanics, ghosts, disk
  <2> QED BY <1>1, <2>1
<1> QED
  BY <1>2, <1>3, <1>4, <1>5
  DEF Next, Search, ClearSearch, MakeDirectory, RemoveDirectory, Rewrite, QueueFills,
      QueueDrains, Expand, Collapse, Hide, LoadOne, CompleteFilesystem, Tick, ReadStatus,
      CompleteVcs, VcsPanics, OtherResult, vars, disk, ghosts

LEMMA TimelyStep ==
    ASSUME TypeOK, Timely, StatusFresh, [Next]_vars PROVE Timely'
<1>1. stamp' \in Nat /\ stamp \in Nat /\ stamp <= stamp' BY StampStep DEF TypeOK
<1>2. owed'.at <= stamp' /\ owed'.dirs \subseteq present' \cup {Root}
  <2>1. owed.at \in Nat /\ owed.at <= stamp /\ owed.dirs \subseteq present \cup {Root}
    BY DEF Timely, TypeOK
  <2> QED BY <1>1, <2>1, OwedStep
<1>3. \A p \in Places : tree.loaded[p] # None => tree.loaded[p].at \in Nat
  BY DEF TypeOK, Tree, Listing
<1>4. /\ tree'.status <= stamp'
      /\ \A p \in Places : tree'.loaded[p] # None => tree'.loaded[p].at <= stamp'
  <2>1. /\ tree.status \in Nat /\ tree.status <= stamp
        /\ \A p \in Places : tree.loaded[p] # None => tree.loaded[p].at <= stamp
    BY DEF Timely, TypeOK, Tree
  <2>2. CASE UNCHANGED tree BY <1>1, <1>3, <2>1, <2>2
  <2>3. CASE Merges
    <3>1. statusJob.read \in Nat /\ statusJob.read <= stamp
      BY <2>3 DEF Merges, StatusFresh
    <3>2. tree'.loaded = tree.loaded /\ tree'.status = statusJob.read
      BY <2>3 DEF Merges, TypeOK, Tree
    <3> QED BY <1>1, <1>3, <2>1, <3>1, <3>2
  <2>4. CASE Applies
    <3>1. /\ tree \in Tree /\ Rooted(tree) /\ tree' = Applied(tree, job.result)
          /\ filesystem_running /\ job \in Job
      BY <2>4 DEF Applies, CompleteFilesystem, ApplyListing, TypeOK
    <3>2. job.result \in Listings BY <3>1 DEF Job, Listings
    <3>3. \A p \in Places : job.result[p] # None =>
             job.result[p].at <= stamp /\ job.result[p].at \in Nat
      BY <3>1, <3>2 DEF Timely, Listings, Listing
    <3>4. /\ tree'.status = tree.status
          /\ \A p \in Places :
                tree'.loaded[p] # None => tree'.loaded[p] \in {job.result[p], tree.loaded[p]}
      BY <3>1, <3>2, AppliedTree
    <3> QED BY <1>1, <1>3, <2>1, <3>3, <3>4
  <2>5. CASE Toggles
    <3>1. tree'.loaded = tree.loaded /\ tree'.status = tree.status
      BY <2>5 DEF Toggles, TypeOK, Tree
    <3> QED BY <1>1, <1>3, <2>1, <3>1
  <2> QED BY <2>2, <2>3, <2>4, <2>5, TreeStep
<1>5. ASSUME filesystem_running', NEW p \in Places, job'.result[p] # None
      PROVE  job'.result[p].at <= stamp'
  <2>1. filesystem_running => job \in Job
                              /\ (job.result[p] # None => job.result[p].at <= stamp)
    BY DEF Timely, TypeOK
  <2>2. filesystem_running /\ job.result[p] # None => job.result[p].at \in Nat
    BY <2>1 DEF Job, Listing
  <2>3. CASE filesystem_running /\ job' = job BY <1>1, <1>5, <2>1, <2>2, <2>3
  <2>4. CASE job'.result = [q \in Places |-> None] BY <1>5, <2>4
  <2>5. CASE LoadOne
    <3>1. filesystem_running BY <2>5 DEF LoadOne
    <3>2. job'.result[p] = job.result[p] \/ job'.result[p].at = stamp
      BY <1>5, <2>5, LoadOneEffect
    <3> QED BY <1>1, <1>5, <2>1, <2>2, <3>1, <3>2
  <2> QED BY <1>5, <2>3, <2>4, <2>5, JobStep
<1> QED BY <1>2, <1>4, <1>5 DEF Timely

(* A listing that is expected changes the tree, or finds none of its       *)
(* directories.                                                            *)
LEMMA ApplyEffect ==
    ASSUME TypeOK, Applies
    PROVE  /\ filesystem_running /\ ~invalidated /\ job.todo = {}
           /\ tree'.status = tree.status /\ tree'.ignored = tree.ignored
           /\ show_ignored' = show_ignored /\ UNCHANGED <<disk, ghosts>>
           /\ \A p \in Places : Known(tree', p) =>
                 tree'.loaded[p] = IF job.result[p] # None THEN job.result[p] ELSE tree.loaded[p]
           /\ \A p \in Places : ~Known(tree', p) => tree'.loaded[p] = None
           /\ filtering' = filtering /\ Strays(expanded')
           /\ \/ /\ \E d \in Places : Known(tree', d) /\ job.result[d] # None
                 /\ \A d \in expanded' :
                       d \in expanded \/ (Known(tree', d) /\ job.result[d] # None)
                 /\ ~filtering' => \A d \in expanded' : Known(tree', d)
              \/ /\ \A d \in Places : ~(Known(tree', d) /\ job.result[d] # None)
                 /\ tree' = tree /\ expanded' = expanded
           /\ RetryVcs(\E d \in Places : Known(tree', d) /\ job.result[d] # None)
           /\ StartNextFilesystem(reload_pending, pending_expansions, FALSE, TRUE)
<1> DEFINE Listed(d) == Known(tree', d) /\ job.result[d] # None
           Unfolded == expanded \cup
              {d \in filesystem_expansions_running \cap desired_expanded : Listed(d)}
<1>1. /\ tree \in Tree /\ Rooted(tree) /\ tree' = Applied(tree, job.result)
      /\ filesystem_running /\ job \in Job /\ ~invalidated /\ job.todo = {}
      /\ show_ignored' = show_ignored /\ UNCHANGED <<disk, ghosts>>
      /\ filesystem_expansions_running \subseteq Places
  BY DEF Applies, CompleteFilesystem, ApplyListing, TypeOK, Places
<1>2. job.result \in Listings BY <1>1 DEF Job, Listings
<1>3. /\ tree'.status = tree.status /\ tree'.ignored = tree.ignored
      /\ \A p \in Places : Known(tree', p) =>
            tree'.loaded[p] = IF job.result[p] # None THEN job.result[p] ELSE tree.loaded[p]
      /\ \A p \in Places : ~Known(tree', p) => tree'.loaded[p] = None
  BY <1>1, <1>2, AppliedTree
<1>4. /\ expanded' = IF \E d \in Places : Listed(d) THEN Rebuilt(Unfolded) ELSE Unfolded
      /\ filtering' = filtering /\ Strays(expanded')
  BY DEF Applies, ApplyListing
<1>5. ASSUME \E d \in Places : Listed(d), NEW d \in expanded'
      PROVE  /\ d \in expanded \/ Listed(d)
             /\ ~filtering' => Known(tree', d)
  <2>1. d \in Unfolded
    BY <1>4, <1>5, RebuiltLess
  <2>2. ~filtering' => Known(tree', d)
    BY <1>4, <1>5 DEF Rebuilt, Pruned
  <2> QED BY <2>1, <2>2
<1>6. ASSUME \A d \in Places : ~Listed(d) PROVE tree' = tree /\ expanded' = expanded
  <2>1. tree' = tree BY <1>1, <1>2, <1>6, NothingApplied
  <2>2. Unfolded = expanded
    <3> HIDE DEF Listed
    <3> QED BY <1>1, <1>6
  <2> QED BY <1>4, <1>6, <2>1, <2>2
<1>7. /\ RetryVcs(\E d \in Places : Listed(d))
      /\ StartNextFilesystem(reload_pending, pending_expansions, FALSE, TRUE)
  BY DEF Applies, ApplyListing
<1>8. \/ /\ \E d \in Places : Known(tree', d) /\ job.result[d] # None
         /\ \A d \in expanded' : d \in expanded \/ (Known(tree', d) /\ job.result[d] # None)
         /\ ~filtering' => \A d \in expanded' : Known(tree', d)
      \/ /\ \A d \in Places : ~(Known(tree', d) /\ job.result[d] # None)
         /\ tree' = tree /\ expanded' = expanded
  BY <1>5, <1>6
<1> HIDE DEF Unfolded
<1> QED BY <1>1, <1>3, <1>4, <1>7, <1>8

LEMMA StatusFreshStep ==
    ASSUME TypeOK, Timely, StatusFresh, [Next]_vars PROVE StatusFresh'
<1>1. stamp' \in Nat /\ stamp \in Nat /\ stamp <= stamp' BY StampStep DEF TypeOK
<1>2. ASSUME NEW r, NEW a, NEW i \in BOOLEAN, NEW c \in BOOLEAN,
             StartNextVcsRefresh(r, a, i, c), ~i => status_running,
             ~i => tree'.status = tree.status /\ (~c => tree' = tree)
      PROVE  StatusFresh'
  <2>1. CASE status_running' /\ statusJob' = [tree |-> tree', outdated |-> FALSE, read |-> None]
    BY <2>1, NoneAssumption DEF StatusFresh
  <2>2. CASE ~status_running' BY <2>2 DEF StatusFresh
  <2>3. CASE ~i /\ statusJob' = [statusJob EXCEPT !.outdated = @ \/ c]
    <3>1. statusJob \in StatusJob /\ status_running BY <1>2, <2>3 DEF TypeOK
    <3>2. /\ statusJob'.tree = statusJob.tree /\ statusJob'.read = statusJob.read
          /\ ~statusJob'.outdated => ~statusJob.outdated /\ ~c
      BY <2>3, <3>1 DEF StatusJob
    <3>3. /\ ~statusJob.outdated => statusJob.tree = tree
          /\ statusJob.read \in Nat => tree.status <= statusJob.read /\ statusJob.read <= stamp
      BY <3>1 DEF StatusFresh
    <3> QED BY <1>1, <1>2, <2>3, <3>2, <3>3 DEF StatusFresh
  <2> QED BY <1>2, <2>1, <2>2, <2>3 DEF StartNextVcsRefresh
<1>3. CASE UNCHANGED <<status_running, statusJob, tree>>
  <2>1. statusJob.read \in Nat /\ status_running => statusJob.read <= stamp'
    BY <1>1 DEF StatusFresh
  <2> QED BY <1>3, <2>1 DEF StatusFresh
<1>4. ASSUME NEW c \in BOOLEAN, RetryVcs(c),
             tree'.status = tree.status, ~c => tree' = tree
      PROVE  StatusFresh'
  BY <1>2, <1>4 DEF RetryVcs, TypeOK
<1>5. ASSUME NEW c \in BOOLEAN, RequestReload(c),
             tree'.status = tree.status, ~c => tree' = tree
      PROVE  StatusFresh'
  BY <1>2, <1>5 DEF RequestReload, TypeOK
<1>6. CASE Refresh \/ Show
  BY <1>5, <1>6 DEF Refresh, Show, shape
<1>7. CASE ToggleIgnored
  <2>1. tree'.status = tree.status BY <1>7 DEF ToggleIgnored, TypeOK, Tree
  <2> QED BY <1>5, <1>7, <2>1 DEF ToggleIgnored
<1>8. CASE CompleteFilesystem
  <2>1. CASE DropListing BY <1>4, <2>1 DEF DropListing, shape
  <2>2. CASE ApplyListing
    <3>1. Applies BY <1>8, <2>2 DEF Applies
    <3>2. (\E d \in Places : Known(tree', d) /\ job.result[d] # None) \in BOOLEAN OBVIOUS
    <3> QED BY <1>4, <3>1, <3>2, ApplyEffect
  <2> QED BY <1>8, <2>1, <2>2 DEF CompleteFilesystem
<1>9. CASE FilesystemPanics \/ OtherResult
  BY <1>4, <1>9 DEF FilesystemPanics, OtherResult, shape
<1>10. CASE Tick
  <2>1. StartNextVcsRefresh(TRUE, FALSE, ~status_running, FALSE) /\ tree' = tree
    BY <1>10 DEF Tick, shape
  <2>2. (~status_running) \in BOOLEAN /\ (~(~status_running) => status_running) OBVIOUS
  <2> QED BY <1>2, <2>1, <2>2
<1>11. CASE ReadStatus
  <2>1. /\ statusJob \in StatusJob /\ status_running' = status_running /\ status_running
        /\ statusJob' \in {[statusJob EXCEPT !.read = stamp], [statusJob EXCEPT !.read = Failed]}
        /\ tree' = tree /\ stamp' = stamp
    BY <1>11 DEF ReadStatus, TypeOK, shape, disk
  <2>2. /\ statusJob'.tree = statusJob.tree /\ statusJob'.outdated = statusJob.outdated
        /\ statusJob'.read \in {stamp, Failed}
    BY <2>1 DEF StatusJob
  <2>3. tree.status <= stamp /\ (~statusJob.outdated => statusJob.tree = tree)
    BY <2>1 DEF Timely, StatusFresh
  <2> QED BY <1>1, <2>1, <2>2, <2>3, NoneAssumption DEF StatusFresh
<1>12. CASE CompleteVcs
  <2>1. StartNextVcsRefresh(status_requested \/ statusJob.outdated,
                            background_active /\ cadence = "adaptive", TRUE, FALSE)
    BY <1>12 DEF CompleteVcs
  <2> QED BY <1>2, <2>1
<1>13. CASE VcsPanics
  BY <1>2, <1>13 DEF VcsPanics
<1> QED
  BY <1>3, <1>6, <1>7, <1>8, <1>9, <1>10, <1>11, <1>12, <1>13
  DEF Next, Search, ClearSearch, MakeDirectory, RemoveDirectory, Rewrite, Edits, QueueFills,
      QueueDrains, Expand, Collapse, Hide, LoadOne, vars, shape, polling

LEMMA IgnoredStep ==
    ASSUME [Next]_vars PROVE show_ignored' = show_ignored \/ ToggleIgnored
BY DEF Next, MakeDirectory, RemoveDirectory, Rewrite, Edits, QueueFills, QueueDrains, Expand,
       Collapse, Refresh, Search, ClearSearch, Hide, Show, LoadOne, CompleteFilesystem,
       DropListing, ApplyListing, FilesystemPanics, Tick, ReadStatus, CompleteVcs, VcsPanics,
       OtherResult, vars, shape

LEMMA ListingFreshStep ==
    ASSUME TypeOK, Timely, ListingFresh, StatusFresh, [Next]_vars PROVE ListingFresh'
<1>1. tree'.ignored = show_ignored'
  <2>1. tree.ignored = show_ignored BY DEF ListingFresh
  <2>2. CASE Toggles BY <2>2 DEF Toggles, TypeOK, Tree
  <2>3. CASE Applies BY <2>1, <2>3, ApplyEffect
  <2>4. CASE Merges /\ CompleteVcs BY <2>1, <2>4 DEF Merges, CompleteVcs, TypeOK, Tree
  <2>5. CASE UNCHANGED tree /\ ToggleIgnored
    BY <2>5 DEF ToggleIgnored, TypeOK, Tree
  <2>6. CASE UNCHANGED tree /\ ~ToggleIgnored
    BY <2>1, <2>6, IgnoredStep
  <2> QED BY <2>2, <2>3, <2>4, <2>5, <2>6, TreeStep
<1>2. stamp \in Nat /\ tree \in Tree /\ owed.at \in Nat /\ owed.at <= stamp
  BY DEF TypeOK, Timely
<1> DEFINE Fresh == /\ job.ignored = show_ignored
                    /\ \A p \in Places : job.result[p] # None =>
                          /\ job.result[p].ignored = show_ignored
                          /\ job.result[p].at >= owed.at
                          /\ tree.loaded[p] # None => job.result[p].at >= tree.loaded[p].at
           Reloads == filesystem_reload_running =>
                         \A p \in {Root} \cup (expanded \cap owed.dirs) :
                            p \in job.todo \/ job.result[p] # None
<1>3. ASSUME filesystem_reload_running' => filesystem_running',
             filesystem_running' /\ ~invalidated' => Fresh' /\ Reloads'
      PROVE  ListingFresh'
  BY <1>1, <1>3 DEF ListingFresh
<1>4. filesystem_running /\ ~invalidated => Fresh /\ Reloads
  BY DEF ListingFresh
<1>5. filesystem_reload_running => filesystem_running
  BY DEF ListingFresh
<1>6. CASE /\ UNCHANGED <<filesystem_reload_running, filesystem_running, invalidated, job, tree,
                          show_ignored>>
           /\ owed'.at = owed.at /\ owed'.dirs \subseteq owed.dirs
           /\ expanded' \subseteq expanded
  <2>1. filesystem_running' /\ ~invalidated' => Fresh' BY <1>4, <1>6
  <2>2. filesystem_running' /\ ~invalidated' => Reloads' BY <1>4, <1>6
  <2> QED BY <1>3, <1>5, <1>6, <2>1, <2>2
<1>7. ASSUME NEW r \in BOOLEAN, NEW e, NEW n \in BOOLEAN, NEW i \in BOOLEAN,
             StartNextFilesystem(r, e, n, i),
             ~i => /\ filesystem_running
                   /\ ~n => /\ ~invalidated
                            /\ show_ignored' = show_ignored /\ owed' = owed
                            /\ tree'.loaded = tree.loaded /\ expanded' \subseteq expanded
      PROVE  ListingFresh'
  <2>1. CASE /\ filesystem_running' /\ ~invalidated'
             /\ filesystem_reload_running' = r
             /\ job'.ignored = tree'.ignored
             /\ r => {Root} \cup expanded' \subseteq job'.todo
             /\ job'.result = [p \in Places |-> None]
    <3>1. Fresh' BY <1>1, <2>1
    <3>2. Reloads' BY <2>1
    <3> QED BY <1>3, <2>1, <3>1, <3>2
  <2>2. CASE ~filesystem_running' /\ ~filesystem_reload_running'
    BY <1>3, <2>2
  <2>3. CASE /\ ~i /\ filesystem_running' /\ job' = job
             /\ filesystem_reload_running' = filesystem_reload_running
             /\ invalidated' = n
    <3>1. n \/ (Fresh' /\ Reloads')
      <4>1. ASSUME ~n PROVE Fresh' BY <1>4, <1>7, <2>3, <4>1
      <4>2. ASSUME ~n PROVE Reloads' BY <1>4, <1>7, <2>3, <4>2
      <4> QED BY <4>1, <4>2
    <3> QED BY <1>3, <2>3, <3>1
  <2>4. filesystem_reload_running \in BOOLEAN BY DEF TypeOK
  <2> HIDE DEF Fresh, Reloads
  <2> QED BY <1>7, <2>1, <2>2, <2>3, <2>4, StartEffect
<1>8. ASSUME RetryFilesystem, show_ignored' = show_ignored, owed' = owed,
             tree'.loaded = tree.loaded, expanded' \subseteq expanded
      PROVE  ListingFresh'
  <2>1. reload_pending \in BOOLEAN /\ invalidated \in BOOLEAN /\ (~filesystem_running) \in BOOLEAN
        /\ filesystem_running \in BOOLEAN
    BY DEF TypeOK
  <2>2. StartNextFilesystem(reload_pending, pending_expansions, invalidated, ~filesystem_running)
    BY <1>8 DEF RetryFilesystem
  <2> QED BY <1>7, <1>8, <2>1, <2>2
<1>9. ASSUME NEW c, RequestReload(c) PROVE ListingFresh'
  <2>1. StartNextFilesystem(TRUE, pending_expansions, TRUE, ~filesystem_running)
        /\ (~filesystem_running) \in BOOLEAN
    BY <1>9 DEF RequestReload
  <2> QED BY <1>7, <2>1
<1>10. ASSUME NEW d \in Dirs, Expand(d) PROVE ListingFresh'
  <2>1. /\ StartNextFilesystem(reload_pending, pending_expansions \cup {d}, TRUE,
                               ~filesystem_running)
        /\ (~filesystem_running) \in BOOLEAN /\ reload_pending \in BOOLEAN
    BY <1>10 DEF Expand, TypeOK
  <2> QED BY <1>7, <2>1
<1>11. ASSUME NEW d \in Dirs, Collapse(d) PROVE ListingFresh'
  <2>1. /\ invalidated' = (invalidated \/ filesystem_running)
        /\ UNCHANGED <<filesystem_running, filesystem_reload_running>>
    BY <1>11 DEF Collapse, running
  <2> QED BY <1>3, <1>5, <2>1
<1>12. CASE LoadOne
  <2>1. /\ UNCHANGED <<filesystem_reload_running, filesystem_running, invalidated, tree,
                       show_ignored, expanded, owed>>
        /\ filesystem_running
    BY <1>12 DEF LoadOne, shape, folds, ghosts
  <2>2. PICK d \in Places :
           /\ job'.todo = job.todo \ {d}
           /\ d \in present \cup {Root} =>
                 job'.result[d] # None /\ job'.result[d].at = stamp
                 /\ job'.result[d].ignored = job.ignored
           /\ d \notin present \cup {Root} => job'.result[d] = None
           /\ \A p \in Places \ {d} : job'.result[p] = job.result[p]
    BY <1>12, LoadOneEffect
  <2>3. job'.ignored = job.ignored BY <1>12, LoadOneEffect
  <2>4. /\ owed.dirs \subseteq present \cup {Root} /\ expanded \subseteq Places
        /\ \A p \in Places : tree.loaded[p] # None => tree.loaded[p].at <= stamp
        /\ \A p \in Places : tree.loaded[p] # None => tree.loaded[p].at \in Nat
    BY DEF Timely, TypeOK, Places, Tree, Listing
  <2>5. ASSUME ~invalidated PROVE Fresh'
    <3>1. job.ignored = show_ignored BY <1>4, <2>1, <2>5
    <3>2. ASSUME NEW p \in Places, job'.result[p] # None
          PROVE  /\ job'.result[p].ignored = show_ignored
                 /\ job'.result[p].at >= owed.at
                 /\ tree.loaded[p] # None => job'.result[p].at >= tree.loaded[p].at
      <4>1. CASE p = d BY <1>2, <2>2, <2>4, <3>1, <3>2, <4>1
      <4>2. CASE p # d BY <1>4, <2>1, <2>2, <2>5, <3>2, <4>2
      <4> QED BY <4>1, <4>2
    <3> QED BY <2>1, <2>3, <3>1, <3>2
  <2>6. ASSUME ~invalidated, filesystem_reload_running,
               NEW p \in {Root} \cup (expanded \cap owed.dirs)
        PROVE  p \in job'.todo \/ job'.result[p] # None
    <3>1. p \in Places /\ p \in present \cup {Root} BY <2>4 DEF Places
    <3>2. p \in job.todo \/ job.result[p] # None BY <1>4, <2>1, <2>6
    <3> QED BY <2>2, <3>1, <3>2
  <2>7. filesystem_running' /\ ~invalidated' => Reloads' BY <2>1, <2>6
  <2> QED BY <1>3, <1>5, <2>1, <2>5, <2>7
<1>13. CASE CompleteFilesystem
  <2>1. CASE DropListing
    <3>1. StartNextFilesystem(reload_pending \/ filesystem_reload_running, StillWanted, TRUE, TRUE)
          /\ (reload_pending \/ filesystem_reload_running) \in BOOLEAN
      BY <2>1 DEF DropListing
    <3> QED BY <1>7, <3>1
  <2>2. CASE ApplyListing
    <3>1. StartNextFilesystem(reload_pending, pending_expansions, FALSE, TRUE)
          /\ reload_pending \in BOOLEAN
      BY <2>2 DEF ApplyListing, TypeOK
    <3> QED BY <1>7, <3>1
  <2> QED BY <1>13, <2>1, <2>2 DEF CompleteFilesystem
<1>14. CASE FilesystemPanics
  <2>1. \/ StartNextFilesystem(reload_pending \/ filesystem_reload_running, StillWanted, TRUE, TRUE)
        \/ StartNextFilesystem(FALSE, {}, TRUE, TRUE)
    BY <1>14 DEF FilesystemPanics
  <2>2. (reload_pending \/ filesystem_reload_running) \in BOOLEAN OBVIOUS
  <2> QED BY <1>7, <2>1, <2>2
<1>15. CASE CompleteVcs
  <2>1. tree'.loaded = tree.loaded
    <3>1. CASE UNCHANGED tree BY <3>1
    <3>2. CASE Merges BY <3>2 DEF Merges, TypeOK, Tree
    <3> QED BY <1>15, <3>1, <3>2, CompleteVcsStep
  <2>2. RetryFilesystem /\ show_ignored' = show_ignored /\ owed' = owed
    BY <1>15 DEF CompleteVcs, ghosts
  <2>3. expanded' \subseteq expanded
    BY <1>15, RebuiltLess DEF CompleteVcs
  <2> QED BY <1>8, <2>1, <2>2, <2>3
<1>16. CASE \E d \in Dirs : MakeDirectory(d) \/ RemoveDirectory(d)
  <2>1. PICK dirs : Edits(dirs) BY <1>16 DEF MakeDirectory, RemoveDirectory
  <2> QED BY <1>6, <2>1 DEF Edits, TypeOK, shape, folds, listing, running
<1>17. CASE Rewrite
  BY <1>6, <1>17 DEF Rewrite, Edits, TypeOK, shape, folds, listing, running
<1>18. CASE \/ QueueFills \/ QueueDrains \/ Search \/ Hide \/ Tick \/ ReadStatus
            \/ UNCHANGED vars
  BY <1>6, <1>18 DEF QueueFills, QueueDrains, Search, Hide, Tick, ReadStatus, vars, shape, folds,
                     listing, running, ghosts
<1>21. CASE ClearSearch
  <2>1. expanded' \subseteq expanded BY <1>21, RebuiltLess DEF ClearSearch, ForgetsQuery
  <2> QED BY <1>6, <1>21, <2>1 DEF ClearSearch, shape, listing, running, ghosts
<1>19. CASE Refresh \/ ToggleIgnored \/ Show
  BY <1>9, <1>19 DEF Refresh, ToggleIgnored, Show
<1>20. CASE VcsPanics \/ OtherResult
  BY <1>8, <1>20 DEF VcsPanics, OtherResult, shape, folds, ghosts
<1> QED
  BY <1>10, <1>11, <1>12, <1>13, <1>14, <1>15, <1>16, <1>17, <1>18, <1>19, <1>20, <1>21 DEF Next

(* No listing that is expected brings back the node of a directory that a  *)
(* reload must reach, or takes it but with an ignored one that is hidden.  *)
LEMMA NodesNotBack ==
    ASSUME TypeOK, ListingFresh, NodesStay, Applies, NEW d \in owed.dirs
    PROVE  /\ Known(tree', d) => Known(tree, d)
           /\ \/ Known(tree', d)
              \/ \E p \in Ignored : ~show_ignored /\ Within(d, p) /\ ~Known(tree', p)
<1>1. /\ tree \in Tree /\ Rooted(tree) /\ tree' = Applied(tree, job.result)
      /\ filesystem_running /\ job \in Job /\ ~invalidated /\ d \in Places
  BY DEF Applies, CompleteFilesystem, ApplyListing, TypeOK
<1>2. job.result \in Listings BY <1>1 DEF Job, Listings
<1>3. \A p \in Places : Known(tree', p) <=> Reached(tree, job.result, p)
  BY <1>1, <1>2, KnownIsReached
<1>4. \A p \in Dirs : job.result[Parent(p)] # None =>
         IF p \in job.result[Parent(p)].children THEN show_ignored \/ p \notin Ignored
         ELSE p \in owed.dirs => p \in Ignored /\ ~show_ignored
  BY <1>1 DEF NodesStay
<1>5. ASSUME NEW p \in Ignored, ~show_ignored, ~Known(tree, p) PROVE ~Known(tree', p)
  <2>1. p \in Dirs /\ p # Root /\ Within(p, p) /\ Parent(p) \in Places
    BY IgnoredAssumption, DirsAssumption, WithinItself DEF Places
  <2> SUFFICES ASSUME Known(tree', p) PROVE FALSE
    OBVIOUS
  <2>2. /\ Entry(tree, job.result, Parent(p)) # None
        /\ p \in Entry(tree, job.result, Parent(p)).children
    BY <1>3, <2>1 DEF Reached, Places
  <2>3. job.result[Parent(p)] = None
    BY <1>4, <1>5, <2>1, <2>2 DEF Entry
  <2> QED BY <1>5, <2>1, <2>2, <2>3 DEF Entry, Known
<1>6. CASE Known(tree, d) /\ ~Known(tree', d)
  <2>1. PICK p \in Dirs : /\ Within(d, p)
                          /\ ~(/\ Entry(tree, job.result, Parent(p)) # None
                               /\ p \in Entry(tree, job.result, Parent(p)).children)
    BY <1>1, <1>3, <1>6 DEF Reached
  <2>2. Known(tree, p) /\ p # Root /\ d \in Dirs
    <3>1. d \in Dirs /\ p # Root
      BY <1>1, <2>1, WithinRoot, DirsAssumption DEF Places
    <3>2. p = d \/ Within(Parent(d), p)
      BY <2>1, <3>1, WithinParent
    <3>3. tree.loaded[Parent(d)] # None
      BY <1>6, <3>1, DirsAssumption DEF Known
    <3>4. Parent(d) \in Dirs \/ ~Within(Parent(d), p)
      BY <2>1, <3>1, ParentMeans, WithinRoot DEF Places
    <3> QED BY <1>1, <1>6, <2>1, <3>1, <3>2, <3>3, <3>4 DEF Rooted
  <2>3. job.result[Parent(p)] # None /\ p \notin job.result[Parent(p)].children
    BY <2>1, <2>2 DEF Entry, Known
  <2>4. p \in owed.dirs
    BY <2>1 DEF NodesStay
  <2>5. p \in Ignored /\ ~show_ignored
    BY <1>4, <2>1, <2>3, <2>4
  <2>6. ~Known(tree', p)
    BY <1>3, <2>1, <2>2, WithinItself DEF Reached, Places
  <2> QED BY <1>6, <2>1, <2>5, <2>6
<1>7. CASE ~Known(tree, d)
  <2>1. PICK p \in Ignored : ~show_ignored /\ Within(d, p) /\ ~Known(tree, p)
    BY <1>7 DEF NodesStay
  <2>2. ~Known(tree', p) BY <1>5, <2>1
  <2>3. ~Known(tree', d)
    <3>1. p \in Dirs BY IgnoredAssumption
    <3>2. ~Reached(tree, job.result, p) BY <1>3, <2>2, <3>1 DEF Places
    <3>3. ~Reached(tree, job.result, d)
      BY <1>1, <2>1, <3>1, <3>2, WithinWithin DEF Reached, Places
    <3> QED BY <1>1, <1>3, <3>3
  <2> QED BY <2>1, <2>2, <2>3
<1> QED BY <1>6, <1>7

LEMMA ReachesUnfoldedStep ==
    ASSUME FilesInv, [Next]_vars PROVE ReachesUnfolded'
<1> USE DEF FilesInv
<1> DEFINE Good == \A p \in owed.dirs \cap ({Root} \cup Pruned(tree, expanded)) :
                      /\ tree.loaded[p] # None
                      /\ tree.loaded[p].at >= owed.at
                      /\ tree.loaded[p].ignored = show_ignored
<1>1. reload_pending \/ filesystem_reload_running \/ Good
  BY DEF ReachesUnfolded
<1>2. ASSUME reload_pending' \/ filesystem_reload_running' \/ Good' PROVE ReachesUnfolded'
  BY <1>2 DEF ReachesUnfolded
<1>3. filesystem_reload_running => filesystem_running
  BY DEF ListingFresh
<1>4. /\ reload_pending \in BOOLEAN /\ invalidated \in BOOLEAN /\ filesystem_running \in BOOLEAN
      /\ filesystem_reload_running \in BOOLEAN /\ (~filesystem_running) \in BOOLEAN
      /\ (reload_pending \/ filesystem_reload_running) \in BOOLEAN
      /\ tree \in Tree /\ owed \in [at : Nat, dirs : SUBSET Places] /\ expanded \subseteq Places
  BY DEF TypeOK, Places
<1>5. ASSUME UNCHANGED <<tree, show_ignored>> \/ (tree'.loaded = tree.loaded /\ UNCHANGED show_ignored),
             owed'.at = owed.at, owed'.dirs \subseteq owed.dirs, expanded' \subseteq expanded, Good
      PROVE  Good'
  <2>1. tree'.loaded = tree.loaded /\ show_ignored' = show_ignored BY <1>5
  <2>2. Pruned(tree', expanded') \subseteq Pruned(tree, expanded)
    BY <1>5, <2>1 DEF Pruned, Known
  <2> QED BY <1>5, <2>1, <2>2
<1>6. ASSUME NEW r \in BOOLEAN, NEW e, NEW n \in BOOLEAN, NEW i \in BOOLEAN,
             StartNextFilesystem(r, e, n, i),
             r \/ (~i /\ filesystem_reload_running) \/ Good'
      PROVE  ReachesUnfolded'
  <2> HIDE DEF Good
  <2> QED BY <1>2, <1>4, <1>6, StartEffect
<1>7. CASE /\ UNCHANGED <<tree, show_ignored, reload_pending, filesystem_reload_running>>
           /\ owed'.at = owed.at /\ owed'.dirs \subseteq owed.dirs
           /\ expanded' \subseteq expanded
  <2>1. Good => Good' BY <1>5, <1>7
  <2> HIDE DEF Good
  <2> QED BY <1>1, <1>2, <1>7, <2>1
<1>8. ASSUME RetryFilesystem, tree'.loaded = tree.loaded, UNCHANGED <<owed, show_ignored>>,
             expanded' \subseteq expanded
      PROVE  ReachesUnfolded'
  <2>1. Good => Good' BY <1>5, <1>8
  <2>2. StartNextFilesystem(reload_pending, pending_expansions, invalidated, ~filesystem_running)
    BY <1>8 DEF RetryFilesystem
  <2> HIDE DEF Good
  <2> QED BY <1>1, <1>3, <1>4, <1>6, <2>1, <2>2
<1>9. ASSUME NEW c, RequestReload(c) PROVE ReachesUnfolded'
  <2>1. StartNextFilesystem(TRUE, pending_expansions, TRUE, ~filesystem_running)
    BY <1>9 DEF RequestReload
  <2> QED BY <1>4, <1>6, <2>1
<1>10. ASSUME NEW d \in Dirs, Expand(d) PROVE ReachesUnfolded'
  <2>1. StartNextFilesystem(reload_pending, pending_expansions \cup {d}, TRUE,
                            ~filesystem_running)
    BY <1>10 DEF Expand
  <2>2. Good => Good' BY <1>5, <1>10 DEF Expand, shape, ghosts
  <2> HIDE DEF Good
  <2> QED BY <1>1, <1>3, <1>4, <1>6, <2>1, <2>2
<1>11. ASSUME NEW d \in Dirs, Collapse(d) PROVE ReachesUnfolded'
  <2>1. expanded' \subseteq expanded BY <1>11, RebuiltLess DEF Collapse
  <2> QED BY <1>7, <1>11, <2>1 DEF Collapse, shape, running
<1>12. CASE CompleteFilesystem /\ DropListing
  <2>1. StartNextFilesystem(reload_pending \/ filesystem_reload_running, StillWanted, TRUE, TRUE)
    BY <1>12 DEF DropListing
  <2>2. Good => Good'
    BY <1>5, <1>12 DEF CompleteFilesystem, DropListing, shape, folds, ghosts
  <2> HIDE DEF Good
  <2> QED BY <1>1, <1>4, <1>6, <2>1, <2>2
<1>13. CASE Applies
  <2> DEFINE Listed(d) == Known(tree', d) /\ job.result[d] # None
  <2>1. /\ filesystem_running /\ ~invalidated /\ job.todo = {}
        /\ show_ignored' = show_ignored /\ owed' = owed
        /\ StartNextFilesystem(reload_pending, pending_expansions, FALSE, TRUE)
    BY <1>13, ApplyEffect DEF ghosts
  <2>2. ~reload_pending BY <2>1 DEF NeverRefused
  <2>3. /\ \A p \in Places : job.result[p] # None => /\ job.result[p].ignored = show_ignored
                                                     /\ job.result[p].at >= owed.at
        /\ filesystem_reload_running =>
              \A p \in {Root} \cup (expanded \cap owed.dirs) : job.result[p] # None
    BY <2>1 DEF ListingFresh
  <2>4. CASE /\ \A d \in Places : ~Listed(d)
             /\ tree' = tree /\ expanded' = expanded
    <3>1. Listed(Root) \/ ~filesystem_reload_running
      BY <2>3 DEF Known
    <3>2. Good BY <1>1, <2>2, <2>4, <3>1 DEF Places
    <3> QED BY <1>2, <1>5, <2>1, <2>4, <3>2
  <2>5. CASE \A d \in expanded' : d \in expanded \/ (Known(tree', d) /\ job.result[d] # None)
    <3>1. ASSUME NEW p \in owed.dirs, p \in {Root} \cup Pruned(tree', expanded')
          PROVE  /\ tree'.loaded[p] # None
                 /\ tree'.loaded[p].at >= owed.at
                 /\ tree'.loaded[p].ignored = show_ignored
      <4>1. p \in Places BY <1>4
      <4>2. Known(tree', p) BY <3>1 DEF Known, Pruned
      <4>3. tree'.loaded[p] = IF job.result[p] # None THEN job.result[p] ELSE tree.loaded[p]
        BY <1>13, <4>1, <4>2, ApplyEffect
      <4>4. CASE job.result[p] # None BY <2>3, <4>1, <4>3, <4>4
      <4>5. CASE job.result[p] = None
        <5>1. p \in {Root} \cup expanded BY <2>5, <3>1, <4>5 DEF Pruned
        <5>2. p \in {Root} \cup Pruned(tree, expanded)
          BY <1>13, <3>1, <4>2, <5>1, NodesNotBack DEF Pruned
        <5>3. ~filesystem_reload_running BY <2>3, <3>1, <4>5, <5>1
        <5>4. Good BY <1>1, <2>2, <5>3
        <5> QED BY <3>1, <4>3, <4>5, <5>2, <5>4
      <4> QED BY <4>4, <4>5
    <3>2. Good' BY <2>1, <3>1
    <3> QED BY <1>2, <3>2
  <2> QED BY <1>13, <2>4, <2>5, ApplyEffect
<1>14. CASE FilesystemPanics
  <2>1. UNCHANGED <<tree, show_ignored, expanded>> BY <1>14 DEF FilesystemPanics, shape, folds
  <2>2. CASE /\ StartNextFilesystem(reload_pending \/ filesystem_reload_running, StillWanted,
                                    TRUE, TRUE)
             /\ owed' = owed
    <3>1. Good => Good' BY <1>5, <2>1, <2>2
    <3> HIDE DEF Good
    <3> QED BY <1>1, <1>4, <1>6, <2>2, <3>1
  <2>3. CASE /\ StartNextFilesystem(FALSE, {}, TRUE, TRUE)
             /\ owed' = IF reload_pending \/ filesystem_reload_running
                        THEN [owed EXCEPT !.dirs = {}] ELSE owed
    <3>1. CASE reload_pending \/ filesystem_reload_running
      <4>1. owed'.dirs = {} BY <1>4, <2>3, <3>1
      <4> QED BY <1>2, <4>1
    <3>2. CASE ~(reload_pending \/ filesystem_reload_running)
      <4>1. Good /\ owed' = owed BY <1>1, <2>3, <3>2
      <4> QED BY <1>2, <1>5, <2>1, <4>1
    <3> QED BY <3>1, <3>2
  <2> QED BY <1>14, <2>2, <2>3 DEF FilesystemPanics, ghosts
<1>15. CASE CompleteVcs
  <2>1. tree'.loaded = tree.loaded
    BY <1>4, <1>15, CompleteVcsStep DEF Merges, Tree
  <2>2. RetryFilesystem /\ show_ignored' = show_ignored /\ owed' = owed
    BY <1>15 DEF CompleteVcs, ghosts
  <2>3. expanded' \subseteq expanded
    BY <1>15, RebuiltLess DEF CompleteVcs
  <2> QED BY <1>8, <2>1, <2>2, <2>3
<1>16. CASE \E d \in Dirs : MakeDirectory(d) \/ RemoveDirectory(d)
  <2>1. PICK dirs : Edits(dirs) BY <1>16 DEF MakeDirectory, RemoveDirectory
  <2> QED BY <1>4, <1>7, <2>1 DEF Edits, shape, folds, listing, running
<1>17. CASE Rewrite
  BY <1>4, <1>7, <1>17 DEF Rewrite, Edits, shape, folds, listing, running
<1>18. CASE \/ QueueFills \/ QueueDrains \/ Search \/ Hide \/ Tick \/ ReadStatus \/ LoadOne
            \/ UNCHANGED vars
  BY <1>7, <1>18 DEF QueueFills, QueueDrains, Search, Hide, Tick, ReadStatus, LoadOne, vars,
                     shape, folds, listing, running, ghosts
<1>22. CASE ClearSearch
  <2>1. expanded' \subseteq expanded BY <1>22, RebuiltLess DEF ClearSearch, ForgetsQuery
  <2> QED BY <1>7, <1>22, <2>1 DEF ClearSearch, shape, listing, running, ghosts
<1>19. CASE Refresh \/ ToggleIgnored \/ Show
  BY <1>9, <1>19 DEF Refresh, ToggleIgnored, Show
<1>20. CASE VcsPanics \/ OtherResult
  BY <1>8, <1>20 DEF VcsPanics, OtherResult, shape, folds, ghosts
<1>21. CASE CompleteFilesystem
  BY <1>12, <1>13, <1>21 DEF CompleteFilesystem, Applies
<1> QED
  BY <1>10, <1>11, <1>14, <1>15, <1>16, <1>17, <1>18, <1>19, <1>20, <1>21, <1>22 DEF Next

LEMMA ShownAbove ==
    ASSUME TypeOK, NEW d \in Shown, NEW p \in Dirs, Within(d, p) PROVE p \in Shown
<1>1. d \in Dirs /\ p # Root
  BY WithinRoot, DirsAssumption DEF Shown, TypeOK
<1>2. CASE p = d BY <1>2
<1>3. CASE p # d
  <2>1. d \in expanded /\ Known(tree, d) /\ \A q \in Dirs \ {d} : Within(d, q) => q \in expanded
    BY <1>1, DirsAssumption DEF Shown, Visible
  <2>2. p \in expanded BY <1>3, <2>1
  <2>3. Known(tree, p)
    <3>1. tree.loaded[Parent(d)] # None BY <1>1, <2>1, DirsAssumption DEF Known
    <3>2. Within(Parent(d), p) BY <1>1, <1>3, WithinParent
    <3>3. Parent(d) \in Dirs BY <1>1, <3>2, ParentMeans, WithinRoot DEF Places
    <3> QED BY <3>1, <3>2, <3>3 DEF TypeOK, Rooted
  <2>4. ASSUME NEW q \in Dirs, Within(p, q) PROVE q \in expanded
    <3>1. Within(d, q) BY <1>1, <2>4, WithinWithin DEF Places
    <3> QED BY <2>1, <3>1
  <2> QED BY <2>2, <2>3, <2>4 DEF Shown, Visible
<1> QED BY <1>2, <1>3

(* What a reload must reach is asked for anew, or only becomes less, with  *)
(* what is removed from the disk.                                          *)
LEMMA OwedCases ==
    ASSUME TypeOK, [Next]_vars
    PROVE  \/ owed' = owed /\ show_ignored' = show_ignored
           \/ owed'.dirs = {} /\ show_ignored' = show_ignored
           \/ owed'.dirs = owed.dirs \ (present \ present') /\ show_ignored' = show_ignored
           \/ /\ owed'.dirs = Shown \cap (present \cup {Root}) /\ present' = present
              /\ tree'.loaded = tree.loaded
              /\ \E c : RequestReload(c)
<1>1. owed \in [at : Nat, dirs : SUBSET Places] /\ tree \in Tree BY DEF TypeOK
<1>2. CASE Refresh \/ ToggleIgnored \/ Show
  <2>1. present' = present BY <1>2 DEF Refresh, ToggleIgnored, Show, disk
  <2>2. tree'.loaded = tree.loaded
    BY <1>1, <1>2 DEF Refresh, ToggleIgnored, Show, shape, Tree
  <2>3. PICK c : RequestReload(c) BY <1>2 DEF Refresh, ToggleIgnored, Show
  <2>4. owed'.dirs = Shown \cap (present \cup {Root}) BY <2>3 DEF RequestReload
  <2> QED BY <2>1, <2>2, <2>3, <2>4
<1>3. CASE ~ToggleIgnored /\ owed' = owed BY <1>3, IgnoredStep
<1>4. ASSUME ~ToggleIgnored, NEW dirs, Edits(dirs)
      PROVE  owed'.dirs = owed.dirs \ (present \ present') /\ show_ignored' = show_ignored
  BY <1>1, <1>4 DEF Edits, shape
<1>5. CASE ~ToggleIgnored /\ FilesystemPanics
  <2>1. owed' \in {owed, [owed EXCEPT !.dirs = {}]} /\ show_ignored' = show_ignored
    BY <1>5 DEF FilesystemPanics, ghosts, shape
  <2> QED BY <1>1, <2>1
<1> QED
  BY <1>2, <1>3, <1>4, <1>5
  DEF Next, MakeDirectory, RemoveDirectory, Rewrite, QueueFills, QueueDrains, Expand, Collapse,
      Search, ClearSearch, Hide, LoadOne, CompleteFilesystem, Tick, ReadStatus, CompleteVcs,
      VcsPanics, OtherResult, vars, ghosts

LEMMA NodesStayStep ==
    ASSUME FilesInv, [Next]_vars PROVE NodesStay'
<1> USE DEF FilesInv
<1> DEFINE Whole == \A d \in present, p \in Dirs : Within(d, p) => p \in present
           Closed == \A d \in owed.dirs, p \in Dirs : Within(d, p) => p \in owed.dirs
           Noded(d) == \/ Known(tree, d)
                       \/ \E p \in Ignored : ~show_ignored /\ Within(d, p) /\ ~Known(tree, p)
           True(d) == job.result[Parent(d)] # None =>
                         IF d \in job.result[Parent(d)].children
                         THEN show_ignored \/ d \notin Ignored
                         ELSE d \in owed.dirs => d \in Ignored /\ ~show_ignored
           Expected == filesystem_running /\ ~invalidated => \A d \in Dirs : True(d)
<1>1. /\ Whole /\ Closed /\ Expected /\ \A d \in owed.dirs : Noded(d)
      /\ present \subseteq Dirs /\ owed.dirs \subseteq present \cup {Root}
      /\ tree \in Tree
  BY DEF NodesStay, TypeOK, Timely
<1>2. Whole'
  <2>1. CASE present' = present BY <1>1, <2>1
  <2>2. ASSUME NEW d \in Dirs, MakeDirectory(d) PROVE Whole'
    <3>1. present' = present \cup {d} /\ Parent(d) \in present \cup {Root}
      BY <2>2 DEF MakeDirectory, Edits
    <3>2. ASSUME NEW p \in Dirs, Within(d, p) PROVE p \in present'
      <4>1. p = d \/ Within(Parent(d), p) BY <3>2, WithinParent
      <4> QED BY <1>1, <3>1, <4>1, WithinRoot
    <3> QED BY <1>1, <3>1, <3>2
  <2>3. ASSUME NEW d \in Dirs, RemoveDirectory(d) PROVE Whole'
    <3>1. present' = {p \in present : ~Within(p, d)} BY <2>3 DEF RemoveDirectory, Edits
    <3>2. ASSUME NEW q \in present', NEW p \in Dirs, Within(q, p) PROVE p \in present'
      <4>1. q \in present /\ ~Within(q, d) /\ q \in Dirs BY <1>1, <3>1
      <4>2. ~Within(p, d) BY <3>2, <4>1, WithinWithin DEF Places
      <4> QED BY <1>1, <3>1, <3>2, <4>1, <4>2
    <3> QED BY <3>2
  <2> QED
    BY <2>1, <2>2, <2>3
    DEF Next, Rewrite, Edits, QueueFills, QueueDrains, Expand, Collapse, Refresh, Search,
        ClearSearch, ToggleIgnored, Hide, Show, LoadOne, CompleteFilesystem, FilesystemPanics,
        Tick, ReadStatus, CompleteVcs, VcsPanics, OtherResult, vars, disk
<1>3. Closed'
  <2>1. CASE owed' = owed \/ owed'.dirs = {} BY <1>1, <2>1
  <2>2. CASE owed'.dirs = owed.dirs \ (present \ present')
    <3>1. ASSUME NEW d \in owed'.dirs, NEW p \in Dirs, Within(d, p) PROVE p \in owed'.dirs
      <4>1. d \in owed.dirs /\ p \in owed.dirs BY <1>1, <2>2, <3>1
      <4>2. d \in present' BY <1>1, <2>2, <3>1, <4>1, WithinRoot
      <4>3. p \in present' BY <1>2, <3>1, <4>2
      <4> QED BY <2>2, <4>1, <4>3
    <3> QED BY <3>1
  <2>3. CASE owed'.dirs = Shown \cap (present \cup {Root})
    <3>1. ASSUME NEW d \in owed'.dirs, NEW p \in Dirs, Within(d, p) PROVE p \in owed'.dirs
      <4>1. p \in Shown BY <2>3, <3>1, ShownAbove
      <4>2. p \in present BY <1>1, <2>3, <3>1, WithinRoot
      <4> QED BY <2>3, <4>1, <4>2
    <3> QED BY <3>1
  <2> QED BY <2>1, <2>2, <2>3, OwedCases
<1>4. ASSUME NEW d \in owed'.dirs PROVE Noded(d)'
  <2>1. CASE owed'.dirs = Shown \cap (present \cup {Root}) /\ tree'.loaded = tree.loaded
    BY <1>4, <2>1 DEF Shown, Visible, Known
  <2>2. CASE owed'.dirs \subseteq owed.dirs /\ show_ignored' = show_ignored
    <3>1. Noded(d) BY <1>1, <1>4, <2>2
    <3>2. CASE tree'.loaded = tree.loaded BY <2>2, <3>1, <3>2 DEF Known
    <3>3. CASE Applies BY <1>4, <2>2, <3>3, NodesNotBack
    <3>4. UNCHANGED tree \/ Merges \/ Toggles => tree'.loaded = tree.loaded
      BY <1>1 DEF Merges, Toggles, Tree
    <3> QED BY <3>2, <3>3, <3>4, TreeStep
  <2> QED BY <2>1, <2>2, OwedCases
<1>5. Expected'
  <2>1. CASE /\ UNCHANGED <<filesystem_running, invalidated, job, show_ignored>>
             /\ owed'.dirs \subseteq owed.dirs
    BY <1>1, <2>1
  <2>2. /\ reload_pending \in BOOLEAN /\ invalidated \in BOOLEAN /\ filesystem_running \in BOOLEAN
        /\ filesystem_reload_running \in BOOLEAN /\ (~filesystem_running) \in BOOLEAN
        /\ (reload_pending \/ filesystem_reload_running) \in BOOLEAN
    BY DEF TypeOK
  <2>3. ASSUME NEW r \in BOOLEAN, NEW e, NEW n \in BOOLEAN, NEW i \in BOOLEAN,
               StartNextFilesystem(r, e, n, i),
               ~i => /\ filesystem_running
                     /\ ~n => ~invalidated /\ owed' = owed /\ show_ignored' = show_ignored
        PROVE  Expected'
    <3>1. CASE job'.result = [p \in Places |-> None]
      BY <3>1, DirsAssumption
    <3>2. CASE ~filesystem_running' BY <3>2
    <3>3. CASE ~i /\ job' = job /\ invalidated' = n BY <1>1, <2>3, <3>3
    <3> HIDE DEF Expected
    <3> QED BY <2>2, <2>3, <3>1, <3>2, <3>3, StartEffect
  <2>4. ASSUME RetryFilesystem, owed' = owed, show_ignored' = show_ignored PROVE Expected'
    <3>1. StartNextFilesystem(reload_pending, pending_expansions, invalidated, ~filesystem_running)
      BY <2>4 DEF RetryFilesystem
    <3> HIDE DEF Expected
    <3> QED BY <2>2, <2>3, <2>4, <3>1
  <2>5. ASSUME NEW c, RequestReload(c) PROVE Expected'
    <3>1. StartNextFilesystem(TRUE, pending_expansions, TRUE, ~filesystem_running)
      BY <2>5 DEF RequestReload
    <3> HIDE DEF Expected
    <3> QED BY <2>2, <2>3, <3>1
  <2>6. ASSUME NEW d \in Dirs, Expand(d) PROVE Expected'
    <3>1. StartNextFilesystem(reload_pending, pending_expansions \cup {d}, TRUE,
                              ~filesystem_running)
      BY <2>6 DEF Expand
    <3> HIDE DEF Expected
    <3> QED BY <2>2, <2>3, <3>1
  <2>7. ASSUME NEW d \in Dirs, Collapse(d) PROVE Expected'
    BY <2>7 DEF Collapse, running
  <2>8. CASE LoadOne
    <3>1. /\ UNCHANGED <<filesystem_running, invalidated, show_ignored, owed>>
          /\ filesystem_running
      BY <2>8 DEF LoadOne, shape, ghosts
    <3>2. ASSUME ~invalidated, NEW d \in Dirs PROVE True(d)'
      <4>1. PICK q \in Places :
               /\ q \in present \cup {Root} =>
                     job'.result[q].children =
                        {c \in present : Parent(c) = q /\ (job.ignored \/ c \notin Ignored)}
               /\ q \notin present \cup {Root} => job'.result[q] = None
               /\ \A p \in Places \ {q} : job'.result[p] = job.result[p]
        BY <2>8, LoadOneEffect
      <4>2. job.ignored = show_ignored /\ Parent(d) \in Places /\ d # Root
        BY <3>1, <3>2, DirsAssumption DEF ListingFresh
      <4>3. CASE q = Parent(d) BY <1>1, <3>1, <4>1, <4>2, <4>3
      <4>4. CASE q # Parent(d) BY <1>1, <3>1, <3>2, <4>1, <4>2, <4>4
      <4> QED BY <4>3, <4>4
    <3> QED BY <3>1, <3>2
  <2>9. CASE CompleteFilesystem
    <3> HIDE DEF Expected
    <3> QED BY <2>2, <2>3, <2>9 DEF CompleteFilesystem, DropListing, ApplyListing
  <2>10. CASE FilesystemPanics
    <3>1. \/ StartNextFilesystem(reload_pending \/ filesystem_reload_running, StillWanted, TRUE,
                                 TRUE)
          \/ StartNextFilesystem(FALSE, {}, TRUE, TRUE)
      BY <2>10 DEF FilesystemPanics
    <3> HIDE DEF Expected
    <3> QED BY <2>2, <2>3, <3>1
  <2>11. CASE CompleteVcs \/ VcsPanics \/ OtherResult
    <3>1. RetryFilesystem /\ owed' = owed /\ show_ignored' = show_ignored
      BY <2>11 DEF CompleteVcs, VcsPanics, OtherResult, shape, ghosts
    <3> HIDE DEF Expected
    <3> QED BY <2>4, <3>1
  <2>12. CASE Refresh \/ ToggleIgnored \/ Show
    <3> HIDE DEF Expected
    <3> QED BY <2>5, <2>12 DEF Refresh, ToggleIgnored, Show
  <2>13. ASSUME NEW dirs, Edits(dirs) PROVE Expected'
    <3>1. /\ UNCHANGED <<filesystem_running, invalidated, job, show_ignored>>
          /\ owed'.dirs \subseteq owed.dirs
      BY <2>13 DEF Edits, shape, listing, running, TypeOK
    <3> QED BY <2>1, <3>1
  <2>14. CASE \/ QueueFills \/ QueueDrains \/ Search \/ ClearSearch \/ Hide \/ Tick \/ ReadStatus
              \/ UNCHANGED vars
    <3>1. UNCHANGED <<filesystem_running, invalidated, job, show_ignored, owed>>
      BY <2>14 DEF QueueFills, QueueDrains, Search, ClearSearch, Hide, Tick, ReadStatus, vars,
                   shape, listing, running, ghosts
    <3> QED BY <2>1, <3>1
  <2> HIDE DEF Expected
  <2> QED
    BY <2>6, <2>7, <2>8, <2>9, <2>10, <2>11, <2>12, <2>13, <2>14
    DEF Next, MakeDirectory, RemoveDirectory, Rewrite
<1> QED BY <1>2, <1>3, <1>4, <1>5 DEF NodesStay

LEMMA FilesInvInit == Init => FilesInv
<1> SUFFICES ASSUME Init PROVE FilesInv OBVIOUS
<1>1. /\ present \subseteq Dirs /\ stamp = 0
      /\ show_ignored \in BOOLEAN /\ cadence \in {"adaptive", "manual"}
  BY ConfigurationsAssumption DEF Init
<1>2. ListingOf(Root, show_ignored) \in Listing /\ ListingOf(Root, show_ignored).at = 0
  BY <1>1 DEF ListingOf, Listing
<1>3. ListingOf(Root, show_ignored) # None BY <1>2, NoneAssumption
<1>4. tree = [loaded |-> [p \in Places |-> IF p = Root THEN ListingOf(Root, show_ignored)
                                           ELSE None],
              ignored |-> show_ignored, status |-> 0]
  BY DEF Init
<1>5. tree \in Tree BY <1>1, <1>2, <1>4 DEF Tree
<1>6. Rooted(tree)
  BY <1>3, <1>4, DirsAssumption DEF Rooted, Places
<1>7. TypeOK
  <2>1. TreeTypes BY <1>5, <1>6 DEF TreeTypes
  <2>2. ListTypes /\ StatusTypes BY DEF Init, ListTypes, StatusTypes
  <2>3. FoldTypes BY DEF Init, FoldTypes
  <2>4. background_active = TRUE /\ filesystem_panic_retried = FALSE /\ full = FALSE
    BY DEF Init
  <2>5. owed = [at |-> 0, dirs |-> {}] /\ abandoned = {} /\ intents = 0 /\ faults = 0
        /\ view = "conversations"
    BY DEF Init
  <2>6. OtherTypes BY <1>1, <2>4, <2>5 DEF OtherTypes
  <2> QED BY <2>1, <2>2, <2>3, <2>6, TypesTogether
<1>8. Timely
  BY <1>1, <1>2, <1>4 DEF Init, Timely
<1>9. NeverRefused /\ ListingFresh /\ StatusFresh /\ NodesStay /\ ReachesUnfolded
  BY <1>4 DEF Init, NeverRefused, ListingFresh, StatusFresh, NodesStay, ReachesUnfolded
<1> QED BY <1>7, <1>8, <1>9 DEF FilesInv

LEMMA FilesInvStep == FilesInv /\ [Next]_vars => FilesInv'
<1> SUFFICES ASSUME FilesInv, [Next]_vars PROVE FilesInv' OBVIOUS
<1>1. TypeOK' BY TypesStep DEF FilesInv
<1>2. NeverRefused' BY NeverRefusedStep DEF FilesInv
<1>3. Timely' BY TimelyStep DEF FilesInv
<1>4. ListingFresh' BY ListingFreshStep DEF FilesInv
<1>5. StatusFresh' BY StatusFreshStep DEF FilesInv
<1>6. NodesStay' BY NodesStayStep
<1>7. ReachesUnfolded' BY ReachesUnfoldedStep
<1> QED BY <1>1, <1>2, <1>3, <1>4, <1>5, <1>6, <1>7 DEF FilesInv

(* The state of the Files view stays within its types, and the tree stays  *)
(* a tree: all above a listed directory is there (apply_directory()).      *)
THEOREM FilesTypes == Spec => []TypeOK
<1>1. FilesInv => TypeOK BY DEF FilesInv
<1> QED BY <1>1, FilesInvInit, FilesInvStep, PTL DEF Spec

(* A reload reaches every directory that showed its contents when it was   *)
(* asked for, and still does: unless it is pending or running, what is on  *)
(* screen is no older than the request and follows the choice of ignored   *)
(* files, whatever the user, the disk, panics and the queue did meanwhile  *)
(* (request_reload(), complete_filesystem(), fail_background()).           *)
THEOREM ReloadReached == Spec => []ReloadReaches
<1>1. FilesInv => ReloadReaches
  BY DEF FilesInv, ReachesUnfolded, ReloadReaches, Shown, Visible, Pruned
<1> QED BY <1>1, FilesInvInit, FilesInvStep, PTL DEF Spec

(* What is on screen never goes back in time, and a new listing follows    *)
(* the choice of ignored files: the generations make a late result of a    *)
(* listing or of a status harmless (complete_filesystem(),                 *)
(* complete_prepared_refresh()).                                           *)
THEOREM TreeNeverGoesBack == Spec => TreeAdvances
<1> DEFINE Advances ==
      /\ tree'.status >= tree.status
      /\ tree'.ignored = show_ignored'
      /\ \A p \in Places :
           tree'.loaded[p] # tree.loaded[p] /\ tree'.loaded[p] # None =>
               /\ tree'.loaded[p].ignored = show_ignored
               /\ tree.loaded[p] # None => tree'.loaded[p].at >= tree.loaded[p].at
<1>1. ASSUME FilesInv, [Next]_vars PROVE Advances
  <2>1. tree'.ignored = show_ignored'
    BY <1>1, FilesInvStep DEF FilesInv, ListingFresh
  <2>2. tree \in Tree /\ tree.status \in Nat /\ TypeOK /\ StatusFresh /\ ListingFresh
    BY <1>1 DEF FilesInv, TypeOK, Tree
  <2>3. CASE UNCHANGED tree BY <2>1, <2>2, <2>3
  <2>4. CASE Merges
    <3>1. tree.status <= statusJob.read BY <2>2, <2>4 DEF Merges, StatusFresh
    <3>2. tree'.loaded = tree.loaded /\ tree'.status = statusJob.read
      BY <2>2, <2>4 DEF Merges, Tree
    <3>3. statusJob.read \in Nat BY <2>4 DEF Merges
    <3> QED BY <2>1, <2>2, <3>1, <3>2, <3>3
  <2>5. CASE Toggles
    <3>1. tree'.loaded = tree.loaded /\ tree'.status = tree.status
      BY <2>2, <2>5 DEF Toggles, Tree
    <3> QED BY <2>1, <2>2, <3>1
  <2>6. CASE Applies
    <3>1. filesystem_running /\ ~invalidated /\ tree'.status = tree.status
      BY <2>2, <2>6, ApplyEffect
    <3>2. ASSUME NEW p \in Places, tree'.loaded[p] # tree.loaded[p], tree'.loaded[p] # None
          PROVE  tree'.loaded[p] = job.result[p] /\ job.result[p] # None
      BY <2>2, <2>6, <3>2, ApplyEffect
    <3>3. \A p \in Places : job.result[p] # None =>
             /\ job.result[p].ignored = show_ignored
             /\ tree.loaded[p] # None => job.result[p].at >= tree.loaded[p].at
      BY <2>2, <3>1 DEF ListingFresh
    <3> QED BY <2>1, <2>2, <3>1, <3>2, <3>3
  <2> QED BY <1>1, <2>2, <2>3, <2>4, <2>5, <2>6, TreeStep
<1>2. ASSUME FilesInv, [Next]_vars PROVE [Advances]_vars
  BY <1>1, <1>2
<1> QED BY <1>2, FilesInvInit, FilesInvStep, PTL DEF Spec, TreeAdvances

(* A directory that is unfolded has a node, and has been listed since it   *)
(* has that one: whatever is removed and made again between the listings,  *)
(* no row is unfolded over an empty space (apply_directory(),              *)
(* rebuild_visible_rows(), complete_filesystem()).  A search suspends      *)
(* that: one that loses its node meanwhile stays unfolded, without a node  *)
(* until the search is cleared, and empty if it has got another one.       *)
THEOREM UnfoldedIsListed == Spec => []UnfoldedListed
<1>1. ASSUME FilesInv, UnfoldedListed, [Next]_vars PROVE UnfoldedListed'
  <2>1. TypeOK /\ StatusFresh /\ expanded \subseteq Places /\ tree \in Tree
        /\ filtering \in BOOLEAN
    BY <1>1 DEF FilesInv, TypeOK, Places
  <2> DEFINE Same == UNCHANGED <<expanded, strayed>> /\ (filtering' = filtering \/ filtering')
             Folds == /\ expanded' \subseteq expanded /\ Strays(expanded')
                      /\ ~filtering' => ~filtering \/ expanded' = Rebuilt(expanded)
  <2>2. CASE tree'.loaded = tree.loaded /\ Same
    BY <1>1, <2>2 DEF UnfoldedListed, Known
  <2>3. CASE tree'.loaded = tree.loaded /\ Folds
    <3>1. ASSUME NEW d \in expanded' \ strayed' PROVE Known(tree', d) /\ tree'.loaded[d] # None
      BY <1>1, <2>3, <3>1 DEF UnfoldedListed, Known, Strays
    <3>2. ASSUME ~filtering', NEW d \in expanded' PROVE Known(tree', d)
      BY <1>1, <2>3, <3>2 DEF UnfoldedListed, Rebuilt, Pruned, Known
    <3> QED BY <3>1, <3>2 DEF UnfoldedListed
  <2>4. CASE Applies
    <3>1. CASE /\ \A d \in expanded' : d \in expanded \/ (Known(tree', d) /\ job.result[d] # None)
               /\ ~filtering' => \A d \in expanded' : Known(tree', d)
      <4>1. ASSUME NEW d \in expanded' \ strayed'
            PROVE  Known(tree', d) /\ tree'.loaded[d] # None
        <5>1. d \in Dirs /\ d \in Places
          BY <1>1, <2>1, FilesInvStep DEF FilesInv, TypeOK, Places
        <5>2. d \notin strayed /\ Known(tree', d)
          BY <2>1, <2>4, <4>1, <5>1, ApplyEffect DEF Strays
        <5>3. tree'.loaded[d] = IF job.result[d] # None THEN job.result[d] ELSE tree.loaded[d]
          BY <2>1, <2>4, <5>1, <5>2, ApplyEffect
        <5> QED BY <1>1, <3>1, <5>2, <5>3 DEF UnfoldedListed
      <4> QED BY <3>1, <4>1 DEF UnfoldedListed
    <3>2. CASE tree' = tree /\ expanded' = expanded
      <4>1. Folds BY <2>1, <2>4, <3>2, ApplyEffect
      <4> QED BY <2>3, <3>2, <4>1
    <3> QED BY <2>1, <2>4, <3>1, <3>2, ApplyEffect
  <2>5. CASE UNCHANGED tree \/ (Merges /\ CompleteVcs) \/ Toggles
    <3>1. tree'.loaded = tree.loaded BY <2>1, <2>5 DEF Merges, Toggles, Tree
    <3>2. CASE CompleteVcs \/ ForgetsQuery \/ \E d \in Dirs : Collapse(d)
      <4>1. Folds BY <2>1, <3>2, RebuiltLess DEF CompleteVcs, ForgetsQuery, Collapse
      <4> QED BY <2>3, <3>1, <4>1
    <3>3. CASE Same BY <2>2, <3>1, <3>3
    <3>4. CASE CompleteFilesystem
      BY <2>4, <3>3, <3>4 DEF CompleteFilesystem, DropListing, Applies, folds
    <3> HIDE DEF Folds
    <3> QED
      BY <1>1, <3>2, <3>3, <3>4
      DEF Next, MakeDirectory, RemoveDirectory, Rewrite, Edits, QueueFills, QueueDrains, Expand,
          Refresh, Search, ClearSearch, ToggleIgnored, Hide, Show, LoadOne, FilesystemPanics,
          Tick, ReadStatus, VcsPanics, OtherResult, vars, folds
  <2> QED BY <1>1, <2>1, <2>4, <2>5, TreeStep
<1>2. Init => UnfoldedListed BY DEF Init, UnfoldedListed
<1> QED BY <1>1, <1>2, FilesInvInit, FilesInvStep, PTL DEF Spec
=============================================================================
