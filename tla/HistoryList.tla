---------------------------- MODULE HistoryList ----------------------------
(***************************************************************************)
(* The list of conversations (ConversationsViewState of src/src/model.rs): *)
(* the sessions on disk, merged with those that live in Herdr              *)
(* (src/src/conversations/active.rs), in one group per provider that may   *)
(* be collapsed, with one row selected and a window that scrolls.  Results *)
(* of the worker replace the list while the user moves in it, and the      *)
(* application draws after each step that says it changed something        *)
(* (src/src/app.rs).                                                       *)
(*                                                                         *)
(* A session is known by the id its transcript holds, or by the path of    *)
(* the transcript when Herdr reports a path whose name has no id in it.    *)
(* The filter of the list is always empty: no intent sets it.  Rows are    *)
(* sorted with the live ones first, then by a fixed age.                   *)
(***************************************************************************)
EXTENDS Naturals, FiniteSetsExt, SequencesExt

CONSTANTS Providers,      \* the tools, a sequence in alphabetical order
          Sessions,       \* the sessions of the project, the most recent first
          Discovered,     \* the sets of them that a page may have found
          Tool,           \* the tool of each
          Path,           \* the file its transcript is in
          Documented,     \* the sessions whose transcript's name has their id in it
          Reported,       \* what Herdr may report: sets of [session, form], a pane each
          Heights,        \* of the content area
          None,
          MaxChanges

SessionsAssumption ==
    /\ Sessions \subseteq Nat /\ IsFiniteSet(Sessions)
    /\ Documented \subseteq Sessions /\ Discovered \subseteq SUBSET Sessions
    /\ Tool \in [Sessions -> ToSet(Providers)]
    /\ Providers \in Seq(ToSet(Providers)) /\ None \notin ToSet(Providers)
    /\ None \notin [session : Sessions, by : {"id", "path"}]
ReportedAssumption == Reported \subseteq SUBSET [session : Sessions, form : {"native", "path"}]
BoundAssumption == Heights \subseteq Nat /\ MaxChanges \in Nat

VARIABLES filesystem, live,      \* the last snapshots, None until there is one
          aligned,               \* the sessions whose file had the same length and time in both
          fingerprint,           \* of the live snapshot the sensor has seen last
          poll,                  \* the newest poll: "none", "loud" or "quiet"
          items,                 \* the conversations of the list
          collapsed_providers, selected_provider, selection, scroll,
          loading,               \* "loading", "ready" or "error"
          live_loading, notices, \* the errors that show: "live", "launch"
          active, height,        \* the view is shown; of its content area
          shown,                 \* auxiliary: what the last drawing has put on the screen
          changes

snapshots == <<filesystem, live, aligned, fingerprint>>
rowsVars == <<items, collapsed_providers, selected_provider, selection>>
messages == <<loading, live_loading, notices>>
place == <<active, height>>
vars == <<snapshots, poll, rowsVars, scroll, messages, place, shown, changes>>

-----------------------------------------------------------------------------
(* A set in a row, each element behind those that come before it.          *)
InOrder(S, before) ==
    [i \in 1..Cardinality(S) |-> CHOOSE x \in S : Cardinality({y \in S : <<y, x>> \in before}) = i - 1]

-----------------------------------------------------------------------------
(* Merging what lives in Herdr into what is on disk.                       *)

ById(s) == [session |-> s, by |-> "id"]
ByPath(s) == [session |-> s, by |-> "path"]

(* normalize_live_session().                                               *)
Stable(r) == IF r.form = "native" \/ r.session \in Documented THEN ById(r.session)
             ELSE ByPath(r.session)
Runtime(r) == [source |-> "herdr", tool |-> Tool[r.session],
               path |-> IF r.form = "path" THEN Path[r.session] ELSE None]
Transcript(s) == [source |-> "disk", tool |-> Tool[s], path |-> Path[s]]

(* The three indexes of FilesystemConversationSnapshot, the transcripts    *)
(* with those only that one conversation has.                              *)
ByNativeId(disk, r) == IF r.form = "native" THEN {r.session} \cap disk ELSE {}
ByTranscript(disk, same, r) ==
    {s \in disk \cap same : /\ r.form = "path"
                            /\ {t \in disk \cap same : Path[t] = Path[r.session]} = {s}}
ByDocument(disk, r) == IF r.form = "path" THEN {r.session} \cap disk \cap Documented ELSE {}

MatchOf(disk, same, r) ==
    IF ByNativeId(disk, r) # {} THEN ByNativeId(disk, r)
    ELSE IF ByTranscript(disk, same, r) # {} THEN ByTranscript(disk, same, r)
    ELSE ByDocument(disk, r)

(* enrich() of a conversation on disk, and live_only_conversation().       *)
DiskRow(s, reports) ==
    [reference |-> ById(s), tool |-> Tool[s], live |-> reports # {}, on_disk |-> TRUE,
     provenance |-> {Transcript(s)} \cup {Runtime(r) : r \in reports}]
LiveRow(reference, reports) ==
    [reference |-> reference, tool |-> Tool[reference.session], live |-> TRUE, on_disk |-> FALSE,
     provenance |-> {Runtime(r) : r \in reports}]

(* sort_recent_first().                                                    *)
Before(x, y) == \/ x.live /\ ~y.live
                \/ x.live = y.live /\ x.reference.session < y.reference.session
                \/ /\ x.live = y.live /\ x.reference.session = y.reference.session
                   /\ x.reference.by = "id" /\ y.reference.by = "path"
RecentFirst(rows) == InOrder(rows, {pair \in rows \X rows : Before(pair[1], pair[2])})

(* Mutant: the live sessions without a conversation are told apart by tool.*)
MutMerged(disk, reports, same) ==
    LET unmatched == {r \in reports : MatchOf(disk, same, r) = {}}
        rows == {DiskRow(s, {r \in reports : MatchOf(disk, same, r) = {s}}) : s \in disk}
                \cup {LiveRow(Stable(CHOOSE r \in unmatched : Tool[r.session] = t), unmatched)
                        : t \in {Tool[r.session] : r \in unmatched}}
    IN RecentFirst(rows)

(* merge_prepared_live_sessions().                                         *)
Merged(disk, reports, same) ==
    LET unmatched == {r \in reports : MatchOf(disk, same, r) = {}}
        rows == {DiskRow(s, {r \in reports : MatchOf(disk, same, r) = {s}}) : s \in disk}
                \cup {LiveRow(ref, {r \in unmatched : Stable(r) = ref}) : ref \in {Stable(r) : r \in unmatched}}
    IN RecentFirst(rows)

(* merged_conversations() of the controller.                               *)
MergedConversations(disk, reports, same) ==
    IF disk = None THEN <<>> ELSE Merged(disk, IF reports = None THEN {} ELSE reports, same)

-----------------------------------------------------------------------------
(* The rows of the list, and the window.                                   *)

Header(p) == [provider |-> p, reference |-> None]
OfProvider(list, p) ==
    LET at == {i \in DOMAIN list : list[i].tool = p}
        order == InOrder(at, {pair \in at \X at : pair[1] < pair[2]})
    IN [j \in DOMAIN order |-> list[order[j]]]
Group(list, collapsed, p) ==
    LET of == OfProvider(list, p)
    IN IF of = <<>> THEN <<>>
       ELSE <<Header(p)>> \o IF p \in collapsed THEN <<>>
                             ELSE [j \in DOMAIN of |-> [provider |-> p, reference |-> of[j].reference]]
Lines(list, collapsed) ==
    LET upTo[i \in 0..Len(Providers)] ==
            IF i = 0 THEN <<>> ELSE upTo[i - 1] \o Group(list, collapsed, Providers[i])
    IN upTo[Len(Providers)]

(* selected_row(), counted from 1; none when the set is empty.             *)
SelectedRow(lines, provider, reference) ==
    {i \in DOMAIN lines : lines[i] = [provider |-> provider, reference |-> reference]}

Less(m, n) == IF m < n THEN 0 ELSE m - n
Least(m, n) == IF m < n THEN m ELSE n

(* Mutant: the window is not pulled back when rows go.                     *)
MutEnsureVisible(top, lines, provider, reference, room) ==
    IF SelectedRow(lines, provider, reference) = {} THEN 0
    ELSE LET row == (CHOOSE i \in SelectedRow(lines, provider, reference) : TRUE) - 1
         IN IF row < top THEN row
            ELSE IF room # 0 /\ row >= top + room THEN Less(row + 1, room) ELSE top

(* ensure_selected_row_visible().                                          *)
EnsureVisible(top, lines, provider, reference, room) ==
    IF SelectedRow(lines, provider, reference) = {} THEN 0
    ELSE LET row == (CHOOSE i \in SelectedRow(lines, provider, reference) : TRUE) - 1
             moved == IF row < top THEN row
                      ELSE IF room # 0 /\ row >= top + room THEN Less(row + 1, room) ELSE top
         IN Least(moved, Less(Len(lines), room))

Warning(errors, polling) == IF errors # {} \/ polling THEN 1 ELSE 0
WarningHeight == Least(Warning(notices, live_loading), height)
Room == height - WarningHeight
CurrentLines == Lines(items, collapsed_providers)

(* The application draws, with render_conversations_state(): the window    *)
(* is brought to the selected row first.                                   *)
Blank == [warning |-> 0, rows |-> <<>>]
Draw(top) ==
    IF active' /\ loading' = "ready"
    THEN LET warning == Least(Warning(notices', live_loading'), height')
             room == height' - warning
             lines == Lines(items', collapsed_providers')
         IN /\ scroll' = EnsureVisible(top, lines, selected_provider', selection', room)
            /\ shown' = [warning |-> warning, rows |-> SubSeq(lines, scroll' + 1, Least(scroll' + room, Len(lines)))]
    ELSE scroll' = top /\ shown' = Blank
Undrawn(top) == scroll' = top /\ UNCHANGED shown

-----------------------------------------------------------------------------
(* replace_visible_items().                                                *)

References(list) == {item.reference : item \in ToSet(list)}
InFiles(item) == {p \in item.provenance : p.path # None}

(* Mutant: any evidence in common counts, one without a path too.          *)
MutCandidates(new) ==
    {item \in ToSet(new) : \E old \in ToSet(items) : /\ old.reference = selection
                                                     /\ old.provenance \cap item.provenance # {}}

(* The rows of the new list that share a transcript with the selected one  *)
(* of the old.                                                             *)
Candidates(new) ==
    {item \in ToSet(new) : \E old \in ToSet(items) : /\ old.reference = selection
                                                     /\ InFiles(old) \cap item.provenance # {}}

Followed(new) ==
    IF selection = None \/ selection \in References(new) THEN selection
    ELSE IF Cardinality(Candidates(new)) = 1
    THEN (CHOOSE item \in Candidates(new) : TRUE).reference
    ELSE None

ReplaceItems(new) ==
    /\ items' = new
    /\ selection' = Followed(new)
    /\ selected_provider' =
          LET tools == {item.tool : item \in ToSet(new)}
              selected == {item \in ToSet(new) : item.reference = Followed(new)}
          IN IF selected # {} THEN (CHOOSE item \in selected : TRUE).tool
             ELSE IF selected_provider \in tools THEN selected_provider
             ELSE IF tools = {} THEN None
             ELSE Providers[Min({i \in DOMAIN Providers : Providers[i] \in tools})]
    /\ UNCHANGED collapsed_providers

-----------------------------------------------------------------------------
Init ==
    /\ filesystem = None /\ live = None /\ aligned = {} /\ fingerprint = None
    /\ poll = "loud"
    /\ items = <<>> /\ collapsed_providers = {} /\ selected_provider = None /\ selection = None
    /\ scroll = 0
    /\ loading = "loading" /\ live_loading = TRUE /\ notices = {}
    /\ active = TRUE
    /\ height \in Heights
    /\ shown = Blank
    /\ changes = 0

(* The sessions of both snapshots, of which either may have seen the file  *)
(* at another time than the other.                                         *)
InBoth(disk, reports) ==
    IF disk = None \/ reports = None THEN {}
    ELSE {s \in disk : [session |-> s, form |-> "path"] \in reports}

(* A change of what the jobs find counts against the bound.                *)
Spend(new) == changes' = IF new THEN changes + 1 ELSE changes
Bounded == changes' <= MaxChanges

(* A page of conversations, or the last word of one that failed.           *)
PageReady(disk, same) ==
    /\ Spend(disk # filesystem) /\ Bounded
    /\ filesystem' = disk
    /\ aligned' = IF disk = filesystem THEN aligned ELSE same
    /\ loading' = "ready"
    /\ ReplaceItems(MergedConversations(disk, live, aligned'))
    /\ UNCHANGED <<live, fingerprint, poll, live_loading, notices, place>>
    /\ Draw(scroll)

PageFails ==
    /\ Spend(TRUE) /\ Bounded
    /\ loading' = "error"
    /\ UNCHANGED <<snapshots, poll, rowsVars, live_loading, notices, place>>
    /\ Draw(scroll)

(* The user asks for both again; the list gives way to a message.          *)
Refresh ==
    /\ active
    /\ loading' = "loading" /\ live_loading' = TRUE
    /\ poll' = "loud"
    /\ UNCHANGED <<snapshots, rowsVars, notices, place, changes>>
    /\ Draw(scroll)

(* tick_live_sensor(): a quiet poll takes the place of any other.          *)
Tick ==
    /\ active
    /\ poll' = "quiet"
    /\ UNCHANGED <<snapshots, rowsVars, messages, place, changes>>
    /\ Undrawn(scroll)

(* Results of the newest poll: apply_result(), apply_sensor_snapshot().    *)
Snapshot(reports, same) ==
    /\ Spend(reports # live) /\ Bounded
    /\ live' = reports /\ fingerprint' = reports
    /\ aligned' = IF reports = live THEN aligned ELSE same
    /\ poll' = "none"
    /\ live_loading' = FALSE /\ notices' = notices \ {"live"}
    /\ ReplaceItems(MergedConversations(filesystem, reports, aligned'))
    /\ UNCHANGED <<filesystem, loading, place>>
    /\ Draw(scroll)

LoudReady(reports, same) == poll = "loud" /\ Snapshot(reports, same)
QuietChanged(reports, same) == poll = "quiet" /\ reports # fingerprint /\ Snapshot(reports, same)
QuietSame ==
    /\ poll = "quiet" /\ fingerprint # None
    /\ poll' = "none"
    /\ live_loading' = FALSE
    /\ UNCHANGED <<snapshots, rowsVars, loading, notices, place, changes>>
    /\ Undrawn(scroll)

LoudFails ==
    /\ poll = "loud"
    /\ Spend(TRUE) /\ Bounded
    /\ live' = None
    /\ poll' = "none"
    /\ live_loading' = FALSE /\ notices' = notices \cup {"live"}
    /\ ReplaceItems(MergedConversations(filesystem, None, aligned))
    /\ UNCHANGED <<filesystem, aligned, fingerprint, loading, place>>
    /\ Draw(scroll)
QuietFails ==
    /\ poll = "quiet"
    /\ poll' = "none"
    /\ UNCHANGED <<snapshots, rowsVars, messages, place, changes>>
    /\ Undrawn(scroll)

-----------------------------------------------------------------------------
(* The intents of the user.                                                *)

Keep == UNCHANGED <<snapshots, poll, items, messages, place, changes>>

(* select_row(), with what follows it.                                     *)
SelectRow(row) ==
    /\ selected_provider' = row.provider
    /\ selection' = row.reference
Place(top) == EnsureVisible(top, Lines(items, collapsed_providers'), selected_provider', selection', Room)

(* move_row_selection() and the ends: SelectPrevious, SelectNext, Scroll,  *)
(* SelectFirst and SelectLast, over the rows there are.                    *)
Move(lines) ==
    /\ active /\ lines # <<>>
    /\ \E i \in {1, Len(lines)}
               \cup UNION {{at - 1, at, at + 1} : at \in SelectedRow(lines, selected_provider, selection)} :
          i \in DOMAIN lines /\ SelectRow(lines[i])
    /\ UNCHANGED collapsed_providers
    /\ Keep
    /\ LET moved == selected_provider' # selected_provider \/ selection' # selection
       IN IF moved THEN Draw(Place(scroll)) ELSE Undrawn(Place(scroll))

(* set_selected_provider_collapsed(); Toggle is one of the two.            *)
Collapse ==
    /\ active /\ selected_provider # None
    /\ IF selection # None THEN selection' = None /\ UNCHANGED collapsed_providers
       ELSE collapsed_providers' = collapsed_providers \cup {selected_provider} /\ UNCHANGED selection
    /\ UNCHANGED selected_provider
    /\ Keep
    /\ IF selection # None \/ selected_provider \notin collapsed_providers
       THEN Draw(Place(scroll)) ELSE Undrawn(Place(scroll))
Expand ==
    /\ active /\ selected_provider # None /\ selection = None
    /\ collapsed_providers' = collapsed_providers \ {selected_provider}
    /\ UNCHANGED <<selected_provider, selection>>
    /\ Keep
    /\ IF selected_provider \in collapsed_providers THEN Draw(Place(scroll)) ELSE Undrawn(Place(scroll))

(* handle_pointer() on a line of the content area; a header is toggled by  *)
(* the other button, or on its marker.                                     *)
Click(lines, line, toggle) ==
    /\ active
    /\ line > WarningHeight /\ line <= height
    /\ scroll + line - WarningHeight \in DOMAIN lines
    /\ SelectRow(lines[scroll + line - WarningHeight])
    /\ toggle => selection' = None
    /\ collapsed_providers' = IF ~toggle THEN collapsed_providers
                              ELSE SymDiff(collapsed_providers, {selected_provider'})
    /\ Keep
    /\ IF toggle \/ selected_provider' # selected_provider \/ selection' # selection
       THEN Draw(Place(scroll)) ELSE Undrawn(Place(scroll))

(* launch_conversation() of the selected conversation.  One that lives     *)
(* only in Herdr cannot be resumed; a launch fails or clears the notice.   *)
Launch(fails) ==
    /\ active
    /\ \E item \in ToSet(items) : item.reference = selection /\ (~item.on_disk => fails)
    /\ notices' = IF fails THEN notices \cup {"launch"} ELSE notices \ {"launch"}
    /\ UNCHANGED <<snapshots, poll, rowsVars, loading, live_loading, place, changes>>
    /\ Draw(scroll)

SwitchView ==
    /\ active' = ~active
    /\ UNCHANGED <<snapshots, poll, rowsVars, messages, height, changes>>
    /\ Draw(scroll)
Resize(h) ==
    /\ h # height
    /\ height' = h
    /\ UNCHANGED <<snapshots, poll, rowsVars, messages, active, changes>>
    /\ Draw(scroll)

Next ==
    \/ \E disk \in Discovered : \E same \in SUBSET InBoth(disk, live) : PageReady(disk, same)
    \/ \E reports \in Reported : \E same \in SUBSET InBoth(filesystem, reports) :
          LoudReady(reports, same) \/ QuietChanged(reports, same)
    \/ PageFails \/ Refresh \/ Tick \/ QuietSame \/ LoudFails \/ QuietFails
    \/ \E lines \in {CurrentLines} :
          Move(lines) \/ \E line \in 1..height, toggle \in BOOLEAN : Click(lines, line, toggle)
    \/ Collapse \/ Expand
    \/ \E fails \in BOOLEAN : Launch(fails)
    \/ SwitchView
    \/ \E h \in Heights : Resize(h)

Spec == Init /\ [][Next]_vars

-----------------------------------------------------------------------------
(* Every session that Herdr reports has a row that says it lives, no other *)
(* row says so, and each session on disk and each reference has one row:   *)
(* merging neither loses a session nor marks a wrong one (active.rs:193).  *)
RowsTrue ==
    filesystem # None =>
       /\ {item.reference.session : item \in {x \in ToSet(items) : x.live}}
             = IF live = None THEN {} ELSE {r.session : r \in live}
       /\ filesystem \subseteq {item.reference.session : item \in ToSet(items)}
       /\ Cardinality(References(items)) = Len(items)

(* A list that is drawn shows the selected row, and leaves no line empty   *)
(* while rows are scrolled away above, through every replacement, warning, *)
(* collapse and change of size (model.rs:678).                             *)
SelectionShown ==
    shown # Blank /\ items # <<>> =>
       /\ height > shown.warning =>
             [provider |-> selected_provider, reference |-> selection] \in ToSet(shown.rows)
       /\ scroll > 0 => Len(shown.rows) = height - shown.warning

(* What a job finds leaves the selection alone as long as its row is       *)
(* listed, and then moves it only to a row of the same tool and the same   *)
(* file (model.rs:275): what Enter opens is what the user has chosen, if   *)
(* no two sessions share a file.                                           *)
Follows == items' # items /\ selection # None =>
               /\ selection' # None =>
                     /\ Tool[selection'.session] = Tool[selection.session]
                     /\ Path[selection'.session] = Path[selection.session]
               /\ selection \in References(items') => selection' = selection
SelectionFollows == [][Follows]_vars

(* It does not always stay with its session: those of OpenCode are all in  *)
(* one database (opencode.rs:832).                                         *)
SelectionStays ==
    [][items' # items /\ selection # None /\ selection' # None =>
          selection'.session = selection.session]_vars

(* What README.md:203 says: a click selects the row it is on.              *)
ClickSelects ==
    [][\A line \in 1..height, toggle \in BOOLEAN :
          Click(CurrentLines, line, toggle) /\ line - shown.warning \in DOMAIN shown.rows =>
             [provider |-> selected_provider', reference |-> selection'] = shown.rows[line - shown.warning]]_vars
=============================================================================
