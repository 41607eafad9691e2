----------------------- MODULE ConversationDiscovery ------------------------
(***************************************************************************)
(* The conversation index of a project and one of its sources: a store of  *)
(* JSONL files that coding agents write while the dock reads them          *)
(* (src/src/conversations/index.rs, discovery.rs and                       *)
(* sources/known_stores.rs, the source of Claude, Codex, OMP and Pi).      *)
(*                                                                         *)
(* A background job reads one page: it takes an inventory of the files,    *)
(* scans some of those that changed since the watermark, newest first,     *)
(* extracts the candidates among them, and merges the result into the      *)
(* index.  Between two of these steps the agents create, append, replace   *)
(* and delete files.                                                       *)
(*                                                                         *)
(* What a file holds is abstracted to its session, its length in units of  *)
(* the bytes one page may read of a file, and the unit that first names    *)
(* the session.  A stamp stands for length and modification time; it is    *)
(* new after every edit.  The index is written in one step; it holds more  *)
(* sessions than there are (trim_oldest() has nothing to do).              *)
(***************************************************************************)
EXTENDS Naturals, FiniteSets, FiniteSetsExt

CONSTANTS Files, Sessions,
          NoSession,     \* of a file without acceptable records
          None,          \* no file, no entry, not listed
          Shapes,        \* what may be written to each file
          Hideable,      \* the files that may be made unreadable
          Limit,         \* changed files scanned in one page
          MaxEdits,      \* bound on what the agents and the user do
          MaxFaults      \* bound on failing reads and abandoned pages

Shape == [session : Sessions \cup {NoSession}, len : 0..2, named : 1..2]
ASSUME StoreAssumption == /\ IsFiniteSet(Files)
                          /\ Shapes \in [Files -> SUBSET Shape]
                          /\ Hideable \subseteq Files
                          /\ NoSession \notin Sessions /\ None \notin Sessions \cup {NoSession}
ASSUME LimitAssumption == Limit \in Nat \ {0}
ASSUME BoundsAssumption == MaxEdits \in Nat /\ MaxFaults \in Nat

VARIABLES file,       \* what is in the store
          hidden,     \* the files that cannot be opened
          watermark,  \* what the index remembers of each file
          list,       \* the sessions of the index: from which file, at which stamp
          due,        \* a page is to be read
          pc,         \* what the job is doing
          todo,       \* files of the inventory it has not looked at
          stamps,     \* the stamps of the inventory
          unseen,     \* the inventory is incomplete
          inspected,  \* changed files it has scanned
          prepared,   \* what it found of each file
          page,       \* the candidates, the next watermark, and what to remove
          extracted,  \* candidates that were extracted
          failed,     \* a candidate was not
          strays,     \* auxiliary: sessions taken from failed pages
          contested,  \* auxiliary: sessions shared with a file that was not seen
          edits, faults

store == <<file, hidden, edits>>
history == <<strays, contested>>
index == <<watermark, list, due, history>>
locals == <<todo, stamps, unseen, inspected, prepared, page, extracted, failed>>
vars == <<store, index, pc, locals, faults>>

(* What a store holds at a path, what the watermark remembers of it, what  *)
(* a page finds of it, and what the index says of a session.               *)
Stamps == 0..MaxEdits
FileState == [session : Sessions \cup {NoSession}, len : 0..2, named : 1..2,
              born : Stamps, at : Stamps]
Entry == [at : Stamps, born : Stamps, offset : 0..2, session : Sessions \cup {NoSession},
          pending : BOOLEAN, complete : BOOLEAN, rejected : BOOLEAN, duplicate : BOOLEAN]
Finding == [entry : Entry, at : Stamps, changed : BOOLEAN, error : BOOLEAN]
Listing == [file : Files, at : Stamps]
ASSUME NoneAssumption == None \notin FileState /\ None \notin Entry /\ None \notin Finding
                         /\ None \notin Listing

NoPage == [candidates |-> {}, next |-> [f \in Files |-> None], removals |-> {}, more |-> FALSE]

Init == /\ file = [f \in Files |-> None]
        /\ hidden = {}
        /\ watermark = [f \in Files |-> None]
        /\ list = [s \in Sessions |-> None]
        /\ due = TRUE
        /\ pc = "idle"
        /\ todo = {}
        /\ stamps = [f \in Files |-> 0]
        /\ unseen = FALSE
        /\ inspected = 0
        /\ prepared = [f \in Files |-> None]
        /\ page = NoPage
        /\ extracted = {}
        /\ failed = FALSE
        /\ strays = {}
        /\ contested = {}
        /\ edits = 0
        /\ faults = 0

(* The job ends; the next one opens the index and the source afresh.       *)
Finish == /\ pc' = "idle"
          /\ todo' = {}
          /\ stamps' = [f \in Files |-> 0]
          /\ unseen' = FALSE
          /\ inspected' = 0
          /\ prepared' = [f \in Files |-> None]
          /\ page' = NoPage
          /\ extracted' = {}
          /\ failed' = FALSE

Present == {f \in Files : file[f] # None}
Readable == Present \ hidden
Fault == faults < MaxFaults /\ faults' = faults + 1

-----------------------------------------------------------------------------
(* The environment: agents write their transcripts, the user manages them. *)

Edit == /\ edits < MaxEdits
        /\ edits' = edits + 1
        /\ UNCHANGED <<index, pc, locals, faults>>

(* A file is created, or another takes its place.                          *)
Write(f) ==
    /\ Edit
    /\ \E shape \in Shapes[f] :
          file' = [file EXCEPT ![f] = [session |-> shape.session, len |-> shape.len,
                                       named |-> shape.named,
                                       born |-> edits + 1, at |-> edits + 1]]
    /\ UNCHANGED hidden

Grow(f) ==
    /\ Edit
    /\ f \in Present
    /\ file[f].len \in 1..1
    /\ file' = [file EXCEPT ![f].len = @ + 1, ![f].at = edits + 1]
    /\ UNCHANGED hidden

Delete(f) ==
    /\ Edit
    /\ f \in Present
    /\ file' = [file EXCEPT ![f] = None]
    /\ hidden' = hidden \ {f}

Hide(f) == Edit /\ f \in Hideable \cap Readable /\ hidden' = hidden \cup {f} /\ UNCHANGED file
Show(f) == Edit /\ f \in hidden /\ hidden' = hidden \ {f} /\ UNCHANGED file

-----------------------------------------------------------------------------
(* The watermark: one entry per file that was looked at.                   *)
(* decode_watermark() refuses the watermark unless each entry is a session *)
(* (scanned as a whole or in part), a part that names none yet, or a       *)
(* rejection.                                                              *)
Decodes(e) ==
    /\ \/ e.session # NoSession /\ ~e.pending /\ ~e.rejected
       \/ e.session = NoSession /\ e.pending /\ ~e.rejected /\ ~e.complete /\ e.offset > 0
       \/ e.session = NoSession /\ ~e.pending /\ e.rejected /\ ~e.complete /\ e.offset = 0
    /\ e.duplicate => e.complete

Decodable(w) == \A f \in Files : w[f] # None => Decodes(w[f])

Known(f) == watermark[f] # None

(* An entry that makes discovery pass over a file with this stamp.         *)
Settles(e, at) == (e.complete \/ e.rejected) /\ e.at = at

-----------------------------------------------------------------------------
(* A page: probe, decode_watermark() and the inventory.                    *)

(* The user asks for a refresh, or the dock shows the view.                *)
Refresh ==
    /\ pc = "idle" /\ ~due
    /\ due' = TRUE
    /\ UNCHANGED <<store, watermark, list, history, pc, locals, faults>>

(* Mutant: a file that cannot be read does not make the inventory          *)
(* incomplete.                                                             *)
MutStartPage ==
    /\ pc = "idle" /\ due
    /\ Decodable(watermark)
    /\ pc' = "scanning"
    /\ stamps' = [f \in Files |-> IF f \in Readable THEN file[f].at ELSE 0]
    /\ todo' = Readable
    /\ unseen' = FALSE
    /\ due' = FALSE
    /\ UNCHANGED <<store, watermark, list, history, inspected, prepared, page, extracted,
                   failed, faults>>

StartPage ==
    /\ pc = "idle" /\ due
    /\ Decodable(watermark)
    /\ pc' = "scanning"
    /\ stamps' = [f \in Files |-> IF f \in Readable THEN file[f].at ELSE 0]
    /\ todo' = Readable
    /\ unseen' = (hidden # {})
    /\ due' = FALSE
    /\ UNCHANGED <<store, watermark, list, history, inspected, prepared, page, extracted,
                   failed, faults>>

(* A watermark that cannot be decoded is dropped with all that the index   *)
(* has of the source, and the next page begins anew.                       *)
Purge ==
    /\ pc = "idle" /\ due
    /\ ~Decodable(watermark)
    /\ watermark' = [f \in Files |-> None]
    /\ list' = [s \in Sessions |-> None]
    /\ strays' = {}
    /\ contested' = {}
    /\ UNCHANGED <<store, due, pc, locals, faults>>

-----------------------------------------------------------------------------
(* Scanning: discover_raw_cancellable() up to its first loop's end.        *)

(* Newest first.                                                           *)
Newest(F) == CHOOSE f \in F : \A g \in F : stamps[g] <= stamps[f]

Prepare(f, p) == /\ prepared' = [prepared EXCEPT ![f] = p]
                 /\ todo' = todo \ {f}

Kept(f) == [entry |-> watermark[f], at |-> stamps[f], changed |-> FALSE, error |-> FALSE]
Failing(e, f) == [entry |-> e, at |-> stamps[f], changed |-> FALSE, error |-> TRUE]

Blank(f, rejected) == [at |-> stamps[f], born |-> 0, offset |-> 0, session |-> NoSession,
                       pending |-> FALSE, complete |-> FALSE, rejected |-> rejected,
                       duplicate |-> FALSE]

(* The file has not changed, or only what was found in it cannot be used.  *)
Skip(f) ==
    /\ Known(f) /\ Settles(watermark[f], stamps[f])
    /\ Prepare(f, IF watermark[f].rejected THEN Failing(watermark[f], f) ELSE Kept(f))
    /\ UNCHANGED <<inspected, page>>

(* The page is full; what is known of the file is kept.                    *)
Postpone(f) ==
    /\ ~(Known(f) /\ Settles(watermark[f], stamps[f]))
    /\ inspected >= Limit
    /\ Prepare(f, IF Known(f) THEN Kept(f) ELSE None)
    /\ page' = [page EXCEPT !.more = TRUE]
    /\ UNCHANGED inspected

(* Where scan_file() resumes: after the prefix it has read already.        *)
Start(f) ==
    IF /\ Known(f)
       /\ watermark[f].born = file[f].born
       /\ watermark[f].offset \in 1..(file[f].len - 1)
    THEN watermark[f].offset ELSE 0

(* One scan reads one unit.                                                *)
Scanned(f) ==
    LET read == Start(f) + 1
        named == file[f].named <= read IN
    [at |-> file[f].at, born |-> file[f].born, offset |-> read,
     session |-> IF named THEN file[f].session ELSE NoSession,
     pending |-> ~named, complete |-> read = file[f].len,
     rejected |-> FALSE, duplicate |-> FALSE]

(* There is nothing to accept in the file: UnsupportedFormat.              *)
Unsupported(f) == \/ file[f].session = NoSession
                  \/ Scanned(f).complete /\ Scanned(f).pending

(* A read fails: the file is gone, unreadable or changes meanwhile.  What  *)
(* was known of it is kept.                                                *)
ReadFails(f) ==
    /\ \/ f \notin Readable /\ UNCHANGED faults
       \/ f \in Readable /\ Fault
    /\ Prepare(f, Failing(IF Known(f) THEN watermark[f] ELSE Blank(f, FALSE), f))

ScanFile(f) ==
    /\ f \in Readable
    /\ \/ /\ file[f].len = 0
          /\ Prepare(f, Failing(Blank(f, FALSE), f))
          /\ UNCHANGED page
       \/ /\ file[f].len > 0
          /\ Unsupported(f)
          /\ Prepare(f, Failing(Blank(f, TRUE), f))
          /\ UNCHANGED page
       \/ /\ file[f].len > 0
          /\ ~Unsupported(f)
          /\ LET e == Scanned(f) IN
             /\ Prepare(f, [entry |-> e, at |-> e.at, error |-> FALSE,
                            changed |-> e.complete])
             /\ page' = [page EXCEPT !.more = @ \/ ~e.complete]

Inspect(f) ==
    /\ ~(Known(f) /\ Settles(watermark[f], stamps[f]))
    /\ inspected < Limit
    /\ inspected' = inspected + 1
    /\ \/ ScanFile(f) /\ UNCHANGED faults
       \/ ReadFails(f) /\ UNCHANGED page

LookAtNext ==
    /\ pc = "scanning"
    /\ todo # {}
    /\ LET f == Newest(todo) IN
       \/ Skip(f) /\ UNCHANGED faults
       \/ Postpone(f) /\ UNCHANGED faults
       \/ Inspect(f)
    /\ UNCHANGED <<store, index, pc, stamps, unseen, extracted, failed>>

-----------------------------------------------------------------------------
(* The batch: duplicates, candidates, the next watermark and the removals. *)

Looked == {f \in Files : prepared[f] # None}
Claims(s) == {f \in Looked : prepared[f].entry.session = s}
Duplicates == {s \in Sessions : Cardinality(Claims(s)) > 1}
Usable(f) == ~prepared[f].error /\ prepared[f].entry.session # NoSession

(* Mutant: a file that is no duplicate any more is not taken.              *)
MutCandidates == {f \in Looked : /\ Usable(f)
                                 /\ prepared[f].entry.session \notin Duplicates
                                 /\ prepared[f].changed}

(* A file that was a duplicate and is not any more counts as changed.      *)
Candidates == {f \in Looked : /\ Usable(f)
                              /\ prepared[f].entry.session \notin Duplicates
                              /\ prepared[f].changed \/ prepared[f].entry.duplicate}

(* After an incomplete inventory what was not seen is kept.                *)
NextWatermark ==
    [f \in Files |->
        IF f \in Looked
        THEN IF Usable(f)
             THEN [prepared[f].entry EXCEPT !.duplicate = prepared[f].entry.session \in Duplicates]
             ELSE prepared[f].entry
        ELSE IF unseen THEN watermark[f] ELSE None]

Names(w, f, s) == w[f] # None /\ w[f].session = s

(* Mutant: a file that names another session now is overlooked.            *)
MutRemovals ==
    {s \in Sessions : \E f \in Files : /\ Names(watermark, f, s)
                                       /\ unseen => f \in Looked
                                       /\ f \notin Looked \/ s \in Duplicates}

Removals ==
    {s \in Sessions : \E f \in Files : /\ Names(watermark, f, s)
                                       /\ unseen => f \in Looked
                                       /\ ~Names(NextWatermark, f, s) \/ s \in Duplicates}

Batch ==
    /\ pc = "scanning"
    /\ todo = {}
    /\ pc' = "extracting"
    /\ page' = [candidates |-> Candidates, next |-> NextWatermark, removals |-> Removals,
                more |-> page.more]
    /\ UNCHANGED <<store, index, todo, stamps, unseen, inspected, prepared, extracted,
                   failed, faults>>

-----------------------------------------------------------------------------
(* Extraction: the file must still be as it was scanned.                   *)
Extract ==
    /\ pc = "extracting"
    /\ page.candidates # {}
    /\ LET f == Newest(page.candidates) IN
       /\ page' = [page EXCEPT !.candidates = @ \ {f}]
       /\ IF f \in Readable /\ file[f].at = prepared[f].at
          THEN extracted' = extracted \cup {f} /\ UNCHANGED failed
          ELSE failed' = TRUE /\ UNCHANGED extracted
    /\ UNCHANGED <<store, index, pc, todo, stamps, unseen, inspected, prepared, faults>>

(* refresh_page_cancellable(): removals, then what was extracted.  If a    *)
(* candidate failed, only the latter: the page will be read again.         *)
Taken == {prepared[f].entry.session : f \in extracted}
Source(s) == CHOOSE f \in extracted : prepared[f].entry.session = s
Merged ==
    LET removed == IF failed THEN {} ELSE page.removals IN
    [s \in Sessions |->
        IF s \in Taken THEN [file |-> Source(s), at |-> prepared[Source(s)].entry.at]
        ELSE IF s \in removed THEN None ELSE list[s]]

Merge ==
    /\ pc = "extracting"
    /\ page.candidates = {}
    /\ list' = Merged
    /\ watermark' = IF failed THEN watermark ELSE page.next
    /\ due' = (page.more /\ ~failed)
    /\ strays' = {s \in Sessions :
                    /\ list'[s] # None
                    /\ \A f \in Files : ~Names(watermark', f, s)
                    /\ s \in strays \/ (s \in Taken /\ failed)}
    /\ contested' = {s \in Sessions :
                       LET rivals == {f \in Files : Names(watermark, f, s) \/ Names(watermark', f, s)} IN
                       \/ unseen /\ rivals \cap Looked # {} /\ rivals \ Looked # {}
                       \/ s \in contested /\ (failed \/ s \notin Taken) /\ rivals # {}}
    /\ Finish
    /\ UNCHANGED <<store, faults>>

(* A newer job supersedes this one, or the index cannot be written: the    *)
(* page is forgotten.                                                      *)
Abandon ==
    /\ pc # "idle"
    /\ Fault
    /\ Finish
    /\ due' = TRUE
    /\ UNCHANGED <<store, watermark, list, history>>

-----------------------------------------------------------------------------
Environment == \E f \in Files : Write(f) \/ Grow(f) \/ Delete(f) \/ Hide(f) \/ Show(f)
Work == StartPage \/ Purge \/ LookAtNext \/ Batch \/ Extract \/ Merge
Next == Environment \/ Refresh \/ Work \/ Abandon

Spec == Init /\ [][Next]_vars

(* A page that is due is read and runs to its end: the executor starts the *)
(* job, and its files are bounded.  Nobody has to refresh.                 *)
FairSpec == Spec /\ WF_vars(Work)

-----------------------------------------------------------------------------
(* Properties.                                                             *)

TypeOK ==
    /\ file \in [Files -> FileState \cup {None}]
    /\ hidden \subseteq Present \cap Hideable
    /\ watermark \in [Files -> Entry \cup {None}]
    /\ list \in [Sessions -> Listing \cup {None}]
    /\ due \in BOOLEAN
    /\ pc \in {"idle", "scanning", "extracting"}
    /\ todo \in SUBSET Files
    /\ stamps \in [Files -> Stamps]
    /\ unseen \in BOOLEAN
    /\ inspected \in 0..Limit
    /\ prepared \in [Files -> Finding \cup {None}]
    /\ page \in [candidates : SUBSET Files, next : [Files -> Entry \cup {None}],
                 removals : SUBSET Sessions, more : BOOLEAN]
    /\ extracted \in SUBSET Files
    /\ failed \in BOOLEAN
    /\ strays \in SUBSET Sessions
    /\ contested \in SUBSET Sessions
    /\ edits \in Stamps
    /\ faults \in 0..MaxFaults

Listed(s) == list[s] # None

PassesOver(f, s) == /\ Names(watermark, f, s)
                    /\ watermark[f].complete /\ Settles(watermark[f], file[f].at)
                    /\ ~watermark[f].duplicate

(* A file that discovery passes over, because the watermark says that it   *)
(* was read to its end and has not changed, has its session on the list:   *)
(* it would never be found again.  Left out are a file whose session       *)
(* another file claims as well, and one that shared its session with a     *)
(* file that was not seen: neither entry tells of the other, so when one   *)
(* of the two gives the session up it is removed, and the file that still  *)
(* has it is passed over.                                                  *)
Covered ==
    \A f \in Present : \A s \in Sessions \ contested : PassesOver(f, s) => Listed(s)

(* Conversely a listed session is one that an entry of the watermark names *)
(* - only then does the disappearance of its file remove it - or was taken *)
(* from a page that failed.                                                *)
Accounted ==
    \A s \in Sessions : Listed(s) => s \in strays \/ \E f \in Files : Names(watermark, f, s)

(* What a session was listed from.                                         *)
StillThere(s) == list[s].file \in Present /\ file[list[s].file].at = list[s].at

(* A session disappears only if its file was deleted or has changed since  *)
(* it was listed, or if another file claims to be the same session.        *)
Stays ==
    \A s \in Sessions :
      Listed(s) /\ StillThere(s) /\ list'[s] = None
      => \E f \in Files \ {list[s].file} : Names(watermark, f, s) \/ Names(watermark', f, s)
SessionsStay == [][Stays]_list

(* The same, as long as discovery can read the watermark it wrote.         *)
SessionsStayDecoded == [][Decodable(watermark) => Stays]_list

(* Files that name a session nobody else claims, nor did so while one of   *)
(* the two was not seen.                                                   *)
Healthy(f) == /\ f \in Readable
              /\ file[f].session # NoSession
              /\ file[f].named <= file[f].len
              /\ file[f].session \notin contested
              /\ \A g \in Present \ {f} : file[g].session # file[f].session

UpToDate == \A f \in Files :
               Healthy(f) => list[file[f].session] = [file |-> f, at |-> file[f].at]

(* After the last edit and the last failure one refresh is enough: pages   *)
(* follow one another, in whatever state the earlier ones left the index,  *)
(* until the list shows every healthy file as it is; unless the watermark  *)
(* becomes unreadable.                                                     *)
Calm == edits = MaxEdits /\ faults = MaxFaults
OneRefreshSuffices ==
    (Calm /\ pc = "idle" /\ due) ~> (UpToDate \/ ~Decodable(watermark))
=============================================================================
