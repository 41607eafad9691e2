---------------------------- MODULE Transcripts ----------------------------
(***************************************************************************)
(* How a known store reads one transcript, page by page, while its agent   *)
(* writes it: scan_file() of src/src/conversations/sources/known_stores.rs *)
(* and parse() of the four formats that implement KnownFormat.             *)
(*                                                                         *)
(* A file is a sequence of complete records and the size of what follows   *)
(* the last newline.  A record counts 1, or more than a page when it is    *)
(* "huge".  What is stored of a file is its entry in the watermark.        *)
(*                                                                         *)
(* A record is of one of these kinds:                                      *)
(*   slot, header    OMP's title slot; the session header of Pi, OMP and   *)
(*                   Codex                                                 *)
(*   entry           what Pi and OMP append; its parent is missing,        *)
(*                   another entry, or the entry itself                    *)
(*   item            what Codex appends, numbered unless it is legacy      *)
(*   turn            a record of Claude's that carries the identity of the *)
(*                   session; it has no parent, another turn, or none      *)
(*                   because it is a compact boundary                      *)
(*   stamp           an attachment or queue operation of Claude's          *)
(*   ai, custom      a title of Claude's                                   *)
(*   other           a record of a type that is not known                  *)
(*   malformed       a record whose fields are not those of its type, or   *)
(*                   whose cwd or identifiers are not the file's           *)
(***************************************************************************)
EXTENDS Integers, FiniteSets, Sequences

CONSTANTS Titles, Untitled, Directories,
          Page,              \* MAX_FILE_BYTES
          Guard,             \* PREFIX_GUARD_BYTES, in records
          MaxOmpRecords,     \* MAX_OMP_RECORDS
          MaxRecords,        \* bounds on what agents write, MaxRecords for each format
          MaxTime, MaxOdd

TranscriptsAssumption ==
    /\ {Page, Guard, MaxOmpRecords, MaxTime, MaxOdd} \subseteq Nat
    /\ MaxRecords \in [{"pi", "omp", "codex", "claude"} -> Nat]
    /\ Page >= 2 /\ Guard >= 1 /\ MaxTime >= 1
    /\ Untitled \notin Titles

VARIABLES
    format,      \* "pi", "omp", "codex", "claude"
    file,        \* its records, and the size of what follows them
    silent,      \* whether its agent writes no more
    entry        \* WatermarkEntry of the file; whether its identity is the file's
                 \* ("same") and its state is ("current")

vars == <<format, file, silent, entry>>

Times == 1..MaxTime
None == -1                   \* no ordinal, or no entry to be the parent of the next

-----------------------------------------------------------------------------
(* What parse() has made of the records so far: ParsedMetadata, or         *)
(* PendingMetadata while no record has named the session, or a failure.    *)

Rejected == [is |-> "rejected"]
Parsed(title, created, updated, chain, tail, cwd, count) ==
    [is |-> "metadata", title |-> title, created |-> created, updated |-> updated,
     chain |-> chain, tail |-> tail, cwd |-> cwd, count |-> count]
Pending(title, created, updated, count) ==
    [is |-> "pending", title |-> title, created |-> created, updated |-> updated, count |-> count]

Root == CHOOSE d \in Directories : TRUE

(* has_valid_payload(), is_valid_append(): fields a type does not have are *)
(* refused by OMP and passed over by the others.                           *)
Verified(r) == r.fields = "known" \/ format # "omp"

(* PiFormat::parse(). *)
PiHeader(r) ==
    IF r.kind = "header"
    THEN Parsed(Untitled, r.time, r.time, r.time, None, Root, 1)
    ELSE Rejected
PiStep(m, r) ==
    IF /\ r.kind = "entry"
       /\ Verified(r)
       /\ r.parent = IF m.tail = None THEN "none" ELSE "other"
       /\ r.time >= m.updated
    THEN [m EXCEPT !.updated = r.time, !.chain = r.time, !.tail = 0, !.count = @ + 1]
    ELSE Rejected

(* OmpFormat::parse(). *)
OmpHeader(slot, r) ==
    IF slot.kind = "slot" /\ r.kind = "header" /\ slot.time >= r.time
    THEN Parsed(slot.title, r.time, slot.time, r.time, None, Root, 2)
    ELSE Rejected
OmpStep(m, r) ==
    IF /\ r.kind = "entry"
       /\ Verified(r)
       /\ r.parent # "self"
       /\ r.time >= m.chain
       /\ m.count < MaxOmpRecords
    THEN [m EXCEPT !.updated = IF r.time > @ THEN r.time ELSE @,
                   !.chain = r.time, !.tail = 0, !.count = @ + 1]
    ELSE Rejected

(* CodexCliFormat::parse(), CodexHistory: the tail is the last ordinal, or *)
(* None in a legacy rollout.                                               *)
CodexHeader(r) ==
    IF r.kind = "header" /\ r.ordinal \in {None, 0} /\ r.written >= r.time
    THEN Parsed(Untitled, r.time, r.written, r.written, r.ordinal, Root, 1)
    ELSE Rejected
CodexStep(m, r) ==
    IF /\ r.kind = "item"
       /\ Verified(r)
       /\ r.ordinal = IF m.tail = None THEN None ELSE m.tail + 1
       /\ r.time >= m.updated
    THEN [m EXCEPT !.updated = r.time, !.chain = r.time, !.tail = r.ordinal, !.count = @ + 1]
    ELSE Rejected

-----------------------------------------------------------------------------
(* ClaudeCodeFormat::parse().  A pending session has no chain; a session   *)
(* without a time yet has created and updated None.                        *)

Earliest(a, b) == IF a = None \/ b < a THEN b ELSE a
Latest(a, b) == IF a = None \/ b > a THEN b ELSE a

Stamped(m, time) == [m EXCEPT !.created = Earliest(@, time), !.updated = Latest(@, time)]

HasChain(m) == m.is = "metadata" /\ m.tail # None

(* A record that carries the session's identity. *)
ClaudeTurn(m, r) ==
    IF /\ r.kind = "turn"
       /\ \/ r.parent = IF HasChain(m) THEN "other" ELSE "none"
          \/ r.parent = "boundary"
    THEN Parsed(m.title, Earliest(m.created, r.time), Latest(m.updated, r.time),
                Latest(m.updated, r.time), 0, IF m.is = "metadata" THEN m.cwd ELSE r.cwd,
                m.count + 1)
    ELSE Rejected

(* The others: attachments, titles, modes, types that are not known. *)
ClaudeAuxiliary(m, r) ==
    LET counted == [m EXCEPT !.count = @ + 1]
    IN  CASE r.kind = "stamp"     -> Stamped(counted, r.time)
          [] r.kind = "custom"    -> [counted EXCEPT !.title = r.title]
          [] r.kind = "ai"        -> [counted EXCEPT !.title = IF @ = Untitled THEN r.title ELSE @]
          [] r.kind = "other"     -> counted
          [] OTHER                -> Rejected

ClaudeStep(m, r) == IF r.kind = "turn" THEN ClaudeTurn(m, r) ELSE ClaudeAuxiliary(m, r)

(* The records' outcome; what is kept besides is what later records need. *)
ClaudeEnd(m) == IF m.is = "metadata" THEN [m EXCEPT !.chain = m.updated] ELSE m

-----------------------------------------------------------------------------
(* parse() of the format: the records that open a session, what they make, *)
(* and each record after them.                                             *)
HeaderRecords == CASE format = "omp" -> 2 [] format = "claude" -> 0 [] OTHER -> 1
Header == CASE format = "pi"     -> PiHeader(file.records[1])
            [] format = "omp"    -> OmpHeader(file.records[1], file.records[2])
            [] format = "codex"  -> CodexHeader(file.records[1])
            [] format = "claude" -> Pending(Untitled, None, None, 0)
Step(m, r) == IF m = Rejected THEN Rejected
              ELSE CASE format = "pi"     -> PiStep(m, r)
                     [] format = "omp"    -> OmpStep(m, r)
                     [] format = "codex"  -> CodexStep(m, r)
                     [] format = "claude" -> ClaudeStep(m, r)

(* What records from + 1 to n make of m, for each n.                       *)
Fold(m, from) ==
    LET f[n \in from..Len(file.records)] ==
          IF n = from THEN m
          ELSE CHOOSE after \in {Step(before, file.records[n]) : before \in {f[n - 1]}} : TRUE
    IN  f

(* parse(): records n + 1 to m, a page, after those that made previous.    *)
Parse(n, m, previous) ==
    LET end == IF previous.is \in {"metadata", "pending"} THEN Fold(previous, n)[m]
               ELSE IF m < HeaderRecords THEN Rejected
               ELSE Fold(Header, HeaderRecords)[m]
    IN  IF format = "claude" THEN ClaudeEnd(end) ELSE end

-----------------------------------------------------------------------------
(* scan_file().                                                            *)

Huge == {i \in DOMAIN file.records : file.records[i].kind = "huge"}
SizeFrom(n) == (Len(file.records) - n) + Page * Cardinality({i \in Huge : i > n}) + file.tail

Absent == [is |-> "absent"]
NoEntry == [current |-> FALSE, same |-> FALSE, offset |-> 0, guard |-> <<>>, complete |-> FALSE,
            outcome |-> Absent]
Entry(offset, guard, complete, outcome) ==
    [current |-> TRUE, same |-> TRUE, offset |-> offset, guard |-> guard, complete |-> complete,
     outcome |-> outcome]

Prefix(n) == SubSeq(file.records, 1, IF n < Guard THEN n ELSE Guard)

(* Mutant: the records that were read before are not looked at again.      *)
MutResumable == /\ entry.outcome.is \in {"metadata", "pending"}
                /\ entry.same
                /\ SizeFrom(entry.offset) > 0

(* The scan goes on where the last one ended if the file is the same, has  *)
(* grown, and begins with what it began with.  The guard is of the first   *)
(* scan and is compared with a prefix as long as the offset allows.        *)
Resumable == /\ entry.outcome.is \in {"metadata", "pending"}
             /\ entry.same
             /\ entry.offset <= Len(file.records) /\ SizeFrom(entry.offset) > 0
             /\ Prefix(entry.offset) = entry.guard

(* The last record of the page that starts after record n.                 *)
PageEnd(n) == LET fits == {m \in n..Len(file.records) : SizeFrom(n) - SizeFrom(m) <= Page}
              IN  CHOOSE m \in fits : \A k \in fits : k <= m

(* Mutant: the guard is always that of the page.                           *)
MutGuarded(n, m) == SubSeq(file.records, n + 1, m)

Guarded(n, m) == IF n = 0 THEN Prefix(m) ELSE entry.guard

(* Records n + 1 to m have been read after those that made previous.  A    *)
(* partial record longer than a page parks the scan: it is complete until  *)
(* the file changes.                                                       *)
Ends(n, m, previous, outcome) ==
    LET remaining == SizeFrom(n)
        parked == m = n /\ previous.is = "metadata" /\ remaining > Page
        complete == remaining <= Page \/ parked
    IN  IF \/ m = n /\ previous.is # "metadata"
           \/ parked /\ file.tail = 0
           \/ outcome = Rejected
           \/ complete /\ outcome.is = "pending"
        THEN entry' = Entry(0, <<>>, FALSE, Rejected)
        ELSE entry' = Entry(m, Guarded(n, m), complete, outcome)

Settled == entry.current /\ (entry.complete \/ entry.outcome = Rejected)

(* One page of a file that is not settled.  A scan during which the file   *)
(* changes fails and leaves the entry as it was.                           *)
Scan == /\ ~Settled
        /\ \E n \in {IF Resumable THEN entry.offset ELSE 0} :
           \E m \in {PageEnd(n)}, previous \in {IF Resumable THEN entry.outcome ELSE Absent} :
           \E outcome \in {IF m = n THEN previous
                           ELSE Parse(n, m, previous)} :
              Ends(n, m, previous, outcome)
        /\ UNCHANGED <<format, file, silent>>

-----------------------------------------------------------------------------
(* What agents write.                                                      *)

Parents == {"none", "other", "self"}
Fields == {"known", "more"}

Formats == {"pi", "omp", "codex", "claude"}
Headers == [f \in Formats |->
    CASE f \in {"pi", "omp"} -> [kind : {"header"}, time : Times]
      [] f = "codex" -> [kind : {"header"}, time : Times, written : Times, ordinal : {None, 0}]
      [] f = "claude" -> {}]
Slots == [kind : {"slot"}, title : Titles \cup {Untitled}, time : Times]
Odd == [kind : {"malformed", "huge"}]

Items == [f \in Formats |->
    CASE f \in {"pi", "omp"} ->
           [kind : {"entry"}, fields : Fields, parent : Parents, time : Times]
      [] f = "codex" ->
           [kind : {"item"}, fields : Fields, ordinal : {None} \cup 1..(MaxRecords[f] - 1), time : Times]
      [] f = "claude" ->
           [kind : {"turn"}, parent : {"none", "other", "boundary"}, cwd : Directories, time : Times]
           \cup [kind : {"stamp"}, time : Times]
           \cup [kind : {"ai", "custom"}, title : Titles]
           \cup [kind : {"other"}]]
AnyItem == [f \in Formats |-> Items[f] \cup Odd]

Beginnings == CASE format = "omp"    -> {<<s, h>> : s \in Slots, h \in Headers["omp"]}
                [] format = "claude" -> {<<r>> : r \in Items["claude"]}
                [] OTHER             -> {<<h>> : h \in Headers[format]}

Init == /\ format \in Formats
        /\ \E records \in Beginnings : file = [records |-> records, tail |-> 0]
        /\ entry = NoEntry
        /\ silent = FALSE

(* Records a format may refuse for what they are. *)
IsOdd(r) == CASE r.kind = "entry" -> r.fields = "more" \/ r.parent = "self"
              [] r.kind = "item"  -> r.fields = "more"
              [] OTHER            -> r.kind \in {"malformed", "huge"}
Oddities(records, tail) == Cardinality({i \in DOMAIN records : IsOdd(records[i])})
                           + IF tail > 1 THEN 1 ELSE 0

Becomes(records, tail) ==
    /\ Oddities(records, tail) <= MaxOdd
    /\ file' = [records |-> records, tail |-> tail]
    /\ entry' = [entry EXCEPT !.current = FALSE]
    /\ UNCHANGED <<format, silent>>

Appends == /\ Len(file.records) < MaxRecords[format]
           /\ \E r \in AnyItem[format] : Becomes(Append(file.records, r), 0)
StartsRecord == \E size \in {1, Page + 1} : /\ file.tail < size
                                           /\ Becomes(file.records, size)

(* OMP writes its title in place. *)
Retitles == /\ format = "omp" /\ file.records[1].kind = "slot"
            /\ file.tail = 0
            /\ \E s \in Slots : Becomes([file.records EXCEPT ![1] = s], 0)

(* A file is replaced by another with part of its records, at the last. *)
Replaces == /\ entry' = [entry EXCEPT !.current = FALSE, !.same = FALSE]
            /\ \E n \in 1..Len(file.records) :
                 file' = [records |-> SubSeq(file.records, 1, n), tail |-> 0]
            /\ silent' = TRUE
            /\ UNCHANGED format

Edits == ~silent /\ (Appends \/ StartsRecord \/ Retitles \/ Replaces)
FallsSilent == ~silent /\ silent' = TRUE /\ UNCHANGED <<format, file, entry>>

Next == Scan \/ Edits \/ FallsSilent
Spec == Init /\ [][Next]_vars /\ WF_vars(Scan)

-----------------------------------------------------------------------------
(* What a transcript says, of all its records at once.                     *)

TimesOf(rs, n) == {rs[i].time : i \in {j \in 1..n : "time" \in DOMAIN rs[j]}}
IsEarliest(t, ts) == t \in ts /\ \A u \in ts : t <= u
IsLatest(t, ts) == t \in ts /\ \A u \in ts : u <= t
Ordered(rs, from, n) == \A i, j \in from..n : i <= j => rs[i].time <= rs[j].time
Of(rs, n, kind) == {i \in 1..n : rs[i].kind = kind}
AllOf(rs, from, n, kind) == from..n \subseteq Of(rs, n, kind)

(* The first n records are as those of a session are, or may yet be.       *)
PiGood(rs, n) ==
    /\ AllOf(rs, 2, n, "entry") /\ Ordered(rs, 1, n)
    /\ \A i \in 2..n : rs[i].parent = IF i = 2 THEN "none" ELSE "other"
OmpGood(rs, n) ==
    /\ n \in 2..(IF MaxOmpRecords > 2 THEN MaxOmpRecords ELSE 2)
    /\ rs[2].kind = "header" /\ AllOf(rs, 3, n, "entry") /\ Ordered(rs, 2, n)
    /\ \A i \in 3..n : rs[i].parent # "self" /\ rs[i].fields = "known"
    /\ rs[2].time <= rs[1].time
CodexGood(rs, n) ==
    /\ AllOf(rs, 2, n, "item") /\ Ordered(rs, 2, n)
    /\ \A i \in 2..n : /\ rs[i].ordinal = IF rs[1].ordinal = None THEN None ELSE i - 1
                       /\ rs[1].written <= rs[i].time
    /\ rs[1].time <= rs[1].written
ClaudeGood(rs, n) ==
    LET turns == Of(rs, n, "turn")
    IN  /\ Of(rs, n, "malformed") \cup Of(rs, n, "huge") = {}
        /\ \A i \in turns : rs[i].parent # IF IsEarliest(i, turns) THEN "other" ELSE "none"
Good(rs, n) == CASE format = "pi"     -> PiGood(rs, n)
                 [] format = "omp"    -> OmpGood(rs, n)
                 [] format = "codex"  -> CodexGood(rs, n)
                 [] format = "claude" -> ClaudeGood(rs, n)

Session(title, created, updated, cwd, count) ==
    [title |-> title, created |-> created, updated |-> updated, cwd |-> cwd, count |-> count]
NoSession == [is |-> "no session"]

CodexTime(rs, n) == IF n = 1 THEN rs[1].written ELSE rs[n].time
ClaudeTitle(rs, n) ==
    IF Of(rs, n, "custom") # {} THEN rs[CHOOSE i \in Of(rs, n, "custom") : IsLatest(i, Of(rs, n, "custom"))].title
    ELSE IF Of(rs, n, "ai") # {} THEN rs[CHOOSE i \in Of(rs, n, "ai") : IsEarliest(i, Of(rs, n, "ai"))].title
    ELSE Untitled
ClaudeSession(rs, n) ==
    LET turns == Of(rs, n, "turn")
        times == TimesOf(rs, n)
    IN  Session(ClaudeTitle(rs, n), CHOOSE t \in times : IsEarliest(t, times),
                CHOOSE t \in times : IsLatest(t, times),
                rs[CHOOSE i \in turns : IsEarliest(i, turns)].cwd, n)

SessionOf(rs, n) ==
    IF ~Good(rs, n) \/ (format = "claude" /\ Of(rs, n, "turn") = {}) THEN NoSession
    ELSE CASE format = "pi"     -> Session(Untitled, rs[1].time, rs[n].time, Root, n)
           [] format = "omp"    -> Session(rs[1].title, rs[2].time, Latest(rs[1].time, rs[n].time), Root, n)
           [] format = "codex"  -> Session(Untitled, rs[1].time, CodexTime(rs, n), Root, n)
           [] format = "claude" -> ClaudeSession(rs, n)

(* How many records a scan can reach: none past one that is longer than a  *)
(* page, and that one must be the end of the file or followed by a partial *)
(* one.                                                                    *)
Readable == IF Huge = {} THEN Len(file.records) ELSE (CHOOSE i \in Huge : IsEarliest(i, Huge)) - 1
FileSession == IF (Huge # {} /\ file.tail = 0) \/ Readable = 0 THEN NoSession
               ELSE SessionOf(file.records, Readable)

(* Whatever the pages in which a transcript was read, and however it was   *)
(* extended, retitled, replaced or left half written between them: what is *)
(* stored of it once its scan is over is what all of its records say, read *)
(* at once, and it is refused exactly if they say nothing.                 *)
ReadAsWhole ==
    Settled =>
        IF entry.outcome = Rejected THEN FileSession = NoSession
        ELSE Session(entry.outcome.title, entry.outcome.created, entry.outcome.updated,
                     entry.outcome.cwd, entry.outcome.count) = FileSession

-----------------------------------------------------------------------------
(* What keeps it, between the pages.                                       *)

AnyRecord == Slots \cup UNION {Headers[f] \cup AnyItem[f] : f \in Formats}
RecordsAt(i) == CASE format = "omp" /\ i = 1 -> Slots
                  [] i = HeaderRecords /\ i > 0 -> Headers[format]
                  [] OTHER -> AnyItem[format]
TypeOK ==
    /\ format \in Formats /\ silent \in BOOLEAN
    /\ file = [records |-> file.records, tail |-> file.tail]
    /\ file.records \in Seq(AnyRecord) /\ Len(file.records) >= 1 /\ file.tail \in Nat
    /\ silent \/ Len(file.records) >= HeaderRecords
    /\ \A i \in 1..Len(file.records) : file.records[i] \in RecordsAt(i)
    /\ entry = [current |-> entry.current, same |-> entry.same, offset |-> entry.offset,
                guard |-> entry.guard, complete |-> entry.complete, outcome |-> entry.outcome]
    /\ {entry.current, entry.same, entry.complete} \subseteq BOOLEAN

(* What has been made of the first n records is what they say, with what   *)
(* the next one is compared with.                                          *)
Titled(title, rs, n) ==
    \/ \E i \in Of(rs, n, "custom") : IsLatest(i, Of(rs, n, "custom")) /\ title = rs[i].title
    \/ /\ Of(rs, n, "custom") = {}
       /\ \E i \in Of(rs, n, "ai") : IsEarliest(i, Of(rs, n, "ai")) /\ title = rs[i].title
    \/ Of(rs, n, "custom") \cup Of(rs, n, "ai") = {} /\ title = Untitled
Dated(m, ts) == IF ts = {} THEN m.created = None /\ m.updated = None
                ELSE IsEarliest(m.created, ts) /\ IsLatest(m.updated, ts)
ClaudeTold(m, rs, n) ==
    LET turns == Of(rs, n, "turn")
    IN  /\ Titled(m.title, rs, n) /\ Dated(m, TimesOf(rs, n)) /\ m.count = n
        /\ IF turns = {} THEN m = Pending(m.title, m.created, m.updated, m.count)
           ELSE /\ m = Parsed(m.title, m.created, m.updated, m.chain, 0, m.cwd, m.count)
                /\ \E i \in turns : IsEarliest(i, turns) /\ m.cwd = rs[i].cwd
Told(m, rs, n) ==
    /\ Good(rs, n)
    /\ CASE format = "pi" ->
               m = Parsed(Untitled, rs[1].time, rs[n].time, rs[n].time, IF n = 1 THEN None ELSE 0, Root, n)
         [] format = "omp" ->
               m = Parsed(rs[1].title, rs[2].time, Latest(rs[1].time, rs[n].time), rs[n].time,
                          IF n = 2 THEN None ELSE 0, Root, n)
         [] format = "codex" ->
               m = Parsed(Untitled, rs[1].time, CodexTime(rs, n), CodexTime(rs, n),
                          IF rs[1].ordinal = None THEN None ELSE n - 1, Root, n)
         [] format = "claude" -> ClaudeTold(m, rs, n)

(* A file that is the same has only gained records since the scan, but for *)
(* its title slot, and that is the first one of the guard.                 *)
IsOpen == entry.outcome.is \in {"metadata", "pending"}
AsScanned == [file.records EXCEPT ![1] = entry.guard[1]]
Kept == IsOpen /\ entry.same =>
            /\ entry.offset \in 1..Len(file.records)
            /\ Told(entry.outcome, AsScanned, entry.offset)

TranscriptInv == TypeOK /\ Kept /\ ReadAsWhole

(* Once its agent is silent, the scan of a transcript comes to its end:    *)
(* pages advance, or start again a bounded number of times.                *)
ScanEnds == silent ~> Settled
=============================================================================
