--------------------------- MODULE OpenCodeSource ---------------------------
(***************************************************************************)
(* The OpenCode source: sessions that another program keeps in a SQLite    *)
(* database in WAL mode, read without its locks being waited for           *)
(* (src/src/conversations/sources/opencode.rs), and what discovery and the *)
(* index do with a page of them (discovery.rs, index.rs).                  *)
(*                                                                         *)
(* A page captures the marks of the database's files, queries all sessions *)
(* of the project in one read transaction, checks its rows and that the    *)
(* database is still the same file, and hands over some of the changes:    *)
(* the watermark says which sessions the index has, at which fingerprint,  *)
(* and the marks under which it was read.  OpenCode commits, checkpoints,  *)
(* and closes the database between these steps; the user may replace or    *)
(* remove it.                                                              *)
(*                                                                         *)
(* A row is the number of the edit that wrote it, which stands for its     *)
(* fingerprint and orders it in time, and whether discovery accepts it:    *)
(* "long" has a title or identifier out of bounds, "newer" is of a version *)
(* that is not the verified one.                                           *)
(***************************************************************************)
EXTENDS Naturals, FiniteSets

CONSTANTS Sessions,      \* as numbers: removals go through them in order
          Limit,         \* DiscoveryLimit
          MaxEdits, MaxReplacements, MaxFaults

VARIABLES
    disk,        \* the database: its identity, the file itself, its WAL
    watermark,   \* Watermark, or Null
    list,        \* the fingerprints of the sessions in the index
    pc,          \* "idle", "main", "open", "read"
    captured,    \* the marks of this page
    rows,        \* what the query returned
    edits, replacements, faults

job == <<pc, captured, rows>>
environment == <<disk, edits, replacements>>
index == <<watermark, list>>
vars == <<environment, index, job, faults>>

Null == [at |-> 0]
Nothing == [s \in Sessions |-> Null]
Unlisted == [s \in Sessions |-> 0]
Absent == [id |-> 0, main |-> [at |-> 0, rows |-> Nothing], wal |-> [at |-> 0, rows |-> Nothing]]

Init == /\ disk = [Absent EXCEPT !.id = 1]
        /\ watermark = Null
        /\ list = Unlisted
        /\ pc = "idle" /\ captured = Null /\ rows = Nothing
        /\ edits = 0 /\ replacements = 0 /\ faults = 0

-----------------------------------------------------------------------------
(* OpenCode and the user.                                                  *)

HasWal == disk.wal.at # 0
Committed == IF HasWal THEN disk.wal.rows ELSE disk.main.rows

Edit == /\ edits < MaxEdits
        /\ edits' = edits + 1
        /\ UNCHANGED <<index, job, faults>>

(* A commit goes to the WAL: a session is written, or deleted.             *)
Commit == /\ disk # Absent /\ Edit
          /\ \E s \in Sessions :
             \E row \in {Null} \cup [at : {edits + 1}, is : {"valid", "long", "newer"}] :
                disk' = [disk EXCEPT !.wal = [at |-> edits + 1,
                                              rows |-> [Committed EXCEPT ![s] = row]]]
          /\ UNCHANGED replacements

(* The WAL is copied into the database, and removed when the last          *)
(* connection closes.                                                      *)
Checkpoint == /\ HasWal /\ Edit
              /\ \E wal \in {disk.wal, Absent.wal} :
                    disk' = [disk EXCEPT !.main = [at |-> edits + 1, rows |-> disk.wal.rows],
                                         !.wal = wal]
              /\ UNCHANGED replacements

(* The database is removed, or another takes its place.                    *)
Replace == /\ replacements < MaxReplacements
           /\ replacements' = replacements + 1
           /\ Edit
           /\ \/ disk' = Absent
              \/ disk' = [id |-> edits + 2,
                          main |-> [at |-> edits + 1, rows |-> disk.main.rows], wal |-> Absent.wal]

-----------------------------------------------------------------------------
(* discover_raw_cancellable().                                             *)

Idle == pc' = "idle" /\ captured' = Null /\ rows' = Nothing

(* What the watermark remembers; without one, of no database.              *)
Previous == IF watermark = Null
            THEN [database |-> Null, pending |-> FALSE, sessions |-> Unlisted]
            ELSE watermark

(* probe(), and the first half of capture_database(): the database itself. *)
Begin == /\ pc = "idle"
         /\ disk # Absent
         /\ pc' = "main"
         /\ captured' = [at |-> disk.main.at, id |-> disk.id, wal |-> 0]
         /\ UNCHANGED <<environment, index, rows, faults>>

(* The second half: its WAL.  Another database than before is an error; a  *)
(* database that did not change gives an empty batch.                      *)
Capture ==
    /\ pc = "main"
    /\ \E marks \in {[captured EXCEPT !.wal = disk.wal.at]} :
          IF \/ Previous.database # Null /\ Previous.database.id # marks.id
             \/ ~Previous.pending /\ Previous.database = marks
          THEN Idle
          ELSE /\ pc' = "open"
               /\ captured' = marks
               /\ UNCHANGED rows
    /\ UNCHANGED <<environment, index, faults>>

(* BEGIN, the metadata query, COMMIT.  Without a WAL the database is opened *)
(* as immutable: neither a WAL that appears later nor a lock is looked at.  *)
Query == /\ pc = "open"
         /\ pc' = "read"
         /\ rows' = IF captured.wal = 0 THEN disk.main.rows ELSE Committed
         /\ UNCHANGED <<environment, index, captured, faults>>

(* A query that was not guarded by locks may have met a checkpoint.        *)
Readings == IF captured.wal # 0 THEN {rows}
            ELSE {r \in [Sessions -> {rows[s] : s \in Sessions}
                                     \cup {disk.main.rows[s] : s \in Sessions}] :
                    \A s \in Sessions : r[s] \in {rows[s], disk.main.rows[s]}}

(* Recent sessions come first. *)
Newest(n, found, read) ==
    {s \in found : Cardinality({t \in found : read[t].at > read[s].at}) < n}
Lowest(n, found) == {s \in found : Cardinality({t \in found : t < s}) < n}

Unacceptable(read) == {s \in Sessions : read[s] # Null /\ read[s].is # "valid"}

(* An error of the kind InvalidData makes discovery drop the watermark and *)
(* the index drop the source; one of another kind changes nothing.         *)
Fails(read) ==
    \E worst \in Newest(1, Unacceptable(read), read) :
       IF read[worst].is = "long" /\ watermark # Null
       THEN watermark' = Null /\ list' = Unlisted
       ELSE UNCHANGED index

(* Mutant: the marks of the database are taken after the query.            *)
MutMarks == [at |-> disk.main.at, id |-> disk.id, wal |-> disk.wal.at]
Marks == captured

(* What the watermark keeps of a session that waits for the next page.     *)
Deferred(s) == Previous.sessions[s]
Pending(waiting) == waiting # {}

(* Candidates and removals share the limit; candidates come first.         *)
Merges(read) ==
    LET present == {s \in Sessions : read[s] # Null}
        changed == {s \in present : Previous.sessions[s] # read[s].at}
        gone == {s \in Sessions \ present : Previous.sessions[s] # 0}
        candidates == Newest(Limit, changed, read)
        removals == Lowest(Limit - Cardinality(candidates), gone)
        waiting == (changed \ candidates) \cup (gone \ removals)
    IN  /\ watermark' = [database |-> Marks, pending |-> Pending(waiting),
                         sessions |-> [s \in Sessions |->
                             IF s \in waiting THEN Deferred(s) ELSE read[s].at]]
        /\ list' = [s \in Sessions |-> IF s \in candidates THEN read[s].at
                                       ELSE IF s \in removals THEN 0 ELSE list[s]]

(* The rows are validated as they are read, then the database is looked at *)
(* once more, and the batch is made and merged.                            *)
Conclude ==
    /\ pc = "read"
    /\ \E read \in Readings :
          IF Unacceptable(read) # {} THEN Fails(read)
          ELSE IF disk.id # captured.id THEN UNCHANGED index
          ELSE Merges(read)
    /\ Idle
    /\ UNCHANGED <<environment, faults>>

(* The database is busy, the deadline passes, the page is cancelled, or    *)
(* the dock ends.                                                          *)
Abandon == /\ pc # "idle"
           /\ faults < MaxFaults /\ faults' = faults + 1
           /\ Idle
           /\ UNCHANGED <<environment, index>>

Page == Begin \/ Capture \/ Query \/ Conclude
Next == Commit \/ Checkpoint \/ Replace \/ Page \/ Abandon
Spec == Init /\ [][Next]_vars
FairSpec == Spec /\ WF_vars(Page)

-----------------------------------------------------------------------------
(* The types of the database, the watermark and the page.                  *)
Row == {Null} \cup [at : Nat, is : {"valid", "long", "newer"}]
Image == [at : Nat, rows : [Sessions -> Row]]
Mark == [at : Nat, id : Nat, wal : Nat]
TypeOK ==
    /\ disk \in [id : Nat, main : Image, wal : Image]
    /\ watermark \in {Null} \cup [database : Mark, pending : BOOLEAN, sessions : [Sessions -> Nat]]
    /\ list \in [Sessions -> Nat]
    /\ pc \in {"idle", "main", "open", "read"}
    /\ captured \in {Null} \cup Mark
    /\ rows \in [Sessions -> Row]
    /\ edits \in Nat

(* Marks name a state of the database once: each edit has a mark that none *)
(* before had, so marks that were taken belong to the past.                *)
MarksOf(d) == [at |-> d.main.at, id |-> d.id, wal |-> d.wal.at]
Past(marks) == marks.at <= edits /\ marks.id # 0 /\ marks.wal <= edits

Marked ==
    /\ disk.main.at <= edits /\ disk.wal.at <= edits
    /\ disk = Absent \/ disk.id # 0
    /\ watermark # Null => Past(watermark.database)
    /\ pc # "idle" => captured \in Mark /\ Past(captured)

(* Rows that were read under the marks the database still has are its rows. *)
ReadAsMarked == pc = "read" /\ captured = MarksOf(disk) => rows = Committed

-----------------------------------------------------------------------------
(* The watermark and the index never disagree about what the index has, so *)
(* that no session is passed over that is not listed, and none is listed   *)
(* that would not be missed.                                               *)
WatermarkListed == list = Previous.sessions

(* A page that is passed over because the database has not changed would   *)
(* have changed nothing: the marks were taken before the rows were read.   *)
SkipIsSound ==
    /\ watermark # Null /\ ~watermark.pending
    /\ watermark.database = [at |-> disk.main.at, id |-> disk.id, wal |-> disk.wal.at]
    => list = [s \in Sessions |-> Committed[s].at]

(* A database that discovery cannot read: it is gone, it is not the one    *)
(* that was read before, or one of its rows is unacceptable.               *)
Blocked == \/ disk = Absent
           \/ watermark # Null /\ watermark.database.id # disk.id
           \/ Unacceptable(Committed) # {}

(* When the database changes no more and pages go on being read, the index *)
(* comes to hold exactly its sessions, unless it cannot be read.           *)
Agrees == Blocked \/ list = [s \in Sessions |-> Committed[s].at]
Settles == <>[]Agrees

(* What README.md:158 says: a session disappears only after a refresh that *)
(* proves it was deleted or replaced.                                      *)
Stay == \A s \in Sessions : list[s] # 0 /\ list'[s] = 0
            => Null \in {rows[s], Committed[s]} \/ disk.id # captured.id
SessionsStay == [][Stay]_vars
=============================================================================
