------------------------- MODULE ProjectLocalSource -------------------------
(***************************************************************************)
(* The project-local source: JSON and JSONL records in a directory of the  *)
(* project, which whatever writes them may change while a page is read     *)
(* (src/src/conversations/sources/project_local.rs, generic_jsonl.rs), and *)
(* what discovery and the index do with a page (discovery.rs, index.rs).   *)
(*                                                                         *)
(* Every page lists the directory, reads all the files it lists in the     *)
(* order of their paths, makes candidates of some of those that changed    *)
(* since the watermark, reads those again, and merges.                     *)
(*                                                                         *)
(* A file is the session its records name, or Bad when they name none, are *)
(* malformed or mix sessions, and the number of the edit that wrote it,    *)
(* which stands for its fingerprint.                                       *)
(***************************************************************************)
EXTENDS Naturals, FiniteSets

CONSTANTS NumFiles,      \* files are numbers, in the order of their paths
          Sessions, Bad,
          Limit,         \* DiscoveryLimit
          MaxFiles,      \* MAX_DISCOVERABLE_FILES, MAX_WATERMARK_ENTRIES
          MaxEdits       \* bound on writing and on pages that are abandoned

VARIABLES
    file, hidden,        \* what is in the files; those that cannot be opened
    here,                \* whether the registered directory exists
    watermark,           \* what the index remembers of each file
    list,                \* the sessions in the index: from which file, of which edit
    pc,                  \* "idle", "reading", "extracting"
    todo,                \* files still to read, or candidates still to extract
    reads,               \* what was read of each file
    batch,               \* candidates, removals and the next watermark
    extracted, failed,   \* candidates that were extracted; whether one was not
    strays,              \* auxiliary: sessions taken from failed pages
    contested,           \* auxiliary: sessions two entries of a watermark name
    edits

environment == <<file, hidden, here, edits>>
index == <<watermark, list, strays, contested>>
job == <<pc, todo, reads, batch, extracted, failed>>
vars == <<environment, index, job>>

Places == 1..NumFiles
Null == [at |-> 0]
Nothing == [f \in Places |-> Null]
NoBatch == [candidates |-> {}, removals |-> {}, next |-> Nothing]

Idle == /\ pc' = "idle" /\ todo' = {} /\ reads' = Nothing /\ batch' = NoBatch
        /\ extracted' = {} /\ failed' = FALSE

Init == /\ file = Nothing /\ hidden = {} /\ here = FALSE
        /\ watermark = Nothing
        /\ list = [s \in Sessions |-> Null]
        /\ pc = "idle" /\ todo = {} /\ reads = Nothing /\ batch = NoBatch
        /\ extracted = {} /\ failed = FALSE
        /\ strays = {} /\ contested = {}
        /\ edits = 0

-----------------------------------------------------------------------------
(* Whoever writes the records.                                             *)

Present == {f \in Places : file[f] # Null}

Edit == /\ edits < MaxEdits
        /\ edits' = edits + 1
        /\ UNCHANGED <<index, job>>

Write(f) == /\ Edit
            /\ \E s \in Sessions \cup {Bad} : file' = [file EXCEPT ![f] = [at |-> edits + 1, session |-> s]]
            /\ here' = TRUE
            /\ UNCHANGED hidden

Delete(f) == /\ f \in Present /\ Edit
             /\ file' = [file EXCEPT ![f] = Null]
             /\ hidden' = hidden \ {f}
             /\ UNCHANGED here

(* A file keeps its modification and change time when it is renamed over   *)
(* none, except for the latter: it is another edit.                        *)
Rename(f, g) == /\ f \in Present /\ g \notin Present /\ Edit
                /\ file' = [file EXCEPT ![f] = Null, ![g] = [file[f] EXCEPT !.at = edits + 1]]
                /\ hidden' = hidden \ {f}
                /\ UNCHANGED here

(* One file is made unreadable, or readable again. *)
Chmod(f) == /\ f \in Present /\ Edit
            /\ hidden' = IF f \in hidden THEN hidden \ {f} ELSE hidden \cup {f}
            /\ UNCHANGED <<file, here>>

Withdraw == /\ here /\ Edit
            /\ here' = FALSE /\ file' = Nothing /\ hidden' = {}

-----------------------------------------------------------------------------
(* discover_raw_cancellable().                                             *)

(* A watermark with more entries than there may be files is refused, and   *)
(* discovery drops it, and the index the source.                           *)
Known == {f \in Places : watermark[f] # Null}
Purge == /\ watermark' = Nothing
         /\ list' = [s \in Sessions |-> Null]
         /\ strays' = {} /\ contested' = {}
         /\ UNCHANGED job

(* Too many files are none. *)
Listing == IF Cardinality(Present) > MaxFiles THEN {} ELSE Present

(* probe() finds the directory; list_files(). *)
Begin == /\ pc = "idle" /\ here
         /\ IF Cardinality(Known) > MaxFiles THEN Purge
            ELSE /\ pc' = "reading" /\ todo' = Listing
                 /\ reads' = [f \in Places |-> IF f \in Listing THEN [at |-> 0, is |-> "listed"] ELSE Null]
                 /\ UNCHANGED <<index, batch, extracted, failed>>
         /\ UNCHANGED environment

Lowest(set) == CHOOSE f \in set : \A g \in set : f <= g

Read(f) == IF f \notin Present \ hidden THEN [at |-> 0, is |-> "unread"]
           ELSE IF file[f].session = Bad THEN [at |-> 0, is |-> "bad"]
           ELSE [at |-> file[f].at, is |-> "read", session |-> file[f].session]

(* discover_file(); a file that changes while it is read fails.            *)
ReadFile == /\ pc = "reading" /\ todo # {}
            /\ \E f \in {Lowest(todo)} :
               /\ todo' = todo \ {f}
               /\ reads' = [reads EXCEPT ![f] = Read(f)]
            /\ UNCHANGED <<environment, index, pc, batch, extracted, failed>>

-----------------------------------------------------------------------------
(* The loop over the files that were listed, once they are read.  b is     *)
(* what it has made of those before f: the next watermark, the candidates, *)
(* and the file in which each session was met first.                       *)

(* Mutant: the first of two files with the same session stays.             *)
MutDuplicate(b, f) == b
(* A session in more than one file is in none.                             *)
Duplicate(b, f) ==
    LET first == b.first[reads[f].session]
    IN  [b EXCEPT !.next[first] = Null, !.candidates = @ \ {first}]

Waits(b, f) == [b EXCEPT !.next[f] = watermark[f]]

Entry(f) == [at |-> reads[f].at, session |-> reads[f].session]

Occurs(b, f) ==
    LET met == [b EXCEPT !.first[reads[f].session] = f]
    IN  IF watermark[f] = Entry(f) THEN [met EXCEPT !.next[f] = Entry(f)]
        ELSE IF Cardinality(b.candidates) >= Limit THEN Waits(met, f)
        ELSE [met EXCEPT !.next[f] = Entry(f), !.candidates = @ \cup {f}]

TakeFile(b, f) ==
    IF reads[f] = Null THEN b
    ELSE IF reads[f].is # "read" THEN [b EXCEPT !.next[f] = watermark[f]]
    ELSE IF b.first[reads[f].session] # 0 THEN Duplicate(b, f)
    ELSE Occurs(b, f)

Taking[n \in 0..NumFiles] ==
    IF n = 0 THEN [next |-> Nothing, candidates |-> {}, first |-> [s \in Sessions |-> 0]]
    ELSE TakeFile(Taking[n - 1], n)
Taken == Taking[NumFiles]

(* If a file could not be read, the inventory is incomplete and every      *)
(* entry stays; otherwise those of files that are gone do not.             *)
Incomplete == \E f \in Places : reads[f] # Null /\ reads[f].is = "unread"
Kept(next) == [f \in Places |-> IF Incomplete /\ next[f] = Null THEN watermark[f] ELSE next[f]]

(* The sessions whose entry is gone, or is of another session now.         *)
Removals(next) ==
    {watermark[f].session : f \in {g \in Known : \/ next[g] = Null
                                                 \/ next[g].session # watermark[g].session}}

Conclude == /\ pc = "reading" /\ todo = {}
            /\ \E taken \in {Taken} : \E next \in {Kept(taken.next)} :
                  /\ batch' = [candidates |-> taken.candidates, next |-> next,
                               removals |-> Removals(next)]
                  /\ pc' = "extracting" /\ todo' = taken.candidates
            /\ UNCHANGED <<environment, index, reads, extracted, failed>>

-----------------------------------------------------------------------------
(* discover_conversations_cancellable(), refresh_page_cancellable().       *)

(* extract_metadata_raw() reads the file once more; project_evidence_raw() *)
(* opens it.                                                               *)
Extract == /\ pc = "extracting" /\ todo # {}
           /\ \E f \in {Lowest(todo)} :
              /\ todo' = todo \ {f}
              /\ IF Read(f) = reads[f] THEN extracted' = extracted \cup {f} /\ UNCHANGED failed
                 ELSE failed' = TRUE /\ UNCHANGED extracted
           /\ UNCHANGED <<environment, index, pc, reads, batch>>

SessionsOf(w, fs) == {w[f].session : f \in {g \in fs : w[g] # Null}}
Doubled(w) == {s \in Sessions : \E f, g \in Places : /\ f # g /\ w[f] # Null /\ w[g] # Null
                                                     /\ s = w[f].session /\ s = w[g].session}

Removed == IF failed THEN {} ELSE batch.removals

(* Removals come first, then what was extracted, even if a candidate       *)
(* failed; then the watermark does not advance.                            *)
Merge ==
    /\ pc = "extracting" /\ todo = {}
    /\ list' = [s \in Sessions |->
                  IF \E f \in extracted : reads[f].session = s
                  THEN LET f == CHOOSE f \in extracted : reads[f].session = s
                       IN  [at |-> reads[f].at, file |-> f]
                  ELSE IF s \in Removed THEN Null ELSE list[s]]
    /\ IF failed
       THEN /\ strays' = strays \cup {reads[f].session : f \in extracted}
            /\ UNCHANGED <<watermark, contested>>
       ELSE /\ watermark' = batch.next
            /\ strays' = (strays \ batch.removals) \ SessionsOf(batch.next, Places)
            /\ contested' = (contested \ {reads[f].session : f \in extracted}) \cup Doubled(batch.next)
    /\ Idle
    /\ UNCHANGED environment

(* The page is cancelled, or the dock ends. *)
Abandon == /\ pc # "idle" /\ edits < MaxEdits
           /\ edits' = edits + 1
           /\ Idle
           /\ UNCHANGED <<file, hidden, here, index>>

(* A file changes while it is read. *)
ChangesUnderRead == /\ pc = "reading" /\ todo # {} /\ edits < MaxEdits
                    /\ \E f \in {Lowest(todo)} : \E s \in Sessions \cup {Bad} :
                       /\ f \in Present \ hidden
                       /\ file' = [file EXCEPT ![f] = [at |-> edits + 1, session |-> s]]
                       /\ todo' = todo \ {f}
                       /\ reads' = [reads EXCEPT ![f] = [at |-> 0, is |-> "bad"]]
                    /\ edits' = edits + 1
                    /\ UNCHANGED <<index, hidden, here, pc, batch, extracted, failed>>

Page == Begin \/ ReadFile \/ Conclude \/ Extract \/ Merge
Next == \/ \E f \in Places : Write(f) \/ Delete(f) \/ Chmod(f) \/ \E g \in Places : Rename(f, g)
        \/ Withdraw \/ ChangesUnderRead
        \/ Page \/ Abandon
Spec == Init /\ [][Next]_vars
FairSpec == Spec /\ WF_vars(Page)

-----------------------------------------------------------------------------
(* The types of the files, what was read of them, and the page.            *)
Stored == {Null} \cup [at : Nat, session : Sessions]
Reading == {Null} \cup [at : {0}, is : {"listed", "unread", "bad"}]
                  \cup [at : Nat, is : {"read"}, session : Sessions]
Contents == [Places -> {Null} \cup [at : Nat, session : Sessions \cup {Bad}]]
Listed == [Sessions -> {Null} \cup [at : Nat, file : Places]]
Batch == [candidates : SUBSET Places, removals : SUBSET Sessions, next : [Places -> Stored]]
TypeOK ==
    /\ file \in Contents
    /\ watermark \in [Places -> Stored]
    /\ list \in Listed
    /\ pc \in {"idle", "reading", "extracting"}
    /\ todo \subseteq Places
    /\ reads \in [Places -> Reading]
    /\ batch \in Batch
    /\ extracted \subseteq Places
    /\ failed \in BOOLEAN
    /\ edits \in Nat

(* What the loop leaves: an entry is the old one or that of a candidate,   *)
(* and the entry of a candidate is of the session that was read.           *)
Successful(f) == reads[f] # Null /\ reads[f].is = "read"
Made(next, candidates) ==
    /\ \A f \in candidates : Successful(f) /\ next[f] = Entry(f)
    /\ \A f \in Places \ candidates : next[f] \in {Null, watermark[f]}

Batched ==
    /\ pc # "extracting" => extracted = {}
    /\ pc = "extracting" =>
          /\ Made(batch.next, batch.candidates)
          /\ batch.removals = Removals(batch.next)
          /\ extracted \cup todo \subseteq batch.candidates
          /\ failed \/ batch.candidates \subseteq extracted \cup todo

(* Two entries of one session: neither may be passed over for good.        *)
Rivals == \A f, g \in Known : f # g /\ watermark[f].session = watermark[g].session
                              => watermark[f].session \in contested

-----------------------------------------------------------------------------
(* What the watermark holds as read is in the index, unless another entry  *)
(* named the same session when the watermark was written: a file that is   *)
(* passed over because it has not changed is never one that is not listed. *)
Covered == \A f \in Known : watermark[f].session \in contested \/ list[watermark[f].session] # Null

(* What is in the index is in the watermark, which is how it is missed     *)
(* when it goes, unless it was taken from a page that failed.              *)
Accounted == \A s \in Sessions : list[s] # Null => s \in strays \cup SessionsOf(watermark, Places)

(* The files that can hold a session; the sessions that an entry or an     *)
(* incomplete inventory keeps although no file has them.                   *)
Holders(s) == {f \in Listing \ hidden : file[f].session = s}
Kept1 == SessionsOf(watermark, {f \in Listing : f \in hidden \/ file[f].session = Bad})

(* When nobody writes any more and pages go on being read, the index holds *)
(* the sessions that exactly one file has, from that file as it is, and no *)
(* others, but for those an unreadable file keeps or had contested.        *)
Agrees == \A s \in Sessions \ contested :
             \/ s \in strays /\ Cardinality(Holders(s)) # 1
             \/ Listing \cap hidden # {} /\ Cardinality(Holders(s)) # 1
             \/ list[s] # Null /\ s \in Kept1 /\ Cardinality(Holders(s)) # 1
             \/ IF Cardinality(Holders(s)) = 1
                THEN \E f \in Holders(s) : list[s] = [at |-> file[f].at, file |-> f]
                ELSE list[s] = Null
Settles == <>[](here => Agrees)
=============================================================================
