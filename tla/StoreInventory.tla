---------------------------- MODULE StoreInventory ----------------------------
(***************************************************************************)
(* How a page of discovery finds the transcripts of a known store: each    *)
(* format walks its own layout of directories                              *)
(* (src/src/conversations/sources/pi.rs, omp.rs, claude_code.rs and        *)
(* codex_cli.rs), and the store looks at what was found (known_stores.rs). *)
(*                                                                         *)
(* A step enumerates a directory, looks at its entries, or ends the walk;  *)
(* agents and the user change the store between any two.  A path is a      *)
(* sequence of names, which are numbers so that names can be sorted; <<>>  *)
(* is the project's directory for Pi and OMP, the store for the others.    *)
(* Each transcript is one that can be read and has a session of its own:   *)
(* ConversationDiscovery tells what becomes of others.                     *)
(***************************************************************************)
EXTENDS Naturals, SequencesExt, FiniteSetsExt

CONSTANTS Layout,     \* for each format the places of its store and what is there
          Expected,   \* the directory of the project in Claude Code's store
          DirLimits,  \* MAX_PROJECT_DIRECTORIES, MAX_LAYOUT_DIRECTORIES
          MaxFiles,   \* MAX_CANDIDATE_PATHS and MAX_DIRECTORY_ENTRIES, which are equal
          MaxStore,   \* MAX_STORE_FILES
          MaxEdits    \* bound on the changes of the store

Formats == {"pi", "omp", "claude", "codex"}
Depth == [pi |-> 0, omp |-> 0, claude |-> 1, codex |-> 3]

VARIABLES format, max_dirs,
          entries,     \* the places where something is
          unreadable,  \* directories that cannot be listed
          pc,
          todo,        \* directories to list
          names,       \* what the enumeration of the first of them has yielded
          children,    \* directories of the next level
          files,       \* transcripts found
          visited,     \* entries looked at
          errors,      \* kinds of the errors noted
          index,       \* the transcripts whose sessions are listed
          steady,      \* auxiliary: transcripts there since the walk began
          missed,      \* auxiliary: an entry went away between enumeration and look
          edits

store == <<entries, unreadable, steady, edits>>
walk == <<pc, todo, names, children, files, visited, errors, missed>>
vars == <<format, max_dirs, store, walk, index>>

Flat == format \in {"pi", "omp"}
Leaf(d) == Len(d) = Depth[format]
Places == DOMAIN Layout[format]
Kind(n) == IF n = <<>> THEN "directory" ELSE Layout[format][n]
Within(n, d) == IsPrefix(d, n)
EntriesOf(d) == {n \in entries : n # <<>> /\ Front(n) = d}
Transcripts == {n \in entries \ {<<>>} : Kind(n) = "file"}

Init == /\ format \in Formats
        /\ max_dirs \in DirLimits
        /\ entries = Places \cup {<<>>}
        /\ unreadable = {}
        /\ pc = "idle"
        /\ todo = {} /\ names = {} /\ children = {} /\ files = {}
        /\ visited = 0 /\ errors = {} /\ missed = FALSE
        /\ index = {} /\ steady = {} /\ edits = 0

-----------------------------------------------------------------------------
(* The environment.                                                        *)

Edit == edits < MaxEdits /\ edits' = edits + 1 /\ UNCHANGED <<format, max_dirs, walk, index>>
Create(n) == /\ Edit
             /\ n \notin entries /\ Front(n) \in entries
             /\ entries' = entries \cup {n}
             /\ UNCHANGED <<unreadable, steady>>
Delete(n) == LET gone == {x \in entries : Within(x, n)} IN
             /\ Edit
             /\ n \in entries
             /\ n = <<>> => Flat
             /\ entries' = entries \ gone
             /\ unreadable' = unreadable \ gone
             /\ steady' = steady \ gone
Chmod(d) == /\ Edit
            /\ d \in entries /\ Kind(d) = "directory"
            /\ unreadable' = IF d \in unreadable THEN unreadable \ {d} ELSE unreadable \cup {d}
            /\ UNCHANGED <<entries, steady>>
-----------------------------------------------------------------------------
(* The walk.                                                               *)

(* Once the store has been probed. *)
Begin == /\ pc = "idle"
         /\ Flat \/ <<>> \in entries
         /\ pc' = "open"
         /\ todo' = {<<>>}
         /\ files' = {} /\ children' = {} /\ visited' = 0 /\ errors' = {} /\ missed' = FALSE
         /\ steady' = Transcripts
         /\ UNCHANGED <<format, max_dirs, entries, unreadable, names, index, edits>>

Goes(on) == /\ todo' = on
            /\ pc' = IF on = {} THEN "stamp" ELSE "open"
Stops == Goes({}) /\ children' = {}
Notes(found) == errors' = errors \cup found

(* By name, the last name first; Claude Code has the project's own         *)
(* directory first and the others in order.                                *)
Later(m, n) == \E i \in DOMAIN m : m[i] > n[i] /\ \A j \in 1..i - 1 : m[j] = n[j]
Precedes(m, n) == IF format = "claude" /\ Len(m) = 1
                  THEN m = Expected \/ (n # Expected /\ Later(n, m))
                  ELSE Later(m, n)
First(S) == CHOOSE x \in S : \A y \in S \ {x} : Precedes(x, y)
(* What truncate() leaves of S, once it is sorted.                         *)
Foremost(n, S) == {x \in S : Cardinality({y \in S \ {x} : Precedes(y, x)}) < n}

(* Mutant: what is cut off is not noted.                                   *)
MutTruncated(S) == {}
Truncated(S) == IF Cardinality(S) > max_dirs THEN {"limit"} ELSE {}

(* From d on to the next directory of the level, or to the next level.     *)
Continues(d, found, noted) ==
    IF todo # {d}
    THEN Goes(todo \ {d}) /\ children' = found /\ Notes(noted)
    ELSE /\ Goes(Foremost(max_dirs, found))
         /\ children' = {}
         /\ Notes(noted \cup Truncated(found))

(* The directory is not there, or an entry went between the enumeration    *)
(* and the look at it: either way list_directory() fails with NotFound.    *)
(* That is an error only for directories found at the level above.         *)
Missing(d) == Continues(d, children, IF Leaf(d) /\ ~Flat THEN {"listing"} ELSE {})
Unlistable(d) == Continues(d, children, {"listing"})

Of(kind) == {n \in names : Kind(n) = kind}
Shape(odd) == IF odd = {} THEN {} ELSE {"shape"}

PiLists == /\ format = "pi"
           /\ files' = Of("file") /\ Stops /\ Notes(Shape(names \ Of("file")))
           /\ UNCHANGED visited
OmpLists == /\ format = "omp"
            /\ files' = Of("file") /\ Stops /\ Notes(Shape(Of("other")))
            /\ UNCHANGED visited

(* Entries are counted, and the walk stops at MAX_VISITED_ENTRIES and at   *)
(* MAX_CANDIDATE_PATHS.                                                    *)
Looked == LET budget == MaxFiles + (IF format = "claude" THEN 1 ELSE 3) * max_dirs
          IN  Foremost(budget - visited, names)
Collects(d, opaque) ==
    LET found == Looked \cap Of("file")
        room == MaxFiles - Cardinality(files)
        odd == Shape(Looked \ (Of("file") \cup opaque))
    IN  /\ visited' = visited + Cardinality(Looked)
        /\ files' = files \cup Foremost(room, found)
        /\ IF Looked # names \/ Cardinality(found) > room
           THEN Stops /\ Notes(odd \cup {"limit"})
           ELSE Continues(d, children, odd)

ClaudeLists(d) ==
    /\ format = "claude"
    /\ \/ /\ d = <<>>
          /\ visited' = Cardinality(names)
          /\ Continues(d, children \cup Of("directory"), Shape(names \ Of("directory")))
          /\ UNCHANGED files
       \/ d # <<>> /\ Collects(d, Of("directory"))
CodexLists(d) ==
    /\ format = "codex"
    /\ \/ /\ ~Leaf(d)
          /\ visited' = visited + Cardinality(Looked)
          /\ LET odd == Shape(Looked \ Of("directory")) IN
             IF Looked # names
             THEN Stops /\ Notes(odd \cup {"limit"})
             ELSE Continues(d, children \cup Of("directory"), odd)
          /\ UNCHANGED files
       \/ Leaf(d) /\ Collects(d, {})

Constant == UNCHANGED <<format, max_dirs, store, index>>

Enumerate == /\ pc = "open"
             /\ LET d == First(todo) IN
                IF d \in entries \ unreadable
                THEN /\ names' = EntriesOf(d) /\ pc' = "look"
                     /\ UNCHANGED <<todo, children, errors>>
                ELSE /\ IF d \in unreadable THEN Unlistable(d) ELSE Missing(d)
                     /\ UNCHANGED names
             /\ UNCHANGED <<files, visited, missed>> /\ Constant

(* An entry that has gone may have been looked at before it went.          *)
Look == /\ pc = "look"
        /\ LET d == First(todo) IN
           \/ /\ ~(names \subseteq entries)
              /\ Missing(d) /\ missed' = TRUE
              /\ UNCHANGED <<files, visited>>
           \/ /\ Cardinality(names) > MaxFiles
              /\ Unlistable(d)
              /\ UNCHANGED <<files, visited, missed>>
           \/ /\ Cardinality(names) <= MaxFiles
              /\ PiLists \/ OmpLists \/ ClaudeLists(d) \/ CodexLists(d)
              /\ UNCHANGED missed
        /\ names' = {}
        /\ Constant

-----------------------------------------------------------------------------
(* What the page makes of it.                                              *)

Stamped == {f \in files \cap entries : \A i \in 0..Len(f) - 1 : SubSeq(f, 1, i) \notin unreadable}
Complete == /\ errors \subseteq {"shape"}
            /\ Stamped = files
            /\ Cardinality(files) <= MaxStore

Ends == /\ pc' = "idle"
        /\ todo' = {} /\ names' = {} /\ children' = {} /\ files' = {}
        /\ visited' = 0 /\ errors' = {} /\ missed' = FALSE /\ steady' = {}
        /\ UNCHANGED <<format, max_dirs, entries, unreadable, edits>>

(* The sessions of known transcripts are removed when they are not in a    *)
(* complete inventory.  Which ones MAX_STORE_FILES leaves depends on when  *)
(* they were written, which is not modelled.                               *)
Conclude == /\ pc = "stamp"
            /\ \E kept \in kSubset(Min({MaxStore, Cardinality(Stamped)}), Stamped) :
                  index' = IF Complete THEN kept ELSE index \cup kept
            /\ Ends
(* The page is cancelled.                                                  *)
Abandon == pc # "idle" /\ Ends /\ UNCHANGED index

Walk == Begin \/ Enumerate \/ Look \/ Conclude \/ Abandon
Next == \/ \E n \in Places \cup {<<>>} : Delete(n) \/ Chmod(n)
        \/ \E n \in Places : Create(n)
        \/ Walk
Spec == Init /\ [][Next]_vars

-----------------------------------------------------------------------------
(* What is assumed of a layout: what is not at the top is in a directory,  *)
(* and transcripts are as deep as their format has them.                   *)
LayoutIsTree ==
    \A f \in Formats :
       /\ IsFiniteSet(DOMAIN Layout[f])
       /\ \A n \in DOMAIN Layout[f] :
             /\ n \in Seq(Nat) /\ n # <<>>
             /\ Layout[f][n] = "file" => Len(n) = Depth[f] + 1
             /\ \A k \in 1..Len(n) - 1 : /\ SubSeq(n, 1, k) \in DOMAIN Layout[f]
                                         /\ Layout[f][SubSeq(n, 1, k)] = "directory"
LimitsAreNumbers == DirLimits \subseteq Nat /\ MaxFiles \in Nat /\ MaxStore \in Nat

TypeOK == /\ format \in Formats /\ max_dirs \in DirLimits
          /\ entries \subseteq Places \cup {<<>>} /\ steady \subseteq Transcripts
          /\ pc \in {"idle", "open", "look", "stamp"}
          /\ todo \subseteq Places \cup {<<>>}
          /\ names \cup children \cup files \cup index \subseteq Places
          /\ errors \subseteq {"listing", "limit", "shape"}
          /\ missed \in BOOLEAN

(* A directory is there as long as anything is in it.                      *)
Rooted == \A n \in entries : \A k \in 0..Len(n) : SubSeq(n, 1, k) \in entries

(* The enumeration has what was there all along.                           *)
Enumerated == pc = "look" => \A f \in steady : \A k \in 1..Len(f) :
                                SubSeq(f, 1, k - 1) = First(todo) => SubSeq(f, 1, k) \in names

Levels == /\ pc \in {"open", "look"} => todo # {} /\ (Flat => todo = {<<>>} /\ children = {})
          /\ pc = "stamp" => todo = {} /\ children = {}

(* Unless an error says so, a transcript that was there all along has been *)
(* found, or one of the directories it is in is still to be listed.        *)
Ahead(f) == \E k \in 0..Len(f) - 1 : SubSeq(f, 1, k) \in todo \cup children
NothingLost == pc # "idle" /\ errors \subseteq {"shape"} /\ ~missed
               => \A f \in steady : f \in files \/ Ahead(f)

-----------------------------------------------------------------------------
(* Properties.                                                             *)

(* An inventory that counts as complete has every transcript that was      *)
(* there while it was made, whatever else came and went, was cut off or    *)
(* could not be read, unless an entry went away under the very listing.    *)
InventoryComplete == pc = "stamp" /\ Complete /\ ~missed => steady \subseteq files

(* What README.md:158 says: sessions disappear only after a refresh proves *)
(* that they were deleted.                                                 *)
Proved == \A f \in index \ index' : f \notin steady
ListedStay == [][Proved]_index

(* What is true of it: a session disappears without a proof only after an  *)
(* entry went away under the listing.                                      *)
ListedStayUnlessMissed == [][missed \/ Proved]_vars
=============================================================================
