-------------------------- MODULE ConversationCache --------------------------
(***************************************************************************)
(* The cache directory of a project's conversation index                   *)
(* (src/src/conversations/index.rs).  Every dock of the project, each a    *)
(* process of its own, opens the index at the start of each discovery job  *)
(* and replaces it at the end: a file named after its generation, and a    *)
(* file `current` that names it.  There is no lock.                        *)
(*                                                                         *)
(* A step is a file operation.  A write with its fsync is one step: a file *)
(* gets its final name only after them.  What the index holds is left out. *)
(***************************************************************************)
EXTENDS Naturals, FiniteSets, FiniteSetsExt

CONSTANTS Docks, NoFile,
          MaxEntries,  \* MAX_CACHE_DIRECTORY_ENTRIES, 64: what a listing looks at
          MaxJobs,     \* bound on the jobs of a dock
          MaxFaults    \* bound on failing jobs and dying docks

ASSUME BoundAssumption == MaxEntries \in Nat /\ MaxJobs \in Nat /\ MaxFaults \in Nat

VARIABLES temporaries,  \* cache files being written
          files,        \* published cache files
          pointers,     \* pointer files being written
          current,      \* the cache file that `current` names
          pc,           \* where the job of each dock is
          base,         \* the cache file its index is opened from
          mine,         \* the cache file it writes
          listed,       \* what it found in the directory and has still to remove
          jobs,         \* jobs a dock has begun: the nonces of its file names
          overlapped,   \* auxiliary: two jobs have run at the same time
          swept,        \* auxiliary: the latest job removed older generations
          whole,        \* auxiliary: its listings left out no entry
          faults

directory == <<temporaries, files, pointers, current>>
vars == <<directory, pc, base, mine, listed, jobs, overlapped, swept, whole, faults>>

CacheFile == [dock : Docks, nonce : 1..MaxJobs, generation : Nat \ {0}]

ASSUME NoFileAssumption == NoFile \notin CacheFile

Init == /\ temporaries = {}
        /\ files = {}
        /\ pointers = {}
        /\ current = NoFile
        /\ pc = [d \in Docks |-> "idle"]
        /\ base = [d \in Docks |-> NoFile]
        /\ mine = [d \in Docks |-> NoFile]
        /\ listed = [d \in Docks |-> {}]
        /\ jobs = [d \in Docks |-> 0]
        /\ overlapped = FALSE
        /\ swept = FALSE
        /\ whole = TRUE
        /\ faults = 0

Goto(d, l) == pc' = [pc EXCEPT ![d] = l]
Busy == {d \in Docks : pc[d] # "idle"}

(* The job ends, having published its index or not.                        *)
End(d) == /\ Goto(d, "idle")
          /\ base' = [base EXCEPT ![d] = NoFile]
          /\ mine' = [mine EXCEPT ![d] = NoFile]
          /\ listed' = [listed EXCEPT ![d] = {}]

-----------------------------------------------------------------------------
(* Listing the directory.                                                  *)

(* The entries of the directory, the file `current` among them.            *)
Entries == {"temporary"} \X temporaries \cup {"pointer"} \X pointers \cup {"file"} \X files
           \cup {"current"} \X ({current} \ {NoFile})

(* read_dir() gives them in no order, and .take() the first of them only.  *)
Listings == kSubset(Min({Cardinality(Entries), MaxEntries}), Entries)

-----------------------------------------------------------------------------
(* Opening the index.                                                      *)

(* cleanup_stale_temporaries() lists the directory, then removes one by    *)
(* one the temporaries of a dock that died, or of one that is writing      *)
(* them.  To find one gone is an error.                                    *)
Begin(d) ==
    /\ pc[d] = "idle"
    /\ jobs[d] < MaxJobs
    /\ jobs' = [jobs EXCEPT ![d] = @ + 1]
    /\ overlapped' = (overlapped \/ Busy # {})
    /\ swept' = FALSE
    /\ \E names \in Listings :
          /\ listed' = [listed EXCEPT ![d] = names \cap ({"temporary", "pointer"} \X CacheFile)]
          /\ whole' = (names = Entries)
    /\ Goto(d, "clean")
    /\ UNCHANGED <<directory, base, mine, faults>>

Clean(d) ==
    /\ pc[d] = "clean"
    /\ \/ \E name \in listed[d] :
             /\ temporaries' = IF name[1] = "temporary" THEN temporaries \ {name[2]} ELSE temporaries
             /\ pointers' = IF name[1] = "pointer" THEN pointers \ {name[2]} ELSE pointers
             /\ IF <<temporaries', pointers'>> # <<temporaries, pointers>>
                THEN /\ listed' = [listed EXCEPT ![d] = @ \ {name}]
                     /\ UNCHANGED <<pc, base, mine>>
                ELSE End(d)
       \/ /\ listed[d] = {}
          /\ Goto(d, "find")
          /\ UNCHANGED <<temporaries, pointers, base, mine, listed>>
    /\ UNCHANGED <<files, current, jobs, overlapped, swept, whole, faults>>

(* latest_cache_file(): a pointer to a file that is not there counts as    *)
(* none.                                                                   *)
Find(d) ==
    /\ pc[d] = "find"
    /\ base' = [base EXCEPT ![d] = IF current \in files THEN current ELSE NoFile]
    /\ Goto(d, "read")
    /\ UNCHANGED <<directory, mine, listed, jobs, overlapped, swept, whole, faults>>

Generation(x) == IF x = NoFile THEN 0 ELSE x.generation

(* read_private_cache(), and the refresh of the index: its generation is   *)
(* the next one.  A file that was removed meanwhile is an error.           *)
Read(d) ==
    /\ pc[d] = "read"
    /\ IF base[d] \in files \cup {NoFile}
       THEN /\ mine' = [mine EXCEPT ![d] = [dock |-> d, nonce |-> jobs[d],
                                            generation |-> Generation(base[d]) + 1]]
            /\ Goto(d, "write")
            /\ UNCHANGED <<base, listed>>
       ELSE End(d)
    /\ UNCHANGED <<directory, jobs, overlapped, swept, whole, faults>>

-----------------------------------------------------------------------------
(* persist_cancellable().                                                  *)

Write(d) ==
    /\ pc[d] = "write"
    /\ temporaries' = temporaries \cup {mine[d]}
    /\ Goto(d, "publish")
    /\ UNCHANGED <<files, pointers, current, base, mine, listed, jobs, overlapped, swept, whole, faults>>

(* The temporary gets its final name, unless another dock has removed it.  *)
Publish(d) ==
    /\ pc[d] = "publish"
    /\ IF mine[d] \in temporaries
       THEN /\ temporaries' = temporaries \ {mine[d]}
            /\ files' = files \cup {mine[d]}
            /\ Goto(d, "point")
            /\ UNCHANGED <<base, mine, listed>>
       ELSE End(d) /\ UNCHANGED <<temporaries, files>>
    /\ UNCHANGED <<pointers, current, jobs, overlapped, swept, whole, faults>>

MutPoint(d) ==
    /\ pc[d] = "point"
    /\ pointers' = pointers \cup {mine[d]}
    /\ files' = {x \in files : x.generation >= mine[d].generation}
    /\ Goto(d, "switch")
    /\ UNCHANGED <<temporaries, current, base, mine, listed, jobs, overlapped, swept, whole, faults>>

Point(d) ==
    /\ pc[d] = "point"
    /\ pointers' = pointers \cup {mine[d]}
    /\ Goto(d, "switch")
    /\ UNCHANGED <<temporaries, files, current, base, mine, listed, jobs, overlapped, swept, whole, faults>>

MutOlder(d) == {x \in files : x.generation + 1 < mine[d].generation}

Older(d) == {x \in files : x.generation < mine[d].generation}

(* publish_current_pointer(); then the directory is listed again.          *)
Switch(d) ==
    /\ pc[d] = "switch"
    /\ UNCHANGED <<temporaries, files, jobs, overlapped, swept, faults>>
    /\ IF mine[d] \in pointers
       THEN /\ pointers' = pointers \ {mine[d]}
            /\ current' = mine[d]
            /\ \E names \in Listings' :
                  /\ listed' = [listed EXCEPT ![d] = names \cap ({"file"} \X Older(d))]
                  /\ whole' = (whole /\ names = Entries')
            /\ Goto(d, "sweep")
            /\ UNCHANGED <<base, mine>>
       ELSE End(d) /\ UNCHANGED <<pointers, current, whole>>

(* remove_older_generations(), one by one.  To find one gone is an error.  *)
Sweep(d) ==
    /\ pc[d] = "sweep"
    /\ \/ \E name \in listed[d] :
             /\ files' = files \ {name[2]}
             /\ IF name[2] \in files
                THEN listed' = [listed EXCEPT ![d] = @ \ {name}] /\ UNCHANGED <<pc, base, mine>>
                ELSE End(d)
             /\ UNCHANGED swept
       \/ /\ listed[d] = {}
          /\ swept' = TRUE
          /\ End(d)
          /\ UNCHANGED files
    /\ UNCHANGED <<temporaries, pointers, current, jobs, overlapped, whole, faults>>

-----------------------------------------------------------------------------
(* Failures.                                                               *)

Fault == faults < MaxFaults /\ faults' = faults + 1

(* An operation fails, or the job is cancelled: its temporaries go.        *)
Fail(d) ==
    /\ pc[d] # "idle"
    /\ Fault
    /\ temporaries' = temporaries \ {mine[d]}
    /\ pointers' = pointers \ {mine[d]}
    /\ End(d)
    /\ UNCHANGED <<files, current, jobs, overlapped, swept, whole>>

(* The dock dies: nothing is cleaned up.                                   *)
Die(d) ==
    /\ pc[d] # "idle"
    /\ Fault
    /\ End(d)
    /\ UNCHANGED <<directory, jobs, overlapped, swept, whole>>

Next == \E d \in Docks : \/ Begin(d) \/ Clean(d) \/ Find(d) \/ Read(d)
                         \/ Write(d) \/ Publish(d) \/ Point(d) \/ Switch(d) \/ Sweep(d)
                         \/ Fail(d) \/ Die(d)

Spec == Init /\ [][Next]_vars

-----------------------------------------------------------------------------
(* Properties.                                                             *)

(* Types; a file has one name at a time, and a dock works on its own.      *)
TypeOK ==
    /\ temporaries \subseteq CacheFile
    /\ files \subseteq CacheFile
    /\ pointers \subseteq CacheFile
    /\ current \in CacheFile \cup {NoFile}
    /\ pc \in [Docks -> {"idle", "clean", "find", "read", "write",
                       "publish", "point", "switch", "sweep"}]
    /\ base \in [Docks -> CacheFile \cup {NoFile}]
    /\ mine \in [Docks -> CacheFile \cup {NoFile}]
    /\ listed \in [Docks -> SUBSET ({"temporary", "pointer", "file"} \X CacheFile)]
    /\ jobs \in [Docks -> 0..MaxJobs]
    /\ overlapped \in BOOLEAN
    /\ swept \in BOOLEAN
    /\ whole \in BOOLEAN
    /\ faults \in 0..MaxFaults
    /\ temporaries \cap files = {}
    /\ \A d \in Docks : pc[d] \in {"publish", "point", "switch", "sweep"} =>
          mine[d].dock = d /\ mine[d].nonce = jobs[d]

(* The generation a dock would open now.                                   *)
Opened == IF current \in files THEN current.generation ELSE 0

(* As long as jobs do not overlap, wherever they fail and docks die, the   *)
(* index is replaced as a whole and by its successor: opening it gives the *)
(* generation before or after a job, never an empty or an older index.     *)
GenerationsAdvance == [][~overlapped => Opened' \in {Opened, Opened + 1}]_<<files, current>>

(* Once a job has ended in its usual way, its index is there, even if      *)
(* earlier jobs failed or docks died in the middle of them; and if the     *)
(* entries of the directory were within what a listing looks at, nothing   *)
(* is left of writes in progress or of the generations before it.  Beyond  *)
(* that limit it leaves what it has not seen, for the next job.            *)
Tidy == swept /\ ~overlapped /\ Busy = {} =>
           /\ current \in files
           /\ whole => /\ temporaries = {} /\ pointers = {}
                       /\ \A x \in files : x.generation >= current.generation

(* `current` always names a file that is there.                            *)
NeverDangles == current # NoFile => current \in files
-----------------------------------------------------------------------------
(* The parts of the inductive invariant behind the properties above.       *)

Starting == {"clean", "find", "read", "write"}
Replacing == {"write", "publish", "point", "switch", "sweep"}
Before(x) == x.nonce <= jobs[x.dock] /\ (pc[x.dock] \in Starting => x.nonce < jobs[x.dock])

(* A job writes a file of its own name, which nobody has used before.      *)
Fresh ==
    /\ \A d \in Docks : pc[d] # "idle" => jobs[d] >= 1
    /\ \A d \in Docks : pc[d] \in Replacing =>
          mine[d] \in CacheFile /\ mine[d].dock = d /\ mine[d].nonce = jobs[d]
    /\ \A x \in temporaries \cup files : Before(x)
    /\ current # NoFile => Before(current)
    /\ \A d \in Docks : pc[d] \in {"publish", "point", "switch"} => current # mine[d]

(* What the directory holds when one job has run at a time: what the only  *)
(* job has written so far, and what it knows to be left of earlier ones.   *)
Single == \A d, e \in Docks : pc[d] # "idle" /\ pc[e] # "idle" => d = e

Swept(d) ==
    /\ whole =>
          /\ pc[d] = "clean" => /\ \A x \in temporaries : <<"temporary", x>> \in listed[d]
                                /\ \A x \in pointers : <<"pointer", x>> \in listed[d]
          /\ pc[d] \in {"find", "read", "write"} => temporaries = {} /\ pointers = {}
          /\ pc[d] = "publish" => temporaries \subseteq {mine[d]} /\ pointers = {}
          /\ pc[d] \in {"point", "sweep"} => temporaries = {} /\ pointers = {}
          /\ pc[d] = "switch" => temporaries = {} /\ pointers \subseteq {mine[d]}
    /\ pc[d] # "idle" => ~swept

Succeeds(d) ==
    /\ pc[d] = "read" => base[d] = IF current \in files THEN current ELSE NoFile
    /\ pc[d] \in {"write", "publish", "point", "switch"} => mine[d].generation = Opened + 1
    /\ pc[d] \in {"point", "switch", "sweep"} => mine[d] \in files
    /\ pc[d] = "sweep" =>
          /\ current = mine[d]
          /\ whole => \A x \in files :
                         x.generation < mine[d].generation => <<"file", x>> \in listed[d]
          /\ \A name \in listed[d] : name[2].generation < mine[d].generation

Alone == ~overlapped => Single /\ \A d \in Docks : Swept(d) /\ Succeeds(d)
=============================================================================
